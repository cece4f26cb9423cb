----------------------------- MODULE ElasticFlow -----------------------------
(***************************************************************************)
(* QueueFlow while the flow is suspended and resumed and the number of     *)
(* instances of a flowlet is changed: FlowProgramController.changeInstances *)
(* (and doSuspend followed by doResume) with FlowletProgramController and  *)
(* ConsumerSupplier.  All instances of the flowlet are between two process *)
(* rounds while it happens; each comes back with a new queue consumer for  *)
(* the new group size, and still holds the input it had to retry.          *)
(***************************************************************************)
EXTENDS QueueFlow

(* The consumers of group g, old instances and new ones. *)
Members(g) == {c \in Consumers : GroupOf(c) = g}

(* Instance c is reopened in a group of n: its queue consumer is a new one,
   and the input it may have to retry still belongs to the old one.  Instances
   that are stopped lose their process queue. *)
Survives(c, n) == InstanceOf(c) < n /\ retrying[c]

(* Mutant: the new queue consumers start where the old ones were. *)
OpenKeepsStartKey(M) ==
  /\ dequeuedKeys' = [c \in Consumers |-> IF c \in M THEN {} ELSE dequeuedKeys[c]]
  /\ committed' = [c \in Consumers |-> committed[c] /\ c \notin M]
  /\ UNCHANGED scanVars

(* ConsumerSupplier.close and open: the consumers in M are replaced by new ones,
   which start at the head of the queue and have dequeued nothing. *)
Open(M) ==
  /\ startKey' = [c \in Consumers |-> IF c \in M THEN NoKey ELSE startKey[c]]
  /\ dequeuedKeys' = [c \in Consumers |-> IF c \in M THEN {} ELSE dequeuedKeys[c]]
  /\ committed' = [c \in Consumers |-> committed[c] /\ c \notin M]
  /\ UNCHANGED <<cursor, updateStartKey>>

(* What the drivers of M keep over the change to n instances: the process
   queue of those that go on, with an input that belongs to a closed consumer. *)
KeepProcessQueues(M, n) ==
  /\ input' = [c \in Consumers |-> IF c \in M /\ ~Survives(c, n) THEN {} ELSE input[c]]
  /\ retry' = [c \in Consumers |-> IF c \in M /\ ~Survives(c, n) THEN 0 ELSE retry[c]]
  /\ retrying' = [c \in Consumers |-> retrying[c] /\ (c \in M => Survives(c, n))]
  /\ detached' = [c \in Consumers |-> IF c \in M THEN Survives(c, n) ELSE detached[c]]
  /\ UNCHANGED ignoring

(* increaseInstances, decreaseInstances, or suspend and resume when n is the
   current size. *)
ReopenGroup(g, n) ==
  /\ \A c \in Members(g) : pc[c] = "idle"
  /\ groupSize' = [groupSize EXCEPT ![g] = n]
  /\ Open(Members(g))
  /\ KeepProcessQueues(Members(g), n)
  /\ UNCHANGED <<tephraVars, itemVars, producerVars, pc, faults, historyVars>>

ElasticNext ==
  \/ Next
  \/ \E g \in Groups, n \in 1 .. MaxInstances : ReopenGroup(g, n)

ElasticSpec == Init /\ [][ElasticNext]_vars
=============================================================================
