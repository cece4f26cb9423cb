------------------------------ MODULE QueueFlow ------------------------------
(***************************************************************************)
(* Flowlets at work on one in-memory queue: generator flowlets that emit   *)
(* into it and, for every consumer group, the flowlet instances that read  *)
(* from it.  Each runs the loop of FlowletProcessDriver: start a           *)
(* transaction, dequeue, call the process method, finish or abort the      *)
(* transaction, then retry or ignore an input that failed.  The steps      *)
(* TransactionContext takes on finish (canCommit, commitTx of every        *)
(* client, commit, postTxCommit) and on abort (rollbackTx, abort) are      *)
(* steps of their own here, since other threads run between them and a     *)
(* transaction may time out between them.                                  *)
(***************************************************************************)
EXTENDS InMemoryQueue

CONSTANTS MaxRetries,   \* ProcessMethod.getMaxRetries
          MaxFaults,    \* bound: timeouts and system failures in a behaviour
          TimeoutProcs  \* the clients whose transactions may time out

ASSUME FlowAssumption ==
  MaxRetries \in Nat /\ MaxFaults \in Nat /\ TimeoutProcs \subseteq Clients

VARIABLES
  pc,         \* per client: the step it takes next
  input,      \* per consumer: the keys of the InputDatum it has in hand
  retry,      \* per consumer: InputDatum.getRetry
  retrying,   \* per consumer: its process entry is a retry entry
  ignoring,   \* per consumer: it runs InputAcknowledger.ack
  detached,   \* per consumer: its input came from a queue consumer closed since
  faults,     \* timeouts and system failures so far
  published,  \* history: keys of committed producer transactions
  consumed    \* history: per group and key, committed transactions that used it up

driverVars == <<input, retry, retrying, ignoring, detached>>
historyVars == <<published, consumed>>
vars == <<tephraVars, queueVars, pc, driverVars, faults, historyVars>>

ProducerSteps == {"idle", "emit", "persist", "commit", "rollback", "abort"}
ConsumerSteps == {"idle", "begin", "scan", "process", "finish", "commit", "post",
                  "rollback", "abort", "ignore"}

StepTypeOK ==
  /\ pc \in [Clients -> ProducerSteps \cup ConsumerSteps]
  /\ \A p \in Producers : pc[p] # "idle" => writePointer[p] # NoTx

DriverTypeOK ==
  /\ input \in [Consumers -> SUBSET Key]
  /\ retry \in [Consumers -> Nat]
  /\ retrying \in [Consumers -> BOOLEAN]
  /\ ignoring \in [Consumers -> BOOLEAN]
  /\ detached \in [Consumers -> BOOLEAN]

HistoryTypeOK ==
  /\ published \subseteq Key
  /\ consumed \in [Groups -> [Key -> Nat]]

TypeOK ==
  /\ TephraTypeOK
  /\ QueueTypeOK
  /\ StepTypeOK
  /\ DriverTypeOK
  /\ faults \in 0 .. MaxFaults
  /\ HistoryTypeOK

Init ==
  /\ TephraInit
  /\ QueueInit
  /\ pc = [c \in Clients |-> "idle"]
  /\ input = [c \in Consumers |-> {}]
  /\ retry = [c \in Consumers |-> 0]
  /\ retrying = [c \in Consumers |-> FALSE]
  /\ ignoring = [c \in Consumers |-> FALSE]
  /\ detached = [c \in Consumers |-> FALSE]
  /\ faults = 0
  /\ published = {}
  /\ consumed = [g \in Groups |-> [k \in Key |-> 0]]

At(c, step) == pc[c] = step
Goto(c, step) == pc' = [pc EXCEPT ![c] = step]

(* The consumer's flowlet instance exists. *)
Running(c) == InstanceOf(c) < groupSize[GroupOf(c)]

-----------------------------------------------------------------------------
(* A generator flowlet. *)

PStart(p) ==
  /\ At(p, "idle") /\ Goto(p, "emit")
  /\ StartWriter(p)
  /\ ProducerStartTx(p)
  /\ UNCHANGED <<itemVars, consumerVars, groupSize, driverVars, faults, historyVars>>

PEmit(p) ==
  /\ At(p, "emit") /\ Enqueue(p)
  /\ UNCHANGED <<tephraVars, itemVars, consumerVars, groupSize, pc, driverVars, faults, historyVars>>

(* The process method throws: postProcess aborts the transaction. *)
PFail(p) ==
  /\ At(p, "emit") /\ Goto(p, "rollback")
  /\ UNCHANGED <<tephraVars, queueVars, driverVars, faults, historyVars>>

(* finish: canCommit refuses a timed-out transaction, else commitTx begins. *)
PFinish(p) ==
  /\ At(p, "emit")
  /\ IF CanCommit(p)
     THEN BeginPersist(p) /\ Goto(p, "persist")
     ELSE UNCHANGED producerVars /\ Goto(p, "rollback")
  /\ UNCHANGED <<tephraVars, itemVars, consumerVars, groupSize, driverVars, faults, historyVars>>

PPersist(p) ==
  /\ At(p, "persist") /\ PersistEntry(p)
  /\ UNCHANGED <<tephraVars, consumerVars, groupSize, pc, driverVars, faults, historyVars>>

PPersisted(p) ==
  /\ At(p, "persist") /\ EndPersist(p) /\ Goto(p, "commit")
  /\ UNCHANGED <<tephraVars, itemVars, consumerVars, groupSize, driverVars, faults, historyVars>>

PCommit(p) ==
  /\ At(p, "commit")
  /\ IF CanCommit(p)
     THEN /\ EndTx(p)
          /\ published' = published \cup ({writePointer[p]} \X (0 .. lastEnqueueCount[p] - 1))
          /\ Goto(p, "idle")
     ELSE /\ UNCHANGED <<tephraVars, published>>
          /\ Goto(p, "rollback")
  /\ UNCHANGED <<queueVars, driverVars, faults, consumed>>

(* Mutant: the transaction is aborted at the manager before the rollback. *)
PRollbackAfterAbort(p) ==
  /\ At(p, "rollback") /\ Goto(p, "abort")
  /\ EndTx(p)
  /\ ProducerRollbackTx(p)
  /\ UNCHANGED <<consumerVars, groupSize, driverVars, faults, historyVars>>

PRollback(p) ==
  /\ At(p, "rollback") /\ Goto(p, "abort")
  /\ ProducerRollbackTx(p)
  /\ UNCHANGED <<tephraVars, consumerVars, groupSize, driverVars, faults, historyVars>>

PAbort(p) ==
  /\ At(p, "abort") /\ Goto(p, "idle")
  /\ EndTx(p)
  /\ UNCHANGED <<queueVars, driverVars, faults, historyVars>>

-----------------------------------------------------------------------------
(* A flowlet instance that reads the queue: handleProcessEntry. *)

(* start: a retry entry dequeues from SingleItemQueueReader, which hands out
   the failed input again; any other dequeues from the queue. *)
CStart(c) ==
  /\ At(c, "idle") /\ Running(c)
  /\ StartReader(c)
  /\ ConsumerStartTx(c)
  /\ IF retrying[c]
     THEN Goto(c, "process") /\ retry' = [retry EXCEPT ![c] = @ + 1]
     ELSE Goto(c, "begin") /\ UNCHANGED retry
  /\ UNCHANGED <<itemVars, producerVars, groupSize, input, retrying, ignoring, detached,
                 faults, historyVars>>

CBeginDequeue(c) ==
  /\ At(c, "begin") /\ Goto(c, "scan")
  /\ BeginDequeue(c)
  /\ UNCHANGED <<tephraVars, itemVars, producerVars, groupSize, driverVars, faults, historyVars>>

CScan(c) ==
  /\ At(c, "scan")
  /\ ScanKey(c)
  /\ UNCHANGED <<tephraVars, producerVars, groupSize, pc, driverVars, faults, historyVars>>

(* dequeue returns; an empty result ends the transaction at once. *)
CDequeued(c) ==
  /\ At(c, "scan") /\ EndDequeue(c)
  /\ Goto(c, IF dequeuedKeys[c] = {} THEN "finish" ELSE "process")
  /\ input' = [input EXCEPT ![c] = dequeuedKeys[c]]
  /\ UNCHANGED <<tephraVars, itemVars, producerVars, groupSize, retry, retrying, ignoring,
                 detached, faults, historyVars>>

(* Decoding what was dequeued throws: the driver reports a system failure,
   aborts, and puts the process entry back. *)
CDecodeThrows(c) ==
  /\ At(c, "scan") /\ EndDequeue(c) /\ dequeuedKeys[c] # {}
  /\ faults < MaxFaults /\ faults' = faults + 1
  /\ Goto(c, "rollback")
  /\ UNCHANGED <<tephraVars, itemVars, producerVars, groupSize, driverVars, historyVars>>

(* postProcess after the process method returned: a retried input is
   reclaimed, into the queue consumer it came from. *)
CSuccess(c) ==
  /\ At(c, "process") /\ Goto(c, "finish")
  /\ IF retry[c] > 0 /\ ~detached[c] THEN Reclaim(c, input[c]) ELSE UNCHANGED consumerVars
  /\ UNCHANGED <<tephraVars, itemVars, producerVars, groupSize, driverVars, faults, historyVars>>

(* postProcess after the process method threw. *)
CFailure(c) ==
  /\ At(c, "process") /\ Goto(c, "rollback")
  /\ UNCHANGED <<tephraVars, queueVars, driverVars, faults, historyVars>>

(* finish: canCommit, then commitTx. *)
CFinish(c) ==
  /\ At(c, "finish")
  /\ IF CanCommit(c)
     THEN ConsumerCommitTx(c) /\ Goto(c, "commit")
     ELSE UNCHANGED <<itemVars, consumerVars>> /\ Goto(c, "rollback")
  /\ UNCHANGED <<tephraVars, producerVars, groupSize, driverVars, faults, historyVars>>

(* finish: commit. *)
CCommit(c) ==
  /\ At(c, "commit")
  /\ IF CanCommit(c)
     THEN /\ EndTx(c)
          /\ consumed' = [consumed EXCEPT ![GroupOf(c)] =
               [k \in Key |-> consumed[GroupOf(c)][k] + IF k \in input[c] THEN 1 ELSE 0]]
          /\ Goto(c, "post")
     ELSE /\ UNCHANGED <<tephraVars, consumed>>
          /\ Goto(c, "rollback")
  /\ UNCHANGED <<queueVars, driverVars, faults, published>>

(* The process entry starts over with no input: resetRetry. *)
ResetEntry(c) ==
  /\ input' = [input EXCEPT ![c] = {}]
  /\ retry' = [retry EXCEPT ![c] = 0]
  /\ retrying' = [retrying EXCEPT ![c] = FALSE]
  /\ ignoring' = [ignoring EXCEPT ![c] = FALSE]
  /\ detached' = [detached EXCEPT ![c] = FALSE]

(* finish: postTxCommit, then onSuccess. *)
CPost(c) ==
  /\ At(c, "post") /\ Goto(c, "idle")
  /\ ConsumerPostTxCommit(c)
  /\ ResetEntry(c)
  /\ UNCHANGED <<tephraVars, producerVars, groupSize, faults, historyVars>>

CRollback(c) ==
  /\ At(c, "rollback") /\ Goto(c, "abort")
  /\ ConsumerRollbackTx(c)
  /\ UNCHANGED <<tephraVars, producerVars, groupSize, driverVars, faults, historyVars>>

(* abort of a transaction that had no input, or that was to acknowledge an
   ignored one: the entry just goes back to the process queue. *)
CAbortIdle(c) ==
  /\ At(c, "abort") /\ (input[c] = {} \/ ignoring[c])
  /\ EndTx(c)
  /\ Goto(c, "idle")
  /\ ResetEntry(c)
  /\ UNCHANGED <<queueVars, faults, historyVars>>

(* onFailure with policy RETRY. *)
CAbortRetry(c) ==
  /\ At(c, "abort") /\ input[c] # {} /\ ~ignoring[c]
  /\ retry[c] < MaxRetries
  /\ EndTx(c)
  /\ Goto(c, "idle")
  /\ retrying' = [retrying EXCEPT ![c] = TRUE]
  /\ UNCHANGED <<queueVars, input, retry, ignoring, detached, faults, historyVars>>

(* onFailure with policy IGNORE, the callback's choice or forced by too many
   retries. *)
CAbortIgnore(c) ==
  /\ At(c, "abort") /\ input[c] # {} /\ ~ignoring[c]
  /\ EndTx(c)
  /\ Goto(c, "ignore")
  /\ ignoring' = [ignoring EXCEPT ![c] = TRUE]
  /\ UNCHANGED <<queueVars, input, retry, retrying, detached, faults, historyVars>>

(* InputAcknowledger.ack: a transaction of its own reclaims the input. *)
CIgnore(c) ==
  /\ At(c, "ignore") /\ Goto(c, "finish")
  /\ StartReader(c)
  /\ dequeuedKeys' = [dequeuedKeys EXCEPT ![c] = IF detached[c] THEN {} ELSE input[c]]
  /\ committed' = [committed EXCEPT ![c] = FALSE]
  /\ UNCHANGED <<itemVars, producerVars, scanVars, groupSize, driverVars, faults, historyVars>>

-----------------------------------------------------------------------------
(* The transaction manager's own step. *)

Timeout(c) ==
  /\ faults < MaxFaults /\ faults' = faults + 1
  /\ TimeoutTx(c)
  /\ UNCHANGED <<queueVars, pc, driverVars, historyVars>>

ProducerStep(p) ==
  \/ PStart(p) \/ PEmit(p) \/ PFail(p) \/ PFinish(p) \/ PPersist(p)
  \/ PPersisted(p) \/ PCommit(p) \/ PRollback(p) \/ PAbort(p)

ConsumerStep(c) ==
  \/ CStart(c) \/ CBeginDequeue(c) \/ CScan(c) \/ CDequeued(c)
  \/ CDecodeThrows(c) \/ CSuccess(c) \/ CFailure(c)
  \/ CFinish(c) \/ CCommit(c) \/ CPost(c) \/ CRollback(c)
  \/ CAbortIdle(c) \/ CAbortRetry(c) \/ CAbortIgnore(c) \/ CIgnore(c)

Next ==
  \/ \E p \in Producers : ProducerStep(p)
  \/ \E c \in Consumers : ConsumerStep(c)
  \/ \E c \in TimeoutProcs : Timeout(c)

Spec == Init /\ [][Next]_vars

(* Every flowlet instance's thread keeps running its loop. *)
FairSpec == Spec /\ \A c \in Consumers : WF_vars(ConsumerStep(c))

-----------------------------------------------------------------------------
(* Properties *)

(* "Exactly-once", the half that is about safety: no two committed
   transactions of a consumer group use up the same entry, across dequeue, the
   claims of FIFO, ack, undoDequeue, retries, ignores and timeouts. *)
AtMostOnce == \A g \in Groups : \A k \in Key : consumed[g][k] <= 1

(* Two instances of a flowlet never have the same entry in hand, from dequeue
   to the commit, or over all the retries of a failed input. *)
ExclusiveInput ==
  \A c, d \in Consumers : c # d /\ GroupOf(c) = GroupOf(d) => input[c] \cap input[d] = {}

(* A process method only ever sees entries of transactions that committed. *)
NoDirtyRead == \A c \in Consumers : input[c] \subseteq published

(* An entry leaves the queue, by evict or by an undoEnqueue, only when every
   consumer group has used it up or when its transaction did not commit. *)
RemovedOnlyWhenConsumed ==
  \A k \in published \ entries : \A g \in Groups : consumed[g][k] >= 1

(* Nothing of a transaction that failed stays in the queue: an entry that is
   not committed belongs to a transaction its producer is still busy with. *)
AbortLeavesNothing ==
  \A k \in entries \ published : \E p \in Producers : writePointer[p] = k[1]

(* c is the instance that has to consume k. *)
DueTo(c, k) ==
  /\ Running(c) /\ k \in entries \cap published
  /\ ~Processed(c, k)
  /\ IF GroupOf(c) \in FifoGroups
     THEN StateFor(c, k).state = "NONE" \/ StateFor(c, k).instance = InstanceOf(c)
     ELSE Owns(InstanceOf(c), groupSize[GroupOf(c)], k)

(* The startKey that dequeue keeps between transactions never passes an entry
   that is committed and still to be consumed by that consumer. *)
NothingSkipped == \A c \in Consumers : \A k \in Key : DueTo(c, k) => LessOrEqual(startKey[c], k)

(* Every entry falls to some instance of a group that hashes. *)
HashHasOwner ==
  \A g \in Groups \ FifoGroups : \A k \in entries : \E i \in 0 .. groupSize[g] - 1 : Owns(i, groupSize[g], k)

(* "Exactly-once", the half that is about progress: a committed entry is used
   up by every group, whatever failed, was retried or timed out before. *)
EventuallyConsumed ==
  \A g \in Groups : \A k \in Key : k \in published ~> consumed[g][k] >= 1

(* evict keeps the queue from growing: a committed entry leaves it. *)
EventuallyEvicted == \A k \in Key : k \in published ~> k \notin entries

EOQ == INSTANCE ExactlyOnceQueue WITH Entry <- Key, Group <- Groups, deliveries <- consumed

(* The flow implements the queue of ExactlyOnceQueue: entries are published by
   whole transactions and used up only after that, by one transaction of each
   group. *)
ImplementsExactlyOnceQueue == EOQ!Spec
=============================================================================
