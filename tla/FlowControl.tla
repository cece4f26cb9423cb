---------------------------- MODULE FlowControl ----------------------------
(***************************************************************************)
(* The controller of a flow (FlowProgramRunner.FlowProgramController) over *)
(* the controllers and drivers of FlowletControl.  Each operation of the   *)
(* flow holds the controller's lock and is a plan: requests to a set of    *)
(* flowlet instances, each awaited before the next.  Changing the number   *)
(* of instances suspends, commands and resumes all of them.  The flow has  *)
(* one flowlet, with 1 to MaxInstances instances.                          *)
(***************************************************************************)
EXTENDS FlowletControl, Sequences, FiniteSets, SequencesExt

CONSTANTS MaxInstances,  \* bound: FlowletSpecification.getMaxInstances
          MaxRequests,   \* bound: requests made to the flow
          Careful        \* the client waits until the flow has settled

ASSUME FlowControlAssumption ==
  /\ MaxInstances \in 1 .. MaxFlowlets
  /\ MaxRequests \in Nat
  /\ Careful \in BOOLEAN

VARIABLES
  flowlets,  \* the table of instances: instance number -> controller
  created,   \* instances created so far
  sent,      \* requests made so far
  waiting,   \* requests accepted, whose threads have yet to get the lock
  holder,    \* the request that holds the lock, or NoRequest
  plan       \* what the holder still has to do

flowVars == <<flowlets, created, sent, waiting, holder, plan>>
vars == <<controlVars, flowVars>>

Operations == {"suspend", "resume", "stop", "change"}
NoRequest == [id |-> 0, op |-> "none", n |-> 0]
Requests == [id : 1 .. MaxRequests, op : Operations, n : 0 .. MaxInstances]
PlanSteps == [op : {"suspend", "resume", "stop", "command", "create"}, who : SUBSET Flowlets]

TypeOK ==
  /\ ControlTypeOK
  /\ flowlets \in BoundedSeq(Flowlets, MaxInstances)
  /\ created \in 0 .. MaxFlowlets
  /\ sent \in 0 .. MaxRequests
  /\ waiting \subseteq Requests
  /\ holder \in Requests \cup {NoRequest}
  /\ Len(plan) <= 4 /\ Range(plan) \subseteq PlanSteps

(* FlowProgramRunner.run: the instances are being started, and the flow's
   controller has called started(). *)
Init ==
  \E n \in 1 .. MaxInstances :
    /\ flowlets = [i \in 1 .. n |-> i]
    /\ created = n
    /\ state = [c \in Controllers |->
                  IF c = Flow THEN "ALIVE" ELSE IF c <= n THEN "STARTING" ELSE "NONE"]
    /\ aliveTask = [c \in Controllers |-> c = Flow]
    /\ task = [f \in Flowlets |-> "none"]
    /\ driver = [f \in Flowlets |-> IF f <= n THEN "starting" ELSE "none"]
    /\ shutdown = [f \in Flowlets |-> FALSE]
    /\ suspension = [f \in Flowlets |-> FALSE]
    /\ instanceCount = [f \in Flowlets |-> IF f <= n THEN n ELSE 0]
    /\ consumer = [f \in Flowlets |-> IF f <= n THEN n ELSE 0]
    /\ sent = 0 /\ waiting = {} /\ holder = NoRequest /\ plan = <<>>

-----------------------------------------------------------------------------
(* The client. *)

(* No request is under way and nothing is being started. *)
Settled ==
  /\ waiting = {} /\ holder = NoRequest
  /\ \A c \in Controllers : ~aliveTask[c]
  /\ \A f \in Flowlets : driver[f] # "starting"

Send(op, n) ==
  /\ sent < MaxRequests /\ sent' = sent + 1
  /\ Careful => Settled
  /\ waiting' = waiting \cup {[id |-> sent + 1, op |-> op, n |-> n]}
  /\ UNCHANGED <<flowlets, created, holder, plan>>

(* suspend(), resume(), stop() of the flow's controller. *)
Ask(op) ==
  /\ Accepts(Flow, op)
  /\ Send(op, 0)
  /\ Request(op, {Flow})

Changes == {r \in waiting \cup {holder} : r.op = "change"}

(* command(FLOWLET_INSTANCES, n): accepted in every state.  The last conjunct
   bounds the instances created. *)
AskChange(n) ==
  /\ created + (Cardinality(Changes) + 1) * (MaxInstances - 1) <= MaxFlowlets
  /\ Send("change", n)
  /\ UNCHANGED controlVars

-----------------------------------------------------------------------------
(* The flow's controller. *)

Do(op, who) == [op |-> op, who |-> who]

(* suspend, command and resume the instances in who: how a new instance count
   is brought to them. *)
Recount(who) == <<Do("suspend", who), Do("command", who), Do("resume", who)>>

(* changeInstances(n): increaseInstances or decreaseInstances. *)
ChangePlan(n) ==
  LET live == Len(flowlets)
      kept == {flowlets[i] : i \in 1 .. (IF n < live THEN n ELSE live)}
  IN  CASE n = live -> <<>>
        [] n > live -> Append(Recount(kept), Do("create", created + 1 .. created + n - live))
        [] n < live -> <<Do("stop", Range(flowlets) \ kept)>> \o Recount(kept)

(* The thread of a request gets the lock. *)
Acquire(r) ==
  /\ holder = NoRequest /\ holder' = r
  /\ waiting' = waiting \ {r}
  /\ plan' = IF r.op = "change" THEN ChangePlan(r.n) ELSE <<Do(r.op, Range(flowlets))>>
  /\ UNCHANGED <<controlVars, flowlets, created, sent>>

(* All futures of the requests made so far are done: successfulAsList(..).get(). *)
AllAnswered == \A f \in Flowlets : task[f] = "none"

(* The next requests to flowlet instances.  Those to be stopped for good leave
   the table. *)
Issue ==
  /\ plan # <<>> /\ AllAnswered /\ Head(plan).op # "create"
  /\ Request(Head(plan).op, Head(plan).who)
  /\ plan' = Tail(plan)
  /\ flowlets' = IF holder.op = "change" /\ Head(plan).op = "stop"
                 THEN SubSeq(flowlets, 1, holder.n) ELSE flowlets
  /\ UNCHANGED <<created, sent, waiting, holder>>

(* Mutant: instances are created from number 0 on, not from the live ones on. *)
CreateFromZero ==
  /\ plan # <<>> /\ AllAnswered /\ Head(plan).op = "create"
  /\ Creating(Head(plan).who, holder.n)
  /\ flowlets' = flowlets \o [i \in 1 .. holder.n |-> created + i]
  /\ created' = created + holder.n
  /\ plan' = Tail(plan)
  /\ UNCHANGED <<sent, waiting, holder>>

(* increaseInstances: the new instances are created last. *)
Create ==
  /\ plan # <<>> /\ AllAnswered /\ Head(plan).op = "create"
  /\ Creating(Head(plan).who, holder.n)
  /\ flowlets' = flowlets \o [i \in 1 .. holder.n - Len(flowlets) |-> created + i]
  /\ created' = created + holder.n - Len(flowlets)
  /\ plan' = Tail(plan)
  /\ UNCHANGED <<sent, waiting, holder>>

(* Mutant: the last requests are not awaited. *)
ReleaseEarly ==
  /\ holder # NoRequest /\ plan = <<>>
  /\ holder' = NoRequest
  /\ IF holder.op = "change" THEN UNCHANGED state ELSE SetState(Flow, After[holder.op])
  /\ UNCHANGED <<aliveTask, task, driverVars, contextVars, flowlets, created, sent, waiting, plan>>

(* The operation is done, however the requests were answered. *)
Release ==
  /\ holder # NoRequest /\ plan = <<>> /\ AllAnswered
  /\ holder' = NoRequest
  /\ IF holder.op = "change" THEN UNCHANGED state ELSE SetState(Flow, After[holder.op])
  /\ UNCHANGED <<aliveTask, task, driverVars, contextVars, flowlets, created, sent, waiting, plan>>

FlowStep == (\E r \in waiting : Acquire(r)) \/ Issue \/ Create \/ Release

FlowletTask(f) == Task(f, holder.n) /\ UNCHANGED flowVars
DriverStep(f) == Driver(f) /\ UNCHANGED flowVars
AliveStep(c) == SetAlive(c) /\ UNCHANGED flowVars

Next ==
  \/ \E op \in Operations \ {"change"} : Ask(op)
  \/ \E n \in 1 .. MaxInstances : AskChange(n)
  \/ FlowStep
  \/ \E f \in Flowlets : FlowletTask(f) \/ DriverStep(f)
  \/ \E c \in Controllers : AliveStep(c)

Spec == Init /\ [][Next]_vars

(* Every thread runs on when it can. *)
FairSpec ==
  /\ Spec
  /\ WF_vars(FlowStep)
  /\ \A f \in Flowlets : WF_vars(FlowletTask(f)) /\ WF_vars(DriverStep(f))
  /\ \A c \in Controllers : WF_vars(AliveStep(c))

-----------------------------------------------------------------------------
(* Properties *)

Created == 1 .. created
Ended == {"terminated", "failed"}

(* "This method will block until the flowlet running thread actually
   suspended": when a flowlet is SUSPENDED its thread is parked, and its queue
   consumers are closed only after it was. *)
SuspendedMeansParked ==
  \A f \in Flowlets :
    /\ state[f] = "SUSPENDED" => driver[f] = "latch"
    /\ driver[f] = "round" => consumer[f] # 0

(* While the number of instances changes, no two instances process with queue
   consumers of different group sizes: else one entry would belong to both, or
   to none. *)
OneGroupSize ==
  \A f, g \in Flowlets :
    driver[f] = "round" /\ driver[g] = "round" => consumer[f] = consumer[g]

(* An operation of the flow that is done was done: when the flow becomes
   SUSPENDED none of its instances is processing, and when it becomes STOPPED
   no thread is left, not even one of an instance given up earlier, although
   the answers of the instances are not looked at. *)
DoneMeansDone ==
  [][/\ state[Flow] = "SUSPENDING" /\ state'[Flow] = "SUSPENDED" =>
          \A f \in Range(flowlets) : driver[f] \in Ended \cup {"latch"}
     /\ state[Flow] = "STOPPING" /\ state'[Flow] = "STOPPED" =>
          \A f \in Created : driver[f] \in Ended]_vars

(* What the flow's controller says of the flow goes on to hold of its
   instances.  Not so when their number is changed meanwhile. *)
FlowStateIsTrue ==
  /\ state[Flow] = "SUSPENDED" => \A f \in Range(flowlets) : driver[f] \in Ended \cup {"latch"}
  /\ state[Flow] = "STOPPED" => \A f \in Created : driver[f] \in Ended

(* "It is a terminal state, no more state transition is allowed": STOPPED and
   ERROR are never left, whatever the controller's own threads and the flow's
   later requests do. *)
TerminalStates ==
  [][\A c \in Controllers : state[c] \in {"STOPPED", "ERROR"} => state'[c] = state[c]]_vars

(* Nothing comes back from a terminal state once the thread of started() has
   run, the one thread that sets the state unconditionally: ERROR is never
   left, and STOPPED only for ERROR (the instance count of a stopped instance
   cannot be changed, which is an error of that instance). *)
TerminalOnceStarted ==
  [][\A c \in Controllers :
       state[c] \in {"STOPPED", "ERROR"} /\ ~aliveTask[c] => state'[c] \in {state[c], "ERROR"}]_vars

(* Every request to the flow is answered, unless the initialization of a
   flowlet fails: a suspend that waits for that flowlet waits for ever. *)
Answered ==
  holder # NoRequest ~> (holder = NoRequest \/ \E f \in Flowlets : driver[f] = "failed")

(* An instance that is ALIVE gets to process, and so does one resumed: its
   thread is not left parked.  (One whose initialization failed may be ALIVE:
   see TerminalStates.) *)
AliveRuns ==
  \A f \in Flowlets :
    state[f] = "ALIVE" ~> (driver[f] \in {"round", "failed"} \/ state[f] # "ALIVE")
=============================================================================
