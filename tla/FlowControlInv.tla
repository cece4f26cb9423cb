--------------------------- MODULE FlowControlInv ---------------------------
(***************************************************************************)
(* The inductive invariant behind the safety properties of FlowControl,    *)
(* for a client that waits until the flow has settled.                     *)
(***************************************************************************)
EXTENDS FlowControl

-----------------------------------------------------------------------------
(* One flowlet instance: its controller, the thread of its request and its   *)
(* driver agree.                                                             *)

Working == {"init", "loop", "poll", "round"}

(* The driver's thread is there. *)
Live(f) == driver[f] \notin {"none", "terminated", "failed"}

(* Its queue consumers are in use, or will be before they are opened again. *)
Reading(f) ==
  \/ driver[f] \in {"starting", "init", "barrier", "poll", "round"}
  \/ driver[f] = "loop" /\ ~shutdown[f]
  \/ task[f] = "release"

AtStart(f) ==
  /\ state[f] = "STARTING" /\ task[f] = "none" /\ driver[f] = "starting"
  /\ ~aliveTask[f] /\ ~shutdown[f] /\ ~suspension[f]

Awake(f) ==
  /\ state[f] = "ALIVE" /\ task[f] = "none" /\ driver[f] \in Working \cup {"failed"}
  /\ ~shutdown[f] /\ ~suspension[f]

Halting(f) ==
  /\ state[f] = "SUSPENDING" /\ ~aliveTask[f] /\ ~shutdown[f]
  /\ \/ task[f] = "suspend" /\ ~suspension[f] /\ driver[f] \in Working \cup {"failed"}
     \/ task[f] = "barrier" /\ suspension[f] /\ driver[f] \in Working \cup {"barrier", "failed"}
     \/ task[f] = "close" /\ suspension[f] /\ driver[f] = "latch"

Parked(f) ==
  /\ \/ state[f] = "SUSPENDED" /\ task[f] \in {"none", "command"}
     \/ state[f] = "RESUMING" /\ task[f] \in {"resume", "release"}
  /\ ~aliveTask[f] /\ ~shutdown[f] /\ suspension[f] /\ driver[f] = "latch"

Stopping(f) ==
  /\ state[f] = "STOPPING" /\ ~aliveTask[f]
  /\ \/ task[f] = "stop" /\ ~shutdown[f] /\ ~suspension[f] /\ driver[f] \in Working \cup {"failed"}
     \/ task[f] = "stop" /\ ~shutdown[f] /\ driver[f] = "latch"
     \/ task[f] = "wait" /\ shutdown[f] /\ driver[f] \in Working \cup {"latch", "terminated", "failed"}

(* The instance count of one that has stopped cannot be changed. *)
HasStopped(f) ==
  /\ state[f] \in {"STOPPED", "ERROR"} /\ driver[f] = "terminated" /\ ~aliveTask[f]
  /\ task[f] \in {"none", "command"}

HasFailed(f) ==
  /\ state[f] = "ERROR" /\ driver[f] = "failed"
  /\ \/ task[f] \in {"none", "command", "stop", "wait", "barrier"}
     \/ task[f] = "suspend" /\ ~suspension[f]
  /\ aliveTask[f] => task[f] = "none" /\ ~shutdown[f] /\ ~suspension[f]

FlowletOK(f) ==
  \/ AtStart(f) \/ Awake(f) \/ Halting(f) \/ Parked(f) \/ Stopping(f) \/ HasStopped(f) \/ HasFailed(f)

NotYet(f) ==
  /\ state[f] = "NONE" /\ task[f] = "none" /\ driver[f] = "none"
  /\ ~aliveTask[f] /\ ~shutdown[f] /\ ~suspension[f]

FlowletsOK ==
  \A f \in Flowlets :
    /\ IF f <= created THEN FlowletOK(f) ELSE NotYet(f)
    /\ f <= created => instanceCount[f] # 0
    /\ Reading(f) => consumer[f] = instanceCount[f]

-----------------------------------------------------------------------------
(* The flow's controller. *)

Table == Range(flowlets)
Kept(n) == {flowlets[i] : i \in 1 .. n}
NewOnes(n) == created + 1 .. created + n - Len(flowlets)
Simple == {"suspend", "resume", "stop"}

(* The next requests of the plan. *)
Stage == IF plan = <<>> THEN "done" ELSE Head(plan).op

(* What is left of the plan of a change to n instances. *)
Fewer(n) ==
  plan = <<Do("stop", Table \ Kept(n)), Do("suspend", Kept(n)), Do("command", Kept(n)), Do("resume", Kept(n))>>
Same ==
  \/ plan = <<Do("suspend", Table), Do("command", Table), Do("resume", Table)>>
  \/ plan = <<Do("command", Table), Do("resume", Table)>>
  \/ plan = <<Do("resume", Table)>>
  \/ plan = <<>>
More(n) ==
  \/ plan = <<Do("suspend", Table), Do("command", Table), Do("resume", Table), Do("create", NewOnes(n))>>
  \/ plan = <<Do("command", Table), Do("resume", Table), Do("create", NewOnes(n))>>
  \/ plan = <<Do("resume", Table), Do("create", NewOnes(n))>>
  \/ plan = <<Do("create", NewOnes(n))>>

ChangeLeft(n) ==
  \/ n < Len(flowlets) /\ Fewer(n)
  \/ n = Len(flowlets) /\ Same
  \/ n > Len(flowlets) /\ created + n - Len(flowlets) <= MaxFlowlets /\ More(n)

PlanOK ==
  /\ holder = NoRequest => plan = <<>> /\ AllAnswered
  /\ holder.op \in Simple => plan = <<>> \/ plan = <<Do(holder.op, Table)>>
  /\ holder.op = "change" => holder.n >= 1 /\ ChangeLeft(holder.n)

TableOK ==
  /\ Len(flowlets) \in 1 .. MaxInstances /\ flowlets \in Seq(Flowlets)
  /\ Table \subseteq 1 .. created /\ created \in Flowlets

(* Nothing is being started. *)
Quiet ==
  /\ \A c \in Controllers : ~aliveTask[c]
  /\ \A f \in Flowlets : driver[f] # "starting"

(* The states the flow's controller is in between its operations; a request
   fits the state of the flow. *)
Rests == {"ALIVE", "SUSPENDED", "STOPPED"}
Fits(r) ==
  IF r.op = "change" THEN state[Flow] \in Rests /\ r.n >= 1
                     ELSE r.op \in Simple /\ state[Flow] = During[r.op]

(* One request at a time, made when nothing is being started. *)
RequestsOK ==
  /\ \A r, q \in waiting : r = q
  /\ waiting # {} => holder = NoRequest
  /\ \A r \in waiting : Fits(r) /\ (r.op = "change" => created + MaxInstances - 1 <= MaxFlowlets)
  /\ holder # NoRequest => Fits(holder)
  /\ holder = NoRequest /\ waiting = {} => state[Flow] \in Rests
  /\ waiting # {} \/ plan # <<>> \/ ~AllAnswered \/ holder.op \in Simple => Quiet
  /\ aliveTask[Flow] => state[Flow] = "ALIVE"

Up   == {"ALIVE", "RESUMING", "STOPPED", "ERROR"}
Down == {"SUSPENDING", "SUSPENDED", "STOPPED", "ERROR"}
Over == {"STOPPING", "STOPPED", "ERROR"}

(* The states that the operation under way leaves to the instances in the table. *)
Mode ==
  CASE holder.op = "suspend" /\ Stage = "done"                -> Down
    [] holder.op = "resume" /\ Stage = "done"                 -> Up
    [] holder.op = "stop" /\ Stage = "done"                   -> Over
    [] holder.op = "change" /\ Stage \in {"command", "resume"} -> Down
    [] OTHER                                                  -> States

(* An instance that has left the table is being stopped, or was. *)
Gone(f) ==
  /\ ~aliveTask[f]
  /\ state[f] \in {"STOPPED", "ERROR"} \/ (state[f] = "STOPPING" /\ Stage = "suspend")

ModeOK ==
  /\ \A f \in Table : state[f] \in Mode
  /\ \A f \in (1 .. created) \ Table : Gone(f)

(* The instance counts of the instances whose threads are there. *)
SizesOK ==
  /\ \A f \in Flowlets : task[f] = "command" => holder.op = "change" /\ Stage = "resume"
  /\ holder.op # "change" => \A f \in Flowlets : Live(f) => instanceCount[f] = Len(flowlets)
  /\ holder.op = "change" /\ Stage \in {"stop", "suspend", "command"} =>
       \A f, g \in Flowlets : Live(f) /\ Live(g) => instanceCount[f] = instanceCount[g]
  /\ holder.op = "change" /\ Stage = "resume" =>
       \A f \in Flowlets :
         Live(f) => state[f] = "SUSPENDED" /\ (task[f] = "none" => instanceCount[f] = holder.n)
  /\ holder.op = "change" /\ Stage \in {"create", "done"} =>
       \A f \in Flowlets : Live(f) => instanceCount[f] = holder.n

FlowInv == TypeOK /\ FlowletsOK /\ PlanOK /\ TableOK /\ RequestsOK /\ ModeOK /\ SizesOK
=============================================================================
