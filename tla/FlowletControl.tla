--------------------------- MODULE FlowletControl ---------------------------
(***************************************************************************)
(* The controllers of a flow and of its flowlet instances, and the thread  *)
(* that drives each instance: AbstractProgramController with               *)
(* FlowletProgramController, and the service thread of                     *)
(* FlowletProcessDriver.  A request (suspend, resume, stop, command)       *)
(* checks and sets the controller's state in the caller's thread and goes  *)
(* on in a thread of its own; the driver's thread answers in its own time. *)
(*                                                                         *)
(* Requests to one flowlet instance come one at a time here: its only      *)
(* caller is the flow's controller, which awaits each (see FlowControl).   *)
(***************************************************************************)
EXTENDS Integers

CONSTANT MaxFlowlets  \* bound: flowlet instances ever created

ASSUME ControlAssumption == MaxFlowlets \in Nat \ {0}

Flow == 0
Flowlets == 1 .. MaxFlowlets
Controllers == {Flow} \cup Flowlets

VARIABLES
  state,          \* per controller: ProgramController.State
  aliveTask,      \* per controller: the thread that started() creates has yet to run
  task,           \* per flowlet: where the thread of its current request stands
  driver,         \* per flowlet: where the driver's thread stands
  shutdown,       \* per flowlet: the driver was told to stop (~isRunning, interrupted)
  suspension,     \* per flowlet: the driver's suspension latch is set
  instanceCount,  \* per flowlet: BasicFlowletContext.getInstanceCount
  consumer        \* per flowlet: group size its queue consumers were opened for, 0: closed

driverVars == <<driver, shutdown, suspension>>
contextVars == <<instanceCount, consumer>>
controlVars == <<state, aliveTask, task, driverVars, contextVars>>

States == {"NONE", "STARTING", "ALIVE", "SUSPENDING", "SUSPENDED", "RESUMING", "STOPPING",
           "STOPPED", "ERROR"}
Tasks == {"none", "suspend", "barrier", "close", "resume", "release", "stop", "wait", "command"}
DriverSteps == {"none", "starting", "init", "loop", "barrier", "latch", "poll", "round",
                "terminated", "failed"}

ControlTypeOK ==
  /\ state \in [Controllers -> States]
  /\ aliveTask \in [Controllers -> BOOLEAN]
  /\ task \in [Flowlets -> Tasks]
  /\ driver \in [Flowlets -> DriverSteps]
  /\ shutdown \in [Flowlets -> BOOLEAN]
  /\ suspension \in [Flowlets -> BOOLEAN]
  /\ instanceCount \in [Flowlets -> Nat]
  /\ consumer \in [Flowlets -> Nat]

SetState(c, s) == state' = [state EXCEPT ![c] = s]
Becomes(f, s) == task' = [task EXCEPT ![f] = s]
DriverGoto(f, from, to) == driver[f] = from /\ driver' = [driver EXCEPT ![f] = to]

-----------------------------------------------------------------------------
(* AbstractProgramController *)

(* The states that suspend(), resume() and stop() may leave, and the one they
   set while they are under way; what the state is when they are done. *)
From == [suspend |-> {"ALIVE"}, resume |-> {"SUSPENDED"}, stop |-> {"STARTING", "ALIVE", "SUSPENDED"}]
During == [suspend |-> "SUSPENDING", resume |-> "RESUMING", stop |-> "STOPPING"]
After == [suspend |-> "SUSPENDED", resume |-> "ALIVE", stop |-> "STOPPED"]

(* Mutant: a request is refused only when it was made already. *)
AcceptsUnlessMade(c, op) == op = "command" \/ state[c] \notin {During[op], After[op]}

(* The request is not refused.  command() is accepted in every state. *)
Accepts(c, op) == op = "command" \/ state[c] \in From[op]

(* One request to each controller of L: the compareAndSet in the caller's
   thread, and the thread that will do the rest. *)
Request(op, L) ==
  LET A == {f \in L : Accepts(f, op)}
  IN  /\ state' = [c \in Controllers |-> IF c \in A /\ op # "command" THEN During[op] ELSE state[c]]
      /\ task' = [f \in Flowlets |-> IF f \in A THEN op ELSE task[f]]
      /\ UNCHANGED <<aliveTask, driverVars, contextVars>>

(* The thread of started(): it sets ALIVE whatever the state is by now. *)
SetAlive(c) ==
  /\ aliveTask[c]
  /\ aliveTask' = [aliveTask EXCEPT ![c] = FALSE]
  /\ SetState(c, "ALIVE")
  /\ UNCHANGED <<task, driverVars, contextVars>>

-----------------------------------------------------------------------------
(* FlowletProgramController: the threads of its requests. *)

(* Mutant: the consumers are closed before the driver is suspended. *)
SuspendDriverLast(f) ==
  /\ task[f] = "suspend"
  /\ Becomes(f, IF suspension[f] THEN "close" ELSE "barrier")
  /\ suspension' = [suspension EXCEPT ![f] = TRUE]
  /\ consumer' = [consumer EXCEPT ![f] = 0]
  /\ UNCHANGED <<state, aliveTask, driver, shutdown, instanceCount>>

(* doSuspend: driver.suspend() sets the latch and waits for the driver at the
   barrier, or finds the latch set and returns. *)
SuspendDriver(f) ==
  /\ task[f] = "suspend"
  /\ Becomes(f, IF suspension[f] THEN "close" ELSE "barrier")
  /\ suspension' = [suspension EXCEPT ![f] = TRUE]
  /\ UNCHANGED <<state, aliveTask, driver, shutdown, contextVars>>

(* Both parties are at the CyclicBarrier. *)
Meet(f) ==
  /\ task[f] = "barrier" /\ Becomes(f, "close")
  /\ DriverGoto(f, "barrier", "latch")
  /\ UNCHANGED <<state, aliveTask, shutdown, suspension, contextVars>>

(* doSuspend: the consumers are closed and the request is done. *)
CloseConsumers(f) ==
  /\ task[f] = "close" /\ Becomes(f, "none")
  /\ consumer' = [consumer EXCEPT ![f] = 0]
  /\ SetState(f, After.suspend)
  /\ UNCHANGED <<aliveTask, driverVars, instanceCount>>

(* doResume: the consumers are opened, for the instance count of by now. *)
OpenConsumers(f) ==
  /\ task[f] = "resume" /\ Becomes(f, "release")
  /\ consumer' = [consumer EXCEPT ![f] = instanceCount[f]]
  /\ UNCHANGED <<state, aliveTask, driverVars, instanceCount>>

(* Mutant: the latch is taken away and not counted down. *)
ResumeDriverNoCountDown(f) ==
  /\ task[f] = "release" /\ Becomes(f, "none")
  /\ suspension' = [suspension EXCEPT ![f] = FALSE]
  /\ SetState(f, After.resume)
  /\ UNCHANGED <<aliveTask, driver, shutdown, contextVars>>

(* doResume: driver.resume() takes the latch away and counts it down. *)
ResumeDriver(f) ==
  /\ task[f] = "release" /\ Becomes(f, "none")
  /\ suspension' = [suspension EXCEPT ![f] = FALSE]
  /\ driver' = [driver EXCEPT ![f] = IF @ = "latch" THEN "poll" ELSE @]
  /\ SetState(f, After.resume)
  /\ UNCHANGED <<aliveTask, shutdown, contextVars>>

(* doStop: driver.stop() interrupts the driver's thread ... *)
StopDriver(f) ==
  /\ task[f] = "stop" /\ Becomes(f, "wait")
  /\ shutdown' = [shutdown EXCEPT ![f] = TRUE]
  /\ UNCHANGED <<state, aliveTask, driver, suspension, contextVars>>

(* ... and is awaited; it throws if the driver failed.  The consumers are
   closed in either case. *)
Stopped(f) ==
  /\ task[f] = "wait" /\ Becomes(f, "none")
  /\ driver[f] \in {"terminated", "failed"}
  /\ consumer' = [consumer EXCEPT ![f] = 0]
  /\ SetState(f, IF driver[f] = "failed" THEN "ERROR" ELSE After.stop)
  /\ UNCHANGED <<aliveTask, driverVars, instanceCount>>

(* Mutant: the new instance count is not kept. *)
CommandForgets(f, n) ==
  /\ task[f] = "command" /\ Becomes(f, "none")
  /\ IF state[f] = "SUSPENDED" THEN UNCHANGED state ELSE SetState(f, "ERROR")
  /\ UNCHANGED <<aliveTask, driverVars, contextVars>>

(* doCommand with the new instance count n: an exception, hence ERROR, unless
   the flowlet is SUSPENDED. *)
Command(f, n) ==
  /\ task[f] = "command" /\ Becomes(f, "none")
  /\ IF state[f] = "SUSPENDED"
     THEN instanceCount' = [instanceCount EXCEPT ![f] = n] /\ UNCHANGED state
     ELSE SetState(f, "ERROR") /\ UNCHANGED instanceCount
  /\ UNCHANGED <<aliveTask, driverVars, consumer>>

Task(f, n) ==
  \/ SuspendDriver(f) \/ Meet(f) \/ CloseConsumers(f)
  \/ OpenConsumers(f) \/ ResumeDriver(f)
  \/ StopDriver(f) \/ Stopped(f)
  \/ Command(f, n)

-----------------------------------------------------------------------------
(* FlowletProcessDriver: the service's thread. *)

(* startUp is done.  A service told to stop by then does not run; else its
   listener calls started(). *)
Start(f) ==
  /\ DriverGoto(f, "starting", IF shutdown[f] THEN "terminated" ELSE "init")
  /\ IF ~shutdown[f] /\ state[f] = "STARTING"
     THEN SetState(f, "ALIVE") /\ aliveTask' = [aliveTask EXCEPT ![f] = TRUE]
     ELSE UNCHANGED <<state, aliveTask>>
  /\ UNCHANGED <<task, shutdown, suspension, contextVars>>

Initialized(f) ==
  /\ DriverGoto(f, "init", "loop")
  /\ UNCHANGED <<state, aliveTask, task, shutdown, suspension, contextVars>>

(* initFlowlet throws: the service fails, and its listener calls error(). *)
InitFails(f) ==
  /\ DriverGoto(f, "init", "failed")
  /\ SetState(f, "ERROR")
  /\ UNCHANGED <<aliveTask, task, shutdown, suspension, contextVars>>

(* The head of the loop, while isRunning(). *)
Loop(f) ==
  /\ ~shutdown[f]
  /\ DriverGoto(f, "loop", IF suspension[f] THEN "barrier" ELSE "poll")
  /\ UNCHANGED <<state, aliveTask, task, shutdown, suspension, contextVars>>

(* Mutant: the latch is awaited uninterruptibly. *)
InterruptedInPoll(f) ==
  /\ shutdown[f]
  /\ DriverGoto(f, "poll", "loop")
  /\ UNCHANGED <<state, aliveTask, task, shutdown, suspension, contextVars>>

(* An interrupt ends the wait for the latch or for the time of the next entry. *)
Interrupted(f) ==
  /\ shutdown[f]
  /\ DriverGoto(f, "latch", "loop") \/ DriverGoto(f, "poll", "loop")
  /\ UNCHANGED <<state, aliveTask, task, shutdown, suspension, contextVars>>

(* One process round; an interrupt does not end it. *)
BeginRound(f) ==
  /\ DriverGoto(f, "poll", "round")
  /\ UNCHANGED <<state, aliveTask, task, shutdown, suspension, contextVars>>

EndRound(f) ==
  /\ DriverGoto(f, "round", "loop")
  /\ UNCHANGED <<state, aliveTask, task, shutdown, suspension, contextVars>>

(* The loop ends; the listener closes the consumers if nobody asked for it. *)
Terminate(f) ==
  /\ shutdown[f]
  /\ DriverGoto(f, "loop", "terminated")
  /\ consumer' = [consumer EXCEPT ![f] = IF state[f] # "STOPPING" THEN 0 ELSE @]
  /\ UNCHANGED <<state, aliveTask, task, shutdown, suspension, instanceCount>>

Driver(f) ==
  \/ Start(f) \/ Initialized(f) \/ InitFails(f) \/ Loop(f) \/ Interrupted(f)
  \/ BeginRound(f) \/ EndRound(f) \/ Terminate(f)

-----------------------------------------------------------------------------
(* Instances are created by FlowletProgramRunner.run: a controller, a driver
   that is being started, and queue consumers opened for n instances. *)
Creating(L, n) ==
  /\ state' = [c \in Controllers |-> IF c \in L THEN "STARTING" ELSE state[c]]
  /\ driver' = [f \in Flowlets |-> IF f \in L THEN "starting" ELSE driver[f]]
  /\ instanceCount' = [f \in Flowlets |-> IF f \in L THEN n ELSE instanceCount[f]]
  /\ consumer' = [f \in Flowlets |-> IF f \in L THEN n ELSE consumer[f]]
  /\ UNCHANGED <<aliveTask, task, shutdown, suspension>>
=============================================================================
