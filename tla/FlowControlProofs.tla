-------------------------- MODULE FlowControlProofs --------------------------
(***************************************************************************)
(* FlowInv is an invariant of FlowControl when the client waits until the  *)
(* flow has settled, and the flow's safety properties follow.              *)
(***************************************************************************)
EXTENDS FlowControlInv, TLAPS, SequenceTheorems, FiniteSetTheorems

-----------------------------------------------------------------------------
(* The constants, and the tables of states. *)

(* The bounds, and the numbers of the controllers. *)
LEMMA Constants ==
  /\ MaxFlowlets \in Nat /\ MaxFlowlets >= 1 /\ MaxInstances \in Nat
  /\ MaxInstances >= 1 /\ MaxInstances <= MaxFlowlets /\ MaxRequests \in Nat
  /\ Flow \in Controllers /\ Flowlets \subseteq Controllers /\ Flow \notin Flowlets
  /\ \A f \in Flowlets : f \in Nat /\ f # Flow
BY ControlAssumption, FlowControlAssumption DEF Controllers, Flowlets, Flow

(* The entries of the tables From, During and After. *)
LEMMA StateTables ==
  /\ From["suspend"] = {"ALIVE"} /\ From["resume"] = {"SUSPENDED"}
  /\ From["stop"] = {"STARTING", "ALIVE", "SUSPENDED"}
  /\ During["suspend"] = "SUSPENDING" /\ During["resume"] = "RESUMING" /\ During["stop"] = "STOPPING"
  /\ After["suspend"] = "SUSPENDED" /\ After["resume"] = "ALIVE" /\ After["stop"] = "STOPPED"
BY DEF From, During, After

(* The head and the tail of a plan of one step. *)
LEMMA PlanOfOne ==
  ASSUME NEW a PROVE <<a>> # <<>> /\ Head(<<a>>) = a /\ Tail(<<a>>) = <<>>
OBVIOUS

(* A plan of two steps. *)
LEMMA PlanOfTwo ==
  ASSUME NEW a, NEW b PROVE <<a, b>> # <<>> /\ Head(<<a, b>>) = a /\ Tail(<<a, b>>) = <<b>>
OBVIOUS

(* A plan of three steps. *)
LEMMA PlanOfThree ==
  ASSUME NEW a, NEW b, NEW c
  PROVE  <<a, b, c>> # <<>> /\ Head(<<a, b, c>>) = a /\ Tail(<<a, b, c>>) = <<b, c>>
OBVIOUS

(* A plan of four steps. *)
LEMMA PlanOfFour ==
  ASSUME NEW a, NEW b, NEW c, NEW d
  PROVE  <<a, b, c, d>> # <<>> /\ Head(<<a, b, c, d>>) = a /\ Tail(<<a, b, c, d>>) = <<b, c, d>>
OBVIOUS
(* A step after three others, as in increaseInstances. *)
LEMMA AppendToThree ==
  ASSUME NEW a, NEW b, NEW c, NEW d
  PROVE  Append(<<a, b, c>>, d) = <<a, b, c, d>>
<1> DEFINE S == {a, b, c, d}
           s == Append(<<a, b, c>>, d)
           t == <<a, b, c, d>>
<1>1. <<a, b, c>> \in Seq(S) /\ Len(<<a, b, c>>) = 3 /\ t \in Seq(S) /\ Len(t) = 4 /\ d \in S
  OBVIOUS
<1>2. /\ s \in Seq(S) /\ Len(s) = 4
      /\ s[1] = a /\ s[2] = b /\ s[3] = c /\ s[4] = d
  BY <1>1, AppendProperties
<1>3. t[1] = a /\ t[2] = b /\ t[3] = c /\ t[4] = d
  OBVIOUS
<1>4. \A i \in 1 .. Len(s) : s[i] = t[i]
  BY <1>2, <1>3
<1> HIDE DEF s, t
<1> QED
  BY <1>1, <1>2, <1>4, SeqEqual DEF s, t
(* A step before three others, as in decreaseInstances. *)
LEMMA PrependToThree ==
  ASSUME NEW a, NEW b, NEW c, NEW d
  PROVE  <<d>> \o <<a, b, c>> = <<d, a, b, c>>
<1> DEFINE S == {a, b, c, d}
           s == <<d>> \o <<a, b, c>>
           t == <<d, a, b, c>>
<1>1. <<d>> \in Seq(S) /\ <<a, b, c>> \in Seq(S) /\ t \in Seq(S)
  OBVIOUS
<1>2. Len(<<d>>) = 1 /\ Len(<<a, b, c>>) = 3 /\ Len(t) = 4
  OBVIOUS
<1>3. s \in Seq(S) /\ Len(s) = 4
  BY <1>1, <1>2, ConcatProperties
<1>4. s[1] = d /\ s[2] = a /\ s[3] = b /\ s[4] = c
  BY <1>1, <1>2, ConcatProperties
<1>5. t[1] = d /\ t[2] = a /\ t[3] = b /\ t[4] = c
  OBVIOUS
<1>6. \A i \in 1 .. Len(s) : s[i] = t[i]
  BY <1>2, <1>3, <1>4, <1>5
<1> HIDE DEF s, t
<1> QED
  BY <1>1, <1>2, <1>3, <1>6, SeqEqual DEF s, t

(* The steps of a plan. *)
LEMMA DoIs ==
  ASSUME NEW op, NEW who PROVE Do(op, who).op = op /\ Do(op, who).who = who
BY DEF Do

(* A plan has the type of plans if its steps do. *)
LEMMA ShortPlans ==
  ASSUME NEW a \in PlanSteps, NEW b \in PlanSteps, NEW c \in PlanSteps, NEW d \in PlanSteps
  PROVE  /\ Len(<<>>) <= 4 /\ Range(<<>>) \subseteq PlanSteps
         /\ Len(<<a>>) <= 4 /\ Range(<<a>>) \subseteq PlanSteps
         /\ Len(<<a, b>>) <= 4 /\ Range(<<a, b>>) \subseteq PlanSteps
         /\ Len(<<a, b, c>>) <= 4 /\ Range(<<a, b, c>>) \subseteq PlanSteps
         /\ Len(<<a, b, c, d>>) <= 4 /\ Range(<<a, b, c, d>>) \subseteq PlanSteps
<1>1. Len(<<>>) <= 4 /\ Len(<<a>>) <= 4 /\ Len(<<a, b>>) <= 4 /\ Len(<<a, b, c>>) <= 4
      /\ Len(<<a, b, c, d>>) <= 4
  OBVIOUS
<1>2. Range(<<>>) \subseteq PlanSteps
  BY DEF Range
<1>3. Range(<<a>>) \subseteq PlanSteps
  BY DEF Range
<1>4. Range(<<a, b>>) \subseteq PlanSteps
  BY DEF Range
<1>5. Range(<<a, b, c>>) \subseteq PlanSteps
  BY DEF Range
<1>6. Range(<<a, b, c, d>>) \subseteq PlanSteps
  BY DEF Range
<1> QED
  BY <1>1, <1>2, <1>3, <1>4, <1>5, <1>6

-----------------------------------------------------------------------------
(* A step of one instance: of the thread of its request, of its driver, or of
   the thread of started(). *)

SameFlowlet(g) ==
  /\ state'[g] = state[g] /\ aliveTask'[g] = aliveTask[g] /\ task'[g] = task[g]
  /\ driver'[g] = driver[g] /\ shutdown'[g] = shutdown[g] /\ suspension'[g] = suspension[g]
  /\ instanceCount'[g] = instanceCount[g] /\ consumer'[g] = consumer[g]

(* The rest is left alone. *)
Aside(f) ==
  /\ \A g \in Flowlets \ {f} : SameFlowlet(g)
  /\ state'[Flow] = state[Flow] /\ aliveTask'[Flow] = aliveTask[Flow]
  /\ ControlTypeOK'

Moves(f) ==
  \/ state'[f] = state[f]
  \/ state'[f] = "ALIVE" /\ state[f] \in {"STARTING", "RESUMING"}
  \/ state'[f] = "ALIVE" /\ aliveTask[f]
  \/ state'[f] = "ERROR"
  \/ state'[f] = "SUSPENDED" /\ state[f] = "SUSPENDING"
  \/ state'[f] = "STOPPED" /\ state[f] = "STOPPING"

(* What it may do to the instance, n the instance count it may bring. *)
Inside(f, n) ==
  /\ FlowletOK(f)' /\ (Reading(f) => consumer[f] = instanceCount[f])'
  /\ Moves(f)
  /\ (task[f] = "none" => task'[f] = "none") /\ (task'[f] = "command" => task[f] = "command")
  /\ Live(f)' => Live(f)
  /\ driver'[f] = "starting" \/ aliveTask'[f] => driver[f] = "starting" \/ aliveTask[f]
  /\ state[f] = "SUSPENDED" =>
       task[f] = "command" /\ instanceCount'[f] = n /\ state'[f] = state[f]
  /\ \/ instanceCount'[f] = instanceCount[f]
     \/ task[f] = "command" /\ state[f] = "SUSPENDED" /\ n # 0
  /\ instanceCount'[f] # 0

(* Only an instance that was created takes steps. *)
LEMMA OneInstance ==
  ASSUME FlowletsOK, NEW f \in Flowlets, task[f] # "none" \/ driver[f] # "none" \/ aliveTask[f]
  PROVE  FlowletOK(f) /\ (Reading(f) => consumer[f] = instanceCount[f]) /\ instanceCount[f] # 0
         /\ f <= created
BY DEF FlowletsOK, NotYet

(* The thread of an instance's request leaves the others alone. *)
LEMMA TaskAside ==
  ASSUME ControlTypeOK, NEW f \in Flowlets, NEW n \in Nat, Task(f, n)
  PROVE  Aside(f)
<1>1. f \in Controllers /\ f # Flow /\ Flow \in Controllers /\ Flowlets \subseteq Controllers
  BY Constants
<1>0. After.suspend = "SUSPENDED" /\ After.resume = "ALIVE" /\ After.stop = "STOPPED"
  BY DEF After
<1> USE DEF Aside, SameFlowlet, ControlTypeOK, driverVars, contextVars, Becomes, SetState,
            DriverGoto, States, Tasks, DriverSteps
<1>2. CASE SuspendDriver(f)
  BY <1>1, <1>2 DEF SuspendDriver
<1>3. CASE Meet(f)
  BY <1>1, <1>3 DEF Meet
<1>4. CASE CloseConsumers(f)
  BY <1>0, <1>1, <1>4 DEF CloseConsumers
<1>5. CASE OpenConsumers(f)
  BY <1>1, <1>5 DEF OpenConsumers
<1>6. CASE ResumeDriver(f)
  BY <1>0, <1>1, <1>6 DEF ResumeDriver
<1>7. CASE StopDriver(f)
  BY <1>1, <1>7 DEF StopDriver
<1>8. CASE Stopped(f)
  BY <1>0, <1>1, <1>8 DEF Stopped
<1>9. CASE Command(f, n)
  BY <1>1, <1>9 DEF Command
<1> QED
  BY <1>2, <1>3, <1>4, <1>5, <1>6, <1>7, <1>8, <1>9 DEF Task

(* So does its driver. *)
LEMMA DriverAside ==
  ASSUME ControlTypeOK, NEW f \in Flowlets, Driver(f)
  PROVE  Aside(f) /\ task' = task /\ instanceCount' = instanceCount
<1>1. f \in Controllers /\ f # Flow /\ Flow \in Controllers /\ Flowlets \subseteq Controllers
  BY Constants
<1> USE DEF Aside, SameFlowlet, ControlTypeOK, driverVars, contextVars, SetState,
            DriverGoto, States, Tasks, DriverSteps
<1>2. CASE Start(f)
  BY <1>1, <1>2 DEF Start
<1>3. CASE Initialized(f)
  BY <1>1, <1>3 DEF Initialized
<1>4. CASE InitFails(f)
  BY <1>1, <1>4 DEF InitFails
<1>5. CASE Loop(f)
  BY <1>1, <1>5 DEF Loop
<1>6. CASE Interrupted(f)
  BY <1>1, <1>6 DEF Interrupted
<1>7. CASE BeginRound(f)
  BY <1>1, <1>7 DEF BeginRound
<1>8. CASE EndRound(f)
  BY <1>1, <1>8 DEF EndRound
<1>9. CASE Terminate(f)
  BY <1>1, <1>9 DEF Terminate
<1> QED
  BY <1>2, <1>3, <1>4, <1>5, <1>6, <1>7, <1>8, <1>9 DEF Driver

(* So does its thread of started(). *)
LEMMA AliveAside ==
  ASSUME ControlTypeOK, NEW f \in Flowlets, SetAlive(f)
  PROVE  Aside(f) /\ task' = task /\ instanceCount' = instanceCount
BY Constants DEF SetAlive, Aside, SameFlowlet, ControlTypeOK, driverVars, contextVars, SetState, States

(* Each step of a request's thread. *)
LEMMA TaskInside ==
  ASSUME ControlTypeOK, FlowletsOK, NEW f \in Flowlets, NEW n \in Nat, Task(f, n),
         task[f] = "command" => n # 0
  PROVE  Inside(f, n)
<1>1. f \in Controllers /\ f # Flow
  BY Constants
<1>0. After.suspend = "SUSPENDED" /\ After.resume = "ALIVE" /\ After.stop = "STOPPED"
  BY DEF After
<1>a. task[f] # "none"
  BY DEF Task, SuspendDriver, Meet, CloseConsumers, OpenConsumers, ResumeDriver, StopDriver, Stopped, Command
<1>b. FlowletOK(f) /\ (Reading(f) => consumer[f] = instanceCount[f]) /\ instanceCount[f] # 0
  BY <1>a, OneInstance
<1> USE DEF Inside, Moves, Live, FlowletOK, AtStart, Awake, Halting, Parked, Stopping, HasStopped,
            HasFailed, Reading, Working, ControlTypeOK, driverVars, contextVars, Becomes,
            SetState, DriverGoto
<1>2. CASE SuspendDriver(f)
  BY <1>1, <1>b, <1>2 DEF SuspendDriver
<1>3. CASE Meet(f)
  BY <1>1, <1>b, <1>3 DEF Meet
<1>4. CASE CloseConsumers(f)
  BY <1>0, <1>1, <1>b, <1>4 DEF CloseConsumers
<1>5. CASE OpenConsumers(f)
  BY <1>1, <1>b, <1>5 DEF OpenConsumers
<1>6. CASE ResumeDriver(f)
  BY <1>0, <1>1, <1>b, <1>6 DEF ResumeDriver
<1>7. CASE StopDriver(f)
  BY <1>1, <1>b, <1>7 DEF StopDriver
<1>8. CASE Stopped(f)
  BY <1>0, <1>1, <1>b, <1>8 DEF Stopped
<1>9. CASE Command(f, n)
  BY <1>1, <1>b, <1>9 DEF Command
<1> QED
  BY <1>2, <1>3, <1>4, <1>5, <1>6, <1>7, <1>8, <1>9 DEF Task

(* Each step of a driver. *)
LEMMA DriverInside ==
  ASSUME ControlTypeOK, FlowletsOK, NEW f \in Flowlets, NEW n \in Nat, Driver(f)
  PROVE  Inside(f, n)
<1>1. f \in Controllers /\ f # Flow
  BY Constants
<1>a. driver[f] # "none"
  BY DEF Driver, Start, Initialized, InitFails, Loop, Interrupted, BeginRound, EndRound, Terminate,
         DriverGoto
<1>b. FlowletOK(f) /\ (Reading(f) => consumer[f] = instanceCount[f]) /\ instanceCount[f] # 0
  BY <1>a, OneInstance
<1> USE DEF Inside, Moves, Live, FlowletOK, AtStart, Awake, Halting, Parked, Stopping, HasStopped,
            HasFailed, Reading, Working, ControlTypeOK, driverVars, contextVars, SetState, DriverGoto
<1>2. CASE Start(f)
  BY <1>1, <1>b, <1>2 DEF Start
<1>3. CASE Initialized(f)
  BY <1>1, <1>b, <1>3 DEF Initialized
<1>4. CASE InitFails(f)
  BY <1>1, <1>b, <1>4 DEF InitFails
<1>5. CASE Loop(f)
  BY <1>1, <1>b, <1>5 DEF Loop
<1>6. CASE Interrupted(f)
  BY <1>1, <1>b, <1>6 DEF Interrupted
<1>7. CASE BeginRound(f)
  BY <1>1, <1>b, <1>7 DEF BeginRound
<1>8. CASE EndRound(f)
  BY <1>1, <1>b, <1>8 DEF EndRound
<1>9. CASE Terminate(f)
  BY <1>1, <1>b, <1>9 DEF Terminate
<1> QED
  BY <1>2, <1>3, <1>4, <1>5, <1>6, <1>7, <1>8, <1>9 DEF Driver

(* The thread of started(). *)
LEMMA AliveInside ==
  ASSUME ControlTypeOK, FlowletsOK, NEW f \in Flowlets, NEW n \in Nat, SetAlive(f)
  PROVE  Inside(f, n)
<1>1. f \in Controllers /\ f # Flow
  BY Constants
<1>2. FlowletOK(f) /\ (Reading(f) => consumer[f] = instanceCount[f]) /\ instanceCount[f] # 0
  BY OneInstance DEF SetAlive
<1> QED
  BY <1>1, <1>2
     DEF SetAlive, Inside, Moves, Live, FlowletOK, AtStart, Awake, Halting, Parked, Stopping, HasStopped,
         HasFailed, Reading, Working, ControlTypeOK, driverVars, contextVars, SetState

-----------------------------------------------------------------------------
(* Such a step keeps the invariant. *)

(* The parts of the state that are functions of the instances. *)
LEMMA LocalFlowlets ==
  ASSUME FlowInv, NEW f \in Flowlets, f <= created, NEW n, Aside(f), Inside(f, n), created' = created
  PROVE  FlowletsOK'
<1>1. ASSUME NEW g \in Flowlets, g # f
      PROVE  /\ IF g <= created THEN FlowletOK(g)' ELSE NotYet(g)'
             /\ g <= created => instanceCount'[g] # 0
             /\ (Reading(g) => consumer[g] = instanceCount[g])'
  <2>1. SameFlowlet(g)
    BY <1>1 DEF Aside
  <2>2. /\ IF g <= created THEN FlowletOK(g) ELSE NotYet(g)
        /\ g <= created => instanceCount[g] # 0
        /\ Reading(g) => consumer[g] = instanceCount[g]
    BY DEF FlowInv, FlowletsOK
  <2>3. FlowletOK(g)' <=> FlowletOK(g)
    BY <2>1 DEF SameFlowlet, FlowletOK, AtStart, Awake, Halting, Parked, Stopping, HasStopped, HasFailed
  <2>4. NotYet(g)' <=> NotYet(g)
    BY <2>1 DEF SameFlowlet, NotYet
  <2>5. Reading(g)' <=> Reading(g)
    BY <2>1 DEF SameFlowlet, Reading
  <2> QED
    BY <2>1, <2>2, <2>3, <2>4, <2>5 DEF SameFlowlet
<1>2. FlowletOK(f)' /\ instanceCount'[f] # 0 /\ (Reading(f) => consumer[f] = instanceCount[f])'
  BY DEF Inside
<1> QED
  BY <1>1, <1>2 DEF FlowletsOK

(* The table, the plan and the requests are as they were. *)
LEMMA LocalFlow ==
  ASSUME FlowInv, NEW f \in Flowlets, f <= created, NEW n, Aside(f), Inside(f, n), UNCHANGED flowVars
  PROVE  TypeOK' /\ PlanOK' /\ TableOK' /\ RequestsOK'
<1>1. flowlets' = flowlets /\ created' = created /\ sent' = sent /\ waiting' = waiting
      /\ holder' = holder /\ plan' = plan
  BY DEF flowVars
<1>2. ControlTypeOK' /\ state'[Flow] = state[Flow] /\ aliveTask'[Flow] = aliveTask[Flow]
  BY DEF Aside
<1>3. TypeOK'
  BY <1>1, <1>2 DEF FlowInv, TypeOK
<1>4. TableOK'
  BY <1>1 DEF FlowInv, TableOK, Table
<1>5. AllAnswered => AllAnswered'
  BY DEF AllAnswered, Aside, SameFlowlet, Inside
<1>6. PlanOK'
  <2>1. Fewer(holder.n)' <=> Fewer(holder.n)
    BY <1>1 DEF Fewer, Table, Kept
  <2>2. Same' <=> Same
    BY <1>1 DEF Same, Table
  <2>3. More(holder.n)' <=> More(holder.n)
    BY <1>1 DEF More, Table, NewOnes
  <2>4. ChangeLeft(holder.n)' <=> ChangeLeft(holder.n)
    BY <1>1, <2>1, <2>2, <2>3 DEF ChangeLeft
  <2>5. Table' = Table
    BY <1>1 DEF Table
  <2> QED
    BY <1>1, <1>5, <2>4, <2>5 DEF FlowInv, PlanOK
<1>7. Quiet => Quiet'
  BY <1>2 DEF Quiet, Aside, SameFlowlet, Inside, Controllers
<1>8. \A r : Fits(r)' <=> Fits(r)
  BY <1>2 DEF Fits
<1>9. RequestsOK'
  BY <1>1, <1>2, <1>5, <1>7, <1>8 DEF FlowInv, RequestsOK
<1> QED
  BY <1>3, <1>4, <1>6, <1>9

(* An instance whose thread of started() has yet to run is in the table of a
   flow that is not being changed. *)
LEMMA AliveTaskMode ==
  ASSUME FlowInv, NEW f \in Flowlets, aliveTask[f]
  PROVE  f \in Table /\ Mode = States
<1>1. f <= created
  BY OneInstance DEF FlowInv
<1>2. f \in Table
  BY <1>1, Constants DEF FlowInv, ModeOK, Gone, Flowlets, TableOK
<1>3. ~Quiet
  BY Constants DEF Quiet
<1>4. plan = <<>> /\ holder.op \notin Simple
  BY <1>3 DEF FlowInv, RequestsOK
<1>5. Stage = "done"
  BY <1>4 DEF Stage
<1> QED
  BY <1>2, <1>4, <1>5 DEF Mode, Simple

(* The state an instance gets is one its flow leaves to it. *)
LEMMA LocalModes ==
  ASSUME FlowInv, NEW f \in Flowlets, f <= created, NEW n, Aside(f), Inside(f, n), UNCHANGED flowVars
  PROVE  ModeOK'
<1>1. flowlets' = flowlets /\ created' = created /\ holder' = holder /\ plan' = plan
  BY DEF flowVars
<1>2. state'[Flow] = state[Flow] /\ Table' = Table /\ Stage' = Stage
  BY <1>1 DEF Aside, Table, Stage
<1>3. Mode' = Mode
  BY <1>1, <1>2 DEF Mode
<1>4. Table \subseteq Flowlets /\ 1 .. created \subseteq Flowlets
  BY Constants DEF FlowInv, TableOK, Flowlets
<1>5. ASSUME NEW g \in Table PROVE state'[g] \in Mode
  <2>1. state[g] \in Mode
    BY DEF FlowInv, ModeOK
  <2>2. CASE g # f
    BY <1>4, <2>1, <2>2 DEF Aside, SameFlowlet
  <2>3. CASE g = f
    <3>0. Moves(f)
      BY DEF Inside
    <3>1. CASE state'[f] = "ALIVE" /\ aliveTask[f]
      BY <2>3, <3>1, AliveTaskMode DEF States
    <3>2. CASE ~(state'[f] = "ALIVE" /\ aliveTask[f])
      <4>1. Mode = Up \/ Mode = Down \/ Mode = Over \/ Mode = States
        BY DEF Mode
      <4>2. state'[f] \in States
        BY Constants DEF Aside, ControlTypeOK
      <4> QED
        BY <2>1, <2>3, <3>0, <3>2, <4>1, <4>2 DEF Moves, Up, Down, Over
    <3> QED
      BY <3>1, <3>2
  <2> QED
    BY <2>2, <2>3
<1>6. ASSUME NEW g \in (1 .. created) \ Table PROVE Gone(g)'
  <2>1. Gone(g) /\ g \in Flowlets
    BY <1>4 DEF FlowInv, ModeOK
  <2>2. CASE g # f
    BY <1>2, <2>1, <2>2 DEF Aside, SameFlowlet, Gone
  <2>3. CASE g = f
    <3>1. ~aliveTask[f] /\ driver[f] # "starting"
      <4>1. FlowletOK(f)
        BY DEF FlowInv, FlowletsOK
      <4> QED
        BY <2>1, <2>3, <4>1
           DEF Gone, FlowletOK, AtStart, Awake, Halting, Parked, Stopping, HasStopped, HasFailed, Working
    <3>2. aliveTask' \in [Controllers -> BOOLEAN] /\ f \in Controllers
      BY Constants DEF Aside, ControlTypeOK
    <3> QED
      BY <1>2, <2>1, <2>3, <3>1, <3>2 DEF Inside, Moves, Gone
  <2> QED
    BY <2>2, <2>3
<1> QED
  BY <1>1, <1>2, <1>3, <1>5, <1>6 DEF ModeOK

(* Its instance count changes only when it is told the new one. *)
LEMMA LocalSizes ==
  ASSUME FlowInv, NEW f \in Flowlets, f <= created, Aside(f), Inside(f, holder.n), UNCHANGED flowVars
  PROVE  SizesOK'
<1>1. flowlets' = flowlets /\ holder' = holder /\ plan' = plan
  BY DEF flowVars
<1>2. Stage' = Stage
  BY <1>1 DEF Stage
<1>3. \A g \in Flowlets \ {f} : (Live(g)' <=> Live(g)) /\ SameFlowlet(g)
  BY DEF Aside, SameFlowlet, Live
<1>4. \A g \in Flowlets : task'[g] = "command" => task[g] = "command"
  BY <1>3 DEF SameFlowlet, Inside
<1>5. \A g \in Flowlets : Live(g)' => Live(g)
  BY <1>3 DEF Inside
<1>6. ~(holder.op = "change" /\ Stage = "resume") =>
         \A g \in Flowlets : instanceCount'[g] = instanceCount[g]
  <2>1. ~(holder.op = "change" /\ Stage = "resume") => task[f] # "command"
    BY DEF FlowInv, SizesOK
  <2> QED
    BY <1>3, <2>1 DEF Inside, SameFlowlet
<1>7. holder.op = "change" /\ Stage = "resume" =>
        \A g \in Flowlets :
          Live(g)' => state'[g] = "SUSPENDED" /\ (task'[g] = "none" => instanceCount'[g] = holder.n)
  <2> SUFFICES ASSUME holder.op = "change", Stage = "resume", NEW g \in Flowlets, Live(g)'
               PROVE  state'[g] = "SUSPENDED" /\ (task'[g] = "none" => instanceCount'[g] = holder.n)
    OBVIOUS
  <2>1. state[g] = "SUSPENDED" /\ (task[g] = "none" => instanceCount[g] = holder.n)
    BY <1>5 DEF FlowInv, SizesOK
  <2> QED
    BY <1>3, <2>1 DEF Inside, SameFlowlet
<1> QED
  BY <1>1, <1>2, <1>4, <1>5, <1>6, <1>7 DEF FlowInv, SizesOK

(* All of it. *)
LEMMA LocalKeeps ==
  ASSUME FlowInv, NEW f \in Flowlets, f <= created, Aside(f), Inside(f, holder.n), UNCHANGED flowVars
  PROVE  FlowInv'
<1>1. FlowletsOK'
  BY LocalFlowlets DEF flowVars
<1> QED
  BY <1>1, LocalFlow, LocalModes, LocalSizes DEF FlowInv

(* The request that holds the lock. *)
LEMMA HolderType ==
  ASSUME FlowInv
  PROVE  /\ holder.n \in Nat /\ holder.n <= MaxInstances
         /\ holder = NoRequest \/ (holder.op \in Operations /\ holder.id # 0)
         /\ holder # NoRequest => Fits(holder)
         /\ NoRequest.op = "none" /\ NoRequest.n = 0
         /\ \A f \in Flowlets : task[f] = "command" => holder.n # 0
<1>1. NoRequest.op = "none" /\ NoRequest.n = 0
  BY DEF NoRequest
<1>2. holder \in Requests \/ holder = NoRequest
  BY DEF FlowInv, TypeOK
<1>3. holder.n \in Nat /\ holder.n <= MaxInstances
  BY <1>1, <1>2, Constants DEF Requests
<1>4. holder = NoRequest \/ (holder.op \in Operations /\ holder.id # 0)
  BY <1>2, Constants DEF Requests
<1>5. holder # NoRequest => Fits(holder)
  BY DEF FlowInv, RequestsOK
<1>6. \A f \in Flowlets : task[f] = "command" => holder.n # 0
  BY <1>3 DEF FlowInv, SizesOK, PlanOK
<1> QED
  BY <1>1, <1>3, <1>4, <1>5, <1>6

(* The steps of the instances. *)
LEMMA InstanceSteps ==
  ASSUME FlowInv, NEW f \in Flowlets, FlowletTask(f) \/ DriverStep(f) \/ AliveStep(f)
  PROVE  f <= created /\ Aside(f) /\ Inside(f, holder.n) /\ UNCHANGED flowVars
<1>1. ControlTypeOK /\ FlowletsOK /\ holder.n \in Nat /\ (task[f] = "command" => holder.n # 0)
  BY HolderType DEF FlowInv, TypeOK
<1>2. CASE FlowletTask(f)
  <2>1. Task(f, holder.n) /\ UNCHANGED flowVars
    BY <1>2 DEF FlowletTask
  <2>2. task[f] # "none"
    BY <2>1 DEF Task, SuspendDriver, Meet, CloseConsumers, OpenConsumers, ResumeDriver, StopDriver,
                Stopped, Command
  <2> QED
    BY <1>1, <2>1, <2>2, OneInstance, TaskAside, TaskInside
<1>3. CASE DriverStep(f)
  <2>1. Driver(f) /\ UNCHANGED flowVars
    BY <1>3 DEF DriverStep
  <2>2. driver[f] # "none"
    BY <2>1 DEF Driver, Start, Initialized, InitFails, Loop, Interrupted, BeginRound, EndRound,
                Terminate, DriverGoto
  <2> QED
    BY <1>1, <2>1, <2>2, OneInstance, DriverAside, DriverInside
<1>4. CASE AliveStep(f)
  <2>1. SetAlive(f) /\ UNCHANGED flowVars
    BY <1>4 DEF AliveStep
  <2>2. aliveTask[f]
    BY <2>1 DEF SetAlive
  <2> QED
    BY <1>1, <2>1, <2>2, OneInstance, AliveAside, AliveInside
<1> QED
  BY <1>2, <1>3, <1>4

(* They keep the invariant. *)
LEMMA InstanceStepsKeep ==
  ASSUME FlowInv, NEW f \in Flowlets, FlowletTask(f) \/ DriverStep(f) \/ AliveStep(f)
  PROVE  FlowInv'
BY InstanceSteps, LocalKeeps

-----------------------------------------------------------------------------
(* The steps of the flow. *)

(* What is said of an instance stays true while it is left alone. *)
LEMMA SameInstance ==
  ASSUME NEW g \in Flowlets, SameFlowlet(g)
  PROVE  /\ FlowletOK(g)' <=> FlowletOK(g)
         /\ NotYet(g)' <=> NotYet(g)
         /\ Reading(g)' <=> Reading(g)
         /\ Live(g)' <=> Live(g)
<1>1. FlowletOK(g)' <=> FlowletOK(g)
  BY DEF SameFlowlet, FlowletOK, AtStart, Awake, Halting, Parked, Stopping, HasStopped, HasFailed
<1>2. NotYet(g)' <=> NotYet(g)
  BY DEF SameFlowlet, NotYet
<1>3. (Reading(g)' <=> Reading(g)) /\ (Live(g)' <=> Live(g))
  BY DEF SameFlowlet, Reading, Live
<1> QED
  BY <1>1, <1>2, <1>3

(* So it does for all of them at once. *)
LEMMA FrameFlowlets ==
  ASSUME FlowletsOK, \A g \in Flowlets : SameFlowlet(g), created' = created
  PROVE  FlowletsOK' /\ (AllAnswered' <=> AllAnswered)
<1>1. AllAnswered' <=> AllAnswered
  BY DEF AllAnswered, SameFlowlet
<1>2. ASSUME NEW g \in Flowlets
      PROVE  /\ IF g <= created THEN FlowletOK(g)' ELSE NotYet(g)'
             /\ g <= created => instanceCount'[g] # 0
             /\ (Reading(g) => consumer[g] = instanceCount[g])'
  BY SameInstance DEF FlowletsOK, SameFlowlet
<1> QED
  BY <1>1, <1>2 DEF FlowletsOK

(* The flow's thread of started(). *)
LEMMA FlowAlive ==
  ASSUME FlowInv, AliveStep(Flow)
  PROVE  FlowInv' /\ state' = state
<1>1. flowlets' = flowlets /\ created' = created /\ sent' = sent /\ waiting' = waiting
      /\ holder' = holder /\ plan' = plan
  BY DEF AliveStep, flowVars
<1>2. /\ aliveTask[Flow] /\ aliveTask' = [aliveTask EXCEPT ![Flow] = FALSE]
      /\ state' = [state EXCEPT ![Flow] = "ALIVE"]
      /\ task' = task /\ driver' = driver /\ shutdown' = shutdown /\ suspension' = suspension
      /\ instanceCount' = instanceCount /\ consumer' = consumer
  BY DEF AliveStep, SetAlive, SetState, driverVars, contextVars
<1>3. ControlTypeOK /\ state[Flow] = "ALIVE"
  BY <1>2 DEF FlowInv, TypeOK, RequestsOK
<1>4. state' = state
  BY <1>2, <1>3 DEF ControlTypeOK
<1>5. /\ \A g \in Flowlets : SameFlowlet(g) 
      /\ \A c \in Controllers : aliveTask'[c] => aliveTask[c]
      /\ aliveTask' \in [Controllers -> BOOLEAN]
  BY <1>2, <1>3, <1>4, Constants DEF SameFlowlet, ControlTypeOK
<1>6. FlowletsOK' /\ (AllAnswered' <=> AllAnswered)
  BY <1>1, <1>5, FrameFlowlets DEF FlowInv
<1>7. TypeOK'
  BY <1>1, <1>2, <1>4, <1>5 DEF FlowInv, TypeOK, ControlTypeOK
<1>8. TableOK' /\ Table' = Table /\ Stage' = Stage
  BY <1>1 DEF FlowInv, TableOK, Table, Stage
<1>9. PlanOK'
  BY <1>1, <1>6, <1>8 DEF FlowInv, PlanOK, ChangeLeft, Fewer, Same, More, Kept, NewOnes
<1>10. Quiet => Quiet'
  BY <1>2, <1>5 DEF Quiet
<1>11. RequestsOK'
  BY <1>1, <1>3, <1>4, <1>6, <1>10 DEF FlowInv, RequestsOK, Fits
<1>12. Mode' = Mode
  BY <1>1, <1>4, <1>8 DEF Mode
<1>13. ModeOK'
  <2>1. \A f \in (1 .. created) \ Table : Gone(f)'
    <3> TAKE f \in (1 .. created) \ Table
    <3>1. f \in Flowlets /\ Gone(f)
      BY Constants DEF FlowInv, ModeOK, TableOK, Flowlets
    <3> QED
      BY <1>4, <1>5, <1>8, <3>1 DEF Gone, SameFlowlet
  <2> QED
    BY <1>1, <1>4, <1>8, <1>12, <2>1 DEF FlowInv, ModeOK
<1>14. SizesOK'
  BY <1>1, <1>2, <1>4, <1>8 DEF FlowInv, SizesOK, Live
<1> QED
  BY <1>4, <1>6, <1>7, <1>8, <1>9, <1>11, <1>13, <1>14 DEF FlowInv

(* A step that leaves the instances, the table and the plan alone. *)
LEMMA FramePlan ==
  ASSUME FlowInv, \A g \in Flowlets : SameFlowlet(g), UNCHANGED <<flowlets, created, holder, plan>>
  PROVE  /\ FlowletsOK' /\ (AllAnswered' <=> AllAnswered)
         /\ TableOK' /\ Table' = Table /\ Stage' = Stage /\ PlanOK' /\ SizesOK'
<1>1. FlowletsOK' /\ (AllAnswered' <=> AllAnswered)
  BY FrameFlowlets DEF FlowInv
<1>2. TableOK' /\ Table' = Table /\ Stage' = Stage
  BY DEF FlowInv, TableOK, Table, Stage
<1>3. PlanOK'
  BY <1>1, <1>2 DEF FlowInv, PlanOK, ChangeLeft, Fewer, Same, More, Kept, NewOnes
<1>4. \A g \in Flowlets : Live(g)' <=> Live(g)
  BY SameInstance
<1>5. SizesOK'
  BY <1>2, <1>4 DEF FlowInv, SizesOK, SameFlowlet
<1> QED
  BY <1>1, <1>2, <1>3, <1>5

(* Who has left the table stays out. *)
LEMMA FrameGone ==
  ASSUME FlowInv, \A g \in Flowlets : SameFlowlet(g), Stage' = Stage
  PROVE  \A f \in (1 .. created) \ Table : Gone(f)'
<1> TAKE f \in (1 .. created) \ Table
<1>1. f \in Flowlets /\ Gone(f)
  BY Constants DEF FlowInv, ModeOK, TableOK, Flowlets
<1> QED
  BY <1>1 DEF Gone, SameFlowlet

(* What a settled flow is like. *)
LEMMA SettledFlow ==
  ASSUME FlowInv, Settled
  PROVE  /\ waiting = {} /\ holder = NoRequest /\ plan = <<>> /\ AllAnswered /\ Quiet
         /\ state[Flow] \in {"ALIVE", "SUSPENDED", "STOPPED"} /\ Stage = "done"
<1>1. waiting = {} /\ holder = NoRequest /\ Quiet
  BY DEF Settled, Quiet
<1>2. plan = <<>> /\ AllAnswered /\ state[Flow] \in {"ALIVE", "SUSPENDED", "STOPPED"}
  BY <1>1 DEF FlowInv, PlanOK, RequestsOK, Rests
<1> QED
  BY <1>1, <1>2 DEF Stage

(* A request is accepted. *)
LEMMA SendKeeps ==
  ASSUME FlowInv, Careful, NEW op \in Operations, NEW n \in 0 .. MaxInstances, Send(op, n)
  PROVE  /\ Settled /\ UNCHANGED <<flowlets, created, holder, plan>>
         /\ sent' \in 0 .. MaxRequests /\ waiting' \subseteq Requests
         /\ waiting' = {[id |-> sent + 1, op |-> op, n |-> n]}
<1>1. Settled /\ waiting = {} /\ sent < MaxRequests /\ sent' = sent + 1 /\ sent \in 0 .. MaxRequests
      /\ UNCHANGED <<flowlets, created, holder, plan>>
  BY SettledFlow DEF Send, FlowInv, TypeOK
<1>2. sent' \in 0 .. MaxRequests /\ sent + 1 \in 1 .. MaxRequests
  BY <1>1, Constants
<1>3. waiting' = {[id |-> sent + 1, op |-> op, n |-> n]}
  BY <1>1 DEF Send
<1> QED
  BY <1>1, <1>2, <1>3 DEF Requests

(* suspend(), resume() or stop() of the flow. *)
LEMMA AskKeeps ==
  ASSUME FlowInv, Careful, NEW op \in Operations \ {"change"}, Ask(op)
  PROVE  FlowInv' /\ state[Flow] \notin {"STOPPED", "ERROR"} /\ (\A g \in Flowlets : SameFlowlet(g))
<1>1. op \in Simple /\ Accepts(Flow, op) /\ Send(op, 0) /\ Request(op, {Flow})
  BY DEF Ask, Operations, Simple
<1>2. /\ Settled /\ UNCHANGED <<flowlets, created, holder, plan>>
      /\ sent' \in 0 .. MaxRequests /\ waiting' \subseteq Requests
      /\ waiting' = {[id |-> sent + 1, op |-> op, n |-> 0]}
  BY <1>1, SendKeeps, Constants
<1>3. /\ waiting = {} /\ holder = NoRequest /\ plan = <<>> /\ AllAnswered /\ Quiet
      /\ state[Flow] \in {"ALIVE", "SUSPENDED", "STOPPED"} /\ Stage = "done"
  BY <1>2, SettledFlow
<1>4. state[Flow] \in From[op]
  BY <1>1 DEF Accepts, Simple
<1>5. /\ state' = [c \in Controllers |-> IF c = Flow THEN During[op] ELSE state[c]]
      /\ task' = [f \in Flowlets |-> task[f]]
      /\ aliveTask' = aliveTask /\ driver' = driver /\ shutdown' = shutdown
      /\ suspension' = suspension /\ instanceCount' = instanceCount /\ consumer' = consumer
  <2>1. \A c : c \in {f \in {Flow} : Accepts(f, op)} <=> c = Flow
    BY <1>1
  <2>2. \A c \in Flowlets : c # Flow
    BY Constants
  <2> QED
    BY <1>1, <2>1, <2>2 DEF Request, Simple, driverVars, contextVars
<1>6. ControlTypeOK
  BY DEF FlowInv, TypeOK
<1>7. /\ \A g \in Flowlets : SameFlowlet(g)
      /\ state'[Flow] = During[op] /\ task' = task
  BY <1>5, <1>6, Constants DEF SameFlowlet, ControlTypeOK
<1>8. /\ FlowletsOK' /\ (AllAnswered' <=> AllAnswered)
      /\ TableOK' /\ Table' = Table /\ Stage' = Stage /\ PlanOK' /\ SizesOK'
  BY <1>2, <1>7, FramePlan
<1>9. During[op] \in States /\ During[op] # "ALIVE"
  BY <1>1, StateTables DEF Simple, States
<1>10. ControlTypeOK'
  BY <1>5, <1>6, <1>7, <1>9, Constants DEF ControlTypeOK
<1>11. TypeOK'
  BY <1>2, <1>10 DEF FlowInv, TypeOK
<1>12. Quiet' /\ ~aliveTask'[Flow]
  BY <1>3, <1>5, Constants DEF Quiet
<1>13. RequestsOK'
  <2> DEFINE r == [id |-> sent + 1, op |-> op, n |-> 0]
  <2>1. r.op = op
    OBVIOUS
  <2> HIDE DEF r
  <2>3. waiting' = {r}
    BY <1>2 DEF r
  <2>4. \A p, q \in waiting' : p = q
    BY <2>3
  <2>5. \A p \in waiting' : Fits(p)' /\ p.op # "change"
    <3> TAKE p \in waiting'
    <3>1. p.op = op
      BY <2>1, <2>3
    <3> QED
      BY <1>1, <1>7, <3>1 DEF Fits, Simple
  <2>6. waiting' # {}
    BY <2>3
  <2> QED
    BY <1>2, <1>3, <1>12, <2>4, <2>5, <2>6 DEF RequestsOK
<1>14. Mode' = Mode
  BY <1>2, <1>8 DEF Mode
<1>15. ModeOK'
  <2>1. \A f \in (1 .. created) \ Table : Gone(f)'
    BY <1>7, <1>8, FrameGone
  <2>2. \A f \in Table : state'[f] \in Mode'
    <3> TAKE f \in Table
    <3>1. f \in Flowlets /\ state[f] \in Mode
      BY Constants DEF FlowInv, ModeOK, TableOK, Flowlets
    <3> QED
      BY <1>7, <1>14, <3>1 DEF SameFlowlet
  <2> QED
    BY <1>2, <1>8, <2>1, <2>2 DEF ModeOK
<1>16. state[Flow] \notin {"STOPPED", "ERROR"}
  BY <1>1, <1>4, StateTables DEF Simple
<1> QED
  BY <1>7, <1>8, <1>11, <1>13, <1>15, <1>16 DEF FlowInv

(* A new number of instances is asked for. *)
LEMMA AskChangeKeeps ==
  ASSUME FlowInv, Careful, NEW n \in 1 .. MaxInstances, AskChange(n)
  PROVE  FlowInv' /\ state' = state
<1>1. /\ Send("change", n)
      /\ created + (Cardinality(Changes) + 1) * (MaxInstances - 1) <= MaxFlowlets
      /\ state' = state /\ aliveTask' = aliveTask /\ task' = task /\ driver' = driver
      /\ shutdown' = shutdown /\ suspension' = suspension
      /\ instanceCount' = instanceCount /\ consumer' = consumer
  BY DEF AskChange, controlVars, driverVars, contextVars
<1>2. /\ Settled /\ UNCHANGED <<flowlets, created, holder, plan>>
      /\ sent' \in 0 .. MaxRequests /\ waiting' \subseteq Requests
      /\ waiting' = {[id |-> sent + 1, op |-> "change", n |-> n]}
  BY <1>1, SendKeeps, Constants DEF Operations
<1>3. /\ waiting = {} /\ holder = NoRequest /\ plan = <<>> /\ AllAnswered /\ Quiet /\ Stage = "done"
      /\ state[Flow] \in Rests
  BY <1>2, SettledFlow DEF Rests
<1>4. created + MaxInstances - 1 <= MaxFlowlets
  <2>1. Changes = {}
    BY <1>3 DEF Changes, NoRequest
  <2>2. Cardinality({}) = 0
    BY FS_EmptySet
  <2>3. created \in Nat
    BY Constants DEF FlowInv, TableOK, Flowlets
  <2> QED
    BY <1>1, <2>1, <2>2, <2>3, Constants
<1>5. \A g \in Flowlets : SameFlowlet(g)
  BY <1>1 DEF SameFlowlet
<1>6. /\ FlowletsOK' /\ (AllAnswered' <=> AllAnswered)
      /\ TableOK' /\ Table' = Table /\ Stage' = Stage /\ PlanOK' /\ SizesOK'
  BY <1>2, <1>5, FramePlan
<1>7. TypeOK'
  BY <1>1, <1>2 DEF FlowInv, TypeOK, ControlTypeOK
<1>8. Quiet'
  BY <1>1, <1>3 DEF Quiet
<1>9. RequestsOK'
  <2> DEFINE r == [id |-> sent + 1, op |-> "change", n |-> n]
  <2>1. r.op = "change" /\ r.n = n
    OBVIOUS
  <2> HIDE DEF r
  <2>2. waiting' = {r}
    BY <1>2 DEF r
  <2>3. \A p, q \in waiting' : p = q
    BY <2>2
  <2>4. \A p \in waiting' : Fits(p)'
    <3> TAKE p \in waiting'
    <3>1. p.op = "change" /\ p.n >= 1
      BY <2>1, <2>2, Constants
    <3> QED
      BY <1>1, <1>3, <3>1 DEF Fits
  <2>5. waiting' # {}
    BY <2>2
  <2> QED
    BY <1>1, <1>2, <1>3, <1>4, <1>8, <2>3, <2>4, <2>5, Constants DEF RequestsOK, Quiet
<1>10. Mode' = Mode
  BY <1>1, <1>2, <1>6 DEF Mode
<1>11. ModeOK'
  BY <1>1, <1>2, <1>6, <1>10 DEF FlowInv, ModeOK, Gone
<1> QED
  BY <1>1, <1>6, <1>7, <1>9, <1>11 DEF FlowInv

(* The table and what may be made of it. *)
LEMMA TableFacts ==
  ASSUME FlowInv
  PROVE  /\ flowlets \in Seq(Flowlets) /\ Len(flowlets) \in Nat /\ Len(flowlets) >= 1
         /\ Len(flowlets) <= MaxInstances /\ created \in Nat /\ created >= 1 /\ created <= MaxFlowlets
         /\ Table = {flowlets[i] : i \in 1 .. Len(flowlets)} /\ Table \subseteq Flowlets
         /\ \A n \in Nat : n <= Len(flowlets) => Kept(n) \subseteq Table
         /\ \A f \in 1 .. created : f \in Flowlets
<1>1. /\ flowlets \in Seq(Flowlets) /\ Len(flowlets) \in Nat /\ Len(flowlets) >= 1
      /\ Len(flowlets) <= MaxInstances
      /\ created \in Nat /\ created >= 1 /\ created <= MaxFlowlets
      /\ Table \subseteq 1 .. created
  BY Constants DEF FlowInv, TableOK, Flowlets
<1>2. DOMAIN flowlets = 1 .. Len(flowlets)
  BY <1>1, LenProperties
<1>3. Table = {flowlets[i] : i \in 1 .. Len(flowlets)}
  BY <1>2 DEF Table, Range
<1>4. \A n \in Nat : n <= Len(flowlets) => Kept(n) \subseteq Table
  BY <1>1, <1>3 DEF Kept
<1>5. \A f \in 1 .. created : f \in Flowlets
  BY <1>1, Constants DEF Flowlets
<1> QED
  BY <1>1, <1>3, <1>4, <1>5

(* A step of a plan. *)
LEMMA DoType ==
  ASSUME NEW op \in {"suspend", "resume", "stop", "command", "create"}, NEW who \in SUBSET Flowlets
  PROVE  Do(op, who) \in PlanSteps
BY DEF Do, PlanSteps

(* The plan of a change is one that may be left, and its first step. *)
LEMMA ChangePlanIs ==
  ASSUME FlowInv, NEW n \in Nat, n >= 1, n <= MaxInstances, created + MaxInstances - 1 <= MaxFlowlets,
         plan' = ChangePlan(n), UNCHANGED <<flowlets, created>>
  PROVE  /\ ChangeLeft(n)' /\ Len(plan') <= 4 /\ Range(plan') \subseteq PlanSteps
         /\ Stage' \in {"stop", "suspend", "done"} /\ (Stage' = "done" => n = Len(flowlets))
<1>1. /\ Len(flowlets) \in Nat /\ Len(flowlets) >= 1 /\ created \in Nat /\ created >= 1
      /\ Table = Kept(Len(flowlets)) /\ Table \subseteq Flowlets
      /\ (n <= Len(flowlets) => Kept(n) \subseteq Table)
  BY TableFacts DEF Kept
<1>2. Table' = Table /\ Kept(n)' = Kept(n) /\ NewOnes(n)' = NewOnes(n)
      /\ flowlets' = flowlets /\ created' = created
  BY DEF Table, Kept, NewOnes
<1>3. CASE n = Len(flowlets)
  <2>1. plan' = <<>>
    BY <1>1, <1>3 DEF ChangePlan
  <2>2. Same' /\ Stage' = "done"
    BY <2>1 DEF Same, Stage
  <2>3. Len(<<>>) <= 4 /\ Range(<<>>) \subseteq PlanSteps
    BY DEF Range
  <2> QED
    BY <1>2, <1>3, <2>1, <2>2, <2>3 DEF ChangeLeft
<1>4. CASE n > Len(flowlets)
  <2> DEFINE a == Do("suspend", Table)
             b == Do("command", Table)
             c == Do("resume", Table)
             d == Do("create", NewOnes(n))
  <2>1. plan' = Append(<<a, b, c>>, d)
    <3>1. Kept(Len(flowlets)) = {flowlets[i] : i \in 1 .. (IF n < Len(flowlets) THEN n ELSE Len(flowlets))}
      BY <1>1, <1>4 DEF Kept
    <3> DEFINE K == {flowlets[i] : i \in 1 .. (IF n < Len(flowlets) THEN n ELSE Len(flowlets))}
               N == created + 1 .. created + n - Len(flowlets)
    <3>2. ~(n = Len(flowlets)) /\ n > Len(flowlets) /\ ~(n < Len(flowlets))
      BY <1>1, <1>4
    <3>3. ChangePlan(n) = CASE n = Len(flowlets) -> <<>>
                            [] n > Len(flowlets) -> Append(Recount(K), Do("create", N))
                            [] n < Len(flowlets) -> <<Do("stop", Range(flowlets) \ K)>> \o Recount(K)
      BY DEF ChangePlan
    <3>4. K = Table /\ N = NewOnes(n)
      BY <1>1, <3>1 DEF NewOnes
    <3> HIDE DEF K, N
    <3>5. plan' = Append(Recount(K), Do("create", N))
      BY <3>2, <3>3
    <3> QED
      BY <3>4, <3>5 DEF Recount
  <2>2. created + n - Len(flowlets) <= MaxFlowlets
    BY <1>1, <1>4, Constants
  <2>3. NewOnes(n) \subseteq Flowlets
    BY <1>1, <1>4, <2>2, Constants DEF NewOnes, Flowlets
  <2>4. a \in PlanSteps /\ b \in PlanSteps /\ c \in PlanSteps /\ d \in PlanSteps
    BY <1>1, <2>3, DoType
  <2>5. a.op = "suspend"
    BY DoIs
  <2>6. More(n)' <=> \/ plan' = <<a, b, c, d>> \/ plan' = <<b, c, d>> \/ plan' = <<c, d>> \/ plan' = <<d>>
    BY <1>2 DEF More
  <2> HIDE DEF a, b, c, d
  <2>7. plan' = <<a, b, c, d>>
    BY <2>1, AppendToThree
  <2>8. plan' # <<>> /\ Head(plan') = a
    BY <2>7, PlanOfFour
  <2>9. Stage' = "suspend"
    BY <2>5, <2>8 DEF Stage
  <2>10. Len(plan') <= 4 /\ Range(plan') \subseteq PlanSteps
    BY <2>4, <2>7, ShortPlans
  <2> QED
    BY <1>2, <1>4, <2>2, <2>6, <2>7, <2>9, <2>10 DEF ChangeLeft
<1>5. CASE n < Len(flowlets)
  <2> DEFINE a == Do("stop", Table \ Kept(n))
             b == Do("suspend", Kept(n))
             c == Do("command", Kept(n))
             d == Do("resume", Kept(n))
  <2>1. plan' = <<a>> \o <<b, c, d>>
    <3>1. Kept(n) = {flowlets[i] : i \in 1 .. (IF n < Len(flowlets) THEN n ELSE Len(flowlets))}
      BY <1>1, <1>5 DEF Kept
    <3>2. plan' = <<Do("stop", Table \ Kept(n))>> \o Recount(Kept(n))
      BY <1>1, <1>5, <3>1 DEF ChangePlan, Table
    <3> QED
      BY <3>2 DEF Recount
  <2>2. a \in PlanSteps /\ b \in PlanSteps /\ c \in PlanSteps /\ d \in PlanSteps
    BY <1>1, <1>5, DoType
  <2>3. a.op = "stop"
    BY DoIs
  <2>4. Fewer(n)' <=> plan' = <<a, b, c, d>>
    BY <1>2 DEF Fewer
  <2> HIDE DEF a, b, c, d
  <2>5. plan' = <<a, b, c, d>>
    BY <2>1, PrependToThree
  <2>6. plan' # <<>> /\ Head(plan') = a
    BY <2>5, PlanOfFour
  <2>7. Stage' = "stop"
    BY <2>3, <2>6 DEF Stage
  <2>8. Len(plan') <= 4 /\ Range(plan') \subseteq PlanSteps
    BY <2>2, <2>5, ShortPlans
  <2> QED
    BY <1>2, <1>5, <2>4, <2>5, <2>7, <2>8 DEF ChangeLeft
<1> QED
  BY <1>1, <1>3, <1>4, <1>5

(* The thread of a request gets the lock. *)
LEMMA AcquireKeeps ==
  ASSUME FlowInv, NEW r \in waiting, Acquire(r)
  PROVE  FlowInv' /\ state' = state
<1>1. /\ holder = NoRequest /\ holder' = r /\ waiting' = waiting \ {r}
      /\ plan' = IF r.op = "change" THEN ChangePlan(r.n) ELSE <<Do(r.op, Range(flowlets))>>
      /\ state' = state /\ aliveTask' = aliveTask /\ task' = task /\ driver' = driver
      /\ shutdown' = shutdown /\ suspension' = suspension
      /\ instanceCount' = instanceCount /\ consumer' = consumer
      /\ flowlets' = flowlets /\ created' = created /\ sent' = sent
  BY DEF Acquire, controlVars, driverVars, contextVars
<1>2. /\ waiting' = {} /\ plan = <<>> /\ AllAnswered /\ Quiet /\ Stage = "done" /\ Fits(r)
      /\ (r.op = "change" => created + MaxInstances - 1 <= MaxFlowlets)
  <2>1. plan = <<>> /\ AllAnswered
    BY <1>1 DEF FlowInv, PlanOK
  <2> QED
    BY <1>1, <2>1 DEF FlowInv, RequestsOK, Stage
<1>3. r \in Requests /\ r.n \in Nat /\ r.n <= MaxInstances /\ r.id # 0 /\ r # NoRequest
      /\ r.op # "none"
  <2>1. r \in Requests
    BY DEF FlowInv, TypeOK
  <2>2. r.n \in Nat /\ r.n <= MaxInstances /\ r.id \in 1 .. MaxRequests /\ r.op \in Operations
    BY <2>1, Constants DEF Requests
  <2> QED
    BY <2>1, <2>2, Constants DEF NoRequest, Operations
<1>4. \A g \in Flowlets : SameFlowlet(g)
  BY <1>1 DEF SameFlowlet
<1>5. FlowletsOK' /\ AllAnswered' /\ Quiet' /\ TableOK' /\ Table' = Table
  BY <1>1, <1>2, <1>4, FrameFlowlets DEF FlowInv, Quiet, TableOK, Table
<1>6. /\ PlanOK' /\ Len(plan') <= 4 /\ Range(plan') \subseteq PlanSteps
      /\ r.op = "change" => /\ Stage' \in {"stop", "suspend", "done"}
                            /\ (Stage' = "done" => r.n = Len(flowlets))
      /\ r.op # "change" => Stage' # "done"
  <2>1. CASE r.op = "change"
    <3>1. r.n >= 1
      BY <1>2, <2>1 DEF Fits
    <3>2. /\ ChangeLeft(r.n)' /\ Len(plan') <= 4 /\ Range(plan') \subseteq PlanSteps
          /\ Stage' \in {"stop", "suspend", "done"} /\ (Stage' = "done" => r.n = Len(flowlets))
      BY <1>1, <1>2, <1>3, <2>1, <3>1, ChangePlanIs
    <3>3. ChangeLeft(holder.n)'
      BY <1>1, <3>2 DEF ChangeLeft, Fewer, More, Kept, NewOnes
    <3>4. r.op \notin Simple
      BY <2>1 DEF Simple
    <3> QED
      BY <1>1, <1>3, <2>1, <3>1, <3>2, <3>3, <3>4 DEF PlanOK
  <2>2. CASE r.op # "change"
    <3>1. plan' = <<Do(r.op, Table)>> /\ r.op \in Simple
      BY <1>1, <1>2, <2>2 DEF Table, Fits
    <3>2. Do(r.op, Table).op = r.op
      BY DoIs
    <3>3. plan' # <<>> /\ Head(plan') = Do(r.op, Table)
      BY <3>1, PlanOfOne
    <3>4. Stage' = r.op
      BY <3>2, <3>3 DEF Stage
    <3>5. Do(r.op, Table) \in PlanSteps
      BY <3>1, DoType, TableFacts DEF Simple
    <3>6. Len(plan') <= 4 /\ Range(plan') \subseteq PlanSteps
      BY <3>1, <3>5, ShortPlans
    <3> QED
      BY <1>1, <1>3, <1>5, <2>2, <3>1, <3>4, <3>6 DEF PlanOK, Simple
  <2> QED
    BY <2>1, <2>2
<1>7. TypeOK'
  BY <1>1, <1>2, <1>3, <1>6 DEF FlowInv, TypeOK, ControlTypeOK
<1>8. RequestsOK'
  <2>1. Fits(holder)'
    BY <1>1, <1>2 DEF Fits
  <2>2. aliveTask'[Flow] => state'[Flow] = "ALIVE"
    BY <1>1 DEF FlowInv, RequestsOK
  <2> QED
    BY <1>1, <1>2, <1>3, <1>5, <2>1, <2>2 DEF RequestsOK
<1>9. Mode' = States
  BY <1>1, <1>6 DEF Mode
<1>10. ModeOK'
  <2>1. \A f \in (1 .. created) \ Table : Gone(f)'
    BY <1>1, <1>2 DEF FlowInv, ModeOK, Gone
  <2>2. \A f \in Table : state'[f] \in States
    BY <1>7, TableFacts, Constants DEF TypeOK, ControlTypeOK
  <2> QED
    BY <1>1, <1>5, <1>9, <2>1, <2>2 DEF ModeOK
<1>11. SizesOK'
  <2>1. \A f \in Flowlets : task'[f] # "command"
    BY <1>1, <1>2 DEF AllAnswered
  <2>2. \A f \in Flowlets : Live(f)' => instanceCount'[f] = Len(flowlets)
    BY <1>1 DEF FlowInv, SizesOK, Live, NoRequest
  <2> QED
    BY <1>1, <1>6, <2>1, <2>2 DEF SizesOK
<1> QED
  BY <1>1, <1>5, <1>6, <1>7, <1>8, <1>10, <1>11 DEF FlowInv

(* A plan with nothing left. *)
LEMMA PlanDone ==
  ASSUME NEW n, ChangeLeft(n), plan = <<>> PROVE n = Len(flowlets)
<1>1. \A a, b, c, d : <<a>> # <<>> /\ <<a, b>> # <<>> /\ <<a, b, c>> # <<>> /\ <<a, b, c, d>> # <<>>
  BY PlanOfOne, PlanOfTwo, PlanOfThree, PlanOfFour
<1>2. ~Fewer(n) /\ ~More(n)
  BY <1>1 DEF Fewer, More
<1> QED
  BY <1>2 DEF ChangeLeft

(* The lock is released. *)
LEMMA ReleaseKeeps ==
  ASSUME FlowInv, Release
  PROVE  FlowInv' /\ (state[Flow] \in {"STOPPED", "ERROR"} => state' = state)
         /\ (\A g \in Flowlets : SameFlowlet(g))
<1>1. /\ holder # NoRequest /\ plan = <<>> /\ AllAnswered /\ holder' = NoRequest
      /\ IF holder.op = "change" THEN state' = state ELSE state' = [state EXCEPT ![Flow] = After[holder.op]]
      /\ aliveTask' = aliveTask /\ task' = task /\ driver' = driver
      /\ shutdown' = shutdown /\ suspension' = suspension
      /\ instanceCount' = instanceCount /\ consumer' = consumer
      /\ flowlets' = flowlets /\ created' = created /\ sent' = sent /\ waiting' = waiting /\ plan' = plan
  BY DEF Release, SetState, driverVars, contextVars
<1>2. Fits(holder) /\ waiting = {} /\ Stage = "done" /\ Stage' = "done"
  BY <1>1 DEF FlowInv, RequestsOK, Stage
<1>3. ControlTypeOK /\ NoRequest.op = "none" /\ NoRequest.n = 0
  BY DEF FlowInv, TypeOK, NoRequest
<1>4. \A g \in Flowlets : SameFlowlet(g)
  BY <1>1, <1>3, Constants DEF SameFlowlet, ControlTypeOK
<1>5. FlowletsOK' /\ AllAnswered' /\ (Quiet => Quiet') /\ TableOK' /\ Table' = Table
  BY <1>1, <1>4, FrameFlowlets DEF FlowInv, Quiet, TableOK, Table
<1>6. PlanOK'
  BY <1>1, <1>3, <1>5 DEF PlanOK, Simple
<1>7. CASE holder.op = "change"
  <2>1. state' = state /\ state[Flow] \in Rests /\ holder.n = Len(flowlets)
    BY <1>1, <1>2, <1>7, PlanDone DEF Fits, FlowInv, PlanOK
  <2>2. TypeOK'
    BY <1>1, <2>1 DEF FlowInv, TypeOK, ControlTypeOK
  <2>3. RequestsOK'
    BY <1>1, <1>2, <1>3, <1>5, <2>1 DEF FlowInv, RequestsOK, Simple
  <2>4. Mode' = Mode
    BY <1>1, <1>2, <1>3, <1>7 DEF Mode
  <2>5. ModeOK'
    BY <1>1, <1>2, <1>5, <2>1, <2>4 DEF FlowInv, ModeOK, Gone
  <2>6. SizesOK'
    <3>1. \A f \in Flowlets : task'[f] # "command"
      BY <1>1 DEF AllAnswered
    <3>2. \A f \in Flowlets : Live(f)' => instanceCount'[f] = Len(flowlets)
      BY <1>1, <1>2, <1>7, <2>1 DEF FlowInv, SizesOK, Live
    <3> QED
      BY <1>1, <1>3, <3>1, <3>2 DEF SizesOK
  <2> QED
    BY <1>4, <1>5, <1>6, <2>1, <2>2, <2>3, <2>5, <2>6 DEF FlowInv
<1>8. CASE holder.op # "change"
  <2>1. holder.op \in Simple /\ state[Flow] = During[holder.op]
    BY <1>2, <1>8 DEF Fits
  <2>2. After[holder.op] \in {"ALIVE", "SUSPENDED", "STOPPED"} /\ state'[Flow] = After[holder.op]
        /\ state[Flow] \notin {"ALIVE", "STOPPED", "ERROR"}
    BY <1>1, <1>3, <1>8, <2>1, StateTables, Constants DEF Simple, ControlTypeOK
  <2>3. state' = [state EXCEPT ![Flow] = After[holder.op]] /\ state' \in [Controllers -> States]
    BY <1>1, <1>3, <1>8, <2>2 DEF ControlTypeOK, States
  <2>4. TypeOK'
    BY <1>1, <2>3 DEF FlowInv, TypeOK, ControlTypeOK
  <2>5. Quiet' /\ ~aliveTask'[Flow]
    BY <1>1, <1>5, <2>1, Constants DEF FlowInv, RequestsOK, Quiet
  <2>6. RequestsOK'
    BY <1>1, <1>2, <1>5, <2>2, <2>5 DEF RequestsOK, Rests
  <2>7. Mode' = States
    BY <1>1, <1>3 DEF Mode
  <2>8. ModeOK'
    <3>1. \A f \in (1 .. created) \ Table : Gone(f)'
      BY <1>2, <1>4, FrameGone
    <3>2. \A f \in Table : state'[f] \in States
      BY <2>3, TableFacts, Constants
    <3> QED
      BY <1>1, <1>5, <2>7, <3>1, <3>2 DEF ModeOK
  <2>9. SizesOK'
    <3>1. \A f \in Flowlets : task'[f] # "command"
      BY <1>1 DEF AllAnswered
    <3>2. \A f \in Flowlets : Live(f)' => instanceCount'[f] = Len(flowlets)
      BY <1>1, <1>8 DEF FlowInv, SizesOK, Live
    <3> QED
      BY <1>1, <1>3, <3>1, <3>2 DEF SizesOK
  <2> QED
    BY <1>4, <1>5, <1>6, <2>2, <2>4, <2>6, <2>8, <2>9 DEF FlowInv
<1> QED
  BY <1>7, <1>8

(* The states of instances that have no request and are not being started. *)
LEMMA RestStates ==
  ASSUME FlowInv, AllAnswered, Quiet, NEW f \in 1 .. created
  PROVE  /\ f \in Flowlets /\ f <= created /\ task[f] = "none" /\ ~aliveTask[f]
         /\ state[f] \in {"ALIVE", "SUSPENDED", "STOPPED", "ERROR"}
         /\ Live(f) => state[f] \in {"ALIVE", "SUSPENDED"}
<1>1. f \in Flowlets /\ f <= created /\ f \in Controllers
  BY TableFacts, Constants
<1>2. FlowletOK(f) /\ task[f] = "none" /\ ~aliveTask[f] /\ driver[f] # "starting"
  BY <1>1 DEF FlowInv, FlowletsOK, AllAnswered, Quiet
<1> QED
  BY <1>1, <1>2 DEF FlowletOK, AtStart, Awake, Halting, Parked, Stopping, HasStopped, HasFailed, Live

(* One request to each instance in L. *)
LEMMA RequestEffect ==
  ASSUME FlowInv, AllAnswered, Quiet, NEW op \in {"suspend", "resume", "stop", "command"},
         NEW L, L \subseteq Table, op = "command" => \A f \in L : state[f] \in {"SUSPENDED", "STOPPED", "ERROR"},
         Request(op, L), created' = created
  PROVE  /\ ControlTypeOK' /\ FlowletsOK' /\ Quiet' /\ state'[Flow] = state[Flow]
         /\ aliveTask' = aliveTask /\ driver' = driver /\ instanceCount' = instanceCount
         /\ \A f \in Flowlets : task'[f] \in {"none", op}
         /\ \A f \in Flowlets \ L : state'[f] = state[f]
         /\ \A f \in L : IF Accepts(f, op) THEN /\ task'[f] = op
                                                /\ state'[f] = IF op = "command" THEN state[f] ELSE During[op]
                                           ELSE state'[f] = state[f]
<1>1. Table \subseteq Flowlets /\ Table \subseteq 1 .. created /\ Flowlets \subseteq Controllers
      /\ Flow \notin Flowlets /\ Flow \in Controllers
  BY TableFacts, Constants DEF FlowInv, TableOK
<1> DEFINE A == {f \in L : Accepts(f, op)}
<1>2. /\ state' = [c \in Controllers |-> IF c \in A /\ op # "command" THEN During[op] ELSE state[c]]
      /\ task' = [f \in Flowlets |-> IF f \in A THEN op ELSE task[f]]
      /\ aliveTask' = aliveTask /\ driver' = driver /\ shutdown' = shutdown
      /\ suspension' = suspension /\ instanceCount' = instanceCount /\ consumer' = consumer
  BY DEF Request, driverVars, contextVars
<1>3. ControlTypeOK
  BY DEF FlowInv, TypeOK
<1>4. op # "command" => During[op] \in States
  BY StateTables DEF States
<1>5. ControlTypeOK'
  BY <1>2, <1>3, <1>4 DEF ControlTypeOK, Tasks
<1>6. \A f \in Flowlets : task[f] = "none"
  BY DEF AllAnswered
<1>7. \A f \in Flowlets :
        /\ f \in A => task'[f] = op /\ state'[f] = IF op = "command" THEN state[f] ELSE During[op]
        /\ f \notin A => task'[f] = "none" /\ state'[f] = state[f]
  BY <1>1, <1>2, <1>6
<1>8. ASSUME NEW f \in Flowlets
      PROVE  /\ IF f <= created THEN FlowletOK(f)' ELSE NotYet(f)'
             /\ f <= created => instanceCount'[f] # 0
             /\ (Reading(f) => consumer[f] = instanceCount[f])'
  <2>1. /\ IF f <= created THEN FlowletOK(f) ELSE NotYet(f)
        /\ f <= created => instanceCount[f] # 0
        /\ Reading(f) => consumer[f] = instanceCount[f]
    BY DEF FlowInv, FlowletsOK
  <2>2. CASE f \notin A
    <3>1. SameFlowlet(f)
      BY <1>2, <1>6, <1>7, <2>2 DEF SameFlowlet
    <3> QED
      BY <2>1, <3>1, SameInstance DEF SameFlowlet
  <2>3. CASE f \in A
    <3>1. f \in L /\ Accepts(f, op) /\ f \in 1 .. created
      BY <1>1, <2>3
    <3>2. /\ f <= created /\ task[f] = "none" /\ ~aliveTask[f] /\ FlowletOK(f)
          /\ state[f] \in {"ALIVE", "SUSPENDED", "STOPPED", "ERROR"}
      BY <2>1, <3>1, RestStates
    <3>3. task'[f] = op /\ state'[f] = IF op = "command" THEN state[f] ELSE During[op]
      BY <1>7, <2>3
    <3>4. (Reading(f) => consumer[f] = instanceCount[f])'
      BY <1>2, <2>1, <3>3 DEF Reading
    <3>5. FlowletOK(f)'
      <4> USE DEF FlowletOK, AtStart, Awake, Halting, Parked, Stopping, HasStopped, HasFailed
      <4>1. CASE op = "suspend"
        <5>1. state[f] = "ALIVE" /\ state'[f] = "SUSPENDING"
          BY <3>1, <3>3, <4>1, StateTables DEF Accepts
        <5> QED
          BY <1>2, <3>2, <3>3, <4>1, <5>1
      <4>2. CASE op = "resume"
        <5>1. state[f] = "SUSPENDED" /\ state'[f] = "RESUMING"
          BY <3>1, <3>3, <4>2, StateTables DEF Accepts
        <5> QED
          BY <1>2, <3>2, <3>3, <4>2, <5>1
      <4>3. CASE op = "stop"
        <5>1. state[f] \in {"ALIVE", "SUSPENDED"} /\ state'[f] = "STOPPING"
          BY <3>1, <3>2, <3>3, <4>3, StateTables DEF Accepts
        <5> QED
          BY <1>2, <3>2, <3>3, <4>3, <5>1
      <4>4. CASE op = "command"
        <5>1. state[f] \in {"SUSPENDED", "STOPPED", "ERROR"} /\ state'[f] = state[f]
          BY <3>1, <3>3, <4>4
        <5> QED
          BY <1>2, <3>2, <3>3, <4>4, <5>1
      <4> QED
        BY <4>1, <4>2, <4>3, <4>4
    <3> QED
      BY <1>2, <2>1, <3>2, <3>4, <3>5
  <2> QED
    BY <2>2, <2>3
<1>9. FlowletsOK'
  BY <1>8 DEF FlowletsOK
<1>10. Quiet'
  BY <1>2 DEF Quiet
<1>11. state'[Flow] = state[Flow]
  BY <1>1, <1>2
<1>12. \A f \in L : f \in A <=> Accepts(f, op)
  OBVIOUS
<1>13. \A f \in Flowlets \ L : f \notin A
  OBVIOUS
<1> HIDE DEF A
<1> QED
  BY <1>1, <1>2, <1>5, <1>7, <1>9, <1>10, <1>11, <1>12, <1>13

(* A table within the bound. *)
LEMMA ShortTable ==
  ASSUME NEW s \in Seq(Flowlets), Len(s) <= MaxInstances
  PROVE  s \in BoundedSeq(Flowlets, MaxInstances)
<1>1. Len(s) \in 0 .. MaxInstances /\ s \in [1 .. Len(s) -> Flowlets]
  BY LenProperties, Constants
<1> QED
  BY <1>1 DEF BoundedSeq, SeqOf

(* A change to fewer instances has the others stopped first. *)
LEMMA StopFirst ==
  ASSUME FlowInv, holder.op = "change", plan # <<>>, Head(plan).op = "stop"
  PROVE  /\ holder.n < Len(flowlets)
         /\ Head(plan).who = Table \ Kept(holder.n)
         /\ Tail(plan) = <<Do("suspend", Kept(holder.n)), Do("command", Kept(holder.n)),
                           Do("resume", Kept(holder.n))>>
<1>1. ChangeLeft(holder.n)
  BY DEF FlowInv, PlanOK
<1>2. \A a, b, c, d : /\ Head(<<a>>) = a /\ Head(<<a, b>>) = a /\ Head(<<a, b, c>>) = a
                      /\ Head(<<a, b, c, d>>) = a
  BY PlanOfOne, PlanOfTwo, PlanOfThree, PlanOfFour
<1>3. \A op, who : Do(op, who).op = op /\ Do(op, who).who = who
  BY DoIs
<1>4. ~Same
  BY <1>2, <1>3 DEF Same
<1>5. ~More(holder.n)
  BY <1>2, <1>3 DEF More
<1>6. holder.n < Len(flowlets) /\ Fewer(holder.n)
  BY <1>1, <1>4, <1>5 DEF ChangeLeft
<1> DEFINE a == Do("stop", Table \ Kept(holder.n))
           b == Do("suspend", Kept(holder.n))
           c == Do("command", Kept(holder.n))
           d == Do("resume", Kept(holder.n))
<1>7. plan = <<a, b, c, d>>
  BY <1>6 DEF Fewer
<1>8. a.who = Table \ Kept(holder.n)
  BY <1>3
<1> HIDE DEF a, b, c, d
<1>9. Head(plan) = a /\ Tail(plan) = <<b, c, d>>
  BY <1>7, PlanOfFour
<1> QED
  BY <1>6, <1>8, <1>9 DEF b, c, d

(* The others follow one another, each for all instances in the table. *)
LEMMA OneAfterAnother ==
  ASSUME FlowInv, holder.op = "change", plan # <<>>, Head(plan).op \notin {"create", "stop"},
         plan' = Tail(plan), UNCHANGED <<flowlets, created, holder>>
  PROVE  /\ Head(plan).who = Table /\ ChangeLeft(holder.n)'
         /\ Len(plan') <= 4 /\ Range(plan') \subseteq PlanSteps
         /\ \/ Head(plan).op = "suspend" /\ Stage' = "command"
            \/ Head(plan).op = "command" /\ Stage' = "resume"
            \/ Head(plan).op = "resume" /\ Stage' \in {"create", "done"}
<1> DEFINE n == holder.n
           a == Do("suspend", Table)
           b == Do("command", Table)
           c == Do("resume", Table)
           d == Do("create", NewOnes(n))
<1>1. ChangeLeft(n)
  BY DEF FlowInv, PlanOK
<1>2. \A op, who : Do(op, who).op = op /\ Do(op, who).who = who
  BY DoIs
<1>3. /\ a.op = "suspend" /\ b.op = "command" /\ c.op = "resume" /\ d.op = "create"
      /\ a.who = Table /\ b.who = Table /\ c.who = Table
  BY <1>2
<1>4. ~Fewer(n)
  <2>1. Fewer(n) => Head(plan).op = "stop"
    BY <1>2, PlanOfFour DEF Fewer
  <2> QED
    BY <2>1
<1>5. n \in Nat /\ Len(flowlets) \in Nat /\ created \in Nat /\ Table \subseteq Flowlets
  BY HolderType, TableFacts
<1>6. n' = n /\ Table' = Table /\ NewOnes(n)' = NewOnes(n) /\ Len(flowlets)' = Len(flowlets)
      /\ created' = created
  BY DEF Table, NewOnes
<1>7. a \in PlanSteps /\ b \in PlanSteps /\ c \in PlanSteps
  BY <1>5, DoType
<1>8. CASE n = Len(flowlets)
  <2>1. Same
    BY <1>1, <1>4, <1>5, <1>8 DEF ChangeLeft
  <2>2. plan = <<a, b, c>> \/ plan = <<b, c>> \/ plan = <<c>>
    BY <2>1 DEF Same
  <2>3. Same' <=> plan' = <<a, b, c>> \/ plan' = <<b, c>> \/ plan' = <<c>> \/ plan' = <<>>
    BY <1>6 DEF Same
  <2>4. Same' => ChangeLeft(holder.n)'
    BY <1>6, <1>8 DEF ChangeLeft
  <2> HIDE DEF a, b, c, d
  <2>5. CASE plan = <<a, b, c>>
    <3>1. Head(plan) = a /\ plan' = <<b, c>>
      BY <2>5, PlanOfThree
    <3>2. plan' # <<>> /\ Head(plan') = b /\ Len(plan') <= 4 /\ Range(plan') \subseteq PlanSteps
      BY <1>7, <3>1, PlanOfTwo, ShortPlans
    <3> QED
      BY <1>3, <2>3, <2>4, <3>1, <3>2 DEF Stage
  <2>6. CASE plan = <<b, c>>
    <3>1. Head(plan) = b /\ plan' = <<c>>
      BY <2>6, PlanOfTwo
    <3>2. plan' # <<>> /\ Head(plan') = c /\ Len(plan') <= 4 /\ Range(plan') \subseteq PlanSteps
      BY <1>7, <3>1, PlanOfOne, ShortPlans
    <3> QED
      BY <1>3, <2>3, <2>4, <3>1, <3>2 DEF Stage
  <2>7. CASE plan = <<c>>
    <3>1. Head(plan) = c /\ plan' = <<>>
      BY <2>7, PlanOfOne
    <3>2. Len(plan') <= 4 /\ Range(plan') \subseteq PlanSteps
      BY <1>7, <3>1, ShortPlans
    <3> QED
      BY <1>3, <2>3, <2>4, <3>1, <3>2 DEF Stage
  <2> QED
    BY <2>2, <2>5, <2>6, <2>7
<1>9. CASE n # Len(flowlets)
  <2>1. n > Len(flowlets) /\ created + n - Len(flowlets) <= MaxFlowlets /\ More(n)
    BY <1>1, <1>4, <1>5, <1>9 DEF ChangeLeft
  <2>2. plan = <<a, b, c, d>> \/ plan = <<b, c, d>> \/ plan = <<c, d>> \/ plan = <<d>>
    BY <2>1 DEF More
  <2>3. More(n)' <=> plan' = <<a, b, c, d>> \/ plan' = <<b, c, d>> \/ plan' = <<c, d>> \/ plan' = <<d>>
    BY <1>6 DEF More
  <2>4. More(n)' => ChangeLeft(holder.n)'
    BY <1>6, <2>1 DEF ChangeLeft
  <2>5. NewOnes(n) \subseteq Flowlets
    BY <1>5, <2>1, Constants DEF NewOnes, Flowlets
  <2>6. d \in PlanSteps
    BY <2>5, DoType
  <2> HIDE DEF a, b, c, d
  <2>7. CASE plan = <<a, b, c, d>>
    <3>1. Head(plan) = a /\ plan' = <<b, c, d>>
      BY <2>7, PlanOfFour
    <3>0. <<b, c, d>> # <<>> /\ Head(<<b, c, d>>) = b
      BY PlanOfThree
    <3>2. plan' # <<>> /\ Head(plan') = b
      BY <3>0, <3>1, Zenon
    <3>3. Len(<<b, c, d>>) <= 4 /\ Range(<<b, c, d>>) \subseteq PlanSteps
      BY <1>7, <2>6, ShortPlans
    <3> QED
      BY <1>3, <2>3, <2>4, <3>1, <3>2, <3>3 DEF Stage
  <2>8. CASE plan = <<b, c, d>>
    <3>1. Head(plan) = b /\ plan' = <<c, d>>
      BY <2>8, PlanOfThree
    <3>2. plan' # <<>> /\ Head(plan') = c /\ Len(plan') <= 4 /\ Range(plan') \subseteq PlanSteps
      BY <1>7, <2>6, <3>1, PlanOfTwo, ShortPlans
    <3> QED
      BY <1>3, <2>3, <2>4, <3>1, <3>2 DEF Stage
  <2>9. CASE plan = <<c, d>>
    <3>1. Head(plan) = c /\ plan' = <<d>>
      BY <2>9, PlanOfTwo
    <3>2. plan' # <<>> /\ Head(plan') = d /\ Len(plan') <= 4 /\ Range(plan') \subseteq PlanSteps
      BY <1>7, <2>6, <3>1, PlanOfOne, ShortPlans
    <3> QED
      BY <1>3, <2>3, <2>4, <3>1, <3>2 DEF Stage
  <2>10. CASE plan = <<d>>
    BY <1>3, <2>10, PlanOfOne
  <2> QED
    BY <2>2, <2>7, <2>8, <2>9, <2>10
<1> QED
  BY <1>8, <1>9

(* While a plan is carried out. *)
LEMMA UnderWay ==
  ASSUME FlowInv, plan # <<>>
  PROVE  /\ holder # NoRequest /\ Fits(holder) /\ waiting = {} /\ Quiet /\ Stage = Head(plan).op
         /\ holder.op # "change" =>
              /\ holder.op \in Simple /\ Head(plan).op = holder.op /\ Head(plan).who = Table
              /\ Tail(plan) = <<>> /\ state[Flow] = During[holder.op]
         /\ holder.op = "change" => holder.n >= 1
<1>1. holder # NoRequest /\ Fits(holder) /\ waiting = {} /\ Quiet /\ Stage = Head(plan).op
  BY DEF FlowInv, PlanOK, RequestsOK, Stage
<1>2. holder.op = "change" => holder.n >= 1
  BY <1>1 DEF Fits
<1>3. ASSUME holder.op # "change"
      PROVE  /\ holder.op \in Simple /\ Head(plan).op = holder.op /\ Head(plan).who = Table
             /\ Tail(plan) = <<>> /\ state[Flow] = During[holder.op]
  <2>1. holder.op \in Simple /\ state[Flow] = During[holder.op]
    BY <1>1, <1>3 DEF Fits
  <2>2. plan = <<Do(holder.op, Table)>>
    BY <2>1 DEF FlowInv, PlanOK
  <2>3. Head(plan) = Do(holder.op, Table) /\ Tail(plan) = <<>>
    BY <2>2, PlanOfOne
  <2> QED
    BY <2>1, <2>3, DoIs
<1> QED
  BY <1>1, <1>2, <1>3

(* Parts of the invariant that every request to the instances keeps. *)
LEMMA IssueRequests ==
  ASSUME FlowInv, plan # <<>>, Quiet', state'[Flow] = state[Flow], aliveTask' = aliveTask,
         UNCHANGED <<created, sent, waiting, holder>>
  PROVE  RequestsOK'
<1>1. Fits(holder) /\ waiting = {} /\ holder # NoRequest
  BY UnderWay
<1>2. Fits(holder)'
  BY <1>1 DEF Fits
<1>3. aliveTask'[Flow] => state'[Flow] = "ALIVE"
  BY DEF FlowInv, RequestsOK
<1> QED
  BY <1>1, <1>2, <1>3 DEF RequestsOK

(* A request of the flow is passed on to its instances. *)
LEMMA IssueSimple ==
  ASSUME FlowInv, Issue, holder.op # "change"
  PROVE  FlowInv'
<1> DEFINE op == holder.op
<1>1. /\ plan # <<>> /\ AllAnswered /\ Request(op, Table) /\ plan' = <<>> /\ flowlets' = flowlets
      /\ UNCHANGED <<created, sent, waiting, holder>>
  BY UnderWay DEF Issue
<1>2. Quiet /\ op \in Simple /\ state[Flow] = During[op] /\ Stage = op /\ holder # NoRequest
  BY <1>1, UnderWay
<1>3. op \in {"suspend", "resume", "stop"}
  BY <1>2 DEF Simple
<1>4. /\ ControlTypeOK' /\ FlowletsOK' /\ Quiet' /\ state'[Flow] = state[Flow]
      /\ aliveTask' = aliveTask /\ driver' = driver /\ instanceCount' = instanceCount
      /\ \A f \in Flowlets : task'[f] \in {"none", op}
      /\ \A f \in Flowlets \ Table : state'[f] = state[f]
      /\ \A f \in Table : IF Accepts(f, op) THEN state'[f] = During[op] ELSE state'[f] = state[f]
  BY <1>1, <1>2, <1>3, RequestEffect
<1>5. Table' = Table /\ TableOK' /\ Stage' = "done" /\ Stage # "done" /\ Stage # "create"
  BY <1>1, <1>2, <1>3 DEF FlowInv, TableOK, Table, Stage
<1>6. TypeOK'
  BY <1>1, <1>4, ShortPlans DEF FlowInv, TypeOK, Range
<1>7. PlanOK'
  BY <1>1, <1>2 DEF PlanOK
<1>8. RequestsOK'
  BY <1>1, <1>4, IssueRequests
<1>9. ModeOK'
  <2>1. \A f \in Table : state'[f] \in Mode'
    <3> TAKE f \in Table
    <3>1. state[f] \in {"ALIVE", "SUSPENDED", "STOPPED", "ERROR"}
      BY <1>1, <1>2, RestStates DEF FlowInv, TableOK
    <3>2. CASE op = "suspend"
      <4>1. Mode' = Down
        BY <1>1, <1>2, <1>4, <1>5, <3>2, StateTables DEF Mode
      <4> QED
        BY <1>4, <3>1, <3>2, <4>1, StateTables DEF Up, Down, Accepts
    <3>3. CASE op = "resume"
      <4>1. Mode' = Up
        BY <1>1, <1>2, <1>4, <1>5, <3>3, StateTables DEF Mode
      <4> QED
        BY <1>4, <3>1, <3>3, <4>1, StateTables DEF Up, Down, Accepts
    <3>4. CASE op = "stop"
      <4>1. Mode' = Over
        BY <1>1, <1>2, <1>4, <1>5, <3>4, StateTables DEF Mode
      <4> QED
        BY <1>4, <3>1, <3>4, <4>1, StateTables DEF Up, Down, Over, Accepts
    <3> QED
      BY <1>3, <3>2, <3>3, <3>4
  <2>2. \A f \in (1 .. created) \ Table : Gone(f)'
    <3> TAKE f \in (1 .. created) \ Table
    <3>1. Gone(f) /\ f \in Flowlets /\ state[f] \in {"ALIVE", "SUSPENDED", "STOPPED", "ERROR"}
      BY <1>1, <1>2, RestStates DEF FlowInv, ModeOK
    <3> QED
      BY <1>4, <3>1 DEF Gone
  <2> QED
    BY <1>1, <1>5, <2>1, <2>2 DEF ModeOK
<1>10. SizesOK'
  <2>1. \A f \in Flowlets : task'[f] # "command"
    BY <1>3, <1>4
  <2>2. \A f \in Flowlets : Live(f)' <=> Live(f)
    BY <1>4 DEF Live
  <2> QED
    BY <1>1, <1>4, <2>1, <2>2 DEF FlowInv, SizesOK
<1> QED
  BY <1>4, <1>5, <1>6, <1>7, <1>8, <1>9, <1>10 DEF FlowInv

(* The instances are suspended, told the new instance count, resumed. *)
LEMMA IssueRecount ==
  ASSUME FlowInv, Issue, holder.op = "change", Head(plan).op # "stop"
  PROVE  FlowInv'
<1>1. /\ plan # <<>> /\ AllAnswered /\ Head(plan).op \notin {"create", "stop"}
      /\ Request(Head(plan).op, Head(plan).who) /\ plan' = Tail(plan) /\ flowlets' = flowlets
      /\ created' = created /\ sent' = sent /\ waiting' = waiting /\ holder' = holder
  BY DEF Issue
<1>2. /\ Head(plan).who = Table /\ ChangeLeft(holder.n)'
      /\ Len(plan') <= 4 /\ Range(plan') \subseteq PlanSteps
      /\ \/ Head(plan).op = "suspend" /\ Stage' = "command"
         \/ Head(plan).op = "command" /\ Stage' = "resume"
         \/ Head(plan).op = "resume" /\ Stage' \in {"create", "done"}
  BY <1>1, OneAfterAnother
<1>3. Quiet /\ holder.n >= 1 /\ Stage = Head(plan).op /\ holder # NoRequest
  BY <1>1, UnderWay
<1>4. PICK op \in {"suspend", "resume", "command"} : op = Head(plan).op
  BY <1>2
<1>5. /\ op = "suspend" => Stage' = "command"
      /\ op = "command" => Stage' = "resume" /\ Mode = Down
      /\ op = "resume" => Stage' \in {"create", "done"} /\ Mode = Down
  BY <1>2, <1>3, <1>4 DEF Mode
<1>6. \A f \in Table : state[f] \in {"ALIVE", "SUSPENDED", "STOPPED", "ERROR"} /\ state[f] \in Mode
  BY <1>1, <1>3, RestStates DEF FlowInv, TableOK, ModeOK
<1>7. op = "command" => \A f \in Table : state[f] \in {"SUSPENDED", "STOPPED", "ERROR"}
  BY <1>5, <1>6 DEF Down
<1>8. /\ ControlTypeOK' /\ FlowletsOK' /\ Quiet' /\ state'[Flow] = state[Flow]
      /\ aliveTask' = aliveTask /\ driver' = driver /\ instanceCount' = instanceCount
      /\ \A f \in Flowlets : task'[f] \in {"none", op}
      /\ \A f \in Flowlets \ Table : state'[f] = state[f]
      /\ \A f \in Table : IF Accepts(f, op) THEN /\ task'[f] = op
                                                 /\ state'[f] = IF op = "command" THEN state[f] ELSE During[op]
                                            ELSE state'[f] = state[f]
  BY <1>1, <1>2, <1>3, <1>4, <1>7, RequestEffect
<1>9. Table' = Table /\ TableOK'
  BY <1>1 DEF FlowInv, TableOK, Table
<1>10. TypeOK'
  BY <1>1, <1>2, <1>8 DEF FlowInv, TypeOK
<1>11. PlanOK'
  BY <1>1, <1>2, <1>3 DEF PlanOK, Simple
<1>12. RequestsOK'
  BY <1>1, <1>8, IssueRequests
<1>13. /\ op = "resume" => Mode' = States
       /\ op # "resume" => Mode' = Down
  BY <1>1, <1>4, <1>5 DEF Mode
<1>14. \A f \in (1 .. created) \ Table : state[f] \in {"STOPPED", "ERROR"} /\ ~aliveTask[f] /\ f \in Flowlets
  <2> TAKE f \in (1 .. created) \ Table
  <2>1. Gone(f) /\ f \in Flowlets /\ state[f] \in {"ALIVE", "SUSPENDED", "STOPPED", "ERROR"}
    BY <1>1, <1>3, RestStates DEF FlowInv, ModeOK
  <2> QED
    BY <2>1 DEF Gone
<1>15. ModeOK'
  <2>1. \A f \in Table : state'[f] \in Mode'
    <3> TAKE f \in Table
    <3>1. CASE op = "suspend"
      BY <1>5, <1>6, <1>8, <1>13, <3>1, StateTables DEF Up, Down, Accepts
    <3>2. CASE op = "command"
      BY <1>5, <1>6, <1>8, <1>13, <3>2 DEF Down
    <3>3. CASE op = "resume"
      <4>1. f \in Controllers
        BY TableFacts, Constants
      <4> QED
        BY <1>8, <1>13, <3>3, <4>1 DEF ControlTypeOK
    <3> QED
      BY <1>4, <3>1, <3>2, <3>3
  <2>2. \A f \in (1 .. created) \ Table : Gone(f)'
    BY <1>8, <1>14 DEF Gone
  <2> QED
    BY <1>1, <1>9, <2>1, <2>2 DEF ModeOK
<1>16. \A f \in Flowlets : Live(f)' <=> Live(f)
  BY <1>8 DEF Live
<1>17. \A f \in Flowlets : Live(f) => f \in Table
  <2> SUFFICES ASSUME NEW f \in Flowlets, Live(f), f \notin Table PROVE FALSE
    OBVIOUS
  <2>1. f <= created
    BY OneInstance DEF FlowInv, Live
  <2>2. f \in 1 .. created
    BY <2>1, TableFacts, Constants DEF Flowlets
  <2> QED
    BY <1>1, <1>3, <1>14, <2>2, RestStates
<1>18. SizesOK'
  <2>1. CASE op = "suspend"
    <3>1. \A f, g \in Flowlets : Live(f) /\ Live(g) => instanceCount[f] = instanceCount[g]
      BY <1>3, <1>4, <2>1 DEF FlowInv, SizesOK
    <3> QED
      BY <1>1, <1>5, <1>8, <1>16, <2>1, <3>1 DEF SizesOK
  <2>2. CASE op = "command"
    <3>1. \A f \in Flowlets : Live(f) => state'[f] = "SUSPENDED" /\ task'[f] = "command"
      <4> SUFFICES ASSUME NEW f \in Flowlets, Live(f) PROVE state'[f] = "SUSPENDED" /\ task'[f] = "command"
        OBVIOUS
      <4>1. f \in Table /\ f \in 1 .. created
        BY <1>17 DEF FlowInv, TableOK
      <4>2. state[f] = "SUSPENDED"
        BY <1>1, <1>3, <1>7, <2>2, <4>1, RestStates
      <4> QED
        BY <1>8, <2>2, <4>1, <4>2 DEF Accepts
    <3> QED
      BY <1>1, <1>5, <1>16, <2>2, <3>1 DEF SizesOK
  <2>3. CASE op = "resume"
    <3>1. \A f \in Flowlets : Live(f) => instanceCount[f] = holder.n
      BY <1>1, <1>3, <1>4, <2>3 DEF FlowInv, SizesOK, AllAnswered
    <3> QED
      BY <1>1, <1>5, <1>8, <1>16, <2>3, <3>1 DEF SizesOK
  <2> QED
    BY <1>4, <2>1, <2>2, <2>3
<1> QED
  BY <1>8, <1>9, <1>10, <1>11, <1>12, <1>15, <1>18 DEF FlowInv

(* The instances given up are stopped, and leave the table. *)
LEMMA IssueStop ==
  ASSUME FlowInv, Issue, holder.op = "change", Head(plan).op = "stop"
  PROVE  FlowInv'
<1>1. /\ plan # <<>> /\ AllAnswered /\ Request("stop", Head(plan).who) /\ plan' = Tail(plan)
      /\ flowlets' = SubSeq(flowlets, 1, holder.n)
      /\ created' = created /\ sent' = sent /\ waiting' = waiting /\ holder' = holder
  BY DEF Issue
<1>2. PICK n \in Nat : n = holder.n
  BY HolderType
<1>3. Quiet /\ n >= 1 /\ Stage = "stop" /\ holder # NoRequest
  BY <1>1, <1>2, UnderWay
<1>4. /\ n < Len(flowlets) /\ Head(plan).who = Table \ Kept(n)
      /\ plan' = <<Do("suspend", Kept(n)), Do("command", Kept(n)), Do("resume", Kept(n))>>
  BY <1>1, <1>2, StopFirst
<1>5. /\ flowlets \in Seq(Flowlets) /\ Len(flowlets) \in Nat /\ Len(flowlets) <= MaxInstances
      /\ Kept(n) \subseteq Table /\ Table \subseteq Flowlets /\ created \in Nat
  BY <1>4, TableFacts
<1>6. /\ flowlets' \in Seq(Flowlets) /\ Len(flowlets') = n
      /\ \A i \in 1 .. n : flowlets'[i] = flowlets[i]
  <2>1. \A i \in 1 .. n : flowlets[i] \in Flowlets
    BY <1>4, <1>5, ElementOfSeq
  <2> QED
    BY <1>1, <1>2, <1>3, <2>1, SubSeqProperties
<1>7. Table' = Kept(n)
  <2>1. DOMAIN flowlets' = 1 .. n
    BY <1>6, LenProperties
  <2> QED
    BY <1>6, <2>1 DEF Table, Range, Kept
<1>8. /\ ControlTypeOK' /\ FlowletsOK' /\ Quiet' /\ state'[Flow] = state[Flow]
      /\ aliveTask' = aliveTask /\ driver' = driver /\ instanceCount' = instanceCount
      /\ \A f \in Flowlets : task'[f] \in {"none", "stop"}
      /\ \A f \in Flowlets \ (Table \ Kept(n)) : state'[f] = state[f]
      /\ \A f \in Table \ Kept(n) :
           IF Accepts(f, "stop") THEN state'[f] = "STOPPING" ELSE state'[f] = state[f]
  BY <1>1, <1>3, <1>4, RequestEffect, StateTables
<1>9. /\ Len(plan') <= 4 /\ Range(plan') \subseteq PlanSteps /\ Stage' = "suspend"
  <2> DEFINE a == Do("suspend", Kept(n))
             b == Do("command", Kept(n))
             c == Do("resume", Kept(n))
  <2>1. a \in PlanSteps /\ b \in PlanSteps /\ c \in PlanSteps /\ a.op = "suspend"
    BY <1>5, DoType, DoIs
  <2>2. plan' = <<a, b, c>>
    BY <1>4
  <2> HIDE DEF a, b, c
  <2>3. <<a, b, c>> # <<>> /\ Head(<<a, b, c>>) = a
    BY PlanOfThree
  <2>4. Len(<<a, b, c>>) <= 4 /\ Range(<<a, b, c>>) \subseteq PlanSteps
    BY <2>1, ShortPlans
  <2>5. Head(plan') = a /\ plan' # <<>>
    BY <2>2, <2>3, Zenon
  <2> QED
    BY <2>1, <2>2, <2>4, <2>5 DEF Stage
<1>10. TableOK'
  <2>1. Len(flowlets') \in 1 .. MaxInstances
    BY <1>3, <1>4, <1>5, <1>6, Constants
  <2>2. Table \subseteq 1 .. created /\ created \in Flowlets
    BY DEF FlowInv, TableOK
  <2> QED
    BY <1>1, <1>5, <1>6, <1>7, <2>1, <2>2 DEF TableOK
<1>11. TypeOK'
  <2>1. flowlets' \in BoundedSeq(Flowlets, MaxInstances)
    BY <1>4, <1>5, <1>6, ShortTable, Constants
  <2> QED
    BY <1>1, <1>8, <1>9, <2>1 DEF FlowInv, TypeOK
<1>12. PlanOK'
  <2>1. Same'
    BY <1>4, <1>7 DEF Same
  <2> QED
    BY <1>1, <1>2, <1>3, <1>6, <2>1 DEF PlanOK, ChangeLeft, Simple
<1>13. RequestsOK'
  BY <1>1, <1>8, IssueRequests
<1>14. Mode' = States
  BY <1>1, <1>9 DEF Mode
<1>15. ModeOK'
  <2>1. \A f \in Kept(n) : state'[f] \in States
    BY <1>5, <1>8, Constants DEF ControlTypeOK
  <2>2. \A f \in (1 .. created) \ Kept(n) : Gone(f)'
    <3> TAKE f \in (1 .. created) \ Kept(n)
    <3>1. f \in Flowlets /\ ~aliveTask[f] /\ state[f] \in {"ALIVE", "SUSPENDED", "STOPPED", "ERROR"}
      BY <1>1, <1>3, RestStates
    <3>2. CASE f \in Table
      BY <1>8, <1>9, <3>1, <3>2, StateTables DEF Gone, Accepts
    <3>3. CASE f \notin Table
      <4>1. Gone(f)
        BY <3>3 DEF FlowInv, ModeOK
      <4> QED
        BY <1>8, <3>1, <3>3, <4>1 DEF Gone
    <3> QED
      BY <3>2, <3>3
  <2> QED
    BY <1>1, <1>7, <1>14, <2>1, <2>2 DEF ModeOK
<1>16. SizesOK'
  <2>1. \A f \in Flowlets : Live(f)' <=> Live(f)
    BY <1>8 DEF Live
  <2>2. \A f, g \in Flowlets : Live(f) /\ Live(g) => instanceCount[f] = instanceCount[g]
    BY <1>3 DEF FlowInv, SizesOK
  <2> QED
    BY <1>1, <1>8, <1>9, <2>1, <2>2 DEF SizesOK
<1> QED
  BY <1>8, <1>10, <1>11, <1>12, <1>13, <1>15, <1>16 DEF FlowInv

(* The new instances are created last. *)
LEMMA CreateLast ==
  ASSUME FlowInv, plan # <<>>, Head(plan).op = "create"
  PROVE  /\ holder.op = "change" /\ holder.n > Len(flowlets)
         /\ created + holder.n - Len(flowlets) <= MaxFlowlets
         /\ Head(plan).who = NewOnes(holder.n) /\ Tail(plan) = <<>>
<1>1. holder.op = "change"
  BY UnderWay DEF Simple
<1>2. ChangeLeft(holder.n)
  BY <1>1 DEF FlowInv, PlanOK
<1>3. \A a, b, c, d : /\ Head(<<a>>) = a /\ Head(<<a, b>>) = a /\ Head(<<a, b, c>>) = a
                      /\ Head(<<a, b, c, d>>) = a
  BY PlanOfOne, PlanOfTwo, PlanOfThree, PlanOfFour
<1>4. \A op, who : Do(op, who).op = op /\ Do(op, who).who = who
  BY DoIs
<1>5. ~Same
  BY <1>3, <1>4 DEF Same
<1>6. ~Fewer(holder.n)
  BY <1>3, <1>4 DEF Fewer
<1>7. holder.n > Len(flowlets) /\ created + holder.n - Len(flowlets) <= MaxFlowlets /\ More(holder.n)
  BY <1>2, <1>5, <1>6 DEF ChangeLeft
<1>8. plan = <<Do("create", NewOnes(holder.n))>>
  BY <1>3, <1>4, <1>7 DEF More
<1> QED
  BY <1>1, <1>4, <1>7, <1>8, PlanOfOne

(* increaseInstances creates the new instances. *)
LEMMA CreateKeeps ==
  ASSUME FlowInv, Create
  PROVE  FlowInv' /\ (\A f \in 1 .. created : state'[f] = state[f]) /\ state'[Flow] = state[Flow]
         /\ (\A f \in Flowlets : f > created => state[f] = "NONE")
<1>1. /\ plan # <<>> /\ AllAnswered /\ Head(plan).op = "create" /\ Creating(Head(plan).who, holder.n)
      /\ flowlets' = flowlets \o [i \in 1 .. holder.n - Len(flowlets) |-> created + i]
      /\ created' = created + holder.n - Len(flowlets) /\ plan' = Tail(plan)
      /\ sent' = sent /\ waiting' = waiting /\ holder' = holder
  BY DEF Create
<1>2. PICK n \in Nat : n = holder.n
  BY HolderType
<1>3. n <= MaxInstances /\ n >= 1 /\ holder.op = "change" /\ holder # NoRequest /\ waiting = {}
      /\ Quiet /\ Stage = "create" /\ Fits(holder)
  BY <1>1, <1>2, HolderType, UnderWay, CreateLast
<1>4. PICK L : L = NewOnes(n)
  OBVIOUS
<1>5. /\ n > Len(flowlets) /\ created + n - Len(flowlets) <= MaxFlowlets
      /\ Head(plan).who = L /\ plan' = <<>>
  BY <1>1, <1>2, <1>4, CreateLast
<1>6. /\ flowlets \in Seq(Flowlets) /\ Len(flowlets) \in Nat /\ Len(flowlets) >= 1
      /\ created \in Nat /\ created >= 1 /\ Table \subseteq 1 .. created
      /\ Table = {flowlets[i] : i \in 1 .. Len(flowlets)}
  BY TableFacts DEF FlowInv, TableOK
<1>7. PICK k \in Nat : k = n - Len(flowlets) /\ k >= 1
  BY <1>5, <1>6
<1>8. created' = created + k /\ created + k <= MaxFlowlets /\ L = created + 1 .. created + k
  BY <1>1, <1>2, <1>4, <1>5, <1>6, <1>7 DEF NewOnes
<1>9. L \subseteq Flowlets /\ Flow \notin L /\ \A f \in L : f \in Nat /\ f > created
  BY <1>6, <1>8, Constants DEF Flowlets, Flow
<1>10. /\ state' = [c \in Controllers |-> IF c \in L THEN "STARTING" ELSE state[c]]
       /\ driver' = [f \in Flowlets |-> IF f \in L THEN "starting" ELSE driver[f]]
       /\ instanceCount' = [f \in Flowlets |-> IF f \in L THEN n ELSE instanceCount[f]]
       /\ consumer' = [f \in Flowlets |-> IF f \in L THEN n ELSE consumer[f]]
       /\ aliveTask' = aliveTask /\ task' = task /\ shutdown' = shutdown /\ suspension' = suspension
  BY <1>1, <1>2, <1>5 DEF Creating
<1>11. ControlTypeOK'
  <2>1. ControlTypeOK
    BY DEF FlowInv, TypeOK
  <2> QED
    BY <1>10, <2>1 DEF ControlTypeOK, States, DriverSteps
<1>12. \A f \in Flowlets \ L : SameFlowlet(f)
  BY <1>10, Constants DEF SameFlowlet
<1>13. \A f \in Flowlets : f > created => NotYet(f)
  BY <1>6, Constants DEF FlowInv, FlowletsOK
<1>14. FlowletsOK'
  <2>1. ASSUME NEW f \in Flowlets
        PROVE  /\ IF f <= created' THEN FlowletOK(f)' ELSE NotYet(f)'
               /\ f <= created' => instanceCount'[f] # 0
               /\ (Reading(f) => consumer[f] = instanceCount[f])'
    <3>1. f \in Nat /\ f >= 1
      BY Constants DEF Flowlets
    <3>2. CASE f \in L
      <4>1. f <= created' /\ NotYet(f)
        BY <1>6, <1>8, <1>9, <1>13, <3>2
      <4>2. AtStart(f)' /\ instanceCount'[f] = n /\ consumer'[f] = n
        BY <1>9, <1>10, <3>2, <4>1, Constants DEF AtStart, NotYet
      <4> QED
        BY <1>3, <4>1, <4>2 DEF FlowletOK
    <3>3. CASE f \notin L
      <4>1. f <= created' <=> f <= created
        BY <1>6, <1>8, <3>1, <3>3
      <4>2. SameFlowlet(f)
        BY <1>12, <3>3
      <4> QED
        BY <4>1, <4>2, SameInstance DEF FlowInv, FlowletsOK, SameFlowlet
    <3> QED
      BY <3>2, <3>3
  <2> QED
    BY <2>1 DEF FlowletsOK
<1>15. /\ flowlets' \in Seq(Flowlets) /\ Len(flowlets') = n
       /\ \A i \in 1 .. Len(flowlets) : flowlets'[i] = flowlets[i]
       /\ \A i \in 1 .. k : flowlets'[Len(flowlets) + i] = created + i
  <2> DEFINE s == [i \in 1 .. k |-> created + i]
  <2>1. \A i \in 1 .. k : created + i \in Flowlets
    BY <1>6, <1>8, Constants DEF Flowlets
  <2>2. s \in Seq(Flowlets) /\ Len(s) = k /\ \A i \in 1 .. k : s[i] = created + i
    BY <2>1
  <2>3. flowlets' = flowlets \o s
    BY <1>1, <1>2, <1>7
  <2> HIDE DEF s
  <2>4. /\ flowlets' \in Seq(Flowlets) /\ Len(flowlets') = Len(flowlets) + k
        /\ \A i \in 1 .. Len(flowlets) : flowlets'[i] = flowlets[i]
        /\ \A i \in 1 .. k : flowlets'[Len(flowlets) + i] = s[i]
    <3>1. /\ flowlets \o s \in Seq(Flowlets) /\ Len(flowlets \o s) = Len(flowlets) + Len(s)
          /\ \A i \in 1 .. Len(flowlets) + Len(s) :
               (flowlets \o s)[i] = IF i <= Len(flowlets) THEN flowlets[i] ELSE s[i - Len(flowlets)]
      BY <1>6, <2>2, ConcatProperties
    <3>2. \A i \in 1 .. k : Len(flowlets) + i \in 1 .. Len(flowlets) + k
                            /\ ~(Len(flowlets) + i <= Len(flowlets)) /\ Len(flowlets) + i - Len(flowlets) = i
      BY <1>6
    <3>3. \A i \in 1 .. Len(flowlets) : i \in 1 .. Len(flowlets) + k /\ i <= Len(flowlets)
      BY <1>6
    <3> QED
      BY <2>2, <2>3, <3>1, <3>2, <3>3
  <2> QED
    BY <1>6, <1>7, <2>2, <2>4
<1>16. Table' = Table \cup L
  <2>1. DOMAIN flowlets' = 1 .. n /\ n = Len(flowlets) + k
    BY <1>6, <1>7, <1>15, LenProperties
  <2>2. Table' = {flowlets'[i] : i \in 1 .. Len(flowlets) + k}
    BY <2>1 DEF Table, Range
  <2>3. \A i \in 1 .. Len(flowlets) + k :
          i \in 1 .. Len(flowlets) \/ (i - Len(flowlets) \in 1 .. k /\ i = Len(flowlets) + (i - Len(flowlets)))
    BY <1>6
  <2>4. \A f \in Table' : f \in Table \cup L
    <3> SUFFICES ASSUME NEW i \in 1 .. Len(flowlets) + k PROVE flowlets'[i] \in Table \cup L
      BY <2>2
    <3>1. CASE i \in 1 .. Len(flowlets)
      BY <1>6, <1>15, <3>1
    <3>2. CASE i - Len(flowlets) \in 1 .. k /\ i = Len(flowlets) + (i - Len(flowlets))
      <4>1. PICK j \in 1 .. k : i = Len(flowlets) + j
        BY <3>2
      <4>2. flowlets'[i] = created + j
        BY <1>15, <4>1
      <4>3. created + j \in L
        BY <1>6, <1>8
      <4> QED
        BY <4>2, <4>3
    <3> QED
      BY <2>3, <3>1, <3>2
  <2>5. \A f \in Table : f \in Table'
    <3> SUFFICES ASSUME NEW i \in 1 .. Len(flowlets) PROVE flowlets[i] \in Table'
      BY <1>6
    <3>1. i \in 1 .. Len(flowlets) + k
      BY <1>6
    <3> QED
      BY <1>15, <2>2, <3>1
  <2>6. \A f \in L : f \in Table'
    <3> SUFFICES ASSUME NEW f \in L PROVE f \in Table'
      OBVIOUS
    <3>1. f - created \in 1 .. k /\ f = created + (f - created)
      BY <1>6, <1>8
    <3>2. Len(flowlets) + (f - created) \in 1 .. Len(flowlets) + k
      BY <1>6, <3>1
    <3>3. flowlets'[Len(flowlets) + (f - created)] = f
      BY <1>15, <3>1
    <3> QED
      BY <2>2, <3>2, <3>3
  <2> QED
    BY <2>4, <2>5, <2>6
<1>17. Stage' = "done" /\ (AllAnswered' <=> AllAnswered) /\ state'[Flow] = state[Flow]
  BY <1>5, <1>9, <1>10, Constants DEF Stage, AllAnswered
<1>18. TableOK'
  <2>1. created' \in Flowlets
    BY <1>6, <1>8, Constants DEF Flowlets
  <2>2. Len(flowlets') \in 1 .. MaxInstances
    BY <1>3, <1>15, Constants
  <2>3. \A f \in Table \cup L : f \in 1 .. created'
    <3>1. \A f \in 1 .. created : f \in 1 .. created'
      BY <1>6, <1>8
    <3>2. \A f \in L : f \in 1 .. created'
      BY <1>6, <1>8
    <3> QED
      BY <1>6, <3>1, <3>2
  <2> QED
    BY <1>15, <1>16, <2>1, <2>2, <2>3 DEF TableOK
<1>19. TypeOK'
  <2>1. flowlets' \in BoundedSeq(Flowlets, MaxInstances)
    BY <1>3, <1>15, ShortTable
  <2>2. created' \in 0 .. MaxFlowlets
    BY <1>6, <1>8
  <2>3. Len(<<>>) <= 4 /\ Range(<<>>) \subseteq PlanSteps
    BY DEF Range
  <2> QED
    BY <1>1, <1>5, <1>11, <2>1, <2>2, <2>3 DEF FlowInv, TypeOK
<1>20. PlanOK'
  <2>1. Same'
    BY <1>5 DEF Same
  <2> QED
    BY <1>1, <1>2, <1>3, <1>15, <2>1 DEF PlanOK, ChangeLeft, Simple
<1>21. RequestsOK'
  <2>1. Fits(holder)'
    BY <1>1, <1>2, <1>3, <1>17 DEF Fits
  <2> QED
    BY <1>1, <1>3, <1>5, <1>10, <1>17, <2>1 DEF FlowInv, RequestsOK, Simple
<1>22. Mode' = States
  BY <1>1, <1>3, <1>17 DEF Mode
<1>23. ModeOK'
  <2>1. \A f \in Table \cup L : state'[f] \in States
    BY <1>9, <1>11, TableFacts, Constants DEF ControlTypeOK
  <2>2. \A f \in (1 .. created') \ (Table \cup L) : Gone(f)'
    <3> TAKE f \in (1 .. created') \ (Table \cup L)
    <3>1. f \in (1 .. created) \ Table
      BY <1>6, <1>8
    <3>2. Gone(f) /\ f \in Flowlets
      BY <3>1, TableFacts DEF FlowInv, ModeOK
    <3> QED
      BY <1>3, <1>12, <3>2 DEF Gone, SameFlowlet
  <2> QED
    BY <1>16, <1>22, <2>1, <2>2 DEF ModeOK
<1>24. SizesOK'
  <2>1. \A f \in Flowlets : task'[f] # "command"
    BY <1>1, <1>10 DEF AllAnswered
  <2>2. \A f \in Flowlets : Live(f)' => instanceCount'[f] = n
    <3> SUFFICES ASSUME NEW f \in Flowlets, Live(f)' PROVE instanceCount'[f] = n
      OBVIOUS
    <3>1. CASE f \in L
      BY <1>10, <3>1
    <3>2. CASE f \notin L
      BY <1>2, <1>3, <1>12, <3>2, SameInstance DEF FlowInv, SizesOK, SameFlowlet
    <3> QED
      BY <3>1, <3>2
  <2> QED
    BY <1>1, <1>2, <1>3, <1>17, <2>1, <2>2 DEF SizesOK
<1>25. \A f \in 1 .. created : state'[f] = state[f]
  BY <1>6, <1>9, <1>10, TableFacts, Constants
<1>26. \A f \in Flowlets : f > created => state[f] = "NONE"
  BY <1>13 DEF NotYet
<1> QED
  BY <1>14, <1>17, <1>18, <1>19, <1>20, <1>21, <1>23, <1>24, <1>25, <1>26 DEF FlowInv

-----------------------------------------------------------------------------
(* The invariant. *)

(* The instances are being started. *)
LEMMA InitFlow ==
  ASSUME Init PROVE FlowInv
<1>1. PICK n \in 1 .. MaxInstances :
    /\ flowlets = [i \in 1 .. n |-> i]
    /\ created = n
    /\ state = [c \in Controllers |->
                  IF c = Flow THEN "ALIVE" ELSE IF c <= n THEN "STARTING" ELSE "NONE"]
    /\ aliveTask = [c \in Controllers |-> c = Flow]
    /\ task = [f \in Flowlets |-> "none"]
    /\ driver = [f \in Flowlets |-> IF f <= n THEN "starting" ELSE "none"]
    /\ shutdown = [f \in Flowlets |-> FALSE]
    /\ suspension = [f \in Flowlets |-> FALSE]
    /\ instanceCount = [f \in Flowlets |-> IF f <= n THEN n ELSE 0]
    /\ consumer = [f \in Flowlets |-> IF f <= n THEN n ELSE 0]
    /\ sent = 0 /\ waiting = {} /\ holder = NoRequest /\ plan = <<>>
  BY DEF Init
<1>2. n \in Nat /\ n >= 1 /\ n <= MaxInstances /\ n <= MaxFlowlets
  BY Constants
<1>3. flowlets \in Seq(Flowlets) /\ Len(flowlets) = n /\ Table = 1 .. n
  <2>1. \A i \in 1 .. n : i \in Flowlets
    BY <1>2, Constants DEF Flowlets
  <2>2. flowlets \in [1 .. n -> Flowlets] /\ DOMAIN flowlets = 1 .. n
    BY <1>1, <2>1
  <2>3. flowlets \in Seq(Flowlets) /\ Len(flowlets) = n
    BY <1>1, <1>2, <2>1
  <2>4. Table = 1 .. n
    BY <1>1, <2>2 DEF Table, Range
  <2> QED
    BY <2>3, <2>4
<1>4. NoRequest.op = "none" /\ NoRequest.n = 0
  BY DEF NoRequest
<1>5. \A f \in Flowlets : f \in Controllers /\ f # Flow /\ f \in Nat
  BY Constants
<1>6. Flow \in Controllers
  BY Constants
<1>7. ControlTypeOK
  BY <1>1, <1>2 DEF ControlTypeOK, States, Tasks, DriverSteps
<1>8. TypeOK
  <2>1. flowlets \in BoundedSeq(Flowlets, MaxInstances)
    BY <1>2, <1>3, ShortTable
  <2>2. created \in 0 .. MaxFlowlets /\ sent \in 0 .. MaxRequests
    BY <1>1, <1>2, Constants
  <2>3. Len(<<>>) <= 4 /\ Range(<<>>) \subseteq PlanSteps
    BY DEF Range
  <2> QED
    BY <1>1, <1>7, <2>1, <2>2, <2>3 DEF TypeOK
<1>9. FlowletsOK
  <2>1. ASSUME NEW f \in Flowlets
        PROVE  /\ IF f <= created THEN FlowletOK(f) ELSE NotYet(f)
               /\ f <= created => instanceCount[f] # 0
               /\ Reading(f) => consumer[f] = instanceCount[f]
    <3>1. f <= n => AtStart(f) /\ instanceCount[f] = n /\ consumer[f] = n
      BY <1>1, <1>5 DEF AtStart
    <3>2. ~(f <= n) => NotYet(f) /\ instanceCount[f] = 0 /\ consumer[f] = 0
      BY <1>1, <1>5 DEF NotYet
    <3> QED
      BY <1>1, <1>2, <3>1, <3>2 DEF FlowletOK
  <2> QED
    BY <2>1 DEF FlowletsOK
<1>10. AllAnswered /\ Stage = "done" /\ state[Flow] = "ALIVE"
  BY <1>1, <1>6 DEF AllAnswered, Stage
<1>11. PlanOK
  BY <1>1, <1>4, <1>10 DEF PlanOK, Simple
<1>12. TableOK
  BY <1>1, <1>2, <1>3, Constants DEF TableOK, Flowlets
<1>13. RequestsOK
  BY <1>1, <1>4, <1>10 DEF RequestsOK, Rests, Simple
<1>14. ModeOK
  <2>1. Mode = States
    BY <1>1, <1>4 DEF Mode
  <2>2. \A f \in 1 .. n : state[f] = "STARTING"
    <3> TAKE f \in 1 .. n
    <3>1. f \in Flowlets /\ f <= n
      BY <1>2, Constants DEF Flowlets
    <3> QED
      BY <1>1, <1>5, <3>1
  <2> QED
    BY <1>1, <1>3, <2>1, <2>2 DEF ModeOK, States
<1>15. SizesOK
  <2>1. \A f \in Flowlets : Live(f) => instanceCount[f] = n
    BY <1>1 DEF Live
  <2> QED
    BY <1>1, <1>3, <1>4, <2>1 DEF SizesOK
<1> QED
  BY <1>8, <1>9, <1>11, <1>12, <1>13, <1>14, <1>15 DEF FlowInv

(* What a change may have to do next. *)
LEMMA StageNames ==
  ASSUME FlowInv, holder.op = "change"
  PROVE  /\ Stage \in {"stop", "suspend", "command", "resume", "create", "done"}
         /\ plan # <<>> => Stage # "done"
<1>1. ChangeLeft(holder.n)
  BY DEF FlowInv, PlanOK
<1>2. CASE plan = <<>>
  BY <1>2 DEF Stage
<1>3. CASE plan # <<>>
  <2>1. \A a, b, c, d : /\ Head(<<a>>) = a /\ Head(<<a, b>>) = a /\ Head(<<a, b, c>>) = a
                        /\ Head(<<a, b, c, d>>) = a
    BY PlanOfOne, PlanOfTwo, PlanOfThree, PlanOfFour
  <2>2. \A op, who : Do(op, who).op = op
    BY DoIs
  <2>3. Same => Head(plan).op \in {"suspend", "command", "resume"}
    BY <1>3, <2>1, <2>2 DEF Same
  <2>4. Fewer(holder.n) => Head(plan).op = "stop"
    BY <2>1, <2>2 DEF Fewer
  <2>5. More(holder.n) => Head(plan).op \in {"suspend", "command", "resume", "create"}
    BY <2>1, <2>2 DEF More
  <2>6. Head(plan).op \in {"stop", "suspend", "command", "resume", "create"}
    BY <1>1, <2>3, <2>4, <2>5 DEF ChangeLeft
  <2> QED
    BY <1>3, <2>6 DEF Stage
<1> QED
  BY <1>2, <1>3

(* The flow's steps. *)
LEMMA FlowStepKeeps ==
  ASSUME FlowInv, FlowStep PROVE FlowInv'
<1>1. CASE \E r \in waiting : Acquire(r)
  BY <1>1, AcquireKeeps
<1>2. CASE Issue
  BY <1>2, IssueSimple, IssueRecount, IssueStop
<1>3. CASE Create
  BY <1>3, CreateKeeps
<1>4. CASE Release
  BY <1>4, ReleaseKeeps
<1> QED
  BY <1>1, <1>2, <1>3, <1>4 DEF FlowStep

(* Every step keeps the invariant. *)
LEMMA NextKeeps ==
  ASSUME FlowInv, Careful, [Next]_vars PROVE FlowInv'
<1>1. CASE \E op \in Operations \ {"change"} : Ask(op)
  BY <1>1, AskKeeps
<1>2. CASE \E n \in 1 .. MaxInstances : AskChange(n)
  BY <1>2, AskChangeKeeps
<1>3. CASE FlowStep
  BY <1>3, FlowStepKeeps
<1>4. CASE \E f \in Flowlets : FlowletTask(f) \/ DriverStep(f)
  BY <1>4, InstanceStepsKeep
<1>5. CASE \E c \in Controllers : AliveStep(c)
  <2>1. PICK c \in Controllers : AliveStep(c)
    BY <1>5
  <2>2. CASE c = Flow
    BY <2>1, <2>2, FlowAlive
  <2>3. CASE c \in Flowlets
    BY <2>1, <2>3, InstanceStepsKeep
  <2> QED
    BY <2>2, <2>3 DEF Controllers
<1>6. CASE UNCHANGED vars
  <2>1. /\ state' = state /\ aliveTask' = aliveTask /\ task' = task /\ driver' = driver
        /\ shutdown' = shutdown /\ suspension' = suspension
        /\ instanceCount' = instanceCount /\ consumer' = consumer
        /\ flowlets' = flowlets /\ created' = created /\ sent' = sent /\ waiting' = waiting
        /\ holder' = holder /\ plan' = plan
    BY <1>6 DEF vars, controlVars, driverVars, contextVars, flowVars
  <2>2. \A g \in Flowlets : SameFlowlet(g)
    BY <2>1 DEF SameFlowlet
  <2>3. /\ FlowletsOK' /\ (AllAnswered' <=> AllAnswered)
        /\ TableOK' /\ Table' = Table /\ Stage' = Stage /\ PlanOK' /\ SizesOK'
    BY <2>1, <2>2, FramePlan
  <2>4. TypeOK'
    BY <2>1 DEF FlowInv, TypeOK, ControlTypeOK
  <2>5. RequestsOK'
    BY <2>1, <2>3 DEF FlowInv, RequestsOK, Fits, Quiet
  <2>6. Mode' = Mode
    BY <2>1, <2>3 DEF Mode
  <2>7. ModeOK'
    BY <2>1, <2>3, <2>6 DEF FlowInv, ModeOK, Gone
  <2> QED
    BY <2>3, <2>4, <2>5, <2>7 DEF FlowInv
<1> QED
  BY <1>1, <1>2, <1>3, <1>4, <1>5, <1>6 DEF Next

(* FlowInv holds in every state of a flow whose client waits until it has
   settled: the controllers, the threads of their requests and the drivers
   agree, whatever the interleaving of the threads of
   AbstractProgramController, FlowProgramController and
   FlowletProcessDriver. *)
THEOREM FlowInvariant == ASSUME Careful PROVE Spec => []FlowInv
<1>1. Init => FlowInv
  BY InitFlow
<1>2. FlowInv /\ [Next]_vars => FlowInv'
  BY NextKeeps
<1> QED
  BY <1>1, <1>2, PTL DEF Spec

(* The variables keep their types; in particular a change never creates more
   instances than the bound allows, and no plan has more than four steps. *)
THEOREM FlowTypes == ASSUME Careful PROVE Spec => []TypeOK
<1>1. FlowInv => TypeOK
  BY DEF FlowInv
<1> QED
  BY <1>1, FlowInvariant, PTL

(* A flowlet whose controller says SUSPENDED has its thread parked at the
   latch, and no process round runs with closed queue consumers. *)
THEOREM SuspendedIsParked == ASSUME Careful PROVE Spec => []SuspendedMeansParked
<1>1. ASSUME FlowInv PROVE SuspendedMeansParked
  <2>1. ASSUME NEW f \in Flowlets, state[f] = "SUSPENDED" PROVE driver[f] = "latch"
    <3>1. FlowletOK(f)
      BY <1>1, <2>1 DEF FlowInv, FlowletsOK, NotYet
    <3> QED
      BY <2>1, <3>1
         DEF FlowletOK, AtStart, Awake, Halting, Parked, Stopping, HasStopped, HasFailed
  <2>2. ASSUME NEW f \in Flowlets, driver[f] = "round" PROVE consumer[f] # 0
    <3>1. (Reading(f) => consumer[f] = instanceCount[f]) /\ instanceCount[f] # 0
      BY <1>1, <2>2, OneInstance DEF FlowInv
    <3> QED
      BY <2>2, <3>1 DEF Reading
  <2> QED
    BY <2>1, <2>2 DEF SuspendedMeansParked
<1> QED
  BY <1>1, FlowInvariant, PTL

(* No two instances are in process rounds with queue consumers opened for
   different numbers of instances, before, during and after changeInstances. *)
THEOREM GroupSizesAgree == ASSUME Careful PROVE Spec => []OneGroupSize
<1>1. ASSUME FlowInv PROVE OneGroupSize
  <2>1. ASSUME NEW f \in Flowlets, NEW g \in Flowlets, driver[f] = "round", driver[g] = "round"
        PROVE  consumer[f] = consumer[g]
    <3>1. consumer[f] = instanceCount[f] /\ consumer[g] = instanceCount[g]
      BY <1>1, <2>1 DEF FlowInv, FlowletsOK, Reading
    <3>2. Live(f) /\ Live(g)
      BY <2>1 DEF Live
    <3>3. state[f] # "SUSPENDED"
      <4>1. FlowletOK(f)
        BY <1>1, <2>1, OneInstance DEF FlowInv
      <4> QED
        BY <2>1, <4>1
           DEF FlowletOK, AtStart, Awake, Halting, Parked, Stopping, HasStopped, HasFailed
    <3>4. holder.op = "change" => Stage \in {"stop", "suspend", "command", "resume", "create", "done"}
      BY <1>1, StageNames
    <3>5. instanceCount[f] = instanceCount[g]
      BY <1>1, <3>2, <3>3, <3>4 DEF FlowInv, SizesOK
    <3> QED
      BY <3>1, <3>5
  <2> QED
    BY <2>1 DEF OneGroupSize
<1> QED
  BY <1>1, FlowInvariant, PTL

(* The requests of a plan go to flowlet instances. *)
LEMMA IssuedTo ==
  ASSUME FlowInv, Issue
  PROVE  Flow \notin Head(plan).who
<1>1. plan # <<>> /\ Head(plan).op # "create" /\ plan' = Tail(plan)
      /\ UNCHANGED <<created, holder>>
  BY DEF Issue
<1>2. Table \subseteq Flowlets /\ Flow \notin Flowlets
  BY TableFacts, Constants
<1>3. CASE holder.op # "change"
  BY <1>1, <1>2, <1>3, UnderWay
<1>4. CASE holder.op = "change" /\ Head(plan).op = "stop"
  BY <1>1, <1>2, <1>4, StopFirst
<1>5. CASE holder.op = "change" /\ Head(plan).op # "stop"
  <2>1. flowlets' = flowlets
    BY <1>5 DEF Issue
  <2>2. Head(plan).who = Table
    BY <1>1, <1>5, <2>1, OneAfterAnother
  <2> QED
    BY <1>2, <2>2
<1> QED
  BY <1>3, <1>4, <1>5

(* A suspend() or stop() of the flow is done when its future says so, although
   the answers of the instances are not looked at, and although the number of
   instances may have been changed in any state of the flow: no instance in the
   table processes when the flow becomes SUSPENDED, and no thread is left when
   it becomes STOPPED. *)
THEOREM OperationsAreDone == ASSUME Careful PROVE Spec => DoneMeansDone
<1> DEFINE Done ==
      /\ state[Flow] = "SUSPENDING" /\ state'[Flow] = "SUSPENDED" =>
           \A f \in Range(flowlets) : driver[f] \in Ended \cup {"latch"}
      /\ state[Flow] = "STOPPING" /\ state'[Flow] = "STOPPED" =>
           \A f \in Created : driver[f] \in Ended
<1>1. ASSUME FlowInv, Release, holder.op # "change" PROVE Done
  <2>1. /\ AllAnswered /\ plan = <<>> /\ Stage = "done" /\ Fits(holder)
        /\ holder.op \in Simple /\ state[Flow] = During[holder.op] /\ Quiet
    BY <1>1 DEF Release, FlowInv, RequestsOK, Fits, Stage
  <2>2. /\ state[Flow] = "SUSPENDING" => holder.op = "suspend" /\ Mode = Down
        /\ state[Flow] = "STOPPING" => holder.op = "stop" /\ Mode = Over
    BY <2>1, StateTables DEF Simple, Mode
  <2>3. ASSUME NEW f \in 1 .. created
        PROVE  /\ state[f] = "SUSPENDED" => driver[f] = "latch"
               /\ state[f] \in {"STOPPED", "ERROR"} => driver[f] \in Ended
               /\ state[f] \in {"ALIVE", "SUSPENDED", "STOPPED", "ERROR"}
    <3>1. f \in Flowlets /\ f <= created /\ state[f] \in {"ALIVE", "SUSPENDED", "STOPPED", "ERROR"}
      BY <1>1, <2>1, <2>3, RestStates
    <3>2. FlowletOK(f)
      BY <1>1, <3>1 DEF FlowInv, FlowletsOK
    <3> QED
      BY <3>1, <3>2
         DEF FlowletOK, AtStart, Awake, Halting, Parked, Stopping, HasStopped, HasFailed, Ended
  <2>4. ASSUME state[Flow] = "SUSPENDING", NEW f \in Range(flowlets)
        PROVE  driver[f] \in Ended \cup {"latch"}
    <3>1. f \in Table /\ f \in 1 .. created /\ state[f] \in Down
      BY <1>1, <2>2, <2>4 DEF FlowInv, TableOK, ModeOK, Table
    <3> QED
      BY <2>3, <3>1 DEF Down
  <2>5. ASSUME state[Flow] = "STOPPING", NEW f \in 1 .. created
        PROVE  driver[f] \in Ended
    <3>1. CASE f \in Table
      BY <1>1, <2>2, <2>3, <2>5, <3>1 DEF FlowInv, ModeOK, Over
    <3>2. CASE f \notin Table
      BY <1>1, <2>1, <2>3, <2>5, <3>2 DEF FlowInv, ModeOK, Gone
    <3> QED
      BY <3>1, <3>2
  <2> QED
    BY <2>4, <2>5 DEF Created
<1>2. ASSUME FlowInv, [Next]_vars, ~(Release /\ holder.op # "change") PROVE Done
  <2> SUFFICES ASSUME state[Flow] \in {"SUSPENDING", "STOPPING"}
               PROVE  state'[Flow] \notin {"SUSPENDED", "STOPPED"}
    OBVIOUS
  <2>1. CASE \E op \in Operations \ {"change"} : Ask(op)
    <3>1. PICK op \in Simple : Request(op, {Flow})
      BY <2>1 DEF Ask, Operations, Simple
    <3>2. During[op] \notin {"SUSPENDED", "STOPPED"}
      BY <3>1, StateTables DEF Simple
    <3> QED
      BY <3>1, <3>2, Constants DEF Request
  <2>2. CASE \E n \in 1 .. MaxInstances : AskChange(n)
    BY <1>2, <2>2, AskChangeKeeps
  <2>3. CASE \E r \in waiting : Acquire(r)
    BY <1>2, <2>3, AcquireKeeps
  <2>4. CASE Issue
    <3>1. Flow \notin Head(plan).who
      BY <1>2, <2>4, IssuedTo
    <3> QED
      BY <2>4, <3>1, Constants DEF Issue, Request
  <2>5. CASE Create
    BY <1>2, <2>5, CreateKeeps
  <2>6. CASE Release
    BY <1>2, <2>6 DEF Release
  <2>7. CASE \E f \in Flowlets : FlowletTask(f) \/ DriverStep(f) \/ AliveStep(f)
    BY <1>2, <2>7, InstanceSteps DEF Aside
  <2>8. CASE AliveStep(Flow)
    BY <1>2, <2>8, FlowAlive
  <2>9. CASE UNCHANGED vars
    BY <2>9 DEF vars, controlVars
  <2> QED
    BY <1>2, <2>1, <2>2, <2>3, <2>4, <2>5, <2>6, <2>7, <2>8, <2>9 DEF Next, FlowStep, Controllers
<1>3. FlowInv /\ [Next]_vars => [Done]_vars
  BY <1>1, <1>2
<1>4. Spec => [][Done]_vars
  BY <1>3, FlowInvariant, PTL DEF Spec
<1> QED
  BY <1>4 DEF DoneMeansDone

(* No request to an instance leaves a terminal state. *)
LEMMA IssueTerminal ==
  ASSUME FlowInv, Issue, NEW c \in Controllers, state[c] \in {"STOPPED", "ERROR"}
  PROVE  state'[c] = state[c]
<1>1. plan # <<>> /\ Head(plan).op # "create" /\ Request(Head(plan).op, Head(plan).who)
  BY DEF Issue
<1>2. Stage = Head(plan).op /\ (holder.op # "change" => Head(plan).op \in Simple)
  BY <1>1, UnderWay
<1>3. PICK op \in {"stop", "suspend", "command", "resume"} : op = Head(plan).op
  BY <1>1, <1>2, StageNames DEF Simple
<1>4. op # "command" => ~Accepts(c, op)
  BY <1>3, StateTables DEF Accepts
<1> QED
  BY <1>1, <1>3, <1>4 DEF Request

(* Nothing comes back from a terminal state by a thread other than the one of
   started(): neither by the requests of the flow to its instances nor by the
   listeners of FlowletProcessDriver is ERROR left, or STOPPED for a state
   other than ERROR.  The one thread that sets the state unconditionally is the
   exception that TerminalStates shows. *)
THEOREM TerminalStatesKept == ASSUME Careful PROVE Spec => TerminalOnceStarted
<1> DEFINE Kept0 == \A c \in Controllers :
                      state[c] \in {"STOPPED", "ERROR"} /\ ~aliveTask[c] => state'[c] \in {state[c], "ERROR"}
<1>1. ASSUME FlowInv, [Next]_vars PROVE Kept0
  <2> SUFFICES ASSUME NEW c \in Controllers, state[c] \in {"STOPPED", "ERROR"}, ~aliveTask[c]
               PROVE  state'[c] \in {state[c], "ERROR"}
    OBVIOUS
  <2>0. c = Flow \/ c \in Flowlets
    BY DEF Controllers
  <2>1. CASE \E op \in Operations \ {"change"} : Ask(op)
    <3>1. state[Flow] \notin {"STOPPED", "ERROR"} /\ \A g \in Flowlets : SameFlowlet(g)
      BY <1>1, <2>1, AskKeeps
    <3> QED
      BY <2>0, <3>1 DEF SameFlowlet
  <2>2. CASE \E n \in 1 .. MaxInstances : AskChange(n)
    BY <1>1, <2>2, AskChangeKeeps
  <2>3. CASE \E r \in waiting : Acquire(r)
    BY <1>1, <2>3, AcquireKeeps
  <2>4. CASE Issue
    BY <1>1, <2>4, IssueTerminal
  <2>5. CASE Create
    <3>1. /\ state'[Flow] = state[Flow] /\ \A f \in 1 .. created : state'[f] = state[f]
          /\ \A f \in Flowlets : f > created => state[f] = "NONE"
      BY <1>1, <2>5, CreateKeeps
    <3>2. c \in Flowlets => c \in 1 .. created \/ c > created
      BY <1>1, TableFacts, Constants DEF Flowlets
    <3> QED
      BY <2>0, <3>1, <3>2
  <2>6. CASE Release
    <3>1. (state[Flow] \in {"STOPPED", "ERROR"} => state' = state) /\ \A g \in Flowlets : SameFlowlet(g)
      BY <1>1, <2>6, ReleaseKeeps
    <3> QED
      BY <2>0, <3>1 DEF SameFlowlet
  <2>7. CASE \E f \in Flowlets : FlowletTask(f) \/ DriverStep(f) \/ AliveStep(f)
    <3>1. PICK f \in Flowlets : FlowletTask(f) \/ DriverStep(f) \/ AliveStep(f)
      BY <2>7
    <3>2. Aside(f) /\ Inside(f, holder.n)
      BY <1>1, <3>1, InstanceSteps
    <3>3. CASE c = f
      BY <3>2, <3>3 DEF Inside, Moves
    <3>4. CASE c # f
      BY <2>0, <3>2, <3>4 DEF Aside, SameFlowlet
    <3> QED
      BY <3>3, <3>4
  <2>8. CASE AliveStep(Flow)
    BY <1>1, <2>8, FlowAlive
  <2>9. CASE UNCHANGED vars
    BY <2>9 DEF vars, controlVars
  <2> QED
    BY <1>1, <2>1, <2>2, <2>3, <2>4, <2>5, <2>6, <2>7, <2>8, <2>9 DEF Next, FlowStep, Controllers
<1>2. FlowInv /\ [Next]_vars => [Kept0]_vars
  BY <1>1
<1>3. Spec => [][Kept0]_vars
  BY <1>2, FlowInvariant, PTL DEF Spec
<1> QED
  BY <1>3 DEF TerminalOnceStarted
=============================================================================
