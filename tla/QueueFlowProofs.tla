--------------------------- MODULE QueueFlowProofs ---------------------------
(***************************************************************************)
(* The variables of QueueFlow keep their types, no group uses an entry up  *)
(* twice, and no two instances of a group ever have the same entry in      *)
(* hand: proved for any number of producers, groups, instances,            *)
(* transactions, retries, timeouts and decode failures, for groups that    *)
(* dequeue FIFO and for groups that hash.                                  *)
(***************************************************************************)
EXTENDS QueueFlowInv, TLAPS, WellFoundedInduction

-----------------------------------------------------------------------------
(* Least elements. *)

(* The order on the naturals in the form the next lemma uses. *)
LEMMA NatOrder == IsWellFoundedOn({x \in Nat \X Nat : x[1] < x[2]}, Nat)
  BY NatLessThanWellFounded DEF OpToRel

(* A nonempty set of naturals has a least element: the minimum that
   getFirstShortInProgress and the iterator of dequeue look for exists. *)
LEMMA LeastNat ==
  ASSUME NEW S, S \subseteq Nat, S # {}
  PROVE  \E x \in S : \A y \in S : x <= y
<1> DEFINE R == {x \in Nat \X Nat : x[1] < x[2]}
<1>1. PICK x \in S : \A y \in S : ~(<<y, x>> \in R)
  <2>1. IsWellFoundedOn(R, Nat)
    BY NatOrder
  <2> HIDE DEF R
  <2> QED
    BY <2>1, WFMin, Zenon
<1>2. \A y \in S : ~(y < x)
  BY <1>1
<1> QED
  BY <1>2

(* Components of keys and consumers. *)
LEMMA KeyParts ==
  /\ MaxTx \in Nat /\ MaxEnqueue \in Nat
  /\ \A k \in Key : k = <<k[1], k[2]>> /\ k[1] \in WriterIds /\ k[2] \in SeqIds
  /\ \A t \in WriterIds, s \in SeqIds : <<t, s>> \in Key
  /\ WriterIds \subseteq WritePointers /\ WriterIds \subseteq Nat /\ SeqIds \subseteq Nat
  /\ WritePointers \subseteq Nat \ {0}
  BY TephraAssumption, QueueAssumption DEF Key, SeqIds, WriterIds, WritePointers

(* First returns the least member of a nonempty set of keys. *)
LEMMA FirstKey ==
  ASSUME NEW S, S \subseteq Key
  PROVE  /\ First(S) \in S \cup {EndKey}
         /\ \A j \in S : LessOrEqual(First(S), j)
<1>1. CASE S = {}
  BY <1>1 DEF First
<1>2. CASE S # {}
  <2> DEFINE T == {k[1] : k \in S}
  <2>1. T \subseteq Nat /\ T # {}
    BY <1>2, KeyParts
  <2>2. PICK t \in T : \A u \in T : t <= u
    <3> HIDE DEF T
    <3> QED BY <2>1, LeastNat
  <2> DEFINE U == {k[2] : k \in {j \in S : j[1] = t}}
  <2>3. U \subseteq Nat /\ U # {}
    BY <2>2, KeyParts
  <2>4. PICK s \in U : \A u \in U : s <= u
    <3> HIDE DEF U
    <3> QED BY <2>3, LeastNat
  <2>5. PICK k \in S : k[1] = t /\ k[2] = s
    BY <2>4
  <2>6. \A j \in S : LessOrEqual(k, j)
    <3> SUFFICES ASSUME NEW j \in S
                 PROVE  LessOrEqual(k, j)
      OBVIOUS
    <3>1. k[1] \in Nat /\ j[1] \in Nat /\ k[2] \in Nat /\ j[2] \in Nat
      BY KeyParts
    <3>2. j[1] \in T /\ (j[1] = t => j[2] \in U)
      OBVIOUS
    <3>3. t <= j[1] /\ (j[1] = t => s <= j[2])
      <4> HIDE DEF T, U
      <4> QED BY <2>2, <2>4, <3>2
    <3> QED
      BY <2>5, <3>1, <3>3 DEF LessOrEqual
  <2>7. \E m \in S : \A j \in S : LessOrEqual(m, j)
    BY <2>6
  <2> DEFINE f == CHOOSE m \in S : \A j \in S : LessOrEqual(m, j)
  <2>8. f \in S /\ \A j \in S : LessOrEqual(f, j)
    BY <2>7, Zenon
  <2>9. First(S) = f
    BY <1>2 DEF First
  <2> QED
    BY <2>8, <2>9, Zenon
<1> QED
  BY <1>1, <1>2

-----------------------------------------------------------------------------
(* The transaction manager. *)

(* The oldest open transaction has a write pointer in range. *)
LEMMA FirstShortType ==
  ASSUME TephraTypeOK
  PROVE  FirstShortInProgress \in 1 .. NoTxInProgress
<1>1. OpenPointers \subseteq WritePointers
  BY DEF OpenPointers, TephraTypeOK
<1>2. CASE OpenPointers = {}
  BY <1>2, TephraAssumption DEF FirstShortInProgress, NoTxInProgress
<1>3. CASE OpenPointers # {}
  <2>1. \E w \in OpenPointers : \A v \in OpenPointers : w <= v
    BY <1>1, <1>3, LeastNat, KeyParts
  <2>2. FirstShortInProgress \in OpenPointers
    BY <1>3, <2>1 DEF FirstShortInProgress
  <2> QED
    BY <1>1, <2>2, TephraAssumption DEF WritePointers, NoTxInProgress
<1> QED
  BY <1>2, <1>3

(* Every operation of the manager keeps its state well-typed. *)
LEMMA StartWriterType ==
  ASSUME TephraTypeOK, NEW p \in Producers, StartWriter(p)
  PROVE  TephraTypeOK' /\ writePointer'[p] # NoTx
<1>1. 2 * (lastWriter + 1) \in WriterIds
  BY TephraAssumption DEF StartWriter, TephraTypeOK, WriterIds
<1> QED
  BY <1>1, KeyParts, TephraAssumption DEF StartWriter, TephraTypeOK, Clients, NoTx

(* A reader's snapshot holds write pointers only, and its id is one of them. *)
LEMMA StartReaderType ==
  ASSUME TephraTypeOK, NEW c \in Consumers, StartReader(c)
  PROVE  TephraTypeOK'
<1>1. 2 * lastWriter + 1 \in WritePointers
  BY TephraAssumption DEF TephraTypeOK, WritePointers
<1>2. {writePointer[p] : p \in inProgress \cap Producers} \subseteq WriterIds
  BY DEF TephraTypeOK
<1>3. [readPointer |-> readPointer,
       inProgress  |-> {writePointer[p] : p \in inProgress \cap Producers},
       firstShort  |-> FirstShortInProgress] \in Snapshots
  BY <1>2, FirstShortType DEF TephraTypeOK, Snapshots
<1> QED
  BY <1>1, <1>3, KeyParts, TephraAssumption DEF StartReader, TephraTypeOK, Clients, NoTx

(* Dropping the snapshot of a finished transaction leaves a snapshot. *)
LEMMA ForgetType ==
  ASSUME TephraTypeOK, NEW c, ForgetSnapshot(c)
  PROVE  snapshot' \in [Consumers -> Snapshots]
<1>1. EmptySnapshot \in Snapshots
  BY TephraAssumption DEF EmptySnapshot, Snapshots, NoTxInProgress
<1> QED
  BY <1>1 DEF ForgetSnapshot, TephraTypeOK

(* Commit and abort move readPointer within the ids handed out. *)
LEMMA EndTxType ==
  ASSUME TephraTypeOK, NEW c \in Clients, EndTx(c)
  PROVE  TephraTypeOK'
<1>1. readPointer' \in 0 .. NoTxInProgress
  BY TephraAssumption DEF EndTx, TephraTypeOK, WritePointers, NoTxInProgress, NoTx
<1> QED
  BY <1>1, ForgetType DEF EndTx, TephraTypeOK

(* A timeout keeps the manager well-typed. *)
LEMMA ManagerStepType ==
  ASSUME TephraTypeOK, NEW c \in Clients
  PROVE  TimeoutTx(c) => TephraTypeOK'
  BY DEF TimeoutTx, TephraTypeOK

-----------------------------------------------------------------------------
(* The queue and its two clients. *)

(* startTx, enqueue and the two ends of persist keep a producer well-typed. *)
LEMMA ProducerOpType ==
  ASSUME ProducerTypeOK, NEW p \in Producers
  PROVE  /\ ProducerStartTx(p) => ProducerTypeOK'
         /\ Enqueue(p) => ProducerTypeOK'
         /\ EndPersist(p) => ProducerTypeOK'
         /\ writePointer[p] \in WriterIds /\ BeginPersist(p) => ProducerTypeOK'
  BY QueueAssumption DEF ProducerTypeOK, ProducerStartTx, Enqueue, EndPersist, BeginPersist

(* The key that persist adds is a key, and its count stays within the batch. *)
LEMMA PersistEntryType ==
  ASSUME ItemTypeOK, ProducerTypeOK, NEW p \in Producers,
         writePointer[p] \in WriterIds, PersistEntry(p)
  PROVE  ItemTypeOK' /\ ProducerTypeOK'
<1>1. persisted[p] \in SeqIds /\ persisted[p] + 1 \in 0 .. MaxEnqueue
  BY QueueAssumption DEF ProducerTypeOK, PersistEntry, SeqIds
<1>2. <<writePointer[p], persisted[p]>> \in Key
  BY <1>1, KeyParts
<1> QED
  BY <1>1, <1>2 DEF PersistEntry, ItemTypeOK, ProducerTypeOK

(* undoEnqueue only takes entries away. *)
LEMMA ProducerRollbackType ==
  ASSUME ItemTypeOK, NEW p, ProducerRollbackTx(p)
  PROVE  ItemTypeOK'
  BY DEF ProducerRollbackTx, ItemTypeOK

(* A consumer is its group and its instance number. *)
LEMMA ConsumerParts ==
  ASSUME NEW c \in Consumers
  PROVE  /\ GroupOf(c) \in Groups /\ InstanceOf(c) \in Nat /\ InstanceOf(c) \in Instances
         /\ c = <<GroupOf(c), InstanceOf(c)>>
  BY QueueAssumption DEF GroupOf, InstanceOf, Instances

(* The item states a consumer writes are item states. *)
LEMMA StateByType ==
  ASSUME NEW c \in Consumers
  PROVE  /\ StateBy(c, "CLAIMED") \in ItemStates
         /\ StateBy(c, "PROCESSED") \in ItemStates
         /\ NoState \in ItemStates
  BY ConsumerParts DEF StateBy, ItemStates, NoState

(* Writing a state on some items of a group keeps all item states typed. *)
LEMMA SetStateType ==
  ASSUME itemState \in [Groups -> [Key -> ItemStates]],
         NEW c \in Consumers, NEW K, NEW s \in ItemStates, SetState(c, K, s)
  PROVE  itemState' \in [Groups -> [Key -> ItemStates]]
  BY ConsumerParts DEF SetState

(* The scan stands on a key, and moves to a key or to the end of the map. *)
LEMMA ScanMoves ==
  ASSUME ItemTypeOK, ConsumerTypeOK, NEW c \in Consumers, VisitKey(c)
  PROVE  /\ cursor[c] \in Key
         /\ startKey' \in [Consumers -> Key \cup {NoKey}]
         /\ MoveOn(c) => cursor' \in [Consumers -> Key \cup {EndKey}]
<1>1. cursor[c] \in Key
  BY DEF VisitKey, ConsumerTypeOK
<1>2. First({j \in entries : Less(cursor[c], j)}) \in Key \cup {EndKey}
  BY FirstKey DEF ItemTypeOK
<1> QED
  BY <1>1, <1>2 DEF VisitKey, MoveOn, ConsumerTypeOK

(* One case per outcome of dequeue for the entry it visits. *)
LEMMA ScanType ==
  ASSUME ItemTypeOK, ConsumerTypeOK, NEW c \in Consumers, ScanKey(c)
  PROVE  ItemTypeOK' /\ ConsumerTypeOK'
<1>0. cursor[c] \in Key
  BY ScanMoves DEF ScanKey, ScanNewer, ScanInProgress, ScanSettled, ScanClaim, ScanClaimed, ScanHash
<1>1. CASE ScanNewer(c)
  BY <1>1, ScanMoves DEF ScanNewer, ConsumerTypeOK, ItemTypeOK, itemVars
<1>2. CASE ScanInProgress(c)
  BY <1>2, ScanMoves DEF ScanInProgress, Revisit, ConsumerTypeOK, ItemTypeOK, itemVars
<1>3. CASE ScanSettled(c)
  BY <1>3, ScanMoves DEF ScanSettled, ConsumerTypeOK, ItemTypeOK, itemVars
<1>4. CASE ScanClaim(c)
  <2>1. itemState' \in [Groups -> [Key -> ItemStates]]
    BY <1>4, SetStateType, StateByType DEF ScanClaim, ItemTypeOK
  <2> QED
    BY <1>0, <1>4, <2>1, ScanMoves DEF ScanClaim, Take, Revisit, ConsumerTypeOK, ItemTypeOK
<1>5. CASE ScanClaimed(c)
  BY <1>0, <1>5, ScanMoves DEF ScanClaimed, Take, Revisit, ConsumerTypeOK, ItemTypeOK, itemVars
<1>6. CASE ScanHash(c)
  <2>1. \/ Take(c, cursor[c]) /\ Revisit(c)
        \/ UNCHANGED <<dequeuedKeys, updateStartKey>>
    BY <1>6, Zenon DEF ScanHash
  <2>2. VisitKey(c) /\ MoveOn(c) /\ UNCHANGED <<itemVars, committed>>
    BY <1>6, Zenon DEF ScanHash
  <2>3. dequeuedKeys' \in [Consumers -> SUBSET Key]
    BY <1>0, <2>1 DEF Take, ConsumerTypeOK
  <2>4. updateStartKey' \in [Consumers -> BOOLEAN]
    BY <2>1 DEF Revisit, ConsumerTypeOK
  <2> QED
    BY <2>2, <2>3, <2>4, ScanMoves DEF ConsumerTypeOK, ItemTypeOK, itemVars
<1> QED
  BY <1>1, <1>2, <1>3, <1>4, <1>5, <1>6 DEF ScanKey

(* The operations of a queue consumer other than the visit of an entry. *)
LEMMA ConsumerOpType ==
  ASSUME ItemTypeOK, ConsumerTypeOK, NEW c \in Consumers
  PROVE  /\ ConsumerStartTx(c) => ConsumerTypeOK'
         /\ BeginDequeue(c) => ConsumerTypeOK'
         /\ EndDequeue(c) => ConsumerTypeOK'
         /\ \A K \in SUBSET Key : Reclaim(c, K) => ConsumerTypeOK'
         /\ ConsumerCommitTx(c) => ItemTypeOK' /\ ConsumerTypeOK'
         /\ ConsumerPostTxCommit(c) => ItemTypeOK' /\ ConsumerTypeOK'
         /\ ConsumerRollbackTx(c) => ItemTypeOK' /\ ConsumerTypeOK'
<1>1. ConsumerStartTx(c) => ConsumerTypeOK'
  BY DEF ConsumerStartTx, ConsumerTypeOK, scanVars
<1>2. ASSUME BeginDequeue(c) PROVE ConsumerTypeOK'
  <2>1. First({k \in entries : LessOrEqual(startKey[c], k)}) \in Key \cup {EndKey}
    BY FirstKey DEF ItemTypeOK
  <2> QED
    BY <1>2, <2>1 DEF BeginDequeue, ConsumerTypeOK
<1>3. EndDequeue(c) => ConsumerTypeOK'
  BY DEF EndDequeue, ConsumerTypeOK
<1>4. \A K \in SUBSET Key : Reclaim(c, K) => ConsumerTypeOK'
  BY DEF Reclaim, ConsumerTypeOK, scanVars
<1>5. ASSUME ConsumerCommitTx(c) PROVE ItemTypeOK' /\ ConsumerTypeOK'
  <2>1. itemState' \in [Groups -> [Key -> ItemStates]]
    BY <1>5, SetStateType, StateByType DEF ConsumerCommitTx, ItemTypeOK
  <2> QED
    BY <1>5, <2>1 DEF ConsumerCommitTx, ItemTypeOK, ConsumerTypeOK, scanVars
<1>6. ConsumerPostTxCommit(c) => ItemTypeOK' /\ ConsumerTypeOK'
  BY DEF ConsumerPostTxCommit, ItemTypeOK, ConsumerTypeOK, consumerVars, scanVars
<1>7. ASSUME ConsumerRollbackTx(c) PROVE ItemTypeOK' /\ ConsumerTypeOK'
  <2>1. itemState' \in [Groups -> [Key -> ItemStates]]
    BY <1>7, SetStateType, StateByType DEF ConsumerRollbackTx, ItemTypeOK
  <2> QED
    BY <1>7, <2>1 DEF ConsumerRollbackTx, ItemTypeOK, ConsumerTypeOK, scanVars
<1> QED
  BY <1>1, <1>2, <1>3, <1>4, <1>5, <1>6, <1>7

-----------------------------------------------------------------------------
(* The driver. *)

(* What an action leaves alone stays well-typed. *)
LEMMA Frame ==
  /\ TephraTypeOK /\ UNCHANGED tephraVars => TephraTypeOK'
  /\ ItemTypeOK /\ UNCHANGED itemVars => ItemTypeOK'
  /\ ProducerTypeOK /\ UNCHANGED producerVars => ProducerTypeOK'
  /\ ConsumerTypeOK /\ UNCHANGED consumerVars => ConsumerTypeOK'
  /\ DriverTypeOK /\ UNCHANGED driverVars => DriverTypeOK'
  /\ HistoryTypeOK /\ UNCHANGED historyVars => HistoryTypeOK'
  BY DEF TephraTypeOK, tephraVars, ItemTypeOK, itemVars, ProducerTypeOK, producerVars,
         ConsumerTypeOK, consumerVars, scanVars, DriverTypeOK, driverVars, HistoryTypeOK, historyVars

(* A client that works under a write pointer keeps it over every step of the
   transaction manager other than its own. *)
LEMMA ProducerTx ==
  ASSUME TephraTypeOK, StepTypeOK, NEW p \in Producers, pc[p] # "idle"
  PROVE  writePointer[p] \in WriterIds
  BY DEF TephraTypeOK, StepTypeOK

(* A thread that moves to one of its own steps, and starts none without a
   transaction, leaves every program counter well-typed. *)
LEMMA StepType ==
  ASSUME StepTypeOK, NEW c \in Clients,
         NEW step \in ProducerSteps \cup ConsumerSteps, Goto(c, step),
         \A d \in Clients \ {c} : writePointer'[d] = writePointer[d],
         c \in Producers /\ step # "idle" => writePointer'[c] # NoTx
  PROVE  StepTypeOK'
  BY DEF StepTypeOK, Goto, Clients

(* The manager's operations change the write pointer of their caller only. *)
LEMMA OwnPointer ==
  ASSUME TephraTypeOK, NEW c \in Clients
  PROVE  /\ UNCHANGED tephraVars => \A d \in Clients : writePointer'[d] = writePointer[d]
         /\ StartWriter(c) => \A d \in Clients \ {c} : writePointer'[d] = writePointer[d]
         /\ StartReader(c) => \A d \in Clients \ {c} : writePointer'[d] = writePointer[d]
         /\ EndTx(c) => \A d \in Clients \ {c} : writePointer'[d] = writePointer[d]
  BY DEF TephraTypeOK, tephraVars, StartWriter, StartReader, EndTx

(* resetRetry leaves the process entry well-typed. *)
LEMMA ResetEntryType ==
  ASSUME DriverTypeOK, NEW c \in Consumers, ResetEntry(c)
  PROVE  DriverTypeOK'
  BY DEF DriverTypeOK, ResetEntry

(* Every step of a generator flowlet. *)
LEMMA ProducerStepType ==
  ASSUME TypeOK, NEW p \in Producers, ProducerStep(p)
  PROVE  TypeOK'
<1> USE DEF TypeOK, QueueTypeOK, queueVars
<1>0. p \in Clients /\ {"idle", "emit", "persist", "commit", "rollback", "abort"} = ProducerSteps
  BY DEF Clients, ProducerSteps
<1>1. CASE PStart(p)
  <2>1. TephraTypeOK' /\ ProducerTypeOK'
    BY <1>1, StartWriterType, ProducerOpType DEF PStart
  <2>2. StepTypeOK'
    BY <1>0, <1>1, StartWriterType, OwnPointer, StepType DEF PStart
  <2> QED
    BY <1>1, <2>1, <2>2, Frame DEF PStart
<1>2. CASE PEmit(p)
  <2>1. ProducerTypeOK'
    BY <1>2, ProducerOpType DEF PEmit
  <2>2. StepTypeOK'
    BY <1>2 DEF PEmit, StepTypeOK, tephraVars
  <2> QED
    BY <1>2, <2>1, <2>2, Frame DEF PEmit
<1>3. CASE PFail(p)
  <2>1. StepTypeOK'
    BY <1>0, <1>3, ProducerTx, OwnPointer, StepType DEF PFail, At, StepTypeOK, tephraVars
  <2> QED
    BY <1>3, <2>1, Frame DEF PFail
<1>4. CASE PFinish(p)
  <2>1. ProducerTypeOK'
    BY <1>4, ProducerTx, ProducerOpType, Frame DEF PFinish, At
  <2>2. StepTypeOK'
    BY <1>0, <1>4, OwnPointer, StepType DEF PFinish, At, StepTypeOK, tephraVars
  <2> QED
    BY <1>4, <2>1, <2>2, Frame DEF PFinish
<1>5. CASE PPersist(p)
  <2>1. ItemTypeOK' /\ ProducerTypeOK'
    BY <1>5, ProducerTx, PersistEntryType DEF PPersist, At
  <2>2. StepTypeOK'
    BY <1>5 DEF PPersist, StepTypeOK, tephraVars
  <2> QED
    BY <1>5, <2>1, <2>2, Frame DEF PPersist
<1>6. CASE PPersisted(p)
  <2>1. ProducerTypeOK'
    BY <1>6, ProducerOpType DEF PPersisted
  <2>2. StepTypeOK'
    BY <1>0, <1>6, OwnPointer, StepType DEF PPersisted, At, StepTypeOK, tephraVars
  <2> QED
    BY <1>6, <2>1, <2>2, Frame DEF PPersisted
<1>7. CASE PCommit(p)
  <2>1. TephraTypeOK'
    BY <1>0, <1>7, EndTxType, Frame DEF PCommit
  <2>2. StepTypeOK'
    BY <1>0, <1>7, OwnPointer, StepType DEF PCommit, At, StepTypeOK, tephraVars
  <2>3. {writePointer[p]} \X (0 .. lastEnqueueCount[p] - 1) \subseteq Key
    BY <1>7, ProducerTx, QueueAssumption DEF PCommit, At, ProducerTypeOK, Key, SeqIds
  <2>4. HistoryTypeOK'
    BY <1>7, <2>3 DEF PCommit, HistoryTypeOK
  <2> QED
    BY <1>7, <2>1, <2>2, <2>4, Frame DEF PCommit
<1>8. CASE PRollback(p)
  <2>1. ItemTypeOK'
    BY <1>8, ProducerRollbackType DEF PRollback
  <2>2. StepTypeOK'
    BY <1>0, <1>8, OwnPointer, StepType DEF PRollback, At, StepTypeOK, tephraVars
  <2>3. UNCHANGED producerVars
    BY <1>8 DEF PRollback, ProducerRollbackTx
  <2> QED
    BY <1>8, <2>1, <2>2, <2>3, Frame DEF PRollback
<1>9. CASE PAbort(p)
  <2>1. TephraTypeOK'
    BY <1>0, <1>9, EndTxType DEF PAbort
  <2>2. StepTypeOK'
    BY <1>0, <1>9, OwnPointer, StepType DEF PAbort
  <2> QED
    BY <1>9, <2>1, <2>2, Frame DEF PAbort
<1> QED
  BY <1>1, <1>2, <1>3, <1>4, <1>5, <1>6, <1>7, <1>8, <1>9 DEF ProducerStep

(* Every step of a flowlet instance that reads the queue. *)
LEMMA ConsumerStepType ==
  ASSUME TypeOK, NEW c \in Consumers, ConsumerStep(c)
  PROVE  TypeOK'
<1> USE DEF TypeOK, QueueTypeOK, queueVars
<1>0. /\ c \in Clients /\ c \notin Producers
      /\ ConsumerSteps = {"idle", "begin", "scan", "process", "finish", "commit", "post",
                           "rollback", "abort", "ignore"}
  BY TephraAssumption DEF Clients, ConsumerSteps
<1>1. CASE CStart(c)
  <2>1. TephraTypeOK' /\ ConsumerTypeOK'
    BY <1>1, StartReaderType, ConsumerOpType DEF CStart
  <2>2. StepTypeOK'
    BY <1>0, <1>1, OwnPointer, StepType DEF CStart
  <2>3. DriverTypeOK'
    BY <1>1 DEF CStart, DriverTypeOK
  <2> QED
    BY <1>1, <2>1, <2>2, <2>3, Frame DEF CStart
<1>2. CASE CBeginDequeue(c)
  <2>1. ConsumerTypeOK'
    BY <1>2, ConsumerOpType DEF CBeginDequeue
  <2>2. StepTypeOK'
    BY <1>0, <1>2, OwnPointer, StepType DEF CBeginDequeue
  <2> QED
    BY <1>2, <2>1, <2>2, Frame DEF CBeginDequeue
<1>3. CASE CScan(c)
  <2>1. ItemTypeOK' /\ ConsumerTypeOK'
    BY <1>3, ScanType DEF CScan
  <2>2. StepTypeOK'
    BY <1>3 DEF CScan, StepTypeOK, tephraVars
  <2> QED
    BY <1>3, <2>1, <2>2, Frame DEF CScan
<1>4. CASE CDequeued(c)
  <2>1. ConsumerTypeOK'
    BY <1>4, ConsumerOpType DEF CDequeued
  <2>2. StepTypeOK'
    BY <1>0, <1>4, OwnPointer, StepType DEF CDequeued
  <2>3. DriverTypeOK'
    BY <1>4 DEF CDequeued, DriverTypeOK, ConsumerTypeOK
  <2> QED
    BY <1>4, <2>1, <2>2, <2>3, Frame DEF CDequeued
<1>5. CASE CSuccess(c)
  <2>1. ConsumerTypeOK'
    BY <1>5, ConsumerOpType, Frame DEF CSuccess, DriverTypeOK
  <2>2. StepTypeOK'
    BY <1>0, <1>5, OwnPointer, StepType DEF CSuccess
  <2> QED
    BY <1>5, <2>1, <2>2, Frame DEF CSuccess
<1>6. CASE CFailure(c)
  <2>1. StepTypeOK'
    BY <1>0, <1>6, OwnPointer, StepType DEF CFailure
  <2> QED
    BY <1>6, <2>1, Frame DEF CFailure
<1>7. CASE CDecodeThrows(c)
  <2>1. ConsumerTypeOK'
    BY <1>7, ConsumerOpType DEF CDecodeThrows
  <2>2. StepTypeOK'
    BY <1>0, <1>7, OwnPointer, StepType DEF CDecodeThrows
  <2>3. faults' \in 0 .. MaxFaults
    BY <1>7, FlowAssumption DEF CDecodeThrows
  <2> QED
    BY <1>7, <2>1, <2>2, <2>3, Frame DEF CDecodeThrows
<1>8. CASE CFinish(c)
  <2>1. ItemTypeOK' /\ ConsumerTypeOK'
    BY <1>8, ConsumerOpType, Frame DEF CFinish
  <2>2. StepTypeOK'
    BY <1>0, <1>8, OwnPointer, StepType DEF CFinish
  <2> QED
    BY <1>8, <2>1, <2>2, Frame DEF CFinish
<1>9. CASE CCommit(c)
  <2>1. TephraTypeOK'
    BY <1>0, <1>9, EndTxType, Frame DEF CCommit
  <2>2. StepTypeOK'
    BY <1>0, <1>9, OwnPointer, StepType DEF CCommit
  <2>3. HistoryTypeOK'
    <3> DEFINE row == [k \in Key |-> consumed[GroupOf(c)][k] + IF k \in input[c] THEN 1 ELSE 0]
    <3>1. row \in [Key -> Nat]
      BY ConsumerParts DEF HistoryTypeOK
    <3>2. consumed' = consumed \/ consumed' = [consumed EXCEPT ![GroupOf(c)] = row]
      BY <1>9 DEF CCommit
    <3> HIDE DEF row
    <3>3. consumed' \in [Groups -> [Key -> Nat]]
      BY <3>1, <3>2, ConsumerParts DEF HistoryTypeOK
    <3> QED
      BY <1>9, <3>3 DEF CCommit, HistoryTypeOK
  <2> QED
    BY <1>9, <2>1, <2>2, <2>3, Frame DEF CCommit
<1>10. CASE CPost(c)
  <2>1. ItemTypeOK' /\ ConsumerTypeOK' /\ DriverTypeOK'
    BY <1>10, ConsumerOpType, ResetEntryType DEF CPost
  <2>2. StepTypeOK'
    BY <1>0, <1>10, OwnPointer, StepType DEF CPost
  <2> QED
    BY <1>10, <2>1, <2>2, Frame DEF CPost
<1>11. CASE CRollback(c)
  <2>1. ItemTypeOK' /\ ConsumerTypeOK'
    BY <1>11, ConsumerOpType DEF CRollback
  <2>2. StepTypeOK'
    BY <1>0, <1>11, OwnPointer, StepType DEF CRollback
  <2> QED
    BY <1>11, <2>1, <2>2, Frame DEF CRollback
<1>12. CASE CAbortIdle(c)
  <2>1. TephraTypeOK' /\ DriverTypeOK'
    BY <1>0, <1>12, EndTxType, ResetEntryType DEF CAbortIdle
  <2>2. StepTypeOK'
    BY <1>0, <1>12, OwnPointer, StepType DEF CAbortIdle
  <2> QED
    BY <1>12, <2>1, <2>2, Frame DEF CAbortIdle
<1>13. CASE CAbortRetry(c)
  <2>1. TephraTypeOK'
    BY <1>0, <1>13, EndTxType DEF CAbortRetry
  <2>2. StepTypeOK'
    BY <1>0, <1>13, OwnPointer, StepType DEF CAbortRetry
  <2>3. DriverTypeOK'
    BY <1>13 DEF CAbortRetry, DriverTypeOK
  <2> QED
    BY <1>13, <2>1, <2>2, <2>3, Frame DEF CAbortRetry
<1>14. CASE CAbortIgnore(c)
  <2>1. TephraTypeOK'
    BY <1>0, <1>14, EndTxType DEF CAbortIgnore
  <2>2. StepTypeOK'
    BY <1>0, <1>14, OwnPointer, StepType DEF CAbortIgnore
  <2>3. DriverTypeOK'
    BY <1>14 DEF CAbortIgnore, DriverTypeOK
  <2> QED
    BY <1>14, <2>1, <2>2, <2>3, Frame DEF CAbortIgnore
<1>15. CASE CIgnore(c)
  <2>1. TephraTypeOK'
    BY <1>15, StartReaderType DEF CIgnore
  <2>2. StepTypeOK'
    BY <1>0, <1>15, OwnPointer, StepType DEF CIgnore
  <2>3. ConsumerTypeOK'
    BY <1>15 DEF CIgnore, ConsumerTypeOK, DriverTypeOK, scanVars
  <2> QED
    BY <1>15, <2>1, <2>2, <2>3, Frame DEF CIgnore
<1> QED
  BY <1>1, <1>2, <1>3, <1>4, <1>5, <1>6, <1>7, <1>8, <1>9, <1>10, <1>11, <1>12, <1>13, <1>14,
     <1>15 DEF ConsumerStep

(* The initial state is well-typed. *)
LEMMA InitType == Init => TypeOK
<1> SUFFICES ASSUME Init PROVE TypeOK
  OBVIOUS
<1>1. EmptySnapshot \in Snapshots /\ NoState \in ItemStates
  BY TephraAssumption DEF EmptySnapshot, Snapshots, NoTxInProgress, NoState, ItemStates
<1>2. TephraTypeOK
  BY <1>1, TephraAssumption DEF Init, TephraInit, TephraTypeOK, NoTxInProgress, Clients
<1>3. ItemTypeOK
  BY <1>1, QueueAssumption DEF Init, QueueInit, ItemTypeOK
<1>4. ProducerTypeOK /\ ConsumerTypeOK /\ groupSize \in [Groups -> 1 .. MaxInstances]
  BY QueueAssumption DEF Init, QueueInit, ProducerTypeOK, ConsumerTypeOK
<1>5. StepTypeOK /\ DriverTypeOK /\ HistoryTypeOK /\ faults \in 0 .. MaxFaults
  BY FlowAssumption DEF Init, StepTypeOK, DriverTypeOK, HistoryTypeOK, ProducerSteps, Clients
<1> QED
  BY <1>2, <1>3, <1>4, <1>5 DEF TypeOK, QueueTypeOK

(* Every step, and every stuttering step, keeps the state well-typed. *)
LEMMA NextType == TypeOK /\ [Next]_vars => TypeOK'
<1> SUFFICES ASSUME TypeOK, [Next]_vars PROVE TypeOK'
  OBVIOUS
<1> USE DEF TypeOK, QueueTypeOK, queueVars
<1>1. ASSUME NEW p \in Producers, ProducerStep(p) PROVE TypeOK'
  BY <1>1, ProducerStepType
<1>2. ASSUME NEW c \in Consumers, ConsumerStep(c) PROVE TypeOK'
  BY <1>2, ConsumerStepType
<1>3. ASSUME NEW c \in TimeoutProcs, Timeout(c) PROVE TypeOK'
  <2>1. TephraTypeOK'
    BY <1>3, FlowAssumption, ManagerStepType DEF Timeout
  <2>2. StepTypeOK'
    BY <1>3 DEF Timeout, TimeoutTx, StepTypeOK
  <2>3. faults' \in 0 .. MaxFaults
    BY <1>3, FlowAssumption DEF Timeout
  <2> QED
    BY <1>3, <2>1, <2>2, <2>3, Frame DEF Timeout
<1>4. CASE UNCHANGED vars
  <2>1. StepTypeOK'
    BY <1>4 DEF vars, StepTypeOK, tephraVars
  <2> QED
    BY <1>4, <2>1, Frame DEF vars
<1> QED
  BY <1>1, <1>2, <1>3, <1>4 DEF Next

(* Type correctness: every variable of the transaction manager, the queue and
   the drivers keeps its type, for every value of the constants; in particular
   the iterator and the start key of a consumer always name real keys. *)
THEOREM TypeCorrect == Spec => []TypeOK
  BY InitType, NextType, PTL DEF Spec

-----------------------------------------------------------------------------
(* Entries are used up once. *)

(* What a step of consumer c leaves alone: the other consumers ... *)
OthersKeep(c) ==
  \A d \in Consumers \ {c} :
     /\ pc'[d] = pc[d]
     /\ input'[d] = input[d]
     /\ dequeuedKeys'[d] = dequeuedKeys[d]
     /\ retry'[d] = retry[d]

(* ... and the producers. *)
WritersKeep ==
  /\ lastWriter' = lastWriter
  /\ \A p \in Producers : /\ pc'[p] = pc[p]
                          /\ writePointer'[p] = writePointer[p]
                          /\ persisted'[p] = persisted[p]

(* And what no step changes or sets. *)
GroupsKeep == groupSize' = groupSize /\ \A c \in Consumers : ~detached'[c]

(* A step of c changes what c has in hand and nobody else's. *)
LEMMA InHandOthers ==
  ASSUME NEW c \in Consumers, OthersKeep(c)
  PROVE  \A d \in Consumers \ {c} : InHand(d)' = InHand(d)
  BY DEF OthersKeep, InHand

(* Two instances of a group are never entitled to the same entry. *)
LEMMA InHandDisjoint ==
  ASSUME OnceInv, NEW c \in Consumers, NEW d \in Consumers, c # d, GroupOf(c) = GroupOf(d)
  PROVE  InHand(c) \cap InHand(d) = {}
<1> SUFFICES ASSUME NEW k \in InHand(c), k \in InHand(d)
             PROVE  FALSE
  OBVIOUS
<1>1. Entitled(c, k) /\ Entitled(d, k)
  BY DEF OnceInv, EntitledInv
<1>2. InstanceOf(c) # InstanceOf(d)
  BY ConsumerParts
<1>3. CASE GroupOf(c) \in FifoGroups
  BY <1>1, <1>2, <1>3 DEF Entitled, StateFor
<1>4. CASE GroupOf(c) \notin FifoGroups
  <2>1. /\ Running(c) /\ Running(d)
        /\ Owns(InstanceOf(c), groupSize[GroupOf(c)], k)
        /\ Owns(InstanceOf(d), groupSize[GroupOf(c)], k)
    BY <1>1, <1>4 DEF Entitled
  <2>2. groupSize[GroupOf(c)] # 1
    BY <1>2, <2>1, ConsumerParts DEF Running
  <2> QED
    BY <1>2, <2>1, <2>2 DEF Owns
<1> QED
  BY <1>3, <1>4

(* Keys in hand and entries are keys. *)
LEMMA InHandKeys ==
  ASSUME TypeOK, NEW c \in Consumers
  PROVE  InHand(c) \subseteq Key
  BY DEF TypeOK, QueueTypeOK, ConsumerTypeOK, DriverTypeOK, InHand

(* A consumer only ever takes a key that is there, so a key nobody has
   inserted stays untouched by its steps. *)
LEMMA UnbornKept ==
  ASSUME OnceInv, TypeOK', NEW c \in Consumers, OthersKeep(c), WritersKeep,
         entries' \subseteq entries,
         InHand(c)' \subseteq InHand(c) \cup entries,
         \A g \in Groups : \A k \in Key : consumed'[g][k] = consumed[g][k] \/ k \in InHand(c)
  PROVE  WritersInv' /\ UnbornInv'
<1>1. WritersInv'
  BY DEF OnceInv, WritersInv, WritersKeep
<1>2. \A d \in Consumers : InHand(d)' \subseteq InHand(d) \cup entries
  BY InHandOthers
<1>3. UnbornInv'
  <2> SUFFICES ASSUME NEW k \in Key,
                      k[1] > 2 * lastWriter' \/ (\E p \in Producers : ToInsert(p, k)')
               PROVE  /\ k \notin entries'
                      /\ \A d \in Consumers : k \notin InHand(d)'
                      /\ \A g \in Groups : consumed'[g][k] = 0
    BY DEF UnbornInv
  <2>1. k[1] > 2 * lastWriter \/ (\E p \in Producers : ToInsert(p, k))
    BY DEF WritersKeep, ToInsert
  <2>2. /\ k \notin entries
        /\ \A d \in Consumers : k \notin InHand(d)
        /\ \A g \in Groups : consumed[g][k] = 0
    BY <2>1 DEF OnceInv, UnbornInv
  <2> QED
    BY <1>2, <2>2
<1> QED
  BY <1>1, <1>3

(* A step of c that marks nothing, uses nothing up and takes nothing new. *)
LEMMA QuietStep ==
  ASSUME OnceInv, TypeOK', NEW c \in Consumers, OthersKeep(c), WritersKeep, GroupsKeep,
         UNCHANGED <<itemState, hash, consumed>>,
         entries' \subseteq entries,
         InHand(c)' \subseteq InHand(c),
         pc[c] = "post" => InHand(c)' = {},
         pc'[c] # "idle" => Running(c),
         CommitFor(c)'
  PROVE  OnceInv'
<1>1. \A d \in Consumers : InHand(d)' \subseteq InHand(d)
  BY InHandOthers
<1>2. InstancesInv'
  BY DEF OnceInv, InstancesInv, OthersKeep, GroupsKeep, Running
<1>3. HolderInv'
  BY DEF OnceInv, HolderInv, GroupsKeep
<1>4. EntitledInv'
  BY <1>1 DEF OnceInv, EntitledInv, Entitled, StateFor, Running, Owns, GroupsKeep
<1>5. FreshInv'
  BY <1>1 DEF OnceInv, FreshInv, OthersKeep
<1>6. MarkedInv'
  BY DEF OnceInv, MarkedInv
<1>7. CommitInv'
  BY DEF OnceInv, CommitInv, CommitFor, OthersKeep, Processed, StateFor
<1>8. WritersInv' /\ UnbornInv'
  BY UnbornKept
<1>9. AtMostOnce'
  BY DEF OnceInv, AtMostOnce
<1> QED
  BY <1>2, <1>3, <1>4, <1>5, <1>6, <1>7, <1>8, <1>9 DEF OnceInv

(* Every step of a consumer leaves the rest alone. *)
LEMMA ConsumerKeeps ==
  ASSUME OnceInv, NEW c \in Consumers, ConsumerStep(c)
  PROVE  OthersKeep(c) /\ WritersKeep /\ GroupsKeep /\ hash' = hash
<1> USE DEF OthersKeep, WritersKeep, GroupsKeep, Goto, tephraVars, queueVars, itemVars,
            producerVars, consumerVars, scanVars, driverVars
<1>0. /\ c \in Clients /\ c \notin Producers /\ \A p \in Producers : p \in Clients /\ p # c
      /\ \A d \in Consumers : d \in Clients /\ ~detached[d]
      /\ pc \in [Clients -> ProducerSteps \cup ConsumerSteps]
      /\ writePointer \in [Clients -> WritePointers \cup {NoTx}]
      /\ input \in [Consumers -> SUBSET Key] /\ dequeuedKeys \in [Consumers -> SUBSET Key]
      /\ retry \in [Consumers -> Nat] /\ detached \in [Consumers -> BOOLEAN]
  BY TephraAssumption DEF Clients, OnceInv, InstancesInv, TypeOK, StepTypeOK, TephraTypeOK,
     DriverTypeOK, QueueTypeOK, ConsumerTypeOK
<1>1. CASE CStart(c)
  BY <1>0, <1>1 DEF CStart, StartReader, ConsumerStartTx
<1>2. CASE CBeginDequeue(c)
  BY <1>0, <1>2 DEF CBeginDequeue, BeginDequeue
<1>3. CASE CScan(c)
  <2>1. hash' = hash
    BY <1>3 DEF CScan, ScanKey, ScanNewer, ScanInProgress, ScanSettled, ScanClaim, ScanClaimed, ScanHash
  <2>2. \A d \in Consumers \ {c} : dequeuedKeys'[d] = dequeuedKeys[d]
    BY <1>0, <1>3 DEF CScan, ScanKey, ScanNewer, ScanInProgress, ScanSettled, ScanClaim, ScanClaimed,
                      ScanHash, Take
  <2> QED
    BY <1>0, <1>3, <2>1, <2>2 DEF CScan
<1>4. CASE CDequeued(c)
  BY <1>0, <1>4 DEF CDequeued, EndDequeue
<1>5. CASE CSuccess(c)
  BY <1>0, <1>5 DEF CSuccess, Reclaim
<1>6. CASE CFailure(c)
  BY <1>0, <1>6 DEF CFailure
<1>7. CASE CDecodeThrows(c)
  BY <1>0, <1>7 DEF CDecodeThrows, EndDequeue
<1>8. CASE CFinish(c)
  BY <1>0, <1>8 DEF CFinish, ConsumerCommitTx
<1>9. CASE CCommit(c)
  BY <1>0, <1>9 DEF CCommit, EndTx
<1>10. CASE CPost(c)
  BY <1>0, <1>10 DEF CPost, ConsumerPostTxCommit, ResetEntry
<1>11. CASE CRollback(c)
  BY <1>0, <1>11 DEF CRollback, ConsumerRollbackTx
<1>12. CASE CAbortIdle(c)
  BY <1>0, <1>12 DEF CAbortIdle, EndTx, ResetEntry
<1>13. CASE CAbortRetry(c)
  BY <1>0, <1>13 DEF CAbortRetry, EndTx
<1>14. CASE CAbortIgnore(c)
  BY <1>0, <1>14 DEF CAbortIgnore, EndTx
<1>15. CASE CIgnore(c)
  BY <1>0, <1>15 DEF CIgnore, StartReader
<1> QED
  BY <1>1, <1>2, <1>3, <1>4, <1>5, <1>6, <1>7, <1>8, <1>9, <1>10, <1>11, <1>12, <1>13, <1>14,
     <1>15 DEF ConsumerStep

-----------------------------------------------------------------------------
(* The steps of a consumer that mark nothing and use nothing up. *)

(* Those steps keep the inductive invariant. *)
LEMMA QuietSteps ==
  ASSUME OnceInv, TypeOK', NEW c \in Consumers,
         \/ CStart(c) \/ CBeginDequeue(c) \/ CDequeued(c) \/ CDecodeThrows(c)
         \/ CSuccess(c) \/ CFailure(c) \/ CPost(c)
         \/ CAbortIdle(c) \/ CAbortRetry(c) \/ CAbortIgnore(c) \/ CIgnore(c)
  PROVE  OnceInv'
<1> USE DEF queueVars, itemVars, consumerVars, driverVars, historyVars, Goto, At, CommitFor, InHand
<1>1. OthersKeep(c) /\ WritersKeep /\ GroupsKeep /\ hash' = hash
  BY ConsumerKeeps DEF ConsumerStep
<1>2. /\ c \in Clients /\ pc \in [Clients -> ProducerSteps \cup ConsumerSteps]
      /\ input \in [Consumers -> SUBSET Key] /\ dequeuedKeys \in [Consumers -> SUBSET Key]
      /\ retry \in [Consumers -> Nat]
      /\ pc[c] # "idle" => Running(c)
      /\ ~detached[c]
      /\ CommitFor(c)
  BY DEF OnceInv, TypeOK, StepTypeOK, DriverTypeOK, QueueTypeOK, ConsumerTypeOK, InstancesInv,
         CommitInv, Clients
<1>3. CASE CStart(c)
  <2>1. UNCHANGED <<itemState, consumed>> /\ entries' \subseteq entries
    BY <1>3 DEF CStart, StartReader, ConsumerStartTx
  <2>2. InHand(c)' \subseteq InHand(c) /\ (pc[c] = "post" => InHand(c)' = {})
    BY <1>2, <1>3 DEF CStart, StartReader, ConsumerStartTx
  <2>3. CommitFor(c)' /\ (pc'[c] # "idle" => Running(c))
    BY <1>2, <1>3 DEF CStart, StartReader, ConsumerStartTx
  <2> QED
    BY <1>1, <2>1, <2>2, <2>3, QuietStep
<1>4. CASE CBeginDequeue(c)
  <2>1. UNCHANGED <<itemState, consumed>> /\ entries' \subseteq entries
    BY <1>4 DEF CBeginDequeue, BeginDequeue
  <2>2. InHand(c)' \subseteq InHand(c) /\ (pc[c] = "post" => InHand(c)' = {})
    BY <1>2, <1>4 DEF CBeginDequeue, BeginDequeue
  <2>3. CommitFor(c)' /\ (pc'[c] # "idle" => Running(c))
    BY <1>2, <1>4 DEF CBeginDequeue, BeginDequeue
  <2> QED
    BY <1>1, <2>1, <2>2, <2>3, QuietStep
<1>5. CASE CDequeued(c)
  <2>1. UNCHANGED <<itemState, consumed>> /\ entries' \subseteq entries
    BY <1>5 DEF CDequeued, EndDequeue
  <2>2. InHand(c)' \subseteq InHand(c) /\ (pc[c] = "post" => InHand(c)' = {})
    BY <1>2, <1>5 DEF CDequeued, EndDequeue
  <2>3. CommitFor(c)' /\ (pc'[c] # "idle" => Running(c))
    BY <1>2, <1>5 DEF CDequeued, EndDequeue
  <2> QED
    BY <1>1, <2>1, <2>2, <2>3, QuietStep
<1>6. CASE CDecodeThrows(c)
  <2>1. UNCHANGED <<itemState, consumed>> /\ entries' \subseteq entries
    BY <1>6 DEF CDecodeThrows, EndDequeue
  <2>2. InHand(c)' \subseteq InHand(c) /\ (pc[c] = "post" => InHand(c)' = {})
    BY <1>2, <1>6 DEF CDecodeThrows, EndDequeue
  <2>3. CommitFor(c)' /\ (pc'[c] # "idle" => Running(c))
    BY <1>2, <1>6 DEF CDecodeThrows, EndDequeue
  <2> QED
    BY <1>1, <2>1, <2>2, <2>3, QuietStep
<1>7. CASE CSuccess(c)
  <2>1. UNCHANGED <<itemState, consumed>> /\ entries' \subseteq entries
    BY <1>7 DEF CSuccess, Reclaim
  <2>2. InHand(c)' \subseteq InHand(c) /\ (pc[c] = "post" => InHand(c)' = {})
    BY <1>2, <1>7 DEF CSuccess, Reclaim
  <2>3. CommitFor(c)' /\ (pc'[c] # "idle" => Running(c))
    BY <1>2, <1>7 DEF CSuccess, Reclaim
  <2> QED
    BY <1>1, <2>1, <2>2, <2>3, QuietStep
<1>8. CASE CFailure(c)
  <2>1. UNCHANGED <<itemState, consumed>> /\ entries' \subseteq entries
    BY <1>8 DEF CFailure
  <2>2. InHand(c)' \subseteq InHand(c) /\ (pc[c] = "post" => InHand(c)' = {})
    BY <1>2, <1>8 DEF CFailure
  <2>3. CommitFor(c)' /\ (pc'[c] # "idle" => Running(c))
    BY <1>2, <1>8 DEF CFailure
  <2> QED
    BY <1>1, <2>1, <2>2, <2>3, QuietStep
<1>9. CASE CPost(c)
  <2>1. UNCHANGED <<itemState, consumed>> /\ entries' \subseteq entries
    BY <1>9 DEF CPost, ConsumerPostTxCommit, ResetEntry
  <2>2. InHand(c)' \subseteq InHand(c) /\ (pc[c] = "post" => InHand(c)' = {})
    BY <1>2, <1>9 DEF CPost, ConsumerPostTxCommit, ResetEntry
  <2>3. CommitFor(c)' /\ (pc'[c] # "idle" => Running(c))
    BY <1>2, <1>9 DEF CPost, ConsumerPostTxCommit, ResetEntry
  <2> QED
    BY <1>1, <2>1, <2>2, <2>3, QuietStep
<1>10. CASE CAbortIdle(c)
  <2>1. UNCHANGED <<itemState, consumed>> /\ entries' \subseteq entries
    BY <1>10 DEF CAbortIdle, EndTx, ResetEntry
  <2>2. InHand(c)' \subseteq InHand(c) /\ (pc[c] = "post" => InHand(c)' = {})
    BY <1>2, <1>10 DEF CAbortIdle, EndTx, ResetEntry
  <2>3. CommitFor(c)' /\ (pc'[c] # "idle" => Running(c))
    BY <1>2, <1>10 DEF CAbortIdle, EndTx, ResetEntry
  <2> QED
    BY <1>1, <2>1, <2>2, <2>3, QuietStep
<1>11. CASE CAbortRetry(c)
  <2>1. UNCHANGED <<itemState, consumed>> /\ entries' \subseteq entries
    BY <1>11 DEF CAbortRetry, EndTx
  <2>2. InHand(c)' \subseteq InHand(c) /\ (pc[c] = "post" => InHand(c)' = {})
    BY <1>2, <1>11 DEF CAbortRetry, EndTx
  <2>3. CommitFor(c)' /\ (pc'[c] # "idle" => Running(c))
    BY <1>2, <1>11 DEF CAbortRetry, EndTx
  <2> QED
    BY <1>1, <2>1, <2>2, <2>3, QuietStep
<1>12. CASE CAbortIgnore(c)
  <2>1. UNCHANGED <<itemState, consumed>> /\ entries' \subseteq entries
    BY <1>12 DEF CAbortIgnore, EndTx
  <2>2. InHand(c)' \subseteq InHand(c) /\ (pc[c] = "post" => InHand(c)' = {})
    BY <1>2, <1>12 DEF CAbortIgnore, EndTx
  <2>3. CommitFor(c)' /\ (pc'[c] # "idle" => Running(c))
    BY <1>2, <1>12 DEF CAbortIgnore, EndTx
  <2> QED
    BY <1>1, <2>1, <2>2, <2>3, QuietStep
<1>13. CASE CIgnore(c)
  <2>1. UNCHANGED <<itemState, consumed>> /\ entries' \subseteq entries
    BY <1>13 DEF CIgnore, StartReader
  <2>2. InHand(c)' \subseteq InHand(c) /\ (pc[c] = "post" => InHand(c)' = {})
    BY <1>2, <1>13 DEF CIgnore, StartReader
  <2>3. CommitFor(c)' /\ (pc'[c] # "idle" => Running(c))
    BY <1>2, <1>13 DEF CIgnore, StartReader
  <2> QED
    BY <1>1, <2>1, <2>2, <2>3, QuietStep
<1> QED
  BY <1>3, <1>4, <1>5, <1>6, <1>7, <1>8, <1>9, <1>10, <1>11, <1>12, <1>13

-----------------------------------------------------------------------------
(* The steps of a consumer that mark entries. *)

(* A consumer that changes marks only on entries it has in hand, or claims
   entries that are free, disturbs nobody. *)
LEMMA MarkStep ==
  ASSUME OnceInv, TypeOK', NEW c \in Consumers, OthersKeep(c), WritersKeep, GroupsKeep,
         UNCHANGED <<entries, hash, consumed>>,
         \A h \in Groups \ {GroupOf(c)} : itemState'[h] = itemState[h],
         \A j \in Key : LET s == itemState'[GroupOf(c)][j]
                        IN  \/ s = itemState[GroupOf(c)][j]
                            \/ /\ \/ j \in InHand(c)
                                  \/ /\ GroupOf(c) \in FifoGroups
                                     /\ StateFor(c, j).state = "NONE"
                               /\ consumed[GroupOf(c)][j] = 0
                               /\ s.state = "NONE" \/ s.instance = InstanceOf(c),
         InHand(c)' \subseteq InHand(c) \cup entries,
         \A k \in InHand(c)' : Entitled(c, k)' /\ consumed[GroupOf(c)][k] = 0,
         Running(c),
         CommitFor(c)'
  PROVE  OnceInv'
<1> DEFINE g == GroupOf(c)
<1>0. g \in Groups
  BY ConsumerParts
<1>1. \A d \in Consumers \ {c} : InHand(d)' = InHand(d) /\ InHand(d) \subseteq Key
  BY InHandOthers, InHandKeys DEF OnceInv
<1>2. \A d \in Consumers \ {c} : \A k \in InHand(d) : StateFor(d, k)' = StateFor(d, k)
  <2> SUFFICES ASSUME NEW d \in Consumers \ {c}, NEW k \in InHand(d)
               PROVE  itemState'[GroupOf(d)][k] = itemState[GroupOf(d)][k]
    BY DEF StateFor
  <2>1. CASE GroupOf(d) # g
    BY <2>1, ConsumerParts
  <2>2. CASE GroupOf(d) = g
    <3>1. k \notin InHand(c) /\ k \in Key
      BY <1>1, <2>2, InHandDisjoint
    <3>2. g \in FifoGroups => StateFor(c, k).state # "NONE"
      BY <2>2 DEF OnceInv, EntitledInv, Entitled, StateFor
    <3> QED
      BY <2>2, <3>1, <3>2
  <2> QED
    BY <2>1, <2>2
<1>3. InstancesInv'
  BY DEF OnceInv, InstancesInv, OthersKeep, GroupsKeep, Running
<1>4. HolderInv'
  <2> SUFFICES ASSUME NEW h \in Groups, NEW k \in Key, itemState'[h][k].state # "NONE"
               PROVE  itemState'[h][k].instance < groupSize'[h]
    BY DEF HolderInv
  <2>1. CASE itemState'[h][k] = itemState[h][k]
    BY <2>1 DEF OnceInv, HolderInv, GroupsKeep
  <2>2. CASE itemState'[h][k] # itemState[h][k]
    <3>1. h = g /\ itemState'[h][k].instance = InstanceOf(c)
      BY <2>2
    <3> QED
      BY <3>1 DEF Running, GroupsKeep
  <2> QED
    BY <2>1, <2>2
<1>5. EntitledInv'
  <2> SUFFICES ASSUME NEW d \in Consumers, NEW k \in InHand(d)'
               PROVE  Entitled(d, k)'
    BY DEF EntitledInv
  <2>1. CASE d = c
    BY <2>1
  <2>2. CASE d # c
    <3>1. k \in InHand(d) /\ StateFor(d, k)' = StateFor(d, k) /\ Entitled(d, k)
      BY <1>1, <1>2, <2>2 DEF OnceInv, EntitledInv
    <3> QED
      BY <3>1 DEF Entitled, Running, Owns, GroupsKeep
  <2> QED
    BY <2>1, <2>2
<1>6. FreshInv'
  BY <1>1 DEF OnceInv, FreshInv, OthersKeep
<1>7. MarkedInv'
  <2> SUFFICES ASSUME NEW h \in Groups, NEW k \in entries, consumed[h][k] # 0
               PROVE  itemState'[h][k].state = "PROCESSED"
    BY DEF MarkedInv
  <2>1. k \in Key
    BY DEF OnceInv, TypeOK, QueueTypeOK, ItemTypeOK
  <2>2. itemState'[h][k] = itemState[h][k]
    BY <2>1
  <2> QED
    BY <2>2 DEF OnceInv, MarkedInv
<1>8. CommitInv'
  <2> SUFFICES ASSUME NEW d \in Consumers \ {c}
               PROVE  CommitFor(d)'
    BY DEF CommitInv
  <2>1. CommitFor(d)
    BY DEF OnceInv, CommitInv
  <2>2. pc[d] = "commit" => \A k \in dequeuedKeys[d] : StateFor(d, k)' = StateFor(d, k)
    BY <1>2 DEF InHand
  <2> QED
    BY <2>1, <2>2 DEF CommitFor, OthersKeep, Processed
<1>9. WritersInv' /\ UnbornInv'
  BY UnbornKept
<1>10. AtMostOnce'
  BY DEF OnceInv, AtMostOnce
<1> QED
  BY <1>3, <1>4, <1>5, <1>6, <1>7, <1>8, <1>9, <1>10 DEF OnceInv

(* What SetState does to the marks, one by one. *)
LEMMA SetStateAt ==
  ASSUME TypeOK, NEW c \in Consumers, NEW K, NEW s, SetState(c, K, s)
  PROVE  /\ \A h \in Groups \ {GroupOf(c)} : itemState'[h] = itemState[h]
         /\ \A j \in Key : itemState'[GroupOf(c)][j] =
                            IF j \in K \cap entries THEN s ELSE itemState[GroupOf(c)][j]
  BY ConsumerParts DEF SetState, TypeOK, QueueTypeOK, ItemTypeOK

(* An entry that is there and not marked PROCESSED has not been used up. *)
LEMMA CandidateFresh ==
  ASSUME OnceInv, NEW c \in Consumers, NEW k \in Key, Candidate(c, k)
  PROVE  consumed[GroupOf(c)][k] = 0
  BY ConsumerParts DEF OnceInv, MarkedInv, Candidate, Processed, StateFor

(* The visit of one entry, the step in which FIFO claims it: what c takes was
   free or already its own, so c becomes the only one entitled to it. *)
LEMMA ScanSteps ==
  ASSUME OnceInv, TypeOK', NEW c \in Consumers, CScan(c)
  PROVE  OnceInv'
<1> DEFINE g == GroupOf(c)
           k == cursor[c]
<1>1. OthersKeep(c) /\ WritersKeep /\ GroupsKeep /\ hash' = hash
  BY ConsumerKeeps DEF ConsumerStep
<1>2. /\ pc' = pc /\ pc[c] = "scan" /\ input' = input /\ consumed' = consumed
      /\ Running(c) /\ Running(c)'
  BY <1>1 DEF CScan, At, OnceInv, InstancesInv, driverVars, historyVars, Running, GroupsKeep
<1>3. InHand(c) = input[c] \cup dequeuedKeys[c] /\ InHand(c)' = input[c] \cup dequeuedKeys'[c]
  BY <1>2 DEF InHand
<1>4. CommitFor(c)'
  BY <1>2 DEF CommitFor
<1>5. k \in Key
  BY ScanMoves DEF CScan, ScanKey, ScanNewer, ScanInProgress, ScanSettled, ScanClaim, ScanClaimed,
                   ScanHash, OnceInv, TypeOK, QueueTypeOK
<1>6. g \in Groups /\ dequeuedKeys \in [Consumers -> SUBSET Key]
  BY ConsumerParts DEF OnceInv, TypeOK, QueueTypeOK, ConsumerTypeOK
<1>7. \A j \in InHand(c) : Entitled(c, j) /\ consumed[g][j] = 0
  BY <1>2 DEF OnceInv, EntitledInv, FreshInv
<1>8. CASE UNCHANGED <<itemVars, dequeuedKeys>>
  <2>1. UNCHANGED <<itemState, consumed>> /\ entries' \subseteq entries
    BY <1>2, <1>8 DEF itemVars
  <2>2. InHand(c)' \subseteq InHand(c) /\ pc[c] # "post"
    BY <1>2, <1>3, <1>8
  <2> QED
    BY <1>1, <1>2, <1>4, <2>1, <2>2, QuietStep
<1>9. ASSUME UNCHANGED itemVars, Take(c, k), Candidate(c, k), Entitled(c, k) PROVE OnceInv'
  <2>1. InHand(c)' = InHand(c) \cup {k}
    BY <1>3, <1>6, <1>9 DEF Take
  <2>2. UNCHANGED <<entries, itemState>> /\ k \in entries
    BY <1>9 DEF itemVars, Candidate
  <2>3. \A j \in InHand(c)' : Entitled(c, j)' /\ consumed[g][j] = 0
    <3> SUFFICES ASSUME NEW j \in InHand(c)'
                 PROVE  Entitled(c, j)' /\ consumed[g][j] = 0
      OBVIOUS
    <3>1. Entitled(c, j) /\ consumed[g][j] = 0
      BY <1>5, <1>7, <1>9, <2>1, CandidateFresh
    <3> QED
      BY <1>1, <1>2, <2>2, <3>1 DEF Entitled, StateFor, Owns, GroupsKeep
  <2>4. \A h \in Groups \ {g} : itemState'[h] = itemState[h]
    BY <2>2
  <2> QED
    BY <1>1, <1>2, <1>4, <2>1, <2>2, <2>3, <2>4, MarkStep
<1>10. CASE ScanClaim(c)
  <2>1. /\ g \in FifoGroups /\ Candidate(c, k) /\ StateFor(c, k).state = "NONE"
        /\ SetState(c, {k}, StateBy(c, "CLAIMED")) /\ Take(c, k) /\ entries' = entries
    BY <1>10 DEF ScanClaim
  <2>2. InHand(c)' = InHand(c) \cup {k} /\ k \in entries
    BY <1>3, <1>6, <2>1 DEF Take, Candidate
  <2>3. consumed[g][k] = 0
    BY <1>5, <2>1, CandidateFresh
  <2>4. \A h \in Groups \ {g} : itemState'[h] = itemState[h]
    BY <2>1, SetStateAt DEF OnceInv
  <2>5. \A j \in Key : itemState'[g][j] = IF j = k THEN StateBy(c, "CLAIMED") ELSE itemState[g][j]
    BY <2>1, <2>2, SetStateAt DEF OnceInv
  <2>6. StateBy(c, "CLAIMED").state = "CLAIMED" /\ StateBy(c, "CLAIMED").instance = InstanceOf(c)
    BY DEF StateBy
  <2>7. \A j \in InHand(c)' : Entitled(c, j)' /\ consumed[g][j] = 0
    <3> SUFFICES ASSUME NEW j \in InHand(c)'
                 PROVE  Entitled(c, j)' /\ consumed[g][j] = 0
      OBVIOUS
    <3>1. CASE j = k
      BY <1>5, <2>1, <2>3, <2>5, <2>6, <3>1 DEF Entitled, StateFor
    <3>2. CASE j # k
      <4>1. j \in InHand(c) /\ j \in Key
        BY <2>2, <3>2, InHandKeys DEF OnceInv
      <4> QED
        BY <1>7, <2>1, <2>5, <3>2, <4>1 DEF Entitled, StateFor
    <3> QED
      BY <3>1, <3>2
  <2>8. \A j \in Key : LET s == itemState'[g][j]
                       IN  \/ s = itemState[g][j]
                           \/ /\ \/ j \in InHand(c)
                                 \/ g \in FifoGroups /\ StateFor(c, j).state = "NONE"
                              /\ consumed[g][j] = 0
                              /\ s.state = "NONE" \/ s.instance = InstanceOf(c)
    BY <2>1, <2>3, <2>5, <2>6
  <2> QED
    BY <1>1, <1>2, <1>4, <2>1, <2>2, <2>4, <2>7, <2>8, MarkStep
<1>11. CASE ScanClaimed(c)
  <2>1. CASE Reclaimable(c, StateFor(c, k))
    <3>1. /\ UNCHANGED itemVars /\ Take(c, k) /\ Candidate(c, k)
          /\ g \in FifoGroups /\ StateFor(c, k).state # "NONE"
      BY <1>11, <2>1 DEF ScanClaimed
    <3>2. StateFor(c, k).instance < groupSize[g]
      BY <1>5, <1>6, <3>1 DEF OnceInv, HolderInv, StateFor
    <3>3. StateFor(c, k).instance \in Nat /\ groupSize[g] \in Nat
      BY <1>5, <1>6, QueueAssumption DEF OnceInv, TypeOK, QueueTypeOK, ItemTypeOK, StateFor, ItemStates
    <3>4. Entitled(c, k)
      BY <2>1, <3>1, <3>2, <3>3 DEF Reclaimable, Entitled
    <3> QED
      BY <1>9, <3>1, <3>4
  <2>2. CASE ~Reclaimable(c, StateFor(c, k))
    BY <1>8, <1>11, <2>2 DEF ScanClaimed
  <2> QED
    BY <2>1, <2>2
<1>12. CASE ScanHash(c)
  <2>1. g \notin FifoGroups /\ Candidate(c, k) /\ UNCHANGED itemVars
    BY <1>12, Zenon DEF ScanHash
  <2>2. \/ Owns(InstanceOf(c), groupSize[g], k) /\ Take(c, k)
        \/ UNCHANGED dequeuedKeys
    BY <1>12, Zenon DEF ScanHash
  <2>3. CASE Owns(InstanceOf(c), groupSize[g], k) /\ Take(c, k)
    <3>1. Entitled(c, k)
      BY <1>2, <2>1, <2>3 DEF Entitled
    <3> QED
      BY <1>9, <2>1, <2>3, <3>1
  <2> QED
    BY <1>8, <2>1, <2>2, <2>3
<1> QED
  BY <1>8, <1>10, <1>11, <1>12 DEF CScan, ScanKey, ScanNewer, ScanInProgress, ScanSettled

(* commitTx marks what the transaction dequeued, and nothing else. *)
LEMMA FinishStep ==
  ASSUME OnceInv, TypeOK', NEW c \in Consumers, CFinish(c)
  PROVE  OnceInv'
<1> DEFINE g == GroupOf(c)
<1>1. OthersKeep(c) /\ WritersKeep /\ GroupsKeep /\ hash' = hash
  BY ConsumerKeeps DEF ConsumerStep
<1>2. /\ c \in Clients /\ pc \in [Clients -> ProducerSteps \cup ConsumerSteps]
      /\ pc[c] = "finish" /\ input' = input /\ consumed' = consumed
      /\ Running(c) /\ Running(c)'
      /\ input[c] \subseteq dequeuedKeys[c]
  BY <1>1 DEF CFinish, At, OnceInv, TypeOK, StepTypeOK, InstancesInv, driverVars, historyVars,
              Running, GroupsKeep, CommitInv, CommitFor, Clients
<1>3. CASE CanCommit(c)
  <2>1. /\ SetState(c, dequeuedKeys[c], StateBy(c, "PROCESSED"))
        /\ pc'[c] = "commit" /\ UNCHANGED <<entries, dequeuedKeys>>
    BY <1>2, <1>3 DEF CFinish, ConsumerCommitTx, Goto
  <2>2. InHand(c)' = InHand(c) /\ dequeuedKeys[c] \subseteq InHand(c) /\ InHand(c) \subseteq Key
    BY <1>2, <2>1, InHandKeys DEF InHand, OnceInv
  <2>3. \A j \in InHand(c) : Entitled(c, j) /\ consumed[g][j] = 0
    BY <1>2 DEF OnceInv, EntitledInv, FreshInv
  <2>4. \A h \in Groups \ {g} : itemState'[h] = itemState[h]
    BY <2>1, SetStateAt DEF OnceInv
  <2>5. \A j \in Key : itemState'[g][j] = IF j \in dequeuedKeys[c] \cap entries
                                          THEN StateBy(c, "PROCESSED") ELSE itemState[g][j]
    BY <2>1, SetStateAt DEF OnceInv
  <2>6. /\ StateBy(c, "PROCESSED").state = "PROCESSED"
        /\ StateBy(c, "PROCESSED").instance = InstanceOf(c)
    BY DEF StateBy
  <2>7. \A j \in InHand(c)' : Entitled(c, j)' /\ consumed[g][j] = 0
    <3> SUFFICES ASSUME NEW j \in InHand(c)
                 PROVE  Entitled(c, j)'
      BY <2>2, <2>3
    <3>1. Entitled(c, j) /\ j \in Key
      BY <2>2, <2>3
    <3>2. CASE g \in FifoGroups
      BY <2>5, <2>6, <3>1, <3>2 DEF Entitled, StateFor
    <3>3. CASE g \notin FifoGroups
      BY <1>1, <1>2, <3>1, <3>3 DEF Entitled, Owns, GroupsKeep
    <3> QED
      BY <3>2, <3>3
  <2>8. \A j \in Key : LET s == itemState'[g][j]
                       IN  \/ s = itemState[g][j]
                           \/ /\ \/ j \in InHand(c)
                                 \/ g \in FifoGroups /\ StateFor(c, j).state = "NONE"
                              /\ consumed[g][j] = 0
                              /\ s.state = "NONE" \/ s.instance = InstanceOf(c)
    BY <2>2, <2>3, <2>5, <2>6
  <2>9. CommitFor(c)'
    BY <1>2, <2>1, <2>2, <2>5, <2>6 DEF CommitFor, Processed, StateFor
  <2> QED
    BY <1>1, <1>2, <2>1, <2>2, <2>4, <2>7, <2>8, <2>9, MarkStep
<1>4. CASE ~CanCommit(c)
  <2>1. pc'[c] = "rollback" /\ UNCHANGED <<itemState, entries, dequeuedKeys>>
    BY <1>2, <1>4 DEF CFinish, Goto, itemVars, consumerVars
  <2>2. InHand(c)' = InHand(c) /\ CommitFor(c)'
    BY <1>2, <2>1 DEF InHand, CommitFor
  <2> QED
    BY <1>1, <1>2, <2>1, <2>2, QuietStep
<1> QED
  BY <1>3, <1>4

(* rollbackTx takes the marks back: a FIFO entry stays claimed by c, so nobody
   else gets it while c retries, and a hashed one is free for its owner. *)
LEMMA RollbackStep ==
  ASSUME OnceInv, TypeOK', NEW c \in Consumers, CRollback(c)
  PROVE  OnceInv'
<1> DEFINE g == GroupOf(c)
<1>1. OthersKeep(c) /\ WritersKeep /\ GroupsKeep /\ hash' = hash
  BY ConsumerKeeps DEF ConsumerStep
<1>2. /\ c \in Clients /\ pc \in [Clients -> ProducerSteps \cup ConsumerSteps]
      /\ pc[c] = "rollback" /\ input' = input /\ consumed' = consumed
      /\ Running(c) /\ Running(c)'
      /\ dequeuedKeys \in [Consumers -> SUBSET Key]
  BY <1>1 DEF CRollback, At, OnceInv, TypeOK, StepTypeOK, QueueTypeOK, ConsumerTypeOK,
              InstancesInv, driverVars, historyVars, Running, GroupsKeep, Clients
<1>3. pc'[c] = "abort" /\ entries' = entries /\ dequeuedKeys'[c] = {}
  BY <1>2 DEF CRollback, ConsumerRollbackTx, Goto
<1>4. InHand(c)' \subseteq InHand(c) /\ dequeuedKeys[c] \subseteq InHand(c) /\ InHand(c) \subseteq Key
  BY <1>2, <1>3, InHandKeys DEF InHand, OnceInv
<1>5. \A j \in InHand(c) : Entitled(c, j) /\ consumed[g][j] = 0
  BY <1>2 DEF OnceInv, EntitledInv, FreshInv
<1>6. CommitFor(c)'
  BY <1>3 DEF CommitFor
<1>7. ASSUME NEW s, SetState(c, dequeuedKeys[c], s),
             g \in FifoGroups => s.state # "NONE" /\ s.instance = InstanceOf(c),
             s.state = "NONE" \/ s.instance = InstanceOf(c)
      PROVE  OnceInv'
  <2>1. \A h \in Groups \ {g} : itemState'[h] = itemState[h]
    BY <1>7, SetStateAt DEF OnceInv
  <2>2. \A j \in Key : itemState'[g][j] = IF j \in dequeuedKeys[c] \cap entries
                                          THEN s ELSE itemState[g][j]
    BY <1>7, SetStateAt DEF OnceInv
  <2>3. \A j \in InHand(c)' : Entitled(c, j)' /\ consumed[g][j] = 0
    <3> SUFFICES ASSUME NEW j \in InHand(c)
                 PROVE  Entitled(c, j)'
      BY <1>4, <1>5
    <3>1. Entitled(c, j) /\ j \in Key
      BY <1>4, <1>5
    <3>2. CASE g \in FifoGroups
      BY <1>7, <2>2, <3>1, <3>2 DEF Entitled, StateFor
    <3>3. CASE g \notin FifoGroups
      BY <1>1, <1>2, <3>1, <3>3 DEF Entitled, Owns, GroupsKeep
    <3> QED
      BY <3>2, <3>3
  <2>4. \A j \in Key : LET t == itemState'[g][j]
                       IN  \/ t = itemState[g][j]
                           \/ /\ \/ j \in InHand(c)
                                 \/ g \in FifoGroups /\ StateFor(c, j).state = "NONE"
                              /\ consumed[g][j] = 0
                              /\ t.state = "NONE" \/ t.instance = InstanceOf(c)
    BY <1>4, <1>5, <1>7, <2>2
  <2> QED
    BY <1>1, <1>2, <1>3, <1>4, <1>6, <2>1, <2>3, <2>4, MarkStep
<1>8. /\ StateBy(c, "CLAIMED").state = "CLAIMED" /\ StateBy(c, "CLAIMED").instance = InstanceOf(c)
      /\ NoState.state = "NONE"
  BY DEF StateBy, NoState
<1>9. CASE g \in FifoGroups
  BY <1>7, <1>8, <1>9 DEF CRollback, ConsumerRollbackTx
<1>10. CASE g \notin FifoGroups /\ committed[c]
  BY <1>7, <1>8, <1>10 DEF CRollback, ConsumerRollbackTx
<1>11. CASE g \notin FifoGroups /\ ~committed[c]
  <2>1. itemState' = itemState
    BY <1>11 DEF CRollback, ConsumerRollbackTx
  <2> QED
    BY <1>1, <1>2, <1>3, <1>4, <1>6, <2>1, QuietStep
<1> QED
  BY <1>9, <1>10, <1>11

(* The commit of a transaction uses its input up: nobody else in the group
   has any of it, nobody had before, and all of it that is still there is
   marked. *)
LEMMA CommitStep ==
  ASSUME OnceInv, TypeOK', NEW c \in Consumers, CCommit(c)
  PROVE  OnceInv'
<1> DEFINE g == GroupOf(c)
<1>1. OthersKeep(c) /\ WritersKeep /\ GroupsKeep /\ hash' = hash
  BY ConsumerKeeps DEF ConsumerStep
<1>2. /\ c \in Clients /\ pc \in [Clients -> ProducerSteps \cup ConsumerSteps] /\ g \in Groups
      /\ pc[c] = "commit" /\ Running(c)
      /\ UNCHANGED <<input, itemState, entries, dequeuedKeys>>
      /\ consumed \in [Groups -> [Key -> Nat]]
  BY ConsumerParts DEF CCommit, At, OnceInv, TypeOK, StepTypeOK, HistoryTypeOK, InstancesInv,
     driverVars, queueVars, itemVars, consumerVars, Clients
<1>3. pc'[c] \in {"post", "rollback"}
  BY <1>2 DEF CCommit, Goto
<1>4. \A d \in Consumers : InHand(d)' = InHand(d)
  BY <1>1, <1>2, <1>3, InHandOthers DEF InHand
<1>5. CommitFor(c)'
  BY <1>3 DEF CommitFor
<1>6. CASE ~CanCommit(c)
  <2>1. consumed' = consumed
    BY <1>6 DEF CCommit
  <2> QED
    BY <1>1, <1>2, <1>4, <1>5, <2>1, QuietStep
<1>7. CASE CanCommit(c)
  <2>1. pc'[c] = "post"
    BY <1>2, <1>7 DEF CCommit, Goto
  <2>2. \A h \in Groups : \A k \in Key :
          consumed'[h][k] = IF h = g /\ k \in input[c] THEN consumed[h][k] + 1 ELSE consumed[h][k]
    BY <1>2, <1>7 DEF CCommit
  <2>3. input[c] \subseteq dequeuedKeys[c] /\ \A k \in dequeuedKeys[c] \cap entries : Processed(c, k)
    BY <1>2 DEF OnceInv, CommitInv, CommitFor
  <2>4. \A k \in input[c] : k \in InHand(c) /\ k \in Key /\ consumed[g][k] = 0
    BY <1>2, InHandKeys DEF InHand, OnceInv, FreshInv
  <2>5. InstancesInv'
    BY <1>1, <1>2 DEF OnceInv, InstancesInv, OthersKeep, GroupsKeep, Running
  <2>6. HolderInv'
    BY <1>1, <1>2 DEF OnceInv, HolderInv, GroupsKeep
  <2>7. EntitledInv'
    BY <1>1, <1>2, <1>4 DEF OnceInv, EntitledInv, Entitled, StateFor, Running, Owns, GroupsKeep
  <2>8. FreshInv'
    <3> SUFFICES ASSUME NEW d \in Consumers, NEW k \in InHand(d), pc'[d] # "post"
                 PROVE  consumed'[GroupOf(d)][k] = 0
      BY <1>4 DEF FreshInv
    <3>1. d # c /\ pc[d] # "post" /\ k \in Key /\ GroupOf(d) \in Groups
      BY <1>1, <2>1, InHandKeys, ConsumerParts DEF OthersKeep, OnceInv
    <3>2. consumed[GroupOf(d)][k] = 0
      BY <3>1 DEF OnceInv, FreshInv
    <3>3. GroupOf(d) = g => k \notin input[c]
      BY <2>4, <3>1, InHandDisjoint
    <3> QED
      BY <2>2, <3>1, <3>2, <3>3
  <2>9. MarkedInv'
    <3> SUFFICES ASSUME NEW h \in Groups, NEW k \in entries, consumed'[h][k] # 0
                 PROVE  itemState[h][k].state = "PROCESSED"
      BY <1>2 DEF MarkedInv
    <3>1. k \in Key
      BY DEF OnceInv, TypeOK, QueueTypeOK, ItemTypeOK
    <3>2. CASE h = g /\ k \in input[c]
      BY <2>3, <3>2 DEF Processed, StateFor
    <3>3. CASE ~(h = g /\ k \in input[c])
      BY <2>2, <3>1, <3>3 DEF OnceInv, MarkedInv
    <3> QED
      BY <3>2, <3>3
  <2>10. CommitInv'
    BY <1>1, <1>2, <1>5 DEF OnceInv, CommitInv, CommitFor, OthersKeep, Processed, StateFor
  <2>11. WritersInv' /\ UnbornInv'
    <3>1. \A h \in Groups : \A k \in Key : consumed'[h][k] = consumed[h][k] \/ k \in InHand(c)
      BY <2>2, <2>4
    <3> QED
      BY <1>1, <1>2, <1>4, <3>1, UnbornKept
  <2>12. AtMostOnce'
    <3> SUFFICES ASSUME NEW h \in Groups, NEW k \in Key PROVE consumed'[h][k] <= 1
      BY DEF AtMostOnce
    <3>1. consumed[h][k] <= 1
      BY DEF OnceInv, AtMostOnce
    <3> QED
      BY <2>2, <2>4, <3>1
  <2> QED
    BY <2>5, <2>6, <2>7, <2>8, <2>9, <2>10, <2>11, <2>12 DEF OnceInv
<1> QED
  BY <1>6, <1>7

(* Every step of a flowlet instance keeps the invariant. *)
LEMMA ConsumerOnce ==
  ASSUME OnceInv, TypeOK', NEW c \in Consumers, ConsumerStep(c)
  PROVE  OnceInv'
  BY QuietSteps, ScanSteps, FinishStep, RollbackStep, CommitStep DEF ConsumerStep

-----------------------------------------------------------------------------
(* The steps of everybody else. *)

(* Nobody has inserted key k yet. *)
Unborn(k) == k[1] > 2 * lastWriter \/ \E p \in Producers : ToInsert(p, k)

ConsumersKeep ==
  /\ UNCHANGED <<itemState, input, retry, dequeuedKeys, consumed, groupSize, detached>>
  /\ \A c \in Consumers : pc'[c] = pc[c]

(* A step that leaves the consumers alone, and inserts or hashes only keys
   that were not inserted before. *)
LEMMA WriterStep ==
  ASSUME OnceInv, TypeOK', ConsumersKeep, WritersInv',
         \A k \in Key : hash'[k] # hash[k] \/ k \in entries' \ entries => Unborn(k),
         \A k \in Key : Unborn(k)' => Unborn(k) /\ k \notin entries' \ entries
  PROVE  OnceInv'
<1>1. \A c \in Consumers : InHand(c)' = InHand(c) /\ InHand(c) \subseteq Key
  BY InHandKeys DEF ConsumersKeep, InHand, OnceInv
<1>2. \A k \in Key : Unborn(k) => /\ k \notin entries
                                  /\ \A c \in Consumers : k \notin InHand(c)
                                  /\ \A g \in Groups : consumed[g][k] = 0
  BY DEF OnceInv, UnbornInv, Unborn
<1>3. entries' \subseteq Key
  BY DEF TypeOK, QueueTypeOK, ItemTypeOK
<1>4. InstancesInv'
  BY DEF OnceInv, InstancesInv, ConsumersKeep, Running
<1>5. HolderInv'
  BY DEF OnceInv, HolderInv, ConsumersKeep
<1>6. EntitledInv'
  <2> SUFFICES ASSUME NEW c \in Consumers, NEW k \in InHand(c)
               PROVE  Entitled(c, k)'
    BY <1>1 DEF EntitledInv
  <2>1. hash'[k] = hash[k] /\ Entitled(c, k)
    BY <1>1, <1>2 DEF OnceInv, EntitledInv
  <2> QED
    BY <2>1 DEF Entitled, StateFor, Running, Owns, ConsumersKeep
<1>7. FreshInv'
  BY <1>1 DEF OnceInv, FreshInv, ConsumersKeep
<1>8. MarkedInv'
  <2> SUFFICES ASSUME NEW g \in Groups, NEW k \in entries', consumed[g][k] # 0
               PROVE  itemState[g][k].state = "PROCESSED"
    BY DEF MarkedInv, ConsumersKeep
  <2>1. k \in entries
    BY <1>2, <1>3
  <2> QED
    BY <2>1 DEF OnceInv, MarkedInv
<1>9. CommitInv'
  <2> SUFFICES ASSUME NEW c \in Consumers
               PROVE  CommitFor(c)'
    BY DEF CommitInv
  <2>1. CommitFor(c)
    BY DEF OnceInv, CommitInv
  <2>2. pc[c] = "commit" => dequeuedKeys[c] \cap entries' \subseteq entries
    BY <1>2, <1>3 DEF InHand
  <2> QED
    BY <2>1, <2>2 DEF CommitFor, ConsumersKeep, Processed, StateFor
<1>10. UnbornInv'
  <2> SUFFICES ASSUME NEW k \in Key, Unborn(k)'
               PROVE  /\ k \notin entries'
                      /\ \A c \in Consumers : k \notin InHand(c)'
                      /\ \A g \in Groups : consumed'[g][k] = 0
    BY DEF UnbornInv, Unborn
  <2> QED
    BY <1>1, <1>2 DEF ConsumersKeep
<1>11. AtMostOnce'
  BY DEF OnceInv, AtMostOnce, ConsumersKeep
<1> QED
  BY <1>4, <1>5, <1>6, <1>7, <1>8, <1>9, <1>10, <1>11 DEF OnceInv

(* A step after which every producer has what it had, or less. *)
LEMMA WriterQuiet ==
  ASSUME OnceInv, TypeOK', ConsumersKeep, UNCHANGED <<hash, lastWriter>>, entries' \subseteq entries,
         \A p \in Producers : writePointer'[p] = writePointer[p] \/ writePointer'[p] = NoTx,
         \A p \in Producers : \A k \in Key : ToInsert(p, k)' => ToInsert(p, k)
  PROVE  OnceInv'
<1>1. WritersInv'
  BY TephraAssumption DEF OnceInv, WritersInv, NoTx, TypeOK, TephraTypeOK
<1>2. \A k \in Key : Unborn(k)' => Unborn(k)
  BY DEF Unborn
<1> QED
  BY <1>1, <1>2, WriterStep

(* Every step of a generator flowlet keeps the invariant: its write pointer is
   new, and what it inserts has never been inserted. *)
LEMMA ProducerOnce ==
  ASSUME OnceInv, TypeOK', NEW p \in Producers, ProducerStep(p)
  PROVE  OnceInv'
<1> USE DEF tephraVars, queueVars, itemVars, producerVars, consumerVars, driverVars, historyVars,
            Goto, At
<1>1. /\ p \in Clients /\ \A q \in Producers : q \in Clients
      /\ \A c \in Consumers : c \in Clients /\ c # p
      /\ pc \in [Clients -> ProducerSteps \cup ConsumerSteps]
      /\ writePointer \in [Clients -> WritePointers \cup {NoTx}]
      /\ persisted \in [Producers -> 0 .. MaxEnqueue]
      /\ pending \in [Producers -> 0 .. MaxEnqueue]
      /\ lastWriter \in Nat /\ MaxEnqueue \in Nat
      /\ pc[p] # "idle" => writePointer[p] # NoTx
      /\ \A q \in Producers : writePointer[q] \in Nat
  BY TephraAssumption, QueueAssumption DEF Clients, OnceInv, TypeOK, StepTypeOK, TephraTypeOK,
     QueueTypeOK, ProducerTypeOK, WriterIds, NoTx
<1>2. WritersInv
  BY DEF OnceInv
<1>3. CASE PStart(p)
  <2>1. ConsumersKeep /\ UNCHANGED <<hash, entries, persisted>>
    BY <1>1, <1>3 DEF PStart, StartWriter, ProducerStartTx, ConsumersKeep
  <2>2. /\ lastWriter' = lastWriter + 1
        /\ writePointer' = [writePointer EXCEPT ![p] = 2 * (lastWriter + 1)]
        /\ pc' = [pc EXCEPT ![p] = "emit"]
    BY <1>3 DEF PStart, StartWriter
  <2>3. WritersInv'
    BY <1>1, <1>2, <2>2 DEF WritersInv
  <2>4. ASSUME NEW k \in Key, Unborn(k)' PROVE Unborn(k)
    <3>1. k[1] \in Nat
      BY KeyParts
    <3>2. CASE k[1] > 2 * lastWriter' \/ ToInsert(p, k)'
      BY <1>1, <2>2, <3>1, <3>2 DEF ToInsert, Unborn
    <3>3. ASSUME NEW q \in Producers \ {p}, ToInsert(q, k)' PROVE Unborn(k)
      BY <1>1, <2>1, <2>2, <3>3 DEF ToInsert, Unborn
    <3> QED
      BY <2>4, <3>2, <3>3 DEF Unborn
  <2> QED
    BY <2>1, <2>3, <2>4, WriterStep
<1>4. CASE PEmit(p)
  <2>1. ConsumersKeep /\ UNCHANGED <<hash, entries, lastWriter, writePointer>>
    BY <1>4 DEF PEmit, Enqueue, ConsumersKeep
  <2>2. \A q \in Producers : \A k \in Key : ToInsert(q, k)' => ToInsert(q, k)
    BY <1>4 DEF PEmit, Enqueue, ToInsert
  <2> QED
    BY <2>1, <2>2, WriterQuiet
<1>5. CASE PFail(p)
  <2>1. ConsumersKeep /\ UNCHANGED <<hash, entries, lastWriter, writePointer>>
    BY <1>1, <1>5 DEF PFail, ConsumersKeep
  <2>2. \A q \in Producers : \A k \in Key : ToInsert(q, k)' => ToInsert(q, k)
    BY <1>1, <1>5 DEF PFail, ToInsert
  <2> QED
    BY <2>1, <2>2, WriterQuiet
<1>6. CASE PFinish(p)
  <2>1. ConsumersKeep /\ UNCHANGED <<hash, entries, lastWriter, writePointer>>
    BY <1>1, <1>6 DEF PFinish, BeginPersist, ConsumersKeep
  <2>2. \A q \in Producers : \A k \in Key : ToInsert(q, k)' => ToInsert(q, k)
    BY <1>1, <1>6 DEF PFinish, BeginPersist, ToInsert
  <2> QED
    BY <2>1, <2>2, WriterQuiet
<1>7. CASE PPersist(p)
  <2> DEFINE j == <<writePointer[p], persisted[p]>>
  <2>1. /\ ConsumersKeep /\ UNCHANGED <<lastWriter, writePointer, pc>>
        /\ entries' = entries \cup {j}
        /\ persisted' = [persisted EXCEPT ![p] = @ + 1]
        /\ pc[p] = "persist"
    BY <1>7 DEF PPersist, PersistEntry, ConsumersKeep
  <2>2. j \in Key /\ hash \in [Key -> Hashes]
    <3>1. persisted[p] < pending[p]
      BY <1>7 DEF PPersist, PersistEntry
    <3>2. persisted[p] \in SeqIds
      BY <1>1, <3>1 DEF SeqIds
    <3>3. writePointer[p] \in WriterIds
      BY <2>1, ProducerTx DEF OnceInv, TypeOK
    <3> QED
      BY <3>2, <3>3 DEF Key, OnceInv, TypeOK, QueueTypeOK, ItemTypeOK
  <2>3. \A k \in Key : k # j => hash'[k] = hash[k]
    BY <1>7, <2>2 DEF PPersist, PersistEntry
  <2>4. Unborn(j)
    BY <1>1, <2>1 DEF Unborn, ToInsert
  <2>5. WritersInv'
    BY <1>2, <2>1 DEF WritersInv
  <2>6. ASSUME NEW k \in Key, Unborn(k)' PROVE Unborn(k) /\ k # j
    <3>1. k[1] \in Nat
      BY KeyParts
    <3>2. CASE k[1] > 2 * lastWriter'
      BY <1>1, <1>2, <2>1, <3>1, <3>2 DEF WritersInv, Unborn
    <3>3. CASE ToInsert(p, k)'
      <4>1. k[2] \in Nat /\ k[2] >= persisted[p] + 1
        BY <1>1, <2>1, <3>3, KeyParts DEF ToInsert
      <4> QED
        BY <1>1, <2>1, <3>3, <4>1 DEF ToInsert, Unborn
    <3>4. ASSUME NEW q \in Producers \ {p}, ToInsert(q, k)' PROVE Unborn(k) /\ k # j
      <4>1. ToInsert(q, k)
        BY <1>1, <2>1, <3>4 DEF ToInsert
      <4>2. k[1] # writePointer[p]
        BY <1>1, <1>2, <2>1, <4>1 DEF ToInsert, WritersInv
      <4> QED
        BY <4>1, <4>2 DEF Unborn
    <3> QED
      BY <2>6, <3>2, <3>3, <3>4 DEF Unborn
  <2> QED
    BY <2>1, <2>3, <2>4, <2>5, <2>6, WriterStep
<1>8. CASE PPersisted(p)
  <2>1. ConsumersKeep /\ UNCHANGED <<hash, entries, lastWriter, writePointer>>
    BY <1>1, <1>8 DEF PPersisted, EndPersist, ConsumersKeep
  <2>2. \A q \in Producers : \A k \in Key : ToInsert(q, k)' => ToInsert(q, k)
    BY <1>1, <1>8 DEF PPersisted, EndPersist, ToInsert
  <2> QED
    BY <2>1, <2>2, WriterQuiet
<1>9. CASE PCommit(p)
  <2>1. ConsumersKeep /\ UNCHANGED <<hash, entries, lastWriter, persisted>>
    BY <1>1, <1>9 DEF PCommit, EndTx, ConsumersKeep
  <2>2. \A q \in Producers : writePointer'[q] = writePointer[q] \/ writePointer'[q] = NoTx
    BY <1>1, <1>9 DEF PCommit, EndTx
  <2>3. \A q \in Producers : \A k \in Key : ToInsert(q, k)' => ToInsert(q, k)
    BY <1>1, <1>9 DEF PCommit, EndTx, ToInsert
  <2> QED
    BY <2>1, <2>2, <2>3, WriterQuiet
<1>10. CASE PRollback(p)
  <2>1. ConsumersKeep /\ UNCHANGED <<hash, lastWriter, writePointer>> /\ entries' \subseteq entries
    BY <1>1, <1>10 DEF PRollback, ProducerRollbackTx, ConsumersKeep
  <2>2. \A q \in Producers : \A k \in Key : ToInsert(q, k)' => ToInsert(q, k)
    BY <1>1, <1>10 DEF PRollback, ProducerRollbackTx, ToInsert
  <2> QED
    BY <2>1, <2>2, WriterQuiet
<1>11. CASE PAbort(p)
  <2>1. ConsumersKeep /\ UNCHANGED <<hash, entries, lastWriter, persisted>>
    BY <1>1, <1>11 DEF PAbort, EndTx, ConsumersKeep
  <2>2. \A q \in Producers : writePointer'[q] = writePointer[q] \/ writePointer'[q] = NoTx
    BY <1>1, <1>11 DEF PAbort, EndTx
  <2>3. \A q \in Producers : \A k \in Key : ToInsert(q, k)' => ToInsert(q, k)
    BY <1>1, <1>11 DEF PAbort, EndTx, ToInsert
  <2> QED
    BY <2>1, <2>2, <2>3, WriterQuiet
<1> QED
  BY <1>3, <1>4, <1>5, <1>6, <1>7, <1>8, <1>9, <1>10, <1>11 DEF ProducerStep

-----------------------------------------------------------------------------
(* The invariant holds throughout. *)

(* At the start nothing has been inserted, marked, taken or used up. *)
LEMMA InitOnce == Init => OnceInv
<1> SUFFICES ASSUME Init PROVE OnceInv
  OBVIOUS
<1> USE DEF Init, TephraInit, QueueInit
<1>1. TypeOK
  BY InitType
<1>2. \A c \in Consumers : c \in Clients /\ InHand(c) = {} /\ pc[c] = "idle"
  BY DEF Clients, InHand
<1>3. InstancesInv /\ EntitledInv /\ FreshInv /\ CommitInv
  BY <1>2 DEF InstancesInv, EntitledInv, FreshInv, CommitInv, CommitFor
<1>4. HolderInv /\ MarkedInv /\ AtMostOnce
  BY DEF HolderInv, MarkedInv, AtMostOnce, NoState
<1>5. WritersInv
  BY DEF WritersInv, NoTx, Clients
<1>6. UnbornInv
  BY <1>2 DEF UnbornInv
<1> QED
  BY <1>1, <1>3, <1>4, <1>5, <1>6 DEF OnceInv

(* Every step of the flow keeps the invariant. *)
LEMMA NextOnce == OnceInv /\ [Next]_vars => OnceInv'
<1> SUFFICES ASSUME OnceInv, [Next]_vars PROVE OnceInv'
  OBVIOUS
<1>1. TypeOK'
  BY NextType DEF OnceInv
<1>2. ASSUME NEW p \in Producers, ProducerStep(p) PROVE OnceInv'
  BY <1>1, <1>2, ProducerOnce
<1>3. ASSUME NEW c \in Consumers, ConsumerStep(c) PROVE OnceInv'
  BY <1>1, <1>3, ConsumerOnce
<1>4. ASSUME NEW c \in TimeoutProcs, Timeout(c) PROVE OnceInv'
  <2>1. ConsumersKeep /\ UNCHANGED <<hash, entries, lastWriter, writePointer, pc, persisted>>
    BY <1>4 DEF Timeout, TimeoutTx, ConsumersKeep, queueVars, itemVars, producerVars, consumerVars,
                driverVars, historyVars
  <2> QED
    BY <1>1, <2>1, WriterQuiet DEF ToInsert
<1>5. CASE UNCHANGED vars
  <2>1. ConsumersKeep /\ UNCHANGED <<hash, entries, lastWriter, writePointer, pc, persisted>>
    BY <1>5 DEF vars, tephraVars, ConsumersKeep, queueVars, itemVars, producerVars, consumerVars,
                driverVars, historyVars
  <2> QED
    BY <1>1, <2>1, WriterQuiet DEF ToInsert
<1> QED
  BY <1>2, <1>3, <1>4, <1>5 DEF Next

(* The inductive invariant holds in every reachable state, for any number of
   producers, groups, instances, transactions, retries and faults. *)
THEOREM OnceInvariant == Spec => []OnceInv
  BY InitOnce, NextOnce, PTL DEF Spec

(* No entry of the queue is used up by two committed transactions of a group,
   whatever the threads' interleaving, whichever transactions time out or fail
   to decode, and however often process methods fail and inputs are retried or
   ignored. *)
THEOREM UsedUpAtMostOnce == Spec => []AtMostOnce
<1>1. OnceInv => AtMostOnce
  BY DEF OnceInv
<1> QED
  BY <1>1, OnceInvariant, PTL

(* No two instances of a flowlet have the same entry in hand: the claims of a
   FIFO group and the hash of the others keep them apart. *)
THEOREM InputsExclusive == Spec => []ExclusiveInput
<1>1. OnceInv => ExclusiveInput
  <2> SUFFICES ASSUME OnceInv, NEW c \in Consumers, NEW d \in Consumers,
                      c # d, GroupOf(c) = GroupOf(d)
               PROVE  input[c] \cap input[d] = {}
    BY DEF ExclusiveInput
  <2>1. InHand(c) \cap InHand(d) = {}
    BY InHandDisjoint
  <2> QED
    BY <2>1 DEF InHand
<1> QED
  BY <1>1, OnceInvariant, PTL
=============================================================================
