--------------------------- MODULE QueueFlowSafety ---------------------------
(***************************************************************************)
(* What becomes of an entry, proved for all values of the constants: an    *)
(* entry that is not committed belongs to a transaction in progress, only  *)
(* entries that every group has used up leave the queue; as long as no     *)
(* transaction of a producer times out, nothing uncommitted is ever read   *)
(* and the flow implements ExactlyOnceQueue; and with one producer no      *)
(* consumer leaves an entry behind that is due to it.                      *)
(***************************************************************************)
EXTENDS QueueFlowProofs, FiniteSetTheorems

-----------------------------------------------------------------------------
(* Facts about states. *)

(* Types and disjointness, in the form most steps use. *)
LEMMA Basics ==
  ASSUME TypeOK
  PROVE  /\ \A p \in Producers : p \in Clients /\ p \notin Consumers
         /\ \A c \in Consumers : c \in Clients /\ c \notin Producers
         /\ pc \in [Clients -> ProducerSteps \cup ConsumerSteps]
         /\ writePointer \in [Clients -> WritePointers \cup {NoTx}]
         /\ \A c \in Clients : writePointer[c] \in Nat
         /\ \A p \in Producers : pc[p] # "idle" => writePointer[p] \in WriterIds
         /\ inProgress \subseteq Clients
         /\ lastWriter \in Nat /\ readPointer \in Nat
         /\ entries \subseteq Key /\ published \subseteq Key
         /\ persisted \in [Producers -> 0 .. MaxEnqueue]
         /\ lastEnqueueCount \in [Producers -> 0 .. MaxEnqueue]
         /\ commitTransaction \in [Producers -> WriterIds \cup {NoTx}]
         /\ input \in [Consumers -> SUBSET Key] /\ dequeuedKeys \in [Consumers -> SUBSET Key]
         /\ consumed \in [Groups -> [Key -> Nat]] /\ processedCount \in [Key -> Nat]
         /\ MaxEnqueue \in Nat
<1>1. WritePointers \cup {NoTx} \subseteq Nat
  BY KeyParts DEF NoTx
<1>2. 0 .. MaxTx \subseteq Nat /\ 0 .. NoTxInProgress \subseteq Nat
  OBVIOUS
<1> QED
  BY <1>1, <1>2, TephraAssumption, QueueAssumption
  DEF Clients, TypeOK, StepTypeOK, TephraTypeOK, QueueTypeOK, ItemTypeOK, ProducerTypeOK,
      ConsumerTypeOK, DriverTypeOK, HistoryTypeOK

(* A busy producer's key is not of anybody who is not busy. *)
LEMMA KeyPointer ==
  ASSUME NEW k \in Key
  PROVE  k[1] \in Nat /\ k[1] # NoTx /\ k[2] \in Nat /\ k = <<k[1], k[2]>>
  BY KeyParts DEF NoTx

-----------------------------------------------------------------------------
(* What the steps change. *)

(* The parts that only producers change. *)
ProducersSame ==
  /\ WritersKeep
  /\ UNCHANGED <<published, commitTransaction, lastEnqueueCount>>
  /\ inProgress' \cap Producers = inProgress \cap Producers

(* The manager's part in a step of c. *)
Manager(c) == StartReader(c) \/ EndTx(c) \/ UNCHANGED tephraVars

(* c may see entry k. *)
Visible(c, k) == k \in entries /\ ~Newer(c, k) /\ ~Hidden(c, k)

(* A step of a consumer changes nothing of the producers', removes only what
   the consumer has in hand, and takes only what its snapshot shows. *)
LEMMA ConsumerEffect ==
  ASSUME OnceInv, NEW c \in Consumers, ConsumerStep(c)
  PROVE  /\ ProducersSame
         /\ Manager(c)
         /\ entries' \subseteq entries /\ entries \ entries' \subseteq InHand(c)
         /\ \A k \in InHand(c)' : k \in InHand(c) \/ Visible(c, k)
<1> USE DEF tephraVars, queueVars, itemVars, producerVars, consumerVars, scanVars, driverVars,
            historyVars, At, Goto, Manager
<1>0. WritersKeep
  BY ConsumerKeeps
<1>1. /\ c \in Clients /\ c \notin Producers
      /\ pc \in [Clients -> ProducerSteps \cup ConsumerSteps]
      /\ input \in [Consumers -> SUBSET Key] /\ dequeuedKeys \in [Consumers -> SUBSET Key]
      /\ ~detached[c]
  BY Basics DEF OnceInv, InstancesInv
<1>2. CASE CStart(c)
  BY <1>0, <1>1, <1>2 DEF CStart, StartReader, ConsumerStartTx, ProducersSame, InHand
<1>3. CASE CBeginDequeue(c)
  BY <1>0, <1>1, <1>3 DEF CBeginDequeue, BeginDequeue, ProducersSame, InHand
<1>4. CASE CScan(c)
  <2>1. ProducersSame /\ Manager(c)
    BY <1>0, <1>4 DEF CScan, ProducersSame
  <2>2. entries' = entries
    BY <1>4 DEF CScan, ScanKey, ScanNewer, ScanInProgress, ScanSettled, ScanClaim, ScanClaimed, ScanHash
  <2>3. \/ dequeuedKeys' = dequeuedKeys
        \/ Take(c, cursor[c]) /\ Candidate(c, cursor[c])
    BY <1>4 DEF CScan, ScanKey, ScanNewer, ScanInProgress, ScanSettled, ScanClaim, ScanClaimed, ScanHash
  <2>4. pc[c] = "scan" /\ pc' = pc /\ input' = input
    BY <1>4 DEF CScan
  <2> QED
    BY <1>1, <2>1, <2>2, <2>3, <2>4 DEF Take, Candidate, Visible, InHand
<1>5. CASE CDequeued(c)
  BY <1>0, <1>1, <1>5 DEF CDequeued, EndDequeue, ProducersSame, InHand
<1>6. CASE CDecodeThrows(c)
  BY <1>0, <1>1, <1>6 DEF CDecodeThrows, EndDequeue, ProducersSame, InHand
<1>7. CASE CSuccess(c)
  BY <1>0, <1>1, <1>7 DEF CSuccess, Reclaim, ProducersSame, InHand
<1>8. CASE CFailure(c)
  BY <1>0, <1>1, <1>8 DEF CFailure, ProducersSame, InHand
<1>9. CASE CFinish(c)
  BY <1>0, <1>1, <1>9 DEF CFinish, ConsumerCommitTx, ProducersSame, InHand
<1>10. CASE CCommit(c)
  BY <1>0, <1>1, <1>10 DEF CCommit, EndTx, ProducersSame, InHand
<1>11. CASE CPost(c)
  BY <1>0, <1>1, <1>11 DEF CPost, ConsumerPostTxCommit, ResetEntry, ProducersSame, InHand
<1>12. CASE CRollback(c)
  BY <1>0, <1>1, <1>12 DEF CRollback, ConsumerRollbackTx, ProducersSame, InHand
<1>13. CASE CAbortIdle(c)
  BY <1>0, <1>1, <1>13 DEF CAbortIdle, EndTx, ResetEntry, ProducersSame, InHand
<1>14. CASE CAbortRetry(c)
  BY <1>0, <1>1, <1>14 DEF CAbortRetry, EndTx, ProducersSame, InHand
<1>15. CASE CAbortIgnore(c)
  BY <1>0, <1>1, <1>15 DEF CAbortIgnore, EndTx, ProducersSame, InHand
<1>16. CASE CIgnore(c)
  BY <1>0, <1>1, <1>16 DEF CIgnore, StartReader, ProducersSame, InHand
<1> QED
  BY <1>2, <1>3, <1>4, <1>5, <1>6, <1>7, <1>8, <1>9, <1>10, <1>11, <1>12, <1>13, <1>14, <1>15,
     <1>16 DEF ConsumerStep

(* What producer q goes by. *)
Same(q) ==
  /\ pc'[q] = pc[q] /\ writePointer'[q] = writePointer[q] /\ persisted'[q] = persisted[q]
  /\ commitTransaction'[q] = commitTransaction[q] /\ lastEnqueueCount'[q] = lastEnqueueCount[q]

(* A step of a producer leaves the consumers and the other producers alone. *)
LEMMA ProducerEffect ==
  ASSUME OnceInv, NEW p \in Producers, ProducerStep(p)
  PROVE  /\ ConsumersKeep /\ processedCount' = processedCount
         /\ \A q \in Producers \ {p} : Same(q)
         /\ StartWriter(p) \/ EndTx(p) \/ UNCHANGED tephraVars
<1> USE DEF tephraVars, queueVars, itemVars, producerVars, consumerVars, driverVars,
            historyVars, At, Goto, ConsumersKeep, Same
<1>1. /\ p \in Clients /\ \A q \in Producers : q \in Clients
      /\ \A c \in Consumers : c \in Clients /\ c # p
      /\ pc \in [Clients -> ProducerSteps \cup ConsumerSteps]
      /\ writePointer \in [Clients -> WritePointers \cup {NoTx}]
      /\ persisted \in [Producers -> 0 .. MaxEnqueue]
      /\ lastEnqueueCount \in [Producers -> 0 .. MaxEnqueue]
      /\ commitTransaction \in [Producers -> WriterIds \cup {NoTx}]
  BY Basics DEF OnceInv
<1>2. CASE PStart(p)
  BY <1>1, <1>2 DEF PStart, StartWriter, ProducerStartTx
<1>3. CASE PEmit(p)
  BY <1>1, <1>3 DEF PEmit, Enqueue
<1>4. CASE PFail(p)
  BY <1>1, <1>4 DEF PFail
<1>5. CASE PFinish(p)
  BY <1>1, <1>5 DEF PFinish, BeginPersist
<1>6. CASE PPersist(p)
  BY <1>1, <1>6 DEF PPersist, PersistEntry
<1>7. CASE PPersisted(p)
  BY <1>1, <1>7 DEF PPersisted, EndPersist
<1>8. CASE PCommit(p)
  BY <1>1, <1>8 DEF PCommit, EndTx
<1>9. CASE PRollback(p)
  BY <1>1, <1>9 DEF PRollback, ProducerRollbackTx
<1>10. CASE PAbort(p)
  BY <1>1, <1>10 DEF PAbort, EndTx
<1> QED
  BY <1>2, <1>3, <1>4, <1>5, <1>6, <1>7, <1>8, <1>9, <1>10 DEF ProducerStep

-----------------------------------------------------------------------------
(* What is in the queue and what is published. *)

WriterInv == BusyInv /\ WrittenInv /\ PublishedInv /\ AbortLeavesNothing

(* Consumers and timeouts only take entries away. *)
LEMMA WriterInvKept ==
  ASSUME WriterInv, ProducersSame, entries' \subseteq entries
  PROVE  WriterInv'
<1>1. \A q \in Producers : Same(q)
  BY DEF ProducersSame, WritersKeep, Same
<1>2. BusyInv'
  BY <1>1 DEF WriterInv, BusyInv, BusyFor, Same
<1>3. \A q \in Producers : UndoKeys(q)' = UndoKeys(q)
  BY <1>1 DEF Same, UndoKeys
<1>4. WrittenInv'
  BY <1>1, <1>3 DEF WriterInv, WrittenInv, WrittenFor, Same
<1>5. PublishedInv' /\ AbortLeavesNothing'
  BY <1>1 DEF WriterInv, PublishedInv, AbortLeavesNothing, Same, ProducersSame, WritersKeep
<1> QED
  BY <1>2, <1>4, <1>5 DEF WriterInv

(* An entry of p's is not there before p has inserted it. *)
LEMMA NotYetWritten ==
  ASSUME OnceInv, NEW p \in Producers, NEW k \in entries, k[1] = writePointer[p]
  PROVE  pc[p] # "emit" /\ (pc[p] = "persist" => k[2] < persisted[p])
<1>1. k \in Key /\ k[2] \in Nat /\ persisted[p] \in Nat
  BY Basics, KeyPointer DEF OnceInv
<1>2. ~ToInsert(p, k)
  BY <1>1 DEF OnceInv, UnbornInv
<1> QED
  BY <1>1, <1>2 DEF ToInsert

(* A producer's steps: one case per step, and under it one per conjunct. *)
LEMMA WriterInvStep ==
  ASSUME OnceInv, TypeOK', WriterInv, NEW p \in Producers, ProducerStep(p)
  PROVE  WriterInv'
<1> USE DEF tephraVars, queueVars, itemVars, producerVars, consumerVars, driverVars,
            historyVars, At, Goto
<1>0. /\ p \in Clients /\ \A q \in Producers : q \in Clients
      /\ pc \in [Clients -> ProducerSteps \cup ConsumerSteps]
      /\ writePointer \in [Clients -> WritePointers \cup {NoTx}]
      /\ persisted \in [Producers -> 0 .. MaxEnqueue]
      /\ lastEnqueueCount \in [Producers -> 0 .. MaxEnqueue]
      /\ commitTransaction \in [Producers -> WriterIds \cup {NoTx}]
      /\ lastWriter \in Nat /\ MaxEnqueue \in Nat
      /\ \A q \in Producers : writePointer[q] \in Nat
      /\ \A q \in Producers : pc[q] # "idle" => writePointer[q] \in WriterIds
      /\ entries \subseteq Key /\ entries' \subseteq Key /\ published \subseteq Key
  BY Basics DEF OnceInv, TypeOK, QueueTypeOK, ItemTypeOK
<1>1. \A q \in Producers \ {p} : Same(q)
  BY ProducerEffect
<1>2. BusyFor(p) /\ WrittenFor(p) /\ \A q \in Producers : BusyFor(q) /\ WrittenFor(q)
  BY DEF WriterInv, BusyInv, WrittenInv
<1>3. /\ \A q \in Producers : writePointer[q] <= 2 * lastWriter
      /\ \A q \in Producers \ {p} : writePointer[p] # NoTx => writePointer[p] # writePointer[q]
  BY DEF OnceInv, WritersInv
<1>4. \A q \in Producers \ {p} : BusyFor(q)'
  BY <1>1, <1>2 DEF Same, BusyFor
<1>5. ASSUME \A k \in entries' \ entries : k[1] = writePointer[p] /\ pc[p] # "idle",
             NEW q \in Producers \ {p}
      PROVE  WrittenFor(q)'
  <2> SUFFICES ASSUME NEW k \in entries', k[1] = writePointer'[q]
               PROVE  /\ pc'[q] = "commit" => k[2] < lastEnqueueCount'[q]
                      /\ pc'[q] = "rollback" => k \in UndoKeys(q)'
                      /\ pc'[q] # "abort"
    BY DEF WrittenFor
  <2>1. k \in entries
    BY <1>0, <1>1, <1>3, <1>5, KeyPointer DEF Same, NoTx
  <2>2. UndoKeys(q)' = UndoKeys(q)
    BY <1>1 DEF UndoKeys, Same
  <2> QED
    BY <1>1, <1>2, <2>1, <2>2 DEF WrittenFor, Same
<1>6. ASSUME \A k \in entries' \ entries : k[1] = writePointer[p] /\ pc[p] # "idle",
             BusyFor(p)', WrittenFor(p)'
      PROVE  BusyInv' /\ WrittenInv'
  BY <1>4, <1>5, <1>6 DEF BusyInv, WrittenInv
<1>7. ASSUME entries' \subseteq entries, published' = published, lastWriter' = lastWriter,
             writePointer' = writePointer
      PROVE  PublishedInv' /\ AbortLeavesNothing'
  BY <1>7 DEF WriterInv, PublishedInv, AbortLeavesNothing
<1>10. CASE PStart(p)
  <2>1. /\ pc[p] = "idle" /\ pc'[p] = "emit" /\ entries' = entries /\ published' = published
        /\ writePointer' = [writePointer EXCEPT ![p] = 2 * (lastWriter + 1)]
        /\ lastWriter' = lastWriter + 1 /\ commitTransaction'[p] = NoTx /\ persisted' = persisted
    BY <1>0, <1>10 DEF PStart, StartWriter, ProducerStartTx
  <2>2. BusyFor(p)'
    BY <1>2, <2>1 DEF BusyFor, ProducerSteps
  <2>3. WrittenFor(p)'
    BY <2>1 DEF WrittenFor
  <2>4. PublishedInv'
    <3> SUFFICES ASSUME NEW k \in published
                 PROVE  k[1] <= 2 * lastWriter' /\ \A q \in Producers : writePointer'[q] # k[1]
      BY <2>1 DEF PublishedInv
    <3>1. k[1] \in Nat /\ k[1] <= 2 * lastWriter /\ \A q \in Producers : writePointer[q] # k[1]
      BY <1>0, KeyPointer DEF WriterInv, PublishedInv
    <3> QED
      BY <1>0, <2>1, <3>1
  <2>5. AbortLeavesNothing'
    <3> SUFFICES ASSUME NEW k \in entries \ published
                 PROVE  \E q \in Producers : writePointer'[q] = k[1]
      BY <2>1 DEF AbortLeavesNothing
    <3>1. PICK q \in Producers : writePointer[q] = k[1]
      BY DEF WriterInv, AbortLeavesNothing
    <3>2. q # p
      BY <1>0, <1>2, <2>1, <3>1, KeyPointer DEF BusyFor
    <3> QED
      BY <1>0, <2>1, <3>1, <3>2
  <2> QED
    BY <1>6, <2>1, <2>2, <2>3, <2>4, <2>5 DEF WriterInv
<1>11. CASE PEmit(p)
  <2>1. UNCHANGED <<pc, entries, published, lastWriter, writePointer, persisted, commitTransaction,
                    lastEnqueueCount>>
    BY <1>11 DEF PEmit, Enqueue
  <2>2. BusyFor(p)' /\ WrittenFor(p)'
    BY <1>2, <2>1 DEF BusyFor, WrittenFor, UndoKeys
  <2> QED
    BY <1>6, <1>7, <2>1, <2>2 DEF WriterInv
<1>12. CASE PFail(p)
  <2>1. /\ UNCHANGED <<entries, published, lastWriter, writePointer, persisted, commitTransaction>>
        /\ pc[p] = "emit" /\ pc'[p] = "rollback"
    BY <1>0, <1>12 DEF PFail
  <2>2. BusyFor(p)'
    BY <1>2, <2>1 DEF BusyFor, ProducerSteps
  <2>3. WrittenFor(p)'
    BY <2>1, NotYetWritten DEF WrittenFor
  <2> QED
    BY <1>6, <1>7, <2>1, <2>2, <2>3 DEF WriterInv
<1>13. CASE PFinish(p)
  <2>1. /\ UNCHANGED <<entries, published, lastWriter, writePointer, persisted>>
        /\ pc[p] = "emit"
        /\ \/ pc'[p] = "rollback" /\ commitTransaction' = commitTransaction
           \/ pc'[p] = "persist" /\ commitTransaction'[p] = writePointer[p]
    BY <1>0, <1>13 DEF PFinish, BeginPersist
  <2>2. BusyFor(p)'
    BY <1>2, <2>1 DEF BusyFor, ProducerSteps
  <2>3. WrittenFor(p)'
    BY <2>1, NotYetWritten DEF WrittenFor
  <2> QED
    BY <1>6, <1>7, <2>1, <2>2, <2>3 DEF WriterInv
<1>14. CASE PPersist(p)
  <2> DEFINE j == <<writePointer[p], persisted[p]>>
  <2>1. /\ UNCHANGED <<pc, published, lastWriter, writePointer, commitTransaction>>
        /\ pc[p] = "persist" /\ entries' = entries \cup {j}
    BY <1>14 DEF PPersist, PersistEntry
  <2>2. BusyFor(p)'
    BY <1>2, <2>1 DEF BusyFor
  <2>3. WrittenFor(p)'
    BY <2>1 DEF WrittenFor
  <2>4. j[1] = writePointer[p]
    OBVIOUS
  <2>5. PublishedInv' /\ AbortLeavesNothing'
    <3> HIDE DEF j
    <3> QED BY <2>1, <2>4 DEF WriterInv, PublishedInv, AbortLeavesNothing
  <2>6. BusyInv' /\ WrittenInv'
    <3> HIDE DEF j
    <3> QED BY <1>6, <2>1, <2>2, <2>3, <2>4
  <2> QED
    BY <2>5, <2>6 DEF WriterInv
<1>15. CASE PPersisted(p)
  <2>1. /\ UNCHANGED <<entries, published, lastWriter, writePointer, commitTransaction>>
        /\ pc[p] = "persist" /\ pc'[p] = "commit"
        /\ lastEnqueueCount'[p] = persisted[p] /\ persisted'[p] = 0
    BY <1>0, <1>15 DEF PPersisted, EndPersist
  <2>2. BusyFor(p)'
    BY <1>2, <2>1 DEF BusyFor, ProducerSteps
  <2>3. WrittenFor(p)'
    BY <2>1, NotYetWritten DEF WrittenFor
  <2> QED
    BY <1>6, <1>7, <2>1, <2>2, <2>3 DEF WriterInv
<1>16. CASE PCommit(p)
  <2> DEFINE N == {writePointer[p]} \X (0 .. lastEnqueueCount[p] - 1)
  <2>1. /\ UNCHANGED <<entries, lastWriter, persisted, commitTransaction, lastEnqueueCount>>
        /\ pc[p] = "commit"
    BY <1>16 DEF PCommit, EndTx
  <2>2. CASE CanCommit(p)
    <3>1. /\ pc'[p] = "idle" /\ published' = published \cup N
          /\ writePointer' = [writePointer EXCEPT ![p] = NoTx]
      BY <1>0, <1>16, <2>2 DEF PCommit, EndTx
    <3>2. BusyFor(p)'
      BY <1>0, <1>2, <2>1, <3>1 DEF BusyFor, ProducerSteps
    <3>3. WrittenFor(p)'
      BY <3>1 DEF WrittenFor
    <3>4. PublishedInv'
      <4>1. \A k \in N : k[1] = writePointer[p]
        OBVIOUS
      <4>2. ASSUME NEW k \in published PROVE k[1] \in Nat /\ k[1] # NoTx
        BY <1>0, KeyPointer
      <4>3. writePointer[p] # NoTx
        BY <1>0, <2>1, KeyParts DEF NoTx
      <4> HIDE DEF N
      <4> QED
        BY <1>0, <1>3, <2>1, <3>1, <4>1, <4>2, <4>3 DEF PublishedInv, WriterInv
    <3>5. AbortLeavesNothing'
      <4> SUFFICES ASSUME NEW k \in entries, k \notin published'
                   PROVE  \E q \in Producers : writePointer'[q] = k[1]
        BY <2>1 DEF AbortLeavesNothing
      <4>1. PICK q \in Producers : writePointer[q] = k[1]
        BY <3>1 DEF WriterInv, AbortLeavesNothing
      <4>2. CASE q = p
        <5>1. k[2] < lastEnqueueCount[p] /\ k[2] \in Nat /\ k = <<k[1], k[2]>>
          BY <1>0, <1>2, <2>1, <4>1, <4>2, KeyPointer DEF WrittenFor
        <5>2. k \in N
          BY <1>0, <4>1, <4>2, <5>1
        <5> QED
          BY <3>1, <5>2
      <4> QED
        BY <1>0, <3>1, <4>1, <4>2
    <3> QED
      BY <1>6, <2>1, <3>2, <3>3, <3>4, <3>5 DEF WriterInv
  <2>3. CASE ~CanCommit(p)
    <3>1. pc'[p] = "rollback" /\ UNCHANGED <<published, writePointer>>
      BY <1>0, <1>16, <2>3 DEF PCommit
    <3>2. BusyFor(p)'
      BY <1>2, <2>1, <3>1 DEF BusyFor, ProducerSteps
    <3>3. WrittenFor(p)'
      <4> SUFFICES ASSUME NEW k \in entries, k[1] = writePointer[p]
                   PROVE  k \in UndoKeys(p)
        BY <2>1, <3>1 DEF WrittenFor, UndoKeys
      <4>1. k[2] < lastEnqueueCount[p] /\ k[2] \in Nat /\ k = <<k[1], k[2]>> /\ k[1] # NoTx
        BY <1>0, <1>2, <2>1, KeyPointer DEF WrittenFor
      <4>2. commitTransaction[p] = k[1]
        BY <1>2, <2>1 DEF BusyFor
      <4>3. UndoKeys(p) = {k[1]} \X (0 .. lastEnqueueCount[p] - 1)
        BY <4>1, <4>2 DEF UndoKeys
      <4> QED
        BY <1>0, <4>1, <4>3
    <3> QED
      BY <1>6, <1>7, <2>1, <3>1, <3>2, <3>3 DEF WriterInv
  <2> QED
    BY <2>2, <2>3
<1>17. CASE PRollback(p)
  <2>1. /\ UNCHANGED <<published, lastWriter, writePointer, persisted, commitTransaction>>
        /\ pc[p] = "rollback" /\ pc'[p] = "abort" /\ entries' = entries \ UndoKeys(p)
    BY <1>0, <1>17 DEF PRollback, ProducerRollbackTx
  <2>2. BusyFor(p)'
    BY <1>2, <2>1 DEF BusyFor, ProducerSteps
  <2>3. WrittenFor(p)'
    BY <1>2, <2>1 DEF WrittenFor
  <2> QED
    BY <1>6, <1>7, <2>1, <2>2, <2>3 DEF WriterInv
<1>18. CASE PAbort(p)
  <2>1. /\ UNCHANGED <<entries, published, lastWriter, persisted, commitTransaction>>
        /\ pc[p] = "abort" /\ pc'[p] = "idle"
        /\ writePointer' = [writePointer EXCEPT ![p] = NoTx]
    BY <1>0, <1>18 DEF PAbort, EndTx
  <2>2. BusyFor(p)'
    BY <1>0, <1>2, <2>1 DEF BusyFor, ProducerSteps
  <2>3. WrittenFor(p)'
    BY <2>1 DEF WrittenFor
  <2>4. PublishedInv'
    BY <1>0, <2>1, KeyPointer DEF WriterInv, PublishedInv
  <2>5. AbortLeavesNothing'
    BY <1>0, <1>2, <2>1 DEF WriterInv, AbortLeavesNothing, WrittenFor
  <2> QED
    BY <1>6, <2>1, <2>2, <2>3, <2>4, <2>5 DEF WriterInv
<1> QED
  BY <1>10, <1>11, <1>12, <1>13, <1>14, <1>15, <1>16, <1>17, <1>18 DEF ProducerStep

-----------------------------------------------------------------------------
(* Snapshots, and the entries of open transactions. *)

(* Every operation of the manager keeps open transactions hidden. *)
LEMMA SnapshotStep ==
  ASSUME TypeOK, SnapshotInv,
         \/ \E p \in Producers : StartWriter(p)
         \/ \E c \in Consumers : StartReader(c)
         \/ \E c \in Clients : EndTx(c) \/ TimeoutTx(c)
         \/ UNCHANGED tephraVars
  PROVE  SnapshotInv'
<1>0. /\ writePointer \in [Clients -> WritePointers \cup {NoTx}]
      /\ \A c \in Clients : writePointer[c] \in Nat
      /\ \A p \in Producers : p \in Clients /\ p \notin Consumers
      /\ \A c \in Consumers : c \in Clients
      /\ lastWriter \in Nat /\ readPointer \in Nat
      /\ snapshot \in [Consumers -> Snapshots]
      /\ \A c \in Consumers : snapshot[c].readPointer \in Nat
      /\ \A p \in inProgress : writePointer[p] # NoTx /\ p \in Clients
  <2>1. \A s \in Snapshots : s.readPointer \in Nat
    BY TephraAssumption DEF Snapshots, NoTxInProgress
  <2> QED
    BY <2>1, Basics DEF TypeOK, TephraTypeOK
<1>1. ASSUME NEW p \in Producers, StartWriter(p) PROVE SnapshotInv'
  BY <1>0, <1>1 DEF StartWriter, SnapshotInv
<1>2. ASSUME NEW c \in Consumers, StartReader(c) PROVE SnapshotInv'
  <2>1. /\ readPointer' = readPointer /\ lastWriter' = lastWriter
        /\ inProgress' \cap Producers = inProgress \cap Producers
        /\ \A p \in Producers : writePointer'[p] = writePointer[p]
        /\ snapshot'[c].readPointer = readPointer
        /\ snapshot'[c].inProgress = {writePointer[p] : p \in inProgress \cap Producers}
        /\ \A d \in Consumers \ {c} : snapshot'[d] = snapshot[d]
    BY <1>0, <1>2 DEF StartReader
  <2>2. \A d \in Clients : writePointer'[d] <= 2 * lastWriter' + 1
    BY <1>0, <1>2 DEF StartReader, SnapshotInv
  <2> QED
    BY <1>0, <2>1, <2>2 DEF SnapshotInv
<1>3. ASSUME NEW c \in Clients, EndTx(c) PROVE SnapshotInv'
  <2>1. /\ lastWriter' = lastWriter
        /\ inProgress' \subseteq inProgress
        /\ \A p \in inProgress' : writePointer'[p] = writePointer[p]
        /\ \A d \in Consumers : snapshot'[d] = snapshot[d] \/ snapshot'[d].readPointer = 0
    BY <1>0, <1>3 DEF EndTx, ForgetSnapshot, EmptySnapshot
  <2>2. readPointer' <= 2 * lastWriter' + 1
    BY <1>0, <1>3 DEF EndTx, SnapshotInv
  <2>3. \A d \in Clients : writePointer'[d] <= 2 * lastWriter' + 1
    BY <1>0, <1>3 DEF EndTx, SnapshotInv, NoTx
  <2>4. ASSUME NEW d \in Consumers, snapshot'[d].readPointer = 0, NEW p \in inProgress'
        PROVE  writePointer'[p] > snapshot'[d].readPointer
    BY <1>0, <2>1, <2>4 DEF NoTx
  <2> QED
    BY <1>0, <2>1, <2>2, <2>3, <2>4 DEF SnapshotInv
<1>4. ASSUME NEW c \in Clients, TimeoutTx(c) PROVE SnapshotInv'
  BY <1>4 DEF TimeoutTx, SnapshotInv
<1>5. CASE UNCHANGED tephraVars
  BY <1>5 DEF tephraVars, SnapshotInv
<1> QED
  BY <1>1, <1>2, <1>3, <1>4, <1>5

(* A consumer does not take what its snapshot hides. *)
LEMMA OpenInvConsumer ==
  ASSUME OnceInv, SnapshotInv, OpenInv, NEW c \in Consumers, ConsumerStep(c)
  PROVE  OpenInv'
<1> SUFFICES ASSUME NEW p \in inProgress' \cap Producers, NEW k \in Key, k[1] = writePointer'[p]
             PROVE  /\ \A d \in Consumers : k \notin InHand(d)'
                    /\ \/ pc'[p] = "persist" /\ k[2] < persisted'[p]
                       \/ pc'[p] = "commit" /\ k[2] < lastEnqueueCount'[p]
                       => k \in entries'
  BY DEF OpenInv, OpenFor
<1>1. /\ p \in inProgress \cap Producers /\ writePointer'[p] = writePointer[p] /\ pc'[p] = pc[p]
      /\ persisted'[p] = persisted[p] /\ lastEnqueueCount' = lastEnqueueCount
      /\ entries \ entries' \subseteq InHand(c)
      /\ \A j \in InHand(c)' : j \in InHand(c) \/ Visible(c, j)
  BY ConsumerEffect DEF ProducersSame, WritersKeep
<1>2. OpenFor(p)
  BY <1>1 DEF OpenInv
<1>3. ~Visible(c, k)
  <2>1. \/ k[1] \in snapshot[c].inProgress
        \/ k[1] > snapshot[c].readPointer
    BY <1>1 DEF SnapshotInv
  <2> QED
    BY <2>1 DEF Visible, Newer, Hidden
<1>4. k \notin InHand(c)'
  BY <1>1, <1>2, <1>3 DEF OpenFor
<1>5. \A d \in Consumers \ {c} : InHand(d)' = InHand(d)
  BY ConsumerKeeps, InHandOthers
<1> QED
  BY <1>1, <1>2, <1>4, <1>5 DEF OpenFor

(* What p's step leaves of the other producers' open transactions, and of the
   consumers. *)
LEMMA OpenInvProducer ==
  ASSUME OnceInv, TypeOK', WriterInv, OpenInv, NEW p \in Producers, ProducerStep(p)
  PROVE  OpenInv'
<1> USE DEF tephraVars, queueVars, itemVars, producerVars, consumerVars, driverVars,
            historyVars, At, Goto
<1>0. /\ p \in Clients /\ \A q \in Producers : q \in Clients
      /\ pc \in [Clients -> ProducerSteps \cup ConsumerSteps]
      /\ writePointer \in [Clients -> WritePointers \cup {NoTx}]
      /\ persisted \in [Producers -> 0 .. MaxEnqueue]
      /\ lastEnqueueCount \in [Producers -> 0 .. MaxEnqueue]
      /\ lastWriter \in Nat
  BY Basics DEF OnceInv
<1>1. \A c \in Consumers : InHand(c)' = InHand(c)
  BY ProducerEffect DEF ConsumersKeep, InHand
<1>2. \A q \in Producers \ {p} : Same(q)
  BY ProducerEffect
<1>3. inProgress' \subseteq inProgress \cup {p}
  BY ProducerEffect DEF StartWriter, EndTx
<1>4. \A k \in entries \ entries' : k[1] = writePointer[p] /\ k[1] # NoTx
  <2>1. CASE PRollback(p)
    <3>1. pc[p] = "rollback" /\ entries' = entries \ UndoKeys(p)
      BY <2>1 DEF PRollback, ProducerRollbackTx
    <3>2. commitTransaction[p] \in {NoTx, writePointer[p]}
      BY <3>1 DEF WriterInv, BusyInv, BusyFor
    <3>3. \A k \in UndoKeys(p) : k[1] = commitTransaction[p] /\ k[1] # NoTx
      BY DEF UndoKeys
    <3> QED
      BY <3>1, <3>2, <3>3
  <2>2. CASE ~PRollback(p)
    <3>1. entries \subseteq entries'
      BY <2>2 DEF ProducerStep, PStart, PEmit, PFail, PFinish, PPersist, PersistEntry, PPersisted,
                  PCommit, PAbort
    <3> QED
      BY <3>1
  <2> QED
    BY <2>1, <2>2
<1>5. ASSUME NEW q \in (inProgress' \cap Producers) \ {p} PROVE OpenFor(q)'
  <2>1. OpenFor(q) /\ Same(q)
    BY <1>2, <1>3 DEF OpenInv
  <2>2. writePointer[p] # writePointer[q] \/ writePointer[p] = NoTx
    BY DEF OnceInv, WritersInv
  <2> QED
    BY <1>1, <1>4, <2>1, <2>2 DEF OpenFor, Same
<1>6. ASSUME p \in inProgress' PROVE OpenFor(p)'
  <2> SUFFICES ASSUME NEW k \in Key, k[1] = writePointer'[p]
               PROVE  /\ \A c \in Consumers : k \notin InHand(c)
                      /\ \/ pc'[p] = "persist" /\ k[2] < persisted'[p]
                         \/ pc'[p] = "commit" /\ k[2] < lastEnqueueCount'[p]
                         => k \in entries'
    BY <1>1 DEF OpenFor
  <2>0. k[1] \in Nat /\ k[2] \in Nat /\ k = <<k[1], k[2]>> /\ k[1] # NoTx
    BY KeyPointer
  <2>1. CASE PStart(p)
    <3>1. pc'[p] = "emit" /\ writePointer'[p] = 2 * (lastWriter + 1)
      BY <1>0, <2>1 DEF PStart, StartWriter
    <3>2. k[1] > 2 * lastWriter
      BY <1>0, <3>1
    <3> QED
      BY <3>1, <3>2 DEF OnceInv, UnbornInv
  <2>2. CASE ~PStart(p)
    <3>1. p \in inProgress /\ writePointer'[p] = writePointer[p]
      <4>1. ~EndTx(p)
        BY <1>6 DEF EndTx
      <4>2. ~StartWriter(p) \/ UNCHANGED tephraVars
        <5>1. UNCHANGED tephraVars \/ EndTx(p)
          BY <2>2 DEF ProducerStep, PEmit, PFail, PFinish, PPersist, PPersisted, PCommit,
                      PRollback, PAbort
        <5> QED
          BY <4>1, <5>1
      <4> QED
        BY <1>6, <4>1, <4>2, ProducerEffect
    <3>2. OpenFor(p)
      BY <3>1 DEF OpenInv
    <3>3. \A c \in Consumers : k \notin InHand(c)
      BY <3>1, <3>2 DEF OpenFor
    <3>4. CASE PEmit(p) \/ PFail(p) \/ PFinish(p) \/ PRollback(p) \/ PAbort(p) \/ PCommit(p)
      <4>1. \/ pc'[p] \in {"emit", "rollback", "abort", "idle"}
            \/ pc[p] = "emit" /\ persisted' = persisted /\ pc'[p] = "persist"
        BY <1>0, <3>4 DEF PEmit, Enqueue, PFail, PFinish, BeginPersist, PRollback, PAbort, PCommit
      <4>2. pc[p] = "emit" => persisted[p] = 0
        BY DEF WriterInv, BusyInv, BusyFor
      <4> QED
        BY <2>0, <3>3, <4>1, <4>2
    <3>5. CASE PPersist(p)
      <4>1. /\ pc' = pc /\ pc[p] = "persist" /\ persisted'[p] = persisted[p] + 1
            /\ entries' = entries \cup {<<writePointer[p], persisted[p]>>}
        BY <1>0, <3>5 DEF PPersist, PersistEntry
      <4>2. k[2] < persisted'[p] => k[2] < persisted[p] \/ k[2] = persisted[p]
        BY <1>0, <2>0, <4>1
      <4> QED
        BY <2>0, <3>1, <3>2, <3>3, <4>1, <4>2 DEF OpenFor
    <3>6. CASE PPersisted(p)
      <4>1. /\ pc[p] = "persist" /\ pc'[p] = "commit" /\ entries' = entries
            /\ lastEnqueueCount'[p] = persisted[p]
        BY <1>0, <3>6 DEF PPersisted, EndPersist
      <4> QED
        BY <3>1, <3>2, <3>3, <4>1 DEF OpenFor
    <3> QED
      BY <2>2, <3>4, <3>5, <3>6 DEF ProducerStep
  <2> QED
    BY <2>1, <2>2
<1> QED
  BY <1>5, <1>6 DEF OpenInv
-----------------------------------------------------------------------------
(* What is in hand, what is counted, and what may leave the queue. *)

(* Only a commit uses entries up, and only those of the input. *)
LEMMA ConsumedStep ==
  ASSUME OnceInv, NEW c \in Consumers, ConsumerStep(c)
  PROVE  \/ consumed' = consumed /\ (pc'[c] = "post" => pc[c] = "post" /\ UNCHANGED <<input, pc>>)
         \/ /\ CCommit(c) /\ pc[c] = "commit" /\ pc'[c] = "post" /\ input' = input
            /\ \A g \in Groups : \A k \in Key :
                 consumed'[g][k] = consumed[g][k] + IF g = GroupOf(c) /\ k \in input[c] THEN 1 ELSE 0
<1> USE DEF tephraVars, queueVars, itemVars, producerVars, consumerVars, scanVars, driverVars,
            historyVars, At, Goto
<1>1. /\ c \in Clients /\ GroupOf(c) \in Groups
      /\ pc \in [Clients -> ProducerSteps \cup ConsumerSteps]
      /\ consumed \in [Groups -> [Key -> Nat]]
  BY Basics, ConsumerParts DEF OnceInv
<1>2. CASE CCommit(c)
  <2>1. CASE CanCommit(c)
    <3>1. /\ pc[c] = "commit" /\ pc'[c] = "post" /\ input' = input
          /\ consumed' = [consumed EXCEPT ![GroupOf(c)] =
               [k \in Key |-> consumed[GroupOf(c)][k] + IF k \in input[c] THEN 1 ELSE 0]]
      BY <1>1, <1>2, <2>1 DEF CCommit
    <3>2. \A g \in Groups : \A k \in Key :
            consumed'[g][k] = consumed[g][k] + IF g = GroupOf(c) /\ k \in input[c] THEN 1 ELSE 0
      BY <1>1, <3>1
    <3> QED
      BY <1>2, <3>1, <3>2
  <2>2. CASE ~CanCommit(c)
    BY <1>1, <1>2, <2>2 DEF CCommit
  <2> QED
    BY <2>1, <2>2
<1>3. CASE CScan(c)
  BY <1>1, <1>3 DEF CScan
<1>4. CASE CDequeued(c) \/ CDecodeThrows(c)
  BY <1>1, <1>4 DEF CDequeued, CDecodeThrows
<1>5. CASE CStart(c) \/ CBeginDequeue(c) \/ CSuccess(c) \/ CFailure(c) \/ CFinish(c)
  BY <1>1, <1>5 DEF CStart, CBeginDequeue, CSuccess, CFailure, CFinish
<1>6. CASE CPost(c) \/ CRollback(c) \/ CAbortIdle(c) \/ CAbortRetry(c) \/ CAbortIgnore(c) \/ CIgnore(c)
  BY <1>1, <1>6 DEF CPost, CRollback, CAbortIdle, CAbortRetry, CAbortIgnore, CIgnore
<1> QED
  BY <1>2, <1>3, <1>4, <1>5, <1>6 DEF ConsumerStep

(* What a transaction holds when it ends is its input. *)
LEMMA HandInvConsumer ==
  ASSUME OnceInv, HandInv, NEW c \in Consumers, ConsumerStep(c)
  PROVE  HandInv'
<1> USE DEF tephraVars, queueVars, itemVars, producerVars, consumerVars, scanVars, driverVars,
            historyVars, At, Goto
<1>1. /\ c \in Clients /\ \A d \in Consumers : GroupOf(d) \in Groups
      /\ pc \in [Clients -> ProducerSteps \cup ConsumerSteps]
      /\ input \in [Consumers -> SUBSET Key] /\ dequeuedKeys \in [Consumers -> SUBSET Key]
      /\ consumed \in [Groups -> [Key -> Nat]]
      /\ ~detached[c]
  BY Basics, ConsumerParts DEF OnceInv, InstancesInv
<1>2. HandFor(c)
  BY DEF HandInv
<1>3. \A g \in Groups : \A k \in Key : consumed[g][k] # 0 => consumed'[g][k] # 0
  BY <1>1, ConsumedStep, SMTT(30)
<1>4. ASSUME NEW d \in Consumers \ {c} PROVE HandFor(d)'
  <2>1. pc'[d] = pc[d] /\ input'[d] = input[d] /\ dequeuedKeys'[d] = dequeuedKeys[d]
    BY ConsumerKeeps DEF OthersKeep
  <2> QED
    BY <1>1, <1>3, <2>1 DEF HandInv, HandFor
<1>5. pc'[c] = "post" => \A k \in input'[c] : consumed'[GroupOf(c)][k] # 0
  BY <1>1, <1>2, ConsumedStep DEF HandFor
<1>6. pc'[c] \in {"process", "finish", "commit", "post"} => dequeuedKeys'[c] \subseteq input'[c]
  <2>1. CASE CStart(c)
    BY <1>1, <2>1 DEF CStart, ConsumerStartTx
  <2>2. CASE CBeginDequeue(c) \/ CScan(c) \/ CDecodeThrows(c) \/ CFailure(c)
    BY <1>1, <2>2 DEF CBeginDequeue, CScan, CDecodeThrows, CFailure
  <2>3. CASE CDequeued(c)
    BY <1>1, <2>3 DEF CDequeued, EndDequeue
  <2>4. CASE CSuccess(c)
    BY <1>1, <1>2, <2>4 DEF CSuccess, Reclaim, HandFor
  <2>5. CASE CFinish(c)
    BY <1>1, <1>2, <2>5 DEF CFinish, ConsumerCommitTx, HandFor
  <2>6. CASE CCommit(c)
    BY <1>1, <1>2, <2>6 DEF CCommit, HandFor
  <2>7. CASE CPost(c) \/ CRollback(c) \/ CAbortIdle(c) \/ CAbortRetry(c) \/ CAbortIgnore(c)
    BY <1>1, <2>7 DEF CPost, CRollback, CAbortIdle, CAbortRetry, CAbortIgnore
  <2>8. CASE CIgnore(c)
    BY <1>1, <2>8 DEF CIgnore
  <2> QED
    BY <2>1, <2>2, <2>3, <2>4, <2>5, <2>6, <2>7, <2>8 DEF ConsumerStep
<1> QED
  BY <1>4, <1>5, <1>6 DEF HandInv, HandFor

(* evict: the count of an entry is raised once for every group that is done
   with it. *)
LEMMA CountInvConsumer ==
  ASSUME OnceInv, HandInv, CountInv, NEW c \in Consumers, ConsumerStep(c)
  PROVE  CountInv'
<1> USE DEF tephraVars, queueVars, itemVars, producerVars, consumerVars, scanVars, driverVars,
            historyVars, At, Goto
<1>1. /\ c \in Clients /\ \A d \in Consumers : GroupOf(d) \in Groups /\ d \in Clients
      /\ pc \in [Clients -> ProducerSteps \cup ConsumerSteps]
      /\ input \in [Consumers -> SUBSET Key] /\ dequeuedKeys \in [Consumers -> SUBSET Key]
      /\ consumed \in [Groups -> [Key -> Nat]] /\ processedCount \in [Key -> Nat]
  BY Basics, ConsumerParts DEF OnceInv
<1>2. \A d \in Consumers \ {c} : pc'[d] = pc[d] /\ input'[d] = input[d]
  BY ConsumerKeeps DEF OthersKeep
<1> SUFFICES ASSUME NEW k \in Key
             PROVE  processedCount'[k] <= Cardinality(DoneGroups(k)')
  BY DEF CountInv
<1>3. /\ DoneGroups(k) \subseteq Groups /\ IsFiniteSet(Groups)
      /\ processedCount[k] \in Nat /\ processedCount[k] <= Cardinality(DoneGroups(k))
  BY <1>1, QueueAssumption DEF DoneGroups, CountInv
<1>4. IsFiniteSet(DoneGroups(k)) /\ Cardinality(DoneGroups(k)) \in Nat
  BY <1>3, FS_Subset, FS_CardinalityType
<1>5. CASE CPost(c)
  <2>1. /\ pc[c] = "post" /\ pc'[c] = "idle" /\ consumed' = consumed
        /\ processedCount'[k] = processedCount[k]
              + IF k \in dequeuedKeys[c] \cap entries THEN 1 ELSE 0
    BY <1>1, <1>5 DEF CPost, ConsumerPostTxCommit
  <2>2. HandFor(c)
    BY DEF HandInv
  <2>3. \A g \in DoneGroups(k) : g \in DoneGroups(k)'
    BY <1>1, <1>2, <2>1 DEF DoneGroups, Posted
  <2>4. DoneGroups(k)' \subseteq Groups
    BY DEF DoneGroups
  <2>5. IsFiniteSet(DoneGroups(k)') /\ Cardinality(DoneGroups(k)') \in Nat
    BY <1>3, <2>4, FS_Subset, FS_CardinalityType
  <2>6. CASE k \in dequeuedKeys[c]
    <3>1. k \in input[c] /\ consumed[GroupOf(c)][k] # 0
      BY <2>1, <2>2, <2>6 DEF HandFor
    <3>2. GroupOf(c) \notin DoneGroups(k)
      BY <2>1, <3>1 DEF DoneGroups, Posted
    <3>3. \A d \in Consumers \ {c} : GroupOf(d) = GroupOf(c) => k \notin input[d]
      BY <3>1, InHandDisjoint DEF InHand
    <3>4. GroupOf(c) \in DoneGroups(k)'
      BY <1>1, <1>2, <2>1, <3>1, <3>3 DEF DoneGroups, Posted
    <3>5. DoneGroups(k) \cup {GroupOf(c)} \subseteq DoneGroups(k)'
      BY <2>3, <3>4
    <3>6. Cardinality(DoneGroups(k) \cup {GroupOf(c)}) = Cardinality(DoneGroups(k)) + 1
      BY <1>4, <3>2, FS_AddElement
    <3>7. Cardinality(DoneGroups(k) \cup {GroupOf(c)}) <= Cardinality(DoneGroups(k)')
      BY <2>5, <3>5, FS_Subset
    <3> QED
      BY <1>3, <1>4, <2>1, <2>5, <3>6, <3>7
  <2>7. CASE k \notin dequeuedKeys[c]
    <3>1. Cardinality(DoneGroups(k)) <= Cardinality(DoneGroups(k)')
      <4>1. DoneGroups(k) \subseteq DoneGroups(k)'
        BY <2>3
      <4> QED
        BY <2>5, <4>1, FS_Subset
    <3> QED
      BY <1>3, <1>4, <2>1, <2>5, <2>7, <3>1
  <2> QED
    BY <2>6, <2>7
<1>6. CASE ~CPost(c)
  <2>1. processedCount' = processedCount
    BY <1>6 DEF ConsumerStep, CStart, CBeginDequeue, CScan, ScanKey, ScanNewer, ScanInProgress,
                ScanSettled, ScanClaim, ScanClaimed, ScanHash, CDequeued, CDecodeThrows, CSuccess,
                CFailure, CFinish, ConsumerCommitTx, CCommit, CRollback, ConsumerRollbackTx,
                CAbortIdle, CAbortRetry, CAbortIgnore, CIgnore
  <2>2. DoneGroups(k)' = DoneGroups(k)
    <3>1. CASE CCommit(c) /\ pc[c] = "commit" /\ pc'[c] = "post" /\ input' = input
               /\ \A g \in Groups : \A j \in Key :
                    consumed'[g][j] = consumed[g][j] + IF g = GroupOf(c) /\ j \in input[c] THEN 1 ELSE 0
      <4>1. CASE k \in input[c]
        <5>1. consumed[GroupOf(c)][k] = 0
          BY <3>1, <4>1 DEF OnceInv, FreshInv, InHand
        <5>2. GroupOf(c) \notin DoneGroups(k)'
          BY <3>1, <4>1 DEF DoneGroups, Posted
        <5>3. ASSUME NEW g \in Groups \ {GroupOf(c)} PROVE g \in DoneGroups(k)' <=> g \in DoneGroups(k)
          <6>1. consumed'[g][k] = consumed[g][k]
            BY <1>1, <3>1
          <6>2. \A d \in Consumers : GroupOf(d) = g => (Posted(d, k)' <=> Posted(d, k))
            BY <1>2 DEF Posted
          <6> QED
            BY <6>1, <6>2 DEF DoneGroups
        <5>4. GroupOf(c) \notin DoneGroups(k)
          BY <5>1 DEF DoneGroups
        <5>5. DoneGroups(k) \subseteq Groups /\ DoneGroups(k)' \subseteq Groups
          BY DEF DoneGroups
        <5> QED
          BY <5>2, <5>3, <5>4, <5>5
      <4>2. CASE k \notin input[c]
        <5>1. \A d \in Consumers : Posted(d, k)' <=> Posted(d, k)
          BY <1>2, <3>1, <4>2 DEF Posted
        <5>2. \A g \in Groups : consumed'[g][k] = consumed[g][k]
          BY <1>1, <3>1, <4>2
        <5> QED
          BY <5>1, <5>2 DEF DoneGroups
      <4> QED
        BY <4>1, <4>2
    <3>2. CASE consumed' = consumed /\ (pc'[c] = "post" => pc[c] = "post" /\ UNCHANGED <<input, pc>>)
      <4>1. pc[c] # "post"
        <5>1. CASE CStart(c) \/ CBeginDequeue(c) \/ CScan(c) \/ CDequeued(c) \/ CDecodeThrows(c)
          BY <5>1 DEF CStart, CBeginDequeue, CScan, CDequeued, CDecodeThrows
        <5>2. CASE CSuccess(c) \/ CFailure(c) \/ CFinish(c) \/ CCommit(c) \/ CRollback(c)
          BY <5>2 DEF CSuccess, CFailure, CFinish, CCommit, CRollback
        <5>3. CASE CAbortIdle(c) \/ CAbortRetry(c) \/ CAbortIgnore(c) \/ CIgnore(c)
          BY <5>3 DEF CAbortIdle, CAbortRetry, CAbortIgnore, CIgnore
        <5> QED
          BY <1>6, <5>1, <5>2, <5>3 DEF ConsumerStep
      <4>2. \A d \in Consumers : Posted(d, k)' <=> Posted(d, k)
        BY <1>2, <3>2, <4>1 DEF Posted
      <4> QED
        BY <3>2, <4>2 DEF DoneGroups
    <3> QED
      BY <3>1, <3>2, ConsumedStep
  <2> QED
    BY <1>3, <2>1, <2>2
<1> QED
  BY <1>5, <1>6

(* A consumer removes only what every group has used up. *)
LEMMA RemovedInvConsumer ==
  ASSUME OnceInv, HandInv, HandInv', CountInv, CountInv', RemovedOnlyWhenConsumed,
         NEW c \in Consumers, ConsumerStep(c)
  PROVE  RemovedOnlyWhenConsumed'
<1>1. /\ published' = published /\ published \subseteq Key
      /\ consumed \in [Groups -> [Key -> Nat]]
      /\ \A d \in Consumers : GroupOf(d) \in Groups
  BY Basics, ConsumerParts, ConsumerEffect DEF OnceInv, ProducersSame
<1>2. \A g \in Groups : \A k \in Key : consumed[g][k] >= 1 => consumed'[g][k] >= 1
  BY <1>1, ConsumedStep
<1> SUFFICES ASSUME NEW k \in entries \ entries', k \in published, NEW g \in Groups
             PROVE  consumed'[g][k] >= 1
  BY <1>1, <1>2 DEF RemovedOnlyWhenConsumed
<1>3. CPost(c)
  <2> USE DEF tephraVars, queueVars, itemVars, producerVars, consumerVars, scanVars, driverVars,
              historyVars
  <2>1. CASE CScan(c)
    BY <2>1 DEF CScan, ScanKey, ScanNewer, ScanInProgress, ScanSettled, ScanClaim, ScanClaimed, ScanHash
  <2>2. CASE CFinish(c)
    BY <2>2 DEF CFinish, ConsumerCommitTx
  <2>3. CASE CRollback(c)
    BY <2>3 DEF CRollback, ConsumerRollbackTx
  <2>4. CASE CStart(c) \/ CBeginDequeue(c) \/ CDequeued(c) \/ CDecodeThrows(c) \/ CSuccess(c) \/ CFailure(c)
    BY <2>4 DEF CStart, CBeginDequeue, CDequeued, CDecodeThrows, CSuccess, CFailure
  <2>5. CASE CCommit(c) \/ CAbortIdle(c) \/ CAbortRetry(c) \/ CAbortIgnore(c) \/ CIgnore(c)
    BY <2>5 DEF CCommit, CAbortIdle, CAbortRetry, CAbortIgnore, CIgnore
  <2> QED
    BY <2>1, <2>2, <2>3, <2>4, <2>5 DEF ConsumerStep
<1>4. k \in Key /\ processedCount'[k] >= Cardinality(Groups)
  BY <1>1, <1>3 DEF CPost, ConsumerPostTxCommit
<1>5. /\ DoneGroups(k)' \subseteq Groups /\ IsFiniteSet(Groups)
      /\ processedCount'[k] <= Cardinality(DoneGroups(k)')
  BY <1>4, QueueAssumption DEF DoneGroups, CountInv
<1>6. processedCount'[k] \in Nat
  <2>1. processedCount[k] \in Nat
    BY <1>4, Basics DEF OnceInv
  <2> QED
    BY <1>3, <1>4, <2>1 DEF CPost, ConsumerPostTxCommit
<1>7. DoneGroups(k)' = Groups
  <2>1. /\ IsFiniteSet(DoneGroups(k)') /\ Cardinality(DoneGroups(k)') <= Cardinality(Groups)
        /\ Cardinality(Groups) = Cardinality(DoneGroups(k)') => Groups = DoneGroups(k)'
    BY <1>5, FS_Subset
  <2>2. Cardinality(DoneGroups(k)') \in Nat /\ Cardinality(Groups) \in Nat
    BY <1>5, <2>1, FS_CardinalityType
  <2> QED
    BY <1>4, <1>5, <1>6, <2>1, <2>2
<1>8. consumed'[g][k] # 0
  BY <1>7 DEF DoneGroups
<1> QED
  BY <1>1, <1>3, <1>4, <1>8 DEF CPost, historyVars

(* A producer publishes what it has written, and undoes only what it does not
   publish. *)
LEMMA RemovedInvProducer ==
  ASSUME OnceInv, WriterInv, OpenInv, RemovedOnlyWhenConsumed, NEW p \in Producers, ProducerStep(p)
  PROVE  RemovedOnlyWhenConsumed'
<1> USE DEF tephraVars, queueVars, itemVars, producerVars, consumerVars, driverVars, historyVars,
            At, Goto
<1>1. consumed' = consumed
  BY ProducerEffect DEF ConsumersKeep
<1>2. CASE PCommit(p)
  <2> DEFINE N == {writePointer[p]} \X (0 .. lastEnqueueCount[p] - 1)
  <2>1. CASE CanCommit(p)
    <3>1. /\ p \in inProgress /\ pc[p] = "commit" /\ entries' = entries
          /\ published' = published \cup N
      BY <1>2, <2>1 DEF PCommit, CanCommit
    <3>2. OpenFor(p) /\ writePointer[p] \in WriterIds /\ lastEnqueueCount[p] \in 0 .. MaxEnqueue
      BY <3>1, Basics DEF OpenInv, OnceInv
    <3>3. MaxEnqueue \in Nat
      BY QueueAssumption
    <3>4. ASSUME NEW k \in N PROVE k \in entries
      <4>1. k \in Key /\ k[1] = writePointer[p] /\ k[2] < lastEnqueueCount[p]
        BY <3>2, <3>3 DEF Key, SeqIds
      <4> QED
        BY <3>1, <3>2, <4>1 DEF OpenFor
    <3> QED
      BY <1>1, <3>1, <3>4 DEF RemovedOnlyWhenConsumed
  <2>2. CASE ~CanCommit(p)
    BY <1>1, <1>2, <2>2 DEF PCommit, RemovedOnlyWhenConsumed
  <2> QED
    BY <2>1, <2>2
<1>3. CASE PRollback(p)
  <2>1. pc[p] = "rollback" /\ entries' = entries \ UndoKeys(p) /\ published' = published
    BY <1>3 DEF PRollback, ProducerRollbackTx
  <2>2. commitTransaction[p] \in {NoTx, writePointer[p]}
    BY <2>1 DEF WriterInv, BusyInv, BusyFor
  <2>3. \A k \in UndoKeys(p) : k[1] = writePointer[p]
    BY <2>2 DEF UndoKeys
  <2>4. \A k \in UndoKeys(p) : k \notin published
    BY <2>3 DEF WriterInv, PublishedInv
  <2> QED
    BY <1>1, <2>1, <2>4 DEF RemovedOnlyWhenConsumed
<1>4. CASE ~PCommit(p) /\ ~PRollback(p)
  <2>1. published' = published /\ entries \subseteq entries'
    BY <1>4 DEF ProducerStep, PStart, PEmit, PFail, PFinish, PPersist, PersistEntry, PPersisted, PAbort
  <2> QED
    BY <1>1, <2>1 DEF RemovedOnlyWhenConsumed
<1> QED
  BY <1>2, <1>3, <1>4

-----------------------------------------------------------------------------
(* The invariant, step by step. *)

(* The steps that leave the queue and everybody's place in the code alone. *)
LEMMA QueueInvQuiet ==
  ASSUME QueueInv, OnceInv', SnapshotInv', inProgress' \subseteq inProgress,
         UNCHANGED <<queueVars, pc, driverVars, historyVars, writePointer, lastWriter>>
  PROVE  QueueInv'
<1> USE DEF queueVars, itemVars, producerVars, consumerVars, driverVars, historyVars
<1>1. BusyInv' /\ WrittenInv' /\ PublishedInv' /\ AbortLeavesNothing'
  BY DEF QueueInv, BusyInv, BusyFor, WrittenInv, WrittenFor, UndoKeys, PublishedInv, AbortLeavesNothing
<1>2. OpenInv'
  BY DEF QueueInv, OpenInv, OpenFor, InHand
<1>3. HandInv' /\ RemovedOnlyWhenConsumed'
  BY DEF QueueInv, HandInv, HandFor, RemovedOnlyWhenConsumed
<1>4. \A k : DoneGroups(k)' = DoneGroups(k)
  BY DEF DoneGroups, Posted
<1> QED
  BY <1>1, <1>2, <1>3, <1>4 DEF QueueInv, CountInv

(* The empty queue satisfies it. *)
LEMMA QueueInvInit == Init => QueueInv
<1> SUFFICES ASSUME Init PROVE QueueInv
  OBVIOUS
<1>1. OnceInv
  BY InitOnce
<1>2. BusyInv /\ WrittenInv /\ PublishedInv /\ AbortLeavesNothing /\ RemovedOnlyWhenConsumed
  BY DEF Init, QueueInit, TephraInit, BusyInv, BusyFor, WrittenInv, WrittenFor, PublishedInv,
         AbortLeavesNothing, RemovedOnlyWhenConsumed, ProducerSteps, Clients
<1>3. SnapshotInv
  BY DEF Init, TephraInit, SnapshotInv, EmptySnapshot, NoTx
<1>4. OpenInv /\ HandInv
  BY DEF Init, TephraInit, OpenInv, HandInv, HandFor, Clients
<1>5. CountInv
  <2> SUFFICES ASSUME NEW k \in Key PROVE processedCount[k] <= Cardinality(DoneGroups(k))
    BY DEF CountInv
  <2>1. DoneGroups(k) \subseteq Groups /\ IsFiniteSet(Groups)
    BY QueueAssumption DEF DoneGroups
  <2>2. Cardinality(DoneGroups(k)) \in Nat
    BY <2>1, FS_Subset, FS_CardinalityType
  <2>3. processedCount[k] = 0
    BY DEF Init, QueueInit
  <2> QED
    BY <2>2, <2>3
<1> QED
  BY <1>1, <1>2, <1>3, <1>4, <1>5 DEF QueueInv

(* Every step of a flowlet instance that reads keeps it. *)
LEMMA QueueInvConsumer ==
  ASSUME QueueInv, TypeOK', NEW c \in Consumers, ConsumerStep(c)
  PROVE  QueueInv'
<1>1. OnceInv' /\ OnceInv /\ TypeOK /\ c \in Clients
  BY ConsumerOnce, Basics DEF QueueInv, OnceInv
<1>2. WriterInv'
  BY <1>1, ConsumerEffect, WriterInvKept DEF QueueInv, WriterInv
<1>3. SnapshotInv'
  BY <1>1, ConsumerEffect, SnapshotStep DEF QueueInv, Manager
<1>4. OpenInv'
  BY OpenInvConsumer DEF QueueInv
<1>5. HandInv' /\ CountInv'
  BY HandInvConsumer, CountInvConsumer DEF QueueInv
<1>6. RemovedOnlyWhenConsumed'
  BY <1>5, RemovedInvConsumer DEF QueueInv
<1> QED
  BY <1>1, <1>2, <1>3, <1>4, <1>5, <1>6 DEF QueueInv, WriterInv

(* Every step of a generator flowlet keeps it. *)
LEMMA QueueInvProducer ==
  ASSUME QueueInv, TypeOK', NEW p \in Producers, ProducerStep(p)
  PROVE  QueueInv'
<1>1. OnceInv' /\ OnceInv /\ TypeOK /\ p \in Clients /\ WriterInv
  BY ProducerOnce, Basics DEF QueueInv, OnceInv, WriterInv
<1>2. WriterInv'
  BY <1>1, WriterInvStep DEF QueueInv
<1>3. SnapshotInv'
  BY <1>1, ProducerEffect, SnapshotStep DEF QueueInv
<1>4. OpenInv'
  BY <1>1, OpenInvProducer DEF QueueInv
<1>5. HandInv' /\ CountInv'
  <2>1. ConsumersKeep /\ processedCount' = processedCount
    BY <1>1, ProducerEffect
  <2>2. \A k : DoneGroups(k)' = DoneGroups(k)
    BY <2>1 DEF ConsumersKeep, DoneGroups, Posted
  <2> QED
    BY <2>1, <2>2 DEF QueueInv, HandInv, HandFor, CountInv, ConsumersKeep
<1>6. RemovedOnlyWhenConsumed'
  BY <1>1, RemovedInvProducer DEF QueueInv
<1> QED
  BY <1>1, <1>2, <1>3, <1>4, <1>5, <1>6 DEF QueueInv, WriterInv

(* And so does a timeout, which only the transaction manager notices. *)
LEMMA QueueInvNext == QueueInv /\ [Next]_vars => QueueInv'
<1> SUFFICES ASSUME QueueInv, [Next]_vars PROVE QueueInv'
  OBVIOUS
<1>1. OnceInv' /\ TypeOK' /\ TypeOK
  BY NextOnce DEF QueueInv, OnceInv
<1>2. ASSUME NEW p \in Producers, ProducerStep(p) PROVE QueueInv'
  BY <1>1, <1>2, QueueInvProducer
<1>3. ASSUME NEW c \in Consumers, ConsumerStep(c) PROVE QueueInv'
  BY <1>1, <1>3, QueueInvConsumer
<1>4. ASSUME NEW c \in TimeoutProcs, Timeout(c) PROVE QueueInv'
  <2>1. c \in Clients /\ TimeoutTx(c) /\ UNCHANGED <<queueVars, pc, driverVars, historyVars>>
    BY <1>4, FlowAssumption DEF Timeout
  <2>2. SnapshotInv'
    BY <1>1, <2>1, SnapshotStep DEF QueueInv
  <2> QED
    BY <1>1, <2>1, <2>2, QueueInvQuiet DEF TimeoutTx
<1>5. CASE UNCHANGED vars
  <2>1. UNCHANGED tephraVars
    BY <1>5 DEF vars
  <2>2. SnapshotInv'
    BY <1>1, <2>1, SnapshotStep DEF QueueInv
  <2> QED
    BY <1>1, <1>5, <2>2, QueueInvQuiet DEF vars, tephraVars
<1> QED
  BY <1>2, <1>3, <1>4, <1>5 DEF Next

(* QueueInv holds in every reachable state. *)
THEOREM QueueInvariant == Spec => []QueueInv
  BY QueueInvInit, QueueInvNext, PTL DEF Spec

(* Whatever fails, times out or is rolled back, every uncommitted entry in the
   queue belongs to a transaction whose producer is still at work on it:
   undoEnqueue removes all that persist has inserted. *)
THEOREM NothingLeftByAbort == Spec => []AbortLeavesNothing
<1>1. QueueInv => AbortLeavesNothing
  BY DEF QueueInv
<1> QED
  BY <1>1, QueueInvariant, PTL

(* An entry that was committed leaves the queue only after every consumer
   group has used it up: evict counts each group once, and undoEnqueue never
   touches what was committed. *)
THEOREM NothingRemovedEarly == Spec => []RemovedOnlyWhenConsumed
<1>1. QueueInv => RemovedOnlyWhenConsumed
  BY DEF QueueInv
<1> QED
  BY <1>1, QueueInvariant, PTL

-----------------------------------------------------------------------------
(* Reading, as long as no transaction of a producer times out.  A consumer    *)
(* cannot tell the entries of a timed-out transaction, which the manager no   *)
(* longer lists as open, from committed ones (DirtyRead.cfg shows it),        *)
(* so from here on the clients that may time out are consumers.               *)

CleanInv == QueueInv /\ WritersOpen /\ HandsClean

(* Nothing of a consumer's changes what the manager holds open for producers,
   and what its snapshot shows is published. *)
LEMMA CleanConsumer ==
  ASSUME CleanInv, NEW c \in Consumers, ConsumerStep(c)
  PROVE  WritersOpen' /\ HandsClean'
<1>1. /\ ProducersSame
      /\ \A k \in InHand(c)' : k \in InHand(c) \/ Visible(c, k)
  BY ConsumerEffect DEF CleanInv, QueueInv
<1>2. WritersOpen'
  BY <1>1 DEF CleanInv, WritersOpen, ProducersSame, WritersKeep
<1>3. ASSUME NEW k, Visible(c, k) PROVE k \in published
  <2> SUFFICES ASSUME k \notin published PROVE FALSE
    OBVIOUS
  <2>1. k \in entries /\ k \in Key /\ k[1] # NoTx
    BY <1>3, Basics, KeyPointer DEF Visible, CleanInv, QueueInv, OnceInv
  <2>2. PICK p \in Producers : writePointer[p] = k[1]
    BY <2>1 DEF CleanInv, QueueInv, AbortLeavesNothing
  <2>3. p \in inProgress
    BY <2>1, <2>2 DEF CleanInv, WritersOpen
  <2> QED
    BY <1>3, <2>2, <2>3 DEF CleanInv, QueueInv, SnapshotInv, Visible, Newer, Hidden
<1>4. \A d \in Consumers \ {c} : InHand(d)' = InHand(d)
  BY ConsumerKeeps, InHandOthers DEF CleanInv, QueueInv
<1> QED
  BY <1>1, <1>2, <1>3, <1>4 DEF CleanInv, HandsClean, ProducersSame

(* A producer keeps its transaction open while it is busy, and only ever
   publishes more. *)
LEMMA CleanProducer ==
  ASSUME CleanInv, NEW p \in Producers, ProducerStep(p)
  PROVE  WritersOpen' /\ HandsClean'
<1> USE DEF tephraVars, queueVars, itemVars, producerVars, consumerVars, driverVars, historyVars,
            At, Goto
<1>1. /\ ConsumersKeep /\ \A q \in Producers \ {p} : Same(q)
      /\ StartWriter(p) \/ EndTx(p) \/ UNCHANGED tephraVars
  BY ProducerEffect DEF CleanInv, QueueInv
<1>2. writePointer \in [Clients -> WritePointers \cup {NoTx}] /\ p \in Clients
  BY Basics DEF CleanInv, QueueInv, OnceInv
<1>3. WritersOpen'
  BY <1>1, <1>2 DEF CleanInv, WritersOpen, Same, StartWriter, EndTx
<1>4. published \subseteq published'
  BY DEF ProducerStep, PStart, PEmit, PFail, PFinish, PPersist, PPersisted, PCommit, PRollback, PAbort
<1>5. \A c \in Consumers : InHand(c)' = InHand(c)
  BY <1>1 DEF ConsumersKeep, InHand
<1> QED
  BY <1>3, <1>4, <1>5 DEF CleanInv, HandsClean

(* A timeout of a consumer takes nothing from anybody. *)
LEMMA CleanNext ==
  ASSUME TimeoutProcs \cap Producers = {}, CleanInv, [Next]_vars
  PROVE  CleanInv'
<1>1. QueueInv'
  BY QueueInvNext DEF CleanInv
<1>2. ASSUME NEW p \in Producers, ProducerStep(p) PROVE CleanInv'
  BY <1>1, <1>2, CleanProducer DEF CleanInv
<1>3. ASSUME NEW c \in Consumers, ConsumerStep(c) PROVE CleanInv'
  BY <1>1, <1>3, CleanConsumer DEF CleanInv
<1>4. ASSUME NEW c \in TimeoutProcs, Timeout(c) PROVE CleanInv'
  BY <1>1, <1>4 DEF Timeout, TimeoutTx, CleanInv, WritersOpen, HandsClean, InHand, queueVars,
                    consumerVars, driverVars, historyVars
<1>5. CASE UNCHANGED vars
  BY <1>1, <1>5 DEF vars, tephraVars, queueVars, consumerVars, driverVars, historyVars, CleanInv,
                    WritersOpen, HandsClean, InHand
<1> QED
  BY <1>2, <1>3, <1>4, <1>5 DEF Next

(* Nothing is in hand at first. *)
LEMMA CleanInit == Init => CleanInv
<1> SUFFICES ASSUME Init PROVE CleanInv
  OBVIOUS
<1>1. WritersOpen /\ HandsClean
  BY DEF Init, TephraInit, WritersOpen, HandsClean, InHand, Clients
<1> QED
  BY <1>1, QueueInvInit DEF CleanInv

(* With timeouts of consumers only, a process method never sees an entry of a
   transaction that has not committed, however dequeue's snapshot, persist,
   commit and rollback interleave. *)
THEOREM NoDirtyReads ==
  ASSUME TimeoutProcs \cap Producers = {}
  PROVE  Spec => []NoDirtyRead
<1>1. CleanInv /\ [Next]_vars => CleanInv'
  BY CleanNext
<1>2. CleanInv => NoDirtyRead
  BY DEF CleanInv, HandsClean, NoDirtyRead, InHand
<1> QED
  BY <1>1, <1>2, CleanInit, PTL DEF Spec

-----------------------------------------------------------------------------
(* The flow implements the abstract queue. *)

(* A commit of a producer publishes a set of entries that was not published
   before; nothing else it does shows. *)
LEMMA ProducerImplements ==
  ASSUME CleanInv, TypeOK', NEW p \in Producers, ProducerStep(p)
  PROVE  [EOQ!Next]_(EOQ!eoVars)
<1> USE DEF tephraVars, queueVars, itemVars, producerVars, consumerVars, driverVars, historyVars,
            At, Goto
<1>1. consumed' = consumed
  BY ProducerEffect DEF ConsumersKeep, CleanInv, QueueInv
<1>2. CASE PCommit(p) /\ CanCommit(p)
  <2> DEFINE N == {writePointer[p]} \X (0 .. lastEnqueueCount[p] - 1)
  <2>1. published' = published \cup N
    BY <1>2 DEF PCommit
  <2>2. published' \subseteq Key
    BY DEF TypeOK, HistoryTypeOK
  <2>3. N \cap published = {}
    BY DEF CleanInv, QueueInv, PublishedInv
  <2>4. N \in SUBSET Key
    BY <2>1, <2>2
  <2>5. EOQ!Publish(N)
    BY <1>1, <2>1, <2>3 DEF EOQ!Publish
  <2> QED
    BY <2>4, <2>5 DEF EOQ!Next
<1>3. CASE ~(PCommit(p) /\ CanCommit(p))
  <2>1. published' = published
    BY <1>3 DEF ProducerStep, PStart, PEmit, PFail, PFinish, PPersist, PPersisted, PCommit,
                PRollback, PAbort
  <2> QED
    BY <1>1, <2>1 DEF EOQ!eoVars
<1> QED
  BY <1>2, <1>3

(* A commit of a consumer uses up published entries that its group has not
   used up before; nothing else it does shows. *)
LEMMA ConsumerImplements ==
  ASSUME CleanInv, NEW c \in Consumers, ConsumerStep(c)
  PROVE  [EOQ!Next]_(EOQ!eoVars)
<1>0. OnceInv /\ published' = published /\ GroupOf(c) \in Groups
      /\ input[c] \in SUBSET Key /\ c \in Clients
  BY ConsumerEffect, Basics, ConsumerParts DEF CleanInv, QueueInv, OnceInv, ProducersSame
<1>1. CASE consumed' = consumed
  BY <1>0, <1>1 DEF EOQ!eoVars
<1>2. CASE CCommit(c)
  <2>1. CASE CanCommit(c)
    <3>1. /\ pc[c] = "commit"
          /\ consumed' = [consumed EXCEPT ![GroupOf(c)] =
               [k \in Key |-> consumed[GroupOf(c)][k] + IF k \in input[c] THEN 1 ELSE 0]]
      BY <1>2, <2>1 DEF CCommit, At
    <3>2. input[c] \subseteq published
      BY DEF CleanInv, HandsClean, InHand
    <3>3. \A k \in input[c] : consumed[GroupOf(c)][k] = 0
      BY <1>0, <3>1 DEF OnceInv, FreshInv, InHand
    <3>4. EOQ!Consume(GroupOf(c), input[c])
      BY <1>0, <3>1, <3>2, <3>3 DEF EOQ!Consume
    <3> QED
      BY <1>0, <3>4 DEF EOQ!Next
  <2>2. CASE ~CanCommit(c)
    BY <1>1, <1>2, <2>2 DEF CCommit
  <2> QED
    BY <2>1, <2>2
<1> QED
  BY <1>0, <1>1, <1>2, ConsumedStep

(* Under the same hypothesis the flow implements ExactlyOnceQueue: a committed
   transaction of a generator publishes all its entries in one step, and each
   group uses a published entry up in the commit of one transaction, across
   retries, ignored inputs, failures to decode and timeouts of consumers. *)
THEOREM FlowImplementsQueue ==
  ASSUME TimeoutProcs \cap Producers = {}
  PROVE  Spec => ImplementsExactlyOnceQueue
<1>1. Init => EOQ!Init
  BY DEF Init, EOQ!Init
<1>2. CleanInv /\ [Next]_vars => CleanInv'
  BY CleanNext
<1>3. CleanInv /\ [Next]_vars => [EOQ!Next]_(EOQ!eoVars)
  <2> SUFFICES ASSUME CleanInv, [Next]_vars PROVE [EOQ!Next]_(EOQ!eoVars)
    OBVIOUS
  <2>0. TypeOK'
    BY <1>2 DEF CleanInv, QueueInv, OnceInv
  <2>1. ASSUME NEW p \in Producers, ProducerStep(p) PROVE [EOQ!Next]_(EOQ!eoVars)
    BY <2>0, <2>1, ProducerImplements
  <2>2. ASSUME NEW c \in Consumers, ConsumerStep(c) PROVE [EOQ!Next]_(EOQ!eoVars)
    BY <2>2, ConsumerImplements
  <2>3. ASSUME NEW c \in TimeoutProcs, Timeout(c) PROVE [EOQ!Next]_(EOQ!eoVars)
    BY <2>3 DEF Timeout, historyVars, EOQ!eoVars
  <2>4. CASE UNCHANGED vars
    BY <2>4 DEF vars, historyVars, EOQ!eoVars
  <2> QED
    BY <2>1, <2>2, <2>3, <2>4 DEF Next
<1> QED
  BY <1>1, <1>2, <1>3, CleanInit, PTL DEF Spec, ImplementsExactlyOnceQueue, EOQ!Spec

-----------------------------------------------------------------------------
(* Which instance an entry falls to. *)

(* Java's remainder of an int that is not negative is an instance's number. *)
LEMMA RemainderOwns ==
  ASSUME NEW h \in Int, h # -(2 ^ (IntWidth - 1)), NEW n \in Nat \ {0}
  PROVE  JavaRem(JavaAbs(h), n) \in 0 .. n - 1
<1>1. JavaAbs(h) = IF h < 0 THEN -h ELSE h
  BY DEF JavaAbs
<1>2. JavaAbs(h) \in Nat
  <2> HIDE DEF JavaAbs
  <2> QED BY <1>1
<1>3. \A a \in Nat : a % n \in 0 .. n - 1
  OBVIOUS
<1>4. JavaRem(JavaAbs(h), n) = JavaAbs(h) % n
  <2> HIDE DEF JavaAbs
  <2> QED BY <1>2 DEF JavaRem
<1> QED
  BY <1>2, <1>3, <1>4

(* An entry's hash and a group's size. *)
LEMMA HashTypes ==
  ASSUME TypeOK, NEW k \in entries, NEW g \in Groups
  PROVE  hash[k] \in Hashes /\ hash[k] \in Int /\ groupSize[g] \in Nat \ {0}
<1>1. k \in Key /\ hash \in [Key -> Hashes] /\ groupSize[g] \in 1 .. MaxInstances
  BY DEF TypeOK, QueueTypeOK, ItemTypeOK
<1>2. Hashes \subseteq Int /\ MaxInstances \in Nat
  BY QueueAssumption
<1>3. hash[k] \in Hashes
  BY <1>1
<1>4. hash[k] \in Int
  BY <1>2, <1>3
<1>5. groupSize[g] \in Nat \ {0}
  BY <1>1, <1>2
<1> QED
  BY <1>3, <1>4, <1>5

(* Unless an entry's hash is the smallest int, whose absolute value Java leaves
   negative (SmallestHash.cfg shows the entry nobody reads), every entry falls
   to an instance of each group that hashes. *)
THEOREM EveryHashHasOwner ==
  ASSUME -(2 ^ (IntWidth - 1)) \notin Hashes
  PROVE  Spec => []HashHasOwner
<1>1. TypeOK => HashHasOwner
  <2> SUFFICES ASSUME TypeOK, NEW g \in Groups \ FifoGroups, NEW k \in entries
               PROVE  \E i \in 0 .. groupSize[g] - 1 : Owns(i, groupSize[g], k)
    BY DEF HashHasOwner
  <2>1. hash[k] \in Hashes /\ hash[k] \in Int /\ groupSize[g] \in Nat \ {0}
    BY HashTypes
  <2>2. hash[k] # -(2 ^ (IntWidth - 1))
    BY <2>1, Zenon
  <2>3. JavaRem(JavaAbs(hash[k]), groupSize[g]) \in 0 .. groupSize[g] - 1
    BY <2>1, <2>2, RemainderOwns
  <2> QED
    BY <2>3 DEF Owns
<1> QED
  BY <1>1, TypeCorrect, PTL

-----------------------------------------------------------------------------
(* Where the next dequeue starts, with one producer.  With two, the scan may  *)
(* meet an entry of a transaction that started after its snapshot while an    *)
(* older one has still to write (SkippedEntry.cfg shows it).                  *)

(* A pair of naturals, as keys are, and the ends of the map. *)
Point(a) == a[1] \in Nat /\ a[2] \in Nat

(* The order of keys. *)
LEMMA KeyOrder ==
  ASSUME NEW a, NEW b, Point(a), Point(b)
  PROVE  /\ LessOrEqual(a, a)
         /\ a[1] < b[1] => LessOrEqual(a, b)
         /\ LessOrEqual(a, b) => a[1] <= b[1]
         /\ LessOrEqual(a, b) \/ LessOrEqual(b, a)
         /\ \A d : Point(d) /\ LessOrEqual(a, b) /\ LessOrEqual(b, d) => LessOrEqual(a, d)
  BY DEF Point, LessOrEqual

(* What is compared is a point, and the end is after all of it. *)
LEMMA Points ==
  ASSUME TypeOK
  PROVE  /\ Point(NoKey) /\ Point(EndKey)
         /\ \A k \in Key : Point(k) /\ LessOrEqual(k, EndKey)
         /\ \A c \in Consumers : Point(startKey[c]) /\ Point(cursor[c])
         /\ \A c \in Consumers : LessOrEqual(startKey[c], EndKey)
         /\ \A p \in Producers : Point(FirstWritten(p))
<1>1. MaxTx \in Nat /\ NoTxInProgress \in Nat
  BY TephraAssumption DEF NoTxInProgress
<1>2. Point(NoKey) /\ Point(EndKey) /\ LessOrEqual(NoKey, EndKey)
  BY <1>1 DEF Point, NoKey, EndKey, LessOrEqual
<1>3. ASSUME NEW k \in Key PROVE Point(k) /\ LessOrEqual(k, EndKey)
  <2>1. k[1] \in Nat /\ k[2] \in Nat /\ k[1] \in WritePointers
    BY KeyParts
  <2> QED
    BY <1>1, <2>1 DEF Point, EndKey, LessOrEqual, WritePointers, NoTxInProgress
<1>4. ASSUME NEW c \in Consumers
      PROVE  startKey[c] \in Key \cup {NoKey} /\ cursor[c] \in Key \cup {EndKey}
  BY DEF TypeOK, QueueTypeOK, ConsumerTypeOK
<1>5. \A p \in Producers : Point(FirstWritten(p))
  BY Basics DEF Point, FirstWritten
<1> QED
  BY <1>2, <1>3, <1>4, <1>5

(* The first of some entries is not past what an open transaction has written
   or is to write. *)
LEMMA FirstBehind ==
  ASSUME QueueInv, LatestInv, NEW p \in Writing, NEW S, S \subseteq entries,
         FirstWritten(p) \in entries => FirstWritten(p) \in S, First(S) # EndKey
  PROVE  LessOrEqual(First(S), FirstWritten(p)) /\ First(S) \in S /\ First(S)[1] <= 2 * lastWriter
<1> DEFINE e == First(S)
           w == writePointer[p]
<1>1. /\ OnceInv /\ TypeOK /\ p \in Producers /\ p \in inProgress
      /\ pc[p] \in {"emit", "persist", "commit"}
      /\ S \subseteq Key /\ entries \subseteq Key
  BY Basics DEF QueueInv, OnceInv, Writing
<1>2. e \in S /\ \A j \in S : LessOrEqual(e, j)
  BY <1>1, FirstKey
<1>3. e \in entries /\ e \in Key /\ e[1] \in Nat /\ e[2] \in Nat /\ e[2] \in SeqIds /\ MaxEnqueue \in Nat
  BY <1>1, <1>2, KeyParts
<1>4. w \in WriterIds /\ w \in Nat /\ w = 2 * lastWriter /\ lastWriter \in Nat
  <2>1. w \in WriterIds
    BY <1>1, Basics
  <2> QED
    BY <1>1, <2>1, Basics, KeyParts DEF LatestInv, NoTx
<1>5. e[1] <= 2 * lastWriter
  <2>1. ~(e[1] > 2 * lastWriter)
    BY <1>1, <1>3 DEF OnceInv, UnbornInv
  <2> QED BY <2>1, <1>3, <1>4
<1>6. CASE e[1] = w
  <2>1. /\ pc[p] # "emit" /\ (pc[p] = "persist" => e[2] < persisted[p])
    BY <1>1, <1>3, <1>6, NotYetWritten
  <2>2. pc[p] = "commit" => e[2] < lastEnqueueCount[p]
    BY <1>1, <1>3, <1>6 DEF QueueInv, WrittenInv, WrittenFor
  <2>3. FirstWritten(p) \in Key
    BY <1>3, <1>4, KeyParts DEF FirstWritten, SeqIds
  <2>4. FirstWritten(p)[1] = w /\ FirstWritten(p)[2] = 0
    BY DEF FirstWritten
  <2>5. persisted[p] \in Nat /\ lastEnqueueCount[p] \in Nat
    BY <1>1, Basics
  <2>6. \/ pc[p] = "persist" /\ FirstWritten(p)[2] < persisted[p]
        \/ pc[p] = "commit" /\ FirstWritten(p)[2] < lastEnqueueCount[p]
    BY <1>1, <1>3, <2>1, <2>2, <2>4, <2>5
  <2>7. OpenFor(p)
    BY <1>1 DEF QueueInv, OpenInv
  <2>8. FirstWritten(p) \in entries
    BY <2>3, <2>4, <2>6, <2>7 DEF OpenFor
  <2> QED
    BY <1>2, <1>5, <2>8
<1>7. CASE e[1] # w
  <2>1. e[1] < w
    BY <1>3, <1>4, <1>5, <1>7
  <2> QED
    BY <1>2, <1>5, <2>1 DEF LessOrEqual, FirstWritten
<1> QED
  BY <1>6, <1>7

(* A step of consumer c leaves the scans of the others alone, ... *)
ScansKeep(c) ==
  \A d \in Consumers \ {c} :
     /\ startKey'[d] = startKey[d] /\ cursor'[d] = cursor[d]
     /\ updateStartKey'[d] = updateStartKey[d] /\ retrying'[d] = retrying[d]

(* ... and moves its own startKey only in dequeue. *)
LEMMA ConsumerScans ==
  ASSUME TypeOK, NEW c \in Consumers, ConsumerStep(c)
  PROVE  /\ ScansKeep(c)
         /\ ~CScan(c) => startKey' = startKey
         /\ ~CScan(c) /\ ~CBeginDequeue(c) => cursor'[c] \in {cursor[c], EndKey}
<1> USE DEF ScansKeep, tephraVars, queueVars, itemVars, producerVars, consumerVars, scanVars, driverVars
<1>1. /\ startKey \in [Consumers -> Key \cup {NoKey}]
      /\ cursor \in [Consumers -> Key \cup {EndKey}]
      /\ updateStartKey \in [Consumers -> BOOLEAN]
      /\ retrying \in [Consumers -> BOOLEAN]
  BY DEF TypeOK, QueueTypeOK, ConsumerTypeOK, DriverTypeOK
<1>2. CASE CStart(c)
  BY <1>1, <1>2 DEF CStart, ConsumerStartTx
<1>3. CASE CBeginDequeue(c)
  BY <1>1, <1>3 DEF CBeginDequeue, BeginDequeue
<1>4. CASE CScan(c)
  <2>1. VisitKey(c) /\ (MoveOn(c) \/ cursor' = [cursor EXCEPT ![c] = EndKey])
    BY <1>4 DEF CScan, ScanKey, ScanNewer, ScanInProgress, ScanSettled, ScanClaim, ScanClaimed, ScanHash
  <2>2. Revisit(c) \/ UNCHANGED updateStartKey
    BY <1>4 DEF CScan, ScanKey, ScanNewer, ScanInProgress, ScanSettled, ScanClaim, ScanClaimed, ScanHash
  <2>3. UNCHANGED retrying
    BY <1>4 DEF CScan
  <2> QED
    BY <1>1, <1>4, <2>1, <2>2, <2>3 DEF VisitKey, MoveOn, Revisit
<1>5. CASE CDequeued(c)
  BY <1>1, <1>5 DEF CDequeued, EndDequeue
<1>6. CASE CDecodeThrows(c)
  BY <1>1, <1>6 DEF CDecodeThrows, EndDequeue
<1>7. CASE CSuccess(c)
  BY <1>1, <1>7 DEF CSuccess, Reclaim
<1>8. CASE CFailure(c)
  BY <1>1, <1>8 DEF CFailure
<1>9. CASE CFinish(c)
  BY <1>1, <1>9 DEF CFinish, ConsumerCommitTx
<1>10. CASE CCommit(c)
  BY <1>1, <1>10 DEF CCommit
<1>11. CASE CPost(c)
  BY <1>1, <1>11 DEF CPost, ConsumerPostTxCommit, ResetEntry
<1>12. CASE CRollback(c)
  BY <1>1, <1>12 DEF CRollback, ConsumerRollbackTx
<1>13. CASE CAbortIdle(c)
  BY <1>1, <1>13 DEF CAbortIdle, ResetEntry
<1>14. CASE CAbortRetry(c)
  BY <1>1, <1>14 DEF CAbortRetry
<1>15. CASE CAbortIgnore(c)
  BY <1>1, <1>15 DEF CAbortIgnore
<1>16. CASE CIgnore(c)
  BY <1>1, <1>16 DEF CIgnore
<1> QED
  BY <1>2, <1>3, <1>4, <1>5, <1>6, <1>7, <1>8, <1>9, <1>10, <1>11, <1>12, <1>13, <1>14, <1>15,
     <1>16 DEF ConsumerStep

(* How a step of c changes the marks: dequeue claims a free entry, commitTx
   marks, rollbackTx takes marks back, all of it for c alone. *)
LEMMA MarksOf ==
  ASSUME NEW c \in Consumers, ConsumerStep(c)
  PROVE  \/ itemState' = itemState
         \/ ScanClaim(c)
         \/ SetState(c, dequeuedKeys[c], StateBy(c, "PROCESSED"))
         \/ CRollback(c)
<1> USE DEF queueVars, itemVars
<1> QED
  BY DEF ConsumerStep, CStart, CBeginDequeue, CScan, CDequeued, CDecodeThrows, CSuccess, CFailure,
         CFinish, CCommit, CPost, CAbortIdle, CAbortRetry, CAbortIgnore, CIgnore, ScanKey,
         ScanNewer, ScanInProgress, ScanSettled, ScanClaimed, ScanHash, ConsumerCommitTx,
         ConsumerPostTxCommit

(* Two instances of a group do not own the same entry. *)
LEMMA OneOwner ==
  ASSUME NEW c \in Consumers, NEW d \in Consumers, c # d, GroupOf(c) = GroupOf(d),
         Running(c), Running(d), NEW k, Owns(InstanceOf(c), groupSize[GroupOf(c)], k)
  PROVE  ~Owns(InstanceOf(d), groupSize[GroupOf(d)], k)
<1>1. InstanceOf(c) # InstanceOf(d) /\ InstanceOf(c) \in Nat /\ InstanceOf(d) \in Nat
  BY ConsumerParts
<1>2. groupSize[GroupOf(c)] # 1
  BY <1>1 DEF Running
<1> QED
  BY <1>1, <1>2 DEF Owns

(* A consumer's step makes no entry due to anybody, except that a rollback
   gives back to c what c has in hand. *)
LEMMA DueAfter ==
  ASSUME OnceInv, NEW c \in Consumers, ConsumerStep(c), NEW d \in Consumers, NEW k \in Key,
         DueTo(d, k)'
  PROVE  DueTo(d, k) \/ (d = c /\ k \in InHand(c) /\ CRollback(c))
<1> DEFINE g == GroupOf(d)
<1>0. /\ groupSize' = groupSize /\ hash' = hash /\ published' = published
      /\ entries' \subseteq entries /\ g \in Groups /\ TypeOK /\ GroupOf(c) \in Groups
  BY ConsumerKeeps, ConsumerEffect, ConsumerParts DEF GroupsKeep, ProducersSame, OnceInv
<1>1. /\ Running(d) /\ k \in entries \cap published
      /\ itemState'[g][k].state # "PROCESSED"
      /\ g \in FifoGroups => \/ itemState'[g][k].state = "NONE"
                             \/ itemState'[g][k].instance = InstanceOf(d)
      /\ g \notin FifoGroups => Owns(InstanceOf(d), groupSize[g], k)
  BY <1>0, Zenon DEF DueTo, Running, Processed, StateFor, Owns
<1> DEFINE Before == /\ itemState[g][k].state # "PROCESSED"
                     /\ g \in FifoGroups => \/ itemState[g][k].state = "NONE"
                                            \/ itemState[g][k].instance = InstanceOf(d)
<1>2. Before => DueTo(d, k)
  BY <1>1, Zenon DEF DueTo, Processed, StateFor
<1>3. CASE itemState'[g][k] = itemState[g][k]
  BY <1>1, <1>2, <1>3, Zenon
<1>4. CASE itemState'[g][k] # itemState[g][k]
  <2>1. GroupOf(c) = g /\ itemState' # itemState
    <3>1. \A K, s : SetState(c, K, s) => \A h \in Groups \ {GroupOf(c)} : itemState'[h] = itemState[h]
      BY <1>0, SetStateAt
    <3>2. \/ \E K, s : SetState(c, K, s)
          \/ itemState' = itemState
      BY MarksOf DEF ScanClaim, CRollback, ConsumerRollbackTx
    <3> QED
      BY <1>0, <1>4, <3>1, <3>2, Zenon
  <2>2. CASE ScanClaim(c)
    <3>1. /\ SetState(c, {cursor[c]}, StateBy(c, "CLAIMED"))
          /\ StateFor(c, cursor[c]).state = "NONE" /\ g \in FifoGroups
      BY <2>1, <2>2 DEF ScanClaim
    <3>2. k \in {cursor[c]} /\ itemState'[g][k] = StateBy(c, "CLAIMED")
      BY <1>0, <1>4, <2>1, <3>1, SetStateAt
    <3>3. itemState[g][k].state = "NONE"
      BY <2>1, <3>1, <3>2 DEF StateFor
    <3> QED
      BY <1>2, <3>3
  <2>3. CASE SetState(c, dequeuedKeys[c], StateBy(c, "PROCESSED"))
    <3>1. itemState'[g][k] = StateBy(c, "PROCESSED")
      BY <1>0, <1>4, <2>1, <2>3, SetStateAt
    <3> QED
      BY <1>1, <3>1 DEF StateBy
  <2>4. CASE CRollback(c)
    <3>0. k \in dequeuedKeys[c] /\ (itemState'[g][k] = StateBy(c, "CLAIMED") \/ g \notin FifoGroups)
      <4>1. \E s : /\ SetState(c, dequeuedKeys[c], s)
                   /\ g \in FifoGroups => s = StateBy(c, "CLAIMED")
        BY <2>1, <2>4 DEF CRollback, ConsumerRollbackTx
      <4> QED
        BY <1>0, <1>4, <2>1, <4>1, SetStateAt
    <3>1. k \in InHand(c) /\ pc[c] # "idle"
      BY <2>4, <3>0 DEF CRollback, At, InHand
    <3>2. CASE d = c
      BY <2>4, <3>1, <3>2
    <3>3. CASE d # c
      <4>1. InstanceOf(c) # InstanceOf(d)
        BY <2>1, <3>3, ConsumerParts
      <4>2. g \notin FifoGroups
        BY <1>1, <3>0, <4>1 DEF StateBy
      <4>3. Running(c) /\ Owns(InstanceOf(c), groupSize[g], k)
        BY <2>1, <3>1, <4>2 DEF OnceInv, EntitledInv, Entitled
      <4> QED
        BY <1>1, <2>1, <3>3, <4>2, <4>3, OneOwner
    <3> QED
      BY <3>2, <3>3
  <2> QED
    BY <2>1, <2>2, <2>3, <2>4, MarksOf
<1> QED
  BY <1>3, <1>4

(* startKey is not past an entry due to c. *)
NotPast(c) == \A k \in Key : DueTo(c, k) => LessOrEqual(startKey[c], k)

SkipFor(c) == EmptyHandFor(c) /\ BehindFor(c) /\ FollowFor(c) /\ NotPast(c)

(* SkipInv consumer by consumer. *)
LEMMA SkipParts == SkipInv <=> LatestInv /\ \A c \in Consumers : SkipFor(c)
  BY DEF SkipInv, SkipFor, NotPast, NothingSkipped

(* A consumer's step leaves the transactions of the producers alone. *)
LEMMA WritingKept ==
  ASSUME OnceInv, LatestInv, NEW c \in Consumers, ConsumerStep(c)
  PROVE  /\ LatestInv' /\ lastWriter' = lastWriter /\ Writing' = Writing
         /\ \A p \in Producers : FirstWritten(p)' = FirstWritten(p)
<1>1. ProducersSame
  BY ConsumerEffect
<1>2. Writing' = Writing
  BY <1>1 DEF ProducersSame, WritersKeep, Writing
<1> QED
  BY <1>1, <1>2 DEF ProducersSame, WritersKeep, LatestInv, FirstWritten

(* A consumer's step keeps what holds of the other consumers. *)
LEMMA SkipOthers ==
  ASSUME OnceInv, LatestInv, NEW c \in Consumers, ConsumerStep(c),
         NEW d \in Consumers \ {c}, SkipFor(d)
  PROVE  SkipFor(d)'
<1>1. /\ pc'[d] = pc[d] /\ input'[d] = input[d] /\ dequeuedKeys'[d] = dequeuedKeys[d]
      /\ startKey'[d] = startKey[d] /\ cursor'[d] = cursor[d]
      /\ updateStartKey'[d] = updateStartKey[d] /\ retrying'[d] = retrying[d]
  BY ConsumerKeeps, ConsumerScans DEF OthersKeep, ScansKeep, OnceInv
<1>2. InHand(d)' = InHand(d)
  BY <1>1 DEF InHand
<1>3. /\ lastWriter' = lastWriter /\ Writing' = Writing
      /\ \A p \in Writing : FirstWritten(p)' = FirstWritten(p)
  BY WritingKept DEF Writing
<1>4. \A k \in Key : DueTo(d, k)' => DueTo(d, k)
  BY DueAfter
<1>5. EmptyHandFor(d)'
  BY <1>1 DEF SkipFor, EmptyHandFor
<1>6. BehindFor(d)'
  BY <1>1, <1>2, <1>3 DEF SkipFor, BehindFor
<1>7. FollowFor(d)'
  BY <1>1, <1>3, <1>4 DEF SkipFor, FollowFor
<1>8. NotPast(d)'
  BY <1>1, <1>4 DEF SkipFor, NotPast
<1> QED
  BY <1>5, <1>6, <1>7, <1>8 DEF SkipFor

(* c's own hand. *)
LEMMA EmptyHandStep ==
  ASSUME TypeOK, NEW c \in Consumers, EmptyHandFor(c), ConsumerStep(c)
  PROVE  EmptyHandFor(c)'
<1> USE DEF queueVars, consumerVars, scanVars, driverVars, At, Goto, EmptyHandFor
<1>1. /\ c \in Clients /\ pc \in [Clients -> ProducerSteps \cup ConsumerSteps]
      /\ input \in [Consumers -> SUBSET Key] /\ dequeuedKeys \in [Consumers -> SUBSET Key]
      /\ retrying \in [Consumers -> BOOLEAN]
  BY Basics DEF TypeOK, DriverTypeOK
<1>2. CASE CStart(c)
  BY <1>1, <1>2 DEF CStart, ConsumerStartTx
<1>3. CASE CBeginDequeue(c)
  BY <1>1, <1>3 DEF CBeginDequeue, BeginDequeue
<1>4. CASE CScan(c)
  <2>1. Revisit(c) \/ UNCHANGED dequeuedKeys
    BY <1>4 DEF CScan, ScanKey, ScanNewer, ScanInProgress, ScanSettled, ScanClaim, ScanClaimed, ScanHash
  <2>2. Revisit(c) \/ UNCHANGED updateStartKey
    BY <1>4 DEF CScan, ScanKey, ScanNewer, ScanInProgress, ScanSettled, ScanClaim, ScanClaimed, ScanHash
  <2>3. updateStartKey \in [Consumers -> BOOLEAN]
    BY DEF TypeOK, QueueTypeOK, ConsumerTypeOK
  <2>4. pc' = pc /\ input' = input /\ pc[c] = "scan"
    BY <1>4 DEF CScan
  <2>5. CASE Revisit(c)
    BY <2>3, <2>4, <2>5 DEF Revisit
  <2> QED
    BY <2>1, <2>2, <2>4, <2>5
<1>5. CASE CDequeued(c)
  BY <1>1, <1>5 DEF CDequeued, EndDequeue
<1>6. CASE CDecodeThrows(c)
  BY <1>1, <1>6 DEF CDecodeThrows, EndDequeue
<1>7. CASE CSuccess(c)
  BY <1>1, <1>7 DEF CSuccess, Reclaim
<1>8. CASE CFailure(c)
  BY <1>1, <1>8 DEF CFailure
<1>9. CASE CFinish(c)
  BY <1>1, <1>9 DEF CFinish, ConsumerCommitTx
<1>10. CASE CCommit(c)
  BY <1>1, <1>10 DEF CCommit
<1>11. CASE CPost(c)
  BY <1>1, <1>11 DEF CPost, ConsumerPostTxCommit, ResetEntry
<1>12. CASE CRollback(c)
  BY <1>1, <1>12 DEF CRollback, ConsumerRollbackTx
<1>13. CASE CAbortIdle(c)
  BY <1>1, <1>13 DEF CAbortIdle, ResetEntry
<1>14. CASE CAbortRetry(c)
  BY <1>1, <1>14 DEF CAbortRetry
<1>15. CASE CAbortIgnore(c)
  BY <1>1, <1>15 DEF CAbortIgnore
<1>16. CASE CIgnore(c)
  BY <1>1, <1>16 DEF CIgnore
<1> QED
  BY <1>2, <1>3, <1>4, <1>5, <1>6, <1>7, <1>8, <1>9, <1>10, <1>11, <1>12, <1>13, <1>14,
     <1>15, <1>16 DEF ConsumerStep

(* Outside of dequeue c takes nothing it did not have in hand. *)
LEMMA OutsideScan ==
  ASSUME TypeOK, NEW c \in Consumers, ConsumerStep(c), ~CScan(c)
  PROVE  InHand(c)' \subseteq InHand(c) /\ (~CBeginDequeue(c) => pc'[c] # "scan")
<1> USE DEF queueVars, consumerVars, scanVars, driverVars, At, Goto, InHand
<1>1. /\ c \in Clients /\ pc \in [Clients -> ProducerSteps \cup ConsumerSteps]
      /\ input \in [Consumers -> SUBSET Key] /\ dequeuedKeys \in [Consumers -> SUBSET Key]
  BY Basics
<1>2. CASE CBeginDequeue(c)
  BY <1>1, <1>2 DEF CBeginDequeue, BeginDequeue
<1>3. CASE CStart(c)
  BY <1>1, <1>3 DEF CStart, ConsumerStartTx
<1>4. CASE CDequeued(c)
  BY <1>1, <1>4 DEF CDequeued, EndDequeue
<1>5. CASE CDecodeThrows(c)
  BY <1>1, <1>5 DEF CDecodeThrows, EndDequeue
<1>6. CASE CSuccess(c)
  BY <1>1, <1>6 DEF CSuccess, Reclaim
<1>7. CASE CFailure(c)
  BY <1>1, <1>7 DEF CFailure
<1>8. CASE CFinish(c)
  BY <1>1, <1>8 DEF CFinish, ConsumerCommitTx
<1>9. CASE CCommit(c)
  BY <1>1, <1>9 DEF CCommit
<1>10. CASE CPost(c)
  BY <1>1, <1>10 DEF CPost, ConsumerPostTxCommit, ResetEntry
<1>11. CASE CRollback(c)
  BY <1>1, <1>11 DEF CRollback, ConsumerRollbackTx
<1>12. CASE CAbortIdle(c)
  BY <1>1, <1>12 DEF CAbortIdle, ResetEntry
<1>13. CASE CAbortRetry(c)
  BY <1>1, <1>13 DEF CAbortRetry
<1>14. CASE CAbortIgnore(c)
  BY <1>1, <1>14 DEF CAbortIgnore
<1>15. CASE CIgnore(c)
  BY <1>1, <1>15 DEF CIgnore
<1> QED
  BY <1>2, <1>3, <1>4, <1>5, <1>6, <1>7, <1>8, <1>9, <1>10, <1>11, <1>12, <1>13, <1>14,
     <1>15 DEF ConsumerStep

(* Entries were written under a pointer handed out. *)
LEMMA EntryWritten ==
  ASSUME OnceInv, NEW e \in entries
  PROVE  e \in Key /\ e[1] <= 2 * lastWriter
<1>1. e \in Key /\ e[1] \in Nat /\ lastWriter \in Nat
  BY Basics, KeyPointer DEF OnceInv
<1>2. ~(e[1] > 2 * lastWriter)
  BY <1>1 DEF OnceInv, UnbornInv
<1> QED
  BY <1>1, <1>2

(* Steps outside of dequeue leave startKey where it is. *)
LEMMA SkipQuiet ==
  ASSUME OnceInv, LatestInv, NEW c \in Consumers, ConsumerStep(c), SkipFor(c),
         ~CScan(c), ~CBeginDequeue(c)
  PROVE  BehindFor(c)' /\ FollowFor(c)' /\ NotPast(c)'
<1>1. /\ startKey' = startKey /\ cursor'[c] \in {cursor[c], EndKey}
      /\ InHand(c)' \subseteq InHand(c) /\ pc'[c] # "scan"
  BY ConsumerScans, OutsideScan DEF OnceInv
<1>2. /\ lastWriter' = lastWriter /\ Writing' = Writing
      /\ \A p \in Writing : FirstWritten(p)' = FirstWritten(p)
  BY WritingKept DEF Writing
<1>3. EndKey' = EndKey
  OBVIOUS
<1>4. BehindFor(c)'
  BY <1>1, <1>2, <1>3 DEF SkipFor, BehindFor
<1>5. FollowFor(c)'
  BY <1>1 DEF FollowFor
<1>6. NotPast(c)'
  <2> SUFFICES ASSUME NEW k \in Key, DueTo(c, k)' PROVE LessOrEqual(startKey[c], k)
    BY <1>1 DEF NotPast
  <2>1. DueTo(c, k) \/ k \in InHand(c)
    BY DueAfter
  <2> QED
    BY <2>1 DEF SkipFor, NotPast, BehindFor
<1> QED
  BY <1>4, <1>5, <1>6

(* dequeue's iterator starts at the first entry that is not before startKey. *)
LEMMA SkipBegin ==
  ASSUME QueueInv, LatestInv, NEW c \in Consumers, CBeginDequeue(c), SkipFor(c)
  PROVE  BehindFor(c)' /\ FollowFor(c)' /\ NotPast(c)'
<1> DEFINE S == {k \in entries : LessOrEqual(startKey[c], k)}
           f == First(S)
<1>0. OnceInv /\ TypeOK /\ ConsumerStep(c) /\ entries \subseteq Key /\ ~CScan(c) /\ ~CRollback(c)
  BY Basics DEF QueueInv, OnceInv, ConsumerStep, CBeginDequeue, CScan, CRollback, At
<1>1. startKey' = startKey /\ InHand(c)' \subseteq InHand(c)
  BY <1>0, ConsumerScans, OutsideScan
<1>2. cursor'[c] = f
  <2>1. cursor \in [Consumers -> Key \cup {EndKey}]
    BY <1>0 DEF TypeOK, QueueTypeOK, ConsumerTypeOK
  <2> QED
    BY <2>1 DEF CBeginDequeue, BeginDequeue
<1>3. f \in S \cup {EndKey} /\ \A j \in S : LessOrEqual(f, j)
  BY <1>0, FirstKey
<1>4. /\ lastWriter' = lastWriter /\ Writing' = Writing
      /\ \A p \in Writing : FirstWritten(p)' = FirstWritten(p)
  BY <1>0, WritingKept DEF Writing
<1>5. \A k \in Key : DueTo(c, k)' => DueTo(c, k)
  BY <1>0, DueAfter
<1>6. LessOrEqual(startKey[c], f)
  BY <1>0, <1>3, Points
<1>7. f = EndKey \/ f[1] <= 2 * lastWriter
  BY <1>0, <1>3, EntryWritten
<1>8. BehindFor(c)'
  <2> HIDE DEF f
  <2> QED BY <1>1, <1>2, <1>4, <1>6, <1>7 DEF SkipFor, BehindFor
<1>9. NotPast(c)'
  BY <1>1, <1>5 DEF SkipFor, NotPast
<1>10. \A k \in Key : DueTo(c, k) => LessOrEqual(f, k)
  BY <1>3 DEF SkipFor, NotPast, DueTo
<1>11. \A p \in Writing : f # EndKey => LessOrEqual(f, FirstWritten(p))
  <2> SUFFICES ASSUME NEW p \in Writing, f # EndKey PROVE LessOrEqual(f, FirstWritten(p))
    OBVIOUS
  <2>1. LessOrEqual(startKey[c], FirstWritten(p))
    BY DEF SkipFor, BehindFor
  <2>2. FirstWritten(p) \in entries => FirstWritten(p) \in S
    BY <2>1
  <2>3. S \subseteq entries
    OBVIOUS
  <2> HIDE DEF S
  <2> QED
    BY <2>2, <2>3, FirstBehind
<1>12. FollowFor(c)'
  <2> HIDE DEF f
  <2> QED BY <1>2, <1>4, <1>5, <1>10, <1>11 DEF FollowFor
<1> QED
  BY <1>8, <1>9, <1>12

(* The visit of one entry: startKey follows only as long as nothing due to c
   has been passed. *)
LEMMA SkipScan ==
  ASSUME QueueInv, LatestInv, NEW c \in Consumers, CScan(c), SkipFor(c)
  PROVE  BehindFor(c)' /\ FollowFor(c)' /\ NotPast(c)'
<1> DEFINE k == cursor[c]
           S == {j \in entries : Less(k, j)}
           f == First(S)
<1>0. OnceInv /\ TypeOK /\ ConsumerStep(c) /\ entries \subseteq Key /\ pc[c] = "scan" /\ pc'[c] = "scan"
  BY Basics DEF QueueInv, OnceInv, ConsumerStep, CScan, At
<1>1. /\ startKey \in [Consumers -> Key \cup {NoKey}] /\ cursor \in [Consumers -> Key \cup {EndKey}]
      /\ updateStartKey \in [Consumers -> BOOLEAN]
      /\ input[c] \subseteq Key /\ dequeuedKeys \in [Consumers -> SUBSET Key]
  BY <1>0 DEF TypeOK, QueueTypeOK, ConsumerTypeOK, DriverTypeOK
<1>2. VisitKey(c) /\ (MoveOn(c) \/ cursor' = [cursor EXCEPT ![c] = EndKey])
  BY DEF CScan, ScanKey, ScanNewer, ScanInProgress, ScanSettled, ScanClaim, ScanClaimed, ScanHash
<1>3. k \in Key /\ k # EndKey
  BY <1>1, <1>2 DEF VisitKey
<1>4. startKey'[c] = startKey[c] \/ (updateStartKey[c] /\ startKey'[c] = k)
  BY <1>1, <1>2 DEF VisitKey, AdvancesStartKey
<1>5. cursor'[c] \in {f, EndKey}
  BY <1>1, <1>2 DEF MoveOn
<1>6. f \in S \cup {EndKey} /\ \A j \in S : LessOrEqual(f, j)
  BY <1>0, FirstKey
<1>7. /\ lastWriter' = lastWriter /\ Writing' = Writing
      /\ \A p \in Writing : FirstWritten(p)' = FirstWritten(p)
  BY <1>0, WritingKept DEF Writing
<1>8. \A j \in Key : DueTo(c, j)' => DueTo(c, j)
  BY <1>0, DueAfter DEF CRollback, At
<1>9. /\ Point(k) /\ Point(startKey[c]) /\ Point(EndKey) /\ LessOrEqual(k, EndKey)
      /\ \A j \in Key : Point(j)
      /\ \A p \in Writing : Point(FirstWritten(p))
  BY <1>0, <1>3, Points DEF Writing
<1>10. LessOrEqual(startKey[c], k) /\ k[1] <= 2 * lastWriter
  BY <1>0, <1>3 DEF SkipFor, BehindFor
<1>11. LessOrEqual(startKey'[c], k) /\ startKey'[c][1] <= 2 * lastWriter /\ Point(startKey'[c])
  BY <1>4, <1>9, <1>10, KeyOrder DEF SkipFor, BehindFor
<1>12. cursor'[c] = EndKey \/ (cursor'[c] \in entries /\ cursor'[c][1] <= 2 * lastWriter)
  BY <1>0, <1>5, <1>6, EntryWritten
<1>13. LessOrEqual(startKey'[c], cursor'[c])
  <2>1. LessOrEqual(k, cursor'[c]) /\ Point(cursor'[c])
    BY <1>0, <1>5, <1>6, <1>9 DEF Less
  <2> QED
    BY <1>9, <1>11, <2>1, KeyOrder
<1>14. updateStartKey[c] =>
         /\ InHand(c) = {}
         /\ \A j \in Key : DueTo(c, j) => LessOrEqual(k, j)
         /\ \A p \in Writing : LessOrEqual(k, FirstWritten(p))
  BY <1>0, <1>3 DEF SkipFor, EmptyHandFor, FollowFor, InHand
<1>15. \A j \in InHand(c)' : LessOrEqual(startKey'[c], j)
  <2>1. InHand(c)' \subseteq InHand(c) \cup {k}
    <3>1. UNCHANGED dequeuedKeys \/ Take(c, k)
      BY DEF CScan, ScanKey, ScanNewer, ScanInProgress, ScanSettled, ScanClaim, ScanClaimed, ScanHash
    <3>2. input' = input
      BY DEF CScan, driverVars
    <3> QED
      BY <1>0, <1>1, <3>1, <3>2 DEF Take, InHand
  <2>2. \A j \in InHand(c) : LessOrEqual(startKey[c], j)
    BY DEF SkipFor, BehindFor
  <2> QED
    BY <1>4, <1>11, <1>14, <2>1, <2>2
<1>16. \A p \in Writing : LessOrEqual(startKey'[c], FirstWritten(p))
  BY <1>4, <1>14 DEF SkipFor, BehindFor
<1>17. BehindFor(c)'
  BY <1>7, <1>11, <1>12, <1>13, <1>15, <1>16 DEF BehindFor
<1>18. NotPast(c)'
  BY <1>4, <1>8, <1>14 DEF SkipFor, NotPast
<1>19. ASSUME updateStartKey'[c], cursor'[c] # EndKey
       PROVE  /\ updateStartKey[c] /\ cursor'[c] = f
              /\ ~Newer(c, k) /\ ~Hidden(c, k)
              /\ ~DueTo(c, k)
  <2>1. ~Revisit(c)
    BY <1>1, <1>19 DEF Revisit
  <2>2. cursor' # [cursor EXCEPT ![c] = EndKey]
    BY <1>1, <1>19
  <2>3. ScanSettled(c) \/ (ScanHash(c) /\ UNCHANGED updateStartKey)
    BY <2>1, <2>2 DEF CScan, ScanKey, ScanNewer, ScanInProgress, ScanClaim, ScanClaimed, ScanHash
  <2>4. UNCHANGED updateStartKey /\ ~Newer(c, k) /\ ~Hidden(c, k)
    BY <2>3 DEF ScanSettled, ScanHash, Candidate
  <2>5. ScanSettled(c) => ~DueTo(c, k)
    BY DEF ScanSettled, DueTo
  <2>6. ScanHash(c) => ~DueTo(c, k)
    BY <2>1 DEF ScanHash, DueTo
  <2> QED
    BY <1>5, <1>19, <2>3, <2>4, <2>5, <2>6
<1>20. ASSUME updateStartKey'[c], cursor'[c] # EndKey, NEW j \in Key, DueTo(c, j)'
       PROVE  LessOrEqual(cursor'[c], j)
  <2>1. DueTo(c, j) /\ j \in entries
    BY <1>8, <1>20 DEF DueTo
  <2>2. LessOrEqual(k, j) /\ j # k
    BY <1>14, <1>19, <1>20, <2>1
  <2> QED
    BY <1>6, <1>19, <1>20, <2>1, <2>2 DEF Less
<1>21. ASSUME updateStartKey'[c], cursor'[c] # EndKey, NEW p \in Writing
       PROVE  LessOrEqual(cursor'[c], FirstWritten(p))
  <2>1. LessOrEqual(k, FirstWritten(p))
    BY <1>14, <1>19, <1>21
  <2>2. FirstWritten(p) # k
    <3>1. p \in inProgress \cap Producers
      BY DEF Writing
    <3>2. \/ writePointer[p] \in snapshot[c].inProgress
          \/ writePointer[p] > snapshot[c].readPointer
      BY <3>1 DEF QueueInv, SnapshotInv
    <3>3. FirstWritten(p)[1] = writePointer[p]
      BY DEF FirstWritten
    <3> QED
      BY <1>19, <1>21, <3>2, <3>3 DEF Newer, Hidden
  <2>3. FirstWritten(p) \in entries => FirstWritten(p) \in S
    BY <2>1, <2>2 DEF Less
  <2>4. S \subseteq entries /\ First(S) # EndKey
    BY <1>19, <1>21
  <2>5. LessOrEqual(First(S), FirstWritten(p))
    <3> HIDE DEF S
    <3> QED BY <2>3, <2>4, FirstBehind
  <2> QED
    BY <1>19, <1>21, <2>5
<1>22. FollowFor(c)'
  BY <1>7, <1>20, <1>21 DEF FollowFor
<1> QED
  BY <1>17, <1>18, <1>22

(* Every step of a consumer. *)
LEMMA SkipConsumer ==
  ASSUME QueueInv, SkipInv, NEW c \in Consumers, ConsumerStep(c)
  PROVE  SkipInv'
<1>1. OnceInv /\ TypeOK /\ LatestInv /\ \A d \in Consumers : SkipFor(d)
  BY SkipParts DEF QueueInv, OnceInv
<1>2. LatestInv'
  BY <1>1, WritingKept
<1>3. \A d \in Consumers \ {c} : SkipFor(d)'
  BY <1>1, SkipOthers
<1>4. EmptyHandFor(c)'
  BY <1>1, EmptyHandStep DEF SkipFor
<1>5. BehindFor(c)' /\ FollowFor(c)' /\ NotPast(c)'
  BY <1>1, SkipScan, SkipBegin, SkipQuiet
<1>6. \A d \in Consumers : SkipFor(d)'
  BY <1>3, <1>4, <1>5 DEF SkipFor
<1>7. (LatestInv /\ \A d \in Consumers : SkipFor(d))'
  BY <1>2, <1>6
<1> QED
  BY <1>7 DEF SkipInv, SkipFor, NotPast, NothingSkipped

(* A producer's step makes an entry due by committing it, and leaves the
   consumers and their scans alone. *)
LEMMA DueAfterCommit ==
  ASSUME QueueInv, NEW p \in Producers, ProducerStep(p), NEW c \in Consumers, NEW k \in Key,
         DueTo(c, k)'
  PROVE  DueTo(c, k) \/ (p \in Writing /\ k[1] = writePointer[p])
<1> USE DEF queueVars, itemVars, producerVars, consumerVars, historyVars, At, Goto
<1>0. OnceInv /\ TypeOK /\ p \in Clients
  BY Basics DEF QueueInv, OnceInv
<1>1. itemState' = itemState /\ groupSize' = groupSize
  BY <1>0, ProducerEffect DEF ConsumersKeep
<1>2. CASE PPersist(p)
  <2>1. published' = published
    BY <1>2 DEF PPersist
  <2>2. k \in published'
    BY DEF DueTo
  <2>3. k \in published
    BY <2>1, <2>2
  <2>4. k[1] # writePointer[p]
    BY <2>3 DEF QueueInv, PublishedInv
  <2>5. k # <<writePointer[p], persisted[p]>>
    BY <2>4
  <2>6. (k \in entries' => k \in entries) /\ hash'[k] = hash[k]
    BY <1>0, <1>2, <2>5 DEF PPersist, PersistEntry, TypeOK, QueueTypeOK, ItemTypeOK
  <2> QED
    BY <1>1, <2>1, <2>6, Zenon DEF DueTo, Running, Processed, StateFor, Owns
<1>3. CASE ~PPersist(p)
  <2>1. entries' \subseteq entries /\ hash' = hash
    BY <1>3 DEF ProducerStep, PStart, PEmit, PFail, PFinish, PPersisted, PCommit, PRollback, PAbort,
                ProducerRollbackTx
  <2>2. \/ published' = published
        \/ /\ At(p, "commit") /\ CanCommit(p)
           /\ published' = published \cup ({writePointer[p]} \X (0 .. lastEnqueueCount[p] - 1))
    BY <1>3 DEF ProducerStep, PStart, PEmit, PFail, PFinish, PPersisted, PCommit, PRollback, PAbort
  <2>3. k \in published => DueTo(c, k)
    BY <1>1, <2>1, Zenon DEF DueTo, Running, Processed, StateFor, Owns
  <2>4. k \in published'
    BY DEF DueTo
  <2> QED
    BY <2>2, <2>3, <2>4 DEF CanCommit, Writing
<1> QED
  BY <1>2, <1>3

(* The producer's transaction after its step: a new one, which is the last, or
   the old one, or none. *)
LEMMA WritingAfter ==
  ASSUME TypeOK, LatestInv, \A p, q \in Producers : p = q, NEW p \in Producers, ProducerStep(p)
  PROVE  /\ LatestInv' /\ lastWriter' >= lastWriter /\ lastWriter' \in Nat
         /\ \A q \in Writing' : \/ q \in Writing /\ FirstWritten(q)' = FirstWritten(q)
                                \/ FirstWritten(q)'[1] > 2 * lastWriter
         /\ UNCHANGED <<consumerVars, driverVars>>
<1> USE DEF tephraVars, queueVars, historyVars, At, Goto
<1>0. /\ p \in Clients /\ lastWriter \in Nat
      /\ pc \in [Clients -> ProducerSteps \cup ConsumerSteps]
      /\ writePointer \in [Clients -> WritePointers \cup {NoTx}]
      /\ \A q \in Producers : q = p
  BY Basics
<1>1. UNCHANGED <<consumerVars, driverVars>>
  BY DEF ProducerStep, PStart, PEmit, PFail, PFinish, PPersist, PPersisted, PCommit, PRollback, PAbort
<1>2. CASE PStart(p)
  <2>1. /\ lastWriter' = lastWriter + 1 /\ writePointer'[p] = 2 * (lastWriter + 1)
    BY <1>0, <1>2 DEF PStart, StartWriter
  <2>2. LatestInv'
    BY <1>0, <2>1 DEF LatestInv
  <2>3. \A q \in Writing' : FirstWritten(q)'[1] > 2 * lastWriter
    BY <1>0, <2>1 DEF Writing, FirstWritten
  <2> QED
    BY <1>0, <1>1, <2>1, <2>2, <2>3
<1>3. CASE ~PStart(p)
  <2>1. EndTx(p) \/ UNCHANGED tephraVars
    BY <1>3 DEF ProducerStep, PEmit, PFail, PFinish, PPersist, PPersisted, PCommit, PRollback, PAbort
  <2>2. lastWriter' = lastWriter /\ writePointer'[p] \in {writePointer[p], NoTx}
    BY <1>0, <2>1 DEF EndTx
  <2>3. LatestInv'
    BY <1>0, <2>2 DEF LatestInv
  <2>4. p \in Writing' => p \in inProgress' /\ UNCHANGED tephraVars
    BY <2>1 DEF EndTx, Writing
  <2>5. pc'[p] \in {"emit", "persist", "commit"} => pc[p] \in {"emit", "persist", "commit"}
    BY <1>0, <1>3 DEF ProducerStep, PEmit, PFail, PFinish, PPersist, PPersisted, PCommit, PRollback, PAbort
  <2>6. p \in Writing' => p \in Writing /\ writePointer'[p] = writePointer[p]
    BY <2>4, <2>5 DEF Writing
  <2>7. \A q \in Writing' : q = p
    BY <1>0 DEF Writing
  <2>8. \A q \in Writing' : q \in Writing /\ FirstWritten(q)' = FirstWritten(q)
    BY <2>6, <2>7 DEF FirstWritten
  <2> QED
    BY <1>0, <1>1, <2>2, <2>3, <2>8
<1> QED
  BY <1>2, <1>3

(* The consumers stay where they are while producers write, publish and time
   out: what is or becomes due to c is not before startKey. *)
LEMMA SkipStill ==
  ASSUME TypeOK, TypeOK', NEW c \in Consumers, SkipFor(c),
         UNCHANGED <<consumerVars, driverVars>>, pc'[c] = pc[c],
         lastWriter' >= lastWriter, lastWriter' \in Nat,
         \A q \in Writing' : \/ q \in Writing /\ FirstWritten(q)' = FirstWritten(q)
                             \/ FirstWritten(q)'[1] > 2 * lastWriter,
         \A k \in Key : DueTo(c, k)' => \/ DueTo(c, k)
                                        \/ \E p \in Writing : k[1] = writePointer[p]
  PROVE  SkipFor(c)'
<1>1. /\ startKey' = startKey /\ cursor' = cursor /\ updateStartKey' = updateStartKey
      /\ dequeuedKeys' = dequeuedKeys /\ input' = input /\ retrying' = retrying
  BY DEF consumerVars, scanVars, driverVars
<1>2. InHand(c)' = InHand(c)
  BY <1>1 DEF InHand
<1>3. EmptyHandFor(c)'
  BY <1>1 DEF SkipFor, EmptyHandFor
<1>4. lastWriter \in Nat /\ Point(startKey[c]) /\ Point(cursor[c])
  BY Basics, Points
<1>5. \A q \in Writing' : Point(FirstWritten(q)')
  <2>1. \A q \in Producers : FirstWritten(q)'[1] \in Nat /\ FirstWritten(q)'[2] \in Nat
    <3>1. WritePointers \cup {NoTx} \subseteq Nat
      BY KeyParts DEF NoTx
    <3> QED
      BY <3>1 DEF TypeOK, TephraTypeOK, Clients, FirstWritten
  <2> QED
    BY <2>1 DEF Point, Writing
<1>6. ASSUME NEW a, Point(a), a[1] <= 2 * lastWriter,
             \A q \in Writing : LessOrEqual(a, FirstWritten(q))
      PROVE  \A q \in Writing' : LessOrEqual(a, FirstWritten(q)')
  <2> SUFFICES ASSUME NEW q \in Writing' PROVE LessOrEqual(a, FirstWritten(q)')
    OBVIOUS
  <2>1. CASE q \in Writing /\ FirstWritten(q)' = FirstWritten(q)
    BY <1>6, <2>1
  <2>2. CASE FirstWritten(q)'[1] > 2 * lastWriter
    BY <1>4, <1>5, <1>6, <2>2 DEF Point, LessOrEqual
  <2> QED
    BY <2>1, <2>2
<1>7. ASSUME NEW a, Point(a), \A k \in Key : DueTo(c, k) => LessOrEqual(a, k),
             \A q \in Writing : LessOrEqual(a, FirstWritten(q))
      PROVE  \A k \in Key : DueTo(c, k)' => LessOrEqual(a, k)
  <2> SUFFICES ASSUME NEW k \in Key, NEW p \in Writing, k[1] = writePointer[p]
               PROVE  LessOrEqual(a, k)
    BY <1>7
  <2>1. LessOrEqual(a, FirstWritten(p))
    BY <1>7
  <2>2. FirstWritten(p)[1] = k[1] /\ FirstWritten(p)[2] = 0
    BY DEF FirstWritten
  <2>3. k[1] \in Nat /\ k[2] \in Nat
    BY KeyParts
  <2> QED
    BY <1>7, <2>1, <2>2, <2>3 DEF LessOrEqual, Point
<1>8. BehindFor(c)'
  <2>1. BehindFor(c)
    BY DEF SkipFor
  <2>2. \A q \in Writing' : LessOrEqual(startKey[c], FirstWritten(q)')
    BY <1>4, <1>6, <2>1 DEF BehindFor
  <2>3. startKey[c][1] <= 2 * lastWriter' /\ (cursor[c] = EndKey \/ cursor[c][1] <= 2 * lastWriter')
    BY <1>4, <2>1 DEF BehindFor, Point
  <2> QED
    BY <1>1, <1>2, <2>1, <2>2, <2>3 DEF BehindFor
<1>9. FollowFor(c)'
  <2> SUFFICES ASSUME pc[c] = "scan", updateStartKey[c], cursor[c] # EndKey
               PROVE  /\ \A k \in Key : DueTo(c, k)' => LessOrEqual(cursor[c], k)
                      /\ \A p \in Writing' : LessOrEqual(cursor[c], FirstWritten(p)')
    BY <1>1 DEF FollowFor
  <2>1. /\ \A k \in Key : DueTo(c, k) => LessOrEqual(cursor[c], k)
        /\ \A p \in Writing : LessOrEqual(cursor[c], FirstWritten(p))
        /\ cursor[c][1] <= 2 * lastWriter
    BY DEF SkipFor, FollowFor, BehindFor
  <2> QED
    BY <1>4, <1>6, <1>7, <2>1
<1>10. NotPast(c)'
  <2>1. /\ \A k \in Key : DueTo(c, k) => LessOrEqual(startKey[c], k)
        /\ \A p \in Writing : LessOrEqual(startKey[c], FirstWritten(p))
    BY DEF SkipFor, NotPast, BehindFor
  <2>2. \A k \in Key : DueTo(c, k)' => LessOrEqual(startKey[c], k)
    BY <1>4, <1>7, <2>1
  <2> QED
    BY <1>1, <2>2 DEF NotPast
<1> QED
  BY <1>3, <1>8, <1>9, <1>10 DEF SkipFor

(* Nothing is due at first. *)
LEMMA SkipInit == Init => SkipInv
<1> SUFFICES ASSUME Init PROVE SkipInv
  OBVIOUS
<1>1. TypeOK
  BY InitType
<1>2. LatestInv
  BY DEF Init, TephraInit, LatestInv, Clients
<1>3. ASSUME NEW c \in Consumers PROVE SkipFor(c)
  <2>1. /\ pc[c] = "idle" /\ input[c] = {} /\ startKey[c] = NoKey /\ cursor[c] = EndKey
        /\ entries = {} /\ Writing = {} /\ lastWriter = 0
    BY DEF Init, QueueInit, TephraInit, Clients, Writing
  <2>2. NoKey[1] <= 2 * 0
    BY DEF NoKey
  <2> QED
    BY <2>1, <2>2 DEF SkipFor, EmptyHandFor, BehindFor, FollowFor, NotPast, InHand, DueTo
<1> QED
  BY <1>2, <1>3, SkipParts

(* Every step keeps SkipInv. *)
LEMMA SkipNext ==
  ASSUME \A p, q \in Producers : p = q, QueueInv, SkipInv, [Next]_vars
  PROVE  SkipInv'
<1>1. OnceInv /\ TypeOK /\ TypeOK' /\ LatestInv /\ \A d \in Consumers : SkipFor(d)
  BY SkipParts, QueueInvNext DEF QueueInv, OnceInv
<1>2. ASSUME LatestInv', \A d \in Consumers : SkipFor(d)' PROVE SkipInv'
  BY <1>2 DEF SkipInv, SkipFor, NotPast, NothingSkipped
<1>3. ASSUME NEW c \in Consumers, ConsumerStep(c) PROVE SkipInv'
  BY <1>3, SkipConsumer
<1>4. ASSUME NEW p \in Producers, ProducerStep(p) PROVE SkipInv'
  <2>1. /\ LatestInv' /\ lastWriter' >= lastWriter /\ lastWriter' \in Nat
        /\ \A q \in Writing' : \/ q \in Writing /\ FirstWritten(q)' = FirstWritten(q)
                               \/ FirstWritten(q)'[1] > 2 * lastWriter
        /\ UNCHANGED <<consumerVars, driverVars>>
    BY <1>1, <1>4, WritingAfter
  <2>2. \A c \in Consumers : pc'[c] = pc[c]
    BY <1>1, <1>4, ProducerEffect DEF ConsumersKeep
  <2>3. \A c \in Consumers, k \in Key : DueTo(c, k)' =>
           DueTo(c, k) \/ \E q \in Writing : k[1] = writePointer[q]
    BY <1>4, DueAfterCommit
  <2>4. \A c \in Consumers : SkipFor(c)'
    BY <1>1, <2>1, <2>2, <2>3, SkipStill
  <2> QED
    BY <1>2, <2>1, <2>4
<1>5. ASSUME UNCHANGED <<queueVars, pc, driverVars, historyVars, writePointer, lastWriter>>,
             inProgress' \subseteq inProgress
      PROVE  SkipInv'
  <2>1. LatestInv' /\ Writing' \subseteq Writing /\ \A q \in Writing : FirstWritten(q)' = FirstWritten(q)
    BY <1>1, <1>5 DEF LatestInv, Writing, FirstWritten
  <2>2. \A c \in Consumers, k \in Key : DueTo(c, k)' => DueTo(c, k)
    BY <1>5 DEF DueTo, Running, Processed, StateFor, Owns, queueVars, itemVars, historyVars
  <2>3. lastWriter' >= lastWriter /\ lastWriter' \in Nat
    BY <1>1, <1>5, Basics
  <2>4. UNCHANGED <<consumerVars, driverVars>> /\ \A c \in Consumers : pc'[c] = pc[c]
    BY <1>5 DEF queueVars
  <2>5. \A c \in Consumers : SkipFor(c)'
    BY <1>1, <2>1, <2>2, <2>3, <2>4, SkipStill
  <2> QED
    BY <1>2, <2>1, <2>5
<1>6. ASSUME NEW c \in TimeoutProcs, Timeout(c) PROVE SkipInv'
  BY <1>5, <1>6 DEF Timeout, TimeoutTx
<1>7. CASE UNCHANGED vars
  BY <1>5, <1>7 DEF vars, tephraVars
<1> QED
  BY <1>3, <1>4, <1>6, <1>7 DEF Next

(* With one producer the startKey a consumer keeps from one dequeue to the next
   never passes an entry that is committed and due to it: not while the scan
   runs beside persist, commit and rollback, nor when a later rollback gives an
   entry back.  The scan may run past a snapshot's end, dequeues may fail after
   claiming, and any transaction may time out. *)
THEOREM OneProducerNothingSkipped ==
  ASSUME \A p, q \in Producers : p = q
  PROVE  Spec => []NothingSkipped
<1>1. QueueInv /\ SkipInv /\ [Next]_vars => (QueueInv /\ SkipInv)'
  BY QueueInvNext, SkipNext
<1>2. Init => QueueInv /\ SkipInv
  BY QueueInvInit, SkipInit
<1>3. SkipInv => NothingSkipped
  BY DEF SkipInv
<1> QED
  BY <1>1, <1>2, <1>3, PTL DEF Spec
=============================================================================
