---------------------------- MODULE QueueFlowInv ----------------------------
(***************************************************************************)
(* The inductive invariant behind the safety properties of QueueFlow.      *)
(***************************************************************************)
EXTENDS QueueFlow

(* The entries consumer c may still use up, or has just used up: its input
   and what its queue consumer holds in the open transaction. *)
InHand(c) == input[c] \cup (IF pc[c] = "idle" THEN {} ELSE dequeuedKeys[c])

(* Instances at work belong to their group, and without resizing no input
   ever outlives its queue consumer. *)
InstancesInv ==
  \A c \in Consumers : ~detached[c] /\ (pc[c] # "idle" => Running(c))

(* Whoever has a mark on an entry is an instance of the group. *)
HolderInv ==
  \A g \in Groups : \A k \in Key :
     itemState[g][k].state # "NONE" => itemState[g][k].instance < groupSize[g]

(* What entitles c to use entry k up. *)
Entitled(c, k) ==
  IF GroupOf(c) \in FifoGroups
  THEN StateFor(c, k).state # "NONE" /\ StateFor(c, k).instance = InstanceOf(c)
  ELSE Running(c) /\ Owns(InstanceOf(c), groupSize[GroupOf(c)], k)

EntitledInv == \A c \in Consumers : \A k \in InHand(c) : Entitled(c, k)

(* An entry in hand has not been used up, until the commit of its own
   transaction. *)
FreshInv ==
  \A c \in Consumers : \A k \in InHand(c) : pc[c] # "post" => consumed[GroupOf(c)][k] = 0

(* An entry that was used up stays marked for as long as it is there. *)
MarkedInv ==
  \A g \in Groups : \A k \in entries :
     consumed[g][k] # 0 => itemState[g][k].state = "PROCESSED"

(* A transaction that is about to finish holds its whole input, and once
   commitTx has run the input is marked. *)
CommitFor(c) ==
  /\ pc[c] = "process" /\ retry[c] = 0 => input[c] \subseteq dequeuedKeys[c]
  /\ pc[c] \in {"finish", "commit"} => input[c] \subseteq dequeuedKeys[c]
  /\ pc[c] = "commit" => \A k \in dequeuedKeys[c] \cap entries : Processed(c, k)

CommitInv == \A c \in Consumers : CommitFor(c)

(* Write pointers of producers are handed out once. *)
WritersInv ==
  /\ \A p \in Producers : writePointer[p] <= 2 * lastWriter
  /\ \A p, q \in Producers : p # q /\ writePointer[p] # NoTx => writePointer[p] # writePointer[q]

(* Producer p is still to insert key k, if at all. *)
ToInsert(p, k) ==
  /\ writePointer[p] = k[1]
  /\ pc[p] = "emit" \/ (pc[p] = "persist" /\ k[2] >= persisted[p])

(* Nobody has to do with a key before it is inserted. *)
UnbornInv ==
  \A k \in Key :
     k[1] > 2 * lastWriter \/ (\E p \in Producers : ToInsert(p, k))
       => /\ k \notin entries
          /\ \A c \in Consumers : k \notin InHand(c)
          /\ \A g \in Groups : consumed[g][k] = 0

OnceInv ==
  /\ TypeOK
  /\ InstancesInv
  /\ HolderInv
  /\ EntitledInv
  /\ FreshInv
  /\ MarkedInv
  /\ CommitInv
  /\ WritersInv
  /\ UnbornInv
  /\ AtMostOnce
-----------------------------------------------------------------------------
(* What the properties about publishing and removing need besides. *)

(* A producer has a write pointer exactly while it is busy, has persisted
   nothing outside of persist, and remembers the transaction it persisted. *)
BusyFor(p) ==
  /\ pc[p] \in ProducerSteps
  /\ pc[p] = "idle" => writePointer[p] = NoTx
  /\ pc[p] # "persist" => persisted[p] = 0
  /\ pc[p] \in {"persist", "commit"} => commitTransaction[p] = writePointer[p]
  /\ pc[p] = "rollback" => commitTransaction[p] \in {NoTx, writePointer[p]}
  /\ pc[p] = "emit" => commitTransaction[p] = NoTx

BusyInv == \A p \in Producers : BusyFor(p)

(* The entries of p's transaction are those that commit publishes and that
   undoEnqueue finds; after it none is left. *)
WrittenFor(p) ==
  \A k \in entries : k[1] = writePointer[p] =>
     /\ pc[p] = "commit" => k[2] < lastEnqueueCount[p]
     /\ pc[p] = "rollback" => k \in UndoKeys(p)
     /\ pc[p] # "abort"

WrittenInv == \A p \in Producers : WrittenFor(p)

(* What is published was written under a pointer that is used up. *)
PublishedInv ==
  \A k \in published : k[1] <= 2 * lastWriter /\ \A p \in Producers : writePointer[p] # k[1]

(* The snapshot of a consumer hides every transaction that is still open, those
   that started later by being newer than what it reads. *)
SnapshotInv ==
  /\ readPointer <= 2 * lastWriter + 1
  /\ \A c \in Clients : writePointer[c] <= 2 * lastWriter + 1
  /\ \A c \in Consumers :
       /\ snapshot[c].readPointer <= 2 * lastWriter + 1
       /\ \A p \in inProgress \cap Producers :
            \/ writePointer[p] \in snapshot[c].inProgress
            \/ writePointer[p] > snapshot[c].readPointer

(* The entries of an open transaction are all there, and in nobody's hand. *)
OpenFor(p) ==
  \A k \in Key : k[1] = writePointer[p] =>
     /\ \A c \in Consumers : k \notin InHand(c)
     /\ \/ pc[p] = "persist" /\ k[2] < persisted[p]
        \/ pc[p] = "commit" /\ k[2] < lastEnqueueCount[p]
        => k \in entries

OpenInv == \A p \in inProgress \cap Producers : OpenFor(p)

(* What the queue consumer holds is the input, and has been counted as used up
   once the transaction is committed. *)
HandFor(c) ==
  /\ pc[c] \in {"process", "finish", "commit", "post"} => dequeuedKeys[c] \subseteq input[c]
  /\ pc[c] = "post" => \A k \in input[c] : consumed[GroupOf(c)][k] # 0

HandInv == \A c \in Consumers : HandFor(c)

(* The groups that have used k up and gone through postTxCommit. *)
Posted(c, k) == pc[c] = "post" /\ k \in input[c]
DoneGroups(k) ==
  {g \in Groups : /\ consumed[g][k] # 0
                  /\ \A c \in Consumers : GroupOf(c) = g => ~Posted(c, k)}

CountInv == \A k \in Key : processedCount[k] <= Cardinality(DoneGroups(k))

QueueInv ==
  /\ OnceInv
  /\ BusyInv
  /\ WrittenInv
  /\ PublishedInv
  /\ AbortLeavesNothing
  /\ SnapshotInv
  /\ OpenInv
  /\ HandInv
  /\ CountInv
  /\ RemovedOnlyWhenConsumed

(* Without a timeout of a producer's transaction the manager keeps it open. *)
WritersOpen == \A p \in Producers : writePointer[p] # NoTx => p \in inProgress

HandsClean == \A c \in Consumers : InHand(c) \subseteq published
-----------------------------------------------------------------------------
(* What keeps startKey behind the entries to consume, with one producer. *)

(* The producer's transactions follow each other: the open one is the last. *)
LatestInv == \A p \in Producers : writePointer[p] # NoTx => writePointer[p] = 2 * lastWriter

(* The producers whose transaction may yet commit entries. *)
Writing == {p \in inProgress \cap Producers : pc[p] \in {"emit", "persist", "commit"}}
FirstWritten(p) == <<writePointer[p], 0>>

(* A dequeue starts with nothing in hand, and startKey no longer moves once the
   scan has taken something. *)
EmptyHandFor(c) ==
  /\ pc[c] = "idle" /\ ~retrying[c] => input[c] = {}
  /\ pc[c] \in {"begin", "scan"} => input[c] = {}
  /\ pc[c] = "begin" => dequeuedKeys[c] = {}
  /\ pc[c] = "scan" /\ updateStartKey[c] => dequeuedKeys[c] = {}

(* startKey and the cursor are at keys that were written, and startKey is
   neither past the cursor, nor past an entry in hand, nor past what an open
   transaction is to write. *)
BehindFor(c) ==
  /\ startKey[c][1] <= 2 * lastWriter
  /\ cursor[c] = EndKey \/ cursor[c][1] <= 2 * lastWriter
  /\ pc[c] = "scan" => LessOrEqual(startKey[c], cursor[c])
  /\ \A k \in InHand(c) : LessOrEqual(startKey[c], k)
  /\ \A p \in Writing : LessOrEqual(startKey[c], FirstWritten(p))

(* As long as startKey follows the scan, the scan has not passed an entry the
   consumer has to consume now, or will have to when an open transaction
   commits. *)
FollowFor(c) ==
  pc[c] = "scan" /\ updateStartKey[c] /\ cursor[c] # EndKey =>
     /\ \A k \in Key : DueTo(c, k) => LessOrEqual(cursor[c], k)
     /\ \A p \in Writing : LessOrEqual(cursor[c], FirstWritten(p))

SkipInv ==
  /\ LatestInv
  /\ \A c \in Consumers : EmptyHandFor(c) /\ BehindFor(c) /\ FollowFor(c)
  /\ NothingSkipped
=============================================================================
