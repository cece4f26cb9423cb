---------------------------- MODULE InMemoryQueue ----------------------------
(***************************************************************************)
(* The in-memory transactional queue: the shared skip list of entries      *)
(* (InMemoryQueue.java) and the two transaction-aware clients that work on *)
(* it, InMemoryQueueProducer (with AbstractQueueProducer) and              *)
(* InMemoryQueueConsumer.  Every operator below is one method, or one      *)
(* iteration of its loop where other threads can get in between.           *)
(*                                                                         *)
(* An entry's key is <<transaction id, sequence number>>.  A key is never  *)
(* inserted twice, so the fields of its Item are kept in functions over    *)
(* all keys and "entries" is the set of keys now in the map.               *)
(***************************************************************************)
EXTENDS Tephra

CONSTANTS Groups,        \* consumer groups of the queue (one per reading flowlet)
          FifoGroups,    \* the groups that dequeue FIFO; the others hash (HASH, ROUND_ROBIN)
          MaxInstances,  \* bound: instances a group may have
          InitialSize,   \* instances every group starts with
          Hashes,        \* hash values an entry may carry (ints)
          IntWidth,      \* width of a Java int
          MaxEnqueue,    \* bound: entries one transaction enqueues
          MaxBatch       \* maxBatchSize of every dequeue

Instances == 0 .. MaxInstances - 1

ASSUME QueueAssumption ==
  /\ Consumers = Groups \X Instances
  /\ FifoGroups \subseteq Groups
  /\ IsFiniteSet(Groups)
  /\ MaxInstances \in Nat /\ InitialSize \in 1 .. MaxInstances
  /\ Hashes \subseteq Int /\ 0 \in Hashes
  /\ IntWidth \in Nat /\ MaxEnqueue \in Nat /\ MaxBatch \in Nat \ {0}

VARIABLES
  entries,            \* keys in the skip list
  itemState,          \* Item.consumerStates: per group and key, state and holder
  processedCount,     \* Item.processedCount
  hash,               \* the hash value Item.entry has for the groups that hash
  pending,            \* per producer: entries buffered in this transaction
  persisted,          \* per producer: entries written so far by persist
  commitTransaction,  \* per producer: the transaction persist wrote for, or NoTx
  lastEnqueueCount,   \* per producer: how many entries persist wrote last
  startKey,           \* per consumer: where the next dequeue starts scanning
  cursor,             \* per consumer: the key its iterator returns next
  updateStartKey,     \* per consumer: local of dequeue
  dequeuedKeys,       \* per consumer: entries dequeued (or reclaimed) in this transaction
  committed,          \* per consumer: commitTx has run in this transaction
  groupSize           \* per group: ConsumerConfig.getGroupSize of its consumers

itemVars     == <<entries, itemState, processedCount, hash>>
producerVars == <<pending, persisted, commitTransaction, lastEnqueueCount>>
scanVars     == <<startKey, cursor, updateStartKey>>
consumerVars == <<scanVars, dequeuedKeys, committed>>
queueVars    == <<itemVars, producerVars, consumerVars, groupSize>>

-----------------------------------------------------------------------------
(* Keys and their order (Key.compareTo). *)

SeqIds == 0 .. MaxEnqueue - 1
Key == WriterIds \X SeqIds
NoKey == <<0, 0>>                 \* a null startKey: before every key
EndKey == <<NoTxInProgress, 0>>   \* an exhausted iterator: after every key

LessOrEqual(a, b) == a[1] < b[1] \/ (a[1] = b[1] /\ a[2] <= b[2])
Less(a, b) == LessOrEqual(a, b) /\ a # b

First(S) == IF S = {} THEN EndKey ELSE CHOOSE k \in S : \A j \in S : LessOrEqual(k, j)

NoState == [state |-> "NONE", instance |-> 0]
ItemStates == [state : {"NONE", "CLAIMED", "PROCESSED"}, instance : Nat]

GroupOf(c) == c[1]
InstanceOf(c) == c[2]
StateFor(c, k) == itemState[GroupOf(c)][k]

ItemTypeOK ==
  /\ entries \subseteq Key
  /\ itemState \in [Groups -> [Key -> ItemStates]]
  /\ processedCount \in [Key -> Nat]
  /\ hash \in [Key -> Hashes]

ProducerTypeOK ==
  /\ pending \in [Producers -> 0 .. MaxEnqueue]
  /\ persisted \in [Producers -> 0 .. MaxEnqueue]
  /\ commitTransaction \in [Producers -> WriterIds \cup {NoTx}]
  /\ lastEnqueueCount \in [Producers -> 0 .. MaxEnqueue]

ConsumerTypeOK ==
  /\ startKey \in [Consumers -> Key \cup {NoKey}]
  /\ cursor \in [Consumers -> Key \cup {EndKey}]
  /\ updateStartKey \in [Consumers -> BOOLEAN]
  /\ dequeuedKeys \in [Consumers -> SUBSET Key]
  /\ committed \in [Consumers -> BOOLEAN]

QueueTypeOK ==
  /\ ItemTypeOK
  /\ ProducerTypeOK
  /\ ConsumerTypeOK
  /\ groupSize \in [Groups -> 1 .. MaxInstances]

QueueInit ==
  /\ entries = {}
  /\ itemState = [g \in Groups |-> [k \in Key |-> NoState]]
  /\ processedCount = [k \in Key |-> 0]
  /\ hash = [k \in Key |-> 0]
  /\ pending = [p \in Producers |-> 0]
  /\ persisted = [p \in Producers |-> 0]
  /\ commitTransaction = [p \in Producers |-> NoTx]
  /\ lastEnqueueCount = [p \in Producers |-> 0]
  /\ startKey = [c \in Consumers |-> NoKey]
  /\ cursor = [c \in Consumers |-> EndKey]
  /\ updateStartKey = [c \in Consumers |-> TRUE]
  /\ dequeuedKeys = [c \in Consumers |-> {}]
  /\ committed = [c \in Consumers |-> FALSE]
  /\ groupSize = [g \in Groups |-> InitialSize]

-----------------------------------------------------------------------------
(* Producer: AbstractQueueProducer and InMemoryQueueProducer. *)

(* Mutant: startTx forgets to reset commitTransaction. *)
StartTxKeepsCommit(p) ==
  /\ pending' = [pending EXCEPT ![p] = 0]
  /\ UNCHANGED <<persisted, commitTransaction, lastEnqueueCount>>

(* startTx: the buffer is cleared and nothing has been persisted yet. *)
ProducerStartTx(p) ==
  /\ pending' = [pending EXCEPT ![p] = 0]
  /\ commitTransaction' = [commitTransaction EXCEPT ![p] = NoTx]
  /\ UNCHANGED <<persisted, lastEnqueueCount>>

(* enqueue: one more entry is buffered. *)
Enqueue(p) ==
  /\ pending[p] < MaxEnqueue
  /\ pending' = [pending EXCEPT ![p] = @ + 1]
  /\ UNCHANGED <<persisted, commitTransaction, lastEnqueueCount>>

(* commitTx up to the loop of persist. *)
BeginPersist(p) ==
  /\ commitTransaction' = [commitTransaction EXCEPT ![p] = writePointer[p]]
  /\ UNCHANGED <<pending, persisted, lastEnqueueCount>>

(* One iteration of persist: InMemoryQueue.enqueue of the next entry. *)
PersistEntry(p) ==
  LET k == <<writePointer[p], persisted[p]>>
  IN  /\ persisted[p] < pending[p]
      /\ entries' = entries \cup {k}
      /\ \E h \in Hashes : hash' = [hash EXCEPT ![k] = h]
      /\ persisted' = [persisted EXCEPT ![p] = @ + 1]
      /\ UNCHANGED <<itemState, processedCount, pending, commitTransaction, lastEnqueueCount>>

(* The end of persist; the drained entries and the loop counter were locals. *)
EndPersist(p) ==
  /\ persisted[p] = pending[p]
  /\ lastEnqueueCount' = [lastEnqueueCount EXCEPT ![p] = persisted[p]]
  /\ pending' = [pending EXCEPT ![p] = 0]
  /\ persisted' = [persisted EXCEPT ![p] = 0]
  /\ UNCHANGED commitTransaction

(* Mutant: doRollback leaves the last entry of the batch. *)
UndoAllButLast(p) ==
  IF commitTransaction[p] = NoTx THEN {}
  ELSE {commitTransaction[p]} \X (0 .. lastEnqueueCount[p] - 2)

(* Keys that doRollback removes: the last persisted batch, if this
   transaction persisted one. *)
UndoKeys(p) ==
  IF commitTransaction[p] = NoTx THEN {}
  ELSE {commitTransaction[p]} \X (0 .. lastEnqueueCount[p] - 1)

(* rollbackTx and doRollback. *)
ProducerRollbackTx(p) ==
  /\ entries' = entries \ UndoKeys(p)
  /\ UNCHANGED <<itemState, processedCount, hash, producerVars>>

-----------------------------------------------------------------------------
(* Consumer: InMemoryQueueConsumer and the dequeue side of InMemoryQueue. *)

ConsumerStartTx(c) ==
  /\ dequeuedKeys' = [dequeuedKeys EXCEPT ![c] = {}]
  /\ committed' = [committed EXCEPT ![c] = FALSE]
  /\ UNCHANGED scanVars

(* dequeue up to its loop: an iterator over the entries from startKey on,
   which has looked up its first key already. *)
BeginDequeue(c) ==
  /\ cursor' = [cursor EXCEPT ![c] = First({k \in entries : LessOrEqual(startKey[c], k)})]
  /\ UNCHANGED <<startKey, updateStartKey, dequeuedKeys, committed>>

(* Mutant: startKey moves past entries that are not settled. *)
AdvancesPastUnsettled(c, k) == k[1] < snapshot[c].firstShort

(* startKey follows the scan as long as every entry so far is settled and
   older than all transactions open in the snapshot. *)
AdvancesStartKey(c, k) == updateStartKey[c] /\ k[1] < snapshot[c].firstShort

(* What each iteration does first: the iterator moves on, looking up the key
   after this one, and startKey is advanced. *)
VisitKey(c) ==
  LET k == cursor[c]
  IN  /\ k # EndKey
      /\ Cardinality(dequeuedKeys[c]) < MaxBatch
      /\ startKey' = IF AdvancesStartKey(c, k) THEN [startKey EXCEPT ![c] = k] ELSE startKey

MoveOn(c) == cursor' = [cursor EXCEPT ![c] = First({j \in entries : Less(cursor[c], j)})]

(* Mutant: entries of open transactions are not excluded. *)
HiddenNever(c, k) == FALSE

Newer(c, k) == snapshot[c].readPointer < k[1]
Hidden(c, k) == k[1] \in snapshot[c].inProgress
Processed(c, k) == StateFor(c, k).state = "PROCESSED"

Revisit(c) == updateStartKey' = [updateStartKey EXCEPT ![c] = FALSE]
Take(c, k) == dequeuedKeys' = [dequeuedKeys EXCEPT ![c] = @ \cup {k}]

(* The entry and all that follow are newer than the snapshot: the loop ends. *)
ScanNewer(c) ==
  /\ VisitKey(c)
  /\ Newer(c, cursor[c])
  /\ cursor' = [cursor EXCEPT ![c] = EndKey]
  /\ UNCHANGED <<itemVars, updateStartKey, dequeuedKeys, committed>>

(* The entry's transaction was open when the snapshot was taken. *)
ScanInProgress(c) ==
  /\ VisitKey(c) /\ MoveOn(c)
  /\ ~Newer(c, cursor[c])
  /\ Hidden(c, cursor[c])
  /\ Revisit(c)
  /\ UNCHANGED <<itemVars, dequeuedKeys, committed>>

Candidate(c, k) == ~Newer(c, k) /\ ~Hidden(c, k) /\ k \in entries /\ ~Processed(c, k)

(* The entry was removed since the iterator saw it, or is processed already. *)
ScanSettled(c) ==
  /\ VisitKey(c) /\ MoveOn(c)
  /\ ~Newer(c, cursor[c])
  /\ ~Hidden(c, cursor[c])
  /\ cursor[c] \notin entries \/ Processed(c, cursor[c])
  /\ UNCHANGED <<itemVars, updateStartKey, dequeuedKeys, committed>>

(* Mutants: a claim is anybody's to take; a claim is never its holder's again. *)
ReclaimableByAnyone(c, s) == s.state = "CLAIMED"
ReclaimableIfGone(c, s) == s.instance >= groupSize[GroupOf(c)]

(* Item.claim when the group has a state for the entry already: its holder is
   gone or is the caller, who has it claimed. *)
Reclaimable(c, s) ==
  \/ s.instance >= groupSize[GroupOf(c)]
  \/ s.instance = InstanceOf(c) /\ s.state = "CLAIMED"

SetState(c, K, s) ==
  itemState' = [itemState EXCEPT ![GroupOf(c)] =
                  [k \in Key |-> IF k \in K \cap entries THEN s ELSE itemState[GroupOf(c)][k]]]

StateBy(c, st) == [state |-> st, instance |-> InstanceOf(c)]

(* FIFO, the entry is free: putIfAbsent claims it. *)
ScanClaim(c) ==
  LET k == cursor[c]
  IN  /\ VisitKey(c) /\ MoveOn(c)
      /\ GroupOf(c) \in FifoGroups
      /\ Candidate(c, k)
      /\ StateFor(c, k).state = "NONE"
      /\ SetState(c, {k}, StateBy(c, "CLAIMED"))
      /\ Take(c, k)
      /\ Revisit(c)
      /\ UNCHANGED <<entries, processedCount, hash, committed>>

(* FIFO, the entry has a claim: it is taken when the claim allows, and left
   for a later visit otherwise. *)
ScanClaimed(c) ==
  LET k == cursor[c]
  IN  /\ VisitKey(c) /\ MoveOn(c)
      /\ GroupOf(c) \in FifoGroups
      /\ Candidate(c, k)
      /\ StateFor(c, k).state # "NONE"
      /\ IF Reclaimable(c, StateFor(c, k)) THEN Take(c, k) ELSE UNCHANGED dequeuedKeys
      /\ Revisit(c)
      /\ UNCHANGED <<itemVars, committed>>

(* Mutants: the sign is not dropped; the hash is not looked at. *)
AbsIdentity(h) == h
OwnsEverything(i, n, k) == TRUE

(* Math.abs of a Java int: the smallest int is its own absolute value. *)
JavaAbs(h) == IF h < 0 /\ h # -(2 ^ (IntWidth - 1)) THEN -h ELSE h

(* Java's remainder takes the sign of the dividend. *)
JavaRem(a, n) == IF a >= 0 THEN a % n ELSE -((-a) % n)

(* HASH and ROUND_ROBIN: the instance of a group of size n an entry falls to. *)
Owns(i, n, k) == n = 1 \/ JavaRem(JavaAbs(hash[k]), n) = i

(* HASH and ROUND_ROBIN: the entry is taken by the instance it falls to. *)
ScanHash(c) ==
  LET k == cursor[c]
      mine == Owns(InstanceOf(c), groupSize[GroupOf(c)], k)
  IN  /\ VisitKey(c) /\ MoveOn(c)
      /\ GroupOf(c) \notin FifoGroups
      /\ Candidate(c, k)
      /\ IF mine THEN Take(c, k) /\ Revisit(c) ELSE UNCHANGED <<dequeuedKeys, updateStartKey>>
      /\ UNCHANGED <<itemVars, committed>>

(* One iteration of dequeue's loop. *)
ScanKey(c) ==
  \/ ScanNewer(c)
  \/ ScanInProgress(c)
  \/ ScanSettled(c)
  \/ ScanClaim(c)
  \/ ScanClaimed(c)
  \/ ScanHash(c)

(* The loop ends: no key is left or the batch is full. *)
ScanDone(c) == cursor[c] = EndKey \/ Cardinality(dequeuedKeys[c]) >= MaxBatch

(* dequeue returns and its locals are gone. *)
EndDequeue(c) ==
  /\ ScanDone(c)
  /\ cursor' = [cursor EXCEPT ![c] = EndKey]
  /\ updateStartKey' = [updateStartKey EXCEPT ![c] = TRUE]
  /\ UNCHANGED <<startKey, dequeuedKeys, committed>>

(* DequeueResult.reclaim: a retried or ignored input joins this transaction. *)
Reclaim(c, K) ==
  /\ dequeuedKeys' = [dequeuedKeys EXCEPT ![c] = @ \cup K]
  /\ UNCHANGED <<scanVars, committed>>

(* Mutant: commitTx does not acknowledge. *)
CommitTxWithoutAck(c) ==
  /\ committed' = [committed EXCEPT ![c] = TRUE]
  /\ UNCHANGED <<itemVars, scanVars, dequeuedKeys>>

(* commitTx: ack marks the dequeued entries that still exist. *)
ConsumerCommitTx(c) ==
  /\ SetState(c, dequeuedKeys[c], StateBy(c, "PROCESSED"))
  /\ committed' = [committed EXCEPT ![c] = TRUE]
  /\ UNCHANGED <<entries, processedCount, hash, scanVars, dequeuedKeys>>

(* Mutants: the first group to process an entry removes it; the count has to
   exceed the number of groups. *)
EvictAtFirstGroup(c) ==
  /\ processedCount' = processedCount
  /\ entries' = entries \ dequeuedKeys[c]
  /\ UNCHANGED <<itemState, hash, consumerVars>>

EvictPastLastGroup(c) ==
  LET K == dequeuedKeys[c] \cap entries
  IN  /\ processedCount' = [k \in Key |-> processedCount[k] + IF k \in K THEN 1 ELSE 0]
      /\ entries' = entries \ {k \in K : processedCount'[k] > Cardinality(Groups)}
      /\ UNCHANGED <<itemState, hash, consumerVars>>

(* postTxCommit: evict counts this group, and the last group removes. *)
ConsumerPostTxCommit(c) ==
  LET K == dequeuedKeys[c] \cap entries
  IN  /\ processedCount' = [k \in Key |-> processedCount[k] + IF k \in K THEN 1 ELSE 0]
      /\ entries' = entries \ {k \in K : processedCount'[k] >= Cardinality(Groups)}
      /\ UNCHANGED <<itemState, hash, consumerVars>>

(* Mutant: undoDequeue releases FIFO entries instead of keeping them claimed. *)
RollbackReleases(c) ==
  /\ SetState(c, dequeuedKeys[c], NoState)
  /\ dequeuedKeys' = [dequeuedKeys EXCEPT ![c] = {}]
  /\ UNCHANGED <<entries, processedCount, hash, scanVars, committed>>

(* rollbackTx: undoDequeue gives FIFO entries back as claimed and takes the
   mark off entries of the other strategies if it had been set. *)
ConsumerRollbackTx(c) ==
  /\ IF GroupOf(c) \in FifoGroups
     THEN SetState(c, dequeuedKeys[c], StateBy(c, "CLAIMED"))
     ELSE IF committed[c] THEN SetState(c, dequeuedKeys[c], NoState)
     ELSE UNCHANGED itemState
  /\ dequeuedKeys' = [dequeuedKeys EXCEPT ![c] = {}]
  /\ UNCHANGED <<entries, processedCount, hash, scanVars, committed>>
=============================================================================
