------------------------------- MODULE Tephra -------------------------------
(***************************************************************************)
(* The transaction manager the queues run under (Tephra, a library outside *)
(* this repository).  It is modelled from what the queue clients observe:  *)
(* TransactionContext.start/finish/abort hand every client a snapshot with *)
(* a read pointer, the transactions in progress and the oldest of them     *)
(* (Transaction.getReadPointer, isInProgress, getFirstShortInProgress).    *)
(*                                                                         *)
(* Write pointers are abstracted to what a queue can tell apart.  Only the *)
(* transactions of producers stamp queue entries, so they get a fresh even *)
(* number each; the transactions of consumers are only ever compared with  *)
(* those stamps, so all that start between two producer transactions share *)
(* the odd number between them.  Consumers may thus poll forever while the *)
(* state space stays finite.                                               *)
(***************************************************************************)
EXTENDS Integers, FiniteSets

CONSTANTS Producers,    \* clients whose transactions enqueue
          Consumers,    \* clients whose transactions only dequeue
          MaxTx         \* bound: how many producer transactions are started

ASSUME TephraAssumption == MaxTx \in Nat /\ Producers \cap Consumers = {}

Clients == Producers \cup Consumers

NoTx == 0
WriterIds == {2 * n : n \in 1 .. MaxTx}
WritePointers == 1 .. 2 * MaxTx + 1
NoTxInProgress == 2 * MaxTx + 2      \* Transaction.NO_TX_IN_PROGRESS

VARIABLES
  readPointer,   \* largest write pointer that has committed or aborted
  lastWriter,    \* number of producer transactions started so far
  inProgress,    \* clients whose current transaction the manager keeps open
  writePointer,  \* per client: the write pointer it works under, or NoTx
  snapshot       \* per consumer: what its current transaction may see

tephraVars == <<readPointer, lastWriter, inProgress, writePointer, snapshot>>

Snapshots == [readPointer : 0 .. NoTxInProgress,
              inProgress  : SUBSET WriterIds,
              firstShort  : 1 .. NoTxInProgress]

EmptySnapshot == [readPointer |-> 0, inProgress |-> {}, firstShort |-> NoTxInProgress]

TephraTypeOK ==
  /\ readPointer \in 0 .. NoTxInProgress
  /\ lastWriter \in 0 .. MaxTx
  /\ writePointer \in [Clients -> WritePointers \cup {NoTx}]
  /\ \A p \in Producers : writePointer[p] \in WriterIds \cup {NoTx}
  /\ inProgress \subseteq {c \in Clients : writePointer[c] # NoTx}
  /\ snapshot \in [Consumers -> Snapshots]

TephraInit ==
  /\ readPointer = 0
  /\ lastWriter = 0
  /\ inProgress = {}
  /\ writePointer = [c \in Clients |-> NoTx]
  /\ snapshot = [c \in Consumers |-> EmptySnapshot]

(* Write pointers of every open transaction. *)
OpenPointers == {writePointer[c] : c \in inProgress}

(* Transaction.getFirstShortInProgress of a transaction that starts now. *)
FirstShortInProgress ==
  IF OpenPointers = {} THEN NoTxInProgress
  ELSE CHOOSE w \in OpenPointers : \A v \in OpenPointers : w <= v

(* TransactionSystemClient.startShort for a producer: a fresh write pointer. *)
StartWriter(p) ==
  /\ lastWriter < MaxTx
  /\ lastWriter' = lastWriter + 1
  /\ writePointer' = [writePointer EXCEPT ![p] = 2 * (lastWriter + 1)]
  /\ inProgress' = inProgress \cup {p}
  /\ UNCHANGED <<readPointer, snapshot>>

(* TransactionSystemClient.startShort for a consumer, which reads as of now. *)
StartReader(c) ==
  /\ writePointer' = [writePointer EXCEPT ![c] = 2 * lastWriter + 1]
  /\ inProgress' = inProgress \cup {c}
  /\ snapshot' = [snapshot EXCEPT ![c] =
       [readPointer |-> readPointer,
        inProgress  |-> {writePointer[p] : p \in inProgress \cap Producers},
        firstShort  |-> FirstShortInProgress]]
  /\ UNCHANGED <<readPointer, lastWriter>>

(* canCommit and commit refuse a transaction that is no longer in progress. *)
CanCommit(c) == c \in inProgress

ForgetSnapshot(c) ==
  snapshot' = IF c \in Consumers THEN [snapshot EXCEPT ![c] = EmptySnapshot] ELSE snapshot

(* The manager closes c's transaction, committed or aborted; abort is also
   accepted for a transaction that has timed out. *)
EndTx(c) ==
  /\ readPointer' = IF writePointer[c] > readPointer THEN writePointer[c] ELSE readPointer
  /\ writePointer' = [writePointer EXCEPT ![c] = NoTx]
  /\ inProgress' = inProgress \ {c}
  /\ ForgetSnapshot(c)
  /\ UNCHANGED lastWriter

(* The manager gives up on a transaction that has been open for too long;
   its client finds out when it tries to commit. *)
TimeoutTx(c) ==
  /\ c \in inProgress
  /\ inProgress' = inProgress \ {c}
  /\ UNCHANGED <<readPointer, lastWriter, writePointer, snapshot>>
=============================================================================
