------------------------------ MODULE RingBuffer ------------------------------
(***************************************************************************)
(* The shared-memory ring buffer between one producing and one consuming   *)
(* process of the stream engine (gscpipc.h, gscpipc_createshm).            *)
(*                                                                         *)
(* Offsets count bytes of start[].  A tuple at offset w takes Header bytes *)
(* (sizeof(struct tuple)-1) and its payload.  `tuple' is the memory seen   *)
(* as the headers at the offsets where a header was written: it is exact   *)
(* as long as no slot is written over an unread one, which NoOverwrite of  *)
(* TupleStream states.  `unread' is a history variable: the slots that were *)
(* published and not yet read, oldest first.                               *)
(***************************************************************************)
EXTENDS Integers, Sequences, FiniteSets

CONSTANTS MaxTupleSz,   \* MAXTUPLESZ
          Header,       \* sizeof(struct tuple)-1: producer, size and next
          RingHeader,   \* sizeof(struct ringbuf)-1, which length counts too
          End           \* length-MAXTUPLESZ, where the writer wraps

\* gscpipc_createshm refuses a length below 4*MAXTUPLESZ.
ASSUME RingAssumption ==
    /\ MaxTupleSz \in Nat /\ Header \in Nat \ {0} /\ End \in Nat /\ RingHeader \in Nat
    /\ Header < MaxTupleSz
    /\ End >= 3 * MaxTupleSz

Offsets == 0 .. End - 1

NoTuple == [id |-> 0, sz |-> 0, next |-> 0]

\* gscpipc_createshm: zeroed memory, both indices at 0.
EmptyRing == [reader |-> 0, writer |-> 0, tuple |-> [o \in Offsets |-> NoTuple],
              unread |-> <<>>]

CurWrite(r) == r.tuple[r.writer]
CurRead(r) == r.tuple[r.reader]
\* Mutant: a reader that takes the indices for a range.
UnreadBelow(r) == r.reader < r.writer
Unread(r) == r.reader # r.writer

\* Mutant: the room between the reader and a writer ahead of it is not counted.
SpaceToWriteAhead(r) == r.reader <= r.writer \/ r.reader - r.writer > MaxTupleSz
SpaceToWrite(r) ==
    \/ r.reader <= r.writer /\ r.reader + End - r.writer > MaxTupleSz
    \/ r.reader >  r.writer /\ r.reader - r.writer > MaxTupleSz

\* The stores of f, sz and data into the slot at the writer.
Fill(r, t) == [r EXCEPT !.tuple[r.writer] = [id |-> t.id, sz |-> t.sz, next |-> @.next]]

\* Mutant: a writer that never returns to the start.
LinkOn(r) ==
    [r EXCEPT !.tuple[r.writer].next = r.writer + CurWrite(r).sz + Header]
\* ADVANCEWRITE is two stores: the link in the slot, then the shared index.
Link(r) ==
    LET after == r.writer + CurWrite(r).sz + Header IN
    [r EXCEPT !.tuple[r.writer].next = IF End > after THEN after ELSE 0]
Publish(r) ==
    [r EXCEPT !.writer = CurWrite(r).next,
              !.unread = Append(@, [at |-> r.writer, sz |-> CurWrite(r).sz, id |-> CurWrite(r).id])]

AdvanceRead(r) == [r EXCEPT !.reader = CurRead(r).next, !.unread = Tail(@)]

\* The bytes of a slot that starts at offset o.
Bytes(o, sz) == o .. o + Header + sz - 1
===============================================================================
