-------------------------- MODULE TupleStreamProofs ---------------------------
(***************************************************************************)
(* Ring buffers and the multicast built from them, proved for every length *)
(* of the ring, every number of subscribers and all tuple sizes that fit:  *)
(* the safety invariants, and the refinement of Multicast.                 *)
(***************************************************************************)
EXTENDS TupleStream, SequenceTheorems, TLAPS

-----------------------------------------------------------------------------
(* The inductive invariant. *)

(* A tuple fits when its slot is no longer than MAXTUPLESZ, and within the
   segment when it begins last before `end'.  post_tuple and hfta_post_tuple
   only compare the payload with MAXTUPLESZ, so that a larger one can be posted
   (LargestTuple.cfg shows what it does). *)
Fits(z) == Header + z <= MaxTupleSz /\ Header + z + RingHeader <= MaxTupleSz + 1
Fitting == {z \in Sizes : Fits(z)}

(* The tuple being posted fits: what the theorems ask of the posts. *)
CurFits == pc # "idle" => Fits(cur.sz)

-------------------------------------------------------------------------------
(* One ring buffer. *)

Slots == [at : Offsets, sz : Fitting, id : 1 .. MaxPosts]
Headers == [id : 0 .. MaxPosts, sz : Fitting \cup {0}, next : Offsets]

After(e) == e.at + e.sz + Header
NextOf(e) == IF End > After(e) THEN After(e) ELSE 0

(* The unread slots are a list from the reader to the writer, linked by the
   headers in memory, and it is empty exactly when the indices meet. *)
Linked(r) ==
    /\ r.unread = <<>> <=> r.reader = r.writer
    /\ r.unread # <<>> => /\ r.unread[1].at = r.reader
                          /\ NextOf(r.unread[Len(r.unread)]) = r.writer
    /\ \A i \in 1 .. Len(r.unread) - 1 : r.unread[i + 1].at = NextOf(r.unread[i])

Stored(r) ==
    \A i \in 1 .. Len(r.unread) :
        LET e == r.unread[i] IN r.tuple[e.at] = [id |-> e.id, sz |-> e.sz, next |-> NextOf(e)]

(* They lie between the indices, which the writer may have wrapped, *)
Between(r, e) ==
    IF r.reader <= r.writer THEN r.reader <= e.at /\ After(e) <= r.writer
                            ELSE r.reader <= e.at \/ After(e) <= r.writer

(* one after the other. *)
Before(r, e, f) ==
    IF r.reader <= e.at THEN r.reader <= f.at => After(e) <= f.at
                        ELSE f.at < r.reader /\ After(e) <= f.at

Apart(r) ==
    /\ \A i \in 1 .. Len(r.unread) : Between(r, r.unread[i])
    /\ \A i, j \in 1 .. Len(r.unread) : i < j => Before(r, r.unread[i], r.unread[j])

RingOK(r) == Linked(r) /\ Stored(r) /\ Apart(r)

-------------------------------------------------------------------------------
(* The stream.  Its types, with sizes that fit. *)

FitRingType == [reader : Offsets, writer : Offsets,
                tuple : [Offsets -> Headers], unread : Seq(Slots)]

TypesFit ==
    /\ side \in {"HFTA", "LFTA"} /\ remote \subseteq Subscribers
    /\ n \in 1 .. N /\ mode \in [Subscribers -> Modes]
    /\ ring \in [Subscribers -> FitRingType] /\ far \in [Subscribers -> FitRingType]
    /\ pc \in {"idle", "alloc", "check", "copy", "publish"}
    /\ k \in 1 .. N + 1 /\ ru \in 0 .. N /\ posted \in 0 .. MaxPosts
    /\ cur \in [id : 0 .. MaxPosts, sz : Fitting \cup {0}]

Packets == [id : 1 .. MaxPosts, sz : Fitting]

EndsOK ==
    /\ wire \in [Subscribers -> Seq(Packets)] /\ hand \in [Subscribers -> Seq(Packets)]
    /\ got \in [Subscribers -> Seq(Nat)]
    /\ \A s \in Subscribers : Len(hand[s]) <= 1
    /\ \A s \in Subscribers \ remote : far[s].unread = <<>> /\ hand[s] = <<>> /\ wire[s] = <<>>

RingsOK == \A s \in Subscribers : RingOK(ring[s]) /\ RingOK(far[s])

(* Where the poster is. *)
StepOK ==
    /\ pc \in {"idle", "alloc"} => ru = 0
    /\ ru # 0 => ru <= n /\ mode[ru] # "SUSPEND"
    /\ pc # "idle" => cur.id = posted /\ posted # 0 /\ cur.sz \in Fitting /\ k <= n + 1
    /\ pc = "publish" => IF k <= n THEN k # ru /\ mode[k] # "SUSPEND" ELSE ru # 0
    /\ pc = "alloc" => \A s \in 1 .. k - 1 : mode[s] # "ATOMIC"

(* A slot that is being filled has room and holds the tuple; before the index
   is advanced it has its link too. *)
FilledOK ==
    /\ \A s \in Writing : /\ SpaceToWrite(ring[s])
                          /\ CurWrite(ring[s]).id = cur.id /\ CurWrite(ring[s]).sz = cur.sz
    /\ pc = "publish" =>
         LET r == ring[Target] IN CurWrite(r).next = NextOf([at |-> r.writer, sz |-> cur.sz])

(* The room that pass one found is still there in pass two. *)
RoomOK ==
    \A s \in 1 .. n :
        /\ mode[s] = "ATOMIC" /\ s # ru
        /\ (pc = "check" /\ s < k) \/ (pc = "copy" /\ s >= k) \/ (pc = "publish" /\ s > k)
        => SpaceToWrite(ring[s])

StreamInv == TypesFit /\ EndsOK /\ RingsOK /\ StepOK /\ FilledOK /\ RoomOK

-----------------------------------------------------------------------------
(* Types. *)

(* The constants, as numbers. *)
LEMMA Constants ==
  /\ MaxTupleSz \in Nat /\ Header \in Nat /\ Header >= 1 /\ End \in Nat /\ RingHeader \in Nat
  /\ End > MaxTupleSz /\ MaxTupleSz > 0 /\ MaxPosts \in Nat /\ N \in Nat /\ N >= 1
  /\ \A z \in Fitting : z \in Nat
  /\ \A o \in Offsets : o \in Nat /\ o < End
  /\ \A o \in Nat : o < End => o \in Offsets
  /\ 0 \in Offsets
<1>1. /\ MaxTupleSz \in Nat /\ Header \in Nat /\ Header >= 1 /\ End \in Nat /\ RingHeader \in Nat
      /\ End > MaxTupleSz /\ MaxTupleSz > 0
  BY RingAssumption
<1>2. MaxPosts \in Nat /\ N \in Nat /\ N >= 1 /\ \A z \in Fitting : z \in Nat
  BY <1>1, StreamAssumption DEF Fitting
<1> QED
  BY <1>1, <1>2 DEF Offsets

(* A ring buffer's parts. *)
LEMMA RingParts ==
  ASSUME NEW r \in FitRingType
  PROVE  /\ r.reader \in Offsets /\ r.writer \in Offsets
         /\ r.reader \in Nat /\ r.writer \in Nat /\ r.reader < End /\ r.writer < End
         /\ r.tuple \in [Offsets -> Headers] /\ r.unread \in Seq(Slots)
         /\ CurWrite(r) \in Headers /\ CurRead(r) \in Headers
  BY Constants DEF FitRingType, Headers, CurWrite, CurRead

(* An unread slot's parts. *)
LEMMA SlotParts ==
  ASSUME NEW r \in FitRingType, NEW i \in 1 .. Len(r.unread)
  PROVE  /\ r.unread[i] \in Slots
         /\ r.unread[i].at \in Offsets /\ r.unread[i].at \in Nat /\ r.unread[i].at < End
         /\ r.unread[i].sz \in Fitting /\ r.unread[i].sz \in Nat /\ r.unread[i].id \in 1 .. MaxPosts
         /\ After(r.unread[i]) \in Nat /\ After(r.unread[i]) > r.unread[i].at
         /\ NextOf(r.unread[i]) \in Offsets
<1>1. r.unread[i] \in Slots
  BY RingParts, ElementOfSeq
<1>2. r.unread[i].at \in Offsets /\ r.unread[i].sz \in Fitting /\ r.unread[i].id \in 1 .. MaxPosts
  BY <1>1 DEF Slots
<1>3. /\ r.unread[i].at \in Nat /\ r.unread[i].at < End /\ r.unread[i].sz \in Nat
      /\ Header \in Nat /\ Header >= 1 /\ End \in Nat
  BY <1>2, Constants
<1>4. After(r.unread[i]) \in Nat /\ After(r.unread[i]) > r.unread[i].at
  BY <1>3, SMTT(30) DEF After
<1>5. NextOf(r.unread[i]) \in Offsets
  BY <1>3, <1>4, Constants DEF NextOf
<1> QED
  BY <1>1, <1>2, <1>3, <1>4, <1>5

-----------------------------------------------------------------------------
(* What the operations on a ring buffer do. *)

(* Two ring buffers that differ in the slot at the writer. *)
SameButSlot(r, q) ==
  /\ q.reader = r.reader /\ q.writer = r.writer /\ q.unread = r.unread
  /\ \A o \in Offsets \ {r.writer} : q.tuple[o] = r.tuple[o]

(* Fill stores the tuple and nothing else. *)
LEMMA FillEffect ==
  ASSUME NEW r \in FitRingType, NEW t, t.id \in 0 .. MaxPosts, t.sz \in Fitting \cup {0}
  PROVE  /\ Fill(r, t) \in FitRingType /\ SameButSlot(r, Fill(r, t))
         /\ CurWrite(Fill(r, t)).id = t.id /\ CurWrite(Fill(r, t)).sz = t.sz
<1> DEFINE q == Fill(r, t)
<1>1. r.writer \in Offsets /\ r.tuple \in [Offsets -> Headers]
  BY RingParts
<1>2. r = [reader |-> r.reader, writer |-> r.writer, tuple |-> r.tuple, unread |-> r.unread]
  BY DEF FitRingType
<1>3. q.reader = r.reader /\ q.writer = r.writer /\ q.unread = r.unread
  BY <1>2 DEF Fill
<1>4. q.tuple = [r.tuple EXCEPT ![r.writer] = [id |-> t.id, sz |-> t.sz, next |-> @.next]]
  BY <1>2 DEF Fill
<1>5. q = [reader |-> q.reader, writer |-> q.writer, tuple |-> q.tuple, unread |-> q.unread]
  BY <1>2 DEF Fill
<1> HIDE DEF q
<1>6. q.tuple \in [Offsets -> Headers]
  <2>1. [id |-> t.id, sz |-> t.sz, next |-> r.tuple[r.writer].next] \in Headers
    BY <1>1 DEF Headers
  <2> QED
    BY <1>1, <1>4, <2>1
<1>7. q \in FitRingType
  BY <1>1, <1>3, <1>5, <1>6 DEF FitRingType
<1>8. \A o \in Offsets \ {r.writer} : q.tuple[o] = r.tuple[o]
  BY <1>1, <1>4
<1>9. q.tuple[r.writer].id = t.id /\ q.tuple[r.writer].sz = t.sz
  BY <1>1, <1>4 DEF Headers
<1> QED
  BY <1>3, <1>7, <1>8, <1>9 DEF SameButSlot, CurWrite, q

(* Link stores where the next tuple goes. *)
LEMMA LinkEffect ==
  ASSUME NEW r \in FitRingType
  PROVE  /\ Link(r) \in FitRingType /\ SameButSlot(r, Link(r))
         /\ CurWrite(Link(r)).id = CurWrite(r).id /\ CurWrite(Link(r)).sz = CurWrite(r).sz
         /\ CurWrite(Link(r)).next = NextOf([at |-> r.writer, sz |-> CurWrite(r).sz])
<1> DEFINE q == Link(r)
           nxt == NextOf([at |-> r.writer, sz |-> CurWrite(r).sz])
<1>1. /\ r.writer \in Offsets /\ r.writer \in Nat /\ r.tuple \in [Offsets -> Headers]
      /\ CurWrite(r) \in Headers
  BY RingParts
<1>2. r = [reader |-> r.reader, writer |-> r.writer, tuple |-> r.tuple, unread |-> r.unread]
  BY DEF FitRingType
<1>3. q = [r EXCEPT !.tuple[r.writer].next = nxt]
  BY DEF Link, NextOf, After
<1>4. nxt \in Offsets
  <2>1. CurWrite(r).sz \in Nat
    BY <1>1, Constants DEF Headers
  <2> QED
    BY <1>1, <2>1, Constants DEF NextOf, After
<1> HIDE DEF nxt, q
<1>5. q.reader = r.reader /\ q.writer = r.writer /\ q.unread = r.unread
  BY <1>2, <1>3
<1>6. q.tuple = [r.tuple EXCEPT ![r.writer] = [@ EXCEPT !.next = nxt]]
  BY <1>2, <1>3
<1>7. q = [reader |-> q.reader, writer |-> q.writer, tuple |-> q.tuple, unread |-> q.unread]
  BY <1>2, <1>3
<1>8. q.tuple \in [Offsets -> Headers]
  BY <1>1, <1>4, <1>6 DEF Headers
<1>9. q \in FitRingType
  BY <1>1, <1>5, <1>7, <1>8 DEF FitRingType
<1>10. \A o \in Offsets \ {r.writer} : q.tuple[o] = r.tuple[o]
  BY <1>1, <1>6
<1>11. /\ q.tuple[r.writer].id = r.tuple[r.writer].id /\ q.tuple[r.writer].sz = r.tuple[r.writer].sz
       /\ q.tuple[r.writer].next = nxt
  BY <1>1, <1>6 DEF Headers
<1> QED
  BY <1>5, <1>9, <1>10, <1>11 DEF SameButSlot, CurWrite, q, nxt

(* Publish moves the writer on and makes the slot one to read. *)
LEMMA PublishEffect ==
  ASSUME NEW r \in FitRingType, CurWrite(r).sz \in Fitting, CurWrite(r).id # 0
  PROVE  LET e == [at |-> r.writer, sz |-> CurWrite(r).sz, id |-> CurWrite(r).id] IN
         /\ Publish(r) \in FitRingType /\ e \in Slots
         /\ Publish(r).reader = r.reader /\ Publish(r).tuple = r.tuple
         /\ Publish(r).writer = CurWrite(r).next /\ Publish(r).unread = Append(r.unread, e)
<1> DEFINE q == Publish(r)
           e == [at |-> r.writer, sz |-> CurWrite(r).sz, id |-> CurWrite(r).id]
<1>1. /\ r.writer \in Offsets /\ r.unread \in Seq(Slots) /\ CurWrite(r) \in Headers
  BY RingParts
<1>2. CurWrite(r).next \in Offsets /\ CurWrite(r).id \in 1 .. MaxPosts
  BY <1>1, Constants DEF Headers
<1>3. e \in Slots
  BY <1>1, <1>2 DEF Slots
<1>4. Append(r.unread, e) \in Seq(Slots)
  BY <1>1, <1>3, AppendProperties
<1>5. r = [reader |-> r.reader, writer |-> r.writer, tuple |-> r.tuple, unread |-> r.unread]
  BY DEF FitRingType
<1>6. q = [reader |-> r.reader, writer |-> CurWrite(r).next, tuple |-> r.tuple,
           unread |-> Append(r.unread, e)]
  <2> DEFINE w == CurWrite(r).next
             u == Append(r.unread, e)
  <2>1. q = [r EXCEPT !.writer = w, !.unread = u]
    BY DEF Publish
  <2> HIDE DEF w, u, q
  <2>2. q = [reader |-> r.reader, writer |-> w, tuple |-> r.tuple, unread |-> u]
    BY <1>5, <2>1
  <2> QED
    BY <2>2 DEF w, u
<1> HIDE DEF q, e
<1>7. q \in FitRingType
  BY <1>2, <1>4, <1>6 DEF FitRingType
<1> QED
  BY <1>3, <1>6, <1>7 DEF q, e

(* AdvanceRead follows the link. *)
LEMMA AdvanceEffect ==
  ASSUME NEW r \in FitRingType, r.unread # <<>>
  PROVE  /\ AdvanceRead(r) \in FitRingType
         /\ AdvanceRead(r).reader = CurRead(r).next /\ AdvanceRead(r).writer = r.writer
         /\ AdvanceRead(r).tuple = r.tuple /\ AdvanceRead(r).unread = Tail(r.unread)
<1> DEFINE q == AdvanceRead(r)
<1>1. r.unread \in Seq(Slots) /\ CurRead(r) \in Headers
  BY RingParts
<1>2. CurRead(r).next \in Offsets /\ Tail(r.unread) \in Seq(Slots)
  BY <1>1, HeadTailProperties DEF Headers
<1>3. r = [reader |-> r.reader, writer |-> r.writer, tuple |-> r.tuple, unread |-> r.unread]
  BY DEF FitRingType
<1>4. q = [reader |-> CurRead(r).next, writer |-> r.writer, tuple |-> r.tuple,
           unread |-> Tail(r.unread)]
  <2> DEFINE w == CurRead(r).next
             u == Tail(r.unread)
  <2>1. q = [r EXCEPT !.reader = w, !.unread = u]
    BY DEF AdvanceRead
  <2> HIDE DEF w, u, q
  <2>2. q = [reader |-> w, writer |-> r.writer, tuple |-> r.tuple, unread |-> u]
    BY <1>3, <2>1
  <2> QED
    BY <2>2 DEF w, u
<1> HIDE DEF q
<1>5. q \in FitRingType
  BY <1>2, <1>4 DEF FitRingType
<1> QED
  BY <1>4, <1>5 DEF q

-----------------------------------------------------------------------------
(* The ring buffer's invariant. *)

(* No unread tuple is where the writer is. *)
LEMMA WriterApart ==
  ASSUME NEW r \in FitRingType, RingOK(r), NEW i \in 1 .. Len(r.unread)
  PROVE  r.unread[i].at # r.writer
  BY RingParts, SlotParts DEF RingOK, Apart, Between

(* The stores into the slot at the writer disturb nothing that is unread. *)
LEMMA WriteKeeps ==
  ASSUME NEW r \in FitRingType, NEW q \in FitRingType, RingOK(r), SameButSlot(r, q)
  PROVE  RingOK(q) /\ (SpaceToWrite(q) <=> SpaceToWrite(r))
<1>1. q.reader = r.reader /\ q.writer = r.writer /\ q.unread = r.unread
  BY DEF SameButSlot
<1>2. Linked(q) /\ Apart(q)
  BY <1>1 DEF RingOK, Linked, Apart, Between, Before
<1>3. \A i \in 1 .. Len(r.unread) : q.tuple[r.unread[i].at] = r.tuple[r.unread[i].at]
  BY WriterApart, SlotParts DEF SameButSlot
<1>4. Stored(q)
  BY <1>1, <1>3 DEF RingOK, Stored
<1> QED
  BY <1>1, <1>2, <1>4 DEF RingOK, SpaceToWrite

(* A list that is empty, and one that is not. *)
LEMMA UnreadLen ==
  ASSUME NEW r \in FitRingType
  PROVE  /\ Len(r.unread) \in Nat
         /\ r.unread # <<>> <=> Len(r.unread) >= 1
<1>1. r.unread \in Seq(Slots)
  BY RingParts
<1> QED
  BY <1>1, EmptySeq, LenProperties

(* Reading the oldest tuple: its slot begins at the reader, and its link leads
   to the next unread slot or to the writer. *)
LEMMA FirstSlot ==
  ASSUME NEW r \in FitRingType, RingOK(r), Unread(r)
  PROVE  /\ r.unread # <<>> /\ 1 \in 1 .. Len(r.unread)
         /\ CurRead(r).id = r.unread[1].id /\ CurRead(r).sz = r.unread[1].sz
         /\ CurRead(r).next = NextOf(r.unread[1]) /\ r.unread[1].at = r.reader
<1>1. r.unread # <<>>
  BY DEF RingOK, Linked, Unread
<1>2. 1 \in 1 .. Len(r.unread)
  BY <1>1, UnreadLen
<1>3. r.unread[1].at = r.reader
  BY <1>1 DEF RingOK, Linked
<1>4. r.tuple[r.reader] = [id |-> r.unread[1].id, sz |-> r.unread[1].sz, next |-> NextOf(r.unread[1])]
  BY <1>2, <1>3 DEF RingOK, Stored
<1> QED
  BY <1>1, <1>2, <1>3, <1>4 DEF CurRead

(* Where the reader goes, and what that means for the indices. *)
LEMMA ReaderMoves ==
  ASSUME NEW r \in FitRingType, RingOK(r), Unread(r)
  PROVE  LET q == AdvanceRead(r) IN
         /\ \A i \in 2 .. Len(r.unread) :
              /\ Between(q, r.unread[i])
              /\ \A j \in 2 .. Len(r.unread) : i < j => Before(q, r.unread[i], r.unread[j])
         /\ Len(r.unread) = 1 => q.reader = q.writer
         /\ Len(r.unread) > 1 => q.reader # q.writer
         /\ SpaceToWrite(r) => SpaceToWrite(q)
<1> DEFINE q == AdvanceRead(r)
           e == r.unread[1]
<1>1. /\ q.reader = NextOf(e) /\ q.writer = r.writer /\ e.at = r.reader /\ 1 \in 1 .. Len(r.unread)
      /\ q \in FitRingType
  BY FirstSlot, AdvanceEffect
<1>2. /\ r.reader \in Nat /\ r.writer \in Nat /\ r.reader < End /\ r.writer < End
      /\ After(e) \in Nat /\ After(e) > r.reader /\ End \in Nat /\ MaxTupleSz \in Nat
      /\ r.reader # r.writer /\ Len(r.unread) \in Nat
  BY <1>1, RingParts, SlotParts, Constants, UnreadLen DEF Unread
<1>3. Between(r, e) /\ \A i \in 2 .. Len(r.unread) : Before(r, e, r.unread[i]) /\ Between(r, r.unread[i])
  BY <1>1, <1>2 DEF RingOK, Apart
<1>4. \A i \in 2 .. Len(r.unread) : \A j \in 2 .. Len(r.unread) :
         i < j => Before(r, r.unread[i], r.unread[j])
  BY <1>2 DEF RingOK, Apart
<1>5. \A i \in 2 .. Len(r.unread) :
         /\ r.unread[i].at \in Nat /\ r.unread[i].at < End /\ After(r.unread[i]) \in Nat
         /\ After(r.unread[i]) > r.unread[i].at
  BY <1>2, SlotParts
<1>6. Len(r.unread) = 1 => NextOf(e) = r.writer
  BY <1>1 DEF RingOK, Linked
<1>7. Len(r.unread) > 1 => r.unread[2].at = NextOf(e) /\ 2 \in 2 .. Len(r.unread)
  BY <1>1, <1>2 DEF RingOK, Linked
<1> HIDE DEF q, e
<1>8. CASE After(e) < End
  <2>1. q.reader = After(e)
    BY <1>1, <1>2, <1>8 DEF NextOf
  <2>2. \A i \in 2 .. Len(r.unread) : Between(q, r.unread[i])
    BY <1>1, <1>2, <1>3, <1>5, <2>1 DEF Between, Before
  <2>3. \A i \in 2 .. Len(r.unread) : \A j \in 2 .. Len(r.unread) :
           i < j => Before(q, r.unread[i], r.unread[j])
    BY <1>1, <1>2, <1>3, <1>4, <1>5, <2>1 DEF Between, Before
  <2>4. Len(r.unread) > 1 => q.reader # q.writer
    BY <1>1, <1>2, <1>3, <1>5, <1>7, <2>1, <2>2 DEF Between, Before
  <2>5. SpaceToWrite(r) => SpaceToWrite(q)
    BY <1>1, <1>2, <1>3, <2>1 DEF Between, SpaceToWrite
  <2> QED
    BY <1>1, <1>6, <2>2, <2>3, <2>4, <2>5 DEF q
<1>9. CASE After(e) >= End
  <2>1. q.reader = 0 /\ r.reader > r.writer
    BY <1>1, <1>2, <1>3, <1>9 DEF NextOf, Between
  <2>2. \A i \in 2 .. Len(r.unread) : r.unread[i].at < r.reader /\ After(r.unread[i]) <= r.writer
    BY <1>1, <1>2, <1>3, <1>5, <1>9, <2>1 DEF Between, Before
  <2>3. \A i \in 2 .. Len(r.unread) : Between(q, r.unread[i])
    BY <1>1, <1>2, <1>5, <2>1, <2>2 DEF Between
  <2>4. \A i \in 2 .. Len(r.unread) : \A j \in 2 .. Len(r.unread) :
           i < j => Before(q, r.unread[i], r.unread[j])
    BY <1>2, <1>4, <1>5, <2>1, <2>2 DEF Before
  <2>5. Len(r.unread) > 1 => q.reader # q.writer
    BY <1>1, <1>2, <1>5, <1>7, <2>1, <2>2
  <2>6. SpaceToWrite(r) => SpaceToWrite(q)
    BY <1>1, <1>2, <2>1 DEF SpaceToWrite
  <2> QED
    BY <1>1, <1>6, <2>3, <2>4, <2>5, <2>6 DEF q
<1> QED
  BY <1>2, <1>8, <1>9

(* Reading keeps the ring buffer's invariant, and never takes room away. *)
LEMMA ReadKeeps ==
  ASSUME NEW r \in FitRingType, RingOK(r), Unread(r)
  PROVE  /\ AdvanceRead(r) \in FitRingType /\ RingOK(AdvanceRead(r))
         /\ SpaceToWrite(r) => SpaceToWrite(AdvanceRead(r))
         /\ CurWrite(AdvanceRead(r)) = CurWrite(r)
<1> DEFINE q == AdvanceRead(r)
           u == r.unread
<1>1. u # <<>> /\ u \in Seq(Slots) /\ Len(u) \in Nat /\ Len(u) >= 1
  BY FirstSlot, RingParts, UnreadLen
<1>2. /\ q \in FitRingType /\ q.reader = NextOf(u[1]) /\ q.writer = r.writer /\ q.tuple = r.tuple
      /\ q.unread = Tail(u)
  BY <1>1, AdvanceEffect, FirstSlot
<1>3. /\ Len(q.unread) = Len(u) - 1
      /\ \A i \in 1 .. Len(u) - 1 : q.unread[i] = u[i + 1]
  BY <1>1, <1>2, HeadTailProperties
<1>4. \A i \in 1 .. Len(u) - 1 : i + 1 \in 2 .. Len(u) /\ i + 1 \in 1 .. Len(u)
  BY <1>1
<1> HIDE DEF q
<1>5. q.unread # <<>> <=> Len(u) > 1
  <2>1. q.unread # <<>> <=> Len(q.unread) >= 1
    BY <1>2, UnreadLen
  <2> QED
    BY <1>1, <1>3, <2>1
<1>6. Linked(q)
  <2>0. /\ Len(u) = 1 => q.reader = q.writer
        /\ Len(u) > 1 => q.reader # q.writer
    BY ReaderMoves DEF q
  <2>1. q.unread = <<>> <=> q.reader = q.writer
    <3>1. Len(u) = 1 \/ Len(u) > 1
      <4>1. Len(u) \in Nat /\ Len(u) >= 1
        BY <1>1
      <4>2. \A x \in Nat : x >= 1 => x = 1 \/ x > 1
        OBVIOUS
      <4> QED
        BY <4>1, <4>2, Zenon
    <3>2. CASE Len(u) = 1
      <4>1. ~(Len(u) > 1)
        BY <3>2
      <4> QED
        BY <1>5, <2>0, <3>2, <4>1, Zenon
    <3>3. CASE Len(u) > 1
      BY <1>5, <2>0, <3>3, Zenon
    <3> QED
      BY <3>1, <3>2, <3>3
  <2>2. q.unread # <<>> => q.unread[1].at = q.reader
    <3> SUFFICES ASSUME Len(u) > 1 PROVE q.unread[1].at = q.reader
      BY <1>5
    <3>1. 1 \in 1 .. Len(u) - 1
      BY <1>1
    <3>2. q.unread[1] = u[1 + 1] /\ u[1 + 1].at = NextOf(u[1])
      BY <1>3, <3>1 DEF RingOK, Linked
    <3> QED
      BY <1>2, <3>2
  <2>3. q.unread # <<>> => NextOf(q.unread[Len(q.unread)]) = q.writer
    <3> SUFFICES ASSUME Len(u) > 1 PROVE NextOf(q.unread[Len(u) - 1]) = q.writer
      BY <1>3, <1>5
    <3>1. Len(u) - 1 \in 1 .. Len(u) - 1 /\ (Len(u) - 1) + 1 = Len(u)
      BY <1>1
    <3>2. q.unread[Len(u) - 1] = u[Len(u)]
      BY <1>3, <3>1
    <3> QED
      BY <1>1, <1>2, <3>2 DEF RingOK, Linked
  <2>4. \A i \in 1 .. Len(q.unread) - 1 : q.unread[i + 1].at = NextOf(q.unread[i])
    BY <1>1, <1>3 DEF RingOK, Linked
  <2> QED
    BY <2>1, <2>2, <2>3, <2>4 DEF Linked
<1>7. Stored(q)
  BY <1>1, <1>2, <1>3, <1>4 DEF RingOK, Stored
<1>8. Apart(q)
  <2>1. \A i \in 1 .. Len(q.unread) : Between(q, q.unread[i])
    BY <1>1, <1>3, <1>4, ReaderMoves DEF q
  <2>2. ASSUME NEW i \in 1 .. Len(q.unread), NEW j \in 1 .. Len(q.unread), i < j
        PROVE  Before(q, q.unread[i], q.unread[j])
    <3>1. i + 1 \in 2 .. Len(u) /\ j + 1 \in 2 .. Len(u) /\ i + 1 < j + 1
      BY <1>1, <1>3, <2>2
    <3>2. Before(q, u[i + 1], u[j + 1])
      BY <3>1, ReaderMoves DEF q
    <3> QED
      BY <1>3, <3>2
  <2> QED
    BY <2>1, <2>2 DEF Apart
<1> QED
  BY <1>2, <1>6, <1>7, <1>8, ReaderMoves DEF RingOK, CurWrite, q

(* What SPACETOWRITE promises for a tuple that fits: the bytes after the writer
   are before the reader, or there is no reader ahead; and a writer that wraps
   leaves the reader ahead of it. *)
LEMMA RoomForSlot ==
  ASSUME NEW r \in FitRingType, SpaceToWrite(r), NEW z \in Fitting
  PROVE  LET a == r.writer + z + Header IN
         /\ a \in Nat /\ a > r.writer
         /\ r.reader <= r.writer /\ End <= a => r.reader > 0
         /\ r.reader > r.writer => a < r.reader
<1>1. Header + z <= MaxTupleSz
  BY DEF Fitting, Fits
<1>2. /\ r.reader \in Nat /\ r.writer \in Nat /\ r.reader < End /\ r.writer < End /\ z \in Nat
      /\ Header \in Nat /\ Header >= 1 /\ End \in Nat /\ MaxTupleSz \in Nat
  BY RingParts, Constants
<1> QED
  BY <1>1, <1>2 DEF SpaceToWrite

(* Publishing a linked slot keeps the ring buffer's invariant. *)
LEMMA PublishKeeps ==
  ASSUME NEW r \in FitRingType, RingOK(r), SpaceToWrite(r),
         CurWrite(r).sz \in Fitting, CurWrite(r).id # 0,
         CurWrite(r).next = NextOf([at |-> r.writer, sz |-> CurWrite(r).sz])
  PROVE  RingOK(Publish(r))
<1> DEFINE q == Publish(r)
           u == r.unread
           L == Len(u)
           e == [at |-> r.writer, sz |-> CurWrite(r).sz, id |-> CurWrite(r).id]
<1>1. /\ q \in FitRingType /\ e \in Slots /\ q.reader = r.reader /\ q.tuple = r.tuple
      /\ q.writer = CurWrite(r).next /\ q.unread = Append(u, e)
  BY PublishEffect
<1>2. u \in Seq(Slots) /\ L \in Nat /\ (u # <<>> <=> L >= 1)
  BY RingParts, UnreadLen
<1>3. /\ Len(q.unread) = L + 1 /\ q.unread # <<>>
      /\ \A i \in 1 .. L : q.unread[i] = u[i]
      /\ q.unread[L + 1] = e
  BY <1>1, <1>2, AppendProperties
<1>4. /\ After(e) = r.writer + CurWrite(r).sz + Header
      /\ e.at = r.writer /\ e.sz = CurWrite(r).sz /\ e.id = CurWrite(r).id
      /\ NextOf(e) = q.writer
  BY <1>1 DEF NextOf, After
<1> HIDE DEF q, e
<1>5. /\ After(e) \in Nat /\ After(e) > r.writer
      /\ r.reader <= r.writer /\ End <= After(e) => r.reader > 0
      /\ r.reader > r.writer => After(e) < r.reader
      /\ r.reader \in Nat /\ r.writer \in Nat /\ r.reader < End /\ r.writer < End /\ End \in Nat
  BY <1>4, RoomForSlot, RingParts, Constants
<1>6. q.writer = IF End > After(e) THEN After(e) ELSE 0
  BY <1>4 DEF NextOf
<1>7. \A i \in 1 .. L : /\ u[i].at \in Nat /\ u[i].at < End /\ After(u[i]) \in Nat
                        /\ After(u[i]) > u[i].at /\ Between(r, u[i])
  BY SlotParts DEF RingOK, Apart
<1> HIDE DEF L
<1>8. Linked(q)
  <2>1. q.reader # q.writer
    BY <1>1, <1>5, <1>6
  <2>2. q.unread[1].at = q.reader
    <3>1. CASE u = <<>>
      <4>1. L = 0 /\ r.reader = r.writer
        BY <1>2, <3>1 DEF RingOK, Linked
      <4> QED
        BY <1>1, <1>3, <1>4, <4>1
    <3>2. CASE u # <<>>
      <4>1. 1 \in 1 .. L /\ u[1].at = r.reader
        BY <1>2, <3>2 DEF RingOK, Linked
      <4> QED
        BY <1>1, <1>3, <4>1
    <3> QED
      BY <3>1, <3>2
  <2>3. NextOf(q.unread[Len(q.unread)]) = q.writer
    BY <1>3, <1>4
  <2>4. ASSUME NEW i \in 1 .. Len(q.unread) - 1 PROVE q.unread[i + 1].at = NextOf(q.unread[i])
    <3>1. i \in 1 .. L /\ q.unread[i] = u[i]
      BY <1>2, <1>3
    <3>2. CASE i = L
      <4>1. NextOf(u[L]) = r.writer
        BY <1>2, <3>1, <3>2 DEF RingOK, Linked, L
      <4> QED
        BY <1>3, <1>4, <3>1, <3>2, <4>1
    <3>3. CASE i # L
      <4>1. i \in 1 .. L - 1 /\ i + 1 \in 1 .. L
        BY <1>2, <3>1, <3>3
      <4>2. u[i + 1].at = NextOf(u[i])
        BY <4>1 DEF RingOK, Linked, L
      <4> QED
        BY <1>3, <3>1, <4>1, <4>2
    <3> QED
      BY <3>2, <3>3
  <2> QED
    BY <1>3, <2>1, <2>2, <2>3, <2>4 DEF Linked
<1>9. Stored(q)
  <2>1. r.tuple[r.writer] = [id |-> e.id, sz |-> e.sz, next |-> NextOf(e)]
    <3>1. CurWrite(r) \in Headers
      BY RingParts
    <3>2. CurWrite(r) = [id |-> CurWrite(r).id, sz |-> CurWrite(r).sz, next |-> CurWrite(r).next]
      BY <3>1 DEF Headers
    <3> QED
      BY <1>1, <1>4, <3>2 DEF CurWrite
  <2>2. ASSUME NEW i \in 1 .. L
        PROVE  r.tuple[u[i].at] = [id |-> u[i].id, sz |-> u[i].sz, next |-> NextOf(u[i])]
    BY DEF RingOK, Stored, L
  <2>3. ASSUME NEW i \in 1 .. Len(q.unread) PROVE i = L + 1 \/ i \in 1 .. L
    BY <1>2, <1>3
  <2> QED
    BY <1>1, <1>3, <1>4, <2>1, <2>2, <2>3 DEF Stored
<1>10. Apart(q)
  <2>0. ASSUME NEW i \in 1 .. Len(q.unread) PROVE i = L + 1 \/ i \in 1 .. L
    BY <1>2, <1>3
  <2>1. Between(q, e)
    BY <1>1, <1>4, <1>5, <1>6 DEF Between
  <2>2. \A i \in 1 .. L : Between(q, u[i])
    BY <1>1, <1>5, <1>6, <1>7 DEF Between
  <2>3. \A i \in 1 .. Len(q.unread) : Between(q, q.unread[i])
    BY <1>3, <2>0, <2>1, <2>2
  <2>4. \A i \in 1 .. L : Before(q, u[i], e)
    BY <1>1, <1>4, <1>5, <1>7 DEF Between, Before
  <2>5. \A i, j \in 1 .. L : i < j => Before(q, u[i], u[j])
    BY <1>1 DEF RingOK, Apart, Before, L
  <2>6. ASSUME NEW i \in 1 .. Len(q.unread), NEW j \in 1 .. Len(q.unread), i < j
        PROVE  Before(q, q.unread[i], q.unread[j])
    <3>1. i \in 1 .. L
      BY <1>2, <1>3, <2>6
    <3>2. CASE j = L + 1
      BY <1>3, <2>4, <3>1, <3>2
    <3>3. CASE j \in 1 .. L
      BY <1>3, <2>5, <2>6, <3>1, <3>3
    <3> QED
      BY <2>0, <3>2, <3>3
  <2> QED
    BY <2>3, <2>6 DEF Apart
<1> QED
  BY <1>8, <1>9, <1>10 DEF RingOK, q

(* The bytes of a slot at the writer hold nothing unread, and lie within the
   segment. *)
LEMMA SlotIsFree ==
  ASSUME NEW r \in FitRingType, RingOK(r), SpaceToWrite(r), NEW z \in Fitting
  PROVE  /\ \A i \in DOMAIN r.unread :
               Bytes(r.writer, z) \cap Bytes(r.unread[i].at, r.unread[i].sz) = {}
         /\ \A b \in Bytes(r.writer, z) : b < End + MaxTupleSz - RingHeader
<1> DEFINE a == r.writer + z + Header
<1>1. /\ a \in Nat /\ a > r.writer /\ (r.reader > r.writer => a < r.reader)
      /\ r.reader \in Nat /\ r.writer \in Nat /\ r.writer < End
      /\ z \in Nat /\ Header \in Nat /\ End \in Nat /\ MaxTupleSz \in Nat /\ RingHeader \in Nat
  BY RoomForSlot, RingParts, Constants
<1>2. DOMAIN r.unread = 1 .. Len(r.unread)
  BY RingParts, LenProperties
<1>3. ASSUME NEW i \in 1 .. Len(r.unread)
      PROVE  Bytes(r.writer, z) \cap Bytes(r.unread[i].at, r.unread[i].sz) = {}
  <2>1. /\ r.unread[i].at \in Nat /\ r.unread[i].sz \in Nat /\ After(r.unread[i]) \in Nat
        /\ Between(r, r.unread[i])
    BY SlotParts DEF RingOK, Apart
  <2>2. After(r.unread[i]) <= r.writer \/ a < r.unread[i].at
    BY <1>1, <2>1, SMTT(30) DEF Between
  <2>3. \A o, x \in Nat : Bytes(o, x) = {b \in Int : o <= b /\ b < o + x + Header}
    BY <1>1 DEF Bytes
  <2>4. \A b \in Int : ~(r.writer <= b /\ b < a /\ r.unread[i].at <= b /\ b < After(r.unread[i]))
    <3> HIDE DEF a
    <3>1. \A w, x, u, f, b \in Int : f <= w \/ x < u => ~(w <= b /\ b < x /\ u <= b /\ b < f)
      OBVIOUS
    <3>2. r.writer \in Int /\ a \in Int /\ r.unread[i].at \in Int /\ After(r.unread[i]) \in Int
      BY <1>1, <2>1
    <3> QED
      BY <2>2, <3>1, <3>2, Zenon
  <2>5. After(r.unread[i]) = r.unread[i].at + r.unread[i].sz + Header
    BY DEF After
  <2>6. \A b : ~(b \in Bytes(r.writer, z) /\ b \in Bytes(r.unread[i].at, r.unread[i].sz))
    <3>1. Bytes(r.writer, z) = {b \in Int : r.writer <= b /\ b < a}
      BY <1>1, <2>3
    <3>2. Bytes(r.unread[i].at, r.unread[i].sz) =
            {b \in Int : r.unread[i].at <= b /\ b < After(r.unread[i])}
      BY <2>1, <2>3, <2>5
    <3> HIDE DEF a
    <3> QED
      BY <2>4, <3>1, <3>2, Zenon
  <2> QED
    BY <2>6, Zenon
<1>4. Header + z + RingHeader <= MaxTupleSz + 1
  BY DEF Fitting, Fits
<1>5. \A b \in Bytes(r.writer, z) : b < End + MaxTupleSz - RingHeader
  BY <1>1, <1>4 DEF Bytes
<1> QED
  BY <1>2, <1>3, <1>5

-----------------------------------------------------------------------------
(* The poster's end of the stream. *)

NearType ==
  /\ n \in 1 .. N /\ mode \in [Subscribers -> Modes] /\ ring \in [Subscribers -> FitRingType]
  /\ pc \in {"idle", "alloc", "check", "copy", "publish"}
  /\ k \in 1 .. N + 1 /\ ru \in 0 .. N /\ posted \in 0 .. MaxPosts
  /\ cur \in [id : 0 .. MaxPosts, sz : Fitting \cup {0}]

NearRings == \A s \in Subscribers : RingOK(ring[s])

NearInv == NearType /\ NearRings /\ StepOK /\ FilledOK /\ RoomOK

posterVars == <<n, mode, ring, pc, k, ru, cur, posted>>

(* The numbers among them. *)
LEMMA NearNumbers ==
  ASSUME NearType
  PROVE  /\ n \in Nat /\ N \in Nat /\ k \in Nat /\ ru \in Nat /\ posted \in Nat /\ MaxPosts \in Nat
         /\ n <= N /\ n >= 1 /\ k >= 1 /\ k <= N + 1 /\ ru <= N
         /\ \A x \in Nat : x >= 1 /\ x <= N <=> x \in Subscribers
         /\ \A x \in Subscribers : x \in Nat /\ x >= 1 /\ x <= N /\ ring[x] \in FitRingType
         /\ cur.id \in 0 .. MaxPosts /\ cur.sz \in Fitting \cup {0}
<1>1. N \in Nat /\ MaxPosts \in Nat
  BY Constants
<1> QED
  BY <1>1 DEF NearType, Subscribers

(* Nothing of the poster's. *)
LEMMA NearSame ==
  ASSUME NearInv, UNCHANGED posterVars
  PROVE  NearInv'
  BY DEF NearInv, posterVars, NearType, NearRings, StepOK, FilledOK, RoomOK, Writing, Target

(* A reader moves on in ring buffer s. *)
LEMMA NearRead ==
  ASSUME NearInv, NEW s \in Subscribers, Unread(ring[s]), ring' = [ring EXCEPT ![s] = AdvanceRead(@)],
         UNCHANGED <<n, mode, pc, k, ru, cur, posted>>
  PROVE  NearInv'
<1> DEFINE q == AdvanceRead(ring[s])
<1>1. ring[s] \in FitRingType /\ RingOK(ring[s])
  BY NearNumbers DEF NearInv, NearRings
<1>2. /\ q \in FitRingType /\ RingOK(q) /\ (SpaceToWrite(ring[s]) => SpaceToWrite(q))
      /\ CurWrite(q) = CurWrite(ring[s]) /\ q.writer = ring[s].writer
  BY <1>1, ReadKeeps, AdvanceEffect, FirstSlot
<1>3. ring'[s] = q /\ \A t \in Subscribers \ {s} : ring'[t] = ring[t]
  BY DEF NearInv, NearType
<1>4. ring' \in [Subscribers -> FitRingType]
  BY <1>2 DEF NearInv, NearType
<1> HIDE DEF q
<1>5. NearType' /\ NearRings' /\ StepOK'
  BY <1>2, <1>3, <1>4 DEF NearInv, NearType, NearRings, StepOK
<1>6. Writing' = Writing /\ Target' = Target
  BY DEF Writing, Target
<1>7. pc = "publish" => Target \in Subscribers
  BY NearNumbers DEF NearInv, StepOK, Target
<1>8. \A t \in Subscribers : /\ SpaceToWrite(ring[t]) => SpaceToWrite(ring'[t])
                             /\ CurWrite(ring'[t]) = CurWrite(ring[t]) /\ ring'[t].writer = ring[t].writer
  BY <1>2, <1>3
<1>9. FilledOK'
  <2>1. Writing \subseteq Subscribers
    BY DEF Writing
  <2> QED
    BY <1>6, <1>7, <1>8, <2>1 DEF NearInv, FilledOK
<1>10. RoomOK'
  BY <1>8, NearNumbers DEF NearInv, RoomOK
<1> QED
  BY <1>5, <1>9, <1>10 DEF NearInv

(* Between two posts nothing is being written. *)
LEMMA IdleWrites ==
  ASSUME NearInv
  PROVE  ru = 0 /\ pc # "publish" => Writing = {}
  BY NearNumbers DEF NearInv, Writing

(* The messages served between two posts. *)
LEMMA NearServe ==
  ASSUME NearInv, Subscribe \/ \E m \in Modes : SetRingbufType(m)
  PROVE  NearInv'
<1>1. /\ pc = "idle" /\ UNCHANGED <<ring, pc, k, ru, cur, posted>>
      /\ n' \in 1 .. N /\ mode' \in [Subscribers -> Modes]
  <2>1. CASE Subscribe
    BY <2>1, NearNumbers DEF Subscribe, NearInv, NearType, Modes
  <2>2. ASSUME NEW m \in Modes, SetRingbufType(m) PROVE n' = n /\ mode' \in [Subscribers -> Modes]
    BY <2>2 DEF SetRingbufType, NearInv, NearType
  <2> QED
    BY <2>1, <2>2 DEF SetRingbufType, Subscribe, NearInv, NearType
<1>2. ru = 0
  BY <1>1 DEF NearInv, StepOK
<1>3. NearType' /\ NearRings'
  BY <1>1 DEF NearInv, NearType, NearRings
<1>4. StepOK' /\ RoomOK'
  BY <1>1, <1>2 DEF StepOK, RoomOK
<1>5. Writing' = {}
  BY <1>1, <1>2, NearNumbers DEF NearInv, Writing
<1> QED
  BY <1>1, <1>3, <1>4, <1>5 DEF NearInv, FilledOK

(* The steps of a post that write nothing. *)
LEMMA NearQuiet ==
  ASSUME NearInv, CurFits',
         \/ \E z \in Sizes : Post(z)
         \/ AllocateNext \/ AllocateFails \/ Check \/ CopyNext \/ PostDone
  PROVE  NearInv'
<1>0. ring' = ring /\ ru' = ru /\ UNCHANGED <<n, mode>>
  BY DEF Post, AllocateNext, AllocateFails, Check, CopyNext, PostDone
<1>1. NearType /\ StepOK /\ RoomOK
  BY DEF NearInv
<1>2. /\ n \in Nat /\ N \in Nat /\ k \in Nat /\ n <= N /\ n >= 1 /\ k >= 1
      /\ \A x \in 1 .. n : x \in Nat /\ x >= 1 /\ x <= n
  BY <1>1, NearNumbers
<1>3. pc # "publish" /\ pc' # "publish"
  <2>1. CASE \E z \in Sizes : Post(z)
    BY <2>1 DEF Post
  <2>2. CASE AllocateNext \/ AllocateFails
    BY <2>2 DEF AllocateNext, AllocateFails
  <2>3. CASE Check
    BY <2>3 DEF Check
  <2>4. CASE CopyNext \/ PostDone
    BY <2>4 DEF CopyNext, PostDone
  <2> QED
    BY <2>1, <2>2, <2>3, <2>4
<1>4. Writing' = Writing
  BY <1>0, <1>3 DEF Writing
<1>5. NearRings'
  BY <1>0 DEF NearInv, NearRings
<1>6. CASE \E z \in Sizes : Post(z)
  <2>0. PICK z \in Sizes : Post(z)
    BY <1>6
  <2>1. /\ pc = "idle" /\ posted < MaxPosts /\ posted' = posted + 1
        /\ cur' = [id |-> posted + 1, sz |-> z] /\ pc' \in {"alloc", "check"} /\ k' = 1
    BY <2>0 DEF Post
  <2>2. ru = 0
    BY <1>1, <2>1 DEF StepOK
  <2>3. posted + 1 \in 0 .. MaxPosts /\ posted + 1 # 0
    BY <1>1, <2>1, NearNumbers
  <2>4. cur'.id = posted + 1 /\ cur'.sz = z /\ z \in Fitting
    BY <2>0, <2>1 DEF CurFits, Fitting
  <2>5. NearType'
    BY <1>0, <1>1, <1>2, <2>1, <2>3, <2>4 DEF NearType
  <2>6. StepOK'
    BY <1>0, <1>2, <2>1, <2>2, <2>3, <2>4 DEF StepOK
  <2>7. RoomOK'
    BY <1>0, <1>2, <2>1 DEF RoomOK
  <2>8. FilledOK'
    <3>1. Writing = {}
      BY <1>3, <2>2, IdleWrites
    <3> QED
      BY <1>3, <1>4, <3>1 DEF FilledOK
  <2> QED
    BY <1>5, <2>5, <2>6, <2>7, <2>8 DEF NearInv
<1>7. CASE AllocateNext \/ AllocateFails \/ Check \/ CopyNext \/ PostDone
  <2>1. cur' = cur /\ posted' = posted
    BY <1>7 DEF AllocateNext, AllocateFails, Check, CopyNext, PostDone
  <2>2. FilledOK'
    BY <1>0, <1>3, <1>4, <2>1 DEF NearInv, FilledOK
  <2>3. CASE AllocateNext
    <3>1. pc = "alloc" /\ k <= n /\ mode[k] # "ATOMIC" /\ k' = k + 1 /\ pc' = pc
      BY <2>3 DEF AllocateNext
    <3>2. NearType'
      BY <1>0, <1>1, <1>2, <2>1, <3>1 DEF NearType
    <3>3. \A x \in 1 .. k' - 1 : x \in 1 .. k - 1 \/ x = k
      BY <1>2, <3>1
    <3>4. StepOK' /\ RoomOK'
      BY <1>0, <1>1, <1>2, <2>1, <3>1, <3>3 DEF StepOK, RoomOK
    <3> QED
      BY <1>5, <2>2, <3>2, <3>4 DEF NearInv
  <2>4. CASE AllocateFails
    <3>1. pc = "alloc" /\ pc' = "idle" /\ k' = k
      BY <2>4 DEF AllocateFails
    <3>2. NearType'
      BY <1>0, <1>1, <2>1, <3>1 DEF NearType
    <3>3. StepOK' /\ RoomOK'
      BY <1>0, <1>1, <2>1, <3>1 DEF StepOK, RoomOK
    <3> QED
      BY <1>5, <2>2, <3>2, <3>3 DEF NearInv
  <2>5. CASE Check
    <3>1. pc = "check"
      BY <2>5 DEF Check
    <3>2. CASE k <= n
      <4>1. Ready /\ k' = k + 1 /\ pc' = pc
        BY <2>5, <3>2 DEF Check
      <4>2. NearType'
        BY <1>0, <1>1, <1>2, <2>1, <3>2, <4>1 DEF NearType
      <4>3. StepOK'
        BY <1>0, <1>1, <1>2, <2>1, <3>1, <3>2, <4>1 DEF StepOK
      <4>4. RoomOK'
        BY <1>0, <1>1, <1>2, <3>1, <3>2, <4>1 DEF RoomOK, Ready
      <4> QED
        BY <1>5, <2>2, <4>2, <4>3, <4>4 DEF NearInv
    <3>3. CASE k > n
      <4>1. k' = 1 /\ pc' = "copy"
        BY <1>2, <2>5, <3>3 DEF Check
      <4>2. NearType'
        BY <1>0, <1>1, <1>2, <2>1, <4>1 DEF NearType
      <4>3. StepOK'
        BY <1>0, <1>1, <1>2, <2>1, <3>1, <4>1 DEF StepOK
      <4>4. RoomOK'
        BY <1>0, <1>1, <1>2, <3>1, <3>3, <4>1 DEF RoomOK
      <4> QED
        BY <1>5, <2>2, <4>2, <4>3, <4>4 DEF NearInv
    <3> QED
      BY <1>2, <3>2, <3>3
  <2>6. CASE CopyNext
    <3>1. pc = "copy" /\ k <= n /\ k' = k + 1 /\ pc' = pc
      BY <2>6 DEF CopyNext
    <3>2. NearType'
      BY <1>0, <1>1, <1>2, <2>1, <3>1 DEF NearType
    <3>3. StepOK'
      BY <1>0, <1>1, <1>2, <2>1, <3>1 DEF StepOK
    <3>4. RoomOK'
      BY <1>0, <1>1, <1>2, <3>1 DEF RoomOK
    <3> QED
      BY <1>5, <2>2, <3>2, <3>3, <3>4 DEF NearInv
  <2>7. CASE PostDone
    <3>1. pc = "copy" /\ pc' = "idle" /\ k' = k /\ ru = 0
      BY <2>7 DEF PostDone
    <3>2. NearType'
      BY <1>0, <1>1, <2>1, <3>1 DEF NearType
    <3>3. StepOK' /\ RoomOK'
      BY <1>0, <1>1, <2>1, <3>1 DEF StepOK, RoomOK
    <3> QED
      BY <1>5, <2>2, <3>2, <3>3 DEF NearInv
  <2> QED
    BY <1>7, <2>3, <2>4, <2>5, <2>6, <2>7
<1> QED
  BY <1>6, <1>7

(* A step that replaces one ring buffer. *)
LEMMA OneRing ==
  ASSUME NearInv, NEW s \in Subscribers, NEW q \in FitRingType, RingOK(q), ring' = [ring EXCEPT ![s] = q]
  PROVE  /\ ring' \in [Subscribers -> FitRingType] /\ NearRings' /\ ring'[s] = q
         /\ \A t \in Subscribers \ {s} : ring'[t] = ring[t]
<1>1. ring \in [Subscribers -> FitRingType]
  BY DEF NearInv, NearType
<1>2. ring'[s] = q /\ \A t \in Subscribers \ {s} : ring'[t] = ring[t]
  BY <1>1
<1> QED
  BY <1>1, <1>2 DEF NearInv, NearRings

(* allocate_tuple takes a slot that has room. *)
LEMMA NearAllocate ==
  ASSUME NearInv, Allocate
  PROVE  NearInv'
<1> DEFINE q == Fill(ring[k], cur)
<1>1. /\ pc = "alloc" /\ k <= n /\ mode[k] # "SUSPEND" /\ SpaceToWrite(ring[k])
      /\ ring' = [ring EXCEPT ![k] = q] /\ ru' = k /\ pc' = "check" /\ k' = 1
      /\ UNCHANGED <<n, mode, cur, posted>>
  BY DEF Allocate
<1>2. NearType /\ StepOK /\ k \in Subscribers /\ ring[k] \in FitRingType /\ RingOK(ring[k])
  BY <1>1, NearNumbers DEF NearInv, NearRings
<1>3. /\ q \in FitRingType /\ RingOK(q) /\ SpaceToWrite(q)
      /\ CurWrite(q).id = cur.id /\ CurWrite(q).sz = cur.sz
  BY <1>1, <1>2, NearNumbers, FillEffect, WriteKeeps
<1> HIDE DEF q
<1>4. ring' \in [Subscribers -> FitRingType] /\ NearRings' /\ ring'[k] = q
  BY <1>1, <1>2, <1>3, OneRing
<1>5. NearType'
  BY <1>1, <1>2, <1>4, NearNumbers DEF NearType
<1>6. StepOK'
  BY <1>1, <1>2, NearNumbers DEF StepOK
<1>7. Writing' = {k}
  BY <1>1, <1>2 DEF Writing
<1>8. FilledOK'
  BY <1>1, <1>3, <1>4, <1>7 DEF FilledOK
<1>9. RoomOK'
  BY <1>1, <1>2, NearNumbers DEF RoomOK
<1> QED
  BY <1>4, <1>5, <1>6, <1>8, <1>9 DEF NearInv

(* The second pass fills and links a slot that has room. *)
LEMMA NearCopy ==
  ASSUME NearInv, Copy
  PROVE  NearInv'
<1> DEFINE f == Fill(ring[k], cur)
           q == Link(f)
<1>1. /\ pc = "copy" /\ k <= n /\ k # ru /\ mode[k] # "SUSPEND" /\ SpaceToWrite(ring[k])
      /\ ring' = [ring EXCEPT ![k] = q] /\ pc' = "publish"
      /\ UNCHANGED <<n, mode, k, ru, cur, posted>>
  BY DEF Copy
<1>2. NearType /\ StepOK /\ FilledOK /\ RoomOK /\ k \in Subscribers
      /\ ring[k] \in FitRingType /\ RingOK(ring[k])
  BY <1>1, NearNumbers DEF NearInv, NearRings
<1>3. /\ f \in FitRingType /\ RingOK(f) /\ SpaceToWrite(f) /\ f.writer = ring[k].writer
      /\ CurWrite(f).id = cur.id /\ CurWrite(f).sz = cur.sz
  BY <1>1, <1>2, NearNumbers, FillEffect, WriteKeeps, ZenonT(60) DEF SameButSlot
<1> HIDE DEF f
<1>4. /\ q \in FitRingType /\ RingOK(q) /\ SpaceToWrite(q) /\ q.writer = f.writer
      /\ CurWrite(q).id = cur.id /\ CurWrite(q).sz = cur.sz
      /\ CurWrite(q).next = NextOf([at |-> q.writer, sz |-> cur.sz])
  BY <1>3, LinkEffect, WriteKeeps DEF SameButSlot
<1> HIDE DEF q
<1>5. /\ ring' \in [Subscribers -> FitRingType] /\ NearRings' /\ ring'[k] = q
      /\ \A t \in Subscribers \ {k} : ring'[t] = ring[t]
  BY <1>1, <1>2, <1>4, OneRing
<1>6. NearType'
  BY <1>1, <1>2, <1>5 DEF NearType
<1>7. StepOK'
  BY <1>1, <1>2 DEF StepOK
<1>8. /\ \A s \in Writing' : s = k \/ (s \in Writing /\ s \in Subscribers /\ s # k)
      /\ Target' = k
  BY <1>1 DEF Writing, Target
<1>9. FilledOK'
  BY <1>1, <1>2, <1>4, <1>5, <1>8 DEF FilledOK
<1>10. RoomOK'
  BY <1>1, <1>2, <1>5, NearNumbers DEF RoomOK
<1> QED
  BY <1>5, <1>6, <1>7, <1>9, <1>10 DEF NearInv

(* ADVANCEWRITE of the slot an LFTA allocated, its first store. *)
LEMMA NearLinkLast ==
  ASSUME NearInv, LinkLast
  PROVE  NearInv'
<1> DEFINE q == Link(ring[ru])
<1>1. /\ pc = "copy" /\ k > n /\ ru # 0 /\ ring' = [ring EXCEPT ![ru] = q] /\ pc' = "publish"
      /\ UNCHANGED <<n, mode, k, ru, cur, posted>>
  BY DEF LinkLast
<1>2. NearType /\ StepOK /\ FilledOK /\ RoomOK /\ ru \in Subscribers
      /\ ring[ru] \in FitRingType /\ RingOK(ring[ru])
  BY <1>1, NearNumbers DEF NearInv, NearRings
<1>3. /\ SpaceToWrite(ring[ru])
      /\ CurWrite(ring[ru]).id = cur.id /\ CurWrite(ring[ru]).sz = cur.sz
  BY <1>2 DEF FilledOK, Writing
<1>4. /\ q \in FitRingType /\ RingOK(q) /\ SpaceToWrite(q)
      /\ CurWrite(q).id = cur.id /\ CurWrite(q).sz = cur.sz
      /\ CurWrite(q).next = NextOf([at |-> q.writer, sz |-> cur.sz])
  BY <1>2, <1>3, LinkEffect, WriteKeeps DEF SameButSlot
<1> HIDE DEF q
<1>5. /\ ring' \in [Subscribers -> FitRingType] /\ NearRings' /\ ring'[ru] = q
  BY <1>1, <1>2, <1>4, OneRing
<1>6. NearType'
  BY <1>1, <1>2, <1>5 DEF NearType
<1>7. ~(k <= n)
  BY <1>1, <1>2, NearNumbers
<1>8. StepOK'
  BY <1>1, <1>2, <1>7 DEF StepOK
<1>9. Target' = ru /\ \A s \in Writing' : s = ru
  BY <1>1, <1>7 DEF Writing, Target
<1>10. FilledOK'
  BY <1>1, <1>4, <1>5, <1>9 DEF FilledOK
<1>11. RoomOK'
  BY <1>1, <1>2, NearNumbers DEF RoomOK
<1> QED
  BY <1>5, <1>6, <1>8, <1>10, <1>11 DEF NearInv

(* What is published is the tuple that is posted, in a slot with room and a
   link. *)
LEMMA PublishReady ==
  ASSUME NearInv, pc = "publish"
  PROVE  LET r == ring[Target] IN
         /\ Target \in Subscribers /\ Target <= n /\ mode[Target] # "SUSPEND"
         /\ r \in FitRingType /\ RingOK(r) /\ SpaceToWrite(r)
         /\ CurWrite(r).id = posted /\ posted # 0 /\ CurWrite(r).sz \in Fitting
         /\ CurWrite(r).next = NextOf([at |-> r.writer, sz |-> CurWrite(r).sz])
<1>1. NearType /\ StepOK /\ FilledOK
  BY DEF NearInv
<1>2. Target \in Subscribers /\ Target <= n /\ mode[Target] # "SUSPEND"
  BY <1>1, NearNumbers DEF StepOK, Target
<1>3. ring[Target] \in FitRingType /\ RingOK(ring[Target])
  BY <1>1, <1>2, NearNumbers DEF NearInv, NearRings
<1>4. Target \in Writing
  BY <1>2 DEF Writing
<1> QED
  BY <1>1, <1>2, <1>3, <1>4 DEF StepOK, FilledOK

(* ADVANCEWRITE's second store. *)
LEMMA NearPublish ==
  ASSUME NearInv, PublishStep
  PROVE  NearInv'
<1> DEFINE q == Publish(ring[Target])
<1>1. /\ pc = "publish" /\ ring' = [ring EXCEPT ![Target] = q]
      /\ UNCHANGED <<n, mode, cur, posted>>
      /\ IF k <= n THEN pc' = "copy" /\ k' = k + 1 /\ ru' = ru
                   ELSE pc' = "idle" /\ k' = k /\ ru' = 0
  BY DEF PublishStep
<1>2. NearType /\ StepOK /\ FilledOK /\ RoomOK /\ Target \in Subscribers
  BY <1>1, PublishReady DEF NearInv
<1>3. q \in FitRingType /\ RingOK(q)
  BY <1>1, PublishReady, PublishEffect, PublishKeeps
<1> HIDE DEF q
<1>4. /\ ring' \in [Subscribers -> FitRingType] /\ NearRings'
      /\ \A t \in Subscribers \ {Target} : ring'[t] = ring[t]
  BY <1>1, <1>2, <1>3, OneRing
<1>5. CASE k <= n
  <2>1. Target = k /\ pc' = "copy" /\ k' = k + 1 /\ ru' = ru /\ k # ru
    BY <1>1, <1>2, <1>5 DEF Target, StepOK
  <2>2. NearType'
    BY <1>1, <1>2, <1>4, <1>5, <2>1, NearNumbers DEF NearType
  <2>3. StepOK'
    BY <1>1, <1>2, <1>5, <2>1, NearNumbers DEF StepOK
  <2>4. \A s \in Writing' : s = ru /\ s \in Writing /\ s \in Subscribers \ {Target}
    BY <2>1 DEF Writing
  <2>5. FilledOK'
    BY <1>1, <1>2, <1>4, <2>1, <2>4 DEF FilledOK
  <2>6. RoomOK'
    BY <1>1, <1>2, <1>4, <2>1, NearNumbers DEF RoomOK
  <2> QED
    BY <1>4, <2>2, <2>3, <2>5, <2>6 DEF NearInv
<1>6. CASE ~(k <= n)
  <2>1. pc' = "idle" /\ k' = k /\ ru' = 0
    BY <1>1, <1>6
  <2>2. NearType'
    BY <1>1, <1>2, <1>4, <2>1, NearNumbers DEF NearType
  <2>3. StepOK' /\ RoomOK'
    BY <2>1 DEF StepOK, RoomOK
  <2>4. Writing' = {}
    BY <1>2, <2>1, NearNumbers DEF Writing
  <2>5. FilledOK'
    BY <2>1, <2>4 DEF FilledOK
  <2> QED
    BY <1>4, <2>2, <2>3, <2>5 DEF NearInv
<1> QED
  BY <1>5, <1>6

-----------------------------------------------------------------------------
(* Lists of tuples. *)

(* The numbers of a list of tuples. *)
Ids(q) == [i \in 1 .. Len(q) |-> q[i].id]
(* They are numbers, one for each tuple. *)
LEMMA IdsType ==
  ASSUME NEW T, \A x \in T : x.id \in Nat, NEW q \in Seq(T)
  PROVE  /\ Ids(q) \in Seq(Nat) /\ Len(Ids(q)) = Len(q)
         /\ \A i \in 1 .. Len(q) : Ids(q)[i] = q[i].id
<1>1. Len(q) \in Nat /\ \A i \in 1 .. Len(q) : q[i] \in T
  BY LenProperties, ElementOfSeq
<1>2. Ids(q) \in [1 .. Len(q) -> Nat]
  BY <1>1 DEF Ids
<1>3. Ids(q) \in Seq(Nat)
  BY <1>1, <1>2, SMTT(30)
<1>4. Len(Ids(q)) = Len(q)
  BY <1>1, <1>2, <1>3, LenProperties DEF Ids
<1> QED BY <1>3, <1>4 DEF Ids

(* Of no tuples. *)
LEMMA IdsEmpty == Ids(<<>>) = <<>>
<1>1. Len(<<>>) = 0 OBVIOUS
<1> QED BY <1>1 DEF Ids

(* Of one tuple more. *)
LEMMA IdsAppend ==
  ASSUME NEW T, \A x \in T : x.id \in Nat, NEW q \in Seq(T), NEW e \in T
  PROVE  Ids(Append(q, e)) = Append(Ids(q), e.id)
<1>1. Append(q, e) \in Seq(T) /\ Len(Append(q, e)) = Len(q) + 1 /\ Len(q) \in Nat
      /\ \A i \in 1 .. Len(q) : Append(q, e)[i] = q[i]
      /\ Append(q, e)[Len(q) + 1] = e
  BY AppendProperties, LenProperties
<1>2. /\ Ids(q) \in Seq(Nat) /\ Len(Ids(q)) = Len(q) /\ e.id \in Nat
      /\ \A i \in 1 .. Len(q) : Ids(q)[i] = q[i].id
  BY IdsType
<1>3. /\ Ids(Append(q, e)) \in Seq(Nat) /\ Len(Ids(Append(q, e))) = Len(q) + 1
      /\ \A i \in 1 .. Len(q) + 1 : Ids(Append(q, e))[i] = Append(q, e)[i].id
  BY <1>1, IdsType
<1>4. /\ Append(Ids(q), e.id) \in Seq(Nat) /\ Len(Append(Ids(q), e.id)) = Len(q) + 1
      /\ \A i \in 1 .. Len(q) : Append(Ids(q), e.id)[i] = Ids(q)[i]
      /\ Append(Ids(q), e.id)[Len(q) + 1] = e.id
  BY <1>2, AppendProperties
<1>5. \A i \in 1 .. Len(q) + 1 : i \in 1 .. Len(q) \/ i = Len(q) + 1
  BY <1>1
<1>6. \A i \in 1 .. Len(q) + 1 : Ids(Append(q, e))[i] = Append(Ids(q), e.id)[i]
  BY <1>1, <1>2, <1>3, <1>4, <1>5
<1> QED
  BY <1>3, <1>4, <1>6, SeqEqual

(* Of all but the first. *)
LEMMA IdsTail ==
  ASSUME NEW T, \A x \in T : x.id \in Nat, NEW q \in Seq(T), q # <<>>
  PROVE  /\ Ids(Tail(q)) = Tail(Ids(q)) /\ Head(Ids(q)) = q[1].id /\ Ids(q) # <<>>
         /\ Head(q) = q[1] /\ q[1] \in T
<1>1. /\ Tail(q) \in Seq(T) /\ Len(q) \in Nat /\ Len(q) >= 1 /\ Len(Tail(q)) = Len(q) - 1
      /\ \A i \in 1 .. Len(q) - 1 : Tail(q)[i] = q[i + 1]
  BY HeadTailProperties, LenProperties, EmptySeq
<1>2. /\ Ids(q) \in Seq(Nat) /\ Len(Ids(q)) = Len(q)
      /\ \A i \in 1 .. Len(q) : Ids(q)[i] = q[i].id
  BY IdsType
<1>3. /\ Ids(Tail(q)) \in Seq(Nat) /\ Len(Ids(Tail(q))) = Len(q) - 1
      /\ \A i \in 1 .. Len(q) - 1 : Ids(Tail(q))[i] = Tail(q)[i].id
  BY <1>1, IdsType
<1>4. Ids(q) # <<>>
  BY <1>1, <1>2, EmptySeq
<1>5. /\ Tail(Ids(q)) \in Seq(Nat) /\ Len(Tail(Ids(q))) = Len(q) - 1
      /\ \A i \in 1 .. Len(q) - 1 : Tail(Ids(q))[i] = Ids(q)[i + 1]
  BY <1>2, <1>4, HeadTailProperties
<1>6. \A i \in 1 .. Len(q) - 1 : i + 1 \in 1 .. Len(q)
  BY <1>1
<1>7. Ids(Tail(q)) = Tail(Ids(q))
  <2>1. \A i \in 1 .. Len(q) - 1 : Ids(Tail(q))[i] = Tail(Ids(q))[i]
    BY <1>1, <1>2, <1>3, <1>5, <1>6
  <2> QED
    BY <1>3, <1>5, <2>1, SeqEqual
<1>8. 1 \in 1 .. Len(q)
  BY <1>1
<1>9. q[1] \in T
  BY <1>8, ElementOfSeq
<1>10. Head(q) = q[1] /\ Head(Ids(q)) = Ids(q)[1]
  OBVIOUS
<1> QED
  BY <1>2, <1>4, <1>7, <1>8, <1>9, <1>10

(* The first of b may as well be the last before it. *)
LEMMA MoveHead ==
  ASSUME NEW a \in Seq(Nat), NEW b \in Seq(Nat), b # <<>>
  PROVE  Append(a, Head(b)) \o Tail(b) = a \o b
<1>1. Head(b) \in Nat /\ Tail(b) \in Seq(Nat) /\ Len(b) \in Nat /\ Len(b) >= 1 /\ Head(b) = b[1]
  BY HeadTailProperties, LenProperties, EmptySeq
<1>2. <<Head(b)>> \o Tail(b) = b
  <2>1. 1 \in 1 .. Len(b) /\ Len(b) \in 1 .. Len(b)
    BY <1>1
  <2>2. SubSeq(b, 1, Len(b)) = <<b[1]>> \o SubSeq(b, 1 + 1, Len(b))
    BY <2>1, SubSeqRecursiveFirst
  <2>3. SubSeq(b, 1, Len(b)) = b /\ Tail(b) = SubSeq(b, 2, Len(b))
    BY SubSeqFull, TailIsSubSeq
  <2> QED
    BY <1>1, <2>2, <2>3
<1>3. Append(a, Head(b)) = a \o <<Head(b)>>
  BY <1>1, AppendIsConcat
<1>4. <<Head(b)>> \in Seq(Nat)
  BY <1>1
<1>5. (a \o <<Head(b)>>) \o Tail(b) = a \o (<<Head(b)>> \o Tail(b))
  BY <1>1, <1>4, ConcatAssociative
<1> QED
  BY <1>2, <1>3, <1>5

(* The first of a is the first of all. *)
LEMMA TakeHead ==
  ASSUME NEW a \in Seq(Nat), NEW b \in Seq(Nat), a # <<>>
  PROVE  /\ Head(a \o b) = Head(a) /\ Tail(a \o b) = Tail(a) \o b /\ a \o b # <<>>
<1>1. /\ Tail(a) \in Seq(Nat) /\ Len(a) \in Nat /\ Len(a) >= 1 /\ Len(b) \in Nat
      /\ Len(Tail(a)) = Len(a) - 1 /\ \A i \in 1 .. Len(a) - 1 : Tail(a)[i] = a[i + 1]
      /\ Head(a) = a[1]
  BY HeadTailProperties, LenProperties, EmptySeq
<1> DEFINE c == a \o b
<1>2. /\ c \in Seq(Nat) /\ Len(c) = Len(a) + Len(b)
      /\ \A i \in 1 .. Len(a) + Len(b) : c[i] = IF i <= Len(a) THEN a[i] ELSE b[i - Len(a)]
  BY ConcatProperties
<1> HIDE DEF c
<1>3. c # <<>> /\ Head(c) = c[1] /\ c[1] = a[1]
  <2>1. Len(c) # 0 /\ 1 \in 1 .. Len(a) + Len(b) /\ 1 <= Len(a)
    BY <1>1, <1>2
  <2>2. c # <<>>
    BY <2>1, EmptySeq
  <2> QED
    BY <1>2, <2>1, <2>2
<1>4. /\ Tail(c) \in Seq(Nat) /\ Len(Tail(c)) = Len(a) + Len(b) - 1
      /\ \A i \in 1 .. Len(a) + Len(b) - 1 : Tail(c)[i] = c[i + 1]
  BY <1>1, <1>2, <1>3, HeadTailProperties
<1>5. /\ Tail(a) \o b \in Seq(Nat) /\ Len(Tail(a) \o b) = Len(a) + Len(b) - 1
      /\ \A i \in 1 .. Len(a) + Len(b) - 1 :
           (Tail(a) \o b)[i] = IF i <= Len(a) - 1 THEN Tail(a)[i] ELSE b[i - (Len(a) - 1)]
  <2>1. Len(Tail(a)) + Len(b) = Len(a) + Len(b) - 1
    BY <1>1
  <2> QED
    BY <1>1, <2>1, ConcatProperties
<1>6. ASSUME NEW i \in 1 .. Len(a) + Len(b) - 1 PROVE Tail(c)[i] = (Tail(a) \o b)[i]
  <2>0. i + 1 \in 1 .. Len(a) + Len(b)
    BY <1>1
  <2>1. CASE i <= Len(a) - 1
    <3>1. i \in 1 .. Len(a) - 1 /\ i + 1 <= Len(a)
      BY <1>1, <2>1
    <3> QED
      BY <1>1, <1>2, <1>4, <1>5, <2>0, <2>1, <3>1
  <2>2. CASE ~(i <= Len(a) - 1)
    <3>1. ~(i + 1 <= Len(a)) /\ (i + 1) - Len(a) = i - (Len(a) - 1)
      BY <1>1, <2>2
    <3> QED
      BY <1>2, <1>4, <1>5, <2>0, <2>2, <3>1
  <2> QED
    BY <2>1, <2>2
<1>7. Tail(c) = Tail(a) \o b
  BY <1>4, <1>5, <1>6, SeqEqual
<1> QED
  BY <1>1, <1>3, <1>7 DEF c

(* One more behind. *)
LEMMA AppendConcat ==
  ASSUME NEW a \in Seq(Nat), NEW b \in Seq(Nat), NEW x \in Nat
  PROVE  a \o Append(b, x) = Append(a \o b, x)
<1>1. Append(b, x) = b \o <<x>> /\ <<x>> \in Seq(Nat) /\ a \o b \in Seq(Nat)
  BY AppendIsConcat, ConcatProperties
<1>2. Append(a \o b, x) = (a \o b) \o <<x>>
  BY <1>1, AppendIsConcat
<1> QED
  BY <1>1, <1>2, ConcatAssociative

(* Slots and packets carry the number of their tuple. *)
LEMMA TupleNumbers ==
  /\ \A x \in Slots : x.id \in Nat
  /\ \A x \in Packets : x.id \in Nat
  BY Constants DEF Slots, Packets

-----------------------------------------------------------------------------
(* The subscribers' end. *)

FarType == side \in {"HFTA", "LFTA"} /\ remote \subseteq Subscribers /\ far \in [Subscribers -> FitRingType]

FarRings == \A s \in Subscribers : RingOK(far[s])

FarInv == FarType /\ FarRings /\ EndsOK

(* Nothing of the subscribers'. *)
LEMMA FarSame ==
  ASSUME FarInv, UNCHANGED <<place, ends>>
  PROVE  FarInv'
  BY DEF FarInv, FarType, FarRings, EndsOK, place, ends

(* The packet the oldest unread slot makes. *)
LEMMA FirstPacket ==
  ASSUME NEW r \in FitRingType, RingOK(r), Unread(r)
  PROVE  /\ [id |-> CurRead(r).id, sz |-> CurRead(r).sz] \in Packets
         /\ CurRead(r).id \in Nat /\ CurRead(r).id = r.unread[1].id
<1>1. CurRead(r).id = r.unread[1].id /\ CurRead(r).sz = r.unread[1].sz /\ 1 \in 1 .. Len(r.unread)
  BY FirstSlot
<1>2. r.unread[1].id \in 1 .. MaxPosts /\ r.unread[1].sz \in Fitting
  BY <1>1, SlotParts
<1> QED
  BY <1>1, <1>2, Constants DEF Packets

(* A subscriber on the poster's host reads. *)
LEMMA FarReceive ==
  ASSUME NearInv, FarInv, NEW s \in Subscribers, Receive(s)
  PROVE  FarInv'
<1>1. ring[s] \in FitRingType /\ RingOK(ring[s]) /\ Unread(ring[s])
  BY NearNumbers DEF Receive, NearInv, NearRings
<1>2. got \in [Subscribers -> Seq(Nat)] /\ CurRead(ring[s]).id \in Nat
  BY <1>1, FirstPacket DEF FarInv, EndsOK
<1>3. Append(got[s], CurRead(ring[s]).id) \in Seq(Nat)
  BY <1>2, AppendProperties
<1>4. got' \in [Subscribers -> Seq(Nat)] /\ UNCHANGED <<place, wire, far, hand>>
  BY <1>2, <1>3 DEF Receive
<1> QED
  BY <1>4 DEF FarInv, FarType, FarRings, EndsOK, place

(* The poster's gscpipc_read sends. *)
LEMMA FarDrain ==
  ASSUME NearInv, FarInv, NEW s \in Subscribers, DrainRemote(s)
  PROVE  FarInv'
<1>1. /\ ring[s] \in FitRingType /\ RingOK(ring[s]) /\ Unread(ring[s]) /\ s \in remote
      /\ UNCHANGED <<place, far, hand, got>>
      /\ wire' = [wire EXCEPT ![s] = Append(@, [id |-> CurRead(ring[s]).id, sz |-> CurRead(ring[s]).sz])]
  BY NearNumbers DEF DrainRemote, Draining, NearInv, NearRings
<1>2. /\ wire \in [Subscribers -> Seq(Packets)]
      /\ [id |-> CurRead(ring[s]).id, sz |-> CurRead(ring[s]).sz] \in Packets
  BY <1>1, FirstPacket DEF FarInv, EndsOK
<1>3. Append(wire[s], [id |-> CurRead(ring[s]).id, sz |-> CurRead(ring[s]).sz]) \in Seq(Packets)
  BY <1>2, AppendProperties
<1>4. wire' \in [Subscribers -> Seq(Packets)] /\ \A x \in Subscribers \ {s} : wire'[x] = wire[x]
  BY <1>1, <1>2, <1>3
<1> QED
  BY <1>1, <1>4 DEF FarInv, FarType, FarRings, EndsOK, place

(* A subscriber on another host reads. *)
LEMMA FarReceiveFar ==
  ASSUME FarInv, NEW s \in Subscribers, ReceiveFar(s)
  PROVE  FarInv'
<1>1. /\ far[s] \in FitRingType /\ RingOK(far[s]) /\ Unread(far[s]) /\ s \in remote
      /\ UNCHANGED <<place, wire, hand>>
      /\ got' = [got EXCEPT ![s] = Append(@, CurRead(far[s]).id)]
      /\ far' = [far EXCEPT ![s] = AdvanceRead(@)]
  BY DEF ReceiveFar, FarInv, FarType, FarRings
<1>2. got \in [Subscribers -> Seq(Nat)] /\ CurRead(far[s]).id \in Nat
  BY <1>1, FirstPacket DEF FarInv, EndsOK
<1>3. Append(got[s], CurRead(far[s]).id) \in Seq(Nat)
  BY <1>2, AppendProperties
<1>4. got' \in [Subscribers -> Seq(Nat)]
  BY <1>1, <1>2, <1>3
<1>5. AdvanceRead(far[s]) \in FitRingType /\ RingOK(AdvanceRead(far[s]))
  BY <1>1, ReadKeeps
<1>6. /\ far' \in [Subscribers -> FitRingType] /\ far'[s] = AdvanceRead(far[s])
      /\ \A x \in Subscribers \ {s} : far'[x] = far[x]
  BY <1>1, <1>5 DEF FarInv, FarType
<1>7. FarRings'
  BY <1>5, <1>6 DEF FarInv, FarRings
<1> QED
  BY <1>1, <1>4, <1>6, <1>7 DEF FarInv, FarType, EndsOK, place

(* The subscriber's gscpipc_read takes a message. *)
LEMMA FarArrive ==
  ASSUME FarInv, NEW s \in Subscribers, Arrive(s)
  PROVE  FarInv' /\ s \in remote
<1>1. /\ hand[s] = <<>> /\ wire[s] # <<>> /\ UNCHANGED <<place, far, got>>
      /\ hand' = [hand EXCEPT ![s] = <<Head(wire[s])>>] /\ wire' = [wire EXCEPT ![s] = Tail(@)]
  BY DEF Arrive
<1>2. /\ wire \in [Subscribers -> Seq(Packets)] /\ hand \in [Subscribers -> Seq(Packets)]
      /\ s \in remote
  BY <1>1 DEF FarInv, EndsOK
<1>3. wire[s] \in Seq(Packets)
  BY <1>2
<1>4. Head(wire[s]) \in Packets /\ Tail(wire[s]) \in Seq(Packets)
  BY <1>1, <1>3, HeadTailProperties
<1>5. <<Head(wire[s])>> \in Seq(Packets) /\ Len(<<Head(wire[s])>>) = 1
  BY <1>4
<1>6. /\ wire' \in [Subscribers -> Seq(Packets)] /\ hand' \in [Subscribers -> Seq(Packets)]
      /\ hand'[s] = <<Head(wire[s])>>
      /\ \A x \in Subscribers \ {s} : wire'[x] = wire[x] /\ hand'[x] = hand[x]
  BY <1>1, <1>2, <1>4, <1>5
<1>7. ASSUME NEW x \in Subscribers PROVE Len(hand'[x]) <= 1
  <2>1. CASE x = s
    <3>1. hand'[x] = <<Head(wire[s])>>
      BY <1>6, <2>1
    <3> QED
      BY <1>5, <3>1
  <2>2. CASE x # s
    BY <1>6, <2>2 DEF FarInv, EndsOK
  <2> QED
    BY <2>1, <2>2
<1> QED
  BY <1>1, <1>2, <1>6, <1>7 DEF FarInv, FarType, FarRings, EndsOK, place

(* What the subscriber's gscpipc_read stores in its own ring buffer. *)
LEMMA StoreEffect ==
  ASSUME NEW r \in FitRingType, RingOK(r), SpaceToWrite(r), NEW p \in Packets
  PROVE  LET q == Publish(Link(Fill(r, p))) IN
         /\ q \in FitRingType /\ RingOK(q)
         /\ \E e \in Slots : e.id = p.id /\ q.unread = Append(r.unread, e)
<1> DEFINE a == Fill(r, p)
           b == Link(a)
<1>1. p.id \in 0 .. MaxPosts /\ p.id # 0 /\ p.sz \in Fitting
  BY Constants DEF Packets
<1>2. /\ a \in FitRingType /\ SameButSlot(r, a) /\ CurWrite(a).id = p.id /\ CurWrite(a).sz = p.sz
  BY <1>1, FillEffect
<1>3. RingOK(a) /\ SpaceToWrite(a) /\ a.unread = r.unread
  BY <1>2, WriteKeeps DEF SameButSlot
<1> HIDE DEF a
<1>4. /\ b \in FitRingType /\ SameButSlot(a, b) /\ CurWrite(b).id = p.id /\ CurWrite(b).sz = p.sz
      /\ CurWrite(b).next = NextOf([at |-> b.writer, sz |-> CurWrite(b).sz])
  BY <1>2, LinkEffect DEF SameButSlot
<1>5. RingOK(b) /\ SpaceToWrite(b) /\ b.unread = r.unread
  BY <1>2, <1>3, <1>4, WriteKeeps DEF SameButSlot
<1> HIDE DEF b
<1>6. Publish(b) \in FitRingType /\ RingOK(Publish(b))
  BY <1>1, <1>4, <1>5, PublishEffect, PublishKeeps
<1>7. \E e \in Slots : e.id = p.id /\ Publish(b).unread = Append(r.unread, e)
  <2> DEFINE e == [at |-> b.writer, sz |-> CurWrite(b).sz, id |-> CurWrite(b).id]
  <2>1. e \in Slots /\ Publish(b).unread = Append(b.unread, e)
    BY <1>1, <1>4, PublishEffect
  <2>2. e.id = p.id
    BY <1>4
  <2> QED
    BY <1>5, <2>1, <2>2
<1> QED
  BY <1>6, <1>7 DEF a, b

(* The subscriber's gscpipc_read stores the message it holds. *)
LEMMA FarStore ==
  ASSUME FarInv, NEW s \in Subscribers, StoreFar(s)
  PROVE  /\ FarInv' /\ s \in remote /\ hand[s] = <<Head(hand[s])>> /\ Head(hand[s]) \in Packets
         /\ \E e \in Slots : /\ e.id = Head(hand[s]).id
                             /\ far'[s].unread = Append(far[s].unread, e)
<1> DEFINE p == Head(hand[s])
           q == Publish(Link(Fill(far[s], p)))
<1>1. /\ hand[s] # <<>> /\ SpaceToWrite(far[s]) /\ UNCHANGED <<place, wire, got>>
      /\ far' = [far EXCEPT ![s] = q] /\ hand' = [hand EXCEPT ![s] = <<>>]
  BY DEF StoreFar
<1>2. /\ hand \in [Subscribers -> Seq(Packets)] /\ Len(hand[s]) <= 1
      /\ far[s] \in FitRingType /\ RingOK(far[s]) /\ s \in remote
  BY <1>1 DEF FarInv, FarType, FarRings, EndsOK
<1>3. p \in Packets /\ hand[s] = <<p>>
  <2>1. hand[s] \in Seq(Packets)
    BY <1>2
  <2>2. p \in Packets /\ Len(hand[s]) = 1 /\ p = hand[s][1]
    <3>1. p \in Packets
      BY <1>1, <2>1, HeadTailProperties
    <3>2. Len(hand[s]) \in Nat /\ Len(hand[s]) # 0
      BY <1>1, <2>1, LenProperties, EmptySeq
    <3>3. \A x \in Nat : x # 0 /\ x <= 1 => x = 1
      OBVIOUS
    <3>4. p = hand[s][1]
      BY <2>1
    <3> QED
      BY <1>2, <3>1, <3>2, <3>3, <3>4, Zenon
  <2>3. <<p>> \in Seq(Packets) /\ Len(<<p>>) = 1 /\ <<p>>[1] = p
    BY <2>2
  <2>4. \A i \in 1 .. 1 : hand[s][i] = <<p>>[i]
    BY <2>2, <2>3
  <2> HIDE DEF p
  <2> QED
    BY <2>1, <2>2, <2>3, <2>4, SeqEqual
<1>4. /\ q \in FitRingType /\ RingOK(q)
      /\ \E e \in Slots : e.id = p.id /\ q.unread = Append(far[s].unread, e)
  BY <1>1, <1>2, <1>3, StoreEffect
<1> HIDE DEF p, q
<1>5. /\ far' \in [Subscribers -> FitRingType] /\ far'[s] = q
      /\ \A x \in Subscribers \ {s} : far'[x] = far[x]
  BY <1>1, <1>4 DEF FarInv, FarType
<1>6. FarRings'
  BY <1>4, <1>5 DEF FarInv, FarRings
<1>7. /\ hand' \in [Subscribers -> Seq(Packets)] /\ hand'[s] = <<>>
      /\ \A x \in Subscribers \ {s} : hand'[x] = hand[x]
  BY <1>1, <1>2
<1>8. \A x \in Subscribers : Len(hand'[x]) <= 1
  <2>1. Len(<<>>) <= 1
    OBVIOUS
  <2> QED
    BY <1>7, <2>1 DEF FarInv, EndsOK
<1>9. EndsOK'
  BY <1>1, <1>2, <1>5, <1>7, <1>8 DEF FarInv, EndsOK, place
<1>10. FarInv'
  BY <1>1, <1>5, <1>6, <1>9 DEF FarInv, FarType, place
<1> QED
  BY <1>2, <1>3, <1>4, <1>5, <1>10 DEF p

-----------------------------------------------------------------------------
(* The invariant of the stream. *)

(* The two ends make the whole. *)
LEMMA TwoEnds == StreamInv <=> NearInv /\ FarInv
  BY DEF StreamInv, TypesFit, RingsOK, NearInv, NearType, NearRings, FarInv, FarType, FarRings

(* And after a step. *)
LEMMA TwoEndsAfter == NearInv' /\ FarInv' => StreamInv'
  BY DEF StreamInv, TypesFit, RingsOK, NearInv, NearType, NearRings, FarInv, FarType, FarRings

(* gscpipc_createshm makes a ring buffer with nothing in it. *)
LEMMA EmptyIsOK == EmptyRing \in FitRingType /\ RingOK(EmptyRing)
<1>1. 0 \in Offsets /\ 0 \in 0 .. MaxPosts
  BY Constants DEF Offsets
<1>2. NoTuple \in Headers
  BY <1>1 DEF NoTuple, Headers
<1>3. EmptyRing \in FitRingType
  BY <1>1, <1>2 DEF EmptyRing, FitRingType
<1>4. EmptyRing.unread = <<>> /\ EmptyRing.reader = 0 /\ EmptyRing.writer = 0
  BY DEF EmptyRing
<1>5. 1 .. Len(<<>>) = {} /\ 1 .. Len(<<>>) - 1 = {}
  OBVIOUS
<1> QED
  BY <1>3, <1>4, <1>5 DEF RingOK, Linked, Stored, Apart

(* The invariant holds at the start. *)
LEMMA InitInv == Init => StreamInv
<1> SUFFICES ASSUME Init PROVE StreamInv
  OBVIOUS
<1>1. N \in Nat /\ N >= 1 /\ MaxPosts \in Nat /\ Placements \subseteq SUBSET (1 .. N)
  BY Constants, StreamAssumption
<1>2. TypesFit
  BY <1>1, EmptyIsOK DEF Init, TypesFit, Subscribers, Modes
<1>3. RingsOK
  BY EmptyIsOK DEF Init, RingsOK
<1>4. EndsOK
  <2>1. <<>> \in Seq(Packets) /\ <<>> \in Seq(Nat) /\ Len(<<>>) <= 1 /\ EmptyRing.unread = <<>>
    BY DEF EmptyRing
  <2> QED
    BY <2>1 DEF Init, EndsOK
<1>5. StepOK /\ RoomOK
  BY DEF Init, StepOK, RoomOK
<1>6. Writing = {} /\ pc # "publish"
  BY <1>1 DEF Init, Writing, Subscribers
<1>7. FilledOK
  BY <1>6 DEF FilledOK
<1> QED
  BY <1>2, <1>3, <1>4, <1>5, <1>7 DEF StreamInv

(* Every step of the poster, of a reader and of a connection keeps it. *)
LEMMA StepInv ==
  ASSUME StreamInv, [Next]_vars, CurFits'
  PROVE  StreamInv'
<1>0. NearInv /\ FarInv
  BY TwoEnds
<1>1. CASE Subscribe \/ \E m \in Modes : SetRingbufType(m)
  <2>1. UNCHANGED <<place, ends>>
    BY <1>1 DEF Subscribe, SetRingbufType
  <2> QED
    BY <1>0, <1>1, <2>1, NearServe, FarSame, TwoEndsAfter
<1>2. CASE \/ \E z \in Sizes : Post(z)
           \/ AllocateNext \/ AllocateFails \/ Check \/ CopyNext \/ PostDone
  <2>1. UNCHANGED <<place, ends>>
    BY <1>2 DEF Post, AllocateNext, AllocateFails, Check, CopyNext, PostDone
  <2> QED
    BY <1>0, <1>2, <2>1, NearQuiet, FarSame, TwoEndsAfter
<1>3. CASE Allocate \/ Copy \/ LinkLast \/ PublishStep
  <2>1. UNCHANGED <<place, ends>>
    BY <1>3 DEF Allocate, Copy, LinkLast, PublishStep
  <2>2. NearInv'
    BY <1>0, <1>3, NearAllocate, NearCopy, NearLinkLast, NearPublish
  <2> QED
    BY <1>0, <2>1, <2>2, FarSame, TwoEndsAfter
<1>4. ASSUME NEW s \in Subscribers, Receive(s) \/ DrainRemote(s) \/ LoseRemote(s)
      PROVE  StreamInv'
  <2>1. /\ Unread(ring[s]) /\ ring' = [ring EXCEPT ![s] = AdvanceRead(@)]
        /\ UNCHANGED <<n, mode, pc, k, ru, cur, posted>>
    BY <1>4 DEF Receive, DrainRemote, LoseRemote, Draining
  <2>2. NearInv'
    BY <1>0, <2>1, NearRead
  <2>3. FarInv'
    <3>1. CASE LoseRemote(s)
      BY <1>0, <3>1, FarSame DEF LoseRemote
    <3> QED
      BY <1>0, <1>4, <3>1, FarReceive, FarDrain
  <2> QED
    BY <2>2, <2>3, TwoEndsAfter
<1>5. ASSUME NEW s \in Subscribers, ReceiveFar(s) \/ Arrive(s) \/ StoreFar(s)
      PROVE  StreamInv'
  <2>1. UNCHANGED posterVars
    BY <1>5 DEF ReceiveFar, Arrive, StoreFar, posterVars
  <2>2. FarInv'
    BY <1>0, <1>5, FarReceiveFar, FarArrive, FarStore
  <2> QED
    BY <1>0, <2>1, <2>2, NearSame, TwoEndsAfter
<1>6. CASE UNCHANGED vars
  <2>1. UNCHANGED posterVars /\ UNCHANGED <<place, ends>>
    BY <1>6 DEF vars, posterVars, place, ends
  <2> QED
    BY <1>0, <2>1, NearSame, FarSame, TwoEndsAfter
<1> QED
  BY <1>1, <1>2, <1>3, <1>4, <1>5, <1>6 DEF Next, Poster, Reads

(* The ring buffers of a stream keep their lists of unread slots, linked and
   apart, whatever the interleaving of the poster (its two passes included),
   the readers and the connections, in every behaviour in which each tuple that
   is posted fits with its header, which the code leaves to its callers. *)
THEOREM StreamInvariant == Spec /\ []CurFits => []StreamInv
<1>1. StreamInv /\ [Next]_vars /\ CurFits' => StreamInv'
  BY StepInv
<1> QED
  BY <1>1, InitInv, PTL DEF Spec

(* Types with sizes that fit are types. *)
LEMMA FittingTypes == TypesFit => TypeOK
<1>1. FitRingType \subseteq RingType
  <2>1. Headers \subseteq [id : 0 .. MaxPosts, sz : Sizes \cup {0}, next : Offsets]
    BY DEF Headers, Fitting
  <2>2. Seq(Slots) \subseteq Seq([at : Offsets, sz : Sizes, id : 1 .. MaxPosts])
    <3>1. Slots \subseteq [at : Offsets, sz : Sizes, id : 1 .. MaxPosts]
      BY DEF Slots, Fitting
    <3> QED
      BY <3>1, SeqMonotonic
  <2> QED
    BY <2>1, <2>2 DEF FitRingType, RingType
<1> QED
  BY <1>1 DEF TypesFit, TypeOK, Fitting

(* Every variable of the stream keeps its type, when the tuples posted fit: the
   offsets stay in the segment, a cursor never leaves the table fstreamid by
   more than one. *)
THEOREM StreamTypes == Spec /\ []CurFits => []TypeOK
<1>1. StreamInv => TypeOK
  BY FittingTypes DEF StreamInv
<1> QED
  BY <1>1, StreamInvariant, PTL

(* No poster writes over a tuple that is still to be read, or past the
   segment, in every behaviour in which each tuple that is posted fits with its
   header.  The condition is needed: the code compares only the payload with
   MAXTUPLESZ, and LargestTuple.cfg has TLC write over an unread tuple with a
   payload that passes. *)
THEOREM NothingOverwritten == Spec /\ []CurFits => []NoOverwrite
<1>1. ASSUME StreamInv PROVE NoOverwrite
  <2>0. NearInv
    BY <1>1, TwoEnds
  <2> SUFFICES ASSUME NEW s \in Writing
               PROVE  /\ \A i \in DOMAIN ring[s].unread :
                           Bytes(ring[s].writer, CurWrite(ring[s]).sz) \cap
                             Bytes(ring[s].unread[i].at, ring[s].unread[i].sz) = {}
                      /\ \A b \in Bytes(ring[s].writer, CurWrite(ring[s]).sz) :
                           b < End + MaxTupleSz - RingHeader
    BY DEF NoOverwrite
  <2>1. s \in Subscribers /\ ring[s] \in FitRingType /\ RingOK(ring[s])
    BY <2>0, NearNumbers DEF Writing, NearInv, NearRings
  <2>2. SpaceToWrite(ring[s]) /\ CurWrite(ring[s]).sz = cur.sz
    BY <2>0 DEF NearInv, FilledOK
  <2>3. pc # "idle"
    BY <2>0, <2>1, NearNumbers DEF NearInv, StepOK, Writing
  <2>4. cur.sz \in Fitting
    BY <2>0, <2>3 DEF NearInv, StepOK
  <2> QED
    BY <2>1, <2>2, <2>4, SlotIsFree
<1> QED
  BY <1>1, StreamInvariant, PTL

-----------------------------------------------------------------------------
(***************************************************************************)
(* TupleStream implements Multicast: every step of the poster, of a        *)
(* connection and of a subscriber is a step of the abstract multicast or   *)
(* changes nothing of it.                                                  *)
(***************************************************************************)

AMode == [s \in Subscribers |-> IF s <= n THEN mode[s] ELSE "SUSPEND"]
AQueue == [s \in Subscribers |-> Queue(s)]
avars == <<posted, AMode, Due, remote, AQueue, got>>

-----------------------------------------------------------------------------
(* What a subscriber has not received. *)

(* The four places a tuple can be in, from the subscriber to the poster. *)
Chain(a, b, c, d) == ((a \o b) \o c) \o d

(* The oldest tuple is the first of the first place. *)
LEMMA ChainFirst ==
  ASSUME NEW a \in Seq(Nat), NEW b \in Seq(Nat), NEW c \in Seq(Nat), NEW d \in Seq(Nat), a # <<>>
  PROVE  /\ Head(Chain(a, b, c, d)) = Head(a) /\ Chain(a, b, c, d) # <<>>
         /\ Tail(Chain(a, b, c, d)) = Chain(Tail(a), b, c, d)
<1> DEFINE x == a \o b
           y == x \o c
<1>1. x \in Seq(Nat) /\ Head(x) = Head(a) /\ Tail(x) = Tail(a) \o b /\ x # <<>>
  BY TakeHead, ConcatProperties
<1> HIDE DEF x
<1>2. y \in Seq(Nat) /\ Head(y) = Head(x) /\ Tail(y) = Tail(x) \o c /\ y # <<>>
  BY <1>1, TakeHead, ConcatProperties
<1> HIDE DEF y
<1>3. Head(y \o d) = Head(y) /\ Tail(y \o d) = Tail(y) \o d /\ y \o d # <<>>
  BY <1>2, TakeHead
<1>4. Head(y \o d) = Head(a) /\ Tail(y \o d) = ((Tail(a) \o b) \o c) \o d
  BY <1>1, <1>2, <1>3
<1> QED
  BY <1>3, <1>4 DEF x, y, Chain

(* The youngest is the last of the last place. *)
LEMMA ChainLast ==
  ASSUME NEW a \in Seq(Nat), NEW b \in Seq(Nat), NEW c \in Seq(Nat), NEW d \in Seq(Nat), NEW x \in Nat
  PROVE  Chain(a, b, c, Append(d, x)) = Append(Chain(a, b, c, d), x)
<1> DEFINE y == (a \o b) \o c
<1>1. y \in Seq(Nat)
  BY ConcatProperties
<1> HIDE DEF y
<1>2. y \o Append(d, x) = Append(y \o d, x)
  BY <1>1, AppendConcat
<1> QED
  BY <1>2 DEF y, Chain

(* From the poster's ring buffer onto the wire. *)
LEMMA ChainSent ==
  ASSUME NEW a \in Seq(Nat), NEW b \in Seq(Nat), NEW c \in Seq(Nat), NEW d \in Seq(Nat), d # <<>>
  PROVE  Chain(a, b, Append(c, Head(d)), Tail(d)) = Chain(a, b, c, d)
<1> DEFINE x == a \o b
           y == x \o c
<1>1. x \in Seq(Nat) /\ Head(d) \in Nat
  BY ConcatProperties, HeadTailProperties
<1> HIDE DEF x
<1>2. x \o Append(c, Head(d)) = Append(y, Head(d)) /\ y \in Seq(Nat)
  BY <1>1, AppendConcat, ConcatProperties
<1> HIDE DEF y
<1>3. Append(y, Head(d)) \o Tail(d) = y \o d
  BY <1>2, MoveHead
<1>4. (x \o Append(c, Head(d))) \o Tail(d) = y \o d
  BY <1>2, <1>3
<1> QED
  BY <1>4 DEF x, y, Chain

(* Past the poster's ring buffer and onto no wire. *)
LEMMA ChainLost ==
  ASSUME NEW a \in Seq(Nat), NEW b \in Seq(Nat), NEW c \in Seq(Nat), NEW d \in Seq(Nat), d # <<>>
  PROVE  LET m == Len((a \o b) \o c) + 1 IN
         /\ Chain(a, b, c, Tail(d)) = Abstract!Without(Chain(a, b, c, d), m)
         /\ m \in 1 .. Len(Chain(a, b, c, d))
<1> DEFINE y == (a \o b) \o c
           u == y \o Tail(d)
           w == Abstract!Without(y \o d, Len(y) + 1)
<1>1. y \in Seq(Nat) /\ Tail(d) \in Seq(Nat) /\ Len(d) \in Nat /\ Len(d) >= 1
  BY ConcatProperties, HeadTailProperties, EmptySeq, LenProperties
<1>2. Len(Tail(d)) = Len(d) - 1 /\ \A i \in 1 .. Len(d) - 1 : Tail(d)[i] = d[i + 1]
  BY HeadTailProperties
<1> HIDE DEF y
<1>3. Len(y) \in Nat
  BY <1>1, LenProperties
<1>4. /\ y \o d \in Seq(Nat) /\ Len(y \o d) = Len(y) + Len(d)
      /\ \A i \in 1 .. Len(y) + Len(d) : (y \o d)[i] = IF i <= Len(y) THEN y[i] ELSE d[i - Len(y)]
  BY <1>1, ConcatProperties
<1>5. /\ u \in Seq(Nat) /\ Len(u) = Len(y) + Len(Tail(d))
      /\ \A i \in 1 .. Len(y) + Len(Tail(d)) : u[i] = IF i <= Len(y) THEN y[i] ELSE Tail(d)[i - Len(y)]
  BY <1>1, ConcatProperties
<1>6. DOMAIN u = 1 .. Len(y) + Len(d) - 1 /\ u = [i \in DOMAIN u |-> u[i]]
  BY <1>1, <1>2, <1>3, <1>5, LenProperties
<1>7. w = [i \in 1 .. Len(y) + Len(d) - 1 |-> IF i < Len(y) + 1 THEN (y \o d)[i] ELSE (y \o d)[i + 1]]
  BY <1>4 DEF Abstract!Without
<1> HIDE DEF u, w
<1>8. \A i \in 1 .. Len(y) + Len(d) - 1 : u[i] = IF i < Len(y) + 1 THEN (y \o d)[i] ELSE (y \o d)[i + 1]
  <2> SUFFICES ASSUME NEW i \in 1 .. Len(y) + Len(d) - 1
               PROVE  u[i] = IF i < Len(y) + 1 THEN (y \o d)[i] ELSE (y \o d)[i + 1]
    OBVIOUS
  <2>1. CASE i <= Len(y)
    <3>1. u[i] = y[i]
      BY <1>1, <1>2, <1>3, <1>5, <2>1
    <3>2. (y \o d)[i] = y[i]
      BY <1>1, <1>3, <1>4, <2>1
    <3> QED
      BY <1>3, <2>1, <3>1, <3>2
  <2>2. CASE ~(i <= Len(y))
    <3>1. u[i] = Tail(d)[i - Len(y)] /\ i - Len(y) \in 1 .. Len(d) - 1
      BY <1>1, <1>2, <1>3, <1>5, <2>2
    <3>2. (y \o d)[i + 1] = d[(i + 1) - Len(y)]
      BY <1>1, <1>3, <1>4, <2>2
    <3>3. (i - Len(y)) + 1 = (i + 1) - Len(y)
      BY <1>3
    <3>4. Tail(d)[i - Len(y)] = d[(i + 1) - Len(y)]
      BY <1>2, <3>1, <3>3
    <3> QED
      BY <1>3, <2>2, <3>1, <3>2, <3>4
  <2> QED
    BY <2>1, <2>2
<1>9. u = w
  BY <1>6, <1>7, <1>8
<1>10. Len(y) + 1 \in 1 .. Len(y \o d)
  BY <1>1, <1>3, <1>4
<1> QED
  BY <1>9, <1>10 DEF u, w, y, Chain

(* From the wire into the subscriber's hand. *)
LEMMA ChainArrived ==
  ASSUME NEW a \in Seq(Nat), NEW c \in Seq(Nat), NEW d \in Seq(Nat), c # <<>>
  PROVE  Chain(a, <<Head(c)>>, Tail(c), d) = Chain(a, <<>>, c, d)
<1>1. a \o <<>> = a /\ Head(c) \in Nat
  BY ConcatEmptySeq, HeadTailProperties
<1>2. Append(a, Head(c)) = a \o <<Head(c)>>
  BY <1>1, AppendIsConcat
<1>3. Append(a, Head(c)) \o Tail(c) = a \o c
  BY MoveHead
<1> QED
  BY <1>1, <1>2, <1>3 DEF Chain

(* From the hand into the subscriber's ring buffer. *)
LEMMA ChainStored ==
  ASSUME NEW a \in Seq(Nat), NEW c \in Seq(Nat), NEW d \in Seq(Nat), NEW x \in Nat
  PROVE  Chain(Append(a, x), <<>>, c, d) = Chain(a, <<x>>, c, d)
<1>1. Append(a, x) \in Seq(Nat) /\ Append(a, x) = a \o <<x>>
  BY AppendIsConcat, AppendProperties
<1>2. Append(a, x) \o <<>> = a \o <<x>>
  BY <1>1, ConcatEmptySeq
<1> QED
  BY <1>2 DEF Chain

(* Of a subscriber on the poster's host. *)
LEMMA ChainShort ==
  ASSUME NEW d \in Seq(Nat)
  PROVE  Chain(<<>>, <<>>, <<>>, d) = d
<1>1. <<>> \o <<>> = <<>>
  OBVIOUS
<1> QED
  BY <1>1, ConcatEmptySeq DEF Chain

(* What a subscriber has not received is in these places. *)
LEMMA QueueIs ==
  ASSUME NEW s
  PROVE  /\ Queue(s) = Chain(Ids(far[s].unread), Ids(hand[s]), Ids(wire[s]), Ids(ring[s].unread))
         /\ Queue(s)' = Chain(Ids(far'[s].unread), Ids(hand'[s]), Ids(wire'[s]), Ids(ring'[s].unread))
  BY DEF Queue, Ids, Chain

(* Their types. *)
LEMMA PlacesType ==
  ASSUME StreamInv, NEW s \in Subscribers
  PROVE  /\ far[s].unread \in Seq(Slots) /\ hand[s] \in Seq(Packets)
         /\ wire[s] \in Seq(Packets) /\ ring[s].unread \in Seq(Slots)
         /\ Ids(far[s].unread) \in Seq(Nat) /\ Ids(hand[s]) \in Seq(Nat)
         /\ Ids(wire[s]) \in Seq(Nat) /\ Ids(ring[s].unread) \in Seq(Nat)
         /\ ring[s] \in FitRingType /\ far[s] \in FitRingType /\ RingOK(ring[s]) /\ RingOK(far[s])
<1>1. ring[s] \in FitRingType /\ far[s] \in FitRingType /\ RingOK(ring[s]) /\ RingOK(far[s])
  BY DEF StreamInv, TypesFit, RingsOK
<1>2. /\ far[s].unread \in Seq(Slots) /\ ring[s].unread \in Seq(Slots)
      /\ hand[s] \in Seq(Packets) /\ wire[s] \in Seq(Packets)
  BY <1>1, RingParts DEF StreamInv, EndsOK
<1>3. /\ Ids(far[s].unread) \in Seq(Nat) /\ Ids(hand[s]) \in Seq(Nat)
      /\ Ids(wire[s]) \in Seq(Nat) /\ Ids(ring[s].unread) \in Seq(Nat)
  BY <1>2, IdsType, TupleNumbers
<1> QED
  BY <1>1, <1>2, <1>3

(* The number of one tuple. *)
LEMMA IdsOne ==
  ASSUME NEW x
  PROVE  Ids(<<x>>) = <<x.id>>
<1>1. Len(<<x>>) = 1 /\ <<x>>[1] = x
  OBVIOUS
<1>2. Ids(<<x>>) = [i \in 1 .. 1 |-> <<x>>[i].id]
  BY <1>1 DEF Ids
<1>3. \A i \in 1 .. 1 : <<x>>[i].id = x.id
  BY <1>1
<1> QED
  BY <1>2, <1>3

(* The places that a step leaves alone. *)
SamePlaces(s) ==
  /\ far'[s].unread = far[s].unread /\ hand'[s] = hand[s]
  /\ wire'[s] = wire[s] /\ ring'[s].unread = ring[s].unread

(* A step that leaves the places alone. *)
LEMMA QueuesSame ==
  ASSUME \A s \in Subscribers : SamePlaces(s)
  PROVE  AQueue' = AQueue
<1>1. \A s \in Subscribers : Queue(s)' = Queue(s)
  BY QueueIs DEF SamePlaces
<1> QED
  BY <1>1 DEF AQueue

(* A step that leaves the places of all but one subscriber alone. *)
LEMMA OneQueue ==
  ASSUME NEW s \in Subscribers, \A x \in Subscribers \ {s} : SamePlaces(x)
  PROVE  /\ AQueue' = [AQueue EXCEPT ![s] = Queue(s)']
         /\ (Queue(s)' = Queue(s) => AQueue' = AQueue)
<1>1. \A x \in Subscribers \ {s} : Queue(x)' = Queue(x)
  BY QueueIs DEF SamePlaces
<1>2. AQueue' = [x \in Subscribers |-> Queue(x)']
  BY DEF AQueue
<1>3. AQueue' = [AQueue EXCEPT ![s] = Queue(s)']
  BY <1>1, <1>2 DEF AQueue
<1>4. Queue(s)' = Queue(s) => AQueue' = AQueue
  BY <1>1, <1>2 DEF AQueue
<1> QED
  BY <1>3, <1>4

(* The oldest tuple of a ring buffer that is not empty. *)
LEMMA OldestOf ==
  ASSUME NEW r \in FitRingType, RingOK(r), Unread(r)
  PROVE  /\ r.unread # <<>> /\ r.unread \in Seq(Slots) /\ AdvanceRead(r).unread = Tail(r.unread)
         /\ Ids(r.unread) \in Seq(Nat) /\ Ids(r.unread) # <<>> /\ CurRead(r).id \in Nat
         /\ Ids(AdvanceRead(r).unread) = Tail(Ids(r.unread))
         /\ Head(Ids(r.unread)) = CurRead(r).id
<1>1. r.unread # <<>> /\ r.unread \in Seq(Slots) /\ CurRead(r).id = r.unread[1].id
      /\ CurRead(r).id \in Nat
  BY FirstSlot, FirstPacket, RingParts
<1>2. AdvanceRead(r).unread = Tail(r.unread)
  BY <1>1, AdvanceEffect
<1>3. Ids(r.unread) \in Seq(Nat)
  BY <1>1, IdsType, TupleNumbers
<1>4. Ids(Tail(r.unread)) = Tail(Ids(r.unread)) /\ Head(Ids(r.unread)) = r.unread[1].id /\ Ids(r.unread) # <<>>
  BY <1>1, IdsTail, TupleNumbers
<1> QED
  BY <1>1, <1>2, <1>3, <1>4

-----------------------------------------------------------------------------
(* The steps of a subscriber and of its connection. *)

(* Everything but the queues. *)
LEMMA SamePost ==
  ASSUME UNCHANGED <<remote, n, mode, pc, k, ru, posted>>
  PROVE  AMode' = AMode /\ Due' = Due /\ posted' = posted /\ remote' = remote
  BY DEF AMode, Due

(* A subscriber on the poster's host receives the oldest tuple. *)
LEMMA ReceiveRefines ==
  ASSUME StreamInv, NEW s \in Subscribers, Receive(s)
  PROVE  Abstract!Receive(s)
<1> DEFINE i == CurRead(ring[s]).id
<1>1. /\ s \notin remote /\ Unread(ring[s]) /\ got' = [got EXCEPT ![s] = Append(@, i)]
      /\ ring' = [ring EXCEPT ![s] = AdvanceRead(@)]
      /\ UNCHANGED <<remote, n, mode, pc, k, ru, posted>> /\ UNCHANGED <<wire, far, hand>>
  BY DEF Receive, place
<1>2. /\ far[s].unread = <<>> /\ hand[s] = <<>> /\ wire[s] = <<>>
      /\ ring \in [Subscribers -> FitRingType]
  BY <1>1 DEF StreamInv, EndsOK, TypesFit
<1>3. /\ Ids(ring[s].unread) \in Seq(Nat) /\ Ids(ring[s].unread) # <<>>
      /\ Ids(AdvanceRead(ring[s]).unread) = Tail(Ids(ring[s].unread)) /\ Head(Ids(ring[s].unread)) = i
  BY <1>1, PlacesType, OldestOf
<1>5. Tail(Ids(ring[s].unread)) \in Seq(Nat)
  BY <1>3, HeadTailProperties
<1>6. Queue(s) = Ids(ring[s].unread) /\ Queue(s)' = Tail(Ids(ring[s].unread))
  <2>1. ring'[s] = AdvanceRead(ring[s])
    BY <1>1, <1>2
  <2>2. /\ Queue(s) = Chain(<<>>, <<>>, <<>>, Ids(ring[s].unread))
        /\ Queue(s)' = Chain(<<>>, <<>>, <<>>, Ids(ring'[s].unread))
    BY <1>1, <1>2, IdsEmpty, QueueIs
  <2> QED
    BY <1>3, <1>5, <2>1, <2>2, ChainShort
<1>7. \A x \in Subscribers \ {s} : SamePlaces(x)
  BY <1>1, <1>2 DEF SamePlaces
<1>8. AQueue' = [AQueue EXCEPT ![s] = Tail(@)] /\ AQueue[s] # <<>> /\ Head(AQueue[s]) = i
  BY <1>3, <1>6, <1>7, OneQueue DEF AQueue
<1>9. AMode' = AMode /\ Due' = Due /\ posted' = posted
  BY <1>1, SamePost
<1> HIDE DEF i
<1> QED
  BY <1>1, <1>8, <1>9 DEF Abstract!Receive, AMode, AQueue

(* A subscriber on another host does. *)
LEMMA ReceiveFarRefines ==
  ASSUME StreamInv, NEW s \in Subscribers, ReceiveFar(s)
  PROVE  Abstract!Receive(s)
<1> DEFINE i == CurRead(far[s]).id
           q1 == Ids(far[s].unread)
           q2 == Ids(hand[s])
           q3 == Ids(wire[s])
           q4 == Ids(ring[s].unread)
<1>1. /\ Unread(far[s]) /\ got' = [got EXCEPT ![s] = Append(@, i)]
      /\ far' = [far EXCEPT ![s] = AdvanceRead(@)]
      /\ UNCHANGED <<remote, n, mode, pc, k, ru, posted>> /\ UNCHANGED <<wire, ring, hand>>
  BY DEF ReceiveFar, place
<1>2. far \in [Subscribers -> FitRingType]
  BY DEF StreamInv, TypesFit
<1>3. q1 \in Seq(Nat) /\ q1 # <<>> /\ Ids(AdvanceRead(far[s]).unread) = Tail(q1) /\ Head(q1) = i
  BY <1>1, PlacesType, OldestOf
<1>4. q2 \in Seq(Nat) /\ q3 \in Seq(Nat) /\ q4 \in Seq(Nat)
  BY PlacesType
<1>5. Queue(s) = Chain(q1, q2, q3, q4) /\ Queue(s)' = Chain(Tail(q1), q2, q3, q4)
  <2>1. far'[s] = AdvanceRead(far[s])
    BY <1>1, <1>2
  <2> QED
    BY <1>1, <1>3, <2>1, QueueIs
<1> HIDE DEF q1, q2, q3, q4, i
<1>6. Head(Chain(q1, q2, q3, q4)) = Head(q1) /\ Chain(q1, q2, q3, q4) # <<>>
  BY <1>3, <1>4, ChainFirst
<1>7. Tail(Chain(q1, q2, q3, q4)) = Chain(Tail(q1), q2, q3, q4)
  BY <1>3, <1>4, ChainFirst
<1>8. Head(Queue(s)) = i /\ Tail(Queue(s)) = Queue(s)' /\ Queue(s) # <<>>
  BY <1>3, <1>5, <1>6, <1>7
<1>9. \A x \in Subscribers \ {s} : SamePlaces(x)
  BY <1>1, <1>2 DEF SamePlaces
<1>10. AQueue' = [AQueue EXCEPT ![s] = Tail(@)] /\ AQueue[s] # <<>> /\ Head(AQueue[s]) = i
  BY <1>8, <1>9, OneQueue DEF AQueue
<1>11. AMode' = AMode /\ Due' = Due /\ posted' = posted
  BY <1>1, SamePost
<1> QED
  BY <1>1, <1>10, <1>11 DEF Abstract!Receive, AMode, AQueue

(* A tuple that goes onto the wire stays in its place in the order. *)
LEMMA DrainRefines ==
  ASSUME StreamInv, NEW s \in Subscribers, DrainRemote(s)
  PROVE  UNCHANGED avars
<1> DEFINE p == [id |-> CurRead(ring[s]).id, sz |-> CurRead(ring[s]).sz]
           q1 == Ids(far[s].unread)
           q2 == Ids(hand[s])
           q3 == Ids(wire[s])
           q4 == Ids(ring[s].unread)
<1>1. /\ Unread(ring[s]) /\ wire' = [wire EXCEPT ![s] = Append(@, p)]
      /\ ring' = [ring EXCEPT ![s] = AdvanceRead(@)]
      /\ UNCHANGED <<remote, n, mode, pc, k, ru, posted>> /\ UNCHANGED <<far, hand, got>>
  BY DEF DrainRemote, Draining, place
<1>2. ring \in [Subscribers -> FitRingType] /\ wire \in [Subscribers -> Seq(Packets)]
  BY DEF StreamInv, TypesFit, EndsOK
<1>3. q4 \in Seq(Nat) /\ q4 # <<>> /\ Ids(AdvanceRead(ring[s]).unread) = Tail(q4) /\ Head(q4) = p.id
  BY <1>1, PlacesType, OldestOf
<1>4. q1 \in Seq(Nat) /\ q2 \in Seq(Nat) /\ q3 \in Seq(Nat)
  BY PlacesType
<1>5. Ids(Append(wire[s], p)) = Append(q3, p.id)
  <2>1. p \in Packets
    BY <1>1, PlacesType, FirstPacket
  <2> HIDE DEF p
  <2> QED
    BY <2>1, PlacesType, TupleNumbers, IdsAppend
<1>6. ring'[s] = AdvanceRead(ring[s]) /\ wire'[s] = Append(wire[s], p)
  BY <1>1, <1>2
<1>7. Queue(s) = Chain(q1, q2, q3, q4) /\ Queue(s)' = Chain(q1, q2, Append(q3, Head(q4)), Tail(q4))
  <2> HIDE DEF p
  <2> QED
    BY <1>1, <1>3, <1>5, <1>6, QueueIs
<1>8. \A x \in Subscribers \ {s} : SamePlaces(x)
  BY <1>1, <1>2 DEF SamePlaces
<1> HIDE DEF q1, q2, q3, q4, p
<1>9. Queue(s)' = Queue(s)
  <2>1. Chain(q1, q2, Append(q3, Head(q4)), Tail(q4)) = Chain(q1, q2, q3, q4)
    BY <1>3, <1>4, ChainSent
  <2> QED
    BY <1>7, <2>1
<1> QED
  BY <1>1, <1>8, <1>9, OneQueue, SamePost DEF avars

(* One that msg_send refuses is lost, and the others stay in theirs. *)
LEMMA LoseRefines ==
  ASSUME StreamInv, NEW s \in Subscribers, LoseRemote(s)
  PROVE  Abstract!Lose(s)
<1> DEFINE q1 == Ids(far[s].unread)
           q2 == Ids(hand[s])
           q3 == Ids(wire[s])
           q4 == Ids(ring[s].unread)
           m == Len((q1 \o q2) \o q3) + 1
<1>1. /\ s \in remote /\ Unread(ring[s]) /\ ring' = [ring EXCEPT ![s] = AdvanceRead(@)]
      /\ UNCHANGED <<remote, n, mode, pc, k, ru, posted>> /\ UNCHANGED <<wire, far, hand, got>>
  BY DEF LoseRemote, Draining, place, ends
<1>2. ring \in [Subscribers -> FitRingType]
  BY DEF StreamInv, TypesFit
<1>3. q4 \in Seq(Nat) /\ q4 # <<>> /\ Ids(AdvanceRead(ring[s]).unread) = Tail(q4)
  BY <1>1, PlacesType, OldestOf
<1>4. q1 \in Seq(Nat) /\ q2 \in Seq(Nat) /\ q3 \in Seq(Nat)
  BY PlacesType
<1>5. ring'[s] = AdvanceRead(ring[s])
  BY <1>1, <1>2
<1>6. Queue(s) = Chain(q1, q2, q3, q4) /\ Queue(s)' = Chain(q1, q2, q3, Tail(q4))
  BY <1>1, <1>3, <1>5, QueueIs
<1>7. \A x \in Subscribers \ {s} : SamePlaces(x)
  BY <1>1, <1>2 DEF SamePlaces
<1> HIDE DEF q1, q2, q3, q4, m
<1>8. /\ Chain(q1, q2, q3, Tail(q4)) = Abstract!Without(Chain(q1, q2, q3, q4), m)
      /\ m \in 1 .. Len(Chain(q1, q2, q3, q4))
  BY <1>3, <1>4, ChainLost DEF m
<1>9. m \in 1 .. Len(AQueue[s]) /\ AQueue' = [AQueue EXCEPT ![s] = Abstract!Without(@, m)]
  BY <1>6, <1>7, <1>8, OneQueue DEF AQueue
<1>10. AMode' = AMode /\ Due' = Due /\ posted' = posted /\ remote' = remote
  BY <1>1, SamePost
<1> QED
  BY <1>1, <1>9, <1>10 DEF Abstract!Lose, AMode, AQueue

(* One that arrives too. *)
LEMMA ArriveRefines ==
  ASSUME StreamInv, NEW s \in Subscribers, Arrive(s)
  PROVE  UNCHANGED avars
<1> DEFINE q1 == Ids(far[s].unread)
           q3 == Ids(wire[s])
           q4 == Ids(ring[s].unread)
<1>1. /\ hand[s] = <<>> /\ wire[s] # <<>>
      /\ hand' = [hand EXCEPT ![s] = <<Head(wire[s])>>] /\ wire' = [wire EXCEPT ![s] = Tail(@)]
      /\ UNCHANGED <<remote, n, mode, pc, k, ru, posted>> /\ UNCHANGED <<far, ring, got>>
  BY DEF Arrive, place
<1>2. hand \in [Subscribers -> Seq(Packets)] /\ wire \in [Subscribers -> Seq(Packets)]
  BY DEF StreamInv, EndsOK
<1>3. q1 \in Seq(Nat) /\ q3 \in Seq(Nat) /\ q4 \in Seq(Nat)
  BY PlacesType
<1>4. /\ Ids(Tail(wire[s])) = Tail(q3) /\ Head(q3) = Head(wire[s]).id /\ q3 # <<>>
      /\ Head(wire[s]) \in Packets
  BY <1>1, <1>2, TupleNumbers, IdsTail
<1>5. Ids(<<Head(wire[s])>>) = <<Head(wire[s]).id>>
  BY IdsOne
<1>6. hand'[s] = <<Head(wire[s])>> /\ wire'[s] = Tail(wire[s])
  BY <1>1, <1>2
<1>7. Queue(s) = Chain(q1, <<>>, q3, q4) /\ Queue(s)' = Chain(q1, <<Head(q3)>>, Tail(q3), q4)
  BY <1>1, <1>4, <1>5, <1>6, IdsEmpty, QueueIs
<1>8. \A x \in Subscribers \ {s} : SamePlaces(x)
  BY <1>1, <1>2 DEF SamePlaces
<1> HIDE DEF q1, q3, q4
<1>9. Queue(s)' = Queue(s)
  <2>1. Chain(q1, <<Head(q3)>>, Tail(q3), q4) = Chain(q1, <<>>, q3, q4)
    BY <1>3, <1>4, ChainArrived
  <2> QED
    BY <1>7, <2>1
<1> QED
  BY <1>1, <1>8, <1>9, OneQueue, SamePost DEF avars

(* And one that is stored. *)
LEMMA StoreRefines ==
  ASSUME StreamInv, NEW s \in Subscribers, StoreFar(s)
  PROVE  UNCHANGED avars
<1> DEFINE p == Head(hand[s])
           q1 == Ids(far[s].unread)
           q3 == Ids(wire[s])
           q4 == Ids(ring[s].unread)
<1>1. /\ hand' = [hand EXCEPT ![s] = <<>>]
      /\ far' = [far EXCEPT ![s] = Publish(Link(Fill(@, p)))]
      /\ UNCHANGED <<remote, n, mode, pc, k, ru, posted>> /\ UNCHANGED <<wire, ring, got>>
  BY DEF StoreFar, place
<1>2. hand \in [Subscribers -> Seq(Packets)] /\ far \in [Subscribers -> FitRingType] /\ FarInv
  BY TwoEnds DEF StreamInv, TypesFit, EndsOK
<1>3. q1 \in Seq(Nat) /\ q3 \in Seq(Nat) /\ q4 \in Seq(Nat) /\ far[s].unread \in Seq(Slots)
  BY PlacesType
<1>4. /\ hand[s] = <<p>> /\ p \in Packets
      /\ \E e \in Slots : e.id = p.id /\ far'[s].unread = Append(far[s].unread, e)
  BY <1>2, FarStore
<1>5. PICK e \in Slots : e.id = p.id /\ far'[s].unread = Append(far[s].unread, e)
  BY <1>4
<1> HIDE DEF p
<1>6. Ids(far'[s].unread) = Append(q1, p.id) /\ p.id \in Nat
  BY <1>3, <1>5, TupleNumbers, IdsAppend
<1>7. Ids(hand[s]) = <<p.id>> /\ Ids(hand'[s]) = <<>>
  BY <1>1, <1>2, <1>4, IdsOne, IdsEmpty
<1>8. Queue(s) = Chain(q1, <<p.id>>, q3, q4) /\ Queue(s)' = Chain(Append(q1, p.id), <<>>, q3, q4)
  BY <1>1, <1>6, <1>7, QueueIs
<1>9. \A x \in Subscribers \ {s} : SamePlaces(x)
  BY <1>1, <1>2 DEF SamePlaces
<1> HIDE DEF q1, q3, q4
<1>10. Queue(s)' = Queue(s)
  <2>1. Chain(Append(q1, p.id), <<>>, q3, q4) = Chain(q1, <<p.id>>, q3, q4)
    BY <1>3, <1>6, ChainStored
  <2> QED
    BY <1>8, <2>1
<1> QED
  BY <1>1, <1>9, <1>10, OneQueue, SamePost DEF avars

-----------------------------------------------------------------------------
(* The steps of the poster. *)

(* Whom the current tuple is still to be put out for. *)
LEMMA DueIs ==
  ASSUME StreamInv
  PROVE  /\ n \in Nat /\ n >= 1 /\ n <= N /\ N \in Nat /\ k \in Nat /\ k >= 1 /\ Subscribers = 1 .. N
         /\ 1 .. n \subseteq Subscribers
         /\ {s \in Subscribers : AMode[s] # "SUSPEND"} = {s \in 1 .. n : mode[s] # "SUSPEND"}
         /\ pc = "idle" => Due = {}
         /\ pc \in {"alloc", "check"} => Due = {s \in 1 .. n : mode[s] # "SUSPEND"}
         /\ pc \in {"copy", "publish"} => Due = {s \in 1 .. n : mode[s] # "SUSPEND" /\ (s >= k \/ s = ru)}
<1>1. /\ n \in Nat /\ n >= 1 /\ n <= N /\ N \in Nat /\ k \in Nat /\ k >= 1 /\ Subscribers = 1 .. N
  BY TwoEnds, NearNumbers DEF NearInv, Subscribers
<1>2. \A s \in Nat : s \in 1 .. n <=> s \in Subscribers /\ s <= n
  BY <1>1
<1>3. 1 .. n \subseteq Subscribers
  BY <1>1
<1>4. {s \in Subscribers : AMode[s] # "SUSPEND"} = {s \in 1 .. n : mode[s] # "SUSPEND"}
  BY <1>1 DEF AMode
<1> QED
  BY <1>1, <1>3, <1>4 DEF Due

(* A step of the poster that stores nothing for a reader. *)
LEMMA QuietQueues ==
  ASSUME UNCHANGED <<ring, ends>>
  PROVE  AQueue' = AQueue /\ got' = got
  BY QueuesSame DEF SamePlaces, ends

(* A process subscribes, or changes the mode of the first slot. *)
LEMMA ServeRefines ==
  ASSUME StreamInv, Subscribe \/ \E m \in Modes : SetRingbufType(m)
  PROVE  Abstract!SetMode
<1>1. /\ pc = "idle" /\ pc' = "idle" /\ posted' = posted /\ AQueue' = AQueue /\ got' = got
      /\ remote' = remote
  BY QuietQueues DEF Subscribe, SetRingbufType, place
<1>2. Due = {} /\ Due' = {}
  BY <1>1 DEF Due
<1>3. \E s \in Subscribers, m \in Modes : AMode' = [AMode EXCEPT ![s] = m]
  <2>0. /\ n \in Nat /\ n >= 1 /\ n <= N /\ N \in Nat /\ Subscribers = 1 .. N
        /\ mode \in [Subscribers -> Modes]
    BY DueIs DEF StreamInv, TypesFit
  <2>1. CASE Subscribe
    <3>1. n < N /\ n' = n + 1 /\ mode' = [mode EXCEPT ![n + 1] = "ATOMIC"]
      BY <2>1 DEF Subscribe
    <3>2. n + 1 \in Subscribers /\ "ATOMIC" \in Modes
      BY <2>0, <3>1 DEF Modes
    <3>3. \A s \in Subscribers : AMode'[s] = IF s = n + 1 THEN "ATOMIC" ELSE AMode[s]
      BY <2>0, <3>1 DEF AMode
    <3>4. AMode' = [AMode EXCEPT ![n + 1] = "ATOMIC"]
      BY <3>3 DEF AMode
    <3> QED
      BY <3>2, <3>4
  <2>2. ASSUME NEW m \in Modes, SetRingbufType(m)
        PROVE  \E s \in Subscribers, x \in Modes : AMode' = [AMode EXCEPT ![s] = x]
    <3>1. n' = n /\ mode' = [mode EXCEPT ![1] = m] /\ 1 \in Subscribers
      BY <2>0, <2>2 DEF SetRingbufType
    <3>2. \A s \in Subscribers : AMode'[s] = IF s = 1 THEN m ELSE AMode[s]
      BY <2>0, <3>1 DEF AMode
    <3>3. AMode' = [AMode EXCEPT ![1] = m]
      BY <3>2 DEF AMode
    <3> QED
      BY <3>1, <3>3
  <2> QED
    BY <2>1, <2>2
<1> QED
  BY <1>1, <1>2, <1>3 DEF Abstract!SetMode, Modes, AMode, AQueue

(* A post begins. *)
LEMMA PostRefines ==
  ASSUME StreamInv, NEW z \in Sizes, Post(z)
  PROVE  Abstract!Post
<1>1. /\ pc = "idle" /\ posted < MaxPosts /\ posted' = posted + 1 /\ pc' \in {"alloc", "check"}
      /\ UNCHANGED <<remote, n, mode>> /\ AQueue' = AQueue /\ got' = got
  BY QuietQueues DEF Post, place
<1>2. Due = {} /\ Due' = {s \in 1 .. n : mode[s] # "SUSPEND"} /\ AMode' = AMode
  BY <1>1 DEF Due, AMode
<1>3. Due' = {s \in Subscribers : AMode[s] # "SUSPEND"}
  BY <1>2, DueIs
<1> QED
  BY <1>1, <1>2, <1>3 DEF Abstract!Post, AMode, AQueue

(* allocate_tuple finds no slot: no subscriber is atomic. *)
LEMMA FailRefines ==
  ASSUME StreamInv, AllocateFails
  PROVE  Abstract!Refuse
<1>1. /\ pc = "alloc" /\ k > n /\ pc' = "idle" /\ posted' = posted
      /\ UNCHANGED <<remote, n, mode>> /\ AQueue' = AQueue /\ got' = got
  BY QuietQueues DEF AllocateFails, place
<1>2. Due' = {} /\ AMode' = AMode
  BY <1>1 DEF Due, AMode
<1>3. Due = {s \in Subscribers : AMode[s] # "SUSPEND"}
  BY <1>1, DueIs
<1>4. \A s \in Subscribers : AMode[s] # "ATOMIC"
  <2>1. \A s \in 1 .. k - 1 : mode[s] # "ATOMIC"
    BY <1>1 DEF StreamInv, StepOK
  <2> QED
    BY <1>1, <2>1, DueIs DEF AMode
<1> QED
  BY <1>1, <1>2, <1>3, <1>4 DEF Abstract!Refuse, AMode, AQueue

(* The first pass, and a slot of it that is passed over. *)
LEMMA CheckRefines ==
  ASSUME StreamInv, AllocateNext \/ Check \/ PostDone
  PROVE  UNCHANGED avars
<1>1. posted' = posted /\ UNCHANGED <<remote, n, mode, ru>> /\ AQueue' = AQueue /\ got' = got
  BY QuietQueues DEF AllocateNext, Check, PostDone, place
<1>2. AMode' = AMode
  BY <1>1 DEF AMode
<1>3. CASE AllocateNext
  BY <1>1, <1>2, <1>3 DEF AllocateNext, Due, avars
<1>4. CASE Check
  <2>1. pc = "check" /\ (pc' = "check" \/ (pc' = "copy" /\ k' = 1))
    BY <1>4 DEF Check
  <2>2. \A s \in 1 .. n : s >= 1
    BY DueIs
  <2>3. Due' = Due
    BY <1>1, <2>1, <2>2 DEF Due
  <2> QED
    BY <1>1, <1>2, <2>3 DEF avars
<1>5. CASE PostDone
  <2>1. pc = "copy" /\ k > n /\ ru = 0 /\ pc' = "idle"
    BY <1>5 DEF PostDone
  <2>2. \A s \in 1 .. n : ~(s >= k) /\ s # 0
    BY <2>1, DueIs
  <2>3. Due = {} /\ Due' = {}
    BY <2>1, <2>2 DEF Due
  <2> QED
    BY <1>1, <1>2, <2>3 DEF avars
<1> QED
  BY <1>3, <1>4, <1>5

(* A slot of the second pass that gets nothing is not atomic, or is the one an
   LFTA has allocated. *)
LEMMA CopyNextRefines ==
  ASSUME StreamInv, CopyNext
  PROVE  Abstract!Skip(k) \/ UNCHANGED avars
<1>1. /\ posted' = posted /\ UNCHANGED <<remote, n, mode, ru>> /\ AQueue' = AQueue /\ got' = got
      /\ pc = "copy" /\ pc' = "copy" /\ k <= n /\ k' = k + 1
      /\ k = ru \/ mode[k] = "SUSPEND" \/ ~SpaceToWrite(ring[k])
  BY QuietQueues DEF CopyNext, place
<1>2. AMode' = AMode
  BY <1>1 DEF AMode
<1>3. k \in 1 .. n /\ n \in Nat /\ k \in Nat /\ k \in Subscribers
  BY <1>1, DueIs
<1>4. /\ Due = {s \in 1 .. n : mode[s] # "SUSPEND" /\ (s >= k \/ s = ru)}
      /\ Due' = {s \in 1 .. n : mode[s] # "SUSPEND" /\ (s >= k + 1 \/ s = ru)}
  BY <1>1 DEF Due
<1>5. \A s \in 1 .. n : s >= k <=> s >= k + 1 \/ s = k
  BY <1>3
<1>6. CASE k = ru \/ mode[k] = "SUSPEND"
  <2>1. Due' = Due
    BY <1>4, <1>5, <1>6
  <2> QED
    BY <1>1, <1>2, <2>1 DEF avars
<1>7. CASE k # ru /\ mode[k] # "SUSPEND"
  <2>1. ~(k >= k + 1) /\ k >= k
    BY <1>3
  <2>2. mode[k] # "ATOMIC"
    BY <1>1, <1>3, <1>7, <2>1 DEF StreamInv, RoomOK
  <2>3. k \in Due /\ Due' = Due \ {k}
    BY <1>3, <1>4, <1>5, <1>7, <2>1
  <2>4. AMode[k] # "ATOMIC"
    BY <1>1, <1>3, <2>2 DEF AMode
  <2> QED
    BY <1>1, <1>2, <2>3, <2>4 DEF Abstract!Skip, AMode, AQueue
<1> QED
  BY <1>6, <1>7

(* The stores into a slot that no reader sees yet. *)
LEMMA StoresRefine ==
  ASSUME StreamInv, Allocate \/ Copy \/ LinkLast
  PROVE  UNCHANGED avars
<1>0. NearInv
  BY TwoEnds
<1>1. PICK s \in Subscribers : \E q : ring' = [ring EXCEPT ![s] = q] /\ q.unread = ring[s].unread
  <2>1. CASE Allocate
    <3>1. k \in Subscribers /\ ring[k] \in FitRingType
      BY <1>0, <2>1, NearNumbers DEF Allocate, NearInv
    <3>2. Fill(ring[k], cur).unread = ring[k].unread
      BY <1>0, <3>1, NearNumbers, FillEffect DEF SameButSlot, NearInv
    <3>3. ring' = [ring EXCEPT ![k] = Fill(ring[k], cur)]
      BY <2>1 DEF Allocate
    <3> QED
      BY <3>1, <3>2, <3>3
  <2>2. CASE Copy
    <3>1. k \in Subscribers /\ ring[k] \in FitRingType
      BY <1>0, <2>2, NearNumbers DEF Copy, NearInv
    <3>2. Fill(ring[k], cur).unread = ring[k].unread /\ Fill(ring[k], cur) \in FitRingType
      BY <1>0, <3>1, NearNumbers, FillEffect DEF SameButSlot, NearInv
    <3>3. Link(Fill(ring[k], cur)).unread = ring[k].unread
      BY <3>2, LinkEffect DEF SameButSlot
    <3>4. ring' = [ring EXCEPT ![k] = Link(Fill(ring[k], cur))]
      BY <2>2 DEF Copy
    <3> QED
      BY <3>1, <3>3, <3>4
  <2>3. CASE LinkLast
    <3>1. ru \in Subscribers /\ ring[ru] \in FitRingType
      BY <1>0, <2>3, NearNumbers DEF LinkLast, NearInv
    <3>2. Link(ring[ru]).unread = ring[ru].unread
      BY <3>1, LinkEffect DEF SameButSlot
    <3>3. ring' = [ring EXCEPT ![ru] = Link(ring[ru])]
      BY <2>3 DEF LinkLast
    <3> QED
      BY <3>1, <3>2, <3>3
  <2> QED
    BY <2>1, <2>2, <2>3
<1>2. ring \in [Subscribers -> FitRingType]
  BY DEF StreamInv, TypesFit
<1>3. \A x \in Subscribers : ring'[x].unread = ring[x].unread
  BY <1>1, <1>2
<1>4. UNCHANGED <<remote, n, mode, posted>> /\ UNCHANGED ends
  BY DEF Allocate, Copy, LinkLast, place
<1>5. AQueue' = AQueue /\ got' = got /\ AMode' = AMode
  BY <1>3, <1>4, QueuesSame DEF SamePlaces, ends, AMode
<1>6. Due' = Due
  <2>1. CASE Allocate
    BY <2>1 DEF Allocate, Due
  <2>2. CASE Copy \/ LinkLast
    BY <2>2 DEF Copy, LinkLast, Due
  <2> QED
    BY <2>1, <2>2
<1> QED
  BY <1>4, <1>5, <1>6 DEF avars

(* ADVANCEWRITE's second store is the moment a tuple is put out. *)
LEMMA PublishRefines ==
  ASSUME StreamInv, PublishStep, NEW s \in Subscribers, s = Target
  PROVE  Abstract!Send(s)
<1> DEFINE e == [at |-> ring[s].writer, sz |-> CurWrite(ring[s]).sz, id |-> CurWrite(ring[s]).id]
           q1 == Ids(far[s].unread)
           q2 == Ids(hand[s])
           q3 == Ids(wire[s])
           q4 == Ids(ring[s].unread)
<1>0. NearInv
  BY TwoEnds
<1>1. /\ pc = "publish" /\ ring' = [ring EXCEPT ![s] = Publish(@)]
      /\ UNCHANGED <<remote, n, mode, posted>> /\ UNCHANGED <<wire, far, hand, got>>
      /\ IF k <= n THEN pc' = "copy" /\ k' = k + 1 /\ ru' = ru
                   ELSE pc' = "idle" /\ k' = k /\ ru' = 0
  BY DEF PublishStep, place, ends
<1>2. /\ s <= n /\ mode[s] # "SUSPEND" /\ ring[s] \in FitRingType
      /\ CurWrite(ring[s]).id = posted /\ posted # 0 /\ CurWrite(ring[s]).sz \in Fitting
  BY <1>0, <1>1, PublishReady
<1>3. e \in Slots /\ Publish(ring[s]).unread = Append(ring[s].unread, e) /\ e.id = posted
  BY <1>2, PublishEffect
<1>4. posted \in Nat /\ ring \in [Subscribers -> FitRingType]
  BY <1>0, NearNumbers DEF NearInv, NearType
<1> HIDE DEF e
<1>5. ring'[s].unread = Append(ring[s].unread, e) /\ \A x \in Subscribers \ {s} : ring'[x] = ring[x]
  BY <1>1, <1>2, <1>3, <1>4
<1>6. /\ q1 \in Seq(Nat) /\ q2 \in Seq(Nat) /\ q3 \in Seq(Nat) /\ q4 \in Seq(Nat)
      /\ ring[s].unread \in Seq(Slots)
  BY <1>2, PlacesType
<1>7. Ids(Append(ring[s].unread, e)) = Append(q4, posted)
  BY <1>3, <1>6, TupleNumbers, IdsAppend
<1>8. Queue(s) = Chain(q1, q2, q3, q4) /\ Queue(s)' = Chain(q1, q2, q3, Append(q4, posted))
  <2>1. Ids(ring'[s].unread) = Append(q4, posted)
    BY <1>5, <1>7, Zenon
  <2>2. far' = far /\ hand' = hand /\ wire' = wire
    BY <1>1
  <2> QED
    BY <2>1, <2>2, QueueIs, Zenon
<1>9. \A x \in Subscribers \ {s} : SamePlaces(x)
  BY <1>1, <1>5 DEF SamePlaces
<1> HIDE DEF q1, q2, q3, q4
<1>10. Queue(s)' = Append(Queue(s), posted)
  <2>1. \A d \in Seq(Nat) : \A x \in Nat :
          Chain(q1, q2, q3, Append(d, x)) = Append(Chain(q1, q2, q3, d), x)
    BY <1>6, ChainLast, ZenonT(60)
  <2>2. Chain(q1, q2, q3, Append(q4, posted)) = Append(Chain(q1, q2, q3, q4), posted)
    BY <1>4, <1>6, <2>1, Zenon
  <2> QED
    BY <1>8, <2>2
<1>11. AQueue' = [AQueue EXCEPT ![s] = Append(@, posted)]
  BY <1>9, <1>10, OneQueue DEF AQueue
<1>12. Due = {x \in 1 .. n : mode[x] # "SUSPEND" /\ (x >= k \/ x = ru)}
  BY <1>1, DueIs
<1>13. n \in Nat /\ k \in Nat /\ s \in 1 .. n /\ s \in Nat
  BY <1>2, DueIs
<1>14. s \in Due /\ Due' = Due \ {s}
  <2>1. CASE k <= n
    <3>1. s = k /\ pc' = "copy" /\ k' = k + 1 /\ ru' = ru /\ k # ru
      BY <1>1, <2>1 DEF Target, StreamInv, StepOK
    <3>2. Due' = {x \in 1 .. n : mode[x] # "SUSPEND" /\ (x >= k + 1 \/ x = ru)}
      BY <1>1, <3>1 DEF Due
    <3>3. \A x \in 1 .. n : x >= k <=> x >= k + 1 \/ x = k
      BY <1>13
    <3>4. k >= k /\ ~(k >= k + 1)
      BY <1>13
    <3> QED
      BY <1>2, <1>12, <1>13, <3>1, <3>2, <3>3, <3>4
  <2>2. CASE ~(k <= n)
    <3>1. s = ru /\ pc' = "idle"
      BY <1>1, <2>2 DEF Target
    <3>2. Due' = {}
      BY <3>1 DEF Due
    <3>3. \A x \in 1 .. n : ~(x >= k)
      BY <1>13, <2>2
    <3> QED
      BY <1>2, <1>12, <1>13, <3>1, <3>2, <3>3
  <2> QED
    BY <2>1, <2>2
<1>15. AMode' = AMode
  BY <1>1 DEF AMode
<1> QED
  BY <1>1, <1>11, <1>14, <1>15 DEF Abstract!Send, AMode, AQueue

-----------------------------------------------------------------------------
(* The refinement. *)

(* The stream begins as a multicast. *)
LEMMA InitRefines == Init => Abstract!Init
<1> SUFFICES ASSUME Init PROVE Abstract!Init
  OBVIOUS
<1>1. posted = 0 /\ Due = {} /\ got = [s \in Subscribers |-> <<>>] /\ remote \subseteq Subscribers
  BY StreamAssumption DEF Init, Due, Subscribers
<1>2. AMode \in [Subscribers -> {"ATOMIC", "SUSPEND"}]
  BY DEF Init, AMode
<1>3. \A s \in Subscribers : Queue(s) = <<>>
  <2>1. EmptyRing.unread = <<>>
    BY DEF EmptyRing
  <2>2. Chain(<<>>, <<>>, <<>>, <<>>) = <<>>
    <3>1. <<>> \in Seq(Nat)
      OBVIOUS
    <3> QED
      BY <3>1, ChainShort
  <2> QED
    BY <2>1, <2>2, QueueIs, IdsEmpty DEF Init
<1>4. AQueue = [s \in Subscribers |-> <<>>]
  BY <1>3 DEF AQueue
<1> QED
  BY <1>1, <1>2, <1>4 DEF Abstract!Init, AMode, AQueue

(* Every step is one of the multicast, or none. *)
LEMMA NextRefines ==
  ASSUME StreamInv, [Next]_vars
  PROVE  [Abstract!Next]_avars
<1>1. CASE Subscribe \/ \E m \in Modes : SetRingbufType(m)
  BY <1>1, ServeRefines DEF Abstract!Next
<1>2. CASE \E z \in Sizes : Post(z)
  BY <1>2, PostRefines DEF Abstract!Next
<1>3. CASE AllocateFails
  BY <1>3, FailRefines DEF Abstract!Next
<1>4. CASE AllocateNext \/ Check \/ PostDone
  BY <1>4, CheckRefines
<1>5. CASE CopyNext
  <2>1. k \in Subscribers
    BY <1>5, DueIs DEF CopyNext
  <2>2. Abstract!Skip(k) \/ UNCHANGED avars
    BY <1>5, CopyNextRefines
  <2> QED
    BY <2>1, <2>2 DEF Abstract!Next
<1>6. CASE Allocate \/ Copy \/ LinkLast
  BY <1>6, StoresRefine
<1>7. CASE PublishStep
  <2>1. Target \in Subscribers
    BY <1>7, TwoEnds, PublishReady DEF PublishStep
  <2>2. PICK s \in Subscribers : s = Target
    BY <2>1
  <2>3. Abstract!Send(s)
    BY <1>7, <2>2, PublishRefines
  <2> QED
    BY <2>3 DEF Abstract!Next
<1>8. ASSUME NEW s \in Subscribers, Receive(s) \/ ReceiveFar(s) PROVE Abstract!Next
  BY <1>8, ReceiveRefines, ReceiveFarRefines DEF Abstract!Next
<1>9. ASSUME NEW s \in Subscribers, DrainRemote(s) \/ Arrive(s) \/ StoreFar(s) PROVE UNCHANGED avars
  BY <1>9, DrainRefines, ArriveRefines, StoreRefines
<1>10. ASSUME NEW s \in Subscribers, LoseRemote(s) PROVE Abstract!Next
  BY <1>10, LoseRefines DEF Abstract!Next
<1>11. CASE UNCHANGED vars
  <2>1. UNCHANGED <<remote, n, mode, pc, k, ru, posted>> /\ UNCHANGED <<ring, ends>>
    BY <1>11 DEF vars, ends
  <2> QED
    BY <2>1, QuietQueues, SamePost DEF avars
<1> QED
  BY <1>1, <1>2, <1>3, <1>4, <1>5, <1>6, <1>7, <1>8, <1>9, <1>10, <1>11 DEF Next, Poster, Reads

(* Ring buffers, links, indices and connections implement the multicast of
   Multicast, for any number of subscribers, any placement of them and any
   length of the ring buffers, when the tuples posted fit with their headers:
   the order is kept, nothing is repeated, no atomic subscriber is skipped
   although the room that the first pass of post_tuple saw is used in the
   second, and nothing is lost but on the way to a subscriber on another host,
   where the draining loop passes over what msg_send refuses. *)
THEOREM StreamImplementsMulticast == Spec /\ []CurFits => ImplementsMulticast
<1>1. StreamInv /\ [Next]_vars => [Abstract!Next]_avars
  BY NextRefines
<1> QED
  BY <1>1, InitRefines, StreamInvariant, PTL DEF Spec, ImplementsMulticast, Abstract!Spec, Abstract!mcVars, avars, AMode, AQueue
=============================================================================
