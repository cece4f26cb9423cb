--------------------------- MODULE StreamQueryProofs ---------------------------
(***************************************************************************)
(* The end of a query's result is reported when all sources have ended,    *)
(* once and after every result: proved for any number of sources, groups,  *)
(* epochs, packets and clock signals, and tables of any size.              *)
(***************************************************************************)
EXTENDS StreamQueryInv, TLAPS, WellFoundedInduction, FiniteSetTheorems, SequenceTheorems

-----------------------------------------------------------------------------
(* Recursive functions over an interval. *)

(* The order on the naturals in the form the next lemma uses. *)
LEMMA NatOrder == IsWellFoundedOn({x \in Nat \X Nat : x[1] < x[2]}, Nat)
  BY NatLessThanWellFounded DEF OpToRel

(* A nonempty set of naturals has a least element. *)
LEMMA LeastNat ==
  ASSUME NEW S, S \subseteq Nat, S # {}
  PROVE  \E x \in S : \A y \in S : x <= y
<1> DEFINE R == {x \in Nat \X Nat : x[1] < x[2]}
<1>1. PICK x \in S : \A y \in S : ~(<<y, x>> \in R)
  <2>1. IsWellFoundedOn(R, Nat)
    BY NatOrder
  <2> HIDE DEF R
  <2> QED
    BY <2>1, WFMin, Zenon
<1>2. \A y \in S : ~(y < x)
  BY <1>1
<1> QED
  BY <1>2

(* Induction up to n, for the numbers in a set. *)
LEMMA UpTo ==
  ASSUME NEW n \in Nat, NEW G, 0 \in G, \A i \in 1 .. n : i - 1 \in G => i \in G
  PROVE  \A i \in 0 .. n : i \in G
<1> DEFINE B == {i \in 0 .. n : i \notin G}
<1> SUFFICES ASSUME B # {} PROVE FALSE
  OBVIOUS
<1>1. PICK m \in B : \A j \in B : m <= j
  <2>1. B \subseteq Nat
    OBVIOUS
  <2> HIDE DEF B
  <2> QED BY <2>1, LeastNat
<1>2. m \in 1 .. n /\ m - 1 \in 0 .. n /\ m - 1 \in Int
  OBVIOUS
<1>3. m - 1 \notin B
  <2> HIDE DEF B
  <2> QED BY <1>1, <1>2
<1> QED
  BY <1>2, <1>3

(* f solves the recursion from b by step, and stays in S. *)
Solution(f, n, S, b, step) ==
  f \in [0 .. n -> S] /\ f[0] = b /\ \A i \in 1 .. n : f[i] = step[<<i, f[i - 1]>>]
StaysIn(S, n, step) == \A i \in 1 .. n : \A x \in S : step[<<i, x>>] \in S

(* A recursion that stays in S has a solution. *)
LEMMA Recursion ==
  ASSUME NEW n \in Nat, NEW S, NEW b \in S, NEW step, StaysIn(S, n, step)
  PROVE  \E f : Solution(f, n, S, b, step)
<1> DEFINE G == {m \in 0 .. n : \E f : Solution(f, m, S, b, step)}
<1>1. 0 \in G
  <2>1. Solution([i \in 0 .. 0 |-> b], 0, S, b, step)
    BY DEF Solution
  <2> QED
    BY <2>1
<1>2. ASSUME NEW m \in 1 .. n, m - 1 \in G PROVE m \in G
  <2>1. PICK f : Solution(f, m - 1, S, b, step)
    BY <1>2
  <2>2. /\ f \in [0 .. m - 1 -> S] /\ f[m - 1] \in S /\ f[0] = b
        /\ \A i \in 1 .. m - 1 : f[i] = step[<<i, f[i - 1]>>]
    BY <2>1 DEF Solution
  <2> DEFINE g == [i \in 0 .. m |-> IF i = m THEN step[<<m, f[m - 1]>>] ELSE f[i]]
  <2>3. g \in [0 .. m -> S]
    BY <2>2 DEF StaysIn
  <2>4. g[0] = b
    BY <2>2
  <2>5. ASSUME NEW i \in 1 .. m PROVE g[i] = step[<<i, g[i - 1]>>]
    <3>1. g[i - 1] = f[i - 1] /\ i - 1 \in 0 .. m - 1
      OBVIOUS
    <3>2. CASE i = m
      <4>1. g[m] = step[<<m, f[m - 1]>>]
        OBVIOUS
      <4> HIDE DEF g
      <4> QED BY <3>1, <3>2, <4>1, Zenon
    <3>3. CASE i # m
      <4>1. i \in 1 .. m - 1 /\ g[i] = f[i]
        BY <3>3
      <4>2. f[i] = step[<<i, f[i - 1]>>]
        BY <2>2, <4>1
      <4> QED
        BY <3>1, <4>1, <4>2
    <3> QED
      BY <3>2, <3>3
  <2>6. Solution(g, m, S, b, step)
    <3> HIDE DEF g
    <3> QED BY <2>3, <2>4, <2>5 DEF Solution
  <2>7. m \in 0 .. n
    OBVIOUS
  <2> HIDE DEF g
  <2> QED
    BY <2>6, <2>7
<1>3. \A m \in 0 .. n : m \in G
  <2> HIDE DEF G
  <2> QED BY <1>1, <1>2, UpTo
<1>4. n \in G
  BY <1>3
<1> QED
  BY <1>4

-----------------------------------------------------------------------------
(* The LFTA. *)

(* What the numbers are. *)
LEMMA Numbers ==
  /\ N \in Nat /\ N >= 2 /\ MaxEpoch \in Nat /\ MaxAggrs \in Nat /\ MaxAggrs > 0
  /\ SlowFlush \in Nat /\ SlowFlush > 0
  /\ Grps \subseteq Nat /\ 0 \in Grps /\ 0 \in Gbs /\ Gbs \subseteq Nat
  /\ Epochs \subseteq Gbs /\ Groups \subseteq Grps
  /\ Slot \subseteq Nat /\ \A i \in Slot : i + 1 \in 0 .. MaxAggrs
  BY QueryAssumption, LftaAssumption DEF Grps, Gbs, Epochs, Slot

(* The equation of OldSlots' recursion, for a function. *)
OldBelow(t, f) ==
  f = [i \in 0 .. MaxAggrs |->
         IF i = 0 THEN <<>>
         ELSE IF i - 1 >= t.flush_pos /\ Old(t, i - 1) THEN Append(f[i - 1], i - 1)
         ELSE f[i - 1]]

(* The equation, number by number. *)
LEMMA OldBelowAt ==
  ASSUME NEW t, NEW f
  PROVE  OldBelow(t, f) <=>
         /\ f = [i \in 0 .. MaxAggrs |-> f[i]]
         /\ f[0] = <<>>
         /\ \A i \in 1 .. MaxAggrs :
              f[i] = IF i - 1 >= t.flush_pos /\ Old(t, i - 1) THEN Append(f[i - 1], i - 1) ELSE f[i - 1]
<1> DEFINE E(i) == IF i = 0 THEN <<>>
                   ELSE IF i - 1 >= t.flush_pos /\ Old(t, i - 1) THEN Append(f[i - 1], i - 1)
                   ELSE f[i - 1]
           h == [i \in 0 .. MaxAggrs |-> E(i)]
<1>0. MaxAggrs \in Nat
  BY Numbers
<1>1. OldBelow(t, f) <=> f = h
  BY DEF OldBelow
<1>2. \A i \in 0 .. MaxAggrs : h[i] = E(i)
  <2> HIDE DEF E
  <2> QED OBVIOUS
<1>3. f = h <=> f = [i \in 0 .. MaxAggrs |-> f[i]] /\ \A i \in 0 .. MaxAggrs : f[i] = E(i)
  <2> HIDE DEF E
  <2> QED OBVIOUS
<1>4. E(0) = <<>> /\ \A i \in 1 .. MaxAggrs : E(i) =
              IF i - 1 >= t.flush_pos /\ Old(t, i - 1) THEN Append(f[i - 1], i - 1) ELSE f[i - 1]
  <2> HIDE DEF Old
  <2> QED OBVIOUS
<1>5. \A i \in 0 .. MaxAggrs : i = 0 \/ i \in 1 .. MaxAggrs
  OBVIOUS
<1>6. 0 \in 0 .. MaxAggrs /\ \A i \in 1 .. MaxAggrs : i \in 0 .. MaxAggrs
  BY <1>0
<1> HIDE DEF E, h
<1> QED BY <1>1, <1>3, <1>4, <1>5, <1>6, Zenon

(* OldSlots solves its equations, and is a list of slots. *)
LEMMA OldSlotsSolves ==
  ASSUME NEW t \in Lftas
  PROVE  \E c : /\ OldSlots(t) = c[MaxAggrs] /\ c[0] = <<>>
                /\ \A i \in 1 .. MaxAggrs :
                     c[i] = IF i - 1 >= t.flush_pos /\ Old(t, i - 1) THEN Append(c[i - 1], i - 1) ELSE c[i - 1]
                /\ \A i \in 0 .. MaxAggrs : c[i] \in Seq(Slot)
<1> DEFINE step == [x \in (1 .. MaxAggrs) \X Seq(Slot) |->
                      IF x[1] - 1 >= t.flush_pos /\ Old(t, x[1] - 1) THEN Append(x[2], x[1] - 1) ELSE x[2]]
<1>0. MaxAggrs \in Nat /\ \A i \in 1 .. MaxAggrs : i - 1 \in Slot
  BY Numbers DEF Slot
<1>1. \A i \in 1 .. MaxAggrs : \A q \in Seq(Slot) : Append(q, i - 1) \in Seq(Slot)
  BY <1>0
<1>2. \A i \in 1 .. MaxAggrs : \A q \in Seq(Slot) :
        /\ step[<<i, q>>] = IF i - 1 >= t.flush_pos /\ Old(t, i - 1) THEN Append(q, i - 1) ELSE q
        /\ step[<<i, q>>] \in Seq(Slot)
  <2> HIDE DEF Old
  <2> QED BY <1>1
<1>3. StaysIn(Seq(Slot), MaxAggrs, step)
  <2> HIDE DEF step
  <2> QED BY <1>2 DEF StaysIn
<1>4. PICK f : Solution(f, MaxAggrs, Seq(Slot), <<>>, step)
  <2> HIDE DEF step
  <2>1. <<>> \in Seq(Slot)
    OBVIOUS
  <2> QED BY <1>0, <1>3, <2>1, Recursion, Zenon
<1>5. OldBelow(t, f)
  <2>1. \A i \in 1 .. MaxAggrs : i - 1 \in 0 .. MaxAggrs
    BY <1>0
  <2>2. f \in [0 .. MaxAggrs -> Seq(Slot)] /\ f[0] = <<>> /\ \A i \in 1 .. MaxAggrs : f[i] = step[<<i, f[i - 1]>>]
    <3> HIDE DEF step
    <3> QED BY <1>4 DEF Solution
  <2>3. \A i \in 1 .. MaxAggrs :
          f[i] = IF i - 1 >= t.flush_pos /\ Old(t, i - 1) THEN Append(f[i - 1], i - 1) ELSE f[i - 1]
    <3> HIDE DEF step, Old
    <3> QED BY <1>2, <2>1, <2>2
  <2>4. f = [i \in 0 .. MaxAggrs |-> f[i]]
    BY <2>2
  <2> HIDE DEF step, Old
  <2> QED BY <2>2, <2>3, <2>4, OldBelowAt, Zenon
<1> DEFINE c == CHOOSE g : OldBelow(t, g)
<1>6. OldBelow(t, c)
  BY <1>5, Zenon
<1>7. OldSlots(t) = c[MaxAggrs]
  BY DEF OldSlots, OldBelow
<1> HIDE DEF c, step
<1> DEFINE G == {i \in 0 .. MaxAggrs : c[i] \in Seq(Slot)}
<1>8. 0 \in G
  BY <1>0, <1>6, OldBelowAt
<1>9. ASSUME NEW i \in 1 .. MaxAggrs, i - 1 \in G PROVE i \in G
  <2>1. c[i] = IF i - 1 >= t.flush_pos /\ Old(t, i - 1) THEN Append(c[i - 1], i - 1) ELSE c[i - 1]
    BY <1>6, OldBelowAt, Zenon
  <2>2. i \in 0 .. MaxAggrs
    BY <1>0
  <2> HIDE DEF Old
  <2> QED BY <1>1, <1>9, <2>1, <2>2
<1>10. \A i \in 0 .. MaxAggrs : i \in G
  <2> HIDE DEF G
  <2> QED BY <1>0, <1>8, <1>9, UpTo
<1>11. \A i \in 0 .. MaxAggrs : c[i] \in Seq(Slot)
  BY <1>10
<1>12. c[0] = <<>> /\ \A i \in 1 .. MaxAggrs :
         c[i] = IF i - 1 >= t.flush_pos /\ Old(t, i - 1) THEN Append(c[i - 1], i - 1) ELSE c[i - 1]
  BY <1>6, OldBelowAt, Zenon
<1> HIDE DEF Old
<1> QED
  BY <1>7, <1>11, <1>12

LEMMA OldSlotsType ==
  ASSUME NEW t \in Lftas
  PROVE  OldSlots(t) \in Seq(Slot)
<1>1. MaxAggrs \in 0 .. MaxAggrs
  BY Numbers
<1>2. PICK c : OldSlots(t) = c[MaxAggrs] /\ \A i \in 0 .. MaxAggrs : c[i] \in Seq(Slot)
  BY OldSlotsSolves, Zenon
<1> QED
  BY <1>1, <1>2, Zenon

(* What a function on an LFTA returns. *)
LftaResults == [t : Lftas, out : Seq(DataTuples)]

(* The value of a field that is no part of the struct's type changes nothing. *)
LEMMA LftaFields ==
  ASSUME NEW t \in Lftas
  PROVE  /\ t.slot \in [Slot -> Slots] /\ t.n_aggrs \in Int /\ t.generation \in Nat
         /\ t.flush_pos \in 0 .. MaxAggrs /\ t.flush_ctr \in 0 .. SlowFlush - 1
         /\ t.last_gb \in Gbs /\ t.flush_start_gb \in Gbs /\ t.last_flushed_gb \in Gbs /\ t.last_time \in Gbs
  BY DEF Lftas

(* The tuple of a group is none that ends a stream. *)
LEMMA GroupTupleType ==
  ASSUME NEW t \in Lftas, NEW i \in Slot
  PROVE  GroupTuple(t.slot[i]) \in DataTuples
<1>1. t.slot[i] \in Slots
  BY LftaFields
<1> QED
  BY <1>1 DEF Slots, GroupTuple, Regular, DataTuples

LEMMA FlushOldType ==
  ASSUME NEW t \in Lftas, NEW nflush \in Nat \ {0}
  PROVE  FlushOld(t, nflush) \in LftaResults
<1> DEFINE olds    == OldSlots(t)
           victims == IF Len(olds) > nflush THEN SubSeq(olds, 1, nflush) ELSE olds
           left    == t.n_aggrs - Len(victims)
           pos     == IF left > 0 /\ Len(victims) = nflush THEN victims[nflush] + 1 ELSE MaxAggrs
           slot    == [i \in Slot |-> IF i \in Range(victims) THEN Empty ELSE t.slot[i]]
           flushed == IF pos = MaxAggrs THEN t.flush_start_gb ELSE t.last_flushed_gb
           posted  == [j \in 1 .. Len(victims) |-> GroupTuple(t.slot[victims[j]])]
<1>1. olds \in Seq(Slot)
  BY OldSlotsType
<1>2. victims \in Seq(Slot)
  <2> HIDE DEF olds
  <2> QED BY <1>1
<1>3. FlushOld(t, nflush) = [t   |-> [t EXCEPT !.slot = slot, !.n_aggrs = left, !.flush_pos = pos,
                                               !.last_flushed_gb = flushed],
                             out |-> posted]
  BY DEF FlushOld
<1> HIDE DEF victims
<1>4. left \in Int
  BY <1>2, LftaFields
<1>5. pos \in 0 .. MaxAggrs
  <2>1. Len(victims) = nflush => victims[nflush] \in Slot
    BY <1>2
  <2>2. MaxAggrs \in 0 .. MaxAggrs /\ \A i \in Slot : i + 1 \in 0 .. MaxAggrs
    BY Numbers
  <2>3. pos = MaxAggrs \/ (Len(victims) = nflush /\ pos = victims[nflush] + 1)
    OBVIOUS
  <2> HIDE DEF pos
  <2> QED
    BY <2>1, <2>2, <2>3
<1>6. slot \in [Slot -> Slots]
  <2>1. Empty \in Slots
    BY Numbers DEF Empty, Slots
  <2>2. \A i \in Slot : t.slot[i] \in Slots
    BY LftaFields
  <2> QED
    BY <2>1, <2>2
<1>7. flushed \in Gbs
  BY LftaFields
<1>8. posted \in Seq(DataTuples)
  <2>1. \A j \in 1 .. Len(victims) : victims[j] \in Slot
    BY <1>2
  <2>2. \A j \in 1 .. Len(victims) : GroupTuple(t.slot[victims[j]]) \in DataTuples
    BY <2>1, GroupTupleType
  <2>3. Len(victims) \in Nat
    BY <1>2
  <2> HIDE DEF GroupTuple
  <2> QED
    BY <2>2, <2>3, IsASeq
<1> HIDE DEF left, pos, slot, flushed, posted
<1>9. [t EXCEPT !.slot = slot, !.n_aggrs = left, !.flush_pos = pos, !.last_flushed_gb = flushed] \in Lftas
  BY <1>4, <1>5, <1>6, <1>7 DEF Lftas
<1> QED
  BY <1>3, <1>8, <1>9 DEF LftaResults

LEMMA FlushPendingType ==
  ASSUME NEW t \in Lftas
  PROVE  FlushPending(t) \in LftaResults /\ FlushAll(t) \in LftaResults
<1>1. FlushAll(t) \in LftaResults
  BY FlushOldType, Numbers DEF FlushAll
<1> QED
  BY <1>1 DEF FlushPending, LftaResults

LEMMA SlowFlushStepType ==
  ASSUME NEW t \in Lftas
  PROVE  SlowFlushStep(t) \in LftaResults
<1> DEFINE u == [t EXCEPT !.flush_ctr = 0]
           w == [t EXCEPT !.flush_ctr = @ + 1]
<1>1. u \in Lftas
  BY Numbers DEF Lftas
<1>2. t.flush_ctr + 1 < SlowFlush => w \in Lftas
  BY Numbers DEF Lftas
<1>3. FlushOld(u, 1) \in LftaResults
  <2> HIDE DEF u
  <2> QED BY <1>1, FlushOldType
<1>4. SlowFlushStep(t) = IF t.flush_ctr + 1 < SlowFlush THEN [t |-> w, out |-> <<>>]
                         ELSE IF u.flush_pos < MaxAggrs THEN FlushOld(u, 1) ELSE [t |-> u, out |-> <<>>]
  BY DEF SlowFlushStep
<1> HIDE DEF u, w
<1> QED
  BY <1>1, <1>2, <1>3, <1>4 DEF LftaResults

LEMMA NewEpochType ==
  ASSUME NEW t \in Lftas, NEW e \in Gbs
  PROVE  NewEpoch(t, e) \in LftaResults
<1> DEFINE f == FlushPending(t)
           u == [f.t EXCEPT !.generation = (@ + 1) % Generations, !.flush_pos = 0,
                            !.flush_start_gb = e, !.last_gb = e]
<1>1. f \in LftaResults /\ f.t \in Lftas /\ f.out \in Seq(DataTuples)
  BY FlushPendingType DEF LftaResults
<1>2. NewEpoch(t, e) = [t |-> u, out |-> f.out]
  <2>1. NewEpoch(t, e) = [f EXCEPT !.t.generation = (@ + 1) % Generations, !.t.flush_pos = 0,
                                   !.t.flush_start_gb = e, !.t.last_gb = e]
    BY DEF NewEpoch
  <2>2. f = [t |-> f.t, out |-> f.out]
    BY <1>1 DEF LftaResults
  <2>3. f.t = [x \in DOMAIN f.t |-> f.t[x]]
    BY <1>1 DEF Lftas
  <2> HIDE DEF f, Generations
  <2> QED BY <2>1, <2>2, <2>3
<1> HIDE DEF f
<1>3. u \in Lftas
  <2>1. (f.t.generation + 1) % Generations \in Nat
    BY <1>1 DEF Lftas, Generations
  <2>2. 0 \in 0 .. MaxAggrs
    BY Numbers
  <2> DEFINE g == (f.t.generation + 1) % Generations
  <2> HIDE DEF g
  <2> QED BY <1>1, <2>1, <2>2 DEF Lftas, g
<1> HIDE DEF u
<1> QED
  BY <1>1, <1>2, <1>3 DEF LftaResults

(* A recursion that keeps in S keeps all its values there. *)
LEMMA AllIn ==
  ASSUME NEW n \in Nat, NEW S, NEW c, c[0] \in S, \A i \in 1 .. n : c[i - 1] \in S => c[i] \in S
  PROVE  \A i \in 0 .. n : c[i] \in S
<1> DEFINE G == {i \in 0 .. n : c[i] \in S}
<1>1. 0 \in G
  OBVIOUS
<1>2. \A i \in 1 .. n : i - 1 \in G => i \in G
  OBVIOUS
<1>3. \A i \in 0 .. n : i \in G
  <2> HIDE DEF G
  <2> QED BY <1>1, <1>2, UpTo
<1> QED
  BY <1>3

(* The hash function and the probes after it. *)
LEMMA HomeType ==
  ASSUME NEW a \in Nat
  PROVE  a % MaxAggrs \in Slot
  BY Numbers DEF Slot

(* One probe of BestSlot: b is the best slot before it, p the slot probed. *)
Probe(t, e, g, b, p) ==
  IF Matches(t, b, e, g) THEN b
  ELSE IF Matches(t, p, e, g) THEN p
  ELSE IF t.slot[b].filled
       THEN IF t.slot[p].filled THEN b ELSE p
       ELSE IF t.slot[b].gen = t.generation /\ t.slot[p].gen # t.generation THEN p ELSE b
ProbeAt(e, g, i) == (Home(e, g) + i - 1) % MaxAggrs

(* The equation of BestSlot's recursion, for a function; and number by number. *)
ProbesTo(t, e, g, f) ==
  f = [i \in 0 .. Probes |->
         IF i = 0 THEN Home(e, g) ELSE Probe(t, e, g, f[i - 1], ProbeAt(e, g, i))]

LEMMA ProbesToAt ==
  ASSUME NEW t, NEW e, NEW g, NEW f
  PROVE  ProbesTo(t, e, g, f) <=>
         /\ f = [i \in 0 .. Probes |-> f[i]]
         /\ f[0] = Home(e, g)
         /\ \A i \in 1 .. Probes : f[i] = Probe(t, e, g, f[i - 1], ProbeAt(e, g, i))
<1> DEFINE E(i) == IF i = 0 THEN Home(e, g) ELSE Probe(t, e, g, f[i - 1], ProbeAt(e, g, i))
           h == [i \in 0 .. Probes |-> E(i)]
<1>1. ProbesTo(t, e, g, f) <=> f = h
  BY DEF ProbesTo
<1>2. \A i \in 0 .. Probes : h[i] = E(i)
  <2> HIDE DEF E
  <2> QED OBVIOUS
<1>3. f = h <=> f = [i \in 0 .. Probes |-> f[i]] /\ \A i \in 0 .. Probes : f[i] = E(i)
  <2> HIDE DEF E
  <2> QED OBVIOUS
<1>4. E(0) = Home(e, g) /\ \A i \in 1 .. Probes : E(i) = Probe(t, e, g, f[i - 1], ProbeAt(e, g, i))
  OBVIOUS
<1>5. \A i \in 0 .. Probes : i = 0 \/ i \in 1 .. Probes
  BY DEF Probes
<1>6. 0 \in 0 .. Probes /\ \A i \in 1 .. Probes : i \in 0 .. Probes
  BY DEF Probes
<1> HIDE DEF E, h
<1> QED BY <1>1, <1>3, <1>4, <1>5, <1>6, Zenon

LEMMA BestSlotType ==
  ASSUME NEW t, NEW e \in Nat, NEW g \in Nat
  PROVE  BestSlot(t, e, g) \in Slot
<1> DEFINE step == [x \in (1 .. Probes) \X Slot |-> Probe(t, e, g, x[2], ProbeAt(e, g, x[1]))]
<1>0. Probes \in Nat /\ Home(e, g) \in Slot /\ \A i \in 1 .. Probes : ProbeAt(e, g, i) \in Slot
  <2>1. Home(e, g) \in Slot
    BY HomeType DEF Home
  <2>2. \A i \in 1 .. Probes : Home(e, g) + i - 1 \in Nat
    <3>1. Home(e, g) \in Nat
      BY <2>1, Numbers
    <3> QED BY <3>1 DEF Probes
  <2> QED
    BY <2>1, <2>2, HomeType DEF ProbeAt, Probes
<1>1. \A b, p \in Slot : Probe(t, e, g, b, p) \in Slot
  <2> SUFFICES ASSUME NEW b \in Slot, NEW p \in Slot PROVE Probe(t, e, g, b, p) \in {b, p}
    OBVIOUS
  <2> QED
    BY Zenon DEF Probe
<1>2. \A i \in 1 .. Probes : \A b \in Slot :
        step[<<i, b>>] = Probe(t, e, g, b, ProbeAt(e, g, i)) /\ step[<<i, b>>] \in Slot
  BY <1>0, <1>1
<1>3. StaysIn(Slot, Probes, step)
  <2> HIDE DEF step
  <2> QED BY <1>2 DEF StaysIn
<1>4. PICK f : Solution(f, Probes, Slot, Home(e, g), step)
  <2> HIDE DEF step
  <2> QED BY <1>0, <1>3, Recursion, Zenon
<1>5. ProbesTo(t, e, g, f)
  <2>1. \A i \in 1 .. Probes : i - 1 \in 0 .. Probes
    BY <1>0
  <2> HIDE DEF step
  <2>2. f \in [0 .. Probes -> Slot] /\ f[0] = Home(e, g) /\ \A i \in 1 .. Probes : f[i] = step[<<i, f[i - 1]>>]
    BY <1>4 DEF Solution
  <2>3. \A i \in 1 .. Probes : f[i] = Probe(t, e, g, f[i - 1], ProbeAt(e, g, i))
    BY <1>2, <2>1, <2>2
  <2>4. f = [i \in 0 .. Probes |-> f[i]]
    BY <2>2
  <2> QED BY <2>2, <2>3, <2>4, ProbesToAt, Zenon
<1> DEFINE c == CHOOSE h : ProbesTo(t, e, g, h)
<1>6. ProbesTo(t, e, g, c)
  BY <1>5, Zenon
<1>7. BestSlot(t, e, g) = c[Probes]
  BY DEF BestSlot, ProbesTo, Probe, ProbeAt
<1> HIDE DEF c, step
<1>8. c[0] \in Slot
  BY <1>0, <1>6, ProbesToAt, Zenon
<1>9. \A i \in 1 .. Probes : c[i] = Probe(t, e, g, c[i - 1], ProbeAt(e, g, i))
  BY <1>6, ProbesToAt, Zenon
<1>10. \A i \in 1 .. Probes : c[i - 1] \in Slot => c[i] \in Slot
  BY <1>0, <1>1, <1>9
<1>11. \A i \in 0 .. Probes : c[i] \in Slot
  BY <1>0, <1>8, <1>10, AllIn
<1> QED
  BY <1>0, <1>7, <1>11

LEMMA EvictType ==
  ASSUME NEW t \in Lftas, NEW b \in Slot, NEW e \in Gbs
  PROVE  Evict(t, b, e) \in LftaResults
<1> DEFINE f == IF t.slot[b].gen = t.generation /\ t.slot[b].gb = e
                THEN FlushAll(t) ELSE [t |-> t, out |-> <<>>]
           u == [f.t EXCEPT !.n_aggrs = @ - 1]
           o == Append(f.out, GroupTuple(t.slot[b]))
<1>1. f \in LftaResults
  BY FlushPendingType DEF LftaResults
<1>2. Evict(t, b, e) = [t |-> u, out |-> o]
  BY DEF Evict
<1> HIDE DEF f
<1>3. u \in Lftas
  <2>1. f.t \in Lftas
    BY <1>1 DEF LftaResults
  <2> DEFINE v == f.t
             n == v.n_aggrs - 1
  <2> HIDE DEF v
  <2>2. v \in Lftas
    BY <2>1 DEF v
  <2>3. n \in Int
    BY <2>2 DEF Lftas
  <2>4. u = [v EXCEPT !.n_aggrs = n]
    BY DEF v
  <2> HIDE DEF n, u
  <2> QED BY <2>2, <2>3, <2>4 DEF Lftas
<1>4. o \in Seq(DataTuples)
  <2>1. f.out \in Seq(DataTuples)
    BY <1>1 DEF LftaResults
  <2> HIDE DEF GroupTuple
  <2> QED BY <2>1, GroupTupleType
<1> HIDE DEF u, o
<1> QED
  BY <1>2, <1>3, <1>4 DEF LftaResults

LEMMA UpdateType ==
  ASSUME NEW t \in Lftas, NEW b \in Slot
  PROVE  Update(t, b) \in Lftas
<1> DEFINE s == [t.slot[b] EXCEPT !.cnt = @ + 1]
           q == [t.slot EXCEPT ![b] = s]
<1>1. t.slot \in [Slot -> Slots] /\ t.slot[b] \in Slots
  BY LftaFields
<1>2. s \in Slots
  BY <1>1 DEF Slots
<1>3. Update(t, b) = [t EXCEPT !.slot = q]
  BY <1>1 DEF Update, Slots
<1> HIDE DEF s
<1>4. q \in [Slot -> Slots]
  BY <1>1, <1>2
<1> HIDE DEF q
<1> QED
  BY <1>3, <1>4 DEF Lftas

LEMMA InitGroupType ==
  ASSUME NEW t \in Lftas, NEW b \in Slot, NEW e \in Gbs, NEW g \in Grps
  PROVE  InitGroup(t, b, e, g) \in Lftas
<1> DEFINE s == [filled |-> TRUE, gen |-> t.generation, gb |-> e, grp |-> g, cnt |-> 1]
           q == [t.slot EXCEPT ![b] = s]
           n == t.n_aggrs + 1
<1>1. s \in Slots
  BY LftaFields DEF Slots
<1>2. InitGroup(t, b, e, g) = [t EXCEPT !.n_aggrs = n, !.slot = q]
  BY DEF InitGroup
<1> HIDE DEF s
<1>3. q \in [Slot -> Slots] /\ n \in Int
  BY <1>1, LftaFields
<1> HIDE DEF q, n
<1> QED
  BY <1>2, <1>3 DEF Lftas

LEMMA InsertType ==
  ASSUME NEW t \in Lftas, NEW e \in Gbs, NEW g \in Grps
  PROVE  Insert(t, e, g) \in LftaResults
<1> DEFINE b == BestSlot(t, e, g)
           f == IF t.slot[b].filled THEN Evict(t, b, e) ELSE [t |-> t, out |-> <<>>]
<1>1. b \in Slot
  BY Numbers, BestSlotType
<1> HIDE DEF b
<1>2. f \in LftaResults
  BY <1>1, EvictType DEF LftaResults
<1>3. Insert(t, e, g) = IF Matches(t, b, e, g) THEN [t |-> Update(t, b), out |-> <<>>]
                        ELSE [t |-> InitGroup(f.t, b, e, g), out |-> f.out]
  BY DEF Insert, b
<1> HIDE DEF f
<1>4. f.t \in Lftas /\ f.out \in Seq(DataTuples)
  BY <1>2 DEF LftaResults
<1>5. Update(t, b) \in Lftas /\ InitGroup(f.t, b, e, g) \in Lftas
  BY <1>1, <1>4, UpdateType, InitGroupType
<1> QED
  BY <1>3, <1>4, <1>5 DEF LftaResults

LEMMA PrelimType ==
  ASSUME NEW t \in Lftas, NEW e \in Gbs
  PROVE  Prelim(t, e) \in LftaResults
<1> DEFINE a == SlowFlushStep(t)
           u == [a.t EXCEPT !.last_time = e]
<1>1. a \in LftaResults
  BY SlowFlushStepType
<1>2. Prelim(t, e) = [a EXCEPT !.t.last_time = e]
  BY DEF Prelim
<1> HIDE DEF a
<1>3. a.t \in Lftas /\ a.out \in Seq(DataTuples) /\ a = [t |-> a.t, out |-> a.out]
  BY <1>1 DEF LftaResults
<1>4. [a EXCEPT !.t.last_time = e] = [t |-> u, out |-> a.out]
  BY <1>3
<1>5. u \in Lftas
  BY <1>3 DEF Lftas
<1> HIDE DEF u
<1> QED
  BY <1>2, <1>3, <1>4, <1>5 DEF LftaResults

LEMMA AcceptType ==
  ASSUME NEW t \in Lftas, NEW e \in Gbs, NEW g \in Grps
  PROVE  Accept(t, e, g) \in LftaResults
<1> DEFINE a == Prelim(t, e)
           b == IF e # a.t.last_gb THEN NewEpoch(a.t, e) ELSE [t |-> a.t, out |-> <<>>]
           c == Insert(b.t, e, g)
<1>1. a \in LftaResults /\ a.t \in Lftas /\ a.out \in Seq(DataTuples)
  BY PrelimType DEF LftaResults
<1>2. Accept(t, e, g) = [t |-> c.t, out |-> a.out \o b.out \o c.out]
  BY DEF Accept
<1> HIDE DEF a
<1>3. b \in LftaResults /\ b.t \in Lftas /\ b.out \in Seq(DataTuples)
  <2>1. b \in LftaResults
    BY <1>1, NewEpochType DEF LftaResults
  <2> HIDE DEF b
  <2> QED BY <2>1 DEF LftaResults
<1> HIDE DEF b
<1>4. c \in LftaResults /\ c.t \in Lftas /\ c.out \in Seq(DataTuples)
  BY <1>3, InsertType DEF LftaResults
<1> HIDE DEF c
<1>5. a.out \o b.out \o c.out \in Seq(DataTuples)
  BY <1>1, <1>3, <1>4
<1> QED
  BY <1>2, <1>4, <1>5 DEF LftaResults

LEMMA ClockType ==
  ASSUME NEW t \in Lftas, NEW now \in Gbs
  PROVE  Clock(t, now) \in LftaResults
<1> DEFINE a == AdvanceClock(t, now)
           v == IF a.t.n_aggrs > 0 THEN a.t.last_flushed_gb ELSE now
           u == [a.t EXCEPT !.last_time = now, !.last_flushed_gb = v]
<1>1. a \in LftaResults
  BY NewEpochType DEF AdvanceClock, LftaResults
<1>2. Clock(t, now) = [t |-> u, out |-> Append(a.out, Temporal(v))]
  BY DEF Clock
<1> HIDE DEF a
<1>3. a.t \in Lftas /\ a.out \in Seq(DataTuples)
  BY <1>1 DEF LftaResults
<1>4. v \in Gbs
  BY <1>3, LftaFields
<1> HIDE DEF v
<1>5. u \in Lftas
  BY <1>3, <1>4 DEF Lftas
<1>6. Temporal(v) \in DataTuples
  BY <1>4, Numbers DEF Temporal, DataTuples
<1> HIDE DEF u
<1> QED
  BY <1>2, <1>3, <1>5, <1>6 DEF LftaResults

(* The end of a file is the last tuple, and the only one of its kind. *)
LEMMA FileDoneType ==
  ASSUME NEW t \in Lftas
  PROVE  FileDone(t).t \in Lftas /\ \E q \in Seq(DataTuples) : FileDone(t).out = Append(q, Eof)
<1> DEFINE a == FlushAll(t)
           u == [a.t EXCEPT !.generation = (@ + 1) % Generations, !.flush_pos = 0]
           b == FlushAll(u)
<1>1. a.t \in Lftas /\ a.out \in Seq(DataTuples)
  BY FlushPendingType DEF LftaResults
<1>2. FileDone(t) = IF t.n_aggrs = 0 THEN [t |-> t, out |-> <<Eof>>]
                    ELSE [t |-> b.t, out |-> Append(a.out \o b.out, Eof)]
  BY DEF FileDone
<1> HIDE DEF a
<1>3. u \in Lftas
  <2>1. (a.t.generation + 1) % Generations \in Nat
    BY <1>1 DEF Lftas, Generations
  <2>2. 0 \in 0 .. MaxAggrs
    BY Numbers
  <2> DEFINE g == (a.t.generation + 1) % Generations
  <2> HIDE DEF g
  <2> QED BY <1>1, <2>1, <2>2 DEF Lftas, g
<1> HIDE DEF u
<1>4. b.t \in Lftas /\ b.out \in Seq(DataTuples)
  BY <1>3, FlushPendingType DEF LftaResults
<1> HIDE DEF b
<1>5. <<Eof>> = Append(<< >>, Eof) /\ << >> \in Seq(DataTuples) /\ a.out \o b.out \in Seq(DataTuples)
  BY <1>1, <1>4
<1>6. CASE t.n_aggrs = 0
  <2>1. FileDone(t).t = t /\ FileDone(t).out = Append(<< >>, Eof)
    BY <1>2, <1>5, <1>6
  <2> QED BY <1>5, <2>1
<1>7. CASE t.n_aggrs # 0
  <2>1. FileDone(t).t = b.t /\ FileDone(t).out = Append(a.out \o b.out, Eof)
    <3> DEFINE o == Append(a.out \o b.out, Eof)
    <3>1. FileDone(t) = [t |-> b.t, out |-> o]
      BY <1>2, <1>7, Zenon
    <3> HIDE DEF o
    <3>2. FileDone(t).t = b.t /\ FileDone(t).out = o
      BY <3>1
    <3> QED BY <3>2 DEF o
  <2> QED BY <1>4, <1>5, <2>1, Zenon
<1> QED
  BY <1>6, <1>7

-----------------------------------------------------------------------------
(* The merge. *)

(* What an operator's function on a merge returns. *)
MergeResults == [op : MergeOps, out : Seq(DataTuples)]

LEMMA MergeFields ==
  ASSUME NEW m \in MergeOps
  PROVE  /\ m.wait \in Channels \cup {-1} /\ m.queue \in Seq(DataTuples)
         /\ m.last \in [Channels -> Gbs] /\ m.dropped \in Nat
  BY DEF MergeOps

LEMMA NewMergeType == NewMerge \in MergeOps
<1>1. [c \in Channels |-> 0] \in [Channels -> Gbs]
  BY Numbers
<1>2. <<>> \in Seq(DataTuples)
  OBVIOUS
<1> QED
  BY <1>1, <1>2 DEF NewMerge, MergeOps

(* Numbers up to n have a greatest. *)
LEMMA Greatest ==
  ASSUME NEW n \in Nat, NEW S, S \subseteq 0 .. n, S # {}
  PROVE  \E k \in S : \A j \in S : j <= k
<1> DEFINE B == {n - x : x \in S}
<1>1. B \subseteq Nat /\ B # {}
  <2>1. \A x \in S : n - x \in Nat
    OBVIOUS
  <2>2. PICK x \in S : TRUE
    OBVIOUS
  <2>3. n - x \in B
    OBVIOUS
  <2> QED BY <2>1, <2>3
<1>2. PICK b \in B : \A y \in B : b <= y
  <2> HIDE DEF B
  <2> QED BY <1>1, LeastNat
<1>3. PICK k \in S : b = n - k
  OBVIOUS
<1>4. \A j \in S : n - j \in B
  OBVIOUS
<1>5. \A j \in S : n - k <= n - j
  BY <1>2, <1>3, <1>4
<1> QED
  BY <1>3, <1>5

(* A data tuple has an epoch. *)
LEMMA DataGb ==
  ASSUME NEW tup \in DataTuples
  PROVE  tup.gb \in Gbs /\ tup.grp \in Grps /\ tup.cnt \in Nat /\ tup.type # "EOF"
  BY DEF DataTuples

(* The type of a merge with another channel's progress, queue or wait. *)
LEMMA MergeWith ==
  ASSUME NEW m \in MergeOps, NEW c, NEW gb \in Gbs, NEW q \in Seq(DataTuples), NEW w \in Channels \cup {-1}
  PROVE  /\ [m EXCEPT !.last[c] = gb] \in MergeOps
         /\ [m EXCEPT !.queue = q] \in MergeOps
         /\ [m EXCEPT !.wait = w] \in MergeOps
         /\ [m EXCEPT !.queue = q, !.last[c] = gb] \in MergeOps
<1> DEFINE l == [m.last EXCEPT ![c] = gb]
<1>1. l \in [Channels -> Gbs]
  BY MergeFields
<1>2. [m EXCEPT !.last[c] = gb] = [m EXCEPT !.last = l]
  OBVIOUS
<1>3. [m EXCEPT !.queue = q, !.last[c] = gb] = [m EXCEPT !.queue = q, !.last = l]
  BY DEF MergeOps
<1> HIDE DEF l
<1>4. [m EXCEPT !.last = l] \in MergeOps /\ [m EXCEPT !.queue = q, !.last = l] \in MergeOps
  BY <1>1 DEF MergeOps
<1>5. [m EXCEPT !.queue = q] \in MergeOps /\ [m EXCEPT !.wait = w] \in MergeOps
  BY DEF MergeOps
<1> QED
  BY <1>2, <1>3, <1>4, <1>5

LEMMA EnqueueType ==
  ASSUME NEW m \in MergeOps, NEW tup \in DataTuples
  PROVE  Enqueue(m, tup) \in MergeOps /\ Through(tup) \in Seq(DataTuples)
<1> DEFINE q == Append(m.queue, tup)
<1>1. q \in Seq(DataTuples)
  BY MergeFields
<1>2. Enqueue(m, tup) = IF IsTemp(tup) THEN m ELSE [m EXCEPT !.queue = q]
  BY DEF Enqueue
<1> HIDE DEF q
<1>3. 0 \in Gbs /\ -1 \in Channels \cup {-1}
  BY Numbers
<1>4. [m EXCEPT !.queue = q] \in MergeOps
  BY <1>1, <1>3, MergeWith
<1>5. <<tup>> \in Seq(DataTuples) /\ <<>> \in Seq(DataTuples)
  OBVIOUS
<1> QED
  BY <1>2, <1>4, <1>5 DEF Through

LEMMA PurgeType ==
  ASSUME NEW m \in MergeOps, NEW c \in Channels
  PROVE  Purge(m, c) \in MergeResults
<1> DEFINE upto == {n \in 0 .. Len(m.queue) : \A i \in 1 .. n : m.queue[i].gb <= m.last[1 - c]}
           k    == CHOOSE x \in upto : \A j \in upto : j <= x
           seen == IF k = 0 THEN m.last[c]
                   ELSE IF k < Len(m.queue) THEN m.queue[k + 1].gb ELSE m.queue[k].gb
           rest == SubSeq(m.queue, k + 1, Len(m.queue))
           gone == SubSeq(m.queue, 1, k)
<1>1. m.queue \in Seq(DataTuples) /\ Len(m.queue) \in Nat /\ m.last[c] \in Gbs
  BY MergeFields
<1>2. Purge(m, c) = [op |-> [m EXCEPT !.queue = rest, !.last[c] = seen], out |-> gone]
  BY DEF Purge
<1>3. upto \subseteq 0 .. Len(m.queue) /\ 0 \in upto
  BY <1>1
<1>4. k \in 0 .. Len(m.queue)
  <2> HIDE DEF upto
  <2>1. \E x \in upto : \A j \in upto : j <= x
    BY <1>1, <1>3, Greatest
  <2>2. k \in upto
    BY <2>1, Zenon
  <2> QED BY <1>3, <2>2
<1> HIDE DEF k
<1>5. rest \in Seq(DataTuples) /\ gone \in Seq(DataTuples)
  BY <1>1, <1>4
<1>6. \A i \in 1 .. Len(m.queue) : m.queue[i] \in DataTuples /\ m.queue[i].gb \in Gbs
  BY <1>1, DataGb
<1>7. seen \in Gbs
  BY <1>1, <1>4, <1>6
<1> HIDE DEF rest, gone, seen
<1>8. [m EXCEPT !.queue = rest, !.last[c] = seen] \in MergeOps
  BY <1>5, <1>7, MergeWith
<1> QED
  BY <1>2, <1>5, <1>8 DEF MergeResults

LEMMA AcceptAheadType ==
  ASSUME NEW m \in MergeOps, NEW tup \in DataTuples, NEW c \in Channels
  PROVE  AcceptAhead(m, tup, c) \in MergeResults
<1> DEFINE v == IF m.wait < 0 THEN tup.gb ELSE m.last[c]
           n == [m EXCEPT !.last[c] = v]
           u == [n EXCEPT !.wait = 1 - c]
           w == [Enqueue(n, tup) EXCEPT !.wait = 1 - c]
<1>0. 1 - c \in Channels \cup {-1} /\ 0 \in Gbs /\ <<>> \in Seq(DataTuples)
  BY Numbers DEF Channels
<1>1. v \in Gbs
  BY MergeFields, DataGb
<1>2. AcceptAhead(m, tup, c) =
        IF tup.gb <= n.last[1 - c] THEN [op |-> u, out |-> Through(tup)] ELSE [op |-> w, out |-> <<>>]
  BY DEF AcceptAhead
<1> HIDE DEF v
<1>3. n \in MergeOps
  BY <1>0, <1>1, MergeWith
<1> HIDE DEF n
<1>4. u \in MergeOps
  BY <1>0, <1>3, MergeWith
<1>5. Enqueue(n, tup) \in MergeOps /\ Through(tup) \in Seq(DataTuples)
  BY <1>3, EnqueueType
<1>6. w \in MergeOps
  BY <1>0, <1>5, MergeWith
<1> HIDE DEF u, w
<1> QED
  BY <1>0, <1>2, <1>4, <1>5, <1>6 DEF MergeResults

LEMMA AcceptAwaitedType ==
  ASSUME NEW m \in MergeOps, NEW tup \in DataTuples, NEW c \in Channels
  PROVE  AcceptAwaited(m, tup, c) \in MergeResults
<1> DEFINE n == [m EXCEPT !.last[c] = tup.gb]
           p == Purge(n, 1 - c)
           w == [Enqueue(p.op, tup) EXCEPT !.wait = 1 - c]
<1>0. 1 - c \in Channels /\ 0 \in Gbs /\ <<>> \in Seq(DataTuples) /\ tup.gb \in Gbs
  BY Numbers, DataGb DEF Channels
<1>1. AcceptAwaited(m, tup, c) =
        IF tup.gb <= p.op.last[1 - c] THEN [op |-> p.op, out |-> p.out \o Through(tup)]
        ELSE [op |-> w, out |-> p.out]
  BY DEF AcceptAwaited
<1>2. n \in MergeOps
  BY <1>0, MergeWith
<1> HIDE DEF n
<1>3. p \in MergeResults
  BY <1>0, <1>2, PurgeType
<1> HIDE DEF p
<1>4. p.op \in MergeOps /\ p.out \in Seq(DataTuples)
  BY <1>3 DEF MergeResults
<1>5. Enqueue(p.op, tup) \in MergeOps /\ Through(tup) \in Seq(DataTuples)
  BY <1>4, EnqueueType
<1>6. w \in MergeOps /\ p.out \o Through(tup) \in Seq(DataTuples)
  <2>1. 1 - c \in Channels \cup {-1}
    BY <1>0
  <2>2. w \in MergeOps
    BY <1>0, <1>5, <2>1, MergeWith
  <2>3. p.out \o Through(tup) \in Seq(DataTuples)
    BY <1>4, <1>5
  <2> QED BY <2>2, <2>3
<1> HIDE DEF w
<1> QED
  BY <1>1, <1>4, <1>6 DEF MergeResults

LEMMA MergeAcceptType ==
  ASSUME NEW m \in MergeOps, NEW tup \in DataTuples, NEW c \in Channels
  PROVE  MergeAccept(m, tup, c) \in MergeResults
<1> DEFINE r == IF m.wait # c THEN AcceptAhead(m, tup, c) ELSE AcceptAwaited(m, tup, c)
           w == IF r.op.queue = <<>> THEN -1 ELSE r.op.wait
           u == [r.op EXCEPT !.wait = w]
           d == [m EXCEPT !.dropped = @ + 1]
           o == IF IsTemp(tup) THEN Append(r.out, Status(r.op)) ELSE r.out
<1>1. MergeAccept(m, tup, c) =
        IF tup.gb < m.last[c] THEN [op |-> d, out |-> <<>>] ELSE [op |-> u, out |-> o]
  BY DEF MergeAccept
<1>2. r \in MergeResults
  BY AcceptAheadType, AcceptAwaitedType
<1> HIDE DEF r
<1>3. r.op \in MergeOps /\ r.out \in Seq(DataTuples)
  BY <1>2 DEF MergeResults
<1>4. w \in Channels \cup {-1}
  BY <1>3, MergeFields
<1> HIDE DEF w
<1>5. u \in MergeOps /\ d \in MergeOps
  BY <1>3, <1>4 DEF MergeOps
<1>6. Status(r.op) \in DataTuples
  <2>1. r.op.last[0] \in Gbs /\ r.op.last[1] \in Gbs
    BY <1>3, MergeFields DEF Channels
  <2> QED
    BY <2>1, Numbers DEF Status, Least, DataTuples
<1>7. o \in Seq(DataTuples)
  BY <1>3, <1>6
<1> HIDE DEF u, d, o
<1> QED
  BY <1>1, <1>5, <1>7 DEF MergeResults

LEMMA MergeFlushType ==
  ASSUME NEW m \in MergeOps
  PROVE  MergeFlush(m) \in MergeResults
<1> DEFINE gb == m.queue[Len(m.queue)].gb
           u  == [m EXCEPT !.last[1 - m.wait] = gb]
<1>1. MergeFlush(m) = [op |-> IF m.queue = <<>> THEN m ELSE u, out |-> m.queue]
  BY DEF MergeFlush
<1>2. m.queue \in Seq(DataTuples)
  BY MergeFields
<1>3. m.queue # <<>> => gb \in Gbs
  <2>1. m.queue # <<>> => m.queue[Len(m.queue)] \in DataTuples
    BY <1>2
  <2> QED
    BY <2>1, DataGb
<1> HIDE DEF gb
<1>4. m.queue # <<>> => u \in MergeOps
  <2>1. -1 \in Channels \cup {-1}
    OBVIOUS
  <2> QED BY <1>2, <1>3, <2>1, MergeWith
<1> HIDE DEF u
<1> QED
  BY <1>1, <1>2, <1>4 DEF MergeResults

(* One tuple more of MergeAll. *)
MergeStep(x, tup, c) ==
  LET a == MergeAccept(x.op, tup, c) IN [op |-> a.op, out |-> x.out \o a.out]

(* The equation of MergeAll's recursion, for a function; and number by number. *)
MergedTo(m, tuples, c, f) ==
  f = [n \in 0 .. Len(tuples) |->
         IF n = 0 THEN [op |-> m, out |-> <<>>] ELSE MergeStep(f[n - 1], tuples[n], c)]

MergedAt(m, tuples, c, f) ==
  /\ f = [n \in 0 .. Len(tuples) |-> f[n]]
  /\ f[0] = [op |-> m, out |-> <<>>]
  /\ \A n \in 1 .. Len(tuples) : f[n] = MergeStep(f[n - 1], tuples[n], c)

LEMMA MergedToAt ==
  ASSUME NEW m, NEW tuples, Len(tuples) \in Nat, NEW c, NEW f
  PROVE  MergedTo(m, tuples, c, f) <=> MergedAt(m, tuples, c, f)
<1> DEFINE E(n) == IF n = 0 THEN [op |-> m, out |-> <<>>] ELSE MergeStep(f[n - 1], tuples[n], c)
           h == [n \in 0 .. Len(tuples) |-> E(n)]
<1>1. MergedTo(m, tuples, c, f) <=> f = h
  BY DEF MergedTo
<1>2. \A n \in 0 .. Len(tuples) : h[n] = E(n)
  <2> HIDE DEF E
  <2> QED OBVIOUS
<1>3. f = h <=> f = [n \in 0 .. Len(tuples) |-> f[n]] /\ \A n \in 0 .. Len(tuples) : f[n] = E(n)
  <2> HIDE DEF E
  <2> QED OBVIOUS
<1>4. E(0) = [op |-> m, out |-> <<>>] /\ \A n \in 1 .. Len(tuples) : E(n) = MergeStep(f[n - 1], tuples[n], c)
  OBVIOUS
<1>5. \A n \in 0 .. Len(tuples) : n = 0 \/ n \in 1 .. Len(tuples)
  OBVIOUS
<1>6. 0 \in 0 .. Len(tuples) /\ \A n \in 1 .. Len(tuples) : n \in 0 .. Len(tuples)
  OBVIOUS
<1> HIDE DEF E, h
<1> QED BY <1>1, <1>3, <1>4, <1>5, <1>6, Zenon DEF MergedAt

LEMMA MergeAllSolves ==
  ASSUME NEW m \in MergeOps, NEW tuples \in Seq(DataTuples), NEW c \in Channels
  PROVE  \E r : /\ MergeAll(m, tuples, c) = r[Len(tuples)] /\ MergedAt(m, tuples, c, r)
                /\ \A i \in 0 .. Len(tuples) : r[i] \in MergeResults
<1> DEFINE l == Len(tuples)
           b == [op |-> m, out |-> <<>>]
           step == [x \in (1 .. l) \X MergeResults |-> MergeStep(x[2], tuples[x[1]], c)]
<1>0. l \in Nat /\ b \in MergeResults /\ \A i \in 1 .. l : tuples[i] \in DataTuples
  BY DEF MergeResults
<1>1. \A i \in 1 .. l : \A x \in MergeResults : MergeStep(x, tuples[i], c) \in MergeResults
  <2> SUFFICES ASSUME NEW i \in 1 .. l, NEW x \in MergeResults
               PROVE  MergeStep(x, tuples[i], c) \in MergeResults
    OBVIOUS
  <2> DEFINE a == MergeAccept(x.op, tuples[i], c)
  <2>1. x.op \in MergeOps /\ x.out \in Seq(DataTuples)
    BY DEF MergeResults
  <2>2. MergeStep(x, tuples[i], c) = [op |-> a.op, out |-> x.out \o a.out]
    BY DEF MergeStep
  <2>3. a \in MergeResults
    BY <1>0, <2>1, MergeAcceptType
  <2> HIDE DEF a
  <2>4. a.op \in MergeOps /\ a.out \in Seq(DataTuples)
    BY <2>3 DEF MergeResults
  <2>5. x.out \o a.out \in Seq(DataTuples)
    BY <2>1, <2>4
  <2> QED
    BY <2>2, <2>4, <2>5 DEF MergeResults
<1> HIDE DEF b
<1>2. \A i \in 1 .. l : \A x \in MergeResults :
        step[<<i, x>>] = MergeStep(x, tuples[i], c) /\ step[<<i, x>>] \in MergeResults
  BY <1>1
<1>3. StaysIn(MergeResults, l, step)
  <2> HIDE DEF step
  <2> QED BY <1>2 DEF StaysIn
<1>4. PICK f : Solution(f, l, MergeResults, b, step)
  <2> HIDE DEF step
  <2> QED BY <1>0, <1>3, Recursion, Zenon
<1>5. MergedTo(m, tuples, c, f)
  <2>1. \A i \in 1 .. l : i - 1 \in 0 .. l
    BY <1>0
  <2> HIDE DEF step, l
  <2>2. f \in [0 .. l -> MergeResults] /\ f[0] = b /\ \A i \in 1 .. l : f[i] = step[<<i, f[i - 1]>>]
    BY <1>4 DEF Solution
  <2>3. \A i \in 1 .. l : f[i] = MergeStep(f[i - 1], tuples[i], c)
    BY <1>2, <2>1, <2>2
  <2>4. f = [i \in 0 .. l |-> f[i]]
    BY <2>2
  <2> QED BY <1>0, <2>2, <2>3, <2>4, MergedToAt, Zenon DEF MergedAt, l, b
<1> DEFINE r == CHOOSE g : MergedTo(m, tuples, c, g)
<1>6. MergedTo(m, tuples, c, r)
  BY <1>5, Zenon
<1>7. MergeAll(m, tuples, c) = r[l]
  BY DEF MergeAll, MergedTo, MergeStep
<1> HIDE DEF r, step
<1>12. MergedAt(m, tuples, c, r)
  <2>1. Len(tuples) \in Nat
    BY <1>0
  <2> QED BY <1>6, <2>1, MergedToAt, Zenon
<1>8. r[0] \in MergeResults
  BY <1>0, <1>6, MergedToAt, Zenon DEF MergedAt, l, b
<1>9. \A i \in 1 .. l : r[i] = MergeStep(r[i - 1], tuples[i], c)
  <2>1. Len(tuples) \in Nat
    BY <1>0
  <2>2. \A i \in 1 .. Len(tuples) : r[i] = MergeStep(r[i - 1], tuples[i], c)
    <3>1. MergedAt(m, tuples, c, r)
      BY <1>6, <2>1, MergedToAt, Zenon
    <3> QED BY <3>1 DEF MergedAt
  <2> QED BY <2>2
<1>10. \A i \in 1 .. l : r[i - 1] \in MergeResults => r[i] \in MergeResults
  BY <1>1, <1>9, Zenon
<1> HIDE DEF l
<1>11. \A i \in 0 .. l : r[i] \in MergeResults
  BY <1>0, <1>8, <1>10, AllIn
<1> QED
  BY <1>7, <1>11, <1>12, Zenon DEF l

LEMMA MergeAllType ==
  ASSUME NEW m \in MergeOps, NEW tuples \in Seq(DataTuples), NEW c \in Channels
  PROVE  MergeAll(m, tuples, c) \in MergeResults
<1>1. Len(tuples) \in 0 .. Len(tuples)
  OBVIOUS
<1>2. PICK r : MergeAll(m, tuples, c) = r[Len(tuples)] /\ \A i \in 0 .. Len(tuples) : r[i] \in MergeResults
  BY MergeAllSolves, Zenon
<1> QED
  BY <1>1, <1>2, Zenon

-----------------------------------------------------------------------------
(* The group-by. *)

(* Its states with a finite table, and what its functions return. *)
GroupBysOK     == {b \in GroupBys : IsFiniteSet(b.table)}
GroupByResults == [op : GroupBysOK, out : Seq(DataTuples)]

LEMMA GroupByFields ==
  ASSUME NEW b \in GroupBysOK
  PROVE  /\ b \in GroupBys /\ b.table \subseteq Rows /\ IsFiniteSet(b.table) /\ b.old \in Seq(Rows)
         /\ b.finished \in BOOLEAN /\ b.last_gb \in Gbs /\ b.last_flushed_gb \in Gbs
  BY DEF GroupBysOK, GroupBys

LEMMA NewGroupByType == NewGroupBy \in GroupBysOK
<1>1. IsFiniteSet({}) /\ {} \subseteq Rows /\ <<>> \in Seq(Rows)
  BY FS_EmptySet
<1> QED
  BY <1>1, Numbers DEF NewGroupBy, GroupBys, GroupBysOK

(* A finite table has an order, and iterating it gives its rows. *)
LEMMA IterateType ==
  ASSUME NEW T, IsFiniteSet(T), T \subseteq Rows
  PROVE  Iterate(T) \in Seq(Rows)
<1> DEFINE c == Cardinality(T)
           s == CHOOSE f \in [1 .. c -> T] : IsInjective(f)
<1>1. c \in Nat /\ ExistsBijection(1 .. c, T)
  BY FS_CardinalityType
<1>2. \E f \in [1 .. c -> T] : IsInjective(f)
  BY <1>1 DEF ExistsBijection, Bijection, Injection
<1>3. s \in [1 .. c -> T]
  BY <1>2, Zenon
<1>4. Iterate(T) = s
  BY DEF Iterate, SetToSeq
<1> HIDE DEF s, c
<1>5. s \in Seq(T)
  BY <1>1, <1>3
<1> QED
  BY <1>4, <1>5

LEMMA OutputsType ==
  ASSUME NEW q \in Seq(Rows)
  PROVE  Outputs(q) \in Seq(DataTuples)
<1>1. \A r \in Rows : Output(r) \in DataTuples
  BY DEF Rows, Output, DataTuples
<1>2. Len(q) \in Nat /\ \A i \in 1 .. Len(q) : q[i] \in Rows
  OBVIOUS
<1>3. \A i \in 1 .. Len(q) : Output(q[i]) \in DataTuples
  BY <1>1, <1>2
<1> HIDE DEF Output
<1> QED
  BY <1>2, <1>3, IsASeq DEF Outputs

LEMMA PartialFlushType ==
  ASSUME NEW b \in GroupBysOK
  PROVE  PartialFlush(b) \in GroupByResults
<1> DEFINE rest == IF b.old = <<>> THEN <<>> ELSE Tail(b.old)
           u    == [b EXCEPT !.old = rest, !.finished = (rest = <<>>)]
           o    == IF b.old = <<>> THEN <<>> ELSE <<Output(Head(b.old))>>
<1>1. PartialFlush(b) = IF b.finished THEN [op |-> b, out |-> <<>>] ELSE [op |-> u, out |-> o]
  BY DEF PartialFlush
<1>2. b.old \in Seq(Rows)
  BY GroupByFields
<1>3. rest \in Seq(Rows)
  BY <1>2
<1>4. o \in Seq(DataTuples)
  <2>1. b.old # <<>> => Head(b.old) \in Rows
    BY <1>2
  <2>2. b.old # <<>> => Output(Head(b.old)) \in DataTuples
    BY <2>1 DEF Rows, Output, DataTuples
  <2> HIDE DEF Output
  <2> QED BY <2>2
<1> DEFINE fin == (rest = <<>>)
<1>5. fin \in BOOLEAN
  OBVIOUS
<1>6. u = [b EXCEPT !.old = rest, !.finished = fin]
  OBVIOUS
<1> HIDE DEF fin, rest
<1>7. u \in GroupBysOK
  <2>1. [b EXCEPT !.old = rest, !.finished = fin] \in GroupBys
    BY <1>3, <1>5, GroupByFields DEF GroupBys
  <2>2. [b EXCEPT !.old = rest, !.finished = fin].table = b.table
    BY GroupByFields DEF GroupBys
  <2> HIDE DEF u
  <2> QED BY <1>6, <2>1, <2>2, GroupByFields DEF GroupBysOK
<1> HIDE DEF u, o
<1> QED
  BY <1>1, <1>4, <1>7 DEF GroupByResults

LEMMA SwapTablesType ==
  ASSUME NEW b \in GroupBysOK
  PROVE  SwapTables(b) \in GroupByResults
<1> DEFINE q == Iterate(b.table)
           u == [b EXCEPT !.old = q, !.table = {}, !.finished = FALSE]
<1>1. SwapTables(b) = [op |-> u, out |-> Outputs(b.old)]
  BY DEF SwapTables
<1>2. q \in Seq(Rows) /\ b.old \in Seq(Rows)
  BY GroupByFields, IterateType
<1>3. Outputs(b.old) \in Seq(DataTuples)
  BY <1>2, OutputsType
<1> HIDE DEF q
<1>4. u \in GroupBys
  BY <1>2, GroupByFields DEF GroupBys
<1>5. u.table = {} /\ IsFiniteSet({})
  BY GroupByFields, FS_EmptySet DEF GroupBys
<1> HIDE DEF u
<1>6. u \in GroupBysOK
  BY <1>4, <1>5 DEF GroupBysOK
<1> QED
  BY <1>1, <1>3, <1>6 DEF GroupByResults

LEMMA EpochType ==
  ASSUME NEW b \in GroupBysOK, NEW e \in Gbs
  PROVE  Epoch(b, e) \in GroupBysOK
<1> DEFINE v == b.last_gb
           u == [b EXCEPT !.last_flushed_gb = v, !.last_gb = e]
<1>1. Epoch(b, e) = IF e = b.last_gb THEN b ELSE u
  BY DEF Epoch
<1>2. v \in Gbs
  BY GroupByFields
<1> HIDE DEF v
<1>3. u \in GroupBys /\ u.table = b.table
  BY <1>2, GroupByFields DEF GroupBys
<1> HIDE DEF u
<1> QED
  BY <1>1, <1>3, GroupByFields DEF GroupBysOK

LEMMA CountType ==
  ASSUME NEW b \in GroupBysOK, NEW tup \in DataTuples
  PROVE  Count(b, tup) \in GroupBysOK
<1> DEFINE hit == Find(b, tup)
           sum == IF hit = {} THEN tup.cnt ELSE tup.cnt + (CHOOSE r \in hit : TRUE).cnt
           row == [gb |-> tup.gb, grp |-> tup.grp, cnt |-> sum]
           new == (b.table \ hit) \cup {row}
<1>1. Count(b, tup) = [b EXCEPT !.table = new]
  BY DEF Count
<1>2. hit \subseteq b.table /\ b.table \subseteq Rows
  BY GroupByFields DEF Find
<1>3. sum \in Nat
  <2> HIDE DEF hit
  <2>1. hit # {} => (CHOOSE r \in hit : TRUE) \in hit
    BY Zenon
  <2>2. hit # {} => (CHOOSE r \in hit : TRUE).cnt \in Nat
    BY <1>2, <2>1 DEF Rows
  <2> QED BY <2>2, DataGb
<1> HIDE DEF sum, hit
<1>4. row \in Rows
  BY <1>3, DataGb DEF Rows
<1> HIDE DEF row
<1>5. new \subseteq Rows
  BY <1>2, <1>4
<1>6. IsFiniteSet(new)
  BY GroupByFields, FS_Difference, FS_AddElement
<1> HIDE DEF new
<1>7. [b EXCEPT !.table = new] \in GroupBys /\ [b EXCEPT !.table = new].table = new
  BY <1>5, GroupByFields DEF GroupBys
<1> QED
  BY <1>1, <1>6, <1>7 DEF GroupBysOK

LEMMA GroupByAcceptType ==
  ASSUME NEW b \in GroupBysOK, NEW tup \in DataTuples
  PROVE  GroupByAccept(b, tup) \in GroupByResults
<1> DEFINE p == PartialFlush(b)
           c == Epoch(p.op, tup.gb)
           s == IF tup.gb # b.last_gb /\ Find(c, tup) = {} THEN SwapTables(c) ELSE [op |-> c, out |-> <<>>]
           o == p.out \o Append(s.out, GroupByStatus(s.op))
<1>1. GroupByAccept(b, tup) =
        IF tup.type = "TEMPORAL" THEN [op |-> s.op, out |-> o]
        ELSE [op |-> Count(s.op, tup), out |-> p.out \o s.out]
  BY DEF GroupByAccept
<1>2. p.op \in GroupBysOK /\ p.out \in Seq(DataTuples)
  BY PartialFlushType DEF GroupByResults
<1> HIDE DEF p
<1>3. c \in GroupBysOK
  BY <1>2, EpochType, DataGb
<1> HIDE DEF c
<1>4. s \in GroupByResults
  BY <1>3, SwapTablesType DEF GroupByResults
<1> HIDE DEF s
<1>5. s.op \in GroupBysOK /\ s.out \in Seq(DataTuples)
  BY <1>4 DEF GroupByResults
<1>6. GroupByStatus(s.op) \in DataTuples
  <2>1. s.op.last_gb \in Gbs /\ s.op.last_flushed_gb \in Gbs
    BY <1>5, GroupByFields
  <2> QED BY <2>1, Numbers DEF GroupByStatus, DataTuples
<1>7. o \in Seq(DataTuples) /\ p.out \o s.out \in Seq(DataTuples)
  BY <1>2, <1>5, <1>6
<1>8. Count(s.op, tup) \in GroupBysOK
  BY <1>5, CountType
<1> HIDE DEF o
<1> QED
  BY <1>1, <1>5, <1>7, <1>8 DEF GroupByResults

LEMMA GroupByFlushType ==
  ASSUME NEW b \in GroupBysOK
  PROVE  GroupByFlush(b) \in GroupByResults
<1> DEFINE u == [b EXCEPT !.old = <<>>, !.table = {}, !.finished = TRUE]
           q == b.old \o Iterate(b.table)
<1>1. GroupByFlush(b) = [op |-> u, out |-> Outputs(q)]
  BY DEF GroupByFlush
<1>2. q \in Seq(Rows)
  BY GroupByFields, IterateType
<1> HIDE DEF q
<1>3. Outputs(q) \in Seq(DataTuples)
  BY <1>2, OutputsType
<1>4. u \in GroupBys /\ u.table = {} /\ IsFiniteSet({})
  <2>1. <<>> \in Seq(Rows) /\ {} \subseteq Rows
    OBVIOUS
  <2>2. u \in GroupBys
    BY <2>1, GroupByFields DEF GroupBys
  <2>3. u.table = {}
    BY GroupByFields DEF GroupBys
  <2> HIDE DEF u
  <2> QED BY <2>2, <2>3, FS_EmptySet
<1> HIDE DEF u
<1>5. u \in GroupBysOK
  BY <1>4 DEF GroupBysOK
<1> QED
  BY <1>1, <1>3, <1>5 DEF GroupByResults

(* One tuple more of GroupByAll. *)
GroupByStep(x, tup) ==
  LET a == GroupByAccept(x.op, tup) IN [op |-> a.op, out |-> x.out \o a.out]

(* The equation of GroupByAll's recursion, for a function; and number by number. *)
GroupedTo(m, tuples, f) ==
  f = [n \in 0 .. Len(tuples) |->
         IF n = 0 THEN [op |-> m, out |-> <<>>] ELSE GroupByStep(f[n - 1], tuples[n])]

GroupedAt(m, tuples, f) ==
  /\ f = [n \in 0 .. Len(tuples) |-> f[n]]
  /\ f[0] = [op |-> m, out |-> <<>>]
  /\ \A n \in 1 .. Len(tuples) : f[n] = GroupByStep(f[n - 1], tuples[n])

LEMMA GroupedToAt ==
  ASSUME NEW m, NEW tuples, Len(tuples) \in Nat, NEW f
  PROVE  GroupedTo(m, tuples, f) <=> GroupedAt(m, tuples, f)
<1> DEFINE E(n) == IF n = 0 THEN [op |-> m, out |-> <<>>] ELSE GroupByStep(f[n - 1], tuples[n])
           h == [n \in 0 .. Len(tuples) |-> E(n)]
<1>1. GroupedTo(m, tuples, f) <=> f = h
  BY DEF GroupedTo
<1>2. \A n \in 0 .. Len(tuples) : h[n] = E(n)
  <2> HIDE DEF E
  <2> QED OBVIOUS
<1>3. f = h <=> f = [n \in 0 .. Len(tuples) |-> f[n]] /\ \A n \in 0 .. Len(tuples) : f[n] = E(n)
  <2> HIDE DEF E
  <2> QED OBVIOUS
<1>4. E(0) = [op |-> m, out |-> <<>>] /\ \A n \in 1 .. Len(tuples) : E(n) = GroupByStep(f[n - 1], tuples[n])
  OBVIOUS
<1>5. \A n \in 0 .. Len(tuples) : n = 0 \/ n \in 1 .. Len(tuples)
  OBVIOUS
<1>6. 0 \in 0 .. Len(tuples) /\ \A n \in 1 .. Len(tuples) : n \in 0 .. Len(tuples)
  OBVIOUS
<1> HIDE DEF E, h
<1> QED BY <1>1, <1>3, <1>4, <1>5, <1>6, Zenon DEF GroupedAt

LEMMA GroupByAllSolves ==
  ASSUME NEW m \in GroupBysOK, NEW tuples \in Seq(DataTuples)
  PROVE  \E r : /\ GroupByAll(m, tuples) = r[Len(tuples)] /\ GroupedAt(m, tuples, r)
                /\ \A i \in 0 .. Len(tuples) : r[i] \in GroupByResults
<1> DEFINE l == Len(tuples)
           b == [op |-> m, out |-> <<>>]
           step == [x \in (1 .. l) \X GroupByResults |-> GroupByStep(x[2], tuples[x[1]])]
<1>0. l \in Nat /\ b \in GroupByResults /\ \A i \in 1 .. l : tuples[i] \in DataTuples
  BY DEF GroupByResults
<1>1. \A i \in 1 .. l : \A x \in GroupByResults : GroupByStep(x, tuples[i]) \in GroupByResults
  <2> SUFFICES ASSUME NEW i \in 1 .. l, NEW x \in GroupByResults
               PROVE  GroupByStep(x, tuples[i]) \in GroupByResults
    OBVIOUS
  <2> DEFINE a == GroupByAccept(x.op, tuples[i])
  <2>1. x.op \in GroupBysOK /\ x.out \in Seq(DataTuples)
    BY DEF GroupByResults
  <2>2. GroupByStep(x, tuples[i]) = [op |-> a.op, out |-> x.out \o a.out]
    BY DEF GroupByStep
  <2>3. a \in GroupByResults
    BY <1>0, <2>1, GroupByAcceptType
  <2> HIDE DEF a
  <2>4. a.op \in GroupBysOK /\ a.out \in Seq(DataTuples)
    BY <2>3 DEF GroupByResults
  <2>5. x.out \o a.out \in Seq(DataTuples)
    BY <2>1, <2>4
  <2> QED
    BY <2>2, <2>4, <2>5 DEF GroupByResults
<1> HIDE DEF b
<1>2. \A i \in 1 .. l : \A x \in GroupByResults :
        step[<<i, x>>] = GroupByStep(x, tuples[i]) /\ step[<<i, x>>] \in GroupByResults
  BY <1>1
<1>3. StaysIn(GroupByResults, l, step)
  <2> HIDE DEF step
  <2> QED BY <1>2 DEF StaysIn
<1>4. PICK f : Solution(f, l, GroupByResults, b, step)
  <2> HIDE DEF step
  <2> QED BY <1>0, <1>3, Recursion, Zenon
<1>5. GroupedTo(m, tuples, f)
  <2>1. \A i \in 1 .. l : i - 1 \in 0 .. l
    BY <1>0
  <2> HIDE DEF step, l
  <2>2. f \in [0 .. l -> GroupByResults] /\ f[0] = b /\ \A i \in 1 .. l : f[i] = step[<<i, f[i - 1]>>]
    BY <1>4 DEF Solution
  <2>3. \A i \in 1 .. l : f[i] = GroupByStep(f[i - 1], tuples[i])
    BY <1>2, <2>1, <2>2
  <2>4. f = [i \in 0 .. l |-> f[i]]
    BY <2>2
  <2> QED BY <1>0, <2>2, <2>3, <2>4, GroupedToAt, Zenon DEF GroupedAt, l, b
<1> DEFINE r == CHOOSE g : GroupedTo(m, tuples, g)
<1>6. GroupedTo(m, tuples, r)
  BY <1>5, Zenon
<1>7. GroupByAll(m, tuples) = r[l]
  BY DEF GroupByAll, GroupedTo, GroupByStep
<1> HIDE DEF r, step
<1>12. GroupedAt(m, tuples, r)
  <2>1. Len(tuples) \in Nat
    BY <1>0
  <2> QED BY <1>6, <2>1, GroupedToAt, Zenon
<1>8. r[0] \in GroupByResults
  BY <1>0, <1>6, GroupedToAt, Zenon DEF GroupedAt, l, b
<1>9. \A i \in 1 .. l : r[i] = GroupByStep(r[i - 1], tuples[i])
  <2>1. Len(tuples) \in Nat
    BY <1>0
  <2>2. \A i \in 1 .. Len(tuples) : r[i] = GroupByStep(r[i - 1], tuples[i])
    <3>1. GroupedAt(m, tuples, r)
      BY <1>6, <2>1, GroupedToAt, Zenon
    <3> QED BY <3>1 DEF GroupedAt
  <2> QED BY <2>2
<1>10. \A i \in 1 .. l : r[i - 1] \in GroupByResults => r[i] \in GroupByResults
  BY <1>1, <1>9, Zenon
<1> HIDE DEF l
<1>11. \A i \in 0 .. l : r[i] \in GroupByResults
  BY <1>0, <1>8, <1>10, AllIn
<1> QED
  BY <1>7, <1>11, <1>12, Zenon DEF l

LEMMA GroupByAllType ==
  ASSUME NEW m \in GroupBysOK, NEW tuples \in Seq(DataTuples)
  PROVE  GroupByAll(m, tuples) \in GroupByResults
<1>1. Len(tuples) \in 0 .. Len(tuples)
  OBVIOUS
<1>2. PICK r : GroupByAll(m, tuples) = r[Len(tuples)] /\ \A i \in 0 .. Len(tuples) : r[i] \in GroupByResults
  BY GroupByAllSolves, Zenon
<1> QED
  BY <1>1, <1>2, Zenon

-----------------------------------------------------------------------------
(* The HFTA. *)

(* One tuple more of WithoutTemps. *)
WithoutStep(x, tup) == IF IsTemp(tup) THEN x ELSE Append(x, tup)

(* The equation of WithoutTemps's recursion, for a function; and number by number. *)
WithoutTo(result, f) ==
  f = [n \in 0 .. Len(result) |-> IF n = 0 THEN << >> ELSE WithoutStep(f[n - 1], result[n])]

WithoutToAt(result, f) ==
  /\ f = [n \in 0 .. Len(result) |-> f[n]]
  /\ f[0] = << >>
  /\ \A n \in 1 .. Len(result) : f[n] = WithoutStep(f[n - 1], result[n])

LEMMA WithoutToIsAt ==
  ASSUME NEW result, Len(result) \in Nat, NEW f
  PROVE  WithoutTo(result, f) <=> WithoutToAt(result, f)
<1> DEFINE E(n) == IF n = 0 THEN << >> ELSE WithoutStep(f[n - 1], result[n])
           h == [n \in 0 .. Len(result) |-> E(n)]
<1>1. WithoutTo(result, f) <=> f = h
  BY DEF WithoutTo
<1>2. \A n \in 0 .. Len(result) : h[n] = E(n)
  <2> HIDE DEF E
  <2> QED OBVIOUS
<1>3. f = h <=> f = [n \in 0 .. Len(result) |-> f[n]] /\ \A n \in 0 .. Len(result) : f[n] = E(n)
  <2> HIDE DEF E
  <2> QED OBVIOUS
<1>4. E(0) = << >> /\ \A n \in 1 .. Len(result) : E(n) = WithoutStep(f[n - 1], result[n])
  OBVIOUS
<1>5. \A n \in 0 .. Len(result) : n = 0 \/ n \in 1 .. Len(result)
  OBVIOUS
<1>6. 0 \in 0 .. Len(result) /\ \A n \in 1 .. Len(result) : n \in 0 .. Len(result)
  OBVIOUS
<1> HIDE DEF E, h
<1> QED BY <1>1, <1>3, <1>4, <1>5, <1>6, Zenon DEF WithoutToAt

LEMMA WithoutTempsSolves ==
  ASSUME NEW result \in Seq(DataTuples)
  PROVE  \E r : /\ WithoutTemps(result) = r[Len(result)] /\ WithoutToAt(result, r)
                /\ \A i \in 0 .. Len(result) : r[i] \in Seq(DataTuples)
<1> DEFINE l == Len(result)
           b == << >>
           step == [x \in (1 .. l) \X Seq(DataTuples) |-> WithoutStep(x[2], result[x[1]])]
<1>0. l \in Nat /\ b \in Seq(DataTuples) /\ \A i \in 1 .. l : result[i] \in DataTuples
  OBVIOUS
<1>1. \A i \in 1 .. l : \A x \in Seq(DataTuples) : WithoutStep(x, result[i]) \in Seq(DataTuples)
  BY <1>0 DEF WithoutStep
<1> HIDE DEF b
<1>2. \A i \in 1 .. l : \A x \in Seq(DataTuples) :
        step[<<i, x>>] = WithoutStep(x, result[i]) /\ step[<<i, x>>] \in Seq(DataTuples)
  BY <1>1
<1>3. StaysIn(Seq(DataTuples), l, step)
  <2> HIDE DEF step
  <2> QED BY <1>2 DEF StaysIn
<1>4. PICK f : Solution(f, l, Seq(DataTuples), b, step)
  <2> HIDE DEF step
  <2> QED BY <1>0, <1>3, Recursion, Zenon
<1>5. WithoutTo(result, f)
  <2>1. \A i \in 1 .. l : i - 1 \in 0 .. l
    BY <1>0
  <2> HIDE DEF step, l
  <2>2. f \in [0 .. l -> Seq(DataTuples)] /\ f[0] = b /\ \A i \in 1 .. l : f[i] = step[<<i, f[i - 1]>>]
    BY <1>4 DEF Solution
  <2>3. \A i \in 1 .. l : f[i] = WithoutStep(f[i - 1], result[i])
    BY <1>2, <2>1, <2>2
  <2>4. f = [i \in 0 .. l |-> f[i]]
    BY <2>2
  <2> QED BY <1>0, <2>2, <2>3, <2>4, WithoutToIsAt, Zenon DEF WithoutToAt, l, b
<1> DEFINE r == CHOOSE g : WithoutTo(result, g)
<1>6. WithoutTo(result, r)
  BY <1>5, Zenon
<1>7. WithoutTemps(result) = r[l]
  BY DEF WithoutTemps, WithoutTo, WithoutStep
<1> HIDE DEF r, step
<1>8. WithoutToAt(result, r)
  <2>1. Len(result) \in Nat
    BY <1>0
  <2> QED BY <1>6, <2>1, WithoutToIsAt, Zenon
<1>9. r[0] \in Seq(DataTuples)
  BY <1>0, <1>8, Zenon DEF WithoutToAt, b
<1>10. \A i \in 1 .. l : r[i] = WithoutStep(r[i - 1], result[i])
  BY <1>8 DEF WithoutToAt
<1>11. \A i \in 1 .. l : r[i - 1] \in Seq(DataTuples) => r[i] \in Seq(DataTuples)
  BY <1>1, <1>10, Zenon
<1> HIDE DEF l
<1>12. \A i \in 0 .. l : r[i] \in Seq(DataTuples)
  BY <1>0, <1>9, <1>11, AllIn
<1> QED
  BY <1>7, <1>8, <1>12, Zenon DEF l

LEMMA WithoutTempsType ==
  ASSUME NEW result \in Seq(DataTuples)
  PROVE  WithoutTemps(result) \in Seq(DataTuples)
<1>1. Len(result) \in 0 .. Len(result)
  OBVIOUS
<1>2. PICK r : WithoutTemps(result) = r[Len(result)] /\ \A i \in 0 .. Len(result) : r[i] \in Seq(DataTuples)
  BY WithoutTempsSolves, Zenon
<1> QED
  BY <1>1, <1>2, Zenon

LEMMA FinalizedType ==
  ASSUME NEW result \in Seq(DataTuples), NEW tup
  PROVE  Finalized(result, tup) \in Seq(DataTuples)
<1>1. WithoutTemps(result) \in Seq(DataTuples)
  BY WithoutTempsType
<1>2. result # <<>> => result[Len(result)] \in DataTuples
  OBVIOUS
<1> QED
  BY <1>1, <1>2 DEF Finalized

(* One operator more of Route. *)
RouteFirst(s, tup)      == [op |-> NewMerge, out |-> IF s = 1 THEN <<tup>> ELSE <<>>]
RouteStep(s, tup, x, i) == IF s = i + 1 THEN MergeAll(merge[i], <<tup>>, 1) ELSE MergeAll(merge[i], x.out, 0)

(* The equation of Route's recursion, for a function; and number by number. *)
RouteTo(s, tup, f) ==
  f = [i \in 0 .. (N - 1) |-> IF i = 0 THEN RouteFirst(s, tup) ELSE RouteStep(s, tup, f[i - 1], i)]

RouteToAt(s, tup, f) ==
  /\ f = [i \in 0 .. (N - 1) |-> f[i]]
  /\ f[0] = RouteFirst(s, tup)
  /\ \A i \in 1 .. (N - 1) : f[i] = RouteStep(s, tup, f[i - 1], i)

LEMMA RouteToIsAt ==
  ASSUME NEW s, NEW tup, (N - 1) \in Nat, NEW f
  PROVE  RouteTo(s, tup, f) <=> RouteToAt(s, tup, f)
<1> DEFINE E(i) == IF i = 0 THEN RouteFirst(s, tup) ELSE RouteStep(s, tup, f[i - 1], i)
           h == [i \in 0 .. (N - 1) |-> E(i)]
<1>1. RouteTo(s, tup, f) <=> f = h
  BY DEF RouteTo
<1>2. \A i \in 0 .. (N - 1) : h[i] = E(i)
  <2> HIDE DEF E
  <2> QED OBVIOUS
<1>3. f = h <=> f = [i \in 0 .. (N - 1) |-> f[i]] /\ \A i \in 0 .. (N - 1) : f[i] = E(i)
  <2> HIDE DEF E
  <2> QED OBVIOUS
<1>4. E(0) = RouteFirst(s, tup) /\ \A i \in 1 .. (N - 1) : E(i) = RouteStep(s, tup, f[i - 1], i)
  OBVIOUS
<1>5. \A i \in 0 .. (N - 1) : i = 0 \/ i \in 1 .. (N - 1)
  OBVIOUS
<1>6. 0 \in 0 .. (N - 1) /\ \A i \in 1 .. (N - 1) : i \in 0 .. (N - 1)
  OBVIOUS
<1> HIDE DEF E, h
<1> QED BY <1>1, <1>3, <1>4, <1>5, <1>6, Zenon DEF RouteToAt

LEMMA RouteSolves ==
  ASSUME NEW s, NEW tup \in DataTuples, merge \in [Merges -> MergeOps]
  PROVE  RouteToAt(s, tup, Route(s, tup)) /\ \A i \in 0 .. N - 1 : Route(s, tup)[i] \in MergeResults
<1> DEFINE l == (N - 1)
           b == RouteFirst(s, tup)
           step == [x \in (1 .. l) \X MergeResults |-> RouteStep(s, tup, x[2], x[1])]
<1>0. l \in Nat /\ b \in MergeResults /\ l = N - 1
  <2>1. l \in Nat /\ <<tup>> \in Seq(DataTuples) /\ <<>> \in Seq(DataTuples)
    BY Numbers
  <2> QED BY <2>1, NewMergeType DEF MergeResults, RouteFirst
<1>1. \A i \in 1 .. l : \A x \in MergeResults : RouteStep(s, tup, x, i) \in MergeResults
  <2> SUFFICES ASSUME NEW i \in 1 .. l, NEW x \in MergeResults
               PROVE  RouteStep(s, tup, x, i) \in MergeResults
    OBVIOUS
  <2>1. merge[i] \in MergeOps
    BY Numbers DEF Merges
  <2>2. x.out \in Seq(DataTuples) /\ <<tup>> \in Seq(DataTuples) /\ 0 \in Channels /\ 1 \in Channels
    BY DEF MergeResults, Channels
  <2>3. MergeAll(merge[i], <<tup>>, 1) \in MergeResults
    BY <2>1, <2>2, MergeAllType
  <2>4. MergeAll(merge[i], x.out, 0) \in MergeResults
    BY <2>1, <2>2, MergeAllType
  <2> QED BY <2>3, <2>4 DEF RouteStep
<1> HIDE DEF b
<1>2. \A i \in 1 .. l : \A x \in MergeResults :
        step[<<i, x>>] = RouteStep(s, tup, x, i) /\ step[<<i, x>>] \in MergeResults
  BY <1>1
<1>3. StaysIn(MergeResults, l, step)
  <2> HIDE DEF step
  <2> QED BY <1>2 DEF StaysIn
<1>4. PICK f : Solution(f, l, MergeResults, b, step)
  <2> HIDE DEF step
  <2> QED BY <1>0, <1>3, Recursion, Zenon
<1>5. RouteTo(s, tup, f)
  <2>1. \A i \in 1 .. l : i - 1 \in 0 .. l
    BY <1>0
  <2> HIDE DEF step, l
  <2>2. f \in [0 .. l -> MergeResults] /\ f[0] = b /\ \A i \in 1 .. l : f[i] = step[<<i, f[i - 1]>>]
    BY <1>4 DEF Solution
  <2>3. \A i \in 1 .. l : f[i] = RouteStep(s, tup, f[i - 1], i)
    BY <1>2, <2>1, <2>2
  <2>4. f = [i \in 0 .. l |-> f[i]]
    BY <2>2
  <2> QED BY <1>0, <2>2, <2>3, <2>4, RouteToIsAt, Zenon DEF RouteToAt, l, b
<1> DEFINE r == CHOOSE g : RouteTo(s, tup, g)
<1>6. RouteTo(s, tup, r)
  BY <1>5, Zenon
<1>7. Route(s, tup) = r
  BY DEF Route, RouteTo, RouteStep, RouteFirst
<1> HIDE DEF r, step
<1>8. RouteToAt(s, tup, r)
  <2>1. (N - 1) \in Nat
    BY <1>0
  <2> QED BY <1>6, <2>1, RouteToIsAt, Zenon
<1>9. r[0] \in MergeResults
  BY <1>0, <1>8, Zenon DEF RouteToAt, b
<1>10. \A i \in 1 .. l : r[i] = RouteStep(s, tup, r[i - 1], i)
  BY <1>8 DEF RouteToAt
<1>11. \A i \in 1 .. l : r[i - 1] \in MergeResults => r[i] \in MergeResults
  BY <1>1, <1>10, Zenon
<1> HIDE DEF l
<1>12. \A i \in 0 .. l : r[i] \in MergeResults
  BY <1>0, <1>9, <1>11, AllIn
<1> QED
  BY <1>7, <1>8, <1>12 DEF l

(* One operator more of Flushed. *)
FlushResults    == [op : MergeOps, queue : Seq(DataTuples)]
FlushFirst      == [op |-> NewMerge, queue |-> <<>>]
FlushStep(x, i) == FlushMerge(x.queue, MergeAll(merge[i], x.queue, 0))

(* The equation of Flushed's recursion, for a function; and number by number. *)
FlushTo(f) ==
  f = [i \in 0 .. (N - 1) |-> IF i = 0 THEN FlushFirst ELSE FlushStep(f[i - 1], i)]

FlushToAt(f) ==
  /\ f = [i \in 0 .. (N - 1) |-> f[i]]
  /\ f[0] = FlushFirst
  /\ \A i \in 1 .. (N - 1) : f[i] = FlushStep(f[i - 1], i)

LEMMA FlushToIsAt ==
  ASSUME (N - 1) \in Nat, NEW f
  PROVE  FlushTo(f) <=> FlushToAt(f)
<1> DEFINE E(i) == IF i = 0 THEN FlushFirst ELSE FlushStep(f[i - 1], i)
           h == [i \in 0 .. (N - 1) |-> E(i)]
<1>1. FlushTo(f) <=> f = h
  BY DEF FlushTo
<1>2. \A i \in 0 .. (N - 1) : h[i] = E(i)
  <2> HIDE DEF E
  <2> QED OBVIOUS
<1>3. f = h <=> f = [i \in 0 .. (N - 1) |-> f[i]] /\ \A i \in 0 .. (N - 1) : f[i] = E(i)
  <2> HIDE DEF E
  <2> QED OBVIOUS
<1>4. E(0) = FlushFirst /\ \A i \in 1 .. (N - 1) : E(i) = FlushStep(f[i - 1], i)
  OBVIOUS
<1>5. \A i \in 0 .. (N - 1) : i = 0 \/ i \in 1 .. (N - 1)
  OBVIOUS
<1>6. 0 \in 0 .. (N - 1) /\ \A i \in 1 .. (N - 1) : i \in 0 .. (N - 1)
  OBVIOUS
<1> HIDE DEF E, h
<1> QED BY <1>1, <1>3, <1>4, <1>5, <1>6, Zenon DEF FlushToAt

LEMMA FlushedSolves ==
  ASSUME merge \in [Merges -> MergeOps]
  PROVE  FlushToAt(Flushed) /\ \A i \in 0 .. N - 1 : Flushed[i] \in FlushResults
<1> DEFINE l == (N - 1)
           b == FlushFirst
           step == [x \in (1 .. l) \X FlushResults |-> FlushStep(x[2], x[1])]
<1>0. l \in Nat /\ b \in FlushResults /\ l = N - 1
  <2>1. l \in Nat /\ <<>> \in Seq(DataTuples)
    BY Numbers
  <2> QED BY <2>1, NewMergeType DEF FlushResults, FlushFirst
<1>1. \A i \in 1 .. l : \A x \in FlushResults : FlushStep(x, i) \in FlushResults
  <2> SUFFICES ASSUME NEW i \in 1 .. l, NEW x \in FlushResults
               PROVE  FlushStep(x, i) \in FlushResults
    OBVIOUS
  <2> DEFINE a == MergeAll(merge[i], x.queue, 0)
             f == MergeFlush(a.op)
             q == x.queue \o (a.out \o f.out)
  <2>1. merge[i] \in MergeOps
    BY Numbers DEF Merges
  <2>2. x.queue \in Seq(DataTuples) /\ 0 \in Channels
    BY DEF FlushResults, Channels
  <2>3. FlushStep(x, i) = [op |-> f.op, queue |-> q]
    BY DEF FlushStep, FlushMerge, FlushInput
  <2>4. a.op \in MergeOps /\ a.out \in Seq(DataTuples)
    BY <2>1, <2>2, MergeAllType DEF MergeResults
  <2> HIDE DEF a
  <2>5. f.op \in MergeOps /\ f.out \in Seq(DataTuples)
    BY <2>4, MergeFlushType DEF MergeResults
  <2> HIDE DEF f
  <2>6. q \in Seq(DataTuples)
    BY <2>2, <2>4, <2>5
  <2> HIDE DEF q
  <2> QED BY <2>3, <2>5, <2>6 DEF FlushResults
<1> HIDE DEF b
<1>2. \A i \in 1 .. l : \A x \in FlushResults :
        step[<<i, x>>] = FlushStep(x, i) /\ step[<<i, x>>] \in FlushResults
  BY <1>1
<1>3. StaysIn(FlushResults, l, step)
  <2> HIDE DEF step
  <2> QED BY <1>2 DEF StaysIn
<1>4. PICK f : Solution(f, l, FlushResults, b, step)
  <2> HIDE DEF step
  <2> QED BY <1>0, <1>3, Recursion, Zenon
<1>5. FlushTo(f)
  <2>1. \A i \in 1 .. l : i - 1 \in 0 .. l
    BY <1>0
  <2> HIDE DEF step, l
  <2>2. f \in [0 .. l -> FlushResults] /\ f[0] = b /\ \A i \in 1 .. l : f[i] = step[<<i, f[i - 1]>>]
    BY <1>4 DEF Solution
  <2>3. \A i \in 1 .. l : f[i] = FlushStep(f[i - 1], i)
    BY <1>2, <2>1, <2>2
  <2>4. f = [i \in 0 .. l |-> f[i]]
    BY <2>2
  <2> QED BY <1>0, <2>2, <2>3, <2>4, FlushToIsAt, Zenon DEF FlushToAt, l, b
<1> DEFINE r == CHOOSE g : FlushTo(g)
<1>6. FlushTo(r)
  BY <1>5, Zenon
<1>7. Flushed = r
  BY DEF Flushed, FlushTo, FlushStep, FlushFirst
<1> HIDE DEF r, step
<1>8. FlushToAt(r)
  <2>1. (N - 1) \in Nat
    BY <1>0
  <2> QED BY <1>6, <2>1, FlushToIsAt, Zenon
<1>9. r[0] \in FlushResults
  BY <1>0, <1>8, Zenon DEF FlushToAt, b
<1>10. \A i \in 1 .. l : r[i] = FlushStep(r[i - 1], i)
  BY <1>8 DEF FlushToAt
<1>11. \A i \in 1 .. l : r[i - 1] \in FlushResults => r[i] \in FlushResults
  BY <1>1, <1>10, Zenon
<1> HIDE DEF l
<1>12. \A i \in 0 .. l : r[i] \in FlushResults
  BY <1>0, <1>9, <1>11, AllIn
<1> QED
  BY <1>7, <1>8, <1>12 DEF l

-----------------------------------------------------------------------------
(* Streams and their ends. *)

LEMMA EofType == Eof \in AnyTuples /\ IsEof(Eof) /\ DataTuples \subseteq AnyTuples
  BY DEF AnyTuples, IsEof, Eof

LEMMA DataNoEof ==
  ASSUME NEW q \in Seq(DataTuples)
  PROVE  NoEof(q) /\ q \in Seq(AnyTuples)
<1>1. \A i \in 1 .. Len(q) : q[i] \in DataTuples
  OBVIOUS
<1>2. \A i \in 1 .. Len(q) : ~IsEof(q[i])
  BY <1>1, DataGb DEF IsEof
<1> QED
  BY <1>2, EofType DEF NoEof

LEMMA ConcatNoEof ==
  ASSUME NEW p \in Seq(AnyTuples), NEW q \in Seq(AnyTuples), NoEof(p), NoEof(q)
  PROVE  p \o q \in Seq(AnyTuples) /\ NoEof(p \o q)
<1> DEFINE c == p \o q
<1>1. c \in Seq(AnyTuples) /\ Len(c) = Len(p) + Len(q)
  OBVIOUS
<1>2. \A i \in 1 .. Len(c) : c[i] = IF i <= Len(p) THEN p[i] ELSE q[i - Len(p)]
  OBVIOUS
<1>3. ASSUME NEW i \in 1 .. Len(c) PROVE ~IsEof(c[i])
  <2>1. CASE i <= Len(p)
    <3>1. i \in 1 .. Len(p) /\ c[i] = p[i]
      BY <1>1, <1>2, <2>1
    <3> HIDE DEF c
    <3> QED BY <3>1 DEF NoEof
  <2>2. CASE ~(i <= Len(p))
    <3>1. i - Len(p) \in 1 .. Len(q) /\ c[i] = q[i - Len(p)]
      BY <1>1, <1>2, <2>2
    <3> HIDE DEF c
    <3> QED BY <3>1 DEF NoEof
  <2> QED BY <2>1, <2>2
<1> HIDE DEF c
<1>4. NoEof(c)
  BY <1>3 DEF NoEof
<1> QED
  BY <1>1, <1>4 DEF c

LEMMA AppendEof ==
  ASSUME NEW p \in Seq(AnyTuples), NoEof(p)
  PROVE  Append(p, Eof) \in Seq(AnyTuples) /\ EndsOnce(Append(p, Eof))
<1> DEFINE c == Append(p, Eof)
<1>0. Eof \in AnyTuples /\ IsEof(Eof)
  BY EofType
<1>1. c \in Seq(AnyTuples) /\ Len(c) = Len(p) + 1 /\ c # <<>> /\ c[Len(c)] = Eof
  BY <1>0
<1>2. \A i \in 1 .. Len(p) : c[i] = p[i]
  OBVIOUS
<1>3. Len(p) \in Nat /\ \A i \in 1 .. Len(c) : i # Len(c) => i \in 1 .. Len(p)
  BY <1>1
<1> HIDE DEF c
<1>4. \A i \in 1 .. Len(c) : IsEof(c[i]) => i = Len(c)
  BY <1>2, <1>3 DEF NoEof
<1>5. EndsOnce(c)
  BY <1>0, <1>1, <1>4 DEF EndsOnce
<1> QED
  BY <1>1, <1>5 DEF c

(* What is left after the first tuple. *)
LEMMA TailEnds ==
  ASSUME NEW q \in Seq(AnyTuples), q # <<>>
  PROVE  /\ Tail(q) \in Seq(AnyTuples) /\ Head(q) \in AnyTuples
         /\ NoEof(q) => NoEof(Tail(q)) /\ ~IsEof(Head(q))
         /\ EndsOnce(q) /\ ~IsEof(Head(q)) => EndsOnce(Tail(q))
         /\ EndsOnce(q) /\ IsEof(Head(q)) => Tail(q) = <<>>
<1> DEFINE c == Tail(q)
<1>1. /\ c \in Seq(AnyTuples) /\ Len(q) \in Nat /\ Len(c) = Len(q) - 1 /\ Head(q) = q[1]
      /\ Head(q) \in AnyTuples /\ Len(q) >= 1
  OBVIOUS
<1>2. \A i \in 1 .. Len(c) : i + 1 \in 1 .. Len(q) /\ c[i] = q[i + 1]
  OBVIOUS
<1> HIDE DEF c
<1>3. Len(c) = 0 => c = <<>>
  BY <1>1, EmptySeq
<1>4. Len(c) # 0 => c # <<>>
  BY <1>1, EmptySeq
<1>5. ASSUME NoEof(q) PROVE NoEof(c) /\ ~IsEof(Head(q))
  <2>1. 1 \in 1 .. Len(q)
    BY <1>1
  <2> QED BY <1>1, <1>2, <1>5, <2>1 DEF NoEof
<1>6. ASSUME EndsOnce(q) PROVE /\ IsEof(q[Len(q)]) /\ Len(q) \in 1 .. Len(q) /\ 1 \in 1 .. Len(q)
                              /\ \A i \in 1 .. Len(q) : IsEof(q[i]) => i = Len(q)
  BY <1>1, <1>6 DEF EndsOnce
<1>7. ASSUME EndsOnce(q), ~IsEof(Head(q)) PROVE EndsOnce(c)
  <2>1. Len(q) # 1
    BY <1>1, <1>6, <1>7
  <2>2. Len(c) \in 1 .. Len(c) /\ Len(c) + 1 = Len(q)
    BY <1>1, <2>1
  <2>3. IsEof(c[Len(c)])
    BY <1>2, <1>6, <1>7, <2>2
  <2>4. ASSUME NEW i \in 1 .. Len(c), IsEof(c[i]) PROVE i = Len(c)
    <3>1. i + 1 \in 1 .. Len(q) /\ IsEof(q[i + 1])
      BY <1>2, <2>4
    <3>2. i + 1 = Len(q)
      BY <1>6, <1>7, <3>1
    <3> QED BY <1>1, <3>2
  <2>5. c # <<>>
    BY <1>1, <1>4, <2>1
  <2> QED BY <2>3, <2>4, <2>5 DEF EndsOnce
<1>8. ASSUME EndsOnce(q), IsEof(Head(q)) PROVE c = <<>>
  <2>1. Len(q) = 1
    BY <1>1, <1>6, <1>8
  <2> QED BY <1>1, <1>3, <2>1
<1> QED
  BY <1>1, <1>5, <1>7, <1>8 DEF c

-----------------------------------------------------------------------------
(* The invariant. *)

LEMMA SourcesSize == IsFiniteSet(Sources) /\ Cardinality(Sources) = N /\ Sources # {} /\ 1 \in Sources
<1>1. 1 \in Int /\ N \in Int /\ N >= 2
  BY Numbers
<1>2. IsFiniteSet(1 .. N) /\ Cardinality(1 .. N) = N
  BY <1>1, FS_Interval
<1> QED
  BY <1>1, <1>2 DEF Sources

LEMMA EndInit == Init => EndInv
<1> SUFFICES ASSUME Init PROVE EndInv
  OBVIOUS
<1>1. NewLfta \in Lftas
  <2>1. Empty \in Slots
    BY Numbers DEF Empty, Slots
  <2>2. [i \in Slot |-> Empty] \in [Slot -> Slots]
    BY <2>1
  <2>3. MaxAggrs \in 0 .. MaxAggrs /\ 0 \in 0 .. SlowFlush - 1 /\ 0 \in Gbs
    BY Numbers
  <2> DEFINE table == [i \in Slot |-> Empty]
  <2>4. NewLfta = [slot |-> table, n_aggrs |-> 0, generation |-> 0,
                   flush_pos |-> MaxAggrs, flush_ctr |-> 0,
                   last_gb |-> 0, flush_start_gb |-> 0, last_flushed_gb |-> 0, last_time |-> 0]
    BY DEF NewLfta
  <2> HIDE DEF table
  <2> QED BY <2>2, <2>3, <2>4 DEF Lftas, table
<1>2. lfta \in [Sources -> Lftas]
  <2> HIDE DEF NewLfta
  <2> QED BY <1>1 DEF Init
<1>3. chan \in [Sources -> Seq(AnyTuples)]
  BY DEF Init
<1>4. merge \in [Merges -> MergeOps]
  <2> HIDE DEF NewMerge
  <2> QED BY NewMergeType DEF Init
<1>5. groupby \in GroupBys /\ IsFiniteSet(groupby.table)
  <2>1. groupby = NewGroupBy
    BY DEF Init
  <2> QED BY <2>1, NewGroupByType, GroupByFields
<1>6. out \in Seq(AnyTuples) /\ open \subseteq Sources /\ eofs \in Nat
  BY DEF Init
<1>7. NoEof(<<>>)
  BY DEF NoEof
<1>8. ChannelEnds
  BY <1>7 DEF ChannelEnds, Init
<1>9. EndsCounted
  <2>1. Read = {}
    BY DEF Read, Init
  <2>2. Cardinality({}) = 0
    BY FS_EmptySet
  <2> QED BY <1>7, <2>1, <2>2, SourcesSize DEF EndsCounted, Init
<1> QED
  BY <1>2, <1>3, <1>4, <1>5, <1>6, <1>8, <1>9 DEF EndInv, OperatorsOK

(* An LFTA that is not at its end posts tuples that do not end its stream. *)
LEMMA EndLfta ==
  ASSUME EndInv, NEW s \in open, NEW r \in LftaResults, Lfta(s, r), UNCHANGED open
  PROVE  EndInv'
<1>1. r.t \in Lftas /\ r.out \in Seq(DataTuples)
  BY DEF LftaResults
<1>2. s \in Sources /\ open \subseteq Sources
  BY DEF EndInv, OperatorsOK
<1>3. chan \in [Sources -> Seq(AnyTuples)] /\ chan[s] \in Seq(AnyTuples) /\ NoEof(chan[s])
  BY <1>2 DEF EndInv, OperatorsOK, ChannelEnds
<1> DEFINE q == chan[s] \o r.out
<1>4. q \in Seq(AnyTuples) /\ NoEof(q)
  BY <1>1, <1>3, DataNoEof, ConcatNoEof
<1>5. chan' = [chan EXCEPT ![s] = q]
  BY DEF Lfta
<1> HIDE DEF q
<1>6. chan' \in [Sources -> Seq(AnyTuples)] /\ chan'[s] = q /\ \A u \in Sources \ {s} : chan'[u] = chan[u]
  BY <1>2, <1>3, <1>4, <1>5
<1>7. OperatorsOK'
  <2>1. lfta' \in [Sources -> Lftas]
    BY <1>1, <1>2 DEF Lfta, EndInv, OperatorsOK
  <2> QED BY <1>6, <2>1 DEF Lfta, hfta, EndInv, OperatorsOK
<1>8. ChannelEnds'
  <2> SUFFICES ASSUME NEW u \in Sources
               PROVE  /\ u \in open => NoEof(chan'[u])
                      /\ u \notin open => chan'[u] = <<>> \/ EndsOnce(chan'[u])
    BY DEF ChannelEnds
  <2>1. CASE u = s
    BY <1>4, <1>6, <2>1
  <2>2. CASE u # s
    <3>1. chan'[u] = chan[u]
      BY <1>6, <2>2
    <3> QED BY <3>1 DEF EndInv, ChannelEnds
  <2> QED BY <2>1, <2>2
<1>9. Read' = Read
  BY <1>6 DEF Read
<1>10. EndsCounted'
  <2>1. out' = out /\ eofs' = eofs
    BY DEF Lfta, hfta
  <2> QED BY <1>9, <2>1 DEF EndInv, EndsCounted
<1> QED
  BY <1>7, <1>8, <1>10 DEF EndInv

(* The end of the file ends the stream. *)
LEMMA EndEndOfFile ==
  ASSUME EndInv, NEW s \in Sources, EndOfFile(s)
  PROVE  EndInv'
<1> DEFINE r == FileDone(lfta[s])
<1>1. s \in open /\ open' = open \ {s} /\ Lfta(s, r)
  BY DEF EndOfFile
<1>2. lfta[s] \in Lftas
  BY DEF EndInv, OperatorsOK
<1>3. r.t \in Lftas /\ \E d \in Seq(DataTuples) : r.out = Append(d, Eof)
  BY <1>2, FileDoneType
<1> HIDE DEF r
<1>4. PICK d \in Seq(DataTuples) : r.out = Append(d, Eof)
  BY <1>3
<1>5. chan \in [Sources -> Seq(AnyTuples)] /\ chan[s] \in Seq(AnyTuples) /\ NoEof(chan[s])
  BY <1>1 DEF EndInv, OperatorsOK, ChannelEnds
<1> DEFINE p == chan[s] \o d
           q == Append(p, Eof)
<1>6. p \in Seq(AnyTuples) /\ NoEof(p)
  BY <1>5, DataNoEof, ConcatNoEof
<1>7. chan[s] \o Append(d, Eof) = q
  <2>1. d \in Seq(AnyTuples) /\ Eof \in AnyTuples
    BY DataNoEof, EofType
  <2> HIDE DEF Eof
  <2> QED BY <1>5, <2>1
<1> HIDE DEF p
<1>8. q \in Seq(AnyTuples) /\ EndsOnce(q)
  BY <1>6, AppendEof
<1>9. chan' = [chan EXCEPT ![s] = q]
  BY <1>1, <1>4, <1>7 DEF Lfta
<1> HIDE DEF q
<1>10. chan' \in [Sources -> Seq(AnyTuples)] /\ chan'[s] = q /\ \A u \in Sources \ {s} : chan'[u] = chan[u]
  BY <1>5, <1>8, <1>9
<1>11. OperatorsOK'
  <2>1. lfta' \in [Sources -> Lftas]
    BY <1>1, <1>3 DEF Lfta, EndInv, OperatorsOK
  <2> QED BY <1>1, <1>10, <2>1 DEF Lfta, hfta, EndInv, OperatorsOK
<1>12. ChannelEnds'
  <2> SUFFICES ASSUME NEW u \in Sources
               PROVE  /\ u \in open' => NoEof(chan'[u])
                      /\ u \notin open' => chan'[u] = <<>> \/ EndsOnce(chan'[u])
    BY DEF ChannelEnds
  <2>1. CASE u = s
    BY <1>1, <1>8, <1>10, <2>1
  <2>2. CASE u # s
    <3>1. chan'[u] = chan[u] /\ (u \in open' <=> u \in open)
      BY <1>1, <1>10, <2>2
    <3> QED BY <3>1 DEF EndInv, ChannelEnds
  <2> QED BY <2>1, <2>2
<1>13. Read' = Read
  <2>1. chan'[s] # <<>>
    BY <1>8, <1>10 DEF EndsOnce
  <2> QED BY <1>1, <1>10, <2>1 DEF Read
<1>14. EndsCounted'
  <2>1. out' = out /\ eofs' = eofs
    BY <1>1 DEF Lfta, hfta
  <2> QED BY <1>13, <2>1 DEF EndInv, EndsCounted
<1> QED
  BY <1>11, <1>12, <1>14 DEF EndInv

(* What a channel's head says of the source, and what reading it leaves. *)
LEMMA EndRead ==
  ASSUME EndInv, NEW s \in Sources, chan[s] # <<>>, chan' = [chan EXCEPT ![s] = Tail(@)], UNCHANGED open
  PROVE  /\ chan' \in [Sources -> Seq(AnyTuples)] /\ Head(chan[s]) \in AnyTuples
         /\ ChannelEnds' /\ s \notin Read
         /\ ~IsEof(Head(chan[s])) => Read' = Read
         /\ IsEof(Head(chan[s])) => Read' = Read \cup {s}
<1> DEFINE q == Tail(chan[s])
           h == Head(chan[s])
<1>1. chan \in [Sources -> Seq(AnyTuples)] /\ chan[s] \in Seq(AnyTuples)
  BY DEF EndInv, OperatorsOK
<1>2. /\ q \in Seq(AnyTuples) /\ h \in AnyTuples
      /\ NoEof(chan[s]) => NoEof(q) /\ ~IsEof(h)
      /\ EndsOnce(chan[s]) /\ ~IsEof(h) => EndsOnce(q)
      /\ EndsOnce(chan[s]) /\ IsEof(h) => q = <<>>
  BY <1>1, TailEnds
<1>3. chan' = [chan EXCEPT ![s] = q]
  OBVIOUS
<1> HIDE DEF q, h
<1>4. chan' \in [Sources -> Seq(AnyTuples)] /\ chan'[s] = q /\ \A u \in Sources \ {s} : chan'[u] = chan[u]
  BY <1>1, <1>2, <1>3
<1>5. (s \in open => NoEof(chan[s])) /\ (s \notin open => EndsOnce(chan[s]))
  BY DEF EndInv, ChannelEnds
<1>6. ChannelEnds'
  <2> SUFFICES ASSUME NEW u \in Sources
               PROVE  /\ u \in open => NoEof(chan'[u])
                      /\ u \notin open => chan'[u] = <<>> \/ EndsOnce(chan'[u])
    BY DEF ChannelEnds
  <2>1. CASE u = s
    BY <1>2, <1>4, <1>5, <2>1, Zenon
  <2>2. CASE u # s
    <3>1. chan'[u] = chan[u]
      BY <1>4, <2>2
    <3> QED BY <3>1 DEF EndInv, ChannelEnds
  <2> QED BY <2>1, <2>2
<1>7. s \notin Read
  BY DEF Read
<1>8. \A u \in Sources \ {s} : u \in Read' <=> u \in Read
  BY <1>4 DEF Read
<1>9. s \in Read' <=> s \notin open /\ q = <<>>
  BY <1>4 DEF Read
<1>10. Read \subseteq Sources /\ Read' \subseteq Sources
  BY DEF Read, Sources
<1>11. ASSUME ~IsEof(h) PROVE Read' = Read
  <2>1. s \notin Read'
    <3>1. EndsOnce(q) => q # <<>>
      BY DEF EndsOnce
    <3> QED BY <1>2, <1>5, <1>9, <1>11, <3>1
  <2>2. \A u \in Sources : u \in Read' <=> u \in Read
    BY <1>7, <1>8, <2>1
  <2> QED BY <1>10, <2>2
<1>12. ASSUME IsEof(h) PROVE Read' = Read \cup {s}
  <2>1. s \in Read'
    BY <1>2, <1>5, <1>9, <1>12
  <2> QED BY <1>8, <1>10, <2>1
<1> QED
  BY <1>2, <1>4, <1>6, <1>7, <1>11, <1>12 DEF h

(* A tuple of data adds data to the result. *)
LEMMA EndConsume ==
  ASSUME EndInv, NEW s \in Sources, Consume(s)
  PROVE  EndInv'
<1> DEFINE tup   == Head(chan[s])
           stage == Route(s, tup)
           final == GroupByAll(groupby, stage[N - 1].out)
           more  == Finalized(final.out, tup)
<1>1. /\ chan[s] # <<>> /\ tup.type # "EOF" /\ chan' = [chan EXCEPT ![s] = Tail(@)]
      /\ merge' = [i \in Merges |-> IF s <= i + 1 THEN stage[i].op ELSE merge[i]]
      /\ groupby' = final.op /\ out' = out \o more
      /\ UNCHANGED <<lfta, open, sent, clocks, eofs>>
  BY DEF Consume
<1>2. /\ chan' \in [Sources -> Seq(AnyTuples)] /\ tup \in AnyTuples
      /\ ChannelEnds' /\ s \notin Read /\ (~IsEof(tup) => Read' = Read)
  BY <1>1, EndRead
<1> HIDE DEF tup
<1>3. tup \in DataTuples /\ ~IsEof(tup)
  BY <1>1, <1>2 DEF AnyTuples, Eof, IsEof
<1>4. merge \in [Merges -> MergeOps] /\ groupby \in GroupBysOK
  BY DEF EndInv, OperatorsOK, GroupBysOK
<1>5. \A i \in 0 .. N - 1 : stage[i] \in MergeResults
  BY <1>3, <1>4, RouteSolves
<1> HIDE DEF stage
<1>6. \A i \in 0 .. N - 1 : stage[i].op \in MergeOps /\ stage[i].out \in Seq(DataTuples)
  BY <1>5 DEF MergeResults
<1>7. N - 1 \in 0 .. N - 1 /\ \A i \in Merges : i \in 0 .. N - 1
  BY Numbers DEF Merges
<1>8. merge' \in [Merges -> MergeOps]
  BY <1>1, <1>4, <1>6, <1>7
<1>9. final.op \in GroupBysOK /\ final.out \in Seq(DataTuples)
  BY <1>4, <1>6, <1>7, GroupByAllType DEF GroupByResults
<1> HIDE DEF final
<1>10. more \in Seq(DataTuples)
  BY <1>9, FinalizedType
<1> HIDE DEF more
<1>11. Read # Sources
  BY <1>2
<1>12. out' \in Seq(AnyTuples) /\ NoEof(out')
  <2>1. out \in Seq(AnyTuples) /\ NoEof(out)
    BY <1>11 DEF EndInv, OperatorsOK, EndsCounted
  <2>2. more \in Seq(AnyTuples) /\ NoEof(more)
    BY <1>10, DataNoEof
  <2> QED BY <1>1, <2>1, <2>2, ConcatNoEof
<1>13. OperatorsOK'
  <2>1. groupby' \in GroupBys /\ IsFiniteSet(groupby'.table)
    BY <1>1, <1>9, GroupByFields
  <2>2. lfta' = lfta /\ open' = open /\ eofs' = eofs
    BY <1>1
  <2> QED BY <1>2, <1>8, <1>12, <2>1, <2>2 DEF EndInv, OperatorsOK
<1>14. EndsCounted'
  <2>1. eofs' = eofs /\ Read' = Read
    BY <1>1, <1>2, <1>3
  <2> QED BY <1>11, <1>12, <2>1 DEF EndInv, EndsCounted
<1> QED
  BY <1>2, <1>13, <1>14 DEF EndInv

(* The end of a stream is counted; the last one ends the result. *)
LEMMA EndConsumeEof ==
  ASSUME EndInv, NEW s \in Sources, ConsumeEof(s)
  PROVE  EndInv'
<1> DEFINE last  == LastEof(eofs + 1)
           stage == Flushed
           taken == GroupByAll(groupby, stage[N - 1].queue)
           final == GroupByFlush(taken.op)
           more  == out \o taken.out \o final.out
<1>1. /\ chan[s] # <<>> /\ IsEof(Head(chan[s])) /\ chan' = [chan EXCEPT ![s] = Tail(@)]
      /\ eofs' = IF last THEN 0 ELSE eofs + 1
      /\ merge' = IF last THEN [i \in Merges |-> stage[i].op] ELSE merge
      /\ groupby' = IF last THEN final.op ELSE groupby
      /\ out' = IF last THEN Append(more, Eof) ELSE out
      /\ UNCHANGED <<lfta, open, sent, clocks>>
  BY DEF ConsumeEof, IsEof
<1>2. /\ chan' \in [Sources -> Seq(AnyTuples)]
      /\ ChannelEnds' /\ s \notin Read /\ Read' = Read \cup {s}
  BY <1>1, EndRead
<1>3. merge \in [Merges -> MergeOps] /\ groupby \in GroupBysOK
  BY DEF EndInv, OperatorsOK, GroupBysOK
<1>4. \A i \in 0 .. N - 1 : stage[i] \in FlushResults
  BY <1>3, FlushedSolves
<1> HIDE DEF stage
<1>5. \A i \in 0 .. N - 1 : stage[i].op \in MergeOps /\ stage[i].queue \in Seq(DataTuples)
  BY <1>4 DEF FlushResults
<1>6. N - 1 \in 0 .. N - 1 /\ \A i \in Merges : i \in 0 .. N - 1
  BY Numbers DEF Merges
<1>7. merge' \in [Merges -> MergeOps]
  <2>1. [i \in Merges |-> stage[i].op] \in [Merges -> MergeOps]
    BY <1>5, <1>6
  <2> HIDE DEF last
  <2> QED BY <1>1, <1>3, <2>1
<1>8. taken.op \in GroupBysOK /\ taken.out \in Seq(DataTuples)
  BY <1>3, <1>5, <1>6, GroupByAllType DEF GroupByResults
<1> HIDE DEF taken
<1>9. final.op \in GroupBysOK /\ final.out \in Seq(DataTuples)
  BY <1>8, GroupByFlushType DEF GroupByResults
<1> HIDE DEF final
<1>10. Read # Sources /\ out \in Seq(AnyTuples) /\ NoEof(out) /\ eofs = Cardinality(Read)
  BY <1>2 DEF EndInv, OperatorsOK, EndsCounted
<1>11. more \in Seq(AnyTuples) /\ NoEof(more)
  <2>1. taken.out \in Seq(AnyTuples) /\ NoEof(taken.out) /\ final.out \in Seq(AnyTuples) /\ NoEof(final.out)
    BY <1>8, <1>9, DataNoEof
  <2>2. out \o taken.out \in Seq(AnyTuples) /\ NoEof(out \o taken.out)
    BY <1>10, <2>1, ConcatNoEof
  <2> QED BY <2>1, <2>2, ConcatNoEof
<1> HIDE DEF more
<1>12. Append(more, Eof) \in Seq(AnyTuples) /\ EndsOnce(Append(more, Eof))
  BY <1>11, AppendEof
<1>13. IsFiniteSet(Read) /\ Read' \subseteq Sources /\ Cardinality(Read') = Cardinality(Read) + 1
  <2>1. Read \subseteq Sources
    BY DEF Read
  <2>2. IsFiniteSet(Read)
    BY <2>1, SourcesSize, FS_Subset
  <2>3. Cardinality(Read \cup {s}) = Cardinality(Read) + 1
    BY <1>2, <2>2, FS_AddElement
  <2> QED BY <1>2, <2>1, <2>2, <2>3
<1>14. last <=> Read' = Sources
  <2>1. last <=> Cardinality(Read') = N
    BY <1>10, <1>13 DEF LastEof
  <2>2. Cardinality(Read') = Cardinality(Sources) => Sources = Read'
    BY <1>13, SourcesSize, FS_Subset
  <2> HIDE DEF last
  <2> QED BY <2>1, <2>2, SourcesSize
<1>15. EndsCounted'
  <2>1. CASE last
    <3>1. EndsOnce(out')
      BY <1>1, <1>12, <2>1
    <3> QED BY <1>14, <2>1, <3>1 DEF EndsCounted
  <2>2. CASE ~last
    <3>1. eofs' = Cardinality(Read') /\ out' = out
      BY <1>1, <1>10, <1>13, <2>2
    <3> QED BY <1>10, <1>14, <2>2, <3>1 DEF EndsCounted
  <2> QED BY <2>1, <2>2
<1>16. OperatorsOK'
  <2> HIDE DEF last
  <2>1. groupby' \in GroupBysOK
    BY <1>1, <1>3, <1>9
  <2>2. groupby' \in GroupBys /\ IsFiniteSet(groupby'.table)
    BY <2>1, GroupByFields
  <2>3. out' \in Seq(AnyTuples)
    BY <1>1, <1>10, <1>12
  <2>4. eofs' \in Nat
    BY <1>1 DEF EndInv, OperatorsOK
  <2>5. lfta' = lfta /\ open' = open
    BY <1>1
  <2> QED BY <1>2, <1>7, <2>2, <2>3, <2>4, <2>5 DEF EndInv, OperatorsOK
<1> QED
  BY <1>2, <1>15, <1>16 DEF EndInv

LEMMA EndNext == EndInv /\ [Next]_vars => EndInv'
<1> SUFFICES ASSUME EndInv, [Next]_vars PROVE EndInv'
  OBVIOUS
<1>0. \A s \in Sources : lfta[s] \in Lftas
  BY DEF EndInv, OperatorsOK
<1>1. ASSUME NEW s \in Sources, NEW e \in Epochs, NEW g \in Groups, Packet(s, e, g) PROVE EndInv'
  <2>1. Accept(lfta[s], e, g) \in LftaResults
    BY <1>0, Numbers, AcceptType
  <2>2. s \in open /\ Lfta(s, Accept(lfta[s], e, g)) /\ UNCHANGED open
    BY <1>1 DEF Packet
  <2> QED BY <2>1, <2>2, EndLfta
<1>2. ASSUME NEW s \in Sources, NEW e \in Epochs, Rejected(s, e) PROVE EndInv'
  <2>1. Prelim(lfta[s], e) \in LftaResults
    BY <1>0, Numbers, PrelimType
  <2>2. s \in open /\ Lfta(s, Prelim(lfta[s], e)) /\ UNCHANGED open
    BY <1>2 DEF Rejected
  <2> QED BY <2>1, <2>2, EndLfta
<1>3. ASSUME NEW s \in Sources, NEW e \in Epochs, ClockSignal(s, e) PROVE EndInv'
  <2>1. Clock(lfta[s], e) \in LftaResults
    BY <1>0, Numbers, ClockType
  <2>2. s \in open /\ Lfta(s, Clock(lfta[s], e)) /\ UNCHANGED open
    BY <1>3 DEF ClockSignal
  <2> QED BY <2>1, <2>2, EndLfta
<1>4. CASE UNCHANGED vars
  BY <1>4 DEF vars, EndInv, OperatorsOK, ChannelEnds, EndsCounted, Read
<1> QED
  BY <1>1, <1>2, <1>3, <1>4, EndEndOfFile, EndConsume, EndConsumeEof DEF Next, Hfta

(* The end of every source's stream is counted and passed on when it is the last: EndInv *)
(* is an invariant of the LFTAs and the HFTA, whatever they aggregate, merge and flush. *)
THEOREM EndInvariant == Spec => []EndInv
<1> QED
  BY EndInit, EndNext, PTL DEF Spec

(* accept_packet of the HFTA reports the end of the result when all sources have come to *)
(* theirs, once and after every result, for any number of sources. *)
THEOREM QueryEndIsReported == Spec => []EndIsReported
<1>1. EndInv => EndIsReported
  <2> SUFFICES ASSUME EndInv PROVE EndIsReported
    OBVIOUS
  <2>1. ASSUME open = {}, \A s \in Sources : chan[s] = <<>> PROVE Ended
    <3>1. Read = Sources
      BY <2>1 DEF Read
    <3> QED BY <3>1 DEF EndInv, EndsCounted, EndsOnce, Ended, IsEof
  <2>2. \A i \in 1 .. Len(out) : out[i].type = "EOF" => i = Len(out)
    <3>1. NoEof(out) \/ EndsOnce(out)
      BY DEF EndInv, EndsCounted
    <3> QED BY <3>1 DEF NoEof, EndsOnce, IsEof
  <2> QED BY <2>1, <2>2 DEF EndIsReported
<1> QED
  BY <1>1, EndInvariant, PTL
=============================================================================
