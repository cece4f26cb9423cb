---------------------------- MODULE JoinQueryProofs ---------------------------
(***************************************************************************)
(* JoinInv is an invariant of JoinQuery: whatever the interleaving of the  *)
(* two streams and the timestamps of their tuples, the join puts out what  *)
(* SQL defines unless a queued tuple was left behind.                      *)
(***************************************************************************)
EXTENDS JoinQueryInv, TLAPS, SequenceTheorems, FiniteSetTheorems

-----------------------------------------------------------------------------
(* Sets as sequences, and what a list of tuples puts out. *)

(* A finite set as a sequence: each member once. *)
LEMMA SetToSeqIs ==
  ASSUME NEW S, IsFiniteSet(S)
  PROVE  /\ SetToSeq(S) \in Seq(S)
         /\ \A i, k \in 1 .. Len(SetToSeq(S)) : SetToSeq(S)[i] = SetToSeq(S)[k] => i = k
         /\ \A x : x \in S <=> \E i \in 1 .. Len(SetToSeq(S)) : SetToSeq(S)[i] = x
<1> DEFINE n == Cardinality(S)
           f == SetToSeq(S)
<1>1. n \in Nat /\ ExistsBijection(1 .. n, S)
  BY FS_CardinalityType
<1>2. \E g \in [1 .. n -> S] : IsInjective(g)
  BY <1>1 DEF ExistsBijection, Bijection, Injection
<1>3. f \in [1 .. n -> S] /\ IsInjective(f)
  BY <1>2 DEF SetToSeq
<1> HIDE DEF f
<1>4. f \in Injection(1 .. n, S)
  BY <1>3 DEF Injection
<1>5. Cardinality(1 .. n) = n
  <2>1. IsFiniteSet(1 .. n) /\ Cardinality(1 .. n) = IF 1 > n THEN 0 ELSE n - 1 + 1
    BY <1>1, FS_Interval
  <2> QED BY <2>1, <1>1
<1>6. f \in Surjection(1 .. n, S)
  BY <1>4, <1>5, FS_Injection
<1>7. f \in Seq(S) /\ Len(f) = n /\ DOMAIN f = 1 .. n
  BY <1>1, <1>3
<1> HIDE DEF n
<1>8. \A i, k \in 1 .. Len(f) : f[i] = f[k] => i = k
  BY <1>3, <1>7 DEF IsInjective
<1>9. \A x : x \in S <=> \E i \in 1 .. Len(f) : f[i] = x
  BY <1>3, <1>6, <1>7 DEF Surjection
<1> QED
  BY <1>7, <1>8, <1>9 DEF f

(* A set of results of one timestamp as a list. *)
LEMMA PutsSet ==
  ASSUME NEW S, IsFiniteSet(S), S \subseteq Outputs, NEW ts,
         \A x \in S : x.type = "REGULAR" /\ x.ts = ts
  PROVE  /\ SetToSeq(S) \in Seq(Outputs)
         /\ \A x : Puts(SetToSeq(S), x) <=> x \in S
         /\ InOrder(SetToSeq(S))
<1> DEFINE f == SetToSeq(S)
<1>1. /\ f \in Seq(S)
      /\ \A i, k \in 1 .. Len(f) : f[i] = f[k] => i = k
      /\ \A x : x \in S <=> \E i \in 1 .. Len(f) : f[i] = x
  BY SetToSeqIs
<1> HIDE DEF f
<1>2. f \in Seq(Outputs)
  BY <1>1, SeqMonotonic
<1>3. \A i \in 1 .. Len(f) : f[i] \in S /\ f[i].type = "REGULAR" /\ f[i].ts = ts /\ f[i].ts \in Nat
  BY <1>1, ElementOfSeq DEF Outputs
<1>4. \A x : Puts(f, x) <=> x \in S
  BY <1>1, <1>3 DEF Puts
<1>5. InOrder(f)
  <2> SUFFICES ASSUME NEW i \in 1 .. Len(f), NEW k \in 1 .. Len(f), i < k
               PROVE  f[i] # f[k] /\ f[i].ts <= f[k].ts
    BY DEF InOrder
  <2>1. Len(f) \in Nat
    BY <1>2, LenProperties
  <2>2. i # k
    BY <2>1
  <2>3. f[i] # f[k]
    BY <1>1, <2>2, Zenon
  <2> QED BY <2>3, <1>3
<1> QED
  BY <1>2, <1>4, <1>5 DEF f

(* Putting out one list after another. *)
LEMMA PutsBoth ==
  ASSUME NEW s \in Seq(Outputs), NEW t \in Seq(Outputs)
  PROVE  /\ s \o t \in Seq(Outputs)
         /\ \A x : Puts(s \o t, x) <=> Puts(s, x) \/ Puts(t, x)
         /\ InOrder(s) /\ InOrder(t)
            /\ (\A x, y \in Outputs : Puts(s, x) /\ Puts(t, y) => x # y /\ x.ts <= y.ts)
              => InOrder(s \o t)
<1>1. /\ s \o t \in Seq(Outputs)
      /\ Len(s \o t) = Len(s) + Len(t)
      /\ \A i \in 1 .. Len(s) + Len(t) : (s \o t)[i] = IF i <= Len(s) THEN s[i] ELSE t[i - Len(s)]
  BY ConcatProperties
<1>2. Len(s) \in Nat /\ Len(t) \in Nat
  BY LenProperties
<1> DEFINE u == s \o t
<1> HIDE DEF u
<1>3. /\ \A i \in 1 .. Len(s) : i \in 1 .. Len(u) /\ u[i] = s[i]
      /\ \A i \in 1 .. Len(t) : Len(s) + i \in 1 .. Len(u) /\ u[Len(s) + i] = t[i]
      /\ \A i \in 1 .. Len(u) : \/ i \in 1 .. Len(s) /\ u[i] = s[i]
                                \/ i - Len(s) \in 1 .. Len(t) /\ u[i] = t[i - Len(s)] /\ i > Len(s)
  BY <1>1, <1>2 DEF u
<1>4. \A x : Puts(u, x) <=> Puts(s, x) \/ Puts(t, x)
  <2>1. ASSUME NEW x, Puts(u, x) PROVE Puts(s, x) \/ Puts(t, x)
    BY <2>1, <1>3 DEF Puts
  <2>2. ASSUME NEW x, Puts(s, x) PROVE Puts(u, x)
    BY <2>2, <1>3 DEF Puts
  <2>3. ASSUME NEW x, Puts(t, x) PROVE Puts(u, x)
    BY <2>3, <1>3 DEF Puts
  <2> QED BY <2>1, <2>2, <2>3
<1>5. ASSUME InOrder(s), InOrder(t),
             \A x, y \in Outputs : Puts(s, x) /\ Puts(t, y) => x # y /\ x.ts <= y.ts
      PROVE  InOrder(u)
  <2> SUFFICES ASSUME NEW i \in 1 .. Len(u), NEW k \in 1 .. Len(u), i < k,
                      u[i].type = "REGULAR", u[k].type = "REGULAR"
               PROVE  u[i] # u[k] /\ u[i].ts <= u[k].ts
    BY DEF InOrder
  <2>0. i \in Int /\ k \in Int
    BY <1>1, <1>2 DEF u
  <2>1. CASE i \in 1 .. Len(s) /\ k \in 1 .. Len(s) /\ u[i] = s[i] /\ u[k] = s[k]
    BY <2>1, <1>5 DEF InOrder
  <2>2. CASE i - Len(s) \in 1 .. Len(t) /\ k - Len(s) \in 1 .. Len(t) /\ u[i] = t[i - Len(s)] /\ u[k] = t[k - Len(s)]
    <3>1. i - Len(s) < k - Len(s)
      BY <2>0, <1>2
    <3> QED BY <2>2, <3>1, <1>5 DEF InOrder
  <2>3. CASE i \in 1 .. Len(s) /\ k - Len(s) \in 1 .. Len(t) /\ u[i] = s[i] /\ u[k] = t[k - Len(s)]
    <3>1. Puts(s, u[i]) /\ Puts(t, u[k])
      BY <2>3 DEF Puts
    <3>2. u[i] \in Outputs /\ u[k] \in Outputs
      BY <2>3, ElementOfSeq
    <3> QED BY <3>1, <3>2, <1>5
  <2> QED BY <1>3, <2>0, <2>1, <2>2, <2>3, <1>2
<1> QED
  BY <1>1, <1>4, <1>5 DEF u

(* Nothing, and a status tuple, put out nothing. *)
LEMMA PutsNothing ==
  /\ <<>> \in Seq(Outputs) /\ InOrder(<<>>) /\ \A x : ~Puts(<<>>, x)
  /\ \A ts \in Nat : /\ <<Status(ts)>> \in Seq(Outputs) /\ InOrder(<<Status(ts)>>)
                     /\ \A x : ~Puts(<<Status(ts)>>, x)
<1>1. <<>> \in Seq(Outputs) /\ InOrder(<<>>) /\ \A x : ~Puts(<<>>, x)
  BY EmptySeq DEF InOrder, Puts
<1>2. ASSUME NEW ts \in Nat
      PROVE  /\ <<Status(ts)>> \in Seq(Outputs) /\ InOrder(<<Status(ts)>>)
             /\ \A x : ~Puts(<<Status(ts)>>, x)
  <2> DEFINE a == Status(ts)
  <2>1. a \in Outputs /\ a.type # "REGULAR"
    BY DEF Status, Outputs
  <2> HIDE DEF a
  <2>2. <<a>> \in Seq(Outputs) /\ Len(<<a>>) = 1 /\ <<a>>[1] = a
    BY <2>1
  <2> QED BY <2>1, <2>2 DEF InOrder, Puts, a
<1> QED
  BY <1>1, <1>2
-----------------------------------------------------------------------------
(* Constants, tuples and operators. *)

(* The bounds, and the two sides. *)
LEMMA Constants ==
  MaxTs \in Nat /\ MaxTuples \in Nat /\ JoinTypes \subseteq Nat /\ Side = {0, 1}
  /\ \A c \in Side : 1 - c \in Side /\ 1 - (1 - c) = c /\ c # 1 - c
BY JoinAssumption DEF Side

(* The fields of a tuple. *)
LEMMA TupleFields ==
  ASSUME NEW t \in Tuples
  PROVE  /\ t.ch \in Side /\ t.ts \in 1 .. MaxTs /\ t.ts \in Nat /\ t.ts >= 1
         /\ t.id \in 1 .. MaxTuples /\ t.id \in Nat /\ t.id >= 1
BY Constants DEF Tuples

(* The fields of an operator. *)
LEMMA JoinFields ==
  ASSUME NEW j \in Joins
  PROVE  /\ j.type \in JoinTypes /\ j.queue \in [Side -> Seq(Tuples)] /\ j.max \in [Side -> 0 .. MaxTs]
         /\ j.saved \in [Side -> 0 .. MaxTs] /\ j.curr \in 0 .. MaxTs /\ j.curr \in Nat
         /\ j.table \in [Side -> SUBSET Tuples] /\ j.touched \in SUBSET (1 .. MaxTuples)
         /\ \A c \in Side : /\ j.max[c] \in Nat /\ j.saved[c] \in Nat /\ j.queue[c] \in Seq(Tuples)
                            /\ Len(j.queue[c]) \in Nat /\ j.table[c] \subseteq Tuples
                            /\ \A i \in 1 .. Len(j.queue[c]) : j.queue[c][i] \in Tuples
BY Constants, LenProperties, ElementOfSeq DEF Joins

(* The front of a queue. *)
LEMMA FrontOf ==
  ASSUME NEW j \in Joins, NEW c \in Side, j.queue[c] # <<>>
  PROVE  Len(j.queue[c]) >= 1 /\ Head(j.queue[c]) = j.queue[c][1] /\ Head(j.queue[c]) \in Tuples
<1>1. j.queue[c] \in Seq(Tuples)
  BY JoinFields
<1> QED
  BY <1>1, EmptySeq, HeadTailProperties

(* Which results belong to a pair of tuples or to an unmatched one. *)
LEMMA ResultFields ==
  ASSUME NEW t \in Tuples, NEW u \in Tuples, NEW c \in Side
  PROVE  /\ Pair(t, u) \in Outputs /\ Pair(t, u).type = "REGULAR" /\ Pair(t, u).ts = t.ts
         /\ Pair(t, u).left = t.id /\ Pair(t, u).right = u.id
         /\ Alone(c, t) \in Outputs /\ Alone(c, t).type = "REGULAR" /\ Alone(c, t).ts = t.ts
         /\ Alone(c, t).left = (IF c = 0 THEN t.id ELSE 0)
         /\ Alone(c, t).right = (IF c = 1 THEN t.id ELSE 0)
BY TupleFields, Constants DEF Pair, Alone, Outputs

-----------------------------------------------------------------------------
(* The tuples that JoinSide takes. *)

RunSet(j, c)  == {n \in 0 .. Len(j.queue[c]) : \A i \in 1 .. n : j.queue[c][i].ts = j.curr}
Run(j, c)     == CHOOSE k \in RunSet(j, c) : \A m \in RunSet(j, c) : m <= k
Taken(j, c)   == {j.queue[c][i] : i \in 1 .. Run(j, c)}
Matches(j, c) == {p \in Taken(j, c) \X j.table[1 - c] : SameKey(p[1], p[2])}

(* The order on the naturals in the form the next lemma uses. *)
LEMMA NatOrder == IsWellFoundedOn({x \in Nat \X Nat : x[1] < x[2]}, Nat)
BY NatLessThanWellFounded DEF OpToRel

(* A nonempty set of naturals has a least element. *)
LEMMA LeastNat ==
  ASSUME NEW S, S \subseteq Nat, S # {}
  PROVE  \E x \in S : \A y \in S : x <= y
<1> DEFINE R == {x \in Nat \X Nat : x[1] < x[2]}
<1>1. PICK x \in S : \A y \in S : ~(<<y, x>> \in R)
  <2>1. IsWellFoundedOn(R, Nat)
    BY NatOrder
  <2> HIDE DEF R
  <2> QED
    BY <2>1, WFMin, Zenon
<1>2. \A y \in S : ~(y < x)
  BY <1>1
<1> QED
  BY <1>2

(* The run ends at a tuple of another timestamp, or with the queue. *)
LEMMA RunIs ==
  ASSUME NEW j \in Joins, NEW c \in Side
  PROVE  /\ Run(j, c) \in 0 .. Len(j.queue[c])
         /\ \A i \in 1 .. Run(j, c) : j.queue[c][i].ts = j.curr
         /\ Run(j, c) < Len(j.queue[c]) => j.queue[c][Run(j, c) + 1].ts # j.curr
<1> DEFINE q == j.queue[c]
           stop == {i \in 1 .. Len(q) : q[i].ts # j.curr}
<1>1. Len(q) \in Nat
  BY JoinFields
<1>2. \E k \in RunSet(j, c) : /\ \A m \in RunSet(j, c) : m <= k
                              /\ k < Len(q) => q[k + 1].ts # j.curr
  <2>1. CASE stop = {}
    <3>1. Len(q) \in RunSet(j, c) /\ \A m \in RunSet(j, c) : m <= Len(q)
      BY <2>1, <1>1 DEF RunSet
    <3> QED BY <3>1, <1>1
  <2>2. CASE stop # {}
    <3>1. stop \subseteq Nat
      BY <1>1
    <3>2. PICK s \in stop : \A i \in stop : s <= i
      <4> HIDE DEF stop
      <4> QED BY <2>2, <3>1, LeastNat
    <3>3. s \in 1 .. Len(q) /\ q[s].ts # j.curr
      BY <3>2
    <3>4. \A i \in 1 .. Len(q) : i < s => q[i].ts = j.curr
      BY <3>2, <3>3, <1>1
    <3> HIDE DEF stop
    <3>5. s - 1 \in RunSet(j, c) /\ \A m \in RunSet(j, c) : m <= s - 1
      BY <3>3, <3>4, <1>1 DEF RunSet
    <3>6. q[(s - 1) + 1].ts # j.curr
      BY <3>3, <1>1
    <3> QED BY <3>5, <3>6
  <2> QED BY <2>1, <2>2
<1>3. Run(j, c) \in RunSet(j, c) /\ \A m \in RunSet(j, c) : m <= Run(j, c)
  BY <1>2 DEF Run
<1>4. PICK k \in RunSet(j, c) : /\ \A m \in RunSet(j, c) : m <= k
                                /\ k < Len(q) => q[k + 1].ts # j.curr
  BY <1>2
<1>5. Run(j, c) = k
  <2>1. Run(j, c) <= k /\ k <= Run(j, c)
    BY <1>3, <1>4
  <2>2. Run(j, c) \in Int /\ k \in Int
    BY <1>3, <1>4, <1>1 DEF RunSet
  <2> QED BY <2>1, <2>2
<1> QED
  BY <1>3, <1>4, <1>5 DEF RunSet
(* Fields of the right types make an operator. *)
LEMMA JoinRecord ==
  ASSUME NEW j \in Joins, NEW q \in [Side -> Seq(Tuples)], NEW m \in [Side -> 0 .. MaxTs],
         NEW s \in [Side -> 0 .. MaxTs], NEW r \in 0 .. MaxTs, NEW t \in [Side -> SUBSET Tuples],
         NEW h \in SUBSET (1 .. MaxTuples)
  PROVE  [j EXCEPT !.queue = q, !.table = t, !.touched = h] \in Joins
         /\ [j EXCEPT !.table = t, !.touched = h] \in Joins
         /\ [j EXCEPT !.max = m] \in Joins /\ [j EXCEPT !.curr = r] \in Joins
         /\ [j EXCEPT !.max = m, !.saved = s, !.queue = q] \in Joins
<1>1. [j EXCEPT !.queue = q, !.table = t, !.touched = h] \in Joins
  BY DEF Joins
<1>2. [j EXCEPT !.table = t, !.touched = h] \in Joins
  BY DEF Joins
<1>3. [j EXCEPT !.max = m] \in Joins /\ [j EXCEPT !.curr = r] \in Joins
  BY DEF Joins
<1>4. [j EXCEPT !.max = m, !.saved = s, !.queue = q] \in Joins
  BY DEF Joins
<1> QED BY <1>1, <1>2, <1>3, <1>4
(* What JoinSide returns, field by field. *)
LEMMA JoinSideFields ==
  ASSUME NEW j \in Joins, NEW c \in Side
  PROVE  LET k == JoinSide(j, c).op IN
         /\ k.type = j.type /\ k.max = j.max /\ k.saved = j.saved /\ k.curr = j.curr
         /\ k.queue = [j.queue EXCEPT ![c] = SubSeq(j.queue[c], Run(j, c) + 1, Len(j.queue[c]))]
         /\ k.table = [j.table EXCEPT ![c] = j.table[c] \cup Taken(j, c)]
         /\ k.touched = j.touched \cup {p[1].id : p \in Matches(j, c)} \cup {p[2].id : p \in Matches(j, c)}
         /\ k = [j EXCEPT !.queue = k.queue, !.table = k.table, !.touched = k.touched]
         /\ JoinSide(j, c).out =
              SetToSeq({IF c = 0 THEN Pair(p[1], p[2]) ELSE Pair(p[2], p[1]) : p \in Matches(j, c)})
<1> DEFINE n == Run(j, c)
           T == Taken(j, c)
           M == Matches(j, c)
           Q == [j.queue EXCEPT ![c] = SubSeq(j.queue[c], n + 1, Len(j.queue[c]))]
           U == [j.table EXCEPT ![c] = j.table[c] \cup T]
           H == j.touched \cup {p[1].id : p \in M} \cup {p[2].id : p \in M}
           K == [j EXCEPT !.queue = Q, !.table = U, !.touched = H]
           O == SetToSeq({IF c = 0 THEN Pair(p[1], p[2]) ELSE Pair(p[2], p[1]) : p \in M})
<1>1. JoinSide(j, c) = Step([j EXCEPT !.queue[c] = SubSeq(@, n + 1, Len(@)), !.table[c] = @ \cup T,
                          !.touched = @ \cup {p[1].id : p \in M} \cup {p[2].id : p \in M}], O)
  BY DEF JoinSide, Run, RunSet, Taken, Matches
<1>2. [j EXCEPT !.queue[c] = SubSeq(@, n + 1, Len(@)), !.table[c] = @ \cup T,
                          !.touched = @ \cup {p[1].id : p \in M} \cup {p[2].id : p \in M}] = K
  <2>1. /\ [j EXCEPT !.queue = Q].table = j.table
        /\ [[j EXCEPT !.queue = Q] EXCEPT !.table = U].touched = j.touched
    <3> HIDE DEF Q, U
    <3> QED BY DEF Joins
  <2> QED BY <2>1, Zenon
<1>3. JoinSide(j, c).op = K /\ JoinSide(j, c).out = O
  BY <1>1, <1>2 DEF Step
<1>4. /\ K.type = j.type /\ K.max = j.max /\ K.saved = j.saved /\ K.curr = j.curr
      /\ K.queue = Q /\ K.table = U /\ K.touched = H
  <2> HIDE DEF Q, U, H
  <2> QED BY DEF Joins
<1> HIDE DEF K, O, Q, U, H
<1>5. K = [j EXCEPT !.queue = K.queue, !.table = K.table, !.touched = K.touched]
  BY <1>4 DEF K
<1> QED
  BY <1>3, <1>4, <1>5 DEF O, Q, U, H, n, T, M
(* The queues and tables after JoinSide. *)
LEMMA JoinSideParts ==
  ASSUME NEW j \in Joins, NEW c \in Side
  PROVE  LET k == JoinSide(j, c).op
             n == Run(j, c)
         IN  /\ k \in Joins
             /\ k.queue[1 - c] = j.queue[1 - c] /\ k.table[1 - c] = j.table[1 - c]
             /\ k.table[c] = j.table[c] \cup Taken(j, c)
             /\ Len(k.queue[c]) = Len(j.queue[c]) - n
             /\ \A i \in 1 .. Len(k.queue[c]) : k.queue[c][i] = j.queue[c][n + i] /\ n + i \in 1 .. Len(j.queue[c])
             /\ \A i \in 1 .. Len(j.queue[c]) : i > n => i - n \in 1 .. Len(k.queue[c]) /\ k.queue[c][i - n] = j.queue[c][i]
<1> DEFINE k == JoinSide(j, c).op
           n == Run(j, c)
           q == j.queue[c]
           s == SubSeq(q, n + 1, Len(q))
<1>1. /\ k.queue = [j.queue EXCEPT ![c] = s] /\ k.table = [j.table EXCEPT ![c] = j.table[c] \cup Taken(j, c)]
      /\ k.touched = j.touched \cup {p[1].id : p \in Matches(j, c)} \cup {p[2].id : p \in Matches(j, c)}
      /\ k = [j EXCEPT !.queue = k.queue, !.table = k.table, !.touched = k.touched]
  BY JoinSideFields
<1>2. n \in 0 .. Len(q) /\ Len(q) \in Nat /\ q \in Seq(Tuples) /\ j.queue \in [Side -> Seq(Tuples)]
      /\ j.table \in [Side -> SUBSET Tuples] /\ j.touched \in SUBSET (1 .. MaxTuples)
      /\ 1 - c \in Side /\ c # 1 - c
  BY RunIs, JoinFields, Constants
<1>3. Taken(j, c) \subseteq Tuples
  <2>1. \A i \in 1 .. n : q[i] \in Tuples
    BY <1>2, ElementOfSeq
  <2> QED BY <2>1 DEF Taken
<1> HIDE DEF k, n, q
<1>4. n + 1 \in Int /\ Len(q) \in Int /\ \A i \in n + 1 .. Len(q) : q[i] \in Tuples
  BY <1>2, ElementOfSeq
<1>5. s \in Seq(Tuples) /\ Len(s) = (IF n + 1 <= Len(q) THEN Len(q) - (n + 1) + 1 ELSE 0)
      /\ \A i \in 1 .. Len(q) - (n + 1) + 1 : s[i] = q[(n + 1) + i - 1]
  BY <1>4, SubSeqProperties
<1>6. Len(s) = Len(q) - n /\ \A i \in 1 .. Len(q) - n : s[i] = q[n + i]
  <2>1. Len(q) - (n + 1) + 1 = Len(q) - n /\ (~(n + 1 <= Len(q)) => Len(q) - n = 0)
    BY <1>2
  <2>2. \A i \in 1 .. Len(q) - n : (n + 1) + i - 1 = n + i
    BY <1>2
  <2> HIDE DEF s
  <2> QED BY <1>5, <2>1, <2>2
<1> HIDE DEF s
<1>7. k.queue[c] = s /\ k.queue[1 - c] = j.queue[1 - c]
  BY <1>1, <1>2
<1>8. k.table[c] = j.table[c] \cup Taken(j, c) /\ k.table[1 - c] = j.table[1 - c]
  BY <1>1, <1>2
<1>9. k \in Joins
  <2>1. k.queue \in [Side -> Seq(Tuples)]
    BY <1>1, <1>2, <1>5
  <2>2. k.table \in [Side -> SUBSET Tuples]
    BY <1>1, <1>2, <1>3
  <2>3. k.touched \in SUBSET (1 .. MaxTuples)
    <3>1. j.table[1 - c] \subseteq Tuples
      BY <1>2
    <3>2. \A p \in Matches(j, c) : p[1] \in Tuples /\ p[2] \in Tuples
      BY <1>3, <3>1 DEF Matches
    <3>3. \A p \in Matches(j, c) : p[1].id \in 1 .. MaxTuples /\ p[2].id \in 1 .. MaxTuples
      BY <3>2, TupleFields
    <3>4. {p[1].id : p \in Matches(j, c)} \subseteq 1 .. MaxTuples /\ {p[2].id : p \in Matches(j, c)} \subseteq 1 .. MaxTuples
      BY <3>3
    <3> QED BY <1>1, <1>2, <3>4, Zenon
  <2> DEFINE q2 == k.queue  t2 == k.table  h2 == k.touched
  <2>4. k = [j EXCEPT !.queue = q2, !.table = t2, !.touched = h2]
    BY <1>1
  <2> HIDE DEF q2, t2, h2
  <2>5. [j EXCEPT !.queue = q2, !.table = t2, !.touched = h2] \in Joins
    BY <2>1, <2>2, <2>3 DEF Joins, q2, t2, h2
  <2> QED BY <2>4, <2>5
<1>10. \A i \in 1 .. Len(s) : s[i] = q[n + i] /\ n + i \in 1 .. Len(q)
  BY <1>2, <1>6
<1>11. \A i \in 1 .. Len(q) : i > n => i - n \in 1 .. Len(s) /\ s[i - n] = q[i]
  <2>1. \A i \in 1 .. Len(q) : i > n => i - n \in 1 .. Len(q) - n /\ n + (i - n) = i
    BY <1>2
  <2> QED BY <2>1, <1>6
<1> QED
  BY <1>6, <1>7, <1>8, <1>9, <1>10, <1>11 DEF k, n, q

(* JoinSide keeps queues and tables in form. *)
LEMMA JoinSideFormed ==
  ASSUME NEW L, NEW j \in Joins, Formed(j, L), NEW c \in Side
  PROVE  Formed(JoinSide(j, c).op, L)
<1> DEFINE k == JoinSide(j, c).op
           n == Run(j, c)
<1>1. /\ k.queue[1 - c] = j.queue[1 - c] /\ k.table[1 - c] = j.table[1 - c]
      /\ k.table[c] = j.table[c] \cup Taken(j, c)
      /\ \A i \in 1 .. Len(k.queue[c]) : k.queue[c][i] = j.queue[c][n + i] /\ n + i \in 1 .. Len(j.queue[c])
  BY JoinSideParts
<1>2. k.max = j.max /\ k.curr = j.curr
  BY JoinSideFields
<1>3. n \in 0 .. Len(j.queue[c]) /\ Len(j.queue[c]) \in Nat /\ k \in Joins
  BY RunIs, JoinFields, JoinSideParts
<1>4. \A d \in Side : Len(k.queue[d]) \in Nat
  BY <1>3, JoinFields
<1>5. \A i \in 1 .. n : j.queue[c][i] \in L /\ j.queue[c][i].ch = c
  BY <1>3 DEF Formed
<1>6. \A t \in Taken(j, c) : t \in L /\ t.ch = c
  BY <1>5 DEF Taken
<1> HIDE DEF k, n
<1>7. \A d \in Side : d = c \/ d = 1 - c
  BY Constants
<1>8. \A t \in k.table[c] : t \in L /\ t.ch = c
  BY <1>1, <1>6 DEF Formed
<1>9. ASSUME NEW i \in 1 .. Len(k.queue[c])
      PROVE  /\ k.queue[c][i] \in L /\ k.queue[c][i].ch = c /\ k.queue[c][i].ts <= k.max[c]
             /\ \A m \in 1 .. Len(k.queue[c]) : i <= m => k.queue[c][i].ts <= k.queue[c][m].ts
  <2>1. \A m \in 1 .. Len(k.queue[c]) : i <= m => n + i <= n + m
    BY <1>3, <1>4
  <2>2. \A m, o \in 1 .. Len(j.queue[c]) :
          /\ j.queue[c][m] \in L /\ j.queue[c][m].ch = c /\ j.queue[c][m].ts <= j.max[c]
          /\ m <= o => j.queue[c][m].ts <= j.queue[c][o].ts
    BY DEF Formed
  <2> QED BY <1>1, <1>2, <2>1, <2>2
<1>10. /\ \A i \in 1 .. Len(k.queue[1 - c]) :
            /\ k.queue[1 - c][i] \in L /\ k.queue[1 - c][i].ch = 1 - c /\ k.queue[1 - c][i].ts <= k.max[1 - c]
            /\ \A m \in 1 .. Len(k.queue[1 - c]) : i <= m => k.queue[1 - c][i].ts <= k.queue[1 - c][m].ts
       /\ \A t \in k.table[1 - c] : t \in L /\ t.ch = 1 - c
  <2>1. 1 - c \in Side
    BY Constants
  <2> QED BY <2>1, <1>1, <1>2 DEF Formed
<1>11. k.curr = 0 <=> \E d \in Side : k.max[d] = 0
  BY <1>2 DEF Formed
<1>12. Formed(k, L)
  <2> SUFFICES ASSUME NEW d \in Side
               PROVE  /\ \A i \in 1 .. Len(k.queue[d]) :
                           /\ k.queue[d][i] \in L /\ k.queue[d][i].ch = d /\ k.queue[d][i].ts <= k.max[d]
                           /\ \A m \in 1 .. Len(k.queue[d]) : i <= m => k.queue[d][i].ts <= k.queue[d][m].ts
                      /\ \A t \in k.table[d] : t \in L /\ t.ch = d
    BY <1>11 DEF Formed
  <2>1. CASE d = c
    BY <2>1, <1>8, <1>9
  <2>2. CASE d = 1 - c
    BY <2>2, <1>10
  <2> QED BY <1>7, <2>1, <2>2
<1> QED
  BY <1>12 DEF k
(* The pairs that JoinSide finds. *)
Found(j, c) == {IF c = 0 THEN Pair(p[1], p[2]) ELSE Pair(p[2], p[1]) : p \in Matches(j, c)}

(* They are finitely many results of tuples that are taken with ones in the
   other table. *)
LEMMA FoundPairs ==
  ASSUME NEW L, Numbered(L), NEW j \in Joins, Formed(j, L), NEW c \in Side
  PROVE  /\ \A t \in Taken(j, c) : t \in L /\ t \in Tuples /\ t.ch = c /\ t.ts = j.curr
                                   /\ \E i \in 1 .. Run(j, c) : t = j.queue[c][i]
         /\ \A i \in 1 .. Run(j, c) : j.queue[c][i] \in Taken(j, c)
         /\ \A p : p \in Matches(j, c) <=> \E t \in Taken(j, c), u \in j.table[1 - c] : p = <<t, u>> /\ t.key = u.key
         /\ \A d \in Side : \A t \in j.table[d] : t \in L /\ t \in Tuples /\ t.ch = d
         /\ IsFiniteSet(Found(j, c)) /\ Found(j, c) \subseteq Outputs
         /\ \A x : x \in Found(j, c) <=>
              \E t \in Taken(j, c), u \in j.table[1 - c] :
                t.key = u.key /\ x = IF c = 0 THEN Pair(t, u) ELSE Pair(u, t)
<1> DEFINE T == Taken(j, c)
           U == j.table[1 - c]
           M == Matches(j, c)
           F == Found(j, c)
<1>1. \A t \in T : /\ t \in L /\ t \in Tuples /\ t.ch = c /\ t.ts = j.curr
                   /\ \E i \in 1 .. Run(j, c) : t = j.queue[c][i]
  <2>1. Run(j, c) \in 0 .. Len(j.queue[c]) /\ Len(j.queue[c]) \in Nat
        /\ \A i \in 1 .. Run(j, c) : j.queue[c][i].ts = j.curr
    BY RunIs, JoinFields
  <2>2. \A i \in 1 .. Run(j, c) : j.queue[c][i] \in L /\ j.queue[c][i].ch = c
    BY <2>1 DEF Formed
  <2> QED BY <2>1, <2>2 DEF Taken, Numbered
<1>2. \A d \in Side : \A t \in j.table[d] : t \in L /\ t \in Tuples /\ t.ch = d
  BY DEF Formed, Numbered
<1>3. \A i \in 1 .. Run(j, c) : j.queue[c][i] \in T
  BY DEF Taken
<1>4. \A p : p \in M <=> \E t \in T, u \in U : p = <<t, u>> /\ t.key = u.key
  BY DEF Matches, SameKey
<1>5. T \subseteq L /\ U \subseteq L
  BY <1>1, <1>2, Constants
<1>6. IsFiniteSet(M)
  <2>1. IsFiniteSet(L)
    BY DEF Numbered
  <2>2. IsFiniteSet(L \X L)
    BY <2>1, FS_Product
  <2>3. M \subseteq L \X L
    BY <1>5 DEF Matches
  <2> QED BY <2>2, <2>3, FS_Subset
<1>7. IsFiniteSet(F)
  <2> DEFINE f == [p \in M |-> IF c = 0 THEN Pair(p[1], p[2]) ELSE Pair(p[2], p[1])]
  <2>1. f \in Surjection(M, F)
    BY DEF Surjection, Found
  <2> HIDE DEF f
  <2> QED BY <2>1, <1>6, FS_Surjection
<1>8. \A x : x \in F <=> \E t \in T, u \in U : t.key = u.key /\ x = IF c = 0 THEN Pair(t, u) ELSE Pair(u, t)
  <2>1. \A p \in M : \E t \in T, u \in U : p[1] = t /\ p[2] = u /\ t.key = u.key
    BY DEF Matches, SameKey
  <2>2. \A t \in T, u \in U : t.key = u.key => \E p \in M : p[1] = t /\ p[2] = u
    <3> SUFFICES ASSUME NEW t \in T, NEW u \in U, t.key = u.key PROVE \E p \in M : p[1] = t /\ p[2] = u
      OBVIOUS
    <3>1. <<t, u>> \in M
      BY DEF Matches, SameKey
    <3> QED BY <3>1
  <2>3. \A x : x \in F <=> \E p \in M : x = IF c = 0 THEN Pair(p[1], p[2]) ELSE Pair(p[2], p[1])
    BY Zenon DEF Found
  <2> HIDE DEF M, T, U, F
  <2>4. ASSUME NEW x, x \in F
        PROVE  \E t \in T, u \in U : t.key = u.key /\ x = IF c = 0 THEN Pair(t, u) ELSE Pair(u, t)
    <3>1. PICK p \in M : x = IF c = 0 THEN Pair(p[1], p[2]) ELSE Pair(p[2], p[1])
      BY <2>3, <2>4
    <3>2. PICK t \in T, u \in U : p[1] = t /\ p[2] = u /\ t.key = u.key
      BY <2>1
    <3> QED BY <3>1, <3>2
  <2>5. ASSUME NEW x, NEW t \in T, NEW u \in U, t.key = u.key, x = IF c = 0 THEN Pair(t, u) ELSE Pair(u, t)
        PROVE  x \in F
    <3>1. PICK p \in M : p[1] = t /\ p[2] = u
      BY <2>2, <2>5
    <3> QED BY <3>1, <2>3, <2>5
  <2> QED BY <2>4, <2>5
<1>9. F \subseteq Outputs
  <2>1. \A t \in T, u \in U : t \in Tuples /\ u \in Tuples
    BY <1>1, <1>2, Constants
  <2>2. \A t \in T, u \in U : Pair(t, u) \in Outputs /\ Pair(u, t) \in Outputs
    BY <2>1, ResultFields, Constants
  <2> HIDE DEF T, U, F
  <2> QED BY <1>8, <2>2
<1> QED
  BY <1>1, <1>2, <1>3, <1>4, <1>7, <1>8, <1>9

(* JoinSide puts out results, whatever the state of the operator. *)
LEMMA JoinSideOutputs ==
  ASSUME NEW L, Numbered(L), NEW j \in Joins, Formed(j, L), NEW c \in Side
  PROVE  JoinSide(j, c).out \in Seq(Outputs) /\ JoinSide(j, c).out = SetToSeq(Found(j, c))
<1>1. JoinSide(j, c).out = SetToSeq(Found(j, c))
  BY JoinSideFields DEF Found
<1>2. IsFiniteSet(Found(j, c)) /\ Found(j, c) \subseteq Outputs
  BY FoundPairs
<1> QED
  BY <1>1, <1>2, SetToSeqIs, SeqMonotonic
(* JoinSide takes all tuples of the current timestamp: those left in the queue
   are later. *)
LEMMA JoinSideTakes ==
  ASSUME NEW L, NEW j \in Joins, Formed(j, L), Pending(j, L), NEW c \in Side
  PROVE  /\ \A i \in 1 .. Len(j.queue[c]) : i > Run(j, c) => j.queue[c][i].ts > j.curr
         /\ Joined(JoinSide(j, c).op, c)
         /\ Joined(j, 1 - c) => Joined(JoinSide(j, c).op, 1 - c)
<1> DEFINE k == JoinSide(j, c).op
           n == Run(j, c)
           q == j.queue[c]
<1>1. /\ n \in 0 .. Len(q) /\ Len(q) \in Nat /\ j.curr \in Nat
      /\ n < Len(q) => q[n + 1].ts # j.curr
      /\ \A i \in 1 .. Len(q) : q[i].ts \in Nat
  BY RunIs, JoinFields, TupleFields
<1>2. /\ \A i \in 1 .. Len(q) : q[i].ts >= j.curr
      /\ \A i, m \in 1 .. Len(q) : i <= m => q[i].ts <= q[m].ts
  BY DEF Pending, Formed
<1>3. /\ k.queue[1 - c] = j.queue[1 - c] /\ k.curr = j.curr
      /\ \A i \in 1 .. Len(k.queue[c]) : k.queue[c][i] = q[n + i] /\ n + i \in 1 .. Len(q)
      /\ Len(k.queue[c]) \in Nat
  <2>1. k.curr = j.curr
    BY JoinSideFields
  <2>2. /\ k \in Joins /\ k.queue[1 - c] = j.queue[1 - c]
        /\ \A i \in 1 .. Len(k.queue[c]) : k.queue[c][i] = q[n + i] /\ n + i \in 1 .. Len(q)
    BY JoinSideParts
  <2> HIDE DEF k, n, q
  <2>3. Len(k.queue[c]) \in Nat
    BY <2>2, JoinFields
  <2> QED BY <2>1, <2>2, <2>3
<1> HIDE DEF k, n, q
<1>4. ASSUME NEW i \in 1 .. Len(q), i > n
      PROVE  q[i].ts > j.curr
  <2>1. n + 1 \in 1 .. Len(q) /\ n + 1 <= i /\ n < Len(q)
    BY <1>1, <1>4
  <2>2. q[n + 1].ts >= j.curr /\ q[n + 1].ts # j.curr /\ q[n + 1].ts <= q[i].ts
    BY <1>1, <1>2, <2>1
  <2> QED BY <1>1, <2>1, <2>2
<1>5. Joined(k, c)
  <2>1. \A i \in 1 .. Len(k.queue[c]) : n + i > n
    BY <1>1, <1>3
  <2> QED BY <1>3, <1>4, <2>1 DEF Joined
<1>6. Joined(j, 1 - c) => Joined(k, 1 - c)
  BY <1>3 DEF Joined
<1> QED
  BY <1>4, <1>5, <1>6 DEF k, n, q

(* It loses no tuple, and it touches the tuples for which it finds a match. *)
LEMMA JoinSidePending ==
  ASSUME NEW L, Numbered(L), NEW j \in Joins, Formed(j, L), Pending(j, L), NEW c \in Side
  PROVE  Pending(JoinSide(j, c).op, L)
<1> DEFINE k == JoinSide(j, c).op
           n == Run(j, c)
           q == j.queue[c]
           T == Taken(j, c)
<1>1. /\ k \in Joins /\ k.queue[1 - c] = j.queue[1 - c] /\ k.table[1 - c] = j.table[1 - c]
      /\ k.table[c] = j.table[c] \cup T
      /\ \A i \in 1 .. Len(k.queue[c]) : k.queue[c][i] = q[n + i] /\ n + i \in 1 .. Len(q)
      /\ \A i \in 1 .. Len(q) : i > n => i - n \in 1 .. Len(k.queue[c]) /\ k.queue[c][i - n] = q[i]
  BY JoinSideParts
<1>2. /\ k.max = j.max /\ k.curr = j.curr
      /\ k.touched = j.touched \cup {p[1].id : p \in Matches(j, c)} \cup {p[2].id : p \in Matches(j, c)}
  BY JoinSideFields
<1>3. /\ \A t \in T : t \in L /\ t \in Tuples /\ t.ch = c /\ t.ts = j.curr
      /\ \A i \in 1 .. n : q[i] \in T
      /\ \A p : p \in Matches(j, c) <=> \E t \in T, u \in j.table[1 - c] : p = <<t, u>> /\ t.key = u.key
      /\ \A d \in Side : \A t \in j.table[d] : t \in L /\ t \in Tuples /\ t.ch = d
  BY FoundPairs
<1>4. n \in 0 .. Len(q) /\ Len(q) \in Nat /\ Len(k.queue[c]) \in Nat /\ \A i \in 1 .. Len(q) : q[i].ts \in Nat
  BY <1>1, RunIs, JoinFields, TupleFields
<1>5. /\ \A i \in 1 .. Len(q) : i > n => q[i].ts > j.curr
      /\ \A i \in 1 .. Len(q) : q[i].ts >= j.curr /\ q[i] \notin j.table[c]
  BY JoinSideTakes DEF Pending
<1>6. 1 - c \in Side /\ 1 - (1 - c) = c /\ \A d \in Side : d = c \/ d = 1 - c
  BY Constants
<1>7. /\ \A t \in L : t \in Tuples /\ t.ch \in Side
      /\ j.curr \in Nat
  BY JoinFields, TupleFields DEF Numbered
<1>8. j.touched \subseteq 1 .. MaxTuples
  BY JoinFields
<1> HIDE DEF k, n, q, T
<1>a. \A d \in Side : k.curr <= k.max[d]
  BY <1>2 DEF Pending
<1>b. \A d \in Side : \A i \in 1 .. Len(k.queue[d]) : k.queue[d][i].ts >= k.curr /\ k.queue[d][i] \notin k.table[d]
  <2>1. \A i \in 1 .. Len(k.queue[c]) : k.queue[c][i].ts >= k.curr /\ k.queue[c][i] \notin k.table[c]
    <3> SUFFICES ASSUME NEW i \in 1 .. Len(k.queue[c])
                 PROVE  k.queue[c][i].ts >= k.curr /\ k.queue[c][i] \notin k.table[c]
      OBVIOUS
    <3>1. n + i > n /\ n + i \in 1 .. Len(q) /\ k.queue[c][i] = q[n + i]
      BY <1>1, <1>4
    <3>2. q[n + i].ts > j.curr /\ q[n + i] \notin j.table[c] /\ q[n + i].ts \in Nat
      BY <3>1, <1>5, <1>4
    <3>3. q[n + i] \notin T
      BY <3>2, <1>3, <1>7
    <3> QED BY <3>1, <3>2, <3>3, <1>1, <1>2, <1>7
  <2>2. \A i \in 1 .. Len(k.queue[1 - c]) : k.queue[1 - c][i].ts >= k.curr /\ k.queue[1 - c][i] \notin k.table[1 - c]
    BY <1>1, <1>2, <1>6 DEF Pending
  <2> QED BY <1>6, <2>1, <2>2
<1>c. ASSUME NEW t \in L, t.ts > k.curr
      PROVE  \E i \in 1 .. Len(k.queue[t.ch]) : k.queue[t.ch][i] = t
  <2>1. PICK i \in 1 .. Len(j.queue[t.ch]) : j.queue[t.ch][i] = t
    BY <1>c, <1>2 DEF Pending
  <2>2. CASE t.ch = c
    <3>1. i \in 1 .. Len(q) /\ q[i] = t
      BY <2>1, <2>2 DEF q
    <3>2. i > n
      <4>1. ~(i \in 1 .. n)
        BY <1>3, <1>c, <1>2, <3>1, <1>7, TupleFields
      <4> QED BY <4>1, <3>1, <1>4
    <3> QED BY <3>1, <3>2, <1>1, <2>2
  <2>3. CASE t.ch = 1 - c
    BY <2>1, <2>3, <1>1
  <2> QED BY <2>2, <2>3, <1>6, <1>7
<1>d. ASSUME NEW t \in L, t.ts = k.curr
      PROVE  t \in k.table[t.ch] \/ \E i \in 1 .. Len(k.queue[t.ch]) : k.queue[t.ch][i] = t
  <2>1. t \in j.table[t.ch] \/ \E i \in 1 .. Len(j.queue[t.ch]) : j.queue[t.ch][i] = t
    BY <1>d, <1>2 DEF Pending
  <2>2. CASE t.ch = c
    <3>1. t \in j.table[c] => t \in k.table[c]
      BY <1>1
    <3>2. ASSUME NEW i \in 1 .. Len(q), q[i] = t
          PROVE  t \in k.table[c]
      <4>1. i \in 1 .. n
        BY <1>4, <1>5, <3>2, <1>d, <1>2
      <4> QED BY <4>1, <1>3, <3>2, <1>1
    <3> QED BY <3>1, <3>2, <2>1, <2>2 DEF q
  <2>3. CASE t.ch = 1 - c
    BY <2>1, <2>3, <1>1
  <2> QED BY <2>2, <2>3, <1>6, <1>7
<1>e. \A d \in Side : \A t \in k.table[d] : t.ts = k.curr
  <2>1. \A t \in k.table[c] : t.ts = k.curr
    BY <1>1, <1>2, <1>3 DEF Pending, Tabled
  <2>2. \A t \in k.table[1 - c] : t.ts = k.curr
    BY <1>1, <1>2, <1>6 DEF Pending, Tabled
  <2> QED BY <2>1, <2>2, <1>6
<1>f. ASSUME NEW x \in 1 .. MaxTuples
      PROVE  x \in k.touched <=> \E d \in Side : \E t \in k.table[d], u \in k.table[1 - d] : t.id = x /\ t.key = u.key
  <2>1. x \in j.touched <=> \E d \in Side : \E t \in j.table[d], u \in j.table[1 - d] : t.id = x /\ t.key = u.key
    BY DEF Pending, Tabled
  <2>2. x \in k.touched <=> x \in j.touched \/ \E p \in Matches(j, c) : x = p[1].id \/ x = p[2].id
    BY <1>2
  <2>3. (\E p \in Matches(j, c) : x = p[1].id \/ x = p[2].id)
          <=> \E t \in T, u \in j.table[1 - c] : t.key = u.key /\ (x = t.id \/ x = u.id)
    <3>1. \A p \in Matches(j, c) : \E t \in T, u \in j.table[1 - c] : p[1] = t /\ p[2] = u /\ t.key = u.key
      BY <1>3
    <3>2. \A t \in T, u \in j.table[1 - c] : t.key = u.key => \E p \in Matches(j, c) : p[1] = t /\ p[2] = u
      <4> SUFFICES ASSUME NEW t \in T, NEW u \in j.table[1 - c], t.key = u.key
                   PROVE  \E p \in Matches(j, c) : p[1] = t /\ p[2] = u
        OBVIOUS
      <4>1. <<t, u>> \in Matches(j, c)
        BY <1>3
      <4> QED BY <4>1
    <3> QED BY <3>1, <3>2
  <2>4. (\E d \in Side : \E t \in j.table[d], u \in j.table[1 - d] : t.id = x /\ t.key = u.key)
          <=> \E t \in j.table[c], u \in j.table[1 - c] : (x = t.id \/ x = u.id) /\ t.key = u.key
    BY <1>6
  <2>5. (\E d \in Side : \E t \in k.table[d], u \in k.table[1 - d] : t.id = x /\ t.key = u.key)
          <=> \E t \in k.table[c], u \in k.table[1 - c] : (x = t.id \/ x = u.id) /\ t.key = u.key
    BY <1>6
  <2>6. (\E t \in k.table[c], u \in k.table[1 - c] : (x = t.id \/ x = u.id) /\ t.key = u.key)
          <=> \/ \E t \in j.table[c], u \in j.table[1 - c] : (x = t.id \/ x = u.id) /\ t.key = u.key
              \/ \E t \in T, u \in j.table[1 - c] : t.key = u.key /\ (x = t.id \/ x = u.id)
    BY <1>1
  <2> QED BY <2>1, <2>2, <2>3, <2>4, <2>5, <2>6
<1> QED
  BY <1>a, <1>b, <1>c, <1>d, <1>e, <1>f DEF Pending, Tabled, k
(* The pairs in the tables. *)
TablePair(j, x) == \E l \in j.table[0], r \in j.table[1] : l.key = r.key /\ x = Pair(l, r)

(* What JoinSide puts out: results of the current timestamp, in order, which
   are the pairs that the tables gain. *)
LEMMA JoinSidePuts ==
  ASSUME NEW L, Numbered(L), NEW j \in Joins, Formed(j, L), Pending(j, L), NEW c \in Side
  PROVE  LET r == JoinSide(j, c) IN
         /\ r.out \in Seq(Outputs) /\ InOrder(r.out)
         /\ \A x : Puts(r.out, x) => x \in Outputs /\ x.ts = j.curr /\ ~TablePair(j, x)
         /\ \A x : TablePair(r.op, x) <=> TablePair(j, x) \/ Puts(r.out, x)
<1> DEFINE o == JoinSide(j, c).out
           k == JoinSide(j, c).op
           T == Taken(j, c)
           F == Found(j, c)
<1>1. /\ \A t \in T : t \in L /\ t \in Tuples /\ t.ch = c /\ t.ts = j.curr
                      /\ \E i \in 1 .. Run(j, c) : t = j.queue[c][i]
      /\ \A d \in Side : \A t \in j.table[d] : t \in L /\ t \in Tuples /\ t.ch = d
      /\ IsFiniteSet(F) /\ F \subseteq Outputs
  BY FoundPairs
<1>2. \A x : x \in F <=> \E t \in T, u \in j.table[1 - c] :
                t.key = u.key /\ x = IF c = 0 THEN Pair(t, u) ELSE Pair(u, t)
  BY FoundPairs
<1>3. k.table[1 - c] = j.table[1 - c] /\ k.table[c] = j.table[c] \cup T
  BY JoinSideParts
<1>4. \A d \in Side : \A t \in j.table[d] : t.ts = j.curr
  BY DEF Pending, Tabled
<1>5. \A t \in T : t \notin j.table[c]
  <2>1. Run(j, c) \in 0 .. Len(j.queue[c]) /\ Len(j.queue[c]) \in Nat
    BY RunIs, JoinFields
  <2>2. \A i \in 1 .. Run(j, c) : j.queue[c][i] \notin j.table[c]
    BY <2>1 DEF Pending
  <2> QED BY <2>2, <1>1
<1>6. 1 - c \in Side /\ Side = {0, 1}
  BY Constants
<1> HIDE DEF T, F, k, o
<1>7. \A x \in F : x.type = "REGULAR" /\ x.ts = j.curr
  <2> SUFFICES ASSUME NEW x \in F PROVE x.type = "REGULAR" /\ x.ts = j.curr
    OBVIOUS
  <2>1. PICK t \in T, u \in j.table[1 - c] : x = IF c = 0 THEN Pair(t, u) ELSE Pair(u, t)
    BY <1>2
  <2>2. t \in Tuples /\ u \in Tuples /\ t.ts = j.curr /\ u.ts = j.curr
    BY <1>1, <1>4, <1>6
  <2> QED BY <2>1, <2>2, ResultFields, <1>6
<1>8. o = SetToSeq(F)
  BY JoinSideOutputs DEF o, F
<1>9. o \in Seq(Outputs) /\ InOrder(o) /\ \A x : Puts(o, x) <=> x \in F
  BY <1>1, <1>7, <1>8, PutsSet
<1>10. ASSUME NEW x \in F PROVE ~TablePair(j, x)
  <2> SUFFICES ASSUME NEW l \in j.table[0], NEW r \in j.table[1], x = Pair(l, r) PROVE FALSE
    BY DEF TablePair
  <2>1. PICK t \in T, u \in j.table[1 - c] : x = IF c = 0 THEN Pair(t, u) ELSE Pair(u, t)
    BY <1>2, <1>10
  <2>2. l \in L /\ r \in L /\ t \in L /\ u \in L /\ l \in Tuples /\ r \in Tuples /\ t \in Tuples /\ u \in Tuples
    BY <1>1, <1>6
  <2>3. x.left = l.id /\ x.right = r.id
    BY <2>2, ResultFields, <1>6
  <2>4. \A a, b \in L : a.id = b.id => a = b
    BY DEF Numbered
  <2>5. CASE c = 0
    <3>1. x.left = t.id
      BY <2>1, <2>5, <2>2, ResultFields
    <3>2. t = l
      BY <3>1, <2>2, <2>3, <2>4
    <3> QED BY <3>2, <2>5, <1>5
  <2>6. CASE c = 1
    <3>1. x.right = t.id
      BY <2>1, <2>6, <2>2, ResultFields, <1>6
    <3>2. t = r
      BY <3>1, <2>2, <2>3, <2>4
    <3> QED BY <3>2, <2>6, <1>5
  <2> QED BY <2>5, <2>6, <1>6
<1>11. ASSUME NEW x PROVE TablePair(k, x) <=> TablePair(j, x) \/ x \in F
  <2>1. CASE c = 0
    <3>1. x \in F <=> \E t \in T, u \in j.table[1] : t.key = u.key /\ x = Pair(t, u)
      BY <1>2, <2>1
    <3>2. k.table[1] = j.table[1] /\ k.table[0] = j.table[0] \cup T
      BY <1>3, <2>1
    <3> QED BY <3>1, <3>2 DEF TablePair
  <2>2. CASE c = 1
    <3>1. x \in F <=> \E t \in T, u \in j.table[0] : t.key = u.key /\ x = Pair(u, t)
      BY <1>2, <2>2
    <3>2. k.table[0] = j.table[0] /\ k.table[1] = j.table[1] \cup T
      BY <1>3, <2>2
    <3> QED BY <3>1, <3>2 DEF TablePair
  <2> QED BY <2>1, <2>2, <1>6
<1> QED
  BY <1>1, <1>7, <1>9, <1>10, <1>11 DEF k, o
-----------------------------------------------------------------------------
(* process_join. *)

(* The two sides in turn. *)
LEMMA ProcessJoinIs ==
  ASSUME NEW j
  PROVE  LET a == JoinSide(j, 0) IN
         /\ ProcessJoin(j).op = JoinSide(a.op, 1).op
         /\ ProcessJoin(j).out = a.out \o JoinSide(a.op, 1).out
BY DEF ProcessJoin, Step

(* It keeps the operator in form and moves no timestamp. *)
LEMMA ProcessJoinFormed ==
  ASSUME NEW L, Numbered(L), NEW j \in Joins, Formed(j, L)
  PROVE  LET r == ProcessJoin(j) IN
         /\ r.op \in Joins /\ Formed(r.op, L) /\ r.out \in Seq(Outputs)
         /\ r.op.type = j.type /\ r.op.max = j.max /\ r.op.saved = j.saved /\ r.op.curr = j.curr
<1> DEFINE a == JoinSide(j, 0)
           k == a.op
           b == JoinSide(k, 1)
<1>0. 0 \in Side /\ 1 \in Side
  BY Constants
<1>1. /\ k \in Joins /\ Formed(k, L) /\ a.out \in Seq(Outputs)
      /\ k.type = j.type /\ k.max = j.max /\ k.saved = j.saved /\ k.curr = j.curr
  BY <1>0, JoinSideParts, JoinSideFormed, JoinSideOutputs, JoinSideFields
<1>2. ProcessJoin(j).op = b.op /\ ProcessJoin(j).out = a.out \o b.out
  BY ProcessJoinIs
<1> HIDE DEF k, a
<1>3. /\ b.op \in Joins /\ Formed(b.op, L) /\ b.out \in Seq(Outputs)
      /\ b.op.type = k.type /\ b.op.max = k.max /\ b.op.saved = k.saved /\ b.op.curr = k.curr
  BY <1>0, <1>1, JoinSideParts, JoinSideFormed, JoinSideOutputs, JoinSideFields
<1> HIDE DEF b
<1>4. a.out \o b.out \in Seq(Outputs)
  BY <1>1, <1>3, PutsBoth
<1> QED
  BY <1>1, <1>2, <1>3, <1>4

(* It joins the tuples of the current timestamp and puts out the pairs that the
   tables gain. *)
LEMMA ProcessJoinPuts ==
  ASSUME NEW L, Numbered(L), NEW j \in Joins, Formed(j, L), Pending(j, L)
  PROVE  LET r == ProcessJoin(j) IN
         /\ Pending(r.op, L) /\ \A c \in Side : Joined(r.op, c)
         /\ InOrder(r.out)
         /\ \A x : Puts(r.out, x) => x \in Outputs /\ x.ts = j.curr /\ ~TablePair(j, x)
         /\ \A x : TablePair(r.op, x) <=> TablePair(j, x) \/ Puts(r.out, x)
<1> DEFINE a == JoinSide(j, 0)
           k == a.op
           b == JoinSide(k, 1)
<1>0. 0 \in Side /\ 1 \in Side /\ 1 - 1 = 0 /\ Side = {0, 1} /\ j.curr \in Nat
  BY Constants, JoinFields
<1>1. k \in Joins /\ Formed(k, L) /\ Pending(k, L) /\ Joined(k, 0) /\ k.curr = j.curr
  BY <1>0, JoinSideParts, JoinSideFormed, JoinSidePending, JoinSideTakes, JoinSideFields
<1>2. /\ a.out \in Seq(Outputs) /\ InOrder(a.out)
      /\ \A x : Puts(a.out, x) => x \in Outputs /\ x.ts = j.curr /\ ~TablePair(j, x)
      /\ \A x : TablePair(k, x) <=> TablePair(j, x) \/ Puts(a.out, x)
  BY <1>0, JoinSidePuts
<1>3. ProcessJoin(j).op = b.op /\ ProcessJoin(j).out = a.out \o b.out
  BY ProcessJoinIs
<1> HIDE DEF k, a
<1>4. Pending(b.op, L) /\ Joined(b.op, 1)
  BY <1>0, <1>1, JoinSidePending, JoinSideTakes
<1>5. Joined(b.op, 0)
  BY <1>0, <1>1, JoinSideTakes
<1>6. /\ b.out \in Seq(Outputs) /\ InOrder(b.out)
      /\ \A x : Puts(b.out, x) => x \in Outputs /\ x.ts = j.curr /\ ~TablePair(k, x)
      /\ \A x : TablePair(b.op, x) <=> TablePair(k, x) \/ Puts(b.out, x)
  BY <1>0, <1>1, JoinSidePuts
<1> HIDE DEF b
<1>7. \A x, y \in Outputs : Puts(a.out, x) /\ Puts(b.out, y) => x # y /\ x.ts <= y.ts
  BY <1>0, <1>2, <1>6
<1>8. InOrder(a.out \o b.out) /\ \A x : Puts(a.out \o b.out, x) <=> Puts(a.out, x) \/ Puts(b.out, x)
  BY <1>2, <1>6, <1>7, PutsBoth
<1>9. \A x : Puts(a.out \o b.out, x) => x \in Outputs /\ x.ts = j.curr /\ ~TablePair(j, x)
  BY <1>2, <1>6, <1>8
<1>10. \A x : TablePair(b.op, x) <=> TablePair(j, x) \/ Puts(a.out \o b.out, x)
  BY <1>2, <1>6, <1>8
<1>11. \A c \in Side : Joined(b.op, c)
  BY <1>0, <1>4, <1>5
<1> QED
  BY <1>3, <1>4, <1>8, <1>9, <1>10, <1>11

(* A tuple that is not of the current timestamp at the front of a queue keeps
   JoinSide from taking any. *)
LEMMA JoinSideStuck ==
  ASSUME NEW j \in Joins, NEW c \in Side, \A i \in 1 .. Len(j.queue[c]) : i = 1 => j.queue[c][i].ts # j.curr
  PROVE  Run(j, c) = 0 /\ JoinSide(j, c).op.queue = j.queue /\ Taken(j, c) = {}
<1>1. Run(j, c) \in 0 .. Len(j.queue[c]) /\ Len(j.queue[c]) \in Nat /\ j.queue[c] \in Seq(Tuples)
      /\ \A i \in 1 .. Run(j, c) : j.queue[c][i].ts = j.curr
  BY RunIs, JoinFields
<1>2. Run(j, c) = 0
  BY <1>1
<1>3. JoinSide(j, c).op.queue = [j.queue EXCEPT ![c] = SubSeq(j.queue[c], 0 + 1, Len(j.queue[c]))]
  BY <1>2, JoinSideFields
<1>4. SubSeq(j.queue[c], 1, Len(j.queue[c])) = j.queue[c] /\ 0 + 1 = 1
  BY <1>1, SubSeqFull
<1>5. JoinSide(j, c).op.queue = j.queue
  <2>1. j.queue \in [Side -> Seq(Tuples)]
    BY JoinFields
  <2> QED BY <1>3, <1>4, <2>1
<1>6. Taken(j, c) = {}
  BY <1>2 DEF Taken
<1> QED
  BY <1>2, <1>5, <1>6

(* A tuple left behind stays where it is. *)
LEMMA ProcessJoinStuck ==
  ASSUME NEW L, Numbered(L), NEW j \in Joins, Formed(j, L), LeftBehind(j)
  PROVE  LeftBehind(ProcessJoin(j).op)
<1> DEFINE k == JoinSide(j, 0).op
           b == JoinSide(k, 1).op
<1>1. ProcessJoin(j).op = b
  BY ProcessJoinIs
<1>2. 0 \in Side /\ 1 \in Side /\ 1 - 1 = 0 /\ 1 - 0 = 1 /\ Side = {0, 1}
  BY Constants
<1>3. k \in Joins /\ k.curr = j.curr /\ k.queue[1] = j.queue[1]
  <2>1. k.queue[1 - 0] = j.queue[1 - 0]
    BY <1>2, JoinSideParts
  <2>2. k \in Joins /\ k.curr = j.curr
    BY <1>2, JoinSideParts, JoinSideFields
  <2> QED BY <2>1, <2>2, <1>2
<1>4. b.curr = k.curr /\ b.queue[0] = k.queue[0]
  <2> HIDE DEF k
  <2>1. b.queue[1 - 1] = k.queue[1 - 1]
    BY <1>2, <1>3, JoinSideParts
  <2>2. b.curr = k.curr
    BY <1>2, <1>3, JoinSideFields
  <2> QED BY <2>1, <2>2, <1>2
<1>5. PICK c \in Side : j.queue[c] # <<>> /\ Head(j.queue[c]).ts < j.curr
  BY DEF LeftBehind
<1>6. j.queue[c][1].ts # j.curr
  BY <1>5, FrontOf, JoinFields, TupleFields
<1>7. CASE c = 0
  <2>1. k.queue = j.queue
    BY <1>2, <1>6, <1>7, JoinSideStuck
  <2> QED BY <2>1, <1>1, <1>3, <1>4, <1>5, <1>7 DEF LeftBehind
<1>8. CASE c = 1
  <2>1. b.queue = k.queue
    <3> HIDE DEF k
    <3> QED BY <1>2, <1>3, <1>6, <1>8, JoinSideStuck
  <2> QED BY <2>1, <1>1, <1>3, <1>4, <1>5, <1>8 DEF LeftBehind
<1> QED
  BY <1>7, <1>8, <1>2

(* When no queue holds a tuple of the current timestamp nothing is put out. *)
LEMMA ProcessJoinIdle ==
  ASSUME NEW L, Numbered(L), NEW j \in Joins, Formed(j, L), \A c \in Side : Joined(j, c)
  PROVE  InOrder(ProcessJoin(j).out) /\ \A x : ~Puts(ProcessJoin(j).out, x)
<1> DEFINE a == JoinSide(j, 0)
           k == a.op
           b == JoinSide(k, 1)
<1>1. ProcessJoin(j).out = a.out \o b.out
  BY ProcessJoinIs
<1>2. 0 \in Side /\ 1 \in Side
  BY Constants
<1>3. \A c \in Side : \A i \in 1 .. Len(j.queue[c]) : j.queue[c][i].ts # j.curr
  BY JoinFields, TupleFields DEF Joined
<1>4. k \in Joins /\ Formed(k, L) /\ k.curr = j.curr
  BY <1>2, JoinSideParts, JoinSideFormed, JoinSideFields
<1>5. k.queue = j.queue
  BY <1>2, <1>3, JoinSideStuck
<1>6. ASSUME NEW m \in Joins, Formed(m, L), NEW c \in Side, Taken(m, c) = {}
      PROVE  LET o == JoinSide(m, c).out IN o \in Seq(Outputs) /\ InOrder(o) /\ \A x : ~Puts(o, x)
  <2>1. Found(m, c) = {}
    BY <1>6 DEF Found, Matches
  <2>2. JoinSide(m, c).out = SetToSeq({})
    BY <1>6, <2>1, JoinSideOutputs
  <2>3. IsFiniteSet({})
    BY FS_EmptySet
  <2> QED BY <2>2, <2>3, PutsSet
<1>7. a.out \in Seq(Outputs) /\ InOrder(a.out) /\ \A x : ~Puts(a.out, x)
  BY <1>2, <1>3, <1>6, JoinSideStuck
<1> HIDE DEF k, a
<1>8. b.out \in Seq(Outputs) /\ InOrder(b.out) /\ \A x : ~Puts(b.out, x)
  <2>1. \A i \in 1 .. Len(k.queue[1]) : k.queue[1][i].ts # k.curr
    BY <1>2, <1>3, <1>4, <1>5
  <2>2. Taken(k, 1) = {}
    BY <2>1, <1>2, <1>4, JoinSideStuck
  <2> QED BY <2>2, <1>2, <1>4, <1>6
<1> HIDE DEF b
<1> QED
  BY <1>1, <1>7, <1>8, PutsBoth
-----------------------------------------------------------------------------
(* process_outer_join. *)

Unmatched(j, c) == {t \in j.table[c] : Preserves(j, c) /\ t.id \notin j.touched}
Alones(j, c)    == {Alone(c, t) : t \in Unmatched(j, c)}

(* What process_outer_join returns. *)
LEMMA ProcessOuterJoinIs ==
  ASSUME NEW L, Numbered(L), NEW j \in Joins, Formed(j, L)
  PROVE  LET k == ProcessOuterJoin(j).op IN
         /\ k \in Joins /\ Formed(k, L)
         /\ k.type = j.type /\ k.queue = j.queue /\ k.max = j.max /\ k.saved = j.saved /\ k.curr = j.curr
         /\ k.table = [c \in Side |-> {}] /\ k.touched = {}
         /\ ProcessOuterJoin(j).out = SetToSeq(Alones(j, 0)) \o SetToSeq(Alones(j, 1))
         /\ \A c \in Side : /\ IsFiniteSet(Alones(j, c)) /\ Alones(j, c) \subseteq Outputs
                            /\ SetToSeq(Alones(j, c)) \in Seq(Outputs)
         /\ ProcessOuterJoin(j).out \in Seq(Outputs)
<1> DEFINE k == [j EXCEPT !.table = [c \in Side |-> {}], !.touched = {}]
<1>1. ProcessOuterJoin(j).op = k /\ ProcessOuterJoin(j).out = SetToSeq(Alones(j, 0)) \o SetToSeq(Alones(j, 1))
  BY DEF ProcessOuterJoin, Step, Alones, Unmatched
<1>2. /\ k.type = j.type /\ k.queue = j.queue /\ k.max = j.max /\ k.saved = j.saved /\ k.curr = j.curr
      /\ k.table = [c \in Side |-> {}] /\ k.touched = {}
  BY DEF Joins
<1>3. k \in Joins
  BY DEF Joins
<1> HIDE DEF k
<1>4. Formed(k, L)
  <2>1. \A c \in Side : \A t \in k.table[c] : t \in L /\ t.ch = c
    BY <1>2
  <2> QED BY <1>2, <2>1 DEF Formed
<1>5. ASSUME NEW c \in Side
      PROVE  /\ IsFiniteSet(Alones(j, c)) /\ Alones(j, c) \subseteq Outputs
             /\ SetToSeq(Alones(j, c)) \in Seq(Outputs)
  <2>1. Unmatched(j, c) \subseteq L /\ \A t \in Unmatched(j, c) : t \in Tuples
    BY DEF Unmatched, Formed, Numbered
  <2>2. IsFiniteSet(Unmatched(j, c))
    BY <2>1, FS_Subset DEF Numbered
  <2>3. IsFiniteSet(Alones(j, c))
    <3> DEFINE f == [t \in Unmatched(j, c) |-> Alone(c, t)]
    <3>1. f \in Surjection(Unmatched(j, c), Alones(j, c))
      BY DEF Surjection, Alones
    <3> HIDE DEF f
    <3> QED BY <3>1, <2>2, FS_Surjection
  <2>4. Alones(j, c) \subseteq Outputs
    BY <2>1, ResultFields DEF Alones
  <2> QED BY <2>3, <2>4, SetToSeqIs, SeqMonotonic
<1>6. SetToSeq(Alones(j, 0)) \o SetToSeq(Alones(j, 1)) \in Seq(Outputs)
  BY <1>5, Constants, PutsBoth
<1> QED
  BY <1>1, <1>2, <1>3, <1>4, <1>5, <1>6

(* A tuple of L has no match. *)
NoMate(L, t) == ~\E u \in L : u.ch # t.ch /\ u.ts = t.ts /\ u.key = t.key

(* The unmatched tuples of the current timestamp. *)
AloneNow(j, L, x) ==
  \E t \in L : t.ts = j.curr /\ Preserves(j, t.ch) /\ x = Alone(t.ch, t) /\ NoMate(L, t)

(* When the tuples of the current timestamp are joined they are in the tables. *)
LEMMA InTables ==
  ASSUME NEW L, Numbered(L), NEW j \in Joins, Formed(j, L), Pending(j, L), \A c \in Side : Joined(j, c)
  PROVE  \A c \in Side : \A t : t \in j.table[c] <=> t \in L /\ t.ch = c /\ t.ts = j.curr
<1> SUFFICES ASSUME NEW c \in Side, NEW t PROVE t \in j.table[c] <=> t \in L /\ t.ch = c /\ t.ts = j.curr
  OBVIOUS
<1>1. t \in j.table[c] => t \in L /\ t.ch = c /\ t.ts = j.curr
  BY DEF Formed, Pending, Tabled
<1>2. ASSUME t \in L, t.ch = c, t.ts = j.curr PROVE t \in j.table[c]
  <2>1. t \in j.table[c] \/ \E i \in 1 .. Len(j.queue[c]) : j.queue[c][i] = t
    BY <1>2 DEF Pending
  <2>2. \A i \in 1 .. Len(j.queue[c]) : j.queue[c][i].ts > j.curr
    BY DEF Joined
  <2>3. j.curr \in Nat
    BY JoinFields
  <2> QED BY <2>1, <2>2, <2>3, <1>2
<1> QED
  BY <1>1, <1>2

(* The untouched tuples of the tables are those without a match among all
   tuples. *)
LEMMA UntouchedAlone ==
  ASSUME NEW L, Numbered(L), NEW j \in Joins, Formed(j, L), Pending(j, L), \A c \in Side : Joined(j, c),
         NEW c \in Side, NEW t \in j.table[c]
  PROVE  t.id \notin j.touched <=> NoMate(L, t)
<1>1. /\ t \in L /\ t.ch = c /\ t.ts = j.curr /\ t.id \in 1 .. MaxTuples
      /\ \A d \in Side : \A u : u \in j.table[d] <=> u \in L /\ u.ch = d /\ u.ts = j.curr
  BY InTables, TupleFields DEF Numbered
<1>2. t.id \in j.touched <=> \E d \in Side : \E u \in j.table[d], v \in j.table[1 - d] : u.id = t.id /\ u.key = v.key
  BY <1>1 DEF Pending, Tabled
<1>3. \A u \in L : u.ch \in Side
  BY TupleFields DEF Numbered
<1>4. 1 - c \in Side /\ c # 1 - c /\ \A d \in Side : d = c \/ d = 1 - c
  BY Constants
<1>5. ASSUME t.id \in j.touched PROVE ~NoMate(L, t)
  <2>1. PICK d \in Side : \E u \in j.table[d], v \in j.table[1 - d] : u.id = t.id /\ u.key = v.key
    BY <1>2, <1>5
  <2>2. PICK u \in j.table[d], v \in j.table[1 - d] : u.id = t.id /\ u.key = v.key
    BY <2>1
  <2>3. 1 - d \in Side /\ d # 1 - d
    BY Constants
  <2>4. u \in L /\ v \in L /\ u.ch = d /\ v.ch = 1 - d /\ v.ts = j.curr
    BY <1>1, <2>3
  <2>5. u = t
    BY <1>1, <2>2, <2>4 DEF Numbered
  <2> QED BY <1>1, <2>2, <2>3, <2>4, <2>5 DEF NoMate
<1>6. ASSUME ~NoMate(L, t) PROVE t.id \in j.touched
  <2>1. PICK u \in L : u.ch # t.ch /\ u.ts = t.ts /\ u.key = t.key
    BY <1>6 DEF NoMate
  <2>2. u \in j.table[1 - c]
    BY <2>1, <1>1, <1>3, <1>4
  <2> QED BY <1>2, <2>1, <2>2
<1> QED
  BY <1>5, <1>6

(* process_outer_join puts out the unmatched tuples of the current timestamp. *)
LEMMA ProcessOuterJoinPuts ==
  ASSUME NEW L, Numbered(L), NEW j \in Joins, Formed(j, L), Pending(j, L), \A c \in Side : Joined(j, c)
  PROVE  LET o == ProcessOuterJoin(j).out IN
         /\ o \in Seq(Outputs) /\ InOrder(o)
         /\ \A x : Puts(o, x) <=> AloneNow(j, L, x)
         /\ \A x : Puts(o, x) => x \in Outputs /\ x.ts = j.curr /\ ~TablePair(j, x)
<1> DEFINE a == SetToSeq(Alones(j, 0))
           b == SetToSeq(Alones(j, 1))
<1>1. /\ ProcessOuterJoin(j).out = a \o b
      /\ \A c \in Side : IsFiniteSet(Alones(j, c)) /\ Alones(j, c) \subseteq Outputs
  BY ProcessOuterJoinIs
<1>2. 0 \in Side /\ 1 \in Side /\ Side = {0, 1} /\ j.curr \in Nat
  BY Constants, JoinFields
<1>3. \A c \in Side : \A t : t \in j.table[c] <=> t \in L /\ t.ch = c /\ t.ts = j.curr
  BY InTables
<1>4. \A c \in Side : \A x : x \in Alones(j, c) <=>
         \E t \in L : t.ch = c /\ t.ts = j.curr /\ Preserves(j, c) /\ x = Alone(c, t) /\ NoMate(L, t)
  <2> SUFFICES ASSUME NEW c \in Side, NEW x
               PROVE  x \in Alones(j, c) <=>
                        \E t \in L : t.ch = c /\ t.ts = j.curr /\ Preserves(j, c) /\ x = Alone(c, t) /\ NoMate(L, t)
    OBVIOUS
  <2>1. x \in Alones(j, c) <=> \E t \in j.table[c] : Preserves(j, c) /\ t.id \notin j.touched /\ x = Alone(c, t)
    BY DEF Alones, Unmatched
  <2>2. \A t \in j.table[c] : t.id \notin j.touched <=> NoMate(L, t)
    BY UntouchedAlone
  <2> QED BY <2>1, <2>2, <1>3
<1>5. \A t \in L : t \in Tuples /\ t.ch \in Side
  BY TupleFields DEF Numbered
<1>6. \A c \in Side : \A x \in Alones(j, c) :
         /\ x.type = "REGULAR" /\ x.ts = j.curr
         /\ c = 0 => x.right = 0 /\ x.left # 0
         /\ c = 1 => x.left = 0 /\ x.right # 0
  <2> SUFFICES ASSUME NEW c \in Side, NEW x \in Alones(j, c)
               PROVE  /\ x.type = "REGULAR" /\ x.ts = j.curr
                      /\ c = 0 => x.right = 0 /\ x.left # 0
                      /\ c = 1 => x.left = 0 /\ x.right # 0
    OBVIOUS
  <2>1. PICK t \in L : t.ts = j.curr /\ x = Alone(c, t)
    BY <1>4
  <2>2. t \in Tuples /\ t.id # 0
    BY <1>5, TupleFields
  <2> QED BY <2>1, <2>2, ResultFields, <1>2
<1>7. /\ a \in Seq(Outputs) /\ InOrder(a) /\ \A x : Puts(a, x) <=> x \in Alones(j, 0)
      /\ b \in Seq(Outputs) /\ InOrder(b) /\ \A x : Puts(b, x) <=> x \in Alones(j, 1)
  BY <1>1, <1>2, <1>6, PutsSet
<1> HIDE DEF a, b
<1>8. \A x, y \in Outputs : Puts(a, x) /\ Puts(b, y) => x # y /\ x.ts <= y.ts
  BY <1>2, <1>6, <1>7
<1>9. /\ a \o b \in Seq(Outputs) /\ InOrder(a \o b)
      /\ \A x : Puts(a \o b, x) <=> x \in Alones(j, 0) \/ x \in Alones(j, 1)
  BY <1>7, <1>8, PutsBoth
<1>10. ASSUME NEW x PROVE x \in Alones(j, 0) \/ x \in Alones(j, 1) <=> AloneNow(j, L, x)
  <2>1. ASSUME NEW c \in Side, x \in Alones(j, c) PROVE AloneNow(j, L, x)
    BY <2>1, <1>4 DEF AloneNow
  <2>2. ASSUME AloneNow(j, L, x) PROVE \E c \in Side : x \in Alones(j, c)
    <3>1. PICK t \in L : t.ts = j.curr /\ Preserves(j, t.ch) /\ x = Alone(t.ch, t) /\ NoMate(L, t)
      BY <2>2 DEF AloneNow
    <3>2. t.ch \in Side
      BY <1>5
    <3> QED BY <3>1, <3>2, <1>4
  <2> QED BY <2>1, <2>2, <1>2
<1>11. \A c \in Side : \A x \in Alones(j, c) : ~TablePair(j, x)
  <2> SUFFICES ASSUME NEW c \in Side, NEW x \in Alones(j, c), NEW l \in j.table[0], NEW r \in j.table[1], x = Pair(l, r)
               PROVE  FALSE
    BY DEF TablePair
  <2>1. l \in Tuples /\ r \in Tuples
    BY <1>2, <1>3, <1>5
  <2>2. x.left = l.id /\ x.right = r.id /\ l.id # 0 /\ r.id # 0
    BY <2>1, TupleFields, ResultFields, <1>2
  <2> QED BY <2>2, <1>2, <1>6
<1> QED
  BY <1>1, <1>2, <1>6, <1>9, <1>10, <1>11
-----------------------------------------------------------------------------
(* The join of the tuples so far. *)

(* Done in terms of the pairs in the tables. *)
LEMMA DoneIs ==
  ASSUME NEW j, NEW L, NEW x
  PROVE  Done(j, L, x) <=> (InJoin(j, L, x) /\ x.ts < j.curr) \/ TablePair(j, x)
BY DEF Done, TablePair

(* The results of the join. *)
LEMMA InJoinIs ==
  ASSUME NEW L, Numbered(L), NEW j \in Joins, NEW x
  PROVE  /\ InJoin(j, L, x) => x \in Outputs
         /\ InJoin(j, L, x) <=> \/ \E l, r \in L : Matching(l, r) /\ x = Pair(l, r) /\ x.ts = l.ts
                                \/ \E t \in L : Preserves(j, t.ch) /\ x = Alone(t.ch, t) /\ NoMate(L, t) /\ x.ts = t.ts
<1>1. \A t \in L : t \in Tuples /\ t.ch \in Side
  BY TupleFields DEF Numbered
<1>2. \A l, r \in L : Pair(l, r) \in Outputs /\ Pair(l, r).ts = l.ts
  BY <1>1, ResultFields, Constants
<1>3. \A t \in L : Alone(t.ch, t) \in Outputs /\ Alone(t.ch, t).ts = t.ts
  BY <1>1, ResultFields
<1> QED
  BY <1>2, <1>3 DEF InJoin, NoMate

(* The pairs in the tables are results of the current timestamp. *)
LEMMA TablePairIs ==
  ASSUME NEW L, Numbered(L), NEW j \in Joins, Formed(j, L), Pending(j, L), NEW x, TablePair(j, x)
  PROVE  InJoin(j, L, x) /\ x \in Outputs /\ x.ts = j.curr
<1>1. PICK l \in j.table[0], r \in j.table[1] : l.key = r.key /\ x = Pair(l, r)
  BY DEF TablePair
<1>2. l \in L /\ r \in L /\ l.ch = 0 /\ r.ch = 1 /\ l.ts = j.curr /\ r.ts = j.curr
  BY Constants DEF Formed, Pending, Tabled
<1>3. InJoin(j, L, x)
  BY <1>1, <1>2 DEF InJoin, Matching
<1>4. l \in Tuples /\ r \in Tuples
  BY <1>2 DEF Numbered
<1> QED
  BY <1>1, <1>2, <1>3, <1>4, ResultFields, Constants

(* What is out when the unmatched tuples of the current timestamp are: the join
   up to that timestamp. *)
LEMMA JoinUpTo ==
  ASSUME NEW L, Numbered(L), NEW j \in Joins, Formed(j, L), Pending(j, L), \A c \in Side : Joined(j, c), NEW x
  PROVE  Done(j, L, x) \/ AloneNow(j, L, x) <=> InJoin(j, L, x) /\ x.ts <= j.curr
<1>1. \A t \in L : t \in Tuples /\ t.ch \in Side /\ t.ts \in Nat
  BY TupleFields DEF Numbered
<1>2. j.curr \in Nat
  BY JoinFields
<1>3. ASSUME TablePair(j, x) PROVE InJoin(j, L, x) /\ x.ts <= j.curr
  BY <1>3, <1>2, TablePairIs
<1>4. ASSUME AloneNow(j, L, x) PROVE InJoin(j, L, x) /\ x.ts <= j.curr
  <2>1. PICK t \in L : t.ts = j.curr /\ Preserves(j, t.ch) /\ x = Alone(t.ch, t) /\ NoMate(L, t)
    BY <1>4 DEF AloneNow
  <2>2. x.ts = t.ts
    BY <2>1, <1>1, ResultFields
  <2> QED BY <2>1, <2>2, <1>2, InJoinIs
<1>5. ASSUME InJoin(j, L, x), x.ts <= j.curr PROVE (InJoin(j, L, x) /\ x.ts < j.curr) \/ TablePair(j, x) \/ AloneNow(j, L, x)
  <2>0. \A c \in Side : \A t : t \in j.table[c] <=> t \in L /\ t.ch = c /\ t.ts = j.curr
    BY InTables
  <2>1. CASE \E l, r \in L : Matching(l, r) /\ x = Pair(l, r) /\ x.ts = l.ts
    <3>1. PICK l \in L, r \in L : Matching(l, r) /\ x = Pair(l, r) /\ x.ts = l.ts
      BY <2>1
    <3>2. CASE l.ts = j.curr
      <4>1. l \in j.table[0] /\ r \in j.table[1] /\ l.key = r.key
        BY <3>1, <3>2, <2>0, Constants DEF Matching
      <4> QED BY <4>1, <3>1 DEF TablePair
    <3>3. CASE l.ts # j.curr
      BY <3>1, <3>3, <1>1, <1>2, <1>5
    <3> QED BY <3>2, <3>3
  <2>2. CASE \E t \in L : Preserves(j, t.ch) /\ x = Alone(t.ch, t) /\ NoMate(L, t) /\ x.ts = t.ts
    <3>1. PICK t \in L : Preserves(j, t.ch) /\ x = Alone(t.ch, t) /\ NoMate(L, t) /\ x.ts = t.ts
      BY <2>2
    <3>2. CASE t.ts = j.curr
      BY <3>1, <3>2 DEF AloneNow
    <3>3. CASE t.ts # j.curr
      BY <3>1, <3>3, <1>1, <1>2, <1>5
    <3> QED BY <3>2, <3>3
  <2> QED BY <2>1, <2>2, <1>5, InJoinIs
<1>6. InJoin(j, L, x) /\ x.ts < j.curr => x.ts <= j.curr
  <2>1. InJoin(j, L, x) => x.ts \in Nat
    BY InJoinIs DEF Outputs
  <2> QED BY <2>1, <1>2
<1> QED
  BY <1>3, <1>4, <1>5, <1>6, DoneIs

(* The results that are out come before those of process_outer_join. *)
LEMMA OuterJoinOut ==
  ASSUME NEW L, Numbered(L), NEW j \in Joins, Formed(j, L), Pending(j, L), \A c \in Side : Joined(j, c),
         NEW s \in Seq(Outputs), InOrder(s), \A x \in Outputs : Puts(s, x) <=> Done(j, L, x)
  PROVE  LET o == s \o ProcessOuterJoin(j).out IN
         /\ o \in Seq(Outputs) /\ InOrder(o)
         /\ \A x \in Outputs : Puts(o, x) <=> InJoin(j, L, x) /\ x.ts <= j.curr
<1> DEFINE o == ProcessOuterJoin(j).out
<1>1. /\ o \in Seq(Outputs) /\ InOrder(o)
      /\ \A x : Puts(o, x) <=> AloneNow(j, L, x)
      /\ \A x : Puts(o, x) => x \in Outputs /\ x.ts = j.curr /\ ~TablePair(j, x)
  BY ProcessOuterJoinPuts
<1>2. j.curr \in Nat /\ \A x \in Outputs : x.ts \in Nat
  BY JoinFields DEF Outputs
<1>3. \A x : Done(j, L, x) => x.ts <= j.curr
  BY JoinUpTo
<1>4. \A x : Done(j, L, x) \/ AloneNow(j, L, x) <=> InJoin(j, L, x) /\ x.ts <= j.curr
  BY JoinUpTo
<1>5. \A x : Done(j, L, x) <=> (InJoin(j, L, x) /\ x.ts < j.curr) \/ TablePair(j, x)
  BY DoneIs
<1> HIDE DEF o
<1>6. ASSUME NEW x \in Outputs, NEW y \in Outputs, Puts(s, x), Puts(o, y) PROVE x # y /\ x.ts <= y.ts
  <2>1. Done(j, L, x) /\ x.ts <= j.curr /\ y.ts = j.curr /\ ~TablePair(j, y)
    BY <1>1, <1>3, <1>6
  <2>2. x.ts < j.curr \/ TablePair(j, x)
    BY <2>1, <1>5
  <2> QED BY <2>1, <2>2, <1>2
<1>7. s \o o \in Seq(Outputs) /\ InOrder(s \o o) /\ \A x : Puts(s \o o, x) <=> Puts(s, x) \/ Puts(o, x)
  BY <1>1, <1>6, PutsBoth
<1> QED
  BY <1>1, <1>4, <1>7 DEF o
-----------------------------------------------------------------------------
(* Advancing. *)

(* How far a channel has got. *)
LEMMA ReachedIs ==
  ASSUME NEW L, NEW j \in Joins, Formed(j, L), NEW c \in Side
  PROVE  /\ Reached(j, c) \in 0 .. MaxTs /\ Reached(j, c) \in Nat /\ Reached(j, c) <= j.max[c]
         /\ Reached(j, c) = 0 <=> j.max[c] = 0
         /\ \A i \in 1 .. Len(j.queue[c]) : Reached(j, c) <= j.queue[c][i].ts
<1>1. j.max[c] \in 0 .. MaxTs /\ j.max[c] \in Nat /\ MaxTs \in Nat /\ Len(j.queue[c]) \in Nat
  BY JoinFields, Constants
<1>2. CASE j.queue[c] = <<>>
  <2>1. Len(j.queue[c]) = 0
    BY <1>2
  <2> QED BY <1>1, <1>2, <2>1 DEF Reached
<1>3. CASE j.queue[c] # <<>>
  <2>1. Len(j.queue[c]) >= 1 /\ Head(j.queue[c]) = j.queue[c][1] /\ j.queue[c][1] \in Tuples
    BY <1>3, FrontOf
  <2>2. Reached(j, c) = j.queue[c][1].ts
    BY <1>3, <2>1 DEF Reached
  <2>3. j.queue[c][1].ts \in 1 .. MaxTs
    BY <2>1, TupleFields
  <2>4. j.queue[c][1].ts <= j.max[c] /\ \A i \in 1 .. Len(j.queue[c]) : j.queue[c][1].ts <= j.queue[c][i].ts
    BY <2>1, <1>1 DEF Formed
  <2> QED BY <1>1, <2>2, <2>3, <2>4
<1> QED BY <1>2, <1>3

(* The queue that is behind. *)
LEMMA MinQIs ==
  ASSUME NEW L, NEW j \in Joins, Formed(j, L)
  PROVE  /\ MinQ(j) \in Side
         /\ j.max[MinQ(j)] = 0 <=> \E c \in Side : j.max[c] = 0
         /\ (\A c \in Side : j.max[c] # 0) => \A c \in Side : Reached(j, MinQ(j)) <= Reached(j, c)
<1>1. Reached(j, 0) \in Nat /\ Reached(j, 1) \in Nat
  BY Constants, ReachedIs
<1> QED
  BY <1>1, Constants DEF MinQ

(* Advance keeps the operator in form. *)
LEMMA AdvanceIs ==
  ASSUME NEW L, NEW j \in Joins, Formed(j, L)
  PROVE  LET k == Advance(j) IN
         /\ k \in Joins /\ Formed(k, L) /\ k.curr = Reached(j, MinQ(j))
         /\ k.type = j.type /\ k.queue = j.queue /\ k.max = j.max /\ k.saved = j.saved
         /\ k.table = j.table /\ k.touched = j.touched
<1> DEFINE k == [j EXCEPT !.curr = Reached(j, MinQ(j))]
<1>0. Advance(j) = k
  BY DEF Advance
<1>1. Reached(j, MinQ(j)) \in 0 .. MaxTs /\ (Reached(j, MinQ(j)) = 0 <=> j.max[MinQ(j)] = 0)
  BY MinQIs, ReachedIs
<1>2. k.curr = Reached(j, MinQ(j))
         /\ k.type = j.type /\ k.queue = j.queue /\ k.max = j.max /\ k.saved = j.saved
         /\ k.table = j.table /\ k.touched = j.touched
  BY DEF Joins
<1>3. k \in Joins
  BY <1>1 DEF Joins
<1> HIDE DEF k
<1>4. k.curr = 0 <=> \E c \in Side : k.max[c] = 0
  BY <1>1, <1>2, MinQIs
<1>5. Formed(k, L)
  BY <1>2, <1>4 DEF Formed
<1> QED
  BY <1>0, <1>2, <1>3, <1>5

(* Moving to a later timestamp that no queued tuple comes before: the results
   up to the old one are those before the new one. *)
LEMMA MovesOn ==
  ASSUME NEW L, Numbered(L), NEW j \in Joins, Formed(j, L), Pending(j, L), \A c \in Side : Joined(j, c),
         NEW k \in Joins, Formed(k, L), k.type = j.type, k.queue = j.queue, k.max = j.max,
         k.table = [c \in Side |-> {}], k.touched = {}, k.curr > j.curr,
         \A c \in Side : k.curr <= Reached(j, c)
  PROVE  /\ Pending(k, L)
         /\ \A x : Done(k, L, x) <=> InJoin(j, L, x) /\ x.ts <= j.curr
<1>1. \A t \in L : t \in Tuples /\ t.ch \in Side /\ t.ts \in Nat
  BY TupleFields DEF Numbered
<1>2. j.curr \in Nat /\ k.curr \in Nat /\ \A c \in Side : j.max[c] \in Nat
  BY JoinFields
<1>3. \A c \in Side : /\ k.curr <= k.max[c]
                      /\ \A i \in 1 .. Len(k.queue[c]) : k.queue[c][i].ts >= k.curr
  <2> SUFFICES ASSUME NEW c \in Side
               PROVE  k.curr <= k.max[c] /\ \A i \in 1 .. Len(k.queue[c]) : k.queue[c][i].ts >= k.curr
    OBVIOUS
  <2>1. Reached(j, c) \in Nat /\ Reached(j, c) <= j.max[c] /\ k.curr <= Reached(j, c)
        /\ \A i \in 1 .. Len(j.queue[c]) : Reached(j, c) <= j.queue[c][i].ts
    BY ReachedIs
  <2>2. \A i \in 1 .. Len(j.queue[c]) : j.queue[c][i].ts \in Nat
    BY JoinFields, TupleFields
  <2> QED BY <2>1, <2>2, <1>2
<1>4. \A t \in L : t.ts > j.curr => \E i \in 1 .. Len(k.queue[t.ch]) : k.queue[t.ch][i] = t
  BY DEF Pending
<1>5. \A t \in L : t.ts > j.curr => t.ts >= k.curr
  BY <1>1, <1>3, <1>4
<1>6. \A c \in Side : k.table[c] = {}
  OBVIOUS
<1>7. Tabled(k)
  <2>1. \A c \in Side : k.table[1 - c] = {}
    BY Constants
  <2> QED BY <1>6, <2>1 DEF Tabled
<1>8. Pending(k, L)
  <2>1. \A t \in L : t.ts > k.curr => \E i \in 1 .. Len(k.queue[t.ch]) : k.queue[t.ch][i] = t
    BY <1>1, <1>2, <1>4
  <2>2. \A t \in L : t.ts = k.curr => \E i \in 1 .. Len(k.queue[t.ch]) : k.queue[t.ch][i] = t
    BY <1>1, <1>2, <1>4
  <2>3. \A c \in Side : \A i \in 1 .. Len(k.queue[c]) : k.queue[c][i].ts >= k.curr /\ k.queue[c][i] \notin k.table[c]
    BY <1>3, <1>6
  <2> QED BY <1>3, <1>7, <2>1, <2>2, <2>3 DEF Pending
<1>9. ASSUME NEW x PROVE Done(k, L, x) <=> InJoin(j, L, x) /\ x.ts <= j.curr
  <2>1. ~TablePair(k, x)
    BY <1>6, Constants DEF TablePair
  <2>2. InJoin(k, L, x) <=> InJoin(j, L, x)
    BY DEF InJoin, Preserves
  <2>3. InJoin(j, L, x) => \E t \in L : x.ts = t.ts
    BY InJoinIs
  <2>4. InJoin(j, L, x) => (x.ts < k.curr <=> x.ts <= j.curr)
    BY <2>3, <1>1, <1>2, <1>5
  <2> QED BY <2>1, <2>2, <2>4, DoneIs
<1> QED
  BY <1>8, <1>9
(* The results that are out come before those of process_join. *)
LEMMA JoinOut ==
  ASSUME NEW L, Numbered(L), NEW j \in Joins, Formed(j, L), Pending(j, L),
         NEW s \in Seq(Outputs), InOrder(s), \A x \in Outputs : Puts(s, x) <=> Done(j, L, x)
  PROVE  LET p == ProcessJoin(j) IN
         /\ s \o p.out \in Seq(Outputs) /\ InOrder(s \o p.out)
         /\ \A x \in Outputs : Puts(s \o p.out, x) <=> Done(p.op, L, x)
<1> DEFINE o == ProcessJoin(j).out
           k == ProcessJoin(j).op
<1>1. o \in Seq(Outputs) /\ k \in Joins /\ k.type = j.type /\ k.curr = j.curr
  BY ProcessJoinFormed
<1>2. /\ InOrder(o)
      /\ \A x : Puts(o, x) => x \in Outputs /\ x.ts = j.curr /\ ~TablePair(j, x)
      /\ \A x : TablePair(k, x) <=> TablePair(j, x) \/ Puts(o, x)
  BY ProcessJoinPuts
<1> HIDE DEF o, k
<1>3. j.curr \in Nat /\ \A x \in Outputs : x.ts \in Nat
  BY JoinFields DEF Outputs
<1>4. \A x : TablePair(j, x) => x.ts = j.curr
  BY TablePairIs
<1>5. \A x : Done(j, L, x) <=> (InJoin(j, L, x) /\ x.ts < j.curr) \/ TablePair(j, x)
  BY DoneIs
<1>6. \A x : Done(k, L, x) <=> (InJoin(k, L, x) /\ x.ts < k.curr) \/ TablePair(k, x)
  BY DoneIs
<1>7. \A x : InJoin(k, L, x) <=> InJoin(j, L, x)
  BY <1>1 DEF InJoin, Preserves
<1>8. ASSUME NEW x \in Outputs, NEW y \in Outputs, Puts(s, x), Puts(o, y) PROVE x # y /\ x.ts <= y.ts
  <2>1. (x.ts < j.curr \/ TablePair(j, x)) /\ y.ts = j.curr /\ ~TablePair(j, y)
    BY <1>2, <1>5, <1>8
  <2> QED BY <2>1, <1>3, <1>4
<1>9. s \o o \in Seq(Outputs) /\ InOrder(s \o o) /\ \A x : Puts(s \o o, x) <=> Puts(s, x) \/ Puts(o, x)
  BY <1>1, <1>2, <1>8, PutsBoth
<1>10. \A x \in Outputs : Puts(s \o o, x) <=> Done(k, L, x)
  BY <1>1, <1>2, <1>5, <1>6, <1>7, <1>9
<1> QED
  BY <1>9, <1>10 DEF o, k

-----------------------------------------------------------------------------
(* accept_tuple, once the tuple is admitted. *)

BothPast(a)  == Past(a, 0) /\ Past(a, 1)
Outer(a)     == IF BothPast(a) THEN ProcessOuterJoin(a) ELSE Step(a, <<>>)
Moved(a)     == IF BothPast(a) THEN Advance(Outer(a).op) ELSE Outer(a).op
Settled(a)   == ProcessJoin(Moved(a))

(* Both channels have passed the current timestamp: its tuples are joined, and
   the next timestamp is later and not after the front of any queue. *)
LEMMA BothPastIs ==
  ASSUME NEW L, NEW a \in Joins, Formed(a, L), BothPast(a)
  PROVE  /\ \A c \in Side : Joined(a, c) /\ a.max[c] # 0 /\ Reached(a, MinQ(a)) <= Reached(a, c)
         /\ Reached(a, MinQ(a)) > a.curr
<1>1. a.curr \in Nat /\ Side = {0, 1}
  BY JoinFields, Constants
<1>2. \A c \in Side : a.max[c] # 0 /\ Reached(a, c) > a.curr
  BY <1>1 DEF BothPast, Past
<1>3. \A c \in Side : Joined(a, c)
  <2> SUFFICES ASSUME NEW c \in Side, NEW i \in 1 .. Len(a.queue[c]) PROVE a.queue[c][i].ts > a.curr
    BY DEF Joined
  <2>1. Reached(a, c) <= a.queue[c][i].ts /\ Reached(a, c) \in Nat
    BY ReachedIs
  <2>2. a.queue[c][i].ts \in Nat
    BY JoinFields, TupleFields
  <2> QED BY <2>1, <2>2, <1>1, <1>2
<1> QED
  BY <1>2, <1>3, MinQIs

(* What the current timestamp moves to. *)
LEMMA OuterIs ==
  ASSUME NEW L, Numbered(L), NEW a \in Joins, Formed(a, L)
  PROVE  /\ Outer(a).op \in Joins /\ Formed(Outer(a).op, L) /\ Outer(a).out \in Seq(Outputs)
         /\ Moved(a) \in Joins /\ Formed(Moved(a), L)
<1>1. CASE BothPast(a)
  <2>1. Outer(a) = ProcessOuterJoin(a) /\ Moved(a) = Advance(Outer(a).op)
    BY <1>1 DEF Outer, Moved
  <2>2. Outer(a).op \in Joins /\ Formed(Outer(a).op, L) /\ Outer(a).out \in Seq(Outputs)
    BY <2>1, ProcessOuterJoinIs
  <2>3. Advance(Outer(a).op) \in Joins /\ Formed(Advance(Outer(a).op), L)
    BY <2>2, AdvanceIs
  <2> QED BY <2>1, <2>2, <2>3
<1>2. CASE ~BothPast(a)
  <2>1. Outer(a).op = a /\ Outer(a).out = <<>> /\ Moved(a) = a
    BY <1>2 DEF Outer, Moved, Step
  <2> QED BY <2>1, PutsNothing
<1> QED BY <1>1, <1>2

(* The operator after the tuple: types and form, whatever the state. *)
LEMMA SettledTypes ==
  ASSUME NEW L, Numbered(L), NEW a \in Joins, Formed(a, L)
  PROVE  /\ Settled(a).op \in Joins /\ Formed(Settled(a).op, L)
         /\ Outer(a).out \in Seq(Outputs) /\ Settled(a).out \in Seq(Outputs)
         /\ LeftBehind(a) => LeftBehind(Settled(a).op)
<1> DEFINE b == Moved(a)
<1>1. Outer(a).out \in Seq(Outputs) /\ b \in Joins /\ Formed(b, L)
  BY OuterIs
<1>2. LeftBehind(a) => b = a
  <2> SUFFICES ASSUME LeftBehind(a), BothPast(a) PROVE FALSE
    BY DEF Moved, Outer, Step
  <2>1. PICK c \in Side : a.queue[c] # <<>> /\ Head(a.queue[c]).ts < a.curr
    BY DEF LeftBehind
  <2>2. Reached(a, c) < a.curr
    BY <2>1 DEF Reached
  <2>3. Reached(a, c) > a.curr
    BY Constants DEF BothPast, Past
  <2>4. Reached(a, c) \in Nat /\ a.curr \in Nat
    BY ReachedIs, JoinFields
  <2> QED BY <2>2, <2>3, <2>4
<1> HIDE DEF b
<1>3. ProcessJoin(b).op \in Joins /\ Formed(ProcessJoin(b).op, L) /\ ProcessJoin(b).out \in Seq(Outputs)
  BY <1>1, ProcessJoinFormed
<1>4. LeftBehind(b) => LeftBehind(ProcessJoin(b).op)
  BY <1>1, ProcessJoinStuck
<1> QED
  BY <1>1, <1>2, <1>3, <1>4 DEF Settled, b

(* The operator after the tuple: nothing is lost, and what is out is what is
   joined. *)
LEMMA SettledPuts ==
  ASSUME NEW L, Numbered(L), NEW a \in Joins, Formed(a, L), Pending(a, L),
         NEW s \in Seq(Outputs), InOrder(s), \A x \in Outputs : Puts(s, x) <=> Done(a, L, x)
  PROVE  LET o == (s \o Outer(a).out) \o Settled(a).out IN
         /\ Pending(Settled(a).op, L) /\ \A c \in Side : Joined(Settled(a).op, c)
         /\ o \in Seq(Outputs) /\ InOrder(o) /\ \A x \in Outputs : Puts(o, x) <=> Done(Settled(a).op, L, x)
<1> DEFINE b == Moved(a)
           s2 == s \o Outer(a).out
<1>1. b \in Joins /\ Formed(b, L)
  BY OuterIs
<1>2. Pending(b, L) /\ s2 \in Seq(Outputs) /\ InOrder(s2) /\ \A x \in Outputs : Puts(s2, x) <=> Done(b, L, x)
  <2>1. CASE BothPast(a)
    <3> DEFINE k == ProcessOuterJoin(a).op
    <3>1. s2 = s \o ProcessOuterJoin(a).out /\ b = Advance(k)
      BY <2>1 DEF Outer, Moved
    <3>2. /\ \A c \in Side : Joined(a, c) /\ Reached(a, MinQ(a)) <= Reached(a, c)
          /\ Reached(a, MinQ(a)) > a.curr
      BY <2>1, BothPastIs
    <3>3. /\ s2 \in Seq(Outputs) /\ InOrder(s2)
          /\ \A x \in Outputs : Puts(s2, x) <=> InJoin(a, L, x) /\ x.ts <= a.curr
      BY <3>1, <3>2, OuterJoinOut
    <3>4. k \in Joins /\ Formed(k, L) /\ k.type = a.type /\ k.queue = a.queue /\ k.max = a.max
          /\ k.table = [c \in Side |-> {}] /\ k.touched = {}
      BY ProcessOuterJoinIs
    <3> HIDE DEF k, b, s2
    <3>5. b.type = k.type /\ b.queue = k.queue /\ b.max = k.max /\ b.table = k.table /\ b.touched = k.touched
          /\ b.curr = Reached(k, MinQ(k))
      BY <3>1, <3>4, AdvanceIs
    <3>6. b.curr = Reached(a, MinQ(a))
      BY <3>4, <3>5 DEF Reached, MinQ
    <3>7. Pending(b, L) /\ \A x : Done(b, L, x) <=> InJoin(a, L, x) /\ x.ts <= a.curr
      BY <1>1, <3>2, <3>4, <3>5, <3>6, MovesOn
    <3> QED BY <3>3, <3>7
  <2>2. CASE ~BothPast(a)
    <3>1. Outer(a).out = <<>> /\ b = a
      BY <2>2 DEF Outer, Moved, Step
    <3>2. s2 = s
      BY <3>1, ConcatEmptySeq
    <3> QED BY <3>1, <3>2
  <2> QED BY <2>1, <2>2
<1> HIDE DEF b, s2
<1>3. Pending(ProcessJoin(b).op, L) /\ \A c \in Side : Joined(ProcessJoin(b).op, c)
  BY <1>1, <1>2, ProcessJoinPuts
<1>4. /\ s2 \o ProcessJoin(b).out \in Seq(Outputs) /\ InOrder(s2 \o ProcessJoin(b).out)
      /\ \A x \in Outputs : Puts(s2 \o ProcessJoin(b).out, x) <=> Done(ProcessJoin(b).op, L, x)
  BY <1>1, <1>2, JoinOut
<1>5. Settled(a) = ProcessJoin(b)
  BY DEF Settled, b
<1> QED
  BY <1>3, <1>4, <1>5 DEF s2
-----------------------------------------------------------------------------
(* The first tuple of a channel, and admission. *)

(* What accept_packet may be given. *)
Incoming(tup) == tup.ch \in Side /\ tup.ts \in 1 .. MaxTs /\ (Queues(tup) => tup \in Tuples)

(* The admitted tuples after it. *)
Logged(L, tup) == IF Queues(tup) THEN L \cup {tup} ELSE L

(* What FirstTuple makes of j. *)
Begun(L, j, tup, f) ==
  /\ f \in Joins /\ Formed(f, L)
  /\ f.type = j.type /\ f.queue = j.queue /\ f.saved = j.saved /\ f.table = j.table /\ f.touched = j.touched
  /\ j.max[tup.ch] # 0 => f = j
  /\ j.max[tup.ch] = 0 => f.max[tup.ch] = tup.ts /\ Len(j.queue[tup.ch]) = 0
  /\ j.max[tup.ch] = 0 /\ j.max[1 - tup.ch] = 0 => f.curr = j.curr
  /\ j.max[tup.ch] = 0 /\ j.max[1 - tup.ch] # 0 => f.curr = f.max[MinQ(f)] /\ \A d \in Side : f.max[d] # 0

(* The first tuple of a channel sets its largest timestamp and, with the other
   channel's, the current one. *)
LEMMA FirstTupleIs ==
  ASSUME NEW L, Numbered(L), NEW j \in Joins, Formed(j, L), NEW tup, Incoming(tup)
  PROVE  Begun(L, j, tup, FirstTuple(j, tup))
<1> DEFINE f == FirstTuple(j, tup)
           c == tup.ch
           m == [j.max EXCEPT ![c] = tup.ts]
           k == [j EXCEPT !.max = m]
<1>0. /\ c \in Side /\ 1 - c \in Side /\ c # 1 - c /\ tup.ts \in 1 .. MaxTs /\ MaxTs \in Nat
      /\ \A d \in Side : d = c \/ d = 1 - c
  BY Constants DEF Incoming
<1>1. CASE j.max[c] # 0
  <2>1. f = j
    BY <1>1 DEF FirstTuple
  <2> QED BY <1>1, <2>1 DEF Begun
<1>2. CASE j.max[c] = 0
  <2>1. j.max \in [Side -> 0 .. MaxTs] /\ m \in [Side -> 0 .. MaxTs]
    <3>1. j.max \in [Side -> 0 .. MaxTs]
      BY JoinFields
    <3> QED BY <3>1, <1>0
  <2>2. m[c] = tup.ts /\ m[1 - c] = j.max[1 - c] /\ m[c] # 0
    BY <1>0, <2>1
  <2>3. Len(j.queue[c]) = 0
    <3>1. Len(j.queue[c]) \in Nat /\ \A i \in 1 .. Len(j.queue[c]) : j.queue[c][i].ts \in Nat /\ j.queue[c][i].ts >= 1
      BY <1>0, JoinFields, TupleFields
    <3>2. \A i \in 1 .. Len(j.queue[c]) : j.queue[c][i].ts <= 0
      BY <1>0, <1>2 DEF Formed
    <3> QED BY <3>1, <3>2
  <2>4. j.curr = 0
    BY <1>0, <1>2 DEF Formed
  <2>5. /\ k \in Joins /\ k.type = j.type /\ k.queue = j.queue /\ k.max = m /\ k.saved = j.saved
        /\ k.curr = j.curr /\ k.table = j.table /\ k.touched = j.touched
    <3> HIDE DEF m
    <3> QED BY <2>1 DEF Joins
  <2>6. [j EXCEPT !.max[c] = tup.ts] = k
    OBVIOUS
  <2>7. f = IF j.max[1 - c] = 0 THEN k ELSE [k EXCEPT !.curr = k.max[MinQ(k)]]
    BY <1>2, <2>6 DEF FirstTuple
  <2> HIDE DEF k, m, f
  <2>8. ASSUME NEW g \in Joins, g.queue = k.queue, g.max = k.max, g.table = k.table,
               g.curr = 0 <=> \E d \in Side : g.max[d] = 0
        PROVE  Formed(g, L)
    <3>1. ASSUME NEW d \in Side, NEW i \in 1 .. Len(g.queue[d])
          PROVE  /\ g.queue[d][i] \in L /\ g.queue[d][i].ch = d /\ g.queue[d][i].ts <= g.max[d]
                 /\ \A n \in 1 .. Len(g.queue[d]) : i <= n => g.queue[d][i].ts <= g.queue[d][n].ts
      <4>1. d # c
        BY <3>1, <2>8, <2>5, <2>3
      <4>2. d = 1 - c /\ g.max[d] = j.max[d]
        BY <4>1, <1>0, <2>2, <2>5, <2>8
      <4> QED BY <3>1, <2>8, <2>5, <4>2, SMTT(30) DEF Formed
    <3>2. \A d \in Side : \A t \in g.table[d] : t \in L /\ t.ch = d
      BY <2>8, <2>5 DEF Formed
    <3> QED BY <3>1, <3>2, <2>8 DEF Formed
  <2>9. CASE j.max[1 - c] = 0
    <3>1. f = k
      BY <2>7, <2>9
    <3>2. Formed(k, L)
      BY <2>8, <2>5, <2>4, <2>2, <2>9, <1>0
    <3>3. Begun(L, j, tup, f)
      BY <3>1, <3>2, <2>5, <2>2, <2>3, <2>9, <1>2 DEF Begun
    <3> QED BY <3>3 DEF f
  <2>10. CASE j.max[1 - c] # 0
    <3> DEFINE v == k.max[MinQ(k)]
    <3>1. f = [k EXCEPT !.curr = v]
      BY <2>7, <2>10
    <3>2. MinQ(k) \in Side /\ \A d \in Side : m[d] # 0
      BY <1>0, <2>2, <2>10, Constants DEF MinQ
    <3>3. v \in 0 .. MaxTs /\ v # 0
      BY <3>2, <2>1, <2>5
    <3> HIDE DEF v
    <3>4. /\ f \in Joins /\ f.type = k.type /\ f.queue = k.queue /\ f.max = k.max /\ f.saved = k.saved
          /\ f.curr = v /\ f.table = k.table /\ f.touched = k.touched
      BY <3>1, <3>3, <2>5 DEF Joins
    <3>5. v = f.max[MinQ(f)]
      BY <3>4 DEF v, MinQ, Reached
    <3>6. Formed(f, L)
      BY <2>8, <3>4, <3>3, <3>2, <2>5
    <3>7. Begun(L, j, tup, f)
      BY <3>2, <3>4, <3>5, <3>6, <2>5, <2>2, <2>3, <2>10, <1>2 DEF Begun
    <3> QED BY <3>7 DEF f
  <2> QED BY <2>9, <2>10
<1> QED BY <1>1, <1>2

(* Admission: the queue of the channel and its largest timestamp. *)
LEMMA AdmitIs ==
  ASSUME NEW L, Numbered(L), NEW f \in Joins, Formed(f, L), NEW tup, Incoming(tup), tup.ts >= f.max[tup.ch], f.max[tup.ch] # 0
  PROVE  LET a == Admit(f, tup)  c == tup.ch IN
         /\ a \in Joins /\ Formed(a, Logged(L, tup))
         /\ a.type = f.type /\ a.curr = f.curr /\ a.table = f.table /\ a.touched = f.touched
         /\ a.max[c] = tup.ts /\ a.max[1 - c] = f.max[1 - c] /\ a.queue[1 - c] = f.queue[1 - c]
         /\ ~Queues(tup) => a.queue[c] = f.queue[c]
         /\ Queues(tup) => /\ Len(a.queue[c]) = Len(f.queue[c]) + 1 /\ a.queue[c][Len(f.queue[c]) + 1] = tup
                           /\ \A i \in 1 .. Len(f.queue[c]) : a.queue[c][i] = f.queue[c][i]
<1> DEFINE c == tup.ch
           m == [f.max EXCEPT ![c] = tup.ts]
           s == [f.saved EXCEPT ![c] = IF tup.ts > f.max[c] THEN tup.ts ELSE f.saved[c]]
           q == [f.queue EXCEPT ![c] = IF Queues(tup) THEN Append(f.queue[c], tup) ELSE f.queue[c]]
           a == [f EXCEPT !.max = m, !.saved = s, !.queue = q]
           M == Logged(L, tup)
<1>0. /\ c \in Side /\ 1 - c \in Side /\ c # 1 - c /\ tup.ts \in 1 .. MaxTs /\ MaxTs \in Nat
      /\ (Queues(tup) => tup \in Tuples) /\ \A d \in Side : d = c \/ d = 1 - c
  BY Constants DEF Incoming
<1>1. /\ f.max \in [Side -> 0 .. MaxTs] /\ f.saved \in [Side -> 0 .. MaxTs] /\ f.queue \in [Side -> Seq(Tuples)]
      /\ Len(f.queue[c]) \in Nat /\ f.queue[c] \in Seq(Tuples) /\ f.max[c] \in Nat
  BY JoinFields, <1>0
<1>2. Admit(f, tup) = a
  <2>1. /\ [f EXCEPT !.max = m].saved = f.saved
        /\ [[f EXCEPT !.max = m] EXCEPT !.saved = s].queue = f.queue
    <3> HIDE DEF m, s
    <3> QED BY DEF Joins
  <2>2. Admit(f, tup) = [f EXCEPT !.max[c]   = tup.ts,
              !.saved[c] = IF tup.ts > f.max[c] THEN tup.ts ELSE @,
              !.queue[c] = IF Queues(tup) THEN Append(@, tup) ELSE @]
    BY Zenon DEF Admit
  <2> QED BY <2>1, <2>2, Zenon
<1>3. m \in [Side -> 0 .. MaxTs] /\ s \in [Side -> 0 .. MaxTs]
  BY <1>0, <1>1
<1>4. Queues(tup) => /\ Append(f.queue[c], tup) \in Seq(Tuples) /\ Len(Append(f.queue[c], tup)) = Len(f.queue[c]) + 1
                     /\ \A i \in 1 .. Len(f.queue[c]) : Append(f.queue[c], tup)[i] = f.queue[c][i]
                     /\ Append(f.queue[c], tup)[Len(f.queue[c]) + 1] = tup
  BY <1>0, <1>1, AppendProperties
<1>5. q \in [Side -> Seq(Tuples)]
  BY <1>0, <1>1, <1>4
<1>6. /\ m[c] = tup.ts /\ m[1 - c] = f.max[1 - c] /\ q[1 - c] = f.queue[1 - c]
      /\ ~Queues(tup) => q[c] = f.queue[c]
      /\ Queues(tup) => q[c] = Append(f.queue[c], tup)
  BY <1>0, <1>1
<1>7. /\ a \in Joins /\ a.type = f.type /\ a.curr = f.curr /\ a.table = f.table /\ a.touched = f.touched
      /\ a.max = m /\ a.queue = q
  <2> HIDE DEF m, s, q
  <2> QED BY <1>3, <1>5 DEF Joins
<1> HIDE DEF m, s, q, a
<1>8. L \subseteq M /\ (Queues(tup) => tup \in M)
  BY DEF Logged
<1>9. ASSUME NEW i \in 1 .. Len(q[c])
      PROVE  /\ q[c][i] \in M /\ q[c][i].ch = c /\ q[c][i].ts <= m[c]
             /\ \A n \in 1 .. Len(q[c]) : i <= n => q[c][i].ts <= q[c][n].ts
  <2>1. \A n, p \in 1 .. Len(f.queue[c]) :
          /\ f.queue[c][n] \in M /\ f.queue[c][n].ch = c /\ f.queue[c][n].ts <= f.max[c] /\ f.queue[c][n].ts \in Nat
          /\ n <= p => f.queue[c][n].ts <= f.queue[c][p].ts
    BY <1>0, <1>8, JoinFields, TupleFields DEF Formed
  <2>2. \A n \in 1 .. Len(f.queue[c]) : f.queue[c][n].ts <= tup.ts
    BY <2>1, <1>0, <1>1, SMTT(30)
  <2>3. CASE ~Queues(tup)
    BY <2>1, <2>2, <2>3, <1>6, <1>9
  <2>4. CASE Queues(tup)
    <3>1. /\ Len(q[c]) = Len(f.queue[c]) + 1 /\ q[c][Len(f.queue[c]) + 1] = tup
          /\ \A n \in 1 .. Len(f.queue[c]) : q[c][n] = f.queue[c][n]
      BY <2>4, <1>4, <1>6
    <3>2. \A n \in 1 .. Len(q[c]) : n \in 1 .. Len(f.queue[c]) \/ n = Len(f.queue[c]) + 1
      BY <3>1, <1>1
    <3>3. CASE i = Len(f.queue[c]) + 1
      <4>1. \A n \in 1 .. Len(q[c]) : i <= n => n = i
        BY <3>1, <3>3, <1>1
      <4> QED BY <4>1, <3>1, <3>3, <2>4, <1>0, <1>6, <1>8
    <3>4. CASE i \in 1 .. Len(f.queue[c])
      BY <3>1, <3>2, <3>4, <2>1, <2>2, <1>6
    <3> QED BY <3>2, <3>3, <3>4, <1>9
  <2> QED BY <2>3, <2>4
<1>10. ASSUME NEW i \in 1 .. Len(q[1 - c])
       PROVE  /\ q[1 - c][i] \in M /\ q[1 - c][i].ch = 1 - c /\ q[1 - c][i].ts <= m[1 - c]
              /\ \A n \in 1 .. Len(q[1 - c]) : i <= n => q[1 - c][i].ts <= q[1 - c][n].ts
  BY <1>0, <1>6, <1>8, <1>10 DEF Formed
<1>11. \A d \in Side : \A t \in a.table[d] : t \in M /\ t.ch = d
  BY <1>7, <1>8 DEF Formed
<1>12. a.curr = 0 <=> \E d \in Side : a.max[d] = 0
  <2>1. m[c] # 0
    BY <1>0, <1>6
  <2>2. f.curr = 0 <=> \E d \in Side : f.max[d] = 0
    BY DEF Formed
  <2> QED BY <2>1, <2>2, <1>0, <1>6, <1>7
<1>13. Formed(a, M)
  <2> SUFFICES ASSUME NEW d \in Side
               PROVE  \A i \in 1 .. Len(a.queue[d]) :
                        /\ a.queue[d][i] \in M /\ a.queue[d][i].ch = d /\ a.queue[d][i].ts <= a.max[d]
                        /\ \A n \in 1 .. Len(a.queue[d]) : i <= n => a.queue[d][i].ts <= a.queue[d][n].ts
    BY <1>11, <1>12 DEF Formed
  <2>1. CASE d = c
    BY <2>1, <1>7, <1>9
  <2>2. CASE d = 1 - c
    BY <2>2, <1>7, <1>10
  <2> QED BY <1>0, <2>1, <2>2
<1> QED
  BY <1>2, <1>4, <1>6, <1>7, <1>13
(* A tuple of timestamp v or later changes nothing of the join before v. *)
LEMMA JoinGrows ==
  ASSUME NEW L, NEW tup, Incoming(tup), Numbered(L), Numbered(Logged(L, tup)),
         NEW j \in Joins, NEW a \in Joins, a.type = j.type, NEW v \in Nat, tup.ts >= v, NEW x
  PROVE  InJoin(a, Logged(L, tup), x) /\ x.ts < v <=> InJoin(j, L, x) /\ x.ts < v
<1> DEFINE M == Logged(L, tup)
<1>0. \A c : Preserves(a, c) <=> Preserves(j, c)
  BY DEF Preserves
<1>1. CASE ~Queues(tup)
  <2>1. M = L
    BY <1>1 DEF Logged
  <2> QED BY <2>1, <1>0 DEF InJoin
<1>2. CASE Queues(tup)
  <2>1. M = L \cup {tup} /\ tup \in Tuples
    BY <1>2 DEF Logged, Incoming
  <2>2. \A t \in M : t \in Tuples /\ t.ts \in Nat
    BY TupleFields DEF Numbered
  <2> HIDE DEF M
  <2>3. \A t \in M : t.ts < v => t \in L
    BY <2>1, <2>2
  <2>4. \A t \in L : t.ts < v => (NoMate(M, t) <=> NoMate(L, t))
    <3> SUFFICES ASSUME NEW t \in L, t.ts < v PROVE NoMate(M, t) <=> NoMate(L, t)
      OBVIOUS
    <3>1. t \in M
      BY <2>1
    <3>2. \A u \in M : u.ts = t.ts => u \in L
      BY <2>3
    <3> QED BY <2>1, <3>2 DEF NoMate
  <2>5. ASSUME InJoin(a, M, x), x.ts < v PROVE InJoin(j, L, x)
    <3>1. CASE \E l, r \in M : Matching(l, r) /\ x = Pair(l, r) /\ x.ts = l.ts
      <4>1. PICK l \in M, r \in M : Matching(l, r) /\ x = Pair(l, r) /\ x.ts = l.ts
        BY <3>1
      <4>2. l \in L /\ r \in L
        BY <4>1, <2>3, <2>5 DEF Matching
      <4> QED BY <4>1, <4>2, InJoinIs
    <3>2. CASE \E t \in M : Preserves(a, t.ch) /\ x = Alone(t.ch, t) /\ NoMate(M, t) /\ x.ts = t.ts
      <4>1. PICK t \in M : Preserves(a, t.ch) /\ x = Alone(t.ch, t) /\ NoMate(M, t) /\ x.ts = t.ts
        BY <3>2
      <4>2. t \in L /\ NoMate(L, t)
        BY <4>1, <2>3, <2>4, <2>5
      <4> QED BY <4>1, <4>2, <1>0, InJoinIs
    <3> QED BY <3>1, <3>2, <2>5, InJoinIs DEF M
  <2>6. ASSUME InJoin(j, L, x), x.ts < v PROVE InJoin(a, M, x)
    <3>0. L \subseteq M
      BY <2>1
    <3>1. CASE \E l, r \in L : Matching(l, r) /\ x = Pair(l, r) /\ x.ts = l.ts
      BY <3>0, <3>1 DEF InJoin
    <3>2. CASE \E t \in L : Preserves(j, t.ch) /\ x = Alone(t.ch, t) /\ NoMate(L, t) /\ x.ts = t.ts
      <4>1. PICK t \in L : Preserves(j, t.ch) /\ x = Alone(t.ch, t) /\ NoMate(L, t) /\ x.ts = t.ts
        BY <3>2
      <4>2. t \in M /\ NoMate(M, t)
        BY <4>1, <3>0, <2>4, <2>6
      <4> QED BY <4>1, <4>2, <1>0 DEF InJoin, NoMate
    <3> QED BY <3>1, <3>2, <2>6, InJoinIs
  <2> QED BY <2>5, <2>6 DEF M
<1> QED BY <1>1, <1>2

(* The queues of a hold the tuples that those of f hold, and tup if it queues. *)
Extends(f, a, tup) ==
  /\ \A c \in Side : \A i \in 1 .. Len(f.queue[c]) :
       \E k \in 1 .. Len(a.queue[c]) : a.queue[c][k] = f.queue[c][i]
  /\ Queues(tup) => \E k \in 1 .. Len(a.queue[tup.ch]) : a.queue[tup.ch][k] = tup
  /\ \A c \in Side : \A k \in 1 .. Len(a.queue[c]) :
       \/ \E i \in 1 .. Len(f.queue[c]) : a.queue[c][k] = f.queue[c][i]
       \/ Queues(tup) /\ a.queue[c][k] = tup /\ c = tup.ch

(* Admission extends the queues. *)
LEMMA AdmitQueues ==
  ASSUME NEW L, NEW tup, Incoming(tup), Numbered(L), NEW f \in Joins, Formed(f, L), tup.ts >= f.max[tup.ch], f.max[tup.ch] # 0
  PROVE  Extends(f, Admit(f, tup), tup)
<1> DEFINE a == Admit(f, tup)
           c == tup.ch
<1>0. c \in Side /\ 1 - c \in Side /\ (\A d \in Side : d = c \/ d = 1 - c) /\ Len(f.queue[c]) \in Nat
  BY Constants, JoinFields DEF Incoming
<1>1. /\ a.queue[1 - c] = f.queue[1 - c]
      /\ ~Queues(tup) => a.queue[c] = f.queue[c]
      /\ Queues(tup) => /\ Len(a.queue[c]) = Len(f.queue[c]) + 1 /\ a.queue[c][Len(f.queue[c]) + 1] = tup
                        /\ \A i \in 1 .. Len(f.queue[c]) : a.queue[c][i] = f.queue[c][i]
  BY AdmitIs
<1> HIDE DEF a, c
<1>2. Queues(tup) => Len(f.queue[c]) + 1 \in 1 .. Len(a.queue[c])
                     /\ \A i \in 1 .. Len(f.queue[c]) : i \in 1 .. Len(a.queue[c])
  BY <1>0, <1>1
<1>3. Queues(tup) => \A k \in 1 .. Len(a.queue[c]) : k \in 1 .. Len(f.queue[c]) \/ k = Len(f.queue[c]) + 1
  BY <1>0, <1>1
<1>4. \A i \in 1 .. Len(f.queue[c]) : \E k \in 1 .. Len(a.queue[c]) : a.queue[c][k] = f.queue[c][i]
  BY <1>1, <1>2
<1>5. \A k \in 1 .. Len(a.queue[c]) : \/ \E i \in 1 .. Len(f.queue[c]) : a.queue[c][k] = f.queue[c][i]
                                      \/ Queues(tup) /\ a.queue[c][k] = tup
  BY <1>1, <1>3
<1>6. Queues(tup) => \E k \in 1 .. Len(a.queue[c]) : a.queue[c][k] = tup
  BY <1>1, <1>2
<1>7. ASSUME NEW d \in Side
      PROVE  /\ \A i \in 1 .. Len(f.queue[d]) : \E k \in 1 .. Len(a.queue[d]) : a.queue[d][k] = f.queue[d][i]
             /\ \A k \in 1 .. Len(a.queue[d]) :
                  \/ \E i \in 1 .. Len(f.queue[d]) : a.queue[d][k] = f.queue[d][i]
                  \/ Queues(tup) /\ a.queue[d][k] = tup /\ d = c
  <2>1. CASE d = c
    BY <2>1, <1>4, <1>5
  <2>2. CASE d = 1 - c
    BY <2>2, <1>1
  <2> QED BY <2>1, <2>2, <1>0
<1> QED
  BY <1>6, <1>7 DEF Extends, a, c

(* Admission with the current timestamp as it was. *)
LEMMA AdmitPending ==
  ASSUME NEW L, NEW tup, Incoming(tup), Numbered(L), Numbered(Logged(L, tup)), Queues(tup) => tup \notin L,
         NEW j \in Joins, Formed(j, L), Pending(j, L),
         NEW f \in Joins, Formed(f, L), f.type = j.type, f.queue = j.queue, f.curr = j.curr,
         f.table = j.table, f.touched = j.touched, tup.ts >= f.max[tup.ch], f.max[tup.ch] # 0,
         \A c \in Side : f.curr <= f.max[c]
  PROVE  /\ Pending(Admit(f, tup), Logged(L, tup))
         /\ \A x : Done(Admit(f, tup), Logged(L, tup), x) <=> Done(j, L, x)
<1> DEFINE a == Admit(f, tup)
           M == Logged(L, tup)
           c == tup.ch
<1>0. c \in Side /\ 1 - c \in Side /\ (\A d \in Side : d = c \/ d = 1 - c) /\ tup.ts \in Nat
  BY Constants DEF Incoming
<1>1. /\ a \in Joins /\ Formed(a, M) /\ a.type = j.type /\ a.curr = j.curr /\ a.table = j.table /\ a.touched = j.touched
      /\ a.max[c] = tup.ts /\ a.max[1 - c] = f.max[1 - c]
  BY AdmitIs
<1>2. /\ \A d \in Side : \A i \in 1 .. Len(j.queue[d]) :
           \E k \in 1 .. Len(a.queue[d]) : a.queue[d][k] = j.queue[d][i]
      /\ Queues(tup) => \E k \in 1 .. Len(a.queue[tup.ch]) : a.queue[tup.ch][k] = tup
      /\ \A d \in Side : \A k \in 1 .. Len(a.queue[d]) :
           \/ \E i \in 1 .. Len(j.queue[d]) : a.queue[d][k] = j.queue[d][i]
           \/ Queues(tup) /\ a.queue[d][k] = tup /\ d = tup.ch
  <2>1. Extends(f, a, tup)
    BY AdmitQueues
  <2> HIDE DEF a
  <2> QED BY <2>1 DEF Extends
<1>3. j.curr \in Nat /\ \A d \in Side : f.max[d] \in Nat
  BY JoinFields
<1>4. tup.ts >= j.curr
  BY <1>0, <1>3
<1> HIDE DEF a
<1>5. \A d \in Side : a.curr <= a.max[d]
  BY <1>0, <1>1, <1>4
<1>6. \A d \in Side : \A t \in j.table[d] : t \in L
  BY DEF Formed
<1>7. ASSUME NEW d \in Side, NEW k \in 1 .. Len(a.queue[d])
      PROVE  a.queue[d][k].ts >= a.curr /\ a.queue[d][k] \notin a.table[d]
  <2>1. CASE \E i \in 1 .. Len(j.queue[d]) : a.queue[d][k] = j.queue[d][i]
    BY <2>1, <1>1 DEF Pending
  <2>2. CASE Queues(tup) /\ a.queue[d][k] = tup
    BY <2>2, <1>1, <1>4, <1>6
  <2> QED BY <2>1, <2>2, <1>2, <1>7
<1>8. \A t \in M : t \in L \/ (Queues(tup) /\ t = tup)
  BY DEF Logged
<1>9. \A t \in L : t.ch \in Side
  BY TupleFields DEF Numbered
<1>10. ASSUME NEW t \in M, t.ts > a.curr PROVE \E k \in 1 .. Len(a.queue[t.ch]) : a.queue[t.ch][k] = t
  <2>1. CASE t \in L
    <3>1. PICK i \in 1 .. Len(j.queue[t.ch]) : j.queue[t.ch][i] = t
      BY <2>1, <1>1, <1>10 DEF Pending
    <3>2. t.ch \in Side
      BY <2>1, <1>9
    <3>3. \E k \in 1 .. Len(a.queue[t.ch]) : a.queue[t.ch][k] = j.queue[t.ch][i]
      BY <3>1, <3>2, <1>2, Zenon
    <3> QED BY <3>1, <3>3
  <2>2. CASE Queues(tup) /\ t = tup
    BY <2>2, <1>2
  <2> QED BY <2>1, <2>2, <1>8
<1>11. ASSUME NEW t \in M, t.ts = a.curr
       PROVE  t \in a.table[t.ch] \/ \E k \in 1 .. Len(a.queue[t.ch]) : a.queue[t.ch][k] = t
  <2>1. CASE t \in L
    <3>1. t \in j.table[t.ch] \/ \E i \in 1 .. Len(j.queue[t.ch]) : j.queue[t.ch][i] = t
      BY <2>1, <1>1, <1>11 DEF Pending
    <3>2. t.ch \in Side
      BY <2>1, <1>9
    <3>3. \A i \in 1 .. Len(j.queue[t.ch]) : \E k \in 1 .. Len(a.queue[t.ch]) : a.queue[t.ch][k] = j.queue[t.ch][i]
      BY <3>2, <1>2, Zenon
    <3> QED BY <3>1, <3>3, <1>1
  <2>2. CASE Queues(tup) /\ t = tup
    BY <2>2, <1>2
  <2> QED BY <2>1, <2>2, <1>8
<1>12. Tabled(a)
  BY <1>1 DEF Pending, Tabled
<1>13. Pending(a, M)
  BY <1>5, <1>7, <1>10, <1>11, <1>12 DEF Pending
<1>14. ASSUME NEW x PROVE Done(a, M, x) <=> Done(j, L, x)
  <2>1. TablePair(a, x) <=> TablePair(j, x)
    BY <1>1 DEF TablePair
  <2>2. InJoin(a, M, x) /\ x.ts < j.curr <=> InJoin(j, L, x) /\ x.ts < j.curr
    BY <1>1, <1>3, <1>4, JoinGrows
  <2> HIDE DEF M
  <2> QED BY <2>1, <2>2, <1>1, DoneIs
<1> QED
  BY <1>13, <1>14 DEF a
(* The tuple that sets the current timestamp: unless a queued tuple is left
   behind, none is older. *)
LEMMA AdmitStarts ==
  ASSUME NEW L, NEW tup, Incoming(tup), Numbered(L), Numbered(Logged(L, tup)),
         NEW j \in Joins, Formed(j, L), Pending(j, L), j.max[tup.ch] = 0, j.max[1 - tup.ch] # 0,
         ~LeftBehind(Admit(FirstTuple(j, tup), tup))
  PROVE  LET a == Admit(FirstTuple(j, tup), tup) IN
         /\ Pending(a, Logged(L, tup))
         /\ \A x : Done(a, Logged(L, tup), x) <=> Done(j, L, x)
<1> DEFINE f == FirstTuple(j, tup)
           a == Admit(f, tup)
           M == Logged(L, tup)
           c == tup.ch
           v == f.curr
<1>0. /\ c \in Side /\ 1 - c \in Side /\ (\A d \in Side : d = c \/ d = 1 - c)
      /\ tup.ts \in Nat /\ tup.ts # 0 /\ (Queues(tup) => tup \in Tuples)
  BY Constants DEF Incoming
<1>1. /\ f \in Joins /\ Formed(f, L) /\ f.type = j.type /\ f.queue = j.queue /\ f.table = j.table /\ f.touched = j.touched
      /\ f.max[c] = tup.ts /\ f.curr = f.max[MinQ(f)] /\ (\A d \in Side : f.max[d] # 0) /\ Len(j.queue[c]) = 0
  <2>1. Begun(L, j, tup, f)
    BY FirstTupleIs
  <2> HIDE DEF f
  <2> QED BY <2>1 DEF Begun
<1> HIDE DEF f
<1>2. tup.ts >= f.max[c] /\ f.max[c] # 0
  BY <1>0, <1>1
<1>3. /\ a \in Joins /\ Formed(a, M) /\ a.type = j.type /\ a.curr = v /\ a.table = j.table /\ a.touched = j.touched
      /\ a.max[c] = tup.ts /\ a.max[1 - c] = f.max[1 - c] /\ a.queue[1 - c] = j.queue[1 - c]
  BY <1>1, <1>2, AdmitIs
<1>4. Extends(f, a, tup)
  BY <1>1, <1>2, AdmitQueues
<1>5. v \in Nat /\ \A d \in Side : f.max[d] \in Nat /\ Reached(f, d) \in Nat
                                   /\ Reached(f, d) <= f.max[d]
                                   /\ \A i \in 1 .. Len(f.queue[d]) : Reached(f, d) <= f.queue[d][i].ts
  BY <1>1, ReachedIs, JoinFields
<1>6. MinQ(f) \in Side /\ \A d \in Side : Reached(f, MinQ(f)) <= Reached(f, d)
  BY <1>1, MinQIs
<1>7. ~LeftBehind(a)
  BY DEF f
<1> HIDE DEF a
<1>8. v <= Reached(f, MinQ(f))
  <2>1. CASE f.queue[MinQ(f)] = <<>>
    BY <2>1, <1>1, <1>5, <1>6 DEF Reached
  <2>2. CASE f.queue[MinQ(f)] # <<>>
    <3>1. MinQ(f) # c
      <4>1. Len(f.queue[MinQ(f)]) >= 1
        BY <1>1, <1>6, <2>2, FrontOf
      <4> QED BY <4>1, <1>1
    <3>2. MinQ(f) = 1 - c
      BY <3>1, <1>0, <1>6
    <3>3. a.queue[MinQ(f)] = f.queue[MinQ(f)]
      BY <3>2, <1>1, <1>3
    <3>4. ~(Head(f.queue[MinQ(f)]).ts < v)
      BY <3>3, <2>2, <1>3, <1>6, <1>7 DEF LeftBehind
    <3>5. Reached(f, MinQ(f)) = Head(f.queue[MinQ(f)]).ts
      BY <2>2 DEF Reached
    <3> QED BY <3>4, <3>5, <1>5, <1>6
  <2> QED BY <2>1, <2>2
<1>9. \A d \in Side : v <= Reached(f, d)
  BY <1>5, <1>6, <1>8
<1>10. v <= tup.ts /\ \A d \in Side : v <= a.max[d]
  <2>1. \A d \in Side : v <= f.max[d]
    BY <1>5, <1>9
  <2> QED BY <2>1, <1>0, <1>1, <1>3
<1>11. j.curr = 0 /\ v # 0
  BY <1>0, <1>1, <1>6 DEF Formed
<1>12. \A t \in L : t \in Tuples /\ t.ch \in Side /\ t.ts \in Nat /\ t.ts > 0
  BY TupleFields DEF Numbered
<1>13. \A d \in Side : j.table[d] = {}
  <2> SUFFICES ASSUME NEW d \in Side, NEW t \in j.table[d] PROVE FALSE
    OBVIOUS
  <2>1. t \in L /\ t.ts = 0
    BY <1>11 DEF Formed, Pending, Tabled
  <2> QED BY <2>1, <1>12
<1>14. \A t \in L : \E i \in 1 .. Len(f.queue[t.ch]) : f.queue[t.ch][i] = t
  BY <1>1, <1>11, <1>12 DEF Pending
<1>15. \A t \in M : t.ts \in Nat /\ t.ts >= v /\ \E k \in 1 .. Len(a.queue[t.ch]) : a.queue[t.ch][k] = t
  <2> SUFFICES ASSUME NEW t \in M PROVE t.ts \in Nat /\ t.ts >= v /\ \E k \in 1 .. Len(a.queue[t.ch]) : a.queue[t.ch][k] = t
    OBVIOUS
  <2>1. CASE t \in L
    <3>1. PICK i \in 1 .. Len(f.queue[t.ch]) : f.queue[t.ch][i] = t
      BY <2>1, <1>14
    <3>2. t.ch \in Side /\ t.ts \in Nat
      BY <2>1, <1>12
    <3>3. Reached(f, t.ch) <= t.ts
      BY <3>1, <3>2, <1>5
    <3>4. \E k \in 1 .. Len(a.queue[t.ch]) : a.queue[t.ch][k] = f.queue[t.ch][i]
      BY <3>1, <3>2, <1>4 DEF Extends
    <3> QED BY <3>1, <3>2, <3>3, <3>4, <1>5, <1>9
  <2>2. CASE Queues(tup) /\ t = tup
    BY <2>2, <1>0, <1>4, <1>10 DEF Extends
  <2> QED BY <2>1, <2>2 DEF Logged
<1>16. ASSUME NEW d \in Side, NEW k \in 1 .. Len(a.queue[d])
       PROVE  a.queue[d][k].ts >= a.curr /\ a.queue[d][k] \notin a.table[d]
  <2>1. a.queue[d][k] \in M
    BY <1>3, <1>16 DEF Formed
  <2> QED BY <2>1, <1>3, <1>13, <1>15
<1>17. Tabled(a)
  <2>1. \A d \in Side : a.table[d] = {} /\ a.table[1 - d] = {}
    BY <1>3, <1>13, Constants
  <2>2. \A y \in 1 .. MaxTuples : y \notin a.touched
    <3>1. \A d \in Side : j.table[d] = {} /\ j.table[1 - d] = {}
      BY <1>13, Constants
    <3> QED BY <3>1, <1>3 DEF Pending, Tabled
  <2> QED BY <2>1, <2>2 DEF Tabled
<1>18. Pending(a, M)
  <2> HIDE DEF M
  <2> QED BY <1>10, <1>15, <1>16, <1>17, <1>3 DEF Pending
<1>19. ASSUME NEW x PROVE Done(a, M, x) <=> Done(j, L, x)
  <2>1. ~TablePair(a, x) /\ ~TablePair(j, x)
    BY <1>3, <1>13, Constants DEF TablePair
  <2>2. ~(InJoin(a, M, x) /\ x.ts < a.curr)
    <3>1. InJoin(a, M, x) => \E t \in M : x.ts = t.ts
      <4> HIDE DEF M
      <4>1. Numbered(M)
        BY DEF M
      <4> QED BY <4>1, <1>3, InJoinIs
    <3> QED BY <3>1, <1>3, <1>5, <1>15
  <2>3. ~(InJoin(j, L, x) /\ x.ts < j.curr)
    <3>1. InJoin(j, L, x) => \E t \in L : x.ts = t.ts
      BY InJoinIs
    <3> QED BY <3>1, <1>11, <1>12
  <2> HIDE DEF M
  <2> QED BY <2>1, <2>2, <2>3, DoneIs
<1> QED
  BY <1>18, <1>19 DEF a, f

(* A tuple that is admitted: nothing is lost and nothing more is joined. *)
LEMMA AdmitKeeps ==
  ASSUME NEW L, NEW tup, Incoming(tup), Numbered(L), Numbered(Logged(L, tup)), Queues(tup) => tup \notin L,
         NEW j \in Joins, Formed(j, L), Pending(j, L), tup.ts >= FirstTuple(j, tup).max[tup.ch],
         ~LeftBehind(Admit(FirstTuple(j, tup), tup))
  PROVE  LET a == Admit(FirstTuple(j, tup), tup) IN
         /\ Pending(a, Logged(L, tup))
         /\ \A x : Done(a, Logged(L, tup), x) <=> Done(j, L, x)
<1> DEFINE f == FirstTuple(j, tup)
           c == tup.ch
<1>0. c \in Side /\ 1 - c \in Side /\ tup.ts \in Nat /\ tup.ts # 0
  BY Constants DEF Incoming
<1>1. CASE j.max[c] # 0
  <2>1. f = j
    BY <1>1, FirstTupleIs DEF Begun
  <2>2. \A d \in Side : j.curr <= j.max[d]
    BY DEF Pending
  <2>3. tup.ts >= j.max[c]
    BY <2>1
  <2>4. /\ Pending(Admit(j, tup), Logged(L, tup))
        /\ \A x : Done(Admit(j, tup), Logged(L, tup), x) <=> Done(j, L, x)
    BY <2>2, <2>3, <1>1, AdmitPending
  <2> QED BY <2>1, <2>4
<1>2. CASE j.max[c] = 0 /\ j.max[1 - c] = 0
  <2>1. /\ f \in Joins /\ Formed(f, L) /\ f.type = j.type /\ f.queue = j.queue /\ f.table = j.table /\ f.touched = j.touched
        /\ f.max[c] = tup.ts /\ f.curr = j.curr
    <3>1. Begun(L, j, tup, f)
      BY FirstTupleIs
    <3> HIDE DEF f
    <3> QED BY <1>2, <3>1 DEF Begun
  <2>2. j.curr = 0
    BY <1>0, <1>2 DEF Formed
  <2>3. tup.ts >= f.max[c]
    BY <2>1, <1>0
  <2> HIDE DEF f
  <2>4. \A d \in Side : f.curr <= f.max[d]
    BY <2>1, <2>2, JoinFields
  <2>5. /\ Pending(Admit(f, tup), Logged(L, tup))
        /\ \A x : Done(Admit(f, tup), Logged(L, tup), x) <=> Done(j, L, x)
    BY <2>1, <2>3, <2>4, <1>0, AdmitPending
  <2> QED BY <2>5 DEF f
<1>3. CASE j.max[c] = 0 /\ j.max[1 - c] # 0
  BY <1>3, AdmitStarts
<1> QED
  BY <1>1, <1>2, <1>3
-----------------------------------------------------------------------------
(* accept_packet. *)

(* The admitted tuples after a tuple. *)
LogOf(j, L, tup) == IF Queues(tup) /\ tup.ts >= j.max[tup.ch] THEN L \cup {tup} ELSE L

(* A status tuple puts out no result. *)
LEMMA TempStatusPuts ==
  ASSUME NEW L, NEW j \in Joins, Formed(j, L), NEW tup
  PROVE  TempStatus(j, tup) \in Seq(Outputs) /\ InOrder(TempStatus(j, tup)) /\ \A x : ~Puts(TempStatus(j, tup), x)
<1> DEFINE c == MinQ(j)
           ts == IF j.queue[c] = <<>> THEN j.saved[c] ELSE Head(j.queue[c]).ts
<1>1. c \in Side
  BY MinQIs
<1>2. ts \in Nat
  BY <1>1, JoinFields, FrontOf, TupleFields
<1>3. TempStatus(j, tup) = IF ~IsTemp(tup) THEN <<>> ELSE <<Status(ts)>>
  BY DEF TempStatus
<1> HIDE DEF ts
<1> QED
  BY <1>2, <1>3, PutsNothing

(* A tuple is rejected, or admitted. *)
LEMMA JoinAcceptIs ==
  ASSUME NEW L, Numbered(L), NEW j \in Joins, Formed(j, L), NEW tup, Incoming(tup)
  PROVE  LET f == FirstTuple(j, tup)
             a == Admit(f, tup)
             k == Settled(a).op
             r == JoinAccept(j, tup)
         IN  /\ f \in Joins /\ Formed(f, L) /\ f.max[tup.ch] # 0
             /\ tup.ts < f.max[tup.ch] =>
                  r.op = j /\ r.out = TempStatus(j, tup) /\ LogOf(j, L, tup) = L
             /\ ~(tup.ts < f.max[tup.ch]) =>
                  /\ r.op = k /\ r.out = Outer(a).out \o Settled(a).out \o TempStatus(k, tup)
                  /\ LogOf(j, L, tup) = Logged(L, tup) /\ tup.ts >= f.max[tup.ch]
<1> DEFINE f == FirstTuple(j, tup)
           a == Admit(f, tup)
           k == Settled(a).op
           r == JoinAccept(j, tup)
           c == tup.ch
<1>1. Begun(L, j, tup, f)
  BY FirstTupleIs
<1>2. r = IF tup.ts < f.max[c] THEN Step(f, TempStatus(f, tup))
          ELSE Step(k, Outer(a).out \o Settled(a).out \o TempStatus(k, tup))
  BY DEF JoinAccept, Outer, Moved, Settled, BothPast
<1>3. c \in Side /\ tup.ts \in Nat /\ tup.ts # 0
  BY Constants DEF Incoming
<1> HIDE DEF f
<1>4. f \in Joins /\ Formed(f, L) /\ f.max[c] # 0 /\ f.max[c] \in Nat /\ j.max[c] \in Nat
  BY <1>1, <1>3, JoinFields DEF Begun
<1>5. ASSUME tup.ts < f.max[c]
      PROVE  r.op = j /\ r.out = TempStatus(j, tup) /\ LogOf(j, L, tup) = L
  <2>1. f = j
    BY <1>1, <1>3, <1>5 DEF Begun
  <2>2. r = Step(j, TempStatus(j, tup))
    BY <1>2, <1>5, <2>1
  <2>3. ~(tup.ts >= j.max[c])
    BY <2>1, <1>3, <1>4, <1>5
  <2> HIDE DEF r
  <2> QED BY <2>2, <2>3 DEF Step, LogOf
<1>6. ASSUME ~(tup.ts < f.max[c])
      PROVE  /\ r.op = k /\ r.out = Outer(a).out \o Settled(a).out \o TempStatus(k, tup)
             /\ LogOf(j, L, tup) = Logged(L, tup) /\ tup.ts >= f.max[c]
  <2>1. r = Step(k, Outer(a).out \o Settled(a).out \o TempStatus(k, tup))
    BY <1>2, <1>6
  <2>2. tup.ts >= f.max[c] /\ tup.ts >= j.max[c]
    BY <1>1, <1>3, <1>4, <1>6 DEF Begun
  <2> HIDE DEF r, a, k
  <2> QED BY <2>1, <2>2 DEF Step, LogOf, Logged
<1> QED
  BY <1>4, <1>5, <1>6 DEF f

(* accept_packet keeps the operator in form. *)
LEMMA AcceptTypes ==
  ASSUME NEW L, Numbered(L), NEW j \in Joins, Formed(j, L), NEW tup, Incoming(tup), Numbered(LogOf(j, L, tup))
  PROVE  /\ JoinAccept(j, tup).op \in Joins /\ Formed(JoinAccept(j, tup).op, LogOf(j, L, tup))
         /\ JoinAccept(j, tup).out \in Seq(Outputs)
<1> DEFINE f == FirstTuple(j, tup)
           a == Admit(f, tup)
           k == Settled(a).op
           r == JoinAccept(j, tup)
           M == LogOf(j, L, tup)
<1>1. /\ f \in Joins /\ Formed(f, L) /\ f.max[tup.ch] # 0
      /\ tup.ts < f.max[tup.ch] => r.op = j /\ r.out = TempStatus(j, tup) /\ M = L
      /\ ~(tup.ts < f.max[tup.ch]) =>
           /\ r.op = k /\ r.out = Outer(a).out \o Settled(a).out \o TempStatus(k, tup)
           /\ M = Logged(L, tup) /\ tup.ts >= f.max[tup.ch]
  BY JoinAcceptIs
<1> HIDE DEF f, r, M
<1>2. CASE tup.ts < f.max[tup.ch]
  BY <1>1, <1>2, TempStatusPuts DEF r, M
<1>3. CASE ~(tup.ts < f.max[tup.ch])
  <2>1. Numbered(M) /\ M = Logged(L, tup)
    BY <1>1, <1>3 DEF M
  <2>2. a \in Joins /\ Formed(a, M)
    BY <1>1, <1>3, <2>1, AdmitIs
  <2> HIDE DEF a
  <2>3. k \in Joins /\ Formed(k, M) /\ Outer(a).out \in Seq(Outputs) /\ Settled(a).out \in Seq(Outputs)
    BY <2>1, <2>2, SettledTypes
  <2> HIDE DEF k
  <2>4. TempStatus(k, tup) \in Seq(Outputs)
    BY <2>3, TempStatusPuts
  <2>5. Outer(a).out \o Settled(a).out \in Seq(Outputs)
    BY <2>3, ConcatProperties
  <2>6. r.out \in Seq(Outputs)
    BY <2>4, <2>5, <1>1, <1>3, ConcatProperties
  <2> QED BY <2>3, <2>6, <1>1, <1>3 DEF r, M
<1> QED
  BY <1>2, <1>3

(* accept_packet loses no tuple and puts out what it joins, unless it leaves a
   tuple behind. *)
LEMMA AcceptCurrent ==
  ASSUME NEW L, Numbered(L), NEW j \in Joins, Formed(j, L), NEW tup, Incoming(tup), Numbered(LogOf(j, L, tup)),
         Queues(tup) => tup \notin L, NEW s \in Seq(Outputs), Current(j, L, s), ~LeftBehind(JoinAccept(j, tup).op)
  PROVE  Current(JoinAccept(j, tup).op, LogOf(j, L, tup), s \o JoinAccept(j, tup).out)
<1> DEFINE f == FirstTuple(j, tup)
           a == Admit(f, tup)
           k == Settled(a).op
           r == JoinAccept(j, tup)
           M == LogOf(j, L, tup)
<1>1. /\ f \in Joins /\ Formed(f, L) /\ f.max[tup.ch] # 0
      /\ tup.ts < f.max[tup.ch] => r.op = j /\ r.out = TempStatus(j, tup) /\ M = L
      /\ ~(tup.ts < f.max[tup.ch]) =>
           /\ r.op = k /\ r.out = Outer(a).out \o Settled(a).out \o TempStatus(k, tup)
           /\ M = Logged(L, tup) /\ tup.ts >= f.max[tup.ch]
  BY JoinAcceptIs
<1>2. ASSUME NEW m \in Joins, Formed(m, M), NEW o \in Seq(Outputs), Current(m, M, o), NEW u \in Seq(Outputs),
             InOrder(u), \A x : ~Puts(u, x)
      PROVE  Current(m, M, o \o u)
  <2>1. InOrder(o \o u) /\ \A x : Puts(o \o u, x) <=> Puts(o, x)
    BY <1>2, PutsBoth DEF Current
  <2> QED BY <2>1, <1>2 DEF Current
<1> HIDE DEF r, M
<1>3. CASE tup.ts < f.max[tup.ch]
  <2> HIDE DEF f
  <2>1. TempStatus(j, tup) \in Seq(Outputs) /\ InOrder(TempStatus(j, tup)) /\ \A x : ~Puts(TempStatus(j, tup), x)
    BY TempStatusPuts
  <2> DEFINE u == TempStatus(j, tup)
  <2> HIDE DEF u
  <2>2. Current(j, M, s \o u)
    BY <1>1, <1>2, <1>3, <2>1 DEF u
  <2> QED BY <1>1, <1>3, <2>2 DEF r, M, u
<1>4. CASE ~(tup.ts < f.max[tup.ch])
  <2>1. Numbered(M) /\ M = Logged(L, tup) /\ Numbered(Logged(L, tup))
    BY <1>1, <1>4 DEF M
  <2>2. a \in Joins /\ Formed(a, M)
    <3> HIDE DEF f
    <3> QED BY <1>1, <1>4, <2>1, AdmitIs
  <2>3. ~LeftBehind(a)
    <3> HIDE DEF a
    <3>1. LeftBehind(a) => LeftBehind(k)
      BY <2>1, <2>2, SettledTypes
    <3> QED BY <3>1, <1>1, <1>4 DEF r
  <2>4. Pending(a, M) /\ \A x : Done(a, M, x) <=> Done(j, L, x)
    BY <1>1, <1>4, <2>1, <2>3, AdmitKeeps DEF Current
  <2> HIDE DEF a
  <2>5. InOrder(s) /\ \A x \in Outputs : Puts(s, x) <=> Done(a, M, x)
    BY <2>4 DEF Current
  <2> DEFINE o == (s \o Outer(a).out) \o Settled(a).out
  <2>6. /\ Pending(k, M) /\ \A c \in Side : Joined(k, c)
        /\ o \in Seq(Outputs) /\ InOrder(o) /\ \A x \in Outputs : Puts(o, x) <=> Done(k, M, x)
    BY <2>1, <2>2, <2>4, <2>5, SettledPuts
  <2>7. k \in Joins /\ Formed(k, M) /\ Outer(a).out \in Seq(Outputs) /\ Settled(a).out \in Seq(Outputs)
    BY <2>1, <2>2, SettledTypes
  <2> HIDE DEF k
  <2>8. TempStatus(k, tup) \in Seq(Outputs) /\ InOrder(TempStatus(k, tup)) /\ \A x : ~Puts(TempStatus(k, tup), x)
    BY <2>7, TempStatusPuts
  <2> DEFINE u == TempStatus(k, tup)
  <2>9. s \o (Outer(a).out \o Settled(a).out \o u) = o \o u
    <3> HIDE DEF u, k
    <3>1. u \in Seq(Outputs)
      BY <2>8 DEF u
    <3> DEFINE v == Outer(a).out
               w == Settled(a).out
    <3>2. v \in Seq(Outputs) /\ w \in Seq(Outputs)
      BY <2>7
    <3> HIDE DEF v, w
    <3>3. v \o w \in Seq(Outputs) /\ s \o v \in Seq(Outputs)
      BY <3>2, ConcatProperties
    <3>4. s \o ((v \o w) \o u) = (s \o (v \o w)) \o u
      <4> DEFINE z == v \o w
      <4>1. z \in Seq(Outputs)
        BY <3>3
      <4> HIDE DEF z
      <4>2. (s \o z) \o u = s \o (z \o u)
        BY <3>1, <4>1, ConcatAssociative, SMTT(30)
      <4> QED BY <4>2 DEF z
    <3>5. s \o (v \o w) = (s \o v) \o w
      BY <3>2, ConcatAssociative
    <3> QED BY <3>4, <3>5 DEF v, w
  <2> HIDE DEF o, u
  <2>10. Current(k, M, o)
    BY <2>6 DEF Current
  <2>11. Current(k, M, o \o u)
    BY <2>6, <2>7, <2>8, <2>10, <1>2 DEF u
  <2> QED BY <1>1, <1>4, <2>9, <2>11 DEF r, M, u
<1> QED
  BY <1>3, <1>4
-----------------------------------------------------------------------------
(* The end of both streams. *)

(* flush is one step of each part. *)
LEMMA JoinFlushIs ==
  ASSUME NEW j
  PROVE  LET o == ProcessOuterJoin(j)
             p == ProcessJoin(Advance(o.op))
         IN  JoinFlush(j).op = p.op /\ JoinFlush(j).out = o.out \o p.out
BY DEF JoinFlush, Step

(* flush keeps the operator in form. *)
LEMMA FlushTypes ==
  ASSUME NEW L, Numbered(L), NEW j \in Joins, Formed(j, L)
  PROVE  JoinFlush(j).op \in Joins /\ Formed(JoinFlush(j).op, L) /\ JoinFlush(j).out \in Seq(Outputs)
<1> DEFINE o == ProcessOuterJoin(j)
           k == o.op
           b == Advance(k)
           p == ProcessJoin(b)
<1>1. k \in Joins /\ Formed(k, L) /\ o.out \in Seq(Outputs)
  BY ProcessOuterJoinIs
<1>2. JoinFlush(j).op = p.op /\ JoinFlush(j).out = o.out \o p.out
  BY JoinFlushIs
<1> HIDE DEF o, k
<1>3. b \in Joins /\ Formed(b, L)
  BY <1>1, AdvanceIs
<1> HIDE DEF b
<1>4. p.op \in Joins /\ Formed(p.op, L) /\ p.out \in Seq(Outputs)
  BY <1>3, ProcessJoinFormed
<1> HIDE DEF p
<1> QED
  BY <1>1, <1>2, <1>4, ConcatProperties

(* A channel that has not been left behind has reached the current timestamp. *)
LEMMA ReachedCurr ==
  ASSUME NEW L, NEW j \in Joins, Formed(j, L), Pending(j, L), NEW c \in Side
  PROVE  Reached(j, c) >= j.curr
<1>1. CASE j.queue[c] = <<>>
  BY <1>1, JoinFields DEF Reached, Pending
<1>2. CASE j.queue[c] # <<>>
  <2>1. Len(j.queue[c]) >= 1 /\ Head(j.queue[c]) = j.queue[c][1] /\ Len(j.queue[c]) \in Nat
    BY <1>2, FrontOf, JoinFields
  <2>2. j.queue[c][1].ts >= j.curr
    BY <2>1 DEF Pending
  <2> QED BY <1>2, <2>1, <2>2 DEF Reached
<1> QED BY <1>1, <1>2

(* flush puts out only results of the join, and the join is complete before the
   timestamp it stops at. *)
LEMMA FlushFinal ==
  ASSUME NEW L, Numbered(L), NEW j \in Joins, Formed(j, L), NEW s \in Seq(Outputs), Current(j, L, s), ~FlushCrashes(j)
  PROVE  Final(JoinFlush(j).op, L, s \o JoinFlush(j).out)
<1> DEFINE o == ProcessOuterJoin(j)
           k == o.op
           b == Advance(k)
           p == ProcessJoin(b)
           s2 == s \o o.out
           v == Reached(j, MinQ(j))
<1>0. Pending(j, L) /\ (\A c \in Side : Joined(j, c)) /\ InOrder(s) /\ \A x \in Outputs : Puts(s, x) <=> Done(j, L, x)
  BY DEF Current
<1>1. k \in Joins /\ Formed(k, L) /\ o.out \in Seq(Outputs) /\ k.type = j.type /\ k.queue = j.queue /\ k.max = j.max
      /\ k.table = [c \in Side |-> {}] /\ k.touched = {}
  BY ProcessOuterJoinIs
<1>2. JoinFlush(j).op = p.op /\ JoinFlush(j).out = o.out \o p.out
  BY JoinFlushIs
<1>3. /\ s2 \in Seq(Outputs) /\ InOrder(s2)
      /\ \A x \in Outputs : Puts(s2, x) <=> InJoin(j, L, x) /\ x.ts <= j.curr
  BY <1>0, OuterJoinOut
<1>4. /\ MinQ(j) \in Side /\ (\A c \in Side : j.max[c] # 0) /\ (\A c \in Side : v <= Reached(j, c))
      /\ v >= j.curr /\ v \in Nat /\ j.curr \in Nat
  BY <1>0, MinQIs, ReachedCurr, ReachedIs, JoinFields DEF FlushCrashes
<1> HIDE DEF o, k, s2
<1>5. /\ b \in Joins /\ Formed(b, L) /\ b.curr = Reached(k, MinQ(k)) /\ b.type = k.type /\ b.queue = k.queue /\ b.max = k.max
      /\ b.table = k.table /\ b.touched = k.touched
  BY <1>1, AdvanceIs
<1>6. b.curr = v
  BY <1>1, <1>5 DEF Reached, MinQ
<1> HIDE DEF b
<1>7. p.op \in Joins /\ Formed(p.op, L) /\ p.out \in Seq(Outputs) /\ p.op.type = b.type /\ p.op.curr = b.curr
  BY <1>5, ProcessJoinFormed
<1>8. \A x : InJoin(p.op, L, x) <=> InJoin(j, L, x)
  BY <1>1, <1>5, <1>7 DEF InJoin, Preserves
<1>9. Final(p.op, L, s2 \o p.out)
  <2>1. CASE v > j.curr
    <3>1. Pending(b, L) /\ \A x : Done(b, L, x) <=> InJoin(j, L, x) /\ x.ts <= j.curr
      <4> HIDE DEF v
      <4> QED BY <2>1, <1>0, <1>1, <1>4, <1>5, <1>6, MovesOn
    <3>2. \A x \in Outputs : Puts(s2, x) <=> Done(b, L, x)
      BY <1>3, <3>1
    <3>3. InOrder(s2 \o p.out) /\ \A x \in Outputs : Puts(s2 \o p.out, x) <=> Done(p.op, L, x)
      BY <1>3, <1>5, <3>1, <3>2, JoinOut
    <3>4. Pending(p.op, L)
      BY <1>5, <3>1, ProcessJoinPuts
    <3> HIDE DEF p
    <3>5. \A x : TablePair(p.op, x) => InJoin(p.op, L, x)
      BY <1>7, <3>4, TablePairIs
    <3>6. \A x : Done(p.op, L, x) <=> (InJoin(p.op, L, x) /\ x.ts < p.op.curr) \/ TablePair(p.op, x)
      BY DoneIs
    <3> QED BY <3>3, <3>5, <3>6 DEF Final
  <2>2. CASE v = j.curr
    <3>1. \A c \in Side : Joined(b, c)
      BY <2>2, <1>0, <1>1, <1>5, <1>6 DEF Joined
    <3>2. InOrder(p.out) /\ \A x : ~Puts(p.out, x)
      BY <1>5, <3>1, ProcessJoinIdle
    <3> HIDE DEF p
    <3>3. InOrder(s2 \o p.out) /\ \A x : Puts(s2 \o p.out, x) <=> Puts(s2, x)
      BY <1>3, <1>7, <3>2, PutsBoth
    <3>4. \A x \in Outputs : Puts(s2 \o p.out, x) <=> InJoin(p.op, L, x) /\ x.ts <= p.op.curr
      BY <1>3, <1>6, <1>7, <1>8, <2>2, <3>3
    <3>5. \A x \in Outputs : x.ts \in Nat
      BY DEF Outputs
    <3>6. \A x \in Outputs : x.ts < p.op.curr => x.ts <= p.op.curr
      BY <3>5, <1>4, <1>6, <1>7, <2>2
    <3> QED BY <3>3, <3>4, <3>6 DEF Final
  <2> QED BY <2>1, <2>2, <1>4
<1>10. s \o (o.out \o p.out) = s2 \o p.out
  <2> HIDE DEF p
  <2> DEFINE y == o.out
             z == p.out
  <2>1. y \in Seq(Outputs) /\ z \in Seq(Outputs)
    BY <1>1, <1>7
  <2> HIDE DEF y, z
  <2>2. (s \o y) \o z = s \o (y \o z)
    BY <2>1, ConcatAssociative
  <2> QED BY <2>2 DEF y, z, s2
<1> QED
  BY <1>2, <1>9, <1>10
-----------------------------------------------------------------------------
(* The invariant. *)

(* A new operator has joined nothing. *)
LEMMA InitInv == Init => JoinInv
<1> SUFFICES ASSUME Init PROVE JoinInv
  OBVIOUS
<1>1. PICK jtype \in JoinTypes : join = NewJoin(jtype)
  BY DEF Init
<1>2. log = {} /\ arrived = 0 /\ out = <<>> /\ late = FALSE /\ phase = "open"
  BY DEF Init
<1>3. /\ join.queue = [c \in Side |-> <<>>] /\ join.max = [c \in Side |-> 0] /\ join.curr = 0
      /\ join.table = [c \in Side |-> {}] /\ join.touched = {}
  BY <1>1 DEF NewJoin
<1>4. join \in Joins
  <2>1. <<>> \in Seq(Tuples) /\ 0 \in 0 .. MaxTs
    BY Constants, EmptySeq
  <2> QED BY <1>1, <2>1 DEF NewJoin, Joins
<1>5. Numbered(log)
  BY <1>2, FS_EmptySet DEF Numbered
<1>6. \A c \in Side : Len(join.queue[c]) = 0 /\ join.max[c] = 0 /\ join.table[c] = {}
  BY <1>3
<1>7. Formed(join, log)
  BY <1>3, <1>6, Constants DEF Formed
<1>8. JoinTypesOK
  <2>1. out \in Seq(Outputs) /\ late \in BOOLEAN
    BY <1>2, PutsNothing
  <2>2. phase \in {"open", "flushed", "crashed"} /\ arrived \in 0 .. MaxTuples /\ \A t \in log : t.id <= arrived
    BY <1>2, Constants
  <2> QED BY <1>4, <1>5, <1>7, <2>1, <2>2 DEF JoinTypesOK
<1>9. Pending(join, log) /\ \A c \in Side : Joined(join, c)
  <2>1. Tabled(join)
    BY <1>3, <1>6 DEF Tabled
  <2> QED BY <1>2, <1>3, <1>6, <2>1 DEF Pending, Joined
<1>10. \A x : ~Done(join, log, x)
  <2>1. \A x : ~TablePair(join, x)
    BY <1>6, Constants DEF TablePair
  <2>2. \A x : ~InJoin(join, log, x)
    BY <1>2 DEF InJoin
  <2> QED BY <2>1, <2>2, DoneIs
<1>11. Current(join, log, out)
  BY <1>2, <1>9, <1>10, PutsNothing DEF Current
<1> QED
  BY <1>2, <1>8, <1>11 DEF JoinInv

(* The tuples keep their numbers. *)
LEMMA LogNumbered ==
  ASSUME NEW L, Numbered(L), NEW n \in Nat, \A t \in L : t.id <= n, NEW j, NEW tup,
         Queues(tup) => tup \in Tuples /\ tup.id = n + 1
  PROVE  /\ Numbered(LogOf(j, L, tup)) /\ (Queues(tup) => tup \notin L)
         /\ \A t \in LogOf(j, L, tup) : t.id <= n + 1
<1>1. \A t \in L : t \in Tuples /\ t.id \in Nat
  BY TupleFields DEF Numbered
<1>2. \A t \in L : t.id <= n + 1 /\ t.id # n + 1
  BY <1>1
<1>3. Queues(tup) => tup \notin L
  BY <1>2
<1>4. Queues(tup) => Numbered(L \cup {tup})
  <2> SUFFICES ASSUME Queues(tup) PROVE Numbered(L \cup {tup})
    OBVIOUS
  <2>1. IsFiniteSet(L \cup {tup})
    BY FS_AddElement DEF Numbered
  <2>2. \A t, u \in L \cup {tup} : t.id = u.id => t = u
    BY <1>2 DEF Numbered
  <2> QED BY <2>1, <2>2 DEF Numbered
<1> QED
  BY <1>2, <1>3, <1>4 DEF LogOf

(* A tuple arrives. *)
LEMMA ArriveInv ==
  ASSUME JoinInv, NEW tup, Arrive(tup), Incoming(tup), Queues(tup) => tup.id = arrived + 1
  PROVE  JoinInv'
<1> DEFINE r == JoinAccept(join, tup)
           M == LogOf(join, log, tup)
<1>1. JoinTypesOK
  BY DEF JoinInv
<1>2. join \in Joins /\ Formed(join, log) /\ Numbered(log) /\ out \in Seq(Outputs)
      /\ arrived \in Nat /\ (\A t \in log : t.id <= arrived) /\ late \in BOOLEAN
  BY <1>1, Constants DEF JoinTypesOK
<1>3. /\ phase = "open" /\ arrived < MaxTuples
      /\ join' = r.op /\ out' = out \o r.out /\ log' = M
      /\ arrived' = arrived + 1 /\ late' = (late \/ LeftBehind(r.op)) /\ phase' = phase
  BY DEF Arrive, LogOf
<1>4. Queues(tup) => tup \in Tuples /\ tup.id = arrived + 1
  BY DEF Incoming
<1>5. Numbered(M) /\ (Queues(tup) => tup \notin log) /\ \A t \in M : t.id <= arrived + 1
  BY <1>2, <1>4, LogNumbered
<1>6. r.op \in Joins /\ Formed(r.op, M) /\ r.out \in Seq(Outputs)
  BY <1>2, <1>5, AcceptTypes
<1>7. out \o r.out \in Seq(Outputs)
  <2> HIDE DEF r
  <2> QED BY <1>2, <1>6, ConcatProperties
<1>8. ASSUME ~late, ~LeftBehind(r.op) PROVE Current(r.op, M, out \o r.out)
  <2>1. Current(join, log, out)
    BY <1>3, <1>8 DEF JoinInv
  <2> QED BY <2>1, <1>2, <1>5, <1>8, AcceptCurrent
<1> HIDE DEF r, M
<1>9. arrived + 1 \in 0 .. MaxTuples
  BY <1>1, <1>3, Constants DEF JoinTypesOK
<1>10. late' \in BOOLEAN
  BY <1>3, <1>2, Zenon
<1>11. phase' \in {"open", "flushed", "crashed"} /\ phase' # "flushed"
  BY <1>3
<1>12. JoinTypesOK'
  BY <1>3, <1>5, <1>6, <1>7, <1>9, <1>10, <1>11 DEF JoinTypesOK
<1>13. ~late' => Current(join', log', out')
  BY <1>3, <1>8
<1> QED
  BY <1>11, <1>12, <1>13 DEF JoinInv, Current

(* The streams end. *)
LEMMA EndInv ==
  ASSUME JoinInv, End
  PROVE  JoinInv'
<1>1. JoinTypesOK
  BY DEF JoinInv
<1>2. join \in Joins /\ Formed(join, log) /\ Numbered(log) /\ out \in Seq(Outputs)
  BY <1>1 DEF JoinTypesOK
<1>3. phase = "open" /\ log' = log /\ arrived' = arrived /\ late' = late
  BY DEF End
<1>4. CASE FlushCrashes(join)
  <2>1. phase' = "crashed" /\ join' = join /\ out' = out
    BY <1>4 DEF End
  <2>2. JoinTypesOK'
    BY <1>1, <1>3, <2>1 DEF JoinTypesOK
  <2>3. ~late' => Current(join', log', out')
    BY <1>3, <2>1 DEF JoinInv
  <2> QED BY <2>1, <2>2, <2>3 DEF JoinInv, Current
<1>5. CASE ~FlushCrashes(join)
  <2> DEFINE r == JoinFlush(join)
  <2>1. phase' = "flushed" /\ join' = r.op /\ out' = out \o r.out
    BY <1>5 DEF End
  <2>2. r.op \in Joins /\ Formed(r.op, log) /\ r.out \in Seq(Outputs)
    BY <1>2, FlushTypes
  <2>3. ASSUME ~late PROVE Final(r.op, log, out \o r.out)
    <3>1. Current(join, log, out)
      BY <1>3, <2>3 DEF JoinInv
    <3> QED BY <3>1, <1>2, <1>5, FlushFinal
  <2> HIDE DEF r
  <2>4. out \o r.out \in Seq(Outputs)
    BY <1>2, <2>2, ConcatProperties
  <2>5. JoinTypesOK'
    BY <1>1, <1>3, <2>1, <2>2, <2>4 DEF JoinTypesOK
  <2>6. ~late' => Final(join', log', out')
    BY <1>3, <2>1, <2>3
  <2> QED BY <2>1, <2>5, <2>6 DEF JoinInv, Final
<1> QED
  BY <1>4, <1>5

(* Every step keeps the invariant. *)
LEMMA NextInv ==
  ASSUME JoinInv, [Next]_vars
  PROVE  JoinInv'
<1>1. CASE End
  BY <1>1, EndInv
<1>2. ASSUME NEW c \in Side, NEW ts \in 1 .. MaxTs, NEW key \in Keys,
             Arrive([kind |-> "REGULAR", ch |-> c, ts |-> ts, key |-> key, id |-> arrived + 1])
      PROVE  JoinInv'
  <2> DEFINE tup == [kind |-> "REGULAR", ch |-> c, ts |-> ts, key |-> key, id |-> arrived + 1]
  <2>1. arrived \in Nat /\ arrived < MaxTuples /\ arrived + 1 \in 1 .. MaxTuples
    BY <1>2, Constants DEF JoinInv, JoinTypesOK, Arrive
  <2>2. tup \in Tuples /\ tup.ch \in Side /\ tup.ts \in 1 .. MaxTs /\ tup.id = arrived + 1
    BY <2>1 DEF Tuples
  <2>3. Arrive(tup)
    BY <1>2
  <2> HIDE DEF tup
  <2> QED BY <2>2, <2>3, ArriveInv DEF Incoming
<1>3. ASSUME NEW c \in Side, NEW ts \in 1 .. MaxTs, NEW kind \in {"FILTERED", "TEMPORAL"},
             Arrive([kind |-> kind, ch |-> c, ts |-> ts])
      PROVE  JoinInv'
  <2> DEFINE tup == [kind |-> kind, ch |-> c, ts |-> ts]
  <2>1. ~Queues(tup) /\ tup.ch \in Side /\ tup.ts \in 1 .. MaxTs
    BY DEF Queues
  <2>2. Arrive(tup)
    BY <1>3
  <2> HIDE DEF tup
  <2> QED BY <2>1, <2>2, ArriveInv DEF Incoming
<1>4. CASE UNCHANGED vars
  <2>1. join' = join /\ log' = log /\ arrived' = arrived /\ out' = out /\ late' = late /\ phase' = phase
    BY <1>4 DEF vars
  <2> QED BY <2>1 DEF JoinInv, JoinTypesOK, Current, Final
<1> QED
  BY <1>1, <1>2, <1>3, <1>4 DEF Next

(* JoinInv holds in every reachable state of the join, for every type of join,
   any keys and any bounds on timestamps and tuples. *)
THEOREM JoinInvariant == Spec => []JoinInv
BY InitInv, NextInv, PTL DEF Spec
-----------------------------------------------------------------------------
(* The properties. *)

(* The join as SQL defines it is the join of the invariant. *)
LEMMA ExpectedIs ==
  ASSUME JoinTypesOK, NEW x
  PROVE  x \in Expected <=> InJoin(join, log, x)
<1>0. \A t \in log : t.ch \in Side
  BY TupleFields DEF JoinTypesOK, Numbered
<1> DEFINE P == {q \in Of(0) \X Of(1) : q[2] \in Mate(q[1])}
           U(c) == {u \in Of(c) : Preserves(join, c) /\ Mate(u) = {}}
           A == {Pair(p[1], p[2]) : p \in P}
           B == UNION {{Alone(c, t) : t \in U(c)} : c \in Side}
<1>1. x \in Expected <=> x \in A \/ x \in B
  BY Zenon DEF Expected
<1>2. x \in A <=> \E l, r \in log : Matching(l, r) /\ x = Pair(l, r)
  <2>1. ASSUME x \in A PROVE \E l, r \in log : Matching(l, r) /\ x = Pair(l, r)
    <3>1. PICK p \in P : x = Pair(p[1], p[2])
      BY <2>1
    <3>2. p[1] \in Of(0) /\ p[2] \in Of(1) /\ p[2] \in Mate(p[1])
      OBVIOUS
    <3>3. p[1] \in log /\ p[2] \in log /\ Matching(p[1], p[2])
      BY <3>2 DEF Of, Mate, Matching
    <3> QED BY <3>1, <3>3
  <2>2. ASSUME NEW l \in log, NEW r \in log, Matching(l, r), x = Pair(l, r) PROVE x \in A
    <3>1. <<l, r>> \in P
      BY <2>2 DEF Of, Mate, Matching
    <3>2. Pair(<<l, r>>[1], <<l, r>>[2]) = x
      BY <2>2
    <3> QED BY <3>1, <3>2
  <2> QED BY <2>1, <2>2
<1>3. x \in B <=> \E t \in log : Preserves(join, t.ch) /\ x = Alone(t.ch, t) /\ NoMate(log, t)
  <2>1. ASSUME x \in B PROVE \E t \in log : Preserves(join, t.ch) /\ x = Alone(t.ch, t) /\ NoMate(log, t)
    <3>1. PICK c \in Side : \E t \in U(c) : x = Alone(c, t)
      BY <2>1
    <3>2. PICK t \in U(c) : x = Alone(c, t)
      BY <3>1
    <3>3. t \in log /\ t.ch = c /\ Preserves(join, c) /\ Mate(t) = {}
      BY DEF Of
    <3>4. NoMate(log, t)
      BY <3>3 DEF NoMate, Mate
    <3> QED BY <3>2, <3>3, <3>4
  <2>2. ASSUME NEW t \in log, Preserves(join, t.ch), x = Alone(t.ch, t), NoMate(log, t) PROVE x \in B
    <3>1. Mate(t) = {}
      BY <2>2 DEF NoMate, Mate
    <3>2. t \in U(t.ch) /\ t.ch \in Side
      BY <2>2, <3>1, <1>0 DEF Of
    <3> QED BY <2>2, <3>2
  <2> QED BY <2>1, <2>2
<1> HIDE DEF A, B
<1> QED
  BY <1>1, <1>2, <1>3 DEF InJoin, NoMate

(* The types: queues and tables hold admitted tuples of their channel, queues
   are in the order of their timestamps and not beyond the largest one, and the
   current timestamp is set when both channels have had a tuple. *)
LEMMA InvTypes == JoinInv => TypeOK
<1> SUFFICES ASSUME JoinInv PROVE TypeOK
  OBVIOUS
<1>1. join \in Joins /\ Formed(join, log)
  BY DEF JoinInv, JoinTypesOK
<1>2. join.max \in [Side -> 0 .. MaxTs] /\ join.saved \in [Side -> 0 .. MaxTs]
  BY <1>1, JoinFields
<1>3. ASSUME NEW c \in Side
      PROVE  /\ Queued(c) \cup join.table[c] \subseteq {t \in log : t.ch = c}
             /\ \A i, k \in 1 .. Len(join.queue[c]) :
                  i < k => join.queue[c][i].ts <= join.queue[c][k].ts /\ join.queue[c][k].ts <= join.max[c]
  <2>1. join.queue[c] \in Seq(Tuples) /\ Len(join.queue[c]) \in Nat
    BY <1>1, JoinFields
  <2>2. DOMAIN join.queue[c] = 1 .. Len(join.queue[c])
    BY <2>1, LenProperties
  <2>3. \A i, k \in 1 .. Len(join.queue[c]) :
          /\ join.queue[c][i] \in log /\ join.queue[c][i].ch = c /\ join.queue[c][i].ts <= join.max[c]
          /\ i <= k => join.queue[c][i].ts <= join.queue[c][k].ts
    BY <1>1 DEF Formed
  <2>4. Queued(c) \subseteq {t \in log : t.ch = c}
    BY <2>2, <2>3 DEF Queued, Range
  <2>5. join.table[c] \subseteq {t \in log : t.ch = c}
    BY <1>1 DEF Formed
  <2>6. \A i, k \in 1 .. Len(join.queue[c]) : i < k => i <= k
    BY <2>1
  <2> QED BY <2>3, <2>4, <2>5, <2>6
<1>4. join.curr = 0 <=> \E c \in Side : join.max[c] = 0
  BY <1>1 DEF Formed
<1> QED
  BY <1>2, <1>3, <1>4 DEF TypeOK

(* What is out is in the join, and what is in the join before the current
   timestamp is out. *)
LEMMA InvResults ==
  ASSUME JoinInv, ~late
  PROVE  /\ InOrder(out)
         /\ \A x \in Outputs : Puts(out, x) => InJoin(join, log, x)
         /\ \A x \in Outputs : InJoin(join, log, x) /\ x.ts < join.curr => Puts(out, x)
<1>1. CASE phase = "flushed"
  BY <1>1 DEF JoinInv, Final
<1>2. CASE phase # "flushed"
  <2>1. Current(join, log, out)
    BY <1>2 DEF JoinInv
  <2>2. join \in Joins /\ Formed(join, log) /\ Numbered(log) /\ Pending(join, log)
    BY <2>1 DEF JoinInv, JoinTypesOK, Current
  <2>3. \A x : Done(join, log, x) <=> (InJoin(join, log, x) /\ x.ts < join.curr) \/ TablePair(join, x)
    BY DoneIs
  <2>4. \A x : TablePair(join, x) => InJoin(join, log, x)
    BY <2>2, TablePairIs
  <2> QED BY <2>1, <2>3, <2>4 DEF Current
<1> QED
  BY <1>1, <1>2

(* The results that are out are of the join, in order and different. *)
LEMMA InvMatches == JoinInv => ResultsAreMatches
<1> SUFFICES ASSUME JoinInv, ~late
             PROVE  /\ \A i \in Results : out[i] \in Expected
                    /\ \A i, k \in Results : i < k => out[i] # out[k] /\ out[i].ts <= out[k].ts
  BY DEF ResultsAreMatches
<1>1. JoinTypesOK /\ out \in Seq(Outputs)
  BY DEF JoinInv, JoinTypesOK
<1>2. InOrder(out) /\ \A x \in Outputs : Puts(out, x) => InJoin(join, log, x)
  BY InvResults
<1>3. \A i \in Results : i \in 1 .. Len(out) /\ out[i].type = "REGULAR" /\ out[i] \in Outputs
  BY <1>1, ElementOfSeq DEF Results
<1>4. \A i \in Results : Puts(out, out[i])
  BY <1>3 DEF Puts
<1>5. \A i \in Results : InJoin(join, log, out[i])
  BY <1>2, <1>3, <1>4
<1>6. \A i \in Results : out[i] \in Expected
  BY <1>1, <1>5, ExpectedIs
<1>7. \A i, k \in Results : i < k => out[i] # out[k] /\ out[i].ts <= out[k].ts
  BY <1>2, <1>3 DEF InOrder
<1> QED
  BY <1>6, <1>7

(* The join before the current timestamp is out. *)
LEMMA InvComplete == JoinInv => CompleteBelow
<1> SUFFICES ASSUME JoinInv, ~late, NEW r \in Expected, r.ts < join.curr
             PROVE  \E i \in Results : out[i] = r
  BY DEF CompleteBelow
<1>1. JoinTypesOK /\ join \in Joins /\ Numbered(log)
  BY DEF JoinInv, JoinTypesOK
<1>2. InJoin(join, log, r)
  BY <1>1, ExpectedIs
<1>3. r \in Outputs
  BY <1>1, <1>2, InJoinIs
<1>4. Puts(out, r)
  BY <1>2, <1>3, InvResults
<1> QED
  BY <1>4 DEF Puts, Results

(* TypeOK holds for every type of join, any keys and any bounds. *)
THEOREM JoinTypesHold == Spec => []TypeOK
BY JoinInvariant, InvTypes, PTL

(* Unless a queued tuple was left behind, every result that join_eq_hash_operator
   puts out belongs to the join of all admitted tuples, those that arrive later
   included, none is put out twice, and they are in the order of their
   timestamps. *)
THEOREM ResultsAreOfTheJoin == Spec => []ResultsAreMatches
BY JoinInvariant, InvMatches, PTL

(* Unless a queued tuple was left behind, the results of every timestamp before
   the current one are out. *)
THEOREM JoinIsComplete == Spec => []CompleteBelow
BY JoinInvariant, InvComplete, PTL
=============================================================================
