--------------------------- MODULE StreamQueryCounts ---------------------------
(***************************************************************************)
(* A query over two sources loses no packet and counts none twice, reports *)
(* every group once and the epochs in order: proved for any number of      *)
(* groups, epochs, packets and clock signals, and tables of any size.      *)
(***************************************************************************)
EXTENDS StreamQueryProofs

-----------------------------------------------------------------------------
(* Sums. *)

(* The sum of w[1] to w[n]. *)
Total(w, n) ==
  LET sum[i \in 0 .. n] == IF i = 0 THEN 0 ELSE sum[i - 1] + w[i] IN sum[n]

(* The equation of Total's recursion, for a function; and number by number. *)
SumTo(w, n, f) ==
  f = [i \in 0 .. n |-> IF i = 0 THEN 0 ELSE f[i - 1] + w[i]]

SumToAt(w, n, f) ==
  /\ f = [i \in 0 .. n |-> f[i]]
  /\ f[0] = 0
  /\ \A i \in 1 .. n : f[i] = f[i - 1] + w[i]

LEMMA SumToIsAt ==
  ASSUME NEW w, NEW n, n \in Nat, NEW f
  PROVE  SumTo(w, n, f) <=> SumToAt(w, n, f)
<1> DEFINE E(i) == IF i = 0 THEN 0 ELSE f[i - 1] + w[i]
           h == [i \in 0 .. n |-> E(i)]
<1>1. SumTo(w, n, f) <=> f = h
  BY DEF SumTo
<1>2. \A i \in 0 .. n : h[i] = E(i)
  <2> HIDE DEF E
  <2> QED OBVIOUS
<1>3. f = h <=> f = [i \in 0 .. n |-> f[i]] /\ \A i \in 0 .. n : f[i] = E(i)
  <2> HIDE DEF E
  <2> QED OBVIOUS
<1>4. E(0) = 0 /\ \A i \in 1 .. n : E(i) = f[i - 1] + w[i]
  OBVIOUS
<1>5. \A i \in 0 .. n : i = 0 \/ i \in 1 .. n
  OBVIOUS
<1>6. 0 \in 0 .. n /\ \A i \in 1 .. n : i \in 0 .. n
  OBVIOUS
<1> HIDE DEF E, h
<1> QED BY <1>1, <1>3, <1>4, <1>5, <1>6, Zenon DEF SumToAt

LEMMA TotalSolves ==
  ASSUME NEW n \in Nat, NEW w, \A i \in 1 .. n : w[i] \in Nat
  PROVE  \E r : /\ Total(w, n) = r[n] /\ r[0] = 0
                /\ \A i \in 1 .. n : r[i] = r[i - 1] + w[i]
                /\ \A i \in 0 .. n : r[i] \in Nat
<1> DEFINE l == n
           b == 0
           step == [x \in (1 .. l) \X Nat |-> x[2] + w[x[1]]]
<1>0. l \in Nat /\ b \in Nat
  OBVIOUS
<1>1. \A i \in 1 .. l : \A x \in Nat : x + w[i] \in Nat
  OBVIOUS
<1> HIDE DEF b
<1>2. \A i \in 1 .. l : \A x \in Nat :
        step[<<i, x>>] = x + w[i] /\ step[<<i, x>>] \in Nat
  BY <1>1
<1>3. StaysIn(Nat, l, step)
  <2> HIDE DEF step
  <2> QED BY <1>2 DEF StaysIn
<1>4. PICK f : Solution(f, l, Nat, b, step)
  <2> HIDE DEF step
  <2> QED BY <1>0, <1>3, Recursion, Zenon
<1>5. SumTo(w, n, f)
  <2>1. \A i \in 1 .. l : i - 1 \in 0 .. l
    BY <1>0
  <2> HIDE DEF step, l
  <2>2. f \in [0 .. l -> Nat] /\ f[0] = b /\ \A i \in 1 .. l : f[i] = step[<<i, f[i - 1]>>]
    BY <1>4 DEF Solution
  <2>3. \A i \in 1 .. l : f[i] = f[i - 1] + w[i]
    BY <1>2, <2>1, <2>2
  <2>4. f = [i \in 0 .. l |-> f[i]]
    BY <2>2
  <2> QED BY <1>0, <2>2, <2>3, <2>4, SumToIsAt, Zenon DEF SumToAt, l, b
<1> DEFINE r == CHOOSE g : SumTo(w, n, g)
<1>6. SumTo(w, n, r)
  BY <1>5, Zenon
<1>7. Total(w, n) = r[n]
  BY DEF Total, SumTo
<1> HIDE DEF r, step
<1>8. SumToAt(w, n, r)
  <2>1. n \in Nat
    BY <1>0
  <2> QED BY <1>6, <2>1, SumToIsAt, Zenon
<1>9. r[0] \in Nat
  BY <1>0, <1>8, Zenon DEF SumToAt, b
<1>10. \A i \in 1 .. l : r[i] = r[i - 1] + w[i]
  BY <1>8 DEF SumToAt
<1>11. \A i \in 1 .. l : r[i - 1] \in Nat => r[i] \in Nat
  BY <1>1, <1>10, Zenon
<1> HIDE DEF l
<1>12. \A i \in 0 .. l : r[i] \in Nat
  BY <1>0, <1>9, <1>11, AllIn
<1>13. r[0] = 0 /\ \A i \in 1 .. n : r[i] = r[i - 1] + w[i]
  BY <1>8 DEF SumToAt
<1> QED
  BY <1>7, <1>12, <1>13 DEF l

LEMMA TotalType ==
  ASSUME NEW n \in Nat, NEW w, \A i \in 1 .. n : w[i] \in Nat
  PROVE  Total(w, n) \in Nat
<1>1. PICK r : Total(w, n) = r[n] /\ \A i \in 0 .. n : r[i] \in Nat
  BY TotalSolves
<1> QED
  BY <1>1

LEMMA TotalZero ==
  ASSUME NEW w
  PROVE  Total(w, 0) = 0
<1>1. \A i \in 1 .. 0 : w[i] \in Nat
  OBVIOUS
<1>2. PICK r : Total(w, 0) = r[0] /\ r[0] = 0
  BY <1>1, TotalSolves
<1> QED
  BY <1>2

(* Sums of the same numbers are the same. *)
LEMMA TotalSame ==
  ASSUME NEW n \in Nat, NEW w, NEW v, \A i \in 1 .. n : w[i] \in Nat /\ v[i] = w[i]
  PROVE  Total(w, n) = Total(v, n)
<1>1. PICK r : /\ Total(w, n) = r[n] /\ r[0] = 0 /\ \A i \in 1 .. n : r[i] = r[i - 1] + w[i]
  BY TotalSolves
<1>0. \A i \in 1 .. n : v[i] \in Nat
  OBVIOUS
<1>2. PICK q : /\ Total(v, n) = q[n] /\ q[0] = 0 /\ \A i \in 1 .. n : q[i] = q[i - 1] + v[i]
  BY <1>0, TotalSolves
<1> DEFINE G == {i \in 0 .. n : r[i] = q[i]}
<1>3. 0 \in G
  BY <1>1, <1>2
<1>4. \A i \in 1 .. n : i - 1 \in G => i \in G
  BY <1>1, <1>2
<1>5. \A i \in 0 .. n : i \in G
  <2> HIDE DEF G
  <2> QED BY <1>3, <1>4, UpTo
<1>6. n \in G
  BY <1>5
<1> QED
  BY <1>1, <1>2, <1>6

LEMMA TotalNext ==
  ASSUME NEW n \in Nat, NEW w, \A i \in 1 .. n + 1 : w[i] \in Nat
  PROVE  Total(w, n + 1) = Total(w, n) + w[n + 1]
<1>1. PICK r : /\ Total(w, n + 1) = r[n + 1] /\ r[0] = 0 /\ \A i \in 1 .. n + 1 : r[i] = r[i - 1] + w[i]
  BY TotalSolves
<1>2. PICK q : /\ Total(w, n) = q[n] /\ q[0] = 0 /\ \A i \in 1 .. n : q[i] = q[i - 1] + w[i]
  BY TotalSolves
<1> DEFINE G == {i \in 0 .. n : r[i] = q[i]}
<1>3. 0 \in G
  BY <1>1, <1>2
<1>4. \A i \in 1 .. n : i - 1 \in G => i \in G
  BY <1>1, <1>2
<1>5. \A i \in 0 .. n : i \in G
  <2> HIDE DEF G
  <2> QED BY <1>3, <1>4, UpTo
<1>6. r[n] = q[n]
  BY <1>5
<1>7. r[n + 1] = r[n] + w[n + 1]
  BY <1>1
<1> QED
  BY <1>1, <1>2, <1>6, <1>7

(* A sum goes on where the first part ends. *)
LEMMA TotalConcat ==
  ASSUME NEW n \in Nat, NEW m \in Nat, NEW w, NEW v,
         \A i \in 1 .. n + m : w[i] \in Nat, \A i \in 1 .. m : v[i] = w[n + i]
  PROVE  Total(w, n + m) = Total(w, n) + Total(v, m)
<1> DEFINE G == {i \in 0 .. m : Total(w, n + i) = Total(w, n) + Total(v, i)}
<1>0. Total(w, n) \in Nat
  BY TotalType
<1>1. 0 \in G
  BY <1>0, TotalZero
<1>2. ASSUME NEW i \in 1 .. m, i - 1 \in G PROVE i \in G
  <2> DEFINE j == i - 1
  <2>1. j \in Nat /\ n + j \in Nat /\ j + 1 = i /\ (n + j) + 1 = n + i /\ v[i] = w[n + i] /\ i \in 0 .. m
    OBVIOUS
  <2>2. \A x \in 1 .. (n + j) + 1 : w[x] \in Nat
    OBVIOUS
  <2>3. \A x \in 1 .. j + 1 : v[x] \in Nat
    OBVIOUS
  <2>4. Total(w, n + j) = Total(w, n) + Total(v, j)
    BY <1>2
  <2> HIDE DEF j
  <2>5. Total(w, (n + j) + 1) = Total(w, n + j) + w[(n + j) + 1]
    BY <2>1, <2>2, TotalNext
  <2>6. Total(v, j + 1) = Total(v, j) + v[j + 1]
    BY <2>1, <2>3, TotalNext
  <2>7. Total(v, j) \in Nat /\ w[n + i] \in Nat
    BY <2>1, <2>3, TotalType
  <2>8. Total(w, n + i) = Total(w, n) + Total(v, i)
    BY <1>0, <2>1, <2>4, <2>5, <2>6, <2>7
  <2> QED
    BY <2>1, <2>8
<1>3. \A i \in 0 .. m : i \in G
  <2> HIDE DEF G
  <2> QED BY <1>1, <1>2, UpTo
<1>4. m \in G
  BY <1>3
<1> QED
  BY <1>4

(* One number changes. *)
LEMMA TotalChange ==
  ASSUME NEW n \in Nat, NEW w, NEW v, NEW b \in 1 .. n,
         \A i \in 1 .. n : w[i] \in Nat /\ v[i] \in Nat /\ (i # b => v[i] = w[i])
  PROVE  Total(v, n) + w[b] = Total(w, n) + v[b]
<1> DEFINE P(i) == /\ i < b => Total(v, i) = Total(w, i)
                   /\ i >= b => Total(v, i) + w[b] = Total(w, i) + v[b]
           G == {i \in 0 .. n : P(i)}
<1>1. 0 \in G
  BY TotalZero
<1>2. ASSUME NEW i \in 1 .. n, i - 1 \in G PROVE i \in G
  <2> DEFINE j == i - 1
  <2>1. j \in Nat /\ j + 1 = i /\ i \in 0 .. n /\ w[i] \in Nat /\ v[i] \in Nat /\ w[b] \in Nat /\ v[b] \in Nat
    OBVIOUS
  <2>2. (\A x \in 1 .. j + 1 : w[x] \in Nat) /\ (\A x \in 1 .. j + 1 : v[x] \in Nat)
    OBVIOUS
  <2>3. /\ j < b => Total(v, j) = Total(w, j)
        /\ j >= b => Total(v, j) + w[b] = Total(w, j) + v[b]
    <3>1. P(j)
      <4> HIDE DEF P
      <4> QED BY <1>2
    <3> HIDE DEF j
    <3> QED BY <3>1
  <2>4. i # b => v[i] = w[i]
    OBVIOUS
  <2> HIDE DEF j
  <2>5. Total(w, j + 1) = Total(w, j) + w[j + 1]
    BY <2>1, <2>2, TotalNext
  <2>6. Total(v, j + 1) = Total(v, j) + v[j + 1]
    BY <2>1, <2>2, TotalNext
  <2>7. Total(v, j) \in Nat /\ Total(w, j) \in Nat
    BY <2>1, <2>2, TotalType
  <2>8. (i < b => Total(v, i) = Total(w, i)) /\ (i >= b => Total(v, i) + w[b] = Total(w, i) + v[b])
    BY <2>1, <2>3, <2>4, <2>5, <2>6, <2>7
  <2> QED
    BY <2>1, <2>8
<1>3. \A i \in 0 .. n : i \in G
  <2> HIDE DEF G
  <2> QED BY <1>1, <1>2, UpTo
<1>4. n \in G
  BY <1>3
<1> QED
  BY <1>4

(* Nothing but zeros. *)
LEMMA TotalNothing ==
  ASSUME NEW n \in Nat, NEW w, \A i \in 1 .. n : w[i] = 0
  PROVE  Total(w, n) = 0
<1> DEFINE G == {i \in 0 .. n : Total(w, i) = 0}
<1>1. 0 \in G
  BY TotalZero
<1>2. ASSUME NEW i \in 1 .. n, i - 1 \in G PROVE i \in G
  <2> DEFINE j == i - 1
  <2>1. j \in Nat /\ j + 1 = i /\ i \in 0 .. n /\ w[i] = 0 /\ \A x \in 1 .. j + 1 : w[x] \in Nat
    OBVIOUS
  <2>2. Total(w, j) = 0
    BY <1>2
  <2> HIDE DEF j
  <2>3. Total(w, j + 1) = Total(w, j) + w[j + 1]
    BY <2>1, TotalNext
  <2> QED
    BY <2>1, <2>2, <2>3
<1>3. \A i \in 0 .. n : i \in G
  <2> HIDE DEF G
  <2> QED BY <1>1, <1>2, UpTo
<1>4. n \in G
  BY <1>3
<1> QED
  BY <1>4

(* Numbers that add up step by step are the sums. *)
LEMMA TotalIs ==
  ASSUME NEW n \in Nat, NEW w, \A i \in 1 .. n : w[i] \in Nat,
         NEW q, q[0] = 0, \A i \in 1 .. n : q[i] = q[i - 1] + w[i]
  PROVE  q[n] = Total(w, n)
<1>1. PICK r : /\ Total(w, n) = r[n] /\ r[0] = 0 /\ \A i \in 1 .. n : r[i] = r[i - 1] + w[i]
  BY TotalSolves
<1> DEFINE G == {i \in 0 .. n : r[i] = q[i]}
<1>3. 0 \in G
  BY <1>1
<1>4. \A i \in 1 .. n : i - 1 \in G => i \in G
  BY <1>1
<1>5. \A i \in 0 .. n : i \in G
  <2> HIDE DEF G
  <2> QED BY <1>3, <1>4, UpTo
<1>6. n \in G
  BY <1>5
<1> QED
  BY <1>1, <1>6

-----------------------------------------------------------------------------
(* The packets of a group in a sequence of tuples or rows. *)

Share(x, k) == IF x.gb = k[1] /\ x.grp = k[2] THEN x.cnt ELSE 0
Counted     == UNION {AnyTuples, Rows}
Shares(q, k) == [i \in 1 .. Len(q) |-> Share(q[i], k)]

LEMMA ShareType ==
  ASSUME NEW x \in Counted, NEW k
  PROVE  Share(x, k) \in Nat
<1>1. x \in DataTuples \/ x = Eof \/ x \in Rows
  BY DEF Counted, AnyTuples
<1>2. x \in DataTuples => x.cnt \in Nat
  BY DataGb
<1>3. x = Eof => x.cnt \in Nat
  BY DEF Eof
<1>4. x \in Rows => x.cnt \in Nat
  BY DEF Rows
<1> QED
  BY <1>1, <1>2, <1>3, <1>4 DEF Share

(* The equation of InSeq's recursion, for a function; and number by number. *)
InSeqTo(q, k, f) ==
  f = [n \in 0 .. Len(q) |-> IF n = 0 THEN 0 ELSE f[n - 1] + Share(q[n], k)]

InSeqToAt(q, k, f) ==
  /\ f = [n \in 0 .. Len(q) |-> f[n]]
  /\ f[0] = 0
  /\ \A n \in 1 .. Len(q) : f[n] = f[n - 1] + Share(q[n], k)

LEMMA InSeqToIsAt ==
  ASSUME NEW q, NEW k, Len(q) \in Nat, NEW f
  PROVE  InSeqTo(q, k, f) <=> InSeqToAt(q, k, f)
<1> DEFINE E(n) == IF n = 0 THEN 0 ELSE f[n - 1] + Share(q[n], k)
           h == [n \in 0 .. Len(q) |-> E(n)]
<1>1. InSeqTo(q, k, f) <=> f = h
  BY DEF InSeqTo
<1>2. \A n \in 0 .. Len(q) : h[n] = E(n)
  <2> HIDE DEF E
  <2> QED OBVIOUS
<1>3. f = h <=> f = [n \in 0 .. Len(q) |-> f[n]] /\ \A n \in 0 .. Len(q) : f[n] = E(n)
  <2> HIDE DEF E
  <2> QED OBVIOUS
<1>4. E(0) = 0 /\ \A n \in 1 .. Len(q) : E(n) = f[n - 1] + Share(q[n], k)
  OBVIOUS
<1>5. \A n \in 0 .. Len(q) : n = 0 \/ n \in 1 .. Len(q)
  OBVIOUS
<1>6. 0 \in 0 .. Len(q) /\ \A n \in 1 .. Len(q) : n \in 0 .. Len(q)
  OBVIOUS
<1> HIDE DEF E, h
<1> QED BY <1>1, <1>3, <1>4, <1>5, <1>6, Zenon DEF InSeqToAt

LEMMA InSeqSolves ==
  ASSUME NEW q \in Seq(Counted), NEW k
  PROVE  \E r : /\ InSeq(q, k) = r[Len(q)]
                /\ r[0] = 0 /\ \A i \in 1 .. Len(q) : r[i] = r[i - 1] + Share(q[i], k)
                /\ \A i \in 0 .. Len(q) : r[i] \in Nat
<1> DEFINE l == Len(q)
           b == 0
           step == [x \in (1 .. l) \X Nat |-> x[2] + Share(q[x[1]], k)]
<1>0. l \in Nat /\ b \in Nat /\ \A i \in 1 .. l : q[i] \in Counted
  OBVIOUS
<1>1. \A i \in 1 .. l : \A x \in Nat : x + Share(q[i], k) \in Nat
  BY <1>0, ShareType
<1> HIDE DEF b
<1>2. \A i \in 1 .. l : \A x \in Nat :
        step[<<i, x>>] = x + Share(q[i], k) /\ step[<<i, x>>] \in Nat
  BY <1>1
<1>3. StaysIn(Nat, l, step)
  <2> HIDE DEF step
  <2> QED BY <1>2 DEF StaysIn
<1>4. PICK f : Solution(f, l, Nat, b, step)
  <2> HIDE DEF step
  <2> QED BY <1>0, <1>3, Recursion, Zenon
<1>5. InSeqTo(q, k, f)
  <2>1. \A i \in 1 .. l : i - 1 \in 0 .. l
    BY <1>0
  <2> HIDE DEF step, l
  <2>2. f \in [0 .. l -> Nat] /\ f[0] = b /\ \A i \in 1 .. l : f[i] = step[<<i, f[i - 1]>>]
    BY <1>4 DEF Solution
  <2>3. \A i \in 1 .. l : f[i] = f[i - 1] + Share(q[i], k)
    BY <1>2, <2>1, <2>2
  <2>4. f = [i \in 0 .. l |-> f[i]]
    BY <2>2
  <2> QED BY <1>0, <2>2, <2>3, <2>4, InSeqToIsAt, Zenon DEF InSeqToAt, l, b
<1> DEFINE r == CHOOSE g : InSeqTo(q, k, g)
<1>6. InSeqTo(q, k, r)
  BY <1>5, Zenon
<1>7. InSeq(q, k) = r[l]
  BY DEF InSeq, InSeqTo, Share
<1> HIDE DEF r, step
<1>8. InSeqToAt(q, k, r)
  <2>1. Len(q) \in Nat
    BY <1>0
  <2> QED BY <1>6, <2>1, InSeqToIsAt, Zenon
<1>9. r[0] \in Nat
  BY <1>0, <1>8, Zenon DEF InSeqToAt, b
<1>10. \A i \in 1 .. l : r[i] = r[i - 1] + Share(q[i], k)
  BY <1>8 DEF InSeqToAt
<1>11. \A i \in 1 .. l : r[i - 1] \in Nat => r[i] \in Nat
  BY <1>1, <1>10, Zenon
<1> HIDE DEF l
<1>12. \A i \in 0 .. l : r[i] \in Nat
  BY <1>0, <1>9, <1>11, AllIn
<1>13. r[0] = 0 /\ \A i \in 1 .. Len(q) : r[i] = r[i - 1] + Share(q[i], k)
  BY <1>8 DEF InSeqToAt
<1> QED
  BY <1>7, <1>12, <1>13 DEF l

LEMMA InSeqTotal ==
  ASSUME NEW q \in Seq(Counted), NEW k
  PROVE  /\ InSeq(q, k) = Total(Shares(q, k), Len(q)) /\ InSeq(q, k) \in Nat
         /\ \A i \in 1 .. Len(q) : Shares(q, k)[i] = Share(q[i], k) /\ Share(q[i], k) \in Nat
<1>0. \A i \in 1 .. Len(q) : Shares(q, k)[i] = Share(q[i], k) /\ Share(q[i], k) \in Nat
  BY ShareType DEF Shares
<1>1. PICK r : /\ InSeq(q, k) = r[Len(q)] /\ r[0] = 0
               /\ \A i \in 1 .. Len(q) : r[i] = r[i - 1] + Share(q[i], k)
  BY InSeqSolves
<1> DEFINE w == Shares(q, k)
           n == Len(q)
<1>2. n \in Nat /\ \A i \in 1 .. n : w[i] \in Nat /\ r[i] = r[i - 1] + w[i]
  BY <1>0, <1>1
<1>3. r[0] = 0 /\ InSeq(q, k) = r[n]
  BY <1>1
<1>4. Total(w, n) \in Nat
  <2> HIDE DEF w, n
  <2> QED BY <1>2, TotalType
<1>5. r[n] = Total(w, n)
  <2> HIDE DEF w, n
  <2> QED BY <1>2, <1>3, TotalIs
<1> QED
  BY <1>0, <1>3, <1>4, <1>5

LEMMA InSeqNone ==
  ASSUME NEW q \in Seq(Counted), NEW k, \A i \in 1 .. Len(q) : Share(q[i], k) = 0
  PROVE  InSeq(q, k) = 0
<1> DEFINE w == Shares(q, k)
           n == Len(q)
<1>1. n \in Nat /\ InSeq(q, k) = Total(w, n) /\ \A i \in 1 .. n : w[i] = 0
  BY InSeqTotal
<1> HIDE DEF w, n
<1> QED
  BY <1>1, TotalNothing

LEMMA InSeqEmpty ==
  ASSUME NEW k
  PROVE  InSeq(<<>>, k) = 0
<1>1. <<>> \in Seq(Counted) /\ \A i \in 1 .. Len(<<>>) : Share(<<>>[i], k) = 0
  OBVIOUS
<1> QED
  BY <1>1, InSeqNone

(* Sequences of the same counts. *)
LEMMA InSeqSame ==
  ASSUME NEW q \in Seq(Counted), NEW p \in Seq(Counted), NEW k, Len(p) = Len(q),
         \A i \in 1 .. Len(q) : Share(p[i], k) = Share(q[i], k)
  PROVE  InSeq(p, k) = InSeq(q, k)
<1> DEFINE w == Shares(q, k)
           v == Shares(p, k)
           n == Len(q)
<1>1. n \in Nat /\ InSeq(q, k) = Total(w, n) /\ InSeq(p, k) = Total(v, n)
  BY InSeqTotal
<1>2. \A i \in 1 .. n : w[i] \in Nat /\ v[i] = w[i]
  BY InSeqTotal
<1> HIDE DEF w, v, n
<1> QED
  BY <1>1, <1>2, TotalSame

LEMMA InSeqConcat ==
  ASSUME NEW q \in Seq(Counted), NEW p \in Seq(Counted), NEW k
  PROVE  q \o p \in Seq(Counted) /\ InSeq(q \o p, k) = InSeq(q, k) + InSeq(p, k)
<1> DEFINE r == q \o p
           w == Shares(r, k)
           u == Shares(q, k)
           v == Shares(p, k)
           n == Len(q)
           m == Len(p)
<1>0. n \in Nat /\ m \in Nat /\ r \in Seq(Counted) /\ Len(r) = n + m
  OBVIOUS
<1>1. InSeq(r, k) = Total(w, n + m) /\ InSeq(q, k) = Total(u, n) /\ InSeq(p, k) = Total(v, m)
  BY <1>0, InSeqTotal
<1>2. \A i \in 1 .. n + m : w[i] = Share(r[i], k) /\ w[i] \in Nat
  <2> HIDE DEF r, n, m
  <2>1. \A i \in 1 .. Len(r) : w[i] = Share(r[i], k) /\ w[i] \in Nat
    BY <1>0, InSeqTotal, SMTT(30)
  <2> QED BY <1>0, <2>1
<1>3. (\A i \in 1 .. n : u[i] = Share(q[i], k)) /\ (\A i \in 1 .. m : v[i] = Share(p[i], k))
  BY InSeqTotal
<1>4. \A i \in 1 .. m : r[n + i] = p[i] /\ n + i \in 1 .. n + m
  OBVIOUS
<1>5. \A i \in 1 .. n : r[i] = q[i] /\ i \in 1 .. n + m
  OBVIOUS
<1> HIDE DEF w, u, v, n, m, r
<1>6. \A i \in 1 .. m : v[i] = w[n + i]
  BY <1>2, <1>3, <1>4
<1>7. \A i \in 1 .. n : u[i] = w[i] /\ w[i] \in Nat
  BY <1>2, <1>3, <1>5
<1>8. Total(w, n + m) = Total(w, n) + Total(v, m)
  BY <1>0, <1>2, <1>6, TotalConcat
<1>9. Total(w, n) = Total(u, n)
  BY <1>0, <1>7, TotalSame
<1> QED
  BY <1>0, <1>1, <1>8, <1>9 DEF r

LEMMA InSeqOne ==
  ASSUME NEW x \in Counted, NEW k
  PROVE  <<x>> \in Seq(Counted) /\ InSeq(<<x>>, k) = Share(x, k)
<1> DEFINE q == <<x>>
           w == Shares(q, k)
<1>1. q \in Seq(Counted) /\ Len(q) = 1 /\ q[1] = x
  OBVIOUS
<1>2. InSeq(q, k) = Total(w, 1) /\ w[1] = Share(x, k) /\ Share(x, k) \in Nat
  <2>1. Share(x, k) \in Nat
    BY ShareType
  <2> HIDE DEF q
  <2>2. InSeq(q, k) = Total(w, Len(q)) /\ \A i \in 1 .. Len(q) : w[i] = Share(q[i], k)
    BY <1>1, InSeqTotal
  <2> QED BY <1>1, <2>1, <2>2
<1> HIDE DEF w
<1>3. \A i \in 1 .. 0 + 1 : w[i] \in Nat
  BY <1>2
<1>4. Total(w, 0 + 1) = Total(w, 0) + w[0 + 1]
  BY <1>3, TotalNext
<1>5. Total(w, 0) = 0
  BY TotalZero
<1> QED
  BY <1>1, <1>2, <1>4, <1>5

LEMMA InSeqAppend ==
  ASSUME NEW q \in Seq(Counted), NEW x \in Counted, NEW k
  PROVE  Append(q, x) \in Seq(Counted) /\ InSeq(Append(q, x), k) = InSeq(q, k) + Share(x, k)
<1>1. <<x>> \in Seq(Counted) /\ InSeq(<<x>>, k) = Share(x, k)
  BY InSeqOne
<1>2. Append(q, x) = q \o <<x>>
  OBVIOUS
<1> DEFINE p == <<x>>
<1> HIDE DEF p
<1>3. q \o p \in Seq(Counted) /\ InSeq(q \o p, k) = InSeq(q, k) + InSeq(p, k)
  BY <1>1, InSeqConcat DEF p
<1> QED
  BY <1>1, <1>2, <1>3 DEF p

LEMMA InSeqHead ==
  ASSUME NEW q \in Seq(Counted), NEW k, q # <<>>
  PROVE  /\ Tail(q) \in Seq(Counted) /\ Head(q) \in Counted /\ Share(Head(q), k) \in Nat /\ InSeq(Tail(q), k) \in Nat
         /\ InSeq(q, k) = Share(Head(q), k) + InSeq(Tail(q), k)
<1>1. Tail(q) \in Seq(Counted) /\ Head(q) \in Counted
  OBVIOUS
<1>2. q = <<Head(q)>> \o Tail(q)
  <2> DEFINE p == <<Head(q)>> \o Tail(q)
  <2>1. p \in Seq(Counted) /\ Len(p) = Len(q)
    OBVIOUS
  <2>2. \A i \in 1 .. Len(q) : p[i] = q[i]
    OBVIOUS
  <2> HIDE DEF p
  <2>3. p = q
    BY <2>1, <2>2, SeqEqual
  <2> QED BY <2>3 DEF p
<1>3. <<Head(q)>> \in Seq(Counted) /\ InSeq(<<Head(q)>>, k) = Share(Head(q), k)
  BY <1>1, InSeqOne
<1>4. InSeq(Tail(q), k) \in Nat /\ Share(Head(q), k) \in Nat
  BY <1>1, InSeqTotal, ShareType
<1>5. InSeq(<<Head(q)>> \o Tail(q), k) = InSeq(<<Head(q)>>, k) + InSeq(Tail(q), k)
  BY <1>1, <1>3, InSeqConcat
<1> QED
  BY <1>1, <1>2, <1>3, <1>4, <1>5

(* All numbers but one are zero. *)
LEMMA TotalOnly ==
  ASSUME NEW n \in Nat, NEW w, NEW b \in 1 .. n, w[b] \in Nat, \A i \in 1 .. n : i # b => w[i] = 0
  PROVE  Total(w, n) = w[b]
<1> DEFINE v == [i \in 1 .. n |-> 0]
<1>1. \A i \in 1 .. n : w[i] \in Nat /\ v[i] \in Nat /\ (i # b => v[i] = w[i])
  OBVIOUS
<1>2. \A i \in 1 .. n : v[i] = 0
  OBVIOUS
<1> HIDE DEF v
<1>3. Total(v, n) + w[b] = Total(w, n) + v[b]
  BY <1>1, TotalChange
<1>4. Total(v, n) = 0
  BY <1>2, TotalNothing
<1>5. Total(w, n) \in Nat
  BY <1>1, TotalType
<1> QED
  BY <1>2, <1>3, <1>4, <1>5

(* Numbers at m different places are taken out and added up. *)
LEMMA TotalMoved ==
  ASSUME NEW n \in Nat, NEW m \in Nat, NEW w, NEW v, NEW u, NEW p,
         \A i \in 1 .. n : w[i] \in Nat,
         \A j \in 1 .. m : p[j] \in 1 .. n /\ u[j] = w[p[j]],
         \A i, j \in 1 .. m : p[i] = p[j] => i = j,
         \A i \in 1 .. n : v[i] = IF \E j \in 1 .. m : p[j] = i THEN 0 ELSE w[i]
  PROVE  Total(w, n) = Total(v, n) + Total(u, m)
<1> DEFINE V(j) == [i \in 1 .. n |-> IF \E x \in 1 .. j : p[x] = i THEN 0 ELSE w[i]]
           G == {j \in 0 .. m : Total(w, n) = Total(V(j), n) + Total(u, j)}
<1>0. Total(w, n) \in Nat
  BY TotalType
<1>1. 0 \in G
  <2>1. \A i \in 1 .. n : w[i] \in Nat /\ V(0)[i] = w[i]
    OBVIOUS
  <2> DEFINE z == V(0)
  <2> HIDE DEF z
  <2>2. Total(w, n) = Total(z, n)
    BY <2>1, TotalSame DEF z
  <2>3. Total(u, 0) = 0 /\ 0 \in 0 .. m
    BY TotalZero
  <2>4. Total(w, n) = Total(z, n) + Total(u, 0)
    BY <1>0, <2>2, <2>3
  <2> QED
    BY <2>3, <2>4 DEF z
<1>2. ASSUME NEW j \in 1 .. m, j - 1 \in G PROVE j \in G
  <2> DEFINE h == j - 1
             a == V(h)
             z == V(j)
             b == p[j]
  <2>1. h \in Nat /\ h + 1 = j /\ j \in 0 .. m /\ b \in 1 .. n /\ w[b] \in Nat /\ u[j] = w[b]
    OBVIOUS
  <2>2. \A x \in 1 .. h : x \in 1 .. m /\ x # j
    OBVIOUS
  <2>3. \A x \in 1 .. j : x = j \/ x \in 1 .. h
    OBVIOUS
  <2>3a. \A x \in 1 .. h : x \in 1 .. j
    OBVIOUS
  <2>3b. j \in 1 .. j
    OBVIOUS
  <2>4. \A x \in 1 .. h : p[x] # b
    BY <2>2
  <2> HIDE DEF h
  <2>5. \A i \in 1 .. n : /\ a[i] = IF \E x \in 1 .. h : p[x] = i THEN 0 ELSE w[i]
                          /\ z[i] = IF \E x \in 1 .. j : p[x] = i THEN 0 ELSE w[i]
    OBVIOUS
  <2>6. Total(w, n) = Total(a, n) + Total(u, h)
    BY <1>2 DEF h
  <2>7. \A x \in 1 .. h + 1 : u[x] \in Nat
    BY <2>1
  <2> HIDE DEF a, z, b, V
  <2>8. a[b] = w[b]
    BY <2>1, <2>4, <2>5
  <2>9. z[b] = 0
    BY <2>1, <2>3b, <2>5 DEF b
  <2>10. \A i \in 1 .. n : a[i] \in Nat /\ z[i] \in Nat
    BY <2>5
  <2>11. \A i \in 1 .. n : i # b => z[i] = a[i]
    <3> SUFFICES ASSUME NEW i \in 1 .. n, i # b PROVE z[i] = a[i]
      OBVIOUS
    <3>1. (\E x \in 1 .. j : p[x] = i) <=> (\E x \in 1 .. h : p[x] = i)
      BY <2>3, <2>3a DEF b
    <3> QED BY <2>5, <3>1
  <2>12. Total(z, n) + a[b] = Total(a, n) + z[b]
    BY <2>1, <2>10, <2>11, TotalChange
  <2>13. Total(u, h + 1) = Total(u, h) + u[h + 1]
    BY <2>1, <2>7, TotalNext
  <2>14. Total(z, n) \in Nat /\ Total(a, n) \in Nat
    BY <2>10, TotalType
  <2>15. Total(u, h) \in Nat
    BY <2>1, <2>7, TotalType
  <2>16. Total(w, n) = Total(z, n) + Total(u, j)
    BY <2>1, <2>6, <2>8, <2>9, <2>12, <2>13, <2>14, <2>15
  <2> QED
    BY <2>1, <2>16 DEF z
<1>3. \A j \in 0 .. m : j \in G
  <2> HIDE DEF G
  <2> QED BY <1>1, <1>2, UpTo
<1>4. Total(w, n) = Total(V(m), n) + Total(u, m)
  BY <1>3
<1>5. \A i \in 1 .. n : v[i] \in Nat /\ V(m)[i] = v[i]
  OBVIOUS
<1> DEFINE z == V(m)
<1> HIDE DEF z
<1>6. Total(v, n) = Total(z, n)
  BY <1>5, TotalSame DEF z
<1> QED
  BY <1>4, <1>6 DEF z

(* At most one tuple of the sequence counts for k. *)
LEMMA InSeqOnly ==
  ASSUME NEW q \in Seq(Counted), NEW k, NEW b \in 1 .. Len(q),
         \A i \in 1 .. Len(q) : i # b => Share(q[i], k) = 0
  PROVE  InSeq(q, k) = Share(q[b], k)
<1> DEFINE w == Shares(q, k)
           n == Len(q)
<1>1. n \in Nat /\ InSeq(q, k) = Total(w, n) /\ b \in 1 .. n /\ w[b] = Share(q[b], k) /\ w[b] \in Nat
  BY InSeqTotal
<1>2. \A i \in 1 .. n : i # b => w[i] = 0
  BY InSeqTotal
<1> HIDE DEF w, n
<1> QED
  BY <1>1, <1>2, TotalOnly

-----------------------------------------------------------------------------
(* The packets of a group in the table of an LFTA. *)

SlotShare(s, e, g) == IF s.filled /\ s.gb = e /\ s.grp = g THEN s.cnt ELSE 0
SlotShares(t, e, g) == [i \in 1 .. MaxAggrs |-> SlotShare(t.slot[i - 1], e, g)]

LEMMA SlotShareType ==
  ASSUME NEW t \in Lftas, NEW i \in 1 .. MaxAggrs, NEW e, NEW g
  PROVE  i - 1 \in Slot /\ SlotShare(t.slot[i - 1], e, g) \in Nat
<1>1. i - 1 \in Slot
  BY Numbers DEF Slot
<1>2. t.slot[i - 1] \in Slots
  BY <1>1, LftaFields
<1> QED
  BY <1>1, <1>2 DEF SlotShare, Slots

(* The equation of Held's recursion, for a function; and number by number. *)
HeldTo(t, e, g, f) ==
  f = [n \in 0 .. MaxAggrs |-> IF n = 0 THEN 0 ELSE f[n - 1] + SlotShare(t.slot[n - 1], e, g)]

HeldToAt(t, e, g, f) ==
  /\ f = [n \in 0 .. MaxAggrs |-> f[n]]
  /\ f[0] = 0
  /\ \A n \in 1 .. MaxAggrs : f[n] = f[n - 1] + SlotShare(t.slot[n - 1], e, g)

LEMMA HeldToIsAt ==
  ASSUME NEW t, NEW e, NEW g, MaxAggrs \in Nat, NEW f
  PROVE  HeldTo(t, e, g, f) <=> HeldToAt(t, e, g, f)
<1> DEFINE E(n) == IF n = 0 THEN 0 ELSE f[n - 1] + SlotShare(t.slot[n - 1], e, g)
           h == [n \in 0 .. MaxAggrs |-> E(n)]
<1>1. HeldTo(t, e, g, f) <=> f = h
  BY DEF HeldTo
<1>2. \A n \in 0 .. MaxAggrs : h[n] = E(n)
  <2> HIDE DEF E
  <2> QED OBVIOUS
<1>3. f = h <=> f = [n \in 0 .. MaxAggrs |-> f[n]] /\ \A n \in 0 .. MaxAggrs : f[n] = E(n)
  <2> HIDE DEF E
  <2> QED OBVIOUS
<1>4. E(0) = 0 /\ \A n \in 1 .. MaxAggrs : E(n) = f[n - 1] + SlotShare(t.slot[n - 1], e, g)
  OBVIOUS
<1>5. \A n \in 0 .. MaxAggrs : n = 0 \/ n \in 1 .. MaxAggrs
  OBVIOUS
<1>6. 0 \in 0 .. MaxAggrs /\ \A n \in 1 .. MaxAggrs : n \in 0 .. MaxAggrs
  OBVIOUS
<1> HIDE DEF E, h
<1> QED BY <1>1, <1>3, <1>4, <1>5, <1>6, Zenon DEF HeldToAt

LEMMA HeldSolves ==
  ASSUME NEW t \in Lftas, NEW e, NEW g
  PROVE  \E r : /\ Held(t, e, g) = r[MaxAggrs]
                /\ r[0] = 0 /\ \A i \in 1 .. MaxAggrs : r[i] = r[i - 1] + SlotShare(t.slot[i - 1], e, g)
                /\ \A i \in 0 .. MaxAggrs : r[i] \in Nat
<1> DEFINE l == MaxAggrs
           b == 0
           step == [x \in (1 .. l) \X Nat |-> x[2] + SlotShare(t.slot[x[1] - 1], e, g)]
<1>0. l \in Nat /\ b \in Nat
  BY Numbers
<1>1. \A i \in 1 .. l : \A x \in Nat : x + SlotShare(t.slot[i - 1], e, g) \in Nat
  BY SlotShareType
<1> HIDE DEF b
<1>2. \A i \in 1 .. l : \A x \in Nat :
        step[<<i, x>>] = x + SlotShare(t.slot[i - 1], e, g) /\ step[<<i, x>>] \in Nat
  BY <1>1
<1>3. StaysIn(Nat, l, step)
  <2> HIDE DEF step
  <2> QED BY <1>2 DEF StaysIn
<1>4. PICK f : Solution(f, l, Nat, b, step)
  <2> HIDE DEF step
  <2> QED BY <1>0, <1>3, Recursion, Zenon
<1>5. HeldTo(t, e, g, f)
  <2>1. \A i \in 1 .. l : i - 1 \in 0 .. l
    BY <1>0
  <2> HIDE DEF step, l
  <2>2. f \in [0 .. l -> Nat] /\ f[0] = b /\ \A i \in 1 .. l : f[i] = step[<<i, f[i - 1]>>]
    BY <1>4 DEF Solution
  <2>3. \A i \in 1 .. l : f[i] = f[i - 1] + SlotShare(t.slot[i - 1], e, g)
    BY <1>2, <2>1, <2>2
  <2>4. f = [i \in 0 .. l |-> f[i]]
    BY <2>2
  <2> QED BY <1>0, <2>2, <2>3, <2>4, HeldToIsAt, Zenon DEF HeldToAt, l, b
<1> DEFINE r == CHOOSE y : HeldTo(t, e, g, y)
<1>6. HeldTo(t, e, g, r)
  BY <1>5, Zenon
<1>7. Held(t, e, g) = r[l]
  BY DEF Held, HeldTo, SlotShare
<1> HIDE DEF r, step
<1>8. HeldToAt(t, e, g, r)
  <2>1. MaxAggrs \in Nat
    BY <1>0
  <2> QED BY <1>6, <2>1, HeldToIsAt, Zenon
<1>9. r[0] \in Nat
  BY <1>0, <1>8, Zenon DEF HeldToAt, b
<1>10. \A i \in 1 .. l : r[i] = r[i - 1] + SlotShare(t.slot[i - 1], e, g)
  BY <1>8 DEF HeldToAt
<1>11. \A i \in 1 .. l : r[i - 1] \in Nat => r[i] \in Nat
  BY <1>1, <1>10, Zenon
<1> HIDE DEF l
<1>12. \A i \in 0 .. l : r[i] \in Nat
  BY <1>0, <1>9, <1>11, AllIn
<1>13. r[0] = 0 /\ \A i \in 1 .. MaxAggrs : r[i] = r[i - 1] + SlotShare(t.slot[i - 1], e, g)
  BY <1>8 DEF HeldToAt
<1> QED
  BY <1>7, <1>12, <1>13 DEF l

LEMMA HeldTotal ==
  ASSUME NEW t \in Lftas, NEW e, NEW g
  PROVE  /\ Held(t, e, g) = Total(SlotShares(t, e, g), MaxAggrs) /\ Held(t, e, g) \in Nat
         /\ \A i \in 1 .. MaxAggrs : /\ SlotShares(t, e, g)[i] = SlotShare(t.slot[i - 1], e, g)
                                     /\ SlotShare(t.slot[i - 1], e, g) \in Nat
<1> DEFINE w == SlotShares(t, e, g)
<1>0. \A i \in 1 .. MaxAggrs : w[i] = SlotShare(t.slot[i - 1], e, g) /\ SlotShare(t.slot[i - 1], e, g) \in Nat
  BY SlotShareType DEF SlotShares
<1>1. PICK r : /\ Held(t, e, g) = r[MaxAggrs] /\ r[0] = 0
               /\ \A i \in 1 .. MaxAggrs : r[i] = r[i - 1] + SlotShare(t.slot[i - 1], e, g)
  BY HeldSolves
<1>2. MaxAggrs \in Nat /\ \A i \in 1 .. MaxAggrs : w[i] \in Nat /\ r[i] = r[i - 1] + w[i]
  BY <1>0, <1>1, Numbers
<1> HIDE DEF w
<1>4. Total(w, MaxAggrs) \in Nat
  BY <1>2, TotalType
<1>5. r[MaxAggrs] = Total(w, MaxAggrs)
  BY <1>1, <1>2, TotalIs
<1> QED
  BY <1>0, <1>1, <1>4, <1>5 DEF w

-----------------------------------------------------------------------------
(* The slots that are flushed. *)

Flushable(t, x) == x >= t.flush_pos /\ Old(t, x)

LEMMA OldSlotsAre ==
  ASSUME NEW t \in Lftas
  PROVE  /\ OldSlots(t) \in Seq(Slot) /\ Len(OldSlots(t)) <= MaxAggrs
         /\ \A a, b \in 1 .. Len(OldSlots(t)) : a < b => OldSlots(t)[a] < OldSlots(t)[b]
         /\ \A x \in Slot : Flushable(t, x) <=> \E a \in 1 .. Len(OldSlots(t)) : OldSlots(t)[a] = x
<1> DEFINE n == MaxAggrs
<1>1. PICK c : /\ OldSlots(t) = c[n] /\ c[0] = <<>>
               /\ \A i \in 1 .. n : c[i] = IF i - 1 >= t.flush_pos /\ Old(t, i - 1) THEN Append(c[i - 1], i - 1) ELSE c[i - 1]
               /\ \A i \in 0 .. n : c[i] \in Seq(Slot)
  <2> HIDE DEF Old
  <2> QED BY OldSlotsSolves, Zenon
<1>2. n \in Nat /\ (\A x \in Slot : x \in Nat /\ x < n) /\ \A i \in 1 .. n : i - 1 \in Slot
  BY Numbers DEF Slot
<1>3. \A i \in 1 .. n : c[i] = IF Flushable(t, i - 1) THEN Append(c[i - 1], i - 1) ELSE c[i - 1]
  <2> HIDE DEF Old
  <2> QED BY <1>1 DEF Flushable
<1> HIDE DEF n
<1> DEFINE A(q, i) == /\ Len(q) <= i /\ \A a \in 1 .. Len(q) : q[a] < i
           B(q)    == \A a, b \in 1 .. Len(q) : a < b => q[a] < q[b]
           C(q, i) == \A x \in Slot : x < i => (Flushable(t, x) <=> \E a \in 1 .. Len(q) : q[a] = x)
           G == {i \in 0 .. n : A(c[i], i) /\ B(c[i]) /\ C(c[i], i)}
<1>4. 0 \in G
  <2>1. A(<<>>, 0) /\ B(<<>>) /\ C(<<>>, 0)
    BY <1>2
  <2> HIDE DEF A, B, C
  <2> QED BY <1>1, <1>2, <2>1
<1>5. ASSUME NEW i \in 1 .. n, i - 1 \in G PROVE i \in G
  <2> DEFINE q == c[i - 1]
             p == c[i]
             h == i - 1
  <2>1. h \in Slot /\ h \in Nat /\ i = h + 1 /\ i \in 0 .. n /\ h \in 0 .. n
    BY <1>2
  <2>2. q \in Seq(Slot) /\ Len(q) \in Nat /\ \A a \in 1 .. Len(q) : q[a] \in Nat
    BY <1>1, <1>2, <2>1
  <2>3. A(q, h) /\ B(q) /\ C(q, h)
    <3> HIDE DEF A, B, C
    <3> QED BY <1>5
  <2>4. p = IF Flushable(t, h) THEN Append(q, h) ELSE q
    BY <1>3
  <2> HIDE DEF q, p, h
  <2>5. CASE ~Flushable(t, h)
    <3>1. p = q
      BY <2>4, <2>5
    <3>2. A(q, i) /\ B(q)
      BY <2>1, <2>2, <2>3
    <3>3. C(q, i)
      <4> SUFFICES ASSUME NEW x \in Slot, x < i
                   PROVE  Flushable(t, x) <=> \E a \in 1 .. Len(q) : q[a] = x
        OBVIOUS
      <4>1. CASE x < h
        BY <2>3, <4>1
      <4>2. CASE x = h
        BY <2>1, <2>2, <2>3, <2>5, <4>2
      <4>3. x < h \/ x = h
        BY <1>2, <2>1
      <4> QED BY <4>1, <4>2, <4>3
    <3> HIDE DEF A, B, C
    <3> QED BY <2>1, <3>1, <3>2, <3>3 DEF p
  <2>6. CASE Flushable(t, h)
    <3>1. p = Append(q, h) /\ Len(p) = Len(q) + 1 /\ p[Len(q) + 1] = h /\ \A a \in 1 .. Len(q) : p[a] = q[a]
      BY <2>1, <2>2, <2>4, <2>6
    <3>2. A(p, i)
      BY <2>1, <2>2, <2>3, <3>1
    <3>3. B(p)
      BY <2>1, <2>2, <2>3, <3>1, SMTT(30)
    <3>4. C(p, i)
      <4> SUFFICES ASSUME NEW x \in Slot, x < i
                   PROVE  Flushable(t, x) <=> \E a \in 1 .. Len(p) : p[a] = x
        OBVIOUS
      <4>1. CASE x < h
        <5>1. Flushable(t, x) <=> \E a \in 1 .. Len(q) : q[a] = x
          BY <2>3, <4>1
        <5>2. \A a \in 1 .. Len(p) : p[a] = x => a \in 1 .. Len(q) /\ q[a] = x
          BY <2>1, <2>2, <3>1, <4>1, <1>2
        <5>3. \A a \in 1 .. Len(q) : a \in 1 .. Len(p) /\ p[a] = q[a]
          BY <2>2, <3>1
        <5> QED BY <5>1, <5>2, <5>3
      <4>2. CASE x = h
        <5>1. Len(q) + 1 \in 1 .. Len(p)
          BY <2>2, <3>1
        <5> QED BY <2>6, <3>1, <4>2, <5>1
      <4>3. x < h \/ x = h
        BY <1>2, <2>1
      <4> QED BY <4>1, <4>2, <4>3
    <3> HIDE DEF A, B, C
    <3> QED BY <2>1, <3>2, <3>3, <3>4 DEF p
  <2> QED BY <2>5, <2>6
<1>6. n \in G
  <2> HIDE DEF G
  <2>1. \A i \in 0 .. n : i \in G
    BY <1>2, <1>4, <1>5, UpTo
  <2> QED BY <1>2, <2>1
<1>7. A(c[n], n) /\ B(c[n]) /\ C(c[n], n)
  <2> HIDE DEF A, B, C
  <2> QED BY <1>6
<1>8. c[n] \in Seq(Slot)
  BY <1>1, <1>2
<1> DEFINE q == c[n]
<1>9. OldSlots(t) = q
  BY <1>1
<1> HIDE DEF q
<1> QED
  BY <1>2, <1>7, <1>8, <1>9 DEF q, n

(* A flush of the slots v that leaves flush_pos at p. *)
Without(t, v, p) ==
  [t EXCEPT !.slot = [i \in Slot |-> IF \E j \in 1 .. Len(v) : v[j] = i THEN Empty ELSE t.slot[i]],
            !.n_aggrs = t.n_aggrs - Len(v), !.flush_pos = p,
            !.last_flushed_gb = IF p = MaxAggrs THEN t.flush_start_gb ELSE t.last_flushed_gb]

Victims(t, v) ==
  /\ v \in Seq(Slot) /\ \A i, j \in 1 .. Len(v) : v[i] = v[j] => i = j
  /\ \A j \in 1 .. Len(v) : Flushable(t, v[j])

(* The tuples posted for them. *)
Posted(t, v) == [j \in 1 .. Len(v) |-> GroupTuple(t.slot[v[j]])]

Flushes(t, nflush, v, p) ==
  /\ Victims(t, v) /\ p \in 0 .. MaxAggrs
  /\ FlushOld(t, nflush).t = Without(t, v, p) /\ FlushOld(t, nflush).out = Posted(t, v)
  /\ \A x \in Slot : Flushable(t, x) /\ (\A j \in 1 .. Len(v) : v[j] # x) =>
        nflush # MaxAggrs /\ (p <= x \/ t.n_aggrs - Len(v) <= 0)

LEMMA FlushOldIs ==
  ASSUME NEW t \in Lftas, NEW nflush \in Nat \ {0}
  PROVE  \E v, p : Flushes(t, nflush, v, p)
<1> DEFINE olds    == OldSlots(t)
           victims == IF Len(olds) > nflush THEN SubSeq(olds, 1, nflush) ELSE olds
           left    == t.n_aggrs - Len(victims)
           pos     == IF left > 0 /\ Len(victims) = nflush THEN victims[nflush] + 1 ELSE MaxAggrs
           slot    == [i \in Slot |-> IF i \in Range(victims) THEN Empty ELSE t.slot[i]]
           new     == [i \in Slot |-> IF \E j \in 1 .. Len(victims) : victims[j] = i THEN Empty ELSE t.slot[i]]
           flushed == IF pos = MaxAggrs THEN t.flush_start_gb ELSE t.last_flushed_gb
           posted  == [j \in 1 .. Len(victims) |-> GroupTuple(t.slot[victims[j]])]
<1>1. FlushOld(t, nflush) = [t   |-> [t EXCEPT !.slot = slot, !.n_aggrs = left, !.flush_pos = pos,
                                               !.last_flushed_gb = flushed],
                             out |-> posted]
  BY DEF FlushOld
<1>2. /\ olds \in Seq(Slot) /\ Len(olds) <= MaxAggrs /\ Len(olds) \in Nat
      /\ \A a, b \in 1 .. Len(olds) : a < b => olds[a] < olds[b]
      /\ \A x \in Slot : Flushable(t, x) <=> \E a \in 1 .. Len(olds) : olds[a] = x
  BY OldSlotsAre
<1>3. MaxAggrs \in Nat /\ t.n_aggrs \in Int /\ \A x \in Slot : x \in Nat /\ x < MaxAggrs
  BY Numbers, LftaFields DEF Slot
<1> HIDE DEF olds
<1>4. /\ victims \in Seq(Slot) /\ Len(victims) \in Nat /\ Len(victims) <= nflush /\ Len(victims) <= Len(olds)
      /\ \A j \in 1 .. Len(victims) : victims[j] = olds[j]
      /\ Len(victims) < nflush => Len(victims) = Len(olds)
      /\ nflush = MaxAggrs => Len(victims) = Len(olds)
  BY <1>2, <1>3
<1> HIDE DEF victims
<1>5. \A i, j \in 1 .. Len(victims) : victims[i] = victims[j] => i = j
  <2> SUFFICES ASSUME NEW i \in 1 .. Len(victims), NEW j \in 1 .. Len(victims), victims[i] = victims[j], i # j
               PROVE  FALSE
    OBVIOUS
  <2>1. i < j \/ j < i
    OBVIOUS
  <2>2. i \in 1 .. Len(olds) /\ j \in 1 .. Len(olds) /\ olds[i] \in Nat /\ olds[j] \in Nat /\ olds[i] = olds[j]
    BY <1>2, <1>3, <1>4, SMTT(30)
  <2> QED BY <1>2, <2>1, <2>2
<1>6. \A j \in 1 .. Len(victims) : Flushable(t, victims[j])
  <2> SUFFICES ASSUME NEW j \in 1 .. Len(victims) PROVE Flushable(t, victims[j])
    OBVIOUS
  <2>1. j \in 1 .. Len(olds) /\ victims[j] = olds[j] /\ victims[j] \in Slot
    BY <1>2, <1>4
  <2> QED BY <1>2, <2>1
<1>7. pos \in 0 .. MaxAggrs
  BY <1>3, <1>4
<1>8. slot = new
  <2>1. \A i \in Slot : i \in Range(victims) <=> \E j \in 1 .. Len(victims) : victims[j] = i
    <3>1. DOMAIN victims = 1 .. Len(victims)
      BY <1>4
    <3> QED BY <3>1 DEF Range
  <2> QED BY <2>1
<1>9. ASSUME NEW x \in Slot, Flushable(t, x), \A j \in 1 .. Len(victims) : victims[j] # x
      PROVE  nflush # MaxAggrs /\ (pos <= x \/ left <= 0)
  <2>1. PICK a \in 1 .. Len(olds) : olds[a] = x
    BY <1>2, <1>9
  <2>2. ~(a \in 1 .. Len(victims))
    BY <1>4, <1>9, <2>1
  <2>3. a > Len(victims) /\ Len(victims) # Len(olds) /\ Len(victims) = nflush
    BY <1>2, <1>4, <2>2
  <2>4. nflush # MaxAggrs
    BY <1>4, <2>3
  <2>5. nflush \in 1 .. Len(olds) /\ olds[nflush] < x /\ victims[nflush] = olds[nflush] /\ olds[nflush] \in Nat
    BY <1>2, <1>3, <1>4, <2>1, <2>3
  <2>6. left > 0 => pos <= x
    BY <1>3, <2>3, <2>5
  <2>7. left \in Int
    BY <1>3, <1>4
  <2> HIDE DEF left, pos
  <2> QED BY <2>4, <2>6, <2>7
<1>10. Victims(t, victims)
  BY <1>4, <1>5, <1>6 DEF Victims
<1>11. FlushOld(t, nflush).t = Without(t, victims, pos)
  <2>1. FlushOld(t, nflush).t = [t EXCEPT !.slot = slot, !.n_aggrs = left, !.flush_pos = pos, !.last_flushed_gb = flushed]
    BY <1>1
  <2> HIDE DEF slot, pos
  <2> QED BY <1>8, <2>1 DEF Without
<1>12. FlushOld(t, nflush).out = posted
  BY <1>1
<1>13. \A x \in Slot : Flushable(t, x) /\ (\A j \in 1 .. Len(victims) : victims[j] # x) =>
         nflush # MaxAggrs /\ (pos <= x \/ t.n_aggrs - Len(victims) <= 0)
  BY <1>9
<1> HIDE DEF pos, posted
<1> QED
  <2>1. FlushOld(t, nflush).out = Posted(t, victims)
    BY <1>12 DEF posted, Posted
  <2>2. Flushes(t, nflush, victims, pos)
    BY <1>7, <1>10, <1>11, <1>13, <2>1 DEF Flushes
  <2> QED BY <2>2, Zenon

-----------------------------------------------------------------------------
(* What every function on an LFTA keeps. *)

LEMMA CountedAll ==
  /\ DataTuples \subseteq Counted /\ AnyTuples \subseteq Counted /\ Rows \subseteq Counted
  /\ Seq(DataTuples) \subseteq Seq(Counted) /\ Seq(AnyTuples) \subseteq Seq(Counted) /\ Seq(Rows) \subseteq Seq(Counted)
  /\ Seq(DataTuples) \subseteq Seq(AnyTuples)
<1>1. DataTuples \subseteq AnyTuples /\ AnyTuples \subseteq Counted /\ Rows \subseteq Counted
  BY DEF Counted, AnyTuples
<1>2. \A S, T : S \subseteq T => Seq(S) \subseteq Seq(T)
  OBVIOUS
<1> HIDE DEF DataTuples, AnyTuples, Counted, Rows
<1> QED
  BY <1>1, <1>2

(* From t the LFTA goes to r.t and posts r.out, in order. *)
InOrder(t, r) ==
  /\ r.t \in Lftas /\ r.out \in Seq(DataTuples)
  /\ TableOK(r.t) /\ Orderly(r.out) /\ TempsEmpty(r.out)
  /\ \A i \in 1 .. Len(r.out) : AtLeast(r.t, r.out[i].gb)
  /\ \A b \in Gbs : AtLeast(t, b) =>
        AtLeast(r.t, b) /\ \A i \in 1 .. Len(r.out) : IsRegular(r.out[i]) => b <= r.out[i].gb

(* With d packets of k more, none is lost and none is counted twice. *)
Balance(t, r, k, d) == Held(t, k[1], k[2]) + d = Held(r.t, k[1], k[2]) + InSeq(r.out, k)

LEMMA OrderlyConcat ==
  ASSUME NEW p \in Seq(AnyTuples), NEW q \in Seq(AnyTuples), Orderly(p), Orderly(q),
         \A i \in 1 .. Len(p), j \in 1 .. Len(q) : IsRegular(q[j]) => p[i].gb <= q[j].gb
  PROVE  Orderly(p \o q)
<1> DEFINE r == p \o q
<1>1. /\ Len(r) = Len(p) + Len(q) /\ Len(p) \in Nat /\ Len(q) \in Nat
      /\ \A i \in 1 .. Len(p) : r[i] = p[i]
      /\ \A i \in 1 .. Len(r) : i > Len(p) => i - Len(p) \in 1 .. Len(q) /\ r[i] = q[i - Len(p)]
  OBVIOUS
<1> HIDE DEF r
<1> SUFFICES ASSUME NEW j \in 1 .. Len(r), IsRegular(r[j]), NEW i \in 1 .. j - 1
             PROVE  r[i].gb <= r[j].gb
  BY DEF Orderly, r
<1>2. CASE j <= Len(p)
  <2>1. j \in 1 .. Len(p) /\ i \in 1 .. Len(p) /\ r[i] = p[i] /\ r[j] = p[j]
    BY <1>1, <1>2
  <2> QED BY <2>1 DEF Orderly
<1>3. CASE j > Len(p)
  <2> DEFINE h == j - Len(p)
  <2>1. h \in 1 .. Len(q) /\ r[j] = q[h]
    BY <1>1, <1>3
  <2>2. CASE i <= Len(p)
    <3>1. i \in 1 .. Len(p) /\ r[i] = p[i]
      BY <1>1, <2>2
    <3> HIDE DEF h
    <3> QED BY <2>1, <3>1
  <2>3. CASE i > Len(p)
    <3> DEFINE g == i - Len(p)
    <3>1. g \in 1 .. h - 1 /\ r[i] = q[g]
      BY <1>1, <1>3, <2>3
    <3> HIDE DEF g, h
    <3> QED BY <2>1, <3>1 DEF Orderly
  <2> QED BY <1>1, <2>2, <2>3
<1> QED
  BY <1>1, <1>2, <1>3

LEMMA ConcatAt ==
  ASSUME NEW S, NEW p \in Seq(S), NEW q \in Seq(S), NEW i \in 1 .. Len(p \o q)
  PROVE  \/ i \in 1 .. Len(p) /\ (p \o q)[i] = p[i]
         \/ \E j \in 1 .. Len(q) : (p \o q)[i] = q[j]
<1> DEFINE j == i - Len(p)
<1>1. i > Len(p) => j \in 1 .. Len(q) /\ (p \o q)[i] = q[j]
  OBVIOUS
<1>2. i <= Len(p) => i \in 1 .. Len(p) /\ (p \o q)[i] = p[i]
  OBVIOUS
<1>3. i > Len(p) \/ i <= Len(p)
  OBVIOUS
<1> HIDE DEF j
<1> QED
  BY <1>1, <1>2, <1>3

LEMMA TempsConcat ==
  ASSUME NEW p \in Seq(AnyTuples), NEW q \in Seq(AnyTuples), TempsEmpty(p), TempsEmpty(q)
  PROVE  TempsEmpty(p \o q)
<1> DEFINE r == p \o q
<1> SUFFICES ASSUME NEW i \in 1 .. Len(r), ~IsRegular(r[i]) PROVE r[i].cnt = 0
  BY DEF TempsEmpty
<1>1. (i \in 1 .. Len(p) /\ r[i] = p[i]) \/ \E j \in 1 .. Len(q) : r[i] = q[j]
  BY ConcatAt
<1> HIDE DEF r
<1> QED
  BY <1>1 DEF TempsEmpty

LEMMA InOrderThen ==
  ASSUME NEW t, NEW p, NEW r, InOrder(t, p), InOrder(p.t, r)
  PROVE  InOrder(t, [t |-> r.t, out |-> p.out \o r.out])
<1> DEFINE u == p.out
           v == r.out
           w == u \o v
           z == [t |-> r.t, out |-> w]
<1>1. /\ u \in Seq(DataTuples) /\ Orderly(u) /\ TempsEmpty(u)
      /\ \A i \in 1 .. Len(u) : AtLeast(p.t, u[i].gb)
      /\ \A b \in Gbs : AtLeast(t, b) => AtLeast(p.t, b) /\ \A i \in 1 .. Len(u) : IsRegular(u[i]) => b <= u[i].gb
  BY DEF InOrder
<1>2. /\ r.t \in Lftas /\ v \in Seq(DataTuples) /\ TableOK(r.t) /\ Orderly(v) /\ TempsEmpty(v)
      /\ \A i \in 1 .. Len(v) : AtLeast(r.t, v[i].gb)
      /\ \A b \in Gbs : AtLeast(p.t, b) => AtLeast(r.t, b) /\ \A i \in 1 .. Len(v) : IsRegular(v[i]) => b <= v[i].gb
  BY DEF InOrder
<1>3. z.t = r.t /\ z.out = w
  OBVIOUS
<1> HIDE DEF u, v, z
<1>4. w \in Seq(DataTuples)
  BY <1>1, <1>2
<1>5. \A i \in 1 .. Len(u) : u[i].gb \in Gbs
  BY <1>1, DataGb
<1>6. Orderly(w)
  <2>1. \A i \in 1 .. Len(u), j \in 1 .. Len(v) : IsRegular(v[j]) => u[i].gb <= v[j].gb
    BY <1>1, <1>2, <1>5
  <2> QED BY <1>1, <1>2, <2>1, OrderlyConcat, CountedAll
<1>7. TempsEmpty(w)
  BY <1>1, <1>2, TempsConcat, CountedAll
<1>8. \A i \in 1 .. Len(w) : (i \in 1 .. Len(u) /\ w[i] = u[i]) \/ \E j \in 1 .. Len(v) : w[i] = v[j]
  BY <1>1, <1>2, ConcatAt
<1> HIDE DEF w
<1>9. \A i \in 1 .. Len(w) : AtLeast(r.t, w[i].gb)
  <2> HIDE DEF AtLeast
  <2> QED BY <1>1, <1>2, <1>5, <1>8
<1>10. ASSUME NEW b \in Gbs, AtLeast(t, b)
       PROVE  AtLeast(r.t, b) /\ \A i \in 1 .. Len(w) : IsRegular(w[i]) => b <= w[i].gb
  <2>1. AtLeast(p.t, b) /\ \A i \in 1 .. Len(u) : IsRegular(u[i]) => b <= u[i].gb
    BY <1>1, <1>10
  <2>2. AtLeast(r.t, b) /\ \A i \in 1 .. Len(v) : IsRegular(v[i]) => b <= v[i].gb
    BY <1>2, <2>1
  <2> QED BY <1>8, <2>1, <2>2
<1>11. InOrder(t, z)
  BY <1>2, <1>3, <1>4, <1>6, <1>7, <1>9, <1>10 DEF InOrder
<1> QED
  BY <1>11 DEF z, w, u, v

LEMMA BalanceThen ==
  ASSUME NEW t \in Lftas, NEW p, NEW r, NEW k, NEW c \in Nat, NEW d \in Nat,
         p.t \in Lftas, r.t \in Lftas, p.out \in Seq(DataTuples), r.out \in Seq(DataTuples),
         Balance(t, p, k, c), Balance(p.t, r, k, d)
  PROVE  Balance(t, [t |-> r.t, out |-> p.out \o r.out], k, c + d)
<1>1. Held(t, k[1], k[2]) \in Nat /\ Held(p.t, k[1], k[2]) \in Nat /\ Held(r.t, k[1], k[2]) \in Nat
  BY HeldTotal
<1>2. p.out \in Seq(Counted) /\ r.out \in Seq(Counted)
  BY CountedAll
<1>3. InSeq(p.out, k) \in Nat /\ InSeq(r.out, k) \in Nat
  BY <1>2, InSeqTotal
<1>4. InSeq(p.out \o r.out, k) = InSeq(p.out, k) + InSeq(r.out, k)
  BY <1>2, InSeqConcat
<1> DEFINE z == [t |-> r.t, out |-> p.out \o r.out]
<1>5. z.t = r.t /\ z.out = p.out \o r.out
  OBVIOUS
<1>6. /\ Held(t, k[1], k[2]) + c = Held(p.t, k[1], k[2]) + InSeq(p.out, k)
      /\ Held(p.t, k[1], k[2]) + d = Held(r.t, k[1], k[2]) + InSeq(r.out, k)
  BY DEF Balance
<1> HIDE DEF z
<1>7. Held(t, k[1], k[2]) + (c + d) = Held(r.t, k[1], k[2]) + (InSeq(p.out, k) + InSeq(r.out, k))
  <2> DEFINE x == Held(t, k[1], k[2])
             y == Held(p.t, k[1], k[2])
             h == Held(r.t, k[1], k[2])
             m == InSeq(p.out, k)
             n == InSeq(r.out, k)
  <2>1. x \in Nat /\ y \in Nat /\ h \in Nat /\ m \in Nat /\ n \in Nat /\ x + c = y + m /\ y + d = h + n
    BY <1>1, <1>3, <1>6
  <2> HIDE DEF x, y, h, m, n
  <2>2. x + (c + d) = h + (m + n)
    BY <2>1
  <2> QED BY <2>2 DEF x, y, h, m, n
<1>8. Balance(t, z, k, c + d)
  BY <1>4, <1>5, <1>7 DEF Balance
<1> QED
  BY <1>8 DEF z

-----------------------------------------------------------------------------
(* The flush of old groups. *)

LEMMA OldIs ==
  ASSUME NEW t \in Lftas, TableOK(t), NEW x \in Slot
  PROVE  /\ Old(t, x) <=> x \in Filled(t) /\ t.slot[x].gen # t.generation
         /\ Flushable(t, x) <=> x \in Filled(t) /\ t.slot[x].gen # t.generation
<1>1. t.slot[x] \in Slots /\ t.slot[x].gb \in Nat /\ t.last_gb \in Nat /\ t.flush_pos \in Nat /\ x \in Nat
  <2>1. t.slot[x] \in Slots /\ t.last_gb \in Gbs /\ t.flush_pos \in 0 .. MaxAggrs
    BY LftaFields
  <2>2. t.slot[x].gb \in Gbs
    BY <2>1 DEF Slots
  <2>3. Gbs \subseteq Nat /\ Slot \subseteq Nat /\ MaxAggrs \in Nat
    BY Numbers
  <2>4. t.slot[x].gb \in Nat /\ t.last_gb \in Nat
    BY <2>1, <2>2, <2>3, Zenon
  <2>5. t.flush_pos \in Nat /\ x \in Nat
    BY <2>1, <2>3
  <2> QED BY <2>1, <2>4, <2>5
<1>2. x \in Filled(t) <=> t.slot[x].filled
  BY DEF Filled
<1>3. x \in Filled(t) /\ t.slot[x].gen = t.generation => t.slot[x].gb = t.last_gb
  BY DEF TableOK
<1>4. x \in Filled(t) /\ t.slot[x].gen # t.generation => t.flush_pos <= x
  BY DEF TableOK
<1>5. Old(t, x) <=> x \in Filled(t) /\ t.slot[x].gen # t.generation
  BY <1>1, <1>2, <1>3 DEF Old
<1> QED
  BY <1>1, <1>4, <1>5 DEF Flushable

LEMMA FilledFinite ==
  ASSUME NEW t
  PROVE  IsFiniteSet(Filled(t)) /\ Cardinality(Filled(t)) \in Nat /\ Filled(t) \subseteq Slot
<1>1. IsFiniteSet(Slot)
  BY FS_Interval, Numbers DEF Slot
<1>2. Filled(t) \subseteq Slot
  BY DEF Filled
<1>3. IsFiniteSet(Filled(t))
  BY <1>1, <1>2, FS_Subset
<1> QED
  BY <1>2, <1>3, FS_CardinalityType

(* As many elements as the list is long. *)
LEMMA ListSize ==
  ASSUME NEW S, NEW v \in Seq(S), \A i, j \in 1 .. Len(v) : v[i] = v[j] => i = j
  PROVE  IsFiniteSet({v[j] : j \in 1 .. Len(v)}) /\ Cardinality({v[j] : j \in 1 .. Len(v)}) = Len(v)
<1> DEFINE R == {v[j] : j \in 1 .. Len(v)}
<1>1. v \in [1 .. Len(v) -> R]
  OBVIOUS
<1>2. v \in Bijection(1 .. Len(v), R)
  <2>1. v \in Injection(1 .. Len(v), R)
    BY <1>1 DEF Injection, IsInjective
  <2>2. v \in Surjection(1 .. Len(v), R)
    BY <1>1 DEF Surjection
  <2> QED BY <2>1, <2>2 DEF Bijection
<1>3. ExistsBijection(1 .. Len(v), R)
  BY <1>2 DEF ExistsBijection
<1>4. Len(v) \in Nat
  OBVIOUS
<1> HIDE DEF R
<1>5. IsFiniteSet(R) /\ Cardinality(R) = Len(v)
  <2>1. IsFiniteSet(R)
    BY <1>3, <1>4, FS_NatBijection
  <2> QED BY <1>3, <1>4, <2>1, FS_CountingElements
<1> QED
  BY <1>5 DEF R

LEMMA WithoutIs ==
  ASSUME NEW t \in Lftas, NEW v, NEW p \in 0 .. MaxAggrs, Victims(t, v)
  PROVE  /\ Without(t, v, p) \in Lftas
         /\ Filled(Without(t, v, p)) = Filled(t) \ {v[j] : j \in 1 .. Len(v)}
         /\ \A x \in Slot : (\A j \in 1 .. Len(v) : v[j] # x) => Without(t, v, p).slot[x] = t.slot[x]
         /\ \A j \in 1 .. Len(v) : Without(t, v, p).slot[v[j]] = Empty
         /\ Without(t, v, p).n_aggrs = t.n_aggrs - Len(v) /\ Without(t, v, p).flush_pos = p
         /\ Without(t, v, p).last_flushed_gb = IF p = MaxAggrs THEN t.flush_start_gb ELSE t.last_flushed_gb
         /\ Without(t, v, p).generation = t.generation /\ Without(t, v, p).last_gb = t.last_gb
         /\ Without(t, v, p).flush_start_gb = t.flush_start_gb /\ Without(t, v, p).last_time = t.last_time
<1> DEFINE slot == [i \in Slot |-> IF \E j \in 1 .. Len(v) : v[j] = i THEN Empty ELSE t.slot[i]]
           n == t.n_aggrs - Len(v)
           f == IF p = MaxAggrs THEN t.flush_start_gb ELSE t.last_flushed_gb
           u == [t EXCEPT !.slot = slot, !.n_aggrs = n, !.flush_pos = p, !.last_flushed_gb = f]
<1>1. Without(t, v, p) = u
  BY DEF Without
<1>2. v \in Seq(Slot) /\ Len(v) \in Nat /\ \A j \in 1 .. Len(v) : v[j] \in Slot
  BY DEF Victims
<1>3. slot \in [Slot -> Slots] /\ n \in Int /\ f \in Gbs
  <2>1. Empty \in Slots
    BY Numbers DEF Empty, Slots
  <2>2. \A i \in Slot : t.slot[i] \in Slots
    BY LftaFields
  <2>3. slot \in [Slot -> Slots]
    BY <2>1, <2>2
  <2>4. n \in Int /\ f \in Gbs
    BY <1>2, LftaFields
  <2> QED BY <2>3, <2>4
<1>4. \A x \in Slot : slot[x] = IF \E j \in 1 .. Len(v) : v[j] = x THEN Empty ELSE t.slot[x]
  OBVIOUS
<1> HIDE DEF slot, n, f
<1>5. u \in Lftas
  BY <1>3 DEF Lftas
<1>6. /\ u.slot = slot /\ u.n_aggrs = n /\ u.flush_pos = p /\ u.last_flushed_gb = f
      /\ u.generation = t.generation /\ u.last_gb = t.last_gb
      /\ u.flush_start_gb = t.flush_start_gb /\ u.last_time = t.last_time
  BY DEF Lftas
<1> HIDE DEF u
<1>7. Filled(u) = Filled(t) \ {v[j] : j \in 1 .. Len(v)}
  <2>1. ~Empty.filled
    BY DEF Empty
  <2> QED BY <1>4, <1>6, <2>1 DEF Filled
<1>8. \A j \in 1 .. Len(v) : u.slot[v[j]] = Empty
  BY <1>2, <1>4, <1>6
<1>9. \A x \in Slot : (\A j \in 1 .. Len(v) : v[j] # x) => u.slot[x] = t.slot[x]
  BY <1>4, <1>6
<1> QED
  BY <1>1, <1>5, <1>6, <1>7, <1>8, <1>9 DEF n, f

LEMMA LftaNats ==
  ASSUME NEW t \in Lftas
  PROVE  /\ \A x \in Slot : /\ t.slot[x] \in Slots /\ t.slot[x].gb \in Gbs /\ t.slot[x].gb \in Nat
                            /\ t.slot[x].grp \in Grps /\ t.slot[x].cnt \in Nat /\ x \in Nat /\ x < MaxAggrs
         /\ t.flush_start_gb \in Nat /\ t.last_gb \in Nat /\ t.last_time \in Nat /\ t.last_flushed_gb \in Nat
         /\ t.n_aggrs \in Int /\ t.generation \in Nat /\ t.flush_pos \in Nat
<1>1. \A x \in Slot : t.slot[x] \in Slots
  BY LftaFields
<1>2. \A s \in Slots : s.gb \in Gbs /\ s.grp \in Grps /\ s.cnt \in Nat
  BY DEF Slots
<1>3. Gbs \subseteq Nat /\ MaxAggrs \in Nat
  BY Numbers
<1>4. \A x \in Slot : x \in Nat /\ x < MaxAggrs
  BY <1>3 DEF Slot
<1>5. /\ t.flush_start_gb \in Gbs /\ t.last_gb \in Gbs /\ t.last_time \in Gbs /\ t.last_flushed_gb \in Gbs
      /\ t.n_aggrs \in Int /\ t.generation \in Nat
  BY LftaFields
<1>6. t.flush_pos \in Nat
  BY <1>3, LftaFields
<1> QED
  BY <1>1, <1>2, <1>3, <1>4, <1>5, <1>6, Zenon

LEMMA WithoutTable ==
  ASSUME NEW t \in Lftas, TableOK(t), NEW v, NEW p \in 0 .. MaxAggrs, Victims(t, v),
         \A x \in Slot : Flushable(t, x) /\ (\A j \in 1 .. Len(v) : v[j] # x) =>
            p <= x \/ t.n_aggrs - Len(v) <= 0
  PROVE  TableOK(Without(t, v, p))
<1> DEFINE u == Without(t, v, p)
           R == {v[j] : j \in 1 .. Len(v)}
<1>1. /\ u \in Lftas /\ Filled(u) = Filled(t) \ R
      /\ \A x \in Slot : (\A j \in 1 .. Len(v) : v[j] # x) => u.slot[x] = t.slot[x]
      /\ u.n_aggrs = t.n_aggrs - Len(v) /\ u.flush_pos = p
      /\ u.last_flushed_gb = IF p = MaxAggrs THEN t.flush_start_gb ELSE t.last_flushed_gb
      /\ u.generation = t.generation /\ u.last_gb = t.last_gb
      /\ u.flush_start_gb = t.flush_start_gb /\ u.last_time = t.last_time
  BY WithoutIs
<1>2. v \in Seq(Slot) /\ Len(v) \in Nat /\ \A j \in 1 .. Len(v) : v[j] \in Slot
  BY DEF Victims
<1>3. R \subseteq Filled(t)
  <2>1. \A j \in 1 .. Len(v) : v[j] \in Filled(t)
    BY <1>2, OldIs DEF Victims
  <2> QED BY <2>1
<1>4. IsFiniteSet(R) /\ Cardinality(R) = Len(v)
  BY <1>2, ListSize DEF Victims
<1>5. u.n_aggrs = Cardinality(Filled(u))
  <2>1. IsFiniteSet(Filled(t)) /\ Cardinality(Filled(t)) \in Nat
    BY FilledFinite
  <2> DEFINE F == Filled(t)
  <2> HIDE DEF R, F, u
  <2>2. Cardinality(F \ R) = Cardinality(F) - Cardinality(F \cap R)
    BY <2>1, FS_Difference DEF F
  <2>3. F \cap R = R
    BY <1>3 DEF F
  <2>4. t.n_aggrs = Cardinality(F)
    BY DEF TableOK, F
  <2> QED BY <1>1, <1>4, <2>2, <2>3, <2>4 DEF F
<1> HIDE DEF u
<1>6. \A i \in Filled(u) : i \in Slot /\ i \in Filled(t) /\ u.slot[i] = t.slot[i] /\ \A j \in 1 .. Len(v) : v[j] # i
  <2>1. \A i \in Filled(u) : i \in Filled(t) /\ \A j \in 1 .. Len(v) : v[j] # i
    BY <1>1
  <2>2. Filled(t) \subseteq Slot
    BY FilledFinite
  <2> QED BY <1>1, <2>1, <2>2
<1> HIDE DEF R
<1>7. \A i \in Filled(u) : t.slot[i].gen # t.generation => p <= i
  <2> SUFFICES ASSUME NEW i \in Filled(u), t.slot[i].gen # t.generation PROVE p <= i
    OBVIOUS
  <2>1. Flushable(t, i) /\ i \in Slot
    BY <1>6, OldIs
  <2>2. p <= i \/ t.n_aggrs - Len(v) <= 0
    BY <1>6, <2>1
  <2>3. Cardinality(Filled(u)) # 0
    <3>1. IsFiniteSet(Filled(u))
      BY FilledFinite
    <3> QED BY <3>1, FS_EmptySet
  <2>4. Cardinality(Filled(u)) \in Nat
    BY FilledFinite
  <2> QED BY <1>1, <1>5, <2>2, <2>3, <2>4
<1>8. \A i \in Filled(u) : u.last_flushed_gb <= t.slot[i].gb
  <2> SUFFICES ASSUME NEW i \in Filled(u) PROVE u.last_flushed_gb <= t.slot[i].gb
    OBVIOUS
  <2>1. CASE p # MaxAggrs
    BY <1>1, <1>6, <2>1 DEF TableOK
  <2>2. CASE p = MaxAggrs
    <3>1. t.slot[i].gen = t.generation
      BY <1>6, <1>7, <2>2, LftaNats
    <3>2. t.slot[i].gb = t.last_gb /\ t.flush_start_gb <= t.last_gb
      BY <1>6, <3>1 DEF TableOK
    <3> QED BY <1>1, <2>2, <3>2
  <2> QED BY <2>1, <2>2
<1>9. /\ u.generation < Generations /\ u.flush_start_gb <= u.last_gb /\ u.last_gb <= u.last_time
      /\ u.last_flushed_gb <= u.last_time
  <2>1. /\ t.generation < Generations /\ t.flush_start_gb <= t.last_gb /\ t.last_gb <= t.last_time
        /\ t.last_flushed_gb <= t.last_time
    BY DEF TableOK
  <2>2. t.flush_start_gb <= t.last_time
    BY <2>1, LftaNats
  <2> QED BY <1>1, <2>1, <2>2
<1>10. \A i \in Filled(u) : /\ u.last_flushed_gb <= u.slot[i].gb /\ u.slot[i].gb <= u.last_gb
                            /\ u.slot[i].gen = u.generation => u.slot[i].gb = u.last_gb
                            /\ u.slot[i].gen # u.generation => u.flush_pos <= i
  BY <1>1, <1>6, <1>7, <1>8 DEF TableOK
<1>11. \A i, j \in Filled(u) :
         u.slot[i].gen # u.generation /\ u.slot[j].gen # u.generation => u.slot[i].gb = u.slot[j].gb
  BY <1>1, <1>6 DEF TableOK
<1>12. TableOK(u)
  BY <1>5, <1>9, <1>10, <1>11 DEF TableOK
<1> QED
  BY <1>12 DEF u

LEMMA PostedIs ==
  ASSUME NEW t \in Lftas, NEW v, Victims(t, v)
  PROVE  /\ Posted(t, v) \in Seq(DataTuples) /\ Len(Posted(t, v)) = Len(v) /\ Len(v) \in Nat
         /\ \A j \in 1 .. Len(v) : /\ v[j] \in Slot /\ Posted(t, v)[j] = GroupTuple(t.slot[v[j]])
                                   /\ IsRegular(Posted(t, v)[j]) /\ Posted(t, v)[j].gb = t.slot[v[j]].gb
                                   /\ Posted(t, v)[j].grp = t.slot[v[j]].grp /\ Posted(t, v)[j].cnt = t.slot[v[j]].cnt
<1>1. Len(v) \in Nat /\ \A j \in 1 .. Len(v) : v[j] \in Slot
  BY DEF Victims
<1>2. \A j \in 1 .. Len(v) : GroupTuple(t.slot[v[j]]) \in DataTuples
  BY <1>1, GroupTupleType
<1> DEFINE q == Posted(t, v)
<1>3. \A j \in 1 .. Len(v) : q[j] = GroupTuple(t.slot[v[j]])
  BY DEF Posted
<1>4. q \in Seq(DataTuples) /\ Len(q) = Len(v)
  <2> HIDE DEF GroupTuple
  <2> QED BY <1>1, <1>2, IsASeq DEF Posted
<1>5. \A s : /\ IsRegular(GroupTuple(s)) /\ GroupTuple(s).gb = s.gb
             /\ GroupTuple(s).grp = s.grp /\ GroupTuple(s).cnt = s.cnt
  BY DEF GroupTuple, Regular, IsRegular
<1> HIDE DEF q, GroupTuple
<1> QED
  BY <1>1, <1>3, <1>4, <1>5 DEF q

LEMMA WithoutBalance ==
  ASSUME NEW t \in Lftas, TableOK(t), NEW v, NEW p \in 0 .. MaxAggrs, Victims(t, v), NEW k
  PROVE  Held(t, k[1], k[2]) = Held(Without(t, v, p), k[1], k[2]) + InSeq(Posted(t, v), k)
<1> DEFINE u == Without(t, v, p)
           q == Posted(t, v)
           n == MaxAggrs
           m == Len(v)
           w == SlotShares(t, k[1], k[2])
           z == SlotShares(u, k[1], k[2])
           h == Shares(q, k)
           b == [j \in 1 .. m |-> v[j] + 1]
<1>1. /\ u \in Lftas /\ \A x \in Slot : (\A j \in 1 .. m : v[j] # x) => u.slot[x] = t.slot[x]
      /\ \A j \in 1 .. m : u.slot[v[j]] = Empty
  BY WithoutIs
<1>2. /\ q \in Seq(Counted) /\ Len(q) = m /\ m \in Nat
      /\ \A j \in 1 .. m : /\ v[j] \in Slot /\ q[j].gb = t.slot[v[j]].gb
                           /\ q[j].grp = t.slot[v[j]].grp /\ q[j].cnt = t.slot[v[j]].cnt
  BY PostedIs, CountedAll
<1>3. n \in Nat /\ \A x \in Slot : x \in Nat /\ x + 1 \in 1 .. n
  BY Numbers DEF Slot
<1>4. /\ Held(t, k[1], k[2]) = Total(w, n)
      /\ \A i \in 1 .. n : w[i] \in Nat /\ w[i] = SlotShare(t.slot[i - 1], k[1], k[2])
  BY HeldTotal
<1> HIDE DEF u, q
<1>5. /\ Held(u, k[1], k[2]) = Total(z, n)
      /\ \A i \in 1 .. n : z[i] \in Nat /\ z[i] = SlotShare(u.slot[i - 1], k[1], k[2])
  BY <1>1, HeldTotal
<1>6. InSeq(q, k) = Total(h, m) /\ \A j \in 1 .. m : h[j] = Share(q[j], k)
  BY <1>2, InSeqTotal
<1>7. \A j \in 1 .. m : b[j] = v[j] + 1 /\ b[j] \in 1 .. n /\ b[j] - 1 = v[j]
  BY <1>2, <1>3
<1>8. \A i, j \in 1 .. m : b[i] = b[j] => i = j
  <2>1. \A i, j \in 1 .. m : v[i] = v[j] => i = j
    BY DEF Victims
  <2> QED BY <1>2, <1>3, <1>7, <2>1
<1> HIDE DEF b, w, z, h, m, n
<1>9. \A j \in 1 .. m : h[j] = w[b[j]]
  <2> SUFFICES ASSUME NEW j \in 1 .. m PROVE h[j] = w[b[j]]
    OBVIOUS
  <2>1. t.slot[v[j]].filled
    <3>1. v[j] \in Slot /\ Flushable(t, v[j])
      BY <1>2 DEF Victims, m
    <3>2. v[j] \in Filled(t)
      BY <3>1, OldIs
    <3> QED BY <3>2 DEF Filled
  <2>2. w[b[j]] = SlotShare(t.slot[v[j]], k[1], k[2])
    BY <1>4, <1>7
  <2> QED BY <1>2, <1>6, <2>1, <2>2 DEF Share, SlotShare
<1>10. \A i \in 1 .. n : z[i] = IF \E j \in 1 .. m : b[j] = i THEN 0 ELSE w[i]
  <2> SUFFICES ASSUME NEW i \in 1 .. n
               PROVE  z[i] = IF \E j \in 1 .. m : b[j] = i THEN 0 ELSE w[i]
    OBVIOUS
  <2>1. i - 1 \in Slot
    BY Numbers DEF Slot, n
  <2>2. ASSUME NEW j \in 1 .. m, b[j] = i PROVE z[i] = 0
    <3>1. v[j] = i - 1 /\ u.slot[i - 1] = Empty
      BY <1>1, <1>7, <2>2
    <3>2. SlotShare(Empty, k[1], k[2]) = 0
      BY DEF SlotShare, Empty
    <3> QED BY <1>5, <3>1, <3>2
  <2>3. ASSUME \A j \in 1 .. m : b[j] # i PROVE z[i] = w[i]
    <3>1. \A j \in 1 .. m : v[j] # i - 1
      BY <1>2, <1>3, <1>7, <2>3
    <3>2. u.slot[i - 1] = t.slot[i - 1]
      BY <1>1, <2>1, <3>1
    <3> QED BY <1>4, <1>5, <3>2
  <2> QED BY <2>2, <2>3
<1>11. Total(w, n) = Total(z, n) + Total(h, m)
  <2>1. \A i \in 1 .. n : w[i] \in Nat
    BY <1>4
  <2>2. \A j \in 1 .. m : b[j] \in 1 .. n /\ h[j] = w[b[j]]
    BY <1>7, <1>9
  <2>3. m \in Nat /\ n \in Nat
    BY <1>2, <1>3
  <2> QED BY <1>8, <1>10, <2>1, <2>2, <2>3, TotalMoved
<1> QED
  BY <1>4, <1>5, <1>6, <1>11 DEF u, q

(* What a flush leaves as it is. *)
SameEpoch(t, u) ==
  /\ u.generation = t.generation /\ u.last_gb = t.last_gb /\ u.last_time = t.last_time
  /\ \A x \in Filled(t) : t.slot[x].gen = t.generation => x \in Filled(u) /\ u.slot[x] = t.slot[x]
  /\ \A x \in Filled(u) : x \in Filled(t) /\ u.slot[x] = t.slot[x]

AllCurrent(t) == \A x \in Filled(t) : t.slot[x].gen = t.generation

LEMMA FlushOldKeeps ==
  ASSUME NEW t \in Lftas, TableOK(t), NEW nflush \in Nat \ {0}
  PROVE  /\ InOrder(t, FlushOld(t, nflush)) /\ SameEpoch(t, FlushOld(t, nflush).t)
         /\ \A k : Balance(t, FlushOld(t, nflush), k, 0)
         /\ nflush = MaxAggrs => AllCurrent(FlushOld(t, nflush).t)
<1> DEFINE r == FlushOld(t, nflush)
<1>0. PICK v, p : Flushes(t, nflush, v, p)
  BY FlushOldIs, Zenon
<1>1. /\ Victims(t, v) /\ p \in 0 .. MaxAggrs /\ r.t = Without(t, v, p) /\ r.out = Posted(t, v)
      /\ \A x \in Slot : Flushable(t, x) /\ (\A j \in 1 .. Len(v) : v[j] # x) =>
            nflush # MaxAggrs /\ (p <= x \/ t.n_aggrs - Len(v) <= 0)
  BY <1>0 DEF Flushes
<1> DEFINE u == Without(t, v, p)
           q == Posted(t, v)
<1>2. /\ u \in Lftas /\ Filled(u) = Filled(t) \ {v[j] : j \in 1 .. Len(v)}
      /\ \A x \in Slot : (\A j \in 1 .. Len(v) : v[j] # x) => u.slot[x] = t.slot[x]
      /\ u.generation = t.generation /\ u.last_gb = t.last_gb /\ u.last_time = t.last_time
  BY <1>1, WithoutIs
<1>3. /\ q \in Seq(DataTuples) /\ Len(q) = Len(v) /\ Len(v) \in Nat
      /\ \A j \in 1 .. Len(v) : v[j] \in Slot /\ IsRegular(q[j]) /\ q[j].gb = t.slot[v[j]].gb
  BY <1>1, PostedIs
<1>4. TableOK(u)
  BY <1>1, WithoutTable
<1>5. \A k : Held(t, k[1], k[2]) = Held(u, k[1], k[2]) + InSeq(q, k)
  BY <1>1, WithoutBalance
<1>6. r.t = u /\ r.out = q
  BY <1>1
<1>7. Filled(t) \subseteq Slot
  BY FilledFinite
<1>8. \A j \in 1 .. Len(v) : v[j] \in Filled(t) /\ t.slot[v[j]].gen # t.generation
  BY <1>1, <1>3, OldIs DEF Victims
<1> HIDE DEF r, u, q
<1>9. \A x \in Filled(u) : x \in Slot /\ x \in Filled(t) /\ u.slot[x] = t.slot[x] /\ \A j \in 1 .. Len(v) : v[j] # x
  BY <1>2, <1>7
<1>10. SameEpoch(t, u)
  <2>1. \A x \in Filled(t) : t.slot[x].gen = t.generation => \A j \in 1 .. Len(v) : v[j] # x
    BY <1>8
  <2> QED BY <1>2, <1>7, <1>9, <2>1 DEF SameEpoch
<1>11. nflush = MaxAggrs => AllCurrent(u)
  <2> SUFFICES ASSUME nflush = MaxAggrs, NEW x \in Filled(u), u.slot[x].gen # u.generation PROVE FALSE
    BY DEF AllCurrent
  <2>1. x \in Slot /\ Flushable(t, x) /\ \A j \in 1 .. Len(v) : v[j] # x
    BY <1>2, <1>9, OldIs
  <2> QED BY <1>1, <2>1
<1>12. \A k : Balance(t, r, k, 0)
  <2> SUFFICES ASSUME NEW k PROVE Balance(t, r, k, 0)
    OBVIOUS
  <2>1. Held(t, k[1], k[2]) \in Nat
    BY HeldTotal
  <2>2. Held(t, k[1], k[2]) + 0 = Held(t, k[1], k[2])
    BY <2>1
  <2> QED BY <1>5, <1>6, <2>2 DEF Balance
<1>13. Orderly(q) /\ TempsEmpty(q)
  <2>1. \A i, j \in 1 .. Len(v) : q[i].gb = q[j].gb /\ q[j].gb \in Nat
    <3>1. \A i, j \in 1 .. Len(v) : t.slot[v[i]].gb = t.slot[v[j]].gb
      BY <1>8 DEF TableOK
    <3> QED BY <1>3, <3>1, LftaNats
  <2>2. \A j \in 1 .. Len(q) : \A i \in 1 .. j - 1 : i \in 1 .. Len(v) /\ j \in 1 .. Len(v)
    BY <1>3
  <2>3. Orderly(q)
    BY <2>1, <2>2 DEF Orderly
  <2>4. TempsEmpty(q)
    BY <1>3 DEF TempsEmpty
  <2> QED BY <2>3, <2>4
<1>14. \A i \in 1 .. Len(q) : AtLeast(u, q[i].gb)
  <2> SUFFICES ASSUME NEW i \in 1 .. Len(q) PROVE AtLeast(u, q[i].gb)
    OBVIOUS
  <2> DEFINE g == t.slot[v[i]].gb
  <2>1. v[i] \in Filled(t) /\ v[i] \in Slot /\ t.slot[v[i]].gen # t.generation /\ q[i].gb = g
    BY <1>3, <1>8
  <2>2. g \in Nat /\ g <= t.last_gb /\ t.last_gb <= t.last_time /\ t.last_gb \in Nat /\ t.last_time \in Nat
    BY <2>1, LftaNats DEF TableOK
  <2>3. \A x \in Filled(u) : t.slot[x].gb = g \/ t.slot[x].gb = t.last_gb
    BY <1>9, <2>1 DEF TableOK
  <2> HIDE DEF g
  <2>4. g <= u.last_time /\ \A x \in Filled(u) : g <= u.slot[x].gb
    BY <1>2, <1>9, <2>2, <2>3
  <2> QED BY <2>1, <2>4 DEF AtLeast
<1>15. ASSUME NEW b \in Gbs, AtLeast(t, b)
       PROVE  AtLeast(u, b) /\ \A i \in 1 .. Len(q) : IsRegular(q[i]) => b <= q[i].gb
  <2>1. AtLeast(u, b)
    BY <1>2, <1>9, <1>15 DEF AtLeast
  <2>2. \A i \in 1 .. Len(q) : b <= q[i].gb
    BY <1>3, <1>8, <1>15 DEF AtLeast
  <2> QED BY <2>1, <2>2
<1>16. InOrder(t, r)
  BY <1>2, <1>3, <1>4, <1>6, <1>13, <1>14, <1>15 DEF InOrder
<1> QED
  BY <1>6, <1>10, <1>11, <1>12, <1>16 DEF r

(* The counts of a table are those of its slots. *)
LEMMA HeldSame ==
  ASSUME NEW t \in Lftas, NEW u \in Lftas, NEW e, NEW g,
         \A x \in Slot : SlotShare(u.slot[x], e, g) = SlotShare(t.slot[x], e, g)
  PROVE  Held(u, e, g) = Held(t, e, g)
<1> DEFINE w == SlotShares(t, e, g)
           z == SlotShares(u, e, g)
<1>1. Held(t, e, g) = Total(w, MaxAggrs) /\ Held(u, e, g) = Total(z, MaxAggrs) /\ MaxAggrs \in Nat
  BY HeldTotal, Numbers
<1>2. \A i \in 1 .. MaxAggrs : w[i] \in Nat /\ w[i] = SlotShare(t.slot[i - 1], e, g)
  BY HeldTotal
<1>3. \A i \in 1 .. MaxAggrs : z[i] = SlotShare(u.slot[i - 1], e, g) /\ i - 1 \in Slot
  BY HeldTotal, SlotShareType
<1> HIDE DEF w, z
<1>4. \A i \in 1 .. MaxAggrs : w[i] \in Nat /\ z[i] = w[i]
  BY <1>2, <1>3
<1> QED
  BY <1>1, <1>4, TotalSame

(* A step that posts nothing and moves no group. *)
LEMMA Silent ==
  ASSUME NEW t \in Lftas, NEW u \in Lftas, TableOK(u), u.slot = t.slot, t.last_time <= u.last_time
  PROVE  /\ InOrder(t, [t |-> u, out |-> <<>>])
         /\ \A k : Balance(t, [t |-> u, out |-> <<>>], k, 0)
<1> DEFINE r == [t |-> u, out |-> <<>>]
<1>1. r.t = u /\ r.out = <<>> /\ Len(r.out) = 0 /\ r.out \in Seq(DataTuples)
  OBVIOUS
<1>2. Filled(u) = Filled(t)
  BY DEF Filled
<1>3. \A b \in Gbs : AtLeast(t, b) => AtLeast(u, b)
  <2>1. \A b \in Gbs : b \in Nat
    BY Numbers
  <2>2. t.last_time \in Nat /\ u.last_time \in Nat
    BY LftaNats
  <2> QED BY <1>2, <2>1, <2>2 DEF AtLeast
<1> HIDE DEF r
<1>4. InOrder(t, r)
  BY <1>1, <1>3 DEF InOrder, Orderly, TempsEmpty
<1>5. \A k : Balance(t, r, k, 0)
  <2> SUFFICES ASSUME NEW k PROVE Balance(t, r, k, 0)
    OBVIOUS
  <2>1. Held(u, k[1], k[2]) = Held(t, k[1], k[2]) /\ Held(t, k[1], k[2]) \in Nat
    BY HeldSame, HeldTotal
  <2>2. InSeq(r.out, k) = 0
    BY <1>1, InSeqEmpty
  <2> QED BY <1>1, <2>1, <2>2 DEF Balance
<1> QED
  BY <1>4, <1>5 DEF r

(* Nothing happens. *)
LEMMA Stays ==
  ASSUME NEW t \in Lftas, TableOK(t)
  PROVE  /\ InOrder(t, [t |-> t, out |-> <<>>])
         /\ \A k : Balance(t, [t |-> t, out |-> <<>>], k, 0)
<1>1. t.last_time <= t.last_time
  BY LftaNats
<1> QED
  BY <1>1, Silent

LEMMA FlushPendingKeeps ==
  ASSUME NEW t \in Lftas, TableOK(t)
  PROVE  /\ InOrder(t, FlushPending(t)) /\ SameEpoch(t, FlushPending(t).t)
         /\ \A k : Balance(t, FlushPending(t), k, 0)
         /\ AllCurrent(FlushPending(t).t)
<1>1. MaxAggrs \in Nat \ {0}
  BY Numbers
<1>2. CASE t.flush_pos < MaxAggrs
  <2>1. FlushPending(t) = FlushOld(t, MaxAggrs)
    BY <1>2 DEF FlushPending, FlushAll
  <2> QED BY <1>1, <2>1, FlushOldKeeps
<1>3. CASE ~(t.flush_pos < MaxAggrs)
  <2> DEFINE r == [t |-> t, out |-> <<>>]
  <2>1. FlushPending(t) = r /\ r.t = t
    BY <1>3 DEF FlushPending
  <2>2. InOrder(t, r) /\ \A k : Balance(t, r, k, 0)
    BY Stays
  <2> HIDE DEF r
  <2>3. SameEpoch(t, t)
    BY DEF SameEpoch
  <2>4. AllCurrent(t)
    <3>1. \A x \in Filled(t) : x \in Slot
      BY FilledFinite
    <3> QED BY <1>1, <1>3, <3>1, LftaNats DEF AllCurrent, TableOK
  <2> QED BY <2>1, <2>2, <2>3, <2>4
<1> QED
  BY <1>2, <1>3

LEMMA SlowFlushStepKeeps ==
  ASSUME NEW t \in Lftas, TableOK(t)
  PROVE  /\ InOrder(t, SlowFlushStep(t)) /\ \A k : Balance(t, SlowFlushStep(t), k, 0)
         /\ SlowFlushStep(t).t.last_gb = t.last_gb /\ SlowFlushStep(t).t.last_time = t.last_time
<1> DEFINE S(c) == [t EXCEPT !.flush_ctr = c]
<1>1. ASSUME NEW c \in 0 .. SlowFlush - 1
      PROVE  /\ S(c) \in Lftas /\ TableOK(S(c)) /\ S(c).slot = t.slot /\ S(c).last_time = t.last_time
             /\ S(c).last_gb = t.last_gb
             /\ InOrder(t, [t |-> S(c), out |-> <<>>]) /\ \A k : Balance(t, [t |-> S(c), out |-> <<>>], k, 0)
  <2> DEFINE u == S(c)
  <2>1. u \in Lftas
    BY DEF Lftas
  <2>2. /\ u.slot = t.slot /\ u.n_aggrs = t.n_aggrs /\ u.generation = t.generation /\ u.flush_pos = t.flush_pos
        /\ u.flush_start_gb = t.flush_start_gb /\ u.last_gb = t.last_gb /\ u.last_time = t.last_time
        /\ u.last_flushed_gb = t.last_flushed_gb
    BY DEF Lftas
  <2> HIDE DEF S
  <2>3. Filled(u) = Filled(t)
    BY <2>2 DEF Filled
  <2>4. TableOK(u)
    BY <2>2, <2>3 DEF TableOK
  <2>5. t.last_time <= u.last_time
    BY <2>2, LftaNats
  <2>6. InOrder(t, [t |-> u, out |-> <<>>]) /\ \A k : Balance(t, [t |-> u, out |-> <<>>], k, 0)
    BY <2>1, <2>2, <2>4, <2>5, Silent
  <2> QED BY <2>1, <2>2, <2>4, <2>6
<1>2. 0 \in 0 .. SlowFlush - 1 /\ (t.flush_ctr + 1 < SlowFlush => t.flush_ctr + 1 \in 0 .. SlowFlush - 1)
  BY Numbers, LftaFields
<1> DEFINE u == S(0)
           w == S(t.flush_ctr + 1)
<1>3. SlowFlushStep(t) = IF t.flush_ctr + 1 < SlowFlush THEN [t |-> w, out |-> <<>>]
                         ELSE IF u.flush_pos < MaxAggrs THEN FlushOld(u, 1) ELSE [t |-> u, out |-> <<>>]
  BY DEF SlowFlushStep
<1> HIDE DEF S
<1>4. CASE t.flush_ctr + 1 < SlowFlush
  <2>1. /\ InOrder(t, [t |-> w, out |-> <<>>]) /\ \A k : Balance(t, [t |-> w, out |-> <<>>], k, 0)
        /\ w.last_gb = t.last_gb /\ w.last_time = t.last_time
    BY <1>1, <1>2, <1>4
  <2>2. SlowFlushStep(t) = [t |-> w, out |-> <<>>] /\ SlowFlushStep(t).t = w
    BY <1>3, <1>4
  <2> QED BY <2>1, <2>2
<1>5. CASE ~(t.flush_ctr + 1 < SlowFlush)
  <2>1. /\ u \in Lftas /\ TableOK(u) /\ u.last_gb = t.last_gb /\ u.last_time = t.last_time
        /\ InOrder(t, [t |-> u, out |-> <<>>]) /\ \A k : Balance(t, [t |-> u, out |-> <<>>], k, 0)
    BY <1>1, <1>2
  <2> HIDE DEF u
  <2>2. CASE ~(u.flush_pos < MaxAggrs)
    <3>1. SlowFlushStep(t) = [t |-> u, out |-> <<>>] /\ SlowFlushStep(t).t = u
      BY <1>3, <1>5, <2>2
    <3> QED BY <2>1, <3>1
  <2>3. CASE u.flush_pos < MaxAggrs
    <3> DEFINE f == FlushOld(u, 1)
               a == [t |-> u, out |-> <<>>]
               z == [t |-> f.t, out |-> a.out \o f.out]
    <3>1. SlowFlushStep(t) = f
      BY <1>3, <1>5, <2>3
    <3>2. InOrder(u, f) /\ SameEpoch(u, f.t) /\ \A k : Balance(u, f, k, 0)
      BY <2>1, FlushOldKeeps
    <3>3. f.t \in Lftas /\ f.out \in Seq(DataTuples) /\ f \in LftaResults
      BY <2>1, FlushOldType DEF LftaResults
    <3>4. a.t = u /\ a.out = <<>> /\ a.out \in Seq(DataTuples)
      OBVIOUS
    <3> HIDE DEF f
    <3>5. z = f
      BY <3>3, <3>4 DEF LftaResults
    <3> HIDE DEF a
    <3>6. InOrder(t, z)
      BY <2>1, <3>2, <3>4, InOrderThen DEF a
    <3>7. \A k : Balance(t, z, k, 0)
      <4> SUFFICES ASSUME NEW k PROVE Balance(t, z, k, 0)
        OBVIOUS
      <4>1. Balance(t, a, k, 0) /\ Balance(u, f, k, 0)
        BY <2>1, <3>2 DEF a
      <4>2. Balance(t, z, k, 0 + 0)
        BY <2>1, <3>3, <3>4, <4>1, BalanceThen
      <4> QED BY <4>2
    <3>8. f.t.last_gb = t.last_gb /\ f.t.last_time = t.last_time
      BY <2>1, <3>2 DEF SameEpoch
    <3> QED BY <3>1, <3>5, <3>6, <3>7, <3>8
  <2> QED BY <2>2, <2>3
<1> QED
  BY <1>4, <1>5

(* Whatever fields of the clock change with the step that follows one, they follow it silently. *)
LEMMA ThenSilent ==
  ASSUME NEW t \in Lftas, NEW f \in LftaResults, InOrder(t, f), \A k : Balance(t, f, k, 0),
         NEW u \in Lftas, TableOK(u), u.slot = f.t.slot, f.t.last_time <= u.last_time
  PROVE  /\ InOrder(t, [t |-> u, out |-> f.out])
         /\ \A k : Balance(t, [t |-> u, out |-> f.out], k, 0)
<1> DEFINE r == [t |-> u, out |-> <<>>]
           z == [t |-> r.t, out |-> f.out \o r.out]
<1>1. f.t \in Lftas /\ f.out \in Seq(DataTuples)
  BY DEF LftaResults
<1>2. InOrder(f.t, r) /\ \A k : Balance(f.t, r, k, 0)
  BY <1>1, Silent
<1>3. r.t = u /\ r.out = <<>> /\ r.out \in Seq(DataTuples)
  OBVIOUS
<1>4. f.out \o r.out = f.out
  BY <1>1, <1>3
<1> HIDE DEF r
<1>5. InOrder(t, z)
  BY <1>2, InOrderThen
<1>6. \A k : Balance(t, z, k, 0)
  <2> SUFFICES ASSUME NEW k PROVE Balance(t, z, k, 0)
    OBVIOUS
  <2>1. Balance(t, f, k, 0) /\ Balance(f.t, r, k, 0)
    BY <1>2
  <2>2. Balance(t, z, k, 0 + 0)
    BY <1>1, <1>3, <2>1, BalanceThen
  <2> QED BY <2>2
<1>7. z = [t |-> u, out |-> f.out]
  BY <1>3, <1>4
<1> QED
  BY <1>5, <1>6, <1>7

(* The temporal flush, with the time that causes it. *)
Turned(t, e) == [NewEpoch(t, e).t EXCEPT !.last_time = e]

LEMMA NewEpochIs ==
  ASSUME NEW t \in Lftas, NEW e \in Gbs
  PROVE  LET f == FlushPending(t)
             u == Turned(t, e)
         IN  /\ u \in Lftas /\ NewEpoch(t, e).out = f.out /\ f \in LftaResults
             /\ u.slot = f.t.slot /\ u.n_aggrs = f.t.n_aggrs /\ u.generation = (f.t.generation + 1) % Generations
             /\ u.flush_pos = 0 /\ u.flush_start_gb = e /\ u.last_gb = e /\ u.last_time = e
             /\ u.last_flushed_gb = f.t.last_flushed_gb
             /\ NewEpoch(t, e).t.last_time = f.t.last_time /\ NewEpoch(t, e).t.n_aggrs = f.t.n_aggrs
             /\ NewEpoch(t, e).t.last_flushed_gb = f.t.last_flushed_gb
             /\ NewEpoch(t, e).t.last_gb = e
<1> DEFINE f == FlushPending(t)
           a == [f.t EXCEPT !.generation = (@ + 1) % Generations, !.flush_pos = 0,
                            !.flush_start_gb = e, !.last_gb = e]
<1>1. f \in LftaResults /\ f.t \in Lftas
  BY FlushPendingType DEF LftaResults
<1>2. NewEpoch(t, e).t = a /\ NewEpoch(t, e).out = f.out
  <2>1. NewEpoch(t, e) = [f EXCEPT !.t.generation = (@ + 1) % Generations, !.t.flush_pos = 0,
                                   !.t.flush_start_gb = e, !.t.last_gb = e]
    BY DEF NewEpoch
  <2> HIDE DEF f
  <2> QED BY <1>1, <2>1 DEF LftaResults, Lftas
<1>3. NewEpoch(t, e).t \in Lftas
  BY NewEpochType DEF LftaResults
<1> HIDE DEF f
<1>4. /\ a.slot = f.t.slot /\ a.n_aggrs = f.t.n_aggrs /\ a.generation = (f.t.generation + 1) % Generations
      /\ a.flush_pos = 0 /\ a.flush_start_gb = e /\ a.last_gb = e /\ a.last_flushed_gb = f.t.last_flushed_gb
      /\ a.last_time = f.t.last_time
  BY <1>1 DEF Lftas
<1> HIDE DEF a
<1> DEFINE u == [a EXCEPT !.last_time = e]
<1>5. /\ u \in Lftas /\ u.slot = a.slot /\ u.n_aggrs = a.n_aggrs /\ u.generation = a.generation
      /\ u.flush_pos = a.flush_pos /\ u.flush_start_gb = a.flush_start_gb /\ u.last_gb = a.last_gb
      /\ u.last_flushed_gb = a.last_flushed_gb /\ u.last_time = e
  BY <1>2, <1>3 DEF Lftas
<1>6. Turned(t, e) = u
  BY <1>2 DEF Turned
<1> HIDE DEF u
<1> QED
  BY <1>1, <1>2, <1>4, <1>5, <1>6 DEF f

LEMMA NewEpochKeeps ==
  ASSUME NEW t \in Lftas, TableOK(t), NEW e \in Gbs, t.last_time <= e
  PROVE  /\ InOrder(t, [t |-> Turned(t, e), out |-> NewEpoch(t, e).out])
         /\ \A k : Balance(t, [t |-> Turned(t, e), out |-> NewEpoch(t, e).out], k, 0)
<1> DEFINE f == FlushPending(t)
           u == Turned(t, e)
<1>1. /\ u \in Lftas /\ NewEpoch(t, e).out = f.out /\ f \in LftaResults /\ f.t \in Lftas
      /\ u.slot = f.t.slot /\ u.n_aggrs = f.t.n_aggrs /\ u.generation = (f.t.generation + 1) % Generations
      /\ u.flush_pos = 0 /\ u.flush_start_gb = e /\ u.last_gb = e /\ u.last_time = e
      /\ u.last_flushed_gb = f.t.last_flushed_gb
  BY NewEpochIs DEF LftaResults
<1>2. /\ InOrder(t, f) /\ SameEpoch(t, f.t) /\ (\A k : Balance(t, f, k, 0)) /\ AllCurrent(f.t)
  BY FlushPendingKeeps
<1>3. TableOK(f.t) /\ f.t.last_time = t.last_time
  BY <1>2 DEF InOrder, SameEpoch
<1> HIDE DEF f, u
<1>4. /\ f.t.n_aggrs = Cardinality(Filled(f.t)) /\ f.t.generation < Generations
      /\ f.t.last_gb <= f.t.last_time /\ f.t.last_flushed_gb <= f.t.last_time
      /\ \A i \in Filled(f.t) : f.t.last_flushed_gb <= f.t.slot[i].gb /\ f.t.slot[i].gb = f.t.last_gb
  BY <1>2, <1>3 DEF TableOK, AllCurrent
<1>5. Filled(u) = Filled(f.t)
  BY <1>1 DEF Filled
<1>6. f.t.generation \in Nat /\ f.t.last_gb \in Nat /\ f.t.last_time \in Nat /\ f.t.last_flushed_gb \in Nat /\ e \in Nat
  <2>1. e \in Nat
    BY Numbers
  <2> QED BY <1>1, <2>1, LftaNats
<1>7. u.generation # f.t.generation /\ u.generation < Generations
  BY <1>1, <1>4, <1>6 DEF Generations
<1>8. f.t.last_flushed_gb <= e /\ f.t.last_gb <= e /\ e <= e
  BY <1>3, <1>4, <1>6
<1>9. \A i \in Filled(u) : u.slot[i].gen # u.generation /\ u.slot[i].gb = f.t.last_gb /\ i \in Nat /\ 0 <= i
  <2>1. \A i \in Filled(u) : i \in Slot
    BY FilledFinite
  <2>2. Slot \subseteq Nat
    BY Numbers
  <2>3. \A i \in Filled(u) : u.slot[i].gen = f.t.generation /\ u.slot[i].gb = f.t.last_gb
    BY <1>1, <1>2, <1>4, <1>5 DEF AllCurrent
  <2>4. \A i \in Filled(u) : i \in Nat
    BY <2>1, <2>2
  <2>5. \A i \in Nat : 0 <= i
    OBVIOUS
  <2> QED BY <1>7, <2>3, <2>4, <2>5
<1>10. TableOK(u)
  BY <1>1, <1>4, <1>5, <1>7, <1>8, <1>9 DEF TableOK
<1>11. f.t.last_time <= u.last_time
  BY <1>1, <1>3
<1> QED
  BY <1>1, <1>2, <1>10, <1>11, ThenSilent DEF u

LEMMA PrelimKeeps ==
  ASSUME NEW t \in Lftas, TableOK(t), NEW e \in Gbs, t.last_time <= e
  PROVE  /\ InOrder(t, Prelim(t, e)) /\ \A k : Balance(t, Prelim(t, e), k, 0)
         /\ Prelim(t, e).t.last_time = e
<1> DEFINE a == SlowFlushStep(t)
           u == [a.t EXCEPT !.last_time = e]
           z == [t |-> u, out |-> a.out]
<1>1. a \in LftaResults /\ a.t \in Lftas
  BY SlowFlushStepType DEF LftaResults
<1>2. /\ InOrder(t, a) /\ (\A k : Balance(t, a, k, 0))
      /\ a.t.last_gb = t.last_gb /\ a.t.last_time = t.last_time
  BY SlowFlushStepKeeps
<1>3. Prelim(t, e) = z
  <2>1. Prelim(t, e) = [a EXCEPT !.t.last_time = e]
    BY DEF Prelim
  <2> HIDE DEF a
  <2> QED BY <1>1, <2>1 DEF LftaResults
<1>4. TableOK(a.t)
  BY <1>2 DEF InOrder
<1> HIDE DEF a
<1>5. /\ u \in Lftas /\ u.slot = a.t.slot /\ u.n_aggrs = a.t.n_aggrs /\ u.generation = a.t.generation
      /\ u.flush_pos = a.t.flush_pos /\ u.flush_start_gb = a.t.flush_start_gb /\ u.last_gb = a.t.last_gb
      /\ u.last_flushed_gb = a.t.last_flushed_gb /\ u.last_time = e
  BY <1>1 DEF Lftas
<1> HIDE DEF u
<1>6. Filled(u) = Filled(a.t)
  BY <1>5 DEF Filled
<1>7. e \in Nat /\ a.t.last_gb \in Nat /\ a.t.last_flushed_gb \in Nat /\ a.t.last_time \in Nat
  <2>1. e \in Nat
    BY Numbers
  <2> QED BY <1>1, <2>1, LftaNats
<1>8. a.t.last_gb <= e /\ a.t.last_flushed_gb <= e
  <2>1. a.t.last_gb <= a.t.last_time /\ a.t.last_flushed_gb <= a.t.last_time
    BY <1>4 DEF TableOK
  <2> QED BY <1>2, <1>7, <2>1
<1>9. TableOK(u)
  BY <1>4, <1>5, <1>6, <1>8 DEF TableOK
<1>10. a.t.last_time <= u.last_time
  BY <1>2, <1>5
<1>11. InOrder(t, z) /\ \A k : Balance(t, z, k, 0)
  BY <1>1, <1>2, <1>5, <1>9, <1>10, ThenSilent
<1> QED
  BY <1>3, <1>5, <1>11

-----------------------------------------------------------------------------
(* A packet and its group. *)

(* The group of slot b, now of the current epoch e. *)
Group(t, e, g, c) == [filled |-> TRUE, gen |-> t.generation, gb |-> e, grp |-> g, cnt |-> c]
Put(t, b, s, n)   == [t EXCEPT !.n_aggrs = n, !.slot[b] = s]

LEMMA PutIs ==
  ASSUME NEW t \in Lftas, NEW b \in Slot, NEW s \in Slots, NEW n \in Int
  PROVE  LET u == Put(t, b, s, n)
         IN  /\ u \in Lftas /\ u.slot[b] = s /\ \A x \in Slot : x # b => u.slot[x] = t.slot[x]
             /\ u.n_aggrs = n /\ u.generation = t.generation /\ u.flush_pos = t.flush_pos
             /\ u.flush_start_gb = t.flush_start_gb /\ u.last_gb = t.last_gb
             /\ u.last_flushed_gb = t.last_flushed_gb /\ u.last_time = t.last_time
<1> DEFINE q == [t.slot EXCEPT ![b] = s]
           u == [t EXCEPT !.n_aggrs = n, !.slot = q]
<1>1. q \in [Slot -> Slots] /\ q[b] = s /\ \A x \in Slot : x # b => q[x] = t.slot[x]
  BY LftaFields
<1>2. Put(t, b, s, n) = u
  BY DEF Put, Lftas
<1> HIDE DEF q
<1>3. /\ u \in Lftas /\ u.slot = q /\ u.n_aggrs = n /\ u.generation = t.generation /\ u.flush_pos = t.flush_pos
      /\ u.flush_start_gb = t.flush_start_gb /\ u.last_gb = t.last_gb
      /\ u.last_flushed_gb = t.last_flushed_gb /\ u.last_time = t.last_time
  BY <1>1 DEF Lftas
<1> HIDE DEF u
<1> QED
  BY <1>1, <1>2, <1>3

(* What follows from t and the table u with group s, of epoch e, in its slot b. *)
PutOK(t, b, e, s, u) ==
  /\ u \in Lftas /\ TableOK(u) /\ Filled(u) = Filled(t) \cup {b}
  /\ \A x \in Filled(u) : u.slot[x].gb = IF x = b THEN e ELSE t.slot[x].gb
  /\ \A a \in Gbs : AtLeast(t, a) => AtLeast(u, a)
  /\ \A k : Held(u, k[1], k[2]) + SlotShare(t.slot[b], k[1], k[2])
            = Held(t, k[1], k[2]) + SlotShare(s, k[1], k[2])

LEMMA PutKeeps ==
  ASSUME NEW t \in Lftas, TableOK(t), NEW b \in Slot, NEW e \in Gbs, NEW g \in Grps, NEW c \in Nat,
         e = t.last_gb, e = t.last_time
  PROVE  PutOK(t, b, e, Group(t, e, g, c), Put(t, b, Group(t, e, g, c), Cardinality(Filled(t) \cup {b})))
<1> DEFINE s == Group(t, e, g, c)
           n == Cardinality(Filled(t) \cup {b})
           u == Put(t, b, s, n)
<1>1. s \in Slots /\ s.filled /\ s.gen = t.generation /\ s.gb = e
  BY LftaFields DEF Group, Slots
<1>2. n \in Int /\ Filled(t) \subseteq Slot
  <2>1. IsFiniteSet(Filled(t)) /\ Filled(t) \subseteq Slot
    BY FilledFinite
  <2>2. IsFiniteSet(Filled(t) \cup {b})
    BY <2>1, FS_AddElement
  <2>3. n \in Nat
    BY <2>2, FS_CardinalityType
  <2> QED BY <2>1, <2>3
<1> HIDE DEF s, n
<1>3. /\ u \in Lftas /\ u.slot[b] = s /\ (\A x \in Slot : x # b => u.slot[x] = t.slot[x])
      /\ u.n_aggrs = n /\ u.generation = t.generation /\ u.flush_pos = t.flush_pos
      /\ u.flush_start_gb = t.flush_start_gb /\ u.last_gb = t.last_gb
      /\ u.last_flushed_gb = t.last_flushed_gb /\ u.last_time = t.last_time
  BY <1>1, <1>2, PutIs
<1> HIDE DEF u
<1>4. Filled(u) = Filled(t) \cup {b}
  <2>1. \A x \in Slot : u.slot[x].filled <=> t.slot[x].filled \/ x = b
    BY <1>1, <1>3
  <2> QED BY <2>1 DEF Filled
<1>5. \A x \in Filled(u) : x # b => x \in Filled(t) /\ x \in Slot /\ u.slot[x] = t.slot[x]
  BY <1>2, <1>3, <1>4
<1>6. \A x \in Filled(u) : u.slot[x].gb = IF x = b THEN e ELSE t.slot[x].gb
  BY <1>1, <1>3, <1>5
<1>7. \A a \in Gbs : AtLeast(t, a) => AtLeast(u, a)
  BY <1>3, <1>5, <1>6 DEF AtLeast
<1>8. TableOK(u)
  <2>1. /\ t.generation < Generations /\ t.flush_start_gb <= t.last_gb /\ t.last_gb <= t.last_time
        /\ t.last_flushed_gb <= t.last_time
        /\ \A i \in Filled(t) :
            /\ t.last_flushed_gb <= t.slot[i].gb /\ t.slot[i].gb <= t.last_gb
            /\ t.slot[i].gen = t.generation => t.slot[i].gb = t.last_gb
            /\ t.slot[i].gen # t.generation => t.flush_pos <= i
        /\ \A i, j \in Filled(t) :
            t.slot[i].gen # t.generation /\ t.slot[j].gen # t.generation => t.slot[i].gb = t.slot[j].gb
    BY DEF TableOK
  <2>2. u.n_aggrs = Cardinality(Filled(u))
    BY <1>3, <1>4 DEF n
  <2>3. /\ u.generation < Generations /\ u.flush_start_gb <= u.last_gb /\ u.last_gb <= u.last_time
        /\ u.last_flushed_gb <= u.last_time
    BY <1>3, <2>1
  <2>4. ASSUME NEW i \in Filled(u)
        PROVE  /\ u.last_flushed_gb <= u.slot[i].gb /\ u.slot[i].gb <= u.last_gb
               /\ u.slot[i].gen = u.generation => u.slot[i].gb = u.last_gb
               /\ u.slot[i].gen # u.generation => u.flush_pos <= i
    <3>1. CASE i = b
      <4>1. t.last_gb <= t.last_gb
        BY LftaNats
      <4> QED BY <1>1, <1>3, <2>1, <3>1, <4>1
    <3>2. CASE i # b
      BY <1>3, <1>5, <2>1, <3>2
    <3> QED BY <3>1, <3>2
  <2>5. \A i, j \in Filled(u) :
          u.slot[i].gen # u.generation /\ u.slot[j].gen # u.generation => u.slot[i].gb = u.slot[j].gb
    <3>1. \A i \in Filled(u) : u.slot[i].gen # u.generation => i # b
      BY <1>1, <1>3
    <3> QED BY <1>3, <1>5, <2>1, <3>1
  <2> QED BY <2>2, <2>3, <2>4, <2>5 DEF TableOK
<1>9. \A k : Held(u, k[1], k[2]) + SlotShare(t.slot[b], k[1], k[2])
             = Held(t, k[1], k[2]) + SlotShare(s, k[1], k[2])
  <2> SUFFICES ASSUME NEW k
               PROVE  Held(u, k[1], k[2]) + SlotShare(t.slot[b], k[1], k[2])
                      = Held(t, k[1], k[2]) + SlotShare(s, k[1], k[2])
    OBVIOUS
  <2> DEFINE w == SlotShares(t, k[1], k[2])
             v == SlotShares(u, k[1], k[2])
             l == MaxAggrs
             a == b + 1
  <2>1. l \in Nat /\ a \in 1 .. l /\ a - 1 = b /\ \A i \in 1 .. l : i - 1 \in Slot /\ (i # a => i - 1 # b)
    BY Numbers DEF Slot
  <2>2. Held(t, k[1], k[2]) = Total(w, l) /\ \A i \in 1 .. l : w[i] \in Nat /\ w[i] = SlotShare(t.slot[i - 1], k[1], k[2])
    BY HeldTotal
  <2>3. Held(u, k[1], k[2]) = Total(v, l) /\ \A i \in 1 .. l : v[i] \in Nat /\ v[i] = SlotShare(u.slot[i - 1], k[1], k[2])
    BY <1>3, HeldTotal
  <2> HIDE DEF w, v, l, a
  <2>4. \A i \in 1 .. l : w[i] \in Nat /\ v[i] \in Nat /\ (i # a => v[i] = w[i])
    BY <1>3, <2>1, <2>2, <2>3
  <2>5. Total(v, l) + w[a] = Total(w, l) + v[a]
    BY <2>1, <2>4, TotalChange, SMTT(30)
  <2>6. w[a] = SlotShare(t.slot[b], k[1], k[2]) /\ v[a] = SlotShare(s, k[1], k[2])
    BY <1>3, <2>1, <2>2, <2>3
  <2> QED BY <2>2, <2>3, <2>5, <2>6
<1> QED
  BY <1>3, <1>4, <1>6, <1>7, <1>8, <1>9 DEF u, s, n, PutOK

Added(k, e, g) == IF k[1] = e /\ k[2] = g THEN 1 ELSE 0

(* The group is new, or counts one packet more. *)
LEMMA PutInOrder ==
  ASSUME NEW t \in Lftas, TableOK(t), NEW b \in Slot, NEW e \in Gbs, NEW g \in Grps, NEW c \in Nat,
         e = t.last_gb, e = t.last_time,
         IF b \in Filled(t) THEN t.slot[b].gb = e /\ t.slot[b].grp = g /\ c = t.slot[b].cnt + 1 ELSE c = 1
  PROVE  LET u == Put(t, b, Group(t, e, g, c), Cardinality(Filled(t) \cup {b}))
         IN  InOrder(t, [t |-> u, out |-> <<>>]) /\ \A k : Balance(t, [t |-> u, out |-> <<>>], k, Added(k, e, g))
<1> DEFINE s == Group(t, e, g, c)
           u == Put(t, b, s, Cardinality(Filled(t) \cup {b}))
           r == [t |-> u, out |-> <<>>]
<1>1. /\ u \in Lftas /\ TableOK(u) /\ \A a \in Gbs : AtLeast(t, a) => AtLeast(u, a)
      /\ \A k : Held(u, k[1], k[2]) + SlotShare(t.slot[b], k[1], k[2])
                = Held(t, k[1], k[2]) + SlotShare(s, k[1], k[2])
  <2>1. PutOK(t, b, e, s, u)
    BY PutKeeps
  <2> HIDE DEF s, u
  <2> QED BY <2>1 DEF PutOK
<1>2. s.filled /\ s.gb = e /\ s.grp = g /\ s.cnt = c
  BY DEF Group
<1> HIDE DEF u, s
<1>3. r.t = u /\ r.out = <<>> /\ Len(r.out) = 0 /\ r.out \in Seq(DataTuples)
  OBVIOUS
<1> HIDE DEF r
<1>4. InOrder(t, r)
  BY <1>1, <1>3 DEF InOrder, Orderly, TempsEmpty
<1>5. ASSUME NEW k PROVE Balance(t, r, k, Added(k, e, g))
  <2>1. Held(u, k[1], k[2]) \in Nat /\ Held(t, k[1], k[2]) \in Nat
    BY <1>1, HeldTotal
  <2>2. InSeq(r.out, k) = 0
    BY <1>3, InSeqEmpty
  <2>3. t.slot[b].cnt \in Nat /\ (b \in Filled(t) <=> t.slot[b].filled)
    BY LftaNats DEF Filled
  <2>4. SlotShare(s, k[1], k[2]) = SlotShare(t.slot[b], k[1], k[2]) + Added(k, e, g) /\ SlotShare(t.slot[b], k[1], k[2]) \in Nat
    BY <1>2, <2>3 DEF SlotShare, Added
  <2>5. Added(k, e, g) \in Nat
    BY DEF Added
  <2>6. Held(u, k[1], k[2]) + SlotShare(t.slot[b], k[1], k[2]) = Held(t, k[1], k[2]) + SlotShare(s, k[1], k[2])
    BY <1>1
  <2>7. Held(t, k[1], k[2]) + Added(k, e, g) = Held(u, k[1], k[2]) + 0
    <3> DEFINE h == Held(t, k[1], k[2])
               j == Held(u, k[1], k[2])
               x == SlotShare(t.slot[b], k[1], k[2])
               y == SlotShare(s, k[1], k[2])
               d == Added(k, e, g)
    <3>1. h \in Nat /\ j \in Nat /\ x \in Nat /\ d \in Nat /\ y = x + d /\ j + x = h + y
      BY <2>1, <2>4, <2>5, <2>6
    <3> HIDE DEF h, j, x, y, d
    <3>2. h + d = j + 0
      BY <3>1
    <3> QED BY <3>2 DEF h, j, x, y, d
  <2> QED BY <1>3, <2>2, <2>7 DEF Balance
<1> QED
  BY <1>4, <1>5 DEF r, u, s

(* The group takes the slot of another one, which is posted. *)
LEMMA ReplaceInOrder ==
  ASSUME NEW t \in Lftas, TableOK(t), NEW b \in Filled(t), NEW e \in Gbs, NEW g \in Grps,
         e = t.last_gb, e = t.last_time, t.slot[b].gen = t.generation => AllCurrent(t)
  PROVE  LET u == Put(t, b, Group(t, e, g, 1), Cardinality(Filled(t) \cup {b}))
             r == [t |-> u, out |-> <<GroupTuple(t.slot[b])>>]
         IN  InOrder(t, r) /\ \A k : Balance(t, r, k, Added(k, e, g))
<1> DEFINE s == Group(t, e, g, 1)
           u == Put(t, b, s, Cardinality(Filled(t) \cup {b}))
           o == GroupTuple(t.slot[b])
           r == [t |-> u, out |-> <<o>>]
<1>0. b \in Slot
  BY FilledFinite
<1>1. /\ u \in Lftas /\ TableOK(u) /\ Filled(u) = Filled(t) \cup {b}
      /\ \A x \in Filled(u) : u.slot[x].gb = IF x = b THEN e ELSE t.slot[x].gb
      /\ \A a \in Gbs : AtLeast(t, a) => AtLeast(u, a)
      /\ \A k : Held(u, k[1], k[2]) + SlotShare(t.slot[b], k[1], k[2])
                = Held(t, k[1], k[2]) + SlotShare(s, k[1], k[2])
  <2>1. PutOK(t, b, e, s, u)
    BY <1>0, PutKeeps
  <2> HIDE DEF s, u
  <2> QED BY <2>1 DEF PutOK
<1>2. s.filled /\ s.gb = e /\ s.grp = g /\ s.cnt = 1
  BY DEF Group
<1>3. o \in DataTuples /\ IsRegular(o) /\ o.gb = t.slot[b].gb /\ o.grp = t.slot[b].grp /\ o.cnt = t.slot[b].cnt
  <2>1. o \in DataTuples
    BY <1>0, GroupTupleType
  <2> QED BY <2>1 DEF GroupTuple, Regular, IsRegular
<1>4. t.slot[b].filled /\ t.slot[b].cnt \in Nat /\ t.slot[b].gb \in Nat /\ e \in Nat
  BY <1>0, LftaNats, Numbers DEF Filled
<1> HIDE DEF u, s, o
<1>5. r.t = u /\ r.out = <<o>> /\ Len(r.out) = 1 /\ r.out[1] = o /\ r.out \in Seq(DataTuples)
  BY <1>3
<1> HIDE DEF r
<1>6. AtLeast(u, o.gb)
  <2>1. t.slot[b].gb <= t.last_gb
    BY DEF TableOK
  <2>2. \A y \in Filled(t) : t.slot[y].gb = t.slot[b].gb \/ t.slot[y].gb = t.last_gb
    BY DEF TableOK, AllCurrent
  <2>3. u.last_time = e
    <3>1. s \in Slots
      BY LftaFields DEF s, Group, Slots
    <3>2. Cardinality(Filled(t) \cup {b}) \in Int
      <4>1. IsFiniteSet(Filled(t) \cup {b})
        BY FilledFinite, FS_AddElement
      <4> QED BY <4>1, FS_CardinalityType
    <3> QED BY <1>0, <3>1, <3>2, PutIs DEF u
  <2>4. t.slot[b].gb <= u.last_time
    BY <2>1, <2>3
  <2>5. \A y \in Filled(u) : t.slot[b].gb <= u.slot[y].gb
    <3>1. \A y \in Filled(u) : u.slot[y].gb = e \/ u.slot[y].gb = t.slot[b].gb
      BY <1>1, <2>2
    <3>2. t.slot[b].gb <= e /\ t.slot[b].gb <= t.slot[b].gb
      BY <1>4, <2>1
    <3> QED BY <3>1, <3>2
  <2> QED BY <1>3, <2>4, <2>5 DEF AtLeast
<1>7. \A a \in Gbs : AtLeast(t, a) => AtLeast(u, a) /\ a <= o.gb
  BY <1>1, <1>3 DEF AtLeast
<1>8. InOrder(t, r)
  <2>1. Orderly(r.out)
    BY <1>5 DEF Orderly
  <2>2. TempsEmpty(r.out)
    BY <1>3, <1>5 DEF TempsEmpty
  <2>3. \A i \in 1 .. Len(r.out) : i = 1 /\ r.out[i] = o
    BY <1>5
  <2> QED BY <1>1, <1>5, <1>6, <1>7, <2>1, <2>2, <2>3 DEF InOrder
<1>9. ASSUME NEW k PROVE Balance(t, r, k, Added(k, e, g))
  <2>1. Held(u, k[1], k[2]) \in Nat /\ Held(t, k[1], k[2]) \in Nat
    BY <1>1, HeldTotal
  <2>2. InSeq(r.out, k) = Share(o, k)
    BY <1>3, <1>5, InSeqOne, CountedAll
  <2>3. Share(o, k) = SlotShare(t.slot[b], k[1], k[2]) /\ Share(o, k) \in Nat
    BY <1>3, <1>4 DEF Share, SlotShare
  <2>4. SlotShare(s, k[1], k[2]) = Added(k, e, g) /\ Added(k, e, g) \in Nat
    BY <1>2 DEF SlotShare, Added
  <2>5. Held(u, k[1], k[2]) + SlotShare(t.slot[b], k[1], k[2]) = Held(t, k[1], k[2]) + SlotShare(s, k[1], k[2])
    BY <1>1
  <2> QED BY <1>5, <2>2, <2>3, <2>4, <2>5 DEF Balance
<1> QED
  BY <1>8, <1>9 DEF r, u, s, o

(* Update and InitGroup put the group into its slot. *)
LEMMA UpdateIs ==
  ASSUME NEW t \in Lftas, TableOK(t), NEW b \in Slot, NEW e, NEW g, Matches(t, b, e, g)
  PROVE  Update(t, b) = Put(t, b, Group(t, e, g, t.slot[b].cnt + 1), Cardinality(Filled(t) \cup {b}))
<1> DEFINE s == [t.slot[b] EXCEPT !.cnt = @ + 1]
           n == t.n_aggrs
<1>1. t.slot[b] \in Slots /\ t.slot \in [Slot -> Slots]
  BY LftaFields
<1>2. s = Group(t, e, g, t.slot[b].cnt + 1)
  <2> DEFINE x == t.slot[b]
  <2>1. x \in Slots /\ x.filled = TRUE /\ x.gen = t.generation /\ x.gb = e /\ x.grp = g
    BY <1>1 DEF Matches, Slots
  <2> HIDE DEF x
  <2> DEFINE y == [x EXCEPT !.cnt = @ + 1]
             z == [filled |-> TRUE, gen |-> t.generation, gb |-> e, grp |-> g, cnt |-> x.cnt + 1]
  <2>2. y \in Slots /\ y.filled = TRUE /\ y.gen = t.generation /\ y.gb = e /\ y.grp = g /\ y.cnt = x.cnt + 1
    BY <2>1 DEF Slots
  <2>3. z \in Slots /\ z.filled = TRUE /\ z.gen = t.generation /\ z.gb = e /\ z.grp = g /\ z.cnt = x.cnt + 1
    BY <2>1 DEF Slots
  <2>4. \A p, q \in Slots : p.filled = q.filled /\ p.gen = q.gen /\ p.gb = q.gb /\ p.grp = q.grp /\ p.cnt = q.cnt => p = q
    BY DEF Slots
  <2> HIDE DEF y, z
  <2>5. y = z
    BY <2>2, <2>3, <2>4
  <2> QED BY <2>5 DEF Group, x, y, z
<1>3. Update(t, b) = [t EXCEPT !.slot[b] = s]
  <2> DEFINE q == [t.slot EXCEPT ![b].cnt = @ + 1]
             p == [t.slot EXCEPT ![b] = s]
  <2>1. q = p
    BY <1>1
  <2>2. Update(t, b) = [t EXCEPT !.slot = q]
    BY DEF Update, Lftas
  <2>3. [t EXCEPT !.slot[b] = s] = [t EXCEPT !.slot = p]
    BY DEF Lftas
  <2> HIDE DEF q, p
  <2> QED BY <2>1, <2>2, <2>3
<1>4. n = Cardinality(Filled(t) \cup {b})
  <2>1. Filled(t) \cup {b} = Filled(t)
    BY DEF Filled, Matches
  <2> QED BY <2>1 DEF TableOK
<1>5. [t EXCEPT !.slot[b] = s] = Put(t, b, s, n)
  <2> HIDE DEF s
  <2> QED BY DEF Put, Lftas
<1> HIDE DEF s, n
<1> QED
  BY <1>2, <1>3, <1>4, <1>5

Fewer(t, d) == [t EXCEPT !.n_aggrs = @ - d]

LEMMA InitGroupIs ==
  ASSUME NEW t \in Lftas, NEW b \in Slot, NEW e, NEW g, NEW d \in Int
  PROVE  InitGroup(Fewer(t, d), b, e, g) = Put(t, b, Group(t, e, g, 1), (t.n_aggrs - d) + 1)
<1> DEFINE u == Fewer(t, d)
           s == Group(t, e, g, 1)
<1>1. u.generation = t.generation /\ u.n_aggrs = t.n_aggrs - d /\ t.n_aggrs \in Int
  BY DEF Lftas, Fewer
<1>2. Group(u, e, g, 1) = s
  BY <1>1 DEF Group
<1>3. InitGroup(u, b, e, g) = [u EXCEPT !.n_aggrs = @ + 1, !.slot[b] = Group(u, e, g, 1)]
  BY DEF InitGroup, Group
<1> HIDE DEF s
<1>4. [u EXCEPT !.n_aggrs = @ + 1, !.slot[b] = s] = [t EXCEPT !.n_aggrs = (t.n_aggrs - d) + 1, !.slot[b] = s]
  BY DEF Lftas, Fewer
<1> QED
  BY <1>2, <1>3, <1>4 DEF Put, s

LEMMA InsertKeeps ==
  ASSUME NEW t \in Lftas, TableOK(t), NEW e \in Gbs, NEW g \in Grps, e = t.last_gb, e = t.last_time
  PROVE  InOrder(t, Insert(t, e, g)) /\ \A k : Balance(t, Insert(t, e, g), k, Added(k, e, g))
<1> DEFINE b == BestSlot(t, e, g)
           f == IF t.slot[b].filled THEN Evict(t, b, e) ELSE [t |-> t, out |-> <<>>]
<1>1. b \in Slot
  BY BestSlotType, Numbers
<1>2. Insert(t, e, g) = IF Matches(t, b, e, g) THEN [t |-> Update(t, b), out |-> <<>>]
                        ELSE [t |-> InitGroup(f.t, b, e, g), out |-> f.out]
  BY DEF Insert
<1> HIDE DEF b
<1>3. t.slot[b].cnt \in Nat /\ t.n_aggrs \in Int /\ (b \in Filled(t) <=> t.slot[b].filled)
  BY <1>1, LftaNats DEF Filled
<1>4. CASE Matches(t, b, e, g)
  <2>1. Insert(t, e, g) = [t |-> Update(t, b), out |-> <<>>]
    BY <1>2, <1>4
  <2>2. Update(t, b) = Put(t, b, Group(t, e, g, t.slot[b].cnt + 1), Cardinality(Filled(t) \cup {b}))
    BY <1>1, <1>4, UpdateIs
  <2>3. b \in Filled(t) /\ t.slot[b].gb = e /\ t.slot[b].grp = g /\ t.slot[b].cnt + 1 \in Nat
    BY <1>3, <1>4 DEF Matches
  <2> QED BY <1>1, <2>1, <2>2, <2>3, PutInOrder
<1>5. CASE ~Matches(t, b, e, g) /\ ~t.slot[b].filled
  <2> DEFINE u == Fewer(t, 0)
             n == Cardinality(Filled(t) \cup {b})
  <2>1. u = t /\ f.t = t /\ f.out = <<>>
    BY <1>3, <1>5 DEF Lftas, Fewer
  <2>2. InitGroup(u, b, e, g) = Put(t, b, Group(t, e, g, 1), (t.n_aggrs - 0) + 1)
    BY <1>1, InitGroupIs
  <2>3. b \notin Filled(t)
    BY <1>3, <1>5
  <2>4. (t.n_aggrs - 0) + 1 = n
    <3>1. IsFiniteSet(Filled(t)) /\ t.n_aggrs = Cardinality(Filled(t))
      BY FilledFinite DEF TableOK
    <3>2. n = Cardinality(Filled(t)) + 1
      BY <2>3, <3>1, FS_AddElement
    <3> QED BY <1>3, <3>1, <3>2
  <2> HIDE DEF u, f, n
  <2>5. Insert(t, e, g) = [t |-> Put(t, b, Group(t, e, g, 1), n), out |-> <<>>]
    BY <1>2, <1>5, <2>1, <2>2, <2>4
  <2> QED BY <1>1, <2>3, <2>5, PutInOrder DEF n
<1>6. CASE ~Matches(t, b, e, g) /\ t.slot[b].filled
  <2> DEFINE a == IF t.slot[b].gen = t.generation /\ t.slot[b].gb = e
                  THEN FlushAll(t) ELSE [t |-> t, out |-> <<>>]
             w == Fewer(a.t, 1)
             x == GroupTuple(t.slot[b])
             n == Cardinality(Filled(a.t) \cup {b})
  <2>1. Evict(t, b, e) = [t |-> w, out |-> Append(a.out, x)]
    BY DEF Evict, Fewer
  <2>2. b \in Filled(t)
    BY <1>3, <1>6
  <2>3. /\ a \in LftaResults /\ a.t \in Lftas /\ a.out \in Seq(DataTuples) /\ InOrder(t, a) /\ \A k : Balance(t, a, k, 0)
        /\ a.t.last_gb = e /\ a.t.last_time = e /\ a.t.slot[b] = t.slot[b] /\ b \in Filled(a.t)
        /\ a.t.slot[b].gen = a.t.generation => AllCurrent(a.t)
    <3>1. CASE t.slot[b].gen = t.generation /\ t.slot[b].gb = e
      <4>1. a = FlushOld(t, MaxAggrs) /\ MaxAggrs \in Nat \ {0}
        BY <3>1, Numbers DEF FlushAll
      <4>2. a \in LftaResults
        BY <4>1, FlushOldType
      <4>3. InOrder(t, a) /\ SameEpoch(t, a.t) /\ (\A k : Balance(t, a, k, 0)) /\ AllCurrent(a.t)
        BY <4>1, FlushOldKeeps
      <4> HIDE DEF a
      <4> QED BY <2>2, <3>1, <4>2, <4>3 DEF SameEpoch, LftaResults
    <3>2. CASE ~(t.slot[b].gen = t.generation /\ t.slot[b].gb = e)
      <4>1. a = [t |-> t, out |-> <<>>] /\ a.t = t /\ a.out = <<>>
        BY <3>2
      <4>2. t.slot[b].gen # t.generation
        BY <2>2, <3>2 DEF TableOK
      <4>3. InOrder(t, [t |-> t, out |-> <<>>]) /\ \A k : Balance(t, [t |-> t, out |-> <<>>], k, 0)
        BY Stays
      <4> HIDE DEF a
      <4>4. a \in LftaResults
        BY <4>1 DEF LftaResults
      <4> QED BY <2>2, <4>1, <4>2, <4>3, <4>4 DEF LftaResults
    <3> QED BY <3>1, <3>2
  <2> HIDE DEF a
  <2> DEFINE u == Put(a.t, b, Group(a.t, e, g, 1), n)
             r == [t |-> u, out |-> <<GroupTuple(a.t.slot[b])>>]
             z == [t |-> r.t, out |-> a.out \o r.out]
  <2>4. TableOK(a.t)
    BY <2>3 DEF InOrder
  <2>5. InOrder(a.t, r) /\ \A k : Balance(a.t, r, k, Added(k, e, g))
    BY <2>3, <2>4, ReplaceInOrder
  <2>6. InitGroup(w, b, e, g) = Put(a.t, b, Group(a.t, e, g, 1), (a.t.n_aggrs - 1) + 1)
    BY <1>1, <2>3, InitGroupIs
  <2>7. (a.t.n_aggrs - 1) + 1 = n
    <3>1. Filled(a.t) \cup {b} = Filled(a.t)
      BY <2>3
    <3>2. a.t.n_aggrs = Cardinality(Filled(a.t)) /\ a.t.n_aggrs \in Int
      BY <2>3, <2>4, LftaNats DEF TableOK
    <3>3. n = a.t.n_aggrs
      BY <3>1, <3>2
    <3> HIDE DEF n
    <3> QED BY <3>2, <3>3
  <2>8. x \in DataTuples /\ GroupTuple(a.t.slot[b]) = x
    BY <1>1, <2>3, GroupTupleType
  <2>9. r.t = u /\ r.out = <<x>> /\ r.out \in Seq(DataTuples)
    BY <2>8
  <2>10. a.out \o r.out = Append(a.out, x)
    <3> HIDE DEF x, r
    <3> QED BY <2>3, <2>8, <2>9
  <2>11. Insert(t, e, g) = z
    <3> HIDE DEF w, x, n, r
    <3>1. f.t = w /\ f.out = Append(a.out, x)
      BY <1>6, <2>1
    <3> HIDE DEF f
    <3>2. Insert(t, e, g) = [t |-> InitGroup(w, b, e, g), out |-> Append(a.out, x)]
      BY <1>2, <1>6, <3>1
    <3> QED BY <2>6, <2>7, <2>9, <2>10, <3>2
  <2> HIDE DEF r, u, n
  <2>12. InOrder(t, z)
    BY <2>3, <2>5, InOrderThen
  <2>13. ASSUME NEW k PROVE Balance(t, z, k, Added(k, e, g))
    <3>1. Added(k, e, g) \in Nat
      BY DEF Added
    <3>2. r.t \in Lftas
      BY <2>5 DEF InOrder
    <3>3. Balance(t, a, k, 0) /\ Balance(a.t, r, k, Added(k, e, g))
      BY <2>3, <2>5
    <3>4. Balance(t, z, k, 0 + Added(k, e, g))
      BY <2>3, <2>9, <3>1, <3>2, <3>3, BalanceThen
    <3>5. 0 + Added(k, e, g) = Added(k, e, g)
      BY <3>1
    <3> QED BY <3>4, <3>5
  <2> QED BY <2>11, <2>12, <2>13
<1> QED
  BY <1>4, <1>5, <1>6

(* Steps one after the other. *)
LEMMA SequelOfNone ==
  ASSUME NEW t \in Lftas, NEW p, NEW r, NEW e, NEW g, InOrder(t, p), InOrder(p.t, r),
         \A k : Balance(t, p, k, 0)
  PROVE  /\ InOrder(t, [t |-> r.t, out |-> p.out \o r.out])
         /\ (\A k : Balance(p.t, r, k, 0)) => \A k : Balance(t, [t |-> r.t, out |-> p.out \o r.out], k, 0)
         /\ (\A k : Balance(p.t, r, k, Added(k, e, g))) =>
            \A k : Balance(t, [t |-> r.t, out |-> p.out \o r.out], k, Added(k, e, g))
<1> DEFINE z == [t |-> r.t, out |-> p.out \o r.out]
<1>1. p.t \in Lftas /\ r.t \in Lftas /\ p.out \in Seq(DataTuples) /\ r.out \in Seq(DataTuples)
  BY DEF InOrder
<1>2. InOrder(t, z)
  BY InOrderThen
<1>3. ASSUME NEW k, NEW d \in Nat, Balance(p.t, r, k, d) PROVE Balance(t, z, k, d)
  <2>1. Balance(t, p, k, 0)
    OBVIOUS
  <2>2. Balance(t, z, k, 0 + d)
    BY <1>1, <1>3, <2>1, BalanceThen
  <2>3. 0 + d = d
    OBVIOUS
  <2> QED BY <2>2, <2>3
<1>4. \A k : Added(k, e, g) \in Nat /\ 0 \in Nat
  BY DEF Added
<1> HIDE DEF z
<1> QED
  BY <1>2, <1>3, <1>4 DEF z

LEMMA AcceptKeeps ==
  ASSUME NEW t \in Lftas, TableOK(t), NEW e \in Gbs, NEW g \in Grps, t.last_time <= e
  PROVE  InOrder(t, Accept(t, e, g)) /\ \A k : Balance(t, Accept(t, e, g), k, Added(k, e, g))
<1> DEFINE a == Prelim(t, e)
           b == IF e # a.t.last_gb THEN NewEpoch(a.t, e) ELSE [t |-> a.t, out |-> <<>>]
           c == Insert(b.t, e, g)
           p == [t |-> b.t, out |-> a.out \o b.out]
           z == [t |-> c.t, out |-> p.out \o c.out]
<1>1. Accept(t, e, g) = [t |-> c.t, out |-> a.out \o b.out \o c.out]
  BY DEF Accept
<1>2. InOrder(t, a) /\ (\A k : Balance(t, a, k, 0)) /\ a.t.last_time = e
  BY PrelimKeeps
<1>3. a.t \in Lftas /\ TableOK(a.t) /\ e \in Nat /\ a.t.last_time <= e
  <2>1. e \in Nat
    BY Numbers
  <2> QED BY <1>2, <2>1 DEF InOrder
<1> HIDE DEF a
<1>4. InOrder(a.t, b) /\ (\A k : Balance(a.t, b, k, 0)) /\ b.t.last_time = e /\ b.t.last_gb = e
  <2>1. CASE e # a.t.last_gb
    <3> DEFINE n == NewEpoch(a.t, e)
               x == [t |-> Turned(a.t, e), out |-> n.out]
    <3>1. b = n
      BY <2>1
    <3>2. InOrder(a.t, x) /\ \A k : Balance(a.t, x, k, 0)
      BY <1>3, NewEpochKeeps
    <3>3. n \in LftaResults
      BY <1>3, NewEpochType
    <3>4. n.t.last_gb = e /\ n.t.last_time = FlushPending(a.t).t.last_time
      BY <1>3, NewEpochIs
    <3>5. n.t.last_time = e
      BY <1>2, <1>3, <3>4, FlushPendingKeeps DEF SameEpoch
    <3> HIDE DEF n
    <3>6. Turned(a.t, e) = n.t
      <4>1. Turned(a.t, e) = [n.t EXCEPT !.last_time = e]
        BY DEF Turned, n
      <4>2. n.t \in Lftas
        BY <3>3 DEF LftaResults
      <4> DEFINE y == n.t
      <4> HIDE DEF y
      <4>3. [y EXCEPT !.last_time = e] = y
        BY <3>5, <4>2 DEF Lftas, y
      <4> QED BY <4>1, <4>3 DEF y
    <3>7. x = n
      BY <3>3, <3>6 DEF LftaResults
    <3> QED BY <3>1, <3>2, <3>4, <3>5, <3>7
  <2>2. CASE e = a.t.last_gb
    <3>1. b = [t |-> a.t, out |-> <<>>] /\ b.t = a.t
      BY <2>2
    <3>2. InOrder(a.t, [t |-> a.t, out |-> <<>>]) /\ \A k : Balance(a.t, [t |-> a.t, out |-> <<>>], k, 0)
      BY <1>3, Stays
    <3> HIDE DEF b
    <3> QED BY <1>2, <2>2, <3>1, <3>2
  <2> QED BY <2>1, <2>2
<1>5. b.t \in Lftas /\ TableOK(b.t)
  BY <1>4 DEF InOrder
<1> HIDE DEF b
<1>6. InOrder(b.t, c) /\ \A k : Balance(b.t, c, k, Added(k, e, g))
  BY <1>4, <1>5, InsertKeeps
<1> HIDE DEF c
<1>7. InOrder(t, p) /\ \A k : Balance(t, p, k, 0)
  BY <1>2, <1>4, SequelOfNone
<1>8. p.t = b.t /\ p.out = a.out \o b.out
  OBVIOUS
<1> HIDE DEF p
<1>9. InOrder(t, z) /\ \A k : Balance(t, z, k, Added(k, e, g))
  BY <1>6, <1>7, <1>8, SequelOfNone
<1> QED
  BY <1>1, <1>8, <1>9

(* A temporal tuple that tells what has been flushed. *)
Told(t, v) == [t EXCEPT !.last_flushed_gb = v]

LEMMA StatusKeeps ==
  ASSUME NEW t \in Lftas, TableOK(t), NEW v \in Gbs,
         v = IF t.n_aggrs > 0 THEN t.last_flushed_gb ELSE t.last_time
  PROVE  LET r == [t |-> Told(t, v), out |-> <<Temporal(v)>>]
         IN  InOrder(t, r) /\ \A k : Balance(t, r, k, 0)
<1> DEFINE u == Told(t, v)
           x == Temporal(v)
           r == [t |-> u, out |-> <<x>>]
<1>1. /\ u \in Lftas /\ u.slot = t.slot /\ u.n_aggrs = t.n_aggrs /\ u.generation = t.generation
      /\ u.flush_pos = t.flush_pos /\ u.flush_start_gb = t.flush_start_gb /\ u.last_gb = t.last_gb
      /\ u.last_flushed_gb = v /\ u.last_time = t.last_time
  BY DEF Told, Lftas
<1>2. x \in DataTuples /\ ~IsRegular(x) /\ x.gb = v /\ x.cnt = 0
  BY Numbers DEF Temporal, DataTuples, IsRegular
<1> HIDE DEF u, x
<1>3. r.t = u /\ r.out = <<x>> /\ Len(r.out) = 1 /\ r.out[1] = x /\ r.out \in Seq(DataTuples)
  BY <1>2
<1> HIDE DEF r
<1>4. Filled(u) = Filled(t)
  BY <1>1 DEF Filled
<1>5. v <= t.last_time /\ \A i \in Filled(t) : v <= t.slot[i].gb
  <2>1. CASE t.n_aggrs > 0
    BY <2>1 DEF TableOK
  <2>2. CASE ~(t.n_aggrs > 0)
    <3>1. Filled(t) = {}
      <4>1. Cardinality(Filled(t)) = 0
        BY <2>2, FilledFinite DEF TableOK
      <4> QED BY <4>1, FilledFinite, FS_EmptySet
    <3> QED BY <2>2, <3>1, LftaNats
  <2> QED BY <2>1, <2>2
<1>6. TableOK(u)
  BY <1>1, <1>4, <1>5 DEF TableOK
<1>7. AtLeast(u, v)
  BY <1>1, <1>4, <1>5 DEF AtLeast
<1>8. \A b \in Gbs : AtLeast(t, b) => AtLeast(u, b)
  BY <1>1, <1>4 DEF AtLeast
<1>9. \A i \in 1 .. Len(r.out) : i = 1 /\ r.out[i] = x
  BY <1>3
<1>10. Orderly(r.out) /\ TempsEmpty(r.out)
  BY <1>2, <1>9 DEF Orderly, TempsEmpty
<1>11. InOrder(t, r)
  BY <1>1, <1>2, <1>3, <1>6, <1>7, <1>8, <1>9, <1>10 DEF InOrder
<1>12. ASSUME NEW k PROVE Balance(t, r, k, 0)
  <2>1. InSeq(r.out, k) = Share(x, k)
    BY <1>2, <1>3, InSeqOne, CountedAll
  <2>2. Share(x, k) = 0
    BY <1>2 DEF Share
  <2>3. Held(u, k[1], k[2]) = Held(t, k[1], k[2]) /\ Held(t, k[1], k[2]) \in Nat
    BY <1>1, HeldSame, HeldTotal
  <2> QED BY <1>3, <2>1, <2>2, <2>3 DEF Balance
<1> QED
  BY <1>11, <1>12 DEF r, u, x

LEMMA ClockKeeps ==
  ASSUME NEW t \in Lftas, TableOK(t), NEW now \in Gbs, t.last_time <= now
  PROVE  InOrder(t, Clock(t, now)) /\ \A k : Balance(t, Clock(t, now), k, 0)
<1> DEFINE a == AdvanceClock(t, now)
           v == IF a.t.n_aggrs > 0 THEN a.t.last_flushed_gb ELSE now
           w == [a.t EXCEPT !.last_time = now, !.last_flushed_gb = v]
           x == [a.t EXCEPT !.last_time = now]
           p == [t |-> x, out |-> a.out]
           r == [t |-> Told(x, v), out |-> <<Temporal(v)>>]
           z == [t |-> r.t, out |-> p.out \o r.out]
<1>1. Clock(t, now) = [t |-> w, out |-> Append(a.out, Temporal(v))]
  BY DEF Clock
<1>2. a \in LftaResults /\ a.t \in Lftas /\ a.out \in Seq(DataTuples)
  <2>1. [t |-> t, out |-> <<>>] \in LftaResults
    BY DEF LftaResults
  <2>2. NewEpoch(t, now) \in LftaResults
    BY NewEpochType
  <2> QED BY <2>1, <2>2 DEF AdvanceClock, LftaResults
<1>3. now \in Nat /\ a.t.last_flushed_gb \in Gbs /\ v \in Gbs
  BY <1>2, LftaFields, Numbers
<1>4. w = Told(x, v) /\ x.n_aggrs = a.t.n_aggrs /\ x.last_flushed_gb = a.t.last_flushed_gb /\ x.last_time = now /\ x \in Lftas
  <2> DEFINE y == a.t
  <2> HIDE DEF a, v
  <2> QED BY <1>2 DEF Told, Lftas
<1>5. InOrder(t, p) /\ \A k : Balance(t, p, k, 0)
  <2>1. CASE now > t.last_time /\ now # t.last_gb
    <3>1. a = NewEpoch(t, now) /\ x = Turned(t, now)
      BY <2>1 DEF AdvanceClock, Turned
    <3> QED BY <3>1, NewEpochKeeps
  <2>2. CASE ~(now > t.last_time /\ now # t.last_gb)
    <3>1. a = [t |-> t, out |-> <<>>] /\ a.t = t /\ a.out = <<>>
      BY <2>2 DEF AdvanceClock
    <3> HIDE DEF a
    <3> DEFINE y == [t EXCEPT !.last_time = now]
    <3>2. x = y /\ p = [t |-> y, out |-> <<>>]
      BY <3>1
    <3>3. /\ y \in Lftas /\ y.slot = t.slot /\ y.n_aggrs = t.n_aggrs /\ y.generation = t.generation
          /\ y.flush_pos = t.flush_pos /\ y.flush_start_gb = t.flush_start_gb /\ y.last_gb = t.last_gb
          /\ y.last_flushed_gb = t.last_flushed_gb /\ y.last_time = now
      BY DEF Lftas
    <3> HIDE DEF y
    <3>4. Filled(y) = Filled(t)
      BY <3>3 DEF Filled
    <3>5. t.last_gb <= now /\ t.last_flushed_gb <= now
      <4>1. t.last_gb <= t.last_time /\ t.last_flushed_gb <= t.last_time
        BY DEF TableOK
      <4> QED BY <1>3, <4>1, LftaNats
    <3>6. TableOK(y)
      BY <3>3, <3>4, <3>5 DEF TableOK
    <3>7. InOrder(t, [t |-> y, out |-> <<>>]) /\ \A k : Balance(t, [t |-> y, out |-> <<>>], k, 0)
      BY <3>3, <3>6, Silent
    <3> QED BY <3>2, <3>7
  <2> QED BY <2>1, <2>2
<1>6. TableOK(x)
  <2>1. p.t = x
    OBVIOUS
  <2> HIDE DEF p, x
  <2> QED BY <1>5, <2>1 DEF InOrder
<1>7. v = IF x.n_aggrs > 0 THEN x.last_flushed_gb ELSE x.last_time
  BY <1>4
<1> HIDE DEF a, v, w, x
<1>8. InOrder(x, r) /\ \A k : Balance(x, r, k, 0)
  BY <1>3, <1>4, <1>6, <1>7, StatusKeeps
<1>9. p.t = x /\ p.out = a.out /\ r.t = w /\ r.out = <<Temporal(v)>>
  BY <1>4
<1>10. Append(a.out, Temporal(v)) = a.out \o <<Temporal(v)>>
  <2>1. Temporal(v) \in DataTuples
    BY <1>3, Numbers DEF Temporal, DataTuples
  <2> HIDE DEF Temporal
  <2> QED BY <1>2, <2>1
<1> HIDE DEF p, r
<1>11. InOrder(t, z) /\ \A k : Balance(t, z, k, 0)
  BY <1>5, <1>8, <1>9, SequelOfNone
<1> QED
  BY <1>1, <1>9, <1>10, <1>11

(* The end of the file: all groups are posted, and the end of the stream after them. *)
Finishes(t, r) ==
  /\ r.t \in Lftas /\ TableOK(r.t) /\ Filled(r.t) = {}
  /\ r.out \in Seq(AnyTuples) /\ Orderly(r.out) /\ TempsEmpty(r.out)
  /\ \A b \in Gbs : AtLeast(t, b) => \A i \in 1 .. Len(r.out) : IsRegular(r.out[i]) => b <= r.out[i].gb

LEMMA EndAfter ==
  ASSUME NEW t \in Lftas, NEW r, InOrder(t, r), \A k : Balance(t, r, k, 0), Filled(r.t) = {}
  PROVE  LET z == [t |-> r.t, out |-> Append(r.out, Eof)] IN Finishes(t, z) /\ \A k : Balance(t, z, k, 0)
<1> DEFINE q == <<Eof>>
           o == r.out \o q
           z == [t |-> r.t, out |-> o]
<1>1. /\ r.t \in Lftas /\ r.out \in Seq(DataTuples) /\ TableOK(r.t) /\ Orderly(r.out) /\ TempsEmpty(r.out)
      /\ \A b \in Gbs : AtLeast(t, b) => \A i \in 1 .. Len(r.out) : IsRegular(r.out[i]) => b <= r.out[i].gb
  BY DEF InOrder
<1>2. Eof \in AnyTuples /\ ~IsRegular(Eof) /\ Eof.cnt = 0 /\ r.out \in Seq(AnyTuples)
  BY <1>1, EofType, CountedAll DEF Eof, IsRegular
<1>3. q \in Seq(AnyTuples) /\ Len(q) = 1 /\ q[1] = Eof
  BY <1>2
<1>4. Append(r.out, Eof) = o
  <2> HIDE DEF Eof
  <2> QED BY <1>2
<1> HIDE DEF q
<1>5. \A i \in 1 .. Len(q) : i = 1 /\ ~IsRegular(q[i]) /\ q[i].cnt = 0
  BY <1>2, <1>3
<1>6. Orderly(q) /\ TempsEmpty(q)
  BY <1>5 DEF Orderly, TempsEmpty
<1>7. o \in Seq(AnyTuples)
  BY <1>2, <1>3
<1>8. Orderly(o) /\ TempsEmpty(o)
  BY <1>1, <1>2, <1>3, <1>5, <1>6, OrderlyConcat, TempsConcat
<1>9. \A i \in 1 .. Len(o) : (i \in 1 .. Len(r.out) /\ o[i] = r.out[i]) \/ \E j \in 1 .. Len(q) : o[i] = q[j]
  BY <1>2, <1>3, ConcatAt
<1>10. z.t = r.t /\ z.out = o
  OBVIOUS
<1>11. \A k : InSeq(o, k) = InSeq(r.out, k)
  <2> SUFFICES ASSUME NEW k PROVE InSeq(o, k) = InSeq(r.out, k)
    OBVIOUS
  <2>1. r.out \in Seq(Counted) /\ q \in Seq(Counted)
    BY <1>2, <1>3, CountedAll
  <2>2. InSeq(q, k) = 0
    BY <1>5, <2>1, InSeqNone DEF Share
  <2>3. InSeq(o, k) = InSeq(r.out, k) + InSeq(q, k) /\ InSeq(r.out, k) \in Nat
    BY <2>1, InSeqConcat, InSeqTotal
  <2> QED BY <2>2, <2>3
<1> HIDE DEF o, z
<1>12. Finishes(t, z)
  <2>1. \A b \in Gbs : AtLeast(t, b) => \A i \in 1 .. Len(o) : IsRegular(o[i]) => b <= o[i].gb
    BY <1>1, <1>5, <1>9
  <2> QED BY <1>1, <1>7, <1>8, <1>10, <2>1 DEF Finishes
<1>13. \A k : Balance(t, z, k, 0)
  BY <1>10, <1>11 DEF Balance
<1> QED
  BY <1>4, <1>12, <1>13 DEF z

LEMMA FileDoneKeeps ==
  ASSUME NEW t \in Lftas, TableOK(t)
  PROVE  Finishes(t, FileDone(t)) /\ \A k : Balance(t, FileDone(t), k, 0)
<1> DEFINE a == FlushAll(t)
           u == [a.t EXCEPT !.generation = (@ + 1) % Generations, !.flush_pos = 0]
           b == FlushAll(u)
           p == [t |-> u, out |-> a.out]
           z == [t |-> b.t, out |-> p.out \o b.out]
<1>0. MaxAggrs \in Nat \ {0}
  BY Numbers
<1>1. FileDone(t) = IF t.n_aggrs = 0 THEN [t |-> t, out |-> <<Eof>>]
                    ELSE [t |-> b.t, out |-> Append(a.out \o b.out, Eof)]
  BY DEF FileDone
<1>2. CASE t.n_aggrs = 0
  <2> DEFINE r == [t |-> t, out |-> <<>>]
  <2>1. InOrder(t, r) /\ \A k : Balance(t, r, k, 0)
    BY Stays
  <2>2. Filled(t) = {}
    <3>1. Cardinality(Filled(t)) = 0
      BY <1>2 DEF TableOK
    <3> QED BY <3>1, FilledFinite, FS_EmptySet
  <2>3. r.t = t /\ Append(r.out, Eof) = <<Eof>>
    OBVIOUS
  <2> HIDE DEF r
  <2> DEFINE y == [t |-> r.t, out |-> Append(r.out, Eof)]
  <2>4. Finishes(t, y) /\ \A k : Balance(t, y, k, 0)
    BY <2>1, <2>2, <2>3, EndAfter
  <2> QED BY <1>1, <1>2, <2>3, <2>4
<1>3. CASE t.n_aggrs # 0
  <2>1. a = FlushOld(t, MaxAggrs) /\ b = FlushOld(u, MaxAggrs)
    BY DEF FlushAll
  <2>2. a \in LftaResults /\ a.t \in Lftas
    BY <1>0, <2>1, FlushOldType DEF LftaResults
  <2>3. InOrder(t, a) /\ SameEpoch(t, a.t) /\ (\A k : Balance(t, a, k, 0)) /\ AllCurrent(a.t) /\ TableOK(a.t)
    BY <1>0, <2>1, FlushOldKeeps DEF InOrder
  <2> HIDE DEF a
  <2>4. /\ u \in Lftas /\ u.slot = a.t.slot /\ u.n_aggrs = a.t.n_aggrs /\ u.generation = (a.t.generation + 1) % Generations
        /\ u.flush_pos = 0 /\ u.flush_start_gb = a.t.flush_start_gb /\ u.last_gb = a.t.last_gb
        /\ u.last_flushed_gb = a.t.last_flushed_gb /\ u.last_time = a.t.last_time
    <3>1. (a.t.generation + 1) % Generations \in Nat /\ 0 \in 0 .. MaxAggrs
      BY <1>0, <2>2, LftaFields DEF Generations
    <3> QED BY <2>2, <3>1 DEF Lftas
  <2> HIDE DEF u
  <2>5. u.generation # a.t.generation /\ u.generation < Generations
    BY <2>2, <2>3, <2>4, LftaFields DEF TableOK, Generations
  <2>6. Filled(u) = Filled(a.t)
    BY <2>4 DEF Filled
  <2>7. \A i \in Filled(u) : u.slot[i].gen # u.generation /\ u.slot[i].gb = u.last_gb /\ 0 <= i
    <3>1. \A i \in Filled(u) : i \in Slot
      BY FilledFinite
    <3>2. \A i \in Slot : 0 <= i
      BY Numbers DEF Slot
    <3>3. \A i \in Filled(u) : u.slot[i].gen = a.t.generation /\ u.slot[i].gb = u.last_gb
      BY <2>3, <2>4, <2>6 DEF AllCurrent, TableOK
    <3> QED BY <2>5, <3>1, <3>2, <3>3
  <2>8. TableOK(u)
    <3>1. /\ a.t.n_aggrs = Cardinality(Filled(a.t))
          /\ a.t.flush_start_gb <= a.t.last_gb /\ a.t.last_gb <= a.t.last_time /\ a.t.last_flushed_gb <= a.t.last_time
          /\ \A i \in Filled(a.t) : a.t.last_flushed_gb <= a.t.slot[i].gb /\ a.t.slot[i].gb <= a.t.last_gb
      BY <2>3 DEF TableOK
    <3> QED BY <2>4, <2>5, <2>6, <2>7, <3>1 DEF TableOK
  <2>9. a.t.last_time <= u.last_time
    BY <2>2, <2>4, LftaNats
  <2>10. InOrder(t, p) /\ \A k : Balance(t, p, k, 0)
    BY <2>2, <2>3, <2>4, <2>8, <2>9, ThenSilent
  <2>11. InOrder(u, b) /\ SameEpoch(u, b.t) /\ (\A k : Balance(u, b, k, 0)) /\ AllCurrent(b.t)
    BY <1>0, <2>1, <2>4, <2>8, FlushOldKeeps
  <2> HIDE DEF b
  <2>12. Filled(b.t) = {}
    <3> SUFFICES ASSUME NEW x \in Filled(b.t) PROVE FALSE
      OBVIOUS
    <3>1. x \in Filled(u) /\ b.t.slot[x] = u.slot[x] /\ b.t.generation = u.generation
      BY <2>11 DEF SameEpoch
    <3>2. b.t.slot[x].gen = b.t.generation
      BY <2>11 DEF AllCurrent
    <3> QED BY <2>7, <3>1, <3>2
  <2>13. p.t = u /\ p.out = a.out
    OBVIOUS
  <2> HIDE DEF p
  <2>14. InOrder(t, z) /\ \A k : Balance(t, z, k, 0)
    BY <2>10, <2>11, <2>13, SequelOfNone
  <2>15. z.t = b.t /\ z.out = a.out \o b.out
    BY <2>13
  <2> HIDE DEF z
  <2> DEFINE y == [t |-> z.t, out |-> Append(z.out, Eof)]
  <2>16. Finishes(t, y) /\ \A k : Balance(t, y, k, 0)
    BY <2>12, <2>14, <2>15, EndAfter
  <2> QED BY <1>1, <1>3, <2>15, <2>16
<1> QED
  BY <1>2, <1>3

-----------------------------------------------------------------------------
(* The merge. *)

(* MergeOK, but for the wait of an empty queue. *)
QueueOK(m) ==
  m.queue # <<>> =>
    /\ m.wait \in Channels /\ m.last[1 - m.wait] = m.queue[1].gb
    /\ \A i \in 1 .. Len(m.queue) :
        /\ IsRegular(m.queue[i]) /\ \A j \in 1 .. i : m.queue[j].gb <= m.queue[i].gb
        /\ m.last[m.wait] < m.queue[i].gb

Sorted(q) == \A j \in 1 .. Len(q) : \A i \in 1 .. j : q[i].gb <= q[j].gb

(* Not past what both channels have reached now, and not behind what they had reached. *)
Between(m, n, b) == b <= n.last[0] /\ b <= n.last[1] /\ (m.last[0] <= b \/ m.last[1] <= b)

(* What AcceptAhead and AcceptAwaited do with a tuple of channel c. *)
Taken(m, tup, c, op, o) ==
  /\ QueueOK(op)
  /\ \A b \in Reached(op, c) : b \in Reached(m, c) \/ b = tup.gb
  /\ \A b \in Reached(op, 1 - c) : b \in Reached(m, 1 - c)
  /\ \A d \in Channels : m.last[d] <= op.last[d]
  /\ Sorted(o) /\ \A i \in 1 .. Len(o) : IsRegular(o[i]) /\ Between(m, op, o[i].gb)
  /\ \A k : InSeq(m.queue, k) + Share(tup, k) = InSeq(op.queue, k) + InSeq(o, k)

(* A tuple of a stream: a temporal one counts nothing. *)
StreamTuples == {tup \in DataTuples : IsRegular(tup) \/ tup.cnt = 0}

LEMMA OtherChannel ==
  ASSUME NEW c \in Channels
  PROVE  1 - c \in Channels /\ 1 - (1 - c) = c /\ 1 - c # c /\ c \in Int /\ c # -1 /\ \A d \in Channels : d = c \/ d = 1 - c
  BY DEF Channels

LEMMA ThroughIs ==
  ASSUME NEW tup \in StreamTuples
  PROVE  /\ tup \in DataTuples /\ tup.gb \in Nat /\ (IsTemp(tup) <=> ~IsRegular(tup))
         /\ Through(tup) \in Seq(DataTuples)
         /\ \A i \in 1 .. Len(Through(tup)) : i = 1 /\ Through(tup)[i] = tup /\ IsRegular(tup) /\ Len(Through(tup)) = 1
         /\ \A k : InSeq(Through(tup), k) = Share(tup, k) /\ Share(tup, k) \in Nat
<1>1. tup \in DataTuples /\ tup.gb \in Nat /\ (IsTemp(tup) <=> ~IsRegular(tup))
  <2>1. tup \in DataTuples
    BY DEF StreamTuples
  <2>2. tup.gb \in Gbs /\ Gbs \subseteq Nat
    BY <2>1, Numbers, DataGb
  <2>3. tup.type \in {"REGULAR", "TEMPORAL"}
    BY <2>1 DEF DataTuples
  <2> QED BY <2>1, <2>2, <2>3 DEF IsTemp, IsRegular
<1>2. tup \in Counted
  BY <1>1, CountedAll
<1>3. CASE IsTemp(tup)
  <2>1. Through(tup) = <<>>
    BY <1>3 DEF Through
  <2>2. tup.cnt = 0
    BY <1>1, <1>3 DEF StreamTuples
  <2>3. \A k : Share(tup, k) = 0
    BY <2>2 DEF Share
  <2>4. \A k : InSeq(<<>>, k) = 0
    BY InSeqEmpty
  <2> QED BY <1>1, <2>1, <2>3, <2>4
<1>4. CASE ~IsTemp(tup)
  <2>1. Through(tup) = <<tup>> /\ IsRegular(tup)
    BY <1>1, <1>4 DEF Through
  <2>2. \A k : InSeq(<<tup>>, k) = Share(tup, k) /\ Share(tup, k) \in Nat
    BY <1>2, InSeqOne, ShareType
  <2>3. <<tup>> \in Seq(DataTuples) /\ Len(<<tup>>) = 1 /\ \A i \in 1 .. Len(<<tup>>) : i = 1 /\ <<tup>>[i] = tup
    BY <1>1
  <2> QED BY <1>1, <2>1, <2>2, <2>3
<1> QED
  BY <1>3, <1>4

LEMMA MergeNats ==
  ASSUME NEW m \in MergeOps
  PROVE  /\ m.queue \in Seq(DataTuples) /\ Len(m.queue) \in Nat
         /\ \A d \in Channels : m.last[d] \in Nat /\ m.last[d] \in Gbs
         /\ \A i \in 1 .. Len(m.queue) : m.queue[i] \in DataTuples /\ m.queue[i].gb \in Nat /\ m.queue[i].gb \in Gbs
<1>1. Gbs \subseteq Nat
  BY Numbers
<1>2. m.queue \in Seq(DataTuples) /\ m.last \in [Channels -> Gbs]
  BY MergeFields
<1>3. \A i \in 1 .. Len(m.queue) : m.queue[i] \in DataTuples /\ m.queue[i].gb \in Gbs
  BY <1>2, DataGb
<1>4. \A x \in Gbs : x \in Nat
  BY <1>1
<1>5. (\A d \in Channels : m.last[d] \in Gbs) /\ Len(m.queue) \in Nat
  BY <1>2
<1> QED
  BY <1>2, <1>3, <1>4, <1>5

LEMMA SortedConcat ==
  ASSUME NEW S, NEW p \in Seq(S), NEW q \in Seq(S), Sorted(p), Sorted(q),
         \A i \in 1 .. Len(p), j \in 1 .. Len(q) : p[i].gb <= q[j].gb
  PROVE  Sorted(p \o q)
<1> DEFINE r == p \o q
<1>1. /\ Len(r) = Len(p) + Len(q) /\ Len(p) \in Nat /\ Len(q) \in Nat
      /\ \A i \in 1 .. Len(p) : r[i] = p[i]
      /\ \A i \in 1 .. Len(r) : i > Len(p) => i - Len(p) \in 1 .. Len(q) /\ r[i] = q[i - Len(p)]
  OBVIOUS
<1> HIDE DEF r
<1> SUFFICES ASSUME NEW j \in 1 .. Len(r), NEW i \in 1 .. j PROVE r[i].gb <= r[j].gb
  BY DEF Sorted, r
<1>2. CASE j <= Len(p)
  <2>1. j \in 1 .. Len(p) /\ i \in 1 .. Len(p) /\ r[i] = p[i] /\ r[j] = p[j]
    BY <1>1, <1>2
  <2> QED BY <2>1 DEF Sorted
<1>3. CASE j > Len(p)
  <2> DEFINE h == j - Len(p)
  <2>1. h \in 1 .. Len(q) /\ r[j] = q[h]
    BY <1>1, <1>3
  <2>2. CASE i <= Len(p)
    <3>1. i \in 1 .. Len(p) /\ r[i] = p[i]
      BY <1>1, <2>2
    <3> HIDE DEF h
    <3> QED BY <2>1, <3>1
  <2>3. CASE i > Len(p)
    <3> DEFINE g == i - Len(p)
    <3>1. g \in 1 .. h /\ r[i] = q[g]
      BY <1>1, <1>3, <2>3
    <3> HIDE DEF g, h
    <3> QED BY <2>1, <3>1 DEF Sorted
  <2> QED BY <1>1, <2>2, <2>3
<1> QED
  BY <1>1, <1>2, <1>3

(* The queue is what has gone and the rest; seen is what the other channel has reached then. *)
Splits(m, tup, c, gone, rest, seen) ==
  /\ gone \in Seq(DataTuples) /\ rest \in Seq(DataTuples) /\ m.queue = gone \o rest
  /\ \A i \in 1 .. Len(gone) : gone[i].gb <= tup.gb
  /\ \A i \in 1 .. Len(rest) : tup.gb < rest[i].gb
  /\ seen = IF gone = <<>> THEN m.last[1 - c] ELSE IF rest # <<>> THEN rest[1].gb ELSE gone[Len(gone)].gb

LEMMA SplitsIs ==
  ASSUME NEW m \in MergeOps, NEW tup \in DataTuples, NEW c \in Channels, QueueOK(m), m.queue # <<>> => m.wait = c,
         NEW gone, NEW rest, NEW seen, Splits(m, tup, c, gone, rest, seen)
  PROVE  /\ seen \in Nat /\ m.last[1 - c] <= seen /\ seen \in Reached(m, 1 - c)
         /\ rest # <<>> => seen = rest[1].gb /\ tup.gb < seen
         /\ Sorted(gone) /\ \A i \in 1 .. Len(gone) : /\ IsRegular(gone[i]) /\ gone[i].gb \in Nat
                                                      /\ m.last[1 - c] <= gone[i].gb /\ gone[i].gb <= seen
         /\ \A i \in 1 .. Len(rest) : /\ IsRegular(rest[i]) /\ rest[i].gb \in Nat /\ rest[i].gb \in Reached(m, 1 - c)
                                      /\ \A j \in 1 .. i : rest[j].gb <= rest[i].gb
<1> DEFINE q == m.queue
           l == Len(gone)
           h == Len(rest)
<1>1. /\ gone \in Seq(DataTuples) /\ rest \in Seq(DataTuples) /\ q = gone \o rest
      /\ \A i \in 1 .. l : gone[i].gb <= tup.gb
      /\ \A i \in 1 .. h : tup.gb < rest[i].gb
      /\ seen = IF gone = <<>> THEN m.last[1 - c] ELSE IF rest # <<>> THEN rest[1].gb ELSE gone[l].gb
  BY DEF Splits
<1>2. /\ l \in Nat /\ h \in Nat /\ Len(q) = l + h
      /\ \A i \in 1 .. l : q[i] = gone[i] /\ i \in 1 .. Len(q)
      /\ \A i \in 1 .. h : q[l + i] = rest[i] /\ l + i \in 1 .. Len(q)
      /\ (gone = <<>> <=> l = 0) /\ (rest = <<>> <=> h = 0) /\ (q = <<>> <=> Len(q) = 0)
  BY <1>1
<1>3. /\ \A d \in Channels : m.last[d] \in Nat
      /\ \A i \in 1 .. Len(q) : q[i].gb \in Nat
      /\ tup.gb \in Nat /\ 1 - c \in Channels /\ 1 - (1 - c) = c
  BY MergeNats, DataGb, Numbers, OtherChannel
<1>4. q # <<>> => /\ m.wait = c /\ m.last[1 - c] = q[1].gb
                  /\ \A i \in 1 .. Len(q) : IsRegular(q[i]) /\ \A j \in 1 .. i : q[j].gb <= q[i].gb
  BY DEF QueueOK
<1>5. m.last[1 - c] \in Reached(m, 1 - c) /\ \A i \in 1 .. Len(q) : q[i].gb \in Reached(m, 1 - c)
  <2>1. \A i \in 1 .. Len(q) : m.wait = 1 - (1 - c)
    BY <1>2, <1>3, <1>4
  <2> QED BY <2>1 DEF Reached
<1> HIDE DEF q, l, h
<1>6. \A i \in 1 .. l : IsRegular(gone[i]) /\ gone[i].gb \in Nat /\ m.last[1 - c] <= gone[i].gb
  <2> SUFFICES ASSUME NEW i \in 1 .. l PROVE IsRegular(gone[i]) /\ gone[i].gb \in Nat /\ m.last[1 - c] <= gone[i].gb
    OBVIOUS
  <2>1. q[i] = gone[i] /\ i \in 1 .. Len(q) /\ 1 \in 1 .. i /\ Len(q) # 0
    BY <1>2
  <2> QED BY <1>2, <1>3, <1>4, <2>1
<1>7. \A i \in 1 .. h : IsRegular(rest[i]) /\ rest[i].gb \in Nat /\ rest[i].gb \in Reached(m, 1 - c)
  <2> SUFFICES ASSUME NEW i \in 1 .. h PROVE IsRegular(rest[i]) /\ rest[i].gb \in Nat /\ rest[i].gb \in Reached(m, 1 - c)
    OBVIOUS
  <2>1. q[l + i] = rest[i] /\ l + i \in 1 .. Len(q) /\ Len(q) # 0
    BY <1>2
  <2> QED BY <1>2, <1>3, <1>4, <1>5, <2>1
<1>8. \A i \in 1 .. h : \A j \in 1 .. i : rest[j].gb <= rest[i].gb
  <2> SUFFICES ASSUME NEW i \in 1 .. h, NEW j \in 1 .. i PROVE rest[j].gb <= rest[i].gb
    OBVIOUS
  <2>1. j \in 1 .. h /\ l + j \in 1 .. l + i /\ l + i \in 1 .. Len(q) /\ Len(q) # 0
    BY <1>2
  <2>2. q[l + j].gb <= q[l + i].gb
    BY <1>2, <1>4, <2>1
  <2> QED BY <1>2, <2>1, <2>2
<1>9. Sorted(gone)
  <2> SUFFICES ASSUME NEW j \in 1 .. l, NEW i \in 1 .. j PROVE gone[i].gb <= gone[j].gb
    BY DEF Sorted, l
  <2>1. i \in 1 .. l /\ j \in 1 .. Len(q) /\ Len(q) # 0
    BY <1>2
  <2>2. q[i].gb <= q[j].gb
    BY <1>2, <1>4, <2>1
  <2> QED BY <1>2, <2>1, <2>2
<1>10. rest # <<>> => seen = rest[1].gb /\ tup.gb < seen
  <2> SUFFICES ASSUME rest # <<>> PROVE seen = rest[1].gb /\ tup.gb < seen
    OBVIOUS
  <2>1. h # 0 /\ 1 \in 1 .. h /\ Len(q) # 0
    BY <1>2
  <2>2. gone = <<>> => q[1] = rest[1]
    <3> SUFFICES ASSUME gone = <<>> PROVE q[1] = rest[1]
      OBVIOUS
    <3>1. l + 1 = 1
      BY <1>2
    <3>2. q[l + 1] = rest[1]
      BY <1>2, <2>1
    <3> QED BY <3>1, <3>2
  <2>3. seen = rest[1].gb
    BY <1>1, <1>2, <1>4, <2>1, <2>2
  <2> QED BY <1>1, <2>1, <2>3
<1>11. seen \in Nat /\ m.last[1 - c] <= seen /\ seen \in Reached(m, 1 - c)
  <2>1. CASE gone = <<>>
    BY <1>1, <1>3, <1>5, <2>1
  <2>2. CASE gone # <<>> /\ rest # <<>>
    <3>1. 1 \in 1 .. h /\ l + 1 \in 1 .. Len(q) /\ 1 \in 1 .. l + 1 /\ Len(q) # 0
      BY <1>2, <2>2
    <3>2. q[l + 1] = rest[1]
      BY <1>2, <3>1
    <3>3. q[1].gb <= q[l + 1].gb
      BY <1>2, <1>4, <3>1
    <3> QED BY <1>2, <1>3, <1>4, <1>5, <1>10, <2>2, <3>1, <3>2, <3>3
  <2>3. CASE gone # <<>> /\ rest = <<>>
    <3>1. l \in 1 .. l /\ l \in 1 .. Len(q)
      BY <1>2, <2>3
    <3>2. seen = gone[l].gb /\ q[l] = gone[l]
      BY <1>1, <1>2, <2>3, <3>1
    <3> QED BY <1>5, <1>6, <3>1, <3>2
  <2> QED BY <2>1, <2>2, <2>3
<1>12. \A i \in 1 .. l : gone[i].gb <= seen
  <2> SUFFICES ASSUME NEW i \in 1 .. l PROVE gone[i].gb <= seen
    OBVIOUS
  <2>1. CASE rest # <<>>
    <3>1. gone[i].gb <= tup.gb /\ tup.gb < seen
      BY <1>1, <1>10, <2>1
    <3> QED BY <1>3, <1>6, <1>11, <3>1
  <2>2. CASE rest = <<>>
    <3>1. gone # <<>> /\ l \in 1 .. l /\ i \in 1 .. l
      BY <1>2
    <3>2. seen = gone[l].gb
      BY <1>1, <2>2, <3>1
    <3>3. gone[i].gb <= gone[l].gb
      BY <1>9, <3>1 DEF Sorted, l
    <3> QED BY <3>2, <3>3
  <2> QED BY <2>1, <2>2
<1> QED
  BY <1>6, <1>7, <1>8, <1>9, <1>10, <1>11, <1>12 DEF l, h

(* The tuple moves its channel on, nobody or its channel being waited for. *)
LEMMA AdvanceKeeps ==
  ASSUME NEW m \in MergeOps, NEW tup \in StreamTuples, NEW c \in Channels, QueueOK(m), m.queue # <<>> => m.wait = c,
         m.last[c] <= tup.gb,
         NEW gone, NEW rest, NEW seen, Splits(m, tup, c, gone, rest, seen),
         NEW op \in MergeOps, NEW o, op.last[c] = tup.gb, op.last[1 - c] = seen,
         IF tup.gb <= seen
         THEN op.queue = rest /\ (rest # <<>> => op.wait = c) /\ o = gone \o Through(tup)
         ELSE op.queue = rest \o Through(tup) /\ op.wait = 1 - c /\ o = gone
  PROVE  Taken(m, tup, c, op, o) /\ o \in Seq(DataTuples)
<1> DEFINE x == Through(tup)
<1>1. /\ tup \in DataTuples /\ tup.gb \in Nat /\ x \in Seq(DataTuples)
      /\ \A i \in 1 .. Len(x) : i = 1 /\ x[i] = tup /\ IsRegular(tup) /\ Len(x) = 1
      /\ \A k : InSeq(x, k) = Share(tup, k) /\ Share(tup, k) \in Nat
  BY ThroughIs
<1>2. /\ seen \in Nat /\ m.last[1 - c] <= seen /\ seen \in Reached(m, 1 - c)
      /\ rest # <<>> => seen = rest[1].gb /\ tup.gb < seen
      /\ Sorted(gone) /\ \A i \in 1 .. Len(gone) : /\ IsRegular(gone[i]) /\ gone[i].gb \in Nat
                                                   /\ m.last[1 - c] <= gone[i].gb /\ gone[i].gb <= seen
      /\ \A i \in 1 .. Len(rest) : /\ IsRegular(rest[i]) /\ rest[i].gb \in Nat /\ rest[i].gb \in Reached(m, 1 - c)
                                   /\ \A j \in 1 .. i : rest[j].gb <= rest[i].gb
  BY <1>1, SplitsIs
<1>3. /\ gone \in Seq(DataTuples) /\ rest \in Seq(DataTuples) /\ m.queue = gone \o rest
      /\ \A i \in 1 .. Len(gone) : gone[i].gb <= tup.gb
      /\ \A i \in 1 .. Len(rest) : tup.gb < rest[i].gb
  BY DEF Splits
<1>4. 1 - c \in Channels /\ 1 - (1 - c) = c /\ 1 - c # c /\ \A d \in Channels : d = c \/ d = 1 - c
  BY OtherChannel
<1>5. \A d \in Channels : m.last[d] \in Nat
  BY MergeNats
<1> HIDE DEF x
<1>6. \A d \in Channels : m.last[d] <= op.last[d]
  BY <1>2, <1>4
<1>7. \A b \in Nat : b <= tup.gb /\ b <= seen /\ (m.last[1 - c] <= b \/ m.last[c] <= b) => Between(m, op, b)
  <2>1. (c = 0 /\ 1 - c = 1) \/ (c = 1 /\ 1 - c = 0)
    BY DEF Channels
  <2> QED BY <2>1 DEF Between
<1>8. /\ \A i \in 1 .. Len(gone) : IsRegular(gone[i]) /\ Between(m, op, gone[i].gb)
      /\ tup.gb <= seen => \A i \in 1 .. Len(x) : IsRegular(x[i]) /\ Between(m, op, x[i].gb)
  <2>1. tup.gb <= tup.gb
    BY <1>1
  <2> HIDE DEF Between
  <2> QED BY <1>1, <1>2, <1>3, <1>7, <2>1
<1>9. CASE tup.gb <= seen
  <2>1. op.queue = rest /\ (rest # <<>> => op.wait = c) /\ o = gone \o x
    BY <1>9 DEF x
  <2>2. o \in Seq(DataTuples)
    BY <1>1, <1>3, <2>1
  <2>3. QueueOK(op)
    <3> SUFFICES ASSUME rest # <<>>
                 PROVE  /\ c \in Channels /\ op.last[1 - c] = rest[1].gb
                        /\ \A i \in 1 .. Len(rest) :
                            /\ IsRegular(rest[i]) /\ \A j \in 1 .. i : rest[j].gb <= rest[i].gb
                            /\ op.last[c] < rest[i].gb
      BY <2>1 DEF QueueOK
    <3> QED BY <1>2, <1>3
  <2>4. \A b \in Reached(op, c) : b = tup.gb
    <3>1. \A i \in 1 .. Len(rest) : op.wait # 1 - c
      BY <1>3, <1>4, <2>1
    <3> QED BY <2>1, <3>1 DEF Reached
  <2>5. \A b \in Reached(op, 1 - c) : b \in Reached(m, 1 - c)
    <3>1. \A b \in Reached(op, 1 - c) : b = seen \/ \E i \in 1 .. Len(rest) : b = rest[i].gb
      BY <2>1 DEF Reached
    <3> QED BY <1>2, <3>1
  <2>6. Sorted(o)
    <3>1. Sorted(x)
      BY <1>1 DEF Sorted
    <3>2. \A i \in 1 .. Len(gone), j \in 1 .. Len(x) : gone[i].gb <= x[j].gb
      BY <1>1, <1>3
    <3> QED BY <1>1, <1>2, <1>3, <2>1, <3>1, <3>2, SortedConcat
  <2>7. \A i \in 1 .. Len(o) : IsRegular(o[i]) /\ Between(m, op, o[i].gb)
    <3>1. \A i \in 1 .. Len(o) : (i \in 1 .. Len(gone) /\ o[i] = gone[i]) \/ \E j \in 1 .. Len(x) : o[i] = x[j]
      BY <1>1, <1>3, <2>1, ConcatAt
    <3> HIDE DEF Between, IsRegular
    <3> QED BY <1>8, <1>9, <3>1
  <2>8. \A k : InSeq(m.queue, k) + Share(tup, k) = InSeq(op.queue, k) + InSeq(o, k)
    <3> SUFFICES ASSUME NEW k PROVE InSeq(m.queue, k) + Share(tup, k) = InSeq(op.queue, k) + InSeq(o, k)
      OBVIOUS
    <3>1. gone \in Seq(Counted) /\ rest \in Seq(Counted) /\ x \in Seq(Counted)
      BY <1>1, <1>3, CountedAll
    <3>2. InSeq(m.queue, k) = InSeq(gone, k) + InSeq(rest, k) /\ InSeq(o, k) = InSeq(gone, k) + InSeq(x, k)
      BY <1>3, <2>1, <3>1, InSeqConcat
    <3>3. InSeq(gone, k) \in Nat /\ InSeq(rest, k) \in Nat /\ InSeq(x, k) = Share(tup, k) /\ Share(tup, k) \in Nat
      BY <1>1, <3>1, InSeqTotal
    <3> QED BY <2>1, <3>2, <3>3
  <2> QED BY <1>6, <2>2, <2>3, <2>4, <2>5, <2>6, <2>7, <2>8 DEF Taken
<1>10. CASE ~(tup.gb <= seen)
  <2>0. rest = <<>> /\ seen < tup.gb
    BY <1>1, <1>2, <1>10
  <2>1. op.queue = x /\ op.wait = 1 - c /\ o = gone
    <3>1. rest \o x = x
      BY <1>1, <2>0
    <3> QED BY <1>10, <3>1 DEF x
  <2>2. o \in Seq(DataTuples)
    BY <1>3, <2>1
  <2>3. QueueOK(op)
    <3> SUFFICES ASSUME x # <<>>
                 PROVE  /\ 1 - c \in Channels /\ op.last[1 - (1 - c)] = x[1].gb
                        /\ \A i \in 1 .. Len(x) :
                            /\ IsRegular(x[i]) /\ \A j \in 1 .. i : x[j].gb <= x[i].gb
                            /\ op.last[1 - c] < x[i].gb
      BY <2>1 DEF QueueOK
    <3>1. Len(x) # 0 /\ Len(x) \in Nat
      BY <1>1
    <3>2. 1 \in 1 .. Len(x)
      BY <3>1
    <3>3. Len(x) = 1 /\ x[1] = tup /\ IsRegular(tup)
      BY <1>1, <3>2
    <3>4. \A i \in 1 .. Len(x) : i = 1 /\ \A j \in 1 .. i : j = 1
      BY <3>3
    <3>5. tup.gb <= tup.gb
      BY <1>1
    <3> QED BY <1>4, <2>0, <3>3, <3>4, <3>5
  <2>4. \A b \in Reached(op, c) : b = tup.gb
    <3>1. \A b \in Reached(op, c) : b = op.last[c] \/ \E i \in 1 .. Len(x) : b = x[i].gb
      BY <2>1 DEF Reached
    <3> QED BY <1>1, <3>1
  <2>5. \A b \in Reached(op, 1 - c) : b \in Reached(m, 1 - c)
    <3>1. op.wait # 1 - (1 - c)
      BY <1>4, <2>1
    <3>2. \A b \in Reached(op, 1 - c) : b = seen
      BY <3>1 DEF Reached
    <3> QED BY <1>2, <3>2
  <2>8. \A k : InSeq(m.queue, k) + Share(tup, k) = InSeq(op.queue, k) + InSeq(o, k)
    <3> SUFFICES ASSUME NEW k PROVE InSeq(m.queue, k) + Share(tup, k) = InSeq(op.queue, k) + InSeq(o, k)
      OBVIOUS
    <3>1. gone \in Seq(Counted) /\ m.queue = gone
      BY <1>3, <2>0, CountedAll
    <3>2. InSeq(gone, k) \in Nat /\ InSeq(x, k) = Share(tup, k) /\ Share(tup, k) \in Nat
      BY <1>1, <3>1, InSeqTotal
    <3> QED BY <2>1, <3>1, <3>2
  <2> QED BY <1>2, <1>6, <1>8, <2>1, <2>2, <2>3, <2>4, <2>5, <2>8 DEF Taken
<1> QED
  BY <1>9, <1>10

LEMMA MergeSet ==
  ASSUME NEW m \in MergeOps, NEW c \in Channels, NEW v \in Gbs
  PROVE  LET n == [m EXCEPT !.last[c] = v]
         IN  n \in MergeOps /\ n.queue = m.queue /\ n.wait = m.wait /\ n.last[c] = v /\ n.last[1 - c] = m.last[1 - c]
<1> DEFINE l == [m.last EXCEPT ![c] = v]
           n == [m EXCEPT !.last = l]
<1>1. 1 - c \in Channels /\ 1 - c # c /\ m.last \in [Channels -> Gbs]
  BY OtherChannel, MergeFields
<1>2. l \in [Channels -> Gbs] /\ l[c] = v /\ l[1 - c] = m.last[1 - c]
  BY <1>1
<1>3. [m EXCEPT !.last[c] = v] = n
  OBVIOUS
<1> HIDE DEF l
<1>4. n \in MergeOps /\ n.queue = m.queue /\ n.wait = m.wait /\ n.last = l
  BY <1>2 DEF MergeOps
<1> HIDE DEF n
<1> QED
  BY <1>2, <1>3, <1>4

LEMMA EnqueueIs ==
  ASSUME NEW m \in MergeOps, NEW tup \in DataTuples, NEW w \in Channels
  PROVE  LET n == [Enqueue(m, tup) EXCEPT !.wait = w]
         IN  n \in MergeOps /\ n.queue = m.queue \o Through(tup) /\ n.wait = w /\ n.last = m.last
<1> DEFINE e == Enqueue(m, tup)
<1>1. e \in MergeOps /\ m.queue \in Seq(DataTuples)
  BY EnqueueType, MergeFields
<1>2. e.queue = m.queue \o Through(tup) /\ e.last = m.last
  <2>1. CASE IsTemp(tup)
    BY <1>1, <2>1 DEF Enqueue, Through
  <2>2. CASE ~IsTemp(tup)
    <3> DEFINE q == Append(m.queue, tup)
    <3>1. q = m.queue \o <<tup>>
      BY <1>1
    <3>2. e = [m EXCEPT !.queue = q]
      BY <2>2 DEF Enqueue
    <3> HIDE DEF q, e
    <3>3. e.queue = q /\ e.last = m.last
      BY <3>2 DEF MergeOps
    <3> QED BY <2>2, <3>1, <3>3 DEF Through
  <2> QED BY <2>1, <2>2
<1> HIDE DEF e
<1>3. [e EXCEPT !.wait = w] \in MergeOps /\ [e EXCEPT !.wait = w].queue = e.queue
      /\ [e EXCEPT !.wait = w].wait = w /\ [e EXCEPT !.wait = w].last = e.last
  BY <1>1 DEF MergeOps
<1> QED
  BY <1>2, <1>3 DEF e

LEMMA MergeIsQueueOK ==
  ASSUME NEW m \in MergeOps, MergeOK(m)
  PROVE  QueueOK(m)
<1> SUFFICES ASSUME m.queue # <<>>
             PROVE  /\ m.wait \in Channels /\ m.last[1 - m.wait] = m.queue[1].gb
                    /\ \A i \in 1 .. Len(m.queue) :
                        /\ IsRegular(m.queue[i]) /\ \A j \in 1 .. i : m.queue[j].gb <= m.queue[i].gb
                        /\ m.last[m.wait] < m.queue[i].gb
  BY DEF QueueOK
<1>1. m.wait \in Channels /\ 1 \in 1 .. Len(m.queue)
  <2>1. m.wait \in Channels \cup {-1} /\ m.queue \in Seq(DataTuples)
    BY MergeFields
  <2> QED BY <2>1 DEF MergeOK
<1> QED
  BY <1>1 DEF MergeOK

LEMMA AcceptAheadKeeps ==
  ASSUME NEW m \in MergeOps, NEW tup \in StreamTuples, NEW c \in Channels, MergeOK(m), m.wait # c,
         m.last[c] <= tup.gb, IsRegular(tup) => \A b \in Reached(m, c) : b <= tup.gb
  PROVE  Taken(m, tup, c, AcceptAhead(m, tup, c).op, AcceptAhead(m, tup, c).out)
<1> DEFINE v == IF m.wait < 0 THEN tup.gb ELSE m.last[c]
           n == [m EXCEPT !.last[c] = v]
           u == [n EXCEPT !.wait = 1 - c]
           w == [Enqueue(n, tup) EXCEPT !.wait = 1 - c]
           x == Through(tup)
           r == AcceptAhead(m, tup, c)
<1>0. 1 - c \in Channels /\ 1 - (1 - c) = c /\ 1 - c # c /\ c # -1
  BY OtherChannel
<1>1. /\ tup \in DataTuples /\ tup.gb \in Nat /\ tup.gb \in Gbs /\ x \in Seq(DataTuples)
      /\ \A i \in 1 .. Len(x) : i = 1 /\ x[i] = tup /\ IsRegular(tup) /\ Len(x) = 1
      /\ \A k : InSeq(x, k) = Share(tup, k) /\ Share(tup, k) \in Nat
      /\ (IsTemp(tup) <=> ~IsRegular(tup))
  BY ThroughIs, DataGb
<1>2. r = IF tup.gb <= n.last[1 - c] THEN [op |-> u, out |-> x] ELSE [op |-> w, out |-> <<>>]
  BY DEF AcceptAhead
<1>3. /\ m.queue \in Seq(DataTuples) /\ Len(m.queue) \in Nat
      /\ \A d \in Channels : m.last[d] \in Nat /\ m.last[d] \in Gbs
      /\ \A i \in 1 .. Len(m.queue) : m.queue[i].gb \in Nat
      /\ QueueOK(m)
  BY MergeNats, MergeIsQueueOK
<1>4. v \in Gbs
  BY <1>1, <1>3
<1> HIDE DEF v
<1>5. n \in MergeOps /\ n.queue = m.queue /\ n.wait = m.wait /\ n.last[c] = v /\ n.last[1 - c] = m.last[1 - c]
  BY <1>4, MergeSet
<1> HIDE DEF n
<1>6. u \in MergeOps /\ u.queue = n.queue /\ u.wait = 1 - c /\ u.last = n.last
  BY <1>0, <1>5 DEF MergeOps
<1>7. w \in MergeOps /\ w.queue = n.queue \o x /\ w.wait = 1 - c /\ w.last = n.last
  BY <1>0, <1>1, <1>5, EnqueueIs
<1> HIDE DEF u, w, x, r
<1>8. CASE m.wait = -1
  <2>1. m.queue = <<>> /\ v = tup.gb
    BY <1>8 DEF MergeOK, v
  <2>2. Splits(m, tup, c, <<>>, <<>>, m.last[1 - c])
    BY <2>1 DEF Splits
  <2>3. <<>> \o x = x
    BY <1>1
  <2>4. CASE tup.gb <= m.last[1 - c]
    <3>1. r.op = u /\ r.out = <<>> \o Through(tup)
      BY <1>2, <1>5, <2>3, <2>4 DEF x
    <3>2. u.queue = <<>> /\ u.last[c] = tup.gb /\ u.last[1 - c] = m.last[1 - c]
      BY <1>5, <1>6, <2>1
    <3> QED BY <1>3, <1>6, <2>1, <2>2, <2>4, <3>1, <3>2, AdvanceKeeps DEF r
  <2>5. CASE ~(tup.gb <= m.last[1 - c])
    <3>1. r.op = w /\ r.out = <<>>
      BY <1>2, <1>5, <2>5
    <3>2. w.queue = <<>> \o Through(tup) /\ w.last[c] = tup.gb /\ w.last[1 - c] = m.last[1 - c]
      BY <1>5, <1>7, <2>1 DEF x
    <3> QED BY <1>3, <1>7, <2>1, <2>2, <2>5, <3>1, <3>2, AdvanceKeeps DEF r
  <2> QED BY <2>4, <2>5
<1>9. CASE m.wait # -1
  <2>1. m.wait = 1 - c /\ m.queue # <<>> /\ Len(m.queue) # 0
    <3>1. m.wait \in Channels
      BY <1>9, MergeFields
    <3> QED BY <1>3, <1>9, <3>1, OtherChannel DEF MergeOK
  <2>2. v = m.last[c]
    BY <2>1 DEF v, Channels
  <2>3. /\ m.last[c] = m.queue[1].gb
        /\ \A i \in 1 .. Len(m.queue) :
            /\ IsRegular(m.queue[i]) /\ \A j \in 1 .. i : m.queue[j].gb <= m.queue[i].gb
            /\ m.last[1 - c] < m.queue[i].gb
    BY <1>0, <1>3, <2>1 DEF QueueOK
  <2>4. \A d \in Channels : n.last[d] = m.last[d]
    BY <1>5, <2>2, OtherChannel
  <2>5. m.last[c] \in Reached(m, c) /\ \A i \in 1 .. Len(m.queue) : m.queue[i].gb \in Reached(m, c)
    BY <2>1 DEF Reached
  <2>6. \A d \in Channels : m.last[d] <= n.last[d]
    BY <1>3, <2>4
  <2> DEFINE op == r.op
             q == m.queue
  <2>7. r.out = <<>> /\ op.queue = q \o x /\ op.wait = 1 - c /\ op.last = n.last
    <3>1. CASE tup.gb <= m.last[1 - c]
      <4>1. ~IsRegular(tup)
        <5>1. 1 \in 1 .. Len(q)
          BY <1>3, <2>1
        <5>2. m.last[1 - c] < q[1].gb /\ q[1].gb \in Reached(m, c) /\ q[1].gb \in Nat
          BY <1>3, <2>3, <2>5, <5>1
        <5>3. IsRegular(tup) => q[1].gb <= tup.gb
          BY <5>2
        <5> QED BY <1>0, <1>1, <1>3, <3>1, <5>2, <5>3
      <4>2. x = <<>>
        BY <1>1, <4>1 DEF Through, x
      <4>3. q \o x = q
        BY <1>3, <4>2
      <4>4. r.op = u /\ r.out = <<>>
        BY <1>2, <1>5, <3>1, <4>2
      <4> QED BY <1>5, <1>6, <4>3, <4>4
    <3>2. CASE ~(tup.gb <= m.last[1 - c])
      BY <1>2, <1>5, <1>7, <3>2
    <3> QED BY <3>1, <3>2
  <2> HIDE DEF op
  <2> DEFINE h == q \o x
  <2>8. /\ \A i \in 1 .. Len(q) : h[i] = q[i] /\ i \in 1 .. Len(h)
        /\ \A i \in 1 .. Len(h) : \/ i \in 1 .. Len(q) /\ h[i] = q[i]
                                  \/ Len(x) = 1 /\ i = Len(q) + 1 /\ h[i] = x[1]
        /\ h \in Seq(DataTuples) /\ Len(h) \in Nat /\ Len(q) \in Nat /\ Len(q) # 0
    <3>1. Len(x) \in {0, 1}
      <4>1. Len(x) \in Nat /\ (Len(x) # 0 => 1 \in 1 .. Len(x))
        BY <1>1
      <4> QED BY <1>1, <4>1
    <3> QED BY <1>1, <1>3, <2>1, <3>1
  <2>9. \A i \in 1 .. Len(h) : (i \in 1 .. Len(q) /\ h[i] = q[i]) \/ (h[i] = tup /\ IsRegular(tup) /\ i = Len(q) + 1)
    <3>1. Len(x) = 1 => 1 \in 1 .. Len(x)
      OBVIOUS
    <3>2. Len(x) = 1 => x[1] = tup /\ IsRegular(tup)
      BY <1>1, <3>1
    <3> QED BY <2>8, <3>2
  <2> HIDE DEF h
  <2>10. IsRegular(tup) => \A i \in 1 .. Len(q) : q[i].gb <= tup.gb
    BY <2>5
  <2>11. QueueOK(op)
    <3>1. op.last[1 - op.wait] = h[1].gb
      <4>1. 1 \in 1 .. Len(q)
        BY <2>8
      <4>2. h[1] = q[1]
        BY <2>8, <4>1
      <4> QED BY <1>0, <2>3, <2>4, <2>7, <4>2
    <3>2. ASSUME NEW i \in 1 .. Len(h)
          PROVE  /\ IsRegular(h[i]) /\ op.last[op.wait] < h[i].gb
                 /\ \A j \in 1 .. i : h[j].gb <= h[i].gb
      <4>0. op.last[op.wait] = m.last[1 - c]
        BY <1>0, <2>4, <2>7
      <4>1. CASE i \in 1 .. Len(q) /\ h[i] = q[i]
        <5>1. \A j \in 1 .. i : j \in 1 .. Len(q) /\ h[j] = q[j]
          BY <2>8, <4>1
        <5> QED BY <2>3, <4>0, <4>1, <5>1
      <4>2. CASE h[i] = tup /\ IsRegular(tup) /\ i = Len(q) + 1
        <5>1. \A j \in 1 .. i : (j \in 1 .. Len(q) /\ h[j] = q[j]) \/ h[j] = tup
          <6>1. \A j \in 1 .. i : j \in 1 .. Len(h)
            BY <2>8
          <6> QED BY <2>9, <6>1
        <5>2. tup.gb <= tup.gb
          BY <1>1
        <5>3. m.last[1 - c] < tup.gb
          <6>1. 1 \in 1 .. Len(q)
            BY <2>8
          <6>2. m.last[1 - c] < q[1].gb /\ q[1].gb <= tup.gb
            BY <2>3, <2>10, <4>2, <6>1
          <6> QED BY <1>0, <1>1, <1>3, <6>1, <6>2
        <5> QED BY <2>10, <4>0, <4>2, <5>1, <5>2, <5>3
      <4> QED BY <2>9, <4>1, <4>2
    <3> QED BY <1>0, <2>7, <3>1, <3>2 DEF QueueOK, h
  <2>12. \A b \in Reached(op, c) : b \in Reached(m, c) \/ b = tup.gb
    <3>1. \A b \in Reached(op, c) : b = m.last[c] \/ \E i \in 1 .. Len(h) : b = h[i].gb
      BY <2>4, <2>7 DEF Reached, h
    <3> QED BY <2>5, <2>9, <3>1
  <2>13. \A b \in Reached(op, 1 - c) : b \in Reached(m, 1 - c)
    <3>1. op.wait # 1 - (1 - c)
      BY <1>0, <2>7
    <3>2. \A b \in Reached(op, 1 - c) : b = m.last[1 - c]
      BY <1>0, <2>4, <2>7, <3>1 DEF Reached
    <3> QED BY <3>2 DEF Reached
  <2>14. Sorted(r.out) /\ \A i \in 1 .. Len(r.out) : IsRegular(r.out[i]) /\ Between(m, op, r.out[i].gb)
    BY <2>7 DEF Sorted
  <2>15. \A k : InSeq(m.queue, k) + Share(tup, k) = InSeq(op.queue, k) + InSeq(r.out, k)
    <3> SUFFICES ASSUME NEW k PROVE InSeq(q, k) + Share(tup, k) = InSeq(op.queue, k) + InSeq(r.out, k)
      OBVIOUS
    <3>1. q \in Seq(Counted) /\ x \in Seq(Counted)
      BY <1>1, <1>3, CountedAll
    <3>2. InSeq(q \o x, k) = InSeq(q, k) + InSeq(x, k) /\ InSeq(q, k) \in Nat
      BY <3>1, InSeqConcat, InSeqTotal
    <3>3. InSeq(x, k) = Share(tup, k) /\ Share(tup, k) \in Nat /\ InSeq(<<>>, k) = 0
      BY <1>1, InSeqEmpty
    <3> QED BY <2>7, <3>2, <3>3
  <2> QED BY <2>6, <2>7, <2>11, <2>12, <2>13, <2>14, <2>15 DEF Taken, r, op
<1> QED
  BY <1>8, <1>9

(* The queue is cut where the other channel has got to. *)
PurgedAt(m, c, n) ==
  LET seen == IF n = 0 THEN m.last[c]
              ELSE IF n < Len(m.queue) THEN m.queue[n + 1].gb ELSE m.queue[n].gb
  IN  /\ n \in 0 .. Len(m.queue)
      /\ \A i \in 1 .. n : m.queue[i].gb <= m.last[1 - c]
      /\ n < Len(m.queue) => ~(m.queue[n + 1].gb <= m.last[1 - c])
      /\ Purge(m, c) = [op  |-> [m EXCEPT !.queue = SubSeq(m.queue, n + 1, Len(m.queue)), !.last[c] = seen],
                        out |-> SubSeq(m.queue, 1, n)]

LEMMA PurgeIs ==
  ASSUME NEW m \in MergeOps, NEW c \in Channels
  PROVE  \E n : PurgedAt(m, c, n)
<1> DEFINE upto == {n \in 0 .. Len(m.queue) : \A i \in 1 .. n : m.queue[i].gb <= m.last[1 - c]}
           k    == CHOOSE x \in upto : \A j \in upto : j <= x
           seen == IF k = 0 THEN m.last[c]
                   ELSE IF k < Len(m.queue) THEN m.queue[k + 1].gb ELSE m.queue[k].gb
<1>1. Len(m.queue) \in Nat
  BY MergeFields
<1>2. Purge(m, c) = [op  |-> [m EXCEPT !.queue = SubSeq(m.queue, k + 1, Len(m.queue)), !.last[c] = seen],
                     out |-> SubSeq(m.queue, 1, k)]
  BY DEF Purge
<1>3. upto \subseteq 0 .. Len(m.queue) /\ 0 \in upto
  BY <1>1
<1>4. k \in upto /\ \A j \in upto : j <= k
  <2> HIDE DEF upto
  <2>1. \E x \in upto : \A j \in upto : j <= x
    BY <1>1, <1>3, Greatest
  <2> QED BY <2>1, Zenon
<1> HIDE DEF k
<1>5. k \in 0 .. Len(m.queue) /\ \A i \in 1 .. k : m.queue[i].gb <= m.last[1 - c]
  BY <1>4
<1>6. k < Len(m.queue) => ~(m.queue[k + 1].gb <= m.last[1 - c])
  <2> SUFFICES ASSUME k < Len(m.queue), m.queue[k + 1].gb <= m.last[1 - c] PROVE FALSE
    OBVIOUS
  <2>1. k + 1 \in 0 .. Len(m.queue) /\ \A i \in 1 .. k + 1 : i \in 1 .. k \/ i = k + 1
    BY <1>1, <1>5
  <2>2. k + 1 \in upto
    BY <1>5, <2>1
  <2>3. k + 1 <= k
    BY <1>4, <2>2
  <2> QED BY <1>5, <2>3
<1>7. PurgedAt(m, c, k)
  BY <1>2, <1>5, <1>6 DEF PurgedAt
<1> QED
  BY <1>7, Zenon

(* The first n elements, and the rest. *)
Cut(S, q, n, gone, rest) ==
  /\ gone \in Seq(S) /\ rest \in Seq(S) /\ q = gone \o rest
  /\ Len(gone) = n /\ Len(rest) = Len(q) - n
  /\ \A i \in 1 .. n : gone[i] = q[i] /\ i \in 1 .. Len(q)
  /\ \A i \in 1 .. Len(q) - n : rest[i] = q[n + i] /\ n + i \in 1 .. Len(q)
  /\ (gone = <<>> <=> n = 0) /\ (rest # <<>> <=> n < Len(q))

LEMMA CutIs ==
  ASSUME NEW S, NEW q \in Seq(S), NEW n \in 0 .. Len(q)
  PROVE  Cut(S, q, n, SubSeq(q, 1, n), SubSeq(q, n + 1, Len(q)))
<1> DEFINE gone == SubSeq(q, 1, n)
           rest == SubSeq(q, n + 1, Len(q))
           l    == Len(q)
<1>1. l \in Nat /\ n \in Nat /\ n <= l
  OBVIOUS
<1>2. gone \in Seq(S) /\ Len(gone) = n
  OBVIOUS
<1>3. \A i \in 1 .. n : gone[i] = q[i] /\ i \in 1 .. l
  OBVIOUS
<1>4. rest \in Seq(S) /\ Len(rest) = l - n
  OBVIOUS
<1>5. \A i \in 1 .. l - n : rest[i] = q[n + i] /\ n + i \in 1 .. l
  OBVIOUS
<1> HIDE DEF gone, rest
<1>6. q = gone \o rest
  <2> DEFINE p == gone \o rest
  <2>1. p \in Seq(S) /\ Len(p) = Len(q)
    BY <1>1, <1>2, <1>4
  <2>2. ASSUME NEW i \in 1 .. Len(q) PROVE p[i] = q[i]
    <3>1. CASE i <= n
      <4>1. p[i] = gone[i] /\ i \in 1 .. n
        BY <1>1, <1>2, <1>4, <3>1
      <4> QED BY <1>3, <4>1
    <3>2. CASE i > n
      <4>1. p[i] = rest[i - n] /\ i - n \in 1 .. l - n /\ n + (i - n) = i
        BY <1>1, <1>2, <1>4, <3>2
      <4> QED BY <1>5, <4>1
    <3>3. i <= n \/ i > n
      BY <1>1
    <3> QED BY <3>1, <3>2, <3>3
  <2> HIDE DEF p
  <2>3. p = q
    BY <2>1, <2>2, SeqEqual
  <2> QED BY <2>3 DEF p
<1>7. gone = <<>> <=> n = 0
  BY <1>2
<1>8. rest # <<>> <=> n < l
  <2>1. rest = <<>> <=> l - n = 0
    BY <1>4
  <2> QED BY <1>1, <2>1
<1> QED
  BY <1>2, <1>3, <1>4, <1>5, <1>6, <1>7, <1>8 DEF gone, rest, Cut

LEMMA AcceptAwaitedKeeps ==
  ASSUME NEW m \in MergeOps, NEW tup \in StreamTuples, NEW c \in Channels, MergeOK(m), m.wait = c,
         m.last[c] <= tup.gb
  PROVE  Taken(m, tup, c, AcceptAwaited(m, tup, c).op, AcceptAwaited(m, tup, c).out)
<1> DEFINE a == [m EXCEPT !.last[c] = tup.gb]
           p == Purge(a, 1 - c)
           w == [Enqueue(p.op, tup) EXCEPT !.wait = 1 - c]
           r == AcceptAwaited(m, tup, c)
<1>0. 1 - c \in Channels /\ 1 - (1 - c) = c /\ 1 - c # c /\ c # -1
  BY OtherChannel
<1>1. tup \in DataTuples /\ tup.gb \in Nat /\ tup.gb \in Gbs
  BY ThroughIs, DataGb
<1>2. r = IF tup.gb <= p.op.last[1 - c] THEN [op |-> p.op, out |-> p.out \o Through(tup)]
          ELSE [op |-> w, out |-> p.out]
  BY DEF AcceptAwaited
<1>3. a \in MergeOps /\ a.queue = m.queue /\ a.wait = c /\ a.last[c] = tup.gb /\ a.last[1 - c] = m.last[1 - c]
  BY <1>1, MergeSet
<1> HIDE DEF a
<1>4. PICK n : PurgedAt(a, 1 - c, n)
  BY <1>0, <1>3, PurgeIs, Zenon
<1> DEFINE q    == m.queue
           l    == Len(q)
           seen == IF n = 0 THEN a.last[1 - c] ELSE IF n < l THEN q[n + 1].gb ELSE q[n].gb
           rest == SubSeq(q, n + 1, l)
           gone == SubSeq(q, 1, n)
           op   == [a EXCEPT !.queue = rest, !.last[1 - c] = seen]
<1>5. /\ q \in Seq(DataTuples) /\ l \in Nat
      /\ \A i \in 1 .. l : q[i].gb \in Nat /\ q[i].gb \in Gbs
      /\ \A d \in Channels : m.last[d] \in Nat /\ m.last[d] \in Gbs
      /\ QueueOK(m)
  BY MergeNats, MergeIsQueueOK
<1>6. /\ n \in 0 .. l /\ \A i \in 1 .. n : q[i].gb <= tup.gb
      /\ n < l => ~(q[n + 1].gb <= tup.gb)
      /\ p = [op |-> op, out |-> gone]
  BY <1>0, <1>3, <1>4 DEF PurgedAt
<1>7. /\ gone \in Seq(DataTuples) /\ rest \in Seq(DataTuples) /\ q = gone \o rest
      /\ Len(gone) = n /\ Len(rest) = l - n /\ \A i \in 1 .. n : gone[i] = q[i] /\ i \in 1 .. l
      /\ \A i \in 1 .. l - n : rest[i] = q[n + i] /\ n + i \in 1 .. l
      /\ (gone = <<>> <=> n = 0) /\ (rest # <<>> <=> n < l)
  <2>1. n \in 0 .. Len(m.queue) /\ m.queue \in Seq(DataTuples)
    BY <1>5, <1>6
  <2>2. Cut(DataTuples, q, n, gone, rest)
    BY <2>1, CutIs
  <2> HIDE DEF gone, rest
  <2> QED BY <2>2 DEF Cut
<1>8. seen \in Gbs
  <2>1. n # 0 => n \in 1 .. l
    BY <1>5, <1>6
  <2>2. n < l => n + 1 \in 1 .. l
    BY <1>5, <1>6
  <2> QED BY <1>0, <1>3, <1>5, <2>1, <2>2
<1>9. \A i \in 1 .. l - n : tup.gb < rest[i].gb
  <2> SUFFICES ASSUME NEW i \in 1 .. l - n PROVE tup.gb < rest[i].gb
    OBVIOUS
  <2>1. n < l /\ n + 1 \in 1 .. n + i /\ n + i \in 1 .. l /\ n + 1 \in 1 .. l /\ l # 0
    BY <1>5, <1>6
  <2>2. q[n + 1].gb <= q[n + i].gb
    <3>1. q # <<>>
      BY <2>1
    <3> QED BY <2>1, <3>1 DEF QueueOK, MergeOK
  <2>3. ~(q[n + 1].gb <= tup.gb) /\ q[n + 1].gb \in Nat /\ q[n + i].gb \in Nat /\ rest[i] = q[n + i]
    BY <1>5, <1>6, <1>7, <2>1
  <2> HIDE DEF q, rest, l
  <2> QED BY <1>1, <2>2, <2>3
<1>10. Splits(m, tup, c, gone, rest, seen)
  <2>1. gone = <<>> <=> n = 0
    BY <1>7
  <2>2. rest # <<>> <=> n < l
    BY <1>7
  <2>3. n < l => rest[1] = q[n + 1]
    <3> SUFFICES ASSUME n < l PROVE rest[1] = q[n + 1]
      OBVIOUS
    <3>1. 1 \in 1 .. l - n
      BY <1>5, <1>6
    <3> QED BY <1>7, <3>1
  <2>4. n # 0 => gone[Len(gone)] = q[n]
    <3> SUFFICES ASSUME n # 0 PROVE gone[Len(gone)] = q[n]
      OBVIOUS
    <3>1. n \in 1 .. n
      BY <1>5, <1>6
    <3> HIDE DEF gone
    <3> QED BY <1>7, <3>1
  <2>5. \A i \in 1 .. Len(gone) : gone[i].gb <= tup.gb
    BY <1>6, <1>7
  <2>6. \A i \in 1 .. Len(rest) : tup.gb < rest[i].gb
    BY <1>7, <1>9
  <2> HIDE DEF gone, rest
  <2>7. seen = IF gone = <<>> THEN m.last[1 - c] ELSE IF rest # <<>> THEN rest[1].gb ELSE gone[Len(gone)].gb
    BY <1>3, <2>1, <2>2, <2>3, <2>4
  <2> HIDE DEF seen
  <2> QED BY <1>7, <2>5, <2>6, <2>7 DEF Splits
<1> HIDE DEF gone, rest, seen
<1>11. op \in MergeOps /\ op.queue = rest /\ op.wait = c /\ op.last[1 - c] = seen /\ op.last[c] = tup.gb
  <2> DEFINE b == [a EXCEPT !.last[1 - c] = seen]
  <2>1. b \in MergeOps /\ b.wait = c /\ b.last[1 - c] = seen /\ b.last[c] = tup.gb
    BY <1>0, <1>3, <1>8, MergeSet
  <2>2. op = [b EXCEPT !.queue = rest]
    BY <1>3 DEF MergeOps
  <2> HIDE DEF b, op
  <2> QED BY <1>7, <2>1, <2>2 DEF MergeOps
<1> HIDE DEF op
<1>12. p.op = op /\ p.out = gone
  BY <1>6
<1> HIDE DEF p
<1>13. w \in MergeOps /\ w.queue = rest \o Through(tup) /\ w.wait = 1 - c /\ w.last[c] = tup.gb /\ w.last[1 - c] = seen
  <2>0. w = [Enqueue(op, tup) EXCEPT !.wait = 1 - c]
    BY <1>12
  <2> HIDE DEF w
  <2>1. w \in MergeOps /\ w.queue = op.queue \o Through(tup) /\ w.wait = 1 - c /\ w.last = op.last
    BY <1>0, <1>1, <1>11, <2>0, EnqueueIs
  <2> QED BY <1>11, <2>1
<1> HIDE DEF w
<1>14. CASE tup.gb <= seen
  <2>1. r.op = op /\ r.out = gone \o Through(tup)
    BY <1>2, <1>11, <1>12, <1>14
  <2> QED BY <1>5, <1>10, <1>11, <1>14, <2>1, AdvanceKeeps DEF r
<1>15. CASE ~(tup.gb <= seen)
  <2>1. r.op = w /\ r.out = gone
    BY <1>2, <1>11, <1>12, <1>15
  <2> QED BY <1>5, <1>10, <1>13, <1>15, <2>1, AdvanceKeeps DEF r
<1> QED
  BY <1>14, <1>15

LEMMA SeqWithin ==
  ASSUME NEW S, NEW T, NEW q \in Seq(S), \A i \in 1 .. Len(q) : q[i] \in T
  PROVE  q \in Seq(T)
<1>1. q \in [1 .. Len(q) -> T] /\ Len(q) \in Nat
  OBVIOUS
<1> QED
  BY <1>1

(* What accept_tuple of the merge does with a tuple of channel c. *)
Merged(m, tup, c, r) ==
  /\ r.op \in MergeOps /\ r.out \in Seq(StreamTuples) /\ MergeOK(r.op)
  /\ \A b \in Reached(r.op, c) : b \in Reached(m, c) \/ b = tup.gb
  /\ \A b \in Reached(r.op, 1 - c) : b \in Reached(m, 1 - c)
  /\ \A d \in Channels : m.last[d] <= r.op.last[d]
  /\ Sorted(r.out) /\ \A i \in 1 .. Len(r.out) : Between(m, r.op, r.out[i].gb)
  /\ IsTemp(tup) /\ r.out # <<>> => IsTemp(r.out[Len(r.out)])
  /\ \A k : InSeq(m.queue, k) + Share(tup, k) = InSeq(r.op.queue, k) + InSeq(r.out, k)

(* The tuple is left out. *)
LEMMA DroppedKeeps ==
  ASSUME NEW m \in MergeOps, NEW tup \in StreamTuples, NEW c \in Channels, MergeOK(m), ~IsRegular(tup)
  PROVE  Merged(m, tup, c, [op |-> [m EXCEPT !.dropped = @ + 1], out |-> <<>>])
<1> DEFINE u == [m EXCEPT !.dropped = @ + 1]
           o == <<>>
           r == [op |-> u, out |-> o]
<1>1. u \in MergeOps /\ u.queue = m.queue /\ u.last = m.last /\ u.wait = m.wait
  BY DEF MergeOps
<1> HIDE DEF u
<1>2. MergeOK(u) /\ \A d : Reached(u, d) = Reached(m, d)
  BY <1>1 DEF MergeOK, Reached
<1>3. \A d \in Channels : m.last[d] <= u.last[d]
  BY <1>1, MergeNats
<1>4. o \in Seq(StreamTuples) /\ Len(o) = 0 /\ Sorted(o)
  BY DEF Sorted
<1>5. \A k : InSeq(m.queue, k) + Share(tup, k) = InSeq(u.queue, k) + InSeq(o, k)
  <2>1. \A k : InSeq(o, k) = 0
    BY InSeqEmpty
  <2>2. tup.cnt = 0
    BY DEF StreamTuples
  <2>3. \A k : Share(tup, k) = 0
    BY <2>2 DEF Share
  <2> QED BY <1>1, <2>1, <2>3
<1>6. r.op = u /\ r.out = o
  OBVIOUS
<1> HIDE DEF r
<1>7. \A d : \A b \in Reached(r.op, d) : b \in Reached(m, d)
  BY <1>2, <1>6
<1>8. /\ r.op \in MergeOps /\ r.out \in Seq(StreamTuples) /\ MergeOK(r.op) /\ Len(r.out) = 0 /\ r.out = <<>> /\ Sorted(r.out)
      /\ \A d \in Channels : m.last[d] <= r.op.last[d]
  BY <1>1, <1>2, <1>3, <1>4, <1>6
<1>9. \A k : InSeq(m.queue, k) + Share(tup, k) = InSeq(r.op.queue, k) + InSeq(r.out, k)
  BY <1>5, <1>6
<1>10. Merged(m, tup, c, r)
  BY <1>7, <1>8, <1>9 DEF Merged
<1> QED
  BY <1>10 DEF r, u

LEMMA StatusTuple ==
  ASSUME NEW m \in MergeOps
  PROVE  /\ Status(m) \in StreamTuples /\ IsTemp(Status(m)) /\ ~IsRegular(Status(m))
         /\ Status(m).gb <= m.last[0] /\ Status(m).gb <= m.last[1]
         /\ \A b \in Nat : b <= m.last[0] /\ b <= m.last[1] => b <= Status(m).gb
         /\ Status(m).gb = m.last[0] \/ Status(m).gb = m.last[1]
<1>1. m.last[0] \in Nat /\ m.last[0] \in Gbs /\ m.last[1] \in Nat /\ m.last[1] \in Gbs
  BY MergeNats DEF Channels
<1>2. Status(m).gb = Least(m.last[0], m.last[1]) /\ IsTemp(Status(m)) /\ ~IsRegular(Status(m))
  BY DEF Status, IsTemp, IsRegular
<1>3. /\ Least(m.last[0], m.last[1]) \in Gbs
      /\ Least(m.last[0], m.last[1]) <= m.last[0] /\ Least(m.last[0], m.last[1]) <= m.last[1]
      /\ \A b \in Nat : b <= m.last[0] /\ b <= m.last[1] => b <= Least(m.last[0], m.last[1])
      /\ Least(m.last[0], m.last[1]) = m.last[0] \/ Least(m.last[0], m.last[1]) = m.last[1]
  BY <1>1 DEF Least
<1>4. Status(m) \in StreamTuples
  <2>1. Status(m) \in DataTuples
    BY <1>3, Numbers DEF Status, DataTuples
  <2>2. Status(m).cnt = 0
    BY DEF Status
  <2> QED BY <2>1, <2>2 DEF StreamTuples
<1> QED
  BY <1>2, <1>3, <1>4

LEMMA NobodyWaited ==
  ASSUME NEW m \in MergeOps, QueueOK(m)
  PROVE  LET u == [m EXCEPT !.wait = IF m.queue = <<>> THEN -1 ELSE @]
         IN  u \in MergeOps /\ MergeOK(u) /\ u.queue = m.queue /\ u.last = m.last /\ \A d : Reached(u, d) = Reached(m, d)
<1> DEFINE w == IF m.queue = <<>> THEN -1 ELSE m.wait
           u == [m EXCEPT !.wait = w]
<1>1. u \in MergeOps /\ u.queue = m.queue /\ u.last = m.last /\ u.wait = w
  BY DEF MergeOps
<1>2. [m EXCEPT !.wait = IF m.queue = <<>> THEN -1 ELSE @] = u
  OBVIOUS
<1>3. CASE m.queue = <<>>
  <2>1. u.wait = -1 /\ u.queue = <<>> /\ Len(u.queue) = 0 /\ Len(m.queue) = 0
    BY <1>1, <1>3
  <2>2. MergeOK(u)
    BY <2>1 DEF MergeOK
  <2>3. \A d : Reached(u, d) = Reached(m, d)
    BY <1>1, <2>1 DEF Reached
  <2> QED BY <1>1, <1>2, <2>2, <2>3
<1>4. CASE m.queue # <<>>
  <2>1. u.wait = m.wait
    BY <1>1, <1>4
  <2>2. m.wait \in Channels /\ m.wait # -1
    BY <1>4, OtherChannel DEF QueueOK
  <2> HIDE DEF u, w
  <2>3. MergeOK(u)
    BY <1>1, <1>4, <2>1, <2>2 DEF MergeOK, QueueOK
  <2>4. \A d : Reached(u, d) = Reached(m, d)
    BY <1>1, <2>1 DEF Reached
  <2> QED BY <1>1, <1>2, <2>3, <2>4
<1> QED
  BY <1>3, <1>4

LEMMA MergeAcceptKeeps ==
  ASSUME NEW m \in MergeOps, NEW tup \in StreamTuples, NEW c \in Channels, MergeOK(m),
         IsRegular(tup) => \A b \in Reached(m, c) : b <= tup.gb
  PROVE  Merged(m, tup, c, MergeAccept(m, tup, c))
<1> DEFINE a == IF m.wait # c THEN AcceptAhead(m, tup, c) ELSE AcceptAwaited(m, tup, c)
           u == [a.op EXCEPT !.wait = IF a.op.queue = <<>> THEN -1 ELSE @]
           o == IF IsTemp(tup) THEN Append(a.out, Status(a.op)) ELSE a.out
           d == [op |-> [m EXCEPT !.dropped = @ + 1], out |-> <<>>]
           r == MergeAccept(m, tup, c)
<1>0. tup \in DataTuples /\ tup.gb \in Nat /\ (IsTemp(tup) <=> ~IsRegular(tup)) /\ m.last[c] \in Nat
  BY ThroughIs, MergeNats
<1>1. r = IF tup.gb < m.last[c] THEN d ELSE [op |-> u, out |-> o]
  BY DEF MergeAccept
<1>2. CASE tup.gb < m.last[c]
  <2>1. ~IsRegular(tup)
    <3>1. m.last[c] \in Reached(m, c)
      BY DEF Reached
    <3> QED BY <1>0, <1>2, <3>1
  <2>2. Merged(m, tup, c, d)
    BY <2>1, DroppedKeeps
  <2>3. r = d
    BY <1>1, <1>2
  <2> QED BY <2>2, <2>3
<1>3. CASE ~(tup.gb < m.last[c])
  <2>1. m.last[c] <= tup.gb
    BY <1>0, <1>3
  <2>2. Taken(m, tup, c, a.op, a.out)
    <3>1. m.wait # c => Taken(m, tup, c, AcceptAhead(m, tup, c).op, AcceptAhead(m, tup, c).out)
      BY <2>1, AcceptAheadKeeps
    <3>2. m.wait = c => Taken(m, tup, c, AcceptAwaited(m, tup, c).op, AcceptAwaited(m, tup, c).out)
      BY <2>1, AcceptAwaitedKeeps
    <3> QED BY <3>1, <3>2
  <2>3. a.op \in MergeOps /\ a.out \in Seq(DataTuples)
    BY <1>0, AcceptAheadType, AcceptAwaitedType DEF MergeResults
  <2> HIDE DEF a
  <2>4. /\ QueueOK(a.op) /\ \A b \in Reached(a.op, c) : b \in Reached(m, c) \/ b = tup.gb
        /\ \A b \in Reached(a.op, 1 - c) : b \in Reached(m, 1 - c)
        /\ \A e \in Channels : m.last[e] <= a.op.last[e]
        /\ Sorted(a.out) /\ \A i \in 1 .. Len(a.out) : IsRegular(a.out[i]) /\ Between(m, a.op, a.out[i].gb)
        /\ \A k : InSeq(m.queue, k) + Share(tup, k) = InSeq(a.op.queue, k) + InSeq(a.out, k)
    BY <2>2 DEF Taken
  <2>5. u \in MergeOps /\ MergeOK(u) /\ u.queue = a.op.queue /\ u.last = a.op.last /\ \A e : Reached(u, e) = Reached(a.op, e)
    BY <2>3, <2>4, NobodyWaited
  <2> HIDE DEF u
  <2>6. a.out \in Seq(StreamTuples)
    <3>1. \A i \in 1 .. Len(a.out) : a.out[i] \in StreamTuples
      BY <2>3, <2>4 DEF StreamTuples
    <3> QED BY <2>3, <3>1, SeqWithin
  <2>7. \A i \in 1 .. Len(a.out) : Between(m, u, a.out[i].gb)
    BY <2>4, <2>5 DEF Between
  <2>8. r.op = u /\ r.out = o
    BY <1>1, <1>3
  <2>9. \A b \in Reached(u, c) : b \in Reached(m, c) \/ b = tup.gb
    BY <2>4, <2>5
  <2>10. \A b \in Reached(u, 1 - c) : b \in Reached(m, 1 - c)
    BY <2>4, <2>5
  <2>11. \A e \in Channels : m.last[e] <= u.last[e]
    BY <2>4, <2>5
  <2>12. CASE ~IsTemp(tup)
    <3>1. o = a.out
      BY <2>12
    <3> HIDE DEF o, r
    <3>2. \A k : InSeq(m.queue, k) + Share(tup, k) = InSeq(u.queue, k) + InSeq(o, k)
      BY <2>4, <2>5, <3>1
    <3> QED BY <2>4, <2>5, <2>6, <2>7, <2>8, <2>9, <2>10, <2>11, <2>12, <3>1, <3>2 DEF Merged, r
  <2>13. CASE IsTemp(tup)
    <3> DEFINE x == Status(a.op)
    <3>1. o = Append(a.out, x) /\ o = a.out \o <<x>>
      BY <2>3, <2>13
    <3>2. /\ x \in StreamTuples /\ IsTemp(x) /\ ~IsRegular(x) /\ x.gb <= a.op.last[0] /\ x.gb <= a.op.last[1]
          /\ \A b \in Nat : b <= a.op.last[0] /\ b <= a.op.last[1] => b <= x.gb
          /\ x.gb = a.op.last[0] \/ x.gb = a.op.last[1]
      BY <2>3, StatusTuple
    <3> HIDE DEF o, r, x
    <3>3. /\ o \in Seq(StreamTuples) /\ o # <<>> /\ o[Len(o)] = x /\ Len(o) = Len(a.out) + 1
          /\ \A i \in 1 .. Len(o) : i = Len(o) \/ (i \in 1 .. Len(a.out) /\ o[i] = a.out[i])
      BY <2>6, <3>1, <3>2
    <3>4. Between(m, u, x.gb)
      <4>1. /\ m.last[0] <= a.op.last[0] /\ m.last[1] <= a.op.last[1]
        BY <2>4 DEF Channels
      <4> QED BY <2>5, <3>2, <4>1 DEF Between
    <3>5. \A i \in 1 .. Len(o) : Between(m, u, o[i].gb)
      BY <2>7, <3>3, <3>4
    <3>6. Sorted(o)
      <4> DEFINE p == <<x>>
      <4>1. p \in Seq(StreamTuples) /\ Len(p) = 1 /\ p[1] = x
        BY <3>2
      <4>2. x.gb \in Nat
        BY <3>2, ThroughIs
      <4> HIDE DEF p
      <4>3. Sorted(p)
        BY <4>1, <4>2 DEF Sorted
      <4>4. \A i \in 1 .. Len(a.out), j \in 1 .. Len(p) : a.out[i].gb <= p[j].gb
        <5> SUFFICES ASSUME NEW i \in 1 .. Len(a.out), NEW j \in 1 .. Len(p) PROVE a.out[i].gb <= p[j].gb
          OBVIOUS
        <5>1. a.out[i].gb \in Nat
          <6>1. a.out[i] \in StreamTuples
            BY <2>6
          <6> QED BY <6>1, ThroughIs
        <5>2. a.out[i].gb <= a.op.last[0] /\ a.out[i].gb <= a.op.last[1]
          BY <2>4 DEF Between
        <5>3. p[j] = x
          BY <4>1
        <5> QED BY <3>2, <5>1, <5>2, <5>3
      <4>5. Sorted(a.out \o p)
        BY <2>4, <2>6, <4>1, <4>3, <4>4, SortedConcat
      <4> QED BY <3>1, <4>5 DEF p
    <3>7. \A k : InSeq(m.queue, k) + Share(tup, k) = InSeq(u.queue, k) + InSeq(o, k)
      <4> SUFFICES ASSUME NEW k PROVE InSeq(m.queue, k) + Share(tup, k) = InSeq(u.queue, k) + InSeq(o, k)
        OBVIOUS
      <4>1. x.cnt = 0
        BY <3>2 DEF StreamTuples
      <4>2. Share(x, k) = 0
        BY <4>1 DEF Share
      <4>3. a.out \in Seq(Counted) /\ x \in Counted
        BY <2>3, <3>2, CountedAll DEF StreamTuples
      <4>4. InSeq(a.out, k) \in Nat
        BY <4>3, InSeqTotal
      <4>5. InSeq(Append(a.out, x), k) = InSeq(a.out, k) + Share(x, k)
        BY <4>3, InSeqAppend
      <4>6. InSeq(o, k) = InSeq(a.out, k)
        BY <3>1, <4>2, <4>4, <4>5
      <4> QED BY <2>4, <2>5, <4>6
    <3> QED BY <2>5, <2>8, <2>9, <2>10, <2>11, <3>2, <3>3, <3>5, <3>6, <3>7 DEF Merged, r
  <2> QED BY <2>12, <2>13
<1> QED
  BY <1>2, <1>3

-----------------------------------------------------------------------------
(* The group-by. *)

(* No group is posted twice. *)
Unique(q) ==
  \A i, j \in 1 .. Len(q) :
    IsRegular(q[i]) /\ IsRegular(q[j]) /\ q[i].gb = q[j].gb /\ q[i].grp = q[j].grp => i = j

(* One row a group, all of epoch v. *)
OneEach(rows, v) ==
  \A i \in 1 .. Len(rows) :
    rows[i].gb = v /\ \A j \in 1 .. Len(rows) : rows[j].grp = rows[i].grp => j = i

LEMMA UniqueConcat ==
  ASSUME NEW S, NEW p \in Seq(S), NEW q \in Seq(S), Unique(p), Unique(q),
         \A i \in 1 .. Len(p), j \in 1 .. Len(q) :
           IsRegular(p[i]) /\ IsRegular(q[j]) /\ p[i].gb = q[j].gb => p[i].grp # q[j].grp
  PROVE  Unique(p \o q)
<1> DEFINE r == p \o q
           n == Len(p)
<1>1. /\ Len(r) = n + Len(q) /\ n \in Nat /\ Len(q) \in Nat
      /\ \A i \in 1 .. n : r[i] = p[i]
      /\ \A i \in 1 .. Len(r) : i > n => i - n \in 1 .. Len(q) /\ r[i] = q[i - n]
  OBVIOUS
<1> HIDE DEF r
<1> SUFFICES ASSUME NEW i \in 1 .. Len(r), NEW j \in 1 .. Len(r),
                    IsRegular(r[i]), IsRegular(r[j]), r[i].gb = r[j].gb, r[i].grp = r[j].grp
             PROVE  i = j
  BY DEF Unique, r
<1>2. \A x \in 1 .. Len(r) : x > n \/ x \in 1 .. n
  BY <1>1
<1>3. CASE i \in 1 .. n /\ j \in 1 .. n
  BY <1>1, <1>3 DEF Unique
<1>4. CASE i > n /\ j > n
  <2>1. i - n \in 1 .. Len(q) /\ j - n \in 1 .. Len(q) /\ r[i] = q[i - n] /\ r[j] = q[j - n]
    BY <1>1, <1>4
  <2>2. i - n = j - n
    BY <2>1 DEF Unique
  <2> QED BY <1>1, <2>2
<1>5. CASE i \in 1 .. n /\ j > n
  <2>1. j - n \in 1 .. Len(q) /\ r[i] = p[i] /\ r[j] = q[j - n]
    BY <1>1, <1>5
  <2> HIDE DEF n
  <2> QED BY <1>5, <2>1 DEF n
<1>6. CASE j \in 1 .. n /\ i > n
  <2>1. i - n \in 1 .. Len(q) /\ r[j] = p[j] /\ r[i] = q[i - n]
    BY <1>1, <1>6
  <2> HIDE DEF n
  <2> QED BY <1>6, <2>1 DEF n
<1> QED
  BY <1>2, <1>3, <1>4, <1>5, <1>6

LEMMA OutputsAre ==
  ASSUME NEW rows \in Seq(Rows)
  PROVE  /\ Outputs(rows) \in Seq(DataTuples) /\ Outputs(rows) \in Seq(StreamTuples) /\ Len(Outputs(rows)) = Len(rows)
         /\ \A i \in 1 .. Len(rows) : /\ IsRegular(Outputs(rows)[i]) /\ Outputs(rows)[i].gb = rows[i].gb
                                      /\ Outputs(rows)[i].grp = rows[i].grp /\ rows[i].gb \in Nat
         /\ \A k : InSeq(Outputs(rows), k) = InSeq(rows, k)
<1> DEFINE o == Outputs(rows)
<1>1. o \in Seq(DataTuples)
  BY OutputsType
<1>2. Len(o) = Len(rows) /\ \A i \in 1 .. Len(rows) : o[i] = Output(rows[i])
  BY DEF Outputs
<1> HIDE DEF o
<1>3. \A i \in 1 .. Len(rows) : IsRegular(o[i]) /\ o[i].gb = rows[i].gb /\ o[i].grp = rows[i].grp /\ o[i].cnt = rows[i].cnt
  <2>1. \A r : IsRegular(Output(r)) /\ Output(r).gb = r.gb /\ Output(r).grp = r.grp /\ Output(r).cnt = r.cnt
    BY DEF Output, IsRegular
  <2> QED BY <1>2, <2>1
<1>4. \A i \in 1 .. Len(rows) : rows[i].gb \in Nat
  <2>1. \A i \in 1 .. Len(rows) : rows[i] \in Rows
    OBVIOUS
  <2>2. \A r \in Rows : r.gb \in Gbs
    BY DEF Rows
  <2>3. \A x \in Gbs : x \in Nat
    BY Numbers
  <2> QED BY <2>1, <2>2, <2>3
<1>5. o \in Seq(StreamTuples)
  <2>1. \A i \in 1 .. Len(o) : o[i] \in StreamTuples
    BY <1>1, <1>2, <1>3 DEF StreamTuples
  <2> QED BY <1>1, <2>1, SeqWithin
<1>6. \A k : InSeq(o, k) = InSeq(rows, k)
  <2> SUFFICES ASSUME NEW k PROVE InSeq(o, k) = InSeq(rows, k)
    OBVIOUS
  <2>1. o \in Seq(Counted) /\ rows \in Seq(Counted)
    BY <1>1, CountedAll
  <2>2. \A i \in 1 .. Len(rows) : Share(o[i], k) = Share(rows[i], k)
    BY <1>3 DEF Share
  <2> QED BY <1>2, <2>1, <2>2, InSeqSame
<1> QED
  BY <1>1, <1>2, <1>3, <1>4, <1>5, <1>6 DEF o

(* The rows of an epoch are posted after tuples of no later epoch. *)
LEMMA PostRows ==
  ASSUME NEW q \in Seq(AnyTuples), NEW rows \in Seq(Rows), NEW v, OneEach(rows, v), Unique(q), Orderly(q),
         rows # <<>> => \A i \in 1 .. Len(q) : q[i].gb <= v,
         \A i \in 1 .. Len(q), j \in 1 .. Len(rows) :
           IsRegular(q[i]) /\ q[i].gb = rows[j].gb => q[i].grp # rows[j].grp
  PROVE  Unique(q \o Outputs(rows)) /\ Orderly(q \o Outputs(rows))
<1> DEFINE o == Outputs(rows)
<1>1. /\ o \in Seq(DataTuples) /\ Len(o) = Len(rows)
      /\ \A i \in 1 .. Len(rows) : IsRegular(o[i]) /\ o[i].gb = rows[i].gb /\ o[i].grp = rows[i].grp /\ rows[i].gb \in Nat
  BY OutputsAre
<1> HIDE DEF o
<1>2. o \in Seq(AnyTuples)
  BY <1>1, CountedAll
<1>3. Len(rows) \in Nat /\ \A i \in 1 .. Len(rows) : rows[i].gb = v /\ rows # <<>>
  BY DEF OneEach
<1>4. Unique(o)
  BY <1>1 DEF Unique, OneEach
<1>5. Orderly(o)
  <2> SUFFICES ASSUME NEW j \in 1 .. Len(o), NEW i \in 1 .. j - 1 PROVE o[i].gb <= o[j].gb
    BY DEF Orderly
  <2>1. i \in 1 .. Len(rows) /\ j \in 1 .. Len(rows)
    BY <1>1, <1>3
  <2>2. o[i].gb = v /\ o[j].gb = v /\ v \in Nat
    BY <1>1, <1>3, <2>1
  <2> QED BY <2>2
<1>6. \A i \in 1 .. Len(q), j \in 1 .. Len(o) : q[i].gb <= o[j].gb
  BY <1>1, <1>3
<1>7. \A i \in 1 .. Len(q), j \in 1 .. Len(o) : IsRegular(q[i]) /\ IsRegular(o[j]) /\ q[i].gb = o[j].gb => q[i].grp # o[j].grp
  BY <1>1
<1>8. Orderly(q \o o)
  BY <1>2, <1>5, <1>6, OrderlyConcat
<1>9. Unique(q \o o)
  BY <1>2, <1>4, <1>7, UniqueConcat
<1> QED
  BY <1>8, <1>9 DEF o

(* Iterating a table gives every row, once. *)
LEMMA IterateIs ==
  ASSUME NEW T, IsFiniteSet(T), T \subseteq Rows
  PROVE  /\ Iterate(T) \in Seq(Rows) /\ Len(Iterate(T)) = Cardinality(T)
         /\ \A i \in 1 .. Len(Iterate(T)) : Iterate(T)[i] \in T
         /\ \A i, j \in 1 .. Len(Iterate(T)) : Iterate(T)[i] = Iterate(T)[j] => i = j
         /\ \A r \in T : \E i \in 1 .. Len(Iterate(T)) : Iterate(T)[i] = r
<1> DEFINE c == Cardinality(T)
           s == CHOOSE f \in [1 .. c -> T] : IsInjective(f)
<1>1. c \in Nat /\ ExistsBijection(1 .. c, T)
  BY FS_CardinalityType
<1>2. \E f \in [1 .. c -> T] : IsInjective(f)
  BY <1>1 DEF ExistsBijection, Bijection, Injection
<1>3. s \in [1 .. c -> T] /\ IsInjective(s)
  BY <1>2, Zenon
<1>4. Iterate(T) = s
  BY DEF Iterate, SetToSeq
<1>5. Cardinality(1 .. c) = c /\ IsFiniteSet(1 .. c)
  <2> HIDE DEF c
  <2> QED BY <1>1, FS_Interval
<1> HIDE DEF s
<1>6. s \in Injection(1 .. c, T)
  BY <1>3 DEF Injection
<1>7. s \in Surjection(1 .. c, T)
  BY <1>5, <1>6, FS_Injection
<1> HIDE DEF c
<1>8. s \in Seq(T) /\ Len(s) = c /\ DOMAIN s = 1 .. c
  BY <1>1, <1>3
<1>9. \A r \in T : \E i \in 1 .. c : s[i] = r
  BY <1>7 DEF Surjection
<1>10. s \in Seq(Rows)
  BY <1>8
<1> QED
  BY <1>3, <1>4, <1>8, <1>9, <1>10 DEF IsInjective, c

LEMMA IterateNone == Iterate({}) = <<>>
<1>1. IsFiniteSet({}) /\ {} \subseteq Rows /\ Cardinality({}) = 0
  BY FS_EmptySet
<1>2. Iterate({}) \in Seq(Rows) /\ Len(Iterate({})) = 0
  BY <1>1, IterateIs
<1> HIDE DEF Iterate
<1> QED
  BY <1>2

(* No two rows of a group. *)
OneRow(T) == \A r, p \in T : p.grp = r.grp => p = r

LEMMA IterateCount ==
  ASSUME NEW T, IsFiniteSet(T), T \subseteq Rows, OneRow(T), NEW k
  PROVE  /\ InSeq(Iterate(T), k) \in Nat
         /\ \A r \in T : r.gb = k[1] /\ r.grp = k[2] => InSeq(Iterate(T), k) = r.cnt
         /\ (\A r \in T : ~(r.gb = k[1] /\ r.grp = k[2])) => InSeq(Iterate(T), k) = 0
<1> DEFINE q == Iterate(T)
<1>1. /\ q \in Seq(Rows) /\ Len(q) \in Nat
      /\ \A i \in 1 .. Len(q) : q[i] \in T
      /\ \A i, j \in 1 .. Len(q) : q[i] = q[j] => i = j
      /\ \A r \in T : \E i \in 1 .. Len(q) : q[i] = r
  BY IterateIs
<1> HIDE DEF q
<1>2. q \in Seq(Counted)
  BY <1>1, CountedAll
<1>3. InSeq(q, k) \in Nat
  BY <1>2, InSeqTotal
<1>4. ASSUME NEW r \in T, r.gb = k[1], r.grp = k[2] PROVE InSeq(q, k) = r.cnt
  <2>1. PICK b \in 1 .. Len(q) : q[b] = r
    BY <1>1
  <2>2. \A i \in 1 .. Len(q) : i # b => Share(q[i], k) = 0
    <3> SUFFICES ASSUME NEW i \in 1 .. Len(q), i # b PROVE Share(q[i], k) = 0
      OBVIOUS
    <3>1. q[i] \in T /\ q[i] # r
      BY <1>1, <2>1
    <3>2. q[i].grp # r.grp
      BY <3>1 DEF OneRow
    <3> QED BY <1>4, <3>2 DEF Share
  <2>3. InSeq(q, k) = Share(q[b], k)
    BY <1>2, <2>2, InSeqOnly
  <2>4. Share(r, k) = r.cnt
    BY <1>4 DEF Share
  <2> QED BY <2>1, <2>3, <2>4
<1>5. ASSUME \A r \in T : ~(r.gb = k[1] /\ r.grp = k[2]) PROVE InSeq(q, k) = 0
  <2>1. \A i \in 1 .. Len(q) : Share(q[i], k) = 0
    BY <1>1, <1>5 DEF Share
  <2> QED BY <1>2, <2>1, InSeqNone
<1> QED
  BY <1>3, <1>4, <1>5 DEF q

LEMMA IterateOneEach ==
  ASSUME NEW T, IsFiniteSet(T), T \subseteq Rows, OneRow(T), NEW v, \A r \in T : r.gb = v
  PROVE  OneEach(Iterate(T), v)
<1> DEFINE q == Iterate(T)
<1>1. /\ \A i \in 1 .. Len(q) : q[i] \in T
      /\ \A i, j \in 1 .. Len(q) : q[i] = q[j] => i = j
  BY IterateIs
<1> HIDE DEF q
<1>2. OneEach(q, v)
  BY <1>1 DEF OneEach, OneRow
<1> QED
  BY <1>2 DEF q

(* What the group-by has of k. *)
Summed(b, k) == InSeq(Iterate(b.table) \o b.old, k)

LEMMA SummedIs ==
  ASSUME NEW b \in GroupBysOK, NEW k
  PROVE  /\ Iterate(b.table) \in Seq(Counted) /\ b.old \in Seq(Counted)
         /\ InSeq(Iterate(b.table), k) \in Nat /\ InSeq(b.old, k) \in Nat
         /\ Summed(b, k) = InSeq(Iterate(b.table), k) + InSeq(b.old, k) /\ Summed(b, k) \in Nat
<1>1. Iterate(b.table) \in Seq(Rows) /\ b.old \in Seq(Rows)
  BY GroupByFields, IterateIs
<1>2. Iterate(b.table) \in Seq(Counted) /\ b.old \in Seq(Counted)
  BY <1>1, CountedAll
<1>3. InSeq(Iterate(b.table), k) \in Nat /\ InSeq(b.old, k) \in Nat
  BY <1>2, InSeqTotal
<1>4. InSeq(Iterate(b.table) \o b.old, k) = InSeq(Iterate(b.table), k) + InSeq(b.old, k)
  BY <1>2, InSeqConcat
<1> QED
  BY <1>2, <1>3, <1>4 DEF Summed

(* The group-by b, with q posted so far. *)
Kept(b, q) ==
  b \in GroupBysOK /\ q \in Seq(AnyTuples) /\ GroupOK(b) /\ PostedOK(q, b) /\ Unique(q) /\ Orderly(q)

LEMMA GroupNats ==
  ASSUME NEW b \in GroupBysOK
  PROVE  /\ b.last_gb \in Nat /\ b.last_flushed_gb \in Nat /\ b.old \in Seq(Rows) /\ Len(b.old) \in Nat
         /\ \A i \in 1 .. Len(b.old) : b.old[i] \in Rows /\ b.old[i].gb \in Nat
<1>1. b.last_gb \in Gbs /\ b.last_flushed_gb \in Gbs /\ b.old \in Seq(Rows)
  BY GroupByFields
<1>2. \A x \in Gbs : x \in Nat
  BY Numbers
<1>3. \A r \in Rows : r.gb \in Gbs
  BY DEF Rows
<1>4. Len(b.old) \in Nat /\ \A i \in 1 .. Len(b.old) : b.old[i] \in Rows
  BY <1>1
<1> QED
  BY <1>1, <1>2, <1>3, <1>4

(* The first groups of the finished epoch are posted. *)
LEMMA PostOld ==
  ASSUME NEW b, NEW q, Kept(b, q), NEW gone \in Seq(Rows), NEW rest \in Seq(Rows), b.old = gone \o rest,
         NEW u \in GroupBysOK, u.table = b.table, u.last_gb = b.last_gb, u.last_flushed_gb = b.last_flushed_gb,
         u.old = rest, u.finished => rest = <<>>
  PROVE  /\ Kept(u, q \o Outputs(gone))
         /\ \A k : Summed(b, k) = Summed(u, k) + InSeq(Outputs(gone), k)
<1> DEFINE n == Len(gone)
           o == Outputs(gone)
           v == b.last_flushed_gb
           p == q \o o
<1>1. b \in GroupBysOK /\ q \in Seq(AnyTuples) /\ GroupOK(b) /\ PostedOK(q, b) /\ Unique(q) /\ Orderly(q)
  BY DEF Kept
<1>2. b.last_gb \in Nat /\ v \in Nat /\ b.old \in Seq(Rows) /\ Len(b.old) \in Nat
  BY <1>1, GroupNats
<1>3. /\ n \in Nat /\ Len(rest) \in Nat /\ Len(b.old) = n + Len(rest)
      /\ \A i \in 1 .. n : i \in 1 .. Len(b.old) /\ b.old[i] = gone[i]
      /\ \A i \in 1 .. Len(rest) : n + i \in 1 .. Len(b.old) /\ b.old[n + i] = rest[i]
  OBVIOUS
<1>4. /\ o \in Seq(DataTuples) /\ Len(o) = n
      /\ \A i \in 1 .. n : IsRegular(o[i]) /\ o[i].gb = gone[i].gb /\ o[i].grp = gone[i].grp
      /\ \A k : InSeq(o, k) = InSeq(gone, k)
  BY OutputsAre
<1> HIDE DEF o
<1>5. /\ \A i \in 1 .. Len(b.old) : b.old[i].gb = v /\ v < b.last_gb
      /\ \A i, j \in 1 .. Len(b.old) : b.old[j].grp = b.old[i].grp => j = i
  BY <1>1 DEF GroupOK
<1>6. b.old # <<>> <=> Len(b.old) # 0
  BY <1>2
<1> HIDE DEF n
<1>7. OneEach(gone, v)
  <2> SUFFICES ASSUME NEW i \in 1 .. n PROVE gone[i].gb = v /\ \A j \in 1 .. n : gone[j].grp = gone[i].grp => j = i
    BY DEF OneEach, n
  <2>1. \A j \in 1 .. n : j \in 1 .. Len(b.old) /\ b.old[j] = gone[j]
    BY <1>3
  <2> QED BY <1>5, <2>1
<1>8. gone # <<>> => b.old # <<>>
  <2>1. gone # <<>> => n # 0
    BY DEF n
  <2> QED BY <1>3, <1>6, <2>1
<1>9. rest # <<>> => b.old # <<>>
  <2>1. rest # <<>> => Len(rest) # 0
    OBVIOUS
  <2> QED BY <1>3, <1>6, <2>1
<1>10. Unique(p) /\ Orderly(p)
  <2>1. gone # <<>> => \A i \in 1 .. Len(q) : q[i].gb <= v
    BY <1>1, <1>8 DEF PostedOK
  <2>2. \A i \in 1 .. Len(q), j \in 1 .. Len(gone) : IsRegular(q[i]) /\ q[i].gb = gone[j].gb => q[i].grp # gone[j].grp
    <3> SUFFICES ASSUME NEW i \in 1 .. Len(q), NEW j \in 1 .. Len(gone), IsRegular(q[i]), q[i].gb = gone[j].gb
                 PROVE  q[i].grp # gone[j].grp
      OBVIOUS
    <3>1. j \in 1 .. Len(b.old) /\ b.old[j] = gone[j]
      BY <1>3 DEF n
    <3>2. b.old[j].gb = q[i].gb => b.old[j].grp # q[i].grp
      BY <1>1, <3>1 DEF PostedOK
    <3> QED BY <3>1, <3>2
  <2> QED BY <1>1, <1>7, <2>1, <2>2, PostRows DEF o
<1>11. p \in Seq(AnyTuples) /\ o \in Seq(AnyTuples)
  BY <1>1, <1>4, CountedAll
<1>12. GroupOK(u)
  <2>1. u.last_flushed_gb <= u.last_gb /\ (u.finished => u.old = <<>>)
    BY <1>1 DEF GroupOK
  <2>2. \A r \in u.table : r.gb = u.last_gb /\ \A x \in u.table : x.grp = r.grp => x = r
    BY <1>1 DEF GroupOK
  <2>3. ASSUME NEW i \in 1 .. Len(rest) PROVE rest[i].gb = v /\ v < u.last_gb
    <3>1. n + i \in 1 .. Len(b.old) /\ b.old[n + i] = rest[i]
      BY <1>3
    <3> QED BY <1>5, <3>1
  <2>4. \A i, j \in 1 .. Len(rest) : rest[j].grp = rest[i].grp => j = i
    <3> SUFFICES ASSUME NEW i \in 1 .. Len(rest), NEW j \in 1 .. Len(rest), rest[j].grp = rest[i].grp PROVE j = i
      OBVIOUS
    <3>0. n + i \in 1 .. Len(b.old) /\ b.old[n + i] = rest[i] /\ n + j \in 1 .. Len(b.old) /\ b.old[n + j] = rest[j]
      BY <1>3
    <3>1. n + i = n + j
      BY <1>5, <3>0
    <3> QED BY <1>3, <3>1
  <2> QED BY <2>1, <2>2, <2>3, <2>4 DEF GroupOK
<1>13. PostedOK(p, u)
  <2> SUFFICES ASSUME NEW i \in 1 .. Len(p)
               PROVE  /\ p[i].gb <= u.last_gb /\ (u.old # <<>> => p[i].gb <= u.last_flushed_gb)
                      /\ IsRegular(p[i]) =>
                          /\ p[i].gb < u.last_gb
                          /\ \A j \in 1 .. Len(u.old) : u.old[j].gb = p[i].gb => u.old[j].grp # p[i].grp
    BY DEF PostedOK
  <2>1. (i \in 1 .. Len(q) /\ p[i] = q[i]) \/ \E j \in 1 .. Len(o) : p[i] = o[j]
    BY <1>1, <1>11, ConcatAt
  <2> HIDE DEF p
  <2>2. CASE i \in 1 .. Len(q) /\ p[i] = q[i]
    <3>1. /\ q[i].gb <= b.last_gb /\ (b.old # <<>> => q[i].gb <= v)
          /\ IsRegular(q[i]) => q[i].gb < b.last_gb /\ \A j \in 1 .. Len(b.old) : b.old[j].gb = q[i].gb => b.old[j].grp # q[i].grp
      BY <1>1, <2>2 DEF PostedOK
    <3>2. IsRegular(q[i]) => \A j \in 1 .. Len(rest) : rest[j].gb = q[i].gb => rest[j].grp # q[i].grp
      <4> SUFFICES ASSUME IsRegular(q[i]), NEW j \in 1 .. Len(rest), rest[j].gb = q[i].gb PROVE rest[j].grp # q[i].grp
        OBVIOUS
      <4>0. n + j \in 1 .. Len(b.old) /\ b.old[n + j] = rest[j]
        BY <1>3
      <4> QED BY <3>1, <4>0
    <3> QED BY <1>9, <2>2, <3>1, <3>2
  <2>3. ASSUME NEW j \in 1 .. Len(o), p[i] = o[j]
        PROVE  /\ p[i].gb <= u.last_gb /\ (u.old # <<>> => p[i].gb <= u.last_flushed_gb)
               /\ IsRegular(p[i]) =>
                   /\ p[i].gb < u.last_gb
                   /\ \A h \in 1 .. Len(u.old) : u.old[h].gb = p[i].gb => u.old[h].grp # p[i].grp
    <3>0. j \in 1 .. n /\ j \in 1 .. Len(b.old) /\ b.old[j] = gone[j]
      BY <1>3, <1>4
    <3>1. j \in 1 .. n /\ j \in 1 .. Len(b.old) /\ o[j].gb = v /\ v < b.last_gb /\ o[j].grp = b.old[j].grp
      BY <1>4, <1>5, <3>0
    <3>2. \A h \in 1 .. Len(rest) : rest[h].grp # o[j].grp
      <4> SUFFICES ASSUME NEW h \in 1 .. Len(rest), rest[h].grp = o[j].grp PROVE FALSE
        OBVIOUS
      <4>0. n + h \in 1 .. Len(b.old) /\ b.old[n + h] = rest[h]
        BY <1>3
      <4>1. n + h = j
        BY <1>5, <3>1, <4>0
      <4> QED BY <1>3, <3>1, <4>1
    <3> QED BY <1>2, <2>3, <3>1, <3>2
  <2> QED BY <2>1, <2>2, <2>3
<1>14. \A k : Summed(b, k) = Summed(u, k) + InSeq(o, k)
  <2> SUFFICES ASSUME NEW k PROVE Summed(b, k) = Summed(u, k) + InSeq(o, k)
    OBVIOUS
  <2>1. gone \in Seq(Counted) /\ rest \in Seq(Counted)
    BY CountedAll
  <2>2. InSeq(b.old, k) = InSeq(gone, k) + InSeq(rest, k) /\ InSeq(gone, k) \in Nat /\ InSeq(rest, k) \in Nat
    BY <2>1, InSeqConcat, InSeqTotal
  <2>3. /\ Summed(b, k) = InSeq(Iterate(b.table), k) + InSeq(b.old, k)
        /\ Summed(u, k) = InSeq(Iterate(b.table), k) + InSeq(rest, k) /\ InSeq(Iterate(b.table), k) \in Nat
    BY <1>1, SummedIs
  <2> QED BY <1>4, <2>2, <2>3
<1> QED
  BY <1>10, <1>11, <1>12, <1>13, <1>14 DEF Kept, o

(* u is b with the groups gone of the finished epoch posted. *)
OldPosted(b, u, gone, rest) ==
  /\ gone \in Seq(Rows) /\ rest \in Seq(Rows) /\ b.old = gone \o rest
  /\ u \in GroupBysOK /\ u.table = b.table /\ u.last_gb = b.last_gb /\ u.last_flushed_gb = b.last_flushed_gb
  /\ u.old = rest /\ (u.finished => rest = <<>>)
OldKept(b, u, q, gone) ==
  Kept(u, q \o Outputs(gone)) /\ \A k : Summed(b, k) = Summed(u, k) + InSeq(Outputs(gone), k)

LEMMA PostOldBy ==
  ASSUME NEW b, NEW q, Kept(b, q), NEW gone, NEW rest, NEW u, OldPosted(b, u, gone, rest)
  PROVE  OldKept(b, u, q, gone)
<1>1. /\ gone \in Seq(Rows) /\ rest \in Seq(Rows) /\ b.old = gone \o rest
      /\ u \in GroupBysOK /\ u.table = b.table /\ u.last_gb = b.last_gb /\ u.last_flushed_gb = b.last_flushed_gb
      /\ u.old = rest /\ (u.finished => rest = <<>>)
  BY DEF OldPosted
<1>2. /\ Kept(u, q \o Outputs(gone))
      /\ \A k : Summed(b, k) = Summed(u, k) + InSeq(Outputs(gone), k)
  BY <1>1, PostOld, SMTT(30)
<1> QED
  BY <1>2 DEF OldKept

(* What a function on the group-by with q posted returns, d packets of k being new. *)
KeptBy(b, q, r) == Kept(r.op, q \o r.out) /\ r.out \in Seq(StreamTuples)
SummedBy(b, r, k, d) == Summed(b, k) + d = Summed(r.op, k) + InSeq(r.out, k)

LEMMA PostNothing ==
  ASSUME NEW b, NEW q, Kept(b, q)
  PROVE  KeptBy(b, q, [op |-> b, out |-> <<>>]) /\ \A k : SummedBy(b, [op |-> b, out |-> <<>>], k, 0)
<1>1. q \o <<>> = q /\ <<>> \in Seq(StreamTuples)
  BY DEF Kept
<1>2. ASSUME NEW k PROVE Summed(b, k) \in Nat /\ InSeq(<<>>, k) = 0
  BY SummedIs, InSeqEmpty DEF Kept
<1>3. KeptBy(b, q, [op |-> b, out |-> <<>>])
  BY <1>1 DEF KeptBy
<1>4. \A k : SummedBy(b, [op |-> b, out |-> <<>>], k, 0)
  BY <1>2 DEF SummedBy
<1> QED
  BY <1>3, <1>4

LEMMA PartialFlushKeeps ==
  ASSUME NEW b, NEW q, Kept(b, q)
  PROVE  /\ KeptBy(b, q, PartialFlush(b)) /\ \A k : SummedBy(b, PartialFlush(b), k, 0)
         /\ PartialFlush(b).op.last_gb = b.last_gb
<1> DEFINE rest == IF b.old = <<>> THEN <<>> ELSE Tail(b.old)
           gone == IF b.old = <<>> THEN <<>> ELSE <<Head(b.old)>>
           fin  == (rest = <<>>)
           u    == [b EXCEPT !.old = rest, !.finished = fin]
           o    == IF b.old = <<>> THEN <<>> ELSE <<Output(Head(b.old))>>
           r    == PartialFlush(b)
<1>0. b \in GroupBysOK
  BY DEF Kept
<1>1. r = IF b.finished THEN [op |-> b, out |-> <<>>] ELSE [op |-> u, out |-> o]
  BY DEF PartialFlush
<1>2. CASE b.finished
  <2>1. r = [op |-> b, out |-> <<>>]
    BY <1>1, <1>2
  <2>2. KeptBy(b, q, [op |-> b, out |-> <<>>]) /\ \A k : SummedBy(b, [op |-> b, out |-> <<>>], k, 0)
    BY PostNothing
  <2> HIDE DEF r
  <2> QED BY <2>1, <2>2 DEF r
<1>3. CASE ~b.finished
  <2>0. r.op = u /\ r.out = o
    BY <1>1, <1>3
  <2>1. r.op \in GroupBysOK
    BY <1>0, PartialFlushType DEF GroupByResults
  <2>2. b.old \in Seq(Rows) /\ b \in GroupBys
    BY <1>0, GroupByFields
  <2>3. gone \in Seq(Rows) /\ rest \in Seq(Rows)
    BY <2>2
  <2>4. b.old = gone \o rest
    <3>1. CASE b.old = <<>>
      BY <3>1
    <3>2. CASE b.old # <<>>
      <4> DEFINE p == <<Head(b.old)>> \o Tail(b.old)
      <4>1. p \in Seq(Rows) /\ Len(p) = Len(b.old)
        BY <2>2, <3>2
      <4>2. \A i \in 1 .. Len(b.old) : p[i] = b.old[i]
        BY <2>2, <3>2
      <4> HIDE DEF p
      <4>3. p = b.old
        BY <2>2, <4>1, <4>2, SeqEqual
      <4> QED BY <3>2, <4>3 DEF p
    <3> QED BY <3>1, <3>2
  <2>5. o = Outputs(gone)
    <3>1. CASE b.old = <<>>
      <4>1. gone = <<>> /\ o = <<>>
        BY <3>1
      <4>2. Outputs(<<>>) = <<>>
        BY DEF Outputs
      <4> QED BY <4>1, <4>2
    <3>2. CASE b.old # <<>>
      <4> DEFINE h == Head(b.old)
      <4>1. gone = <<h>> /\ o = <<Output(h)>>
        BY <3>2
      <4> HIDE DEF h
      <4>2. Outputs(<<h>>) = <<Output(h)>>
        <5> HIDE DEF Output
        <5> QED BY DEF Outputs
      <4> QED BY <4>1, <4>2
    <3> QED BY <3>1, <3>2
  <2>6. rest \in Seq(Rows) /\ fin \in BOOLEAN /\ (fin => rest = <<>>)
    BY <2>3
  <2> HIDE DEF rest, fin, gone, o
  <2>7. /\ u.table = b.table /\ u.last_gb = b.last_gb /\ u.last_flushed_gb = b.last_flushed_gb /\ u.old = rest
        /\ u.finished = fin
    BY <2>2 DEF GroupBys
  <2> HIDE DEF u, r
  <2>8. /\ Kept(u, q \o Outputs(gone))
        /\ \A k : Summed(b, k) = Summed(u, k) + InSeq(Outputs(gone), k)
    <3>1. OldPosted(b, u, gone, rest)
      BY <2>0, <2>1, <2>3, <2>4, <2>6, <2>7 DEF OldPosted
    <3> QED BY <3>1, PostOldBy DEF OldKept
  <2>9. Outputs(gone) \in Seq(StreamTuples)
    BY <2>3, OutputsAre
  <2>10. KeptBy(b, q, r)
    BY <2>0, <2>5, <2>8, <2>9 DEF KeptBy
  <2>11. \A k : SummedBy(b, r, k, 0)
    <3>1. \A k : Summed(b, k) \in Nat
      BY <1>0, SummedIs
    <3> QED BY <2>0, <2>5, <2>8, <3>1 DEF SummedBy
  <2> QED BY <2>0, <2>7, <2>10, <2>11 DEF r
<1> QED
  BY <1>2, <1>3

(* The epoch changes: what is left of the finished one is posted, the current one is finished. *)
Turn(b, e) == SwapTables(Epoch(b, e))

LEMMA TurnKeeps ==
  ASSUME NEW b, NEW q, Kept(b, q), NEW e \in Gbs, b.last_gb < e
  PROVE  /\ KeptBy(b, q, Turn(b, e)) /\ \A k : SummedBy(b, Turn(b, e), k, 0)
         /\ Turn(b, e).op.last_gb = e
<1> DEFINE v == b.last_gb
           t == Iterate(b.table)
           o == Outputs(b.old)
           c == [b EXCEPT !.last_flushed_gb = v, !.last_gb = e]
           u == [c EXCEPT !.old = t, !.table = {}, !.finished = FALSE]
           m == [b EXCEPT !.old = <<>>, !.finished = TRUE]
           p == q \o o
<1>0. /\ b \in GroupBysOK /\ b \in GroupBys /\ b.last_gb \in Nat /\ e \in Nat /\ b.last_gb # e /\ b.old \in Seq(Rows)
      /\ b.last_gb \in Gbs /\ b.table \subseteq Rows /\ IsFiniteSet(b.table)
  <2>1. b \in GroupBysOK
    BY DEF Kept
  <2>2. e \in Nat
    BY Numbers
  <2> QED BY <2>1, <2>2, GroupNats, GroupByFields
<1>1. Epoch(b, e) = c
  BY <1>0 DEF Epoch
<1>2. c \in GroupBysOK /\ c.table = b.table /\ c.old = b.old /\ c.last_flushed_gb = v /\ c.last_gb = e
  <2>1. c \in GroupBysOK
    BY <1>0, <1>1, EpochType
  <2> QED BY <1>0, <2>1 DEF GroupBys
<1>3. Turn(b, e) = [op |-> u, out |-> o]
  BY <1>1, <1>2 DEF Turn, SwapTables
<1>4. u \in GroupBysOK /\ t \in Seq(Rows)
  <2>1. SwapTables(c) \in GroupByResults
    BY <1>2, SwapTablesType
  <2>2. SwapTables(c).op = u
    BY <1>2 DEF SwapTables
  <2> QED BY <1>0, <2>1, <2>2, IterateIs DEF GroupByResults
<1> HIDE DEF t
<1>5. /\ u.table = {} /\ u.old = t /\ u.last_flushed_gb = v /\ u.last_gb = e /\ u.finished = FALSE
  <2> HIDE DEF c
  <2>1. c \in GroupBys
    BY <1>2, GroupByFields
  <2> QED BY <1>2, <2>1 DEF GroupBys
<1>6. /\ m \in GroupBysOK /\ m.table = b.table /\ m.old = <<>> /\ m.last_gb = b.last_gb
      /\ m.last_flushed_gb = b.last_flushed_gb
  <2>1. /\ m.table = b.table /\ m.old = <<>> /\ m.last_gb = b.last_gb /\ m.last_flushed_gb = b.last_flushed_gb
    BY <1>0 DEF GroupBys
  <2>2. m \in GroupBys
    <3>1. <<>> \in Seq(Rows)
      OBVIOUS
    <3> QED BY <1>0, <3>1 DEF GroupBys
  <2> HIDE DEF m
  <2> QED BY <1>0, <2>1, <2>2 DEF GroupBysOK
<1> HIDE DEF c, u, m
<1>7. /\ Kept(m, p) /\ \A k : Summed(b, k) = Summed(m, k) + InSeq(o, k)
  <2>1. <<>> \in Seq(Rows) /\ b.old = b.old \o <<>>
    BY <1>0
  <2>2. OldPosted(b, m, b.old, <<>>)
    BY <1>0, <1>6, <2>1 DEF OldPosted
  <2>3. OldKept(b, m, q, b.old)
    BY <2>2, PostOldBy
  <2> QED BY <2>3 DEF OldKept
<1>8. o \in Seq(StreamTuples)
  BY <1>0, OutputsAre
<1> HIDE DEF o
<1>9. GroupOK(m) /\ PostedOK(p, m) /\ p \in Seq(AnyTuples) /\ Unique(p) /\ Orderly(p)
  BY <1>7 DEF Kept
<1>10. OneEach(t, v)
  <2>1. \A r \in b.table : r.gb = v
    BY <1>6, <1>9 DEF GroupOK
  <2>2. OneRow(b.table)
    BY <1>6, <1>9 DEF GroupOK, OneRow
  <2> QED BY <1>0, <2>1, <2>2, IterateOneEach DEF t
<1>11. GroupOK(u)
  <2>1. \A i \in 1 .. Len(t) : t[i].gb = v /\ v < e /\ \A j \in 1 .. Len(t) : t[j].grp = t[i].grp => j = i
    BY <1>10 DEF OneEach
  <2>2. v <= e
    BY <1>0
  <2> QED BY <1>5, <2>1, <2>2 DEF GroupOK
<1>12. PostedOK(p, u)
  <2> SUFFICES ASSUME NEW i \in 1 .. Len(p)
               PROVE  /\ p[i].gb <= u.last_gb /\ (u.old # <<>> => p[i].gb <= u.last_flushed_gb)
                      /\ IsRegular(p[i]) =>
                          /\ p[i].gb < u.last_gb
                          /\ \A j \in 1 .. Len(u.old) : u.old[j].gb = p[i].gb => u.old[j].grp # p[i].grp
    BY DEF PostedOK
  <2>1. p[i].gb \in Nat
    <3>1. p[i] \in AnyTuples
      BY <1>9
    <3>2. p[i] \in DataTuples \/ p[i] = Eof
      BY <3>1 DEF AnyTuples
    <3>3. p[i] = Eof => p[i].gb = 0
      BY DEF Eof
    <3> HIDE DEF p
    <3>4. p[i] \in DataTuples => p[i].gb \in Gbs
      BY DataGb
    <3>5. \A x \in Gbs : x \in Nat
      BY Numbers
    <3> QED BY <3>2, <3>3, <3>4, <3>5
  <2>2. p[i].gb <= v /\ (IsRegular(p[i]) => p[i].gb < v)
    BY <1>6, <1>9 DEF PostedOK
  <2>3. \A j \in 1 .. Len(t) : t[j].gb = v
    BY <1>10 DEF OneEach
  <2> HIDE DEF p
  <2> QED BY <1>0, <1>5, <2>1, <2>2, <2>3
<1>13. Kept(u, p)
  BY <1>4, <1>9, <1>11, <1>12 DEF Kept
<1>14. ASSUME NEW k PROVE Summed(b, k) + 0 = Summed(u, k) + InSeq(o, k)
  <2>1. /\ Summed(m, k) = InSeq(t, k) + InSeq(<<>>, k) /\ Summed(b, k) \in Nat
        /\ InSeq(t, k) \in Nat
    BY <1>0, <1>6, SummedIs DEF t
  <2>2. Summed(u, k) = InSeq(<<>>, k) + InSeq(t, k)
    BY <1>4, <1>5, SummedIs, IterateNone
  <2>3. InSeq(<<>>, k) = 0
    BY InSeqEmpty
  <2>4. Summed(b, k) = Summed(m, k) + InSeq(o, k)
    BY <1>7
  <2> QED BY <2>1, <2>2, <2>3, <2>4
<1>15. KeptBy(b, q, Turn(b, e))
  BY <1>3, <1>8, <1>13 DEF KeptBy
<1>16. \A k : SummedBy(b, Turn(b, e), k, 0)
  BY <1>3, <1>14 DEF SummedBy
<1> QED
  BY <1>3, <1>5, <1>15, <1>16

(* A tuple announces what has been flushed. *)
LEMMA GroupStatusKeeps ==
  ASSUME NEW b, NEW q, Kept(b, q)
  PROVE  /\ Kept(b, Append(q, GroupByStatus(b)))
         /\ GroupByStatus(b) \in StreamTuples /\ IsTemp(GroupByStatus(b)) /\ GroupByStatus(b).cnt = 0
<1> DEFINE x == GroupByStatus(b)
           p == Append(q, x)
<1>1. b \in GroupBysOK /\ q \in Seq(AnyTuples) /\ GroupOK(b) /\ PostedOK(q, b) /\ Unique(q) /\ Orderly(q)
  BY DEF Kept
<1>2. b.last_gb \in Nat /\ b.last_flushed_gb \in Nat /\ b.last_gb \in Gbs /\ b.last_flushed_gb \in Gbs
  BY <1>1, GroupNats, GroupByFields
<1>3. /\ x.gb = IF b.finished THEN b.last_gb ELSE b.last_flushed_gb
      /\ x.cnt = 0 /\ IsTemp(x) /\ ~IsRegular(x)
  BY DEF GroupByStatus, IsTemp, IsRegular
<1>4. x \in StreamTuples /\ x \in DataTuples /\ x \in AnyTuples
  <2>1. x \in DataTuples
    BY <1>2, Numbers DEF GroupByStatus, DataTuples
  <2> QED BY <1>3, <2>1 DEF StreamTuples, AnyTuples
<1> HIDE DEF x
<1>5. /\ p \in Seq(AnyTuples) /\ Len(p) = Len(q) + 1 /\ Len(q) \in Nat /\ p[Len(q) + 1] = x
      /\ \A i \in 1 .. Len(q) : p[i] = q[i]
      /\ \A i \in 1 .. Len(p) : i \in 1 .. Len(q) \/ i = Len(q) + 1
  BY <1>1, <1>4
<1> HIDE DEF p
<1>6. \A i \in 1 .. Len(p) : IsRegular(p[i]) => i \in 1 .. Len(q) /\ p[i] = q[i]
  BY <1>3, <1>5
<1>7. Unique(p)
  BY <1>1, <1>6 DEF Unique
<1>8. Orderly(p)
  <2> SUFFICES ASSUME NEW j \in 1 .. Len(p), IsRegular(p[j]), NEW i \in 1 .. j - 1 PROVE p[i].gb <= p[j].gb
    BY DEF Orderly
  <2>1. j \in 1 .. Len(q) /\ p[j] = q[j]
    BY <1>6
  <2>2. i \in 1 .. Len(q)
    BY <1>5, <2>1
  <2>3. p[i] = q[i] /\ p[j] = q[j]
    BY <1>5, <2>1, <2>2
  <2> QED BY <1>1, <2>1, <2>3 DEF Orderly
<1>9. PostedOK(p, b)
  <2> SUFFICES ASSUME NEW i \in 1 .. Len(p)
               PROVE  /\ p[i].gb <= b.last_gb /\ (b.old # <<>> => p[i].gb <= b.last_flushed_gb)
                      /\ IsRegular(p[i]) =>
                          /\ p[i].gb < b.last_gb
                          /\ \A j \in 1 .. Len(b.old) : b.old[j].gb = p[i].gb => b.old[j].grp # p[i].grp
    BY DEF PostedOK
  <2>1. CASE i \in 1 .. Len(q)
    <3>1. p[i] = q[i]
      BY <1>5, <2>1
    <3> QED BY <1>1, <2>1, <3>1 DEF PostedOK
  <2>2. CASE i = Len(q) + 1
    <3>1. p[i] = x
      BY <1>5, <2>2
    <3>2. b.last_flushed_gb <= b.last_gb /\ (b.old # <<>> => ~b.finished)
      BY <1>1 DEF GroupOK
    <3>3. x.gb <= b.last_gb /\ (b.old # <<>> => x.gb <= b.last_flushed_gb)
      BY <1>2, <1>3, <3>2
    <3> QED BY <1>3, <3>1, <3>3
  <2> QED BY <1>5, <2>1, <2>2
<1> QED
  BY <1>1, <1>3, <1>4, <1>5, <1>7, <1>8, <1>9 DEF Kept, p, x

(* The group of a result is found or made. *)
LEMMA CountKeeps ==
  ASSUME NEW b, NEW q, Kept(b, q), NEW tup \in DataTuples, tup.gb = b.last_gb
  PROVE  /\ Kept(Count(b, tup), q) /\ Count(b, tup).last_gb = b.last_gb
         /\ \A k : Summed(b, k) + Share(tup, k) = Summed(Count(b, tup), k)
<1> DEFINE hit == Find(b, tup)
           sum == IF hit = {} THEN tup.cnt ELSE tup.cnt + (CHOOSE r \in hit : TRUE).cnt
           row == [gb |-> tup.gb, grp |-> tup.grp, cnt |-> sum]
           new == (b.table \ hit) \cup {row}
           u   == Count(b, tup)
<1>1. b \in GroupBysOK /\ q \in Seq(AnyTuples) /\ GroupOK(b) /\ PostedOK(q, b) /\ Unique(q) /\ Orderly(q)
  BY DEF Kept
<1>2. b \in GroupBys /\ b.table \subseteq Rows /\ IsFiniteSet(b.table)
  BY <1>1, GroupByFields
<1>3. u = [b EXCEPT !.table = new]
  BY DEF Count
<1>4. u \in GroupBysOK
  BY <1>1, CountType
<1>5. hit = {r \in b.table : r.grp = tup.grp}
  <2>1. \A r \in b.table : r.gb = tup.gb
    BY <1>1 DEF GroupOK
  <2> QED BY <2>1 DEF Find
<1>6. \A r, x \in b.table : x.grp = r.grp => x = r
  BY <1>1 DEF GroupOK
<1>7. row.gb = b.last_gb /\ row.grp = tup.grp /\ row.cnt = sum
  OBVIOUS
<1>8. hit # {} => \E r \in b.table : hit = {r} /\ r.grp = tup.grp /\ r.gb = tup.gb /\ sum = tup.cnt + r.cnt
  <2> SUFFICES ASSUME hit # {} PROVE \E r \in b.table : hit = {r} /\ r.grp = tup.grp /\ r.gb = tup.gb /\ sum = tup.cnt + r.cnt
    OBVIOUS
  <2> HIDE DEF hit
  <2> DEFINE r == CHOOSE x \in hit : TRUE
  <2>1. r \in hit
    BY Zenon
  <2>2. sum = tup.cnt + r.cnt
    OBVIOUS
  <2> HIDE DEF r, sum
  <2>3. hit = {r}
    BY <1>5, <1>6, <2>1
  <2>4. r \in b.table /\ r.grp = tup.grp /\ r.gb = tup.gb
    BY <1>1, <1>5, <2>1 DEF GroupOK
  <2> QED BY <2>2, <2>3, <2>4
<1>9. hit = {} => sum = tup.cnt
  OBVIOUS
<1> HIDE DEF row, sum, hit
<1>10. u.table = new /\ u.old = b.old /\ u.finished = b.finished /\ u.last_gb = b.last_gb /\ u.last_flushed_gb = b.last_flushed_gb
  <2> HIDE DEF new, u
  <2> QED BY <1>2, <1>3 DEF GroupBys
<1> HIDE DEF u
<1>11. \A r \in new : r = row \/ (r \in b.table /\ r.grp # tup.grp)
  BY <1>5
<1>12. row \in new /\ \A r \in b.table : r.grp # tup.grp => r \in new
  BY <1>5
<1> HIDE DEF new
<1>13. (\A r \in new : r.gb = b.last_gb) /\ OneRow(new) /\ OneRow(b.table)
  <2>1. \A r \in new : r.gb = b.last_gb
    BY <1>1, <1>7, <1>11 DEF GroupOK
  <2>2. OneRow(new)
    <3> SUFFICES ASSUME NEW r \in new, NEW x \in new, x.grp = r.grp PROVE x = r
      BY DEF OneRow
    <3> QED BY <1>6, <1>7, <1>11
  <2>3. OneRow(b.table)
    BY <1>6 DEF OneRow
  <2> QED BY <2>1, <2>2, <2>3
<1>14. GroupOK(u)
  <2>1. \A r \in new : r.gb = b.last_gb /\ \A x \in new : x.grp = r.grp => x = r
    BY <1>13 DEF OneRow
  <2> QED BY <1>1, <1>10, <2>1 DEF GroupOK
<1>15. PostedOK(q, u)
  BY <1>1, <1>10 DEF PostedOK
<1>16. new \subseteq Rows /\ IsFiniteSet(new)
  BY <1>4, <1>10, GroupByFields
<1>17. ASSUME NEW k PROVE Summed(b, k) + Share(tup, k) = Summed(u, k)
  <2>1. /\ Summed(b, k) = InSeq(Iterate(b.table), k) + InSeq(b.old, k) /\ InSeq(b.old, k) \in Nat
        /\ Summed(u, k) = InSeq(Iterate(new), k) + InSeq(b.old, k)
        /\ InSeq(Iterate(b.table), k) \in Nat /\ InSeq(Iterate(new), k) \in Nat
    BY <1>1, <1>4, <1>10, SummedIs
  <2>2. /\ \A r \in b.table : r.gb = k[1] /\ r.grp = k[2] => InSeq(Iterate(b.table), k) = r.cnt
        /\ (\A r \in b.table : ~(r.gb = k[1] /\ r.grp = k[2])) => InSeq(Iterate(b.table), k) = 0
    BY <1>2, <1>13, IterateCount
  <2>3. /\ \A r \in new : r.gb = k[1] /\ r.grp = k[2] => InSeq(Iterate(new), k) = r.cnt
        /\ (\A r \in new : ~(r.gb = k[1] /\ r.grp = k[2])) => InSeq(Iterate(new), k) = 0
    BY <1>13, <1>16, IterateCount
  <2>4. tup.cnt \in Nat
    BY DataGb
  <2>5. InSeq(Iterate(b.table), k) + Share(tup, k) = InSeq(Iterate(new), k)
    <3>1. CASE tup.gb = k[1] /\ tup.grp = k[2]
      <4>1. Share(tup, k) = tup.cnt
        BY <3>1 DEF Share
      <4>2. InSeq(Iterate(new), k) = sum
        BY <1>7, <1>12, <2>3, <3>1
      <4>3. CASE hit = {}
        <5>1. \A r \in b.table : ~(r.gb = k[1] /\ r.grp = k[2])
          BY <1>5, <3>1, <4>3
        <5>2. InSeq(Iterate(b.table), k) = 0
          BY <2>2, <5>1
        <5> QED BY <1>9, <2>4, <4>1, <4>2, <4>3, <5>2
      <4>4. CASE hit # {}
        <5>1. PICK r \in b.table : r.grp = tup.grp /\ r.gb = tup.gb /\ sum = tup.cnt + r.cnt
          BY <1>8, <4>4
        <5>2. InSeq(Iterate(b.table), k) = r.cnt
          BY <2>2, <3>1, <5>1
        <5> QED BY <2>1, <2>4, <4>1, <4>2, <5>1, <5>2
      <4> QED BY <4>3, <4>4
    <3>2. CASE ~(tup.gb = k[1] /\ tup.grp = k[2])
      <4>1. Share(tup, k) = 0
        BY <3>2 DEF Share
      <4>2. CASE \E r \in b.table : r.gb = k[1] /\ r.grp = k[2]
        <5>1. PICK r \in b.table : r.gb = k[1] /\ r.grp = k[2]
          BY <4>2
        <5>2. r.gb = tup.gb
          BY <1>1 DEF GroupOK
        <5>3. r \in new
          BY <1>12, <3>2, <5>1, <5>2
        <5> QED BY <2>1, <2>2, <2>3, <4>1, <5>1, <5>3
      <4>3. CASE \A r \in b.table : ~(r.gb = k[1] /\ r.grp = k[2])
        <5>1. \A r \in new : ~(r.gb = k[1] /\ r.grp = k[2])
          BY <1>7, <1>11, <3>2, <4>3
        <5> QED BY <2>2, <2>3, <4>1, <4>3, <5>1
      <4> QED BY <4>2, <4>3
    <3> QED BY <3>1, <3>2
  <2>6. Share(tup, k) \in Nat
    BY ShareType, CountedAll
  <2> QED BY <2>1, <2>5, <2>6
<1> QED
  BY <1>1, <1>4, <1>10, <1>14, <1>15, <1>17 DEF Kept, u

LEMMA ConcatAssoc ==
  ASSUME NEW S, NEW p \in Seq(S), NEW q \in Seq(S), NEW r \in Seq(S)
  PROVE  (p \o q) \o r = p \o (q \o r)
<1> DEFINE u == (p \o q) \o r
           v == p \o (q \o r)
<1>1. u \in Seq(S) /\ v \in Seq(S) /\ Len(u) = Len(v)
  OBVIOUS
<1>2. \A i \in 1 .. Len(u) : u[i] = v[i]
  OBVIOUS
<1> HIDE DEF u, v
<1>3. u = v
  BY <1>1, <1>2, SeqEqual
<1> QED
  BY <1>3 DEF u, v

LEMMA TuplesAssoc ==
  ASSUME NEW p \in Seq(AnyTuples), NEW q \in Seq(AnyTuples), NEW r \in Seq(AnyTuples)
  PROVE  (p \o q) \o r = p \o (q \o r)
  BY ConcatAssoc

LEMMA ConcatAppend ==
  ASSUME NEW S, NEW p \in Seq(S), NEW q \in Seq(S), NEW x \in S
  PROVE  p \o Append(q, x) = Append(p \o q, x)
<1> DEFINE u == p \o Append(q, x)
           v == Append(p \o q, x)
<1>1. u \in Seq(S) /\ v \in Seq(S) /\ Len(u) = Len(v)
  OBVIOUS
<1>2. \A i \in 1 .. Len(u) : u[i] = v[i]
  OBVIOUS
<1> HIDE DEF u, v
<1>3. u = v
  BY <1>1, <1>2, SeqEqual
<1> QED
  BY <1>3 DEF u, v

LEMMA StreamSeqs ==
  /\ Seq(StreamTuples) \subseteq Seq(DataTuples) /\ Seq(StreamTuples) \subseteq Seq(AnyTuples)
  /\ Seq(StreamTuples) \subseteq Seq(Counted)
<1>1. StreamTuples \subseteq DataTuples
  BY DEF StreamTuples
<1>2. Seq(StreamTuples) \subseteq Seq(DataTuples)
  BY <1>1
<1> QED
  BY <1>2, CountedAll

(* One function after the other. *)
LEMMA KeptThen ==
  ASSUME NEW b, NEW q, Kept(b, q), NEW p, NEW s, NEW d,
         KeptBy(b, q, p), \A k : SummedBy(b, p, k, 0),
         KeptBy(p.op, q \o p.out, s), NEW k, SummedBy(p.op, s, k, d), d \in Nat
  PROVE  /\ KeptBy(b, q, [op |-> s.op, out |-> p.out \o s.out])
         /\ SummedBy(b, [op |-> s.op, out |-> p.out \o s.out], k, d)
<1> DEFINE o == p.out \o s.out
           r == [op |-> s.op, out |-> o]
<1>1. /\ p.out \in Seq(StreamTuples) /\ s.out \in Seq(StreamTuples)
      /\ Kept(s.op, (q \o p.out) \o s.out) /\ q \in Seq(AnyTuples)
  BY DEF KeptBy, Kept
<1>2. p.out \in Seq(AnyTuples) /\ s.out \in Seq(AnyTuples) /\ p.out \in Seq(Counted) /\ s.out \in Seq(Counted)
  BY <1>1, StreamSeqs
<1>3. (q \o p.out) \o s.out = q \o o
  <2> DEFINE y == p.out
             z == s.out
  <2>1. y \in Seq(AnyTuples) /\ z \in Seq(AnyTuples)
    BY <1>2
  <2> HIDE DEF y, z
  <2>2. (q \o y) \o z = q \o (y \o z)
    BY <1>1, <2>1, ConcatAssoc
  <2> QED BY <2>2 DEF y, z
<1>4. o \in Seq(StreamTuples)
  BY <1>1
<1>5. InSeq(o, k) = InSeq(p.out, k) + InSeq(s.out, k) /\ InSeq(p.out, k) \in Nat /\ InSeq(s.out, k) \in Nat
  BY <1>2, InSeqConcat, InSeqTotal
<1>6. Summed(b, k) \in Nat /\ Summed(p.op, k) \in Nat /\ Summed(s.op, k) \in Nat
  BY SummedIs DEF KeptBy, Kept
<1>7. Summed(b, k) + 0 = Summed(p.op, k) + InSeq(p.out, k) /\ Summed(p.op, k) + d = Summed(s.op, k) + InSeq(s.out, k)
  BY DEF SummedBy
<1> HIDE DEF o
<1>8. Summed(b, k) + d = Summed(s.op, k) + InSeq(o, k)
  BY <1>5, <1>6, <1>7
<1>9. KeptBy(b, q, r)
  BY <1>1, <1>3, <1>4 DEF KeptBy
<1>10. SummedBy(b, r, k, d)
  BY <1>8 DEF SummedBy
<1> QED
  BY <1>9, <1>10 DEF o

(* What accept_tuple of the group-by does, q being posted. *)
GroupedBy(b, q, tup, a) ==
  /\ KeptBy(b, q, a) /\ a.op.last_gb = tup.gb
  /\ \A k : SummedBy(b, a, k, Share(tup, k))
  /\ IsTemp(tup) => a.out # <<>> /\ IsTemp(a.out[Len(a.out)])

LEMMA GroupByAcceptKeeps ==
  ASSUME NEW b, NEW q, Kept(b, q), NEW tup \in StreamTuples, b.last_gb <= tup.gb
  PROVE  GroupedBy(b, q, tup, GroupByAccept(b, tup))
<1> DEFINE p == PartialFlush(b)
           c == Epoch(p.op, tup.gb)
           s == IF tup.gb # b.last_gb /\ Find(c, tup) = {} THEN SwapTables(c) ELSE [op |-> c, out |-> <<>>]
           f == [op |-> s.op, out |-> p.out \o s.out]
           x == GroupByStatus(s.op)
           a == GroupByAccept(b, tup)
<1>1. a = IF IsTemp(tup) THEN [op |-> s.op, out |-> p.out \o Append(s.out, x)]
          ELSE [op |-> Count(s.op, tup), out |-> p.out \o s.out]
  BY DEF GroupByAccept, IsTemp
<1> HIDE DEF a, x
<1>2. tup \in DataTuples /\ tup.gb \in Nat /\ tup.gb \in Gbs /\ b.last_gb \in Nat
  <2>1. b \in GroupBysOK
    BY DEF Kept
  <2> QED BY <2>1, ThroughIs, DataGb, GroupNats
<1>3. KeptBy(b, q, p) /\ (\A k : SummedBy(b, p, k, 0)) /\ p.op.last_gb = b.last_gb
  BY PartialFlushKeeps
<1> HIDE DEF p
<1>4. Kept(p.op, q \o p.out) /\ p.out \in Seq(StreamTuples)
  BY <1>3 DEF KeptBy
<1>5. KeptBy(p.op, q \o p.out, s) /\ (\A k : SummedBy(p.op, s, k, 0)) /\ s.op.last_gb = tup.gb
  <2>1. CASE tup.gb = b.last_gb
    <3>1. c = p.op
      BY <1>3, <2>1 DEF Epoch
    <3>2. s = [op |-> p.op, out |-> <<>>]
      BY <2>1, <3>1
    <3>3. KeptBy(p.op, q \o p.out, [op |-> p.op, out |-> <<>>]) /\ \A k : SummedBy(p.op, [op |-> p.op, out |-> <<>>], k, 0)
      BY <1>4, PostNothing
    <3> HIDE DEF s
    <3>4. s.op.last_gb = tup.gb
      BY <1>3, <2>1, <3>2
    <3> QED BY <3>2, <3>3, <3>4
  <2>2. CASE tup.gb # b.last_gb
    <3>1. p.op.last_gb < tup.gb
      BY <1>2, <1>3, <2>2
    <3>2. c.table = p.op.table
      <4>1. p.op \in GroupBys
        BY <1>4, GroupByFields DEF Kept
      <4> QED BY <4>1 DEF Epoch, GroupBys
    <3>3. \A r \in p.op.table : r.gb = b.last_gb
      BY <1>3, <1>4 DEF Kept, GroupOK
    <3>4. Find(c, tup) = {}
      BY <2>2, <3>2, <3>3 DEF Find
    <3>5. s = Turn(p.op, tup.gb)
      BY <2>2, <3>4 DEF Turn
    <3> HIDE DEF s
    <3>6. /\ KeptBy(p.op, q \o p.out, Turn(p.op, tup.gb)) /\ \A k : SummedBy(p.op, Turn(p.op, tup.gb), k, 0)
          /\ Turn(p.op, tup.gb).op.last_gb = tup.gb
      BY <1>2, <1>4, <3>1, TurnKeeps
    <3> QED BY <3>5, <3>6
  <2> QED BY <2>1, <2>2
<1> HIDE DEF s, c
<1>6. KeptBy(b, q, f) /\ \A k : SummedBy(b, f, k, 0)
  <2>1. ASSUME NEW k PROVE KeptBy(b, q, f) /\ SummedBy(b, f, k, 0)
    BY <1>3, <1>5, KeptThen
  <2> QED BY <2>1
<1>7. s.out \in Seq(StreamTuples) /\ p.out \o s.out \in Seq(StreamTuples)
  BY <1>4, <1>5 DEF KeptBy
<1> DEFINE o == p.out \o s.out
<1>8. /\ Kept(s.op, q \o o) /\ o \in Seq(StreamTuples) /\ o \in Seq(AnyTuples) /\ o \in Seq(Counted) /\ q \in Seq(AnyTuples)
      /\ \A k : Summed(b, k) + 0 = Summed(s.op, k) + InSeq(o, k)
  BY <1>6, <1>7, StreamSeqs DEF KeptBy, SummedBy, Kept
<1>9. \A k : Summed(b, k) \in Nat /\ Summed(s.op, k) \in Nat /\ InSeq(o, k) \in Nat
  BY <1>8, SummedIs, InSeqTotal DEF Kept
<1>10. CASE IsTemp(tup)
  <2> DEFINE w == p.out \o Append(s.out, x)
  <2>1. a.op = s.op /\ a.out = w
    BY <1>1, <1>10
  <2>2. Kept(s.op, Append(q \o o, x)) /\ x \in StreamTuples /\ IsTemp(x) /\ x.cnt = 0
    BY <1>8, GroupStatusKeeps DEF x
  <2>3. w = Append(o, x) /\ Append(s.out, x) \in Seq(StreamTuples)
    <3> DEFINE y == p.out
               z == s.out
    <3>1. y \in Seq(StreamTuples) /\ z \in Seq(StreamTuples)
      BY <1>4, <1>7
    <3> HIDE DEF y, z
    <3>2. y \o Append(z, x) = Append(y \o z, x) /\ Append(z, x) \in Seq(StreamTuples)
      BY <2>2, <3>1, ConcatAppend
    <3> QED BY <3>2 DEF y, z
  <2> HIDE DEF w, o
  <2>4. w \in Seq(StreamTuples) /\ w # <<>> /\ w[Len(w)] = x
    BY <1>8, <2>2, <2>3
  <2>5. q \o w = Append(q \o o, x)
    <3>1. x \in AnyTuples
      BY <2>2 DEF StreamTuples, AnyTuples
    <3> QED BY <1>8, <2>3, <3>1, ConcatAppend
  <2>6. ASSUME NEW k PROVE SummedBy(b, a, k, Share(tup, k))
    <3>1. InSeq(w, k) = InSeq(o, k) + Share(x, k)
      <4>1. x \in Counted
        BY <2>2, CountedAll DEF StreamTuples
      <4> QED BY <1>8, <2>3, <4>1, InSeqAppend
    <3>2. Share(x, k) = 0
      BY <2>2 DEF Share
    <3>3. Share(tup, k) = 0
      <4>1. tup.cnt = 0
        BY <1>10, ThroughIs DEF StreamTuples
      <4> QED BY <4>1 DEF Share
    <3>4. Summed(b, k) + 0 = Summed(s.op, k) + InSeq(w, k)
      BY <1>8, <1>9, <3>1, <3>2
    <3> QED BY <2>1, <3>3, <3>4 DEF SummedBy
  <2>7. KeptBy(b, q, a)
    BY <2>1, <2>2, <2>4, <2>5 DEF KeptBy
  <2> QED BY <1>5, <2>1, <2>2, <2>4, <2>6, <2>7 DEF GroupedBy, a
<1>11. CASE ~IsTemp(tup)
  <2>1. a.op = Count(s.op, tup) /\ a.out = o
    BY <1>1, <1>11
  <2> HIDE DEF o
  <2>2. /\ Kept(Count(s.op, tup), q \o o) /\ Count(s.op, tup).last_gb = tup.gb
        /\ \A k : Summed(s.op, k) + Share(tup, k) = Summed(Count(s.op, tup), k)
    BY <1>2, <1>5, <1>8, CountKeeps
  <2>3. KeptBy(b, q, a)
    BY <1>8, <2>1, <2>2 DEF KeptBy
  <2>4. ASSUME NEW k PROVE SummedBy(b, a, k, Share(tup, k))
    <3>1. Share(tup, k) \in Nat
      BY <1>2, ShareType, CountedAll
    <3>2. /\ Summed(b, k) + 0 = Summed(s.op, k) + InSeq(o, k)
          /\ Summed(s.op, k) + Share(tup, k) = Summed(Count(s.op, tup), k)
      BY <1>8, <2>2
    <3>3. Summed(b, k) + Share(tup, k) = Summed(Count(s.op, tup), k) + InSeq(o, k)
      BY <1>9, <3>1, <3>2
    <3> QED BY <2>1, <3>3 DEF SummedBy
  <2> QED BY <1>11, <2>1, <2>2, <2>3, <2>4 DEF GroupedBy, a
<1> QED
  BY <1>10, <1>11


(* The group-by after the first n tuples. *)
GroupedUpTo(b, q, tuples, n, x) ==
  /\ KeptBy(b, q, x) /\ x.op.last_gb = (IF n = 0 THEN b.last_gb ELSE tuples[n].gb)
  /\ \A k : SummedBy(b, x, k, Total(Shares(tuples, k), n))
  /\ n # 0 /\ IsTemp(tuples[n]) => x.out # <<>> /\ IsTemp(x.out[Len(x.out)])

LEMMA GroupByStepKeeps ==
  ASSUME NEW b, NEW q, Kept(b, q), NEW tuples \in Seq(StreamTuples), Sorted(tuples),
         \A i \in 1 .. Len(tuples) : b.last_gb <= tuples[i].gb,
         NEW n \in 1 .. Len(tuples), NEW x, GroupedUpTo(b, q, tuples, n - 1, x)
  PROVE  GroupedUpTo(b, q, tuples, n, GroupByStep(x, tuples[n]))
<1> DEFINE tup == tuples[n]
           a   == GroupByAccept(x.op, tup)
           o   == x.out \o a.out
           y   == [op |-> a.op, out |-> o]
<1>1. GroupByStep(x, tup) = y
  BY DEF GroupByStep
<1>2. tup \in StreamTuples /\ Len(tuples) \in Nat
  OBVIOUS
<1>3. /\ Kept(x.op, q \o x.out) /\ x.out \in Seq(StreamTuples)
      /\ x.op.last_gb = (IF n - 1 = 0 THEN b.last_gb ELSE tuples[n - 1].gb)
  BY DEF GroupedUpTo, KeptBy
<1>4. x.op.last_gb <= tup.gb
  <2>1. n - 1 # 0 => n - 1 \in 1 .. n
    OBVIOUS
  <2>2. n - 1 # 0 => tuples[n - 1].gb <= tup.gb
    BY <2>1 DEF Sorted
  <2> QED BY <1>3, <2>2
<1>5. GroupedBy(x.op, q \o x.out, tup, a)
  BY <1>2, <1>3, <1>4, GroupByAcceptKeeps
<1> HIDE DEF a
<1>6. /\ KeptBy(x.op, q \o x.out, a) /\ a.op.last_gb = tup.gb
      /\ \A k : SummedBy(x.op, a, k, Share(tup, k))
      /\ IsTemp(tup) => a.out # <<>> /\ IsTemp(a.out[Len(a.out)])
  BY <1>5 DEF GroupedBy
<1>7. Kept(a.op, (q \o x.out) \o a.out) /\ a.out \in Seq(StreamTuples) /\ q \in Seq(AnyTuples)
  BY <1>6 DEF KeptBy, Kept
<1>8. (q \o x.out) \o a.out = q \o o
  <2> DEFINE u == x.out
             v == a.out
  <2>1. u \in Seq(AnyTuples) /\ v \in Seq(AnyTuples)
    BY <1>3, <1>7, StreamSeqs
  <2> HIDE DEF u, v
  <2>2. q \in Seq(AnyTuples)
    BY <1>7
  <2>3. (q \o u) \o v = q \o (u \o v)
    BY <2>1, <2>2, TuplesAssoc
  <2> QED BY <2>3 DEF u, v
<1>9. o \in Seq(StreamTuples)
  BY <1>3, <1>7
<1>10. KeptBy(b, q, y)
  BY <1>7, <1>8, <1>9 DEF KeptBy
<1>11. ASSUME NEW k PROVE SummedBy(b, y, k, Total(Shares(tuples, k), n))
  <2> DEFINE w == Shares(tuples, k)
             m == n - 1
  <2>1. m \in Nat /\ m + 1 = n
    OBVIOUS
  <2>2. \A i \in 1 .. Len(tuples) : w[i] = Share(tuples[i], k) /\ w[i] \in Nat
    <3>1. tuples \in Seq(Counted)
      BY StreamSeqs
    <3> QED BY <3>1, InSeqTotal
  <2>3. w[n] = Share(tup, k) /\ \A i \in 1 .. n : w[i] \in Nat
    BY <1>2, <2>2
  <2> HIDE DEF w, m
  <2>4. Total(w, n) = Total(w, m) + Share(tup, k) /\ Total(w, m) \in Nat /\ Share(tup, k) \in Nat
    <3>1. \A i \in 1 .. m + 1 : w[i] \in Nat
      BY <2>1, <2>3
    <3>2. Total(w, m + 1) = Total(w, m) + w[m + 1]
      BY <2>1, <3>1, TotalNext
    <3>3. \A i \in 1 .. m : w[i] \in Nat
      BY <2>1, <3>1
    <3>4. Total(w, m) \in Nat
      BY <2>1, <3>3, TotalType
    <3>5. n \in 1 .. n
      BY <1>2
    <3> QED BY <2>1, <2>3, <3>2, <3>4, <3>5
  <2>5. /\ Summed(b, k) + Total(w, m) = Summed(x.op, k) + InSeq(x.out, k)
        /\ Summed(x.op, k) + Share(tup, k) = Summed(a.op, k) + InSeq(a.out, k)
    BY <1>6 DEF GroupedUpTo, SummedBy, w, m
  <2>6. InSeq(o, k) = InSeq(x.out, k) + InSeq(a.out, k) /\ InSeq(x.out, k) \in Nat /\ InSeq(a.out, k) \in Nat
    <3>1. x.out \in Seq(Counted) /\ a.out \in Seq(Counted)
      BY <1>3, <1>7, StreamSeqs
    <3> QED BY <3>1, InSeqConcat, InSeqTotal
  <2>7. Summed(b, k) \in Nat /\ Summed(x.op, k) \in Nat /\ Summed(a.op, k) \in Nat
    BY <1>3, <1>7, SummedIs DEF Kept
  <2> HIDE DEF o, tup
  <2>8. Summed(b, k) + Total(w, n) = Summed(a.op, k) + InSeq(o, k)
    <3> DEFINE S == Summed(b, k)
               T == Total(w, m)
               U == Summed(x.op, k)
               V == InSeq(x.out, k)
               W == Summed(a.op, k)
               C == InSeq(a.out, k)
               D == Share(tup, k)
    <3>1. /\ S \in Nat /\ T \in Nat /\ U \in Nat /\ V \in Nat /\ W \in Nat /\ C \in Nat /\ D \in Nat
          /\ S + T = U + V /\ U + D = W + C
      BY <2>4, <2>5, <2>6, <2>7
    <3>2. Total(w, n) = T + D /\ InSeq(o, k) = V + C
      BY <2>4, <2>6
    <3> HIDE DEF S, T, U, V, W, C, D
    <3>3. S + (T + D) = W + (V + C)
      BY <3>1
    <3> QED BY <3>2, <3>3 DEF S, W
  <2> QED BY <2>8 DEF SummedBy, w
<1>12. IsTemp(tup) => o # <<>> /\ IsTemp(o[Len(o)])
  <2> SUFFICES ASSUME IsTemp(tup) PROVE o # <<>> /\ o[Len(o)] = a.out[Len(a.out)]
    BY <1>6
  <2> DEFINE u == x.out
             v == a.out
  <2>1. u \in Seq(StreamTuples) /\ v \in Seq(StreamTuples) /\ v # <<>>
    BY <1>3, <1>6, <1>7
  <2> HIDE DEF u, v
  <2>2. u \o v # <<>> /\ (u \o v)[Len(u \o v)] = v[Len(v)]
    BY <2>1
  <2> QED BY <2>2 DEF u, v
<1>13. n # 0
  OBVIOUS
<1>14. y.op.last_gb = tup.gb /\ y.out = o
  BY <1>6
<1> HIDE DEF y, tup, o
<1>15. GroupedUpTo(b, q, tuples, n, y)
  BY <1>10, <1>11, <1>12, <1>13, <1>14 DEF GroupedUpTo, tup
<1> QED
  BY <1>1, <1>15 DEF tup

LEMMA GroupByAllKeeps ==
  ASSUME NEW b, NEW q, Kept(b, q), NEW tuples \in Seq(StreamTuples), Sorted(tuples),
         \A i \in 1 .. Len(tuples) : b.last_gb <= tuples[i].gb
  PROVE  /\ GroupedUpTo(b, q, tuples, Len(tuples), GroupByAll(b, tuples))
         /\ \A k : SummedBy(b, GroupByAll(b, tuples), k, InSeq(tuples, k))
<1> DEFINE l == Len(tuples)
<1>1. b \in GroupBysOK /\ tuples \in Seq(DataTuples) /\ tuples \in Seq(Counted) /\ l \in Nat
  BY StreamSeqs DEF Kept
<1>2. PICK r : GroupByAll(b, tuples) = r[Len(tuples)] /\ GroupedAt(b, tuples, r)
  BY <1>1, GroupByAllSolves, Zenon
<1>3. r[0] = [op |-> b, out |-> <<>>] /\ \A i \in 1 .. l : r[i] = GroupByStep(r[i - 1], tuples[i])
  BY <1>2 DEF GroupedAt
<1> DEFINE G == {i \in 0 .. l : GroupedUpTo(b, q, tuples, i, r[i])}
<1>4. 0 \in G
  <2> DEFINE x == [op |-> b, out |-> <<>>]
  <2>1. KeptBy(b, q, x) /\ \A k : SummedBy(b, x, k, 0)
    BY PostNothing
  <2>2. \A k : Total(Shares(tuples, k), 0) = 0
    BY TotalZero
  <2>3. x.op.last_gb = b.last_gb
    OBVIOUS
  <2> HIDE DEF x
  <2>4. GroupedUpTo(b, q, tuples, 0, x)
    BY <2>1, <2>2, <2>3 DEF GroupedUpTo
  <2> QED BY <1>1, <1>3, <2>4 DEF x
<1>5. ASSUME NEW i \in 1 .. l, i - 1 \in G PROVE i \in G
  <2>1. GroupedUpTo(b, q, tuples, i - 1, r[i - 1])
    BY <1>5
  <2>2. GroupedUpTo(b, q, tuples, i, GroupByStep(r[i - 1], tuples[i]))
    BY <2>1, GroupByStepKeeps
  <2>3. i \in 0 .. l
    BY <1>1
  <2> QED BY <1>3, <2>2, <2>3
<1>6. \A i \in 0 .. l : i \in G
  <2> HIDE DEF G
  <2> QED BY <1>1, <1>4, <1>5, UpTo
<1>7. GroupedUpTo(b, q, tuples, l, GroupByAll(b, tuples))
  <2>1. l \in 0 .. l
    BY <1>1
  <2>2. l \in G
    BY <1>6, <2>1
  <2> QED BY <1>2, <2>2
<1>8. \A k : InSeq(tuples, k) = Total(Shares(tuples, k), l)
  BY <1>1, InSeqTotal
<1>9. \A k : SummedBy(b, GroupByAll(b, tuples), k, InSeq(tuples, k))
  BY <1>7, <1>8 DEF GroupedUpTo
<1> QED
  BY <1>7, <1>9

-----------------------------------------------------------------------------
(* Temporal tuples that are left out. *)

(* p is r without some of its elements: f says where the others were. *)
SubsOf(p, r, f) ==
  /\ \A i \in 1 .. Len(p) : f[i] \in 1 .. Len(r) /\ p[i] = r[f[i]]
  /\ \A i, j \in 1 .. Len(p) : i < j => f[i] < f[j]
IsPart(p, r) == \E f : SubsOf(p, r, f)

LEMMA PartKept ==
  ASSUME NEW b, NEW r, NEW p \in Seq(AnyTuples), Kept(b, r), IsPart(p, r)
  PROVE  Kept(b, p)
<1>1. PICK f : SubsOf(p, r, f)
  BY Zenon DEF IsPart
<1>2. /\ \A i \in 1 .. Len(p) : f[i] \in 1 .. Len(r) /\ p[i] = r[f[i]]
      /\ \A i, j \in 1 .. Len(p) : i < j => f[i] < f[j]
      /\ Len(p) \in Nat
  BY <1>1 DEF SubsOf
<1>3. b \in GroupBysOK /\ r \in Seq(AnyTuples) /\ GroupOK(b) /\ PostedOK(r, b) /\ Unique(r) /\ Orderly(r) /\ Len(r) \in Nat
  BY DEF Kept
<1>4. PostedOK(p, b)
  BY <1>2, <1>3 DEF PostedOK
<1>5. Unique(p)
  <2> SUFFICES ASSUME NEW i \in 1 .. Len(p), NEW j \in 1 .. Len(p),
                      IsRegular(p[i]), IsRegular(p[j]), p[i].gb = p[j].gb, p[i].grp = p[j].grp
               PROVE  i = j
    BY DEF Unique
  <2>0. f[i] \in 1 .. Len(r) /\ f[j] \in 1 .. Len(r) /\ p[i] = r[f[i]] /\ p[j] = r[f[j]]
    BY <1>2
  <2>1. f[i] = f[j] /\ f[i] \in 1 .. Len(r)
    BY <1>3, <2>0 DEF Unique
  <2>2. f[i] \in Int /\ ~(f[i] < f[i])
    BY <1>3, <2>1
  <2>3. ~(i < j) /\ ~(j < i)
    BY <1>2, <2>1, <2>2
  <2> QED BY <1>2, <2>3
<1>6. Orderly(p)
  <2> SUFFICES ASSUME NEW j \in 1 .. Len(p), IsRegular(p[j]), NEW i \in 1 .. j - 1 PROVE p[i].gb <= p[j].gb
    BY DEF Orderly
  <2>1. i \in 1 .. Len(p) /\ i < j
    BY <1>2
  <2>2. f[i] < f[j] /\ f[i] \in 1 .. Len(r) /\ f[j] \in 1 .. Len(r) /\ p[i] = r[f[i]] /\ p[j] = r[f[j]]
    BY <1>2, <2>1
  <2>3. f[i] \in 1 .. f[j] - 1
    BY <1>3, <2>2
  <2> QED BY <1>3, <2>2, <2>3 DEF Orderly
<1> QED
  BY <1>3, <1>4, <1>5, <1>6 DEF Kept

LEMMA PartAfter ==
  ASSUME NEW S, NEW q \in Seq(S), NEW p \in Seq(S), NEW r \in Seq(S), IsPart(p, r)
  PROVE  IsPart(q \o p, q \o r)
<1>1. PICK f : SubsOf(p, r, f)
  BY Zenon DEF IsPart
<1> DEFINE n == Len(q)
           u == q \o p
           v == q \o r
           h == [i \in 1 .. Len(u) |-> IF i <= n THEN i ELSE n + f[i - n]]
<1>2. /\ \A i \in 1 .. Len(p) : f[i] \in 1 .. Len(r) /\ p[i] = r[f[i]]
      /\ \A i, j \in 1 .. Len(p) : i < j => f[i] < f[j]
      /\ Len(p) \in Nat /\ Len(r) \in Nat /\ n \in Nat
  BY <1>1 DEF SubsOf
<1>3. /\ Len(u) = n + Len(p) /\ Len(v) = n + Len(r)
      /\ \A i \in 1 .. n : u[i] = q[i] /\ v[i] = q[i]
      /\ \A i \in 1 .. Len(p) : u[n + i] = p[i]
      /\ \A i \in 1 .. Len(r) : v[n + i] = r[i]
  OBVIOUS
<1> HIDE DEF u, v, n
<1>4. \A i \in 1 .. Len(u) : h[i] = IF i <= n THEN i ELSE n + f[i - n]
  OBVIOUS
<1> HIDE DEF h
<1>5. ASSUME NEW i \in 1 .. Len(u), ~(i <= n)
      PROVE  i - n \in 1 .. Len(p) /\ n + (i - n) = i /\ f[i - n] \in 1 .. Len(r)
  BY <1>2, <1>3, <1>5
<1>6. ASSUME NEW i \in 1 .. Len(u) PROVE h[i] \in 1 .. Len(v) /\ u[i] = v[h[i]]
  <2>1. CASE i <= n
    <3>1. h[i] = i /\ i \in 1 .. n
      BY <1>2, <1>4, <2>1
    <3> QED BY <1>2, <1>3, <3>1
  <2>2. CASE ~(i <= n)
    <3> DEFINE a == i - n
    <3>1. h[i] = n + f[a] /\ a \in 1 .. Len(p) /\ n + a = i /\ f[a] \in 1 .. Len(r)
      BY <1>4, <1>5, <2>2
    <3> HIDE DEF a
    <3>2. u[n + a] = p[a] /\ v[n + f[a]] = r[f[a]] /\ p[a] = r[f[a]]
      BY <1>2, <1>3, <3>1
    <3>3. h[i] \in 1 .. Len(v)
      BY <1>2, <1>3, <3>1
    <3> QED BY <3>1, <3>2, <3>3
  <2> QED BY <2>1, <2>2
<1>7. ASSUME NEW i \in 1 .. Len(u), NEW j \in 1 .. Len(u), i < j PROVE h[i] < h[j]
  <2>1. CASE j <= n
    <3>0. i <= n
      BY <1>2, <1>3, <1>7, <2>1
    <3>1. h[i] = i /\ h[j] = j
      BY <1>4, <2>1, <3>0
    <3> QED BY <1>7, <3>1
  <2>2. CASE i <= n /\ ~(j <= n)
    <3>1. h[i] = i /\ h[j] = n + f[j - n] /\ f[j - n] \in 1 .. Len(r)
      BY <1>4, <1>5, <2>2
    <3> QED BY <1>2, <2>2, <3>1
  <2>3. CASE ~(i <= n) /\ ~(j <= n)
    <3> DEFINE a == i - n
               c == j - n
    <3>1. /\ h[i] = n + f[a] /\ a \in 1 .. Len(p) /\ f[a] \in 1 .. Len(r)
          /\ h[j] = n + f[c] /\ c \in 1 .. Len(p) /\ f[c] \in 1 .. Len(r)
      BY <1>4, <1>5, <2>3
    <3>2. a < c
      BY <1>2, <1>3, <1>7
    <3> HIDE DEF a, c
    <3>3. f[a] < f[c]
      BY <1>2, <3>1, <3>2
    <3> QED BY <1>2, <3>1, <3>3
  <2>4. j <= n \/ (i <= n /\ ~(j <= n)) \/ (~(i <= n) /\ ~(j <= n))
    BY <1>2, <1>3, <1>7
  <2> QED BY <2>1, <2>2, <2>3, <2>4
<1>8. SubsOf(u, v, h)
  BY <1>6, <1>7 DEF SubsOf
<1> QED
  BY <1>8, Zenon DEF IsPart, u, v

(* One element more, behind the others. *)
LEMMA PartAppend ==
  ASSUME NEW S, NEW p \in Seq(S), NEW r \in Seq(S), NEW f, SubsOf(p, r, f), NEW n \in 1 .. Len(r),
         \A i \in 1 .. Len(p) : f[i] <= n - 1
  PROVE  \E h : SubsOf(Append(p, r[n]), r, h) /\ \A i \in 1 .. Len(Append(p, r[n])) : h[i] <= n
<1> DEFINE l == Len(p)
           u == Append(p, r[n])
           h == [i \in 1 .. l + 1 |-> IF i <= l THEN f[i] ELSE n]
<1>1. /\ \A i \in 1 .. l : f[i] \in 1 .. Len(r) /\ p[i] = r[f[i]]
      /\ \A i, j \in 1 .. l : i < j => f[i] < f[j]
      /\ l \in Nat /\ Len(r) \in Nat
  BY DEF SubsOf
<1>2. /\ Len(u) = l + 1 /\ u[l + 1] = r[n] /\ \A i \in 1 .. l : u[i] = p[i]
  OBVIOUS
<1>3. (\A i \in 1 .. l : h[i] = f[i]) /\ h[l + 1] = n
  BY <1>1
<1> HIDE DEF u, h
<1>4. \A i \in 1 .. Len(u) : i \in 1 .. l \/ i = l + 1
  BY <1>1, <1>2
<1> HIDE DEF l
<1>5. \A i \in 1 .. Len(u) : h[i] \in 1 .. Len(r) /\ u[i] = r[h[i]] /\ h[i] <= n
  <2> SUFFICES ASSUME NEW i \in 1 .. Len(u) PROVE h[i] \in 1 .. Len(r) /\ u[i] = r[h[i]] /\ h[i] <= n
    OBVIOUS
  <2>1. CASE i \in 1 .. l
    <3>1. h[i] = f[i] /\ u[i] = p[i] /\ f[i] \in 1 .. Len(r) /\ p[i] = r[f[i]] /\ f[i] <= n - 1
      BY <1>1, <1>2, <1>3, <2>1 DEF l
    <3>2. f[i] <= n
      BY <3>1
    <3> QED BY <3>1, <3>2
  <2>2. CASE i = l + 1
    BY <1>1, <1>2, <1>3, <2>2
  <2> QED BY <1>4, <2>1, <2>2
<1>6. ASSUME NEW i \in 1 .. Len(u), NEW j \in 1 .. Len(u), i < j PROVE h[i] < h[j]
  <2>1. i \in 1 .. l
    BY <1>1, <1>2, <1>6
  <2>2. h[i] = f[i] /\ f[i] \in 1 .. Len(r) /\ f[i] <= n - 1
    BY <1>1, <1>3, <2>1 DEF l
  <2>3. CASE j \in 1 .. l
    BY <1>1, <1>3, <1>6, <2>1, <2>3
  <2>4. CASE j = l + 1
    BY <1>3, <2>2, <2>4
  <2> QED BY <1>4, <2>3, <2>4
<1>7. SubsOf(u, r, h)
  BY <1>5, <1>6 DEF SubsOf
<1> QED
  BY <1>5, <1>7 DEF u

(* x is what is left of the first n tuples. *)
Sifted(result, n, x) ==
  /\ x \in Seq(StreamTuples)
  /\ \E f : SubsOf(x, result, f) /\ \A i \in 1 .. Len(x) : f[i] <= n
  /\ \A k : InSeq(x, k) = Total(Shares(result, k), n)

LEMMA TempShare ==
  ASSUME NEW tup \in StreamTuples, IsTemp(tup), NEW k
  PROVE  Share(tup, k) = 0
<1>1. tup.cnt = 0
  BY ThroughIs DEF StreamTuples
<1> QED
  BY <1>1 DEF Share

LEMMA SiftStep ==
  ASSUME NEW result \in Seq(StreamTuples), NEW n \in 1 .. Len(result), NEW x, Sifted(result, n - 1, x)
  PROVE  Sifted(result, n, WithoutStep(x, result[n]))
<1> DEFINE tup == result[n]
<1>0. tup \in StreamTuples /\ n \in Nat /\ Len(result) \in Nat
  OBVIOUS
<1>1. PICK f : SubsOf(x, result, f) /\ \A i \in 1 .. Len(x) : f[i] <= n - 1
  BY Zenon DEF Sifted
<1>2. x \in Seq(StreamTuples) /\ (\A k : InSeq(x, k) = Total(Shares(result, k), n - 1))
  BY DEF Sifted
<1>3. ASSUME NEW k PROVE /\ Total(Shares(result, k), n) = InSeq(x, k) + Share(tup, k)
                         /\ InSeq(x, k) \in Nat /\ Share(tup, k) \in Nat
  <2> DEFINE w == Shares(result, k)
             m == n - 1
  <2>1. m \in Nat /\ m + 1 = n
    OBVIOUS
  <2>2. \A i \in 1 .. Len(result) : w[i] = Share(result[i], k) /\ w[i] \in Nat
    <3>1. result \in Seq(Counted)
      BY StreamSeqs
    <3> QED BY <3>1, InSeqTotal
  <2>3. w[n] = Share(tup, k) /\ w[n] \in Nat /\ \A i \in 1 .. n : w[i] \in Nat
    BY <1>0, <2>2
  <2> HIDE DEF w, m
  <2>4. \A i \in 1 .. m + 1 : w[i] \in Nat
    BY <2>1, <2>3
  <2>5. Total(w, m + 1) = Total(w, m) + w[m + 1]
    BY <2>1, <2>4, TotalNext
  <2>6. InSeq(x, k) = Total(w, m)
    BY <1>2 DEF w, m
  <2>7. InSeq(x, k) \in Nat
    BY <1>2, StreamSeqs, InSeqTotal
  <2> QED BY <2>1, <2>3, <2>5, <2>6, <2>7 DEF w
<1>4. CASE IsTemp(tup)
  <2>1. WithoutStep(x, tup) = x
    BY <1>4 DEF WithoutStep
  <2>2. \A k : Share(tup, k) = 0
    BY <1>0, <1>4, TempShare
  <2>3. \A i \in 1 .. Len(x) : f[i] <= n
    <3> SUFFICES ASSUME NEW i \in 1 .. Len(x) PROVE f[i] <= n
      OBVIOUS
    <3>1. f[i] \in 1 .. Len(result) /\ f[i] <= n - 1
      BY <1>1 DEF SubsOf
    <3> QED BY <1>0, <3>1
  <2>4. \E h : SubsOf(x, result, h) /\ \A i \in 1 .. Len(x) : h[i] <= n
    BY <1>1, <2>3, Zenon
  <2>5. \A k : InSeq(x, k) = Total(Shares(result, k), n)
    BY <1>3, <2>2
  <2> QED BY <1>2, <2>1, <2>4, <2>5 DEF Sifted
<1>5. CASE ~IsTemp(tup)
  <2>1. WithoutStep(x, tup) = Append(x, tup)
    BY <1>5 DEF WithoutStep
  <2>2. \E h : SubsOf(Append(x, tup), result, h) /\ \A i \in 1 .. Len(Append(x, tup)) : h[i] <= n
    BY <1>1, <1>2, PartAppend
  <2>3. Append(x, tup) \in Seq(StreamTuples)
    BY <1>0, <1>2
  <2>4. ASSUME NEW k PROVE InSeq(Append(x, tup), k) = Total(Shares(result, k), n)
    <3>1. x \in Seq(Counted) /\ tup \in Counted
      BY <1>0, <1>2, StreamSeqs, CountedAll DEF StreamTuples
    <3>2. InSeq(Append(x, tup), k) = InSeq(x, k) + Share(tup, k)
      BY <3>1, InSeqAppend
    <3> QED BY <1>3, <3>2
  <2> QED BY <2>1, <2>2, <2>3, <2>4 DEF Sifted
<1> QED
  BY <1>4, <1>5

LEMMA FinalizedKeeps ==
  ASSUME NEW result \in Seq(StreamTuples), NEW tup,
         IsTemp(tup) /\ result # <<>> => IsTemp(result[Len(result)])
  PROVE  /\ Finalized(result, tup) \in Seq(StreamTuples) /\ IsPart(Finalized(result, tup), result)
         /\ \A k : InSeq(Finalized(result, tup), k) = InSeq(result, k)
<1> DEFINE l == Len(result)
           z == Finalized(result, tup)
<1>1. result \in Seq(DataTuples) /\ result \in Seq(Counted) /\ l \in Nat
  BY StreamSeqs
<1>2. PICK r : WithoutTemps(result) = r[Len(result)] /\ WithoutToAt(result, r)
  BY <1>1, WithoutTempsSolves, Zenon
<1>3. r[0] = <<>> /\ \A i \in 1 .. l : r[i] = WithoutStep(r[i - 1], result[i])
  BY <1>2 DEF WithoutToAt
<1> DEFINE G == {i \in 0 .. l : Sifted(result, i, r[i])}
<1>4. 0 \in G
  <2>1. \A f : SubsOf(<<>>, result, f)
    BY DEF SubsOf
  <2>2. \E f : SubsOf(<<>>, result, f) /\ \A i \in 1 .. Len(<<>>) : f[i] <= 0
    BY <2>1
  <2>3. \A k : InSeq(<<>>, k) = 0 /\ Total(Shares(result, k), 0) = 0
    BY InSeqEmpty, TotalZero
  <2>4. <<>> \in Seq(StreamTuples)
    OBVIOUS
  <2>5. Sifted(result, 0, <<>>)
    BY <2>2, <2>3, <2>4 DEF Sifted
  <2> QED BY <1>1, <1>3, <2>5
<1>5. ASSUME NEW i \in 1 .. l, i - 1 \in G PROVE i \in G
  <2>1. Sifted(result, i - 1, r[i - 1])
    BY <1>5
  <2>2. Sifted(result, i, WithoutStep(r[i - 1], result[i]))
    BY <2>1, SiftStep
  <2>3. i \in 0 .. l
    BY <1>1
  <2> QED BY <1>3, <2>2, <2>3
<1>6. \A i \in 0 .. l : i \in G
  <2> HIDE DEF G
  <2> QED BY <1>1, <1>4, <1>5, UpTo
<1>7. \A i \in 0 .. l : Sifted(result, i, r[i])
  BY <1>6
<1>8. \A k : InSeq(result, k) = Total(Shares(result, k), l)
  BY <1>1, InSeqTotal
<1>9. WithoutTemps(result) = r[l]
  BY <1>2
<1> HIDE DEF G
<1>10. CASE ~(IsTemp(tup) /\ result # <<>>)
  <2>1. z = r[l]
    BY <1>9, <1>10 DEF Finalized
  <2>2. l \in 0 .. l
    BY <1>1
  <2>3. Sifted(result, l, r[l])
    BY <1>7, <2>2
  <2> HIDE DEF z
  <2>4. IsPart(z, result)
    BY <2>1, <2>3, Zenon DEF Sifted, IsPart
  <2>5. z \in Seq(StreamTuples) /\ \A k : InSeq(z, k) = InSeq(result, k)
    BY <1>8, <2>1, <2>3 DEF Sifted
  <2> QED BY <2>4, <2>5 DEF z
<1>11. CASE IsTemp(tup) /\ result # <<>>
  <2> DEFINE x == result[l]
             m == l - 1
  <2>1. m \in 0 .. l /\ l \in 1 .. l /\ m \in Nat
    BY <1>1, <1>11
  <2>2. IsTemp(x) /\ x \in StreamTuples
    BY <1>11, <2>1
  <2>3. r[l] = r[m]
    <3>1. r[l] = WithoutStep(r[l - 1], x)
      BY <1>3, <2>1
    <3> QED BY <2>2, <3>1 DEF WithoutStep
  <2>4. z = Append(r[l], x)
    BY <1>9, <1>11 DEF Finalized
  <2>5. Sifted(result, m, r[l]) /\ Sifted(result, l, r[l])
    <3>1. Sifted(result, m, r[m])
      BY <1>7, <2>1
    <3>2. l \in 0 .. l
      BY <1>1
    <3>3. Sifted(result, l, r[l])
      BY <1>7, <3>2
    <3> QED BY <2>3, <3>1, <3>3
  <2> HIDE DEF z
  <2>6. r[l] \in Seq(StreamTuples) /\ \A k : InSeq(r[l], k) = InSeq(result, k)
    BY <1>8, <2>5 DEF Sifted
  <2>7. PICK f : SubsOf(r[l], result, f) /\ \A i \in 1 .. Len(r[l]) : f[i] <= l - 1
    BY <2>5, Zenon DEF Sifted
  <2> DEFINE p == r[l]
  <2>8. p \in Seq(StreamTuples) /\ SubsOf(p, result, f) /\ \A i \in 1 .. Len(p) : f[i] <= l - 1
    BY <2>6, <2>7
  <2> HIDE DEF p, l
  <2>9. \E h : SubsOf(Append(p, result[l]), result, h) /\ \A i \in 1 .. Len(Append(p, result[l])) : h[i] <= l
    BY <2>1, <2>8, PartAppend DEF l
  <2>10. IsPart(z, result)
    BY <2>4, <2>9, Zenon DEF IsPart, p
  <2>11. z \in Seq(StreamTuples)
    BY <2>2, <2>4, <2>6
  <2>12. ASSUME NEW k PROVE InSeq(z, k) = InSeq(result, k)
    <3>1. p \in Seq(Counted) /\ x \in Counted
      BY <2>2, <2>8, StreamSeqs, CountedAll DEF StreamTuples
    <3>2. InSeq(Append(p, x), k) = InSeq(p, k) + Share(x, k) /\ InSeq(p, k) \in Nat
      BY <3>1, InSeqAppend, InSeqTotal
    <3>3. Share(x, k) = 0
      BY <2>2, TempShare
    <3> QED BY <2>4, <2>6, <3>2, <3>3 DEF p
  <2> QED BY <2>10, <2>11, <2>12 DEF z
<1> QED
  BY <1>10, <1>11

-----------------------------------------------------------------------------
(* The operators of a query of two sources. *)

(* An operator's input of one tuple, and an empty one. *)
LEMMA MergeAllOne ==
  ASSUME NEW m \in MergeOps, NEW tup \in DataTuples, NEW c \in Channels
  PROVE  MergeAll(m, <<tup>>, c) = MergeAccept(m, tup, c)
<1> DEFINE q == <<tup>>
           a == MergeAccept(m, tup, c)
<1>1. q \in Seq(DataTuples) /\ Len(q) = 1 /\ q[1] = tup
  OBVIOUS
<1> HIDE DEF q
<1>2. PICK r : MergeAll(m, q, c) = r[Len(q)] /\ MergedAt(m, q, c, r)
  BY <1>1, MergeAllSolves, Zenon
<1>3. r[0] = [op |-> m, out |-> <<>>] /\ r[1] = MergeStep(r[0], tup, c)
  BY <1>1, <1>2 DEF MergedAt
<1>4. r[1] = [op |-> a.op, out |-> <<>> \o a.out]
  BY <1>3 DEF MergeStep
<1>5. a \in MergeResults
  BY MergeAcceptType
<1> HIDE DEF a
<1>6. a.out \in Seq(DataTuples) /\ a = [op |-> a.op, out |-> a.out]
  BY <1>5 DEF MergeResults
<1> DEFINE y == a.out
<1>7. <<>> \o y = y
  <2> HIDE DEF y
  <2>1. y \in Seq(DataTuples)
    BY <1>6 DEF y
  <2> QED BY <2>1
<1> QED
  BY <1>1, <1>2, <1>4, <1>6, <1>7 DEF q, a

LEMMA MergeAllNone ==
  ASSUME NEW m \in MergeOps, NEW c \in Channels
  PROVE  MergeAll(m, <<>>, c) = [op |-> m, out |-> <<>>]
<1> DEFINE q == <<>>
<1>1. q \in Seq(DataTuples) /\ Len(q) = 0
  OBVIOUS
<1> HIDE DEF q
<1>2. PICK r : MergeAll(m, q, c) = r[Len(q)] /\ MergedAt(m, q, c, r)
  BY <1>1, MergeAllSolves, Zenon
<1>3. r[0] = [op |-> m, out |-> <<>>]
  BY <1>2 DEF MergedAt
<1> QED
  BY <1>1, <1>2, <1>3 DEF q

LEMMA TwoSources ==
  ASSUME N = 2
  PROVE  /\ Sources = {1, 2} /\ Merges = {1} /\ N - 1 = 1 /\ N - 1 \in 0 .. N - 1 /\ 1 \in 1 .. N - 1
         /\ \A s \in Sources : s - 1 \in Channels /\ (s - 1) + 1 = s
         /\ \A c \in Channels : c + 1 \in Sources /\ (c + 1) - 1 = c
  BY DEF Sources, Merges, Channels

(* The one merge is given every tuple, on the channel of its source. *)
LEMMA RouteTwo ==
  ASSUME N = 2, NEW s \in Sources, NEW tup \in DataTuples, merge \in [Merges -> MergeOps]
  PROVE  Route(s, tup)[1] = MergeAccept(merge[1], tup, s - 1)
<1> DEFINE r == Route(s, tup)
           m == merge[1]
<1>1. RouteToAt(s, tup, r)
  BY RouteSolves
<1> HIDE DEF r
<1>2. r[0] = RouteFirst(s, tup) /\ r[1] = RouteStep(s, tup, r[0], 1)
  BY <1>1, TwoSources DEF RouteToAt
<1>3. m \in MergeOps /\ 0 \in Channels /\ 1 \in Channels
  BY TwoSources DEF Channels
<1>4. CASE s = 1
  <2>1. r[1] = MergeAll(m, <<tup>>, 0)
    BY <1>2, <1>4 DEF RouteStep, RouteFirst
  <2> QED BY <1>3, <1>4, <2>1, MergeAllOne DEF r
<1>5. CASE s = 2
  <2>1. r[1] = MergeAll(m, <<tup>>, 1)
    BY <1>2, <1>5 DEF RouteStep
  <2> QED BY <1>3, <1>5, <2>1, MergeAllOne DEF r
<1> QED
  BY <1>4, <1>5, TwoSources

(* At the end the group-by is given what the merge has queued. *)
LEMMA FlushedTwo ==
  ASSUME N = 2, merge \in [Merges -> MergeOps]
  PROVE  Flushed[1].queue = merge[1].queue
<1> DEFINE r == Flushed
           m == merge[1]
           y == m.queue
<1>1. FlushToAt(r)
  BY FlushedSolves
<1> HIDE DEF r
<1>2. r[0] = FlushFirst /\ r[1] = FlushStep(r[0], 1)
  BY <1>1, TwoSources DEF FlushToAt
<1>3. m \in MergeOps /\ 0 \in Channels /\ y \in Seq(DataTuples)
  BY TwoSources, MergeFields DEF Channels
<1>4. r[1] = FlushMerge(<<>>, MergeAll(m, <<>>, 0))
  BY <1>2 DEF FlushStep, FlushFirst
<1>5. r[1] = FlushMerge(<<>>, [op |-> m, out |-> <<>>])
  BY <1>3, <1>4, MergeAllNone
<1>6. r[1].queue = <<>> \o (<<>> \o y)
  BY <1>5 DEF FlushMerge, FlushInput, MergeFlush
<1>7. <<>> \o (<<>> \o y) = y
  <2> HIDE DEF y
  <2> QED BY <1>3
<1> QED
  BY <1>6, <1>7 DEF r

LEMMA OutputsConcat ==
  ASSUME NEW p \in Seq(Rows), NEW q \in Seq(Rows)
  PROVE  Outputs(p \o q) = Outputs(p) \o Outputs(q)
<1> DEFINE x == Outputs(p)
           y == Outputs(q)
           z == Outputs(p \o q)
<1>1. p \o q \in Seq(Rows) /\ Len(p) \in Nat /\ Len(q) \in Nat /\ Len(p \o q) = Len(p) + Len(q)
  OBVIOUS
<1>2. x \in Seq(DataTuples) /\ y \in Seq(DataTuples) /\ z \in Seq(DataTuples)
  BY <1>1, OutputsAre
<1>3. Len(x) = Len(p) /\ Len(y) = Len(q) /\ Len(z) = Len(p) + Len(q)
  BY <1>1, OutputsAre
<1>4. ASSUME NEW i \in 1 .. Len(z) PROVE z[i] = (x \o y)[i]
  <2>1. z[i] = Output((p \o q)[i])
    BY <1>1, <1>3 DEF Outputs
  <2>2. CASE i <= Len(p)
    <3>1. i \in 1 .. Len(p)
      BY <1>1, <1>3, <2>2
    <3>2. (p \o q)[i] = p[i] /\ x[i] = Output(p[i])
      BY <3>1 DEF Outputs
    <3> HIDE DEF x, y, z
    <3> QED BY <1>2, <1>3, <2>1, <3>1, <3>2
  <2>3. CASE i > Len(p)
    <3>1. i - Len(p) \in 1 .. Len(q)
      BY <1>1, <1>3, <2>3
    <3>2. (p \o q)[i] = q[i - Len(p)] /\ y[i - Len(p)] = Output(q[i - Len(p)])
      BY <1>1, <1>3, <2>3, <3>1 DEF Outputs
    <3> HIDE DEF x, y, z
    <3>3. (x \o y)[i] = y[i - Len(x)]
      BY <1>1, <1>2, <1>3, <2>3
    <3> QED BY <1>3, <2>1, <3>2, <3>3
  <2> QED BY <1>1, <1>3, <2>2, <2>3
<1> HIDE DEF x, y, z
<1>5. x \o y \in Seq(DataTuples) /\ Len(x \o y) = Len(z)
  <2>1. x \o y \in Seq(DataTuples) /\ Len(x \o y) = Len(x) + Len(y)
    BY <1>2
  <2> QED BY <1>3, <2>1
<1>6. z = x \o y
  BY <1>2, <1>4, <1>5, SeqEqual
<1> QED
  BY <1>6 DEF x, y, z

(* flush posts the rest of the finished epoch and then the current one. *)
LEMMA GroupByFlushKeeps ==
  ASSUME NEW b, NEW q, Kept(b, q)
  PROVE  LET o == GroupByFlush(b).out
         IN  /\ o \in Seq(DataTuples) /\ Unique(q \o o) /\ Orderly(q \o o)
             /\ \A k : InSeq(o, k) = Summed(b, k)
<1> DEFINE old == b.old
           T   == Iterate(b.table)
           u   == [b EXCEPT !.old = <<>>, !.finished = TRUE]
           x   == Outputs(old)
           y   == Outputs(T)
<1>1. b \in GroupBysOK /\ q \in Seq(AnyTuples)
  BY DEF Kept
<1>2. b \in GroupBys /\ b.table \subseteq Rows /\ IsFiniteSet(b.table) /\ old \in Seq(Rows) /\ T \in Seq(Rows)
  BY <1>1, GroupByFields, IterateType
<1>3. u \in GroupBysOK /\ u.table = b.table /\ u.last_gb = b.last_gb /\ u.last_flushed_gb = b.last_flushed_gb /\ u.old = <<>>
  <2>1. <<>> \in Seq(Rows)
    OBVIOUS
  <2>2. u \in GroupBys /\ u.table = b.table /\ u.last_gb = b.last_gb /\ u.last_flushed_gb = b.last_flushed_gb /\ u.old = <<>>
    <3> DEFINE e == <<>>
    <3>1. e \in Seq(Rows)
      BY <2>1
    <3> HIDE DEF e
    <3>2. [b EXCEPT !.old = e, !.finished = TRUE] \in GroupBys
      BY <1>2, <3>1 DEF GroupBys
    <3>3. u = [b EXCEPT !.old = e, !.finished = TRUE]
      BY DEF e
    <3>4. /\ [b EXCEPT !.old = e, !.finished = TRUE].table = b.table /\ [b EXCEPT !.old = e, !.finished = TRUE].last_gb = b.last_gb
          /\ [b EXCEPT !.old = e, !.finished = TRUE].last_flushed_gb = b.last_flushed_gb
          /\ [b EXCEPT !.old = e, !.finished = TRUE].old = e
      BY <1>2 DEF GroupBys
    <3> HIDE DEF u
    <3> QED BY <3>2, <3>3, <3>4 DEF e
  <2> HIDE DEF u
  <2> QED BY <1>2, <2>2 DEF GroupBysOK
<1> HIDE DEF u
<1>4. OldPosted(b, u, old, <<>>)
  <2>1. <<>> \in Seq(Rows) /\ old \o <<>> = old
    BY <1>2
  <2> QED BY <1>2, <1>3, <2>1 DEF OldPosted
<1>5. Kept(u, q \o x) /\ \A k : Summed(b, k) = Summed(u, k) + InSeq(x, k)
  <2>1. OldKept(b, u, q, old)
    BY <1>4, PostOldBy
  <2> QED BY <2>1 DEF OldKept
<1>6. GroupByFlush(b).out = x \o y
  <2>1. GroupByFlush(b).out = Outputs(old \o T)
    BY DEF GroupByFlush
  <2> QED BY <1>2, <2>1, OutputsConcat
<1>7. x \in Seq(DataTuples) /\ y \in Seq(DataTuples) /\ \A k : InSeq(y, k) = InSeq(T, k)
  BY <1>2, OutputsAre
<1>8. OneEach(T, b.last_gb)
  <2>1. \A r \in b.table : r.gb = b.last_gb /\ \A p \in b.table : p.grp = r.grp => p = r
    BY DEF Kept, GroupOK
  <2> QED BY <1>2, <2>1, IterateOneEach DEF OneRow
<1>9. Unique((q \o x) \o y) /\ Orderly((q \o x) \o y)
  <2> DEFINE p == q \o x
  <2>1. p \in Seq(AnyTuples) /\ Unique(p) /\ Orderly(p) /\ PostedOK(p, u)
    BY <1>5 DEF Kept
  <2> HIDE DEF p, x, y
  <2>2. \A i \in 1 .. Len(p) : p[i].gb <= b.last_gb /\ (IsRegular(p[i]) => p[i].gb < b.last_gb)
    BY <1>3, <2>1 DEF PostedOK
  <2>3. b.last_gb \in Nat
    BY <1>1, GroupNats
  <2>4. ASSUME NEW i \in 1 .. Len(p), NEW j \in 1 .. Len(T), IsRegular(p[i]), p[i].gb = T[j].gb PROVE p[i].grp # T[j].grp
    <3>1. T[j].gb = b.last_gb
      BY <1>8 DEF OneEach
    <3>2. p[i].gb < b.last_gb
      BY <2>2, <2>4
    <3> QED BY <2>3, <2>4, <3>1, <3>2
  <2> HIDE DEF T
  <2>5. Unique(p \o Outputs(T)) /\ Orderly(p \o Outputs(T))
    BY <1>2, <1>8, <2>1, <2>2, <2>4, PostRows
  <2> QED BY <2>5 DEF p, y
<1>10. (q \o x) \o y = q \o (x \o y) /\ x \o y \in Seq(DataTuples)
  <2> HIDE DEF x, y
  <2>1. x \in Seq(AnyTuples) /\ y \in Seq(AnyTuples)
    BY <1>7, DataNoEof
  <2> QED BY <1>1, <1>7, <2>1, ConcatAssoc
<1>11. ASSUME NEW k PROVE InSeq(x \o y, k) = Summed(b, k)
  <2> HIDE DEF x, y
  <2>1. x \in Seq(Counted) /\ y \in Seq(Counted)
    BY <1>7, CountedAll
  <2>2. InSeq(x \o y, k) = InSeq(x, k) + InSeq(y, k) /\ InSeq(x, k) \in Nat
    BY <2>1, InSeqConcat, InSeqTotal
  <2>3. Summed(u, k) = InSeq(T, k) + InSeq(<<>>, k) /\ InSeq(T, k) \in Nat
    BY <1>3, SummedIs
  <2>4. Summed(b, k) = Summed(u, k) + InSeq(x, k) /\ InSeq(y, k) = InSeq(T, k) /\ InSeq(<<>>, k) = 0
    BY <1>5, <1>7, InSeqEmpty
  <2> QED BY <2>2, <2>3, <2>4
<1> HIDE DEF x, y
<1>12. Unique(q \o (x \o y)) /\ Orderly(q \o (x \o y))
  BY <1>9, <1>10
<1> DEFINE z == x \o y
<1>13. z \in Seq(DataTuples) /\ Unique(q \o z) /\ Orderly(q \o z) /\ (\A k : InSeq(z, k) = Summed(b, k)) /\ GroupByFlush(b).out = z
  BY <1>6, <1>10, <1>11, <1>12
<1> HIDE DEF z
<1> QED
  BY <1>13, Zenon

-----------------------------------------------------------------------------
(* What is under way, in a query of two sources. *)

Adds(x, s, k) ==
  x + Held(lfta[s], k[1], k[2]) + InSeq(chan[s], k) + (IF s = N THEN 0 ELSE InSeq(merge[s].queue, k))

LEMMA WaitingNats ==
  ASSUME OperatorsOK, NEW k
  PROVE  /\ Summed(groupby, k) \in Nat
         /\ \A s \in Sources : Held(lfta[s], k[1], k[2]) \in Nat /\ InSeq(chan[s], k) \in Nat
         /\ \A i \in Merges : InSeq(merge[i].queue, k) \in Nat
<1>1. Summed(groupby, k) \in Nat
  <2>1. groupby \in GroupBysOK
    BY DEF OperatorsOK, GroupBysOK
  <2> QED BY <2>1, SummedIs
<1>2. ASSUME NEW s \in Sources PROVE Held(lfta[s], k[1], k[2]) \in Nat /\ InSeq(chan[s], k) \in Nat
  <2>1. lfta[s] \in Lftas /\ chan[s] \in Seq(Counted)
    BY CountedAll DEF OperatorsOK
  <2> QED BY <2>1, HeldTotal, InSeqTotal
<1>3. ASSUME NEW i \in Merges PROVE InSeq(merge[i].queue, k) \in Nat
  <2>1. merge[i].queue \in Seq(Counted)
    BY CountedAll, MergeFields DEF OperatorsOK
  <2> QED BY <2>1, InSeqTotal
<1> QED
  BY <1>1, <1>2, <1>3

(* The equation of Underway's recursion, for a function; and number by number. *)
UnderwayTo(k, f) ==
  f = [s \in 0 .. N |-> IF s = 0 THEN Summed(groupby, k) ELSE Adds(f[s - 1], s, k)]

UnderwayToAt(k, f) ==
  /\ f = [s \in 0 .. N |-> f[s]]
  /\ f[0] = Summed(groupby, k)
  /\ \A s \in 1 .. N : f[s] = Adds(f[s - 1], s, k)

LEMMA UnderwayToIsAt ==
  ASSUME NEW k, N \in Nat, NEW f
  PROVE  UnderwayTo(k, f) <=> UnderwayToAt(k, f)
<1> DEFINE E(s) == IF s = 0 THEN Summed(groupby, k) ELSE Adds(f[s - 1], s, k)
           h == [s \in 0 .. N |-> E(s)]
<1>1. UnderwayTo(k, f) <=> f = h
  BY DEF UnderwayTo
<1>2. \A s \in 0 .. N : h[s] = E(s)
  <2> HIDE DEF E
  <2> QED OBVIOUS
<1>3. f = h <=> f = [s \in 0 .. N |-> f[s]] /\ \A s \in 0 .. N : f[s] = E(s)
  <2> HIDE DEF E
  <2> QED OBVIOUS
<1>4. E(0) = Summed(groupby, k) /\ \A s \in 1 .. N : E(s) = Adds(f[s - 1], s, k)
  OBVIOUS
<1>5. \A s \in 0 .. N : s = 0 \/ s \in 1 .. N
  OBVIOUS
<1>6. 0 \in 0 .. N /\ \A s \in 1 .. N : s \in 0 .. N
  OBVIOUS
<1> HIDE DEF E, h
<1> QED BY <1>1, <1>3, <1>4, <1>5, <1>6, Zenon DEF UnderwayToAt

LEMMA UnderwaySolves ==
  ASSUME OperatorsOK, NEW k
  PROVE  \E r : /\ Underway(k) = r[N]
                /\ r[0] = Summed(groupby, k) /\ \A i \in 1 .. N : r[i] = Adds(r[i - 1], i, k)
                /\ \A i \in 0 .. N : r[i] \in Nat
<1> DEFINE l == N
           b == Summed(groupby, k)
           step == [x \in (1 .. l) \X Nat |-> Adds(x[2], x[1], k)]
<1>0. l \in Nat /\ b \in Nat
  BY Numbers, WaitingNats
<1>1. \A i \in 1 .. l : \A x \in Nat : Adds(x, i, k) \in Nat
  <2> SUFFICES ASSUME NEW i \in 1 .. l, NEW x \in Nat PROVE Adds(x, i, k) \in Nat
    OBVIOUS
  <2>1. Held(lfta[i], k[1], k[2]) \in Nat /\ InSeq(chan[i], k) \in Nat
    BY WaitingNats DEF Sources
  <2>2. (IF i = N THEN 0 ELSE InSeq(merge[i].queue, k)) \in Nat
    <3>1. i # N => i \in Merges
      BY Numbers DEF Merges
    <3> QED BY <3>1, WaitingNats
  <2> QED BY <2>1, <2>2 DEF Adds
<1> HIDE DEF b
<1>2. \A i \in 1 .. l : \A x \in Nat :
        step[<<i, x>>] = Adds(x, i, k) /\ step[<<i, x>>] \in Nat
  BY <1>1
<1>3. StaysIn(Nat, l, step)
  <2> HIDE DEF step
  <2> QED BY <1>2 DEF StaysIn
<1>4. PICK f : Solution(f, l, Nat, b, step)
  <2> HIDE DEF step
  <2> QED BY <1>0, <1>3, Recursion, Zenon
<1>5. UnderwayTo(k, f)
  <2>1. \A i \in 1 .. l : i - 1 \in 0 .. l
    BY <1>0
  <2> HIDE DEF step, l
  <2>2. f \in [0 .. l -> Nat] /\ f[0] = b /\ \A i \in 1 .. l : f[i] = step[<<i, f[i - 1]>>]
    BY <1>4 DEF Solution
  <2>3. \A i \in 1 .. l : f[i] = Adds(f[i - 1], i, k)
    BY <1>2, <2>1, <2>2
  <2>4. f = [i \in 0 .. l |-> f[i]]
    BY <2>2
  <2> QED BY <1>0, <2>2, <2>3, <2>4, UnderwayToIsAt, Zenon DEF UnderwayToAt, l, b
<1> DEFINE r == CHOOSE y : UnderwayTo(k, y)
<1>6. UnderwayTo(k, r)
  BY <1>5, Zenon
<1>7. Underway(k) = r[l]
  BY DEF Underway, UnderwayTo, Adds, Summed
<1> HIDE DEF r, step
<1>8. UnderwayToAt(k, r)
  <2>1. N \in Nat
    BY <1>0
  <2> QED BY <1>6, <2>1, UnderwayToIsAt, Zenon
<1>9. r[0] \in Nat
  BY <1>0, <1>8, Zenon DEF UnderwayToAt, b
<1>10. \A i \in 1 .. l : r[i] = Adds(r[i - 1], i, k)
  BY <1>8 DEF UnderwayToAt
<1>11. \A i \in 1 .. l : r[i - 1] \in Nat => r[i] \in Nat
  BY <1>1, <1>10, Zenon
<1> HIDE DEF l
<1>12. \A i \in 0 .. l : r[i] \in Nat
  BY <1>0, <1>9, <1>11, AllIn
<1>13. r[0] = Summed(groupby, k) /\ \A i \in 1 .. N : r[i] = Adds(r[i - 1], i, k)
  BY <1>8 DEF UnderwayToAt
<1> QED
  BY <1>7, <1>12, <1>13 DEF l

LEMMA UnderwayIs ==
  ASSUME N = 2, OperatorsOK, NEW k
  PROVE  Underway(k) = Summed(groupby, k) + Held(lfta[1], k[1], k[2]) + InSeq(chan[1], k)
                       + InSeq(merge[1].queue, k) + Held(lfta[2], k[1], k[2]) + InSeq(chan[2], k)
<1>1. PICK r : /\ Underway(k) = r[N]
               /\ r[0] = Summed(groupby, k) /\ \A i \in 1 .. N : r[i] = Adds(r[i - 1], i, k)
  BY UnderwaySolves
<1>2. 1 \in 1 .. N /\ 2 \in 1 .. N /\ 1 - 1 = 0 /\ 2 - 1 = 1
  OBVIOUS
<1>3. r[1] = Adds(r[1 - 1], 1, k) /\ r[2] = Adds(r[2 - 1], 2, k)
  BY <1>1, <1>2
<1>4. r[1] = Adds(r[0], 1, k) /\ r[2] = Adds(r[1], 2, k)
  BY <1>2, <1>3
<1> DEFINE h1 == Held(lfta[1], k[1], k[2])
           h2 == Held(lfta[2], k[1], k[2])
           c1 == InSeq(chan[1], k)
           c2 == InSeq(chan[2], k)
           mq == InSeq(merge[1].queue, k)
           sg == Summed(groupby, k)
<1>5. r[1] = sg + h1 + c1 + mq /\ r[2] = r[1] + h2 + c2 + 0
  BY <1>1, <1>4 DEF Adds
<1>6. h1 \in Nat /\ h2 \in Nat /\ c1 \in Nat /\ c2 \in Nat /\ mq \in Nat /\ sg \in Nat
  BY WaitingNats, TwoSources
<1>7. Underway(k) = r[2]
  BY <1>1
<1> HIDE DEF h1, h2, c1, c2, mq, sg
<1>8. Underway(k) = sg + h1 + c1 + mq + h2 + c2
  BY <1>5, <1>6, <1>7
<1> QED
  BY <1>8 DEF h1, h2, c1, c2, mq, sg

(* The parts of what is under way. *)
Parts(k) ==
  Summed(groupby, k) + Held(lfta[1], k[1], k[2]) + InSeq(chan[1], k)
  + InSeq(merge[1].queue, k) + Held(lfta[2], k[1], k[2]) + InSeq(chan[2], k)
PartsUnderway == N = 2 /\ OperatorsOK => \A k : Underway(k) = Parts(k)

LEMMA UnderwayParts == PartsUnderway
  BY UnderwayIs DEF PartsUnderway, Parts

LEMMA UnderwayPartsNext == PartsUnderway'
  BY UnderwayParts, PTL

-----------------------------------------------------------------------------
(* The inductive invariant, for two sources, part by part. *)

Going ==
  /\ MergeOK(merge[1]) /\ ChannelsAhead(merge[1])
  /\ \A c \in Channels : groupby.last_gb <= merge[1].last[c]
  /\ Kept(groupby, out) /\ \A k \in Keys : sent[k] = InSeq(out, k) + Parts(k)
Over == Unique(out) /\ Orderly(out) /\ \A k \in Keys : sent[k] = InSeq(out, k)

CountInvIs ==
  N = 2 => (CountInv <=> EndInv /\ TablesOK /\ (Read # Sources => Going) /\ (Read = Sources => Over))

LEMMA ResultsAre ==
  ASSUME EndInv
  PROVE  (ResultIsFinal <=> Unique(out)) /\ (ResultsInOrder <=> Orderly(out)) /\ (Ended <=> Read = Sources)
<1>1. ResultIsFinal <=> Unique(out)
  BY DEF ResultIsFinal, Unique, Regulars, IsRegular
<1>2. out \in Seq(AnyTuples) /\ Len(out) \in Nat
  BY DEF EndInv, OperatorsOK
<1>3. NoEof(out) \/ EndsOnce(out)
  BY DEF EndInv, EndsCounted
<1>4. \A i \in 1 .. Len(out) : out[i].type = "EOF" => i = Len(out)
  BY <1>3 DEF NoEof, EndsOnce, IsEof
<1>5. ResultsInOrder <=> Orderly(out)
  <2>1. ASSUME ResultsInOrder PROVE Orderly(out)
    <3> SUFFICES ASSUME NEW j \in 1 .. Len(out), IsRegular(out[j]), NEW i \in 1 .. j - 1 PROVE out[i].gb <= out[j].gb
      BY DEF Orderly
    <3>1. i \in 1 .. Len(out) /\ i < j /\ i # Len(out)
      BY <1>2
    <3>2. j \in Regulars
      BY DEF Regulars, IsRegular
    <3> QED BY <1>4, <2>1, <3>1, <3>2 DEF ResultsInOrder
  <2>2. ASSUME Orderly(out) PROVE ResultsInOrder
    <3> SUFFICES ASSUME NEW i \in 1 .. Len(out), NEW j \in Regulars, i < j PROVE out[i].gb <= out[j].gb
      BY DEF ResultsInOrder
    <3>1. j \in 1 .. Len(out) /\ IsRegular(out[j])
      BY DEF Regulars, IsRegular
    <3>2. i \in 1 .. j - 1
      BY <1>2, <3>1
    <3> QED BY <2>2, <3>1, <3>2 DEF Orderly
  <2> QED BY <2>1, <2>2
<1>6. Ended <=> Read = Sources
  <2>1. CASE Read = Sources
    BY <2>1 DEF EndInv, EndsCounted, EndsOnce, Ended, IsEof
  <2>2. CASE Read # Sources
    <3>1. NoEof(out)
      BY <2>2 DEF EndInv, EndsCounted
    <3>2. out # <<>> => Len(out) \in 1 .. Len(out)
      BY <1>2
    <3> QED BY <2>2, <3>1, <3>2 DEF NoEof, IsEof, Ended
  <2> QED BY <2>1, <2>2
<1> QED
  BY <1>1, <1>5, <1>6

LEMMA CountInvParts == CountInvIs
<1> SUFFICES ASSUME N = 2, EndInv
             PROVE  CountInv <=> EndInv /\ TablesOK /\ (Read # Sources => Going) /\ (Read = Sources => Over)
  BY DEF CountInvIs, CountInv
<1>1. (ResultIsFinal <=> Unique(out)) /\ (ResultsInOrder <=> Orderly(out)) /\ (Ended <=> Read = Sources)
  BY ResultsAre
<1>2. \A k : Underway(k) = Parts(k)
  BY UnderwayParts DEF PartsUnderway, EndInv
<1>3. groupby \in GroupBysOK /\ out \in Seq(AnyTuples)
  BY DEF EndInv, OperatorsOK, GroupBysOK
<1>4. CASE Read = Sources
  <2>1. ASSUME NEW k PROVE InSeq(out, k) + 0 = InSeq(out, k)
    <3>1. InSeq(out, k) \in Nat
      BY <1>3, CountedAll, InSeqTotal
    <3> QED BY <3>1
  <2>2. PacketsCountedOnce <=> \A k \in Keys : sent[k] = InSeq(out, k) + 0
    BY <1>1, <1>4 DEF PacketsCountedOnce
  <2>3. PacketsCountedOnce <=> \A k \in Keys : sent[k] = InSeq(out, k)
    BY <2>1, <2>2
  <2> QED BY <1>1, <1>4, <2>3, Zenon DEF CountInv, Over
<1>5. CASE Read # Sources
  <2>1. PacketsCountedOnce <=> \A k \in Keys : sent[k] = InSeq(out, k) + Underway(k)
    BY <1>1, <1>5 DEF PacketsCountedOnce
  <2>2. PacketsCountedOnce <=> \A k \in Keys : sent[k] = InSeq(out, k) + Parts(k)
    BY <1>2, <2>1
  <2>3. Kept(groupby, out) <=> GroupOK(groupby) /\ PostedOK(out, groupby) /\ Unique(out) /\ Orderly(out)
    BY <1>3 DEF Kept
  <2> QED BY <1>1, <1>5, <2>2, <2>3, Zenon DEF CountInv, Going
<1> QED
  BY <1>4, <1>5

LEMMA CountInvPartsNext == CountInvIs'
  BY CountInvParts, PTL

(* An LFTA without groups holds nothing. *)
LEMMA HeldNone ==
  ASSUME NEW t \in Lftas, Filled(t) = {}, NEW e, NEW g
  PROVE  Held(t, e, g) = 0
<1>1. /\ Held(t, e, g) = Total(SlotShares(t, e, g), MaxAggrs)
      /\ \A i \in 1 .. MaxAggrs : SlotShares(t, e, g)[i] = SlotShare(t.slot[i - 1], e, g)
  BY HeldTotal
<1>2. ASSUME NEW i \in 1 .. MaxAggrs PROVE SlotShare(t.slot[i - 1], e, g) = 0
  <2>1. i - 1 \in Slot
    BY SlotShareType
  <2>2. ~t.slot[i - 1].filled
    BY <2>1 DEF Filled
  <2> QED BY <2>2 DEF SlotShare
<1>3. \A i \in 1 .. MaxAggrs : SlotShares(t, e, g)[i] = 0
  BY <1>1, <1>2
<1>4. MaxAggrs \in Nat
  BY Numbers
<1> QED
  BY <1>1, <1>3, <1>4, TotalNothing

LEMMA CountInit ==
  ASSUME N = 2, Init
  PROVE  CountInv
<1>1. EndInv
  BY EndInit
<1>2. Read # Sources
  BY SourcesSize DEF Init, Read
<1> DEFINE t == NewLfta
           m == NewMerge
           b == NewGroupBy
<1>3. \A s \in Sources : lfta[s] = t /\ chan[s] = <<>>
  BY DEF Init
<1>4. merge[1] = m /\ groupby = b /\ out = <<>> /\ \A k \in Keys : sent[k] = 0
  BY TwoSources DEF Init
<1>5. t \in Lftas
  BY <1>1, <1>3, SourcesSize DEF EndInv, OperatorsOK
<1>6. Filled(t) = {} /\ t.n_aggrs = 0
  BY DEF NewLfta, Filled, Empty
<1>7. TableOK(t)
  <2>1. Cardinality(Filled(t)) = 0
    BY <1>6, FS_EmptySet
  <2>2. /\ t.generation < Generations /\ t.flush_start_gb <= t.last_gb /\ t.last_gb <= t.last_time
        /\ t.last_flushed_gb <= t.last_time
    BY DEF NewLfta, Generations
  <2> HIDE DEF t
  <2> QED BY <1>6, <2>1, <2>2 DEF TableOK
<1>8. TablesOK
  <2> HIDE DEF t
  <2> SUFFICES ASSUME NEW s \in Sources PROVE StreamOK(s)
    BY DEF TablesOK
  <2>1. s \in open /\ lfta[s] = t /\ chan[s] = <<>> /\ Len(chan[s]) = 0
    BY <1>3 DEF Init
  <2> QED BY <1>7, <2>1 DEF StreamOK, Orderly, TempsEmpty
<1>9. MergeOK(m)
  BY DEF MergeOK, NewMerge
<1>10. ChannelsAhead(merge[1])
  <2> SUFFICES ASSUME NEW c \in Channels, NEW e \in Reached(m, c) PROVE Ahead(c + 1, e)
    BY <1>4 DEF ChannelsAhead
  <2>1. e = 0
    BY DEF Reached, NewMerge
  <2>2. c + 1 \in Sources
    BY TwoSources
  <2>3. lfta[c + 1] = t /\ Len(chan[c + 1]) = 0
    BY <1>3, <2>2
  <2>4. AtLeast(t, 0)
    <3>1. t.last_time = 0
      BY DEF NewLfta
    <3> QED BY <1>6, <3>1 DEF AtLeast
  <2> HIDE DEF t
  <2> QED BY <2>1, <2>3, <2>4 DEF Ahead
<1>11. \A c \in Channels : b.last_gb <= m.last[c]
  BY DEF NewGroupBy, NewMerge
<1>12. Kept(b, <<>>)
  <2>1. b \in GroupBysOK /\ <<>> \in Seq(AnyTuples)
    BY NewGroupByType
  <2>2. GroupOK(b)
    BY DEF GroupOK, NewGroupBy
  <2> QED BY <2>1, <2>2 DEF Kept, PostedOK, Unique, Orderly
<1>13. ASSUME NEW k \in Keys PROVE sent[k] = InSeq(out, k) + Parts(k)
  <2>1. 1 \in Sources /\ 2 \in Sources
    BY TwoSources
  <2>2. Held(lfta[1], k[1], k[2]) = 0 /\ Held(lfta[2], k[1], k[2]) = 0
    BY <1>3, <1>5, <1>6, <2>1, HeldNone
  <2>3. InSeq(out, k) = 0 /\ InSeq(chan[1], k) = 0 /\ InSeq(chan[2], k) = 0 /\ InSeq(merge[1].queue, k) = 0
    <3>1. merge[1].queue = <<>>
      BY <1>4 DEF NewMerge
    <3> QED BY <1>3, <1>4, <2>1, <3>1, InSeqEmpty
  <2>4. Summed(groupby, k) = 0
    <3>1. b.table = {} /\ b.old = <<>>
      BY DEF NewGroupBy
    <3>2. Iterate(b.table) \o b.old = <<>>
      BY <3>1, IterateNone
    <3> QED BY <1>4, <3>2, InSeqEmpty DEF Summed
  <2> QED BY <1>4, <2>2, <2>3, <2>4 DEF Parts
<1>14. Going
  <2> HIDE DEF m, b
  <2> QED BY <1>4, <1>9, <1>10, <1>11, <1>12, <1>13 DEF Going
<1> QED
  BY <1>1, <1>2, <1>8, <1>14, CountInvParts DEF CountInvIs

-----------------------------------------------------------------------------
(* What a source does. *)

(* An LFTA, and what it posts: on says that its source goes on. *)
Posts(t, r, on) ==
  /\ r.t \in Lftas /\ r.out \in Seq(AnyTuples) /\ TableOK(r.t) /\ Orderly(r.out) /\ TempsEmpty(r.out)
  /\ \A b \in Gbs : AtLeast(t, b) => \A i \in 1 .. Len(r.out) : IsRegular(r.out[i]) => b <= r.out[i].gb
  /\ on => /\ \A i \in 1 .. Len(r.out) : AtLeast(r.t, r.out[i].gb)
           /\ \A b \in Gbs : AtLeast(t, b) => AtLeast(r.t, b)
  /\ ~on => Filled(r.t) = {}

LEMMA InOrderPosts ==
  ASSUME NEW t, NEW r, NEW on, InOrder(t, r), on
  PROVE  Posts(t, r, on)
<1>1. r.out \in Seq(AnyTuples)
  BY DataNoEof DEF InOrder
<1> QED
  BY <1>1 DEF InOrder, Posts

LEMMA FinishesPosts ==
  ASSUME NEW t, NEW r, NEW on, Finishes(t, r), ~on
  PROVE  Posts(t, r, on)
  BY DEF Finishes, Posts

LEMMA EpochsOf ==
  ASSUME NEW q \in Seq(AnyTuples), NEW i \in 1 .. Len(q)
  PROVE  q[i].gb \in Gbs /\ q[i].gb \in Nat
<1>1. q[i] \in AnyTuples
  OBVIOUS
<1>2. Eof.gb \in Gbs
  BY Numbers DEF Eof
<1>3. q[i].gb \in Gbs
  BY <1>1, <1>2, DataGb DEF AnyTuples
<1> QED
  BY <1>3, Numbers

(* The rest of an LFTA's stream after a call. *)
Streams(q, t, on) ==
  /\ TableOK(t) /\ Orderly(q) /\ TempsEmpty(q)
  /\ on => \A i \in 1 .. Len(q) : AtLeast(t, q[i].gb)
  /\ ~on => Filled(t) = {}

LEMMA PostsStreams ==
  ASSUME NEW t, NEW r, NEW on, Posts(t, r, on), NEW q \in Seq(AnyTuples), Streams(q, t, TRUE)
  PROVE  q \o r.out \in Seq(AnyTuples) /\ Streams(q \o r.out, r.t, on)
<1> DEFINE p == r.out
           z == q \o p
<1>1. p \in Seq(AnyTuples) /\ Orderly(p) /\ TempsEmpty(p) /\ TableOK(r.t)
  BY DEF Posts
<1>2. Orderly(q) /\ TempsEmpty(q) /\ \A i \in 1 .. Len(q) : AtLeast(t, q[i].gb)
  BY DEF Streams
<1>3. \A i \in 1 .. Len(q), j \in 1 .. Len(p) : IsRegular(p[j]) => q[i].gb <= p[j].gb
  <2> SUFFICES ASSUME NEW i \in 1 .. Len(q), NEW j \in 1 .. Len(p), IsRegular(p[j]) PROVE q[i].gb <= p[j].gb
    OBVIOUS
  <2>1. q[i].gb \in Gbs /\ AtLeast(t, q[i].gb)
    BY <1>2, EpochsOf
  <2> QED BY <2>1 DEF Posts
<1>4. ASSUME on, NEW i \in 1 .. Len(z) PROVE AtLeast(r.t, z[i].gb)
  <2>1. CASE i \in 1 .. Len(q) /\ z[i] = q[i]
    <3>1. q[i].gb \in Gbs /\ AtLeast(t, q[i].gb)
      BY <1>2, <2>1, EpochsOf
    <3> QED BY <1>4, <2>1, <3>1 DEF Posts
  <2>2. CASE \E j \in 1 .. Len(p) : z[i] = p[j]
    <3>1. PICK j \in 1 .. Len(p) : z[i] = p[j]
      BY <2>2
    <3>2. AtLeast(r.t, p[j].gb)
      BY <1>4 DEF Posts
    <3> QED BY <3>1, <3>2
  <2>3. \/ i \in 1 .. Len(q) /\ z[i] = q[i]
        \/ \E j \in 1 .. Len(p) : z[i] = p[j]
    <3> HIDE DEF p
    <3> QED BY <1>1, <1>4, ConcatAt
  <2> QED BY <2>1, <2>2, <2>3
<1>5. z \in Seq(AnyTuples) /\ Orderly(z) /\ TempsEmpty(z)
  <2> HIDE DEF p
  <2>1. z \in Seq(AnyTuples)
    BY <1>1
  <2>2. Orderly(z)
    BY <1>1, <1>2, <1>3, OrderlyConcat
  <2>3. TempsEmpty(z)
    BY <1>1, <1>2, TempsConcat
  <2> QED BY <2>1, <2>2, <2>3
<1>6. ~on => Filled(r.t) = {}
  BY DEF Posts
<1> HIDE DEF z
<1>7. Streams(z, r.t, on)
  BY <1>1, <1>4, <1>5, <1>6 DEF Streams
<1> QED
  BY <1>5, <1>7 DEF z

(* Nothing that is still to come is of an epoch before b. *)
Comes(q, t, on, b) ==
  /\ \A i \in 1 .. Len(q) : IsRegular(q[i]) => b <= q[i].gb
  /\ on => AtLeast(t, b)

LEMMA PostsComes ==
  ASSUME NEW t, NEW r, NEW on, Posts(t, r, on), NEW q \in Seq(AnyTuples), NEW b \in Gbs, Comes(q, t, TRUE, b)
  PROVE  Comes(q \o r.out, r.t, on, b)
<1> DEFINE p == r.out
           z == q \o p
<1>1. p \in Seq(AnyTuples)
  BY DEF Posts
<1>2. AtLeast(t, b) /\ \A i \in 1 .. Len(q) : IsRegular(q[i]) => b <= q[i].gb
  BY DEF Comes
<1>3. \A i \in 1 .. Len(p) : IsRegular(p[i]) => b <= p[i].gb
  BY <1>2 DEF Posts
<1>4. ASSUME NEW i \in 1 .. Len(z), IsRegular(z[i]) PROVE b <= z[i].gb
  <2>3. \/ i \in 1 .. Len(q) /\ z[i] = q[i]
        \/ \E j \in 1 .. Len(p) : z[i] = p[j]
    <3> HIDE DEF p
    <3> QED BY <1>1, <1>4, ConcatAt
  <2> HIDE DEF z, p
  <2> QED BY <1>2, <1>3, <1>4, <2>3
<1>5. on => AtLeast(r.t, b)
  BY <1>2 DEF Posts
<1> HIDE DEF z
<1>6. Comes(z, r.t, on, b)
  BY <1>4, <1>5 DEF Comes
<1> QED
  BY <1>6 DEF z

(* What the parts amount to after a call of the LFTA of s. *)
LEMMA PartsLfta ==
  ASSUME N = 2, OperatorsOK, NEW s \in Sources, NEW r, r.t \in Lftas, r.out \in Seq(AnyTuples), Lfta(s, r),
         NEW k, NEW d \in Nat, Balance(lfta[s], r, k, d)
  PROVE  Parts(k)' = Parts(k) + d
<1> DEFINE h == Held(lfta[s], k[1], k[2])
           i == Held(r.t, k[1], k[2])
           c == InSeq(chan[s], k)
           o == InSeq(r.out, k)
           g == Summed(groupby, k)
           q == InSeq(merge[1].queue, k)
<1>1. lfta[s] \in Lftas /\ chan[s] \in Seq(AnyTuples) /\ lfta \in [Sources -> Lftas] /\ chan \in [Sources -> Seq(AnyTuples)]
  BY DEF OperatorsOK
<1>2. lfta'[s] = r.t /\ chan'[s] = chan[s] \o r.out /\ \A u \in Sources \ {s} : lfta'[u] = lfta[u] /\ chan'[u] = chan[u]
  BY <1>1 DEF Lfta
<1>3. groupby' = groupby /\ merge' = merge
  BY DEF Lfta, hfta
<1>4. h \in Nat /\ c \in Nat /\ g \in Nat /\ q \in Nat
  BY WaitingNats, TwoSources
<1>5. i \in Nat /\ o \in Nat /\ InSeq(chan'[s], k) = c + o
  <2> DEFINE x == chan[s]
             y == r.out
  <2>1. x \in Seq(Counted) /\ y \in Seq(Counted)
    BY <1>1, CountedAll
  <2> HIDE DEF x, y
  <2>2. InSeq(x \o y, k) = InSeq(x, k) + InSeq(y, k) /\ InSeq(y, k) \in Nat
    BY <2>1, InSeqConcat, InSeqTotal
  <2>3. i \in Nat
    BY HeldTotal
  <2> QED BY <1>2, <2>2, <2>3 DEF x, y
<1>6. h + d = i + o
  BY DEF Balance
<1>7. Summed(groupby', k) = g /\ InSeq(merge'[1].queue, k) = q
  BY <1>3
<1>8. ASSUME NEW u \in Sources \ {s}
      PROVE  /\ Held(lfta'[u], k[1], k[2]) = Held(lfta[u], k[1], k[2]) /\ InSeq(chan'[u], k) = InSeq(chan[u], k)
             /\ Held(lfta[u], k[1], k[2]) \in Nat /\ InSeq(chan[u], k) \in Nat
  BY <1>2, WaitingNats
<1>9. Held(lfta'[s], k[1], k[2]) = i
  BY <1>2
<1>10. CASE s = 1
  <2> DEFINE j == Held(lfta[2], k[1], k[2])
             e == InSeq(chan[2], k)
  <2>1. 2 \in Sources \ {s}
    BY <1>10, TwoSources
  <2>2. Held(lfta'[2], k[1], k[2]) = j /\ InSeq(chan'[2], k) = e /\ j \in Nat /\ e \in Nat
    BY <1>8, <2>1
  <2>3. Parts(k) = g + h + c + q + j + e
    BY <1>10 DEF Parts
  <2>4. Parts(k)' = g + i + (c + o) + q + j + e
    BY <1>5, <1>7, <1>9, <1>10, <2>2 DEF Parts
  <2> HIDE DEF h, i, c, o, g, q, j, e
  <2> QED BY <1>4, <1>5, <1>6, <2>2, <2>3, <2>4
<1>11. CASE s = 2
  <2> DEFINE j == Held(lfta[1], k[1], k[2])
             e == InSeq(chan[1], k)
  <2>1. 1 \in Sources \ {s}
    BY <1>11, TwoSources
  <2>2. Held(lfta'[1], k[1], k[2]) = j /\ InSeq(chan'[1], k) = e /\ j \in Nat /\ e \in Nat
    BY <1>8, <2>1
  <2>3. Parts(k) = g + j + e + q + h + c
    BY <1>11 DEF Parts
  <2>4. Parts(k)' = g + j + e + q + i + (c + o)
    BY <1>5, <1>7, <1>9, <1>11, <2>2 DEF Parts
  <2> HIDE DEF h, i, c, o, g, q, j, e
  <2> QED BY <1>4, <1>5, <1>6, <2>2, <2>3, <2>4
<1> QED
  BY <1>10, <1>11, TwoSources

(* The sources of a call of the LFTA of s: it had not come to its end. *)
CallOf(s, r) ==
  /\ s \in open /\ Lfta(s, r) /\ Posts(lfta[s], r, s \in open')
  /\ \A u \in Sources \ {s} : u \in open' <=> u \in open
  /\ s \notin Read'
(* The packets that it counts. *)
CountsOf(s, r) ==
  \A k \in Keys : \E d \in Nat : Balance(lfta[s], r, k, d) /\ sent'[k] = sent[k] + d

LEMMA CountLfta ==
  ASSUME N = 2, CountInv, EndInv', NEW s, NEW r, CallOf(s, r), CountsOf(s, r)
  PROVE  CountInv'
<1>1. EndInv /\ TablesOK /\ OperatorsOK /\ open \subseteq Sources
  BY DEF CountInv, EndInv, OperatorsOK
<1>2. s \in Sources /\ s \in open /\ s \notin Read
  BY <1>1 DEF CallOf, Read
<1>3. Going
  BY <1>2, CountInvParts DEF CountInvIs
<1>4. /\ lfta'[s] = r.t /\ chan'[s] = chan[s] \o r.out
      /\ \A u \in Sources \ {s} : lfta'[u] = lfta[u] /\ chan'[u] = chan[u] /\ (u \in open' <=> u \in open)
  BY <1>1, <1>2 DEF CallOf, Lfta, OperatorsOK
<1>5. merge' = merge /\ groupby' = groupby /\ out' = out
  BY DEF CallOf, Lfta, hfta
<1>6. Posts(lfta[s], r, s \in open') /\ chan[s] \in Seq(AnyTuples)
  BY <1>1, <1>2 DEF CallOf, OperatorsOK
<1>7. TablesOK'
  <2> SUFFICES ASSUME NEW u \in Sources PROVE StreamOK(u)'
    BY DEF TablesOK
  <2>1. CASE u = s
    <3>1. Streams(chan[s], lfta[s], TRUE)
      BY <1>1, <1>2 DEF TablesOK, StreamOK, Streams
    <3>2. Streams(chan[s] \o r.out, r.t, s \in open')
      BY <1>6, <3>1, PostsStreams
    <3>3. Streams(chan'[s], lfta'[s], s \in open')
      BY <1>4, <3>2
    <3> QED BY <2>1, <3>3 DEF Streams, StreamOK
  <2>2. CASE u # s
    <3>1. lfta'[u] = lfta[u] /\ chan'[u] = chan[u] /\ (u \in open' <=> u \in open)
      BY <1>4, <2>2
    <3>2. StreamOK(u)
      BY <1>1 DEF TablesOK
    <3> QED BY <3>1, <3>2 DEF StreamOK
  <2> QED BY <2>1, <2>2
<1>8. ChannelsAhead(merge[1])'
  <2> SUFFICES ASSUME NEW c \in Channels, NEW b \in Reached(merge'[1], c) PROVE Ahead(c + 1, b)'
    BY DEF ChannelsAhead
  <2>1. b \in Reached(merge[1], c) /\ c + 1 \in Sources
    BY <1>5, TwoSources
  <2>2. Ahead(c + 1, b)
    BY <1>3, <2>1 DEF Going, ChannelsAhead
  <2>3. b \in Gbs
    <3>1. merge[1] \in MergeOps
      BY <1>1, TwoSources DEF OperatorsOK
    <3> QED BY <2>1, <3>1, MergeNats DEF Reached
  <2>4. CASE c + 1 = s
    <3>1. Comes(chan[s], lfta[s], TRUE, b)
      BY <1>2, <2>2, <2>4 DEF Ahead, Comes
    <3>2. Comes(chan[s] \o r.out, r.t, s \in open', b)
      BY <1>6, <2>3, <3>1, PostsComes
    <3>3. Comes(chan'[s], lfta'[s], s \in open', b)
      BY <1>4, <3>2
    <3> QED BY <2>4, <3>3 DEF Comes, Ahead
  <2>5. CASE c + 1 # s
    <3>1. lfta'[c + 1] = lfta[c + 1] /\ chan'[c + 1] = chan[c + 1] /\ (c + 1 \in open' <=> c + 1 \in open)
      BY <1>4, <2>1, <2>5
    <3> QED BY <2>2, <3>1 DEF Ahead
  <2> QED BY <2>4, <2>5
<1>9. ASSUME NEW k \in Keys PROVE sent'[k] = InSeq(out', k) + Parts(k)'
  <2>1. PICK d \in Nat : Balance(lfta[s], r, k, d) /\ sent'[k] = sent[k] + d
    BY DEF CountsOf
  <2>2. r.t \in Lftas /\ r.out \in Seq(AnyTuples) /\ Lfta(s, r)
    BY <1>6 DEF Posts, CallOf
  <2>3. Parts(k)' = Parts(k) + d
    BY <1>1, <1>2, <2>1, <2>2, PartsLfta
  <2>4. sent[k] = InSeq(out, k) + Parts(k)
    BY <1>3 DEF Going
  <2>5. InSeq(out, k) \in Nat
    BY <1>1, CountedAll, InSeqTotal DEF OperatorsOK
  <2> DEFINE x == InSeq(out, k)
             y == Parts(k)
             z == Parts(k)'
  <2>6. y \in Nat
    <3>1. 1 \in Sources /\ 2 \in Sources /\ 1 \in Merges
      BY TwoSources
    <3> QED BY <1>1, <3>1, WaitingNats DEF Parts
  <2>7. sent[k] = x + y /\ z = y + d /\ InSeq(out', k) = x /\ x \in Nat
    BY <1>5, <2>3, <2>4, <2>5
  <2> HIDE DEF x, y, z
  <2>8. sent'[k] = x + z
    BY <2>1, <2>6, <2>7
  <2> QED BY <2>7, <2>8 DEF z
<1>10. Going'
  <2>1. MergeOK(merge'[1]) /\ (\A c \in Channels : groupby'.last_gb <= merge'[1].last[c]) /\ Kept(groupby', out')
    BY <1>3, <1>5 DEF Going
  <2> QED BY <1>8, <1>9, <2>1 DEF Going
<1>11. Read' # Sources'
  BY <1>2 DEF CallOf, Sources
<1> QED
  BY <1>7, <1>10, <1>11, CountInvPartsNext DEF CountInvIs

LEMMA CountPacket ==
  ASSUME N = 2, CountInv, EndInv', NEW s \in Sources, NEW e \in Epochs, NEW g \in Groups, Packet(s, e, g),
         sent \in [Keys -> Nat]
  PROVE  CountInv'
<1> DEFINE t == lfta[s]
           r == Accept(t, e, g)
<1>1. s \in open /\ e >= t.last_time /\ Lfta(s, r) /\ sent' = [sent EXCEPT ![<<e, g>>] = @ + 1] /\ open' = open
  BY DEF Packet
<1>2. t \in Lftas /\ TableOK(t)
  BY DEF CountInv, EndInv, OperatorsOK, TablesOK, StreamOK
<1>3. e \in Gbs /\ g \in Grps /\ e \in Nat /\ t.last_time \in Nat
  BY <1>2, Numbers, LftaNats
<1>4. t.last_time <= e
  BY <1>1, <1>3
<1>5. InOrder(t, r) /\ \A k : Balance(t, r, k, Added(k, e, g))
  BY <1>2, <1>3, <1>4, AcceptKeeps
<1> HIDE DEF r
<1>6. CallOf(s, r)
  <2>1. s \in open' /\ s \notin Read'
    BY <1>1 DEF Read
  <2>2. Posts(t, r, s \in open')
    BY <1>5, <2>1, InOrderPosts
  <2> QED BY <1>1, <2>1, <2>2 DEF CallOf
<1>7. CountsOf(s, r)
  <2> SUFFICES ASSUME NEW k \in Keys PROVE \E d \in Nat : Balance(t, r, k, d) /\ sent'[k] = sent[k] + d
    BY DEF CountsOf
  <2>1. k = <<k[1], k[2]>> /\ sent[k] \in Nat
    BY DEF Keys
  <2>2. Added(k, e, g) \in Nat
    BY DEF Added
  <2>3. sent'[k] = sent[k] + Added(k, e, g)
    <3>1. CASE k = <<e, g>>
      <4>1. Added(k, e, g) = 1
        BY <3>1 DEF Added
      <4> QED BY <1>1, <3>1, <4>1
    <3>2. CASE k # <<e, g>>
      <4>1. Added(k, e, g) = 0
        BY <2>1, <3>2 DEF Added
      <4> QED BY <1>1, <2>1, <3>2, <4>1
    <3> QED BY <3>1, <3>2
  <2> QED BY <1>5, <2>2, <2>3
<1> QED
  BY <1>6, <1>7, CountLfta

(* A call that counts no packet. *)
LEMMA CountSilent ==
  ASSUME NEW s, NEW r, \A k : Balance(lfta[s], r, k, 0), sent \in [Keys -> Nat], sent' = sent
  PROVE  CountsOf(s, r)
<1> SUFFICES ASSUME NEW k \in Keys PROVE \E d \in Nat : Balance(lfta[s], r, k, d) /\ sent'[k] = sent[k] + d
  BY DEF CountsOf
<1>1. sent'[k] = sent[k] + 0 /\ Balance(lfta[s], r, k, 0)
  OBVIOUS
<1> QED
  BY <1>1

LEMMA CountClock ==
  ASSUME N = 2, CountInv, EndInv', NEW s \in Sources, NEW e \in Epochs, Rejected(s, e) \/ ClockSignal(s, e),
         sent \in [Keys -> Nat]
  PROVE  CountInv'
<1> DEFINE t == lfta[s]
<1>1. t \in Lftas /\ TableOK(t)
  BY DEF CountInv, EndInv, OperatorsOK, TablesOK, StreamOK
<1>2. s \in open /\ e >= t.last_time /\ sent' = sent /\ open' = open
  BY DEF Rejected, ClockSignal
<1>3. e \in Gbs /\ t.last_time <= e
  <2>1. e \in Gbs /\ e \in Nat /\ t.last_time \in Nat
    BY <1>1, Numbers, LftaNats
  <2> QED BY <1>2, <2>1
<1>4. ASSUME NEW r, Lfta(s, r), InOrder(t, r), \A k : Balance(t, r, k, 0) PROVE CountInv'
  <2>1. s \in open' /\ s \notin Read'
    BY <1>2 DEF Read
  <2>2. Posts(t, r, s \in open')
    BY <1>4, <2>1, InOrderPosts
  <2>3. CallOf(s, r)
    BY <1>2, <1>4, <2>1, <2>2 DEF CallOf
  <2>4. CountsOf(s, r)
    BY <1>2, <1>4, CountSilent
  <2> QED BY <2>3, <2>4, CountLfta
<1>5. CASE Rejected(s, e)
  <2>1. Lfta(s, Prelim(t, e))
    BY <1>5 DEF Rejected
  <2>2. InOrder(t, Prelim(t, e)) /\ \A k : Balance(t, Prelim(t, e), k, 0)
    BY <1>1, <1>3, PrelimKeeps
  <2> QED BY <1>4, <2>1, <2>2
<1>6. CASE ClockSignal(s, e)
  <2>1. Lfta(s, Clock(t, e))
    BY <1>6 DEF ClockSignal
  <2>2. InOrder(t, Clock(t, e)) /\ \A k : Balance(t, Clock(t, e), k, 0)
    BY <1>1, <1>3, ClockKeeps
  <2> QED BY <1>4, <2>1, <2>2
<1> QED
  BY <1>5, <1>6

LEMMA CountEndOfFile ==
  ASSUME N = 2, CountInv, EndInv', NEW s \in Sources, EndOfFile(s), sent \in [Keys -> Nat]
  PROVE  CountInv'
<1> DEFINE t == lfta[s]
           r == FileDone(t)
<1>1. s \in open /\ open' = open \ {s} /\ Lfta(s, r) /\ sent' = sent
  BY DEF EndOfFile
<1>2. t \in Lftas /\ TableOK(t) /\ chan[s] \in Seq(AnyTuples) /\ chan \in [Sources -> Seq(AnyTuples)]
  BY DEF CountInv, EndInv, OperatorsOK, TablesOK, StreamOK
<1>3. Finishes(t, r) /\ \A k : Balance(t, r, k, 0)
  BY <1>2, FileDoneKeeps
<1>4. \E q \in Seq(DataTuples) : r.out = Append(q, Eof)
  BY <1>2, FileDoneType
<1> HIDE DEF r
<1>5. r.out \in Seq(AnyTuples) /\ r.out # <<>>
  <2>1. PICK q \in Seq(DataTuples) : r.out = Append(q, Eof)
    BY <1>4
  <2>2. q \in Seq(AnyTuples) /\ Eof \in AnyTuples
    BY DataNoEof, EofType
  <2> HIDE DEF Eof
  <2>3. Append(q, Eof) # <<>> /\ Append(q, Eof) \in Seq(AnyTuples)
    BY <2>2
  <2> QED BY <2>1, <2>3
<1>6. chan'[s] # <<>>
  <2> DEFINE x == chan[s]
             y == r.out
  <2>1. x \in Seq(AnyTuples) /\ y \in Seq(AnyTuples) /\ y # <<>>
    BY <1>2, <1>5
  <2>2. chan'[s] = x \o y
    BY <1>1, <1>2 DEF Lfta
  <2> HIDE DEF x, y
  <2>3. Len(x \o y) = Len(x) + Len(y) /\ Len(x) \in Nat /\ Len(y) \in Nat /\ Len(y) # 0
    BY <2>1
  <2>4. Len(<<>>) = 0
    OBVIOUS
  <2> QED BY <2>2, <2>3, <2>4
<1>7. CallOf(s, r)
  <2>1. s \notin open' /\ s \notin Read'
    BY <1>1, <1>6 DEF Read
  <2>2. Posts(t, r, s \in open')
    BY <1>3, <2>1, FinishesPosts
  <2>3. \A u \in Sources \ {s} : u \in open' <=> u \in open
    BY <1>1
  <2> QED BY <1>1, <2>1, <2>2, <2>3 DEF CallOf
<1>8. CountsOf(s, r)
  BY <1>1, <1>3, CountSilent
<1> QED
  BY <1>7, <1>8, CountLfta

-----------------------------------------------------------------------------
(* What the HFTA does with a tuple. *)

LEMMA TailAt ==
  ASSUME NEW S, NEW q \in Seq(S), q # <<>>
  PROVE  /\ Tail(q) \in Seq(S) /\ Len(Tail(q)) = Len(q) - 1 /\ Len(q) \in Nat /\ 1 \in 1 .. Len(q) /\ Head(q) = q[1]
         /\ \A i \in 1 .. Len(Tail(q)) : i + 1 \in 1 .. Len(q) /\ Tail(q)[i] = q[i + 1]
  OBVIOUS

(* The rest of a stream. *)
LEMMA TailStreams ==
  ASSUME NEW q \in Seq(AnyTuples), q # <<>>, NEW t, NEW on, Streams(q, t, on)
  PROVE  /\ Streams(Tail(q), t, on) /\ Comes(Tail(q), t, on, Head(q).gb)
         /\ \A b : Comes(q, t, on, b) => Comes(Tail(q), t, on, b)
<1> DEFINE p == Tail(q)
<1>1. /\ p \in Seq(AnyTuples) /\ Len(p) = Len(q) - 1 /\ Len(q) \in Nat /\ 1 \in 1 .. Len(q) /\ Head(q) = q[1]
      /\ \A i \in 1 .. Len(p) : i + 1 \in 1 .. Len(q) /\ p[i] = q[i + 1]
  BY TailAt
<1> HIDE DEF p
<1>2. /\ TableOK(t) /\ Orderly(q) /\ TempsEmpty(q) /\ (on => \A i \in 1 .. Len(q) : AtLeast(t, q[i].gb))
      /\ (~on => Filled(t) = {})
  BY DEF Streams
<1>3. Orderly(p)
  <2> SUFFICES ASSUME NEW j \in 1 .. Len(p), IsRegular(p[j]), NEW i \in 1 .. j - 1 PROVE p[i].gb <= p[j].gb
    BY DEF Orderly
  <2>1. j + 1 \in 1 .. Len(q) /\ p[j] = q[j + 1]
    BY <1>1
  <2>2. i \in 1 .. Len(p) /\ i + 1 \in 1 .. (j + 1) - 1
    BY <1>1
  <2>3. p[i] = q[i + 1]
    BY <1>1, <2>2
  <2>4. q[i + 1].gb <= q[j + 1].gb
    BY <1>2, <2>1, <2>2 DEF Orderly
  <2> QED BY <2>1, <2>3, <2>4
<1>4. TempsEmpty(p)
  BY <1>1, <1>2 DEF TempsEmpty
<1>5. on => \A i \in 1 .. Len(p) : AtLeast(t, p[i].gb)
  BY <1>1, <1>2
<1>6. Streams(p, t, on)
  BY <1>2, <1>3, <1>4, <1>5 DEF Streams
<1>7. Comes(p, t, on, Head(q).gb)
  <2>1. ASSUME NEW i \in 1 .. Len(p), IsRegular(p[i]) PROVE Head(q).gb <= p[i].gb
    <3>1. i + 1 \in 1 .. Len(q) /\ p[i] = q[i + 1] /\ 1 \in 1 .. (i + 1) - 1
      BY <1>1
    <3>2. q[1].gb <= q[i + 1].gb
      BY <1>2, <2>1, <3>1 DEF Orderly
    <3> QED BY <1>1, <3>1, <3>2
  <2>2. on => AtLeast(t, Head(q).gb)
    BY <1>1, <1>2
  <2> QED BY <2>1, <2>2 DEF Comes
<1>8. ASSUME NEW b, Comes(q, t, on, b) PROVE Comes(p, t, on, b)
  BY <1>1, <1>8 DEF Comes
<1> QED
  BY <1>6, <1>7, <1>8 DEF p

LEMMA GroupByAllNone ==
  ASSUME NEW b \in GroupBysOK
  PROVE  GroupByAll(b, <<>>) = [op |-> b, out |-> <<>>]
<1> DEFINE q == <<>>
<1>1. q \in Seq(DataTuples) /\ Len(q) = 0
  OBVIOUS
<1> HIDE DEF q
<1>2. PICK r : GroupByAll(b, q) = r[Len(q)] /\ GroupedAt(b, q, r)
  BY <1>1, GroupByAllSolves, Zenon
<1>3. r[0] = [op |-> b, out |-> <<>>]
  BY <1>2 DEF GroupedAt
<1> QED
  BY <1>1, <1>2, <1>3 DEF q

(* The group-by takes what the merge puts out for a tuple: nothing of it is *)
(* behind the epoch that the group-by is in. *)
Summing(m, b) == m \in MergeOps /\ \A d \in Channels : b.last_gb <= m.last[d]

LEMMA GroupMerged ==
  ASSUME NEW m, NEW b, NEW q, Summing(m, b), Kept(b, q), NEW tup, NEW c \in Channels, NEW a, Merged(m, tup, c, a)
  PROVE  LET f == GroupByAll(b, a.out)
         IN  /\ Kept(f.op, q \o f.out) /\ f.out \in Seq(StreamTuples) /\ Summing(a.op, f.op)
             /\ IsTemp(tup) /\ f.out # <<>> => IsTemp(f.out[Len(f.out)])
             /\ \A k : Summed(b, k) + InSeq(a.out, k) = Summed(f.op, k) + InSeq(f.out, k)
<1> DEFINE o == a.out
           l == Len(o)
           f == GroupByAll(b, o)
<1>1. /\ a.op \in MergeOps /\ o \in Seq(StreamTuples) /\ Sorted(o) /\ \A i \in 1 .. l : Between(m, a.op, o[i].gb)
      /\ \A d \in Channels : m.last[d] <= a.op.last[d]
      /\ (IsTemp(tup) /\ o # <<>> => IsTemp(o[l]))
  BY DEF Merged
<1>2. /\ b \in GroupBysOK /\ b.last_gb \in Nat /\ \A d \in Channels : m.last[d] \in Nat /\ a.op.last[d] \in Nat /\ b.last_gb <= m.last[d]
  BY <1>1, GroupNats, MergeNats DEF Kept, Summing
<1>3. 0 \in Channels /\ 1 \in Channels /\ \A d \in Channels : d = 0 \/ d = 1
  BY DEF Channels
<1>4. \A i \in 1 .. l : o[i].gb \in Nat /\ o[i] \in StreamTuples
  <2> SUFFICES ASSUME NEW i \in 1 .. l PROVE o[i].gb \in Nat /\ o[i] \in StreamTuples
    OBVIOUS
  <2> HIDE DEF o
  <2>1. o[i] \in StreamTuples
    BY <1>1
  <2> QED BY <2>1, ThroughIs
<1>5. ASSUME NEW i \in 1 .. l PROVE b.last_gb <= o[i].gb /\ \A d \in Channels : o[i].gb <= a.op.last[d]
  <2>1. Between(m, a.op, o[i].gb) /\ o[i].gb \in Nat
    BY <1>1, <1>4
  <2> HIDE DEF o
  <2> QED BY <1>2, <1>3, <2>1 DEF Between
<1> HIDE DEF o
<1>6. GroupedUpTo(b, q, o, l, f) /\ \A k : SummedBy(b, f, k, InSeq(o, k))
  BY <1>1, <1>5, GroupByAllKeeps
<1> HIDE DEF f
<1>7. Kept(f.op, q \o f.out) /\ f.out \in Seq(StreamTuples)
  BY <1>6 DEF GroupedUpTo, KeptBy
<1>8. l \in Nat /\ (l = 0 <=> o = <<>>)
  BY <1>1
<1>9. Summing(a.op, f.op)
  <2>1. f.op.last_gb = IF l = 0 THEN b.last_gb ELSE o[l].gb
    BY <1>6 DEF GroupedUpTo
  <2>2. CASE l = 0
    <3>1. ASSUME NEW d \in Channels PROVE b.last_gb <= a.op.last[d]
      <4>1. m.last[d] \in Nat /\ a.op.last[d] \in Nat /\ b.last_gb <= m.last[d] /\ m.last[d] <= a.op.last[d]
        BY <1>1, <1>2
      <4> QED BY <1>2, <4>1
    <3> QED BY <1>1, <2>1, <2>2, <3>1 DEF Summing
  <2>3. CASE l # 0
    <3>1. l \in 1 .. l
      BY <1>8, <2>3
    <3> QED BY <1>1, <1>5, <2>1, <2>3, <3>1 DEF Summing
  <2> QED BY <2>2, <2>3
<1>10. ASSUME IsTemp(tup), f.out # <<>> PROVE IsTemp(f.out[Len(f.out)])
  <2>1. l # 0
    <3> SUFFICES ASSUME l = 0 PROVE FALSE
      OBVIOUS
    <3>1. o = <<>>
      BY <1>8
    <3>2. f = [op |-> b, out |-> <<>>]
      BY <1>2, <3>1, GroupByAllNone DEF f
    <3> QED BY <1>10, <3>2
  <2>2. IsTemp(o[l])
    BY <1>1, <1>8, <1>10, <2>1
  <2> QED BY <1>6, <2>1, <2>2 DEF GroupedUpTo
<1>11. \A k : Summed(b, k) + InSeq(o, k) = Summed(f.op, k) + InSeq(f.out, k)
  BY <1>6 DEF SummedBy
<1> QED
  BY <1>7, <1>9, <1>10, <1>11 DEF f, o

(* The tuple at the head of a channel. *)
LEMMA HeadTuple ==
  ASSUME CountInv, NEW s \in Sources, chan[s] # <<>>, Head(chan[s]).type # "EOF"
  PROVE  /\ Head(chan[s]) \in StreamTuples
         /\ \A b : Ahead(s, b) /\ IsRegular(Head(chan[s])) => b <= Head(chan[s]).gb
<1> DEFINE q == chan[s]
           h == Head(q)
<1>1. q \in Seq(AnyTuples) /\ TempsEmpty(q)
  BY DEF CountInv, EndInv, OperatorsOK, TablesOK, StreamOK
<1>2. 1 \in 1 .. Len(q) /\ h = q[1]
  BY <1>1, TailAt
<1>3. h \in AnyTuples
  BY <1>1, <1>2
<1>4. ~IsRegular(h) => h.cnt = 0
  BY <1>1, <1>2 DEF TempsEmpty
<1>5. h \in DataTuples
  <2> HIDE DEF h
  <2>1. h.type # "EOF"
    BY DEF h
  <2> QED BY <1>3, <2>1 DEF AnyTuples, Eof
<1>6. ASSUME NEW b, Ahead(s, b), IsRegular(h) PROVE b <= h.gb
  BY <1>2, <1>6 DEF Ahead
<1> QED
  BY <1>4, <1>5, <1>6 DEF StreamTuples

(* The HFTA takes the head of the channel of s. *)
Takes(s) == chan[s] # <<>> /\ chan' = [chan EXCEPT ![s] = Tail(@)] /\ lfta' = lfta /\ open' = open
(* Its operators stand for g and q packets of k then. *)
Hold(k, g, q) == g = Summed(groupby', k) /\ q = InSeq(merge'[1].queue, k)

(* What the parts amount to when the HFTA has taken h from the channel of s. *)
LEMMA PartsTaken ==
  ASSUME N = 2, OperatorsOK, NEW s \in Sources, Takes(s), NEW k, NEW g \in Nat, NEW q \in Nat, Hold(k, g, q)
  PROVE  /\ Share(Head(chan[s]), k) \in Nat /\ Parts(k)' \in Nat /\ Parts(k) \in Nat
         /\ Parts(k) + g + q = Parts(k)' + Summed(groupby, k) + InSeq(merge[1].queue, k) + Share(Head(chan[s]), k)
<1> DEFINE c == InSeq(chan[s], k)
           d == InSeq(Tail(chan[s]), k)
           x == Share(Head(chan[s]), k)
           G == Summed(groupby, k)
           Q == InSeq(merge[1].queue, k)
           h == Held(lfta[1], k[1], k[2])
           i == Held(lfta[2], k[1], k[2])
<1>1. chan \in [Sources -> Seq(AnyTuples)] /\ chan[s] \in Seq(Counted)
  BY CountedAll DEF OperatorsOK, Takes
<1>2. c = x + d /\ x \in Nat /\ d \in Nat
  BY <1>1, InSeqHead DEF Takes
<1>3. chan'[s] = Tail(chan[s]) /\ \A u \in Sources \ {s} : chan'[u] = chan[u]
  BY <1>1 DEF Takes
<1>4. G \in Nat /\ Q \in Nat /\ h \in Nat /\ i \in Nat /\ c \in Nat
  BY WaitingNats, TwoSources
<1>5. CASE s = 1
  <2> DEFINE e == InSeq(chan[2], k)
  <2>1. 2 \in Sources \ {s}
    BY <1>5, TwoSources
  <2>2. e \in Nat /\ chan'[2] = chan[2]
    BY <1>3, <2>1, WaitingNats
  <2>3. Parts(k) = G + h + c + Q + i + e
    BY <1>5 DEF Parts
  <2>4. Parts(k)' = g + h + d + q + i + e
    BY <1>3, <1>5, <2>2 DEF Parts, Takes, Hold
  <2> DEFINE y == Parts(k)
             z == Parts(k)'
  <2>5. y = G + h + c + Q + i + e /\ z = g + h + d + q + i + e
    BY <2>3, <2>4
  <2> HIDE DEF c, d, x, G, Q, h, i, e, y, z
  <2> DEFINE R == h + i + e
  <2>7. R \in Nat /\ y = G + Q + R + c /\ z = g + q + R + d
    BY <1>2, <1>4, <2>2, <2>5
  <2> HIDE DEF R
  <2>8. y \in Nat /\ z \in Nat
    BY <1>2, <1>4, <2>7
  <2>6. z \in Nat /\ y \in Nat /\ y + g + q = z + G + Q + x
    BY <1>2, <1>4, <2>7, <2>8
  <2> QED BY <1>2, <2>6 DEF x, G, Q, y, z
<1>6. CASE s = 2
  <2> DEFINE e == InSeq(chan[1], k)
  <2>1. 1 \in Sources \ {s}
    BY <1>6, TwoSources
  <2>2. e \in Nat /\ chan'[1] = chan[1]
    BY <1>3, <2>1, WaitingNats
  <2>3. Parts(k) = G + h + e + Q + i + c
    BY <1>6 DEF Parts
  <2>4. Parts(k)' = g + h + e + q + i + d
    BY <1>3, <1>6, <2>2 DEF Parts, Takes, Hold
  <2> DEFINE y == Parts(k)
             z == Parts(k)'
  <2>5. y = G + h + e + Q + i + c /\ z = g + h + e + q + i + d
    BY <2>3, <2>4
  <2> HIDE DEF c, d, x, G, Q, h, i, e, y, z
  <2> DEFINE R == h + i + e
  <2>7. R \in Nat /\ y = G + Q + R + c /\ z = g + q + R + d
    BY <1>2, <1>4, <2>2, <2>5
  <2> HIDE DEF R
  <2>8. y \in Nat /\ z \in Nat
    BY <1>2, <1>4, <2>7
  <2>6. z \in Nat /\ y \in Nat /\ y + g + q = z + G + Q + x
    BY <1>2, <1>4, <2>7, <2>8
  <2> QED BY <1>2, <2>6 DEF x, G, Q, y, z
<1> QED
  BY <1>5, <1>6, TwoSources

(* The streams when the head of the channel of s has been read. *)
LEMMA TablesRead ==
  ASSUME CountInv, NEW s \in Sources, Takes(s)
  PROVE  /\ TablesOK'
         /\ \A u \in Sources : \A b : Ahead(u, b) => Ahead(u, b)'
         /\ \A b : b = Head(chan[s]).gb => Ahead(s, b)'
<1>0. chan[s] # <<>> /\ chan' = [chan EXCEPT ![s] = Tail(@)] /\ lfta' = lfta /\ open' = open
  BY DEF Takes
<1>1. chan \in [Sources -> Seq(AnyTuples)] /\ TablesOK
  BY DEF CountInv, EndInv, OperatorsOK
<1>2. chan'[s] = Tail(chan[s]) /\ chan[s] \in Seq(AnyTuples) /\ \A u \in Sources \ {s} : chan'[u] = chan[u]
  BY <1>0, <1>1
<1>3. Streams(chan[s], lfta[s], s \in open)
  BY <1>1 DEF TablesOK, StreamOK, Streams
<1>4. /\ Streams(chan'[s], lfta[s], s \in open) /\ Comes(chan'[s], lfta[s], s \in open, Head(chan[s]).gb)
      /\ \A b : Comes(chan[s], lfta[s], s \in open, b) => Comes(chan'[s], lfta[s], s \in open, b)
  BY <1>0, <1>2, <1>3, TailStreams
<1>5. TablesOK'
  <2> SUFFICES ASSUME NEW u \in Sources PROVE StreamOK(u)'
    BY DEF TablesOK
  <2>1. CASE u = s
    BY <1>0, <1>4, <2>1 DEF Streams, StreamOK
  <2>2. CASE u # s
    <3>1. chan'[u] = chan[u] /\ StreamOK(u)
      BY <1>0, <1>1, <1>2, <2>2 DEF TablesOK
    <3> QED BY <1>0, <3>1 DEF StreamOK
  <2> QED BY <2>1, <2>2
<1>6. ASSUME NEW u \in Sources, NEW b, Ahead(u, b) PROVE Ahead(u, b)'
  <2>1. CASE u = s
    <3>1. Comes(chan[s], lfta[s], s \in open, b)
      BY <1>6, <2>1 DEF Ahead, Comes
    <3>2. Comes(chan'[s], lfta[s], s \in open, b)
      BY <1>4, <3>1
    <3> QED BY <1>0, <2>1, <3>2 DEF Ahead, Comes
  <2>2. CASE u # s
    <3>1. chan'[u] = chan[u]
      BY <1>2, <2>2
    <3> QED BY <1>0, <1>6, <3>1 DEF Ahead
  <2> QED BY <2>1, <2>2
<1>7. ASSUME NEW b, b = Head(chan[s]).gb PROVE Ahead(s, b)'
  <2>1. Comes(chan'[s], lfta[s], s \in open, b)
    BY <1>4, <1>7
  <2> QED BY <1>0, <2>1 DEF Ahead, Comes
<1> QED
  BY <1>5, <1>6, <1>7

LEMMA SumsPassed ==
  ASSUME NEW S \in Nat, NEW Q \in Nat, NEW x \in Nat, NEW A \in Nat, NEW F \in Nat, NEW g \in Nat, NEW q \in Nat,
         NEW y \in Nat, NEW z \in Nat, S + A = g + F, Q + x = q + A, y + g + q = z + S + Q + x
  PROVE  y = z + F
  OBVIOUS

(* What the HFTA makes of a tuple. *)
Makes(s, tup, a, f, more) ==
  /\ merge[1] \in MergeOps /\ Merged(merge[1], tup, s - 1, a) /\ merge'[1] = a.op
  /\ groupby' = f.op /\ f.out \in Seq(StreamTuples) /\ Kept(f.op, out \o f.out) /\ Summing(a.op, f.op)
  /\ \A k : Summed(groupby, k) + InSeq(a.out, k) = Summed(f.op, k) + InSeq(f.out, k)
  /\ out' = out \o more /\ more \in Seq(StreamTuples) /\ IsPart(more, f.out)
  /\ \A k : InSeq(more, k) = InSeq(f.out, k)

LEMMA ConsumeMakes ==
  ASSUME N = 2, CountInv, NEW s \in Sources, Consume(s)
  PROVE  Takes(s) /\ sent' = sent /\ \E a, f, more : Makes(s, Head(chan[s]), a, f, more)
<1> DEFINE tup  == Head(chan[s])
           m    == merge[1]
           c    == s - 1
           a    == MergeAccept(m, tup, c)
           f    == GroupByAll(groupby, a.out)
           more == Finalized(f.out, tup)
<1>1. /\ chan[s] # <<>> /\ tup.type # "EOF" /\ chan' = [chan EXCEPT ![s] = Tail(@)]
      /\ UNCHANGED <<lfta, open, sent, clocks, eofs>>
  BY DEF Consume
<1>2. Takes(s) /\ sent' = sent
  BY <1>1 DEF Takes
<1>3. tup \in StreamTuples /\ \A b : Ahead(s, b) /\ IsRegular(tup) => b <= tup.gb
  BY <1>1, HeadTuple
<1>4. tup \in DataTuples
  BY <1>3 DEF StreamTuples
<1>5. EndInv /\ merge \in [Merges -> MergeOps] /\ m \in MergeOps /\ c \in Channels /\ c + 1 = s
  BY TwoSources DEF CountInv, EndInv, OperatorsOK
<1>6. Going
  <2>1. s \notin Read
    BY <1>1 DEF Read
  <2> QED BY <2>1, CountInvParts DEF CountInvIs
<1>7. Route(s, tup)[1] = a
  <2> HIDE DEF tup
  <2> QED BY <1>4, <1>5, RouteTwo DEF m
<1>8. groupby' = f.op /\ out' = out \o more /\ merge'[1] = a.op
  <2>1. /\ groupby' = GroupByAll(groupby, Route(s, tup)[N - 1].out).op
        /\ out' = out \o Finalized(GroupByAll(groupby, Route(s, tup)[N - 1].out).out, tup)
        /\ merge' = [i \in Merges |-> IF s <= i + 1 THEN Route(s, tup)[i].op ELSE merge[i]]
    BY DEF Consume
  <2>2. N - 1 = 1 /\ 1 \in Merges /\ s <= 1 + 1
    BY TwoSources
  <2> HIDE DEF a, tup
  <2> QED BY <1>7, <2>1, <2>2, SMTT(30)
<1> HIDE DEF tup
<1>9. Merged(m, tup, c, a)
  <2>1. MergeOK(m) /\ \A b \in Reached(m, c) : Ahead(c + 1, b)
    BY <1>5, <1>6 DEF Going, ChannelsAhead
  <2>2. IsRegular(tup) => \A b \in Reached(m, c) : b <= tup.gb
    BY <1>3, <1>5, <2>1
  <2> HIDE DEF c, m
  <2> QED BY <1>3, <1>5, <2>1, <2>2, MergeAcceptKeeps
<1> HIDE DEF a
<1>10. Summing(m, groupby) /\ Kept(groupby, out)
  BY <1>5, <1>6 DEF Going, Summing
<1>11. /\ Kept(f.op, out \o f.out) /\ f.out \in Seq(StreamTuples) /\ Summing(a.op, f.op)
       /\ (IsTemp(tup) /\ f.out # <<>> => IsTemp(f.out[Len(f.out)]))
       /\ \A k : Summed(groupby, k) + InSeq(a.out, k) = Summed(f.op, k) + InSeq(f.out, k)
  <2> HIDE DEF c, m
  <2> QED BY <1>5, <1>9, <1>10, GroupMerged
<1> HIDE DEF f
<1>12. more \in Seq(StreamTuples) /\ IsPart(more, f.out) /\ \A k : InSeq(more, k) = InSeq(f.out, k)
  BY <1>11, FinalizedKeeps
<1> HIDE DEF more
<1>13. Makes(s, tup, a, f, more)
  BY <1>5, <1>8, <1>9, <1>11, <1>12 DEF Makes
<1> QED
  BY <1>2, <1>13, Zenon DEF tup

LEMMA MadeGoes ==
  ASSUME N = 2, CountInv, EndInv', NEW s \in Sources, Takes(s), sent' = sent,
         NEW a, NEW f, NEW more, Makes(s, Head(chan[s]), a, f, more), Read # Sources
  PROVE  TablesOK' /\ Going'
<1> DEFINE tup == Head(chan[s])
           m   == merge[1]
           c   == s - 1
<1>1. Going /\ OperatorsOK
  BY CountInvParts DEF CountInvIs, CountInv, EndInv
<1>2. /\ TablesOK' /\ (\A u \in Sources : \A b : Ahead(u, b) => Ahead(u, b)')
      /\ \A b : b = tup.gb => Ahead(s, b)'
  BY TablesRead
<1>3. c \in Channels /\ c + 1 = s /\ \A d \in Channels : d + 1 \in Sources /\ (d = c \/ d = 1 - c)
  BY TwoSources, OtherChannel
<1>4. Merged(m, tup, c, a) /\ merge'[1] = a.op /\ groupby' = f.op /\ m \in MergeOps
  BY DEF Makes
<1> HIDE DEF tup
<1>5. MergeOK(a.op) /\ a.op \in MergeOps /\ a.out \in Seq(StreamTuples)
  BY <1>4 DEF Merged
<1>6. ChannelsAhead(merge[1])'
  <2> SUFFICES ASSUME NEW d \in Channels, NEW b \in Reached(merge'[1], d) PROVE Ahead(d + 1, b)'
    BY DEF ChannelsAhead
  <2>1. \A v \in Reached(m, d) : Ahead(d + 1, v)
    BY <1>1 DEF Going, ChannelsAhead
  <2>2. b \in Reached(a.op, d) /\ d + 1 \in Sources
    BY <1>3, <1>4
  <2>3. CASE d = c
    <3>1. b \in Reached(m, c) \/ b = tup.gb
      BY <1>4, <2>2, <2>3 DEF Merged
    <3> HIDE DEF c, m
    <3> QED BY <1>2, <1>3, <2>1, <2>2, <2>3, <3>1
  <2>4. CASE d = 1 - c
    <3>1. b \in Reached(m, d)
      BY <1>4, <2>2, <2>4 DEF Merged
    <3> QED BY <1>2, <2>1, <2>2, <3>1
  <2> QED BY <1>3, <2>3, <2>4
<1>7. Kept(groupby', out')
  <2> DEFINE y == f.out
  <2>1. y \in Seq(StreamTuples) /\ more \in Seq(StreamTuples) /\ IsPart(more, y) /\ Kept(f.op, out \o y) /\ out' = out \o more
    BY DEF Makes
  <2>2. out \in Seq(AnyTuples) /\ y \in Seq(AnyTuples) /\ more \in Seq(AnyTuples)
    BY <1>1, <2>1, StreamSeqs DEF OperatorsOK
  <2> HIDE DEF y
  <2>3. out \o more \in Seq(AnyTuples)
    BY <2>2
  <2>4. IsPart(out \o more, out \o y)
    BY <2>1, <2>2, PartAfter
  <2>5. Kept(f.op, out \o more)
    BY <2>1, <2>3, <2>4, PartKept
  <2> QED BY <1>4, <2>1, <2>5
<1>8. \A d \in Channels : groupby'.last_gb <= merge'[1].last[d]
  BY <1>4 DEF Makes, Summing
<1>9. ASSUME NEW k \in Keys PROVE sent'[k] = InSeq(out', k) + Parts(k)'
  <2> DEFINE S == Summed(groupby, k)
             Q == InSeq(m.queue, k)
             x == Share(tup, k)
             A == InSeq(a.out, k)
             F == InSeq(f.out, k)
             g == Summed(f.op, k)
             q == InSeq(a.op.queue, k)
             y == Parts(k)
             z == Parts(k)'
             O == InSeq(out, k)
  <2>1. S \in Nat /\ Q \in Nat
    BY <1>1, WaitingNats, TwoSources
  <2>2. A \in Nat
    <3>1. a.out \in Seq(Counted)
      BY <1>5, StreamSeqs
    <3> QED BY <3>1, InSeqTotal
  <2>3. q \in Nat
    <3>1. a.op.queue \in Seq(Counted)
      BY <1>5, MergeFields, CountedAll
    <3> QED BY <3>1, InSeqTotal
  <2>4. g \in Nat
    <3>1. f.op \in GroupBysOK
      BY DEF Makes, Kept
    <3> QED BY <3>1, SummedIs
  <2>5. F \in Nat /\ O \in Nat /\ InSeq(out', k) = O + F
    <3>1. more \in Seq(Counted) /\ f.out \in Seq(Counted) /\ out \in Seq(Counted)
      BY <1>1, StreamSeqs, CountedAll DEF Makes, OperatorsOK
    <3>2. InSeq(out \o more, k) = InSeq(out, k) + InSeq(more, k)
      BY <3>1, InSeqConcat
    <3>3. InSeq(more, k) = F /\ out' = out \o more
      BY DEF Makes
    <3> QED BY <3>1, <3>2, <3>3, InSeqTotal
  <2>6. x \in Nat /\ y \in Nat /\ z \in Nat /\ y + g + q = z + S + Q + x
    <3> HIDE DEF g, q
    <3>1. Hold(k, g, q)
      BY <1>4 DEF Hold, g, q
    <3> QED BY <1>1, <2>3, <2>4, <3>1, PartsTaken DEF tup
  <2>7. S + A = g + F
    BY DEF Makes
  <2>8. Q + x = q + A
    BY <1>4 DEF Merged
  <2>9. sent'[k] = O + y
    BY <1>1 DEF Going
  <2> HIDE DEF S, Q, x, A, F, g, q, y, z, O
  <2>10. y = z + F
    BY <2>1, <2>2, <2>3, <2>4, <2>5, <2>6, <2>7, <2>8, SumsPassed
  <2>11. sent'[k] = (O + F) + z
    BY <2>5, <2>6, <2>9, <2>10
  <2> QED BY <2>5, <2>11 DEF z
<1>10. Going'
  <2>1. MergeOK(merge'[1])
    BY <1>4, <1>5
  <2> QED BY <1>6, <1>7, <1>8, <1>9, <2>1 DEF Going
<1> QED
  BY <1>2, <1>10

LEMMA CountConsume ==
  ASSUME N = 2, CountInv, EndInv', NEW s \in Sources, Consume(s)
  PROVE  CountInv'
<1>1. Takes(s) /\ sent' = sent /\ \E a, f, more : Makes(s, Head(chan[s]), a, f, more)
  BY ConsumeMakes
<1>2. Read # Sources /\ Read' # Sources
  <2>1. EndInv /\ chan[s] # <<>> /\ chan' = [chan EXCEPT ![s] = Tail(@)] /\ open' = open /\ ~IsEof(Head(chan[s]))
    BY <1>1 DEF CountInv, Consume, IsEof, Takes
  <2>2. s \notin Read
    BY <2>1 DEF Read
  <2>3. UNCHANGED open
    BY <2>1
  <2>4. /\ ~IsEof(Head(chan[s])) => Read' = Read
        /\ IsEof(Head(chan[s])) => Read' = Read \cup {s}
    <3> HIDE DEF EndInv, IsEof, Read
    <3> QED BY <2>1, <2>3, EndRead, Zenon
  <2>5. Read' = Read
    BY <2>1, <2>4
  <2> QED BY <2>2, <2>5
<1>3. TablesOK' /\ Going'
  <2>1. PICK a, f, more : Makes(s, Head(chan[s]), a, f, more)
    BY <1>1
  <2> QED BY <1>1, <1>2, <2>1, MadeGoes
<1> QED
  BY <1>2, <1>3, CountInvPartsNext DEF CountInvIs, Sources

-----------------------------------------------------------------------------
(* What the HFTA does with the end of a stream. *)

LEMMA EofEnds ==
  ASSUME NEW q \in Seq(AnyTuples), Unique(q), Orderly(q)
  PROVE  /\ Unique(Append(q, Eof)) /\ Orderly(Append(q, Eof))
         /\ \A k : InSeq(Append(q, Eof), k) = InSeq(q, k)
<1> DEFINE z == Append(q, Eof)
<1>0. Eof \in AnyTuples /\ ~IsRegular(Eof) /\ Eof.cnt = 0
  BY EofType DEF IsRegular, Eof
<1> HIDE DEF Eof
<1>1. Len(q) \in Nat /\ Len(z) = Len(q) + 1 /\ z[Len(q) + 1] = Eof /\ \A i \in 1 .. Len(q) : z[i] = q[i]
  BY <1>0
<1> HIDE DEF z
<1>2. \A i \in 1 .. Len(z) : IsRegular(z[i]) => i \in 1 .. Len(q)
  BY <1>0, <1>1
<1>3. Unique(z)
  <2> SUFFICES ASSUME NEW i \in 1 .. Len(z), NEW j \in 1 .. Len(z),
                      IsRegular(z[i]), IsRegular(z[j]), z[i].gb = z[j].gb, z[i].grp = z[j].grp
               PROVE  i = j
    BY DEF Unique
  <2>1. i \in 1 .. Len(q) /\ j \in 1 .. Len(q)
    BY <1>2
  <2>2. z[i] = q[i] /\ z[j] = q[j]
    BY <1>1, <2>1
  <2> QED BY <2>1, <2>2 DEF Unique
<1>4. Orderly(z)
  <2> SUFFICES ASSUME NEW j \in 1 .. Len(z), IsRegular(z[j]), NEW i \in 1 .. j - 1 PROVE z[i].gb <= z[j].gb
    BY DEF Orderly
  <2>1. j \in 1 .. Len(q)
    BY <1>2
  <2>2. i \in 1 .. Len(q)
    BY <1>1, <2>1
  <2>3. z[i] = q[i] /\ z[j] = q[j]
    BY <1>1, <2>1, <2>2
  <2> QED BY <2>1, <2>3 DEF Orderly
<1>5. ASSUME NEW k PROVE InSeq(z, k) = InSeq(q, k)
  <2>1. q \in Seq(Counted) /\ Eof \in Counted
    BY <1>0, CountedAll
  <2>2. InSeq(Append(q, Eof), k) = InSeq(q, k) + Share(Eof, k) /\ InSeq(q, k) \in Nat
    BY <2>1, InSeqAppend, InSeqTotal
  <2>3. Share(Eof, k) = 0
    BY <1>0 DEF Share
  <2> QED BY <2>2, <2>3 DEF z
<1> QED
  BY <1>3, <1>4, <1>5 DEF z

(* The end of a stream stands for no packet. *)
LEMMA EofHead ==
  ASSUME EndInv, NEW s \in Sources, chan[s] # <<>>, IsEof(Head(chan[s])), NEW k
  PROVE  Share(Head(chan[s]), k) = 0
<1>1. chan[s] \in Seq(AnyTuples)
  BY DEF EndInv, OperatorsOK
<1>2. Head(chan[s]) \in AnyTuples
  BY <1>1, TailEnds
<1> DEFINE h == Head(chan[s])
<1>3. h \in AnyTuples /\ IsEof(h)
  BY <1>2
<1> HIDE DEF h
<1>4. h = Eof
  BY <1>3 DEF AnyTuples, DataTuples, IsEof
<1>5. h.cnt = 0
  BY <1>4 DEF Eof
<1>6. Share(h, k) = 0
  BY <1>5 DEF Share
<1> QED
  BY <1>6 DEF h

(* All sources are read: nothing is left before the merge. *)
LEMMA NothingLeft ==
  ASSUME N = 2, CountInv, NEW s \in Sources, Takes(s), IsEof(Head(chan[s])), Read' = Sources, NEW k
  PROVE  Parts(k) = Summed(groupby, k) + InSeq(merge[1].queue, k)
<1>1. EndInv /\ OperatorsOK /\ TablesOK /\ chan \in [Sources -> Seq(AnyTuples)] /\ chan[s] \in Seq(AnyTuples)
  BY DEF CountInv, EndInv, OperatorsOK
<1>2. chan[s] # <<>> /\ chan'[s] = Tail(chan[s]) /\ open' = open /\ \A u \in Sources \ {s} : chan'[u] = chan[u]
  BY <1>1 DEF Takes
<1>3. \A u \in Sources : u \notin open /\ chan'[u] = <<>>
  BY <1>2 DEF Read
<1>4. ASSUME NEW u \in Sources PROVE Held(lfta[u], k[1], k[2]) = 0
  <2>1. lfta[u] \in Lftas /\ Filled(lfta[u]) = {}
    BY <1>1, <1>3 DEF OperatorsOK, TablesOK, StreamOK
  <2> QED BY <2>1, HeldNone
<1>5. ASSUME NEW u \in Sources PROVE InSeq(chan[u], k) = 0
  <2>1. CASE u = s
    <3>1. chan[s] \in Seq(Counted)
      BY <1>1, CountedAll
    <3>2. InSeq(chan[s], k) = Share(Head(chan[s]), k) + InSeq(Tail(chan[s]), k)
      BY <1>2, <3>1, InSeqHead
    <3>3. InSeq(Tail(chan[s]), k) = 0
      BY <1>2, <1>3, InSeqEmpty
    <3>4. Share(Head(chan[s]), k) = 0
      BY <1>1, <1>2, EofHead
    <3> QED BY <2>1, <3>2, <3>3, <3>4
  <2>2. CASE u # s
    <3>1. chan[u] = <<>>
      BY <1>2, <1>3, <2>2
    <3> QED BY <3>1, InSeqEmpty
  <2> QED BY <2>1, <2>2
<1>6. 1 \in Sources /\ 2 \in Sources /\ 1 \in Merges
  BY TwoSources
<1> DEFINE S == Summed(groupby, k)
           Q == InSeq(merge[1].queue, k)
<1>7. S \in Nat /\ Q \in Nat
  BY <1>1, <1>6, WaitingNats
<1>8. Parts(k) = S + 0 + 0 + Q + 0 + 0
  BY <1>4, <1>5, <1>6 DEF Parts
<1> HIDE DEF S, Q
<1>9. Parts(k) = S + Q
  BY <1>7, <1>8
<1> QED
  BY <1>9 DEF S, Q

(* The operators are flushed: the result is complete. *)
Completed(b, q, p) ==
  LET x == GroupByAll(b, q)
      y == GroupByFlush(x.op)
  IN  p \o x.out \o y.out

LEMMA FlushKeeps ==
  ASSUME NEW m, NEW b, NEW p, Summing(m, b), MergeOK(m), Kept(b, p)
  PROVE  LET z == Completed(b, m.queue, p)
         IN  /\ z \in Seq(AnyTuples) /\ Unique(z) /\ Orderly(z)
             /\ \A k : InSeq(z, k) = InSeq(p, k) + (Summed(b, k) + InSeq(m.queue, k))
<1> DEFINE q == m.queue
           x == GroupByAll(b, q)
           y == GroupByFlush(x.op)
           xo == x.out
           yo == y.out
<1>1. m \in MergeOps /\ q \in Seq(DataTuples) /\ b \in GroupBysOK /\ b.last_gb \in Nat /\ p \in Seq(AnyTuples)
  BY MergeFields, GroupNats DEF Summing, Kept
<1>2. q \in Seq(StreamTuples) /\ Sorted(q)
  <2>1. \A i \in 1 .. Len(q) : IsRegular(q[i]) /\ \A j \in 1 .. i : q[j].gb <= q[i].gb
    BY DEF MergeOK
  <2> HIDE DEF q
  <2>2. \A i \in 1 .. Len(q) : q[i] \in StreamTuples
    BY <1>1, <2>1 DEF StreamTuples
  <2>3. q \in Seq(StreamTuples)
    BY <1>1, <2>2, SeqWithin
  <2> QED BY <2>1, <2>3 DEF Sorted
<1>3. ASSUME NEW i \in 1 .. Len(q) PROVE b.last_gb <= q[i].gb
  <2>1. q # <<>>
    BY <1>1
  <2>2. m.wait \in Channels
    BY <1>1, <2>1, MergeFields DEF MergeOK
  <2>3. m.last[m.wait] < q[i].gb /\ m.last[m.wait] \in Nat /\ q[i].gb \in Nat /\ b.last_gb <= m.last[m.wait]
    BY <1>1, <2>2, MergeNats DEF MergeOK, Summing
  <2> HIDE DEF q
  <2> QED BY <1>1, <2>3
<1> HIDE DEF q
<1>4. GroupedUpTo(b, p, q, Len(q), x) /\ \A k : SummedBy(b, x, k, InSeq(q, k))
  BY <1>2, <1>3, GroupByAllKeeps
<1> HIDE DEF x
<1>5. Kept(x.op, p \o xo) /\ xo \in Seq(StreamTuples)
  BY <1>4 DEF GroupedUpTo, KeptBy
<1>6. /\ yo \in Seq(DataTuples) /\ Unique((p \o xo) \o yo) /\ Orderly((p \o xo) \o yo)
      /\ \A k : InSeq(yo, k) = Summed(x.op, k)
  BY <1>5, GroupByFlushKeeps
<1>7. Completed(b, q, p) = (p \o xo) \o yo
  BY DEF Completed, x
<1>8. xo \in Seq(AnyTuples) /\ yo \in Seq(AnyTuples)
  BY <1>5, <1>6, StreamSeqs, DataNoEof
<1>9. \A k : Summed(b, k) + InSeq(q, k) = Summed(x.op, k) + InSeq(xo, k)
  BY <1>4 DEF SummedBy
<1> HIDE DEF y, xo, yo
<1>10. p \o xo \in Seq(AnyTuples) /\ (p \o xo) \o yo \in Seq(AnyTuples)
  BY <1>1, <1>8
<1>11. ASSUME NEW k PROVE InSeq((p \o xo) \o yo, k) = InSeq(p, k) + (Summed(b, k) + InSeq(q, k))
  <2>1. p \in Seq(Counted) /\ xo \in Seq(Counted) /\ yo \in Seq(Counted) /\ p \o xo \in Seq(Counted)
    BY <1>1, <1>8, <1>10, CountedAll
  <2>0. InSeq(p \o xo, k) = InSeq(p, k) + InSeq(xo, k)
    BY <2>1, InSeqConcat
  <2>2. InSeq(p \o xo, k) = InSeq(p, k) + InSeq(xo, k) /\ InSeq((p \o xo) \o yo, k) = InSeq(p \o xo, k) + InSeq(yo, k)
    <3> DEFINE w == p \o xo
    <3>1. w \in Seq(Counted)
      BY <2>1
    <3> HIDE DEF w
    <3>2. InSeq(w \o yo, k) = InSeq(w, k) + InSeq(yo, k)
      BY <2>1, <3>1, InSeqConcat
    <3> QED BY <2>0, <3>2 DEF w
  <2>3. InSeq(p, k) \in Nat /\ InSeq(xo, k) \in Nat /\ InSeq(yo, k) \in Nat
    BY <2>1, InSeqTotal
  <2> DEFINE P == InSeq(p, k)
             X == InSeq(xo, k)
             Y == InSeq(yo, k)
             R == Summed(b, k) + InSeq(q, k)
  <2>4. R = Y + X /\ InSeq((p \o xo) \o yo, k) = (P + X) + Y /\ P \in Nat /\ X \in Nat /\ Y \in Nat
    BY <1>6, <1>9, <2>2, <2>3
  <2> HIDE DEF P, X, Y, R
  <2>5. InSeq((p \o xo) \o yo, k) = P + R
    BY <2>4
  <2> QED BY <2>5 DEF P, R
<1> DEFINE z == (p \o xo) \o yo
<1>12. z \in Seq(AnyTuples) /\ Unique(z) /\ Orderly(z) /\ (\A k : InSeq(z, k) = InSeq(p, k) + (Summed(b, k) + InSeq(q, k))) /\ Completed(b, q, p) = z
  BY <1>6, <1>7, <1>10, <1>11
<1> HIDE DEF z
<1> QED
  BY <1>12, Zenon DEF q

LEMMA CountConsumeEof ==
  ASSUME N = 2, CountInv, EndInv', NEW s \in Sources, ConsumeEof(s)
  PROVE  CountInv'
<1> DEFINE last == LastEof(eofs + 1)
           m    == merge[1]
           q    == Flushed[N - 1].queue
           more == Completed(groupby, q, out)
<1>1. /\ Takes(s) /\ chan[s] # <<>> /\ IsEof(Head(chan[s])) /\ sent' = sent
      /\ last => out' = Append(more, Eof)
      /\ ~last => merge' = merge /\ groupby' = groupby /\ out' = out
  BY DEF ConsumeEof, IsEof, Takes, Completed
<1> HIDE DEF last, more
<1>2. EndInv /\ OperatorsOK /\ merge \in [Merges -> MergeOps] /\ m \in MergeOps
  BY TwoSources DEF CountInv, EndInv, OperatorsOK
<1>3. Read # Sources
  BY <1>1 DEF Read
<1>4. Going
  BY <1>3, CountInvParts DEF CountInvIs
<1>5. q = m.queue
  <2>1. N - 1 = 1
    OBVIOUS
  <2>2. Flushed[1].queue = m.queue
    BY <1>2, FlushedTwo
  <2> HIDE DEF m
  <2> QED BY <2>1, <2>2
<1> HIDE DEF q
<1>6. Summing(m, groupby) /\ MergeOK(m) /\ Kept(groupby, out)
  BY <1>2, <1>4 DEF Going, Summing
<1>7. /\ more \in Seq(AnyTuples) /\ Unique(more) /\ Orderly(more)
      /\ \A k : InSeq(more, k) = InSeq(out, k) + (Summed(groupby, k) + InSeq(m.queue, k))
  <2> HIDE DEF m
  <2>1. more = Completed(groupby, m.queue, out)
    BY <1>5 DEF more
  <2> QED BY <1>6, <2>1, FlushKeeps
<1>8. TablesOK' /\ \A u \in Sources : \A b : Ahead(u, b) => Ahead(u, b)'
  BY <1>1, TablesRead
<1>9. CASE last
  <2>1. out' = Append(more, Eof)
    BY <1>1, <1>9
  <2>2. Read' = Sources
    <3>1. ~NoEof(out')
      <4>1. Eof \in AnyTuples /\ IsEof(Eof)
        BY EofType
      <4> HIDE DEF Eof
      <4>2. Len(out') \in 1 .. Len(out') /\ out'[Len(out')] = Eof
        BY <1>7, <2>1, <4>1
      <4> QED BY <4>1, <4>2 DEF NoEof
    <3> QED BY <3>1 DEF EndInv, EndsCounted, Sources
  <2>3. Unique(out') /\ Orderly(out') /\ \A k : InSeq(out', k) = InSeq(more, k)
    BY <1>7, <2>1, EofEnds
  <2>4. ASSUME NEW k \in Keys PROVE sent'[k] = InSeq(out', k)
    <3>1. Parts(k) = Summed(groupby, k) + InSeq(m.queue, k)
      BY <1>1, <2>2, NothingLeft
    <3>2. sent[k] = InSeq(out, k) + Parts(k)
      BY <1>4 DEF Going
    <3> QED BY <1>1, <1>7, <2>3, <3>1, <3>2
  <2>5. Over'
    BY <2>3, <2>4 DEF Over
  <2> QED BY <1>8, <2>2, <2>5, CountInvPartsNext DEF CountInvIs, Sources
<1>10. CASE ~last
  <2>1. merge' = merge /\ groupby' = groupby /\ out' = out
    BY <1>1, <1>10
  <2>2. Read' # Sources
    <3>1. NoEof(out)
      BY <1>2, <1>3 DEF EndInv, EndsCounted
    <3>2. out \in Seq(AnyTuples)
      BY <1>2 DEF OperatorsOK
    <3>3. ~EndsOnce(out')
      <4>1. out # <<>> => Len(out) \in 1 .. Len(out)
        BY <3>2
      <4> QED BY <2>1, <3>1, <4>1 DEF EndsOnce, NoEof
    <3> QED BY <3>3 DEF EndInv, EndsCounted, Sources
  <2>3. ChannelsAhead(merge[1])'
    <3> SUFFICES ASSUME NEW c \in Channels, NEW b \in Reached(merge'[1], c) PROVE Ahead(c + 1, b)'
      BY DEF ChannelsAhead
    <3>1. Ahead(c + 1, b) /\ c + 1 \in Sources
      BY <1>4, <2>1, TwoSources DEF Going, ChannelsAhead
    <3> QED BY <1>8, <3>1
  <2>4. ASSUME NEW k \in Keys PROVE sent'[k] = InSeq(out', k) + Parts(k)'
    <3> DEFINE S == Summed(groupby, k)
               Q == InSeq(m.queue, k)
               y == Parts(k)
               z == Parts(k)'
    <3>1. S \in Nat /\ Q \in Nat
      BY <1>2, WaitingNats, TwoSources
    <3>2. Hold(k, S, Q)
      BY <2>1 DEF Hold
    <3> HIDE DEF S, Q
    <3>3. y \in Nat /\ z \in Nat /\ y + S + Q = z + Summed(groupby, k) + InSeq(merge[1].queue, k) + Share(Head(chan[s]), k)
      BY <1>1, <1>2, <3>1, <3>2, PartsTaken
    <3>4. Share(Head(chan[s]), k) = 0
      BY <1>1, <1>2, EofHead
    <3>5. y + S + Q = z + S + Q + 0
      BY <3>3, <3>4 DEF S, Q
    <3>6. sent'[k] = InSeq(out', k) + y
      BY <1>1, <1>4, <2>1 DEF Going
    <3> HIDE DEF y, z
    <3>7. y = z
      BY <3>1, <3>3, <3>5
    <3> QED BY <3>6, <3>7 DEF z
  <2>5. MergeOK(merge'[1]) /\ (\A c \in Channels : groupby'.last_gb <= merge'[1].last[c]) /\ Kept(groupby', out')
    BY <1>4, <2>1 DEF Going
  <2>6. Going'
    BY <2>3, <2>4, <2>5 DEF Going
  <2> QED BY <1>8, <2>2, <2>6, CountInvPartsNext DEF CountInvIs, Sources
<1> QED
  BY <1>9, <1>10

-----------------------------------------------------------------------------
(* The three promises, for any number of epochs, groups and packets. *)

SentOK == sent \in [Keys -> Nat]

LEMMA SentNext == SentOK /\ [Next]_vars => SentOK'
<1> SUFFICES ASSUME SentOK, [Next]_vars PROVE SentOK'
  OBVIOUS
<1>1. ASSUME NEW s, NEW e \in Epochs, NEW g \in Groups, Packet(s, e, g) PROVE SentOK'
  <2> DEFINE k == <<e, g>>
  <2>1. sent' = [sent EXCEPT ![k] = @ + 1]
    BY <1>1 DEF Packet
  <2>2. k \in Keys
    BY DEF Keys
  <2> HIDE DEF k
  <2> QED BY <2>1, <2>2 DEF SentOK
<1>2. ASSUME NEW s, NEW e, Rejected(s, e) \/ ClockSignal(s, e) PROVE SentOK'
  BY <1>2 DEF Rejected, ClockSignal, SentOK, Keys
<1>3. ASSUME NEW s, EndOfFile(s) \/ Consume(s) \/ ConsumeEof(s) PROVE SentOK'
  <2>1. sent' = sent
    BY <1>3 DEF EndOfFile, Consume, ConsumeEof
  <2> QED BY <2>1 DEF SentOK, Keys
<1>4. CASE UNCHANGED vars
  BY <1>4 DEF vars, SentOK, Keys
<1> QED
  BY <1>1, <1>2, <1>3, <1>4 DEF Next, Hfta

LEMMA CountNext ==
  ASSUME N = 2, CountInv, SentOK, [Next]_vars
  PROVE  CountInv'
<1>1. EndInv'
  BY EndNext DEF CountInv
<1>2. sent \in [Keys -> Nat]
  BY DEF SentOK
<1>3. CASE UNCHANGED vars
  <2>1. /\ TablesOK' = TablesOK /\ Going' = Going /\ Over' = Over /\ Read' = Read /\ Sources' = Sources
    <3>1. /\ lfta' = lfta /\ open' = open /\ sent' = sent /\ chan' = chan /\ merge' = merge /\ groupby' = groupby /\ out' = out
      BY <1>3 DEF vars
    <3>2. TablesOK' = TablesOK
      BY <3>1 DEF TablesOK, StreamOK, Sources
    <3>3. Over' = Over
      BY <3>1 DEF Over, Keys
    <3>4. Read' = Read /\ Sources' = Sources
      BY <3>1 DEF Read, Sources
    <3>5. Going' = Going
      BY <3>1 DEF Going, ChannelsAhead, Ahead, Parts, Keys
    <3> QED BY <3>2, <3>3, <3>4, <3>5
  <2> QED BY <1>1, <2>1, CountInvParts, CountInvPartsNext DEF CountInvIs
<1>4. CASE Next
  <2>1. ASSUME NEW s \in Sources, NEW e \in Epochs, NEW g \in Groups, Packet(s, e, g) PROVE CountInv'
    BY <1>1, <1>2, <2>1, CountPacket
  <2>2. ASSUME NEW s \in Sources, NEW e \in Epochs, Rejected(s, e) \/ ClockSignal(s, e) PROVE CountInv'
    BY <1>1, <1>2, <2>2, CountClock
  <2>3. ASSUME NEW s \in Sources, EndOfFile(s) PROVE CountInv'
    BY <1>1, <1>2, <2>3, CountEndOfFile
  <2>4. ASSUME NEW s \in Sources, Consume(s) PROVE CountInv'
    BY <1>1, <2>4, CountConsume
  <2>5. ASSUME NEW s \in Sources, ConsumeEof(s) PROVE CountInv'
    BY <1>1, <2>5, CountConsumeEof
  <2> QED BY <1>4, <2>1, <2>2, <2>3, <2>4, <2>5 DEF Next, Hfta
<1> QED
  BY <1>3, <1>4

(* For two sources, every table, queue and stream between a packet and the result is as *)
(* the LFTA, merge_operator.h and groupby_operator.h rely on finding it: CountInv. *)
THEOREM CountInvariant == N = 2 => (Spec => []CountInv)
<1> SUFFICES ASSUME N = 2 PROVE Spec => []CountInv
  OBVIOUS
<1>1. Init => CountInv /\ SentOK
  BY CountInit DEF Init, SentOK
<1>2. CountInv /\ SentOK /\ [Next]_vars => CountInv' /\ SentOK'
  BY CountNext, SentNext
<1> QED
  BY <1>1, <1>2, PTL DEF Spec

(* Evictions, slow flushes, the merge's queue, the swap of the group-by's tables and the *)
(* flush at the end neither lose nor repeat a packet of two sources. *)
THEOREM QueryCountsOnce == N = 2 => (Spec => []PacketsCountedOnce)
<1>1. CountInv => PacketsCountedOnce
  BY DEF CountInv
<1> QED
  BY <1>1, CountInvariant, PTL

(* A group is posted once: when partial_flush or flush_old posts it, no packet of it is *)
(* still on its way from either of two sources. *)
THEOREM QueryResultIsFinal == N = 2 => (Spec => []ResultIsFinal)
<1>1. CountInv => ResultIsFinal
  BY DEF CountInv
<1> QED
  BY <1>1, CountInvariant, PTL

(* The results come in the order of their epochs, and create_temp_status_tuple announces *)
(* no epoch that a later result is before. *)
THEOREM QueryResultsInOrder == N = 2 => (Spec => []ResultsInOrder)
<1>1. CountInv => ResultsInOrder
  BY DEF CountInv
<1> QED
  BY <1>1, CountInvariant, PTL
=============================================================================
