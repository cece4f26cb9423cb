---------------------------- MODULE JoinQueryInv ------------------------------
(***************************************************************************)
(* The inductive invariant behind the properties of JoinQuery, as          *)
(* predicates of the operator's state j and the tuples L it has admitted.  *)
(***************************************************************************)
EXTENDS JoinQuery

Tuples == [kind : {"REGULAR"}, ch : Side, ts : 1 .. MaxTs, key : Keys, id : 1 .. MaxTuples]

Joins == [type : JoinTypes, queue : [Side -> Seq(Tuples)], max : [Side -> 0 .. MaxTs],
          saved : [Side -> 0 .. MaxTs], curr : 0 .. MaxTs,
          table : [Side -> SUBSET Tuples], touched : SUBSET (1 .. MaxTuples)]

Outputs == [type : {"REGULAR", "TEMPORAL"}, ts : Nat, left : Nat, right : Nat]

(* Tuples are told apart by their numbers. *)
Numbered(L) == L \subseteq Tuples /\ IsFiniteSet(L) /\ \A t, u \in L : t.id = u.id => t = u

-------------------------------------------------------------------------------
(* The operator. *)

(* Queues and tables hold admitted tuples, and the queues are in order. *)
Formed(j, L) ==
    /\ \A c \in Side :
        /\ \A i \in 1 .. Len(j.queue[c]) :
            /\ j.queue[c][i] \in L /\ j.queue[c][i].ch = c /\ j.queue[c][i].ts <= j.max[c]
            /\ \A k \in 1 .. Len(j.queue[c]) : i <= k => j.queue[c][i].ts <= j.queue[c][k].ts
        /\ \A t \in j.table[c] : t \in L /\ t.ch = c
    /\ j.curr = 0 <=> \E c \in Side : j.max[c] = 0

(* Whoever is in the tables has the current timestamp, and is touched if it has
   a match there. *)
Tabled(j) ==
    /\ \A c \in Side : \A t \in j.table[c] : t.ts = j.curr
    /\ \A x \in 1 .. MaxTuples :
        x \in j.touched <=> \E c \in Side : \E t \in j.table[c], u \in j.table[1 - c] : t.id = x /\ t.key = u.key

(* A tuple of the current timestamp or a later one has not been lost: it is in
   its queue or, of the current one, in its table. *)
Pending(j, L) ==
    /\ \A c \in Side : j.curr <= j.max[c]
    /\ \A c \in Side : \A i \in 1 .. Len(j.queue[c]) :
        j.queue[c][i].ts >= j.curr /\ j.queue[c][i] \notin j.table[c]
    /\ \A t \in L : t.ts > j.curr => \E i \in 1 .. Len(j.queue[t.ch]) : j.queue[t.ch][i] = t
    /\ \A t \in L : t.ts = j.curr => \/ t \in j.table[t.ch]
                                     \/ \E i \in 1 .. Len(j.queue[t.ch]) : j.queue[t.ch][i] = t
    /\ Tabled(j)

(* The tuples of the current timestamp on side c have been joined. *)
Joined(j, c) == \A i \in 1 .. Len(j.queue[c]) : j.queue[c][i].ts > j.curr

-------------------------------------------------------------------------------
(* The results. *)

Matching(l, r) == l.ch = 0 /\ r.ch = 1 /\ l.ts = r.ts /\ l.key = r.key

(* The join of L. *)
InJoin(j, L, x) ==
    \/ \E l, r \in L : Matching(l, r) /\ x = Pair(l, r)
    \/ \E t \in L : /\ Preserves(j, t.ch) /\ x = Alone(t.ch, t)
                    /\ ~\E u \in L : u.ch # t.ch /\ u.ts = t.ts /\ u.key = t.key

(* What is out: the join of the tuples before the current timestamp, and the
   pairs of the tables. *)
Done(j, L, x) ==
    \/ InJoin(j, L, x) /\ x.ts < j.curr
    \/ \E l \in j.table[0], r \in j.table[1] : l.key = r.key /\ x = Pair(l, r)

(* The results in a list of tuples; they are in order and different. *)
Puts(s, x) == \E i \in 1 .. Len(s) : s[i].type = "REGULAR" /\ s[i] = x
InOrder(s) ==
    \A i, k \in 1 .. Len(s) :
        s[i].type = "REGULAR" /\ s[k].type = "REGULAR" /\ i < k => s[i] # s[k] /\ s[i].ts <= s[k].ts

(* While the streams are open: no tuple has been lost, those of the current
   timestamp are joined, and the list s of what is out holds what is done. *)
Current(j, L, s) ==
    /\ Pending(j, L) /\ \A c \in Side : Joined(j, c)
    /\ InOrder(s) /\ \A x \in Outputs : Puts(s, x) <=> Done(j, L, x)

(* After their end: only results of the join, and all before the current
   timestamp. *)
Final(j, L, s) ==
    /\ InOrder(s)
    /\ \A x \in Outputs : Puts(s, x) => InJoin(j, L, x)
    /\ \A x \in Outputs : InJoin(j, L, x) /\ x.ts < j.curr => Puts(s, x)

-------------------------------------------------------------------------------

JoinTypesOK ==
    /\ join \in Joins /\ out \in Seq(Outputs) /\ late \in BOOLEAN
    /\ phase \in {"open", "flushed", "crashed"} /\ arrived \in 0 .. MaxTuples
    /\ Numbered(log) /\ \A t \in log : t.id <= arrived
    /\ Formed(join, log)

JoinInv ==
    /\ JoinTypesOK
    /\ ~late => IF phase = "flushed" THEN Final(join, log, out) ELSE Current(join, log, out)
===============================================================================
