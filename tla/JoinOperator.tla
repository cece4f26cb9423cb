----------------------------- MODULE JoinOperator -----------------------------
(***************************************************************************)
(* The hash join of two streams on equal timestamps and equal keys         *)
(* (join_eq_hash_operator.h, with the functor join_eq_hash_qpn writes) as  *)
(* functions on the operator's state.  Tuples wait in the queue of their   *)
(* channel until both channels have reached their timestamp, curr; they    *)
(* are then joined in the tables, which are emptied when both channels     *)
(* have passed it.  A function returns the state and what is put out.      *)
(*                                                                         *)
(* Timestamps start at 1.  0 is a timestamp never loaded (max, curr) or    *)
(* one read from memory that was never written (saved, a status tuple).    *)
(***************************************************************************)
EXTENDS Integers, Sequences, FiniteSets, SequencesExt

Side == {0, 1}

NewJoin(jtype) ==
    [type |-> jtype, queue |-> [c \in Side |-> <<>>], max |-> [c \in Side |-> 0],
     saved |-> [c \in Side |-> 0], curr |-> 0,
     table |-> [c \in Side |-> {}], touched |-> {}]

Step(j, out) == [op |-> j, out |-> out]

Pair(l, r)   == [type |-> "REGULAR", ts |-> l.ts, left |-> l.id, right |-> r.id]
Alone(c, t)  == [type |-> "REGULAR", ts |-> t.ts,
                 left |-> IF c = 0 THEN t.id ELSE 0, right |-> IF c = 1 THEN t.id ELSE 0]
Status(ts)   == [type |-> "TEMPORAL", ts |-> ts, left |-> 0, right |-> 0]

\* Temporal tuples; and what is queued: other tuples that pass the prefilter.
IsTemp(tup)  == tup.kind = "TEMPORAL"
Queues(tup)  == tup.kind = "REGULAR"

\* create_key, and the comparison of two keys.
SameKey(t, u) == t.key = u.key

\* How far a channel has got: the front of its queue, or the largest timestamp.
Reached(j, c) == IF j.queue[c] = <<>> THEN j.max[c] ELSE Head(j.queue[c]).ts

\* compare_qts, and the queue that is behind.
MinQ(j) ==
    IF j.max[0] = 0 THEN 0 ELSE IF j.max[1] = 0 THEN 1
    ELSE IF Reached(j, 0) <= Reached(j, 1) THEN 0 ELSE 1

\* Mutant of Past: the current timestamp counts as passed.
PastEarly(j, c) == j.max[c] # 0 /\ Reached(j, c) >= j.curr

\* compare_qts_to_hashts: the channel has passed the current timestamp.
Past(j, c) == j.max[c] # 0 /\ Reached(j, c) > j.curr

\* join_type & (i + 1)
Preserves(j, c) == j.type \in {c + 1, 3}

\* Mutant of ProcessOuterJoin: the second table is emptied unread.
ProcessOuterJoinLeft(j) ==
    Step([j EXCEPT !.table = [c \in Side |-> {}], !.touched = {}],
         IF Preserves(j, 0)
         THEN SetToSeq({Alone(0, t) : t \in {u \in j.table[0] : u.id \notin j.touched}}) ELSE <<>>)

\* process_outer_join: tuples without a match, for the sides that are preserved.
ProcessOuterJoin(j) ==
    LET unmatched(c) == {t \in j.table[c] : Preserves(j, c) /\ t.id \notin j.touched}
    IN  Step([j EXCEPT !.table = [c \in Side |-> {}], !.touched = {}],
             SetToSeq({Alone(0, t) : t \in unmatched(0)}) \o SetToSeq({Alone(1, t) : t \in unmatched(1)}))

\* One side of process_join: the tuples of the current timestamp go into their
\* table and are joined with the other one.
JoinSide(j, c) ==
    LET run     == {n \in 0 .. Len(j.queue[c]) : \A i \in 1 .. n : j.queue[c][i].ts = j.curr}
        n       == CHOOSE k \in run : \A m \in run : m <= k
        taken   == {j.queue[c][i] : i \in 1 .. n}
        matches == {p \in taken \X j.table[1 - c] : SameKey(p[1], p[2])}
    IN  Step([j EXCEPT !.queue[c] = SubSeq(@, n + 1, Len(@)), !.table[c] = @ \cup taken,
                       !.touched = @ \cup {p[1].id : p \in matches} \cup {p[2].id : p \in matches}],
             SetToSeq({IF c = 0 THEN Pair(p[1], p[2]) ELSE Pair(p[2], p[1]) : p \in matches}))

\* process_join
ProcessJoin(j) ==
    LET a == JoinSide(j, 0)
        b == JoinSide(a.op, 1)
    IN  Step(b.op, a.out \o b.out)

Advance(j) == [j EXCEPT !.curr = Reached(j, MinQ(j))]

\* The first tuple of a channel; with the other channel's it sets the current
\* timestamp, to the largest one of the channel whose front is behind.
FirstTuple(j, tup) ==
    LET k == [j EXCEPT !.max[tup.ch] = tup.ts] IN
    IF j.max[tup.ch] # 0 THEN j
    ELSE IF j.max[1 - tup.ch] = 0 THEN k
    ELSE [k EXCEPT !.curr = k.max[MinQ(k)]]

\* get_temp_status: max_input_tuple is not saved with a channel's first tuple.
TempStatus(j, tup) ==
    LET c == MinQ(j) IN
    IF ~IsTemp(tup) THEN <<>>
    ELSE <<Status(IF j.queue[c] = <<>> THEN j.saved[c] ELSE Head(j.queue[c]).ts)>>

\* Mutant of Admit: the largest timestamp stays that of the first tuple.
AdmitStale(j, tup) ==
    [j EXCEPT !.queue[tup.ch] = IF Queues(tup) THEN Append(@, tup) ELSE @]

\* The largest timestamp, and the queue for what passes the prefilter.
Admit(j, tup) ==
    [j EXCEPT !.max[tup.ch]   = tup.ts,
              !.saved[tup.ch] = IF tup.ts > j.max[tup.ch] THEN tup.ts ELSE @,
              !.queue[tup.ch] = IF Queues(tup) THEN Append(@, tup) ELSE @]

\* accept_tuple: out of order tuples are rejected; the current timestamp
\* advances by one step at most.
JoinAccept(j, tup) ==
    LET f == FirstTuple(j, tup)
        a == Admit(f, tup)
        o == IF Past(a, 0) /\ Past(a, 1) THEN ProcessOuterJoin(a) ELSE Step(a, <<>>)
        p == ProcessJoin(IF Past(a, 0) /\ Past(a, 1) THEN Advance(o.op) ELSE o.op)
    IN  IF tup.ts < f.max[tup.ch] THEN Step(f, TempStatus(f, tup))
        ELSE Step(p.op, o.out \o p.out \o TempStatus(p.op, tup))

\* flush reads the largest timestamp of the queue that is behind ...
FlushCrashes(j) == j.max[MinQ(j)] = 0

\* ... and takes one step, whatever is left in the queues.
JoinFlush(j) ==
    LET o == ProcessOuterJoin(j)
        p == ProcessJoin(Advance(o.op))
    IN  Step(p.op, o.out \o p.out)
===============================================================================
