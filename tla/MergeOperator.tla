---------------------------- MODULE MergeOperator -----------------------------
(***************************************************************************)
(* The ordered union of two streams (merge_operator.h, with the functor    *)
(* that mrg_qpn::generate_functor writes) as functions on the operator's   *)
(* state: tuples of one channel wait in a queue until the other channel    *)
(* has got as far.  The timestamp of a tuple is its epoch gb.              *)
(***************************************************************************)
EXTENDS Integers, Sequences, FiniteSets

Channels == {0, 1}

NewMerge == [wait |-> -1, queue |-> <<>>, last |-> [c \in Channels |-> 0], dropped |-> 0]

Least(a, b) == IF a < b THEN a ELSE b

\* Mutant of Status: the channel that is ahead speaks for both.
StatusAhead(m) ==
    [type |-> "TEMPORAL", gb |-> m.last[0] + m.last[1] - Least(m.last[0], m.last[1]), grp |-> 0, cnt |-> 0]

\* create_temp_status_tuple: both channels have got at least this far.
Status(m) == [type |-> "TEMPORAL", gb |-> Least(m.last[0], m.last[1]), grp |-> 0, cnt |-> 0]

IsTemp(tup) == tup.type = "TEMPORAL"

\* append_tuple
Enqueue(m, tup) == IF IsTemp(tup) THEN m ELSE [m EXCEPT !.queue = Append(@, tup)]
Through(tup)    == IF IsTemp(tup) THEN <<>> ELSE <<tup>>

\* accept_tuple when no channel, or the other one, is waited for.
AcceptAhead(m, tup, c) ==
    LET n == [m EXCEPT !.last[c] = IF m.wait < 0 THEN tup.gb ELSE @] IN
    IF tup.gb <= n.last[1 - c]
    THEN [op |-> [n EXCEPT !.wait = 1 - c], out |-> Through(tup)]
    ELSE [op |-> [Enqueue(n, tup) EXCEPT !.wait = 1 - c], out |-> <<>>]

\* purge_queue: the queue's tuples up to what its other channel has reached.
Purge(m, c) ==
    LET upto == {n \in 0 .. Len(m.queue) : \A i \in 1 .. n : m.queue[i].gb <= m.last[1 - c]}
        n    == CHOOSE k \in upto : \A j \in upto : j <= k
        seen == IF n = 0 THEN m.last[c]
                ELSE IF n < Len(m.queue) THEN m.queue[n + 1].gb ELSE m.queue[n].gb
    IN  [op  |-> [m EXCEPT !.queue = SubSeq(@, n + 1, Len(@)), !.last[c] = seen],
         out |-> SubSeq(m.queue, 1, n)]

\* accept_tuple on the channel that is waited for.
AcceptAwaited(m, tup, c) ==
    LET p == Purge([m EXCEPT !.last[c] = tup.gb], 1 - c) IN
    IF tup.gb <= p.op.last[1 - c]
    THEN [op |-> p.op, out |-> p.out \o Through(tup)]
    ELSE [op |-> [Enqueue(p.op, tup) EXCEPT !.wait = 1 - c], out |-> p.out]

\* accept_tuple: a tuple behind its channel is dropped; a temporal tuple is
\* answered by one; nobody is waited for when the queue is empty.
MergeAccept(m, tup, c) ==
    LET r == IF m.wait # c THEN AcceptAhead(m, tup, c) ELSE AcceptAwaited(m, tup, c) IN
    IF tup.gb < m.last[c] THEN [op |-> [m EXCEPT !.dropped = @ + 1], out |-> <<>>]
    ELSE [op  |-> [r.op EXCEPT !.wait = IF r.op.queue = <<>> THEN -1 ELSE @],
          out |-> IF IsTemp(tup) THEN Append(r.out, Status(r.op)) ELSE r.out]

\* flush: the queue is put out, and stays.
MergeFlush(m) ==
    [op  |-> IF m.queue = <<>> THEN m
             ELSE [m EXCEPT !.last[1 - m.wait] = m.queue[Len(m.queue)].gb],
     out |-> m.queue]
===============================================================================
