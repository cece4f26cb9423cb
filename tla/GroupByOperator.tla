--------------------------- MODULE GroupByOperator ----------------------------
(***************************************************************************)
(* The group-by of a high-level query (groupby_operator.h, with the        *)
(* functor that sgah_qpn::generate_functor writes for hfta_disorder < 2)   *)
(* as functions on its state: the groups of the current epoch are summed   *)
(* up in one table, those of the finished epoch leave the other one by     *)
(* one, with every tuple that arrives.                                     *)
(***************************************************************************)
EXTENDS Integers, Sequences, FiniteSets, SequencesExt

NewGroupBy == [table |-> {}, old |-> <<>>, finished |-> TRUE, last_gb |-> 0, last_flushed_gb |-> 0]

\* create_output_tuple
Output(r) == [type |-> "REGULAR", gb |-> r.gb, grp |-> r.grp, cnt |-> r.cnt]

\* The groups of a table in the order of its iterator.
Iterate(table) == SetToSeq(table)
Outputs(s)     == [i \in 1 .. Len(s) |-> Output(s[i])]

\* partial_flush: one group of the finished epoch (_GB_FLUSH_PER_TUPLE_).
PartialFlush(b) ==
    LET rest == IF b.old = <<>> THEN <<>> ELSE Tail(b.old) IN
    IF b.finished THEN [op |-> b, out |-> <<>>]
    ELSE [op  |-> [b EXCEPT !.old = rest, !.finished = (rest = <<>>)],
          out |-> IF b.old = <<>> THEN <<>> ELSE <<Output(Head(b.old))>>]

\* Mutant of SwapTables: the rest of the finished epoch is cleared unposted.
SwapTablesEarly(b) ==
    [op  |-> [b EXCEPT !.old = Iterate(b.table), !.table = {}, !.finished = FALSE],
     out |-> <<>>]

\* flush_old: what is left of the finished epoch, and swap the tables.
SwapTables(b) ==
    [op  |-> [b EXCEPT !.old = Iterate(b.table), !.table = {}, !.finished = FALSE],
     out |-> Outputs(b.old)]

\* create_group: the saved epoch changes with the tuple's.
Epoch(b, e) ==
    IF e = b.last_gb THEN b ELSE [b EXCEPT !.last_flushed_gb = b.last_gb, !.last_gb = e]

\* Mutant of GroupByStatus: the groups still to be flushed are forgotten.
GroupByStatusEarly(b) ==
    [type |-> "TEMPORAL", gb |-> b.last_gb, grp |-> 0, cnt |-> 0]

\* create_temp_status_tuple
GroupByStatus(b) ==
    [type |-> "TEMPORAL", gb |-> IF b.finished THEN b.last_gb ELSE b.last_flushed_gb,
     grp |-> 0, cnt |-> 0]

\* find, update_aggregate, create_aggregate and insert.
Find(b, tup) == {r \in b.table : r.gb = tup.gb /\ r.grp = tup.grp}
Count(b, tup) ==
    LET hit == Find(b, tup)
        sum == IF hit = {} THEN tup.cnt ELSE tup.cnt + (CHOOSE r \in hit : TRUE).cnt
    IN  [b EXCEPT !.table = (@ \ hit) \cup {[gb |-> tup.gb, grp |-> tup.grp, cnt |-> sum]}]

\* accept_tuple
GroupByAccept(b, tup) ==
    LET p == PartialFlush(b)
        c == Epoch(p.op, tup.gb)
        s == IF tup.gb # b.last_gb /\ Find(c, tup) = {} THEN SwapTables(c) ELSE [op |-> c, out |-> <<>>]
    IN  IF tup.type = "TEMPORAL"
        THEN [op |-> s.op, out |-> p.out \o Append(s.out, GroupByStatus(s.op))]
        ELSE [op |-> Count(s.op, tup), out |-> p.out \o s.out]

\* flush: both tables.
GroupByFlush(b) ==
    [op  |-> [b EXCEPT !.old = <<>>, !.table = {}, !.finished = TRUE],
     out |-> Outputs(b.old \o Iterate(b.table))]
===============================================================================
