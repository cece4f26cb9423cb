--------------------------- MODULE StreamQueryInv ----------------------------
(***************************************************************************)
(* The inductive invariants behind the safety properties of StreamQuery:   *)
(* EndInv behind EndIsReported, CountInv behind PacketsCountedOnce,        *)
(* ResultIsFinal and ResultsInOrder.                                       *)
(***************************************************************************)
EXTENDS StreamQuery

(* Epochs and groups with the zeros of temporal tuples and of fresh state. *)
Gbs  == 0 .. MaxEpoch
Grps == Groups \cup {0}

(* Tuples that do not end a stream. *)
DataTuples == [type : {"REGULAR", "TEMPORAL"}, gb : Gbs, grp : Grps, cnt : Nat]
AnyTuples  == DataTuples \cup {Eof}

Slots == [filled : BOOLEAN, gen : Nat, gb : Gbs, grp : Grps, cnt : Nat]
Lftas == [slot : [Slot -> Slots], n_aggrs : Int, generation : Nat,
          flush_pos : 0 .. MaxAggrs, flush_ctr : 0 .. SlowFlush - 1,
          last_gb : Gbs, flush_start_gb : Gbs, last_flushed_gb : Gbs, last_time : Gbs]

MergeOps == [wait : Channels \cup {-1}, queue : Seq(DataTuples), last : [Channels -> Gbs], dropped : Nat]

Rows     == [gb : Gbs, grp : Grps, cnt : Nat]
GroupBys == [table : SUBSET Rows, old : Seq(Rows), finished : BOOLEAN, last_gb : Gbs, last_flushed_gb : Gbs]

(* The state of every operator, and what is between them. *)
OperatorsOK ==
    /\ lfta \in [Sources -> Lftas]
    /\ chan \in [Sources -> Seq(AnyTuples)]
    /\ merge \in [Merges -> MergeOps]
    /\ groupby \in GroupBys /\ IsFiniteSet(groupby.table)
    /\ out \in Seq(AnyTuples)
    /\ open \subseteq Sources /\ eofs \in Nat

IsEof(tup) == tup.type = "EOF"

(* No tuple ends the stream; the last one does, and only that. *)
NoEof(q)    == \A i \in 1 .. Len(q) : ~IsEof(q[i])
EndsOnce(q) == q # <<>> /\ IsEof(q[Len(q)]) /\ \A i \in 1 .. Len(q) : IsEof(q[i]) => i = Len(q)

(* A source's stream ends with its file, and only then. *)
ChannelEnds ==
    \A s \in Sources :
        /\ s \in open => NoEof(chan[s])
        /\ s \notin open => chan[s] = <<>> \/ EndsOnce(chan[s])

(* The sources whose end the HFTA has read. *)
Read == {s \in Sources \ open : chan[s] = <<>>}

(* num_eof_tuples counts them until the last, which ends the result. *)
EndsCounted ==
    IF Read = Sources THEN EndsOnce(out) ELSE eofs = Cardinality(Read) /\ NoEof(out)

EndInv == OperatorsOK /\ ChannelEnds /\ EndsCounted

-----------------------------------------------------------------------------
(* What PacketsCountedOnce, ResultIsFinal and ResultsInOrder need. *)

IsRegular(tup) == tup.type = "REGULAR"

Filled(t) == {i \in Slot : t.slot[i].filled}

(* The table of an LFTA: its groups are of the current epoch, by their
   generation, or of one epoch before it and still to be flushed. *)
TableOK(t) ==
    /\ t.n_aggrs = Cardinality(Filled(t)) /\ t.generation < Generations
    /\ t.flush_start_gb <= t.last_gb /\ t.last_gb <= t.last_time /\ t.last_flushed_gb <= t.last_time
    /\ \A i \in Filled(t) :
        /\ t.last_flushed_gb <= t.slot[i].gb /\ t.slot[i].gb <= t.last_gb
        /\ t.slot[i].gen = t.generation => t.slot[i].gb = t.last_gb
        /\ t.slot[i].gen # t.generation => t.flush_pos <= i
    /\ \A i, j \in Filled(t) :
        t.slot[i].gen # t.generation /\ t.slot[j].gen # t.generation => t.slot[i].gb = t.slot[j].gb

(* Whatever the LFTA posts from now on is of epoch b or later. *)
AtLeast(t, b) == b <= t.last_time /\ \A i \in Filled(t) : b <= t.slot[i].gb

(* A result is not of an epoch before that of any tuple that precedes it; a
   temporal tuple counts nothing. *)
Orderly(q) ==
    \A j \in 1 .. Len(q) : IsRegular(q[j]) => \A i \in 1 .. j - 1 : q[i].gb <= q[j].gb
TempsEmpty(q) == \A i \in 1 .. Len(q) : ~IsRegular(q[i]) => q[i].cnt = 0

(* The stream of a source that the HFTA has not read. *)
StreamOK(s) ==
    /\ TableOK(lfta[s]) /\ Orderly(chan[s]) /\ TempsEmpty(chan[s])
    /\ s \in open => \A i \in 1 .. Len(chan[s]) : AtLeast(lfta[s], chan[s][i].gb)
    /\ s \notin open => Filled(lfta[s]) = {}

TablesOK == \A s \in Sources : StreamOK(s)

(* The queue of a merge holds results of one channel, in order and past what the
   other channel, which is waited for, has reached. *)
MergeOK(m) ==
    /\ m.queue = <<>> <=> m.wait = -1
    /\ \A i \in 1 .. Len(m.queue) :
        /\ IsRegular(m.queue[i]) /\ \A j \in 1 .. i : m.queue[j].gb <= m.queue[i].gb
        /\ m.last[1 - m.wait] = m.queue[1].gb /\ m.last[m.wait] < m.queue[i].gb

(* The epochs a merge has seen on channel c that later results have to follow. *)
Reached(m, c) == {m.last[c]} \cup {m.queue[i].gb : i \in {j \in 1 .. Len(m.queue) : m.wait = 1 - c}}

(* Nothing that source s has still to deliver is of an epoch before b. *)
Ahead(s, b) ==
    /\ \A i \in 1 .. Len(chan[s]) : IsRegular(chan[s][i]) => b <= chan[s][i].gb
    /\ s \in open => AtLeast(lfta[s], b)

ChannelsAhead(m) == \A c \in Channels : \A b \in Reached(m, c) : Ahead(c + 1, b)

(* The tables of the group-by: one row a group, of the current epoch and of the
   one before it. *)
GroupOK(b) ==
    /\ b.last_flushed_gb <= b.last_gb /\ (b.finished => b.old = <<>>)
    /\ \A r \in b.table : r.gb = b.last_gb /\ \A q \in b.table : q.grp = r.grp => q = r
    /\ \A i \in 1 .. Len(b.old) :
        /\ b.old[i].gb = b.last_flushed_gb /\ b.last_flushed_gb < b.last_gb
        /\ \A j \in 1 .. Len(b.old) : b.old[j].grp = b.old[i].grp => j = i

(* What has been posted, against what the group-by still has. *)
PostedOK(q, b) ==
    \A i \in 1 .. Len(q) :
        /\ q[i].gb <= b.last_gb /\ (b.old # <<>> => q[i].gb <= b.last_flushed_gb)
        /\ IsRegular(q[i]) =>
            /\ q[i].gb < b.last_gb
            /\ \A j \in 1 .. Len(b.old) : b.old[j].gb = q[i].gb => b.old[j].grp # q[i].grp

CountInv ==
    /\ EndInv /\ TablesOK /\ PacketsCountedOnce /\ ResultIsFinal /\ ResultsInOrder
    /\ Read # Sources =>
        /\ MergeOK(merge[1]) /\ ChannelsAhead(merge[1])
        /\ GroupOK(groupby) /\ \A c \in Channels : groupby.last_gb <= merge[1].last[c]
        /\ PostedOK(out, groupby)
=============================================================================
