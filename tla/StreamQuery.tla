----------------------------- MODULE StreamQuery ------------------------------
(***************************************************************************)
(* A query that counts packets per epoch and group over several sources:   *)
(* one LFTA per source aggregates in the process that reads it, its tuples *)
(* travel through a lossless FIFO (Multicast, which TupleStream refines    *)
(* for subscribers on the same host) to one HFTA (hfta.h, MULTOP_HFTA),    *)
(* whose operators merge the streams two by two (split_sources) and sum    *)
(* the partial counts up.                                                  *)
(*                                                                         *)
(* Operator i < N merges what operator i-1 puts out (the stream of source  *)
(* 1 for i = 1) on channel 0 with the stream of source i+1 on channel 1;   *)
(* operator N is the group-by.  This is the plan of the compiler for two   *)
(* and three sources; from four on split_sources builds a balanced tree.   *)
(***************************************************************************)
EXTENDS LftaAggregate, MergeOperator, GroupByOperator

CONSTANTS N,            \* sources
          Groups,       \* group-by values, a set of numbers
          MaxEpoch,     \* bound on the epochs
          MaxPackets,   \* bound on the packets
          MaxClocks     \* bound on the clock signals and the rejected packets

ASSUME QueryAssumption ==
    /\ N \in Nat /\ N >= 2 /\ Groups \subseteq Nat
    /\ MaxEpoch \in Nat /\ MaxPackets \in Nat /\ MaxClocks \in Nat

Sources == 1 .. N
Merges  == 1 .. N - 1
Epochs  == 1 .. MaxEpoch
Keys    == Epochs \X Groups

VARIABLES
    lfta,      \* the struct of each LFTA
    open,      \* the sources that have not come to their end
    sent,      \* the packets of each epoch and group so far: what the query should count
    clocks,    \* clock signals and rejected packets so far
    chan,      \* the tuples of each LFTA that the HFTA has not read
    merge,     \* the merge operators
    groupby,   \* the group-by operator
    eofs,      \* num_eof_tuples
    out        \* what the HFTA has posted

vars == <<lfta, open, sent, clocks, chan, merge, groupby, eofs, out>>
hfta == <<merge, groupby, eofs, out>>

Init ==
    /\ lfta = [s \in Sources |-> NewLfta] /\ open = Sources
    /\ sent = [k \in Keys |-> 0] /\ clocks = 0
    /\ chan = [s \in Sources |-> <<>>]
    /\ merge = [i \in Merges |-> NewMerge] /\ groupby = NewGroupBy
    /\ eofs = 0 /\ out = <<>>


-------------------------------------------------------------------------------
(* The process of a source: packets, clock signals, the end of the file.   *)

Lfta(s, r) ==
    /\ lfta' = [lfta EXCEPT ![s] = r.t]
    /\ chan' = [chan EXCEPT ![s] = @ \o r.out]
    /\ UNCHANGED hfta

\* rts_fta_process_packet.  The time of the packets of a source never goes back.
Packet(s, e, g) ==
    /\ s \in open /\ e >= lfta[s].last_time
    /\ Cardinality({u \in Keys \X (1 .. MaxPackets) : u[2] <= sent[u[1]]}) < MaxPackets
    /\ Lfta(s, Accept(lfta[s], e, g))
    /\ sent' = [sent EXCEPT ![<<e, g>>] = @ + 1]
    /\ UNCHANGED <<open, clocks>>

\* A packet that the WHERE clause rejects.
Rejected(s, e) ==
    /\ s \in open /\ e >= lfta[s].last_time /\ clocks < MaxClocks
    /\ Lfta(s, Prelim(lfta[s], e))
    /\ clocks' = clocks + 1
    /\ UNCHANGED <<open, sent>>

\* clock_signal_check
ClockSignal(s, now) ==
    /\ s \in open /\ now >= lfta[s].last_time /\ clocks < MaxClocks
    /\ Lfta(s, Clock(lfta[s], now))
    /\ clocks' = clocks + 1
    /\ UNCHANGED <<open, sent>>

\* rts_fta_done
EndOfFile(s) ==
    /\ s \in open /\ open' = open \ {s}
    /\ Lfta(s, FileDone(lfta[s]))
    /\ UNCHANGED <<sent, clocks>>

-------------------------------------------------------------------------------
(* The HFTA.                                                               *)

\* An operator consumes its input queue.
MergeAll(m, tuples, c) ==
    LET after[n \in 0 .. Len(tuples)] ==
            IF n = 0 THEN [op |-> m, out |-> <<>>]
            ELSE LET a == MergeAccept(after[n - 1].op, tuples[n], c)
                 IN  [op |-> a.op, out |-> after[n - 1].out \o a.out]
    IN  after[Len(tuples)]
GroupByAll(b, tuples) ==
    LET after[n \in 0 .. Len(tuples)] ==
            IF n = 0 THEN [op |-> b, out |-> <<>>]
            ELSE LET a == GroupByAccept(after[n - 1].op, tuples[n])
                 IN  [op |-> a.op, out |-> after[n - 1].out \o a.out]
    IN  after[Len(tuples)]

\* The operators in topological order, for a tuple of source s.
Route(s, tup) ==
    LET stage[i \in 0 .. N - 1] ==
            IF i = 0 THEN [op |-> NewMerge, out |-> IF s = 1 THEN <<tup>> ELSE <<>>]
            ELSE IF s = i + 1 THEN MergeAll(merge[i], <<tup>>, 1)
            ELSE MergeAll(merge[i], stage[i - 1].out, 0)
    IN  stage

\* Of several temporal tuples the last one is posted.
WithoutTemps(result) ==
    LET upto[n \in 0 .. Len(result)] ==
            IF n = 0 THEN <<>>
            ELSE IF IsTemp(result[n]) THEN upto[n - 1] ELSE Append(upto[n - 1], result[n])
    IN  upto[Len(result)]
Finalized(result, tup) ==
    IF IsTemp(tup) /\ result # <<>> THEN Append(WithoutTemps(result), result[Len(result)])
    ELSE WithoutTemps(result)

\* accept_packet, for a tuple that does not end its stream.
Consume(s) ==
    LET tup   == Head(chan[s])
        stage == Route(s, tup)
        final == GroupByAll(groupby, stage[N - 1].out)
    IN  /\ chan[s] # <<>> /\ tup.type # "EOF"
        /\ chan' = [chan EXCEPT ![s] = Tail(@)]
        /\ merge' = [i \in Merges |-> IF s <= i + 1 THEN stage[i].op ELSE merge[i]]
        /\ groupby' = final.op
        /\ out' = out \o Finalized(final.out, tup)
        /\ UNCHANGED <<lfta, open, sent, clocks, eofs>>

\* flush: what the operators before i have put out is still in the output queue
\* when operator i fills it, and its parent is given the whole of it.
FlushInput(queue, put) == queue \o put

FlushMerge(queue, a) ==
    LET f == MergeFlush(a.op) IN [op |-> f.op, queue |-> FlushInput(queue, a.out \o f.out)]

Flushed ==
    LET stage[i \in 0 .. N - 1] ==
            IF i = 0 THEN [op |-> NewMerge, queue |-> <<>>]
            ELSE FlushMerge(stage[i - 1].queue, MergeAll(merge[i], stage[i - 1].queue, 0))
    IN  stage

\* Mutant of LastEof: one end too many is waited for.
LastEofLate(n) == n > N

\* num_eof_tuples < get_num_inputs()
LastEof(n) == n = N

\* accept_packet, for the end of a stream: the last one flushes the operators
\* and is passed on.
ConsumeEof(s) ==
    LET last  == LastEof(eofs + 1)
        stage == Flushed
        taken == GroupByAll(groupby, stage[N - 1].queue)
        final == GroupByFlush(taken.op)
    IN  /\ chan[s] # <<>> /\ Head(chan[s]).type = "EOF"
        /\ chan' = [chan EXCEPT ![s] = Tail(@)]
        /\ eofs' = IF last THEN 0 ELSE eofs + 1
        /\ merge' = IF last THEN [i \in Merges |-> stage[i].op] ELSE merge
        /\ groupby' = IF last THEN final.op ELSE groupby
        /\ out' = IF last THEN Append(out \o taken.out \o final.out, Eof) ELSE out
        /\ UNCHANGED <<lfta, open, sent, clocks>>

Hfta(s) == Consume(s) \/ ConsumeEof(s)

Next ==
    \E s \in Sources :
        \/ \E e \in Epochs, g \in Groups : Packet(s, e, g)
        \/ \E e \in Epochs : Rejected(s, e) \/ ClockSignal(s, e)
        \/ EndOfFile(s)
        \/ Hfta(s)

Spec == Init /\ [][Next]_vars

-------------------------------------------------------------------------------
(* What the query promises.                                                *)

Tuples == [type : {"REGULAR", "TEMPORAL", "EOF"}, gb : 0 .. MaxEpoch,
           grp : Groups \cup {0}, cnt : 0 .. MaxPackets]

TypeOK ==
    /\ \A s \in Sources :
        /\ lfta[s].n_aggrs = Cardinality({i \in Slot : lfta[s].slot[i].filled})
        /\ lfta[s].flush_pos \in 0 .. MaxAggrs
        /\ lfta[s].flush_ctr \in 0 .. SlowFlush - 1
        /\ chan[s] \in Seq(Tuples)
    /\ open \subseteq Sources /\ eofs \in 0 .. N
    /\ \A i \in Merges : merge[i].wait \in Channels \cup {-1} /\ merge[i].queue \in Seq(Tuples)
    /\ out \in Seq(Tuples)

Ended == out # <<>> /\ out[Len(out)].type = "EOF"

\* The packets of k that a sequence of tuples stands for, and those under way.
InSeq(q, k) ==
    LET upto[n \in 0 .. Len(q)] ==
            IF n = 0 THEN 0
            ELSE upto[n - 1] + (IF q[n].gb = k[1] /\ q[n].grp = k[2] THEN q[n].cnt ELSE 0)
    IN  upto[Len(q)]

Underway(k) ==
    LET before[s \in 0 .. N] ==
            IF s = 0 THEN InSeq(Iterate(groupby.table) \o groupby.old, k)
            ELSE before[s - 1] + Held(lfta[s], k[1], k[2]) + InSeq(chan[s], k)
                 + (IF s = N THEN 0 ELSE InSeq(merge[s].queue, k))
    IN  before[N]

\* Every packet is, at any moment, in exactly one partial count between its
\* LFTA and the result (evictions, slow flushes, the merge's queue, the swap of
\* the group-by's tables and the flush at the end neither lose nor repeat one).
PacketsCountedOnce ==
    \A k \in Keys : sent[k] = InSeq(out, k) + (IF Ended THEN 0 ELSE Underway(k))

Regulars == {i \in 1 .. Len(out) : out[i].type = "REGULAR"}

\* A group is posted once, so its count is final when it is: no packet of it is
\* still on its way through the tables and queues before the group-by.
ResultIsFinal ==
    \A i, j \in Regulars : out[i].gb = out[j].gb /\ out[i].grp = out[j].grp => i = j

\* The results are in the order of their epochs, and a temporal tuple tells the
\* truth: no result posted after it is of an epoch before the one it announces.
ResultsInOrder ==
    \A i \in 1 .. Len(out), j \in Regulars :
        i < j /\ out[i].type # "EOF" => out[i].gb <= out[j].gb

\* When all sources have come to their end and their tuples have been read, the
\* subscribers have the end of the stream, once and after every result.
EndIsReported ==
    /\ open = {} /\ (\A s \in Sources : chan[s] = <<>>) => Ended
    /\ \A i \in 1 .. Len(out) : out[i].type = "EOF" => i = Len(out)
===============================================================================
