---------------------------- MODULE LftaAggregate -----------------------------
(***************************************************************************)
(* The aggregation a low-level query (LFTA) does in the process that reads *)
(* packets: the code ftacmp/generate_lfta_code.cc writes for a count per   *)
(* epoch and group, as functions on its struct t.  A function returns the  *)
(* new struct and the tuples it posts.  max_lfta_disorder is 1, so the     *)
(* posted epochs have to be in order.                                      *)
(*                                                                         *)
(* The epoch is the temporal group-by attribute gb_var; a packet is its    *)
(* epoch and its group.  A hash table slot is 5 probes away at most.       *)
(***************************************************************************)
EXTENDS Integers, Sequences, FiniteSets, SequencesExt

CONSTANTS MaxAggrs,    \* t->max_aggrs, the slots of the hash table
          SlowFlush    \* slow_flush: packets per group of an old epoch flushed

ASSUME LftaAssumption == MaxAggrs \in Nat \ {0} /\ SlowFlush \in Nat \ {0}

Slot == 0 .. MaxAggrs - 1
Probes == 5
Generations == 4                                   \* SLOT_GEN_BITS + 1

\* aggr_table_hashmap[i] = 0; the block of such a slot is not looked at.
Empty == [filled |-> FALSE, gen |-> 0, gb |-> 0, grp |-> 0, cnt |-> 0]

\* generate_fta_accept's allocation: minimal epochs, nothing to flush.
NewLfta ==
    [slot |-> [i \in Slot |-> Empty], n_aggrs |-> 0, generation |-> 0,
     flush_pos |-> MaxAggrs, flush_ctr |-> 0,
     last_gb |-> 0, flush_start_gb |-> 0, last_flushed_gb |-> 0, last_time |-> 0]

Regular(gb, grp, cnt) == [type |-> "REGULAR", gb |-> gb, grp |-> grp, cnt |-> cnt]
Temporal(gb)          == [type |-> "TEMPORAL", gb |-> gb, grp |-> 0, cnt |-> 0]
Eof                   == [type |-> "EOF", gb |-> 0, grp |-> 0, cnt |-> 0]

\* generate_tuple_from_aggr
GroupTuple(s) == Regular(s.gb, s.grp, s.cnt)

\* A group of an earlier epoch, by its generation or by its epoch.
Old(t, i) ==
    /\ t.slot[i].filled
    /\ t.slot[i].gen # t.generation \/ t.last_gb > t.slot[i].gb

\* The slots of old groups, from flush_pos on.
OldSlots(t) ==
    LET below[i \in 0 .. MaxAggrs] ==
            IF i = 0 THEN <<>>
            ELSE IF i - 1 >= t.flush_pos /\ Old(t, i - 1) THEN Append(below[i - 1], i - 1)
            ELSE below[i - 1]
    IN  below[MaxAggrs]

\* fta_aggr_flush_old: at most nflush of them.
FlushOld(t, nflush) ==
    LET olds    == OldSlots(t)
        victims == IF Len(olds) > nflush THEN SubSeq(olds, 1, nflush) ELSE olds
        left    == t.n_aggrs - Len(victims)
        pos     == IF left > 0 /\ Len(victims) = nflush THEN victims[nflush] + 1 ELSE MaxAggrs
    IN  [t   |-> [t EXCEPT !.slot = [i \in Slot |-> IF i \in Range(victims) THEN Empty ELSE @[i]],
                           !.n_aggrs = left, !.flush_pos = pos,
                           !.last_flushed_gb = IF pos = MaxAggrs THEN t.flush_start_gb ELSE @],
         out |-> [j \in 1 .. Len(victims) |-> GroupTuple(t.slot[victims[j]])]]

FlushAll(t)     == FlushOld(t, MaxAggrs)
FlushPending(t) == IF t.flush_pos < MaxAggrs THEN FlushAll(t) ELSE [t |-> t, out |-> <<>>]

\* Every slow_flush-th packet takes one old group along.
SlowFlushStep(t) ==
    IF t.flush_ctr + 1 < SlowFlush THEN [t |-> [t EXCEPT !.flush_ctr = @ + 1], out |-> <<>>]
    ELSE LET u == [t EXCEPT !.flush_ctr = 0] IN
         IF u.flush_pos < MaxAggrs THEN FlushOld(u, 1) ELSE [t |-> u, out |-> <<>>]

\* The temporal flush: all groups become old, what was old before goes out.
NewEpoch(t, e) ==
    LET f == FlushPending(t) IN
    [f EXCEPT !.t.generation = (@ + 1) % Generations, !.t.flush_pos = 0,
              !.t.flush_start_gb = e, !.t.last_gb = e]

\* The bucket of a group: any function of the group-by attributes.
Home(e, g) == (e + g) % MaxAggrs

Matches(t, i, e, g) ==
    /\ t.slot[i].filled /\ t.slot[i].gen = t.generation
    /\ t.slot[i].gb = e /\ t.slot[i].grp = g

\* The slot of the group, or the one the rating of the probes ends with.
BestSlot(t, e, g) ==
    LET at(i) == (Home(e, g) + i - 1) % MaxAggrs
        Rate(b, p) ==
            IF t.slot[b].filled
            THEN IF t.slot[p].filled THEN b ELSE p
            ELSE IF t.slot[b].gen = t.generation /\ t.slot[p].gen # t.generation THEN p ELSE b
        best[i \in 0 .. Probes] ==
            IF i = 0 THEN Home(e, g)
            ELSE LET b == best[i - 1] IN
                 IF Matches(t, b, e, g) THEN b
                 ELSE IF Matches(t, at(i), e, g) THEN at(i) ELSE Rate(b, at(i))
    IN  best[Probes]

\* Mutant of Evict: the groups are not counted down.
EvictUncounted(t, b, e) ==
    [t |-> t, out |-> <<GroupTuple(t.slot[b])>>]

\* A group that is evicted from the current epoch lets the old ones go first.
Evict(t, b, e) ==
    LET f == IF t.slot[b].gen = t.generation /\ t.slot[b].gb = e
             THEN FlushAll(t) ELSE [t |-> t, out |-> <<>>]
    IN  [t |-> [f.t EXCEPT !.n_aggrs = @ - 1], out |-> Append(f.out, GroupTuple(t.slot[b]))]

\* generate_gb_update
Update(t, b) == [t EXCEPT !.slot[b].cnt = @ + 1]

\* generate_init_group
InitGroup(t, b, e, g) ==
    [t EXCEPT !.n_aggrs = @ + 1,
              !.slot[b] = [filled |-> TRUE, gen |-> t.generation, gb |-> e, grp |-> g, cnt |-> 1]]

\* generate_aggr_accept_body: find, update or insert the group.
Insert(t, e, g) ==
    LET b == BestSlot(t, e, g)
        f == IF t.slot[b].filled THEN Evict(t, b, e) ELSE [t |-> t, out |-> <<>>]
    IN  IF Matches(t, b, e, g) THEN [t |-> Update(t, b), out |-> <<>>]
        ELSE [t |-> InitGroup(f.t, b, e, g), out |-> f.out]

\* generate_aggr_accept_prelim: what a packet does before the WHERE clause looks
\* at it, and all that one does which it rejects.
Prelim(t, e) ==
    LET a == SlowFlushStep(t) IN [a EXCEPT !.t.last_time = e]

\* accept_packet of the LFTA.
Accept(t, e, g) ==
    LET a == Prelim(t, e)
        b == IF e # a.t.last_gb THEN NewEpoch(a.t, e) ELSE [t |-> a.t, out |-> <<>>]
        c == Insert(b.t, e, g)
    IN  [t |-> c.t, out |-> a.out \o b.out \o c.out]

\* clock_fta: `now' is the time of the last packet or, on a live interface, what
\* the system clock or the prefilter says.  Time that moves on may end the epoch;
AdvanceClock(t, now) ==
    IF now > t.last_time /\ now # t.last_gb THEN NewEpoch(t, now)
    ELSE [t |-> t, out |-> <<>>]

\* a temporal tuple says what has been flushed.
Clock(t, now) ==
    LET a == AdvanceClock(t, now)
        v == IF a.t.n_aggrs > 0 THEN a.t.last_flushed_gb ELSE now
    IN  [t |-> [a.t EXCEPT !.last_time = now, !.last_flushed_gb = v],
         out |-> Append(a.out, Temporal(v))]

\* control_fta, FTA_COMMAND_FILE_DONE: all groups, then the end of the stream.
FileDone(t) ==
    LET a == FlushAll(t)
        b == FlushAll([a.t EXCEPT !.generation = (@ + 1) % Generations, !.flush_pos = 0])
    IN  IF t.n_aggrs = 0 THEN [t |-> t, out |-> <<Eof>>]
        ELSE [t |-> b.t, out |-> Append(a.out \o b.out, Eof)]

\* The packets a group has in the table.
Held(t, e, g) ==
    LET below[n \in 0 .. MaxAggrs] ==
            IF n = 0 THEN 0
            ELSE LET s == t.slot[n - 1] IN
                 below[n - 1] + (IF s.filled /\ s.gb = e /\ s.grp = g THEN s.cnt ELSE 0)
    IN  below[MaxAggrs]
===============================================================================
