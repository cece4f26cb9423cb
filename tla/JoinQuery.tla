------------------------------ MODULE JoinQuery -------------------------------
(***************************************************************************)
(* The join in an HFTA that subscribes to two streams: their tuples arrive *)
(* in any interleaving and with any timestamps, and the end of both of     *)
(* them flushes the operator.                                              *)
(***************************************************************************)
EXTENDS JoinOperator

CONSTANTS JoinTypes,    \* inner (0), left (1), right (2) and full (3) outer join
          MaxTs,        \* bound on the timestamps
          Keys,         \* the join keys
          MaxTuples     \* bound on the tuples

ASSUME JoinAssumption == JoinTypes \subseteq 0 .. 3 /\ MaxTs \in Nat /\ MaxTuples \in Nat

VARIABLES
    join,      \* the operator
    log,       \* the tuples it admitted
    arrived,   \* how many tuples have arrived
    out,       \* what it has put out
    late,      \* whether a queued tuple was ever older than the current timestamp
    phase      \* "open", "flushed" or "crashed"

vars == <<join, log, arrived, out, late, phase>>

Init ==
    /\ \E jtype \in JoinTypes : join = NewJoin(jtype)
    /\ log = {} /\ arrived = 0 /\ out = <<>> /\ late = FALSE /\ phase = "open"

LeftBehind(j) == \E c \in Side : j.queue[c] # <<>> /\ Head(j.queue[c]).ts < j.curr

\* accept_packet: a tuple, one the prefilter drops, or a temporal tuple.
Arrive(tup) ==
    LET r == JoinAccept(join, tup) IN
    /\ phase = "open" /\ arrived < MaxTuples
    /\ join' = r.op /\ out' = out \o r.out
    /\ log' = IF Queues(tup) /\ tup.ts >= join.max[tup.ch] THEN log \cup {tup} ELSE log
    /\ arrived' = arrived + 1
    /\ late' = (late \/ LeftBehind(r.op))
    /\ UNCHANGED phase

\* The last end of a stream.
End ==
    /\ phase = "open"
    /\ IF FlushCrashes(join)
       THEN phase' = "crashed" /\ UNCHANGED <<join, out>>
       ELSE LET r == JoinFlush(join) IN
            phase' = "flushed" /\ join' = r.op /\ out' = out \o r.out
    /\ UNCHANGED <<log, arrived, late>>

Next ==
    \/ \E c \in Side, ts \in 1 .. MaxTs :
        \/ \E k \in Keys : Arrive([kind |-> "REGULAR", ch |-> c, ts |-> ts, key |-> k, id |-> arrived + 1])
        \/ \E kind \in {"FILTERED", "TEMPORAL"} : Arrive([kind |-> kind, ch |-> c, ts |-> ts])
    \/ End

Spec == Init /\ [][Next]_vars

-------------------------------------------------------------------------------

Queued(c) == Range(join.queue[c])

TypeOK ==
    /\ join.max \in [Side -> 0 .. MaxTs] /\ join.saved \in [Side -> 0 .. MaxTs]
    /\ \A c \in Side :
        /\ Queued(c) \cup join.table[c] \subseteq {t \in log : t.ch = c}
        /\ \A i, k \in 1 .. Len(join.queue[c]) :
            i < k => join.queue[c][i].ts <= join.queue[c][k].ts /\ join.queue[c][k].ts <= join.max[c]
    /\ phase = "open" => (join.curr = 0 <=> \E c \in Side : join.max[c] = 0)

\* The join of the admitted tuples, as SQL defines it.
Of(c)     == {t \in log : t.ch = c}
Mate(t)   == {u \in log : u.ch # t.ch /\ u.ts = t.ts /\ u.key = t.key}
Expected  == {Pair(p[1], p[2]) : p \in {q \in Of(0) \X Of(1) : q[2] \in Mate(q[1])}}
             \cup UNION {{Alone(c, t) : t \in {u \in Of(c) : Preserves(join, c) /\ Mate(u) = {}}} : c \in Side}

Results   == {i \in 1 .. Len(out) : out[i].type = "REGULAR"}

\* Every result belongs to the join of all tuples, those that arrive after it
\* included (an unmatched tuple is put out only when it can find no match any
\* more), no result is put out twice, and they are in the order of their
\* timestamps.
ResultsAreMatches ==
    ~late => /\ \A i \in Results : out[i] \in Expected
             /\ \A i, k \in Results : i < k => out[i] # out[k] /\ out[i].ts <= out[k].ts

\* What both channels have passed is joined: the results of every timestamp
\* before the current one are out.
CompleteBelow ==
    ~late => \A r \in Expected : r.ts < join.curr => \E i \in Results : out[i] = r

\* advanced.rst: the input streams are buffered so that they match up on the
\* timestamp.  The join moves past a timestamp only when it has joined its
\* tuples: none is left in a queue.
NoneLeftBehind == ~LeftBehind(join)

\* advanced.rst: the join combines all tuples with matching timestamps and keys;
\* at the end of both streams all of it is out.
CompleteAtEnd ==
    phase = "flushed" /\ ~late => \A r \in Expected : \E i \in Results : out[i] = r
===============================================================================
