---------------------------- MODULE Subscriptions -----------------------------
(***************************************************************************)
(* How applications come to a stream: an application looks a query up in   *)
(* the clearinghouse, allocates an instance of it in the process that runs *)
(* it (or shares one that exists), and frees it again.  Every call is a    *)
(* message and a wait for its result (ipc_call_and_wait); allocating makes *)
(* the process itself call the clearinghouse.                              *)
(*                                                                         *)
(* A process works off its message queue and its side queue in the order   *)
(* of arrival, so the two are one inbox here.  A result is recognised by   *)
(* its being one, not by the call it answers.  One query, `rts', is        *)
(* registered; its instances are known by their stream, 0 is the query.    *)
(* An application may have an instance print its tuples instead of sending *)
(* them (gsgdatprint): it waits for ever once it does, and exits when it   *)
(* does not.                                                               *)
(***************************************************************************)
EXTENDS Integers, Sequences, FiniteSets

CONSTANTS App,          \* the applications
          MaxStreams,   \* bound on the instances, and the addresses they take
          MaxAllocs     \* bound on the allocations

\* An allocation never waits for an address; no application is the process that
\* runs the query.
ASSUME SubscriptionAssumption ==
    /\ MaxStreams \in Nat /\ MaxAllocs \in Nat /\ MaxAllocs <= MaxStreams
    /\ "rts" \notin App

Stream == 1 .. MaxStreams
None   == 0

VARIABLES
    inbox,      \* the requests to the clearinghouse "ch" and to the process "rts"
    result,     \* the results sent to each process that calls
    flookup,    \* the instances in the clearinghouse's registry, behind the query
    created,    \* the instances, with their reference counts
    refcnt,
    process,    \* the instances that run, and for how many subscribers
    runrefcnt,
    fstreamid,  \* how often each application's ring buffer is mapped to a stream
    shm,        \* the applications that have a ring buffer with "rts"
    busy,       \* what "rts" is doing while it waits for the clearinghouse
    pc,         \* what each application waits for
    sub,        \* the stream an application is subscribed to
    allocs,     \* allocations so far
    astray      \* whether the clean-up of an allocation took the share of another

exec == <<created, refcnt, process, runrefcnt, fstreamid>>
app  == <<pc, sub, shm, allocs, astray>>
vars == <<inbox, result, flookup, exec, busy, app>>

Idle == [op |-> "idle", from |-> "rts", stream |-> None, reusable |-> 0]

Init ==
    /\ inbox = [p \in {"ch", "rts"} |-> <<>>] /\ result = [p \in App \cup {"rts"} |-> <<>>]
    /\ flookup = <<>>
    /\ created = {} /\ refcnt = [s \in Stream |-> 0]
    /\ process = {} /\ runrefcnt = [s \in Stream |-> 0]
    /\ fstreamid = [a \in App |-> [s \in Stream |-> 0]]
    /\ shm = {} /\ busy = Idle
    /\ pc = [a \in App |-> "idle"] /\ sub = [a \in App |-> None]
    /\ allocs = 0 /\ astray = FALSE

Call(p, callid, from, stream, reusable) ==
    inbox' = [inbox EXCEPT ![p] = Append(@, [callid |-> callid, from |-> from,
                                             stream |-> stream, reusable |-> reusable])]
Waiting(p, callid) == inbox[p] # <<>> /\ Head(inbox[p]).callid = callid
Served(p)       == inbox' = [inbox EXCEPT ![p] = Tail(@)]

Result(r, stream)  == [result |-> r, stream |-> stream]
Answer(to, rs)     == result' = [result EXCEPT ![to] = @ \o rs]
Take(p)            == result[p] # <<>> /\ result' = [result EXCEPT ![p] = Tail(@)]

-------------------------------------------------------------------------------
(* The registries of a process (callbackregistries.c), as functions on the *)
(* five variables.                                                         *)

Exec == [created |-> created, refcnt |-> refcnt, process |-> process,
         runrefcnt |-> runrefcnt, fstreamid |-> fstreamid]

SetExec(x) ==
    /\ created' = x.created /\ refcnt' = x.refcnt /\ process' = x.process
    /\ runrefcnt' = x.runrefcnt /\ fstreamid' = x.fstreamid

\* ftaexec_alloc_instance
AllocInstance(x, s) ==
    [x EXCEPT !.created = @ \cup {s}, !.refcnt[s] = IF s \in x.created THEN @ + 1 ELSE 1]

\* ftaexec_insert
Insert(x, s) == [x EXCEPT !.process = @ \cup {s}, !.runrefcnt[s] = @ + 1]

\* Mutant of Remove: the last subscriber leaves the instance running.
RemoveNever(x, s) ==
    IF s \notin x.process THEN x ELSE [x EXCEPT !.runrefcnt[s] = @ - 1]

\* Mutant of Remove: the other subscribers are not counted.
RemoveAtOnce(x, s) ==
    IF s \notin x.process THEN x ELSE [x EXCEPT !.runrefcnt[s] = 0, !.process = @ \ {s}]

\* ftaexec_remove, which fails for an instance that does not run.
Remove(x, s) ==
    IF s \notin x.process THEN x
    ELSE [x EXCEPT !.runrefcnt[s] = @ - 1,
                   !.process = IF x.runrefcnt[s] <= 1 THEN @ \ {s} ELSE @]

\* ftacallback_add_streamid, ftacallback_rm_streamid
AddStreamid(x, a, s) == [x EXCEPT !.fstreamid[a][s] = @ + 1]
RmStreamid(x, a, s)  == [x EXCEPT !.fstreamid[a][s] = IF @ > 0 THEN @ - 1 ELSE 0]

\* ftaexec_free_instance
FreeInstance(x, s) ==
    [x EXCEPT !.refcnt[s] = @ - 1,
              !.created = IF x.refcnt[s] = 1 THEN @ \ {s} ELSE @,
              !.process = IF x.refcnt[s] = 1 THEN @ \ {s} ELSE @]

-------------------------------------------------------------------------------
(* An application.                                                         *)

\* fta_find
Find(a, reuse) ==
    /\ pc[a] = "idle" /\ allocs < MaxAllocs /\ allocs' = allocs + 1
    /\ pc' = [pc EXCEPT ![a] = "find"]
    /\ Call("ch", "FTA_LOOKUP", a, None, reuse)
    /\ UNCHANGED <<result, flookup, exec, busy, sub, shm, astray>>

\* fta_alloc_instance: a ring buffer, unless the process refuses it (a NACK is
\* taken for success), and the call.
Alloc(a, reusable, acked) ==
    /\ pc[a] = "find" /\ Take(a) /\ pc' = [pc EXCEPT ![a] = "alloc"]
    /\ shm' = IF acked THEN shm \cup {a} ELSE shm
    /\ Call("rts", "FTA_ALLOC_INSTANCE", a, Head(result[a]).stream, reusable)
    /\ UNCHANGED <<flookup, exec, busy, sub, allocs, astray>>

\* fta_alloc_print_instance: the call, without a ring buffer.
AllocPrint(a, reusable) ==
    /\ pc[a] = "find" /\ Take(a) /\ pc' = [pc EXCEPT ![a] = "print"]
    /\ Call("rts", "FTA_ALLOC_PRINT_INSTANCE", a, Head(result[a]).stream, reusable)
    /\ UNCHANGED <<flookup, exec, busy, sub, shm, allocs, astray>>

\* Its result: the application sleeps for ever, or exits.
Printed(a) ==
    /\ pc[a] = "print" /\ Take(a)
    /\ LET r == Head(result[a]) IN
        /\ pc' = [pc EXCEPT ![a] = IF r.result = 0 THEN "printing" ELSE "exited"]
        /\ sub' = [sub EXCEPT ![a] = IF r.result = 0 THEN r.stream ELSE None]
    /\ UNCHANGED <<inbox, flookup, exec, busy, shm, allocs, astray>>

\* The result of fta_alloc_instance, and streamregistry_add.
Allocated(a) ==
    /\ pc[a] = "alloc" /\ Take(a)
    /\ LET r == Head(result[a]) IN
        /\ pc' = [pc EXCEPT ![a] = IF r.result = 0 THEN "subscribed" ELSE "idle"]
        /\ sub' = [sub EXCEPT ![a] = IF r.result = 0 THEN r.stream ELSE None]
    /\ UNCHANGED <<inbox, flookup, exec, busy, shm, allocs, astray>>

\* fta_free_instance
Free(a) ==
    /\ pc[a] = "subscribed" /\ pc' = [pc EXCEPT ![a] = "free"]
    /\ Call("rts", "FTA_FREE_INSTANCE", a, sub[a], 0)
    /\ UNCHANGED <<result, flookup, exec, busy, sub, shm, allocs, astray>>

\* Its result, whatever it is, and streamregistry_remove.
Freed(a) ==
    /\ pc[a] = "free" /\ Take(a)
    /\ pc' = [pc EXCEPT ![a] = "idle"] /\ sub' = [sub EXCEPT ![a] = None]
    /\ UNCHANGED <<inbox, flookup, exec, busy, shm, allocs, astray>>

-------------------------------------------------------------------------------
(* The clearinghouse.                                                      *)

\* ftalookup_lookup_fta_index: the first instance that can be shared, or the query.
Lookup ==
    LET m     == Head(inbox["ch"])
        share == {i \in 1 .. Len(flookup) : flookup[i].reusable >= 1}
        found == IF m.reusable = 1 /\ share # {}
                 THEN flookup[CHOOSE i \in share : \A j \in share : i <= j].stream ELSE None
    IN  /\ Waiting("ch", "FTA_LOOKUP") /\ Served("ch")
        /\ Answer(m.from, <<Result(0, found)>>)
        /\ UNCHANGED <<flookup, exec, busy, app>>

\* ftalookup_register_fta, which fails when the hub cannot be told of the
\* instance, or, the instance being listed already, of the host.  The first slot
\* that is not used is behind those that are.
Register(told, init) ==
    LET m == Head(inbox["ch"]) IN
    /\ Waiting("ch", "FTA_REGISTER") /\ Served("ch")
    /\ flookup' = IF told THEN Append(flookup, [stream |-> m.stream, reusable |-> m.reusable])
                  ELSE flookup
    /\ Answer("rts", <<Result(IF told /\ init THEN 0 ELSE -1, None)>>)
    /\ UNCHANGED <<exec, busy, app>>

\* ftalookup_unregister_fta: the argument is not looked at, all instances go (of
\* queries whose index is not 0; the one here has such an index).
Unregister ==
    /\ Waiting("ch", "FTA_UNREGISTER") /\ Served("ch")
    /\ flookup' = <<>>
    /\ Answer("rts", <<Result(0, None)>>)
    /\ UNCHANGED <<exec, busy, app>>

-------------------------------------------------------------------------------
(* The process that runs the query: fta_start_service.                     *)

\* Mutant of AllocResult: the error goes on to the result of the success, as it
\* does for an instance that cannot print.
AllocResultTwice(ok, s) ==
    IF ok THEN <<Result(0, s)>> ELSE <<Result(-1, None), Result(0, s)>>

\* send_fta_result
AllocResult(ok, s) ==
    <<IF ok THEN Result(0, s) ELSE Result(-1, None)>>

Allocating == {"FTA_ALLOC_INSTANCE", "FTA_ALLOC_PRINT_INSTANCE"}
Allocation(callid) == busy = Idle /\ Waiting("rts", callid)

\* Mutant of AllocFails: the error is not reported.
AllocFailsSilently ==
    /\ \E callid \in Allocating : Allocation(callid)
    /\ Served("rts")
    /\ UNCHANGED <<result, flookup, exec, busy, app>>

\* FTA_ALLOC_INSTANCE and FTA_ALLOC_PRINT_INSTANCE when no instance can be made,
\* mapped or inserted: what was done of it is undone.  (Memory that runs out as an
\* instance to print is inserted would do what PrintRefused shows.)
AllocFails ==
    /\ \E callid \in Allocating : Allocation(callid)
    /\ Served("rts") /\ Answer(Head(inbox["rts"]).from, AllocResult(FALSE, None))
    /\ UNCHANGED <<flookup, exec, busy, app>>

\* The stream of the instance that is allocated: the one asked for if it is
\* there, else a new one.
Allocates(s) ==
    LET m == Head(inbox["rts"]) IN
    IF m.stream \in created THEN s = m.stream ELSE s \in Stream \ created

\* FTA_ALLOC_INSTANCE without shared memory: the instance, which does not run
\* for this caller yet, is taken out.
RefuseAlloc(s) ==
    LET m == Head(inbox["rts"]) IN
    /\ Allocation("FTA_ALLOC_INSTANCE") /\ Allocates(s) /\ m.from \notin shm
    /\ SetExec(Remove(AllocInstance(Exec, s), s)) /\ astray' = TRUE
    /\ Served("rts") /\ Answer(m.from, AllocResult(FALSE, s))
    /\ UNCHANGED <<flookup, busy, pc, sub, shm, allocs>>

\* Both, up to the registration.
ServeAlloc(s, callid) ==
    LET m == Head(inbox["rts"])
        x == AllocInstance(Exec, s)
        print == callid = "FTA_ALLOC_PRINT_INSTANCE"
    IN  /\ Allocation(callid) /\ Allocates(s) /\ (print \/ m.from \in shm)
        /\ SetExec(Insert(IF print THEN x ELSE AddStreamid(x, m.from, s), s))
        /\ inbox' = [inbox EXCEPT !["rts"] = Tail(@),
                       !["ch"] = Append(@, [callid |-> "FTA_REGISTER", from |-> "rts",
                                            stream |-> s, reusable |-> m.reusable])]
        /\ busy' = [op |-> IF print THEN "print" ELSE "register", from |-> m.from,
                    stream |-> s, reusable |-> m.reusable]
        /\ UNCHANGED <<result, flookup, app>>

\* Back from the clearinghouse, with ok for its result.
Back(op, ok) ==
    /\ busy.op = op /\ result["rts"] # <<>> /\ ok = (Head(result["rts"]).result = 0)
    /\ busy' = Idle
    /\ UNCHANGED <<inbox, flookup>>
Reply(rs) == result' = [result EXCEPT !["rts"] = Tail(@), ![busy.from] = @ \o rs]

\* FTA_ALLOC_INSTANCE after the registration.
Registered(ok) ==
    LET s == busy.stream IN
    /\ Back("register", ok) /\ Reply(AllocResult(ok, s))
    /\ IF ok THEN UNCHANGED exec
       ELSE SetExec(FreeInstance(RmStreamid(Remove(Exec, s), busy.from, s), s))
    /\ UNCHANGED app

\* FTA_ALLOC_PRINT_INSTANCE after a registration that failed: the ring buffer
\* that is unmapped was never set, and may be anyone's.
PrintRefused ==
    LET s == busy.stream
        x == Remove(Exec, s)
    IN  /\ Back("print", FALSE) /\ Reply(AllocResult(FALSE, s))
        /\ \/ SetExec(FreeInstance(x, s)) /\ UNCHANGED astray
           \/ \E a \in App : SetExec(FreeInstance(RmStreamid(x, a, s), s)) /\ astray' = TRUE
        /\ UNCHANGED <<pc, sub, shm, allocs>>

\* ... and after one that succeeded.  When the instance cannot print (it is an
\* LFTA, it prints already, the arguments are wrong) the error goes on to the
\* result of the success, and the clearinghouse is not told.
PrintRegistered(prints) ==
    LET s == busy.stream IN
    /\ Back("print", TRUE)
    /\ Reply((IF prints THEN <<>> ELSE AllocResult(FALSE, s)) \o AllocResult(TRUE, s))
    /\ IF prints THEN UNCHANGED exec ELSE SetExec(FreeInstance(Remove(Exec, s), s))
    /\ UNCHANGED app

\* ftaexec_remove() as a condition: its 0 for success is false.
RemoveReported(s) == s \notin process

\* FTA_FREE_INSTANCE
ServeFree ==
    LET m == Head(inbox["rts"])
        x == Remove(Exec, m.stream)
    IN  /\ busy = Idle /\ Waiting("rts", "FTA_FREE_INSTANCE")
        /\ \/ /\ ~RemoveReported(m.stream)
              /\ SetExec(x) /\ Served("rts") /\ Answer(m.from, <<Result(-1, None)>>)
              /\ UNCHANGED busy
           \/ /\ RemoveReported(m.stream)
              /\ SetExec(FreeInstance(RmStreamid(x, m.from, m.stream), m.stream))
              /\ inbox' = [inbox EXCEPT !["rts"] = Tail(@),
                             !["ch"] = Append(@, [callid |-> "FTA_UNREGISTER", from |-> "rts",
                                                  stream |-> m.stream, reusable |-> 0])]
              /\ busy' = [op |-> "unregister", from |-> m.from, stream |-> m.stream, reusable |-> 0]
              /\ UNCHANGED result
        /\ UNCHANGED <<flookup, app>>

\* fta_unregister_instance returns -1, whatever the clearinghouse answered, and
\* -1 is what is asked for.
Unregistered ==
    /\ \E ok \in BOOLEAN : Back("unregister", ok)
    /\ Reply(<<Result(0, None)>>)
    /\ UNCHANGED <<exec, app>>

-------------------------------------------------------------------------------

Continue(a) ==
    \/ \E reusable \in {0, 1} : AllocPrint(a, reusable) \/ \E acked \in BOOLEAN : Alloc(a, reusable, acked)
    \/ Allocated(a) \/ Printed(a) \/ Freed(a)
Application(a) ==
    \/ \E reuse \in {0, 1} : Find(a, reuse)
    \/ Free(a) \/ Continue(a)
Clearinghouse == Lookup \/ (\E told, init \in BOOLEAN : Register(told, init)) \/ Unregister
Service ==
    \/ AllocFails \/ \E s \in Stream : RefuseAlloc(s) \/ \E callid \in Allocating : ServeAlloc(s, callid)
    \/ PrintRefused \/ \E ok \in BOOLEAN : Registered(ok) \/ PrintRegistered(ok)
    \/ ServeFree \/ Unregistered

Next == (\E a \in App : Application(a)) \/ Clearinghouse \/ Service

Spec == Init /\ [][Next]_vars

\* The processes work off their messages; an application that waits reads its
\* result.
FairSpec ==
    /\ Spec /\ WF_vars(Clearinghouse) /\ WF_vars(Service)
    /\ \A a \in App : WF_vars(Continue(a))

-------------------------------------------------------------------------------

\* The reference counts agree with the lists, and no freed instance runs.
TypeOK ==
    /\ process \subseteq created /\ created \subseteq Stream /\ shm \subseteq App
    /\ \A s \in Stream :
        /\ refcnt[s] \in 0 .. MaxAllocs /\ (s \in created <=> refcnt[s] > 0)
        /\ runrefcnt[s] \in 0 .. refcnt[s] /\ (s \in process <=> runrefcnt[s] > 0)
    /\ pc \in [App -> {"idle", "find", "alloc", "subscribed", "free", "print", "printing", "exited"}]
    /\ sub \in [App -> Stream \cup {None}]

\* As long as the clean-up of no failed allocation took the share of another (it
\* may for want of shared memory, and where an instance to print cannot be
\* registered), what others allocate and free, and registrations that fail, leave
\* a subscriber's instance running and mapped to its ring buffer, and the
\* instance of one that prints running.
RunsWhileSubscribed ==
    ~astray => \A a \in App :
      /\ pc[a] \in {"subscribed", "printing"} => sub[a] \in process
      /\ pc[a] = "subscribed" => fstreamid[a][sub[a]] > 0

\* ipc_call_and_wait takes any result for its own: a process never has more
\* results coming than calls it waits for, whatever fails.  An instance that
\* cannot print is the exception: two results are sent, and the application
\* exits with the first.
Pending(a) ==
    Len(result[a]) + Cardinality({p \in {"ch", "rts"} : \E i \in 1 .. Len(inbox[p]) : inbox[p][i].from = a})
    + (IF busy # Idle /\ busy.from = a THEN 1 ELSE 0)
OneResultPerCall ==
    /\ \A a \in App : pc[a] \notin {"print", "exited"} =>
         Pending(a) <= IF pc[a] \in {"find", "alloc", "free"} THEN 1 ELSE 0
    /\ Len(result["rts"]) <= IF busy = Idle THEN 0 ELSE 1

\* Every call is answered, although the process that serves it waits for a call
\* of its own in between.
CallsAnswered ==
    \A a \in App : pc[a] \in {"find", "alloc", "free", "print"} ~>
                      pc[a] \in {"idle", "subscribed", "printing", "exited"}

\* fta_free_instance ends a subscription: a ring buffer is mapped to a stream
\* only for a subscriber, or for one whose call is not answered yet.
MappedForSubscribers ==
    \A a \in App, s \in process :
        fstreamid[a][s] > 0 => sub[a] = s \/ pc[a] \in {"alloc", "free"}

\* The exception to OneResultPerCall: who asks for an instance that prints has one
\* result coming, too.
OneResultToPrint ==
    \A a \in App : pc[a] = "print" => Pending(a) <= 1
===============================================================================
