------------------------------ MODULE Multicast -------------------------------
(***************************************************************************)
(* What a stream promises its subscribers, without memory, offsets or      *)
(* wires: tuples numbered in the order they are posted reach a subscriber  *)
(* in that order and once each; a tuple goes to every subscriber that is   *)
(* neither suspended nor best effort before the next one is posted.  What  *)
(* was sent arrives, unless the subscriber's connection is a lossy one.    *)
(***************************************************************************)
EXTENDS Naturals, Sequences

CONSTANTS Subscribers, MaxPosts

VARIABLES posted,   \* the number of tuples posted so far
          mode,     \* how each subscriber receives: ATOMIC, BESTEFFORT, SUSPEND
          due,      \* the subscribers the last tuple has still to be put out for
          lossy,    \* the subscribers whose connection may lose a tuple
          queue,    \* what each subscriber has not received yet
          got       \* what it has received

mcVars == <<posted, mode, due, lossy, queue, got>>

Init ==
    /\ lossy \subseteq Subscribers
    /\ posted = 0 /\ due = {}
    /\ mode \in [Subscribers -> {"ATOMIC", "SUSPEND"}]
    /\ queue = [s \in Subscribers |-> <<>>]
    /\ got   = [s \in Subscribers |-> <<>>]

Post ==
    /\ due = {} /\ posted < MaxPosts
    /\ posted' = posted + 1 /\ due' = {s \in Subscribers : mode[s] # "SUSPEND"}
    /\ UNCHANGED <<mode, lossy, queue, got>>

\* The tuple is refused for everybody: nobody has been sent it yet.
Refuse ==
    /\ due = {s \in Subscribers : mode[s] # "SUSPEND"}
    /\ \A s \in Subscribers : mode[s] # "ATOMIC"
    /\ due' = {} /\ UNCHANGED <<posted, mode, lossy, queue, got>>

Send(s) ==
    /\ s \in due
    /\ queue' = [queue EXCEPT ![s] = Append(@, posted)]
    /\ due' = due \ {s} /\ UNCHANGED <<posted, mode, lossy, got>>

Skip(s) ==
    /\ s \in due /\ mode[s] # "ATOMIC"
    /\ due' = due \ {s} /\ UNCHANGED <<posted, mode, lossy, queue, got>>

Receive(s) ==
    /\ queue[s] # <<>>
    /\ got'   = [got EXCEPT ![s] = Append(@, Head(queue[s]))]
    /\ queue' = [queue EXCEPT ![s] = Tail(@)]
    /\ UNCHANGED <<posted, mode, due, lossy>>

\* q without its i-th element.
Without(q, i) == [j \in 1 .. Len(q) - 1 |-> IF j < i THEN q[j] ELSE q[j + 1]]

Lose(s) ==
    /\ s \in lossy /\ \E i \in 1 .. Len(queue[s]) : queue' = [queue EXCEPT ![s] = Without(@, i)]
    /\ UNCHANGED <<posted, mode, due, lossy, got>>

SetMode ==
    /\ due = {} /\ \E s \in Subscribers, m \in {"ATOMIC", "BESTEFFORT", "SUSPEND"} :
                        mode' = [mode EXCEPT ![s] = m]
    /\ UNCHANGED <<posted, due, lossy, queue, got>>

Next ==
    \/ Post \/ Refuse \/ SetMode
    \/ \E s \in Subscribers : Send(s) \/ Skip(s) \/ Receive(s) \/ Lose(s)

Spec == Init /\ [][Next]_mcVars
===============================================================================
