----------------------------- MODULE TupleStream ------------------------------
(***************************************************************************)
(* One stream: the process of an FTA posts tuples into a ring buffer per   *)
(* subscribing process (callbackinterface.c: hfta_post_tuple; rts_env.c:   *)
(* allocate_tuple, post_tuple) and the subscribers read them.              *)
(*                                                                         *)
(* Slots 1, 2, .. of the table fstreamid hold the stream's ring buffers,   *)
(* in the order of the subscriptions.  BLOCKRINGBUFFER and POLLING are     *)
(* defined (gsconfig.h): a poster waits for room in an atomic ring buffer  *)
(* and no wakeups are sent.  A subscriber on another host has a ring       *)
(* buffer at the poster, which the poster's own gscpipc_read drains into a *)
(* TCP connection, and one at its own end, which its own gscpipc_read      *)
(* fills.  A tuple that the connection does not take is lost on the way.   *)
(***************************************************************************)
EXTENDS RingBuffer

CONSTANTS N,          \* subscribing processes
          Sizes,      \* payload sizes posted
          MaxPosts,   \* bound on the tuples posted
          Placements, \* the sets of subscribers that may be on other hosts
          Wire,       \* tuples a connection takes before msg_send would block
          SendResults \* what msg_send returns when it would not block

ASSUME StreamAssumption ==
    /\ N \in Nat \ {0} /\ MaxPosts \in Nat /\ Wire \in Nat \ {0}
    /\ Sizes \subseteq 0 .. MaxTupleSz /\ Placements \subseteq SUBSET (1 .. N)
    /\ SendResults \subseteq {"sent", "error"}

Subscribers == 1 .. N
Modes == {"ATOMIC", "BESTEFFORT", "SUSPEND"}

VARIABLES
    side,     \* "HFTA" or "LFTA": which of the two posting functions runs
    remote,   \* the subscribers on other hosts
    n,        \* slots of fstreamid in use
    mode,     \* fstreamid[x].state
    ring,     \* fstreamid[x].r, the ring buffer at the poster
    wire,     \* tuples between the poster and a remote subscriber
    far,      \* the ring buffer at a remote subscriber
    hand,     \* the tuple its gscpipc_read is storing there, if any
    pc, k,    \* where the poster is, and its cursor nstreamid
    ru,       \* the ring buffer an LFTA's tuple was allocated in (0: none)
    cur,      \* the tuple being posted
    posted,   \* tuples posted so far: they are numbered in order
    got       \* what each subscriber has received

vars == <<side, remote, n, mode, ring, wire, far, hand, pc, k, ru, cur, posted, got>>
place  == <<side, remote>>
ends   == <<wire, far, hand, got>>

Init ==
    /\ side \in {"HFTA", "LFTA"} /\ remote \in Placements
    /\ n = 1
    /\ mode = [s \in Subscribers |-> "ATOMIC"]
    /\ ring = [s \in Subscribers |-> EmptyRing]
    /\ wire = [s \in Subscribers |-> <<>>]
    /\ far  = [s \in Subscribers |-> EmptyRing]
    /\ hand = [s \in Subscribers |-> <<>>]
    /\ pc = "idle" /\ k = 1 /\ ru = 0 /\ cur = [id |-> 0, sz |-> 0]
    /\ posted = 0
    /\ got = [s \in Subscribers |-> <<>>]

-------------------------------------------------------------------------------
(* Between two posts the process serves its messages.                      *)

\* ftacallback_add_streamid, for an FTA_ALLOC_INSTANCE of a new process.
Subscribe ==
    /\ pc = "idle" /\ n < N
    /\ n' = n + 1 /\ mode' = [mode EXCEPT ![n + 1] = "ATOMIC"]
    /\ UNCHANGED <<place, ring, ends, pc, k, ru, cur, posted>>

\* hfta_set_ringbuf_type, set_ringbuf_type: the loop of
\* ftacallback_state_streamid returns after the first slot.
SetRingbufType(m) ==
    /\ pc = "idle" /\ mode' = [mode EXCEPT ![1] = m]
    /\ UNCHANGED <<place, n, ring, ends, pc, k, ru, cur, posted>>

\* shmlist_drain_remote, in the poster's gscpipc_read: it stops at a message
\* for which msg_send returns 1, that is, would block.
Draining(s) == pc = "idle" /\ s \in remote /\ Unread(ring[s]) /\ Len(wire[s]) < Wire

\* msg_send returns 0, as it may on systems other than Linux.
DrainRemote(s) ==
    /\ Draining(s) /\ "sent" \in SendResults
    /\ wire' = [wire EXCEPT ![s] = Append(@, [id |-> CurRead(ring[s]).id, sz |-> CurRead(ring[s]).sz])]
    /\ ring' = [ring EXCEPT ![s] = AdvanceRead(@)]
    /\ UNCHANGED <<place, n, mode, far, hand, pc, k, ru, cur, posted, got>>

\* msg_send returns -1, on Linux always (a SIOCOUTQ that succeeds returns 0 and
\* is taken for an error), elsewhere when the connection fails: the index is
\* advanced all the same.
LoseRemote(s) ==
    /\ Draining(s) /\ "error" \in SendResults
    /\ ring' = [ring EXCEPT ![s] = AdvanceRead(@)]
    /\ UNCHANGED <<place, n, mode, ends, pc, k, ru, cur, posted>>

-------------------------------------------------------------------------------
(* Posting.                                                                *)

\* hfta_post_tuple, allocate_tuple: a size above MAXTUPLESZ is refused.
Post(sz) ==
    /\ pc = "idle" /\ posted < MaxPosts /\ sz <= MaxTupleSz
    /\ posted' = posted + 1 /\ cur' = [id |-> posted + 1, sz |-> sz]
    /\ pc' = IF side = "LFTA" THEN "alloc" ELSE "check"
    /\ k' = 1
    /\ UNCHANGED <<place, n, mode, ring, ends, ru>>

\* allocate_tuple: the first slot that is not suspended and has room.
Allocate ==
    /\ pc = "alloc" /\ k <= n /\ mode[k] # "SUSPEND" /\ SpaceToWrite(ring[k])
    /\ ring' = [ring EXCEPT ![k] = Fill(@, cur)]
    /\ ru' = k /\ pc' = "check" /\ k' = 1
    /\ UNCHANGED <<place, n, mode, ends, cur, posted>>

AllocateNext ==
    /\ pc = "alloc" /\ k <= n
    /\ mode[k] = "SUSPEND" \/ (mode[k] = "BESTEFFORT" /\ ~SpaceToWrite(ring[k]))
    /\ k' = k + 1
    /\ UNCHANGED <<place, n, mode, ring, ends, pc, ru, cur, posted>>

AllocateFails ==
    /\ pc = "alloc" /\ k > n
    /\ pc' = "idle" /\ UNCHANGED <<place, n, mode, ring, ends, k, ru, cur, posted>>

\* hfta_post_tuple, post_tuple: wait for room in every atomic ring buffer.
\* Mutant: room in one of the ring buffers is enough.
ReadyForSome == mode[k] = "ATOMIC" /\ k # ru => \E s \in 1 .. n : SpaceToWrite(ring[s])
Ready == mode[k] = "ATOMIC" /\ k # ru => SpaceToWrite(ring[k])
Check ==
    /\ pc = "check"
    /\ IF k <= n THEN Ready /\ k' = k + 1 /\ pc' = pc ELSE k' = 1 /\ pc' = "copy"
    /\ UNCHANGED <<place, n, mode, ring, ends, ru, cur, posted>>

Copy ==
    /\ pc = "copy" /\ k <= n /\ k # ru /\ mode[k] # "SUSPEND" /\ SpaceToWrite(ring[k])
    /\ ring' = [ring EXCEPT ![k] = Link(Fill(@, cur))]
    /\ pc' = "publish"
    /\ UNCHANGED <<place, n, mode, ends, k, ru, cur, posted>>

CopyNext ==
    /\ pc = "copy" /\ k <= n
    /\ k = ru \/ mode[k] = "SUSPEND" \/ ~SpaceToWrite(ring[k])
    /\ k' = k + 1
    /\ UNCHANGED <<place, n, mode, ring, ends, pc, ru, cur, posted>>

\* The ring buffer an LFTA's tuple was allocated in is the last one advanced.
LinkLast ==
    /\ pc = "copy" /\ k > n /\ ru # 0
    /\ ring' = [ring EXCEPT ![ru] = Link(@)]
    /\ pc' = "publish"
    /\ UNCHANGED <<place, n, mode, ends, k, ru, cur, posted>>

Target == IF k <= n THEN k ELSE ru
PublishStep ==
    /\ pc = "publish"
    /\ ring' = [ring EXCEPT ![Target] = Publish(@)]
    /\ IF k <= n THEN pc' = "copy" /\ k' = k + 1 /\ ru' = ru
                 ELSE pc' = "idle" /\ k' = k /\ ru' = 0
    /\ UNCHANGED <<place, n, mode, ends, cur, posted>>

PostDone ==
    /\ pc = "copy" /\ k > n /\ ru = 0
    /\ pc' = "idle" /\ UNCHANGED <<place, n, mode, ring, ends, k, ru, cur, posted>>

Poster ==
    \/ \E sz \in Sizes : Post(sz)
    \/ Allocate \/ AllocateNext \/ AllocateFails
    \/ Check \/ Copy \/ CopyNext \/ LinkLast \/ PublishStep \/ PostDone

-------------------------------------------------------------------------------
(* The subscribers.                                                        *)

\* The HFTA loop of fta_start_service, and gscp_get_buffer of an application.
Receive(s) ==
    /\ s \notin remote /\ Unread(ring[s])
    /\ got'  = [got EXCEPT ![s] = Append(@, CurRead(ring[s]).id)]
    /\ ring' = [ring EXCEPT ![s] = AdvanceRead(@)]
    /\ UNCHANGED <<place, n, mode, wire, far, hand, pc, k, ru, cur, posted>>

ReceiveFar(s) ==
    /\ s \in remote /\ hand[s] = <<>> /\ Unread(far[s])
    /\ got' = [got EXCEPT ![s] = Append(@, CurRead(far[s]).id)]
    /\ far' = [far EXCEPT ![s] = AdvanceRead(@)]
    /\ UNCHANGED <<place, n, mode, ring, wire, hand, pc, k, ru, cur, posted>>

\* gscpipc_read of the subscriber, LOWLEVELOP_REMOTE_TUPLE: it holds the
\* message until its ring buffer has room, and reads nothing meanwhile.
Arrive(s) ==
    /\ hand[s] = <<>> /\ wire[s] # <<>>
    /\ hand' = [hand EXCEPT ![s] = <<Head(wire[s])>>]
    /\ wire' = [wire EXCEPT ![s] = Tail(@)]
    /\ UNCHANGED <<place, n, mode, ring, far, pc, k, ru, cur, posted, got>>

StoreFar(s) ==
    /\ hand[s] # <<>> /\ SpaceToWrite(far[s])
    /\ far'  = [far EXCEPT ![s] = Publish(Link(Fill(@, Head(hand[s]))))]
    /\ hand' = [hand EXCEPT ![s] = <<>>]
    /\ UNCHANGED <<place, n, mode, ring, wire, pc, k, ru, cur, posted, got>>

Reads(s) == Receive(s) \/ ReceiveFar(s) \/ Arrive(s) \/ StoreFar(s)

Next ==
    \/ Poster \/ Subscribe
    \/ \E m \in Modes : SetRingbufType(m)
    \/ \E s \in Subscribers : Reads(s) \/ DrainRemote(s) \/ LoseRemote(s)

Spec == Init /\ [][Next]_vars

\* A post that has begun goes on; a process that serves its messages calls
\* gscpipc_read, which drains all its ring buffers, and a subscriber polls its
\* own, every 100 msec.
Fairness ==
    /\ WF_vars(Poster /\ pc # "idle")
    /\ WF_vars(\E s \in Subscribers : DrainRemote(s) \/ LoseRemote(s))
    /\ \A s \in Subscribers : WF_vars(Reads(s))

FairSpec == Spec /\ Fairness

-------------------------------------------------------------------------------
(* Properties.                                                             *)

RingType == [reader : Offsets, writer : Offsets,
             tuple : [Offsets -> [id : 0 .. MaxPosts, sz : Sizes \cup {0}, next : Offsets]],
             unread : Seq([at : Offsets, sz : Sizes, id : 1 .. MaxPosts])]

\* Every variable has its type.
TypeOK ==
    /\ side \in {"HFTA", "LFTA"} /\ remote \subseteq Subscribers
    /\ n \in 1 .. N /\ mode \in [Subscribers -> Modes]
    /\ ring \in [Subscribers -> RingType] /\ far \in [Subscribers -> RingType]
    /\ pc \in {"idle", "alloc", "check", "copy", "publish"}
    /\ k \in 1 .. N + 1 /\ ru \in 0 .. N /\ posted \in 0 .. MaxPosts
    /\ cur \in [id : 0 .. MaxPosts, sz : Sizes \cup {0}]

\* The ring buffers whose slot at the writer is being filled.
Writing ==
    {s \in Subscribers : \/ s = ru
                         \/ s = Target /\ pc = "publish"}

\* The bytes a poster writes hold no tuple its subscriber has still to read,
\* and lie within the length bytes of the segment (ADVANCEWRITE lets the last
\* tuple run past `end', SPACETOWRITE only compares with MAXTUPLESZ).
NoOverwrite ==
    \A s \in Writing :
        LET r   == ring[s]
            new == Bytes(r.writer, CurWrite(r).sz) IN
        /\ \A i \in DOMAIN r.unread : new \cap Bytes(r.unread[i].at, r.unread[i].sz) = {}
        /\ \A b \in new : b < End + MaxTupleSz - RingHeader

\* What a subscriber has not received, from the oldest tuple on.
Queue(s) ==
    LET ids(q) == [i \in 1 .. Len(q) |-> q[i].id] IN
    ids(far[s].unread) \o ids(hand[s]) \o ids(wire[s]) \o ids(ring[s].unread)

\* The slots post_tuple has still to serve with the current tuple.
Due ==
    IF pc = "idle" THEN {}
    ELSE {s \in 1 .. n : /\ mode[s] # "SUSPEND"
                         /\ pc \in {"alloc", "check"} \/ s >= k \/ s = ru}

Abstract == INSTANCE Multicast WITH
    due <- Due, queue <- [s \in Subscribers |-> Queue(s)], lossy <- remote,
    mode <- [s \in Subscribers |-> IF s <= n THEN mode[s] ELSE "SUSPEND"]

\* Ring buffers, links, indices and connections implement a multicast that
\* keeps the order, repeats nothing, and skips no atomic subscriber: a post to
\* the atomic set is never left half done, although the space that pass one
\* saw is used in pass two.  What is in the ring buffer of a subscriber on the
\* same host reaches it; on the way to another host tuples may be lost, the
\* others still arrive in order and once.
ImplementsMulticast == Abstract!Spec

\* The same, with every tuple reaching its subscriber.  Not so on another host.
Lossless == INSTANCE Multicast WITH
    due <- Due, queue <- [s \in Subscribers |-> Queue(s)], lossy <- {},
    mode <- [s \in Subscribers |-> IF s <= n THEN mode[s] ELSE "SUSPEND"]
NothingLost == Lossless!Spec

\* A post to subscribers on the same host returns: the poster that sleeps on a
\* full ring buffer is waiting for a reader that needs nothing of it.
PostReturns == (remote = {} /\ pc # "idle") ~> (pc = "idle")

\* A post returns, with an error when the atomic set has no room (fta.h).
\* Not so with a subscriber on another host: its ring buffer is drained by the
\* gscpipc_read of the process that sleeps in the post.
EveryPostReturns == (pc # "idle") ~> (pc = "idle")
===============================================================================
