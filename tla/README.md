# TLA+ models of Tigon

Tigon is a framework for real-time stream processing. A *flow* is a graph of
*flowlets* connected by transactional queues: every round of a flowlet
dequeues, calls a process method and enqueues inside one transaction, which is
what makes "exactly-once" processing possible. A second, separate part is
TigonSQL, a C/C++ stream query engine wrapped in a flowlet: *LFTAs* filter and
pre-aggregate packets in the process that reads them, *HFTAs* merge, aggregate
and join their output in processes of their own, and tuples travel between the
processes through ring buffers in shared memory.

This directory models both: of the flows, the code that carries the
exactly-once promise (the queues, the driver that runs flowlets on them, and
the controllers that start, suspend, resize and stop flowlets); of the engine,
the way of a tuple from the LFTA's hash table over the ring buffers to the
HFTA's operators, and the way a process comes to be subscribed to a stream.

## Inventory

| Component | State | Operations | What makes it correct |
|---|---|---|---|
| In-memory queue (`tigon-queue`, `inmemory`) | a skip list of entries with, per consumer group, a claim or a processed mark and its holder; a count of groups that are done; per consumer a start key and the entries of the open transaction; per producer a buffer and the last batch | enqueue, persist, undo; dequeue (a scan that runs concurrently with everything else), ack, undo, evict | an entry is used up once per group, is never in two hands, is never skipped, leaves the queue only when all groups are done, and leaves no trace when its transaction fails |
| Flowlet driver (`tigon-flow`, `FlowletProcessDriver`) | the process queue, the input to retry and its retry count, the back-off | start, dequeue, process, finish or abort, retry, ignore | every failure ends in a retry or in an acknowledged input, in a transaction of its own |
| Suspension and resizing (`FlowletProgramController`, `ConsumerSupplier`, `FlowProgramRunner`) | the group size, the queue consumers of the instances | suspend, resume, change instances | nothing is lost or done twice across a change |
| Program controllers (`AbstractProgramController`) | STARTING, ALIVE, SUSPENDED, STOPPED, ERROR and the states between; listeners | suspend, resume, stop, command, started, error, each finished by another thread | a state is left only by the operation that may leave it; every request is answered |
| HBase queue (`HBaseQueueConsumer`, `AbstractQueueConsumer`, `QueueEntryRow`, `HBaseQueueProducer`) | rows of entries with a state per group, an entry cache, scan and start rows, the persisted consumer state | the same as in memory, with claims by compare-and-set and scans that fill a cache | the same, and after a crash and a restart |
| HBase administration and coprocessors (`HBaseQueueAdmin`, `HBaseQueueRegionObserver`, `ConsumerConfigCache`) | start rows per group and instance, cached copies of them on the region servers | configure groups and instances, evict on flush and compaction | a start row never passes an entry that is still due; no entry is evicted that is |
| Transactions (Tephra, a library) | read pointer, transactions in progress | start, canCommit, commit, abort, timeouts | modelled as far as the queues see it |
| TigonSQL, Java side (`tigon-sql/src/main/java`) | the hub's data about process instances, queues of data records | register, start processing, restart on failure | processes start in order, with the addresses of those they need |
| Tuple streams of the engine (`gscpipc`, `rts_env.c`, `callbackinterface.c`) | per subscribing process a ring buffer of two indices and linked tuples; the type of each subscription; connections to other hosts | subscribe, set the ring buffer's type, post (two passes), read, drain to another host | no unread byte is overwritten; atomic subscribers on the same host get every tuple, all others what they get once and in order; a post returns |
| Services and registries (`callbackinterface.c`, `callbackregistries.c`, `lappinterface.c`, `clearinghouseregistries.c`) | the clearinghouse's table of queries and instances; per process the instances with reference counts, the run list, the stream table, a side queue of requests | look up, allocate, share, free, register, unregister, as calls that wait for a result | counts agree with the lists; a subscriber's instance runs; a call gets one result |
| LFTA aggregation (generated by `generate_lfta_code.cc`) | an open hash table with generations, the flush position, last epochs | accept a packet, evict, flush slowly or at once, report time, end | every packet is in one partial count; what is reported is flushed |
| HFTA operators and plans (`merge_operator.h`, `groupby_operator.h`, `join_eq_hash_operator.h`, `hfta.h`, functors from `query_plan.cc`) | queues and last timestamps of the merge, two tables of the group-by, queues and tables of the join | accept a tuple, report time, flush at the end | results are complete, final, in order and put out once |
| Query compiler (`ftacmp`), packet sources, hub and cluster manager, tools | - | - | translation and I/O without behaviour over time, see the end |
| API, YARN and Twill wiring, client, common services | - | - | wiring without behaviour of its own |

How they interact. A flowlet instance is one driver thread. It shares nothing
with the others but the queue, so all interference is through the skip list and
the transaction manager: a consumer works with the snapshot its transaction got
at the start, while entries appear (persist runs before the commit), are
marked, evicted or undone under its scan. Around that, a transaction may time
out at any moment; its client notices at the next canCommit or commit. The
controllers suspend drivers between two rounds and give them new queue
consumers when the number of instances changes.

The engine is made of single-threaded processes. They interact through messages
(a call sends a request and waits for a result; what arrives meanwhile is put
aside) and through ring buffers with one writer and one reader and no lock.
Progress in time is part of the data: a *temporal tuple* says that nothing
older follows, and the operators close epochs and release queues by it.

What is hard to test here: the order in which a scan meets entries of open,
committed and failed transactions; a timeout between the marks and the commit;
a retried input that outlives its transaction, or its queue consumer; claims of
instances that are gone; eviction by one group under the scan of another; the
extreme hash value; a request that meets a flowlet while it starts, fails or is
parked. In the engine: ring buffers that wrap or are full to the last byte;
streams of which one runs far ahead of the other; a slow flush that is
overtaken by the next epoch; errors half-way through an allocation that
involves three processes. `PROJECT.json` lists each of these with its line and the
properties that cover it.

## Modules

| Module | Models |
|---|---|
| `Tephra` | the transaction manager, from what the clients use of it (external) |
| `InMemoryQueue` | `InMemoryQueue`, `InMemoryQueueConsumer`, `InMemoryQueueProducer`, `AbstractQueueProducer`: one operator per method, one per kind of loop iteration of `dequeue` |
| `QueueFlow` | producers and consumer instances running `FlowletProcessDriver` on one queue; the properties |
| `ExactlyOnceQueue` | the abstract specification: transactions publish sets of entries, each group uses an entry up in one transaction |
| `ElasticFlow` | `QueueFlow` with suspend, resume and changes of the number of instances |
| `FlowletControl` | `AbstractProgramController`, `FlowletProgramController` and the life of the driver's thread, per flowlet instance |
| `FlowControl` | the flow's controller over them (`FlowProgramRunner.FlowProgramController`), its client, and the properties of both |
| `QueueFlowInv`, `FlowControlInv`, `JoinQueryInv`, `StreamQueryInv` | the inductive invariants `OnceInv`, `QueueInv` and `SkipInv`; `FlowInv`; `JoinInv`; `EndInv` and `CountInv` |
| `QueueFlowProofs`, `QueueFlowSafety` | the proofs about `QueueFlow` |
| `TupleStreamProofs` | the invariant `StreamInv` and the proofs about `TupleStream` |
| `FlowControlProofs` | the proofs about `FlowControl` |
| `JoinQueryProofs` | the proofs about `JoinQuery` |
| `StreamQueryProofs`, `StreamQueryCounts` | the proofs about `StreamQuery` |
| `SubscriptionsProofs` | the invariant `SubscriptionInv` and the proofs about `Subscriptions` |
| `RingBuffer` | the macros of `gscpipc.h` on one ring buffer |
| `TupleStream` | one stream: posting from an LFTA or an HFTA into the ring buffers of its subscribers, their reading, and the connection to a subscriber on another host, which may lose tuples |
| `Multicast` | the abstract specification of a stream |
| `LftaAggregate` | the code generated for a group-by LFTA, as functions on its struct |
| `MergeOperator`, `GroupByOperator`, `JoinOperator` | the operators with their generated functors, as functions on their state |
| `StreamQuery` | sources, LFTAs, merges and a group-by composed to a query, as `MULTOP_HFTA` runs it |
| `JoinQuery` | a join of two streams in an HFTA |
| `Subscriptions` | applications, the clearinghouse and the process of a query: calls, registries, reference counts |
| `MCQueueFlow`, `MCElasticFlow`, `MCJoinQuery` | constants for TLC |

### How state and actions correspond to the code

*Keys.* An entry's key is the write pointer of its transaction and a sequence
number, as in `InMemoryQueue.Key`, ordered by `compareTo`. No key is inserted
twice, so `itemState`, `processedCount` and `hash` are functions over all keys
and `entries` says which are in the map.

*Dequeue.* `dequeue` is not atomic. `BeginDequeue` creates the iterator, which
already holds its first key; each `ScanKey` is one iteration: it moves the
iterator to the next key that is in the map *now* (the skip list's iterator is
weakly consistent), may advance `startKey`, and then takes one of six ways
through the loop body (newer than the snapshot, in progress, settled, free to
claim, already claimed, hashed). `entries.get` and the claim are one step: the
only thing another thread can do between them is to remove or mark an entry,
which the code cannot tell from its having happened just after.

*Transactions.* `TransactionContext.finish` is `canCommit`, `commitTx` of the
client, `commit`, `postTxCommit`; these are the steps `finish`, `commit` and
`post` of a consumer and `emit` to `commit` of a producer, whose `persist` loop
has one step per entry. `abort` is the rollback of the client followed by the
abort at the manager. A timeout (`Timeout`) takes the transaction off the list
of open ones; its client goes on until the manager refuses it.

*Write pointers.* Only the write pointers of producers are stored. Producers get
the even numbers 2, 4, ...; a consumer's transaction gets the odd number after
the last producer, since only its order relative to producers is ever observed.
So consumers may poll for ever in a finite state space.

*Driver.* `input`, `retry` and `retrying` are the `InputDatum`, its retry count
and whether the process entry is a retry entry. `CAbortRetry` and
`CAbortIgnore` are the two failure policies, a free choice until the number of
retries is used up. `CIgnore` is `InputAcknowledger.ack`. A failure to decode
(`BasicInputDatum` decodes when it is built, inside `dequeue`) is `CDecodeThrows`.

*Resizing.* `ReopenGroup` changes the size of a group while all of its instances
are between rounds, which is what suspending them ensures; instances that stop
or resume one after the other are instances that take no step for a while. Each
survivor has a new queue consumer (`startKey` is null again); an input it has
to retry still belongs to the old one, which no longer takes part in
transactions: `detached`.

*Controllers.* A request (`Request`) does its compare-and-set in the caller's
thread and leaves a `task`, the thread that does the rest; the tasks' steps are
those of `doSuspend`, `doResume`, `doStop` and `doCommand` between which the
driver can move. `driver` is where the driver's thread stands: a process round
is `round`, and `barrier` and `latch` are the two places a suspension holds it.
`shutdown` stands for both the service's state and the interrupt, which are set
together. `aliveTask` is the thread that `started()` creates. An operation of
the flow is a `plan`: a list of requests to sets of instances, each awaited
before the next is made, under the flow's lock. All futures are awaited with
`successfulAsList`, so a refused or failed request does not end the plan.
Since the flow awaits each request, a flowlet instance has one task at a time,
and the barrier is never broken.

*Guava.* The driver is an `AbstractExecutionThreadService`: its listener is told
`running` before `run` is called, so a flowlet is ALIVE before it is
initialized, and a service told to stop while it starts never runs.

*Ring buffers.* Offsets are bytes. The memory is seen as the tuple headers at
the offsets where one was written; `unread` is a history variable, the slots
published and not read. `ADVANCEWRITE` is two stores and two steps (`Link`,
`Publish`), so a reader may look in between. `Post`, `Check`, `Copy` and
`PublishStep` are the passes of `hfta_post_tuple` and `post_tuple`, one step
per ring buffer; `Allocate` is `allocate_tuple`, which reserves the slot an LFTA
fills in place. The build is the one `gsconfig.h` selects: `BLOCKRINGBUFFER`,
so a post waits for an atomic ring buffer, and `POLLING`, so no wake-ups are
sent. The payload is a number, its size is real. `SPACETOWRITE` names `reader`
several times and the model reads it once, as a compiler does that loads a field
that is not volatile once in an expression. One that loads it at each place could
see it above `writer` in one comparison and wrapped to 0 in the next; the
difference is unsigned, so there would seem to be room. That build is not in the
model.

*Other hosts.* The poster's `gscpipc_read` drains the ring buffer of a subscriber
on another host (`shmlist_drain_remote`) message by message. It stops when
`msg_send` returns 1 (the connection is full, `Wire`) and advances the ring
buffer after 0 and after -1 alike: `DrainRemote` and `LoseRemote`. On Linux,
`msg_send` without blocking takes the 0 of a successful `SIOCOUTQ` for an error
(`gscpipc.c:314`) and always returns -1, so there every tuple is lost
(`SendResults = {"error"}`); elsewhere a broken connection loses them. The
run allows both results at each message.

*LFTA.* The functions of `LftaAggregate` are what the generator's strings do
when they run: `Accept` is `accept_packet` (slow flush, new epoch, probing,
eviction, update), `Clock` is `clock_fta`, `FileDone` the end. A packet is its
epoch and its group; the aggregate is a count. The hash is any fixed function.

*Operators.* `accept_tuple` and `flush` return the new state and the output
list, as in the code. `StreamQuery` routes a tuple through the operators in
topological order in one step, because `accept_packet` does; LFTAs and the HFTA
interleave freely, with a FIFO between them that loses nothing, which is what
`TupleStream` is shown to implement for subscribers on the same host; of an HFTA
on another host `StreamQuery` says nothing. The plan is a chain of two-way
merges, which is what `split_sources` makes of two and of three sources; from
four on it makes a balanced tree, and there the model is not the compiler's
plan. A status tuple of the join that is built from memory never
written has timestamp 0, and no property looks at it.

*Calls.* A request stays in `inbox` and a result in `result`; message queue and
side queue are one, since a process serves them in the order of arrival.
`ServeAlloc` and `ServeFree` go up to the call they make to the clearinghouse,
`Registered` and `Unregistered` on from its result: between the two, `busy`
says what the process is doing and it serves nobody else. Memory of a freed
instance may be used again, so a freed stream number may be too.

An application may also ask for an instance that prints its tuples where it runs
(`AllocPrint`, as `gsgdatprint` does): it shares lookup, allocation and registration
with the others but has no ring buffer, waits for ever when it succeeds, and
exits when it does not. `AllocFails` is every failure before the registration
that is undone completely; `RefuseAlloc` is the one that is not (no shared
memory), and `PrintRefused`, `PrintRegistered` what follows the registration of
an instance to print. There the code unmaps a ring buffer `r` that it never set,
which may be nobody's or anybody's, and after an error goes on to the result of a
success. `astray` records that a clean-up took a share that was not its own.
`Register` may list an instance and still fail, when the hub cannot be told that
the host is complete. A call to unregister is always reported as failed to the
process, which counts that as a success and answers 0 (`Unregistered`).

## Properties

`AtMostOnce`, `ExclusiveInput`, `NoDirtyRead`, `RemovedOnlyWhenConsumed`,
`AbortLeavesNothing`, `NothingSkipped`, `HashHasOwner`, the liveness properties
`EventuallyConsumed` and `EventuallyEvicted`, and the refinement
`ImplementsExactlyOnceQueue` are stated, each with a comment, at the end of
`QueueFlow`. `published` and `consumed` are history variables that record
commits.

For the controllers, at the end of `FlowControl`: `SuspendedMeansParked`,
`OneGroupSize`, `DoneMeansDone`, `TerminalOnceStarted`, `Answered` and
`AliveRuns`, and two that are stronger and fail: `FlowStateIsTrue` (what
`DoneMeansDone` says at the end of an operation goes on to hold) and
`TerminalStates`. `OneGroupSize` is
what justifies that `ElasticFlow` resizes a group in one step.

For the engine: `NoOverwrite`, `ImplementsMulticast` and `PostReturns` in
`TupleStream`; `PacketsCountedOnce`, `ResultIsFinal`, `ResultsInOrder` and
`EndIsReported` in `StreamQuery`; `ResultsAreMatches` (results against the
join as SQL defines it, over all tuples), `CompleteBelow` and `NoneLeftBehind`
in `JoinQuery`; `RunsWhileSubscribed`, `OneResultPerCall` and `CallsAnswered` in
`Subscriptions`. `StreamQuery.sent`, `JoinQuery.log` and
`JoinQuery.late` are history variables.

## Runs

| Run | Instance | Shows |
|---|---|---|
| `fifo_instances` | 1 producer, 1 transaction of up to 2 entries, 1 FIFO group of 2 instances, batches of 2, 1 retry, 1 fault (a timeout of anybody or a decode failure) | the safety properties of FIFO and the invariant of the proofs |
| `two_groups` | 1 producer, 1 transaction of up to 2 entries that may fail, a FIFO and a hashing group of one instance each, batches of 2, 1 retry, 1 fault of a consumer | visibility, eviction, rollback, refinement |
| `liveness` | as the first, 1 entry, consumers time out | committed entries are used up and evicted |
| `elastic_fifo` | resizing a FIFO flowlet between 1 and 2 instances, 1 entry, 1 timeout of a consumer | the claim of an instance that is gone is taken over, and used up once |
| `elastic_hash` | the same of a hashing flowlet, 2 transactions of one producer, no faults | ownership, start keys, eviction and rollback across resizing |
| `skipped_entry` | the smallest instance that shows it | the first finding below |
| `flow_control` | 1 or 2 instances, 4 requests, up to 4 instances created; a client that waits until its last request is done, and changes the number of instances in any state of the flow | the flowlets' states are true of their threads, operations do what they say, requests are answered |
| `tuple_stream` | 2 subscribers, one perhaps on another host, LFTA or HFTA, all ring buffer types | no overwriting, refinement of `Multicast` (lossless on the same host), a local post returns |
| `stream_query` | 2 sources, tables of 2 slots, 2 groups, 3 epochs, 3 packets, 1 clock signal or rejected packet | the query counts right, finally and in order |
| `join` | all four join types, 2 streams, tuples that pass and fail the prefilter, temporal tuples | results are those of the join, in order, and complete as far as the join has got |
| `join_start` | the same, smaller | the second finding below |
| `subscriptions` | 2 applications, 3 allocations, to receive or to print, every step of which may fail | registries agree, instances run, one result per call, calls are answered |

Further configurations show the other findings below; each is run as
`tlc -config X.cfg M` and ends with a counterexample: `DirtyRead`,
`SmallestHash` (`MCQueueFlow`), `ClaimAfterShrink`, `RetryAfterReopen`
(`MCElasticFlow`), `TerminalStates`, `FlowState`, `HastyChange` (`FlowControl`),
`RemotePost`, `RemoteLoss`, `LargestTuple` (`TupleStream`), `EofThreeSources`
(`StreamQuery`), `JoinEnd` (`MCJoinQuery`), `FreeInstance`, `TwoResults`
(`Subscriptions`).

Bounds. Two entries are the least with which a start key can pass one, two
instances the least that can compete, two groups the least for eviction to have
to wait. Two producers, the least for commits out of order, are in
`skipped_entry` and in the theorems, which hold for any number. One fault suffices
for each kind of failure in each place; a second one adds repetitions. A retry
count of one distinguishes a first attempt, a retry and an exhausted retry. The
elastic runs allow no retries and at most two instances, because with them the
findings below apply: what they show of claims is that the one survivor of a
shrink takes a claim over. Producers do not time out in `two_groups`, since
`NoDirtyRead` then fails (`DirtyRead`). The queue runs use no symmetry. In
`flow_control` four requests are enough to
suspend, resume, resize in either direction and stop in one behaviour, and to
shrink and grow again, with two instances to differ from each other.

In the engine, a ring of ten bytes holds three tuples and wraps in the middle of
a tuple's slack, and five posts go round it once; the assumption `End >= 3 *
MaxTupleSz` is what `gscpipc_createshm` asks for. Two slots, with groups that
hash to either, are the fewest in which a group of the new epoch can meet one
of the old; three epochs let a second epoch end while the first is still being
flushed. Three packets are enough for the two sources to be two epochs apart with
a tuple in the merge's queue and one in the group-by's old table; with
`MaxPackets = 4` (797 753 states) every property of the run still holds. In the
join, five tuples over three timestamps and two keys fill both queues, pass a
timestamp with and without matches, and let a tuple of either side come late;
keys are only compared, so they are symmetric. Three allocations by two
applications are enough to share an instance, to free it on one side and to
look it up again.

`Careful` restricts the client in `flow_control`: a request is made only when no
other is under way and nothing is being started. It is an assumption about the
environment. The code does not ask it of its clients, does not offer them a way
to see all of it, and `DefaultFlowManager.setFlowletInstances` does not wait.
It says nothing about the flow's state: `doCommand` does not look at it, and the
run changes the number of instances of an ALIVE, a SUSPENDED and a STOPPED flow.
Without `Careful`, `OneGroupSize` fails (`HastyChange`): an instance change that
meets a flowlet in STARTING turns it to ERROR, from which it can no longer be
stopped, and it goes on with consumers for the old group size.

Fairness. `FairSpec` asks weak fairness of each consumer instance's thread: the
driver's loop runs as long as the flowlet does, nothing in it waits for another
thread, and a process method that fails for ever is ended by the retry limit.
The transaction manager and the producers need no fairness, since a committed
entry needs nothing more from them. In `FlowControl` each thread (the lock's
holder, the tasks, the drivers, the threads of `started()`) is weakly fair: each
does a bounded amount of work between two waits, the process round included,
which the driver ends after 30 seconds when it has to stop. The client is not
fair; it may never ask. In `TupleStream` a post that has begun goes on, and a
subscriber polls its ring buffers (`POLLING`: every 100 ms at the latest); how
often a process posts is left open. In `Subscriptions` the clearinghouse and
the process serve their messages, and an application that waits for a result
reads it; whether it ever calls is its own affair. The fairness of the last two
modules is not independent in the code: the thread that serves a call may be
asleep in a post to a full ring buffer, and the process that should read it may
be in `ipc_call_and_wait`, where it does not (the hazard at
`lappinterface.c:38`). `PostReturns` and `CallsAnswered` each take the other
side's progress for granted and do not show that the two together make progress.

## Findings

Those that are runs:

* `skipped_entry`: `dequeue` advances `startKey` before it compares the read
  pointer, so a consumer can leave an older, later committed entry behind.
* `join_start`: when the second stream of a join starts, `curr_ts` is set to the
  largest timestamp seen on the stream that is behind, although older tuples
  are in its queue. They are never joined, and block the queue for good.

Those that a configuration without a run shows:

* `DirtyRead`: `dequeue` (`InMemoryQueue.java:84`) passes over entries of
  transactions in progress, not over those of one that has timed out and is not
  rolled back yet, although the process method is said to see no uncommitted
  writes (`developer.rst:465`).
* `SmallestHash`: `Math.abs(Integer.MIN_VALUE)` is negative
  (`InMemoryQueue.java:126`); no instance takes such an entry. (`QueueEntryRow`,
  for HBase, takes the remainder first.)
* `ClaimAfterShrink`: the claim of an instance that is gone is not replaced
  (`InMemoryQueue.java:266`), so all remaining instances take the entry.
* `RetryAfterReopen`: an input retried after a suspend and resume, or a
  resize, is processed and committed but not acknowledged, since its queue
  consumer is closed, and processed again.
* `TerminalStates`: the thread that `started()` creates sets ALIVE
  unconditionally (`AbstractProgramController.java:205`); when a flowlet's
  initialization fails before it runs, the controller goes from ERROR, a
  terminal state, to ALIVE with no driver.
* `FlowState`: `doCommand` (`FlowProgramRunner.java:247`) does not look at the
  flow's state. A change of the number of instances resumes the flowlets of a
  SUSPENDED flow, and starts new ones in a STOPPED flow.
* `HastyChange`: a change made while an instance is still STARTING leaves that
  instance processing with queue consumers for the old group size, next to the
  others with the new one.
* `LargestTuple`: `SPACETOWRITE` compares the room with `MAXTUPLESZ` and leaves
  out the tuple's header. Tuples of more than `MAXTUPLESZ` minus the header's
  size, which `allocate_tuple` and `hfta_post_tuple` accept, overwrite a tuple
  the reader has not read.
* `RemotePost`: a post that waits for the ring buffer of a subscriber on another
  host waits for ever, because only `gscpipc_read` of the same thread drains it.
* `RemoteLoss`: `shmlist_drain_remote` (`gscpipc.c:700`) goes on to the next tuple
  after an error of `msg_send`, which on Linux every call without blocking
  reports: a subscriber on another host, atomic or not, gets nothing.
* `EofThreeSources`: `MULTOP_HFTA::flush` (`hfta.h:674`) hands the output queue
  to the parents without emptying it before the next operator, so with two
  merges before the group-by tuples of the first are counted twice.
* `JoinEnd`: `flush` of the join takes one step of the timestamp; what the
  queues hold beyond it is lost at the end of the streams. If one stream had
  no tuple at all it reads a null pointer (`FlushCrashes`).
* `FreeInstance`: `FTA_FREE_INSTANCE` (`callbackinterface.c:545`) takes
  `ftaexec_remove`'s 0 for a failure. A subscriber that has freed its instance
  keeps its place in the stream table, so a shared instance goes on posting,
  and then waiting, for a ring buffer nobody reads.
* `TwoResults`: when an instance that is to print is allocated and registered but
  cannot print, `fta_start_service` sends -1 (`callbackinterface.c:503`, `513`)
  and goes on to a second result, a success for the instance it has just freed
  (`:521`). `gsgdatprint` exits with the first.
* Without `~astray`, TLC refutes `RunsWhileSubscribed`: when shared memory is
  refused for an instance that is reused, the clean-up takes it off the run
  list, where it is because of another subscriber; and when the registration of
  an instance to print fails, the ring buffer unmapped is the value of a variable
  never set (`callbackinterface.c:489`).

## Proofs

`QueueFlowProofs` proves `TypeCorrect == Spec => []TypeOK`. The work is in the
least elements: `First` and `FirstShortInProgress` are `CHOOSE` expressions,
and that a least key exists needs the well-foundedness of the naturals.

It goes on to `OnceInvariant == Spec => []OnceInv`, and from it to
`UsedUpAtMostOnce` and `InputsExclusive`, for every number of producers, groups,
instances, entries, transactions, retries and faults. `AtMostOnce` is not
inductive. What has to be added:

* `EntitledInv`: whatever a consumer has in hand (`InHand`: its input and the
  entries of its open transaction) it is entitled to, by a claim or processed
  mark in its name, or by the hash. Two instances are never entitled to the
  same entry, which gives `ExclusiveInput`.
* `FreshInv`: what is in hand has not been used up yet.
* `MarkedInv`: what has been used up is marked, as long as it is in the queue.
  A scan passes over marked entries, so it only takes fresh ones.
* `CommitInv`: at the commit the whole input is marked.
* `WritersInv`, `UnbornInv`: a key is inserted once, and before that nobody has
  anything to do with it; without this a producer could bring a used-up entry
  back.
* `HolderInv`, `InstancesInv`: claims belong to existing instances. This is
  what resizing breaks, and where the findings come from.

The proof has one lemma for steps that mark nothing (`QuietStep`), one for steps
that change marks (`MarkStep`), one for everybody who is not a consumer
(`WriterStep`), and one step per action. The assumptions are those on the
constants (`TephraAssumption`, `QueueAssumption`, `FlowAssumption`), which TLC
evaluates in every run.

### The queue's other promises

`QueueFlowSafety` extends the invariant to `QueueInv` and proves from it

* `NothingLeftByAbort`: `AbortLeavesNothing`, with no hypothesis;
* `NothingRemovedEarly`: `RemovedOnlyWhenConsumed`, with no hypothesis;
* `NoDirtyReads` and `FlowImplementsQueue`: `NoDirtyRead` and the refinement
  `ImplementsExactlyOnceQueue`, if no transaction of a producer times out
  (`TimeoutProcs \cap Producers = {}`). The hypothesis is needed:
  `DirtyRead.cfg` is the counterexample without it. Consumers may time out at
  any point;
* `EveryHashHasOwner`: `HashHasOwner`, if no hash is the smallest `int`
  (`SmallestHash.cfg` is the counterexample);
* `OneProducerNothingSkipped`: `NothingSkipped`, if there is at most one
  producer (`SkippedEntry.cfg` is the counterexample with two).

What `QueueInv` adds to `OnceInv`: `BusyInv` and `WrittenInv` (a producer has a
write pointer exactly while it is busy, and the entries under it are those that
its commit publishes and its rollback removes), `PublishedInv`, `SnapshotInv`
(the snapshot of a consumer hides every open transaction, those begun since
included), `OpenInv` (the entries of an open transaction are there and in
nobody's hand), `HandInv` (what the queue consumer holds is what is undone or
counted) and `CountInv`: `processedCount` is at most the number of groups that
have used the entry up and gone through `postTxCommit`, which is why an entry is
removed only after all of them. For the last two theorems `CleanInv` adds that a
producer's transaction stays open until it commits or aborts, and that what a
consumer has in hand is published.

`NothingSkipped` needs `SkipInv`: `startKey` is never past an entry the consumer
still has to consume, and that includes entries nobody has written yet. With one
producer a transaction begins after the one before has ended, so the open one
has the largest write pointer (`LatestInv`) and every key still to be written is
behind every key that was. `BehindFor` keeps `startKey` and the cursor before
all keys an open transaction may yet commit, and `FollowFor` says, for as long
as `updateStartKey` lets `startKey` follow the scan, that the scan has passed
nothing the consumer has to consume now or after such a commit. Two producers
break `LatestInv`: the one with the smaller write pointer may commit last, and
the scan has gone by.

### Controllers

`FlowControlProofs` proves `FlowInvariant` and from it `FlowTypes` (`TypeOK`),
`SuspendedIsParked` (`SuspendedMeansParked`), `GroupSizesAgree`
(`OneGroupSize`), `OperationsAreDone` (`DoneMeansDone`) and
`TerminalStatesKept` (`TerminalOnceStarted`), for any number of instances and
requests, changes of their number in every state of the flow, and flowlets that
fail to initialize at any point. The hypothesis is `Careful`: the client waits
for one request before it makes the next, and until everything has started. It
is that of the `flow_control` run, an assumption about the client and not a
promise of the code; what a client that does not wait meets is in
`HastyChange.cfg` and `TerminalStates.cfg`. `TerminalStatesKept` lets a STOPPED
instance go to ERROR, which it does when a change of a stopped flow sends it a
new instance count.

The invariant `FlowInv` puts three views of an instance together. `FlowletOK`:
the state of its controller, the thread of its request and its driver are in one
of seven combinations, from `AtStart` to `HasFailed`; a controller in `ERROR` may
still have a request that waits for ever. `ModeOK`: which states the operation
under way and the rest of its plan (`PlanOK`) leave to the instances in the
table (the flow's own state does not count: it says nothing lasting about them),
and that those that left the table are stopped or being stopped. `SizesOK`: while
the plan is before its `command` all live instances have one instance count,
between `command` and `resume` all of them are parked, and after it they have the
new one; with `Reading`, which says when the queue consumers match the instance
count, this gives `OneGroupSize`. `RequestsOK` is where `Careful` enters: as long
as a request is under way no thread of `started()` is left to set `ALIVE`.

The proof treats a step of one instance once (`Aside`, `Inside`, `LocalKeeps`),
whichever of its seventeen actions it is, and then each step of the flow.

### Ring buffers

`TupleStreamProofs` proves `StreamInvariant`, `StreamTypes` (`TypeOK`),
`NothingOverwritten` (`NoOverwrite`) and, as a refinement,
`StreamImplementsMulticast` (`ImplementsMulticast`): no atomic subscriber is
skipped by a post, each subscriber gets its tuples in order and none twice, and
one on the same host gets all that is in its ring buffer. On the way to another
host any tuple may be lost: the abstract multicast has a step for that
(`lossy`), because `shmlist_drain_remote` loses them. The theorems hold for every
number of subscribers and every size of ring, header and tuple, in behaviours
with `[]CurFits`: each tuple that is posted is with its header no larger than
`MAXTUPLESZ`. The code compares the payload alone (`callbackinterface.c:812`), so
this is a hypothesis about the posts, not an assumption on the constants, and
`LargestTuple.cfg` is the counterexample without it.

The invariant `StreamInv` says of each ring that the unread slots are a list
from reader to writer, linked by the headers in memory (`Linked`, `Stored`), and
that they lie between the two indices one after the other, wrapped or not
(`Between`, `Before`). That alone does not let a slot be filled: `FilledOK` says
that a slot being filled has room and holds the tuple, and `RoomOK` that the
room pass one of a post found for an atomic subscriber is still there in pass
two, although readers move in between.

### Subscriptions

`SubscriptionsProofs` proves, for any number of applications, instances and
allocations, `SubscriptionInvariant` and from it `SubscriptionTypes` (`TypeOK`),
`SubscribersAreServed` (`RunsWhileSubscribed`) and `ResultsMatchCalls`
(`OneResultPerCall`). The last excepts the application that asks for an instance
to print, which may get two results (`TwoResults.cfg`).

The invariant `SubscriptionInv` has two main parts. `CallsOK` and `ResultsOK`: the
call of an application is in one place, an inbox, the hands of the process that
serves it, or a result; the process has asked the clearinghouse only while it
waits. `CountsOK`: an application `Holds` an instance from the moment its
allocation is served until its request to free it is; an instance has at least
as many references as holders, and as many running ones and a mapped ring buffer
for each holder that does not print, as long as no clean-up took a share that
was not its own (`astray`); the references and the allocations not yet served
(`Hoping`) are at most the allocations made.

### The join

`JoinQueryProofs` proves `JoinInvariant` and from it `JoinTypesHold` (`TypeOK`),
`ResultsAreOfTheJoin` (`ResultsAreMatches`) and `JoinIsComplete`
(`CompleteBelow`), for all four types of join, any set of keys, any number of
tuples and any timestamps, with no hypothesis beyond `JoinAssumption`. Both
properties speak of runs in which no queued tuple was ever left behind
(`~late`); that the code can leave one behind is `JoinStart.cfg`.

The properties compare what is out with the join of *all* admitted tuples, so
the invariant `JoinInv` has to know where every one of them is. `Pending`: a
tuple later than the current timestamp is in its queue, one of the current
timestamp is in its queue or its table, and a tuple in a table is touched
exactly if it has a match in the other table. `Current`: what has been put out
is `Done`, the join of the tuples before the current timestamp with the pairs
the tables hold. `Final` is what is left of that after `flush`, which empties
the tables and takes one step whatever is still queued.

The lemmas follow the functions of `JoinOperator`. `JoinSide` puts out exactly
the pairs that its table gains (`JoinSidePuts`), `ProcessOuterJoin` exactly the
tuples of the current timestamp without a match among all tuples
(`ProcessOuterJoinPuts`), and as no queued tuple lies between the old and the new
timestamp the results up to the one are those before the other (`MovesOn`). A
tuple that arrives is not before the current timestamp, so it changes nothing of
what is out (`JoinGrows`, `AdmitKeeps`); this fails only for the tuple that sets
the current timestamp, and then a tuple is left behind (`AdmitStarts`).

### The end of a query

`StreamQueryProofs` proves `QueryEndIsReported`: `EndIsReported` of
`StreamQuery` for every number of sources (merged in a chain, which from four
sources on is not the compiler's tree), table size, flush rate, set of
groups and number of epochs, with no hypothesis beyond the assumptions on the
constants. It follows from `EndInvariant`, where `EndInv` says: the stream of a
source ends with its file, once and as its last tuple (`ChannelEnds`);
`num_eof_tuples` is the number of ends the HFTA has read, until the last one
puts the end of the result out (`EndsCounted`); and all operators are in a
state in which nothing but data leaves them (`OperatorsOK`).

The last part is most of the work. The operators are loops over slots, queues
and tables, and a loop is a recursive function here. `Recursion` (a function
that satisfies the equations of a recursion exists) and `AllIn` (what holds at
0 and is passed on holds up to n) turn each of them into a base and a step; the
lemmas named `...Type` then say, for every function of `LftaAggregate`,
`MergeOperator`, `GroupByOperator` and `StreamQuery`, that it maps states to
states and data to data. The table of the group-by also has to stay finite,
because its iterator enumerates it.

### What a query counts

`StreamQueryCounts` proves `QueryCountsOnce` (`PacketsCountedOnce`),
`QueryResultIsFinal` (`ResultIsFinal`) and `QueryResultsInOrder`
(`ResultsInOrder`): for any groups, epochs, packets and clock signals, a hash
table of any size and any flush rate, in every interleaving of two sources and
the HFTA. The hypothesis `N = 2` is the one the code needs: with three sources
the flush at the end hands tuples on twice, which `EofThreeSources.cfg` shows.

None of the three is inductive, and they need each other. A packet is counted
twice if a group is posted while some of it is still on its way, and it is lost
if a merge or the group-by sees it after it has moved on. So `CountInv` (of
`StreamQueryInv`) adds to `EndInv` and the three properties the order
in which every operator finds its input:

* `TableOK`: in the table of an LFTA the generation tells the current epoch from
  one earlier epoch, and what is left of the earlier one lies at or after the
  flush position. A second unfinished epoch or a group behind the flush position
  would never be posted.
* `Orderly`, `AtLeast`: a result in a stream is not of an epoch before that of a
  tuple ahead of it, a temporal tuple included, and the LFTA has none in its
  table that would be when it is posted.
* `MergeOK`, `Reached`, `Ahead`: the queue of the merge holds results of one
  channel, in order and past what the awaited channel has reached; and nothing
  still to come on a channel is before what the merge has seen of it. This is
  why the merge never drops a tuple.
* `GroupOK`, `PostedOK`: the group-by has one row a group, of the current epoch
  in one table and of one earlier epoch in the other, and what it has posted is
  before the first and disjoint from the second.

The last three hold until the HFTA has read the last end (`Read # Sources`);
its flush then empties the merge and the group-by.

The proof goes operator by operator. Sums over slots, queues and rows are
recursive functions; `TotalSolves`, `InSeqSolves` and `HeldSolves` reduce them
to one sum and `TotalConcat`, `TotalChange`, `TotalMoved` say how it changes
when one place of it does. For each function of the LFTA one lemma then states
conservation (`Balance`: what the table held and what was added is what it
holds and what was posted) together with the order (`InOrder`), and
`InOrderThen`, `BalanceThen` compose them as the code composes the functions;
`Merged` and `GroupedBy` are the same for the two operators of the HFTA
(`MergeAcceptKeeps`, `GroupByAllKeeps`, `FinalizedKeeps`). What `flush_old`
posts of a table is in no particular order, so `OneEach` and `IterateCount`
say what it posts as a set. `UnderwayParts` splits the count of what is under
way into its places, and each action of `Next` moves an amount from one place to
the next (`PartsLfta`, `PartsTaken`, `SumsPassed`). `NothingLeft` is the end:
the flush on the last end finds both streams empty and puts out all there is.

### What stays with TLC

* Liveness and fairness: `EventuallyConsumed`, `EventuallyEvicted`, `Answered`,
  `AliveRuns`, `PostReturns`, `CallsAnswered`, and the same in `StreamQuery`.
  `ENABLED` is out of the prover's reach.
* `TypeOK` of `StreamQuery`. `EndInvariant` and `CountInvariant` prove most of
  it (the sizes of the tables and the types of everything in them and between
  them); what is left is the bound of a tuple's count by `MaxPackets` and of
  `num_eof_tuples` by the number of sources.
* `ElasticFlow`, whose properties are those of `QueueFlow` under resizing, with
  the two known violations excluded by its runs' constants.

## Not modelled, and the plan

1. Done: `Tephra`, `InMemoryQueue`, `QueueFlow`, `ExactlyOnceQueue`,
   `ElasticFlow`, `FlowletControl`, `FlowControl` and the proofs above; of the
   engine `RingBuffer`, `TupleStream`, `Multicast`, `LftaAggregate`,
   `MergeOperator`, `GroupByOperator`, `JoinOperator`, `StreamQuery`,
   `JoinQuery` and `Subscriptions`.
2. Proofs: the rest of `TypeOK` of `StreamQuery`, and `ElasticFlow` from the
   invariants of `QueueFlow`.
3. A composition of `Subscriptions` and `TupleStream`: a caller that waits for a
   result does not empty its ring buffers, and the process it calls may be
   waiting for one of them.
4. The HBase queue: scans with an entry cache, claims by compare-and-set, start
   rows that are persisted at close, crash and restart, configuration changes
   and eviction on region servers with a stale configuration. It should be
   shown to implement `ExactlyOnceQueue` as well.
5. The controllers' listeners; a flow whose flowlets cannot all be created; the
   driver's process queue with back-off and ticks; the hub and the start of
   processes on the Java side of TigonSQL.

Parts of the modelled components that are left out: the builds without
`BLOCKRINGBUFFER` or `POLLING`, control messages and heartbeats, the
out-of-order and running group-by, the selection and the file output operator.

Left out for good: the query compiler, YARN and Twill wiring, the client,
metrics, logging and class loading; `clear` and the dropping of queues, which
no flow does while it runs. By lines the compiler is most of the repository's C
and C++: the generated lexers and parsers, the analysis and the text of the code
it writes, together with 20 000 lines of accessor macros generated from one
pattern, one per input column, and the sources, tools and XML readers. None of
it has a state that changes over time, so a model could only repeat it; what
the compiler *emits* is modelled where a query runs it. That is why the modules
stand for a small share of those lines, although they hold the engine's
concurrent and stateful core.
