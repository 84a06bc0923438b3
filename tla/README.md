# RACoherence, verified

RACoherence keeps non-coherent CXL memory coherent in software for programs
that synchronise with release and acquire operations.  This directory holds TLA+
models of its core, TLC configurations that check them on small instances and
TLAPS proofs of their safety for every instance.  Line numbers refer to the files
under `src/`.

## The system

Several nodes share a memory in which a small part (HC) is kept coherent by the
hardware and the rest (NHC) is not.  A thread that stores to NHC memory records
the cache line.  When it releases (an atomic store, an unlock) it writes the
recorded lines back and publishes their addresses as a *log* of its node.  Every
other node consumes these logs in order and invalidates its copies of the lines.
A synchronisation object carries a vector clock that names, for each node, the
log its user must have consumed; an acquire waits until its node has.

| Component | State | Operations | Talks to |
|---|---|---|---|
| Broadcast log, `include/logManager.hpp` (one per node, HC memory) | ring `pub[]` of published entries, `tail`, per subscriber `head` and `is_subbed`, buffers, free list, `gc_mtx`, `bound` | `get_new_log`, `perform_gc`, `produce_tail`, `take_head`, `consume_head`, `add_subscriber`, `remove_subscriber` | producing threads of its node, consumers of all others |
| Log free list, `include/spmcQueue.hpp` | cells with sequence numbers, two positions | `enqueue`, `dequeue` | `get_new_log` and `perform_gc` |
| MCS lock, `include/mcsLock.hpp` | `tail`, `owner`, nodes | `lock`, `try_lock`, `unlock`, shared variants | `gc_mtx`, log head mutex, mutexes of the synchronisation objects |
| Dirty table, `include/localCLTable.hpp`, `include/clGroup.hpp` (one per thread) | hash table of line groups (masks and runs) | `insert`, `range_insert`, `clear_table` | `log_store`, `log_range_store`, `write_to_log` |
| Thread operations, `include/threadOps.hpp` | `recent_cl`, `dirty_cls`, `thread_clock` | `log_store`, `log_range_store`, `thread_release`, `thread_acquire`, `help_consume` | all of the above |
| Cache agent, `src/cacheAgent.cpp` (one per node) | none of its own | `run` | broadcast logs, cache info |
| Cache info, `include/cacheInfo.hpp`, `include/vectorClock.hpp` | the node's cache clock, log head mutex | `process_log`, `update_clock`, `get_clock` | agent and helping threads |
| Synchronisation objects, `include/cxlSync.hpp` (HC memory) | value, clock, mutex | `CXLAtomic` store/load/fetch_add, `CXLMutex` lock/unlock, `CXLSharedMutex`, `CXLBarrier` | thread operations |
| Invalidate directory, `include/clTracker.hpp` | tree of dirty bits | `mark_dirty`, `invalidate_if_dirty` | lazy invalidation only |
| Runtime, `src/runtime.cpp`, `include/runtime.hpp` | shared metadata, node id | start-up, thread create/join, subscribe, `rac_load`, `rac_store` | everything |
| Extent pool, allocator glue, instrumented `memcpy` etc., benchmarks, logging | | | |

What is hard here: producers, collector and consumers of a log share a ring
without a common lock; the collector decides from heads that are already old; an
entry is published by three stores; agent and acquiring threads consume the same
logs and write the same clock; invalidations complete later than they are
issued; caches evict and prefetch at will; queue lock nodes and log buffers are
reused while others may hold pointers to them; some clocks are read by reference
while they are written; a barrier is used again before everybody has left it;
counters wrap and are truncated.  `PROJECT.json`
lists these hazards with their lines and the properties that cover them.

What makes each part correct: the log delivers to every subscribed node exactly
what was published, in order, and never overwrites an entry that someone has
still to read; the free list and the locks are linearisable; the table forgets no
line; a barrier lets nobody through early; and together a race-free program never reads a stale line, and every
acquire and release ends.

## Modules

| Module | Models |
|---|---|
| `LogManager` | the broadcast log; one action per access to shared memory |
| `BroadcastLog` | what a broadcast log promises (abstract) |
| `LogSubscribe` | `add_subscriber` against the agent, the producers and the collection |
| `LogInvariant` | the inductive invariant of `LogManager` |
| `LogManager_proofs`, `LogSafety_proofs` | theorems about `LogManager`: types; safety and the refinement of `BroadcastLog` |
| `Coherence` | the whole protocol on top of `BroadcastLog`: threads and their creation, agents, atomics, mutexes and shared mutexes, the invalidate directory, caches and memory |
| `CoherenceInvariant` | the inductive invariant of `Coherence` |
| `Coherence_proofs`, `CoherenceSafety_proofs` | theorems about `Coherence`: control, mutexes, logs and clocks; versions of lines and coverage |
| `CXLBarrier` | start-up of the nodes and the barrier they meet at |
| `SpmcQueue`, `FifoQueue` | the free list, and the atomic queue it implements |
| `MCSLock`, `FifoLock` | the queue lock, and the lock it implements |
| `MCSSharedLock` | the readers-writer lock built on `MCSLock` |
| `LocalCLTable` | the dirty table of a thread |
| `CXLBarrier_proofs`, `SpmcQueue_proofs`, `MCSLock_proofs`, `LocalCLTable_proofs` | the invariants of these components and theorems about them (`MCSLock_proofs` also about `MCSSharedLock`) |
| `MC...` | instances for TLC: symmetry sets and constants that a `.cfg` cannot write |

Composition: `LogManager` uses the free list as a sequence and `gc_mtx` as an
atomic lock, which `SpmcQueue` (refining `FifoQueue`) and `MCSLock` (refining
`FifoLock`) justify; `Coherence` uses a `CXLSharedMutex` whose inner lock behaves as
`MCSSharedLock` is shown to.  `Coherence` uses a log whose steps are those of
`BroadcastLog`, which `LogManager` refines (property `Broadcast`), and a dirty
table that is a set of lines, which `LocalCLTable` justifies for stores.
Operators named `mut...` are wrong variants of the definition that follows them;
`PROJECT.json` says which property each of them breaks.

### LogManager

State: the fields of the class under their names (`pub[i]` split into `pub_log`,
`pub_idx`, `pub_rel`), the local variables of a producing thread (`lg`, `t`,
`rel`), of the collection (`new_b`, `subscribed`, `gc_sub`, `gc_k`, `gc_log`; one
set, because `gc_mtx` protects them) and of the consumer of each node (`clog`,
`crel`).  `stamp` and `srel` are history: the position and release flag that a
buffer's contents were published with.

A producer goes `Begin`, `GetLog`, then if nothing is free `GcLock`, `Recheck`,
`GcScan`/`GcScanHead` per node, `GcLoadLog`/`GcEnqueue` per entry, `GcDone`, and
with a log `Claim`, `SetRel`, `SetLog`, `SetIdx`.  A consumer goes `Enter`,
`TakeHead`, `LoadEntry`, `ConsumeHead`.  `Unsubscribe` may happen at any time.
Nodes start subscribed, as the field initialiser does.  `idx_t` counts modulo
`IdxMod`, so a wrap can be reached.  `add_subscriber` is added in `LogSubscribe`:
there the head has two writers, so the consumer's steps are replaced by steps on
the local copies of the head that `take_head` and `consume_head` load.

Accesses are sequentially consistent.  The code's release and acquire orders on
`idx`, `head` and the queue's sequence numbers give the same outcomes for the
relaxed accesses they surround; the one pair of loads where the order matters
(`log` before `idx`, lines 129-130) is in the model in program order.

### Coherence

Hardware: `mem`, a copy of every line per node, the set of modified ones.
`Evict` writes a modified line to memory and fetches it again, at any time, for
any line; this also covers prefetching.  `flushing` holds invalidations that were
issued and have not completed.  A fence waits until it is empty; a store does
with `CLFLUSH`, not with `CLFLUSHOPT` (`INVALIDATE_INST`).  A line's value is the
number of the store that wrote it.  The clwb of `write_to_log` complete with the
locked `tail.fetch_add`, so `Claim` writes back and claims in one step.

A thread starts an operation (`Store`, `ThreadRelease`, `AtomicLoad`, `Lock`,
`LockShared`, `LockExclusive`, `Join`) and the library finishes it: `Claim`,
`Publish`, then the object's part (`AtomicStore`, `FetchAdd`, `Unlock`,
`CopyClock` and `UnlockShared`, `Create`), or `AcquireReady`/`AcquireBehind`,
`HelpTryLock`, `HelpConsume`, `HelpUpdate`, `HelpUnlock`, `AcquireDone`.  The
agent goes `AgentLock`, `AgentConsume` per log, `AgentUpdate`, `AgentUnlock`.
Values of atomics are left out: what matters is the clock read with the value
under the object's mutex.  Programs are cache-line-race-free: `Store` has the
guard that the last store to the line happens before, which is what
`design.md:16` asks of them.  All nodes are subscribed.  `build` holds the build
options (`CONSUME_HELPING`, `EAGER_INVALIDATE`, `INVALIDATE_INST`), which Init
chooses from `Builds`, so that a run can cover several builds.

In the lazy build (`EAGER_INVALIDATE` off) `process_log` only marks the lines in
the directory `inv_cls`; an access to a marked line first goes through
`CheckDirty` (invalidate) and, behind the fence, `CheckClear` (unmark).

`CXLAtomic` acquires a copy of the clock, taken under the object's mutex
(`AcquireCopy`).  The locks and `rac_thread_create`/`join` pass the clock by
reference to `thread_acquire`: `Target` is the clock as it is when it is read.  For
a `CXLMutex` nobody writes it then; for a `CXLSharedMutex` other readers do, one
component at a time (`CopyClock`), and for a new thread its parent does.
`CXLSharedMutex::lock` acquires as a reader (`LockExclusive`), gives up the lock
(`Upgrade`), takes `wlock` (`TakeWlock`), and when the readers are gone acquires
again (`Drain`).  `ParentOf` names the threads that others create; creator and
child run on the same node, as `pthread_create` has it.

  `seen`, `loc_seen` and
`got` are history: the stores that happen before a thread's, an object's and an
acquire's present.

### CXLBarrier

The main thread of each node goes through `rac_init` (`BuildLog`, `BuildBarrier`,
`SetStarted` on node 0, `Join` on the others, `StartAgent`) and then calls `wait`
again and again, one action per call on a `CXLAtomic`: `ReadPhase`, `Arrive`,
`Compare`, then `Reset`, `Advance` or `Poll`.  Values have the width of an `int`
(up to `INT_MAX`); what `load` and `fetch_add` return goes through a signed `char`
(`SCHAR_MAX`), which `Signed` converts to.  `seen`, `arrived_seen` and `phase_seen` are history: which calls
happen before a node's present, and which the clocks of the atomics cover; a
relaxed access changes none of them.

### SpmcQueue, MCSLock, MCSSharedLock, LocalCLTable

`SpmcQueue` and `MCSLock` have one action per atomic access, with allocation and
reuse of what circulates (buffers, nodes).  The queue has at least two cells, as
the constructor asserts.  In `SpmcQueue` the refinement mapping
reads the abstract queue off the cells themselves.  `MCSSharedLock` extends
`MCSLock`: a behaviour is either one of the plain lock or one of the shared lock,
whose `wlock` takes the same steps.  `LocalCLTable` keeps the
entry encoding: the upper field of an entry is a set of bits, read as a mask or as
a length, so that the code's `|` on either is a union.  A store is one action (the
table is private to its thread), a range one action per insertion because it may
have to publish in between.  `MemRange` and `StrRange` are the ranges that `memcpy` (and its
like) and `strcpy` log, together with the lines these calls store to.

## What TLC checks

| Run | Bounds | Result |
|---|---|---|
| `LogSafety` | 3 nodes, 2 producers with 2 logs each, ring of 2 | `ReadsPublished`, `OneOwner`, `NoBufferLost`, `NoLap`, and `LogManager` refines `BroadcastLog` |
| `LogLiveness` | 2 nodes, 2 producers, ring of 2 | while a thread waits for a log the node goes on (`LogProgress`); published logs are consumed (`BroadcastLog`'s fairness) |
| `LogSubscribe` | 1 producer, 1 subscriber that leaves and comes back, ring of 2 | **violated**: finding 1 |
| `CoherenceSafety` | 2 nodes, 3 threads of which 2 share a node and one creates the other, 1 line, an atomic and a mutex, helping, eager and lazy | `NoStaleRead`, `MemoryForward`, `ClockForward` with helpers and the agent competing |
| `CoherenceChain` | 3 nodes, a shared mutex, no helping, CLFLUSHOPT, eager and lazy | `NoStaleRead` (also through a reader to the next one), `ClockNamesRelease` |
| `CoherenceFence` | helping, CLFLUSHOPT (the defaults) | **violated**: finding 2 |
| `CoherenceLiveness` | 2 nodes, 2 lines, log of 1 entry | `NoStaleRead`, `ClockIsLastRelease`, `AcquireEnds`, `ReleaseEnds` |
| `Lock` | 3 threads, 3 nodes, plain and shared lock | mutual exclusion, nodes used in their life time, FIFO, a writer is alone; everybody gets in |
| `Barrier` | 3 nodes, 9 rounds, a `char` of 3 and an `int` of 4 bits | nobody leaves early (`NoEarlyLeave`) or without having synchronised with all (`LeaveSeesAll`), all nodes are up behind the first round (`AllStarted`), `WaitEnds` |
| `Queue` | 2 cells, 2 buffers, 3 dequeuers, 5 positions | FIFO, nothing lost, empty means empty, one enqueuer needs no compare_exchange; the repeated enqueue ends |
| `Table` | groups of 4 lines, 4 cells, 2 probes | a release publishes every line that `log_store` and `range_insert` record (`ReleasePublishesAll`); range stores end |
| `TablePartial` | ranges that end inside a group | **violated**: finding 3 |

Bounds.  A ring of two entries with four or more logs makes every slot and buffer
go round more than once, which is what lapping, double freeing and stale reads
need; two producers are needed for a claim out of order with a publication, two
subscribers for a slow and a leaving one.  In `Coherence` the operations per
thread allow a store and a release against an acquire in both directions, a child
whose store its parent joins and passes on, a writer and two readers of a shared
mutex or three readers; a table of one or two lines overflows, and a log of one
entry makes releases wait.  Nine rounds of the barrier take the phase through the
range of the `char` (eight values), so that it is compared across its wrap.  Three
lock threads give a waiter behind a waiter, and three nodes make every free node be
reused; five enqueues on two cells are more than two rounds.  In `LocalCLTable` a
run is two groups instead of four and a length has at most three bits.  For
the safety properties the operation counts (`MaxOps`, `MaxPos`) bound only how long
the histories are.  They also end contention, and a liveness property must not hold
for that reason.  In the code a thread can wait for a log for ever: what its own
collection frees, another thread may take with the dequeue at `logManager.hpp:185`
before it comes to its dequeue at line 199, again and again.  `LogProgress` claims
no more than that while a thread waits, it gets a log or some thread of the node
publishes one.  `AcquireEnds` and `ReleaseEnds` are checked with one thread per node; they
say nothing of threads of a node that compete for buffers, or that wait for a
predecessor to publish.

Programs stop when they have used up their operations, so the runs of
`LogManager`, `Coherence` and `CXLBarrier` do not check deadlock; liveness
properties take its place.  The runs of the lock, the queue and the table do.

Fairness.  Threads and agents are operating system threads: each step of a thread
that stays enabled is taken (`WF`).  `LogManager` assumes strong fairness for
`gc_mtx`, a FIFO lock (`LockObtained`).  In `Coherence` an issued invalidation
completes.  Users of the lock leave their critical sections, and the main thread of
every node comes to the barrier.  Nothing is assumed about which operation a program starts next.

## Findings

1. `logManager.hpp:165`: `add_subscriber` sets `is_subbed` first, so the agent and the
   collection work with the head of the earlier subscription; the head it stores
   then may be behind theirs, and the loop that should keep the tail from wrapping
   around it ends too early.
2. `threadOps.hpp:152`, `cacheAgent.cpp:46`: the cache clock is stored before the
   fence that the mutex unlock provides; with CLFLUSHOPT another thread of the
   node may pass its acquire and read a stale line.  With CLFLUSH, or with an
   explicit fence as in the build without helping, the property holds.
3. `localCLTable.hpp:168,179`: of the last group of a range only the end line is
   recorded.

The passing runs of `Coherence` stay on the safe side of 2 (CLFLUSH, or no
helping).  The passing run of `LocalCLTable` stores ranges that end inside a
group too, but `ReleasePublishesAll` is about `dirty`, the lines that `log_store` and
`range_insert` record (`Recorded`); the lines that finding 3 leaves out are kept in
`partial`, and `AllPublished`, the property the finding refutes, is about both.

The passing runs keep clear of six more cases in which a property fails, all
listed among the hazards.  Each is reproduced by changing constants:

- `clGroup.hpp:59`: `try_coalesce` joins runs that do not overlap and keeps only
  the part from the higher index on.  The runs of `MixedRanges` begin alike; with
  two runs that begin apart, `ReleasePublishesAll` fails.
- `threadOps.hpp:259`: `recent_cl` is set to the line after a range, which
  `range_insert` does not record when it begins a group, and which it may record and
  then publish before the range is done when it does not; `log_store` then skips a
  single store to it.  `StoreLines` has no such line; with one (for the second way
  `StoreLines = {18}`, the range of lines 8 to 18, `TABLE_SIZE = 2`,
  `GROUP_LEN_MIN = 4`), `ReleasePublishesAll` fails.
- `instrumentLib.cpp:246`: `strcpy` logs the range of the `strlen` bytes of a string and
  copies the null byte too.  When that byte is the first of a group of lines, its line
  is not recorded.  `StrRange` keeps it in `partial`; with `Ranges = {StrRange(6, 8)}` alone
  `AllPublished` fails.
- `logManager.hpp:129` (`LogSafety` with `NODE_COUNT = 1`, `Pinned = {}`, `MaxOps = 3`): without
  subscribers, `perform_gc` loads `log` before it checks `idx`; a publication in
  between makes it free a buffer that has an owner, and `OneOwner` fails.
- `logManager.hpp:119` (`LogSafety` with `NODE_COUNT = 2`, `IdxMod = 8`, one producer,
  `MaxOps = 8`): positions are compared with `<` although they
  wrap; after the wrap of `bound` slow subscribers are ignored, and
  `ReadsPublished` fails.
- `cxlSync.hpp:331` (`CoherenceChain` with `ReadersRelease = TRUE`): of two readers
  of a `CXLSharedMutex` that unlock, the second overwrites the clock of the first;
  a writer that locks next is not ordered after what the first one stored, and
  `NoStaleRead` fails.  Ordering after earlier writers is not affected.

## What is proved

Every invariant and every safety property that a passing run checks is also a
theorem, for all values of the constants that the named assumptions of the modules
admit.  The assumptions are the code's: an assertion (two cells in the queue), sizes
that are not zero, one lock node per thread, a `char` that can count the nodes.
Where a theorem needs more it says so as a hypothesis, and each of these hypotheses
excludes a case in which the property fails, listed under Findings.  All proofs have
the same form: an inductive invariant, checked by TLC before it was proved, one
lemma per action or group of actions, and the property as a consequence.

### The broadcast log

`TypeCorrect` (`LogManager_proofs`): `Spec => []TypeOK`, wrapping included.  The
rest (`LogSafety_proofs`) holds if some node stays subscribed (`Pinned # {}`) and as
long as the counter has not wrapped (`[]NoWrap`): `ReadsArePublished`,
`BuffersAreOwned`, `BuffersAreNotLost`, `ProducersDoNotLap`, and `LogBroadcasts`,
that `LogManager` implements `BroadcastLog`.  The theorems are about `LogManager`,
without `add_subscriber`.

None of the properties is inductive.  That a consumer's buffer
is not reused rests on the collector being behind its head, which rests on what
the collector read earlier in its scan (`GcInv`); that freeing a slot frees the
right buffer rests on no slot being refilled early, which rests on there being no
more than `LOG_COUNT` positions in the ring, which in turn is a count of buffers.
`IInv` (module `LogInvariant`) joins these: `Freed` is how far the collection has
come, also in the middle of it; `RingInv` says that every position from `Freed` to
`tail` is published in its slot or held by the thread that claimed it, and that the
buffer that carries it is stamped with it; `BufInv` says that free buffers carry
only collected positions and buffers being filled carry none.  The step that needs
a count is `RoomToClaim`: the buffer a thread is about to publish is distinct from
those of all positions in the ring, so there are fewer than `LOG_COUNT` of them
(an injection into the set of buffers).  That no buffer is lost follows the buffer:
it is free, with a thread, or in the published entry of a position from `Freed` to
`tail`; storing `log` overwrites only a slot that no such position uses any more, and
the collection moves exactly the buffer of position `Freed`.  `Inductive` proves
`[](TypeOK /\ IInv)` with one lemma per action.  In the refinement only `Claim`, `SetIdx`, the
consumer's steps and `Unsubscribe` are steps of the abstract log, all others
stutter; `Claim` needs `RoomToClaim` for the abstract guard that a ring is never lapped,
and `LoadEntry` needs that what it reads is published at its head.

### The protocol

`Coherence_proofs`, for every build and program: `TypesHold`, `ClocksNameReleases`,
`ClocksAreLastReleases`, `ClocksMoveForward`.  `CoherenceSafety_proofs`, likewise:
`VersionsHold`, `MemoryMovesForward`; and under `Ordered` the main result,
`Coherent`: `Spec /\ Ordered => []NoStaleRead`.  `Ordered` says that the build does not
combine helping, eager invalidation and CLFLUSHOPT (finding 2), and that the
program does not rely on `unlock_shared` as a release (`cxlSync.hpp:331` above).

The invariant (module `CoherenceInvariant`) is built in layers, each proved from the
ones before it.  `ControlInv`: where a thread is determines its operation, its
object, what it holds of it and what its table may contain.  `ProtocolInv`: the log
head mutex has one holder; a cache clock is the last release consumed, or the
consumer knows the value it is to move to; what was consumed was published; threads
that are publishing hold different positions; every clock names published releases.
`VersionInv`: a line in the table of a thread is known in its last version to that
thread only; a modified copy is the latest version and is recorded by a thread of
its node; every version that others know of is in memory.  `CoverInv`: whatever
version a clock stands for (of a thread, of an object, of an acquire under way), each
node has it in its cache, or has the line marked, or has a log entry with the line
still to consume, or to finish invalidating, and that clock names the entry.  When
an acquire has waited for all nodes no such entry is left, and the version is in the
cache or the line is marked: no stale read.  The entries that the wait has
already taken care of are excluded node by node (`Done`), because the target may be
overwritten, by readers of a shared mutex or by a parent, while it is read.

### The lock, the barrier, the free list

`MCSLock_proofs`: `LockInductive`, `LockIsFifo` for the plain lock; `SharedTypes`,
`Exclusive`, `NodesInUse`, `WritersAlone`, `SharedIsFifo` for the shared one.  The
invariant says that the nodes linked behind `tail` are, in the order of the
exchanges, those of the threads in the history `queue`, with a link missing only
where a thread has exchanged and not yet linked itself (`OrderInv`, `ListInv`), and
that every thread inside `lock` or `unlock` has a node of its own (`NodeInv`).  The
shared lock takes steps of the plain one, so it inherits all of this.

`CXLBarrier_proofs`: `BarrierTypes`, `NobodyLeavesEarly`, `LeavingSeesAll`,
`AllHaveStarted`.  In every state there is a number r of complete rounds such that
every node has entered r or r + 1 of them; `arrived` counts the second kind, `phase`
is r as an `int` and compares as it should through the `char` because two
neighbouring phases differ there.  What the atomics' clocks cover is the part that
`LeaveSeesAll` needs.

`SpmcQueue_proofs`: `QueueTypes`, `QueueIsFifo`, `OneEnqueuer`, `FalseMeansEmpty`,
`EachOnce`.  The positions from `dequeue_pos_` to the last one published are full, the
ones before are left or held by one dequeuer each, and the sequence number of the
cell says which; every buffer is in exactly one place.  As there are no more buffers
than cells, a cell that the enqueuer comes to has been left or is held, and
in the second case its sequence number makes `enqueue` return false.

### The dirty table

`TableTypes` (`LocalCLTable_proofs`) holds for every program.  The other theorems are for
programs whose ranges have fewer than `GROUP_LEN_MIN` groups (`ShortRanges`; 4 groups of
16 lines of 64 bytes are 4 KiB) and do not end at a line that the program stores to
next (`EndsApart`).  `ShortRangesPublished`: a release publishes every line of `dirty`,
the lines that `log_store` and `range_insert` record.  It says nothing of `partial`,
the lines that finding 3 and `strcpy` leave out.  `FullRangesPublished`: if moreover
every range is recorded to its last line (`FullyRecorded`, as for ranges that end
with a group), a release publishes every line stored to (`AllPublished`).

Invariant `CoverInv` (`TableCovers`) says that a line of `dirty` is in an entry or in
what `range_insert` still has to record (`Left`, the lines `Recorded(begin_, end_)`),
which shrinks only by what an insertion covers, also when the table has to be
published in between; and that `recent_cl`, for which `log_store` does nothing, is in
the table.  The smallest elements that probing chooses exist by the
well-foundedness of the naturals (`LeastExists`).  Longer ranges are recorded as
lengths, and there the property is not true in general (`clGroup.hpp:59`).

## Only model-checked

- Liveness and fairness, which the prover does not reach: `LogProgress`,
  `FairBroadcast`, `AcquireEnds`, `ReleaseEnds`, `LockObtained`, `WaitEnds`,
  `EnqueueEnds`, `RangeEnds`.
- `ReleasePublishesAll` with ranges recorded as lengths.  The length of an entry is a
  sum over its bits (`get_length`), and that it is the number whose bits were stored is
  an induction over data.
- That the parts fit together: `LogManager` uses `FifoQueue` and a lock,
  `Coherence` uses `BroadcastLog` and a set of lines, each as its own module states them.
- `LogSubscribe`, whose run shows finding 1.

## Not modelled, and the plan

In this order:

1. Proofs: what of the log's invariant survives `add_subscriber` in `LogSubscribe`;
   the log's theorems without a node that stays subscribed, for a collector that never
   finds all of them gone.
2. Nodes that are not subscribed in `Coherence`, with the `wbinvd` and the clock
   update of `rac_subscribe_to_node`.
3. Ranges in the lazy build: `invalidate_range_if_dirty`, `invalidate_boundaries` and
   the marking of runs of groups.
4. Shutdown of the runtime, `UniqueLock`, `CXLRelaxedMutex`.

Left out for good: the allocator glue and the vendored allocators (their state is
not this program's), the CLH locks (no file includes them), benchmarks, logging and
NUMA placement, and `ExtentPool`, a single compare_exchange on an offset.  Compile-time variants other than the defaults (`LOCAL_CL_TABLE`
off, `DELAY_PUBLISH`, `EAGER_WRITEBACK`, `LOCAL_CL_TABLE_BUFFER`, `PROTOCOL_OFF`) are
not modelled, except `CONSUME_HELPING`, `EAGER_INVALIDATE` and the choice of the
invalidate instruction.  `CONSUME_HELP_IN_LOCK` cannot be built: it calls functions
that the locks do not have.
