------------------------------ MODULE Coherence -------------------------------
(***************************************************************************)
(* The release-acquire coherence protocol: threads on several nodes share  *)
(* cache lines of a memory that the hardware does not keep coherent.  A    *)
(* thread records the lines it stores to; a release writes them back and   *)
(* publishes them as a log of its node; an acquire waits until the node    *)
(* has consumed, hence invalidated, every log that the location's vector   *)
(* clock names (include/threadOps.hpp, src/cacheAgent.cpp,                 *)
(* include/cxlSync.hpp, include/cacheInfo.hpp).                            *)
(*                                                                         *)
(* The log of a node is the one BroadcastLog specifies: claimed in order,  *)
(* published in any order, consumed in order, with back-pressure.  A line  *)
(* holds one value, the number of the store that wrote it.  Programs are   *)
(* cache-line-race-free, which is what the protocol asks of them: a thread *)
(* stores to a line only when the last store to it happens before.         *)
(***************************************************************************)
EXTENDS Integers, Sequences, FiniteSets

CONSTANTS
  Nodes, Threads, Lines,
  NodeOf,           \* the node of a thread
  ParentOf,         \* the creator of a thread that another thread creates
  Atomics, Mutexes, SharedMutexes,  \* the synchronisation objects
  TableSize,        \* lines the dirty table holds (LOCAL_CL_TABLE_SIZE)
  SearchIters,      \* lines in the table from which on an insert can fail
                    \* (LOCAL_CL_TABLE_SEARCH_ITERS)
  LogCapacity,      \* LOG_COUNT
  LOG_MAX_BATCH,    \* logs the cache agent consumes in one turn
  Builds,           \* the combinations of build options considered
  ReleaseOps,       \* the release operations on atomics that programs use
  ReadersRelease,   \* whether programs rely on unlock_shared being ordered
                    \* before the next lock of a CXLSharedMutex
  MaxOps            \* bound: stores and synchronisations of each thread

Locks == Mutexes \cup SharedMutexes
Locs  == Atomics \cup Locks
None  == "none"

(* A child runs on the node of its creator.  Whose address a pointer holds  *)
(* can be told.                                                            *)
ASSUME CoherenceAssumption ==
  /\ NodeOf \in [Threads -> Nodes]
  /\ DOMAIN ParentOf \subseteq Threads
  /\ \A c \in DOMAIN ParentOf : ParentOf[c] \in Threads /\ NodeOf[ParentOf[c]] = NodeOf[c]
  /\ Atomics \cap Mutexes = {} /\ (Atomics \cup Mutexes) \cap SharedMutexes = {}
  /\ Threads \cap (Nodes \cup Locs) = {}
  /\ None \notin Threads \cup Nodes \cup Locs \cup Lines
  /\ TableSize \in Nat \ {0}
  /\ SearchIters \in 1 .. TableSize
  /\ LogCapacity \in Nat \ {0}
  /\ LOG_MAX_BATCH \in Nat \ {0}
  /\ Builds \subseteq [CONSUME_HELPING : BOOLEAN, EAGER_INVALIDATE : BOOLEAN,
                       INVALIDATE_INST : {"CLFLUSH", "CLFLUSHOPT"}]
  /\ ReadersRelease \in BOOLEAN
  /\ ReleaseOps \subseteq {"store", "fetch_add_rel", "fetch_add"}
  /\ MaxOps \in [Threads -> Nat]

VARIABLES
  build,                \* the build options, fixed
  mem, cache, modified, \* hardware: memory, each node's copies, which of
                        \* them are modified
  flushing,             \* invalidations of a node issued and not completed
  inv_cls,              \* lines a node has marked and not yet invalidated
  log,                  \* per node: entries [lines, is_rel, published]
  head,                 \* head[n][i]: logs of i that n has consumed
  clock,                \* cache_info.clock: clock[n][i]
  log_head_mtx,         \* holder of a node's log head mutex
  apc, asrc, aclk, acnt,              \* cache agent
  pc, op, obj, recent_cl, dirty_cls,  \* thread: control, operation and its
                                      \* object or the object, thread or
                                      \* line it refers to, recorded lines
  thread_clock, pos,                  \* vector clock, claimed log position
  target, node_done, src, clk,        \* locals of help_consume
  ops,                                \* operations started
  loc_clock, owner,     \* clocks of the synchronisation objects, lock holders
  readers,              \* holders of the shared side of a CXLSharedMutex
  latest,               \* history: number of stores to a line
  seen, loc_seen, got,  \* history: stores that happen before a thread's
                        \* present, a location's present, an acquire's source
  read_seen             \* history: ... the present of the readers that left a
                        \* CXLSharedMutex

hwVars     == <<mem, cache, modified>>
invVars    == <<flushing, inv_cls>>
agentVars  == <<apc, asrc, aclk, acnt>>
helpVars   == <<target, node_done, src, clk>>
logVars    == <<log, head>>
storeVars  == <<recent_cl, dirty_cls>>
histVars   == <<latest, seen, loc_seen, got, read_seen>>
syncVars   == <<loc_clock, owner, readers>>
vars == <<build, hwVars, invVars, logVars, clock, log_head_mtx, agentVars, pc, op,
          obj, storeVars, thread_clock, pos, helpVars, ops, syncVars, histVars>>

-----------------------------------------------------------------------------
ZeroClock == [i \in Nodes |-> 0]

(* VectorClock::merge, and the same for what a thread has seen.            *)
Merge(u, v) == [i \in DOMAIN u |-> IF u[i] > v[i] THEN u[i] ELSE v[i]]

Init ==
  /\ build \in Builds
  /\ mem = [x \in Lines |-> 0]
  /\ cache = [n \in Nodes |-> [x \in Lines |-> 0]]
  /\ modified = [n \in Nodes |-> {}]
  /\ flushing = [n \in Nodes |-> {}]
  /\ inv_cls = [n \in Nodes |-> {}]
  /\ log = [n \in Nodes |-> <<>>]
  /\ head = [n \in Nodes |-> ZeroClock]
  /\ clock = [n \in Nodes |-> ZeroClock]
  /\ log_head_mtx = [n \in Nodes |-> None]
  /\ apc = [n \in Nodes |-> "off"]
  /\ asrc = [n \in Nodes |-> n]
  /\ aclk = [n \in Nodes |-> 0]
  /\ acnt = [n \in Nodes |-> 0]
  /\ pc = [t \in Threads |-> IF t \in DOMAIN ParentOf THEN "unborn" ELSE "run"]
  /\ op = [t \in Threads |-> None]
  /\ obj = [t \in Threads |-> None]
  /\ recent_cl = [t \in Threads |-> None]
  /\ dirty_cls = [t \in Threads |-> {}]
  /\ thread_clock = [t \in Threads |-> ZeroClock]
  /\ pos = [t \in Threads |-> 0]
  /\ target = [t \in Threads |-> ZeroClock]
  /\ node_done = [t \in Threads |-> {}]
  /\ src = [t \in Threads |-> NodeOf[t]]
  /\ clk = [t \in Threads |-> 0]
  /\ ops = [t \in Threads |-> 0]
  /\ loc_clock = [a \in Locs |-> ZeroClock]
  /\ owner = [m \in Locks |-> None]
  /\ readers = [m \in SharedMutexes |-> {}]
  /\ latest = [x \in Lines |-> 0]
  /\ seen = [t \in Threads |-> [x \in Lines |-> 0]]
  /\ loc_seen = [a \in Locs |-> [x \in Lines |-> 0]]
  /\ got = [t \in Threads |-> [x \in Lines |-> 0]]
  /\ read_seen = [m \in SharedMutexes |-> [x \in Lines |-> 0]]

CONSUME_HELPING  == build.CONSUME_HELPING
EAGER_INVALIDATE == build.EAGER_INVALIDATE
INVALIDATE_INST  == build.INVALIDATE_INST

Goto(t, l)   == pc' = [pc EXCEPT ![t] = l]
CountOp(t)   == ops[t] < MaxOps[t] /\ ops' = [ops EXCEPT ![t] = @ + 1]

-----------------------------------------------------------------------------
(* Hardware.  A node may evict any line at any time, which writes it to    *)
(* memory if it is modified, and may prefetch any line at any time.  A     *)
(* line that is dropped is fetched again at once: a line that stays out of *)
(* the cache until a later fetch is the same as one that is kept and       *)
(* refreshed at that time.                                                 *)

Drop(n, x) ==
  /\ mem' = IF x \in modified[n] THEN [mem EXCEPT ![x] = cache[n][x]] ELSE mem
  /\ cache' = [cache EXCEPT ![n][x] = mem'[x]]
  /\ modified' = [modified EXCEPT ![n] = @ \ {x}]

OtherThanHw == <<logVars, clock, log_head_mtx, build, agentVars, pc, op, obj,
                 storeVars, thread_clock, pos, helpVars, ops, syncVars,
                 histVars>>

Evict(n, x) ==
  /\ Drop(n, x)
  /\ UNCHANGED <<invVars, OtherThanHw>>

(* An invalidation issued by do_invalidate takes effect.                   *)
Invalidated(n, x) ==
  /\ x \in flushing[n]
  /\ Drop(n, x)
  /\ flushing' = [flushing EXCEPT ![n] = @ \ {x}]
  /\ UNCHANGED <<inv_cls, OtherThanHw>>

-----------------------------------------------------------------------------
(* Plain stores: rac_store invalidates the line if it is marked, logs it,   *)
(* then writes it.                                                         *)

(* No store to the line that does not happen before, no access to it that  *)
(* is in progress.                                                         *)
RaceFree(t, x) ==
  /\ seen[t][x] = latest[x]
  /\ \A u \in Threads \ {t} : ~(pc[u] = "check" /\ obj[u] = x)

(* A line of the invalidate directory, which is a set of lines here.      *)
IsDirty(n, x) == x \in inv_cls[n]

MarkDirty(n, lines) == inv_cls' = [inv_cls EXCEPT ![n] = @ \cup lines]

(* invalidate_if_dirty, for a load or a store of a line that is marked: it *)
(* is flushed and, behind the fence, unmarked.  An access to a line that    *)
(* is not marked goes on at once.                                          *)
CheckDirty(t, x) ==
  /\ pc[t] = "run"
  /\ IsDirty(NodeOf[t], x)
  /\ seen[t][x] = latest[x]
  /\ flushing' = [flushing EXCEPT ![NodeOf[t]] = @ \cup {x}]
  /\ obj' = [obj EXCEPT ![t] = x]
  /\ Goto(t, "check")
  /\ UNCHANGED <<hwVars, inv_cls, logVars, clock, log_head_mtx, build,
                 agentVars, op, storeVars, thread_clock, pos, helpVars, ops,
                 syncVars, histVars>>

(* The fence between the invalidation and clear_dirty.                     *)
mutCheckFence(t) == TRUE
CheckFence(t) == obj[t] \notin flushing[NodeOf[t]]

CheckClear(t) ==
  /\ pc[t] = "check"
  /\ CheckFence(t)
  /\ inv_cls' = [inv_cls EXCEPT ![NodeOf[t]] = @ \ {obj[t]}]
  /\ obj' = [obj EXCEPT ![t] = None]
  /\ Goto(t, "run")
  /\ UNCHANGED <<hwVars, flushing, logVars, clock, log_head_mtx, build,
                 agentVars, op, storeVars, thread_clock, pos, helpVars, ops,
                 syncVars, histVars>>

WriteLine(t, x, v) ==
  /\ cache' = [cache EXCEPT ![NodeOf[t]][x] = v]
  /\ modified' = [modified EXCEPT ![NodeOf[t]] = @ \cup {x}]

(* dirty_cls.insert of a new line searches SearchIters cells, so it can    *)
(* fail before the table is full, depending on the addresses.              *)
CanInsert(t) == Cardinality(dirty_cls[t]) < TableSize
CanFail(t)   == Cardinality(dirty_cls[t]) >= SearchIters

(* log_store: nothing to do when the line is the most recent one;          *)
(* otherwise it goes into the table, which is published if that fails.     *)
Store(t, x) ==
  /\ pc[t] = "run"
  /\ RaceFree(t, x)
  /\ ~IsDirty(NodeOf[t], x)
  /\ CountOp(t)
  /\ latest' = [latest EXCEPT ![x] = @ + 1]
  /\ seen' = [seen EXCEPT ![t][x] = latest[x] + 1]
  /\ recent_cl' = [recent_cl EXCEPT ![t] = x]
  /\ \/ /\ x = recent_cl[t]
        /\ WriteLine(t, x, latest[x] + 1)
        /\ UNCHANGED <<pc, op, obj, dirty_cls>>
     \/ /\ x # recent_cl[t]
        /\ x \in dirty_cls[t] \/ CanInsert(t)
        /\ dirty_cls' = [dirty_cls EXCEPT ![t] = @ \cup {x}]
        /\ WriteLine(t, x, latest[x] + 1)
        /\ UNCHANGED <<pc, op, obj>>
     \/ /\ x # recent_cl[t]
        /\ x \notin dirty_cls[t] /\ CanFail(t)
        /\ op' = [op EXCEPT ![t] = "insert"]
        /\ obj' = [obj EXCEPT ![t] = x]
        /\ Goto(t, "claim")
        /\ UNCHANGED <<cache, modified, dirty_cls>>
  /\ UNCHANGED <<mem, invVars, logVars, clock, log_head_mtx, build, agentVars,
                 thread_clock, pos, helpVars, syncVars, loc_seen, got,
                 read_seen>>

(* The second insert of log_store, into the table just cleared.            *)
Insert(t) ==
  /\ pc[t] = "insert"
  /\ dirty_cls' = [dirty_cls EXCEPT ![t] = @ \cup {obj[t]}]
  /\ WriteLine(t, obj[t], seen[t][obj[t]])
  /\ op' = [op EXCEPT ![t] = None]
  /\ obj' = [obj EXCEPT ![t] = None]
  /\ Goto(t, "run")
  /\ UNCHANGED <<mem, invVars, logVars, clock, log_head_mtx, build, agentVars,
                 recent_cl, thread_clock, pos, helpVars, ops, syncVars,
                 histVars>>

-----------------------------------------------------------------------------
(* write_to_log.                                                           *)

(* The recorded lines that the node still holds modified.                  *)
mutNothingWrittenBack(t) == {}
WrittenBack(t) == dirty_cls[t] \cap modified[NodeOf[t]]

(* The lines of the table are written back; the locked fetch_add of tail   *)
(* is the fence behind them and claims the position.                       *)
Claim(t) ==
  LET n == NodeOf[t] IN
  /\ pc[t] = "claim"
  /\ \A i \in Nodes \ {n} : Len(log[n]) < head[i][n] + LogCapacity
  /\ mem' = [x \in Lines |-> IF x \in WrittenBack(t)
                             THEN cache[n][x] ELSE mem[x]]
  /\ modified' = [modified EXCEPT ![n] = @ \ WrittenBack(t)]
  /\ log' = [log EXCEPT ![n] = Append(@, [lines |-> dirty_cls[t],
                                          is_rel |-> op[t] # "insert",
                                          published |-> FALSE])]
  /\ pos' = [pos EXCEPT ![t] = Len(log[n]) + 1]
  /\ Goto(t, "publish")
  /\ UNCHANGED <<cache, invVars, head, clock, log_head_mtx, build, agentVars,
                 op, obj, storeVars, thread_clock, helpVars, ops, syncVars,
                 histVars>>

(* What produce_tail returns, t + 1 for the position t counted from 0.     *)
mutReleaseClock(t) == pos[t] + 1
ReleaseClock(t) == pos[t]

(* The entry becomes visible; a release enters the position in the         *)
(* thread's clock.                                                         *)
Publish(t) ==
  LET n == NodeOf[t] IN
  /\ pc[t] = "publish"
  /\ log' = [log EXCEPT ![n][pos[t]].published = TRUE]
  /\ dirty_cls' = [dirty_cls EXCEPT ![t] = {}]
  /\ thread_clock' = IF op[t] = "insert" THEN thread_clock
                     ELSE [thread_clock EXCEPT ![t][n] = ReleaseClock(t)]
  /\ pos' = [pos EXCEPT ![t] = 0]
  /\ Goto(t, op[t])
  /\ UNCHANGED <<hwVars, invVars, head, clock, log_head_mtx, build, agentVars,
                 op, obj, recent_cl, helpVars, ops, syncVars, histVars>>

-----------------------------------------------------------------------------
(* Release operations: thread_release, then the object's clock.            *)

(* thread_release publishes only if a line was stored to since the last    *)
(* one.  o is the operation and a its object.                              *)
ThreadRelease(t, o, a) ==
  /\ pc[t] = "run"
  /\ CountOp(t)
  /\ op' = [op EXCEPT ![t] = o]
  /\ obj' = [obj EXCEPT ![t] = a]
  /\ recent_cl' = [recent_cl EXCEPT ![t] = None]
  /\ Goto(t, IF recent_cl[t] = None THEN o ELSE "claim")
  /\ UNCHANGED <<hwVars, invVars, logVars, clock, log_head_mtx, build,
                 agentVars, dirty_cls, thread_clock, pos, helpVars, syncVars,
                 histVars>>

EndOp(t) ==
  /\ Goto(t, "run")
  /\ op' = [op EXCEPT ![t] = None]
  /\ obj' = [obj EXCEPT ![t] = None]

(* thread_acquire: of a copy c of a clock, or of the clock of r, an object *)
(* or a thread, through a reference.  s are the stores that happen before. *)
AcquireCopy(t, c, s) ==
  /\ Goto(t, "acquire")
  /\ op' = [op EXCEPT ![t] = None]
  /\ obj' = [obj EXCEPT ![t] = None]
  /\ target' = [target EXCEPT ![t] = c]
  /\ node_done' = [node_done EXCEPT ![t] = {NodeOf[t]}]
  /\ got' = [got EXCEPT ![t] = s]

AcquireRef(t, r, s) ==
  /\ obj' = [obj EXCEPT ![t] = r]
  /\ node_done' = [node_done EXCEPT ![t] = {NodeOf[t]}]
  /\ got' = [got EXCEPT ![t] = s]
  /\ UNCHANGED target

(* The clock that an acquiring thread reads at this moment.                *)
Target(t) ==
  CASE obj[t] = None -> target[t]
    [] obj[t] \in Threads -> thread_clock[obj[t]]
    [] OTHER -> loc_clock[obj[t]]

OtherThanSync == <<hwVars, invVars, logVars, clock, log_head_mtx, build,
                   agentVars, storeVars, thread_clock, pos, src, clk, latest,
                   seen>>

(* CXLAtomic::store under the atomic's mutex: the clock is replaced.       *)
AtomicStore(t) ==
  /\ pc[t] = "store"
  /\ loc_clock' = [loc_clock EXCEPT ![obj[t]] = thread_clock[t]]
  /\ loc_seen' = [loc_seen EXCEPT ![obj[t]] = seen[t]]
  /\ EndOp(t)
  /\ UNCHANGED <<OtherThanSync, target, node_done, ops, owner, readers, got,
                 read_seen>>

(* CXLAtomic::fetch_add with release or acq_rel order: the clock is merged *)
(* and, for acq_rel, acquired as it is after the merge.                    *)
FetchAdd(t) ==
  LET c == Merge(loc_clock[obj[t]], thread_clock[t])
      s == Merge(loc_seen[obj[t]], seen[t])
  IN
  /\ pc[t] \in {"fetch_add_rel", "fetch_add"}
  /\ loc_clock' = [loc_clock EXCEPT ![obj[t]] = c]
  /\ loc_seen' = [loc_seen EXCEPT ![obj[t]] = s]
  /\ \/ /\ pc[t] = "fetch_add_rel"
        /\ EndOp(t)
        /\ UNCHANGED <<target, node_done, got>>
     \/ /\ pc[t] = "fetch_add"
        /\ AcquireCopy(t, c, s)
  /\ UNCHANGED <<OtherThanSync, ops, owner, readers, read_seen>>

(* CXLAtomic::load, and fetch_add with acquire order.                      *)
AtomicLoad(t, a) ==
  /\ pc[t] = "run"
  /\ CountOp(t)
  /\ AcquireCopy(t, loc_clock[a], loc_seen[a])
  /\ UNCHANGED <<OtherThanSync, syncVars, loc_seen, read_seen>>

(* CXLMutex::lock acquires inner->clock, which nobody else writes now.      *)
Lock(t, m) ==
  /\ pc[t] = "run"
  /\ owner[m] = None
  /\ CountOp(t)
  /\ owner' = [owner EXCEPT ![m] = t]
  /\ AcquireRef(t, m, loc_seen[m])
  /\ Goto(t, "acquire")
  /\ UNCHANGED <<OtherThanSync, op, loc_clock, readers, loc_seen, read_seen>>

(* CXLMutex::unlock and CXLSharedMutex::unlock after their thread_release. *)
Unlock(t) ==
  /\ pc[t] = "unlock"
  /\ loc_clock' = [loc_clock EXCEPT ![obj[t]] = thread_clock[t]]
  /\ loc_seen' = [loc_seen EXCEPT ![obj[t]] = seen[t]]
  /\ owner' = [owner EXCEPT ![obj[t]] = None]
  /\ EndOp(t)
  /\ UNCHANGED <<OtherThanSync, target, node_done, ops, got, readers,
                 read_seen>>

-----------------------------------------------------------------------------
(* CXLSharedMutex, with MCSSharedLock as a lock whose writer excludes new  *)
(* readers from the time it has wlock (owner) and waits for the others.    *)

(* lock_shared.                                                            *)
LockShared(t, m) ==
  /\ pc[t] = "run"
  /\ owner[m] = None /\ t \notin readers[m]
  /\ CountOp(t)
  /\ readers' = [readers EXCEPT ![m] = @ \cup {t}]
  /\ AcquireRef(t, m, loc_seen[m])
  /\ Goto(t, "acquire")
  /\ UNCHANGED <<OtherThanSync, op, loc_clock, owner, loc_seen, read_seen>>

(* lock acquires a first time as a reader, to catch up before it excludes  *)
(* anybody.                                                                *)
LockExclusive(t, m) ==
  /\ pc[t] = "run"
  /\ owner[m] = None /\ t \notin readers[m]
  /\ CountOp(t)
  /\ readers' = [readers EXCEPT ![m] = @ \cup {t}]
  /\ AcquireRef(t, m, loc_seen[m])
  /\ op' = [op EXCEPT ![t] = "upgrade"]
  /\ Goto(t, "acquire")
  /\ UNCHANGED <<OtherThanSync, loc_clock, owner, loc_seen, read_seen>>

(* unlock_shared of the inner lock, then its lock: wlock, ...              *)
Upgrade(t) ==
  /\ pc[t] = "upgrade"
  /\ readers' = [readers EXCEPT ![obj[t]] = @ \ {t}]
  /\ Goto(t, "wlock")
  /\ UNCHANGED <<OtherThanSync, op, obj, target, node_done, ops, got,
                 loc_clock, owner, loc_seen, read_seen>>

TakeWlock(t) ==
  /\ pc[t] = "wlock"
  /\ owner[obj[t]] = None
  /\ owner' = [owner EXCEPT ![obj[t]] = t]
  /\ Goto(t, "drain")
  /\ UNCHANGED <<OtherThanSync, op, obj, target, node_done, ops, got,
                 loc_clock, readers, loc_seen, read_seen>>

(* ... and when the readers are gone the clock is acquired again.          *)
Drain(t) ==
  /\ pc[t] = "drain"
  /\ readers[obj[t]] = {}
  /\ AcquireRef(t, obj[t], Merge(loc_seen[obj[t]], read_seen[obj[t]]))
  /\ op' = [op EXCEPT ![t] = None]
  /\ Goto(t, "acquire")
  /\ UNCHANGED <<OtherThanSync, ops, syncVars, loc_seen, read_seen>>

(* unlock_shared writes the clock while other readers write it or read it: *)
(* a component at a time (node_done is the set of those written).          *)
mutCopiedClock(t, i) == 0
CopiedClock(t, i) == thread_clock[t][i]

CopyClock(t, i) ==
  /\ pc[t] = "unlock_shared"
  /\ i \notin node_done[t]
  /\ loc_clock' = [loc_clock EXCEPT ![obj[t]][i] = CopiedClock(t, i)]
  /\ node_done' = [node_done EXCEPT ![t] = @ \cup {i}]
  /\ UNCHANGED <<OtherThanSync, pc, op, obj, target, ops, got, owner, readers,
                 loc_seen, read_seen>>

UnlockShared(t) ==
  /\ pc[t] = "unlock_shared"
  /\ node_done[t] = Nodes
  /\ node_done' = [node_done EXCEPT ![t] = {}]
  /\ readers' = [readers EXCEPT ![obj[t]] = @ \ {t}]
  /\ read_seen' = IF ReadersRelease
                  THEN [read_seen EXCEPT ![obj[t]] = Merge(@, seen[t])] ELSE read_seen
  /\ EndOp(t)
  /\ UNCHANGED <<OtherThanSync, target, ops, got, loc_clock, owner, loc_seen>>

-----------------------------------------------------------------------------
(* Threads that are created.                                               *)

(* rac_thread_create after its thread_release: the new thread is to        *)
(* acquire its parent's clock, and has a pointer to it.                    *)
Create(t) ==
  LET c == obj[t] IN
  /\ pc[t] = "create"
  /\ pc' = [pc EXCEPT ![t] = "run", ![c] = "acquire"]
  /\ op' = [op EXCEPT ![t] = None]
  /\ obj' = [obj EXCEPT ![t] = None, ![c] = t]
  /\ node_done' = [node_done EXCEPT ![c] = {NodeOf[c]}]
  /\ got' = [got EXCEPT ![c] = seen[t]]
  /\ UNCHANGED <<OtherThanSync, target, ops, syncVars, loc_seen, read_seen>>

(* rac_thread_join, when the thread has released and ended.                *)
Join(t, c) ==
  /\ pc[t] = "run"
  /\ pc[c] = "exit" /\ ParentOf[c] = t
  /\ CountOp(t)
  /\ AcquireRef(t, c, seen[c])
  /\ pc' = [pc EXCEPT ![t] = "acquire", ![c] = "joined"]
  /\ UNCHANGED <<OtherThanSync, op, syncVars, loc_seen, read_seen>>

-----------------------------------------------------------------------------
(* Consuming logs: take_head, process_log and consume_head, by whoever     *)
(* holds the log head mutex of node n.                                     *)

Available(n, i) ==
  head[n][i] < Len(log[i]) /\ log[i][head[n][i] + 1].published

NextEntry(n, i) == log[i][head[n][i] + 1]

(* process_log: the lines are invalidated, or only marked.                 *)
ProcessLog(n, lines) ==
  \/ /\ EAGER_INVALIDATE
     /\ flushing' = [flushing EXCEPT ![n] = @ \cup lines]
     /\ UNCHANGED inv_cls
  \/ /\ ~EAGER_INVALIDATE
     /\ MarkDirty(n, lines)
     /\ UNCHANGED flushing

mutConsumeEntry(n, i) ==
  /\ Available(n, i)
  /\ ProcessLog(n, NextEntry(n, i).lines)
  /\ UNCHANGED head

ConsumeEntry(n, i) ==
  /\ Available(n, i)
  /\ ProcessLog(n, NextEntry(n, i).lines)
  /\ head' = [head EXCEPT ![n][i] = @ + 1]

mutEntryClock(n, i, c) == head[n][i] + 1

(* The clock value after consuming the next entry: its idx if a release.   *)
EntryClock(n, i, c) == IF NextEntry(n, i).is_rel THEN head[n][i] + 1 ELSE c

(* A fence of who consumes logs: its invalidations are complete.           *)
Flushed(n) == EAGER_INVALIDATE => flushing[n] = {}

(* A store is ordered after earlier CLFLUSHes but not after CLFLUSHOPTs.   *)
FlushedBeforeStore(n) == INVALIDATE_INST = "CLFLUSH" => Flushed(n)

(* try_lock of the log head mutex succeeds.                                *)
mutMutexFree(n) == TRUE
MutexFree(n) == log_head_mtx[n] = None

-----------------------------------------------------------------------------
(* help_consume and wait_for_consume.                                      *)

OtherThanHelp == <<hwVars, log, build, agentVars, op, obj, storeVars, pos,
                   target, ops, syncVars, latest, loc_seen, read_seen>>

(* The cache clock has reached the target for node i: help_consume goes on *)
(* to the other nodes, wait_for_consume ends its loop for this one.        *)
AcquireReady(t, i) ==
  /\ pc[t] = "acquire"
  /\ i \notin node_done[t]
  /\ clock[NodeOf[t]][i] >= Target(t)[i]
  /\ node_done' = [node_done EXCEPT ![t] = @ \cup {i}]
  /\ UNCHANGED <<OtherThanHelp, invVars, head, clock, log_head_mtx, pc,
                 thread_clock, src, clk, seen, got>>

(* It has not: a helping thread tries to get the log head mutex.           *)
AcquireBehind(t, i) ==
  /\ CONSUME_HELPING
  /\ pc[t] = "acquire"
  /\ i \notin node_done[t]
  /\ clock[NodeOf[t]][i] < Target(t)[i]
  /\ src' = [src EXCEPT ![t] = i]
  /\ Goto(t, "try_lock")
  /\ UNCHANGED <<OtherThanHelp, invVars, head, clock, log_head_mtx,
                 thread_clock, node_done, clk, seen, got>>

HelpTryLock(t) ==
  LET n == NodeOf[t] IN
  /\ pc[t] = "try_lock"
  /\ \/ /\ MutexFree(n)
        /\ log_head_mtx' = [log_head_mtx EXCEPT ![n] = t]
        /\ clk' = [clk EXCEPT ![t] = clock[n][src[t]]]
        /\ Goto(t, "help")
     \/ /\ ~MutexFree(n)
        /\ Goto(t, "acquire")
        /\ UNCHANGED <<log_head_mtx, clk>>
  /\ UNCHANGED <<OtherThanHelp, invVars, head, clock, thread_clock, node_done,
                 src, seen, got>>

(* One log; while the head is claimed and not published the thread spins.  *)
HelpConsume(t) ==
  LET n == NodeOf[t] IN
  /\ pc[t] = "help"
  /\ clk[t] < Target(t)[src[t]]
  /\ ConsumeEntry(n, src[t])
  /\ clk' = [clk EXCEPT ![t] = EntryClock(n, src[t], @)]
  /\ UNCHANGED <<OtherThanHelp, clock, log_head_mtx, pc, thread_clock,
                 node_done, src, seen, got>>

(* update_clock.                                                           *)
HelpUpdate(t) ==
  LET n == NodeOf[t] IN
  /\ pc[t] = "help"
  /\ clk[t] >= Target(t)[src[t]]
  /\ FlushedBeforeStore(n)
  /\ clock' = [clock EXCEPT ![n][src[t]] = clk[t]]
  /\ Goto(t, "help_unlock")
  /\ UNCHANGED <<OtherThanHelp, invVars, head, log_head_mtx, thread_clock,
                 node_done, src, clk, seen, got>>

(* The locked instruction of the unlock is the invalidate fence.           *)
HelpUnlock(t) ==
  LET n == NodeOf[t] IN
  /\ pc[t] = "help_unlock"
  /\ Flushed(n)
  /\ log_head_mtx' = [log_head_mtx EXCEPT ![n] = None]
  /\ node_done' = [node_done EXCEPT ![t] = @ \cup {src[t]}]
  /\ src' = [src EXCEPT ![t] = n]
  /\ clk' = [clk EXCEPT ![t] = 0]
  /\ Goto(t, "acquire")
  /\ UNCHANGED <<OtherThanHelp, invVars, head, clock, thread_clock, seen,
                 got>>

(* thread_clock.merge(clock).                                              *)
AcquiredClock(t) == Merge(thread_clock[t], Target(t))

(* Every node is done: the clock joins the thread's.                       *)
AcquireDone(t) ==
  /\ pc[t] = "acquire"
  /\ node_done[t] = Nodes
  /\ thread_clock' = [thread_clock EXCEPT ![t] = AcquiredClock(t)]
  /\ seen' = [seen EXCEPT ![t] = Merge(@, got[t])]
  /\ got' = [got EXCEPT ![t] = [x \in Lines |-> 0]]
  /\ target' = [target EXCEPT ![t] = ZeroClock]
  /\ node_done' = [node_done EXCEPT ![t] = {}]
  /\ obj' = [obj EXCEPT ![t] = IF op[t] = None THEN None ELSE @]
  /\ Goto(t, IF op[t] = None THEN "run" ELSE op[t])
  /\ UNCHANGED <<hwVars, logVars, build, agentVars, op, storeVars, pos, ops,
                 syncVars, latest, loc_seen, read_seen, invVars, clock,
                 log_head_mtx, src, clk>>

-----------------------------------------------------------------------------
(* CacheAgent::run, one turn of the loop for node i.  A turn that would    *)
(* find no log only takes and frees the mutex and is left out.  Without    *)
(* helping the agent is the only consumer and takes no mutex, the one      *)
(* below is then never contended.                                          *)

OtherThanAgent == <<build, hwVars, log, pc, op, obj, storeVars, thread_clock,
                    pos, helpVars, ops, syncVars, histVars>>

(* The batch loop runs LOG_MAX_BATCH times.                                *)
mutBatchFull(n) == acnt[n] > LOG_MAX_BATCH
BatchFull(n) == acnt[n] >= LOG_MAX_BATCH

(* invalidate_fence, when no mutex unlock follows the clock update.        *)
AgentFence(n) == CONSUME_HELPING \/ Flushed(n)

AgentLock(n, i) ==
  /\ apc[n] = "off"
  /\ i # n
  /\ Available(n, i)
  /\ MutexFree(n)
  /\ log_head_mtx' = [log_head_mtx EXCEPT ![n] = n]
  /\ apc' = [apc EXCEPT ![n] = "batch"]
  /\ asrc' = [asrc EXCEPT ![n] = i]
  /\ UNCHANGED <<OtherThanAgent, invVars, head, clock, aclk, acnt>>

AgentConsume(n) ==
  /\ apc[n] = "batch"
  /\ ~BatchFull(n)
  /\ ConsumeEntry(n, asrc[n])
  /\ aclk' = [aclk EXCEPT ![n] = EntryClock(n, asrc[n], @)]
  /\ acnt' = [acnt EXCEPT ![n] = @ + 1]
  /\ UNCHANGED <<OtherThanAgent, clock, log_head_mtx, apc, asrc>>

(* The batch is over: the clock moves if a release was among the logs,     *)
(* after an invalidate fence if no mutex unlock follows.                   *)
AgentUpdate(n) ==
  /\ apc[n] = "batch"
  /\ BatchFull(n) \/ ~Available(n, asrc[n])
  /\ \/ /\ aclk[n] = 0
        /\ UNCHANGED clock
     \/ /\ aclk[n] # 0
        /\ AgentFence(n)
        /\ FlushedBeforeStore(n)
        /\ clock' = [clock EXCEPT ![n][asrc[n]] = aclk[n]]
  /\ apc' = [apc EXCEPT ![n] = "unlock"]
  /\ UNCHANGED <<OtherThanAgent, invVars, head, log_head_mtx, asrc, aclk,
                 acnt>>

AgentUnlock(n) ==
  /\ apc[n] = "unlock"
  /\ CONSUME_HELPING => Flushed(n)
  /\ log_head_mtx' = [log_head_mtx EXCEPT ![n] = None]
  /\ apc' = [apc EXCEPT ![n] = "off"]
  /\ asrc' = [asrc EXCEPT ![n] = n]
  /\ aclk' = [aclk EXCEPT ![n] = 0]
  /\ acnt' = [acnt EXCEPT ![n] = 0]
  /\ UNCHANGED <<OtherThanAgent, invVars, head, clock>>

-----------------------------------------------------------------------------
(* What the program decides to do next.                                    *)
ThreadStarts(t) ==
  \/ \E x \in Lines : Store(t, x) \/ CheckDirty(t, x)
  \/ \E a \in Atomics :
       \/ \E o \in ReleaseOps : ThreadRelease(t, o, a)
       \/ AtomicLoad(t, a)
  \/ \E m \in Mutexes : Lock(t, m)
  \/ \E m \in {k \in Locks : owner[k] = t} : ThreadRelease(t, "unlock", m)
  \/ \E m \in SharedMutexes : LockShared(t, m) \/ LockExclusive(t, m)
  \/ \E m \in {k \in SharedMutexes : t \in readers[k]} : ThreadRelease(t, "unlock_shared", m)
  \/ \E c \in {k \in DOMAIN ParentOf : ParentOf[k] = t} :
       \/ pc[c] = "unborn" /\ ThreadRelease(t, "create", c)
       \/ Join(t, c)
  \/ t \in DOMAIN ParentOf /\ ThreadRelease(t, "exit", None)

(* What the library does to finish it.                                     *)
ThreadContinues(t) ==
  \/ Insert(t) \/ Claim(t) \/ Publish(t)
  \/ CheckClear(t)
  \/ AtomicStore(t) \/ FetchAdd(t) \/ Unlock(t) \/ Create(t)
  \/ Upgrade(t) \/ TakeWlock(t) \/ Drain(t) \/ UnlockShared(t)
  \/ \E i \in Nodes : CopyClock(t, i)
  \/ \E i \in Nodes : AcquireReady(t, i) \/ AcquireBehind(t, i)
  \/ HelpTryLock(t) \/ HelpConsume(t) \/ HelpUpdate(t) \/ HelpUnlock(t)
  \/ AcquireDone(t)

AgentStep(n) ==
  \/ \E i \in Nodes : AgentLock(n, i)
  \/ AgentConsume(n) \/ AgentUpdate(n) \/ AgentUnlock(n)

HardwareStep(n, x) == Evict(n, x) \/ Invalidated(n, x)

Next ==
  \/ \E t \in Threads : ThreadStarts(t) \/ ThreadContinues(t)
  \/ \E n \in Nodes : AgentStep(n)
  \/ \E n \in Nodes, x \in Lines : HardwareStep(n, x)

Spec == Init /\ [][Next]_vars

(* Threads and the agent's loop run, and an issued invalidation completes. *)
(* What the program starts next is its own choice.                         *)
Fairness ==
  /\ \A t \in Threads : WF_vars(ThreadContinues(t))
  /\ \A n \in Nodes :
       /\ WF_vars(AgentStep(n))
       /\ \A x \in Lines : WF_vars(Invalidated(n, x))

FairSpec == Spec /\ Fairness

-----------------------------------------------------------------------------
Entries == [lines : SUBSET Lines, is_rel : BOOLEAN, published : BOOLEAN]

Labels ==
  {"run", "check", "claim", "publish", "insert", "store", "fetch_add_rel",
   "fetch_add", "unlock", "unlock_shared", "acquire", "try_lock", "help",
   "help_unlock", "upgrade", "wlock", "drain", "create", "unborn", "exit",
   "joined"}

Operations ==
  {None, "insert", "store", "fetch_add_rel", "fetch_add", "unlock",
   "unlock_shared", "upgrade", "create", "exit"}

Clocks   == [Nodes -> Nat]
Versions == [Lines -> Nat]

(* Clocks and versions count, batches stay within LOG_MAX_BATCH and         *)
(* programs within MaxOps, control within the steps of the library.        *)
TypeOK ==
  /\ mem \in Versions
  /\ cache \in [Nodes -> Versions]
  /\ modified \in [Nodes -> SUBSET Lines]
  /\ flushing \in [Nodes -> SUBSET Lines]
  /\ inv_cls \in [Nodes -> SUBSET Lines]
  /\ build \in Builds
  /\ log \in [Nodes -> Seq(Entries)]
  /\ head \in [Nodes -> Clocks]
  /\ clock \in [Nodes -> Clocks]
  /\ log_head_mtx \in [Nodes -> Threads \cup Nodes \cup {None}]
  /\ apc \in [Nodes -> {"off", "batch", "unlock"}]
  /\ asrc \in [Nodes -> Nodes] /\ aclk \in [Nodes -> Nat]
  /\ acnt \in [Nodes -> 0 .. LOG_MAX_BATCH]
  /\ pc \in [Threads -> Labels]
  /\ op \in [Threads -> Operations]
  /\ obj \in [Threads -> Locs \cup Lines \cup Threads \cup {None}]
  /\ recent_cl \in [Threads -> Lines \cup {None}]
  /\ dirty_cls \in [Threads -> SUBSET Lines]
  /\ thread_clock \in [Threads -> Clocks]
  /\ pos \in [Threads -> Nat]
  /\ target \in [Threads -> Clocks]
  /\ node_done \in [Threads -> SUBSET Nodes]
  /\ src \in [Threads -> Nodes]
  /\ clk \in [Threads -> Nat]
  /\ ops \in [Threads -> Nat] /\ \A t \in Threads : ops[t] <= MaxOps[t]
  /\ loc_clock \in [Locs -> Clocks]
  /\ owner \in [Locks -> Threads \cup {None}]
  /\ readers \in [SharedMutexes -> SUBSET Threads]
  /\ latest \in Versions
  /\ seen \in [Threads -> Versions]
  /\ loc_seen \in [Locs -> Versions]
  /\ got \in [Threads -> Versions]
  /\ read_seen \in [SharedMutexes -> Versions]

-----------------------------------------------------------------------------
(* The store a thread is about to perform is not yet part of its view.     *)
StorePending(t, x) == op[t] = "insert" /\ obj[t] = x
Known(t, x) == IF StorePending(t, x) THEN seen[t][x] - 1 ELSE seen[t][x]

(* Coherence: at every moment a thread that loads a line gets a store at   *)
(* least as recent as the last one that happens before, so a race-free     *)
(* program reads the value it must read and never overwrites a line on top *)
(* of a stale copy.  A line that is marked is not loaded before CheckClear *)
(* unmarks it.                                                             *)
NoStaleRead ==
  \A t \in Threads, x \in Lines :
    ~IsDirty(NodeOf[t], x) => cache[NodeOf[t]][x] >= Known(t, x)

(* A modified line that is evicted, flushed or written back late never     *)
(* replaces a newer store in memory.                                       *)
MemoryForward == [][\A x \in Lines : mem'[x] >= mem[x]]_vars

(* A node's cache clock never moves back, although update_clock is a plain *)
(* store done by the agent and by every helping thread.                    *)
ClockForward == [][\A n, i \in Nodes : clock'[n][i] >= clock[n][i]]_vars

(* While nobody consumes, the cache clock of a node is the idx of the last *)
(* release among the logs it consumed: help_consume, which starts from it, *)
(* neither misses a release that was consumed nor waits for it again.      *)
LastRelease(n, i) ==
  LET rels == {k \in 1 .. head[n][i] : log[i][k].is_rel}
  IN  IF rels = {} THEN 0 ELSE CHOOSE k \in rels : \A j \in rels : j <= k

ClockIsLastRelease ==
  \A n, i \in Nodes : n # i /\ log_head_mtx[n] = None =>
    clock[n][i] = LastRelease(n, i)

(* A clock that a synchronisation object hands out names a published       *)
(* release entry of each node, so consuming up to it is possible and ends. *)
ClockNamesRelease ==
  \A a \in Locs, i \in Nodes : loc_clock[a][i] # 0 =>
    /\ loc_clock[a][i] <= Len(log[i])
    /\ log[i][loc_clock[a][i]].is_rel
    /\ log[i][loc_clock[a][i]].published

(* Liveness: an acquire ends, whoever consumes the logs.                   *)
AcquireEnds == \A t \in Threads : pc[t] = "acquire" ~> pc[t] = "run"

(* Liveness: a release ends, although it may have to wait for room in the  *)
(* log until the other nodes consume.                                      *)
ReleaseEnds == \A t \in Threads : pc[t] = "claim" ~> pc[t] = "run"
===============================================================================
