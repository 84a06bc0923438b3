------------------------ MODULE CoherenceSafety_proofs ------------------------
(***************************************************************************)
(* Coherence, proved: in the builds in which a consumer's invalidations    *)
(* complete before its clock moves, a thread never loads a version older   *)
(* than the last one that happens before.                                  *)
(***************************************************************************)
EXTENDS Coherence_proofs

(* The numbers of the history.                                             *)
LEMMA Numbers ==
  ASSUME TypeOK
  PROVE  /\ \A x \in Lines : mem[x] \in Nat /\ latest[x] \in Nat
         /\ \A n \in Nodes, x \in Lines : cache[n][x] \in Nat
         /\ \A t \in Threads, x \in Lines : seen[t][x] \in Nat /\ got[t][x] \in Nat
         /\ \A a \in Locs, x \in Lines : loc_seen[a][x] \in Nat
         /\ \A m \in SharedMutexes, x \in Lines : read_seen[m][x] \in Nat
BY DEF TypeOK, Versions

-----------------------------------------------------------------------------
(* What one step does to the history.                                      *)

(* A thread at the end of a release has no unpublished line.               *)
LEMMA Released ==
  ASSUME TypeOK, ControlInv, NEW t \in Threads, pc[t] \in Releases
  PROVE  /\ op[t] \in Releases /\ recent_cl[t] = None /\ dirty_cls[t] = {}
         /\ \A x \in Lines : ~Private(t, x) /\ ~StorePending(t, x) /\ Known(t, x) = seen[t][x]
<1>1. op[t] \in Releases
  BY DEF ControlInv, OpInv
<1>2. recent_cl[t] = None /\ dirty_cls[t] = {}
  BY <1>1 DEF ControlInv, TableInv, TableOf, Releases, AtomicOps
<1>3. op[t] # "insert"
  BY <1>1 DEF Releases, AtomicOps
<1>4. QED
  BY <1>1, <1>2, <1>3 DEF Private, StorePending, Known

(* A store that is pending was begun by its thread.                        *)
LEMMA PendingStarts ==
  ASSUME TypeOK, OpInv, ObjInv, Next, NEW u \in Threads, NEW x \in Lines, StorePending(u, x)'
  PROVE  \/ StorePending(u, x) /\ ~Insert(u)
         \/ Store(u, x) /\ x \notin dirty_cls[u] /\ UNCHANGED <<cache, modified, dirty_cls>>
<1> USE DEF OtherThanHw, OtherThanSync, OtherThanHelp, OtherThanAgent, hwVars,
      invVars, agentVars, helpVars, logVars, storeVars, histVars, syncVars
<1>0. /\ op \in [Threads -> Operations] /\ obj \in [Threads -> Locs \cup Lines \cup Threads \cup {None}]
      /\ pc \in [Threads -> Labels]
  BY DEF TypeOK
<1>1. op'[u] = "insert" /\ obj'[u] = x
  BY DEF StorePending
<1>2. CASE Keeps(u)
  <2>1. StorePending(u, x)
    BY <1>1, <1>2 DEF Keeps, StorePending
  <2>2. ~Insert(u)
    BY <1>0, <1>1 DEF Insert, None
  <2>3. QED
    BY <2>1, <2>2
<1>3. CASE ThreadStarts(u)
  <2>1. ASSUME NEW y \in Lines, Store(u, y)
        PROVE  Store(u, x) /\ x \notin dirty_cls[u] /\ UNCHANGED <<cache, modified, dirty_cls>>
    <3>1. op[u] = None
      BY <2>1 DEF Store, OpInv
    <3>2. op'[u] # op[u]
      BY <1>1, <3>1 DEF None
    <3>3. /\ y \notin dirty_cls[u] /\ obj' = [obj EXCEPT ![u] = y]
          /\ UNCHANGED <<cache, modified, dirty_cls>>
      BY <2>1, <3>2 DEF Store
    <3>4. y = x
      BY <1>0, <1>1, <3>3
    <3>5. QED
      BY <2>1, <3>3, <3>4
  <2>2. ASSUME ThreadStarts(u), ~\E y \in Lines : Store(u, y) PROVE FALSE
    <3>1. op[u] = None
      BY <2>2, StartCases DEF CheckDirty, ThreadRelease, AtomicLoad, Lock, LockShared,
        LockExclusive, Join, OpInv
    <3>2. op'[u] # "insert"
      BY <1>0, <2>2, <3>1, StartCases DEF CheckDirty, ThreadRelease, AtomicLoad, AcquireCopy, Lock,
        LockShared, LockExclusive, Join, Releases, AtomicOps, None
    <3>3. QED
      BY <1>1, <3>2
  <2>3. QED
    BY <1>3, <2>1, <2>2
<1>4. CASE ThreadContinues(u)
  <2>1. ASSUME Insert(u) \/ AtomicStore(u) \/ FetchAdd(u) \/ Unlock(u) \/ Create(u) \/ Drain(u)
               \/ UnlockShared(u)
        PROVE  FALSE
    BY <1>0, <1>1, <2>1 DEF Insert, AtomicStore, FetchAdd, Unlock, Create, Drain, UnlockShared,
      EndOp, AcquireCopy, None
  <2>2. ASSUME Claim(u) \/ Publish(u) \/ CheckClear(u) \/ Upgrade(u) \/ TakeWlock(u)
               \/ (\E i \in Nodes : CopyClock(u, i) \/ AcquireReady(u, i) \/ AcquireBehind(u, i))
               \/ HelpTryLock(u) \/ HelpConsume(u) \/ HelpUpdate(u) \/ HelpUnlock(u) \/ AcquireDone(u)
        PROVE  op'[u] = op[u]
    BY <2>2 DEF Claim, Publish, CheckClear, Upgrade, TakeWlock, CopyClock, AcquireReady,
      AcquireBehind, HelpTryLock, HelpConsume, HelpUpdate, HelpUnlock, AcquireDone
  <2>3. op[u] = "insert"
    BY <1>1, <1>4, <2>1, <2>2 DEF ThreadContinues
  <2>4. pc[u] \in {"claim", "publish", "insert"}
    BY <1>4, <2>1, <2>3 DEF OpInv, ThreadContinues, Claim, Publish, CheckClear, Upgrade, TakeWlock,
      CopyClock, AcquireReady, AcquireBehind, HelpTryLock, HelpConsume, HelpUpdate, HelpUnlock,
      AcquireDone, Acquiring, None, Releases, AtomicOps
  <2>5. Claim(u) \/ Publish(u)
    BY <1>4, <2>1, <2>4 DEF ThreadContinues, Claim, Publish, CheckClear, Upgrade, TakeWlock,
      CopyClock, AcquireReady, AcquireBehind, HelpTryLock, HelpConsume, HelpUpdate, HelpUnlock,
      AcquireDone
  <2>6. obj' = obj
    BY <2>5 DEF Claim, Publish
  <2>7. QED
    BY <1>1, <2>1, <2>3, <2>6 DEF StorePending
<1>5. ASSUME NEW t \in Threads, u # t, Create(t), u = obj[t] PROVE FALSE
  <2>1. op[t] = "create" /\ pc[u] = "unborn"
    BY <1>5 DEF Create, OpInv, ObjInv, ObjOf, Releases
  <2>2. op[u] = None /\ op'[u] = op[u]
    BY <1>0, <1>5, <2>1 DEF Create, OpInv
  <2>3. QED
    BY <1>1, <2>2 DEF None
<1>6. ASSUME NEW t \in Threads, u # t, Join(t, u) PROVE FALSE
  BY <1>1, <1>6 DEF Join, OpInv, Releases, OtherThanSync
<1>7. QED
  BY <1>2, <1>3, <1>4, <1>5, <1>6, ThreadMoves

(* So was every store that is private.                                     *)
LEMMA PrivateStarts ==
  ASSUME TypeOK, ControlInv, Next, NEW u \in Threads, NEW x \in Lines, Private(u, x)'
  PROVE  Private(u, x) \/ Store(u, x)
<1>0. OpInv /\ ObjInv /\ dirty_cls \in [Threads -> SUBSET Lines]
  BY DEF ControlInv, TypeOK
<1>1. CASE StorePending(u, x)'
  BY <1>0, <1>1, PendingStarts DEF Private
<1>2. CASE x \in dirty_cls'[u]
  <2>1. CASE UNCHANGED dirty_cls
    BY <1>2, <2>1 DEF Private
  <2>2. ASSUME NEW t \in Threads, NEW y \in Lines, Store(t, y) PROVE Private(u, x) \/ Store(u, x)
    BY <1>0, <1>2, <2>2 DEF Private, Store
  <2>3. ASSUME NEW t \in Threads, Insert(t) PROVE Private(u, x) \/ Store(u, x)
    <3>1. op[t] = "insert"
      BY <1>0, <2>3 DEF Insert, OpInv
    <3>2. QED
      BY <1>0, <1>2, <2>3, <3>1 DEF Private, StorePending, Insert
  <2>4. ASSUME NEW t \in Threads, Publish(t) PROVE Private(u, x) \/ Store(u, x)
    BY <1>0, <1>2, <2>4 DEF Private, Publish
  <2>5. QED
    BY <2>1, <2>2, <2>3, <2>4, FrameTable
<1>3. QED
  BY <1>1, <1>2 DEF Private

(* Stores are counted by the lines and known to who stores.                *)
LEMMA StoreCounts ==
  ASSUME TypeOK, NEW t \in Threads, NEW x \in Lines, Store(t, x)
  PROVE  /\ latest'[x] = latest[x] + 1 /\ seen'[t][x] = latest[x] + 1
         /\ \A y \in Lines \ {x} : latest'[y] = latest[y] /\ seen'[t][y] = seen[t][y]
         /\ \A u \in Threads \ {t} : seen'[u] = seen[u]
         /\ got' = got /\ loc_seen' = loc_seen /\ read_seen' = read_seen /\ mem' = mem
         /\ seen[t][x] = latest[x]
         /\ \A u \in Threads \ {t} : ~(pc[u] = "check" /\ obj[u] = x)
         /\ pc[t] = "run"
BY DEF TypeOK, Versions, Store, RaceFree

(* Which step adds a version of a line.                                    *)
LEMMA LatestStep ==
  ASSUME TypeOK, Next, NEW x \in Lines
  PROVE  \/ latest'[x] = latest[x]
         \/ \E t \in Threads : Store(t, x) /\ latest'[x] = latest[x] + 1
<1>1. ASSUME NEW t \in Threads, NEW y \in Lines, Store(t, y)
      PROVE  latest'[x] = latest[x] \/ (Store(t, x) /\ latest'[x] = latest[x] + 1)
  BY <1>1, StoreCounts
<1>2. QED
  BY <1>1, FrameLatest

(* The end of an acquire: the thread sees the later of what it had seen    *)
(* and of what it acquired.                                                *)
LEMMA DoneEffect ==
  ASSUME TypeOK, OpInv, NEW t \in Threads, AcquireDone(t)
  PROVE  /\ \A x \in Lines :
              seen'[t][x] = IF seen[t][x] > got[t][x] THEN seen[t][x] ELSE got[t][x]
         /\ \A u \in Threads \ {t} : seen'[u] = seen[u] /\ got'[u] = got[u]
         /\ \A x \in Lines : got'[t][x] = 0
         /\ pc[t] = "acquire" /\ node_done[t] = Nodes
         /\ op[t] \in {None, "upgrade"} /\ op' = op
         /\ \A x \in Lines : ~StorePending(t, x)
<1>0. seen \in [Threads -> Versions] /\ got \in [Threads -> Versions] /\ seen[t] \in [Lines -> Nat]
  BY DEF TypeOK, Versions
<1>1. /\ seen' = [seen EXCEPT ![t] = Merge(seen[t], got[t])]
      /\ got' = [got EXCEPT ![t] = [x \in Lines |-> 0]]
      /\ pc[t] = "acquire" /\ node_done[t] = Nodes /\ op' = op
  BY DEF AcquireDone
<1>2. op[t] \in {None, "upgrade"}
  BY <1>1 DEF OpInv, Acquiring
<1>3. \A x \in Lines : ~StorePending(t, x)
  BY <1>2 DEF StorePending, None
<1>4. DOMAIN seen[t] = Lines
  BY <1>0
<1>5. \A x \in Lines : seen'[t][x] = IF seen[t][x] > got[t][x] THEN seen[t][x] ELSE got[t][x]
  BY <1>0, <1>1, <1>4 DEF Merge
<1>6. QED
  BY <1>0, <1>1, <1>2, <1>3, <1>5

(* What a thread has seen changes by its stores and its acquires.          *)
LEMMA SeenStep ==
  ASSUME TypeOK, OpInv, Next, NEW u \in Threads, NEW x \in Lines
  PROVE  \/ seen'[u][x] = seen[u][x]
         \/ AcquireDone(u) /\ seen'[u][x] = got[u][x] /\ got[u][x] >= seen[u][x]
         \/ Store(u, x)
<1>0. seen \in [Threads -> Versions] /\ got \in [Threads -> Versions]
  BY DEF TypeOK
<1>1. ASSUME NEW t \in Threads, NEW y \in Lines, Store(t, y)
      PROVE  seen'[u][x] = seen[u][x] \/ Store(u, x)
  BY <1>1, StoreCounts
<1>2. ASSUME NEW t \in Threads, AcquireDone(t)
      PROVE  \/ seen'[u][x] = seen[u][x]
             \/ AcquireDone(u) /\ seen'[u][x] = got[u][x] /\ got[u][x] >= seen[u][x]
  <2>1. seen[u][x] \in Nat /\ got[u][x] \in Nat
    BY Numbers
  <2>2. QED
    BY <1>2, <2>1, DoneEffect
<1>3. QED
  BY <1>1, <1>2, FrameSeen

(* What an object stands for comes from objects and from finished releases. *)
LEMMA LocSeenStep ==
  ASSUME TypeOK, ControlInv, Next, NEW a \in Locs, NEW x \in Lines
  PROVE  \/ loc_seen'[a][x] = loc_seen[a][x]
         \/ \E t \in Threads : pc[t] \in Releases /\ loc_seen'[a][x] = seen[t][x]
<1>0. /\ seen \in [Threads -> Versions] /\ loc_seen \in [Locs -> Versions]
      /\ obj \in [Threads -> Locs \cup Lines \cup Threads \cup {None}]
      /\ loc_seen[a] \in [Lines -> Nat]
  BY DEF TypeOK, Versions
<1>1. ASSUME NEW t \in Threads, AtomicStore(t) \/ Unlock(t)
      PROVE  loc_seen'[a][x] = loc_seen[a][x] \/ (pc[t] \in Releases /\ loc_seen'[a][x] = seen[t][x])
  BY <1>0, <1>1 DEF AtomicStore, Unlock, Releases, AtomicOps
<1>2. ASSUME NEW t \in Threads, FetchAdd(t)
      PROVE  loc_seen'[a][x] = loc_seen[a][x] \/ (pc[t] \in Releases /\ loc_seen'[a][x] = seen[t][x])
  <2>1. pc[t] \in Releases
    BY <1>2 DEF FetchAdd, Releases, AtomicOps
  <2>2. loc_seen' = [loc_seen EXCEPT ![obj[t]] = Merge(loc_seen[obj[t]], seen[t])]
    BY <1>2 DEF FetchAdd
  <2>3. CASE obj[t] = a
    <3>1. loc_seen'[a] = Merge(loc_seen[a], seen[t])
      BY <1>0, <2>2, <2>3
    <3>2. DOMAIN loc_seen[a] = Lines
      BY <1>0
    <3>3. QED
      BY <2>1, <3>1, <3>2 DEF Merge
  <2>4. CASE obj[t] # a
    BY <1>0, <2>2, <2>4
  <2>5. QED
    BY <2>3, <2>4
<1>3. QED
  BY <1>1, <1>2, FrameLocSeen

(* So does what readers leave.                                             *)
LEMMA ReadSeenStep ==
  ASSUME TypeOK, ControlInv, Next, NEW m \in SharedMutexes, NEW x \in Lines
  PROVE  \/ read_seen'[m][x] = read_seen[m][x]
         \/ \E t \in Threads : /\ pc[t] \in Releases /\ read_seen'[m][x] = seen[t][x]
                               /\ ReadersRelease
<1>0. /\ read_seen \in [SharedMutexes -> Versions] /\ read_seen[m] \in [Lines -> Nat]
  BY DEF TypeOK, Versions
<1>1. ASSUME NEW t \in Threads, UnlockShared(t)
      PROVE  \/ read_seen'[m][x] = read_seen[m][x]
             \/ pc[t] \in Releases /\ read_seen'[m][x] = seen[t][x] /\ ReadersRelease
  <2>1. /\ pc[t] \in Releases
        /\ \/ read_seen' = read_seen
           \/ /\ ReadersRelease
              /\ read_seen' = [read_seen EXCEPT ![obj[t]] = Merge(read_seen[obj[t]], seen[t])]
    BY <1>1 DEF UnlockShared, Releases
  <2>2. CASE read_seen' = [read_seen EXCEPT ![obj[t]] = Merge(read_seen[obj[t]], seen[t])] /\ obj[t] = m
    <3>1. read_seen'[m] = Merge(read_seen[m], seen[t]) /\ DOMAIN read_seen[m] = Lines
      BY <1>0, <2>2
    <3>2. CASE read_seen' = read_seen
      BY <3>2
    <3>3. QED
      BY <2>1, <3>1, <3>2 DEF Merge
  <2>3. CASE read_seen' = [read_seen EXCEPT ![obj[t]] = Merge(read_seen[obj[t]], seen[t])] /\ obj[t] # m
    BY <1>0, <2>3
  <2>4. QED
    BY <2>1, <2>2, <2>3
<1>2. QED
  BY <1>1, FrameReadSeen

(* So does what an acquire is to see.                                      *)
LEMMA GotStep ==
  ASSUME TypeOK, ControlInv, Next, NEW u \in Threads, NEW x \in Lines
  PROVE  \/ got'[u][x] = got[u][x] \/ got'[u][x] = 0
         \/ \E a \in Locs : got'[u][x] = loc_seen[a][x]
         \/ \E m \in SharedMutexes : got'[u][x] = read_seen[m][x]
         \/ \E t \in Threads : pc[t] \in Releases /\ got'[u][x] = seen[t][x]
<1> DEFINE Goal == \/ got'[u][x] = got[u][x] \/ got'[u][x] = 0
                   \/ \E a \in Locs : got'[u][x] = loc_seen[a][x]
                   \/ \E m \in SharedMutexes : got'[u][x] = read_seen[m][x]
                   \/ \E t \in Threads : pc[t] \in Releases /\ got'[u][x] = seen[t][x]
<1>0. /\ seen \in [Threads -> Versions] /\ got \in [Threads -> Versions]
      /\ loc_seen \in [Locs -> Versions] /\ read_seen \in [SharedMutexes -> Versions]
      /\ \A a \in Locs : loc_seen[a] \in [Lines -> Nat]
      /\ Atomics \subseteq Locs /\ Mutexes \subseteq Locs /\ SharedMutexes \subseteq Locs
      /\ \A c \in DOMAIN ParentOf : c \in Threads
  BY CoherenceAssumption DEF CoherenceAssumption, TypeOK, Versions, Locs, Locks
<1>1. ASSUME NEW t \in Threads, NEW a \in Locs,
             got' = [got EXCEPT ![t] = loc_seen[a]]
      PROVE  Goal
  BY <1>0, <1>1
<1>2. ASSUME NEW t \in Threads, NEW a \in Atomics, AtomicLoad(t, a) PROVE Goal
  BY <1>0, <1>1, <1>2 DEF AtomicLoad, AcquireCopy
<1>3. ASSUME NEW t \in Threads, NEW m \in Locs, Lock(t, m) \/ LockShared(t, m) \/ LockExclusive(t, m)
      PROVE  Goal
  BY <1>0, <1>1, <1>3 DEF Lock, LockShared, LockExclusive, AcquireRef
<1>4. ASSUME NEW t \in Threads, NEW c \in DOMAIN ParentOf, Join(t, c) PROVE Goal
  BY <1>0, <1>4 DEF Join, AcquireRef, Releases
<1>5. ASSUME NEW t \in Threads, FetchAdd(t) PROVE Goal
  <2>1. pc[t] \in Releases /\ pc[t] \in AtomicOps
    BY <1>5 DEF FetchAdd, Releases, AtomicOps
  <2>2. obj[t] \in Locs
    BY <1>0, <2>1 DEF ControlInv, OpInv, ObjInv, ObjOf, Releases, AtomicOps
  <2>3. \/ got' = got
        \/ got' = [got EXCEPT ![t] = Merge(loc_seen[obj[t]], seen[t])]
    BY <1>5 DEF FetchAdd, AcquireCopy
  <2>4. CASE got' = [got EXCEPT ![t] = Merge(loc_seen[obj[t]], seen[t])]
    <3>1. DOMAIN loc_seen[obj[t]] = Lines
      BY <1>0, <2>2
    <3>2. Merge(loc_seen[obj[t]], seen[t])[x] \in {loc_seen[obj[t]][x], seen[t][x]}
      BY <3>1 DEF Merge
    <3>3. QED
      BY <1>0, <2>1, <2>2, <2>4, <3>2
  <2>5. QED
    BY <2>3, <2>4
<1>6. ASSUME NEW t \in Threads, Drain(t) PROVE Goal
  <2>1. obj[t] \in SharedMutexes
    BY <1>6 DEF Drain, ControlInv, OpInv, ObjInv, ObjOf
  <2>2. got' = [got EXCEPT ![t] = Merge(loc_seen[obj[t]], read_seen[obj[t]])]
    BY <1>6 DEF Drain, AcquireRef
  <2>3. DOMAIN loc_seen[obj[t]] = Lines
    BY <1>0, <2>1
  <2>4. Merge(loc_seen[obj[t]], read_seen[obj[t]])[x] \in {loc_seen[obj[t]][x], read_seen[obj[t]][x]}
    BY <2>3 DEF Merge
  <2>5. QED
    BY <1>0, <2>1, <2>2, <2>4
<1>7. ASSUME NEW t \in Threads, Create(t) PROVE Goal
  <2>1. pc[t] \in Releases /\ got' = [got EXCEPT ![obj[t]] = seen[t]]
    BY <1>7 DEF Create, Releases
  <2>2. QED
    BY <1>0, <2>1
<1>8. ASSUME NEW t \in Threads, AcquireDone(t) PROVE Goal
  BY <1>0, <1>8 DEF AcquireDone
<1>9. QED
  BY <1>0, <1>2, <1>3, <1>4, <1>5, <1>6, <1>7, <1>8, FrameGot

-----------------------------------------------------------------------------
(* What one step does to a copy of a line: nothing, a drop, a write, or a  *)
(* write-back.                                                             *)
Dropped(n, x) ==
  /\ cache'[n][x] = mem'[x] /\ x \notin modified'[n]
  /\ mem'[x] = IF x \in modified[n] THEN cache[n][x] ELSE mem[x]
  /\ UNCHANGED <<dirty_cls, pc>>

Written(t, x, v) ==
  /\ mem' = mem /\ cache'[NodeOf[t]][x] = v /\ x \in modified'[NodeOf[t]]
  /\ x \in dirty_cls'[t] /\ pc'[t] # "publish"

WrittenOut(t, x) ==
  /\ cache' = cache /\ x \notin modified'[NodeOf[t]]
  /\ x \in dirty_cls[t] /\ x \in modified[NodeOf[t]] /\ mem'[x] = cache[NodeOf[t]][x]

(* An eviction or a completed invalidation touches one copy.               *)
LEMMA DropEffect ==
  ASSUME TypeOK, NEW n \in Nodes, NEW x \in Lines, Evict(n, x) \/ Invalidated(n, x)
  PROVE  /\ Dropped(n, x)
         /\ \A y \in Lines \ {x} : mem'[y] = mem[y]
         /\ \A i \in Nodes, y \in Lines : <<i, y>> # <<n, x>> =>
              cache'[i][y] = cache[i][y] /\ (y \in modified'[i] <=> y \in modified[i])
<1>0. mem \in [Lines -> Nat] /\ cache \in [Nodes -> [Lines -> Nat]] /\ modified \in [Nodes -> SUBSET Lines]
  BY DEF TypeOK, Versions
<1>1. Drop(n, x) /\ UNCHANGED <<dirty_cls, pc>>
  BY DEF Evict, Invalidated, OtherThanHw, storeVars
<1>2. /\ mem'[x] = IF x \in modified[n] THEN cache[n][x] ELSE mem[x]
      /\ \A y \in Lines \ {x} : mem'[y] = mem[y]
  BY <1>0, <1>1 DEF Drop
<1>3. /\ cache'[n][x] = mem'[x]
      /\ \A i \in Nodes, y \in Lines : <<i, y>> # <<n, x>> => cache'[i][y] = cache[i][y]
  BY <1>0, <1>1 DEF Drop
<1>4. /\ x \notin modified'[n]
      /\ \A i \in Nodes, y \in Lines : <<i, y>> # <<n, x>> => (y \in modified'[i] <=> y \in modified[i])
  BY <1>0, <1>1 DEF Drop
<1>5. QED
  BY <1>1, <1>2, <1>3, <1>4 DEF Dropped

(* So does a write.                                                        *)
LEMMA WriteEffect ==
  ASSUME TypeOK, NEW t \in Threads, NEW x \in Lines, NEW v, WriteLine(t, x, v)
  PROVE  /\ cache'[NodeOf[t]][x] = v /\ x \in modified'[NodeOf[t]]
         /\ \A i \in Nodes, y \in Lines : <<i, y>> # <<NodeOf[t], x>> =>
              cache'[i][y] = cache[i][y] /\ (y \in modified'[i] <=> y \in modified[i])
<1>0. /\ cache \in [Nodes -> [Lines -> Nat]] /\ modified \in [Nodes -> SUBSET Lines]
      /\ NodeOf[t] \in Nodes
  BY CoherenceAssumption DEF CoherenceAssumption, TypeOK, Versions
<1>1. QED
  BY <1>0 DEF WriteLine

(* A store is performed at once, or is pending.                            *)
LEMMA StoreEffect ==
  ASSUME TypeOK, ControlInv, NEW t \in Threads, NEW x \in Lines, Store(t, x)
  PROVE  /\ \A i \in Nodes, y \in Lines : <<i, y>> # <<NodeOf[t], x>> =>
              cache'[i][y] = cache[i][y] /\ (y \in modified'[i] <=> y \in modified[i])
         /\ \/ Written(t, x, latest[x] + 1) /\ op' = op /\ obj' = obj
            \/ /\ StorePending(t, x)' /\ x \notin dirty_cls[t]
               /\ UNCHANGED <<mem, cache, modified, dirty_cls>>
         /\ op[t] = None
<1>0. /\ op \in [Threads -> Operations] /\ obj \in [Threads -> Locs \cup Lines \cup Threads \cup {None}]
      /\ dirty_cls \in [Threads -> SUBSET Lines]
  BY DEF TypeOK
<1>1. pc[t] = "run" /\ op[t] = None /\ mem' = mem
  BY DEF Store, ControlInv, OpInv
<1>2. CASE /\ x = recent_cl[t]
           /\ WriteLine(t, x, latest[x] + 1)
           /\ UNCHANGED <<pc, op, obj, dirty_cls>>
  <2>1. x \in dirty_cls[t]
    BY <1>1, <1>2, CoherenceAssumption DEF ControlInv, TableInv, TableOf, None, CoherenceAssumption
  <2>2. Written(t, x, latest[x] + 1)
    BY <1>1, <1>2, <2>1, WriteEffect DEF Written
  <2>3. QED
    BY <1>1, <1>2, <2>2, WriteEffect
<1>3. CASE /\ dirty_cls' = [dirty_cls EXCEPT ![t] = @ \cup {x}]
           /\ WriteLine(t, x, latest[x] + 1)
           /\ UNCHANGED <<pc, op, obj>>
  <2>1. x \in dirty_cls'[t]
    BY <1>0, <1>3
  <2>2. Written(t, x, latest[x] + 1)
    BY <1>1, <1>3, <2>1, WriteEffect DEF Written
  <2>3. QED
    BY <1>1, <1>3, <2>2, WriteEffect
<1>4. CASE /\ x \notin dirty_cls[t]
           /\ op' = [op EXCEPT ![t] = "insert"]
           /\ obj' = [obj EXCEPT ![t] = x]
           /\ UNCHANGED <<cache, modified, dirty_cls>>
  BY <1>0, <1>1, <1>4 DEF StorePending
<1>5. QED
  BY <1>2, <1>3, <1>4 DEF Store

(* The pending store is performed by Insert.                               *)
LEMMA InsertEffect ==
  ASSUME TypeOK, ControlInv, NEW t \in Threads, Insert(t)
  PROVE  /\ obj[t] \in Lines /\ StorePending(t, obj[t])
         /\ Written(t, obj[t], seen[t][obj[t]])
         /\ \A i \in Nodes, y \in Lines : <<i, y>> # <<NodeOf[t], obj[t]>> =>
              cache'[i][y] = cache[i][y] /\ (y \in modified'[i] <=> y \in modified[i])
         /\ seen' = seen /\ latest' = latest
<1>0. /\ pc \in [Threads -> Labels] /\ dirty_cls \in [Threads -> SUBSET Lines]
  BY DEF TypeOK
<1>1. pc[t] = "insert" /\ op[t] = "insert" /\ obj[t] \in Lines
  BY DEF Insert, ControlInv, OpInv, ObjInv, ObjOf
<1>2. WriteLine(t, obj[t], seen[t][obj[t]]) /\ mem' = mem /\ seen' = seen /\ latest' = latest
  BY DEF Insert, histVars
<1>3. pc'[t] = "run" /\ obj[t] \in dirty_cls'[t]
  BY <1>0 DEF Insert, Goto
<1>4. QED
  BY <1>1, <1>2, <1>3, WriteEffect DEF Written, StorePending

(* A release writes back the recorded lines that are modified.             *)
LEMMA WriteBackEffect ==
  ASSUME TypeOK, NEW t \in Threads, Claim(t)
  PROVE  /\ cache' = cache
         /\ \A x \in WrittenBack(t) : WrittenOut(t, x)
         /\ \A x \in Lines \ WrittenBack(t) : mem'[x] = mem[x]
         /\ \A i \in Nodes, y \in Lines : y \in modified'[i] <=>
              y \in modified[i] /\ ~(i = NodeOf[t] /\ y \in WrittenBack(t))
<1>0. /\ modified \in [Nodes -> SUBSET Lines] /\ NodeOf[t] \in Nodes
      /\ WrittenBack(t) = dirty_cls[t] \cap modified[NodeOf[t]] /\ WrittenBack(t) \subseteq Lines
  BY CoherenceAssumption DEF CoherenceAssumption, TypeOK, WrittenBack
<1>1. /\ mem' = [x \in Lines |-> IF x \in WrittenBack(t) THEN cache[NodeOf[t]][x] ELSE mem[x]]
      /\ modified' = [modified EXCEPT ![NodeOf[t]] = @ \ WrittenBack(t)]
      /\ cache' = cache
  BY DEF Claim
<1>2. QED
  BY <1>0, <1>1 DEF WrittenOut

(* The copy of line x at node n, from one of the steps above.              *)
LEMMA CopyStep ==
  ASSUME TypeOK, ControlInv, Next, NEW n \in Nodes, NEW x \in Lines
  PROVE  \/ cache'[n][x] = cache[n][x] /\ (x \in modified'[n] <=> x \in modified[n])
         \/ (Evict(n, x) \/ Invalidated(n, x)) /\ Dropped(n, x)
         \/ \E t \in Threads : NodeOf[t] = n /\ Store(t, x) /\ Written(t, x, latest[x] + 1)
         \/ \E t \in Threads : NodeOf[t] = n /\ Insert(t) /\ obj[t] = x /\ Written(t, x, seen[t][x])
         \/ \E t \in Threads : NodeOf[t] = n /\ Claim(t) /\ WrittenOut(t, x)
<1> DEFINE Goal ==
         \/ cache'[n][x] = cache[n][x] /\ (x \in modified'[n] <=> x \in modified[n])
         \/ (Evict(n, x) \/ Invalidated(n, x)) /\ Dropped(n, x)
         \/ \E t \in Threads : NodeOf[t] = n /\ Store(t, x) /\ Written(t, x, latest[x] + 1)
         \/ \E t \in Threads : NodeOf[t] = n /\ Insert(t) /\ obj[t] = x /\ Written(t, x, seen[t][x])
         \/ \E t \in Threads : NodeOf[t] = n /\ Claim(t) /\ WrittenOut(t, x)
<1>1. CASE UNCHANGED <<mem, cache, modified>>
  BY <1>1
<1>2. ASSUME NEW t \in Threads, NEW y \in Lines, Store(t, y) PROVE Goal
  <2>1. CASE <<n, x>> = <<NodeOf[t], y>>
    <3>1. x = y /\ n = NodeOf[t]
      BY <2>1
    <3>2. Written(t, x, latest[x] + 1) \/ UNCHANGED <<mem, cache, modified, dirty_cls>>
      BY <1>2, <3>1, StoreEffect
    <3>3. CASE Written(t, x, latest[x] + 1)
      <4>1. NodeOf[t] = n /\ Store(t, x) /\ Written(t, x, latest[x] + 1)
        BY <1>2, <3>1, <3>3
      <4>2. QED
        BY <4>1
    <3>4. QED
      BY <3>2, <3>3
  <2>2. CASE <<n, x>> # <<NodeOf[t], y>>
    BY <1>2, <2>2, StoreEffect
  <2>3. QED
    BY <2>1, <2>2
<1>3. ASSUME NEW t \in Threads, Insert(t) PROVE Goal
  <2>1. CASE <<n, x>> = <<NodeOf[t], obj[t]>>
    <3>1. x = obj[t] /\ n = NodeOf[t]
      BY <2>1
    <3>2. NodeOf[t] = n /\ Insert(t) /\ obj[t] = x /\ Written(t, x, seen[t][x])
      BY <1>3, <3>1, InsertEffect
    <3>3. QED
      BY <3>2
  <2>2. CASE <<n, x>> # <<NodeOf[t], obj[t]>>
    BY <1>3, <2>2, InsertEffect
  <2>3. QED
    BY <2>1, <2>2
<1>4. ASSUME NEW t \in Threads, Claim(t) PROVE Goal
  <2>1. CASE n = NodeOf[t] /\ x \in WrittenBack(t)
    <3>1. NodeOf[t] = n /\ Claim(t) /\ WrittenOut(t, x)
      BY <1>4, <2>1, WriteBackEffect
    <3>2. QED
      BY <3>1
  <2>2. CASE ~(n = NodeOf[t] /\ x \in WrittenBack(t))
    BY <1>4, <2>2, WriteBackEffect
  <2>3. QED
    BY <2>1, <2>2
<1>5. ASSUME NEW i \in Nodes, NEW y \in Lines, Evict(i, y) \/ Invalidated(i, y) PROVE Goal
  <2>1. CASE <<n, x>> = <<i, y>>
    BY <1>5, <2>1, DropEffect
  <2>2. CASE <<n, x>> # <<i, y>>
    BY <1>5, <2>2, DropEffect
  <2>3. QED
    BY <2>1, <2>2
<1>6. QED
  BY <1>1, <1>2, <1>3, <1>4, <1>5, FrameHardware

(* Memory changes only to the copy of a node that has it modified.         *)
LEMMA MemStep ==
  ASSUME TypeOK, ControlInv, Next, NEW x \in Lines
  PROVE  \/ mem'[x] = mem[x]
         \/ \E n \in Nodes : x \in modified[n] /\ mem'[x] = cache[n][x]
<1> DEFINE Goal == mem'[x] = mem[x] \/ \E n \in Nodes : x \in modified[n] /\ mem'[x] = cache[n][x]
<1>1. ASSUME NEW t \in Threads, NEW y \in Lines, Store(t, y) PROVE Goal
  BY <1>1 DEF Store
<1>2. ASSUME NEW t \in Threads, Insert(t) PROVE Goal
  BY <1>2 DEF Insert
<1>3. ASSUME NEW t \in Threads, Claim(t) PROVE Goal
  <2>1. NodeOf[t] \in Nodes
    BY CoherenceAssumption DEF CoherenceAssumption
  <2>2. QED
    BY <1>3, <2>1, WriteBackEffect DEF WrittenOut
<1>4. ASSUME NEW i \in Nodes, NEW y \in Lines, Evict(i, y) \/ Invalidated(i, y) PROVE Goal
  BY <1>4, DropEffect DEF Dropped
<1>5. QED
  BY <1>1, <1>2, <1>3, <1>4, FrameHardware

(* A line in memory only gets newer.                                       *)
LEMMA MemoryGrows ==
  ASSUME TypeOK, ControlInv, BoundInv, ModifiedInv, Next, NEW x \in Lines
  PROVE  mem'[x] >= mem[x] /\ mem'[x] \in Nat /\ mem'[x] <= latest[x]
<1>1. mem[x] \in Nat /\ latest[x] \in Nat /\ mem[x] <= latest[x]
  BY Numbers DEF BoundInv
<1>2. ASSUME NEW n \in Nodes, x \in modified[n], mem'[x] = cache[n][x]
      PROVE  mem'[x] = latest[x]
  BY <1>2 DEF ModifiedInv
<1>3. QED
  BY <1>1, <1>2, MemStep

-----------------------------------------------------------------------------
(* Versions.                                                               *)

(* Nothing is ahead of the stores.                                         *)
LEMMA BoundInvStep ==
  ASSUME TypeOK, TypeOK', ControlInv, VersionInv, Next
  PROVE  BoundInv'
<1> USE DEF VersionInv
<1> SUFFICES ASSUME NEW x \in Lines
             PROVE  /\ mem'[x] <= latest'[x]
                    /\ \A n \in Nodes : cache'[n][x] <= latest'[x]
                    /\ \A t \in Threads : seen'[t][x] <= latest'[x]
  BY DEF BoundInv
<1>1. /\ mem[x] \in Nat /\ latest[x] \in Nat /\ latest'[x] \in Nat
      /\ \A n \in Nodes : cache[n][x] \in Nat
      /\ \A t \in Threads : seen[t][x] \in Nat /\ got[t][x] \in Nat
  BY Numbers, LatestStep
<1>2. latest'[x] >= latest[x]
  BY <1>1, LatestStep
<1>3. mem'[x] <= latest'[x]
  <2>1. mem'[x] \in Nat /\ mem'[x] <= latest[x]
    BY MemoryGrows
  <2>2. QED
    BY <1>1, <1>2, <2>1
<1>4. ASSUME NEW n \in Nodes PROVE cache'[n][x] <= latest'[x]
  <2>0. cache[n][x] <= latest[x] /\ cache[n][x] \in Nat
    BY <1>1 DEF BoundInv
  <2>1. CASE cache'[n][x] = cache[n][x]
    BY <1>1, <1>2, <2>0, <2>1
  <2>2. CASE Dropped(n, x)
    BY <1>3, <2>2 DEF Dropped
  <2>3. ASSUME NEW t \in Threads, NodeOf[t] = n, Store(t, x), Written(t, x, latest[x] + 1)
        PROVE  cache'[n][x] <= latest'[x]
    BY <1>1, <2>3, StoreCounts DEF Written
  <2>4. ASSUME NEW t \in Threads, NodeOf[t] = n, Insert(t), obj[t] = x, Written(t, x, seen[t][x])
        PROVE  cache'[n][x] <= latest'[x]
    <3>1. cache'[n][x] = seen[t][x] /\ seen[t][x] <= latest[x]
      BY <2>4 DEF Written, BoundInv
    <3>2. QED
      BY <1>1, <1>2, <3>1
  <2>5. ASSUME NEW t \in Threads, NodeOf[t] = n, WrittenOut(t, x) PROVE cache'[n][x] = cache[n][x]
    BY <2>5 DEF WrittenOut
  <2>6. QED
    BY <2>1, <2>2, <2>3, <2>4, <2>5, CopyStep
<1>5. ASSUME NEW t \in Threads PROVE seen'[t][x] <= latest'[x]
  <2>1. seen[t][x] <= latest[x]
    BY DEF BoundInv
  <2>2. got[t][x] <= latest[x]
    BY <1>1 DEF BoundInv, MemoryInv
  <2>3. CASE Store(t, x)
    BY <1>1, <2>3, StoreCounts
  <2>4. OpInv
    BY DEF ControlInv
  <2>5. QED
    BY <1>1, <1>2, <2>1, <2>2, <2>3, <2>4, SeenStep
<1>6. QED
  BY <1>3, <1>4, <1>5

(* Nobody else stores to a private line.                                   *)
LEMMA PrivateAlone ==
  ASSUME TypeOK, PrivateInv, NEW t \in Threads, NEW x \in Lines, Private(t, x)
  PROVE  /\ \A u \in Threads : Store(u, x) => u = t
         /\ \A u \in Threads : Private(u, x) => u = t
<1>1. latest[x] \in Nat /\ \A u \in Threads : seen[u][x] \in Nat
  BY Numbers
<1>2. ASSUME NEW u \in Threads, u # t PROVE seen[u][x] < latest[x]
  BY <1>2 DEF PrivateInv
<1>3. ASSUME NEW u \in Threads, Store(u, x) PROVE u = t
  <2>1. seen[u][x] = latest[x]
    BY <1>3, StoreCounts
  <2>2. QED
    BY <1>1, <1>2, <2>1
<1>4. ASSUME NEW u \in Threads, Private(u, x) PROVE u = t
  <2>1. seen[u][x] = latest[x]
    BY <1>4 DEF PrivateInv
  <2>2. QED
    BY <1>1, <1>2, <2>1
<1>5. QED
  BY <1>3, <1>4

(* An unpublished store is known to its thread alone.                      *)
LEMMA PrivateInvStep ==
  ASSUME TypeOK, TypeOK', ControlInv, VersionInv, Next
  PROVE  PrivateInv'
<1> USE DEF VersionInv
<1> SUFFICES ASSUME NEW t \in Threads, NEW x \in Lines, Private(t, x)'
             PROVE  /\ seen'[t][x] = latest'[x] /\ latest'[x] > 0
                    /\ \A u \in Threads \ {t} : seen'[u][x] < latest'[x]
                    /\ \A u \in Threads : got'[u][x] < latest'[x]
                    /\ \A a \in Locs : loc_seen'[a][x] < latest'[x]
                    /\ \A m \in SharedMutexes : read_seen'[m][x] < latest'[x]
  BY DEF PrivateInv
<1>0. OpInv
  BY DEF ControlInv
<1>1. /\ mem[x] \in Nat /\ latest[x] \in Nat
      /\ \A u \in Threads : seen[u][x] \in Nat /\ got[u][x] \in Nat
      /\ \A a \in Locs : loc_seen[a][x] \in Nat
      /\ \A m \in SharedMutexes : read_seen[m][x] \in Nat
  BY Numbers
<1>2. CASE Store(t, x)
  <2>1. /\ latest'[x] = latest[x] + 1 /\ seen'[t][x] = latest[x] + 1
        /\ \A u \in Threads \ {t} : seen'[u] = seen[u]
        /\ got' = got /\ loc_seen' = loc_seen /\ read_seen' = read_seen
    BY <1>2, StoreCounts
  <2>2. /\ \A u \in Threads : seen[u][x] <= latest[x] /\ got[u][x] <= mem[x]
        /\ \A a \in Locs : loc_seen[a][x] <= mem[x]
        /\ \A m \in SharedMutexes : read_seen[m][x] <= mem[x]
        /\ mem[x] <= latest[x]
    BY DEF BoundInv, MemoryInv
  <2>3. QED
    BY <1>1, <2>1, <2>2
<1>3. CASE ~Store(t, x)
  <2>1. Private(t, x)
    BY <1>3, PrivateStarts
  <2>2. latest'[x] = latest[x]
    BY <1>3, <2>1, LatestStep, PrivateAlone
  <2>3. /\ seen[t][x] = latest[x] /\ latest[x] > 0
        /\ \A u \in Threads \ {t} : seen[u][x] < latest[x]
        /\ \A u \in Threads : got[u][x] < latest[x]
        /\ \A a \in Locs : loc_seen[a][x] < latest[x]
        /\ \A m \in SharedMutexes : read_seen[m][x] < latest[x]
    BY <2>1 DEF PrivateInv
  <2>4. ASSUME NEW u \in Threads, pc[u] \in Releases PROVE seen[u][x] < latest[x]
    <3>1. ~Private(u, x)
      BY <2>4, Released
    <3>2. QED
      BY <2>1, <2>3, <3>1
  <2>5. seen'[t][x] = latest[x]
    <3>1. got[t][x] < seen[t][x]
      BY <2>3
    <3>2. QED
      BY <1>0, <1>1, <1>3, <2>3, <3>1, SeenStep
  <2>6. ASSUME NEW u \in Threads \ {t} PROVE seen'[u][x] < latest[x]
    <3>1. ~Store(u, x)
      BY <2>1, PrivateAlone
    <3>2. QED
      BY <1>0, <2>3, <3>1, SeenStep
  <2>7. ASSUME NEW a \in Locs PROVE loc_seen'[a][x] < latest[x]
    BY <2>3, <2>4, LocSeenStep
  <2>8. ASSUME NEW u \in Threads PROVE got'[u][x] < latest[x]
    BY <2>3, <2>4, GotStep
  <2>9. ASSUME NEW m \in SharedMutexes PROVE read_seen'[m][x] < latest[x]
    BY <2>3, <2>4, ReadSeenStep
  <2>10. QED
    BY <2>2, <2>3, <2>5, <2>6, <2>7, <2>8, <2>9
<1>4. QED
  BY <1>2, <1>3

(* A thread that has a line recorded keeps it until it publishes it.       *)
LEMMA RecordedStays ==
  ASSUME TypeOK, OpInv, ObjInv, Next, NEW u \in Threads, NEW x \in Lines,
         x \in dirty_cls[u], pc[u] # "publish", ~Claim(u)
  PROVE  x \in dirty_cls'[u] /\ pc'[u] # "publish"
<1>0. dirty_cls \in [Threads -> SUBSET Lines] /\ pc \in [Threads -> Labels]
  BY DEF TypeOK
<1>1. x \in dirty_cls'[u]
  <2>1. ASSUME NEW t \in Threads, NEW y \in Lines, Store(t, y) PROVE x \in dirty_cls'[u]
    BY <1>0, <2>1 DEF Store
  <2>2. ASSUME NEW t \in Threads, Insert(t) PROVE x \in dirty_cls'[u]
    BY <1>0, <2>2 DEF Insert
  <2>3. ASSUME NEW t \in Threads, Publish(t) PROVE x \in dirty_cls'[u]
    BY <1>0, <2>3 DEF Publish
  <2>4. QED
    BY <2>1, <2>2, <2>3, FrameTable
<1>2. pc'[u] # "publish"
  <2>1. CASE Keeps(u)
    BY <2>1 DEF Keeps
  <2>2. CASE ThreadStarts(u) \/ ThreadContinues(u)
    BY <2>2, Reaches
  <2>3. ASSUME NEW t \in Threads, u # t, Create(t), u = obj[t] PROVE pc'[u] # "publish"
    BY <1>0, <2>3 DEF Create
  <2>4. ASSUME NEW t \in Threads, u # t, Join(t, u) PROVE pc'[u] # "publish"
    BY <1>0, <2>4 DEF Join
  <2>5. QED
    BY <2>1, <2>2, <2>3, <2>4, ThreadMoves
<1>3. QED
  BY <1>1, <1>2

(* A modified copy is the latest version, and its writer has it recorded.  *)
LEMMA ModifiedInvStep ==
  ASSUME TypeOK, ControlInv, VersionInv, Next
  PROVE  ModifiedInv'
<1> USE DEF VersionInv
<1> SUFFICES ASSUME NEW n \in Nodes, NEW x \in Lines, x \in modified'[n]
             PROVE  /\ cache'[n][x] = latest'[x]
                    /\ \E t \in Threads : NodeOf[t] = n /\ x \in dirty_cls'[t] /\ pc'[t] # "publish"
  BY DEF ModifiedInv
<1>0. OpInv /\ ObjInv
  BY DEF ControlInv
<1>1. CASE cache'[n][x] = cache[n][x] /\ (x \in modified'[n] <=> x \in modified[n])
  <2>1. PICK u \in Threads : NodeOf[u] = n /\ x \in dirty_cls[u] /\ pc[u] # "publish"
    BY <1>1 DEF ModifiedInv
  <2>2. Private(u, x) /\ cache[n][x] = latest[x] /\ x \in modified[n]
    BY <1>1, <2>1 DEF Private, ModifiedInv
  <2>3. CASE Store(u, x)
    <3>1. Written(u, x, latest[x] + 1)
      BY <2>1, <2>3, StoreEffect
    <3>2. QED
      BY <2>1, <2>3, <3>1, StoreCounts DEF Written
  <2>4. CASE ~Store(u, x)
    <3>1. latest'[x] = latest[x]
      BY <2>2, <2>4, LatestStep, PrivateAlone
    <3>2. ~Claim(u)
      BY <1>1, <2>1, <2>2, WriteBackEffect DEF WrittenBack
    <3>3. x \in dirty_cls'[u] /\ pc'[u] # "publish"
      BY <1>0, <2>1, <3>2, RecordedStays
    <3>4. QED
      BY <1>1, <2>1, <2>2, <3>1, <3>3
  <2>5. QED
    BY <2>3, <2>4
<1>2. CASE Dropped(n, x)
  BY <1>2 DEF Dropped
<1>3. ASSUME NEW t \in Threads, NodeOf[t] = n, Store(t, x), Written(t, x, latest[x] + 1)
      PROVE  cache'[n][x] = latest'[x] /\ x \in dirty_cls'[t] /\ pc'[t] # "publish"
  BY <1>3, StoreCounts DEF Written
<1>4. ASSUME NEW t \in Threads, NodeOf[t] = n, Insert(t), obj[t] = x, Written(t, x, seen[t][x])
      PROVE  cache'[n][x] = latest'[x] /\ x \in dirty_cls'[t] /\ pc'[t] # "publish"
  <2>1. Private(t, x) /\ latest' = latest
    BY <1>4, InsertEffect DEF Private
  <2>2. seen[t][x] = latest[x]
    BY <2>1 DEF PrivateInv
  <2>3. QED
    BY <1>4, <2>1, <2>2 DEF Written
<1>5. ASSUME NEW t \in Threads, NodeOf[t] = n, WrittenOut(t, x) PROVE FALSE
  BY <1>5 DEF WrittenOut
<1>6. QED
  BY <1>1, <1>2, <1>3, <1>4, <1>5, CopyStep

(* A pending store is performed by the second insert of log_store.         *)
LEMMA PendingEnds ==
  ASSUME TypeOK, OpInv, ObjInv, Next, NEW u \in Threads, NEW x \in Lines, StorePending(u, x)
  PROVE  StorePending(u, x)' \/ (Insert(u) /\ obj[u] = x)
<1>0. op[u] = "insert" /\ obj[u] = x /\ pc \in [Threads -> Labels]
  BY DEF StorePending, TypeOK
<1>1. pc[u] \in {"claim", "publish", "insert"}
  BY <1>0 DEF OpInv, Labels, Acquiring, Releases, AtomicOps, None
<1>2. CASE Keeps(u)
  BY <1>2 DEF Keeps, StorePending
<1>3. ASSUME ThreadStarts(u) PROVE FALSE
  BY <1>1, <1>3, StartCases DEF Store, CheckDirty, ThreadRelease, AtomicLoad, Lock, LockShared,
    LockExclusive, Join
<1>4. CASE ThreadContinues(u)
  <2>1. Insert(u) \/ Claim(u) \/ Publish(u)
    BY <1>1, <1>4 DEF ThreadContinues, CheckClear, AtomicStore, FetchAdd, Unlock, Create, Upgrade,
      TakeWlock, Drain, UnlockShared, CopyClock, AcquireReady, AcquireBehind, HelpTryLock,
      HelpConsume, HelpUpdate, HelpUnlock, AcquireDone
  <2>2. QED
    BY <1>0, <2>1 DEF Claim, Publish, StorePending
<1>5. ASSUME NEW t \in Threads, u # t, Create(t), u = obj[t] PROVE FALSE
  BY <1>1, <1>5 DEF Create, OpInv, ObjInv, ObjOf, Releases
<1>6. ASSUME NEW t \in Threads, u # t, Join(t, u) PROVE FALSE
  BY <1>1, <1>6 DEF Join
<1>7. QED
  BY <1>2, <1>3, <1>4, <1>5, <1>6, ThreadMoves

(* What a thread knows of a line changes with a store and an acquire.      *)
LEMMA KnownStep ==
  ASSUME TypeOK, ControlInv, BoundInv, Next, NEW u \in Threads, NEW x \in Lines
  PROVE  \/ Known(u, x)' = Known(u, x)
         \/ Known(u, x)' = got[u][x] /\ AcquireDone(u)
         \/ /\ Known(u, x)' = seen'[u][x]
            /\ \/ Store(u, x) /\ Written(u, x, latest[x] + 1)
               \/ Insert(u) /\ obj[u] = x /\ Written(u, x, seen[u][x])
<1>0. OpInv /\ ObjInv /\ seen[u][x] \in Nat /\ latest[x] \in Nat
  BY Numbers DEF ControlInv
<1>1. CASE Store(u, x)
  <2>1. /\ op[u] = None /\ seen[u][x] = latest[x] /\ seen'[u][x] = latest[x] + 1
    BY <1>1, StoreCounts, StoreEffect
  <2>2. Known(u, x) = latest[x]
    BY <2>1 DEF Known, StorePending, None
  <2>3. CASE Written(u, x, latest[x] + 1) /\ op' = op /\ obj' = obj
    <3>1. Known(u, x)' = seen'[u][x]
      BY <2>1, <2>3 DEF Known, StorePending, None
    <3>2. QED
      BY <1>1, <2>3, <3>1
  <2>4. CASE StorePending(u, x)'
    <3>1. Known(u, x)' = seen'[u][x] - 1
      BY <2>4 DEF Known
    <3>2. QED
      BY <1>0, <2>1, <2>2, <3>1
  <2>5. QED
    BY <1>1, <2>3, <2>4, StoreEffect
<1>2. CASE Insert(u) /\ obj[u] = x
  <2>1. op'[u] # "insert"
    BY <1>2 DEF Insert, TypeOK, None
  <2>2. Known(u, x)' = seen'[u][x]
    BY <2>1 DEF Known, StorePending
  <2>3. QED
    BY <1>2, <2>2, InsertEffect
<1>3. CASE AcquireDone(u)
  <2>1. ~StorePending(u, x) /\ ~StorePending(u, x)'
    BY <1>0, <1>3, DoneEffect DEF StorePending, None
  <2>2. seen'[u][x] = seen[u][x] \/ seen'[u][x] = got[u][x]
    BY <1>0, <1>3, DoneEffect
  <2>3. Known(u, x)' = seen'[u][x] /\ Known(u, x) = seen[u][x]
    BY <2>1 DEF Known
  <2>4. QED
    BY <1>3, <2>2, <2>3
<1>4. CASE ~Store(u, x) /\ ~(Insert(u) /\ obj[u] = x) /\ ~AcquireDone(u)
  <2>1. seen'[u][x] = seen[u][x]
    BY <1>0, <1>4, SeenStep
  <2>2. StorePending(u, x)' <=> StorePending(u, x)
    BY <1>0, <1>4, PendingStarts, PendingEnds
  <2>3. QED
    BY <2>1, <2>2 DEF Known
<1>5. QED
  BY <1>1, <1>2, <1>3, <1>4

(* Whatever is known to others is in memory.                               *)
LEMMA MemoryInvStep ==
  ASSUME TypeOK, TypeOK', ControlInv, VersionInv, Next
  PROVE  MemoryInv'
<1> USE DEF VersionInv
<1> SUFFICES ASSUME NEW x \in Lines
             PROVE  /\ \A t \in Threads :
                         /\ got'[t][x] <= mem'[x]
                         /\ \/ Known(t, x)' <= mem'[x]
                            \/ x \in dirty_cls'[t] /\ x \in modified'[NodeOf[t]]
                    /\ \A a \in Locs : loc_seen'[a][x] <= mem'[x]
                    /\ \A m \in SharedMutexes : read_seen'[m][x] <= mem'[x]
  BY DEF MemoryInv
<1>0. OpInv /\ ObjInv
  BY DEF ControlInv
<1>1. /\ mem[x] \in Nat /\ latest[x] \in Nat /\ mem'[x] \in Nat
      /\ \A u \in Threads : seen[u][x] \in Nat /\ got[u][x] \in Nat /\ Known(u, x) \in Int
      /\ \A a \in Locs : loc_seen[a][x] \in Nat
      /\ \A m \in SharedMutexes : read_seen[m][x] \in Nat
      /\ dirty_cls \in [Threads -> SUBSET Lines]
  <2>1. mem'[x] \in Nat
    BY MemoryGrows
  <2>2. /\ mem[x] \in Nat /\ latest[x] \in Nat /\ \A a \in Locs : loc_seen[a][x] \in Nat
        /\ \A m \in SharedMutexes : read_seen[m][x] \in Nat
        /\ \A u \in Threads : seen[u][x] \in Nat /\ got[u][x] \in Nat
    BY Numbers
  <2>3. \A u \in Threads : Known(u, x) \in Int
    BY <2>2 DEF Known
  <2>4. dirty_cls \in [Threads -> SUBSET Lines]
    BY DEF TypeOK
  <2>5. QED
    BY <2>1, <2>2, <2>3, <2>4
<1>2. mem'[x] >= mem[x]
  BY MemoryGrows
<1>3. ASSUME NEW t \in Threads, pc[t] \in Releases PROVE seen[t][x] <= mem'[x]
  <2>1. dirty_cls[t] = {} /\ Known(t, x) = seen[t][x]
    BY <1>3, Released
  <2>2. seen[t][x] <= mem[x]
    BY <2>1 DEF MemoryInv
  <2>3. QED
    BY <1>1, <1>2, <2>2
<1>4. ASSUME NEW a \in Locs PROVE loc_seen'[a][x] <= mem'[x]
  <2>1. loc_seen[a][x] <= mem[x]
    BY DEF MemoryInv
  <2>2. QED
    BY <1>1, <1>2, <1>3, <2>1, LocSeenStep
<1>5. ASSUME NEW t \in Threads PROVE got'[t][x] <= mem'[x]
  <2>1. /\ got[t][x] <= mem'[x] /\ \A a \in Locs : loc_seen[a][x] <= mem'[x]
        /\ \A m \in SharedMutexes : read_seen[m][x] <= mem'[x]
    BY <1>1, <1>2 DEF MemoryInv
  <2>2. QED
    BY <1>1, <1>3, <2>1, GotStep
<1>6. ASSUME NEW t \in Threads, Known(t, x)' = Known(t, x)
      PROVE  \/ Known(t, x)' <= mem'[x]
             \/ x \in dirty_cls'[t] /\ x \in modified'[NodeOf[t]]
  <2>0. NodeOf[t] \in Nodes
    BY CoherenceAssumption DEF CoherenceAssumption
  <2>1. CASE Known(t, x) <= mem[x]
    BY <1>1, <1>2, <1>6, <2>1
  <2>2. CASE x \in dirty_cls[t] /\ x \in modified[NodeOf[t]]
    <3>1. Private(t, x)
      BY <2>2 DEF Private
    <3>2. cache[NodeOf[t]][x] = latest[x] /\ Known(t, x) <= latest[x]
      BY <1>1, <2>0, <2>2 DEF ModifiedInv, BoundInv, Known
    <3>3. pc[t] # "publish"
      BY <2>0, <2>2, <3>1, PrivateAlone DEF ModifiedInv, Private
    <3>4. CASE Claim(t)
      <4>1. WrittenOut(t, x)
        BY <2>2, <3>4, WriteBackEffect DEF WrittenBack
      <4>2. QED
        BY <1>6, <3>2, <4>1 DEF WrittenOut
    <3>5. CASE ~Claim(t)
      <4>1. x \in dirty_cls'[t]
        BY <1>0, <2>2, <3>3, <3>5, RecordedStays
      <4>2. CASE x \in modified'[NodeOf[t]]
        BY <4>1, <4>2
      <4>3. CASE x \notin modified'[NodeOf[t]]
        <5>1. \/ Dropped(NodeOf[t], x)
              \/ \E u \in Threads : NodeOf[u] = NodeOf[t] /\ WrittenOut(u, x)
          BY <2>0, <2>2, <4>3, CopyStep DEF Written
        <5>2. mem'[x] = cache[NodeOf[t]][x]
          BY <2>2, <5>1 DEF Dropped, WrittenOut
        <5>3. QED
          BY <1>6, <3>2, <5>2
      <4>4. QED
        BY <4>2, <4>3
    <3>6. QED
      BY <3>4, <3>5
  <2>3. QED
    BY <2>1, <2>2 DEF MemoryInv
<1>7. ASSUME NEW t \in Threads
      PROVE  \/ Known(t, x)' <= mem'[x]
             \/ x \in dirty_cls'[t] /\ x \in modified'[NodeOf[t]]
  <2>1. CASE Known(t, x)' = got[t][x]
    BY <1>1, <1>2, <2>1 DEF MemoryInv
  <2>2. CASE Written(t, x, latest[x] + 1) \/ Written(t, x, seen[t][x])
    BY <2>2 DEF Written
  <2>3. QED
    BY <1>6, <2>1, <2>2, KnownStep
<1>8. ASSUME NEW m \in SharedMutexes PROVE read_seen'[m][x] <= mem'[x]
  <2>1. read_seen[m][x] <= mem[x]
    BY DEF MemoryInv
  <2>2. QED
    BY <1>1, <1>2, <1>3, <2>1, ReadSeenStep
<1>9. QED
  BY <1>4, <1>5, <1>7, <1>8

(* Who unmarks a line has no rival, and has fetched it or is about to.     *)
LEMMA CheckInvStep ==
  ASSUME TypeOK, TypeOK', ControlInv, VersionInv, Next
  PROVE  CheckInv'
<1> USE DEF VersionInv
<1> SUFFICES ASSUME NEW t \in Threads, pc'[t] = "check"
             PROVE  /\ seen'[t][obj'[t]] = latest'[obj'[t]]
                    /\ \A u \in Threads : ~StorePending(u, obj[t])'
                    /\ \/ obj'[t] \in flushing'[NodeOf[t]]
                       \/ cache'[NodeOf[t]][obj'[t]] = latest'[obj'[t]]
  BY DEF CheckInv
<1>0. /\ OpInv /\ ObjInv /\ NodeOf[t] \in Nodes
      /\ pc \in [Threads -> Labels] /\ op \in [Threads -> Operations]
      /\ obj \in [Threads -> Locs \cup Lines \cup Threads \cup {None}]
      /\ flushing \in [Nodes -> SUBSET Lines]
  BY CoherenceAssumption DEF CoherenceAssumption, ControlInv, TypeOK
<1>1. ASSUME NEW x \in Lines, CheckDirty(t, x)
      PROVE  /\ obj'[t] = x /\ seen'[t][x] = latest'[x]
             /\ \A u \in Threads : ~(op'[u] = "insert" /\ obj'[u] = x)
             /\ x \in flushing'[NodeOf[t]]
  <2>1. /\ seen[t][x] = latest[x] /\ seen' = seen /\ latest' = latest
        /\ obj' = [obj EXCEPT ![t] = x] /\ op' = op /\ pc[t] = "run"
        /\ flushing' = [flushing EXCEPT ![NodeOf[t]] = @ \cup {x}]
    BY <1>1 DEF CheckDirty, histVars
  <2>2. obj'[t] = x /\ x \in flushing'[NodeOf[t]]
    BY <1>0, <2>1
  <2>3. ASSUME NEW u \in Threads PROVE ~(op'[u] = "insert" /\ obj'[u] = x)
    <3>1. CASE u = t
      BY <1>0, <2>1, <3>1 DEF OpInv, None
    <3>2. CASE u # t
      <4>1. ~Private(u, x)
        <5>1. seen[t][x] \in Nat /\ latest[x] \in Nat
          BY Numbers
        <5>2. QED
          BY <2>1, <3>2, <5>1 DEF PrivateInv
      <4>2. QED
        BY <1>0, <2>1, <3>2, <4>1 DEF Private, StorePending
    <3>3. QED
      BY <3>1, <3>2
  <2>4. QED
    BY <2>1, <2>2, <2>3
<1>2. CASE ~\E x \in Lines : CheckDirty(t, x)
  <2>1. pc[t] = "check" /\ obj'[t] = obj[t]
    <3>1. CASE Keeps(t)
      BY <3>1 DEF Keeps
    <3>2. ASSUME ThreadStarts(t) PROVE FALSE
      BY <1>0, <1>2, <3>2, StartCases DEF Store, ThreadRelease, AtomicLoad, AcquireCopy, Lock,
        LockShared, LockExclusive, Join, Goto, Releases, AtomicOps
    <3>3. ASSUME ThreadContinues(t) PROVE FALSE
      <4>1. ASSUME Insert(t) \/ Claim(t) \/ CheckClear(t) \/ AtomicStore(t) \/ FetchAdd(t)
                   \/ Unlock(t) \/ Create(t) \/ Upgrade(t) \/ TakeWlock(t) \/ Drain(t) \/ UnlockShared(t)
            PROVE  pc'[t] # "check"
        BY <1>0, <4>1 DEF Insert, Claim, CheckClear, AtomicStore, FetchAdd, Unlock, Create, Upgrade,
          TakeWlock, Drain, UnlockShared, EndOp, AcquireCopy, Goto
      <4>2. ASSUME Publish(t) \/ AcquireDone(t) PROVE pc'[t] # "check"
        <5>1. pc'[t] \in {op[t], "run"} /\ op[t] \in Operations
          BY <1>0, <4>2 DEF Publish, AcquireDone, Goto
        <5>2. QED
          BY <5>1 DEF Operations, None
      <4>3. ASSUME (\E i \in Nodes : CopyClock(t, i) \/ AcquireReady(t, i) \/ AcquireBehind(t, i))
                   \/ HelpTryLock(t) \/ HelpConsume(t) \/ HelpUpdate(t) \/ HelpUnlock(t)
            PROVE  pc'[t] # "check"
        BY <1>0, <4>3 DEF CopyClock, AcquireReady, AcquireBehind, HelpTryLock, HelpConsume,
          HelpUpdate, HelpUnlock, Goto, OtherThanSync
      <4>4. QED
        BY <3>3, <4>1, <4>2, <4>3 DEF ThreadContinues
    <3>4. ASSUME NEW u \in Threads, t # u, Create(u), t = obj[u] PROVE FALSE
      BY <1>0, <3>4 DEF Create
    <3>5. ASSUME NEW u \in Threads, t # u, Join(u, t) PROVE FALSE
      BY <1>0, <3>5 DEF Join
    <3>6. QED
      BY <1>0, <3>1, <3>2, <3>3, <3>4, <3>5, ThreadMoves
  <2> DEFINE n == NodeOf[t]
  <2>a. PICK x \in Lines : x = obj[t]
    BY <1>0, <2>1 DEF ObjInv, ObjOf
  <2>2. /\ x \in Lines /\ op[t] = None /\ seen[t][x] = latest[x]
        /\ \A u \in Threads : ~StorePending(u, x)
        /\ x \in flushing[n] \/ cache[n][x] = latest[x]
    BY <1>0, <2>1, <2>a DEF OpInv, CheckInv
  <2> HIDE DEF n
  <2>3. \A u \in Threads : ~Store(u, x)
    BY <2>1, <2>2, <2>a, StoreCounts
  <2>4. latest'[x] = latest[x]
    BY <2>2, <2>3, LatestStep
  <2>5. seen'[t][x] = seen[t][x]
    <3>1. ~AcquireDone(t)
      BY <2>1 DEF AcquireDone
    <3>2. QED
      BY <1>0, <2>2, <2>3, <3>1, SeenStep
  <2>6. ASSUME NEW u \in Threads PROVE ~StorePending(u, x)'
    BY <1>0, <2>2, <2>3, PendingStarts
  <2>7. ASSUME Dropped(n, x) PROVE cache'[n][x] = latest[x]
    <3>1. x \in modified[n] => cache[n][x] = latest[x]
      BY <1>0, <2>2 DEF ModifiedInv, n
    <3>2. x \notin modified[n] => mem[x] = latest[x]
      <4>1. Known(t, x) = latest[x]
        BY <2>2 DEF Known
      <4>2. x \notin modified[n] => latest[x] <= mem[x]
        BY <2>2, <4>1 DEF MemoryInv, n
      <4>3. mem[x] <= latest[x] /\ mem[x] \in Nat /\ latest[x] \in Nat
        BY <2>2, Numbers DEF BoundInv
      <4>4. QED
        BY <4>2, <4>3
    <3>3. QED
      BY <2>7, <3>1, <3>2 DEF Dropped
  <2>8. cache[n][x] = latest[x] => cache'[n][x] = latest[x]
    <3>1. \A u \in Threads : ~(Insert(u) /\ obj[u] = x)
      BY <2>2, InsertEffect
    <3>2. \/ cache'[n][x] = cache[n][x]
          \/ Dropped(n, x)
          \/ \E u \in Threads : NodeOf[u] = n /\ WrittenOut(u, x)
      BY <1>0, <2>2, <2>3, <3>1, CopyStep DEF n
    <3>3. QED
      BY <2>7, <3>2 DEF WrittenOut
  <2>9. x \in flushing[n] => x \in flushing'[n] \/ cache'[n][x] = latest[x]
    <3>0. n \in Nodes
      BY <1>0 DEF n
    <3>1. ASSUME NEW i \in Nodes, NEW y \in Lines, Invalidated(i, y), x \in flushing[n]
          PROVE  x \in flushing'[n] \/ cache'[n][x] = latest[x]
      <4>1. CASE i = n /\ y = x
        BY <2>2, <2>7, <3>1, <4>1, DropEffect
      <4>2. CASE ~(i = n /\ y = x)
        BY <1>0, <3>0, <3>1, <4>2 DEF Invalidated
      <4>3. QED
        BY <4>1, <4>2
    <3>2. ASSUME NEW u \in Threads, NEW y \in Lines, CheckDirty(u, y), x \in flushing[n]
          PROVE  x \in flushing'[n]
      BY <1>0, <3>0, <3>2 DEF CheckDirty
    <3>3. ASSUME NEW i \in Nodes, NEW L, ProcessLog(i, L), x \in flushing[n]
          PROVE  x \in flushing'[n]
      BY <1>0, <3>0, <3>3 DEF ProcessLog
    <3>4. ASSUME NEW u \in Threads, HelpConsume(u), x \in flushing[n] PROVE x \in flushing'[n]
      BY <3>3, <3>4, CoherenceAssumption DEF HelpConsume, ConsumeEntry, CoherenceAssumption
    <3>5. ASSUME NEW i \in Nodes, AgentConsume(i), x \in flushing[n] PROVE x \in flushing'[n]
      BY <3>3, <3>5 DEF AgentConsume, ConsumeEntry
    <3>6. QED
      BY <3>1, <3>2, <3>4, <3>5, FrameFlushing
  <2>10. QED
    BY <2>1, <2>2, <2>4, <2>5, <2>6, <2>8, <2>9, <2>a DEF n, StorePending
<1>3. QED
  BY <1>1, <1>2 DEF StorePending

(* Together.                                                               *)
LEMMA VersionStep ==
  ASSUME TypeOK, TypeOK', ControlInv, VersionInv, Next
  PROVE  VersionInv'
BY BoundInvStep, PrivateInvStep, ModifiedInvStep, MemoryInvStep, CheckInvStep DEF VersionInv

-----------------------------------------------------------------------------
(* Coverage.  A node that has a version of a line, or has marked the line,  *)
(* stays so.                                                               *)
FreshNext(n, x, v) == cache'[n][x] >= v \/ x \in inv_cls'[n]

(* A mark goes away only behind the fence of invalidate_if_dirty.          *)
LEMMA MarkStays ==
  ASSUME TypeOK, Next, NEW n \in Nodes, NEW x \in Lines, x \in inv_cls[n]
  PROVE  \/ x \in inv_cls'[n]
         \/ \E t \in Threads : CheckClear(t) /\ NodeOf[t] = n /\ obj[t] = x
<1>0. inv_cls \in [Nodes -> SUBSET Lines] /\ NodeOf \in [Threads -> Nodes]
  BY CoherenceAssumption DEF CoherenceAssumption, TypeOK
<1>1. ASSUME NEW t \in Threads, CheckClear(t)
      PROVE  x \in inv_cls'[n] \/ (NodeOf[t] = n /\ obj[t] = x)
  BY <1>0, <1>1 DEF CheckClear
<1>2. ASSUME NEW i \in Nodes, NEW L, ProcessLog(i, L) PROVE x \in inv_cls'[n]
  BY <1>0, <1>2 DEF ProcessLog, MarkDirty
<1>3. ASSUME NEW t \in Threads, HelpConsume(t) PROVE x \in inv_cls'[n]
  BY <1>0, <1>2, <1>3 DEF HelpConsume, ConsumeEntry
<1>4. ASSUME NEW i \in Nodes, AgentConsume(i) PROVE x \in inv_cls'[n]
  BY <1>0, <1>2, <1>4 DEF AgentConsume, ConsumeEntry
<1>5. QED
  BY <1>1, <1>3, <1>4, FrameMarks

(* A node that has a version, or has marked its line, stays so.            *)
LEMMA FreshStays ==
  ASSUME TypeOK, ControlInv, VersionInv, Next, NEW n \in Nodes, NEW x \in Lines, NEW v \in Int,
         Fresh(n, x, v), v <= latest[x], v <= mem[x] \/ x \in modified[n]
  PROVE  FreshNext(n, x, v)
<1> USE DEF VersionInv
<1>0. mem[x] \in Nat /\ latest[x] \in Nat /\ cache[n][x] \in Nat /\ cache[n][x] <= latest[x]
  BY Numbers DEF BoundInv
<1>1. CASE cache[n][x] >= v
  <2>1. CASE Dropped(n, x)
    <3>1. x \in modified[n] => cache[n][x] = latest[x]
      BY DEF ModifiedInv
    <3>2. QED
      BY <1>0, <2>1, <3>1 DEF Dropped, FreshNext
  <2>2. ASSUME NEW t \in Threads, NodeOf[t] = n, Written(t, x, latest[x] + 1)
        PROVE  FreshNext(n, x, v)
    BY <1>0, <2>2 DEF Written, FreshNext
  <2>3. ASSUME NEW t \in Threads, NodeOf[t] = n, Insert(t), obj[t] = x, Written(t, x, seen[t][x])
        PROVE  FreshNext(n, x, v)
    <3>1. Private(t, x)
      BY <2>3, InsertEffect DEF Private
    <3>2. seen[t][x] = latest[x]
      BY <3>1 DEF PrivateInv
    <3>3. QED
      BY <1>0, <2>3, <3>2 DEF Written, FreshNext
  <2>4. ASSUME NEW t \in Threads, NodeOf[t] = n, WrittenOut(t, x) PROVE cache'[n][x] = cache[n][x]
    BY <2>4 DEF WrittenOut
  <2>5. CASE cache'[n][x] = cache[n][x]
    BY <1>1, <2>5 DEF FreshNext
  <2>6. QED
    BY <2>1, <2>2, <2>3, <2>4, <2>5, CopyStep
<1>2. CASE x \in inv_cls[n]
  <2>1. ASSUME NEW t \in Threads, CheckClear(t), NodeOf[t] = n, obj[t] = x PROVE FreshNext(n, x, v)
    <3>1. cache[n][x] = latest[x]
      BY <2>1 DEF CheckClear, CheckFence, CheckInv
    <3>2. cache' = cache
      BY <2>1 DEF CheckClear, hwVars
    <3>3. QED
      BY <1>0, <3>1, <3>2 DEF FreshNext
  <2>2. QED
    BY <1>2, <2>1, MarkStays DEF FreshNext
<1>3. QED
  BY <1>1, <1>2 DEF Fresh

(* A cache clock moves only when the invalidations of the node are done.   *)
LEMMA UpdateIsFenced ==
  ASSUME TypeOK, Ordered, MutexInv, Next, NEW n \in Nodes, NEW i \in Nodes,
         clock'[n][i] # clock[n][i], EAGER_INVALIDATE
  PROVE  flushing[n] = {}
<1>1. ASSUME NEW t \in Threads, HelpUpdate(t), pc[t] = "help", NodeOf[t] = n PROVE flushing[n] = {}
  <2>1. CONSUME_HELPING
    BY <1>1 DEF MutexInv
  <2>2. FlushedBeforeStore(n)
    BY <1>1 DEF HelpUpdate
  <2>3. QED
    BY <2>1, <2>2 DEF Ordered, FlushedBeforeStore, Flushed
<1>2. ASSUME AgentUpdate(n), aclk[n] # 0 PROVE flushing[n] = {}
  <2>1. AgentFence(n) /\ FlushedBeforeStore(n)
    BY <1>2 DEF AgentUpdate
  <2>2. QED
    BY <2>1 DEF Ordered, AgentFence, FlushedBeforeStore, Flushed
<1>3. QED
  BY <1>1, <1>2, WhoUpdates

(* An invalidation under way goes on or has fetched what is in memory.     *)
LEMMA FlushingStays ==
  ASSUME TypeOK, Next, NEW n \in Nodes, NEW x \in Lines, x \in flushing[n]
  PROVE  x \in flushing'[n] \/ cache'[n][x] = mem'[x]
<1>0. flushing \in [Nodes -> SUBSET Lines] /\ NodeOf \in [Threads -> Nodes]
  BY CoherenceAssumption DEF CoherenceAssumption, TypeOK
<1>1. ASSUME NEW i \in Nodes, NEW y \in Lines, Invalidated(i, y)
      PROVE  x \in flushing'[n] \/ cache'[n][x] = mem'[x]
  <2>1. CASE i = n /\ y = x
    BY <1>1, <2>1, DropEffect DEF Dropped
  <2>2. CASE ~(i = n /\ y = x)
    BY <1>0, <1>1, <2>2 DEF Invalidated
  <2>3. QED
    BY <2>1, <2>2
<1>2. ASSUME NEW u \in Threads, NEW y \in Lines, CheckDirty(u, y) PROVE x \in flushing'[n]
  BY <1>0, <1>2 DEF CheckDirty
<1>3. ASSUME NEW i \in Nodes, NEW L, ProcessLog(i, L) PROVE x \in flushing'[n]
  BY <1>0, <1>3 DEF ProcessLog
<1>4. ASSUME NEW u \in Threads, HelpConsume(u) PROVE x \in flushing'[n]
  BY <1>0, <1>3, <1>4 DEF HelpConsume, ConsumeEntry
<1>5. ASSUME NEW i \in Nodes, AgentConsume(i) PROVE x \in flushing'[n]
  BY <1>0, <1>3, <1>5 DEF AgentConsume, ConsumeEntry
<1>6. QED
  BY <1>1, <1>2, <1>4, <1>5, FrameFlushing

(* An entry still to consume stays so until the node has the version.      *)
LEMMA PendingStays ==
  ASSUME TypeOK, ControlInv, ProtocolInv, Ordered, VersionInv, Next,
         NEW n \in Nodes, NEW i \in Nodes, NEW k \in 1 .. Len(log[i]), NEW x \in Lines,
         NEW v \in Int, Pending(n, i, k, x), v <= mem[x]
  PROVE  Pending(n, i, k, x)' \/ FreshNext(n, x, v)
<1> USE DEF VersionInv, ProtocolInv
<1>0. /\ head[n][i] \in Nat /\ clock[n][i] \in Nat /\ clock[n][i] <= head[n][i]
      /\ log[i] \in Seq(Entries) /\ k \in Nat
      /\ flushing \in [Nodes -> SUBSET Lines] /\ inv_cls \in [Nodes -> SUBSET Lines]
  <2>1. head \in [Nodes -> Clocks] /\ clock \in [Nodes -> Clocks] /\ log \in [Nodes -> Seq(Entries)]
    BY DEF TypeOK
  <2>2. flushing \in [Nodes -> SUBSET Lines] /\ inv_cls \in [Nodes -> SUBSET Lines]
    BY DEF TypeOK
  <2>3. clock[n][i] <= head[n][i]
    BY DEF ClockInv
  <2>4. QED
    BY <2>1, <2>2, <2>3 DEF Clocks
<1>1. i # n /\ x \in log'[i][k].lines
  <2>1. LogsGrow
    BY LogsGrowStep
  <2>2. QED
    BY <2>1 DEF LogsGrow, Pending
<1>2. EAGER_INVALIDATE' = EAGER_INVALIDATE
  BY FrameBuild DEF EAGER_INVALIDATE
<1>3. CASE k > head[n][i]
  <2>1. CASE head'[n][i] = head[n][i]
    BY <1>1, <1>3, <2>1 DEF Pending
  <2>2. CASE head'[n][i] # head[n][i]
    <3>1. head'[n][i] = head[n][i] + 1
      BY <2>2, WhoConsumes
    <3>2. CASE k = head[n][i] + 1
      <4>1. NextEntry(n, i) = log[i][k] /\ x \in log[i][k].lines
        BY <3>2 DEF NextEntry, Pending
      <4>2. ProcessLog(n, log[i][k].lines) /\ clock' = clock
        <5>1. ASSUME NEW t \in Threads, HelpConsume(t), NodeOf[t] = n, src[t] = i
              PROVE  ProcessLog(n, log[i][k].lines) /\ clock' = clock
          BY <4>1, <5>1 DEF HelpConsume, ConsumeEntry
        <5>2. ASSUME AgentConsume(n), asrc[n] = i
              PROVE  ProcessLog(n, log[i][k].lines) /\ clock' = clock
          BY <4>1, <5>2 DEF AgentConsume, ConsumeEntry
        <5>3. QED
          BY <2>2, <5>1, <5>2, WhoConsumes
      <4>3. \/ EAGER_INVALIDATE /\ x \in flushing'[n]
            \/ x \in inv_cls'[n]
        BY <1>0, <4>1, <4>2 DEF ProcessLog, MarkDirty
      <4>4. k > clock'[n][i]
        BY <1>0, <3>2, <4>2
      <4>5. QED
        BY <1>1, <1>2, <4>3, <4>4 DEF Pending, FreshNext
    <3>3. CASE k # head[n][i] + 1
      <4>1. k > head'[n][i]
        BY <1>0, <1>3, <3>1, <3>3
      <4>2. QED
        BY <1>1, <4>1 DEF Pending
    <3>4. QED
      BY <3>2, <3>3
  <2>3. QED
    BY <2>1, <2>2
<1>4. CASE EAGER_INVALIDATE /\ x \in flushing[n] /\ k > clock[n][i]
  <2>1. clock'[n][i] = clock[n][i]
    BY <1>4, UpdateIsFenced
  <2>2. CASE x \in flushing'[n]
    BY <1>1, <1>2, <1>4, <2>1, <2>2 DEF Pending
  <2>3. CASE cache'[n][x] = mem'[x]
    <3>1. mem'[x] >= mem[x] /\ mem'[x] \in Nat /\ mem[x] \in Nat
      BY MemoryGrows, Numbers
    <3>2. QED
      BY <2>3, <3>1 DEF FreshNext
  <2>4. QED
    BY <1>4, <2>2, <2>3, FlushingStays
<1>5. QED
  BY <1>3, <1>4 DEF Pending

-----------------------------------------------------------------------------
(* The clocks that name an entry keep naming it.                           *)

LEMMA AcquiredEffect ==
  ASSUME TypeOK, ControlInv, NEW t \in Threads, AcquireDone(t), NEW i \in Nodes
  PROVE  /\ thread_clock'[t][i] >= thread_clock[t][i] /\ thread_clock'[t][i] >= Target(t)[i]
         /\ \A u \in Threads \ {t} : thread_clock'[u] = thread_clock[u]
<1>0. thread_clock \in [Threads -> Clocks] /\ pc[t] = "acquire" /\ ObjInv
  BY DEF TypeOK, AcquireDone, ControlInv
<1>1. Target(t) \in Clocks
  BY <1>0, TargetTypes DEF Acquiring
<1>2. thread_clock' = [thread_clock EXCEPT ![t] = Merge(thread_clock[t], Target(t))]
  BY DEF AcquireDone, AcquiredClock
<1>3. thread_clock'[t] = Merge(thread_clock[t], Target(t))
      /\ \A u \in Threads \ {t} : thread_clock'[u] = thread_clock[u]
  BY <1>0, <1>2
<1>4. DOMAIN thread_clock[t] = Nodes /\ thread_clock[t][i] \in Nat /\ Target(t)[i] \in Nat
  BY <1>0, <1>1 DEF Clocks
<1>5. QED
  BY <1>3, <1>4 DEF Merge

(* The clock of a thread never moves back.                                 *)
LEMMA ThreadClockGrows ==
  ASSUME TypeOK, ControlInv, ClaimInv, Next, NEW u \in Threads, NEW i \in Nodes
  PROVE  thread_clock'[u][i] >= thread_clock[u][i]
<1>0. /\ thread_clock \in [Threads -> Clocks] /\ pos \in [Threads -> Nat] /\ NodeOf \in [Threads -> Nodes]
      /\ thread_clock[u] \in [Nodes -> Nat] /\ thread_clock[u][i] \in Nat
  <2>1. NodeOf \in [Threads -> Nodes]
    BY CoherenceAssumption DEF CoherenceAssumption
  <2>2. thread_clock \in [Threads -> Clocks] /\ pos \in [Threads -> Nat]
    BY DEF TypeOK
  <2>3. QED
    BY <2>1, <2>2 DEF Clocks
<1>1. ASSUME NEW t \in Threads, Publish(t) PROVE thread_clock'[u][i] >= thread_clock[u][i]
  <2>1. pc[t] = "publish" /\ thread_clock[t][NodeOf[t]] < pos[t]
    BY <1>1 DEF Publish, ClaimInv
  <2>2. \/ thread_clock' = thread_clock
        \/ thread_clock' = [thread_clock EXCEPT ![t][NodeOf[t]] = pos[t]]
    BY <1>1 DEF Publish, ReleaseClock
  <2>3. CASE thread_clock' = [thread_clock EXCEPT ![t][NodeOf[t]] = pos[t]]
    <3>1. thread_clock[t] \in [Nodes -> Nat] /\ pos[t] \in Nat
      BY <1>0 DEF Clocks
    <3>2. QED
      BY <1>0, <2>1, <2>3, <3>1
  <2>4. QED
    BY <1>0, <2>2, <2>3
<1>2. ASSUME NEW t \in Threads, AcquireDone(t) PROVE thread_clock'[u][i] >= thread_clock[u][i]
  BY <1>0, <1>2, AcquiredEffect
<1>3. QED
  BY <1>0, <1>1, <1>2, FrameThreadClock

(* An entry of its own node that a thread is to name is named by its next  *)
(* release.                                                                *)
LEMMA ThreadBoundStays ==
  ASSUME TypeOK, TypeOK', ControlInv, ClaimInv, Next,
         NEW u \in Threads, NEW i \in Nodes, NEW k \in 1 .. Len(log[i]), ThreadBound(u, i, k)
  PROVE  ThreadBound(u, i, k)'
<1>0. /\ OpInv /\ ObjInv /\ TableInv
      /\ recent_cl \in [Threads -> Lines \cup {None}] /\ pc \in [Threads -> Labels]
      /\ thread_clock[u][i] \in Nat /\ NodeOf \in [Threads -> Nodes]
      /\ pos \in [Threads -> Nat] /\ log[i] \in Seq(Entries)
  <2>1. OpInv /\ ObjInv /\ TableInv /\ NodeOf \in [Threads -> Nodes]
    BY CoherenceAssumption DEF CoherenceAssumption, ControlInv
  <2>2. recent_cl \in [Threads -> Lines \cup {None}] /\ pc \in [Threads -> Labels]
    BY DEF TypeOK
  <2>3. thread_clock \in [Threads -> Clocks] /\ pos \in [Threads -> Nat] /\ log \in [Nodes -> Seq(Entries)]
    BY DEF TypeOK
  <2>4. QED
    BY <2>1, <2>2, <2>3 DEF Clocks
<1>1. thread_clock'[u][i] >= thread_clock[u][i] /\ thread_clock'[u][i] \in Nat
  <2>1. thread_clock'[u][i] >= thread_clock[u][i]
    BY ThreadClockGrows
  <2>2. thread_clock' \in [Threads -> Clocks]
    BY DEF TypeOK
  <2>3. QED
    BY <2>1, <2>2 DEF Clocks
<1>2. CASE k <= thread_clock[u][i]
  <2>1. k <= thread_clock'[u][i]
    BY <1>0, <1>1, <1>2
  <2>2. QED
    BY <2>1 DEF ThreadBound
<1>3. CASE i = NodeOf[u] /\ recent_cl[u] # None
  <2>1. ASSUME NEW t \in Threads, NEW x \in Lines, Store(t, x) PROVE recent_cl'[u] # None
    BY <1>0, <1>3, <2>1, CoherenceAssumption DEF Store, CoherenceAssumption
  <2>2. ASSUME NEW t \in Threads, NEW o, NEW a, ThreadRelease(t, o, a)
        PROVE  recent_cl'[u] # None \/ pc'[u] = "claim"
    BY <1>0, <1>3, <2>2 DEF ThreadRelease, Goto
  <2>3. recent_cl'[u] # None \/ pc'[u] = "claim"
    BY <1>3, <2>1, <2>2, FrameRecent
  <2>4. QED
    BY <1>3, <2>3 DEF ThreadBound
<1>4. CASE i = NodeOf[u] /\ pc[u] = "claim"
  <2>1. CASE Keeps(u)
    BY <1>4, <2>1 DEF Keeps, ThreadBound
  <2>2. CASE ThreadStarts(u)
    BY <1>4, <2>2, StartCases DEF Store, CheckDirty, ThreadRelease, AtomicLoad, Lock, LockShared,
      LockExclusive, Join
  <2>3. CASE ThreadContinues(u)
    <3>1. Claim(u)
      BY <1>4, <2>3 DEF ThreadContinues, Insert, Publish, CheckClear, AtomicStore, FetchAdd, Unlock,
        Create, Upgrade, TakeWlock, Drain, UnlockShared, CopyClock, AcquireReady, AcquireBehind,
        HelpTryLock, HelpConsume, HelpUpdate, HelpUnlock, AcquireDone
    <3>2. pos'[u] = Len(log[i]) + 1
      BY <1>4, <3>1, ClaimEffect
    <3>3. pc'[u] = "publish"
      BY <1>0, <3>1 DEF Claim, Goto
    <3>4. k <= pos'[u]
      BY <1>0, <3>2
    <3>5. QED
      BY <1>4, <3>3, <3>4 DEF ThreadBound
  <2>4. ASSUME NEW t \in Threads, u # t, Create(t), u = obj[t] PROVE FALSE
    BY <1>0, <1>4, <2>4 DEF Create, OpInv, ObjInv, ObjOf, Releases
  <2>5. ASSUME NEW t \in Threads, u # t, Join(t, u) PROVE FALSE
    BY <1>4, <2>5 DEF Join
  <2>6. QED
    BY <1>0, <2>1, <2>2, <2>3, <2>4, <2>5, ThreadMoves
<1>5. CASE i = NodeOf[u] /\ pc[u] = "publish" /\ k <= pos[u]
  <2>1. CASE Keeps(u)
    BY <1>5, <2>1 DEF Keeps, ThreadBound
  <2>2. CASE ThreadStarts(u) \/ ThreadContinues(u)
    <3>1. Publish(u)
      BY <1>0, <1>5, <2>2, Reaches
    <3>2. CASE op[u] = "insert"
      <4>1. recent_cl[u] = obj[u] /\ obj[u] \in Lines /\ recent_cl' = recent_cl
        BY <1>0, <3>1, <3>2 DEF TableInv, TableOf, ObjInv, ObjOf, Publish
      <4>2. recent_cl'[u] # None
        BY <4>1, CoherenceAssumption DEF CoherenceAssumption
      <4>3. QED
        BY <1>5, <4>2 DEF ThreadBound
    <3>3. CASE op[u] # "insert"
      <4>1. thread_clock' = [thread_clock EXCEPT ![u][i] = pos[u]]
        BY <1>5, <3>1, <3>3 DEF Publish, ReleaseClock
      <4>2. thread_clock'[u][i] = pos[u]
        <5>1. thread_clock \in [Threads -> [Nodes -> Nat]]
          BY DEF TypeOK, Clocks
        <5>2. QED
          BY <4>1, <5>1
      <4>3. QED
        BY <1>5, <4>2 DEF ThreadBound
    <3>4. QED
      BY <3>2, <3>3
  <2>4. ASSUME NEW t \in Threads, u # t, Create(t), u = obj[t] PROVE FALSE
    BY <1>0, <1>5, <2>4 DEF Create, OpInv, ObjInv, ObjOf, Releases
  <2>5. ASSUME NEW t \in Threads, u # t, Join(t, u) PROVE FALSE
    BY <1>5, <2>5 DEF Join
  <2>6. QED
    BY <1>0, <2>1, <2>2, <2>4, <2>5, ThreadMoves
<1>6. QED
  BY <1>2, <1>3, <1>4, <1>5 DEF ThreadBound

(* The clock of a thread at the end of a release names all it is to name.  *)
LEMMA ReleasedBound ==
  ASSUME TypeOK, ControlInv, NEW t \in Threads, pc[t] \in Releases, NEW i, NEW k,
         ThreadBound(t, i, k)
  PROVE  k <= thread_clock[t][i]
<1>1. recent_cl[t] = None
  BY Released
<1>2. QED
  BY <1>1 DEF ThreadBound, Releases, AtomicOps

(* An acquire goes on, with the same source, until it ends.                *)
LEMMA AcquireGoesOn ==
  ASSUME TypeOK, ControlInv, Next, NEW u \in Threads, Acquiring(u), ~AcquireDone(u)
  PROVE  /\ Acquiring(u)' /\ obj'[u] = obj[u] /\ target'[u] = target[u] /\ got'[u] = got[u]
         /\ \/ Done(u)' \subseteq Done(u)
            \/ \E i \in Nodes : AcquireReady(u, i) /\ Done(u)' \subseteq Done(u) \cup {i}
            \/ HelpUpdate(u) /\ Done(u)' \subseteq Done(u) \cup {src[u]}
<1> USE DEF OtherThanHelp
<1> DEFINE Goal ==
         /\ Acquiring(u)' /\ obj'[u] = obj[u] /\ target'[u] = target[u] /\ got'[u] = got[u]
         /\ \/ Done(u)' \subseteq Done(u)
            \/ \E i \in Nodes : AcquireReady(u, i) /\ Done(u)' \subseteq Done(u) \cup {i}
            \/ HelpUpdate(u) /\ Done(u)' \subseteq Done(u) \cup {src[u]}
<1>0. /\ OpInv /\ ObjInv /\ pc \in [Threads -> Labels] /\ node_done \in [Threads -> SUBSET Nodes]
      /\ src \in [Threads -> Nodes]
  BY DEF ControlInv, TypeOK
<1>1. CASE Keeps(u)
  BY <1>1 DEF Keeps, Acquiring, Done
<1>2. CASE ThreadStarts(u)
  BY <1>2, StartCases DEF Store, CheckDirty, ThreadRelease, AtomicLoad, Lock, LockShared,
    LockExclusive, Join, Acquiring
<1>3. CASE ThreadContinues(u)
  <2>1. \/ \E i \in Nodes : AcquireReady(u, i) \/ AcquireBehind(u, i)
        \/ HelpTryLock(u) \/ HelpConsume(u) \/ HelpUpdate(u) \/ HelpUnlock(u)
    BY <1>3 DEF ThreadContinues, Insert, Claim, Publish, CheckClear, AtomicStore, FetchAdd, Unlock,
      Create, Upgrade, TakeWlock, Drain, UnlockShared, CopyClock, Acquiring
  <2>2. ASSUME NEW i \in Nodes, AcquireReady(u, i) PROVE Goal
    <3>1. /\ pc' = pc /\ src' = src /\ obj' = obj /\ target' = target /\ got' = got
          /\ node_done'[u] = node_done[u] \cup {i}
      BY <1>0, <2>2 DEF AcquireReady
    <3>2. Acquiring(u)' /\ Done(u)' \subseteq Done(u) \cup {i}
      BY <3>1 DEF Acquiring, Done
    <3>3. QED
      BY <2>2, <3>1, <3>2
  <2>3. ASSUME NEW i \in Nodes, AcquireBehind(u, i) PROVE Goal
    <3>1. /\ pc[u] = "acquire" /\ pc'[u] = "try_lock" /\ obj' = obj /\ target' = target /\ got' = got
          /\ node_done' = node_done
      BY <1>0, <2>3 DEF AcquireBehind, Goto
    <3>2. QED
      BY <3>1 DEF Acquiring, Done
  <2>4. CASE HelpTryLock(u)
    <3>1. /\ pc[u] = "try_lock" /\ pc'[u] \in {"help", "acquire"} /\ obj' = obj /\ target' = target
          /\ got' = got /\ node_done' = node_done
      BY <1>0, <2>4 DEF HelpTryLock, Goto
    <3>2. QED
      BY <3>1 DEF Acquiring, Done
  <2>5. CASE HelpConsume(u)
    <3>1. /\ pc[u] = "help" /\ pc' = pc /\ obj' = obj /\ target' = target
          /\ got' = got /\ node_done' = node_done
      BY <1>0, <2>5 DEF HelpConsume
    <3>2. QED
      BY <3>1 DEF Acquiring, Done
  <2>6. CASE HelpUpdate(u)
    <3>1. /\ pc[u] = "help" /\ pc'[u] = "help_unlock" /\ obj' = obj /\ target' = target
          /\ got' = got /\ node_done' = node_done /\ src' = src
      BY <1>0, <2>6 DEF HelpUpdate, Goto
    <3>2. QED
      BY <2>6, <3>1 DEF Acquiring, Done
  <2>7. CASE HelpUnlock(u)
    <3>1. /\ pc[u] = "help_unlock" /\ pc'[u] = "acquire" /\ obj' = obj /\ target' = target
          /\ got' = got /\ node_done'[u] = node_done[u] \cup {src[u]}
      BY <1>0, <2>7 DEF HelpUnlock, Goto
    <3>2. QED
      BY <3>1 DEF Acquiring, Done
  <2>8. QED
    BY <2>1, <2>2, <2>3, <2>4, <2>5, <2>6, <2>7
<1>4. ASSUME NEW t \in Threads, u # t, Create(t), u = obj[t] PROVE FALSE
  BY <1>0, <1>4 DEF Create, OpInv, ObjInv, ObjOf, Releases, Acquiring
<1>5. ASSUME NEW t \in Threads, u # t, Join(t, u) PROVE FALSE
  BY <1>5 DEF Join, Acquiring
<1>6. QED
  BY <1>0, <1>1, <1>2, <1>3, <1>4, <1>5, ThreadMoves

(* A thread becomes a reader, with the clock of the object, when its        *)
(* acquire ends.                                                           *)
LEMMA ReaderStep ==
  ASSUME TypeOK, ControlInv, Next, NEW u \in Threads, NEW m \in SharedMutexes, Reader(u, m)'
  PROVE  Reader(u, m) \/ (AcquireDone(u) /\ obj[u] = m)
<1>0. /\ readers \in [SharedMutexes -> SUBSET Threads] /\ pc \in [Threads -> Labels]
      /\ obj \in [Threads -> Locs \cup Lines \cup Threads \cup {None}]
  BY DEF TypeOK
<1>1. u \in readers'[m] /\ ~(Acquiring(u)' /\ obj'[u] = m)
  BY DEF Reader
<1>2. u \in readers[m]
  <2>1. ASSUME NEW t \in Threads, NEW k \in SharedMutexes, LockShared(t, k) \/ LockExclusive(t, k)
        PROVE  u \in readers[m]
    <3>1. /\ readers' = [readers EXCEPT ![k] = @ \cup {t}] /\ pc'[t] = "acquire" /\ obj'[t] = k
      BY <1>0, <2>1 DEF LockShared, LockExclusive, AcquireRef, Goto
    <3>2. QED
      BY <1>0, <1>1, <3>1 DEF Acquiring
  <2>2. ASSUME NEW t \in Threads, Upgrade(t) \/ UnlockShared(t) PROVE u \in readers[m]
    BY <1>0, <1>1, <2>2 DEF Upgrade, UnlockShared
  <2>3. QED
    BY <1>1, <2>1, <2>2, FrameReaders
<1>3. CASE Acquiring(u) /\ obj[u] = m
  BY <1>1, <1>3, AcquireGoesOn
<1>4. QED
  BY <1>2, <1>3 DEF Reader

(* The clock of an object names what it named, unless it is replaced.      *)
LEMMA LocBoundStays ==
  ASSUME TypeOK, TypeOK', ControlInv, ClaimInv, Next,
         NEW a \in Locs, NEW i \in Nodes, NEW k \in Nat, LocBound(a, i, k),
         \A t \in Threads : AtomicStore(t) \/ Unlock(t) => obj[t] # a
  PROVE  LocBound(a, i, k)'
<1>0. /\ loc_clock \in [Locs -> Clocks] /\ thread_clock \in [Threads -> Clocks]
      /\ obj \in [Threads -> Locs \cup Lines \cup Threads \cup {None}]
      /\ \A b \in Locs, j \in Nodes : loc_clock[b][j] \in Nat
      /\ \A t \in Threads, j \in Nodes : thread_clock[t][j] \in Nat
      /\ OpInv /\ ObjInv
  BY DEF TypeOK, Clocks, ControlInv
<1>1. \A t \in Threads : thread_clock'[t][i] >= thread_clock[t][i] /\ thread_clock'[t][i] \in Nat
  <2>1. thread_clock' \in [Threads -> Clocks]
    BY DEF TypeOK
  <2>2. QED
    BY <2>1, ThreadClockGrows DEF Clocks
<1>2. k <= loc_clock'[a][i]
  <2>0. k <= loc_clock[a][i]
    BY DEF LocBound
  <2>1. ASSUME NEW t \in Threads, AtomicStore(t) \/ Unlock(t) PROVE k <= loc_clock'[a][i]
    BY <1>0, <2>0, <2>1 DEF AtomicStore, Unlock
  <2>2. ASSUME NEW t \in Threads, FetchAdd(t) PROVE k <= loc_clock'[a][i]
    <3>1. loc_clock' = [loc_clock EXCEPT ![obj[t]] = Merge(loc_clock[obj[t]], thread_clock[t])]
      BY <2>2 DEF FetchAdd
    <3>2. CASE obj[t] = a
      <4>1. loc_clock'[a] = Merge(loc_clock[a], thread_clock[t]) /\ DOMAIN loc_clock[a] = Nodes
        BY <1>0, <3>1, <3>2 DEF Clocks
      <4>2. QED
        BY <1>0, <2>0, <4>1 DEF Merge
    <3>3. CASE obj[t] # a
      BY <1>0, <2>0, <3>1, <3>3
    <3>4. QED
      BY <3>2, <3>3
  <2>3. ASSUME NEW t \in Threads, NEW j \in Nodes, CopyClock(t, j) PROVE k <= loc_clock'[a][i]
    <3>1. loc_clock' = [loc_clock EXCEPT ![obj[t]][j] = thread_clock[t][j]] /\ pc[t] = "unlock_shared"
      BY <2>3 DEF CopyClock, CopiedClock
    <3>2. op[t] = "unlock_shared" /\ obj[t] \in SharedMutexes /\ t \in readers[obj[t]] /\ ~Acquiring(t)
      BY <1>0, <3>1 DEF OpInv, ObjInv, ObjOf, Releases, Acquiring
    <3>3. CASE obj[t] = a /\ i = j
      <4>1. loc_clock'[a][i] = thread_clock[t][i]
        BY <1>0, <3>1, <3>3 DEF Clocks
      <4>2. Reader(t, a)
        BY <3>2, <3>3 DEF Reader
      <4>3. QED
        BY <3>2, <3>3, <4>1, <4>2 DEF LocBound
    <3>4. CASE ~(obj[t] = a /\ i = j)
      <4>1. loc_clock'[a][i] = loc_clock[a][i]
        BY <1>0, <3>1, <3>4 DEF Clocks
      <4>2. QED
        BY <2>0, <4>1
    <3>5. QED
      BY <3>3, <3>4
  <2>4. QED
    BY <2>0, <2>1, <2>2, <2>3, FrameLocClock
<1>3. ASSUME a \in SharedMutexes, NEW u \in Threads, Reader(u, a)'
      PROVE  k <= thread_clock'[u][i]
  <2>1. CASE Reader(u, a)
    <3>1. k <= thread_clock[u][i]
      BY <1>3, <2>1 DEF LocBound
    <3>2. QED
      BY <1>0, <1>1, <3>1
  <2>2. CASE AcquireDone(u) /\ obj[u] = a
    <3>1. Target(u) = loc_clock[a]
      BY <1>0, <2>2, TargetTypes DEF AcquireDone, Acquiring
    <3>2. thread_clock'[u][i] >= loc_clock[a][i] /\ k <= loc_clock[a][i]
      BY <2>2, <3>1, AcquiredEffect DEF LocBound
    <3>3. QED
      BY <1>0, <1>1, <3>2
  <2>3. QED
    BY <1>3, <2>1, <2>2, ReaderStep
<1>4. QED
  BY <1>2, <1>3 DEF LocBound

(* Nobody replaces the clock that an acquire reads.                        *)
LEMMA TargetBoundStays ==
  ASSUME TypeOK, TypeOK', ControlInv, ClaimInv, Next,
         NEW u \in Threads, NEW i \in Nodes, NEW k \in Nat,
         Acquiring(u), ~AcquireDone(u), TargetBound(u, i, k)
  PROVE  TargetBound(u, i, k)'
<1>0. OpInv /\ ObjInv /\ WriterInv
  BY DEF ControlInv
<1>1. obj'[u] = obj[u] /\ target'[u] = target[u]
  BY AcquireGoesOn
<1>2. CASE obj[u] = None
  <2>1. k <= target[u][i]
    BY <1>2 DEF TargetBound
  <2>2. None \notin Threads /\ None \notin Locs
    BY CoherenceAssumption DEF CoherenceAssumption
  <2>3. QED
    BY <1>1, <1>2, <2>1, <2>2 DEF TargetBound
<1>3. CASE obj[u] \in Threads
  <2>1. k <= thread_clock[obj[u]][i]
    BY <1>3 DEF TargetBound
  <2>2. obj[u] # None /\ obj[u] \notin Locs
    BY <1>3, CoherenceAssumption DEF CoherenceAssumption
  <2>3. /\ thread_clock'[obj[u]][i] >= thread_clock[obj[u]][i]
        /\ thread_clock[obj[u]][i] \in Nat
    BY <1>3, ThreadClockGrows DEF TypeOK, Clocks
  <2>4. thread_clock'[obj[u]][i] \in Nat
    <3>1. thread_clock' \in [Threads -> Clocks]
      BY DEF TypeOK
    <3>2. QED
      BY <1>3, <3>1 DEF Clocks
  <2>5. k <= thread_clock'[obj[u]][i]
    BY <2>1, <2>3, <2>4
  <2>6. QED
    BY <1>1, <1>3, <2>2, <2>5 DEF TargetBound
<1>4. CASE obj[u] \in Locs
  <2> PICK a \in Locs : a = obj[u]
    BY <1>4
  <2>1. LocBound(a, i, k) /\ a # None /\ a \notin Threads
    BY CoherenceAssumption DEF TargetBound, CoherenceAssumption
  <2>2. \/ a \in Locks /\ owner[a] = u
        \/ a \in SharedMutexes /\ u \in readers[a]
    BY <1>0, <2>1 DEF ObjInv, ObjOf
  <2>3. ASSUME NEW t \in Threads, AtomicStore(t) PROVE obj[t] # a
    <3>1. obj[t] \in Atomics
      BY <1>0, <2>3 DEF AtomicStore, OpInv, ObjInv, ObjOf, Releases, AtomicOps
    <3>2. QED
      BY <2>2, <3>1, CoherenceAssumption DEF CoherenceAssumption, Locks
  <2>4. ASSUME NEW t \in Threads, Unlock(t) PROVE obj[t] # a
    <3>1. pc[t] = "unlock" /\ obj[t] \in Locks /\ owner[obj[t]] = t /\ t # u
      BY <1>0, <2>4 DEF Unlock, OpInv, ObjInv, ObjOf, Releases, Acquiring
    <3>2. ASSUME a \in SharedMutexes, u \in readers[a], obj[t] = a PROVE FALSE
      <4>1. owner[a] = t /\ t # None
        BY <3>1, <3>2, CoherenceAssumption DEF CoherenceAssumption
      <4>2. pc[t] = "drain"
        BY <1>0, <3>2, <4>1 DEF WriterInv
      <4>3. QED
        BY <3>1, <4>2
    <3>3. QED
      BY <2>2, <3>1, <3>2
  <2>5. LocBound(a, i, k)'
    BY <2>1, <2>3, <2>4, LocBoundStays
  <2>6. QED
    BY <1>1, <2>1, <2>5 DEF TargetBound, LocBound
<1>5. QED
  BY <1>0, <1>2, <1>3, <1>4, TargetTypes

-----------------------------------------------------------------------------
(* A version that is covered stays covered: the node has it, or an entry   *)
(* with its line is still to consume.  Bound(i, k) is what names the entry. *)

(* What a thread that has no store of its own to the line has seen.        *)
LEMMA SeenInMemory ==
  ASSUME TypeOK, VersionInv, NEW t \in Threads, NEW x \in Lines, ~Private(t, x)
  PROVE  seen[t][x] \in Nat /\ seen[t][x] <= mem[x] /\ seen[t][x] <= latest[x]
<1>1. Known(t, x) = seen[t][x] /\ x \notin dirty_cls[t]
  BY DEF Private, Known
<1>2. QED
  BY <1>1, Numbers DEF VersionInv, MemoryInv, BoundInv

(* The version v of line x at node n is covered after the step, if it was   *)
(* by an entry or by the copy of the node.                                 *)
LEMMA CoverStays ==
  ASSUME TypeOK, ControlInv, ProtocolInv, Ordered, VersionInv, Next,
         NEW n \in Nodes, NEW x \in Lines, NEW v \in Nat, v <= mem[x]
  PROVE  /\ Fresh(n, x, v) => FreshNext(n, x, v)
         /\ \A i \in Nodes : \A k \in 1 .. Len(log[i]) : Pending(n, i, k, x) =>
              \/ k \in 1 .. Len(log'[i]) /\ Pending(n, i, k, x)'
              \/ FreshNext(n, x, v)
<1>1. v <= latest[x]
  BY Numbers DEF VersionInv, BoundInv
<1>2. Fresh(n, x, v) => FreshNext(n, x, v)
  BY <1>1, FreshStays
<1>3. ASSUME NEW i \in Nodes, NEW k \in 1 .. Len(log[i]), Pending(n, i, k, x)
      PROVE  \/ k \in 1 .. Len(log'[i]) /\ Pending(n, i, k, x)'
             \/ FreshNext(n, x, v)
  <2>1. Pending(n, i, k, x)' \/ FreshNext(n, x, v)
    BY <1>3, PendingStays
  <2>2. LogsGrow
    BY LogsGrowStep DEF ProtocolInv
  <2>3. Len(log'[i]) \in Nat /\ Len(log'[i]) >= Len(log[i]) /\ Len(log[i]) \in Nat
    BY <2>2 DEF LogsGrow, TypeOK
  <2>4. k \in 1 .. Len(log'[i])
    BY <2>3
  <2>5. QED
    BY <2>1, <2>4
<1>4. QED
  BY <1>2, <1>3

(* What Publish does for the lines it publishes: other nodes have the       *)
(* entry to consume, the node itself has the version.                      *)
LEMMA PublishCovers ==
  ASSUME TypeOK, TypeOK', ControlInv, ProtocolInv, VersionInv, NoStaleRead, Next,
         NEW t \in Threads, Publish(t), NEW n \in Nodes, NEW x \in Lines, x \in dirty_cls[t]
  PROVE  \/ Fresh(n, x, seen[t][x])'
         \/ \E k \in 1 .. Len(log'[NodeOf[t]]) :
              Pending(n, NodeOf[t], k, x)' /\ ThreadBound(t, NodeOf[t], k)'
<1>0. /\ NodeOf[t] \in Nodes /\ ObjInv /\ TableInv /\ pc[t] = "publish" /\ ClaimInv
      /\ OpInv /\ op[t] # "none"
  BY CoherenceAssumption DEF CoherenceAssumption, ControlInv, ProtocolInv, Publish, OpInv,
    Releases, AtomicOps
<1>1. /\ seen' = seen /\ inv_cls' = inv_cls /\ head' = head /\ recent_cl' = recent_cl
      /\ cache' = cache
  BY DEF Publish, histVars, invVars, hwVars
<1>2. CASE n = NodeOf[t]
  <2>1. ~StorePending(t, x)
    BY <1>0 DEF TableInv, TableOf, StorePending
  <2>2. Known(t, x) = seen[t][x]
    BY <2>1 DEF Known
  <2>3. x \in inv_cls[n] \/ cache[n][x] >= seen[t][x]
    BY <1>2, <2>2 DEF NoStaleRead, IsDirty
  <2>4. QED
    BY <1>1, <2>3 DEF Fresh
<1>3. CASE n # NodeOf[t]
  <2> DEFINE i == NodeOf[t]
             k == pos[t]
  <2>1. /\ k \in 1 .. Len(log[i]) /\ log[i][k].lines = dirty_cls[t] /\ ~log[i][k].published
    BY <1>0 DEF ClaimInv
  <2>2. Len(log'[i]) = Len(log[i]) /\ log'[i][k].lines = log[i][k].lines
    BY <1>0, <2>1, PublishEffect
  <2>3. k > head[n][i]
    <3>1. head[n][i] \in Nat /\ k \in Nat
      BY <1>0 DEF TypeOK, Clocks
    <3>2. \A j \in 1 .. head[n][i] : log[i][j].published
      BY <1>0 DEF ProtocolInv, LogInv
    <3>3. QED
      BY <2>1, <3>1, <3>2
  <2>4. \/ thread_clock'[t][i] = k
        \/ recent_cl'[t] # None
    <3>1. CASE op[t] = "insert"
      <4>1. recent_cl[t] \in Lines
        BY <1>0, <3>1 DEF TableInv, TableOf, ObjInv, ObjOf
      <4>2. QED
        BY <1>1, <4>1, CoherenceAssumption DEF CoherenceAssumption
    <3>2. CASE op[t] # "insert"
      <4>1. thread_clock' = [thread_clock EXCEPT ![t][i] = k]
        BY <3>2 DEF Publish, ReleaseClock
      <4>2. thread_clock \in [Threads -> [Nodes -> Nat]]
        BY DEF TypeOK, Clocks
      <4>3. QED
        BY <1>0, <4>1, <4>2
    <3>3. QED
      BY <3>1, <3>2
  <2>5. PICK j \in 1 .. Len(log[i]) : j = k
    BY <2>1
  <2>6. QED
    <3>1. n # i /\ x \in log'[i][j].lines /\ j > head'[n][i] /\ j \in Nat
      BY <1>1, <1>3, <2>1, <2>2, <2>3, <2>5
    <3>2. Pending(n, i, j, x)'
      BY <3>1 DEF Pending
    <3>3. j <= thread_clock'[t][i] \/ recent_cl'[t] # None
      BY <2>4, <2>5, <3>1
    <3>4. ThreadBound(t, i, j)'
      BY <3>3 DEF ThreadBound
    <3>5. QED
      BY <2>2, <2>5, <3>2, <3>4
<1>4. QED
  BY <1>2, <1>3

(* What a thread has seen is covered.                                      *)
LEMMA ThreadCoverStep ==
  ASSUME TypeOK, TypeOK', ControlInv, ProtocolInv, Ordered, VersionInv, CoverInv, NoStaleRead, Next
  PROVE  ThreadCover'
<1> DEFINE Covered(t, n, x) ==
        \/ FreshNext(n, x, seen'[t][x])
        \/ \E i \in Nodes : \E k \in 1 .. Len(log'[i]) :
             Pending(n, i, k, x)' /\ ThreadBound(t, i, k)'
<1> SUFFICES ASSUME NEW t \in Threads, NEW n \in Nodes, NEW x \in Lines, ~Private(t, x)'
             PROVE  Covered(t, n, x)
  BY DEF ThreadCover, FreshNext, Fresh
<1>0. OpInv /\ ObjInv /\ ClaimInv
  BY DEF ControlInv, ProtocolInv
<1>1. CASE Private(t, x)
  <2>1. ~(Insert(t) /\ obj[t] = x)
    BY InsertEffect DEF Written, Private
  <2>2. x \in dirty_cls[t] /\ x \notin dirty_cls'[t]
    BY <1>0, <1>1, <2>1, PendingEnds DEF Private
  <2>3. Publish(t)
    <3>0. dirty_cls \in [Threads -> SUBSET Lines]
      BY DEF TypeOK
    <3>1. ASSUME NEW u \in Threads, NEW y \in Lines, Store(u, y) PROVE FALSE
      BY <2>2, <3>0, <3>1 DEF Store
    <3>2. ASSUME NEW u \in Threads, Insert(u) PROVE FALSE
      BY <2>2, <3>0, <3>2 DEF Insert
    <3>3. ASSUME NEW u \in Threads, Publish(u) PROVE u = t
      BY <2>2, <3>0, <3>3 DEF Publish
    <3>4. QED
      BY <2>2, <3>1, <3>2, <3>3, FrameTable
  <2>4. \/ Fresh(n, x, seen[t][x])'
        \/ \E k \in 1 .. Len(log'[NodeOf[t]]) :
             Pending(n, NodeOf[t], k, x)' /\ ThreadBound(t, NodeOf[t], k)'
    BY <2>2, <2>3, PublishCovers
  <2>5. NodeOf[t] \in Nodes
    BY CoherenceAssumption DEF CoherenceAssumption
  <2>6. CASE Fresh(n, x, seen[t][x])'
    BY <2>6 DEF Fresh, FreshNext
  <2>7. QED
    BY <2>4, <2>5, <2>6
<1>2. CASE ~Private(t, x)
  <2>1. CASE seen'[t][x] = seen[t][x]
    <3> DEFINE v == seen[t][x]
    <3>1. v \in Nat /\ v <= mem[x]
      BY <1>2, SeenInMemory
    <3>2. \/ Fresh(n, x, v)
          \/ \E i \in Nodes : \E k \in 1 .. Len(log[i]) : Pending(n, i, k, x) /\ ThreadBound(t, i, k)
      BY <1>2 DEF CoverInv, ThreadCover
    <3> HIDE DEF v
    <3>3. CASE Fresh(n, x, v)
      BY <2>1, <3>1, <3>3, CoverStays DEF v
    <3>4. ASSUME NEW i \in Nodes, NEW k \in 1 .. Len(log[i]), Pending(n, i, k, x), ThreadBound(t, i, k)
          PROVE  Covered(t, n, x)
      <4>1. ThreadBound(t, i, k)'
        BY <1>0, <3>4, ThreadBoundStays
      <4>2. (k \in 1 .. Len(log'[i]) /\ Pending(n, i, k, x)') \/ FreshNext(n, x, v)
        BY <3>1, <3>4, CoverStays
      <4>3. QED
        BY <2>1, <4>1, <4>2 DEF v
    <3>5. QED
      BY <3>2, <3>3, <3>4
  <2>2. CASE AcquireDone(t) /\ seen'[t][x] = got[t][x]
    <3> DEFINE v == got[t][x]
    <3>0. Acquiring(t)
      BY <2>2 DEF AcquireDone, Acquiring
    <3>1. v \in Nat /\ v <= mem[x]
      BY Numbers DEF VersionInv, MemoryInv
    <3>2. \/ Fresh(n, x, v)
          \/ \E i \in Nodes : \E k \in 1 .. Len(log[i]) : Pending(n, i, k, x) /\ TargetBound(t, i, k)
      BY <3>0 DEF CoverInv, TargetCover
    <3> HIDE DEF v
    <3>3. CASE Fresh(n, x, v)
      BY <2>2, <3>1, <3>3, CoverStays DEF v
    <3>4. ASSUME NEW i \in Nodes, NEW k \in 1 .. Len(log[i]), Pending(n, i, k, x), TargetBound(t, i, k)
          PROVE  Covered(t, n, x)
      <4>1. k <= Target(t)[i]
        BY <1>0, <3>0, <3>4, TargetTypes DEF TargetBound, LocBound
      <4>2. thread_clock'[t][i] >= Target(t)[i] /\ Target(t)[i] \in Nat /\ thread_clock'[t][i] \in Nat
        <5>1. thread_clock' \in [Threads -> Clocks] /\ Target(t) \in Clocks
          BY <1>0, <3>0, TargetTypes DEF TypeOK
        <5>2. QED
          BY <2>2, <5>1, AcquiredEffect DEF Clocks
      <4>3. k <= thread_clock'[t][i]
        BY <4>1, <4>2
      <4>4. ThreadBound(t, i, k)'
        BY <4>3 DEF ThreadBound
      <4>5. (k \in 1 .. Len(log'[i]) /\ Pending(n, i, k, x)') \/ FreshNext(n, x, v)
        BY <3>1, <3>4, CoverStays
      <4>6. QED
        BY <2>2, <4>4, <4>5 DEF v
    <3>5. QED
      BY <3>2, <3>3, <3>4
  <2>3. ASSUME Store(t, x) PROVE FALSE
    <3>1. Written(t, x, latest[x] + 1) \/ StorePending(t, x)'
      BY <2>3, StoreEffect
    <3>2. QED
      BY <3>1 DEF Written, Private
  <2>4. QED
    BY <1>0, <2>1, <2>2, <2>3, SeenStep
<1>3. QED
  BY <1>1, <1>2

(* What a released thread hands to an object is covered by its clock.      *)
LEMMA ReleasedCover ==
  ASSUME TypeOK, TypeOK', ControlInv, ProtocolInv, Ordered, VersionInv, CoverInv, Next,
         NEW t \in Threads, pc[t] \in Releases, NEW n \in Nodes, NEW x \in Lines
  PROVE  \/ FreshNext(n, x, seen[t][x])
         \/ \E i \in Nodes : \E k \in 1 .. Len(log[i]) :
              /\ k \in 1 .. Len(log'[i]) /\ Pending(n, i, k, x)' /\ k <= thread_clock[t][i]
<1>1. ~Private(t, x)
  BY Released
<1> DEFINE v == seen[t][x]
<1>2. v \in Nat /\ v <= mem[x]
  BY <1>1, SeenInMemory
<1>3. \/ Fresh(n, x, v)
      \/ \E i \in Nodes : \E k \in 1 .. Len(log[i]) : Pending(n, i, k, x) /\ ThreadBound(t, i, k)
  BY <1>1 DEF CoverInv, ThreadCover
<1> HIDE DEF v
<1>4. CASE Fresh(n, x, v)
  BY <1>2, <1>4, CoverStays DEF v
<1>5. ASSUME NEW i \in Nodes, NEW k \in 1 .. Len(log[i]), Pending(n, i, k, x), ThreadBound(t, i, k)
      PROVE  FreshNext(n, x, v) \/ (k \in 1 .. Len(log'[i]) /\ Pending(n, i, k, x)' /\ k <= thread_clock[t][i])
  <2>1. k <= thread_clock[t][i]
    BY <1>5, ReleasedBound
  <2>2. (k \in 1 .. Len(log'[i]) /\ Pending(n, i, k, x)') \/ FreshNext(n, x, v)
    BY <1>2, <1>5, CoverStays
  <2>3. QED
    BY <2>1, <2>2
<1>6. QED
  BY <1>3, <1>4, <1>5 DEF v

(* What an object stands for stays covered by its clock, while the clock   *)
(* is not replaced.                                                        *)
LEMMA KeptCover ==
  ASSUME TypeOK, TypeOK', ControlInv, ProtocolInv, Ordered, VersionInv, CoverInv, Next,
         NEW a \in Locs, \A t \in Threads : AtomicStore(t) \/ Unlock(t) => obj[t] # a,
         NEW n \in Nodes, NEW x \in Lines
  PROVE  \/ FreshNext(n, x, loc_seen[a][x])
         \/ \E i \in Nodes : \E k \in 1 .. Len(log[i]) :
              /\ k \in 1 .. Len(log'[i]) /\ Pending(n, i, k, x)'
              /\ LocBound(a, i, k) /\ LocBound(a, i, k)'
<1> DEFINE v == loc_seen[a][x]
<1>0. ClaimInv
  BY DEF ProtocolInv
<1>2. v \in Nat /\ v <= mem[x]
  BY Numbers DEF VersionInv, MemoryInv
<1>3. \/ Fresh(n, x, v)
      \/ \E i \in Nodes : \E k \in 1 .. Len(log[i]) : Pending(n, i, k, x) /\ LocBound(a, i, k)
  BY DEF CoverInv, LocCover
<1> HIDE DEF v
<1>4. CASE Fresh(n, x, v)
  BY <1>2, <1>4, CoverStays DEF v
<1>5. ASSUME NEW i \in Nodes, NEW k \in 1 .. Len(log[i]), Pending(n, i, k, x), LocBound(a, i, k)
      PROVE  \/ FreshNext(n, x, v)
             \/ k \in 1 .. Len(log'[i]) /\ Pending(n, i, k, x)' /\ LocBound(a, i, k) /\ LocBound(a, i, k)'
  <2>1. LocBound(a, i, k)'
    BY <1>0, <1>5, LocBoundStays
  <2>2. (k \in 1 .. Len(log'[i]) /\ Pending(n, i, k, x)') \/ FreshNext(n, x, v)
    BY <1>2, <1>5, CoverStays
  <2>3. QED
    BY <1>5, <2>1, <2>2
<1>6. QED
  BY <1>3, <1>4, <1>5 DEF v

(* What an object stands for is covered by its clock.                      *)
LEMMA LocCoverStep ==
  ASSUME TypeOK, TypeOK', ControlInv, ProtocolInv, Ordered, VersionInv, CoverInv, Next
  PROVE  LocCover'
<1> DEFINE Covered(a, n, x) ==
        \/ FreshNext(n, x, loc_seen'[a][x])
        \/ \E i \in Nodes : \E k \in 1 .. Len(log'[i]) :
             Pending(n, i, k, x)' /\ LocBound(a, i, k)'
<1> SUFFICES ASSUME NEW a \in Locs, NEW n \in Nodes, NEW x \in Lines
             PROVE  Covered(a, n, x)
  BY DEF LocCover, FreshNext, Fresh
<1>0. /\ OpInv /\ ObjInv /\ WriterInv /\ loc_clock \in [Locs -> Clocks] /\ loc_seen \in [Locs -> Versions]
      /\ thread_clock \in [Threads -> Clocks] /\ seen \in [Threads -> Versions]
      /\ readers \in [SharedMutexes -> SUBSET Threads]
  BY DEF ControlInv, TypeOK
<1>1. ASSUME NEW t \in Threads, AtomicStore(t) \/ Unlock(t), obj[t] = a PROVE Covered(a, n, x)
  <2>1. /\ loc_clock' = [loc_clock EXCEPT ![a] = thread_clock[t]] /\ readers' = readers
        /\ loc_seen' = [loc_seen EXCEPT ![a] = seen[t]] /\ pc[t] \in Releases
    BY <1>1 DEF AtomicStore, Unlock, Releases, AtomicOps
  <2>2. loc_clock'[a] = thread_clock[t] /\ loc_seen'[a] = seen[t]
    BY <1>0, <2>1
  <2>3. a \in SharedMutexes => readers'[a] = {}
    <3>1. ASSUME AtomicStore(t), a \in SharedMutexes PROVE FALSE
      <4>1. obj[t] \in Atomics
        BY <1>0, <3>1 DEF AtomicStore, OpInv, ObjInv, ObjOf, Releases, AtomicOps
      <4>2. QED
        BY <1>1, <3>1, <4>1, CoherenceAssumption DEF CoherenceAssumption
    <3>2. ASSUME Unlock(t), a \in SharedMutexes PROVE readers[a] = {}
      <4>1. pc[t] = "unlock" /\ owner[a] = t /\ t # None
        BY <1>0, <1>1, <3>2, CoherenceAssumption
        DEF Unlock, OpInv, ObjInv, ObjOf, Releases, CoherenceAssumption
      <4>2. QED
        BY <1>0, <3>2, <4>1 DEF WriterInv
    <3>3. QED
      BY <1>1, <2>1, <3>1, <3>2
  <2>4. ASSUME NEW i \in Nodes, NEW k, k <= thread_clock[t][i] PROVE LocBound(a, i, k)'
    BY <2>2, <2>3, <2>4 DEF LocBound, Reader
  <2>5. QED
    BY <2>1, <2>2, <2>4, ReleasedCover
<1>2. CASE \A t \in Threads : AtomicStore(t) \/ Unlock(t) => obj[t] # a
  <2>1. CASE loc_seen'[a][x] = loc_seen[a][x]
    BY <1>2, <2>1, KeptCover
  <2>2. CASE loc_seen'[a][x] # loc_seen[a][x]
    <3>1. PICK t \in Threads : FetchAdd(t)
      <4>1. ASSUME NEW t \in Threads, AtomicStore(t) \/ Unlock(t) PROVE FALSE
        <5>1. obj[t] # a /\ loc_seen' = [loc_seen EXCEPT ![obj[t]] = seen[t]]
          BY <1>2, <4>1 DEF AtomicStore, Unlock
        <5>2. QED
          BY <1>0, <2>2, <5>1
      <4>2. QED
        BY <2>2, <4>1, FrameLocSeen
    <3>2. /\ pc[t] \in Releases
          /\ loc_clock' = [loc_clock EXCEPT ![obj[t]] = Merge(loc_clock[obj[t]], thread_clock[t])]
          /\ loc_seen' = [loc_seen EXCEPT ![obj[t]] = Merge(loc_seen[obj[t]], seen[t])]
      BY <3>1 DEF FetchAdd, Releases, AtomicOps
    <3>3. obj[t] = a /\ a \notin SharedMutexes
      <4>1. obj[t] \in Atomics
        BY <1>0, <3>1 DEF FetchAdd, OpInv, ObjInv, ObjOf, Releases, AtomicOps
      <4>2. obj[t] = a
        BY <1>0, <2>2, <3>2
      <4>3. QED
        BY <4>1, <4>2, CoherenceAssumption DEF CoherenceAssumption
    <3>4. loc_clock'[a] = Merge(loc_clock[a], thread_clock[t]) /\ loc_seen'[a] = Merge(loc_seen[a], seen[t])
      BY <1>0, <3>2, <3>3
    <3>5. loc_seen'[a][x] = seen[t][x]
      BY <1>0, <2>2, <3>4 DEF Merge, Versions
    <3>6. ASSUME NEW i \in Nodes, NEW k \in Nat, k <= thread_clock[t][i] PROVE LocBound(a, i, k)'
      <4>1. thread_clock[t][i] \in Nat /\ loc_clock[a][i] \in Nat /\ DOMAIN loc_clock[a] = Nodes
        BY <1>0 DEF Clocks
      <4>2. k <= loc_clock'[a][i]
        BY <3>4, <3>6, <4>1 DEF Merge
      <4>3. QED
        BY <3>3, <4>2 DEF LocBound
    <3>7. QED
      BY <3>2, <3>5, <3>6, ReleasedCover
  <2>3. QED
    BY <2>1, <2>2
<1>3. QED
  BY <1>1, <1>2

-----------------------------------------------------------------------------
(* How an acquire begins.                                                  *)
LEMMA AcquireBegins ==
  ASSUME TypeOK, ControlInv, Next, NEW t \in Threads, Acquiring(t)', ~Acquiring(t)
  PROVE  \/ \E a \in Atomics : AtomicLoad(t, a)
         \/ \E m \in Locs : Lock(t, m) \/ LockShared(t, m) \/ LockExclusive(t, m)
         \/ \E c \in Threads : Join(t, c)
         \/ FetchAdd(t) /\ pc[t] = "fetch_add"
         \/ Drain(t)
         \/ \E u \in Threads : Create(u) /\ obj[u] = t /\ u # t
<1>0. pc \in [Threads -> Labels] /\ op \in [Threads -> Operations] /\ OpInv /\ ObjInv
  BY DEF TypeOK, ControlInv
<1>1. ASSUME Keeps(t) PROVE FALSE
  BY <1>1 DEF Keeps, Acquiring
<1>2. CASE ThreadStarts(t)
  <2>1. ASSUME NEW x \in Lines, Store(t, x) \/ CheckDirty(t, x) PROVE FALSE
    BY <1>0, <2>1 DEF Store, CheckDirty, Goto, Acquiring
  <2>2. ASSUME NEW o \in Releases, NEW a, ThreadRelease(t, o, a) PROVE FALSE
    BY <1>0, <2>2 DEF ThreadRelease, Goto, Acquiring, Releases, AtomicOps
  <2>3. Mutexes \subseteq Locs /\ SharedMutexes \subseteq Locs /\ DOMAIN ParentOf \subseteq Threads
    BY CoherenceAssumption DEF CoherenceAssumption, Locs, Locks
  <2>4. QED
    BY <1>2, <2>1, <2>2, <2>3, StartCases
<1>3. CASE ThreadContinues(t)
  <2>1. ASSUME Insert(t) \/ Claim(t) \/ CheckClear(t) \/ AtomicStore(t) \/ Unlock(t) \/ Upgrade(t)
               \/ TakeWlock(t) \/ UnlockShared(t) \/ (\E i \in Nodes : CopyClock(t, i))
        PROVE  FALSE
    BY <1>0, <2>1 DEF Insert, Claim, CheckClear, AtomicStore, Unlock, Upgrade, TakeWlock,
      UnlockShared, CopyClock, EndOp, Goto, Acquiring
  <2>2. ASSUME Publish(t) PROVE FALSE
    <3>1. pc'[t] = op[t] /\ op[t] \in Releases \cup {"insert"}
      BY <1>0, <2>2 DEF Publish, Goto, OpInv
    <3>2. QED
      BY <3>1 DEF Acquiring, Releases, AtomicOps
  <2>3. ASSUME Create(t) PROVE FALSE
    <3>1. pc[t] = "create" /\ op[t] = "create" /\ pc' = [pc EXCEPT ![t] = "run", ![obj[t]] = "acquire"]
      BY <1>0, <2>3 DEF Create, OpInv, Releases
    <3>2. pc[obj[t]] = "unborn"
      BY <1>0, <3>1 DEF ObjInv, ObjOf
    <3>3. QED
      BY <1>0, <3>1, <3>2 DEF Acquiring
  <2>4. ASSUME (\E i \in Nodes : AcquireReady(t, i) \/ AcquireBehind(t, i))
               \/ HelpTryLock(t) \/ HelpConsume(t) \/ HelpUpdate(t) \/ HelpUnlock(t) \/ AcquireDone(t)
        PROVE  FALSE
    BY <2>4 DEF AcquireReady, AcquireBehind, HelpTryLock, HelpConsume, HelpUpdate, HelpUnlock,
      AcquireDone, Acquiring
  <2>5. ASSUME FetchAdd(t) PROVE pc[t] = "fetch_add"
    BY <1>0, <2>5 DEF FetchAdd, EndOp, Goto, Acquiring
  <2>6. QED
    BY <1>3, <2>1, <2>2, <2>3, <2>4, <2>5 DEF ThreadContinues
<1>4. ASSUME NEW u \in Threads, t # u, Join(u, t) PROVE FALSE
  BY <1>0, <1>4 DEF Join, Acquiring
<1>5. QED
  BY <1>0, <1>1, <1>2, <1>3, <1>4, ThreadMoves

(* While one thread moves from elsewhere, no clock of an object is         *)
(* replaced.                                                               *)
LEMMA NotReplaced ==
  ASSUME TypeOK, NEW t \in Threads, pc[t] \notin {"store", "unlock"}, NEW l,
         pc' = [pc EXCEPT ![t] = l]
  PROVE  \A u \in Threads : ~AtomicStore(u) /\ ~Unlock(u)
<1>0. pc \in [Threads -> Labels]
  BY DEF TypeOK
<1>1. QED
  BY <1>0 DEF AtomicStore, Unlock, EndOp, Goto

(* What an acquire is to see is covered by the clock it waits for, among    *)
(* the nodes it has still to wait for.                                     *)
CoveredTarget(t, n, x) ==
  \/ FreshNext(n, x, got'[t][x])
  \/ \E i \in Nodes : \E k \in 1 .. Len(log'[i]) :
       /\ Pending(n, i, k, x)' /\ TargetBound(t, i, k)'
       /\ n = NodeOf[t] => i \notin Done(t)'

(* An entry that the clock has passed is not pending: the two ways a node  *)
(* is done with another.                                                   *)
LEMMA DoneIsConsumed ==
  ASSUME TypeOK, ControlInv, ProtocolInv, Ordered, NEW t \in Threads, NEW i \in Nodes,
         NEW k \in Nat, NEW x, Pending(NodeOf[t], i, k, x), TargetBound(t, i, k), Acquiring(t),
         AcquireReady(t, i) \/ (HelpUpdate(t) /\ src[t] = i)
  PROVE  FALSE
<1> DEFINE n == NodeOf[t]
<1>0. n \in Nodes /\ ObjInv /\ MutexInv /\ ClockInv
  BY CoherenceAssumption DEF CoherenceAssumption, ControlInv, ProtocolInv
<1>1. Target(t) \in Clocks /\ k <= Target(t)[i]
  BY <1>0, TargetTypes DEF TargetBound, LocBound
<1>2. /\ head[n][i] \in Nat /\ clock[n][i] \in Nat /\ Target(t)[i] \in Nat /\ clk[t] \in Nat
  <2>1. head \in [Nodes -> Clocks] /\ clock \in [Nodes -> Clocks] /\ clk \in [Threads -> Nat]
    BY DEF TypeOK
  <2>2. QED
    BY <1>0, <1>1, <2>1 DEF Clocks
<1>3. clock[n][i] <= head[n][i]
  BY <1>0 DEF ClockInv
<1>4. k > head[n][i] \/ (EAGER_INVALIDATE /\ flushing[n] # {} /\ k > clock[n][i])
  BY DEF Pending
<1>5. CASE AcquireReady(t, i)
  <2>1. clock[n][i] >= Target(t)[i]
    BY <1>5 DEF AcquireReady
  <2>2. QED
    BY <1>1, <1>2, <1>3, <1>4, <2>1
<1>6. CASE HelpUpdate(t) /\ src[t] = i
  <2>1. pc[t] = "help" /\ clk[t] >= Target(t)[i] /\ FlushedBeforeStore(n)
    BY <1>6 DEF HelpUpdate
  <2>2. clk[t] <= head[n][i]
    BY <1>0, <1>6, <2>1 DEF ClockInv, IsLast
  <2>3. EAGER_INVALIDATE => flushing[n] = {}
    BY <1>0, <2>1 DEF MutexInv, Ordered, FlushedBeforeStore, Flushed
  <2>4. QED
    BY <1>1, <1>2, <1>4, <2>1, <2>2, <2>3
<1>7. QED
  BY <1>5, <1>6

(* An acquire that goes on keeps its cover.                                *)
LEMMA TargetCoverGoesOn ==
  ASSUME TypeOK, TypeOK', ControlInv, ProtocolInv, Ordered, VersionInv, CoverInv, Next,
         NEW t \in Threads, Acquiring(t), ~AcquireDone(t), NEW n \in Nodes, NEW x \in Lines
  PROVE  CoveredTarget(t, n, x)
<1> DEFINE v == got[t][x]
<1>0. got'[t] = got[t] /\ ClaimInv
  BY AcquireGoesOn DEF ProtocolInv
<1>1. v \in Nat /\ v <= mem[x]
  BY Numbers DEF VersionInv, MemoryInv
<1>2. \/ Fresh(n, x, v)
      \/ \E i \in Nodes : \E k \in 1 .. Len(log[i]) :
           /\ Pending(n, i, k, x) /\ TargetBound(t, i, k)
           /\ n = NodeOf[t] => i \notin Done(t)
  BY DEF CoverInv, TargetCover
<1> HIDE DEF v
<1>3. CASE Fresh(n, x, v)
  BY <1>0, <1>1, <1>3, CoverStays DEF v, CoveredTarget
<1>4. ASSUME NEW i \in Nodes, NEW k \in 1 .. Len(log[i]), Pending(n, i, k, x), TargetBound(t, i, k),
             n = NodeOf[t] => i \notin Done(t)
      PROVE  CoveredTarget(t, n, x)
  <2>1. TargetBound(t, i, k)'
    BY <1>0, <1>4, TargetBoundStays
  <2>2. (k \in 1 .. Len(log'[i]) /\ Pending(n, i, k, x)') \/ FreshNext(n, x, v)
    BY <1>1, <1>4, CoverStays
  <2>3. ASSUME n = NodeOf[t] PROVE i \notin Done(t)'
    <3>1. ~AcquireReady(t, i) /\ ~(HelpUpdate(t) /\ src[t] = i)
      BY <1>4, <2>3, DoneIsConsumed
    <3>2. QED
      BY <1>4, <2>3, <3>1, AcquireGoesOn
  <2>4. QED
    BY <1>0, <2>1, <2>2, <2>3 DEF v, CoveredTarget
<1>5. QED
  BY <1>2, <1>3, <1>4

(* A new acquire has only its own node behind it.                          *)
LEMMA FreshAcquire ==
  ASSUME NEW t \in Threads, pc'[t] = "acquire", node_done'[t] = {NodeOf[t]},
         NEW n \in Nodes, NEW i \in Nodes, NEW k, NEW x, Pending(n, i, k, x)'
  PROVE  n = NodeOf[t] => i \notin Done(t)'
BY DEF Done, Pending

(* An acquire begins with the cover of the clock it acquires.              *)
LEMMA TargetCoverBegins ==
  ASSUME TypeOK, TypeOK', ControlInv, ProtocolInv, Ordered, VersionInv, ReadersInv, CoverInv, Next,
         NEW t \in Threads, ~Acquiring(t), Acquiring(t)', NEW n \in Nodes, NEW x \in Lines
  PROVE  CoveredTarget(t, n, x)
<1>0. /\ OpInv /\ ObjInv /\ pc \in [Threads -> Labels] /\ node_done \in [Threads -> SUBSET Nodes]
      /\ obj \in [Threads -> Locs \cup Lines \cup Threads \cup {None}]
      /\ target \in [Threads -> Clocks] /\ got \in [Threads -> Versions]
  BY DEF ControlInv, TypeOK
<1>1. /\ loc_clock \in [Locs -> Clocks] /\ loc_seen \in [Locs -> Versions]
      /\ thread_clock \in [Threads -> Clocks] /\ seen \in [Threads -> Versions]
  BY DEF TypeOK
<1>2. None \notin Threads /\ None \notin Locs /\ Threads \cap Locs = {} /\ Atomics \subseteq Locs
  BY CoherenceAssumption DEF CoherenceAssumption, Locs
(* A copy of the clock of an object. *)
<1>3. ASSUME NEW a \in Atomics, AtomicLoad(t, a) PROVE CoveredTarget(t, n, x)
  <2>1. /\ pc[t] = "run" /\ pc' = [pc EXCEPT ![t] = "acquire"] /\ obj'[t] = None
        /\ target'[t] = loc_clock[a] /\ got'[t] = loc_seen[a] /\ node_done'[t] = {NodeOf[t]}
    BY <1>0, <1>3 DEF AtomicLoad, AcquireCopy, Goto
  <2>2. \A u \in Threads : AtomicStore(u) \/ Unlock(u) => obj[u] # a
    BY <2>1, NotReplaced
  <2>3. ASSUME NEW i \in Nodes, NEW k, LocBound(a, i, k) PROVE TargetBound(t, i, k)'
    BY <1>2, <2>1, <2>3 DEF TargetBound, LocBound
  <2>4. pc'[t] = "acquire" /\ a \in Locs
    BY <1>0, <1>2, <2>1
  <2>5. \/ FreshNext(n, x, loc_seen[a][x])
        \/ \E i \in Nodes : \E k \in 1 .. Len(log[i]) :
              /\ k \in 1 .. Len(log'[i]) /\ Pending(n, i, k, x)' /\ LocBound(a, i, k)
    BY <2>2, <2>4, KeptCover
  <2>6. QED
    BY <2>1, <2>3, <2>4, <2>5, FreshAcquire DEF CoveredTarget
(* A reference to the clock of an object. *)
<1>4. ASSUME NEW m \in Locs, pc[t] \in {"run", "drain"}, pc' = [pc EXCEPT ![t] = "acquire"],
             obj'[t] = m, got'[t][x] = loc_seen[m][x], node_done'[t] = {NodeOf[t]}
      PROVE  CoveredTarget(t, n, x)
  <2>1. \A u \in Threads : AtomicStore(u) \/ Unlock(u) => obj[u] # m
    BY <1>4, NotReplaced
  <2>2. ASSUME NEW i \in Nodes, NEW k, LocBound(m, i, k)' PROVE TargetBound(t, i, k)'
    BY <1>2, <1>4, <2>2 DEF TargetBound, LocBound
  <2>3. pc'[t] = "acquire"
    BY <1>0, <1>4
  <2>4. \/ FreshNext(n, x, loc_seen[m][x])
        \/ \E i \in Nodes : \E k \in 1 .. Len(log[i]) :
              /\ k \in 1 .. Len(log'[i]) /\ Pending(n, i, k, x)' /\ LocBound(m, i, k)'
    BY <2>1, KeptCover
  <2>5. QED
    BY <1>4, <2>2, <2>3, <2>4, FreshAcquire DEF CoveredTarget
<1>5. ASSUME NEW m \in Locs, Lock(t, m) \/ LockShared(t, m) \/ LockExclusive(t, m)
      PROVE  CoveredTarget(t, n, x)
  <2>1. /\ pc[t] = "run" /\ pc' = [pc EXCEPT ![t] = "acquire"]
        /\ obj'[t] = m /\ got'[t] = loc_seen[m] /\ node_done'[t] = {NodeOf[t]}
    BY <1>0, <1>5 DEF Lock, LockShared, LockExclusive, AcquireRef, Goto
  <2>2. QED
    BY <1>4, <2>1
<1>6. ASSUME Drain(t) PROVE CoveredTarget(t, n, x)
  <2>1. /\ pc[t] = "drain" /\ pc' = [pc EXCEPT ![t] = "acquire"]
        /\ obj'[t] = obj[t] /\ got'[t] = Merge(loc_seen[obj[t]], read_seen[obj[t]])
        /\ node_done'[t] = {NodeOf[t]}
    BY <1>0, <1>6 DEF Drain, AcquireRef, Goto
  <2>2. obj[t] \in SharedMutexes /\ obj[t] \in Locs
    BY <1>0, <2>1 DEF OpInv, ObjInv, ObjOf, Locs, Locks
  <2>3. /\ DOMAIN loc_seen[obj[t]] = Lines /\ loc_seen[obj[t]][x] \in Nat
        /\ read_seen[obj[t]][x] = 0
    BY <1>1, <2>2 DEF Versions, ReadersInv, Ordered
  <2>4. got'[t][x] = loc_seen[obj[t]][x]
    BY <2>1, <2>3 DEF Merge
  <2>5. PICK m \in Locs : m = obj[t]
    BY <2>2
  <2>6. QED
    BY <1>4, <2>1, <2>4, <2>5
(* The clock of a thread. *)
<1>7. ASSUME NEW u \in Threads, pc[u] \in Releases, pc'[t] = "acquire", thread_clock' = thread_clock,
             obj'[t] = u, got'[t] = seen[u], node_done'[t] = {NodeOf[t]}
      PROVE  CoveredTarget(t, n, x)
  <2>1. ASSUME NEW i \in Nodes, NEW k, k <= thread_clock[u][i] PROVE TargetBound(t, i, k)'
    BY <1>2, <1>7, <2>1 DEF TargetBound
  <2>2. QED
    BY <1>7, <2>1, ReleasedCover, FreshAcquire DEF CoveredTarget
<1>8. ASSUME NEW c \in Threads, Join(t, c) PROVE CoveredTarget(t, n, x)
  <2>1. /\ pc[t] = "run" /\ pc[c] = "exit" /\ pc' = [pc EXCEPT ![t] = "acquire", ![c] = "joined"]
        /\ obj'[t] = c /\ got'[t] = seen[c] /\ node_done'[t] = {NodeOf[t]}
        /\ thread_clock' = thread_clock
    BY <1>0, <1>8 DEF Join, AcquireRef, OtherThanSync
  <2>2. pc'[t] = "acquire" /\ pc[c] \in Releases
    BY <1>0, <2>1 DEF Releases
  <2>3. QED
    BY <1>7, <2>1, <2>2
<1>9. ASSUME NEW u \in Threads, Create(u), obj[u] = t, u # t PROVE CoveredTarget(t, n, x)
  <2>1. /\ pc[u] = "create" /\ pc' = [pc EXCEPT ![u] = "run", ![t] = "acquire"]
        /\ obj' = [obj EXCEPT ![u] = None, ![t] = u] /\ got'[t] = seen[u]
        /\ node_done'[t] = {NodeOf[t]} /\ thread_clock' = thread_clock
    BY <1>0, <1>9 DEF Create, OtherThanSync
  <2>2. pc'[t] = "acquire" /\ obj'[t] = u /\ pc[u] \in Releases
    BY <1>0, <1>9, <2>1 DEF Releases
  <2>3. QED
    BY <1>7, <2>1, <2>2
(* The merged clock that fetch_add leaves in the atomic. *)
<1>10. ASSUME FetchAdd(t), pc[t] = "fetch_add" PROVE CoveredTarget(t, n, x)
  <2>1. obj[t] \in Atomics /\ pc[t] \in Releases
    BY <1>0, <1>10 DEF OpInv, ObjInv, ObjOf, Releases, AtomicOps
  <2>2. PICK a \in Locs : a = obj[t]
    BY <1>2, <2>1
  <2>3. /\ pc' = [pc EXCEPT ![t] = "acquire"] /\ obj'[t] = None
        /\ target'[t] = Merge(loc_clock[a], thread_clock[t]) /\ got'[t] = Merge(loc_seen[a], seen[t])
        /\ node_done'[t] = {NodeOf[t]}
    BY <1>0, <1>10, <2>2 DEF FetchAdd, AcquireCopy, Goto
  <2>4. \A u \in Threads : AtomicStore(u) \/ Unlock(u) => obj[u] # a
    BY <1>10, <2>3, NotReplaced
  <2>5. pc'[t] = "acquire"
    BY <1>0, <2>3
  <2>6. ASSUME NEW i \in Nodes, NEW k \in Nat, k <= loc_clock[a][i] \/ k <= thread_clock[t][i]
        PROVE  TargetBound(t, i, k)'
    <3>1. DOMAIN loc_clock[a] = Nodes /\ loc_clock[a][i] \in Nat /\ thread_clock[t][i] \in Nat
      BY <1>1 DEF Clocks
    <3>2. k <= target'[t][i]
      BY <2>3, <2>6, <3>1 DEF Merge
    <3>3. QED
      BY <1>2, <2>3, <3>2 DEF TargetBound
  <2>7. got'[t][x] \in {loc_seen[a][x], seen[t][x]}
    <3>1. DOMAIN loc_seen[a] = Lines
      BY <1>1 DEF Versions
    <3>2. QED
      BY <2>3, <3>1 DEF Merge
  <2>8. CASE got'[t][x] = loc_seen[a][x]
    <3>1. \/ FreshNext(n, x, loc_seen[a][x])
          \/ \E i \in Nodes : \E k \in 1 .. Len(log[i]) :
                /\ k \in 1 .. Len(log'[i]) /\ Pending(n, i, k, x)' /\ k <= loc_clock[a][i]
      BY <2>4, KeptCover DEF LocBound
    <3>2. QED
      BY <2>3, <2>5, <2>6, <2>8, <3>1, FreshAcquire DEF CoveredTarget
  <2>9. CASE got'[t][x] = seen[t][x]
    BY <2>1, <2>3, <2>5, <2>6, <2>9, ReleasedCover, FreshAcquire DEF CoveredTarget
  <2>10. QED
    BY <2>7, <2>8, <2>9
<1>11. QED
  BY <1>3, <1>5, <1>6, <1>8, <1>9, <1>10, AcquireBegins

(* Together.                                                               *)
LEMMA TargetCoverStep ==
  ASSUME TypeOK, TypeOK', ControlInv, ProtocolInv, Ordered, VersionInv, ReadersInv, CoverInv, Next
  PROVE  TargetCover'
<1> SUFFICES ASSUME NEW t \in Threads, NEW n \in Nodes, NEW x \in Lines, Acquiring(t)'
             PROVE  CoveredTarget(t, n, x)
  BY DEF TargetCover, CoveredTarget, FreshNext, Fresh
<1>1. ASSUME AcquireDone(t) PROVE FALSE
  <2>1. pc \in [Threads -> Labels] /\ OpInv
    BY DEF TypeOK, ControlInv
  <2>2. pc'[t] \in {"run", "upgrade"}
    BY <1>1, <2>1 DEF AcquireDone, Goto, OpInv, Acquiring
  <2>3. QED
    BY <2>2 DEF Acquiring
<1>2. QED
  BY <1>1, TargetCoverGoesOn, TargetCoverBegins

-----------------------------------------------------------------------------
(* A thread never has an older copy than it must have.                     *)
LEMMA NoStaleReadStep ==
  ASSUME TypeOK, TypeOK', ControlInv, ProtocolInv, Ordered, VersionInv, CoverInv, NoStaleRead, Next
  PROVE  NoStaleRead'
<1> SUFFICES ASSUME NEW t \in Threads, NEW x \in Lines
             PROVE  FreshNext(NodeOf[t], x, Known(t, x)')
  BY DEF NoStaleRead, FreshNext, IsDirty
<1> DEFINE n == NodeOf[t]
<1>0. /\ n \in Nodes /\ BoundInv /\ seen[t][x] \in Nat /\ got[t][x] \in Nat
      /\ mem[x] \in Nat /\ latest[x] \in Nat /\ OpInv
  BY CoherenceAssumption, Numbers DEF CoherenceAssumption, VersionInv, ControlInv
<1>1. CASE Known(t, x)' = Known(t, x)
  <2> DEFINE v == Known(t, x)
  <2>1. v \in Int /\ v <= latest[x] /\ (v <= mem[x] \/ x \in modified[n])
    BY <1>0 DEF Known, VersionInv, BoundInv, MemoryInv
  <2>2. Fresh(n, x, v)
    BY DEF NoStaleRead, IsDirty, Fresh
  <2> HIDE DEF v
  <2>3. FreshNext(n, x, v)
    BY <1>0, <2>1, <2>2, FreshStays
  <2>4. QED
    BY <1>1, <2>3 DEF v
<1>2. CASE Known(t, x)' = got[t][x] /\ AcquireDone(t)
  <2> DEFINE v == got[t][x]
  <2>1. Acquiring(t) /\ Nodes \subseteq Done(t)
    BY <1>2 DEF AcquireDone, Acquiring, Done
  <2>2. Fresh(n, x, v)
    BY <1>0, <2>1 DEF CoverInv, TargetCover
  <2>3. v \in Nat /\ v <= mem[x]
    BY <1>0 DEF VersionInv, MemoryInv
  <2> HIDE DEF v
  <2>4. FreshNext(n, x, v)
    BY <1>0, <2>2, <2>3, CoverStays
  <2>5. QED
    BY <1>2, <2>4 DEF v
<1>3. CASE Known(t, x)' = seen'[t][x] /\ Store(t, x) /\ Written(t, x, latest[x] + 1)
  <2>1. seen'[t][x] = latest[x] + 1 /\ cache'[n][x] = latest[x] + 1
    BY <1>3, StoreCounts DEF Written
  <2>2. QED
    BY <1>0, <1>3, <2>1 DEF FreshNext
<1>4. CASE Known(t, x)' = seen'[t][x] /\ Insert(t) /\ obj[t] = x /\ Written(t, x, seen[t][x])
  <2>1. seen'[t][x] = seen[t][x] /\ cache'[n][x] = seen[t][x]
    BY <1>4, InsertEffect DEF Written
  <2>2. QED
    BY <1>0, <1>4, <2>1 DEF FreshNext
<1>5. QED
  BY <1>0, <1>1, <1>2, <1>3, <1>4, KnownStep

-----------------------------------------------------------------------------
(* The invariants of every build, and those of the ordered ones.           *)
VersionState == ProtocolState /\ VersionInv

CoveredState == VersionState /\ Ordered /\ ReadersInv /\ CoverInv /\ NoStaleRead

(* Initially every copy is the first version.                              *)
LEMMA VersionsInit == Init => VersionInv /\ ReadersInv /\ CoverInv /\ NoStaleRead
<1> SUFFICES ASSUME Init PROVE VersionInv /\ ReadersInv /\ CoverInv /\ NoStaleRead
  OBVIOUS
<1>1. /\ \A x \in Lines : mem[x] = 0 /\ latest[x] = 0
      /\ \A n \in Nodes, x \in Lines : cache[n][x] = 0
      /\ \A n \in Nodes : modified[n] = {}
      /\ \A t \in Threads, x \in Lines : seen[t][x] = 0 /\ got[t][x] = 0
      /\ \A a \in Locs, x \in Lines : loc_seen[a][x] = 0
      /\ \A m \in SharedMutexes, x \in Lines : read_seen[m][x] = 0
  BY DEF Init
<1>2. \A t \in Threads : pc[t] \in {"run", "unborn"} /\ op[t] = None /\ dirty_cls[t] = {}
  BY DEF Init
<1>3. \A t \in Threads, x \in Lines : ~StorePending(t, x) /\ ~Private(t, x) /\ Known(t, x) = 0
  BY <1>1, <1>2 DEF StorePending, Private, Known, None
<1>4. NodeOf \in [Threads -> Nodes]
  BY CoherenceAssumption DEF CoherenceAssumption
<1>5. VersionInv
  BY <1>1, <1>2, <1>3, <1>4 DEF VersionInv, BoundInv, PrivateInv, ModifiedInv, MemoryInv, CheckInv
<1>6. CoverInv
  BY <1>1, <1>2 DEF CoverInv, ThreadCover, LocCover, TargetCover, Fresh, Acquiring
<1>7. NoStaleRead
  BY <1>1, <1>3, <1>4 DEF NoStaleRead
<1>8. QED
  BY <1>1, <1>5, <1>6, <1>7 DEF ReadersInv

(* The invariants are about the variables only.                            *)
LEMMA VersionsStutter ==
  ASSUME UNCHANGED vars
  PROVE  /\ VersionInv => VersionInv'
         /\ Ordered /\ ReadersInv /\ CoverInv /\ NoStaleRead =>
              Ordered' /\ ReadersInv' /\ CoverInv' /\ NoStaleRead'
<1> USE DEF vars, hwVars, invVars, agentVars, helpVars, logVars, storeVars, histVars, syncVars
<1>0. /\ build' = build /\ mem' = mem /\ cache' = cache /\ modified' = modified
      /\ flushing' = flushing /\ inv_cls' = inv_cls /\ log' = log /\ head' = head /\ clock' = clock
      /\ pc' = pc /\ op' = op /\ obj' = obj /\ recent_cl' = recent_cl /\ dirty_cls' = dirty_cls
      /\ thread_clock' = thread_clock /\ pos' = pos /\ target' = target /\ node_done' = node_done
      /\ src' = src /\ loc_clock' = loc_clock /\ readers' = readers /\ latest' = latest
      /\ seen' = seen /\ loc_seen' = loc_seen /\ got' = got /\ read_seen' = read_seen
  OBVIOUS
<1>1. VersionInv => VersionInv'
  BY <1>0 DEF VersionInv, BoundInv, PrivateInv, ModifiedInv, MemoryInv, CheckInv, Private,
    StorePending, Known
<1>2. Ordered /\ ReadersInv => Ordered' /\ ReadersInv'
  BY <1>0 DEF Ordered, ReadersInv, CONSUME_HELPING, EAGER_INVALIDATE, INVALIDATE_INST
<1>3. ThreadCover => ThreadCover'
  BY <1>0 DEF ThreadCover, Private, StorePending, Fresh, Pending, ThreadBound, EAGER_INVALIDATE
<1>4. LocCover => LocCover'
  BY <1>0 DEF LocCover, Fresh, Pending, LocBound, Reader, Acquiring, EAGER_INVALIDATE
<1>5. TargetCover => TargetCover'
  BY <1>0 DEF TargetCover, Fresh, Pending, TargetBound, LocBound, Reader, Acquiring, Done,
    EAGER_INVALIDATE
<1>6. NoStaleRead => NoStaleRead'
  BY <1>0 DEF NoStaleRead, IsDirty, Known, StorePending
<1>7. QED
  BY <1>1, <1>2, <1>3, <1>4, <1>5, <1>6 DEF CoverInv

(* The invariant of every build is inductive.                              *)
LEMMA VersionStateStep == VersionState /\ [Next]_vars => VersionState'
<1> SUFFICES ASSUME VersionState, [Next]_vars PROVE VersionState'
  OBVIOUS
<1>1. ProtocolState'
  BY ProtocolStep DEF VersionState
<1>2. CASE Next
  <2>1. VersionInv'
    BY <1>1, <1>2, VersionStep DEF VersionState, ProtocolState
  <2>2. QED
    BY <1>1, <2>1 DEF VersionState
<1>3. CASE UNCHANGED vars
  BY <1>1, <1>3, VersionsStutter DEF VersionState
<1>4. QED
  BY <1>2, <1>3

(* So is the one of the ordered builds.                                    *)
LEMMA CoveredStateStep == CoveredState /\ [Next]_vars => CoveredState'
<1> SUFFICES ASSUME CoveredState, [Next]_vars PROVE CoveredState'
  OBVIOUS
<1>1. VersionState' /\ ProtocolState' /\ TypeOK'
  BY VersionStateStep DEF CoveredState, VersionState, ProtocolState
<1>2. CASE Next
  <2>0. TypeOK /\ ControlInv /\ ProtocolInv /\ VersionInv /\ Ordered /\ ReadersInv /\ CoverInv /\ NoStaleRead
    BY DEF CoveredState, VersionState, ProtocolState
  <2>1. Ordered'
    BY <1>2, <2>0, FrameBuild DEF Ordered, CONSUME_HELPING, EAGER_INVALIDATE, INVALIDATE_INST
  <2>2. ReadersInv'
    <3>1. ASSUME NEW m \in SharedMutexes, NEW x \in Lines, ~ReadersRelease PROVE read_seen'[m][x] = 0
      BY <1>2, <2>0, <3>1, ReadSeenStep DEF ReadersInv
    <3>2. QED
      BY <3>1 DEF ReadersInv
  <2>3. CoverInv'
    BY <1>1, <1>2, <2>0, ThreadCoverStep, LocCoverStep, TargetCoverStep DEF CoverInv
  <2>4. NoStaleRead'
    BY <1>1, <1>2, <2>0, NoStaleReadStep
  <2>5. QED
    BY <1>1, <2>1, <2>2, <2>3, <2>4 DEF CoveredState
<1>3. CASE UNCHANGED vars
  BY <1>1, <1>3, VersionsStutter DEF CoveredState
<1>4. QED
  BY <1>2, <1>3

(* In every build, and whatever a program takes for a release, versions    *)
(* are as VersionInv says: a store that is not published is known to its   *)
(* thread alone, and what others know of is in memory.                     *)
THEOREM VersionsHold == Spec => []VersionState
<1>1. Init => VersionState
  BY ProtocolInit, VersionsInit DEF VersionState
<1>2. QED
  BY <1>1, VersionStateStep, PTL DEF Spec

(* Write-backs, evictions and flushes, in any order, never put an older    *)
(* version of a line in place of a newer one in memory, in any build.      *)
THEOREM MemoryMovesForward == Spec => MemoryForward
<1>1. VersionState /\ [Next]_vars => [\A x \in Lines : mem'[x] >= mem[x]]_vars
  <2> SUFFICES ASSUME VersionState, Next PROVE \A x \in Lines : mem'[x] >= mem[x]
    OBVIOUS
  <2>1. QED
    BY MemoryGrows DEF VersionState, ProtocolState, VersionInv
<1>2. QED
  BY <1>1, VersionsHold, PTL DEF Spec, MemoryForward

(* Coherence: in the ordered builds, for any number of nodes, threads,     *)
(* lines and objects, a thread that loads a line gets a store at least as  *)
(* recent as the last one that happens before.                             *)
THEOREM Coherent == Spec /\ Ordered => []NoStaleRead
<1>1. Init /\ Ordered => CoveredState
  BY ProtocolInit, VersionsInit DEF CoveredState, VersionState
<1>2. CoveredState => NoStaleRead
  BY DEF CoveredState
<1>3. QED
  BY <1>1, <1>2, CoveredStateStep, PTL DEF Spec
===============================================================================
