--------------------------- MODULE Coherence_proofs ---------------------------
(* Theorems about the coherence protocol of module Coherence that hold in  *)
(* every build: types, control, the log head mutex and the clocks.         *)
EXTENDS CoherenceInvariant, TLAPS

-----------------------------------------------------------------------------
(* The release operations a thread may start, with their objects.          *)
MayRelease(t, o, a) ==
  \/ o \in AtomicOps /\ a \in Atomics
  \/ o = "unlock" /\ a \in Locks /\ owner[a] = t
  \/ o = "unlock_shared" /\ a \in SharedMutexes /\ t \in readers[a]
  \/ o = "create" /\ a \in DOMAIN ParentOf /\ ParentOf[a] = t /\ pc[a] = "unborn"
  \/ o = "exit" /\ a = None

(* The steps a program can start are the ones of ThreadStarts.             *)
LEMMA StartCases ==
  ASSUME NEW t \in Threads, ThreadStarts(t)
  PROVE  \/ \E x \in Lines : Store(t, x) \/ CheckDirty(t, x)
         \/ \E o \in Releases : \E a \in Locs \cup Threads \cup {None} :
              MayRelease(t, o, a) /\ ThreadRelease(t, o, a)
         \/ \E a \in Atomics : AtomicLoad(t, a)
         \/ \E m \in Mutexes : Lock(t, m)
         \/ \E m \in SharedMutexes : LockShared(t, m) \/ LockExclusive(t, m)
         \/ \E c \in DOMAIN ParentOf : ParentOf[c] = t /\ Join(t, c)
<1> USE CoherenceAssumption DEF CoherenceAssumption, MayRelease, Releases, AtomicOps
<1>1. CASE \E a \in Atomics : \E o \in ReleaseOps : ThreadRelease(t, o, a)
  BY <1>1 DEF Locs
<1>2. CASE \E m \in {k \in Locks : owner[k] = t} : ThreadRelease(t, "unlock", m)
  BY <1>2 DEF Locs
<1>3. CASE \E m \in {k \in SharedMutexes : t \in readers[k]} : ThreadRelease(t, "unlock_shared", m)
  BY <1>3 DEF Locs, Locks
<1>4. CASE \E c \in {k \in DOMAIN ParentOf : ParentOf[k] = t} :
             pc[c] = "unborn" /\ ThreadRelease(t, "create", c)
  BY <1>4
<1>5. CASE t \in DOMAIN ParentOf /\ ThreadRelease(t, "exit", None)
  BY <1>5
<1>6. QED
  BY <1>1, <1>2, <1>3, <1>4, <1>5 DEF ThreadStarts

-----------------------------------------------------------------------------
(* Types.                                                                  *)

(* The pointwise maximum of clocks and of versions.                        *)
LEMMA MergeTypes ==
  /\ \A u, v \in Clocks : /\ Merge(u, v) \in Clocks
                          /\ \A i \in Nodes : /\ Merge(u, v)[i] >= u[i]
                                              /\ Merge(u, v)[i] >= v[i]
                                              /\ Merge(u, v)[i] \in {u[i], v[i]}
  /\ \A u, v \in Versions : /\ Merge(u, v) \in Versions
                            /\ \A x \in Lines : /\ Merge(u, v)[x] >= u[x]
                                                /\ Merge(u, v)[x] >= v[x]
                                                /\ Merge(u, v)[x] \in {u[x], v[x]}
BY DEF Merge, Clocks, Versions

(* The clock an acquiring thread reads is a clock, of the kind of its      *)
(* object.                                                                 *)
LEMMA TargetTypes ==
  ASSUME TypeOK, ObjInv, NEW t \in Threads, Acquiring(t)
  PROVE  /\ Target(t) \in Clocks
         /\ obj[t] = None => Target(t) = target[t]
         /\ obj[t] \in Threads => Target(t) = thread_clock[obj[t]]
         /\ obj[t] \in Locs => Target(t) = loc_clock[obj[t]]
         /\ obj[t] = None \/ obj[t] \in Threads \/ obj[t] \in Locs
<1> USE CoherenceAssumption DEF CoherenceAssumption
<1>1. obj[t] = None \/ obj[t] \in Threads \/ obj[t] \in Locs
  BY DEF ObjInv, ObjOf, Locs, Locks
<1>2. CASE obj[t] = None
  BY <1>2 DEF TypeOK, Target
<1>3. CASE obj[t] \in Threads
  BY <1>3 DEF TypeOK, Target
<1>4. CASE obj[t] \in Locs
  BY <1>4 DEF TypeOK, Target
<1>5. QED
  BY <1>1, <1>2, <1>3, <1>4

-----------------------------------------------------------------------------
(* What may change each part of the state.                                 *)

LEMMA FrameHardware ==
  ASSUME Next
  PROVE  \/ UNCHANGED <<mem, cache, modified>>
         \/ \E t \in Threads :
              \/ \E x \in Lines : Store(t, x)
              \/ Insert(t) \/ Claim(t)
         \/ \E n \in Nodes, x \in Lines : Evict(n, x) \/ Invalidated(n, x)
<1> USE DEF OtherThanHw, OtherThanSync, OtherThanHelp, OtherThanAgent, hwVars,
  invVars, agentVars, helpVars, logVars, storeVars, histVars, syncVars
<1>1. ASSUME NEW t \in Threads, ThreadStarts(t),
             \A x \in Lines : ~Store(t, x)
      PROVE  UNCHANGED <<mem, cache, modified>>
  BY <1>1, StartCases DEF CheckDirty, ThreadRelease, AtomicLoad, Lock, LockShared,
    LockExclusive, Join
<1>2. ASSUME NEW t \in Threads, ThreadContinues(t), ~Insert(t), ~Claim(t)
      PROVE  UNCHANGED <<mem, cache, modified>>
  BY <1>2 DEF ThreadContinues, Publish, CheckClear, AtomicStore, FetchAdd, Unlock,
    Create, Upgrade, TakeWlock, Drain, UnlockShared, CopyClock, AcquireReady,
    AcquireBehind, HelpTryLock, HelpConsume, HelpUpdate, HelpUnlock, AcquireDone
<1>3. ASSUME NEW n \in Nodes, AgentStep(n)
      PROVE  UNCHANGED <<mem, cache, modified>>
  BY <1>3 DEF AgentStep, AgentLock, AgentConsume, AgentUpdate, AgentUnlock
<1>4. ASSUME NEW n \in Nodes, NEW x \in Lines, HardwareStep(n, x), ~Evict(n, x), ~Invalidated(n, x)
      PROVE  UNCHANGED <<mem, cache, modified>>
  BY <1>4 DEF HardwareStep
<1>5. QED
  BY <1>1, <1>2, <1>3, <1>4 DEF Next

(* Which steps issue or complete invalidations.                            *)
LEMMA FrameFlushing ==
  ASSUME Next
  PROVE  \/ UNCHANGED flushing
         \/ \E t \in Threads :
              \/ \E x \in Lines : CheckDirty(t, x)
              \/ HelpConsume(t)
         \/ \E n \in Nodes : AgentConsume(n)
         \/ \E n \in Nodes, x \in Lines : Invalidated(n, x)
<1> USE DEF OtherThanHw, OtherThanSync, OtherThanHelp, OtherThanAgent, hwVars,
  invVars, agentVars, helpVars, logVars, storeVars, histVars, syncVars
<1>1. ASSUME NEW t \in Threads, ThreadStarts(t),
             \A x \in Lines : ~CheckDirty(t, x)
      PROVE  UNCHANGED flushing
  BY <1>1, StartCases DEF Store, ThreadRelease, AtomicLoad, Lock, LockShared,
    LockExclusive, Join
<1>2. ASSUME NEW t \in Threads, ThreadContinues(t), ~HelpConsume(t)
      PROVE  UNCHANGED flushing
  BY <1>2 DEF ThreadContinues, Insert, Claim, Publish, CheckClear, AtomicStore,
    FetchAdd, Unlock, Create, Upgrade, TakeWlock, Drain, UnlockShared, CopyClock,
    AcquireReady, AcquireBehind, HelpTryLock, HelpUpdate, HelpUnlock, AcquireDone
<1>3. ASSUME NEW n \in Nodes, AgentStep(n), ~AgentConsume(n)
      PROVE  UNCHANGED flushing
  BY <1>3 DEF AgentStep, AgentLock, AgentUpdate, AgentUnlock
<1>4. ASSUME NEW n \in Nodes, NEW x \in Lines, HardwareStep(n, x), ~Invalidated(n, x)
      PROVE  UNCHANGED flushing
  BY <1>4 DEF HardwareStep, Evict
<1>5. QED
  BY <1>1, <1>2, <1>3, <1>4 DEF Next

(* Which steps mark or unmark lines.                                       *)
LEMMA FrameMarks ==
  ASSUME Next
  PROVE  \/ UNCHANGED inv_cls
         \/ \E t \in Threads : CheckClear(t) \/ HelpConsume(t)
         \/ \E n \in Nodes : AgentConsume(n)
<1> USE DEF OtherThanHw, OtherThanSync, OtherThanHelp, OtherThanAgent, hwVars,
  invVars, agentVars, helpVars, logVars, storeVars, histVars, syncVars
<1>1. ASSUME NEW t \in Threads, ThreadStarts(t)
      PROVE  UNCHANGED inv_cls
  BY <1>1, StartCases DEF Store, CheckDirty, ThreadRelease, AtomicLoad, Lock,
    LockShared, LockExclusive, Join
<1>2. ASSUME NEW t \in Threads, ThreadContinues(t), ~CheckClear(t), ~HelpConsume(t)
      PROVE  UNCHANGED inv_cls
  BY <1>2 DEF ThreadContinues, Insert, Claim, Publish, AtomicStore, FetchAdd, Unlock,
    Create, Upgrade, TakeWlock, Drain, UnlockShared, CopyClock, AcquireReady,
    AcquireBehind, HelpTryLock, HelpUpdate, HelpUnlock, AcquireDone
<1>3. ASSUME NEW n \in Nodes, AgentStep(n), ~AgentConsume(n)
      PROVE  UNCHANGED inv_cls
  BY <1>3 DEF AgentStep, AgentLock, AgentUpdate, AgentUnlock
<1>4. ASSUME NEW n \in Nodes, NEW x \in Lines, HardwareStep(n, x)
      PROVE  UNCHANGED inv_cls
  BY <1>4 DEF HardwareStep, Evict, Invalidated
<1>5. QED
  BY <1>1, <1>2, <1>3, <1>4 DEF Next

(* Which steps write the logs.                                             *)
LEMMA FrameLog ==
  ASSUME Next
  PROVE  \/ UNCHANGED log
         \/ \E t \in Threads : Claim(t) \/ Publish(t)
<1> USE DEF OtherThanHw, OtherThanSync, OtherThanHelp, OtherThanAgent, hwVars,
  invVars, agentVars, helpVars, logVars, storeVars, histVars, syncVars
<1>1. ASSUME NEW t \in Threads, ThreadStarts(t)
      PROVE  UNCHANGED log
  BY <1>1, StartCases DEF Store, CheckDirty, ThreadRelease, AtomicLoad, Lock,
    LockShared, LockExclusive, Join
<1>2. ASSUME NEW t \in Threads, ThreadContinues(t), ~Claim(t), ~Publish(t)
      PROVE  UNCHANGED log
  BY <1>2 DEF ThreadContinues, Insert, CheckClear, AtomicStore, FetchAdd, Unlock,
    Create, Upgrade, TakeWlock, Drain, UnlockShared, CopyClock, AcquireReady,
    AcquireBehind, HelpTryLock, HelpConsume, HelpUpdate, HelpUnlock, AcquireDone
<1>3. ASSUME NEW n \in Nodes, AgentStep(n)
      PROVE  UNCHANGED log
  BY <1>3 DEF AgentStep, AgentLock, AgentConsume, AgentUpdate, AgentUnlock
<1>4. ASSUME NEW n \in Nodes, NEW x \in Lines, HardwareStep(n, x)
      PROVE  UNCHANGED log
  BY <1>4 DEF HardwareStep, Evict, Invalidated
<1>5. QED
  BY <1>1, <1>2, <1>3, <1>4 DEF Next

(* Which steps consume logs.                                               *)
LEMMA FrameHead ==
  ASSUME Next
  PROVE  \/ UNCHANGED head
         \/ \E t \in Threads : HelpConsume(t)
         \/ \E n \in Nodes : AgentConsume(n)
<1> USE DEF OtherThanHw, OtherThanSync, OtherThanHelp, OtherThanAgent, hwVars,
  invVars, agentVars, helpVars, logVars, storeVars, histVars, syncVars
<1>1. ASSUME NEW t \in Threads, ThreadStarts(t)
      PROVE  UNCHANGED head
  BY <1>1, StartCases DEF Store, CheckDirty, ThreadRelease, AtomicLoad, Lock,
    LockShared, LockExclusive, Join
<1>2. ASSUME NEW t \in Threads, ThreadContinues(t), ~HelpConsume(t)
      PROVE  UNCHANGED head
  BY <1>2 DEF ThreadContinues, Insert, Claim, Publish, CheckClear, AtomicStore,
    FetchAdd, Unlock, Create, Upgrade, TakeWlock, Drain, UnlockShared, CopyClock,
    AcquireReady, AcquireBehind, HelpTryLock, HelpUpdate, HelpUnlock, AcquireDone
<1>3. ASSUME NEW n \in Nodes, AgentStep(n), ~AgentConsume(n)
      PROVE  UNCHANGED head
  BY <1>3 DEF AgentStep, AgentLock, AgentUpdate, AgentUnlock
<1>4. ASSUME NEW n \in Nodes, NEW x \in Lines, HardwareStep(n, x)
      PROVE  UNCHANGED head
  BY <1>4 DEF HardwareStep, Evict, Invalidated
<1>5. QED
  BY <1>1, <1>2, <1>3, <1>4 DEF Next

(* Which steps write a cache clock.                                        *)
LEMMA FrameClock ==
  ASSUME Next
  PROVE  \/ UNCHANGED clock
         \/ \E t \in Threads : HelpUpdate(t)
         \/ \E n \in Nodes : AgentUpdate(n)
<1> USE DEF OtherThanHw, OtherThanSync, OtherThanHelp, OtherThanAgent, hwVars,
  invVars, agentVars, helpVars, logVars, storeVars, histVars, syncVars
<1>1. ASSUME NEW t \in Threads, ThreadStarts(t)
      PROVE  UNCHANGED clock
  BY <1>1, StartCases DEF Store, CheckDirty, ThreadRelease, AtomicLoad, Lock,
    LockShared, LockExclusive, Join
<1>2. ASSUME NEW t \in Threads, ThreadContinues(t), ~HelpUpdate(t)
      PROVE  UNCHANGED clock
  BY <1>2 DEF ThreadContinues, Insert, Claim, Publish, CheckClear, AtomicStore,
    FetchAdd, Unlock, Create, Upgrade, TakeWlock, Drain, UnlockShared, CopyClock,
    AcquireReady, AcquireBehind, HelpTryLock, HelpConsume, HelpUnlock, AcquireDone
<1>3. ASSUME NEW n \in Nodes, AgentStep(n), ~AgentUpdate(n)
      PROVE  UNCHANGED clock
  BY <1>3 DEF AgentStep, AgentLock, AgentConsume, AgentUnlock
<1>4. ASSUME NEW n \in Nodes, NEW x \in Lines, HardwareStep(n, x)
      PROVE  UNCHANGED clock
  BY <1>4 DEF HardwareStep, Evict, Invalidated
<1>5. QED
  BY <1>1, <1>2, <1>3, <1>4 DEF Next

(* Which steps take or free a log head mutex.                              *)
LEMMA FrameMutex ==
  ASSUME Next
  PROVE  \/ UNCHANGED log_head_mtx
         \/ \E t \in Threads : HelpTryLock(t) \/ HelpUnlock(t)
         \/ \E n \in Nodes : AgentUnlock(n) \/ \E i \in Nodes : AgentLock(n, i)
<1> USE DEF OtherThanHw, OtherThanSync, OtherThanHelp, OtherThanAgent, hwVars,
  invVars, agentVars, helpVars, logVars, storeVars, histVars, syncVars
<1>1. ASSUME NEW t \in Threads, ThreadStarts(t)
      PROVE  UNCHANGED log_head_mtx
  BY <1>1, StartCases DEF Store, CheckDirty, ThreadRelease, AtomicLoad, Lock,
    LockShared, LockExclusive, Join
<1>2. ASSUME NEW t \in Threads, ThreadContinues(t), ~HelpTryLock(t), ~HelpUnlock(t)
      PROVE  UNCHANGED log_head_mtx
  BY <1>2 DEF ThreadContinues, Insert, Claim, Publish, CheckClear, AtomicStore,
    FetchAdd, Unlock, Create, Upgrade, TakeWlock, Drain, UnlockShared, CopyClock,
    AcquireReady, AcquireBehind, HelpConsume, HelpUpdate, AcquireDone
<1>3. ASSUME NEW n \in Nodes, AgentStep(n), \A i \in Nodes : ~AgentLock(n, i), ~AgentUnlock(n)
      PROVE  UNCHANGED log_head_mtx
  BY <1>3 DEF AgentStep, AgentConsume, AgentUpdate
<1>4. ASSUME NEW n \in Nodes, NEW x \in Lines, HardwareStep(n, x)
      PROVE  UNCHANGED log_head_mtx
  BY <1>4 DEF HardwareStep, Evict, Invalidated
<1>5. QED
  BY <1>1, <1>2, <1>3, <1>4 DEF Next

(* Only its agent changes the state of a cache agent.                      *)
LEMMA FrameAgent ==
  ASSUME Next
  PROVE  \/ UNCHANGED <<apc, asrc, aclk, acnt>>
         \/ \E n \in Nodes : AgentConsume(n) \/ AgentUpdate(n) \/ AgentUnlock(n) \/ \E i \in Nodes : AgentLock(n, i)
<1> USE DEF OtherThanHw, OtherThanSync, OtherThanHelp, OtherThanAgent, hwVars,
  invVars, agentVars, helpVars, logVars, storeVars, histVars, syncVars
<1>1. ASSUME NEW t \in Threads, ThreadStarts(t)
      PROVE  UNCHANGED <<apc, asrc, aclk, acnt>>
  BY <1>1, StartCases DEF Store, CheckDirty, ThreadRelease, AtomicLoad, Lock,
    LockShared, LockExclusive, Join
<1>2. ASSUME NEW t \in Threads, ThreadContinues(t)
      PROVE  UNCHANGED <<apc, asrc, aclk, acnt>>
  BY <1>2 DEF ThreadContinues, Insert, Claim, Publish, CheckClear, AtomicStore,
    FetchAdd, Unlock, Create, Upgrade, TakeWlock, Drain, UnlockShared, CopyClock,
    AcquireReady, AcquireBehind, HelpTryLock, HelpConsume, HelpUpdate, HelpUnlock,
    AcquireDone
<1>3. ASSUME NEW n \in Nodes, AgentStep(n), \A i \in Nodes : ~AgentLock(n, i), ~AgentConsume(n), ~AgentUpdate(n), ~AgentUnlock(n)
      PROVE  UNCHANGED <<apc, asrc, aclk, acnt>>
  BY <1>3 DEF AgentStep
<1>4. ASSUME NEW n \in Nodes, NEW x \in Lines, HardwareStep(n, x)
      PROVE  UNCHANGED <<apc, asrc, aclk, acnt>>
  BY <1>4 DEF HardwareStep, Evict, Invalidated
<1>5. QED
  BY <1>1, <1>2, <1>3, <1>4 DEF Next

(* Which steps change the most recent line of a thread.                    *)
LEMMA FrameRecent ==
  ASSUME Next
  PROVE  \/ UNCHANGED recent_cl
         \/ \E t \in Threads :
              \/ \E x \in Lines : Store(t, x)
              \/ \E o \in Releases : \E a \in Locs \cup Threads \cup {None} :
                MayRelease(t, o, a) /\ ThreadRelease(t, o, a)
<1> USE DEF OtherThanHw, OtherThanSync, OtherThanHelp, OtherThanAgent, hwVars,
  invVars, agentVars, helpVars, logVars, storeVars, histVars, syncVars
<1>1. ASSUME NEW t \in Threads, ThreadStarts(t),
             \A x \in Lines : ~Store(t, x),
             \A o \in Releases : \A a \in Locs \cup Threads \cup {None} :
               ~(MayRelease(t, o, a) /\ ThreadRelease(t, o, a))
      PROVE  UNCHANGED recent_cl
  BY <1>1, StartCases DEF CheckDirty, AtomicLoad, Lock, LockShared, LockExclusive,
    Join
<1>2. ASSUME NEW t \in Threads, ThreadContinues(t)
      PROVE  UNCHANGED recent_cl
  BY <1>2 DEF ThreadContinues, Insert, Claim, Publish, CheckClear, AtomicStore,
    FetchAdd, Unlock, Create, Upgrade, TakeWlock, Drain, UnlockShared, CopyClock,
    AcquireReady, AcquireBehind, HelpTryLock, HelpConsume, HelpUpdate, HelpUnlock,
    AcquireDone
<1>3. ASSUME NEW n \in Nodes, AgentStep(n)
      PROVE  UNCHANGED recent_cl
  BY <1>3 DEF AgentStep, AgentLock, AgentConsume, AgentUpdate, AgentUnlock
<1>4. ASSUME NEW n \in Nodes, NEW x \in Lines, HardwareStep(n, x)
      PROVE  UNCHANGED recent_cl
  BY <1>4 DEF HardwareStep, Evict, Invalidated
<1>5. QED
  BY <1>1, <1>2, <1>3, <1>4 DEF Next

(* Which steps change the recorded lines of a thread.                      *)
LEMMA FrameTable ==
  ASSUME Next
  PROVE  \/ UNCHANGED dirty_cls
         \/ \E t \in Threads :
              \/ \E x \in Lines : Store(t, x)
              \/ Insert(t) \/ Publish(t)
<1> USE DEF OtherThanHw, OtherThanSync, OtherThanHelp, OtherThanAgent, hwVars,
  invVars, agentVars, helpVars, logVars, storeVars, histVars, syncVars
<1>1. ASSUME NEW t \in Threads, ThreadStarts(t),
             \A x \in Lines : ~Store(t, x)
      PROVE  UNCHANGED dirty_cls
  BY <1>1, StartCases DEF CheckDirty, ThreadRelease, AtomicLoad, Lock, LockShared,
    LockExclusive, Join
<1>2. ASSUME NEW t \in Threads, ThreadContinues(t), ~Insert(t), ~Publish(t)
      PROVE  UNCHANGED dirty_cls
  BY <1>2 DEF ThreadContinues, Claim, CheckClear, AtomicStore, FetchAdd, Unlock,
    Create, Upgrade, TakeWlock, Drain, UnlockShared, CopyClock, AcquireReady,
    AcquireBehind, HelpTryLock, HelpConsume, HelpUpdate, HelpUnlock, AcquireDone
<1>3. ASSUME NEW n \in Nodes, AgentStep(n)
      PROVE  UNCHANGED dirty_cls
  BY <1>3 DEF AgentStep, AgentLock, AgentConsume, AgentUpdate, AgentUnlock
<1>4. ASSUME NEW n \in Nodes, NEW x \in Lines, HardwareStep(n, x)
      PROVE  UNCHANGED dirty_cls
  BY <1>4 DEF HardwareStep, Evict, Invalidated
<1>5. QED
  BY <1>1, <1>2, <1>3, <1>4 DEF Next

(* Which steps change the clock of a thread.                               *)
LEMMA FrameThreadClock ==
  ASSUME Next
  PROVE  \/ UNCHANGED thread_clock
         \/ \E t \in Threads : Publish(t) \/ AcquireDone(t)
<1> USE DEF OtherThanHw, OtherThanSync, OtherThanHelp, OtherThanAgent, hwVars,
  invVars, agentVars, helpVars, logVars, storeVars, histVars, syncVars
<1>1. ASSUME NEW t \in Threads, ThreadStarts(t)
      PROVE  UNCHANGED thread_clock
  BY <1>1, StartCases DEF Store, CheckDirty, ThreadRelease, AtomicLoad, Lock,
    LockShared, LockExclusive, Join
<1>2. ASSUME NEW t \in Threads, ThreadContinues(t), ~Publish(t), ~AcquireDone(t)
      PROVE  UNCHANGED thread_clock
  BY <1>2 DEF ThreadContinues, Insert, Claim, CheckClear, AtomicStore, FetchAdd,
    Unlock, Create, Upgrade, TakeWlock, Drain, UnlockShared, CopyClock, AcquireReady,
    AcquireBehind, HelpTryLock, HelpConsume, HelpUpdate, HelpUnlock
<1>3. ASSUME NEW n \in Nodes, AgentStep(n)
      PROVE  UNCHANGED thread_clock
  BY <1>3 DEF AgentStep, AgentLock, AgentConsume, AgentUpdate, AgentUnlock
<1>4. ASSUME NEW n \in Nodes, NEW x \in Lines, HardwareStep(n, x)
      PROVE  UNCHANGED thread_clock
  BY <1>4 DEF HardwareStep, Evict, Invalidated
<1>5. QED
  BY <1>1, <1>2, <1>3, <1>4 DEF Next

(* Which steps change a claimed position.                                  *)
LEMMA FramePos ==
  ASSUME Next
  PROVE  \/ UNCHANGED pos
         \/ \E t \in Threads : Claim(t) \/ Publish(t)
<1> USE DEF OtherThanHw, OtherThanSync, OtherThanHelp, OtherThanAgent, hwVars,
  invVars, agentVars, helpVars, logVars, storeVars, histVars, syncVars
<1>1. ASSUME NEW t \in Threads, ThreadStarts(t)
      PROVE  UNCHANGED pos
  BY <1>1, StartCases DEF Store, CheckDirty, ThreadRelease, AtomicLoad, Lock,
    LockShared, LockExclusive, Join
<1>2. ASSUME NEW t \in Threads, ThreadContinues(t), ~Claim(t), ~Publish(t)
      PROVE  UNCHANGED pos
  BY <1>2 DEF ThreadContinues, Insert, CheckClear, AtomicStore, FetchAdd, Unlock,
    Create, Upgrade, TakeWlock, Drain, UnlockShared, CopyClock, AcquireReady,
    AcquireBehind, HelpTryLock, HelpConsume, HelpUpdate, HelpUnlock, AcquireDone
<1>3. ASSUME NEW n \in Nodes, AgentStep(n)
      PROVE  UNCHANGED pos
  BY <1>3 DEF AgentStep, AgentLock, AgentConsume, AgentUpdate, AgentUnlock
<1>4. ASSUME NEW n \in Nodes, NEW x \in Lines, HardwareStep(n, x)
      PROVE  UNCHANGED pos
  BY <1>4 DEF HardwareStep, Evict, Invalidated
<1>5. QED
  BY <1>1, <1>2, <1>3, <1>4 DEF Next

(* Which steps change the locals of help_consume.                          *)
LEMMA FrameHelp ==
  ASSUME Next
  PROVE  \/ UNCHANGED <<src, clk>>
         \/ \E t \in Threads :
              \/ HelpTryLock(t) \/ HelpConsume(t) \/ HelpUnlock(t)
              \/ \E i \in Nodes : AcquireBehind(t, i)
<1> USE DEF OtherThanHw, OtherThanSync, OtherThanHelp, OtherThanAgent, hwVars,
  invVars, agentVars, helpVars, logVars, storeVars, histVars, syncVars
<1>1. ASSUME NEW t \in Threads, ThreadStarts(t)
      PROVE  UNCHANGED <<src, clk>>
  BY <1>1, StartCases DEF Store, CheckDirty, ThreadRelease, AtomicLoad, Lock,
    LockShared, LockExclusive, Join
<1>2. ASSUME NEW t \in Threads, ThreadContinues(t), \A i \in Nodes : ~AcquireBehind(t,
             i), ~HelpTryLock(t), ~HelpConsume(t), ~HelpUnlock(t)
      PROVE  UNCHANGED <<src, clk>>
  BY <1>2 DEF ThreadContinues, Insert, Claim, Publish, CheckClear, AtomicStore,
    FetchAdd, Unlock, Create, Upgrade, TakeWlock, Drain, UnlockShared, CopyClock,
    AcquireReady, HelpUpdate, AcquireDone
<1>3. ASSUME NEW n \in Nodes, AgentStep(n)
      PROVE  UNCHANGED <<src, clk>>
  BY <1>3 DEF AgentStep, AgentLock, AgentConsume, AgentUpdate, AgentUnlock
<1>4. ASSUME NEW n \in Nodes, NEW x \in Lines, HardwareStep(n, x)
      PROVE  UNCHANGED <<src, clk>>
  BY <1>4 DEF HardwareStep, Evict, Invalidated
<1>5. QED
  BY <1>1, <1>2, <1>3, <1>4 DEF Next

(* Which steps write the clock of an object.                               *)
LEMMA FrameLocClock ==
  ASSUME Next
  PROVE  \/ UNCHANGED loc_clock
         \/ \E t \in Threads :
              \/ AtomicStore(t) \/ FetchAdd(t) \/ Unlock(t)
              \/ \E i \in Nodes : CopyClock(t, i)
<1> USE DEF OtherThanHw, OtherThanSync, OtherThanHelp, OtherThanAgent, hwVars,
  invVars, agentVars, helpVars, logVars, storeVars, histVars, syncVars
<1>1. ASSUME NEW t \in Threads, ThreadStarts(t)
      PROVE  UNCHANGED loc_clock
  BY <1>1, StartCases DEF Store, CheckDirty, ThreadRelease, AtomicLoad, Lock,
    LockShared, LockExclusive, Join
<1>2. ASSUME NEW t \in Threads, ThreadContinues(t), ~AtomicStore(t), ~FetchAdd(t),
             ~Unlock(t), \A i \in Nodes : ~CopyClock(t, i)
      PROVE  UNCHANGED loc_clock
  BY <1>2 DEF ThreadContinues, Insert, Claim, Publish, CheckClear, Create, Upgrade,
    TakeWlock, Drain, UnlockShared, AcquireReady, AcquireBehind, HelpTryLock,
    HelpConsume, HelpUpdate, HelpUnlock, AcquireDone
<1>3. ASSUME NEW n \in Nodes, AgentStep(n)
      PROVE  UNCHANGED loc_clock
  BY <1>3 DEF AgentStep, AgentLock, AgentConsume, AgentUpdate, AgentUnlock
<1>4. ASSUME NEW n \in Nodes, NEW x \in Lines, HardwareStep(n, x)
      PROVE  UNCHANGED loc_clock
  BY <1>4 DEF HardwareStep, Evict, Invalidated
<1>5. QED
  BY <1>1, <1>2, <1>3, <1>4 DEF Next

(* Which steps take or free a lock.                                        *)
LEMMA FrameOwner ==
  ASSUME Next
  PROVE  \/ UNCHANGED owner
         \/ \E t \in Threads :
              \/ \E m \in Mutexes : Lock(t, m)
              \/ Unlock(t) \/ TakeWlock(t)
<1> USE DEF OtherThanHw, OtherThanSync, OtherThanHelp, OtherThanAgent, hwVars,
  invVars, agentVars, helpVars, logVars, storeVars, histVars, syncVars
<1>1. ASSUME NEW t \in Threads, ThreadStarts(t),
             \A m \in Mutexes : ~Lock(t, m)
      PROVE  UNCHANGED owner
  BY <1>1, StartCases DEF Store, CheckDirty, ThreadRelease, AtomicLoad, LockShared,
    LockExclusive, Join
<1>2. ASSUME NEW t \in Threads, ThreadContinues(t), ~Unlock(t), ~TakeWlock(t)
      PROVE  UNCHANGED owner
  BY <1>2 DEF ThreadContinues, Insert, Claim, Publish, CheckClear, AtomicStore,
    FetchAdd, Create, Upgrade, Drain, UnlockShared, CopyClock, AcquireReady,
    AcquireBehind, HelpTryLock, HelpConsume, HelpUpdate, HelpUnlock, AcquireDone
<1>3. ASSUME NEW n \in Nodes, AgentStep(n)
      PROVE  UNCHANGED owner
  BY <1>3 DEF AgentStep, AgentLock, AgentConsume, AgentUpdate, AgentUnlock
<1>4. ASSUME NEW n \in Nodes, NEW x \in Lines, HardwareStep(n, x)
      PROVE  UNCHANGED owner
  BY <1>4 DEF HardwareStep, Evict, Invalidated
<1>5. QED
  BY <1>1, <1>2, <1>3, <1>4 DEF Next

(* Which steps take or free the shared side of a lock.                     *)
LEMMA FrameReaders ==
  ASSUME Next
  PROVE  \/ UNCHANGED readers
         \/ \E t \in Threads :
              \/ \E m \in SharedMutexes : LockShared(t, m) \/ LockExclusive(t, m)
              \/ Upgrade(t) \/ UnlockShared(t)
<1> USE DEF OtherThanHw, OtherThanSync, OtherThanHelp, OtherThanAgent, hwVars,
  invVars, agentVars, helpVars, logVars, storeVars, histVars, syncVars
<1>1. ASSUME NEW t \in Threads, ThreadStarts(t),
             \A m \in SharedMutexes : ~LockShared(t, m),
             \A m \in SharedMutexes : ~LockExclusive(t, m)
      PROVE  UNCHANGED readers
  BY <1>1, StartCases DEF Store, CheckDirty, ThreadRelease, AtomicLoad, Lock, Join
<1>2. ASSUME NEW t \in Threads, ThreadContinues(t), ~Upgrade(t), ~UnlockShared(t)
      PROVE  UNCHANGED readers
  BY <1>2 DEF ThreadContinues, Insert, Claim, Publish, CheckClear, AtomicStore,
    FetchAdd, Unlock, Create, TakeWlock, Drain, CopyClock, AcquireReady,
    AcquireBehind, HelpTryLock, HelpConsume, HelpUpdate, HelpUnlock, AcquireDone
<1>3. ASSUME NEW n \in Nodes, AgentStep(n)
      PROVE  UNCHANGED readers
  BY <1>3 DEF AgentStep, AgentLock, AgentConsume, AgentUpdate, AgentUnlock
<1>4. ASSUME NEW n \in Nodes, NEW x \in Lines, HardwareStep(n, x)
      PROVE  UNCHANGED readers
  BY <1>4 DEF HardwareStep, Evict, Invalidated
<1>5. QED
  BY <1>1, <1>2, <1>3, <1>4 DEF Next

(* Only a store adds a version of a line.                                  *)
LEMMA FrameLatest ==
  ASSUME Next
  PROVE  \/ UNCHANGED latest
         \/ \E t \in Threads : \E x \in Lines : Store(t, x)
<1> USE DEF OtherThanHw, OtherThanSync, OtherThanHelp, OtherThanAgent, hwVars,
  invVars, agentVars, helpVars, logVars, storeVars, histVars, syncVars
<1>1. ASSUME NEW t \in Threads, ThreadStarts(t),
             \A x \in Lines : ~Store(t, x)
      PROVE  UNCHANGED latest
  BY <1>1, StartCases DEF CheckDirty, ThreadRelease, AtomicLoad, Lock, LockShared,
    LockExclusive, Join
<1>2. ASSUME NEW t \in Threads, ThreadContinues(t)
      PROVE  UNCHANGED latest
  BY <1>2 DEF ThreadContinues, Insert, Claim, Publish, CheckClear, AtomicStore,
    FetchAdd, Unlock, Create, Upgrade, TakeWlock, Drain, UnlockShared, CopyClock,
    AcquireReady, AcquireBehind, HelpTryLock, HelpConsume, HelpUpdate, HelpUnlock,
    AcquireDone
<1>3. ASSUME NEW n \in Nodes, AgentStep(n)
      PROVE  UNCHANGED latest
  BY <1>3 DEF AgentStep, AgentLock, AgentConsume, AgentUpdate, AgentUnlock
<1>4. ASSUME NEW n \in Nodes, NEW x \in Lines, HardwareStep(n, x)
      PROVE  UNCHANGED latest
  BY <1>4 DEF HardwareStep, Evict, Invalidated
<1>5. QED
  BY <1>1, <1>2, <1>3, <1>4 DEF Next

(* Which steps change what a thread has seen.                              *)
LEMMA FrameSeen ==
  ASSUME Next
  PROVE  \/ UNCHANGED seen
         \/ \E t \in Threads :
              \/ \E x \in Lines : Store(t, x)
              \/ AcquireDone(t)
<1> USE DEF OtherThanHw, OtherThanSync, OtherThanHelp, OtherThanAgent, hwVars,
  invVars, agentVars, helpVars, logVars, storeVars, histVars, syncVars
<1>1. ASSUME NEW t \in Threads, ThreadStarts(t),
             \A x \in Lines : ~Store(t, x)
      PROVE  UNCHANGED seen
  BY <1>1, StartCases DEF CheckDirty, ThreadRelease, AtomicLoad, Lock, LockShared,
    LockExclusive, Join
<1>2. ASSUME NEW t \in Threads, ThreadContinues(t), ~AcquireDone(t)
      PROVE  UNCHANGED seen
  BY <1>2 DEF ThreadContinues, Insert, Claim, Publish, CheckClear, AtomicStore,
    FetchAdd, Unlock, Create, Upgrade, TakeWlock, Drain, UnlockShared, CopyClock,
    AcquireReady, AcquireBehind, HelpTryLock, HelpConsume, HelpUpdate, HelpUnlock
<1>3. ASSUME NEW n \in Nodes, AgentStep(n)
      PROVE  UNCHANGED seen
  BY <1>3 DEF AgentStep, AgentLock, AgentConsume, AgentUpdate, AgentUnlock
<1>4. ASSUME NEW n \in Nodes, NEW x \in Lines, HardwareStep(n, x)
      PROVE  UNCHANGED seen
  BY <1>4 DEF HardwareStep, Evict, Invalidated
<1>5. QED
  BY <1>1, <1>2, <1>3, <1>4 DEF Next

(* Which steps change what an object stands for.                           *)
LEMMA FrameLocSeen ==
  ASSUME Next
  PROVE  \/ UNCHANGED loc_seen
         \/ \E t \in Threads : AtomicStore(t) \/ FetchAdd(t) \/ Unlock(t)
<1> USE DEF OtherThanHw, OtherThanSync, OtherThanHelp, OtherThanAgent, hwVars,
  invVars, agentVars, helpVars, logVars, storeVars, histVars, syncVars
<1>1. ASSUME NEW t \in Threads, ThreadStarts(t)
      PROVE  UNCHANGED loc_seen
  BY <1>1, StartCases DEF Store, CheckDirty, ThreadRelease, AtomicLoad, Lock,
    LockShared, LockExclusive, Join
<1>2. ASSUME NEW t \in Threads, ThreadContinues(t), ~AtomicStore(t), ~FetchAdd(t),
             ~Unlock(t)
      PROVE  UNCHANGED loc_seen
  BY <1>2 DEF ThreadContinues, Insert, Claim, Publish, CheckClear, Create, Upgrade,
    TakeWlock, Drain, UnlockShared, CopyClock, AcquireReady, AcquireBehind,
    HelpTryLock, HelpConsume, HelpUpdate, HelpUnlock, AcquireDone
<1>3. ASSUME NEW n \in Nodes, AgentStep(n)
      PROVE  UNCHANGED loc_seen
  BY <1>3 DEF AgentStep, AgentLock, AgentConsume, AgentUpdate, AgentUnlock
<1>4. ASSUME NEW n \in Nodes, NEW x \in Lines, HardwareStep(n, x)
      PROVE  UNCHANGED loc_seen
  BY <1>4 DEF HardwareStep, Evict, Invalidated
<1>5. QED
  BY <1>1, <1>2, <1>3, <1>4 DEF Next

(* Which steps change what an acquire is to see.                           *)
LEMMA FrameGot ==
  ASSUME Next
  PROVE  \/ UNCHANGED got
         \/ \E t \in Threads :
              \/ \E a \in Atomics : AtomicLoad(t, a)
              \/ \E m \in Mutexes : Lock(t, m)
              \/ \E m \in SharedMutexes : LockShared(t, m) \/ LockExclusive(t, m)
              \/ \E c \in DOMAIN ParentOf : ParentOf[c] = t /\ Join(t, c)
              \/ FetchAdd(t) \/ Drain(t) \/ Create(t) \/ AcquireDone(t)
<1> USE DEF OtherThanHw, OtherThanSync, OtherThanHelp, OtherThanAgent, hwVars,
  invVars, agentVars, helpVars, logVars, storeVars, histVars, syncVars
<1>1. ASSUME NEW t \in Threads, ThreadStarts(t),
             \A a \in Atomics : ~AtomicLoad(t, a),
             \A m \in Mutexes : ~Lock(t, m),
             \A m \in SharedMutexes : ~LockShared(t, m),
             \A m \in SharedMutexes : ~LockExclusive(t, m),
             \A c \in DOMAIN ParentOf : ~(ParentOf[c] = t /\ Join(t, c))
      PROVE  UNCHANGED got
  BY <1>1, StartCases DEF Store, CheckDirty, ThreadRelease
<1>2. ASSUME NEW t \in Threads, ThreadContinues(t), ~FetchAdd(t), ~Create(t),
             ~Drain(t), ~AcquireDone(t)
      PROVE  UNCHANGED got
  BY <1>2 DEF ThreadContinues, Insert, Claim, Publish, CheckClear, AtomicStore,
    Unlock, Upgrade, TakeWlock, UnlockShared, CopyClock, AcquireReady, AcquireBehind,
    HelpTryLock, HelpConsume, HelpUpdate, HelpUnlock
<1>3. ASSUME NEW n \in Nodes, AgentStep(n)
      PROVE  UNCHANGED got
  BY <1>3 DEF AgentStep, AgentLock, AgentConsume, AgentUpdate, AgentUnlock
<1>4. ASSUME NEW n \in Nodes, NEW x \in Lines, HardwareStep(n, x)
      PROVE  UNCHANGED got
  BY <1>4 DEF HardwareStep, Evict, Invalidated
<1>5. QED
  BY <1>1, <1>2, <1>3, <1>4 DEF Next

(* Which steps change the copy of a clock that is acquired.                *)
LEMMA FrameTarget ==
  ASSUME Next
  PROVE  \/ UNCHANGED target
         \/ \E t \in Threads :
              \/ \E a \in Atomics : AtomicLoad(t, a)
              \/ FetchAdd(t) \/ AcquireDone(t)
<1> USE DEF OtherThanHw, OtherThanSync, OtherThanHelp, OtherThanAgent, hwVars,
  invVars, agentVars, helpVars, logVars, storeVars, histVars, syncVars
<1>1. ASSUME NEW t \in Threads, ThreadStarts(t),
             \A a \in Atomics : ~AtomicLoad(t, a)
      PROVE  UNCHANGED target
  BY <1>1, StartCases DEF Store, CheckDirty, ThreadRelease, Lock, LockShared,
    LockExclusive, Join, AcquireRef
<1>2. ASSUME NEW t \in Threads, ThreadContinues(t), ~FetchAdd(t), ~AcquireDone(t)
      PROVE  UNCHANGED target
  BY <1>2 DEF ThreadContinues, Insert, Claim, Publish, CheckClear, AtomicStore,
    Unlock, Create, Upgrade, TakeWlock, Drain, UnlockShared, CopyClock, AcquireReady,
    AcquireBehind, HelpTryLock, HelpConsume, HelpUpdate, HelpUnlock, AcquireRef
<1>3. ASSUME NEW n \in Nodes, AgentStep(n)
      PROVE  UNCHANGED target
  BY <1>3 DEF AgentStep, AgentLock, AgentConsume, AgentUpdate, AgentUnlock
<1>4. ASSUME NEW n \in Nodes, NEW x \in Lines, HardwareStep(n, x)
      PROVE  UNCHANGED target
  BY <1>4 DEF HardwareStep, Evict, Invalidated
<1>5. QED
  BY <1>1, <1>2, <1>3, <1>4 DEF Next

(* Only unlock_shared changes what the readers left.                       *)
LEMMA FrameReadSeen ==
  ASSUME Next
  PROVE  \/ UNCHANGED read_seen
         \/ \E t \in Threads : UnlockShared(t)
<1> USE DEF OtherThanHw, OtherThanSync, OtherThanHelp, OtherThanAgent, hwVars,
  invVars, agentVars, helpVars, logVars, storeVars, histVars, syncVars
<1>1. ASSUME NEW t \in Threads, ThreadStarts(t)
      PROVE  UNCHANGED read_seen
  BY <1>1, StartCases DEF Store, CheckDirty, ThreadRelease, AtomicLoad, Lock,
    LockShared, LockExclusive, Join
<1>2. ASSUME NEW t \in Threads, ThreadContinues(t), ~UnlockShared(t)
      PROVE  UNCHANGED read_seen
  BY <1>2 DEF ThreadContinues, Insert, Claim, Publish, CheckClear, AtomicStore,
    FetchAdd, Unlock, Create, Upgrade, TakeWlock, Drain, CopyClock, AcquireReady,
    AcquireBehind, HelpTryLock, HelpConsume, HelpUpdate, HelpUnlock, AcquireDone
<1>3. ASSUME NEW n \in Nodes, AgentStep(n)
      PROVE  UNCHANGED read_seen
  BY <1>3 DEF AgentStep, AgentLock, AgentConsume, AgentUpdate, AgentUnlock
<1>4. ASSUME NEW n \in Nodes, NEW x \in Lines, HardwareStep(n, x)
      PROVE  UNCHANGED read_seen
  BY <1>4 DEF HardwareStep, Evict, Invalidated
<1>5. QED
  BY <1>1, <1>2, <1>3, <1>4 DEF Next

(* The build options are fixed.                                            *)
LEMMA FrameBuild ==
  ASSUME Next
  PROVE  UNCHANGED build
<1> USE DEF OtherThanHw, OtherThanSync, OtherThanHelp, OtherThanAgent, hwVars,
  invVars, agentVars, helpVars, logVars, storeVars, histVars, syncVars
<1>1. ASSUME NEW t \in Threads, ThreadStarts(t)
      PROVE  UNCHANGED build
  BY <1>1, StartCases DEF Store, CheckDirty, ThreadRelease, AtomicLoad, Lock,
    LockShared, LockExclusive, Join
<1>2. ASSUME NEW t \in Threads, ThreadContinues(t)
      PROVE  UNCHANGED build
  BY <1>2 DEF ThreadContinues, Insert, Claim, Publish, CheckClear, AtomicStore,
    FetchAdd, Unlock, Create, Upgrade, TakeWlock, Drain, UnlockShared, CopyClock,
    AcquireReady, AcquireBehind, HelpTryLock, HelpConsume, HelpUpdate, HelpUnlock,
    AcquireDone
<1>3. ASSUME NEW n \in Nodes, AgentStep(n)
      PROVE  UNCHANGED build
  BY <1>3 DEF AgentStep, AgentLock, AgentConsume, AgentUpdate, AgentUnlock
<1>4. ASSUME NEW n \in Nodes, NEW x \in Lines, HardwareStep(n, x)
      PROVE  UNCHANGED build
  BY <1>4 DEF HardwareStep, Evict, Invalidated
<1>5. QED
  BY <1>1, <1>2, <1>3, <1>4 DEF Next

(* Which steps change the control, operation or object of a thread.        *)
LEMMA FrameControl ==
  ASSUME Next
  PROVE  \/ UNCHANGED <<pc, op, obj, owner, readers, recent_cl, dirty_cls>>
         \/ \E t \in Threads :
              \/ \E x \in Lines : Store(t, x) \/ CheckDirty(t, x)
              \/ \E o \in Releases : \E a \in Locs \cup Threads \cup {None} :
                MayRelease(t, o, a) /\ ThreadRelease(t, o, a)
              \/ \E a \in Atomics : AtomicLoad(t, a)
              \/ \E m \in Mutexes : Lock(t, m)
              \/ \E m \in SharedMutexes : LockShared(t, m) \/ LockExclusive(t, m)
              \/ \E c \in DOMAIN ParentOf : ParentOf[c] = t /\ Join(t, c)
              \/ Insert(t) \/ Claim(t) \/ Publish(t) \/ CheckClear(t) \/ AtomicStore(t) \/ FetchAdd(t) \/ Unlock(t) \/ Create(t) \/ Upgrade(t) \/ TakeWlock(t) \/ Drain(t) \/ UnlockShared(t) \/ HelpTryLock(t) \/ HelpUpdate(t) \/ HelpUnlock(t) \/ AcquireDone(t)
              \/ \E i \in Nodes : AcquireBehind(t, i)
<1> USE DEF OtherThanHw, OtherThanSync, OtherThanHelp, OtherThanAgent, hwVars,
  invVars, agentVars, helpVars, logVars, storeVars, histVars, syncVars
<1>1. ASSUME NEW t \in Threads, ThreadStarts(t),
             \A x \in Lines : ~Store(t, x),
             \A x \in Lines : ~CheckDirty(t, x),
             \A o \in Releases : \A a \in Locs \cup Threads \cup {None} :
               ~(MayRelease(t, o, a) /\ ThreadRelease(t, o, a)),
             \A a \in Atomics : ~AtomicLoad(t, a),
             \A m \in Mutexes : ~Lock(t, m),
             \A m \in SharedMutexes : ~LockShared(t, m),
             \A m \in SharedMutexes : ~LockExclusive(t, m),
             \A c \in DOMAIN ParentOf : ~(ParentOf[c] = t /\ Join(t, c))
      PROVE  UNCHANGED <<pc, op, obj, owner, readers, recent_cl, dirty_cls>>
  BY <1>1, StartCases
<1>2. ASSUME NEW t \in Threads, ThreadContinues(t), ~Insert(t), ~Claim(t),
             ~Publish(t), ~CheckClear(t), ~AtomicStore(t), ~FetchAdd(t), ~Unlock(t), ~Create(t),
             ~Upgrade(t), ~TakeWlock(t), ~Drain(t), ~UnlockShared(t), \A i \in Nodes :
             ~AcquireBehind(t, i), ~HelpTryLock(t), ~HelpUpdate(t), ~HelpUnlock(t),
             ~AcquireDone(t)
      PROVE  UNCHANGED <<pc, op, obj, owner, readers, recent_cl, dirty_cls>>
  BY <1>2 DEF ThreadContinues, CopyClock, AcquireReady, HelpConsume
<1>3. ASSUME NEW n \in Nodes, AgentStep(n)
      PROVE  UNCHANGED <<pc, op, obj, owner, readers, recent_cl, dirty_cls>>
  BY <1>3 DEF AgentStep, AgentLock, AgentConsume, AgentUpdate, AgentUnlock
<1>4. ASSUME NEW n \in Nodes, NEW x \in Lines, HardwareStep(n, x)
      PROVE  UNCHANGED <<pc, op, obj, owner, readers, recent_cl, dirty_cls>>
  BY <1>4 DEF HardwareStep, Evict, Invalidated
<1>5. QED
  BY <1>1, <1>2, <1>3, <1>4 DEF Next

(* Which steps change the nodes that a thread is done with.                *)
LEMMA FrameNodeDone ==
  ASSUME Next
  PROVE  \/ UNCHANGED node_done
         \/ \E t \in Threads :
              \/ \E a \in Atomics : AtomicLoad(t, a)
              \/ \E m \in Mutexes : Lock(t, m)
              \/ \E m \in SharedMutexes : LockShared(t, m) \/ LockExclusive(t, m)
              \/ \E c \in DOMAIN ParentOf : ParentOf[c] = t /\ Join(t, c)
              \/ FetchAdd(t) \/ Drain(t) \/ Create(t) \/ HelpUnlock(t) \/ AcquireDone(t) \/ UnlockShared(t)
              \/ \E i \in Nodes : AcquireReady(t, i) \/ CopyClock(t, i)
<1> USE DEF OtherThanHw, OtherThanSync, OtherThanHelp, OtherThanAgent, hwVars,
  invVars, agentVars, helpVars, logVars, storeVars, histVars, syncVars
<1>1. ASSUME NEW t \in Threads, ThreadStarts(t),
             \A a \in Atomics : ~AtomicLoad(t, a),
             \A m \in Mutexes : ~Lock(t, m),
             \A m \in SharedMutexes : ~LockShared(t, m),
             \A m \in SharedMutexes : ~LockExclusive(t, m),
             \A c \in DOMAIN ParentOf : ~(ParentOf[c] = t /\ Join(t, c))
      PROVE  UNCHANGED node_done
  BY <1>1, StartCases DEF Store, CheckDirty, ThreadRelease
<1>2. ASSUME NEW t \in Threads, ThreadContinues(t), ~FetchAdd(t), ~Create(t),
             ~Drain(t), ~UnlockShared(t), \A i \in Nodes : ~CopyClock(t, i), \A i \in Nodes :
             ~AcquireReady(t, i), ~HelpUnlock(t), ~AcquireDone(t)
      PROVE  UNCHANGED node_done
  BY <1>2 DEF ThreadContinues, Insert, Claim, Publish, CheckClear, AtomicStore,
    Unlock, Upgrade, TakeWlock, AcquireBehind, HelpTryLock, HelpConsume, HelpUpdate
<1>3. ASSUME NEW n \in Nodes, AgentStep(n)
      PROVE  UNCHANGED node_done
  BY <1>3 DEF AgentStep, AgentLock, AgentConsume, AgentUpdate, AgentUnlock
<1>4. ASSUME NEW n \in Nodes, NEW x \in Lines, HardwareStep(n, x)
      PROVE  UNCHANGED node_done
  BY <1>4 DEF HardwareStep, Evict, Invalidated
<1>5. QED
  BY <1>1, <1>2, <1>3, <1>4 DEF Next

(* Which steps count an operation.                                         *)
LEMMA FrameOps ==
  ASSUME Next
  PROVE  \/ UNCHANGED ops
         \/ \E t \in Threads :
              \/ \E x \in Lines : Store(t, x)
              \/ \E o \in Releases : \E a \in Locs \cup Threads \cup {None} :
                MayRelease(t, o, a) /\ ThreadRelease(t, o, a)
              \/ \E a \in Atomics : AtomicLoad(t, a)
              \/ \E m \in Mutexes : Lock(t, m)
              \/ \E m \in SharedMutexes : LockShared(t, m) \/ LockExclusive(t, m)
              \/ \E c \in DOMAIN ParentOf : ParentOf[c] = t /\ Join(t, c)
<1> USE DEF OtherThanHw, OtherThanSync, OtherThanHelp, OtherThanAgent, hwVars,
  invVars, agentVars, helpVars, logVars, storeVars, histVars, syncVars
<1>1. ASSUME NEW t \in Threads, ThreadStarts(t),
             \A x \in Lines : ~Store(t, x),
             \A o \in Releases : \A a \in Locs \cup Threads \cup {None} :
               ~(MayRelease(t, o, a) /\ ThreadRelease(t, o, a)),
             \A a \in Atomics : ~AtomicLoad(t, a),
             \A m \in Mutexes : ~Lock(t, m),
             \A m \in SharedMutexes : ~LockShared(t, m),
             \A m \in SharedMutexes : ~LockExclusive(t, m),
             \A c \in DOMAIN ParentOf : ~(ParentOf[c] = t /\ Join(t, c))
      PROVE  UNCHANGED ops
  BY <1>1, StartCases DEF CheckDirty
<1>2. ASSUME NEW t \in Threads, ThreadContinues(t)
      PROVE  UNCHANGED ops
  BY <1>2 DEF ThreadContinues, Insert, Claim, Publish, CheckClear, AtomicStore,
    FetchAdd, Unlock, Create, Upgrade, TakeWlock, Drain, UnlockShared, CopyClock,
    AcquireReady, AcquireBehind, HelpTryLock, HelpConsume, HelpUpdate, HelpUnlock,
    AcquireDone
<1>3. ASSUME NEW n \in Nodes, AgentStep(n)
      PROVE  UNCHANGED ops
  BY <1>3 DEF AgentStep, AgentLock, AgentConsume, AgentUpdate, AgentUnlock
<1>4. ASSUME NEW n \in Nodes, NEW x \in Lines, HardwareStep(n, x)
      PROVE  UNCHANGED ops
  BY <1>4 DEF HardwareStep, Evict, Invalidated
<1>5. QED
  BY <1>1, <1>2, <1>3, <1>4 DEF Next

-----------------------------------------------------------------------------
(* Types, one variable at a time.                                          *)

LEMMA TypeHardware ==
  ASSUME TypeOK, ControlInv, Next
  PROVE  mem' \in Versions /\ cache' \in [Nodes -> Versions] /\ modified' \in [Nodes -> SUBSET Lines]
<1> DEFINE Goal == mem' \in Versions /\ cache' \in [Nodes -> Versions] /\ modified' \in [Nodes -> SUBSET Lines]
<1>0. /\ mem \in Versions /\ cache \in [Nodes -> Versions] /\ modified \in [Nodes -> SUBSET Lines]
      /\ latest \in Versions /\ seen \in [Threads -> Versions] /\ NodeOf \in [Threads -> Nodes]
  BY CoherenceAssumption DEF CoherenceAssumption, TypeOK
<1>1. ASSUME NEW t \in Threads, NEW x \in Lines, NEW v \in Nat, WriteLine(t, x, v), UNCHANGED mem
      PROVE  Goal
  BY <1>0, <1>1 DEF WriteLine, Versions
<1>2. ASSUME NEW t \in Threads, NEW x \in Lines, Store(t, x) PROVE Goal
  <2>1. latest[x] + 1 \in Nat
    BY <1>0 DEF Versions
  <2>2. UNCHANGED mem /\ (WriteLine(t, x, latest[x] + 1) \/ UNCHANGED <<cache, modified>>)
    BY <1>2 DEF Store
  <2>3. QED
    BY <1>0, <1>1, <2>1, <2>2
<1>3. ASSUME NEW t \in Threads, Insert(t) PROVE Goal
  <2>1. obj[t] \in Lines
    BY <1>3 DEF Insert, ControlInv, OpInv, ObjInv, ObjOf, Releases, AtomicOps
  <2>2. seen[t][obj[t]] \in Nat
    BY <1>0, <2>1 DEF Versions
  <2>3. UNCHANGED mem /\ WriteLine(t, obj[t], seen[t][obj[t]])
    BY <1>3 DEF Insert
  <2>4. QED
    BY <1>1, <2>1, <2>2, <2>3
<1>4. ASSUME NEW t \in Threads, Claim(t) PROVE Goal
  BY <1>0, <1>4 DEF Claim, Versions
<1>5. ASSUME NEW n \in Nodes, NEW x \in Lines, Drop(n, x) PROVE Goal
  BY <1>0, <1>5 DEF Drop, Versions
<1>6. QED
  BY <1>0, <1>2, <1>3, <1>4, <1>5, FrameHardware DEF Evict, Invalidated

(* What consuming an entry does to the lines being invalidated or marked.  *)
LEMMA ProcessLogTypes ==
  ASSUME flushing \in [Nodes -> SUBSET Lines], inv_cls \in [Nodes -> SUBSET Lines],
         NEW n \in Nodes, NEW L \in SUBSET Lines, ProcessLog(n, L)
  PROVE  flushing' \in [Nodes -> SUBSET Lines] /\ inv_cls' \in [Nodes -> SUBSET Lines]
BY DEF ProcessLog, MarkDirty

(* The entry that ConsumeEntry consumes, and the new head.                 *)
LEMMA ConsumeTypes ==
  ASSUME TypeOK, NEW n \in Nodes, NEW i \in Nodes, Available(n, i)
  PROVE  /\ head[n][i] + 1 \in 1 .. Len(log[i])
         /\ NextEntry(n, i) \in Entries
         /\ NextEntry(n, i).lines \in SUBSET Lines
         /\ NextEntry(n, i).is_rel \in BOOLEAN
         /\ NextEntry(n, i).published
<1>1. head[n][i] \in Nat /\ log[i] \in Seq(Entries)
  BY DEF TypeOK, Clocks
<1>2. head[n][i] + 1 \in 1 .. Len(log[i]) /\ NextEntry(n, i).published
  BY <1>1 DEF Available, NextEntry
<1>3. NextEntry(n, i) \in Entries
  BY <1>1, <1>2 DEF NextEntry
<1>4. QED
  BY <1>2, <1>3 DEF Entries

(* Only lines are invalidated or marked.                                   *)
LEMMA TypeInvalidation ==
  ASSUME TypeOK, Next
  PROVE  flushing' \in [Nodes -> SUBSET Lines] /\ inv_cls' \in [Nodes -> SUBSET Lines]
<1>0. /\ flushing \in [Nodes -> SUBSET Lines] /\ inv_cls \in [Nodes -> SUBSET Lines]
      /\ src \in [Threads -> Nodes] /\ asrc \in [Nodes -> Nodes] /\ NodeOf \in [Threads -> Nodes]
  BY CoherenceAssumption DEF CoherenceAssumption, TypeOK
<1>1. ASSUME NEW n \in Nodes, NEW i \in Nodes, ConsumeEntry(n, i)
      PROVE  flushing' \in [Nodes -> SUBSET Lines] /\ inv_cls' \in [Nodes -> SUBSET Lines]
  <2>1. NextEntry(n, i).lines \in SUBSET Lines
    BY <1>1, ConsumeTypes DEF ConsumeEntry
  <2>2. ProcessLog(n, NextEntry(n, i).lines)
    BY <1>1 DEF ConsumeEntry
  <2>3. QED
    BY <1>0, <2>1, <2>2, ProcessLogTypes
<1>2. ASSUME (\E t \in Threads : HelpConsume(t)) \/ \E n \in Nodes : AgentConsume(n)
      PROVE  flushing' \in [Nodes -> SUBSET Lines] /\ inv_cls' \in [Nodes -> SUBSET Lines]
  <2>1. CASE \E t \in Threads : HelpConsume(t)
    BY <1>0, <1>1, <2>1 DEF HelpConsume
  <2>2. CASE \E n \in Nodes : AgentConsume(n)
    BY <1>0, <1>1, <2>2 DEF AgentConsume
  <2>3. QED
    BY <1>2, <2>1, <2>2
<1>3. ASSUME NEW t \in Threads, NEW x \in Lines, CheckDirty(t, x)
      PROVE  flushing' \in [Nodes -> SUBSET Lines]
  BY <1>0, <1>3 DEF CheckDirty
<1>4. ASSUME NEW n \in Nodes, NEW x \in Lines, Invalidated(n, x)
      PROVE  flushing' \in [Nodes -> SUBSET Lines]
  BY <1>0, <1>4 DEF Invalidated
<1>5. ASSUME NEW t \in Threads, CheckClear(t)
      PROVE  inv_cls' \in [Nodes -> SUBSET Lines]
  BY <1>0, <1>5 DEF CheckClear
<1>6. flushing' \in [Nodes -> SUBSET Lines]
  BY <1>0, <1>2, <1>3, <1>4, FrameFlushing
<1>7. inv_cls' \in [Nodes -> SUBSET Lines]
  BY <1>0, <1>2, <1>5, FrameMarks
<1>8. QED
  BY <1>6, <1>7

(* A sequence of entries after a claim, and after one of them is published. *)
LEMMA AppendEntry ==
  ASSUME NEW s \in Seq(Entries), NEW e \in Entries
  PROVE  /\ Append(s, e) \in Seq(Entries)
         /\ Len(Append(s, e)) = Len(s) + 1
         /\ \A k \in 1 .. Len(s) : Append(s, e)[k] = s[k]
         /\ Append(s, e)[Len(s) + 1] = e
OBVIOUS

(* A sequence of entries with one of them replaced.                        *)
LEMMA UpdateEntry ==
  ASSUME NEW s \in Seq(Entries), NEW p \in 1 .. Len(s), NEW e \in Entries
  PROVE  /\ [s EXCEPT ![p] = e] \in Seq(Entries)
         /\ Len([s EXCEPT ![p] = e]) = Len(s)
         /\ \A k \in 1 .. Len(s) : [s EXCEPT ![p] = e][k] = IF k = p THEN e ELSE s[k]
OBVIOUS

(* An entry with its flag set is an entry.                                 *)
LEMMA PublishedEntry ==
  ASSUME NEW e \in Entries
  PROVE  /\ [e EXCEPT !.published = TRUE] \in Entries
         /\ [e EXCEPT !.published = TRUE].lines = e.lines
         /\ [e EXCEPT !.published = TRUE].is_rel = e.is_rel
         /\ [e EXCEPT !.published = TRUE].published
BY DEF Entries

(* What Claim and Publish do to the log.                                   *)
LEMMA ClaimEffect ==
  ASSUME TypeOK, NEW t \in Threads, Claim(t)
  PROVE  /\ log' \in [Nodes -> Seq(Entries)]
         /\ \A i \in Nodes \ {NodeOf[t]} : log'[i] = log[i]
         /\ \A i \in Nodes : \A k \in 1 .. Len(log[i]) : log'[i][k] = log[i][k]
         /\ Len(log'[NodeOf[t]]) = Len(log[NodeOf[t]]) + 1
         /\ pos'[t] = Len(log[NodeOf[t]]) + 1
         /\ log'[NodeOf[t]][pos'[t]] =
              [lines |-> dirty_cls[t], is_rel |-> op[t] # "insert", published |-> FALSE]
<1> DEFINE n == NodeOf[t]
           e == [lines |-> dirty_cls[t], is_rel |-> op[t] # "insert", published |-> FALSE]
<1>1. /\ n \in Nodes /\ log \in [Nodes -> Seq(Entries)] /\ pos \in [Threads -> Nat]
      /\ dirty_cls[t] \in SUBSET Lines
  BY CoherenceAssumption DEF CoherenceAssumption, TypeOK
<1>2. e \in Entries
  BY <1>1 DEF Entries
<1>3. log' = [log EXCEPT ![n] = Append(log[n], e)] /\ pos' = [pos EXCEPT ![t] = Len(log[n]) + 1]
  BY DEF Claim
<1> HIDE DEF e, n
<1>4. log'[n] = Append(log[n], e) /\ \A i \in Nodes \ {n} : log'[i] = log[i]
  BY <1>1, <1>3
<1>5. log[n] \in Seq(Entries)
  BY <1>1
<1>6. /\ log'[n] \in Seq(Entries) /\ Len(log'[n]) = Len(log[n]) + 1
      /\ \A k \in 1 .. Len(log[n]) : log'[n][k] = log[n][k]
      /\ log'[n][Len(log[n]) + 1] = e
  BY <1>2, <1>4, <1>5, AppendEntry
<1>7. log' \in [Nodes -> Seq(Entries)]
  BY <1>1, <1>3, <1>4, <1>6
<1>8. \A i \in Nodes : \A k \in 1 .. Len(log[i]) : log'[i][k] = log[i][k]
  BY <1>4, <1>6
<1>9. pos'[t] = Len(log[n]) + 1
  BY <1>1, <1>3
<1>10. QED
  BY <1>4, <1>6, <1>7, <1>8, <1>9 DEF e, n

(* Publish changes the flag of the claimed entry only.                     *)
LEMMA PublishEffect ==
  ASSUME TypeOK, ClaimInv, NEW t \in Threads, Publish(t)
  PROVE  /\ log' \in [Nodes -> Seq(Entries)]
         /\ \A i \in Nodes \ {NodeOf[t]} : log'[i] = log[i]
         /\ \A i \in Nodes : Len(log'[i]) = Len(log[i])
         /\ \A i \in Nodes : \A k \in 1 .. Len(log[i]) :
              /\ log'[i][k].lines = log[i][k].lines
              /\ log'[i][k].is_rel = log[i][k].is_rel
              /\ log[i][k].published => log'[i][k].published
              /\ log'[i][k].published => log[i][k].published \/ (i = NodeOf[t] /\ k = pos[t])
         /\ pos[t] \in 1 .. Len(log[NodeOf[t]])
         /\ log'[NodeOf[t]][pos[t]].published
<1> DEFINE n == NodeOf[t]
           e == [log[n][pos[t]] EXCEPT !.published = TRUE]
<1>1. /\ n \in Nodes /\ log \in [Nodes -> Seq(Entries)] /\ pos[t] \in 1 .. Len(log[n])
  BY CoherenceAssumption DEF CoherenceAssumption, TypeOK, ClaimInv, Publish
<1>2. log[n][pos[t]] \in Entries
  BY <1>1
<1>3. /\ e \in Entries /\ e.lines = log[n][pos[t]].lines /\ e.is_rel = log[n][pos[t]].is_rel
      /\ e.published
  BY <1>2, PublishedEntry
<1>4. log' = [log EXCEPT ![n] = [log[n] EXCEPT ![pos[t]] = e]]
  BY DEF Publish
<1> HIDE DEF e, n
<1>5. log'[n] = [log[n] EXCEPT ![pos[t]] = e] /\ \A i \in Nodes \ {n} : log'[i] = log[i]
  BY <1>1, <1>4
<1>6. log[n] \in Seq(Entries)
  BY <1>1
<1>7. /\ log'[n] \in Seq(Entries) /\ Len(log'[n]) = Len(log[n])
      /\ \A k \in 1 .. Len(log[n]) : log'[n][k] = IF k = pos[t] THEN e ELSE log[n][k]
  BY <1>1, <1>3, <1>5, <1>6, UpdateEntry
<1>8. log' \in [Nodes -> Seq(Entries)]
  BY <1>1, <1>4, <1>5, <1>7
<1>9. \A i \in Nodes : Len(log'[i]) = Len(log[i])
  BY <1>5, <1>7
<1>10. \A i \in Nodes : \A k \in 1 .. Len(log[i]) :
         /\ log'[i][k].lines = log[i][k].lines
         /\ log'[i][k].is_rel = log[i][k].is_rel
         /\ log[i][k].published => log'[i][k].published
         /\ log'[i][k].published => log[i][k].published \/ (i = n /\ k = pos[t])
  BY <1>3, <1>5, <1>7
<1>11. log'[n][pos[t]].published
  BY <1>1, <1>3, <1>7
<1>12. QED
  BY <1>1, <1>5, <1>8, <1>9, <1>10, <1>11 DEF n

-----------------------------------------------------------------------------
(* Types, continued.                                                       *)

(* Control stays within the labels, operations and objects.                *)
LEMMA TypeControl ==
  ASSUME TypeOK, OpInv, ObjInv, Next
  PROVE  pc' \in [Threads -> Labels] /\ op' \in [Threads -> Operations]
         /\ obj' \in [Threads -> Locs \cup Lines \cup Threads \cup {None}]
<1> USE DEF OtherThanHw, OtherThanSync, OtherThanHelp, OtherThanAgent, hwVars,
  invVars, agentVars, helpVars, logVars, storeVars, histVars, syncVars
<1> DEFINE Goal == /\ pc' \in [Threads -> Labels] /\ op' \in [Threads -> Operations]
                   /\ obj' \in [Threads -> Locs \cup Lines \cup Threads \cup {None}]
<1>0. /\ pc \in [Threads -> Labels] /\ op \in [Threads -> Operations]
      /\ obj \in [Threads -> Locs \cup Lines \cup Threads \cup {None}]
  BY DEF TypeOK
<1>a. Releases \subseteq Labels /\ Releases \subseteq Operations
  BY DEF Releases, AtomicOps, Labels, Operations
<1>1. ASSUME NEW t \in Threads, NEW x \in Lines, Store(t, x)
      PROVE  Goal
  BY <1>0, <1>1 DEF Store, RaceFree, CountOp, WriteLine, Goto, Labels, Operations
<1>2. ASSUME NEW t \in Threads, NEW x \in Lines, CheckDirty(t, x)
      PROVE  Goal
  BY <1>0, <1>2 DEF CheckDirty, Goto, Labels, Operations
<1>3. ASSUME NEW t \in Threads, NEW o \in Releases, NEW a \in Locs \cup Threads \cup {None}, MayRelease(t, o, a), ThreadRelease(t, o, a)
      PROVE  Goal
  BY <1>0, <1>a, <1>3 DEF ThreadRelease, Goto, Labels
<1>4. ASSUME NEW t \in Threads, NEW a \in Atomics, AtomicLoad(t, a)
      PROVE  Goal
  BY <1>0, <1>4 DEF AtomicLoad, CountOp, AcquireCopy, Goto, Labels, Operations
<1>5. ASSUME NEW t \in Threads, NEW m \in Mutexes, Lock(t, m)
      PROVE  Goal
  BY <1>0, <1>5 DEF Lock, CountOp, AcquireRef, Goto, Labels, Locs, Locks
<1>6. ASSUME NEW t \in Threads, NEW m \in SharedMutexes, LockShared(t, m)
      PROVE  Goal
  BY <1>0, <1>6 DEF LockShared, CountOp, AcquireRef, Goto, Labels, Locs, Locks
<1>7. ASSUME NEW t \in Threads, NEW m \in SharedMutexes, LockExclusive(t, m)
      PROVE  Goal
  BY <1>0, <1>7 DEF LockExclusive, CountOp, AcquireRef, Goto, Labels, Operations,
    Locs, Locks
<1>8. ASSUME NEW t \in Threads, NEW c \in DOMAIN ParentOf, ParentOf[c] = t, Join(t, c)
      PROVE  Goal
  <2>1. c \in Threads
    BY CoherenceAssumption DEF CoherenceAssumption
  <2>2. QED
    BY <1>0, <2>1, <1>8 DEF Join, AcquireRef, Labels
<1>9. ASSUME NEW t \in Threads, Insert(t)
      PROVE  Goal
  BY <1>0, <1>9 DEF Insert, WriteLine, Goto, Labels, Operations
<1>10. ASSUME NEW t \in Threads, Claim(t)
      PROVE  Goal
  BY <1>0, <1>10 DEF Claim, Goto, Labels, Operations
<1>11. ASSUME NEW t \in Threads, Publish(t)
      PROVE  Goal
  <2>1. op[t] \in Labels
    BY <1>a, <1>11 DEF Publish, OpInv, Labels
  <2>2. pc' = [pc EXCEPT ![t] = op[t]] /\ UNCHANGED <<op, obj>>
    BY <1>11 DEF Publish, Goto
  <2>3. QED
    BY <1>0, <2>1, <2>2
<1>12. ASSUME NEW t \in Threads, CheckClear(t)
      PROVE  Goal
  BY <1>0, <1>12 DEF CheckClear, Goto, Labels, Operations
<1>13. ASSUME NEW t \in Threads, AtomicStore(t)
      PROVE  Goal
  BY <1>0, <1>13 DEF AtomicStore, EndOp, Goto, Labels, Operations
<1>14. ASSUME NEW t \in Threads, FetchAdd(t)
      PROVE  Goal
  BY <1>0, <1>14 DEF FetchAdd, EndOp, AcquireCopy, Goto, Labels, Operations
<1>15. ASSUME NEW t \in Threads, Unlock(t)
      PROVE  Goal
  BY <1>0, <1>15 DEF Unlock, EndOp, Goto, Labels, Operations
<1>16. ASSUME NEW t \in Threads, Create(t)
      PROVE  Goal
  <2>1. obj[t] \in Threads
    BY CoherenceAssumption, <1>16 DEF CoherenceAssumption, Create, OpInv, ObjInv, ObjOf, Releases, AtomicOps
  <2>2. QED
    BY <1>0, <2>1, <1>16 DEF Create, Labels, Operations
<1>17. ASSUME NEW t \in Threads, Upgrade(t)
      PROVE  Goal
  BY <1>0, <1>17 DEF Upgrade, Goto, Labels, Operations
<1>18. ASSUME NEW t \in Threads, TakeWlock(t)
      PROVE  Goal
  BY <1>0, <1>18 DEF TakeWlock, Goto, Labels, Operations
<1>19. ASSUME NEW t \in Threads, Drain(t)
      PROVE  Goal
  BY <1>0, <1>19 DEF Drain, AcquireRef, Goto, Labels, Operations
<1>20. ASSUME NEW t \in Threads, UnlockShared(t)
      PROVE  Goal
  BY <1>0, <1>20 DEF UnlockShared, EndOp, Goto, Labels, Operations
<1>21. ASSUME NEW t \in Threads, NEW i \in Nodes, AcquireBehind(t, i)
      PROVE  Goal
  BY <1>0, <1>21 DEF AcquireBehind, Goto, Labels, Operations
<1>22. ASSUME NEW t \in Threads, HelpTryLock(t)
      PROVE  Goal
  BY <1>0, <1>22 DEF HelpTryLock, Goto, Labels, Operations
<1>23. ASSUME NEW t \in Threads, HelpUpdate(t)
      PROVE  Goal
  BY <1>0, <1>23 DEF HelpUpdate, Goto, Labels, Operations
<1>24. ASSUME NEW t \in Threads, HelpUnlock(t)
      PROVE  Goal
  BY <1>0, <1>24 DEF HelpUnlock, Goto, Labels, Operations
<1>25. ASSUME NEW t \in Threads, AcquireDone(t)
      PROVE  Goal
  <2>1. op[t] \in {None, "upgrade"}
    BY <1>25 DEF AcquireDone, OpInv, Acquiring
  <2>2. QED
    BY <1>0, <2>1, <1>25 DEF AcquireDone, Goto, Labels
<1>26. QED
  BY <1>0, <1>1, <1>2, <1>3, <1>4, <1>5, <1>6, <1>7, <1>8, <1>9, <1>10, <1>11, <1>12,
    <1>13, <1>14, <1>15, <1>16, <1>17, <1>18, <1>19, <1>20, <1>21, <1>22, <1>23,
    <1>24, <1>25, FrameControl

(* The recorded lines.                                                     *)
LEMMA TypeTable ==
  ASSUME TypeOK, OpInv, ObjInv, Next
  PROVE  recent_cl' \in [Threads -> Lines \cup {None}] /\ dirty_cls' \in [Threads -> SUBSET Lines]
<1>0. recent_cl \in [Threads -> Lines \cup {None}] /\ dirty_cls \in [Threads -> SUBSET Lines]
  BY DEF TypeOK
<1>1. recent_cl' \in [Threads -> Lines \cup {None}]
  BY <1>0, FrameRecent DEF Store, ThreadRelease
<1>2. ASSUME NEW t \in Threads, NEW x \in Lines, Store(t, x)
      PROVE  dirty_cls' \in [Threads -> SUBSET Lines]
  <2>1. dirty_cls' = dirty_cls \/ dirty_cls' = [dirty_cls EXCEPT ![t] = @ \cup {x}]
    BY <1>2 DEF Store
  <2>2. QED
    BY <1>0, <2>1
<1>3. ASSUME NEW t \in Threads, Insert(t)
      PROVE  dirty_cls' \in [Threads -> SUBSET Lines]
  <2>1. obj[t] \in Lines
    BY <1>3 DEF Insert, OpInv, ObjInv, ObjOf
  <2>2. dirty_cls' = [dirty_cls EXCEPT ![t] = @ \cup {obj[t]}]
    BY <1>3 DEF Insert
  <2>3. QED
    BY <1>0, <2>1, <2>2
<1>4. ASSUME NEW t \in Threads, Publish(t)
      PROVE  dirty_cls' \in [Threads -> SUBSET Lines]
  BY <1>0, <1>4 DEF Publish
<1>5. QED
  BY <1>0, <1>1, <1>2, <1>3, <1>4, FrameTable

(* Logs are sequences of entries.                                          *)
LEMMA TypeLog ==
  ASSUME TypeOK, ClaimInv, Next
  PROVE  log' \in [Nodes -> Seq(Entries)] /\ pos' \in [Threads -> Nat]
<1>0. /\ log \in [Nodes -> Seq(Entries)] /\ pos \in [Threads -> Nat]
      /\ NodeOf \in [Threads -> Nodes]
  BY CoherenceAssumption DEF CoherenceAssumption, TypeOK
<1>1. log' \in [Nodes -> Seq(Entries)]
  BY <1>0, FrameLog, ClaimEffect, PublishEffect
<1>2. ASSUME NEW t \in Threads, Claim(t) PROVE pos' \in [Threads -> Nat]
  <2>1. Len(log[NodeOf[t]]) + 1 \in Nat
    BY <1>0
  <2>2. pos' = [pos EXCEPT ![t] = Len(log[NodeOf[t]]) + 1]
    BY <1>2 DEF Claim
  <2>3. QED
    BY <1>0, <2>1, <2>2
<1>3. ASSUME NEW t \in Threads, Publish(t) PROVE pos' \in [Threads -> Nat]
  BY <1>0, <1>3 DEF Publish
<1>4. QED
  BY <1>0, <1>1, <1>2, <1>3, FramePos

(* The clock a consumer has reached.                                       *)
LEMMA EntryClockType ==
  ASSUME TypeOK, NEW n \in Nodes, NEW i \in Nodes, NEW c \in Nat
  PROVE  EntryClock(n, i, c) \in Nat
BY DEF TypeOK, Clocks, EntryClock

(* Heads and the clocks that consumers have reached count.                 *)
LEMMA TypeConsume ==
  ASSUME TypeOK, Next
  PROVE  /\ head' \in [Nodes -> Clocks]
         /\ src' \in [Threads -> Nodes]
         /\ clk' \in [Threads -> Nat]
         /\ log_head_mtx' \in [Nodes -> Threads \cup Nodes \cup {None}]
<1>0. /\ head \in [Nodes -> Clocks] /\ clock \in [Nodes -> Clocks]
      /\ src \in [Threads -> Nodes] /\ clk \in [Threads -> Nat]
      /\ asrc \in [Nodes -> Nodes]
      /\ log_head_mtx \in [Nodes -> Threads \cup Nodes \cup {None}]
      /\ NodeOf \in [Threads -> Nodes]
  BY CoherenceAssumption DEF CoherenceAssumption, TypeOK
<1>1. ASSUME NEW n \in Nodes, NEW i \in Nodes, head' = [head EXCEPT ![n][i] = @ + 1]
      PROVE  head' \in [Nodes -> Clocks]
  BY <1>0, <1>1 DEF Clocks
<1>2. head' \in [Nodes -> Clocks]
  BY <1>0, <1>1, FrameHead DEF HelpConsume, AgentConsume, ConsumeEntry
<1>3. log_head_mtx' \in [Nodes -> Threads \cup Nodes \cup {None}]
  BY <1>0, FrameMutex DEF HelpTryLock, HelpUnlock, AgentLock, AgentUnlock
<1>4. ASSUME NEW t \in Threads, HelpConsume(t)
      PROVE  clk' \in [Threads -> Nat] /\ UNCHANGED src
  <2>1. EntryClock(NodeOf[t], src[t], clk[t]) \in Nat
    BY <1>0, EntryClockType
  <2>2. clk' = [clk EXCEPT ![t] = EntryClock(NodeOf[t], src[t], clk[t])] /\ UNCHANGED src
    BY <1>4 DEF HelpConsume
  <2>3. QED
    BY <1>0, <2>1, <2>2
<1>5. ASSUME NEW t \in Threads, HelpTryLock(t)
      PROVE  clk' \in [Threads -> Nat] /\ UNCHANGED src
  <2>1. clock[NodeOf[t]][src[t]] \in Nat
    BY <1>0 DEF Clocks
  <2>2. UNCHANGED src /\ (UNCHANGED clk \/ clk' = [clk EXCEPT ![t] = clock[NodeOf[t]][src[t]]])
    BY <1>5 DEF HelpTryLock
  <2>3. QED
    BY <1>0, <2>1, <2>2
<1>6. ASSUME NEW t \in Threads, HelpUnlock(t)
      PROVE  clk' \in [Threads -> Nat] /\ src' \in [Threads -> Nodes]
  BY <1>0, <1>6 DEF HelpUnlock
<1>7. ASSUME NEW t \in Threads, NEW i \in Nodes, AcquireBehind(t, i)
      PROVE  UNCHANGED clk /\ src' \in [Threads -> Nodes]
  BY <1>0, <1>7 DEF AcquireBehind
<1>8. clk' \in [Threads -> Nat] /\ src' \in [Threads -> Nodes]
  BY <1>0, <1>4, <1>5, <1>6, <1>7, FrameHelp
<1>9. QED
  BY <1>2, <1>3, <1>8

(* Cache clocks count.                                                     *)
LEMMA TypeClock ==
  ASSUME TypeOK, Next
  PROVE  clock' \in [Nodes -> Clocks]
<1>0. /\ clock \in [Nodes -> Clocks] /\ src \in [Threads -> Nodes] /\ clk \in [Threads -> Nat]
      /\ asrc \in [Nodes -> Nodes] /\ aclk \in [Nodes -> Nat]
      /\ NodeOf \in [Threads -> Nodes]
  BY CoherenceAssumption DEF CoherenceAssumption, TypeOK
<1>1. ASSUME NEW n \in Nodes, NEW i \in Nodes, NEW c \in Nat, clock' = [clock EXCEPT ![n][i] = c]
      PROVE  clock' \in [Nodes -> Clocks]
  BY <1>0, <1>1 DEF Clocks
<1>2. ASSUME NEW t \in Threads, HelpUpdate(t)
      PROVE  clock' \in [Nodes -> Clocks]
  BY <1>0, <1>1, <1>2 DEF HelpUpdate
<1>3. ASSUME NEW n \in Nodes, AgentUpdate(n)
      PROVE  clock' \in [Nodes -> Clocks]
  BY <1>0, <1>1, <1>3 DEF AgentUpdate
<1>4. QED
  BY <1>0, <1>1, <1>2, <1>3, FrameClock

(* The agent stays within its loop and its batch.                          *)
LEMMA TypeAgent ==
  ASSUME TypeOK, Next
  PROVE  /\ apc' \in [Nodes -> {"off", "batch", "unlock"}]
         /\ asrc' \in [Nodes -> Nodes] /\ aclk' \in [Nodes -> Nat]
         /\ acnt' \in [Nodes -> 0 .. LOG_MAX_BATCH]
<1> DEFINE Goal == /\ apc' \in [Nodes -> {"off", "batch", "unlock"}]
                   /\ asrc' \in [Nodes -> Nodes] /\ aclk' \in [Nodes -> Nat]
                   /\ acnt' \in [Nodes -> 0 .. LOG_MAX_BATCH]
<1>0. /\ apc \in [Nodes -> {"off", "batch", "unlock"}]
      /\ asrc \in [Nodes -> Nodes] /\ aclk \in [Nodes -> Nat]
      /\ acnt \in [Nodes -> 0 .. LOG_MAX_BATCH] /\ LOG_MAX_BATCH \in Nat
  BY CoherenceAssumption DEF CoherenceAssumption, TypeOK
<1>1. ASSUME NEW n \in Nodes, NEW i \in Nodes, AgentLock(n, i) PROVE Goal
  BY <1>0, <1>1 DEF AgentLock
<1>2. ASSUME NEW n \in Nodes, AgentConsume(n) PROVE Goal
  <2>1. EntryClock(n, asrc[n], aclk[n]) \in Nat
    BY <1>0, EntryClockType
  <2>2. acnt[n] + 1 \in 0 .. LOG_MAX_BATCH
    BY <1>0, <1>2 DEF AgentConsume, BatchFull
  <2>3. /\ aclk' = [aclk EXCEPT ![n] = EntryClock(n, asrc[n], aclk[n])]
        /\ acnt' = [acnt EXCEPT ![n] = acnt[n] + 1] /\ UNCHANGED <<apc, asrc>>
    BY <1>2 DEF AgentConsume
  <2>4. QED
    BY <1>0, <2>1, <2>2, <2>3
<1>3. ASSUME NEW n \in Nodes, AgentUpdate(n) PROVE Goal
  BY <1>0, <1>3 DEF AgentUpdate
<1>4. ASSUME NEW n \in Nodes, AgentUnlock(n) PROVE Goal
  BY <1>0, <1>4 DEF AgentUnlock
<1>5. QED
  BY <1>0, <1>1, <1>2, <1>3, <1>4, FrameAgent

(* What threads wait for and have done.                                    *)
LEMMA TypeProgress ==
  ASSUME TypeOK, OpInv, ObjInv, Next
  PROVE  /\ node_done' \in [Threads -> SUBSET Nodes]
         /\ ops' \in [Threads -> Nat] /\ \A t \in Threads : ops'[t] <= MaxOps[t]
<1>0. /\ node_done \in [Threads -> SUBSET Nodes] /\ src \in [Threads -> Nodes]
      /\ ops \in [Threads -> Nat] /\ \A t \in Threads : ops[t] <= MaxOps[t]
      /\ NodeOf \in [Threads -> Nodes] /\ MaxOps \in [Threads -> Nat]
      /\ DOMAIN ParentOf \subseteq Threads
  BY CoherenceAssumption DEF CoherenceAssumption, TypeOK
<1>1. ASSUME NEW t \in Threads, CountOp(t)
      PROVE  ops' \in [Threads -> Nat] /\ \A u \in Threads : ops'[u] <= MaxOps[u]
  BY <1>0, <1>1 DEF CountOp
<1>2. ops' \in [Threads -> Nat] /\ \A t \in Threads : ops'[t] <= MaxOps[t]
  BY <1>0, <1>1, FrameOps
    DEF Store, ThreadRelease, AtomicLoad, Lock, LockShared, LockExclusive, Join
<1>3. ASSUME NEW t \in Threads, NEW s \in SUBSET Nodes, node_done' = [node_done EXCEPT ![t] = s]
      PROVE  node_done' \in [Threads -> SUBSET Nodes]
  BY <1>0, <1>3
<1>4. ASSUME NEW t \in Threads, Create(t) PROVE node_done' \in [Threads -> SUBSET Nodes]
  BY <1>0, <1>4 DEF Create
<1>5. ASSUME NEW t \in Threads,
             \/ \E i \in Nodes : AcquireReady(t, i) \/ CopyClock(t, i)
             \/ HelpUnlock(t) \/ AcquireDone(t) \/ UnlockShared(t)
      PROVE  node_done' \in [Threads -> SUBSET Nodes]
  <2>1. CASE \E i \in Nodes : AcquireReady(t, i) \/ CopyClock(t, i)
    BY <1>0, <2>1 DEF AcquireReady, CopyClock
  <2>2. CASE HelpUnlock(t) \/ AcquireDone(t) \/ UnlockShared(t)
    BY <1>0, <2>2 DEF HelpUnlock, AcquireDone, UnlockShared
  <2>3. QED
    BY <1>5, <2>1, <2>2
<1>6. ASSUME NEW t \in Threads,
             \/ \E a \in Atomics : AtomicLoad(t, a)
             \/ \E m \in Mutexes : Lock(t, m)
             \/ \E m \in SharedMutexes : LockShared(t, m) \/ LockExclusive(t, m)
             \/ \E c \in DOMAIN ParentOf : Join(t, c)
             \/ FetchAdd(t) \/ Drain(t)
      PROVE  UNCHANGED node_done \/ node_done' = [node_done EXCEPT ![t] = {NodeOf[t]}]
  BY <1>6 DEF AtomicLoad, Lock, LockShared, LockExclusive, Join, FetchAdd, Drain, AcquireRef,
              AcquireCopy
<1>7. node_done' \in [Threads -> SUBSET Nodes]
  BY <1>0, <1>3, <1>4, <1>5, <1>6, FrameNodeDone
<1>8. QED
  BY <1>2, <1>7

(* Locks are held by threads.                                              *)
LEMMA TypeLocks ==
  ASSUME TypeOK, Next
  PROVE  owner' \in [Locks -> Threads \cup {None}] /\ readers' \in [SharedMutexes -> SUBSET Threads]
<1>0. owner \in [Locks -> Threads \cup {None}] /\ readers \in [SharedMutexes -> SUBSET Threads]
  BY DEF TypeOK
<1>1. owner' \in [Locks -> Threads \cup {None}]
  BY <1>0, FrameOwner DEF Lock, Unlock, TakeWlock
<1>2. readers' \in [SharedMutexes -> SUBSET Threads]
  BY <1>0, FrameReaders DEF LockShared, LockExclusive, Upgrade, UnlockShared
<1>3. QED
  BY <1>1, <1>2

(* The clocks of threads and objects, and the copies acquires work on.     *)
LEMMA TypeClocks ==
  ASSUME TypeOK, OpInv, ObjInv, Next
  PROVE  /\ thread_clock' \in [Threads -> Clocks] /\ target' \in [Threads -> Clocks]
         /\ loc_clock' \in [Locs -> Clocks]
<1>0. /\ thread_clock \in [Threads -> Clocks] /\ target \in [Threads -> Clocks]
      /\ loc_clock \in [Locs -> Clocks] /\ pos \in [Threads -> Nat]
      /\ NodeOf \in [Threads -> Nodes]
  BY CoherenceAssumption DEF CoherenceAssumption, TypeOK
<1>1. ASSUME NEW t \in Threads, Publish(t) PROVE thread_clock' \in [Threads -> Clocks]
  BY <1>0, <1>1 DEF Publish, ReleaseClock, Clocks
<1>2. ASSUME NEW t \in Threads, AcquireDone(t)
      PROVE  thread_clock' \in [Threads -> Clocks] /\ target' \in [Threads -> Clocks]
  <2>1. AcquiredClock(t) \in Clocks
    BY <1>0, <1>2, TargetTypes, MergeTypes DEF AcquiredClock, AcquireDone, Acquiring
  <2>2. ZeroClock \in Clocks
    BY DEF ZeroClock, Clocks
  <2>3. /\ thread_clock' = [thread_clock EXCEPT ![t] = AcquiredClock(t)]
        /\ target' = [target EXCEPT ![t] = ZeroClock]
    BY <1>2 DEF AcquireDone
  <2>4. QED
    BY <1>0, <2>1, <2>2, <2>3
<1>3. ASSUME NEW t \in Threads, NEW a \in Atomics, AtomicLoad(t, a)
      PROVE  target' \in [Threads -> Clocks]
  BY <1>0, <1>3 DEF AtomicLoad, AcquireCopy, Locs
<1>4. ASSUME NEW t \in Threads, FetchAdd(t)
      PROVE  target' \in [Threads -> Clocks] /\ loc_clock' \in [Locs -> Clocks]
  <2>1. obj[t] \in Locs
    BY <1>4 DEF FetchAdd, OpInv, ObjInv, ObjOf, Releases, AtomicOps, Locs
  <2>2. Merge(loc_clock[obj[t]], thread_clock[t]) \in Clocks
    BY <1>0, <2>1, MergeTypes
  <2>3. /\ loc_clock' = [loc_clock EXCEPT ![obj[t]] = Merge(loc_clock[obj[t]], thread_clock[t])]
        /\ \/ UNCHANGED target
           \/ target' = [target EXCEPT ![t] = Merge(loc_clock[obj[t]], thread_clock[t])]
    BY <1>4 DEF FetchAdd, AcquireCopy
  <2>4. QED
    BY <1>0, <2>1, <2>2, <2>3
<1>5. ASSUME NEW t \in Threads, AtomicStore(t) \/ Unlock(t) PROVE loc_clock' \in [Locs -> Clocks]
  BY <1>0, <1>5 DEF AtomicStore, Unlock
<1>6. ASSUME NEW t \in Threads, NEW i \in Nodes, CopyClock(t, i) PROVE loc_clock' \in [Locs -> Clocks]
  <2>1. obj[t] \in Locs
    BY <1>6 DEF CopyClock, OpInv, ObjInv, ObjOf, Releases, AtomicOps, Locs, Locks
  <2>2. thread_clock[t][i] \in Nat
    BY <1>0 DEF Clocks
  <2>3. loc_clock' = [loc_clock EXCEPT ![obj[t]][i] = thread_clock[t][i]]
    BY <1>6 DEF CopyClock, CopiedClock
  <2>4. QED
    BY <1>0, <2>1, <2>2, <2>3 DEF Clocks
<1>7. thread_clock' \in [Threads -> Clocks]
  BY <1>0, <1>1, <1>2, FrameThreadClock
<1>8. target' \in [Threads -> Clocks]
  BY <1>0, <1>2, <1>3, <1>4, FrameTarget
<1>9. loc_clock' \in [Locs -> Clocks]
  BY <1>0, <1>4, <1>5, <1>6, FrameLocClock
<1>10. QED
  BY <1>7, <1>8, <1>9

(* The history.                                                            *)
LEMMA TypeHistory ==
  ASSUME TypeOK, OpInv, ObjInv, Next
  PROVE  /\ latest' \in Versions /\ seen' \in [Threads -> Versions]
         /\ loc_seen' \in [Locs -> Versions] /\ got' \in [Threads -> Versions]
         /\ read_seen' \in [SharedMutexes -> Versions]
<1>0. /\ latest \in Versions /\ seen \in [Threads -> Versions]
      /\ loc_seen \in [Locs -> Versions] /\ got \in [Threads -> Versions]
      /\ read_seen \in [SharedMutexes -> Versions] /\ DOMAIN ParentOf \subseteq Threads
  BY CoherenceAssumption DEF CoherenceAssumption, TypeOK
<1>1. ASSUME NEW t \in Threads, NEW x \in Lines, Store(t, x)
      PROVE  latest' \in Versions /\ seen' \in [Threads -> Versions]
  <2>1. /\ latest' = [latest EXCEPT ![x] = latest[x] + 1]
        /\ seen' = [seen EXCEPT ![t][x] = latest[x] + 1]
    BY <1>1 DEF Store
  <2>2. QED
    BY <1>0, <2>1 DEF Versions
<1>2. ASSUME NEW t \in Threads, AcquireDone(t)
      PROVE  seen' \in [Threads -> Versions] /\ got' \in [Threads -> Versions]
  <2>1. Merge(seen[t], got[t]) \in Versions /\ [x \in Lines |-> 0] \in Versions
    BY <1>0, MergeTypes DEF Versions
  <2>2. /\ seen' = [seen EXCEPT ![t] = Merge(seen[t], got[t])]
        /\ got' = [got EXCEPT ![t] = [x \in Lines |-> 0]]
    BY <1>2 DEF AcquireDone
  <2>3. QED
    BY <1>0, <2>1, <2>2
<1>3. ASSUME NEW t \in Threads, FetchAdd(t)
      PROVE  loc_seen' \in [Locs -> Versions] /\ got' \in [Threads -> Versions]
  <2>1. obj[t] \in Locs
    BY <1>3 DEF FetchAdd, OpInv, ObjInv, ObjOf, Releases, AtomicOps, Locs
  <2>2. Merge(loc_seen[obj[t]], seen[t]) \in Versions
    BY <1>0, <2>1, MergeTypes
  <2>3. /\ loc_seen' = [loc_seen EXCEPT ![obj[t]] = Merge(loc_seen[obj[t]], seen[t])]
        /\ UNCHANGED got \/ got' = [got EXCEPT ![t] = Merge(loc_seen[obj[t]], seen[t])]
    BY <1>3 DEF FetchAdd, AcquireCopy
  <2>4. QED
    BY <1>0, <2>1, <2>2, <2>3
<1>4. ASSUME NEW t \in Threads, AtomicStore(t) \/ Unlock(t) PROVE loc_seen' \in [Locs -> Versions]
  BY <1>0, <1>4 DEF AtomicStore, Unlock
<1>5. ASSUME NEW t \in Threads, Drain(t) PROVE got' \in [Threads -> Versions]
  <2>1. obj[t] \in SharedMutexes /\ obj[t] \in Locs
    BY <1>5 DEF Drain, OpInv, ObjInv, ObjOf, Locs, Locks
  <2>2. Merge(loc_seen[obj[t]], read_seen[obj[t]]) \in Versions
    BY <1>0, <2>1, MergeTypes
  <2>3. got' = [got EXCEPT ![t] = Merge(loc_seen[obj[t]], read_seen[obj[t]])]
    BY <1>5 DEF Drain, AcquireRef
  <2>4. QED
    BY <1>0, <2>2, <2>3
<1>6. ASSUME NEW t \in Threads, Create(t) PROVE got' \in [Threads -> Versions]
  BY <1>0, <1>6 DEF Create
<1>7. ASSUME NEW t \in Threads, NEW c \in DOMAIN ParentOf, Join(t, c) PROVE got' \in [Threads -> Versions]
  BY <1>0, <1>7 DEF Join, AcquireRef
<1>8. ASSUME NEW t \in Threads,
             \/ \E a \in Atomics : AtomicLoad(t, a)
             \/ \E m \in Mutexes : Lock(t, m)
             \/ \E m \in SharedMutexes : LockShared(t, m) \/ LockExclusive(t, m)
      PROVE  got' \in [Threads -> Versions]
  BY <1>0, <1>8 DEF AtomicLoad, Lock, LockShared, LockExclusive, AcquireCopy, AcquireRef, Locs, Locks
<1>9. ASSUME NEW t \in Threads, UnlockShared(t) PROVE read_seen' \in [SharedMutexes -> Versions]
  <2>1. obj[t] \in SharedMutexes
    BY <1>9 DEF UnlockShared, OpInv, ObjInv, ObjOf, Releases, AtomicOps
  <2>2. Merge(read_seen[obj[t]], seen[t]) \in Versions
    BY <1>0, <2>1, MergeTypes
  <2>3. \/ UNCHANGED read_seen
        \/ read_seen' = [read_seen EXCEPT ![obj[t]] = Merge(read_seen[obj[t]], seen[t])]
    BY <1>9 DEF UnlockShared
  <2>4. QED
    BY <1>0, <2>1, <2>2, <2>3
<1>10. latest' \in Versions
  BY <1>0, <1>1, FrameLatest
<1>11. seen' \in [Threads -> Versions]
  BY <1>0, <1>1, <1>2, FrameSeen
<1>12. loc_seen' \in [Locs -> Versions]
  BY <1>0, <1>3, <1>4, FrameLocSeen
<1>13. got' \in [Threads -> Versions]
  BY <1>0, <1>2, <1>3, <1>5, <1>6, <1>7, <1>8, FrameGot
<1>14. read_seen' \in [SharedMutexes -> Versions]
  BY <1>0, <1>9, FrameReadSeen
<1>15. QED
  BY <1>10, <1>11, <1>12, <1>13, <1>14

(* Together.                                                               *)
LEMMA TypeStep ==
  ASSUME TypeOK, ControlInv, ClaimInv, Next
  PROVE  TypeOK'
<1>1. OpInv /\ ObjInv
  BY DEF ControlInv
<1>2. build' \in Builds
  BY FrameBuild DEF TypeOK
<1>3. QED
  BY <1>1, <1>2, TypeHardware, TypeInvalidation, TypeControl, TypeTable, TypeLog, TypeConsume,
     TypeClock, TypeAgent, TypeProgress, TypeLocks, TypeClocks, TypeHistory
  DEF TypeOK
-----------------------------------------------------------------------------
(* Control.                                                                *)

(* The operation follows the control of the thread.                        *)
LEMMA OpInvStep ==
  ASSUME TypeOK, OpInv, ObjInv, Next
  PROVE  OpInv'
<1> USE DEF OtherThanHw, OtherThanSync, OtherThanHelp, OtherThanAgent, hwVars,
  invVars, agentVars, helpVars, logVars, storeVars, histVars, syncVars
<1>0. pc \in [Threads -> Labels] /\ op \in [Threads -> Operations] /\ OpInv
  BY DEF TypeOK
<1>1. ASSUME NEW t \in Threads, NEW x \in Lines, Store(t, x)
      PROVE  OpInv'
  BY <1>0, <1>1 DEF Store, Goto, OpInv, Acquiring, Releases, AtomicOps
<1>2. ASSUME NEW t \in Threads, NEW x \in Lines, CheckDirty(t, x)
      PROVE  OpInv'
  BY <1>0, <1>2 DEF CheckDirty, Goto, OpInv, Acquiring, Releases, AtomicOps
<1>3. ASSUME NEW t \in Threads, NEW o \in Releases, NEW a \in Locs \cup Threads \cup {None}, MayRelease(t, o, a), ThreadRelease(t, o, a)
      PROVE  OpInv'
  BY <1>0, <1>3 DEF ThreadRelease, Goto, OpInv, Acquiring, Releases, AtomicOps
<1>4. ASSUME NEW t \in Threads, NEW a \in Atomics, AtomicLoad(t, a)
      PROVE  OpInv'
  BY <1>0, <1>4 DEF AtomicLoad, AcquireCopy, Goto, OpInv, Acquiring, Releases,
    AtomicOps
<1>5. ASSUME NEW t \in Threads, NEW m \in Mutexes, Lock(t, m)
      PROVE  OpInv'
  BY <1>0, <1>5 DEF Lock, Goto, OpInv, Acquiring, Releases, AtomicOps
<1>6. ASSUME NEW t \in Threads, NEW m \in SharedMutexes, LockShared(t, m)
      PROVE  OpInv'
  BY <1>0, <1>6 DEF LockShared, Goto, OpInv, Acquiring, Releases, AtomicOps
<1>7. ASSUME NEW t \in Threads, NEW m \in SharedMutexes, LockExclusive(t, m)
      PROVE  OpInv'
  BY <1>0, <1>7 DEF LockExclusive, Goto, OpInv, Acquiring, Releases, AtomicOps
<1>8. ASSUME NEW t \in Threads, NEW c \in DOMAIN ParentOf, ParentOf[c] = t, Join(t, c)
      PROVE  OpInv'
  <2>1. c \in Threads
    BY CoherenceAssumption DEF CoherenceAssumption
  <2>2. QED
    BY <1>0, <2>1, <1>8 DEF Join, OpInv, Acquiring, Releases, AtomicOps
<1>9. ASSUME NEW t \in Threads, Insert(t)
      PROVE  OpInv'
  BY <1>0, <1>9 DEF Insert, Goto, OpInv, Acquiring, Releases, AtomicOps
<1>10. ASSUME NEW t \in Threads, Claim(t)
      PROVE  OpInv'
  BY <1>0, <1>10 DEF Claim, Goto, OpInv, Acquiring, Releases, AtomicOps
<1>11. ASSUME NEW t \in Threads, Publish(t)
      PROVE  OpInv'
  BY <1>0, <1>11 DEF Publish, Goto, OpInv, Acquiring, Releases, AtomicOps
<1>12. ASSUME NEW t \in Threads, CheckClear(t)
      PROVE  OpInv'
  BY <1>0, <1>12 DEF CheckClear, Goto, OpInv, Acquiring, Releases, AtomicOps
<1>13. ASSUME NEW t \in Threads, AtomicStore(t)
      PROVE  OpInv'
  BY <1>0, <1>13 DEF AtomicStore, EndOp, Goto, OpInv, Acquiring, Releases, AtomicOps
<1>14. ASSUME NEW t \in Threads, FetchAdd(t)
      PROVE  OpInv'
  BY <1>0, <1>14 DEF FetchAdd, EndOp, AcquireCopy, Goto, OpInv, Acquiring, Releases,
    AtomicOps
<1>15. ASSUME NEW t \in Threads, Unlock(t)
      PROVE  OpInv'
  BY <1>0, <1>15 DEF Unlock, EndOp, Goto, OpInv, Acquiring, Releases, AtomicOps
<1>16. ASSUME NEW t \in Threads, Create(t)
      PROVE  OpInv'
  <2>1. obj[t] \in Threads
    BY CoherenceAssumption, <1>16 DEF CoherenceAssumption, Create, OpInv, ObjInv, ObjOf, Releases, AtomicOps
  <2>2. op[obj[t]] = None /\ op[t] = "create" /\ obj[t] # t
    BY <1>0, <1>16, <2>1 DEF Create, OpInv, ObjInv, ObjOf, Releases, AtomicOps
  <2>3. QED
    BY <1>0, <1>16, <2>1, <2>2 DEF Create, OpInv, Acquiring, Releases, AtomicOps
<1>17. ASSUME NEW t \in Threads, Upgrade(t)
      PROVE  OpInv'
  BY <1>0, <1>17 DEF Upgrade, Goto, OpInv, Acquiring, Releases, AtomicOps
<1>18. ASSUME NEW t \in Threads, TakeWlock(t)
      PROVE  OpInv'
  BY <1>0, <1>18 DEF TakeWlock, Goto, OpInv, Acquiring, Releases, AtomicOps
<1>19. ASSUME NEW t \in Threads, Drain(t)
      PROVE  OpInv'
  BY <1>0, <1>19 DEF Drain, Goto, OpInv, Acquiring, Releases, AtomicOps
<1>20. ASSUME NEW t \in Threads, UnlockShared(t)
      PROVE  OpInv'
  BY <1>0, <1>20 DEF UnlockShared, EndOp, Goto, OpInv, Acquiring, Releases, AtomicOps
<1>21. ASSUME NEW t \in Threads, NEW i \in Nodes, AcquireBehind(t, i)
      PROVE  OpInv'
  BY <1>0, <1>21 DEF AcquireBehind, Goto, OpInv, Acquiring, Releases, AtomicOps
<1>22. ASSUME NEW t \in Threads, HelpTryLock(t)
      PROVE  OpInv'
  BY <1>0, <1>22 DEF HelpTryLock, Goto, OpInv, Acquiring, Releases, AtomicOps
<1>23. ASSUME NEW t \in Threads, HelpUpdate(t)
      PROVE  OpInv'
  BY <1>0, <1>23 DEF HelpUpdate, Goto, OpInv, Acquiring, Releases, AtomicOps
<1>24. ASSUME NEW t \in Threads, HelpUnlock(t)
      PROVE  OpInv'
  BY <1>0, <1>24 DEF HelpUnlock, Goto, OpInv, Acquiring, Releases, AtomicOps
<1>25. ASSUME NEW t \in Threads, AcquireDone(t)
      PROVE  OpInv'
  BY <1>0, <1>25 DEF AcquireDone, Goto, OpInv, Acquiring, Releases, AtomicOps
<1>26. QED
  BY <1>0, <1>1, <1>2, <1>3, <1>4, <1>5, <1>6, <1>7, <1>8, <1>9, <1>10, <1>11, <1>12,
    <1>13, <1>14, <1>15, <1>16, <1>17, <1>18, <1>19, <1>20, <1>21, <1>22, <1>23,
    <1>24, <1>25, FrameControl DEF OpInv, Acquiring, Releases, AtomicOps

-----------------------------------------------------------------------------
(* A thread that takes no step and is neither created nor joined.          *)
Keeps(u) ==
  /\ pc'[u] = pc[u] /\ op'[u] = op[u] /\ obj'[u] = obj[u]
  /\ recent_cl'[u] = recent_cl[u] /\ dirty_cls'[u] = dirty_cls[u]
  /\ thread_clock'[u] = thread_clock[u] /\ pos'[u] = pos[u]
  /\ target'[u] = target[u] /\ node_done'[u] = node_done[u]
  /\ src'[u] = src[u] /\ clk'[u] = clk[u]
  /\ seen'[u] = seen[u] /\ got'[u] = got[u]
  /\ \A m \in Locks : owner[m] = u <=> owner'[m] = u
  /\ \A m \in SharedMutexes : u \in readers[m] <=> u \in readers'[m]

(* The local state of a thread is its own.                                 *)
LEMMA Bystander ==
  ASSUME TypeOK, OpInv, ObjInv, NEW t \in Threads, ThreadStarts(t) \/ ThreadContinues(t),
         NEW u \in Threads, u # t, ~(Create(t) /\ u = obj[t]), ~Join(t, u)
  PROVE  Keeps(u)
<1> USE DEF OtherThanHw, OtherThanSync, OtherThanHelp, OtherThanAgent, hwVars,
  invVars, agentVars, helpVars, logVars, storeVars, histVars, syncVars
<1>0. /\ pc \in [Threads -> Labels] /\ op \in [Threads -> Operations]
      /\ obj \in [Threads -> Locs \cup Lines \cup Threads \cup {None}]
      /\ recent_cl \in [Threads -> Lines \cup {None}] /\ dirty_cls \in [Threads -> SUBSET Lines]
      /\ thread_clock \in [Threads -> Clocks] /\ pos \in [Threads -> Nat]
      /\ target \in [Threads -> Clocks] /\ node_done \in [Threads -> SUBSET Nodes]
      /\ src \in [Threads -> Nodes] /\ clk \in [Threads -> Nat]
      /\ seen \in [Threads -> Versions] /\ got \in [Threads -> Versions]
      /\ owner \in [Locks -> Threads \cup {None}] /\ readers \in [SharedMutexes -> SUBSET Threads]
  BY DEF TypeOK
<1>a. /\ SharedMutexes \subseteq Locks /\ Mutexes \subseteq Locks /\ None \notin Threads
      /\ DOMAIN ParentOf \subseteq Threads
  BY CoherenceAssumption DEF CoherenceAssumption, Locks
<1>1. ASSUME NEW x \in Lines, Store(t, x)
      PROVE  Keeps(u)
  BY <1>0, <1>a, <1>1 DEF Store, Goto, Keeps
<1>2. ASSUME NEW x \in Lines, CheckDirty(t, x)
      PROVE  Keeps(u)
  BY <1>0, <1>a, <1>2 DEF CheckDirty, Goto, Keeps
<1>3. ASSUME NEW o \in Releases, NEW a \in Locs \cup Threads \cup {None}, MayRelease(t, o, a), ThreadRelease(t, o, a)
      PROVE  Keeps(u)
  BY <1>0, <1>a, <1>3 DEF ThreadRelease, Goto, Keeps
<1>4. ASSUME NEW a \in Atomics, AtomicLoad(t, a)
      PROVE  Keeps(u)
  BY <1>0, <1>a, <1>4 DEF AtomicLoad, AcquireCopy, Goto, Keeps
<1>5. ASSUME NEW m \in Mutexes, Lock(t, m)
      PROVE  Keeps(u)
  BY <1>0, <1>a, <1>5 DEF Lock, AcquireRef, Goto, Keeps
<1>6. ASSUME NEW m \in SharedMutexes, LockShared(t, m)
      PROVE  Keeps(u)
  BY <1>0, <1>a, <1>6 DEF LockShared, AcquireRef, Goto, Keeps
<1>7. ASSUME NEW m \in SharedMutexes, LockExclusive(t, m)
      PROVE  Keeps(u)
  BY <1>0, <1>a, <1>7 DEF LockExclusive, AcquireRef, Goto, Keeps
<1>8. ASSUME NEW c \in DOMAIN ParentOf, ParentOf[c] = t, Join(t, c)
      PROVE  Keeps(u)
  BY <1>0, <1>a, <1>8 DEF Join, AcquireRef, Keeps
<1>9. ASSUME Insert(t)
      PROVE  Keeps(u)
  BY <1>0, <1>a, <1>9 DEF Insert, Goto, Keeps
<1>10. ASSUME Claim(t)
      PROVE  Keeps(u)
  BY <1>0, <1>a, <1>10 DEF Claim, Goto, Keeps
<1>11. ASSUME Publish(t)
      PROVE  Keeps(u)
  BY <1>0, <1>a, <1>11 DEF Publish, Goto, Keeps
<1>12. ASSUME CheckClear(t)
      PROVE  Keeps(u)
  BY <1>0, <1>a, <1>12 DEF CheckClear, Goto, Keeps
<1>13. ASSUME AtomicStore(t)
      PROVE  Keeps(u)
  BY <1>0, <1>a, <1>13 DEF AtomicStore, EndOp, Goto, Keeps
<1>14. ASSUME FetchAdd(t)
      PROVE  Keeps(u)
  BY <1>0, <1>a, <1>14 DEF FetchAdd, EndOp, AcquireCopy, Goto, Keeps
<1>15. ASSUME Unlock(t)
      PROVE  Keeps(u)
  <2>1. owner[obj[t]] = t
    BY <1>15 DEF Unlock, OpInv, ObjInv, ObjOf, Releases, AtomicOps
  <2>2. QED
    BY <1>0, <1>a, <2>1, <1>15 DEF Unlock, EndOp, Goto, Keeps
<1>16. ASSUME Create(t)
      PROVE  Keeps(u)
  <2>1. obj[t] \in Threads /\ u # obj[t]
    BY <1>a, <1>16 DEF Create, OpInv, ObjInv, ObjOf, Releases, AtomicOps
  <2>2. QED
    BY <1>0, <2>1, <1>16 DEF Create, Keeps
<1>17. ASSUME Upgrade(t)
      PROVE  Keeps(u)
  BY <1>0, <1>a, <1>17 DEF Upgrade, Goto, Keeps
<1>18. ASSUME TakeWlock(t)
      PROVE  Keeps(u)
  BY <1>0, <1>a, <1>18 DEF TakeWlock, Goto, Keeps
<1>19. ASSUME Drain(t)
      PROVE  Keeps(u)
  BY <1>0, <1>a, <1>19 DEF Drain, AcquireRef, Goto, Keeps
<1>20. ASSUME UnlockShared(t)
      PROVE  Keeps(u)
  BY <1>0, <1>a, <1>20 DEF UnlockShared, EndOp, Goto, Keeps
<1>21. ASSUME NEW i \in Nodes, CopyClock(t, i)
      PROVE  Keeps(u)
  BY <1>0, <1>a, <1>21 DEF CopyClock, Keeps
<1>22. ASSUME NEW i \in Nodes, AcquireReady(t, i)
      PROVE  Keeps(u)
  BY <1>0, <1>a, <1>22 DEF AcquireReady, Keeps
<1>23. ASSUME NEW i \in Nodes, AcquireBehind(t, i)
      PROVE  Keeps(u)
  BY <1>0, <1>a, <1>23 DEF AcquireBehind, Goto, Keeps
<1>24. ASSUME HelpTryLock(t)
      PROVE  Keeps(u)
  BY <1>0, <1>a, <1>24 DEF HelpTryLock, Goto, Keeps
<1>25. ASSUME HelpConsume(t)
      PROVE  Keeps(u)
  BY <1>0, <1>a, <1>25 DEF HelpConsume, Keeps
<1>26. ASSUME HelpUpdate(t)
      PROVE  Keeps(u)
  BY <1>0, <1>a, <1>26 DEF HelpUpdate, Goto, Keeps
<1>27. ASSUME HelpUnlock(t)
      PROVE  Keeps(u)
  BY <1>0, <1>a, <1>27 DEF HelpUnlock, Goto, Keeps
<1>28. ASSUME AcquireDone(t)
      PROVE  Keeps(u)
  BY <1>0, <1>a, <1>28 DEF AcquireDone, Goto, Keeps
<1>29. CASE ThreadStarts(t)
  BY <1>29, <1>1, <1>2, <1>3, <1>4, <1>5, <1>6, <1>7, <1>8, StartCases
<1>30. CASE ThreadContinues(t)
  BY <1>30, <1>9, <1>10, <1>11, <1>12, <1>13, <1>14, <1>15, <1>16, <1>17, <1>18,
    <1>19, <1>20, <1>21, <1>22, <1>23, <1>24, <1>25, <1>26, <1>27, <1>28 DEF
    ThreadContinues
<1>31. QED
  BY <1>29, <1>30

(* The agents and the hardware leave the threads alone.                    *)
threadVars == <<build, pc, op, obj, recent_cl, dirty_cls, thread_clock, pos, target, node_done,
                src, clk, ops, loc_clock, owner, readers, latest, seen, loc_seen, got, read_seen>>

(* Agents and hardware change nothing that belongs to a thread.            *)
LEMMA Environment ==
  ASSUME Next, ~\E t \in Threads : ThreadStarts(t) \/ ThreadContinues(t)
  PROVE  UNCHANGED threadVars
<1> USE DEF OtherThanHw, OtherThanAgent, hwVars, invVars, agentVars, helpVars, logVars, storeVars,
      histVars, syncVars, threadVars
<1>1. ASSUME NEW n \in Nodes, AgentStep(n) PROVE UNCHANGED threadVars
  BY <1>1 DEF AgentStep, AgentLock, AgentConsume, AgentUpdate, AgentUnlock
<1>2. ASSUME NEW n \in Nodes, NEW x \in Lines, HardwareStep(n, x) PROVE UNCHANGED threadVars
  BY <1>2 DEF HardwareStep, Evict, Invalidated
<1>3. QED
  BY <1>1, <1>2 DEF Next

(* No step but its creation ends the wait of a thread that is to be        *)
(* created.                                                                *)
LEMMA UnbornStays ==
  ASSUME TypeOK, OpInv, ObjInv, Next, NEW c \in DOMAIN ParentOf, pc[c] = "unborn",
         ~(Create(ParentOf[c]) /\ obj[ParentOf[c]] = c)
  PROVE  pc'[c] = "unborn"
<1>1. c \in Threads
  BY CoherenceAssumption DEF CoherenceAssumption
<1>2. CASE ~\E t \in Threads : ThreadStarts(t) \/ ThreadContinues(t)
  BY <1>2, Environment DEF threadVars
<1>3. ASSUME NEW t \in Threads, ThreadStarts(t) \/ ThreadContinues(t)
      PROVE  pc'[c] = "unborn"
  <2>1. t # c
    <3>1. CASE ThreadStarts(t)
      BY <3>1, StartCases DEF Store, CheckDirty, ThreadRelease, AtomicLoad, Lock, LockShared,
         LockExclusive, Join
    <3>2. CASE ThreadContinues(t)
      BY <3>2 DEF ThreadContinues, Insert, Claim, Publish, CheckClear, AtomicStore, FetchAdd, Unlock,
         Create, Upgrade, TakeWlock, Drain, UnlockShared, CopyClock, AcquireReady, AcquireBehind,
         HelpTryLock, HelpConsume, HelpUpdate, HelpUnlock, AcquireDone
    <3>3. QED
      BY <1>3, <3>1, <3>2
  <2>2. ~Join(t, c)
    BY DEF Join
  <2>3. ~(Create(t) /\ c = obj[t])
    BY DEF Create, OpInv, ObjInv, ObjOf, Releases, AtomicOps
  <2>4. Keeps(c)
    BY <1>1, <1>3, <2>1, <2>2, <2>3, Bystander
  <2>5. QED
    BY <2>4 DEF Keeps
<1>4. QED
  BY <1>2, <1>3

(* What the acting thread holds of its object.                             *)
LEMMA ObjActing ==
  ASSUME TypeOK, OpInv, ObjInv, NEW t \in Threads, ThreadStarts(t) \/ ThreadContinues(t)
  PROVE  ObjOf(t)'
<1> USE DEF OtherThanHw, OtherThanSync, OtherThanHelp, OtherThanAgent, hwVars,
  invVars, agentVars, helpVars, logVars, storeVars, histVars, syncVars
<1>0. /\ pc \in [Threads -> Labels] /\ op \in [Threads -> Operations]
      /\ obj \in [Threads -> Locs \cup Lines \cup Threads \cup {None}]
      /\ owner \in [Locks -> Threads \cup {None}] /\ readers \in [SharedMutexes -> SUBSET Threads]
  BY DEF TypeOK
<1>a. /\ DOMAIN ParentOf \subseteq Threads /\ SharedMutexes \subseteq Locks /\ Mutexes \subseteq Locks
      /\ Mutexes \cap SharedMutexes = {} /\ None \notin Threads
  BY CoherenceAssumption DEF CoherenceAssumption, Locks
<1>b. /\ ObjOf(t)
      /\ pc[t] \in {"run", "check", "unborn"} => op[t] = None
      /\ pc[t] \in {"claim", "publish"} => op[t] \in Releases \cup {"insert"}
      /\ pc[t] \in Releases \cup {"insert"} => op[t] = pc[t]
      /\ pc[t] = "joined" => op[t] = "exit"
      /\ Acquiring(t) => op[t] \in {None, "upgrade"}
      /\ pc[t] \in {"upgrade", "wlock", "drain"} => op[t] = "upgrade"
  BY DEF OpInv, ObjInv
<1>1. ASSUME NEW x \in Lines, Store(t, x)
      PROVE  ObjOf(t)'
  BY <1>0, <1>a, <1>b, <1>1 DEF Store, Goto, None, ObjOf, Acquiring, Releases,
    AtomicOps
<1>2. ASSUME NEW x \in Lines, CheckDirty(t, x)
      PROVE  ObjOf(t)'
  BY <1>0, <1>a, <1>b, <1>2 DEF CheckDirty, Goto, None, ObjOf, Acquiring, Releases,
    AtomicOps
<1>3. ASSUME NEW o \in Releases, NEW a \in Locs \cup Threads \cup {None}, MayRelease(t, o, a), ThreadRelease(t, o, a)
      PROVE  ObjOf(t)'
  BY <1>0, <1>a, <1>b, <1>3 DEF ThreadRelease, Goto, MayRelease, None, ObjOf,
    Acquiring, Releases, AtomicOps
<1>4. ASSUME NEW a \in Atomics, AtomicLoad(t, a)
      PROVE  ObjOf(t)'
  BY <1>0, <1>a, <1>b, <1>4 DEF AtomicLoad, AcquireCopy, Goto, None, ObjOf, Acquiring,
    Releases, AtomicOps
<1>5. ASSUME NEW m \in Mutexes, Lock(t, m)
      PROVE  ObjOf(t)'
  BY <1>0, <1>a, <1>b, <1>5 DEF Lock, AcquireRef, Goto, None, ObjOf, Acquiring,
    Releases, AtomicOps
<1>6. ASSUME NEW m \in SharedMutexes, LockShared(t, m)
      PROVE  ObjOf(t)'
  BY <1>0, <1>a, <1>b, <1>6 DEF LockShared, AcquireRef, Goto, None, ObjOf, Acquiring,
    Releases, AtomicOps
<1>7. ASSUME NEW m \in SharedMutexes, LockExclusive(t, m)
      PROVE  ObjOf(t)'
  BY <1>0, <1>a, <1>b, <1>7 DEF LockExclusive, AcquireRef, Goto, None, ObjOf,
    Acquiring, Releases, AtomicOps
<1>8. ASSUME NEW c \in DOMAIN ParentOf, ParentOf[c] = t, Join(t, c)
      PROVE  ObjOf(t)'
  BY <1>0, <1>a, <1>b, <1>8 DEF Join, AcquireRef, None, ObjOf, Acquiring, Releases,
    AtomicOps
<1>9. ASSUME Insert(t)
      PROVE  ObjOf(t)'
  BY <1>0, <1>a, <1>b, <1>9 DEF Insert, Goto, None, ObjOf, Acquiring, Releases,
    AtomicOps
<1>10. ASSUME Claim(t)
      PROVE  ObjOf(t)'
  BY <1>0, <1>a, <1>b, <1>10 DEF Claim, Goto, None, ObjOf, Acquiring, Releases,
    AtomicOps
<1>11. ASSUME Publish(t)
      PROVE  ObjOf(t)'
  BY <1>0, <1>a, <1>b, <1>11 DEF Publish, Goto, None, ObjOf, Acquiring, Releases,
    AtomicOps
<1>12. ASSUME CheckClear(t)
      PROVE  ObjOf(t)'
  BY <1>0, <1>a, <1>b, <1>12 DEF CheckClear, Goto, None, ObjOf, Acquiring, Releases,
    AtomicOps
<1>13. ASSUME AtomicStore(t)
      PROVE  ObjOf(t)'
  BY <1>0, <1>a, <1>b, <1>13 DEF AtomicStore, EndOp, Goto, None, ObjOf, Acquiring,
    Releases, AtomicOps
<1>14. ASSUME FetchAdd(t)
      PROVE  ObjOf(t)'
  BY <1>0, <1>a, <1>b, <1>14 DEF FetchAdd, EndOp, AcquireCopy, Goto, None, ObjOf,
    Acquiring, Releases, AtomicOps
<1>15. ASSUME Unlock(t)
      PROVE  ObjOf(t)'
  BY <1>0, <1>a, <1>b, <1>15 DEF Unlock, EndOp, Goto, None, ObjOf, Acquiring,
    Releases, AtomicOps
<1>16. ASSUME Create(t)
      PROVE  ObjOf(t)'
  BY <1>0, <1>a, <1>b, <1>16 DEF Create, None, ObjOf, Acquiring, Releases, AtomicOps
<1>17. ASSUME Upgrade(t)
      PROVE  ObjOf(t)'
  BY <1>0, <1>a, <1>b, <1>17 DEF Upgrade, Goto, None, ObjOf, Acquiring, Releases,
    AtomicOps
<1>18. ASSUME TakeWlock(t)
      PROVE  ObjOf(t)'
  BY <1>0, <1>a, <1>b, <1>18 DEF TakeWlock, Goto, None, ObjOf, Acquiring, Releases,
    AtomicOps
<1>19. ASSUME Drain(t)
      PROVE  ObjOf(t)'
  BY <1>0, <1>a, <1>b, <1>19 DEF Drain, AcquireRef, Goto, None, ObjOf, Acquiring,
    Releases, AtomicOps
<1>20. ASSUME UnlockShared(t)
      PROVE  ObjOf(t)'
  BY <1>0, <1>a, <1>b, <1>20 DEF UnlockShared, EndOp, Goto, None, ObjOf, Acquiring,
    Releases, AtomicOps
<1>21. ASSUME NEW i \in Nodes, CopyClock(t, i)
      PROVE  ObjOf(t)'
  BY <1>0, <1>a, <1>b, <1>21 DEF CopyClock, None, ObjOf, Acquiring, Releases,
    AtomicOps
<1>22. ASSUME NEW i \in Nodes, AcquireReady(t, i)
      PROVE  ObjOf(t)'
  BY <1>0, <1>a, <1>b, <1>22 DEF AcquireReady, None, ObjOf, Acquiring, Releases,
    AtomicOps
<1>23. ASSUME NEW i \in Nodes, AcquireBehind(t, i)
      PROVE  ObjOf(t)'
  BY <1>0, <1>a, <1>b, <1>23 DEF AcquireBehind, Goto, None, ObjOf, Acquiring,
    Releases, AtomicOps
<1>24. ASSUME HelpTryLock(t)
      PROVE  ObjOf(t)'
  BY <1>0, <1>a, <1>b, <1>24 DEF HelpTryLock, Goto, None, ObjOf, Acquiring, Releases,
    AtomicOps
<1>25. ASSUME HelpConsume(t)
      PROVE  ObjOf(t)'
  BY <1>0, <1>a, <1>b, <1>25 DEF HelpConsume, None, ObjOf, Acquiring, Releases,
    AtomicOps
<1>26. ASSUME HelpUpdate(t)
      PROVE  ObjOf(t)'
  BY <1>0, <1>a, <1>b, <1>26 DEF HelpUpdate, Goto, None, ObjOf, Acquiring, Releases,
    AtomicOps
<1>27. ASSUME HelpUnlock(t)
      PROVE  ObjOf(t)'
  BY <1>0, <1>a, <1>b, <1>27 DEF HelpUnlock, Goto, None, ObjOf, Acquiring, Releases,
    AtomicOps
<1>28. ASSUME AcquireDone(t)
      PROVE  ObjOf(t)'
  BY <1>0, <1>a, <1>b, <1>28 DEF AcquireDone, Goto, None, ObjOf, Acquiring, Releases,
    AtomicOps
<1>29. CASE ThreadStarts(t)
  BY <1>29, <1>1, <1>2, <1>3, <1>4, <1>5, <1>6, <1>7, <1>8, StartCases
<1>30. CASE ThreadContinues(t)
  BY <1>30, <1>9, <1>10, <1>11, <1>12, <1>13, <1>14, <1>15, <1>16, <1>17, <1>18,
    <1>19, <1>20, <1>21, <1>22, <1>23, <1>24, <1>25, <1>26, <1>27, <1>28 DEF
    ThreadContinues
<1>31. QED
  BY <1>29, <1>30

(* A thread holds what its operation is about.                             *)
LEMMA ObjInvStep ==
  ASSUME TypeOK, OpInv, ObjInv, Next
  PROVE  ObjInv'
<1> SUFFICES ASSUME NEW u \in Threads PROVE ObjOf(u)'
  BY DEF ObjInv
<1>0. ObjOf(u)
  BY DEF ObjInv
<1>1. CASE ~\E t \in Threads : ThreadStarts(t) \/ ThreadContinues(t)
  BY <1>0, <1>1, Environment DEF threadVars, ObjOf, Acquiring
<1>2. ASSUME NEW t \in Threads, ThreadStarts(t) \/ ThreadContinues(t)
      PROVE  ObjOf(u)'
  <2>1. CASE u = t
    BY <1>2, <2>1, ObjActing
  <2>2. CASE u # t /\ Create(t) /\ u = obj[t]
    <3>1. op[u] = None
      BY <2>2 DEF Create, OpInv, ObjInv, ObjOf, Releases, AtomicOps
    <3>2. pc'[u] = "acquire" /\ op'[u] = None /\ obj'[u] = t
      BY <2>2, <3>1 DEF Create, TypeOK
    <3>3. QED
      BY <3>2 DEF ObjOf, None, AtomicOps
  <2>3. CASE u # t /\ Join(t, u)
    <3>1. op[u] = "exit"
      BY <2>3 DEF Join, OpInv, Releases, AtomicOps
    <3>2. pc'[u] = "joined" /\ op'[u] = "exit"
      BY <2>3, <3>1 DEF Join, TypeOK
    <3>3. QED
      BY <3>2 DEF ObjOf, Acquiring, AtomicOps
  <2>4. CASE u # t /\ ~(Create(t) /\ u = obj[t]) /\ ~Join(t, u)
    <3>1. Keeps(u)
      BY <1>2, <2>4, Bystander
    <3>2. ASSUME op[u] = "create" PROVE pc'[obj[u]] = "unborn"
      <4>1. obj[u] \in DOMAIN ParentOf /\ ParentOf[obj[u]] = u /\ pc[obj[u]] = "unborn"
        BY <1>0, <3>2 DEF ObjOf
      <4>2. ~Create(u)
        <5>1. Create(u) => pc'[u] = "run"
          BY <4>1, CoherenceAssumption DEF Create, CoherenceAssumption, TypeOK
        <5>2. QED
          BY <3>1, <5>1 DEF Keeps, Create
      <4>3. QED
        BY <4>1, <4>2, UnbornStays
    <3>3. SharedMutexes \subseteq Locks
      BY DEF Locks
    <3>4. QED
      BY <1>0, <3>1, <3>2, <3>3 DEF Keeps, ObjOf, Acquiring
  <2>5. QED
    BY <2>1, <2>2, <2>3, <2>4
<1>3. QED
  BY <1>1, <1>2

(* The recorded lines follow the control of the thread.                    *)
LEMMA TableActing ==
  ASSUME TypeOK, OpInv, ObjInv, TableInv, NEW t \in Threads, ThreadStarts(t) \/ ThreadContinues(t)
  PROVE  TableOf(t)'
<1> USE DEF OtherThanHw, OtherThanSync, OtherThanHelp, OtherThanAgent, hwVars,
  invVars, agentVars, helpVars, logVars, storeVars, histVars, syncVars
<1>0. /\ pc \in [Threads -> Labels] /\ op \in [Threads -> Operations]
      /\ obj \in [Threads -> Locs \cup Lines \cup Threads \cup {None}]
      /\ recent_cl \in [Threads -> Lines \cup {None}] /\ dirty_cls \in [Threads -> SUBSET Lines]
  BY DEF TypeOK
<1>a. None \notin Lines /\ DOMAIN ParentOf \subseteq Threads
  BY CoherenceAssumption DEF CoherenceAssumption
<1>b. /\ TableOf(t)
      /\ op[t] = "insert" => obj[t] \in Lines
      /\ op[t] = "create" => obj[t] \in DOMAIN ParentOf /\ pc[obj[t]] = "unborn"
      /\ pc[t] \in {"run", "check", "unborn"} => op[t] = None
      /\ pc[t] \in {"claim", "publish"} => op[t] \in Releases \cup {"insert"}
      /\ pc[t] \in Releases \cup {"insert"} => op[t] = pc[t]
      /\ pc[t] = "joined" => op[t] = "exit"
      /\ Acquiring(t) => op[t] \in {None, "upgrade"}
      /\ pc[t] \in {"upgrade", "wlock", "drain"} => op[t] = "upgrade"
  BY DEF OpInv, ObjInv, ObjOf, TableInv
<1>1. ASSUME NEW x \in Lines, Store(t, x)
      PROVE  TableOf(t)'
  BY <1>0, <1>a, <1>b, <1>1 DEF Store, Goto, None, TableOf, Acquiring, Releases,
    AtomicOps
<1>2. ASSUME NEW x \in Lines, CheckDirty(t, x)
      PROVE  TableOf(t)'
  BY <1>0, <1>a, <1>b, <1>2 DEF CheckDirty, Goto, None, TableOf, Acquiring, Releases,
    AtomicOps
<1>3. ASSUME NEW o \in Releases, NEW a \in Locs \cup Threads \cup {None}, MayRelease(t, o, a), ThreadRelease(t, o, a)
      PROVE  TableOf(t)'
  BY <1>0, <1>a, <1>b, <1>3 DEF ThreadRelease, Goto, MayRelease, None, TableOf,
    Acquiring, Releases, AtomicOps
<1>4. ASSUME NEW a \in Atomics, AtomicLoad(t, a)
      PROVE  TableOf(t)'
  BY <1>0, <1>a, <1>b, <1>4 DEF AtomicLoad, AcquireCopy, Goto, None, TableOf,
    Acquiring, Releases, AtomicOps
<1>5. ASSUME NEW m \in Mutexes, Lock(t, m)
      PROVE  TableOf(t)'
  BY <1>0, <1>a, <1>b, <1>5 DEF Lock, AcquireRef, Goto, None, TableOf, Acquiring,
    Releases, AtomicOps
<1>6. ASSUME NEW m \in SharedMutexes, LockShared(t, m)
      PROVE  TableOf(t)'
  BY <1>0, <1>a, <1>b, <1>6 DEF LockShared, AcquireRef, Goto, None, TableOf,
    Acquiring, Releases, AtomicOps
<1>7. ASSUME NEW m \in SharedMutexes, LockExclusive(t, m)
      PROVE  TableOf(t)'
  BY <1>0, <1>a, <1>b, <1>7 DEF LockExclusive, AcquireRef, Goto, None, TableOf,
    Acquiring, Releases, AtomicOps
<1>8. ASSUME NEW c \in DOMAIN ParentOf, ParentOf[c] = t, Join(t, c)
      PROVE  TableOf(t)'
  BY <1>0, <1>a, <1>b, <1>8 DEF Join, AcquireRef, None, TableOf, Acquiring, Releases,
    AtomicOps
<1>9. ASSUME Insert(t)
      PROVE  TableOf(t)'
  BY <1>0, <1>a, <1>b, <1>9 DEF Insert, Goto, None, TableOf, Acquiring, Releases,
    AtomicOps
<1>10. ASSUME Claim(t)
      PROVE  TableOf(t)'
  BY <1>0, <1>a, <1>b, <1>10 DEF Claim, Goto, None, TableOf, Acquiring, Releases,
    AtomicOps
<1>11. ASSUME Publish(t)
      PROVE  TableOf(t)'
  BY <1>0, <1>a, <1>b, <1>11 DEF Publish, Goto, None, TableOf, Acquiring, Releases,
    AtomicOps
<1>12. ASSUME CheckClear(t)
      PROVE  TableOf(t)'
  BY <1>0, <1>a, <1>b, <1>12 DEF CheckClear, Goto, None, TableOf, Acquiring, Releases,
    AtomicOps
<1>13. ASSUME AtomicStore(t)
      PROVE  TableOf(t)'
  BY <1>0, <1>a, <1>b, <1>13 DEF AtomicStore, EndOp, Goto, None, TableOf, Acquiring,
    Releases, AtomicOps
<1>14. ASSUME FetchAdd(t)
      PROVE  TableOf(t)'
  BY <1>0, <1>a, <1>b, <1>14 DEF FetchAdd, EndOp, AcquireCopy, Goto, None, TableOf,
    Acquiring, Releases, AtomicOps
<1>15. ASSUME Unlock(t)
      PROVE  TableOf(t)'
  BY <1>0, <1>a, <1>b, <1>15 DEF Unlock, EndOp, Goto, None, TableOf, Acquiring,
    Releases, AtomicOps
<1>16. ASSUME Create(t)
      PROVE  TableOf(t)'
  BY <1>0, <1>a, <1>b, <1>16 DEF Create, None, TableOf, Acquiring, Releases, AtomicOps
<1>17. ASSUME Upgrade(t)
      PROVE  TableOf(t)'
  BY <1>0, <1>a, <1>b, <1>17 DEF Upgrade, Goto, None, TableOf, Acquiring, Releases,
    AtomicOps
<1>18. ASSUME TakeWlock(t)
      PROVE  TableOf(t)'
  BY <1>0, <1>a, <1>b, <1>18 DEF TakeWlock, Goto, None, TableOf, Acquiring, Releases,
    AtomicOps
<1>19. ASSUME Drain(t)
      PROVE  TableOf(t)'
  BY <1>0, <1>a, <1>b, <1>19 DEF Drain, AcquireRef, Goto, None, TableOf, Acquiring,
    Releases, AtomicOps
<1>20. ASSUME UnlockShared(t)
      PROVE  TableOf(t)'
  BY <1>0, <1>a, <1>b, <1>20 DEF UnlockShared, EndOp, Goto, None, TableOf, Acquiring,
    Releases, AtomicOps
<1>21. ASSUME NEW i \in Nodes, CopyClock(t, i)
      PROVE  TableOf(t)'
  BY <1>0, <1>a, <1>b, <1>21 DEF CopyClock, None, TableOf, Acquiring, Releases,
    AtomicOps
<1>22. ASSUME NEW i \in Nodes, AcquireReady(t, i)
      PROVE  TableOf(t)'
  BY <1>0, <1>a, <1>b, <1>22 DEF AcquireReady, None, TableOf, Acquiring, Releases,
    AtomicOps
<1>23. ASSUME NEW i \in Nodes, AcquireBehind(t, i)
      PROVE  TableOf(t)'
  BY <1>0, <1>a, <1>b, <1>23 DEF AcquireBehind, Goto, None, TableOf, Acquiring,
    Releases, AtomicOps
<1>24. ASSUME HelpTryLock(t)
      PROVE  TableOf(t)'
  BY <1>0, <1>a, <1>b, <1>24 DEF HelpTryLock, Goto, None, TableOf, Acquiring,
    Releases, AtomicOps
<1>25. ASSUME HelpConsume(t)
      PROVE  TableOf(t)'
  BY <1>0, <1>a, <1>b, <1>25 DEF HelpConsume, None, TableOf, Acquiring, Releases,
    AtomicOps
<1>26. ASSUME HelpUpdate(t)
      PROVE  TableOf(t)'
  BY <1>0, <1>a, <1>b, <1>26 DEF HelpUpdate, Goto, None, TableOf, Acquiring, Releases,
    AtomicOps
<1>27. ASSUME HelpUnlock(t)
      PROVE  TableOf(t)'
  BY <1>0, <1>a, <1>b, <1>27 DEF HelpUnlock, Goto, None, TableOf, Acquiring, Releases,
    AtomicOps
<1>28. ASSUME AcquireDone(t)
      PROVE  TableOf(t)'
  BY <1>0, <1>a, <1>b, <1>28 DEF AcquireDone, Goto, None, TableOf, Acquiring,
    Releases, AtomicOps
<1>29. CASE ThreadStarts(t)
  BY <1>29, <1>1, <1>2, <1>3, <1>4, <1>5, <1>6, <1>7, <1>8, StartCases
<1>30. CASE ThreadContinues(t)
  BY <1>30, <1>9, <1>10, <1>11, <1>12, <1>13, <1>14, <1>15, <1>16, <1>17, <1>18,
    <1>19, <1>20, <1>21, <1>22, <1>23, <1>24, <1>25, <1>26, <1>27, <1>28 DEF
    ThreadContinues
<1>31. QED
  BY <1>29, <1>30

(* For every thread.                                                       *)
LEMMA TableInvStep ==
  ASSUME TypeOK, OpInv, ObjInv, TableInv, Next
  PROVE  TableInv'
<1> SUFFICES ASSUME NEW u \in Threads PROVE TableOf(u)'
  BY DEF TableInv
<1>0. TableOf(u)
  BY DEF TableInv
<1>1. CASE ~\E t \in Threads : ThreadStarts(t) \/ ThreadContinues(t)
  BY <1>0, <1>1, Environment DEF threadVars, TableOf
<1>2. ASSUME NEW t \in Threads, ThreadStarts(t) \/ ThreadContinues(t)
      PROVE  TableOf(u)'
  <2>1. CASE u = t
    BY <1>2, <2>1, TableActing
  <2>2. CASE u # t /\ Create(t) /\ u = obj[t]
    <3>1. op[u] = None /\ pc[u] = "unborn"
      BY <2>2 DEF Create, OpInv, ObjInv, ObjOf, Releases, AtomicOps
    <3>2. /\ pc'[u] = "acquire" /\ op'[u] = None
          /\ recent_cl'[u] = recent_cl[u] /\ dirty_cls'[u] = dirty_cls[u]
      BY <2>2, <3>1 DEF Create, TypeOK, OtherThanSync, storeVars
    <3>3. QED
      BY <1>0, <3>1, <3>2 DEF TableOf, None, Releases, AtomicOps
  <2>3. CASE u # t /\ Join(t, u)
    <3>1. op[u] = "exit" /\ pc[u] = "exit"
      BY <2>3 DEF Join, OpInv, Releases, AtomicOps
    <3>2. /\ pc'[u] = "joined" /\ op'[u] = "exit"
          /\ recent_cl'[u] = recent_cl[u] /\ dirty_cls'[u] = dirty_cls[u]
      BY <2>3, <3>1 DEF Join, TypeOK, OtherThanSync, storeVars
    <3>3. QED
      BY <1>0, <3>1, <3>2 DEF TableOf, Releases, AtomicOps
  <2>4. CASE u # t /\ ~(Create(t) /\ u = obj[t]) /\ ~Join(t, u)
    <3>1. Keeps(u)
      BY <1>2, <2>4, Bystander
    <3>2. QED
      BY <1>0, <3>1 DEF Keeps, TableOf
  <2>5. QED
    BY <2>1, <2>2, <2>3, <2>4
<1>3. QED
  BY <1>1, <1>2

(* Only a writer that still waits has readers besides it.                  *)
LEMMA WriterInvStep ==
  ASSUME TypeOK, OpInv, ObjInv, WriterInv, Next
  PROVE  WriterInv'
<1> SUFFICES ASSUME NEW m \in SharedMutexes, owner'[m] # None
             PROVE  readers'[m] = {} \/ (pc'[owner'[m]] = "drain" /\ obj'[owner'[m]] = m)
  BY DEF WriterInv
<1>0. /\ owner \in [Locks -> Threads \cup {None}] /\ readers \in [SharedMutexes -> SUBSET Threads]
      /\ pc \in [Threads -> Labels] /\ m \in Locks /\ m \notin Mutexes
  BY CoherenceAssumption DEF TypeOK, Locks, CoherenceAssumption
<1>1. CASE owner'[m] # owner[m]
  <2>1. ASSUME NEW t \in Threads, TakeWlock(t)
        PROVE  pc'[owner'[m]] = "drain" /\ obj'[owner'[m]] = m
    BY <1>0, <1>1, <2>1 DEF TakeWlock, Goto
  <2>2. ASSUME NEW t \in Threads, Unlock(t) \/ \E k \in Mutexes : Lock(t, k)
        PROVE  FALSE
    BY <1>0, <1>1, <2>2 DEF Unlock, Lock
  <2>3. QED
    BY <1>1, <2>1, <2>2, FrameOwner
<1>2. CASE owner'[m] = owner[m]
  <2>1. readers'[m] \subseteq readers[m]
    BY <1>0, <1>2, FrameReaders DEF LockShared, LockExclusive, Upgrade, UnlockShared
  <2>2. CASE readers[m] = {}
    BY <2>1, <2>2
  <2>3. CASE readers[m] # {}
    <3>1. owner[m] \in Threads /\ pc[owner[m]] = "drain" /\ obj[owner[m]] = m
      BY <1>0, <1>2, <2>3 DEF WriterInv
    <3>2. CASE ~\E t \in Threads : ThreadStarts(t) \/ ThreadContinues(t)
      BY <1>2, <3>1, <3>2, Environment DEF threadVars
    <3>3. ASSUME NEW t \in Threads, ThreadStarts(t) \/ ThreadContinues(t)
          PROVE  pc'[owner[m]] = "drain" /\ obj'[owner[m]] = m
      <4>1. t # owner[m]
        <5>1. CASE ThreadStarts(t)
          BY <3>1, <5>1, StartCases DEF Store, CheckDirty, ThreadRelease, AtomicLoad, Lock, LockShared,
             LockExclusive, Join
        <5>2. CASE ThreadContinues(t)
          BY <2>3, <3>1, <5>2
          DEF ThreadContinues, Insert, Claim, Publish, CheckClear, AtomicStore, FetchAdd, Unlock,
              Create, Upgrade, TakeWlock, Drain, UnlockShared, CopyClock, AcquireReady, AcquireBehind,
              HelpTryLock, HelpConsume, HelpUpdate, HelpUnlock, AcquireDone
        <5>3. QED
          BY <3>3, <5>1, <5>2
      <4>2. ~Join(t, owner[m]) /\ ~(Create(t) /\ owner[m] = obj[t])
        BY <3>1 DEF Join, Create, OpInv, ObjInv, ObjOf, Releases, AtomicOps
      <4>3. Keeps(owner[m])
        BY <3>1, <3>3, <4>1, <4>2, Bystander
      <4>4. QED
        BY <3>1, <4>3 DEF Keeps
    <3>4. QED
      BY <1>2, <3>2, <3>3
  <2>4. QED
    BY <2>2, <2>3
<1>3. QED
  BY <1>1, <1>2

(* Together.                                                               *)
LEMMA ControlStep ==
  ASSUME TypeOK, ControlInv, Next
  PROVE  ControlInv'
BY OpInvStep, ObjInvStep, WriterInvStep, TableInvStep DEF ControlInv

-----------------------------------------------------------------------------
(* The log head mutex.                                                     *)

LEMMA MutexInvStep ==
  ASSUME TypeOK, OpInv, ObjInv, MutexInv, Next
  PROVE  MutexInv'
<1>0. /\ log_head_mtx \in [Nodes -> Threads \cup Nodes \cup {None}]
      /\ apc \in [Nodes -> {"off", "batch", "unlock"}]
      /\ pc \in [Threads -> Labels] /\ op \in [Threads -> Operations] /\ NodeOf \in [Threads -> Nodes]
      /\ None \notin Threads /\ None \notin Nodes /\ Threads \cap Nodes = {}
  BY CoherenceAssumption DEF CoherenceAssumption, TypeOK
<1>1. ASSUME NEW n \in Nodes PROVE log_head_mtx'[n] = n <=> apc'[n] # "off"
  <2>1. ASSUME NEW t \in Threads, HelpTryLock(t) \/ HelpUnlock(t)
        PROVE  log_head_mtx'[n] = n <=> log_head_mtx[n] = n
    <3>1. CASE HelpTryLock(t)
      BY <1>0, <3>1 DEF HelpTryLock, MutexFree
    <3>2. CASE HelpUnlock(t)
      BY <1>0, <3>2 DEF HelpUnlock, MutexInv
    <3>3. QED
      BY <2>1, <3>1, <3>2
  <2>2. ASSUME NEW k \in Nodes, AgentStep(k) PROVE log_head_mtx'[n] = n <=> apc'[n] # "off"
    BY <1>0, <2>2 DEF MutexInv, AgentStep, AgentLock, AgentConsume, AgentUpdate, AgentUnlock, MutexFree
  <2>3. CASE \E k \in Nodes : AgentStep(k)
    BY <2>2, <2>3
  <2>4. CASE ~\E k \in Nodes : AgentStep(k)
    <3>1. UNCHANGED apc
      BY <2>4, FrameAgent DEF AgentStep
    <3>2. log_head_mtx'[n] = n <=> log_head_mtx[n] = n
      BY <2>1, <2>4, FrameMutex DEF AgentStep
    <3>3. QED
      BY <3>1, <3>2 DEF MutexInv
  <2>5. QED
    BY <2>3, <2>4
<1>2. ASSUME NEW u \in Threads, NEW n \in Nodes
      PROVE  /\ log_head_mtx'[n] = u <=> NodeOf[u] = n /\ pc'[u] \in {"help", "help_unlock"}
             /\ pc'[u] \in {"try_lock", "help", "help_unlock"} => CONSUME_HELPING'
  <2>0. /\ log_head_mtx[n] = u <=> NodeOf[u] = n /\ pc[u] \in {"help", "help_unlock"}
        /\ pc[u] \in {"try_lock", "help", "help_unlock"} => CONSUME_HELPING
        /\ CONSUME_HELPING' = CONSUME_HELPING
    BY FrameBuild DEF MutexInv, CONSUME_HELPING
  <2>1. CASE ~\E t \in Threads : ThreadStarts(t) \/ ThreadContinues(t)
    <3>1. pc'[u] = pc[u]
      BY <2>1, Environment DEF threadVars
    <3>2. log_head_mtx'[n] = u <=> log_head_mtx[n] = u
      <4>1. ASSUME NEW k \in Nodes, AgentUnlock(k) \/ \E i \in Nodes : AgentLock(k, i)
            PROVE  log_head_mtx'[n] = u <=> log_head_mtx[n] = u
        <5>1. CASE AgentUnlock(k)
          <6>1. log_head_mtx[k] = k
            BY <5>1 DEF AgentUnlock, MutexInv
          <6>2. QED
            BY <1>0, <5>1, <6>1 DEF AgentUnlock
        <5>2. CASE \E i \in Nodes : AgentLock(k, i)
          BY <1>0, <5>2 DEF AgentLock, MutexFree
        <5>3. QED
          BY <4>1, <5>1, <5>2
      <4>2. QED
        BY <2>1, <4>1, FrameMutex DEF ThreadContinues
    <3>3. QED
      BY <2>0, <3>1, <3>2
  <2>2. ASSUME NEW t \in Threads, ThreadStarts(t) \/ ThreadContinues(t), u # t
        PROVE  /\ pc'[u] = pc[u] \/ (pc'[u] \in {"acquire", "joined"} /\ pc[u] \in {"unborn", "exit"})
               /\ log_head_mtx'[n] = u <=> log_head_mtx[n] = u
    <3>1. pc'[u] = pc[u] \/ (pc'[u] \in {"acquire", "joined"} /\ pc[u] \in {"unborn", "exit"})
      <4>1. CASE Create(t) /\ u = obj[t]
        BY <1>0, <2>2, <4>1 DEF Create, OpInv, ObjInv, ObjOf, Releases, AtomicOps
      <4>2. CASE Join(t, u)
        BY <1>0, <2>2, <4>2 DEF Join
      <4>3. CASE ~(Create(t) /\ u = obj[t]) /\ ~Join(t, u)
        <5>1. Keeps(u)
          BY <2>2, <4>3, Bystander
        <5>2. QED
          BY <5>1 DEF Keeps
      <4>4. QED
        BY <4>1, <4>2, <4>3
    <3>2. \/ UNCHANGED log_head_mtx
          \/ HelpTryLock(t) \/ HelpUnlock(t)
      <4>1. CASE ThreadStarts(t)
        BY <4>1, StartCases
        DEF Store, CheckDirty, ThreadRelease, AtomicLoad, Lock, LockShared, LockExclusive, Join, OtherThanSync
      <4>2. CASE ThreadContinues(t)
        BY <4>2
        DEF ThreadContinues, Insert, Claim, Publish, CheckClear, AtomicStore, FetchAdd, Unlock,
            Create, Upgrade, TakeWlock, Drain, UnlockShared, CopyClock, AcquireReady, AcquireBehind,
            HelpConsume, HelpUpdate, AcquireDone, OtherThanSync
      <4>3. QED
        BY <2>2, <4>1, <4>2
    <3>3. CASE HelpTryLock(t)
      BY <1>0, <2>2, <3>1, <3>3 DEF HelpTryLock, MutexFree
    <3>4. CASE HelpUnlock(t)
      <4>1. log_head_mtx[NodeOf[t]] = t
        BY <1>0, <3>4 DEF HelpUnlock, MutexInv
      <4>2. QED
        BY <1>0, <2>2, <3>1, <3>4, <4>1 DEF HelpUnlock
    <3>5. QED
      BY <3>1, <3>2, <3>3, <3>4
  <2>3. CASE ThreadStarts(u) \/ ThreadContinues(u)
    <3>1. ASSUME HelpTryLock(u) PROVE /\ log_head_mtx'[n] = u <=> NodeOf[u] = n /\ pc'[u] \in {"help", "help_unlock"}
                                      /\ pc'[u] \in {"try_lock", "help", "help_unlock"} => CONSUME_HELPING'
      BY <1>0, <2>0, <3>1 DEF HelpTryLock, Goto, MutexFree
    <3>2. ASSUME HelpUnlock(u) PROVE /\ log_head_mtx'[n] = u <=> NodeOf[u] = n /\ pc'[u] \in {"help", "help_unlock"}
                                     /\ pc'[u] \in {"try_lock", "help", "help_unlock"} => CONSUME_HELPING'
      BY <1>0, <2>0, <3>2 DEF HelpUnlock, Goto
    <3>3. ASSUME HelpUpdate(u) PROVE /\ log_head_mtx'[n] = u <=> NodeOf[u] = n /\ pc'[u] \in {"help", "help_unlock"}
                                     /\ pc'[u] \in {"try_lock", "help", "help_unlock"} => CONSUME_HELPING'
      BY <1>0, <2>0, <3>3 DEF HelpUpdate, Goto
    <3>4. ASSUME NEW i \in Nodes, AcquireBehind(u, i)
          PROVE  /\ log_head_mtx'[n] = u <=> NodeOf[u] = n /\ pc'[u] \in {"help", "help_unlock"}
                 /\ pc'[u] \in {"try_lock", "help", "help_unlock"} => CONSUME_HELPING'
      BY <1>0, <2>0, <3>4 DEF AcquireBehind, Goto
    <3>5. ASSUME HelpConsume(u) PROVE UNCHANGED <<pc, log_head_mtx>>
      BY <3>5 DEF HelpConsume
    <3>6. ASSUME ThreadStarts(u)
          PROVE  /\ pc[u] \notin {"help", "help_unlock", "try_lock"}
                 /\ pc'[u] \notin {"help", "help_unlock", "try_lock"}
                 /\ UNCHANGED log_head_mtx
      <4>1. pc[u] = "run" /\ UNCHANGED log_head_mtx
        BY <3>6, StartCases
        DEF Store, CheckDirty, ThreadRelease, AtomicLoad, Lock, LockShared, LockExclusive, Join, OtherThanSync
      <4>2. pc'[u] \notin {"help", "help_unlock", "try_lock"}
        BY <1>0, <3>6, <4>1, StartCases
        DEF Store, CheckDirty, ThreadRelease, AtomicLoad, Lock, LockShared, LockExclusive, Join,
            Goto, AcquireCopy, Releases, AtomicOps
      <4>3. QED
        BY <4>1, <4>2
    <3>7. ASSUME Insert(u) \/ Claim(u) \/ Publish(u) \/ CheckClear(u) \/ AtomicStore(u) \/ FetchAdd(u)
                 \/ Unlock(u) \/ Create(u) \/ Upgrade(u) \/ TakeWlock(u) \/ Drain(u) \/ UnlockShared(u)
                 \/ (\E i \in Nodes : CopyClock(u, i) \/ AcquireReady(u, i)) \/ AcquireDone(u)
          PROVE  /\ pc[u] \notin {"help", "help_unlock", "try_lock"}
                 /\ pc'[u] \notin {"help", "help_unlock", "try_lock"}
                 /\ UNCHANGED log_head_mtx
      <4>1. pc[u] \notin {"help", "help_unlock", "try_lock"} /\ UNCHANGED log_head_mtx
        BY <3>7 DEF Insert, Claim, Publish, CheckClear, AtomicStore, FetchAdd, Unlock,
            Create, Upgrade, TakeWlock, Drain, UnlockShared, CopyClock, AcquireReady, AcquireDone,
            OtherThanSync
      <4>2. op[u] # "help" /\ op[u] # "help_unlock" /\ op[u] # "try_lock"
        BY <1>0 DEF Operations, None
      <4>3. CASE Create(u)
        <5>1. obj[u] \in Threads /\ pc[obj[u]] = "unborn"
          BY <4>3, CoherenceAssumption DEF Create, OpInv, ObjInv, ObjOf, Releases, AtomicOps, CoherenceAssumption
        <5>2. QED
          BY <1>0, <4>1, <4>3, <5>1 DEF Create
      <4>4. CASE Publish(u) \/ AcquireDone(u)
        BY <1>0, <4>1, <4>2, <4>4 DEF Publish, AcquireDone, Goto
      <4>5. CASE ~Create(u) /\ ~Publish(u) /\ ~AcquireDone(u)
        BY <1>0, <3>7, <4>1, <4>5 DEF Insert, Claim, CheckClear, AtomicStore, FetchAdd, Unlock,
            Upgrade, TakeWlock, Drain, UnlockShared, CopyClock, AcquireReady, Goto, EndOp, AcquireCopy
      <4>6. QED
        BY <4>1, <4>3, <4>4, <4>5
    <3>8. QED
      BY <2>0, <2>3, <3>1, <3>2, <3>3, <3>4, <3>5, <3>6, <3>7 DEF ThreadContinues
  <2>4. QED
    BY <2>0, <2>1, <2>2, <2>3
<1>3. QED
  BY <1>0, <1>1, <1>2 DEF MutexInv

-----------------------------------------------------------------------------
(* The logs.                                                               *)

(* How the state of one thread changes in a step.                          *)
LEMMA ThreadMoves ==
  ASSUME TypeOK, OpInv, ObjInv, Next, NEW u \in Threads
  PROVE  \/ Keeps(u)
         \/ ThreadStarts(u) \/ ThreadContinues(u)
         \/ \E t \in Threads : u # t /\ Create(t) /\ u = obj[t]
         \/ \E t \in Threads : u # t /\ Join(t, u)
<1>1. CASE ~\E t \in Threads : ThreadStarts(t) \/ ThreadContinues(t)
  BY <1>1, Environment DEF threadVars, Keeps
<1>2. ASSUME NEW t \in Threads, ThreadStarts(t) \/ ThreadContinues(t), u # t,
             ~(Create(t) /\ u = obj[t]), ~Join(t, u)
      PROVE  Keeps(u)
  BY <1>2, Bystander
<1>3. QED
  BY <1>1, <1>2

(* Who is where from which step.                                           *)
LEMMA Reaches ==
  ASSUME TypeOK, OpInv, ObjInv, NEW t \in Threads, ThreadStarts(t) \/ ThreadContinues(t)
  PROVE  /\ pc'[t] = "publish" => Claim(t)
         /\ pc'[t] = "help" => HelpTryLock(t) \/ HelpConsume(t)
         /\ pc'[t] = "help_unlock" => HelpUpdate(t)
         /\ pc'[t] # "unborn"
         /\ pc[t] = "help" => HelpConsume(t) \/ HelpUpdate(t)
         /\ pc[t] = "publish" => Publish(t)
<1> USE DEF OtherThanHw, OtherThanSync, OtherThanHelp, OtherThanAgent, hwVars,
  invVars, agentVars, helpVars, logVars, storeVars, histVars, syncVars
<1> DEFINE Goal == /\ pc'[t] = "publish" => Claim(t)
                   /\ pc'[t] = "help" => HelpTryLock(t) \/ HelpConsume(t)
                   /\ pc'[t] = "help_unlock" => HelpUpdate(t)
                   /\ pc'[t] # "unborn"
                   /\ pc[t] = "help" => HelpConsume(t) \/ HelpUpdate(t)
                   /\ pc[t] = "publish" => Publish(t)
<1>0. pc \in [Threads -> Labels] /\ op \in [Threads -> Operations]
  BY DEF TypeOK
<1>1. ASSUME NEW x \in Lines, Store(t, x)
      PROVE  Goal
  BY <1>0, <1>1 DEF Store, Goto
<1>2. ASSUME NEW x \in Lines, CheckDirty(t, x)
      PROVE  Goal
  BY <1>0, <1>2 DEF CheckDirty, Goto
<1>3. ASSUME NEW o \in Releases, NEW a \in Locs \cup Threads \cup {None}, MayRelease(t, o, a), ThreadRelease(t, o, a)
      PROVE  Goal
  BY <1>0, <1>3 DEF ThreadRelease, Goto, Releases, AtomicOps
<1>4. ASSUME NEW a \in Atomics, AtomicLoad(t, a)
      PROVE  Goal
  BY <1>0, <1>4 DEF AtomicLoad, AcquireCopy, Goto
<1>5. ASSUME NEW m \in Mutexes, Lock(t, m)
      PROVE  Goal
  BY <1>0, <1>5 DEF Lock, Goto
<1>6. ASSUME NEW m \in SharedMutexes, LockShared(t, m)
      PROVE  Goal
  BY <1>0, <1>6 DEF LockShared, Goto
<1>7. ASSUME NEW m \in SharedMutexes, LockExclusive(t, m)
      PROVE  Goal
  BY <1>0, <1>7 DEF LockExclusive, Goto
<1>8. ASSUME NEW c \in DOMAIN ParentOf, ParentOf[c] = t, Join(t, c)
      PROVE  Goal
  <2>1. c \in Threads /\ c # t
    BY <1>8, CoherenceAssumption DEF Join, CoherenceAssumption
  <2>2. QED
    BY <1>0, <2>1, <1>8 DEF Join
<1>9. ASSUME Insert(t)
      PROVE  Goal
  BY <1>0, <1>9 DEF Insert, Goto
<1>10. ASSUME Claim(t)
      PROVE  Goal
  BY <1>0, <1>10 DEF Claim, Goto
<1>11. ASSUME Publish(t)
      PROVE  Goal
  <2>1. op[t] \notin {"publish", "help", "help_unlock", "unborn"}
    BY <1>0 DEF Operations, None
  <2>2. QED
    BY <1>0, <2>1, <1>11 DEF Publish, Goto
<1>12. ASSUME CheckClear(t)
      PROVE  Goal
  BY <1>0, <1>12 DEF CheckClear, Goto
<1>13. ASSUME AtomicStore(t)
      PROVE  Goal
  BY <1>0, <1>13 DEF AtomicStore, EndOp, Goto
<1>14. ASSUME FetchAdd(t)
      PROVE  Goal
  BY <1>0, <1>14 DEF FetchAdd, EndOp, AcquireCopy, Goto
<1>15. ASSUME Unlock(t)
      PROVE  Goal
  BY <1>0, <1>15 DEF Unlock, EndOp, Goto
<1>16. ASSUME Create(t)
      PROVE  Goal
  <2>1. obj[t] \in Threads /\ obj[t] # t
    BY <1>16, CoherenceAssumption DEF Create, OpInv, ObjInv, ObjOf, Releases, AtomicOps, CoherenceAssumption
  <2>2. QED
    BY <1>0, <2>1, <1>16 DEF Create
<1>17. ASSUME Upgrade(t)
      PROVE  Goal
  BY <1>0, <1>17 DEF Upgrade, Goto
<1>18. ASSUME TakeWlock(t)
      PROVE  Goal
  BY <1>0, <1>18 DEF TakeWlock, Goto
<1>19. ASSUME Drain(t)
      PROVE  Goal
  BY <1>0, <1>19 DEF Drain, Goto
<1>20. ASSUME UnlockShared(t)
      PROVE  Goal
  BY <1>0, <1>20 DEF UnlockShared, EndOp, Goto
<1>21. ASSUME NEW i \in Nodes, CopyClock(t, i)
      PROVE  Goal
  BY <1>0, <1>21 DEF CopyClock
<1>22. ASSUME NEW i \in Nodes, AcquireReady(t, i)
      PROVE  Goal
  BY <1>0, <1>22 DEF AcquireReady
<1>23. ASSUME NEW i \in Nodes, AcquireBehind(t, i)
      PROVE  Goal
  BY <1>0, <1>23 DEF AcquireBehind, Goto
<1>24. ASSUME HelpTryLock(t)
      PROVE  Goal
  BY <1>0, <1>24 DEF HelpTryLock, Goto
<1>25. ASSUME HelpConsume(t)
      PROVE  Goal
  BY <1>0, <1>25 DEF HelpConsume
<1>26. ASSUME HelpUpdate(t)
      PROVE  Goal
  BY <1>0, <1>26 DEF HelpUpdate, Goto
<1>27. ASSUME HelpUnlock(t)
      PROVE  Goal
  BY <1>0, <1>27 DEF HelpUnlock, Goto
<1>28. ASSUME AcquireDone(t)
      PROVE  Goal
  <2>1. op[t] \notin {"publish", "help", "help_unlock", "unborn"}
    BY <1>0 DEF Operations, None
  <2>2. QED
    BY <1>0, <2>1, <1>28 DEF AcquireDone, Goto
<1>29. CASE ThreadStarts(t)
  BY <1>29, <1>1, <1>2, <1>3, <1>4, <1>5, <1>6, <1>7, <1>8, StartCases
<1>30. CASE ThreadContinues(t)
  BY <1>30, <1>9, <1>10, <1>11, <1>12, <1>13, <1>14, <1>15, <1>16, <1>17, <1>18,
    <1>19, <1>20, <1>21, <1>22, <1>23, <1>24, <1>25, <1>26, <1>27, <1>28 DEF
    ThreadContinues
<1>31. QED
  BY <1>29, <1>30

(* A log only grows: its entries stay what they are, but for becoming      *)
(* published.                                                              *)
LogsGrow ==
  \A i \in Nodes :
    /\ Len(log'[i]) \in Nat /\ Len(log'[i]) >= Len(log[i])
    /\ \A k \in 1 .. Len(log[i]) :
         /\ log'[i][k].lines = log[i][k].lines
         /\ log'[i][k].is_rel = log[i][k].is_rel
         /\ log[i][k].published => log'[i][k].published

(* Every step keeps, and can only extend or publish, what is in a log.     *)
LEMMA LogsGrowStep ==
  ASSUME TypeOK, ClaimInv, Next
  PROVE  LogsGrow
<1>0. /\ log \in [Nodes -> Seq(Entries)] /\ NodeOf \in [Threads -> Nodes]
      /\ \A i \in Nodes : Len(log[i]) \in Nat
  BY CoherenceAssumption DEF CoherenceAssumption, TypeOK
<1>1. CASE UNCHANGED log
  BY <1>0, <1>1 DEF LogsGrow
<1>2. ASSUME NEW t \in Threads, Claim(t) PROVE LogsGrow
  <2>1. /\ \A i \in Nodes \ {NodeOf[t]} : log'[i] = log[i]
        /\ \A i \in Nodes : \A k \in 1 .. Len(log[i]) : log'[i][k] = log[i][k]
        /\ Len(log'[NodeOf[t]]) = Len(log[NodeOf[t]]) + 1
    BY <1>2, ClaimEffect
  <2>2. \A i \in Nodes : Len(log'[i]) \in Nat /\ Len(log'[i]) >= Len(log[i])
    BY <1>0, <2>1
  <2>3. QED
    BY <2>1, <2>2 DEF LogsGrow
<1>3. ASSUME NEW t \in Threads, Publish(t) PROVE LogsGrow
  <2>1. /\ \A i \in Nodes : Len(log'[i]) = Len(log[i])
        /\ \A i \in Nodes : \A k \in 1 .. Len(log[i]) :
             /\ log'[i][k].lines = log[i][k].lines
             /\ log'[i][k].is_rel = log[i][k].is_rel
             /\ log[i][k].published => log'[i][k].published
    BY <1>3, PublishEffect
  <2>2. QED
    BY <1>0, <2>1 DEF LogsGrow
<1>4. QED
  BY <1>1, <1>2, <1>3, FrameLog

(* A head moves by one, past an entry that is published.                   *)
HeadsAdvance ==
  \A n, i \in Nodes :
    \/ head'[n][i] = head[n][i]
    \/ head'[n][i] = head[n][i] + 1 /\ Available(n, i)

(* Every step keeps the heads or moves one of them by one.                 *)
LEMMA HeadsAdvanceStep ==
  ASSUME TypeOK, Next
  PROVE  HeadsAdvance
<1>0. /\ head \in [Nodes -> Clocks] /\ src \in [Threads -> Nodes] /\ asrc \in [Nodes -> Nodes]
      /\ NodeOf \in [Threads -> Nodes]
  BY CoherenceAssumption DEF CoherenceAssumption, TypeOK
<1>1. ASSUME NEW n \in Nodes, NEW i \in Nodes, ConsumeEntry(n, i) PROVE HeadsAdvance
  <2>1. head' = [head EXCEPT ![n][i] = head[n][i] + 1] /\ Available(n, i)
    BY <1>1 DEF ConsumeEntry
  <2>2. QED
    BY <1>0, <2>1 DEF HeadsAdvance, Clocks
<1>2. ASSUME NEW t \in Threads, HelpConsume(t) PROVE HeadsAdvance
  BY <1>0, <1>1, <1>2 DEF HelpConsume
<1>3. ASSUME NEW n \in Nodes, AgentConsume(n) PROVE HeadsAdvance
  BY <1>0, <1>1, <1>3 DEF AgentConsume
<1>4. QED
  BY <1>2, <1>3, FrameHead DEF HeadsAdvance

(* Nothing is consumed before it is published.                             *)
LEMMA LogInvStep ==
  ASSUME TypeOK, LogInv, ClaimInv, Next
  PROVE  LogInv'
<1> SUFFICES ASSUME NEW n \in Nodes, NEW i \in Nodes
             PROVE  /\ head'[n][i] <= Len(log'[i])
                    /\ \A k \in 1 .. head'[n][i] : log'[i][k].published
  BY DEF LogInv
<1>1. head[n][i] \in Nat /\ Len(log[i]) \in Nat
  BY DEF TypeOK, Clocks
<1>2. head[n][i] <= Len(log[i]) /\ \A k \in 1 .. head[n][i] : log[i][k].published
  BY DEF LogInv
<1>3. /\ Len(log'[i]) \in Nat /\ Len(log'[i]) >= Len(log[i])
      /\ \A k \in 1 .. Len(log[i]) : log[i][k].published => log'[i][k].published
  BY LogsGrowStep DEF LogsGrow
<1>4. CASE head'[n][i] = head[n][i]
  BY <1>1, <1>2, <1>3, <1>4
<1>5. CASE head'[n][i] = head[n][i] + 1 /\ Available(n, i)
  <2>1. head[n][i] + 1 <= Len(log[i]) /\ log[i][head[n][i] + 1].published
    BY <1>1, <1>5 DEF Available
  <2>2. QED
    BY <1>1, <1>2, <1>3, <1>5, <2>1
<1>6. QED
  BY <1>4, <1>5, HeadsAdvanceStep DEF HeadsAdvance

(* A thread's claim is its own.                                            *)
LEMMA ClaimInvStep ==
  ASSUME TypeOK, ControlInv, ClaimInv, NamesInv, Next
  PROVE  ClaimInv'
<1>0. /\ log \in [Nodes -> Seq(Entries)] /\ pos \in [Threads -> Nat] /\ NodeOf \in [Threads -> Nodes]
      /\ \A i \in Nodes : Len(log[i]) \in Nat
      /\ thread_clock \in [Threads -> Clocks]
      /\ OpInv /\ ObjInv
  BY CoherenceAssumption DEF CoherenceAssumption, TypeOK, ControlInv
<1>1. ASSUME NEW u \in Threads, pc'[u] = "publish" PROVE Claim(u) \/ (Keeps(u) /\ pc[u] = "publish")
  <2>1. CASE ThreadStarts(u) \/ ThreadContinues(u)
    BY <1>0, <1>1, <2>1, Reaches
  <2>2. ASSUME NEW t \in Threads, u # t, Create(t) /\ u = obj[t] PROVE FALSE
    BY <1>1, <2>2 DEF Create, TypeOK
  <2>3. ASSUME NEW t \in Threads, u # t, Join(t, u) PROVE FALSE
    BY <1>1, <2>3 DEF Join, TypeOK
  <2>4. CASE Keeps(u)
    BY <1>1, <2>4 DEF Keeps
  <2>5. QED
    BY <1>0, <2>1, <2>2, <2>3, <2>4, ThreadMoves
<1>2. ASSUME NEW u \in Threads, Claim(u)
      PROVE  /\ pos'[u] \in 1 .. Len(log'[NodeOf[u]])
             /\ log'[NodeOf[u]][pos'[u]].lines = dirty_cls'[u]
             /\ log'[NodeOf[u]][pos'[u]].is_rel = (op'[u] # "insert")
             /\ ~log'[NodeOf[u]][pos'[u]].published
             /\ thread_clock'[u][NodeOf[u]] < pos'[u]
             /\ pos'[u] = Len(log[NodeOf[u]]) + 1
  <2>1. /\ Len(log'[NodeOf[u]]) = Len(log[NodeOf[u]]) + 1 /\ pos'[u] = Len(log[NodeOf[u]]) + 1
        /\ log'[NodeOf[u]][pos'[u]] =
             [lines |-> dirty_cls[u], is_rel |-> op[u] # "insert", published |-> FALSE]
    BY <1>2, ClaimEffect
  <2>2. UNCHANGED <<dirty_cls, op, thread_clock>>
    BY <1>2 DEF Claim, storeVars
  <2>3. thread_clock[u][NodeOf[u]] \in Nat /\ thread_clock[u][NodeOf[u]] <= Len(log[NodeOf[u]])
    BY <1>0 DEF NamesInv, Names, Clocks
  <2>4. QED
    BY <1>0, <2>1, <2>2, <2>3
<1>3. ASSUME NEW u \in Threads, Keeps(u), pc[u] = "publish"
      PROVE  /\ pos'[u] \in 1 .. Len(log'[NodeOf[u]])
             /\ log'[NodeOf[u]][pos'[u]].lines = dirty_cls'[u]
             /\ log'[NodeOf[u]][pos'[u]].is_rel = (op'[u] # "insert")
             /\ ~log'[NodeOf[u]][pos'[u]].published
             /\ thread_clock'[u][NodeOf[u]] < pos'[u]
             /\ pos'[u] = pos[u] /\ pos[u] <= Len(log[NodeOf[u]])
  <2>1. /\ pos[u] \in 1 .. Len(log[NodeOf[u]])
        /\ log[NodeOf[u]][pos[u]].lines = dirty_cls[u]
        /\ log[NodeOf[u]][pos[u]].is_rel = (op[u] # "insert")
        /\ ~log[NodeOf[u]][pos[u]].published
        /\ thread_clock[u][NodeOf[u]] < pos[u]
    BY <1>3 DEF ClaimInv
  <2>2. /\ pos'[u] = pos[u] /\ dirty_cls'[u] = dirty_cls[u] /\ op'[u] = op[u]
        /\ thread_clock'[u] = thread_clock[u]
    BY <1>3 DEF Keeps
  <2>3. /\ Len(log'[NodeOf[u]]) \in Nat /\ Len(log'[NodeOf[u]]) >= Len(log[NodeOf[u]])
        /\ log'[NodeOf[u]][pos[u]].lines = log[NodeOf[u]][pos[u]].lines
        /\ log'[NodeOf[u]][pos[u]].is_rel = log[NodeOf[u]][pos[u]].is_rel
    BY <1>0, <2>1, LogsGrowStep DEF LogsGrow
  <2>4. ~log'[NodeOf[u]][pos[u]].published
    <3>1. CASE UNCHANGED log
      BY <2>1, <3>1
    <3>2. ASSUME NEW t \in Threads, Claim(t) PROVE ~log'[NodeOf[u]][pos[u]].published
      <4>1. log'[NodeOf[u]][pos[u]] = log[NodeOf[u]][pos[u]]
        BY <1>0, <2>1, <3>2, ClaimEffect
      <4>2. QED
        BY <2>1, <4>1
    <3>3. ASSUME NEW t \in Threads, Publish(t) PROVE ~log'[NodeOf[u]][pos[u]].published
      <4>1. t # u
        <5>1. Publish(u) => pc'[u] = op[u] /\ op[u] # "publish"
          BY DEF Publish, Goto, TypeOK, Operations, None
        <5>2. QED
          BY <1>3, <3>3, <5>1 DEF Keeps
      <4>2. NodeOf[t] = NodeOf[u] => pos[t] # pos[u]
        BY <1>3, <3>3, <4>1 DEF ClaimInv, Publish
      <4>3. log'[NodeOf[u]][pos[u]].published =>
              log[NodeOf[u]][pos[u]].published \/ (NodeOf[u] = NodeOf[t] /\ pos[u] = pos[t])
        BY <1>0, <2>1, <3>3, PublishEffect
      <4>4. QED
        BY <2>1, <4>2, <4>3
    <3>4. QED
      BY <3>1, <3>2, <3>3, FrameLog
  <2>5. QED
    BY <1>0, <2>1, <2>2, <2>3, <2>4
<1>4. ASSUME NEW t \in Threads, NEW u \in Threads, pc'[t] = "publish", pc'[u] = "publish",
             NodeOf[t] = NodeOf[u], t # u
      PROVE  pos'[t] # pos'[u]
  <2>1. CASE Claim(t) /\ Claim(u)
    <3>1. ~Keeps(u)
      BY <2>1 DEF Keeps, Claim, Goto, TypeOK
    <3>2. Keeps(u)
      <4>1. ThreadContinues(t)
        BY <2>1 DEF ThreadContinues
      <4>2. ~Create(t) /\ ~Join(t, u)
        BY <2>1 DEF Claim, Create, Join
      <4>3. QED
        BY <1>0, <1>4, <4>1, <4>2, Bystander
    <3>3. QED
      BY <3>1, <3>2
  <2>2. CASE Claim(t) /\ Keeps(u) /\ pc[u] = "publish"
    BY <1>0, <1>2, <1>3, <1>4, <2>2
  <2>3. CASE Claim(u) /\ Keeps(t) /\ pc[t] = "publish"
    BY <1>0, <1>2, <1>3, <1>4, <2>3
  <2>4. CASE Keeps(t) /\ pc[t] = "publish" /\ Keeps(u) /\ pc[u] = "publish"
    BY <1>4, <2>4 DEF Keeps, ClaimInv
  <2>5. QED
    BY <1>1, <1>4, <2>1, <2>2, <2>3, <2>4
<1>5. QED
  BY <1>1, <1>2, <1>3, <1>4 DEF ClaimInv

-----------------------------------------------------------------------------
(* Clocks.                                                                 *)

(* Names and IsLast of a value in the next state.                          *)
NamesNext(c, i) ==
  c # 0 => c <= Len(log'[i]) /\ log'[i][c].is_rel /\ log'[i][c].published

LastNext(n, i, c) ==
  /\ c <= head'[n][i]
  /\ c # 0 => log'[i][c].is_rel
  /\ \A k \in 1 .. head'[n][i] : log'[i][k].is_rel => k <= c

(* A name stays a name.                                                    *)
LEMMA NamesStay ==
  ASSUME TypeOK, LogsGrow, NEW i \in Nodes, NEW c \in Nat, Names(c, i)
  PROVE  NamesNext(c, i)
<1>1. Len(log[i]) \in Nat
  BY DEF TypeOK
<1>2. /\ Len(log'[i]) \in Nat /\ Len(log'[i]) >= Len(log[i])
      /\ \A k \in 1 .. Len(log[i]) :
           /\ log'[i][k].is_rel = log[i][k].is_rel
           /\ log[i][k].published => log'[i][k].published
  BY DEF LogsGrow
<1>3. QED
  BY <1>1, <1>2 DEF Names, NamesNext

(* Clocks name published releases.                                         *)
LEMMA NamesInvStep ==
  ASSUME TypeOK, ControlInv, ClaimInv, NamesInv, Next
  PROVE  NamesInv'
<1>0. /\ thread_clock \in [Threads -> Clocks] /\ target \in [Threads -> Clocks]
      /\ loc_clock \in [Locs -> Clocks] /\ pos \in [Threads -> Nat]
      /\ NodeOf \in [Threads -> Nodes]
      /\ OpInv /\ ObjInv
  BY CoherenceAssumption DEF CoherenceAssumption, TypeOK, ControlInv
<1>1. LogsGrow
  BY LogsGrowStep
<1> DEFINE Good(c) == c \in Clocks /\ \A i \in Nodes : NamesNext(c[i], i)
<1>2. /\ \A t \in Threads : Good(thread_clock[t]) /\ Good(target[t])
      /\ \A a \in Locs : Good(loc_clock[a])
  <2>1. ASSUME NEW c \in Clocks, \A i \in Nodes : Names(c[i], i) PROVE Good(c)
    <3>1. \A i \in Nodes : c[i] \in Nat
      BY DEF Clocks
    <3>2. QED
      BY <1>1, <2>1, <3>1, NamesStay
  <2>2. /\ \A t \in Threads : \A i \in Nodes : Names(thread_clock[t][i], i) /\ Names(target[t][i], i)
        /\ \A a \in Locs : \A i \in Nodes : Names(loc_clock[a][i], i)
    BY DEF NamesInv
  <2> HIDE DEF Good
  <2>3. QED
    BY <1>0, <2>1, <2>2
<1>3. ASSUME NEW c, NEW d, Good(c), Good(d) PROVE Good(Merge(c, d))
  <2>1. Merge(c, d) \in Clocks /\ \A i \in Nodes : Merge(c, d)[i] \in {c[i], d[i]}
    BY <1>3, MergeTypes
  <2>2. QED
    BY <1>3, <2>1
<1>4. Good(ZeroClock)
  BY DEF ZeroClock, Clocks, NamesNext
<1> HIDE DEF Good
<1>5. ASSUME NEW u \in Threads PROVE Good(thread_clock'[u])
  <2>1. ASSUME NEW t \in Threads, Publish(t) PROVE Good(thread_clock'[u])
    <3>1. CASE op[t] = "insert" \/ u # t
      <4>1. thread_clock'[u] = thread_clock[u]
        BY <1>0, <2>1, <3>1 DEF Publish
      <4>2. QED
        BY <1>2, <4>1
    <3>2. CASE op[t] # "insert" /\ u = t
      <4>1. thread_clock'[u] = [thread_clock[u] EXCEPT ![NodeOf[u]] = pos[u]]
        BY <1>0, <2>1, <3>2 DEF Publish, ReleaseClock
      <4>2. /\ pos[u] \in 1 .. Len(log[NodeOf[u]]) /\ Len(log[NodeOf[u]]) \in Nat
            /\ log[NodeOf[u]][pos[u]].is_rel
        <5>1. pc[u] = "publish" /\ log[NodeOf[u]] \in Seq(Entries)
          BY <1>0, <2>1, <3>2 DEF Publish, TypeOK
        <5>2. pos[u] \in 1 .. Len(log[NodeOf[u]]) /\ log[NodeOf[u]][pos[u]].is_rel = (op[u] # "insert")
          BY <5>1 DEF ClaimInv
        <5>3. log[NodeOf[u]][pos[u]].is_rel
          BY <3>2, <5>2
        <5>4. QED
          BY <5>1, <5>2, <5>3
      <4>3. /\ Len(log'[NodeOf[u]]) = Len(log[NodeOf[u]])
            /\ log'[NodeOf[u]][pos[u]].is_rel = log[NodeOf[u]][pos[u]].is_rel
            /\ log'[NodeOf[u]][pos[u]].published
        <5>1. Publish(u) /\ NodeOf[u] \in Nodes
          BY <1>0, <2>1, <3>2
        <5>2. QED
          BY <4>2, <5>1, PublishEffect
      <4>4. NamesNext(pos[u], NodeOf[u])
        BY <4>2, <4>3 DEF NamesNext
      <4>5. thread_clock[u] \in Clocks /\ \A i \in Nodes : NamesNext(thread_clock[u][i], i)
        BY <1>2 DEF Good
      <4>6. thread_clock'[u] \in Clocks
        BY <1>0, <4>1, <4>5 DEF Clocks
      <4>7. \A i \in Nodes : thread_clock'[u][i] = IF i = NodeOf[u] THEN pos[u] ELSE thread_clock[u][i]
        BY <4>1, <4>5 DEF Clocks
      <4>8. QED
        BY <4>4, <4>5, <4>6, <4>7 DEF Good
    <3>3. QED
      BY <3>1, <3>2
  <2>2. ASSUME NEW t \in Threads, AcquireDone(t) PROVE Good(thread_clock'[u])
    <3>1. Good(Target(t))
      BY <1>0, <1>2, <2>2, TargetTypes DEF AcquireDone, Acquiring
    <3>2. Good(AcquiredClock(t))
      BY <1>2, <1>3, <3>1 DEF AcquiredClock
    <3>3. thread_clock'[u] = IF u = t THEN AcquiredClock(t) ELSE thread_clock[u]
      BY <1>0, <2>2 DEF AcquireDone
    <3>4. QED
      BY <1>2, <3>2, <3>3
  <2>3. QED
    BY <1>2, <2>1, <2>2, FrameThreadClock
<1>6. ASSUME NEW t \in Threads, FetchAdd(t)
      PROVE  /\ \A a \in Locs : Good(loc_clock'[a])
             /\ \A u \in Threads : Good(target'[u])
  <2>1. obj[t] \in Locs
    BY <1>0, <1>6 DEF FetchAdd, OpInv, ObjInv, ObjOf, Releases, AtomicOps, Locs
  <2>2. Good(Merge(loc_clock[obj[t]], thread_clock[t]))
    BY <1>2, <1>3, <2>1
  <2>3. /\ loc_clock' = [loc_clock EXCEPT ![obj[t]] = Merge(loc_clock[obj[t]], thread_clock[t])]
        /\ \/ UNCHANGED target
           \/ target' = [target EXCEPT ![t] = Merge(loc_clock[obj[t]], thread_clock[t])]
    BY <1>6 DEF FetchAdd, AcquireCopy
  <2>4. QED
    BY <1>0, <1>2, <2>2, <2>3
<1>7. ASSUME NEW a \in Locs PROVE Good(loc_clock'[a])
  <2>1. ASSUME NEW t \in Threads, AtomicStore(t) \/ Unlock(t) PROVE Good(loc_clock'[a])
    BY <1>0, <1>2, <2>1 DEF AtomicStore, Unlock
  <2>2. ASSUME NEW t \in Threads, NEW i \in Nodes, CopyClock(t, i) PROVE Good(loc_clock'[a])
    <3>1. CASE a = obj[t]
      <4>1. loc_clock'[a] = [loc_clock[a] EXCEPT ![i] = thread_clock[t][i]]
        BY <1>0, <2>2, <3>1 DEF CopyClock, CopiedClock
      <4>2. /\ loc_clock[a] \in Clocks /\ \A j \in Nodes : NamesNext(loc_clock[a][j], j)
            /\ thread_clock[t] \in Clocks /\ NamesNext(thread_clock[t][i], i)
        BY <1>2 DEF Good
      <4>3. /\ loc_clock'[a] \in Clocks
            /\ \A j \in Nodes : loc_clock'[a][j] = IF j = i THEN thread_clock[t][i] ELSE loc_clock[a][j]
        BY <4>1, <4>2 DEF Clocks
      <4>4. QED
        BY <4>2, <4>3 DEF Good
    <3>2. CASE a # obj[t]
      <4>1. loc_clock'[a] = loc_clock[a]
        BY <1>0, <2>2, <3>2 DEF CopyClock
      <4>2. QED
        BY <1>2, <4>1
    <3>3. QED
      BY <3>1, <3>2
  <2>3. QED
    BY <1>2, <1>6, <2>1, <2>2, FrameLocClock
<1>8. ASSUME NEW u \in Threads PROVE Good(target'[u])
  <2>1. ASSUME NEW t \in Threads, NEW a \in Atomics, AtomicLoad(t, a) PROVE Good(target'[u])
    BY <1>0, <1>2, <2>1 DEF AtomicLoad, AcquireCopy, Locs
  <2>2. ASSUME NEW t \in Threads, AcquireDone(t) PROVE Good(target'[u])
    BY <1>0, <1>2, <1>4, <2>2 DEF AcquireDone
  <2>3. QED
    BY <1>2, <1>6, <2>1, <2>2, FrameTarget
<1>9. QED
  BY <1>5, <1>7, <1>8 DEF Good, NamesInv, NamesNext, Names

(* What is the last release consumed remains it while nothing is consumed, *)
(* and one more entry moves it on as EntryClock says.                      *)
LEMMA LastStays ==
  ASSUME TypeOK, LogInv, LogsGrow, NEW n \in Nodes, NEW i \in Nodes, NEW c \in Nat,
         IsLast(n, i, c), head'[n][i] = head[n][i]
  PROVE  LastNext(n, i, c)
<1>1. Len(log[i]) \in Nat /\ head[n][i] \in Nat /\ head[n][i] <= Len(log[i])
  BY DEF TypeOK, LogInv, Clocks
<1>2. \A k \in 1 .. Len(log[i]) : log'[i][k].is_rel = log[i][k].is_rel
  BY DEF LogsGrow
<1>3. QED
  BY <1>1, <1>2 DEF IsLast, LastNext

(* Consuming one more entry moves the last release as EntryClock says.     *)
LEMMA LastMoves ==
  ASSUME TypeOK, UNCHANGED log, NEW n \in Nodes, NEW i \in Nodes, NEW c \in Nat,
         IsLast(n, i, c), head'[n][i] = head[n][i] + 1
  PROVE  /\ LastNext(n, i, EntryClock(n, i, c))
         /\ EntryClock(n, i, c) >= c
         /\ EntryClock(n, i, c) \in Nat
         /\ EntryClock(n, i, c) = c \/ EntryClock(n, i, c) # 0
<1>1. head[n][i] \in Nat
  BY DEF TypeOK, Clocks
<1>2. CASE NextEntry(n, i).is_rel
  <2>1. EntryClock(n, i, c) = head[n][i] + 1
    BY <1>2 DEF EntryClock
  <2>2. QED
    BY <1>1, <1>2, <2>1 DEF IsLast, LastNext, NextEntry
<1>3. CASE ~NextEntry(n, i).is_rel
  <2>1. EntryClock(n, i, c) = c
    BY <1>3 DEF EntryClock
  <2>2. QED
    BY <1>1, <1>3, <2>1 DEF IsLast, LastNext, NextEntry
<1>4. QED
  BY <1>2, <1>3

(* One consumer at a time.                                                 *)
LEMMA OneConsumer ==
  ASSUME TypeOK, MutexInv, NEW t \in Threads, pc[t] \in {"help", "help_unlock"}
  PROVE  /\ apc[NodeOf[t]] = "off"
         /\ \A u \in Threads : NodeOf[u] = NodeOf[t] /\ pc[u] \in {"help", "help_unlock"} => u = t
<1>1. NodeOf[t] \in Nodes /\ NodeOf[t] \notin Threads
  BY CoherenceAssumption DEF CoherenceAssumption
<1>2. log_head_mtx[NodeOf[t]] = t
  BY <1>1 DEF MutexInv
<1>3. QED
  BY <1>1, <1>2 DEF MutexInv

(* Who moves a head, and who moves a clock.                                *)
LEMMA WhoConsumes ==
  ASSUME TypeOK, Next, NEW n \in Nodes, NEW i \in Nodes, head'[n][i] # head[n][i]
  PROVE  /\ \/ \E t \in Threads : HelpConsume(t) /\ NodeOf[t] = n /\ src[t] = i
            \/ AgentConsume(n) /\ asrc[n] = i
         /\ head'[n][i] = head[n][i] + 1
         /\ Available(n, i)
<1>0. /\ head \in [Nodes -> Clocks] /\ src \in [Threads -> Nodes] /\ asrc \in [Nodes -> Nodes]
      /\ NodeOf \in [Threads -> Nodes]
  BY CoherenceAssumption DEF CoherenceAssumption, TypeOK
<1>1. ASSUME NEW t \in Threads, HelpConsume(t) PROVE NodeOf[t] = n /\ src[t] = i
  <2>1. head' = [head EXCEPT ![NodeOf[t]][src[t]] = head[NodeOf[t]][src[t]] + 1]
    BY <1>1 DEF HelpConsume, ConsumeEntry
  <2>2. QED
    BY <1>0, <2>1 DEF Clocks
<1>2. ASSUME NEW k \in Nodes, AgentConsume(k) PROVE k = n /\ asrc[n] = i
  <2>1. head' = [head EXCEPT ![k][asrc[k]] = head[k][asrc[k]] + 1]
    BY <1>2 DEF AgentConsume, ConsumeEntry
  <2>2. QED
    BY <1>0, <2>1 DEF Clocks
<1>3. QED
  BY <1>1, <1>2, FrameHead, HeadsAdvanceStep DEF HeadsAdvance

(* Who writes a cache clock, and with which value.                         *)
LEMMA WhoUpdates ==
  ASSUME TypeOK, Next, NEW n \in Nodes, NEW i \in Nodes, clock'[n][i] # clock[n][i]
  PROVE  \/ \E t \in Threads : /\ HelpUpdate(t) /\ pc[t] = "help" /\ NodeOf[t] = n /\ src[t] = i
                                /\ clock'[n][i] = clk[t]
         \/ /\ AgentUpdate(n) /\ apc[n] = "batch" /\ asrc[n] = i
            /\ aclk[n] # 0 /\ clock'[n][i] = aclk[n]
<1>0. /\ clock \in [Nodes -> Clocks] /\ src \in [Threads -> Nodes] /\ asrc \in [Nodes -> Nodes]
      /\ NodeOf \in [Threads -> Nodes]
  BY CoherenceAssumption DEF CoherenceAssumption, TypeOK
<1>1. ASSUME NEW t \in Threads, HelpUpdate(t)
      PROVE  pc[t] = "help" /\ NodeOf[t] = n /\ src[t] = i /\ clock'[n][i] = clk[t]
  <2>1. pc[t] = "help" /\ clock' = [clock EXCEPT ![NodeOf[t]][src[t]] = clk[t]]
    BY <1>1 DEF HelpUpdate
  <2>2. QED
    BY <1>0, <2>1 DEF Clocks
<1>2. ASSUME NEW k \in Nodes, AgentUpdate(k)
      PROVE  k = n /\ apc[n] = "batch" /\ asrc[n] = i /\ aclk[n] # 0 /\ clock'[n][i] = aclk[n]
  <2>1. apc[k] = "batch" /\ aclk[k] # 0 /\ clock' = [clock EXCEPT ![k][asrc[k]] = aclk[k]]
    BY <1>2 DEF AgentUpdate
  <2>2. QED
    BY <1>0, <2>1 DEF Clocks
<1>3. QED
  BY <1>1, <1>2, FrameClock

(* A thread that consumes keeps to its log until it updates the clock.     *)
LEMMA StillHelping ==
  ASSUME TypeOK, OpInv, ObjInv, Next, NEW t \in Threads, pc[t] = "help"
  PROVE  HelpUpdate(t) \/ (pc'[t] = "help" /\ src'[t] = src[t] /\ (clk'[t] = clk[t] \/ HelpConsume(t)))
<1>1. CASE Keeps(t)
  BY <1>1 DEF Keeps
<1>2. CASE ThreadStarts(t) \/ ThreadContinues(t)
  <2>1. HelpConsume(t) => pc'[t] = "help" /\ src'[t] = src[t]
    BY DEF HelpConsume
  <2>2. QED
    BY <1>2, <2>1, Reaches
<1>3. ASSUME NEW u \in Threads PROVE ~(Create(u) /\ t = obj[u]) /\ ~Join(u, t)
  BY DEF Create, Join, OpInv, ObjInv, ObjOf, Releases, AtomicOps
<1>4. QED
  BY <1>1, <1>2, <1>3, ThreadMoves

(* A thread that begins to consume starts from the cache clock.            *)
LEMMA NewHelper ==
  ASSUME TypeOK, OpInv, ObjInv, Next, NEW t \in Threads, pc'[t] = "help"
  PROVE  \/ HelpTryLock(t)
         \/ pc[t] = "help" /\ src'[t] = src[t] /\ (clk'[t] = clk[t] \/ HelpConsume(t))
<1>1. CASE Keeps(t)
  BY <1>1 DEF Keeps
<1>2. CASE ThreadStarts(t) \/ ThreadContinues(t)
  <2>1. HelpConsume(t) => pc[t] = "help" /\ src'[t] = src[t]
    BY DEF HelpConsume
  <2>2. QED
    BY <1>2, <2>1, Reaches
<1>3. ASSUME NEW u \in Threads, u # t PROVE ~(Create(u) /\ t = obj[u]) /\ ~Join(u, t)
  BY <1>3 DEF Create, Join, TypeOK
<1>4. QED
  BY <1>1, <1>2, <1>3, ThreadMoves

(* A cache clock is the last release consumed, or is about to be.          *)
LEMMA ClockInvStep ==
  ASSUME TypeOK, TypeOK', ControlInv, MutexInv, ClockInv, LogInv, ClaimInv, Next
  PROVE  ClockInv'
<1>0. /\ head \in [Nodes -> Clocks] /\ clock \in [Nodes -> Clocks]
      /\ src \in [Threads -> Nodes] /\ asrc \in [Nodes -> Nodes]
      /\ aclk \in [Nodes -> Nat] /\ clk \in [Threads -> Nat]
      /\ apc \in [Nodes -> {"off", "batch", "unlock"}]
      /\ NodeOf \in [Threads -> Nodes] /\ Nodes \cap Threads = {} /\ None \notin Nodes /\ None \notin Threads
      /\ pc \in [Threads -> Labels] /\ OpInv /\ ObjInv
  BY CoherenceAssumption DEF CoherenceAssumption, TypeOK, ControlInv
<1>1. LogsGrow /\ \A n, i \in Nodes : head[n][i] \in Nat /\ clock[n][i] \in Nat
  BY <1>0, LogsGrowStep DEF Clocks
<1>2. ASSUME NEW n \in Nodes, NEW i \in Nodes
      PROVE  /\ clock'[n][i] <= head'[n][i]
             /\ ~Consuming(n, i)' => LastNext(n, i, clock'[n][i])
  <2>0. clock[n][i] <= head[n][i] /\ (~Consuming(n, i) => IsLast(n, i, clock[n][i]))
    BY DEF ClockInv
  <2>1. CASE Consuming(n, i) /\ ~Consuming(n, i)'
    <3>1. ASSUME NEW t \in Threads, NodeOf[t] = n, pc[t] = "help", src[t] = i
          PROVE  clock'[n][i] <= head'[n][i] /\ LastNext(n, i, clock'[n][i])
      <4>1. HelpUpdate(t)
        BY <1>0, <2>1, <3>1, StillHelping DEF Consuming
      <4>2. clock'[n][i] = clk[t] /\ UNCHANGED head
        BY <1>0, <3>1, <4>1 DEF HelpUpdate, Clocks
      <4>3. IsLast(n, i, clk[t]) /\ clk[t] \in Nat
        BY <1>0, <3>1 DEF ClockInv
      <4>4. LastNext(n, i, clk[t])
        BY <1>1, <4>2, <4>3, LastStays
      <4>5. QED
        BY <4>2, <4>4 DEF LastNext
    <3>2. ASSUME apc[n] = "batch", asrc[n] = i
          PROVE  clock'[n][i] <= head'[n][i] /\ LastNext(n, i, clock'[n][i])
      <4>1. AgentUpdate(n)
        <5>1. ~(apc'[n] = "batch" /\ asrc'[n] = i)
          BY <2>1 DEF Consuming
        <5>2. ASSUME NEW k \in Nodes, AgentConsume(k) \/ AgentUnlock(k) \/ \E j \in Nodes : AgentLock(k, j)
              PROVE  apc'[n] = "batch" /\ asrc'[n] = i
          BY <1>0, <3>2, <5>2 DEF AgentConsume, AgentUnlock, AgentLock
        <5>3. ASSUME NEW k \in Nodes, AgentUpdate(k), k # n
              PROVE  apc'[n] = "batch" /\ asrc'[n] = i
          BY <1>0, <3>2, <5>3 DEF AgentUpdate
        <5>4. QED
          BY <3>2, <5>1, <5>2, <5>3, FrameAgent
      <4>2. /\ UNCHANGED head
            /\ clock'[n][i] = IF aclk[n] = 0 THEN clock[n][i] ELSE aclk[n]
        BY <1>0, <3>2, <4>1 DEF AgentUpdate, Clocks
      <4>3. IsLast(n, i, clock'[n][i]) /\ clock'[n][i] \in Nat
        BY <1>0, <1>1, <3>2, <4>2 DEF ClockInv
      <4>4. LastNext(n, i, clock'[n][i])
        BY <1>1, <4>2, <4>3, LastStays
      <4>5. QED
        BY <4>4 DEF LastNext
    <3>3. QED
      BY <2>1, <3>1, <3>2 DEF Consuming
  <2>2. CASE ~Consuming(n, i)
    <3>1. head'[n][i] = head[n][i]
      BY <2>2, WhoConsumes DEF Consuming, HelpConsume, AgentConsume
    <3>2. clock'[n][i] = clock[n][i]
      BY <2>2, WhoUpdates DEF Consuming
    <3>3. QED
      BY <1>1, <2>0, <2>2, <3>1, <3>2, LastStays
  <2>3. CASE Consuming(n, i)'
    <3>1. head'[n][i] >= head[n][i] /\ head'[n][i] \in Nat
      BY <1>1, HeadsAdvanceStep DEF HeadsAdvance
    <3>2. CASE clock'[n][i] = clock[n][i]
      BY <1>1, <2>0, <2>3, <3>1, <3>2
    <3>3. ASSUME NEW t \in Threads, HelpUpdate(t), NodeOf[t] = n, src[t] = i, clock'[n][i] = clk[t]
          PROVE  clock'[n][i] <= head'[n][i]
      BY <1>0, <1>1, <3>1, <3>3 DEF ClockInv, HelpUpdate, IsLast
    <3>4. ASSUME AgentUpdate(n), asrc[n] = i, aclk[n] # 0, clock'[n][i] = aclk[n]
          PROVE  clock'[n][i] <= head'[n][i]
      BY <1>0, <1>1, <3>1, <3>4 DEF ClockInv, AgentUpdate, IsLast
    <3>5. QED
      BY <2>3, <3>2, <3>3, <3>4, WhoUpdates
  <2>4. QED
    BY <2>1, <2>2, <2>3
<1>3. ASSUME NEW n \in Nodes
      PROVE  /\ apc'[n] = "off" => aclk'[n] = 0
             /\ apc'[n] = "batch" /\ aclk'[n] = 0 => LastNext(n, asrc'[n], clock'[n][asrc'[n]])
             /\ apc'[n] = "batch" /\ aclk'[n] # 0 =>
                  clock'[n][asrc'[n]] <= aclk'[n] /\ LastNext(n, asrc'[n], aclk'[n])
  <2> DEFINE Goal == /\ apc'[n] = "off" => aclk'[n] = 0
                     /\ apc'[n] = "batch" /\ aclk'[n] = 0 => LastNext(n, asrc'[n], clock'[n][asrc'[n]])
                     /\ apc'[n] = "batch" /\ aclk'[n] # 0 =>
                          clock'[n][asrc'[n]] <= aclk'[n] /\ LastNext(n, asrc'[n], aclk'[n])
  <2>0. /\ apc[n] = "off" => aclk[n] = 0
        /\ apc[n] = "batch" /\ aclk[n] = 0 => IsLast(n, asrc[n], clock[n][asrc[n]])
        /\ apc[n] = "batch" /\ aclk[n] # 0 =>
             clock[n][asrc[n]] <= aclk[n] /\ IsLast(n, asrc[n], aclk[n])
        /\ asrc[n] \in Nodes /\ aclk[n] \in Nat
    BY <1>0 DEF ClockInv
  <2>1. CASE apc'[n] = apc[n] /\ asrc'[n] = asrc[n] /\ aclk'[n] = aclk[n] /\ ~AgentConsume(n) /\ ~AgentUpdate(n)
    <3>1. CASE apc[n] = "batch"
      <4>1. \A t \in Threads : NodeOf[t] = n => pc[t] # "help"
        BY <3>1, OneConsumer
      <4>2. head'[n][asrc[n]] = head[n][asrc[n]]
        BY <2>0, <2>1, <4>1, WhoConsumes DEF HelpConsume
      <4>3. clock'[n][asrc[n]] = clock[n][asrc[n]]
        BY <2>0, <2>1, <4>1, WhoUpdates
      <4>4. clock[n][asrc[n]] \in Nat
        BY <1>1, <2>0
      <4>5. QED
        BY <1>1, <2>0, <2>1, <3>1, <4>2, <4>3, <4>4, LastStays
    <3>2. CASE apc[n] # "batch"
      BY <2>0, <2>1, <3>2
    <3>3. QED
      BY <3>1, <3>2
  <2>2. ASSUME NEW j \in Nodes, AgentLock(n, j) PROVE Goal
    <3>1. /\ apc[n] = "off" /\ apc'[n] = "batch" /\ asrc'[n] = j /\ aclk'[n] = aclk[n]
          /\ log_head_mtx[n] = None /\ UNCHANGED <<head, clock>>
      BY <1>0, <2>2 DEF AgentLock, MutexFree
    <3>2. \A t \in Threads : NodeOf[t] = n => pc[t] # "help"
      BY <1>0, <3>1 DEF MutexInv
    <3>3. IsLast(n, j, clock[n][j])
      BY <3>1, <3>2 DEF ClockInv, Consuming
    <3>4. LastNext(n, j, clock[n][j])
      BY <1>1, <3>1, <3>3, LastStays
    <3>5. QED
      BY <2>0, <3>1, <3>4
  <2>3. ASSUME AgentConsume(n) PROVE Goal
    <3> DEFINE i == asrc[n]
    <3>1. /\ apc[n] = "batch" /\ UNCHANGED <<apc, asrc, clock, log>> /\ Available(n, i)
          /\ head' = [head EXCEPT ![n][i] = head[n][i] + 1]
          /\ aclk'[n] = EntryClock(n, i, aclk[n])
      BY <1>0, <2>3 DEF AgentConsume, ConsumeEntry, OtherThanAgent
    <3>2. head'[n][i] = head[n][i] + 1 /\ i \in Nodes /\ clock[n][i] \in Nat
      BY <1>0, <1>1, <2>0, <3>1 DEF Clocks
    <3> HIDE DEF i
    <3>a. asrc[n] = i
      BY DEF i
    <3>3. CASE aclk[n] # 0
      <4>1. clock[n][i] <= aclk[n] /\ IsLast(n, i, aclk[n])
        BY <2>0, <3>1, <3>3, <3>a
      <4>2. /\ LastNext(n, i, aclk'[n]) /\ aclk'[n] >= aclk[n] /\ aclk'[n] \in Nat
            /\ aclk'[n] # 0
        BY <2>0, <3>1, <3>2, <3>3, <4>1, LastMoves
      <4>3. QED
        BY <2>0, <3>1, <3>2, <3>a, <4>1, <4>2
    <3>4. CASE aclk[n] = 0
      <4>1. IsLast(n, i, clock[n][i])
        BY <2>0, <3>1, <3>4, <3>a
      <4>2. /\ LastNext(n, i, EntryClock(n, i, clock[n][i]))
            /\ EntryClock(n, i, clock[n][i]) >= clock[n][i]
        BY <2>0, <3>1, <3>2, <4>1, LastMoves
      <4>3. CASE NextEntry(n, i).is_rel
        <5>1. aclk'[n] = EntryClock(n, i, clock[n][i]) /\ aclk'[n] = head[n][i] + 1
          BY <3>1, <4>3 DEF EntryClock
        <5>2. QED
          BY <1>1, <3>1, <3>2, <3>a, <4>2, <5>1
      <4>4. CASE ~NextEntry(n, i).is_rel
        <5>1. aclk'[n] = 0 /\ EntryClock(n, i, clock[n][i]) = clock[n][i]
          BY <3>1, <3>4, <4>4 DEF EntryClock
        <5>2. QED
          BY <3>1, <3>a, <4>2, <5>1
      <4>5. QED
        BY <4>3, <4>4
    <3>5. QED
      BY <3>3, <3>4
  <2>4. ASSUME AgentUpdate(n) PROVE Goal
    BY <1>0, <2>4 DEF AgentUpdate
  <2>5. ASSUME AgentUnlock(n) PROVE Goal
    BY <1>0, <2>5 DEF AgentUnlock
  <2>6. CASE ~AgentConsume(n) /\ ~AgentUpdate(n) /\ ~AgentUnlock(n) /\ \A j \in Nodes : ~AgentLock(n, j)
    <3>1. ASSUME NEW k \in Nodes, k # n,
                 AgentConsume(k) \/ AgentUpdate(k) \/ AgentUnlock(k) \/ \E j \in Nodes : AgentLock(k, j)
          PROVE  apc'[n] = apc[n] /\ asrc'[n] = asrc[n] /\ aclk'[n] = aclk[n]
      BY <1>0, <3>1 DEF AgentConsume, AgentUpdate, AgentUnlock, AgentLock
    <3>2. apc'[n] = apc[n] /\ asrc'[n] = asrc[n] /\ aclk'[n] = aclk[n]
      BY <2>6, <3>1, FrameAgent
    <3>3. QED
      BY <2>1, <2>6, <3>2
  <2>7. QED
    BY <2>2, <2>3, <2>4, <2>5, <2>6
<1>4. ASSUME NEW t \in Threads, pc'[t] = "help"
      PROVE  clock'[NodeOf[t]][src'[t]] <= clk'[t] /\ LastNext(NodeOf[t], src'[t], clk'[t])
  <2> DEFINE n == NodeOf[t]
  <2>0. n \in Nodes /\ src[t] \in Nodes /\ clk[t] \in Nat
    BY <1>0
  <2>1. CASE HelpTryLock(t)
    <3>1. /\ log_head_mtx[n] = None /\ clk'[t] = clock[n][src[t]] /\ src'[t] = src[t]
          /\ UNCHANGED <<head, clock>>
      BY <1>0, <1>4, <2>1 DEF HelpTryLock, MutexFree, Goto
    <3>2. ~Consuming(n, src[t])
      BY <1>0, <2>0, <3>1 DEF MutexInv, Consuming
    <3>3. IsLast(n, src[t], clock[n][src[t]]) /\ clock[n][src[t]] \in Nat
      BY <1>1, <2>0, <3>2 DEF ClockInv
    <3>4. LastNext(n, src[t], clock[n][src[t]])
      BY <1>1, <2>0, <3>1, <3>3, LastStays
    <3>5. QED
      BY <3>1, <3>3, <3>4
  <2>2. CASE pc[t] = "help" /\ src'[t] = src[t] /\ HelpConsume(t)
    <3>1. /\ UNCHANGED <<clock, log>>
          /\ head' = [head EXCEPT ![n][src[t]] = head[n][src[t]] + 1]
          /\ clk'[t] = EntryClock(n, src[t], clk[t])
      BY <1>0, <2>2 DEF HelpConsume, ConsumeEntry, OtherThanHelp
    <3>2. head'[n][src[t]] = head[n][src[t]] + 1 /\ clock[n][src[t]] \in Nat
      BY <1>0, <1>1, <2>0, <3>1 DEF Clocks
    <3>3. clock[n][src[t]] <= clk[t] /\ IsLast(n, src[t], clk[t])
      BY <2>2 DEF ClockInv
    <3>4. LastNext(n, src[t], clk'[t]) /\ clk'[t] >= clk[t] /\ clk'[t] \in Nat
      BY <2>0, <3>1, <3>2, <3>3, LastMoves
    <3>5. QED
      BY <2>0, <2>2, <3>1, <3>2, <3>3, <3>4
  <2>3. CASE pc[t] = "help" /\ src'[t] = src[t] /\ clk'[t] = clk[t] /\ ~HelpConsume(t)
    <3>1. clock[n][src[t]] <= clk[t] /\ IsLast(n, src[t], clk[t])
      BY <2>3 DEF ClockInv
    <3>2. apc[n] = "off" /\ \A u \in Threads : NodeOf[u] = n /\ pc[u] = "help" => u = t
      BY <2>3, OneConsumer
    <3>3. head'[n][src[t]] = head[n][src[t]]
      BY <2>0, <2>3, <3>2, WhoConsumes DEF HelpConsume, AgentConsume
    <3>4. ~HelpUpdate(t)
      BY <1>0, <1>4 DEF HelpUpdate, Goto
    <3>5. clock'[n][src[t]] = clock[n][src[t]]
      BY <2>0, <2>3, <3>2, <3>4, WhoUpdates
    <3>6. LastNext(n, src[t], clk[t])
      BY <1>1, <2>0, <3>1, <3>3, LastStays
    <3>7. QED
      BY <2>3, <3>1, <3>5, <3>6
  <2>4. QED
    BY <1>0, <1>4, <2>1, <2>2, <2>3, NewHelper
<1>5. QED
  BY <1>2, <1>3, <1>4 DEF ClockInv, IsLast, LastNext

-----------------------------------------------------------------------------
(* The invariant of every build.                                           *)
ProtocolState == TypeOK /\ ControlInv /\ ProtocolInv

(* The invariant holds initially.                                          *)
LEMMA ProtocolInit == Init => ProtocolState
<1> SUFFICES ASSUME Init PROVE ProtocolState
  OBVIOUS
<1> USE CoherenceAssumption DEF CoherenceAssumption
<1>1. TypeOK
  <2>1. ZeroClock \in Clocks /\ [x \in Lines |-> 0] \in Versions
    BY DEF ZeroClock, Clocks, Versions
  <2>2. /\ mem \in Versions /\ cache \in [Nodes -> Versions] /\ modified \in [Nodes -> SUBSET Lines]
        /\ flushing \in [Nodes -> SUBSET Lines] /\ inv_cls \in [Nodes -> SUBSET Lines]
        /\ build \in Builds
    BY <2>1 DEF Init
  <2>3. /\ log \in [Nodes -> Seq(Entries)] /\ head \in [Nodes -> Clocks] /\ clock \in [Nodes -> Clocks]
        /\ log_head_mtx \in [Nodes -> Threads \cup Nodes \cup {None}]
        /\ apc \in [Nodes -> {"off", "batch", "unlock"}]
        /\ asrc \in [Nodes -> Nodes] /\ aclk \in [Nodes -> Nat]
        /\ acnt \in [Nodes -> 0 .. LOG_MAX_BATCH]
    BY <2>1 DEF Init
  <2>4. /\ pc \in [Threads -> Labels] /\ op \in [Threads -> Operations]
        /\ obj \in [Threads -> Locs \cup Lines \cup Threads \cup {None}]
        /\ recent_cl \in [Threads -> Lines \cup {None}]
        /\ dirty_cls \in [Threads -> SUBSET Lines]
    BY DEF Init, Labels, Operations
  <2>5. /\ thread_clock \in [Threads -> Clocks] /\ pos \in [Threads -> Nat]
        /\ target \in [Threads -> Clocks] /\ node_done \in [Threads -> SUBSET Nodes]
        /\ src \in [Threads -> Nodes] /\ clk \in [Threads -> Nat]
        /\ ops \in [Threads -> Nat] /\ \A t \in Threads : ops[t] <= MaxOps[t]
    BY <2>1 DEF Init
  <2>6. /\ loc_clock \in [Locs -> Clocks] /\ owner \in [Locks -> Threads \cup {None}]
        /\ readers \in [SharedMutexes -> SUBSET Threads] /\ latest \in Versions
        /\ seen \in [Threads -> Versions] /\ loc_seen \in [Locs -> Versions]
        /\ got \in [Threads -> Versions] /\ read_seen \in [SharedMutexes -> Versions]
    BY <2>1 DEF Init
  <2>7. QED
    BY <2>2, <2>3, <2>4, <2>5, <2>6 DEF TypeOK
<1>2. \A t \in Threads : /\ pc[t] \in {"run", "unborn"} /\ op[t] = None /\ obj[t] = None
                         /\ recent_cl[t] = None /\ dirty_cls[t] = {}
  BY DEF Init
<1>3. ControlInv
  <2>1. OpInv /\ ObjInv /\ TableInv
    BY <1>2 DEF OpInv, ObjInv, ObjOf, TableInv, TableOf, Acquiring, Releases, AtomicOps, None
  <2>2. WriterInv
    BY DEF Init, WriterInv, Locks
  <2>3. QED
    BY <2>1, <2>2 DEF ControlInv
<1>4. /\ \A n \in Nodes : apc[n] = "off" /\ aclk[n] = 0 /\ log_head_mtx[n] = None
      /\ \A n, i \in Nodes : head[n][i] = 0 /\ clock[n][i] = 0
  BY DEF Init, ZeroClock
<1>5. MutexInv
  BY <1>2, <1>4 DEF MutexInv
<1>6. ClockInv
  BY <1>2, <1>4 DEF ClockInv, IsLast
<1>7. LogInv
  BY <1>1, <1>4 DEF LogInv, TypeOK
<1>8. ClaimInv
  BY <1>2 DEF ClaimInv
<1>9. NamesInv
  BY DEF Init, ZeroClock, NamesInv, Names
<1>10. QED
  BY <1>1, <1>3, <1>5, <1>6, <1>7, <1>8, <1>9 DEF ProtocolState, ProtocolInv

(* A step that changes nothing keeps it.                                   *)
LEMMA ProtocolStutter == ProtocolState /\ UNCHANGED vars => ProtocolState'
<1> SUFFICES ASSUME ProtocolState, UNCHANGED vars PROVE ProtocolState'
  OBVIOUS
<1> USE DEF vars, hwVars, invVars, logVars, agentVars, storeVars, helpVars, syncVars, histVars
<1>1. TypeOK'
  BY DEF ProtocolState, TypeOK
<1>2. ControlInv'
  BY DEF ProtocolState, ControlInv, OpInv, ObjInv, ObjOf, WriterInv, TableInv, TableOf, Acquiring
<1>3. MutexInv' /\ ClockInv'
  BY DEF ProtocolState, ProtocolInv, MutexInv, ClockInv, Consuming, IsLast, CONSUME_HELPING
<1>4. LogInv' /\ ClaimInv' /\ NamesInv'
  BY DEF ProtocolState, ProtocolInv, LogInv, ClaimInv, NamesInv, Names
<1>5. QED
  BY <1>1, <1>2, <1>3, <1>4 DEF ProtocolState, ProtocolInv

(* So does every step.                                                     *)
LEMMA ProtocolStep == ProtocolState /\ [Next]_vars => ProtocolState'
<1>1. ASSUME ProtocolState, Next PROVE ProtocolState'
  <2>1. TypeOK /\ ControlInv /\ OpInv /\ ObjInv /\ MutexInv /\ ClockInv /\ LogInv /\ ClaimInv /\ NamesInv
    BY <1>1 DEF ProtocolState, ProtocolInv, ControlInv
  <2>2. TypeOK' /\ ControlInv'
    BY <1>1, <2>1, TypeStep, ControlStep
  <2>3. MutexInv' /\ LogInv' /\ ClaimInv' /\ NamesInv'
    BY <1>1, <2>1, MutexInvStep, LogInvStep, ClaimInvStep, NamesInvStep
  <2>4. ClockInv'
    BY <1>1, <2>1, <2>2, ClockInvStep
  <2>5. QED
    BY <2>2, <2>3, <2>4 DEF ProtocolState, ProtocolInv
<1>2. QED
  BY <1>1, ProtocolStutter

(* In every build, the types, the control of the threads, the mutex, the   *)
(* logs and the clocks are as the invariant says in every reachable state. *)
THEOREM ProtocolStateAlways == Spec => []ProtocolState
BY ProtocolInit, ProtocolStep, PTL DEF Spec

(* Clocks and versions count, batches stay within LOG_MAX_BATCH, control    *)
(* stays within the steps of the library, whatever the build.              *)
THEOREM TypesHold == Spec => []TypeOK
<1>1. ProtocolState => TypeOK
  BY DEF ProtocolState
<1>2. QED
  BY <1>1, ProtocolStateAlways, PTL

(* The clock that an object hands out names published release entries, so  *)
(* that help_consume and wait_for_consume have something to wait for.      *)
THEOREM ClocksNameReleases == Spec => []ClockNamesRelease
<1>1. ProtocolState => ClockNamesRelease
  BY DEF ProtocolState, ProtocolInv, NamesInv, Names, ClockNamesRelease
<1>2. QED
  BY <1>1, ProtocolStateAlways, PTL

(* While nobody consumes, the cache clock is the last release consumed.    *)
THEOREM ClocksAreLastReleases == Spec => []ClockIsLastRelease
<1>1. ASSUME ProtocolState PROVE ClockIsLastRelease
  <2> SUFFICES ASSUME NEW n \in Nodes, NEW i \in Nodes, log_head_mtx[n] = None
               PROVE  clock[n][i] = LastRelease(n, i)
    BY DEF ClockIsLastRelease
  <2>0. clock[n][i] \in Nat /\ head[n][i] \in Nat
    BY <1>1 DEF ProtocolState, TypeOK, Clocks
  <2>1. ~Consuming(n, i)
    BY <1>1, CoherenceAssumption DEF ProtocolState, ProtocolInv, MutexInv, Consuming, CoherenceAssumption
  <2>2. IsLast(n, i, clock[n][i])
    BY <1>1, <2>1 DEF ProtocolState, ProtocolInv, ClockInv
  <2> DEFINE rels == {k \in 1 .. head[n][i] : log[i][k].is_rel}
  <2>3. \A k \in rels : k <= clock[n][i]
    BY <2>2 DEF IsLast
  <2>4. CASE clock[n][i] = 0
    <3>1. rels = {}
      BY <2>0, <2>3, <2>4
    <3>2. QED
      BY <2>4, <3>1 DEF LastRelease
  <2>5. CASE clock[n][i] # 0
    <3>1. clock[n][i] \in rels
      BY <2>0, <2>2, <2>5 DEF IsLast
    <3>2. rels # {} /\ \A k \in rels : (\A j \in rels : j <= k) => k = clock[n][i]
      BY <2>0, <2>3, <3>1
    <3>3. (CHOOSE k \in rels : \A j \in rels : j <= k) = clock[n][i]
      BY <2>3, <3>1, <3>2
    <3>4. QED
      BY <3>2, <3>3 DEF LastRelease
  <2>6. QED
    BY <2>4, <2>5
<1>2. QED
  BY <1>1, ProtocolStateAlways, PTL

(* A cache clock never moves back, whoever writes it.                      *)
THEOREM ClocksMoveForward == Spec => ClockForward
<1>1. ASSUME ProtocolState, [Next]_vars, NEW n \in Nodes, NEW i \in Nodes
      PROVE  clock'[n][i] >= clock[n][i]
  <2>1. TypeOK /\ ClockInv /\ clock[n][i] \in Nat
    BY <1>1 DEF ProtocolState, ProtocolInv, TypeOK, Clocks
  <2>2. CASE clock'[n][i] = clock[n][i]
    BY <2>1, <2>2
  <2>3. CASE Next /\ clock'[n][i] # clock[n][i]
    <3>1. ASSUME NEW t \in Threads, pc[t] = "help", NodeOf[t] = n, src[t] = i, clock'[n][i] = clk[t]
          PROVE  clock'[n][i] >= clock[n][i]
      BY <2>1, <3>1 DEF ClockInv, TypeOK
    <3>2. ASSUME apc[n] = "batch", asrc[n] = i, aclk[n] # 0, clock'[n][i] = aclk[n]
          PROVE  clock'[n][i] >= clock[n][i]
      BY <2>1, <3>2 DEF ClockInv, TypeOK
    <3>3. QED
      BY <2>1, <2>3, <3>1, <3>2, WhoUpdates
  <2>4. QED
    BY <1>1, <2>2, <2>3 DEF vars
<1>2. ProtocolState /\ [Next]_vars => [\A n, i \in Nodes : clock'[n][i] >= clock[n][i]]_vars
  BY <1>1
<1>3. QED
  BY <1>2, ProtocolStateAlways, PTL DEF Spec, ClockForward
===============================================================================
