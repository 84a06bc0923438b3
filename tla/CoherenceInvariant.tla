-------------------------- MODULE CoherenceInvariant --------------------------
(***************************************************************************)
(* The inductive invariant of module Coherence, for the builds in which a  *)
(* consumer's invalidations complete before its clock moves and for        *)
(* programs that do not take unlock_shared for a release.                  *)
(*                                                                         *)
(* Its core is coverage: whatever version of a line a clock stands for, a   *)
(* node either has it, or has marked the line, or has a log entry with the  *)
(* line still to consume that this clock names.                            *)
(***************************************************************************)
EXTENDS Coherence

(* The setting.  CLFLUSHOPT lets a helping consumer's clock overtake its   *)
(* invalidations (run CoherenceFence), and readers overwrite what earlier   *)
(* readers left in the clock of a CXLSharedMutex.                          *)
Ordered ==
  /\ CONSUME_HELPING /\ EAGER_INVALIDATE => INVALIDATE_INST = "CLFLUSH"
  /\ ~ReadersRelease

-----------------------------------------------------------------------------
(* Control of the threads.                                                 *)

Acquiring(t) == pc[t] \in {"acquire", "try_lock", "help", "help_unlock"}

AtomicOps  == {"store", "fetch_add_rel", "fetch_add"}
Releases   == AtomicOps \cup {"unlock", "unlock_shared", "create", "exit"}

(* The operation a thread is in, from where it is.                         *)
OpInv ==
  \A t \in Threads :
    /\ pc[t] \in {"run", "check", "unborn"} => op[t] = None
    /\ pc[t] \in {"claim", "publish"} => op[t] \in Releases \cup {"insert"}
    /\ pc[t] \in Releases \cup {"insert"} => op[t] = pc[t]
    /\ pc[t] = "joined" => op[t] = "exit"
    /\ Acquiring(t) => op[t] \in {None, "upgrade"}
    /\ pc[t] \in {"upgrade", "wlock", "drain"} => op[t] = "upgrade"

(* Its object, and what it holds of it.                                    *)
ObjOf(t) ==
  /\ op[t] = "insert" => obj[t] \in Lines
  /\ op[t] \in AtomicOps => obj[t] \in Atomics
  /\ op[t] = "unlock" => obj[t] \in Locks /\ owner[obj[t]] = t
  /\ op[t] = "unlock_shared" => obj[t] \in SharedMutexes /\ t \in readers[obj[t]]
  /\ op[t] = "upgrade" =>
       /\ obj[t] \in SharedMutexes
       /\ Acquiring(t) \/ pc[t] = "upgrade" => t \in readers[obj[t]]
       /\ pc[t] = "drain" => owner[obj[t]] = t
  /\ op[t] = "create" =>
       /\ obj[t] \in DOMAIN ParentOf /\ ParentOf[obj[t]] = t
       /\ pc[obj[t]] = "unborn"
  /\ pc[t] = "check" => obj[t] \in Lines
  /\ Acquiring(t) =>
       \/ obj[t] = None
       \/ obj[t] \in Threads
       \/ obj[t] \in Locks /\ owner[obj[t]] = t
       \/ obj[t] \in SharedMutexes /\ t \in readers[obj[t]]

ObjInv == \A t \in Threads : ObjOf(t)

(* A writer of a CXLSharedMutex that is past its wait excludes readers.    *)
WriterInv ==
  \A m \in SharedMutexes : owner[m] # None =>
    readers[m] = {} \/ (pc[owner[m]] = "drain" /\ obj[owner[m]] = m)

(* The recorded lines, and the most recent one, which is forgotten when a   *)
(* release begins.                                                         *)
TableOf(t) ==
  /\ pc[t] = "unborn" \/ op[t] \in Releases => recent_cl[t] = None
  /\ recent_cl[t] = None /\ pc[t] \notin {"claim", "publish"} => dirty_cls[t] = {}
  /\ recent_cl[t] # None /\ op[t] # "insert" => recent_cl[t] \in dirty_cls[t]
  /\ op[t] = "insert" => recent_cl[t] = obj[t] /\ obj[t] \notin dirty_cls[t]

TableInv == \A t \in Threads : TableOf(t)

ControlInv == OpInv /\ ObjInv /\ WriterInv /\ TableInv

-----------------------------------------------------------------------------
(* The log head mutex and what it protects.                                *)
MutexInv ==
  /\ \A n \in Nodes : log_head_mtx[n] = n <=> apc[n] # "off"
  /\ \A t \in Threads, n \in Nodes :
       log_head_mtx[n] = t <=> NodeOf[t] = n /\ pc[t] \in {"help", "help_unlock"}
  /\ \A t \in Threads : pc[t] \in {"try_lock", "help", "help_unlock"} => CONSUME_HELPING

(* c is the idx of the last release among the logs of i that n consumed.   *)
IsLast(n, i, c) ==
  /\ c <= head[n][i]
  /\ c # 0 => log[i][c].is_rel
  /\ \A k \in 1 .. head[n][i] : log[i][k].is_rel => k <= c

(* The logs of i that node n is consuming now.                             *)
Consuming(n, i) ==
  \/ apc[n] = "batch" /\ asrc[n] = i
  \/ \E t \in Threads : NodeOf[t] = n /\ pc[t] = "help" /\ src[t] = i

(* A cache clock is the last release that was consumed, or who consumes    *)
(* knows the value it is to move to.                                       *)
ClockInv ==
  /\ \A n, i \in Nodes :
       /\ clock[n][i] <= head[n][i]
       /\ ~Consuming(n, i) => IsLast(n, i, clock[n][i])
  /\ \A n \in Nodes :
       /\ apc[n] = "off" => aclk[n] = 0
       /\ apc[n] = "batch" /\ aclk[n] = 0 => IsLast(n, asrc[n], clock[n][asrc[n]])
       /\ apc[n] = "batch" /\ aclk[n] # 0 =>
            clock[n][asrc[n]] <= aclk[n] /\ IsLast(n, asrc[n], aclk[n])
  /\ \A t \in Threads : pc[t] = "help" =>
       clock[NodeOf[t]][src[t]] <= clk[t] /\ IsLast(NodeOf[t], src[t], clk[t])

(* Nothing is consumed before it is published.                             *)
LogInv ==
  \A n, i \in Nodes :
    /\ head[n][i] <= Len(log[i])
    /\ \A k \in 1 .. head[n][i] : log[i][k].published

(* A claimed entry.                                                        *)
ClaimInv ==
  /\ \A t \in Threads : pc[t] = "publish" =>
       /\ pos[t] \in 1 .. Len(log[NodeOf[t]])
       /\ log[NodeOf[t]][pos[t]].lines = dirty_cls[t]
       /\ log[NodeOf[t]][pos[t]].is_rel = (op[t] # "insert")
       /\ ~log[NodeOf[t]][pos[t]].published
       /\ thread_clock[t][NodeOf[t]] < pos[t]
  /\ \A t, u \in Threads :
       pc[t] = "publish" /\ pc[u] = "publish" /\ NodeOf[t] = NodeOf[u] /\ t # u =>
         pos[t] # pos[u]

(* Clocks name published releases.                                         *)
Names(c, i) ==
  c # 0 => c <= Len(log[i]) /\ log[i][c].is_rel /\ log[i][c].published

NamesInv ==
  \A i \in Nodes :
    /\ \A t \in Threads : Names(thread_clock[t][i], i) /\ Names(target[t][i], i)
    /\ \A a \in Locs : Names(loc_clock[a][i], i)

ProtocolInv == MutexInv /\ ClockInv /\ LogInv /\ ClaimInv /\ NamesInv

-----------------------------------------------------------------------------
(* Versions: nothing is ahead of the stores, a line that a thread has       *)
(* stored to and not published is known to nobody else.                    *)
Private(t, x) == x \in dirty_cls[t] \/ StorePending(t, x)

BoundInv ==
  \A x \in Lines :
    /\ mem[x] <= latest[x]
    /\ \A n \in Nodes : cache[n][x] <= latest[x]
    /\ \A t \in Threads : seen[t][x] <= latest[x]

PrivateInv ==
  \A t \in Threads, x \in Lines : Private(t, x) =>
    /\ seen[t][x] = latest[x] /\ latest[x] > 0
    /\ \A u \in Threads \ {t} : seen[u][x] < latest[x]
    /\ \A u \in Threads : got[u][x] < latest[x]
    /\ \A a \in Locs : loc_seen[a][x] < latest[x]
    /\ \A m \in SharedMutexes : read_seen[m][x] < latest[x]

(* A modified copy is the latest version, and its writer has it recorded.  *)
ModifiedInv ==
  \A n \in Nodes, x \in Lines : x \in modified[n] =>
    /\ cache[n][x] = latest[x]
    /\ \E t \in Threads : NodeOf[t] = n /\ x \in dirty_cls[t] /\ pc[t] # "publish"

(* Whatever is known to others is in memory.                               *)
MemoryInv ==
  \A x \in Lines :
    /\ \A t \in Threads :
         /\ got[t][x] <= mem[x]
         /\ Known(t, x) <= mem[x] \/ (x \in dirty_cls[t] /\ x \in modified[NodeOf[t]])
    /\ \A a \in Locs : loc_seen[a][x] <= mem[x]
    /\ \A m \in SharedMutexes : read_seen[m][x] <= mem[x]

(* A thread about to unmark a line has no rival, and its invalidation is    *)
(* under way or has fetched the latest version.                            *)
CheckInv ==
  \A t \in Threads : pc[t] = "check" =>
    /\ seen[t][obj[t]] = latest[obj[t]]
    /\ \A u \in Threads : ~StorePending(u, obj[t])
    /\ obj[t] \in flushing[NodeOf[t]] \/ cache[NodeOf[t]][obj[t]] = latest[obj[t]]

VersionInv == BoundInv /\ PrivateInv /\ ModifiedInv /\ MemoryInv /\ CheckInv

-----------------------------------------------------------------------------
(* Coverage.                                                               *)

(* Readers leave nothing behind that a program relies on.                  *)
ReadersInv == ~ReadersRelease => \A m \in SharedMutexes, x \in Lines : read_seen[m][x] = 0

Fresh(n, x, v) == cache[n][x] >= v \/ x \in inv_cls[n]

(* Node n has entry k of node i, with line x, still to consume, or is       *)
(* invalidating its lines.                                                 *)
Pending(n, i, k, x) ==
  /\ i # n
  /\ x \in log[i][k].lines
  /\ \/ k > head[n][i]
     \/ EAGER_INVALIDATE /\ x \in flushing[n] /\ k > clock[n][i]

(* Entry k of node i is named by the clock of the thread, or will be when   *)
(* its present release, or the next one, is published.                     *)
ThreadBound(t, i, k) ==
  \/ k <= thread_clock[t][i]
  \/ /\ i = NodeOf[t]
     /\ \/ recent_cl[t] # None
        \/ pc[t] = "claim"
        \/ pc[t] = "publish" /\ k <= pos[t]

(* ... by the clock of the object, and of every reader that may overwrite   *)
(* it.                                                                     *)
Reader(t, m) == t \in readers[m] /\ ~(Acquiring(t) /\ obj[t] = m)

LocBound(a, i, k) ==
  /\ k <= loc_clock[a][i]
  /\ a \in SharedMutexes => \A u \in Threads : Reader(u, a) => k <= thread_clock[u][i]

(* ... by the clock that the thread acquires.                              *)
TargetBound(t, i, k) ==
  /\ obj[t] = None => k <= target[t][i]
  /\ obj[t] \in Threads => k <= thread_clock[obj[t]][i]
  /\ obj[t] \in Locs => LocBound(obj[t], i, k)

(* The nodes whose logs the acquire has waited for.                        *)
Done(t) == node_done[t] \cup (IF pc[t] = "help_unlock" THEN {src[t]} ELSE {})

ThreadCover ==
  \A t \in Threads, n \in Nodes, x \in Lines :
    \/ Private(t, x)
    \/ Fresh(n, x, seen[t][x])
    \/ \E i \in Nodes : \E k \in 1 .. Len(log[i]) :
         Pending(n, i, k, x) /\ ThreadBound(t, i, k)

LocCover ==
  \A a \in Locs, n \in Nodes, x \in Lines :
    \/ Fresh(n, x, loc_seen[a][x])
    \/ \E i \in Nodes : \E k \in 1 .. Len(log[i]) :
         Pending(n, i, k, x) /\ LocBound(a, i, k)

TargetCover ==
  \A t \in Threads, n \in Nodes, x \in Lines : Acquiring(t) =>
    \/ Fresh(n, x, got[t][x])
    \/ \E i \in Nodes : \E k \in 1 .. Len(log[i]) :
         /\ Pending(n, i, k, x) /\ TargetBound(t, i, k)
         /\ n = NodeOf[t] => i \notin Done(t)

CoverInv == ThreadCover /\ LocCover /\ TargetCover

(* The inductive invariant.                                                *)
CoherenceInv ==
  /\ ControlInv
  /\ ProtocolInv
  /\ VersionInv
  /\ ReadersInv
  /\ CoverInv
  /\ NoStaleRead
===============================================================================
