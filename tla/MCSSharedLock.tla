----------------------------- MODULE MCSSharedLock ----------------------------
(***************************************************************************)
(* The readers-writer lock of include/mcsLock.hpp: an MCSLock, wlock, and a *)
(* count of the readers inside.  A reader takes wlock, counts itself and    *)
(* leaves wlock at once; a writer takes wlock, waits until the count is    *)
(* zero and keeps wlock.  In one behaviour the object is such a lock or a   *)
(* plain MCSLock, whose steps are those of the module extended here.       *)
(***************************************************************************)
EXTENDS MCSLock

VARIABLES
  shared,          \* the object is an MCSSharedLock
  active_readers,
  mode             \* what the thread wants or has: "none", "reader",
                   \* "reading", "waiting", "writing"

sharedVars == <<shared, active_readers, mode>>
allVars    == <<vars, sharedVars>>

SharedInit ==
  /\ Init
  /\ shared \in BOOLEAN
  /\ active_readers = 0
  /\ mode = [t \in Threads |-> "none"]

SetMode(t, m) == mode' = [mode EXCEPT ![t] = m]

(* The plain lock.                                                         *)
PlainStarts(t) ==
  /\ ~shared
  /\ Lock(t) \/ TryLock(t)
  /\ UNCHANGED sharedVars

PlainUnlock(t) ==
  /\ ~shared
  /\ Unlock(t)
  /\ UNCHANGED sharedVars

(* The steps of lock_with_node, unlock_with_node and the deallocation,      *)
(* which are the same for all.                                             *)
NodeStep(t) ==
  /\ \/ Exchange(t) \/ Link(t) \/ Wait(t) \/ Own(t) \/ TryCas(t)
     \/ LoadNext(t) \/ CasTail(t) \/ AwaitNext(t) \/ Pass(t) \/ Free(t)
  /\ UNCHANGED sharedVars

-----------------------------------------------------------------------------
(* lock_shared and unlock_shared.                                          *)

LockShared(t) ==
  /\ shared /\ mode[t] = "none"
  /\ Lock(t)
  /\ SetMode(t, "reader")
  /\ UNCHANGED <<shared, active_readers>>

(* What a reader does to the count once it has wlock.                      *)
mutCountReader == active_readers
CountReader == active_readers + 1

(* The reader counts itself and goes on to unlock_with_node(node).         *)
EnterShared(t) ==
  /\ pc[t] = "held" /\ mode[t] = "reader"
  /\ active_readers' = CountReader
  /\ SetMode(t, "reading")
  /\ Goto(t, "load_next")
  /\ UNCHANGED <<tail, owner, next, locked, free, node, pred, succ, queue, shared>>

UnlockShared(t) ==
  /\ pc[t] = "idle" /\ mode[t] = "reading"
  /\ active_readers' = active_readers - 1
  /\ SetMode(t, "none")
  /\ UNCHANGED <<vars, shared>>

-----------------------------------------------------------------------------
(* lock and unlock of a writer.                                            *)

LockExclusive(t) ==
  /\ shared /\ mode[t] = "none"
  /\ Lock(t)
  /\ SetMode(t, "waiting")
  /\ UNCHANGED <<shared, active_readers>>

(* The loop on active_readers, with wlock held.                            *)
mutReadersGone == TRUE
ReadersGone == active_readers = 0

EnterExclusive(t) ==
  /\ pc[t] = "held" /\ mode[t] = "waiting"
  /\ ReadersGone
  /\ SetMode(t, "writing")
  /\ UNCHANGED <<vars, shared, active_readers>>

(* The node is wlock.owner.                                                *)
UnlockExclusive(t) ==
  /\ mode[t] = "writing"
  /\ Unlock(t)
  /\ SetMode(t, "none")
  /\ UNCHANGED <<shared, active_readers>>

-----------------------------------------------------------------------------
Starts(t) == PlainStarts(t) \/ LockShared(t) \/ LockExclusive(t)

Proceeds(t) ==
  \/ NodeStep(t) \/ PlainUnlock(t)
  \/ EnterShared(t) \/ UnlockShared(t) \/ EnterExclusive(t) \/ UnlockExclusive(t)

SharedNext == \E t \in Threads : Starts(t) \/ Proceeds(t)

SharedSpec == SharedInit /\ [][SharedNext]_allVars

(* Threads are scheduled and leave their critical sections.                *)
SharedFairSpec == SharedSpec /\ \A t \in Threads : WF_allVars(Proceeds(t))

-----------------------------------------------------------------------------
(* The count is that of the readers inside, and only a writer that holds   *)
(* wlock is inside.                                                        *)
SharedTypeOK ==
  /\ TypeOK
  /\ shared \in BOOLEAN
  /\ mode \in [Threads -> {"none", "reader", "reading", "waiting", "writing"}]
  /\ active_readers = Cardinality({t \in Threads : mode[t] = "reading"})

(* A writer inside is alone, although a reader takes part in wlock only    *)
(* while it enters: the writer's look at active_readers must not miss a     *)
(* reader that has just counted itself or is about to.                     *)
WriterAlone ==
  \A w, r \in Threads : mode[w] = "writing" =>
    mode[r] # "reading" /\ (mode[r] = "writing" => r = w)

(* Who called lock or lock_shared gets in: no hand-over is lost between    *)
(* the exchange of tail and the link to the predecessor, a waiting writer  *)
(* keeps wlock, which stops new readers, and the readers inside need no    *)
(* lock to leave.                                                          *)
Inside(t) == IF shared THEN mode[t] \in {"reading", "writing"} ELSE pc[t] = "held"

LockObtained == \A t \in Threads : pc[t] = "exchange" ~> Inside(t)
===============================================================================
