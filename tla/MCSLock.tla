------------------------------- MODULE MCSLock --------------------------------
(***************************************************************************)
(* The queue lock of include/mcsLock.hpp: waiting threads form a list of   *)
(* nodes, each spins on its own node and is released by its predecessor.   *)
(* lock() and try_lock() allocate the node, unlock() finds it in the       *)
(* owner field and frees it, so a node is reused while slower threads may  *)
(* still hold pointers to it.  One action is one access to shared memory.  *)
(***************************************************************************)
EXTENDS Integers, Sequences, FiniteSets

CONSTANTS
  Threads,
  Pool        \* the memory of the allocator, enough for a node per thread

Null == "null"

ASSUME MCSLockAssumption ==
  /\ IsFiniteSet(Threads) /\ IsFiniteSet(Pool)
  /\ Cardinality(Pool) >= Cardinality(Threads)
  /\ Null \notin Pool

VARIABLES
  tail, owner,       \* of the lock
  next, locked,      \* fields of the nodes
  free,              \* nodes that are not allocated
  pc, node, pred, succ,   \* thread: control, its node, the local variables
                          \* predecessor and next
  queue              \* history: threads in the order of their exchange on
                     \* tail, until they pass the lock on

vars == <<tail, owner, next, locked, free, pc, node, pred, succ, queue>>

Init ==
  /\ tail = Null
  /\ owner = Null
  /\ next = [n \in Pool |-> Null]
  /\ locked = [n \in Pool |-> FALSE]
  /\ free = Pool
  /\ pc = [t \in Threads |-> "idle"]
  /\ node = [t \in Threads |-> Null]
  /\ pred = [t \in Threads |-> Null]
  /\ succ = [t \in Threads |-> Null]
  /\ queue = <<>>

Goto(t, l) == pc' = [pc EXCEPT ![t] = l]

(* A new node is private until it is in the list.                          *)
NewNode(t) ==
  \E n \in free :
    /\ free' = free \ {n}
    /\ node' = [node EXCEPT ![t] = n]
    /\ next' = [next EXCEPT ![n] = Null]
    /\ locked' = [locked EXCEPT ![n] = TRUE]

-----------------------------------------------------------------------------
(* lock.                                                                   *)

Lock(t) ==
  /\ pc[t] = "idle"
  /\ NewNode(t)
  /\ Goto(t, "exchange")
  /\ UNCHANGED <<tail, owner, pred, succ, queue>>

(* tail.exchange(node).                                                    *)
mutExchange(t) ==
  /\ pc[t] = "exchange"
  /\ tail = Null
  /\ tail' = node[t]
  /\ queue' = Append(queue, t)
  /\ Goto(t, "own")
  /\ UNCHANGED <<owner, next, locked, free, node, pred, succ>>

Exchange(t) ==
  /\ pc[t] = "exchange"
  /\ pred' = [pred EXCEPT ![t] = tail]
  /\ tail' = node[t]
  /\ queue' = Append(queue, t)
  /\ Goto(t, IF tail = Null THEN "own" ELSE "link")
  /\ UNCHANGED <<owner, next, locked, free, node, succ>>

Link(t) ==
  /\ pc[t] = "link"
  /\ next' = [next EXCEPT ![pred[t]] = node[t]]
  /\ Goto(t, "wait")
  /\ UNCHANGED <<tail, owner, locked, free, node, pred, succ, queue>>

Wait(t) ==
  /\ pc[t] = "wait"
  /\ ~locked[node[t]]
  /\ Goto(t, "own")
  /\ UNCHANGED <<tail, owner, next, locked, free, node, pred, succ, queue>>

(* owner = node, the lock is held.                                         *)
Own(t) ==
  /\ pc[t] = "own"
  /\ owner' = node[t]
  /\ pred' = [pred EXCEPT ![t] = Null]
  /\ Goto(t, "held")
  /\ UNCHANGED <<tail, next, locked, free, node, succ, queue>>

-----------------------------------------------------------------------------
(* try_lock.  It gives up at once when tail is set, which changes nothing; *)
(* otherwise it allocates a node and tries to install it.                  *)

TryLock(t) ==
  /\ pc[t] = "idle"
  /\ tail = Null
  /\ NewNode(t)
  /\ Goto(t, "cas")
  /\ UNCHANGED <<tail, owner, pred, succ, queue>>

mutTryFree == TRUE

(* compare_exchange_strong of tail with nullptr succeeds.                  *)
TryFree == tail = Null

TryCas(t) ==
  /\ pc[t] = "cas"
  /\ \/ /\ TryFree
        /\ tail' = node[t]
        /\ queue' = Append(queue, t)
        /\ Goto(t, "own")
     \/ /\ ~TryFree
        /\ Goto(t, "free")
        /\ UNCHANGED <<tail, queue>>
  /\ UNCHANGED <<owner, next, locked, free, node, pred, succ>>

-----------------------------------------------------------------------------
(* unlock.                                                                 *)

(* The node is found in the owner field.                                   *)
Unlock(t) ==
  /\ pc[t] = "held"
  /\ node' = [node EXCEPT ![t] = owner]
  /\ Goto(t, "load_next")
  /\ UNCHANGED <<tail, owner, next, locked, free, pred, succ, queue>>

LoadNext(t) ==
  /\ pc[t] = "load_next"
  /\ succ' = [succ EXCEPT ![t] = next[node[t]]]
  /\ Goto(t, IF next[node[t]] = Null THEN "cas_tail" ELSE "pass")
  /\ UNCHANGED <<tail, owner, next, locked, free, node, pred, queue>>

(* Nobody follows: tail goes back to nullptr, unless a thread has just     *)
(* exchanged it.                                                           *)
mutCasTail(t) ==
  /\ pc[t] = "cas_tail"
  /\ tail' = Null
  /\ queue' = Tail(queue)
  /\ Goto(t, "free")
  /\ UNCHANGED <<owner, next, locked, free, node, pred, succ>>

CasTail(t) ==
  /\ pc[t] = "cas_tail"
  /\ \/ /\ tail = node[t]
        /\ tail' = Null
        /\ queue' = Tail(queue)
        /\ Goto(t, "free")
     \/ /\ tail # node[t]
        /\ Goto(t, "await_next")
        /\ UNCHANGED <<tail, queue>>
  /\ UNCHANGED <<owner, next, locked, free, node, pred, succ>>

(* The loop waits until the successor has linked itself.                   *)
AwaitNext(t) ==
  /\ pc[t] = "await_next"
  /\ next[node[t]] # Null
  /\ succ' = [succ EXCEPT ![t] = next[node[t]]]
  /\ Goto(t, "pass")
  /\ UNCHANGED <<tail, owner, next, locked, free, node, pred, queue>>

(* next->locked.store(false): the lock belongs to the successor.           *)
Pass(t) ==
  /\ pc[t] = "pass"
  /\ locked' = [locked EXCEPT ![succ[t]] = FALSE]
  /\ queue' = Tail(queue)
  /\ Goto(t, "free")
  /\ UNCHANGED <<tail, owner, next, free, node, pred, succ>>

Free(t) ==
  /\ pc[t] = "free"
  /\ free' = free \cup {node[t]}
  /\ node' = [node EXCEPT ![t] = Null]
  /\ succ' = [succ EXCEPT ![t] = Null]
  /\ Goto(t, "idle")
  /\ UNCHANGED <<tail, owner, next, locked, pred, queue>>

-----------------------------------------------------------------------------
Next ==
  \E t \in Threads :
    \/ Lock(t) \/ TryLock(t)
    \/ Exchange(t) \/ Link(t) \/ Wait(t) \/ Own(t) \/ TryCas(t)
    \/ Unlock(t) \/ LoadNext(t) \/ CasTail(t) \/ AwaitNext(t) \/ Pass(t)
    \/ Free(t)

Spec == Init /\ [][Next]_vars

-----------------------------------------------------------------------------
Labels == {"idle", "exchange", "link", "wait", "own", "cas", "held",
           "load_next", "cas_tail", "await_next", "pass", "free"}

(* Pointers are nodes of the allocator or null, threads are where lock,    *)
(* try_lock and unlock can be.                                             *)
TypeOK ==
  /\ tail \in Pool \cup {Null}
  /\ owner \in Pool \cup {Null}
  /\ next \in [Pool -> Pool \cup {Null}]
  /\ locked \in [Pool -> BOOLEAN]
  /\ free \subseteq Pool
  /\ pc \in [Threads -> Labels]
  /\ node \in [Threads -> Pool \cup {Null}]
  /\ pred \in [Threads -> Pool \cup {Null}]
  /\ succ \in [Threads -> Pool \cup {Null}]
  /\ queue \in Seq(Threads)

(* The lock is held from the end of lock() until it is passed on.          *)
Holding(t) == pc[t] \in {"own", "held", "load_next", "cas_tail", "await_next", "pass"}

(* Mutual exclusion, although a thread that unlocks decides on a value of  *)
(* node->next and of tail that others are changing.                        *)
MutualExclusion == \A t, u \in Threads : Holding(t) /\ Holding(u) => t = u

(* No access to a node that was freed or that another thread has allocated *)
(* since: the predecessor a thread links to and the successor it passes    *)
(* the lock to are nodes of threads that still wait for this very access.  *)
NodesAlive ==
  /\ tail \notin free
  /\ \A t \in Threads :
       /\ pc[t] # "idle" => node[t] \in Pool \ free
       /\ pc[t] = "link" =>
            \E u \in Threads \ {t} : node[u] = pred[t] /\ (Holding(u) \/ pc[u] \in {"link", "wait"})
       /\ pc[t] = "pass" =>
            \E u \in Threads \ {t} : node[u] = succ[t] /\ pc[u] = "wait"

(* Refinement: a queue lock.                                               *)
absHolders == {t \in Threads : Holding(t) /\ pc[t] # "own"}

Abs == INSTANCE FifoLock WITH holders <- absHolders

(* The lock is granted in the order of the exchanges on tail, to one       *)
(* thread at a time.                                                       *)
Fifo == Abs!Spec
===============================================================================
