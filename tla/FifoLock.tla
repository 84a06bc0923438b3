------------------------------- MODULE FifoLock -------------------------------
(* What a lock promises its users: threads queue for it, it is granted to  *)
(* the first of the queue when nobody has it, and its holder leaves the    *)
(* queue.  LogManager and Coherence use gc_mtx and the log head mutex as   *)
(* locks of this kind.                                                     *)
EXTENDS Integers, Sequences

CONSTANT Threads

VARIABLES
  queue,    \* threads that asked for the lock, the holder among them
  holders   \* threads that have it

vars == <<queue, holders>>

Init == queue = <<>> /\ holders = {}

Queued(t) == \E i \in 1 .. Len(queue) : queue[i] = t

Request(t) ==
  /\ ~Queued(t)
  /\ queue' = Append(queue, t)
  /\ UNCHANGED holders

Grant ==
  /\ queue # <<>>
  /\ holders = {}
  /\ holders' = {Head(queue)}
  /\ UNCHANGED queue

Release(t) ==
  /\ holders = {t}
  /\ holders' = {}
  /\ queue' = Tail(queue)

Next == Grant \/ \E t \in Threads : Request(t) \/ Release(t)

Spec == Init /\ [][Next]_vars
===============================================================================
