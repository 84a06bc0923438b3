------------------------------ MODULE FifoQueue -------------------------------
(* A queue with atomic operations, which is how LogManager uses its free   *)
(* list: a value is appended, the oldest value is taken, and a taken value *)
(* is delivered to the thread that took it.                                *)
EXTENDS Sequences

CONSTANTS Consumers, Values, None

VARIABLES
  queue,
  taken     \* what each consumer has taken and not handed on, or None

vars == <<queue, taken>>

Init == queue = <<>> /\ taken = [c \in Consumers |-> None]

Enqueue ==
  /\ \E v \in Values : queue' = Append(queue, v)
  /\ UNCHANGED taken

Dequeue(c) ==
  /\ queue # <<>>
  /\ taken[c] = None
  /\ taken' = [taken EXCEPT ![c] = Head(queue)]
  /\ queue' = Tail(queue)

HandOn(c) ==
  /\ taken[c] # None
  /\ taken' = [taken EXCEPT ![c] = None]
  /\ UNCHANGED queue

Next == Enqueue \/ \E c \in Consumers : Dequeue(c) \/ HandOn(c)

Spec == Init /\ [][Next]_vars
===============================================================================
