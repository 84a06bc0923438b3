------------------------------ MODULE SpmcQueue -------------------------------
(***************************************************************************)
(* The bounded queue of include/spmcQueue.hpp, the free list of a node's   *)
(* LogManager: S cells with a sequence number each, one enqueuer (the      *)
(* holder of gc_mtx) and any number of dequeuers.  As in LogManager the    *)
(* values are buffers: a buffer is enqueued when it is outside the queue,  *)
(* and there are not more buffers than cells.                              *)
(*                                                                         *)
(* One action is one access to shared memory.  Positions are size_t and do *)
(* not wrap in 2^64 operations; MaxPos bounds them.                        *)
(***************************************************************************)
EXTENDS Integers, Sequences, FiniteSets

CONSTANTS
  S,          \* cells, a power of two
  Buffers,    \* the values
  Consumers,  \* threads that dequeue
  MaxPos      \* bound: values enqueued

None == "none"

ASSUME SpmcQueueAssumption ==
  /\ S \in Nat /\ S >= 2
  /\ IsFiniteSet(Buffers) /\ Cardinality(Buffers) <= S
  /\ None \notin Buffers
  /\ MaxPos \in Nat

Cells == 0 .. S - 1

VARIABLES
  sequence_, data_,            \* the cells
  enqueue_pos_, dequeue_pos_,
  epc, epos, ebuf,             \* enqueuer: control, pos, data
  dpc, dpos, dbuf,             \* dequeuers: control, pos, data
  outside                      \* buffers in use

cellVars == <<sequence_, data_>>
enqVars  == <<epc, epos, ebuf, enqueue_pos_>>
deqVars  == <<dpc, dpos, dbuf, dequeue_pos_>>
vars == <<cellVars, enqVars, deqVars, outside>>

(* pos & buffer_mask_.                                                     *)
CellOf(pos) == pos % S

Init ==
  /\ sequence_ = [i \in Cells |-> i]
  /\ data_ = [i \in Cells |-> None]
  /\ enqueue_pos_ = 0
  /\ dequeue_pos_ = 0
  /\ epc = "idle" /\ epos = 0 /\ ebuf = None
  /\ dpc = [c \in Consumers |-> "idle"]
  /\ dpos = [c \in Consumers |-> 0]
  /\ dbuf = [c \in Consumers |-> None]
  /\ outside = Buffers

-----------------------------------------------------------------------------
(* enqueue, called again until it succeeds.                                *)

Enqueue ==
  /\ epc = "idle"
  /\ enqueue_pos_ < MaxPos
  /\ \E b \in outside :
       /\ ebuf' = b
       /\ outside' = outside \ {b}
  /\ epos' = enqueue_pos_
  /\ epc' = "check"
  /\ UNCHANGED <<cellVars, enqueue_pos_, deqVars>>

(* dif == 0: the cell of this position is empty.  dif < 0: the dequeuer of *)
(* the round before has not left the cell, enqueue fails and is repeated,  *)
(* which leaves the enqueuer here.                                         *)
mutCellFree == sequence_[CellOf(epos)] - epos \in {0, 1 - S}
CellFree == sequence_[CellOf(epos)] - epos = 0

EnqueueCheck ==
  /\ epc = "check"
  /\ CellFree
  /\ enqueue_pos_' = epos + 1
  /\ epc' = "write"
  /\ UNCHANGED <<cellVars, epos, ebuf, deqVars, outside>>

EnqueueWrite ==
  /\ epc = "write"
  /\ data_' = [data_ EXCEPT ![CellOf(epos)] = ebuf]
  /\ epc' = "publish"
  /\ UNCHANGED <<sequence_, epos, ebuf, enqueue_pos_, deqVars, outside>>

(* The store of sequence_ makes the value visible.                         *)
EnqueuePublish ==
  /\ epc = "publish"
  /\ sequence_' = [sequence_ EXCEPT ![CellOf(epos)] = epos + 1]
  /\ ebuf' = None
  /\ epc' = "idle"
  /\ UNCHANGED <<data_, epos, enqueue_pos_, deqVars, outside>>

-----------------------------------------------------------------------------
(* dequeue.                                                                *)

Goto(c, l) == dpc' = [dpc EXCEPT ![c] = l]

(* pos = dequeue_pos_.load, at the start and when the cell is of a later   *)
(* round.                                                                  *)
LoadPos(c) ==
  /\ dpc[c] \in {"idle", "reload"}
  /\ dpos' = [dpos EXCEPT ![c] = dequeue_pos_]
  /\ Goto(c, "check")
  /\ UNCHANGED <<cellVars, enqVars, dbuf, dequeue_pos_, outside>>

mutDif(c)     == sequence_[CellOf(dpos[c])] - dpos[c]
mutLateDif(c) == sequence_[CellOf(dpos[c])] - (dpos[c] + 2)

Dif(c) == sequence_[CellOf(dpos[c])] - (dpos[c] + 1)

DequeueCheck(c) ==
  /\ dpc[c] = "check"
  /\ Goto(c, IF Dif(c) = 0 THEN "cas" ELSE IF Dif(c) < 0 THEN "idle" ELSE "reload")
  /\ UNCHANGED <<cellVars, enqVars, dpos, dbuf, dequeue_pos_, outside>>

mutStillFirst(c) == TRUE
StillFirst(c) == dequeue_pos_ = dpos[c]

(* compare_exchange of dequeue_pos_: the value is won, or pos is the new   *)
(* position.                                                               *)
DequeueCas(c) ==
  /\ dpc[c] = "cas"
  /\ \/ /\ StillFirst(c)
        /\ dequeue_pos_' = dpos[c] + 1
        /\ Goto(c, "read")
        /\ UNCHANGED dpos
     \/ /\ ~StillFirst(c)
        /\ dpos' = [dpos EXCEPT ![c] = dequeue_pos_]
        /\ Goto(c, "check")
        /\ UNCHANGED dequeue_pos_
  /\ UNCHANGED <<cellVars, enqVars, dbuf, outside>>

DequeueRead(c) ==
  /\ dpc[c] = "read"
  /\ dbuf' = [dbuf EXCEPT ![c] = data_[CellOf(dpos[c])]]
  /\ Goto(c, "leave")
  /\ UNCHANGED <<cellVars, enqVars, dpos, dequeue_pos_, outside>>

(* The sequence number that frees the cell for the next round.             *)
mutNextRound(pos) == pos + S - 1
mutLateRound(pos) == pos + S + 1

NextRound(pos) == pos + (S - 1) + 1

(* sequence_.store; the caller has the buffer.                             *)
DequeueLeave(c) ==
  /\ dpc[c] = "leave"
  /\ sequence_' = [sequence_ EXCEPT ![CellOf(dpos[c])] = NextRound(dpos[c])]
  /\ outside' = outside \cup {dbuf[c]}
  /\ dbuf' = [dbuf EXCEPT ![c] = None]
  /\ Goto(c, "idle")
  /\ UNCHANGED <<data_, enqVars, dpos, dequeue_pos_>>

-----------------------------------------------------------------------------
EnqueueStep == EnqueueCheck \/ EnqueueWrite \/ EnqueuePublish

DequeueStep(c) ==
  DequeueCheck(c) \/ DequeueCas(c) \/ DequeueRead(c) \/ DequeueLeave(c)

Next ==
  \/ Enqueue \/ EnqueueStep
  \/ \E c \in Consumers : LoadPos(c) \/ DequeueStep(c)

Spec == Init /\ [][Next]_vars

(* The threads are scheduled; whether to call dequeue is theirs to decide. *)
Fairness ==
  /\ WF_vars(EnqueueStep)
  /\ \A c \in Consumers : WF_vars(DequeueStep(c) \/ (dpc[c] = "reload" /\ LoadPos(c)))

FairSpec == Spec /\ Fairness

-----------------------------------------------------------------------------
(* Sequence numbers are at most one round ahead of what was enqueued.      *)
Positions == 0 .. MaxPos + S

(* Nothing but buffers goes through the cells, to dequeuers and back into  *)
(* use, and no position passes the last one enqueued.                      *)
TypeOK ==
  /\ sequence_ \in [Cells -> Positions]
  /\ data_ \in [Cells -> Buffers \cup {None}]
  /\ enqueue_pos_ \in 0 .. MaxPos
  /\ dequeue_pos_ \in 0 .. MaxPos
  /\ epc \in {"idle", "check", "write", "publish"}
  /\ epos \in 0 .. MaxPos
  /\ ebuf \in Buffers \cup {None}
  /\ dpc \in [Consumers -> {"idle", "reload", "check", "cas", "read", "leave"}]
  /\ dpos \in [Consumers -> 0 .. MaxPos]
  /\ dbuf \in [Consumers -> Buffers \cup {None}]
  /\ outside \subseteq Buffers

(* The queue as its users see it: the published cells from dequeue_pos_    *)
(* on, and what a dequeuer will get from the cell it has won.              *)
Published == {p \in dequeue_pos_ .. dequeue_pos_ + S - 1 : sequence_[CellOf(p)] = p + 1}

absQueue == [k \in 1 .. Cardinality(Published) |-> data_[CellOf(dequeue_pos_ + k - 1)]]
absTaken == [c \in Consumers |-> IF dpc[c] = "read" THEN data_[CellOf(dpos[c])] ELSE dbuf[c]]

(* dequeue returns false only when the queue is empty, also when it works  *)
(* with an old position: get_new_log collects only when nothing is free.   *)
EmptyMeansEmpty ==
  \A c \in Consumers : dpc[c] = "check" /\ Dif(c) < 0 => absQueue = <<>>

(* A buffer is in one place: in use, being enqueued, in the queue or with  *)
(* one dequeuer.  None is lost or handed out twice.                        *)
Places(b) ==
  (IF b \in outside THEN 1 ELSE 0) + (IF b = ebuf THEN 1 ELSE 0)
  + Cardinality({i \in DOMAIN absQueue : absQueue[i] = b})
  + Cardinality({c \in Consumers : absTaken[c] = b})

NoneLost == \A b \in Buffers : Places(b) = 1

(* With a single enqueuer dif is never positive in enqueue: the position   *)
(* it stored without compare_exchange cannot be behind its cell.           *)
EnqueuerAlone == epc = "check" => sequence_[CellOf(epos)] <= epos

(* Refinement: a queue with atomic operations.                             *)
Abs == INSTANCE FifoQueue WITH
         Values <- Buffers, queue <- absQueue, taken <- absTaken

(* Values leave in the order of the stores to sequence_, each once: the    *)
(* enqueuer does not reuse a cell between the compare_exchange that wins   *)
(* it and the read of data_.                                               *)
Fifo == Abs!Spec

(* A failing enqueue that perform_gc repeats succeeds once the dequeuer of *)
(* the cell has gone on ("handle spurious failures from enqueue").         *)
EnqueueEnds == epc = "check" ~> epc = "idle"
===============================================================================
