--------------------------- MODULE SpmcQueue_proofs ---------------------------
(***************************************************************************)
(* Safety of the free list, for any number of cells, buffers and           *)
(* dequeuers.  The argument is where positions are: those from             *)
(* dequeue_pos_ to Tail are full, the cell of an earlier one is left or    *)
(* still held by the dequeuer that won it, and the sequence number of a    *)
(* cell says which.                                                        *)
(***************************************************************************)
EXTENDS SpmcQueue, FiniteSetTheorems, SequenceTheorems, TLAPS

-----------------------------------------------------------------------------
(* The inductive invariant.                                                *)

Writing == epc \in {"write", "publish"}
Won(c)  == dpc[c] \in {"read", "leave"}

(* The first position that is not published.                               *)
Tail_ == IF Writing THEN epos ELSE enqueue_pos_

PosInv ==
  /\ dequeue_pos_ <= Tail_ /\ Tail_ <= dequeue_pos_ + S
  /\ epc = "check" => epos = enqueue_pos_ /\ epos < MaxPos
  /\ Writing => enqueue_pos_ = epos + 1 /\ sequence_[CellOf(epos)] = epos
  /\ \A c \in Consumers :
       /\ dpos[c] <= dequeue_pos_
       /\ dpc[c] = "cas" => dpos[c] < Tail_
       /\ dpos[c] < Tail_ => sequence_[CellOf(dpos[c])] > dpos[c]

FullInv ==
  \A p \in dequeue_pos_ .. Tail_ - 1 : sequence_[CellOf(p)] = p + 1

(* A dequeuer that has won a position has it for itself, and the enqueuer  *)
(* has not come round to its cell.                                         *)
WonInv ==
  /\ \A c \in Consumers : Won(c) =>
       /\ dpos[c] < dequeue_pos_ /\ Tail_ <= dpos[c] + S
       /\ sequence_[CellOf(dpos[c])] = dpos[c] + 1
  /\ \A c, d \in Consumers : Won(c) /\ Won(d) /\ dpos[c] = dpos[d] => c = d

Held(p) == \E c \in Consumers : Won(c) /\ dpos[c] = p

(* The next round: a cell is free, or its position of this round is in the *)
(* queue or held.                                                          *)
FreeInv ==
  \A p \in Tail_ .. Tail_ + S - 1 :
    \/ sequence_[CellOf(p)] = p
    \/ /\ p >= S
       /\ sequence_[CellOf(p)] = p - S + 1
       /\ p - S >= dequeue_pos_ \/ Held(p - S)

CellInv == PosInv /\ FullInv /\ WonInv /\ FreeInv

(* What the cells and the threads have.                                    *)
Queued(p) == data_[CellOf(p)]
Taken(c)  == IF dpc[c] = "read" THEN data_[CellOf(dpos[c])] ELSE dbuf[c]

HaveInv ==
  /\ ebuf \in Buffers <=> epc # "idle"
  /\ epc = "publish" => data_[CellOf(epos)] = ebuf
  /\ \A p \in dequeue_pos_ .. Tail_ - 1 : Queued(p) \in Buffers
  /\ \A c \in Consumers : dbuf[c] \in Buffers <=> dpc[c] = "leave"
  /\ \A c \in Consumers : Taken(c) \in Buffers <=> Won(c)

(* No buffer is in two places.                                             *)
ApartInv ==
  /\ ebuf \notin outside
  /\ \A p \in dequeue_pos_ .. Tail_ - 1 :
       /\ Queued(p) \notin outside \cup {ebuf}
       /\ \A q \in dequeue_pos_ .. Tail_ - 1 : Queued(p) = Queued(q) => p = q
       /\ \A c \in Consumers : Queued(p) # Taken(c)
  /\ \A c \in Consumers : Won(c) =>
       /\ Taken(c) \notin outside \cup {ebuf}
       /\ \A d \in Consumers : Taken(c) = Taken(d) => c = d

(* Every buffer is somewhere.                                              *)
SomewhereInv ==
  \A b \in Buffers :
    \/ b \in outside \cup {ebuf}
    \/ \E p \in dequeue_pos_ .. Tail_ - 1 : Queued(p) = b
    \/ \E c \in Consumers : Taken(c) = b

PlaceInv == HaveInv /\ ApartInv /\ SomewhereInv

IInv == TypeOK /\ CellInv /\ PlaceInv

-----------------------------------------------------------------------------
(* Arithmetic of cells.                                                    *)

(* Quotient and remainder.                                                 *)
LEMMA Division ==
  ASSUME NEW a \in Int
  PROVE  a \div S \in Int /\ a % S \in 0 .. S - 1 /\ a = S * (a \div S) + (a % S)
<1>1. S \in Nat \ {0}
  BY SpmcQueueAssumption DEF SpmcQueueAssumption
<1>2. a % S \in 0 .. S - 1
  BY <1>1
<1>3. a \div S \in Int /\ a = S * (a \div S) + (a % S)
  BY <1>1
<1>4. QED
  BY <1>2, <1>3

(* A multiple of s lies strictly between 0 and s for no factor.            *)
LEMMA NoMultiple ==
  ASSUME NEW s \in Nat \ {0}, NEW q \in Int, 0 < s * q, s * q < s
  PROVE  FALSE
<1>1. CASE q <= 0
  BY <1>1
<1>2. CASE q >= 1
  BY <1>2
<1>3. QED
  BY <1>1, <1>2

(* Positions less than a round apart have different cells; a round later   *)
(* it is the same cell again.                                              *)
LEMMA CellFacts ==
  /\ \A a \in Nat : CellOf(a) \in Cells
  /\ \A a, b \in Nat : a # b /\ a < b + S /\ b < a + S => CellOf(a) # CellOf(b)
  /\ \A a \in Nat : CellOf(a + S) = CellOf(a)
<1>1. S \in Nat \ {0}
  BY SpmcQueueAssumption DEF SpmcQueueAssumption
<1>2. \A a \in Nat : CellOf(a) \in Cells
  BY Division DEF CellOf, Cells
<1>3. ASSUME NEW a \in Nat, NEW b \in Nat, a < b, b < a + S
      PROVE  a % S # b % S
  <2> DEFINE qa == a \div S
             qb == b \div S
             ra == a % S
             rb == b % S
  <2>1. qa \in Int /\ a = S * qa + ra /\ ra \in 0 .. S - 1
    BY Division
  <2>2. qb \in Int /\ b = S * qb + rb /\ rb \in 0 .. S - 1
    BY Division
  <2> SUFFICES ra # rb
    OBVIOUS
  <2> HIDE DEF qa, qb, ra, rb
  <2>3. SUFFICES ASSUME ra = rb PROVE FALSE
    OBVIOUS
  <2>4. b - a = S * (qb - qa)
    BY <1>1, <2>1, <2>2, <2>3
  <2>5. 0 < S * (qb - qa) /\ S * (qb - qa) < S /\ qb - qa \in Int
    BY <1>1, <1>3, <2>1, <2>2, <2>4
  <2>6. QED
    BY <1>1, <2>5, NoMultiple
<1>4. ASSUME NEW a \in Nat
      PROVE  (a + S) % S = a % S
  <2> DEFINE b  == a + S
             qa == a \div S
             qb == b \div S
             ra == a % S
             rb == b % S
  <2>1. qa \in Int /\ a = S * qa + ra /\ ra \in 0 .. S - 1
    BY Division
  <2>2. b \in Int /\ b = a + S
    BY <1>1
  <2> HIDE DEF b
  <2>3. qb \in Int /\ b = S * qb + rb /\ rb \in 0 .. S - 1
    BY <2>2, Division
  <2> SUFFICES ra = rb
    BY <2>2
  <2> HIDE DEF qa, qb, ra, rb
  <2>4. rb - ra = S * (qa + 1 - qb) /\ ra - rb = S * (qb - (qa + 1))
    BY <1>1, <2>1, <2>2, <2>3
  <2>5. CASE ra < rb
    BY <1>1, <2>1, <2>3, <2>4, <2>5, NoMultiple
  <2>6. CASE rb < ra
    BY <1>1, <2>1, <2>3, <2>4, <2>6, NoMultiple
  <2>7. QED
    BY <2>1, <2>3, <2>5, <2>6
<1>5. \A a, b \in Nat : a # b /\ a < b + S /\ b < a + S => CellOf(a) # CellOf(b)
  <2>1. \A a, b \in Nat : a < b /\ b < a + S => a % S # b % S
    BY <1>3
  <2>2. QED
    BY <2>1 DEF CellOf
<1>6. \A a \in Nat : CellOf(a + S) = CellOf(a)
  BY <1>4 DEF CellOf
<1>7. QED
  BY <1>2, <1>5, <1>6

-----------------------------------------------------------------------------
(* The cells.                                                              *)

(* What the steps use of the types.                                        *)
LEMMA CellTypes ==
  ASSUME TypeOK
  PROVE  /\ S \in Nat /\ S >= 2 /\ MaxPos \in Nat
         /\ enqueue_pos_ \in Nat /\ dequeue_pos_ \in Nat /\ epos \in Nat
         /\ Tail_ \in Nat
         /\ \A c \in Consumers : dpos[c] \in Nat
         /\ \A a \in Nat : sequence_[CellOf(a)] \in Nat
         /\ DOMAIN sequence_ = Cells /\ DOMAIN dpos = Consumers /\ DOMAIN dpc = Consumers
<1>1. S \in Nat /\ S >= 2 /\ MaxPos \in Nat
  BY SpmcQueueAssumption DEF SpmcQueueAssumption
<1>2. enqueue_pos_ \in Nat /\ dequeue_pos_ \in Nat /\ epos \in Nat
  BY <1>1 DEF TypeOK
<1>3. \A c \in Consumers : dpos[c] \in Nat
  BY <1>1 DEF TypeOK
<1>4. \A a \in Nat : sequence_[CellOf(a)] \in Nat
  <2>1. \A i \in Cells : sequence_[i] \in 0 .. MaxPos + S
    BY DEF TypeOK, Positions
  <2>2. QED
    BY <1>1, <2>1, CellFacts
<1>5. DOMAIN sequence_ = Cells /\ DOMAIN dpos = Consumers /\ DOMAIN dpc = Consumers
  BY DEF TypeOK
<1>6. QED
  BY <1>1, <1>2, <1>3, <1>4, <1>5 DEF Tail_

(* The enqueuer that writes a cell has it for itself: its position of the  *)
(* round before is neither in the queue nor held.                          *)
LEMMA CellIsFree ==
  ASSUME TypeOK, CellInv, Writing
  PROVE  /\ epos = Tail_ /\ epos < dequeue_pos_ + S
         /\ \A c \in Consumers : Won(c) => epos < dpos[c] + S
<1>0. /\ S \in Nat /\ S >= 2 /\ dequeue_pos_ \in Nat /\ epos \in Nat
      /\ \A c \in Consumers : dpos[c] \in Nat
  BY CellTypes
<1>1. epos = Tail_ /\ sequence_[CellOf(epos)] = epos
  BY DEF CellInv, PosInv, Tail_
<1>2. dequeue_pos_ <= epos /\ epos <= dequeue_pos_ + S
  BY <1>1 DEF CellInv, PosInv
<1>3. epos # dequeue_pos_ + S
  <2>1. SUFFICES ASSUME epos = dequeue_pos_ + S PROVE FALSE
    OBVIOUS
  <2>2. CellOf(epos) = CellOf(dequeue_pos_)
    BY <1>0, <2>1, CellFacts
  <2>3. dequeue_pos_ \in dequeue_pos_ .. Tail_ - 1
    BY <1>0, <1>1, <2>1
  <2>4. sequence_[CellOf(dequeue_pos_)] = dequeue_pos_ + 1
    BY <2>3 DEF CellInv, FullInv
  <2>5. QED
    BY <1>0, <1>1, <2>1, <2>2, <2>4
<1>4. ASSUME NEW c \in Consumers, Won(c)
      PROVE  epos < dpos[c] + S
  <2>1. epos <= dpos[c] + S /\ sequence_[CellOf(dpos[c])] = dpos[c] + 1
    BY <1>1, <1>4 DEF CellInv, WonInv
  <2>2. epos # dpos[c] + S
    <3>1. SUFFICES ASSUME epos = dpos[c] + S PROVE FALSE
      OBVIOUS
    <3>2. CellOf(epos) = CellOf(dpos[c])
      BY <1>0, <3>1, CellFacts
    <3>3. QED
      BY <1>0, <1>1, <2>1, <3>1, <3>2
  <2>3. QED
    BY <1>0, <2>1, <2>2
<1>5. QED
  BY <1>0, <1>1, <1>2, <1>3, <1>4

(* Steps of the enqueuer that leave the sequence numbers alone.            *)
LEMMA EnqueuerMoves ==
  ASSUME TypeOK, CellInv, Tail_' = Tail_, UNCHANGED <<sequence_, deqVars>>,
         (epc = "check" => epos = enqueue_pos_ /\ epos < MaxPos)',
         (Writing => enqueue_pos_ = epos + 1 /\ sequence_[CellOf(epos)] = epos)'
  PROVE  CellInv'
<1>1. PosInv'
  BY DEF CellInv, PosInv, deqVars
<1>2. FullInv'
  BY DEF CellInv, FullInv, deqVars
<1>3. WonInv'
  BY DEF CellInv, WonInv, Won, deqVars
<1>4. FreeInv'
  BY DEF CellInv, FreeInv, Held, Won, deqVars
<1>5. QED
  BY <1>1, <1>2, <1>3, <1>4 DEF CellInv

LEMMA PublishCells ==
  ASSUME TypeOK, CellInv, EnqueuePublish
  PROVE  CellInv' /\ Tail_' = epos + 1
<1>0. /\ S \in Nat /\ S >= 2 /\ dequeue_pos_ \in Nat /\ epos \in Nat
      /\ \A c \in Consumers : dpos[c] \in Nat
      /\ \A a \in Nat : sequence_[CellOf(a)] \in Nat
      /\ DOMAIN sequence_ = Cells
  BY CellTypes
<1>1. Writing
  BY DEF EnqueuePublish, Writing
<1>2. /\ epos = Tail_ /\ epos < dequeue_pos_ + S /\ dequeue_pos_ <= epos
      /\ enqueue_pos_ = epos + 1 /\ sequence_[CellOf(epos)] = epos
      /\ \A c \in Consumers : Won(c) => epos < dpos[c] + S
  BY <1>1, CellIsFree DEF CellInv, PosInv
<1>3. ~Writing' /\ epc' = "idle" /\ Tail_' = epos + 1
  BY <1>2 DEF EnqueuePublish, Writing, Tail_
<1>4. UNCHANGED <<epos, enqueue_pos_, dpc, dpos, dequeue_pos_>>
  BY DEF EnqueuePublish, deqVars
<1>5. /\ sequence_'[CellOf(epos)] = epos + 1
      /\ \A a \in Nat : CellOf(a) # CellOf(epos) => sequence_'[CellOf(a)] = sequence_[CellOf(a)]
  <2>1. \A a \in Nat : CellOf(a) \in Cells
    BY CellFacts
  <2>2. sequence_' = [sequence_ EXCEPT ![CellOf(epos)] = epos + 1]
    BY DEF EnqueuePublish
  <2>3. QED
    BY <1>0, <2>1, <2>2
<1>6. \A a \in Nat : a # epos /\ a < epos + S /\ epos < a + S
                     => sequence_'[CellOf(a)] = sequence_[CellOf(a)]
  BY <1>0, <1>5, CellFacts
<1>7. PosInv'
  <2>1. dequeue_pos_ <= epos + 1 /\ epos + 1 <= dequeue_pos_ + S
    BY <1>0, <1>2
  <2>2. ASSUME NEW c \in Consumers
        PROVE  /\ dpos[c] <= dequeue_pos_
               /\ dpc[c] = "cas" => dpos[c] < epos + 1
               /\ dpos[c] < epos + 1 => sequence_'[CellOf(dpos[c])] > dpos[c]
    <3>1. /\ dpos[c] <= dequeue_pos_
          /\ dpc[c] = "cas" => dpos[c] < epos
          /\ dpos[c] < epos => sequence_[CellOf(dpos[c])] > dpos[c]
      BY <1>2 DEF CellInv, PosInv
    <3>2. CASE CellOf(dpos[c]) = CellOf(epos)
      BY <1>0, <1>5, <3>1, <3>2
    <3>3. CASE CellOf(dpos[c]) # CellOf(epos)
      BY <1>0, <1>5, <3>1, <3>3
    <3>4. QED
      BY <3>2, <3>3
  <2>3. QED
    BY <1>3, <1>4, <2>1, <2>2 DEF PosInv
<1>8. FullInv'
  <2>1. ASSUME NEW p \in dequeue_pos_ .. epos
        PROVE  sequence_'[CellOf(p)] = p + 1
    <3>1. CASE p = epos
      BY <1>5, <3>1
    <3>2. CASE p # epos
      <4>1. p \in dequeue_pos_ .. Tail_ - 1 /\ p \in Nat /\ p < epos + S /\ epos < p + S
        BY <1>0, <1>2, <3>2
      <4>2. sequence_[CellOf(p)] = p + 1
        BY <4>1 DEF CellInv, FullInv
      <4>3. QED
        BY <1>6, <3>2, <4>1, <4>2
    <3>3. QED
      BY <3>1, <3>2
  <2>2. \A p \in dequeue_pos_ .. (epos + 1) - 1 : sequence_'[CellOf(p)] = p + 1
    BY <1>0, <2>1
  <2>3. QED
    BY <1>3, <1>4, <2>2 DEF FullInv
<1>9. WonInv'
  <2>1. ASSUME NEW c \in Consumers, Won(c)
        PROVE  /\ dpos[c] < dequeue_pos_ /\ epos + 1 <= dpos[c] + S
               /\ sequence_'[CellOf(dpos[c])] = dpos[c] + 1
    <3>1. dpos[c] < dequeue_pos_ /\ sequence_[CellOf(dpos[c])] = dpos[c] + 1
      BY <2>1 DEF CellInv, WonInv
    <3>2. dpos[c] \in Nat /\ dpos[c] < epos /\ epos < dpos[c] + S
      BY <1>0, <1>2, <2>1, <3>1
    <3>3. dpos[c] # epos /\ dpos[c] < epos + S
      BY <1>0, <3>2
    <3>4. sequence_'[CellOf(dpos[c])] = sequence_[CellOf(dpos[c])]
      BY <1>6, <3>2, <3>3
    <3>5. QED
      BY <1>0, <3>1, <3>2, <3>4
  <2>2. QED
    BY <1>3, <1>4, <2>1 DEF CellInv, WonInv, Won
<1>10. FreeInv'
  <2>1. ASSUME NEW p \in epos + 1 .. epos + 1 + S - 1
        PROVE  \/ sequence_'[CellOf(p)] = p
               \/ /\ p >= S
                  /\ sequence_'[CellOf(p)] = p - S + 1
                  /\ p - S >= dequeue_pos_ \/ Held(p - S)
    <3>1. CASE p = epos + S
      <4>1. CellOf(p) = CellOf(epos)
        BY <1>0, <3>1, CellFacts
      <4>2. QED
        BY <1>0, <1>2, <1>5, <3>1, <4>1
    <3>2. CASE p # epos + S
      <4>1. p \in Tail_ .. Tail_ + S - 1 /\ p \in Nat /\ p # epos /\ p < epos + S /\ epos < p + S
        BY <1>0, <1>2, <3>2
      <4>2. sequence_'[CellOf(p)] = sequence_[CellOf(p)]
        BY <1>6, <4>1
      <4>3. QED
        BY <4>1, <4>2 DEF CellInv, FreeInv
    <3>3. QED
      BY <3>1, <3>2
  <2>2. \A p : Held(p)' <=> Held(p)
    BY <1>4 DEF Held, Won
  <2>3. QED
    BY <1>3, <1>4, <2>1, <2>2 DEF FreeInv
<1>11. QED
  BY <1>3, <1>7, <1>8, <1>9, <1>10 DEF CellInv

(* Steps of a dequeuer that win nothing and free nothing.                  *)
LEMMA DequeuerMoves ==
  ASSUME TypeOK, CellInv, UNCHANGED <<sequence_, enqVars, dequeue_pos_>>,
         \A c \in Consumers :
           /\ Won(c)' <=> Won(c)
           /\ Won(c) => dpos'[c] = dpos[c]
           /\ dpos'[c] = dpos[c] \/ dpos'[c] = dequeue_pos_
           /\ dpc'[c] = "cas" => dpos'[c] < Tail_
  PROVE  CellInv' /\ Tail_' = Tail_
<1>0. /\ dequeue_pos_ \in Nat /\ Tail_ \in Nat
      /\ \A c \in Consumers : dpos[c] \in Nat
      /\ \A a \in Nat : sequence_[CellOf(a)] \in Nat
  BY CellTypes
<1>1. Tail_' = Tail_
  BY DEF Tail_, Writing, enqVars
<1>2. PosInv'
  <2>1. dequeue_pos_ < Tail_ => sequence_[CellOf(dequeue_pos_)] > dequeue_pos_
    <3>1. SUFFICES ASSUME dequeue_pos_ < Tail_
                   PROVE  sequence_[CellOf(dequeue_pos_)] = dequeue_pos_ + 1
      BY <1>0
    <3>2. dequeue_pos_ \in dequeue_pos_ .. Tail_ - 1
      BY <1>0, <3>1
    <3>3. QED
      BY <3>2 DEF CellInv, FullInv
  <2>2. ASSUME NEW c \in Consumers
        PROVE  /\ dpos'[c] <= dequeue_pos_
               /\ dpos'[c] < Tail_ => sequence_[CellOf(dpos'[c])] > dpos'[c]
    <3>1. /\ dpos[c] <= dequeue_pos_
          /\ dpos[c] < Tail_ => sequence_[CellOf(dpos[c])] > dpos[c]
      BY DEF CellInv, PosInv
    <3>2. CASE dpos'[c] = dpos[c]
      BY <3>1, <3>2
    <3>3. CASE dpos'[c] = dequeue_pos_
      BY <1>0, <2>1, <3>3
    <3>4. QED
      BY <3>2, <3>3
  <2>3. UNCHANGED <<sequence_, epc, epos, enqueue_pos_, dequeue_pos_>>
    BY DEF enqVars
  <2>4. QED
    BY <1>1, <2>2, <2>3 DEF CellInv, PosInv, Writing
<1>3. FullInv'
  BY <1>1 DEF CellInv, FullInv
<1>4. WonInv'
  BY <1>1 DEF CellInv, WonInv
<1>5. FreeInv'
  <2>1. \A p : Held(p)' <=> Held(p)
    BY DEF Held
  <2>2. QED
    BY <1>1, <2>1 DEF CellInv, FreeInv
<1>6. QED
  BY <1>1, <1>2, <1>3, <1>4, <1>5 DEF CellInv

(* The compare_exchange takes the first full position.                     *)
LEMMA WinCells ==
  ASSUME TypeOK, CellInv, NEW c \in Consumers, DequeueCas(c), StillFirst(c)
  PROVE  /\ CellInv' /\ Tail_' = Tail_
         /\ dpos[c] = dequeue_pos_ /\ dequeue_pos_ < Tail_
         /\ dequeue_pos_' = dequeue_pos_ + 1
         /\ dpc[c] = "cas" /\ dpc' = [dpc EXCEPT ![c] = "read"]
         /\ UNCHANGED <<cellVars, enqVars, dpos, dbuf, outside>>
<1>0. /\ S \in Nat /\ S >= 2 /\ dequeue_pos_ \in Nat /\ Tail_ \in Nat
      /\ \A d \in Consumers : dpos[d] \in Nat
      /\ \A a \in Nat : sequence_[CellOf(a)] \in Nat
      /\ DOMAIN dpc = Consumers
  BY CellTypes
<1>1. /\ dpos[c] = dequeue_pos_ /\ dequeue_pos_' = dequeue_pos_ + 1
      /\ dpc[c] = "cas" /\ dpc' = [dpc EXCEPT ![c] = "read"]
      /\ UNCHANGED <<cellVars, enqVars, dpos, dbuf, outside>>
  BY DEF DequeueCas, StillFirst, Goto
<1>2. Tail_' = Tail_
  BY <1>1 DEF Tail_, Writing, enqVars
<1>3. dequeue_pos_ < Tail_
  BY <1>1 DEF CellInv, PosInv
<1>4. Won(c)' /\ \A d \in Consumers \ {c} : dpc'[d] = dpc[d] /\ (Won(d)' <=> Won(d))
  BY <1>0, <1>1 DEF Won
<1>5. UNCHANGED <<sequence_, epc, epos, enqueue_pos_, dpos>>
  BY <1>1 DEF cellVars, enqVars
<1>6. dequeue_pos_ \in dequeue_pos_ .. Tail_ - 1
  BY <1>0, <1>3
<1>7. sequence_[CellOf(dequeue_pos_)] = dequeue_pos_ + 1
  BY <1>6 DEF CellInv, FullInv
<1>8. PosInv'
  <2>1. dequeue_pos_ + 1 <= Tail_ /\ Tail_ <= dequeue_pos_ + 1 + S
    BY <1>0, <1>3 DEF CellInv, PosInv
  <2>2. ASSUME NEW d \in Consumers
        PROVE  /\ dpos[d] <= dequeue_pos_ + 1
               /\ dpc'[d] = "cas" => dpos[d] < Tail_
               /\ dpos[d] < Tail_ => sequence_[CellOf(dpos[d])] > dpos[d]
    <3>1. /\ dpos[d] <= dequeue_pos_
          /\ dpc[d] = "cas" => dpos[d] < Tail_
          /\ dpos[d] < Tail_ => sequence_[CellOf(dpos[d])] > dpos[d]
      BY DEF CellInv, PosInv
    <3>2. dpc'[d] = "cas" => dpc[d] = "cas"
      BY <1>0, <1>1
    <3>3. QED
      BY <1>0, <3>1, <3>2
  <2>3. QED
    BY <1>1, <1>2, <1>5, <2>1, <2>2 DEF CellInv, PosInv, Writing
<1>9. FullInv'
  <2>1. ASSUME NEW p \in dequeue_pos_ + 1 .. Tail_ - 1
        PROVE  sequence_[CellOf(p)] = p + 1
    <3>1. p \in dequeue_pos_ .. Tail_ - 1
      BY <1>0
    <3>2. QED
      BY <3>1 DEF CellInv, FullInv
  <2>2. QED
    BY <1>1, <1>2, <1>5, <2>1 DEF FullInv
<1>10. WonInv'
  <2>1. \A d \in Consumers : Won(d) => /\ dpos[d] < dequeue_pos_ /\ Tail_ <= dpos[d] + S
                                       /\ sequence_[CellOf(dpos[d])] = dpos[d] + 1
    BY DEF CellInv, WonInv
  <2>2. Tail_ <= dequeue_pos_ + S
    BY DEF CellInv, PosInv
  <2>3. ASSUME NEW d \in Consumers, Won(d)'
        PROVE  /\ dpos[d] < dequeue_pos_ + 1 /\ Tail_ <= dpos[d] + S
               /\ sequence_[CellOf(dpos[d])] = dpos[d] + 1
    <3>1. CASE d = c
      BY <1>0, <1>1, <1>7, <2>2, <3>1
    <3>2. CASE d # c
      BY <1>0, <1>4, <2>1, <2>3, <3>2
    <3>3. QED
      BY <3>1, <3>2
  <2>4. ASSUME NEW d \in Consumers, NEW e \in Consumers, Won(d)', Won(e)', dpos[d] = dpos[e]
        PROVE  d = e
    <3>1. CASE d # c /\ e # c
      BY <1>4, <2>4, <3>1 DEF CellInv, WonInv
    <3>2. CASE d = c /\ e # c
      BY <1>0, <1>1, <1>4, <2>1, <2>4, <3>2
    <3>3. CASE d # c /\ e = c
      BY <1>0, <1>1, <1>4, <2>1, <2>4, <3>3
    <3>4. QED
      BY <3>1, <3>2, <3>3
  <2>5. QED
    BY <1>1, <1>2, <1>5, <2>3, <2>4 DEF WonInv
<1>11. FreeInv'
  <2>1. \A p : Held(p) => Held(p)'
    BY <1>4, <1>5 DEF Held
  <2>2. \A p : p = dequeue_pos_ => Held(p)'
    BY <1>1, <1>4, <1>5 DEF Held
  <2>3. ASSUME NEW p \in Tail_ .. Tail_ + S - 1
        PROVE  \/ sequence_[CellOf(p)] = p
               \/ /\ p >= S
                  /\ sequence_[CellOf(p)] = p - S + 1
                  /\ p - S >= dequeue_pos_ + 1 \/ Held(p - S)'
    <3>1. \/ sequence_[CellOf(p)] = p
          \/ /\ p >= S
             /\ sequence_[CellOf(p)] = p - S + 1
             /\ p - S >= dequeue_pos_ \/ Held(p - S)
      BY DEF CellInv, FreeInv
    <3>2. p - S >= dequeue_pos_ => p - S >= dequeue_pos_ + 1 \/ p - S = dequeue_pos_
      BY <1>0
    <3>3. QED
      BY <2>1, <2>2, <3>1, <3>2
  <2>4. QED
    BY <1>1, <1>2, <1>5, <2>3 DEF FreeInv
<1>12. QED
  BY <1>1, <1>2, <1>3, <1>8, <1>9, <1>10, <1>11 DEF CellInv

(* A dequeuer that leaves frees its cell for the next round.               *)
LEMMA LeaveCells ==
  ASSUME TypeOK, CellInv, NEW c \in Consumers, DequeueLeave(c)
  PROVE  CellInv' /\ Tail_' = Tail_
<1>0. /\ S \in Nat /\ S >= 2 /\ dequeue_pos_ \in Nat /\ Tail_ \in Nat /\ epos \in Nat
      /\ \A d \in Consumers : dpos[d] \in Nat
      /\ \A a \in Nat : sequence_[CellOf(a)] \in Nat
      /\ DOMAIN dpc = Consumers /\ DOMAIN sequence_ = Cells
  BY CellTypes
<1>1. /\ dpc[c] = "leave" /\ dpc' = [dpc EXCEPT ![c] = "idle"]
      /\ sequence_' = [sequence_ EXCEPT ![CellOf(dpos[c])] = dpos[c] + S]
      /\ UNCHANGED <<epc, epos, enqueue_pos_, dpos, dequeue_pos_>>
  <2>1. NextRound(dpos[c]) = dpos[c] + S
    BY <1>0 DEF NextRound
  <2>2. QED
    BY <2>1 DEF DequeueLeave, Goto, enqVars
<1>2. Tail_' = Tail_
  BY <1>1 DEF Tail_, Writing
<1>3. Won(c)
  BY <1>1 DEF Won
<1>4. /\ dpos[c] < dequeue_pos_ /\ Tail_ <= dpos[c] + S /\ dequeue_pos_ <= Tail_
      /\ sequence_[CellOf(dpos[c])] = dpos[c] + 1
  BY <1>3 DEF CellInv, WonInv, PosInv
<1>5. ~Won(c)' /\ \A d \in Consumers \ {c} : dpc'[d] = dpc[d] /\ (Won(d)' <=> Won(d))
  BY <1>0, <1>1 DEF Won
<1>6. /\ sequence_'[CellOf(dpos[c])] = dpos[c] + S
      /\ \A a \in Nat : CellOf(a) # CellOf(dpos[c]) => sequence_'[CellOf(a)] = sequence_[CellOf(a)]
  <2>1. \A a \in Nat : CellOf(a) \in Cells
    BY CellFacts
  <2>2. QED
    BY <1>0, <1>1, <2>1
<1>7. \A a \in Nat : a # dpos[c] /\ a < dpos[c] + S /\ dpos[c] < a + S
                     => sequence_'[CellOf(a)] = sequence_[CellOf(a)]
  BY <1>0, <1>6, CellFacts
<1>8. PosInv'
  <2>1. Writing => enqueue_pos_ = epos + 1 /\ sequence_'[CellOf(epos)] = epos
    <3>1. SUFFICES ASSUME Writing
                   PROVE  enqueue_pos_ = epos + 1 /\ sequence_'[CellOf(epos)] = epos
      OBVIOUS
    <3>2. epos = Tail_ /\ epos < dpos[c] + S
      BY <1>3, <3>1, CellIsFree
    <3>3. epos # dpos[c] /\ dpos[c] < epos + S
      BY <1>0, <1>4, <3>2
    <3>4. sequence_'[CellOf(epos)] = sequence_[CellOf(epos)]
      BY <1>0, <1>7, <3>2, <3>3
    <3>5. QED
      BY <3>1, <3>4 DEF CellInv, PosInv
  <2>2. ASSUME NEW d \in Consumers
        PROVE  /\ dpos[d] <= dequeue_pos_
               /\ dpc'[d] = "cas" => dpos[d] < Tail_
               /\ dpos[d] < Tail_ => sequence_'[CellOf(dpos[d])] > dpos[d]
    <3>1. /\ dpos[d] <= dequeue_pos_
          /\ dpc[d] = "cas" => dpos[d] < Tail_
          /\ dpos[d] < Tail_ => sequence_[CellOf(dpos[d])] > dpos[d]
      BY DEF CellInv, PosInv
    <3>2. dpc'[d] = "cas" => dpc[d] = "cas"
      BY <1>0, <1>1
    <3>3. CASE CellOf(dpos[d]) = CellOf(dpos[c])
      BY <1>0, <1>4, <1>6, <3>1, <3>2, <3>3
    <3>4. CASE CellOf(dpos[d]) # CellOf(dpos[c])
      BY <1>0, <1>6, <3>1, <3>2, <3>4
    <3>5. QED
      BY <3>3, <3>4
  <2>3. QED
    BY <1>1, <1>2, <2>1, <2>2 DEF CellInv, PosInv, Writing
<1>9. FullInv'
  <2>1. ASSUME NEW p \in dequeue_pos_ .. Tail_ - 1
        PROVE  sequence_'[CellOf(p)] = p + 1
    <3>1. p \in Nat /\ p # dpos[c] /\ p < dpos[c] + S /\ dpos[c] < p + S
      BY <1>0, <1>4
    <3>2. sequence_'[CellOf(p)] = sequence_[CellOf(p)]
      BY <1>7, <3>1
    <3>3. QED
      BY <3>2 DEF CellInv, FullInv
  <2>2. QED
    BY <1>1, <1>2, <2>1 DEF FullInv
<1>10. WonInv'
  <2>1. ASSUME NEW d \in Consumers, Won(d)'
        PROVE  /\ dpos[d] < dequeue_pos_ /\ Tail_ <= dpos[d] + S
               /\ sequence_'[CellOf(dpos[d])] = dpos[d] + 1
    <3>1. d # c /\ Won(d)
      BY <1>5, <2>1
    <3>2. /\ dpos[d] < dequeue_pos_ /\ Tail_ <= dpos[d] + S
          /\ sequence_[CellOf(dpos[d])] = dpos[d] + 1
          /\ dpos[d] # dpos[c]
      BY <1>3, <3>1 DEF CellInv, WonInv
    <3>3. dpos[d] \in Nat /\ dpos[d] < dpos[c] + S /\ dpos[c] < dpos[d] + S
      BY <1>0, <1>4, <3>2
    <3>4. QED
      BY <1>7, <3>2, <3>3
  <2>2. \A d, e \in Consumers : Won(d)' /\ Won(e)' /\ dpos[d] = dpos[e] => d = e
    BY <1>5 DEF CellInv, WonInv
  <2>3. QED
    BY <1>1, <1>2, <2>1, <2>2 DEF WonInv
<1>11. FreeInv'
  <2>1. \A p : p # dpos[c] /\ Held(p) => Held(p)'
    BY <1>1, <1>5 DEF Held
  <2>2. ASSUME NEW p \in Tail_ .. Tail_ + S - 1
        PROVE  \/ sequence_'[CellOf(p)] = p
               \/ /\ p >= S
                  /\ sequence_'[CellOf(p)] = p - S + 1
                  /\ p - S >= dequeue_pos_ \/ Held(p - S)'
    <3>1. CASE p = dpos[c] + S
      <4>1. CellOf(p) = CellOf(dpos[c])
        BY <1>0, <3>1, CellFacts
      <4>2. QED
        BY <1>6, <3>1, <4>1
    <3>2. CASE p # dpos[c] + S
      <4>1. CASE p < dpos[c] + S
        <5>1. p \in Nat /\ p # dpos[c] /\ dpos[c] < p + S
          BY <1>0, <1>4
        <5>2. sequence_'[CellOf(p)] = sequence_[CellOf(p)]
          BY <1>7, <4>1, <5>1
        <5>3. p - S # dpos[c]
          BY <1>0, <3>2
        <5>4. QED
          BY <2>1, <5>2, <5>3 DEF CellInv, FreeInv
      <4>2. CASE p > dpos[c] + S
        <5>1. PICK q \in Nat : q = p - S
          BY <1>0, <4>2
        <5>2. CellOf(q) = CellOf(p)
          BY <1>0, <5>1, CellFacts
        <5>3. q # dpos[c] /\ q < dpos[c] + S /\ dpos[c] < q + S
          BY <1>0, <1>4, <4>2, <5>1
        <5>4. sequence_'[CellOf(p)] = sequence_[CellOf(p)]
          BY <1>7, <5>2, <5>3
        <5>5. p - S # dpos[c]
          BY <1>0, <3>2
        <5>6. QED
          BY <2>1, <5>4, <5>5 DEF CellInv, FreeInv
      <4>3. QED
        BY <1>0, <3>2, <4>1, <4>2
    <3>3. QED
      BY <3>1, <3>2
  <2>3. QED
    BY <1>1, <1>2, <2>2 DEF FreeInv
<1>12. QED
  BY <1>2, <1>8, <1>9, <1>10, <1>11 DEF CellInv

(* The steps of dequeue that win nothing and free nothing.                 *)
LEMMA QuietDequeuer ==
  ASSUME TypeOK, CellInv, NEW c \in Consumers,
         \/ LoadPos(c) \/ DequeueCheck(c)
         \/ (DequeueCas(c) /\ ~StillFirst(c)) \/ DequeueRead(c)
  PROVE  CellInv' /\ Tail_' = Tail_
<1>0. /\ S \in Nat /\ S >= 2 /\ dequeue_pos_ \in Nat /\ Tail_ \in Nat
      /\ \A d \in Consumers : dpos[d] \in Nat
      /\ \A a \in Nat : sequence_[CellOf(a)] \in Nat
      /\ DOMAIN dpc = Consumers /\ DOMAIN dpos = Consumers
  BY CellTypes
<1>1. UNCHANGED <<sequence_, enqVars, dequeue_pos_>>
  BY DEF LoadPos, DequeueCheck, DequeueCas, DequeueRead, cellVars, StillFirst
<1>2. \A d \in Consumers \ {c} : dpc'[d] = dpc[d] /\ dpos'[d] = dpos[d]
  BY <1>0 DEF LoadPos, DequeueCheck, DequeueCas, DequeueRead, Goto, StillFirst
<1>3. /\ Won(c)' <=> Won(c)
      /\ Won(c) => dpos'[c] = dpos[c]
      /\ dpos'[c] = dpos[c] \/ dpos'[c] = dequeue_pos_
      /\ dpc'[c] = "cas" => dpos'[c] < Tail_
  <2>1. CASE LoadPos(c)
    BY <1>0, <2>1 DEF LoadPos, Goto, Won
  <2>2. CASE DequeueCheck(c)
    <3>1. /\ dpc[c] = "check" /\ dpos' = dpos
          /\ dpc'[c] = IF Dif(c) = 0 THEN "cas" ELSE IF Dif(c) < 0 THEN "idle" ELSE "reload"
      BY <1>0, <2>2 DEF DequeueCheck, Goto
    <3>2. dpc'[c] \in {"cas", "idle", "reload"} /\ (dpc'[c] = "cas" => Dif(c) = 0)
      BY <3>1
    <3>3. Dif(c) = 0 => sequence_[CellOf(dpos[c])] = dpos[c] + 1
      BY <1>0 DEF Dif
    <3>4. dpos[c] <= dequeue_pos_ /\ dequeue_pos_ <= Tail_
      BY DEF CellInv, PosInv
    <3>5. Tail_ \in Tail_ .. Tail_ + S - 1
      BY <1>0
    <3>6. sequence_[CellOf(Tail_)] = Tail_ \/ sequence_[CellOf(Tail_)] = Tail_ - S + 1
      BY <3>5 DEF CellInv, FreeInv
    <3>7. Dif(c) = 0 => dpos[c] < Tail_
      BY <1>0, <3>3, <3>4, <3>6
    <3>8. QED
      BY <3>1, <3>2, <3>7 DEF Won
  <2>3. CASE DequeueCas(c) /\ ~StillFirst(c)
    BY <1>0, <2>3 DEF DequeueCas, Goto, Won
  <2>4. CASE DequeueRead(c)
    BY <1>0, <2>4 DEF DequeueRead, Goto, Won
  <2>5. QED
    BY <2>1, <2>2, <2>3, <2>4
<1>4. \A d \in Consumers \ {c} :
        /\ Won(d)' <=> Won(d)
        /\ dpc'[d] = "cas" => dpos'[d] < Tail_
  BY <1>2 DEF Won, CellInv, PosInv
<1>5. \A d \in Consumers :
        /\ Won(d)' <=> Won(d)
        /\ Won(d) => dpos'[d] = dpos[d]
        /\ dpos'[d] = dpos[d] \/ dpos'[d] = dequeue_pos_
        /\ dpc'[d] = "cas" => dpos'[d] < Tail_
  BY <1>2, <1>3, <1>4
<1>6. QED
  BY <1>1, <1>5, DequeuerMoves

(* The steps of enqueue before the store that publishes.                   *)
LEMMA QuietEnqueuer ==
  ASSUME TypeOK, CellInv, Enqueue \/ EnqueueCheck \/ EnqueueWrite
  PROVE  CellInv' /\ Tail_' = Tail_
<1>0. enqueue_pos_ \in Nat /\ epos \in Nat
      /\ \A a \in Nat : sequence_[CellOf(a)] \in Nat
  BY CellTypes
<1>1. UNCHANGED <<sequence_, deqVars>>
  BY DEF Enqueue, EnqueueCheck, EnqueueWrite, cellVars
<1>2. /\ Tail_' = Tail_
      /\ epc' = "check" => epos' = enqueue_pos_' /\ epos' < MaxPos
      /\ Writing' => enqueue_pos_' = epos' + 1 /\ sequence_'[CellOf(epos')] = epos'
  <2>1. CASE Enqueue
    BY <2>1 DEF Enqueue, Tail_, Writing
  <2>2. CASE EnqueueCheck
    <3>1. /\ epc = "check" /\ epc' = "write" /\ epos' = epos /\ enqueue_pos_' = epos + 1
          /\ sequence_[CellOf(epos)] - epos = 0
      BY <2>2 DEF EnqueueCheck, CellFree
    <3>2. epos = enqueue_pos_
      BY <3>1 DEF CellInv, PosInv
    <3>3. sequence_[CellOf(epos)] = epos
      BY <1>0, <3>1
    <3>4. Tail_' = epos /\ Tail_ = epos
      BY <3>1, <3>2 DEF Tail_, Writing
    <3>5. QED
      BY <1>1, <3>1, <3>3, <3>4
  <2>3. CASE EnqueueWrite
    <3>1. epc = "write" /\ epc' = "publish" /\ epos' = epos /\ enqueue_pos_' = enqueue_pos_
      BY <2>3 DEF EnqueueWrite
    <3>2. Writing /\ Writing'
      BY <3>1 DEF Writing
    <3>3. Tail_' = Tail_
      BY <3>1, <3>2 DEF Tail_
    <3>4. QED
      BY <1>1, <3>1, <3>2, <3>3 DEF CellInv, PosInv
  <2>4. QED
    BY <2>1, <2>2, <2>3
<1>3. /\ (epc = "check" => epos = enqueue_pos_ /\ epos < MaxPos)'
      /\ (Writing => enqueue_pos_ = epos + 1 /\ sequence_[CellOf(epos)] = epos)'
  BY <1>2
<1>4. QED
  BY <1>1, <1>2, <1>3, EnqueuerMoves

-----------------------------------------------------------------------------
(* Buffers and types.                                                      *)

(* What the steps use of the types.                                        *)
LEMMA BufferTypes ==
  ASSUME TypeOK
  PROVE  /\ None \notin Buffers /\ outside \subseteq Buffers
         /\ DOMAIN data_ = Cells /\ DOMAIN dbuf = Consumers /\ DOMAIN dpc = Consumers
         /\ DOMAIN dpos = Consumers
  BY SpmcQueueAssumption DEF SpmcQueueAssumption, TypeOK

(* The step leaves the queue as its users see it alone.                    *)
SameView ==
  /\ Tail_' = Tail_ /\ UNCHANGED dequeue_pos_
  /\ \A p \in dequeue_pos_ .. Tail_ - 1 : Queued(p)' = Queued(p)
  /\ \A c \in Consumers : Taken(c)' = Taken(c)

(* Nothing is lost when nothing moves.                                     *)
LEMMA NothingMoves ==
  ASSUME PlaceInv, Tail_' = Tail_, UNCHANGED <<dequeue_pos_, outside, ebuf>>,
         \A p \in dequeue_pos_ .. Tail_ - 1 : Queued(p)' = Queued(p),
         \A c \in Consumers : Taken(c)' = Taken(c) /\ (Won(c)' <=> Won(c)),
         (ebuf \in Buffers <=> epc # "idle")',
         (epc = "publish" => data_[CellOf(epos)] = ebuf)',
         (\A c \in Consumers : dbuf[c] \in Buffers <=> dpc[c] = "leave")'
  PROVE  PlaceInv'
<1>1. HaveInv'
  BY DEF PlaceInv, HaveInv
<1>2. ApartInv'
  BY DEF PlaceInv, ApartInv
<1>3. SomewhereInv'
  BY DEF PlaceInv, SomewhereInv
<1>4. QED
  BY <1>1, <1>2, <1>3 DEF PlaceInv

LEMMA QuietBuffers ==
  ASSUME TypeOK, CellInv, PlaceInv,
         \/ EnqueueCheck
         \/ \E c \in Consumers : LoadPos(c) \/ DequeueCheck(c)
                                 \/ (DequeueCas(c) /\ ~StillFirst(c))
  PROVE  PlaceInv' /\ SameView
<1>0. DOMAIN dpc = Consumers /\ DOMAIN dpos = Consumers
  BY BufferTypes
<1>1. Tail_' = Tail_
  BY QuietEnqueuer, QuietDequeuer
<1>2. UNCHANGED <<data_, dequeue_pos_, outside, ebuf, dbuf, epos>>
  BY DEF EnqueueCheck, LoadPos, DequeueCheck, DequeueCas, StillFirst, cellVars, deqVars, enqVars
<1>3. \A p \in dequeue_pos_ .. Tail_ - 1 : Queued(p)' = Queued(p)
  BY <1>2 DEF Queued
<1>4. /\ epc' = epc \/ (epc = "check" /\ epc' = "write")
      /\ \A d \in Consumers : \/ dpc'[d] = dpc[d] /\ dpos'[d] = dpos[d]
                              \/ ~Won(d) /\ ~Won(d)'
  <2>1. CASE EnqueueCheck
    BY <2>1 DEF EnqueueCheck, deqVars
  <2>2. ASSUME NEW c \in Consumers, LoadPos(c)
        PROVE  <1>4!1 /\ <1>4!2
    BY <1>0, <2>2 DEF LoadPos, Goto, Won, enqVars
  <2>3. ASSUME NEW c \in Consumers, DequeueCheck(c)
        PROVE  <1>4!1 /\ <1>4!2
    BY <1>0, <2>3 DEF DequeueCheck, Goto, Won, enqVars
  <2>4. ASSUME NEW c \in Consumers, DequeueCas(c), ~StillFirst(c)
        PROVE  <1>4!1 /\ <1>4!2
    BY <1>0, <2>4 DEF DequeueCas, Goto, Won, enqVars
  <2>5. QED
    BY <2>1, <2>2, <2>3, <2>4
<1>5. \A d \in Consumers : Taken(d)' = Taken(d) /\ (Won(d)' <=> Won(d))
  BY <1>2, <1>4 DEF Taken, Won
<1>6. /\ (ebuf \in Buffers <=> epc # "idle")'
      /\ (epc = "publish" => data_[CellOf(epos)] = ebuf)'
      /\ (\A c \in Consumers : dbuf[c] \in Buffers <=> dpc[c] = "leave")'
  BY <1>2, <1>4 DEF PlaceInv, HaveInv, Won
<1>7. QED
  BY <1>1, <1>2, <1>3, <1>5, <1>6, NothingMoves DEF SameView

LEMMA WriteBuffers ==
  ASSUME TypeOK, CellInv, PlaceInv, EnqueueWrite
  PROVE  PlaceInv' /\ SameView
<1>0. /\ S \in Nat /\ S >= 2 /\ dequeue_pos_ \in Nat /\ epos \in Nat
      /\ \A c \in Consumers : dpos[c] \in Nat
      /\ DOMAIN data_ = Cells
  BY CellTypes, BufferTypes
<1>1. Tail_' = Tail_
  BY QuietEnqueuer
<1>2. /\ epc = "write" /\ epc' = "publish"
      /\ data_' = [data_ EXCEPT ![CellOf(epos)] = ebuf]
      /\ UNCHANGED <<epos, ebuf, outside, dpc, dpos, dbuf, dequeue_pos_>>
  BY DEF EnqueueWrite, deqVars
<1>3. /\ epos = Tail_ /\ epos < dequeue_pos_ + S
      /\ \A c \in Consumers : Won(c) => epos < dpos[c] + S /\ dpos[c] < epos
  <2>1. Writing
    BY <1>2 DEF Writing
  <2>2. /\ epos = Tail_ /\ epos < dequeue_pos_ + S /\ dequeue_pos_ <= epos
        /\ \A c \in Consumers : Won(c) => epos < dpos[c] + S
    BY <2>1, CellIsFree DEF CellInv, PosInv
  <2>3. \A c \in Consumers : Won(c) => dpos[c] < dequeue_pos_
    BY DEF CellInv, WonInv
  <2>4. QED
    BY <1>0, <2>2, <2>3
<1>4. /\ data_'[CellOf(epos)] = ebuf
      /\ \A a \in Nat : a # epos /\ a < epos + S /\ epos < a + S
                        => data_'[CellOf(a)] = data_[CellOf(a)]
  <2>1. \A a \in Nat : CellOf(a) \in Cells
    BY CellFacts
  <2>2. \A a \in Nat : a # epos /\ a < epos + S /\ epos < a + S => CellOf(a) # CellOf(epos)
    BY <1>0, CellFacts
  <2>3. QED
    BY <1>0, <1>2, <2>1, <2>2
<1>5. ASSUME NEW p \in dequeue_pos_ .. Tail_ - 1
      PROVE  Queued(p)' = Queued(p)
  <2>1. p \in Nat /\ p # epos /\ p < epos + S /\ epos < p + S
    BY <1>0, <1>3
  <2>2. QED
    BY <1>4, <2>1 DEF Queued
<1>6. ASSUME NEW c \in Consumers
      PROVE  Taken(c)' = Taken(c) /\ (Won(c)' <=> Won(c))
  <2>1. CASE Won(c)
    <3>1. dpos[c] \in Nat /\ dpos[c] # epos /\ dpos[c] < epos + S /\ epos < dpos[c] + S
      BY <1>0, <1>3, <2>1
    <3>2. data_'[CellOf(dpos[c])] = data_[CellOf(dpos[c])]
      BY <1>4, <3>1
    <3>3. QED
      BY <1>2, <3>2 DEF Taken, Won
  <2>2. CASE ~Won(c)
    BY <1>2, <2>2 DEF Taken, Won
  <2>3. QED
    BY <2>1, <2>2
<1>7. /\ (ebuf \in Buffers <=> epc # "idle")'
      /\ (epc = "publish" => data_[CellOf(epos)] = ebuf)'
      /\ (\A c \in Consumers : dbuf[c] \in Buffers <=> dpc[c] = "leave")'
  BY <1>2, <1>4 DEF PlaceInv, HaveInv
<1>8. QED
  BY <1>1, <1>2, <1>5, <1>6, <1>7, NothingMoves DEF SameView

LEMMA ReadBuffers ==
  ASSUME TypeOK, CellInv, PlaceInv, NEW c \in Consumers, DequeueRead(c)
  PROVE  PlaceInv' /\ SameView
<1>0. DOMAIN dpc = Consumers /\ DOMAIN dbuf = Consumers
  BY BufferTypes
<1>1. Tail_' = Tail_
  BY QuietDequeuer
<1>2. /\ dpc[c] = "read" /\ dpc' = [dpc EXCEPT ![c] = "leave"]
      /\ dbuf' = [dbuf EXCEPT ![c] = data_[CellOf(dpos[c])]]
      /\ UNCHANGED <<data_, epc, epos, ebuf, outside, dpos, dequeue_pos_>>
  BY DEF DequeueRead, Goto, cellVars, enqVars
<1>3. \A p \in dequeue_pos_ .. Tail_ - 1 : Queued(p)' = Queued(p)
  BY <1>2 DEF Queued
<1>4. \A d \in Consumers : Taken(d)' = Taken(d) /\ (Won(d)' <=> Won(d))
  BY <1>0, <1>2 DEF Taken, Won
<1>5. Taken(c) \in Buffers /\ Taken(c) = data_[CellOf(dpos[c])]
  BY <1>2 DEF PlaceInv, HaveInv, Taken, Won
<1>6. \A d \in Consumers : dbuf'[d] \in Buffers <=> dpc'[d] = "leave"
  BY <1>0, <1>2, <1>5 DEF PlaceInv, HaveInv
<1>7. /\ (ebuf \in Buffers <=> epc # "idle")'
      /\ (epc = "publish" => data_[CellOf(epos)] = ebuf)'
  BY <1>2 DEF PlaceInv, HaveInv
<1>8. QED
  BY <1>1, <1>2, <1>3, <1>4, <1>6, <1>7, NothingMoves DEF SameView

LEMMA EnqueueBuffers ==
  ASSUME TypeOK, CellInv, PlaceInv, Enqueue
  PROVE  PlaceInv' /\ SameView
<1>0. None \notin Buffers /\ outside \subseteq Buffers
  BY BufferTypes
<1>1. Tail_' = Tail_
  BY QuietEnqueuer
<1>2. PICK b \in outside : ebuf' = b /\ outside' = outside \ {b}
  BY DEF Enqueue
<1>3. /\ epc = "idle" /\ epc' = "check"
      /\ UNCHANGED <<data_, dpc, dpos, dbuf, dequeue_pos_>>
  BY DEF Enqueue, cellVars, deqVars
<1>4. ebuf \notin Buffers
  BY <1>3 DEF PlaceInv, HaveInv
<1>5. /\ \A p \in dequeue_pos_ .. Tail_ - 1 : Queued(p)' = Queued(p)
      /\ \A c \in Consumers : Taken(c)' = Taken(c) /\ (Won(c)' <=> Won(c))
  BY <1>3 DEF Queued, Taken, Won
<1>6. HaveInv'
  BY <1>0, <1>1, <1>2, <1>3, <1>5 DEF PlaceInv, HaveInv
<1>7. ApartInv'
  BY <1>1, <1>2, <1>3, <1>5 DEF PlaceInv, ApartInv
<1>8. SomewhereInv'
  BY <1>1, <1>2, <1>3, <1>4, <1>5 DEF PlaceInv, SomewhereInv
<1>9. QED
  BY <1>1, <1>3, <1>5, <1>6, <1>7, <1>8 DEF PlaceInv, SameView

LEMMA PublishBuffers ==
  ASSUME TypeOK, CellInv, PlaceInv, EnqueuePublish
  PROVE  PlaceInv'
<1>0. /\ S \in Nat /\ dequeue_pos_ \in Nat /\ epos \in Nat
      /\ None \notin Buffers /\ outside \subseteq Buffers
  BY CellTypes, BufferTypes
<1>1. /\ epc = "publish" /\ epc' = "idle" /\ ebuf' = None
      /\ UNCHANGED <<data_, epos, outside, dpc, dpos, dbuf, dequeue_pos_>>
  BY DEF EnqueuePublish, deqVars
<1>2. epos = Tail_ /\ dequeue_pos_ <= epos /\ Tail_' = epos + 1
  <2>1. Writing
    BY <1>1 DEF Writing
  <2>2. QED
    BY <2>1, PublishCells, CellIsFree DEF CellInv, PosInv
<1>3. /\ dequeue_pos_' .. Tail_' - 1 = (dequeue_pos_ .. Tail_ - 1) \cup {epos}
      /\ epos \notin dequeue_pos_ .. Tail_ - 1
  <2>1. dequeue_pos_ .. (epos + 1) - 1 = (dequeue_pos_ .. epos - 1) \cup {epos}
    BY <1>0, <1>2
  <2>2. QED
    BY <1>0, <1>1, <1>2, <2>1
<1>4. /\ \A p : Queued(p)' = Queued(p)
      /\ \A c \in Consumers : Taken(c)' = Taken(c) /\ (Won(c)' <=> Won(c))
  BY <1>1 DEF Queued, Taken, Won
<1>5. Queued(epos) = ebuf /\ ebuf \in Buffers
  BY <1>1 DEF PlaceInv, HaveInv, Queued
<1>6. HaveInv'
  BY <1>0, <1>1, <1>3, <1>4, <1>5 DEF PlaceInv, HaveInv
<1>7. ApartInv'
  <2> DEFINE Q == dequeue_pos_ .. Tail_ - 1
  <2>1. /\ ebuf \notin outside
        /\ \A p \in Q : /\ Queued(p) \notin outside \cup {ebuf}
                        /\ \A q \in Q : Queued(p) = Queued(q) => p = q
                        /\ \A c \in Consumers : Queued(p) # Taken(c)
        /\ \A c \in Consumers : Won(c) =>
             /\ Taken(c) \notin outside \cup {ebuf}
             /\ \A d \in Consumers : Taken(c) = Taken(d) => c = d
    BY DEF PlaceInv, ApartInv
  <2>2. /\ \A p \in Q : Queued(p) \in Buffers
        /\ \A c \in Consumers : Taken(c) \in Buffers <=> Won(c)
    BY DEF PlaceInv, HaveInv
  <2> HIDE DEF Q
  <2>3. None \notin outside
    BY <1>0
  <2>4. ASSUME NEW p \in Q \cup {epos}
        PROVE  /\ Queued(p) \notin outside \cup {None}
               /\ \A q \in Q \cup {epos} : Queued(p) = Queued(q) => p = q
               /\ \A c \in Consumers : Queued(p) # Taken(c)
    BY <1>0, <1>5, <2>1, <2>2
  <2>5. \A c \in Consumers : Won(c) =>
          /\ Taken(c) \notin outside \cup {None}
          /\ \A d \in Consumers : Taken(c) = Taken(d) => c = d
    BY <1>0, <2>1, <2>2
  <2>6. QED
    BY <1>1, <1>3, <1>4, <2>3, <2>4, <2>5 DEF ApartInv, Q
<1>8. SomewhereInv'
  <2>1. ASSUME NEW b \in Buffers
        PROVE  \/ b \in outside \cup {None}
               \/ \E p \in (dequeue_pos_ .. Tail_ - 1) \cup {epos} : Queued(p) = b
               \/ \E c \in Consumers : Taken(c) = b
    BY <1>5 DEF PlaceInv, SomewhereInv
  <2>2. QED
    BY <1>1, <1>3, <1>4, <2>1 DEF SomewhereInv
<1>9. QED
  BY <1>6, <1>7, <1>8 DEF PlaceInv

LEMMA WinBuffers ==
  ASSUME TypeOK, CellInv, PlaceInv, NEW c \in Consumers, DequeueCas(c), StillFirst(c)
  PROVE  /\ PlaceInv'
         /\ Taken(c)' = Queued(dequeue_pos_) /\ Taken(c) = dbuf[c]
         /\ \A d \in Consumers \ {c} : Taken(d)' = Taken(d)
<1>0. /\ S \in Nat /\ dequeue_pos_ \in Nat /\ Tail_ \in Nat
      /\ None \notin Buffers /\ outside \subseteq Buffers
      /\ DOMAIN dpc = Consumers
  BY CellTypes, BufferTypes
<1>1. /\ Tail_' = Tail_ /\ dpos[c] = dequeue_pos_ /\ dequeue_pos_ < Tail_
      /\ dequeue_pos_' = dequeue_pos_ + 1
      /\ dpc[c] = "cas" /\ dpc' = [dpc EXCEPT ![c] = "read"]
      /\ UNCHANGED <<cellVars, enqVars, dpos, dbuf, outside>>
  BY WinCells
<1>2. UNCHANGED <<data_, epc, epos, ebuf, dpos, dbuf, outside>>
  BY <1>1 DEF cellVars, enqVars
<1> DEFINE Q == dequeue_pos_ .. Tail_ - 1
           R == (dequeue_pos_ + 1) .. Tail_ - 1
<1>3. Q = R \cup {dequeue_pos_} /\ dequeue_pos_ \notin R /\ dequeue_pos_' .. Tail_' - 1 = R
  BY <1>0, <1>1
<1>4. /\ \A p : Queued(p)' = data_[CellOf(p)]
      /\ \A p : Queued(p) = data_[CellOf(p)]
  BY <1>2 DEF Queued
<1>5. /\ Taken(c)' = Queued(dequeue_pos_) /\ Taken(c) = dbuf[c]
      /\ \A d \in Consumers \ {c} : Taken(d)' = Taken(d) /\ (Won(d)' <=> Won(d))
      /\ Won(c)' /\ ~Won(c)
  BY <1>0, <1>1, <1>2 DEF Taken, Won, Queued
<1>6. /\ ebuf \in Buffers <=> epc # "idle"
      /\ epc = "publish" => data_[CellOf(epos)] = ebuf
      /\ \A p \in Q : Queued(p) \in Buffers
      /\ \A d \in Consumers : dbuf[d] \in Buffers <=> dpc[d] = "leave"
      /\ \A d \in Consumers : Taken(d) \in Buffers <=> Won(d)
  BY DEF PlaceInv, HaveInv
<1>7. /\ ebuf \notin outside
      /\ \A p \in Q : /\ Queued(p) \notin outside \cup {ebuf}
                      /\ \A q \in Q : Queued(p) = Queued(q) => p = q
                      /\ \A d \in Consumers : Queued(p) # Taken(d)
      /\ \A d \in Consumers : Won(d) =>
           /\ Taken(d) \notin outside \cup {ebuf}
           /\ \A e \in Consumers : Taken(d) = Taken(e) => d = e
  BY DEF PlaceInv, ApartInv
<1>8. \A b \in Buffers :
        \/ b \in outside \cup {ebuf}
        \/ \E p \in Q : Queued(p) = b
        \/ \E d \in Consumers : Taken(d) = b
  BY DEF PlaceInv, SomewhereInv
<1> HIDE DEF Q, R
<1>9. HaveInv'
  <2>1. \A d \in Consumers : dbuf'[d] \in Buffers <=> dpc'[d] = "leave"
    BY <1>0, <1>1, <1>2, <1>6
  <2>2. \A d \in Consumers : Taken(d)' \in Buffers <=> Won(d)'
    BY <1>3, <1>5, <1>6
  <2>3. QED
    BY <1>2, <1>3, <1>4, <1>6, <2>1, <2>2 DEF HaveInv
<1>10. ApartInv'
  <2>1. ASSUME NEW p \in R
        PROVE  /\ Queued(p) \notin outside \cup {ebuf}
               /\ \A q \in R : Queued(p) = Queued(q) => p = q
               /\ \A d \in Consumers : Queued(p) # Taken(d)'
    <3>1. Queued(p) # Queued(dequeue_pos_)
      BY <1>3, <1>7
    <3>2. QED
      BY <1>3, <1>5, <1>7, <3>1
  <2>2. ASSUME NEW d \in Consumers, Won(d)'
        PROVE  /\ Taken(d)' \notin outside \cup {ebuf}
               /\ \A e \in Consumers : Taken(d)' = Taken(e)' => d = e
    <3>1. CASE d = c
      BY <1>3, <1>5, <1>7, <3>1
    <3>2. CASE d # c
      BY <1>3, <1>5, <1>7, <2>2, <3>2
    <3>3. QED
      BY <3>1, <3>2
  <2>3. QED
    BY <1>2, <1>3, <1>4, <1>7, <2>1, <2>2 DEF ApartInv
<1>11. SomewhereInv'
  <2>1. ASSUME NEW b \in Buffers
        PROVE  \/ b \in outside \cup {ebuf}
               \/ \E p \in R : Queued(p) = b
               \/ \E d \in Consumers : Taken(d)' = b
    <3>1. CASE \E d \in Consumers : Taken(d) = b
      <4>1. PICK d \in Consumers : Taken(d) = b
        BY <3>1
      <4>2. d # c
        BY <1>5, <1>6, <4>1
      <4>3. QED
        BY <1>5, <4>1, <4>2
    <3>2. QED
      BY <1>3, <1>5, <1>8, <3>1
  <2>2. QED
    BY <1>2, <1>3, <1>4, <2>1 DEF SomewhereInv
<1>12. QED
  BY <1>5, <1>9, <1>10, <1>11 DEF PlaceInv

LEMMA LeaveBuffers ==
  ASSUME TypeOK, CellInv, PlaceInv, NEW c \in Consumers, DequeueLeave(c)
  PROVE  /\ PlaceInv'
         /\ Taken(c) \in Buffers /\ Taken(c)' = None
         /\ \A d \in Consumers \ {c} : Taken(d)' = Taken(d)
<1>0. /\ None \notin Buffers /\ outside \subseteq Buffers
      /\ DOMAIN dpc = Consumers /\ DOMAIN dbuf = Consumers
  BY BufferTypes
<1>1. /\ dpc[c] = "leave" /\ dpc' = [dpc EXCEPT ![c] = "idle"]
      /\ outside' = outside \cup {dbuf[c]} /\ dbuf' = [dbuf EXCEPT ![c] = None]
      /\ UNCHANGED <<data_, epc, epos, ebuf, dpos, dequeue_pos_>>
  BY DEF DequeueLeave, Goto, enqVars
<1>2. Tail_' = Tail_
  BY LeaveCells
<1>3. \A p : Queued(p)' = Queued(p)
  BY <1>1 DEF Queued
<1>4. /\ Taken(c) = dbuf[c] /\ Taken(c)' = None /\ Won(c) /\ ~Won(c)'
      /\ \A d \in Consumers \ {c} : Taken(d)' = Taken(d) /\ (Won(d)' <=> Won(d))
  BY <1>0, <1>1 DEF Taken, Won
<1>5. Taken(c) \in Buffers
  BY <1>4 DEF PlaceInv, HaveInv
<1>6. HaveInv'
  <2>1. \A d \in Consumers : dbuf'[d] \in Buffers <=> dpc'[d] = "leave"
    BY <1>0, <1>1 DEF PlaceInv, HaveInv
  <2>2. \A d \in Consumers : Taken(d)' \in Buffers <=> Won(d)'
    BY <1>0, <1>4 DEF PlaceInv, HaveInv
  <2>3. QED
    BY <1>1, <1>2, <1>3, <2>1, <2>2 DEF PlaceInv, HaveInv
<1>7. ApartInv'
  <2> DEFINE Q == dequeue_pos_ .. Tail_ - 1
  <2>1. /\ ebuf \notin outside
        /\ \A p \in Q : /\ Queued(p) \notin outside \cup {ebuf}
                        /\ \A q \in Q : Queued(p) = Queued(q) => p = q
                        /\ \A d \in Consumers : Queued(p) # Taken(d)
        /\ \A d \in Consumers : Won(d) =>
             /\ Taken(d) \notin outside \cup {ebuf}
             /\ \A e \in Consumers : Taken(d) = Taken(e) => d = e
    BY DEF PlaceInv, ApartInv
  <2>2. \A p \in Q : Queued(p) \in Buffers
    BY DEF PlaceInv, HaveInv
  <2>3. \A d \in Consumers : Taken(d) \in Buffers <=> Won(d)
    BY DEF PlaceInv, HaveInv
  <2> HIDE DEF Q
  <2>4. ebuf \notin outside \cup {dbuf[c]}
    BY <1>4, <2>1
  <2>5. ASSUME NEW p \in Q
        PROVE  /\ Queued(p) \notin outside \cup {dbuf[c]} \cup {ebuf}
               /\ \A q \in Q : Queued(p) = Queued(q) => p = q
               /\ \A d \in Consumers : Queued(p) # Taken(d)'
    BY <1>0, <1>4, <2>1, <2>2
  <2>6. ASSUME NEW d \in Consumers, Won(d)'
        PROVE  /\ Taken(d)' \notin outside \cup {dbuf[c]} \cup {ebuf}
               /\ \A e \in Consumers : Taken(d)' = Taken(e)' => d = e
    <3>1. d # c /\ Won(d) /\ Taken(d)' = Taken(d) /\ Taken(d) \in Buffers
      BY <1>4, <2>3, <2>6
    <3>2. QED
      BY <1>0, <1>4, <2>1, <3>1
  <2>7. QED
    BY <1>1, <1>2, <1>3, <2>4, <2>5, <2>6 DEF ApartInv, Q
<1>8. SomewhereInv'
  <2>1. ASSUME NEW b \in Buffers
        PROVE  \/ b \in outside \cup {dbuf[c]} \cup {ebuf}
               \/ \E p \in dequeue_pos_ .. Tail_ - 1 : Queued(p) = b
               \/ \E d \in Consumers : Taken(d)' = b
    <3>1. CASE \E d \in Consumers : Taken(d) = b
      BY <1>4, <3>1
    <3>2. QED
      BY <3>1 DEF PlaceInv, SomewhereInv
  <2>2. QED
    BY <1>1, <1>2, <1>3, <2>1 DEF SomewhereInv
<1>9. QED
  BY <1>4, <1>5, <1>6, <1>7, <1>8 DEF PlaceInv

(* Every step keeps the types: positions stay below MaxPos and what leaves *)
(* the queue is a buffer.                                                  *)
LEMMA TypeStep ==
  ASSUME IInv, [Next]_vars
  PROVE  TypeOK'
<1>0. /\ S \in Nat /\ S >= 2 /\ MaxPos \in Nat
      /\ enqueue_pos_ \in Nat /\ dequeue_pos_ \in Nat /\ epos \in Nat /\ Tail_ \in Nat
      /\ \A c \in Consumers : dpos[c] \in Nat
      /\ \A a \in Nat : CellOf(a) \in Cells
  BY CellTypes, CellFacts DEF IInv
<1>1. TypeOK /\ PosInv /\ WonInv /\ HaveInv
  BY DEF IInv, CellInv, PlaceInv
<1>2. Tail_ <= enqueue_pos_ /\ enqueue_pos_ <= MaxPos
  BY <1>0, <1>1 DEF PosInv, Tail_, TypeOK
<1>3. CASE Enqueue
  <2>1. epos' \in 0 .. MaxPos /\ epc' = "check"
    BY <1>1, <1>3 DEF Enqueue, TypeOK
  <2>2. ebuf' \in Buffers /\ outside' \subseteq Buffers
    BY <1>1, <1>3 DEF Enqueue, TypeOK
  <2>3. UNCHANGED <<cellVars, enqueue_pos_, deqVars>>
    BY <1>3 DEF Enqueue
  <2>4. QED
    BY <1>1, <2>1, <2>2, <2>3 DEF TypeOK, cellVars, deqVars
<1>4. CASE EnqueueCheck
  <2>1. enqueue_pos_' = epos + 1 /\ epc = "check" /\ epc' = "write"
        /\ UNCHANGED <<cellVars, epos, ebuf, deqVars, outside>>
    BY <1>4 DEF EnqueueCheck
  <2>2. enqueue_pos_' \in 0 .. MaxPos
    BY <1>0, <1>1, <2>1 DEF PosInv
  <2>3. QED
    BY <1>1, <2>1, <2>2 DEF TypeOK, cellVars, deqVars
<1>5. CASE EnqueueWrite
  <2>1. data_' \in [Cells -> Buffers \cup {None}]
    BY <1>0, <1>1, <1>5 DEF EnqueueWrite, TypeOK
  <2>2. epc' = "publish" /\ UNCHANGED <<sequence_, epos, ebuf, enqueue_pos_, deqVars, outside>>
    BY <1>5 DEF EnqueueWrite
  <2>3. QED
    BY <1>1, <2>1, <2>2 DEF TypeOK, deqVars
<1>6. CASE EnqueuePublish
  <2>1. epos + 1 \in Positions
    <3>1. Writing
      BY <1>6 DEF EnqueuePublish, Writing
    <3>2. enqueue_pos_ = epos + 1
      BY <1>1, <3>1 DEF PosInv
    <3>3. QED
      BY <1>0, <1>2, <3>2 DEF Positions
  <2>2. sequence_' \in [Cells -> Positions]
    BY <1>1, <1>6, <2>1 DEF EnqueuePublish, TypeOK
  <2>3. ebuf' = None /\ epc' = "idle"
        /\ UNCHANGED <<data_, epos, enqueue_pos_, deqVars, outside>>
    BY <1>6 DEF EnqueuePublish
  <2>4. QED
    BY <1>1, <2>2, <2>3 DEF TypeOK, deqVars
<1>7. ASSUME NEW c \in Consumers, LoadPos(c)
      PROVE  TypeOK'
  <2>1. dpos' \in [Consumers -> 0 .. MaxPos]
    BY <1>1, <1>7 DEF LoadPos, TypeOK
  <2>2. dpc' \in [Consumers -> {"idle", "reload", "check", "cas", "read", "leave"}]
    BY <1>1, <1>7 DEF LoadPos, Goto, TypeOK
  <2>3. UNCHANGED <<cellVars, enqVars, dbuf, dequeue_pos_, outside>>
    BY <1>7 DEF LoadPos
  <2>4. QED
    BY <1>1, <2>1, <2>2, <2>3 DEF TypeOK, cellVars, enqVars
<1>8. ASSUME NEW c \in Consumers, DequeueCheck(c)
      PROVE  TypeOK'
  <2>1. PICK l \in {"cas", "idle", "reload"} : dpc' = [dpc EXCEPT ![c] = l]
    <3>1. CASE Dif(c) = 0
      BY <1>8, <3>1 DEF DequeueCheck, Goto
    <3>2. CASE Dif(c) # 0
      BY <1>8, <3>2 DEF DequeueCheck, Goto
    <3>3. QED
      BY <3>1, <3>2
  <2>2. dpc' \in [Consumers -> {"idle", "reload", "check", "cas", "read", "leave"}]
    BY <1>1, <2>1 DEF TypeOK
  <2>3. UNCHANGED <<cellVars, enqVars, dpos, dbuf, dequeue_pos_, outside>>
    BY <1>8 DEF DequeueCheck
  <2>4. QED
    BY <1>1, <2>2, <2>3 DEF TypeOK, cellVars, enqVars
<1>9. ASSUME NEW c \in Consumers, DequeueCas(c)
      PROVE  TypeOK'
  <2>1. dpc' \in [Consumers -> {"idle", "reload", "check", "cas", "read", "leave"}]
    BY <1>1, <1>9 DEF DequeueCas, Goto, TypeOK
  <2>2. dpos' \in [Consumers -> 0 .. MaxPos]
    BY <1>1, <1>9 DEF DequeueCas, TypeOK
  <2>3. dequeue_pos_' \in 0 .. MaxPos
    <3>1. CASE StillFirst(c)
      <4>1. dequeue_pos_' = dequeue_pos_ + 1 /\ dequeue_pos_ < Tail_
        BY <1>9, <3>1, WinCells DEF IInv
      <4>2. QED
        BY <1>0, <1>2, <4>1
    <3>2. CASE ~StillFirst(c)
      BY <1>1, <1>9, <3>2 DEF DequeueCas, TypeOK
    <3>3. QED
      BY <3>1, <3>2
  <2>4. UNCHANGED <<cellVars, enqVars, dbuf, outside>>
    BY <1>9 DEF DequeueCas
  <2>5. QED
    BY <1>1, <2>1, <2>2, <2>3, <2>4 DEF TypeOK, cellVars, enqVars
<1>10. ASSUME NEW c \in Consumers, DequeueRead(c)
       PROVE  TypeOK'
  <2>1. dpc' \in [Consumers -> {"idle", "reload", "check", "cas", "read", "leave"}]
    BY <1>1, <1>10 DEF DequeueRead, Goto, TypeOK
  <2>2. data_[CellOf(dpos[c])] \in Buffers \cup {None}
    BY <1>0, <1>1 DEF TypeOK
  <2>3. dbuf' \in [Consumers -> Buffers \cup {None}]
    BY <1>1, <1>10, <2>2 DEF DequeueRead, TypeOK
  <2>4. UNCHANGED <<cellVars, enqVars, dpos, dequeue_pos_, outside>>
    BY <1>10 DEF DequeueRead
  <2>5. QED
    BY <1>1, <2>1, <2>3, <2>4 DEF TypeOK, cellVars, enqVars
<1>11. ASSUME NEW c \in Consumers, DequeueLeave(c)
       PROVE  TypeOK'
  <2>1. dpc' \in [Consumers -> {"idle", "reload", "check", "cas", "read", "leave"}]
    BY <1>1, <1>11 DEF DequeueLeave, Goto, TypeOK
  <2>2. NextRound(dpos[c]) \in Positions
    <3>1. dpos[c] \in 0 .. MaxPos
      BY <1>1 DEF TypeOK
    <3>2. QED
      BY <1>0, <3>1 DEF NextRound, Positions
  <2>3. sequence_' \in [Cells -> Positions]
    BY <1>1, <1>11, <2>2 DEF DequeueLeave, TypeOK
  <2>4. dbuf' \in [Consumers -> Buffers \cup {None}]
    BY <1>1, <1>11 DEF DequeueLeave, TypeOK
  <2>5. outside' \subseteq Buffers
    BY <1>1, <1>11 DEF DequeueLeave, TypeOK, HaveInv
  <2>6. UNCHANGED <<data_, enqVars, dpos, dequeue_pos_>>
    BY <1>11 DEF DequeueLeave
  <2>7. QED
    BY <1>1, <2>1, <2>3, <2>4, <2>5, <2>6 DEF TypeOK, enqVars
<1>12. CASE UNCHANGED vars
  BY <1>1, <1>12 DEF TypeOK, vars, cellVars, enqVars, deqVars
<1>13. QED
  BY <1>3, <1>4, <1>5, <1>6, <1>7, <1>8, <1>9, <1>10, <1>11, <1>12
     DEF Next, EnqueueStep, DequeueStep

(* Every step keeps the invariant.                                         *)
LEMMA QueueStep ==
  ASSUME IInv, [Next]_vars
  PROVE  IInv'
<1>1. TypeOK /\ CellInv /\ PlaceInv
  BY DEF IInv
<1>2. TypeOK'
  BY TypeStep
<1>3. CellInv' /\ PlaceInv'
  <2>1. CASE Enqueue
    BY <1>1, <2>1, QuietEnqueuer, EnqueueBuffers
  <2>2. CASE EnqueueCheck
    BY <1>1, <2>2, QuietEnqueuer, QuietBuffers
  <2>3. CASE EnqueueWrite
    BY <1>1, <2>3, QuietEnqueuer, WriteBuffers
  <2>4. CASE EnqueuePublish
    BY <1>1, <2>4, PublishCells, PublishBuffers
  <2>5. ASSUME NEW c \in Consumers, LoadPos(c) \/ DequeueCheck(c)
        PROVE  CellInv' /\ PlaceInv'
    BY <1>1, <2>5, QuietDequeuer, QuietBuffers
  <2>6. ASSUME NEW c \in Consumers, DequeueCas(c)
        PROVE  CellInv' /\ PlaceInv'
    <3>1. CASE StillFirst(c)
      BY <1>1, <2>6, <3>1, WinCells, WinBuffers
    <3>2. CASE ~StillFirst(c)
      BY <1>1, <2>6, <3>2, QuietDequeuer, QuietBuffers
    <3>3. QED
      BY <3>1, <3>2
  <2>7. ASSUME NEW c \in Consumers, DequeueRead(c)
        PROVE  CellInv' /\ PlaceInv'
    BY <1>1, <2>7, QuietDequeuer, ReadBuffers
  <2>8. ASSUME NEW c \in Consumers, DequeueLeave(c)
        PROVE  CellInv' /\ PlaceInv'
    BY <1>1, <2>8, LeaveCells, LeaveBuffers
  <2>9. CASE UNCHANGED vars
    <3>1. UNCHANGED <<sequence_, data_, epc, epos, ebuf, enqueue_pos_, dpc, dpos, dbuf,
                      dequeue_pos_, outside>>
      BY <2>9 DEF vars, cellVars, enqVars, deqVars
    <3>2. Tail_' = Tail_
      BY <3>1 DEF Tail_, Writing
    <3>3. CellInv'
      BY <1>1, <3>1, <3>2 DEF CellInv, PosInv, FullInv, WonInv, FreeInv, Held, Won, Writing
    <3>4. PlaceInv'
      BY <1>1, <3>1, <3>2 DEF PlaceInv, HaveInv, ApartInv, SomewhereInv, Queued, Taken, Won
    <3>5. QED
      BY <3>3, <3>4
  <2>10. QED
    BY <2>1, <2>2, <2>3, <2>4, <2>5, <2>6, <2>7, <2>8, <2>9
       DEF Next, EnqueueStep, DequeueStep
<1>4. QED
  BY <1>2, <1>3 DEF IInv

(* The empty queue.                                                        *)
LEMMA QueueInit ==
  ASSUME Init
  PROVE  IInv
<1>0. /\ S \in Nat /\ S >= 2 /\ MaxPos \in Nat /\ None \notin Buffers
  BY SpmcQueueAssumption DEF SpmcQueueAssumption
<1>1. TypeOK
  <2>1. sequence_ \in [Cells -> Positions]
    BY <1>0 DEF Init, Cells, Positions
  <2>2. QED
    BY <1>0, <2>1 DEF Init, TypeOK
<1>2. Tail_ = 0
  BY DEF Init, Tail_, Writing
<1>3. \A p \in 0 .. S - 1 : sequence_[CellOf(p)] = p
  <2>1. \A p \in 0 .. S - 1 : CellOf(p) = p /\ p \in Cells
    BY <1>0 DEF CellOf, Cells
  <2>2. QED
    BY <2>1 DEF Init
<1>4. PosInv
  BY <1>0, <1>2 DEF Init, PosInv, Writing
<1>5. FullInv /\ WonInv
  BY <1>0, <1>2 DEF Init, FullInv, WonInv, Won
<1>6. FreeInv
  BY <1>0, <1>2, <1>3 DEF FreeInv
<1>7. PlaceInv
  BY <1>0, <1>2 DEF Init, PlaceInv, HaveInv, ApartInv, SomewhereInv, Taken, Won
<1>8. QED
  BY <1>1, <1>4, <1>5, <1>6, <1>7 DEF IInv, CellInv

(* The invariant of the free list.                                         *)
THEOREM QueueInductive == Spec => []IInv
<1>1. Init => IInv
  BY QueueInit
<1>2. IInv /\ [Next]_vars => IInv'
  BY QueueStep
<1>3. QED
  BY <1>1, <1>2, PTL DEF Spec

(* Nothing but buffers goes through the cells, to dequeuers and back into  *)
(* use, and no position passes the last one enqueued.                      *)
THEOREM QueueTypes == Spec => []TypeOK
<1>1. IInv => TypeOK
  BY DEF IInv
<1>2. QED
  BY <1>1, QueueInductive, PTL

-----------------------------------------------------------------------------
(* The queue as its users see it.                                          *)

(* The published cells are the positions from dequeue_pos_ to Tail_.       *)
LEMMA View ==
  ASSUME IInv
  PROVE  /\ Tail_ - dequeue_pos_ \in Nat
         /\ absQueue = [k \in 1 .. Tail_ - dequeue_pos_ |-> Queued(dequeue_pos_ + k - 1)]
         /\ absTaken = [c \in Consumers |-> Taken(c)]
<1>0. S \in Nat /\ S >= 2 /\ dequeue_pos_ \in Nat /\ Tail_ \in Nat
  BY CellTypes DEF IInv
<1>1. dequeue_pos_ <= Tail_ /\ Tail_ <= dequeue_pos_ + S /\ FullInv /\ FreeInv
  BY DEF IInv, CellInv, PosInv
<1>2. Published = dequeue_pos_ .. Tail_ - 1
  <2>1. ASSUME NEW p \in dequeue_pos_ .. Tail_ - 1
        PROVE  p \in Published
    <3>1. p \in dequeue_pos_ .. dequeue_pos_ + S - 1
      BY <1>0, <1>1
    <3>2. QED
      BY <1>1, <3>1 DEF Published, FullInv
  <2>2. ASSUME NEW p \in Published
        PROVE  p \in dequeue_pos_ .. Tail_ - 1
    <3>1. p \in dequeue_pos_ .. dequeue_pos_ + S - 1 /\ sequence_[CellOf(p)] = p + 1
      BY DEF Published
    <3>2. CASE p >= Tail_
      <4>1. p \in Tail_ .. Tail_ + S - 1
        BY <1>0, <1>1, <3>1, <3>2
      <4>2. sequence_[CellOf(p)] = p \/ sequence_[CellOf(p)] = p - S + 1
        BY <1>1, <4>1 DEF FreeInv
      <4>3. QED
        BY <1>0, <3>1, <4>2
    <3>3. CASE p < Tail_
      BY <1>0, <3>1, <3>3
    <3>4. QED
      BY <1>0, <3>1, <3>2, <3>3
  <2>3. QED
    BY <2>1, <2>2
<1>3. Cardinality(Published) = Tail_ - dequeue_pos_
  <2>1. Cardinality(dequeue_pos_ .. Tail_ - 1)
          = IF dequeue_pos_ > Tail_ - 1 THEN 0 ELSE (Tail_ - 1) - dequeue_pos_ + 1
    BY <1>0, FS_Interval
  <2>2. QED
    BY <1>0, <1>1, <1>2, <2>1
<1>4. absQueue = [k \in 1 .. Tail_ - dequeue_pos_ |-> Queued(dequeue_pos_ + k - 1)]
  BY <1>3 DEF absQueue, Queued
<1>5. absTaken = [c \in Consumers |-> Taken(c)]
  BY DEF absTaken, Taken
<1>6. QED
  BY <1>0, <1>1, <1>4, <1>5

(* The same of the state after a step.                                     *)
LEMMA ViewNext ==
  IInv' => (/\ Tail_ - dequeue_pos_ \in Nat
            /\ absQueue = [k \in 1 .. Tail_ - dequeue_pos_ |-> Queued(dequeue_pos_ + k - 1)]
            /\ absTaken = [c \in Consumers |-> Taken(c)])'
<1>1. IInv => /\ Tail_ - dequeue_pos_ \in Nat
              /\ absQueue = [k \in 1 .. Tail_ - dequeue_pos_ |-> Queued(dequeue_pos_ + k - 1)]
              /\ absTaken = [c \in Consumers |-> Taken(c)]
  BY View
<1>2. QED
  BY <1>1, PTL

(* An element more at the end.                                             *)
LEMMA LongerIsAppend ==
  ASSUME NEW V, NEW n \in Nat, NEW f \in [1 .. n -> V], NEW v \in V,
         NEW g \in [1 .. n + 1 -> V], \A k \in 1 .. n : g[k] = f[k], g[n + 1] = v
  PROVE  g = Append(f, v)
<1>1. f \in Seq(V) /\ Len(f) = n
  BY LenProperties, SeqDef
<1>2. g \in Seq(V) /\ Len(g) = n + 1
  BY LenProperties, SeqDef
<1>3. /\ Append(f, v) \in Seq(V) /\ Len(Append(f, v)) = n + 1
      /\ \A k \in 1 .. n : Append(f, v)[k] = f[k]
      /\ Append(f, v)[n + 1] = v
  BY <1>1, AppendProperties
<1>4. \A k \in 1 .. n + 1 : g[k] = Append(f, v)[k]
  BY <1>3
<1>5. QED
  BY <1>2, <1>3, <1>4, SeqEqual

(* An element less at the front.                                           *)
LEMMA ShorterIsTail ==
  ASSUME NEW V, NEW n \in Nat, NEW f \in [1 .. n + 1 -> V],
         NEW g \in [1 .. n -> V], \A k \in 1 .. n : g[k] = f[k + 1]
  PROVE  f # <<>> /\ g = Tail(f) /\ Head(f) = f[1]
<1>1. f \in Seq(V) /\ Len(f) = n + 1
  BY LenProperties, SeqDef
<1>2. g \in Seq(V) /\ Len(g) = n
  BY LenProperties, SeqDef
<1>3. f # <<>>
  BY <1>1, EmptySeq
<1>4. /\ Tail(f) \in Seq(V) /\ Len(Tail(f)) = n /\ Head(f) = f[1]
      /\ \A k \in 1 .. n : Tail(f)[k] = f[k + 1]
  BY <1>1, <1>3, HeadTailProperties
<1>5. QED
  BY <1>2, <1>3, <1>4, SeqEqual

(* Each step appends what is published, takes the oldest value, hands a    *)
(* value on or changes nothing that the users see.                         *)
LEMMA FifoStep ==
  ASSUME IInv, [Next]_vars
  PROVE  [Abs!Next]_(Abs!vars)
<1>0. /\ S \in Nat /\ dequeue_pos_ \in Nat /\ Tail_ \in Nat /\ epos \in Nat
      /\ None \notin Buffers /\ TypeOK /\ CellInv /\ PlaceInv /\ HaveInv
  BY CellTypes, BufferTypes DEF IInv, PlaceInv
<1>1. /\ Tail_ - dequeue_pos_ \in Nat
      /\ absQueue = [k \in 1 .. Tail_ - dequeue_pos_ |-> Queued(dequeue_pos_ + k - 1)]
      /\ absTaken = [c \in Consumers |-> Taken(c)]
  BY View
<1>2. /\ (Tail_ - dequeue_pos_)' \in Nat
      /\ absQueue' = [k \in 1 .. Tail_' - dequeue_pos_' |-> data_'[CellOf(dequeue_pos_' + k - 1)]]
      /\ absTaken' = [c \in Consumers |-> Taken(c)']
  <2>1. IInv'
    BY QueueStep
  <2>2. /\ (Tail_ - dequeue_pos_)' \in Nat
        /\ absQueue' = [k \in 1 .. Tail_ - dequeue_pos_ |-> Queued(dequeue_pos_ + k - 1)]'
        /\ absTaken' = [c \in Consumers |-> Taken(c)]'
    BY <2>1, ViewNext
  <2>3. QED
    BY <2>2 DEF Queued
<1>3. \A k \in 1 .. Tail_ - dequeue_pos_ :
        /\ dequeue_pos_ + k - 1 \in dequeue_pos_ .. Tail_ - 1
        /\ absQueue[k] = Queued(dequeue_pos_ + k - 1)
        /\ absQueue[k] \in Buffers
  <2>1. \A k \in 1 .. Tail_ - dequeue_pos_ : dequeue_pos_ + k - 1 \in dequeue_pos_ .. Tail_ - 1
    BY <1>0
  <2>2. \A k \in 1 .. Tail_ - dequeue_pos_ : absQueue[k] = Queued(dequeue_pos_ + k - 1)
    BY <1>1
  <2>3. QED
    BY <1>0, <2>1, <2>2 DEF HaveInv
<1>4. absQueue \in [1 .. Tail_ - dequeue_pos_ -> Buffers]
  BY <1>1, <1>3
<1>5. ASSUME SameView
      PROVE  UNCHANGED (Abs!vars)
  <2>1. Tail_' = Tail_ /\ dequeue_pos_' = dequeue_pos_
    BY <1>5 DEF SameView
  <2>2. \A k \in 1 .. Tail_ - dequeue_pos_ : data_'[CellOf(dequeue_pos_ + k - 1)] = absQueue[k]
    BY <1>3, <1>5 DEF SameView, Queued
  <2>3. absQueue' = absQueue
    BY <1>2, <1>4, <2>1, <2>2
  <2>4. absTaken' = absTaken
    BY <1>1, <1>2, <1>5 DEF SameView
  <2>5. QED
    BY <2>3, <2>4 DEF Abs!vars
<1>6. CASE Enqueue \/ EnqueueCheck \/ EnqueueWrite
  BY <1>0, <1>5, <1>6, EnqueueBuffers, QuietBuffers, WriteBuffers
<1>7. CASE EnqueuePublish
  <2>1. epc = "publish" /\ UNCHANGED <<data_, dpc, dpos, dbuf, dequeue_pos_>>
    BY <1>7 DEF EnqueuePublish, deqVars
  <2>2. Tail_' = epos + 1 /\ epos = Tail_
    BY <1>0, <1>7, <2>1, PublishCells, CellIsFree DEF Writing
  <2>3. data_[CellOf(epos)] = ebuf /\ ebuf \in Buffers
    BY <1>0, <2>1 DEF HaveInv
  <2> DEFINE n == Tail_ - dequeue_pos_
  <2>4. n \in Nat /\ Tail_' - dequeue_pos_' = n + 1 /\ dequeue_pos_ + (n + 1) - 1 = epos
    BY <1>0, <1>1, <2>1, <2>2
  <2>5. absQueue \in [1 .. n -> Buffers]
    BY <1>4
  <2>6. absQueue' = [k \in 1 .. n + 1 |-> data_[CellOf(dequeue_pos_ + k - 1)]]
    BY <1>2, <2>1, <2>4
  <2>7. \A k \in 1 .. n : absQueue[k] = data_[CellOf(dequeue_pos_ + k - 1)]
    BY <1>3 DEF Queued
  <2> HIDE DEF n
  <2>8. n + 1 \in 1 .. n + 1 /\ \A k \in 1 .. n + 1 : k \in 1 .. n \/ k = n + 1
    BY <2>4
  <2>9. absQueue'[n + 1] = ebuf /\ \A k \in 1 .. n : absQueue'[k] = absQueue[k]
    BY <2>3, <2>4, <2>6, <2>7, <2>8
  <2>10. absQueue' \in [1 .. n + 1 -> Buffers]
    BY <2>3, <2>5, <2>6, <2>8, <2>9
  <2>11. absQueue' = Append(absQueue, ebuf)
    BY <2>3, <2>4, <2>5, <2>9, <2>10, LongerIsAppend
  <2>12. absTaken' = absTaken
    BY <1>1, <1>2, <2>1 DEF Taken
  <2>13. Abs!Enqueue
    BY <2>3, <2>11, <2>12 DEF Abs!Enqueue
  <2>14. QED
    BY <2>13 DEF Abs!Next
<1>8. ASSUME NEW c \in Consumers,
             LoadPos(c) \/ DequeueCheck(c) \/ (DequeueCas(c) /\ ~StillFirst(c)) \/ DequeueRead(c)
      PROVE  [Abs!Next]_(Abs!vars)
  BY <1>0, <1>5, <1>8, QuietBuffers, ReadBuffers
<1>9. ASSUME NEW c \in Consumers, DequeueCas(c), StillFirst(c)
      PROVE  [Abs!Next]_(Abs!vars)
  <2>1. /\ Tail_' = Tail_ /\ dequeue_pos_ < Tail_ /\ dequeue_pos_' = dequeue_pos_ + 1
        /\ data_' = data_ /\ dpc[c] = "cas"
    BY <1>0, <1>9, WinCells DEF cellVars
  <2>2. /\ Taken(c)' = Queued(dequeue_pos_) /\ Taken(c) = dbuf[c]
        /\ \A d \in Consumers \ {c} : Taken(d)' = Taken(d)
    BY <1>0, <1>9, WinBuffers
  <2> DEFINE n == Tail_ - dequeue_pos_ - 1
  <2>3. n \in Nat /\ Tail_ - dequeue_pos_ = n + 1 /\ Tail_' - dequeue_pos_' = n
    BY <1>0, <2>1
  <2>4. absQueue \in [1 .. n + 1 -> Buffers]
    BY <1>4, <2>3
  <2>5. absQueue' = [k \in 1 .. n |-> data_[CellOf(dequeue_pos_ + 1 + k - 1)]]
    BY <1>2, <2>1, <2>3
  <2>6. \A k \in 1 .. n + 1 : absQueue[k] = data_[CellOf(dequeue_pos_ + k - 1)]
    BY <1>3, <2>3 DEF Queued
  <2> HIDE DEF n
  <2>7. \A k \in 1 .. n : /\ k + 1 \in 1 .. n + 1
                          /\ dequeue_pos_ + 1 + k - 1 = dequeue_pos_ + (k + 1) - 1
    BY <1>0, <2>3
  <2>8. \A k \in 1 .. n : absQueue'[k] = absQueue[k + 1]
    BY <2>5, <2>6, <2>7
  <2>9. absQueue' \in [1 .. n -> Buffers]
    BY <2>4, <2>5, <2>7, <2>8
  <2>10. absQueue # <<>> /\ absQueue' = Tail(absQueue) /\ Head(absQueue) = absQueue[1]
    BY <2>3, <2>4, <2>8, <2>9, ShorterIsTail
  <2>11. absQueue[1] = Queued(dequeue_pos_)
    <3>1. 1 \in 1 .. n + 1 /\ dequeue_pos_ + 1 - 1 = dequeue_pos_
      BY <1>0, <2>3
    <3>2. QED
      BY <2>6, <3>1 DEF Queued
  <2>12. absTaken' = [absTaken EXCEPT ![c] = Head(absQueue)]
    BY <1>1, <1>2, <2>2, <2>10, <2>11
  <2>13. absTaken[c] = None
    <3>1. dbuf[c] \notin Buffers
      BY <1>0, <2>1 DEF HaveInv
    <3>2. dbuf[c] = None
      BY <1>0, <3>1 DEF TypeOK
    <3>3. QED
      BY <1>1, <2>2, <3>2
  <2>14. Abs!Dequeue(c)
    BY <2>10, <2>12, <2>13 DEF Abs!Dequeue
  <2>15. QED
    BY <2>14 DEF Abs!Next
<1>10. ASSUME NEW c \in Consumers, DequeueLeave(c)
       PROVE  [Abs!Next]_(Abs!vars)
  <2>1. /\ Taken(c) \in Buffers /\ Taken(c)' = None
        /\ \A d \in Consumers \ {c} : Taken(d)' = Taken(d)
    BY <1>0, <1>10, LeaveBuffers
  <2>2. Tail_' = Tail_ /\ UNCHANGED <<data_, dequeue_pos_>>
    BY <1>0, <1>10, LeaveCells DEF DequeueLeave
  <2>3. absQueue' = absQueue
    BY <1>1, <1>2, <2>2 DEF Queued
  <2>4. absTaken' = [absTaken EXCEPT ![c] = None] /\ absTaken[c] # None
    BY <1>0, <1>1, <1>2, <2>1
  <2>5. Abs!HandOn(c)
    BY <2>3, <2>4 DEF Abs!HandOn
  <2>6. QED
    BY <2>5 DEF Abs!Next
<1>11. CASE UNCHANGED vars
  <2>1. UNCHANGED <<data_, epc, epos, enqueue_pos_, dpc, dpos, dbuf, dequeue_pos_>>
    BY <1>11 DEF vars, cellVars, enqVars, deqVars
  <2>2. SameView
    BY <2>1 DEF SameView, Tail_, Writing, Queued, Taken
  <2>3. QED
    BY <1>5, <2>2
<1>12. QED
  BY <1>6, <1>7, <1>8, <1>9, <1>10, <1>11 DEF Next, EnqueueStep, DequeueStep

LEMMA FifoInit ==
  ASSUME Init
  PROVE  Abs!Init
<1>1. absQueue = [k \in 1 .. Tail_ - dequeue_pos_ |-> Queued(dequeue_pos_ + k - 1)]
  BY QueueInit, View
<1>2. Tail_ - dequeue_pos_ = 0
  BY DEF Init, Tail_, Writing
<1>3. absQueue = <<>>
  BY <1>1, <1>2
<1>4. absTaken = [c \in Consumers |-> None]
  BY DEF Init, absTaken
<1>5. QED
  BY <1>3, <1>4 DEF Abs!Init

(* The free list implements the queue of FifoQueue: a value is appended    *)
(* with the store to sequence_ and taken with the compare_exchange, in the *)
(* same order and by one dequeuer, and the enqueuer does not reuse a cell  *)
(* before its dequeuer has read it.                                        *)
THEOREM QueueIsFifo == Spec => Fifo
<1>1. Init => Abs!Init
  BY FifoInit
<1>2. IInv /\ [Next]_vars => [Abs!Next]_(Abs!vars)
  BY FifoStep
<1>3. QED
  BY <1>1, <1>2, QueueInductive, PTL DEF Spec, Fifo, Abs!Spec

(* With a single enqueuer dif is never positive in enqueue, so that the    *)
(* store without compare_exchange claims the next position.                *)
THEOREM OneEnqueuer == Spec => []EnqueuerAlone
<1>1. ASSUME IInv PROVE EnqueuerAlone
  <2>0. S \in Nat /\ S >= 2 /\ Tail_ \in Nat
    BY <1>1, CellTypes DEF IInv
  <2>1. SUFFICES ASSUME epc = "check" PROVE sequence_[CellOf(epos)] <= epos
    BY DEF EnqueuerAlone
  <2>2. epos = Tail_
    BY <1>1, <2>1 DEF IInv, CellInv, PosInv, Tail_, Writing
  <2>3. Tail_ \in Tail_ .. Tail_ + S - 1
    BY <2>0
  <2>4. sequence_[CellOf(Tail_)] = Tail_ \/ sequence_[CellOf(Tail_)] = Tail_ - S + 1
    BY <1>1, <2>3 DEF IInv, CellInv, FreeInv
  <2>5. QED
    BY <2>0, <2>2, <2>4
<1>2. QED
  BY <1>1, QueueInductive, PTL

(* dequeue returns false only when the queue is empty, also when it works  *)
(* with an old position.                                                   *)
THEOREM FalseMeansEmpty == Spec => []EmptyMeansEmpty
<1>1. ASSUME IInv PROVE EmptyMeansEmpty
  <2>0. /\ dequeue_pos_ \in Nat /\ Tail_ \in Nat
        /\ \A c \in Consumers : dpos[c] \in Nat
        /\ \A a \in Nat : sequence_[CellOf(a)] \in Nat
    BY <1>1, CellTypes DEF IInv
  <2>1. SUFFICES ASSUME NEW c \in Consumers, dpc[c] = "check", Dif(c) < 0
                 PROVE  absQueue = <<>>
    BY DEF EmptyMeansEmpty
  <2>2. sequence_[CellOf(dpos[c])] <= dpos[c]
    BY <2>0, <2>1 DEF Dif
  <2>3. /\ dpos[c] <= dequeue_pos_ /\ dequeue_pos_ <= Tail_
        /\ dpos[c] < Tail_ => sequence_[CellOf(dpos[c])] > dpos[c]
    BY <1>1 DEF IInv, CellInv, PosInv
  <2>4. Tail_ - dequeue_pos_ = 0
    BY <2>0, <2>2, <2>3
  <2>5. absQueue = [k \in 1 .. Tail_ - dequeue_pos_ |-> Queued(dequeue_pos_ + k - 1)]
    BY <1>1, View
  <2>6. QED
    BY <2>4, <2>5
<1>2. QED
  BY <1>1, QueueInductive, PTL

(* A buffer is in one place: in use, being enqueued, in the queue or with  *)
(* one dequeuer.  None is lost or handed out twice.                        *)
THEOREM EachOnce == Spec => []NoneLost
<1>1. ASSUME IInv PROVE NoneLost
  <2>1. SUFFICES ASSUME NEW b \in Buffers PROVE Places(b) = 1
    BY DEF NoneLost
  <2> DEFINE Q == dequeue_pos_ .. Tail_ - 1
             I == {i \in DOMAIN absQueue : absQueue[i] = b}
             C == {c \in Consumers : absTaken[c] = b}
  <2>2. dequeue_pos_ \in Nat /\ Tail_ \in Nat
    BY <1>1, CellTypes DEF IInv
  <2>3. /\ absQueue = [k \in 1 .. Tail_ - dequeue_pos_ |-> Queued(dequeue_pos_ + k - 1)]
        /\ absTaken = [c \in Consumers |-> Taken(c)]
    BY <1>1, View
  <2>4. I = {k \in 1 .. Tail_ - dequeue_pos_ : Queued(dequeue_pos_ + k - 1) = b}
    BY <2>3
  <2>5. C = {c \in Consumers : Taken(c) = b}
    BY <2>3
  <2>6. /\ \A k \in 1 .. Tail_ - dequeue_pos_ : dequeue_pos_ + k - 1 \in Q
        /\ \A p \in Q : /\ p - dequeue_pos_ + 1 \in 1 .. Tail_ - dequeue_pos_
                        /\ dequeue_pos_ + (p - dequeue_pos_ + 1) - 1 = p
    BY <2>2
  <2>7. Places(b) = (IF b \in outside THEN 1 ELSE 0) + (IF b = ebuf THEN 1 ELSE 0)
                    + Cardinality(I) + Cardinality(C)
    BY DEF Places
  <2>8. /\ ebuf \notin outside
        /\ \A p \in Q : /\ Queued(p) \notin outside \cup {ebuf}
                        /\ \A q \in Q : Queued(p) = Queued(q) => p = q
                        /\ \A c \in Consumers : Queued(p) # Taken(c)
        /\ \A c \in Consumers : Won(c) =>
             /\ Taken(c) \notin outside \cup {ebuf}
             /\ \A d \in Consumers : Taken(c) = Taken(d) => c = d
    BY <1>1 DEF IInv, PlaceInv, ApartInv
  <2>9. \/ b \in outside \cup {ebuf}
        \/ \E p \in Q : Queued(p) = b
        \/ \E c \in Consumers : Taken(c) = b
    BY <1>1 DEF IInv, PlaceInv, SomewhereInv
  <2>10. \A c \in Consumers : Taken(c) = b => Won(c)
    BY <1>1 DEF IInv, PlaceInv, HaveInv
  <2>11. /\ I = {} <=> ~\E p \in Q : Queued(p) = b
         /\ C = {} <=> ~\E c \in Consumers : Taken(c) = b
    BY <2>4, <2>5, <2>6
  <2> HIDE DEF Q
  <2>12. \A i, j \in I : i = j
    <3>1. SUFFICES ASSUME NEW i \in I, NEW j \in I PROVE i = j
      OBVIOUS
    <3>2. /\ i \in 1 .. Tail_ - dequeue_pos_ /\ Queued(dequeue_pos_ + i - 1) = b
          /\ j \in 1 .. Tail_ - dequeue_pos_ /\ Queued(dequeue_pos_ + j - 1) = b
      BY <2>4
    <3>3. dequeue_pos_ + i - 1 = dequeue_pos_ + j - 1
      BY <2>6, <2>8, <3>2
    <3>4. QED
      BY <2>2, <3>2, <3>3
  <2>13. \A c, d \in C : c = d
    BY <2>5, <2>8, <2>10
  <2> HIDE DEF I, C
  <2>14. Cardinality(I) = IF I = {} THEN 0 ELSE 1
    <3>1. CASE I = {}
      BY <3>1, FS_EmptySet
    <3>2. CASE I # {}
      <4>1. PICK i : I = {i}
        BY <2>12, <3>2
      <4>2. QED
        BY <3>2, <4>1, FS_Singleton
    <3>3. QED
      BY <3>1, <3>2
  <2>15. Cardinality(C) = IF C = {} THEN 0 ELSE 1
    <3>1. CASE C = {}
      BY <3>1, FS_EmptySet
    <3>2. CASE C # {}
      <4>1. PICK c : C = {c}
        BY <2>13, <3>2
      <4>2. QED
        BY <3>2, <4>1, FS_Singleton
    <3>3. QED
      BY <3>1, <3>2
  <2>16. CASE b \in outside
    <3>1. b # ebuf /\ I = {} /\ C = {}
      BY <2>8, <2>10, <2>11, <2>16
    <3>2. QED
      BY <2>7, <2>14, <2>15, <2>16, <3>1
  <2>17. CASE b = ebuf
    <3>1. b \notin outside /\ I = {} /\ C = {}
      BY <2>8, <2>10, <2>11, <2>17
    <3>2. QED
      BY <2>7, <2>14, <2>15, <2>17, <3>1
  <2>18. CASE \E p \in Q : Queued(p) = b
    <3>1. b \notin outside /\ b # ebuf /\ I # {} /\ C = {}
      BY <2>8, <2>11, <2>18
    <3>2. QED
      BY <2>7, <2>14, <2>15, <3>1
  <2>19. CASE \E c \in Consumers : Taken(c) = b
    <3>1. b \notin outside /\ b # ebuf /\ I = {} /\ C # {}
      BY <2>8, <2>10, <2>11, <2>19
    <3>2. QED
      BY <2>7, <2>14, <2>15, <3>1
  <2>20. QED
    BY <2>9, <2>16, <2>17, <2>18, <2>19
<1>2. QED
  BY <1>1, QueueInductive, PTL
===============================================================================
