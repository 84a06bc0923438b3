--------------------------- MODULE LogSafety_proofs ---------------------------
(* Safety of the broadcast log, for any number of nodes, threads and log   *)
(* buffers, as long as the position counter has not wrapped and some node  *)
(* stays subscribed.  The argument is the inductive invariant of module    *)
(* LogInvariant.                                                           *)
EXTENDS LogManager_proofs, FiniteSetTheorems

-----------------------------------------------------------------------------
(* Arithmetic of slots.                                                    *)

(* Quotient and remainder.                                                 *)
LEMMA Division ==
  ASSUME NEW a \in Int, NEW b \in Nat \ {0}
  PROVE  a \div b \in Int /\ a % b \in 0 .. b - 1 /\ a = b * (a \div b) + (a % b)
<1>1. a \div b \in Int
  OBVIOUS
<1>2. a % b \in 0 .. b - 1
  BY ModRange
<1>3. a = b * (a \div b) + (a % b)
  OBVIOUS
<1>4. QED
  BY <1>1, <1>2, <1>3

(* Below the modulus the remainder is the number itself.                   *)
LEMMA SmallMod ==
  ASSUME NEW a \in Nat, NEW b \in Nat \ {0}, a < b
  PROVE  a % b = a
  OBVIOUS

(* A multiple of b lies strictly between 0 and b for no factor.            *)
LEMMA NoMultiple ==
  ASSUME NEW b \in Nat \ {0}, NEW q \in Int, 0 < b * q, b * q < b
  PROVE  FALSE
<1>1. CASE q <= 0
  BY <1>1
<1>2. CASE q >= 1
  BY <1>2
<1>3. QED
  BY <1>1, <1>2

(* Two positions less than a round apart have different slots.             *)
LEMMA SlotsDiffer ==
  ASSUME NEW a \in Nat, NEW b \in Nat, NEW c \in Nat \ {0}, a < b, b < a + c
  PROVE  a % c # b % c
<1> DEFINE qa == a \div c
           qb == b \div c
           ra == a % c
           rb == b % c
<1>1. qa \in Int /\ a = c * qa + ra /\ ra \in 0 .. c - 1
  BY Division
<1>2. qb \in Int /\ b = c * qb + rb /\ rb \in 0 .. c - 1
  BY Division
<1> SUFFICES ra # rb
  OBVIOUS
<1> HIDE DEF qa, qb, ra, rb
<1>3. SUFFICES ASSUME ra = rb PROVE FALSE
  OBVIOUS
<1>4. b - a = c * (qb - qa)
  BY <1>1, <1>2, <1>3
<1>5. 0 < c * (qb - qa) /\ c * (qb - qa) < c /\ qb - qa \in Int
  BY <1>1, <1>2, <1>4
<1>6. QED
  BY <1>5, NoMultiple

(* One round later is the same slot.                                       *)
LEMMA SameSlot ==
  ASSUME NEW a \in Nat, NEW c \in Nat \ {0}
  PROVE  (a + c) % c = a % c
<1> DEFINE qa == a \div c
           qb == (a + c) \div c
           ra == a % c
           rb == (a + c) % c
<1>1. qa \in Int /\ a = c * qa + ra /\ ra \in 0 .. c - 1
  BY Division
<1>2. qb \in Int /\ a + c = c * qb + rb /\ rb \in 0 .. c - 1
  <2> DEFINE d == a + c
  <2>1. d \in Int
    OBVIOUS
  <2> HIDE DEF d
  <2>2. d \div c \in Int /\ d = c * (d \div c) + (d % c) /\ d % c \in 0 .. c - 1
    BY <2>1, Division
  <2>3. QED
    BY <2>2 DEF d
<1> SUFFICES ra = rb
  OBVIOUS
<1> HIDE DEF qa, qb, ra, rb
<1>3. rb - ra = c * (qa + 1 - qb) /\ ra - rb = c * (qb - (qa + 1))
  BY <1>1, <1>2
<1>4. CASE ra < rb
  BY <1>1, <1>2, <1>3, <1>4, NoMultiple
<1>5. CASE rb < ra
  BY <1>1, <1>2, <1>3, <1>5, NoMultiple
<1>6. QED
  BY <1>1, <1>2, <1>4, <1>5
-----------------------------------------------------------------------------
(* The facts about positions and slots that the steps below use.           *)
LEMMA Slotting ==
  /\ \A a, b \in Nat : a # b /\ a < b + LOG_COUNT /\ b < a + LOG_COUNT
                       => get_idx(a) # get_idx(b)
  /\ \A a \in Nat : get_idx(a + LOG_COUNT) = get_idx(a)
  /\ \A a \in Nat : a < IdxMod => a % IdxMod = a
<1>1. LOG_COUNT \in Nat \ {0} /\ IdxMod \in Nat \ {0}
  BY LogManagerAssumption DEF LogManagerAssumption
<1>2. ASSUME NEW a \in Nat, NEW b \in Nat,
             a # b, a < b + LOG_COUNT, b < a + LOG_COUNT
      PROVE  get_idx(a) # get_idx(b)
  <2>1. CASE a < b
    BY <1>1, <1>2, <2>1, SlotsDiffer DEF get_idx
  <2>2. CASE b < a
    BY <1>1, <1>2, <2>2, SlotsDiffer DEF get_idx
  <2>3. QED
    BY <1>2, <2>1, <2>2
<1>3. \A a \in Nat : get_idx(a + LOG_COUNT) = get_idx(a)
  BY <1>1, SameSlot DEF get_idx
<1>4. \A a \in Nat : a < IdxMod => a % IdxMod = a
  BY <1>1, SmallMod
<1>5. QED
  BY <1>2, <1>3, <1>4

(* The number of integers from a up to but not including b.                *)
LEMMA IntervalCardinality ==
  ASSUME NEW a \in Nat, NEW b \in Nat, a <= b
  PROVE  IsFiniteSet(a .. b - 1) /\ Cardinality(a .. b - 1) = b - a
<1>1. b - 1 \in Int /\ a \in Int
  OBVIOUS
<1>2. /\ IsFiniteSet(a .. b - 1)
      /\ Cardinality(a .. b - 1) = IF a > b - 1 THEN 0 ELSE (b - 1) - a + 1
  BY <1>1, FS_Interval
<1>3. QED
  BY <1>2

(* Counting buffers: if every position from f to e is stamped on a buffer  *)
(* and one more buffer has no position, the positions are fewer than the   *)
(* buffers.                                                                *)
LEMMA Pigeonhole ==
  ASSUME NEW st \in [Logs -> Int], NEW f \in Nat, NEW e \in Nat, f <= e,
         \A k \in f .. e - 1 : \E l \in Logs : st[l] = k,
         \E l \in Logs : st[l] = -1
  PROVE  e < f + LOG_COUNT
<1> DEFINE S == {st[l] : l \in Logs}
           P == f .. e - 1
           T == P \cup {-1}
<1>1. LOG_COUNT \in Nat
  BY LogManagerAssumption DEF LogManagerAssumption
<1>2. IsFiniteSet(Logs) /\ Cardinality(Logs) = LOG_COUNT
  BY <1>1, IntervalCardinality DEF Logs
<1>3. IsFiniteSet(S) /\ Cardinality(S) <= LOG_COUNT
  <2>1. st \in Surjection(Logs, S)
    BY DEF Surjection
  <2> HIDE DEF S
  <2>2. QED
    BY <1>2, <2>1, FS_Surjection
<1>4. IsFiniteSet(P) /\ Cardinality(P) = e - f
  BY IntervalCardinality
<1>5. -1 \notin P
  OBVIOUS
<1>6. Cardinality(T) = e - f + 1
  BY <1>4, <1>5, FS_AddElement
<1>7. T \subseteq S
  OBVIOUS
<1>8. Cardinality(T) <= Cardinality(S)
  BY <1>3, <1>7, FS_Subset
<1>9. Cardinality(S) \in Nat
  BY <1>3, FS_CardinalityType
<1> HIDE DEF S, P, T
<1>10. QED
  BY <1>1, <1>3, <1>6, <1>8, <1>9
-----------------------------------------------------------------------------
(* The states from which the invariant is kept.                            *)
Pre == TypeOK /\ IInv /\ NoWrap /\ Pinned # {}

Outside == Labels \ {"fill", "set_rel", "set_log", "set_idx"}

(* Thread q keeps its label, or moves between labels without a buffer.     *)
SameHold(q) == pc'[q] = pc[q] \/ (pc[q] \in Outside /\ pc'[q] \in Outside)

(* Freed is a natural number that no subscribed node is behind, and all    *)
(* counters are below the wrap.                                            *)
LEMMA Counters ==
  ASSUME Pre
  PROVE  /\ LOG_COUNT \in Nat \ {0} /\ IdxMod \in Nat
         /\ tail \in Nat /\ bound \in Nat /\ gc_k \in Nat /\ new_b \in Nat
         /\ head \in [Subs -> Nat] /\ t \in [Producers -> Nat]
         /\ Freed \in Nat
         /\ \A n \in Subs : is_subbed[n] => Freed <= head[n]
         /\ bound <= tail + LOG_COUNT
<1> USE LogManagerAssumption DEF LogManagerAssumption
<1>1. LOG_COUNT \in Nat \ {0} /\ IdxMod \in Nat
  OBVIOUS
<1>2. tail \in Nat /\ bound \in Nat /\ gc_k \in Nat /\ new_b \in Nat
  BY DEF Pre, TypeOK, Idx
<1>3. head \in [Subs -> Nat] /\ t \in [Producers -> Nat]
  BY DEF Pre, TypeOK, Idx
<1>4. CASE InLoop
  <2>1. PICK p \in Producers : pc[p] \in {"gc_log", "gc_enq"}
    BY <1>4 DEF InLoop
  <2>2. bound <= gc_k /\ gc_k <= new_b /\ bound >= LOG_COUNT
    BY <2>1 DEF Pre, IInv, GcInv
  <2>3. \A n \in Subs : is_subbed[n] => new_b <= head[n] + LOG_COUNT
    BY <2>1 DEF Pre, IInv, GcInv
  <2>4. Freed = gc_k - LOG_COUNT
    BY <1>4 DEF Freed
  <2>5. Freed \in Nat /\ \A n \in Subs : is_subbed[n] => Freed <= head[n]
    BY <1>1, <1>2, <1>3, <2>2, <2>3, <2>4
  <2>6. Freed <= tail
    BY DEF Pre, IInv, RingInv, RingWindow
  <2>7. QED
    BY <1>1, <1>2, <1>3, <2>2, <2>4, <2>5, <2>6
<1>5. CASE ~InLoop
  <2>1. Freed = bound - LOG_COUNT
    BY <1>5 DEF Freed
  <2>2. bound >= LOG_COUNT /\ \A n \in Subs : is_subbed[n] => bound <= head[n] + LOG_COUNT
    BY DEF Pre, IInv, GcInv
  <2>3. Freed <= tail
    BY DEF Pre, IInv, RingInv, RingWindow
  <2>4. QED
    BY <1>1, <1>2, <1>3, <2>1, <2>2, <2>3
<1>6. QED
  BY <1>4, <1>5

(* Below the wrap the index functions are the plain ones.                  *)
LEMMA Plain ==
  ASSUME Pre
  PROVE  /\ \A i \in Nat : i <= tail => Inc(i) = i + 1
         /\ \A i \in Nat : i <= tail + LOG_COUNT => next_round(i) = i + LOG_COUNT
         /\ \A i \in Nat : i < tail + 2 * LOG_COUNT => Inc(i) = i + 1
<1>1. tail + 2 * LOG_COUNT < IdxMod
  BY DEF Pre, NoWrap
<1>2. LOG_COUNT \in Nat /\ IdxMod \in Nat /\ tail \in Nat /\ LOG_COUNT > 0
  BY Counters
<1>3. ASSUME NEW i \in Nat, i < tail + 2 * LOG_COUNT PROVE Inc(i) = i + 1
  <2>1. i + 1 \in Nat /\ i + 1 < IdxMod
    BY <1>1, <1>2, <1>3
  <2>2. QED
    BY <2>1, Slotting DEF Inc
<1>4. ASSUME NEW i \in Nat, i <= tail + LOG_COUNT PROVE next_round(i) = i + LOG_COUNT
  <2>1. i + LOG_COUNT \in Nat /\ i + LOG_COUNT < IdxMod
    BY <1>1, <1>2, <1>4
  <2>2. QED
    BY <2>1, Slotting DEF next_round
<1>5. QED
  BY <1>2, <1>3, <1>4

(* The parts of the invariant that a step leaves alone.                    *)
LEMMA RingFrame ==
  ASSUME RingInv, Freed' = Freed, pc \in [Producers -> Labels],
         UNCHANGED <<tail, pubVars, histVars, t, lg, rel>>,
         \A q \in Producers : SameHold(q)
  PROVE  RingInv'
<1> USE DEF pubVars, histVars
<1>0. \A q \in Producers : /\ Claimed(q)' <=> Claimed(q)
                           /\ Claimed(q) => pc'[q] = pc[q]
  BY DEF Claimed, SameHold, Outside
<1>1. RingWindow' /\ PubBehind'
  BY DEF RingInv, RingWindow, PubBehind
<1>2. Covered'
  BY <1>0 DEF RingInv, Covered, Pub, get_idx
<1>3. ClaimsHeld'
  BY <1>0 DEF RingInv, ClaimsHeld, get_idx
<1>4. ClaimsDiffer'
  BY <1>0 DEF RingInv, ClaimsDiffer
<1>5. QED
  BY <1>1, <1>2, <1>3, <1>4 DEF RingInv

LEMMA BufFrame ==
  ASSUME BufInv, Freed' = Freed, pc \in [Producers -> Labels],
         UNCHANGED <<freelist, stamp, lg>>,
         \A q \in Producers : pc'[q] = "fill" => pc[q] = "fill"
  PROVE  BufInv'
<1>1. FreeDistinct' /\ FreeOld'
  BY DEF BufInv, FreeDistinct, FreeOld, IsFree
<1>2. FillFresh'
  BY DEF BufInv, FillFresh, IsFree
<1>3. QED
  BY <1>1, <1>2 DEF BufInv

LEMMA ConsFrame ==
  ASSUME ConsInv,
         UNCHANGED <<tail, head, consVars, histVars, t>>,
         \A n \in Subs : is_subbed'[n] => is_subbed[n],
         \A q \in Producers : Claimed(q)' => Claimed(q)
  PROVE  ConsInv'
BY DEF ConsInv, Ready, consVars, histVars
LEMMA GcFrame ==
  ASSUME GcInv, UNCHANGED <<bound, gcVars, pub_log, head>>,
         \A n \in Subs : is_subbed'[n] => is_subbed[n],
         \A n \in Pinned : is_subbed'[n],
         \A q \in Producers : pc'[q] = pc[q]
            \/ pc'[q] \notin {"scan", "scan_head", "gc_log", "gc_enq"}
  PROVE  GcInv'
BY DEF GcInv, gcVars, get_idx

LEMMA FreedFrame ==
  ASSUME UNCHANGED <<bound, gc_k>>,
         \A q \in Producers : pc'[q] \in {"gc_log", "gc_enq"}
                              <=> pc[q] \in {"gc_log", "gc_enq"}
  PROVE  Freed' = Freed
BY DEF Freed, InLoop

(* What is left to keep once gc_mtx is known to be held properly.          *)
Main == GcInv /\ RingInv /\ BufInv /\ ConsInv

(* A step that changes only control outside of the ring and the buffers.   *)
LEMMA QuietStep ==
  ASSUME Pre, NEW p \in Producers, NEW l \in Outside, pc[p] \in Outside,
         l \notin {"scan", "scan_head", "gc_log", "gc_enq"},
         pc[p] \notin {"gc_log", "gc_enq"},
         pc' = [pc EXCEPT ![p] = l],
         UNCHANGED <<tail, pubVars, subVars, freelist, bound, gcVars, lg, t,
                     consVars, histVars>>,
         \A q \in Producers \ {p} : rel'[q] = rel[q]
  PROVE  Main'
<1>1. pc \in [Producers -> Labels]
  BY DEF Pre, TypeOK
<1>2. Freed' = Freed
  BY <1>1, FreedFrame DEF gcVars
<1>3. \A q \in Producers : /\ Claimed(q)' <=> Claimed(q)
                           /\ Claimed(q) => q # p /\ pc'[q] = pc[q]
  BY <1>1 DEF Claimed, Outside
<1>4. GcInv'
  BY <1>1, GcFrame DEF Pre, IInv, GcInv, pubVars, subVars
<1>5. BufInv'
  BY <1>1, <1>2, BufFrame DEF Pre, IInv, histVars, Outside
<1>6. ConsInv'
  BY <1>1, <1>3, ConsFrame DEF Pre, IInv, subVars
<1>7. RingInv'
  <2> USE DEF pubVars, histVars
  <2>1. RingWindow' /\ PubBehind'
    BY <1>2 DEF Pre, IInv, RingInv, RingWindow, PubBehind
  <2>2. Covered'
    BY <1>2, <1>3 DEF Pre, IInv, RingInv, Covered, Pub, get_idx
  <2>3. ClaimsHeld'
    BY <1>2, <1>3 DEF Pre, IInv, RingInv, ClaimsHeld, get_idx
  <2>4. ClaimsDiffer'
    BY <1>3 DEF Pre, IInv, RingInv, ClaimsDiffer
  <2>5. QED
    BY <2>1, <2>2, <2>3, <2>4 DEF RingInv
<1>8. QED
  BY <1>4, <1>5, <1>6, <1>7 DEF Main

(* p takes a buffer from the free list.                                    *)
LEMMA TakeFreeKeeps ==
  ASSUME Pre, NEW p \in Producers, pc[p] \in Outside, TakeFree(p), Freed' = Freed,
         UNCHANGED <<tail, pubVars, subVars, srel, t, rel, consVars>>
  PROVE  RingInv' /\ BufInv' /\ ConsInv'
<1> DEFINE L == Head(freelist)
<1>1. /\ pc \in [Producers -> Labels] /\ lg \in [Producers -> Logs]
      /\ stamp \in [Logs -> Idx \cup {-1}] /\ freelist \in Seq(Logs)
      /\ pub_log \in [Slots -> Logs] /\ clog \in [Subs -> Logs]
  BY DEF Pre, TypeOK
<1>2. L \in Logs /\ Len(freelist) \in Nat \ {0} /\ L = freelist[1]
  BY <1>1 DEF TakeFree
<1>3. stamp[L] < Freed
  BY <1>1, <1>2 DEF Pre, IInv, BufInv, FreeOld, IsFree
<1>4. /\ pc' = [pc EXCEPT ![p] = "fill"] /\ lg' = [lg EXCEPT ![p] = L]
      /\ stamp' = [stamp EXCEPT ![L] = -1] /\ freelist' = Tail(freelist)
  BY DEF TakeFree, Goto
<1>5. /\ Len(freelist') = Len(freelist) - 1
      /\ \A i \in 1 .. Len(freelist) - 1 : freelist'[i] = freelist[i + 1]
  BY <1>1, <1>2, <1>4
<1>6. \A q \in Producers : /\ Claimed(q)' <=> Claimed(q)
                           /\ Claimed(q) => q # p /\ pc'[q] = pc[q] /\ lg'[q] = lg[q]
  BY <1>1, <1>4 DEF Claimed, Outside
<1>7. Freed \in Nat /\ t \in [Producers -> Nat] /\ head \in [Subs -> Nat]
      /\ \A n \in Subs : is_subbed[n] => Freed <= head[n]
  BY Counters
<1> HIDE DEF L
<1>8. \A l \in Logs : stamp[l] \in Int /\ (stamp[l] >= Freed => stamp'[l] = stamp[l])
  BY <1>1, <1>2, <1>3, <1>4, <1>7 DEF Idx
<1>9. RingInv'
  <2> USE DEF pubVars
  <2>1. RingWindow' /\ PubBehind'
    BY DEF Pre, IInv, RingInv, RingWindow, PubBehind
  <2>2. Covered'
    <3> SUFFICES ASSUME NEW k \in Idx, Freed <= k, k < tail
                 PROVE  Pub(k)' \/ \E q \in Producers : Claimed(q)' /\ t'[q] = k
      BY DEF Covered
    <3>1. k \in Nat /\ get_idx(k) \in Slots
      BY IdxTypes DEF Idx
    <3>2. CASE Pub(k)
      BY <1>1, <1>8, <3>1, <3>2 DEF Pub, get_idx
    <3>3. CASE \E q \in Producers : Claimed(q) /\ t[q] = k
      BY <1>6, <3>3
    <3>4. QED
      BY <3>2, <3>3 DEF Pre, IInv, RingInv, Covered
  <2>3. ClaimsHeld'
    BY <1>1, <1>6, <1>7, <1>8 DEF Pre, IInv, RingInv, ClaimsHeld, get_idx
  <2>4. ClaimsDiffer'
    BY <1>6 DEF Pre, IInv, RingInv, ClaimsDiffer
  <2>5. QED
    BY <2>1, <2>2, <2>3, <2>4 DEF RingInv
<1>10. BufInv'
  <2>1. FreeDistinct'
    BY <1>1, <1>2, <1>5 DEF Pre, IInv, BufInv, FreeDistinct
  <2>2. \A l \in Logs : IsFree(l)' => IsFree(l) /\ l # L
    BY <1>1, <1>2, <1>5 DEF IsFree, Pre, IInv, BufInv, FreeDistinct
  <2>3. FreeOld'
    BY <1>1, <1>2, <1>4, <2>2 DEF Pre, IInv, BufInv, FreeOld
  <2>4. FillFresh'
    <3>1. \A q \in Producers : pc[q] = "fill" => lg[q] # L /\ ~IsFree(lg[q])
      BY <1>2 DEF Pre, IInv, BufInv, FillFresh, IsFree
    <3>2. QED
      BY <1>1, <1>2, <1>4, <2>2, <3>1 DEF Pre, IInv, BufInv, FillFresh, Outside
  <2>5. QED
    BY <2>1, <2>3, <2>4 DEF BufInv
<1>11. ConsInv'
  BY <1>1, <1>6, <1>7, <1>8 DEF Pre, IInv, ConsInv, Ready, consVars, subVars
<1>12. QED
  BY <1>9, <1>10, <1>11
-----------------------------------------------------------------------------
(* The steps of get_new_log.                                               *)

(* The collecting thread is alone.                                         *)
LEMMA Alone ==
  ASSUME Pre, NEW p \in Producers,
         pc[p] \in {"recheck", "scan", "scan_head", "gc_log", "gc_enq"}
  PROVE  \A q \in Producers \ {p} :
           pc[q] \notin {"recheck", "scan", "scan_head", "gc_log", "gc_enq"}
BY DEF Pre, IInv, LockInv

LEMMA BeginKeeps ==
  ASSUME Pre, NEW p \in Producers, Begin(p)
  PROVE  Main'
<1>1. rel \in [Producers -> BOOLEAN]
  BY DEF Pre, TypeOK
<1>2. PICK r \in BOOLEAN : rel' = [rel EXCEPT ![p] = r]
  BY DEF Begin
<1>3. "get" \in Outside /\ pc[p] \in Outside /\ pc[p] = "idle"
  BY DEF Begin, Outside, Labels
<1>4. \A q \in Producers \ {p} : rel'[q] = rel[q]
  BY <1>1, <1>2
<1>5. QED
  BY <1>3, <1>4, QuietStep DEF Begin, Goto

LEMMA GetLogKeeps ==
  ASSUME Pre, NEW p \in Producers, GetLog(p)
  PROVE  Main'
<1>1. pc \in [Producers -> Labels]
  BY DEF Pre, TypeOK
<1>2. "lock" \in Outside /\ pc[p] \in Outside /\ pc[p] = "get"
  BY DEF GetLog, Outside, Labels
<1>3. CASE freelist = <<>> /\ Goto(p, "lock") /\ UNCHANGED <<lg, stamp, freelist>>
  BY <1>2, <1>3, QuietStep DEF GetLog, Goto, histVars
<1>4. CASE TakeFree(p)
  <2>1. pc' = [pc EXCEPT ![p] = "fill"]
    BY <1>4 DEF TakeFree, Goto
  <2>2. Freed' = Freed
    BY <1>1, <1>2, <2>1, FreedFrame DEF GetLog, gcVars
  <2>3. RingInv' /\ BufInv' /\ ConsInv'
    BY <1>2, <1>4, <2>2, TakeFreeKeeps DEF GetLog
  <2>4. GcInv'
    BY <1>1, <2>1, GcFrame DEF Pre, IInv, GcInv, GetLog, pubVars, subVars
  <2>5. QED
    BY <2>3, <2>4 DEF Main
<1>5. QED
  BY <1>3, <1>4 DEF GetLog

LEMMA GcLockKeeps ==
  ASSUME Pre, NEW p \in Producers, GcLock(p)
  PROVE  Main'
<1>1. "recheck" \in Outside /\ pc[p] \in Outside /\ pc[p] = "lock"
  BY DEF GcLock, Outside, Labels
<1>2. QED
  BY <1>1, QuietStep DEF GcLock, Goto

(* A step of the collection that moves only locals of perform_gc: the      *)
(* ring, the buffers and the consumers do not notice.                      *)
LEMMA LocalStep ==
  ASSUME Pre, NEW p \in Producers, NEW l \in Outside, pc[p] \in Outside,
         pc' = [pc EXCEPT ![p] = l], Freed' = Freed,
         UNCHANGED <<tail, pubVars, subVars, freelist, lg, t, rel,
                     consVars, histVars>>
  PROVE  RingInv' /\ BufInv' /\ ConsInv'
<1>1. pc \in [Producers -> Labels]
  BY DEF Pre, TypeOK
<1>2. \A q \in Producers : SameHold(q)
  BY <1>1 DEF SameHold
<1>3. \A q \in Producers : Claimed(q)' => Claimed(q)
  BY <1>1 DEF Claimed, Outside
<1>4. RingInv'
  BY <1>1, <1>2, RingFrame DEF Pre, IInv
<1>5. BufInv'
  BY <1>1, BufFrame DEF Pre, IInv, histVars, Outside
<1>6. ConsInv'
  BY <1>3, ConsFrame DEF Pre, IInv, subVars
<1>7. QED
  BY <1>4, <1>5, <1>6

LEMMA RecheckKeeps ==
  ASSUME Pre, NEW p \in Producers, Recheck(p)
  PROVE  Main'
<1>1. pc \in [Producers -> Labels]
  BY DEF Pre, TypeOK
<1>2. "scan" \in Outside /\ pc[p] \in Outside /\ pc[p] = "recheck"
  BY DEF Recheck, Outside, Labels
<1>3. CASE TakeFree(p) /\ gc_mtx' = Nobody /\ UNCHANGED gcVars
  <2>1. pc' = [pc EXCEPT ![p] = "fill"]
    BY <1>3 DEF TakeFree, Goto
  <2>2. Freed' = Freed
    BY <1>1, <1>2, <1>3, <2>1, FreedFrame DEF Recheck, gcVars
  <2>3. RingInv' /\ BufInv' /\ ConsInv'
    BY <1>2, <1>3, <2>2, TakeFreeKeeps DEF Recheck
  <2>4. GcInv'
    BY <1>1, <1>3, <2>1, GcFrame DEF Pre, IInv, GcInv, Recheck, pubVars, subVars
  <2>5. QED
    BY <2>3, <2>4 DEF Main
<1>4. CASE /\ freelist = <<>> /\ Goto(p, "scan")
           /\ new_b' = next_round(bound) /\ subscribed' = 0 /\ gc_sub' = 0
           /\ UNCHANGED <<lg, stamp, freelist, gc_mtx, gc_k, gc_log>>
  <2>1. pc' = [pc EXCEPT ![p] = "scan"]
    BY <1>4 DEF Goto
  <2>2. Freed' = Freed
    BY <1>1, <1>2, <1>4, <2>1, FreedFrame DEF Recheck
  <2>3. RingInv' /\ BufInv' /\ ConsInv'
    BY <1>2, <1>4, <2>1, <2>2, LocalStep DEF Recheck, histVars
  <2>4. new_b' = bound + LOG_COUNT /\ bound \in Nat /\ LOG_COUNT \in Nat
    BY <1>4, Counters, Plain
  <2>5. \A q \in Producers : q # p =>
          pc'[q] \notin {"scan", "scan_head", "gc_log", "gc_enq"}
    BY <1>1, <1>2, <2>1, Alone
  <2>6. \A n \in Subs : ~(n < 0)
    BY DEF Subs
  <2>7. Pinned \subseteq Subs
    BY LogManagerAssumption DEF LogManagerAssumption, Subs
  <2>8. GcInv'
    BY <1>1, <1>4, <2>1, <2>4, <2>5, <2>6, <2>7
    DEF Pre, IInv, GcInv, Recheck, subVars
  <2>9. QED
    BY <2>3, <2>8 DEF Main
<1>5. QED
  BY <1>3, <1>4 DEF Recheck
-----------------------------------------------------------------------------
(* The steps of perform_gc.                                                *)

LEMMA GcScanKeeps ==
  ASSUME Pre, NEW p \in Producers, GcScan(p)
  PROVE  Main'
<1>1. pc \in [Producers -> Labels] /\ gc_sub \in 0 .. NODE_COUNT
  BY DEF Pre, TypeOK
<1>2. pc[p] = "scan" /\ pc[p] \in Outside /\ {"gc_log", "scan_head", "scan"} \subseteq Outside
  BY DEF GcScan, Outside, Labels
<1>3. Pinned \subseteq Subs /\ NODE_COUNT \in Nat /\ Subs \subseteq 0 .. NODE_COUNT - 1
  BY LogManagerAssumption DEF LogManagerAssumption, Subs
<1>4. \A q \in Producers : q # p => pc[q] \notin {"scan", "scan_head", "gc_log", "gc_enq"}
  BY <1>2, Alone
<1>5. LOG_COUNT \in Nat /\ bound \in Nat /\ new_b \in Nat /\ head \in [Subs -> Nat]
  BY Counters
<1>6. /\ GcInv /\ bound <= new_b /\ new_b <= bound + LOG_COUNT
      /\ \A n \in Subs : n < gc_sub /\ is_subbed[n] => new_b <= head[n] + LOG_COUNT
      /\ \A n \in Pinned : n < gc_sub => subscribed = 1
  BY <1>2 DEF Pre, IInv, GcInv
<1>7. CASE ScanOver /\ gc_k' = bound /\ Goto(p, "gc_log") /\ UNCHANGED <<gc_sub, subscribed>>
  <2>1. pc' = [pc EXCEPT ![p] = "gc_log"]
    BY <1>7 DEF Goto
  <2>2. Freed' = Freed
    <3>1. ~InLoop /\ InLoop'
      BY <1>1, <1>2, <1>4, <2>1 DEF InLoop
    <3>2. QED
      BY <1>7, <3>1 DEF Freed, GcScan
  <2>3. RingInv' /\ BufInv' /\ ConsInv'
    BY <1>2, <2>1, <2>2, LocalStep DEF GcScan
  <2>4. subscribed = 1 /\ \A n \in Subs : is_subbed[n] => new_b <= head[n] + LOG_COUNT
    <3>1. \A n \in Subs : n < gc_sub
      BY <1>3, <1>7 DEF ScanOver
    <3>2. QED
      BY <1>3, <1>6, <3>1 DEF Pre
  <2>5. GcInv'
    BY <1>1, <1>2, <1>4, <1>5, <1>6, <1>7, <2>1, <2>4 DEF GcInv, GcScan, subVars
  <2>6. QED
    BY <2>3, <2>5 DEF Main
<1>8. CASE /\ ~ScanOver /\ gc_sub \notin Subscribed /\ gc_sub' = gc_sub + 1
           /\ UNCHANGED <<pc, subscribed, gc_k>>
  <2>1. pc' = [pc EXCEPT ![p] = "scan"]
    BY <1>1, <1>2, <1>8
  <2>2. Freed' = Freed
    BY <1>8, FreedFrame DEF GcScan
  <2>3. RingInv' /\ BufInv' /\ ConsInv'
    BY <1>2, <2>1, <2>2, LocalStep DEF GcScan
  <2>4. \A n \in Subs : n < gc_sub' /\ is_subbed[n] => n < gc_sub
    BY <1>1, <1>3, <1>8 DEF Subscribed
  <2>5. GcInv'
    BY <1>1, <1>2, <1>3, <1>4, <1>6, <1>8, <2>4 DEF GcInv, GcScan, subVars
  <2>6. QED
    BY <2>3, <2>5 DEF Main
<1>9. CASE /\ gc_sub \in Subscribed /\ subscribed' = 1 /\ Goto(p, "scan_head")
           /\ UNCHANGED <<gc_sub, gc_k>>
  <2>1. pc' = [pc EXCEPT ![p] = "scan_head"]
    BY <1>9 DEF Goto
  <2>2. Freed' = Freed
    BY <1>1, <1>2, <1>9, <2>1, FreedFrame DEF GcScan
  <2>3. RingInv' /\ BufInv' /\ ConsInv'
    BY <1>2, <2>1, <2>2, LocalStep DEF GcScan
  <2>4. GcInv'
    BY <1>1, <1>2, <1>4, <1>6, <1>9, <2>1 DEF GcInv, GcScan, subVars
  <2>5. QED
    BY <2>3, <2>4 DEF Main
<1>10. QED
  BY <1>7, <1>8, <1>9 DEF GcScan, FirstToFree

LEMMA GcScanHeadKeeps ==
  ASSUME Pre, NEW p \in Producers, GcScanHead(p)
  PROVE  Main'
<1>1. pc \in [Producers -> Labels] /\ gc_sub \in 0 .. NODE_COUNT /\ head \in [Subs -> Idx]
  BY DEF Pre, TypeOK
<1>2. /\ pc[p] = "scan_head" /\ pc[p] \in Outside /\ "scan" \in Outside
      /\ pc' = [pc EXCEPT ![p] = "scan"] /\ gc_sub' = gc_sub + 1
  BY DEF GcScanHead, Outside, Labels, Goto
<1>3. Pinned \subseteq Subs /\ NODE_COUNT \in Nat /\ Subs \subseteq 0 .. NODE_COUNT - 1
  BY LogManagerAssumption DEF LogManagerAssumption, Subs
<1>4. \A q \in Producers : q # p => pc[q] \notin {"scan", "scan_head", "gc_log", "gc_enq"}
  BY <1>2, Alone
<1>5. /\ LOG_COUNT \in Nat /\ bound \in Nat /\ new_b \in Nat /\ head \in [Subs -> Nat]
      /\ tail \in Nat
  BY Counters
<1>6. /\ GcInv /\ bound <= new_b /\ new_b <= bound + LOG_COUNT /\ subscribed = 1
      /\ \A n \in Subs : n < gc_sub /\ is_subbed[n] => new_b <= head[n] + LOG_COUNT
      /\ \A n \in Subs : is_subbed[n] => bound <= head[n] + LOG_COUNT
      /\ gc_sub \in Subs
  BY <1>2 DEF Pre, IInv, GcInv, LockInv
<1> DEFINE h == next_round(head[gc_sub])
<1>7. h \in Nat
  BY <1>1, <1>6, IdxTypes DEF Idx
<1>8. is_subbed[gc_sub] => h = head[gc_sub] + LOG_COUNT /\ h >= bound
  <2> SUFFICES ASSUME is_subbed[gc_sub] PROVE h = head[gc_sub] + LOG_COUNT /\ h >= bound
    OBVIOUS
  <2>1. head[gc_sub] <= Ready(gc_sub) /\ Ready(gc_sub) <= tail /\ Ready(gc_sub) \in Nat
    BY <1>5, <1>6 DEF Pre, IInv, ConsInv, Ready
  <2>2. head[gc_sub] \in Nat /\ head[gc_sub] <= tail + LOG_COUNT
    BY <1>5, <1>6, <2>1
  <2>3. QED
    BY <1>5, <1>6, <2>2, Plain
<1>9. new_b' = IF h < new_b /\ h >= bound THEN h ELSE new_b
  BY DEF GcScanHead, LimitedBy
<1> HIDE DEF h
<1>10. Freed' = Freed
  BY <1>1, <1>2, FreedFrame DEF GcScanHead
<1>11. RingInv' /\ BufInv' /\ ConsInv'
  BY <1>2, <1>10, LocalStep DEF GcScanHead
<1>12. /\ new_b' \in Nat /\ bound <= new_b' /\ new_b' <= bound + LOG_COUNT
       /\ \A n \in Subs : n < gc_sub' /\ is_subbed[n] => new_b' <= head[n] + LOG_COUNT
  <2>1. new_b' \in Nat /\ bound <= new_b' /\ new_b' <= new_b
    BY <1>5, <1>6, <1>7, <1>9
  <2>2. is_subbed[gc_sub] => new_b' <= head[gc_sub] + LOG_COUNT
    BY <1>5, <1>6, <1>8, <1>9
  <2>3. \A n \in Subs : n < gc_sub' => n < gc_sub \/ n = gc_sub
    BY <1>1, <1>2, <1>3
  <2>4. QED
    BY <1>5, <1>6, <2>1, <2>2, <2>3
<1>13. GcInv'
  BY <1>1, <1>2, <1>4, <1>6, <1>12 DEF GcInv, GcScanHead, subVars
<1>14. QED
  BY <1>11, <1>13 DEF Main

LEMMA GcLoadLogKeeps ==
  ASSUME Pre, NEW p \in Producers, GcLoadLog(p)
  PROVE  Main'
<1>1. pc \in [Producers -> Labels]
  BY DEF Pre, TypeOK
<1>2. /\ pc[p] = "gc_log" /\ pc[p] \in Outside /\ "gc_enq" \in Outside
      /\ pc' = [pc EXCEPT ![p] = "gc_enq"]
  BY DEF GcLoadLog, Outside, Labels, Goto
<1>3. \A q \in Producers : q # p => pc[q] \notin {"scan", "scan_head", "gc_log", "gc_enq"}
  BY <1>2, Alone
<1>4. new_b \in Nat /\ gc_k \in Nat
  BY Counters
<1>5. Freed' = Freed
  BY <1>1, <1>2, FreedFrame DEF GcLoadLog
<1>6. RingInv' /\ BufInv' /\ ConsInv'
  BY <1>2, <1>5, LocalStep DEF GcLoadLog
<1>7. GcInv'
  BY <1>1, <1>2, <1>3, <1>4 DEF Pre, IInv, GcInv, GcLoadLog, subVars, pubVars, get_idx
<1>8. QED
  BY <1>6, <1>7 DEF Main

LEMMA GcDoneKeeps ==
  ASSUME Pre, NEW p \in Producers, GcDone(p)
  PROVE  Main'
<1>1. pc \in [Producers -> Labels]
  BY DEF Pre, TypeOK
<1>2. /\ pc[p] = "gc_log" /\ pc[p] \in Outside /\ "get" \in Outside
      /\ pc' = [pc EXCEPT ![p] = "fill"] \/ pc' = [pc EXCEPT ![p] = "get"]
  BY DEF GcDone, Outside, Labels, Goto, TakeFree
<1>3. \A q \in Producers : pc'[q] \notin {"scan", "scan_head", "gc_log", "gc_enq"}
  BY <1>1, <1>2, Alone
<1>4. /\ LOG_COUNT \in Nat /\ bound \in Nat /\ new_b \in Nat /\ head \in [Subs -> Nat]
  BY Counters
<1>5. Freed' = Freed
  BY <1>2, <1>3 DEF Freed, InLoop, GcDone
<1>6. RingInv' /\ BufInv' /\ ConsInv'
  <2>1. CASE TakeFree(p)
    BY <1>2, <1>5, <2>1, TakeFreeKeeps DEF GcDone
  <2>2. CASE freelist = <<>> /\ Goto(p, "get") /\ UNCHANGED <<lg, stamp, freelist>>
    BY <1>2, <1>5, <2>2, LocalStep DEF GcDone, Goto, histVars
  <2>3. QED
    BY <2>1, <2>2 DEF GcDone
<1>7. GcInv'
  BY <1>2, <1>3, <1>4 DEF Pre, IInv, GcInv, GcDone, subVars
<1>8. QED
  BY <1>6, <1>7 DEF Main

(* The entry whose buffer is collected was consumed by the pinned node:    *)
(* it is published, and no thread is still filling it.                     *)
LEMMA CollectedIsPublished ==
  ASSUME Pre, NEW p \in Producers, pc[p] = "gc_enq"
  PROVE  /\ Freed = gc_k - LOG_COUNT /\ Freed < tail
         /\ get_idx(gc_k) = get_idx(Freed) /\ Pub(Freed)
         /\ \A q \in Producers : Claimed(q) => Freed < t[q]
<1>1. /\ LOG_COUNT \in Nat /\ new_b \in Nat /\ gc_k \in Nat /\ tail \in Nat
      /\ IdxMod \in Nat /\ head \in [Subs -> Nat] /\ t \in [Producers -> Nat] /\ Freed \in Nat
  BY Counters
<1>2. Freed = gc_k - LOG_COUNT
  BY DEF Freed, InLoop
<1>3. PICK n \in Pinned : TRUE
  BY DEF Pre
<1>4. n \in Subs /\ is_subbed[n] /\ gc_k < new_b /\ new_b <= head[n] + LOG_COUNT
  <2>1. n \in Subs
    BY LogManagerAssumption DEF LogManagerAssumption, Subs
  <2>2. QED
    BY <2>1 DEF Pre, IInv, GcInv
<1>5. Ready(n) \in Nat /\ Freed < Ready(n)
  BY <1>1, <1>2, <1>4 DEF Ready
<1>6. Ready(n) <= tail /\ \A q \in Producers : Claimed(q) => Ready(n) <= t[q]
  BY <1>4 DEF Pre, IInv, ConsInv
<1>7. Freed < tail /\ \A q \in Producers : Claimed(q) => Freed < t[q]
  BY <1>1, <1>5, <1>6
<1>8. get_idx(gc_k) = get_idx(Freed)
  <2>1. gc_k = Freed + LOG_COUNT
    BY <1>1, <1>2
  <2>2. QED
    BY <1>1, <2>1, Slotting
<1>9. Freed \in Idx /\ Freed <= Freed
  BY <1>1, <1>7 DEF Pre, TypeOK, Idx
<1>10. Pub(Freed) \/ \E q \in Producers : Claimed(q) /\ t[q] = Freed
  BY <1>7, <1>9 DEF Pre, IInv, RingInv, Covered
<1>11. QED
  BY <1>1, <1>2, <1>7, <1>8, <1>10

LEMMA GcEnqueueKeeps ==
  ASSUME Pre, NEW p \in Producers, GcEnqueue(p)
  PROVE  Main'
<1>1. /\ pc \in [Producers -> Labels] /\ freelist \in Seq(Logs) /\ gc_log \in Logs
      /\ stamp \in [Logs -> Idx \cup {-1}] /\ lg \in [Producers -> Logs]
  BY DEF Pre, TypeOK
<1>2. /\ pc[p] = "gc_enq" /\ pc[p] \in Outside /\ "gc_log" \in Outside
      /\ pc' = [pc EXCEPT ![p] = "gc_log"]
  BY DEF GcEnqueue, Outside, Labels, Goto
<1>3. \A q \in Producers : q # p => pc[q] \notin {"scan", "scan_head", "gc_log", "gc_enq"}
  BY <1>2, Alone
<1>4. /\ LOG_COUNT \in Nat /\ bound \in Nat /\ new_b \in Nat /\ gc_k \in Nat
      /\ tail \in Nat /\ head \in [Subs -> Nat] /\ t \in [Producers -> Nat]
      /\ Freed \in Nat /\ bound <= tail + LOG_COUNT
  BY Counters
<1>5. /\ GcInv /\ subscribed = 1 /\ bound <= gc_k /\ gc_k < new_b
      /\ new_b <= bound + LOG_COUNT /\ gc_log = pub_log[get_idx(gc_k)]
  BY <1>2 DEF Pre, IInv, GcInv
<1>6. /\ Freed = gc_k - LOG_COUNT /\ Freed < tail /\ stamp[gc_log] = Freed
      /\ \A q \in Producers : Claimed(q) => Freed < t[q]
  BY <1>2, <1>5, CollectedIsPublished DEF Pub
<1>7. gc_k' = gc_k + 1 /\ freelist' = Append(freelist, gc_log) /\ UNCHANGED new_b
  <2>1. gc_k < tail + 2 * LOG_COUNT
    BY <1>4, <1>5
  <2>2. Inc(gc_k) = gc_k + 1
    BY <1>4, <2>1, Plain
  <2>3. QED
    BY <1>5, <2>2 DEF GcEnqueue
<1>8. Freed' = Freed + 1
  <2>1. InLoop'
    BY <1>1, <1>2 DEF InLoop
  <2>2. QED
    BY <1>4, <1>6, <1>7, <2>1 DEF Freed
<1>9. UNCHANGED <<tail, pubVars, subVars, bound, lg, t, rel, subscribed, gc_log, consVars, histVars>>
  BY DEF GcEnqueue
<1>10. \A q \in Producers : /\ Claimed(q)' <=> Claimed(q)
                            /\ Claimed(q) => pc'[q] = pc[q]
                            /\ pc'[q] = "fill" <=> pc[q] = "fill"
  BY <1>1, <1>2 DEF Claimed, Outside
<1>11. GcInv'
  BY <1>1, <1>2, <1>3, <1>4, <1>5, <1>7, <1>9 DEF GcInv, subVars
<1>12. RingInv'
  <2> USE <1>9 DEF pubVars, histVars
  <2>1. RingWindow' /\ PubBehind'
    BY <1>4, <1>6, <1>8 DEF Pre, IInv, RingInv, RingWindow, PubBehind
  <2>2. Covered'
    <3> SUFFICES ASSUME NEW k \in Idx, Freed + 1 <= k, k < tail
                 PROVE  Pub(k)' \/ \E q \in Producers : Claimed(q)' /\ t'[q] = k
      BY <1>8 DEF Covered
    <3>1. Freed <= k
      BY <1>4 DEF Idx
    <3>2. Pub(k) \/ \E q \in Producers : Claimed(q) /\ t[q] = k
      BY <3>1 DEF Pre, IInv, RingInv, Covered
    <3>3. QED
      BY <1>10, <3>2 DEF Pub, get_idx
  <2>3. ClaimsHeld'
    BY <1>4, <1>6, <1>8, <1>10 DEF Pre, IInv, RingInv, ClaimsHeld, get_idx
  <2>4. ClaimsDiffer'
    BY <1>10 DEF Pre, IInv, RingInv, ClaimsDiffer
  <2>5. QED
    BY <2>1, <2>2, <2>3, <2>4 DEF RingInv
<1>13. BufInv'
  <2> USE <1>9 DEF histVars
  <2>1. ~IsFree(gc_log)
    BY <1>1, <1>4, <1>6 DEF Pre, IInv, BufInv, FreeOld
  <2>2. /\ Len(freelist') = Len(freelist) + 1 /\ Len(freelist) \in Nat
        /\ \A i \in 1 .. Len(freelist) : freelist'[i] = freelist[i]
        /\ freelist'[Len(freelist) + 1] = gc_log
    BY <1>1, <1>7
  <2>3. FreeDistinct'
    BY <2>1, <2>2 DEF Pre, IInv, BufInv, FreeDistinct, IsFree
  <2>4. \A l \in Logs : IsFree(l)' => IsFree(l) \/ l = gc_log
    BY <2>2 DEF IsFree
  <2>5. FreeOld'
    <3>1. \A l \in Logs : stamp[l] \in Int
      BY <1>1 DEF Idx
    <3>2. QED
      BY <1>4, <1>6, <1>8, <2>4, <3>1 DEF Pre, IInv, BufInv, FreeOld
  <2>6. FillFresh'
    BY <1>1, <1>4, <1>6, <1>10, <2>4 DEF Pre, IInv, BufInv, FillFresh
  <2>7. QED
    BY <2>3, <2>5, <2>6 DEF BufInv
<1>14. ConsInv'
  BY <1>9, <1>10, ConsFrame DEF Pre, IInv, subVars
<1>15. QED
  BY <1>11, <1>12, <1>13, <1>14 DEF Main
-----------------------------------------------------------------------------
(* The steps of produce_tail.                                              *)

(* A thread that holds a filled buffer finds room in the ring.             *)
LEMMA RoomToClaim ==
  ASSUME Pre, NEW p \in Producers, pc[p] = "fill"
  PROVE  tail < Freed + LOG_COUNT
<1>1. /\ tail \in Nat /\ Freed \in Nat /\ IdxMod \in Nat /\ LOG_COUNT \in Nat
  BY Counters
<1>2. /\ stamp \in [Logs -> Idx \cup {-1}] /\ lg \in [Producers -> Logs]
      /\ pub_log \in [Slots -> Logs] /\ tail \in Idx
  BY DEF Pre, TypeOK
<1>3. stamp \in [Logs -> Int]
  BY <1>2 DEF Idx
<1>4. \A k \in Freed .. tail - 1 : \E l \in Logs : stamp[l] = k
  <2> SUFFICES ASSUME NEW k \in Freed .. tail - 1 PROVE \E l \in Logs : stamp[l] = k
    OBVIOUS
  <2>1. k \in Idx /\ Freed <= k /\ k < tail /\ k \in Nat
    BY <1>1, <1>2 DEF Idx
  <2>2. get_idx(k) \in Slots
    BY <2>1, IdxTypes
  <2>3. CASE Pub(k)
    BY <1>2, <2>2, <2>3 DEF Pub
  <2>4. CASE \E q \in Producers : Claimed(q) /\ t[q] = k
    BY <1>2, <2>4 DEF Pre, IInv, RingInv, ClaimsHeld
  <2>5. QED
    BY <2>1, <2>3, <2>4 DEF Pre, IInv, RingInv, Covered
<1>5. \E l \in Logs : stamp[l] = -1
  BY <1>2 DEF Pre, IInv, BufInv, FillFresh
<1>6. Freed <= tail
  BY DEF Pre, IInv, RingInv, RingWindow
<1>7. QED
  BY <1>1, <1>3, <1>4, <1>5, <1>6, Pigeonhole

LEMMA ClaimKeeps ==
  ASSUME Pre, NEW p \in Producers, Claim(p)
  PROVE  Main'
<1>1. /\ pc \in [Producers -> Labels] /\ lg \in [Producers -> Logs]
      /\ stamp \in [Logs -> Idx \cup {-1}] /\ srel \in [Logs -> BOOLEAN]
      /\ pub_log \in [Slots -> Logs] /\ clog \in [Subs -> Logs] /\ tail \in Idx
      /\ pub_idx \in [Slots -> Idx]
  BY DEF Pre, TypeOK
<1>2. /\ tail \in Nat /\ Freed \in Nat /\ IdxMod \in Nat /\ LOG_COUNT \in Nat
      /\ head \in [Subs -> Nat] /\ t \in [Producers -> Nat]
  BY Counters
<1>3. pc[p] = "fill" /\ tail < Freed + LOG_COUNT /\ tail' = tail + 1 /\ Freed <= tail
  BY <1>2, RoomToClaim, Plain DEF Claim, Pre, IInv, RingInv, RingWindow
<1>4. /\ pc' = [pc EXCEPT ![p] = "set_rel"] /\ t' = [t EXCEPT ![p] = tail]
      /\ stamp' = [stamp EXCEPT ![lg[p]] = tail]
      /\ srel' = [srel EXCEPT ![lg[p]] = rel[p]]
      /\ UNCHANGED <<pubVars, subVars, freelist, bound, lg, rel, gcVars, consVars>>
  BY DEF Claim, Goto
<1>5. stamp[lg[p]] = -1 /\ ~IsFree(lg[p])
  BY <1>3 DEF Pre, IInv, BufInv, FillFresh
<1>6. \A l \in Logs : stamp[l] # -1 \/ IsFree(l) => l # lg[p] /\ stamp'[l] = stamp[l] /\ srel'[l] = srel[l]
  BY <1>1, <1>4, <1>5
<1>7. Freed' = Freed
  BY <1>1, <1>3, <1>4, FreedFrame DEF gcVars
<1>8. \A q \in Producers : /\ q # p => (Claimed(q)' <=> Claimed(q)) /\ pc'[q] = pc[q] /\ t'[q] = t[q]
                           /\ Claimed(q) => q # p
  BY <1>1, <1>2, <1>3, <1>4 DEF Claimed
<1>9. Claimed(p)' /\ t'[p] = tail /\ pc'[p] = "set_rel"
  BY <1>1, <1>2, <1>4 DEF Claimed
<1>10. GcInv'
  BY <1>1, <1>4, GcFrame DEF Pre, IInv, GcInv, pubVars, subVars
<1>11. RingInv'
  <2> USE <1>4 DEF pubVars
  <2>1. RingWindow'
    BY <1>2, <1>3, <1>7 DEF RingWindow
  <2>2. PubBehind'
    BY <1>1, <1>2, <1>3 DEF Pre, IInv, RingInv, PubBehind, Idx
  <2>3. Covered'
    <3> SUFFICES ASSUME NEW k \in Idx, Freed <= k, k < tail + 1
                 PROVE  Pub(k)' \/ \E q \in Producers : Claimed(q)' /\ t'[q] = k
      BY <1>3, <1>7 DEF Covered
    <3>1. k \in Nat /\ get_idx(k) \in Slots
      BY IdxTypes DEF Idx
    <3>2. CASE k = tail
      BY <1>9, <3>2
    <3>3. CASE k < tail /\ Pub(k)
      BY <1>1, <1>6, <3>1, <3>3 DEF Pub, get_idx
    <3>4. CASE k < tail /\ \E q \in Producers : Claimed(q) /\ t[q] = k
      BY <1>8, <3>4
    <3>5. QED
      BY <1>2, <3>1, <3>2, <3>3, <3>4 DEF Pre, IInv, RingInv, Covered
  <2>4. ClaimsHeld'
    <3> SUFFICES ASSUME NEW q \in Producers, Claimed(q)'
                 PROVE  /\ Freed <= t'[q] /\ t'[q] < tail + 1
                        /\ stamp'[lg[q]] = t'[q] /\ srel'[lg[q]] = rel[q]
                        /\ pub_idx[get_idx(t'[q])] <= t'[q]
                        /\ pc'[q] \in {"set_log", "set_idx"} => pub_rel[get_idx(t'[q])] = rel[q]
                        /\ pc'[q] = "set_idx" => pub_log[get_idx(t'[q])] = lg[q]
      BY <1>3, <1>7 DEF ClaimsHeld, get_idx
    <3>1. CASE q = p
      <4>1. get_idx(tail) \in Slots
        BY <1>1, IdxTypes
      <4>2. QED
        BY <1>1, <1>2, <1>3, <1>9, <3>1, <4>1 DEF Pre, IInv, RingInv, PubBehind
    <3>2. CASE q # p
      <4>1. Claimed(q) /\ pc'[q] = pc[q] /\ t'[q] = t[q] /\ t[q] \in Nat
        BY <1>2, <1>8, <3>2
      <4>2. stamp[lg[q]] = t[q] /\ lg[q] \in Logs
        BY <1>1, <4>1 DEF Pre, IInv, RingInv, ClaimsHeld
      <4>3. stamp'[lg[q]] = stamp[lg[q]] /\ srel'[lg[q]] = srel[lg[q]]
        BY <1>6, <4>1, <4>2
      <4>4. QED
        BY <1>2, <4>1, <4>2, <4>3 DEF Pre, IInv, RingInv, ClaimsHeld
    <3>3. QED
      BY <3>1, <3>2
  <2>5. ClaimsDiffer'
    <3>1. \A q \in Producers : Claimed(q) => t[q] < tail
      BY DEF Pre, IInv, RingInv, ClaimsHeld
    <3>2. QED
      BY <1>2, <1>8, <1>9, <3>1 DEF Pre, IInv, RingInv, ClaimsDiffer
  <2>6. QED
    BY <2>1, <2>2, <2>3, <2>4, <2>5 DEF RingInv
<1>12. BufInv'
  <2>1. FreeDistinct' /\ FreeOld'
    BY <1>4, <1>6, <1>7 DEF Pre, IInv, BufInv, FreeDistinct, FreeOld, IsFree
  <2>2. FillFresh'
    BY <1>1, <1>3, <1>4 DEF Pre, IInv, BufInv, FillFresh, IsFree
  <2>3. QED
    BY <2>1, <2>2 DEF BufInv
<1>13. ConsInv'
  <2> SUFFICES ASSUME NEW n \in Subs, is_subbed[n]
               PROVE  /\ Ready(n) <= tail + 1
                      /\ \A q \in Producers : Claimed(q)' => Ready(n) <= t'[q]
                      /\ cpc[n] = "process" =>
                           stamp'[clog[n]] = head[n] /\ srel'[clog[n]] = crel[n]
    BY <1>3, <1>4 DEF ConsInv, Ready, subVars, consVars
  <2>1. Ready(n) \in Nat /\ Ready(n) <= tail
    BY <1>2 DEF Pre, IInv, ConsInv, Ready
  <2>2. \A q \in Producers : Claimed(q)' => Ready(n) <= t'[q]
    BY <1>8, <1>9, <2>1 DEF Pre, IInv, ConsInv
  <2>3. ASSUME cpc[n] = "process"
        PROVE  stamp'[clog[n]] = head[n] /\ srel'[clog[n]] = crel[n]
    <3>1. /\ stamp[clog[n]] = head[n] /\ srel[clog[n]] = crel[n]
          /\ clog[n] \in Logs /\ head[n] \in Nat
      BY <1>1, <1>2, <2>3 DEF Pre, IInv, ConsInv
    <3>2. QED
      BY <1>6, <3>1
  <2>4. QED
    BY <1>2, <2>1, <2>2, <2>3
<1>14. QED
  BY <1>10, <1>11, <1>12, <1>13 DEF Main

(* The slot that a thread fills belongs to no other live position.         *)
LEMMA OwnSlot ==
  ASSUME Pre, NEW p \in Producers, Claimed(p)
  PROVE  /\ t[p] \in Idx /\ t[p] \in Nat /\ get_idx(t[p]) \in Slots
         /\ \A k \in Nat : Freed <= k /\ k < tail /\ k # t[p] =>
              get_idx(k) # get_idx(t[p])
<1>1. /\ tail \in Nat /\ Freed \in Nat /\ LOG_COUNT \in Nat
      /\ t \in [Producers -> Nat]
  BY Counters
<1>2. t[p] \in Idx /\ get_idx(t[p]) \in Slots
  BY IdxTypes DEF Pre, TypeOK
<1>3. Freed <= t[p] /\ t[p] < tail /\ tail <= Freed + LOG_COUNT
  BY DEF Pre, IInv, RingInv, RingWindow, ClaimsHeld
<1>4. ASSUME NEW k \in Nat, Freed <= k, k < tail, k # t[p]
      PROVE  get_idx(k) # get_idx(t[p])
  <2>1. k < t[p] + LOG_COUNT /\ t[p] < k + LOG_COUNT
    BY <1>1, <1>3, <1>4
  <2>2. QED
    BY <1>1, <1>4, <2>1, Slotting
<1>5. QED
  BY <1>1, <1>2, <1>4

(* The same for the claims and the published positions.                    *)
LEMMA OthersAway ==
  ASSUME Pre, NEW p \in Producers, Claimed(p)
  PROVE  /\ \A q \in Producers \ {p} : Claimed(q) =>
              t[q] # t[p] /\ get_idx(t[q]) # get_idx(t[p]) /\ get_idx(t[q]) \in Slots
         /\ \A k \in Idx : Freed <= k /\ k < tail /\ k # t[p] =>
              get_idx(k) # get_idx(t[p]) /\ get_idx(k) \in Slots
<1>1. t \in [Producers -> Nat] /\ t \in [Producers -> Idx] /\ Idx \subseteq Nat
  BY Counters DEF Pre, TypeOK, Idx
<1>2. \A q \in Producers \ {p} : Claimed(q) => t[q] # t[p] /\ Freed <= t[q] /\ t[q] < tail
  BY DEF Pre, IInv, RingInv, ClaimsDiffer, ClaimsHeld
<1>3. \A k \in Idx : get_idx(k) \in Slots
  BY IdxTypes
<1>4. QED
  BY <1>1, <1>2, <1>3, OwnSlot

LEMMA SetRelKeeps ==
  ASSUME Pre, NEW p \in Producers, SetRel(p)
  PROVE  Main'
<1>1. pc \in [Producers -> Labels] /\ pub_rel \in [Slots -> BOOLEAN]
  BY DEF Pre, TypeOK
<1>2. /\ pc[p] = "set_rel" /\ Claimed(p) /\ pc' = [pc EXCEPT ![p] = "set_log"]
      /\ pub_rel' = [pub_rel EXCEPT ![get_idx(t[p])] = rel[p]]
      /\ UNCHANGED <<tail, pub_log, pub_idx, subVars, freelist, bound, lg, t, rel,
                     gcVars, consVars, histVars>>
  BY DEF SetRel, Goto, Claimed
<1>3. Freed' = Freed
  BY <1>1, <1>2, FreedFrame DEF gcVars
<1>4. \A q \in Producers : /\ Claimed(q)' <=> Claimed(q)
                           /\ q # p => pc'[q] = pc[q]
  BY <1>1, <1>2 DEF Claimed
<1>5. GcInv'
  BY <1>1, <1>2, GcFrame DEF Pre, IInv, GcInv, subVars
<1>6. BufInv'
  BY <1>1, <1>2, <1>3, BufFrame DEF Pre, IInv, histVars
<1>7. ConsInv'
  BY <1>2, <1>4, ConsFrame DEF Pre, IInv, subVars
<1>8. RingInv'
  <2> USE <1>2 DEF histVars
  <2>1. RingWindow' /\ PubBehind'
    BY <1>3 DEF Pre, IInv, RingInv, RingWindow, PubBehind
  <2>2. Covered'
    <3> SUFFICES ASSUME NEW k \in Idx, Freed <= k, k < tail
                 PROVE  Pub(k)' \/ \E q \in Producers : Claimed(q)' /\ t'[q] = k
      BY <1>3 DEF Covered
    <3>1. CASE k = t[p]
      BY <1>4, <3>1
    <3>2. CASE k # t[p] /\ Pub(k)
      <4>1. get_idx(k) # get_idx(t[p]) /\ get_idx(k) \in Slots
        BY <3>2, OthersAway
      <4>2. pub_rel'[get_idx(k)] = pub_rel[get_idx(k)]
        BY <1>1, <4>1
      <4>3. QED
        BY <3>2, <4>2 DEF Pub, get_idx
    <3>3. CASE \E q \in Producers : Claimed(q) /\ t[q] = k
      BY <1>4, <3>3
    <3>4. QED
      BY <3>1, <3>2, <3>3 DEF Pre, IInv, RingInv, Covered
  <2>3. ClaimsHeld'
    <3> SUFFICES ASSUME NEW q \in Producers, Claimed(q)
                 PROVE  /\ Freed <= t[q] /\ t[q] < tail
                        /\ stamp[lg[q]] = t[q] /\ srel[lg[q]] = rel[q]
                        /\ pub_idx[get_idx(t[q])] <= t[q]
                        /\ pc'[q] \in {"set_log", "set_idx"} => pub_rel'[get_idx(t[q])] = rel[q]
                        /\ pc'[q] = "set_idx" => pub_log[get_idx(t[q])] = lg[q]
      BY <1>3, <1>4 DEF ClaimsHeld, get_idx
    <3>1. CASE q = p
      BY <1>1, <3>1, OwnSlot DEF Pre, IInv, RingInv, ClaimsHeld
    <3>2. CASE q # p
      <4>1. get_idx(t[q]) # get_idx(t[p]) /\ get_idx(t[q]) \in Slots
        BY <3>2, OthersAway
      <4>2. pub_rel'[get_idx(t[q])] = pub_rel[get_idx(t[q])]
        BY <1>1, <4>1
      <4>3. QED
        BY <1>4, <3>2, <4>2 DEF Pre, IInv, RingInv, ClaimsHeld
    <3>3. QED
      BY <3>1, <3>2
  <2>4. ClaimsDiffer'
    BY <1>4 DEF Pre, IInv, RingInv, ClaimsDiffer
  <2>5. QED
    BY <2>1, <2>2, <2>3, <2>4 DEF RingInv
<1>9. QED
  BY <1>5, <1>6, <1>7, <1>8 DEF Main

LEMMA SetLogKeeps ==
  ASSUME Pre, NEW p \in Producers, SetLog(p)
  PROVE  Main'
<1>1. pc \in [Producers -> Labels] /\ pub_log \in [Slots -> Logs]
  BY DEF Pre, TypeOK
<1>2. /\ pc[p] = "set_log" /\ Claimed(p) /\ pc' = [pc EXCEPT ![p] = "set_idx"]
      /\ pub_log' = [pub_log EXCEPT ![get_idx(t[p])] = lg[p]]
      /\ UNCHANGED <<tail, pub_rel, pub_idx, subVars, freelist, bound, lg, t, rel,
                     gcVars, consVars, histVars>>
  BY DEF SetLog, Goto, Claimed
<1>3. Freed' = Freed
  BY <1>1, <1>2, FreedFrame DEF gcVars
<1>4. \A q \in Producers : /\ Claimed(q)' <=> Claimed(q)
                           /\ q # p => pc'[q] = pc[q]
  BY <1>1, <1>2 DEF Claimed
<1>5. GcInv'
  <2>1. \A q \in Producers : pc[q] = "gc_enq" => pub_log'[get_idx(gc_k)] = pub_log[get_idx(gc_k)]
    <3> SUFFICES ASSUME NEW q \in Producers, pc[q] = "gc_enq"
                 PROVE  pub_log'[get_idx(gc_k)] = pub_log[get_idx(gc_k)]
      OBVIOUS
    <3>1. /\ Freed < tail /\ get_idx(gc_k) = get_idx(Freed) /\ Freed < t[p]
      BY <1>2, CollectedIsPublished
    <3>2. Freed \in Nat /\ t[p] \in Nat /\ get_idx(t[p]) \in Slots
      BY <1>2, Counters, OwnSlot
    <3>3. get_idx(Freed) # get_idx(t[p])
      BY <1>2, <3>1, <3>2, OwnSlot
    <3>4. gc_k \in Idx /\ get_idx(gc_k) \in Slots
      BY IdxTypes DEF Pre, TypeOK
    <3>5. QED
      BY <1>1, <1>2, <3>1, <3>3, <3>4
  <2>2. \A q \in Producers : pc'[q] = pc[q] \/ pc'[q] = "set_idx"
    BY <1>1, <1>2
  <2>3. QED
    BY <1>2, <2>1, <2>2 DEF Pre, IInv, GcInv, subVars, gcVars, get_idx
<1>6. BufInv'
  BY <1>1, <1>2, <1>3, BufFrame DEF Pre, IInv, histVars
<1>7. ConsInv'
  BY <1>2, <1>4, ConsFrame DEF Pre, IInv, subVars
<1>8. RingInv'
  <2> USE <1>2 DEF histVars
  <2>1. RingWindow' /\ PubBehind'
    BY <1>3 DEF Pre, IInv, RingInv, RingWindow, PubBehind
  <2>2. Covered'
    <3> SUFFICES ASSUME NEW k \in Idx, Freed <= k, k < tail
                 PROVE  Pub(k)' \/ \E q \in Producers : Claimed(q)' /\ t'[q] = k
      BY <1>3 DEF Covered
    <3>1. CASE k = t[p]
      BY <1>4, <3>1
    <3>2. CASE k # t[p] /\ Pub(k)
      <4>1. get_idx(k) # get_idx(t[p]) /\ get_idx(k) \in Slots
        BY <3>2, OthersAway
      <4>2. pub_log'[get_idx(k)] = pub_log[get_idx(k)]
        BY <1>1, <4>1
      <4>3. QED
        BY <3>2, <4>2 DEF Pub, get_idx
    <3>3. CASE \E q \in Producers : Claimed(q) /\ t[q] = k
      BY <1>4, <3>3
    <3>4. QED
      BY <3>1, <3>2, <3>3 DEF Pre, IInv, RingInv, Covered
  <2>3. ClaimsHeld'
    <3> SUFFICES ASSUME NEW q \in Producers, Claimed(q)
                 PROVE  /\ Freed <= t[q] /\ t[q] < tail
                        /\ stamp[lg[q]] = t[q] /\ srel[lg[q]] = rel[q]
                        /\ pub_idx[get_idx(t[q])] <= t[q]
                        /\ pc'[q] \in {"set_log", "set_idx"} => pub_rel[get_idx(t[q])] = rel[q]
                        /\ pc'[q] = "set_idx" => pub_log'[get_idx(t[q])] = lg[q]
      BY <1>3, <1>4 DEF ClaimsHeld, get_idx
    <3>1. CASE q = p
      BY <1>1, <3>1, OwnSlot DEF Pre, IInv, RingInv, ClaimsHeld
    <3>2. CASE q # p
      <4>1. get_idx(t[q]) # get_idx(t[p]) /\ get_idx(t[q]) \in Slots
        BY <3>2, OthersAway
      <4>2. pub_log'[get_idx(t[q])] = pub_log[get_idx(t[q])]
        BY <1>1, <4>1
      <4>3. QED
        BY <1>4, <3>2, <4>2 DEF Pre, IInv, RingInv, ClaimsHeld
    <3>3. QED
      BY <3>1, <3>2
  <2>4. ClaimsDiffer'
    BY <1>4 DEF Pre, IInv, RingInv, ClaimsDiffer
  <2>5. QED
    BY <2>1, <2>2, <2>3, <2>4 DEF RingInv
<1>9. QED
  BY <1>5, <1>6, <1>7, <1>8 DEF Main

LEMMA SetIdxKeeps ==
  ASSUME Pre, NEW p \in Producers, SetIdx(p)
  PROVE  Main'
<1>1. /\ pc \in [Producers -> Labels] /\ pub_idx \in [Slots -> Idx]
      /\ lg \in [Producers -> Logs] /\ rel \in [Producers -> BOOLEAN]
      /\ t \in [Producers -> Nat] /\ tail \in Nat /\ Freed \in Nat /\ Idx \subseteq Nat
  BY Counters DEF Pre, TypeOK, Idx
<1>2. /\ pc[p] = "set_idx" /\ Claimed(p) /\ pc' = [pc EXCEPT ![p] = "idle"]
      /\ pub_idx' = [pub_idx EXCEPT ![get_idx(t[p])] = Inc(t[p])]
      /\ lg' = [lg EXCEPT ![p] = 0] /\ t' = [t EXCEPT ![p] = 0]
      /\ rel' = [rel EXCEPT ![p] = FALSE]
      /\ UNCHANGED <<tail, pub_rel, pub_log, subVars, freelist, bound,
                     gcVars, consVars, histVars>>
  BY DEF SetIdx, Goto, Claimed
<1>3. /\ Freed <= t[p] /\ t[p] < tail /\ stamp[lg[p]] = t[p] /\ srel[lg[p]] = rel[p]
      /\ pub_rel[get_idx(t[p])] = rel[p] /\ pub_log[get_idx(t[p])] = lg[p]
  BY <1>2 DEF Pre, IInv, RingInv, ClaimsHeld
<1>4. Inc(t[p]) = t[p] + 1 /\ t[p] \in Nat
  BY <1>1, <1>3, Plain
<1>5. Freed' = Freed
  BY <1>1, <1>2, FreedFrame DEF gcVars
<1>6. \A q \in Producers :
        /\ Claimed(q)' <=> Claimed(q) /\ q # p
        /\ q # p => pc'[q] = pc[q] /\ lg'[q] = lg[q] /\ t'[q] = t[q] /\ rel'[q] = rel[q]
  BY <1>1, <1>2 DEF Claimed
<1>7. GcInv'
  BY <1>1, <1>2, GcFrame DEF Pre, IInv, GcInv, subVars
<1>8. BufInv'
  <2>1. FreeDistinct' /\ FreeOld'
    BY <1>2, <1>5 DEF Pre, IInv, BufInv, FreeDistinct, FreeOld, IsFree, histVars
  <2>2. \A q \in Producers : pc'[q] = "fill" => q # p /\ pc[q] = "fill"
    BY <1>1, <1>2
  <2>3. FillFresh'
    BY <1>2, <1>6, <2>2 DEF Pre, IInv, BufInv, FillFresh, IsFree, histVars
  <2>4. QED
    BY <2>1, <2>3 DEF BufInv
<1>9. ConsInv'
  BY <1>2, <1>6 DEF Pre, IInv, ConsInv, Ready, subVars, consVars, histVars
<1>10. RingInv'
  <2> USE <1>2 DEF histVars
  <2>1. RingWindow'
    BY <1>5 DEF Pre, IInv, RingInv, RingWindow
  <2>2. PubBehind'
    BY <1>1, <1>3, <1>4 DEF Pre, IInv, RingInv, PubBehind
  <2>3. Covered'
    <3> SUFFICES ASSUME NEW k \in Idx, Freed <= k, k < tail
                 PROVE  Pub(k)' \/ \E q \in Producers : Claimed(q)' /\ t'[q] = k
      BY <1>5 DEF Covered
    <3>1. CASE k = t[p]
      <4>1. pub_idx'[get_idx(k)] = k + 1
        BY <1>1, <1>4, <3>1, OwnSlot
      <4>2. QED
        BY <1>3, <3>1, <4>1 DEF Pub, get_idx
    <3>2. CASE k # t[p] /\ Pub(k)
      <4>1. get_idx(k) # get_idx(t[p]) /\ get_idx(k) \in Slots
        BY <3>2, OthersAway
      <4>2. pub_idx'[get_idx(k)] = pub_idx[get_idx(k)]
        BY <1>1, <4>1
      <4>3. QED
        BY <3>2, <4>2 DEF Pub, get_idx
    <3>3. CASE k # t[p] /\ \E q \in Producers : Claimed(q) /\ t[q] = k
      BY <1>6, <3>3
    <3>4. QED
      BY <3>1, <3>2, <3>3 DEF Pre, IInv, RingInv, Covered
  <2>4. ClaimsHeld'
    <3> SUFFICES ASSUME NEW q \in Producers, Claimed(q)'
                 PROVE  /\ Freed' <= t'[q] /\ t'[q] < tail'
                        /\ stamp'[lg'[q]] = t'[q] /\ srel'[lg'[q]] = rel'[q]
                        /\ pub_idx'[get_idx(t'[q])] <= t'[q]
                        /\ pc'[q] \in {"set_log", "set_idx"} => pub_rel'[get_idx(t'[q])] = rel'[q]
                        /\ pc'[q] = "set_idx" => pub_log'[get_idx(t'[q])] = lg'[q]
      BY DEF ClaimsHeld, get_idx
    <3>1. /\ Claimed(q) /\ q # p /\ pc'[q] = pc[q] /\ lg'[q] = lg[q]
          /\ t'[q] = t[q] /\ rel'[q] = rel[q]
      BY <1>6
    <3>2. get_idx(t[q]) # get_idx(t[p]) /\ get_idx(t[q]) \in Slots
      BY <3>1, OthersAway
    <3>3. pub_idx'[get_idx(t[q])] = pub_idx[get_idx(t[q])]
      BY <1>1, <3>2
    <3>4. QED
      BY <1>5, <3>1, <3>3 DEF Pre, IInv, RingInv, ClaimsHeld
  <2>5. ClaimsDiffer'
    BY <1>6 DEF Pre, IInv, RingInv, ClaimsDiffer
  <2>6. QED
    BY <2>1, <2>2, <2>3, <2>4, <2>5 DEF RingInv
<1>11. QED
  BY <1>7, <1>8, <1>9, <1>10 DEF Main

-----------------------------------------------------------------------------
(* The steps of the consumers.                                             *)

(* A consumer does not disturb the producers' part.                        *)
LEMMA ConsumerApart ==
  ASSUME Pre, UNCHANGED <<tail, pubVars, freelist, bound, prodVars, gcVars, histVars>>
  PROVE  Freed' = Freed /\ RingInv' /\ BufInv'
<1>1. pc \in [Producers -> Labels] /\ pc' = pc
  BY DEF Pre, TypeOK, prodVars
<1>2. Freed' = Freed
  BY <1>1, FreedFrame DEF gcVars
<1>3. \A q \in Producers : SameHold(q)
  BY <1>1 DEF SameHold
<1>4. RingInv'
  BY <1>1, <1>2, <1>3, RingFrame DEF Pre, IInv, prodVars
<1>5. BufInv'
  BY <1>1, <1>2, BufFrame DEF Pre, IInv, histVars, prodVars
<1>6. QED
  BY <1>2, <1>4, <1>5

LEMMA EnterKeeps ==
  ASSUME Pre, NEW n \in Subs, Enter(n)
  PROVE  Main'
<1>1. cpc \in [Subs -> CLabels] /\ cpc[n] = "off" /\ cpc' = [cpc EXCEPT ![n] = "in"]
  BY DEF Pre, TypeOK, Enter, CGoto
<1>2. RingInv' /\ BufInv'
  BY ConsumerApart DEF Enter
<1>3. GcInv'
  BY GcFrame DEF Pre, IInv, GcInv, Enter, subVars, pubVars, prodVars
<1>4. ConsInv'
  BY <1>1 DEF Pre, IInv, ConsInv, Ready, Enter, Claimed, subVars, prodVars, histVars
<1>5. QED
  BY <1>2, <1>3, <1>4 DEF Main

(* An entry that take_head finds published was claimed, and nobody is      *)
(* still filling it.                                                       *)
LEMMA ReadyIsPublished ==
  ASSUME Pre, NEW n \in Subs, is_subbed[n], EntryReady(n)
  PROVE  /\ head[n] \in Nat /\ head[n] + 1 <= tail
         /\ \A q \in Producers : Claimed(q) => head[n] + 1 <= t[q]
<1>1. /\ tail \in Nat /\ head \in [Subs -> Nat] /\ t \in [Producers -> Nat]
  BY Counters
<1>2. Ready(n) \in Nat /\ head[n] <= Ready(n) /\ Ready(n) <= tail
  BY <1>1 DEF Pre, IInv, ConsInv, Ready
<1>3. head[n] \in Idx /\ get_idx(head[n]) \in Slots /\ head[n] \in Nat
  BY <1>1, IdxTypes DEF Pre, TypeOK
<1>4. pub_idx[get_idx(head[n])] = head[n] + 1
  BY <1>1, <1>2, <1>3, Plain DEF EntryReady
<1>5. head[n] + 1 <= tail
  BY <1>3, <1>4 DEF Pre, IInv, RingInv, PubBehind
<1>6. ASSUME NEW q \in Producers, Claimed(q) PROVE head[n] + 1 <= t[q]
  <2>1. Ready(n) <= t[q] /\ pub_idx[get_idx(t[q])] <= t[q]
    BY <1>6 DEF Pre, IInv, ConsInv, RingInv, ClaimsHeld
  <2>2. t[q] # head[n]
    BY <1>3, <1>4, <2>1
  <2>3. QED
    BY <1>1, <1>2, <1>3, <2>1, <2>2
<1>7. QED
  BY <1>3, <1>5, <1>6

LEMMA TakeHeadKeeps ==
  ASSUME Pre, NEW n \in Subs, TakeHead(n)
  PROVE  Main'
<1>1. /\ cpc \in [Subs -> CLabels] /\ cpc[n] = "in"
      /\ cpc' = [cpc EXCEPT ![n] = IF EntryReady(n) THEN "taken" ELSE "off"]
      /\ UNCHANGED <<tail, pubVars, subVars, prodVars, histVars, clog, crel>>
  BY DEF Pre, TypeOK, TakeHead, CGoto
<1>2. RingInv' /\ BufInv'
  BY ConsumerApart DEF TakeHead
<1>3. GcInv'
  BY GcFrame DEF Pre, IInv, GcInv, TakeHead, subVars, pubVars, prodVars
<1>4. \A m \in Subs : m # n => cpc'[m] = cpc[m]
  BY <1>1
<1>5. \A q \in Producers : Claimed(q)' <=> Claimed(q)
  BY <1>1 DEF Claimed, prodVars
<1>6. ConsInv'
  <2> SUFFICES ASSUME NEW m \in Subs, is_subbed[m]
               PROVE  /\ Ready(m)' <= tail
                      /\ \A q \in Producers : Claimed(q) => Ready(m)' <= t[q]
                      /\ cpc'[m] = "process" =>
                           stamp[clog[m]] = head[m] /\ srel[clog[m]] = crel[m]
    BY <1>1, <1>5 DEF ConsInv, subVars, prodVars, histVars
  <2>1. CASE m # n
    BY <1>1, <1>4, <2>1 DEF Pre, IInv, ConsInv, Ready, subVars
  <2>2. CASE m = n /\ EntryReady(n)
    <3>1. Ready(m)' = head[n] + 1 /\ cpc'[m] = "taken"
      BY <1>1, <2>2 DEF Ready, subVars
    <3>2. QED
      BY <2>2, <3>1, ReadyIsPublished
  <2>3. CASE m = n /\ ~EntryReady(n)
    <3>1. Ready(m)' = Ready(m) /\ cpc'[m] = "off"
      BY <1>1, <2>3 DEF Ready, subVars
    <3>2. QED
      BY <3>1 DEF Pre, IInv, ConsInv
  <2>4. QED
    BY <2>1, <2>2, <2>3
<1>7. QED
  BY <1>2, <1>3, <1>6 DEF Main

LEMMA LoadEntryKeeps ==
  ASSUME Pre, NEW n \in Subs, LoadEntry(n)
  PROVE  Main'
<1>1. /\ cpc \in [Subs -> CLabels] /\ clog \in [Subs -> Logs] /\ crel \in [Subs -> BOOLEAN]
      /\ cpc[n] = "taken" /\ cpc' = [cpc EXCEPT ![n] = "process"]
      /\ clog' = [clog EXCEPT ![n] = pub_log[get_idx(head[n])]]
      /\ crel' = [crel EXCEPT ![n] = pub_rel[get_idx(head[n])]]
      /\ UNCHANGED <<tail, pubVars, subVars, prodVars, histVars>>
  BY DEF Pre, TypeOK, LoadEntry, CGoto
<1>2. RingInv' /\ BufInv'
  BY ConsumerApart DEF LoadEntry
<1>3. GcInv'
  BY GcFrame DEF Pre, IInv, GcInv, LoadEntry, subVars, pubVars, prodVars
<1>4. \A q \in Producers : Claimed(q)' <=> Claimed(q)
  BY <1>1 DEF Claimed, prodVars
<1>5. is_subbed[n] => Pub(head[n])
  <2> SUFFICES ASSUME is_subbed[n] PROVE Pub(head[n])
    OBVIOUS
  <2>1. /\ head \in [Subs -> Nat] /\ head[n] \in Idx /\ Freed <= head[n]
        /\ tail \in Nat /\ t \in [Producers -> Nat]
    BY Counters DEF Pre, TypeOK
  <2>2. /\ head[n] + 1 <= tail
        /\ \A q \in Producers : Claimed(q) => head[n] + 1 <= t[q]
    BY <1>1 DEF Pre, IInv, ConsInv, Ready
  <2>3. head[n] < tail /\ \A q \in Producers : Claimed(q) => t[q] # head[n]
    BY <2>1, <2>2
  <2>4. QED
    BY <2>1, <2>3 DEF Pre, IInv, RingInv, Covered
<1>6. ConsInv'
  <2> SUFFICES ASSUME NEW m \in Subs, is_subbed[m]
               PROVE  /\ Ready(m)' <= tail
                      /\ \A q \in Producers : Claimed(q) => Ready(m)' <= t[q]
                      /\ cpc'[m] = "process" =>
                           stamp[clog'[m]] = head[m] /\ srel[clog'[m]] = crel'[m]
    BY <1>1, <1>4 DEF ConsInv, subVars, prodVars, histVars
  <2>1. Ready(m)' = Ready(m)
    BY <1>1 DEF Ready, subVars
  <2>2. CASE m # n
    BY <1>1, <2>1, <2>2 DEF Pre, IInv, ConsInv
  <2>3. CASE m = n
    BY <1>1, <1>5, <2>1, <2>3 DEF Pre, IInv, ConsInv, Pub
  <2>4. QED
    BY <2>2, <2>3
<1>7. QED
  BY <1>2, <1>3, <1>6 DEF Main

LEMMA ConsumeHeadKeeps ==
  ASSUME Pre, NEW n \in Subs, ConsumeHead(n)
  PROVE  Main'
<1>1. /\ cpc \in [Subs -> CLabels] /\ cpc[n] = "process"
      /\ cpc' = [cpc EXCEPT ![n] = "in"] \/ cpc' = [cpc EXCEPT ![n] = "off"]
      /\ clog \in [Subs -> Logs] /\ clog' = [clog EXCEPT ![n] = 0]
      /\ crel \in [Subs -> BOOLEAN] /\ crel' = [crel EXCEPT ![n] = FALSE]
      /\ head' = [head EXCEPT ![n] = Inc(head[n])]
      /\ UNCHANGED <<tail, pubVars, is_subbed, bound, prodVars, gcVars, histVars>>
  BY DEF Pre, TypeOK, ConsumeHead, CGoto
<1>2. /\ head \in [Subs -> Nat] /\ tail \in Nat /\ LOG_COUNT \in Nat
      /\ bound \in Nat /\ new_b \in Nat
  BY Counters
<1>3. RingInv' /\ BufInv'
  BY ConsumerApart DEF ConsumeHead
<1>4. \A q \in Producers : Claimed(q)' <=> Claimed(q)
  BY <1>1 DEF Claimed, prodVars
<1>5. \A m \in Subs : is_subbed[m] =>
        head'[m] \in Nat /\ head[m] <= head'[m] /\ Ready(m)' = Ready(m)
  <2> SUFFICES ASSUME NEW m \in Subs, is_subbed[m]
               PROVE  head'[m] \in Nat /\ head[m] <= head'[m] /\ Ready(m)' = Ready(m)
    OBVIOUS
  <2>1. CASE m # n
    BY <1>1, <1>2, <2>1 DEF Ready
  <2>2. CASE m = n
    <3>1. head[n] + 1 <= tail /\ head[n] \in Nat
      BY <1>1, <1>2, <2>2 DEF Pre, IInv, ConsInv, Ready
    <3>2. Inc(head[n]) = head[n] + 1
      BY <1>2, <3>1, Plain
    <3>3. QED
      BY <1>1, <1>2, <2>2, <3>1, <3>2 DEF Ready
  <2>3. QED
    BY <2>1, <2>2
<1>6. GcInv'
  <2>1. \A x \in Nat : \A m \in Subs :
          is_subbed[m] /\ x <= head[m] + LOG_COUNT => x <= head'[m] + LOG_COUNT
    BY <1>2, <1>5
  <2>2. QED
    BY <1>1, <1>2, <2>1 DEF Pre, IInv, GcInv, gcVars, pubVars, prodVars, get_idx
<1>7. ConsInv'
  <2>1. \A m \in Subs : cpc'[m] = "process" =>
          m # n /\ cpc[m] = "process" /\ head'[m] = head[m]
          /\ clog'[m] = clog[m] /\ crel'[m] = crel[m]
    BY <1>1, <1>2
  <2>2. t' = t /\ stamp' = stamp /\ srel' = srel /\ tail' = tail /\ is_subbed' = is_subbed
    BY <1>1 DEF prodVars, histVars
  <2> SUFFICES ASSUME NEW m \in Subs, is_subbed[m]
               PROVE  /\ Ready(m)' <= tail
                      /\ \A q \in Producers : Claimed(q) => Ready(m)' <= t[q]
                      /\ cpc'[m] = "process" =>
                           stamp[clog'[m]] = head'[m] /\ srel[clog'[m]] = crel'[m]
    BY <1>4, <2>2 DEF ConsInv
  <2>3. QED
    BY <1>5, <2>1 DEF Pre, IInv, ConsInv
<1>8. QED
  BY <1>3, <1>6, <1>7 DEF Main

LEMMA UnsubscribeKeeps ==
  ASSUME Pre, NEW n \in Subs, Unsubscribe(n)
  PROVE  Main'
<1>1. /\ is_subbed \in [Subs -> BOOLEAN] /\ n \notin Pinned
      /\ is_subbed' = [is_subbed EXCEPT ![n] = FALSE]
  BY DEF Pre, TypeOK, Unsubscribe
<1>2. /\ \A m \in Subs : is_subbed'[m] => is_subbed[m]
      /\ \A m \in Pinned : is_subbed[m] => is_subbed'[m]
  <2>1. Pinned \subseteq Subs
    BY LogManagerAssumption DEF LogManagerAssumption, Subs
  <2>2. QED
    BY <1>1, <2>1
<1>3. RingInv' /\ BufInv'
  BY ConsumerApart DEF Unsubscribe
<1>4. GcInv'
  BY <1>2, GcFrame DEF Pre, IInv, GcInv, Unsubscribe, pubVars, prodVars
<1>5. ConsInv'
  BY <1>2, ConsFrame DEF Pre, IInv, Unsubscribe, Claimed, prodVars
<1>6. QED
  BY <1>3, <1>4, <1>5 DEF Main
-----------------------------------------------------------------------------
(* The invariant is inductive.                                             *)

LEMMA InvInit == Init /\ NoWrap => IInv
<1> SUFFICES ASSUME Init, NoWrap PROVE IInv
  OBVIOUS
<1>1. /\ LOG_COUNT \in Nat \ {0} /\ IdxMod \in Nat /\ Nobody \notin Producers
      /\ NODE_COUNT \in Nat /\ Pinned \subseteq Subs /\ MaxOps \in Nat
  BY LogManagerAssumption DEF LogManagerAssumption, Subs
<1>2. tail = 0 /\ bound = LOG_COUNT
  <2>1. LOG_COUNT < IdxMod /\ tail = 0
    BY <1>1 DEF NoWrap, Init
  <2>2. LOG_COUNT % IdxMod = LOG_COUNT
    BY <1>1, <2>1, Slotting
  <2>3. next_round(0) = LOG_COUNT
    BY <1>1, <2>2 DEF next_round
  <2>4. QED
    BY <2>1, <2>3 DEF Init
<1>3. \A p \in Producers : pc[p] = "idle" /\ ~Claimed(p)
  BY DEF Init, Claimed
<1>4. Freed = 0
  BY <1>1, <1>2, <1>3 DEF Freed, InLoop
<1>5. LockInv
  BY <1>1, <1>3 DEF LockInv, Init
<1>6. GcInv
  BY <1>1, <1>2, <1>3 DEF GcInv, Init
<1>7. RingInv
  <2>1. RingWindow /\ PubBehind
    BY <1>1, <1>2, <1>4 DEF RingWindow, PubBehind, Init
  <2>2. Covered
    BY <1>2, <1>4 DEF Covered, Idx
  <2>3. ClaimsHeld /\ ClaimsDiffer
    BY <1>3 DEF ClaimsHeld, ClaimsDiffer
  <2>4. QED
    BY <2>1, <2>2, <2>3 DEF RingInv
<1>8. BufInv
  <2>1. Len(freelist) = LOG_COUNT /\ \A i \in 1 .. LOG_COUNT : freelist[i] = i - 1
    BY <1>1 DEF Init
  <2>2. FreeDistinct
    BY <1>1, <2>1 DEF FreeDistinct
  <2>3. FreeOld /\ FillFresh
    BY <1>3, <1>4 DEF FreeOld, FillFresh, Init
  <2>4. QED
    BY <2>2, <2>3 DEF BufInv
<1>9. ConsInv
  BY <1>2, <1>3 DEF ConsInv, Ready, Init
<1>10. QED
  BY <1>5, <1>6, <1>7, <1>8, <1>9 DEF IInv

LEMMA InvStep == Pre /\ [Next]_vars => IInv'
<1> SUFFICES ASSUME Pre, [Next]_vars PROVE IInv'
  OBVIOUS
<1>1. LockInv'
  BY LockStep DEF Pre, IInv
<1>2. ASSUME NEW p \in Producers, Begin(p) \/ ProducerStep(p) PROVE Main'
  BY <1>2, BeginKeeps, GetLogKeeps, GcLockKeeps, RecheckKeeps, GcScanKeeps,
     GcScanHeadKeeps, GcLoadLogKeeps, GcEnqueueKeeps, GcDoneKeeps,
     ClaimKeeps, SetRelKeeps, SetLogKeeps, SetIdxKeeps DEF ProducerStep
<1>3. ASSUME NEW n \in Subs, ConsumerStep(n) PROVE Main'
  BY <1>3, EnterKeeps, TakeHeadKeeps, LoadEntryKeeps, ConsumeHeadKeeps
  DEF ConsumerStep
<1>4. ASSUME NEW n \in Subs, Unsubscribe(n) PROVE Main'
  BY <1>4, UnsubscribeKeeps
<1>5. ASSUME UNCHANGED vars PROVE Main'
  <2> USE <1>5 DEF vars
  <2>1. RingInv' /\ BufInv'
    BY ConsumerApart
  <2>2. GcInv'
    BY GcFrame DEF Pre, IInv, GcInv, subVars, pubVars, prodVars
  <2>3. ConsInv'
    BY ConsFrame DEF Pre, IInv, subVars, Claimed, prodVars
  <2>4. QED
    BY <2>1, <2>2, <2>3 DEF Main
<1>6. Main'
  BY <1>2, <1>3, <1>4, <1>5 DEF Next
<1>7. QED
  BY <1>1, <1>6 DEF Main, IInv

(* While the position counter has not wrapped and some node stays          *)
(* subscribed, the ring, the buffers, the collection and the consumers     *)
(* are as module LogInvariant says.                                        *)
THEOREM Inductive ==
  ASSUME Pinned # {}
  PROVE  Spec /\ []NoWrap => [](TypeOK /\ IInv)
<1>1. Init /\ NoWrap => IInv
  BY InvInit
<1>2. TypeOK /\ IInv /\ NoWrap /\ [Next]_vars => IInv'
  BY InvStep DEF Pre
<1>3. QED
  BY <1>1, <1>2, TypeCorrect, PTL DEF Spec

(* What a subscribed node processes is what was published at its head.     *)
THEOREM ReadsArePublished ==
  ASSUME Pinned # {}
  PROVE  Spec /\ []NoWrap => []ReadsPublished
<1>1. IInv => ReadsPublished
  BY DEF IInv, ConsInv, ReadsPublished
<1>2. QED
  BY <1>1, Inductive, PTL

(* No buffer is in two hands: collecting, filling and publishing never     *)
(* overlap on a buffer.                                                    *)
THEOREM BuffersAreOwned ==
  ASSUME Pinned # {}
  PROVE  Spec /\ []NoWrap => []OneOwner
<1>1. TypeOK /\ IInv /\ NoWrap => OneOwner
  <2> SUFFICES ASSUME Pre PROVE OneOwner
    BY DEF Pre
  <2>1. /\ pc \in [Producers -> Labels] /\ lg \in [Producers -> Logs]
        /\ t \in [Producers -> Nat] /\ Freed \in Nat
    BY Counters DEF Pre, TypeOK
  <2>2. /\ FreeDistinct
        /\ \A l \in Logs : IsFree(l) => stamp[l] < Freed
        /\ \A p \in Producers : Claimed(p) => stamp[lg[p]] = t[p] /\ Freed <= t[p]
        /\ \A p, q \in Producers : Claimed(p) /\ Claimed(q) /\ p # q => t[p] # t[q]
    BY DEF Pre, IInv, BufInv, FreeOld, RingInv, ClaimsHeld, ClaimsDiffer
  <2>3. \A p \in Producers : pc[p] = "fill" =>
          /\ stamp[lg[p]] = -1 /\ ~IsFree(lg[p])
          /\ \A q \in Producers : pc[q] = "fill" /\ q # p => lg[q] # lg[p]
    BY DEF Pre, IInv, BufInv, FillFresh
  <2>4. \A p \in Producers : Claimed(p) => ~IsFree(lg[p])
    BY <2>1, <2>2
  <2>5. \A p, q \in Producers : p # q /\ (Claimed(p) \/ pc[p] = "fill")
                                /\ (Claimed(q) \/ pc[q] = "fill") => lg[q] # lg[p]
    BY <2>1, <2>2, <2>3
  <2>6. QED
    BY <2>2, <2>3, <2>4, <2>5 DEF OneOwner, FreeDistinct, IsFree, Claimed
<1>2. QED
  BY <1>1, Inductive, PTL

-----------------------------------------------------------------------------
(* No buffer is lost.                                                      *)

(* Thread p has a buffer that is not yet in the ring.                      *)
Holds(p) == pc[p] \in {"fill", "set_rel", "set_log", "set_idx"}

InHands(l) == \E p \in Producers : Holds(p) /\ lg[p] = l

(* The buffer of a published position that is not collected.               *)
InRing(l) == \E k \in Idx : /\ Freed <= k /\ k < tail
                            /\ pub_idx[get_idx(k)] = Inc(k)
                            /\ pub_log[get_idx(k)] = l

(* The three places of a buffer.                                           *)
LEMMA Places == NoBufferLost <=> \A l \in Logs : IsFree(l) \/ InHands(l) \/ InRing(l)
BY DEF NoBufferLost, IsFree, InHands, InRing, Holds

LEMMA PlacesNext ==
  NoBufferLost' <=> \A l \in Logs : IsFree(l)' \/ InHands(l)' \/ InRing(l)'
BY DEF NoBufferLost, IsFree, InHands, InRing, Holds, get_idx, Inc

(* A step that moves no buffer.                                            *)
LEMMA LostFrame ==
  ASSUME NoBufferLost, Freed' = Freed,
         UNCHANGED <<freelist, tail, pub_log, pub_idx, lg>>,
         \A q \in Producers : Holds(q) => Holds(q)'
  PROVE  NoBufferLost'
<1>1. \A l \in Logs : IsFree(l)' <=> IsFree(l)
  BY DEF IsFree
<1>2. \A l \in Logs : InHands(l) => InHands(l)'
  BY DEF InHands
<1>3. \A l \in Logs : InRing(l) => InRing(l)'
  BY DEF InRing, get_idx, Inc
<1>4. QED
  BY <1>1, <1>2, <1>3, Places, PlacesNext

(* The head of the free list passes into the hands of p.                   *)
LEMMA LostTakeFree ==
  ASSUME Pre, NoBufferLost, NEW p \in Producers, ~Holds(p), TakeFree(p),
         Freed' = Freed, UNCHANGED <<tail, pub_log, pub_idx>>
  PROVE  NoBufferLost'
<1>1. /\ pc \in [Producers -> Labels] /\ lg \in [Producers -> Logs]
      /\ freelist \in Seq(Logs)
  BY DEF Pre, TypeOK
<1>2. /\ pc' = [pc EXCEPT ![p] = "fill"] /\ lg' = [lg EXCEPT ![p] = Head(freelist)]
      /\ freelist # <<>> /\ freelist' = Tail(freelist)
  BY DEF TakeFree, Goto
<1>3. Len(freelist) \in Nat \ {0} /\ Head(freelist) = freelist[1]
  BY <1>1, <1>2
<1>4. /\ Len(freelist') = Len(freelist) - 1
      /\ \A i \in 1 .. Len(freelist) - 1 : freelist'[i] = freelist[i + 1]
  BY <1>1, <1>2, <1>3
<1>5. \A l \in Logs : InHands(l) => InHands(l)'
  <2>1. \A q \in Producers : Holds(q) => Holds(q)' /\ lg'[q] = lg[q]
    BY <1>1, <1>2 DEF Holds
  <2>2. QED
    BY <2>1 DEF InHands
<1>6. \A l \in Logs : InRing(l) => InRing(l)'
  BY DEF InRing, get_idx, Inc
<1>7. \A l \in Logs : IsFree(l) => IsFree(l)' \/ InHands(l)'
  <2> SUFFICES ASSUME NEW l \in Logs, NEW i \in 1 .. Len(freelist), freelist[i] = l
               PROVE  IsFree(l)' \/ InHands(l)'
    BY DEF IsFree
  <2>1. CASE i = 1
    <3>1. Holds(p)' /\ lg'[p] = l
      BY <1>1, <1>2, <1>3, <2>1 DEF Holds
    <3>2. QED
      BY <3>1 DEF InHands
  <2>2. CASE i # 1
    <3>1. i - 1 \in 1 .. Len(freelist') /\ freelist'[i - 1] = l
      BY <1>3, <1>4, <2>2
    <3>2. QED
      BY <3>1 DEF IsFree
  <2>3. QED
    BY <2>1, <2>2
<1>8. QED
  BY <1>5, <1>6, <1>7, Places, PlacesNext

(* Steps of get_new_log and perform_gc that end with or without a buffer.  *)
LEMMA LostGetLog ==
  ASSUME Pre, NoBufferLost, NEW p \in Producers, GetLog(p)
  PROVE  NoBufferLost'
<1>1. pc \in [Producers -> Labels] /\ pc[p] = "get"
      /\ UNCHANGED <<tail, pub_log, pub_idx, bound, gc_k>>
  BY DEF Pre, TypeOK, GetLog, pubVars, gcVars
<1>2. pc' = [pc EXCEPT ![p] = "fill"] \/ pc' = [pc EXCEPT ![p] = "lock"]
  BY DEF GetLog, TakeFree, Goto
<1>3. Freed' = Freed
  BY <1>1, <1>2, FreedFrame
<1>4. CASE TakeFree(p)
  BY <1>1, <1>3, <1>4, LostTakeFree DEF Holds
<1>5. CASE UNCHANGED <<lg, freelist>> /\ Goto(p, "lock")
  BY <1>1, <1>3, <1>5, LostFrame DEF Holds, Goto
<1>6. QED
  BY <1>4, <1>5 DEF GetLog

LEMMA LostRecheck ==
  ASSUME Pre, NoBufferLost, NEW p \in Producers, Recheck(p)
  PROVE  NoBufferLost'
<1>1. pc \in [Producers -> Labels] /\ pc[p] = "recheck"
      /\ UNCHANGED <<tail, pub_log, pub_idx, bound, gc_k>>
  BY DEF Pre, TypeOK, Recheck, pubVars, gcVars
<1>2. pc' = [pc EXCEPT ![p] = "fill"] \/ pc' = [pc EXCEPT ![p] = "scan"]
  BY DEF Recheck, TakeFree, Goto
<1>3. Freed' = Freed
  BY <1>1, <1>2, FreedFrame
<1>4. CASE TakeFree(p)
  BY <1>1, <1>3, <1>4, LostTakeFree DEF Holds
<1>5. CASE UNCHANGED <<lg, freelist>> /\ Goto(p, "scan")
  BY <1>1, <1>3, <1>5, LostFrame DEF Holds, Goto
<1>6. QED
  BY <1>4, <1>5 DEF Recheck

LEMMA LostGcDone ==
  ASSUME Pre, NoBufferLost, NEW p \in Producers, GcDone(p)
  PROVE  NoBufferLost'
<1>1. pc \in [Producers -> Labels] /\ pc[p] = "gc_log"
      /\ UNCHANGED <<tail, pub_log, pub_idx>>
  BY DEF Pre, TypeOK, GcDone, pubVars
<1>2. pc' = [pc EXCEPT ![p] = "fill"] \/ pc' = [pc EXCEPT ![p] = "get"]
  BY DEF GcDone, TakeFree, Goto
<1>3. Freed' = Freed
  <2>1. InLoop /\ ~InLoop'
    BY <1>1, <1>2, Alone DEF InLoop
  <2>2. QED
    BY <2>1 DEF Freed, GcDone
<1>4. CASE TakeFree(p)
  BY <1>1, <1>3, <1>4, LostTakeFree DEF Holds
<1>5. CASE UNCHANGED <<lg, freelist>> /\ Goto(p, "get")
  BY <1>1, <1>3, <1>5, LostFrame DEF Holds, Goto
<1>6. QED
  BY <1>4, <1>5 DEF GcDone

(* Steps of the collection that move no buffer: the scan starts the loop   *)
(* at the bound.                                                           *)
LEMMA LostScan ==
  ASSUME Pre, NoBufferLost, NEW p \in Producers,
         Begin(p) \/ GcLock(p) \/ GcScan(p) \/ GcScanHead(p) \/ GcLoadLog(p)
  PROVE  NoBufferLost'
<1>1. pc \in [Producers -> Labels] /\ UNCHANGED <<freelist, tail, pub_log, pub_idx, lg, bound>>
  BY DEF Pre, TypeOK, Begin, GcLock, GcScan, GcScanHead, GcLoadLog, pubVars
<1>2. ~Holds(p) /\ \A q \in Producers : q # p => pc'[q] = pc[q]
  BY <1>1 DEF Begin, GcLock, GcScan, GcScanHead, GcLoadLog, Goto, Holds
<1>3. Freed' = Freed
  <2>1. CASE Begin(p) \/ GcLock(p)
    BY <1>1, <2>1, FreedFrame DEF Begin, GcLock, Goto, gcVars
  <2>2. CASE GcScanHead(p)
    BY <1>1, <2>2, FreedFrame DEF GcScanHead, Goto
  <2>3. CASE GcLoadLog(p)
    BY <1>1, <2>3, FreedFrame DEF GcLoadLog, Goto
  <2>4. CASE GcScan(p)
    <3>1. pc[p] = "scan" /\ ~InLoop
      <4>1. pc[p] = "scan"
        BY <2>4 DEF GcScan
      <4>2. QED
        BY <4>1, Alone DEF InLoop
    <3>2. CASE gc_k' = bound /\ Goto(p, "gc_log")
      <4>1. InLoop'
        BY <1>1, <3>2 DEF InLoop, Goto
      <4>2. QED
        BY <1>1, <3>1, <3>2, <4>1 DEF Freed
    <3>3. CASE UNCHANGED <<pc, gc_k>>
      BY <1>1, <3>3, FreedFrame
    <3>4. CASE Goto(p, "scan_head") /\ UNCHANGED gc_k
      BY <1>1, <3>1, <3>4, FreedFrame DEF Goto
    <3>5. QED
      BY <2>4, <3>2, <3>3, <3>4 DEF GcScan, FirstToFree
  <2>5. QED
    BY <2>1, <2>2, <2>3, <2>4
<1>4. \A q \in Producers : Holds(q) => Holds(q)'
  BY <1>2 DEF Holds
<1>5. QED
  BY <1>1, <1>3, <1>4, LostFrame

(* The collected buffer passes from the ring to the end of the free list.  *)
LEMMA LostGcEnqueue ==
  ASSUME Pre, NoBufferLost, NEW p \in Producers, GcEnqueue(p)
  PROVE  NoBufferLost'
<1>1. /\ pc \in [Producers -> Labels] /\ freelist \in Seq(Logs) /\ gc_log \in Logs
      /\ pc[p] = "gc_enq" /\ pc' = [pc EXCEPT ![p] = "gc_log"]
      /\ UNCHANGED <<tail, pub_log, pub_idx, lg>>
  BY DEF Pre, TypeOK, GcEnqueue, Goto, pubVars
<1>2. /\ LOG_COUNT \in Nat /\ bound \in Nat /\ new_b \in Nat /\ gc_k \in Nat
      /\ tail \in Nat /\ Freed \in Nat /\ bound <= tail + LOG_COUNT
  BY Counters
<1>3. /\ subscribed = 1 /\ gc_k < new_b /\ new_b <= bound + LOG_COUNT
      /\ gc_log = pub_log[get_idx(gc_k)]
  BY <1>1 DEF Pre, IInv, GcInv
<1>4. Freed = gc_k - LOG_COUNT /\ get_idx(gc_k) = get_idx(Freed)
  BY <1>1, CollectedIsPublished
<1>5. gc_k' = gc_k + 1 /\ freelist' = Append(freelist, gc_log)
  <2>1. gc_k < tail + 2 * LOG_COUNT
    BY <1>2, <1>3
  <2>2. Inc(gc_k) = gc_k + 1
    BY <1>2, <2>1, Plain
  <2>3. QED
    BY <1>3, <2>2 DEF GcEnqueue
<1>6. Freed' = Freed + 1
  <2>1. InLoop'
    BY <1>1 DEF InLoop
  <2>2. QED
    BY <1>2, <1>4, <1>5, <2>1 DEF Freed
<1>7. \A l \in Logs : IsFree(l) \/ l = gc_log => IsFree(l)'
  <2>1. /\ Len(freelist') = Len(freelist) + 1 /\ Len(freelist) \in Nat
        /\ \A i \in 1 .. Len(freelist) : freelist'[i] = freelist[i]
        /\ freelist'[Len(freelist) + 1] = gc_log
    BY <1>1, <1>5
  <2>2. QED
    BY <2>1 DEF IsFree
<1>8. \A l \in Logs : InHands(l) => InHands(l)'
  BY <1>1 DEF InHands, Holds
<1>9. \A l \in Logs : InRing(l) => InRing(l)' \/ l = gc_log
  <2> SUFFICES ASSUME NEW l \in Logs, NEW k \in Idx, Freed <= k, k < tail,
                      pub_idx[get_idx(k)] = Inc(k), pub_log[get_idx(k)] = l
               PROVE  InRing(l)' \/ l = gc_log
    BY DEF InRing
  <2>1. CASE k = Freed
    BY <1>3, <1>4, <2>1
  <2>2. CASE k # Freed
    <3>1. Freed' <= k
      BY <1>2, <1>6, <2>2 DEF Idx
    <3>2. QED
      BY <1>1, <3>1 DEF InRing, get_idx, Inc
  <2>3. QED
    BY <2>1, <2>2
<1>10. QED
  BY <1>7, <1>8, <1>9, Places, PlacesNext

(* The steps of produce_tail: the buffer stays with the thread until its   *)
(* entry is published.                                                     *)
LEMMA LostClaim ==
  ASSUME Pre, NoBufferLost, NEW p \in Producers, Claim(p) \/ SetRel(p)
  PROVE  NoBufferLost'
<1>1. /\ pc \in [Producers -> Labels]
      /\ UNCHANGED <<freelist, pub_log, pub_idx, lg, bound, gc_k>>
      /\ tail' = Inc(tail) \/ tail' = tail
  BY DEF Pre, TypeOK, Claim, SetRel, pubVars, gcVars
<1>2. /\ pc[p] \in {"fill", "set_rel"}
      /\ pc' = [pc EXCEPT ![p] = "set_rel"] \/ pc' = [pc EXCEPT ![p] = "set_log"]
  BY DEF Claim, SetRel, Goto
<1>3. tail \in Nat /\ tail <= tail' /\ tail' \in Nat
  <2>1. tail \in Nat /\ Inc(tail) = tail + 1
    BY Counters, Plain
  <2>2. QED
    BY <1>1, <2>1
<1>4. Freed' = Freed
  BY <1>1, <1>2, FreedFrame
<1>5. \A l \in Logs : IsFree(l)' <=> IsFree(l)
  BY <1>1 DEF IsFree
<1>6. \A l \in Logs : InHands(l) => InHands(l)'
  BY <1>1, <1>2 DEF InHands, Holds
<1>7. \A l \in Logs : InRing(l) => InRing(l)'
  <2> SUFFICES ASSUME NEW l \in Logs, NEW k \in Idx, Freed <= k, k < tail,
                      pub_idx[get_idx(k)] = Inc(k), pub_log[get_idx(k)] = l
               PROVE  InRing(l)'
    BY DEF InRing
  <2>1. k < tail'
    BY <1>3 DEF Idx
  <2>2. QED
    BY <1>1, <1>4, <2>1 DEF InRing, get_idx, Inc
<1>8. QED
  BY <1>5, <1>6, <1>7, Places, PlacesNext

(* The entry that is overwritten held no live position.                    *)
LEMMA LostSetLog ==
  ASSUME Pre, NoBufferLost, NEW p \in Producers, SetLog(p)
  PROVE  NoBufferLost'
<1>1. /\ pc \in [Producers -> Labels] /\ pub_log \in [Slots -> Logs]
      /\ pc[p] = "set_log" /\ pc' = [pc EXCEPT ![p] = "set_idx"] /\ Claimed(p)
      /\ pub_log' = [pub_log EXCEPT ![get_idx(t[p])] = lg[p]]
      /\ UNCHANGED <<freelist, tail, pub_idx, lg, bound, gc_k>>
  BY DEF Pre, TypeOK, SetLog, Goto, Claimed, gcVars
<1>2. Freed' = Freed
  BY <1>1, FreedFrame
<1>3. \A l \in Logs : IsFree(l)' <=> IsFree(l)
  BY <1>1 DEF IsFree
<1>4. \A l \in Logs : InHands(l) => InHands(l)'
  BY <1>1 DEF InHands, Holds
<1>5. t[p] \in Nat /\ t[p] < tail /\ pub_idx[get_idx(t[p])] <= t[p]
  BY <1>1, OwnSlot DEF Pre, IInv, RingInv, ClaimsHeld
<1>6. Inc(t[p]) = t[p] + 1
  <2>1. tail \in Nat /\ t[p] <= tail
    BY <1>5, Counters
  <2>2. QED
    BY <1>5, <2>1, Plain
<1>7. \A l \in Logs : InRing(l) => InRing(l)'
  <2> SUFFICES ASSUME NEW l \in Logs, NEW k \in Idx, Freed <= k, k < tail,
                      pub_idx[get_idx(k)] = Inc(k), pub_log[get_idx(k)] = l
               PROVE  InRing(l)'
    BY DEF InRing
  <2>1. k # t[p]
    BY <1>5, <1>6
  <2>2. get_idx(k) # get_idx(t[p]) /\ get_idx(k) \in Slots
    BY <1>1, <2>1, OthersAway
  <2>3. pub_log'[get_idx(k)] = l
    BY <1>1, <2>2
  <2>4. QED
    BY <1>1, <1>2, <2>3 DEF InRing, get_idx, Inc
<1>8. QED
  BY <1>3, <1>4, <1>7, Places, PlacesNext

(* The buffer passes from the thread to the ring.                          *)
LEMMA LostSetIdx ==
  ASSUME Pre, NoBufferLost, NEW p \in Producers, SetIdx(p)
  PROVE  NoBufferLost'
<1>1. /\ pc \in [Producers -> Labels] /\ pub_idx \in [Slots -> Idx]
      /\ lg \in [Producers -> Logs]
      /\ pc[p] = "set_idx" /\ pc' = [pc EXCEPT ![p] = "idle"] /\ Claimed(p)
      /\ pub_idx' = [pub_idx EXCEPT ![get_idx(t[p])] = Inc(t[p])]
      /\ lg' = [lg EXCEPT ![p] = 0]
      /\ UNCHANGED <<freelist, tail, pub_log, bound, gc_k>>
  BY DEF Pre, TypeOK, SetIdx, Goto, Claimed, gcVars
<1>2. Freed' = Freed
  BY <1>1, FreedFrame
<1>3. \A l \in Logs : IsFree(l)' <=> IsFree(l)
  BY <1>1 DEF IsFree
<1>4. /\ t[p] \in Idx /\ get_idx(t[p]) \in Slots
      /\ Freed <= t[p] /\ t[p] < tail /\ pub_log[get_idx(t[p])] = lg[p]
  BY <1>1, OwnSlot DEF Pre, IInv, RingInv, ClaimsHeld
<1>5. \A l \in Logs : l = lg[p] => InRing(l)'
  <2>1. pub_idx'[get_idx(t[p])] = Inc(t[p])
    BY <1>1, <1>4
  <2> DEFINE k == t[p]
  <2>2. k \in Idx /\ Freed' <= k /\ k < tail' /\ pub_idx'[get_idx(k)] = Inc(k)
        /\ pub_log'[get_idx(k)] = lg[p]
    BY <1>1, <1>2, <1>4, <2>1
  <2> HIDE DEF k
  <2>3. \E i \in Idx : /\ Freed' <= i /\ i < tail'
                       /\ pub_idx'[i % LOG_COUNT] = (i + 1) % IdxMod
                       /\ pub_log'[i % LOG_COUNT] = lg[p]
    BY <2>2 DEF get_idx, Inc
  <2>4. QED
    BY <2>3 DEF InRing, get_idx, Inc
<1>6. \A l \in Logs : InHands(l) => InHands(l)' \/ InRing(l)'
  BY <1>1, <1>5 DEF InHands, Holds
<1>7. \A l \in Logs : InRing(l) => InRing(l)'
  <2> SUFFICES ASSUME NEW l \in Logs, NEW k \in Idx, Freed <= k, k < tail,
                      pub_idx[get_idx(k)] = Inc(k), pub_log[get_idx(k)] = l
               PROVE  InRing(l)'
    BY DEF InRing
  <2>1. get_idx(k) \in Slots
    BY IdxTypes
  <2>2. pub_idx'[get_idx(k)] = Inc(k)
    <3>1. CASE k = t[p]
      BY <1>1, <2>1, <3>1
    <3>2. CASE k # t[p]
      BY <1>1, <2>1, <3>2, OthersAway
    <3>3. QED
      BY <3>1, <3>2
  <2>3. QED
    BY <1>1, <1>2, <2>2 DEF InRing, get_idx, Inc
<1>8. QED
  BY <1>3, <1>6, <1>7, Places, PlacesNext

LEMMA LostInit == Init => NoBufferLost
<1> SUFFICES ASSUME Init, NEW l \in Logs PROVE IsFree(l)
  BY Places
<1>1. LOG_COUNT \in Nat
  BY LogManagerAssumption DEF LogManagerAssumption
<1>2. Len(freelist) = LOG_COUNT /\ \A i \in 1 .. LOG_COUNT : freelist[i] = i - 1
  BY <1>1 DEF Init
<1>3. l + 1 \in 1 .. LOG_COUNT /\ (l + 1) - 1 = l
  BY <1>1 DEF Logs
<1>4. QED
  BY <1>2, <1>3 DEF IsFree

LEMMA LostStep == Pre /\ NoBufferLost /\ [Next]_vars => NoBufferLost'
<1> SUFFICES ASSUME Pre, NoBufferLost, [Next]_vars PROVE NoBufferLost'
  OBVIOUS
<1>1. ASSUME NEW p \in Producers, Begin(p) \/ ProducerStep(p) PROVE NoBufferLost'
  BY <1>1, LostScan, LostGetLog, LostRecheck, LostGcDone, LostGcEnqueue,
     LostClaim, LostSetLog, LostSetIdx DEF ProducerStep
<1>2. ASSUME NEW n \in Subs, ConsumerStep(n) \/ Unsubscribe(n) PROVE NoBufferLost'
  <2>1. UNCHANGED <<freelist, tail, pub_log, pub_idx, lg, pc, bound, gc_k>>
    BY <1>2 DEF ConsumerStep, Enter, TakeHead, LoadEntry, ConsumeHead, Unsubscribe,
                pubVars, prodVars, gcVars
  <2>2. QED
    BY <2>1, LostFrame, FreedFrame DEF Holds
<1>3. ASSUME UNCHANGED vars PROVE NoBufferLost'
  <2>1. UNCHANGED <<freelist, tail, pub_log, pub_idx, lg, pc, bound, gc_k>>
    BY <1>3 DEF vars, pubVars, prodVars, gcVars
  <2>2. QED
    BY <2>1, LostFrame, FreedFrame DEF Holds
<1>4. QED
  BY <1>1, <1>2, <1>3 DEF Next

(* Every buffer is in the free list, with a thread or in the entry of a    *)
(* position still to be collected: neither perform_gc, which may stop and  *)
(* go on anywhere, nor a thread that fills the slot of a collected         *)
(* position loses one, so the node never runs short of logs.               *)
THEOREM BuffersAreNotLost ==
  ASSUME Pinned # {}
  PROVE  Spec /\ []NoWrap => []NoBufferLost
<1>1. TypeOK /\ IInv /\ NoWrap /\ NoBufferLost /\ [Next]_vars => NoBufferLost'
  BY LostStep DEF Pre
<1>2. QED
  BY <1>1, LostInit, Inductive, PTL DEF Spec

-----------------------------------------------------------------------------
(* No producer overwrites an entry that a subscribed node still has to     *)
(* read.                                                                   *)
THEOREM ProducersDoNotLap ==
  ASSUME Pinned # {}
  PROVE  Spec /\ []NoWrap => []NoLap
<1>1. TypeOK /\ IInv /\ NoWrap => NoLap
  <2> SUFFICES ASSUME Pre, NEW p \in Producers, NEW n \in Subs,
                      Claimed(p), is_subbed[n]
               PROVE  t[p] < head[n] + LOG_COUNT
    BY DEF Pre, NoLap, Claimed
  <2>1. /\ tail \in Nat /\ Freed \in Nat /\ LOG_COUNT \in Nat /\ Freed <= head[n]
        /\ head \in [Subs -> Nat] /\ t \in [Producers -> Nat]
    BY Counters
  <2>2. t[p] < tail /\ tail <= Freed + LOG_COUNT
    BY DEF Pre, IInv, RingInv, RingWindow, ClaimsHeld
  <2>3. QED
    BY <2>1, <2>2
<1>2. QED
  BY <1>1, Inductive, PTL

-----------------------------------------------------------------------------
(* The ring implements the broadcast log.                                  *)

(* What a node reads, in terms of its head.                                *)
LEMMA Reading ==
  ASSUME ReadsPublished
  PROVE  absReading = [n \in Subs |-> IF is_subbed[n] /\ cpc[n] = "process" THEN head[n] ELSE -1]
BY DEF ReadsPublished, absReading

(* Steps of a producer that neither claim a position nor publish one.      *)
LEMMA QuietProducer ==
  ASSUME TypeOK, NEW p \in Producers,
         \/ Begin(p) \/ GetLog(p) \/ GcLock(p) \/ Recheck(p) \/ GcScan(p) \/ GcScanHead(p)
         \/ GcLoadLog(p) \/ GcEnqueue(p) \/ GcDone(p) \/ SetRel(p) \/ SetLog(p)
  PROVE  /\ UNCHANGED <<tail, is_subbed, head, cpc, t>>
         /\ \A q \in Producers : Claimed(q)' <=> Claimed(q)
<1>0. pc \in [Producers -> Labels]
  BY DEF TypeOK
<1>1. CASE Begin(p)
  BY <1>0, <1>1 DEF Begin, Goto, Claimed, subVars, consVars
<1>2. CASE GetLog(p)
  BY <1>0, <1>2 DEF GetLog, TakeFree, Goto, Claimed, subVars, consVars
<1>3. CASE GcLock(p)
  BY <1>0, <1>3 DEF GcLock, Goto, Claimed, subVars, consVars
<1>4. CASE Recheck(p)
  BY <1>0, <1>4 DEF Recheck, TakeFree, Goto, Claimed, subVars, consVars
<1>5. CASE GcScan(p)
  BY <1>0, <1>5 DEF GcScan, Goto, Claimed, subVars, consVars
<1>6. CASE GcScanHead(p)
  BY <1>0, <1>6 DEF GcScanHead, Goto, Claimed, subVars, consVars
<1>7. CASE GcLoadLog(p)
  BY <1>0, <1>7 DEF GcLoadLog, Goto, Claimed, subVars, consVars
<1>8. CASE GcEnqueue(p)
  BY <1>0, <1>8 DEF GcEnqueue, Goto, Claimed, subVars, consVars
<1>9. CASE GcDone(p)
  BY <1>0, <1>9 DEF GcDone, TakeFree, Goto, Claimed, subVars, consVars
<1>10. CASE SetRel(p)
  BY <1>0, <1>10 DEF SetRel, Goto, Claimed, subVars, consVars
<1>11. CASE SetLog(p)
  BY <1>0, <1>11 DEF SetLog, Goto, Claimed, subVars, consVars
<1>12. QED
  BY <1>1, <1>2, <1>3, <1>4, <1>5, <1>6, <1>7, <1>8, <1>9, <1>10, <1>11

LEMMA BroadcastStep ==
  ASSUME Pre, [Next]_vars
  PROVE  [Abs!Next]_(Abs!vars)
<1>0. /\ tail \in Nat /\ Freed \in Nat /\ IdxMod \in Nat /\ LOG_COUNT \in Nat /\ LOG_COUNT > 0
      /\ head \in [Subs -> Nat] /\ t \in [Producers -> Nat]
      /\ \A n \in Subs : is_subbed[n] => Freed <= head[n]
  BY Counters
<1>1. /\ TypeOK /\ IInv /\ pc \in [Producers -> Labels] /\ cpc \in [Subs -> CLabels]
      /\ is_subbed \in [Subs -> BOOLEAN]
  BY DEF Pre, TypeOK
<1>2. absReading = [n \in Subs |-> IF is_subbed[n] /\ cpc[n] = "process" THEN head[n] ELSE -1]
  BY <1>1, Reading DEF IInv, ConsInv, ReadsPublished
<1>3. absReading' = [n \in Subs |-> IF is_subbed'[n] /\ cpc'[n] = "process" THEN head'[n] ELSE -1]
  <2>1. IInv'
    BY InvStep
  <2>2. ReadsPublished'
    BY <2>1 DEF IInv, ConsInv, ReadsPublished
  <2>3. QED
    BY <2>2 DEF ReadsPublished, absReading
<1>4. SUFFICES Abs!Next \/ UNCHANGED <<tail, absPending, is_subbed, absHead, absReading>>
  BY DEF Abs!vars
<1>5. ASSUME UNCHANGED <<is_subbed, head, cpc>>
      PROVE  absHead' = absHead /\ absReading' = absReading
  BY <1>2, <1>3, <1>5 DEF absHead
<1>6. ASSUME UNCHANGED t, \A q \in Producers : Claimed(q)' <=> Claimed(q)
      PROVE  absPending' = absPending
  BY <1>6 DEF absPending
<1>7. ASSUME NEW p \in Producers,
             \/ Begin(p) \/ GetLog(p) \/ GcLock(p) \/ Recheck(p) \/ GcScan(p) \/ GcScanHead(p)
             \/ GcLoadLog(p) \/ GcEnqueue(p) \/ GcDone(p) \/ SetRel(p) \/ SetLog(p)
      PROVE  UNCHANGED <<tail, absPending, is_subbed, absHead, absReading>>
  <2>1. /\ UNCHANGED <<tail, is_subbed, head, cpc, t>>
        /\ \A q \in Producers : Claimed(q)' <=> Claimed(q)
    BY <1>1, <1>7, QuietProducer
  <2>2. QED
    BY <1>5, <1>6, <2>1
<1>8. ASSUME NEW p \in Producers, Claim(p)
      PROVE  Abs!Next
  <2>1. /\ pc[p] = "fill" /\ pc' = [pc EXCEPT ![p] = "set_rel"] /\ t' = [t EXCEPT ![p] = tail]
        /\ tail' = Inc(tail) /\ UNCHANGED <<is_subbed, head, cpc>>
    BY <1>8 DEF Claim, Goto, subVars, consVars
  <2>2. tail' = tail + 1 /\ tail < IdxMod
    BY <1>0, <2>1, Plain DEF Pre, NoWrap
  <2>3. \A n \in Subs : is_subbed[n] => tail < absHead[n] + LOG_COUNT
    <3>1. tail < Freed + LOG_COUNT
      BY <2>1, RoomToClaim
    <3>2. \A n \in Subs : is_subbed[n] => absHead[n] = head[n] /\ Freed <= head[n]
      BY <1>0 DEF absHead
    <3>3. QED
      BY <1>0, <3>1, <3>2
  <2>4. absPending' = absPending \cup {tail}
    <3>1. /\ Claimed(p)' /\ ~Claimed(p) /\ t'[p] = tail
          /\ \A q \in Producers \ {p} : (Claimed(q)' <=> Claimed(q)) /\ t'[q] = t[q]
      BY <1>0, <1>1, <2>1 DEF Claimed
    <3>2. QED
      BY <3>1 DEF absPending
  <2>5. Abs!Claim
    BY <1>5, <2>1, <2>2, <2>3, <2>4 DEF Abs!Claim
  <2>6. QED
    BY <2>5 DEF Abs!Next
<1>9. ASSUME NEW p \in Producers, SetIdx(p)
      PROVE  Abs!Next
  <2>1. /\ pc[p] = "set_idx" /\ pc' = [pc EXCEPT ![p] = "idle"] /\ t' = [t EXCEPT ![p] = 0]
        /\ UNCHANGED <<tail, is_subbed, head, cpc>>
    BY <1>9 DEF SetIdx, Goto, subVars, consVars
  <2>2. /\ Claimed(p) /\ ~Claimed(p)'
        /\ \A q \in Producers \ {p} : (Claimed(q)' <=> Claimed(q)) /\ t'[q] = t[q]
    BY <1>0, <1>1, <2>1 DEF Claimed
  <2>3. \A q \in Producers \ {p} : Claimed(q) => t[q] # t[p]
    BY <2>2 DEF Pre, IInv, RingInv, ClaimsDiffer
  <2>4. t[p] \in absPending /\ absPending' = absPending \ {t[p]}
    BY <2>2, <2>3 DEF absPending
  <2>5. Abs!Publish
    BY <1>5, <2>1, <2>4 DEF Abs!Publish
  <2>6. QED
    BY <2>5 DEF Abs!Next
<1>10. ASSUME NEW n \in Subs, Enter(n) \/ TakeHead(n)
       PROVE  UNCHANGED <<tail, absPending, is_subbed, absHead, absReading>>
  <2>1. UNCHANGED <<tail, is_subbed, head, pc, t>>
    BY <1>10 DEF Enter, TakeHead, subVars, prodVars
  <2>2. cpc[n] # "process" /\ cpc'[n] # "process" /\ \A m \in Subs \ {n} : cpc'[m] = cpc[m]
    BY <1>1, <1>10 DEF Enter, TakeHead, CGoto
  <2>3. absReading' = absReading
    BY <1>2, <1>3, <2>1, <2>2
  <2>4. QED
    BY <1>6, <2>1, <2>3 DEF absHead, Claimed
<1>11. ASSUME NEW n \in Subs, LoadEntry(n)
       PROVE  Abs!Next \/ UNCHANGED <<tail, absPending, is_subbed, absHead, absReading>>
  <2>1. /\ UNCHANGED <<tail, is_subbed, head, pc, t>>
        /\ cpc[n] = "taken" /\ cpc' = [cpc EXCEPT ![n] = "process"]
    BY <1>11 DEF LoadEntry, CGoto, subVars, prodVars
  <2>2. UNCHANGED <<absPending, absHead>>
    BY <1>6, <2>1 DEF absHead, Claimed
  <2>3. CASE ~is_subbed[n]
    <3>1. absReading' = absReading
      BY <1>1, <1>2, <1>3, <2>1, <2>3
    <3>2. QED
      BY <2>1, <2>2, <3>1
  <2>4. CASE is_subbed[n]
    <3>1. /\ head[n] + 1 <= tail
          /\ \A q \in Producers : Claimed(q) => head[n] + 1 <= t[q]
      BY <2>1, <2>4 DEF Pre, IInv, ConsInv, Ready
    <3>2. head[n] < tail /\ head[n] \notin absPending
      BY <1>0, <3>1 DEF absPending
    <3>3. absHead[n] = head[n] /\ absReading[n] = -1
      BY <1>2, <2>1, <2>4 DEF absHead
    <3>4. absReading' = [absReading EXCEPT ![n] = absHead[n]]
      BY <1>1, <1>2, <1>3, <2>1, <2>4, <3>3
    <3>5. Abs!Read(n)
      BY <2>1, <2>2, <2>4, <3>2, <3>3, <3>4 DEF Abs!Read
    <3>6. QED
      BY <3>5 DEF Abs!Next
  <2>5. QED
    BY <1>1, <2>3, <2>4
<1>12. ASSUME NEW n \in Subs, ConsumeHead(n)
       PROVE  Abs!Next \/ UNCHANGED <<tail, absPending, is_subbed, absHead, absReading>>
  <2>1. /\ UNCHANGED <<tail, is_subbed, pc, t>>
        /\ cpc[n] = "process" /\ head' = [head EXCEPT ![n] = Inc(head[n])]
    BY <1>12 DEF ConsumeHead, prodVars
  <2>2. cpc'[n] # "process" /\ \A m \in Subs \ {n} : cpc'[m] = cpc[m] /\ head'[m] = head[m]
    BY <1>0, <1>1, <1>12 DEF ConsumeHead, CGoto
  <2>3. UNCHANGED absPending
    BY <1>6, <2>1 DEF Claimed
  <2>4. CASE ~is_subbed[n]
    <3>1. absReading' = absReading /\ absHead' = absHead
      BY <1>2, <1>3, <2>1, <2>2, <2>4 DEF absHead
    <3>2. QED
      BY <2>1, <2>3, <3>1
  <2>5. CASE is_subbed[n]
    <3>1. head[n] + 1 <= tail
      BY <2>1, <2>5 DEF Pre, IInv, ConsInv, Ready
    <3>2. head[n] \in Nat /\ head'[n] = head[n] + 1
      BY <1>0, <2>1, <3>1, Plain
    <3>3. absReading[n] = absHead[n] /\ absHead[n] = head[n]
      BY <1>2, <2>1, <2>5 DEF absHead
    <3>4. absHead' = [absHead EXCEPT ![n] = @ + 1]
      BY <2>1, <2>2, <2>5, <3>2, <3>3 DEF absHead
    <3>5. absReading' = [absReading EXCEPT ![n] = -1]
      BY <1>2, <1>3, <2>1, <2>2, <2>5
    <3>6. Abs!Consume(n)
      BY <2>1, <2>3, <3>3, <3>4, <3>5 DEF Abs!Consume
    <3>7. QED
      BY <3>6 DEF Abs!Next
  <2>6. QED
    BY <1>1, <2>4, <2>5
<1>13. ASSUME NEW n \in Subs, Unsubscribe(n)
       PROVE  Abs!Next
  <2>1. /\ UNCHANGED <<tail, head, pc, t, cpc>>
        /\ is_subbed[n] /\ is_subbed' = [is_subbed EXCEPT ![n] = FALSE]
    BY <1>13 DEF Unsubscribe, prodVars, consVars
  <2>2. UNCHANGED absPending
    BY <1>6, <2>1 DEF Claimed
  <2>3. absHead' = [absHead EXCEPT ![n] = 0]
    BY <1>1, <2>1 DEF absHead
  <2>4. absReading' = [absReading EXCEPT ![n] = -1]
    BY <1>1, <1>2, <1>3, <2>1
  <2>5. Abs!Unsubscribe(n)
    BY <2>1, <2>2, <2>3, <2>4 DEF Abs!Unsubscribe
  <2>6. QED
    BY <2>5 DEF Abs!Next
<1>14. CASE UNCHANGED vars
  <2>1. UNCHANGED <<tail, is_subbed, head, cpc, pc, t>>
    BY <1>14 DEF vars, subVars, consVars, prodVars
  <2>2. QED
    BY <1>5, <1>6, <2>1 DEF Claimed
<1>15. QED
  BY <1>7, <1>8, <1>9, <1>10, <1>11, <1>12, <1>13, <1>14
     DEF Next, ProducerStep, ConsumerStep

LEMMA BroadcastInit ==
  ASSUME Init
  PROVE  Abs!Init
<1>1. absPending = {}
  BY DEF Init, absPending, Claimed
<1>2. absHead = [n \in Subs |-> 0]
  BY DEF Init, absHead
<1>3. absReading = [n \in Subs |-> -1]
  BY DEF Init, absReading
<1>4. QED
  BY <1>1, <1>2, <1>3 DEF Init, Abs!Init

(* The ring with its free list and its collection implements the broadcast *)
(* log: positions are claimed in order and never a whole ring ahead of a   *)
(* subscribed node, and every subscribed node reads each published position *)
(* once and in order.                                                      *)
THEOREM LogBroadcasts ==
  ASSUME Pinned # {}
  PROVE  Spec /\ []NoWrap => Broadcast
<1>1. Init => Abs!Init
  BY BroadcastInit
<1>2. TypeOK /\ IInv /\ NoWrap /\ [Next]_vars => [Abs!Next]_(Abs!vars)
  BY BroadcastStep DEF Pre
<1>3. QED
  BY <1>1, <1>2, Inductive, PTL DEF Spec, Broadcast, Abs!Spec

===============================================================================
