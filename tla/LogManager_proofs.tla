--------------------------- MODULE LogManager_proofs --------------------------
(* Theorems about the broadcast log of module LogManager, for any number   *)
(* of nodes, threads and log buffers.                                      *)
EXTENDS LogInvariant, TLAPS

-----------------------------------------------------------------------------
(* Arithmetic of ring indices.                                             *)

(* The remainder of a natural division is below the divisor.               *)
LEMMA ModRange ==
  ASSUME NEW a \in Int, NEW b \in Nat \ {0}
  PROVE  a % b \in 0 .. b - 1
  OBVIOUS

(* The index functions of logManager.hpp stay in their ranges.             *)
LEMMA IdxTypes ==
  /\ \A i \in Idx : Inc(i) \in Idx
  /\ \A i \in Idx : next_round(i) \in Idx
  /\ \A i \in Idx : get_idx(i) \in Slots
  /\ 0 \in Idx /\ 0 \in Logs
  /\ \A l \in Logs : l \in Slots
<1>1. IdxMod \in Nat \ {0} /\ LOG_COUNT \in Nat \ {0}
  BY LogManagerAssumption DEF LogManagerAssumption
<1>2. \A i \in Idx : Inc(i) \in Idx
  BY <1>1, ModRange DEF Idx, Inc
<1>3. \A i \in Idx : next_round(i) \in Idx
  BY <1>1, ModRange DEF Idx, next_round
<1>4. \A i \in Idx : get_idx(i) \in Slots
  BY <1>1, ModRange DEF Idx, get_idx, Slots
<1>5. QED
  BY <1>1, <1>2, <1>3, <1>4 DEF Idx, Logs, Slots

(* A dequeue returns a log and leaves a list of logs.                      *)
LEMMA DequeueTypes ==
  ASSUME NEW s \in Seq(Logs), s # <<>>
  PROVE  Head(s) \in Logs /\ Tail(s) \in Seq(Logs)
  OBVIOUS

(* An enqueue keeps a list of logs.                                        *)
LEMMA EnqueueTypes ==
  ASSUME NEW s \in Seq(Logs), NEW l \in Logs
  PROVE  Append(s, l) \in Seq(Logs)
  OBVIOUS

(* The free list after a dequeue by p, as GetLog, Recheck and GcDone do it. *)
LEMMA TakeFreeTypes ==
  ASSUME TypeOK, NEW p \in Producers, TakeFree(p)
  PROVE  /\ lg' \in [Producers -> Logs]
         /\ stamp' \in [Logs -> Idx \cup {-1}]
         /\ freelist' \in Seq(Logs)
         /\ pc' \in [Producers -> Labels]
<1>1. Head(freelist) \in Logs /\ Tail(freelist) \in Seq(Logs)
  BY DequeueTypes DEF TypeOK, TakeFree
<1>2. QED
  BY <1>1 DEF TypeOK, TakeFree, Goto, Labels

-----------------------------------------------------------------------------
(* Types.  TypeOK is not inductive by itself: the index of the subscriber  *)
(* scan stays in range because gc_mtx lets one thread scan at a time, and  *)
(* the count of logs because it is checked when the thread asks for one.   *)

LEMMA TypeInit == Init => TypeOK /\ LockInv
<1> SUFFICES ASSUME Init PROVE TypeOK /\ LockInv
  OBVIOUS
<1> USE IdxTypes, LogManagerAssumption DEF LogManagerAssumption
<1>1. freelist \in Seq(Logs)
  BY DEF Init, Logs
<1>2. bound \in Idx
  BY DEF Init
<1>3. TypeOK
  BY <1>1, <1>2 DEF Init, TypeOK, Labels, CLabels, Logs, Slots
<1>4. LockInv
  BY DEF Init, LockInv
<1>5. QED
  BY <1>3, <1>4

LEMMA TypeStep == TypeOK /\ LockInv /\ [Next]_vars => TypeOK'
<1> SUFFICES ASSUME TypeOK, LockInv, [Next]_vars PROVE TypeOK'
  OBVIOUS
<1> USE IdxTypes, LogManagerAssumption DEF LogManagerAssumption
<1>1. ASSUME NEW p \in Producers, Begin(p) PROVE TypeOK'
  BY <1>1 DEF TypeOK, Begin, Goto, Labels, pubVars, subVars, gcVars, consVars, histVars, prodVars
<1>2. ASSUME NEW p \in Producers, GetLog(p) PROVE TypeOK'
  <2>1. CASE TakeFree(p)
    BY <1>2, <2>1, TakeFreeTypes DEF TypeOK, GetLog, pubVars, subVars, gcVars, consVars, histVars, prodVars
  <2>2. CASE ~TakeFree(p)
    BY <1>2, <2>2 DEF TypeOK, GetLog, Goto, Labels, pubVars, subVars, gcVars, consVars, histVars, prodVars
  <2>3. QED
    BY <2>1, <2>2
<1>3. ASSUME NEW p \in Producers, GcLock(p) PROVE TypeOK'
  BY <1>3 DEF TypeOK, GcLock, Goto, Labels, pubVars, subVars, gcVars, consVars, histVars, prodVars
<1>4. ASSUME NEW p \in Producers, Recheck(p) PROVE TypeOK'
  <2>1. CASE TakeFree(p)
    BY <1>4, <2>1, TakeFreeTypes DEF TypeOK, Recheck, pubVars, subVars, gcVars, consVars, histVars, prodVars
  <2>2. CASE ~TakeFree(p)
    <3>1. UNCHANGED <<freelist, lg, stamp, gc_k, gc_log, gc_mtx>>
      BY <1>4, <2>2 DEF Recheck
    <3>2. new_b' \in Idx /\ subscribed' \in 0 .. 1
      BY <1>4, <2>2 DEF TypeOK, Recheck
    <3>3. gc_sub' \in 0 .. NODE_COUNT
      BY <1>4, <2>2 DEF TypeOK, Recheck
    <3>4. pc' \in [Producers -> Labels]
      BY <1>4, <2>2 DEF TypeOK, Recheck, Goto, Labels
    <3>5. QED
      BY <1>4, <3>1, <3>2, <3>3, <3>4 DEF TypeOK, Recheck, pubVars, subVars, gcVars, consVars, histVars, prodVars
  <2>3. QED
    BY <2>1, <2>2
<1>5. ASSUME NEW p \in Producers, GcScan(p) PROVE TypeOK'
  <2>1. gc_k' \in Idx
    BY <1>5 DEF TypeOK, GcScan, FirstToFree
  <2>2. gc_sub' \in 0 .. NODE_COUNT
    BY <1>5 DEF TypeOK, GcScan, ScanOver
  <2>3. subscribed' \in 0 .. 1
    BY <1>5 DEF TypeOK, GcScan
  <2>4. pc' \in [Producers -> Labels]
    BY <1>5 DEF TypeOK, GcScan, Goto, Labels
  <2>5. QED
    BY <1>5, <2>1, <2>2, <2>3, <2>4 DEF TypeOK, GcScan, pubVars, subVars, gcVars, consVars, histVars, prodVars
<1>6. ASSUME NEW p \in Producers, GcScanHead(p) PROVE TypeOK'
  BY <1>6 DEF TypeOK, GcScanHead, Goto, Labels, pubVars, subVars, gcVars, consVars, histVars, prodVars, LimitedBy, LockInv, Subs
<1>7. ASSUME NEW p \in Producers, GcLoadLog(p) PROVE TypeOK'
  BY <1>7 DEF TypeOK, GcLoadLog, Goto, Labels, pubVars, subVars, gcVars, consVars, histVars, prodVars
<1>8. ASSUME NEW p \in Producers, GcEnqueue(p) PROVE TypeOK'
  <2>0. Append(freelist, gc_log) \in Seq(Logs)
    BY EnqueueTypes DEF TypeOK
  <2>1. freelist' \in Seq(Logs)
    <3>1. freelist' = freelist \/ freelist' = Append(freelist, gc_log)
      BY <1>8 DEF GcEnqueue
    <3>2. QED
      BY <2>0, <3>1 DEF TypeOK
  <2>2. new_b' \in Idx /\ gc_k' \in Idx
    BY <1>8 DEF TypeOK, GcEnqueue
  <2>3. pc' \in [Producers -> Labels]
    BY <1>8 DEF TypeOK, GcEnqueue, Goto, Labels
  <2>4. QED
    BY <1>8, <2>1, <2>2, <2>3 DEF TypeOK, GcEnqueue, pubVars, subVars, gcVars, consVars, histVars, prodVars
<1>9. ASSUME NEW p \in Producers, GcDone(p) PROVE TypeOK'
  <2>1. CASE TakeFree(p)
    BY <1>9, <2>1, TakeFreeTypes DEF TypeOK, GcDone, pubVars, subVars, gcVars, consVars, histVars, prodVars
  <2>2. CASE ~TakeFree(p)
    <3>1. UNCHANGED <<freelist, lg, stamp>>
      BY <1>9, <2>2 DEF GcDone
    <3>2. pc' \in [Producers -> Labels]
      BY <1>9, <2>2 DEF TypeOK, GcDone, Goto, Labels
    <3>3. gc_sub' \in 0 .. NODE_COUNT
      BY <1>9 DEF GcDone
    <3>4. gc_mtx' \in Producers \cup {Nobody} /\ bound' \in Idx
      BY <1>9 DEF TypeOK, GcDone
    <3>5. QED
      BY <1>9, <3>1, <3>2, <3>3, <3>4 DEF TypeOK, GcDone, pubVars, subVars, gcVars, consVars, histVars, prodVars
  <2>3. QED
    BY <2>1, <2>2
<1>10. ASSUME NEW p \in Producers, Claim(p) PROVE TypeOK'
  BY <1>10 DEF TypeOK, Claim, Goto, Labels, pubVars, subVars, gcVars, consVars, histVars, prodVars
<1>11. ASSUME NEW p \in Producers, SetRel(p) PROVE TypeOK'
  BY <1>11 DEF TypeOK, SetRel, Goto, Labels, pubVars, subVars, gcVars, consVars, histVars, prodVars
<1>12. ASSUME NEW p \in Producers, SetLog(p) PROVE TypeOK'
  BY <1>12 DEF TypeOK, SetLog, Goto, Labels, pubVars, subVars, gcVars, consVars, histVars, prodVars
<1>13. ASSUME NEW p \in Producers, SetIdx(p) PROVE TypeOK'
  <2>0. ops[p] \in 0 .. MaxOps /\ ops[p] < MaxOps
    BY <1>13 DEF TypeOK, LockInv, SetIdx
  <2>1. ops' \in [Producers -> 0 .. MaxOps]
    <3>1. ops[p] + 1 \in 0 .. MaxOps
      BY <2>0
    <3>2. QED
      BY <1>13, <3>1 DEF TypeOK, SetIdx
  <2>2. pub_idx' \in [Slots -> Idx]
    BY <1>13 DEF TypeOK, SetIdx
  <2>3. QED
    BY <1>13, <2>1, <2>2 DEF TypeOK, SetIdx, Goto, Labels, pubVars, subVars, gcVars, consVars, histVars, prodVars
<1>14. ASSUME NEW n \in Subs, Enter(n) PROVE TypeOK'
  BY <1>14 DEF TypeOK, Enter, CGoto, CLabels, pubVars, subVars, gcVars, consVars, histVars, prodVars
<1>15. ASSUME NEW n \in Subs, TakeHead(n) PROVE TypeOK'
  BY <1>15 DEF TypeOK, TakeHead, CGoto, CLabels, pubVars, subVars, gcVars, consVars, histVars, prodVars
<1>16. ASSUME NEW n \in Subs, LoadEntry(n) PROVE TypeOK'
  BY <1>16 DEF TypeOK, LoadEntry, CGoto, CLabels, pubVars, subVars, gcVars, consVars, histVars, prodVars
<1>17. ASSUME NEW n \in Subs, ConsumeHead(n) PROVE TypeOK'
  BY <1>17 DEF TypeOK, ConsumeHead, CGoto, CLabels, pubVars, subVars, gcVars, consVars, histVars, prodVars
<1>18. ASSUME NEW n \in Subs, Unsubscribe(n) PROVE TypeOK'
  BY <1>18 DEF TypeOK, Unsubscribe, CGoto, CLabels, pubVars, subVars, gcVars, consVars, histVars, prodVars
<1>19. CASE UNCHANGED vars
  BY <1>19 DEF TypeOK, vars, pubVars, subVars, gcVars, consVars, histVars, prodVars
<1>20. QED
  BY <1>1, <1>2, <1>3, <1>4, <1>5, <1>6, <1>7, <1>8, <1>9, <1>10, <1>11, <1>12, <1>13, <1>14, <1>15, <1>16, <1>17, <1>18, <1>19
  DEF Next, ProducerStep, ConsumerStep

LEMMA LockStep == TypeOK /\ LockInv /\ [Next]_vars => LockInv'
<1> SUFFICES ASSUME TypeOK, LockInv, [Next]_vars PROVE LockInv'
  OBVIOUS
<1> USE LogManagerAssumption DEF LogManagerAssumption
<1>0. \A p \in Producers : TakeFree(p) => pc' = [pc EXCEPT ![p] = "fill"]
  BY DEF TakeFree, Goto
<1>1. ASSUME NEW p \in Producers, Begin(p) PROVE LockInv'
  BY <1>1 DEF TypeOK, LockInv, Begin, Goto, Labels, pubVars, subVars, gcVars, consVars, histVars, prodVars
<1>2. ASSUME NEW p \in Producers, GetLog(p) PROVE LockInv'
  BY <1>0, <1>2 DEF TypeOK, LockInv, GetLog, Goto, Labels, pubVars, subVars, gcVars, consVars, histVars, prodVars
<1>3. ASSUME NEW p \in Producers, GcLock(p) PROVE LockInv'
  BY <1>3 DEF TypeOK, LockInv, GcLock, Goto, Labels, pubVars, subVars, gcVars, consVars, histVars, prodVars
<1>4. ASSUME NEW p \in Producers, Recheck(p) PROVE LockInv'
  <2>1. pc[p] = "recheck" /\ gc_mtx = p /\ UNCHANGED ops
    BY <1>4 DEF LockInv, Recheck
  <2>2. CASE TakeFree(p) /\ gc_mtx' = Nobody
    BY <1>0, <2>1, <2>2 DEF TypeOK, LockInv
  <2>3. CASE Goto(p, "scan") /\ gc_mtx' = gc_mtx
    BY <2>1, <2>3 DEF TypeOK, LockInv, Goto
  <2>4. QED
    BY <1>4, <2>2, <2>3 DEF Recheck
<1>5. ASSUME NEW p \in Producers, GcScan(p) PROVE LockInv'
  BY <1>5 DEF TypeOK, LockInv, GcScan, Goto, Labels, pubVars, subVars, gcVars, consVars, histVars, prodVars, ScanOver, Subscribed
<1>6. ASSUME NEW p \in Producers, GcScanHead(p) PROVE LockInv'
  BY <1>6 DEF TypeOK, LockInv, GcScanHead, Goto, Labels, pubVars, subVars, gcVars, consVars, histVars, prodVars
<1>7. ASSUME NEW p \in Producers, GcLoadLog(p) PROVE LockInv'
  BY <1>7 DEF TypeOK, LockInv, GcLoadLog, Goto, Labels, pubVars, subVars, gcVars, consVars, histVars, prodVars
<1>8. ASSUME NEW p \in Producers, GcEnqueue(p) PROVE LockInv'
  BY <1>8 DEF TypeOK, LockInv, GcEnqueue, Goto, Labels, pubVars, subVars, gcVars, consVars, histVars, prodVars
<1>9. ASSUME NEW p \in Producers, GcDone(p) PROVE LockInv'
  BY <1>0, <1>9 DEF TypeOK, LockInv, GcDone, Goto, Labels, pubVars, subVars, gcVars, consVars, histVars, prodVars
<1>10. ASSUME NEW p \in Producers, Claim(p) PROVE LockInv'
  BY <1>10 DEF TypeOK, LockInv, Claim, Goto, Labels, pubVars, subVars, gcVars, consVars, histVars, prodVars
<1>11. ASSUME NEW p \in Producers, SetRel(p) PROVE LockInv'
  BY <1>11 DEF TypeOK, LockInv, SetRel, Goto, Labels, pubVars, subVars, gcVars, consVars, histVars, prodVars
<1>12. ASSUME NEW p \in Producers, SetLog(p) PROVE LockInv'
  BY <1>12 DEF TypeOK, LockInv, SetLog, Goto, Labels, pubVars, subVars, gcVars, consVars, histVars, prodVars
<1>13. ASSUME NEW p \in Producers, SetIdx(p) PROVE LockInv'
  BY <1>13 DEF TypeOK, LockInv, SetIdx, Goto, Labels, pubVars, subVars, gcVars, consVars, histVars, prodVars
<1>14. ASSUME NEW n \in Subs, Enter(n) PROVE LockInv'
  BY <1>14 DEF LockInv, Enter, pubVars, subVars, gcVars, consVars, histVars, prodVars
<1>15. ASSUME NEW n \in Subs, TakeHead(n) PROVE LockInv'
  BY <1>15 DEF LockInv, TakeHead, pubVars, subVars, gcVars, consVars, histVars, prodVars
<1>16. ASSUME NEW n \in Subs, LoadEntry(n) PROVE LockInv'
  BY <1>16 DEF LockInv, LoadEntry, pubVars, subVars, gcVars, consVars, histVars, prodVars
<1>17. ASSUME NEW n \in Subs, ConsumeHead(n) PROVE LockInv'
  BY <1>17 DEF LockInv, ConsumeHead, pubVars, subVars, gcVars, consVars, histVars, prodVars
<1>18. ASSUME NEW n \in Subs, Unsubscribe(n) PROVE LockInv'
  BY <1>18 DEF LockInv, Unsubscribe, pubVars, subVars, gcVars, consVars, histVars, prodVars
<1>19. CASE UNCHANGED vars
  BY <1>19 DEF LockInv, vars, pubVars, subVars, gcVars, consVars, histVars, prodVars
<1>20. QED
  BY <1>1, <1>2, <1>3, <1>4, <1>5, <1>6, <1>7, <1>8, <1>9, <1>10, <1>11, <1>12, <1>13, <1>14, <1>15, <1>16, <1>17, <1>18, <1>19
  DEF Next, ProducerStep, ConsumerStep

(* Every variable stays in its C++ type, whatever the interleaving of      *)
(* producers, collection and consumers and however often the counters      *)
(* wrap: ring and buffer indices are never out of range (logManager.hpp).  *)
THEOREM TypeCorrect == Spec => []TypeOK
<1>1. Spec => [](TypeOK /\ LockInv)
  BY TypeInit, TypeStep, LockStep, PTL DEF Spec
<1>2. QED
  BY <1>1, PTL
===============================================================================
