----------------------------- MODULE LogInvariant -----------------------------
(***************************************************************************)
(* The inductive invariant of module LogManager while the position counter *)
(* has not wrapped and some node stays subscribed.                         *)
(*                                                                         *)
(* Positions below Freed are collected.  Every position from Freed to tail *)
(* is either held by the thread that claimed it or published in its slot,  *)
(* and the buffer that carries it is stamped with it: that is why buffers  *)
(* cannot be shared, why there are never more than LOG_COUNT of these      *)
(* positions, and hence why no two of them share a slot.                   *)
(***************************************************************************)
EXTENDS LogManager

(* The counters are far enough from the end of idx_t.                      *)
NoWrap == tail + 2 * LOG_COUNT < IdxMod

IsFree(l) == \E i \in 1 .. Len(freelist) : freelist[i] = l

(* Position k is published: its entry, its log and its release flag.       *)
Pub(k) ==
  /\ pub_idx[get_idx(k)] = k + 1
  /\ stamp[pub_log[get_idx(k)]] = k
  /\ srel[pub_log[get_idx(k)]] = pub_rel[get_idx(k)]

(* What node n has consumed or found ready.                                *)
Ready(n) == IF cpc[n] \in {"taken", "process"} THEN head[n] + 1 ELSE head[n]

-----------------------------------------------------------------------------
(* gc_mtx protects the locals of the collection; a thread counts its log   *)
(* before it publishes it.                                                 *)
LockInv ==
  /\ \A p \in Producers :
       pc[p] \in {"recheck", "scan", "scan_head", "gc_log", "gc_enq"} <=> gc_mtx = p
  /\ \A p \in Producers : pc[p] = "scan_head" => gc_sub \in Subs
  /\ \A p \in Producers : pc[p] # "idle" => ops[p] < MaxOps

(* The collection never passes a subscribed node.                          *)
GcInv ==
  /\ \A n \in Pinned : is_subbed[n]
  /\ bound >= LOG_COUNT
  /\ \A n \in Subs : is_subbed[n] => bound <= head[n] + LOG_COUNT
  /\ \A p \in Producers :
       /\ pc[p] \in {"scan", "scan_head", "gc_log", "gc_enq"} =>
            bound <= new_b /\ new_b <= bound + LOG_COUNT
       /\ pc[p] \in {"scan", "scan_head"} =>
            /\ \A n \in Subs : n < gc_sub /\ is_subbed[n] => new_b <= head[n] + LOG_COUNT
            /\ \A n \in Pinned : n < gc_sub => subscribed = 1
       /\ pc[p] = "scan_head" => subscribed = 1
       /\ pc[p] \in {"gc_log", "gc_enq"} =>
            /\ subscribed = 1
            /\ bound <= gc_k /\ gc_k <= new_b
            /\ \A n \in Subs : is_subbed[n] => new_b <= head[n] + LOG_COUNT
       /\ pc[p] = "gc_enq" => gc_k < new_b /\ gc_log = pub_log[get_idx(gc_k)]

(* The positions in the ring: at most LOG_COUNT of them are not collected. *)
RingWindow == Freed <= tail /\ tail <= Freed + LOG_COUNT

PubBehind == \A s \in Slots : pub_idx[s] <= tail

Covered ==
  \A k \in Idx : Freed <= k /\ k < tail =>
    Pub(k) \/ \E p \in Producers : Claimed(p) /\ t[p] = k

(* A claimed position is not collected, not yet published and travels in   *)
(* the thread's buffer; its slot is filled field by field.                 *)
ClaimsHeld ==
  \A p \in Producers : Claimed(p) =>
    /\ Freed <= t[p] /\ t[p] < tail
    /\ stamp[lg[p]] = t[p] /\ srel[lg[p]] = rel[p]
    /\ pub_idx[get_idx(t[p])] <= t[p]
    /\ pc[p] \in {"set_log", "set_idx"} => pub_rel[get_idx(t[p])] = rel[p]
    /\ pc[p] = "set_idx" => pub_log[get_idx(t[p])] = lg[p]

ClaimsDiffer ==
  \A p, q \in Producers : Claimed(p) /\ Claimed(q) /\ p # q => t[p] # t[q]

RingInv == RingWindow /\ PubBehind /\ Covered /\ ClaimsHeld /\ ClaimsDiffer

(* The buffers outside the ring.                                           *)
FreeDistinct ==
  \A i, j \in 1 .. Len(freelist) : i # j => freelist[i] # freelist[j]

FreeOld == \A l \in Logs : IsFree(l) => stamp[l] < Freed

FillFresh ==
  \A p \in Producers : pc[p] = "fill" =>
    /\ stamp[lg[p]] = -1
    /\ ~IsFree(lg[p])
    /\ \A q \in Producers : pc[q] = "fill" /\ q # p => lg[q] # lg[p]

BufInv == FreeDistinct /\ FreeOld /\ FillFresh

(* The consumers.                                                          *)
ConsInv ==
  \A n \in Subs : is_subbed[n] =>
    /\ Ready(n) <= tail
    /\ \A p \in Producers : Claimed(p) => Ready(n) <= t[p]
    /\ cpc[n] = "process" => stamp[clog[n]] = head[n] /\ srel[clog[n]] = crel[n]

(* Inductive: holds initially and is kept by every step from a state where *)
(* the counters have not wrapped.  Its parts say that gc_mtx protects the  *)
(* collection, that the collection stays behind every subscriber, and      *)
(* where the buffer of every position is.                                  *)
IInv == LockInv /\ GcInv /\ RingInv /\ BufInv /\ ConsInv
===============================================================================
