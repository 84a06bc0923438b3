------------------------------ MODULE LogManager ------------------------------
(***************************************************************************)
(* The broadcast log of one publishing node (include/logManager.hpp): a    *)
(* ring of LOG_COUNT published entries pub[], LOG_COUNT log buffers that   *)
(* circulate between the free list, the producing threads and the ring,    *)
(* one read position per subscribing node, and the garbage collection that *)
(* returns consumed buffers to the free list.                              *)
(*                                                                         *)
(* One action is one access to shared memory, so that the producing        *)
(* threads of the node, the collecting thread and the consumers of the     *)
(* other nodes interleave as they do in the code.  The free list is a      *)
(* FIFO with atomic operations (module SpmcQueue shows what its cells do)  *)
(* and gc_mtx an atomic lock (module MCSLock).                             *)
(***************************************************************************)
EXTENDS Integers, Sequences, FiniteSets

CONSTANTS
  NODE_COUNT,   \* number of nodes, numbered from 0
  node_id,      \* the publishing node
  LOG_COUNT,    \* entries of the ring and buffers of the node, a power of two
  IdxMod,       \* idx_t counts modulo IdxMod (2^32 in the code)
  Producers,    \* the threads of the node that publish
  Pinned,       \* subscribers that never unsubscribe
  MaxOps        \* bound: logs published by each thread

Nobody == "nobody"                \* gc_mtx is free

ASSUME LogManagerAssumption ==
  /\ NODE_COUNT \in Nat \ {0}
  /\ node_id \in 0 .. NODE_COUNT - 1
  /\ LOG_COUNT \in Nat \ {0}
  /\ IdxMod \in Nat \ {0}
  /\ Pinned \subseteq (0 .. NODE_COUNT - 1) \ {node_id}
  /\ MaxOps \in Nat
  /\ Nobody \notin Producers

Subs  == (0 .. NODE_COUNT - 1) \ {node_id}
Logs  == 0 .. LOG_COUNT - 1       \* Log buf[LOG_COUNT], a log is its index
Slots == 0 .. LOG_COUNT - 1       \* PubEntry pub[LOG_COUNT]
Idx   == 0 .. IdxMod - 1

VARIABLES
  tail,        \* next position to claim
  pub_log, pub_idx, pub_rel,      \* the fields of pub[]
  head,        \* subs[n].head
  is_subbed,   \* subs[n].is_subbed
  freelist,    \* free buffers, oldest first
  gc_mtx,      \* holder of gc_mtx
  bound,       \* positions below bound - LOG_COUNT are collected
  pc, lg, t, rel, ops,            \* producer: control, its log, claimed
                                  \* position, release flag, logs published
  new_b, subscribed, gc_sub, gc_k, gc_log,   \* locals of perform_gc,
                                             \* subscribed is 0 or 1
  cpc, clog, crel,                \* consumer: control, log and flag read
  stamp, srel  \* history: position and flag that the contents of a buffer
               \* were published with, -1 from the time it is rewritten

pubVars  == <<pub_log, pub_idx, pub_rel>>
subVars  == <<head, is_subbed>>
gcVars   == <<new_b, subscribed, gc_sub, gc_k, gc_log>>
consVars == <<cpc, clog, crel>>
histVars == <<stamp, srel>>
prodVars == <<pc, lg, t, rel, ops>>
vars == <<tail, pubVars, subVars, freelist, gc_mtx, bound, prodVars, gcVars,
          consVars, histVars>>

-----------------------------------------------------------------------------
(* Arithmetic of idx_t, an unsigned that wraps.                            *)

next_round(i) == (i + LOG_COUNT) % IdxMod
prev_round(i) == (i - LOG_COUNT) % IdxMod
get_idx(i)    == i % LOG_COUNT
Inc(i)        == (i + 1) % IdxMod

Init ==
  /\ tail = 0
  /\ pub_log = [s \in Slots |-> s]
  /\ pub_idx = [s \in Slots |-> 0]
  /\ pub_rel = [s \in Slots |-> FALSE]
  /\ head = [n \in Subs |-> 0]
  /\ is_subbed = [n \in Subs |-> TRUE]
  /\ freelist = [i \in 1 .. LOG_COUNT |-> i - 1]
  /\ gc_mtx = Nobody
  /\ bound = next_round(0)
  /\ pc = [p \in Producers |-> "idle"]
  /\ lg = [p \in Producers |-> 0]
  /\ t = [p \in Producers |-> 0]
  /\ rel = [p \in Producers |-> FALSE]
  /\ ops = [p \in Producers |-> 0]
  /\ new_b = 0 /\ subscribed = 0 /\ gc_sub = 0 /\ gc_k = 0 /\ gc_log = 0
  /\ cpc = [n \in Subs |-> "off"]
  /\ clog = [n \in Subs |-> 0]
  /\ crel = [n \in Subs |-> FALSE]
  /\ stamp = [l \in Logs |-> -1]
  /\ srel = [l \in Logs |-> FALSE]

-----------------------------------------------------------------------------
(* Producers: set_to_new_log, get_new_log, perform_gc, produce_tail.       *)

Goto(p, l) == pc' = [pc EXCEPT ![p] = l]

(* freelist.dequeue succeeds: the log is p's and log->size = 0 discards    *)
(* its contents.                                                           *)
TakeFree(p) ==
  /\ freelist # <<>>
  /\ lg' = [lg EXCEPT ![p] = Head(freelist)]
  /\ stamp' = [stamp EXCEPT ![Head(freelist)] = -1]
  /\ freelist' = Tail(freelist)
  /\ Goto(p, "fill")

(* A thread needs a log, to be published with release flag r.              *)
Begin(p) ==
  /\ pc[p] = "idle"
  /\ ops[p] < MaxOps
  /\ \E r \in BOOLEAN : rel' = [rel EXCEPT ![p] = r]
  /\ Goto(p, "get")
  /\ UNCHANGED <<tail, pubVars, subVars, freelist, gc_mtx, bound, lg, t, ops,
                 gcVars, consVars, histVars>>

GetLog(p) ==
  /\ pc[p] = "get"
  /\ \/ TakeFree(p)
     \/ /\ freelist = <<>>
        /\ Goto(p, "lock")
        /\ UNCHANGED <<lg, stamp, freelist>>
  /\ UNCHANGED <<tail, pubVars, subVars, gc_mtx, bound, t, rel, ops, gcVars,
                 consVars, srel>>

GcLock(p) ==
  /\ pc[p] = "lock"
  /\ gc_mtx = Nobody
  /\ gc_mtx' = p
  /\ Goto(p, "recheck")
  /\ UNCHANGED <<tail, pubVars, subVars, freelist, bound, lg, t, rel, ops,
                 gcVars, consVars, histVars>>

(* "check again after locking"; otherwise perform_gc starts its scan.      *)
Recheck(p) ==
  /\ pc[p] = "recheck"
  /\ \/ /\ TakeFree(p)
        /\ gc_mtx' = Nobody
        /\ UNCHANGED gcVars
     \/ /\ freelist = <<>>
        /\ Goto(p, "scan")
        /\ new_b' = next_round(bound)
        /\ subscribed' = 0
        /\ gc_sub' = 0
        /\ UNCHANGED <<lg, stamp, freelist, gc_mtx, gc_k, gc_log>>
  /\ UNCHANGED <<tail, pubVars, subVars, bound, t, rel, ops, consVars, srel>>

(* is_subscribed, for the nodes other than the publisher.                  *)
Subscribed == {n \in Subs : is_subbed[n]}

mutScanOver == gc_sub > NODE_COUNT
ScanOver == gc_sub = NODE_COUNT

(* Where the freeing loop starts.                                          *)
mutFirstToFree == Inc(bound)
FirstToFree == bound

(* Is node gc_sub subscribed?  After the last node the freeing loop starts. *)
GcScan(p) ==
  /\ pc[p] = "scan"
  /\ \/ /\ ScanOver
        /\ gc_k' = FirstToFree
        /\ Goto(p, "gc_log")
        /\ UNCHANGED <<gc_sub, subscribed>>
     \/ /\ ~ScanOver
        /\ gc_sub \notin Subscribed
        /\ gc_sub' = gc_sub + 1
        /\ UNCHANGED <<pc, subscribed, gc_k>>
     \/ /\ gc_sub \in Subscribed
        /\ subscribed' = 1
        /\ Goto(p, "scan_head")
        /\ UNCHANGED <<gc_sub, gc_k>>
  /\ UNCHANGED <<tail, pubVars, subVars, freelist, gc_mtx, bound, lg, t, rel,
                 ops, new_b, gc_log, consVars, histVars>>

mutIgnoreHead(h)  == new_b
mutNeverAhead(h)  == bound

(* The new bound when a subscriber has consumed up to h - LOG_COUNT.       *)
LimitedBy(h) == IF h < new_b /\ h >= bound THEN h ELSE new_b

(* The slowest subscriber limits the new bound.                            *)
GcScanHead(p) ==
  /\ pc[p] = "scan_head"
  /\ new_b' = LimitedBy(next_round(head[gc_sub]))
  /\ gc_sub' = gc_sub + 1
  /\ Goto(p, "scan")
  /\ UNCHANGED <<tail, pubVars, subVars, freelist, gc_mtx, bound, lg, t, rel,
                 ops, subscribed, gc_k, gc_log, consVars, histVars>>

(* Loop head of the freeing loop: read the log of the next entry.          *)
GcLoadLog(p) ==
  /\ pc[p] = "gc_log"
  /\ gc_k # new_b
  /\ gc_log' = pub_log[get_idx(gc_k)]
  /\ Goto(p, "gc_enq")
  /\ UNCHANGED <<tail, pubVars, subVars, freelist, gc_mtx, bound, lg, t, rel,
                 ops, new_b, subscribed, gc_sub, gc_k, consVars, histVars>>

(* The entry of the round before k was published.                          *)
PublishedBefore(k) == pub_idx[get_idx(k)] = Inc(prev_round(k))

(* Without subscribers the loop stops at the first entry that is not       *)
(* published; otherwise the log is enqueued, retrying while the list is    *)
(* full.                                                                   *)
GcEnqueue(p) ==
  /\ pc[p] = "gc_enq"
  /\ \/ /\ subscribed = 0
        /\ ~PublishedBefore(gc_k)
        /\ new_b' = gc_k
        /\ UNCHANGED <<freelist, gc_k>>
     \/ /\ subscribed = 1 \/ PublishedBefore(gc_k)
        /\ Len(freelist) < LOG_COUNT
        /\ freelist' = Append(freelist, gc_log)
        /\ gc_k' = Inc(gc_k)
        /\ UNCHANGED new_b
  /\ Goto(p, "gc_log")
  /\ UNCHANGED <<tail, pubVars, subVars, gc_mtx, bound, lg, t, rel, ops,
                 subscribed, gc_sub, gc_log, consVars, histVars>>

(* bound = new_b, one more dequeue, unlock; without a log the caller       *)
(* yields and tries again.                                                 *)
GcDone(p) ==
  /\ pc[p] = "gc_log"
  /\ gc_k = new_b
  /\ bound' = new_b
  /\ gc_mtx' = Nobody
  /\ \/ TakeFree(p)
     \/ /\ freelist = <<>>
        /\ Goto(p, "get")
        /\ UNCHANGED <<lg, stamp, freelist>>
  /\ new_b' = 0 /\ subscribed' = 0 /\ gc_sub' = 0 /\ gc_k' = 0 /\ gc_log' = 0
  /\ UNCHANGED <<tail, pubVars, subVars, t, rel, ops, consVars, srel>>

(* produce_tail: tail.fetch_add claims a position for the filled log.      *)
Claim(p) ==
  /\ pc[p] = "fill"
  /\ t' = [t EXCEPT ![p] = tail]
  /\ tail' = Inc(tail)
  /\ stamp' = [stamp EXCEPT ![lg[p]] = tail]
  /\ srel' = [srel EXCEPT ![lg[p]] = rel[p]]
  /\ Goto(p, "set_rel")
  /\ UNCHANGED <<pubVars, subVars, freelist, gc_mtx, bound, lg, rel, ops,
                 gcVars, consVars>>

SetRel(p) ==
  /\ pc[p] = "set_rel"
  /\ pub_rel' = [pub_rel EXCEPT ![get_idx(t[p])] = rel[p]]
  /\ Goto(p, "set_log")
  /\ UNCHANGED <<tail, pub_log, pub_idx, subVars, freelist, gc_mtx, bound, lg,
                 t, rel, ops, gcVars, consVars, histVars>>

SetLog(p) ==
  /\ pc[p] = "set_log"
  /\ pub_log' = [pub_log EXCEPT ![get_idx(t[p])] = lg[p]]
  /\ Goto(p, "set_idx")
  /\ UNCHANGED <<tail, pub_rel, pub_idx, subVars, freelist, gc_mtx, bound, lg,
                 t, rel, ops, gcVars, consVars, histVars>>

(* The store that publishes the entry; the locals are dead afterwards.     *)
SetIdx(p) ==
  /\ pc[p] = "set_idx"
  /\ pub_idx' = [pub_idx EXCEPT ![get_idx(t[p])] = Inc(t[p])]
  /\ ops' = [ops EXCEPT ![p] = @ + 1]
  /\ lg' = [lg EXCEPT ![p] = 0]
  /\ t' = [t EXCEPT ![p] = 0]
  /\ rel' = [rel EXCEPT ![p] = FALSE]
  /\ Goto(p, "idle")
  /\ UNCHANGED <<tail, pub_log, pub_rel, subVars, freelist, gc_mtx, bound,
                 gcVars, consVars, histVars>>

-----------------------------------------------------------------------------
(* Consumers: the cache agent or a helping thread of node n, whichever     *)
(* holds the log head mutex of the node.                                   *)

CGoto(n, l) == cpc' = [cpc EXCEPT ![n] = l]

Enter(n) ==
  /\ cpc[n] = "off"
  /\ is_subbed[n]
  /\ CGoto(n, "in")
  /\ UNCHANGED <<tail, pubVars, subVars, freelist, gc_mtx, bound, prodVars,
                 gcVars, clog, crel, histVars>>

mutAnyEntry(n)   == pub_idx[get_idx(head[n])] # 0
mutEntryAtHead(n) == pub_idx[get_idx(head[n])] = head[n]

(* The entry at the head is published, take_head returns it.               *)
EntryReady(n) == pub_idx[get_idx(head[n])] = Inc(head[n])

TakeHead(n) ==
  /\ cpc[n] = "in"
  /\ CGoto(n, IF EntryReady(n) THEN "taken" ELSE "off")
  /\ UNCHANGED <<tail, pubVars, subVars, freelist, gc_mtx, bound, prodVars,
                 gcVars, clog, crel, histVars>>

LoadEntry(n) ==
  /\ cpc[n] = "taken"
  /\ clog' = [clog EXCEPT ![n] = pub_log[get_idx(head[n])]]
  /\ crel' = [crel EXCEPT ![n] = pub_rel[get_idx(head[n])]]
  /\ CGoto(n, "process")
  /\ UNCHANGED <<tail, pubVars, subVars, freelist, gc_mtx, bound, prodVars,
                 gcVars, histVars>>

(* After process_log the head moves on; the batch continues or ends.       *)
ConsumeHead(n) ==
  /\ cpc[n] = "process"
  /\ head' = [head EXCEPT ![n] = Inc(@)]
  /\ clog' = [clog EXCEPT ![n] = 0]
  /\ crel' = [crel EXCEPT ![n] = FALSE]
  /\ CGoto(n, "in") \/ CGoto(n, "off")
  /\ UNCHANGED <<tail, pubVars, is_subbed, freelist, gc_mtx, bound, prodVars,
                 gcVars, histVars>>

(* remove_subscriber, called by a thread of node n at any time.            *)
Unsubscribe(n) ==
  /\ n \notin Pinned
  /\ is_subbed[n]
  /\ is_subbed' = [is_subbed EXCEPT ![n] = FALSE]
  /\ UNCHANGED <<tail, pubVars, head, freelist, gc_mtx, bound, prodVars,
                 gcVars, consVars, histVars>>

-----------------------------------------------------------------------------
ProducerStep(p) ==
  \/ GetLog(p) \/ GcLock(p) \/ Recheck(p) \/ GcScan(p)
  \/ GcScanHead(p) \/ GcLoadLog(p) \/ GcEnqueue(p) \/ GcDone(p)
  \/ Claim(p) \/ SetRel(p) \/ SetLog(p) \/ SetIdx(p)

ConsumerStep(n) == Enter(n) \/ TakeHead(n) \/ LoadEntry(n) \/ ConsumeHead(n)

Next ==
  \/ \E p \in Producers : Begin(p) \/ ProducerStep(p)
  \/ \E n \in Subs : ConsumerStep(n)
  \/ \E n \in Subs : Unsubscribe(n)

Spec == Init /\ [][Next]_vars

(* Threads are scheduled: every step that stays enabled is taken.  gc_mtx  *)
(* is an MCS queue lock, a waiting thread gets its turn.  Begin and        *)
(* Unsubscribe are decisions of the program and are not forced.            *)
Fairness ==
  /\ \A p \in Producers :
       /\ WF_vars(ProducerStep(p))
       /\ SF_vars(GcLock(p))
  /\ \A n \in Subs : WF_vars(ConsumerStep(n))

FairSpec == Spec /\ Fairness

-----------------------------------------------------------------------------
(* Types.                                                                  *)

Labels == {"idle", "get", "lock", "recheck", "scan", "scan_head", "gc_log",
           "gc_enq", "fill", "set_rel", "set_log", "set_idx"}
CLabels == {"off", "in", "taken", "process"}

(* Every variable stays in its C++ type: indices below 2^32, buffers and   *)
(* slots of the arrays.                                                    *)
TypeOK ==
  /\ tail \in Idx
  /\ pub_log \in [Slots -> Logs]
  /\ pub_idx \in [Slots -> Idx]
  /\ pub_rel \in [Slots -> BOOLEAN]
  /\ head \in [Subs -> Idx]
  /\ is_subbed \in [Subs -> BOOLEAN]
  /\ freelist \in Seq(Logs)
  /\ gc_mtx \in Producers \cup {Nobody}
  /\ bound \in Idx
  /\ pc \in [Producers -> Labels]
  /\ lg \in [Producers -> Logs]
  /\ t \in [Producers -> Idx]
  /\ rel \in [Producers -> BOOLEAN]
  /\ ops \in [Producers -> 0 .. MaxOps]
  /\ new_b \in Idx
  /\ subscribed \in 0 .. 1
  /\ gc_sub \in 0 .. NODE_COUNT
  /\ gc_k \in Idx
  /\ gc_log \in Logs
  /\ cpc \in [Subs -> CLabels]
  /\ clog \in [Subs -> Logs]
  /\ crel \in [Subs -> BOOLEAN]
  /\ stamp \in [Logs -> Idx \cup {-1}]
  /\ srel \in [Logs -> BOOLEAN]

-----------------------------------------------------------------------------
(* Safety.                                                                 *)

(* A subscribed consumer that processes a log reads the contents that were *)
(* published at its head position, with their release flag: the buffer is  *)
(* not collected, refilled or swapped under it (process_log between        *)
(* take_head and consume_head).                                            *)
ReadsPublished ==
  \A n \in Subs :
    cpc[n] = "process" /\ is_subbed[n] =>
      stamp[clog[n]] = head[n] /\ srel[clog[n]] = crel[n]

(* A buffer has one owner: the free list holds it at most once, and while  *)
(* it is free no producer fills or publishes it (perform_gc against        *)
(* get_new_log and produce_tail).                                          *)
OneOwner ==
  /\ \A i, j \in 1 .. Len(freelist) : i # j => freelist[i] # freelist[j]
  /\ \A p \in Producers : pc[p] \in {"fill", "set_rel", "set_log", "set_idx"} =>
       /\ \A i \in 1 .. Len(freelist) : freelist[i] # lg[p]
       /\ \A q \in Producers \ {p} :
            pc[q] \in {"fill", "set_rel", "set_log", "set_idx"} => lg[q] # lg[p]

(* How many positions are collected, also in the middle of a collection.   *)
InLoop == \E p \in Producers : pc[p] \in {"gc_log", "gc_enq"}

Freed == IF InLoop THEN gc_k - LOG_COUNT ELSE bound - LOG_COUNT

(* No buffer is lost on its way from the free list through a thread and the *)
(* ring back to the free list, by collections that stop and start again    *)
(* anywhere while threads fill the slots of the next round: a buffer is    *)
(* free, in a thread's hands, or in the entry of a position that is still  *)
(* to be collected (perform_gc, get_new_log, produce_tail).                *)
NoBufferLost ==
  \A l \in Logs :
    \/ \E i \in 1 .. Len(freelist) : freelist[i] = l
    \/ \E p \in Producers :
         pc[p] \in {"fill", "set_rel", "set_log", "set_idx"} /\ lg[p] = l
    \/ \E k \in Idx : /\ Freed <= k /\ k < tail
                     /\ pub_idx[get_idx(k)] = Inc(k)
                     /\ pub_log[get_idx(k)] = l

(* A producer that writes pub[get_idx(t)] overwrites an entry that every   *)
(* subscribed node has consumed: the claimed position is less than one     *)
(* round ahead of every head.                                              *)
NoLap ==
  \A p \in Producers, n \in Subs :
    pc[p] \in {"set_rel", "set_log", "set_idx"} /\ is_subbed[n] =>
      t[p] < head[n] + LOG_COUNT

(* A thread is in the loop of set_to_new_log, without a log.               *)
WaitsForLog(p) ==
  pc[p] \in {"get", "lock", "recheck", "scan", "scan_head", "gc_log", "gc_enq"}

(* Liveness: while a thread waits for a log the node makes progress; the   *)
(* thread gets one or another thread does and claims the next position.    *)
(* Nothing is promised to a single thread: others may always dequeue first *)
(* what its collections free.                                              *)
LogProgress ==
  \A p \in Producers, k \in 0 .. MaxOps * Cardinality(Producers) :
    WaitsForLog(p) /\ tail = k ~> ~WaitsForLog(p) \/ tail # k

-----------------------------------------------------------------------------
(* Refinement: what BroadcastLog says of this log.  A position is pending  *)
(* from its claim to the store of entry.idx; a node reads the position its *)
(* buffer was published with.                                              *)

Claimed(p) == pc[p] \in {"set_rel", "set_log", "set_idx"}

absPending == {t[p] : p \in {q \in Producers : Claimed(q)}}
absHead    == [n \in Subs |-> IF is_subbed[n] THEN head[n] ELSE 0]
absReading == [n \in Subs |-> IF is_subbed[n] /\ cpc[n] = "process"
                              THEN stamp[clog[n]] ELSE -1]

Abs == INSTANCE BroadcastLog WITH
         Subscribers <- Subs, Capacity <- LOG_COUNT, MaxTail <- IdxMod,
         pending <- absPending, head <- absHead, reading <- absReading

(* Every step of the ring, its producers and its consumers is a step of    *)
(* the broadcast log or changes nothing it promises.                       *)
Broadcast == Abs!Spec

(* With its fairness: published logs reach every subscribed node.          *)
FairBroadcast == Abs!Fairness
===============================================================================
