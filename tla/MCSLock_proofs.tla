---------------------------- MODULE MCSLock_proofs ----------------------------
(***************************************************************************)
(* Proofs about MCSLock and MCSSharedLock for any set of threads and any   *)
(* pool of nodes.                                                          *)
(***************************************************************************)
EXTENDS MCSSharedLock, FiniteSetTheorems, SequenceTheorems, TLAPS

InQueue(t) == Holding(t) \/ pc[t] \in {"link", "wait"}

(* Everybody who waits or has the lock is in the queue once; only the      *)
(* first may have it, and the first is linked already.                     *)
OrderInv ==
  /\ \A i, j \in 1 .. Len(queue) : queue[i] = queue[j] => i = j
  /\ \A t \in Threads : InQueue(t) <=> \E i \in 1 .. Len(queue) : queue[i] = t
  /\ \A i \in 1 .. Len(queue) : Holding(queue[i]) => i = 1
  /\ Len(queue) > 0 => pc[queue[1]] # "link"

(* A thread inside lock or unlock has a node of its own.                   *)
NodeInv ==
  /\ \A t \in Threads : pc[t] # "idle" => node[t] \in Pool \ free
  /\ \A t \in Threads : pc[t] = "idle" => node[t] = Null
  /\ \A t, u \in Threads : node[t] = node[u] /\ node[t] # Null => t = u
  /\ \A t \in Threads : pc[t] = "held" => owner = node[t]
  /\ \A t \in Threads : pc[t] \in {"exchange", "cas"} =>
       next[node[t]] = Null /\ locked[node[t]]

(* The list of nodes is the queue: tail, the links made and those still to *)
(* be made, and the flags that the waiting threads poll.                   *)
ListInv ==
  /\ Len(queue) = 0 => tail = Null
  /\ Len(queue) > 0 => tail = node[queue[Len(queue)]] /\ next[tail] = Null
  /\ \A i \in 1 .. Len(queue) - 1 :
       /\ locked[node[queue[i + 1]]]
       /\ pc[queue[i + 1]] = "link" =>
            pred[queue[i + 1]] = node[queue[i]] /\ next[node[queue[i]]] = Null
       /\ pc[queue[i + 1]] = "wait" => next[node[queue[i]]] = node[queue[i + 1]]
  /\ \A t \in Threads : pc[t] = "pass" =>
       Len(queue) > 1 /\ succ[t] = node[queue[2]] /\ pc[queue[2]] = "wait"

LockInv == TypeOK /\ OrderInv /\ NodeInv /\ ListInv

(* Append and Tail, position by position.                                  *)
LEMMA AppendAt ==
  ASSUME NEW q \in Seq(Threads), NEW t \in Threads
  PROVE  /\ Append(q, t) \in Seq(Threads)
         /\ Len(Append(q, t)) = Len(q) + 1
         /\ \A i \in 1 .. Len(q) : Append(q, t)[i] = q[i]
         /\ Append(q, t)[Len(q) + 1] = t
OBVIOUS

LEMMA TailAt ==
  ASSUME NEW q \in Seq(Threads), Len(q) > 0
  PROVE  /\ Tail(q) \in Seq(Threads)
         /\ Len(q) \in Nat /\ Len(Tail(q)) = Len(q) - 1
         /\ \A i \in 1 .. Len(q) - 1 : Tail(q)[i] = q[i + 1]
BY EmptySeq, HeadTailProperties, LenProperties

(* A thread that waits or has the lock has a place in the queue; who has   *)
(* the lock is first.                                                      *)
LEMMA Place ==
  ASSUME LockInv, NEW t \in Threads, InQueue(t)
  PROVE  /\ queue \in Seq(Threads) /\ Len(queue) \in Nat /\ Len(queue) > 0
         /\ \E i \in 1 .. Len(queue) : queue[i] = t
         /\ Holding(t) => queue[1] = t
<1>1. queue \in Seq(Threads) /\ Len(queue) \in Nat
  BY DEF LockInv, TypeOK
<1>2. PICK i \in 1 .. Len(queue) : queue[i] = t
  BY DEF LockInv, OrderInv
<1>3. Holding(t) => i = 1
  BY <1>2 DEF LockInv, OrderInv
<1>4. QED
  BY <1>1, <1>2, <1>3

(* Lock and TryLock: the new node is nobody else's.                        *)
LEMMA NewNodeStep ==
  ASSUME LockInv, NEW t \in Threads, pc[t] = "idle", NewNode(t),
         NEW l \in {"exchange", "cas"}, Goto(t, l),
         UNCHANGED <<tail, owner, pred, succ, queue>>
  PROVE  LockInv'
<1>1. PICK n \in free : /\ free' = free \ {n}
                        /\ node' = [node EXCEPT ![t] = n]
                        /\ next' = [next EXCEPT ![n] = Null]
                        /\ locked' = [locked EXCEPT ![n] = TRUE]
  BY DEF NewNode
<1>2. n \in Pool /\ Null \notin Pool
  BY MCSLockAssumption DEF LockInv, TypeOK
<1>3. TypeOK'
  BY <1>1, <1>2 DEF LockInv, TypeOK, Goto, Labels
<1>4. \A u \in Threads : u # t => pc'[u] = pc[u] /\ node'[u] = node[u] /\ node[u] # n
  BY <1>1, <1>2 DEF LockInv, TypeOK, NodeInv, Goto
<1>5. pc'[t] = l /\ node'[t] = n /\ ~InQueue(t) /\ ~InQueue(t)'
  BY <1>1 DEF LockInv, TypeOK, Goto, InQueue, Holding
<1>6. queue \in Seq(Threads) /\ Len(queue) \in Nat /\ \A i \in 1 .. Len(queue) : queue[i] \in Threads /\ queue[i] # t
  BY <1>5 DEF LockInv, TypeOK, OrderInv
<1>7. OrderInv'
  <2>1. \A u \in Threads : (InQueue(u)' <=> InQueue(u)) /\ (Holding(u)' <=> Holding(u))
    BY <1>4, <1>5 DEF InQueue, Holding
  <2>2. \A i \in 1 .. Len(queue) : (Holding(queue[i])' <=> Holding(queue[i])) /\ pc'[queue[i]] = pc[queue[i]]
    BY <1>4, <1>6, <2>1
  <2>3. QED
    BY <2>1, <2>2, <1>6 DEF LockInv, OrderInv
<1>8. NodeInv'
  BY <1>1, <1>2, <1>4, <1>5 DEF LockInv, TypeOK, NodeInv
<1>9. ListInv'
  <2>1. \A i \in 1 .. Len(queue) :
          /\ node'[queue[i]] = node[queue[i]] /\ node[queue[i]] \in Pool
          /\ locked'[node[queue[i]]] = locked[node[queue[i]]]
          /\ next'[node[queue[i]]] = next[node[queue[i]]]
          /\ pc'[queue[i]] = pc[queue[i]]
    <3> SUFFICES ASSUME NEW i \in 1 .. Len(queue)
                 PROVE  /\ node'[queue[i]] = node[queue[i]] /\ node[queue[i]] \in Pool
                        /\ locked'[node[queue[i]]] = locked[node[queue[i]]]
                        /\ next'[node[queue[i]]] = next[node[queue[i]]]
                        /\ pc'[queue[i]] = pc[queue[i]]
      OBVIOUS
    <3>1. InQueue(queue[i])
      BY <1>6 DEF LockInv, OrderInv
    <3>2. node[queue[i]] \in Pool /\ node[queue[i]] # n
      BY <3>1, <1>4, <1>6 DEF LockInv, NodeInv, InQueue, Holding
    <3>3. QED
      BY <3>2, <1>1, <1>2, <1>4, <1>6 DEF LockInv, TypeOK
  <2>2. \A u \in Threads : pc'[u] = "pass" => pc[u] = "pass"
    BY <1>4, <1>5
  <2>3. /\ Len(queue) = 0 => tail' = Null
        /\ Len(queue) > 0 => tail' = node'[queue[Len(queue)]] /\ next'[tail'] = Null
    BY <2>1, <1>6 DEF LockInv, ListInv
  <2>4. \A i \in 1 .. Len(queue) - 1 :
          /\ locked'[node'[queue[i + 1]]]
          /\ pc'[queue[i + 1]] = "link" =>
               pred'[queue[i + 1]] = node'[queue[i]] /\ next'[node'[queue[i]]] = Null
          /\ pc'[queue[i + 1]] = "wait" => next'[node'[queue[i]]] = node'[queue[i + 1]]
    BY <2>1, <1>6 DEF LockInv, ListInv
  <2>5. \A u \in Threads : pc'[u] = "pass" =>
          Len(queue) > 1 /\ succ'[u] = node'[queue[2]] /\ pc'[queue[2]] = "wait"
    BY <2>1, <2>2, <1>6 DEF LockInv, ListInv
  <2>6. QED
    BY <2>3, <2>4, <2>5 DEF ListInv
<1>10. QED
  BY <1>3, <1>7, <1>8, <1>9 DEF LockInv

(* Two threads do not hold the lock together.                              *)
LEMMA Alone == LockInv => MutualExclusion
<1> SUFFICES ASSUME LockInv, NEW t \in Threads, NEW u \in Threads, Holding(t), Holding(u)
             PROVE  t = u
  BY DEF MutualExclusion
<1>1. InQueue(t) /\ InQueue(u)
  BY DEF InQueue
<1>2. queue[1] = t
  BY <1>1, Place
<1>3. queue[1] = u
  BY <1>1, Place
<1>4. QED
  BY <1>2, <1>3

(* The first waiting thread is linked when next of the holder is set.       *)
LEMMA Follower ==
  ASSUME LockInv, NEW t \in Threads, Holding(t), next[node[t]] # Null
  PROVE  Len(queue) > 1 /\ next[node[t]] = node[queue[2]] /\ pc[queue[2]] = "wait"
<1>1. queue \in Seq(Threads) /\ Len(queue) \in Nat /\ Len(queue) > 0 /\ queue[1] = t
  BY Place DEF InQueue
<1>2. Len(queue) # 1
  BY <1>1 DEF LockInv, ListInv
<1>3. 2 \in 1 .. Len(queue) /\ 1 \in 1 .. Len(queue) - 1 /\ queue[2] \in Threads
  <2>1. \A n \in Nat : n > 0 /\ n # 1 => 2 \in 1 .. n /\ 1 \in 1 .. n - 1
    OBVIOUS
  <2>2. 2 \in 1 .. Len(queue) /\ 1 \in 1 .. Len(queue) - 1
    BY <1>1, <1>2, <2>1
  <2>3. QED
    BY <1>1, <2>2, ElementOfSeq
<1>4. InQueue(queue[2]) /\ ~Holding(queue[2])
  BY <1>3 DEF LockInv, OrderInv
<1>5. pc[queue[2]] # "link"
  BY <1>1, <1>3 DEF LockInv, ListInv
<1>6. pc[queue[2]] = "wait"
  BY <1>4, <1>5 DEF InQueue
<1>7. QED
  BY <1>1, <1>3, <1>6 DEF LockInv, ListInv

(* Steps of one thread between its accesses to the list.                   *)
LEMMA QuietStep ==
  ASSUME LockInv, TypeOK', NEW t \in Threads, NEW l \in Labels, Goto(t, l),
         UNCHANGED <<tail, next, locked, free, node, queue>>,
         pc[t] # "idle", l \notin {"idle", "exchange", "cas", "link", "wait"},
         InQueue(t)' <=> InQueue(t),
         Holding(t)' => queue[1] = t,
         l = "held" => owner' = node[t],
         owner' = owner \/ Holding(t),
         l = "pass" => Holding(t) /\ succ'[t] = next[node[t]] /\ next[node[t]] # Null,
         \A u \in Threads : u # t => pred'[u] = pred[u] /\ succ'[u] = succ[u]
  PROVE  LockInv'
<1>0. /\ queue \in Seq(Threads) /\ Len(queue) \in Nat
      /\ \A i \in 1 .. Len(queue) : queue[i] \in Threads
  BY DEF LockInv, TypeOK
<1>1. pc'[t] = l /\ \A u \in Threads : u # t => pc'[u] = pc[u]
  BY DEF Goto, LockInv, TypeOK
<1>2. \A u \in Threads : u # t => (InQueue(u)' <=> InQueue(u)) /\ (Holding(u)' <=> Holding(u))
  BY <1>1 DEF InQueue, Holding
<1>3. OrderInv'
  <2>1. \A u \in Threads : InQueue(u)' <=> InQueue(u)
    BY <1>2
  <2>2. ASSUME NEW i \in 1 .. Len(queue), Holding(queue[i])' PROVE i = 1
    <3>1. CASE queue[i] = t
      <4>1. queue[1] = t /\ 1 \in 1 .. Len(queue)
        BY <3>1, <2>2, <1>0
      <4>2. QED
        BY <3>1, <4>1 DEF LockInv, OrderInv
    <3>2. CASE queue[i] # t
      BY <3>2, <2>2, <1>0, <1>2 DEF LockInv, OrderInv
    <3>3. QED
      BY <3>1, <3>2
  <2>3. Len(queue) > 0 => pc'[queue[1]] # "link"
    BY <1>0, <1>1 DEF LockInv, OrderInv
  <2>4. QED
    BY <2>1, <2>2, <2>3 DEF LockInv, OrderInv
<1>4. NodeInv'
  <2>1. ASSUME NEW u \in Threads, pc'[u] = "held" PROVE owner' = node[u]
    <3>1. CASE u = t
      BY <3>1, <2>1, <1>1
    <3>2. CASE u # t
      <4>1. Holding(u) /\ owner = node[u]
        BY <3>2, <2>1, <1>1 DEF LockInv, NodeInv, Holding
      <4>2. ~Holding(t)
        BY <3>2, <4>1, Alone DEF MutualExclusion
      <4>3. QED
        BY <4>1, <4>2
    <3>3. QED
      BY <3>1, <3>2
  <2>2. QED
    BY <2>1, <1>1 DEF LockInv, NodeInv
<1>5. ListInv'
  <2>1. \A i \in 1 .. Len(queue) - 1 :
          /\ locked'[node'[queue[i + 1]]]
          /\ pc'[queue[i + 1]] = "link" =>
               pred'[queue[i + 1]] = node'[queue[i]] /\ next'[node'[queue[i]]] = Null
          /\ pc'[queue[i + 1]] = "wait" => next'[node'[queue[i]]] = node'[queue[i + 1]]
    BY <1>0, <1>1 DEF LockInv, ListInv
  <2>2. ASSUME NEW u \in Threads, pc'[u] = "pass"
        PROVE  Len(queue) > 1 /\ succ'[u] = node[queue[2]] /\ pc'[queue[2]] = "wait"
    <3>1. CASE u = t
      <4>1. Holding(t) /\ succ'[t] = next[node[t]] /\ next[node[t]] # Null
        BY <3>1, <2>2, <1>1
      <4>2. Len(queue) > 1 /\ next[node[t]] = node[queue[2]] /\ pc[queue[2]] = "wait"
        BY <4>1, Follower
      <4>3. queue[2] # t /\ queue[2] \in Threads
        BY <4>1, <4>2, <1>0 DEF Holding
      <4>4. QED
        BY <3>1, <4>1, <4>2, <4>3, <1>1
    <3>2. CASE u # t
      <4>1. Len(queue) > 1 /\ succ[u] = node[queue[2]] /\ pc[queue[2]] = "wait" /\ Holding(u)
        BY <3>2, <2>2, <1>1 DEF LockInv, ListInv, Holding
      <4>2. queue[1] = u /\ queue[2] \in Threads
        BY <4>1, <1>0, Place DEF InQueue
      <4>3. queue[2] # t
        <5>1. SUFFICES ASSUME queue[2] = t PROVE FALSE
          OBVIOUS
        <5>2. InQueue(t)'
          BY <5>1, <4>1 DEF InQueue
        <5>3. Holding(t)'
          BY <5>2, <1>1 DEF InQueue, Holding
        <5>4. QED
          BY <5>3, <4>2, <3>2
      <4>4. QED
        BY <3>2, <4>1, <4>2, <4>3, <1>1
    <3>3. QED
      BY <3>1, <3>2
  <2>3. QED
    BY <2>1, <2>2 DEF LockInv, ListInv
<1>6. QED
  BY <1>3, <1>4, <1>5 DEF LockInv

(* Steps that leave the list alone.                                        *)
LEMMA PrivateSteps ==
  ASSUME LockInv, NEW t \in Threads,
         Wait(t) \/ Own(t) \/ Unlock(t) \/ LoadNext(t) \/ AwaitNext(t)
  PROVE  LockInv'
<1>0. /\ tail \in Pool \cup {Null} /\ owner \in Pool \cup {Null}
      /\ next \in [Pool -> Pool \cup {Null}]
      /\ pc \in [Threads -> Labels] /\ pc[t] \in Labels
      /\ node \in [Threads -> Pool \cup {Null}]
      /\ pred \in [Threads -> Pool \cup {Null}]
      /\ succ \in [Threads -> Pool \cup {Null}]
  BY DEF LockInv, TypeOK
<1>1. pc[t] # "idle" => node[t] \in Pool
  BY DEF LockInv, NodeInv
<1>2. CASE Wait(t)
  <2>1. TypeOK'
    BY <1>2 DEF LockInv, TypeOK, Wait, Goto, Labels
  <2>2. /\ Goto(t, "own") /\ pc[t] = "wait" /\ InQueue(t) /\ "own" \in Labels
        /\ pc'[t] = "own" /\ InQueue(t)' /\ ~locked[node[t]]
    BY <1>2, <1>0 DEF Wait, Goto, InQueue, Holding, Labels
  <2>3. queue[1] = t
    <3>1. PICK i \in 1 .. Len(queue) : queue[i] = t
      BY <2>2, Place
    <3>2. i # 1 => i - 1 \in 1 .. Len(queue) - 1 /\ (i - 1) + 1 = i
      OBVIOUS
    <3>3. i # 1 => locked[node[queue[i]]]
      BY <3>2 DEF LockInv, ListInv
    <3>4. QED
      BY <3>1, <3>3, <2>2
  <2>4. UNCHANGED <<tail, owner, next, locked, free, node, pred, succ, queue>>
    BY <1>2 DEF Wait
  <2>5. QED
    BY <2>1, <2>2, <2>3, <2>4, QuietStep
<1>3. CASE Own(t)
  <2>1. TypeOK'
    BY <1>3, <1>0, <1>1 DEF LockInv, TypeOK, Own, Goto, Labels
  <2>2. /\ Goto(t, "held") /\ pc[t] = "own" /\ Holding(t) /\ InQueue(t) /\ "held" \in Labels
        /\ pc'[t] = "held" /\ InQueue(t)'
    BY <1>3, <1>0 DEF Own, Goto, InQueue, Holding, Labels
  <2>3. queue[1] = t
    BY <2>2, Place
  <2>4. /\ UNCHANGED <<tail, next, locked, free, node, succ, queue>> /\ owner' = node[t]
        /\ \A u \in Threads : u # t => pred'[u] = pred[u] /\ succ'[u] = succ[u]
    BY <1>3, <1>0 DEF Own
  <2>5. QED
    BY <2>1, <2>2, <2>3, <2>4, QuietStep
<1>4. CASE Unlock(t)
  <2>1. TypeOK'
    BY <1>4, <1>0 DEF LockInv, TypeOK, Unlock, Goto, Labels
  <2>2. /\ Goto(t, "load_next") /\ pc[t] = "held" /\ Holding(t) /\ InQueue(t)
        /\ "load_next" \in Labels /\ pc'[t] = "load_next" /\ InQueue(t)'
    BY <1>4, <1>0 DEF Unlock, Goto, InQueue, Holding, Labels
  <2>3. queue[1] = t
    BY <2>2, Place
  <2>4. owner = node[t]
    BY <2>2 DEF LockInv, NodeInv
  <2>5. UNCHANGED <<tail, owner, next, locked, free, node, pred, succ, queue>>
    BY <1>4, <1>0, <2>4 DEF Unlock
  <2>6. QED
    BY <2>1, <2>2, <2>3, <2>5, QuietStep
<1>5. CASE LoadNext(t)
  <2>0. PICK l \in {"cas_tail", "pass"} :
          l = IF next[node[t]] = Null THEN "cas_tail" ELSE "pass"
    OBVIOUS
  <2>1. TypeOK'
    BY <1>5, <1>0, <1>1 DEF LockInv, TypeOK, LoadNext, Goto, Labels
  <2>2. /\ Goto(t, l) /\ pc[t] = "load_next" /\ Holding(t) /\ InQueue(t)
        /\ l \in Labels /\ pc'[t] = l /\ InQueue(t)'
    BY <1>5, <1>0, <2>0 DEF LoadNext, Goto, InQueue, Holding, Labels
  <2>3. queue[1] = t
    BY <2>2, Place
  <2>4. /\ UNCHANGED <<tail, owner, next, locked, free, node, pred, queue>>
        /\ succ'[t] = next[node[t]]
        /\ l = "pass" => next[node[t]] # Null
        /\ \A u \in Threads : u # t => pred'[u] = pred[u] /\ succ'[u] = succ[u]
    BY <1>5, <1>0, <2>0 DEF LoadNext
  <2>5. QED
    BY <2>1, <2>2, <2>3, <2>4, QuietStep
<1>6. CASE AwaitNext(t)
  <2>1. TypeOK'
    BY <1>6, <1>0, <1>1 DEF LockInv, TypeOK, AwaitNext, Goto, Labels
  <2>2. /\ Goto(t, "pass") /\ pc[t] = "await_next" /\ Holding(t) /\ InQueue(t)
        /\ "pass" \in Labels /\ pc'[t] = "pass" /\ InQueue(t)'
    BY <1>6, <1>0 DEF AwaitNext, Goto, InQueue, Holding, Labels
  <2>3. queue[1] = t
    BY <2>2, Place
  <2>4. /\ UNCHANGED <<tail, owner, next, locked, free, node, pred, queue>>
        /\ succ'[t] = next[node[t]] /\ next[node[t]] # Null
        /\ \A u \in Threads : u # t => pred'[u] = pred[u] /\ succ'[u] = succ[u]
    BY <1>6, <1>0 DEF AwaitNext
  <2>5. QED
    BY <2>1, <2>2, <2>3, <2>4, QuietStep
<1>7. QED
  BY <1>2, <1>3, <1>4, <1>5, <1>6

(* The compare_exchange of unlock or of try_lock fails.                    *)
LEMMA CasFails ==
  ASSUME LockInv, NEW t \in Threads, NEW l,
         \/ pc[t] = "cas_tail" /\ l = "await_next"
         \/ pc[t] = "cas" /\ l = "free",
         Goto(t, l),
         UNCHANGED <<tail, owner, next, locked, free, node, pred, succ, queue>>
  PROVE  LockInv'
<1>1. TypeOK'
  BY DEF LockInv, TypeOK, Goto, Labels
<1>2. /\ l \in Labels /\ pc'[t] = l /\ pc[t] # "idle"
      /\ InQueue(t)' <=> InQueue(t)
      /\ Holding(t)' => Holding(t) /\ InQueue(t)
  BY DEF LockInv, TypeOK, Goto, Labels, InQueue, Holding
<1>3. Holding(t)' => queue[1] = t
  BY <1>2, Place
<1>4. QED
  BY <1>1, <1>2, <1>3, QuietStep

(* The threads of the queue and their nodes.                               *)
LEMMA Places ==
  ASSUME LockInv
  PROVE  /\ queue \in Seq(Threads) /\ Len(queue) \in Nat
         /\ \A j \in 1 .. Len(queue) :
              /\ queue[j] \in Threads /\ node[queue[j]] \in Pool \ free
              /\ InQueue(queue[j])
         /\ \A j, k \in 1 .. Len(queue) : node[queue[j]] = node[queue[k]] => j = k
<1>0. queue \in Seq(Threads) /\ Len(queue) \in Nat /\ Null \notin Pool
  BY MCSLockAssumption DEF LockInv, TypeOK
<1>1. \A j \in 1 .. Len(queue) :
        queue[j] \in Threads /\ node[queue[j]] \in Pool \ free /\ InQueue(queue[j])
  <2> TAKE j \in 1 .. Len(queue)
  <2>1. queue[j] \in Threads
    BY <1>0, ElementOfSeq
  <2>2. InQueue(queue[j])
    BY <2>1 DEF LockInv, OrderInv
  <2>3. QED
    BY <2>1, <2>2 DEF LockInv, NodeInv, InQueue, Holding
<1>2. \A j, k \in 1 .. Len(queue) : node[queue[j]] = node[queue[k]] => j = k
  <2> TAKE j, k \in 1 .. Len(queue)
  <2> HAVE node[queue[j]] = node[queue[k]]
  <2>1. queue[j] = queue[k]
    BY <1>0, <1>1 DEF LockInv, NodeInv
  <2>2. QED
    BY <2>1 DEF LockInv, OrderInv
<1>3. QED
  BY <1>0, <1>1, <1>2

(* Link: the predecessor is still there, it waits or has the lock.          *)
LEMMA LinkStep ==
  ASSUME LockInv, NEW t \in Threads, Link(t)
  PROVE  LockInv'
<1>0. /\ queue \in Seq(Threads) /\ Len(queue) \in Nat
      /\ next \in [Pool -> Pool \cup {Null}]
      /\ pc \in [Threads -> Labels]
      /\ UNCHANGED <<tail, owner, locked, free, node, pred, succ, queue>>
      /\ Null \notin Pool
  BY MCSLockAssumption DEF LockInv, TypeOK, Link
<1>1. /\ pc[t] = "link" /\ pc'[t] = "wait"
      /\ \A u \in Threads : u # t => pc'[u] = pc[u]
  BY <1>0 DEF Link, Goto
<1>2. /\ \A u \in Threads : (InQueue(u)' <=> InQueue(u)) /\ (Holding(u)' <=> Holding(u))
      /\ InQueue(t)
  BY <1>1 DEF InQueue, Holding
<1>3. PICK i \in 1 .. Len(queue) : queue[i] = t
  BY <1>2, Place
<1>4. i # 1
  BY <1>0, <1>1, <1>3 DEF LockInv, OrderInv
<1>5. /\ i - 1 \in 1 .. Len(queue) /\ i - 1 \in 1 .. Len(queue) - 1 /\ (i - 1) + 1 = i
  BY <1>0, <1>4
<1>6. pred[t] = node[queue[i - 1]]
  BY <1>1, <1>3, <1>5 DEF LockInv, ListInv
<1>7. \A j \in 1 .. Len(queue) : /\ queue[j] \in Threads /\ node[queue[j]] \in Pool
                                 /\ pc[queue[j]] \notin {"idle", "exchange", "cas"}
  BY Places DEF InQueue, Holding
<1>8. \A j, k \in 1 .. Len(queue) : node[queue[j]] = node[queue[k]] => j = k
  BY Places
<1>9. next' = [next EXCEPT ![node[queue[i - 1]]] = node[t]]
  BY <1>6 DEF Link
<1>10. TypeOK'
  <2>1. node[t] \in Pool
    BY <1>3, <1>7
  <2>2. next' \in [Pool -> Pool \cup {Null}]
    BY <1>0, <1>9, <2>1
  <2>3. pc' \in [Threads -> Labels]
    BY <1>0 DEF Link, Goto, Labels
  <2>4. QED
    BY <1>0, <2>2, <2>3 DEF LockInv, TypeOK
<1>11. OrderInv'
  <2>1. \A j \in 1 .. Len(queue) : Holding(queue[j])' <=> Holding(queue[j])
    BY <1>0, <1>2, <1>7
  <2>2. Len(queue) > 0 => pc'[queue[1]] # "link"
    BY <1>0, <1>1, <1>7 DEF LockInv, OrderInv
  <2>3. QED
    BY <1>0, <1>2, <2>1, <2>2 DEF LockInv, OrderInv
<1>12. NodeInv'
  <2>1. ASSUME NEW u \in Threads, pc'[u] \in {"exchange", "cas"}
        PROVE  next'[node[u]] = Null /\ locked[node[u]]
    <3>1. u # t /\ pc[u] \in {"exchange", "cas"}
      BY <2>1, <1>1
    <3>2. node[u] \in Pool /\ next[node[u]] = Null /\ locked[node[u]]
      BY <3>1 DEF LockInv, NodeInv
    <3>3. queue[i - 1] # u
      BY <3>1, <1>5, <1>7
    <3>4. node[queue[i - 1]] # node[u]
      BY <3>2, <3>3, <1>0, <1>5, <1>7 DEF LockInv, NodeInv
    <3>5. QED
      BY <3>2, <3>4, <1>0, <1>9
  <2>2. QED
    BY <2>1, <1>0, <1>1 DEF LockInv, NodeInv
<1>13. ListInv'
  <2>1. \A j \in 1 .. Len(queue) : j # i - 1 => next'[node[queue[j]]] = next[node[queue[j]]]
    BY <1>0, <1>5, <1>7, <1>8, <1>9
  <2>2. next'[node[queue[i - 1]]] = node[queue[i]]
    BY <1>0, <1>3, <1>5, <1>7, <1>9
  <2>3. /\ Len(queue) > 0
        /\ tail' = node'[queue'[Len(queue')]] /\ next'[tail'] = Null
    <3>1. Len(queue) > 0 /\ Len(queue) \in 1 .. Len(queue) /\ Len(queue) # i - 1
      BY <1>0, <1>5
    <3>2. QED
      BY <3>1, <2>1, <1>0 DEF LockInv, ListInv
  <2>4. ASSUME NEW j \in 1 .. Len(queue) - 1
        PROVE  /\ locked[node[queue[j + 1]]]
               /\ pc'[queue[j + 1]] = "link" =>
                    pred[queue[j + 1]] = node[queue[j]] /\ next'[node[queue[j]]] = Null
               /\ pc'[queue[j + 1]] = "wait" => next'[node[queue[j]]] = node[queue[j + 1]]
    <3>1. j \in 1 .. Len(queue) /\ j + 1 \in 1 .. Len(queue)
      BY <1>0
    <3>2. CASE j = i - 1
      <4>1. queue[j + 1] = t
        BY <3>2, <1>3, <1>5
      <4>2. QED
        BY <3>2, <4>1, <2>2, <1>1, <1>3, <1>5 DEF LockInv, ListInv
    <3>3. CASE j # i - 1
      <4>1. j + 1 # i
        BY <3>3, <3>1
      <4>2. queue[j + 1] # t
        BY <4>1, <3>1, <1>3 DEF LockInv, OrderInv
      <4>3. pc'[queue[j + 1]] = pc[queue[j + 1]] /\ next'[node[queue[j]]] = next[node[queue[j]]]
        BY <3>1, <3>3, <4>2, <2>1, <1>1, <1>7
      <4>4. QED
        BY <4>3 DEF LockInv, ListInv
    <3>4. QED
      BY <3>2, <3>3
  <2>5. ASSUME NEW u \in Threads, pc'[u] = "pass"
        PROVE  Len(queue) > 1 /\ succ[u] = node[queue[2]] /\ pc'[queue[2]] = "wait"
    <3>1. pc[u] = "pass"
      BY <2>5, <1>1
    <3>2. Len(queue) > 1 /\ succ[u] = node[queue[2]] /\ pc[queue[2]] = "wait"
      BY <3>1 DEF LockInv, ListInv
    <3>3. QED
      BY <3>2, <1>0, <1>1, <1>7
  <2>6. QED
    BY <2>3, <2>4, <2>5, <1>0 DEF ListInv
<1>14. QED
  BY <1>10, <1>11, <1>12, <1>13 DEF LockInv

(* Exchange and the compare_exchange of try_lock that succeeds: a thread    *)
(* joins the queue, and finds tail null only when the queue is empty.       *)
LEMMA JoinStep ==
  ASSUME LockInv, NEW t \in Threads, pc[t] \in {"exchange", "cas"},
         NEW l \in {"own", "link"}, Goto(t, l), l = "own" <=> tail = Null,
         tail' = node[t], queue' = Append(queue, t),
         pred' \in [Threads -> Pool \cup {Null}], l = "link" => pred'[t] = tail,
         \A u \in Threads : u # t => pred'[u] = pred[u],
         UNCHANGED <<owner, next, locked, free, node, succ>>
  PROVE  LockInv'
<1> DEFINE n == Len(queue)
<1>0. /\ pc \in [Threads -> Labels] /\ Null \notin Pool
      /\ node[t] \in Pool /\ next[node[t]] = Null /\ locked[node[t]]
      /\ ~InQueue(t)
  BY MCSLockAssumption DEF LockInv, TypeOK, NodeInv, InQueue, Holding
<1>1. /\ queue \in Seq(Threads) /\ n \in Nat
      /\ \A j \in 1 .. n : queue[j] \in Threads /\ node[queue[j]] \in Pool /\ InQueue(queue[j])
      /\ \A j \in 1 .. n : queue[j] # t
  BY <1>0, Places
<1>2. /\ queue' \in Seq(Threads) /\ Len(queue') = n + 1
      /\ \A j \in 1 .. n : queue'[j] = queue[j]
      /\ queue'[n + 1] = t
  BY <1>1, AppendAt
<1>3. pc'[t] = l /\ \A u \in Threads : u # t => pc'[u] = pc[u]
  BY <1>0 DEF Goto
<1>4. /\ \A u \in Threads : u # t => (InQueue(u)' <=> InQueue(u)) /\ (Holding(u)' <=> Holding(u))
      /\ InQueue(t)' /\ (Holding(t)' <=> l = "own")
  BY <1>3 DEF InQueue, Holding
<1>5. n = 0 <=> tail = Null
  BY <1>0, <1>1 DEF LockInv, ListInv
<1>6. \A j \in 1 .. n + 1 : j \in 1 .. n \/ j = n + 1
  BY <1>1
<1> HIDE DEF n
<1>7. TypeOK'
  BY <1>0, <1>2 DEF LockInv, TypeOK, Goto, Labels
<1>8. OrderInv'
  <2>1. \A i, j \in 1 .. n + 1 : queue'[i] = queue'[j] => i = j
    BY <1>1, <1>2, <1>6 DEF LockInv, OrderInv, n
  <2>2. ASSUME NEW u \in Threads
        PROVE  InQueue(u)' <=> \E i \in 1 .. n + 1 : queue'[i] = u
    <3>1. CASE u = t
      BY <3>1, <1>1, <1>2, <1>4
    <3>2. CASE u # t
      <4>1. InQueue(u) <=> \E i \in 1 .. n : queue[i] = u
        BY DEF LockInv, OrderInv, n
      <4>2. (\E i \in 1 .. n : queue[i] = u) <=> \E i \in 1 .. n + 1 : queue'[i] = u
        BY <3>2, <1>1, <1>2, <1>6
      <4>3. QED
        BY <3>2, <4>1, <4>2, <1>4
    <3>3. QED
      BY <3>1, <3>2
  <2>3. ASSUME NEW i \in 1 .. n + 1, pc'[queue'[i]] \in {"own", "held", "load_next", "cas_tail", "await_next", "pass"}
        PROVE  i = 1
    <3>1. CASE i = n + 1
      <4>1. l = "own"
        BY <3>1, <2>3, <1>2, <1>3
      <4>2. QED
        BY <3>1, <4>1, <1>1, <1>5
    <3>2. CASE i \in 1 .. n
      BY <3>2, <2>3, <1>1, <1>2, <1>3 DEF LockInv, OrderInv, n, Holding
    <3>3. QED
      BY <3>1, <3>2, <1>6
  <2>4. pc'[queue'[1]] # "link"
    <3>1. CASE n = 0
      BY <3>1, <1>2, <1>3, <1>5
    <3>2. CASE n > 0
      BY <3>2, <1>1, <1>2, <1>3 DEF LockInv, OrderInv, n
    <3>3. QED
      BY <3>1, <3>2, <1>1
  <2>5. QED
    BY <2>1, <2>2, <2>3, <2>4, <1>2 DEF OrderInv, Holding
<1>9. NodeInv'
  BY <1>0, <1>3 DEF LockInv, NodeInv
<1>10. ListInv'
  <2>1. tail' = node'[queue'[n + 1]] /\ next'[tail'] = Null
    BY <1>0, <1>2
  <2>2. ASSUME NEW i \in 1 .. n
        PROVE  /\ locked'[node'[queue'[i + 1]]]
               /\ pc'[queue'[i + 1]] = "link" =>
                    pred'[queue'[i + 1]] = node'[queue'[i]] /\ next'[node'[queue'[i]]] = Null
               /\ pc'[queue'[i + 1]] = "wait" => next'[node'[queue'[i]]] = node'[queue'[i + 1]]
    <3>1. CASE i = n
      <4>1. queue'[i + 1] = t /\ queue'[i] = queue[n] /\ n > 0
        BY <3>1, <1>1, <1>2
      <4>2. tail = node[queue[n]] /\ next[tail] = Null
        BY <4>1 DEF LockInv, ListInv, n
      <4>3. l = "link"
        BY <4>1, <1>5
      <4>4. QED
        BY <4>1, <4>2, <4>3, <1>0, <1>3
    <3>2. CASE i # n
      <4>1. i \in 1 .. n - 1 /\ i + 1 \in 1 .. n
        BY <3>2, <1>1
      <4>2. queue'[i + 1] = queue[i + 1] /\ queue'[i] = queue[i]
        BY <4>1, <1>2
      <4>3. pc'[queue[i + 1]] = pc[queue[i + 1]] /\ pred'[queue[i + 1]] = pred[queue[i + 1]]
        BY <4>1, <1>1, <1>3
      <4>4. QED
        BY <4>1, <4>2, <4>3 DEF LockInv, ListInv, n
    <3>3. QED
      BY <3>1, <3>2
  <2>3. ASSUME NEW u \in Threads, pc'[u] = "pass"
        PROVE  n + 1 > 1 /\ succ'[u] = node'[queue'[2]] /\ pc'[queue'[2]] = "wait"
    <3>1. pc[u] = "pass"
      BY <2>3, <1>3
    <3>2. n > 1 /\ succ[u] = node[queue[2]] /\ pc[queue[2]] = "wait"
      BY <3>1 DEF LockInv, ListInv, n
    <3>3. QED
      BY <3>2, <1>1, <1>2, <1>3
  <2>4. n + 1 > 0 /\ n + 1 # 0 /\ (n + 1) - 1 = n
    BY <1>1
  <2>5. Len(queue') - 1 = n /\ Len(queue') # 0
    BY <2>4, <1>2
  <2>6. \A i \in 1 .. Len(queue') - 1 :
          /\ locked'[node'[queue'[i + 1]]]
          /\ pc'[queue'[i + 1]] = "link" =>
               pred'[queue'[i + 1]] = node'[queue'[i]] /\ next'[node'[queue'[i]]] = Null
          /\ pc'[queue'[i + 1]] = "wait" => next'[node'[queue'[i]]] = node'[queue'[i + 1]]
    BY <2>2, <2>5
  <2>7. QED
    BY <2>1, <2>3, <2>5, <2>6, <1>2 DEF ListInv
<1>11. QED
  BY <1>7, <1>8, <1>9, <1>10 DEF LockInv

(* The compare_exchange of unlock that succeeds and the hand-over: the      *)
(* first thread leaves the queue.                                          *)
LEMMA LeaveStep ==
  ASSUME LockInv, NEW t \in Threads, Holding(t), Goto(t, "free"), queue' = Tail(queue),
         \/ /\ tail = node[t] /\ tail' = Null /\ UNCHANGED locked
         \/ /\ pc[t] = "pass" /\ UNCHANGED tail
            /\ locked' = [locked EXCEPT ![succ[t]] = FALSE],
         UNCHANGED <<owner, next, free, node, pred, succ>>
  PROVE  LockInv'
<1>0. /\ pc \in [Threads -> Labels] /\ Null \notin Pool /\ locked \in [Pool -> BOOLEAN]
      /\ node[t] \in Pool /\ InQueue(t)
  BY MCSLockAssumption DEF LockInv, TypeOK, NodeInv, InQueue, Holding
<1>1. /\ queue \in Seq(Threads) /\ Len(queue) \in Nat /\ Len(queue) > 0 /\ queue[1] = t
  BY <1>0, Place
<1>2. PICK n \in Nat : Len(queue) = n + 1
  <2>1. Len(queue) - 1 \in Nat /\ Len(queue) = (Len(queue) - 1) + 1
    BY <1>1
  <2>2. QED
    BY <2>1
<1>3. /\ \A j \in 1 .. n + 1 : queue[j] \in Threads /\ node[queue[j]] \in Pool \ free /\ InQueue(queue[j])
      /\ \A j, k \in 1 .. n + 1 : node[queue[j]] = node[queue[k]] => j = k
  BY <1>2, Places
<1>4. /\ queue' \in Seq(Threads) /\ Len(queue') = n
      /\ \A j \in 1 .. n : queue'[j] = queue[j + 1]
  BY <1>1, <1>2, TailAt
<1>5. pc'[t] = "free" /\ \A u \in Threads : u # t => pc'[u] = pc[u]
  BY <1>0 DEF Goto
<1>6. \A j \in 1 .. n : /\ j + 1 \in 1 .. n + 1 /\ queue[j + 1] \in Threads
                         /\ queue[j + 1] # t /\ pc'[queue[j + 1]] = pc[queue[j + 1]]
                         /\ pc[queue[j + 1]] \in {"link", "wait"}
  <2> TAKE j \in 1 .. n
  <2>1. j + 1 \in 1 .. n + 1 /\ 1 \in 1 .. n + 1 /\ j + 1 # 1
    OBVIOUS
  <2>2. queue[j + 1] # t /\ ~Holding(queue[j + 1])
    BY <2>1, <1>1, <1>2 DEF LockInv, OrderInv
  <2>3. QED
    BY <2>1, <2>2, <1>3, <1>5 DEF InQueue
<1>7. /\ \A u \in Threads : u # t => (InQueue(u)' <=> InQueue(u)) /\ (Holding(u)' <=> Holding(u))
      /\ ~InQueue(t)' /\ ~Holding(t)'
  BY <1>5 DEF InQueue, Holding
<1>8. \/ n = 0 /\ tail' = Null /\ UNCHANGED locked
      \/ /\ n > 0 /\ UNCHANGED tail /\ locked' = [locked EXCEPT ![node[queue[2]]] = FALSE]
         /\ pc[queue[2]] = "wait"
  <2>1. CASE tail = node[t] /\ tail' = Null /\ UNCHANGED locked
    <3>1. tail = node[queue[n + 1]] /\ 1 \in 1 .. n + 1 /\ n + 1 \in 1 .. n + 1
      BY <1>1, <1>2 DEF LockInv, ListInv
    <3>2. n + 1 = 1
      BY <2>1, <3>1, <1>1, <1>3
    <3>3. QED
      BY <2>1, <3>2
  <2>2. CASE pc[t] = "pass" /\ UNCHANGED tail /\ locked' = [locked EXCEPT ![succ[t]] = FALSE]
    <3>1. n + 1 > 1 /\ succ[t] = node[queue[2]] /\ pc[queue[2]] = "wait"
      BY <2>2, <1>2 DEF LockInv, ListInv
    <3>2. QED
      BY <2>2, <3>1
  <2>3. QED
    BY <2>1, <2>2
<1>9. locked' \in [Pool -> BOOLEAN]
  BY <1>0, <1>8
<1>10. TypeOK'
  BY <1>0, <1>4, <1>8, <1>9 DEF LockInv, TypeOK, Goto, Labels
<1>11. OrderInv'
  <2>1. ASSUME NEW i \in 1 .. n, NEW j \in 1 .. n, queue'[i] = queue'[j] PROVE i = j
    <3>1. queue[i + 1] = queue[j + 1]
      BY <2>1, <1>4
    <3>2. i + 1 = j + 1
      BY <3>1, <1>2, <1>6 DEF LockInv, OrderInv
    <3>3. QED
      BY <3>2
  <2>2. ASSUME NEW u \in Threads
        PROVE  InQueue(u)' <=> \E i \in 1 .. n : queue'[i] = u
    <3>1. CASE u = t
      BY <3>1, <1>4, <1>6, <1>7
    <3>2. CASE u # t
      <4>1. InQueue(u) <=> \E i \in 1 .. n + 1 : queue[i] = u
        BY <1>2 DEF LockInv, OrderInv
      <4>2. ASSUME NEW i \in 1 .. n + 1, queue[i] = u PROVE \E j \in 1 .. n : queue'[j] = u
        <5>1. i # 1
          BY <4>2, <3>2, <1>1
        <5>2. i - 1 \in 1 .. n /\ (i - 1) + 1 = i
          BY <5>1
        <5>3. queue'[i - 1] = u
          BY <5>2, <4>2, <1>4
        <5>4. QED
          BY <5>2, <5>3
      <4>3. ASSUME NEW j \in 1 .. n, queue'[j] = u PROVE \E i \in 1 .. n + 1 : queue[i] = u
        BY <4>3, <1>4, <1>6
      <4>4. QED
        BY <3>2, <4>1, <4>2, <4>3, <1>7
    <3>3. QED
      BY <3>1, <3>2
  <2>3. \A i \in 1 .. n : pc'[queue'[i]] \in {"link", "wait"}
    BY <1>4, <1>6
  <2>4. n > 0 => pc'[queue'[1]] # "link"
    <3>1. SUFFICES ASSUME n > 0 PROVE pc'[queue'[1]] # "link"
      OBVIOUS
    <3>2. 1 \in 1 .. n /\ queue'[1] = queue[1 + 1] /\ 1 + 1 = 2
      BY <3>1, <1>4
    <3>3. pc[queue[2]] = "wait"
      BY <3>1, <1>8
    <3>4. QED
      BY <3>2, <3>3, <1>6
  <2>5. QED
    BY <2>1, <2>2, <2>3, <2>4, <1>4 DEF OrderInv, Holding
<1>12. NodeInv'
  <2>1. ASSUME NEW u \in Threads, pc'[u] \in {"exchange", "cas"}
        PROVE  next'[node'[u]] = Null /\ locked'[node'[u]]
    <3>1. pc[u] \in {"exchange", "cas"} /\ ~InQueue(u)
      BY <2>1, <1>5 DEF InQueue, Holding
    <3>2. next[node[u]] = Null /\ locked[node[u]] /\ node[u] \in Pool
      BY <3>1 DEF LockInv, NodeInv
    <3>3. n > 0 => 2 \in 1 .. n + 1
      OBVIOUS
    <3>4. n > 0 => node[queue[2]] # node[u]
      BY <3>1, <3>2, <3>3, <1>0, <1>3 DEF LockInv, NodeInv
    <3>5. locked'[node[u]]
      BY <3>2, <3>4, <1>0, <1>8
    <3>6. QED
      BY <3>2, <3>5
  <2>2. QED
    BY <2>1, <1>5 DEF LockInv, NodeInv, Holding
<1>13. ListInv'
  <2>1. n = 0 => tail' = Null
    BY <1>8
  <2>2. n > 0 => tail' = node'[queue'[n]] /\ next'[tail'] = Null
    <3>1. SUFFICES ASSUME n > 0 PROVE tail' = node'[queue'[n]] /\ next'[tail'] = Null
      OBVIOUS
    <3>2. n \in 1 .. n /\ queue'[n] = queue[n + 1]
      BY <3>1, <1>4
    <3>3. tail = node[queue[n + 1]] /\ next[tail] = Null
      BY <1>2 DEF LockInv, ListInv
    <3>4. tail' = tail /\ node' = node /\ next' = next
      BY <3>1, <1>8
    <3>5. QED
      BY <3>2, <3>3, <3>4
  <2>3. ASSUME NEW i \in 1 .. n - 1
        PROVE  /\ locked'[node'[queue'[i + 1]]]
               /\ pc'[queue'[i + 1]] = "link" =>
                    pred'[queue'[i + 1]] = node'[queue'[i]] /\ next'[node'[queue'[i]]] = Null
               /\ pc'[queue'[i + 1]] = "wait" => next'[node'[queue'[i]]] = node'[queue'[i + 1]]
    <3>1. /\ i \in 1 .. n /\ i + 1 \in 1 .. n /\ n > 0
          /\ (i + 1) + 1 \in 1 .. n + 1 /\ 2 \in 1 .. n + 1 /\ (i + 1) + 1 # 2
      <4>1. i \in Nat /\ 1 <= i /\ i <= n - 1
        OBVIOUS
      <4>2. n > 0 /\ i \in 1 .. n
        BY <4>1
      <4>3. i + 1 \in 1 .. n
        BY <4>1
      <4>4. (i + 1) + 1 \in 1 .. n + 1 /\ (i + 1) + 1 # 2
        BY <4>1
      <4>5. 2 \in 1 .. n + 1
        BY <4>2
      <4>6. QED
        BY <4>2, <4>3, <4>4, <4>5
    <3>2. queue'[i + 1] = queue[(i + 1) + 1] /\ queue'[i] = queue[i + 1]
      BY <3>1, <1>4
    <3>3. pc'[queue'[i + 1]] = pc[queue[(i + 1) + 1]]
      BY <3>1, <3>2, <1>6
    <3>4. /\ locked[node[queue[(i + 1) + 1]]]
          /\ pc[queue[(i + 1) + 1]] = "link" =>
               pred[queue[(i + 1) + 1]] = node[queue[i + 1]] /\ next[node[queue[i + 1]]] = Null
          /\ pc[queue[(i + 1) + 1]] = "wait" => next[node[queue[i + 1]]] = node[queue[(i + 1) + 1]]
      <4>1. i + 1 \in 1 .. Len(queue) - 1
        BY <3>1, <1>2
      <4>2. QED
        BY <4>1 DEF LockInv, ListInv
    <3>5. node[queue[(i + 1) + 1]] # node[queue[2]] /\ node[queue[(i + 1) + 1]] \in Pool
      BY <3>1, <1>3
    <3>6. locked'[node[queue[(i + 1) + 1]]]
      BY <3>1, <3>4, <3>5, <1>0, <1>8
    <3>7. QED
      BY <3>2, <3>3, <3>4, <3>6
  <2>4. \A u \in Threads : pc'[u] # "pass"
    BY <1>5, Alone DEF MutualExclusion, Holding
  <2>5. QED
    BY <2>1, <2>2, <2>3, <2>4, <1>4 DEF ListInv
<1>14. QED
  BY <1>10, <1>11, <1>12, <1>13 DEF LockInv

(* Free: the node of a thread that has left the queue is nobody else's.     *)
LEMMA FreeStep ==
  ASSUME LockInv, NEW t \in Threads, Free(t)
  PROVE  LockInv'
<1>0. /\ pc \in [Threads -> Labels] /\ Null \notin Pool /\ free \subseteq Pool
      /\ node \in [Threads -> Pool \cup {Null}] /\ succ \in [Threads -> Pool \cup {Null}]
      /\ UNCHANGED <<tail, owner, next, locked, pred, queue>>
      /\ pc[t] = "free" /\ free' = free \cup {node[t]}
      /\ node' = [node EXCEPT ![t] = Null] /\ succ' = [succ EXCEPT ![t] = Null]
  BY MCSLockAssumption DEF LockInv, TypeOK, Free
<1>1. /\ node[t] \in Pool /\ ~InQueue(t) /\ pc'[t] = "idle"
      /\ \A u \in Threads : u # t => pc'[u] = pc[u] /\ node'[u] = node[u] /\ succ'[u] = succ[u]
  BY <1>0 DEF LockInv, NodeInv, InQueue, Holding, Free, Goto
<1>2. /\ queue \in Seq(Threads) /\ Len(queue) \in Nat
      /\ \A j \in 1 .. Len(queue) : queue[j] \in Threads /\ InQueue(queue[j])
  BY Places
<1>3. \A j \in 1 .. Len(queue) :
        queue[j] # t /\ pc'[queue[j]] = pc[queue[j]] /\ node'[queue[j]] = node[queue[j]]
  BY <1>1, <1>2
<1>4. TypeOK'
  BY <1>0, <1>1 DEF LockInv, TypeOK, Free, Goto, Labels
<1>5. OrderInv'
  <2>1. \A u \in Threads : InQueue(u)' <=> InQueue(u)
    BY <1>0, <1>1 DEF InQueue, Holding
  <2>2. \A i \in 1 .. Len(queue) : Holding(queue[i])' => i = 1
    BY <1>0, <1>3 DEF LockInv, OrderInv, Holding
  <2>3. QED
    BY <1>0, <1>2, <1>3, <2>1, <2>2 DEF LockInv, OrderInv
<1>6. NodeInv'
  BY <1>0, <1>1 DEF LockInv, NodeInv
<1>7. ListInv'
  <2>1. /\ Len(queue) = 0 => tail' = Null
        /\ Len(queue) > 0 => tail' = node'[queue[Len(queue)]] /\ next'[tail'] = Null
    BY <1>0, <1>2, <1>3 DEF LockInv, ListInv
  <2>2. \A i \in 1 .. Len(queue) - 1 :
          /\ locked'[node'[queue[i + 1]]]
          /\ pc'[queue[i + 1]] = "link" =>
               pred'[queue[i + 1]] = node'[queue[i]] /\ next'[node'[queue[i]]] = Null
          /\ pc'[queue[i + 1]] = "wait" => next'[node'[queue[i]]] = node'[queue[i + 1]]
    BY <1>0, <1>2, <1>3 DEF LockInv, ListInv
  <2>3. \A u \in Threads : pc'[u] = "pass" =>
          Len(queue) > 1 /\ succ'[u] = node'[queue[2]] /\ pc'[queue[2]] = "wait"
    <3> SUFFICES ASSUME NEW u \in Threads, pc'[u] = "pass"
                 PROVE  Len(queue) > 1 /\ succ'[u] = node'[queue[2]] /\ pc'[queue[2]] = "wait"
      OBVIOUS
    <3>1. pc[u] = "pass" /\ u # t
      BY <1>1
    <3>2. Len(queue) > 1 /\ succ[u] = node[queue[2]] /\ pc[queue[2]] = "wait"
      BY <3>1 DEF LockInv, ListInv
    <3>3. 2 \in 1 .. Len(queue)
      BY <3>2, <1>2
    <3>4. QED
      BY <3>1, <3>2, <3>3, <1>1, <1>3
  <2>4. QED
    BY <1>0, <2>1, <2>2, <2>3 DEF ListInv
<1>8. QED
  BY <1>4, <1>5, <1>6, <1>7 DEF LockInv

-----------------------------------------------------------------------------
LEMMA LockInit == Init => LockInv
<1> SUFFICES ASSUME Init PROVE LockInv
  OBVIOUS
<1>1. TypeOK
  BY DEF Init, TypeOK, Labels
<1>2. Len(queue) = 0 /\ \A t \in Threads : pc[t] = "idle" /\ node[t] = Null
  BY DEF Init
<1>3. OrderInv /\ NodeInv
  BY <1>2 DEF OrderInv, NodeInv, InQueue, Holding
<1>4. ListInv
  BY <1>2 DEF Init, ListInv
<1>5. QED
  BY <1>1, <1>3, <1>4 DEF LockInv

LEMMA LockStep == LockInv /\ [Next]_vars => LockInv'
<1> SUFFICES ASSUME LockInv, [Next]_vars PROVE LockInv'
  OBVIOUS
<1>1. CASE UNCHANGED vars
  <2>1. UNCHANGED <<tail, owner, next, locked, free, pc, node, pred, succ, queue>>
    BY <1>1 DEF vars
  <2>2. TypeOK' /\ NodeInv'
    BY <2>1 DEF LockInv, TypeOK, NodeInv
  <2>3. OrderInv' /\ ListInv'
    BY <2>1 DEF LockInv, OrderInv, ListInv, InQueue, Holding
  <2>4. QED
    BY <2>2, <2>3 DEF LockInv
<1>2. CASE Next
  <2>1. PICK t \in Threads :
          \/ Lock(t) \/ TryLock(t)
          \/ Exchange(t) \/ Link(t) \/ Wait(t) \/ Own(t) \/ TryCas(t)
          \/ Unlock(t) \/ LoadNext(t) \/ CasTail(t) \/ AwaitNext(t) \/ Pass(t)
          \/ Free(t)
    BY <1>2 DEF Next
  <2>2. CASE Lock(t) \/ TryLock(t)
    <3>1. PICK l \in {"exchange", "cas"} : Goto(t, l)
      BY <2>2 DEF Lock, TryLock
    <3>2. pc[t] = "idle" /\ NewNode(t) /\ UNCHANGED <<tail, owner, pred, succ, queue>>
      BY <2>2 DEF Lock, TryLock
    <3>3. QED
      BY <3>1, <3>2, NewNodeStep
  <2>3. CASE Exchange(t)
    <3>1. PICK l \in {"own", "link"} : l = IF tail = Null THEN "own" ELSE "link"
      OBVIOUS
    <3>2. /\ pred \in [Threads -> Pool \cup {Null}] /\ tail \in Pool \cup {Null}
          /\ pred' = [pred EXCEPT ![t] = tail]
      BY <2>3 DEF LockInv, TypeOK, Exchange
    <3>3. /\ pred' \in [Threads -> Pool \cup {Null}] /\ pred'[t] = tail
          /\ \A u \in Threads : u # t => pred'[u] = pred[u]
      BY <3>2
    <3>4. /\ pc[t] = "exchange" /\ Goto(t, l) /\ (l = "own" <=> tail = Null)
          /\ tail' = node[t] /\ queue' = Append(queue, t)
          /\ UNCHANGED <<owner, next, locked, free, node, succ>>
      BY <2>3, <3>1 DEF Exchange
    <3>5. QED
      BY <3>3, <3>4, JoinStep
  <2>4. CASE TryCas(t)
    <3>1. pc[t] = "cas" /\ UNCHANGED <<owner, next, locked, free, node, pred, succ>>
      BY <2>4 DEF TryCas
    <3>2. CASE TryFree /\ tail' = node[t] /\ queue' = Append(queue, t) /\ Goto(t, "own")
      <4>1. pred' \in [Threads -> Pool \cup {Null}] /\ tail = Null
        BY <3>1, <3>2 DEF LockInv, TypeOK, TryFree
      <4>2. QED
        BY <3>1, <3>2, <4>1, JoinStep
    <3>3. CASE ~TryFree /\ Goto(t, "free") /\ UNCHANGED <<tail, queue>>
      BY <3>1, <3>3, CasFails
    <3>4. QED
      BY <2>4, <3>2, <3>3 DEF TryCas
  <2>5. CASE CasTail(t)
    <3>1. pc[t] = "cas_tail" /\ UNCHANGED <<owner, next, locked, free, node, pred, succ>>
      BY <2>5 DEF CasTail
    <3>2. CASE tail = node[t] /\ tail' = Null /\ queue' = Tail(queue) /\ Goto(t, "free")
      BY <3>1, <3>2, LeaveStep DEF Holding
    <3>3. CASE tail # node[t] /\ Goto(t, "await_next") /\ UNCHANGED <<tail, queue>>
      BY <3>1, <3>3, CasFails
    <3>4. QED
      BY <2>5, <3>2, <3>3 DEF CasTail
  <2>6. CASE Pass(t)
    BY <2>6, LeaveStep DEF Pass, Holding
  <2>7. QED
    BY <2>1, <2>2, <2>3, <2>4, <2>5, <2>6, PrivateSteps, LinkStep, FreeStep
<1>3. QED
  BY <1>1, <1>2

-----------------------------------------------------------------------------
(* The nodes that a thread goes to through predecessor and next are those   *)
(* of its neighbours in the queue.                                         *)
LEMMA Alive == LockInv => NodesAlive
<1> SUFFICES ASSUME LockInv PROVE NodesAlive
  OBVIOUS
<1>0. /\ Null \notin Pool /\ free \subseteq Pool
      /\ \A t \in Threads : pc[t] # "idle" => node[t] \in Pool \ free
  BY MCSLockAssumption DEF LockInv, TypeOK, NodeInv
<1>1. tail \notin free
  <2>1. CASE Len(queue) = 0
    BY <2>1, <1>0 DEF LockInv, ListInv
  <2>2. CASE Len(queue) > 0
    <3>1. Len(queue) \in 1 .. Len(queue)
      BY <2>2, Places
    <3>2. node[queue[Len(queue)]] \in Pool \ free
      BY <3>1, Places
    <3>3. QED
      BY <2>2, <3>2 DEF LockInv, ListInv
  <2>3. QED
    BY <2>1, <2>2, Places
<1>2. ASSUME NEW t \in Threads, pc[t] = "link"
      PROVE  \E u \in Threads \ {t} : node[u] = pred[t] /\ (Holding(u) \/ pc[u] \in {"link", "wait"})
  <2>1. InQueue(t)
    BY <1>2 DEF InQueue
  <2>2. PICK i \in 1 .. Len(queue) : queue[i] = t
    BY <2>1, Place
  <2>3. i # 1 /\ Len(queue) \in Nat
    BY <1>2, <2>2, Places DEF LockInv, OrderInv
  <2>4. /\ i - 1 \in 1 .. Len(queue) /\ i - 1 \in 1 .. Len(queue) - 1
        /\ (i - 1) + 1 = i /\ i - 1 # i
    BY <2>3
  <2>5. pred[t] = node[queue[i - 1]]
    BY <1>2, <2>2, <2>4 DEF LockInv, ListInv
  <2>6. queue[i - 1] \in Threads /\ InQueue(queue[i - 1])
    BY <2>4, Places
  <2>7. queue[i - 1] # t
    BY <2>2, <2>4 DEF LockInv, OrderInv
  <2>8. QED
    BY <2>5, <2>6, <2>7 DEF InQueue
<1>3. ASSUME NEW t \in Threads, pc[t] = "pass"
      PROVE  \E u \in Threads \ {t} : node[u] = succ[t] /\ pc[u] = "wait"
  <2>1. Len(queue) > 1 /\ succ[t] = node[queue[2]] /\ pc[queue[2]] = "wait"
    BY <1>3 DEF LockInv, ListInv
  <2>2. 2 \in 1 .. Len(queue)
    BY <2>1, Places
  <2>3. queue[2] \in Threads /\ queue[2] # t
    BY <1>3, <2>1, <2>2, Places
  <2>4. QED
    BY <2>1, <2>3
<1>4. QED
  BY <1>0, <1>1, <1>2, <1>3 DEF NodesAlive

-----------------------------------------------------------------------------
(* The shared lock.                                                        *)

(* What a thread wants of the shared lock agrees with where it is in wlock. *)
Entering == {"exchange", "link", "wait", "own", "held"}
Leaving  == {"load_next", "cas_tail", "await_next", "pass", "free", "idle"}

ModeInv ==
  /\ ~shared => \A t \in Threads : mode[t] = "none"
  /\ shared => \A t \in Threads :
       /\ mode[t] \in {"reader", "waiting"} => pc[t] \in Entering
       /\ mode[t] \in {"none", "reading"} => pc[t] \in Leaving
       /\ mode[t] = "writing" => pc[t] = "held"

SharedInv == LockInv /\ SharedTypeOK /\ ModeInv /\ WriterAlone

(* Entering and leaving wlock are steps of the plain lock.  A reader leaves *)
(* it through its own node, which is the owner.                             *)
LEMMA SharedIsLock == LockInv /\ [SharedNext]_allVars => [Next]_vars
<1> SUFFICES ASSUME LockInv, [SharedNext]_allVars PROVE [Next]_vars
  OBVIOUS
<1>1. CASE UNCHANGED allVars
  BY <1>1 DEF allVars
<1>2. CASE SharedNext
  <2>1. PICK t \in Threads : Starts(t) \/ Proceeds(t)
    BY <1>2 DEF SharedNext
  <2>2. CASE EnterShared(t)
    <3>1. node \in [Threads -> Pool \cup {Null}] /\ owner = node[t]
      BY <2>2 DEF EnterShared, LockInv, TypeOK, NodeInv
    <3>2. node' = [node EXCEPT ![t] = owner]
      BY <2>2, <3>1 DEF EnterShared
    <3>3. Unlock(t)
      BY <2>2, <3>2 DEF EnterShared, Unlock
    <3>4. QED
      BY <3>3 DEF Next
  <2>3. CASE UnlockShared(t) \/ EnterExclusive(t)
    BY <2>3 DEF UnlockShared, EnterExclusive
  <2>4. CASE Starts(t) \/ NodeStep(t) \/ PlainUnlock(t) \/ UnlockExclusive(t)
    BY <2>4 DEF Starts, PlainStarts, LockShared, LockExclusive, NodeStep, PlainUnlock,
                UnlockExclusive, Next
  <2>5. QED
    BY <2>1, <2>2, <2>3, <2>4 DEF Proceeds
<1>3. QED
  BY <1>1, <1>2

Reading == {t \in Threads : mode[t] = "reading"}

(* The count follows the set of readers.                                   *)
LEMMA Counting ==
  ASSUME NEW R \in SUBSET Threads, NEW t \in Threads
  PROVE  /\ t \notin R => Cardinality(R \cup {t}) = Cardinality(R) + 1
         /\ t \in R => Cardinality(R \ {t}) = Cardinality(R) - 1
         /\ Cardinality(R) = 0 => R = {}
<1>1. IsFiniteSet(R)
  BY MCSLockAssumption, FS_Subset
<1>2. QED
  BY <1>1, FS_AddElement, FS_RemoveElement, FS_EmptySet

(* Where a step of wlock takes a thread.                                   *)
LEMMA WlockMoves ==
  ASSUME LockInv, NEW t \in Threads, NodeStep(t)
  PROVE  /\ UNCHANGED sharedVars
         /\ \A u \in Threads : u # t => pc'[u] = pc[u]
         /\ pc[t] \in Entering => pc'[t] \in Entering /\ pc[t] # "held"
         /\ pc[t] \in Leaving => pc'[t] \in Leaving
<1>1. pc \in [Threads -> Labels]
  BY DEF LockInv, TypeOK
<1>2. QED
  BY <1>1 DEF NodeStep, Exchange, Link, Wait, Own, TryCas, LoadNext, CasTail, AwaitNext, Pass,
              Free, Goto, Entering, Leaving

(* A writer goes in when it holds wlock and the count is zero; a reader     *)
(* counts itself while it holds wlock.                                     *)
LEMMA SharedStep == SharedInv /\ [SharedNext]_allVars => SharedInv'
<1> SUFFICES ASSUME SharedInv, [SharedNext]_allVars PROVE SharedInv'
  OBVIOUS
<1>0. /\ LockInv /\ LockInv'
      /\ mode \in [Threads -> {"none", "reader", "reading", "waiting", "writing"}]
      /\ shared \in BOOLEAN /\ active_readers = Cardinality(Reading)
      /\ pc \in [Threads -> Labels]
  BY SharedIsLock, LockStep DEF SharedInv, SharedTypeOK, Reading, LockInv, TypeOK
<1>1. SUFFICES (/\ shared \in BOOLEAN
                /\ mode \in [Threads -> {"none", "reader", "reading", "waiting", "writing"}]
                /\ active_readers = Cardinality(Reading)
                /\ ModeInv /\ WriterAlone)'
  BY <1>0 DEF SharedInv, SharedTypeOK, LockInv, Reading
<1>2. CASE UNCHANGED allVars
  BY <1>0, <1>2 DEF allVars, vars, sharedVars, SharedInv, ModeInv, WriterAlone, Reading
<1>3. CASE SharedNext
  <2>1. PICK t \in Threads : Starts(t) \/ Proceeds(t)
    BY <1>3 DEF SharedNext
  <2>2. CASE NodeStep(t)
    <3>1. /\ UNCHANGED <<shared, active_readers, mode>>
          /\ \A u \in Threads : u # t => pc'[u] = pc[u]
          /\ pc[t] \in Entering => pc'[t] \in Entering /\ pc[t] # "held"
          /\ pc[t] \in Leaving => pc'[t] \in Leaving
      BY <1>0, <2>2, WlockMoves DEF sharedVars
    <3>2. "held" \in Entering
      BY DEF Entering
    <3>3. QED
      BY <1>0, <3>1, <3>2 DEF SharedInv, ModeInv, WriterAlone, Reading
  <2>3. CASE PlainStarts(t) \/ PlainUnlock(t)
    BY <1>0, <2>3 DEF PlainStarts, PlainUnlock, sharedVars, SharedInv, ModeInv, WriterAlone, Reading
  <2>4. CASE LockShared(t) \/ LockExclusive(t)
    <3>1. PICK m \in {"reader", "waiting"} : mode' = [mode EXCEPT ![t] = m]
      BY <2>4 DEF LockShared, LockExclusive, SetMode
    <3>2. /\ shared /\ mode[t] = "none" /\ UNCHANGED <<shared, active_readers>>
          /\ pc' = [pc EXCEPT ![t] = "exchange"]
      BY <2>4 DEF LockShared, LockExclusive, Lock, Goto
    <3>3. Reading' = Reading
      BY <1>0, <3>1, <3>2 DEF Reading
    <3>4. QED
      BY <1>0, <3>1, <3>2, <3>3 DEF SharedInv, ModeInv, WriterAlone, Entering
  <2>5. CASE EnterShared(t)
    <3>1. /\ pc[t] = "held" /\ mode[t] = "reader" /\ active_readers' = active_readers + 1
          /\ mode' = [mode EXCEPT ![t] = "reading"] /\ pc' = [pc EXCEPT ![t] = "load_next"]
          /\ UNCHANGED shared
      BY <2>5 DEF EnterShared, CountReader, SetMode, Goto
    <3>2. Reading' = Reading \cup {t} /\ t \notin Reading /\ Reading \subseteq Threads
      BY <1>0, <3>1 DEF Reading
    <3>3. Cardinality(Reading') = Cardinality(Reading) + 1
      BY <3>2, Counting
    <3>4. \A w \in Threads : mode[w] # "writing"
      <4>1. SUFFICES ASSUME NEW w \in Threads, mode[w] = "writing" PROVE FALSE
        OBVIOUS
      <4>2. shared /\ pc[w] = "held"
        BY <1>0, <4>1 DEF SharedInv, ModeInv
      <4>3. w = t
        BY <1>0, <3>1, <4>2, Alone DEF MutualExclusion, Holding
      <4>4. QED
        BY <3>1, <4>1, <4>3
    <3>5. shared
      BY <1>0, <3>1 DEF SharedInv, ModeInv
    <3>6. QED
      BY <1>0, <3>1, <3>3, <3>4, <3>5 DEF SharedInv, ModeInv, WriterAlone, Leaving
  <2>6. CASE UnlockShared(t)
    <3>1. /\ pc[t] = "idle" /\ mode[t] = "reading" /\ active_readers' = active_readers - 1
          /\ mode' = [mode EXCEPT ![t] = "none"] /\ UNCHANGED <<shared, pc>>
      BY <2>6 DEF UnlockShared, SetMode, vars
    <3>2. Reading' = Reading \ {t} /\ t \in Reading /\ Reading \subseteq Threads
      BY <1>0, <3>1 DEF Reading
    <3>3. Cardinality(Reading') = Cardinality(Reading) - 1
      BY <3>2, Counting
    <3>4. shared
      BY <1>0, <3>1 DEF SharedInv, ModeInv
    <3>5. QED
      BY <1>0, <3>1, <3>3, <3>4 DEF SharedInv, ModeInv, WriterAlone, Leaving
  <2>7. CASE EnterExclusive(t)
    <3>1. /\ pc[t] = "held" /\ mode[t] = "waiting" /\ active_readers = 0
          /\ mode' = [mode EXCEPT ![t] = "writing"] /\ UNCHANGED <<shared, pc, active_readers>>
      BY <2>7 DEF EnterExclusive, ReadersGone, SetMode, vars
    <3>2. Reading = {} /\ Reading' = Reading
      <4>1. Reading \subseteq Threads
        BY DEF Reading
      <4>2. Reading = {}
        BY <1>0, <3>1, <4>1, Counting
      <4>3. QED
        BY <1>0, <3>1, <4>2 DEF Reading
    <3>3. \A r \in Threads : mode[r] # "reading"
      BY <3>2 DEF Reading
    <3>4. \A w \in Threads : mode[w] # "writing"
      <4>1. SUFFICES ASSUME NEW w \in Threads, mode[w] = "writing" PROVE FALSE
        OBVIOUS
      <4>2. shared /\ pc[w] = "held"
        BY <1>0, <4>1 DEF SharedInv, ModeInv
      <4>3. w = t
        BY <1>0, <3>1, <4>2, Alone DEF MutualExclusion, Holding
      <4>4. QED
        BY <3>1, <4>1, <4>3
    <3>5. shared
      BY <1>0, <3>1 DEF SharedInv, ModeInv
    <3>6. QED
      BY <1>0, <3>1, <3>2, <3>3, <3>4, <3>5 DEF SharedInv, ModeInv, WriterAlone
  <2>8. CASE UnlockExclusive(t)
    <3>1. /\ mode[t] = "writing" /\ mode' = [mode EXCEPT ![t] = "none"]
          /\ pc' = [pc EXCEPT ![t] = "load_next"] /\ UNCHANGED <<shared, active_readers>>
      BY <2>8 DEF UnlockExclusive, Unlock, SetMode, Goto
    <3>2. Reading' = Reading
      BY <1>0, <3>1 DEF Reading
    <3>3. shared
      BY <1>0, <3>1 DEF SharedInv, ModeInv
    <3>4. QED
      BY <1>0, <3>1, <3>2, <3>3 DEF SharedInv, ModeInv, WriterAlone, Leaving
  <2>9. QED
    BY <2>1, <2>2, <2>3, <2>4, <2>5, <2>6, <2>7, <2>8 DEF Starts, Proceeds
<1>4. QED
  BY <1>2, <1>3

LEMMA SharedInitially == SharedInit => SharedInv
<1> SUFFICES ASSUME SharedInit PROVE SharedInv
  OBVIOUS
<1>1. LockInv
  BY LockInit DEF SharedInit
<1>2. /\ \A t \in Threads : mode[t] = "none" /\ pc[t] = "idle"
      /\ active_readers = 0 /\ shared \in BOOLEAN
      /\ mode \in [Threads -> {"none", "reader", "reading", "waiting", "writing"}]
  BY DEF SharedInit, Init
<1>3. {t \in Threads : mode[t] = "reading"} = {}
  BY <1>2
<1>4. SharedTypeOK
  BY <1>1, <1>2, <1>3, FS_EmptySet DEF SharedTypeOK, LockInv
<1>5. QED
  BY <1>1, <1>2, <1>4 DEF SharedInv, ModeInv, WriterAlone, Leaving

-----------------------------------------------------------------------------
(* The refinement of the queue lock.                                       *)

(* Who has the abstract lock is the thread that holds the lock and has      *)
(* written itself into owner.                                              *)
LEMMA Holders ==
  ASSUME LockInv, NEW t \in Threads, Holding(t)
  PROVE  /\ absHolders = IF pc[t] = "own" THEN {} ELSE {t}
         /\ queue \in Seq(Threads) /\ queue # <<>> /\ Head(queue) = t
<1>1. absHolders = IF pc[t] = "own" THEN {} ELSE {t}
  BY Alone DEF absHolders, MutualExclusion
<1>2. queue \in Seq(Threads) /\ Len(queue) > 0 /\ queue[1] = t
  BY Place DEF InQueue
<1>3. QED
  BY <1>1, <1>2, EmptySeq

(* Each step of the lock is a request, a grant, a release or none of these. *)
LEMMA FifoStep == LockInv /\ [Next]_vars => [Abs!Next]_(Abs!vars)
<1> SUFFICES ASSUME LockInv, [Next]_vars
             PROVE  Abs!Next \/ UNCHANGED <<queue, absHolders>>
  BY DEF Abs!vars
<1>0. pc \in [Threads -> Labels] /\ queue \in Seq(Threads)
  BY DEF LockInv, TypeOK
<1>1. CASE UNCHANGED vars
  BY <1>1 DEF vars, absHolders, Holding
<1>2. CASE Next
  <2>1. PICK t \in Threads :
          \/ Lock(t) \/ TryLock(t)
          \/ Exchange(t) \/ Link(t) \/ Wait(t) \/ Own(t) \/ TryCas(t)
          \/ Unlock(t) \/ LoadNext(t) \/ CasTail(t) \/ AwaitNext(t) \/ Pass(t)
          \/ Free(t)
    BY <1>2 DEF Next
  <2>2. ASSUME NEW l, Goto(t, l), l \notin {"held", "load_next", "cas_tail", "await_next", "pass"},
               pc[t] \notin {"held", "load_next", "cas_tail", "await_next", "pass"}
        PROVE  absHolders' = absHolders
    BY <1>0, <2>2 DEF absHolders, Holding, Goto
  <2>3. ASSUME NEW l, Goto(t, l), l \in {"held", "load_next", "cas_tail", "await_next", "pass"},
               pc[t] \in {"held", "load_next", "cas_tail", "await_next", "pass"}
        PROVE  absHolders' = absHolders
    BY <1>0, <2>3 DEF absHolders, Holding, Goto
  <2>4. ASSUME pc[t] \in {"exchange", "cas"}, queue' = Append(queue, t),
               NEW l \in {"own", "link"}, Goto(t, l)
        PROVE  Abs!Next
    <3>1. ~InQueue(t)
      BY <2>4 DEF InQueue, Holding
    <3>2. ~Abs!Queued(t)
      BY <3>1 DEF Abs!Queued, LockInv, OrderInv
    <3>3. absHolders' = absHolders
      BY <2>2, <2>4
    <3>4. Abs!Request(t)
      BY <3>2, <3>3, <2>4 DEF Abs!Request
    <3>5. QED
      BY <3>4 DEF Abs!Next
  <2>5. ASSUME Holding(t), pc[t] # "own", queue' = Tail(queue), Goto(t, "free")
        PROVE  Abs!Next
    <3>1. absHolders = {t}
      BY <2>5, Holders
    <3>2. absHolders' = absHolders \ {t}
      BY <1>0, <2>5 DEF absHolders, Holding, Goto
    <3>3. Abs!Release(t)
      BY <2>5, <3>1, <3>2 DEF Abs!Release
    <3>4. QED
      BY <3>3 DEF Abs!Next
  <2>6. CASE Own(t)
    <3>1. pc[t] = "own" /\ Holding(t) /\ Goto(t, "held") /\ UNCHANGED queue
      BY <2>6 DEF Own, Holding
    <3>2. absHolders = {} /\ queue # <<>> /\ Head(queue) = t
      BY <3>1, Holders
    <3>3. absHolders' = absHolders \cup {t}
      BY <1>0, <3>1 DEF absHolders, Holding, Goto
    <3>4. Abs!Grant
      BY <3>1, <3>2, <3>3 DEF Abs!Grant
    <3>5. QED
      BY <3>4 DEF Abs!Next
  <2>7. CASE Lock(t) \/ TryLock(t) \/ Link(t) \/ Wait(t) \/ Free(t)
    <3>1. UNCHANGED queue
      BY <2>7 DEF Lock, TryLock, Link, Wait, Free
    <3>2. absHolders' = absHolders
      BY <2>2, <2>7 DEF Lock, TryLock, Link, Wait, Free
    <3>3. QED
      BY <3>1, <3>2
  <2>8. CASE Unlock(t) \/ LoadNext(t) \/ AwaitNext(t)
    <3>1. UNCHANGED queue
      BY <2>8 DEF Unlock, LoadNext, AwaitNext
    <3>2. PICK l \in {"load_next", "cas_tail", "pass"} : Goto(t, l)
      BY <2>8 DEF Unlock, LoadNext, AwaitNext
    <3>3. absHolders' = absHolders
      BY <2>3, <2>8, <3>2 DEF Unlock, LoadNext, AwaitNext
    <3>4. QED
      BY <3>1, <3>3
  <2>9. CASE Exchange(t)
    <3>1. PICK l \in {"own", "link"} : Goto(t, l)
      BY <2>9 DEF Exchange
    <3>2. QED
      BY <2>4, <2>9, <3>1 DEF Exchange
  <2>10. CASE TryCas(t)
    <3>1. CASE queue' = Append(queue, t) /\ Goto(t, "own")
      BY <2>4, <2>10, <3>1 DEF TryCas
    <3>2. CASE Goto(t, "free") /\ UNCHANGED queue
      BY <2>2, <2>10, <3>2 DEF TryCas
    <3>3. QED
      BY <2>10, <3>1, <3>2 DEF TryCas
  <2>11. CASE CasTail(t)
    <3>1. CASE queue' = Tail(queue) /\ Goto(t, "free")
      BY <2>5, <2>11, <3>1 DEF CasTail, Holding
    <3>2. CASE Goto(t, "await_next") /\ UNCHANGED queue
      BY <2>3, <2>11, <3>2 DEF CasTail
    <3>3. QED
      BY <2>11, <3>1, <3>2 DEF CasTail
  <2>12. CASE Pass(t)
    BY <2>5, <2>12 DEF Pass, Holding
  <2>13. QED
    BY <2>1, <2>6, <2>7, <2>8, <2>9, <2>10, <2>11, <2>12
<1>3. QED
  BY <1>1, <1>2

LEMMA FifoInit == Init => Abs!Init
BY DEF Init, Abs!Init, absHolders, Holding

-----------------------------------------------------------------------------
(* The plain lock: the list of nodes is the queue of the threads, whatever  *)
(* the interleaving of their exchanges, links and hand-overs.              *)
THEOREM LockInductive == Spec => []LockInv
BY LockInit, LockStep, PTL DEF Spec

(* MCSLock implements the queue lock of FifoLock: the lock is granted to    *)
(* one thread at a time, in the order of the exchanges on tail.             *)
THEOREM LockIsFifo == Spec => Fifo
<1>1. QED
  BY LockInductive, FifoInit, FifoStep, PTL DEF Spec, Fifo, Abs!Spec

(* The shared lock: LockInv, and who is inside in which mode.               *)
THEOREM SharedInductive == SharedSpec => []SharedInv
BY SharedInitially, SharedStep, PTL DEF SharedSpec

(* Pointers stay within the allocator, and active_readers is the number of  *)
(* readers inside.                                                         *)
THEOREM SharedTypes == SharedSpec => []SharedTypeOK
<1>1. SharedInv => SharedTypeOK
  BY DEF SharedInv
<1>2. QED
  BY <1>1, SharedInductive, PTL

(* At most one thread holds wlock or the plain lock, from the end of lock() *)
(* until the hand-over in unlock().                                        *)
THEOREM Exclusive == SharedSpec => []MutualExclusion
<1>1. SharedInv => MutualExclusion
  BY Alone DEF SharedInv
<1>2. QED
  BY <1>1, SharedInductive, PTL

(* predecessor->next and next->locked are stored into nodes of threads that *)
(* still wait for the store: nodes are freed neither too early nor while    *)
(* tail points to them.                                                    *)
THEOREM NodesInUse == SharedSpec => []NodesAlive
<1>1. SharedInv => NodesAlive
  BY Alive DEF SharedInv
<1>2. QED
  BY <1>1, SharedInductive, PTL

(* A writer inside an MCSSharedLock is alone.                              *)
THEOREM WritersAlone == SharedSpec => []WriterAlone
<1>1. SharedInv => WriterAlone
  BY DEF SharedInv
<1>2. QED
  BY <1>1, SharedInductive, PTL

(* wlock is a FIFO lock inside the shared lock, too.                       *)
THEOREM SharedIsFifo == SharedSpec => Fifo
<1>1. SharedInit => Abs!Init
  BY FifoInit DEF SharedInit
<1>2. SharedInv /\ [SharedNext]_allVars => [Abs!Next]_(Abs!vars)
  BY SharedIsLock, FifoStep DEF SharedInv
<1>3. QED
  BY <1>1, <1>2, SharedInductive, PTL DEF SharedSpec, Fifo, Abs!Spec
===============================================================================
