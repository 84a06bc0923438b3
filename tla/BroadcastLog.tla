----------------------------- MODULE BroadcastLog -----------------------------
(***************************************************************************)
(* What the broadcast log of one node promises to the rest of the system:  *)
(* positions are claimed in order and published in any order; every        *)
(* subscribed node reads the positions in order, each one only after it is *)
(* published; and the publisher is held back so that it never runs a whole *)
(* ring ahead of a subscribed node.  Buffers, ring slots and their         *)
(* collection do not appear: module LogManager implements this one.        *)
(***************************************************************************)
EXTENDS Integers

CONSTANTS
  Subscribers,   \* the other nodes
  Capacity,      \* LOG_COUNT
  MaxTail        \* bound: positions claimed

VARIABLES
  tail,        \* next position to claim
  pending,     \* positions claimed and not yet published
  is_subbed,
  head,        \* next position of each subscribed node
  reading      \* the position a node is processing, -1 for none

vars == <<tail, pending, is_subbed, head, reading>>

Init ==
  /\ tail = 0
  /\ pending = {}
  /\ is_subbed = [n \in Subscribers |-> TRUE]
  /\ head = [n \in Subscribers |-> 0]
  /\ reading = [n \in Subscribers |-> -1]

(* tail.fetch_add of produce_tail.                                         *)
Claim ==
  /\ tail < MaxTail
  /\ \A n \in Subscribers : is_subbed[n] => tail < head[n] + Capacity
  /\ tail' = tail + 1
  /\ pending' = pending \cup {tail}
  /\ UNCHANGED <<is_subbed, head, reading>>

(* The store to entry.idx that ends produce_tail.                          *)
Publish ==
  /\ \E t \in pending : pending' = pending \ {t}
  /\ UNCHANGED <<tail, is_subbed, head, reading>>

(* take_head returns an entry and its log is fetched.                      *)
Read(n) ==
  /\ is_subbed[n]
  /\ reading[n] = -1
  /\ head[n] < tail
  /\ head[n] \notin pending
  /\ reading' = [reading EXCEPT ![n] = head[n]]
  /\ UNCHANGED <<tail, pending, is_subbed, head>>

(* consume_head.                                                           *)
Consume(n) ==
  /\ reading[n] = head[n]
  /\ head' = [head EXCEPT ![n] = @ + 1]
  /\ reading' = [reading EXCEPT ![n] = -1]
  /\ UNCHANGED <<tail, pending, is_subbed>>

(* remove_subscriber: the node's position no longer matters.               *)
Unsubscribe(n) ==
  /\ is_subbed[n]
  /\ is_subbed' = [is_subbed EXCEPT ![n] = FALSE]
  /\ head' = [head EXCEPT ![n] = 0]
  /\ reading' = [reading EXCEPT ![n] = -1]
  /\ UNCHANGED <<tail, pending>>

Next ==
  \/ Claim
  \/ Publish
  \/ \E n \in Subscribers : Read(n) \/ Consume(n) \/ Unsubscribe(n)

Spec == Init /\ [][Next]_vars

(* A claimed position is published and a published one is read: producers  *)
(* and consumers do not stop half way.                                     *)
Fairness ==
  /\ WF_vars(Publish)
  /\ \A n \in Subscribers : WF_vars(Read(n)) /\ WF_vars(Consume(n))
===============================================================================
