------------------------------ MODULE LogSubscribe ----------------------------
(***************************************************************************)
(* A node that unsubscribed from a log subscribes again (add_subscriber in *)
(* include/logManager.hpp, called by rac_subscribe_to_node in              *)
(* src/runtime.cpp).  Meanwhile the cache agent of the node, which finds   *)
(* is_subbed set again, goes on from the head of the earlier subscription, *)
(* and a collection of the publishing node may have scanned before.  The   *)
(* head has two writers then: the consumer steps of LogManager are         *)
(* replaced by steps with the local copies that the code works on.         *)
(***************************************************************************)
EXTENDS LogManager

VARIABLES
  spc, st,   \* add_subscriber: control and its t, per node
  ch         \* the head that take_head or consume_head has loaded

subscribeVars == <<spc, st, ch>>
allVars       == <<vars, subscribeVars>>

SubscribeInit ==
  /\ Init
  /\ spc = [n \in Subs |-> "out"]
  /\ st = [n \in Subs |-> 0]
  /\ ch = [n \in Subs |-> 0]

SGoto(n, l) == spc' = [spc EXCEPT ![n] = l]

OtherThanSubs == <<tail, pubVars, freelist, gc_mtx, bound, prodVars, gcVars,
                   histVars>>

-----------------------------------------------------------------------------
(* add_subscriber.                                                         *)

SetSubbed(n) ==
  /\ spc[n] = "out"
  /\ ~is_subbed[n]
  /\ is_subbed' = [is_subbed EXCEPT ![n] = TRUE]
  /\ SGoto(n, "load_tail")
  /\ UNCHANGED <<OtherThanSubs, head, consVars, st, ch>>

LoadTail(n) ==
  /\ spc[n] = "load_tail"
  /\ st' = [st EXCEPT ![n] = tail]
  /\ SGoto(n, "set_head")
  /\ UNCHANGED <<OtherThanSubs, subVars, consVars, ch>>

SetHead(n) ==
  /\ spc[n] = "set_head"
  /\ head' = [head EXCEPT ![n] = st[n]]
  /\ SGoto(n, "check_tail")
  /\ UNCHANGED <<OtherThanSubs, is_subbed, consVars, st, ch>>

(* The loop goes on with the new tail if that is a round ahead.            *)
CheckTail(n) ==
  /\ spc[n] = "check_tail"
  /\ \/ /\ tail > next_round(st[n])
        /\ st' = [st EXCEPT ![n] = tail]
        /\ SGoto(n, "set_head")
     \/ /\ tail <= next_round(st[n])
        /\ UNCHANGED st
        /\ SGoto(n, "out")
  /\ UNCHANGED <<OtherThanSubs, subVars, consVars, ch>>

-----------------------------------------------------------------------------
(* The consumer: take_head loads the head and looks at that entry;         *)
(* consume_head loads the head again and stores the next.                  *)

LoadHead(n) ==
  /\ cpc[n] \in {"in", "process"}
  /\ ch' = [ch EXCEPT ![n] = head[n]]
  /\ CGoto(n, IF cpc[n] = "in" THEN "look" ELSE "consume")
  /\ UNCHANGED <<OtherThanSubs, subVars, clog, crel, spc, st>>

LookAtEntry(n) ==
  /\ cpc[n] = "look"
  /\ CGoto(n, IF pub_idx[get_idx(ch[n])] = Inc(ch[n]) THEN "taken" ELSE "off")
  /\ UNCHANGED <<OtherThanSubs, subVars, clog, crel, subscribeVars>>

ReadEntry(n) ==
  /\ cpc[n] = "taken"
  /\ clog' = [clog EXCEPT ![n] = pub_log[get_idx(ch[n])]]
  /\ crel' = [crel EXCEPT ![n] = pub_rel[get_idx(ch[n])]]
  /\ CGoto(n, "process")
  /\ UNCHANGED <<OtherThanSubs, subVars, subscribeVars>>

StoreHead(n) ==
  /\ cpc[n] = "consume"
  /\ head' = [head EXCEPT ![n] = Inc(ch[n])]
  /\ CGoto(n, "in") \/ CGoto(n, "off")
  /\ UNCHANGED <<OtherThanSubs, is_subbed, clog, crel, subscribeVars>>

-----------------------------------------------------------------------------
SubscribeNext ==
  \/ /\ \/ \E p \in Producers : Begin(p) \/ ProducerStep(p)
        \/ \E n \in Subs : Enter(n) \/ (spc[n] = "out" /\ Unsubscribe(n))
     /\ UNCHANGED subscribeVars
  \/ \E n \in Subs :
       \/ SetSubbed(n) \/ LoadTail(n) \/ SetHead(n) \/ CheckTail(n)
       \/ LoadHead(n) \/ LookAtEntry(n) \/ ReadEntry(n) \/ StoreHead(n)

SubscribeSpec == SubscribeInit /\ [][SubscribeNext]_allVars

(* What the loop of add_subscriber is for ("make sure tail does not wrap    *)
(* around the new head"): once it has returned, the tail is at most a round *)
(* ahead of the head, so that the node finds its next entry in the ring.   *)
TailBehindNewHead ==
  \A n \in Subs : is_subbed[n] /\ spc[n] = "out" => tail <= head[n] + LOG_COUNT
===============================================================================
