--------------------------- MODULE CXLBarrier_proofs --------------------------
(***************************************************************************)
(* Proofs about CXLBarrier for any number of nodes and rounds.             *)
(***************************************************************************)
EXTENDS CXLBarrier, FiniteSetTheorems, TLAPS

InWait == {"load_phase", "arrive", "compare", "reset", "advance", "poll"}

(* Start-up: what a node has done by the time it is where it is.  Only     *)
(* node 0 builds, and everybody else waits for it.                         *)
Ready == {n \in Nodes : pc[n] \notin {"build", "spin"}}

StartInv ==
  /\ \A n \in Nodes : pc[n] \in {"build", "init_barrier", "set_started"} => n = 0 /\ ~started
  /\ ~started => \A n \in Nodes : n # 0 => pc[n] = "spin"
  /\ started => target = NODE_COUNT
  /\ \A n \in Nodes : pc[n] \in {"set_started", "start_agent", "up"} \cup InWait => target = NODE_COUNT
  /\ \A n \in Nodes : pc[n] \in {"start_agent", "up"} \cup InWait => started
  /\ \A n \in Nodes : pc[n] \in {"up"} \cup InWait => n \in agent
  /\ \A n \in Ready : n \in built
  /\ \A n \in Nodes : pc[n] \notin {"up"} \cup InWait => entered[n] = 0
  /\ curr_tid = Cardinality(Ready)
  /\ \A n \in Nodes : tid[n] = -1 <=> n \notin Ready
  /\ \A n \in Nodes : tid[n] < curr_tid \/ n \notin Ready
  /\ \A n, m \in Nodes : tid[n] = tid[m] /\ tid[n] # -1 => n = m

(* The nodes that have arrived in the round after round r.                 *)
Arrived(r) == {n \in Nodes : entered[n] = r + 1 /\ pc[n] \in {"compare", "reset", "advance", "poll"}}

(* r rounds are complete.                                                  *)
RoundInv(r) ==
  /\ \A n \in Nodes :
       /\ left[n] <= r /\ entered[n] >= r
       /\ entered[n] = left[n] + (IF pc[n] \in InWait THEN 1 ELSE 0)
       /\ pc[n] \in InWait /\ entered[n] = r =>
            pc[n] \in {"compare", "poll"} /\ local_arrived[n] < NODE_COUNT
       /\ pc[n] \in InWait \ {"load_phase"} /\ entered[n] = r + 1 =>
            local_phase[n] = Char(phase)
  /\ arrived = IF \E n \in Nodes : pc[n] = "advance" THEN 0 ELSE Cardinality(Arrived(r))

(* Only the last to arrive, and nobody before it, finds the count full.     *)
LastInv(r) ==
  /\ \A n \in Arrived(r) :
       /\ local_arrived[n] <= Cardinality(Arrived(r))
       /\ pc[n] \in {"reset", "advance"} => local_arrived[n] = NODE_COUNT
       /\ pc[n] = "poll" => local_arrived[n] < NODE_COUNT
  /\ \A n, m \in Arrived(r) : local_arrived[n] = NODE_COUNT /\ local_arrived[m] = NODE_COUNT => n = m

(* What the clocks cover.                                                  *)
SeenInv(r) ==
  /\ \A n \in Nodes :
       /\ seen[n][n] = entered[n]
       /\ arrived_seen[n] <= entered[n] /\ phase_seen[n] <= entered[n]
       /\ phase_seen[n] >= r
       /\ n \in Arrived(r) => arrived_seen[n] = r + 1
  /\ \A n, m \in Nodes :
       /\ seen[n][m] <= entered[m]
       /\ seen[n][m] >= left[n]
       /\ n \in Arrived(r) /\ local_arrived[n] = NODE_COUNT => seen[n][m] = r + 1

BarrierInv == StartInv /\ \E r \in 0 .. MaxRounds : RoundInv(r) /\ LastInv(r) /\ SeenInv(r)

IInv == TypeOK /\ BarrierInv

-----------------------------------------------------------------------------
(* Numbers.                                                                *)

(* Small values survive the conversion, and its results are in range.      *)
LEMMA SignedSmall ==
  ASSUME NEW max \in Nat, NEW v \in Nat, v <= max
  PROVE  Signed(v, max) = v
<1>1. v % (2 * (max + 1)) = v
  <2>1. PICK m \in Nat : m = 2 * (max + 1) /\ v < m /\ m > 0
    <3>1. 2 * (max + 1) \in Nat /\ v < 2 * (max + 1) /\ 2 * (max + 1) > 0
      OBVIOUS
    <3>2. QED
      BY <3>1
  <2>2. v % m = v
    BY <2>1
  <2>3. QED
    BY <2>1, <2>2
<1>2. QED
  BY <1>1 DEF Signed

LEMMA SignedRange ==
  ASSUME NEW max \in Nat, NEW v \in Int
  PROVE  Signed(v, max) \in -(max + 1) .. max
<1>1. PICK w \in Int : w = v % (2 * (max + 1)) /\ 0 <= w /\ w < 2 * (max + 1)
  <2>1. PICK m \in Nat : m = 2 * (max + 1) /\ m > 0
    OBVIOUS
  <2>2. v % m \in Int /\ 0 <= v % m /\ v % m < m
    BY <2>1
  <2>3. QED
    BY <2>1, <2>2
<1>2. Signed(v, max) = IF w > max THEN w - 2 * (max + 1) ELSE w
  BY <1>1 DEF Signed
<1>3. QED
  BY <1>1, <1>2

LEMMA Values ==
  /\ \A v \in Int : Char(v) \in Ints /\ Char(v) \in Int
  /\ \A v \in Int : Plus(v, 1) \in Ints
  /\ \A v \in 0 .. NODE_COUNT - 1 : Char(v) = v /\ Plus(v, 1) = v + 1
<1>1. /\ SCHAR_MAX \in Nat /\ INT_MAX \in Nat /\ SCHAR_MAX < INT_MAX
      /\ NODE_COUNT \in Nat /\ NODE_COUNT - 1 <= SCHAR_MAX
  BY CXLBarrierAssumption
<1>2. ASSUME NEW v \in Int PROVE Char(v) \in Ints /\ Char(v) \in Int
  <2>1. Signed(v, SCHAR_MAX) \in -(SCHAR_MAX + 1) .. SCHAR_MAX
    BY <1>1, SignedRange
  <2>2. QED
    BY <1>1, <2>1 DEF Char, Ints
<1>3. ASSUME NEW v \in Int PROVE Plus(v, 1) \in Ints
  <2>1. v + 1 \in Int
    OBVIOUS
  <2>2. Signed(v + 1, INT_MAX) \in -(INT_MAX + 1) .. INT_MAX
    BY <1>1, <2>1, SignedRange
  <2>3. QED
    BY <2>2 DEF Plus, Ints
<1>4. ASSUME NEW v \in 0 .. NODE_COUNT - 1 PROVE Char(v) = v /\ Plus(v, 1) = v + 1
  <2>1. v \in Nat /\ v <= SCHAR_MAX /\ v + 1 \in Nat /\ v + 1 <= INT_MAX
    BY <1>1
  <2>2. Signed(v, SCHAR_MAX) = v
    BY <1>1, <2>1, SignedSmall
  <2>3. Signed(v + 1, INT_MAX) = v + 1
    BY <1>1, <2>1, SignedSmall
  <2>4. QED
    BY <2>2, <2>3 DEF Char, Plus
<1>5. QED
  BY <1>2, <1>3, <1>4

(* Counting nodes.                                                         *)
LEMMA CountNodes ==
  ASSUME NEW S \in SUBSET Nodes
  PROVE  /\ IsFiniteSet(S) /\ Cardinality(S) \in 0 .. NODE_COUNT
         /\ Cardinality(S) = NODE_COUNT => S = Nodes
         /\ \A n \in Nodes : n \notin S =>
              Cardinality(S) < NODE_COUNT /\ Cardinality(S \cup {n}) = Cardinality(S) + 1
<1>1. NODE_COUNT \in Nat /\ 0 \in Int /\ NODE_COUNT - 1 \in Int /\ ~(0 > NODE_COUNT - 1)
  BY CXLBarrierAssumption
<1>2. IsFiniteSet(Nodes) /\ Cardinality(Nodes) = NODE_COUNT
  <2>1. /\ IsFiniteSet(0 .. NODE_COUNT - 1)
        /\ Cardinality(0 .. NODE_COUNT - 1) = (NODE_COUNT - 1) - 0 + 1
    BY <1>1, FS_Interval
  <2>2. QED
    BY <1>1, <2>1 DEF Nodes
<1>3. IsFiniteSet(S) /\ Cardinality(S) <= NODE_COUNT /\ (NODE_COUNT = Cardinality(S) => S = Nodes)
  BY <1>2, FS_Subset
<1>4. Cardinality(S) \in Nat
  BY <1>3, FS_CardinalityType
<1>5. \A n \in Nodes : n \notin S => Cardinality(S \cup {n}) = Cardinality(S) + 1
  BY <1>3, FS_AddElement
<1>6. \A n \in Nodes : n \notin S => Cardinality(S) # NODE_COUNT
  BY <1>3
<1>7. QED
  BY <1>1, <1>3, <1>4, <1>5, <1>6

-----------------------------------------------------------------------------
(* Start-up.                                                               *)

Labels == {"build", "init_barrier", "set_started", "spin", "start_agent", "up",
           "load_phase", "arrive", "compare", "reset", "advance", "poll"}

InRound(r) == RoundInv(r) /\ LastInv(r) /\ SeenInv(r)

LEMMA LabelsKept ==
  ASSUME pc \in [Nodes -> Labels], NEW n \in Nodes, NEW l \in Labels, Goto(n, l)
  PROVE  pc' \in [Nodes -> Labels] /\ pc'[n] = l /\ \A m \in Nodes : m # n => pc'[m] = pc[m]
BY DEF Goto

(* A node outside wait() moves within rac_init: the rounds do not notice.   *)
LEMMA StartKeepsRound ==
  ASSUME pc \in [Nodes -> Labels], NEW n \in Nodes, NEW l \in Labels \ InWait, Goto(n, l),
         pc[n] \notin InWait, BarrierUnused,
         \/ UNCHANGED <<arrived, phase>>
         \/ arrived' = 0 /\ \A m \in Nodes : pc[m] \notin InWait,
         NEW r \in Nat, InRound(r)
  PROVE  InRound(r)'
<1>0. UNCHANGED <<local_phase, local_arrived, entered, left, seen, arrived_seen, phase_seen>>
  BY DEF BarrierUnused
<1>1. pc'[n] = l /\ \A m \in Nodes : m # n => pc'[m] = pc[m]
  BY LabelsKept
<1>2. {"compare", "reset", "advance", "poll"} \subseteq InWait
  BY DEF InWait
<1>3. Arrived(r)' = Arrived(r)
  BY <1>0, <1>1, <1>2 DEF Arrived
<1>4. (\E m \in Nodes : pc'[m] = "advance") <=> \E m \in Nodes : pc[m] = "advance"
  BY <1>1, <1>2
<1>5. arrived' = IF \E m \in Nodes : pc'[m] = "advance" THEN 0 ELSE Cardinality(Arrived(r)')
  <2>1. CASE UNCHANGED <<arrived, phase>>
    BY <2>1, <1>3, <1>4 DEF InRound, RoundInv
  <2>2. CASE arrived' = 0 /\ \A m \in Nodes : pc[m] \notin InWait
    <3>1. Arrived(r) = {}
      BY <2>2, <1>2 DEF Arrived
    <3>2. QED
      BY <2>2, <3>1, <1>3, FS_EmptySet
  <2>3. QED
    BY <2>1, <2>2
<1>6. \A m \in Nodes : pc'[m] \in InWait => pc[m] \in InWait /\ pc'[m] = pc[m] /\ UNCHANGED phase
  BY <1>1
<1>7. RoundInv(r)'
  <2>1. \A m \in Nodes : pc'[m] \in InWait <=> pc[m] \in InWait
    BY <1>1
  <2>2. QED
    BY <1>0, <1>5, <1>6, <2>1 DEF InRound, RoundInv
<1>8. LastInv(r)'
  <2>1. \A m \in Arrived(r) : pc'[m] = pc[m]
    BY <1>1, <1>2 DEF Arrived
  <2>2. QED
    BY <1>0, <1>3, <2>1 DEF InRound, LastInv
<1>9. SeenInv(r)'
  BY <1>0, <1>3 DEF InRound, SeenInv
<1>10. QED
  BY <1>7, <1>8, <1>9 DEF InRound

LEMMA BuildLogStep ==
  ASSUME TypeOK, StartInv, NEW n \in Nodes, BuildLog(n)
  PROVE  TypeOK' /\ StartInv'
<1>0. /\ pc \in [Nodes -> Labels] /\ tid \in [Nodes -> Nodes \cup {-1}]
      /\ built \subseteq Nodes /\ NODE_COUNT \in Nat /\ NODE_COUNT > 0 /\ 0 \in Nodes
  <2>1. NODE_COUNT \in Nat /\ NODE_COUNT > 0 /\ 0 \in Nodes
    BY CXLBarrierAssumption DEF Nodes
  <2>2. QED
    BY <2>1 DEF TypeOK, Labels
<1>1. /\ pc[n] = "build" /\ built' = built \cup {n} /\ curr_tid' = 1
      /\ tid' = [tid EXCEPT ![n] = 0] /\ Goto(n, "init_barrier")
      /\ UNCHANGED <<started, agent, target, arrived, phase>>
      /\ UNCHANGED <<local_phase, local_arrived, entered, left, seen, arrived_seen, phase_seen>>
  BY DEF BuildLog, BarrierUnused, valueVars
<1>2. /\ pc' \in [Nodes -> Labels] /\ pc'[n] = "init_barrier"
      /\ \A m \in Nodes : m # n => pc'[m] = pc[m]
  BY <1>0, <1>1, LabelsKept DEF Labels
<1>3. n = 0 /\ ~started /\ \A m \in Nodes : m # n => pc[m] = "spin"
  BY <1>1 DEF StartInv
<1>4. Ready = {} /\ Ready' = {n}
  BY <1>1, <1>2, <1>3 DEF Ready
<1>5. Cardinality(Ready') = 1
  BY <1>4, FS_Singleton
<1>6. /\ tid' \in [Nodes -> Nodes \cup {-1}] /\ tid'[n] = 0
      /\ \A m \in Nodes : m # n => tid'[m] = -1
  BY <1>0, <1>1, <1>3, <1>4 DEF StartInv
<1>7. TypeOK'
  BY <1>0, <1>1, <1>2, <1>6 DEF TypeOK, Labels
<1>8. StartInv'
  BY <1>1, <1>2, <1>3, <1>4, <1>5, <1>6 DEF StartInv, InWait
<1>9. QED
  BY <1>7, <1>8

LEMMA BuildBarrierStep ==
  ASSUME TypeOK, StartInv, NEW n \in Nodes, BuildBarrier(n)
  PROVE  /\ TypeOK' /\ StartInv'
         /\ arrived' = 0 /\ \A m \in Nodes : pc[m] \notin InWait
<1>0. pc \in [Nodes -> Labels] /\ NODE_COUNT \in Nat /\ INT_MAX \in Nat /\ 0 \in Nodes
  BY CXLBarrierAssumption DEF TypeOK, Labels, Nodes
<1>1. /\ pc[n] = "init_barrier" /\ Goto(n, "set_started")
      /\ target' = NODE_COUNT /\ arrived' = 0 /\ phase' = 0
      /\ UNCHANGED <<started, curr_tid, built, tid, agent>>
      /\ UNCHANGED <<local_phase, local_arrived, entered, left, seen, arrived_seen, phase_seen>>
  BY DEF BuildBarrier, BarrierUnused, startVars, metaVars
<1>2. /\ pc' \in [Nodes -> Labels] /\ pc'[n] = "set_started"
      /\ \A m \in Nodes : m # n => pc'[m] = pc[m]
  BY <1>0, <1>1, LabelsKept DEF Labels
<1>3. n = 0 /\ ~started /\ \A m \in Nodes : m # n => pc[m] = "spin"
  BY <1>1 DEF StartInv
<1>4. Ready' = Ready
  BY <1>1, <1>2 DEF Ready
<1>5. 0 \in Ints
  BY <1>0 DEF Ints
<1>6. TypeOK'
  BY <1>0, <1>1, <1>2, <1>5 DEF TypeOK, Labels
<1>7. StartInv'
  BY <1>1, <1>2, <1>3, <1>4 DEF StartInv, InWait
<1>8. \A m \in Nodes : pc[m] \notin InWait
  BY <1>1, <1>3 DEF InWait
<1>9. QED
  BY <1>1, <1>6, <1>7, <1>8

LEMMA SetStartedStep ==
  ASSUME TypeOK, StartInv, NEW n \in Nodes, SetStarted(n)
  PROVE  TypeOK' /\ StartInv'
<1>0. pc \in [Nodes -> Labels]
  BY DEF TypeOK, Labels
<1>1. /\ pc[n] = "set_started" /\ Goto(n, "start_agent") /\ started' = TRUE
      /\ UNCHANGED <<curr_tid, built, tid, agent, target, arrived, phase>>
      /\ UNCHANGED <<local_phase, local_arrived, entered, left, seen, arrived_seen, phase_seen>>
  BY DEF SetStarted, BarrierUnused, valueVars
<1>2. /\ pc' \in [Nodes -> Labels] /\ pc'[n] = "start_agent"
      /\ \A m \in Nodes : m # n => pc'[m] = pc[m]
  BY <1>0, <1>1, LabelsKept DEF Labels
<1>3. n = 0 /\ ~started /\ \A m \in Nodes : m # n => pc[m] = "spin"
  BY <1>1 DEF StartInv
<1>4. Ready' = Ready
  BY <1>1, <1>2 DEF Ready
<1>5. TypeOK'
  BY <1>1, <1>2 DEF TypeOK, Labels
<1>6. StartInv'
  BY <1>1, <1>2, <1>3, <1>4 DEF StartInv, InWait
<1>7. QED
  BY <1>5, <1>6

LEMMA JoinStep ==
  ASSUME TypeOK, StartInv, NEW n \in Nodes, Join(n)
  PROVE  TypeOK' /\ StartInv'
<1>0. /\ pc \in [Nodes -> Labels] /\ tid \in [Nodes -> Nodes \cup {-1}]
      /\ built \subseteq Nodes /\ NODE_COUNT \in Nat
  BY CXLBarrierAssumption DEF TypeOK, Labels
<1>1. /\ pc[n] = "spin" /\ started /\ built' = built \cup {n} /\ curr_tid' = curr_tid + 1
      /\ tid' = [tid EXCEPT ![n] = curr_tid] /\ Goto(n, "start_agent")
      /\ UNCHANGED <<started, agent, target, arrived, phase>>
      /\ UNCHANGED <<local_phase, local_arrived, entered, left, seen, arrived_seen, phase_seen>>
  BY DEF Join, MayJoin, BarrierUnused, valueVars
<1>2. /\ pc' \in [Nodes -> Labels] /\ pc'[n] = "start_agent"
      /\ \A m \in Nodes : m # n => pc'[m] = pc[m]
  BY <1>0, <1>1, LabelsKept DEF Labels
<1>3. Ready' = Ready \cup {n} /\ n \notin Ready /\ Ready \subseteq Nodes
  BY <1>1, <1>2 DEF Ready
<1>4. /\ curr_tid = Cardinality(Ready) /\ curr_tid \in 0 .. NODE_COUNT /\ curr_tid < NODE_COUNT
      /\ Cardinality(Ready') = curr_tid + 1
  BY <1>3, CountNodes DEF StartInv
<1>5. curr_tid \in Nodes /\ curr_tid # -1 /\ curr_tid + 1 \in 0 .. NODE_COUNT
  BY <1>0, <1>4 DEF Nodes
<1>6. /\ tid' \in [Nodes -> Nodes \cup {-1}] /\ tid'[n] = curr_tid
      /\ \A m \in Nodes : m # n => tid'[m] = tid[m]
  BY <1>0, <1>1, <1>5
<1>7. TypeOK'
  BY <1>0, <1>1, <1>2, <1>5, <1>6 DEF TypeOK, Labels
<1>8. \A m \in Nodes : tid[m] < curr_tid \/ tid[m] = -1
  BY DEF StartInv
<1>9. \A m \in Nodes : tid[m] # curr_tid /\ tid[m] \in Int
  BY <1>0, <1>4, <1>5, <1>8 DEF Nodes
<1>10. \A m, k \in Nodes : tid'[m] = tid'[k] /\ tid'[m] # -1 => m = k
  BY <1>6, <1>9 DEF StartInv
<1>11. \A m \in Nodes : /\ tid'[m] = -1 <=> m \notin Ready'
                        /\ tid'[m] < curr_tid' \/ m \notin Ready'
  <2> SUFFICES ASSUME NEW m \in Nodes
               PROVE /\ tid'[m] = -1 <=> m \notin Ready'
                     /\ tid'[m] < curr_tid' \/ m \notin Ready'
    OBVIOUS
  <2>1. CASE m = n
    BY <2>1, <1>1, <1>3, <1>4, <1>5, <1>6
  <2>2. CASE m # n
    <3>1. tid'[m] = tid[m] /\ (m \in Ready' <=> m \in Ready)
      BY <2>2, <1>3, <1>6
    <3>2. tid[m] < curr_tid => tid[m] < curr_tid + 1
      BY <1>4, <1>9
    <3>3. QED
      BY <3>1, <3>2, <1>1 DEF StartInv
  <2>3. QED
    BY <2>1, <2>2
<1>12. started => target = NODE_COUNT
  BY DEF StartInv
<1>13. \A m \in Ready' : m \in built'
  BY <1>1, <1>3 DEF StartInv
<1>14. StartInv'
  BY <1>1, <1>2, <1>4, <1>10, <1>11, <1>12, <1>13 DEF StartInv, InWait
<1>15. QED
  BY <1>7, <1>14

LEMMA StartAgentStep ==
  ASSUME TypeOK, StartInv, NEW n \in Nodes, StartAgent(n)
  PROVE  TypeOK' /\ StartInv'
<1>0. pc \in [Nodes -> Labels]
  BY DEF TypeOK, Labels
<1>1. /\ pc[n] = "start_agent" /\ Goto(n, "up") /\ agent' = agent \cup {n}
      /\ UNCHANGED <<started, curr_tid, built, tid, target, arrived, phase>>
      /\ UNCHANGED <<local_phase, local_arrived, entered, left, seen, arrived_seen, phase_seen>>
  BY DEF StartAgent, BarrierUnused, valueVars, metaVars
<1>2. /\ pc' \in [Nodes -> Labels] /\ pc'[n] = "up"
      /\ \A m \in Nodes : m # n => pc'[m] = pc[m]
  BY <1>0, <1>1, LabelsKept DEF Labels
<1>3. Ready' = Ready
  BY <1>1, <1>2 DEF Ready
<1>4. TypeOK'
  BY <1>1, <1>2 DEF TypeOK, Labels
<1>5. StartInv'
  BY <1>1, <1>2, <1>3 DEF StartInv, InWait
<1>6. QED
  BY <1>4, <1>5

-----------------------------------------------------------------------------
(* wait().                                                                 *)

(* The types that the steps of wait() need, and what it leaves alone.       *)
LEMMA Types ==
  ASSUME TypeOK
  PROVE  /\ pc \in [Nodes -> Labels]
         /\ local_phase \in [Nodes -> Ints]
         /\ local_arrived \in [Nodes -> 0 .. NODE_COUNT]
         /\ entered \in [Nodes -> 0 .. MaxRounds] /\ left \in [Nodes -> 0 .. MaxRounds]
         /\ seen \in [Nodes -> [Nodes -> 0 .. MaxRounds]]
         /\ arrived_seen \in [Nodes -> 0 .. MaxRounds]
         /\ phase_seen \in [Nodes -> 0 .. MaxRounds]
         /\ NODE_COUNT \in Nat /\ NODE_COUNT > 0 /\ MaxRounds \in Nat
         /\ phase \in Ints /\ phase \in Int /\ arrived \in 0 .. NODE_COUNT
<1>1. NODE_COUNT \in Nat /\ NODE_COUNT > 0 /\ MaxRounds \in Nat /\ INT_MAX \in Nat
  BY CXLBarrierAssumption
<1>2. phase \in Ints /\ phase \in Int
  BY <1>1 DEF TypeOK, Ints
<1>3. arrived \in 0 .. NODE_COUNT
  BY <1>1 DEF TypeOK, Nodes
<1>4. QED
  BY <1>1, <1>2, <1>3 DEF TypeOK, Labels

LEMMA WaitKeepsStart ==
  ASSUME pc \in [Nodes -> Labels], StartInv, NEW n \in Nodes,
         NEW l \in {"up"} \cup InWait, Goto(n, l),
         pc[n] \in {"up"} \cup InWait,
         UNCHANGED <<started, curr_tid, built, tid, agent, target>>,
         \A m \in Nodes : m # n => entered'[m] = entered[m]
  PROVE  StartInv'
<1>1. l \in Labels
  BY DEF InWait, Labels
<1>2. pc'[n] = l /\ \A m \in Nodes : m # n => pc'[m] = pc[m]
  BY <1>1, LabelsKept
<1>3. Ready' = Ready
  BY <1>2 DEF Ready, InWait
<1>4. QED
  BY <1>2, <1>3 DEF StartInv, InWait

(* Where the nodes are when r rounds are complete.                         *)
LEMMA Standing ==
  ASSUME TypeOK, NEW r \in 0 .. MaxRounds, InRound(r), NEW n \in Nodes
  PROVE  /\ entered[n] \in Nat /\ left[n] \in Nat /\ r \in Nat
         /\ left[n] <= r /\ entered[n] >= r
         /\ pc[n] \in InWait => entered[n] = left[n] + 1 /\ entered[n] \in {r, r + 1}
         /\ pc[n] \notin InWait => entered[n] = r /\ left[n] = r
         /\ pc[n] \in {"load_phase", "arrive", "reset", "advance"} => entered[n] = r + 1
<1>1. /\ entered[n] \in Nat /\ left[n] \in Nat /\ r \in Nat
      /\ left[n] <= r /\ entered[n] >= r
  BY Types DEF InRound, RoundInv
<1>2. pc[n] \in InWait => entered[n] = left[n] + 1
  BY DEF InRound, RoundInv
<1>3. pc[n] \notin InWait => entered[n] = left[n]
  BY <1>1 DEF InRound, RoundInv
<1>4. pc[n] \in InWait => entered[n] \in {r, r + 1}
  BY <1>1, <1>2
<1>5. pc[n] \in {"load_phase", "arrive", "reset", "advance"} => entered[n] # r
  BY DEF InRound, RoundInv, InWait
<1>6. pc[n] \in {"load_phase", "arrive", "reset", "advance"} => pc[n] \in InWait
  BY DEF InWait
<1>7. QED
  BY <1>1, <1>2, <1>3, <1>4, <1>5, <1>6

(* The thread of a node calls wait(): its own call is the first it sees.    *)
LEMMA WaitStep ==
  ASSUME TypeOK, StartInv, NEW r \in 0 .. MaxRounds, InRound(r), NEW n \in Nodes, Wait(n)
  PROVE  TypeOK' /\ StartInv' /\ InRound(r)'
<1>0. /\ pc[n] = "up" /\ entered[n] < MaxRounds /\ Goto(n, "load_phase")
      /\ entered' = [entered EXCEPT ![n] = @ + 1]
      /\ seen' = [seen EXCEPT ![n][n] = entered[n] + 1]
      /\ UNCHANGED <<started, curr_tid, built, tid, agent, target, arrived, phase, local_phase,
                     local_arrived, left, arrived_seen, phase_seen>>
  BY DEF Wait, startVars, metaVars, valueVars
<1>1. /\ pc' \in [Nodes -> Labels] /\ pc'[n] = "load_phase"
      /\ \A m \in Nodes : m # n => pc'[m] = pc[m]
  BY <1>0, Types, LabelsKept DEF Labels
<1>2. /\ entered'[n] = entered[n] + 1 /\ \A m \in Nodes : m # n => entered'[m] = entered[m]
      /\ entered' \in [Nodes -> 0 .. MaxRounds] /\ entered[n] + 1 \in 0 .. MaxRounds
  BY <1>0, Types
<1>3. /\ seen' \in [Nodes -> [Nodes -> 0 .. MaxRounds]] /\ seen'[n][n] = entered[n] + 1
      /\ \A m, k \in Nodes : m # n \/ k # n => seen'[m][k] = seen[m][k]
  BY <1>0, <1>2, Types
<1>4. TypeOK'
  BY <1>0, <1>1, <1>2, <1>3 DEF TypeOK, Labels
<1>5. StartInv'
  BY <1>0, <1>2, Types, WaitKeepsStart DEF InWait
<1>6. entered[n] = r /\ left[n] = r /\ r \in Nat
  BY <1>0, Standing DEF InWait
<1>7. Arrived(r)' = Arrived(r) /\ n \notin Arrived(r)
  BY <1>0, <1>1, <1>2 DEF Arrived
<1>8. (\E m \in Nodes : pc'[m] = "advance") <=> \E m \in Nodes : pc[m] = "advance"
  BY <1>0, <1>1
<1>9. RoundInv(r)'
  <2>1. arrived' = IF \E m \in Nodes : pc'[m] = "advance" THEN 0 ELSE Cardinality(Arrived(r)')
    BY <1>0, <1>7, <1>8 DEF InRound, RoundInv
  <2>2. ASSUME NEW m \in Nodes
        PROVE  /\ left'[m] <= r /\ entered'[m] >= r
               /\ entered'[m] = left'[m] + (IF pc'[m] \in InWait THEN 1 ELSE 0)
               /\ pc'[m] \in InWait /\ entered'[m] = r =>
                    pc'[m] \in {"compare", "poll"} /\ local_arrived'[m] < NODE_COUNT
               /\ pc'[m] \in InWait \ {"load_phase"} /\ entered'[m] = r + 1 =>
                    local_phase'[m] = Char(phase)
    <3>1. CASE m = n
      BY <3>1, <1>0, <1>1, <1>2, <1>6 DEF InWait
    <3>2. CASE m # n
      BY <3>2, <1>0, <1>1, <1>2 DEF InRound, RoundInv
    <3>3. QED
      BY <3>1, <3>2
  <2>3. Char(phase)' = Char(phase)
    BY <1>0 DEF Char, Signed
  <2>4. QED
    BY <2>1, <2>2, <2>3 DEF RoundInv
<1>10. LastInv(r)'
  <2>1. \A m \in Arrived(r) : pc'[m] = pc[m]
    BY <1>1, <1>7 DEF Arrived
  <2>2. QED
    BY <1>0, <1>7, <2>1 DEF InRound, LastInv
<1>11. SeenInv(r)'
  <2>1. ASSUME NEW m \in Nodes
        PROVE  /\ seen'[m][m] = entered'[m]
               /\ arrived_seen'[m] <= entered'[m] /\ phase_seen'[m] <= entered'[m]
               /\ phase_seen'[m] >= r
               /\ m \in Arrived(r)' => arrived_seen'[m] = r + 1
    <3>1. /\ seen[m][m] = entered[m] /\ arrived_seen[m] <= entered[m] /\ phase_seen[m] <= entered[m]
          /\ phase_seen[m] >= r /\ (m \in Arrived(r) => arrived_seen[m] = r + 1)
          /\ arrived_seen[m] \in Nat /\ phase_seen[m] \in Nat /\ entered[m] \in Nat
      BY Types DEF InRound, SeenInv
    <3>2. QED
      BY <3>1, <1>0, <1>2, <1>3, <1>7
  <2>2. ASSUME NEW m \in Nodes, NEW k \in Nodes
        PROVE  /\ seen'[m][k] <= entered'[k]
               /\ seen'[m][k] >= left'[m]
               /\ m \in Arrived(r)' /\ local_arrived'[m] = NODE_COUNT => seen'[m][k] = r + 1
    <3>1. /\ seen[m][k] <= entered[k] /\ seen[m][k] >= left[m]
          /\ (m \in Arrived(r) /\ local_arrived[m] = NODE_COUNT => seen[m][k] = r + 1)
          /\ seen[m][k] \in Nat /\ left[m] \in Nat /\ entered[k] \in Nat
      BY Types DEF InRound, SeenInv
    <3>2. CASE m = n /\ k = n
      BY <3>2, <1>0, <1>2, <1>3, <1>6, <1>7
    <3>3. CASE m # n \/ k # n
      BY <3>1, <3>3, <1>0, <1>2, <1>3, <1>7
    <3>4. QED
      BY <3>2, <3>3
  <2>3. QED
    BY <2>1, <2>2 DEF SeenInv
<1>12. QED
  BY <1>4, <1>5, <1>9, <1>10, <1>11 DEF InRound

LEMMA MergeAt ==
  ASSUME NEW u \in [Nodes -> 0 .. MaxRounds], NEW v \in [Nodes -> 0 .. MaxRounds], MaxRounds \in Nat
  PROVE  /\ Merge(u, v) \in [Nodes -> 0 .. MaxRounds]
         /\ \A m \in Nodes : /\ Merge(u, v)[m] >= u[m] /\ Merge(u, v)[m] >= v[m]
                              /\ (Merge(u, v)[m] = u[m] \/ Merge(u, v)[m] = v[m])
BY DEF Merge

(* A node acquires a clock that names calls that have begun.                *)
LEMMA Acquire ==
  ASSUME TypeOK, NEW r \in 0 .. MaxRounds, InRound(r), NEW n \in Nodes,
         NEW c \in [Nodes -> 0 .. MaxRounds], \A m \in Nodes : c[m] <= entered[m],
         seen' = [seen EXCEPT ![n] = Merge(seen[n], c)]
  PROVE  /\ seen' \in [Nodes -> [Nodes -> 0 .. MaxRounds]]
         /\ \A m, k \in Nodes : m # n => seen'[m][k] = seen[m][k]
         /\ \A m \in Nodes : seen'[n][m] >= seen[n][m] /\ seen'[n][m] >= c[m]
         /\ \A m \in Nodes : seen'[m][m] = entered[m]
         /\ \A m, k \in Nodes : seen'[m][k] <= entered[k]
         /\ \A m, k \in Nodes : seen[m][k] \in Nat /\ seen'[m][k] \in Nat /\ seen'[m][k] >= seen[m][k]
<1>1. /\ seen \in [Nodes -> [Nodes -> 0 .. MaxRounds]] /\ entered \in [Nodes -> 0 .. MaxRounds]
      /\ MaxRounds \in Nat
  BY Types
<1>2. /\ \A m \in Nodes : seen[m][m] = entered[m]
      /\ \A m, k \in Nodes : seen[m][k] <= entered[k]
  BY DEF InRound, SeenInv
<1>3. PICK d \in [Nodes -> 0 .. MaxRounds] :
        /\ d = Merge(seen[n], c)
        /\ \A m \in Nodes : d[m] >= seen[n][m] /\ d[m] >= c[m] /\ (d[m] = seen[n][m] \/ d[m] = c[m])
  BY <1>1, MergeAt
<1>4. seen'[n] = d /\ (\A m \in Nodes : m # n => seen'[m] = seen[m])
      /\ seen' \in [Nodes -> [Nodes -> 0 .. MaxRounds]]
  BY <1>1, <1>3
<1>5. \A m \in Nodes : d[m] <= entered[m]
  BY <1>1, <1>2, <1>3
<1>6. d[n] = entered[n]
  <2>1. d[n] \in Nat /\ entered[n] \in Nat
    BY <1>1
  <2>2. d[n] >= entered[n] /\ d[n] <= entered[n]
    BY <1>2, <1>3, <1>5
  <2>3. QED
    BY <2>1, <2>2
<1>7. \A m, k \in Nodes : seen[m][k] \in Nat /\ seen'[m][k] \in Nat
  BY <1>1, <1>4
<1>8. \A m, k \in Nodes : seen'[m][k] >= seen[m][k]
  BY <1>1, <1>3, <1>4
<1>9. QED
  BY <1>2, <1>3, <1>4, <1>5, <1>6, <1>7, <1>8

(* Steps of wait() that let nobody arrive or leave.                         *)
LEMMA SameRound ==
  ASSUME TypeOK, NEW r \in 0 .. MaxRounds, InRound(r), NEW n \in Nodes,
         NEW l \in InWait, Goto(n, l), pc[n] \in InWait,
         UNCHANGED <<phase, local_arrived, entered, left, arrived_seen, phase_seen>>,
         \A m \in Nodes : m # n => local_phase'[m] = local_phase[m],
         l # "load_phase" /\ entered[n] = r + 1 => local_phase'[n] = Char(phase),
         entered[n] = r => l \in {"compare", "poll"},
         Arrived(r)' = Arrived(r),
         arrived' = IF \E m \in Nodes : pc'[m] = "advance" THEN 0 ELSE Cardinality(Arrived(r)),
         l \in {"reset", "advance"} => local_arrived[n] = NODE_COUNT,
         l = "poll" => local_arrived[n] < NODE_COUNT,
         \A m \in Nodes : seen'[m][m] = entered[m],
         \A m, k \in Nodes : seen'[m][k] <= entered[k] /\ seen'[m][k] >= seen[m][k]
                             /\ seen'[m][k] \in Nat
  PROVE  InRound(r)'
<1>1. /\ pc'[n] = l /\ (\A m \in Nodes : m # n => pc'[m] = pc[m])
  BY Types, LabelsKept DEF InWait, Labels
<1>2. Char(phase)' = Char(phase)
  BY DEF Char, Signed
<1>3. RoundInv(r)'
  <2>1. ASSUME NEW m \in Nodes
        PROVE  /\ left'[m] <= r /\ entered'[m] >= r
               /\ entered'[m] = left'[m] + (IF pc'[m] \in InWait THEN 1 ELSE 0)
               /\ pc'[m] \in InWait /\ entered'[m] = r =>
                    pc'[m] \in {"compare", "poll"} /\ local_arrived'[m] < NODE_COUNT
               /\ pc'[m] \in InWait \ {"load_phase"} /\ entered'[m] = r + 1 =>
                    local_phase'[m] = Char(phase)
    <3>1. CASE m = n
      BY <3>1, <1>1 DEF InRound, RoundInv
    <3>2. CASE m # n
      BY <3>2, <1>1 DEF InRound, RoundInv
    <3>3. QED
      BY <3>1, <3>2
  <2>2. QED
    BY <2>1, <1>2 DEF RoundInv
<1>4. LastInv(r)'
  <2>1. \A m \in Arrived(r) : m \in Nodes
    BY DEF Arrived
  <2>2. \A m \in Arrived(r) :
          /\ local_arrived'[m] <= Cardinality(Arrived(r))
          /\ pc'[m] \in {"reset", "advance"} => local_arrived'[m] = NODE_COUNT
          /\ pc'[m] = "poll" => local_arrived'[m] < NODE_COUNT
    BY <2>1, <1>1 DEF InRound, LastInv
  <2>3. QED
    BY <2>2 DEF InRound, LastInv
<1>5. SeenInv(r)'
  <2>1. \A m, k \in Nodes : /\ seen'[m][k] >= left[m]
                            /\ m \in Arrived(r) /\ local_arrived[m] = NODE_COUNT => seen'[m][k] = r + 1
    <3> SUFFICES ASSUME NEW m \in Nodes, NEW k \in Nodes
                 PROVE  /\ seen'[m][k] >= left[m]
                        /\ m \in Arrived(r) /\ local_arrived[m] = NODE_COUNT => seen'[m][k] = r + 1
      OBVIOUS
    <3>1. /\ seen[m][k] \in Nat /\ left[m] \in Nat /\ seen[m][k] >= left[m]
          /\ (m \in Arrived(r) /\ local_arrived[m] = NODE_COUNT => seen[m][k] = r + 1)
      BY Types DEF InRound, SeenInv
    <3>2. seen'[m][k] >= seen[m][k] /\ seen'[m][k] \in Nat /\ seen'[m][k] <= entered[k]
      OBVIOUS
    <3>3. entered[k] \in Nat /\ entered[k] <= r + 1 /\ r \in Nat
      BY Standing
    <3>4. QED
      BY <3>1, <3>2, <3>3
  <2>2. QED
    BY <2>1 DEF InRound, SeenInv
<1>6. QED
  BY <1>3, <1>4, <1>5 DEF InRound

LEMMA ReadPhaseStep ==
  ASSUME TypeOK, StartInv, NEW r \in 0 .. MaxRounds, InRound(r), NEW n \in Nodes, ReadPhase(n)
  PROVE  TypeOK' /\ StartInv' /\ InRound(r)'
<1>0. /\ pc[n] = "load_phase" /\ Goto(n, "arrive")
      /\ local_phase' = [local_phase EXCEPT ![n] = Char(phase)]
      /\ seen' = [seen EXCEPT ![n] = Merge(seen[n], phase_seen)]
      /\ UNCHANGED <<started, curr_tid, built, tid, agent, target, arrived, phase, local_arrived,
                     entered, left, arrived_seen, phase_seen>>
  BY Types DEF ReadPhase, LoadPhase, AcquirePhase, startVars, metaVars, valueVars
<1>1. /\ pc' \in [Nodes -> Labels] /\ pc'[n] = "arrive"
      /\ \A m \in Nodes : m # n => pc'[m] = pc[m]
  BY <1>0, Types, LabelsKept DEF Labels
<1>2. Char(phase) \in Ints
  BY Types, Values
<1>3. /\ local_phase' \in [Nodes -> Ints] /\ local_phase'[n] = Char(phase)
      /\ \A m \in Nodes : m # n => local_phase'[m] = local_phase[m]
  BY <1>0, <1>2, Types
<1>4. /\ seen' \in [Nodes -> [Nodes -> 0 .. MaxRounds]]
      /\ \A m \in Nodes : seen'[m][m] = entered[m]
      /\ \A m, k \in Nodes : seen'[m][k] <= entered[k] /\ seen'[m][k] >= seen[m][k]
                             /\ seen'[m][k] \in Nat
  <2>1. phase_seen \in [Nodes -> 0 .. MaxRounds] /\ \A m \in Nodes : phase_seen[m] <= entered[m]
    BY Types DEF InRound, SeenInv
  <2>2. QED
    BY <1>0, <2>1, Acquire
<1>5. TypeOK'
  BY <1>0, <1>1, <1>3, <1>4 DEF TypeOK, Labels
<1>6. StartInv'
  BY <1>0, Types, WaitKeepsStart DEF InWait
<1>7. entered[n] = r + 1 /\ r + 1 # r
  BY <1>0, Standing
<1>8. Arrived(r)' = Arrived(r)
  BY <1>0, <1>1 DEF Arrived
<1>9. arrived' = IF \E m \in Nodes : pc'[m] = "advance" THEN 0 ELSE Cardinality(Arrived(r))
  <2>1. (\E m \in Nodes : pc'[m] = "advance") <=> \E m \in Nodes : pc[m] = "advance"
    BY <1>0, <1>1
  <2>2. QED
    BY <1>0, <2>1 DEF InRound, RoundInv
<1>10. pc[n] \in InWait /\ "arrive" \in InWait
  BY <1>0 DEF InWait
<1>11. InRound(r)'
  BY <1>0, <1>3, <1>4, <1>7, <1>8, <1>9, <1>10, SameRound
<1>12. QED
  BY <1>5, <1>6, <1>11

(* The comparison with target: a node of an old round is never the last.    *)
LEMMA CompareStep ==
  ASSUME TypeOK, StartInv, NEW r \in 0 .. MaxRounds, InRound(r), NEW n \in Nodes, Compare(n)
  PROVE  TypeOK' /\ StartInv' /\ InRound(r)'
<1>0. /\ pc[n] = "compare"
      /\ UNCHANGED <<started, curr_tid, built, tid, agent, target, arrived, phase, local_phase,
                     local_arrived, entered, left, seen, arrived_seen, phase_seen>>
  BY DEF Compare, startVars, metaVars, valueVars
<1>1. target = NODE_COUNT
  BY <1>0 DEF StartInv, InWait
<1>2. PICK l \in {"reset", "poll"} : /\ Goto(n, l)
                                     /\ l = "reset" <=> local_arrived[n] = NODE_COUNT
  BY <1>1 DEF Compare, IsLast
<1>3. l \in Labels /\ l \in InWait /\ pc[n] \in InWait
  BY <1>0, <1>2 DEF Labels, InWait
<1>4. /\ pc' \in [Nodes -> Labels] /\ pc'[n] = l
      /\ \A m \in Nodes : m # n => pc'[m] = pc[m]
  BY <1>2, <1>3, Types, LabelsKept
<1>5. TypeOK'
  BY <1>0, <1>4 DEF TypeOK, Labels
<1>6. StartInv'
  BY <1>0, <1>2, <1>3, Types, WaitKeepsStart
<1>7. Arrived(r)' = Arrived(r)
  BY <1>0, <1>2, <1>4 DEF Arrived
<1>8. arrived' = IF \E m \in Nodes : pc'[m] = "advance" THEN 0 ELSE Cardinality(Arrived(r))
  <2>1. (\E m \in Nodes : pc'[m] = "advance") <=> \E m \in Nodes : pc[m] = "advance"
    BY <1>0, <1>2, <1>4
  <2>2. QED
    BY <1>0, <2>1 DEF InRound, RoundInv
<1>9. local_arrived[n] \in 0 .. NODE_COUNT /\ NODE_COUNT \in Nat
  BY Types
<1>10. entered[n] = r => local_arrived[n] < NODE_COUNT
  BY <1>0, <1>3 DEF InRound, RoundInv
<1>11. /\ entered[n] = r => l \in {"compare", "poll"}
       /\ l \in {"reset", "advance"} => local_arrived[n] = NODE_COUNT
       /\ l = "poll" => local_arrived[n] < NODE_COUNT
  BY <1>2, <1>9, <1>10
<1>12. entered[n] = r + 1 => local_phase'[n] = Char(phase)
  BY <1>0, <1>3 DEF InRound, RoundInv
<1>13. /\ \A m \in Nodes : seen'[m][m] = entered[m]
       /\ \A m, k \in Nodes : seen'[m][k] <= entered[k] /\ seen'[m][k] >= seen[m][k]
                              /\ seen'[m][k] \in Nat
  BY <1>0, Types DEF InRound, SeenInv
<1>14. InRound(r)'
  BY <1>0, <1>2, <1>3, <1>7, <1>8, <1>11, <1>12, <1>13, SameRound
<1>15. QED
  BY <1>5, <1>6, <1>14

(* The node that goes on to reset the count is the last of its round:       *)
(* everybody has arrived and nobody else found the count full.             *)
LEMMA LastIsLast ==
  ASSUME TypeOK, NEW r \in 0 .. MaxRounds, InRound(r), NEW n \in Nodes,
         pc[n] \in {"reset", "advance"}
  PROVE  /\ Arrived(r) = Nodes /\ local_arrived[n] = NODE_COUNT /\ entered[n] = r + 1
         /\ \A m \in Nodes : m # n =>
              /\ entered[m] = r + 1 /\ pc[m] \in {"compare", "poll"}
              /\ local_arrived[m] < NODE_COUNT
<1>1. entered[n] = r + 1
  BY Standing
<1>2. n \in Arrived(r)
  BY <1>1 DEF Arrived
<1>3. local_arrived[n] = NODE_COUNT /\ local_arrived[n] <= Cardinality(Arrived(r))
  BY <1>2 DEF InRound, LastInv
<1>4. Arrived(r) = Nodes
  <2>1. Arrived(r) \subseteq Nodes
    BY DEF Arrived
  <2>2. Cardinality(Arrived(r)) \in 0 .. NODE_COUNT /\ NODE_COUNT \in Nat
    BY <2>1, CountNodes, Types
  <2>3. Cardinality(Arrived(r)) = NODE_COUNT
    BY <1>3, <2>2
  <2>4. QED
    BY <2>1, <2>3, CountNodes
<1>5. ASSUME NEW m \in Nodes, m # n
      PROVE  /\ entered[m] = r + 1 /\ pc[m] \in {"compare", "poll"}
             /\ local_arrived[m] < NODE_COUNT
  <2>1. m \in Arrived(r)
    BY <1>4
  <2>2. local_arrived[m] # NODE_COUNT
    BY <1>2, <1>3, <1>5, <2>1 DEF InRound, LastInv
  <2>3. entered[m] = r + 1 /\ pc[m] \in {"compare", "poll"}
    BY <2>1, <2>2 DEF InRound, LastInv, Arrived
  <2>4. local_arrived[m] < NODE_COUNT
    <3>1. local_arrived[m] \in 0 .. NODE_COUNT /\ NODE_COUNT \in Nat
      BY Types
    <3>2. QED
      BY <2>2, <3>1
  <2>5. QED
    BY <2>3, <2>4
<1>6. QED
  BY <1>1, <1>3, <1>4, <1>5

LEMMA ResetStep ==
  ASSUME TypeOK, StartInv, NEW r \in 0 .. MaxRounds, InRound(r), NEW n \in Nodes, Reset(n)
  PROVE  TypeOK' /\ StartInv' /\ InRound(r)'
<1>0. /\ pc[n] = "reset" /\ Goto(n, "advance") /\ arrived' = 0
      /\ UNCHANGED <<started, curr_tid, built, tid, agent, target, phase, local_phase,
                     local_arrived, entered, left, seen, arrived_seen, phase_seen>>
  BY DEF Reset, startVars, metaVars
<1>1. /\ pc' \in [Nodes -> Labels] /\ pc'[n] = "advance"
      /\ \A m \in Nodes : m # n => pc'[m] = pc[m]
  BY <1>0, Types, LabelsKept DEF Labels
<1>2. 0 \in Nodes
  BY Types DEF Nodes
<1>3. TypeOK'
  BY <1>0, <1>1, <1>2 DEF TypeOK, Labels
<1>4. StartInv'
  BY <1>0, Types, WaitKeepsStart DEF InWait
<1>5. Arrived(r)' = Arrived(r)
  BY <1>0, <1>1 DEF Arrived
<1>6. arrived' = IF \E m \in Nodes : pc'[m] = "advance" THEN 0 ELSE Cardinality(Arrived(r))
  BY <1>0, <1>1
<1>7. local_arrived[n] = NODE_COUNT /\ entered[n] = r + 1 /\ r + 1 # r
  BY <1>0, LastIsLast
<1>8. pc[n] \in InWait /\ "advance" \in InWait
  BY <1>0 DEF InWait
<1>9. local_phase'[n] = Char(phase)
  BY <1>0, <1>7, <1>8 DEF InRound, RoundInv
<1>10. /\ \A m \in Nodes : seen'[m][m] = entered[m]
       /\ \A m, k \in Nodes : seen'[m][k] <= entered[k] /\ seen'[m][k] >= seen[m][k]
                              /\ seen'[m][k] \in Nat
  BY <1>0, Types DEF InRound, SeenInv
<1>11. InRound(r)'
  BY <1>0, <1>5, <1>6, <1>7, <1>8, <1>9, <1>10, SameRound
<1>12. QED
  BY <1>3, <1>4, <1>11

(* The fetch_add on arrived.  It returns the number of arrivals of this      *)
(* round, and the last to arrive takes over what all the others released.   *)
LEMMA ArriveStep ==
  ASSUME TypeOK, StartInv, NEW r \in 0 .. MaxRounds, InRound(r), NEW n \in Nodes, Arrive(n)
  PROVE  TypeOK' /\ StartInv' /\ InRound(r)'
<1>0. /\ pc[n] = "arrive" /\ Goto(n, "compare")
      /\ local_arrived' = [local_arrived EXCEPT ![n] = Char(arrived) + 1]
      /\ arrived' = Plus(arrived, 1)
      /\ arrived_seen' = Merge(arrived_seen, seen[n])
      /\ seen' = [seen EXCEPT ![n] = Merge(seen[n], arrived_seen)]
      /\ UNCHANGED <<started, curr_tid, built, tid, agent, target, phase, local_phase, entered,
                     left, phase_seen>>
  BY Types DEF Arrive, startVars, metaVars
<1>1. /\ pc' \in [Nodes -> Labels] /\ pc'[n] = "compare"
      /\ \A m \in Nodes : m # n => pc'[m] = pc[m]
  BY <1>0, Types, LabelsKept DEF Labels
<1>2. /\ NODE_COUNT \in Nat /\ r \in Nat /\ MaxRounds \in Nat /\ entered[n] = r + 1 /\ r + 1 # r
      /\ entered \in [Nodes -> 0 .. MaxRounds] /\ left \in [Nodes -> 0 .. MaxRounds]
      /\ local_arrived \in [Nodes -> 0 .. NODE_COUNT]
      /\ pc[n] \in InWait /\ "compare" \in InWait
  BY <1>0, Types, Standing DEF InWait
<1>3. PICK A \in SUBSET Nodes : A = Arrived(r) /\ n \notin A /\ Arrived(r)' = A \cup {n}
  <2>1. n \notin Arrived(r) /\ Arrived(r)' = Arrived(r) \cup {n} /\ Arrived(r) \subseteq Nodes
    BY <1>0, <1>1, <1>2 DEF Arrived
  <2>2. QED
    BY <2>1
<1>4. \A m \in Nodes : pc[m] \notin {"reset", "advance"}
  BY <1>0, LastIsLast
<1>5. PICK c \in 0 .. NODE_COUNT : /\ c = Cardinality(A) /\ arrived = c /\ c < NODE_COUNT
                                   /\ Cardinality(A \cup {n}) = c + 1
                                   /\ c + 1 = NODE_COUNT => A \cup {n} = Nodes
  <2>1. Cardinality(A) \in 0 .. NODE_COUNT /\ Cardinality(A) < NODE_COUNT
        /\ Cardinality(A \cup {n}) = Cardinality(A) + 1
    BY <1>3, CountNodes
  <2>2. Cardinality(A \cup {n}) = NODE_COUNT => A \cup {n} = Nodes
    <3>1. A \cup {n} \in SUBSET Nodes
      OBVIOUS
    <3>2. QED
      BY <3>1, CountNodes
  <2>3. arrived = Cardinality(A)
    BY <1>3, <1>4 DEF InRound, RoundInv
  <2>4. QED
    BY <2>1, <2>2, <2>3
<1>6. Char(arrived) = c /\ Plus(arrived, 1) = c + 1
  <2>1. c \in 0 .. NODE_COUNT - 1
    BY <1>2, <1>5
  <2>2. QED
    BY <1>5, <2>1, Values
<1>7. /\ c + 1 \in 0 .. NODE_COUNT /\ c + 1 \in Nodes \cup {NODE_COUNT} /\ arrived' = c + 1
      /\ local_arrived' \in [Nodes -> 0 .. NODE_COUNT] /\ local_arrived'[n] = c + 1
      /\ \A m \in Nodes : m # n => local_arrived'[m] = local_arrived[m]
  <2>1. c + 1 \in 0 .. NODE_COUNT /\ c + 1 \in Nodes \cup {NODE_COUNT}
    <3>1. c + 1 \in 0 .. NODE_COUNT /\ (c + 1 \in 0 .. NODE_COUNT - 1 \/ c + 1 = NODE_COUNT)
      BY <1>2, <1>5
    <3>2. QED
      BY <3>1 DEF Nodes
  <2>2. QED
    BY <1>0, <1>2, <1>6, <2>1
<1>8. /\ seen' \in [Nodes -> [Nodes -> 0 .. MaxRounds]]
      /\ \A m \in Nodes : seen'[n][m] >= arrived_seen[m]
      /\ \A m \in Nodes : seen'[m][m] = entered[m]
      /\ \A m, k \in Nodes : m # n => seen'[m][k] = seen[m][k]
      /\ \A m, k \in Nodes : /\ seen'[m][k] <= entered[k] /\ seen'[m][k] >= seen[m][k]
                             /\ seen'[m][k] \in Nat /\ seen[m][k] \in Nat
  <2>1. arrived_seen \in [Nodes -> 0 .. MaxRounds] /\ \A m \in Nodes : arrived_seen[m] <= entered[m]
    BY Types DEF InRound, SeenInv
  <2>2. QED
    BY <1>0, <2>1, Acquire
<1>9. /\ arrived_seen' \in [Nodes -> 0 .. MaxRounds]
      /\ \A m \in Nodes : /\ arrived_seen'[m] <= entered[m] /\ arrived_seen'[m] >= arrived_seen[m]
                           /\ arrived_seen[m] \in Nat /\ arrived_seen'[m] \in Nat
      /\ arrived_seen'[n] = r + 1
  <2>1. arrived_seen \in [Nodes -> 0 .. MaxRounds] /\ seen[n] \in [Nodes -> 0 .. MaxRounds]
    BY Types
  <2>2. /\ arrived_seen' \in [Nodes -> 0 .. MaxRounds]
        /\ \A m \in Nodes : /\ arrived_seen'[m] >= arrived_seen[m] /\ arrived_seen'[m] >= seen[n][m]
                             /\ (arrived_seen'[m] = arrived_seen[m] \/ arrived_seen'[m] = seen[n][m])
    BY <1>0, <1>2, <2>1, MergeAt
  <2>3. \A m \in Nodes : arrived_seen[m] <= entered[m] /\ seen[n][m] <= entered[m]
    BY DEF InRound, SeenInv
  <2>4. seen[n][n] = r + 1
    BY <1>2 DEF InRound, SeenInv
  <2>5. \A m \in Nodes : arrived_seen'[m] <= entered[m]
    BY <2>2, <2>3
  <2>6. arrived_seen'[n] >= r + 1 /\ arrived_seen'[n] <= r + 1 /\ arrived_seen'[n] \in Nat
    BY <1>2, <2>2, <2>4, <2>5
  <2>7. arrived_seen'[n] = r + 1
    BY <1>2, <2>6
  <2>8. QED
    BY <2>1, <2>2, <2>5, <2>7
<1>10. TypeOK'
  BY <1>0, <1>1, <1>7, <1>8, <1>9 DEF TypeOK, Labels
<1>11. StartInv'
  BY <1>0, <1>2, Types, WaitKeepsStart
<1>12. Char(phase)' = Char(phase)
  BY <1>0 DEF Char, Signed
<1>13. RoundInv(r)'
  <2>1. ASSUME NEW m \in Nodes
        PROVE  /\ left'[m] <= r /\ entered'[m] >= r
               /\ entered'[m] = left'[m] + (IF pc'[m] \in InWait THEN 1 ELSE 0)
               /\ pc'[m] \in InWait /\ entered'[m] = r =>
                    pc'[m] \in {"compare", "poll"} /\ local_arrived'[m] < NODE_COUNT
               /\ pc'[m] \in InWait \ {"load_phase"} /\ entered'[m] = r + 1 =>
                    local_phase'[m] = Char(phase)
    <3>1. CASE m = n
      BY <3>1, <1>0, <1>1, <1>2 DEF InRound, RoundInv
    <3>2. CASE m # n
      BY <3>2, <1>0, <1>1, <1>7 DEF InRound, RoundInv
    <3>3. QED
      BY <3>1, <3>2
  <2>2. \A m \in Nodes : pc'[m] # "advance"
    BY <1>1, <1>4
  <2>3. arrived' = Cardinality(Arrived(r)')
    BY <1>3, <1>5, <1>7
  <2>4. QED
    BY <2>1, <2>2, <2>3, <1>12 DEF RoundInv
<1>14. \A m \in A : /\ m \in Nodes /\ m # n /\ local_arrived[m] <= c /\ local_arrived[m] \in Nat
                    /\ local_arrived'[m] = local_arrived[m] /\ pc'[m] = pc[m]
                    /\ arrived_seen[m] = r + 1
  BY <1>1, <1>2, <1>3, <1>5, <1>7 DEF InRound, LastInv, SeenInv
<1>15. LastInv(r)'
  <2>1. \A m \in A : local_arrived'[m] <= c + 1 /\ local_arrived'[m] < NODE_COUNT
    BY <1>2, <1>5, <1>14
  <2>2. \A m \in A \cup {n} :
          /\ local_arrived'[m] <= Cardinality(A \cup {n})
          /\ pc'[m] \in {"reset", "advance"} => local_arrived'[m] = NODE_COUNT
          /\ pc'[m] = "poll" => local_arrived'[m] < NODE_COUNT
    <3>1. \A m \in A : pc'[m] \notin {"reset", "advance"}
      BY <1>4, <1>14
    <3>2. c + 1 <= c + 1
      BY <1>5
    <3>3. QED
      BY <1>1, <1>5, <1>7, <2>1, <3>1, <3>2
  <2>3. \A m \in A : local_arrived'[m] # NODE_COUNT
    BY <1>2, <1>5, <1>14
  <2>4. \A m, k \in A \cup {n} : local_arrived'[m] = NODE_COUNT /\ local_arrived'[k] = NODE_COUNT => m = k
    BY <2>3
  <2>5. QED
    BY <1>3, <2>2, <2>4 DEF LastInv
<1>16. SeenInv(r)'
  <2>1. ASSUME NEW m \in Nodes
        PROVE  /\ seen'[m][m] = entered'[m]
               /\ arrived_seen'[m] <= entered'[m] /\ phase_seen'[m] <= entered'[m]
               /\ phase_seen'[m] >= r
               /\ m \in Arrived(r)' => arrived_seen'[m] = r + 1
    <3>1. m \in A \cup {n} => arrived_seen'[m] = r + 1
      <4>1. CASE m = n
        BY <4>1, <1>9
      <4>2. CASE m \in A
        <5>1. arrived_seen'[m] >= r + 1 /\ arrived_seen'[m] \in Nat /\ arrived_seen'[m] <= entered[m]
          BY <4>2, <1>9, <1>14
        <5>2. entered[m] = r + 1
          BY <4>2, <1>3 DEF Arrived
        <5>3. QED
          BY <5>1, <5>2, <1>2
      <4>3. QED
        BY <4>1, <4>2
    <3>2. QED
      BY <3>1, <1>0, <1>3, <1>8, <1>9 DEF InRound, SeenInv
  <2>2. ASSUME NEW m \in Nodes, NEW k \in Nodes
        PROVE  /\ seen'[m][k] <= entered'[k]
               /\ seen'[m][k] >= left'[m]
               /\ m \in Arrived(r)' /\ local_arrived'[m] = NODE_COUNT => seen'[m][k] = r + 1
    <3>1. seen'[m][k] >= left[m]
      <4>1. seen[m][k] >= left[m] /\ left[m] \in Nat
        BY <1>2 DEF InRound, SeenInv
      <4>2. QED
        BY <4>1, <1>8
    <3>2. ASSUME m \in A \cup {n}, local_arrived'[m] = NODE_COUNT PROVE seen'[m][k] = r + 1
      <4>1. m = n
        <5>1. m \in A => local_arrived'[m] # NODE_COUNT
          BY <1>2, <1>5, <1>14
        <5>2. QED
          BY <3>2, <5>1
      <4>2. A \cup {n} = Nodes
        BY <3>2, <4>1, <1>5, <1>7
      <4>3. CASE k = n
        BY <4>1, <4>3, <1>2, <1>8
      <4>4. CASE k # n
        <5>1. k \in A
          BY <4>2, <4>4
        <5>2. entered[k] = r + 1 /\ arrived_seen[k] = r + 1
          BY <5>1, <1>3, <1>14 DEF Arrived
        <5>3. seen'[n][k] >= r + 1 /\ seen'[n][k] <= r + 1 /\ seen'[n][k] \in Nat
          BY <5>2, <1>8
        <5>4. QED
          BY <4>1, <5>3, <1>2
      <4>5. QED
        BY <4>3, <4>4
    <3>3. QED
      BY <3>1, <3>2, <1>0, <1>3, <1>8
  <2>3. QED
    BY <2>1, <2>2 DEF SeenInv
<1>17. QED
  BY <1>10, <1>11, <1>13, <1>15, <1>16 DEF InRound

(* The fetch_add on phase completes the round: everybody has entered it, and *)
(* the clock of phase takes over what the last one has seen of them.         *)
LEMMA AdvanceStep ==
  ASSUME TypeOK, StartInv, NEW r \in 0 .. MaxRounds, InRound(r), NEW n \in Nodes, Advance(n)
  PROVE  TypeOK' /\ StartInv' /\ r + 1 \in 0 .. MaxRounds /\ InRound(r + 1)'
<1>0. /\ pc[n] = "advance" /\ Goto(n, "up")
      /\ phase' = Plus(phase, 1)
      /\ phase_seen' = Merge(phase_seen, seen[n])
      /\ seen' = [seen EXCEPT ![n] = Merge(seen[n], phase_seen)]
      /\ left' = [left EXCEPT ![n] = entered[n]]
      /\ UNCHANGED <<started, curr_tid, built, tid, agent, target, arrived, local_phase,
                     local_arrived, entered, arrived_seen>>
  BY Types DEF Advance, Leave, Released, AcquirePhase, startVars, metaVars
<1>1. /\ pc' \in [Nodes -> Labels] /\ pc'[n] = "up"
      /\ \A m \in Nodes : m # n => pc'[m] = pc[m]
  BY <1>0, Types, LabelsKept DEF Labels
<1>2. /\ Arrived(r) = Nodes /\ local_arrived[n] = NODE_COUNT
      /\ \A m \in Nodes : entered[m] = r + 1
      /\ \A m \in Nodes : m # n => pc[m] \in {"compare", "poll"} /\ local_arrived[m] < NODE_COUNT
  BY <1>0, LastIsLast
<1>3. /\ r \in Nat /\ MaxRounds \in Nat /\ r + 1 \in 0 .. MaxRounds /\ r + 1 # r + 1 + 1
      /\ entered \in [Nodes -> 0 .. MaxRounds] /\ left \in [Nodes -> 0 .. MaxRounds]
  BY <1>2, Types
<1>4. /\ left' \in [Nodes -> 0 .. MaxRounds] /\ left'[n] = r + 1
      /\ \A m \in Nodes : m # n => left'[m] = left[m] /\ left[m] = r
  <2>1. \A m \in Nodes : m # n => pc[m] \in InWait
    BY <1>2 DEF InWait
  <2>2. \A m \in Nodes : m # n => left[m] = r
    BY <1>2, <1>3, <2>1, Standing
  <2>3. QED
    BY <1>0, <1>2, <1>3, <2>2
<1>5. phase' \in Ints
  BY <1>0, Types, Values
<1>6. /\ seen' \in [Nodes -> [Nodes -> 0 .. MaxRounds]]
      /\ \A m \in Nodes : seen'[m][m] = entered[m]
      /\ \A m, k \in Nodes : /\ seen'[m][k] <= entered[k] /\ seen'[m][k] >= seen[m][k]
                             /\ seen'[m][k] \in Nat /\ seen[m][k] \in Nat
  <2>1. phase_seen \in [Nodes -> 0 .. MaxRounds] /\ \A m \in Nodes : phase_seen[m] <= entered[m]
    BY Types DEF InRound, SeenInv
  <2>2. QED
    BY <1>0, <2>1, Acquire
<1>7. /\ phase_seen' \in [Nodes -> 0 .. MaxRounds]
      /\ \A m \in Nodes : phase_seen'[m] = r + 1
  <2>1. phase_seen \in [Nodes -> 0 .. MaxRounds] /\ seen[n] \in [Nodes -> 0 .. MaxRounds]
    BY Types
  <2>2. /\ phase_seen' \in [Nodes -> 0 .. MaxRounds]
        /\ \A m \in Nodes : /\ phase_seen'[m] >= seen[n][m]
                             /\ (phase_seen'[m] = phase_seen[m] \/ phase_seen'[m] = seen[n][m])
    BY <1>0, <1>3, <2>1, MergeAt
  <2>3. \A m \in Nodes : phase_seen[m] <= r + 1 /\ seen[n][m] = r + 1
    BY <1>2 DEF InRound, SeenInv
  <2>4. \A m \in Nodes : phase_seen'[m] \in Nat /\ phase_seen'[m] >= r + 1 /\ phase_seen'[m] <= r + 1
    BY <1>3, <2>2, <2>3
  <2>5. QED
    BY <1>3, <2>2, <2>4
<1>8. TypeOK'
  BY <1>0, <1>1, <1>4, <1>5, <1>6, <1>7 DEF TypeOK, Labels
<1>9. StartInv'
  BY <1>0, Types, WaitKeepsStart DEF InWait
<1>10. Arrived(r + 1)' = {} /\ \A m \in Nodes : pc'[m] # "advance"
  BY <1>0, <1>1, <1>2, <1>3 DEF Arrived
<1>11. arrived' = 0
  BY <1>0 DEF InRound, RoundInv
<1>12. RoundInv(r + 1)'
  <2>1. ASSUME NEW m \in Nodes
        PROVE  /\ left'[m] <= r + 1 /\ entered'[m] >= r + 1 /\ entered'[m] # r + 1 + 1
               /\ entered'[m] = left'[m] + (IF pc'[m] \in InWait THEN 1 ELSE 0)
               /\ pc'[m] \in InWait /\ entered'[m] = r + 1 =>
                    pc'[m] \in {"compare", "poll"} /\ local_arrived'[m] < NODE_COUNT
    <3>1. CASE m = n
      BY <3>1, <1>0, <1>1, <1>2, <1>3, <1>4 DEF InWait
    <3>2. CASE m # n
      BY <3>2, <1>0, <1>1, <1>2, <1>3, <1>4 DEF InWait
    <3>3. QED
      BY <3>1, <3>2
  <2>2. arrived' = IF \E m \in Nodes : pc'[m] = "advance" THEN 0 ELSE Cardinality(Arrived(r + 1)')
    BY <1>10, <1>11, FS_EmptySet
  <2>3. QED
    BY <2>1, <2>2 DEF RoundInv
<1>13. LastInv(r + 1)'
  BY <1>10 DEF LastInv
<1>14. SeenInv(r + 1)'
  <2>1. \A m \in Nodes : arrived_seen[m] <= entered[m] /\ phase_seen'[m] <= entered[m] /\ phase_seen'[m] >= r + 1
    BY <1>2, <1>3, <1>7 DEF InRound, SeenInv
  <2>2. ASSUME NEW m \in Nodes, NEW k \in Nodes PROVE seen'[m][k] >= left'[m]
    <3>1. CASE m = n
      <4>1. seen[n][k] = r + 1
        BY <1>2 DEF InRound, SeenInv
      <4>2. QED
        BY <3>1, <4>1, <1>4, <1>6
    <3>2. CASE m # n
      <4>1. seen[m][k] >= left[m]
        BY DEF InRound, SeenInv
      <4>2. QED
        BY <3>2, <4>1, <1>3, <1>4, <1>6
    <3>3. QED
      BY <3>1, <3>2
  <2>3. QED
    BY <2>1, <2>2, <1>0, <1>6, <1>10 DEF SeenInv
<1>15. QED
  BY <1>3, <1>8, <1>9, <1>12, <1>13, <1>14 DEF InRound

(* A node that finds another phase was in the round that is complete.       *)
LEMMA PollStep ==
  ASSUME TypeOK, StartInv, NEW r \in 0 .. MaxRounds, InRound(r), NEW n \in Nodes, Poll(n)
  PROVE  TypeOK' /\ StartInv' /\ InRound(r)'
<1>0. /\ pc[n] = "poll" /\ Goto(n, "up") /\ Char(phase) # local_phase[n]
      /\ seen' = [seen EXCEPT ![n] = Merge(seen[n], phase_seen)]
      /\ left' = [left EXCEPT ![n] = entered[n]]
      /\ UNCHANGED <<started, curr_tid, built, tid, agent, target, arrived, phase, local_phase,
                     local_arrived, entered, arrived_seen, phase_seen>>
  BY Types DEF Poll, Leave, LoadPhase, AcquirePhase, startVars, metaVars
<1>1. /\ pc' \in [Nodes -> Labels] /\ pc'[n] = "up"
      /\ \A m \in Nodes : m # n => pc'[m] = pc[m]
  BY <1>0, Types, LabelsKept DEF Labels
<1>2. /\ r \in Nat /\ MaxRounds \in Nat /\ pc[n] \in InWait
      /\ entered \in [Nodes -> 0 .. MaxRounds] /\ left \in [Nodes -> 0 .. MaxRounds]
  BY <1>0, Types DEF InWait
<1>3. entered[n] = r /\ r # r + 1
  <2>1. entered[n] # r + 1
    BY <1>0, <1>2 DEF InRound, RoundInv
  <2>2. QED
    BY <1>2, <2>1, Standing
<1>4. /\ left' \in [Nodes -> 0 .. MaxRounds] /\ left'[n] = r
      /\ \A m \in Nodes : m # n => left'[m] = left[m]
  BY <1>0, <1>2, <1>3
<1>5. /\ seen' \in [Nodes -> [Nodes -> 0 .. MaxRounds]]
      /\ \A m \in Nodes : seen'[m][m] = entered[m]
      /\ \A m \in Nodes : seen'[n][m] >= phase_seen[m] /\ phase_seen[m] >= r /\ phase_seen[m] \in Nat
      /\ \A m, k \in Nodes : m # n => seen'[m][k] = seen[m][k]
      /\ \A m, k \in Nodes : seen'[m][k] <= entered[k] /\ seen'[m][k] \in Nat
  <2>1. /\ phase_seen \in [Nodes -> 0 .. MaxRounds]
        /\ \A m \in Nodes : phase_seen[m] <= entered[m] /\ phase_seen[m] >= r
    BY Types DEF InRound, SeenInv
  <2>2. \A m \in Nodes : phase_seen[m] \in Nat
    BY <1>2, <2>1
  <2>3. QED
    BY <1>0, <2>1, <2>2, Acquire
<1>6. TypeOK'
  BY <1>0, <1>1, <1>4, <1>5 DEF TypeOK, Labels
<1>7. StartInv'
  BY <1>0, Types, WaitKeepsStart DEF InWait
<1>8. Arrived(r)' = Arrived(r) /\ n \notin Arrived(r)
  BY <1>0, <1>1, <1>3 DEF Arrived
<1>9. RoundInv(r)'
  <2>1. ASSUME NEW m \in Nodes
        PROVE  /\ left'[m] <= r /\ entered'[m] >= r
               /\ entered'[m] = left'[m] + (IF pc'[m] \in InWait THEN 1 ELSE 0)
               /\ pc'[m] \in InWait /\ entered'[m] = r =>
                    pc'[m] \in {"compare", "poll"} /\ local_arrived'[m] < NODE_COUNT
               /\ pc'[m] \in InWait \ {"load_phase"} /\ entered'[m] = r + 1 =>
                    local_phase'[m] = Char(phase)
    <3>1. CASE m = n
      BY <3>1, <1>0, <1>1, <1>2, <1>3, <1>4 DEF InWait
    <3>2. CASE m # n
      BY <3>2, <1>0, <1>1, <1>4 DEF InRound, RoundInv
    <3>3. QED
      BY <3>1, <3>2
  <2>2. (\E m \in Nodes : pc'[m] = "advance") <=> \E m \in Nodes : pc[m] = "advance"
    BY <1>0, <1>1
  <2>3. arrived' = IF \E m \in Nodes : pc'[m] = "advance" THEN 0 ELSE Cardinality(Arrived(r)')
    BY <1>0, <1>8, <2>2 DEF InRound, RoundInv
  <2>4. Char(phase)' = Char(phase)
    BY <1>0 DEF Char, Signed
  <2>5. QED
    BY <2>1, <2>3, <2>4 DEF RoundInv
<1>10. LastInv(r)'
  <2>1. \A m \in Arrived(r) : pc'[m] = pc[m]
    BY <1>1, <1>8 DEF Arrived
  <2>2. QED
    BY <1>0, <1>8, <2>1 DEF InRound, LastInv
<1>11. SeenInv(r)'
  <2>1. ASSUME NEW m \in Nodes, NEW k \in Nodes
        PROVE  /\ seen'[m][k] >= left'[m]
               /\ m \in Arrived(r) /\ local_arrived[m] = NODE_COUNT => seen'[m][k] = r + 1
    <3>1. CASE m = n
      BY <3>1, <1>2, <1>4, <1>5, <1>8
    <3>2. CASE m # n
      BY <3>2, <1>4, <1>5 DEF InRound, SeenInv
    <3>3. QED
      BY <3>1, <3>2
  <2>2. QED
    BY <2>1, <1>0, <1>5, <1>8 DEF InRound, SeenInv
<1>12. QED
  BY <1>6, <1>7, <1>9, <1>10, <1>11 DEF InRound

-----------------------------------------------------------------------------
LEMMA BarrierInit == Init => IInv
<1> SUFFICES ASSUME Init PROVE IInv
  OBVIOUS
<1>0. /\ NODE_COUNT \in Nat /\ NODE_COUNT > 0 /\ MaxRounds \in Nat /\ INT_MAX \in Nat
      /\ 0 \in Nodes /\ 0 \in Ints /\ 0 \in 0 .. MaxRounds /\ 0 \in 0 .. NODE_COUNT
  BY CXLBarrierAssumption DEF Nodes, Ints
<1>1. /\ \A n \in Nodes : /\ pc[n] = IF n = 0 THEN "build" ELSE "spin"
                          /\ tid[n] = -1 /\ entered[n] = 0 /\ left[n] = 0
                          /\ arrived_seen[n] = 0 /\ phase_seen[n] = 0
      /\ \A n, m \in Nodes : seen[n][m] = 0
      /\ ~started /\ curr_tid = 0 /\ arrived = 0
  BY DEF Init, Nothing
<1>2. TypeOK
  BY <1>0 DEF Init, TypeOK, Nothing
<1>3. Ready = {} /\ Arrived(0) = {} /\ Cardinality({}) = 0
  BY <1>1, FS_EmptySet DEF Ready, Arrived
<1>4. StartInv
  BY <1>1, <1>3 DEF StartInv, InWait
<1>5. RoundInv(0)
  BY <1>1, <1>3 DEF RoundInv, InWait
<1>6. LastInv(0) /\ SeenInv(0)
  BY <1>1, <1>3 DEF LastInv, SeenInv
<1>7. QED
  BY <1>0, <1>2, <1>4, <1>5, <1>6 DEF IInv, BarrierInv

LEMMA BarrierStep == IInv /\ [Next]_vars => IInv'
<1> SUFFICES ASSUME IInv, [Next]_vars PROVE IInv'
  OBVIOUS
<1>0. TypeOK /\ StartInv /\ pc \in [Nodes -> Labels]
  BY Types DEF IInv, BarrierInv
<1>1. PICK r \in 0 .. MaxRounds : InRound(r)
  BY DEF IInv, BarrierInv, InRound
<1>2. SUFFICES TypeOK' /\ StartInv' /\ \E q \in 0 .. MaxRounds : InRound(q)'
  <2>1. (\E q \in 0 .. MaxRounds : InRound(q)') => (\E q \in 0 .. MaxRounds : RoundInv(q) /\ LastInv(q) /\ SeenInv(q))'
    BY DEF InRound
  <2>2. QED
    BY <2>1 DEF IInv, BarrierInv
<1>3. CASE UNCHANGED vars
  <2>1. UNCHANGED <<started, curr_tid, built, target, arrived, phase, pc, tid, local_phase,
                    local_arrived, agent, entered, left, seen, arrived_seen, phase_seen>>
    BY <1>3 DEF vars, startVars, metaVars, valueVars
  <2>2. TypeOK' /\ StartInv'
    BY <1>0, <2>1 DEF TypeOK, StartInv, Ready
  <2>3. InRound(r)'
    BY <1>1, <2>1 DEF InRound, RoundInv, LastInv, SeenInv, Arrived, Char, Signed
  <2>4. QED
    BY <2>2, <2>3
<1>4. ASSUME NEW n \in Nodes, Starting(n) PROVE TypeOK' /\ StartInv' /\ InRound(r)'
  <2>1. CASE BuildLog(n)
    <3>1. TypeOK' /\ StartInv'
      BY <2>1, <1>0, BuildLogStep
    <3>2. /\ Goto(n, "init_barrier") /\ "init_barrier" \in Labels \ InWait /\ pc[n] \notin InWait
          /\ BarrierUnused /\ UNCHANGED <<arrived, phase>> /\ r \in Nat
      BY <2>1 DEF BuildLog, Labels, InWait, valueVars
    <3>3. QED
      BY <3>1, <3>2, <1>0, <1>1, StartKeepsRound
  <2>2. CASE BuildBarrier(n)
    <3>1. TypeOK' /\ StartInv' /\ arrived' = 0 /\ \A m \in Nodes : pc[m] \notin InWait
      BY <2>2, <1>0, BuildBarrierStep
    <3>2. /\ Goto(n, "set_started") /\ "set_started" \in Labels \ InWait /\ pc[n] \notin InWait
          /\ BarrierUnused /\ r \in Nat
      BY <2>2 DEF BuildBarrier, Labels, InWait
    <3>3. QED
      BY <3>1, <3>2, <1>0, <1>1, StartKeepsRound
  <2>3. CASE SetStarted(n)
    <3>1. TypeOK' /\ StartInv'
      BY <2>3, <1>0, SetStartedStep
    <3>2. /\ Goto(n, "start_agent") /\ "start_agent" \in Labels \ InWait /\ pc[n] \notin InWait
          /\ BarrierUnused /\ UNCHANGED <<arrived, phase>> /\ r \in Nat
      BY <2>3 DEF SetStarted, Labels, InWait, valueVars
    <3>3. QED
      BY <3>1, <3>2, <1>0, <1>1, StartKeepsRound
  <2>4. CASE Join(n)
    <3>1. TypeOK' /\ StartInv'
      BY <2>4, <1>0, JoinStep
    <3>2. /\ Goto(n, "start_agent") /\ "start_agent" \in Labels \ InWait /\ pc[n] \notin InWait
          /\ BarrierUnused /\ UNCHANGED <<arrived, phase>> /\ r \in Nat
      BY <2>4 DEF Join, Labels, InWait, valueVars
    <3>3. QED
      BY <3>1, <3>2, <1>0, <1>1, StartKeepsRound
  <2>5. CASE StartAgent(n)
    <3>1. TypeOK' /\ StartInv'
      BY <2>5, <1>0, StartAgentStep
    <3>2. /\ Goto(n, "up") /\ "up" \in Labels \ InWait /\ pc[n] \notin InWait
          /\ BarrierUnused /\ UNCHANGED <<arrived, phase>> /\ r \in Nat
      BY <2>5 DEF StartAgent, Labels, InWait, valueVars
    <3>3. QED
      BY <3>1, <3>2, <1>0, <1>1, StartKeepsRound
  <2>6. QED
    BY <1>4, <2>1, <2>2, <2>3, <2>4, <2>5 DEF Starting
<1>5. ASSUME NEW n \in Nodes, Wait(n) \/ Waiting(n)
      PROVE  TypeOK' /\ StartInv' /\ \E q \in 0 .. MaxRounds : InRound(q)'
  <2>1. CASE Advance(n)
    BY <2>1, <1>0, <1>1, AdvanceStep
  <2>2. CASE Wait(n)
    BY <2>2, <1>0, <1>1, WaitStep
  <2>3. CASE ReadPhase(n)
    BY <2>3, <1>0, <1>1, ReadPhaseStep
  <2>4. CASE Arrive(n)
    BY <2>4, <1>0, <1>1, ArriveStep
  <2>5. CASE Compare(n)
    BY <2>5, <1>0, <1>1, CompareStep
  <2>6. CASE Reset(n)
    BY <2>6, <1>0, <1>1, ResetStep
  <2>7. CASE Poll(n)
    BY <2>7, <1>0, <1>1, PollStep
  <2>8. QED
    BY <1>5, <2>1, <2>2, <2>3, <2>4, <2>5, <2>6, <2>7 DEF Waiting
<1>6. QED
  BY <1>1, <1>3, <1>4, <1>5 DEF Next

-----------------------------------------------------------------------------
(* r rounds of the barrier are complete; every node is in the round after    *)
(* them, has not entered it yet, or is about to leave the last complete one. *)
THEOREM BarrierInductive == Spec => []IInv
BY BarrierInit, BarrierStep, PTL DEF Spec

(* The count of arrivals as it comes back through a char is exact, ids are   *)
(* those of the nodes, phases fit an int although they wrap.                *)
THEOREM BarrierTypes == Spec => []TypeOK
<1>1. IInv => TypeOK
  BY DEF IInv
<1>2. QED
  BY <1>1, BarrierInductive, PTL

(* wait() lets nobody out of a round before everybody is in it.             *)
THEOREM NobodyLeavesEarly == Spec => []NoEarlyLeave
<1>1. ASSUME IInv PROVE NoEarlyLeave
  <2>1. PICK r \in 0 .. MaxRounds : InRound(r)
    BY <1>1 DEF IInv, BarrierInv, InRound
  <2>2. ASSUME NEW n \in Nodes, NEW m \in Nodes PROVE left[n] <= entered[m]
    <3>1. TypeOK
      BY <1>1 DEF IInv
    <3>2. left[n] \in Nat /\ r \in Nat /\ left[n] <= r
      BY <3>1, <2>1, Standing
    <3>3. entered[m] \in Nat /\ entered[m] >= r
      BY <3>1, <2>1, Standing
    <3>4. QED
      BY <3>2, <3>3
  <2>3. QED
    BY <2>2 DEF NoEarlyLeave
<1>2. QED
  BY <1>1, BarrierInductive, PTL

(* Who is out of a round has synchronised, through the clocks of arrived and *)
(* phase, with all that came to it.                                        *)
THEOREM LeavingSeesAll == Spec => []LeaveSeesAll
<1>1. IInv => LeaveSeesAll
  BY DEF IInv, BarrierInv, SeenInv, LeaveSeesAll
<1>2. QED
  BY <1>1, BarrierInductive, PTL

(* rac_init: behind the first barrier all logs and agents are there, and no  *)
(* two main threads have the same id.                                      *)
THEOREM AllHaveStarted == Spec => []AllStarted
<1>1. ASSUME IInv PROVE AllStarted
  <2>1. PICK r \in 0 .. MaxRounds : InRound(r)
    BY <1>1 DEF IInv, BarrierInv, InRound
  <2>2. TypeOK /\ StartInv
    BY <1>1 DEF IInv, BarrierInv
  <2>3. ASSUME NEW n \in Nodes, left[n] > 0 PROVE built = Nodes /\ agent = Nodes
    <3>1. left[n] \in Nat /\ r \in Nat /\ r > 0
      BY <2>1, <2>2, <2>3, Standing
    <3>2. \A m \in Nodes : pc[m] \in {"up"} \cup InWait
      <4>1. \A m \in Nodes : entered[m] # 0
        BY <3>1, <2>1, <2>2, Standing
      <4>2. QED
        BY <4>1, <2>2 DEF StartInv
    <3>3. \A m \in Nodes : m \in agent /\ m \in built
      BY <3>2, <2>2 DEF StartInv, Ready, InWait
    <3>4. QED
      BY <3>3, <2>2 DEF TypeOK
  <2>4. QED
    BY <2>2, <2>3 DEF AllStarted, StartInv
<1>2. QED
  BY <1>1, BarrierInductive, PTL
===============================================================================
