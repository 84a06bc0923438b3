------------------------------ MODULE CXLBarrier ------------------------------
(***************************************************************************)
(* Start-up of the nodes and the barrier they meet at (rac_init in         *)
(* src/runtime.cpp, CXLBarrier and the values of CXLAtomic in              *)
(* include/cxlSync.hpp).  Node 0 builds the shared metadata, the others    *)
(* wait for it; then the main thread of every node calls wait() of         *)
(* root_barrier again and again.  A call on a CXLAtomic is atomic, it runs *)
(* under the mutex of the object.  An int has 2 (INT_MAX + 1) values, and a *)
(* value read with acquire order comes back through a signed char.         *)
(***************************************************************************)
EXTENDS Integers, FiniteSets

CONSTANTS
  NODE_COUNT,
  SCHAR_MAX, INT_MAX,  \* largest values, 127 and 2147483647
  MaxRounds            \* bound: calls of wait() by each node

Nodes == 0 .. NODE_COUNT - 1

(* The last of NODE_COUNT arrivals must be able to read NODE_COUNT - 1      *)
(* through a char.  Ranges are powers of two, the one of an int the larger. *)
ASSUME CXLBarrierAssumption ==
  /\ NODE_COUNT \in Nat \ {0}
  /\ SCHAR_MAX \in Nat /\ INT_MAX \in Nat /\ INT_MAX > SCHAR_MAX
  /\ (INT_MAX + 1) % (SCHAR_MAX + 1) = 0
  /\ NODE_COUNT - 1 <= SCHAR_MAX
  /\ MaxRounds \in Nat

VARIABLES
  started, curr_tid,          \* GlobalMeta
  built,                      \* parts of GlobalMeta that are constructed
  target, arrived, phase,     \* the barrier
  pc, tid,                    \* main thread of a node, and its thread id
  local_phase, local_arrived,
  agent,                      \* nodes whose cache agent runs
  entered, left,              \* history: calls of wait() begun and ended
  seen, arrived_seen, phase_seen  \* history: the calls of wait() by each node
                                  \* that happen before a node's present and
                                  \* that the clocks of the atomics cover

metaVars  == <<started, curr_tid, built>>
startVars == <<metaVars, tid, agent>>
valueVars == <<target, arrived, phase>>
vars == <<startVars, valueVars, pc, local_phase, local_arrived, entered, left,
          seen, arrived_seen, phase_seen>>

Nothing == [n \in Nodes |-> 0]

(* The memory of a new shared memory object is zero.                       *)
Init ==
  /\ started = FALSE /\ curr_tid = 0 /\ built = {}
  /\ target = 0 /\ arrived = 0 /\ phase = 0
  /\ pc = [n \in Nodes |-> IF n = 0 THEN "build" ELSE "spin"]
  /\ tid = [n \in Nodes |-> -1]
  /\ local_phase = Nothing /\ local_arrived = Nothing
  /\ agent = {}
  /\ entered = Nothing /\ left = Nothing
  /\ seen = [n \in Nodes |-> Nothing]
  /\ arrived_seen = Nothing /\ phase_seen = Nothing

Goto(n, l) == pc' = [pc EXCEPT ![n] = l]

Merge(u, v) == [n \in Nodes |-> IF u[n] > v[n] THEN u[n] ELSE v[n]]

(* A signed integer with the given largest value wraps around.             *)
Signed(v, max) ==
  LET w == v % (2 * (max + 1))
  IN  IF w > max THEN w - 2 * (max + 1) ELSE w

(* Conversion to signed char, and the addition of an atomic int.           *)
Char(v) == Signed(v, SCHAR_MAX)

Plus(v, d) == Signed(v + d, INT_MAX)

-----------------------------------------------------------------------------
(* rac_init.                                                               *)

BarrierUnused == UNCHANGED <<local_phase, local_arrived, entered, left, seen,
                             arrived_seen, phase_seen>>

(* Node 0 constructs its log, resets the thread ids and takes the first.   *)
BuildLog(n) ==
  /\ pc[n] = "build"
  /\ built' = built \cup {n}
  /\ curr_tid' = 1
  /\ tid' = [tid EXCEPT ![n] = 0]
  /\ Goto(n, "init_barrier")
  /\ UNCHANGED <<started, agent, valueVars>> /\ BarrierUnused

(* The constructor of root_barrier; its releases have nothing to publish.  *)
BuildBarrier(n) ==
  /\ pc[n] = "init_barrier"
  /\ target' = NODE_COUNT /\ arrived' = 0 /\ phase' = 0
  /\ Goto(n, "set_started")
  /\ UNCHANGED startVars /\ BarrierUnused

SetStarted(n) ==
  /\ pc[n] = "set_started"
  /\ started' = TRUE
  /\ Goto(n, "start_agent")
  /\ UNCHANGED <<curr_tid, built, tid, agent, valueVars>> /\ BarrierUnused

(* The loop on meta->started of the other nodes.                           *)
mutMayJoin == TRUE
MayJoin == started

(* They construct their own log and take a thread id.                      *)
Join(n) ==
  /\ pc[n] = "spin"
  /\ MayJoin
  /\ built' = built \cup {n}
  /\ tid' = [tid EXCEPT ![n] = curr_tid]
  /\ curr_tid' = curr_tid + 1
  /\ Goto(n, "start_agent")
  /\ UNCHANGED <<started, agent, valueVars>> /\ BarrierUnused

StartAgent(n) ==
  /\ pc[n] = "start_agent"
  /\ agent' = agent \cup {n}
  /\ Goto(n, "up")
  /\ UNCHANGED <<metaVars, tid, valueVars>> /\ BarrierUnused

-----------------------------------------------------------------------------
(* CXLBarrier::wait.                                                       *)

(* phase.load(acquire).                                                    *)
LoadPhase(n) == Char(phase)

AcquirePhase(n) == seen' = [seen EXCEPT ![n] = Merge(@, phase_seen)]

Wait(n) ==
  /\ pc[n] = "up"
  /\ entered[n] < MaxRounds
  /\ entered' = [entered EXCEPT ![n] = @ + 1]
  /\ seen' = [seen EXCEPT ![n][n] = entered[n] + 1]
  /\ Goto(n, "load_phase")
  /\ UNCHANGED <<startVars, valueVars, local_phase, local_arrived, left,
                 arrived_seen, phase_seen>>

ReadPhase(n) ==
  /\ pc[n] = "load_phase"
  /\ local_phase' = [local_phase EXCEPT ![n] = LoadPhase(n)]
  /\ AcquirePhase(n)
  /\ Goto(n, "arrive")
  /\ UNCHANGED <<startVars, valueVars, local_arrived, entered, left, arrived_seen,
                 phase_seen>>

(* arrived.fetch_add(1, acq_rel) + 1.                                      *)
Arrive(n) ==
  /\ pc[n] = "arrive"
  /\ local_arrived' = [local_arrived EXCEPT ![n] = Char(arrived) + 1]
  /\ arrived' = Plus(arrived, 1)
  /\ arrived_seen' = Merge(arrived_seen, seen[n])
  /\ seen' = [seen EXCEPT ![n] = Merge(@, arrived_seen)]
  /\ Goto(n, "compare")
  /\ UNCHANGED <<startVars, target, phase, local_phase, entered, left, phase_seen>>

(* The relaxed load of target.                                             *)
mutIsLast(n) == local_arrived[n] >= target - 1
IsLast(n) == local_arrived[n] = target

Compare(n) ==
  /\ pc[n] = "compare"
  /\ Goto(n, IF IsLast(n) THEN "reset" ELSE "poll")
  /\ UNCHANGED <<startVars, valueVars, local_phase, local_arrived, entered, left,
                 seen, arrived_seen, phase_seen>>

(* arrived.store(0, relaxed) of the last one.                              *)
mutReset(n) ==
  /\ pc[n] = "reset"
  /\ Goto(n, "advance")
  /\ UNCHANGED <<startVars, valueVars, local_phase, local_arrived, entered,
                 left, seen, arrived_seen, phase_seen>>

Reset(n) ==
  /\ pc[n] = "reset"
  /\ arrived' = 0
  /\ Goto(n, "advance")
  /\ UNCHANGED <<startVars, target, phase, local_phase, local_arrived, entered,
                 left, seen, arrived_seen, phase_seen>>

(* wait() returns.                                                         *)
Leave(n) ==
  /\ left' = [left EXCEPT ![n] = entered[n]]
  /\ Goto(n, "up")
  /\ UNCHANGED <<startVars, target, arrived, local_phase, local_arrived, entered,
                 arrived_seen>>

(* What the release side of an acq_rel fetch_add adds to a clock.          *)
mutReleased(n) == Nothing
Released(n) == seen[n]

(* phase.fetch_add(1, acq_rel).                                            *)
Advance(n) ==
  /\ pc[n] = "advance"
  /\ phase' = Plus(phase, 1)
  /\ phase_seen' = Merge(phase_seen, Released(n))
  /\ AcquirePhase(n)
  /\ Leave(n)

(* The loop of the others, which ends when the phase is another one.       *)
Poll(n) ==
  /\ pc[n] = "poll"
  /\ LoadPhase(n) # local_phase[n]
  /\ AcquirePhase(n)
  /\ Leave(n)
  /\ UNCHANGED <<phase, phase_seen>>

-----------------------------------------------------------------------------
Starting(n) ==
  BuildLog(n) \/ BuildBarrier(n) \/ SetStarted(n) \/ Join(n) \/ StartAgent(n)

Waiting(n) ==
  ReadPhase(n) \/ Arrive(n) \/ Compare(n) \/ Reset(n) \/ Advance(n) \/ Poll(n)

Next == \E n \in Nodes : Starting(n) \/ Wait(n) \/ Waiting(n)

Spec == Init /\ [][Next]_vars

(* Main threads are scheduled and come to the barrier.                     *)
FairSpec ==
  /\ Spec
  /\ \A n \in Nodes : WF_vars(Starting(n) \/ Waiting(n)) /\ WF_vars(Wait(n))

-----------------------------------------------------------------------------
Ints == -(INT_MAX + 1) .. INT_MAX

(* Values fit their widths, counts of calls the bound; a count returned     *)
(* through a char is never negative.                                       *)
TypeOK ==
  /\ started \in BOOLEAN
  /\ curr_tid \in 0 .. NODE_COUNT /\ built \subseteq Nodes /\ agent \subseteq Nodes
  /\ target \in {0, NODE_COUNT} /\ arrived \in Nodes \cup {NODE_COUNT}
  /\ phase \in Ints
  /\ pc \in [Nodes -> {"build", "init_barrier", "set_started", "spin",
                       "start_agent", "up", "load_phase", "arrive", "compare",
                       "reset", "advance", "poll"}]
  /\ tid \in [Nodes -> Nodes \cup {-1}]
  /\ local_phase \in [Nodes -> Ints]
  /\ local_arrived \in [Nodes -> 0 .. NODE_COUNT]
  /\ entered \in [Nodes -> 0 .. MaxRounds]
  /\ left \in [Nodes -> 0 .. MaxRounds]
  /\ seen \in [Nodes -> [Nodes -> 0 .. MaxRounds]]
  /\ arrived_seen \in [Nodes -> 0 .. MaxRounds]
  /\ phase_seen \in [Nodes -> 0 .. MaxRounds]

(* Nobody leaves a round before everybody has entered it, although the     *)
(* fast ones are already in the next round while the slow ones still look  *)
(* at the phase of this one, and the phase as it is compared wraps.        *)
NoEarlyLeave == \A n, m \in Nodes : left[n] <= entered[m]

(* Who leaves a round has synchronised with every arrival in it, also when *)
(* it was woken by a node that it never communicated with otherwise: what  *)
(* any node did before its wait() happens before.  The relaxed store and    *)
(* load take no part in this.                                              *)
LeaveSeesAll == \A n, m \in Nodes : pc[n] = "up" => seen[n][m] >= left[n]

(* Behind the first barrier every node has a log that can be consumed and  *)
(* an agent to consume the others', and no two main threads share an id.   *)
AllStarted ==
  /\ \A n \in Nodes : left[n] > 0 => built = Nodes /\ agent = Nodes
  /\ \A n, m \in Nodes : tid[n] = tid[m] /\ tid[n] # -1 => n = m

(* Every call of wait() returns.                                           *)
WaitEnds == \A n \in Nodes : pc[n] = "load_phase" ~> pc[n] = "up"
===============================================================================
