------------------------------ MODULE MCCoherence -----------------------------
(* Instances of Coherence for TLC.                                         *)
EXTENDS CoherenceInvariant, TLC

CONSTANTS t1, t2, t3, A, B, C

(* One thread on each of two nodes.                                        *)
OneEach == t1 :> A @@ t2 :> B

(* Two threads share the second node.                                      *)
TwoShare == t1 :> A @@ t2 :> B @@ t3 :> B

(* One thread on each of three nodes.                                      *)
ThreeNodes == t1 :> A @@ t2 :> B @@ t3 :> C

(* The third thread is created by the second.                              *)
NoChildren  == <<>>
ThirdIsChild == t3 :> t2

(* Build options.                                                          *)
Build(help, eager, inst) ==
  [CONSUME_HELPING |-> help, EAGER_INVALIDATE |-> eager, INVALIDATE_INST |-> inst]
Default     == {Build(TRUE, TRUE, "CLFLUSHOPT")}
HelpInOrder == {Build(TRUE, TRUE, "CLFLUSH")}
HelpBoth    == {Build(TRUE, TRUE, "CLFLUSH"), Build(TRUE, FALSE, "CLFLUSH")}
AgentOnly   == {Build(FALSE, TRUE, "CLFLUSHOPT"), Build(FALSE, FALSE, "CLFLUSHOPT")}

(* Bounds on the operations of each thread.                                *)
FourEach  == t1 :> 4 @@ t2 :> 4
ThreeEach == t1 :> 3 @@ t2 :> 3
ShareOps  == t1 :> 2 @@ t2 :> 3 @@ t3 :> 2
ChainOps  == t1 :> 3 @@ t2 :> 2 @@ t3 :> 1
===============================================================================
