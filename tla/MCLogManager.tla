----------------------------- MODULE MCLogManager -----------------------------
(* Instances of LogManager for TLC.                                        *)
EXTENDS LogInvariant, TLC

Symmetry == Permutations(Producers)
===============================================================================
