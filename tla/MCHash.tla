------------------------------- MODULE MCHash --------------------------------
(***************************************************************************)
(* The hash table on small instances, with every hash function from the    *)
(* keys to a few values that collide in their low bits and differ in those *)
(* the perturbation brings in.                                             *)
(***************************************************************************)
EXTENDS Hash, TLC

ASSUME ProbeAssumption == ProbeVisitsAll

Symmetry == Permutations(Keys) \cup Permutations(Values)
==============================================================================
