------------------------------ MODULE MCRegistry ------------------------------
(* Registry on small instances.  Handler threads, node ids and resource lists *)
(* are only compared for equality, so runs of safety properties permute them. *)
EXTENDS Registry, TLC

Symmetry == Permutations(Handlers) \cup Permutations(Nodes) \cup Permutations(Resources)
=============================================================================
