------------------------------- MODULE MCSwarm --------------------------------
(* Swarm on small instances.  Nodes and ids are only compared for equality.   *)
EXTENDS Swarm
LOCAL INSTANCE TLC

TwoFiles == {<<2>>, <<1, 2>>}
Symmetry == Permutations(Nodes) \cup Permutations(Ids)
===============================================================================
