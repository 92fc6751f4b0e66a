------------------------------ MODULE MCDownload ------------------------------
(* Download on small instances.  Nothing tells the other nodes apart but the  *)
(* block sizes and the names, and each set of them is closed under exchanging *)
(* these nodes.                                                               *)
EXTENDS Download, TLC

Every(n) == [p \in Peers |-> n]
Alike == {[size |-> Every(2), names |-> Every(1)]}
OneOrTwo ==
    {[size |-> s, names |-> Every(1)] : s \in {f \in [Peers -> {1, 2}] : f[Self] = 2}}
Twice(p) == [size |-> Every(2), names |-> [Every(1) EXCEPT ![p] = 2]]
AllOnceOrOneTwice == OneOrTwo \cup {Twice(p) : p \in Peers \ {Self}}
Symmetry == Permutations(Peers \ {Self})
=============================================================================
