------------------------------ MODULE MC_GmslSync ------------------------------
(* Two nodes, as the code insists on, and two syncs: an old run's and a new one's. *)
EXTENDS GmslSync, TLC

CONSTANTS n1, n2, y1, y2

MCNodes  == {n1, n2}
MCSyncs  == {y1, y2}
Symmetry == Permutations(MCNodes) \cup Permutations(MCSyncs)
================================================================================
