------------------------- MODULE MC_DualPanelControl -------------------------
(* Two settings, so that a start can keep or change what the last one set.  *)
EXTENDS DualPanelControl, TLC

CONSTANTS s1, s2

MCSettings == {s1, s2}
Symmetry   == Permutations(MCSettings)
=============================================================================
