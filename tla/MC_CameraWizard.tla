-------------------------- MODULE MC_CameraWizard --------------------------
EXTENDS CameraWizard, TLC

\* An infrared test for one panel, and one that scans both, whose color stream
\* is too large for a genlock slave.
Infrared == [test |-> "ir", streams |-> "infrared", dual |-> FALSE, heavy |-> FALSE]
Both     == [test |-> "ir-rgb", streams |-> "both", dual |-> TRUE, heavy |-> TRUE]
MCChoices == {Infrared, Both}

CONSTANTS s1, s2

\* In its dedicated mode, one test matches s1 and none matches s2.
MCOffered ==
  s1 :> [m \in Modes |-> IF m = "dual" THEN {Infrared, Both} ELSE {Both}] @@
  s2 :> [m \in Modes |-> IF m = "dual" THEN {Infrared} ELSE {}]
=============================================================================
