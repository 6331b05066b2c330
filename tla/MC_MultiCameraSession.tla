----------------------- MODULE MC_MultiCameraSession -----------------------
(* Instances of MultiCameraSession: two cameras, and the rigs that make     *)
(* each branch of start_all happen.                                         *)
EXTENDS MultiCameraSession, FiniteSets

CONSTANTS c1, c2, w1, w2

MCCameras == {c1, c2}
MCWirings == {w1, w2}

NoPanels == [c \in MCCameras |-> NoWiring]
OnePanel == [NoPanels EXCEPT ![c1] = w1]
Same     == [c \in MCCameras |-> w1]
Differ   == [Same EXCEPT ![c2] = w2]

RigOf(synced, reset, wiring, gmsl) ==
  [synced |-> synced, reset |-> reset, wiring |-> wiring, gmsl |-> gmsl]

(* Genlocked cameras on their own panels; a genlocked pair sharing the dual *)
(* panels, one of them hardware-reset; a GMSL pair and its free-running     *)
(* baseline, sharing the panels; cameras whose wiring differs.              *)
MCRigs == {
  RigOf(MCCameras, {}, OnePanel, "none"),
  RigOf(MCCameras, {c2}, Same, "none"),
  RigOf({}, {}, Same, "tsc"),
  RigOf({c1}, {c1}, Same, "guard"),
  RigOf({c1, c2}, {}, Differ, "none") }
=============================================================================
