----------------------------- MODULE CameraHub -----------------------------
(***************************************************************************)
(* The camera hub (gui/pages/camera_hub_page.py) and what the main window   *)
(* keeps for it (gui/main_window.py): the cameras whose configuration is    *)
(* complete, which of them is Master, which one the wizard is working on,   *)
(* and the LED panel that single-panel commands of the next test go to.     *)
(* The actions here say what a click does to that state; CameraWizard says  *)
(* on which page, and what it does to the wizard.                           *)
(***************************************************************************)
EXTENDS Integers, FiniteSets

CONSTANTS
  Serials,     \* the RealSense devices plugged in, all of one model
  Choices,     \* what Stream Config offers, see ChoiceType
  TwoPanels,   \* settings.yaml has a dual_panel section
  None,        \* no device, no panel, nothing captured yet
  MaxCameras,  \* MAX_CAMERAS
  MaxSlots     \* bound: the camera slots ever handed out

\* A test and sensor options: which sensors its two streams are, whether the
\* operator ticks "Use dual LED panel", and whether its color stream is too
\* large for a genlock slave.
ChoiceType == [test : STRING, streams : {"infrared", "color", "both"},
               dual : BOOLEAN, heavy : BOOLEAN]

ASSUME HubAssumption ==
  /\ IsFiniteSet(Serials)
  /\ Choices \subseteq ChoiceType /\ Choices # {} /\ TwoPanels \in BOOLEAN
  /\ {MaxCameras, MaxSlots} \subseteq Nat

\* Camera ids; NoCamera too can become a key of _cameras, as Python's None.
NoCamera == 0
Ids == NoCamera .. MaxSlots

\* The device and the streams that a region, an image or a calibration is of.
Subject == [serial : Serials, choice : Choices]

ASSUME NoneAssumption == None \notin Serials \cup Subject \cup Choices \cup {"infrared", "color"}

\* The slugs of a test's two streams, keys of config.yaml's LED positions.
Slugs(streams) ==
  IF streams = "infrared" THEN {"infrared1", "infrared2"}
  ELSE IF streams = "color" THEN {"color1", "color2"} ELSE {"infrared1", "color1"}

\* The positions loaded for a test: per slug, what they were taken of.
Positions == UNION {[Slugs(c.streams) -> Subject] : c \in Choices}

\* What _on_tuning_done keeps of a camera: where the regions and the LED
\* positions in its configuration were taken.  Of the tuned switch time only
\* its arrival on the live page matters: see CameraWizard's LiveContext.
Config == [serial : Serials, choice : Choices, test : STRING, roi : Subject, leds : Positions]

VARIABLES
  cameras,  \* _cameras: a function from the ids of configured cameras
  master,   \* _master_camera_id
  editing,  \* _editing_camera_id
  slots,    \* _next_camera_slot - 1
  target    \* the panel of single-panel commands, None to leave the hub alone

hubVars == <<cameras, master, editing, slots, target>>

HubTypeOK ==
  /\ DOMAIN cameras \subseteq Ids /\ \A id \in DOMAIN cameras : cameras[id] \in Config
  /\ master \in Ids /\ editing \in Ids /\ slots \in 0 .. MaxSlots
  /\ target \in {None, "infrared", "color"}

HubInit ==
  /\ cameras = <<>> /\ master = NoCamera /\ editing = NoCamera /\ slots = 0
  /\ target = None

Configured == {cameras[id].serial : id \in DOMAIN cameras}

\* _apply_single_panel_target: the one panel all these tests look at, if any.
PanelFor(choices) ==
  LET panels == {c.streams : c \in choices}
  IN IF TwoPanels /\ Cardinality(panels) = 1 /\ "both" \notin panels /\ \A c \in choices : ~c.dual
     THEN CHOOSE p \in panels : TRUE ELSE None

ChoicesOf(ids) == {cameras[id].choice : id \in ids}

\* _new_camera_slot_id
NewSlot ==
  /\ slots < MaxSlots
  /\ slots' = slots + 1 /\ editing' = slots + 1

\* CameraHubPage.set_cameras: the Add button has room for another camera.
AddEnabled == Cardinality(DOMAIN cameras) < MaxCameras

\* CameraHubPage._can_start: exactly one card of the hub says Master.
CanStart == Cardinality({id \in DOMAIN cameras : id = master}) = 1

\* _slave_genlock_color_resolution_conflicts
Conflicts == {id \in DOMAIN cameras : id # master /\ cameras[id].choice.heavy}

\* Mutation: a committed camera becomes Master only when no one was before.
CommitKeepingMaster(config) ==
  /\ cameras' = [id \in DOMAIN cameras \cup {editing} |->
                   IF id = editing THEN config ELSE cameras[id]]
  /\ master' = IF slots = 1 THEN editing ELSE master
  /\ editing' = NoCamera
  /\ UNCHANGED <<slots, target>>

\* _on_tuning_done: the first camera becomes the Master.
Commit(config) ==
  /\ cameras' = [id \in DOMAIN cameras \cup {editing} |->
                   IF id = editing THEN config ELSE cameras[id]]
  /\ master' = IF DOMAIN cameras = {} THEN editing ELSE master
  /\ editing' = NoCamera
  /\ UNCHANGED <<slots, target>>

\* _on_master_change_requested
SetMaster(id) ==
  /\ id \in DOMAIN cameras /\ master' = id
  /\ UNCHANGED <<cameras, editing, slots, target>>

\* _on_remove_camera_requested: the camera configured first takes over, which
\* has the least id, as slots count up and one flow follows the other.
RemoveCamera(id) ==
  /\ id \in DOMAIN cameras
  /\ cameras' = [i \in DOMAIN cameras \ {id} |-> cameras[i]]
  /\ master' = IF master # id THEN master
               ELSE IF DOMAIN cameras = {id} THEN NoCamera
               ELSE CHOOSE i \in DOMAIN cameras \ {id} : \A j \in DOMAIN cameras \ {id} : i <= j
  /\ UNCHANGED <<editing, slots, target>>

\* Mutation: the panel is chosen when a camera is configured, not at Start.
StartWithTheLastPanel(ids) == CanStart /\ target' = target

\* _on_start_multi_camera_session_requested, before it looks at the cameras.
PointPanel(ids) == CanStart /\ target' = PanelFor(ChoicesOf(ids))

-----------------------------------------------------------------------------
(* As soon as a camera is configured, exactly one configured camera is the  *)
(* Master, whatever cameras are added, edited, re-designated and removed:   *)
(* Start is never locked out, and a run always has its genlock master.      *)
ExactlyOneMaster ==
  /\ DOMAIN cameras # {} => CanStart
  /\ DOMAIN cameras = {} => master = NoCamera

(* "the same physical camera can't be added to the test twice", the comment *)
(* says where Add hides the configured cameras' devices from Device Select. *)
NoCameraTwice ==
  \A i, j \in DOMAIN cameras : cameras[i].serial = cameras[j].serial => i = j
=============================================================================
