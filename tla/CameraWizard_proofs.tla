------------------------- MODULE CameraWizard_proofs -------------------------
(***************************************************************************)
(* What holds of CameraWizard for any devices, tests, bounds and switch      *)
(* times.  That exactly one camera is Master holds always; the other         *)
(* properties hold until Continue is clicked inside a running calibration    *)
(* (walkedOut), which nothing in the code prevents: MC_LeftMidCalibration    *)
(* shows what that click does.                                              *)
(***************************************************************************)
EXTENDS CameraWizard, FiniteSetTheorems, Minimum, TLAPS

-----------------------------------------------------------------------------
(* The inductive invariant.                                                 *)

MasterInv ==
  /\ DOMAIN cameras \subseteq Ids /\ editing \in Ids /\ slots \in 0 .. MaxSlots
  /\ master = NoCamera \/ master \in DOMAIN cameras
  /\ DOMAIN cameras # {} => master \in DOMAIN cameras

(* A handler that holds the GUI thread, and whatever captures, belongs to    *)
(* the page that is shown.                                                  *)
PageInv ==
  /\ busy \in {"stopPreview", "backToDevice", "configChosen", "switch"} => page = "config"
  /\ busy = "roi" => page = "roi"
  /\ busy = "tuningSet" => page = "calibration"
  /\ busy \in {"backToCalibration", "tuningDone", "confirm"} => page = "tuning"
  /\ busy \in {"question", "backToHub"} => page = "live"
  /\ preview # "none" => page = "config"
  /\ calib.running => page = "calibration" /\ busy = "idle"
  /\ tuning.thread # "none" => page = "tuning"
  /\ live.thread \in Alive => page = "live"

Here == [serial |-> device, choice |-> picks]

(* The pages of a flow, each over what the ones before it chose.            *)
ConfigInv ==
  page \in {"config", "roi", "calibration", "tuning"} =>
    /\ device \in Serials /\ form.serial = device /\ form.choice \in Choices
    /\ form.mode = mode[device] \/ form.failed

RoiInv ==
  page \in {"roi", "calibration", "tuning"} =>
    picks \in Choices /\ form.choice = picks /\ roiPage = Here

CalibInv ==
  page \in {"calibration", "tuning"} =>
    /\ calib.args = Here /\ calib.roi = Here
    /\ calib.result \in {None, Here}
    /\ calib.result = Here => \A k \in Slugs(picks.streams) : leds[k] = Here

TuningInv ==
  (page = "tuning" \/ busy = "tuningSet") =>
    /\ calib.result = Here
    /\ pending = [serial |-> device, choice |-> picks, roi |-> Here]
    /\ tuning.leds = [k \in Slugs(picks.streams) |-> Here]

\* Every configuration is of one device and one test.
Consistent(c) ==
  /\ c.roi = [serial |-> c.serial, choice |-> c.choice] /\ c.test = c.choice.test
  /\ \A k \in Slugs(c.choice.streams) : c.leds[k] = c.roi

FlowInv ==
  /\ ConfigInv /\ RoiInv /\ CalibInv /\ TuningInv
  /\ \A id \in DOMAIN cameras : Consistent(cameras[id])

PanelInv ==
  /\ page \in {"roi", "calibration", "tuning"} => target = PanelFor({picks})
  /\ page = "live" => target = PanelFor({live.config.choice})
  /\ page = "multi" => target = PanelFor(ChoicesOf(DOMAIN cameras))

SpeedInv ==
  /\ live.start => live.thread \notin Alive /\ live.spin = live.confirmed
  /\ live.thread \in Alive => live.used = live.spin
  /\ busy = "confirm" /\ tuning.dual => tuning.thread = "none"
  /\ live.running => ~live.start

WizardInv == TypeOK /\ MasterInv /\ PageInv /\ FlowInv /\ PanelInv /\ SpeedInv
-----------------------------------------------------------------------------
(* One Master.                                                              *)

LEMMA CommitMaster ==
  ASSUME MasterInv, NEW config, Commit(config)
  PROVE  MasterInv'
<1>1. DOMAIN cameras' = DOMAIN cameras \cup {editing}
  BY DEF Commit
<1>2. editing' = NoCamera /\ NoCamera \in Ids /\ slots' = slots
  BY HubAssumption DEF Commit, NoCamera, Ids
<1>3. master' \in DOMAIN cameras'
  BY <1>1 DEF Commit, MasterInv
<1> QED  BY <1>1, <1>2, <1>3 DEF MasterInv

LEMMA RemoveMaster ==
  ASSUME MasterInv, NEW id \in Ids, RemoveCamera(id)
  PROVE  MasterInv'
<1> DEFINE rest == DOMAIN cameras \ {id}
<1>1. DOMAIN cameras' = rest /\ UNCHANGED <<editing, slots>>
  BY DEF RemoveCamera
<1>2. rest \subseteq Nat
  BY HubAssumption DEF MasterInv, Ids, NoCamera
<1>3. CASE rest = {}
  <2>1. DOMAIN cameras = {id} /\ master = id
    BY <1>3 DEF RemoveCamera, MasterInv
  <2> QED  BY <1>1, <1>3, <2>1 DEF RemoveCamera, MasterInv
<1>4. CASE rest # {}
  \* The camera with the lowest id takes over.
  <2>1. \E i \in rest : \A j \in rest : i <= j
    BY <1>2, <1>4, LeastOf
  <2>2. (CHOOSE i \in rest : \A j \in rest : i <= j) \in rest
    BY <2>1
  <2>3. master' \in rest
    BY <1>4, <2>2 DEF RemoveCamera, MasterInv
  <2> QED  BY <1>1, <1>4, <2>3 DEF MasterInv
<1> QED  BY <1>3, <1>4

LEMMA InitMasterInv == Init => MasterInv
BY HubAssumption DEF Init, HubInit, MasterInv, Ids, NoCamera

(* The hub and the start of a wizard flow are all that changes the cameras, *)
(* the Master, or the camera the wizard works on.                           *)
LEMMA NextMasterInv == MasterInv /\ [Next]_vars => MasterInv'
<1> SUFFICES ASSUME MasterInv, [Next]_vars PROVE MasterInv'
  OBVIOUS
<1> USE DEF hubVars
<1>1. ASSUME UNCHANGED <<cameras, master, editing, slots>> PROVE MasterInv'
  BY <1>1 DEF MasterInv
<1>2. CASE AddCamera
  BY <1>2, HubAssumption DEF AddCamera, NewSlot, MasterInv, Ids, NoCamera
<1>3. CASE HubClick
  BY <1>3, RemoveMaster DEF HubClick, SetMaster, MasterInv
<1>4. ASSUME NEW id \in Ids, EditCamera(id) PROVE MasterInv'
  BY <1>4, HubAssumption DEF EditCamera, MasterInv, Ids, NoCamera
<1>5. ASSUME NEW s \in Serials, DeviceChosen(s) PROVE MasterInv'
  BY <1>5, HubAssumption DEF DeviceChosen, NewSlot, MasterInv, Ids, NoCamera
<1>6. CASE TuningStopped
  BY <1>1, <1>6, CommitMaster DEF TuningStopped
<1>7. CASE DeviceBack \/ PlainBack \/ StartPreview \/ StopPreview \/ ConfigBack \/ ConfigNext
           \/ RequestModeSwitch \/ ModeSwitched \/ ModeSwitchRaises
           \/ PreviewStopped \/ PreviewFails \/ PreviewReturns \/ PreviewError
  BY <1>1, <1>7 DEF DeviceBack, PlainBack, StartPreview, StopPreview, ConfigBack, ConfigNext,
     RequestModeSwitch, ModeSwitched, ModeSwitchRaises, PreviewStopped, PreviewFails,
     PreviewReturns, PreviewError, ConfigVars
<1>8. CASE RoiCapture \/ RoiFails \/ RoiChosen
           \/ RunCalibration \/ CalibrationFails \/ CalibrationSucceeds \/ ContinueCalibration
  BY <1>1, <1>8 DEF RoiCapture, RoiFails, RoiChosen, RunCalibration, CalibrationFails,
     CalibrationSucceeds, ContinueCalibration
<1>9. CASE StartTuning \/ StopTuning \/ TuningReturns \/ TuningFinished \/ TurnTuningSpin
           \/ ConfirmTuning \/ Confirmed \/ TuningBack \/ TuningContinue
  BY <1>1, <1>9 DEF StartTuning, StopTuning, TuningReturns, TuningFinished, TurnTuningSpin,
     ConfirmTuning, Confirmed, TuningBack, TuningContinue, TuningOnly
<1>10. CASE StartOneCamera \/ StartCameras
  BY <1>1, <1>10 DEF StartOneCamera, StartCameras
<1>11. CASE StartLive \/ StopLive \/ LiveReturns \/ LiveFinished \/ TurnLiveSpin \/ ConfirmLive
            \/ LiveBack \/ AnswerNo \/ AnswerYes \/ LiveStopped
  BY <1>1, <1>11 DEF StartLive, StopLive, LiveReturns, LiveFinished, TurnLiveSpin, ConfirmLive,
     LiveBack, AnswerNo, AnswerYes, LiveStopped, LiveOnly
<1>12. CASE UNCHANGED vars
  BY <1>1, <1>12 DEF vars
<1> QED
  BY <1>2, <1>3, <1>4, <1>5, <1>6, <1>7, <1>8, <1>9, <1>10, <1>11, <1>12 DEF Next

THEOREM MasterInvariant == Spec => []MasterInv
BY InitMasterInv, NextMasterInv, PTL DEF Spec

(* Whatever cameras are added, edited, designated and removed in the hub,    *)
(* and whatever a wizard flow does, one configured camera is the Master.    *)
THEOREM OneMaster == Spec => []ExactlyOneMaster
<1>1. MasterInv => ExactlyOneMaster
  <2> SUFFICES ASSUME MasterInv PROVE ExactlyOneMaster
    OBVIOUS
  <2>1. CASE DOMAIN cameras = {}
    BY <2>1 DEF MasterInv, ExactlyOneMaster
  <2>2. CASE DOMAIN cameras # {}
    <3>1. {id \in DOMAIN cameras : id = master} = {master}
      BY <2>2 DEF MasterInv
    <3>2. Cardinality({master}) = 1
      BY FS_Singleton
    <3> QED  BY <2>2, <3>1, <3>2 DEF ExactlyOneMaster, CanStart
  <2> QED  BY <2>1, <2>2
<1> QED  BY <1>1, MasterInvariant, PTL
-----------------------------------------------------------------------------
(* Types.                                                                   *)

\* The start button of a live page, and nothing else, follows its switch times.
LEMMA GatedIs ==
  ASSUME NEW l \in LiveType
  PROVE  /\ Gated(l) \in LiveType
         /\ Gated(l).config = l.config /\ Gated(l).spin = l.spin /\ Gated(l).confirmed = l.confirmed
         /\ Gated(l).used = l.used /\ Gated(l).running = l.running /\ Gated(l).thread = l.thread
         /\ l.running => Gated(l).start = l.start
         /\ ~l.running => Gated(l).start = (l.spin = l.confirmed)
<1>1. l = [config |-> l.config, spin |-> l.spin, confirmed |-> l.confirmed, used |-> l.used,
           start |-> l.start, running |-> l.running, thread |-> l.thread]
  BY DEF LiveType
<1>2. Gated(l) = [config |-> l.config, spin |-> l.spin, confirmed |-> l.confirmed, used |-> l.used,
                  start |-> IF l.running THEN l.start ELSE l.spin = l.confirmed,
                  running |-> l.running, thread |-> l.thread]
  BY <1>1 DEF Gated
<1>3. (IF l.running THEN l.start ELSE l.spin = l.confirmed) \in BOOLEAN
  BY DEF LiveType
<1> QED  BY <1>2, <1>3 DEF LiveType

(* The panel for some tests is a panel, if it is any.                       *)
LEMMA PanelForTyped ==
  ASSUME NEW C, C \subseteq Choices
  PROVE  PanelFor(C) \in {None, "infrared", "color"}
<1> DEFINE panels == {c.streams : c \in C}
<1>1. panels \subseteq {"infrared", "color", "both"}
  BY HubAssumption DEF ChoiceType
<1>2. IsFiniteSet({"infrared", "color", "both"})
  <2>1. IsFiniteSet({"infrared"}) /\ IsFiniteSet({"color"}) /\ IsFiniteSet({"both"})
    BY FS_Singleton
  <2>2. IsFiniteSet({"infrared"} \cup {"color"})
    BY <2>1, FS_Union
  <2>3. IsFiniteSet(({"infrared"} \cup {"color"}) \cup {"both"})
    BY <2>1, <2>2, FS_Union
  <2>4. {"infrared", "color", "both"} = ({"infrared"} \cup {"color"}) \cup {"both"}
    OBVIOUS
  <2> QED  BY <2>3, <2>4
<1>3. IsFiniteSet(panels)
  BY <1>1, <1>2, FS_Subset
<1>4. CASE TwoPanels /\ Cardinality(panels) = 1 /\ "both" \notin panels
  <2>1. PICK x : panels = {x}
    BY <1>3, <1>4, FS_Singleton
  <2>2. (CHOOSE p \in panels : TRUE) = x
    BY <2>1
  <2>3. x \in {"infrared", "color"}
    BY <1>1, <1>4, <2>1
  <2> QED  BY <2>2, <2>3 DEF PanelFor
<1>5. CASE ~(TwoPanels /\ Cardinality(panels) = 1 /\ "both" \notin panels)
  BY <1>5 DEF PanelFor
<1> QED  BY <1>4, <1>5

(* What the pages of a flow hand on has the type of what they keep.         *)
LEMMA HereTyped ==
  ASSUME device \in Serials, picks \in Choices
  PROVE  /\ Here \in Subject /\ Here # None
         /\ [k \in Slugs(picks.streams) |-> Here] \in Positions
         /\ Slugs(picks.streams) \subseteq AllSlugs
BY NoneAssumption DEF Here, Subject, Positions, AllSlugs

LEMMA HubTyped ==
  ASSUME HubTypeOK, MasterInv, MasterInv', target' \in {None, "infrared", "color"},
         \A id \in DOMAIN cameras' : cameras'[id] \in Config
  PROVE  HubTypeOK'
<1>1. NoCamera \in Ids
  BY HubAssumption DEF NoCamera, Ids
<1>2. master' \in Ids /\ editing' \in Ids /\ slots' \in 0 .. MaxSlots /\ DOMAIN cameras' \subseteq Ids
  BY <1>1 DEF MasterInv
<1> QED  BY <1>2 DEF HubTypeOK

LEMMA InitTypeOK == Init => TypeOK
<1> SUFFICES ASSUME Init PROVE TypeOK
  OBVIOUS
<1>1. HubTypeOK
  BY HubAssumption DEF Init, HubInit, HubTypeOK, Ids, NoCamera
<1>2. form \in FormType /\ calib \in CalibType
  BY DEF Init, NoForm, NoCalib, FormType, CalibType, Maybe, Modes
<1>3. tuning \in TuningType /\ live \in LiveType
  BY WizardAssumption DEF Init, NoTuning, NoLive, TuningType, LiveType, Maybe, Phases
<1>4. leds \in [AllSlugs -> Maybe(Subject)] /\ mode \in [Serials -> Modes]
  BY DEF Init, Maybe
<1>5. live.running <=> live.thread # "none"
  BY DEF Init, NoLive
<1> QED  BY <1>1, <1>2, <1>3, <1>4, <1>5 DEF Init, TypeOK, Pages, Busy, Phases, Maybe

(* What only the single-camera page changes, only Threshold Tuning, only     *)
(* Stream Config.                                                           *)
LEMMA LiveStepTyped ==
  ASSUME TypeOK, UNCHANGED LiveOnly, busy' \in Busy,
         live' \in LiveType, live'.running <=> live'.thread # "none"
  PROVE  TypeOK'
BY DEF TypeOK, LiveOnly, flowVars, hubVars, HubTypeOK

LEMMA TuningStepTyped ==
  ASSUME TypeOK, UNCHANGED TuningOnly, busy' \in Busy, tuning' \in TuningType
  PROVE  TypeOK'
BY DEF TypeOK, TuningOnly, flowVars, hubVars, HubTypeOK

LEMMA ConfigStepTyped ==
  ASSUME TypeOK, UNCHANGED ConfigVars, busy' \in Busy, form' \in FormType, preview' \in Phases
  PROVE  TypeOK'
BY DEF TypeOK, ConfigVars, flowVars, hubVars, HubTypeOK

LEMMA LiveTypeOK ==
  ASSUME TypeOK,
         \/ StartLive \/ StopLive \/ LiveReturns \/ LiveFinished \/ TurnLiveSpin \/ ConfirmLive
         \/ AnswerNo \/ AnswerYes
  PROVE  TypeOK'
<1> USE WizardAssumption DEF Phases, Alive
<1>0. live \in LiveType /\ (live.running <=> live.thread # "none") /\ busy \in Busy
  BY DEF TypeOK
<1>1. CASE StartLive
  <2>1. /\ live'.running /\ live'.thread = "running" /\ live' \in LiveType
    BY <1>0, <1>1 DEF StartLive, LiveType
  <2> QED  BY <1>0, <1>1, <2>1, LiveStepTyped DEF StartLive
<1>2. CASE StopLive \/ LiveReturns \/ AnswerYes
  <2>1. \E p \in Phases : live' = [live EXCEPT !.thread = p] /\ (p = "none" <=> live.thread = "none")
    BY <1>0, <1>2 DEF StopLive, LiveReturns, AnswerYes, LiveType
  <2>2. live' \in LiveType /\ (live'.running <=> live'.thread # "none")
    BY <1>0, <2>1 DEF LiveType
  <2>3. busy' \in Busy /\ UNCHANGED LiveOnly
    BY <1>0, <1>2 DEF StopLive, LiveReturns, AnswerYes, Busy, Waits
  <2> QED  BY <2>2, <2>3, LiveStepTyped
<1>3. CASE LiveFinished
  <2> DEFINE l == [live EXCEPT !.thread = "none", !.running = FALSE, !.used = DefaultTime]
  <2>1. l \in LiveType /\ l.thread = "none" /\ ~l.running
    BY <1>0 DEF LiveType
  <2>2. live' = Gated(l)
    BY <1>3 DEF LiveFinished
  <2> HIDE DEF l
  <2> QED  BY <1>0, <1>3, <2>1, <2>2, GatedIs, LiveStepTyped DEF LiveFinished
<1>4. CASE TurnLiveSpin
  <2>1. PICK t \in Times : live' = Gated([live EXCEPT !.spin = t])
    BY <1>4 DEF TurnLiveSpin
  <2> DEFINE l == [live EXCEPT !.spin = t]
  <2>2. l \in LiveType /\ (l.running <=> l.thread # "none")
    BY <1>0 DEF LiveType
  <2> HIDE DEF l
  <2>3. live' \in LiveType /\ (live'.running <=> live'.thread # "none")
    BY <2>1, <2>2, GatedIs DEF l
  <2> QED  BY <1>0, <1>4, <2>3, LiveStepTyped DEF TurnLiveSpin
<1>5. CASE ConfirmLive
  <2> DEFINE l == [live EXCEPT !.confirmed = live.spin]
  <2>1. l \in LiveType /\ (l.running <=> l.thread # "none")
    BY <1>0 DEF LiveType
  <2>2. live' = Gated(l)
    BY <1>5 DEF ConfirmLive
  <2> HIDE DEF l
  <2> QED  BY <1>0, <1>5, <2>1, <2>2, GatedIs, LiveStepTyped DEF ConfirmLive
<1>6. CASE AnswerNo
  BY <1>0, <1>6, LiveStepTyped DEF AnswerNo, Busy
<1> QED  BY <1>1, <1>2, <1>3, <1>4, <1>5, <1>6

LEMMA TuningTypeOK ==
  ASSUME TypeOK,
         \/ StartTuning \/ StopTuning \/ TuningReturns \/ TuningFinished \/ TurnTuningSpin
         \/ ConfirmTuning \/ Confirmed \/ TuningBack
  PROVE  TypeOK'
<1>0. tuning \in TuningType /\ busy \in Busy
  BY DEF TypeOK
<1>1. \A p \in Phases : [tuning EXCEPT !.thread = p] \in TuningType
  BY <1>0 DEF TuningType
<1>2. \A t \in Times : [tuning EXCEPT !.spin = t] \in TuningType /\ [tuning EXCEPT !.applied = t] \in TuningType
  BY <1>0 DEF TuningType
<1>3. tuning.spin \in Times /\ tuning.thread \in Phases
  BY <1>0 DEF TuningType
<1>4. UNCHANGED TuningOnly /\ busy' \in Busy
  BY <1>0 DEF StartTuning, StopTuning, TuningReturns, TuningFinished, TurnTuningSpin, ConfirmTuning,
     Confirmed, TuningBack, StopTuningThen, Busy, Waits
<1>5. tuning' \in TuningType
  <2>1. CASE StartTuning \/ StopTuning \/ TuningReturns \/ TuningFinished \/ TuningBack
    BY <1>1, <1>3, <2>1 DEF StartTuning, StopTuning, TuningReturns, TuningFinished, TuningBack,
       StopTuningThen, Phases, Alive
  <2>2. CASE TurnTuningSpin \/ ConfirmTuning \/ Confirmed
    BY <1>0, <1>2, <1>3, <2>2 DEF TurnTuningSpin, ConfirmTuning, Confirmed
  <2> QED  BY <2>1, <2>2
<1> QED  BY <1>4, <1>5, TuningStepTyped

LEMMA ConfigTypeOK ==
  ASSUME TypeOK, FlowInv, PageInv,
         \/ StartPreview \/ StopPreview \/ ConfigBack \/ ConfigNext \/ RequestModeSwitch
         \/ PreviewFails \/ PreviewReturns \/ PreviewError
  PROVE  TypeOK'
<1>0. form \in FormType /\ preview \in Phases /\ busy \in Busy
  BY DEF TypeOK
<1>1. UNCHANGED ConfigVars /\ busy' \in Busy /\ preview' \in Phases
  BY <1>0 DEF StartPreview, StopPreview, ConfigBack, ConfigNext, RequestModeSwitch,
     PreviewFails, PreviewReturns, PreviewError, StopPreviewThen, Busy, Waits, Phases, Alive
<1>2. form' \in FormType
  <2>1. CASE ConfigNext
    <3>1. form.serial \in Serials /\ form.shown \in Modes
      BY <1>0, <2>1 DEF ConfigNext, Click, FlowInv, ConfigInv, FormType
    <3>2. PICK c \in Offered[form.serial][form.shown] : form' = [form EXCEPT !.choice = c]
      BY <2>1 DEF ConfigNext
    <3>3. c \in Choices
      BY <3>1, <3>2, WizardAssumption
    <3> QED  BY <1>0, <3>2, <3>3 DEF FormType, Maybe
  <2>2. CASE ~ConfigNext
    BY <1>0, <2>2 DEF StartPreview, StopPreview, ConfigBack, RequestModeSwitch,
       PreviewFails, PreviewReturns, PreviewError
  <2> QED  BY <2>1, <2>2
<1> QED  BY <1>1, <1>2, ConfigStepTyped

\* A device's tests are tests, and what fills the Stream Config page is too.
LEMMA PopulateTyped ==
  ASSUME TypeOK, NEW s \in Serials, NEW preferred, Populate(s, preferred)
  PROVE  /\ form' \in FormType /\ form'.serial = s /\ form'.choice \in Choices
         /\ form'.mode = mode[s]
<1>1. PICK c \in Usable(s) : form' = [serial |-> s, choice |-> c, mode |-> mode[s], shown |-> mode[s],
                                    failed |-> FALSE, locked |-> FALSE]
  BY DEF Populate
<1>2. mode[s] \in Modes
  BY DEF TypeOK
<1>3. c \in Choices
  BY <1>1, <1>2, WizardAssumption DEF Usable
<1> QED  BY <1>1, <1>2, <1>3 DEF FormType, Maybe

LEMMA FlowEndsTyped ==
  ASSUME TypeOK, FlowEnds
  PROVE  /\ form' \in FormType /\ calib' \in CalibType
         /\ device' \in Maybe(Serials) /\ picks' \in Maybe(Choices) /\ roiPage' \in Maybe(Subject)
         /\ pending' \in Maybe([serial : Serials, choice : Choices, roi : Maybe(Subject)])
<1>1. CASE calib.running
  BY <1>1 DEF FlowEnds, TypeOK
<1>2. CASE ~calib.running
  <2>1. form' = NoForm /\ calib' = NoCalib /\ device' = None /\ picks' = None /\ roiPage' = None
        /\ pending' = None
    BY <1>2 DEF FlowEnds
  <2>2. NoForm \in FormType /\ NoCalib \in CalibType
    BY DEF NoForm, NoCalib, FormType, CalibType, Maybe, Modes
  <2> QED  BY <2>1, <2>2 DEF Maybe
<1> QED  BY <1>1, <1>2

LEMMA HubClicksTypeOK ==
  ASSUME TypeOK, MasterInv, MasterInv',
         AddCamera \/ HubClick \/ DeviceBack \/ PlainBack \/ StartCameras
  PROVE  TypeOK'
<1>0. HubTypeOK
  BY DEF TypeOK
<1>1. CASE AddCamera
  <2>1. HubTypeOK'
    BY <1>0, <1>1, HubTyped DEF AddCamera, HubTypeOK
  <2>2. page' = "device" /\ listed' = Serials \ Configured
    BY <1>1 DEF AddCamera, RefreshDevices
  <2>3. UNCHANGED <<busy, mode, form, preview, calib, tuning, live, device, picks, roiPage, leds, pending, walkedOut>>
    BY <1>1 DEF AddCamera
  <2> QED  BY <2>1, <2>2, <2>3 DEF TypeOK, Pages
<1>2. CASE HubClick
  <2>1. target' = target /\ \A id \in DOMAIN cameras' : cameras'[id] \in Config
    BY <1>0, <1>2 DEF HubClick, SetMaster, RemoveCamera, HubTypeOK
  <2>2. HubTypeOK'
    BY <1>0, <2>1, HubTyped DEF HubTypeOK
  <2>3. UNCHANGED <<page, busy, mode, form, preview, calib, tuning, live, device, listed, picks,
                   roiPage, leds, pending, walkedOut>>
    BY <1>2 DEF HubClick, wizardVars, flowVars
  <2> QED  BY <2>2, <2>3 DEF TypeOK
<1>3. CASE DeviceBack
  <2>1. page' = "hub" /\ FlowEnds
    BY <1>3 DEF DeviceBack
  <2>2. UNCHANGED <<cameras, master, editing, slots, target, busy, mode, preview, tuning, live, listed, leds, walkedOut>>
    BY <1>3 DEF DeviceBack, hubVars
  <2> QED  BY <2>1, <2>2, FlowEndsTyped DEF TypeOK, HubTypeOK, Pages
<1>4. CASE PlainBack
  <2>1. page' \in Pages
    BY <1>4 DEF PlainBack, Pages
  <2>2. UNCHANGED <<cameras, master, editing, slots, target, busy, mode, form, preview, calib, tuning, live,
                   device, listed, picks, roiPage, leds, pending, walkedOut>>
    BY <1>4 DEF PlainBack, hubVars, flowVars
  <2> QED  BY <2>1, <2>2 DEF TypeOK, HubTypeOK
<1>5. CASE StartCameras
  <2>1. page' \in Pages
    BY <1>5 DEF StartCameras, Pages
  <2>2. ChoicesOf(DOMAIN cameras) \subseteq Choices
    BY <1>0 DEF HubTypeOK, ChoicesOf, Config
  <2>3. target' \in {None, "infrared", "color"}
    BY <1>5, <2>2, PanelForTyped DEF StartCameras, PointPanel
  <2>4. UNCHANGED <<cameras, master, editing, slots, busy, mode, form, preview, calib, tuning, live,
                   device, listed, picks, roiPage, leds, pending, walkedOut>>
    BY <1>5 DEF StartCameras, flowVars
  <2> QED  BY <2>1, <2>3, <2>4 DEF TypeOK, HubTypeOK
<1> QED  BY <1>1, <1>2, <1>3, <1>4, <1>5

LEMMA FlowStartsTypeOK ==
  ASSUME TypeOK, MasterInv, MasterInv',
         \/ \E id \in Ids : EditCamera(id)
         \/ \E s \in Serials : DeviceChosen(s)
  PROVE  TypeOK'
<1>0. HubTypeOK
  BY DEF TypeOK
<1>1. ASSUME NEW id \in Ids, EditCamera(id) PROVE TypeOK'
  <2>1. HubTypeOK'
    BY <1>0, <1>1, HubTyped DEF EditCamera, HubTypeOK
  <2>2. device' = cameras[id].serial /\ device' \in Serials
    BY <1>0, <1>1 DEF EditCamera, HubTypeOK, Config
  <2>3. page' \in Pages
    BY <1>1 DEF EditCamera, Pages, TypeOK
  <2>4. form' \in FormType
    BY <1>1, <2>2, PopulateTyped DEF EditCamera, CannotPopulate, TypeOK
  <2>5. UNCHANGED <<busy, mode, preview, calib, tuning, live, listed, picks, roiPage, leds, pending, walkedOut>>
    BY <1>1 DEF EditCamera
  <2> QED  BY <2>1, <2>2, <2>3, <2>4, <2>5 DEF TypeOK, Maybe
<1>2. ASSUME NEW s \in Serials, DeviceChosen(s) PROVE TypeOK'
  <2>1. HubTypeOK'
    BY <1>0, <1>2, HubTyped DEF DeviceChosen, HubTypeOK
  <2>2. device' = s /\ page' \in Pages
    BY <1>2 DEF DeviceChosen, Pages, TypeOK
  <2>3. form' \in FormType
    BY <1>2, PopulateTyped DEF DeviceChosen, CannotPopulate, TypeOK
  <2>4. UNCHANGED <<busy, mode, preview, calib, tuning, live, listed, picks, roiPage, leds, pending, walkedOut>>
    BY <1>2 DEF DeviceChosen
  <2> QED  BY <2>1, <2>2, <2>3, <2>4 DEF TypeOK, Maybe
<1> QED  BY <1>1, <1>2
\* The page a mode switch fills anew keeps its device, and has a test of it.
LEMMA RefillTyped ==
  ASSUME TypeOK, NEW m \in Modes, Refill(m), form.serial \in Serials, form.choice \in Choices
  PROVE  /\ form' \in FormType /\ form'.serial = form.serial /\ form'.choice \in Choices
         /\ form'.mode = m
<1>1. form \in FormType
  BY DEF TypeOK
<1>2. Offered[form.serial][m] \subseteq Choices
  BY WizardAssumption
<1> QED  BY <1>1, <1>2 DEF Refill, FormType, Maybe

LEMMA SwitchTypeOK ==
  ASSUME TypeOK, PageInv, FlowInv, ModeSwitched \/ ModeSwitchRaises
  PROVE  TypeOK'
<1>0. form \in FormType /\ mode \in [Serials -> Modes] /\ form.serial \in Serials /\ form.choice \in Choices
  BY DEF TypeOK, ModeSwitched, ModeSwitchRaises, PageInv, FlowInv, ConfigInv
<1>1. Other(form.mode) \in Modes /\ mode[form.serial] \in Modes
  BY <1>0 DEF Other, Modes
<1>2. form' \in FormType
  <2>1. [form EXCEPT !.failed = TRUE] \in FormType /\ [form EXCEPT !.failed = TRUE, !.locked = TRUE] \in FormType
    BY <1>0 DEF FormType
  <2> QED  BY <1>0, <1>1, <2>1, RefillTyped DEF ModeSwitched, ModeSwitchRaises
<1>3. mode' \in [Serials -> Modes]
  BY <1>0, <1>1 DEF ModeSwitched, ModeSwitchRaises
<1>4. busy' \in Busy
  BY DEF ModeSwitched, ModeSwitchRaises, Busy
<1>5. UNCHANGED <<cameras, master, editing, slots, target, page, preview, calib, tuning, live,
                 device, listed, picks, roiPage, leds, pending, walkedOut>>
  BY DEF ModeSwitched, ModeSwitchRaises, hubVars, flowVars
<1> QED  BY <1>2, <1>3, <1>4, <1>5 DEF TypeOK, HubTypeOK

LEMMA PreviewStoppedTypeOK ==
  ASSUME TypeOK, PageInv, FlowInv, PreviewStopped
  PROVE  TypeOK'
<1>1. target' \in {None, "infrared", "color"} /\ picks' \in Maybe(Choices) /\ roiPage' \in Maybe(Subject)
  <2>1. CASE busy = "configChosen"
    <3>1. device \in Serials /\ form.choice \in Choices
      BY <2>1 DEF PageInv, FlowInv, ConfigInv
    <3>2. picks' = form.choice /\ target' = PanelFor({form.choice})
          /\ roiPage' = [serial |-> device, choice |-> form.choice]
      BY <2>1 DEF PreviewStopped, ConfigChosen, RoiContext
    <3>3. PanelFor({form.choice}) \in {None, "infrared", "color"}
      BY <3>1, PanelForTyped
    <3> QED  BY <3>1, <3>2, <3>3 DEF Maybe, Subject
  <2>2. CASE busy # "configChosen"
    BY <2>2 DEF PreviewStopped, TypeOK, HubTypeOK
  <2> QED  BY <2>1, <2>2
<1>2. page' \in Pages /\ busy' \in Busy /\ preview' \in Phases
  BY DEF PreviewStopped, ConfigChosen, Pages, Busy, Phases, TypeOK
<1>3. UNCHANGED <<cameras, master, editing, slots, mode, form, calib, tuning, live, device, listed, leds, pending, walkedOut>>
  BY DEF PreviewStopped
<1> QED  BY <1>1, <1>2, <1>3 DEF TypeOK, HubTypeOK

\* The context of Threshold Tuning is of the calibration's subject.
LEMMA TuningContext ==
  ASSUME TypeOK, RoiInv, CalibInv, page = "calibration", device \in Serials,
         NEW positions, \A k \in Slugs(picks.streams) : positions[k] = Here,
         OnCalibrationDone(positions)
  PROVE  /\ tuning' \in TuningType /\ busy' = "tuningSet"
         /\ pending' = [serial |-> device, choice |-> picks, roi |-> Here]
         /\ pending' \in [serial : Serials, choice : Choices, roi : Maybe(Subject)]
         /\ tuning'.leds = [k \in Slugs(picks.streams) |-> Here]
         /\ tuning.thread = "none" => tuning'.thread = "none"
<1>1. picks \in Choices /\ calib.roi = Here
  BY DEF RoiInv, CalibInv
<1>2. Here \in Subject /\ [k \in Slugs(picks.streams) |-> Here] \in Positions
  BY <1>1, HereTyped
<1>3. [k \in Slugs(picks.streams) |-> positions[k]] = [k \in Slugs(picks.streams) |-> Here]
  OBVIOUS
<1>4. picks.dual \in BOOLEAN
  BY <1>1, HubAssumption DEF ChoiceType
<1>5. tuning.thread \in Phases
  BY DEF TypeOK, TuningType
<1> DEFINE led == [k \in Slugs(picks.streams) |-> Here]
           thread == IF tuning.thread = "running" THEN "stopping" ELSE tuning.thread
<1>6. thread \in Phases /\ (tuning.thread = "none" => thread = "none")
  BY <1>5 DEF Phases, Alive
<1>7. tuning' = [leds |-> led, dual |-> picks.dual, spin |-> DefaultTime, applied |-> DefaultTime,
                 thread |-> thread]
  BY <1>3 DEF OnCalibrationDone
<1>8. led \in Maybe(Positions)
  BY <1>2 DEF Maybe
<1> HIDE DEF led, thread
<1>9. tuning' \in TuningType
  BY <1>4, <1>6, <1>7, <1>8, WizardAssumption DEF TuningType
<1>10. pending' = [serial |-> device, choice |-> picks, roi |-> Here] /\ busy' = "tuningSet"
  BY <1>1 DEF OnCalibrationDone
<1> QED  BY <1>1, <1>2, <1>6, <1>7, <1>9, <1>10 DEF Maybe, led
LEMMA RoiTypeOK ==
  ASSUME TypeOK, PageInv, FlowInv, RoiCapture \/ RoiFails \/ RoiChosen
  PROVE  TypeOK'
<1>1. CASE RoiCapture \/ RoiFails
  <2>1. busy' \in Busy
    BY <1>1 DEF RoiCapture, RoiFails, Busy
  <2>2. UNCHANGED <<cameras, master, editing, slots, target, page, mode, form, preview, calib, tuning, live,
                   device, listed, picks, roiPage, leds, pending, walkedOut>>
    BY <1>1 DEF RoiCapture, RoiFails, hubVars, flowVars
  <2> QED  BY <2>1, <2>2 DEF TypeOK, HubTypeOK
<1>2. CASE RoiChosen
  <2>1. device \in Serials /\ picks \in Choices /\ roiPage = Here
    BY <1>2 DEF RoiChosen, PageInv, FlowInv, ConfigInv, RoiInv
  <2>2. Here \in Subject
    BY <2>1, HereTyped
  <2>3. calib' \in CalibType
    BY <1>2, <2>1, <2>2 DEF RoiChosen, NewCalibration, Here, TypeOK, CalibType, Maybe
  <2>4. busy' \in Busy /\ page' \in Pages
    BY <1>2 DEF RoiChosen, Busy, Pages
  <2>5. UNCHANGED <<cameras, master, editing, slots, target, mode, form, preview, tuning, live,
                   device, listed, picks, roiPage, leds, pending, walkedOut>>
    BY <1>2 DEF RoiChosen, hubVars
  <2> QED  BY <2>3, <2>4, <2>5 DEF TypeOK, HubTypeOK
<1> QED  BY <1>1, <1>2

\* A calibration that succeeds saves its own subject's positions.
LEMMA CalibrationSaves ==
  ASSUME TypeOK, PageInv, FlowInv, CalibrationSucceeds
  PROVE  /\ page = "calibration" /\ device \in Serials /\ picks \in Choices
         /\ calib.args = Here /\ Here \in Subject
         /\ leds' \in [AllSlugs -> Maybe(Subject)]
         /\ \A k \in Slugs(picks.streams) : leds'[k] = Here
<1>1. page = "calibration"
  BY DEF CalibrationSucceeds, PageInv
<1>2. device \in Serials /\ picks \in Choices /\ calib.args = Here
  BY <1>1 DEF FlowInv, ConfigInv, RoiInv, CalibInv
<1>3. Here \in Subject /\ Slugs(picks.streams) \subseteq AllSlugs /\ Here.choice = picks
  BY <1>2, HereTyped DEF Here
<1>4. leds' = [k \in AllSlugs |-> IF k \in Slugs(picks.streams) THEN Here ELSE leds[k]]
  BY <1>2, <1>3 DEF CalibrationSucceeds, UpdateConfigLeds
<1> QED  BY <1>1, <1>2, <1>3, <1>4 DEF TypeOK, Maybe

LEMMA CalibrationTypeOK ==
  ASSUME TypeOK, PageInv, FlowInv,
         RunCalibration \/ CalibrationFails \/ CalibrationSucceeds \/ ContinueCalibration
  PROVE  TypeOK'
<1>0. calib \in CalibType
  BY DEF TypeOK
<1>1. CASE RunCalibration \/ CalibrationFails
  <2>1. calib' \in CalibType
    BY <1>0, <1>1 DEF RunCalibration, CalibrationFails, CalibType
  <2>2. UNCHANGED <<cameras, master, editing, slots, target, page, busy, mode, form, preview, tuning, live,
                   device, listed, picks, roiPage, leds, pending, walkedOut>>
    BY <1>1 DEF RunCalibration, CalibrationFails, hubVars, flowVars
  <2> QED  BY <2>1, <2>2 DEF TypeOK, HubTypeOK
<1>2. CASE CalibrationSucceeds
  <2>1. OnCalibrationDone(leds')
    BY <1>2 DEF CalibrationSucceeds
  <2>2. /\ tuning' \in TuningType /\ busy' = "tuningSet"
        /\ pending' \in [serial : Serials, choice : Choices, roi : Maybe(Subject)]
    BY <1>2, <2>1, CalibrationSaves, TuningContext DEF FlowInv
  <2>3. calib' \in CalibType
    BY <1>0, <1>2, CalibrationSaves DEF CalibrationSucceeds, CalibType, Maybe
  <2>4. UNCHANGED <<cameras, master, editing, slots, target, page, mode, form, preview, live,
                   device, listed, picks, roiPage, walkedOut>>
    BY <1>2 DEF CalibrationSucceeds, hubVars
  <2> QED  BY <1>2, <2>2, <2>3, <2>4, CalibrationSaves DEF TypeOK, HubTypeOK, Busy, Waits, Maybe
<1>3. CASE ContinueCalibration
  <2>1. page = "calibration" /\ calib.result # None /\ OnCalibrationDone(leds)
    BY <1>3 DEF ContinueCalibration, Click
  <2>2. device \in Serials /\ \A k \in Slugs(picks.streams) : leds[k] = Here
    BY <2>1 DEF FlowInv, ConfigInv, CalibInv
  <2>3. /\ tuning' \in TuningType /\ busy' = "tuningSet"
        /\ pending' \in [serial : Serials, choice : Choices, roi : Maybe(Subject)]
    BY <2>1, <2>2, TuningContext DEF FlowInv
  <2>4. UNCHANGED <<cameras, master, editing, slots, target, page, mode, form, preview, calib, live,
                   device, listed, picks, roiPage, leds>>
    BY <1>3 DEF ContinueCalibration, hubVars
  <2>5. walkedOut' \in BOOLEAN
    BY <1>3 DEF ContinueCalibration
  <2> QED  BY <2>3, <2>4, <2>5 DEF TypeOK, HubTypeOK, Busy, Waits, Maybe
<1> QED  BY <1>1, <1>2, <1>3

\* The configuration a flow ends with is one of its device and its test.
LEMMA TunedConfigIs ==
  ASSUME FlowInv, page = "tuning"
  PROVE  TunedConfig \in Config /\ Consistent(TunedConfig)
<1>1. device \in Serials /\ picks \in Choices /\ form.choice = picks
  BY DEF FlowInv, ConfigInv, RoiInv
<1>2. pending = [serial |-> device, choice |-> picks, roi |-> Here]
      /\ tuning.leds = [k \in Slugs(picks.streams) |-> Here]
  BY DEF FlowInv, TuningInv
<1> DEFINE led == [k \in Slugs(picks.streams) |-> Here]
<1>3. TunedConfig = [serial |-> device, choice |-> picks, test |-> picks.test, roi |-> Here, leds |-> led]
  BY <1>1, <1>2 DEF TunedConfig
<1>4. Here \in Subject /\ led \in Positions
  BY <1>1, HereTyped
<1>5. picks.test \in STRING
  BY <1>1, HubAssumption DEF ChoiceType
<1>6. \A k \in Slugs(picks.streams) : led[k] = Here
  OBVIOUS
<1> HIDE DEF led
<1>7. TunedConfig \in Config
  BY <1>1, <1>3, <1>4, <1>5 DEF Config
<1>8. Consistent(TunedConfig)
  BY <1>3, <1>6 DEF Consistent, Here
<1> QED  BY <1>7, <1>8

LEMMA TuningEndsTypeOK ==
  ASSUME TypeOK, MasterInv, MasterInv', PageInv, FlowInv, TuningContinue \/ TuningStopped
  PROVE  TypeOK'
<1>0. tuning \in TuningType /\ NoTuning \in TuningType
  BY WizardAssumption DEF TypeOK, NoTuning, TuningType, Maybe, Phases
<1>1. CASE TuningContinue
  <2>1. page = "tuning" /\ busy' = "tuningDone"
    BY <1>1 DEF TuningContinue, Click, StopTuningThen
  <2>2. device \in Serials /\ picks \in Choices /\ tuning.leds = [k \in Slugs(picks.streams) |-> Here]
    BY <2>1 DEF FlowInv, ConfigInv, RoiInv, TuningInv
  <2>3. leds' \in [AllSlugs -> Maybe(Subject)]
    BY <1>1, <2>2, HereTyped DEF TuningContinue, UpdateConfigLeds, TypeOK, Maybe
  <2>4. tuning' \in TuningType
    BY <1>0, <1>1 DEF TuningContinue, StopTuningThen, TuningType, Phases, Alive
  <2>5. UNCHANGED <<cameras, master, editing, slots, target, page, mode, form, preview, calib, live,
                   device, listed, picks, roiPage, pending, walkedOut>>
    BY <1>1 DEF TuningContinue, hubVars
  <2> QED  BY <2>1, <2>3, <2>4, <2>5 DEF TypeOK, HubTypeOK, Busy, Waits
<1>2. CASE TuningStopped
  <2>1. page' \in Pages /\ busy' \in Busy
    BY <1>2 DEF TuningStopped, Pages, Busy
  <2>2. tuning' \in TuningType
    BY <1>0, <1>2 DEF TuningStopped, TuningType, Phases
  <2>3. HubTypeOK'
    <3>1. CASE busy = "tuningDone"
      <4>1. Commit(TunedConfig) /\ page = "tuning"
        BY <1>2, <3>1 DEF TuningStopped, PageInv
      <4>2. TunedConfig \in Config
        BY <4>1, TunedConfigIs
      <4>3. \A id \in DOMAIN cameras' : cameras'[id] \in Config
        BY <4>1, <4>2 DEF Commit, TypeOK, HubTypeOK
      <4> QED  BY <4>1, <4>3, HubTyped DEF Commit, TypeOK, HubTypeOK
    <3>2. CASE busy # "tuningDone"
      BY <1>2, <3>2 DEF TuningStopped, TypeOK, HubTypeOK, hubVars
    <3> QED  BY <3>1, <3>2
  <2>4. /\ form' \in FormType /\ calib' \in CalibType
        /\ device' \in Maybe(Serials) /\ picks' \in Maybe(Choices) /\ roiPage' \in Maybe(Subject)
        /\ pending' \in Maybe([serial : Serials, choice : Choices, roi : Maybe(Subject)])
    <3>1. CASE busy = "tuningDone"
      BY <1>2, <3>1, FlowEndsTyped DEF TuningStopped
    <3>2. CASE busy # "tuningDone"
      BY <1>2, <3>2 DEF TuningStopped, TypeOK, Maybe
    <3> QED  BY <3>1, <3>2
  <2>5. UNCHANGED <<mode, preview, live, listed, leds, walkedOut>>
    BY <1>2 DEF TuningStopped
  <2> QED  BY <2>1, <2>2, <2>3, <2>4, <2>5 DEF TypeOK
<1> QED  BY <1>1, <1>2

LEMMA LiveEndsTypeOK ==
  ASSUME TypeOK, StartOneCamera \/ LiveBack \/ LiveStopped
  PROVE  TypeOK'
<1>0. HubTypeOK /\ live \in LiveType /\ (live.running <=> live.thread # "none") /\ busy \in Busy
      /\ NoLive \in LiveType /\ NoLive.thread = "none" /\ ~NoLive.running
  BY WizardAssumption DEF TypeOK, NoLive, LiveType, Maybe, Phases
<1>1. CASE StartOneCamera
  <2>1. PICK id \in DOMAIN cameras, t \in Times :
          live' = Gated([live EXCEPT !.config = cameras[id], !.spin = t, !.confirmed = t])
    BY <1>1 DEF StartOneCamera, LiveContext
  <2> DEFINE l == [live EXCEPT !.config = cameras[id], !.spin = t, !.confirmed = t]
  <2>2. cameras[id] \in Config
    BY <1>0 DEF HubTypeOK
  <2>3. l \in LiveType /\ (l.running <=> l.thread # "none")
    BY <1>0, <2>2 DEF LiveType, Maybe
  <2> HIDE DEF l
  <2>4. live' \in LiveType /\ (live'.running <=> live'.thread # "none")
    BY <2>1, <2>3, GatedIs DEF l
  <2>5. ChoicesOf(DOMAIN cameras) \subseteq Choices
    BY <1>0 DEF HubTypeOK, ChoicesOf, Config
  <2>6. target' \in {None, "infrared", "color"}
    BY <1>1, <2>5, PanelForTyped DEF StartOneCamera, PointPanel
  <2>7. page' \in Pages
    BY <1>1 DEF StartOneCamera, Pages
  <2>8. UNCHANGED <<cameras, master, editing, slots, busy, mode, form, preview, calib, tuning,
                   device, listed, picks, roiPage, leds, pending, walkedOut>>
    BY <1>1 DEF StartOneCamera, flowVars
  <2> QED  BY <2>4, <2>6, <2>7, <2>8 DEF TypeOK, HubTypeOK
<1>2. CASE LiveBack \/ LiveStopped
  <2>1. live' \in LiveType /\ (live'.running <=> live'.thread # "none")
    BY <1>0, <1>2 DEF LiveBack, LiveStopped, LiveType
  <2>2. page' \in Pages /\ busy' \in Busy
    BY <1>0, <1>2 DEF LiveBack, LiveStopped, Pages, Busy, TypeOK
  <2>3. UNCHANGED <<cameras, master, editing, slots, target, mode, form, preview, calib, tuning,
                   device, listed, picks, roiPage, leds, pending, walkedOut>>
    BY <1>2 DEF LiveBack, LiveStopped, hubVars, flowVars
  <2> QED  BY <2>1, <2>2, <2>3 DEF TypeOK, HubTypeOK
<1> QED  BY <1>1, <1>2

LEMMA NextTypeOK ==
  ASSUME TypeOK, MasterInv, MasterInv', PageInv, FlowInv, [Next]_vars
  PROVE  TypeOK'
<1>1. CASE AddCamera \/ HubClick \/ DeviceBack \/ PlainBack \/ StartCameras
  BY <1>1, HubClicksTypeOK
<1>2. CASE (\E id \in Ids : EditCamera(id)) \/ (\E s \in Serials : DeviceChosen(s))
  BY <1>2, FlowStartsTypeOK
<1>3. CASE \/ StartPreview \/ StopPreview \/ ConfigBack \/ ConfigNext \/ RequestModeSwitch
           \/ PreviewFails \/ PreviewReturns \/ PreviewError
  BY <1>3, ConfigTypeOK
<1>4. CASE ModeSwitched \/ ModeSwitchRaises \/ PreviewStopped
  BY <1>4, SwitchTypeOK, PreviewStoppedTypeOK
<1>5. CASE \/ RoiCapture \/ RoiFails \/ RoiChosen
           \/ RunCalibration \/ CalibrationFails \/ CalibrationSucceeds \/ ContinueCalibration
  BY <1>5, RoiTypeOK, CalibrationTypeOK
<1>6. CASE \/ StartTuning \/ StopTuning \/ TuningReturns \/ TuningFinished \/ TurnTuningSpin
           \/ ConfirmTuning \/ Confirmed \/ TuningBack
  BY <1>6, TuningTypeOK
<1>7. CASE TuningContinue \/ TuningStopped
  BY <1>7, TuningEndsTypeOK
<1>8. CASE \/ StartLive \/ StopLive \/ LiveReturns \/ LiveFinished \/ TurnLiveSpin \/ ConfirmLive
           \/ AnswerNo \/ AnswerYes
  BY <1>8, LiveTypeOK
<1>9. CASE StartOneCamera \/ LiveBack \/ LiveStopped
  BY <1>9, LiveEndsTypeOK
<1>10. CASE UNCHANGED vars
  BY <1>10 DEF vars, wizardVars, flowVars, hubVars, TypeOK, HubTypeOK
<1> QED  BY <1>1, <1>2, <1>3, <1>4, <1>5, <1>6, <1>7, <1>8, <1>9, <1>10 DEF Next
-----------------------------------------------------------------------------
(* Captures belong to the page that is shown.                               *)

LEMMA NextPageInv ==
  ASSUME ~walkedOut', TypeOK, PageInv, [Next]_vars
  PROVE  PageInv'
<1>0. /\ tuning \in TuningType /\ live \in LiveType /\ calib \in CalibType
      /\ live.running <=> live.thread # "none"
  BY DEF TypeOK
<1>1. ASSUME UNCHANGED <<page, busy, preview, calib, tuning, live>> PROVE PageInv'
  BY <1>1 DEF PageInv
<1>2. CASE AddCamera \/ HubClick \/ DeviceBack \/ PlainBack
  <2>1. UNCHANGED <<busy, preview, tuning, live>> /\ ~calib'.running
    BY <1>2 DEF AddCamera, HubClick, DeviceBack, PlainBack, wizardVars, flowVars, FlowEnds, NoCalib, Click,
       PageInv
  <2>2. page = "config" \/ page = "tuning" \/ page = "live" => page' = page
    BY <1>2 DEF AddCamera, HubClick, DeviceBack, PlainBack, wizardVars, Click
  <2>3. busy = "idle"
    BY <1>2, <1>1 DEF AddCamera, HubClick, DeviceBack, PlainBack, Click
  <2> QED  BY <2>1, <2>2, <2>3 DEF PageInv
<1>3. CASE (\E id \in Ids : EditCamera(id)) \/ (\E s \in Serials : DeviceChosen(s))
  <2>1. UNCHANGED <<busy, preview, tuning, live, calib>> /\ ~calib.running /\ busy = "idle"
    BY <1>3 DEF EditCamera, DeviceChosen, NextAt, Click, PageInv
  <2>2. page \in {"hub", "device"}
    BY <1>3 DEF EditCamera, DeviceChosen, NextAt, Click
  <2> QED  BY <2>1, <2>2 DEF PageInv
<1>4. CASE \/ StartPreview \/ StopPreview \/ ConfigBack \/ ConfigNext \/ RequestModeSwitch
           \/ PreviewFails \/ PreviewReturns \/ PreviewError
  BY <1>4 DEF StartPreview, StopPreview, ConfigBack, ConfigNext, RequestModeSwitch, PreviewFails,
     PreviewReturns, PreviewError, StopPreviewThen, ConfigVars, Click, PageInv, Alive
<1>5. CASE ModeSwitched \/ ModeSwitchRaises \/ PreviewStopped
  BY <1>5 DEF ModeSwitched, ModeSwitchRaises, PreviewStopped, ConfigChosen, PageInv, Alive
<1>6. CASE \/ RoiCapture \/ RoiFails \/ RoiChosen
           \/ RunCalibration \/ CalibrationFails \/ CalibrationSucceeds \/ ContinueCalibration
  <2>1. CASE RoiCapture \/ RoiFails \/ RunCalibration \/ CalibrationFails
    BY <1>0, <2>1 DEF RoiCapture, RoiFails, RunCalibration, CalibrationFails, Click, PageInv, CalibType
  <2>2. CASE RoiChosen
    <3>1. ~calib'.running
      BY <1>0, <2>2 DEF RoiChosen, NewCalibration, PageInv, CalibType
    <3> QED  BY <2>2, <3>1 DEF RoiChosen, PageInv
  <2>3. CASE CalibrationSucceeds \/ ContinueCalibration
    <3>1. page = "calibration" /\ busy' = "tuningSet" /\ ~calib'.running
      BY <1>0, <2>3 DEF CalibrationSucceeds, ContinueCalibration, OnCalibrationDone, Click, PageInv, CalibType
    <3>2. tuning'.thread = "none"
      BY <1>0, <2>3, <3>1 DEF CalibrationSucceeds, ContinueCalibration, OnCalibrationDone, PageInv
    <3>3. UNCHANGED <<page, preview, live>>
      BY <2>3 DEF CalibrationSucceeds, ContinueCalibration
    <3> QED  BY <3>1, <3>2, <3>3 DEF PageInv
  <2> QED  BY <1>6, <2>1, <2>2, <2>3
<1>7. CASE \/ StartTuning \/ StopTuning \/ TuningReturns \/ TuningFinished \/ TurnTuningSpin
           \/ ConfirmTuning \/ Confirmed \/ TuningBack \/ TuningContinue
  BY <1>0, <1>7 DEF StartTuning, StopTuning, TuningReturns, TuningFinished, TurnTuningSpin, ConfirmTuning,
     Confirmed, TuningBack, TuningContinue, StopTuningThen, TuningOnly, Click, PageInv, TuningType, Alive
<1>8. CASE TuningStopped
  <2>1. tuning'.thread = "none" \/ page' = "tuning"
    BY <1>0, <1>8 DEF TuningStopped, NoTuning
  <2>2. ~calib'.running
    BY <1>8 DEF TuningStopped, FlowEnds, NoCalib, PageInv
  <2>3. busy' = "idle" /\ UNCHANGED <<preview, live>> /\ page \in {"calibration", "tuning"}
    BY <1>8 DEF TuningStopped, PageInv
  <2> QED  BY <2>1, <2>2, <2>3 DEF PageInv
<1>9. CASE StartOneCamera \/ StartCameras
  <2>1. UNCHANGED <<busy, preview, calib, tuning>> /\ busy = "idle" /\ page = "hub" /\ ~calib.running
    BY <1>9 DEF StartOneCamera, StartCameras, Click, PageInv
  <2>2. live'.thread \in Alive => page' = "live"
    BY <1>9, <2>1 DEF StartOneCamera, StartCameras, PageInv
  <2> QED  BY <2>1, <2>2 DEF PageInv
<1>10. CASE \/ StartLive \/ StopLive \/ LiveReturns \/ LiveFinished \/ TurnLiveSpin \/ ConfirmLive
            \/ AnswerNo \/ AnswerYes
  <2>1. UNCHANGED <<page, preview, calib, tuning>> /\ (busy' = busy \/ busy = "question")
        /\ busy' \in {busy, "idle", "backToHub"}
    BY <1>10 DEF StartLive, StopLive, LiveReturns, LiveFinished, TurnLiveSpin, ConfirmLive, AnswerNo,
       AnswerYes, LiveOnly
  <2>2. live'.thread \in Alive => page = "live"
    BY <1>0, <1>10 DEF StartLive, StopLive, LiveReturns, LiveFinished, TurnLiveSpin, ConfirmLive, AnswerNo,
       AnswerYes, Gated, LiveType, Click, PageInv, Alive
  <2> QED  BY <2>1, <2>2 DEF PageInv
<1>11. CASE LiveBack \/ LiveStopped
  <2>1. live'.thread \in Alive => page' = "live"
    <3>1. CASE LiveBack
      BY <1>0, <3>1 DEF LiveBack, NoLive, Click, Alive
    <3>2. CASE LiveStopped
      BY <3>2 DEF LiveStopped, NoLive
    <3> QED  BY <1>11, <3>1, <3>2
  <2>2. UNCHANGED <<preview, calib, tuning>> /\ page = "live"
    BY <1>11 DEF LiveBack, LiveStopped, Click, PageInv
  <2>3. (page' = "live" /\ busy' = "question") \/ (page' = "hub" /\ busy' = "idle")
    BY <1>11 DEF LiveBack, LiveStopped, Click
  <2> QED  BY <2>1, <2>2, <2>3 DEF PageInv
<1>12. CASE UNCHANGED vars
  BY <1>1, <1>12 DEF vars, wizardVars
<1> QED
  BY <1>2, <1>3, <1>4, <1>5, <1>6, <1>7, <1>8, <1>9, <1>10, <1>11, <1>12 DEF Next
-----------------------------------------------------------------------------
(* The panel that single-panel commands go to.                              *)

LEMMA NextPanelInv ==
  ASSUME TypeOK, PageInv, PanelInv, [Next]_vars
  PROVE  PanelInv'
<1>0. live \in LiveType
  BY DEF TypeOK
<1>1. ASSUME UNCHANGED <<cameras, target, picks>>, live'.config = live.config \/ page' # "live",
             \/ page' = page \/ page' \in {"hub", "device", "config"}
             \/ {page, page'} \subseteq {"roi", "calibration", "tuning"}
      PROVE PanelInv'
  BY <1>1 DEF PanelInv, ChoicesOf
<1>2. CASE AddCamera \/ HubClick \/ DeviceBack \/ PlainBack
  <2>1. CASE PlainBack
    BY <1>1, <2>1 DEF PlainBack, Click, hubVars, flowVars
  <2>2. page' \in {"hub", "device"} \/ PlainBack
    BY <1>2 DEF AddCamera, HubClick, DeviceBack, Click, wizardVars
  <2> QED  BY <2>1, <2>2 DEF PanelInv
<1>3. CASE (\E id \in Ids : EditCamera(id)) \/ (\E s \in Serials : DeviceChosen(s))
  <2>1. page' \in {"hub", "device", "config"}
    BY <1>3 DEF EditCamera, DeviceChosen, NextAt, Click
  <2> QED  BY <2>1 DEF PanelInv
<1>4. CASE \/ StartPreview \/ StopPreview \/ ConfigBack \/ ConfigNext \/ RequestModeSwitch
           \/ PreviewFails \/ PreviewReturns \/ PreviewError
  BY <1>1, <1>4 DEF StartPreview, StopPreview, ConfigBack, ConfigNext, RequestModeSwitch, PreviewFails,
     PreviewReturns, PreviewError, ConfigVars, hubVars, flowVars
<1>5. CASE ModeSwitched \/ ModeSwitchRaises \/ RoiCapture \/ RoiFails \/ RunCalibration \/ CalibrationFails
           \/ CalibrationSucceeds \/ ContinueCalibration
  BY <1>1, <1>5 DEF ModeSwitched, ModeSwitchRaises, RoiCapture, RoiFails, RunCalibration, CalibrationFails,
     CalibrationSucceeds, ContinueCalibration, hubVars, flowVars
<1>6. CASE PreviewStopped
  <2>1. CASE busy = "configChosen"
    BY <1>6, <2>1 DEF PreviewStopped, ConfigChosen, PanelInv
  <2>2. CASE busy # "configChosen"
    BY <1>1, <1>6, <2>2 DEF PreviewStopped
  <2> QED  BY <2>1, <2>2
<1>7. CASE RoiChosen
  BY <1>1, <1>7 DEF RoiChosen, PageInv, hubVars
<1>8. CASE \/ StartTuning \/ StopTuning \/ TuningReturns \/ TuningFinished \/ TurnTuningSpin
           \/ ConfirmTuning \/ Confirmed \/ TuningBack \/ TuningContinue
  BY <1>1, <1>8 DEF StartTuning, StopTuning, TuningReturns, TuningFinished, TurnTuningSpin, ConfirmTuning,
     Confirmed, TuningBack, TuningContinue, TuningOnly, hubVars, flowVars
<1>9. CASE TuningStopped
  <2>1. CASE busy = "tuningDone"
    BY <1>9, <2>1 DEF TuningStopped, PanelInv
  <2>2. CASE busy # "tuningDone"
    BY <1>1, <1>9, <2>2 DEF TuningStopped, PageInv, hubVars
  <2> QED  BY <2>1, <2>2
<1>10. CASE StartOneCamera
  <2>1. PICK id \in DOMAIN cameras, t \in Times :
          DOMAIN cameras = {id} /\ live' = Gated([live EXCEPT !.config = cameras[id], !.spin = t, !.confirmed = t])
    BY <1>10 DEF StartOneCamera, LiveContext
  <2>2. cameras[id] \in Config
    BY DEF TypeOK, HubTypeOK
  <2> DEFINE l == [live EXCEPT !.config = cameras[id], !.spin = t, !.confirmed = t]
  <2>3. l \in LiveType /\ l.config = cameras[id]
    BY <1>0, <2>2 DEF LiveType, Maybe
  <2> HIDE DEF l
  <2>4. live'.config = cameras[id]
    BY <2>1, <2>3, GatedIs DEF l
  <2>5. target' = PanelFor(ChoicesOf(DOMAIN cameras)) /\ page' = "live"
    BY <1>10 DEF StartOneCamera, PointPanel
  <2>6. ChoicesOf(DOMAIN cameras) = {cameras[id].choice}
    BY <2>1 DEF ChoicesOf
  <2> QED  BY <2>4, <2>5, <2>6 DEF PanelInv
<1>11. CASE StartCameras
  <2>1. target' = PanelFor(ChoicesOf(DOMAIN cameras)) /\ page' \in {"hub", "multi"} /\ cameras' = cameras
    BY <1>11 DEF StartCameras, PointPanel
  <2> QED  BY <2>1 DEF PanelInv, ChoicesOf
<1>12. CASE \/ StartLive \/ StopLive \/ LiveReturns \/ LiveFinished \/ TurnLiveSpin \/ ConfirmLive
            \/ AnswerNo \/ AnswerYes
  <2>1. UNCHANGED <<cameras, target, picks, page>>
    BY <1>12 DEF StartLive, StopLive, LiveReturns, LiveFinished, TurnLiveSpin, ConfirmLive, AnswerNo,
       AnswerYes, LiveOnly, hubVars, flowVars
  <2>2. live'.config = live.config
    BY <1>0, <1>12 DEF StartLive, StopLive, LiveReturns, LiveFinished, TurnLiveSpin, ConfirmLive, AnswerNo,
       AnswerYes, Gated, LiveType
  <2> QED  BY <1>1, <2>1, <2>2
<1>13. CASE LiveBack \/ LiveStopped
  <2>1. page' = "hub" \/ UNCHANGED <<page, live>>
    BY <1>13 DEF LiveBack, LiveStopped
  <2>2. UNCHANGED <<cameras, target, picks>>
    BY <1>13 DEF LiveBack, LiveStopped, hubVars, flowVars
  <2> QED  BY <1>1, <2>1, <2>2
<1>14. CASE UNCHANGED vars
  BY <1>1, <1>14 DEF vars, wizardVars, hubVars, flowVars
<1> QED
  BY <1>2, <1>3, <1>4, <1>5, <1>6, <1>7, <1>8, <1>9, <1>10, <1>11, <1>12, <1>13, <1>14 DEF Next
-----------------------------------------------------------------------------
(* No switch time changes under a scan.                                     *)

LEMMA NextSpeedInv ==
  ASSUME TypeOK, PageInv, SpeedInv, [Next]_vars
  PROVE  SpeedInv'
<1>0. /\ tuning \in TuningType /\ live \in LiveType /\ (live.running <=> live.thread # "none")
  BY DEF TypeOK
<1>1. ASSUME UNCHANGED live, busy' = "confirm" => busy = "confirm", UNCHANGED tuning
      PROVE  SpeedInv'
  BY <1>1 DEF SpeedInv
<1>2. CASE AddCamera \/ HubClick \/ DeviceBack \/ PlainBack
  BY <1>1, <1>2 DEF AddCamera, HubClick, DeviceBack, PlainBack, wizardVars
<1>3. CASE (\E id \in Ids : EditCamera(id)) \/ (\E s \in Serials : DeviceChosen(s))
  BY <1>1, <1>3 DEF EditCamera, DeviceChosen
<1>4. CASE \/ StartPreview \/ StopPreview \/ ConfigBack \/ ConfigNext \/ RequestModeSwitch
           \/ PreviewFails \/ PreviewReturns \/ PreviewError
  BY <1>1, <1>4 DEF StartPreview, StopPreview, ConfigBack, ConfigNext, RequestModeSwitch, PreviewFails,
     PreviewReturns, PreviewError, StopPreviewThen, ConfigVars
<1>5. CASE \/ ModeSwitched \/ ModeSwitchRaises \/ PreviewStopped \/ RoiCapture \/ RoiFails \/ RoiChosen
           \/ RunCalibration \/ CalibrationFails \/ StartCameras
  BY <1>1, <1>5 DEF ModeSwitched, ModeSwitchRaises, PreviewStopped, RoiCapture, RoiFails, RoiChosen,
     RunCalibration, CalibrationFails, StartCameras
<1>6. CASE CalibrationSucceeds \/ ContinueCalibration \/ TuningStopped \/ TuningBack \/ TuningContinue
  <2>1. busy' # "confirm" /\ UNCHANGED live
    BY <1>6 DEF CalibrationSucceeds, ContinueCalibration, OnCalibrationDone, TuningStopped, TuningBack,
       TuningContinue, StopTuningThen, TuningOnly
  <2> QED  BY <2>1 DEF SpeedInv
<1>7. CASE \/ StartTuning \/ StopTuning \/ TuningReturns \/ TuningFinished \/ TurnTuningSpin
           \/ ConfirmTuning \/ Confirmed
  <2>1. UNCHANGED live
    BY <1>7 DEF StartTuning, StopTuning, TuningReturns, TuningFinished, TurnTuningSpin, ConfirmTuning,
       Confirmed, TuningOnly
  <2>2. busy' = "confirm" /\ tuning'.dual => tuning'.thread = "none"
    BY <1>0, <1>7 DEF StartTuning, StopTuning, TuningReturns, TuningFinished, TurnTuningSpin, ConfirmTuning,
       ConfirmEnabled, Confirmed, TuningType, Click, Alive, SpeedInv
  <2> QED  BY <2>1, <2>2 DEF SpeedInv
<1>8. ASSUME UNCHANGED tuning, busy' # "confirm",
             live'.start => live'.thread \notin Alive /\ live'.spin = live'.confirmed,
             live'.thread \in Alive => live'.used = live'.spin,
             live'.running => ~live'.start
      PROVE  SpeedInv'
  BY <1>8 DEF SpeedInv
<1>9. CASE StartOneCamera
  <2>1. PICK id \in DOMAIN cameras, t \in Times :
          live' = Gated([live EXCEPT !.config = cameras[id], !.spin = t, !.confirmed = t])
    BY <1>9 DEF StartOneCamera, LiveContext
  <2>2. cameras[id] \in Config
    BY DEF TypeOK, HubTypeOK
  <2> DEFINE l == [live EXCEPT !.config = cameras[id], !.spin = t, !.confirmed = t]
  <2>3. l \in LiveType /\ l.thread = live.thread /\ l.running = live.running /\ l.start = live.start
        /\ l.spin = t /\ l.confirmed = t
    BY <1>0, <2>2 DEF LiveType, Maybe
  <2> HIDE DEF l
  <2>4. live'.thread = live.thread /\ live'.running = live.running /\ live'.spin = live'.confirmed
        /\ (live.running => live'.start = live.start)
    BY <2>1, <2>3, GatedIs DEF l
  <2>5. live.thread \notin Alive /\ busy' # "confirm" /\ UNCHANGED tuning
    BY <1>9 DEF StartOneCamera, Click, PageInv
  <2> QED  BY <1>8, <2>4, <2>5 DEF SpeedInv
<1>10. CASE StartLive \/ StopLive \/ LiveReturns
  <2>1. UNCHANGED <<tuning, busy>>
    BY <1>10 DEF StartLive, StopLive, LiveReturns, LiveOnly
  <2>2. CASE StartLive
    <3>1. live' = [live EXCEPT !.used = live.confirmed, !.running = TRUE, !.start = FALSE, !.thread = "running"]
          /\ live.spin = live.confirmed
      BY <2>2 DEF StartLive, SpeedInv
    <3>2. ~live'.start /\ live'.used = live.spin /\ live'.spin = live.spin
      BY <1>0, <3>1 DEF LiveType
    <3> QED  BY <2>1, <3>2 DEF SpeedInv
  <2>3. CASE StopLive \/ LiveReturns
    <3>1. UNCHANGED <<live.start, live.spin, live.confirmed, live.used, live.running>> /\ live.thread \in Alive
      BY <1>0, <2>3 DEF StopLive, LiveReturns, LiveType, Alive
    <3> QED  BY <2>1, <3>1 DEF SpeedInv
  <2> QED  BY <1>10, <2>2, <2>3
<1>11. CASE LiveFinished
  <2> DEFINE l == [live EXCEPT !.thread = "none", !.running = FALSE, !.used = DefaultTime]
  <2>1. l \in LiveType /\ l.thread = "none" /\ ~l.running
    BY <1>0, WizardAssumption DEF LiveType, Phases
  <2>2. live' = Gated(l) /\ busy' # "confirm" /\ UNCHANGED tuning
    BY <1>11 DEF LiveFinished, LiveOnly
  <2> HIDE DEF l
  <2>3. live'.thread = "none" /\ ~live'.running /\ (live'.start => live'.spin = live'.confirmed)
    BY <2>1, <2>2, GatedIs
  <2> QED  BY <1>8, <2>2, <2>3 DEF Alive
<1>12. CASE TurnLiveSpin \/ ConfirmLive
  <2>1. PICK l \in LiveType : live' = Gated(l) /\ l.thread = live.thread /\ l.running = live.running
    <3>1. \A t \in Times : [live EXCEPT !.spin = t] \in LiveType /\ [live EXCEPT !.confirmed = t] \in LiveType
      BY <1>0 DEF LiveType
    <3>2. live.spin \in Times
      BY <1>0 DEF LiveType
    <3> QED  BY <1>0, <1>12, <3>1, <3>2 DEF TurnLiveSpin, ConfirmLive, LiveType
  <2>2. ~live.running /\ live.thread = "none" /\ busy' # "confirm" /\ UNCHANGED tuning
    BY <1>0, <1>12 DEF TurnLiveSpin, ConfirmLive, LiveOnly, Click
  <2>3. live'.thread = "none" /\ ~live'.running /\ (live'.start => live'.spin = live'.confirmed)
    BY <2>1, <2>2, GatedIs
  <2> QED  BY <1>8, <2>2, <2>3 DEF Alive
<1>13. CASE AnswerNo \/ AnswerYes
  <2>1. busy' # "confirm" /\ UNCHANGED tuning
    BY <1>13 DEF AnswerNo, AnswerYes, LiveOnly
  <2>2. UNCHANGED <<live.start, live.spin, live.confirmed, live.used, live.running>>
        /\ (live'.thread \in Alive => live.thread \in Alive)
    BY <1>0, <1>13 DEF AnswerNo, AnswerYes, LiveType, Alive
  <2> QED  BY <1>8, <2>1, <2>2 DEF SpeedInv
<1>14. CASE LiveBack \/ LiveStopped
  <2>1. busy' # "confirm" /\ UNCHANGED tuning
    BY <1>14 DEF LiveBack, LiveStopped, Click
  <2>2. CASE live' = live
    BY <1>1, <2>1, <2>2
  <2>3. CASE live' = NoLive
    BY <1>8, <2>1, <2>3 DEF NoLive, Alive
  <2>4. CASE LiveStopped
    BY <1>8, <2>1, <2>4 DEF LiveStopped, NoLive, SpeedInv
  <2> QED  BY <1>14, <2>2, <2>3, <2>4 DEF LiveBack
<1>15. CASE UNCHANGED vars
  BY <1>1, <1>15 DEF vars, wizardVars
<1> QED
  BY <1>2, <1>3, <1>4, <1>5, <1>6, <1>7, <1>9, <1>10, <1>11, <1>12, <1>13, <1>14, <1>15 DEF Next
-----------------------------------------------------------------------------
(* One camera and one test per flow.                                        *)

\* A step that leaves the flow what it has chosen so far.
LEMMA FlowKept ==
  ASSUME FlowInv,
         UNCHANGED <<cameras, page, device, mode, form, picks, roiPage, leds, pending>>,
         UNCHANGED <<calib.args, calib.roi, calib.result, tuning.leds>>,
         busy' = "tuningSet" => busy = "tuningSet"
  PROVE  FlowInv'
BY DEF FlowInv, ConfigInv, RoiInv, CalibInv, TuningInv, Here, Consistent

\* Off the pages of a flow, only the cameras' configurations count.
LEMMA FlowLeft ==
  ASSUME page' \notin {"config", "roi", "calibration", "tuning"}, busy' # "tuningSet",
         \A id \in DOMAIN cameras' : Consistent(cameras'[id])
  PROVE  FlowInv'
BY DEF FlowInv, ConfigInv, RoiInv, CalibInv, TuningInv, Consistent

\* On Stream Config, also the device, its mode and its test.
LEMMA FlowAtConfig ==
  ASSUME FlowInv, page' = "config", busy' # "tuningSet", UNCHANGED cameras,
         device' \in Serials, form'.serial = device', form'.choice \in Choices,
         form'.mode = mode'[device'] \/ form'.failed
  PROVE  FlowInv'
BY DEF FlowInv, ConfigInv, RoiInv, CalibInv, TuningInv, Consistent

LEMMA FlowClicksInv ==
  ASSUME TypeOK, PageInv, FlowInv,
         \/ AddCamera \/ HubClick \/ DeviceBack \/ PlainBack \/ StartCameras
         \/ \E id \in Ids : EditCamera(id)
         \/ \E s \in Serials : DeviceChosen(s)
  PROVE  FlowInv'
<1>0. \A id \in DOMAIN cameras : Consistent(cameras[id])
  BY DEF FlowInv
<1>1. CASE AddCamera \/ DeviceBack \/ StartCameras
  <2>1. page' \in {"hub", "device", "multi"} /\ busy' = "idle" /\ cameras' = cameras
    BY <1>1 DEF AddCamera, DeviceBack, StartCameras, Click, hubVars
  <2> QED  BY <1>0, <2>1, FlowLeft
<1>2. CASE HubClick
  <2>1. page' = "hub" /\ busy' = "idle"
    BY <1>2 DEF HubClick, Click, wizardVars
  <2>2. \A id \in DOMAIN cameras' : Consistent(cameras'[id])
    BY <1>0, <1>2 DEF HubClick, SetMaster, RemoveCamera
  <2> QED  BY <2>1, <2>2, FlowLeft
<1>3. CASE PlainBack
  <2>1. busy' = "idle" /\ UNCHANGED <<cameras, device, mode, form, picks, roiPage, calib, tuning, leds, pending>>
    BY <1>3 DEF PlainBack, Click, hubVars, flowVars
  <2>2. CASE page' = "hub"
    BY <1>0, <2>1, <2>2, FlowLeft
  <2>3. CASE page = "roi" /\ page' = "config"
    <3>1. device \in Serials /\ form.serial = device /\ form.choice \in Choices
          /\ (form.mode = mode[device] \/ form.failed)
      BY <2>3 DEF FlowInv, ConfigInv
    <3> QED  BY <2>1, <2>3, <3>1, FlowAtConfig
  <2>4. CASE page = "calibration" /\ page' = "roi"
    BY <2>1, <2>4 DEF FlowInv, ConfigInv, RoiInv, CalibInv, TuningInv, Here, Consistent
  <2> QED  BY <1>3, <2>2, <2>3, <2>4 DEF PlainBack, Click
<1>4. ASSUME NEW id \in Ids, EditCamera(id) PROVE FlowInv'
  <2>1. page = "hub" /\ busy' = "idle" /\ cameras' = cameras /\ mode' = mode /\ id \in DOMAIN cameras
        /\ device' = cameras[id].serial
    BY <1>4 DEF EditCamera, Click
  <2>2. device' \in Serials
    BY <2>1 DEF TypeOK, HubTypeOK, Config
  <2>3. CASE page' = page
    BY <1>0, <2>1, <2>3, FlowLeft
  <2>4. CASE Populate(device', cameras[id].choice) /\ page' = "config"
    <3>1. form'.serial = device' /\ form'.choice \in Choices /\ form'.mode = mode[device']
      BY <2>2, <2>4, PopulateTyped
    <3> QED  BY <2>1, <2>2, <2>4, <3>1, FlowAtConfig
  <2> QED  BY <1>4, <2>3, <2>4 DEF EditCamera
<1>5. ASSUME NEW s \in Serials, DeviceChosen(s) PROVE FlowInv'
  <2>1. page = "device" /\ busy' = "idle" /\ cameras' = cameras /\ mode' = mode /\ device' = s
    BY <1>5 DEF DeviceChosen, NextAt, Click
  <2>2. CASE page' = page
    BY <1>0, <2>1, <2>2, FlowLeft
  <2>3. CASE Populate(s, None) /\ page' = "config"
    <3>1. form'.serial = device' /\ form'.choice \in Choices /\ form'.mode = mode[device']
      BY <2>1, <2>3, PopulateTyped
    <3> QED  BY <2>1, <2>3, <3>1, FlowAtConfig
  <2> QED  BY <1>5, <2>2, <2>3 DEF DeviceChosen
<1> QED  BY <1>1, <1>2, <1>3, <1>4, <1>5

LEMMA ConfigPageInv ==
  ASSUME TypeOK, PageInv, FlowInv,
         \/ StartPreview \/ StopPreview \/ ConfigBack \/ ConfigNext \/ RequestModeSwitch
         \/ PreviewFails \/ PreviewReturns \/ PreviewError
         \/ ModeSwitched \/ ModeSwitchRaises \/ PreviewStopped
  PROVE  FlowInv'
<1>0. form \in FormType /\ mode \in [Serials -> Modes]
  BY DEF TypeOK
<1>1. CASE \/ StartPreview \/ StopPreview \/ ConfigBack \/ RequestModeSwitch
           \/ PreviewFails \/ PreviewReturns \/ PreviewError
  <2>1. UNCHANGED <<cameras, page, device, mode, form, picks, roiPage, calib, tuning, leds, pending>>
        /\ (busy' = "tuningSet" => busy = "tuningSet")
    BY <1>1 DEF StartPreview, StopPreview, ConfigBack, RequestModeSwitch, PreviewFails, PreviewReturns,
       PreviewError, StopPreviewThen, ConfigVars, hubVars, flowVars
  <2> QED  BY <2>1, FlowKept
<1>2. CASE ConfigNext
  <2>1. page = "config" /\ page' = "config" /\ busy' # "tuningSet" /\ UNCHANGED <<cameras, device, mode>>
    BY <1>2 DEF ConfigNext, Click, StopPreviewThen, ConfigVars, hubVars, flowVars
  <2>2. device \in Serials /\ form.serial = device /\ (form.mode = mode[device] \/ form.failed)
    BY <2>1 DEF FlowInv, ConfigInv
  <2>3. PICK c \in Offered[form.serial][form.shown] : form' = [form EXCEPT !.choice = c]
    BY <1>2 DEF ConfigNext
  <2>4. c \in Choices
    BY <1>0, <2>2, <2>3, WizardAssumption DEF FormType
  <2>5. form'.serial = form.serial /\ form'.choice = c /\ form'.mode = form.mode /\ form'.failed = form.failed
    BY <1>0, <2>3 DEF FormType
  <2> QED  BY <2>1, <2>2, <2>4, <2>5, FlowAtConfig
<1>3. CASE ModeSwitched \/ ModeSwitchRaises
  <2>1. page = "config" /\ page' = "config" /\ busy' # "tuningSet" /\ UNCHANGED <<cameras, device>>
    BY <1>3 DEF ModeSwitched, ModeSwitchRaises, PageInv, hubVars, flowVars
  <2>2. device \in Serials /\ form.serial = device /\ form.choice \in Choices
    BY <2>1 DEF FlowInv, ConfigInv
  <2>3. CASE \/ form' = [form EXCEPT !.failed = TRUE]
             \/ form' = [form EXCEPT !.failed = TRUE, !.locked = TRUE]
    <3>1. form'.failed /\ form'.serial = form.serial /\ form'.choice = form.choice
      BY <1>0, <2>3 DEF FormType
    <3> QED  BY <2>1, <2>2, <3>1, FlowAtConfig
  <2>4. CASE ModeSwitched /\ Refill(Other(form.mode))
    <3>1. Other(form.mode) \in Modes
      BY <1>0 DEF Other, Modes
    <3>2. form'.serial = form.serial /\ form'.choice \in Choices /\ form'.mode = Other(form.mode)
      BY <2>2, <2>4, <3>1, RefillTyped
    <3>3. mode'[device'] = Other(form.mode)
      BY <1>0, <2>1, <2>2, <2>4 DEF ModeSwitched
    <3> QED  BY <2>1, <2>2, <3>2, <3>3, FlowAtConfig
  <2> QED  BY <1>3, <2>3, <2>4 DEF ModeSwitched, ModeSwitchRaises
<1>4. CASE PreviewStopped
  <2>1. page = "config" /\ busy' = "idle" /\ UNCHANGED <<cameras, device, mode, form, calib, tuning, leds, pending>>
    BY <1>4 DEF PreviewStopped, PageInv
  <2>2. CASE busy = "stopPreview"
    BY <1>4, <2>1, <2>2, FlowKept DEF PreviewStopped
  <2>3. CASE busy = "backToDevice"
    BY <1>4, <2>1, <2>3, FlowLeft DEF PreviewStopped, FlowInv
  <2>4. CASE busy = "configChosen"
    <3>1. page' = "roi" /\ picks' = form.choice /\ roiPage' = [serial |-> device, choice |-> form.choice]
      BY <1>4, <2>4 DEF PreviewStopped, ConfigChosen, RoiContext
    <3> QED  BY <2>1, <3>1 DEF FlowInv, ConfigInv, RoiInv, CalibInv, TuningInv, Here, Consistent
  <2> QED  BY <1>4, <2>2, <2>3, <2>4 DEF PreviewStopped
<1> QED  BY <1>1, <1>2, <1>3, <1>4

LEMMA CalibrationPageInv ==
  ASSUME TypeOK, PageInv, FlowInv,
         \/ RoiCapture \/ RoiFails \/ RoiChosen
         \/ RunCalibration \/ CalibrationFails \/ CalibrationSucceeds \/ ContinueCalibration
  PROVE  FlowInv'
<1>0. calib \in CalibType
  BY DEF TypeOK
<1>1. CASE RoiCapture \/ RoiFails \/ RunCalibration \/ CalibrationFails
  <2>1. UNCHANGED <<cameras, page, device, mode, form, picks, roiPage, tuning, leds, pending>>
        /\ (busy' = "tuningSet" => busy = "tuningSet")
    BY <1>1 DEF RoiCapture, RoiFails, RunCalibration, CalibrationFails, hubVars, flowVars
  <2>2. UNCHANGED <<calib.args, calib.roi, calib.result>>
    BY <1>0, <1>1 DEF RoiCapture, RoiFails, RunCalibration, CalibrationFails, CalibType
  <2> QED  BY <2>1, <2>2, FlowKept
<1>2. CASE RoiChosen
  <2>1. page = "roi" /\ page' = "calibration" /\ busy' = "idle"
        /\ UNCHANGED <<cameras, device, mode, form, picks, roiPage, tuning, leds, pending>>
    BY <1>2 DEF RoiChosen, PageInv, hubVars
  <2>2. device \in Serials /\ picks \in Choices /\ roiPage = Here
    BY <2>1 DEF FlowInv, ConfigInv, RoiInv
  <2>3. calib'.args = Here /\ calib'.roi = Here /\ calib'.result = None
    BY <1>0, <1>2, <2>2 DEF RoiChosen, NewCalibration, Here, CalibType
  <2>4. Here # None /\ Here' = Here
    BY <2>1, <2>2, HereTyped DEF Here
  <2>5. ConfigInv' /\ RoiInv' /\ TuningInv'
    BY <2>1 DEF FlowInv, ConfigInv, RoiInv, TuningInv, Here
  <2>6. CalibInv'
    BY <2>3, <2>4 DEF CalibInv
  <2> QED  BY <2>1, <2>5, <2>6 DEF FlowInv, Consistent
<1>3. CASE CalibrationSucceeds \/ ContinueCalibration
  <2>1. page = "calibration" /\ page' = "calibration" /\ UNCHANGED <<cameras, device, mode, form, picks, roiPage>>
    BY <1>3 DEF CalibrationSucceeds, ContinueCalibration, Click, PageInv, hubVars
  <2>2. device \in Serials
    BY <2>1 DEF FlowInv, ConfigInv
  <2>3. \A k \in Slugs(picks.streams) : leds'[k] = Here
    <3>1. CASE CalibrationSucceeds
      BY <3>1, CalibrationSaves
    <3>2. CASE ContinueCalibration
      BY <2>1, <3>2 DEF ContinueCalibration, FlowInv, CalibInv
    <3> QED  BY <1>3, <3>1, <3>2
  <2>4. calib'.args = Here /\ calib'.roi = Here /\ calib'.result = Here
    <3>1. calib.args = Here /\ calib.roi = Here /\ calib.result \in {None, Here}
      BY <2>1 DEF FlowInv, CalibInv
    <3> QED  BY <1>0, <1>3, <3>1 DEF CalibrationSucceeds, ContinueCalibration, CalibType
  <2>5. OnCalibrationDone(leds')
    BY <1>3 DEF CalibrationSucceeds, ContinueCalibration
  <2>6. /\ pending' = [serial |-> device, choice |-> picks, roi |-> Here]
        /\ tuning'.leds = [k \in Slugs(picks.streams) |-> Here]
    BY <2>1, <2>2, <2>3, <2>5, TuningContext DEF FlowInv
  <2>7. Here' = Here
    BY <2>1 DEF Here
  <2>8. ConfigInv' /\ RoiInv'
    BY <2>1, <2>7 DEF FlowInv, ConfigInv, RoiInv
  <2>9. CalibInv' /\ TuningInv'
    BY <2>1, <2>3, <2>4, <2>6, <2>7 DEF CalibInv, TuningInv
  <2> QED  BY <2>1, <2>8, <2>9 DEF FlowInv, Consistent
<1> QED  BY <1>1, <1>2, <1>3

LEMMA TuningPageInv ==
  ASSUME TypeOK, PageInv, FlowInv,
         \/ StartTuning \/ StopTuning \/ TuningReturns \/ TuningFinished \/ TurnTuningSpin
         \/ ConfirmTuning \/ Confirmed \/ TuningBack \/ TuningContinue \/ TuningStopped
  PROVE  FlowInv'
<1>0. tuning \in TuningType
  BY DEF TypeOK
<1>1. CASE \/ StartTuning \/ StopTuning \/ TuningReturns \/ TuningFinished \/ TurnTuningSpin
           \/ ConfirmTuning \/ Confirmed \/ TuningBack
  <2>1. UNCHANGED <<cameras, page, device, mode, form, picks, roiPage, calib, leds, pending>>
        /\ (busy' = "tuningSet" => busy = "tuningSet")
    BY <1>1 DEF StartTuning, StopTuning, TuningReturns, TuningFinished, TurnTuningSpin, ConfirmTuning,
       Confirmed, TuningBack, StopTuningThen, TuningOnly, hubVars, flowVars
  <2>2. UNCHANGED tuning.leds
    BY <1>0, <1>1 DEF StartTuning, StopTuning, TuningReturns, TuningFinished, TurnTuningSpin, ConfirmTuning,
       Confirmed, TuningBack, StopTuningThen, TuningType
  <2> QED  BY <2>1, <2>2, FlowKept
<1>2. CASE TuningContinue
  <2>1. page = "tuning" /\ busy' = "tuningDone"
        /\ UNCHANGED <<cameras, page, device, mode, form, picks, roiPage, calib, pending>>
    BY <1>2 DEF TuningContinue, Click, StopTuningThen, hubVars
  <2>2. picks \in Choices /\ device \in Serials /\ tuning.leds = [k \in Slugs(picks.streams) |-> Here]
    BY <2>1 DEF FlowInv, ConfigInv, RoiInv, TuningInv
  <2>3. \A k \in Slugs(picks.streams) : leds'[k] = Here
    BY <1>2, <2>2, HereTyped DEF TuningContinue, UpdateConfigLeds
  <2>4. tuning'.leds = tuning.leds /\ Here' = Here
    BY <1>0, <1>2, <2>1 DEF TuningContinue, StopTuningThen, TuningType, Here
  <2>5. ConfigInv' /\ RoiInv' /\ CalibInv'
    BY <2>1, <2>3, <2>4 DEF FlowInv, ConfigInv, RoiInv, CalibInv
  <2>6. TuningInv'
    BY <2>1, <2>4 DEF FlowInv, TuningInv
  <2> QED  BY <2>1, <2>5, <2>6 DEF FlowInv, Consistent
<1>3. CASE TuningStopped
  <2>1. busy' = "idle" /\ UNCHANGED <<mode, leds>>
    BY <1>3 DEF TuningStopped
  <2>2. CASE busy = "tuningSet"
    <3>1. page = "calibration" /\ page' = "tuning"
          /\ UNCHANGED <<cameras, device, form, picks, roiPage, calib, pending>>
      BY <1>3, <2>2 DEF TuningStopped, PageInv, hubVars
    <3>2. tuning'.leds = tuning.leds
      BY <1>0, <1>3, <2>2 DEF TuningStopped, TuningType
    <3> QED  BY <2>1, <2>2, <3>1, <3>2 DEF FlowInv, ConfigInv, RoiInv, CalibInv, TuningInv, Here, Consistent
  <2>3. CASE busy = "backToCalibration"
    <3>1. page = "tuning" /\ page' = "calibration"
          /\ UNCHANGED <<cameras, device, form, picks, roiPage, calib>>
      BY <1>3, <2>3 DEF TuningStopped, PageInv, hubVars
    <3> QED  BY <2>1, <3>1 DEF FlowInv, ConfigInv, RoiInv, CalibInv, TuningInv, Here, Consistent
  <2>4. CASE busy = "tuningDone"
    <3>1. page = "tuning" /\ page' = "hub" /\ Commit(TunedConfig)
      BY <1>3, <2>4 DEF TuningStopped, PageInv
    <3>2. Consistent(TunedConfig)
      BY <3>1, TunedConfigIs
    <3>3. \A id \in DOMAIN cameras' : cameras'[id] = TunedConfig \/ (id \in DOMAIN cameras /\ cameras'[id] = cameras[id])
      BY <3>1 DEF Commit
    <3>4. \A id \in DOMAIN cameras' : Consistent(cameras'[id])
      BY <3>2, <3>3 DEF FlowInv
    <3> QED  BY <2>1, <3>1, <3>4, FlowLeft
  <2> QED  BY <1>3, <2>2, <2>3, <2>4 DEF TuningStopped
<1> QED  BY <1>1, <1>2, <1>3

LEMMA LivePageInv ==
  ASSUME FlowInv,
         \/ StartOneCamera \/ LiveBack \/ LiveStopped
         \/ StartLive \/ StopLive \/ LiveReturns \/ LiveFinished \/ TurnLiveSpin \/ ConfirmLive
         \/ AnswerNo \/ AnswerYes
  PROVE  FlowInv'
<1>1. CASE StartOneCamera \/ LiveBack \/ LiveStopped
  <2>1. page' \in {"live", "hub"} /\ busy' # "tuningSet" /\ cameras' = cameras
    BY <1>1 DEF StartOneCamera, LiveBack, LiveStopped, Click, hubVars
  <2> QED  BY <2>1, FlowLeft DEF FlowInv
<1>2. CASE \/ StartLive \/ StopLive \/ LiveReturns \/ LiveFinished \/ TurnLiveSpin \/ ConfirmLive
           \/ AnswerNo \/ AnswerYes
  <2>1. UNCHANGED <<cameras, page, device, mode, form, picks, roiPage, calib, tuning, leds, pending>>
        /\ (busy' = "tuningSet" => busy = "tuningSet")
    BY <1>2 DEF StartLive, StopLive, LiveReturns, LiveFinished, TurnLiveSpin, ConfirmLive, AnswerNo,
       AnswerYes, LiveOnly, hubVars, flowVars
  <2> QED  BY <2>1, FlowKept
<1> QED  BY <1>1, <1>2

LEMMA NextFlowInv ==
  ASSUME TypeOK, PageInv, FlowInv, [Next]_vars
  PROVE  FlowInv'
<1>1. CASE UNCHANGED vars
  <2>1. UNCHANGED <<cameras, page, busy, device, mode, form, picks, roiPage, calib, tuning, leds, pending>>
    BY <1>1 DEF vars, wizardVars, hubVars, flowVars
  <2> QED  BY <2>1, FlowKept
<1> QED
  BY <1>1, FlowClicksInv, ConfigPageInv, CalibrationPageInv, TuningPageInv, LivePageInv DEF Next
-----------------------------------------------------------------------------
LEMMA InitWizardInv == Init => WizardInv
<1> SUFFICES ASSUME Init PROVE WizardInv
  OBVIOUS
<1>1. TypeOK /\ MasterInv
  BY InitTypeOK, InitMasterInv
<1>2. page = "hub" /\ busy = "idle" /\ preview = "none" /\ DOMAIN cameras = {}
  BY DEF Init, HubInit
<1>3. ~calib.running /\ tuning.thread = "none"
  BY DEF Init, NoCalib, NoTuning
<1>4. live = NoLive
  BY DEF Init
<1>5. PageInv
  BY <1>2, <1>3, <1>4 DEF PageInv, NoLive, Alive
<1>6. FlowInv /\ PanelInv
  BY <1>2 DEF FlowInv, ConfigInv, RoiInv, CalibInv, TuningInv, PanelInv
<1>7. SpeedInv
  BY <1>2, <1>4 DEF SpeedInv, NoLive, Alive
<1> QED  BY <1>1, <1>5, <1>6, <1>7 DEF WizardInv

(* No click goes back on a calibration left behind.                          *)
LEMMA WalkedOutStays == ASSUME walkedOut, [Next]_vars PROVE walkedOut'
<1> USE DEF flowVars, wizardVars, ConfigVars, TuningOnly, LiveOnly, NextAt, Click
<1>1. CASE ~UNCHANGED vars
  BY <1>1 DEF Next, AddCamera, HubClick, DeviceBack, PlainBack, EditCamera, DeviceChosen,
     StartPreview, StopPreview, ConfigBack, ConfigNext, RequestModeSwitch, ModeSwitched, ModeSwitchRaises,
     PreviewStopped, PreviewFails, PreviewReturns, PreviewError, RoiCapture, RoiFails, RoiChosen,
     RunCalibration, CalibrationFails, CalibrationSucceeds, ContinueCalibration,
     StartTuning, StopTuning, TuningReturns, TuningFinished, TurnTuningSpin, ConfirmTuning, Confirmed,
     TuningBack, TuningContinue, TuningStopped, StartOneCamera, StartCameras, StartLive, StopLive,
     LiveReturns, LiveFinished, TurnLiveSpin, ConfirmLive, LiveBack, AnswerNo, AnswerYes, LiveStopped
<1>2. CASE UNCHANGED vars
  BY <1>2 DEF vars
<1> QED  BY <1>1, <1>2

(* The invariant is inductive up to the click that walks out of a running    *)
(* calibration, and no step leads back.                                     *)
THEOREM WizardInvariant == Spec => [](~walkedOut => WizardInv)
<1> DEFINE Inv == ~walkedOut => WizardInv
<1>1. Inv /\ [Next]_vars => Inv'
  <2> SUFFICES ASSUME Inv, [Next]_vars, ~walkedOut' PROVE WizardInv'
    OBVIOUS
  <2>0. WizardInv
    BY WalkedOutStays
  <2> USE <2>0 DEF WizardInv
  <2>1. MasterInv'
    BY NextMasterInv
  <2>2. TypeOK'
    BY <2>1, NextTypeOK
  <2>3. PageInv' /\ FlowInv'
    BY NextPageInv, NextFlowInv
  <2>4. PanelInv' /\ SpeedInv'
    BY NextPanelInv, NextSpeedInv
  <2> QED  BY <2>1, <2>2, <2>3, <2>4
<1>2. Init => Inv
  BY InitWizardInv
<1> QED  BY <1>1, <1>2, PTL DEF Spec

(* Every page's fields hold what the page believes they hold, whatever else *)
(* is clicked, in whatever order, and whenever a capture fails.             *)
THEOREM TypeCorrect == Spec => [](~walkedOut => TypeOK)
<1>1. (~walkedOut => WizardInv) => (~walkedOut => TypeOK)
  BY DEF WizardInv
<1> QED  BY <1>1, WizardInvariant, PTL

(* However many cameras, tests and previews there are, what captures is the *)
(* page that is shown: two captures never meet on one camera, until the     *)
(* click that walks out of a calibration, which the property exempts.       *)
THEOREM OneCaptureAtATime == Spec => []CapturedForItsPage
<1>1. (~walkedOut => WizardInv) => CapturedForItsPage
  BY DEF WizardInv, PageInv, CapturedForItsPage, Alive
<1> QED  BY <1>1, WizardInvariant, PTL

(* Single-panel commands go to the panel of the test at hand, for any set   *)
(* of tests and cameras.                                                    *)
THEOREM PanelIsTheTests == Spec => []PanelOfTheTest
<1>1. (~walkedOut => WizardInv) => PanelOfTheTest
  BY DEF WizardInv, PanelInv, PanelOfTheTest
<1> QED  BY <1>1, WizardInvariant, PTL

(* Every configuration a flow ends with, and every page on the way there,   *)
(* is of one camera and one test.                                           *)
THEOREM FlowsDoNotMix == Spec => []OneCameraPerFlow
<1>1. (~walkedOut => WizardInv) => OneCameraPerFlow
  BY DEF WizardInv, FlowInv, ConfigInv, RoiInv, CalibInv, Here, Consistent, OneCameraPerFlow
<1> QED  BY <1>1, WizardInvariant, PTL

(* A run uses the switch time its page shows, and two panels are not        *)
(* reconfigured under the preview that scans them, for any switch times.    *)
THEOREM SpeedSettled == Spec => []SpeedIsSettled
<1>1. (~walkedOut => WizardInv) => SpeedIsSettled
  BY DEF WizardInv, SpeedInv, SpeedIsSettled
<1> QED  BY <1>1, WizardInvariant, PTL
=============================================================================
