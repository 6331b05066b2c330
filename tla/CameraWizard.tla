---------------------------- MODULE CameraWizard ----------------------------
(***************************************************************************)
(* The whole window: the wizard that configures one camera (Device Select,  *)
(* Stream Config, ROI Select, Calibration, Threshold Tuning), the hub it    *)
(* returns to, and the page of a single-camera run, which captures for      *)
(* itself (the multi-camera page is MultiCameraSession).                    *)
(*                                                                         *)
(* Every page is built once and keeps its contents when another is shown.   *)
(* A page captures either on a thread of its own (previews, live session)   *)
(* or in a click handler that holds the GUI thread (ROI, calibration).      *)
(* Signals a thread has posted are handled before the next click.           *)
(***************************************************************************)
EXTENDS CameraHub

CONSTANTS
  Switchable,    \* the devices with two RGB modes
  Offered,       \* per device and mode, the choices that match what it reports
  Times,         \* LED switch times an operator sets
  DefaultTime    \* settings.yaml's switch_time_ms

Modes == {"dual", "dedicated"}

ASSUME WizardAssumption ==
  /\ Switchable \subseteq Serials /\ Offered \in [Serials -> [Modes -> SUBSET Choices]]
  /\ Times \subseteq Nat
  /\ DefaultTime \in Times

Pages == {"hub", "device", "config", "roi", "calibration", "tuning", "live", "multi"}

\* Why the GUI thread is held: a capture, a mode switch, a reconfiguration of
\* both panels, a question box, or a wait() for a thread in some handler.
Waits == {"stopPreview", "backToDevice", "configChosen", "tuningSet", "backToCalibration",
          "tuningDone", "backToHub"}
Busy == {"idle", "roi", "switch", "confirm", "question"} \cup Waits

\* A thread: asked to stop it is "stopping"; "ended" once run() has returned
\* and its finished or error signal has not been handled.
Alive == {"running", "stopping"}
Phases == Alive \cup {"none", "ended"}

VARIABLES
  page,     \* the page shown
  busy,     \* see Busy
  device,   \* gui_state.device_serial (and _device_name)
  listed,   \* Device Select's _devices
  mode,     \* per device, the RGB mode it is in
  form,     \* Stream Config: the device, the choice, the mode it believes in,
            \* the mode whose tests it lists, whether the last switch failed,
            \* whether Next and Back are locked
  preview,  \* Stream Config's preview thread
  picks,    \* _pick_a, _pick_b, _camera_controls and _dual_panel_config
  roiPage,  \* ROI Select's _pending_args
  calib,    \* Calibration's arguments (its regions are also gui_state's), its
            \* last result, and whether it runs
  leds,     \* config.yaml: per stream slug, the subject its positions are of;
            \* the devices are of one model, whose name is the rest of the key
  pending,  \* _pending_ctx
  tuning,   \* Threshold Tuning's context, switch times and preview thread
  live,     \* the single-camera page's context, switch times and thread
  walkedOut \* history: Continue was clicked inside a running calibration, whose
            \* log pumps the event loop; its capture goes on under other pages

flowVars   == <<device, listed, picks, roiPage, leds, pending, walkedOut>>
wizardVars == <<page, busy, mode, form, preview, calib, tuning, live, flowVars>>
vars       == <<hubVars, wizardVars>>

AllSlugs == UNION {Slugs(c.streams) : c \in Choices}

Maybe(S) == S \cup {None}
FormType   == [serial : Maybe(Serials), choice : Maybe(Choices), mode : Modes,
               shown : Modes, failed : BOOLEAN, locked : BOOLEAN]
CalibType  == [args : Maybe(Subject), roi : Maybe(Subject), result : Maybe(Subject), running : BOOLEAN]
TuningType == [leds : Maybe(Positions), dual : BOOLEAN, spin : Times, applied : Times, thread : Phases]
LiveType   == [config : Maybe(Config), spin : Times, confirmed : Times, used : Times,
               start : BOOLEAN, running : BOOLEAN, thread : Phases]

(* What a page keeps is written anew before the page is shown again, once   *)
(* the flow it was written for has ended, and for Threshold Tuning and the  *)
(* live page whenever they were left: it is then forgotten.                 *)
NoForm   == [serial |-> None, choice |-> None, mode |-> "dual", shown |-> "dual",
             failed |-> FALSE, locked |-> FALSE]
NoCalib  == [args |-> None, roi |-> None, result |-> None, running |-> FALSE]
NoTuning == [leds |-> None, dual |-> FALSE, spin |-> DefaultTime, applied |-> DefaultTime,
             thread |-> "none"]
NoLive   == [config |-> None, spin |-> DefaultTime, confirmed |-> DefaultTime, used |-> DefaultTime,
             start |-> TRUE, running |-> FALSE, thread |-> "none"]

TypeOK ==
  /\ HubTypeOK
  /\ page \in Pages /\ busy \in Busy
  /\ device \in Maybe(Serials) /\ listed \subseteq Serials
  /\ mode \in [Serials -> Modes]
  /\ form \in FormType /\ preview \in Phases
  /\ picks \in Maybe(Choices) /\ roiPage \in Maybe(Subject)
  /\ calib \in CalibType
  /\ leds \in [AllSlugs -> Maybe(Subject)]
  /\ pending \in Maybe([serial : Serials, choice : Choices, roi : Maybe(Subject)])
  /\ tuning \in TuningType /\ live \in LiveType /\ walkedOut \in BOOLEAN
  /\ live.running <=> live.thread # "none"

Init ==
  /\ HubInit
  /\ page = "hub" /\ busy = "idle"
  /\ device = None /\ listed = Serials  \* refreshed as the window opens
  /\ mode \in [Serials -> Modes] /\ \A s \in Serials \ Switchable : mode[s] = "dual"
  /\ form = NoForm /\ calib = NoCalib
  /\ preview = "none" /\ picks = None /\ roiPage = None
  /\ leds = [k \in AllSlugs |-> None]
  /\ pending = None
  /\ tuning = NoTuning /\ live = NoLive
  /\ walkedOut = FALSE

\* A click on a widget of page p is taken: the event loop is reached, every
\* posted signal is handled; a calibration reaches it where it logs.  Bound:
\* no click follows the one that walks out of a calibration.
Click(p) ==
  /\ page = p /\ busy = "idle"
  /\ "ended" \notin {preview, tuning.thread, live.thread}
  /\ ~walkedOut

-----------------------------------------------------------------------------
(* The hub and Device Select.                                               *)

\* DeviceSelectPage.refresh_devices.
RefreshDevices(excluded) == listed' = Serials \ excluded

\* Add: a new slot, and every device not configured yet to choose from.
AddCamera ==
  /\ Click("hub") /\ AddEnabled /\ NewSlot
  /\ RefreshDevices(Configured)
  /\ page' = "device"
  /\ UNCHANGED <<cameras, master, target, busy, mode, form, preview, calib, tuning, live,
                 device, picks, roiPage, leds, pending, walkedOut>>

\* The tests of settings.yaml that match what the device reports in its mode.
Usable(s) == Offered[s][mode[s]]

\* StreamConfigPage.populate; a preferred choice that is gone gives the first.
Populate(s, preferred) ==
  \E c \in Usable(s) :
    /\ preferred \in Usable(s) => c = preferred
    /\ form' = [serial |-> s, choice |-> c, mode |-> mode[s], shown |-> mode[s],
                failed |-> FALSE, locked |-> FALSE]

\* _populate_stream_config_page says no (FALSE), or its device lookup raises.
CannotPopulate(s) == form' = form

\* DeviceSelectPage._on_next_clicked: nothing without a device of the list.
NextAt(s) == Click("device") /\ s \in listed

\* _on_device_chosen: the device is recorded before its streams are looked up.
DeviceChosen(s) ==
  /\ NextAt(s) /\ device' = s
  /\ IF editing = NoCamera THEN NewSlot ELSE UNCHANGED <<editing, slots>>
  /\ \/ Populate(s, None) /\ page' = "config"
     \/ CannotPopulate(s) /\ page' = page
  /\ UNCHANGED <<cameras, master, target, busy, mode, preview, calib, tuning, live,
                 listed, picks, roiPage, leds, pending, walkedOut>>

\* _on_edit_camera_requested: skips Device Select, whose list stays as it was.
EditCamera(id) ==
  /\ Click("hub") /\ id \in DOMAIN cameras
  /\ device' = cameras[id].serial
  /\ \/ Populate(device', cameras[id].choice) /\ page' = "config" /\ editing' = id
     \/ CannotPopulate(device') /\ page' = page /\ editing' \in {NoCamera, id}
  /\ UNCHANGED <<cameras, master, slots, target, busy, mode, preview, calib, tuning, live,
                 listed, picks, roiPage, leds, pending, walkedOut>>

\* Set as Master, and Remove.
HubClick ==
  /\ Click("hub")
  /\ \E id \in Ids : SetMaster(id) \/ RemoveCamera(id)
  /\ UNCHANGED wizardVars

\* A flow's end; a calibration still running holds on to what it was given.
FlowEnds ==
  IF calib.running THEN UNCHANGED <<device, form, picks, roiPage, calib, pending>>
  ELSE /\ form' = NoForm /\ calib' = NoCalib
       /\ device' = None /\ picks' = None /\ roiPage' = None /\ pending' = None

\* Device Select's Back, to the hub; the slot stays with the flow.
DeviceBack ==
  /\ Click("device") /\ page' = "hub"
  /\ FlowEnds
  /\ UNCHANGED <<hubVars, busy, mode, preview, tuning, live, listed, leds, walkedOut>>

\* The Back buttons that only show the page before.
PlainBack ==
  /\ \E step \in {<<"roi", "config">>, <<"calibration", "roi">>, <<"multi", "hub">>} :
       /\ Click(step[1]) /\ page' = step[2]
       /\ step[1] = "calibration" => ~calib.running
  /\ UNCHANGED <<hubVars, busy, mode, form, preview, calib, tuning, live, flowVars>>

-----------------------------------------------------------------------------
(* Stream Config.  A wait() for a thread holds the GUI thread until the     *)
(* thread has returned; Resume is the rest of the handler that waits.       *)

ConfigVars == <<hubVars, page, mode, calib, tuning, live, flowVars>>

\* Start is enabled while no preview runs.
StartPreview ==
  /\ Click("config") /\ preview = "none" /\ preview' = "running"
  /\ UNCHANGED <<ConfigVars, busy, form>>

\* _stop_preview, in the handler that goes on as `after`; no preview, no wait.
StopPreviewThen(after) ==
  /\ busy' = after
  /\ preview' = IF preview = "running" THEN "stopping" ELSE preview

StopPreview ==
  /\ Click("config") /\ preview # "none"
  /\ StopPreviewThen("stopPreview")
  /\ UNCHANGED <<ConfigVars, form>>

ConfigBack ==
  /\ Click("config") /\ ~form.locked /\ StopPreviewThen("backToDevice")
  /\ UNCHANGED <<ConfigVars, form>>

\* Next, on a choice the page lists, with the radio button of the mode the page
\* believes in; _on_test_changed and the sensor options only change the choice.
ConfigNext ==
  /\ Click("config") /\ ~form.locked
  /\ \E c \in Offered[form.serial][form.shown] : form' = [form EXCEPT !.choice = c]
  /\ StopPreviewThen("configChosen")
  /\ UNCHANGED ConfigVars

\* Next with the other mode's radio button: a preview goes on.
RequestModeSwitch ==
  /\ Click("config") /\ ~form.locked /\ form.serial \in Switchable
  /\ busy' = "switch"
  /\ UNCHANGED <<ConfigVars, form, preview>>

Other(m) == IF m = "dual" THEN "dedicated" ELSE "dual"

(* The page is filled for the mode m.  When no test matches it, the page     *)
(* notes the mode (note_mode_switch_applied) and lists the other's tests.   *)
Refill(m) ==
  \/ \E c \in Offered[form.serial][m] :
       /\ form.choice \in Offered[form.serial][m] => c = form.choice
       /\ form' = [form EXCEPT !.choice = c, !.mode = m, !.shown = m, !.failed = FALSE]
  \/ Offered[form.serial][m] = {} /\ form' = [form EXCEPT !.mode = m, !.failed = FALSE]

(* ensure_mode returned.  If listing the device's streams raises now, the   *)
(* handler ends there, and Next and Back stay disabled.                     *)
ModeSwitched ==
  /\ busy = "switch" /\ busy' = "idle"
  /\ mode' = [mode EXCEPT ![form.serial] = Other(form.mode)]
  /\ Refill(Other(form.mode)) \/ form' = [form EXCEPT !.failed = TRUE, !.locked = TRUE]
  /\ UNCHANGED <<hubVars, page, preview, calib, tuning, live, flowVars>>

\* ensure_mode raised, before the device was switched or when it did not come
\* back in time; the page's belief stays.
ModeSwitchRaises ==
  /\ busy = "switch" /\ busy' = "idle"
  /\ \E m \in {mode[form.serial], Other(form.mode)} : mode' = [mode EXCEPT ![form.serial] = m]
  /\ form' = [form EXCEPT !.failed = TRUE]
  /\ UNCHANGED <<hubVars, page, preview, calib, tuning, live, flowVars>>

\* RoiSelectPage.set_context
RoiContext(choice) == roiPage' = [serial |-> device, choice |-> choice]

\* _on_config_chosen
ConfigChosen ==
  /\ picks' = form.choice
  /\ target' = PanelFor({form.choice})
  /\ RoiContext(form.choice)
  /\ page' = "roi"

\* The preview has returned: the handler that waits for it goes on.
PreviewStopped ==
  /\ busy \in {"stopPreview", "backToDevice", "configChosen"} /\ preview \notin Alive
  /\ preview' = "none" /\ busy' = "idle"
  /\ \/ busy = "stopPreview" /\ UNCHANGED <<page, picks, target, roiPage>>
     \/ busy = "backToDevice" /\ page' = "device" /\ UNCHANGED <<picks, target, roiPage>>
     \/ busy = "configChosen" /\ ConfigChosen
  /\ UNCHANGED <<cameras, master, editing, slots, mode, form, calib, tuning, live,
                 device, listed, leds, pending, walkedOut>>

\* The preview's camera fails; _on_preview_error stops what has ended.
PreviewFails ==
  /\ preview \in Alive /\ preview' = "ended"
  /\ UNCHANGED <<ConfigVars, busy, form>>

\* run() sees the stop request at the next frame pair.
PreviewReturns ==
  /\ preview = "stopping" /\ preview' = "none"
  /\ UNCHANGED <<ConfigVars, busy, form>>

PreviewError ==
  /\ preview = "ended" /\ busy = "idle" /\ preview' = "none"
  /\ UNCHANGED <<ConfigVars, busy, form>>

-----------------------------------------------------------------------------
(* ROI Select and Calibration capture in their click handler.               *)

RoiCapture ==
  /\ Click("roi") /\ roiPage # None /\ busy' = "roi"
  /\ UNCHANGED <<hubVars, page, mode, form, preview, calib, tuning, live, flowVars>>

\* A capture that fails, or a region that is not drawn.
RoiFails ==
  /\ busy = "roi" /\ busy' = "idle"
  /\ UNCHANGED <<hubVars, page, mode, form, preview, calib, tuning, live, flowVars>>

\* Mutation: the last result is kept.
NewCalibrationKeepingResult(roiNow) ==
  calib' = [calib EXCEPT !.args = [serial |-> device, choice |-> picks], !.roi = roiNow]

\* CalibrationPage.set_context: a new subject has no result to continue with.
NewCalibration(roiNow) ==
  calib' = [calib EXCEPT !.args = [serial |-> device, choice |-> picks], !.roi = roiNow, !.result = None]

\* _on_roi_chosen
RoiChosen ==
  /\ busy = "roi" /\ busy' = "idle"
  /\ NewCalibration(roiPage)
  /\ page' = "calibration"
  /\ UNCHANGED <<hubVars, mode, form, preview, tuning, live, device, listed, picks, roiPage, leds, pending, walkedOut>>

RunCalibration ==
  /\ Click("calibration") /\ calib.args # None /\ ~calib.running
  /\ calib' = [calib EXCEPT !.running = TRUE]
  /\ UNCHANGED <<hubVars, page, busy, mode, form, preview, tuning, live, flowVars>>

CalibrationFails ==
  /\ calib.running /\ busy = "idle"
  /\ calib' = [calib EXCEPT !.running = FALSE]
  /\ UNCHANGED <<hubVars, page, busy, mode, form, preview, tuning, live, flowVars>>

(* _on_calibration_done, and ThresholdTuningPage.set_context, which ends by *)
(* waiting for a preview that still runs.                                   *)
OnCalibrationDone(positions) ==
  /\ pending' = [serial |-> device, choice |-> picks, roi |-> calib.roi]
  /\ tuning' = [leds |-> [k \in Slugs(picks.streams) |-> positions[k]], dual |-> picks.dual,
                spin |-> DefaultTime, applied |-> DefaultTime,
                thread |-> IF tuning.thread = "running" THEN "stopping" ELSE tuning.thread]
  /\ busy' = "tuningSet"

\* update_config_leds: the positions of these slugs only.
UpdateConfigLeds(positions) ==
  leds' = [k \in AllSlugs |-> IF k \in DOMAIN positions THEN positions[k] ELSE leds[k]]

\* _run_calibration succeeds: the positions are saved, then Continue is done.
CalibrationSucceeds ==
  /\ calib.running /\ busy = "idle"
  /\ UpdateConfigLeds([k \in Slugs(calib.args.choice.streams) |-> calib.args])
  /\ calib' = [calib EXCEPT !.running = FALSE, !.result = calib.args]
  /\ OnCalibrationDone(leds')
  /\ UNCHANGED <<hubVars, page, mode, form, preview, live, device, listed, picks, roiPage, walkedOut>>

\* Continue, with the result of an earlier run on this page.
ContinueCalibration ==
  /\ Click("calibration") /\ calib.result # None
  /\ OnCalibrationDone(leds)
  /\ walkedOut' = (walkedOut \/ calib.running)
  /\ UNCHANGED <<hubVars, page, mode, form, preview, calib, live, device, listed, picks, roiPage, leds>>

-----------------------------------------------------------------------------
(* Threshold Tuning.                                                        *)

TuningOnly == <<hubVars, page, mode, form, preview, calib, live, flowVars>>

StartTuning ==
  /\ Click("tuning") /\ tuning.thread = "none"
  /\ tuning' = [tuning EXCEPT !.thread = "running"]
  /\ UNCHANGED <<TuningOnly, busy>>

\* _stop_preview_blocking, in the handler that goes on as `after`.
StopTuningThen(after) ==
  /\ busy' = after
  /\ tuning' = [tuning EXCEPT !.thread = IF @ = "running" THEN "stopping" ELSE @]

\* Stop only asks; Start comes back with the finished signal.
StopTuning ==
  /\ Click("tuning") /\ tuning.thread = "running"
  /\ tuning' = [tuning EXCEPT !.thread = "stopping"]
  /\ UNCHANGED <<TuningOnly, busy>>

\* The preview thread returns: asked to, or because its camera failed.
TuningReturns ==
  /\ tuning.thread \in Alive
  /\ tuning' = [tuning EXCEPT !.thread = "ended"]
  /\ UNCHANGED <<TuningOnly, busy>>

\* _on_preview_thread_finished
TuningFinished ==
  /\ tuning.thread = "ended" /\ busy \in {"idle", "question"}
  /\ tuning' = [tuning EXCEPT !.thread = "none"]
  /\ UNCHANGED <<TuningOnly, busy>>

TurnTuningSpin ==
  /\ Click("tuning")
  /\ \E t \in Times : tuning' = [tuning EXCEPT !.spin = t]
  /\ UNCHANGED <<TuningOnly, busy>>

\* Mutation: only the value decides.
ConfirmEnabledByValue == tuning.spin # tuning.applied

\* _update_confirm_switch_time_button_state: two panels are not reconfigured
\* while the preview's thread has not finished.
ConfirmEnabled == tuning.spin # tuning.applied /\ (tuning.dual => tuning.thread = "none")

ConfirmTuning ==
  /\ Click("tuning") /\ ConfirmEnabled
  /\ busy' = "confirm"
  /\ UNCHANGED <<TuningOnly, tuning>>

\* The panel took the new speed, or it raised and Confirm stays enabled.
Confirmed ==
  /\ busy = "confirm" /\ busy' = "idle"
  /\ tuning' \in {tuning, [tuning EXCEPT !.applied = tuning.spin]}
  /\ UNCHANGED TuningOnly

TuningBack ==
  /\ Click("tuning") /\ StopTuningThen("backToCalibration")
  /\ UNCHANGED TuningOnly

\* _on_continue_clicked saves the positions, then waits for the preview.
TuningContinue ==
  /\ Click("tuning") /\ StopTuningThen("tuningDone")
  /\ UpdateConfigLeds(tuning.leds)
  /\ UNCHANGED <<hubVars, page, mode, form, preview, calib, live, device, listed, picks, roiPage, pending, walkedOut>>

\* _on_tuning_done's configuration.
TunedConfig ==
  [serial |-> pending.serial, choice |-> pending.choice, test |-> form.choice.test,
   roi |-> pending.roi, leds |-> tuning.leds]

\* The preview has returned: the handler that waits for it goes on.
TuningStopped ==
  /\ busy \in {"tuningSet", "backToCalibration", "tuningDone"} /\ tuning.thread \notin Alive
  /\ busy' = "idle"
  /\ \/ /\ busy = "tuningSet" /\ page' = "tuning"
        /\ tuning' = [tuning EXCEPT !.thread = "none"]
        /\ UNCHANGED <<hubVars, form, calib, device, picks, roiPage, pending>>
     \/ /\ busy = "backToCalibration" /\ page' = "calibration"
        /\ tuning' = NoTuning /\ pending' = None
        /\ UNCHANGED <<hubVars, form, calib, device, picks, roiPage>>
     \/ /\ busy = "tuningDone" /\ page' = "hub"
        /\ tuning' = NoTuning /\ Commit(TunedConfig) /\ FlowEnds
  /\ UNCHANGED <<mode, preview, live, listed, leds, walkedOut>>

-----------------------------------------------------------------------------
(* Starting a run, and the page of a single-camera run.                     *)

LiveOnly == <<hubVars, page, mode, form, preview, calib, tuning, flowVars>>

\* _update_confirm_switch_time_button_state
Gated(l) == [l EXCEPT !.start = IF l.running THEN @ ELSE l.spin = l.confirmed]

\* LiveSessionPage.set_context
LiveContext(config, t) == Gated([live EXCEPT !.config = config, !.spin = t, !.confirmed = t])

StartOneCamera ==
  /\ Click("hub") /\ PointPanel(DOMAIN cameras)
  /\ \E id \in DOMAIN cameras, t \in Times :
       DOMAIN cameras = {id} /\ live' = LiveContext(cameras[id], t)
  /\ page' = "live"
  /\ UNCHANGED <<cameras, master, editing, slots, busy, mode, form, preview, calib, tuning, flowVars>>

\* Two cameras or more.  With GMSL TSC sync ticked the run is refused for its
\* frame rates or settings, without it for a slave's color stream; the panel
\* has been pointed by then.
StartCameras ==
  /\ Click("hub") /\ PointPanel(DOMAIN cameras) /\ Cardinality(DOMAIN cameras) > 1
  /\ \E gmslTscOn \in BOOLEAN :
       page' \in IF gmslTscOn THEN {"hub", "multi"} ELSE IF Conflicts = {} THEN {"multi"} ELSE {"hub"}
  /\ UNCHANGED <<cameras, master, editing, slots, busy, mode, form, preview, calib, tuning, live, flowVars>>

\* start_session
StartLive ==
  /\ Click("live") /\ live.start
  /\ live' = [live EXCEPT !.used = live.confirmed, !.running = TRUE, !.start = FALSE, !.thread = "running"]
  /\ UNCHANGED <<LiveOnly, busy>>

\* stop_session
StopLive ==
  /\ Click("live") /\ live.thread = "running"
  /\ live' = [live EXCEPT !.thread = "stopping"]
  /\ UNCHANGED <<LiveOnly, busy>>

\* run() returns: asked to, at the end of its time, or because it failed.
LiveReturns ==
  /\ live.thread \in Alive
  /\ live' = [live EXCEPT !.thread = "ended"]
  /\ UNCHANGED <<LiveOnly, busy>>

\* Mutation: _session_running stays set.
LiveFinishedRunning ==
  /\ live.thread = "ended" /\ busy \in {"idle", "question"}
  /\ live' = Gated([live EXCEPT !.thread = "none", !.used = DefaultTime])
  /\ UNCHANGED <<LiveOnly, busy>>

\* _on_engine_thread_finished, also while Back's question is open.
LiveFinished ==
  /\ live.thread = "ended" /\ busy \in {"idle", "question"}
  /\ live' = Gated([live EXCEPT !.thread = "none", !.running = FALSE, !.used = DefaultTime])
  /\ UNCHANGED <<LiveOnly, busy>>

\* The spin box is disabled during a run; Confirm is a click of its own.
TurnLiveSpin ==
  /\ Click("live") /\ ~live.running
  /\ \E t \in Times : live' = Gated([live EXCEPT !.spin = t])
  /\ UNCHANGED <<LiveOnly, busy>>

ConfirmLive ==
  /\ Click("live") /\ ~live.running /\ live.spin # live.confirmed
  /\ live' = Gated([live EXCEPT !.confirmed = live.spin])
  /\ UNCHANGED <<LiveOnly, busy>>

\* Back: at once, or after the question whether to stop the run.
LiveBack ==
  /\ Click("live")
  /\ \/ live.running /\ busy' = "question" /\ page' = page
     \/ ~live.running /\ busy' = busy /\ page' = "hub"
  /\ live' = IF page' = "hub" THEN NoLive ELSE live
  /\ UNCHANGED <<hubVars, mode, form, preview, calib, tuning, flowVars>>

AnswerNo ==
  /\ busy = "question" /\ busy' = "idle"
  /\ UNCHANGED <<LiveOnly, live>>

\* Yes: the thread is asked to stop and waited for.
AnswerYes ==
  /\ busy = "question" /\ busy' = "backToHub"
  /\ live' = [live EXCEPT !.thread = IF @ = "running" THEN "stopping" ELSE @]
  /\ UNCHANGED LiveOnly

\* Mutation: the handler does not wait for the thread.
LiveStoppedAtOnce ==
  /\ busy = "backToHub"
  /\ busy' = "idle" /\ page' = "hub"
  /\ live' = [NoLive EXCEPT !.thread = live.thread, !.running = live.running, !.start = live.start]
  /\ UNCHANGED <<hubVars, mode, form, preview, calib, tuning, flowVars>>

\* The wait is over; the finished signal is handled next.
LiveStopped ==
  /\ busy = "backToHub" /\ live.thread \notin Alive
  /\ busy' = "idle" /\ page' = "hub"
  /\ live' = [NoLive EXCEPT !.thread = live.thread, !.running = live.running, !.start = live.start]
  /\ UNCHANGED <<hubVars, mode, form, preview, calib, tuning, flowVars>>

-----------------------------------------------------------------------------
Next ==
  \/ AddCamera \/ HubClick \/ DeviceBack \/ PlainBack
  \/ \E id \in Ids : EditCamera(id)
  \/ \E s \in Serials : DeviceChosen(s)
  \/ StartPreview \/ StopPreview \/ ConfigBack \/ ConfigNext
  \/ RequestModeSwitch \/ ModeSwitched \/ ModeSwitchRaises
  \/ PreviewStopped \/ PreviewFails \/ PreviewReturns \/ PreviewError
  \/ RoiCapture \/ RoiFails \/ RoiChosen
  \/ RunCalibration \/ CalibrationFails \/ CalibrationSucceeds \/ ContinueCalibration
  \/ StartTuning \/ StopTuning \/ TuningReturns \/ TuningFinished \/ TurnTuningSpin
  \/ ConfirmTuning \/ Confirmed \/ TuningBack \/ TuningContinue \/ TuningStopped
  \/ StartOneCamera \/ StartCameras
  \/ StartLive \/ StopLive \/ LiveReturns \/ LiveFinished \/ TurnLiveSpin \/ ConfirmLive
  \/ LiveBack \/ AnswerNo \/ AnswerYes \/ LiveStopped

Spec == Init /\ [][Next]_vars

-----------------------------------------------------------------------------
(* Safety.                                                                  *)

(* A camera is captured only for the page that is shown, so that no two     *)
(* captures ever meet on one: every way off a page waits for the page's     *)
(* thread, however it ends, and the hub and the multi-camera page find the  *)
(* cameras free.  This, and what follows, until Continue is clicked inside  *)
(* a calibration: see StaysForCalibration.                                  *)
CapturedForItsPage == ~walkedOut =>
  /\ preview \in Alive => page = "config"
  /\ busy = "roi" => page = "roi"
  /\ calib.running => page = "calibration"
  /\ tuning.thread \in Alive => page = "tuning"
  /\ live.thread \in Alive => page = "live"

(* Single-panel commands go to the panel the test at hand looks at, on      *)
(* every page that lights or scans one: whichever camera was configured     *)
(* last, edited half-way or removed in between.                             *)
PanelOfTheTest == ~walkedOut =>
  /\ page \in {"roi", "calibration", "tuning"} => target = PanelFor({picks})
  /\ page = "live" => target = PanelFor({live.config.choice})
  /\ page = "multi" => target = PanelFor(ChoicesOf(DOMAIN cameras))

(* A configuration is of one camera and one test throughout: its regions,   *)
(* LED positions and test name were all taken for its device and streams,   *)
(* also after Back, another choice, another camera of the same model, or an *)
(* RGB mode switch; and so is every page of a flow on the way there.        *)
OneCameraPerFlow == ~walkedOut =>
  /\ page = "config" /\ busy = "idle" =>
       form.serial = device /\ (form.mode = mode[device] \/ form.failed)
  /\ page \in {"roi", "calibration", "tuning"} =>
       roiPage = [serial |-> device, choice |-> picks] /\ form.choice = picks
  /\ page \in {"calibration", "tuning"} => calib.args = roiPage /\ calib.roi = roiPage
  /\ \A id \in DOMAIN cameras :
       LET c == cameras[id]
       IN /\ c.roi = [serial |-> c.serial, choice |-> c.choice] /\ c.test = c.choice.test
          /\ \A k \in Slugs(c.choice.streams) : c.leds[k] = c.roi

(* A single-camera run uses the switch time its page shows, which is a      *)
(* confirmed one; its Start waits for the last run's cleanup; and two       *)
(* panels are never reconfigured while Threshold Tuning's preview scans     *)
(* them.  One panel's switch time is Confirmed under the preview by design. *)
SpeedIsSettled == ~walkedOut =>
  /\ live.start => live.thread \notin Alive /\ live.spin = live.confirmed
  /\ live.thread \in Alive => live.used = live.spin
  /\ busy = "confirm" /\ tuning.dual => tuning.thread = "none"

(* "this just prevents leaving mid-run", Calibration's comment says of the  *)
(* buttons it disables while a calibration runs.                            *)
StaysForCalibration == calib.running => page = "calibration"
=============================================================================
