------------------------- MODULE MultiCameraSession -------------------------
(***************************************************************************)
(* The lifecycle of multi-camera runs: the live-session page              *)
(* (gui/pages/multi_camera_live_session_page.py), the controller it builds *)
(* for each Start (engine/multi_camera_session.py) and one engine thread   *)
(* per camera (engine/session_engine.py), down to the hardware they share: *)
(* the inter-camera sync role each camera's firmware keeps, the GMSL       *)
(* trigger and the LED panels.                                             *)
(*                                                                         *)
(* The page and every controller live on the one GUI thread, `gui`.        *)
(* start_all and the Back button's wait block it, so a signal a camera     *)
(* thread posts is handled only once the GUI thread is back in its event   *)
(* loop.  A thread posts exactly two signals that matter here, in this     *)
(* order: session_finished when its acquisition loop is left, and Qt's     *)
(* own finished when run() has returned; posted[r][c] and handled[r][c]    *)
(* count them.  Nothing is assumed of the order between threads.           *)
(*                                                                         *)
(* Controllers are numbered 1, 2, ... in the order the page builds them.   *)
(* An older controller stays connected to the page and to its threads.     *)
(***************************************************************************)
EXTENDS Naturals

CONSTANTS
  Cameras,    \* the configured cameras
  Master,     \* the camera designated Master on the Camera Hub
  Wirings,    \* dual_panel_config values a camera can carry
  NoWiring,   \* dual_panel_config = None
  Rigs,       \* the rigs to consider, see RigType
  MaxRuns     \* bound on the number of Starts

GmslKinds == {"none", "tsc", "guard"}

(* What the page hands to a controller.  synced: the cameras whose          *)
(* inter_cam_sync_value is not None; reset: those with                      *)
(* hardware_reset_before_start; gmsl: no collaborator, GmslTscSync, or      *)
(* GmslFreeRunGuard.                                                        *)
RigType == [synced : SUBSET Cameras, reset : SUBSET Cameras,
            wiring : [Cameras -> Wirings \cup {NoWiring}], gmsl : GmslKinds]

ASSUME ConstantsAssumption ==
  /\ Master \in Cameras
  /\ NoWiring \notin Wirings
  /\ MaxRuns \in Nat \ {0}
  /\ Rigs \subseteq RigType
  /\ \A g \in Rigs : g.gmsl = "tsc" => g.synced = {}

Runs == 1 .. MaxRuns

\* Where a camera's engine thread is in SessionEngineThread.run().
Capturing == {"starting", "armed", "streaming"}
Cleaning  == {"closing", "stopping"}
Phases    == {"none", "done"} \cup Capturing \cup Cleaning

StartStages == {"pumping", "resets", "genlock", "engage", "panels", "threads"}

VARIABLES
  rig,          \* what every Start of this page is configured with
  gui,          \* what the GUI thread is doing: "idle" is its event loop
  run,          \* number of controllers built; page._controller is the last
  running,      \* page._session_running; Start is enabled when it is FALSE
  pending,      \* cameras the current loop of start_all has not reached
  threads,      \* per controller, the keys of _threads
  finishedRows, \* per controller, _finished_rows_by_camera
  applied,      \* per controller, _applied_genlock_specs
  sharedPanel,  \* per controller, _shared_dual_panel_config is not None
  engaged,      \* per controller, its GmslTscSync has undoing to do
  announced,    \* per controller, all_sessions_finished emissions
  phase,        \* per controller and camera, the engine thread
  stop,         \* per controller and camera, _stop_requested
  posted,       \* per controller and camera, signals posted to the GUI
  handled,      \* per controller and camera, signals handled by the GUI
  role,         \* per camera, inter_cam_sync_mode in its firmware
  trigger,      \* external-sync mode set and TSC pulsing
  panel,        \* the LED panels
  overlapped,   \* history: a Start was accepted over an unreleased run
  unreset,      \* history: cameras whose reset failed when the last Start was aborted
  unstopped     \* history: what could not be turned off then

fixed      == <<rig, overlapped, unreset, unstopped>>
guiVars    == <<gui, run, running, pending>>
ctlVars    == <<threads, finishedRows, applied, sharedPanel, engaged, announced>>
threadVars == <<phase, stop, posted, handled>>
hardware   == <<role, trigger, panel>>
vars == <<fixed, guiVars, ctlVars, threadVars, hardware>>

TypeOK ==
  /\ rig \in Rigs
  /\ gui \in {"idle", "waiting"} \cup StartStages
  /\ run \in 0 .. MaxRuns
  /\ running \in BOOLEAN
  /\ pending \in SUBSET Cameras
  /\ threads \in [Runs -> SUBSET Cameras]
  /\ finishedRows \in [Runs -> [Cameras -> {"absent", "empty", "recorded"}]]
  /\ applied \in [Runs -> SUBSET Cameras]
  /\ sharedPanel \in [Runs -> BOOLEAN]
  /\ engaged \in [Runs -> BOOLEAN]
  /\ announced \in [Runs -> Nat]
  /\ phase \in [Runs -> [Cameras -> Phases]]
  /\ stop \in [Runs -> [Cameras -> BOOLEAN]]
  /\ posted \in [Runs -> [Cameras -> 0 .. 2]]
  /\ handled \in [Runs -> [Cameras -> 0 .. 2]]
  /\ role \in [Cameras -> {"default", "assigned"}]
  /\ trigger \in BOOLEAN
  /\ panel \in {"stopped", "scanning"}
  /\ overlapped \in BOOLEAN
  /\ unreset \subseteq Cameras /\ unstopped \subseteq {"panels", "trigger"}

(* The app starts with no controller.  A killed earlier process may have    *)
(* left any role, the trigger (on a rig that has one) and the panels on.    *)
Init ==
  /\ rig \in Rigs
  /\ gui = "idle" /\ run = 0 /\ running = FALSE /\ pending = {}
  /\ threads = [r \in Runs |-> {}]
  /\ finishedRows = [r \in Runs |-> [c \in Cameras |-> "absent"]]
  /\ applied = [r \in Runs |-> {}]
  /\ sharedPanel = [r \in Runs |-> FALSE]
  /\ engaged = [r \in Runs |-> FALSE]
  /\ announced = [r \in Runs |-> 0]
  /\ phase = [r \in Runs |-> [c \in Cameras |-> "none"]]
  /\ stop = [r \in Runs |-> [c \in Cameras |-> FALSE]]
  /\ posted = [r \in Runs |-> [c \in Cameras |-> 0]]
  /\ handled = [r \in Runs |-> [c \in Cameras |-> 0]]
  /\ role \in [Cameras -> {"default", "assigned"}]
  /\ trigger \in BOOLEAN /\ (rig.gmsl = "none" => ~trigger)
  /\ panel \in {"stopped", "scanning"}
  /\ overlapped = FALSE /\ unreset = {} /\ unstopped = {}

\* A run whose threads were started and whose teardown has not happened.
Unreleased(r) == threads[r] # {} /\ announced[r] = 0

-----------------------------------------------------------------------------
(* start_all, one step per call that can fail.                              *)

DualCameras == {c \in Cameras : rig.wiring[c] # NoWiring}

\* Two or more cameras look at the dual panels: the controller drives them.
Shared == \E c, d \in DualCameras : c # d

WiringMismatch == \E c, d \in DualCameras : rig.wiring[c] # rig.wiring[d]

\* drive_panel: mutation "every thread keeps driving its panel".
ThreadAlwaysDrivesPanel == TRUE

\* The drive_panel argument of each engine thread.
ThreadDrivesPanel == ~Shared

\* Mutation: the role is reset to a value the firmware does not have.
ResetRolesToNone(r, lost) ==
  /\ role' = [c \in Cameras |-> IF c \in applied[r] THEN "none" ELSE role[c]]
  /\ applied' = [applied EXCEPT ![r] = {}]

(* _reset_genlock_roles: best effort, the reset of the lost cameras fails,  *)
(* and the list is emptied whatever happened.                               *)
ResetGenlockRoles(r, lost) ==
  /\ role' = [c \in Cameras |-> IF c \in applied[r] \ lost THEN "default" ELSE role[c]]
  /\ applied' = [applied EXCEPT ![r] = {}]

(* What controller r has to turn off: the shared panels it armed, what its   *)
(* GmslTscSync engaged.  Any of it may fail to.                             *)
TurnedOn(r) == (IF sharedPanel[r] THEN {"panels"} ELSE {}) \cup (IF engaged[r] THEN {"trigger"} ELSE {})

(* gmsl_sync.disengage(): GmslTscSync stops what it engaged, swallowing a    *)
(* failure, and is idempotent; GmslFreeRunGuard's is a no-op.               *)
Disengage(r, kept) ==
  /\ trigger' = IF engaged[r] /\ "trigger" \notin kept THEN FALSE ELSE trigger
  /\ engaged' = [engaged EXCEPT ![r] = FALSE]

(* _stop_shared_dual_panels: at most once per arming; a failing stop is     *)
(* reported and leaves the panels as they are.                              *)
StopSharedPanels(r, kept) ==
  /\ panel' = IF sharedPanel[r] /\ "panels" \notin kept THEN "stopped" ELSE panel
  /\ sharedPanel' = [sharedPanel EXCEPT ![r] = FALSE]

(* start_all raised before any thread existed: the page unlocks itself.     *)
StartAborted(lost, kept) ==
  /\ gui' = "idle" /\ running' = FALSE /\ pending' = {}
  /\ unreset' = lost /\ unstopped' = kept
  /\ UNCHANGED <<rig, overlapped, run, threads, finishedRows, announced, threadVars>>

\* The Start button: a fresh controller, and the toolbar is locked.
StartClicked ==
  /\ gui = "idle" /\ ~running /\ run < MaxRuns
  /\ run' = run + 1
  /\ running' = TRUE
  /\ gui' = "pumping"
  /\ overlapped' = IF \E r \in Runs : Unreleased(r) THEN TRUE ELSE overlapped
  /\ unreset' = {} /\ unstopped' = {}
  /\ UNCHANGED <<rig, pending, ctlVars, threadVars, hardware>>

\* start_all's first check: dual-panel cameras must share one wiring.
StartAllEntered ==
  /\ gui = "pumping"
  /\ ~WiringMismatch
  /\ gui' = "resets" /\ pending' = rig.reset
  /\ UNCHANGED <<fixed, run, running, ctlVars, threadVars, hardware>>

StartAllRejected ==
  /\ gui = "pumping"
  /\ WiringMismatch
  /\ StartAborted({}, {})
  /\ UNCHANGED <<applied, sharedPanel, engaged, hardware>>

\* A reset drops the camera off USB and clears its sync mode.
HardwareReset(c) ==
  /\ gui = "resets" /\ c \in pending
  /\ role' = [role EXCEPT ![c] = "default"]
  /\ pending' = pending \ {c}
  /\ UNCHANGED <<fixed, gui, run, running, ctlVars, threadVars, trigger, panel>>

\* device_lookup or hardware_reset raises.
HardwareResetRaises(c) ==
  /\ gui = "resets" /\ c \in pending
  /\ StartAborted({}, {})
  /\ UNCHANGED <<applied, sharedPanel, engaged, hardware>>

ResetsDone ==
  /\ gui = "resets" /\ pending = {}
  /\ gui' = "genlock" /\ pending' = rig.synced
  /\ UNCHANGED <<fixed, run, running, ctlVars, threadVars, hardware>>

\* sorted(camera_specs, key=not is_master): the Master's role goes first.
NextForRole(c) == c \in pending /\ (Master \in pending => c = Master)

AssignRole(c) ==
  /\ gui = "genlock" /\ NextForRole(c)
  /\ role' = [role EXCEPT ![c] = "assigned"]
  /\ applied' = [applied EXCEPT ![run] = @ \cup {c}]
  /\ pending' = pending \ {c}
  /\ UNCHANGED <<fixed, gui, run, running, threads, finishedRows, sharedPanel,
                 engaged, announced, threadVars, trigger, panel>>

\* sync_setter returns False: earlier roles are taken back, then it raises.
RoleUnsupported(c) ==
  /\ gui = "genlock" /\ NextForRole(c)
  /\ \E lost \in SUBSET rig.synced : StartAborted(lost, {}) /\ ResetGenlockRoles(run, lost)
  /\ UNCHANGED <<sharedPanel, engaged, trigger, panel>>

(* device_lookup (the camera is gone) or sensor.set_option raises: nothing  *)
(* on the way out catches it.                                               *)
RoleRaises(c) ==
  /\ gui = "genlock" /\ NextForRole(c)
  /\ StartAborted({}, {})
  /\ UNCHANGED <<applied, sharedPanel, engaged, hardware>>

RolesDone ==
  /\ gui = "genlock" /\ pending = {}
  /\ gui' = "engage"
  /\ UNCHANGED <<fixed, run, running, pending, ctlVars, threadVars, hardware>>

(* gmsl_sync.engage(): GmslTscSync turns the trigger on, GmslFreeRunGuard   *)
(* turns a leftover one off.                                                *)
EngageGmsl ==
  /\ gui = "engage"
  /\ gui' = "panels"
  /\ engaged' = [engaged EXCEPT ![run] = rig.gmsl = "tsc"]
  /\ trigger' = IF rig.gmsl = "none" THEN trigger ELSE rig.gmsl = "tsc"
  /\ UNCHANGED <<fixed, run, running, pending, threads, finishedRows, applied,
                 sharedPanel, announced, threadVars, role, panel>>

(* Raised before, at or after the stop that both begin with or make, or by a *)
(* start of the trigger that took effect all the same (GmslSync).           *)
EngageGmslRaises ==
  /\ gui = "engage" /\ rig.gmsl # "none"
  /\ \E lost \in SUBSET rig.synced : StartAborted(lost, {}) /\ ResetGenlockRoles(run, lost)
  /\ trigger' \in {trigger, FALSE, rig.gmsl = "tsc"}
  /\ UNCHANGED <<sharedPanel, engaged, panel>>

(* Shared panels are armed once, before any thread; unshared ones are left  *)
(* to the threads.                                                          *)
ArmSharedPanels ==
  /\ gui = "panels"
  /\ gui' = "threads" /\ pending' = Cameras
  /\ panel' = IF Shared THEN "scanning" ELSE panel
  /\ sharedPanel' = [sharedPanel EXCEPT ![run] = Shared]
  /\ UNCHANGED <<fixed, run, running, threads, finishedRows, applied, engaged,
                 announced, threadVars, role, trigger>>

\* Mutation: the failed arming takes the roles back but not the trigger.
ArmSharedPanelsRaisesKeepingGmsl ==
  /\ gui = "panels" /\ Shared
  /\ \E lost \in SUBSET rig.synced : StartAborted(lost, {}) /\ ResetGenlockRoles(run, lost)
  /\ panel' \in {"stopped", "scanning"}
  /\ UNCHANGED <<sharedPanel, engaged, trigger>>

\* start_scanning raises, having moved the panels or not.
ArmSharedPanelsRaises ==
  /\ gui = "panels" /\ Shared
  /\ \E lost \in SUBSET rig.synced, kept \in SUBSET TurnedOn(run) :
       StartAborted(lost, kept) /\ ResetGenlockRoles(run, lost) /\ Disengage(run, kept)
  /\ panel' \in {"stopped", "scanning"}
  /\ UNCHANGED sharedPanel

StartThread(c) ==
  /\ gui = "threads" /\ c \in pending
  /\ threads' = [threads EXCEPT ![run] = @ \cup {c}]
  /\ phase' = [phase EXCEPT ![run][c] = "starting"]
  /\ pending' = pending \ {c}
  /\ UNCHANGED <<fixed, gui, run, running, finishedRows, applied, sharedPanel,
                 engaged, announced, stop, posted, handled, hardware>>

\* start_all returns to the event loop.
StartAllReturns ==
  /\ gui = "threads" /\ pending = {}
  /\ gui' = "idle"
  /\ UNCHANGED <<fixed, run, running, pending, ctlVars, threadVars, hardware>>

RequestStop(r) ==
  stop' = [stop EXCEPT ![r] = [c \in Cameras |-> IF c \in threads[r] THEN TRUE ELSE @[c]]]

\* Constructing the first thread raises: the panels and the trigger go off.
FirstThreadRaises(c) ==
  /\ gui = "threads" /\ c \in pending /\ threads[run] = {}
  /\ \E kept \in SUBSET TurnedOn(run) :
       StartAborted({}, kept) /\ StopSharedPanels(run, kept) /\ Disengage(run, kept)
  /\ UNCHANGED <<applied, role>>

(* A later one raises: the threads already started are stopped and the      *)
(* teardown is left to their finished signals; the toolbar stays locked.    *)
LaterThreadRaises(c) ==
  /\ gui = "threads" /\ c \in pending /\ threads[run] # {}
  /\ RequestStop(run)
  /\ gui' = "idle" /\ pending' = {}
  /\ UNCHANGED <<fixed, run, running, ctlVars, phase, posted, handled, hardware>>

-----------------------------------------------------------------------------
(* SessionEngineThread.run(), one step per hardware call.                   *)

Advance(r, c, from, to, signals) ==
  /\ phase[r][c] \in from
  /\ phase' = [phase EXCEPT ![r][c] = to]
  /\ posted' = [posted EXCEPT ![r][c] = signals]
  /\ UNCHANGED <<fixed, guiVars, ctlVars, stop, handled, role, trigger>>

\* Device found, controls applied, the thread's own panel set scanning.
ArmPanel(r, c) ==
  /\ Advance(r, c, {"starting"}, "armed", 0)
  /\ panel' = IF ThreadDrivesPanel THEN "scanning" ELSE panel

\* capture.start()
Stream(r, c) ==
  /\ Advance(r, c, {"armed"}, "streaming", 0)
  /\ UNCHANGED panel

(* Anything before or in capture.start() raises: session_finished carries   *)
(* the rows there are, and there is no pipeline to stop.                    *)
SetupRaises(r, c) ==
  /\ Advance(r, c, {"starting", "armed"}, "stopping", 1)
  /\ (panel' = panel \/ (ThreadDrivesPanel /\ panel' = "scanning"))

(* The acquisition loop is left: a stop request, the duration, or an error  *)
(* (frames that stop arriving raise too).                                   *)
LeaveLoop(r, c) ==
  /\ Advance(r, c, {"streaming"}, "closing", 1)
  /\ UNCHANGED panel

\* capture.stop() in the finally block.
CloseCapture(r, c) ==
  /\ Advance(r, c, {"closing"}, "stopping", 1)
  /\ UNCHANGED panel

(* capture.stop() raises: the rest of the finally block is skipped and      *)
(* run() ends.                                                              *)
CloseCaptureRaises(r, c) ==
  /\ Advance(r, c, {"closing"}, "done", 2)
  /\ UNCHANGED panel

\* stop_scanning (its failure is only reported), then Qt's finished.
FinishThread(r, c) ==
  /\ Advance(r, c, {"stopping"}, "done", 2)
  /\ (panel' = panel \/ (ThreadDrivesPanel /\ panel' = "stopped"))

-----------------------------------------------------------------------------
(* Signals handled on the GUI thread.                                       *)

\* Before a GMSL run blocks it, the page lets the event loop run once.
EventLoop == gui = "idle" \/ (gui = "pumping" /\ rig.gmsl = "tsc")

\* _on_session_finished_rows
OnSessionFinished(r, c) ==
  /\ EventLoop
  /\ handled[r][c] = 0 /\ posted[r][c] >= 1
  /\ handled' = [handled EXCEPT ![r][c] = 1]
  /\ finishedRows' = [finishedRows EXCEPT ![r][c] = "recorded"]
  /\ UNCHANGED <<fixed, guiVars, threads, applied, sharedPanel, engaged, announced,
                 phase, stop, posted, hardware>>

\* Mutation: the default overwrites the rows already there.
OverwriteRows(r, c) == [finishedRows EXCEPT ![r][c] = "empty"]

\* _on_thread_finished's setdefault(camera_id, []).
WithDefaultRows(r, c) ==
  [finishedRows EXCEPT ![r][c] = IF @ = "absent" THEN "empty" ELSE @]

\* Mutation: one camera's report is taken for all of them.
AnyCameraReported(r, rows) == \E c \in threads[r] : rows[c] # "absent"

\* Mutation: every configured camera must report, started or not.
EveryConfiguredCameraReported(r, rows) == \A c \in Cameras : rows[c] # "absent"

\* set(self._finished_rows_by_camera) == set(self._threads)
AllCamerasReported(r, rows) == {c \in Cameras : rows[c] # "absent"} = threads[r]

(* The teardown of a run, and the page's _on_all_sessions_finished, which   *)
(* the last emit calls directly.                                            *)
Teardown(r) ==
  /\ \E lost \in SUBSET rig.synced : ResetGenlockRoles(r, lost)
  /\ \E kept \in SUBSET TurnedOn(r) : StopSharedPanels(r, kept) /\ Disengage(r, kept)
  /\ announced' = [announced EXCEPT ![r] = @ + 1]
  /\ running' = FALSE

\* _on_thread_finished
OnThreadFinished(r, c) ==
  /\ EventLoop
  /\ handled[r][c] = 1 /\ posted[r][c] = 2
  /\ handled' = [handled EXCEPT ![r][c] = 2]
  /\ finishedRows' = WithDefaultRows(r, c)
  /\ IF AllCamerasReported(r, finishedRows'[r])
     THEN Teardown(r)
     ELSE UNCHANGED <<running, applied, sharedPanel, engaged, announced, hardware>>
  /\ UNCHANGED <<fixed, gui, run, pending, threads, phase, stop, posted>>

-----------------------------------------------------------------------------
(* The operator.                                                            *)

\* The Stop button, enabled while the toolbar is locked.
StopClicked ==
  /\ EventLoop /\ running
  /\ RequestStop(run)
  /\ UNCHANGED <<fixed, guiVars, ctlVars, phase, posted, handled, hardware>>

\* The Back button, confirmed: stop, then wait for every thread.
BackClicked ==
  /\ gui = "idle" /\ running
  /\ RequestStop(run)
  /\ gui' = "waiting"
  /\ UNCHANGED <<fixed, run, running, pending, ctlVars, phase, posted, handled, hardware>>

\* Mutation: the wait is for the finished signals to have been handled.
BackWaitsForSignals ==
  /\ gui = "waiting"
  /\ \A c \in threads[run] : handled[run][c] = 2
  /\ gui' = "idle"
  /\ UNCHANGED <<fixed, run, running, pending, ctlVars, threadVars, hardware>>

\* thread.wait() returned for every thread; back_requested is emitted.
BackReturns ==
  /\ gui = "waiting"
  /\ \A c \in threads[run] : phase[run][c] = "done"
  /\ gui' = "idle"
  /\ UNCHANGED <<fixed, run, running, pending, ctlVars, threadVars, hardware>>

\* The page is open and nothing runs: the operator may never press Start.
OperatorRests ==
  /\ gui = "idle" /\ ~running
  /\ UNCHANGED vars

-----------------------------------------------------------------------------
StartAllStep ==
  \/ StartAllEntered \/ StartAllRejected
  \/ ResetsDone \/ RolesDone
  \/ \E c \in Cameras : HardwareReset(c) \/ HardwareResetRaises(c)
  \/ \E c \in Cameras : AssignRole(c) \/ RoleUnsupported(c) \/ RoleRaises(c)
  \/ EngageGmsl \/ EngageGmslRaises
  \/ ArmSharedPanels \/ ArmSharedPanelsRaises
  \/ \E c \in Cameras : StartThread(c) \/ FirstThreadRaises(c) \/ LaterThreadRaises(c)
  \/ StartAllReturns

HandleSignal(r, c) == OnSessionFinished(r, c) \/ OnThreadFinished(r, c)

ThreadStep(r, c) ==
  \/ ArmPanel(r, c) \/ SetupRaises(r, c) \/ Stream(r, c) \/ LeaveLoop(r, c)
  \/ CloseCapture(r, c) \/ CloseCaptureRaises(r, c) \/ FinishThread(r, c)

Next ==
  \/ StartClicked \/ StopClicked \/ BackClicked \/ BackReturns \/ OperatorRests
  \/ StartAllStep
  \/ \E r \in Runs, c \in Cameras : HandleSignal(r, c) \/ ThreadStep(r, c)

(* The GUI thread keeps running whatever it has to do, and so does every    *)
(* engine thread; a streaming thread leaves its loop only when it was asked *)
(* to (its frames keep coming, or their absence raises).  Every pass of the *)
(* event loop delivers the signals posted to it, so an operator who keeps   *)
(* pressing Back cannot keep them out: strong fairness.  No fairness is     *)
(* assumed of the operator.                                                 *)
Fairness ==
  /\ WF_vars(StartAllStep)
  /\ WF_vars(BackReturns)
  /\ SF_vars(\E r \in Runs, c \in Cameras : HandleSignal(r, c))
  /\ \A r \in Runs, c \in Cameras :
       WF_vars(ThreadStep(r, c) /\ (phase[r][c] = "streaming" => stop[r][c]))

Spec == Init /\ [][Next]_vars

FairSpec == Spec /\ Fairness

-----------------------------------------------------------------------------
(* Safety.                                                                  *)

\* What controller r took for its run is still recorded as taken.
Held(r) ==
  /\ applied[r] = rig.synced
  /\ sharedPanel[r] = Shared
  /\ engaged[r] = (rig.gmsl = "tsc")

(* A controller never gives up the genlock roles, the shared panels or the  *)
(* GMSL trigger of its run while one of its cameras is still acquiring      *)
(* frames or opening its pipeline: neither a failing start, nor another     *)
(* camera that finished early, nor Stop makes it tear down under a          *)
(* capturing camera (multi_camera_session.py 276-283, 321-335).             *)
HeldWhileCapturing ==
  \A r \in Runs : (\E c \in Cameras : phase[r][c] \in Capturing) => Held(r)

(* The same, of the hardware itself: while a camera of the run streams,     *)
(* every genlocked camera has its role, the trigger is on exactly when GMSL *)
(* sync was asked for, and shared panels are scanning.  Older controllers   *)
(* whose threads are still cleaning up, or whose signals are still          *)
(* unhandled, do not break this; only a Start over a run not yet released   *)
(* can, which a second announcement of the previous run lets in.            *)
RigBacksCapture ==
  (~overlapped /\ \E r \in Runs, c \in Cameras : phase[r][c] = "streaming") =>
     /\ \A c \in rig.synced : role[c] = "assigned"
     /\ rig.gmsl # "none" => trigger = (rig.gmsl = "tsc")
     /\ Shared => panel = "scanning"

(* No finish is lost: once every thread a start got going has ended and its *)
(* signals were handled, the run has been announced and nothing is held.    *)
Settled(r) ==
  /\ threads[r] # {}
  /\ ~(r = run /\ gui \in StartStages)
  /\ \A c \in threads[r] : handled[r][c] = 2

SettledRunReleased ==
  \A r \in Runs : Settled(r) =>
     announced[r] > 0 /\ applied[r] = {} /\ ~sharedPanel[r] /\ ~engaged[r]

(* The rows announced with all_sessions_finished are each camera's own,     *)
(* never the empty default of _on_thread_finished.                          *)
AnnouncedRowsComplete ==
  \A r \in Runs : announced[r] > 0 =>
     \A c \in threads[r] : finishedRows[r][c] = "recorded"

(* A start that fails before any thread exists releases the hardware it took, *)
(* at the step it fails and on every path: each role it wrote is back at the *)
(* default, the trigger is off, and shared panels it armed have stopped, but *)
(* for what was tried and reported a failure.  Exempt are the paths that do  *)
(* not try to take the roles back (finding FailedStartTakesRolesBack) and a  *)
(* trigger whose own start failed (MultiCameraSession.start_all 222-249,     *)
(* 276-288).                                                                *)
StartFails == gui \in StartStages /\ gui' = "idle" /\ threads'[run] = {}

TakesBack ==
  /\ gui \in {"engage", "panels"} => applied'[run] = {}
  /\ applied'[run] = {} => \A c \in applied[run] : role'[c] = "default" \/ c \in unreset'
  /\ gui \in {"panels", "threads"} /\ rig.gmsl # "none" => ~trigger' \/ "trigger" \in unstopped'
  /\ gui = "threads" /\ Shared => panel' = "stopped" \/ "panels" \in unstopped'

FailedStartReleasesHardware == [][StartFails => TakesBack]_vars

\* Controller r's start failed before any thread existed.
FailedStart(r) == r <= run /\ gui = "idle" /\ threads[r] = {}

(* What _reset_genlock_roles' docstring says of a failed start: a role      *)
(* applied to an earlier camera never lingers.                              *)
FailedStartTakesRolesBack ==
  \A r \in Runs : FailedStart(r) => applied[r] = {}

(* What _on_thread_finished's comment says of the teardown: only once every *)
(* camera thread's own hardware cleanup has genuinely finished.             *)
TeardownAfterCleanup ==
  \A r \in Runs : announced[r] > 0 =>
     \A c \in threads[r] : phase[r][c] = "done"

-----------------------------------------------------------------------------
(* Liveness.                                                                *)

(* Stop always ends the run: once every thread of the current run was asked *)
(* to stop the toolbar is eventually unlocked, whatever fails on the way.   *)
StopUnlocks ==
  \A r \in Runs :
    (run = r /\ gui = "idle" /\ threads[r] # {} /\ \A c \in threads[r] : stop[r][c])
      ~> ~running

(* The Back button's wait never hangs the GUI: threads do not need the GUI  *)
(* thread to finish.                                                        *)
BackReturnsEventually == (gui = "waiting") ~> (gui = "idle")
=============================================================================
