# Verification of the optical sync application

TLA+ models of the application in `src/` (a PySide6 program that drives several
RealSense cameras, LED panels and a GMSL trigger and measures how well the
cameras are synchronised), TLC configurations that check them, and TLAPS proofs.

## 1. The system

| Component | State it keeps | Operations | Interacts with |
|---|---|---|---|
| Multi-camera live session page, `gui/pages/multi_camera_live_session_page.py` | `_controller`, `_session_running`, cross-camera plots and counters, confirmed switch time | Start, Stop, Back, confirm switch time, one handler per controller signal | builds one controller per Start and connects to all of them |
| Run controller, `engine/multi_camera_session.py` | `_threads`, `_finished_rows_by_camera`, `_applied_genlock_specs`, `_shared_dual_panel_config`, the reconciler | `start_all`, `stop_all`, handlers of each thread's signals, teardown | camera firmware, GMSL sync, panels, threads (queued Qt signals) |
| Engine thread, `engine/session_engine.py`, `engine/acquisition_loop.py` | `_stop_requested`, capture, recent-frame ring, snapshot counter | `run`, `request_stop`, `get_recent_frame_pair` | capture pipeline, test session, panels; posts signals to the GUI thread |
| Cross-camera reconciler, `engine/cross_camera_reconciler.py` | two pending buffers, offset and counters per comparison | `ingest_row`, `match_diagnostics` | called by the controller on the GUI thread |
| Test session and metrics, `engine/test_session.py`, `engine/metrics.py` | rows, previous timestamps, warmup count | `start`, `process_pair`, `should_auto_stop`, `stop` | called by the acquisition loop |
| Dual panel control, `engine/dual_panel_control.py` | lock, primed flag, relay connection and keepalive, exposed hub port | start/stop scanning, all LEDs on/off, enter/exit a stream's panel | hub and panel drivers; every page and thread |
| GMSL sync, `engine/gmsl_sync.py` | as-found modes, trigger running, list of engaged collaborators | `engage`, `disengage`, free-run guard, leftover reset | V4L2 nodes, TSC driver |
| Panel RPC, `engine/panel_rpc_client.py`, `tools/panel_server` | connection, request id, server's configuration | `_call`, `configure`, `close` | LED panel driver on another host |
| RealSense streams, `engine/streams.py`, `engine/rgb_mode.py` | pipeline | capture start, frames, stop, exposure, sync role | vendor SDK |
| Main window and camera hub, `gui/main_window.py`, `gui/pages/camera_hub_page.py` | `_cameras`, `_master_camera_id`, `_editing_camera_id`, page shown, single-panel target | add, edit, remove, designate, start; one handler per page's signal | every page; points the panel driver |
| Wizard pages, `gui/pages/{device_select,stream_config,roi_select,calibration,threshold_tuning}_page.py` | choice and RGB mode, preview thread, regions, calibration result, tuned switch time | choose, preview, switch mode, capture, calibrate, tune, Back | the camera (each captures for itself), `config.yaml`, panels |
| Single-camera live page, `gui/pages/live_session_page.py`, and the multi-camera page's panel of one camera, `gui/widgets/camera_live_session_panel.py` | last frames and masks, drop counters and marks, statistics, last finished rows, CSV paths | Start, Stop, Back, confirm switch time, export, snapshot, one handler per thread signal | engine thread (queued Qt signals), files of a run |
| Domain helpers, widgets, tools | none across calls | arithmetic, display, files | — |

**What is hard in it.** One GUI thread runs the page and every controller; each
camera has a thread. `start_all` and Back's `thread.wait()` block the GUI
thread for seconds while camera threads run on and post signals that are handled
later. A camera thread posts `session_finished` *before* it closes its pipeline
and `finished` after. Every hardware call may raise. Three kinds of state
outlive a run unless they are taken back: a genlock role in a camera's
firmware, the trigger, the panels. Controllers of old runs stay connected. Rows
of different cameras meet in the reconciler in an order nobody controls, with
losses. The panels' relay and hub are shared by everything.

**What makes each component correct.**

* *Run controller*: what a run took, it keeps while any of its cameras captures,
  and gives back once all of them have ended, on every path; rows announced are
  complete; Stop and Back end.
* *Reconciler*: one-to-one, maximal, bounded, in order; latencies of one comparison
  share one zero; its diagnostics account for every row.
* *Ring of recent frames*: a frame is still there when its row is matched.
* *Panels*: a start that returned left both stepping at the setting it was asked
  for, a stop left both frozen; a single-panel command reaches the panel meant.
* *GMSL*: what was found is what is restored; no run free-runs under a leftover
  trigger.
* *RPC*: a call runs at most once, an answer belongs to its request, every call ends.
* *Hub and wizard*: exactly one Master; a camera is captured for one page at a
  time; regions, LED positions and single-panel commands are of the camera and
  test at hand; the switch time a run uses is a confirmed one.
* *Live view*: what the operator sees and keeps is of the frames it says, however
  far the thread has run ahead of the GUI.

PROJECT.json lists the hazards behind these, each at its line.

## 2. The modules

| Module | Models |
|---|---|
| `MultiCameraSession` | multi-camera page, controllers, engine threads and the hardware they share |
| `CrossCameraReconciler` | matching of rows across cameras |
| `CrossCameraImages` | the reconciler composed with the threads' rings of recent frames and the page's periodic images |
| `DualPanelControl` | two LED panels, the hub, the relay, and what the process remembers of them |
| `GmslSync` | two V4L2 nodes, the trigger, the syncs of old and new runs, killed processes |
| `RemoteCall` | abstract: what a caller of the remote panel is promised |
| `PanelRpc` | threads, ssh processes and panel servers; implements `RemoteCall` |
| `LedGap` | the LED-circle arithmetic of the position gap, and its reference |
| `SessionView` | one camera's engine thread, its signals, the page's plots and files; uses `LedGap` |
| `CameraHub` | the hub's cameras, Master, slots and single-panel target |
| `CameraWizard` | the window: hub, wizard pages, single-camera page; extends `CameraHub` |
| `MC_*` | the instance of each that TLC checks |
| `MultiCameraSession_proofs`, `DualPanelControl_proofs`, `PanelRpc_proofs`, `GmslSync_proofs`, `CameraWizard_proofs`, `CrossCameraImages_proofs`, `SessionView_proofs` | inductive invariants and theorems of the module they are named for |
| `Minimum` | a lemma of three of them: a set of naturals has a least element |

### MultiCameraSession

Controllers are numbered; every per-controller variable is a function of that
number, so an old controller's late signals are still there to be handled.
`gui` says what the GUI thread is doing: `"idle"` is its event loop, the
values in `StartStages` are the places `start_all` has reached, `"waiting"` is
Back's wait. Only in the event loop (or in the single `processEvents` of a GMSL
Start) does `HandleSignal` fire. `phase[r][c]` is the place thread `c` of
controller `r` has reached in `run()`; `posted` and `handled` count its two
signals, in the order Qt delivers them from one thread. The page's fields are
`run` and `running`; the controller's are `threads`, `finishedRows`, `applied`,
`sharedPanel` and `engaged`; the hardware is `role`, `trigger` and `panel`.

Each call of `start_all` that can fail is an action with a raising twin: device
lookup or reset, a camera that does not support the option, a lookup or option
write that raises, `engage`, arming the panels, constructing the first thread,
constructing a later one. Best-effort cleanups (`_reset_genlock_roles`, the
panel stop) may fail without the controller noticing: the hardware may stay
as it was; `unreset` and `unstopped` are histories of what such a cleanup could not
give back when a start was aborted. `Init` lets an earlier, killed process have left roles, trigger and
panels in any state.

`rig` fixes what every Start of the page is configured with. It carries what
`main_window.start` can hand over: with the GMSL trigger no camera has a genlock
role (`ConstantsAssumption`).

Left out: forwarding of frames, rows and statistics; GMSL's node-by-node
work, its read-back included (`GmslSync`); the order of cameras in the hardware
resets and thread starts (any order is allowed); Back pressed inside the nested
`processEvents`.

### CrossCameraReconciler and CrossCameraImages

Time is counted in frame periods; a frame of period `t` has the global timestamp
`t` and, on its camera's own clock, the hardware timestamp `t + Epoch`, with an epoch
per camera.
A camera delivers a frame pair each period (`DeliverRow`), one of whose streams may
repeat the previous timestamp, or skips the period (`LoseFrames`). A pending
buffer is a set of entries; as rows of a camera are pushed in the order of their
pair index the oldest is the one with the least. `IngestRow` is the whole of
`ingest_row`: for every comparison of the camera a match or a push, the learned
offset and both counters. `crossRows` and `evicted` (rows dropped from a full buffer)
are history variables.

`CrossCameraImages` puts the reconciler between its neighbours. A thread emits a
row and then keeps its two frames (`RecordRecentFrame`), so it is up to
`MaxQueued` rows ahead of the GUI, and the frames of the row being delivered may not
be there yet. `DeliverAndSave` is the delivery of one row: the matches it makes,
and for each that is the `EveryN`-th of its comparison a side-by-side image, if
both frames are still in the ring.

Left out: optical-sync values, the outlier flag (at the default thresholds a
matched pair cannot exceed it), timestamps off the frame grid (genlock jitter is
microseconds against a window of milliseconds), drift of a camera's clock against
the global one.

### DualPanelControl

A call (`op`) is the sequence of steps `todo` it has still to make. Each step
succeeds, one action per step, or raises: `StepRaises` ends the call and leaves
what `HalfDone` says. The hub could not be reached and no port changed, or any of the
ports to be powered stayed off, or some were cut; the panel was configured or not;
the relay took the command or not, with its connection recorded or not. The
sequences are the code's: `StartSteps` is `start_scanning` with its three cases
(same settings, other settings, first arm), `StopSteps` is `stop_scanning`;
`prime` and `record` are its last assignments. `EnterBlock`, `BlockCommand` and
`ExitBlock` are `switched_to_stream_panel` with what Calibration and ROI Select
do inside. `SetTarget` is the main window's choice for a test; a test uses both
panels (`dual`) or one, and only the one-panel tests can have a target.
`SingleCommand` is the switch to it (swallowing failures), `Command` what is
sent then. `Restart` is the death of the process that talks to the hardware,
the panel server (the application keeps target and `exposed`) or the whole
application, at any moment.

The hardware is external: it is modelled from the comments in
`engine/dual_panel_control.py`, which record tests on the real rig. A panel steps
while the relay is closed if it is configured and has seen the relay close and
open since its last `--stop`; LEDPanel commands reach the panel the hub shows;
cutting the relay's port kills an open handle, which then cannot be written; the
gate stays closed when the process dies, or drops.

One call runs at a time. The pages' calls are made on the GUI thread, which
starts none while a preview or run thread uses the panels, and the lock orders
what is left. History variables: `started`, `stopped` (the last call returned),
`halfArmed` (re-arming a primed pair failed after configuring a panel), `commanded`
(a primed pair was sent a single-panel command), `missed`, `orphaned`.

Left out: the keepalive thread; `turn_all_leds_on/off` with both panels (no page
calls them); a server that still finishes a call after its ssh connection was
lost; the LED position.

### GmslSync

A call is a sequence of steps, each a `v4l2-ctl` call or an ioctl: `pc` is the
loop it is in, `left` the nodes the loop still has. `Examine`, the writes, the
trigger and the undoing are `engage`; every step has its failing twins, and a write
that reports failure may have taken effect (`WriteFails`, `WriteUnconfirmed`); so
may a start of the trigger, whose ioctl or whose `close` fails (`StartTriggerRaises`).
`Disengage` serves a run's end and, over `_ENGAGED`, the app's exit; it can
come late and twice. `CallFreeRun` is the guard of a free-running baseline.
`Killed` ends the process between any two steps and leaves the rig alone; a new
process finds nodes and trigger in any state, and somebody may start or stop the
trigger by hand (`HandStarts`, `HandStops`: the code names the script).

The code cannot know whether a command that failed took effect. The histories
`doubt`, `suspect` and `stray` say where that is so, and the properties exempt
exactly those nodes, and a trigger whose start or stop failed. `origin` is what the process found before its first write.

Left out: `detect`, which only reads; the settling delay.

### RemoteCall and PanelRpc

`RemoteCall` is the promise of the client's design document
(`docs/superpowers/specs/2026-09-22-orin-panel-rpc-split-design.md`, lines 110-124):
calls one at a time, no silent retry. A call that returned ran once, with success;
one that raised may have run, or may still run, once.

`PanelRpc` is the client (`Connect`, `Write`, `Read` and their raising twins,
under `_lock`), the pipe in both directions, the server's loop (`Take`, `Finish`)
and the network. A cut connection swallows bytes until ssh notices; ssh's death
leaves the server at work, or takes it along. `StrayLine` is a line on the
server's stdout that is no response: `_query` gives LED-Panel.exe that stdout to
inherit. `KeepsPromise` is the refinement: requests are ids, `asked` is what
`next_id` has handed out, `ran` and `answer` are histories.

Left out: what the methods do (`DualPanelControl`), the arguments, more than one
client (the document assumes one), and the state a fresh server lacks, which the
document's section 7 accepts.

### LedGap and SessionView

`LedGap` translates `find_last_on_led` and `compute_position_gap` and states
their reference on the circle: the end of a longest run of lit LEDs, the signed
distance in the half-open half circle. `RoundRun` counts along the circle and
knows nothing of the code's runs and their joining.

`SessionView` is one camera: the engine thread makes a row of each pair
(`ProcessPair`), posts it, and every `Stride`-th pair's frames and statistics;
it ends by Stop, by its duration or by raising, and posts what the code posts
then, in that order. The page handles the queue in order (`Deliver`), between the
operator's clicks. Frames and masks are known by the run and pair they come
from, so that a mask on a foreign frame shows. Saving an outlier's picture happens
inside `on_frame_pair`, after the row is recorded, and may raise: `DrawingRaises` is the
pair that ends the run so, and `undrawn` remembers it.

It is the single-camera page's. The multi-camera page's widget has the same handlers of
frames, rows and statistics, but its page opens and ends a run elsewhere (section 4), so
nothing here is claimed of its folders.

Left out: images, means and deviations, the layout of files and plots; that
`cv2.imwrite` may report failure by a result nobody reads (a picture counts as
saved); a raise while the overlay of a plotted pair is combined, which ends the run as
one in the camera does.

### CameraHub and CameraWizard

`CameraHub` says what a click does to the configured cameras; `CameraWizard`
adds the pages. `page` is the page shown. `busy` says why the GUI thread is held:
a capture in a click handler, a mode switch, a question box, or a handler that
waits for a thread, after which it goes on (`PreviewStopped`, `TuningStopped`,
`LiveStopped` are the rest of those handlers). A thread is `"running"`,
`"stopping"` or `"ended"`, when it has returned and its signal is still to be
handled. A `Subject` is a device and its streams; regions, calibration results and the
entries of `config.yaml` are known by the subject they were taken of. The devices are
of one model, which is the case where `config.yaml`'s keys collide.

What a page keeps after its flow has ended, or for Threshold Tuning and the live
page after they were left, is written anew before they are shown again; the model
forgets it, which keeps the instance finite. Posted signals are handled before the
next click. `_log` pumps the event loop while a calibration runs, so clicks land
inside it, too. One of them leaves: Continue, where an earlier result enabled it
(finding 5). `walkedOut` remembers it, and the four properties of the window hold until
then; what is clicked after it is not modelled (two handlers would be nested, the
calibration inside another page's). `TwoPanels` says whether the settings have a
hub of two panels; without it no single-panel target is set.

Left out: the retuning of detection thresholds (it changes positions of the same
camera and test), image work, forms and their texts, the panel inside a capture
(`DualPanelControl`), the parameters `GuiState` remembers between launches.

## 3. The runs

| Run | Shows | States, about |
|---|---|---|
| `multi_camera_session` | eight properties over two Starts of five rigs | 95 000 |
| `cross_camera_reconciler` | matching, counters and periodic images of two cameras on two stream identities | 590 000 |
| `dual_panel_control` | four properties and the types over every order of calls, failures and restarts | 170 000 |
| `gmsl_sync` | two nodes, two syncs, failures and kills at every step | 1 650 000 |
| `panel_rpc` | the refinement, three invariants, and that every call ends | 47 000 |
| `session_view` | two runs of three pairs, four kinds of pairs | 530 000 |
| `camera_wizard` | the window with two devices and two configured cameras | 3 100 000 |
| `teardown_after_cleanup` | finding 1 | |
| `failed_start_roles` | finding 2 | |
| `no_panel_at_another_speed` | finding 3 | |
| `same_camera_twice` | finding 4 | |
| `left_mid_calibration` | finding 5 | |

*Session.* `HeldWhileCapturing`: no controller gives up what its run
needs under a capturing camera. `RigBacksCapture`: the hardware agrees with it,
whatever state the hardware was found in, except after a Start was accepted over
a run that had not been torn down. `SettledRunReleased`: the teardown is not
lost. `AnnouncedRowsComplete`. `FailedStartReleasesHardware`: at the step where a
start fails, the roles it wrote are at their default, the trigger is off and shared
panels it armed are stopped, in the hardware and not only in the controller's
fields, except what a cleanup tried and reported as failed, the paths of finding 2, and
a trigger whose own start failed (section 4). Liveness:
`StopUnlocks` and `BackReturnsEventually`.

*Reconciler and images.* `NothingMatchableWaits` (maximality, which a per-row
unit test cannot see), `FramesUsedOnce`. `MatchesInOrder`: matches do not cross,
whatever is lost, repeated or evicted, as long as the match window is less than one and
a half frame periods. That all hardware latencies of a comparison have the same zero is
proved (`LatencyIsRelative`, section 5).
`DiagnosticsAccount`, exactly: every row delivered was matched or counted unmatched on
arrival, and of those once unmatched each was matched later, still waits, or was
evicted. `PeriodicImagesShared`: no comparison starves another's images.

*Panels.* `StartedMeansStepping`: the three cases of a start do enough,
however earlier calls failed, stops of a primed pair included, unless a primed pair
changed without the flag being cleared: a re-arming that configured a panel and then
failed (`halfArmed`, finding 3), or single-panel commands without a target
(`commanded`). `StoppedMeansFrozen`: a stop that returned opened the gate, whatever
raised before, unless a dead process left it closed. `SingleCommandsReachTarget`:
the `exposed` shortcut is never stale. `SwitchedMeansNotPrimed`: after such a
switch the next start arms in full.

*GMSL.* `EngagedMeansDriven`, `FreeRunMeansFree`: what a run was promised
is what the rig does, until somebody touches it. `NothingLeftBehind`: after a
failed start, a disengage or an exit, nothing the process applied remains where its
commands did not fail. `HandTriggerKept`: a hand-started trigger is not taken for
the app's own.

*Remote panel.* `KeepsPromise` (`PanelRpc` implements `RemoteCall`), `InStep`
(nothing of an earlier call waits in the pipe), `AbandonedWorkWasRaised` (what a
server forgotten by the client still does was reported as failed), `CallsEnd`.

*Live view.* `DropMarksExact` (throttling hides no drop, shows none twice, and
the statistics leave out what is excluded), `OverlayOfItsFrame`,
`RunFilesComplete` (all rows and the first outliers of a run that ended, in any way,
are in its folder, but for the outlier whose drawing ended it), `PositionGapRight`.

*Window.* `ExactlyOneMaster`, `CapturedForItsPage` (no two captures on a camera),
`PanelOfTheTest`, `OneCameraPerFlow` (a configuration is of one device and one
choice throughout), `SpeedIsSettled` (of the single-camera page, and of two panels
under Threshold Tuning's preview; one panel's switch time is confirmed under a
preview by design). All but the first until `walkedOut`.

*Bounds.* Two cameras are enough for an early and a late thread, a Master and a
slave, shared and unshared panels, and a first and a later thread to fail; two
Starts for a late signal of an old controller and for hardware left by an
earlier run. The rigs: genlock with one panel; genlock with shared panels and a
reset; GMSL with shared panels; its free-running baseline; mismatched wiring,
which start_all rejects. The reconciler's buffers hold two entries and three
frame periods exist, so they overflow; the ring holds two frames, so it
overflows too; a window of one period is the code's (50 ms against 33 ms); every
second match has an image, up to one. One slave, compared on two identities, is
enough for comparisons to compete: a second slave would only add independent buffers.
The panels need no bound: two settings, an old and a new one, make the
model finite. GMSL needs none either: two nodes are what the code insists on, two
syncs an old run's and a new one's. Three requests, two spawns and one stray line give
a request before, during and after a lost connection. Three pairs of a run make a plotted, a skipped and
a plotted pair with `Stride` 2, and a second run follows; the caps of pictures are one, so
that they are reached; six LEDs give every shape of runs across LED 0, with even and
odd circles. `MaxSlots` 3 gives two configured cameras and a third slot for one that was
removed or abandoned; two devices in two modes, and two choices which share the slug
`infrared1`.

`CHECK_DEADLOCK FALSE`: time, pairs and requests end (`cross_camera_reconciler`,
`session_view`, `panel_rpc`), slots are used up (`camera_wizard`).

*Fairness.* In `MultiCameraSession`, `start_all` and Back's wait are code that runs
on: weak fairness. So
is each engine thread, with one exception: a streaming thread leaves its loop
only if it was asked to, since a run without a duration streams for ever.
Its frames keep arriving, or `wait_for_frames` times out and raises (a stream of
incomplete framesets would defeat this, see the hazards). Queued signals get
strong fairness as one class, not weak: the event loop delivers what is queued
on every pass, even if an operator blocks it with Back again and again. No
fairness is assumed of the operator, nor of any particular outcome of a call.

In `PanelRpc` a thread that holds the lock runs on, the server reads what it is
sent, and its methods end: LED-Panel.exe is run with a five-second timeout and at
most three attempts. ssh notices a cut connection because the client starts it
with `ServerAliveInterval=5` and `ServerAliveCountMax=3`; without that fairness
(mutation `NoKeepalive`) `CallsEnd` fails. The lock reaches a thread that waits for it
at last: strong fairness, which Python's lock gives while the others' calls
are finite. Nothing is assumed of calls being made, of cuts or of deaths.

## 4. Findings

Each has a run that TLC finds violated.

1. **Teardown before cleanup.** `_on_thread_finished` compares the cameras that
   have *rows* with those that have threads. `session_finished` gives a camera
   rows before its pipeline is closed, so once every camera has rows, the first
   `finished` tears the run down while others may be in `capture.stop()`. The
   comment on that line promises the opposite. The unit tests emit the signals
   camera by camera and never in this order. The announcement also clears
   `_session_running`, so Back then leaves the page without waiting for the rest.
2. **Roles of a failed start.** If a lookup or option write raises (rather than
   reporting an unsupported option), roles already written stay; the docstring
   says they never linger. The same holds when the first thread cannot be built.
3. **Half re-armed.** Changing the switch time of a primed pair configures one
   panel and fails at the other; the remembered settings stay the old ones. A
   start with the old settings then only closes the relay, and one panel steps
   at the new time. `halfArmed` exempts this from `StartedMeansStepping`.
4. **One camera twice.** Edit skips Device Select, whose list stays as the last Add
   made it. Edit, Back and a device of that list can configure a camera that is
   configured already, which the comment where Add filters that list rules out.
5. **Left in the middle of a calibration.** Run disables Run and Back, not
   Continue, which an earlier calibration enabled. `_log` pumps the event loop, so
   a click on Continue goes on to Threshold Tuning, and the calibration goes on
   capturing under it.

Seen while modelling, without a run: mostly because no document, comment or test of the
repository promises otherwise.

* *Trigger of a failed start.* If the start of the trigger takes effect and then
  raises (the ioctl, or the `close` after it), `engage` restores the nodes and
  raises, but `_tsc_running` is still unset and the sync is not in `_ENGAGED`:
  nothing stops the trigger until a run engages or a free run's guard finds it. The
  docstring (`gmsl_sync.py:264-265`) says that any failure undoes what was applied.
  The model reaches it, with `stray` = "start", and `NothingLeftBehind` exempts it.
* *Late announcement.* Every `finished` handled after the rows were complete
  announces the run again (`multi_camera_session.py:326`). After a Stop and a quick
  Start, that announcement is the old controller's, and it unlocks Start over the
  new run (`multi_camera_live_session_page.py:614`).
* *The same announcement and a camera's folder.* The multi-camera page ends the run of
  its panels there, so a late or repeated one writes the plots and exports of a run
  whose successor may have started; `prepare_for_run` has then pointed the panels at the
  new folder.
* *A folder without a run.* `prepare_for_run` opens every camera's folder before
  `start_all` (`multi_camera_live_session_page.py:540`, `633-645`). If that raises, no
  thread exists for it, and Export CSV writes the rows of the run before into it.
* *Crossed matches at 60 fps.* The default window of 50 ms is three frame periods there:
  after a loss a row can match a later or an earlier frame than its neighbour does, and
  matches can cross. `MatchesInOrder` is about windows up to one period.
* *Yanked relay.* A start that arms while an earlier start's connection is open
  switches the hub, and the relay's port with it, before releasing it
  (`dual_panel_control.py:299`): two switch times confirmed one after the other.
* *Lock-in one frame off.* The match window is wider than a frame period. After a
  lost frame two rows of adjacent instants are joined, and the rows after them
  too, without a flag.
* *Frames gone before their match.* The ring of recent frames is as long as the
  pending buffer (`session_engine.py:64`), but a row may wait while its camera
  makes more frames than that; its image is then skipped. `missed` counts them.
* *Export during a run.* Export CSV writes the last finished run's rows to the paths of
  the run in progress (`live_session_page.py:463`,
  `camera_live_session_panel.py:272`); the run's own end overwrites them. Before
  the first Start there is no path, and the button raises.
* *Next after a mode switch that matches no test* takes a test listed for the
  other mode. A lookup that raises after a successful switch leaves Next and
  Back disabled.
* *The 150 ms timer of the detection thresholds* fires after a preview was started.
* *A tuned switch time* is the spin box's value, which may not have been previewed.

## 5. Proofs

Every safety invariant the passing runs check is also proved, for every value of
the constants that the `ASSUME`s of its module allow, and so is the refinement.
The proofs are in one module per component. Each has the same form: an inductive
invariant with named parts, one lemma per part that says a step keeps it, with a
case per action, and one short theorem per property. All these invariants were
checked by TLC on the instances of section 3 first. Why they are needed, and what
they say about the code:

**`MultiCameraSession_proofs`**, for any cameras and rigs and any number of Starts.
`TypeCorrect`; `Invariance` (`IInv`); `HeldWhileCapturingThm`,
`SettledRunReleasedThm`, `AnnouncedRowsCompleteThm`, `FailedStartReleasesThm`;
`RigBacksCaptureThm`. None is inductive. `IInv` adds what the code relies on silently:

* `ThreadInv`: the phase of a thread determines the signals it has posted, and
  it has handled no more than it posted; rows are recorded exactly when
  `session_finished` was handled; a camera without a thread has done nothing.
  This gives the heart of the argument: a camera with rows has left its loop,
  so a teardown, which needs rows of all threads, finds no camera capturing.
* `StageInv`: at each stage of `start_all`, what the current run already holds.
* `RunInv(r)`: while a camera captures its controller holds what the start took;
  an announced run holds nothing, and the `session_finished` of every one of its
  threads was handled; a controller not built is fresh; a run without threads
  after its start holds neither panels nor trigger; a run in which every
  `finished` was handled was announced.

`FailedStartReleasesThm` (`FailedStartReleasesHardware`) is an action property: each step
by which a start fails, from what `StageInv` says the run has taken by then, and
`GuardInv`, that past a free run's guard no trigger pulses.

From a controller's fields to the hardware it takes `RigInv`: as long as no Start
was accepted over a run not torn down (`overlapped`), every earlier run was
announced, so it holds nothing it could take back, and the hardware is what the last
controller recorded of it.

**`DualPanelControl_proofs`**, for any settings. `TypeCorrect`, `StopFreezes`,
`SingleReachesTarget` and `SwitchedIsNotPrimed` from `PanelInv`, `StartedStep`
(`StartedMeansStepping`) from `ScanInv`. `PanelInv` says what is left of a call
(`CallInv`), that without a connection the gate is open unless a process died
(`GateInv`: the steps a stop has left after releasing the relay cannot close it),
and that while `exposed` is set only single-panel commands run (`ExposedInv`).
`ScanInv` follows a start along its plan: `FullReached(k)` is what the first `k`
steps of the double arm have established of both panels, `RearmReached(k)` the same
for a primed pair. It shows what each half of the double arm is for: the first
configures, only the second opening of the relay, under both panels, makes them
trust it. Between calls a primed pair is ready for the settings on record
(`ReadyInv`): no start, stop or command that raised has changed it, except as
`commanded` and `halfArmed` say, and `halfArmed` only takes its settings away, not its
trust in the relay. A start with other settings configures both panels, so it is
`Unaffected`.

**`PanelRpc_proofs`**, for any threads and any bounds on requests, ssh processes and
stray lines. `TypeCorrect`, `AnswersInStep` (`InStep`), `AbandonedRaised`, and
`PromiseKept`: `Spec => KeepsPromise`, every step of client, pipe, server and
network is a step of `RemoteCall` or none. `RpcInv`: the thread with the lock is
the one with the last id handed out, over a connection not forgotten meanwhile,
and every earlier call was answered (`CallInv`); a request is in one place and never
sent twice (`OnceInv`); what a caller was told is what happened (`TruthInv`); at a
connection no longer in use nothing unanswered is left (`SshInv`); between a caller
and its server there is exactly one line, as long as no stray one came (`StepInv`).
The refinement rests on `CallInv` and `OnceInv`: an id is handed out once, and
runs at most once, which is the step from a request to `Ask` and to `Run`.

**`GmslSync_proofs`**, for any nodes and any syncs. `TypeCorrect`, `EngagedDrives`,
`LeavesNothing`, `FreeRunIsFree`, `HandTriggerSurvives`. `SyncInv`: the three
memories of a sync agree (`CallInv`); what each loop has done to the nodes it has
left behind (`LoopInv`); what the last call promised is still so (`ResultInv`); what
is noted to be restored is the mode found first or the default, and never external
sync (`NoteInv`); with no sync engaged every node is clean but those in the hands of
the call in progress (`CleanInv`). `NothingLeftBehind` needs the last two: the undoing
of a failed `engage` and a later disengage restore from different notes.

**`CameraWizard_proofs`**, for any devices, tests, switch times and bounds.
`OneMaster` (`ExactlyOneMaster`) holds whatever is clicked, from `MasterInv`; that the
camera with the lowest id can take over is the lemma in `Minimum`. `TypeCorrect`,
`OneCaptureAtATime` (`CapturedForItsPage`), `PanelIsTheTests`, `FlowsDoNotMix`
(`OneCameraPerFlow`) and `SpeedSettled` hold until Continue is clicked inside a
running calibration (`walkedOut`); beyond that they cannot hold, as finding 5 shows.
`WizardInv`: whatever captures, or holds the GUI thread, belongs
to the page shown (`PageInv`); each page of a flow is over what the pages before it
chose (`FlowInv`, page by page, since Back discards only part of it);
a live run has no Start pending (`SpeedInv`).

**`CrossCameraImages_proofs`**, for any cameras, comparisons, buffer length, gap, ring
and image cap: `TypeCorrect`, `JoinIsMaximal` (`NothingMatchableWaits`),
`FramesMatchOnce`, `MatchedInOrder` (`MatchesInOrder`), `RelativeLatency`
(`LatencyIsRelative`), `DiagnosticsAddUp`, `ImagesAreShared`. A delivered row hits,
misses or does not concern a comparison, and each part of `ImagesInv` survives each. No
two rows that wait for each other are within the gap (`GapInv`); a row is in one
cross-row, or waits, or is still to come (`OnceInv`). `OrderInv` is what keeps matches
from crossing: a row still waiting that is older than a matched one of its side is
too old for everything the other side still has to deliver. `OffsetInv`: a cross-row's
latency is the difference of its global timestamps, the difference of the clocks'
epochs and the one learned offset. `CountInv` is the sum itself, with the bounds that
make the counters' types. That the nearest entry the code takes with `min` exists rests on `Minimum`.

**`SessionView_proofs`**, for any kinds of frame pairs, panel, thresholds, strides,
caps and numbers of runs and pairs: `TypeCorrect`, `DropsAreShown`
(`DropMarksExact`), `OverlaysRight` (`OverlayOfItsFrame`), `FoldersComplete`
(`RunFilesComplete`), `PositionGapsRight`. `ViewInv` is about the queue between the two threads.
`QueueInv`: two signals next to each other are ones the thread posts in a row
(`Follows`), the last one is as far as the thread has come (`LastPosted`), and the
page is exactly as far as the signal before the first (`UpToDate`). `RunInv`: the
page is unlocked by the very last signal of a run, so `Start` finds an empty queue and
no signal is handled by another run's page. `ChartInv`: the points are the multiples
of the stride, and a drop is remembered exactly if it is after the last point.
`Undrawn`: an outlier without its picture is the last row of its run, and with it
nothing but the signals of a raising run was posted.
`PictureInv` and `FilesInv` (`HandedOver`): once `session_finished` is handled only
errors and the end of the thread can follow, so the files stay what they are. An
arithmetic lemma, `MultiplesApart`, is behind the chart: between two points is a stride.
`PositionGapRight` is about `LedGap` alone, for any number of LEDs and any mask. Every
candidate of `find_last_on_led`, the joined one included, is a run on the circle
(`CandidatesRound`), and LEDs lit without a break going round lie in a candidate
(`CandidateAround`); so the longest candidate, which exists by `Minimum`, is a longest
run on the circle (`LedGapIsRight`).

Only model-checked:

* *Liveness* (`StopUnlocks`, `BackReturnsEventually`, `CallsEnd`): it rests on
  fairness and ENABLED, for which TLAPS has no rules.
* The runs that end in a finding.

## 6. Plan

Written, in this order: `MultiCameraSession`, `CrossCameraReconciler`,
`DualPanelControl`, `GmslSync`, `RemoteCall` and `PanelRpc`,
`CrossCameraImages`, `LedGap` and `SessionView`, `CameraHub` and `CameraWizard`;
the proofs of all of them.

Next, in order of importance:

1. An abstract `RunLifecycle` (a run acquires, captures, releases) that
   `MultiCameraSession` implements, with its refinement proved from `RigIInv`.
2. The retuning of detection thresholds in `CameraWizard`.

Not modelled: *display widgets and plots*, which hold nothing that outlives a
call; *image arithmetic, means and deviations* on data in hand, without state; *file
formats*; *profile resolution and exposure* (`engine/streams.py`), a dialogue with
vendor callbacks whose answers are unknown; *hub port diagnostics*; *turning all
LEDs on with two panels*, which no page calls; *the relay's keepalive thread*,
which repeats one write; the *diagnostic tools*, stand-alone scripts and a vendored driver
that are not part of the application.
