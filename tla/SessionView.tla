----------------------------- MODULE SessionView -----------------------------
(***************************************************************************)
(* One camera's live session, from the frame pairs its engine thread reads  *)
(* to what the operator sees and keeps (engine/acquisition_loop.py,         *)
(* engine/test_session.py, engine/metrics.py, engine/session_engine.py, and *)
(* the single-camera page, gui/pages/live_session_page.py).                 *)
(*                                                                         *)
(* The thread never waits for the page: its signals queue up for the GUI    *)
(* thread, which delivers them in order between the operator's clicks.      *)
(* Frames and LED masks are known by the run and pair they come from.       *)
(***************************************************************************)
EXTENDS LedGap, Sequences

CONSTANTS
  Samples,      \* the kinds of frame pairs, see SampleType
  NumLeds,      \* LEDs on the panel's circle
  Threshold,    \* position_gap_outlier_threshold_ms, in LEDs
  WarmupPairs,  \* warmup_pairs_to_skip
  Stride,       \* display_stride
  SnapEvery,    \* snapshot_every_n_pairs
  MaxSnaps,     \* max_snapshots
  MaxOutliers,  \* position_gap_outlier_max_snapshots
  MaxRuns,      \* bound: the Starts considered
  MaxPairs      \* bound: the frame pairs of a run

\* What the metrics tell apart of a frame pair: each stream's frame-drop flag
\* and LEDs that are on, and whether the streams' gap exceeds the syncer's.
SampleType == [dropA : BOOLEAN, dropB : BOOLEAN, late : BOOLEAN,
               onA : SUBSET (0 .. NumLeds - 1), onB : SUBSET (0 .. NumLeds - 1)]

ASSUME ViewAssumption ==
  /\ Samples \subseteq SampleType
  /\ NumLeds \in Nat \ {0} /\ Stride \in Nat \ {0}
  /\ {Threshold, WarmupPairs, SnapEvery, MaxSnaps, MaxOutliers, MaxRuns, MaxPairs} \subseteq Nat

Runs1 == 1 .. MaxRuns
PairIndexes == 0 .. MaxPairs - 1

\* A frame, or the LED mask detected on it.
None == <<0, 0>>
FrameIds == (Runs1 \X PairIndexes) \cup {None}

\* A saved picture: the frame and the mask drawn on it, per stream.
Picture == [imgA : FrameIds, maskA : FrameIds, imgB : FrameIds, maskB : FrameIds]
Streams == {"a", "b"}

VARIABLES
  run,       \* the number of Starts so far; the run folder in use
  thread,    \* the engine thread: "none", "opening", "running", "closing" or "gone"
  rows,      \* per run, TestSession._rows
  queue,     \* signals on their way to the GUI thread
  running,   \* _session_running
  view,      \* what the page keeps of this run, see ViewType
  lastRows,  \* _last_session_rows: the run they are of, 0 for None
  csvs,      \* per run folder, the runs' rows in its CSV files
  pictures   \* per run folder, the periodic, outlier and debug pictures saved

vars == <<run, thread, rows, queue, running, view, lastRows, csvs, pictures>>

ViewType ==
  [drops  : [Streams -> Nat],          \* _stream_x_drop_count
   since  : [Streams -> BOOLEAN],      \* _stream_x_drop_since_last_plot
   img    : [Streams -> FrameIds],     \* _last_stream_x_image
   mask   : [Streams -> FrameIds],     \* _last_stream_x_on_mask
   hw     : Nat,                       \* _hw_ts_latency_stats.count
   optical: Nat,                       \* _optical_sync_stats.count
   marks  : [Streams -> SUBSET PairIndexes], \* drop_plot's points that show a drop
   plotted: SUBSET PairIndexes,        \* drop_plot's points
   seen   : Nat]                       \* history: rows delivered

FreshView ==
  [drops |-> [s \in Streams |-> 0], since |-> [s \in Streams |-> FALSE],
   img |-> [s \in Streams |-> None], mask |-> [s \in Streams |-> None],
   hw |-> 0, optical |-> 0, marks |-> [s \in Streams |-> {}], plotted |-> {}, seen |-> 0]

Event ==
  [kind : {"row", "stats"}, pair : PairIndexes] \cup
  [kind : {"frame"}, stream : Streams, pair : PairIndexes, mask : FrameIds] \cup
  [kind : {"finished", "error", "done"}]

\* undrawn is history: drawing the picture of the run's last pair raised.
PictureFiles ==
  [periodic : SUBSET Picture, outlier : SUBSET Picture, debug : SUBSET Picture, undrawn : BOOLEAN]
NoPictures == [periodic |-> {}, outlier |-> {}, debug |-> {}, undrawn |-> FALSE]

CsvFiles == [kept : SUBSET FrameIds, dropped : SUBSET FrameIds]
NoCsvs == [kept |-> {}, dropped |-> {}]

TypeOK ==
  /\ run \in 0 .. MaxRuns
  /\ thread \in {"none", "opening", "running", "closing", "gone"}
  /\ rows \in [Runs1 -> Seq(Samples)] /\ \A r \in Runs1 : Len(rows[r]) <= MaxPairs
  /\ queue \in Seq(Event)
  /\ running \in BOOLEAN
  /\ view \in ViewType
  /\ lastRows \in 0 .. MaxRuns
  /\ csvs \in [Runs1 -> CsvFiles]
  /\ pictures \in [Runs1 -> PictureFiles]
  /\ \A r \in Runs1 : /\ Cardinality(pictures[r].periodic) <= MaxSnaps
                      /\ Cardinality(pictures[r].outlier) <= MaxOutliers
  /\ running <=> thread \in {"opening", "running", "closing"} \/ \E i \in DOMAIN queue : queue[i].kind = "done"

Init ==
  /\ run = 0 /\ thread = "none" /\ running = FALSE
  /\ rows = [r \in Runs1 |-> <<>>]
  /\ queue = <<>>
  /\ view = FreshView
  /\ lastRows = 0
  /\ csvs = [r \in Runs1 |-> NoCsvs]
  /\ pictures = [r \in Runs1 |-> NoPictures]

-----------------------------------------------------------------------------
(* The rows (TestSession.process_pair and its metrics).                     *)

IsDrop(s) == s.dropA \/ s.dropB

\* PairingGapMetric: excluded as frame_drop or syncer_outlier.
GapExcluded(s) == IsDrop(s) \/ s.late

LastA(s) == FindLastOnLed(s.onA, NumLeds)
LastB(s) == FindLastOnLed(s.onB, NumLeds)

\* PositionGapMetric's value is None: a "miss".
Missed(s) == LastA(s) = NoLed \/ LastB(s) = NoLed

\* PositionGapMetric: excluded as miss, frame_drop or warmup.
PositionExcluded(s, k) == Missed(s) \/ IsDrop(s) \/ k < WarmupPairs

\* is_position_gap_debug_outlier
IsOutlier(s, k) ==
  LET gap == ComputePositionGap(LastA(s), LastB(s), NumLeds)
  IN ~PositionExcluded(s, k) /\ (gap >= Threshold \/ -gap >= Threshold)

-----------------------------------------------------------------------------
(* The engine thread.                                                       *)

Emit(events) == queue' = queue \o events

\* run() up to the capture: the camera is set up and the pipeline started.
Opens ==
  /\ thread = "opening" /\ thread' = "running"
  /\ UNCHANGED <<run, rows, queue, running, view, lastRows, csvs, pictures>>

\* Mutation: one picture more than the cap.
OneTooMany == Cardinality(pictures[run].outlier) <= MaxOutliers

\* _position_gap_outlier_count is under its cap.
RoomForOutlier == Cardinality(pictures[run].outlier) < MaxOutliers

(* One iteration of run_until_stopped: the pair becomes a row; an outlier's *)
(* picture is saved on this thread; every Stride-th pair is displayed, each *)
(* frame with a copy of the mask detected on it.                            *)
ProcessPair(s) ==
  LET k     == Len(rows[run])
      frame == <<run, k>>
      outlier == IsOutlier(s, k) /\ RoomForOutlier
      shown == IF k % Stride = 0
               THEN << [kind |-> "frame", stream |-> "a", pair |-> k, mask |-> frame],
                       [kind |-> "frame", stream |-> "b", pair |-> k, mask |-> frame],
                       [kind |-> "stats", pair |-> k] >>
               ELSE <<>>
  IN /\ thread = "running"
     /\ k < MaxPairs
     /\ k = 0 => ~IsDrop(s)
     /\ rows' = [rows EXCEPT ![run] = Append(@, s)]
     /\ pictures' = IF outlier
                    THEN [pictures EXCEPT ![run].outlier =
                            @ \cup {[imgA |-> frame, maskA |-> frame, imgB |-> frame, maskB |-> frame]}]
                    ELSE pictures
     /\ Emit(<< [kind |-> "row", pair |-> k] >> \o shown)
     /\ UNCHANGED <<run, thread, running, view, lastRows, csvs>>

\* The operator's Stop or the duration ends the loop.
LoopEnds ==
  /\ thread = "running" /\ thread' = "closing"
  /\ Emit(<< [kind |-> "finished"] >>)
  /\ UNCHANGED <<run, rows, running, view, lastRows, csvs, pictures>>

\* Mutation: what was buffered before a failure is thrown away.
FailureEvents == << [kind |-> "error"] >>

\* What run()'s except clause emits: the rows buffered so far, then the error.
ExceptEvents == << [kind |-> "finished"], [kind |-> "error"] >>

\* Opening the camera, or reading a frame pair, raises.
Raises ==
  /\ thread \in {"opening", "running"} /\ thread' = "closing"
  /\ Emit(ExceptEvents)
  /\ UNCHANGED <<run, rows, running, view, lastRows, csvs, pictures>>

(* Drawing or writing an outlier's picture raises: its pair is a row        *)
(* already, recorded and posted, but is not displayed.                      *)
DrawingRaises(s) ==
  LET k == Len(rows[run])
  IN /\ thread = "running" /\ thread' = "closing"
     /\ k < MaxPairs
     /\ k = 0 => ~IsDrop(s)
     /\ IsOutlier(s, k) /\ RoomForOutlier
     /\ rows' = [rows EXCEPT ![run] = Append(@, s)]
     /\ pictures' = [pictures EXCEPT ![run].undrawn = TRUE]
     /\ Emit(<< [kind |-> "row", pair |-> k] >> \o ExceptEvents)
     /\ UNCHANGED <<run, running, view, lastRows, csvs>>

(* run()'s finally block, in which stopping the panel may fail, and then    *)
(* QThread.finished.                                                        *)
Closes ==
  /\ thread = "closing" /\ thread' = "gone"
  /\ \E failures \in {<<>>, << [kind |-> "error"] >>} : Emit(failures \o << [kind |-> "done"] >>)
  /\ UNCHANGED <<run, rows, running, view, lastRows, csvs, pictures>>

-----------------------------------------------------------------------------
(* The page.                                                                *)

\* start_session's reset.
PreparedView == FreshView

(* start_session: a folder, a TestSession and a thread of its own.  The     *)
(* rows of the last run stay for Export.                                    *)
Start ==
  /\ ~running /\ run < MaxRuns
  /\ run' = run + 1
  /\ thread' = "opening" /\ running' = TRUE
  /\ view' = PreparedView
  /\ UNCHANGED <<rows, queue, lastRows, csvs, pictures>>

\* The row of pair k of this run.
RowAt(k) == rows[run][k + 1]

\* on_row_ready
OnRowReady(e) ==
  LET s == RowAt(e.pair)
      dropped == [a |-> s.dropA, b |-> s.dropB]
  IN /\ view' = [view EXCEPT
            !.drops = [x \in Streams |-> @[x] + IF dropped[x] THEN 1 ELSE 0],
            !.since = [x \in Streams |-> @[x] \/ dropped[x]],
            !.hw = @ + IF GapExcluded(s) THEN 0 ELSE 1,
            !.optical = @ + IF PositionExcluded(s, e.pair) THEN 0 ELSE 1,
            !.seen = @ + 1]
     /\ UNCHANGED <<running, lastRows, csvs, pictures>>

\* Mutation: a point shows only its own pair's drop.
OwnDrop(x, k) == IF x = "a" THEN RowAt(k).dropA ELSE RowAt(k).dropB

\* _stream_x_drop_since_last_plot
DropMark(x, k) == view.since[x]

\* on_stats_ready
OnStatsReady(e) ==
  /\ view' = [view EXCEPT
         !.marks = [x \in Streams |-> IF DropMark(x, e.pair) THEN @[x] \cup {e.pair} ELSE @[x]],
         !.plotted = @ \cup {e.pair},
         !.since = [x \in Streams |-> FALSE]]
  /\ UNCHANGED <<running, lastRows, csvs, pictures>>

\* Mutation: the mask is read from the metric when the signal is handled.
LiveMask(e) == <<run, Len(rows[run]) - 1>>

\* The mask that came with the frame.
MaskOf(e) == e.mask

\* The frames and masks the page holds, as a picture would show them.
Held(v) == [imgA |-> v.img["a"], maskA |-> v.mask["a"], imgB |-> v.img["b"], maskB |-> v.mask["b"]]

\* _last_stream_x_image and _last_stream_x_on_mask are all there.
HasFrames(v) == \A x \in Streams : v.img[x] # None /\ v.mask[x] # None

\* _maybe_save_periodic_snapshot does save.
PeriodicDue(k, v) ==
  /\ SnapEvery > 0 /\ k % SnapEvery = 0
  /\ Cardinality(pictures[run].periodic) < MaxSnaps
  /\ HasFrames(v)

\* on_frame_ready
OnFrameReady(e) ==
  LET v == [view EXCEPT !.img[e.stream] = <<run, e.pair>>, !.mask[e.stream] = MaskOf(e)]
      saves == e.stream = "b" /\ PeriodicDue(e.pair, v)
  IN /\ view' = v
     /\ pictures' = IF saves THEN [pictures EXCEPT ![run].periodic = @ \cup {Held(v)}] ELSE pictures
     /\ UNCHANGED <<running, lastRows, csvs>>

\* export_session_csvs: the rows of run r, split by their frame-drop flags.
SplitRows(r) ==
  LET k(P(_)) == {<<r, i - 1>> : i \in {j \in 1 .. Len(rows[r]) : P(rows[r][j])}}
      NoDrop(s) == ~IsDrop(s)
  IN [kept |-> k(NoDrop), dropped |-> k(IsDrop)]

(* _save_led_state_debug_images: refused before both frames arrived.  The   *)
(* two files are overwritten.                                               *)
SaveDebugImages(v) ==
  pictures' = IF HasFrames(v) THEN [pictures EXCEPT ![run].debug = {Held(v)}] ELSE pictures

\* on_session_finished
OnSessionFinished ==
  /\ lastRows' = run
  /\ csvs' = [csvs EXCEPT ![run] = SplitRows(run)]
  /\ SaveDebugImages(view)
  /\ UNCHANGED <<running, view>>

\* _on_engine_thread_finished
OnThreadFinished ==
  /\ running' = FALSE
  /\ UNCHANGED <<view, lastRows, csvs, pictures>>

\* The GUI thread delivers the next signal.
Deliver ==
  /\ queue # <<>>
  /\ LET e == Head(queue)
     IN \/ e.kind = "row" /\ OnRowReady(e)
        \/ e.kind = "stats" /\ OnStatsReady(e)
        \/ e.kind = "frame" /\ OnFrameReady(e)
        \/ e.kind = "finished" /\ OnSessionFinished
        \/ e.kind = "error" /\ UNCHANGED <<running, view, lastRows, csvs, pictures>>
        \/ e.kind = "done" /\ OnThreadFinished
  /\ queue' = Tail(queue)
  /\ UNCHANGED <<run, thread, rows>>

\* "Save Debug Snapshot", at any time after the first Start
ClickSaveDebug ==
  /\ run > 0
  /\ SaveDebugImages(view)
  /\ UNCHANGED <<run, thread, rows, queue, running, view, lastRows, csvs>>

(* "Export CSV" (_reexport_last_session_csvs): the last finished run's rows *)
(* go to the paths of the run in progress.                                  *)
ClickExport ==
  /\ lastRows > 0
  /\ csvs' = [csvs EXCEPT ![run] = SplitRows(lastRows)]
  /\ UNCHANGED <<run, thread, rows, queue, running, view, lastRows, pictures>>

Next ==
  \/ Opens \/ LoopEnds \/ Raises \/ Closes
  \/ \E s \in Samples : ProcessPair(s) \/ DrawingRaises(s)
  \/ Start \/ Deliver \/ ClickSaveDebug \/ ClickExport

Spec == Init /\ [][Next]_vars

-----------------------------------------------------------------------------
(* Safety.                                                                  *)

(* The throttled drop chart hides no drop: a plotted point shows a drop     *)
(* exactly when one of the pairs since the point before it dropped, and the *)
(* counters and running statistics count exactly this run's delivered rows, *)
(* excluded values left out.                                                *)
DropMarksExact ==
  LET seen == {k \in PairIndexes : k < view.seen}
      drops(x) == {k \in seen : OwnDrop(x, k)}
  IN /\ \A x \in Streams :
          /\ view.marks[x] = {k \in view.plotted : \E j \in drops(x) : k - Stride < j /\ j <= k}
          /\ view.drops[x] = Cardinality(drops(x))
     /\ view.hw = Cardinality({k \in seen : ~GapExcluded(RowAt(k))})
     /\ view.optical = Cardinality({k \in seen : ~PositionExcluded(RowAt(k), k)})

(* Every LED overlay is drawn on the very frame it was detected on, and     *)
(* frames of one run never end up in another run's folder; the two halves   *)
(* of a periodic or an outlier picture are of one pair.  However far the    *)
(* thread runs ahead of the page.                                           *)
OverlayOfItsFrame ==
  \A r \in Runs1 :
    /\ \A p \in pictures[r].periodic \cup pictures[r].outlier \cup pictures[r].debug :
         p.maskA = p.imgA /\ p.maskB = p.imgB /\ p.imgA[1] = r /\ p.imgB[1] = r
    /\ \A p \in pictures[r].periodic \cup pictures[r].outlier : p.imgA = p.imgB

\* Runs whose finish reached the page.
Over == {r \in Runs1 : r < run \/ (r = run /\ ~running)}

\* The outliers of run r.
OutliersOf(r) == {k \in PairIndexes : k < Len(rows[r]) /\ IsOutlier(rows[r][k + 1], k)}

(* A run that is over left its folder complete, whether it was stopped, ran *)
(* out or failed: every row recorded before the end is in one of its two    *)
(* CSV files and no row of another run is, the first outliers up to the cap *)
(* have their picture, but for one whose drawing ended the run, and the     *)
(* closing picture is of one frame pair, even if an earlier one, asked for  *)
(* between two signals, was not.                                            *)
RunFilesComplete ==
  \A r \in Over :
    /\ csvs[r] = SplitRows(r)
    /\ LET outliers == OutliersOf(r)
           saved == {p.imgA[2] : p \in pictures[r].outlier}
       IN /\ saved \subseteq outliers
          /\ \A k \in outliers \ saved :
               \/ Cardinality(saved) = MaxOutliers /\ \A j \in saved : j < k
               \/ pictures[r].undrawn /\ k = Len(rows[r]) - 1
    /\ \A p \in pictures[r].debug : p.imgA = p.imgB

(* find_last_on_led and compute_position_gap against the circle they        *)
(* measure, for every number of LEDs up to the panel's and every mask: what *)
(* every row's position gap rests on.  Looked at once, before the first     *)
(* Start.                                                                   *)
PositionGapRight == run = 0 => \A n \in 1 .. NumLeds : LedGapRight(n)
=============================================================================
