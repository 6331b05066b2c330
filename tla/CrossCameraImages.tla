-------------------------- MODULE CrossCameraImages --------------------------
(***************************************************************************)
(* The side-by-side images of matched frames that the multi-camera page     *)
(* saves (_maybe_save_cross_camera_debug_image,                             *)
(* gui/pages/multi_camera_live_session_page.py), composed with the          *)
(* reconciler that finds the matches.                                       *)
(*                                                                         *)
(* A camera's thread emits a row and then keeps the row's two frames in a   *)
(* ring of recent frames (SessionEngineThread._record_recent_frame).  The   *)
(* row waits in the GUI thread's event queue; when it is delivered and      *)
(* matched, the page looks the two frames of the match up in the rings,     *)
(* which the threads went on filling all the while.                         *)
(***************************************************************************)
EXTENDS CrossCameraReconciler

CONSTANTS
  RingLen,    \* _RECENT_FRAMES_MAXLEN
  MaxQueued,  \* bound: the rows of one camera waiting in the GUI's queue
  EveryN,     \* snapshot_every_n_pairs of the master's config
  MaxImages   \* max_snapshots of the master's config, per comparison

ASSUME ImagesAssumption ==
  RingLen \in Nat \ {0} /\ MaxQueued \in Nat /\ EveryN \in Nat /\ MaxImages \in Nat

VARIABLES
  recorded,   \* per camera, the frame pairs its thread put into the ring
  periodic,   \* per comparison, periodic_count: images written
  missed      \* history: per comparison, triggers whose frames were not in a ring

imageVars == <<recorded, periodic, missed>>

ImagesTypeOK ==
  /\ TypeOK
  /\ recorded \in [Cameras -> 0 .. MaxTime + 1]
  /\ periodic \in [Specs -> 0 .. MaxImages]
  /\ missed \in [Specs -> 0 .. MaxTime + 1]

ImagesInit ==
  /\ Init
  /\ recorded = [c \in Cameras |-> 0]
  /\ periodic = [s \in Specs |-> 0]
  /\ missed = [s \in Specs |-> 0]

\* get_recent_frame_pair finds the frames of pair k.
InRing(c, k) == recorded[c] - RingLen <= k /\ k < recorded[c]

\* Mutation: the reconciler's own counter, which all comparisons share.
SharedCount(s) == Cardinality(crossRows)

\* seen_count: the page sees every cross-row of a comparison as it is matched.
SeenCount(s) == matched[s]

(* The cross-rows that this step emitted for comparison s: one or none.     *)
NewRows(s) == {x \in crossRows' \ crossRows : x.spec = s}

\* is_periodic
Triggers(s) ==
  /\ NewRows(s) # {}
  /\ EveryN > 0
  /\ SeenCount(s)' % EveryN = 0
  /\ periodic[s] < MaxImages

FramesFound(s) == \A x \in NewRows(s) : InRing(Master, x.master.pair) /\ InRing(s.slave, x.slave.pair)

(* The GUI thread delivers camera c's next row.  Its thread emitted it      *)
(* after recording every earlier pair, and may not yet have recorded the    *)
(* frames of this one (AcquisitionLoop calls on_row before on_frame_pair).  *)
DeliverAndSave(c) ==
  /\ pairs[c] <= recorded[c]
  /\ DeliverRow(c)
  /\ LET saves == {s \in Specs : Triggers(s) /\ FramesFound(s)}
         lacks == {s \in Specs : Triggers(s) /\ ~FramesFound(s)}
     IN /\ periodic' = [s \in Specs |-> periodic[s] + IF s \in saves THEN 1 ELSE 0]
        /\ missed' = [s \in Specs |-> missed[s] + IF s \in lacks THEN 1 ELSE 0]
  /\ UNCHANGED recorded

\* _record_recent_frame, on camera c's thread.
RecordRecentFrame(c) ==
  /\ recorded[c] - pairs[c] < MaxQueued
  /\ recorded[c] - pairs[c] <= MaxTime - clock[c]
  /\ recorded' = [recorded EXCEPT ![c] = @ + 1]
  /\ UNCHANGED <<vars, periodic, missed>>

LoseFramesOf(c) == LoseFrames(c) /\ UNCHANGED imageVars

ImagesNext ==
  \E c \in Cameras : DeliverAndSave(c) \/ RecordRecentFrame(c) \/ LoseFramesOf(c)

ImagesSpec == ImagesInit /\ [][ImagesNext]_<<vars, imageVars>>

-----------------------------------------------------------------------------
(* Every comparison gets its own share of periodic images: one for every    *)
(* EveryN of its matches until its cap, but for those whose frames had left *)
(* the ring, however the matches of the comparisons alternate.              *)
PeriodicImagesShared ==
  \A s \in Specs : EveryN > 0 =>
    \/ periodic[s] = MaxImages
    \/ periodic[s] + missed[s] = matched[s] \div EveryN
=============================================================================
