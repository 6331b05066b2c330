----------------------- MODULE CrossCameraReconciler -----------------------
(***************************************************************************)
(* The matching of rows across cameras                                     *)
(* (engine/cross_camera_reconciler.py).  Every camera's rows reach          *)
(* ingest_row in the order its thread produced them, the cameras            *)
(* interleaved in any way.  For each (slave, stream identity) compared with *)
(* the master, a row is joined with the nearest waiting row of the other    *)
(* side, if one is near enough, or else waits in a bounded buffer.          *)
(*                                                                         *)
(* Time is counted in frame periods: a frame captured in period t has the   *)
(* global timestamp t, and on its camera's own clock the hardware timestamp *)
(* t + Epoch.  Rows of one camera are pushed in the order of their pair     *)
(* index, so a buffer is a set whose oldest entry is the one with the       *)
(* smallest index.                                                          *)
(***************************************************************************)
EXTENDS Integers, FiniteSets

CONSTANTS
  Master,     \* the master camera
  Slaves,     \* the other cameras
  Identities, \* stream identities a row carries a timestamp for
  Specs,      \* the comparisons, see SpecType
  BufferLen,  \* max_len of a pending buffer (fps_hint * buffer_seconds)
  MaxGap,     \* max_match_gap_us, in frame periods
  Epoch,      \* where each camera's hardware clock stands at the global time 0
  NoOffset,   \* _hw_offset_us = None
  MaxTime     \* bound: the frame periods considered

Cameras == {Master} \cup Slaves

\* CrossCameraPairSpec: which slave is compared on which stream identity.
SpecType == [slave : Slaves, identity : Identities]

ASSUME ConstantsAssumption ==
  /\ Master \notin Slaves
  /\ Specs \subseteq SpecType
  /\ BufferLen \in Nat \ {0}
  /\ MaxGap \in Nat
  /\ Epoch \in [Cameras -> Int]
  /\ NoOffset \notin Int
  /\ MaxTime \in Nat

Times == 0 .. MaxTime
Sides == {"master", "slave"}
Other(side) == IF side = "master" THEN "slave" ELSE "master"

\* What one comparison sees of a row.
Entry == [pair : Times, ts : Times, drop : BOOLEAN]

VARIABLES
  stamped,    \* capture_global_ts: rows carry global timestamps
  clock,      \* per camera, the frame period of its next row
  pairs,      \* per camera, the pair_index of its next row
  lastTs,     \* per camera and identity, the timestamp of its last row
  waiting,    \* per comparison and side, the pending buffer
  hwOffset,   \* per comparison, _hw_offset_us
  matched,    \* per comparison, _matched_count
  unmatched,  \* per comparison, _unmatched_count
  crossRows,  \* history: the cross-rows emitted
  evicted     \* history: per comparison, the rows dropped from a full buffer

vars == <<stamped, clock, pairs, lastTs, waiting, hwOffset, matched, unmatched, crossRows, evicted>>

CrossRow == [spec : Specs, master : Entry, slave : Entry, hwGap : Int, excluded : BOOLEAN]

TypeOK ==
  /\ stamped \in BOOLEAN
  /\ clock \in [Cameras -> 0 .. MaxTime + 1]
  /\ pairs \in [Cameras -> 0 .. MaxTime + 1]
  /\ lastTs \in [Cameras -> [Identities -> -1 .. MaxTime]]
  /\ waiting \in [Specs -> [Sides -> SUBSET Entry]]
  /\ \A s \in Specs, side \in Sides : Cardinality(waiting[s][side]) <= BufferLen
  /\ hwOffset \in [Specs -> Int \cup {NoOffset}]
  /\ matched \in [Specs -> 0 .. MaxTime + 1]
  /\ unmatched \in [Specs -> 0 .. 2 * (MaxTime + 1)]
  /\ crossRows \subseteq CrossRow
  /\ evicted \in [Specs -> 0 .. 2 * (MaxTime + 1)]

Init ==
  /\ stamped \in BOOLEAN
  /\ clock = [c \in Cameras |-> 0]
  /\ pairs = [c \in Cameras |-> 0]
  /\ lastTs = [c \in Cameras |-> [i \in Identities |-> -1]]
  /\ waiting = [s \in Specs |-> [side \in Sides |-> {}]]
  /\ hwOffset = [s \in Specs |-> NoOffset]
  /\ matched = [s \in Specs |-> 0]
  /\ unmatched = [s \in Specs |-> 0]
  /\ crossRows = {}
  /\ evicted = [s \in Specs |-> 0]

-----------------------------------------------------------------------------
(* The pending buffer.                                                      *)

Distance(a, b) == IF a > b THEN a - b ELSE b - a

Oldest(B) == CHOOSE e \in B : \A f \in B : e.pair <= f.pair

\* Mutation: nothing is ever dropped.
PushUnbounded(B, e) == B \cup {e}

\* push: when the deque is full its oldest row is dropped.
Push(B, e) ==
  IF Cardinality(B \cup {e}) > BufferLen
  THEN (B \cup {e}) \ {Oldest(B \cup {e})}
  ELSE B \cup {e}

\* Mutation: the newest waiting row is taken.
Newest(B, ts) == CHOOSE e \in B : \A f \in B : e.pair >= f.pair

\* min() over the buffer: of equally near rows, the oldest.
Nearest(B, ts) ==
  CHOOSE e \in B : \A f \in B :
    \/ Distance(e.ts, ts) < Distance(f.ts, ts)
    \/ Distance(e.ts, ts) = Distance(f.ts, ts) /\ e.pair <= f.pair

\* Mutation: the oldest waiting row is tried instead of the nearest.
OldestNearEnough(B, ts) == B # {} /\ Distance(Oldest(B).ts, ts) <= MaxGap

\* pop_nearest finds a row.
NearEnough(B, ts) == B # {} /\ Distance(Nearest(B, ts).ts, ts) <= MaxGap

\* Mutation: the row that was matched stays in the buffer.
KeepMatched(B, e) == B

PopMatched(B, e) == B \ {e}

-----------------------------------------------------------------------------
(* Ingesting a row.                                                         *)

SideOf(c) == IF c = Master THEN "master" ELSE "slave"

\* _specs_by_camera
SpecsOf(c) == {s \in Specs : c = Master \/ s.slave = c}

\* The hardware timestamp of camera c's frame.
HwTs(c, e) == e.ts + Epoch[c]

\* _hw_offset_us: learned from the comparison's first match.
LearnedOffset(s, m, sl) ==
  IF hwOffset[s] = NoOffset THEN HwTs(s.slave, sl) - HwTs(Master, m) ELSE hwOffset[s]

(* _build_cross_row.  hwGap is pairing_gap_us: the difference of hardware   *)
(* timestamps once the learned offset is taken out.                         *)
BuildCrossRow(s, m, sl) ==
  [spec |-> s, master |-> m, slave |-> sl,
   hwGap |-> HwTs(Master, m) - (HwTs(s.slave, sl) - LearnedOffset(s, m, sl)),
   excluded |-> m.drop \/ sl.drop]

(* ingest_row: camera c delivers a row; ts and drop give its timestamp and  *)
(* frame-drop flag per stream identity.  Each comparison of the camera      *)
(* either matches the row or keeps it waiting.                              *)
IngestRow(c, ts, drop) ==
  LET side     == SideOf(c)
      entry(s) == [pair |-> pairs[c], ts |-> ts[s.identity], drop |-> drop[s.identity]]
      facing(s) == waiting[s][Other(side)]
      hits     == {s \in SpecsOf(c) : stamped /\ NearEnough(facing(s), ts[s.identity])}
      hit(s)   == Nearest(facing(s), ts[s.identity])
      m(s)     == IF side = "master" THEN entry(s) ELSE hit(s)
      sl(s)    == IF side = "master" THEN hit(s) ELSE entry(s)
      misses   == SpecsOf(c) \ hits
  IN /\ waiting' = [s \in Specs |->
           CASE s \in hits -> [waiting[s] EXCEPT ![Other(side)] = PopMatched(@, hit(s))]
             [] s \in misses /\ stamped -> [waiting[s] EXCEPT ![side] = Push(@, entry(s))]
             [] OTHER -> waiting[s]]
     /\ crossRows' = crossRows \cup {BuildCrossRow(s, m(s), sl(s)) : s \in hits}
     /\ hwOffset' = [s \in Specs |-> IF s \in hits THEN LearnedOffset(s, m(s), sl(s)) ELSE hwOffset[s]]
     /\ matched' = [s \in Specs |-> matched[s] + IF s \in hits THEN 1 ELSE 0]
     /\ unmatched' = [s \in Specs |-> unmatched[s] + IF s \in misses THEN 1 ELSE 0]
     /\ evicted' = [s \in Specs |-> evicted[s] +
           IF s \in misses /\ stamped /\ Cardinality(waiting[s][side]) = BufferLen THEN 1 ELSE 0]

(* TestSession.process_pair's flag: the timestamp repeats, or leaves a gap. *)
FrameDrop(prev, ts) == prev # -1 /\ (ts <= prev \/ ts > prev + 1)

(* The camera's next frame pair.  One stream may repeat the previous        *)
(* frame's timestamp.                                                       *)
DeliverRow(c) ==
  /\ clock[c] <= MaxTime
  /\ \E repeats \in {{}} \cup {{i} : i \in {j \in Identities : lastTs[c][j] # -1}} :
       LET ts == [i \in Identities |-> IF i \in repeats THEN lastTs[c][i] ELSE clock[c]]
       IN /\ IngestRow(c, ts, [i \in Identities |-> FrameDrop(lastTs[c][i], ts[i])])
          /\ lastTs' = [lastTs EXCEPT ![c] = ts]
  /\ clock' = [clock EXCEPT ![c] = @ + 1]
  /\ pairs' = [pairs EXCEPT ![c] = @ + 1]
  /\ UNCHANGED stamped

\* The camera skips a frame period: the pipeline dropped the frame pair.
LoseFrames(c) ==
  /\ clock[c] <= MaxTime
  /\ clock' = [clock EXCEPT ![c] = @ + 1]
  /\ UNCHANGED <<stamped, pairs, lastTs, waiting, hwOffset, matched, unmatched, crossRows, evicted>>

Next == \E c \in Cameras : DeliverRow(c) \/ LoseFrames(c)

Spec == Init /\ [][Next]_vars

-----------------------------------------------------------------------------
(* Safety.                                                                  *)

(* The greedy join is maximal: whatever the interleaving, no two rows that  *)
(* could be matched are both left waiting.                                  *)
NothingMatchableWaits ==
  \A s \in Specs : \A m \in waiting[s]["master"], sl \in waiting[s]["slave"] :
    Distance(m.ts, sl.ts) > MaxGap

(* A frame is used at most once per comparison: never in two cross-rows,    *)
(* and never still waiting after it was matched.                            *)
FramesUsedOnce ==
  /\ \A x, y \in crossRows : x.spec = y.spec /\ x # y =>
       x.master.pair # y.master.pair /\ x.slave.pair # y.slave.pair
  /\ \A x \in crossRows :
       /\ \A e \in waiting[x.spec]["master"] : e.pair # x.master.pair
       /\ \A e \in waiting[x.spec]["slave"] : e.pair # x.slave.pair

(* Matches do not cross: whatever is lost, repeated or evicted and however   *)
(* far one camera's rows run ahead, a later frame of the master is matched  *)
(* with no earlier frame of the slave.  This needs a match gap of less than *)
(* one and a half frame periods, as 50 ms is at up to 30 fps.               *)
MatchesInOrder ==
  MaxGap <= 1 =>
    \A x, y \in crossRows : x.spec = y.spec /\ x.master.ts < y.master.ts => x.slave.ts <= y.slave.ts

(* HW TS Latency is relative to a match of the comparison that reads zero:  *)
(* two matches' latencies differ by as much as their Global TS Latencies,   *)
(* though the cameras' hardware clocks start at different times.            *)
LatencyIsRelative ==
  /\ \A x \in crossRows : \E first \in crossRows : first.spec = x.spec /\ first.hwGap = 0
  /\ \A x, y \in crossRows : x.spec = y.spec =>
       x.hwGap - y.hwGap = (x.master.ts - x.slave.ts) - (y.master.ts - y.slave.ts)

(* match_diagnostics accounts for every row of a comparison's two cameras:  *)
(* it was matched, one of the two rows of a cross-row, or counted unmatched *)
(* on arrival; and the rows once unmatched are those matched later, those   *)
(* that still wait and those dropped from a full buffer.                    *)
DiagnosticsAccount ==
  \A s \in Specs :
    LET left == Cardinality(waiting[s]["master"]) + Cardinality(waiting[s]["slave"])
    IN /\ matched[s] = Cardinality({x \in crossRows : x.spec = s})
       /\ matched[s] + unmatched[s] = pairs[Master] + pairs[s.slave]
       /\ stamped => unmatched[s] = matched[s] + left + evicted[s]
=============================================================================
