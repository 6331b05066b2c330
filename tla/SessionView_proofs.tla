------------------------- MODULE SessionView_proofs -------------------------
(***************************************************************************)
(* What holds of SessionView for any frame pairs, panel, thresholds, strides *)
(* and caps: its types, DropMarksExact, OverlayOfItsFrame and               *)
(* RunFilesComplete, all from the inductive invariant ViewInv, and          *)
(* PositionGapRight, of LedGap's circle alone.                              *)
(***************************************************************************)
EXTENDS SessionView, FiniteSetTheorems, SequenceTheorems, Minimum, TLAPS

-----------------------------------------------------------------------------
(* The inductive invariant.                                                 *)

\* The signals on their way.
Posted == Len(queue)
Signal(i) == queue[i]

Ending(e) == e.kind \in {"finished", "error", "done"}

\* The signals after a run's last row was handed over.
Closing(e) == e.kind \in {"error", "done"}

\* Nothing more belongs to the pair of signal e.
PairDone(e) == e.kind = "stats" \/ (e.kind = "row" /\ e.pair % Stride # 0)

\* Pair k is this run's last, and drawing its picture raised.
Undrawn(k) == pictures[run].undrawn /\ k = Len(rows[run]) - 1

(* What the thread posts right after e: a displayed pair's frames and       *)
(* statistics follow its row, then comes the next pair or the end, which is *)
(* after the last row; a pair that could not be drawn is not displayed.     *)
Follows(e, f) ==
  \/ /\ e.kind = "row" /\ e.pair % Stride = 0
     /\ f.kind = "frame" /\ f.stream = "a" /\ f.pair = e.pair
  \/ /\ e.kind = "frame" /\ e.stream = "a"
     /\ f.kind = "frame" /\ f.stream = "b" /\ f.pair = e.pair
  \/ /\ e.kind = "frame" /\ e.stream = "b"
     /\ f.kind = "stats" /\ f.pair = e.pair
  \/ /\ PairDone(e)
     /\ \/ f.kind = "row" /\ f.pair = e.pair + 1
        \/ Ending(f) /\ e.pair = Len(rows[run]) - 1
  \/ e.kind = "row" /\ Undrawn(e.pair) /\ Ending(f)
  \/ e.kind \in {"finished", "error"} /\ Closing(f)

\* The last signal posted is as far as the thread has come.
LastPosted(e) ==
  \/ thread = "running" /\ PairDone(e) /\ e.pair = Len(rows[run]) - 1
  \/ thread = "closing" /\ e.kind \in {"finished", "error"}
  \/ thread = "gone" /\ e.kind = "done"

SameFrames == view.img["a"] = view.img["b"]

(* What the page has seen when signal e is next.                            *)
UpToDate(e) ==
  CASE e.kind = "row"   -> e.pair = view.seen /\ SameFrames
    [] e.kind = "frame" -> /\ e.pair = view.seen - 1
                           /\ IF e.stream = "a" THEN SameFrames ELSE view.img["a"] = <<run, e.pair>>
    [] e.kind = "stats" -> e.pair = view.seen - 1 /\ SameFrames
    [] OTHER -> view.seen = Len(rows[run]) /\ SameFrames

\* A signal of a pair is of a row recorded, and a mask of the frame it is with.
SignalRight(e) ==
  /\ e.kind \in {"row", "frame", "stats"} => e.pair \in 0 .. Len(rows[run]) - 1
  /\ e.kind \in {"frame", "stats"} => e.pair % Stride = 0 /\ ~Undrawn(e.pair)
  /\ e.kind = "frame" => e.stream \in Streams /\ e.mask = <<run, e.pair>>

QueueInv ==
  /\ \A i \in 1 .. Posted :
       /\ SignalRight(Signal(i))
       /\ Ending(Signal(i)) => /\ thread \in {"closing", "gone"}
                               /\ \A j \in i + 1 .. Posted : Closing(Signal(j))
       /\ i < Posted => Follows(Signal(i), Signal(i + 1))
  /\ Posted # 0 => LastPosted(Signal(Posted)) /\ UpToDate(Signal(1))

(* The thread and the page: the page stays locked until the last signal of  *)
(* the run.                                                                 *)
RunInv ==
  /\ thread = "none" <=> run = 0
  /\ thread \in {"none", "opening"} => Posted = 0 /\ view = FreshView
  /\ thread = "opening" => rows[run] = <<>>
  /\ run > 0 /\ pictures[run].undrawn => thread \in {"closing", "gone"}
  /\ run > 0 /\ Posted = 0 => view.seen = Len(rows[run]) /\ SameFrames
  /\ running <=> thread \in {"opening", "running", "closing"} \/ (thread = "gone" /\ Posted # 0)
  /\ lastRows <= run
  /\ \A r \in Runs1 : r > run => rows[r] = <<>> /\ pictures[r] = NoPictures
  /\ \A x \in Streams : /\ view.mask[x] = view.img[x]
                        /\ view.img[x] # None => view.img[x][1] = run

\* The pairs of this run whose rows the page has seen, and stream x's drops.
Seen == {k \in PairIndexes : k < view.seen}
SeenDrops(x) == {k \in Seen : OwnDrop(x, k)}

\* The pairs before this one whose point is plotted, if they are to be.
Shown == IF Posted # 0 /\ Signal(1).kind \in {"frame", "stats"} THEN view.seen - 1 ELSE view.seen

(* The chart: every Stride-th pair displayed is a point, and a drop is      *)
(* remembered until the next one.                                           *)
ChartInv ==
  /\ view.plotted = {k \in PairIndexes : k % Stride = 0 /\ k < Shown /\ ~Undrawn(k)}
  /\ \A x \in Streams : view.since[x] <=> \E j \in SeenDrops(x) : \A k \in view.plotted : k < j

\* The outliers of run r that have a picture, and such a picture.
Saved(r) == {p.imgA[2] : p \in pictures[r].outlier}
Shot(r, k) == [imgA |-> <<r, k>>, maskA |-> <<r, k>>, imgB |-> <<r, k>>, maskB |-> <<r, k>>]

(* The pictures: an outlier has one unless the cap was reached before it or *)
(* drawing it ended the run.                                                *)
PictureInv ==
  \A r \in Runs1 :
    /\ IsFiniteSet(pictures[r].periodic) /\ IsFiniteSet(pictures[r].outlier)
    /\ Saved(r) \subseteq OutliersOf(r)
    /\ pictures[r].outlier = {Shot(r, k) : k \in Saved(r)}
    /\ \A k \in OutliersOf(r) \ Saved(r) :
         \/ Cardinality(pictures[r].outlier) = MaxOutliers /\ \A j \in Saved(r) : j < k
         \/ pictures[r].undrawn /\ k = Len(rows[r]) - 1

\* The end of this run has reached the page.
HandedOver ==
  /\ lastRows = run /\ csvs[run] = SplitRows(run)
  /\ \A p \in pictures[run].debug : p.imgA = p.imgB
  /\ \A i \in 1 .. Posted : Closing(Signal(i))

(* The files: earlier runs left theirs complete, and this one's will be when *)
(* its end is delivered.                                                    *)
FilesInv ==
  /\ \A r \in Runs1 : r < run => /\ csvs[r] = SplitRows(r)
                                 /\ \A p \in pictures[r].debug : p.imgA = p.imgB
  /\ thread \in {"closing", "gone"} =>
       HandedOver \/ \E i \in 1 .. Posted : Signal(i).kind = "finished"
  /\ run > 0 /\ pictures[run].debug # {} => HasFrames(view)

ViewInv ==
  /\ TypeOK /\ QueueInv /\ RunInv /\ ChartInv /\ DropMarksExact
  /\ OverlayOfItsFrame /\ PictureInv /\ FilesInv

-----------------------------------------------------------------------------
(* Arithmetic, and the queue.                                               *)

LEMMA Division ==
  ASSUME NEW n \in Nat \ {0}, NEW a \in Nat
  PROVE  a % n \in 0 .. n - 1 /\ a \div n \in Int /\ a = n * (a \div n) + (a % n)
OBVIOUS

(* Between two multiples of the stride there is a stride.                   *)
LEMMA MultiplesApart ==
  ASSUME NEW n \in Nat \ {0}, NEW a \in Nat, NEW b \in Nat,
         a % n = 0, b % n = 0, a < b
  PROVE  a <= b - n
<1> DEFINE p == a \div n  q == b \div n
<1>1. a = n * p /\ b = n * q /\ p \in Int /\ q \in Int
  BY Division
<1> HIDE DEF p, q
<1>2. p < q
  BY <1>1
<1>3. n * (p + 1) <= n * q
  BY <1>1, <1>2
<1>4. n * (p + 1) = n * p + n
  BY <1>1
<1> QED BY <1>1, <1>3, <1>4

(* A multiple of the stride is followed by the next one.                    *)
LEMMA NextMultiple ==
  ASSUME NEW n \in Nat \ {0}, NEW b \in Nat, b % n = 0, b # 0
  PROVE  b - n \in Nat /\ (b - n) % n = 0
<1> DEFINE q == b \div n
<1>1. b = n * q /\ q \in Int
  BY Division
<1> HIDE DEF q
<1>2. q >= 1
  BY <1>1
<1>3. b - n = n * (q - 1)
  BY <1>1
<1>4. b - n >= 0
  BY <1>1, <1>2, <1>3
<1>5. PICK p \in Int : p = q - 1
  BY <1>1
<1>6. (n * p) % n = 0
  BY <1>5
<1> QED BY <1>3, <1>4, <1>5, <1>6

\* What posting m signals does to the queue.
LEMMA Posting ==
  ASSUME queue \in Seq(Event), NEW events \in Seq(Event), Emit(events),
         NEW m \in Nat, Len(events) = m
  PROVE  /\ queue' \in Seq(Event)
         /\ Posted \in Nat /\ Posted' \in Nat /\ Posted' = Posted + m
         /\ \A i \in 1 .. Posted + m :
              Signal(i)' = IF i <= Posted THEN Signal(i) ELSE events[i - Posted]
<1>1. queue' = queue \o events
  BY DEF Emit
<1>2. /\ Len(queue) \in Nat /\ queue' \in Seq(Event) /\ Len(queue') = Len(queue) + Len(events)
      /\ \A i \in 1 .. Len(queue) + Len(events) :
           queue'[i] = IF i <= Len(queue) THEN queue[i] ELSE events[i - Len(queue)]
  BY <1>1, ConcatProperties, LenProperties
<1>3. Posted \in Nat /\ Posted' = Posted + m
  BY <1>2 DEF Posted
<1>4. \A i \in 1 .. Posted + m : Signal(i)' = IF i <= Posted THEN Signal(i) ELSE events[i - Posted]
  BY <1>2 DEF Posted, Signal
<1> QED BY <1>2, <1>3, <1>4

\* What a delivery does to the queue.
LEMMA Delivery ==
  ASSUME queue \in Seq(Event), queue # <<>>, queue' = Tail(queue)
  PROVE  /\ queue' \in Seq(Event)
         /\ Posted \in Nat \ {0} /\ Posted' \in Nat /\ Posted' = Posted - 1
         /\ Signal(1) \in Event /\ Head(queue) = Signal(1)
         /\ \A i \in 1 .. Posted - 1 : Signal(i)' = Signal(i + 1)
<1>1. Len(queue) \in Nat \ {0}
  BY EmptySeq, LenProperties
<1>2. /\ Tail(queue) \in Seq(Event) /\ Len(Tail(queue)) = Len(queue) - 1
      /\ \A i \in 1 .. Len(Tail(queue)) : Tail(queue)[i] = queue[i + 1]
  BY HeadTailProperties
<1>3. queue[1] \in Event /\ Head(queue) = queue[1]
  BY <1>1, ElementOfSeq
<1> QED BY <1>1, <1>2, <1>3 DEF Posted, Signal

\* The signals of a frame pair.
PairSignals(k) ==
  << [kind |-> "row", pair |-> k] >> \o
  IF k % Stride = 0
  THEN << [kind |-> "frame", stream |-> "a", pair |-> k, mask |-> <<run, k>>],
          [kind |-> "frame", stream |-> "b", pair |-> k, mask |-> <<run, k>>],
          [kind |-> "stats", pair |-> k] >>
  ELSE <<>>

LEMMA PairSignalsFacts ==
  ASSUME NEW k \in PairIndexes, run \in Runs1
  PROVE  /\ PairSignals(k) \in Seq(Event)
         /\ PairSignals(k)[1] = [kind |-> "row", pair |-> k]
         /\ k % Stride # 0 => Len(PairSignals(k)) = 1
         /\ k % Stride = 0 =>
              /\ Len(PairSignals(k)) = 4
              /\ PairSignals(k)[2] = [kind |-> "frame", stream |-> "a", pair |-> k, mask |-> <<run, k>>]
              /\ PairSignals(k)[3] = [kind |-> "frame", stream |-> "b", pair |-> k, mask |-> <<run, k>>]
              /\ PairSignals(k)[4] = [kind |-> "stats", pair |-> k]
<1> DEFINE row == [kind |-> "row", pair |-> k]
           fa == [kind |-> "frame", stream |-> "a", pair |-> k, mask |-> <<run, k>>]
           fb == [kind |-> "frame", stream |-> "b", pair |-> k, mask |-> <<run, k>>]
           st == [kind |-> "stats", pair |-> k]
<1>1. row \in Event /\ st \in Event
  BY DEF Event
<1>2. fa \in Event /\ fb \in Event
  BY DEF Event, FrameIds, Streams
<1> HIDE DEF row, fa, fb, st
<1>3. /\ << row >> \in Seq(Event) /\ Len(<< row >>) = 1 /\ << row >>[1] = row
      /\ <<>> \in Seq(Event) /\ Len(<<>>) = 0
  BY <1>1
<1>4. /\ << fa, fb, st >> \in Seq(Event) /\ Len(<< fa, fb, st >>) = 3
      /\ << fa, fb, st >>[1] = fa /\ << fa, fb, st >>[2] = fb /\ << fa, fb, st >>[3] = st
  BY <1>1, <1>2
<1>5. CASE k % Stride = 0
  <2>1. PairSignals(k) = << row >> \o << fa, fb, st >>
    BY <1>5 DEF PairSignals, row, fa, fb, st
  <2> HIDE DEF PairSignals
  <2> DEFINE tail == << fa, fb, st >>
  <2> HIDE DEF tail
  <2>2. /\ PairSignals(k) \in Seq(Event) /\ Len(PairSignals(k)) = 4
        /\ \A i \in 1 .. 4 : PairSignals(k)[i] = IF i <= 1 THEN << row >>[i] ELSE tail[i - 1]
    BY <2>1, <1>3, <1>4, ConcatProperties DEF tail
  <2>3. /\ PairSignals(k)[1] = << row >>[1] /\ PairSignals(k)[2] = tail[1]
        /\ PairSignals(k)[3] = tail[2] /\ PairSignals(k)[4] = tail[3]
    BY <2>2
  <2> QED BY <2>2, <2>3, <1>3, <1>4, <1>5 DEF tail, row, fa, fb, st
<1>6. CASE k % Stride # 0
  <2>1. PairSignals(k) = << row >> \o <<>>
    BY <1>6 DEF PairSignals, row
  <2>2. PairSignals(k) = << row >>
    BY <2>1, <1>3, ConcatEmptySeq
  <2> QED BY <2>2, <1>3, <1>6 DEF row
<1> QED BY <1>5, <1>6

LEMMA NothingPosted ==
  ASSUME queue \in Seq(Event)
  PROVE  Posted \in Nat /\ (Posted = 0 <=> queue = <<>>)
BY EmptySeq, LenProperties DEF Posted

\* What the types say of the run in progress.
LEMMA RunFacts ==
  ASSUME TypeOK, RunInv, thread # "none"
  PROVE  /\ run \in Runs1 /\ run \in Nat /\ run > 0 /\ MaxRuns \in Nat
         /\ rows[run] \in Seq(Samples) /\ Len(rows[run]) \in Nat
         /\ queue \in Seq(Event) /\ Posted \in Nat
         /\ view.seen \in Nat
         /\ Stride \in Nat \ {0}
<1>1. /\ run \in Runs1 /\ run \in Nat /\ run > 0 /\ MaxRuns \in Nat
      /\ Stride \in Nat \ {0}
  BY ViewAssumption DEF TypeOK, RunInv, Runs1
<1>2. view.seen \in Nat
  BY DEF TypeOK, ViewType
<1>3. rows[run] \in Seq(Samples) /\ queue \in Seq(Event)
  BY <1>1 DEF TypeOK
<1> QED BY <1>1, <1>2, <1>3, LenProperties, NothingPosted

-----------------------------------------------------------------------------
(* The order of the signals.                                                *)

\* While nothing is on its way there is nothing to order.
LEMMA QueueEmpty ==
  ASSUME ViewInv, Opens \/ Start
  PROVE  QueueInv'
<1>1. queue \in Seq(Event) /\ queue' = queue /\ Posted = 0
  <2>1. queue \in Seq(Event) /\ queue' = queue
    BY DEF ViewInv, TypeOK, Opens, Start
  <2>2. Posted = 0
    BY <2>1, NothingPosted DEF ViewInv, TypeOK, RunInv, Opens, Start
  <2> QED BY <2>1, <2>2
<1>2. Posted' = 0
  BY <1>1 DEF Posted
<1> QED BY <1>2 DEF QueueInv

\* Only a picture that cannot be drawn makes a pair undrawn.
LEMMA UndrawnSame ==
  ASSUME TypeOK, UNCHANGED <<run, rows>>,
         \/ pictures' = pictures
         \/ run \in Runs1 /\ \E p : \/ pictures' = [pictures EXCEPT ![run].periodic = p]
                                   \/ pictures' = [pictures EXCEPT ![run].debug = p]
  PROVE  /\ pictures'[run].undrawn = pictures[run].undrawn
         /\ \A k : Undrawn(k)' <=> Undrawn(k)
<1>1. pictures'[run].undrawn = pictures[run].undrawn
  <2>1. CASE pictures' = pictures
    BY <2>1
  <2>2. ASSUME run \in Runs1, NEW p,
               \/ pictures' = [pictures EXCEPT ![run].periodic = p]
               \/ pictures' = [pictures EXCEPT ![run].debug = p]
        PROVE  pictures'[run].undrawn = pictures[run].undrawn
    BY <2>2 DEF TypeOK, PictureFiles
  <2> QED BY <2>1, <2>2
<1> QED BY <1>1 DEF Undrawn

LEMMA QueueSame ==
  ASSUME ViewInv, ClickSaveDebug \/ ClickExport \/ UNCHANGED vars
  PROVE  QueueInv'
<1>1. UNCHANGED <<run, thread, rows, queue, view>>
  BY DEF ClickSaveDebug, ClickExport, vars
<1>2. \A k : Undrawn(k)' <=> Undrawn(k)
  <2>1. TypeOK /\ (ClickSaveDebug => run \in Runs1)
    BY ViewAssumption DEF ViewInv, TypeOK, ClickSaveDebug, Runs1
  <2>2. pictures' = pictures \/ (run \in Runs1 /\ \E p : pictures' = [pictures EXCEPT ![run].debug = p])
    BY <2>1 DEF ClickSaveDebug, SaveDebugImages, ClickExport, vars
  <2> QED BY <1>1, <2>1, <2>2, UndrawnSame
<1>3. ASSUME NEW e
      PROVE  /\ SignalRight(e)' <=> SignalRight(e)
             /\ \A f : Follows(e, f)' <=> Follows(e, f)
  BY <1>1, <1>2 DEF SignalRight, Follows, PairDone, Ending, Closing
<1>4. Posted' = Posted /\ \A i : Signal(i)' = Signal(i)
  BY <1>1 DEF Posted, Signal
<1>5. \A i \in 1 .. Posted' :
        /\ SignalRight(Signal(i))'
        /\ i < Posted' => Follows(Signal(i), Signal(i + 1))'
  <2>1. ASSUME NEW i \in 1 .. Posted
        PROVE  /\ SignalRight(Signal(i))
               /\ i < Posted => Follows(Signal(i), Signal(i + 1))
    BY DEF ViewInv, QueueInv
  <2> QED BY <1>1, <1>2, <1>4, <2>1 DEF SignalRight, Follows, PairDone, Ending, Closing
<1>6. \A i \in 1 .. Posted' :
        Ending(Signal(i))' => thread' \in {"closing", "gone"} /\ \A j \in i + 1 .. Posted' : Closing(Signal(j))'
  BY <1>1, <1>4 DEF ViewInv, QueueInv, Ending, Closing
<1>7. Posted' # 0 => LastPosted(Signal(Posted))' /\ UpToDate(Signal(1))'
  BY <1>1, <1>4 DEF ViewInv, QueueInv, LastPosted, PairDone, UpToDate, SameFrames, Signal, Posted
<1> QED BY <1>5, <1>6, <1>7 DEF QueueInv

(* What the thread posts at the end: one signal or two, e1 and e2.          *)
EndSignals(m, e1, e2) ==
  /\ Ending(e1)
  /\ m = 2 => e1.kind \in {"finished", "error"} /\ Closing(e2)
  /\ thread = "closing" => thread' = "gone" /\ Closing(e1)
  /\ thread # "closing" => thread' = "closing" /\ e1.kind = "finished"
  /\ thread' = "gone" => IF m = 2 THEN e2.kind = "done" ELSE e1.kind = "done"
  /\ thread' = "closing" => IF m = 2 THEN e2.kind = "error" ELSE e1.kind = "finished"

LEMMA EndsWith ==
  ASSUME queue \in Seq(Event), LoopEnds \/ Raises \/ Closes
  PROVE  \E m \in {1, 2} : \E e1, e2 :
           /\ EndSignals(m, e1, e2)
           /\ queue' \in Seq(Event)
           /\ Posted \in Nat /\ Posted' \in Nat /\ Posted' = Posted + m
           /\ \A i \in 1 .. Posted + m :
                Signal(i)' = IF i <= Posted THEN Signal(i) ELSE IF i = Posted + 1 THEN e1 ELSE e2
<1>1. ASSUME NEW m \in {1, 2}, NEW events \in Seq(Event), Len(events) = m, Emit(events),
             EndSignals(m, events[1], events[2])
      PROVE  \E e1, e2 :
               /\ EndSignals(m, e1, e2)
               /\ queue' \in Seq(Event)
               /\ Posted \in Nat /\ Posted' \in Nat /\ Posted' = Posted + m
               /\ \A i \in 1 .. Posted + m :
                    Signal(i)' = IF i <= Posted THEN Signal(i) ELSE IF i = Posted + 1 THEN e1 ELSE e2
  <2>1. /\ queue' \in Seq(Event)
        /\ Posted \in Nat /\ Posted' \in Nat /\ Posted' = Posted + m
        /\ \A i \in 1 .. Posted + m :
              Signal(i)' = IF i <= Posted THEN Signal(i) ELSE events[i - Posted]
    BY <1>1, Posting
  <2>2. ASSUME NEW i \in 1 .. Posted + m
        PROVE  Signal(i)' = IF i <= Posted THEN Signal(i)
                            ELSE IF i = Posted + 1 THEN events[1] ELSE events[2]
    <3>1. CASE i <= Posted
      BY <2>1, <3>1
    <3>2. CASE i > Posted
      <4>1. i - Posted = 1 \/ (i - Posted = 2 /\ i # Posted + 1)
        BY <2>1, <3>2
      <4>2. Signal(i)' = events[i - Posted]
        BY <2>1, <3>2
      <4> QED BY <2>1, <3>2, <4>1, <4>2
    <3> QED BY <2>1, <3>1, <3>2
  <2> QED BY <1>1, <2>1, <2>2
<1>2. CASE LoopEnds
  <2> DEFINE ev == << [kind |-> "finished"] >>
  <2>1. ev \in Seq(Event) /\ Len(ev) = 1 /\ ev[1].kind = "finished" /\ Emit(ev)
    BY <1>2 DEF Event, LoopEnds
  <2> HIDE DEF ev
  <2>2. EndSignals(1, ev[1], ev[2])
    BY <1>2, <2>1 DEF EndSignals, LoopEnds, Ending, Closing
  <2> QED BY <1>1, <2>1, <2>2
<1>3. CASE Raises
  <2> DEFINE ev == << [kind |-> "finished"], [kind |-> "error"] >>
  <2>1. /\ ev \in Seq(Event) /\ Len(ev) = 2 /\ Emit(ev)
        /\ ev[1].kind = "finished" /\ ev[2].kind = "error"
    BY <1>3 DEF Event, ExceptEvents, Raises
  <2> HIDE DEF ev
  <2>2. EndSignals(2, ev[1], ev[2])
    BY <1>3, <2>1 DEF EndSignals, Raises, Ending, Closing
  <2> QED BY <1>1, <2>1, <2>2
<1>4. CASE Closes
  <2>1. PICK failures \in {<<>>, << [kind |-> "error"] >>} : Emit(failures \o << [kind |-> "done"] >>)
    BY <1>4 DEF Closes
  <2>2. << [kind |-> "done"] >> \in Seq(Event) /\ << [kind |-> "error"] >> \in Seq(Event)
    BY DEF Event
  <2> DEFINE ev == failures \o << [kind |-> "done"] >>
  <2>3. CASE failures = <<>>
    <3>1. ev = << [kind |-> "done"] >>
      BY <2>2, <2>3, ConcatEmptySeq
    <3>2. ev \in Seq(Event) /\ Len(ev) = 1 /\ ev[1].kind = "done" /\ Emit(ev)
      <4>1. Emit(ev)
        BY <2>1
      <4> HIDE DEF ev
      <4> QED BY <4>1, <3>1, <2>2
    <3> HIDE DEF ev
    <3>3. EndSignals(1, ev[1], ev[2])
      BY <1>4, <3>2 DEF EndSignals, Closes, Ending, Closing
    <3> QED BY <1>1, <3>2, <3>3
  <2>4. CASE failures = << [kind |-> "error"] >>
    <3>1. /\ ev \in Seq(Event) /\ Len(ev) = 2
          /\ \A i \in 1 .. 2 : ev[i] = IF i <= 1 THEN failures[i] ELSE << [kind |-> "done"] >>[i - 1]
      BY <2>2, <2>4, ConcatProperties
    <3>2. Emit(ev)
      BY <2>1
    <3> HIDE DEF ev
    <3>3. ev[1] = [kind |-> "error"] /\ ev[2] = [kind |-> "done"]
      BY <3>1, <2>4
    <3>4. EndSignals(2, ev[1], ev[2])
      BY <1>4, <3>3 DEF EndSignals, Closes, Ending, Closing
    <3> QED BY <1>1, <3>1, <3>2, <3>4
  <2> QED BY <2>1, <2>3, <2>4
<1> QED BY <1>2, <1>3, <1>4

(* Signals of the end are posted after the last row's, and after each other. *)
LEMMA QueueEnd ==
  ASSUME ViewInv, LoopEnds \/ Raises \/ Closes
  PROVE  QueueInv'
<1>1. /\ UNCHANGED <<run, rows, view, pictures>> /\ thread' \in {"closing", "gone"}
      /\ thread \in {"opening", "running", "closing"}
      /\ queue \in Seq(Event) /\ run > 0
  BY RunFacts DEF ViewInv, LoopEnds, Raises, Closes
<1>2. PICK m \in {1, 2} : \E e1, e2 :
         /\ EndSignals(m, e1, e2)
         /\ queue' \in Seq(Event)
         /\ Posted \in Nat /\ Posted' \in Nat /\ Posted' = Posted + m
         /\ \A i \in 1 .. Posted + m :
              Signal(i)' = IF i <= Posted THEN Signal(i) ELSE IF i = Posted + 1 THEN e1 ELSE e2
  BY <1>1, EndsWith
<1>3. PICK e1, e2 :
         /\ EndSignals(m, e1, e2)
         /\ Posted \in Nat /\ Posted' \in Nat /\ Posted' = Posted + m
         /\ \A i \in 1 .. Posted + m :
              Signal(i)' = IF i <= Posted THEN Signal(i) ELSE IF i = Posted + 1 THEN e1 ELSE e2
  BY <1>2
<1>4. /\ Ending(e1) /\ (m = 2 => Ending(e2) /\ Closing(e2))
      /\ thread = "closing" => Closing(e1)
  BY <1>3 DEF EndSignals, Ending, Closing
<1>5. ASSUME NEW e PROVE Ending(e)' <=> Ending(e)
  BY DEF Ending
<1>6. ASSUME NEW i \in 1 .. Posted + m
      PROVE  /\ SignalRight(Signal(i))'
             /\ Ending(Signal(i)') => \A j \in i + 1 .. Posted + m : Closing(Signal(j)')
  <2>1. CASE i <= Posted
    <3>1. Signal(i)' = Signal(i) /\ i \in 1 .. Posted
      BY <1>3, <2>1
    <3>2. /\ SignalRight(Signal(i))
          /\ Ending(Signal(i)) => thread = "closing" /\ \A j \in i + 1 .. Posted : Closing(Signal(j))
      BY <3>1, <1>1 DEF ViewInv, QueueInv
    <3>3. SignalRight(Signal(i))'
      BY <3>1, <3>2, <1>1 DEF SignalRight, Undrawn
    <3>4. ASSUME Ending(Signal(i)'), NEW j \in i + 1 .. Posted + m PROVE Closing(Signal(j)')
      <4>1. thread = "closing" /\ \A l \in i + 1 .. Posted : Closing(Signal(l))
        BY <3>1, <3>2, <3>4
      <4>2. Closing(e1) /\ (m = 2 => Closing(e2))
        BY <4>1, <1>4
      <4> QED BY <4>1, <4>2, <1>3, <3>1
    <3> QED BY <3>3, <3>4
  <2>2. CASE i > Posted
    <3>1. (Signal(i)' = e1 \/ (m = 2 /\ Signal(i)' = e2))
      BY <1>3, <2>2
    <3>2. Ending(Signal(i)')
      BY <3>1, <1>4
    <3>3. SignalRight(Signal(i))'
      BY <3>2 DEF SignalRight, Ending
    <3>4. ASSUME NEW j \in i + 1 .. Posted + m PROVE Closing(Signal(j)')
      BY <2>2, <1>3, <1>4
    <3> QED BY <3>3, <3>4
  <2> QED BY <2>1, <2>2, <1>3
<1>7. ASSUME NEW i \in 1 .. Posted + m, i < Posted + m
      PROVE  Follows(Signal(i), Signal(i + 1))'
  <2>1. i + 1 \in 1 .. Posted + m
    BY <1>3, <1>7
  <2>2. CASE i < Posted
    <3>1. /\ Signal(i)' = Signal(i) /\ Signal(i + 1)' = Signal(i + 1)
          /\ Follows(Signal(i), Signal(i + 1))
      BY <2>1, <2>2, <1>3 DEF ViewInv, QueueInv
    <3> QED BY <3>1, <1>1 DEF Follows, Undrawn, PairDone, Ending, Closing
  <2>3. CASE i = Posted
    <3>1. LastPosted(Signal(i)) /\ Signal(i)' = Signal(i) /\ Signal(i + 1)' = e1
      BY <2>1, <2>3, <1>3 DEF ViewInv, QueueInv
    <3>2. CASE thread = "running"
      <4>1. PairDone(Signal(i)) /\ Signal(i).pair = Len(rows[run]) - 1
        BY <3>1, <3>2 DEF LastPosted
      <4>2. PairDone(Signal(i))'
        BY <4>1, <3>1 DEF PairDone
      <4> QED BY <4>1, <4>2, <3>1, <1>1, <1>4, <1>5 DEF Follows
    <3>3. CASE thread = "closing"
      <4>1. Signal(i).kind \in {"finished", "error"} /\ Closing(e1)
        BY <3>1, <3>3, <1>4 DEF LastPosted
      <4> QED BY <4>1, <3>1 DEF Follows, Closing
    <3> QED BY <3>1, <3>2, <3>3, <1>1 DEF LastPosted
  <2>4. CASE i > Posted
    <3>1. Signal(i)' = e1 /\ Signal(i + 1)' = e2 /\ m = 2
      BY <1>7, <2>1, <2>4, <1>3
    <3> QED BY <3>1, <1>3 DEF Follows, EndSignals, Closing
  <2> QED BY <2>2, <2>3, <2>4, <1>3
<1>8. LastPosted(Signal(Posted))'
  <2>1. Signal(Posted)' = IF m = 1 THEN e1 ELSE e2
    <3>1. \A i : i = Posted' => Signal(i)' = IF m = 1 THEN e1 ELSE e2
      BY <1>3
    <3> QED BY <3>1
  <2> QED BY <2>1, <1>3, <1>1 DEF EndSignals, LastPosted
<1>9. UpToDate(Signal(1))'
  <2>1. CASE Posted = 0
    <3>1. Signal(1)' = e1
      BY <2>1, <1>3
    <3>2. view.seen = Len(rows[run]) /\ SameFrames
      BY <2>1, <1>1 DEF ViewInv, RunInv
    <3>3. SameFrames'
      BY <3>2, <1>1 DEF SameFrames
    <3> QED BY <3>1, <3>2, <3>3, <1>1, <1>4 DEF UpToDate, Ending
  <2>2. CASE Posted # 0
    <3>1. Signal(1)' = Signal(1) /\ UpToDate(Signal(1))
      BY <2>2, <1>3 DEF ViewInv, QueueInv
    <3> QED BY <3>1, <1>1 DEF UpToDate, SameFrames
  <2> QED BY <2>1, <2>2
<1>10. \A i \in 1 .. Posted' :
         /\ SignalRight(Signal(i))'
         /\ Ending(Signal(i))' => thread' \in {"closing", "gone"} /\ \A j \in i + 1 .. Posted' : Closing(Signal(j))'
         /\ i < Posted' => Follows(Signal(i), Signal(i + 1))'
  <2>1. Posted' = Posted + m
    BY <1>3
  <2>2. \A e : (Ending(e)' <=> Ending(e)) /\ (Closing(e)' <=> Closing(e))
    BY DEF Ending, Closing
  <2> QED BY <2>1, <2>2, <1>1, <1>6, <1>7 DEF Ending, Closing
<1> QED BY <1>8, <1>9, <1>10 DEF QueueInv

(* A frame pair's signals, by their place in the queue.                     *)
LEMMA PairPosted ==
  ASSUME ViewInv, NEW s \in Samples, ProcessPair(s),
         NEW k, k = Len(rows[run])
  PROVE  /\ k \in PairIndexes /\ k \in Nat /\ thread = "running"
         /\ run \in Runs1 /\ Stride \in Nat \ {0}
         /\ queue' \in Seq(Event) /\ Posted \in Nat /\ Posted' \in Nat
         /\ rows[run] \in Seq(Samples) /\ rows' = [rows EXCEPT ![run] = Append(rows[run], s)]
         /\ rows' \in [Runs1 -> Seq(Samples)] /\ Len(rows'[run]) = k + 1
         /\ UNCHANGED <<run, thread, view, running, lastRows, csvs>>
         /\ Posted' = Posted + IF k % Stride = 0 THEN 4 ELSE 1
         /\ \A i \in 1 .. Posted : Signal(i)' = Signal(i)
         /\ \A i \in 1 .. Posted' :
              /\ i = Posted + 1 => Signal(i)' = [kind |-> "row", pair |-> k]
              /\ i = Posted + 2 => Signal(i)' = [kind |-> "frame", stream |-> "a", pair |-> k, mask |-> <<run, k>>]
              /\ i = Posted + 3 => Signal(i)' = [kind |-> "frame", stream |-> "b", pair |-> k, mask |-> <<run, k>>]
              /\ i = Posted + 4 => Signal(i)' = [kind |-> "stats", pair |-> k]
<1>1. thread = "running" /\ UNCHANGED <<run, thread, view, running, lastRows, csvs>> /\ k < MaxPairs
  BY DEF ProcessPair
<1>2. /\ run \in Runs1 /\ rows[run] \in Seq(Samples) /\ k \in Nat /\ queue \in Seq(Event)
      /\ Stride \in Nat \ {0} /\ MaxPairs \in Nat /\ rows \in [Runs1 -> Seq(Samples)]
  BY <1>1, RunFacts, ViewAssumption DEF ViewInv, TypeOK
<1>3. k \in PairIndexes
  BY <1>1, <1>2 DEF PairIndexes
<1>4. /\ rows' = [rows EXCEPT ![run] = Append(rows[run], s)]
      /\ rows' \in [Runs1 -> Seq(Samples)] /\ Len(rows'[run]) = k + 1
  <2>1. rows' = [rows EXCEPT ![run] = Append(rows[run], s)]
    BY DEF ProcessPair
  <2>2. Append(rows[run], s) \in Seq(Samples) /\ Len(Append(rows[run], s)) = k + 1
    BY <1>2
  <2> QED BY <2>1, <2>2, <1>2
<1>5. Emit(PairSignals(k))
  BY DEF ProcessPair, PairSignals
<1>6. PICK m \in {1, 4} : m = (IF k % Stride = 0 THEN 4 ELSE 1)
  OBVIOUS
<1>7. PairSignals(k) \in Seq(Event) /\ Len(PairSignals(k)) = m
  BY <1>2, <1>3, <1>6, PairSignalsFacts
<1>8. /\ queue' \in Seq(Event)
      /\ Posted \in Nat /\ Posted' \in Nat /\ Posted' = Posted + m
      /\ \A i \in 1 .. Posted + m :
           Signal(i)' = IF i <= Posted THEN Signal(i) ELSE PairSignals(k)[i - Posted]
  BY <1>2, <1>5, <1>7, Posting
<1>9. /\ PairSignals(k)[1] = [kind |-> "row", pair |-> k]
      /\ m = 4 =>
           /\ PairSignals(k)[2] = [kind |-> "frame", stream |-> "a", pair |-> k, mask |-> <<run, k>>]
           /\ PairSignals(k)[3] = [kind |-> "frame", stream |-> "b", pair |-> k, mask |-> <<run, k>>]
           /\ PairSignals(k)[4] = [kind |-> "stats", pair |-> k]
  BY <1>2, <1>3, <1>6, PairSignalsFacts
<1>10. ASSUME NEW i \in 1 .. Posted'
       PROVE  /\ i <= Posted => Signal(i)' = Signal(i)
              /\ i = Posted + 1 => Signal(i)' = PairSignals(k)[1]
              /\ i = Posted + 2 => m = 4 /\ Signal(i)' = PairSignals(k)[2]
              /\ i = Posted + 3 => m = 4 /\ Signal(i)' = PairSignals(k)[3]
              /\ i = Posted + 4 => m = 4 /\ Signal(i)' = PairSignals(k)[4]
  <2>1. i \in 1 .. Posted + m
    BY <1>8
  <2>2. ASSUME NEW j \in 1 .. 4, i = Posted + j
        PROVE  j <= m /\ Signal(i)' = PairSignals(k)[j]
    <3>1. j <= m /\ i - Posted = j /\ ~(i <= Posted)
      BY <1>8, <2>1, <2>2
    <3> QED BY <1>8, <2>1, <3>1
  <2> QED BY <1>8, <2>1, <2>2
<1> HIDE DEF PairSignals
<1>11. \A i \in 1 .. Posted : Signal(i)' = Signal(i)
  BY <1>8, <1>10
<1>12. \A i \in 1 .. Posted' :
              /\ i = Posted + 1 => Signal(i)' = [kind |-> "row", pair |-> k]
              /\ i = Posted + 2 => Signal(i)' = [kind |-> "frame", stream |-> "a", pair |-> k, mask |-> <<run, k>>]
              /\ i = Posted + 3 => Signal(i)' = [kind |-> "frame", stream |-> "b", pair |-> k, mask |-> <<run, k>>]
              /\ i = Posted + 4 => Signal(i)' = [kind |-> "stats", pair |-> k]
  BY <1>9, <1>10
<1> QED BY <1>1, <1>2, <1>3, <1>4, <1>6, <1>8, <1>11, <1>12

\* As long as the thread reads frame pairs, all of them were drawn.
LEMMA AllDrawn ==
  ASSUME ViewInv, NEW s \in Samples, ProcessPair(s)
  PROVE  /\ pictures[run].undrawn = FALSE /\ pictures'[run].undrawn = FALSE
         /\ \A j : ~Undrawn(j) /\ ~Undrawn(j)'
<1>1. thread = "running" /\ run' = run /\ run \in Runs1 /\ run > 0
  BY RunFacts DEF ViewInv, ProcessPair
<1>2. pictures \in [Runs1 -> PictureFiles] /\ pictures[run] \in PictureFiles
  BY <1>1 DEF ViewInv, TypeOK
<1>3. pictures[run].undrawn = FALSE
  <2>1. ~pictures[run].undrawn
    BY <1>1 DEF ViewInv, RunInv
  <2> QED BY <1>2, <2>1 DEF PictureFiles
<1>4. pictures'[run].undrawn = pictures[run].undrawn
  <2>1. pictures' = pictures \/ \E p : pictures' = [pictures EXCEPT ![run].outlier = p]
    BY DEF ProcessPair
  <2> QED BY <1>1, <1>2, <2>1 DEF PictureFiles
<1> QED BY <1>1, <1>3, <1>4 DEF Undrawn

(* A pair's signals come after those of the pair before it.                 *)
LEMMA QueuePair ==
  ASSUME ViewInv, NEW s \in Samples, ProcessPair(s)
  PROVE  QueueInv'
<1>1. PICK k : k = Len(rows[run])
  OBVIOUS
<1>2. /\ k \in Nat /\ thread = "running" /\ run \in Runs1
      /\ Posted \in Nat /\ Posted' \in Nat
      /\ Len(rows'[run]) = k + 1
      /\ UNCHANGED <<run, thread, view>>
      /\ Posted' = Posted + IF k % Stride = 0 THEN 4 ELSE 1
      /\ \A i \in 1 .. Posted : Signal(i)' = Signal(i)
      /\ \A j : ~Undrawn(j) /\ ~Undrawn(j)'
  BY <1>1, PairPosted, AllDrawn
<1>3. PICK row, fa, fb, st :
        /\ \A i \in 1 .. Posted' :
             /\ i = Posted + 1 => Signal(i)' = row
             /\ i = Posted + 2 => Signal(i)' = fa
             /\ i = Posted + 3 => Signal(i)' = fb
             /\ i = Posted + 4 => Signal(i)' = st
        /\ row.kind = "row" /\ row.pair = k
        /\ fa.kind = "frame" /\ fa.stream = "a" /\ fa.pair = k /\ fa.mask = <<run, k>>
        /\ fb.kind = "frame" /\ fb.stream = "b" /\ fb.pair = k /\ fb.mask = <<run, k>>
        /\ st.kind = "stats" /\ st.pair = k
  <2>1. \A i \in 1 .. Posted' :
          /\ i = Posted + 1 => Signal(i)' = [kind |-> "row", pair |-> k]
          /\ i = Posted + 2 => Signal(i)' = [kind |-> "frame", stream |-> "a", pair |-> k, mask |-> <<run, k>>]
          /\ i = Posted + 3 => Signal(i)' = [kind |-> "frame", stream |-> "b", pair |-> k, mask |-> <<run, k>>]
          /\ i = Posted + 4 => Signal(i)' = [kind |-> "stats", pair |-> k]
    BY <1>1, PairPosted
  <2>2. PICK row, fa, fb, st :
          /\ row = [kind |-> "row", pair |-> k]
          /\ fa = [kind |-> "frame", stream |-> "a", pair |-> k, mask |-> <<run, k>>]
          /\ fb = [kind |-> "frame", stream |-> "b", pair |-> k, mask |-> <<run, k>>]
          /\ st = [kind |-> "stats", pair |-> k]
    OBVIOUS
  <2>3. /\ row.kind = "row" /\ row.pair = k
        /\ fa.kind = "frame" /\ fa.stream = "a" /\ fa.pair = k /\ fa.mask = <<run, k>>
        /\ fb.kind = "frame" /\ fb.stream = "b" /\ fb.pair = k /\ fb.mask = <<run, k>>
        /\ st.kind = "stats" /\ st.pair = k
    BY <2>2
  <2>4. \A i \in 1 .. Posted' :
          /\ i = Posted + 1 => Signal(i)' = row
          /\ i = Posted + 2 => Signal(i)' = fa
          /\ i = Posted + 3 => Signal(i)' = fb
          /\ i = Posted + 4 => Signal(i)' = st
    BY <2>1, <2>2
  <2> QED BY <2>3, <2>4
<1>4. \A i \in 1 .. Posted : ~Ending(Signal(i)) /\ SignalRight(Signal(i))
  BY <1>2 DEF ViewInv, QueueInv
<1>5. /\ ~Ending(row) /\ ~Ending(fa) /\ ~Ending(fb) /\ ~Ending(st)
      /\ SignalRight(row)'
      /\ k % Stride = 0 => SignalRight(fa)' /\ SignalRight(fb)' /\ SignalRight(st)'
  <2>1. k \in 0 .. Len(rows'[run']) - 1
    BY <1>2
  <2> QED BY <1>2, <1>3, <2>1 DEF Ending, SignalRight, Streams
<1>6. ASSUME NEW e, SignalRight(e), ~Ending(e)
      PROVE  SignalRight(e)'
  <2>1. e.pair \in 0 .. k - 1 => e.pair \in 0 .. Len(rows'[run']) - 1
    BY <1>2
  <2> QED BY <1>6, <1>1, <1>2, <2>1 DEF SignalRight, Ending
<1>7. ASSUME NEW i \in 1 .. Posted', i > Posted
      PROVE  \/ i = Posted + 1 /\ Signal(i)' = row
             \/ i = Posted + 2 /\ k % Stride = 0 /\ Signal(i)' = fa
             \/ i = Posted + 3 /\ k % Stride = 0 /\ Signal(i)' = fb
             \/ i = Posted + 4 /\ k % Stride = 0 /\ Signal(i)' = st
  <2>1. i = Posted + 1 \/ (k % Stride = 0 /\ (i = Posted + 2 \/ i = Posted + 3 \/ i = Posted + 4))
    BY <1>2, <1>7
  <2> QED BY <2>1, <1>3
<1>8. ASSUME NEW i \in 1 .. Posted'
      PROVE  SignalRight(Signal(i))' /\ ~Ending(Signal(i)')
  <2>1. CASE i <= Posted
    <3>1. Signal(i)' = Signal(i) /\ SignalRight(Signal(i)) /\ ~Ending(Signal(i))
      BY <2>1, <1>2, <1>4
    <3>2. \A e : e = Signal(i) => SignalRight(e)'
      BY <3>1, <1>6
    <3>3. \A e : e = Signal(i)' => SignalRight(e)'
      BY <3>1, <3>2
    <3> QED BY <3>1, <3>3 DEF SignalRight
  <2>2. CASE i > Posted
    <3>1. \A e : e = Signal(i)' => SignalRight(e)' /\ ~Ending(e)
      BY <2>2, <1>5, <1>7
    <3> QED BY <3>1 DEF SignalRight
  <2> QED BY <2>1, <2>2, <1>2
<1>9. ASSUME NEW i \in 1 .. Posted', i < Posted'
      PROVE  Follows(Signal(i), Signal(i + 1))'
  <2>1. i + 1 \in 1 .. Posted'
    BY <1>2, <1>9
  <2>2. CASE i < Posted
    <3>1. /\ Signal(i)' = Signal(i) /\ Signal(i + 1)' = Signal(i + 1)
          /\ Follows(Signal(i), Signal(i + 1)) /\ ~Ending(Signal(i + 1)) /\ ~Ending(Signal(i))
      BY <2>1, <2>2, <1>2, <1>4 DEF ViewInv, QueueInv
    <3>2. PairDone(Signal(i))' <=> PairDone(Signal(i))
      BY <3>1 DEF PairDone
    <3> QED BY <3>1, <3>2, <1>2 DEF Follows, Ending, Closing
  <2>3. CASE i = Posted
    <3>1. LastPosted(Signal(i)) /\ Signal(i)' = Signal(i)
      BY <2>3, <1>2 DEF ViewInv, QueueInv
    <3>2. Signal(i + 1)' = row
      BY <2>1, <2>3, <1>2, <1>3
    <3>3. PairDone(Signal(i)) /\ Signal(i).pair = k - 1
      BY <3>1, <1>1, <1>2 DEF LastPosted
    <3>4. PairDone(Signal(i))' /\ row.pair = Signal(i).pair + 1
      BY <3>1, <3>3, <1>2, <1>3 DEF PairDone
    <3> QED BY <3>1, <3>2, <3>4, <1>3 DEF Follows
  <2>4. CASE i > Posted
    <3>1. \/ i = Posted + 1 /\ Signal(i)' = row /\ Signal(i + 1)' = fa /\ k % Stride = 0
          \/ i = Posted + 2 /\ Signal(i)' = fa /\ Signal(i + 1)' = fb
          \/ i = Posted + 3 /\ Signal(i)' = fb /\ Signal(i + 1)' = st
      <4>1. k % Stride = 0 /\ (i = Posted + 1 \/ i = Posted + 2 \/ i = Posted + 3)
        BY <1>2, <1>9, <2>4
      <4>2. PICK j \in 1 .. Posted' : j = i + 1
        BY <2>1
      <4>3. /\ i = Posted + 1 => j = Posted + 2
            /\ i = Posted + 2 => j = Posted + 3
            /\ i = Posted + 3 => j = Posted + 4
        BY <4>2, <1>2
      <4>4. /\ i = Posted + 1 => Signal(i)' = row /\ Signal(j)' = fa
            /\ i = Posted + 2 => Signal(i)' = fa /\ Signal(j)' = fb
            /\ i = Posted + 3 => Signal(i)' = fb /\ Signal(j)' = st
        BY <4>3, <1>3
      <4>5. Signal(i + 1)' = Signal(j)'
        BY <4>2
      <4> QED BY <4>1, <4>4, <4>5
    <3> QED BY <3>1, <1>2, <1>3 DEF Follows
  <2> QED BY <2>2, <2>3, <2>4, <1>2
<1>10. LastPosted(Signal(Posted))'
  <2>1. CASE k % Stride = 0
    <3>1. \A i : i = Posted' => i \in 1 .. Posted' /\ i = Posted + 4
      BY <2>1, <1>2
    <3>2. Signal(Posted)' = st
      BY <3>1, <1>3
    <3> QED BY <3>2, <1>2, <1>3 DEF LastPosted, PairDone
  <2>2. CASE k % Stride # 0
    <3>1. \A i : i = Posted' => i \in 1 .. Posted' /\ i = Posted + 1
      BY <2>2, <1>2
    <3>2. Signal(Posted)' = row
      BY <3>1, <1>3
    <3> QED BY <3>2, <2>2, <1>2, <1>3 DEF LastPosted, PairDone
  <2> QED BY <2>1, <2>2
<1>11. UpToDate(Signal(1))'
  <2>1. CASE Posted = 0
    <3>1. 1 \in 1 .. Posted' /\ 1 = Posted + 1
      BY <2>1, <1>2
    <3>2. Signal(1)' = row
      BY <3>1, <1>3
    <3>3. view.seen = k /\ SameFrames
      BY <2>1, <1>1, <1>2, RunFacts DEF ViewInv, RunInv
    <3>4. SameFrames'
      BY <3>3, <1>2 DEF SameFrames
    <3> QED BY <3>2, <3>3, <3>4, <1>2, <1>3 DEF UpToDate
  <2>2. CASE Posted # 0
    <3>1. 1 \in 1 .. Posted
      BY <2>2, <1>2
    <3>2. Signal(1)' = Signal(1) /\ UpToDate(Signal(1)) /\ ~Ending(Signal(1)) /\ Signal(1) \in Event
      <4>1. Signal(1) \in Event
        BY <3>1, RunFacts, <1>2, ElementOfSeq DEF Posted, Signal, ViewInv
      <4> QED BY <3>1, <2>2, <4>1, <1>2, <1>4 DEF ViewInv, QueueInv
    <3>3. Signal(1).kind \in {"row", "frame", "stats"}
      BY <3>2 DEF Event, Ending
    <3> QED BY <3>2, <3>3, <1>2 DEF UpToDate, SameFrames
  <2> QED BY <2>1, <2>2
<1>12. \A i \in 1 .. Posted' :
         /\ SignalRight(Signal(i))' /\ ~Ending(Signal(i))'
         /\ i < Posted' => Follows(Signal(i), Signal(i + 1))'
  BY <1>8, <1>9 DEF Ending
<1> QED BY <1>10, <1>11, <1>12 DEF QueueInv

(* The signals of a pair that could not be drawn, by their place.           *)
LEMMA UndrawnPosted ==
  ASSUME ViewInv, NEW s \in Samples, DrawingRaises(s),
         NEW k, k = Len(rows[run])
  PROVE  /\ k \in PairIndexes /\ k \in Nat /\ thread = "running" /\ thread' = "closing"
         /\ run \in Runs1 /\ Stride \in Nat \ {0}
         /\ queue' \in Seq(Event) /\ Posted \in Nat /\ Posted' \in Nat /\ Posted' = Posted + 3
         /\ rows[run] \in Seq(Samples) /\ rows' = [rows EXCEPT ![run] = Append(rows[run], s)]
         /\ rows' \in [Runs1 -> Seq(Samples)] /\ Len(rows'[run]) = k + 1
         /\ UNCHANGED <<run, view, running, lastRows, csvs>>
         /\ pictures' = [pictures EXCEPT ![run].undrawn = TRUE]
         /\ pictures[run].undrawn = FALSE /\ pictures'[run].undrawn = TRUE
         /\ \A i \in 1 .. Posted : Signal(i)' = Signal(i)
         /\ \A i \in 1 .. Posted' :
              /\ i = Posted + 1 => Signal(i)' = [kind |-> "row", pair |-> k]
              /\ i = Posted + 2 => Signal(i)' = [kind |-> "finished"]
              /\ i = Posted + 3 => Signal(i)' = [kind |-> "error"]
<1>1. /\ thread = "running" /\ thread' = "closing"
      /\ UNCHANGED <<run, view, running, lastRows, csvs>> /\ k < MaxPairs
      /\ rows' = [rows EXCEPT ![run] = Append(rows[run], s)]
      /\ pictures' = [pictures EXCEPT ![run].undrawn = TRUE]
  BY DEF DrawingRaises
<1>2. /\ run \in Runs1 /\ run > 0 /\ rows[run] \in Seq(Samples) /\ k \in Nat /\ queue \in Seq(Event)
      /\ Stride \in Nat \ {0} /\ MaxPairs \in Nat /\ rows \in [Runs1 -> Seq(Samples)]
      /\ pictures \in [Runs1 -> PictureFiles]
  BY <1>1, RunFacts, ViewAssumption DEF ViewInv, TypeOK
<1>3. k \in PairIndexes
  BY <1>1, <1>2 DEF PairIndexes
<1>4. rows' \in [Runs1 -> Seq(Samples)] /\ Len(rows'[run]) = k + 1
  <2>1. Append(rows[run], s) \in Seq(Samples) /\ Len(Append(rows[run], s)) = k + 1
    BY <1>2
  <2> QED BY <2>1, <1>1, <1>2
<1>5. pictures[run].undrawn = FALSE /\ pictures'[run].undrawn = TRUE
  <2>1. pictures[run] \in PictureFiles /\ ~pictures[run].undrawn
    BY <1>1, <1>2 DEF ViewInv, RunInv
  <2> QED BY <2>1, <1>1, <1>2 DEF PictureFiles
<1> DEFINE row == [kind |-> "row", pair |-> k]
           start == << row >>
           end == << [kind |-> "finished"], [kind |-> "error"] >>
<1>6. row \in Event /\ [kind |-> "finished"] \in Event /\ [kind |-> "error"] \in Event
  BY <1>3 DEF Event
<1>7. Emit(start \o end)
  BY DEF DrawingRaises, ExceptEvents
<1> HIDE DEF row
<1>8. /\ start \in Seq(Event) /\ Len(start) = 1 /\ start[1] = row
      /\ end \in Seq(Event) /\ Len(end) = 2
      /\ end[1] = [kind |-> "finished"] /\ end[2] = [kind |-> "error"]
  BY <1>6
<1> HIDE DEF start, end
<1>9. PICK events : events = start \o end
  OBVIOUS
<1>10. /\ events \in Seq(Event) /\ Len(events) = 3
       /\ \A i \in 1 .. 3 : events[i] = IF i <= 1 THEN start[i] ELSE end[i - 1]
  <2>1. start \in Seq(Event) /\ end \in Seq(Event)
    BY <1>8
  <2>2. /\ events \in Seq(Event) /\ Len(events) = Len(start) + Len(end)
        /\ \A i \in 1 .. Len(start) + Len(end) :
             events[i] = IF i <= Len(start) THEN start[i] ELSE end[i - Len(start)]
    BY <2>1, <1>9, ConcatProperties
  <2>3. Len(start) = 1 /\ Len(end) = 2
    BY <1>8
  <2> QED BY <2>2, <2>3
<1>11. events[1] = row /\ events[2] = [kind |-> "finished"] /\ events[3] = [kind |-> "error"]
  BY <1>8, <1>10
<1>12. /\ queue' \in Seq(Event)
       /\ Posted \in Nat /\ Posted' \in Nat /\ Posted' = Posted + 3
       /\ \A i \in 1 .. Posted + 3 :
            Signal(i)' = IF i <= Posted THEN Signal(i) ELSE events[i - Posted]
  <2>1. Emit(events)
    BY <1>7, <1>9
  <2> QED BY <1>2, <1>10, <2>1, Posting
<1>13. \A i \in 1 .. Posted : Signal(i)' = Signal(i)
  BY <1>12
<1>14. ASSUME NEW i \in 1 .. Posted', NEW j \in 1 .. 3, i = Posted + j
       PROVE  Signal(i)' = events[j]
  <2>1. i - Posted = j /\ ~(i <= Posted) /\ i \in 1 .. Posted + 3
    BY <1>12, <1>14
  <2> QED BY <1>12, <2>1
<1>15. \A i \in 1 .. Posted' :
              /\ i = Posted + 1 => Signal(i)' = row
              /\ i = Posted + 2 => Signal(i)' = [kind |-> "finished"]
              /\ i = Posted + 3 => Signal(i)' = [kind |-> "error"]
  BY <1>11, <1>14
<1> QED BY <1>1, <1>2, <1>3, <1>4, <1>5, <1>12, <1>13, <1>15 DEF row

(* Its row comes after the pair before it, and the end right after its row. *)
LEMMA QueueUndrawn ==
  ASSUME ViewInv, NEW s \in Samples, DrawingRaises(s)
  PROVE  QueueInv'
<1>1. PICK k : k = Len(rows[run])
  OBVIOUS
<1>2. /\ k \in Nat /\ thread = "running" /\ thread' = "closing" /\ run \in Runs1 /\ run' = run
      /\ Posted \in Nat /\ Posted' \in Nat /\ Posted' = Posted + 3
      /\ Len(rows'[run]) = k + 1 /\ view' = view
      /\ pictures[run].undrawn = FALSE /\ pictures'[run].undrawn = TRUE
      /\ \A i \in 1 .. Posted : Signal(i)' = Signal(i)
  BY <1>1, UndrawnPosted
<1>3. PICK row, fin, err :
        /\ \A i \in 1 .. Posted' :
             /\ i = Posted + 1 => Signal(i)' = row
             /\ i = Posted + 2 => Signal(i)' = fin
             /\ i = Posted + 3 => Signal(i)' = err
        /\ row.kind = "row" /\ row.pair = k /\ fin.kind = "finished" /\ err.kind = "error"
  <2>1. \A i \in 1 .. Posted' :
          /\ i = Posted + 1 => Signal(i)' = [kind |-> "row", pair |-> k]
          /\ i = Posted + 2 => Signal(i)' = [kind |-> "finished"]
          /\ i = Posted + 3 => Signal(i)' = [kind |-> "error"]
    BY <1>1, UndrawnPosted
  <2>2. PICK row, fin, err : /\ row = [kind |-> "row", pair |-> k]
                             /\ fin = [kind |-> "finished"] /\ err = [kind |-> "error"]
    OBVIOUS
  <2>3. row.kind = "row" /\ row.pair = k /\ fin.kind = "finished" /\ err.kind = "error"
    BY <2>2
  <2> QED BY <2>1, <2>2, <2>3
<1>4. (\A j : ~Undrawn(j)) /\ \A j : Undrawn(j)' <=> j = k
  <2>1. Len(rows'[run]) - 1 = k
    BY <1>2
  <2> QED BY <2>1, <1>2 DEF Undrawn
<1>5. \A i \in 1 .. Posted : ~Ending(Signal(i)) /\ SignalRight(Signal(i))
  BY <1>2 DEF ViewInv, QueueInv
<1>6. ASSUME NEW e, SignalRight(e), ~Ending(e)
      PROVE  SignalRight(e)'
  <2>1. e.pair \in 0 .. k - 1 => e.pair \in 0 .. Len(rows'[run']) - 1 /\ e.pair # k
    BY <1>2
  <2> QED BY <1>6, <1>1, <1>2, <1>4, <2>1 DEF SignalRight, Ending
<1>7. SignalRight(row)' /\ SignalRight(fin)' /\ SignalRight(err)'
  <2>1. k \in 0 .. Len(rows'[run']) - 1
    BY <1>2
  <2> QED BY <1>3, <2>1 DEF SignalRight
<1>8. ASSUME NEW i \in 1 .. Posted', i > Posted
      PROVE  \/ i = Posted + 1 /\ Signal(i)' = row
             \/ i = Posted + 2 /\ Signal(i)' = fin
             \/ i = Posted + 3 /\ Signal(i)' = err
  <2>1. i = Posted + 1 \/ i = Posted + 2 \/ i = Posted + 3
    BY <1>2, <1>8
  <2> QED BY <2>1, <1>3
<1>9. ASSUME NEW i \in 1 .. Posted'
      PROVE  SignalRight(Signal(i))'
  <2>1. CASE i <= Posted
    <3>1. Signal(i)' = Signal(i) /\ SignalRight(Signal(i)) /\ ~Ending(Signal(i))
      BY <2>1, <1>2, <1>5
    <3>2. \A e : e = Signal(i)' => SignalRight(e)'
      BY <3>1, <1>6
    <3> QED BY <3>2 DEF SignalRight
  <2>2. CASE i > Posted
    <3>1. \A e : e = Signal(i)' => SignalRight(e)'
      BY <2>2, <1>7, <1>8
    <3> QED BY <3>1 DEF SignalRight
  <2> QED BY <2>1, <2>2, <1>2
<1>10. ASSUME NEW i \in 1 .. Posted', Ending(Signal(i)'), NEW j \in i + 1 .. Posted'
       PROVE  Closing(Signal(j)')
  <2>1. ~(i <= Posted)
    BY <1>2, <1>5, <1>10
  <2>2. i # Posted + 1
    BY <1>3, <1>10 DEF Ending
  <2>3. j \in 1 .. Posted' /\ j = Posted + 3
    BY <2>1, <2>2, <1>2, <1>10
  <2>4. Signal(j)' = err
    BY <2>3, <1>3
  <2> QED BY <2>4, <1>3 DEF Closing
<1>11. ASSUME NEW i \in 1 .. Posted', i < Posted'
       PROVE  Follows(Signal(i), Signal(i + 1))'
  <2>1. i + 1 \in 1 .. Posted'
    BY <1>2, <1>11
  <2>2. CASE i < Posted
    <3>1. /\ Signal(i)' = Signal(i) /\ Signal(i + 1)' = Signal(i + 1)
          /\ Follows(Signal(i), Signal(i + 1)) /\ ~Ending(Signal(i + 1)) /\ ~Ending(Signal(i))
      BY <2>1, <2>2, <1>2, <1>5 DEF ViewInv, QueueInv
    <3>2. PairDone(Signal(i))' <=> PairDone(Signal(i))
      BY <3>1 DEF PairDone
    <3> QED BY <3>1, <3>2, <1>2 DEF Follows, Ending, Closing
  <2>3. CASE i = Posted
    <3>1. LastPosted(Signal(i)) /\ Signal(i)' = Signal(i)
      BY <2>3, <1>2 DEF ViewInv, QueueInv
    <3>2. Signal(i + 1)' = row
      BY <2>1, <2>3, <1>2, <1>3
    <3>3. PairDone(Signal(i)) /\ Signal(i).pair = k - 1
      BY <3>1, <1>1, <1>2 DEF LastPosted
    <3>4. PairDone(Signal(i))' /\ row.pair = Signal(i).pair + 1
      BY <3>1, <3>3, <1>2, <1>3 DEF PairDone
    <3> QED BY <3>1, <3>2, <3>4, <1>3 DEF Follows
  <2>4. CASE i = Posted + 1
    <3>1. PICK j \in 1 .. Posted' : j = i + 1 /\ j = Posted + 2
      BY <2>1, <2>4, <1>2
    <3>2. Signal(i)' = row /\ Signal(j)' = fin
      BY <2>4, <3>1, <1>3
    <3>3. Signal(i + 1)' = Signal(j)'
      BY <3>1
    <3>4. Undrawn(k)' /\ Undrawn(row.pair)'
      BY <1>3, <1>4
    <3>5. \A e, f : e = row /\ f = fin => Follows(e, f)'
      BY <3>4, <1>3, <1>4 DEF Follows, Ending
    <3>6. \A e, f : e = Signal(i)' /\ f = Signal(i + 1)' => Follows(e, f)'
      BY <3>2, <3>3, <3>5
    <3> QED BY <3>6 DEF Follows, PairDone, Ending, Closing, Undrawn
  <2>5. CASE i = Posted + 2
    <3>1. PICK j \in 1 .. Posted' : j = i + 1 /\ j = Posted + 3
      BY <2>1, <2>5, <1>2
    <3>2. Signal(i)' = fin /\ Signal(j)' = err
      BY <2>5, <3>1, <1>3
    <3>3. Signal(i + 1)' = Signal(j)'
      BY <3>1
    <3> QED BY <3>2, <3>3, <1>3 DEF Follows, Closing
  <2> QED BY <2>2, <2>3, <2>4, <2>5, <1>2, <1>11
<1>12. LastPosted(Signal(Posted))'
  <2>1. \A i : i = Posted' => i \in 1 .. Posted' /\ i = Posted + 3
    BY <1>2
  <2>2. Signal(Posted)' = err
    BY <2>1, <1>3
  <2> QED BY <2>2, <1>2, <1>3 DEF LastPosted
<1>13. UpToDate(Signal(1))'
  <2>1. CASE Posted = 0
    <3>1. 1 \in 1 .. Posted' /\ 1 = Posted + 1
      BY <2>1, <1>2
    <3>2. Signal(1)' = row
      BY <3>1, <1>3
    <3>3. view.seen = k /\ SameFrames
      BY <2>1, <1>1, <1>2, RunFacts DEF ViewInv, RunInv
    <3>4. SameFrames'
      BY <3>3, <1>2 DEF SameFrames
    <3> QED BY <3>2, <3>3, <3>4, <1>2, <1>3 DEF UpToDate
  <2>2. CASE Posted # 0
    <3>1. 1 \in 1 .. Posted
      BY <2>2, <1>2
    <3>2. Signal(1)' = Signal(1) /\ UpToDate(Signal(1)) /\ ~Ending(Signal(1)) /\ Signal(1) \in Event
      <4>1. Signal(1) \in Event
        BY <3>1, RunFacts, <1>2, ElementOfSeq DEF Posted, Signal, ViewInv
      <4> QED BY <3>1, <2>2, <4>1, <1>2, <1>5 DEF ViewInv, QueueInv
    <3>3. Signal(1).kind \in {"row", "frame", "stats"}
      BY <3>2 DEF Event, Ending
    <3> QED BY <3>2, <3>3, <1>2 DEF UpToDate, SameFrames
  <2> QED BY <2>1, <2>2
<1>14. \A i \in 1 .. Posted' :
         /\ SignalRight(Signal(i))'
         /\ Ending(Signal(i))' => thread' \in {"closing", "gone"} /\ \A j \in i + 1 .. Posted' : Closing(Signal(j))'
         /\ i < Posted' => Follows(Signal(i), Signal(i + 1))'
  <2>1. \A e : (Ending(e)' <=> Ending(e)) /\ (Closing(e)' <=> Closing(e))
    BY DEF Ending, Closing
  <2> QED BY <2>1, <1>2, <1>9, <1>10, <1>11 DEF Ending, Closing
<1> QED BY <1>12, <1>13, <1>14 DEF QueueInv

\* Delivering signal e, as it is handled.
Handles(e) ==
  \/ e.kind = "row" /\ OnRowReady(e)
  \/ e.kind = "stats" /\ OnStatsReady(e)
  \/ e.kind = "frame" /\ OnFrameReady(e)
  \/ e.kind = "finished" /\ OnSessionFinished
  \/ e.kind = "error" /\ UNCHANGED <<running, view, lastRows, csvs, pictures>>
  \/ e.kind = "done" /\ OnThreadFinished

LEMMA Delivered ==
  ASSUME ViewInv, Deliver
  PROVE  /\ thread \in {"running", "closing", "gone"}
         /\ run \in Runs1 /\ run \in Nat /\ run > 0 /\ Len(rows[run]) \in Nat
         /\ rows[run] \in Seq(Samples)
         /\ view.seen \in Nat /\ view \in ViewType /\ Stride \in Nat \ {0}
         /\ UNCHANGED <<run, thread, rows>>
         /\ queue' \in Seq(Event) /\ Posted \in Nat \ {0} /\ Posted' \in Nat /\ Posted' = Posted - 1
         /\ Signal(1) \in Event /\ Handles(Signal(1))
         /\ \A i \in 1 .. Posted - 1 : Signal(i)' = Signal(i + 1)
<1>1. queue \in Seq(Event) /\ queue # <<>> /\ queue' = Tail(queue) /\ UNCHANGED <<run, thread, rows>>
  BY DEF ViewInv, TypeOK, Deliver
<1>2. /\ queue' \in Seq(Event) /\ Posted \in Nat \ {0} /\ Posted' \in Nat /\ Posted' = Posted - 1
      /\ Signal(1) \in Event /\ Head(queue) = Signal(1)
      /\ \A i \in 1 .. Posted - 1 : Signal(i)' = Signal(i + 1)
  BY <1>1, Delivery
<1>3. thread \in {"running", "closing", "gone"}
  BY <1>2 DEF ViewInv, QueueInv, LastPosted
<1>4. view \in ViewType
  BY DEF ViewInv, TypeOK
<1>5. Handles(Head(queue))
  BY DEF Deliver, Handles
<1> QED BY <1>1, <1>2, <1>3, <1>4, <1>5, RunFacts DEF ViewInv

\* What a handler does to the frames the page holds and the rows it has seen.
LEMMA HandledView ==
  ASSUME NEW e \in Event, Handles(e), view \in ViewType
  PROVE  /\ e.kind # "row" => view'.seen = view.seen
         /\ e.kind = "row" => view'.seen = view.seen + 1
         /\ e.kind # "frame" => view'.img = view.img /\ view'.mask = view.mask
         /\ e.kind = "frame" =>
              /\ view'.img = [view.img EXCEPT ![e.stream] = <<run, e.pair>>]
              /\ view'.mask = [view.mask EXCEPT ![e.stream] = e.mask]
         /\ e.kind \in {"finished", "error", "done"} => view' = view
<1>1. CASE e.kind = "row" /\ OnRowReady(e)
  BY <1>1 DEF OnRowReady, ViewType
<1>2. CASE e.kind = "stats" /\ OnStatsReady(e)
  BY <1>2 DEF OnStatsReady, ViewType
<1>3. CASE e.kind = "frame" /\ OnFrameReady(e)
  BY <1>3 DEF OnFrameReady, ViewType, MaskOf
<1>4. CASE e.kind = "finished" /\ OnSessionFinished
  BY <1>4 DEF OnSessionFinished
<1>5. CASE e.kind = "error" /\ UNCHANGED <<running, view, lastRows, csvs, pictures>>
  BY <1>5
<1>6. CASE e.kind = "done" /\ OnThreadFinished
  BY <1>6 DEF OnThreadFinished
<1> QED BY <1>1, <1>2, <1>3, <1>4, <1>5, <1>6 DEF Handles

\* No handler makes a pair undrawn.
LEMMA DeliveredUndrawn ==
  ASSUME ViewInv, Deliver
  PROVE  /\ pictures'[run].undrawn = pictures[run].undrawn
         /\ \A k : Undrawn(k)' <=> Undrawn(k)
<1>1. PICK e \in Event : e = Signal(1)
  BY Delivered
<1>2. Handles(e) /\ run \in Runs1 /\ UNCHANGED <<run, rows>> /\ TypeOK
  BY <1>1, Delivered DEF ViewInv
<1>3. \/ pictures' = pictures
      \/ \E p : \/ pictures' = [pictures EXCEPT ![run].periodic = p]
               \/ pictures' = [pictures EXCEPT ![run].debug = p]
  BY <1>2 DEF Handles, OnRowReady, OnStatsReady, OnFrameReady, OnSessionFinished, OnThreadFinished,
              SaveDebugImages
<1> QED BY <1>2, <1>3, UndrawnSame

(* Handled signal by signal, the page stays as far as the signal before the  *)
(* next one.                                                                *)
LEMMA QueueDeliver ==
  ASSUME ViewInv, Deliver
  PROVE  /\ QueueInv'
         /\ Posted' = 0 => view'.seen = Len(rows'[run']) /\ SameFrames'
<1>1. PICK e \in Event : e = Signal(1)
  BY Delivered
<1>2. /\ run \in Runs1 /\ run > 0 /\ Len(rows[run]) \in Nat /\ view.seen \in Nat
      /\ UNCHANGED <<run, thread, rows>>
      /\ Posted \in Nat \ {0} /\ Posted' \in Nat /\ Posted' = Posted - 1
      /\ \A i \in 1 .. Posted - 1 : Signal(i)' = Signal(i + 1)
      /\ view \in ViewType
  BY Delivered
<1>3. /\ e.kind # "row" => view'.seen = view.seen
      /\ e.kind = "row" => view'.seen = view.seen + 1
      /\ e.kind # "frame" => view'.img = view.img
      /\ e.kind = "frame" => view'.img = [view.img EXCEPT ![e.stream] = <<run, e.pair>>]
  BY <1>1, Delivered, HandledView
<1>4. /\ UpToDate(e) /\ SignalRight(e)
      /\ Posted > 1 => Follows(e, Signal(2))
      /\ Posted = 1 => LastPosted(e)
  BY <1>1, <1>2 DEF ViewInv, QueueInv
<1>5. DOMAIN view.img = Streams
  BY <1>2 DEF ViewType
<1>6. ASSUME NEW i \in 1 .. Posted'
      PROVE  /\ SignalRight(Signal(i))'
             /\ Ending(Signal(i))' => /\ thread' \in {"closing", "gone"}
                                      /\ \A j \in i + 1 .. Posted' : Closing(Signal(j))'
             /\ i < Posted' => Follows(Signal(i), Signal(i + 1))'
  <2>1. i + 1 \in 1 .. Posted /\ Signal(i)' = Signal(i + 1)
    BY <1>2
  <2>2. SignalRight(Signal(i))'
    <3>1. SignalRight(Signal(i + 1))
      BY <2>1 DEF ViewInv, QueueInv
    <3> QED BY <3>1, <2>1, <1>2, DeliveredUndrawn DEF SignalRight
  <2>3. ASSUME Ending(Signal(i))'
        PROVE  thread' \in {"closing", "gone"} /\ \A j \in i + 1 .. Posted' : Closing(Signal(j))'
    <3>1. Ending(Signal(i + 1))
      BY <2>1, <2>3 DEF Ending
    <3>2. thread \in {"closing", "gone"} /\ \A j \in (i + 1) + 1 .. Posted : Closing(Signal(j))
      BY <2>1, <3>1 DEF ViewInv, QueueInv
    <3>3. ASSUME NEW j \in i + 1 .. Posted' PROVE Closing(Signal(j))'
      <4>1. j + 1 \in (i + 1) + 1 .. Posted /\ j \in 1 .. Posted - 1
        BY <1>2
      <4>2. Closing(Signal(j + 1)) /\ Signal(j)' = Signal(j + 1)
        BY <4>1, <3>2, <1>2
      <4> QED BY <4>2 DEF Closing
    <3> QED BY <3>2, <3>3, <1>2
  <2>4. ASSUME i < Posted' PROVE Follows(Signal(i), Signal(i + 1))'
    <3>1. PICK l \in 1 .. Posted : l = i + 1
      BY <2>1
    <3>2. /\ l < Posted /\ l \in 1 .. Posted - 1
      BY <2>4, <3>1, <1>2
    <3>3. Follows(Signal(l), Signal(l + 1)) /\ Signal(l)' = Signal(l + 1)
      BY <3>2, <1>2 DEF ViewInv, QueueInv
    <3>4. Signal(i + 1)' = Signal(l)' /\ Signal(i)' = Signal(l)
      BY <3>1, <2>1
    <3>5. PairDone(Signal(i))' <=> PairDone(Signal(l))
      BY <3>4 DEF PairDone
    <3> QED BY <3>3, <3>4, <3>5, <1>2, DeliveredUndrawn DEF Follows, Ending, Closing
  <2> QED BY <2>2, <2>3, <2>4
<1>7. ASSUME Posted' = 0
      PROVE  view'.seen = Len(rows'[run']) /\ SameFrames'
  <2>1. LastPosted(e)
    BY <1>2, <1>4, <1>7
  <2>2. e.kind # "frame"
    BY <2>1 DEF LastPosted, PairDone
  <2>3. e.kind \in {"row", "stats", "finished", "error", "done"}
    BY <2>2 DEF Event
  <2>4. SameFrames'
    BY <1>3, <1>4, <2>2, <2>3 DEF UpToDate, SameFrames
  <2>5. view'.seen = Len(rows[run])
    <3>1. CASE PairDone(e) /\ e.pair = Len(rows[run]) - 1
      <4>1. e.kind \in {"row", "stats"}
        BY <3>1 DEF PairDone
      <4> QED BY <4>1, <3>1, <1>2, <1>3, <1>4 DEF UpToDate
    <3>2. CASE e.kind \in {"finished", "error", "done"}
      BY <3>2, <1>3, <1>4 DEF UpToDate
    <3> QED BY <2>1, <3>1, <3>2 DEF LastPosted
  <2> QED BY <2>4, <2>5, <1>2
<1>8. ASSUME Posted' # 0
      PROVE  LastPosted(Signal(Posted))' /\ UpToDate(Signal(1))'
  <2>1. Posted > 1 /\ Signal(1)' = Signal(2) /\ Follows(e, Signal(2))
    <3>1. Posted > 1 /\ 1 \in 1 .. Posted - 1
      BY <1>8, <1>2
    <3>2. Signal(1)' = Signal(1 + 1)
      BY <3>1, <1>2
    <3> QED BY <3>1, <3>2, <1>4
  <2>2. LastPosted(Signal(Posted))'
    <3>1. \A i : i = Posted' => i \in 1 .. Posted - 1 /\ i + 1 = Posted
      BY <2>1, <1>2
    <3>2. Signal(Posted)' = Signal(Posted)
      BY <3>1, <1>2
    <3>3. LastPosted(Signal(Posted))
      BY <1>2 DEF ViewInv, QueueInv
    <3> QED BY <3>2, <3>3, <1>2 DEF LastPosted, PairDone
  <2>3. PICK f : f = Signal(2)
    OBVIOUS
  <2>4. Follows(e, f) /\ (UpToDate(f)' <=> UpToDate(Signal(1))')
    BY <2>1, <2>3 DEF UpToDate
  <2>5. CASE e.kind = "row"
    <3>1. view'.seen = view.seen + 1 /\ e.pair = view.seen /\ SameFrames'
      BY <2>5, <1>3, <1>4 DEF UpToDate, SameFrames
    <3>2. \/ f.kind = "frame" /\ f.stream = "a" /\ f.pair = e.pair
          \/ f.kind = "row" /\ f.pair = e.pair + 1
          \/ f.kind \in {"finished", "error", "done"} /\ e.pair = Len(rows[run]) - 1
      BY <2>4, <2>5 DEF Follows, PairDone, Ending, Undrawn
    <3>3. UpToDate(f)'
      BY <3>1, <3>2, <1>2 DEF UpToDate
    <3> QED BY <2>2, <2>4, <3>3
  <2>6. CASE e.kind = "frame"
    <3>1. /\ view'.seen = view.seen /\ e.pair = view.seen - 1 /\ e.stream \in Streams
          /\ view'.img = [view.img EXCEPT ![e.stream] = <<run, e.pair>>]
      BY <2>6, <1>3, <1>4 DEF UpToDate, SignalRight
    <3>2. CASE e.stream = "a"
      <4>1. f.kind = "frame" /\ f.stream = "b" /\ f.pair = e.pair
        BY <2>4, <2>6, <3>2 DEF Follows, PairDone
      <4>2. view'.img["a"] = <<run, e.pair>>
        BY <3>1, <3>2, <1>5 DEF Streams
      <4>3. UpToDate(f)'
        BY <4>1, <4>2, <3>1, <1>2 DEF UpToDate
      <4> QED BY <2>2, <2>4, <4>3
    <3>3. CASE e.stream = "b"
      <4>1. f.kind = "stats" /\ f.pair = e.pair
        BY <2>4, <2>6, <3>3 DEF Follows, PairDone
      <4>2. view.img["a"] = <<run, e.pair>>
        BY <2>6, <3>3, <1>4 DEF UpToDate
      <4>3. SameFrames'
        BY <4>2, <3>1, <3>3, <1>5 DEF SameFrames, Streams
      <4>4. UpToDate(f)'
        BY <4>1, <4>3, <3>1, <1>2 DEF UpToDate
      <4> QED BY <2>2, <2>4, <4>4
    <3> QED BY <3>1, <3>2, <3>3 DEF Streams
  <2>7. CASE e.kind = "stats"
    <3>1. view'.seen = view.seen /\ e.pair = view.seen - 1 /\ SameFrames'
      BY <2>7, <1>3, <1>4 DEF UpToDate, SameFrames
    <3>2. \/ f.kind = "row" /\ f.pair = e.pair + 1
          \/ f.kind \in {"finished", "error", "done"} /\ e.pair = Len(rows[run]) - 1
      BY <2>4, <2>7 DEF Follows, PairDone, Ending
    <3>3. UpToDate(f)'
      BY <3>1, <3>2, <1>2 DEF UpToDate
    <3> QED BY <2>2, <2>4, <3>3
  <2>8. CASE e.kind \in {"finished", "error", "done"}
    <3>1. view'.seen = view.seen /\ view.seen = Len(rows[run]) /\ SameFrames'
      BY <2>8, <1>3, <1>4 DEF UpToDate, SameFrames
    <3>2. f.kind \in {"error", "done"}
      BY <2>4, <2>8 DEF Follows, PairDone, Closing
    <3>3. UpToDate(f)'
      BY <3>1, <3>2, <1>2 DEF UpToDate
    <3> QED BY <2>2, <2>4, <3>3
  <2> QED BY <2>5, <2>6, <2>7, <2>8 DEF Event
<1> QED BY <1>6, <1>7, <1>8 DEF QueueInv

LEMMA QueueStep == ViewInv /\ [Next]_vars => QueueInv'
BY QueueEmpty, QueueSame, QueueEnd, QueuePair, QueueUndrawn, QueueDeliver DEF Next

-----------------------------------------------------------------------------
(* The run in progress.                                                     *)

(* Nothing writes to the rows, the pictures or the files of another run.    *)
LEMMA OtherRunsKept ==
  ASSUME ViewInv, [Next]_vars
  PROVE  \A r \in Runs1 : r # run => rows'[r] = rows[r] /\ pictures'[r] = pictures[r] /\ csvs'[r] = csvs[r]
<1>1. /\ rows \in [Runs1 -> Seq(Samples)] /\ pictures \in [Runs1 -> PictureFiles]
      /\ csvs \in [Runs1 -> CsvFiles]
  BY DEF ViewInv, TypeOK
<1>2. CASE Opens \/ LoopEnds \/ Raises \/ Closes \/ Start \/ UNCHANGED vars
  BY <1>2 DEF Opens, LoopEnds, Raises, Closes, Start, vars
<1>3. ASSUME NEW s \in Samples, ProcessPair(s)
      PROVE  \A r \in Runs1 : r # run => rows'[r] = rows[r] /\ pictures'[r] = pictures[r] /\ csvs'[r] = csvs[r]
  <2> DEFINE shot == [imgA |-> <<run, Len(rows[run])>>, maskA |-> <<run, Len(rows[run])>>,
                      imgB |-> <<run, Len(rows[run])>>, maskB |-> <<run, Len(rows[run])>>]
  <2>1. /\ rows' = [rows EXCEPT ![run] = Append(@, s)] /\ csvs' = csvs
        /\ pictures' = pictures \/ pictures' = [pictures EXCEPT ![run].outlier = @ \cup {shot}]
    BY <1>3 DEF ProcessPair
  <2> HIDE DEF shot
  <2> QED BY <1>1, <2>1
<1>4. CASE Deliver
  <2>1. rows' = rows
    BY <1>4 DEF Deliver
  <2>2. Handles(Signal(1))
    BY <1>4, Delivered
  <2>3. \/ csvs' = csvs /\ pictures' = pictures
        \/ csvs' = csvs /\ \E p : pictures' = [pictures EXCEPT ![run].periodic = p]
        \/ csvs' = [csvs EXCEPT ![run] = SplitRows(run)]
           /\ (pictures' = pictures \/ pictures' = [pictures EXCEPT ![run].debug = {Held(view)}])
    BY <2>2 DEF Handles, OnRowReady, OnStatsReady, OnFrameReady, OnSessionFinished, OnThreadFinished,
                SaveDebugImages
  <2> QED BY <1>1, <2>1, <2>3
<1>5. CASE ClickSaveDebug
  BY <1>1, <1>5 DEF ClickSaveDebug, SaveDebugImages
<1>6. CASE ClickExport
  BY <1>1, <1>6 DEF ClickExport
<1>7. ASSUME NEW s \in Samples, DrawingRaises(s)
      PROVE  \A r \in Runs1 : r # run => rows'[r] = rows[r] /\ pictures'[r] = pictures[r] /\ csvs'[r] = csvs[r]
  BY <1>1, <1>7 DEF DrawingRaises
<1> QED BY <1>2, <1>3, <1>4, <1>5, <1>6, <1>7 DEF Next

\* The last signal of a run is the end of its thread.
LEMMA DoneIsLast ==
  ASSUME ViewInv, Deliver
  PROVE  Signal(1).kind = "done" <=> thread = "gone" /\ Posted' = 0
<1>1. /\ Posted \in Nat \ {0} /\ Posted' = Posted - 1
  BY Delivered
<1>2. /\ Posted > 1 => Follows(Signal(1), Signal(2))
      /\ Posted = 1 => LastPosted(Signal(1))
  BY <1>1 DEF ViewInv, QueueInv
<1>3. CASE Posted = 1
  BY <1>1, <1>2, <1>3 DEF LastPosted, PairDone, ViewInv, QueueInv, Ending
<1>4. CASE Posted > 1
  <2>1. Signal(1).kind # "done"
    BY <1>2, <1>4 DEF Follows, PairDone
  <2> QED BY <2>1, <1>1, <1>4
<1> QED BY <1>1, <1>3, <1>4

LEMMA RunStart ==
  ASSUME ViewInv, Start
  PROVE  RunInv'
<1>1. /\ run \in Nat /\ run' = run + 1 /\ run' \in Runs1
      /\ thread' = "opening" /\ running' = TRUE /\ view' = FreshView
      /\ UNCHANGED <<rows, queue, lastRows, csvs, pictures>>
      /\ lastRows \in Nat
  BY ViewAssumption DEF ViewInv, TypeOK, Start, PreparedView, Runs1
<1>2. Posted = 0 /\ Posted' = 0
  <2>1. ~running /\ thread # "opening"
    BY DEF ViewInv, RunInv, Start
  <2>2. Posted = 0
    BY <2>1 DEF ViewInv, RunInv, Start, TypeOK
  <2> QED BY <2>2, <1>1 DEF Posted
<1>3. /\ rows'[run'] = <<>> /\ pictures'[run'].undrawn = FALSE
      /\ \A r \in Runs1 : r > run' => rows'[r] = <<>> /\ pictures'[r] = NoPictures
  BY <1>1 DEF ViewInv, RunInv, Runs1, NoPictures
<1>4. view'.seen = Len(rows'[run']) /\ SameFrames'
  BY <1>1, <1>3 DEF FreshView, SameFrames, Streams
<1>5. \A x \in Streams : view'.mask[x] = None /\ view'.img[x] = None
  BY <1>1 DEF FreshView
<1>6. lastRows' <= run'
  BY <1>1 DEF ViewInv, RunInv
<1> QED BY <1>1, <1>2, <1>3, <1>4, <1>5, <1>6 DEF RunInv

LEMMA RunThread ==
  ASSUME ViewInv,
         Opens \/ LoopEnds \/ Raises \/ Closes \/ (\E s \in Samples : ProcessPair(s) \/ DrawingRaises(s))
  PROVE  RunInv'
<1>1. /\ UNCHANGED <<run, view, running, lastRows>>
      /\ thread \in {"opening", "running", "closing"} /\ thread' \in {"running", "closing", "gone"}
  BY DEF Opens, LoopEnds, Raises, Closes, ProcessPair, DrawingRaises
<1>2. run \in Runs1 /\ run \in Nat /\ run > 0 /\ Posted \in Nat /\ queue \in Seq(Event)
  BY <1>1, RunFacts DEF ViewInv
<1>3. \A r \in Runs1 : r > run => rows'[r] = rows[r] /\ pictures'[r] = pictures[r]
  BY <1>2, OtherRunsKept DEF Next, Runs1
<1>6. pictures'[run].undrawn => thread' \in {"closing", "gone"}
  <2>1. CASE Opens \/ LoopEnds \/ Raises \/ Closes
    BY <2>1, <1>2 DEF ViewInv, RunInv, Opens, LoopEnds, Raises, Closes
  <2>2. ASSUME NEW s \in Samples, ProcessPair(s) PROVE pictures'[run].undrawn = FALSE
    BY <2>2, AllDrawn
  <2>3. ASSUME NEW s \in Samples, DrawingRaises(s) PROVE thread' = "closing"
    BY <2>3 DEF DrawingRaises
  <2> QED BY <2>1, <2>2, <2>3
<1>4. CASE Opens
  <2>1. UNCHANGED <<rows, queue>> /\ thread' = "running"
    BY <1>4 DEF Opens
  <2>2. Posted' = Posted /\ (SameFrames' <=> SameFrames)
    BY <2>1, <1>1 DEF Posted, SameFrames
  <2> QED BY <1>1, <1>2, <1>3, <1>6, <2>1, <2>2 DEF ViewInv, RunInv
<1>5. CASE ~Opens
  <2>1. Posted' # 0
    <3>1. CASE LoopEnds \/ Raises \/ Closes
      BY <3>1, <1>2, EndsWith
    <3>2. ASSUME NEW s \in Samples, ProcessPair(s) PROVE Posted' # 0
      <4>1. PICK k : k = Len(rows[run])
        OBVIOUS
      <4>2. Posted' = Posted + IF k % Stride = 0 THEN 4 ELSE 1
        BY <3>2, <4>1, PairPosted
      <4> QED BY <4>2, <1>2
    <3>3. ASSUME NEW s \in Samples, DrawingRaises(s) PROVE Posted' # 0
      <4>1. PICK k : k = Len(rows[run])
        OBVIOUS
      <4>2. Posted' = Posted + 3
        BY <3>3, <4>1, UndrawnPosted
      <4> QED BY <4>2, <1>2
    <3> QED BY <1>5, <3>1, <3>2, <3>3
  <2>2. running /\ running'
    BY <1>1 DEF ViewInv, RunInv
  <2>3. thread' # "opening" /\ thread' # "none"
    BY <1>1
  <2> QED BY <1>1, <1>2, <1>3, <1>6, <2>1, <2>2, <2>3 DEF ViewInv, RunInv
<1> QED BY <1>4, <1>5

LEMMA RunClick ==
  ASSUME ViewInv, ClickSaveDebug \/ ClickExport \/ UNCHANGED vars
  PROVE  RunInv'
<1>1. UNCHANGED <<run, thread, rows, queue, running, view, lastRows>>
  BY DEF ClickSaveDebug, ClickExport, vars
<1>2. run \in Int
  BY ViewAssumption DEF ViewInv, TypeOK
<1>3. \A r \in Runs1 : r > run => pictures'[r] = pictures[r]
  BY <1>2, OtherRunsKept DEF Next, Runs1
<1>4. run > 0 => pictures'[run].undrawn = pictures[run].undrawn
  <2>1. TypeOK /\ (run > 0 => run \in Runs1)
    BY ViewAssumption DEF ViewInv, TypeOK, Runs1
  <2>2. pictures' = pictures \/ \E p : pictures' = [pictures EXCEPT ![run].debug = p]
    BY DEF ClickSaveDebug, SaveDebugImages, ClickExport, vars
  <2> QED BY <1>1, <2>1, <2>2, UndrawnSame
<1> QED BY <1>1, <1>3, <1>4 DEF ViewInv, RunInv, Posted, SameFrames

LEMMA RunDeliver ==
  ASSUME ViewInv, Deliver
  PROVE  RunInv'
<1>1. PICK e \in Event : e = Signal(1)
  BY Delivered
<1>2. /\ run \in Runs1 /\ run \in Nat /\ run > 0 /\ UNCHANGED <<run, thread, rows>>
      /\ thread \in {"running", "closing", "gone"} /\ Posted # 0 /\ view \in ViewType
  BY Delivered
<1>3. Posted' = 0 => view'.seen = Len(rows'[run']) /\ SameFrames'
  BY QueueDeliver
<1>4. Handles(e)
  BY <1>1, Delivered
<1>5. running' <=> thread' = "running" \/ thread' = "closing" \/ (thread' = "gone" /\ Posted' # 0)
  <2>1. running
    BY <1>2 DEF ViewInv, RunInv
  <2>2. IF e.kind = "done" THEN running' = FALSE ELSE running' = running
    BY <1>4 DEF Handles, OnRowReady, OnStatsReady, OnFrameReady, OnSessionFinished, OnThreadFinished
  <2>3. e.kind = "done" <=> thread = "gone" /\ Posted' = 0
    BY <1>1, DoneIsLast
  <2> QED BY <1>2, <2>1, <2>2, <2>3
<1>6. lastRows' <= run'
  <2>1. lastRows' = lastRows \/ lastRows' = run
    BY <1>4 DEF Handles, OnRowReady, OnStatsReady, OnFrameReady, OnSessionFinished, OnThreadFinished
  <2> QED BY <2>1, <1>2 DEF ViewInv, RunInv
<1>7. \A r \in Runs1 : r > run => rows'[r] = rows[r] /\ pictures'[r] = pictures[r]
  BY <1>2, OtherRunsKept DEF Next, Runs1
<1>8. ASSUME NEW x \in Streams
      PROVE  view'.mask[x] = view'.img[x] /\ (view'.img[x] # None => view'.img[x][1] = run')
  <2>1. view.mask[x] = view.img[x] /\ (view.img[x] # None => view.img[x][1] = run)
    BY DEF ViewInv, RunInv
  <2>2. CASE e.kind # "frame"
    BY <2>1, <2>2, <1>2, <1>4, HandledView
  <2>3. CASE e.kind = "frame"
    <3>1. /\ view'.img = [view.img EXCEPT ![e.stream] = <<run, e.pair>>]
          /\ view'.mask = [view.mask EXCEPT ![e.stream] = e.mask]
      BY <2>3, <1>2, <1>4, HandledView
    <3>2. e.mask = <<run, e.pair>>
      <4>1. SignalRight(e)
        BY <1>1, <1>2, Delivered DEF ViewInv, QueueInv
      <4> QED BY <4>1, <2>3 DEF SignalRight
    <3>3. DOMAIN view.img = Streams /\ DOMAIN view.mask = Streams
      BY <1>2 DEF ViewType
    <3> QED BY <2>1, <3>1, <3>2, <3>3, <1>2
  <2> QED BY <2>2, <2>3
<1>9. pictures'[run'].undrawn => thread' \in {"closing", "gone"}
  <2>1. pictures[run].undrawn => thread \in {"closing", "gone"}
    BY <1>2 DEF ViewInv, RunInv
  <2> QED BY <2>1, <1>2, DeliveredUndrawn
<1> QED BY <1>2, <1>3, <1>5, <1>6, <1>7, <1>8, <1>9 DEF ViewInv, RunInv

LEMMA RunStep == ViewInv /\ [Next]_vars => RunInv'
BY RunStart, RunThread, RunClick, RunDeliver DEF Next

-----------------------------------------------------------------------------
(* The types.                                                               *)

LEMMA SplitType ==
  ASSUME ViewInv, NEW r \in Runs1
  PROVE  SplitRows(r) \in CsvFiles
<1>1. Len(rows[r]) \in Nat /\ Len(rows[r]) <= MaxPairs /\ MaxPairs \in Nat
  <2>1. rows[r] \in Seq(Samples) /\ Len(rows[r]) <= MaxPairs
    BY DEF ViewInv, TypeOK
  <2> QED BY <2>1, LenProperties, ViewAssumption
<1>2. \A i \in 1 .. Len(rows[r]) : <<r, i - 1>> \in FrameIds
  BY <1>1 DEF FrameIds, PairIndexes
<1> QED BY <1>2 DEF SplitRows, CsvFiles

\* The row of a signal's pair.
LEMMA RowType ==
  ASSUME ViewInv, NEW k \in 0 .. Len(rows[run]) - 1, run > 0
  PROVE  RowAt(k) \in SampleType
<1>1. rows[run] \in Seq(Samples) /\ Len(rows[run]) \in Nat
  BY RunFacts DEF ViewInv, RunInv
<1>2. k + 1 \in 1 .. Len(rows[run])
  BY <1>1
<1>3. rows[run][k + 1] \in Samples
  BY <1>1, <1>2, ElementOfSeq
<1> QED BY <1>3, ViewAssumption DEF RowAt

LEMMA HeldType ==
  ASSUME NEW v \in ViewType
  PROVE  Held(v) \in Picture
BY DEF Held, ViewType, Picture, Streams

LEMMA ViewTypeStep ==
  ASSUME ViewInv, [Next]_vars
  PROVE  view' \in ViewType
<1>1. view \in ViewType
  BY DEF ViewInv, TypeOK
<1>2. CASE Start
  BY <1>2 DEF Start, PreparedView, FreshView, ViewType, FrameIds
<1>3. CASE Deliver
  <2>1. PICK e \in Event : e = Signal(1)
    BY <1>3, Delivered
  <2>2. Handles(e) /\ SignalRight(e) /\ run > 0
    BY <1>3, <2>1, Delivered DEF ViewInv, QueueInv
  <2>3. CASE e.kind = "row" /\ OnRowReady(e)
    <3>1. e.pair \in 0 .. Len(rows[run]) - 1
      BY <2>2, <2>3 DEF SignalRight
    <3>2. PICK s \in SampleType : s = RowAt(e.pair)
      BY <2>2, <3>1, RowType
    <3>3. s.dropA \in BOOLEAN /\ s.dropB \in BOOLEAN
      BY <3>2 DEF SampleType
    <3> DEFINE dropped == [a |-> s.dropA, b |-> s.dropB]
    <3>4. view' = [view EXCEPT
            !.drops = [x \in Streams |-> @[x] + IF dropped[x] THEN 1 ELSE 0],
            !.since = [x \in Streams |-> @[x] \/ dropped[x]],
            !.hw = @ + IF GapExcluded(s) THEN 0 ELSE 1,
            !.optical = @ + IF PositionExcluded(s, e.pair) THEN 0 ELSE 1,
            !.seen = @ + 1]
      BY <2>3, <3>2 DEF OnRowReady
    <3> HIDE DEF dropped
    <3>5. [x \in Streams |-> view.drops[x] + IF dropped[x] THEN 1 ELSE 0] \in [Streams -> Nat]
      BY <1>1 DEF ViewType
    <3>6. [x \in Streams |-> view.since[x] \/ dropped[x]] \in [Streams -> BOOLEAN]
      OBVIOUS
    <3>7. /\ view.hw + (IF GapExcluded(s) THEN 0 ELSE 1) \in Nat
          /\ view.optical + (IF PositionExcluded(s, e.pair) THEN 0 ELSE 1) \in Nat
          /\ view.seen + 1 \in Nat
      BY <1>1 DEF ViewType
    <3> QED BY <1>1, <3>4, <3>5, <3>6, <3>7 DEF ViewType
  <2>4. CASE e.kind = "stats" /\ OnStatsReady(e)
    <3>1. e.pair \in PairIndexes
      BY <2>4 DEF Event
    <3>2. [x \in Streams |-> IF DropMark(x, e.pair) THEN view.marks[x] \cup {e.pair} ELSE view.marks[x]]
            \in [Streams -> SUBSET PairIndexes]
      BY <1>1, <3>1 DEF ViewType
    <3>3. view.plotted \cup {e.pair} \in SUBSET PairIndexes
      BY <1>1, <3>1 DEF ViewType
    <3>4. view' = [view EXCEPT
            !.marks = [x \in Streams |-> IF DropMark(x, e.pair) THEN @[x] \cup {e.pair} ELSE @[x]],
            !.plotted = @ \cup {e.pair}, !.since = [x \in Streams |-> FALSE]]
      BY <2>4 DEF OnStatsReady
    <3> QED BY <1>1, <3>2, <3>3, <3>4 DEF ViewType
  <2>5. CASE e.kind = "frame" /\ OnFrameReady(e)
    <3>1. e.mask \in FrameIds /\ e.stream \in Streams /\ <<run, e.pair>> \in FrameIds
      <4>1. e.pair \in PairIndexes /\ e.mask \in FrameIds
        BY <2>5 DEF Event
      <4> QED BY <4>1, <2>2, <2>5 DEF SignalRight
    <3>2. view' = [view EXCEPT !.img[e.stream] = <<run, e.pair>>, !.mask[e.stream] = e.mask]
      BY <2>5 DEF OnFrameReady, MaskOf
    <3> QED BY <1>1, <3>1, <3>2 DEF ViewType
  <2>6. CASE e.kind \in {"finished", "error", "done"}
    BY <1>1, <2>2, <2>6, HandledView
  <2> QED BY <2>2, <2>3, <2>4, <2>5, <2>6 DEF Handles
<1>4. CASE ~Start /\ ~Deliver
  <2>1. view' = view
    BY <1>4 DEF Next, Opens, LoopEnds, Raises, Closes, ProcessPair, DrawingRaises, ClickSaveDebug, ClickExport, vars
  <2> QED BY <1>1, <2>1
<1> QED BY <1>2, <1>3, <1>4

(* What a step saves: an outlier's picture, a periodic one, or the debug    *)
(* picture, each of the run in progress; or it fails to draw the first.     *)
Shoots(r) ==
  \/ pictures' = pictures
  \/ /\ RoomForOutlier
     /\ \E s \in Samples : ProcessPair(s) /\ IsOutlier(s, Len(rows[run]))
     /\ pictures' = [pictures EXCEPT ![r].outlier = @ \cup {Shot(r, Len(rows[r]))}]
  \/ /\ Deliver /\ Signal(1).kind = "frame" /\ Signal(1).stream = "b" /\ HasFrames(view')
     /\ Cardinality(pictures[r].periodic) < MaxSnaps
     /\ pictures' = [pictures EXCEPT ![r].periodic = @ \cup {Held(view')}]
  \/ /\ ClickSaveDebug \/ (Deliver /\ Signal(1).kind = "finished")
     /\ HasFrames(view) /\ view' = view
     /\ pictures' = [pictures EXCEPT ![r].debug = {Held(view)}]
  \/ /\ \E s \in Samples : DrawingRaises(s)
     /\ pictures' = [pictures EXCEPT ![r].undrawn = TRUE]

LEMMA PictureCases ==
  ASSUME ViewInv, [Next]_vars
  PROVE  pictures' = pictures \/ (run \in Runs1 /\ Shoots(run))
<1>1. CASE Opens \/ LoopEnds \/ Raises \/ Closes \/ Start \/ ClickExport \/ UNCHANGED vars
  BY <1>1 DEF Opens, LoopEnds, Raises, Closes, Start, ClickExport, vars
<1>2. ASSUME NEW s \in Samples, ProcessPair(s)
      PROVE  pictures' = pictures \/ (run \in Runs1 /\ Shoots(run))
  <2>1. run \in Runs1
    BY <1>2, RunFacts DEF ViewInv, ProcessPair
  <2>2. CASE IsOutlier(s, Len(rows[run])) /\ RoomForOutlier
    <3>1. pictures' = [pictures EXCEPT ![run].outlier = @ \cup {Shot(run, Len(rows[run]))}]
      BY <1>2, <2>2 DEF ProcessPair, Shot
    <3> QED BY <1>2, <2>1, <2>2, <3>1 DEF Shoots
  <2>3. CASE ~(IsOutlier(s, Len(rows[run])) /\ RoomForOutlier)
    BY <1>2, <2>3 DEF ProcessPair
  <2> QED BY <2>2, <2>3
<1>3. CASE Deliver
  <2>1. PICK e \in Event : e = Signal(1)
    BY <1>3, Delivered
  <2>2. Handles(e) /\ run \in Runs1
    BY <1>3, <2>1, Delivered
  <2>3. CASE e.kind = "frame" /\ OnFrameReady(e)
    <3>1. \/ pictures' = pictures
          \/ /\ e.stream = "b" /\ PeriodicDue(e.pair, view')
             /\ pictures' = [pictures EXCEPT ![run].periodic = @ \cup {Held(view')}]
      BY <2>3 DEF OnFrameReady
    <3> QED BY <1>3, <2>1, <2>2, <2>3, <3>1 DEF PeriodicDue, Shoots
  <2>4. CASE e.kind = "finished" /\ OnSessionFinished
    BY <1>3, <2>1, <2>2, <2>4 DEF OnSessionFinished, SaveDebugImages, Shoots
  <2> QED BY <2>2, <2>3, <2>4 DEF Handles, OnRowReady, OnStatsReady, OnThreadFinished
<1>4. CASE ClickSaveDebug
  <2>1. run \in Runs1 /\ view' = view
    BY <1>4, ViewAssumption DEF ClickSaveDebug, ViewInv, TypeOK, Runs1
  <2> QED BY <1>4, <2>1 DEF ClickSaveDebug, SaveDebugImages, Shoots
<1>5. ASSUME NEW s \in Samples, DrawingRaises(s)
      PROVE  run \in Runs1 /\ Shoots(run)
  BY <1>5, UndrawnPosted DEF Shoots
<1> QED BY <1>1, <1>2, <1>3, <1>4, <1>5 DEF Next

LEMMA PictureTypeStep ==
  ASSUME ViewInv, [Next]_vars
  PROVE  /\ pictures' \in [Runs1 -> PictureFiles]
         /\ \A r \in Runs1 :
              /\ IsFiniteSet(pictures'[r].periodic) /\ IsFiniteSet(pictures'[r].outlier)
              /\ Cardinality(pictures'[r].periodic) <= MaxSnaps
              /\ Cardinality(pictures'[r].outlier) <= MaxOutliers
<1>1. /\ pictures \in [Runs1 -> PictureFiles]
      /\ \A r \in Runs1 :
           /\ IsFiniteSet(pictures[r].periodic) /\ IsFiniteSet(pictures[r].outlier)
           /\ Cardinality(pictures[r].periodic) <= MaxSnaps
           /\ Cardinality(pictures[r].outlier) <= MaxOutliers
      /\ MaxSnaps \in Nat /\ MaxOutliers \in Nat /\ view \in ViewType
  BY ViewAssumption DEF ViewInv, TypeOK, PictureInv
<1>2. CASE pictures' = pictures
  BY <1>1, <1>2
<1>3. ASSUME pictures' # pictures, NEW r \in Runs1, r = run, Shoots(r)
      PROVE  /\ pictures' \in [Runs1 -> PictureFiles]
             /\ IsFiniteSet(pictures'[r].periodic) /\ IsFiniteSet(pictures'[r].outlier)
             /\ Cardinality(pictures'[r].periodic) <= MaxSnaps
             /\ Cardinality(pictures'[r].outlier) <= MaxOutliers
  <2>1. pictures[r] \in PictureFiles
    BY <1>1
  <2>2. CASE /\ RoomForOutlier /\ \E s \in Samples : ProcessPair(s)
             /\ pictures' = [pictures EXCEPT ![r].outlier = @ \cup {Shot(r, Len(rows[r]))}]
    <3>1. PICK s \in Samples : ProcessPair(s)
      BY <2>2
    <3>2. PICK k : k = Len(rows[run])
      OBVIOUS
    <3>3. k \in PairIndexes
      BY <3>1, <3>2, PairPosted
    <3>4. PICK p \in Picture : p = Shot(r, k)
      BY <3>3 DEF Shot, Picture, FrameIds
    <3>5. pictures' = [pictures EXCEPT ![r].outlier = @ \cup {p}]
      BY <2>2, <3>2, <3>4, <1>3
    <3>6. /\ pictures' \in [Runs1 -> PictureFiles]
          /\ pictures'[r].outlier = pictures[r].outlier \cup {p}
          /\ pictures'[r].periodic = pictures[r].periodic
      BY <3>5, <1>1, <2>1 DEF PictureFiles
    <3>7. PICK O : O = pictures[r].outlier
      OBVIOUS
    <3>8. IsFiniteSet(O) /\ Cardinality(O) < MaxOutliers
      BY <3>7, <1>1, <1>3, <2>2 DEF RoomForOutlier
    <3>9. /\ Cardinality(O) \in Nat /\ IsFiniteSet(O \cup {p})
          /\ Cardinality(O \cup {p}) = Cardinality(O) \/ Cardinality(O \cup {p}) = Cardinality(O) + 1
      BY <3>8, FS_AddElement, FS_CardinalityType
    <3>10. Cardinality(O \cup {p}) <= MaxOutliers
      BY <3>8, <3>9, <1>1
    <3> QED BY <3>6, <3>7, <3>9, <3>10, <1>1
  <2>3. CASE /\ Cardinality(pictures[r].periodic) < MaxSnaps
             /\ pictures' = [pictures EXCEPT ![r].periodic = @ \cup {Held(view')}]
    <3>1. PICK p \in Picture : p = Held(view')
      BY HeldType, ViewTypeStep
    <3>2. /\ pictures' \in [Runs1 -> PictureFiles]
          /\ pictures'[r].periodic = pictures[r].periodic \cup {p}
          /\ pictures'[r].outlier = pictures[r].outlier
      BY <2>3, <3>1, <1>1, <2>1 DEF PictureFiles
    <3>3. PICK O : O = pictures[r].periodic
      OBVIOUS
    <3>4. /\ Cardinality(O) \in Nat /\ IsFiniteSet(O \cup {p})
          /\ Cardinality(O \cup {p}) = Cardinality(O) \/ Cardinality(O \cup {p}) = Cardinality(O) + 1
      BY <3>3, <1>1, FS_AddElement, FS_CardinalityType
    <3>5. Cardinality(O \cup {p}) <= MaxSnaps
      BY <2>3, <3>3, <3>4, <1>1
    <3> QED BY <3>2, <3>3, <3>4, <3>5, <1>1
  <2>4. CASE pictures' = [pictures EXCEPT ![r].debug = {Held(view)}]
    <3>1. PICK p \in Picture : p = Held(view)
      BY HeldType, <1>1
    <3> QED BY <2>4, <3>1, <1>1, <2>1 DEF PictureFiles
  <2>5. CASE pictures' = [pictures EXCEPT ![r].undrawn = TRUE]
    BY <2>5, <1>1, <2>1 DEF PictureFiles
  <2> QED BY <1>3, <2>2, <2>3, <2>4, <2>5 DEF Shoots
<1>4. CASE pictures' # pictures
  <2>1. PICK r \in Runs1 : r = run /\ Shoots(r)
    BY <1>4, PictureCases
  <2>2. \A q \in Runs1 : q # r => pictures'[q] = pictures[q]
    BY <2>1, OtherRunsKept
  <2> QED BY <1>1, <1>3, <1>4, <2>1, <2>2
<1> QED BY <1>2, <1>4

LEMMA TypeStep ==
  ASSUME ViewInv, [Next]_vars
  PROVE  TypeOK'
<1>1. /\ run \in 0 .. MaxRuns /\ MaxRuns \in Nat
      /\ thread \in {"none", "opening", "running", "closing", "gone"}
      /\ rows \in [Runs1 -> Seq(Samples)] /\ \A r \in Runs1 : Len(rows[r]) <= MaxPairs
      /\ running \in BOOLEAN
      /\ lastRows \in 0 .. MaxRuns
      /\ csvs \in [Runs1 -> CsvFiles]
      /\ queue \in Seq(Event)
  BY ViewAssumption DEF ViewInv, TypeOK
<1>2. view' \in ViewType
  BY ViewTypeStep
<1>3. /\ pictures' \in [Runs1 -> PictureFiles]
      /\ \A r \in Runs1 : /\ Cardinality(pictures'[r].periodic) <= MaxSnaps
                          /\ Cardinality(pictures'[r].outlier) <= MaxOutliers
  BY PictureTypeStep
<1>4. QueueInv' /\ RunInv'
  BY QueueStep, RunStep
<1>5. queue' \in Seq(Event)
  <2>1. CASE LoopEnds \/ Raises \/ Closes
    BY <2>1, <1>1, EndsWith
  <2>2. ASSUME NEW s \in Samples, ProcessPair(s) PROVE queue' \in Seq(Event)
    <3>1. PICK k : k = Len(rows[run])
      OBVIOUS
    <3> QED BY <2>2, <3>1, PairPosted
  <2>3. CASE Deliver
    BY <2>3, Delivered
  <2>4. CASE Opens \/ Start \/ ClickSaveDebug \/ ClickExport \/ UNCHANGED vars
    BY <2>4, <1>1 DEF Opens, Start, ClickSaveDebug, ClickExport, vars
  <2>5. ASSUME NEW s \in Samples, DrawingRaises(s) PROVE queue' \in Seq(Event)
    <3>1. PICK k : k = Len(rows[run])
      OBVIOUS
    <3> QED BY <2>5, <3>1, UndrawnPosted
  <2> QED BY <2>1, <2>2, <2>3, <2>4, <2>5 DEF Next
<1>6. running' <=> \/ thread' \in {"opening", "running", "closing"}
                   \/ \E i \in DOMAIN queue' : queue'[i].kind = "done"
  <2>1. DOMAIN queue' = 1 .. Posted' /\ Posted' \in Nat
    BY <1>5, LenProperties DEF Posted
  <2>2. ASSUME NEW i \in DOMAIN queue', queue'[i].kind = "done"
        PROVE  (thread' = "gone" /\ Posted' # 0) \/ thread' = "closing"
    <3>1. Ending(Signal(i))'
      BY <2>2 DEF Ending, Signal
    <3> QED BY <2>1, <3>1, <1>4 DEF QueueInv
  <2>3. ASSUME thread' = "gone", Posted' # 0 PROVE \E i \in DOMAIN queue' : queue'[i].kind = "done"
    <3>1. LastPosted(Signal(Posted))'
      BY <2>3, <1>4 DEF QueueInv
    <3>2. Signal(Posted)'.kind = "done"
      BY <2>3, <3>1 DEF LastPosted
    <3>3. queue'[Posted'].kind = "done"
      BY <3>2 DEF Signal
    <3> QED BY <2>1, <2>3, <3>3
  <2> QED BY <2>2, <2>3, <1>4 DEF RunInv
<1>7. run' \in 0 .. MaxRuns /\ lastRows' \in 0 .. MaxRuns
  <2>1. run' = run \/ (run' = run + 1 /\ run < MaxRuns)
    BY DEF Next, Opens, LoopEnds, Raises, Closes, ProcessPair, DrawingRaises, Start, Deliver, ClickSaveDebug, ClickExport, vars
  <2>2. run' \in 0 .. MaxRuns
    BY <2>1, <1>1
  <2>3. lastRows' = lastRows \/ lastRows' = run
    <3>1. CASE Deliver
      <4>1. Handles(Signal(1))
        BY <3>1, Delivered
      <4> QED BY <4>1 DEF Handles, OnRowReady, OnStatsReady, OnFrameReady, OnSessionFinished, OnThreadFinished
    <3>2. CASE ~Deliver
      BY <3>2 DEF Next, Opens, LoopEnds, Raises, Closes, ProcessPair, DrawingRaises, Start, ClickSaveDebug, ClickExport, vars
    <3> QED BY <3>1, <3>2
  <2> QED BY <2>2, <2>3, <1>1
<1>8. thread' \in {"none", "opening", "running", "closing", "gone"}
  BY <1>1 DEF Next, Opens, LoopEnds, Raises, Closes, ProcessPair, DrawingRaises, Start, Deliver, ClickSaveDebug, ClickExport, vars
<1>9. running' \in BOOLEAN
  <2>1. running' = running \/ running' = TRUE \/ running' = FALSE
    <3>1. CASE Deliver
      <4>1. Handles(Signal(1))
        BY <3>1, Delivered
      <4> QED BY <4>1 DEF Handles, OnRowReady, OnStatsReady, OnFrameReady, OnSessionFinished, OnThreadFinished
    <3>2. CASE ~Deliver
      BY <3>2 DEF Next, Opens, LoopEnds, Raises, Closes, ProcessPair, DrawingRaises, Start, ClickSaveDebug, ClickExport, vars
    <3> QED BY <3>1, <3>2
  <2> QED BY <2>1, <1>1
<1>10. rows' \in [Runs1 -> Seq(Samples)] /\ \A r \in Runs1 : Len(rows'[r]) <= MaxPairs
  <2>1. ASSUME NEW s \in Samples, ProcessPair(s) \/ DrawingRaises(s)
        PROVE  rows' \in [Runs1 -> Seq(Samples)] /\ \A r \in Runs1 : Len(rows'[r]) <= MaxPairs
    <3>1. PICK k : k = Len(rows[run])
      OBVIOUS
    <3>2. /\ k \in PairIndexes /\ run \in Runs1 /\ Len(rows'[run]) = k + 1
          /\ rows' \in [Runs1 -> Seq(Samples)]
      BY <2>1, <3>1, PairPosted, UndrawnPosted
    <3>3. k + 1 <= MaxPairs
      BY <3>2, ViewAssumption DEF PairIndexes
    <3> QED BY <2>1, <3>2, <3>3, <1>1, OtherRunsKept DEF Next
  <2>2. CASE ~(\E s \in Samples : ProcessPair(s) \/ DrawingRaises(s))
    BY <1>1, <2>2 DEF Next, Opens, LoopEnds, Raises, Closes, Start, Deliver, ClickSaveDebug, ClickExport, vars
  <2> QED BY <2>1, <2>2
<1>11. csvs' \in [Runs1 -> CsvFiles]
  <2>1. \/ csvs' = csvs
        \/ run \in Runs1 /\ \E r \in Runs1 : csvs' = [csvs EXCEPT ![run] = SplitRows(r)]
    <3>1. CASE Deliver
      <4>1. Handles(Signal(1)) /\ run \in Runs1
        BY <3>1, Delivered
      <4> QED BY <4>1 DEF Handles, OnRowReady, OnStatsReady, OnFrameReady, OnSessionFinished, OnThreadFinished
    <3>2. CASE ClickExport
      <4>1. lastRows \in Runs1 /\ run \in Runs1
        BY <3>2, <1>1 DEF ClickExport, Runs1, ViewInv, RunInv
      <4> QED BY <3>2, <4>1 DEF ClickExport
    <3>3. CASE ~Deliver /\ ~ClickExport
      BY <3>3 DEF Next, Opens, LoopEnds, Raises, Closes, ProcessPair, DrawingRaises, Start, ClickSaveDebug, vars
    <3> QED BY <3>1, <3>2, <3>3
  <2> QED BY <2>1, <1>1, SplitType
<1> QED BY <1>2, <1>3, <1>5, <1>6, <1>7, <1>8, <1>9, <1>10, <1>11 DEF TypeOK

-----------------------------------------------------------------------------
(* The pictures and the files.                                              *)

\* Once both streams' frames are there they stay.
LEMMA FramesStay ==
  ASSUME ViewInv, Deliver, HasFrames(view)
  PROVE  HasFrames(view')
<1>1. PICK e \in Event : e = Signal(1)
  BY Delivered
<1>2. Handles(e) /\ view \in ViewType /\ run \in Runs1 /\ run > 0
  BY <1>1, Delivered
<1>3. CASE e.kind # "frame"
  BY <1>2, <1>3, HandledView DEF HasFrames
<1>4. CASE e.kind = "frame"
  <2>1. e.stream \in Streams /\ e.mask = <<run, e.pair>>
    BY <1>1, <1>4, Delivered DEF ViewInv, QueueInv, SignalRight
  <2>2. /\ view'.img = [view.img EXCEPT ![e.stream] = <<run, e.pair>>]
        /\ view'.mask = [view.mask EXCEPT ![e.stream] = <<run, e.pair>>]
    BY <1>2, <1>4, <2>1, HandledView
  <2>3. <<run, e.pair>> # None
    BY <1>2 DEF None
  <2>4. DOMAIN view.img = Streams /\ DOMAIN view.mask = Streams
    BY <1>2 DEF ViewType
  <2> QED BY <2>1, <2>2, <2>3, <2>4 DEF HasFrames
<1> QED BY <1>3, <1>4

(* The frames the page holds between two pairs are of one.                  *)
LEMMA HeldFrames ==
  ASSUME ViewInv, run > 0, HasFrames(view)
  PROVE  /\ Held(view).maskA = Held(view).imgA /\ Held(view).maskB = Held(view).imgB
         /\ Held(view).imgA[1] = run /\ Held(view).imgB[1] = run
         /\ SameFrames => Held(view).imgA = Held(view).imgB
BY DEF ViewInv, RunInv, Held, HasFrames, SameFrames, Streams

(* Stream b's frame is delivered right after stream a's of the same pair.   *)
LEMMA PeriodicFrames ==
  ASSUME ViewInv, Deliver, Signal(1).kind = "frame", Signal(1).stream = "b", HasFrames(view')
  PROVE  /\ Held(view').maskA = Held(view').imgA /\ Held(view').maskB = Held(view').imgB
         /\ Held(view').imgA[1] = run /\ Held(view').imgB = Held(view').imgA
<1>1. PICK e \in Event : e = Signal(1)
  BY Delivered
<1>2. Handles(e) /\ view \in ViewType /\ Posted # 0 /\ run' = run
  BY <1>1, Delivered
<1>3. view.img["a"] = <<run, e.pair>>
  BY <1>1, <1>2 DEF ViewInv, QueueInv, UpToDate
<1>4. view'.img = [view.img EXCEPT !["b"] = <<run, e.pair>>]
  BY <1>1, <1>2, HandledView
<1>5. RunInv'
  BY RunStep DEF Next
<1>6. view'.img["a"] = <<run, e.pair>> /\ view'.img["b"] = <<run, e.pair>>
  BY <1>2, <1>3, <1>4 DEF ViewType, Streams
<1>7. view'.mask["a"] = view'.img["a"] /\ view'.mask["b"] = view'.img["b"]
  BY <1>5 DEF RunInv, Streams
<1> QED BY <1>6, <1>7 DEF Held

LEMMA OverlayStep ==
  ASSUME ViewInv, [Next]_vars
  PROVE  OverlayOfItsFrame'
<1>1. OverlayOfItsFrame /\ pictures \in [Runs1 -> PictureFiles]
  BY DEF ViewInv, TypeOK
<1>2. CASE pictures' = pictures
  BY <1>1, <1>2 DEF OverlayOfItsFrame
<1>3. CASE pictures' # pictures
  <2>1. PICK r \in Runs1 : r = run /\ Shoots(r)
    BY <1>3, PictureCases
  <2>2. \A q \in Runs1 : q # r => pictures'[q] = pictures[q]
    BY <2>1, OtherRunsKept
  <2>3. r > 0 /\ pictures[r] \in PictureFiles
    BY <1>1, <2>1 DEF Runs1
  <2> DEFINE Good(p) == p.maskA = p.imgA /\ p.maskB = p.imgB /\ p.imgA[1] = r /\ p.imgB[1] = r
  <2>4. /\ \A p \in pictures[r].periodic \cup pictures[r].outlier \cup pictures[r].debug : Good(p)
        /\ \A p \in pictures[r].periodic \cup pictures[r].outlier : p.imgA = p.imgB
    BY <1>1 DEF OverlayOfItsFrame
  <2>5. /\ \A p \in pictures'[r].periodic \cup pictures'[r].outlier \cup pictures'[r].debug : Good(p)
        /\ \A p \in pictures'[r].periodic \cup pictures'[r].outlier : p.imgA = p.imgB
    <3>1. ASSUME NEW k, pictures' = [pictures EXCEPT ![r].outlier = @ \cup {Shot(r, k)}]
          PROVE  <2>5!1 /\ <2>5!2
      <4>1. PICK p : p = Shot(r, k)
        OBVIOUS
      <4>2. Good(p) /\ p.imgA = p.imgB
        BY <4>1 DEF Shot
      <4>3. /\ pictures'[r].outlier = pictures[r].outlier \cup {p}
            /\ pictures'[r].periodic = pictures[r].periodic /\ pictures'[r].debug = pictures[r].debug
        BY <3>1, <4>1, <1>1, <2>3 DEF PictureFiles
      <4> HIDE DEF Good
      <4> QED BY <2>4, <4>2, <4>3
    <3>2. CASE /\ Deliver /\ Signal(1).kind = "frame" /\ Signal(1).stream = "b" /\ HasFrames(view')
               /\ pictures' = [pictures EXCEPT ![r].periodic = @ \cup {Held(view')}]
      <4>1. PICK p : p = Held(view')
        OBVIOUS
      <4>2. Good(p) /\ p.imgA = p.imgB
        BY <3>2, <4>1, <2>1, PeriodicFrames
      <4>3. /\ pictures'[r].periodic = pictures[r].periodic \cup {p}
            /\ pictures'[r].outlier = pictures[r].outlier /\ pictures'[r].debug = pictures[r].debug
        BY <3>2, <4>1, <1>1, <2>3 DEF PictureFiles
      <4> HIDE DEF Good
      <4> QED BY <2>4, <4>2, <4>3
    <3>3. CASE HasFrames(view) /\ pictures' = [pictures EXCEPT ![r].debug = {Held(view)}]
      <4>1. PICK p : p = Held(view)
        OBVIOUS
      <4>2. Good(p)
        BY <3>3, <4>1, <2>1, <2>3, HeldFrames
      <4>3. /\ pictures'[r].debug = {p}
            /\ pictures'[r].outlier = pictures[r].outlier /\ pictures'[r].periodic = pictures[r].periodic
        BY <3>3, <4>1, <1>1, <2>3 DEF PictureFiles
      <4> HIDE DEF Good
      <4> QED BY <2>4, <4>2, <4>3
    <3>4. CASE pictures' = [pictures EXCEPT ![r].undrawn = TRUE]
      <4>1. /\ pictures'[r].debug = pictures[r].debug
            /\ pictures'[r].outlier = pictures[r].outlier /\ pictures'[r].periodic = pictures[r].periodic
        BY <3>4, <1>1, <2>3 DEF PictureFiles
      <4> HIDE DEF Good
      <4> QED BY <2>4, <4>1
    <3> HIDE DEF Good
    <3> QED BY <1>3, <2>1, <3>1, <3>2, <3>3, <3>4 DEF Shoots
  <2> QED BY <1>1, <2>2, <2>5 DEF OverlayOfItsFrame
<1> QED BY <1>2, <1>3

\* Run r's rows and outlier pictures stay.
LEMMA PictureKept ==
  ASSUME ViewInv, NEW r \in Runs1, rows'[r] = rows[r], pictures'[r].outlier = pictures[r].outlier,
         pictures'[r].undrawn = pictures[r].undrawn
  PROVE  /\ Saved(r)' = Saved(r) /\ OutliersOf(r)' = OutliersOf(r)
         /\ Saved(r)' \subseteq OutliersOf(r)'
         /\ pictures'[r].outlier = {Shot(r, k) : k \in Saved(r)'}
         /\ \A k \in OutliersOf(r)' \ Saved(r)' :
              \/ Cardinality(pictures'[r].outlier) = MaxOutliers /\ \A j \in Saved(r)' : j < k
              \/ pictures'[r].undrawn /\ k = Len(rows'[r]) - 1
<1>1. Saved(r)' = Saved(r)
  BY DEF Saved
<1>2. OutliersOf(r)' = OutliersOf(r)
  BY DEF OutliersOf
<1> QED BY <1>1, <1>2 DEF ViewInv, PictureInv

\* A further row of run r is an outlier or not.
LEMMA OutliersNext ==
  ASSUME NEW r \in Runs1, NEW s, NEW n \in PairIndexes, n = Len(rows[r]), Len(rows'[r]) = n + 1,
         rows'[r][n + 1] = s, \A j \in 0 .. n - 1 : rows'[r][j + 1] = rows[r][j + 1]
  PROVE  OutliersOf(r)' = OutliersOf(r) \cup (IF IsOutlier(s, n) THEN {n} ELSE {})
<1>1. \A k \in PairIndexes : k \in Nat
  BY DEF PairIndexes
<1>2. ASSUME NEW k \in PairIndexes
      PROVE  k \in OutliersOf(r)' <=> k \in OutliersOf(r) \/ (k = n /\ IsOutlier(s, n))
  <2>1. CASE k < n
    <3>1. rows'[r][k + 1] = rows[r][k + 1]
      BY <1>1, <2>1
    <3> QED BY <3>1, <1>1, <2>1 DEF OutliersOf
  <2>2. CASE k = n
    BY <2>2 DEF OutliersOf
  <2>3. CASE k > n
    BY <1>1, <2>3 DEF OutliersOf
  <2> QED BY <1>1, <2>1, <2>2, <2>3
<1>3. OutliersOf(r)' \subseteq PairIndexes /\ OutliersOf(r) \subseteq PairIndexes
  BY DEF OutliersOf
<1> QED BY <1>2, <1>3

(* A further row of run r, and its picture, if any.                         *)
LEMMA PicturePair ==
  ASSUME ViewInv, NEW s \in Samples, ProcessPair(s), NEW r \in Runs1, r = run
  PROVE  /\ Saved(r)' \subseteq OutliersOf(r)'
         /\ pictures'[r].outlier = {Shot(r, k) : k \in Saved(r)'}
         /\ \A k \in OutliersOf(r)' \ Saved(r)' :
              \/ Cardinality(pictures'[r].outlier) = MaxOutliers /\ \A j \in Saved(r)' : j < k
              \/ pictures'[r].undrawn /\ k = Len(rows'[r]) - 1
<1>1. PICK n : n = Len(rows[r])
  OBVIOUS
<1>2. /\ n \in PairIndexes /\ n \in Nat /\ rows[r] \in Seq(Samples)
      /\ rows' = [rows EXCEPT ![r] = Append(rows[r], s)] /\ Len(rows'[r]) = n + 1
  BY <1>1, PairPosted
<1>3. /\ rows'[r][n + 1] = s
      /\ \A j \in 0 .. n - 1 : rows'[r][j + 1] = rows[r][j + 1]
  <2>1. rows'[r] = Append(rows[r], s)
    BY <1>2 DEF ViewInv, TypeOK
  <2> QED BY <2>1, <1>1, <1>2
<1>4. OutliersOf(r)' = OutliersOf(r) \cup (IF IsOutlier(s, n) THEN {n} ELSE {})
  BY <1>1, <1>2, <1>3, OutliersNext
<1>5. /\ Saved(r) \subseteq OutliersOf(r)
      /\ pictures[r].outlier = {Shot(r, k) : k \in Saved(r)}
      /\ \A k \in OutliersOf(r) \ Saved(r) :
           Cardinality(pictures[r].outlier) = MaxOutliers /\ \A j \in Saved(r) : j < k
  BY <1>1, AllDrawn DEF ViewInv, PictureInv
<1>6. pictures \in [Runs1 -> PictureFiles] /\ pictures[r] \in PictureFiles
  BY DEF ViewInv, TypeOK
<1>7. CASE IsOutlier(s, n) /\ RoomForOutlier
  <2>1. pictures'[r].outlier = pictures[r].outlier \cup {Shot(r, n)}
    <3>1. pictures' = [pictures EXCEPT ![r].outlier = @ \cup {Shot(r, n)}]
      BY <1>1, <1>7 DEF ProcessPair, Shot
    <3> QED BY <3>1, <1>6 DEF PictureFiles
  <2>2. Shot(r, n).imgA[2] = n
    BY DEF Shot
  <2>3. Saved(r)' = Saved(r) \cup {n}
    BY <2>1, <2>2 DEF Saved
  <2>4. OutliersOf(r) \ Saved(r) = {}
    <3>1. Cardinality(pictures[r].outlier) < MaxOutliers /\ MaxOutliers \in Nat
      BY <1>7, ViewAssumption DEF RoomForOutlier
    <3> QED BY <3>1, <1>5
  <2> QED BY <1>4, <1>5, <1>7, <2>1, <2>3, <2>4
<1>8. CASE ~(IsOutlier(s, n) /\ RoomForOutlier)
  <2>1. pictures' = pictures
    BY <1>1, <1>8 DEF ProcessPair
  <2>2. Saved(r)' = Saved(r)
    BY <2>1 DEF Saved
  <2>3. ASSUME IsOutlier(s, n)
        PROVE  Cardinality(pictures[r].outlier) = MaxOutliers /\ \A j \in Saved(r) : j < n
    <3>1. /\ ~(Cardinality(pictures[r].outlier) < MaxOutliers)
          /\ Cardinality(pictures[r].outlier) <= MaxOutliers
          /\ IsFiniteSet(pictures[r].outlier) /\ MaxOutliers \in Nat
      BY <1>8, <2>3, ViewAssumption DEF RoomForOutlier, ViewInv, TypeOK, PictureInv
    <3>2. Cardinality(pictures[r].outlier) \in Nat
      BY <3>1, FS_CardinalityType
    <3>3. \A j \in OutliersOf(r) : j < n
      BY <1>1 DEF OutliersOf
    <3> QED BY <1>5, <3>1, <3>2, <3>3
  <2> QED BY <1>4, <1>5, <2>1, <2>2, <2>3
<1> QED BY <1>7, <1>8

(* A further row of run r whose picture could not be drawn.                 *)
LEMMA PictureUndrawn ==
  ASSUME ViewInv, NEW s \in Samples, DrawingRaises(s), NEW r \in Runs1, r = run
  PROVE  /\ Saved(r)' \subseteq OutliersOf(r)'
         /\ pictures'[r].outlier = {Shot(r, k) : k \in Saved(r)'}
         /\ \A k \in OutliersOf(r)' \ Saved(r)' :
              \/ Cardinality(pictures'[r].outlier) = MaxOutliers /\ \A j \in Saved(r)' : j < k
              \/ pictures'[r].undrawn /\ k = Len(rows'[r]) - 1
<1>1. PICK n : n = Len(rows[r])
  OBVIOUS
<1>2. /\ n \in PairIndexes /\ n \in Nat /\ rows[r] \in Seq(Samples)
      /\ rows' = [rows EXCEPT ![r] = Append(rows[r], s)] /\ Len(rows'[r]) = n + 1
      /\ pictures' = [pictures EXCEPT ![r].undrawn = TRUE]
      /\ pictures[r].undrawn = FALSE /\ pictures'[r].undrawn = TRUE
  BY <1>1, UndrawnPosted
<1>3. /\ rows'[r][n + 1] = s
      /\ \A j \in 0 .. n - 1 : rows'[r][j + 1] = rows[r][j + 1]
  <2>1. rows'[r] = Append(rows[r], s)
    BY <1>2 DEF ViewInv, TypeOK
  <2> QED BY <2>1, <1>1, <1>2
<1>4. OutliersOf(r)' = OutliersOf(r) \cup (IF IsOutlier(s, n) THEN {n} ELSE {})
  BY <1>1, <1>2, <1>3, OutliersNext
<1>5. pictures'[r].outlier = pictures[r].outlier
  <2>1. pictures \in [Runs1 -> PictureFiles] /\ pictures[r] \in PictureFiles
    BY DEF ViewInv, TypeOK
  <2> QED BY <2>1, <1>2 DEF PictureFiles
<1>6. Saved(r)' = Saved(r)
  BY <1>5 DEF Saved
<1>7. /\ Saved(r) \subseteq OutliersOf(r)
      /\ pictures[r].outlier = {Shot(r, k) : k \in Saved(r)}
      /\ \A k \in OutliersOf(r) \ Saved(r) :
           Cardinality(pictures[r].outlier) = MaxOutliers /\ \A j \in Saved(r) : j < k
  BY <1>2 DEF ViewInv, PictureInv
<1>8. Saved(r)' \subseteq OutliersOf(r)'
  BY <1>4, <1>6, <1>7
<1>9. ASSUME NEW k \in OutliersOf(r)' \ Saved(r)'
      PROVE  \/ Cardinality(pictures'[r].outlier) = MaxOutliers /\ \A j \in Saved(r)' : j < k
             \/ pictures'[r].undrawn /\ k = Len(rows'[r]) - 1
  <2>1. CASE k = n
    BY <2>1, <1>2
  <2>2. CASE k # n
    BY <2>2, <1>4, <1>5, <1>6, <1>7, <1>9
  <2> QED BY <2>1, <2>2
<1> QED BY <1>5, <1>6, <1>7, <1>8, <1>9

LEMMA PictureStep ==
  ASSUME ViewInv, [Next]_vars
  PROVE  PictureInv'
<1>1. ASSUME NEW r \in Runs1
      PROVE  /\ Saved(r)' \subseteq OutliersOf(r)'
             /\ pictures'[r].outlier = {Shot(r, k) : k \in Saved(r)'}
             /\ \A k \in OutliersOf(r)' \ Saved(r)' :
                  \/ Cardinality(pictures'[r].outlier) = MaxOutliers /\ \A j \in Saved(r)' : j < k
                  \/ pictures'[r].undrawn /\ k = Len(rows'[r]) - 1
  <2>1. CASE r # run
    BY <2>1, OtherRunsKept, PictureKept
  <2>2. ASSUME r = run, NEW s \in Samples, ProcessPair(s) \/ DrawingRaises(s) PROVE <1>1!2
    BY <2>2, PicturePair, PictureUndrawn
  <2>3. CASE r = run /\ ~(\E s \in Samples : ProcessPair(s) \/ DrawingRaises(s))
    <3>1. rows' = rows
      BY <2>3 DEF Next, Opens, LoopEnds, Raises, Closes, Start, Deliver, ClickSaveDebug, ClickExport, vars
    <3>2. pictures'[r].outlier = pictures[r].outlier /\ pictures'[r].undrawn = pictures[r].undrawn
      <4>1. pictures \in [Runs1 -> PictureFiles] /\ pictures[r] \in PictureFiles
        BY DEF ViewInv, TypeOK
      <4>2. pictures' = pictures \/ Shoots(r)
        BY <2>3, PictureCases
      <4> QED BY <2>3, <4>1, <4>2 DEF Shoots, PictureFiles
    <3> QED BY <3>1, <3>2, PictureKept
  <2> QED BY <2>1, <2>2, <2>3
<1>2. \A r \in Runs1 : IsFiniteSet(pictures'[r].periodic) /\ IsFiniteSet(pictures'[r].outlier)
  BY PictureTypeStep
<1> QED BY <1>1, <1>2 DEF PictureInv, Shot

\* The files of rows that stay are the same.
LEMMA SplitKept ==
  ASSUME NEW r \in Runs1, rows'[r] = rows[r]
  PROVE  SplitRows(r)' = SplitRows(r)
BY DEF SplitRows

\* Once all but the end was handled the two frames held are of one pair.
LEMMA FramesAtEnd ==
  ASSUME ViewInv, run > 0, HandedOver
  PROVE  SameFrames
<1>1. queue \in Seq(Event)
  BY DEF ViewInv, TypeOK
<1>2. CASE Posted = 0
  BY <1>2 DEF ViewInv, RunInv
<1>3. CASE Posted # 0
  <2>1. 1 \in 1 .. Posted
    BY <1>1, <1>3, NothingPosted
  <2>2. Closing(Signal(1)) /\ UpToDate(Signal(1))
    BY <1>3, <2>1 DEF HandedOver, ViewInv, QueueInv
  <2> QED BY <2>2 DEF Closing, UpToDate
<1> QED BY <1>2, <1>3

(* What an earlier run left complete stays, and a run's end was delivered   *)
(* before the next Start.                                                   *)
LEMMA FilesOfEarlierRuns ==
  ASSUME ViewInv, [Next]_vars
  PROVE  \A r \in Runs1 : r < run' => csvs'[r] = SplitRows(r)' /\ \A p \in pictures'[r].debug : p.imgA = p.imgB
<1>1. run \in Nat /\ (run' = run \/ (Start /\ run' = run + 1))
  BY ViewAssumption
     DEF ViewInv, TypeOK, Next, Opens, LoopEnds, Raises, Closes, ProcessPair, DrawingRaises, Start, Deliver, ClickSaveDebug,
         ClickExport, vars
<1>2. ASSUME NEW r \in Runs1, r < run
      PROVE  csvs'[r] = SplitRows(r)' /\ \A p \in pictures'[r].debug : p.imgA = p.imgB
  <2>1. r # run
    BY <1>1, <1>2 DEF Runs1
  <2>2. rows'[r] = rows[r] /\ pictures'[r] = pictures[r] /\ csvs'[r] = csvs[r]
    BY <2>1, OtherRunsKept
  <2> QED BY <1>2, <2>2, SplitKept DEF ViewInv, FilesInv
<1>3. ASSUME Start, NEW r \in Runs1, r = run
      PROVE  csvs'[r] = SplitRows(r)' /\ \A p \in pictures'[r].debug : p.imgA = p.imgB
  <2>1. UNCHANGED <<rows, csvs, pictures>> /\ ~running
    BY <1>3 DEF Start
  <2>2. thread = "gone" /\ Posted = 0
    BY <1>3, <2>1 DEF ViewInv, RunInv, TypeOK, Runs1
  <2>3. HandedOver
    BY <2>2 DEF ViewInv, FilesInv
  <2> QED BY <1>3, <2>1, <2>3, SplitKept DEF HandedOver
<1> QED BY <1>1, <1>2, <1>3 DEF Runs1

LEMMA FilesDebug ==
  ASSUME ViewInv, [Next]_vars
  PROVE  run' > 0 /\ pictures'[run'].debug # {} => HasFrames(view')
<1>1. run \in Nat /\ pictures \in [Runs1 -> PictureFiles]
  BY ViewAssumption DEF ViewInv, TypeOK
<1>2. CASE Start
  <2>1. run' \in Runs1 /\ run' > run /\ pictures' = pictures
    BY <1>1, <1>2, ViewAssumption DEF Start, Runs1
  <2>2. pictures[run'] = NoPictures
    BY <1>1, <2>1 DEF ViewInv, RunInv, Runs1
  <2> QED BY <2>1, <2>2 DEF NoPictures
<1>3. CASE ~Start
  <2>1. run' = run
    BY <1>3 DEF Next, Opens, LoopEnds, Raises, Closes, ProcessPair, DrawingRaises, Deliver, ClickSaveDebug, ClickExport, vars
  <2> SUFFICES ASSUME run \in Runs1, pictures'[run].debug # {}
               PROVE  HasFrames(view')
    BY <1>1, <2>1, ViewAssumption DEF Runs1, ViewInv, TypeOK
  <2>2. HasFrames(view)
    <3>1. pictures[run] \in PictureFiles
      BY <1>1
    <3>2. pictures' = pictures \/ Shoots(run)
      BY PictureCases
    <3>3. pictures'[run].debug = pictures[run].debug \/ HasFrames(view)
      BY <1>1, <3>1, <3>2 DEF Shoots, PictureFiles
    <3> QED BY <3>3 DEF ViewInv, FilesInv, Runs1
  <2>3. CASE Deliver
    BY <2>2, <2>3, FramesStay
  <2>4. CASE ~Deliver
    <3>1. view' = view
      BY <1>3, <2>4 DEF Next, Opens, LoopEnds, Raises, Closes, ProcessPair, DrawingRaises, ClickSaveDebug, ClickExport, vars
    <3> QED BY <2>2, <3>1
  <2> QED BY <2>3, <2>4
<1> QED BY <1>2, <1>3

(* The end of a run is on its way until the page has handled it, and its    *)
(* files stay complete from then on.                                        *)
LEMMA FilesHandedOver ==
  ASSUME ViewInv, [Next]_vars, thread' \in {"closing", "gone"}
  PROVE  HandedOver' \/ \E i \in 1 .. Posted' : Signal(i)'.kind = "finished"
<1>1. /\ csvs \in [Runs1 -> CsvFiles] /\ pictures \in [Runs1 -> PictureFiles] /\ queue \in Seq(Event)
  BY DEF ViewInv, TypeOK
<1>2. CASE LoopEnds \/ Raises \/ Closes
  <2>1. PICK m \in {1, 2} : \E e1, e2 :
          /\ EndSignals(m, e1, e2)
          /\ Posted \in Nat /\ Posted' \in Nat /\ Posted' = Posted + m
          /\ \A i \in 1 .. Posted + m :
               Signal(i)' = IF i <= Posted THEN Signal(i) ELSE IF i = Posted + 1 THEN e1 ELSE e2
    BY <1>1, <1>2, EndsWith
  <2>2. PICK e1, e2 :
          /\ EndSignals(m, e1, e2)
          /\ Posted \in Nat /\ Posted' \in Nat /\ Posted' = Posted + m
          /\ \A i \in 1 .. Posted + m :
               Signal(i)' = IF i <= Posted THEN Signal(i) ELSE IF i = Posted + 1 THEN e1 ELSE e2
    BY <2>1
  <2>3. /\ UNCHANGED <<run, rows, csvs, pictures, lastRows>> /\ thread \in {"opening", "running", "closing"}
    BY <1>2 DEF LoopEnds, Raises, Closes
  <2>4. CASE thread # "closing"
    <3>1. PICK i \in 1 .. Posted' : i = Posted + 1
      BY <2>2
    <3>2. Signal(i)' = e1 /\ e1.kind = "finished"
      BY <2>2, <2>4, <3>1 DEF EndSignals
    <3> QED BY <3>2
  <2>5. CASE thread = "closing" /\ HandedOver
    <3>1. run \in Runs1
      BY <2>5, RunFacts DEF ViewInv
    <3>2. Closing(e1) /\ (m = 2 => Closing(e2))
      BY <2>2, <2>5 DEF EndSignals
    <3>3. ASSUME NEW i \in 1 .. Posted' PROVE Closing(Signal(i))'
      <4>1. CASE i <= Posted
        <5>1. i \in 1 .. Posted /\ Signal(i)' = Signal(i)
          BY <2>2, <4>1
        <5> QED BY <5>1, <2>5 DEF HandedOver, Closing
      <4>2. CASE i > Posted
        <5>1. Signal(i)' = e1 \/ (m = 2 /\ Signal(i)' = e2)
          BY <2>2, <4>2
        <5> QED BY <5>1, <3>2 DEF Closing
      <4> QED BY <2>2, <4>1, <4>2
    <3>4. SplitRows(run)' = SplitRows(run)
      BY <2>3 DEF SplitRows
    <3> QED BY <2>3, <2>5, <3>3, <3>4 DEF HandedOver
  <2>6. CASE thread = "closing" /\ ~HandedOver
    <3>1. PICK i \in 1 .. Posted : Signal(i).kind = "finished"
      BY <2>6 DEF ViewInv, FilesInv
    <3>2. i \in 1 .. Posted' /\ Signal(i)' = Signal(i)
      BY <2>2
    <3> QED BY <3>1, <3>2
  <2> QED BY <2>4, <2>5, <2>6
<1>3. CASE Deliver
  <2>1. PICK e \in Event : e = Signal(1)
    BY <1>3, Delivered
  <2>2. /\ Handles(e) /\ run \in Runs1 /\ run > 0 /\ UNCHANGED <<run, thread, rows>>
        /\ Posted \in Nat \ {0} /\ Posted' \in Nat /\ Posted' = Posted - 1
        /\ \A i \in 1 .. Posted - 1 : Signal(i)' = Signal(i + 1)
    BY <1>3, <2>1, Delivered
  <2>3. SplitRows(run)' = SplitRows(run)
    BY <2>2 DEF SplitRows
  <2>4. CASE e.kind = "finished"
    <3>1. \A j \in 2 .. Posted : Closing(Signal(j))
      <4>1. Ending(e) /\ 1 \in 1 .. Posted
        BY <2>2, <2>4 DEF Ending
      <4>2. \A j \in 1 + 1 .. Posted : Closing(Signal(j))
        BY <2>1, <4>1 DEF ViewInv, QueueInv
      <4> QED BY <4>2
    <3>2. ASSUME NEW i \in 1 .. Posted' PROVE Closing(Signal(i))'
      <4>1. i + 1 \in 2 .. Posted /\ i \in 1 .. Posted - 1
        BY <2>2
      <4>2. Closing(Signal(i + 1)) /\ Signal(i)' = Signal(i + 1)
        BY <4>1, <3>1, <2>2
      <4> QED BY <4>2 DEF Closing
    <3>3. lastRows' = run /\ csvs' = [csvs EXCEPT ![run] = SplitRows(run)] /\ SaveDebugImages(view)
      BY <2>2, <2>4 DEF Handles, OnSessionFinished
    <3>4. \A p \in pictures'[run].debug : p.imgA = p.imgB
      <4>1. SameFrames
        BY <2>1, <2>2, <2>4 DEF ViewInv, QueueInv, UpToDate
      <4>2. CASE HasFrames(view)
        <5>1. Held(view).imgA = Held(view).imgB
          BY <4>1, <4>2, <2>2, HeldFrames
        <5>2. pictures'[run].debug = {Held(view)}
          BY <3>3, <4>2, <1>1, <2>2 DEF SaveDebugImages, PictureFiles
        <5> QED BY <5>1, <5>2
      <4>3. CASE ~HasFrames(view)
        <5>1. pictures' = pictures /\ pictures[run].debug = {}
          BY <3>3, <4>3, <2>2 DEF SaveDebugImages, ViewInv, FilesInv
        <5> QED BY <5>1
      <4> QED BY <4>2, <4>3
    <3> QED BY <3>2, <3>3, <3>4, <2>2, <2>3, <1>1 DEF HandedOver
  <2>5. CASE e.kind # "finished" /\ HandedOver
    <3>1. 1 \in 1 .. Posted
      BY <2>2
    <3>2. Closing(e)
      BY <2>1, <2>5, <3>1 DEF HandedOver
    <3>3. UNCHANGED <<lastRows, csvs, pictures>>
      BY <2>2, <3>2 DEF Handles, Closing, OnThreadFinished
    <3>4. ASSUME NEW i \in 1 .. Posted' PROVE Closing(Signal(i))'
      <4>1. i + 1 \in 1 .. Posted /\ i \in 1 .. Posted - 1
        BY <2>2
      <4>2. Closing(Signal(i + 1)) /\ Signal(i)' = Signal(i + 1)
        BY <4>1, <2>5, <2>2 DEF HandedOver
      <4> QED BY <4>2 DEF Closing
    <3> QED BY <2>2, <2>3, <2>5, <3>3, <3>4 DEF HandedOver
  <2>6. CASE e.kind # "finished" /\ ~HandedOver
    <3>1. PICK i \in 1 .. Posted : Signal(i).kind = "finished"
      BY <2>2, <2>6 DEF ViewInv, FilesInv
    <3>2. i # 1
      BY <2>1, <2>6, <3>1
    <3>3. PICK j \in 1 .. Posted' : j + 1 = i
      BY <2>2, <3>2
    <3>4. Signal(j)' = Signal(j + 1)
      BY <2>2, <3>3
    <3> QED BY <3>1, <3>3, <3>4
  <2> QED BY <2>4, <2>5, <2>6
<1>4. CASE ClickSaveDebug \/ ClickExport \/ UNCHANGED vars
  <2>1. UNCHANGED <<run, thread, rows, queue, lastRows>>
    BY <1>4 DEF ClickSaveDebug, ClickExport, vars
  <2>2. /\ Posted' = Posted /\ \A i : Signal(i)' = Signal(i)
        /\ \A e : Closing(e)' <=> Closing(e)
    BY <2>1 DEF Posted, Signal, Closing
  <2>3. run \in Runs1 /\ run > 0
    BY <2>1, RunFacts DEF ViewInv
  <2>4. CASE HandedOver
    <3>1. SplitRows(run)' = SplitRows(run)
      BY <2>1 DEF SplitRows
    <3>2. csvs'[run] = csvs[run]
      <4>1. csvs' = csvs \/ csvs' = [csvs EXCEPT ![run] = SplitRows(lastRows)]
        BY <1>4 DEF ClickSaveDebug, ClickExport, vars
      <4>2. lastRows = run /\ csvs[run] = SplitRows(run)
        BY <2>4 DEF HandedOver
      <4> QED BY <4>1, <4>2, <1>1, <2>3
    <3>3. \A p \in pictures'[run].debug : p.imgA = p.imgB
      <4>1. \A p \in pictures[run].debug : p.imgA = p.imgB
        BY <2>4 DEF HandedOver
      <4>2. pictures' = pictures \/ (HasFrames(view) /\ pictures' = [pictures EXCEPT ![run].debug = {Held(view)}])
        BY <1>4 DEF ClickSaveDebug, SaveDebugImages, ClickExport, vars
      <4>3. HasFrames(view) => Held(view).imgA = Held(view).imgB
        BY <2>3, <2>4, FramesAtEnd, HeldFrames
      <4>4. pictures'[run].debug = pictures[run].debug
            \/ (HasFrames(view) /\ pictures'[run].debug = {Held(view)})
        BY <4>2, <1>1, <2>3 DEF PictureFiles
      <4> QED BY <4>1, <4>3, <4>4
    <3>4. \A i \in 1 .. Posted' : Closing(Signal(i))'
      BY <2>2, <2>4 DEF HandedOver, Closing
    <3> QED BY <2>1, <2>4, <3>1, <3>2, <3>3, <3>4 DEF HandedOver
  <2>5. CASE ~HandedOver
    BY <2>1, <2>2, <2>5 DEF ViewInv, FilesInv
  <2> QED BY <2>4, <2>5
<1>5. CASE Opens \/ Start \/ \E s \in Samples : ProcessPair(s)
  BY <1>5 DEF Opens, Start, ProcessPair
<1>6. ASSUME NEW s \in Samples, DrawingRaises(s)
      PROVE  \E i \in 1 .. Posted' : Signal(i)'.kind = "finished"
  <2>1. PICK k : k = Len(rows[run])
    OBVIOUS
  <2>2. /\ Posted \in Nat /\ Posted' = Posted + 3
        /\ \A i \in 1 .. Posted' : i = Posted + 2 => Signal(i)' = [kind |-> "finished"]
    BY <1>6, <2>1, UndrawnPosted
  <2>3. PICK i \in 1 .. Posted' : i = Posted + 2
    BY <2>2
  <2>4. Signal(i)' = [kind |-> "finished"]
    BY <2>2, <2>3
  <2> QED BY <2>4
<1> QED BY <1>2, <1>3, <1>4, <1>5, <1>6 DEF Next

LEMMA FilesStep ==
  ASSUME ViewInv, [Next]_vars
  PROVE  FilesInv'
BY FilesOfEarlierRuns, FilesDebug, FilesHandedOver DEF FilesInv

-----------------------------------------------------------------------------
(* The drop chart and the running statistics.                               *)

\* The delivered rows that count in the statistics.
GapsSeen == {k \in Seen : ~GapExcluded(RowAt(k))}
PositionsSeen == {k \in Seen : ~PositionExcluded(RowAt(k), k)}

LEMMA ChartForm ==
  DropMarksExact <=>
    /\ \A x \in Streams :
         /\ view.marks[x] = {k \in view.plotted : \E j \in SeenDrops(x) : k - Stride < j /\ j <= k}
         /\ view.drops[x] = Cardinality(SeenDrops(x))
    /\ view.hw = Cardinality(GapsSeen) /\ view.optical = Cardinality(PositionsSeen)
BY DEF DropMarksExact, SeenDrops, Seen, GapsSeen, PositionsSeen

\* The page has seen no more rows than were recorded.
LEMMA SeenRecorded ==
  ASSUME ViewInv, run > 0
  PROVE  /\ run \in Runs1 /\ rows[run] \in Seq(Samples) /\ Len(rows[run]) \in Nat
         /\ view.seen \in Nat /\ view.seen <= Len(rows[run]) /\ Len(rows[run]) <= MaxPairs
         /\ MaxPairs \in Nat
<1>1. /\ run \in Runs1 /\ rows[run] \in Seq(Samples) /\ Len(rows[run]) \in Nat /\ view.seen \in Nat
      /\ queue \in Seq(Event) /\ Posted \in Nat
  BY RunFacts DEF ViewInv, RunInv
<1>2. Len(rows[run]) <= MaxPairs /\ MaxPairs \in Nat
  BY <1>1, ViewAssumption DEF ViewInv, TypeOK
<1>3. view.seen <= Len(rows[run])
  <2>1. CASE Posted = 0
    BY <1>1, <2>1 DEF ViewInv, RunInv
  <2>2. CASE Posted # 0
    <3>1. 1 \in 1 .. Posted
      BY <1>1, <2>2
    <3>2. PICK e \in Event : e = Signal(1)
      BY <3>1, <1>1, ElementOfSeq DEF Posted, Signal
    <3>3. UpToDate(e) /\ SignalRight(e)
      BY <2>2, <3>1, <3>2 DEF ViewInv, QueueInv
    <3>4. CASE e.kind \in {"row", "frame", "stats"}
      <4>1. e.pair \in 0 .. Len(rows[run]) - 1
        BY <3>3, <3>4 DEF SignalRight
      <4>2. e.pair = view.seen \/ e.pair = view.seen - 1
        BY <3>3, <3>4 DEF UpToDate
      <4> QED BY <4>1, <4>2, <1>1
    <3>5. CASE e.kind \in {"finished", "error", "done"}
      BY <3>3, <3>5, <1>1 DEF UpToDate
    <3> QED BY <3>4, <3>5 DEF Event
  <2> QED BY <2>1, <2>2
<1> QED BY <1>1, <1>2, <1>3

\* A chart no signal touched is still right: the rows seen stay as they are.
LEMMA ChartKept ==
  ASSUME ViewInv, view'.seen = view.seen, view'.plotted = view.plotted, view'.since = view.since,
         view'.marks = view.marks, view'.drops = view.drops,
         view'.hw = view.hw, view'.optical = view.optical,
         Shown' = Shown, \A k \in Seen : RowAt(k)' = RowAt(k),
         \A k \in PairIndexes : k < Shown => (Undrawn(k)' <=> Undrawn(k))
  PROVE  ChartInv' /\ DropMarksExact'
<1>1. Seen' = Seen
  BY DEF Seen
<1>2. \A x \in Streams : SeenDrops(x)' = SeenDrops(x)
  BY <1>1 DEF SeenDrops, OwnDrop
<1>3. GapsSeen' = GapsSeen /\ PositionsSeen' = PositionsSeen
  <2>1. \A k \in Seen : (GapExcluded(RowAt(k))' <=> GapExcluded(RowAt(k)))
                        /\ (PositionExcluded(RowAt(k), k)' <=> PositionExcluded(RowAt(k), k))
    OBVIOUS
  <2> QED BY <1>1, <2>1 DEF GapsSeen, PositionsSeen
<1>4. ChartInv'
  BY <1>2 DEF ViewInv, ChartInv
<1>5. DropMarksExact'
  <2>1. /\ \A x \in Streams :
             /\ view.marks[x] = {k \in view.plotted : \E j \in SeenDrops(x) : k - Stride < j /\ j <= k}
             /\ view.drops[x] = Cardinality(SeenDrops(x))
        /\ view.hw = Cardinality(GapsSeen) /\ view.optical = Cardinality(PositionsSeen)
    BY ChartForm DEF ViewInv
  <2>2. /\ \A x \in Streams :
             /\ view'.marks[x] = {k \in view'.plotted : \E j \in SeenDrops(x)' : k - Stride < j /\ j <= k}
             /\ view'.drops[x] = Cardinality(SeenDrops(x)')
        /\ view'.hw = Cardinality(GapsSeen') /\ view'.optical = Cardinality(PositionsSeen')
    BY <2>1, <1>2, <1>3
  <2> QED BY <2>2 DEF DropMarksExact, SeenDrops, Seen, GapsSeen, PositionsSeen
<1> QED BY <1>4, <1>5

LEMMA ChartStart ==
  ASSUME ViewInv, Start
  PROVE  ChartInv' /\ DropMarksExact'
<1>1. view' = FreshView /\ queue' = queue /\ Posted = 0
  <2>1. view' = FreshView /\ queue' = queue
    BY DEF Start, PreparedView
  <2>2. Posted = 0
    BY DEF ViewInv, RunInv, Start, TypeOK
  <2> QED BY <2>1, <2>2
<1>2. /\ view'.seen = 0 /\ view'.plotted = {} /\ view'.hw = 0 /\ view'.optical = 0
      /\ \A x \in Streams : view'.marks[x] = {} /\ view'.drops[x] = 0 /\ view'.since[x] = FALSE
  BY <1>1 DEF FreshView
<1>3. Shown' = 0
  <2>1. Posted' = 0
    BY <1>1 DEF Posted
  <2> QED BY <2>1, <1>2 DEF Shown
<1>4. \A k \in PairIndexes : ~(k < 0)
  BY ViewAssumption DEF PairIndexes
<1>5. Seen' = {}
  BY <1>2, <1>4 DEF Seen
<1>6. /\ \A x \in Streams : SeenDrops(x)' = {}
      /\ GapsSeen' = {} /\ PositionsSeen' = {}
  BY <1>5 DEF SeenDrops, GapsSeen, PositionsSeen
<1>7. Cardinality({}) = 0
  BY FS_EmptySet
<1>8. ChartInv'
  BY <1>2, <1>3, <1>4, <1>6 DEF ChartInv
<1>9. DropMarksExact'
  <2>1. /\ \A x \in Streams :
             /\ view'.marks[x] = {k \in view'.plotted : \E j \in SeenDrops(x)' : k - Stride < j /\ j <= k}
             /\ view'.drops[x] = Cardinality(SeenDrops(x)')
        /\ view'.hw = Cardinality(GapsSeen') /\ view'.optical = Cardinality(PositionsSeen')
    BY <1>2, <1>6, <1>7
  <2> QED BY <2>1 DEF DropMarksExact, SeenDrops, Seen, GapsSeen, PositionsSeen
<1> QED BY <1>8, <1>9

\* Neither the thread nor a click touches the chart.
LEMMA ChartAside ==
  ASSUME ViewInv, [Next]_vars, ~Start, ~Deliver
  PROVE  ChartInv' /\ DropMarksExact'
<1>1. view' = view /\ run' = run
  BY DEF Next, Opens, LoopEnds, Raises, Closes, ProcessPair, DrawingRaises, ClickSaveDebug, ClickExport, vars
<1>2. \A k \in Seen : RowAt(k)' = RowAt(k)
  <2>1. CASE rows' = rows
    BY <2>1, <1>1 DEF RowAt
  <2>2. ASSUME NEW s \in Samples, ProcessPair(s) \/ DrawingRaises(s), NEW k \in Seen
        PROVE  RowAt(k)' = RowAt(k)
    <3>1. /\ run \in Runs1 /\ rows[run] \in Seq(Samples) /\ rows \in [Runs1 -> Seq(Samples)]
          /\ rows' = [rows EXCEPT ![run] = Append(rows[run], s)]
          /\ run > 0
      BY <2>2, PairPosted, UndrawnPosted, RunFacts DEF ViewInv, TypeOK, ProcessPair, DrawingRaises
    <3>2. k \in Nat /\ k < Len(rows[run]) /\ Len(rows[run]) \in Nat
      BY <2>2, <3>1, SeenRecorded DEF Seen, PairIndexes
    <3>3. rows'[run][k + 1] = rows[run][k + 1]
      BY <3>1, <3>2
    <3> QED BY <3>3, <1>1 DEF RowAt
  <2>3. rows' = rows \/ \E s \in Samples : ProcessPair(s) \/ DrawingRaises(s)
    BY DEF Next, Opens, LoopEnds, Raises, Closes, ClickSaveDebug, ClickExport, vars
  <2> QED BY <2>1, <2>2, <2>3
<1>3. Shown' = Shown
  <2>1. queue \in Seq(Event) /\ Posted \in Nat
    BY NothingPosted DEF ViewInv, TypeOK
  <2>2. CASE queue' = queue
    BY <2>2, <1>1 DEF Shown, Posted, Signal
  <2>3. CASE LoopEnds \/ Raises \/ Closes
    <3>1. PICK m \in {1, 2} : \E e1, e2 :
            /\ EndSignals(m, e1, e2)
            /\ Posted' = Posted + m
            /\ \A i \in 1 .. Posted + m :
                 Signal(i)' = IF i <= Posted THEN Signal(i) ELSE IF i = Posted + 1 THEN e1 ELSE e2
      BY <2>1, <2>3, EndsWith
    <3>2. PICK e1, e2 :
            /\ EndSignals(m, e1, e2)
            /\ Posted' = Posted + m
            /\ \A i \in 1 .. Posted + m :
                 Signal(i)' = IF i <= Posted THEN Signal(i) ELSE IF i = Posted + 1 THEN e1 ELSE e2
      BY <3>1
    <3>3. /\ Posted' # 0
          /\ IF Posted = 0 THEN Signal(1)' = e1 ELSE Signal(1)' = Signal(1)
      BY <2>1, <3>2
    <3>4. e1.kind \in {"finished", "error", "done"}
      BY <3>2 DEF EndSignals, Ending
    <3> QED BY <3>3, <3>4, <1>1 DEF Shown
  <2>4. ASSUME NEW s \in Samples, ProcessPair(s) PROVE Shown' = Shown
    <3>1. PICK k : k = Len(rows[run])
      OBVIOUS
    <3>2. /\ Posted' \in Nat /\ Posted' = Posted + IF k % Stride = 0 THEN 4 ELSE 1
          /\ \A i \in 1 .. Posted : Signal(i)' = Signal(i)
          /\ \A i \in 1 .. Posted' : i = Posted + 1 => Signal(i)' = [kind |-> "row", pair |-> k]
      BY <2>4, <3>1, PairPosted
    <3>3. /\ Posted' # 0
          /\ IF Posted = 0 THEN Signal(1)' = [kind |-> "row", pair |-> k] ELSE Signal(1)' = Signal(1)
      BY <2>1, <3>2
    <3> QED BY <3>3, <1>1 DEF Shown
  <2>5. ASSUME NEW s \in Samples, DrawingRaises(s) PROVE Shown' = Shown
    <3>1. PICK k : k = Len(rows[run])
      OBVIOUS
    <3>2. /\ Posted' \in Nat /\ Posted' = Posted + 3
          /\ \A i \in 1 .. Posted : Signal(i)' = Signal(i)
          /\ \A i \in 1 .. Posted' : i = Posted + 1 => Signal(i)' = [kind |-> "row", pair |-> k]
      BY <2>5, <3>1, UndrawnPosted
    <3>3. /\ Posted' # 0
          /\ IF Posted = 0 THEN Signal(1)' = [kind |-> "row", pair |-> k] ELSE Signal(1)' = Signal(1)
      BY <2>1, <3>2
    <3> QED BY <3>3, <1>1 DEF Shown
  <2>6. \/ queue' = queue \/ LoopEnds \/ Raises \/ Closes
        \/ \E s \in Samples : ProcessPair(s) \/ DrawingRaises(s)
    BY DEF Next, Opens, ClickSaveDebug, ClickExport, vars
  <2> QED BY <2>2, <2>3, <2>4, <2>5, <2>6
<1>4. ASSUME NEW k \in PairIndexes, k < Shown
      PROVE  Undrawn(k)' <=> Undrawn(k)
  <2>1. ASSUME NEW s \in Samples, DrawingRaises(s) PROVE Undrawn(k)' <=> Undrawn(k)
    <3>1. PICK n : n = Len(rows[run])
      OBVIOUS
    <3>2. /\ n \in Nat /\ Len(rows'[run]) = n + 1 /\ pictures[run].undrawn = FALSE
          /\ run \in Runs1
      BY <2>1, <3>1, UndrawnPosted
    <3>3. run > 0
      BY <3>2, ViewAssumption DEF Runs1
    <3>4. k \in Nat /\ k < n
      BY <3>1, <3>3, <1>4, SeenRecorded DEF Shown, PairIndexes
    <3>5. ~(k = Len(rows'[run]) - 1)
      BY <3>2, <3>4
    <3> QED BY <3>2, <3>5, <1>1 DEF Undrawn
  <2>2. ASSUME NEW s \in Samples, ProcessPair(s) PROVE Undrawn(k)' <=> Undrawn(k)
    BY <2>2, AllDrawn
  <2>3. CASE ~(\E s \in Samples : ProcessPair(s) \/ DrawingRaises(s))
    <3>1. rows' = rows /\ (ClickSaveDebug => run \in Runs1) /\ TypeOK
      BY <2>3, ViewAssumption
         DEF Next, Opens, LoopEnds, Raises, Closes, ClickSaveDebug, ClickExport, vars, ViewInv, TypeOK, Runs1
    <3>2. pictures' = pictures \/ (run \in Runs1 /\ \E p : pictures' = [pictures EXCEPT ![run].debug = p])
      BY <2>3, <3>1
         DEF Next, Opens, LoopEnds, Raises, Closes, ClickSaveDebug, SaveDebugImages, ClickExport, vars
    <3> QED BY <1>1, <3>1, <3>2, UndrawnSame
  <2> QED BY <2>1, <2>2, <2>3
<1> QED BY <1>1, <1>2, <1>3, <1>4, ChartKept

(* How far the points are plotted once signal e is handled.                 *)
LEMMA ShownNext ==
  ASSUME ViewInv, Deliver, NEW e \in Event, e = Signal(1)
  PROVE  /\ e.kind = "row" =>
              /\ Shown = view.seen
              /\ Shown' = IF e.pair % Stride = 0 /\ ~Undrawn(e.pair) THEN e.pair ELSE e.pair + 1
         /\ e.kind = "frame" => Shown = view.seen - 1 /\ Shown' = Shown
         /\ e.kind = "stats" => Shown = e.pair /\ Shown' = e.pair + 1
         /\ e.kind \in {"finished", "error", "done"} => Shown' = Shown
<1>1. /\ view.seen \in Nat /\ Posted # 0 /\ Posted \in Nat /\ Posted' = Posted - 1
      /\ Handles(e) /\ view \in ViewType
      /\ \A i \in 1 .. Posted - 1 : Signal(i)' = Signal(i + 1)
  BY Delivered
<1>2. /\ e.kind # "row" => view'.seen = view.seen
      /\ e.kind = "row" => view'.seen = view.seen + 1
  BY <1>1, HandledView
<1>3. UpToDate(e) /\ SignalRight(e)
  BY <1>1 DEF ViewInv, QueueInv
<1>4. CASE Posted = 1
  <2>1. LastPosted(e) /\ Posted' = 0
    BY <1>1, <1>4 DEF ViewInv, QueueInv
  <2>2. Shown' = view'.seen
    BY <2>1 DEF Shown
  <2>3. e.kind = "row" => e.pair % Stride # 0
    BY <2>1 DEF LastPosted, PairDone
  <2>4. e.kind # "frame"
    BY <2>1 DEF LastPosted, PairDone
  <2> QED BY <1>1, <1>2, <1>3, <2>2, <2>3, <2>4 DEF Shown, UpToDate
<1>5. CASE Posted # 1
  <2>1. PICK f : f = Signal(2)
    OBVIOUS
  <2>2. Posted' # 0 /\ Signal(1)' = f /\ Follows(e, f)
    BY <1>1, <1>5, <2>1 DEF ViewInv, QueueInv
  <2>3. Shown' = IF f.kind \in {"frame", "stats"} THEN view'.seen - 1 ELSE view'.seen
    BY <2>2 DEF Shown
  <2>4. Shown = IF e.kind \in {"frame", "stats"} THEN view.seen - 1 ELSE view.seen
    BY <1>1 DEF Shown
  <2>5. CASE e.kind = "row"
    <3>1. IF e.pair % Stride = 0 /\ ~Undrawn(e.pair)
          THEN f.kind = "frame" ELSE f.kind \in {"row", "finished", "error", "done"}
      <4>1. f.kind = "frame" => ~Undrawn(f.pair)
        <5>1. SignalRight(Signal(2))
          BY <1>1, <1>5 DEF ViewInv, QueueInv
        <5> QED BY <5>1, <2>1 DEF SignalRight
      <4> QED BY <2>2, <2>5, <4>1 DEF Follows, PairDone, Ending
    <3>2. e.pair = view.seen
      BY <1>3, <2>5 DEF UpToDate
    <3> QED BY <1>1, <1>2, <2>3, <2>4, <2>5, <3>1, <3>2
  <2>6. CASE e.kind = "frame"
    <3>1. f.kind \in {"frame", "stats"}
      BY <2>2, <2>6 DEF Follows, PairDone
    <3> QED BY <1>1, <1>2, <2>3, <2>4, <2>6, <3>1
  <2>7. CASE e.kind = "stats"
    <3>1. f.kind \in {"row", "finished", "error", "done"}
      BY <2>2, <2>7 DEF Follows, PairDone, Ending
    <3>2. e.pair = view.seen - 1
      BY <1>3, <2>7 DEF UpToDate
    <3> QED BY <1>1, <1>2, <2>3, <2>4, <2>7, <3>1, <3>2
  <2>8. CASE e.kind \in {"finished", "error", "done"}
    <3>1. f.kind \in {"error", "done"}
      BY <2>2, <2>8 DEF Follows, PairDone, Closing
    <3> QED BY <1>1, <1>2, <2>3, <2>4, <2>8, <3>1
  <2> QED BY <2>5, <2>6, <2>7, <2>8 DEF Event
<1> QED BY <1>4, <1>5

\* One more element that counts or does not.
LEMMA OneMore ==
  ASSUME NEW A, IsFiniteSet(A), NEW k, k \notin A, NEW counts \in BOOLEAN
  PROVE  Cardinality(A \cup (IF counts THEN {k} ELSE {})) = Cardinality(A) + IF counts THEN 1 ELSE 0
<1>1. Cardinality(A) \in Nat
  BY FS_CardinalityType
<1>2. CASE counts
  BY <1>2, FS_AddElement
<1>3. CASE ~counts
  BY <1>1, <1>3
<1> QED BY <1>2, <1>3

\* A row delivered counts its drops, and no point is plotted yet.
LEMMA ChartRow ==
  ASSUME ViewInv, Deliver, Signal(1).kind = "row"
  PROVE  ChartInv' /\ DropMarksExact'
<1>1. PICK e \in Event : e = Signal(1)
  BY Delivered
<1>2. PICK k : k = e.pair
  OBVIOUS
<1>3. /\ run \in Runs1 /\ run > 0 /\ view \in ViewType /\ Stride \in Nat \ {0}
      /\ OnRowReady(e) /\ UNCHANGED <<run, rows>> /\ k = view.seen /\ k \in Nat
      /\ k \in 0 .. Len(rows[run]) - 1
  <2>1. Handles(e) /\ UpToDate(e) /\ SignalRight(e)
    BY <1>1, Delivered DEF ViewInv, QueueInv
  <2> QED BY <2>1, <1>1, <1>2, Delivered DEF Handles, UpToDate, SignalRight
<1>4. k \in PairIndexes
  BY <1>3, SeenRecorded DEF PairIndexes
<1>5. PICK s \in SampleType : s = RowAt(k)
  BY <1>3, RowType
<1> DEFINE dropped == [a |-> s.dropA, b |-> s.dropB]
<1>6. /\ view'.seen = view.seen + 1 /\ view'.plotted = view.plotted /\ view'.marks = view.marks
      /\ \A x \in Streams : /\ view'.drops[x] = view.drops[x] + IF OwnDrop(x, k) THEN 1 ELSE 0
                            /\ view'.since[x] <=> view.since[x] \/ OwnDrop(x, k)
      /\ view'.hw = view.hw + IF ~GapExcluded(RowAt(k)) THEN 1 ELSE 0
      /\ view'.optical = view.optical + IF ~PositionExcluded(RowAt(k), k) THEN 1 ELSE 0
  <2>1. view' = [view EXCEPT
            !.drops = [x \in Streams |-> @[x] + IF dropped[x] THEN 1 ELSE 0],
            !.since = [x \in Streams |-> @[x] \/ dropped[x]],
            !.hw = @ + IF GapExcluded(s) THEN 0 ELSE 1,
            !.optical = @ + IF PositionExcluded(s, k) THEN 0 ELSE 1,
            !.seen = @ + 1]
    BY <1>2, <1>3, <1>5 DEF OnRowReady
  <2>2. \A x \in Streams : dropped[x] = OwnDrop(x, k)
    BY <1>5 DEF OwnDrop, Streams
  <2> HIDE DEF dropped
  <2>3. /\ view'.seen = view.seen + 1 /\ view'.plotted = view.plotted /\ view'.marks = view.marks
        /\ view'.drops = [x \in Streams |-> view.drops[x] + IF dropped[x] THEN 1 ELSE 0]
        /\ view'.since = [x \in Streams |-> view.since[x] \/ dropped[x]]
        /\ view'.hw = view.hw + IF GapExcluded(s) THEN 0 ELSE 1
        /\ view'.optical = view.optical + IF PositionExcluded(s, k) THEN 0 ELSE 1
    BY <2>1, <1>3 DEF ViewType
  <2> QED BY <2>2, <2>3, <1>5
<1>7. \A j : RowAt(j)' = RowAt(j)
  BY <1>3 DEF RowAt
<1>8. Seen' = Seen \cup {k} /\ k \notin Seen /\ IsFiniteSet(Seen)
  <2>1. \A j \in PairIndexes : j \in Nat
    BY DEF PairIndexes
  <2>2. Seen' = Seen \cup {k} /\ k \notin Seen
    <3>1. PICK v : v = view.seen /\ v \in Nat
      BY <1>3
    <3>2. \A j \in PairIndexes : (j < v + 1 <=> j < v \/ j = k) /\ (j = k => ~(j < v))
      BY <2>1, <1>3, <3>1
    <3>3. Seen = {j \in PairIndexes : j < v} /\ Seen' = {j \in PairIndexes : j < v + 1}
      BY <3>1, <1>6 DEF Seen
    <3> QED BY <3>2, <3>3, <1>4
  <2>3. IsFiniteSet(PairIndexes) /\ Seen \subseteq PairIndexes
    <3>1. 0 \in Int /\ MaxPairs - 1 \in Int
      BY ViewAssumption
    <3>2. IsFiniteSet(0 .. MaxPairs - 1)
      BY <3>1, FS_Interval
    <3> QED BY <3>2 DEF PairIndexes, Seen
  <2> QED BY <2>2, <2>3, FS_Subset
<1>9. \A x \in Streams : SeenDrops(x)' = SeenDrops(x) \cup (IF OwnDrop(x, k) THEN {k} ELSE {})
  BY <1>7, <1>8 DEF SeenDrops, OwnDrop
<1>10. /\ GapsSeen' = GapsSeen \cup (IF ~GapExcluded(RowAt(k)) THEN {k} ELSE {})
       /\ PositionsSeen' = PositionsSeen \cup (IF ~PositionExcluded(RowAt(k), k) THEN {k} ELSE {})
  <2>1. \A j : /\ GapExcluded(RowAt(j))' <=> GapExcluded(RowAt(j))
               /\ PositionExcluded(RowAt(j), j)' <=> PositionExcluded(RowAt(j), j)
    BY <1>7
  <2> QED BY <1>8, <2>1 DEF GapsSeen, PositionsSeen
<1>11. /\ \A x \in Streams : SeenDrops(x) \subseteq Seen
       /\ GapsSeen \subseteq Seen /\ PositionsSeen \subseteq Seen
  BY DEF SeenDrops, GapsSeen, PositionsSeen
<1>12. \A p \in view.plotted : p \in Nat /\ p < k
  BY <1>1, <1>3, ShownNext DEF ViewInv, ChartInv, PairIndexes
<1>13. ChartInv'
  <2>1. view'.plotted = {j \in PairIndexes : j % Stride = 0 /\ j < Shown' /\ ~Undrawn(j)'}
    <3>1. Shown = k /\ Shown' = IF k % Stride = 0 /\ ~Undrawn(k) THEN k ELSE k + 1
      BY <1>1, <1>2, <1>3, ShownNext
    <3>2. view.plotted = {j \in PairIndexes : j % Stride = 0 /\ j < k /\ ~Undrawn(j)}
      BY <3>1 DEF ViewInv, ChartInv
    <3>3. ASSUME NEW j \in PairIndexes
          PROVE  j % Stride = 0 /\ j < k /\ ~Undrawn(j) <=> j % Stride = 0 /\ j < Shown' /\ ~Undrawn(j)
      <4>1. j \in Nat
        BY DEF PairIndexes
      <4>2. CASE j = k
        BY <4>2, <1>3, <3>1
      <4>3. CASE j # k
        BY <4>1, <4>3, <1>3, <3>1
      <4> QED BY <4>2, <4>3
    <3>4. \A j : Undrawn(j)' <=> Undrawn(j)
      BY DeliveredUndrawn
    <3> QED BY <1>6, <3>2, <3>3, <3>4
  <2>2. ASSUME NEW x \in Streams
        PROVE  view'.since[x] <=> \E j \in SeenDrops(x)' : \A p \in view'.plotted : p < j
    <3>1. view.since[x] <=> \E j \in SeenDrops(x) : \A p \in view.plotted : p < j
      BY DEF ViewInv, ChartInv
    <3> QED BY <3>1, <1>6, <1>9, <1>12
  <2> QED BY <2>1, <2>2 DEF ChartInv
<1>14. DropMarksExact'
  <2>1. /\ \A x \in Streams :
             /\ view.marks[x] = {p \in view.plotted : \E j \in SeenDrops(x) : p - Stride < j /\ j <= p}
             /\ view.drops[x] = Cardinality(SeenDrops(x))
        /\ view.hw = Cardinality(GapsSeen) /\ view.optical = Cardinality(PositionsSeen)
    BY ChartForm DEF ViewInv
  <2>2. ASSUME NEW x \in Streams
        PROVE  /\ view'.marks[x] = {p \in view'.plotted : \E j \in SeenDrops(x)' : p - Stride < j /\ j <= p}
               /\ view'.drops[x] = Cardinality(SeenDrops(x)')
    <3>1. ASSUME NEW p \in view.plotted
          PROVE  (\E j \in SeenDrops(x)' : p - Stride < j /\ j <= p)
                 <=> \E j \in SeenDrops(x) : p - Stride < j /\ j <= p
      <4>1. ~(k <= p)
        BY <1>3, <1>12
      <4> QED BY <4>1, <1>9
    <3>2. Cardinality(SeenDrops(x)') = Cardinality(SeenDrops(x)) + IF OwnDrop(x, k) THEN 1 ELSE 0
      <4>1. IsFiniteSet(SeenDrops(x)) /\ k \notin SeenDrops(x) /\ OwnDrop(x, k) \in BOOLEAN
        BY <1>5, <1>8, <1>11, FS_Subset DEF OwnDrop, SampleType
      <4> QED BY <4>1, <1>9, OneMore
    <3> QED BY <2>1, <3>1, <3>2, <1>6
  <2>3. view'.hw = Cardinality(GapsSeen') /\ view'.optical = Cardinality(PositionsSeen')
    <3>1. /\ IsFiniteSet(GapsSeen) /\ k \notin GapsSeen
          /\ IsFiniteSet(PositionsSeen) /\ k \notin PositionsSeen
      BY <1>8, <1>11, FS_Subset
    <3>2. PICK gap \in BOOLEAN : gap = ~GapExcluded(RowAt(k))
      OBVIOUS
    <3>3. PICK pos \in BOOLEAN : pos = ~PositionExcluded(RowAt(k), k)
      OBVIOUS
    <3>4. /\ Cardinality(GapsSeen') = Cardinality(GapsSeen) + IF gap THEN 1 ELSE 0
          /\ Cardinality(PositionsSeen') = Cardinality(PositionsSeen) + IF pos THEN 1 ELSE 0
      BY <3>1, <3>2, <3>3, <1>10, OneMore
    <3> QED BY <2>1, <3>2, <3>3, <3>4, <1>6
  <2> QED BY <2>2, <2>3 DEF DropMarksExact, SeenDrops, Seen, GapsSeen, PositionsSeen
<1> QED BY <1>13, <1>14

\* A point shows the drops since the point before it, and starts anew.
LEMMA ChartPoint ==
  ASSUME ViewInv, Deliver, Signal(1).kind = "stats"
  PROVE  ChartInv' /\ DropMarksExact'
<1>1. PICK e \in Event : e = Signal(1)
  BY Delivered
<1>2. PICK k : k = e.pair
  OBVIOUS
<1>3. /\ run \in Runs1 /\ run > 0 /\ view \in ViewType /\ Stride \in Nat \ {0}
      /\ OnStatsReady(e) /\ UNCHANGED <<run, rows>> /\ view.seen = k + 1 /\ k \in Nat
      /\ k % Stride = 0 /\ Len(rows[run]) \in Nat /\ k < Len(rows[run])
  <2>1. /\ Handles(e) /\ UpToDate(e) /\ SignalRight(e) /\ view.seen \in Nat
        /\ Len(rows[run]) \in Nat
    BY <1>1, Delivered DEF ViewInv, QueueInv
  <2>2. OnStatsReady(e) /\ k = view.seen - 1 /\ k \in 0 .. Len(rows[run]) - 1 /\ k % Stride = 0
    BY <2>1, <1>1, <1>2 DEF Handles, UpToDate, SignalRight
  <2> QED BY <2>1, <2>2, Delivered
<1>4. k \in PairIndexes
  BY <1>3, SeenRecorded DEF PairIndexes
<1>5. /\ view'.seen = view.seen /\ view'.drops = view.drops
      /\ view'.hw = view.hw /\ view'.optical = view.optical
      /\ view'.plotted = view.plotted \cup {k}
      /\ \A x \in Streams : /\ view'.since[x] = FALSE
                            /\ view'.marks[x] = view.marks[x] \cup (IF view.since[x] THEN {k} ELSE {})
  <2>1. view' = [view EXCEPT
         !.marks = [x \in Streams |-> IF view.since[x] THEN @[x] \cup {k} ELSE @[x]],
         !.plotted = @ \cup {k},
         !.since = [x \in Streams |-> FALSE]]
    BY <1>2, <1>3 DEF OnStatsReady, DropMark
  <2>2. /\ view'.seen = view.seen /\ view'.drops = view.drops
        /\ view'.hw = view.hw /\ view'.optical = view.optical
        /\ view'.plotted = view.plotted \cup {k}
        /\ view'.since = [x \in Streams |-> FALSE]
        /\ view'.marks = [x \in Streams |-> IF view.since[x] THEN view.marks[x] \cup {k} ELSE view.marks[x]]
    BY <2>1, <1>3 DEF ViewType
  <2> QED BY <2>2
<1>6. Seen' = Seen /\ \A j : RowAt(j)' = RowAt(j)
  BY <1>3, <1>5 DEF Seen, RowAt
<1>7. /\ \A x \in Streams : SeenDrops(x)' = SeenDrops(x)
      /\ GapsSeen' = GapsSeen /\ PositionsSeen' = PositionsSeen
  <2>1. \A j : /\ GapExcluded(RowAt(j))' <=> GapExcluded(RowAt(j))
               /\ PositionExcluded(RowAt(j), j)' <=> PositionExcluded(RowAt(j), j)
    BY <1>6
  <2> QED BY <1>6, <2>1 DEF SeenDrops, OwnDrop, GapsSeen, PositionsSeen
<1>8. /\ view.plotted = {j \in PairIndexes : j % Stride = 0 /\ j < k}
      /\ Shown' = k + 1 /\ \A j : Undrawn(j)' <=> Undrawn(j)
      /\ \A j \in PairIndexes : j <= k => ~Undrawn(j)
  <2>1. /\ view.plotted = {j \in PairIndexes : j % Stride = 0 /\ j < k /\ ~Undrawn(j)}
        /\ Shown' = k + 1 /\ \A j : Undrawn(j)' <=> Undrawn(j)
    BY <1>1, <1>2, ShownNext, DeliveredUndrawn DEF ViewInv, ChartInv
  <2>2. ASSUME NEW j \in PairIndexes, j <= k PROVE ~Undrawn(j)
    <3>1. CASE j = k
      BY <1>1, <1>2, <3>1, Delivered DEF ViewInv, QueueInv, SignalRight
    <3>2. CASE j # k
      <4>1. j \in Nat /\ j # Len(rows[run]) - 1
        BY <1>3, <2>2, <3>2 DEF PairIndexes
      <4> QED BY <4>1 DEF Undrawn
    <3> QED BY <3>1, <3>2
  <2>3. \A j \in PairIndexes : j < k => ~Undrawn(j)
    BY <1>3, <2>2 DEF PairIndexes
  <2> QED BY <2>1, <2>2, <2>3
<1>9. \A x \in Streams : \A j \in SeenDrops(x) : j \in Nat /\ j <= k
  BY <1>3 DEF SeenDrops, Seen, PairIndexes
<1>10. ChartInv'
  <2>1. view'.plotted = {j \in PairIndexes : j % Stride = 0 /\ j < Shown' /\ ~Undrawn(j)'}
    <3>1. \A j \in PairIndexes : (j < k + 1 <=> j < k \/ j = k) /\ (j < k + 1 => j <= k)
      BY <1>3 DEF PairIndexes
    <3> QED BY <3>1, <1>3, <1>4, <1>5, <1>8
  <2>2. ASSUME NEW x \in Streams, NEW j \in SeenDrops(x)'
        PROVE  \E p \in view'.plotted : ~(p < j)
    <3>1. ~(k < j)
      BY <1>3, <1>7, <1>9
    <3> QED BY <3>1, <1>5
  <2> QED BY <2>1, <2>2, <1>5 DEF ChartInv
<1>11. ASSUME NEW x \in Streams
       PROVE  view.since[x] <=> \E j \in SeenDrops(x) : k - Stride < j /\ j <= k
  <2>1. view.since[x] <=> \E j \in SeenDrops(x) : \A p \in view.plotted : p < j
    BY DEF ViewInv, ChartInv
  <2>2. ASSUME NEW j \in SeenDrops(x), k - Stride < j, NEW p \in view.plotted PROVE p < j
    <3>1. p \in Nat /\ p % Stride = 0 /\ p < k
      BY <1>8 DEF PairIndexes
    <3>2. p <= k - Stride
      BY <3>1, <1>3, MultiplesApart
    <3> QED BY <3>1, <3>2, <2>2, <1>3, <1>9
  <2>3. ASSUME NEW j \in SeenDrops(x), \A p \in view.plotted : p < j PROVE k - Stride < j
    <3>1. CASE k = 0
      BY <3>1, <1>3, <1>9
    <3>2. CASE k # 0
      <4>1. k - Stride \in Nat /\ (k - Stride) % Stride = 0
        BY <1>3, <3>2, NextMultiple
      <4>2. k - Stride \in PairIndexes /\ k - Stride < k
        BY <4>1, <1>3, <1>4, ViewAssumption DEF PairIndexes
      <4> QED BY <4>1, <4>2, <1>8, <2>3
    <3> QED BY <3>1, <3>2
  <2> QED BY <2>1, <2>2, <2>3, <1>9
<1>12. DropMarksExact'
  <2>1. /\ \A x \in Streams :
             /\ view.marks[x] = {p \in view.plotted : \E j \in SeenDrops(x) : p - Stride < j /\ j <= p}
             /\ view.drops[x] = Cardinality(SeenDrops(x))
        /\ view.hw = Cardinality(GapsSeen) /\ view.optical = Cardinality(PositionsSeen)
    BY ChartForm DEF ViewInv
  <2>2. ASSUME NEW x \in Streams
        PROVE  view'.marks[x] = {p \in view'.plotted : \E j \in SeenDrops(x)' : p - Stride < j /\ j <= p}
    BY <2>1, <1>5, <1>7, <1>11
  <2>3. /\ \A x \in Streams : view'.drops[x] = Cardinality(SeenDrops(x)')
        /\ view'.hw = Cardinality(GapsSeen') /\ view'.optical = Cardinality(PositionsSeen')
    BY <2>1, <1>5, <1>7
  <2> QED BY <2>2, <2>3 DEF DropMarksExact, SeenDrops, Seen, GapsSeen, PositionsSeen
<1> QED BY <1>10, <1>12

LEMMA ChartDeliver ==
  ASSUME ViewInv, Deliver
  PROVE  ChartInv' /\ DropMarksExact'
<1>1. PICK e \in Event : e = Signal(1)
  BY Delivered
<1>2. /\ Handles(e) /\ view \in ViewType /\ UNCHANGED <<run, rows>>
  BY <1>1, Delivered
<1>3. CASE e.kind \notin {"row", "stats"}
  <2>1. Shown' = Shown
    BY <1>1, <1>3, ShownNext DEF Event
  <2>2. \A k \in Seen : RowAt(k)' = RowAt(k)
    BY <1>2 DEF RowAt
  <2>3. \/ view' = view
        \/ view' = [view EXCEPT !.img[e.stream] = <<run, e.pair>>, !.mask[e.stream] = MaskOf(e)]
    BY <1>2, <1>3 DEF Handles, OnFrameReady, OnSessionFinished, OnThreadFinished
  <2>4. /\ view'.seen = view.seen /\ view'.plotted = view.plotted /\ view'.since = view.since
        /\ view'.marks = view.marks /\ view'.drops = view.drops
        /\ view'.hw = view.hw /\ view'.optical = view.optical
    BY <2>3, <1>2 DEF ViewType
  <2> QED BY <2>1, <2>2, <2>4, DeliveredUndrawn, ChartKept
<1> QED BY <1>1, <1>3, ChartRow, ChartPoint

LEMMA ChartStep ==
  ASSUME ViewInv, [Next]_vars
  PROVE  ChartInv' /\ DropMarksExact'
BY ChartStart, ChartDeliver, ChartAside

-----------------------------------------------------------------------------
(* The position gap.                                                        *)

\* Going round the circle.
LEMMA GoingRound ==
  ASSUME NEW n \in Nat \ {0}, NEW e \in 0 .. n - 1
  PROVE  /\ (e + 1) % n = IF e = n - 1 THEN 0 ELSE e + 1
         /\ \A i \in 0 .. n - 1 : (e - i + n) % n = IF i <= e THEN e - i ELSE e - i + n
<1>1. ASSUME NEW m \in 0 .. n - 1 PROVE m % n = m /\ (m + n) % n = m
  <2>1. m % n = m
    BY <1>1
  <2>2. (m + n) % n = m
    BY <1>1
  <2> QED BY <2>1, <2>2
<1>2. (e + 1) % n = IF e = n - 1 THEN 0 ELSE e + 1
  <2>1. CASE e = n - 1
    <3>1. 0 \in 0 .. n - 1 /\ e + 1 = 0 + n
      BY <2>1
    <3> QED BY <2>1, <3>1, <1>1
  <2>2. CASE e # n - 1
    <3>1. e + 1 \in 0 .. n - 1
      BY <2>2
    <3> QED BY <2>2, <3>1, <1>1
  <2> QED BY <2>1, <2>2
<1>3. ASSUME NEW i \in 0 .. n - 1
      PROVE  (e - i + n) % n = IF i <= e THEN e - i ELSE e - i + n
  <2>1. CASE i <= e
    <3>1. e - i \in 0 .. n - 1
      BY <2>1
    <3> QED BY <2>1, <3>1, <1>1
  <2>2. CASE ~(i <= e)
    <3>1. e - i + n \in 0 .. n - 1
      BY <2>2
    <3> QED BY <2>2, <3>1, <1>1
  <2> QED BY <2>1, <2>2
<1> QED BY <1>2, <1>3

LEMMA GapRight ==
  ASSUME NEW n \in Nat \ {0}, NEW a \in 0 .. n - 1, NEW b \in 0 .. n - 1
  PROVE  LET g == ComputePositionGap(a, b, n)
         IN -n < 2 * g /\ 2 * g <= n /\ (g - (a - b)) % n = 0
<1> DEFINE g == ComputePositionGap(a, b, n)
<1>1. \E p \in {-1, 0, 1} : g = a - b + p * n /\ -n < 2 * g /\ 2 * g <= n
  <2>1. CASE 2 * (a - b) > n
    BY <2>1 DEF ComputePositionGap
  <2>2. CASE 2 * (a - b) <= -n
    BY <2>2 DEF ComputePositionGap
  <2>3. CASE ~(2 * (a - b) > n) /\ ~(2 * (a - b) <= -n)
    BY <2>3 DEF ComputePositionGap
  <2> QED BY <2>1, <2>2, <2>3
<1> HIDE DEF g
<1>2. PICK p \in {-1, 0, 1} : g = a - b + p * n /\ -n < 2 * g /\ 2 * g <= n
  BY <1>1
<1>3. g - (a - b) = p * n
  BY <1>2
<1>4. (p * n) % n = 0
  OBVIOUS
<1> QED BY <1>2, <1>3, <1>4 DEF g

\* A run of LEDs that are on, and one that no LED can be added to.
IsRun(on, r) ==
  /\ r.len = r.last - r.first + 1 /\ r.first <= r.last /\ r.first .. r.last \subseteq on
  /\ r.first - 1 \notin on /\ r.last + 1 \notin on

LEMMA RunsAre ==
  ASSUME NEW n \in Nat \ {0}, NEW on, NEW r \in Runs(on, n)
  PROVE  r.first \in 0 .. n - 1 /\ r.last \in 0 .. n - 1 /\ IsRun(on, r)
<1>1. PICK p \in (0 .. n - 1) \X (0 .. n - 1) :
        /\ p[1] <= p[2] /\ p[1] .. p[2] \subseteq on /\ p[1] - 1 \notin on /\ p[2] + 1 \notin on
        /\ r = [first |-> p[1], last |-> p[2], len |-> p[2] - p[1] + 1]
  BY DEF Runs
<1> QED BY <1>1 DEF IsRun

\* LEDs that are on without a break are in one run.
LEMMA RunAround ==
  ASSUME NEW n \in Nat \ {0}, NEW on, on \subseteq 0 .. n - 1,
         NEW a \in 0 .. n - 1, NEW b \in 0 .. n - 1, a <= b, a .. b \subseteq on
  PROVE  \E r \in Runs(on, n) : r.first <= a /\ b <= r.last
<1>1. PICK x \in 0 .. n - 1 :
        /\ x <= a /\ x .. b \subseteq on
        /\ \A z \in 0 .. n - 1 : z .. b \subseteq on => x <= z
  <2> DEFINE S == {z \in 0 .. n - 1 : z .. b \subseteq on}
  <2>1. a \in S /\ S \subseteq Nat
    OBVIOUS
  <2>2. PICK x \in S : \A z \in S : x <= z
    BY <2>1, LeastOf
  <2> QED BY <2>1, <2>2
<1>2. PICK y \in 0 .. n - 1 :
        /\ b <= y /\ a .. y \subseteq on
        /\ \A z \in 0 .. n - 1 : a .. z \subseteq on => z <= y
  <2> DEFINE S == {n - 1 - z : z \in {z \in 0 .. n - 1 : a .. z \subseteq on}}
  <2>1. n - 1 - b \in S /\ S \subseteq Nat
    OBVIOUS
  <2>2. PICK i \in S : \A j \in S : i <= j
    BY <2>1, LeastOf
  <2>3. PICK y \in 0 .. n - 1 : i = n - 1 - y /\ a .. y \subseteq on
    BY <2>2
  <2>4. ASSUME NEW z \in 0 .. n - 1, a .. z \subseteq on PROVE z <= y
    <3>1. n - 1 - z \in S
      BY <2>4
    <3> HIDE DEF S
    <3>2. i <= n - 1 - z
      BY <2>2, <3>1
    <3> QED BY <2>3, <3>2
  <2>5. b <= y
    BY <2>4
  <2> QED BY <2>3, <2>4, <2>5
<1>3. x <= y /\ x .. y \subseteq on
  BY <1>1, <1>2
<1>4. x - 1 \notin on
  <2> SUFFICES ASSUME x - 1 \in on PROVE FALSE
    OBVIOUS
  <2>1. x - 1 \in 0 .. n - 1 /\ (x - 1) .. b \subseteq on
    BY <1>1
  <2> QED BY <1>1, <2>1
<1>5. y + 1 \notin on
  <2> SUFFICES ASSUME y + 1 \in on PROVE FALSE
    OBVIOUS
  <2>1. y + 1 \in 0 .. n - 1 /\ a .. (y + 1) \subseteq on
    BY <1>2
  <2> QED BY <1>2, <2>1
<1>6. [first |-> x, last |-> y, len |-> y - x + 1] \in Runs(on, n)
  <2>1. <<x, y>> \in {p \in (0 .. n - 1) \X (0 .. n - 1) :
              /\ p[1] <= p[2] /\ p[1] .. p[2] \subseteq on
              /\ p[1] - 1 \notin on /\ p[2] + 1 \notin on}
    BY <1>3, <1>4, <1>5
  <2> QED BY <2>1 DEF Runs
<1> QED BY <1>1, <1>2, <1>6

(* The run or joined run c, going round from its last LED.                  *)
Round(on, n, c) ==
  /\ c.len \in 1 .. n /\ c.first \in 0 .. n - 1 /\ c.last \in 0 .. n - 1
  /\ EndsRun(on, n, c.last)
  /\ \A i \in 0 .. c.len - 1 : (c.last - i + n) % n \in on

Heads(on, n) == {r \in Runs(on, n) : r.first = 0}
Tails(on, n) == {r \in Runs(on, n) : r.last = n - 1}
Touch(on, n) == Heads(on, n) # {} /\ Tails(on, n) # {} /\ Heads(on, n) # Tails(on, n)
Joined(t, h) == [first |-> t.first, last |-> h.last, len |-> h.len + t.len]

LEMMA CandidatesAre ==
  ASSUME NEW n, NEW on
  PROVE  Candidates(on, n) =
           IF Touch(on, n)
           THEN (Runs(on, n) \ (Heads(on, n) \cup Tails(on, n))) \cup
                {Joined(t, h) : h \in Heads(on, n), t \in Tails(on, n)}
           ELSE Runs(on, n)
BY DEF Candidates, Touch, Heads, Tails, Joined

\* Two runs that start or end at the same LED are one.
LEMMA OneHead ==
  ASSUME NEW n \in Nat \ {0}, NEW on, on \subseteq 0 .. n - 1,
         NEW r \in Runs(on, n), NEW s \in Runs(on, n)
  PROVE  r.first = s.first \/ r.last = s.last => r = s
<1>1. /\ r.first \in 0 .. n - 1 /\ r.last \in 0 .. n - 1 /\ IsRun(on, r)
      /\ s.first \in 0 .. n - 1 /\ s.last \in 0 .. n - 1 /\ IsRun(on, s)
  BY RunsAre
<1>2. ASSUME r.first = s.first PROVE r.last = s.last
  <2>1. CASE r.last < s.last
    <3>1. r.last + 1 \in s.first .. s.last
      BY <1>1, <1>2, <2>1 DEF IsRun
    <3> QED BY <1>1, <3>1 DEF IsRun
  <2>2. CASE s.last < r.last
    <3>1. s.last + 1 \in r.first .. r.last
      BY <1>1, <1>2, <2>2 DEF IsRun
    <3> QED BY <1>1, <3>1 DEF IsRun
  <2> QED BY <1>1, <2>1, <2>2
<1>3. ASSUME r.last = s.last PROVE r.first = s.first
  <2>1. CASE r.first < s.first
    <3>1. s.first - 1 \in r.first .. r.last
      BY <1>1, <1>3, <2>1 DEF IsRun
    <3> QED BY <1>1, <3>1 DEF IsRun
  <2>2. CASE s.first < r.first
    <3>1. r.first - 1 \in s.first .. s.last
      BY <1>1, <1>3, <2>2 DEF IsRun
    <3> QED BY <1>1, <3>1 DEF IsRun
  <2> QED BY <1>1, <2>1, <2>2
<1>4. ASSUME r.first = s.first, r.last = s.last PROVE r = s
  <2>1. r.len = s.len
    BY <1>1, <1>4 DEF IsRun
  <2>2. /\ r = [first |-> r.first, last |-> r.last, len |-> r.len]
        /\ s = [first |-> s.first, last |-> s.last, len |-> s.len]
    BY DEF Runs
  <2> QED BY <1>4, <2>1, <2>2
<1> QED BY <1>2, <1>3, <1>4

\* A run that does not touch another across LED 0 is one on the circle.
LEMMA RunRound ==
  ASSUME NEW n \in Nat \ {0}, NEW on, on \subseteq 0 .. n - 1, NEW r \in Runs(on, n),
         ~Touch(on, n) \/ r.last # n - 1
  PROVE  Round(on, n, r)
<1>1. r.first \in 0 .. n - 1 /\ r.last \in 0 .. n - 1 /\ IsRun(on, r)
  BY RunsAre
<1>2. r.len \in 1 .. n
  BY <1>1 DEF IsRun
<1>3. ASSUME NEW i \in 0 .. r.len - 1 PROVE (r.last - i + n) % n \in on
  <2>1. i \in 0 .. n - 1 /\ i <= r.last /\ r.last - i \in r.first .. r.last
    BY <1>1, <1>2 DEF IsRun
  <2>2. (r.last - i + n) % n = r.last - i
    BY <1>1, <2>1, GoingRound
  <2> QED BY <1>1, <2>1, <2>2 DEF IsRun
<1>4. EndsRun(on, n, r.last)
  <2>1. r.last \in on
    BY <1>1 DEF IsRun
  <2>2. (r.last + 1) % n = IF r.last = n - 1 THEN 0 ELSE r.last + 1
    BY <1>1, GoingRound
  <2>3. CASE r.last # n - 1
    BY <1>1, <2>1, <2>2, <2>3 DEF EndsRun, IsRun
  <2>4. CASE r.last = n - 1 /\ 0 \notin on
    BY <2>1, <2>2, <2>4 DEF EndsRun
  <2>5. CASE r.last = n - 1 /\ 0 \in on
    <3>1. PICK h \in Runs(on, n) : h.first <= 0
      <4>1. PICK z \in 0 .. n - 1 : z = 0
        OBVIOUS
      <4>2. z <= z /\ z .. z \subseteq on
        BY <2>5, <4>1
      <4>3. \E h \in Runs(on, n) : h.first <= z /\ z <= h.last
        BY <4>2, RunAround
      <4> QED BY <4>1, <4>3
    <3>2. h.first = 0
      BY <3>1, RunsAre
    <3>3. h \in Heads(on, n) /\ r \in Tails(on, n) /\ Heads(on, n) = Tails(on, n)
      BY <2>5, <3>2 DEF Touch, Heads, Tails
    <3>4. r.first = 0
      BY <3>3 DEF Heads
    <3>5. on = 0 .. n - 1
      BY <1>1, <2>5, <3>4 DEF IsRun
    <3> QED BY <2>1, <3>5 DEF EndsRun
  <2> QED BY <2>3, <2>4, <2>5
<1> QED BY <1>1, <1>2, <1>3, <1>4 DEF Round

\* Two that touch are one on the circle, as long as both.
LEMMA JoinedRound ==
  ASSUME NEW n \in Nat \ {0}, NEW on, on \subseteq 0 .. n - 1, Touch(on, n),
         NEW h \in Heads(on, n), NEW t \in Tails(on, n)
  PROVE  Round(on, n, Joined(t, h))
<1>1. /\ h \in Runs(on, n) /\ h.first = 0 /\ h.last \in 0 .. n - 1 /\ IsRun(on, h)
      /\ t \in Runs(on, n) /\ t.last = n - 1 /\ t.first \in 0 .. n - 1 /\ IsRun(on, t)
  BY RunsAre DEF Heads, Tails
<1>2. h # t
  <2> SUFFICES ASSUME h = t PROVE FALSE
    OBVIOUS
  <2>1. \A r \in Heads(on, n) : r = h
    BY <1>1, OneHead DEF Heads
  <2>2. \A r \in Tails(on, n) : r = h
    BY <1>1, OneHead DEF Tails
  <2> QED BY <2>1, <2>2 DEF Touch
<1>3. t.first > 0 /\ h.last < n - 1
  <2>1. t.first # h.first /\ t.last # h.last
    BY <1>1, <1>2, OneHead
  <2> QED BY <1>1, <2>1
<1>4. h.last < t.first
  <2> SUFFICES ASSUME t.first <= h.last PROVE FALSE
    BY <1>1
  <2>1. t.first - 1 \in h.first .. h.last
    BY <1>1, <1>3
  <2> QED BY <1>1, <2>1 DEF IsRun
<1>5. h.len + t.len = h.last + 1 + n - t.first /\ h.len + t.len \in 1 .. n
  BY <1>1, <1>4 DEF IsRun
<1>6. ASSUME NEW i \in 0 .. (h.last + 1 + n - t.first) - 1 PROVE (h.last - i + n) % n \in on
  <2>1. i \in 0 .. n - 1
    BY <1>1, <1>4
  <2>2. (h.last - i + n) % n = IF i <= h.last THEN h.last - i ELSE h.last - i + n
    BY <1>1, <2>1, GoingRound
  <2>3. CASE i <= h.last
    <3>1. h.last - i \in h.first .. h.last
      BY <1>1, <2>1, <2>3
    <3> QED BY <1>1, <2>2, <2>3, <3>1 DEF IsRun
  <2>4. CASE ~(i <= h.last)
    <3>1. h.last - i + n \in t.first .. t.last
      BY <1>1, <2>1, <2>4
    <3> QED BY <1>1, <2>2, <2>4, <3>1 DEF IsRun
  <2> QED BY <2>3, <2>4
<1>7. EndsRun(on, n, h.last)
  <2>1. (h.last + 1) % n = h.last + 1
    BY <1>1, <1>3, GoingRound
  <2>2. h.last \in on /\ h.last + 1 \notin on
    BY <1>1 DEF IsRun
  <2> QED BY <2>1, <2>2 DEF EndsRun
<1> QED BY <1>1, <1>5, <1>6, <1>7 DEF Round, Joined

LEMMA CandidatesRound ==
  ASSUME NEW n \in Nat \ {0}, NEW on, on \subseteq 0 .. n - 1, NEW c \in Candidates(on, n)
  PROVE  Round(on, n, c)
<1>1. CASE ~Touch(on, n)
  <2>1. c \in Runs(on, n)
    BY <1>1, CandidatesAre
  <2> QED BY <1>1, <2>1, RunRound
<1>2. CASE Touch(on, n) /\ c \in Runs(on, n) \ (Heads(on, n) \cup Tails(on, n))
  BY <1>2, RunRound DEF Tails
<1>3. CASE Touch(on, n) /\ \E h \in Heads(on, n), t \in Tails(on, n) : c = Joined(t, h)
  BY <1>3, JoinedRound
<1> QED BY <1>1, <1>2, <1>3, CandidatesAre

\* LEDs that are on without a break, going round, are in a candidate.
LEMMA CandidateAround ==
  ASSUME NEW n \in Nat \ {0}, NEW on, on \subseteq 0 .. n - 1,
         NEW f \in 0 .. n - 1, NEW k \in 1 .. n,
         \A i \in 0 .. k - 1 : (f - i + n) % n \in on
  PROVE  \E c \in Candidates(on, n) : k <= c.len
<1>1. \A i \in 0 .. k - 1 : IF i <= f THEN f - i \in on ELSE f - i + n \in on
  <2> SUFFICES ASSUME NEW i \in 0 .. k - 1
               PROVE  IF i <= f THEN f - i \in on ELSE f - i + n \in on
    OBVIOUS
  <2>1. i \in 0 .. n - 1
    OBVIOUS
  <2>2. (f - i + n) % n \in on
    OBVIOUS
  <2>3. (f - i + n) % n = IF i <= f THEN f - i ELSE f - i + n
    BY <2>1, GoingRound
  <2> QED BY <2>2, <2>3
<1>2. \A r \in Runs(on, n) : r.len = r.last - r.first + 1 /\ r.first \in 0 .. n - 1 /\ r.last \in 0 .. n - 1
  BY RunsAre DEF IsRun
<1>3. CASE k <= f + 1
  <2>1. PICK a \in 0 .. n - 1 : a = f - k + 1
    BY <1>3
  <2>2. a <= f /\ a .. f \subseteq on
    <3>1. ASSUME NEW j \in a .. f PROVE j \in on
      <4>1. PICK i \in 0 .. k - 1 : i = f - j
        BY <2>1, <3>1
      <4>2. i <= f /\ f - i = j
        BY <4>1, <3>1, <2>1
      <4> QED BY <1>1, <4>2
    <3> QED BY <2>1, <3>1
  <2>3. PICK r \in Runs(on, n) : r.first <= a /\ f <= r.last
    BY <2>2, RunAround
  <2>4. k <= r.len
    BY <1>2, <2>1, <2>3
  <2>5. CASE ~Touch(on, n) \/ r \notin Heads(on, n) \cup Tails(on, n)
    <3>1. r \in Candidates(on, n)
      BY <2>3, <2>5, CandidatesAre
    <3> QED BY <2>4, <3>1
  <2>6. CASE Touch(on, n) /\ r \in Heads(on, n) \cup Tails(on, n)
    <3>1. PICK h \in Heads(on, n), t \in Tails(on, n) : r = h \/ r = t
      BY <2>6 DEF Touch
    <3>2. Joined(t, h) \in Candidates(on, n)
      BY <2>6, CandidatesAre
    <3>3. h \in Runs(on, n) /\ t \in Runs(on, n)
      BY DEF Heads, Tails
    <3>4. h.len \in Nat /\ t.len \in Nat
      <4>1. h.first <= h.last /\ t.first <= t.last
        BY <3>3, RunsAre DEF IsRun
      <4> QED BY <1>2, <3>3, <4>1
    <3>5. k <= Joined(t, h).len
      BY <2>4, <3>1, <3>4 DEF Joined
    <3> QED BY <3>2, <3>5
  <2> QED BY <2>5, <2>6
<1>4. CASE k > f + 1
  <2>1. PICK z \in 0 .. n - 1 : z = 0
    OBVIOUS
  <2>2. PICK a \in 0 .. n - 1 : a = f - k + 1 + n
    BY <1>4
  <2>3. PICK l \in 0 .. n - 1 : l = n - 1
    OBVIOUS
  <2>4. z <= f /\ z .. f \subseteq on
    <3>1. ASSUME NEW j \in z .. f PROVE j \in on
      <4>1. PICK i \in 0 .. k - 1 : i = f - j
        BY <1>4, <2>1, <3>1
      <4>2. i <= f /\ f - i = j
        BY <4>1, <3>1, <2>1
      <4> QED BY <1>1, <4>2
    <3> QED BY <2>1, <3>1
  <2>5. a <= l /\ a .. l \subseteq on
    <3>1. ASSUME NEW j \in a .. l PROVE j \in on
      <4>1. PICK i \in 0 .. k - 1 : i = f - j + n
        BY <1>4, <2>2, <2>3, <3>1
      <4>2. ~(i <= f) /\ f - i + n = j
        BY <4>1, <3>1, <2>2, <2>3
      <4> QED BY <1>1, <4>2
    <3> QED BY <1>4, <2>2, <2>3, <3>1
  <2>6. PICK h \in Runs(on, n) : h.first <= z /\ f <= h.last
    BY <2>4, RunAround
  <2>7. PICK t \in Runs(on, n) : t.first <= a /\ l <= t.last
    BY <2>5, RunAround
  <2>8. h.first = 0 /\ t.last = n - 1
    BY <1>2, <2>1, <2>3, <2>6, <2>7
  <2>9. h \in Heads(on, n) /\ t \in Tails(on, n)
    BY <2>8 DEF Heads, Tails
  <2>10. CASE Touch(on, n)
    <3>1. Joined(t, h) \in Candidates(on, n)
      BY <2>9, <2>10, CandidatesAre
    <3>2. Joined(t, h).len = h.last + 1 + n - t.first
      BY <1>2, <2>8 DEF Joined
    <3>3. k <= Joined(t, h).len
      BY <1>2, <2>2, <2>6, <2>7, <3>2
    <3> QED BY <3>1, <3>3
  <2>11. CASE ~Touch(on, n)
    <3>1. h.last = n - 1
      BY <2>9, <2>11 DEF Touch, Tails
    <3>2. h \in Candidates(on, n) /\ h.len = n
      BY <1>2, <2>8, <2>11, <3>1, CandidatesAre
    <3> QED BY <3>2
  <2> QED BY <2>10, <2>11
<1> QED BY <1>3, <1>4

\* A best candidate there is.
LEMMA BestIs ==
  ASSUME NEW n \in Nat \ {0}, NEW on, on \subseteq 0 .. n - 1, on # {}
  PROVE  /\ Best(Candidates(on, n)) \in Candidates(on, n)
         /\ \A q \in Candidates(on, n) : q.len <= Best(Candidates(on, n)).len
<1>1. PICK C : C = Candidates(on, n)
  OBVIOUS
<1>2. \A c \in C : c.len \in 1 .. n /\ c.first \in 0 .. n - 1
  BY <1>1, CandidatesRound DEF Round
<1>3. C # {}
  <2>1. PICK f \in 0 .. n - 1 : f \in on
    OBVIOUS
  <2>2. PICK k \in 1 .. n : k = 1
    OBVIOUS
  <2>3. \A i \in 0 .. k - 1 : (f - i + n) % n \in on
    <3>1. PICK z \in 0 .. n - 1 : z = 0
      OBVIOUS
    <3>2. (f - z + n) % n = f
      BY <3>1, GoingRound
    <3>3. \A i \in 0 .. k - 1 : i = z
      BY <2>2, <3>1
    <3> QED BY <2>1, <3>2, <3>3
  <2>4. \E c \in Candidates(on, n) : k <= c.len
    BY <2>3, CandidateAround
  <2> QED BY <1>1, <2>4
<1>4. PICK m \in C : \A q \in C : q.len <= m.len
  <2> DEFINE S == {n - c.len : c \in C}
  <2>1. S \subseteq Nat /\ S # {}
    BY <1>2, <1>3
  <2>2. PICK i \in S : \A j \in S : i <= j
    BY <2>1, LeastOf
  <2>3. PICK m \in C : i = n - m.len
    BY <2>2
  <2>4. ASSUME NEW q \in C PROVE q.len <= m.len
    <3>1. n - q.len \in S
      OBVIOUS
    <3> HIDE DEF S
    <3>2. i <= n - q.len
      BY <2>2, <3>1
    <3> QED BY <1>2, <2>3, <3>2
  <2> QED BY <2>4
<1>5. PICK r \in C : r.len = m.len /\ \A q \in C : q.len = m.len => r.first <= q.first
  <2> DEFINE S == {c.first : c \in {c \in C : c.len = m.len}}
  <2>1. S \subseteq Nat /\ S # {}
    BY <1>2, <1>4
  <2>2. PICK i \in S : \A j \in S : i <= j
    BY <2>1, LeastOf
  <2>3. PICK r \in C : r.len = m.len /\ i = r.first
    BY <2>2
  <2>4. ASSUME NEW q \in C, q.len = m.len PROVE r.first <= q.first
    BY <2>2, <2>3, <2>4
  <2> QED BY <2>3, <2>4
<1>6. \A q \in C : r.len > q.len \/ (r.len = q.len /\ r.first <= q.first)
  BY <1>2, <1>4, <1>5
<1>7. Best(C) \in C /\ \A q \in C : Best(C).len > q.len \/ (Best(C).len = q.len /\ Best(C).first <= q.first)
  BY <1>6 DEF Best
<1> QED BY <1>1, <1>2, <1>7

(* find_last_on_led and compute_position_gap are right on every circle, for *)
(* every mask.                                                              *)
LEMMA LedGapIsRight ==
  ASSUME NEW n \in Nat \ {0}
  PROVE  LedGapRight(n)
<1>1. ASSUME NEW on \in (SUBSET (0 .. n - 1)) \ {{}}, NEW e, e = FindLastOnLed(on, n)
      PROVE  /\ EndsRun(on, n, e)
             /\ \A f \in 0 .. n - 1 : Cardinality(RoundRun(on, n, f)) <= Cardinality(RoundRun(on, n, e))
  <2>1. PICK c \in Candidates(on, n) : e = c.last /\ \A q \in Candidates(on, n) : q.len <= c.len
    BY <1>1, BestIs DEF FindLastOnLed
  <2>2. /\ c.len \in 1 .. n /\ EndsRun(on, n, e)
        /\ \A i \in 0 .. c.len - 1 : (e - i + n) % n \in on
    BY <2>1, CandidatesRound DEF Round
  <2>3. ASSUME NEW f \in 0 .. n - 1
        PROVE  Cardinality(RoundRun(on, n, f)) <= Cardinality(RoundRun(on, n, e))
    <3>1. ASSUME NEW k \in RoundRun(on, n, f) PROVE k \in RoundRun(on, n, e)
      <4>1. k \in 1 .. n /\ \A i \in 0 .. k - 1 : (f - i + n) % n \in on
        BY <3>1 DEF RoundRun
      <4>2. PICK q \in Candidates(on, n) : k <= q.len
        BY <4>1, CandidateAround
      <4>3. q.len \in 1 .. n
        BY CandidatesRound DEF Round
      <4>4. k <= c.len
        BY <2>1, <2>2, <4>1, <4>2, <4>3
      <4>5. \A i \in 0 .. k - 1 : i \in 0 .. c.len - 1
        BY <2>2, <4>1, <4>4
      <4> QED BY <2>2, <4>1, <4>5 DEF RoundRun
    <3>2. IsFiniteSet(RoundRun(on, n, e))
      <4>1. 1 \in Int /\ n \in Int
        OBVIOUS
      <4>2. IsFiniteSet(1 .. n) /\ RoundRun(on, n, e) \subseteq 1 .. n
        BY <4>1, FS_Interval DEF RoundRun
      <4> QED BY <4>2, FS_Subset
    <3>3. RoundRun(on, n, f) \subseteq RoundRun(on, n, e)
      BY <3>1
    <3> QED BY <3>2, <3>3, FS_Subset
  <2> QED BY <2>2, <2>3
<1> QED BY <1>1, GapRight DEF LedGapRight

-----------------------------------------------------------------------------
(* The theorems.                                                            *)

LEMMA ViewInit == Init => ViewInv
<1> SUFFICES ASSUME Init PROVE ViewInv
  OBVIOUS
<1>1. /\ run = 0 /\ thread = "none" /\ running = FALSE /\ rows = [r \in Runs1 |-> <<>>]
      /\ queue = <<>> /\ view = FreshView /\ lastRows = 0
      /\ csvs = [r \in Runs1 |-> NoCsvs] /\ pictures = [r \in Runs1 |-> NoPictures]
  BY DEF Init
<1>2. {MaxRuns, MaxSnaps, MaxOutliers, MaxPairs} \subseteq Nat
  BY ViewAssumption
<1>3. IsFiniteSet({}) /\ Cardinality({}) = 0
  BY FS_EmptySet
<1>4. queue \in Seq(Event) /\ Posted = 0 /\ DOMAIN queue = {}
  BY <1>1 DEF Posted
<1>5. TypeOK
  <2>1. rows \in [Runs1 -> Seq(Samples)] /\ \A r \in Runs1 : Len(rows[r]) <= MaxPairs
    BY <1>1, <1>2
  <2>2. view \in ViewType
    BY <1>1 DEF FreshView, ViewType, FrameIds
  <2>3. csvs \in [Runs1 -> CsvFiles] /\ pictures \in [Runs1 -> PictureFiles]
    BY <1>1 DEF CsvFiles, NoCsvs, PictureFiles, NoPictures
  <2>4. \A r \in Runs1 : /\ Cardinality(pictures[r].periodic) <= MaxSnaps
                         /\ Cardinality(pictures[r].outlier) <= MaxOutliers
    <3>1. \A r \in Runs1 : pictures[r].periodic = {} /\ pictures[r].outlier = {}
      BY <1>1 DEF NoPictures
    <3>2. Cardinality({}) <= MaxSnaps /\ Cardinality({}) <= MaxOutliers
      BY <1>2, <1>3
    <3> QED BY <3>1, <3>2
  <2>5. run \in 0 .. MaxRuns /\ lastRows \in 0 .. MaxRuns
    BY <1>1, <1>2
  <2>6. thread = "none" /\ running = FALSE
    BY <1>1
  <2> QED BY <1>4, <2>1, <2>2, <2>3, <2>4, <2>5, <2>6 DEF TypeOK
<1>6. QueueInv
  BY <1>4 DEF QueueInv
<1>7. RunInv
  BY <1>1, <1>4 DEF RunInv, FreshView, Runs1
<1>8. \A k \in PairIndexes : ~(k < 0)
  BY <1>2 DEF PairIndexes
<1>9. Seen = {} /\ Shown = 0 /\ view.plotted = {}
  BY <1>1, <1>4, <1>8 DEF Seen, Shown, FreshView
<1>10. (\A x \in Streams : SeenDrops(x) = {}) /\ GapsSeen = {} /\ PositionsSeen = {}
  BY <1>9 DEF SeenDrops, GapsSeen, PositionsSeen
<1>11. ChartInv
  BY <1>1, <1>8, <1>9, <1>10 DEF ChartInv, FreshView
<1>12. DropMarksExact
  BY <1>1, <1>3, <1>9, <1>10, ChartForm DEF FreshView
<1>13. \A r \in Runs1 : /\ pictures[r].periodic = {} /\ pictures[r].outlier = {}
                        /\ pictures[r].debug = {} /\ OutliersOf(r) = {} /\ Saved(r) = {}
  BY <1>1, <1>8 DEF NoPictures, OutliersOf, Saved
<1>14. OverlayOfItsFrame
  BY <1>13 DEF OverlayOfItsFrame
<1>15. PictureInv
  BY <1>3, <1>13 DEF PictureInv
<1>16. FilesInv
  BY <1>1 DEF FilesInv, Runs1
<1> QED BY <1>5, <1>6, <1>7, <1>11, <1>12, <1>14, <1>15, <1>16 DEF ViewInv

(* The inductive invariant: the signals come in the order the thread posts  *)
(* them and the page is exactly as far as the signal before the next one.   *)
THEOREM ViewInvariant == Spec => []ViewInv
<1>1. ViewInv /\ [Next]_vars => ViewInv'
  BY TypeStep, QueueStep, RunStep, ChartStep, OverlayStep, PictureStep, FilesStep DEF ViewInv
<1> QED BY <1>1, ViewInit, PTL DEF Spec

(* Every variable keeps its type, the pictures stay within their caps, and  *)
(* the page is locked from Start until the thread's last signal arrived.    *)
THEOREM TypeCorrect == Spec => []TypeOK
<1>1. ViewInv => TypeOK
  BY DEF ViewInv
<1> QED BY <1>1, ViewInvariant, PTL

(* The throttled drop chart hides no drop, and the counters and statistics  *)
(* count exactly the rows delivered, however far the thread is ahead.       *)
THEOREM DropsAreShown == Spec => []DropMarksExact
<1>1. ViewInv => DropMarksExact
  BY DEF ViewInv
<1> QED BY <1>1, ViewInvariant, PTL

(* Every LED overlay is drawn on the frame it was detected on, in the folder *)
(* of that frame's run.                                                     *)
THEOREM OverlaysRight == Spec => []OverlayOfItsFrame
<1>1. ViewInv => OverlayOfItsFrame
  BY DEF ViewInv
<1> QED BY <1>1, ViewInvariant, PTL

\* One picture an outlier.
LEMMA PicturesCounted ==
  ASSUME ViewInv, NEW r \in Runs1
  PROVE  Cardinality(Saved(r)) = Cardinality(pictures[r].outlier)
<1>1. /\ Saved(r) \subseteq PairIndexes /\ IsFiniteSet(Saved(r))
      /\ pictures[r].outlier = {Shot(r, k) : k \in Saved(r)}
  <2>1. Saved(r) \subseteq PairIndexes /\ pictures[r].outlier = {Shot(r, k) : k \in Saved(r)}
    BY DEF ViewInv, PictureInv, OutliersOf
  <2>2. 0 \in Int /\ MaxPairs - 1 \in Int
    BY ViewAssumption
  <2>3. IsFiniteSet(PairIndexes)
    BY <2>2, FS_Interval DEF PairIndexes
  <2> QED BY <2>1, <2>3, FS_Subset
<1> DEFINE f == [k \in Saved(r) |-> Shot(r, k)]
<1>2. f \in Surjection(Saved(r), pictures[r].outlier)
  BY <1>1 DEF Surjection
<1>3. \A k : Shot(r, k).imgA[2] = k
  BY DEF Shot
<1>4. f \in Injection(Saved(r), pictures[r].outlier)
  BY <1>1, <1>3 DEF Injection, IsInjective
<1> HIDE DEF f
<1> QED BY <1>1, <1>2, <1>4, FS_Surjection

(* A run that is over left its folder complete: all its rows are in its CSV *)
(* files, its first outliers have their pictures, but for one whose drawing *)
(* ended the run, the closing picture is of one frame pair.                 *)
THEOREM FoldersComplete == Spec => []RunFilesComplete
<1>1. ASSUME ViewInv PROVE RunFilesComplete
  <2> SUFFICES ASSUME NEW r \in Over
               PROVE  /\ csvs[r] = SplitRows(r)
                      /\ Saved(r) \subseteq OutliersOf(r)
                      /\ \A k \in OutliersOf(r) \ Saved(r) :
                           \/ Cardinality(Saved(r)) = MaxOutliers /\ \A j \in Saved(r) : j < k
                           \/ pictures[r].undrawn /\ k = Len(rows[r]) - 1
                      /\ \A p \in pictures[r].debug : p.imgA = p.imgB
    BY DEF RunFilesComplete, Saved
  <2>1. r \in Runs1
    BY DEF Over
  <2>2. csvs[r] = SplitRows(r) /\ \A p \in pictures[r].debug : p.imgA = p.imgB
    <3>1. CASE r < run
      BY <1>1, <2>1, <3>1 DEF ViewInv, FilesInv
    <3>2. CASE r = run /\ ~running
      <4>1. thread = "gone" /\ Posted = 0
        BY <1>1, <2>1, <3>2 DEF ViewInv, TypeOK, RunInv, Runs1
      <4>2. HandedOver
        BY <1>1, <4>1 DEF ViewInv, FilesInv
      <4> QED BY <3>2, <4>2 DEF HandedOver
    <3> QED BY <3>1, <3>2 DEF Over
  <2>3. /\ Saved(r) \subseteq OutliersOf(r)
        /\ \A k \in OutliersOf(r) \ Saved(r) :
             \/ Cardinality(Saved(r)) = MaxOutliers /\ \A j \in Saved(r) : j < k
             \/ pictures[r].undrawn /\ k = Len(rows[r]) - 1
    BY <1>1, <2>1, PicturesCounted DEF ViewInv, PictureInv
  <2> QED BY <2>2, <2>3
<1> QED BY <1>1, ViewInvariant, PTL

(* Whatever the number of LEDs and the mask: find_last_on_led is the end of *)
(* a longest run on the circle, and compute_position_gap the signed distance *)
(* on it in the half-open half circle.                                      *)
THEOREM PositionGapsRight == Spec => []PositionGapRight
<1>1. PositionGapRight
  BY LedGapIsRight, ViewAssumption DEF PositionGapRight
<1> QED BY <1>1, PTL
=============================================================================
