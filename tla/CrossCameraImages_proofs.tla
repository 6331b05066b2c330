----------------------- MODULE CrossCameraImages_proofs -----------------------
(***************************************************************************)
(* What holds of CrossCameraReconciler, and of CrossCameraImages, which     *)
(* composes it with the multi-camera page, for any cameras, comparisons,    *)
(* buffer length, gap, ring, image interval and image cap.                  *)
(*                                                                         *)
(* Everything is proved one comparison at a time: a row that a camera       *)
(* delivers hits, misses or does not concern a comparison (RowHits,         *)
(* RowMisses, RowElsewhere), and each part of the invariant survives each.  *)
(***************************************************************************)
EXTENDS CrossCameraImages, FiniteSetTheorems, Minimum, TLAPS

-----------------------------------------------------------------------------
(* The inductive invariant.                                                 *)

Rows(s) == {x \in crossRows : x.spec = s}

CamOf(s, side) == IF side = "master" THEN Master ELSE s.slave
RowOf(x, side) == IF side = "master" THEN x.master ELSE x.slave

\* The timestamp of the last row delivered on that side.
LastOf(s, side) == lastTs[CamOf(s, side)][s.identity]

\* A camera's rows are numbered as they are delivered, and do not go back in time.
ClockInv ==
  /\ stamped \in BOOLEAN
  /\ clock \in [Cameras -> 0 .. MaxTime + 1] /\ pairs \in [Cameras -> 0 .. MaxTime + 1]
  /\ lastTs \in [Cameras -> [Identities -> -1 .. MaxTime]]
  /\ \A c \in Cameras : pairs[c] <= clock[c] /\ \A i \in Identities : lastTs[c][i] < clock[c]

CompType(s) ==
  /\ waiting[s] \in [Sides -> SUBSET Entry]
  /\ hwOffset[s] \in Int \cup {NoOffset}
  /\ matched[s] \in Nat /\ unmatched[s] \in Nat /\ evicted[s] \in Nat
  /\ Rows(s) \subseteq CrossRow /\ IsFiniteSet(Rows(s))

\* A buffer holds rows its camera has delivered, each once, if rows are stamped.
BufferInv(s) ==
  \A side \in Sides :
    /\ IsFiniteSet(waiting[s][side]) /\ Cardinality(waiting[s][side]) <= BufferLen
    /\ \A e \in waiting[s][side] : e.pair < pairs[CamOf(s, side)]
    /\ \A e, f \in waiting[s][side] : e.pair = f.pair => e = f
    /\ ~stamped => waiting[s][side] = {}

GapInv(s) ==
  \A m \in waiting[s]["master"], sl \in waiting[s]["slave"] : Distance(m.ts, sl.ts) > MaxGap

\* A row is in one cross-row, or waiting, or not delivered yet.
OnceInv(s) ==
  /\ \A x \in Rows(s) :
       /\ x.master.pair < pairs[Master] /\ x.slave.pair < pairs[s.slave]
       /\ \A e \in waiting[s]["master"] : e.pair # x.master.pair
       /\ \A e \in waiting[s]["slave"] : e.pair # x.slave.pair
  /\ \A x, y \in Rows(s) : x # y => x.master.pair # y.master.pair /\ x.slave.pair # y.slave.pair

\* How far the clocks of a comparison's cameras are apart.
EpochGap(s) == Epoch[Master] - Epoch[s.slave]

OffsetInv(s) ==
  /\ \A x \in Rows(s) :
       hwOffset[s] # NoOffset /\ x.hwGap = x.master.ts - x.slave.ts + EpochGap(s) + hwOffset[s]
  /\ hwOffset[s] # NoOffset => \E x \in Rows(s) : x.hwGap = 0

(* A row still waiting that is older than a matched one of its side is too  *)
(* old for what the other side still has to deliver.                        *)
OrderInv(s) ==
  /\ \A side \in Sides :
       /\ \A e \in waiting[s][side] : e.ts <= LastOf(s, side)
       /\ \A x \in Rows(s) : RowOf(x, side).ts <= LastOf(s, side)
  /\ MaxGap <= 1 =>
       /\ \A side \in Sides, x \in Rows(s) : \A w \in waiting[s][side] :
            w.ts < RowOf(x, side).ts => w.ts + MaxGap <= RowOf(x, Other(side)).ts
       /\ \A x, y \in Rows(s) : x.master.ts < y.master.ts => x.slave.ts <= y.slave.ts

CountInv(s) ==
  LET left == Cardinality(waiting[s]["master"]) + Cardinality(waiting[s]["slave"])
  IN /\ matched[s] = Cardinality(Rows(s))
     /\ stamped => unmatched[s] = matched[s] + left + evicted[s]
     /\ ~stamped => evicted[s] = 0
     /\ unmatched[s] + matched[s] = pairs[Master] + pairs[s.slave]
     /\ \A side \in Sides : matched[s] + Cardinality(waiting[s][side]) <= pairs[CamOf(s, side)]

CompInv(s) ==
  CompType(s) /\ BufferInv(s) /\ GapInv(s) /\ OnceInv(s) /\ OffsetInv(s) /\ OrderInv(s) /\ CountInv(s)

\* The comparisons' state has no other parts.
Shape ==
  /\ waiting = [s \in Specs |-> waiting[s]]
  /\ hwOffset = [s \in Specs |-> hwOffset[s]]
  /\ matched = [s \in Specs |-> matched[s]] /\ unmatched = [s \in Specs |-> unmatched[s]]
  /\ evicted = [s \in Specs |-> evicted[s]]
  /\ \A x \in crossRows : x.spec \in Specs

MatchInv == ClockInv /\ Shape /\ \A s \in Specs : CompInv(s)

\* The images of a comparison are counted as its matches are.
PicInv(s) ==
  /\ periodic[s] \in 0 .. MaxImages /\ missed[s] \in Nat
  /\ periodic[s] + missed[s] <= matched[s]
  /\ EveryN > 0 => periodic[s] = MaxImages \/ periodic[s] + missed[s] = matched[s] \div EveryN

ImagesInv ==
  /\ MatchInv
  /\ recorded \in [Cameras -> 0 .. MaxTime + 1]
  /\ periodic = [s \in Specs |-> periodic[s]] /\ missed = [s \in Specs |-> missed[s]]
  /\ \A s \in Specs : PicInv(s)
-----------------------------------------------------------------------------
(* The pending buffer.                                                      *)

LEMMA DistanceFacts ==
  ASSUME NEW a \in Times, NEW b \in Times
  PROVE  /\ Distance(a, b) \in Nat /\ Distance(a, b) = Distance(b, a)
         /\ Distance(a, b) = 0 <=> a = b
BY ConstantsAssumption DEF Distance, Times

LEMMA OldestIn ==
  ASSUME NEW B, B \subseteq Entry, B # {}
  PROVE  Oldest(B) \in B
<1>1. {e.pair : e \in B} \subseteq Nat /\ {e.pair : e \in B} # {}
  BY ConstantsAssumption DEF Entry, Times
<1>2. PICK k \in {e.pair : e \in B} : \A j \in {e.pair : e \in B} : k <= j
  BY <1>1, LeastOf
<1>3. \E e \in B : \A f \in B : e.pair <= f.pair
  BY <1>2
<1> QED  BY <1>3 DEF Oldest

(* min() over the buffer finds a waiting row, and none is nearer.           *)
LEMMA NearestIs ==
  ASSUME NEW B, B \subseteq Entry, B # {}, NEW ts \in Times
  PROVE  /\ Nearest(B, ts) \in B
         /\ \A f \in B : Distance(Nearest(B, ts).ts, ts) <= Distance(f.ts, ts)
<1> DEFINE D == {Distance(e.ts, ts) : e \in B}
<1>1. \A e \in B : Distance(e.ts, ts) \in Nat /\ e.pair \in Nat
  BY ConstantsAssumption, DistanceFacts DEF Entry, Times
<1>2. D \subseteq Nat /\ D # {}
  BY <1>1
<1>3. PICK d \in D : \A j \in D : d <= j
  BY <1>2, LeastOf
<1>4. \A f \in B : d <= Distance(f.ts, ts)
  BY <1>3
<1> DEFINE P == {e.pair : e \in {f \in B : Distance(f.ts, ts) = d}}
<1>5. P \subseteq Nat /\ P # {}
  BY <1>1, <1>3
<1>6. PICK k \in P : \A j \in P : k <= j
  BY <1>5, LeastOf
<1>7. PICK e \in B : Distance(e.ts, ts) = d /\ e.pair = k
  BY <1>6
<1>8. \A f \in B : \/ Distance(e.ts, ts) < Distance(f.ts, ts)
                   \/ Distance(e.ts, ts) = Distance(f.ts, ts) /\ e.pair <= f.pair
  <2> SUFFICES ASSUME NEW f \in B, ~(Distance(e.ts, ts) < Distance(f.ts, ts))
               PROVE  Distance(e.ts, ts) = Distance(f.ts, ts) /\ e.pair <= f.pair
    OBVIOUS
  <2>1. Distance(f.ts, ts) = d /\ Distance(e.ts, ts) = d
    BY <1>1, <1>4, <1>7
  <2>2. f.pair \in P
    BY <2>1
  <2> QED  BY <1>6, <1>7, <2>1, <2>2
<1> HIDE DEF D, P
<1> DEFINE least(x) == \A f \in B : \/ Distance(x.ts, ts) < Distance(f.ts, ts)
                                    \/ Distance(x.ts, ts) = Distance(f.ts, ts) /\ x.pair <= f.pair
           n == Nearest(B, ts)
<1>9. least(e)
  BY <1>8
<1>10. n = CHOOSE x \in B : least(x)
  BY DEF Nearest
<1>11. n \in B /\ least(n)
  BY <1>9, <1>10
<1>12. \A f \in B : Distance(n.ts, ts) <= Distance(f.ts, ts)
  BY <1>1, <1>11
<1> QED  BY <1>11, <1>12

(* push keeps the buffer within its length, drops only what was in it, and  *)
(* drops one row when it is full, none before.                              *)
LEMMA PushIs ==
  ASSUME NEW B, B \subseteq Entry, IsFiniteSet(B), Cardinality(B) <= BufferLen,
         NEW e \in Entry, e \notin B
  PROVE  /\ Push(B, e) \subseteq B \cup {e} /\ IsFiniteSet(Push(B, e))
         /\ Cardinality(Push(B, e)) <= BufferLen
         /\ Cardinality(Push(B, e)) <= Cardinality(B) + 1
         /\ Cardinality(Push(B, e)) = Cardinality(B) + IF Cardinality(B) = BufferLen THEN 0 ELSE 1
<1>1. Cardinality(B) \in Nat /\ BufferLen \in Nat
  BY FS_CardinalityType, ConstantsAssumption
<1>2. IsFiniteSet(B \cup {e}) /\ Cardinality(B \cup {e}) = Cardinality(B) + 1
  BY FS_AddElement
<1>3. CASE Cardinality(B \cup {e}) > BufferLen
  <2>1. Push(B, e) = (B \cup {e}) \ {Oldest(B \cup {e})}
    BY <1>3 DEF Push
  <2>2. Oldest(B \cup {e}) \in B \cup {e}
    BY OldestIn
  <2>3. IsFiniteSet(Push(B, e)) /\ Cardinality(Push(B, e)) = Cardinality(B \cup {e}) - 1
    BY <1>2, <2>1, <2>2, FS_RemoveElement
  <2> QED  BY <1>1, <1>2, <1>3, <2>1, <2>3
<1>4. CASE ~(Cardinality(B \cup {e}) > BufferLen)
  BY <1>1, <1>2, <1>4 DEF Push
<1> QED  BY <1>3, <1>4
-----------------------------------------------------------------------------
(* What a row does to one comparison.                                       *)

\* What comparison s sees of camera c's row.
Own(c, ts, drop, s) == [pair |-> pairs[c], ts |-> ts[s.identity], drop |-> drop[s.identity]]

Facing(s, side) == waiting[s][Other(side)]
Hit(s, side, e) == Nearest(Facing(s, side), e.ts)
MasterOf(s, side, e) == IF side = "master" THEN e ELSE Hit(s, side, e)
SlaveOf(s, side, e)  == IF side = "master" THEN Hit(s, side, e) ELSE e

RowHits(s, side, e) ==
  /\ stamped /\ NearEnough(Facing(s, side), e.ts)
  /\ waiting'[s] = [waiting[s] EXCEPT ![Other(side)] = @ \ {Hit(s, side, e)}]
  /\ Rows(s)' = Rows(s) \cup {BuildCrossRow(s, MasterOf(s, side, e), SlaveOf(s, side, e))}
  /\ hwOffset'[s] = LearnedOffset(s, MasterOf(s, side, e), SlaveOf(s, side, e))
  /\ matched'[s] = matched[s] + 1 /\ unmatched'[s] = unmatched[s] /\ evicted'[s] = evicted[s]

RowMisses(s, side, e) ==
  /\ stamped => ~NearEnough(Facing(s, side), e.ts)
  /\ waiting'[s] = IF stamped THEN [waiting[s] EXCEPT ![side] = Push(@, e)] ELSE waiting[s]
  /\ evicted'[s] = evicted[s] + IF stamped /\ Cardinality(waiting[s][side]) = BufferLen THEN 1 ELSE 0
  /\ Rows(s)' = Rows(s) /\ hwOffset'[s] = hwOffset[s]
  /\ matched'[s] = matched[s] /\ unmatched'[s] = unmatched[s] + 1

RowElsewhere(s) ==
  /\ waiting'[s] = waiting[s] /\ Rows(s)' = Rows(s) /\ hwOffset'[s] = hwOffset[s]
  /\ matched'[s] = matched[s] /\ unmatched'[s] = unmatched[s] /\ evicted'[s] = evicted[s]

LEMMA IngestEffect ==
  ASSUME NEW c \in Cameras, NEW ts, NEW drop, IngestRow(c, ts, drop), NEW s \in Specs, CompType(s)
  PROVE  /\ s \in SpecsOf(c) => \/ RowHits(s, SideOf(c), Own(c, ts, drop, s))
                                \/ RowMisses(s, SideOf(c), Own(c, ts, drop, s))
         /\ s \notin SpecsOf(c) => RowElsewhere(s)
<1> DEFINE side == SideOf(c)
           hits == {t \in SpecsOf(c) : stamped /\ NearEnough(waiting[t][Other(side)], ts[t.identity])}
           misses == SpecsOf(c) \ hits
           m(t) == MasterOf(t, side, Own(c, ts, drop, t))
           sl(t) == SlaveOf(t, side, Own(c, ts, drop, t))
<1>1. \A t \in Specs : Hit(t, side, Own(c, ts, drop, t)) = Nearest(waiting[t][Other(side)], ts[t.identity])
  BY DEF Hit, Facing, Own
<1>2. waiting'[s] =
        CASE s \in hits -> [waiting[s] EXCEPT ![Other(side)] = @ \ {Hit(s, side, Own(c, ts, drop, s))}]
          [] s \in misses /\ stamped -> [waiting[s] EXCEPT ![side] = Push(@, Own(c, ts, drop, s))]
          [] OTHER -> waiting[s]
  BY <1>1 DEF IngestRow, PopMatched, Own
<1>3. crossRows' = crossRows \cup {BuildCrossRow(t, m(t), sl(t)) : t \in hits}
  BY DEF IngestRow, MasterOf, SlaveOf, Hit, Facing, Own
<1>4. /\ hwOffset'[s] = IF s \in hits THEN LearnedOffset(s, m(s), sl(s)) ELSE hwOffset[s]
      /\ matched'[s] = matched[s] + IF s \in hits THEN 1 ELSE 0
      /\ unmatched'[s] = unmatched[s] + IF s \in misses THEN 1 ELSE 0
  BY DEF IngestRow, MasterOf, SlaveOf, Hit, Facing, Own
<1>5. evicted'[s] = evicted[s] +
        IF s \in misses /\ stamped /\ Cardinality(waiting[s][side]) = BufferLen THEN 1 ELSE 0
  BY DEF IngestRow
<1>6. SpecsOf(c) \subseteq Specs
  BY DEF SpecsOf
<1>7. \A t \in Specs : BuildCrossRow(t, m(t), sl(t)).spec = t
  BY DEF BuildCrossRow
<1>8. Rows(s)' = {x \in crossRows' : x.spec = s}
  BY DEF Rows
<1> HIDE DEF m, sl
<1>9. Rows(s)' = IF s \in hits THEN Rows(s) \cup {BuildCrossRow(s, m(s), sl(s))} ELSE Rows(s)
  BY <1>3, <1>6, <1>7, <1>8 DEF Rows
<1>10. matched[s] \in Nat /\ unmatched[s] \in Nat /\ evicted[s] \in Nat
  BY DEF CompType
<1>11. s \in hits => stamped /\ NearEnough(Facing(s, side), Own(c, ts, drop, s).ts)
  BY DEF Facing, Own
<1>12. s \in misses => (stamped => ~NearEnough(Facing(s, side), Own(c, ts, drop, s).ts))
  BY DEF Facing, Own
<1>13. s \in misses => s \notin hits
  OBVIOUS
<1>14. s \in SpecsOf(c) => s \in hits \/ s \in misses
  OBVIOUS
<1>15. s \in hits \/ s \in misses => s \in SpecsOf(c)
  OBVIOUS
<1> HIDE DEF hits, misses, side
<1>16. CASE s \in hits
  <2>1. s \notin misses
    BY <1>13, <1>16
  <2>2. waiting'[s] = [waiting[s] EXCEPT ![Other(side)] = @ \ {Hit(s, side, Own(c, ts, drop, s))}]
    BY <1>2, <1>16, <2>1
  <2>3. matched'[s] = matched[s] + 1 /\ unmatched'[s] = unmatched[s] /\ evicted'[s] = evicted[s]
        /\ hwOffset'[s] = LearnedOffset(s, m(s), sl(s))
    BY <1>4, <1>5, <1>10, <1>16, <2>1
  <2>4. Rows(s)' = Rows(s) \cup {BuildCrossRow(s, m(s), sl(s))}
    BY <1>9, <1>16
  <2> QED  BY <1>11, <1>15, <1>16, <2>2, <2>3, <2>4 DEF RowHits, m, sl, side
<1>17. CASE s \in misses
  <2>1. waiting'[s] = IF stamped THEN [waiting[s] EXCEPT ![side] = Push(@, Own(c, ts, drop, s))] ELSE waiting[s]
    BY <1>2, <1>13, <1>17
  <2>2. /\ hwOffset'[s] = hwOffset[s]
        /\ matched'[s] = matched[s] /\ unmatched'[s] = unmatched[s] + 1
    BY <1>4, <1>10, <1>13, <1>17
  <2>3. Rows(s)' = Rows(s)
    BY <1>9, <1>13, <1>17
  <2> QED  BY <1>5, <1>12, <1>15, <1>17, <2>1, <2>2, <2>3 DEF RowMisses, side
<1>18. CASE s \notin SpecsOf(c)
  <2>1. s \notin hits /\ s \notin misses
    BY <1>15, <1>18
  <2>2. waiting'[s] = waiting[s]
    BY <1>2, <2>1
  <2> QED  BY <1>4, <1>5, <1>9, <1>10, <1>18, <2>1, <2>2 DEF RowElsewhere
<1> QED  BY <1>14, <1>16, <1>17, <1>18
-----------------------------------------------------------------------------
(* Each part of a comparison's invariant survives a row.                    *)

(* A row of the camera on that side of the comparison is delivered.          *)
Arrives(s, side, e) ==
  /\ e.pair = pairs[CamOf(s, side)] /\ pairs'[CamOf(s, side)] = pairs[CamOf(s, side)] + 1
  /\ pairs'[CamOf(s, Other(side))] = pairs[CamOf(s, Other(side))]
  /\ \A d \in Sides : pairs[CamOf(s, d)] \in Nat
  /\ stamped' = stamped /\ stamped \in BOOLEAN
  /\ \A d \in Sides : LastOf(s, d) \in Int
  /\ LastOf(s, side) <= e.ts /\ LastOf(s, side)' = e.ts
  /\ LastOf(s, Other(side))' = LastOf(s, Other(side))

LEMMA SidesAre ==
  ASSUME NEW side \in Sides
  PROVE  Other(side) \in Sides /\ Other(side) # side /\ Other(Other(side)) = side
         /\ Sides = {side, Other(side)}
BY DEF Sides, Other

LEMMA HitFacts ==
  ASSUME NEW s \in Specs, NEW side \in Sides, NEW e \in Entry, CompType(s), RowHits(s, side, e)
  PROVE  LET h == Hit(s, side, e)
         IN /\ h \in Entry /\ h \in waiting[s][Other(side)]
            /\ Distance(h.ts, e.ts) <= MaxGap
            /\ \A f \in waiting[s][Other(side)] : Distance(h.ts, e.ts) <= Distance(f.ts, e.ts)
            /\ waiting'[s] \in [Sides -> SUBSET Entry]
            /\ waiting'[s][Other(side)] = waiting[s][Other(side)] \ {h}
            /\ waiting'[s][side] = waiting[s][side]
<1>1. Other(side) \in Sides /\ Other(side) # side
  BY SidesAre
<1>2. waiting[s] \in [Sides -> SUBSET Entry] /\ e.ts \in Times
  BY DEF CompType, Entry
<1>3. Facing(s, side) \subseteq Entry /\ Facing(s, side) # {}
  BY <1>1, <1>2 DEF Facing, RowHits, NearEnough
<1>4. /\ Hit(s, side, e) \in Facing(s, side)
      /\ \A f \in Facing(s, side) : Distance(Hit(s, side, e).ts, e.ts) <= Distance(f.ts, e.ts)
  BY <1>2, <1>3, NearestIs DEF Hit
<1>5. Distance(Hit(s, side, e).ts, e.ts) <= MaxGap
  BY DEF Hit, RowHits, NearEnough
<1>6. waiting'[s] = [waiting[s] EXCEPT ![Other(side)] = waiting[s][Other(side)] \ {Hit(s, side, e)}]
  BY DEF RowHits
<1> HIDE DEF Hit
<1> QED  BY <1>1, <1>2, <1>3, <1>4, <1>5, <1>6 DEF Facing

LEMMA HitRow ==
  ASSUME NEW s \in Specs, NEW side \in Sides, NEW e \in Entry, CompType(s), RowHits(s, side, e)
  PROVE  LET m == MasterOf(s, side, e)
             sl == SlaveOf(s, side, e)
             r == BuildCrossRow(s, m, sl)
         IN /\ m \in Entry /\ sl \in Entry /\ r \in CrossRow
            /\ r.spec = s /\ r.master = m /\ r.slave = sl
            /\ hwOffset'[s] \in Int /\ EpochGap(s) \in Int
            /\ r.hwGap = m.ts - sl.ts + EpochGap(s) + hwOffset'[s]
            /\ hwOffset'[s] = IF hwOffset[s] = NoOffset THEN sl.ts - m.ts - EpochGap(s) ELSE hwOffset[s]
            /\ Rows(s)' = Rows(s) \cup {r}
<1> DEFINE m == MasterOf(s, side, e)
           sl == SlaveOf(s, side, e)
           r == BuildCrossRow(s, m, sl)
<1>1. m \in Entry /\ sl \in Entry
  BY HitFacts DEF MasterOf, SlaveOf
<1>2. m.ts \in Int /\ sl.ts \in Int /\ m.drop \in BOOLEAN /\ sl.drop \in BOOLEAN
  BY <1>1, ConstantsAssumption DEF Entry, Times
<1>3. hwOffset'[s] = LearnedOffset(s, m, sl) /\ Rows(s)' = Rows(s) \cup {r}
  BY DEF RowHits
<1> HIDE DEF m, sl
<1>a. Epoch[Master] \in Int /\ Epoch[s.slave] \in Int
  BY ConstantsAssumption DEF Cameras, SpecType
<1>b. /\ HwTs(Master, m) = m.ts + Epoch[Master] /\ HwTs(s.slave, sl) = sl.ts + Epoch[s.slave]
      /\ EpochGap(s) = Epoch[Master] - Epoch[s.slave]
  BY DEF HwTs, EpochGap
<1>4. LearnedOffset(s, m, sl) \in Int
  BY <1>2, <1>a, <1>b DEF LearnedOffset, CompType
<1>5. r = [spec |-> s, master |-> m, slave |-> sl,
           hwGap |-> HwTs(Master, m) - (HwTs(s.slave, sl) - hwOffset'[s]), excluded |-> m.drop \/ sl.drop]
  BY <1>3 DEF BuildCrossRow
<1>6. r \in CrossRow
  BY <1>1, <1>2, <1>3, <1>4, <1>5, <1>a, <1>b DEF CrossRow
<1>7. r.hwGap = m.ts - sl.ts + EpochGap(s) + hwOffset'[s]
  BY <1>2, <1>3, <1>4, <1>5, <1>a, <1>b
<1>8. r.spec = s /\ r.master = m /\ r.slave = sl
  BY <1>5
<1>9. hwOffset'[s] = IF hwOffset[s] = NoOffset THEN sl.ts - m.ts - EpochGap(s) ELSE hwOffset[s]
  BY <1>2, <1>3, <1>a, <1>b DEF LearnedOffset
<1> HIDE DEF r
<1> QED  BY <1>1, <1>3, <1>4, <1>6, <1>7, <1>8, <1>9, <1>a, <1>b DEF m, sl, r

LEMMA MissFacts ==
  ASSUME NEW s \in Specs, NEW side \in Sides, NEW e \in Entry, CompType(s), BufferInv(s),
         Arrives(s, side, e), RowMisses(s, side, e)
  PROVE  /\ waiting'[s] \in [Sides -> SUBSET Entry]
         /\ waiting'[s][Other(side)] = waiting[s][Other(side)]
         /\ waiting'[s][side] \subseteq waiting[s][side] \cup {e}
         /\ IsFiniteSet(waiting'[s][side]) /\ Cardinality(waiting'[s][side]) <= BufferLen
         /\ Cardinality(waiting'[s][side]) <= Cardinality(waiting[s][side]) + 1
         /\ stamped => Cardinality(waiting'[s][side]) + evicted'[s]
                         = Cardinality(waiting[s][side]) + evicted[s] + 1
         /\ evicted'[s] \in Nat /\ (~stamped => evicted'[s] = evicted[s])
         /\ stamped => \A f \in waiting[s][Other(side)] : Distance(f.ts, e.ts) > MaxGap
         /\ ~stamped => waiting'[s] = waiting[s]
<1>0. Other(side) \in Sides /\ Other(side) # side
  BY SidesAre
<1>1. waiting[s] \in [Sides -> SUBSET Entry] /\ e.ts \in Times
  BY DEF CompType, Entry
<1> DEFINE B == waiting[s][side]
<1>2. B \subseteq Entry /\ IsFiniteSet(B) /\ Cardinality(B) <= BufferLen /\ e \notin B
  BY <1>1 DEF BufferInv, Arrives
<1>3. Cardinality(B) \in Nat /\ evicted[s] \in Nat
  BY <1>2, FS_CardinalityType DEF CompType
<1>4. CASE ~stamped
  BY <1>1, <1>2, <1>3, <1>4 DEF RowMisses
<1>5. CASE stamped
  <2>1. waiting'[s] = [waiting[s] EXCEPT ![side] = Push(B, e)]
    BY <1>5 DEF RowMisses
  <2> HIDE DEF B
  <2>2. /\ Push(B, e) \subseteq B \cup {e} /\ IsFiniteSet(Push(B, e))
        /\ Cardinality(Push(B, e)) <= BufferLen
        /\ Cardinality(Push(B, e)) <= Cardinality(B) + 1
        /\ Cardinality(Push(B, e)) = Cardinality(B) + IF Cardinality(B) = BufferLen THEN 0 ELSE 1
    BY <1>2, PushIs
  <2>3. waiting'[s][side] = Push(B, e) /\ waiting'[s][Other(side)] = waiting[s][Other(side)]
        /\ waiting'[s] \in [Sides -> SUBSET Entry]
    BY <1>0, <1>1, <1>2, <2>1, <2>2
  <2>4. evicted'[s] = evicted[s] + IF Cardinality(B) = BufferLen THEN 1 ELSE 0
    BY <1>5 DEF RowMisses, B
  <2>6. Cardinality(Push(B, e)) + evicted'[s] = Cardinality(B) + evicted[s] + 1 /\ evicted'[s] \in Nat
    BY <1>3, <2>2, <2>4
  <2>5. \A f \in waiting[s][Other(side)] : Distance(f.ts, e.ts) > MaxGap
    <3> SUFFICES ASSUME NEW f \in waiting[s][Other(side)] PROVE Distance(f.ts, e.ts) > MaxGap
      OBVIOUS
    <3> DEFINE F == waiting[s][Other(side)]
               n == Nearest(F, e.ts)
    <3>1. F \subseteq Entry /\ F # {}
      BY <1>0, <1>1
    <3>2. n \in F /\ Distance(n.ts, e.ts) <= Distance(f.ts, e.ts)
      BY <1>1, <3>1, NearestIs
    <3>3. ~(Distance(n.ts, e.ts) <= MaxGap)
      BY <1>5, <3>1 DEF RowMisses, Facing, NearEnough
    <3>4. n.ts \in Times /\ f.ts \in Times
      BY <3>1, <3>2 DEF Entry
    <3> HIDE DEF F, n
    <3>5. Distance(n.ts, e.ts) \in Nat /\ Distance(f.ts, e.ts) \in Nat
      BY <1>1, <3>4, DistanceFacts
    <3> QED  BY <3>2, <3>3, <3>5, ConstantsAssumption
  <2> QED  BY <1>5, <2>2, <2>3, <2>5, <2>6 DEF B
<1> QED  BY <1>4, <1>5
\* Each buffer only loses rows to a match.
LEMMA HitShrinks ==
  ASSUME NEW s \in Specs, NEW side \in Sides, NEW e \in Entry, CompType(s), RowHits(s, side, e)
  PROVE  \A d \in Sides : waiting'[s][d] \subseteq waiting[s][d]
<1>1. waiting'[s][side] = waiting[s][side] /\ waiting'[s][Other(side)] \subseteq waiting[s][Other(side)]
  BY HitFacts
<1> QED  BY <1>1, SidesAre

\* The rows a match joins were in no cross-row before.
LEMMA HitFresh ==
  ASSUME NEW s \in Specs, NEW side \in Sides, NEW e \in Entry, CompType(s), BufferInv(s), OnceInv(s),
         Arrives(s, side, e), RowHits(s, side, e)
  PROVE  LET m == MasterOf(s, side, e)
             sl == SlaveOf(s, side, e)
         IN /\ \A x \in Rows(s) : x.master.pair # m.pair /\ x.slave.pair # sl.pair
            /\ m.pair < pairs'[Master] /\ sl.pair < pairs'[s.slave]
            /\ \A f \in waiting'[s]["master"] : f.pair # m.pair
            /\ \A f \in waiting'[s]["slave"] : f.pair # sl.pair
<1> DEFINE h == Hit(s, side, e)
<1>0. "master" \in Sides /\ "slave" \in Sides
  BY DEF Sides
<1>1. /\ h \in Entry /\ h \in waiting[s][Other(side)]
      /\ waiting'[s][Other(side)] = waiting[s][Other(side)] \ {h} /\ waiting'[s][side] = waiting[s][side]
  BY HitFacts
<1>2. h.pair < pairs[CamOf(s, Other(side))] /\ \A f \in waiting'[s][Other(side)] : f.pair # h.pair
  BY <1>1, SidesAre DEF BufferInv
<1>3. \A f \in waiting'[s][side] : f.pair # e.pair
  BY <1>1 DEF BufferInv, Arrives
<1>4. \A d \in Sides : pairs[CamOf(s, d)] \in Nat
  BY DEF Arrives
<1>5. \A x \in Rows(s) : x.master.pair < pairs[Master] /\ x.slave.pair < pairs[s.slave]
  BY DEF OnceInv
<1>6. \A x \in Rows(s) : /\ \A f \in waiting[s]["master"] : f.pair # x.master.pair
                        /\ \A f \in waiting[s]["slave"] : f.pair # x.slave.pair
  BY DEF OnceInv
<1>7. /\ e.pair = pairs[CamOf(s, side)] /\ pairs'[CamOf(s, side)] = pairs[CamOf(s, side)] + 1
      /\ pairs'[CamOf(s, Other(side))] = pairs[CamOf(s, Other(side))]
  BY DEF Arrives
<1>8. MasterOf(s, side, e) = (IF side = "master" THEN e ELSE h) /\ SlaveOf(s, side, e) = (IF side = "master" THEN h ELSE e)
  BY DEF MasterOf, SlaveOf
<1> HIDE DEF h
<1>9. CASE side = "master"
  <2>1. Other(side) = "slave" /\ CamOf(s, side) = Master /\ CamOf(s, Other(side)) = s.slave
    BY <1>9 DEF Other, CamOf
  <2>2. MasterOf(s, side, e) = e /\ SlaveOf(s, side, e) = h
    BY <1>8, <1>9
  <2>3. pairs[Master] \in Nat /\ pairs[s.slave] \in Nat
    BY <1>0, <1>4 DEF CamOf
  <2>4. \A x \in Rows(s) : x.master.pair # e.pair /\ x.slave.pair # h.pair
    BY <1>1, <1>5, <1>6, <1>7, <2>1, <2>3
  <2> QED  BY <1>2, <1>3, <1>7, <1>9, <2>1, <2>2, <2>3, <2>4
<1>10. CASE side = "slave"
  <2>1. Other(side) = "master" /\ CamOf(s, side) = s.slave /\ CamOf(s, Other(side)) = Master
    BY <1>10 DEF Other, CamOf
  <2>2. MasterOf(s, side, e) = h /\ SlaveOf(s, side, e) = e
    BY <1>8, <1>10
  <2>3. pairs[Master] \in Nat /\ pairs[s.slave] \in Nat
    BY <1>0, <1>4 DEF CamOf
  <2>4. \A x \in Rows(s) : x.slave.pair # e.pair /\ x.master.pair # h.pair
    BY <1>1, <1>5, <1>6, <1>7, <2>1, <2>3
  <2> QED  BY <1>2, <1>3, <1>7, <1>10, <2>1, <2>2, <2>3, <2>4
<1> QED  BY <1>9, <1>10 DEF Sides

LEMMA GapFacts ==
  ASSUME NEW a \in Times, NEW b \in Times
  PROVE  /\ Distance(a, b) <= MaxGap <=> a <= b + MaxGap /\ b <= a + MaxGap
         /\ Distance(a, b) > MaxGap <=> a > b + MaxGap \/ b > a + MaxGap
BY ConstantsAssumption DEF Distance, Times

(* What a match leaves waiting is older than what it joined only if it is   *)
(* too old for the rows to come, and its rows come after those joined before.*)
LEMMA HitInOrder ==
  ASSUME NEW s \in Specs, NEW side \in Sides, NEW e \in Entry, CompInv(s),
         Arrives(s, side, e), RowHits(s, side, e)
  PROVE  OrderInv(s)'
<1> USE DEF CompInv
<1> DEFINE h == Hit(s, side, e)
           r == BuildCrossRow(s, MasterOf(s, side, e), SlaveOf(s, side, e))
           o == Other(side)
<1>0. o \in Sides /\ o # side /\ Sides = {side, o} /\ Other(o) = side
  BY SidesAre
<1>1. /\ h \in Entry /\ h \in waiting[s][o] /\ Distance(h.ts, e.ts) <= MaxGap
      /\ \A f \in waiting[s][o] : Distance(h.ts, e.ts) <= Distance(f.ts, e.ts)
      /\ waiting'[s][o] = waiting[s][o] \ {h} /\ waiting'[s][side] = waiting[s][side]
  BY HitFacts
<1>2. /\ Rows(s)' = Rows(s) \cup {r}
      /\ RowOf(r, side) = e /\ RowOf(r, o) = h
      /\ r.master = MasterOf(s, side, e) /\ r.slave = SlaveOf(s, side, e)
  BY HitRow, <1>0 DEF RowOf, MasterOf, SlaveOf, Sides, Other
<1>3. /\ LastOf(s, side) <= e.ts /\ LastOf(s, side)' = e.ts /\ LastOf(s, o)' = LastOf(s, o)
      /\ LastOf(s, side) \in Int /\ LastOf(s, o) \in Int
  BY <1>0 DEF Arrives
<1>4. /\ e.ts \in Times /\ h.ts \in Times /\ MaxGap \in Nat /\ Times \subseteq Int
      /\ \A d \in Sides : \A w \in waiting[s][d] : w.ts \in Times
      /\ \A x \in Rows(s) : x.master.ts \in Times /\ x.slave.ts \in Times
      /\ \A d \in Sides, x \in Rows(s) : RowOf(x, d).ts \in Times
  BY <1>1, ConstantsAssumption DEF CompType, CrossRow, Entry, Times, RowOf
<1>5. h.ts <= e.ts + MaxGap /\ e.ts <= h.ts + MaxGap
  BY <1>1, <1>4, GapFacts
<1>6. \A d \in Sides : waiting'[s][d] \subseteq waiting[s][d]
  BY HitShrinks
<1>7. /\ \A d \in Sides : /\ \A w \in waiting[s][d] : w.ts <= LastOf(s, d)
                          /\ \A x \in Rows(s) : RowOf(x, d).ts <= LastOf(s, d)
      /\ MaxGap <= 1 =>
           /\ \A d \in Sides, x \in Rows(s) : \A w \in waiting[s][d] :
                w.ts < RowOf(x, d).ts => w.ts + MaxGap <= RowOf(x, Other(d)).ts
           /\ \A x, y \in Rows(s) : x.master.ts < y.master.ts => x.slave.ts <= y.slave.ts
  BY DEF OrderInv
<1>8. \A w \in waiting[s][side] : w.ts > h.ts + MaxGap \/ h.ts > w.ts + MaxGap
  <2>1. \A w \in waiting[s][side] : Distance(w.ts, h.ts) > MaxGap
    <3>1. CASE side = "master"
      BY <1>1, <3>1 DEF GapInv, Other, o
    <3>2. CASE side = "slave"
      BY <1>1, <1>4, <3>2, DistanceFacts DEF GapInv, Other, o
    <3> QED  BY <3>1, <3>2 DEF Sides
  <2> QED  BY <1>4, <2>1, GapFacts
<1>9. \A x \in Rows(s) : (x.master = RowOf(x, side) /\ x.slave = RowOf(x, o) /\ r.master = e /\ r.slave = h)
                      \/ (x.master = RowOf(x, o) /\ x.slave = RowOf(x, side) /\ r.master = h /\ r.slave = e)
  BY <1>2 DEF RowOf, MasterOf, SlaveOf, Sides, Other
<1>a. (r.master = e /\ r.slave = h) \/ (r.master = h /\ r.slave = e)
  BY <1>2 DEF MasterOf, SlaveOf
<1> HIDE DEF h, r, o
<1>10. ASSUME NEW d \in Sides
       PROVE  /\ \A w \in waiting'[s][d] : w.ts <= LastOf(s, d)'
              /\ \A x \in Rows(s)' : RowOf(x, d).ts <= LastOf(s, d)'
  <2>0. /\ \A w \in waiting[s][d] : w.ts \in Int /\ w.ts <= LastOf(s, d)
        /\ \A x \in Rows(s) : RowOf(x, d).ts \in Int /\ RowOf(x, d).ts <= LastOf(s, d)
        /\ e.ts \in Int /\ h.ts \in Int
    BY <1>4, <1>7
  <2>1. CASE d = side
    BY <1>1, <1>2, <1>3, <2>0, <2>1
  <2>2. CASE d = o
    BY <1>1, <1>2, <1>3, <2>0, <2>2
  <2> QED  BY <1>0, <2>1, <2>2
<1>11. ASSUME MaxGap <= 1, NEW w \in waiting'[s][side], w.ts < e.ts PROVE w.ts + MaxGap <= h.ts
  <2>1. w.ts \in Int /\ h.ts \in Int /\ e.ts \in Int /\ w \in waiting[s][side]
    BY <1>0, <1>1, <1>4
  <2>2. w.ts > h.ts + MaxGap \/ h.ts > w.ts + MaxGap
    BY <1>8, <2>1
  <2> QED  BY <1>4, <1>5, <1>11, <2>1, <2>2
<1>12. ASSUME MaxGap <= 1, NEW w \in waiting'[s][o], w.ts < h.ts PROVE w.ts + MaxGap <= e.ts
  <2>1. w.ts \in Int /\ h.ts \in Int /\ e.ts \in Int /\ w \in waiting[s][o]
    BY <1>0, <1>1, <1>4
  <2>2. Distance(h.ts, e.ts) <= Distance(w.ts, e.ts)
    BY <1>1, <2>1
  <2>3. w.ts < e.ts
    BY <1>12, <2>1, <2>2 DEF Distance
  <2> QED  BY <1>4, <1>12, <2>1, <2>3
<1>13. ASSUME MaxGap <= 1, NEW d \in Sides, NEW x \in Rows(s)', NEW w \in waiting'[s][d],
              w.ts < RowOf(x, d).ts
       PROVE  w.ts + MaxGap <= RowOf(x, Other(d)).ts
  <2>1. CASE x \in Rows(s)
    BY <1>6, <1>7, <1>13, <2>1
  <2>2. CASE x = r /\ d = side
    BY <1>2, <1>11, <1>13, <2>2 DEF o
  <2>3. CASE x = r /\ d = o
    BY <1>0, <1>2, <1>12, <1>13, <2>3
  <2> QED  BY <1>0, <1>2, <2>1, <2>2, <2>3
<1>14. ASSUME MaxGap <= 1, NEW x \in Rows(s)
       PROVE  /\ RowOf(x, side).ts <= e.ts
              /\ RowOf(x, side).ts < e.ts => RowOf(x, o).ts <= h.ts
  <2>2. RowOf(x, side).ts \in Int /\ RowOf(x, o).ts \in Int /\ h.ts \in Int /\ e.ts \in Int
    BY <1>0, <1>4
  <2>0. RowOf(x, side).ts <= LastOf(s, side)
    BY <1>7
  <2>1. RowOf(x, side).ts <= e.ts
    BY <1>3, <2>0, <2>2
  <2>3. h.ts < RowOf(x, o).ts => h.ts + MaxGap <= RowOf(x, side).ts
    BY <1>0, <1>1, <1>7, <1>14
  <2> QED  BY <1>4, <1>5, <2>1, <2>2, <2>3
<1>15. ASSUME MaxGap <= 1, NEW x \in Rows(s)', NEW y \in Rows(s)', x.master.ts < y.master.ts
       PROVE  x.slave.ts <= y.slave.ts
  <2>1. CASE x \in Rows(s) /\ y \in Rows(s)
    BY <1>7, <1>15, <2>1
  <2>2. CASE x = r /\ y = r
    <3>1. h.ts \in Int /\ e.ts \in Int
      BY <1>4
    <3>2. r.master.ts \in Int
      BY <1>a, <3>1
    <3>3. r.master.ts < r.master.ts
      BY <1>15, <2>2
    <3> QED  BY <3>2, <3>3
  <2>3. CASE x \in Rows(s) /\ y = r
    BY <1>4, <1>9, <1>14, <1>15, <2>3
  <2>4. CASE x = r /\ y \in Rows(s)
    <3>1. RowOf(y, side).ts \in Int /\ RowOf(y, o).ts \in Int /\ h.ts \in Int /\ e.ts \in Int
      BY <1>0, <1>4, <2>4
    <3>2. RowOf(y, side).ts <= e.ts /\ (RowOf(y, side).ts < e.ts => RowOf(y, o).ts <= h.ts)
      BY <1>14, <1>15, <2>4
    <3>3. \/ y.master = RowOf(y, side) /\ y.slave = RowOf(y, o) /\ r.master = e /\ r.slave = h
          \/ y.master = RowOf(y, o) /\ y.slave = RowOf(y, side) /\ r.master = h /\ r.slave = e
      BY <1>9, <2>4
    <3>4. x.master.ts < y.master.ts /\ x = r
      BY <1>15, <2>4
    <3> HIDE DEF r
    <3> QED  BY <3>1, <3>2, <3>3, <3>4
  <2> QED  BY <1>2, <2>1, <2>2, <2>3, <2>4
<1> QED  BY <1>10, <1>13, <1>15 DEF OrderInv

LEMMA MissInOrder ==
  ASSUME NEW s \in Specs, NEW side \in Sides, NEW e \in Entry, CompInv(s), Arrives(s, side, e),
         waiting'[s][Other(side)] = waiting[s][Other(side)],
         waiting'[s][side] \subseteq waiting[s][side] \cup {e}, Rows(s)' = Rows(s)
  PROVE  OrderInv(s)'
<1> USE DEF CompInv
<1> DEFINE o == Other(side)
<1>0. o \in Sides /\ Sides = {side, o}
  BY SidesAre
<1>1. /\ LastOf(s, side) <= e.ts /\ LastOf(s, side)' = e.ts /\ LastOf(s, o)' = LastOf(s, o)
      /\ LastOf(s, side) \in Int /\ LastOf(s, o) \in Int
  BY <1>0 DEF Arrives
<1>2. /\ e.ts \in Int
      /\ \A d \in Sides : \A w \in waiting[s][d] : w.ts \in Int
      /\ \A d \in Sides, x \in Rows(s) : RowOf(x, d).ts \in Int
  BY ConstantsAssumption DEF CompType, CrossRow, Entry, Times, RowOf
<1>3. /\ \A d \in Sides : /\ \A w \in waiting[s][d] : w.ts <= LastOf(s, d)
                          /\ \A x \in Rows(s) : RowOf(x, d).ts <= LastOf(s, d)
      /\ MaxGap <= 1 =>
           /\ \A d \in Sides, x \in Rows(s) : \A w \in waiting[s][d] :
                w.ts < RowOf(x, d).ts => w.ts + MaxGap <= RowOf(x, Other(d)).ts
           /\ \A x, y \in Rows(s) : x.master.ts < y.master.ts => x.slave.ts <= y.slave.ts
  BY DEF OrderInv
<1>4. \A x \in Rows(s) : ~(e.ts < RowOf(x, side).ts)
  BY <1>1, <1>2, <1>3
<1> HIDE DEF o
<1>5. waiting'[s][o] = waiting[s][o]
  BY DEF o
<1>6. ASSUME NEW d \in Sides
      PROVE  /\ \A w \in waiting'[s][d] : w.ts <= LastOf(s, d)'
             /\ \A x \in Rows(s)' : RowOf(x, d).ts <= LastOf(s, d)'
  <2>1. CASE d = side
    BY <1>1, <1>2, <1>3, <2>1
  <2>2. CASE d = o
    BY <1>0, <1>1, <1>3, <1>5, <2>2
  <2> QED  BY <1>0, <2>1, <2>2
<1>7. ASSUME MaxGap <= 1, NEW d \in Sides, NEW x \in Rows(s), NEW w \in waiting'[s][d],
             w.ts < RowOf(x, d).ts
      PROVE  w.ts + MaxGap <= RowOf(x, Other(d)).ts
  <2>1. w \in waiting[s][d]
    BY <1>0, <1>4, <1>5, <1>7
  <2> QED  BY <1>3, <1>7, <2>1
<1> QED  BY <1>3, <1>6, <1>7 DEF OrderInv

LEMMA HitKeeps ==
  ASSUME NEW s \in Specs, NEW side \in Sides, NEW e \in Entry, CompInv(s),
         Arrives(s, side, e), RowHits(s, side, e)
  PROVE  CompInv(s)'
<1> USE DEF CompInv
<1> DEFINE h == Hit(s, side, e)
           m == MasterOf(s, side, e)
           sl == SlaveOf(s, side, e)
           r == BuildCrossRow(s, m, sl)
           o == Other(side)
<1>0. "master" \in Sides /\ "slave" \in Sides /\ o \in Sides /\ o # side
      /\ Sides = {side, o} /\ Other(o) = side /\ Other(side) = o
  BY SidesAre DEF Sides
<1>1. /\ h \in Entry /\ h \in waiting[s][o] /\ Distance(h.ts, e.ts) <= MaxGap
      /\ \A f \in waiting[s][o] : Distance(h.ts, e.ts) <= Distance(f.ts, e.ts)
      /\ waiting'[s] \in [Sides -> SUBSET Entry]
      /\ waiting'[s][o] = waiting[s][o] \ {h} /\ waiting'[s][side] = waiting[s][side]
  BY HitFacts
<1>2. /\ m \in Entry /\ sl \in Entry /\ r \in CrossRow /\ r.spec = s /\ r.master = m /\ r.slave = sl
      /\ hwOffset'[s] \in Int /\ EpochGap(s) \in Int
      /\ r.hwGap = m.ts - sl.ts + EpochGap(s) + hwOffset'[s]
      /\ hwOffset'[s] = IF hwOffset[s] = NoOffset THEN sl.ts - m.ts - EpochGap(s) ELSE hwOffset[s]
      /\ Rows(s)' = Rows(s) \cup {r}
  BY HitRow
<1>3. \A d \in Sides : waiting'[s][d] \subseteq waiting[s][d]
  BY HitShrinks
<1>4. /\ \A x \in Rows(s) : x.master.pair # m.pair /\ x.slave.pair # sl.pair
      /\ m.pair < pairs'[Master] /\ sl.pair < pairs'[s.slave]
      /\ \A f \in waiting'[s]["master"] : f.pair # m.pair
      /\ \A f \in waiting'[s]["slave"] : f.pair # sl.pair
  BY HitFresh
<1>5. \A d \in Sides : pairs[CamOf(s, d)] <= pairs'[CamOf(s, d)] /\ pairs[CamOf(s, d)] \in Nat
                       /\ pairs'[CamOf(s, d)] \in Nat
  BY <1>0 DEF Arrives
<1>6. stamped /\ matched'[s] = matched[s] + 1 /\ unmatched'[s] = unmatched[s] /\ evicted'[s] = evicted[s]
  BY DEF RowHits
<1>7. stamped' = stamped /\ e.pair = pairs[CamOf(s, side)] /\ pairs'[CamOf(s, side)] = pairs[CamOf(s, side)] + 1
      /\ pairs'[CamOf(s, o)] = pairs[CamOf(s, o)]
  BY DEF Arrives
<1>8. (m = e /\ sl = h) \/ (m = h /\ sl = e)
  BY DEF MasterOf, SlaveOf
<1>9. pairs[Master] = pairs[CamOf(s, "master")] /\ pairs[s.slave] = pairs[CamOf(s, "slave")]
      /\ pairs'[Master] = pairs'[CamOf(s, "master")] /\ pairs'[s.slave] = pairs'[CamOf(s, "slave")]
  BY DEF CamOf
<1> HIDE DEF h, m, sl, r, o
<1>10. CompType(s)'
  <2>1. Rows(s) \subseteq CrossRow /\ IsFiniteSet(Rows(s))
    BY DEF CompType
  <2>2. IsFiniteSet(Rows(s) \cup {r})
    BY <2>1, FS_AddElement
  <2>3. matched[s] \in Nat /\ unmatched[s] \in Nat /\ evicted[s] \in Nat
    BY DEF CompType
  <2> QED  BY <1>1, <1>2, <1>6, <2>1, <2>2, <2>3 DEF CompType
<1>11. BufferInv(s)'
  <2>1. ASSUME NEW d \in Sides
        PROVE  /\ IsFiniteSet(waiting'[s][d]) /\ Cardinality(waiting'[s][d]) <= BufferLen
               /\ \A f \in waiting'[s][d] : f.pair < pairs'[CamOf(s, d)]
               /\ \A f, g \in waiting'[s][d] : f.pair = g.pair => f = g
    <3>1. /\ IsFiniteSet(waiting[s][d]) /\ Cardinality(waiting[s][d]) <= BufferLen
          /\ \A f \in waiting[s][d] : f.pair < pairs[CamOf(s, d)]
          /\ \A f, g \in waiting[s][d] : f.pair = g.pair => f = g
      BY DEF BufferInv
    <3>2. waiting'[s][d] \subseteq waiting[s][d]
      BY <1>3
    <3>3. IsFiniteSet(waiting'[s][d]) /\ Cardinality(waiting'[s][d]) <= Cardinality(waiting[s][d])
      BY <3>1, <3>2, FS_Subset
    <3>4. Cardinality(waiting'[s][d]) \in Nat /\ Cardinality(waiting[s][d]) \in Nat
      BY <3>1, <3>3, FS_CardinalityType
    <3>5. Cardinality(waiting'[s][d]) <= BufferLen
      BY <3>1, <3>3, <3>4, ConstantsAssumption
    <3>6. \A f \in waiting'[s][d] : f.pair \in Nat
      BY <1>1, ConstantsAssumption DEF Entry, Times
    <3>7. \A f \in waiting'[s][d] : f.pair < pairs'[CamOf(s, d)]
      BY <1>5, <3>1, <3>2, <3>6
    <3> QED  BY <3>1, <3>2, <3>3, <3>5, <3>7
  <2> QED  BY <1>6, <1>7, <2>1 DEF BufferInv
<1>12. GapInv(s)'
  BY <1>0, <1>3 DEF GapInv
<1>13. OnceInv(s)'
  <2>1. ASSUME NEW x \in Rows(s)
        PROVE  /\ x.master.pair < pairs'[Master] /\ x.slave.pair < pairs'[s.slave]
               /\ \A f \in waiting'[s]["master"] : f.pair # x.master.pair
               /\ \A f \in waiting'[s]["slave"] : f.pair # x.slave.pair
    <3>1. x.master.pair \in Nat /\ x.slave.pair \in Nat
      BY ConstantsAssumption DEF CompType, CrossRow, Entry, Times
    <3>2. x.master.pair < pairs[Master] /\ x.slave.pair < pairs[s.slave]
      BY DEF OnceInv
    <3>3. pairs[Master] <= pairs'[Master] /\ pairs[s.slave] <= pairs'[s.slave]
          /\ pairs[Master] \in Nat /\ pairs[s.slave] \in Nat /\ pairs'[Master] \in Nat /\ pairs'[s.slave] \in Nat
      BY <1>0, <1>5, <1>9
    <3>4. /\ \A f \in waiting'[s]["master"] : f.pair # x.master.pair
          /\ \A f \in waiting'[s]["slave"] : f.pair # x.slave.pair
      BY <1>0, <1>3 DEF OnceInv
    <3> QED  BY <3>1, <3>2, <3>3, <3>4
  <2>2. \A x, y \in Rows(s) : x # y => x.master.pair # y.master.pair /\ x.slave.pair # y.slave.pair
    BY DEF OnceInv
  <2> QED  BY <1>2, <1>4, <2>1, <2>2 DEF OnceInv
<1>14. OffsetInv(s)'
  <2>1. ASSUME NEW x \in Rows(s)
        PROVE  hwOffset'[s] # NoOffset /\ x.hwGap = x.master.ts - x.slave.ts + EpochGap(s) + hwOffset'[s]
    BY <1>2 DEF OffsetInv
  <2>2. hwOffset'[s] # NoOffset
    BY <1>2, ConstantsAssumption
  <2>3. \E x \in Rows(s)' : x.hwGap = 0
    <3>1. CASE hwOffset[s] = NoOffset
      <4>1. m.ts \in Int /\ sl.ts \in Int
        BY <1>2, ConstantsAssumption DEF Entry, Times
      <4>2. r.hwGap = 0
        BY <1>2, <3>1, <4>1
      <4> QED  BY <1>2, <4>2
    <3>2. CASE hwOffset[s] # NoOffset
      BY <1>2, <3>2 DEF OffsetInv
    <3> QED  BY <3>1, <3>2
  <2>4. EpochGap(s)' = EpochGap(s)
    BY DEF EpochGap
  <2> QED  BY <1>2, <2>1, <2>2, <2>3, <2>4 DEF OffsetInv
<1>15. OrderInv(s)'
  BY HitInOrder
<1>16. CountInv(s)'
  <2> DEFINE cs == Cardinality(waiting[s][side])
             co == Cardinality(waiting[s][o])
  <2>1. IsFiniteSet(waiting[s][side]) /\ IsFiniteSet(waiting[s][o]) /\ IsFiniteSet(Rows(s))
    BY <1>0 DEF BufferInv, CompType
  <2>2. cs \in Nat /\ co \in Nat /\ matched[s] \in Nat /\ unmatched[s] \in Nat /\ evicted[s] \in Nat
    BY <2>1, FS_CardinalityType DEF CompType
  <2>3. Cardinality(waiting'[s][side]) = cs /\ Cardinality(waiting'[s][o]) = co - 1
    <3>1. Cardinality(waiting[s][o] \ {h}) = Cardinality(waiting[s][o]) - 1
      BY <1>1, <2>1, FS_RemoveElement
    <3> QED  BY <1>1, <3>1
  <2>4. Cardinality(Rows(s)') = Cardinality(Rows(s)) + 1
    <3>1. r \notin Rows(s)
      BY <1>2, <1>4
    <3>2. Cardinality(Rows(s) \cup {r}) = Cardinality(Rows(s)) + 1
      BY <2>1, <3>1, FS_AddElement
    <3> QED  BY <1>2, <3>2
  <2>5. /\ matched[s] = Cardinality(Rows(s))
        /\ stamped => unmatched[s] = matched[s] + (cs + co) + evicted[s]
        /\ ~stamped => evicted[s] = 0
        /\ unmatched[s] + matched[s] = pairs[Master] + pairs[s.slave]
        /\ matched[s] + cs <= pairs[CamOf(s, side)] /\ matched[s] + co <= pairs[CamOf(s, o)]
    <3>1. Cardinality(waiting[s]["master"]) \in Nat /\ Cardinality(waiting[s]["slave"]) \in Nat
      BY <1>0, <2>2
    <3>2. Cardinality(waiting[s]["master"]) + Cardinality(waiting[s]["slave"]) = cs + co
      BY <1>0, <2>2, <3>1 DEF Sides
    <3> QED  BY <1>0, <3>2 DEF CountInv
  <2>6. Cardinality(waiting'[s]["master"]) + Cardinality(waiting'[s]["slave"]) = cs + (co - 1)
    <3>1. CASE side = "master"
      BY <1>0, <2>2, <2>3, <3>1 DEF Sides
    <3>2. CASE side = "slave"
      BY <1>0, <2>2, <2>3, <3>2 DEF Sides
    <3> QED  BY <3>1, <3>2 DEF Sides
  <2>7. pairs'[Master] + pairs'[s.slave] = pairs[Master] + pairs[s.slave] + 1
    <3>1. CASE side = "master"
      BY <1>0, <1>5, <1>7, <1>9, <3>1 DEF Sides
    <3>2. CASE side = "slave"
      BY <1>0, <1>5, <1>7, <1>9, <3>2 DEF Sides
    <3> QED  BY <3>1, <3>2 DEF Sides
  <2>8. \A d \in Sides : matched'[s] + Cardinality(waiting'[s][d]) <= pairs'[CamOf(s, d)]
    <3>1. matched'[s] + Cardinality(waiting'[s][side]) <= pairs'[CamOf(s, side)]
      BY <1>0, <1>5, <1>6, <1>7, <2>2, <2>3, <2>5
    <3>2. matched'[s] + Cardinality(waiting'[s][o]) <= pairs'[CamOf(s, o)]
      BY <1>0, <1>5, <1>6, <1>7, <2>2, <2>3, <2>5
    <3> QED  BY <1>0, <3>1, <3>2
  <2>9. matched'[s] = Cardinality(Rows(s)')
    BY <1>6, <2>4, <2>5
  <2>10. unmatched'[s] + matched'[s] = pairs'[Master] + pairs'[s.slave]
    <3>1. unmatched[s] + matched[s] + 1 = pairs'[Master] + pairs'[s.slave]
      BY <2>5, <2>7
    <3> QED  BY <1>6, <2>2, <3>1
  <2>11. unmatched'[s] = matched'[s] + (cs + (co - 1)) + evicted'[s] /\ stamped'
    BY <1>6, <1>7, <2>2, <2>5
  <2> QED  BY <2>6, <2>8, <2>9, <2>10, <2>11 DEF CountInv
<1> QED  BY <1>10, <1>11, <1>12, <1>13, <1>14, <1>15, <1>16
LEMMA MissKeeps ==
  ASSUME NEW s \in Specs, NEW side \in Sides, NEW e \in Entry, CompInv(s),
         Arrives(s, side, e), RowMisses(s, side, e)
  PROVE  CompInv(s)'
<1> USE DEF CompInv
<1> DEFINE o == Other(side)
<1>0. "master" \in Sides /\ "slave" \in Sides /\ o \in Sides /\ o # side
      /\ Sides = {side, o} /\ Other(o) = side /\ Other(side) = o
  BY SidesAre DEF Sides
<1>1. /\ waiting'[s] \in [Sides -> SUBSET Entry]
      /\ waiting'[s][o] = waiting[s][o]
      /\ waiting'[s][side] \subseteq waiting[s][side] \cup {e}
      /\ IsFiniteSet(waiting'[s][side]) /\ Cardinality(waiting'[s][side]) <= BufferLen
      /\ Cardinality(waiting'[s][side]) <= Cardinality(waiting[s][side]) + 1
      /\ stamped => Cardinality(waiting'[s][side]) + evicted'[s]
                      = Cardinality(waiting[s][side]) + evicted[s] + 1
      /\ evicted'[s] \in Nat /\ (~stamped => evicted'[s] = evicted[s])
      /\ stamped => \A f \in waiting[s][o] : Distance(f.ts, e.ts) > MaxGap
      /\ ~stamped => waiting'[s] = waiting[s]
  BY MissFacts
<1>2. /\ Rows(s)' = Rows(s) /\ hwOffset'[s] = hwOffset[s]
      /\ matched'[s] = matched[s] /\ unmatched'[s] = unmatched[s] + 1
  BY DEF RowMisses
<1> HIDE DEF o
<1>3. /\ e.pair = pairs[CamOf(s, side)] /\ pairs'[CamOf(s, side)] = pairs[CamOf(s, side)] + 1
      /\ pairs'[CamOf(s, o)] = pairs[CamOf(s, o)]
      /\ stamped' = stamped /\ stamped \in BOOLEAN
  BY DEF Arrives, o
<1>4. \A d \in Sides : pairs[CamOf(s, d)] <= pairs'[CamOf(s, d)] /\ pairs[CamOf(s, d)] \in Nat
                       /\ pairs'[CamOf(s, d)] \in Nat
  BY <1>0 DEF Arrives
<1>5. pairs[Master] = pairs[CamOf(s, "master")] /\ pairs[s.slave] = pairs[CamOf(s, "slave")]
      /\ pairs'[Master] = pairs'[CamOf(s, "master")] /\ pairs'[s.slave] = pairs'[CamOf(s, "slave")]
  BY DEF CamOf
<1>6. \A d \in Sides : \A f \in waiting[s][d] : f.pair \in Nat /\ f.ts \in Times /\ f \in Entry
  BY ConstantsAssumption DEF CompType, Entry, Times
<1>7. CompType(s)'
  BY <1>1, <1>2 DEF CompType
<1>8. BufferInv(s)'
  <2>1. /\ \A f \in waiting[s][side] : f.pair < e.pair
        /\ \A f, g \in waiting[s][side] : f.pair = g.pair => f = g
    BY <1>3 DEF BufferInv
  <2>2. \A f \in waiting'[s][side] : f.pair < pairs'[CamOf(s, side)]
    BY <1>1, <1>3, <1>4, <1>6, <2>1
  <2>3. \A f, g \in waiting'[s][side] : f.pair = g.pair => f = g
    BY <1>1, <1>3, <1>4, <1>6, <2>1
  <2>4. /\ IsFiniteSet(waiting'[s][o]) /\ Cardinality(waiting'[s][o]) <= BufferLen
        /\ \A f \in waiting'[s][o] : f.pair < pairs'[CamOf(s, o)]
        /\ \A f, g \in waiting'[s][o] : f.pair = g.pair => f = g
    BY <1>0, <1>1, <1>3 DEF BufferInv
  <2>5. ~stamped' => waiting'[s][side] = {} /\ waiting'[s][o] = {}
    BY <1>0, <1>1, <1>3 DEF BufferInv
  <2> QED  BY <1>0, <1>1, <2>2, <2>3, <2>4, <2>5 DEF BufferInv
<1>9. GapInv(s)'
  <2>1. CASE ~stamped
    BY <1>1, <2>1 DEF GapInv
  <2>2. CASE stamped
    <3>1. \A f \in waiting[s][o] : Distance(f.ts, e.ts) > MaxGap /\ Distance(e.ts, f.ts) > MaxGap
      BY <1>0, <1>1, <1>6, <2>2, DistanceFacts DEF Entry
    <3>2. CASE side = "master"
      BY <1>0, <1>1, <3>1, <3>2 DEF GapInv, Sides
    <3>3. CASE side = "slave"
      BY <1>0, <1>1, <3>1, <3>3 DEF GapInv, Sides
    <3> QED  BY <3>2, <3>3 DEF Sides
  <2> QED  BY <2>1, <2>2
<1>10. OnceInv(s)'
  <2>1. \A x, y \in Rows(s) : x # y => x.master.pair # y.master.pair /\ x.slave.pair # y.slave.pair
    BY DEF OnceInv
  <2>2. ASSUME NEW x \in Rows(s)
        PROVE  /\ x.master.pair < pairs'[Master] /\ x.slave.pair < pairs'[s.slave]
               /\ \A f \in waiting'[s]["master"] : f.pair # x.master.pair
               /\ \A f \in waiting'[s]["slave"] : f.pair # x.slave.pair
    <3>1. x.master.pair \in Nat /\ x.slave.pair \in Nat
      BY ConstantsAssumption DEF CompType, CrossRow, Entry, Times
    <3>2. /\ x.master.pair < pairs[Master] /\ x.slave.pair < pairs[s.slave]
          /\ \A f \in waiting[s]["master"] : f.pair # x.master.pair
          /\ \A f \in waiting[s]["slave"] : f.pair # x.slave.pair
      BY DEF OnceInv
    <3>3. pairs[Master] <= pairs'[Master] /\ pairs[s.slave] <= pairs'[s.slave]
          /\ pairs[Master] \in Nat /\ pairs[s.slave] \in Nat /\ pairs'[Master] \in Nat /\ pairs'[s.slave] \in Nat
      BY <1>0, <1>4, <1>5
    <3>4. CASE side = "master"
      BY <1>0, <1>1, <1>3, <1>5, <3>1, <3>2, <3>3, <3>4 DEF Sides
    <3>5. CASE side = "slave"
      BY <1>0, <1>1, <1>3, <1>5, <3>1, <3>2, <3>3, <3>5 DEF Sides
    <3> QED  BY <3>4, <3>5 DEF Sides
  <2> QED  BY <1>2, <2>1, <2>2 DEF OnceInv
<1>11. OffsetInv(s)'
  BY <1>2 DEF OffsetInv, EpochGap
<1>12. OrderInv(s)'
  <2>1. /\ waiting'[s][Other(side)] = waiting[s][Other(side)]
        /\ waiting'[s][side] \subseteq waiting[s][side] \cup {e} /\ Rows(s)' = Rows(s)
    BY <1>0, <1>1, <1>2
  <2> HIDE DEF CompInv
  <2> QED  BY <2>1, MissInOrder
<1>13. CountInv(s)'
  <2> DEFINE cs == Cardinality(waiting[s][side])
             co == Cardinality(waiting[s][o])
             ds == Cardinality(waiting'[s][side])
  <2>1. /\ cs \in Nat /\ co \in Nat /\ ds \in Nat
        /\ matched[s] \in Nat /\ unmatched[s] \in Nat /\ evicted[s] \in Nat /\ evicted'[s] \in Nat
    BY <1>0, <1>1, FS_CardinalityType DEF BufferInv, CompType
  <2>2. Cardinality(waiting'[s][o]) = co /\ ds <= cs + 1
    BY <1>1
  <2>3. /\ matched[s] = Cardinality(Rows(s))
        /\ stamped => unmatched[s] = matched[s] + (cs + co) + evicted[s]
        /\ ~stamped => evicted[s] = 0
        /\ unmatched[s] + matched[s] = pairs[Master] + pairs[s.slave]
        /\ matched[s] + cs <= pairs[CamOf(s, side)] /\ matched[s] + co <= pairs[CamOf(s, o)]
    <3>1. Cardinality(waiting[s]["master"]) + Cardinality(waiting[s]["slave"]) = cs + co
      <4>1. CASE side = "master"
        BY <1>0, <2>1, <4>1 DEF Sides
      <4>2. CASE side = "slave"
        BY <1>0, <2>1, <4>2 DEF Sides
      <4> QED  BY <4>1, <4>2 DEF Sides
    <3> QED  BY <1>0, <3>1 DEF CountInv
  <2>4. Cardinality(waiting'[s]["master"]) + Cardinality(waiting'[s]["slave"]) = ds + co
    <3>1. CASE side = "master"
      BY <1>0, <2>1, <2>2, <3>1 DEF Sides
    <3>2. CASE side = "slave"
      BY <1>0, <2>1, <2>2, <3>2 DEF Sides
    <3> QED  BY <3>1, <3>2 DEF Sides
  <2>5. pairs'[Master] + pairs'[s.slave] = pairs[Master] + pairs[s.slave] + 1
    <3>1. CASE side = "master"
      BY <1>0, <1>3, <1>4, <1>5, <3>1 DEF Sides
    <3>2. CASE side = "slave"
      BY <1>0, <1>3, <1>4, <1>5, <3>2 DEF Sides
    <3> QED  BY <3>1, <3>2 DEF Sides
  <2>6. \A d \in Sides : matched'[s] + Cardinality(waiting'[s][d]) <= pairs'[CamOf(s, d)]
    <3>1. matched[s] + ds <= pairs'[CamOf(s, side)]
      BY <1>0, <1>3, <1>4, <2>1, <2>2, <2>3
    <3>2. matched[s] + co <= pairs'[CamOf(s, o)]
      BY <1>3, <2>3
    <3> QED  BY <1>0, <1>2, <2>2, <3>1, <3>2
  <2>7. unmatched'[s] + matched'[s] = pairs'[Master] + pairs'[s.slave]
    BY <1>2, <2>1, <2>3, <2>5
  <2>8. stamped' => unmatched'[s] = matched'[s] + (ds + co) + evicted'[s]
    <3> SUFFICES ASSUME stamped' PROVE unmatched'[s] = matched'[s] + (ds + co) + evicted'[s]
      OBVIOUS
    <3>1. ds + evicted'[s] = cs + evicted[s] + 1 /\ stamped
      BY <1>1, <1>3
    <3> QED  BY <1>2, <2>1, <2>3, <3>1
  <2>9. ~stamped' => evicted'[s] = 0
    BY <1>1, <1>3, <2>3
  <2> QED  BY <1>2, <2>3, <2>4, <2>6, <2>7, <2>8, <2>9 DEF CountInv
<1> QED  BY <1>7, <1>8, <1>9, <1>10, <1>11, <1>12, <1>13

\* What does not touch a comparison, nor the rows of its cameras.
LEMMA ElsewhereKeeps ==
  ASSUME NEW s \in Specs, CompInv(s), RowElsewhere(s), stamped' = stamped,
         \A d \in Sides : pairs'[CamOf(s, d)] = pairs[CamOf(s, d)] /\ LastOf(s, d)' = LastOf(s, d)
  PROVE  CompInv(s)'
<1>1. pairs[Master] = pairs[CamOf(s, "master")] /\ pairs[s.slave] = pairs[CamOf(s, "slave")]
      /\ pairs'[Master] = pairs'[CamOf(s, "master")] /\ pairs'[s.slave] = pairs'[CamOf(s, "slave")]
  BY DEF CamOf
<1>2. pairs'[Master] = pairs[Master] /\ pairs'[s.slave] = pairs[s.slave]
  BY <1>1 DEF Sides
<1>3. waiting'[s] = waiting[s] /\ Rows(s)' = Rows(s) /\ hwOffset'[s] = hwOffset[s]
      /\ matched'[s] = matched[s] /\ unmatched'[s] = unmatched[s] /\ evicted'[s] = evicted[s]
  BY DEF RowElsewhere
<1>4. CompType(s)' /\ BufferInv(s)' /\ GapInv(s)'
  BY <1>3 DEF CompInv, CompType, BufferInv, GapInv
<1>5. OnceInv(s)' /\ OffsetInv(s)'
  BY <1>2, <1>3 DEF CompInv, OnceInv, OffsetInv, EpochGap
<1>6. OrderInv(s)'
  BY <1>3 DEF CompInv, OrderInv, RowOf
<1>7. CountInv(s)'
  BY <1>2, <1>3 DEF CompInv, CountInv
<1> QED  BY <1>4, <1>5, <1>6, <1>7 DEF CompInv
-----------------------------------------------------------------------------
(* Delivering a row, losing one.                                            *)

LEMMA DeliverIs ==
  ASSUME ClockInv, NEW c \in Cameras, DeliverRow(c)
  PROVE  \E ts \in [Identities -> Times], drop \in [Identities -> BOOLEAN] :
           /\ IngestRow(c, ts, drop) /\ lastTs' = [lastTs EXCEPT ![c] = ts]
           /\ \A i \in Identities : lastTs[c][i] <= ts[i] /\ ts[i] <= clock[c]
<1>1. PICK repeats \in {{}} \cup {{i} : i \in {j \in Identities : lastTs[c][j] # -1}} :
        LET ts == [i \in Identities |-> IF i \in repeats THEN lastTs[c][i] ELSE clock[c]]
        IN /\ IngestRow(c, ts, [i \in Identities |-> FrameDrop(lastTs[c][i], ts[i])])
           /\ lastTs' = [lastTs EXCEPT ![c] = ts]
  BY DEF DeliverRow
<1> DEFINE ts == [i \in Identities |-> IF i \in repeats THEN lastTs[c][i] ELSE clock[c]]
           drop == [i \in Identities |-> FrameDrop(lastTs[c][i], ts[i])]
<1>2. clock[c] \in Times
  BY ConstantsAssumption DEF DeliverRow, ClockInv, Times
<1>3. \A i \in repeats : i \in Identities /\ lastTs[c][i] # -1
  OBVIOUS
<1>4. \A i \in Identities : lastTs[c][i] \in -1 .. MaxTime
  BY DEF ClockInv
<1>5. \A i \in repeats : lastTs[c][i] \in Times
  BY <1>3, <1>4, ConstantsAssumption DEF Times
<1>6. ts \in [Identities -> Times]
  BY <1>2, <1>5
<1>7. drop \in [Identities -> BOOLEAN]
  BY DEF FrameDrop
<1>8. IngestRow(c, ts, drop) /\ lastTs' = [lastTs EXCEPT ![c] = ts]
  BY <1>1
<1>9. \A i \in Identities : lastTs[c][i] <= ts[i] /\ ts[i] <= clock[c]
  BY <1>2, <1>4 DEF ClockInv, Times
<1> HIDE DEF ts, drop
<1> QED  BY <1>6, <1>7, <1>8, <1>9

LEMMA IngestShape ==
  ASSUME Shape, NEW c \in Cameras, NEW ts, NEW drop, IngestRow(c, ts, drop)
  PROVE  Shape'
<1>1. /\ waiting' = [s \in Specs |-> waiting'[s]] /\ hwOffset' = [s \in Specs |-> hwOffset'[s]]
      /\ matched' = [s \in Specs |-> matched'[s]] /\ unmatched' = [s \in Specs |-> unmatched'[s]]
      /\ evicted' = [s \in Specs |-> evicted'[s]]
  BY DEF IngestRow
<1> DEFINE side == SideOf(c)
           hits == {t \in SpecsOf(c) : stamped /\ NearEnough(waiting[t][Other(side)], ts[t.identity])}
           m(t) == MasterOf(t, side, Own(c, ts, drop, t))
           sl(t) == SlaveOf(t, side, Own(c, ts, drop, t))
<1>2. \A x \in crossRows' : x.spec \in Specs
  <2>1. crossRows' = crossRows \cup {BuildCrossRow(t, m(t), sl(t)) : t \in hits}
    BY DEF IngestRow, MasterOf, SlaveOf, Hit, Facing, Own
  <2>2. \A t \in hits : t \in Specs /\ BuildCrossRow(t, m(t), sl(t)).spec = t
    BY DEF BuildCrossRow, SpecsOf
  <2> HIDE DEF hits, m, sl
  <2> QED  BY <2>1, <2>2 DEF Shape
<1> QED  BY <1>1, <1>2 DEF Shape

\* The row camera c delivers, as comparison s sees it.
LEMMA RowArrives ==
  ASSUME MatchInv, NEW c \in Cameras, DeliverRow(c), NEW s \in SpecsOf(c),
         NEW ts \in [Identities -> Times], NEW drop \in [Identities -> BOOLEAN],
         lastTs' = [lastTs EXCEPT ![c] = ts], \A i \in Identities : lastTs[c][i] <= ts[i]
  PROVE  /\ s \in Specs /\ SideOf(c) \in Sides /\ Own(c, ts, drop, s) \in Entry
         /\ Arrives(s, SideOf(c), Own(c, ts, drop, s))
<1>1. s \in Specs /\ s.slave \in Slaves /\ s.identity \in Identities /\ s.slave # Master
  BY ConstantsAssumption DEF SpecsOf, SpecType
<1>2. SideOf(c) \in Sides /\ CamOf(s, SideOf(c)) = c
  BY <1>1 DEF SideOf, CamOf, Sides, SpecsOf
<1>3. CamOf(s, Other(SideOf(c))) # c /\ \A d \in Sides : CamOf(s, d) \in Cameras
  BY <1>1, <1>2 DEF SideOf, CamOf, Other, Cameras, SpecsOf
<1>4. pairs \in [Cameras -> 0 .. MaxTime + 1] /\ clock[c] <= MaxTime /\ clock[c] \in 0 .. MaxTime + 1
      /\ pairs[c] <= clock[c] /\ stamped \in BOOLEAN /\ lastTs \in [Cameras -> [Identities -> -1 .. MaxTime]]
  BY DEF MatchInv, ClockInv, DeliverRow
<1>5. pairs' = [pairs EXCEPT ![c] = @ + 1] /\ stamped' = stamped
  BY DEF DeliverRow
<1>6. Own(c, ts, drop, s) \in Entry
  BY <1>1, <1>4, ConstantsAssumption DEF Own, Entry, Times
<1>7. \A d \in Sides : pairs[CamOf(s, d)] \in Nat
  BY <1>3, <1>4, ConstantsAssumption
<1>8. Other(SideOf(c)) \in Sides
  BY <1>2, SidesAre
<1>9. pairs'[c] = pairs[c] + 1 /\ pairs'[CamOf(s, Other(SideOf(c)))] = pairs[CamOf(s, Other(SideOf(c)))]
  BY <1>3, <1>4, <1>5, <1>8
<1>10. /\ \A d \in Sides : LastOf(s, d) \in Int
       /\ LastOf(s, SideOf(c)) <= ts[s.identity] /\ LastOf(s, SideOf(c))' = ts[s.identity]
       /\ LastOf(s, Other(SideOf(c)))' = LastOf(s, Other(SideOf(c)))
  BY <1>1, <1>2, <1>3, <1>4, <1>8 DEF LastOf
<1>11. Own(c, ts, drop, s).pair = pairs[c] /\ Own(c, ts, drop, s).ts = ts[s.identity]
  BY DEF Own
<1> QED  BY <1>1, <1>2, <1>4, <1>5, <1>6, <1>7, <1>9, <1>10, <1>11 DEF Arrives

LEMMA DeliverKeeps ==
  ASSUME MatchInv, NEW c \in Cameras, DeliverRow(c)
  PROVE  MatchInv'
<1> USE DEF MatchInv
<1>1. PICK ts \in [Identities -> Times], drop \in [Identities -> BOOLEAN] :
        /\ IngestRow(c, ts, drop) /\ lastTs' = [lastTs EXCEPT ![c] = ts]
        /\ \A i \in Identities : lastTs[c][i] <= ts[i] /\ ts[i] <= clock[c]
  BY DeliverIs
<1>2. Shape'
  BY <1>1, IngestShape
<1>3. pairs' = [pairs EXCEPT ![c] = @ + 1] /\ clock' = [clock EXCEPT ![c] = @ + 1] /\ stamped' = stamped
      /\ clock[c] <= MaxTime
  BY DEF DeliverRow
<1>4. ClockInv'
  <2>1. Times \subseteq -1 .. MaxTime
    BY ConstantsAssumption DEF Times
  <2>2. lastTs' \in [Cameras -> [Identities -> -1 .. MaxTime]]
    BY <1>1, <2>1 DEF ClockInv
  <2>3. clock' \in [Cameras -> 0 .. MaxTime + 1] /\ pairs' \in [Cameras -> 0 .. MaxTime + 1]
    BY <1>3, ConstantsAssumption DEF ClockInv
  <2>4. \A d \in Cameras : pairs'[d] <= clock'[d] /\ \A i \in Identities : lastTs'[d][i] < clock'[d]
    <3>1. ASSUME NEW d \in Cameras, NEW i \in Identities PROVE lastTs'[d][i] < clock'[d]
      <4>1. clock[c] \in Int /\ ts[i] \in Int /\ ts[i] <= clock[c] /\ lastTs[d][i] < clock[d]
        BY <1>1, ConstantsAssumption DEF ClockInv, Times
      <4>2. CASE d = c
        BY <1>1, <1>3, <4>1, <4>2 DEF ClockInv
      <4>3. CASE d # c
        BY <1>1, <1>3, <4>1, <4>3 DEF ClockInv
      <4> QED  BY <4>2, <4>3
    <3>2. \A d \in Cameras : pairs'[d] <= clock'[d]
      BY <1>3, ConstantsAssumption DEF ClockInv
    <3> QED  BY <3>1, <3>2
  <2> QED  BY <1>3, <2>2, <2>3, <2>4 DEF ClockInv
<1>5. ASSUME NEW s \in Specs PROVE CompInv(s)'
  <2>1. CompInv(s) /\ CompType(s)
    BY DEF CompInv
  <2>2. CASE s \in SpecsOf(c)
    <3>1. SideOf(c) \in Sides /\ Own(c, ts, drop, s) \in Entry /\ Arrives(s, SideOf(c), Own(c, ts, drop, s))
      BY <1>1, <2>2, RowArrives
    <3>2. RowHits(s, SideOf(c), Own(c, ts, drop, s)) \/ RowMisses(s, SideOf(c), Own(c, ts, drop, s))
      BY <1>1, <2>1, <2>2, IngestEffect
    <3> QED  BY <2>1, <3>1, <3>2, HitKeeps, MissKeeps
  <2>3. CASE s \notin SpecsOf(c)
    <3>1. RowElsewhere(s)
      BY <1>1, <2>1, <2>3, IngestEffect
    <3>2. \A d \in Sides : CamOf(s, d) \in Cameras \ {c}
      BY <2>3, ConstantsAssumption DEF CamOf, Cameras, SpecsOf, SpecType
    <3>3. \A d \in Sides : pairs'[CamOf(s, d)] = pairs[CamOf(s, d)] /\ LastOf(s, d)' = LastOf(s, d)
      BY <1>1, <1>3, <3>2 DEF ClockInv, LastOf
    <3> QED  BY <1>1, <1>3, <2>1, <3>1, <3>3, ElsewhereKeeps
  <2> QED  BY <2>2, <2>3
<1> QED  BY <1>2, <1>4, <1>5

LEMMA LoseKeeps ==
  ASSUME MatchInv, (\E c \in Cameras : LoseFrames(c)) \/ UNCHANGED vars
  PROVE  MatchInv'
<1> USE DEF MatchInv
<1>1. UNCHANGED <<stamped, pairs, lastTs, waiting, hwOffset, matched, unmatched, crossRows, evicted>>
  BY DEF LoseFrames, vars
<1>2. ClockInv'
  <2>1. CASE UNCHANGED vars
    BY <2>1 DEF ClockInv, vars
  <2>2. ASSUME NEW c \in Cameras, LoseFrames(c) PROVE ClockInv'
    <3>1. clock[c] <= MaxTime /\ clock' = [clock EXCEPT ![c] = @ + 1]
      BY <2>2 DEF LoseFrames
    <3>2. clock' \in [Cameras -> 0 .. MaxTime + 1]
      BY <3>1, ConstantsAssumption DEF ClockInv
    <3>3. \A d \in Cameras : pairs[d] <= clock'[d] /\ \A i \in Identities : lastTs[d][i] < clock'[d]
      <4>1. ASSUME NEW d \in Cameras PROVE clock[d] <= clock'[d] /\ clock[d] \in Int /\ clock'[d] \in Int
        BY <3>1, ConstantsAssumption DEF ClockInv
      <4>2. ASSUME NEW d \in Cameras, NEW i \in Identities PROVE lastTs[d][i] < clock'[d]
        <5>1. lastTs[d][i] < clock[d] /\ lastTs[d][i] \in Int
          BY DEF ClockInv
        <5> QED  BY <4>1, <5>1
      <4>3. ASSUME NEW d \in Cameras PROVE pairs[d] <= clock'[d]
        BY <4>1, ConstantsAssumption DEF ClockInv
      <4> QED  BY <4>2, <4>3
    <3> QED  BY <1>1, <3>1, <3>2, <3>3 DEF ClockInv
  <2> QED  BY <2>1, <2>2
<1>3. Shape'
  BY <1>1 DEF Shape
<1>4. ASSUME NEW s \in Specs PROVE CompInv(s)'
  BY <1>1, ElsewhereKeeps DEF RowElsewhere, Rows, LastOf
<1> QED  BY <1>2, <1>3, <1>4

LEMMA InitMatchInv == Init => MatchInv
<1> SUFFICES ASSUME Init PROVE MatchInv
  OBVIOUS
<1>1. ClockInv
  <2>1. 0 \in 0 .. MaxTime + 1 /\ -1 \in -1 .. MaxTime
    BY ConstantsAssumption
  <2>2. stamped \in BOOLEAN
    BY DEF Init
  <2>3. clock \in [Cameras -> 0 .. MaxTime + 1] /\ pairs \in [Cameras -> 0 .. MaxTime + 1]
        /\ \A c \in Cameras : clock[c] = 0 /\ pairs[c] = 0
    BY <2>1 DEF Init
  <2>4. lastTs \in [Cameras -> [Identities -> -1 .. MaxTime]]
        /\ \A c \in Cameras, i \in Identities : lastTs[c][i] = -1
    BY <2>1 DEF Init
  <2> QED  BY <2>2, <2>3, <2>4 DEF ClockInv
<1>2. Shape
  BY DEF Init, Shape
<1>3. ASSUME NEW s \in Specs PROVE CompInv(s)
  <2>1. Rows(s) = {} /\ \A d \in Sides : waiting[s][d] = {}
    BY DEF Init, Rows
  <2>2. IsFiniteSet({}) /\ Cardinality({}) = 0
    BY FS_EmptySet
  <2>3. s.slave \in Cameras /\ Master \in Cameras /\ \A d \in Sides : CamOf(s, d) \in Cameras /\ pairs[CamOf(s, d)] = 0
    BY ConstantsAssumption DEF Init, Cameras, SpecType, CamOf
  <2>4. "master" \in Sides /\ "slave" \in Sides
    BY DEF Sides
  <2>5. CompType(s)
    BY <2>1, <2>2 DEF Init, CompType
  <2>6. BufferInv(s) /\ GapInv(s) /\ OnceInv(s) /\ OffsetInv(s)
    <3>1. hwOffset[s] = NoOffset
      BY DEF Init
    <3>2. BufferInv(s)
      <4>1. 0 <= BufferLen
        BY ConstantsAssumption
      <4>2. ASSUME NEW d \in Sides
            PROVE  /\ waiting[s][d] = {} /\ IsFiniteSet(waiting[s][d])
                   /\ Cardinality(waiting[s][d]) <= BufferLen
        <5>1. waiting[s][d] = {}
          BY <2>1
        <5> QED  BY <2>2, <4>1, <5>1
      <4> QED  BY <4>2 DEF BufferInv
    <3>3. GapInv(s) /\ OnceInv(s)
      BY <2>1, <2>4 DEF GapInv, OnceInv
    <3> QED  BY <2>1, <3>1, <3>2, <3>3 DEF OffsetInv
  <2>7. OrderInv(s)
    BY <2>1 DEF OrderInv
  <2>8. CountInv(s)
    BY <2>1, <2>2, <2>3, <2>4 DEF Init, CountInv
  <2> QED  BY <2>5, <2>6, <2>7, <2>8 DEF CompInv
<1> QED  BY <1>1, <1>2, <1>3 DEF MatchInv
-----------------------------------------------------------------------------
(* The images that the multi-camera page saves of the matches.              *)

\* A row's match is new to its comparison, and is counted.
LEMMA MatchesCounted ==
  ASSUME MatchInv, NEW c \in Cameras, DeliverRow(c), NEW s \in Specs
  PROVE  \/ matched'[s] = matched[s] + 1 /\ NewRows(s) # {}
         \/ matched'[s] = matched[s] /\ NewRows(s) = {}
<1>0. CompInv(s) /\ CompType(s) /\ ClockInv
  BY DEF MatchInv, CompInv
<1>1. PICK ts \in [Identities -> Times], drop \in [Identities -> BOOLEAN] :
        /\ IngestRow(c, ts, drop) /\ lastTs' = [lastTs EXCEPT ![c] = ts]
        /\ \A i \in Identities : lastTs[c][i] <= ts[i]
  BY <1>0, DeliverIs
<1> DEFINE e == Own(c, ts, drop, s)
           side == SideOf(c)
<1>2. NewRows(s) = Rows(s)' \ Rows(s)
  BY DEF NewRows, Rows
<1>3. CASE s \in SpecsOf(c) /\ RowHits(s, side, e)
  <2>1. side \in Sides /\ e \in Entry /\ Arrives(s, side, e)
    BY <1>1, <1>3, RowArrives
  <2> DEFINE r == BuildCrossRow(s, MasterOf(s, side, e), SlaveOf(s, side, e))
  <2> HIDE DEF e, side
  <2>2. Rows(s)' = Rows(s) \cup {r} /\ r.master = MasterOf(s, side, e)
    BY <1>0, <1>3, <2>1, HitRow
  <2>3. \A x \in Rows(s) : x.master.pair # MasterOf(s, side, e).pair
    BY <1>0, <1>3, <2>1, HitFresh DEF CompInv
  <2>4. r \notin Rows(s)
    BY <2>2, <2>3
  <2> QED  BY <1>2, <1>3, <2>2, <2>4 DEF RowHits
<1>4. CASE RowMisses(s, side, e) \/ RowElsewhere(s)
  <2> HIDE DEF e, side
  <2> QED  BY <1>2, <1>4 DEF RowMisses, RowElsewhere
<1> QED  BY <1>0, <1>1, <1>3, <1>4, IngestEffect

\* Every EveryN-th match, and no other, begins a new multiple.
LEMMA DivStep ==
  ASSUME NEW n \in Nat, NEW E \in Nat \ {0}
  PROVE  (n + 1) \div E = (n \div E) + IF (n + 1) % E = 0 THEN 1 ELSE 0
<1> DEFINE q == n \div E
           r == n % E
           q1 == (n + 1) \div E
           r1 == (n + 1) % E
<1>1. q \in Int /\ r \in 0 .. (E - 1) /\ n = E * q + r
  OBVIOUS
<1>2. q1 \in Int /\ r1 \in 0 .. (E - 1) /\ n + 1 = E * q1 + r1
  OBVIOUS
<1> HIDE DEF q, r, q1, r1
<1>3. E * (q1 - q) = r + 1 - r1
  BY <1>1, <1>2
<1>4. q1 - q >= 0 /\ q1 - q <= 1
  BY <1>1, <1>2, <1>3
<1>5. CASE q1 = q
  BY <1>1, <1>2, <1>3, <1>5 DEF q, q1, r, r1
<1>6. CASE q1 = q + 1
  BY <1>1, <1>2, <1>3, <1>6 DEF q, q1, r, r1
<1> QED BY <1>1, <1>2, <1>4, <1>5, <1>6

LEMMA SaveKeeps ==
  ASSUME ImagesInv, NEW c \in Cameras, DeliverAndSave(c), NEW s \in Specs
  PROVE  PicInv(s)'
<1>0. /\ periodic[s] \in 0 .. MaxImages /\ missed[s] \in Nat /\ matched[s] \in Nat
      /\ periodic[s] + missed[s] <= matched[s]
      /\ EveryN > 0 => periodic[s] = MaxImages \/ periodic[s] + missed[s] = matched[s] \div EveryN
      /\ MaxImages \in Nat /\ EveryN \in Nat
  BY ImagesAssumption DEF ImagesInv, PicInv, MatchInv, CompInv, CompType
<1>1. \/ matched'[s] = matched[s] + 1 /\ NewRows(s) # {}
      \/ matched'[s] = matched[s] /\ NewRows(s) = {}
  BY MatchesCounted DEF ImagesInv, DeliverAndSave
<1>2. /\ periodic'[s] = periodic[s] + IF Triggers(s) /\ FramesFound(s) THEN 1 ELSE 0
      /\ missed'[s] = missed[s] + IF Triggers(s) /\ ~FramesFound(s) THEN 1 ELSE 0
  BY DEF DeliverAndSave
<1>3. Triggers(s) <=> NewRows(s) # {} /\ EveryN > 0 /\ matched'[s] % EveryN = 0 /\ periodic[s] < MaxImages
  BY DEF Triggers, SeenCount
<1>4. CASE ~Triggers(s)
  <2>1. periodic'[s] = periodic[s] /\ missed'[s] = missed[s]
    BY <1>0, <1>2, <1>4
  <2>2. matched[s] <= matched'[s]
    BY <1>0, <1>1
  <2>3. EveryN > 0 => periodic[s] = MaxImages \/ periodic[s] + missed[s] = matched'[s] \div EveryN
    <3> SUFFICES ASSUME EveryN > 0, periodic[s] # MaxImages
                 PROVE  periodic[s] + missed[s] = matched'[s] \div EveryN
      OBVIOUS
    <3>1. CASE matched'[s] = matched[s]
      BY <1>0, <3>1
    <3>2. CASE matched'[s] = matched[s] + 1 /\ NewRows(s) # {}
      <4>1. (matched[s] + 1) % EveryN # 0
        BY <1>0, <1>3, <1>4, <3>2
      <4>2. (matched[s] + 1) \div EveryN = matched[s] \div EveryN
        <5>1. EveryN \in Nat \ {0} /\ matched[s] \in Nat /\ matched[s] \div EveryN \in Int
          BY <1>0
        <5>2. (matched[s] + 1) \div EveryN
                = (matched[s] \div EveryN) + IF (matched[s] + 1) % EveryN = 0 THEN 1 ELSE 0
          BY <5>1, DivStep
        <5> QED  BY <4>1, <5>1, <5>2
      <4>3. matched[s] \div EveryN = periodic[s] + missed[s]
        BY <1>0
      <4> QED  BY <1>0, <3>2, <4>2, <4>3
    <3> QED  BY <1>1, <3>1, <3>2
  <2> QED  BY <1>0, <1>1, <2>1, <2>2, <2>3 DEF PicInv
<1>5. CASE Triggers(s)
  <2>1. matched'[s] = matched[s] + 1 /\ EveryN > 0 /\ (matched[s] + 1) % EveryN = 0 /\ periodic[s] < MaxImages
    BY <1>1, <1>3, <1>5
  <2>2. periodic'[s] + missed'[s] = periodic[s] + missed[s] + 1
        /\ periodic'[s] \in 0 .. MaxImages /\ missed'[s] \in Nat
    BY <1>0, <1>2, <1>5, <2>1
  <2>3. (matched[s] + 1) \div EveryN = (matched[s] \div EveryN) + 1
    BY <1>0, <2>1, DivStep
  <2>4. periodic[s] + missed[s] = matched[s] \div EveryN
    BY <1>0, <2>1
  <2>5. periodic'[s] + missed'[s] = matched'[s] \div EveryN
    BY <2>1, <2>2, <2>3, <2>4
  <2>6. periodic'[s] + missed'[s] <= matched'[s]
    BY <1>0, <2>1, <2>2
  <2> QED  BY <2>2, <2>5, <2>6 DEF PicInv
<1> QED  BY <1>4, <1>5

LEMMA NextImagesInv == ImagesInv /\ [ImagesNext]_<<vars, imageVars>> => ImagesInv'
<1> SUFFICES ASSUME ImagesInv, [ImagesNext]_<<vars, imageVars>> PROVE ImagesInv'
  OBVIOUS
<1>0. MatchInv /\ recorded \in [Cameras -> 0 .. MaxTime + 1]
  BY DEF ImagesInv
<1>1. ASSUME NEW c \in Cameras, DeliverAndSave(c) PROVE ImagesInv'
  <2>1. MatchInv' /\ recorded' = recorded
    BY <1>0, <1>1, DeliverKeeps DEF DeliverAndSave
  <2>2. periodic' = [s \in Specs |-> periodic'[s]] /\ missed' = [s \in Specs |-> missed'[s]]
    BY <1>1 DEF DeliverAndSave
  <2>3. \A s \in Specs : PicInv(s)'
    BY <1>1, SaveKeeps
  <2> QED  BY <1>0, <2>1, <2>2, <2>3 DEF ImagesInv
<1>2. CASE (\E c \in Cameras : RecordRecentFrame(c) \/ LoseFramesOf(c)) \/ UNCHANGED <<vars, imageVars>>
  <2>1. (\E c \in Cameras : LoseFrames(c)) \/ UNCHANGED vars
    BY <1>2 DEF RecordRecentFrame, LoseFramesOf
  <2>2. UNCHANGED <<periodic, missed, matched>>
    BY <1>2 DEF RecordRecentFrame, LoseFramesOf, LoseFrames, vars, imageVars
  <2>3. recorded' \in [Cameras -> 0 .. MaxTime + 1]
    <3>1. ASSUME NEW c \in Cameras, RecordRecentFrame(c) PROVE recorded' \in [Cameras -> 0 .. MaxTime + 1]
      <4>1. recorded[c] - pairs[c] <= MaxTime - clock[c] /\ recorded' = [recorded EXCEPT ![c] = @ + 1]
        BY <3>1 DEF RecordRecentFrame
      <4>2. pairs[c] <= clock[c] /\ pairs[c] \in Nat /\ clock[c] \in Nat /\ recorded[c] \in Nat
        BY <1>0, ConstantsAssumption DEF MatchInv, ClockInv
      <4>3. recorded[c] + 1 \in 0 .. MaxTime + 1
        BY <4>1, <4>2, ConstantsAssumption
      <4> QED  BY <1>0, <4>1, <4>3
    <3>2. CASE UNCHANGED recorded
      BY <1>0, <3>2
    <3> QED  BY <1>2, <3>1, <3>2 DEF LoseFramesOf, imageVars
  <2>4. MatchInv'
    BY <1>0, <2>1, LoseKeeps
  <2>5. \A s \in Specs : PicInv(s)'
    BY <2>2 DEF ImagesInv, PicInv
  <2> QED  BY <2>2, <2>3, <2>4, <2>5 DEF ImagesInv
<1> QED  BY <1>1, <1>2 DEF ImagesNext

LEMMA InitImagesInv == ImagesInit => ImagesInv
<1> SUFFICES ASSUME ImagesInit PROVE ImagesInv
  OBVIOUS
<1>1. MatchInv
  BY InitMatchInv DEF ImagesInit
<1>2. 0 \in 0 .. MaxTime + 1 /\ 0 \in 0 .. MaxImages
  BY ConstantsAssumption, ImagesAssumption
<1>3. recorded \in [Cameras -> 0 .. MaxTime + 1]
  BY <1>2 DEF ImagesInit
<1>4. periodic = [s \in Specs |-> periodic[s]] /\ missed = [s \in Specs |-> missed[s]]
  BY DEF ImagesInit
<1>5. ASSUME NEW s \in Specs PROVE PicInv(s)
  <2>1. periodic[s] = 0 /\ missed[s] = 0 /\ matched[s] = 0
    BY DEF ImagesInit, Init
  <2>2. EveryN > 0 => 0 = 0 \div EveryN
    BY ImagesAssumption
  <2> QED  BY <1>2, <2>1, <2>2 DEF PicInv
<1> QED  BY <1>1, <1>3, <1>4, <1>5 DEF ImagesInv

THEOREM ImagesInvariant == ImagesSpec => []ImagesInv
BY InitImagesInv, NextImagesInv, PTL DEF ImagesSpec
-----------------------------------------------------------------------------
(* The properties.                                                          *)

(* The cross-rows of one comparison are as many as its cameras' rows: what  *)
(* CompInv says of counts bounds what MaxTime bounds.                       *)
LEMMA MatchTyped ==
  ASSUME MatchInv
  PROVE  TypeOK /\ \A s \in Specs : matched[s] \in 0 .. MaxTime + 1
<1>0. "master" \in Sides /\ "slave" \in Sides
  BY DEF Sides
<1>1. ASSUME NEW s \in Specs
      PROVE  /\ waiting[s] \in [Sides -> SUBSET Entry]
             /\ \A side \in Sides : Cardinality(waiting[s][side]) <= BufferLen
             /\ hwOffset[s] \in Int \cup {NoOffset}
             /\ matched[s] \in 0 .. MaxTime + 1 /\ unmatched[s] \in 0 .. 2 * (MaxTime + 1)
             /\ evicted[s] \in 0 .. 2 * (MaxTime + 1)
  <2>1. CompType(s) /\ BufferInv(s) /\ CountInv(s)
    BY DEF MatchInv, CompInv
  <2>2. Master \in Cameras /\ s.slave \in Cameras
    BY ConstantsAssumption DEF Cameras, SpecType
  <2>3. pairs[Master] \in 0 .. MaxTime + 1 /\ pairs[s.slave] \in 0 .. MaxTime + 1
    BY <2>2 DEF MatchInv, ClockInv
  <2>4. /\ Cardinality(waiting[s]["master"]) \in Nat /\ Cardinality(waiting[s]["slave"]) \in Nat
        /\ matched[s] \in Nat /\ unmatched[s] \in Nat /\ evicted[s] \in Nat
    BY <1>0, <2>1, FS_CardinalityType DEF BufferInv, CompType
  <2>5. matched[s] + Cardinality(waiting[s]["master"]) <= pairs[Master]
        /\ unmatched[s] + matched[s] = pairs[Master] + pairs[s.slave]
    BY <1>0, <2>1 DEF CountInv, CamOf
  <2>6. matched[s] \in 0 .. MaxTime + 1 /\ unmatched[s] \in 0 .. 2 * (MaxTime + 1)
    BY <2>3, <2>4, <2>5, ConstantsAssumption
  <2>7. evicted[s] <= unmatched[s]
    <3>1. stamped => unmatched[s] = matched[s] + (Cardinality(waiting[s]["master"])
                                      + Cardinality(waiting[s]["slave"])) + evicted[s]
      BY <2>1 DEF CountInv
    <3>2. ~stamped => evicted[s] = 0
      BY <2>1 DEF CountInv
    <3> QED  BY <2>4, <3>1, <3>2
  <2>8. evicted[s] \in 0 .. 2 * (MaxTime + 1)
    BY <2>4, <2>6, <2>7, ConstantsAssumption
  <2> QED  BY <2>1, <2>6, <2>8 DEF CompType, BufferInv
<1>2. waiting = [s \in Specs |-> waiting[s]] /\ hwOffset = [s \in Specs |-> hwOffset[s]]
      /\ evicted = [s \in Specs |-> evicted[s]]
      /\ matched = [s \in Specs |-> matched[s]] /\ unmatched = [s \in Specs |-> unmatched[s]]
  BY DEF MatchInv, Shape
<1>3. waiting \in [Specs -> [Sides -> SUBSET Entry]] /\ hwOffset \in [Specs -> Int \cup {NoOffset}]
  BY <1>1, <1>2
<1>4. /\ matched \in [Specs -> 0 .. MaxTime + 1] /\ unmatched \in [Specs -> 0 .. 2 * (MaxTime + 1)]
      /\ evicted \in [Specs -> 0 .. 2 * (MaxTime + 1)]
  BY <1>1, <1>2
<1>5. crossRows \subseteq CrossRow
  <2> SUFFICES ASSUME NEW x \in crossRows PROVE x \in CrossRow
    OBVIOUS
  <2>1. x.spec \in Specs /\ x \in Rows(x.spec)
    BY DEF MatchInv, Shape, Rows
  <2> QED  BY <2>1 DEF MatchInv, CompInv, CompType
<1> QED  BY <1>1, <1>3, <1>4, <1>5 DEF TypeOK, MatchInv, ClockInv

(* The page's and the reconciler's state have their types.                  *)
THEOREM TypeCorrect == ImagesSpec => []ImagesTypeOK
<1>1. ImagesInv => ImagesTypeOK
  <2> SUFFICES ASSUME ImagesInv PROVE ImagesTypeOK
    OBVIOUS
  <2>1. TypeOK /\ \A s \in Specs : matched[s] \in 0 .. MaxTime + 1
    BY MatchTyped DEF ImagesInv
  <2>2. ASSUME NEW s \in Specs PROVE periodic[s] \in 0 .. MaxImages /\ missed[s] \in 0 .. MaxTime + 1
    <3>1. /\ periodic[s] \in 0 .. MaxImages /\ missed[s] \in Nat
          /\ periodic[s] + missed[s] <= matched[s]
      BY DEF ImagesInv, PicInv
    <3> QED  BY <2>1, <3>1, ConstantsAssumption, ImagesAssumption
  <2>3. periodic = [s \in Specs |-> periodic[s]] /\ missed = [s \in Specs |-> missed[s]]
    BY DEF ImagesInv
  <2>4. periodic \in [Specs -> 0 .. MaxImages] /\ missed \in [Specs -> 0 .. MaxTime + 1]
    BY <2>2, <2>3
  <2> QED  BY <2>1, <2>4 DEF ImagesTypeOK, ImagesInv
<1> QED  BY <1>1, ImagesInvariant, PTL

(* The greedy join of ingest_row leaves no two matchable rows waiting, for  *)
(* any buffer length, gap and interleaving of the cameras.                  *)
THEOREM JoinIsMaximal == ImagesSpec => []NothingMatchableWaits
<1>1. ImagesInv => NothingMatchableWaits
  BY DEF ImagesInv, MatchInv, CompInv, GapInv, NothingMatchableWaits
<1> QED  BY <1>1, ImagesInvariant, PTL

(* No frame is in two cross-rows of a comparison, or waits after its match. *)
THEOREM FramesMatchOnce == ImagesSpec => []FramesUsedOnce
<1>1. ImagesInv => FramesUsedOnce
  <2> SUFFICES ASSUME ImagesInv PROVE FramesUsedOnce
    OBVIOUS
  <2>1. \A x \in crossRows : x.spec \in Specs /\ OnceInv(x.spec)
    BY DEF ImagesInv, MatchInv, Shape, CompInv
  <2>2. \A x \in crossRows : x \in Rows(x.spec)
    BY DEF Rows
  <2>3. \A x, y \in crossRows : x.spec = y.spec /\ x # y =>
          x.master.pair # y.master.pair /\ x.slave.pair # y.slave.pair
    BY <2>1, <2>2 DEF OnceInv
  <2>4. ASSUME NEW x \in crossRows
        PROVE  /\ \A e \in waiting[x.spec]["master"] : e.pair # x.master.pair
               /\ \A e \in waiting[x.spec]["slave"] : e.pair # x.slave.pair
    BY <2>1, <2>2 DEF OnceInv
  <2> QED  BY <2>3, <2>4 DEF FramesUsedOnce
<1> QED  BY <1>1, ImagesInvariant, PTL

(* Matches do not cross, whatever is lost, repeated or evicted, for any     *)
(* buffer length and any interleaving of the cameras, when the gap allowed  *)
(* is of at most one frame period.                                          *)
THEOREM MatchedInOrder == ImagesSpec => []MatchesInOrder
<1>1. ImagesInv => MatchesInOrder
  <2> SUFFICES ASSUME ImagesInv, MaxGap <= 1, NEW x \in crossRows, NEW y \in crossRows,
                      x.spec = y.spec, x.master.ts < y.master.ts
               PROVE  x.slave.ts <= y.slave.ts
    BY DEF MatchesInOrder
  <2>1. x.spec \in Specs /\ x \in Rows(x.spec) /\ y \in Rows(x.spec) /\ OrderInv(x.spec)
    BY DEF ImagesInv, MatchInv, Shape, CompInv, Rows
  <2> QED  BY <2>1 DEF OrderInv
<1> QED  BY <1>1, ImagesInvariant, PTL

(* HW TS Latency is relative to a match that reads zero, for any epochs of  *)
(* the cameras' hardware clocks.                                            *)
THEOREM RelativeLatency == ImagesSpec => []LatencyIsRelative
<1>1. ImagesInv => LatencyIsRelative
  <2> SUFFICES ASSUME ImagesInv PROVE LatencyIsRelative
    OBVIOUS
  <2>1. \A x \in crossRows : x.spec \in Specs /\ x \in Rows(x.spec) /\ CompType(x.spec) /\ OffsetInv(x.spec)
    BY DEF ImagesInv, MatchInv, Shape, CompInv, Rows
  <2>2. ASSUME NEW x \in crossRows PROVE \E first \in crossRows : first.spec = x.spec /\ first.hwGap = 0
    <3>1. PICK first \in Rows(x.spec) : first.hwGap = 0
      BY <2>1 DEF OffsetInv
    <3> QED  BY <3>1 DEF Rows
  <2>3. ASSUME NEW x \in crossRows, NEW y \in crossRows, x.spec = y.spec
        PROVE  x.hwGap - y.hwGap = (x.master.ts - x.slave.ts) - (y.master.ts - y.slave.ts)
    <3> DEFINE s == x.spec
    <3>1. s \in Specs /\ x \in Rows(s) /\ y \in Rows(s) /\ CompType(s) /\ OffsetInv(s)
      BY <2>1, <2>3
    <3> HIDE DEF s
    <3>2. /\ x.master.ts \in Int /\ x.slave.ts \in Int /\ y.master.ts \in Int /\ y.slave.ts \in Int
      BY <3>1, ConstantsAssumption DEF CompType, CrossRow, Entry, Times
    <3>3. hwOffset[s] \in Int
      BY <3>1 DEF CompType, OffsetInv
    <3>4. EpochGap(s) \in Int
      BY <3>1, ConstantsAssumption DEF EpochGap, Cameras, SpecType
    <3>5. /\ x.hwGap = x.master.ts - x.slave.ts + EpochGap(s) + hwOffset[s]
          /\ y.hwGap = y.master.ts - y.slave.ts + EpochGap(s) + hwOffset[s]
      BY <3>1 DEF OffsetInv
    <3> QED  BY <3>2, <3>3, <3>4, <3>5
  <2> QED  BY <2>2, <2>3 DEF LatencyIsRelative
<1> QED  BY <1>1, ImagesInvariant, PTL

(* match_diagnostics accounts for every row that was ingested: matched,     *)
(* waiting or dropped from a full buffer, for any buffer length and loss.   *)
THEOREM DiagnosticsAddUp == ImagesSpec => []DiagnosticsAccount
<1>1. ImagesInv => DiagnosticsAccount
  <2> SUFFICES ASSUME ImagesInv, NEW s \in Specs
               PROVE  LET left == Cardinality(waiting[s]["master"]) + Cardinality(waiting[s]["slave"])
                      IN /\ matched[s] = Cardinality({x \in crossRows : x.spec = s})
                         /\ matched[s] + unmatched[s] = pairs[Master] + pairs[s.slave]
                         /\ stamped => unmatched[s] = matched[s] + left + evicted[s]
    BY DEF DiagnosticsAccount
  <2>1. CountInv(s) /\ matched[s] \in Nat /\ unmatched[s] \in Nat
    BY DEF ImagesInv, MatchInv, CompInv, CompType
  <2>2. matched[s] + unmatched[s] = pairs[Master] + pairs[s.slave]
    BY <2>1 DEF CountInv
  <2> QED  BY <2>1, <2>2 DEF CountInv, Rows
<1> QED  BY <1>1, ImagesInvariant, PTL

(* Every comparison gets its own share of periodic images, for any interval *)
(* and cap, whatever the rings have dropped.                                *)
THEOREM ImagesAreShared == ImagesSpec => []PeriodicImagesShared
<1>1. ImagesInv => PeriodicImagesShared
  BY DEF ImagesInv, PicInv, PeriodicImagesShared
<1> QED  BY <1>1, ImagesInvariant, PTL
=============================================================================
