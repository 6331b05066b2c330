------------------------------- MODULE LedGap -------------------------------
(***************************************************************************)
(* The arithmetic of the position gap (engine/metrics.py): the LED a stream *)
(* saw last of a scan that runs around a circle of LEDs, and the distance   *)
(* of two streams on that circle.  A frame sees the LEDs that were lit      *)
(* during its exposure: a set of LED numbers, 0 .. n - 1.                   *)
(***************************************************************************)
EXTENDS Integers, FiniteSets

(* runs: the maximal intervals of LEDs that are on, as [first, last, len].  *)
Runs(on, n) ==
  {[first |-> r[1], last |-> r[2], len |-> r[2] - r[1] + 1] :
     r \in {p \in (0 .. n - 1) \X (0 .. n - 1) :
              /\ p[1] <= p[2] /\ p[1] .. p[2] \subseteq on
              /\ p[1] - 1 \notin on /\ p[2] + 1 \notin on}}

(* candidates: when the first and the last run touch across LED 0 they are  *)
(* one, which ends where the first run does.                                *)
Candidates(on, n) ==
  LET runs  == Runs(on, n)
      heads == {r \in runs : r.first = 0}
      tails == {r \in runs : r.last = n - 1}
  IN IF heads # {} /\ tails # {} /\ heads # tails
     THEN (runs \ (heads \cup tails)) \cup
          {[first |-> t.first, last |-> h.last, len |-> h.len + t.len] : h \in heads, t \in tails}
     ELSE runs

\* find_last_on_led's order: the longest, of equally long ones the first.
Best(C) == CHOOSE r \in C : \A q \in C : r.len > q.len \/ (r.len = q.len /\ r.first <= q.first)

NoLed == -1

\* find_last_on_led; NoLed stands for None.
FindLastOnLed(on, n) == IF on = {} THEN NoLed ELSE Best(Candidates(on, n)).last

\* Mutation: half a circle ahead and half a circle behind are not told apart.
GapHalfOpenBelow(a, b, n) ==
  CASE 2 * (a - b) >= n -> a - b - n
    [] 2 * (a - b) < -n -> a - b + n
    [] OTHER -> a - b

\* compute_position_gap, in LEDs; half = n / 2.0 is a true division.
ComputePositionGap(a, b, n) ==
  CASE 2 * (a - b) > n   -> a - b - n
    [] 2 * (a - b) <= -n -> a - b + n
    [] OTHER -> a - b

-----------------------------------------------------------------------------
(* The reference: what the two functions are for, said of the circle.       *)

\* The LEDs lit without a break up to and with LED e, going round.
RoundRun(on, n, e) ==
  {k \in 1 .. n : \A i \in 0 .. k - 1 : (e - i + n) % n \in on}

\* e ends a run on the circle, unless every LED is on.
EndsRun(on, n, e) == e \in on /\ (on = 0 .. n - 1 \/ (e + 1) % n \notin on)

(* find_last_on_led returns the end of a longest run on the circle, and     *)
(* compute_position_gap the one representative of a - b modulo n above      *)
(* -n/2 and at most n/2, so that which stream is ahead is never in doubt.   *)
LedGapRight(n) ==
  /\ \A on \in (SUBSET (0 .. n - 1)) \ {{}} :
       LET e == FindLastOnLed(on, n)
       IN /\ EndsRun(on, n, e)
          /\ \A f \in 0 .. n - 1 : Cardinality(RoundRun(on, n, f)) <= Cardinality(RoundRun(on, n, e))
  /\ \A a, b \in 0 .. n - 1 :
       LET g == ComputePositionGap(a, b, n)
       IN -n < 2 * g /\ 2 * g <= n /\ (g - (a - b)) % n = 0
=============================================================================
