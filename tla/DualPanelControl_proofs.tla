----------------------- MODULE DualPanelControl_proofs -----------------------
(***************************************************************************)
(* What holds of DualPanelControl for every set of settings: its types, and *)
(* three of its safety properties, from the inductive invariant PanelInv.   *)
(***************************************************************************)
EXTENDS DualPanelControl, SequenceTheorems, TLAPS

-----------------------------------------------------------------------------
(* Types.                                                                   *)

ScanSteps == Steps \ {"command"}

(* Every sequence of steps a call is given is one of known steps, and a     *)
(* start has no single-panel command among its own.                         *)
LEMMA StepsTyped ==
  /\ StopSteps \in Seq(Steps)
  /\ <<"command">> \in Seq(Steps) /\ <<>> \in Seq(Steps)
  /\ \A s \in Settings : StartSteps(s) \in Seq(ScanSteps) /\ StartSteps(s) \in Seq(Steps)
<1>1. ArmOnce \in Seq(ScanSteps)
  BY DEF ArmOnce, OnBothPanels, Steps, ScanSteps
<1>2. StopSteps \in Seq(ScanSteps)
  BY DEF StopSteps, OnBothPanels, Steps, ScanSteps
<1>3. <<"prime">> \in Seq(ScanSteps) /\ <<"record">> \in Seq(ScanSteps)
  BY DEF Steps, ScanSteps
<1>4. <<"relayOff", "relayOn">> \in Seq(ScanSteps) /\ <<"command">> \in Seq(Steps)
  BY DEF Steps, ScanSteps
<1>5. DoubleArm \in Seq(ScanSteps)
  BY <1>1, <1>2, <1>3 DEF DoubleArm
<1>6. \A s \in Settings : StartSteps(s) \in Seq(ScanSteps)
  BY <1>1, <1>3, <1>4, <1>5 DEF StartSteps
<1>7. \A q \in Seq(ScanSteps) : q \in Seq(Steps)
  BY DEF ScanSteps
<1> QED
  BY <1>2, <1>4, <1>6, <1>7

(* Opening the gate, switching the hub and a bare command keep the rig's    *)
(* variables in their types.                                                *)
LEMMA GateOpensTyped ==
  ASSUME TypeOK, GateOpens \/ GateStays
  PROVE  relay' \in {"open", "closed"}
         /\ panel' \in [Panels -> [cfg : Settings \cup {NoSetting}, trusts : BOOLEAN]]
<1>1. CASE GateOpens
  BY <1>1 DEF GateOpens, PanelsSeeOpening, TypeOK
<1>2. CASE GateStays
  BY <1>2 DEF GateStays, TypeOK
<1> QED  BY <1>1, <1>2

LEMMA HubShowsTyped ==
  ASSUME TypeOK, NEW P \in SUBSET Ports, HubShows(P)
  PROVE  /\ ports' \in SUBSET Ports
         /\ conn' \in {"none", "good", "stale"}
         /\ relay' \in {"open", "closed"}
         /\ panel' \in [Panels -> [cfg : Settings \cup {NoSetting}, trusts : BOOLEAN]]
<1>1. GateOpens \/ GateStays  BY DEF HubShows
<1> QED  BY <1>1, GateOpensTyped DEF HubShows, TypeOK

LEMMA BareCommandTyped ==
  ASSUME TypeOK, BareCommand
  PROVE  /\ relay' \in {"open", "closed"}
         /\ panel' \in [Panels -> [cfg : Settings \cup {NoSetting}, trusts : BOOLEAN]]
BY DEF TypeOK, BareCommand, Shown

LEMMA HubFailsTyped ==
  ASSUME TypeOK, NEW on \in SUBSET Ports, NEW off, HubFails(on, off)
  PROVE  /\ ports' \in SUBSET Ports
         /\ conn' \in {"none", "good", "stale"}
         /\ relay' \in {"open", "closed"}
         /\ panel' \in [Panels -> [cfg : Settings \cup {NoSetting}, trusts : BOOLEAN]]
<1>1. PICK P \in SUBSET Ports : HubShows(P)  BY DEF HubFails, TypeOK
<1> QED  BY <1>1, HubShowsTyped

LEMMA PanelConfiguredTyped ==
  ASSUME TypeOK, PanelConfigured
  PROVE  panel' \in [Panels -> [cfg : Settings \cup {NoSetting}, trusts : BOOLEAN]]
BY DEF TypeOK, PanelConfigured, Shown

\* A step that raises leaves the rig and the connection in their types.
LEMMA HalfDoneTyped ==
  ASSUME TypeOK, NEW name, HalfDone(name)
  PROVE  /\ ports' \in SUBSET Ports
         /\ conn' \in {"none", "good", "stale"} /\ orphaned' \in BOOLEAN
         /\ relay' \in {"open", "closed"}
         /\ panel' \in [Panels -> [cfg : Settings \cup {NoSetting}, trusts : BOOLEAN]]
<1>1. CASE /\ HubFails({"a"}, {"b", "relay"}) \/ HubFails({"b", "relay"}, {"a"})
           /\ UNCHANGED orphaned
  <2>1. {"a"} \in SUBSET Ports /\ {"b", "relay"} \in SUBSET Ports  BY DEF Ports, Panels
  <2> QED  BY <1>1, <2>1, HubFailsTyped DEF TypeOK
<1>2. CASE (PanelConfigured \/ UNCHANGED panel) /\ UNCHANGED <<ports, relay, conn, orphaned>>
  BY <1>2, PanelConfiguredTyped DEF TypeOK
<1>3. CASE HalfReleased /\ UNCHANGED ports
  BY <1>3, GateOpensTyped DEF TypeOK, HalfReleased
<1>4. CASE HalfClosed /\ UNCHANGED ports
  <2>1. CASE (GateStays \/ GateOpens) /\ UNCHANGED <<conn, orphaned>>
    BY <1>4, <2>1, GateOpensTyped DEF TypeOK
  <2>2. CASE PanelsSeeOpening /\ relay' = "closed" /\ conn' \in {conn, "good"}
             /\ orphaned' \in BOOLEAN
    BY <1>4, <2>2 DEF TypeOK, PanelsSeeOpening
  <2> QED  BY <1>4, <2>1, <2>2 DEF HalfClosed
<1>5. CASE (BareCommand \/ GateStays) /\ UNCHANGED <<ports, conn, orphaned>>
  BY <1>5, BareCommandTyped, GateOpensTyped DEF TypeOK
<1>6. CASE UNCHANGED <<rig, conn, orphaned>>
  BY <1>6 DEF TypeOK, rig
<1> QED  BY <1>1, <1>2, <1>3, <1>4, <1>5, <1>6 DEF HalfDone

LEMMA InitTypeOK == Init => TypeOK
<1> SUFFICES ASSUME Init PROVE TypeOK
  OBVIOUS
<1>1. ports \in SUBSET Ports /\ target \in Panels \cup {NoTarget}
  BY DEF Init, Ports, Panels
<1>2. panel \in [Panels -> [cfg : Settings \cup {NoSetting}, trusts : BOOLEAN]]
  BY DEF Init
<1>3. todo \in Seq(Steps)
  BY StepsTyped DEF Init
<1> QED  BY <1>1, <1>2, <1>3 DEF Init, TypeOK

(* Each operation keeps every variable in its type.                         *)
LEMMA NextTypeOK == TypeOK /\ [Next]_vars => TypeOK'
<1> SUFFICES ASSUME TypeOK, [Next]_vars PROVE TypeOK'
  OBVIOUS
<1> USE DEF call, test, rig, result, doubts
<1>1. ASSUME NEW s \in Settings, StartScanning(s) PROVE TypeOK'
  BY <1>1, StepsTyped DEF TypeOK, StartScanning, Begin
<1>2. CASE StopScanning
  BY <1>2, StepsTyped DEF TypeOK, StopScanning, Begin
<1>3. CASE ShowA
  <2>1. HubShows({"a"}) /\ {"a"} \in SUBSET Ports  BY <1>3 DEF ShowA, Ports, Panels
  <2> QED  BY <1>3, <2>1, HubShowsTyped DEF TypeOK, ShowA, Step
<1>4. CASE ShowB
  <2>1. HubShows({"b", "relay"}) /\ {"b", "relay"} \in SUBSET Ports
    BY <1>4 DEF ShowB, Ports, Panels
  <2> QED  BY <1>4, <2>1, HubShowsTyped DEF TypeOK, ShowB, Step
<1>5. CASE Configure
  BY <1>5, PanelConfiguredTyped DEF TypeOK, Configure, Step
<1>6. CASE Reset
  BY <1>6 DEF TypeOK, Reset, Step
<1>7. CASE RelayOff
  BY <1>7, GateOpensTyped DEF TypeOK, RelayOff, Step
<1>8. CASE RelayOn
  <2>1. panel' \in [Panels -> [cfg : Settings \cup {NoSetting}, trusts : BOOLEAN]]
    BY <1>8 DEF TypeOK, RelayOn, PanelsSeeOpening
  <2>2. todo' \in Seq(Steps)
    BY <1>8 DEF TypeOK, RelayOn, Step
  <2>3. orphaned' \in BOOLEAN /\ relay' = "closed" /\ conn' = "good"
    BY <1>8 DEF RelayOn
  <2>4. UNCHANGED <<op, asked, test, exposed, result, ports, primed, known, halfArmed, commanded, missed>>
    BY <1>8 DEF RelayOn, Step
  <2> QED  BY <2>1, <2>2, <2>3, <2>4 DEF TypeOK
<1>9. CASE Prime
  <2>1. todo' \in Seq(Steps)
    BY <1>9 DEF TypeOK, Prime, Step
  <2>2. primed' \in BOOLEAN /\ halfArmed' \in BOOLEAN /\ commanded' \in BOOLEAN
    BY <1>9 DEF Prime
  <2>3. UNCHANGED <<op, asked, test, exposed, result, rig, known, conn, missed, orphaned>>
    BY <1>9 DEF Prime, Step
  <2> QED  BY <2>1, <2>2, <2>3 DEF TypeOK
<1>21. CASE Record
  BY <1>21 DEF TypeOK, Record, Step
<1>10. CASE StepRaises
  BY <1>10, HalfDoneTyped DEF TypeOK, StepRaises
<1>11. CASE Return
  BY <1>11 DEF TypeOK, Return
<1>12. ASSUME NEW p \in Panels, EnterBlock(p) PROVE TypeOK'
  <2>1. HubShows({p}) /\ {p} \in SUBSET Ports  BY <1>12 DEF EnterBlock, Ports
  <2> QED  BY <1>12, <2>1, HubShowsTyped, StepsTyped DEF TypeOK, EnterBlock, Begin
<1>13. ASSUME NEW p \in Panels, EnterRaises(p) PROVE TypeOK'
  <2>1. {p} \in SUBSET Ports  BY DEF Ports
  <2>2. /\ ports' \in SUBSET Ports /\ conn' \in {"none", "good", "stale"}
        /\ relay' \in {"open", "closed"}
        /\ panel' \in [Panels -> [cfg : Settings \cup {NoSetting}, trusts : BOOLEAN]]
    <3>1. CASE UNCHANGED <<conn, rig>>
      BY <3>1 DEF TypeOK
    <3>2. CASE HubFails({p}, Ports \ {p})
      BY <2>1, <3>2, HubFailsTyped
    <3> QED  BY <1>13, <3>1, <3>2 DEF EnterRaises
  <2>3. primed' \in BOOLEAN /\ exposed' \in BOOLEAN /\ stopped' \in BOOLEAN
        /\ started' = NoSetting
    BY <1>13 DEF TypeOK, EnterRaises
  <2>4. UNCHANGED <<call, test, known, doubts>>
    BY <1>13 DEF EnterRaises
  <2> QED  BY <2>2, <2>3, <2>4 DEF TypeOK
<1>14. CASE BlockCommand
  BY <1>14, BareCommandTyped DEF TypeOK, BlockCommand
<1>15. CASE ExitBlock
  <2>1. op' = "idle" /\ primed' \in BOOLEAN /\ known' \in Settings \cup {NoSetting}
    BY <1>15 DEF ExitBlock, Deprime
  <2>2. UNCHANGED <<asked, todo, test, conn, exposed, rig, result, doubts>>
    BY <1>15 DEF ExitBlock
  <2> QED  BY <2>1, <2>2 DEF TypeOK
<1>16. ASSUME NEW d \in BOOLEAN, NEW t \in Panels \cup {NoTarget}, SetTarget(d, t)
       PROVE TypeOK'
  <2>1. exposed' \in BOOLEAN /\ dual' \in BOOLEAN /\ target' \in Panels \cup {NoTarget}
    BY <1>16 DEF SetTarget
  <2>2. UNCHANGED <<call, primed, known, conn, rig, result, doubts>>
    BY <1>16 DEF SetTarget
  <2> QED  BY <2>1, <2>2 DEF TypeOK
<1>17. CASE SingleCommand
  <2>1. target # NoTarget => {target} \in SUBSET Ports  BY DEF TypeOK, Ports
  <2> QED  BY <1>17, <2>1, StepsTyped, HubShowsTyped, HubFailsTyped
           DEF TypeOK, SingleCommand, Begin, Deprime
<1>18. CASE Command
  BY <1>18, BareCommandTyped DEF TypeOK, Command, Step
<1>19. CASE Restart
  <2>1. orphaned' \in BOOLEAN  BY <1>19 DEF Restart
  <2> QED  BY <1>19, <2>1, StepsTyped, GateOpensTyped DEF TypeOK, Restart
<1>20. CASE UNCHANGED vars
  BY <1>20 DEF TypeOK, vars
<1> QED
  BY <1>1, <1>2, <1>3, <1>4, <1>5, <1>6, <1>7, <1>8, <1>9, <1>10, <1>11, <1>12, <1>13, <1>14,
     <1>15, <1>16, <1>17, <1>18, <1>19, <1>20, <1>21 DEF Next

(* Every reachable state is typed.                                          *)
THEOREM TypeCorrect == Spec => []TypeOK
BY InitTypeOK, NextTypeOK, PTL DEF Spec

-----------------------------------------------------------------------------
(* The inductive invariant.  What is left of a stop says whether it has     *)
(* released the relay; no connection means an open gate, but for a process  *)
(* that died; and only single-panel commands run while exposed is set.      *)

StopRests == {<<"showA", "reset", "showB", "reset">>, <<"reset", "showB", "reset">>,
              <<"showB", "reset">>, <<"reset">>, <<>>}

CallInv ==
  /\ op \in {"idle", "block"} => todo = <<>>
  /\ op = "start" => todo \in Seq(ScanSteps)
  /\ op = "single" => todo \in {<<>>, <<"command">>}
  /\ op = "stop" => todo = StopSteps \/ (todo \in StopRests /\ conn = "none")

GateInv ==
  /\ conn = "none" => relay = "open" \/ orphaned
  /\ stopped => op = "idle" /\ (relay = "open" \/ orphaned)

ExposedInv ==
  exposed =>
    /\ op \in {"idle", "single"} /\ target # NoTarget
    /\ ~missed => Shown = {target} /\ ~primed

PanelInv == TypeOK /\ CallInv /\ GateInv /\ ExposedInv

LEMMA InvImplies ==
  PanelInv => StoppedMeansFrozen /\ SingleCommandsReachTarget /\ SwitchedMeansNotPrimed
BY DEF PanelInv, GateInv, ExposedInv, StoppedMeansFrozen, SingleCommandsReachTarget,
       SwitchedMeansNotPrimed

LEMMA InitPanelInv == Init => PanelInv
BY InitTypeOK DEF Init, PanelInv, CallInv, GateInv, ExposedInv

\* The first step of a stop, and what is left after each of the others.
LEMMA StopStepsAre == StopSteps = <<"relayOff", "showA", "reset", "showB", "reset">>
<1> DEFINE first == <<"relayOff">>
           rest  == <<"showA", "reset", "showB", "reset">>
           whole == <<"relayOff", "showA", "reset", "showB", "reset">>
<1>1. first \in Seq(Steps) /\ rest \in Seq(Steps) /\ whole \in Seq(Steps)
  BY DEF Steps
<1>2. /\ first \o rest \in Seq(Steps) /\ Len(first \o rest) = 5
      /\ \A i \in 1 .. 5 : (first \o rest)[i] = IF i <= 1 THEN first[i] ELSE rest[i - 1]
  <2>1. Len(first) = 1 /\ Len(rest) = 4  OBVIOUS
  <2>2. /\ first \o rest \in Seq(Steps) /\ Len(first \o rest) = Len(first) + Len(rest)
        /\ \A i \in 1 .. Len(first) + Len(rest) :
              (first \o rest)[i] = IF i <= Len(first) THEN first[i] ELSE rest[i - Len(first)]
    <3> HIDE DEF first, rest
    <3> QED  BY <1>1, ConcatProperties
  <2> QED  BY <2>1, <2>2
<1>3. Len(whole) = 5 /\ \A i \in 1 .. 5 : (first \o rest)[i] = whole[i]
  <2>1. Len(whole) = 5  OBVIOUS
  <2>2. ASSUME NEW i \in 1 .. 5 PROVE (IF i <= 1 THEN first[i] ELSE rest[i - 1]) = whole[i]
    <3>1. i = 1 \/ i = 2 \/ i = 3 \/ i = 4 \/ i = 5  OBVIOUS
    <3> QED  BY <3>1
  <2> QED  BY <1>2, <2>1, <2>2
<1>4. first \o rest = whole
  <2> HIDE DEF first, rest, whole
  <2> QED  BY <1>1, <1>2, <1>3, SeqEqual
<1> QED  BY <1>4 DEF StopSteps, OnBothPanels

LEMMA StopStepsProceed ==
  ASSUME CallInv, op = "stop", NEW name, Step(name)
  PROVE  /\ todo = StopSteps => name = "relayOff"
         /\ todo' \in StopRests
         /\ todo # StopSteps => conn = "none" /\ name \in {"showA", "showB", "reset"}
<1>1. CASE todo = StopSteps
  BY <1>1, StopStepsAre DEF Step, StopRests
<1>2. CASE todo # StopSteps
  <2>1. todo \in StopRests /\ conn = "none"  BY <1>2 DEF CallInv
  <2>2. CASE todo = <<"showA", "reset", "showB", "reset">>  BY <1>2, <2>1, <2>2 DEF Step, StopRests
  <2>3. CASE todo = <<"reset", "showB", "reset">>  BY <1>2, <2>1, <2>3 DEF Step, StopRests
  <2>4. CASE todo = <<"showB", "reset">>  BY <1>2, <2>1, <2>4 DEF Step, StopRests
  <2>5. CASE todo = <<"reset">>  BY <1>2, <2>1, <2>5 DEF Step, StopRests
  <2> QED  BY <1>2, <2>1, <2>2, <2>3, <2>4, <2>5 DEF Step, StopRests
<1> QED  BY <1>1, <1>2

\* Neither the hub nor a gate that drops closes the relay or makes a connection.
LEMMA HubKeepsGate ==
  ASSUME NEW P, HubShows(P)
  PROVE  /\ conn = "none" <=> conn' = "none"
         /\ relay' = "open" \/ relay' = relay
BY DEF HubShows, GateStays, GateOpens

(* A step that raises leaves no gate closed without a connection, unless it  *)
(* says so.                                                                 *)
LEMMA HalfDoneKeepsGate ==
  ASSUME NEW name, HalfDone(name), conn = "none" => relay = "open" \/ orphaned
  PROVE  conn' = "none" => relay' = "open" \/ orphaned'
<1>1. ASSUME NEW on, NEW off, HubFails(on, off)
      PROVE  (conn = "none" <=> conn' = "none") /\ (relay' = "open" \/ relay' = relay)
  <2>1. PICK P : HubShows(P)  BY <1>1 DEF HubFails
  <2> QED  BY <2>1, HubKeepsGate
<1>2. HalfReleased => conn' # "none"
  BY DEF HalfReleased
<1>3. HalfClosed => \/ UNCHANGED <<conn, orphaned>> /\ (relay' = "open" \/ relay' = relay)
                    \/ orphaned' = TRUE
                    \/ conn' = "good"
  BY DEF HalfClosed, GateStays, GateOpens
<1> QED  BY <1>1, <1>2, <1>3 DEF HalfDone, GateStays, BareCommand, rig

\* While exposed is set no step but the single command is left to make.
LEMMA ExposedStep ==
  ASSUME CallInv, ExposedInv, exposed, NEW name, Step(name)
  PROVE  name = "command"
BY DEF CallInv, ExposedInv, Step

\* A start has steps of its own to make, and still does after one of them.
LEMMA StartStep ==
  ASSUME CallInv, op = "start", NEW name, Step(name)
  PROVE  todo' \in Seq(ScanSteps) /\ name # "command"
BY DEF CallInv, Step, ScanSteps

(* A step of a call keeps the invariant if it switches the hub, or leaves    *)
(* gate and connection alone: all a stop has left to do once it released    *)
(* the relay.                                                               *)
LEMMA QuietStep ==
  ASSUME PanelInv, NEW name, Step(name), name \notin {"relayOff", "command"},
         conn = "none" => conn' = "none" /\ (relay' = "open" \/ relay' = relay),
         conn' = "none" => conn = "none",
         orphaned' = orphaned
  PROVE  CallInv' /\ GateInv' /\ ExposedInv'
<1> USE DEF PanelInv
<1>1. ~exposed /\ ~exposed'
  BY ExposedStep DEF Step
<1>2. CASE op = "stop"
  BY <1>1, <1>2, StopStepsProceed DEF CallInv, GateInv, ExposedInv, Step, result
<1>3. CASE op # "stop"
  <2>1. op = "start"
    BY <1>3 DEF TypeOK, CallInv, Step
  <2>2. todo' \in Seq(ScanSteps)
    BY <2>1, StartStep
  <2> QED  BY <1>1, <2>1, <2>2 DEF CallInv, GateInv, ExposedInv, Step, result
<1> QED  BY <1>2, <1>3

(* Each operation preserves the invariant.                                  *)
LEMMA NextPanelInv == PanelInv /\ [Next]_vars => PanelInv'
<1> SUFFICES ASSUME PanelInv, [Next]_vars PROVE CallInv' /\ GateInv' /\ ExposedInv'
  BY NextTypeOK DEF PanelInv
<1> USE DEF PanelInv, call, test, rig, result, doubts
<1>1. ASSUME NEW s \in Settings, StartScanning(s) PROVE CallInv' /\ GateInv' /\ ExposedInv'
  BY <1>1, StepsTyped DEF StartScanning, Begin, CallInv, GateInv, ExposedInv
<1>2. CASE StopScanning
  BY <1>2 DEF StopScanning, Begin, CallInv, GateInv, ExposedInv
<1>3. CASE ShowA
  <2>1. Step("showA") /\ HubShows({"a"}) /\ orphaned' = orphaned  BY <1>3 DEF ShowA
  <2> QED  BY <2>1, HubKeepsGate, QuietStep
<1>4. CASE ShowB
  <2>1. Step("showB") /\ HubShows({"b", "relay"}) /\ orphaned' = orphaned  BY <1>4 DEF ShowB
  <2> QED  BY <2>1, HubKeepsGate, QuietStep
<1>5. CASE Configure
  BY <1>5, QuietStep DEF Configure
<1>6. CASE Reset
  BY <1>6, QuietStep DEF Reset
<1>7. CASE RelayOff
  <2>1. Step("relayOff") /\ conn' = "none" /\ (relay' = "open" \/ (conn = "none" /\ relay' = relay))
    BY <1>7 DEF RelayOff, GateStays, GateOpens
  <2>2. ~exposed /\ ~exposed' /\ orphaned' = orphaned /\ op' = op /\ stopped' = stopped
    BY <1>7, <2>1, ExposedStep DEF RelayOff, Step
  <2>3. op \in {"start", "stop"}
    BY <2>1 DEF TypeOK, CallInv, Step
  <2>4. op = "stop" => todo' \in StopRests
    BY <2>1, StopStepsProceed
  <2>5. op = "start" => todo' \in Seq(ScanSteps)
    BY <2>1, StartStep
  <2> QED  BY <2>1, <2>2, <2>3, <2>4, <2>5 DEF CallInv, GateInv, ExposedInv
<1>8. CASE RelayOn
  <2>1. Step("relayOn") /\ conn' = "good"  BY <1>8 DEF RelayOn
  <2>2. ~exposed /\ ~exposed'  BY <2>1, ExposedStep DEF Step
  <2>3. op = "start"
    BY <2>1, StopStepsProceed DEF TypeOK, CallInv, Step
  <2>4. todo' \in Seq(ScanSteps)  BY <2>1, <2>3, StartStep
  <2> QED  BY <2>1, <2>2, <2>3, <2>4 DEF Step, CallInv, GateInv, ExposedInv
<1>9. CASE Prime \/ Record
  BY <1>9, QuietStep DEF Prime, Record
<1>10. CASE StepRaises
  <2>1. HalfDone(Head(todo)) /\ todo # <<>> /\ op' = "idle" /\ todo' = <<>>
        /\ UNCHANGED <<test, primed, exposed, stopped, missed>>
    BY <1>10 DEF StepRaises
  <2>2. op \notin {"idle", "block"}  BY <2>1 DEF CallInv
  <2>3. exposed => op = "single" /\ Head(todo) = "command"
    BY <2>1, <2>2 DEF CallInv, ExposedInv
  <2>4. exposed => UNCHANGED ports
    BY <2>1, <2>3 DEF HalfDone
  <2> QED  BY <2>1, <2>2, <2>3, <2>4, HalfDoneKeepsGate
           DEF CallInv, GateInv, ExposedInv, Shown
<1>11. CASE Return
  <2>1. op = "stop" => conn = "none"
    BY <1>11, StopStepsAre DEF Return, CallInv
  <2> QED  BY <1>11, <2>1 DEF Return, CallInv, GateInv, ExposedInv, Shown
<1>12. ASSUME NEW p \in Panels, EnterBlock(p) PROVE CallInv' /\ GateInv' /\ ExposedInv'
  BY <1>12, HubKeepsGate DEF EnterBlock, Begin, CallInv, GateInv, ExposedInv
<1>13. ASSUME NEW p \in Panels, EnterRaises(p) PROVE CallInv' /\ GateInv' /\ ExposedInv'
  <2>1. /\ conn = "none" <=> conn' = "none"
        /\ relay' = "open" \/ relay' = relay
    BY <1>13, HubKeepsGate DEF EnterRaises, HubFails
  <2> QED  BY <1>13, <2>1 DEF EnterRaises, CallInv, GateInv, ExposedInv
<1>14. CASE BlockCommand
  BY <1>14 DEF BlockCommand, BareCommand, CallInv, GateInv, ExposedInv
<1>15. CASE ExitBlock
  BY <1>15 DEF ExitBlock, Deprime, CallInv, GateInv, ExposedInv
<1>16. ASSUME NEW d \in BOOLEAN, NEW t \in Panels \cup {NoTarget}, SetTarget(d, t)
       PROVE CallInv' /\ GateInv' /\ ExposedInv'
  BY <1>16 DEF SetTarget, CallInv, GateInv, ExposedInv
<1>17. CASE SingleCommand
  <2>1. /\ op = "idle" /\ op' = "single" /\ todo' = <<"command">> /\ ~stopped'
        /\ exposed' = (exposed \/ target # NoTarget)
        /\ UNCHANGED <<target, orphaned>>
    BY <1>17 DEF SingleCommand, Begin
  <2>2. CASE (target = NoTarget \/ exposed) /\ UNCHANGED <<primed, known, conn, rig, missed>>
    BY <2>1, <2>2 DEF CallInv, GateInv, ExposedInv, Shown
  <2>3. CASE target # NoTarget /\ HubShows({target}) /\ Deprime
    <3>1. ports' \cap Panels = {target}
      BY <2>3 DEF HubShows, TypeOK
    <3> QED  BY <2>1, <2>3, <3>1, HubKeepsGate
             DEF Deprime, CallInv, GateInv, ExposedInv, Shown
  <2>4. CASE target # NoTarget /\ missed' = TRUE
             /\ (UNCHANGED <<conn, rig, primed>> \/ HubFails({target}, Ports \ {target}))
    <3>1. /\ conn = "none" <=> conn' = "none"
          /\ relay' = "open" \/ relay' = relay
      BY <2>4, HubKeepsGate DEF HubFails
    <3> QED  BY <2>1, <2>4, <3>1 DEF CallInv, GateInv, ExposedInv
  <2> QED  BY <1>17, <2>2, <2>3, <2>4 DEF SingleCommand
<1>18. CASE Command
  <2>1. op = "single"
    <3>1. Step("command") /\ todo # <<>>  BY <1>18 DEF Command, Step
    <3>2. op # "stop"
      BY <3>1, StopStepsProceed, StopStepsAre
    <3>3. op # "start"  BY <3>1, StartStep
    <3> QED  BY <3>1, <3>2, <3>3 DEF TypeOK, CallInv
  <2>2. todo' = <<>>
    <3>1. todo = <<"command">> /\ todo' = Tail(todo)
      BY <1>18, <2>1 DEF Command, Step, CallInv
    <3> QED  BY <3>1
  <2> QED  BY <1>18, <2>1, <2>2 DEF Command, Step, BareCommand, CallInv, GateInv, ExposedInv, Shown
<1>19. CASE Restart
  <2>1. CallInv' /\ GateInv'
    <3>1. relay' \in {"open", "closed"} /\ orphaned' = (relay' = "closed")
      BY <1>19, GateOpensTyped DEF Restart
    <3>2. relay' = "open" \/ orphaned'
      BY <3>1
    <3> QED  BY <1>19, <3>2 DEF Restart, CallInv, GateInv
  <2>2. ExposedInv'
    <3>1. CASE UNCHANGED <<test, exposed>>
      BY <1>19, <3>1 DEF Restart, ExposedInv, Shown
    <3>2. CASE exposed' = FALSE
      BY <3>2 DEF ExposedInv
    <3> QED  BY <1>19, <3>1, <3>2 DEF Restart
  <2> QED  BY <2>1, <2>2
<1>20. CASE UNCHANGED vars
  BY <1>20 DEF vars, CallInv, GateInv, ExposedInv, Shown
<1> QED
  BY <1>1, <1>2, <1>3, <1>4, <1>5, <1>6, <1>7, <1>8, <1>9, <1>10, <1>11, <1>12, <1>13, <1>14,
     <1>15, <1>16, <1>17, <1>18, <1>19, <1>20 DEF Next

-----------------------------------------------------------------------------

THEOREM PanelInvariant == Spec => []PanelInv
BY InitPanelInv, NextPanelInv, PTL DEF Spec

(* After a stop that returned, the panels are frozen.                       *)
THEOREM StopFreezes == Spec => []StoppedMeansFrozen
BY PanelInvariant, InvImplies, PTL

(* A single-panel test's commands reach the panel the test looks at.        *)
THEOREM SingleReachesTarget == Spec => []SingleCommandsReachTarget
BY PanelInvariant, InvImplies, PTL

(* A pair that single-panel commands went to is armed in full again.        *)
THEOREM SwitchedIsNotPrimed == Spec => []SwitchedMeansNotPrimed
BY PanelInvariant, InvImplies, PTL
-----------------------------------------------------------------------------
(* StartedMeansStepping.  The plan of a call of start_scanning is the whole *)
(* double arm, or, of a primed pair, a single one or its last two steps;    *)
(* what the steps made so far have established of the panels grows along    *)
(* it.  Between calls a primed pair is ready for the settings on record.    *)

FullPlan == DoubleArm \o <<"record">>

RearmPlan == ArmOnce \o <<"record">>

SetUp(p) == panel[p].cfg = asked

\* What the first k steps of the double arm have established.
FullReached(k) ==
  /\ k = 1 => Shown = {"a"}
  /\ k = 3 => Shown = {"b"}
  /\ k >= 2 => SetUp("a")
  /\ k >= 4 => SetUp("b")
  /\ k = 6 => relay = "closed" /\ conn = "good"
  /\ k >= 7 => \A p \in Panels : panel[p].trusts
  /\ k >= 17 => relay = "closed"

\* No start that failed half way matters to the one in progress.
Unaffected == ~commanded /\ (asked # known \/ ~halfArmed)

\* What the first k steps of a single arm of a primed pair have.
RearmReached(k) ==
  /\ ~commanded => \A p \in Panels : panel[p].trusts
  /\ k = 1 => Shown = {"a"}
  /\ k = 3 => Shown = {"b"}
  /\ k >= 2 /\ Unaffected => SetUp("a")
  /\ k >= 4 /\ Unaffected => SetUp("b")
  /\ k >= 6 => relay = "closed"
  /\ k = 7 => known = asked

ProgressInv ==
  op = "start" =>
    /\ asked \in Settings
    /\ \/ /\ ~primed
          /\ \E k \in 0 .. 17 : todo = SubSeq(FullPlan, k + 1, 19) /\ FullReached(k)
       \/ /\ primed
          /\ \E k \in 0 .. 7 : /\ todo = SubSeq(RearmPlan, k + 1, 7)
                               /\ k < 4 => asked # known
                               /\ RearmReached(k)

ReadyInv ==
  op \in {"idle", "stop", "single"} /\ primed /\ ~commanded =>
     \A p \in Panels : panel[p].trusts /\ (~halfArmed => panel[p].cfg = known)

StartedInv ==
  started # NoSetting =>
    /\ op = "idle"
    /\ ~halfArmed /\ ~commanded =>
          relay = "closed" /\ \A p \in Panels : panel[p].cfg = started /\ panel[p].trusts

ScanInv == PanelInv /\ ProgressInv /\ ReadyInv /\ StartedInv
\* Two sequences of steps, one after the other.
LEMMA Joined ==
  ASSUME NEW s \in Seq(ScanSteps), NEW t \in Seq(ScanSteps), NEW u, u = s \o t
  PROVE  /\ u \in Seq(ScanSteps) /\ Len(u) = Len(s) + Len(t)
         /\ \A i \in 1 .. Len(s) : u[i] = s[i]
         /\ \A i \in 1 .. Len(t) : u[Len(s) + i] = t[i]
<1>1. /\ s \o t \in Seq(ScanSteps) /\ Len(s \o t) = Len(s) + Len(t)
      /\ \A i \in 1 .. Len(s) + Len(t) :
            (s \o t)[i] = IF i <= Len(s) THEN s[i] ELSE t[i - Len(s)]
  BY ConcatProperties
<1>2. Len(s) \in Nat /\ Len(t) \in Nat
  BY LenProperties
<1>3. /\ \A i \in 1 .. Len(s) : i \in 1 .. Len(s) + Len(t) /\ i <= Len(s)
      /\ \A i \in 1 .. Len(t) : /\ Len(s) + i \in 1 .. Len(s) + Len(t)
                                 /\ ~(Len(s) + i <= Len(s)) /\ (Len(s) + i) - Len(s) = i
  BY <1>2
<1> QED  BY <1>1, <1>3

\* The six steps that arm both panels, and the five that stop them.
LEMMA ArmOnceIs ==
  /\ ArmOnce \in Seq(ScanSteps) /\ Len(ArmOnce) = 6
  /\ ArmOnce[1] = "showA" /\ ArmOnce[2] = "configure"
  /\ ArmOnce[3] = "showB" /\ ArmOnce[4] = "configure"
  /\ ArmOnce[5] = "relayOff" /\ ArmOnce[6] = "relayOn"
<1> DEFINE both == OnBothPanels("configure")
           gate == <<"relayOff", "relayOn">>
<1>1. /\ both \in Seq(ScanSteps) /\ Len(both) = 4
      /\ both[1] = "showA" /\ both[2] = "configure" /\ both[3] = "showB" /\ both[4] = "configure"
  BY DEF OnBothPanels, Steps, ScanSteps
<1>2. /\ gate \in Seq(ScanSteps) /\ Len(gate) = 2
      /\ gate[1] = "relayOff" /\ gate[2] = "relayOn"
  BY DEF Steps, ScanSteps
<1>3. ArmOnce = both \o gate
  BY DEF ArmOnce
<1> HIDE DEF both, gate
<1>4. /\ ArmOnce \in Seq(ScanSteps) /\ Len(ArmOnce) = Len(both) + Len(gate)
      /\ \A i \in 1 .. Len(both) : ArmOnce[i] = both[i]
      /\ \A i \in 1 .. Len(gate) : ArmOnce[Len(both) + i] = gate[i]
  BY <1>1, <1>2, <1>3, Joined
<1> QED  BY <1>1, <1>2, <1>4

LEMMA StopStepsAt ==
  /\ StopSteps \in Seq(ScanSteps) /\ Len(StopSteps) = 5
  /\ StopSteps[1] = "relayOff" /\ StopSteps[2] = "showA" /\ StopSteps[3] = "reset"
  /\ StopSteps[4] = "showB" /\ StopSteps[5] = "reset"
BY StopStepsAre DEF Steps, ScanSteps

\* Where each step stands in the plan of a double arm.
LEMMA FullPlanIs ==
  /\ FullPlan \in Seq(ScanSteps) /\ Len(FullPlan) = 19
  /\ FullPlan[1] = "showA" /\ FullPlan[2] = "configure" /\ FullPlan[3] = "showB"
  /\ FullPlan[4] = "configure" /\ FullPlan[5] = "relayOff" /\ FullPlan[6] = "relayOn"
  /\ FullPlan[7] = "relayOff" /\ FullPlan[8] = "showA" /\ FullPlan[9] = "reset"
  /\ FullPlan[10] = "showB" /\ FullPlan[11] = "reset"
  /\ FullPlan[12] = "showA" /\ FullPlan[13] = "configure" /\ FullPlan[14] = "showB"
  /\ FullPlan[15] = "configure" /\ FullPlan[16] = "relayOff" /\ FullPlan[17] = "relayOn"
  /\ FullPlan[18] = "prime" /\ FullPlan[19] = "record"
<1> DEFINE armed   == ArmOnce \o StopSteps
           twice   == armed \o ArmOnce
           marking == <<"prime">>
           noting  == <<"record">>
           whole   == twice \o marking
<1>1. /\ marking \in Seq(ScanSteps) /\ Len(marking) = 1 /\ marking[1] = "prime"
      /\ noting \in Seq(ScanSteps) /\ Len(noting) = 1 /\ noting[1] = "record"
  BY DEF Steps, ScanSteps
<1>2. /\ armed = ArmOnce \o StopSteps /\ twice = armed \o ArmOnce
      /\ whole = twice \o marking /\ FullPlan = whole \o noting
  BY DEF FullPlan, DoubleArm
<1> HIDE DEF armed, twice, marking, noting, whole
<1>3. /\ armed \in Seq(ScanSteps) /\ Len(armed) = Len(ArmOnce) + Len(StopSteps)
      /\ \A i \in 1 .. Len(ArmOnce) : armed[i] = ArmOnce[i]
      /\ \A i \in 1 .. Len(StopSteps) : armed[Len(ArmOnce) + i] = StopSteps[i]
  BY <1>2, ArmOnceIs, StopStepsAt, Joined
<1>4. /\ twice \in Seq(ScanSteps) /\ Len(twice) = Len(armed) + Len(ArmOnce)
      /\ \A i \in 1 .. Len(armed) : twice[i] = armed[i]
      /\ \A i \in 1 .. Len(ArmOnce) : twice[Len(armed) + i] = ArmOnce[i]
  <2>1. armed \in Seq(ScanSteps) /\ ArmOnce \in Seq(ScanSteps) /\ twice = armed \o ArmOnce
    BY <1>2, <1>3, ArmOnceIs
  <2> QED  BY <2>1, Joined
<1>5. /\ whole \in Seq(ScanSteps) /\ Len(whole) = Len(twice) + Len(marking)
      /\ \A i \in 1 .. Len(twice) : whole[i] = twice[i]
      /\ \A i \in 1 .. Len(marking) : whole[Len(twice) + i] = marking[i]
  <2>1. twice \in Seq(ScanSteps) /\ marking \in Seq(ScanSteps) /\ whole = twice \o marking
    BY <1>1, <1>2, <1>4
  <2> QED  BY <2>1, Joined
<1>6. /\ FullPlan \in Seq(ScanSteps) /\ Len(FullPlan) = Len(whole) + Len(noting)
      /\ \A i \in 1 .. Len(whole) : FullPlan[i] = whole[i]
      /\ \A i \in 1 .. Len(noting) : FullPlan[Len(whole) + i] = noting[i]
  BY <1>1, <1>2, <1>5, Joined
<1>16. Len(armed) = 11 /\ Len(twice) = 17 /\ Len(whole) = 18 /\ Len(FullPlan) = 19
  BY <1>1, <1>3, <1>4, <1>5, <1>6, ArmOnceIs, StopStepsAt
<1>7. \A i \in 1 .. 11 : FullPlan[i] = armed[i]
  BY <1>1, <1>4, <1>5, <1>6, <1>16
<1>8. \A i \in 1 .. 6 : FullPlan[11 + i] = ArmOnce[i]
  <2> SUFFICES ASSUME NEW i \in 1 .. 6 PROVE FullPlan[11 + i] = ArmOnce[i]
    OBVIOUS
  <2>1. 11 + i \in 1 .. 17 /\ 11 + i \in 1 .. 18
    OBVIOUS
  <2>2. twice[11 + i] = ArmOnce[i]
    BY <1>4, <1>16, ArmOnceIs
  <2>3. FullPlan[11 + i] = whole[11 + i] /\ whole[11 + i] = twice[11 + i]
    BY <1>5, <1>6, <1>16, <2>1
  <2> QED  BY <2>2, <2>3
<1>9. FullPlan[18] = "prime" /\ FullPlan[19] = "record"
  BY <1>1, <1>5, <1>6, <1>16
<1>10. \A i \in 1 .. 6 : FullPlan[i] = ArmOnce[i]
  BY <1>3, <1>7, ArmOnceIs
<1>11. \A i \in 1 .. 5 : FullPlan[6 + i] = StopSteps[i]
  BY <1>3, <1>7, ArmOnceIs, StopStepsAt
<1>12. /\ FullPlan[1] = ArmOnce[1] /\ FullPlan[2] = ArmOnce[2] /\ FullPlan[3] = ArmOnce[3]
       /\ FullPlan[4] = ArmOnce[4] /\ FullPlan[5] = ArmOnce[5] /\ FullPlan[6] = ArmOnce[6]
  BY <1>10
<1>13. /\ FullPlan[7] = StopSteps[1] /\ FullPlan[8] = StopSteps[2] /\ FullPlan[9] = StopSteps[3]
       /\ FullPlan[10] = StopSteps[4] /\ FullPlan[11] = StopSteps[5]
  BY <1>11
<1>14. /\ FullPlan[12] = ArmOnce[1] /\ FullPlan[13] = ArmOnce[2] /\ FullPlan[14] = ArmOnce[3]
       /\ FullPlan[15] = ArmOnce[4] /\ FullPlan[16] = ArmOnce[5] /\ FullPlan[17] = ArmOnce[6]
  BY <1>8
<1>15. FullPlan \in Seq(ScanSteps) /\ Len(FullPlan) = 19
  BY <1>6, <1>16
<1> QED  BY <1>9, <1>12, <1>13, <1>14, <1>15, ArmOnceIs, StopStepsAt

\* And in that of a single arm.
LEMMA RearmPlanIs ==
  /\ RearmPlan \in Seq(ScanSteps) /\ Len(RearmPlan) = 7
  /\ RearmPlan[1] = "showA" /\ RearmPlan[2] = "configure" /\ RearmPlan[3] = "showB"
  /\ RearmPlan[4] = "configure" /\ RearmPlan[5] = "relayOff" /\ RearmPlan[6] = "relayOn"
  /\ RearmPlan[7] = "record"
<1> DEFINE noting == <<"record">>
<1>1. noting \in Seq(ScanSteps) /\ Len(noting) = 1 /\ noting[1] = "record"
  BY DEF Steps, ScanSteps
<1>2. RearmPlan = ArmOnce \o noting
  BY DEF RearmPlan
<1> HIDE DEF noting
<1>3. /\ RearmPlan \in Seq(ScanSteps) /\ Len(RearmPlan) = Len(ArmOnce) + Len(noting)
      /\ \A i \in 1 .. Len(ArmOnce) : RearmPlan[i] = ArmOnce[i]
      /\ \A i \in 1 .. Len(noting) : RearmPlan[Len(ArmOnce) + i] = noting[i]
  BY <1>1, <1>2, ArmOnceIs, Joined
<1> QED  BY <1>1, <1>3, ArmOnceIs

(* What a start is given to do is one of the two plans, or the end of the   *)
(* second; and so is what is left once a double arm has primed the pair.    *)
LEMMA PlanEnds ==
  /\ SubSeq(FullPlan, 1, 19) = FullPlan
  /\ SubSeq(RearmPlan, 1, 7) = RearmPlan
  /\ <<"relayOff", "relayOn">> \o <<"record">> = SubSeq(RearmPlan, 5, 7)
  /\ SubSeq(FullPlan, 19, 19) = SubSeq(RearmPlan, 7, 7)
<1>1. SubSeq(FullPlan, 1, 19) = FullPlan /\ SubSeq(RearmPlan, 1, 7) = RearmPlan
  BY FullPlanIs, RearmPlanIs, SubSeqFull
<1>2. \A i \in 1 .. 19 : FullPlan[i] \in ScanSteps
  BY FullPlanIs, ElementOfSeq
<1>3. \A i \in 1 .. 7 : RearmPlan[i] \in ScanSteps
  BY RearmPlanIs, ElementOfSeq
<1>4. SubSeq(FullPlan, 19, 19) = SubSeq(RearmPlan, 7, 7)
  <2>1. /\ SubSeq(FullPlan, 19, 19) \in Seq(ScanSteps) /\ Len(SubSeq(FullPlan, 19, 19)) = 1
        /\ \A i \in 1 .. 1 : SubSeq(FullPlan, 19, 19)[i] = FullPlan[19 + i - 1]
    BY <1>2, SubSeqProperties
  <2>2. /\ SubSeq(RearmPlan, 7, 7) \in Seq(ScanSteps) /\ Len(SubSeq(RearmPlan, 7, 7)) = 1
        /\ \A i \in 1 .. 1 : SubSeq(RearmPlan, 7, 7)[i] = RearmPlan[7 + i - 1]
    BY <1>3, SubSeqProperties
  <2>3. \A i \in 1 .. 1 : SubSeq(FullPlan, 19, 19)[i] = SubSeq(RearmPlan, 7, 7)[i]
    BY <2>1, <2>2, FullPlanIs, RearmPlanIs
  <2> QED  BY <2>1, <2>2, <2>3, SeqEqual
<1>5. <<"relayOff", "relayOn">> \o <<"record">> = SubSeq(RearmPlan, 5, 7)
  <2> DEFINE gate   == <<"relayOff", "relayOn">>
             noting == <<"record">>
  <2>1. /\ gate \in Seq(ScanSteps) /\ Len(gate) = 2 /\ gate[1] = "relayOff" /\ gate[2] = "relayOn"
        /\ noting \in Seq(ScanSteps) /\ Len(noting) = 1 /\ noting[1] = "record"
    BY DEF Steps, ScanSteps
  <2> DEFINE ending == gate \o noting
  <2>6. ending = gate \o noting
    OBVIOUS
  <2> HIDE DEF gate, noting, ending
  <2>2. /\ ending \in Seq(ScanSteps) /\ Len(ending) = Len(gate) + Len(noting)
        /\ \A i \in 1 .. Len(gate) : ending[i] = gate[i]
        /\ \A i \in 1 .. Len(noting) : ending[Len(gate) + i] = noting[i]
    <3>1. gate \in Seq(ScanSteps) /\ noting \in Seq(ScanSteps)
      BY <2>1
    <3> QED  BY <2>6, <3>1, Joined
  <2>3. /\ SubSeq(RearmPlan, 5, 7) \in Seq(ScanSteps) /\ Len(SubSeq(RearmPlan, 5, 7)) = 3
        /\ \A i \in 1 .. 3 : SubSeq(RearmPlan, 5, 7)[i] = RearmPlan[5 + i - 1]
    BY <1>3, SubSeqProperties
  <2>4. Len(ending) = 3 /\ \A i \in 1 .. 3 : ending[i] = SubSeq(RearmPlan, 5, 7)[i]
    <3>1. ending[1] = gate[1] /\ ending[2] = gate[2] /\ ending[3] = noting[1] /\ Len(ending) = 3
      BY <2>1, <2>2
    <3>2. \A i \in 1 .. 3 : i = 1 \/ i = 2 \/ i = 3
      OBVIOUS
    <3> QED  BY <2>1, <2>3, <3>1, <3>2, RearmPlanIs
  <2>5. ending = SubSeq(RearmPlan, 5, 7)
    BY <2>2, <2>3, <2>4, SeqEqual
  <2> QED  BY <2>5, <2>6 DEF gate, noting
<1> QED  BY <1>1, <1>4, <1>5
\* One step along a plan.
LEMMA PlanStep ==
  ASSUME NEW plan \in Seq(ScanSteps), NEW k \in 0 .. Len(plan),
         todo = SubSeq(plan, k + 1, Len(plan)), NEW name, Step(name)
  PROVE  /\ k < Len(plan) /\ name = plan[k + 1]
         /\ todo' = SubSeq(plan, (k + 1) + 1, Len(plan))
<1>1. Len(plan) \in Nat
  BY LenProperties
<1>2. k < Len(plan)
  <2> SUFFICES ASSUME k = Len(plan) PROVE FALSE
    BY <1>1
  <2>1. todo = <<>>
    BY <1>1, SubSeqEmpty
  <2> QED  BY <2>1 DEF Step
<1>3. k + 1 \in 1 .. Len(plan) /\ Len(plan) \in (k + 1) .. Len(plan)
  BY <1>1, <1>2
<1>4. /\ Head(SubSeq(plan, k + 1, Len(plan))) = plan[k + 1]
      /\ Tail(SubSeq(plan, k + 1, Len(plan))) = SubSeq(plan, (k + 1) + 1, Len(plan))
  BY <1>3, HeadTailOfSubSeq
<1> QED  BY <1>2, <1>4 DEF Step

LEMMA FullStep ==
  ASSUME NEW k \in 0 .. 17, todo = SubSeq(FullPlan, k + 1, 19), NEW name, Step(name)
  PROVE  /\ todo' = SubSeq(FullPlan, (k + 1) + 1, 19)
         /\ name = "showA" => k \in {0, 7, 11}
         /\ name = "showB" => k \in {2, 9, 13}
         /\ name = "configure" => k \in {1, 3, 12, 14}
         /\ name = "reset" => k \in {8, 10}
         /\ name = "relayOff" => k \in {4, 6, 15}
         /\ name = "relayOn" => k \in {5, 16}
         /\ name = "prime" <=> k = 17
         /\ name # "record"
<1>1. name = FullPlan[k + 1] /\ todo' = SubSeq(FullPlan, (k + 1) + 1, 19)
  <2>1. FullPlan \in Seq(ScanSteps) /\ Len(FullPlan) = 19 /\ k \in 0 .. 19
    BY FullPlanIs
  <2>2. todo = SubSeq(FullPlan, k + 1, Len(FullPlan)) /\ k \in 0 .. Len(FullPlan)
    BY <2>1
  <2>3. name = FullPlan[k + 1] /\ todo' = SubSeq(FullPlan, (k + 1) + 1, Len(FullPlan))
    BY <2>1, <2>2, PlanStep
  <2> QED  BY <2>1, <2>3
<1>2. \/ k = 0 \/ k = 1 \/ k = 2 \/ k = 3 \/ k = 4 \/ k = 5 \/ k = 6 \/ k = 7 \/ k = 8
      \/ k = 9 \/ k = 10 \/ k = 11 \/ k = 12 \/ k = 13 \/ k = 14 \/ k = 15 \/ k = 16 \/ k = 17
  OBVIOUS
<1>3. /\ (k = 0 => name = "showA") /\ (k = 1 => name = "configure")
      /\ (k = 2 => name = "showB") /\ (k = 3 => name = "configure")
      /\ (k = 4 => name = "relayOff") /\ (k = 5 => name = "relayOn")
      /\ (k = 6 => name = "relayOff") /\ (k = 7 => name = "showA")
      /\ (k = 8 => name = "reset") /\ (k = 9 => name = "showB")
      /\ (k = 10 => name = "reset") /\ (k = 11 => name = "showA")
      /\ (k = 12 => name = "configure") /\ (k = 13 => name = "showB")
      /\ (k = 14 => name = "configure") /\ (k = 15 => name = "relayOff")
      /\ (k = 16 => name = "relayOn") /\ (k = 17 => name = "prime")
  BY <1>1, FullPlanIs
<1> QED  BY <1>1, <1>2, <1>3

LEMMA RearmStep ==
  ASSUME NEW k \in 0 .. 7, todo = SubSeq(RearmPlan, k + 1, 7), NEW name, Step(name)
  PROVE  /\ k < 7 /\ todo' = SubSeq(RearmPlan, (k + 1) + 1, 7)
         /\ name = "showA" <=> k = 0
         /\ name = "showB" <=> k = 2
         /\ name = "configure" <=> k \in {1, 3}
         /\ name = "relayOff" <=> k = 4
         /\ name = "relayOn" <=> k = 5
         /\ name = "record" <=> k = 6
         /\ name \notin {"reset", "prime"}
<1>1. k < 7 /\ name = RearmPlan[k + 1] /\ todo' = SubSeq(RearmPlan, (k + 1) + 1, 7)
  <2>1. RearmPlan \in Seq(ScanSteps) /\ Len(RearmPlan) = 7
    BY RearmPlanIs
  <2>2. todo = SubSeq(RearmPlan, k + 1, Len(RearmPlan)) /\ k \in 0 .. Len(RearmPlan)
    BY <2>1
  <2>3. /\ k < Len(RearmPlan) /\ name = RearmPlan[k + 1]
        /\ todo' = SubSeq(RearmPlan, (k + 1) + 1, Len(RearmPlan))
    BY <2>1, <2>2, PlanStep
  <2> QED  BY <2>1, <2>3
<1>2. k = 0 \/ k = 1 \/ k = 2 \/ k = 3 \/ k = 4 \/ k = 5 \/ k = 6
  BY <1>1
<1>3. /\ (k = 0 => name = "showA") /\ (k = 1 => name = "configure")
      /\ (k = 2 => name = "showB") /\ (k = 3 => name = "configure")
      /\ (k = 4 => name = "relayOff") /\ (k = 5 => name = "relayOn")
      /\ (k = 6 => name = "record")
  BY <1>1, RearmPlanIs
<1> QED  BY <1>1, <1>2, <1>3

\* What the hub and the gate do to the panels: a set-up one may come to trust the relay.
PairKept ==
  \A p \in Panels : panel'[p].cfg = panel[p].cfg /\ (panel[p].trusts => panel'[p].trusts)

LEMMA GateKeepsPair ==
  ASSUME TypeOK, PanelsSeeOpening \/ GateStays \/ UNCHANGED panel
  PROVE  PairKept
BY DEF TypeOK, PanelsSeeOpening, GateStays, PairKept

LEMMA HubKeepsPair ==
  ASSUME TypeOK, NEW P, HubShows(P)
  PROVE  PairKept /\ ports' = P
BY GateKeepsPair DEF HubShows, GateOpens

LEMMA HubFailsKeepsPair ==
  ASSUME TypeOK, NEW on, NEW off, HubFails(on, off)
  PROVE  PairKept
BY HubKeepsPair DEF HubFails

LEMMA ConfiguredPair ==
  ASSUME TypeOK, PanelConfigured
  PROVE  /\ \A p \in Panels : /\ panel'[p].trusts = panel[p].trusts
                              /\ panel'[p].cfg = asked \/ panel'[p].cfg = panel[p].cfg
         /\ \A p \in Panels : Shown = {p} => panel'[p].cfg = asked
BY DEF TypeOK, PanelConfigured, Shown

(* A step of a start's plan takes its progress along.                       *)
LEMMA FullProceeds ==
  ASSUME op' = op, asked' = asked, asked \in Settings, ~primed',
         NEW k \in 0 .. 16, todo' = SubSeq(FullPlan, (k + 1) + 1, 19), FullReached(k + 1)'
  PROVE  ProgressInv'
<1>1. k + 1 \in 0 .. 17
  OBVIOUS
<1> QED  BY <1>1 DEF ProgressInv

LEMMA RearmProceeds ==
  ASSUME op' = op, asked' = asked, asked \in Settings, primed',
         NEW k \in 0 .. 6, todo' = SubSeq(RearmPlan, (k + 1) + 1, 7),
         k + 1 < 4 => asked' # known', RearmReached(k + 1)'
  PROVE  ProgressInv'
<1>1. k + 1 \in 0 .. 7
  OBVIOUS
<1> QED  BY <1>1 DEF ProgressInv
-----------------------------------------------------------------------------
(* Each step of a start keeps its progress.                                 *)

LEMMA ShowAProgress == ScanInv /\ op = "start" /\ ShowA => ProgressInv'
<1> SUFFICES ASSUME ScanInv, op = "start", ShowA PROVE ProgressInv'
  OBVIOUS
<1>1. /\ Step("showA") /\ UNCHANGED <<op, asked, primed, known, halfArmed, commanded>>
      /\ asked \in Settings
  BY DEF ShowA, Step, doubts, ScanInv, ProgressInv
<1>2. PairKept /\ Shown' = {"a"}
  BY HubKeepsPair DEF ShowA, ScanInv, PanelInv, Shown, Panels
<1>3. CASE ~primed
  <2>1. PICK k \in 0 .. 17 : todo = SubSeq(FullPlan, k + 1, 19) /\ FullReached(k)
    BY <1>3 DEF ScanInv, ProgressInv
  <2>2. todo' = SubSeq(FullPlan, (k + 1) + 1, 19) /\ k \in {0, 7, 11}
    BY <1>1, <2>1, FullStep
  <2>3. FullReached(k + 1)'
    BY <1>1, <1>2, <2>1, <2>2 DEF FullReached, SetUp, PairKept, Panels
  <2>9. k \in 0 .. 16 /\ ~primed'
    BY <1>1, <1>3, <2>1, <2>2
  <2> QED  BY <1>1, <2>9, <2>2, <2>3, FullProceeds
<1>4. CASE primed
  <2>1. PICK k \in 0 .. 7 : /\ todo = SubSeq(RearmPlan, k + 1, 7)
                            /\ k < 4 => asked # known
                            /\ RearmReached(k)
    BY <1>4 DEF ScanInv, ProgressInv
  <2>2. todo' = SubSeq(RearmPlan, (k + 1) + 1, 7) /\ k = 0
    BY <1>1, <2>1, RearmStep
  <2>3. RearmReached(k + 1)'
    BY <1>1, <1>2, <2>1, <2>2 DEF RearmReached, Unaffected, SetUp, PairKept, Panels
  <2>4. k \in 0 .. 6 /\ (k + 1 < 4 => asked' # known')
    BY <1>1, <2>1, <2>2
  <2> QED  BY <1>1, <1>4, <2>2, <2>3, <2>4, RearmProceeds
<1> QED  BY <1>3, <1>4

LEMMA ShowBProgress == ScanInv /\ op = "start" /\ ShowB => ProgressInv'
<1> SUFFICES ASSUME ScanInv, op = "start", ShowB PROVE ProgressInv'
  OBVIOUS
<1>1. /\ Step("showB") /\ UNCHANGED <<op, asked, primed, known, halfArmed, commanded>>
      /\ asked \in Settings
  BY DEF ShowB, Step, doubts, ScanInv, ProgressInv
<1>2. PairKept /\ Shown' = {"b"}
  BY HubKeepsPair DEF ShowB, ScanInv, PanelInv, Shown, Panels
<1>3. CASE ~primed
  <2>1. PICK k \in 0 .. 17 : todo = SubSeq(FullPlan, k + 1, 19) /\ FullReached(k)
    BY <1>3 DEF ScanInv, ProgressInv
  <2>2. todo' = SubSeq(FullPlan, (k + 1) + 1, 19) /\ k \in {2, 9, 13}
    BY <1>1, <2>1, FullStep
  <2>3. FullReached(k + 1)'
    BY <1>1, <1>2, <2>1, <2>2 DEF FullReached, SetUp, PairKept, Panels
  <2>9. k \in 0 .. 16 /\ ~primed'
    BY <1>1, <1>3, <2>1, <2>2
  <2> QED  BY <1>1, <2>9, <2>2, <2>3, FullProceeds
<1>4. CASE primed
  <2>1. PICK k \in 0 .. 7 : /\ todo = SubSeq(RearmPlan, k + 1, 7)
                            /\ k < 4 => asked # known
                            /\ RearmReached(k)
    BY <1>4 DEF ScanInv, ProgressInv
  <2>2. todo' = SubSeq(RearmPlan, (k + 1) + 1, 7) /\ k = 2
    BY <1>1, <2>1, RearmStep
  <2>3. RearmReached(k + 1)'
    BY <1>1, <1>2, <2>1, <2>2 DEF RearmReached, Unaffected, SetUp, PairKept, Panels
  <2>4. k \in 0 .. 6 /\ (k + 1 < 4 => asked' # known')
    BY <1>1, <2>1, <2>2
  <2> QED  BY <1>1, <1>4, <2>2, <2>3, <2>4, RearmProceeds
<1> QED  BY <1>3, <1>4

LEMMA ConfigureProgress == ScanInv /\ op = "start" /\ Configure => ProgressInv'
<1> SUFFICES ASSUME ScanInv, op = "start", Configure PROVE ProgressInv'
  OBVIOUS
<1>1. /\ Step("configure") /\ UNCHANGED <<op, asked, primed, known, halfArmed, commanded, relay>>
      /\ asked \in Settings
  BY DEF Configure, Step, doubts, ScanInv, ProgressInv
<1>2. /\ \A p \in Panels : /\ panel'[p].trusts = panel[p].trusts
                           /\ panel'[p].cfg = asked \/ panel'[p].cfg = panel[p].cfg
      /\ \A p \in Panels : Shown = {p} => panel'[p].cfg = asked
  BY ConfiguredPair DEF Configure, ScanInv, PanelInv
<1>3. CASE ~primed
  <2>1. PICK k \in 0 .. 17 : todo = SubSeq(FullPlan, k + 1, 19) /\ FullReached(k)
    BY <1>3 DEF ScanInv, ProgressInv
  <2>2. todo' = SubSeq(FullPlan, (k + 1) + 1, 19) /\ k \in {1, 3, 12, 14}
    BY <1>1, <2>1, FullStep
  <2>3. FullReached(k + 1)'
    BY <1>1, <1>2, <2>1, <2>2 DEF FullReached, SetUp, Panels
  <2>9. k \in 0 .. 16 /\ ~primed'
    BY <1>1, <1>3, <2>1, <2>2
  <2> QED  BY <1>1, <2>9, <2>2, <2>3, FullProceeds
<1>4. CASE primed
  <2>1. PICK k \in 0 .. 7 : /\ todo = SubSeq(RearmPlan, k + 1, 7)
                            /\ k < 4 => asked # known
                            /\ RearmReached(k)
    BY <1>4 DEF ScanInv, ProgressInv
  <2>2. todo' = SubSeq(RearmPlan, (k + 1) + 1, 7) /\ k \in {1, 3}
    BY <1>1, <2>1, RearmStep
  <2>3. RearmReached(k + 1)'
    BY <1>1, <1>2, <2>1, <2>2 DEF RearmReached, Unaffected, SetUp, Panels
  <2>4. k \in 0 .. 6 /\ (k + 1 < 4 => asked' # known')
    BY <1>1, <2>1, <2>2
  <2> QED  BY <1>1, <1>4, <2>2, <2>3, <2>4, RearmProceeds
<1> QED  BY <1>3, <1>4

LEMMA ResetProgress == ScanInv /\ op = "start" /\ Reset => ProgressInv'
<1> SUFFICES ASSUME ScanInv, op = "start", Reset PROVE ProgressInv'
  OBVIOUS
<1>1. /\ Step("reset") /\ UNCHANGED <<op, asked, primed, known, halfArmed, commanded, rig>>
      /\ asked \in Settings
  BY DEF Reset, Step, doubts, ScanInv, ProgressInv
<1>2. CASE ~primed
  <2>1. PICK k \in 0 .. 17 : todo = SubSeq(FullPlan, k + 1, 19) /\ FullReached(k)
    BY <1>2 DEF ScanInv, ProgressInv
  <2>2. todo' = SubSeq(FullPlan, (k + 1) + 1, 19) /\ k \in {8, 10}
    BY <1>1, <2>1, FullStep
  <2>3. FullReached(k + 1)'
    BY <1>1, <2>1, <2>2 DEF FullReached, SetUp, rig
  <2>9. k \in 0 .. 16 /\ ~primed'
    BY <1>1, <1>2, <2>1, <2>2
  <2> QED  BY <1>1, <2>9, <2>2, <2>3, FullProceeds
<1>3. CASE primed
  <2>1. PICK k \in 0 .. 7 : todo = SubSeq(RearmPlan, k + 1, 7)
    BY <1>3 DEF ScanInv, ProgressInv
  <2> QED  BY <1>1, <2>1, RearmStep
<1> QED  BY <1>2, <1>3

(* The gate opens after the pair was set up, and after it was closed over   *)
(* the pair: the second opening is the one the panels come to trust.        *)
LEMMA RelayOffProgress == ScanInv /\ op = "start" /\ RelayOff => ProgressInv'
<1> SUFFICES ASSUME ScanInv, op = "start", RelayOff PROVE ProgressInv'
  OBVIOUS
<1>1. /\ Step("relayOff") /\ UNCHANGED <<op, asked, primed, known, halfArmed, commanded>>
      /\ asked \in Settings
  BY DEF RelayOff, Step, doubts, ScanInv, ProgressInv
<1>2. PairKept
  BY GateKeepsPair DEF RelayOff, GateOpens, ScanInv, PanelInv
<1>3. CASE ~primed
  <2>1. PICK k \in 0 .. 17 : todo = SubSeq(FullPlan, k + 1, 19) /\ FullReached(k)
    BY <1>3 DEF ScanInv, ProgressInv
  <2>2. todo' = SubSeq(FullPlan, (k + 1) + 1, 19) /\ k \in {4, 6, 15}
    BY <1>1, <2>1, FullStep
  <2>3. k = 6 => \A p \in Panels : panel'[p].trusts
    <3> SUFFICES ASSUME k = 6 PROVE \A p \in Panels : panel'[p].trusts
      OBVIOUS
    <3>1. relay = "closed" /\ conn = "good" /\ \A p \in Panels : panel[p].cfg # NoSetting
      BY <1>1, <2>1, ConstantsAssumption DEF FullReached, SetUp, Panels
    <3>2. PanelsSeeOpening
      BY <3>1 DEF RelayOff, GateOpens
    <3> QED  BY <3>1, <3>2 DEF PanelsSeeOpening
  <2>4. FullReached(k + 1)'
    BY <1>1, <1>2, <2>1, <2>2, <2>3 DEF FullReached, SetUp, PairKept, Panels
  <2>9. k \in 0 .. 16 /\ ~primed'
    BY <1>1, <1>3, <2>1, <2>2
  <2> QED  BY <1>1, <2>9, <2>2, <2>4, FullProceeds
<1>4. CASE primed
  <2>1. PICK k \in 0 .. 7 : /\ todo = SubSeq(RearmPlan, k + 1, 7)
                            /\ k < 4 => asked # known
                            /\ RearmReached(k)
    BY <1>4 DEF ScanInv, ProgressInv
  <2>2. todo' = SubSeq(RearmPlan, (k + 1) + 1, 7) /\ k = 4
    BY <1>1, <2>1, RearmStep
  <2>3. RearmReached(k + 1)'
    BY <1>1, <1>2, <2>1, <2>2 DEF RearmReached, Unaffected, SetUp, PairKept, Panels
  <2> QED  BY <1>1, <1>4, <2>2, <2>3, RearmProceeds
<1> QED  BY <1>3, <1>4

LEMMA RelayOnProgress == ScanInv /\ op = "start" /\ RelayOn => ProgressInv'
<1> SUFFICES ASSUME ScanInv, op = "start", RelayOn PROVE ProgressInv'
  OBVIOUS
<1>1. /\ Step("relayOn") /\ UNCHANGED <<op, asked, primed, known, halfArmed, commanded>>
      /\ asked \in Settings /\ relay' = "closed" /\ conn' = "good"
  BY DEF RelayOn, Step, doubts, ScanInv, ProgressInv
<1>2. PairKept
  BY GateKeepsPair DEF RelayOn, ScanInv, PanelInv
<1>3. CASE ~primed
  <2>1. PICK k \in 0 .. 17 : todo = SubSeq(FullPlan, k + 1, 19) /\ FullReached(k)
    BY <1>3 DEF ScanInv, ProgressInv
  <2>2. todo' = SubSeq(FullPlan, (k + 1) + 1, 19) /\ k \in {5, 16}
    BY <1>1, <2>1, FullStep
  <2>3. FullReached(k + 1)'
    BY <1>1, <1>2, <2>1, <2>2 DEF FullReached, SetUp, PairKept, Panels
  <2>9. k \in 0 .. 16 /\ ~primed'
    BY <1>1, <1>3, <2>1, <2>2
  <2> QED  BY <1>1, <2>9, <2>2, <2>3, FullProceeds
<1>4. CASE primed
  <2>1. PICK k \in 0 .. 7 : /\ todo = SubSeq(RearmPlan, k + 1, 7)
                            /\ k < 4 => asked # known
                            /\ RearmReached(k)
    BY <1>4 DEF ScanInv, ProgressInv
  <2>2. todo' = SubSeq(RearmPlan, (k + 1) + 1, 7) /\ k = 5
    BY <1>1, <2>1, RearmStep
  <2>3. RearmReached(k + 1)'
    BY <1>1, <1>2, <2>1, <2>2 DEF RearmReached, Unaffected, SetUp, PairKept, Panels
  <2> QED  BY <1>1, <1>4, <2>2, <2>3, RearmProceeds
<1> QED  BY <1>3, <1>4

\* Priming turns the double arm's end into the single one's.
LEMMA PrimeProgress == ScanInv /\ op = "start" /\ Prime => ProgressInv'
<1> SUFFICES ASSUME ScanInv, op = "start", Prime PROVE ProgressInv'
  OBVIOUS
<1>1. /\ Step("prime") /\ UNCHANGED <<op, asked, rig, known>> /\ primed'
      /\ asked \in Settings
  BY DEF Prime, Step, ScanInv, ProgressInv
<1>2. CASE ~primed
  <2>1. PICK k \in 0 .. 17 : todo = SubSeq(FullPlan, k + 1, 19) /\ FullReached(k)
    BY <1>2 DEF ScanInv, ProgressInv
  <2>2. todo' = SubSeq(FullPlan, (k + 1) + 1, 19) /\ k = 17
    BY <1>1, <2>1, FullStep
  <2>3. todo' = SubSeq(RearmPlan, 6 + 1, 7)
    BY <2>2, PlanEnds
  <2>4. RearmReached(6)'
    BY <1>1, <2>1, <2>2 DEF FullReached, RearmReached, Unaffected, SetUp, rig
  <2>5. 6 \in 0 .. 7 /\ ~(6 < 4)
    OBVIOUS
  <2> QED  BY <1>1, <2>3, <2>4, <2>5 DEF ProgressInv
<1>3. CASE primed
  <2>1. PICK k \in 0 .. 7 : todo = SubSeq(RearmPlan, k + 1, 7)
    BY <1>3 DEF ScanInv, ProgressInv
  <2> QED  BY <1>1, <2>1, RearmStep
<1> QED  BY <1>2, <1>3

LEMMA RecordProgress == ScanInv /\ op = "start" /\ Record => ProgressInv'
<1> SUFFICES ASSUME ScanInv, op = "start", Record PROVE ProgressInv'
  OBVIOUS
<1>1. /\ Step("record") /\ UNCHANGED <<op, asked, rig, primed, commanded>> /\ known' = asked
      /\ halfArmed' = (halfArmed /\ asked = known)
      /\ asked \in Settings
  BY DEF Record, Step, doubts, ScanInv, ProgressInv
<1>2. CASE ~primed
  <2>1. PICK k \in 0 .. 17 : todo = SubSeq(FullPlan, k + 1, 19)
    BY <1>2 DEF ScanInv, ProgressInv
  <2> QED  BY <1>1, <2>1, FullStep
<1>3. CASE primed
  <2>1. PICK k \in 0 .. 7 : /\ todo = SubSeq(RearmPlan, k + 1, 7)
                            /\ k < 4 => asked # known
                            /\ RearmReached(k)
    BY <1>3 DEF ScanInv, ProgressInv
  <2>2. todo' = SubSeq(RearmPlan, (k + 1) + 1, 7) /\ k = 6
    BY <1>1, <2>1, RearmStep
  <2>3. Unaffected' => Unaffected
    BY <1>1 DEF Unaffected
  <2>4. RearmReached(k + 1)'
    BY <1>1, <2>1, <2>2, <2>3 DEF RearmReached, SetUp, rig
  <2> QED  BY <1>1, <1>3, <2>2, <2>4, RearmProceeds
<1> QED  BY <1>2, <1>3
(* What a call of start_scanning has left when it begins.                   *)
LEMMA StartBegins ==
  ASSUME ScanInv, NEW s \in Settings, StartScanning(s)
  PROVE  ProgressInv'
<1>1. /\ op = "idle" /\ op' = "start" /\ asked' = s /\ todo' = StartSteps(s)
      /\ UNCHANGED <<primed, known, halfArmed, commanded, panel>>
  BY DEF StartScanning, Begin, rig, doubts
<1>2. CASE ~primed
  <2>1. todo' = FullPlan
    BY <1>1, <1>2 DEF StartSteps, FullPlan
  <2>2. todo' = SubSeq(FullPlan, 0 + 1, 19) /\ 0 \in 0 .. 17 /\ FullReached(0)'
    BY <2>1, PlanEnds DEF FullReached
  <2> QED  BY <1>1, <1>2, <2>2 DEF ProgressInv
<1>3. CASE primed /\ known # s
  <2>1. todo' = RearmPlan
    BY <1>1, <1>3 DEF StartSteps, RearmPlan
  <2>2. todo' = SubSeq(RearmPlan, 0 + 1, 7) /\ 0 \in 0 .. 7
    BY <2>1, PlanEnds
  <2>3. RearmReached(0)'
    BY <1>1, <1>3 DEF ScanInv, ReadyInv, RearmReached, Unaffected
  <2> QED  BY <1>1, <1>3, <2>2, <2>3 DEF ProgressInv
<1>4. CASE primed /\ known = s
  <2>1. todo' = <<"relayOff", "relayOn">> \o <<"record">>
    BY <1>1, <1>4 DEF StartSteps
  <2>2. todo' = SubSeq(RearmPlan, 4 + 1, 7) /\ 4 \in 0 .. 7 /\ ~(4 < 4)
    BY <2>1, PlanEnds
  <2>3. RearmReached(4)'
    BY <1>1, <1>4 DEF ScanInv, ReadyInv, RearmReached, Unaffected, SetUp, Panels
  <2> QED  BY <1>1, <1>4, <2>2, <2>3 DEF ProgressInv
<1> QED  BY <1>2, <1>3, <1>4

\* A step that raises changes the panels only by a command or by configuring them.
LEMMA HalfDoneKeepsPair ==
  ASSUME TypeOK, NEW name, HalfDone(name), name # "command"
  PROVE  /\ \A p \in Panels : panel[p].trusts => panel'[p].trusts
         /\ name # "configure" => PairKept
<1>1. CASE HubFails({"a"}, {"b", "relay"}) \/ HubFails({"b", "relay"}, {"a"})
  BY <1>1, HubFailsKeepsPair DEF PairKept
<1>2. CASE PanelsSeeOpening \/ GateStays \/ UNCHANGED panel
  BY <1>2, GateKeepsPair DEF PairKept
<1>3. CASE name = "configure" /\ PanelConfigured
  BY <1>3, ConfiguredPair
<1> QED  BY <1>1, <1>2, <1>3 DEF HalfDone, HalfReleased, HalfClosed, GateOpens, rig

(* A step of a start that raises leaves a primed pair ready for the         *)
(* settings on record, unless it was on the way to others.                  *)
LEMMA RaiseLeavesReady ==
  ASSUME ScanInv, StepRaises
  PROVE  ReadyInv'
<1> SUFFICES ASSUME primed', ~commanded', NEW p \in Panels
             PROVE  panel'[p].trusts /\ (~halfArmed' => panel'[p].cfg = known')
  BY DEF ReadyInv
<1>1. /\ todo # <<>> /\ HalfDone(Head(todo)) /\ UNCHANGED <<primed, known>>
      /\ primed /\ ~commanded /\ op # "single"
      /\ halfArmed' = (halfArmed \/ RearmedInPart)
  BY DEF StepRaises
<1>2. TypeOK /\ CallInv
  BY DEF ScanInv, PanelInv
<1>3. op \in {"start", "stop"}
  BY <1>1, <1>2 DEF TypeOK, CallInv
<1>4. CASE op = "stop"
  <2>1. Head(todo) \in {"relayOff", "showA", "showB", "reset"}
    <3>1. CASE todo = StopSteps
      BY <3>1, StopStepsAre
    <3>2. CASE todo # StopSteps
      BY <1>1, <1>2, <1>4, <3>2 DEF CallInv, StopRests
    <3> QED  BY <3>1, <3>2
  <2>2. PairKept
    BY <1>1, <1>2, <2>1, HalfDoneKeepsPair
  <2> QED  BY <1>1, <1>4, <2>2 DEF ScanInv, ReadyInv, PairKept
<1>5. CASE op = "start"
  <2>1. PICK k \in 0 .. 7 : /\ todo = SubSeq(RearmPlan, k + 1, 7)
                            /\ k < 4 => asked # known
                            /\ RearmReached(k)
    BY <1>1, <1>5 DEF ScanInv, ProgressInv
  <2>2. Head(todo) # "command"
    BY <1>1, <1>2, <1>5 DEF CallInv, ScanSteps
  <2>3. panel'[p].trusts
    BY <1>1, <1>2, <2>1, <2>2, HalfDoneKeepsPair DEF RearmReached
  <2>4. ASSUME ~halfArmed' PROVE panel'[p].cfg = known
    <3>1. ~halfArmed /\ ~RearmedInPart
      BY <1>1, <2>4
    <3>2. CASE asked # known
      BY <1>1, <1>5, <3>1, <3>2 DEF RearmedInPart
    <3>3. CASE asked = known
      <4>1. k \in 4 .. 7
        BY <2>1, <3>3
      <4>2. panel[p].cfg = known
        BY <1>1, <2>1, <3>1, <3>3, <4>1 DEF RearmReached, Unaffected, SetUp, Panels
      <4>3. Head(todo) \in {"relayOff", "relayOn", "record"}
        <5>1. k # 7
          BY <1>1, <2>1, SubSeqEmpty
        <5>2. k + 1 \in 1 .. Len(RearmPlan) /\ 7 \in (k + 1) .. Len(RearmPlan)
          BY <4>1, <5>1, RearmPlanIs
        <5>3. Head(todo) = RearmPlan[k + 1]
          BY <2>1, <5>2, RearmPlanIs, HeadTailOfSubSeq
        <5>4. k = 4 \/ k = 5 \/ k = 6
          BY <4>1, <5>1
        <5> QED  BY <5>3, <5>4, RearmPlanIs
      <4>4. PairKept
        BY <1>1, <1>2, <2>2, <4>3, HalfDoneKeepsPair
      <4> QED  BY <4>2, <4>4 DEF PairKept
    <3> QED  BY <3>2, <3>3
  <2> QED  BY <1>1, <2>3, <2>4
<1> QED  BY <1>3, <1>4, <1>5

\* While a step is left to make no start counts as returned.
LEMMA StepKeepsStarted ==
  ASSUME ScanInv, NEW name, Step(name)
  PROVE  StartedInv' /\ op # "idle" /\ op # "block"
<1>1. op # "idle" /\ op # "block"
  BY DEF ScanInv, PanelInv, CallInv, Step
<1>2. started = NoSetting /\ started' = started
  BY <1>1 DEF ScanInv, StartedInv, Step, result
<1> QED  BY <1>1, <1>2 DEF StartedInv

\* A call that touched neither the pair nor what is remembered of it.
LEMMA KeptReady ==
  ASSUME ScanInv, PairKept, UNCHANGED <<primed, known, halfArmed, commanded>>,
         op \in {"idle", "stop", "single"} \/ op' = "start"
  PROVE  ReadyInv'
BY DEF ScanInv, ReadyInv, PairKept

(* The steps of a stop and of a start.                                      *)
LEMMA StepScanInv ==
  ASSUME ScanInv,
         ShowA \/ ShowB \/ Configure \/ Reset \/ RelayOff \/ RelayOn \/ Prime \/ Record
  PROVE  ProgressInv' /\ ReadyInv' /\ StartedInv'
<1>1. PICK name \in ScanSteps : Step(name) /\ op' = op
  BY DEF ShowA, ShowB, Configure, Reset, RelayOff, RelayOn, Prime, Record, Step, Steps, ScanSteps
<1>2. StartedInv' /\ op \notin {"idle", "block"}
  BY <1>1, StepKeepsStarted
<1>3. op # "single"
  BY <1>1 DEF ScanInv, PanelInv, CallInv, Step, ScanSteps
<1>4. ProgressInv'
  <2>1. CASE op = "start"
    BY <2>1, ShowAProgress, ShowBProgress, ConfigureProgress, ResetProgress, RelayOffProgress,
       RelayOnProgress, PrimeProgress, RecordProgress
  <2>2. CASE op # "start"
    BY <1>1, <2>2 DEF ProgressInv
  <2> QED  BY <2>1, <2>2
<1>5. ReadyInv'
  <2>1. CASE op = "start"
    BY <1>1, <2>1 DEF ReadyInv
  <2>2. CASE op = "stop"
    <3>1. ShowA \/ ShowB \/ Reset \/ RelayOff
      BY <2>2, StopStepsProceed DEF ScanInv, PanelInv, ShowA, ShowB, Configure, Reset, RelayOff,
                                    RelayOn, Prime, Record
    <3>2. UNCHANGED <<primed, known, halfArmed, commanded>>
      BY <3>1 DEF ShowA, ShowB, Reset, RelayOff, doubts
    <3>3. PairKept
      BY <3>1, HubKeepsPair, GateKeepsPair
         DEF ShowA, ShowB, Reset, RelayOff, GateOpens, rig, ScanInv, PanelInv
    <3> QED  BY <2>2, <3>2, <3>3, KeptReady
  <2>3. op \in {"start", "stop"}
    BY <1>2, <1>3 DEF ScanInv, PanelInv, TypeOK
  <2> QED  BY <2>1, <2>2, <2>3
<1> QED  BY <1>2, <1>4, <1>5
LEMMA InitScanInv == Init => ScanInv
BY InitPanelInv DEF Init, ScanInv, ProgressInv, ReadyInv, StartedInv

LEMMA NextScanInv == ScanInv /\ [Next]_vars => ScanInv'
<1> SUFFICES ASSUME ScanInv, [Next]_vars PROVE ProgressInv' /\ ReadyInv' /\ StartedInv'
  BY NextPanelInv DEF ScanInv
<1> USE DEF call, test, rig, result, doubts
<1>0. TypeOK /\ CallInv /\ ReadyInv /\ StartedInv
  BY DEF ScanInv, PanelInv
<1>1. ASSUME NEW s \in Settings, StartScanning(s)
      PROVE  ProgressInv' /\ ReadyInv' /\ StartedInv'
  BY <1>1, StartBegins DEF StartScanning, Begin, ReadyInv, StartedInv
<1>2. CASE StopScanning
  BY <1>0, <1>2 DEF StopScanning, Begin, ProgressInv, ReadyInv, StartedInv
<1>3. CASE ShowA \/ ShowB \/ Configure \/ Reset \/ RelayOff \/ RelayOn \/ Prime \/ Record
  BY <1>3, StepScanInv
<1>4. CASE StepRaises
  <2>1. op' = "idle" /\ started' = started /\ todo # <<>>
    BY <1>4 DEF StepRaises
  <2>2. started = NoSetting
    BY <1>0, <2>1 DEF CallInv, StartedInv
  <2> QED  BY <1>4, <2>1, <2>2, RaiseLeavesReady DEF ProgressInv, StartedInv
<1>5. CASE Return
  <2>1. /\ op \in {"start", "stop", "single"} /\ todo = <<>> /\ op' = "idle"
        /\ started' = IF op = "start" THEN asked ELSE NoSetting
        /\ UNCHANGED <<primed, known, halfArmed, commanded, panel, relay>>
    BY <1>5 DEF Return
  <2>2. CASE op = "start"
    <3>1. primed => RearmReached(7)
      <4> SUFFICES ASSUME primed PROVE RearmReached(7)
        OBVIOUS
      <4>1. PICK k \in 0 .. 7 : todo = SubSeq(RearmPlan, k + 1, 7) /\ RearmReached(k)
        BY <2>2 DEF ScanInv, ProgressInv
      <4>2. \A i \in 1 .. 7 : RearmPlan[i] \in ScanSteps
        BY RearmPlanIs, ElementOfSeq
      <4>3. k + 1 \in Int /\ \A i \in (k + 1) .. 7 : RearmPlan[i] \in ScanSteps
        BY <4>2
      <4>4. Len(todo) = IF k + 1 <= 7 THEN 7 - (k + 1) + 1 ELSE 0
        BY <4>1, <4>3, SubSeqProperties
      <4>5. Len(todo) = 0
        BY <2>1
      <4>6. k = 7
        BY <4>4, <4>5
      <4> QED  BY <4>1, <4>6
    <3>2. primed
      <4> SUFFICES ASSUME ~primed PROVE FALSE
        OBVIOUS
      <4>1. PICK k \in 0 .. 17 : todo = SubSeq(FullPlan, k + 1, 19)
        BY <2>2 DEF ScanInv, ProgressInv
      <4>2. \A i \in 1 .. 19 : FullPlan[i] \in ScanSteps
        BY FullPlanIs, ElementOfSeq
      <4>3. k + 1 \in Int /\ \A i \in (k + 1) .. 19 : FullPlan[i] \in ScanSteps
        BY <4>2
      <4>4. Len(todo) = IF k + 1 <= 19 THEN 19 - (k + 1) + 1 ELSE 0
        BY <4>1, <4>3, SubSeqProperties
      <4>5. Len(todo) = 0
        BY <2>1
      <4> QED  BY <4>4, <4>5
    <3>3. /\ known = asked /\ relay = "closed"
          /\ ~commanded => \A p \in Panels : panel[p].trusts
          /\ ~halfArmed /\ ~commanded => \A p \in Panels : panel[p].cfg = asked
      BY <3>1, <3>2 DEF RearmReached, Unaffected, SetUp, Panels
    <3> QED  BY <2>1, <2>2, <3>3 DEF ProgressInv, ReadyInv, StartedInv
  <2>3. CASE op # "start"
    BY <1>0, <2>1, <2>3 DEF ProgressInv, ReadyInv, StartedInv
  <2> QED  BY <2>2, <2>3
<1>6. ASSUME NEW p \in Panels, EnterBlock(p)
      PROVE  ProgressInv' /\ ReadyInv' /\ StartedInv'
  BY <1>6 DEF EnterBlock, Begin, ProgressInv, ReadyInv, StartedInv
<1>7. ASSUME NEW p \in Panels, EnterRaises(p)
      PROVE  ProgressInv' /\ ReadyInv' /\ StartedInv'
  <2>1. op = "idle" /\ op' = "idle" /\ started' = NoSetting /\ UNCHANGED <<known, halfArmed, commanded>>
    BY <1>7 DEF EnterRaises
  <2>2. UNCHANGED <<primed, panel>> \/ primed' = FALSE
    BY <1>7 DEF EnterRaises
  <2> QED  BY <1>0, <2>1, <2>2 DEF ProgressInv, ReadyInv, StartedInv
<1>8. CASE BlockCommand
  BY <1>0, <1>8 DEF BlockCommand, ProgressInv, ReadyInv, StartedInv
<1>9. CASE ExitBlock
  BY <1>0, <1>9 DEF ExitBlock, Deprime, ProgressInv, ReadyInv, StartedInv
<1>10. ASSUME NEW d \in BOOLEAN, NEW t \in Panels \cup {NoTarget}, SetTarget(d, t)
       PROVE  ProgressInv' /\ ReadyInv' /\ StartedInv'
  BY <1>0, <1>10 DEF SetTarget, ProgressInv, ReadyInv, StartedInv
<1>11. CASE SingleCommand
  <2>1. /\ op = "idle" /\ op' = "single" /\ started' = NoSetting
        /\ UNCHANGED <<halfArmed, commanded>>
    BY <1>11 DEF SingleCommand, Begin
  <2>2. UNCHANGED <<primed, known, panel>> \/ ~primed'
    BY <1>11 DEF SingleCommand, Deprime
  <2> QED  BY <1>0, <2>1, <2>2 DEF ProgressInv, ReadyInv, StartedInv
<1>12. CASE Command
  <2>1. Step("command") /\ op' = op /\ primed' = primed
        /\ commanded' = (commanded \/ primed)
    BY <1>12 DEF Command, Step
  <2>2. op = "start" => FALSE
    BY <1>0, <2>1, StartStep
  <2> QED  BY <2>1, <2>2, StepKeepsStarted DEF ProgressInv, ReadyInv
<1>13. CASE Restart
  BY <1>13 DEF Restart, ProgressInv, ReadyInv, StartedInv
<1>14. CASE UNCHANGED vars
  BY <1>0, <1>14 DEF vars, ScanInv, ProgressInv, ReadyInv, StartedInv, FullReached,
                     RearmReached, Unaffected, SetUp, Shown
<1> QED
  BY <1>1, <1>2, <1>3, <1>4, <1>5, <1>6, <1>7, <1>8, <1>9, <1>10, <1>11, <1>12, <1>13, <1>14
     DEF Next

(* A start that follows settings on record may do only the last two steps   *)
(* of the plan: a primed pair whose panels were left alone is ready for it. *)
THEOREM ScanInvariant == Spec => []ScanInv
BY InitScanInv, NextScanInv, PTL DEF Spec

(* After a start that returned both panels step at the setting asked for.   *)
THEOREM StartedStep == Spec => []StartedMeansStepping
<1>1. ScanInv => StartedMeansStepping
  <2> SUFFICES ASSUME ScanInv, started # NoSetting, ~halfArmed, ~commanded, NEW p \in Panels
               PROVE  Stepping(p, started)
    BY DEF StartedMeansStepping
  <2>1. relay = "closed" /\ panel[p].cfg = started /\ panel[p].trusts = TRUE
    BY DEF ScanInv, PanelInv, TypeOK, StartedInv
  <2> QED  BY <2>1 DEF Stepping, ScanInv, PanelInv, TypeOK
<1> QED  BY <1>1, ScanInvariant, PTL
=============================================================================
