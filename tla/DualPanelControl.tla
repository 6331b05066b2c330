-------------------------- MODULE DualPanelControl --------------------------
(***************************************************************************)
(* The two LED panels, the hub that shows one of them at a time and the     *)
(* relay that gates both (engine/dual_panel_control.py).  Scanning and      *)
(* stopping are sequences of steps, each of which may raise and so end the  *)
(* call; todo is what is left of the call in progress.  The app makes one   *)
(* call at a time: the pages' calls run on the GUI thread, which waits for   *)
(* the preview and run threads, and _dual_panel_lock orders what is left.   *)
(*                                                                         *)
(* The module keeps its knowledge of the hardware in variables of the       *)
(* process: _dual_panel_primed, _single_panel_target and the relay's open   *)
(* serial connection.  The hardware outlives the process.                   *)
(***************************************************************************)
EXTENDS Naturals, Sequences

CONSTANTS
  Settings,   \* switch times (with the scan direction, which is compared, never sent)
  NoSetting,  \* None; or, of a panel, not set up for triggered scanning
  NoTarget    \* single-panel commands leave the hub alone

ASSUME ConstantsAssumption == NoSetting \notin Settings

Panels == {"a", "b"}
Ports  == Panels \cup {"relay"}

ASSUME TargetAssumption == NoTarget \notin Panels

Steps == {"showA", "showB", "configure", "reset", "relayOff", "relayOn", "prime", "record",
          "command"}

VARIABLES
  dual,       \* the test in progress uses both panels (dual_panel_config is set)
  op,         \* the call in progress
  asked,      \* the setting start_scanning was called with
  todo,       \* the steps it has left
  primed,     \* _dual_panel_primed["primed"]
  known,      \* the switch time and direction of _dual_panel_primed
  conn,       \* _relay_connection["conn"]; "stale" if its port lost power
  target,     \* _single_panel_target["stream"]
  exposed,    \* _single_panel_target["exposed"]
  ports,      \* the hub's powered ports
  panel,      \* what each panel is set up for, and whether it trusts the relay
  relay,      \* the gate
  started,    \* history: the last call was a start_scanning of it that returned
  stopped,    \* history: the last call was a stop_scanning that returned
  halfArmed,  \* history: re-arming a primed pair failed after configuring a panel
  commanded,  \* history: a primed pair was sent a single-panel command
  missed,     \* history: the last switch to the target panel failed
  orphaned    \* history: the relay was left closed with no connection to open it

call    == <<op, asked, todo>>
test    == <<dual, target>>
rig     == <<ports, panel, relay>>
result  == <<started, stopped>>
doubts  == <<halfArmed, commanded, missed, orphaned>>
vars    == <<call, test, primed, known, conn, exposed, rig, result, doubts>>

TypeOK ==
  /\ dual \in BOOLEAN
  /\ op \in {"idle", "start", "stop", "block", "single"}
  /\ asked \in Settings \cup {NoSetting}
  /\ todo \in Seq(Steps)
  /\ primed \in BOOLEAN /\ exposed \in BOOLEAN
  /\ known \in Settings \cup {NoSetting}
  /\ conn \in {"none", "good", "stale"}
  /\ target \in Panels \cup {NoTarget}
  /\ ports \in SUBSET Ports
  /\ panel \in [Panels -> [cfg : Settings \cup {NoSetting}, trusts : BOOLEAN]]
  /\ relay \in {"open", "closed"}
  /\ started \in Settings \cup {NoSetting}
  /\ stopped \in BOOLEAN /\ halfArmed \in BOOLEAN /\ commanded \in BOOLEAN
  /\ missed \in BOOLEAN /\ orphaned \in BOOLEAN

\* A fresh process; the hub keeps its ports and the panels their set-up.
Init ==
  /\ dual = FALSE /\ target = NoTarget /\ exposed = FALSE
  /\ op = "idle" /\ asked = NoSetting /\ todo = <<>>
  /\ primed = FALSE /\ known = NoSetting /\ conn = "none"
  /\ ports \in {{"a", "relay"}, {"b", "relay"}, Ports}
  /\ panel = [p \in Panels |-> [cfg |-> NoSetting, trusts |-> FALSE]]
  /\ relay = "open"
  /\ started = NoSetting /\ stopped = FALSE
  /\ halfArmed = FALSE /\ commanded = FALSE /\ missed = FALSE /\ orphaned = FALSE

-----------------------------------------------------------------------------
(* The rig.  A panel steps while the relay is closed, if it is set up and   *)
(* has seen one full close and open of the relay since the last --stop.     *)

Stepping(p, s) == relay = "closed" /\ panel[p] = [cfg |-> s, trusts |-> TRUE]

\* The gate opens: a set-up panel has now seen it close and open.
PanelsSeeOpening ==
  panel' = [p \in Panels |->
              IF relay = "closed" /\ panel[p].cfg # NoSetting
              THEN [cfg |-> panel[p].cfg, trusts |-> TRUE] ELSE panel[p]]

GateOpens == relay' = "open" /\ PanelsSeeOpening

GateStays == UNCHANGED <<relay, panel>>

(* The hub's powered ports become P.  Cutting the relay's power kills the   *)
(* handle of an open connection, and the gate may drop.                     *)
HubShows(P) ==
  /\ ports' = P
  /\ IF "relay" \in ports \ P
     THEN /\ conn' = IF conn = "good" THEN "stale" ELSE conn
          /\ GateStays \/ GateOpens
     ELSE GateStays /\ UNCHANGED conn

(* The hub cannot be reached, or enable_ports raises, having tried every    *)
(* port; or disable_ports does, at the first port that fails, the relay's   *)
(* last.  Nothing is undone.                                                *)
HubFails(on, off) ==
  \/ \E S \in SUBSET on : HubShows(ports \cup S)
  \/ \E D \in {{}, off \ {"relay"}, off} : HubShows((ports \cup on) \ D)

\* LEDPanel reaches the panel the hub shows, one of the two when it shows both.
Shown == ports \cap Panels

(* --stop, sent alone and by every LED mode, makes a panel distrust the     *)
(* relay; the mode may also undo what triggered scanning was set up with.   *)
BareCommand ==
  \E p \in Shown : \E cfg \in {panel[p].cfg, NoSetting} :
     /\ panel' = [panel EXCEPT ![p] = [cfg |-> cfg, trusts |-> FALSE]]
     /\ UNCHANGED relay

-----------------------------------------------------------------------------
(* start_scanning and stop_scanning, with dual_panel_config set.            *)

OnBothPanels(action) == <<"showA", action, "showB", action>>

ArmOnce == OnBothPanels("configure") \o <<"relayOff", "relayOn">>

ResetOnly == OnBothPanels("reset")  \* mutant: the relay is not released

StopSteps == <<"relayOff">> \o OnBothPanels("reset")

SingleArm == ArmOnce \o <<"prime">>  \* mutant

DoubleArm == ArmOnce \o StopSteps \o ArmOnce \o <<"prime">>

StartSteps(s) ==
  (IF ~primed THEN DoubleArm
   ELSE IF known = s THEN <<"relayOff", "relayOn">>
   ELSE ArmOnce) \o <<"record">>

Begin(name, s, steps) ==
  /\ op = "idle"
  /\ op' = name /\ asked' = s /\ todo' = steps
  /\ started' = NoSetting /\ stopped' = FALSE

StartScanning(s) ==
  /\ dual
  /\ Begin("start", s, StartSteps(s))
  /\ exposed' = FALSE
  /\ UNCHANGED <<test, primed, known, conn, rig, doubts>>

StopScanning ==
  /\ dual
  /\ Begin("stop", NoSetting, StopSteps)
  /\ exposed' = FALSE
  /\ UNCHANGED <<test, primed, known, conn, rig, doubts>>

\* The next step of the call in progress is name, and it succeeds.
Step(name) ==
  /\ todo # <<>> /\ Head(todo) = name
  /\ todo' = Tail(todo)
  /\ UNCHANGED <<op, asked, test, exposed, result>>

ShowA ==
  /\ Step("showA") /\ HubShows({"a"})
  /\ UNCHANGED <<primed, known, doubts>>

ShowB ==
  /\ Step("showB") /\ HubShows({"b", "relay"})
  /\ UNCHANGED <<primed, known, doubts>>

\* Mode and trigger for good, speed as asked; never a --stop.
PanelConfigured ==
  \E p \in Shown :
     panel' = [panel EXCEPT ![p] = [cfg |-> asked, trusts |-> panel[p].trusts]]

Configure ==
  /\ Step("configure")
  /\ PanelConfigured
  /\ UNCHANGED <<ports, relay, primed, known, conn, doubts>>

\* --reset moves a panel to its first LED and changes nothing else.
Reset ==
  /\ Step("reset")
  /\ UNCHANGED <<rig, primed, known, conn, doubts>>

\* No connection, nothing to do: whatever the gate was left in stays.
RelayOff ==
  /\ Step("relayOff")
  /\ \/ conn = "none" /\ GateStays /\ UNCHANGED conn
     \/ conn = "good" /\ GateOpens /\ conn' = "none"
  /\ UNCHANGED <<ports, primed, known, doubts>>

\* OFF before ON: a gate some dead process left closed opens first.
RelayOn ==
  /\ Step("relayOn")
  /\ "relay" \in ports
  /\ PanelsSeeOpening
  /\ relay' = "closed" /\ conn' = "good" /\ orphaned' = FALSE
  /\ UNCHANGED <<ports, primed, known, halfArmed, commanded, missed>>

Prime ==
  /\ Step("prime")
  /\ primed' = TRUE /\ halfArmed' = FALSE /\ commanded' = FALSE
  /\ UNCHANGED <<rig, known, conn, missed, orphaned>>

Record ==
  /\ Step("record")
  /\ known' = asked
  /\ halfArmed' = (halfArmed /\ asked = known)
  /\ UNCHANGED <<rig, primed, conn, commanded, missed, orphaned>>

(* _relay_off writes OFF and closes the connection; either may raise.  It    *)
(* has nothing to do, and nothing that raises, without a connection.        *)
HalfReleased ==
  /\ \/ conn = "good" /\ (GateStays \/ GateOpens) /\ conn' \in {"good", "stale"}
     \/ conn = "stale" /\ GateStays /\ UNCHANGED conn
  /\ UNCHANGED orphaned

(* _relay_on: the port cannot be opened or the OFF fails; the ON fails, with *)
(* or without effect; or the keepalive thread cannot be started.            *)
HalfClosed ==
  \/ (GateStays \/ ("relay" \in ports /\ GateOpens)) /\ UNCHANGED <<conn, orphaned>>
  \/ /\ "relay" \in ports
     /\ PanelsSeeOpening /\ relay' = "closed"
     /\ \/ UNCHANGED conn /\ orphaned' = TRUE
        \/ conn' = "good" /\ orphaned' = FALSE

(* What a step that raises leaves behind: the hub half switched, the panel  *)
(* configured or not, the gate opened or not.                               *)
HalfDone(name) ==
  \/ name = "showA" /\ HubFails({"a"}, {"b", "relay"}) /\ UNCHANGED orphaned
  \/ name = "showB" /\ HubFails({"b", "relay"}, {"a"}) /\ UNCHANGED orphaned
  \/ /\ name = "configure"
     /\ PanelConfigured \/ UNCHANGED panel
     /\ UNCHANGED <<ports, relay, conn, orphaned>>
  \/ name = "relayOff" /\ HalfReleased /\ UNCHANGED ports
  \/ name = "relayOn" /\ HalfClosed /\ UNCHANGED ports
  \/ name = "command" /\ (BareCommand \/ GateStays) /\ UNCHANGED <<ports, conn, orphaned>>
  \/ name = "reset" /\ UNCHANGED <<rig, conn, orphaned>>

\* A primed pair is being re-armed, and some panel is no longer as known says.
RearmedInPart ==
  op = "start" /\ primed /\ asked # known /\ \E p \in Panels : panel'[p].cfg # known

\* The exception ends the call; primed and known stay as they were.
StepRaises ==
  /\ todo # <<>> /\ HalfDone(Head(todo))
  /\ op' = "idle" /\ asked' = NoSetting /\ todo' = <<>>
  /\ halfArmed' = (halfArmed \/ RearmedInPart)
  /\ commanded' = (commanded \/ (primed /\ op = "single"))
  /\ UNCHANGED <<test, primed, known, exposed, result, missed>>

Return ==
  /\ op \in {"start", "stop", "single"} /\ todo = <<>>
  /\ op' = "idle" /\ asked' = NoSetting
  /\ started' = IF op = "start" THEN asked ELSE NoSetting
  /\ stopped' = (op = "stop")
  /\ UNCHANGED <<todo, test, primed, known, conn, exposed, rig, doubts>>

-----------------------------------------------------------------------------
(* switched_to_stream_panel: Calibration and ROI Select.                    *)

StaysPrimed == UNCHANGED <<primed, known>>  \* mutant

Deprime == primed' = FALSE /\ known' = NoSetting

EnterBlock(p) ==
  /\ dual
  /\ Begin("block", NoSetting, <<>>)
  /\ HubShows({p}) /\ exposed' = FALSE
  /\ UNCHANGED <<test, primed, known, doubts>>

\* De-primes, unless it was the connection to the hub that failed.
EnterRaises(p) ==
  /\ dual /\ op = "idle"
  /\ \/ UNCHANGED <<conn, rig, primed>>
     \/ HubFails({p}, Ports \ {p}) /\ primed' = FALSE
  /\ exposed' = FALSE /\ started' = NoSetting /\ stopped' = FALSE
  /\ UNCHANGED <<call, test, known, doubts>>

BlockCommand ==
  /\ op = "block" /\ BareCommand
  /\ UNCHANGED <<call, test, primed, known, conn, exposed, ports, result, doubts>>

ExitBlock ==
  /\ op = "block"
  /\ op' = "idle" /\ Deprime
  /\ UNCHANGED <<asked, todo, test, conn, exposed, rig, result, doubts>>

-----------------------------------------------------------------------------
(* Single-panel tests (dual_panel_config is None) on the two-panel rig.     *)

\* Mutants: the new target inherits exposed; exposed takes the stream's name.
SetTargetKeepsExposed(d, t) ==
  /\ op = "idle" /\ (d => t = NoTarget)
  /\ dual' = d /\ target' = t
  /\ UNCHANGED <<exposed, call, primed, known, conn, rig, result, doubts>>

SetTargetMisplaced(d, t) ==
  /\ op = "idle" /\ (d => t = NoTarget)
  /\ dual' = d /\ exposed' = t
  /\ UNCHANGED <<target, call, primed, known, conn, rig, result, doubts>>

\* _apply_single_panel_target: a test with both panels has no target.
SetTarget(d, t) ==
  /\ op = "idle" /\ (d => t = NoTarget)
  /\ dual' = d /\ target' = t /\ exposed' = FALSE
  /\ UNCHANGED <<call, primed, known, conn, rig, result, doubts>>

(* _expose_single_panel_target, then the command itself (todo).  The switch *)
(* enters and leaves a block, so it de-primes; a failed one is not retried. *)
SingleCommand ==
  /\ ~dual
  /\ Begin("single", NoSetting, <<"command">>)
  /\ exposed' = (exposed \/ target # NoTarget)
  /\ \/ /\ target = NoTarget \/ exposed
        /\ UNCHANGED <<primed, known, conn, rig, missed>>
     \/ /\ target # NoTarget /\ ~exposed
        /\ HubShows({target})
        /\ Deprime /\ missed' = FALSE
     \/ /\ target # NoTarget /\ ~exposed
        /\ \/ UNCHANGED <<conn, rig, primed>>
           \/ HubFails({target}, Ports \ {target}) /\ primed' = FALSE
        /\ missed' = TRUE /\ UNCHANGED known
  /\ UNCHANGED <<test, halfArmed, commanded, orphaned>>

Command ==
  /\ Step("command") /\ BareCommand
  /\ commanded' = (commanded \/ primed)
  /\ UNCHANGED <<ports, primed, known, conn, halfArmed, missed, orphaned>>

-----------------------------------------------------------------------------
(* The process that talks to the hardware dies and a fresh one takes over:  *)
(* the panel server, respawned by the next call, or the whole app.          *)
Restart ==
  /\ op' = "idle" /\ asked' = NoSetting /\ todo' = <<>>
  /\ primed' = FALSE /\ known' = NoSetting /\ conn' = "none"
  /\ \/ UNCHANGED <<test, exposed>>
     \/ dual' = FALSE /\ target' = NoTarget /\ exposed' = FALSE
  /\ GateStays \/ GateOpens
  /\ orphaned' = (relay' = "closed")
  /\ started' = NoSetting /\ stopped' = FALSE
  /\ UNCHANGED <<ports, halfArmed, commanded, missed>>

Next ==
  \/ \E s \in Settings : StartScanning(s)
  \/ StopScanning
  \/ ShowA \/ ShowB \/ Configure \/ Reset \/ RelayOff \/ RelayOn \/ Prime \/ Record
  \/ StepRaises \/ Return
  \/ \E p \in Panels : EnterBlock(p) \/ EnterRaises(p)
  \/ BlockCommand \/ ExitBlock
  \/ \E d \in BOOLEAN, t \in Panels \cup {NoTarget} : SetTarget(d, t)
  \/ SingleCommand \/ Command
  \/ Restart

Spec == Init /\ [][Next]_vars

-----------------------------------------------------------------------------
(* Properties.                                                              *)

(* After start_scanning has returned, and until the next call, both panels  *)
(* step at the setting it was asked for, although most starts configure     *)
(* nothing and trust the primed flag instead, and although stops and starts *)
(* of a primed pair raise half way.  It is not so when the pair changed     *)
(* behind that flag: a re-arming that configured a panel and failed         *)
(* (finding NoPanelAtAnotherSpeed), or a single-panel command without a     *)
(* target.                                                                  *)
StartedMeansStepping ==
  started # NoSetting /\ ~halfArmed /\ ~commanded =>
     \A p \in Panels : Stepping(p, started)

(* After stop_scanning has returned the relay is open and both panels are   *)
(* frozen, whatever failed before: a start that raised half way, a half     *)
(* switched hub.  A gate that a dead process, or an ON that raised, left    *)
(* closed without a connection is out of its reach.                         *)
StoppedMeansFrozen == stopped /\ ~orphaned => relay = "open"

(* A single-panel test's commands reach the panel the test looks at and no  *)
(* other, although the hub is switched once and every other caller moves it *)
(* too; unless the switch failed, which is warned about.                    *)
SingleCommandsReachTarget ==
  exposed /\ target # NoTarget /\ ~missed => Shown = {target}

(* Once a single-panel test has switched the hub, the pair is not primed:   *)
(* what its commands undo is armed again in full by the next start.         *)
SwitchedMeansNotPrimed == exposed /\ ~missed => ~primed

(* A start with the settings of the last one may skip configuring the       *)
(* panels, because they still are: one that returned leaves no panel set up *)
(* for another switch time.                                                 *)
NoPanelAtAnotherSpeed ==
  started # NoSetting => \A p \in Panels : panel[p].cfg \in {started, NoSetting}
=============================================================================
