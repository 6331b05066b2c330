------------------------------ MODULE GmslSync ------------------------------
(***************************************************************************)
(* Hardware sync of two cameras over the deserializer (engine/gmsl_sync.py): *)
(* a kernel control of each camera's node and the signal generator (TSC)    *)
(* that pulses them.  Both keep their state when the app's process dies, and *)
(* the generator cannot be queried.  Calls run on the GUI thread, one at a   *)
(* time, as sequences of v4l2-ctl calls and ioctls each of which may fail;   *)
(* the process may be killed between any two of them.                       *)
(***************************************************************************)
EXTENDS Naturals, FiniteSets

CONSTANTS
  Nodes,      \* the /dev nodes that carry the control
  Syncs,      \* GmslTscSync objects; a returned one stands for a fresh one
  Unknown,    \* None: a value that could not be read
  NotApplied  \* None: nothing to restore

\* camera_sync_mode: Default, Master, External Sync.
Modes   == 0..2
Default == 0
Value   == 2

ASSUME NodesAssumption   == IsFiniteSet(Nodes) /\ Nodes # {}
ASSUME UnknownAssumption == Unknown \notin Modes

Values == Modes \cup {Unknown}
Found  == [Nodes -> Values]

ASSUME NotAppliedAssumption == NotApplied \notin Found

VARIABLES
  up,        \* the process runs
  mode,      \* the control of each node
  pulse,     \* who started the trigger that is pulsing, or "off"
  engaged,   \* _ENGAGED
  asFound,   \* _as_found of each sync
  running,   \* the syncs with _tsc_running
  op,        \* the call in progress, with "exit" for disengage_all_engaged
  sync,      \* the sync it is about
  pc,        \* where it is
  left,      \* the nodes its loop has left
  found,     \* as_found of apply_sync_mode, or what disengage took from _as_found
  written,   \* written of apply_sync_mode
  last,      \* history: what the last call returned, until something touches the rig
  origin,    \* history: the mode of a node before this process first wrote Value to it
  doubt,     \* history: nodes a failed command may have left in external sync
  suspect,   \* history: nodes of which a command ever failed in this process
  stray,     \* history: the failed command that may have left the app's trigger pulsing
  handKept   \* history: a trigger started by hand, with no run engaged or begun since

rig    == <<mode, pulse>>
memory == <<engaged, asFound, running>>
frame  == <<op, sync, pc, left, found, written>>
doubts == <<doubt, suspect>>
hist   == <<last, origin, doubts, stray, handKept>>
vars   == <<up, rig, memory, frame, hist>>

Outcomes == {"none", "engaged", "failed", "free"}

TypeOK ==
  /\ up \in BOOLEAN
  /\ mode \in [Nodes -> Modes]
  /\ pulse \in {"off", "app", "hand", "killed"}
  /\ engaged \subseteq Syncs /\ running \subseteq Syncs
  /\ asFound \in [Syncs -> Found \cup {NotApplied}]
  /\ op \in {"idle", "engage", "disengage", "free", "exit"}
  /\ sync \in Syncs
  /\ pc \in {"idle", "examine", "write", "trigger", "undo", "reset", "stop"}
  /\ left \subseteq Nodes /\ written \subseteq Nodes
  /\ found \in Found
  /\ last \in Outcomes
  /\ origin \in Found
  /\ doubt \subseteq Nodes /\ suspect \subseteq Nodes
  /\ stray \in {"none", "start", "stop"} /\ handKept \in BOOLEAN

Nothing == [n \in Nodes |-> Unknown]

\* A fresh process.  The nodes and the trigger are as anything may have left them.
Init ==
  /\ up = TRUE
  /\ mode \in [Nodes -> Modes]
  /\ pulse \in {"off", "hand", "killed"}
  /\ engaged = {} /\ running = {} /\ asFound = [s \in Syncs |-> NotApplied]
  /\ op = "idle" /\ sync \in Syncs /\ pc = "idle" /\ left = {} /\ written = {}
  /\ found = Nothing /\ origin = Nothing
  /\ last = "none" /\ doubt = {} /\ suspect = {} /\ stray = "none" /\ handKept = FALSE

-----------------------------------------------------------------------------
(* Calls and returns.                                                       *)

Idle == up /\ op = "idle"

Call(o, s, p) ==
  /\ op' = o /\ sync' = s /\ pc' = p
  /\ left' = Nodes /\ written' = {}

Goto(p, nodes) == pc' = p /\ left' = nodes /\ UNCHANGED <<op, sync>>

\* An exit goes on with the next engaged sync.
Return(outcome) ==
  /\ op' = IF op = "exit" THEN "exit" ELSE "idle"
  /\ pc' = "idle" /\ left' = {} /\ found' = Nothing /\ written' = {}
  /\ last' = outcome
  /\ UNCHANGED sync

-----------------------------------------------------------------------------
(* engage().                                                                *)

CallEngage(s) ==
  /\ Idle /\ s \notin engaged
  /\ Call("engage", s, "examine")
  /\ found' = Nothing /\ last' = "none" /\ handKept' = FALSE
  /\ UNCHANGED <<up, rig, memory, origin, doubts, stray>>

\* Mutated form: as found, leftover or not.
AsFoundAlways(n) == mode[n]

(* What apply_sync_mode notes to restore: a node already in external sync   *)
(* is a killed run's leftover, and goes back to the driver's default.       *)
ToRestore(n) == IF mode[n] = Value THEN Default ELSE mode[n]

Examine(n) ==
  /\ pc = "examine" /\ n \in left
  /\ \E v \in {ToRestore(n), Unknown} : found' = [found EXCEPT ![n] = v]
  /\ IF left = {n} THEN Goto("write", Nodes) ELSE Goto("examine", left \ {n})
  /\ UNCHANGED <<up, rig, memory, written, hist>>

\* The nodes cannot be placed, or the driver's range excludes the value.
ExamineRaises ==
  /\ pc = "examine"
  /\ Return("failed")
  /\ UNCHANGED <<up, rig, memory, origin, doubts, stray, handKept>>

\* The first write of this process notes what it found.
Touch(n) == origin' = [origin EXCEPT ![n] = IF @ = Unknown THEN mode[n] ELSE @]

Doubt(n)   == doubt' = doubt \cup {n} /\ suspect' = suspect \cup {n}
Settled(n) == doubt' = doubt \ {n} /\ UNCHANGED suspect

\* Mutated form: no reading back.
WriteUnread(n) ==
  /\ pc = "write" /\ n \in left
  /\ \E m \in {mode[n], Value} : mode' = [mode EXCEPT ![n] = m]
  /\ written' = written \cup {n} /\ Settled(n)
  /\ Touch(n)
  /\ IF left = {n} THEN Goto("trigger", {}) ELSE Goto("write", left \ {n})
  /\ UNCHANGED <<up, pulse, memory, found, last, stray, handKept>>

\* Returncode 0 and the right value on reading back.
WriteConfirmed(n) ==
  /\ pc = "write" /\ n \in left
  /\ mode' = [mode EXCEPT ![n] = Value]
  /\ written' = written \cup {n} /\ Settled(n)
  /\ Touch(n)
  /\ IF left = {n} THEN Goto("trigger", {}) ELSE Goto("write", left \ {n})
  /\ UNCHANGED <<up, pulse, memory, found, last, stray, handKept>>

\* A write that reports failure may still have taken effect; the node is not restored.
WriteFails(n) ==
  /\ pc = "write" /\ n \in left
  /\ \/ mode[n] # Value /\ mode' = [mode EXCEPT ![n] = Value]
        /\ Touch(n) /\ Doubt(n)
     \/ UNCHANGED <<mode, origin, doubts>>
  /\ Goto("undo", written)
  /\ UNCHANGED <<up, pulse, memory, found, written, last, stray, handKept>>

\* Ignored, clamped, or not readable afterwards.
WriteUnconfirmed(n) ==
  /\ pc = "write" /\ n \in left
  /\ \E m \in Modes : mode' = [mode EXCEPT ![n] = m]
  /\ Touch(n)
  /\ written' = written \cup {n}
  /\ doubt' = doubt /\ suspect' = suspect \cup {n}
  /\ Goto("undo", written \cup {n})
  /\ UNCHANGED <<up, pulse, memory, found, last, stray, handKept>>

\* KernelTscIO.start: stop, set the rate, start; then _ENGAGED.append and the settling.
StartTrigger ==
  /\ pc = "trigger"
  /\ pulse' = "app" /\ stray' = "none"
  /\ asFound' = [asFound EXCEPT ![sync] = found]
  /\ running' = running \cup {sync} /\ engaged' = engaged \cup {sync}
  /\ Return("engaged")
  /\ UNCHANGED <<up, mode, origin, doubts, handKept>>

(* The stop that comes first may have worked; the start, or the close of the *)
(* device after it, may have failed with the trigger already pulsing, and   *)
(* _tsc_running is still FALSE: the nodes are undone, the trigger is not.   *)
StartTriggerRaises ==
  /\ pc = "trigger"
  /\ \/ pulse' \in {pulse, "off"} /\ UNCHANGED stray
     \/ pulse' = "app" /\ stray' = "start"
  /\ Goto("undo", Nodes)
  /\ UNCHANGED <<up, mode, memory, found, written, last, origin, doubts, handKept>>

\* Mutated form: writes None back.
RestoreBlindly(n) ==
  /\ pc = "undo" /\ n \in left
  /\ mode' = [mode EXCEPT ![n] = found[n]] /\ Settled(n)
  /\ Goto("undo", left \ {n})
  /\ UNCHANGED <<up, pulse, memory, found, written, last, origin, stray, handKept>>

(* restore_sync_mode, for every node left; a node that was unreadable is     *)
(* skipped, a write that fails is not noticed.                              *)
Restore(n) ==
  /\ pc = "undo" /\ n \in left
  /\ \/ found[n] # Unknown /\ mode' = [mode EXCEPT ![n] = found[n]] /\ Settled(n)
     \/ Doubt(n) /\ UNCHANGED mode
  /\ Goto("undo", left \ {n})
  /\ UNCHANGED <<up, pulse, memory, found, written, last, origin, stray, handKept>>

Restored ==
  /\ pc = "undo" /\ left = {}
  /\ Return(IF op = "engage" THEN "failed" ELSE last)
  /\ UNCHANGED <<up, rig, memory, origin, doubts, stray, handKept>>

-----------------------------------------------------------------------------
(* disengage(), idempotent, and disengage_all_engaged() at the app's exit.   *)

\* Mutated form: without looking at _tsc_running.
StopAnyTrigger(s) == pulse' = "off" /\ stray' = "none"

\* Best effort; only what this sync started.  A failing stop may have worked.
StopOwnTrigger(s) ==
  IF s \in running
  THEN \/ pulse' = "off" /\ stray' = "none"
       \/ pulse' \in {pulse, "off"} /\ stray' = "stop"
  ELSE UNCHANGED <<pulse, stray>>

\* Leaves _ENGAGED, stops the trigger if this sync started it, goes on to restore.
Disengage(o, s) ==
  /\ engaged' = engaged \ {s} /\ running' = running \ {s}
  /\ asFound' = [asFound EXCEPT ![s] = NotApplied]
  /\ StopOwnTrigger(s)
  /\ op' = o /\ sync' = s /\ pc' = "undo" /\ written' = {}
  /\ IF asFound[s] = NotApplied
     THEN left' = {} /\ found' = Nothing /\ UNCHANGED last
     ELSE left' = Nodes /\ found' = asFound[s] /\ last' = "none"
  /\ UNCHANGED <<up, mode, origin, doubts, handKept>>

\* Any sync, any number of times, in any order.
CallDisengage(s) == Idle /\ Disengage("disengage", s)

\* The window is closed, in the middle of a run or not.
CallExit ==
  /\ Idle
  /\ op' = "exit" /\ UNCHANGED <<sync, pc, left, found, written>>
  /\ UNCHANGED <<up, rig, memory, hist>>

ExitNext(s) == up /\ op = "exit" /\ pc = "idle" /\ s \in engaged /\ Disengage("exit", s)

Exited ==
  /\ up /\ op = "exit" /\ pc = "idle" /\ engaged = {}
  /\ up' = FALSE /\ op' = "idle"
  /\ UNCHANGED <<rig, memory, sync, pc, left, found, written, hist>>

-----------------------------------------------------------------------------
(* GmslFreeRunGuard.engage(), that is reset_leftover_sync; its disengage()   *)
(* does nothing.                                                            *)

CallFreeRun ==
  /\ Idle
  /\ Call("free", sync, "reset")
  /\ last' = "none" /\ handKept' = FALSE
  /\ UNCHANGED <<up, rig, memory, found, origin, doubts, stray>>

\* Already at the default, or written and read back there.
ResetNode(n) ==
  /\ pc = "reset" /\ n \in left
  /\ mode' = [mode EXCEPT ![n] = Default]
  /\ Settled(n)
  /\ IF left = {n} THEN Goto("stop", {}) ELSE Goto("reset", left \ {n})
  /\ UNCHANGED <<up, pulse, memory, found, written, last, origin, stray, handKept>>

ResetRaises(n) ==
  /\ pc = "reset" /\ n \in left
  /\ \E m \in Modes : mode' = [mode EXCEPT ![n] = m]
  /\ Doubt(n)
  /\ Return("failed")
  /\ UNCHANGED <<up, pulse, memory, origin, stray, handKept>>

\* Mutated form: trusts the nodes alone.
TrustNodes ==
  /\ pc = "stop"
  /\ UNCHANGED <<pulse, stray>> /\ Return("free")
  /\ UNCHANGED <<up, mode, memory, origin, doubts, handKept>>

\* The trigger cannot be queried: it is stopped whether it pulses or not.
StopLeftover ==
  /\ pc = "stop"
  /\ \/ pulse' = "off" /\ stray' = "none" /\ Return("free")
     \/ pulse' \in {pulse, "off"} /\ UNCHANGED stray /\ Return("failed")
  /\ UNCHANGED <<up, mode, memory, origin, doubts, handKept>>

-----------------------------------------------------------------------------
(* The process is killed between two steps; the rig stays as it is.  Someone *)
(* uses ext_sync_gen.py by hand.                                            *)

Killed ==
  /\ up /\ up' = FALSE
  /\ pulse' = IF pulse = "app" THEN "killed" ELSE pulse
  /\ engaged' = {} /\ running' = {} /\ asFound' = [s \in Syncs |-> NotApplied]
  /\ op' = "idle" /\ pc' = "idle" /\ left' = {} /\ written' = {} /\ found' = Nothing
  /\ origin' = Nothing /\ doubt' = {} /\ suspect' = {} /\ stray' = "none"
  /\ last' = "none" /\ handKept' = (handKept /\ pulse = "hand")
  /\ UNCHANGED <<mode, sync>>

Launch ==
  /\ ~up /\ up' = TRUE
  /\ pulse' = IF pulse = "app" THEN "killed" ELSE pulse
  /\ origin' = Nothing /\ doubt' = {} /\ suspect' = {} /\ stray' = "none" /\ last' = "none"
  /\ UNCHANGED <<mode, memory, frame, handKept>>

HandStarts ==
  /\ pulse' = "hand"
  /\ handKept' = (engaged = {} /\ op \in {"idle", "exit"})
  /\ last' = IF last = "free" THEN "none" ELSE last
  /\ UNCHANGED <<up, mode, memory, frame, origin, doubts, stray>>

HandStops ==
  /\ pulse' = "off" /\ handKept' = FALSE /\ last' = "none"
  /\ UNCHANGED <<up, mode, memory, frame, origin, doubts, stray>>

Next ==
  \/ \E s \in Syncs : CallEngage(s) \/ CallDisengage(s) \/ ExitNext(s)
  \/ \E n \in Nodes : \/ Examine(n) \/ WriteConfirmed(n) \/ WriteFails(n)
                      \/ WriteUnconfirmed(n) \/ Restore(n) \/ ResetNode(n) \/ ResetRaises(n)
  \/ ExamineRaises \/ StartTrigger \/ StartTriggerRaises \/ Restored
  \/ CallExit \/ Exited \/ CallFreeRun \/ StopLeftover
  \/ Killed \/ Launch \/ HandStarts \/ HandStops

Spec == Init /\ [][Next]_vars

-----------------------------------------------------------------------------
(* Properties.                                                              *)

(* engage() that returned put every node in external sync and the trigger   *)
(* pulses, until another call or a hand touches the rig; a late second      *)
(* disengage of a finished run does not.                                    *)
EngagedMeansDriven ==
  last = "engaged" => pulse # "off" /\ \A n \in Nodes : mode[n] = Value

(* With no sync engaged, after a failed start, a disengage or the app's exit, *)
(* nothing this process applied is left: no trigger of its own, and each     *)
(* node it wrote is out of external sync: back where it was, or at the       *)
(* default.  What a command that reported failure did or left is exempt, a   *)
(* node or the trigger, until the next run that ends, which must undo it.   *)
NothingLeftBehind ==
  (engaged = {} /\ op = "idle") =>
    /\ pulse = "app" => stray # "none"
    /\ \A n \in Nodes \ doubt : origin[n] # Unknown => mode[n] # Value
    /\ \A n \in Nodes \ suspect : origin[n] # Unknown => mode[n] \in {origin[n], Default}

(* A free-running run really runs free: no node is externally synced and no  *)
(* trigger pulses, whatever earlier runs, killed or not, left.              *)
FreeRunMeansFree ==
  last = "free" => pulse = "off" /\ \A n \in Nodes : mode[n] = Default

(* A trigger started by hand while no run is engaged keeps pulsing until a   *)
(* run begins: late disengages and the app's exit do not touch it.          *)
HandTriggerKept == handKept => pulse = "hand"
=============================================================================
