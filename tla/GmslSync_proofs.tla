--------------------------- MODULE GmslSync_proofs ---------------------------
(***************************************************************************)
(* What holds of GmslSync for any nodes and any syncs: its types and its     *)
(* four safety properties, from the inductive invariant SyncInv.            *)
(***************************************************************************)
EXTENDS GmslSync, TLAPS

-----------------------------------------------------------------------------
(* The inductive invariant.                                                 *)

Applied(s) == asFound[s] # NotApplied

(* Which call is where, what a process that is not in a call remembers, and *)
(* that the three memories of a sync agree.                                 *)
CallInv ==
  /\ op = "idle" => pc = "idle"
  /\ op = "engage" => pc \in {"examine", "write", "trigger", "undo"} /\ last = "none"
  /\ op = "disengage" => pc = "undo"
  /\ op = "free" => pc \in {"reset", "stop"} /\ last = "none"
  /\ op = "exit" => pc \in {"idle", "undo"}
  /\ pc \in {"idle", "reset", "stop"} => found = Nothing
  /\ ~up => op = "idle" /\ engaged = {}
  /\ running = engaged
  /\ \A s \in Syncs : Applied(s) <=> s \in engaged

(* The loops over the nodes: what they have done to the nodes they have left *)
(* behind.                                                                  *)
LoopInv ==
  /\ pc = "write" => \A n \in Nodes \ left : mode[n] = Value /\ origin[n] # Unknown
  /\ pc = "examine" => written = {}
  /\ pc = "write" => \A n \in written : origin[n] # Unknown
  /\ pc = "trigger" => \A n \in Nodes : mode[n] = Value /\ origin[n] # Unknown
  /\ pc = "undo" => \A n \in left : origin[n] # Unknown
  /\ pc = "reset" => \A n \in Nodes \ left : mode[n] = Default
  /\ pc = "stop" => \A n \in Nodes : mode[n] = Default
  /\ \A s \in Syncs : Applied(s) => \A n \in Nodes : origin[n] # Unknown

\* What the last call said is still so: only a call with nothing to restore is in progress.
Standing == pc = "idle" \/ (pc = "undo" /\ left = {} /\ op # "engage")

ResultInv ==
  /\ last = "engaged" => Standing /\ pulse # "off" /\ \A n \in Nodes : mode[n] = Value
  /\ last = "free" => Standing /\ pulse = "off" /\ \A n \in Nodes : mode[n] = Default
  /\ handKept => pulse = "hand" /\ engaged = {} /\ op \notin {"engage", "free"}
  /\ pulse = "app" => stray # "none" \/ engaged # {}

(* Of a node no command failed of: it is in external sync, what this         *)
(* process found there first, or at the default; and what is noted to be     *)
(* restored is one of the last two.                                         *)
NotedOf(n) ==
  n \notin suspect =>
    /\ origin[n] # Unknown => mode[n] \in {Value, origin[n], Default}
    /\ found[n] # Unknown =>
         found[n] \in {Default, IF origin[n] = Unknown THEN mode[n] ELSE origin[n]}
    /\ \A s \in Syncs : Applied(s) /\ asFound[s][n] # Unknown =>
         asFound[s][n] \in {Default, origin[n]}

(* External sync itself is never noted to be restored.                      *)
NoteInv ==
  /\ \A n \in Nodes : found[n] # Value /\ NotedOf(n)
  /\ \A s \in Syncs : Applied(s) => \A n \in Nodes : asFound[s][n] # Value

\* The nodes the call in progress has written to, or is still to restore.
InHand(n) ==
  \/ pc = "write" /\ n \in written
  \/ pc = "trigger"
  \/ pc = "undo" /\ n \in left

Clean(n) ==
  origin[n] # Unknown =>
    /\ n \notin doubt => mode[n] # Value
    /\ n \notin suspect => mode[n] \in {origin[n], Default}

(* With no sync engaged every node is clean but those in hand.              *)
CleanInv == engaged = {} => \A n \in Nodes : InHand(n) \/ Clean(n)

SyncInv == TypeOK /\ CallInv /\ LoopInv /\ ResultInv /\ NoteInv /\ CleanInv
-----------------------------------------------------------------------------
(* Facts about the operators.                                               *)

\* Unknown is no mode, and the noted function of nothing no restore list.
LEMMA Notes ==
  /\ Nothing \in Found /\ NotApplied \notin Found /\ Unknown \notin Modes
  /\ \A n \in Nodes : Nothing[n] = Unknown
  /\ Default \in Modes /\ Value \in Modes /\ Default # Value
BY NotAppliedAssumption, UnknownAssumption DEF Nothing, Found, Values, Modes, Default, Value

\* What is noted to be restored never is external sync.
LEMMA NotedIsSafe ==
  ASSUME TypeOK, NEW n \in Nodes
  PROVE  ToRestore(n) \in Modes /\ ToRestore(n) # Value /\ ToRestore(n) \in {mode[n], Default}
BY Notes DEF TypeOK, ToRestore

\* The call's variables after a return.
LEMMA ReturnTyped ==
  ASSUME TypeOK, NEW o \in Outcomes, Return(o)
  PROVE  /\ op' \in {"idle", "engage", "disengage", "free", "exit"} /\ sync' \in Syncs
         /\ pc' \in {"idle", "examine", "write", "trigger", "undo", "reset", "stop"}
         /\ left' \subseteq Nodes /\ written' \subseteq Nodes /\ found' \in Found /\ last' \in Outcomes
BY Notes DEF TypeOK, Return

LEMMA TouchTyped ==
  ASSUME TypeOK, NEW n \in Nodes, Touch(n)
  PROVE  /\ origin' \in Found /\ origin'[n] # Unknown
         /\ origin'[n] = (IF origin[n] = Unknown THEN mode[n] ELSE origin[n])
         /\ \A m \in Nodes : m # n => origin'[m] = origin[m]
BY Notes DEF TypeOK, Touch, Found, Values

LEMMA DisengageTyped ==
  ASSUME TypeOK, NEW o \in {"disengage", "exit"}, NEW s \in Syncs, Disengage(o, s)
  PROVE  TypeOK'
<1>1. pulse' \in {"off", "app", "hand", "killed"} /\ stray' \in {"none", "start", "stop"}
  BY DEF TypeOK, Disengage, StopOwnTrigger
<1>2. /\ engaged' \subseteq Syncs /\ running' \subseteq Syncs
      /\ asFound' \in [Syncs -> Found \cup {NotApplied}]
  BY DEF TypeOK, Disengage
<1>3. left' \subseteq Nodes /\ found' \in Found /\ last' \in Outcomes
  BY Notes DEF TypeOK, Disengage, Outcomes
<1>4. UNCHANGED <<up, mode, origin, doubt, suspect, handKept>> /\ written' = {}
      /\ op' \in {"disengage", "exit"} /\ sync' \in Syncs /\ pc' = "undo"
  BY DEF Disengage, doubts
<1> QED  BY <1>1, <1>2, <1>3, <1>4 DEF TypeOK

-----------------------------------------------------------------------------
(* Types.                                                                   *)

LEMMA InitSyncInv == Init => SyncInv
<1> SUFFICES ASSUME Init PROVE SyncInv
  OBVIOUS
<1>1. TypeOK
  BY Notes DEF Init, TypeOK, Outcomes
<1>2. CallInv /\ LoopInv
  BY Notes DEF Init, CallInv, LoopInv, Applied
<1>3. ResultInv /\ CleanInv
  BY Notes DEF Init, ResultInv, CleanInv, Clean
<1>4. NoteInv
  BY Notes DEF Init, NoteInv, NotedOf, Applied, Modes, Value
<1> QED  BY <1>1, <1>2, <1>3, <1>4 DEF SyncInv

LEMMA NextTypeOK == TypeOK /\ [Next]_vars => TypeOK'
<1> SUFFICES ASSUME TypeOK, [Next]_vars PROVE TypeOK'
  OBVIOUS
<1> USE DEF rig, memory, frame, doubts, hist
<1>1. ASSUME NEW s \in Syncs, CallEngage(s) PROVE TypeOK'
  BY <1>1, Notes DEF TypeOK, CallEngage, Call, Outcomes
<1>2. ASSUME NEW s \in Syncs, CallDisengage(s) \/ ExitNext(s) PROVE TypeOK'
  BY <1>2, DisengageTyped DEF CallDisengage, ExitNext
<1>3. ASSUME NEW n \in Nodes, Examine(n) PROVE TypeOK'
  <2>1. found' \in Found
    BY <1>3, NotedIsSafe DEF TypeOK, Examine, Found, Values
  <2>2. UNCHANGED <<up, mode, pulse, engaged, asFound, running, written, last, origin, doubt,
                    suspect, stray, handKept, op, sync>>
        /\ pc' \in {"write", "examine"} /\ left' \subseteq Nodes
    BY <1>3 DEF TypeOK, Examine, Goto
  <2> QED  BY <2>1, <2>2 DEF TypeOK
<1>4. CASE ExamineRaises
  <2>1. Return("failed") /\ "failed" \in Outcomes
    BY <1>4 DEF ExamineRaises, Outcomes
  <2> QED  BY <1>4, <2>1, ReturnTyped DEF TypeOK, ExamineRaises
<1>5. ASSUME NEW n \in Nodes, WriteConfirmed(n) PROVE TypeOK'
  <2>1. origin' \in Found
    BY <1>5, TouchTyped DEF WriteConfirmed
  <2>2. mode' \in [Nodes -> Modes]
    BY <1>5, Notes DEF TypeOK, WriteConfirmed
  <2>3. /\ written' \subseteq Nodes /\ left' \subseteq Nodes /\ doubt' \subseteq Nodes
        /\ pc' \in {"write", "trigger"}
        /\ UNCHANGED <<up, pulse, engaged, asFound, running, op, sync, found, last, suspect,
                       stray, handKept>>
    BY <1>5 DEF TypeOK, WriteConfirmed, Goto, Settled
  <2> QED  BY <2>1, <2>2, <2>3 DEF TypeOK
<1>6. ASSUME NEW n \in Nodes, WriteFails(n) PROVE TypeOK'
  <2>1. mode' \in [Nodes -> Modes] /\ doubt' \subseteq Nodes /\ suspect' \subseteq Nodes
    BY <1>6, Notes DEF TypeOK, WriteFails, Doubt
  <2>2. origin' \in Found
    BY <1>6, TouchTyped DEF TypeOK, WriteFails
  <2>3. /\ pc' = "undo" /\ left' \subseteq Nodes
        /\ UNCHANGED <<up, pulse, engaged, asFound, running, op, sync, found, written, last,
                       stray, handKept>>
    BY <1>6 DEF TypeOK, WriteFails, Goto
  <2> QED  BY <2>1, <2>2, <2>3 DEF TypeOK
<1>7. ASSUME NEW n \in Nodes, WriteUnconfirmed(n) PROVE TypeOK'
  <2>1. mode' \in [Nodes -> Modes] /\ origin' \in Found
    BY <1>7, TouchTyped DEF TypeOK, WriteUnconfirmed
  <2>2. /\ pc' = "undo" /\ left' \subseteq Nodes /\ written' \subseteq Nodes
        /\ doubt' \subseteq Nodes /\ suspect' \subseteq Nodes
        /\ UNCHANGED <<up, pulse, engaged, asFound, running, op, sync, found, last, stray, handKept>>
    BY <1>7 DEF TypeOK, WriteUnconfirmed, Goto
  <2> QED  BY <2>1, <2>2 DEF TypeOK
<1>8. CASE StartTrigger
  <2>1. Return("engaged") /\ "engaged" \in Outcomes
    BY <1>8 DEF StartTrigger, Outcomes
  <2>2. /\ asFound' \in [Syncs -> Found \cup {NotApplied}]
        /\ running' \subseteq Syncs /\ engaged' \subseteq Syncs /\ pulse' = "app" /\ stray' \in {"none", "start", "stop"}
        /\ UNCHANGED <<up, mode, origin, doubt, suspect, handKept>>
    BY <1>8 DEF TypeOK, StartTrigger
  <2> QED  BY <2>1, <2>2, ReturnTyped DEF TypeOK
<1>9. CASE StartTriggerRaises
  BY <1>9 DEF TypeOK, StartTriggerRaises, Goto
<1>10. ASSUME NEW n \in Nodes, Restore(n) PROVE TypeOK'
  <2>1. mode' \in [Nodes -> Modes] /\ doubt' \subseteq Nodes /\ suspect' \subseteq Nodes
    BY <1>10 DEF TypeOK, Restore, Doubt, Settled, Found, Values
  <2>2. /\ pc' = "undo" /\ left' \subseteq Nodes
        /\ UNCHANGED <<up, pulse, engaged, asFound, running, op, sync, found, written, last, origin,
                       stray, handKept>>
    BY <1>10 DEF TypeOK, Restore, Goto
  <2> QED  BY <2>1, <2>2 DEF TypeOK
<1>11. CASE Restored
  <2>1. PICK o \in Outcomes : Return(o)
    BY <1>11 DEF TypeOK, Restored, Outcomes
  <2> QED  BY <1>11, <2>1, ReturnTyped DEF TypeOK, Restored
<1>12. CASE CallExit \/ Exited
  BY <1>12 DEF TypeOK, CallExit, Exited
<1>13. CASE CallFreeRun
  BY <1>13 DEF TypeOK, CallFreeRun, Call, Outcomes
<1>14. ASSUME NEW n \in Nodes, ResetNode(n) PROVE TypeOK'
  <2>1. mode' \in [Nodes -> Modes]
    BY <1>14, Notes DEF TypeOK, ResetNode
  <2>2. /\ pc' \in {"reset", "stop"} /\ left' \subseteq Nodes /\ doubt' \subseteq Nodes
        /\ UNCHANGED <<up, pulse, engaged, asFound, running, op, sync, found, written, last, origin,
                       suspect, stray, handKept>>
    BY <1>14 DEF TypeOK, ResetNode, Goto, Settled
  <2> QED  BY <2>1, <2>2 DEF TypeOK
<1>15. ASSUME NEW n \in Nodes, ResetRaises(n) PROVE TypeOK'
  <2>1. Return("failed") /\ "failed" \in Outcomes
    BY <1>15 DEF ResetRaises, Outcomes
  <2>2. mode' \in [Nodes -> Modes] /\ doubt' \subseteq Nodes /\ suspect' \subseteq Nodes
    BY <1>15 DEF TypeOK, ResetRaises, Doubt
  <2>3. UNCHANGED <<up, pulse, engaged, asFound, running, origin, stray, handKept>>
    BY <1>15 DEF ResetRaises
  <2> QED  BY <2>1, <2>2, <2>3, ReturnTyped DEF TypeOK
<1>16. CASE StopLeftover
  <2>1. \E o \in Outcomes : Return(o)
    BY <1>16 DEF StopLeftover, Outcomes
  <2>2. /\ pulse' \in {"off", "app", "hand", "killed"} /\ stray' \in {"none", "start", "stop"}
        /\ UNCHANGED <<up, mode, engaged, asFound, running, origin, doubt, suspect, handKept>>
    BY <1>16 DEF TypeOK, StopLeftover
  <2> QED  BY <2>1, <2>2, ReturnTyped DEF TypeOK
<1>17. CASE Killed
  <2>1. /\ pulse' \in {"off", "app", "hand", "killed"} /\ handKept' \in BOOLEAN
        /\ asFound' \in [Syncs -> Found \cup {NotApplied}]
    BY <1>17 DEF TypeOK, Killed
  <2> QED  BY <1>17, <2>1, Notes DEF TypeOK, Killed, Outcomes
<1>18. CASE Launch
  BY <1>18, Notes DEF TypeOK, Launch, Outcomes
<1>19. CASE HandStarts \/ HandStops
  BY <1>19 DEF TypeOK, HandStarts, HandStops, Outcomes
<1>20. CASE UNCHANGED vars
  BY <1>20 DEF TypeOK, vars
<1> QED
  BY <1>1, <1>2, <1>3, <1>4, <1>5, <1>6, <1>7, <1>8, <1>9, <1>10, <1>11, <1>12, <1>13, <1>14,
     <1>15, <1>16, <1>17, <1>18, <1>19, <1>20 DEF Next
-----------------------------------------------------------------------------
(* Calls and memories.                                                      *)

\* A disengage forgets its sync, or finds it forgotten.
LEMMA DisengageForgets ==
  ASSUME TypeOK, CallInv, NEW o \in {"disengage", "exit"}, NEW s \in Syncs, Disengage(o, s)
  PROVE  /\ running' = engaged' /\ engaged' = engaged \ {s}
         /\ \A z \in Syncs : z # s => asFound'[z] = asFound[z]
         /\ asFound'[s] = NotApplied
         /\ ~Applied(s) => engaged' = engaged /\ left' = {} /\ found' = Nothing
                           /\ UNCHANGED <<pulse, stray, last>>
         /\ Applied(s) => left' = Nodes /\ found' = asFound[s] /\ last' = "none"
         /\ op' = o /\ pc' = "undo" /\ UNCHANGED <<up, mode, origin, doubt, suspect, handKept>>
<1>1. CASE Applied(s)
  BY <1>1 DEF TypeOK, CallInv, Disengage, Applied, doubts
<1>2. CASE ~Applied(s)
  <2>1. s \notin engaged /\ s \notin running
    BY <1>2 DEF CallInv
  <2>2. UNCHANGED <<pulse, stray>>
    BY <2>1 DEF Disengage, StopOwnTrigger
  <2> QED  BY <1>2, <2>1, <2>2 DEF TypeOK, CallInv, Disengage, Applied, doubts
<1> QED  BY <1>1, <1>2

LEMMA NextCallInv == TypeOK /\ CallInv /\ [Next]_vars => CallInv'
<1> SUFFICES ASSUME TypeOK, CallInv, [Next]_vars PROVE CallInv'
  OBVIOUS
<1> USE DEF rig, memory, frame, doubts, hist
<1>1. ASSUME NEW s \in Syncs, CallEngage(s) PROVE CallInv'
  BY <1>1 DEF CallInv, CallEngage, Call, Applied, Idle
<1>2. ASSUME NEW s \in Syncs, NEW o \in {"disengage", "exit"}, up, Disengage(o, s) PROVE CallInv'
  BY <1>2, DisengageForgets DEF CallInv, Applied
<1>3. ASSUME NEW s \in Syncs, CallDisengage(s) \/ ExitNext(s) PROVE CallInv'
  BY <1>2, <1>3 DEF CallDisengage, ExitNext, Idle
<1>4. ASSUME NEW n \in Nodes,
             Examine(n) \/ WriteConfirmed(n) \/ WriteFails(n) \/ WriteUnconfirmed(n) \/ Restore(n)
             \/ ResetNode(n)
      PROVE CallInv'
  BY <1>4 DEF CallInv, Examine, WriteConfirmed, WriteFails, WriteUnconfirmed, Restore, ResetNode, Goto, Applied
<1>5. CASE StartTriggerRaises
  BY <1>5 DEF CallInv, StartTriggerRaises, Goto, Applied
<1>6. CASE StartTrigger
  <2>1. op = "engage" /\ op' = "idle" /\ up
    BY <1>6 DEF CallInv, TypeOK, StartTrigger, Return
  <2>2. running' = engaged'
    BY <1>6 DEF CallInv, StartTrigger
  <2>3. \A s \in Syncs : Applied(s)' <=> s \in engaged'
    BY <1>6, Notes DEF CallInv, TypeOK, StartTrigger, Applied
  <2> QED  BY <1>6, <2>1, <2>2, <2>3 DEF CallInv, StartTrigger, Return
<1>7. ASSUME NEW o \in Outcomes, Return(o), up, op # "free", UNCHANGED <<up, memory>>
      PROVE CallInv'
  BY <1>7 DEF CallInv, Return, Applied
<1>8. CASE ExamineRaises
  BY <1>7, <1>8 DEF ExamineRaises, Outcomes, CallInv
<1>9. CASE Restored
  BY <1>7, <1>9 DEF Restored, Outcomes, CallInv, TypeOK
<1>10. CASE CallExit \/ Exited \/ CallFreeRun
  BY <1>10 DEF CallInv, CallExit, Exited, CallFreeRun, Call, Idle, Applied
<1>11. ASSUME NEW n \in Nodes, ResetRaises(n) PROVE CallInv'
  BY <1>11 DEF CallInv, ResetRaises, Return, Applied
<1>12. CASE StopLeftover
  BY <1>12 DEF CallInv, StopLeftover, Return, Applied
<1>13. CASE Killed
  BY <1>13 DEF CallInv, Killed, Applied, TypeOK
<1>14. CASE Launch \/ HandStarts \/ HandStops
  BY <1>14 DEF CallInv, Launch, HandStarts, HandStops, Applied
<1>15. CASE UNCHANGED vars
  BY <1>15 DEF CallInv, vars, Applied
<1> QED
  BY <1>1, <1>3, <1>4, <1>5, <1>6, <1>8, <1>9, <1>10, <1>11, <1>12, <1>13, <1>14, <1>15 DEF Next

-----------------------------------------------------------------------------
(* The loops.                                                               *)

(* A step that touches neither the nodes nor what is known of their origin, *)
(* and remembers no new sync, may leave a loop or begin one.                *)
LEMMA FrameLoopInv ==
  ASSUME LoopInv, UNCHANGED <<mode, origin>>,
         \A s \in Syncs : asFound'[s] = asFound[s] \/ asFound'[s] = NotApplied,
         \/ pc' = "idle"
         \/ pc' = "examine" /\ written' = {}
         \/ pc' \in {"write", "reset"} /\ left' = Nodes /\ written' = {}
         \/ pc' = "undo" /\ \A n \in left' : origin[n] # Unknown
         \/ UNCHANGED <<pc, left, written>>
  PROVE  LoopInv'
BY DEF LoopInv, Applied

LEMMA NextLoopInv == TypeOK /\ CallInv /\ LoopInv /\ [Next]_vars => LoopInv'
<1> SUFFICES ASSUME TypeOK, CallInv, LoopInv, [Next]_vars PROVE LoopInv'
  OBVIOUS
<1> USE DEF rig, memory, frame, doubts, hist
<1>1. ASSUME NEW s \in Syncs, CallEngage(s) PROVE LoopInv'
  BY <1>1, FrameLoopInv DEF CallEngage, Call
<1>2. ASSUME NEW s \in Syncs, NEW o \in {"disengage", "exit"}, Disengage(o, s) PROVE LoopInv'
  BY <1>2, DisengageForgets, FrameLoopInv DEF LoopInv
<1>3. ASSUME NEW s \in Syncs, CallDisengage(s) \/ ExitNext(s) PROVE LoopInv'
  BY <1>2, <1>3 DEF CallDisengage, ExitNext
<1>4. ASSUME NEW n \in Nodes, Examine(n) PROVE LoopInv'
  <2>1. written = {}
    BY <1>4 DEF Examine, LoopInv
  <2> QED  BY <1>4, <2>1, FrameLoopInv DEF Examine, Goto
<1>5. ASSUME NEW n \in Nodes, WriteConfirmed(n) PROVE LoopInv'
  <2>1. mode'[n] = Value /\ origin'[n] # Unknown
    BY <1>5, TouchTyped DEF WriteConfirmed, TypeOK
  <2>2. \A m \in Nodes : m # n => mode'[m] = mode[m] /\ origin'[m] = origin[m]
    BY <1>5, TouchTyped DEF WriteConfirmed, TypeOK
  <2>3. \A m \in (Nodes \ left) \cup {n} : mode'[m] = Value /\ origin'[m] # Unknown
    BY <1>5, <2>1, <2>2 DEF WriteConfirmed, LoopInv, TypeOK
  <2>4. \A m \in written' : origin'[m] # Unknown
    BY <1>5, <2>1, <2>2 DEF WriteConfirmed, LoopInv, TypeOK
  <2>5. \A s \in Syncs : Applied(s)' => \A m \in Nodes : origin'[m] # Unknown
    BY <1>5, <2>1, <2>2 DEF WriteConfirmed, LoopInv, Applied
  <2>6. CASE left = {n}
    BY <1>5, <2>3, <2>5, <2>6 DEF WriteConfirmed, Goto, LoopInv
  <2>7. CASE left # {n}
    BY <1>5, <2>3, <2>4, <2>5, <2>7 DEF WriteConfirmed, Goto, LoopInv
  <2> QED  BY <2>6, <2>7
<1>6. ASSUME NEW n \in Nodes, WriteFails(n) \/ WriteUnconfirmed(n) PROVE LoopInv'
  <2>1. \A m \in Nodes : origin[m] # Unknown => origin'[m] # Unknown
    BY <1>6, TouchTyped DEF WriteFails, WriteUnconfirmed
  <2>2. \A m \in left' : origin'[m] # Unknown
    BY <1>6, <2>1, TouchTyped DEF WriteFails, WriteUnconfirmed, LoopInv, Goto, TypeOK
  <2>3. \A s \in Syncs : Applied(s)' => \A m \in Nodes : origin'[m] # Unknown
    BY <1>6, <2>1 DEF WriteFails, WriteUnconfirmed, LoopInv, Applied
  <2> QED  BY <1>6, <2>2, <2>3 DEF WriteFails, WriteUnconfirmed, Goto, LoopInv
<1>7. CASE StartTrigger
  <2>1. pc' = "idle" /\ UNCHANGED <<mode, origin>> /\ \A n \in Nodes : origin[n] # Unknown
    BY <1>7 DEF StartTrigger, Return, LoopInv
  <2> QED  BY <2>1 DEF LoopInv
<1>8. CASE StartTriggerRaises
  BY <1>8, FrameLoopInv DEF StartTriggerRaises, Goto, LoopInv
<1>9. ASSUME NEW n \in Nodes, Restore(n) PROVE LoopInv'
  BY <1>9 DEF Restore, Goto, LoopInv, Applied
<1>10. CASE ExamineRaises \/ Restored \/ StopLeftover
  BY <1>10, FrameLoopInv DEF ExamineRaises, Restored, StopLeftover, Return
<1>11. CASE CallExit \/ Exited
  BY <1>11, FrameLoopInv DEF CallExit, Exited
<1>12. CASE CallFreeRun
  BY <1>12, FrameLoopInv DEF CallFreeRun, Call
<1>13. ASSUME NEW n \in Nodes, ResetNode(n) PROVE LoopInv'
  BY <1>13 DEF ResetNode, Goto, LoopInv, Applied, TypeOK
<1>14. ASSUME NEW n \in Nodes, ResetRaises(n) PROVE LoopInv'
  BY <1>14 DEF ResetRaises, Return, LoopInv, Applied
<1>15. CASE Killed
  BY <1>15 DEF Killed, LoopInv, Applied, TypeOK
<1>16. CASE Launch
  BY <1>16 DEF Launch, LoopInv, CallInv, Applied
<1>17. CASE HandStarts \/ HandStops \/ UNCHANGED vars
  BY <1>17, FrameLoopInv DEF HandStarts, HandStops, vars
<1> QED
  BY <1>1, <1>3, <1>4, <1>5, <1>6, <1>7, <1>8, <1>9, <1>10, <1>11, <1>12, <1>13, <1>14, <1>15,
     <1>16, <1>17 DEF Next

-----------------------------------------------------------------------------
(* Results.                                                                 *)

LEMMA NextResultInv == TypeOK /\ CallInv /\ LoopInv /\ ResultInv /\ [Next]_vars => ResultInv'
<1> SUFFICES ASSUME TypeOK, CallInv, LoopInv, ResultInv, [Next]_vars PROVE ResultInv'
  OBVIOUS
<1> USE DEF rig, memory, frame, doubts, hist
<1>1. ASSUME NEW s \in Syncs, CallEngage(s) PROVE ResultInv'
  BY <1>1 DEF CallEngage, Call, ResultInv, Idle
<1>2. ASSUME NEW s \in Syncs, NEW o \in {"disengage", "exit"}, Disengage(o, s),
             op \in {"idle", "exit"}, pc = "idle"
      PROVE  ResultInv'
  <2>1. CASE Applied(s)
    <3>1. s \in engaged /\ s \in running
      BY <2>1 DEF CallInv
    <3>2. (pulse' = "off" \/ stray' # "none") /\ ~handKept /\ handKept' = handKept /\ last' = "none"
      BY <1>2, <2>1, <3>1, DisengageForgets DEF ResultInv, Disengage, StopOwnTrigger
    <3> QED  BY <3>2 DEF ResultInv
  <2>2. CASE ~Applied(s)
    BY <1>2, <2>2, DisengageForgets DEF ResultInv, Standing
  <2> QED  BY <2>1, <2>2
<1>3. ASSUME NEW s \in Syncs, CallDisengage(s) \/ ExitNext(s) PROVE ResultInv'
  BY <1>2, <1>3 DEF CallDisengage, ExitNext, Idle, CallInv
<1>4. ASSUME NEW n \in Nodes,
             Examine(n) \/ WriteConfirmed(n) \/ WriteFails(n) \/ WriteUnconfirmed(n) \/ ResetNode(n)
      PROVE ResultInv'
  BY <1>4 DEF ResultInv, Standing, CallInv, Examine, WriteConfirmed, WriteFails, WriteUnconfirmed,
              ResetNode, Goto
<1>5. ASSUME NEW n \in Nodes, Restore(n) PROVE ResultInv'
  BY <1>5 DEF ResultInv, Standing, Restore, Goto
<1>6. CASE StartTrigger
  <2>1. op = "engage" /\ op' = "idle" /\ pc' = "idle"
    BY <1>6 DEF CallInv, TypeOK, StartTrigger, Return
  <2>2. \A n \in Nodes : mode'[n] = Value
    BY <1>6 DEF StartTrigger, LoopInv
  <2>3. last' = "engaged" /\ pulse' = "app" /\ sync \in engaged' /\ ~handKept'
    BY <1>6, <2>1 DEF StartTrigger, Return, ResultInv, TypeOK
  <2> QED  BY <2>1, <2>2, <2>3 DEF ResultInv, Standing
<1>7. CASE StartTriggerRaises
  BY <1>7 DEF ResultInv, Standing, CallInv, StartTriggerRaises, Goto, TypeOK
<1>8. CASE ExamineRaises
  BY <1>8 DEF ResultInv, Standing, ExamineRaises, Return
<1>9. CASE Restored
  BY <1>9 DEF ResultInv, Standing, Restored, Return
<1>10. CASE CallExit \/ Exited
  BY <1>10 DEF ResultInv, Standing, CallExit, Exited, Idle, CallInv
<1>11. CASE CallFreeRun
  BY <1>11 DEF ResultInv, CallFreeRun, Call
<1>12. ASSUME NEW n \in Nodes, ResetRaises(n) PROVE ResultInv'
  BY <1>12 DEF ResultInv, ResetRaises, Return, CallInv, TypeOK
<1>13. CASE StopLeftover
  <2>1. ~handKept' /\ pc' = "idle" /\ UNCHANGED <<mode, engaged>>
    BY <1>13 DEF ResultInv, StopLeftover, Return, CallInv, TypeOK
  <2>2. \A n \in Nodes : mode[n] = Default
    BY <1>13 DEF StopLeftover, LoopInv
  <2>3. CASE pulse' = "off" /\ last' = "free"
    BY <2>1, <2>2, <2>3 DEF ResultInv, Standing
  <2>4. CASE pulse' \in {pulse, "off"} /\ stray' = stray /\ last' = "failed"
    BY <2>1, <2>4 DEF ResultInv
  <2> QED  BY <1>13, <2>3, <2>4 DEF StopLeftover, Return
<1>14. CASE Killed
  BY <1>14 DEF ResultInv, Killed
<1>15. CASE Launch
  BY <1>15 DEF ResultInv, Launch
<1>16. CASE HandStarts
  BY <1>16 DEF ResultInv, Standing, HandStarts
<1>17. CASE HandStops
  BY <1>17 DEF ResultInv, HandStops
<1>18. CASE UNCHANGED vars
  BY <1>18 DEF ResultInv, Standing, vars
<1> QED
  BY <1>1, <1>3, <1>4, <1>5, <1>6, <1>7, <1>8, <1>9, <1>10, <1>11, <1>12, <1>13, <1>14, <1>15,
     <1>16, <1>17, <1>18 DEF Next
-----------------------------------------------------------------------------
(* Notes to restore.                                                        *)

(* No node is touched, no origin forgotten, and what is noted was noted.    *)
LEMMA FrameNoteInv ==
  ASSUME NoteInv, UNCHANGED <<mode, origin>>, suspect \subseteq suspect',
         found' = found \/ found' = Nothing,
         \A s \in Syncs : asFound'[s] = asFound[s] \/ asFound'[s] = NotApplied
  PROVE  NoteInv'
BY Notes DEF NoteInv, NotedOf, Applied, Modes, Value

(* One node is written to: it and its origin change, or a command failed of *)
(* it, and what is noted stays.                                             *)
LEMMA WriteNoteInv ==
  ASSUME TypeOK, LoopInv, NoteInv, NEW n \in Nodes, UNCHANGED <<found, asFound>>,
         suspect \subseteq suspect',
         \A m \in Nodes : m # n => mode'[m] = mode[m] /\ origin'[m] = origin[m],
         \/ n \in suspect'
         \/ /\ origin'[n] = (IF origin[n] = Unknown THEN mode[n] ELSE origin[n])
            /\ mode'[n] = Value
         \/ /\ origin'[n] = origin[n] /\ mode'[n] \in {Value, origin[n], Default}
            /\ found[n] # Unknown => origin[n] # Unknown
  PROVE  NoteInv'
<1>1. \A m \in Nodes : m # n => NotedOf(m)'
  BY DEF NoteInv, NotedOf, Applied
<1>2. NotedOf(n)'
  <2>1. NotedOf(n)
    BY DEF NoteInv
  <2>2. \A s \in Syncs : Applied(s) => origin[n] # Unknown
    BY DEF LoopInv
  <2>3. mode[n] # Unknown
    BY Notes DEF TypeOK
  <2> QED  BY <2>1, <2>2, <2>3, Notes DEF NotedOf, Applied
<1>3. \A m \in Nodes : NotedOf(m)'
  BY <1>1, <1>2
<1> QED  BY <1>3 DEF NoteInv, NotedOf, Applied

LEMMA NextNoteInv == TypeOK /\ CallInv /\ LoopInv /\ NoteInv /\ [Next]_vars => NoteInv'
<1> SUFFICES ASSUME TypeOK, CallInv, LoopInv, NoteInv, [Next]_vars PROVE NoteInv'
  OBVIOUS
<1> USE DEF rig, memory, frame, doubts, hist
<1>1. ASSUME NEW s \in Syncs, CallEngage(s) PROVE NoteInv'
  BY <1>1, FrameNoteInv DEF CallEngage, Call
<1>2. ASSUME NEW s \in Syncs, NEW o \in {"disengage", "exit"}, Disengage(o, s) PROVE NoteInv'
  <2>1. CASE ~Applied(s)
    BY <1>2, <2>1, DisengageForgets, FrameNoteInv
  <2>2. CASE Applied(s)
    <3>1. /\ found' = asFound[s] /\ UNCHANGED <<mode, origin, suspect>>
          /\ \A z \in Syncs : asFound'[z] = asFound[z] \/ asFound'[z] = NotApplied
      BY <1>2, <2>2, DisengageForgets
    <3>2. \A n \in Nodes : found'[n] # Value /\ origin[n] # Unknown
      BY <2>2, <3>1 DEF NoteInv, NotedOf, LoopInv
    <3>3. \A z \in Syncs : Applied(z)' => asFound'[z] = asFound[z] /\ Applied(z)
      BY <3>1 DEF Applied
    <3>4. \A n \in Nodes \ suspect : found'[n] # Unknown => found'[n] \in {Default, origin[n]}
      BY <2>2, <3>1 DEF NoteInv, NotedOf
    <3> QED  BY <3>1, <3>2, <3>3, <3>4 DEF NoteInv, NotedOf
  <2> QED  BY <2>1, <2>2
<1>3. ASSUME NEW s \in Syncs, CallDisengage(s) \/ ExitNext(s) PROVE NoteInv'
  BY <1>2, <1>3 DEF CallDisengage, ExitNext
<1>4. ASSUME NEW n \in Nodes, Examine(n) PROVE NoteInv'
  <2>1. /\ \A m \in Nodes : m # n => found'[m] = found[m]
        /\ found'[n] \in {ToRestore(n), Unknown}
        /\ UNCHANGED <<mode, origin, suspect, asFound>>
    BY <1>4 DEF Examine, TypeOK, Found
  <2>2. Value # Unknown
    BY Notes
  <2>3. \A m \in Nodes : found'[m] # Value
    BY <2>1, <2>2, NotedIsSafe DEF NoteInv, NotedOf
  <2>4. NotedOf(n)'
    BY <2>1, NotedIsSafe DEF NoteInv, NotedOf, Applied
  <2>5. \A m \in Nodes : NotedOf(m)'
    BY <2>1, <2>4 DEF NoteInv, NotedOf, Applied
  <2> QED  BY <2>1, <2>3, <2>5 DEF NoteInv, NotedOf, Applied
<1>5. ASSUME NEW n \in Nodes, WriteConfirmed(n) \/ WriteFails(n) \/ WriteUnconfirmed(n) PROVE NoteInv'
  <2>1. CASE UNCHANGED <<mode, origin, suspect>>
    BY <1>5, <2>1, FrameNoteInv DEF WriteConfirmed, WriteFails, WriteUnconfirmed
  <2>2. CASE Touch(n) /\ ~UNCHANGED <<mode, origin, suspect>>
    <3>1. /\ suspect \subseteq suspect' /\ UNCHANGED <<found, asFound>>
          /\ \A m \in Nodes : m # n => mode'[m] = mode[m]
          /\ n \in suspect' \/ mode'[n] = Value
      BY <1>5, <2>2 DEF WriteConfirmed, WriteFails, WriteUnconfirmed, Doubt, Settled, TypeOK
    <3> QED  BY <2>2, <3>1, TouchTyped, WriteNoteInv
  <2> QED  BY <1>5, <2>1, <2>2 DEF WriteConfirmed, WriteFails, WriteUnconfirmed
<1>6. CASE StartTrigger
  <2>1. /\ asFound' = [asFound EXCEPT ![sync] = found] /\ found' = Nothing
        /\ UNCHANGED <<mode, origin, suspect>>
    BY <1>6 DEF StartTrigger, Return
  <2>2. \A n \in Nodes : origin[n] # Unknown
    BY <1>6 DEF StartTrigger, LoopInv
  <2>3. asFound'[sync] = found /\ \A s \in Syncs : s # sync => asFound'[s] = asFound[s]
    BY <2>1 DEF TypeOK
  <2>4. \A n \in Nodes : found'[n] = Unknown /\ Unknown # Value
    BY <2>1, Notes
  <2>5. \A s \in Syncs : Applied(s)' => \A n \in Nodes : asFound'[s][n] # Value
    BY <2>3 DEF NoteInv, NotedOf, Applied
  <2>6. ASSUME NEW n \in Nodes PROVE NotedOf(n)'
    BY <2>1, <2>2, <2>3, <2>4 DEF NoteInv, NotedOf, Applied
  <2> QED  BY <2>4, <2>5, <2>6 DEF NoteInv, NotedOf, Applied
<1>7. CASE StartTriggerRaises
  BY <1>7, FrameNoteInv DEF StartTriggerRaises
<1>8. ASSUME NEW n \in Nodes, Restore(n) PROVE NoteInv'
  <2>1. CASE Doubt(n) /\ UNCHANGED mode
    BY <1>8, <2>1, FrameNoteInv DEF Restore, Doubt
  <2>2. CASE found[n] # Unknown /\ mode' = [mode EXCEPT ![n] = found[n]] /\ Settled(n)
    <3>1. origin[n] # Unknown /\ UNCHANGED <<origin, suspect, found, asFound>>
      BY <1>8, <2>2 DEF Restore, Settled, LoopInv
    <3>2. n \in suspect \/ found[n] \in {Default, origin[n]}
      BY <2>2, <3>1 DEF NoteInv, NotedOf
    <3>3. mode'[n] = found[n] /\ \A m \in Nodes : m # n => mode'[m] = mode[m]
      BY <2>2 DEF TypeOK
    <3> QED  BY <3>1, <3>2, <3>3, WriteNoteInv
  <2> QED  BY <1>8, <2>1, <2>2 DEF Restore
<1>9. CASE ExamineRaises \/ Restored \/ StopLeftover
  BY <1>9, FrameNoteInv DEF ExamineRaises, Restored, StopLeftover, Return
<1>10. CASE CallExit \/ Exited \/ CallFreeRun
  BY <1>10, FrameNoteInv DEF CallExit, Exited, CallFreeRun, Call
<1>11. ASSUME NEW n \in Nodes, ResetNode(n) PROVE NoteInv'
  <2>1. found = Nothing /\ found[n] = Unknown
    BY <1>11, Notes DEF ResetNode, CallInv
  <2>2. mode'[n] = Default /\ \A m \in Nodes : m # n => mode'[m] = mode[m]
    BY <1>11 DEF ResetNode, TypeOK
  <2> QED  BY <1>11, <2>1, <2>2, WriteNoteInv DEF ResetNode, Settled
<1>12. ASSUME NEW n \in Nodes, ResetRaises(n) PROVE NoteInv'
  <2>1. found = Nothing /\ found' = Nothing
    BY <1>12 DEF ResetRaises, CallInv, Return
  <2>2. \A m \in Nodes : m # n => mode'[m] = mode[m]
    BY <1>12 DEF ResetRaises, TypeOK
  <2> QED  BY <1>12, <2>1, <2>2, WriteNoteInv DEF ResetRaises, Doubt
<1>13. CASE Killed \/ Launch
  <2>1. /\ \A n \in Nodes : found'[n] = Unknown /\ origin'[n] = Unknown /\ Unknown # Value
        /\ \A s \in Syncs : ~Applied(s)'
    BY <1>13, Notes DEF Killed, Launch, Applied, CallInv
  <2> QED  BY <2>1 DEF NoteInv, NotedOf
<1>14. CASE HandStarts \/ HandStops \/ UNCHANGED vars
  BY <1>14, FrameNoteInv DEF HandStarts, HandStops, vars
<1> QED
  BY <1>1, <1>3, <1>4, <1>5, <1>6, <1>7, <1>8, <1>9, <1>10, <1>11, <1>12, <1>13, <1>14 DEF Next

-----------------------------------------------------------------------------
(* Clean nodes.                                                             *)

(* No node is touched; with no sync left engaged the same nodes, or all of   *)
(* them, are in hand.                                                       *)
LEMMA FrameCleanInv ==
  ASSUME CleanInv, UNCHANGED <<mode, origin, doubt, suspect>>,
         \/ engaged' # {}
         \/ engaged = {} /\ \A n \in Nodes : InHand(n) => InHand(n)'
         \/ \A n \in Nodes : InHand(n)'
  PROVE  CleanInv'
BY DEF CleanInv, Clean

(* One node is written to: it is in hand, or clean.                         *)
LEMMA WriteCleanInv ==
  ASSUME CleanInv, NEW n \in Nodes, engaged' = engaged,
         \A m \in Nodes : m # n => mode'[m] = mode[m] /\ origin'[m] = origin[m]
                                   /\ (m \in doubt' <=> m \in doubt)
                                   /\ (m \in suspect' <=> m \in suspect)
                                   /\ (InHand(m) => InHand(m)'),
         engaged = {} => InHand(n)' \/ Clean(n)'
  PROVE  CleanInv'
BY DEF CleanInv, Clean

LEMMA NextCleanInv ==
  TypeOK /\ CallInv /\ LoopInv /\ NoteInv /\ CleanInv /\ [Next]_vars => CleanInv'
<1> SUFFICES ASSUME TypeOK, CallInv, LoopInv, NoteInv, CleanInv, [Next]_vars PROVE CleanInv'
  OBVIOUS
<1> USE DEF rig, memory, frame, doubts, hist
<1>1. ASSUME NEW s \in Syncs, CallEngage(s) PROVE CleanInv'
  BY <1>1, FrameCleanInv DEF CallEngage, Call, Idle, CallInv, InHand
<1>2. ASSUME NEW s \in Syncs, NEW o \in {"disengage", "exit"}, Disengage(o, s), pc = "idle"
      PROVE CleanInv'
  <2>1. CASE Applied(s)
    BY <1>2, <2>1, DisengageForgets, FrameCleanInv DEF InHand
  <2>2. CASE ~Applied(s)
    BY <1>2, <2>2, DisengageForgets, FrameCleanInv DEF InHand
  <2> QED  BY <2>1, <2>2
<1>3. ASSUME NEW s \in Syncs, CallDisengage(s) \/ ExitNext(s) PROVE CleanInv'
  BY <1>2, <1>3 DEF CallDisengage, ExitNext, Idle, CallInv
<1>4. ASSUME NEW n \in Nodes, Examine(n) PROVE CleanInv'
  BY <1>4, FrameCleanInv DEF Examine, InHand, CleanInv
<1>5. ASSUME NEW n \in Nodes, WriteConfirmed(n) PROVE CleanInv'
  <2>1. InHand(n)' /\ \A m \in Nodes : InHand(m) => InHand(m)'
    BY <1>5 DEF WriteConfirmed, InHand, Goto
  <2>2. \A m \in Nodes : m # n => mode'[m] = mode[m] /\ origin'[m] = origin[m]
    BY <1>5, TouchTyped DEF WriteConfirmed, TypeOK
  <2> QED  BY <1>5, <2>1, <2>2, WriteCleanInv DEF WriteConfirmed, Settled
<1>6. ASSUME NEW n \in Nodes, WriteFails(n) PROVE CleanInv'
  <2>1. \A m \in Nodes : InHand(m) => InHand(m)'
    BY <1>6 DEF WriteFails, InHand, Goto
  <2>2. CASE UNCHANGED <<mode, origin, doubts>>
    BY <1>6, <2>1, <2>2, FrameCleanInv DEF WriteFails, CleanInv
  <2>3. CASE mode' = [mode EXCEPT ![n] = Value] /\ Touch(n) /\ Doubt(n)
    <3>1. \A m \in Nodes : m # n => mode'[m] = mode[m] /\ origin'[m] = origin[m]
      BY <2>3, TouchTyped DEF TypeOK
    <3>2. Clean(n)'
      BY <2>3 DEF Doubt, Clean
    <3> QED  BY <1>6, <2>1, <2>3, <3>1, <3>2, WriteCleanInv DEF WriteFails, Doubt
  <2> QED  BY <1>6, <2>2, <2>3 DEF WriteFails
<1>7. ASSUME NEW n \in Nodes, WriteUnconfirmed(n) PROVE CleanInv'
  <2>1. InHand(n)' /\ \A m \in Nodes : InHand(m) => InHand(m)'
    BY <1>7 DEF WriteUnconfirmed, InHand, Goto
  <2>2. \A m \in Nodes : m # n => mode'[m] = mode[m] /\ origin'[m] = origin[m]
    BY <1>7, TouchTyped DEF WriteUnconfirmed, TypeOK
  <2> QED  BY <1>7, <2>1, <2>2, WriteCleanInv DEF WriteUnconfirmed
<1>8. CASE StartTrigger
  BY <1>8, FrameCleanInv DEF StartTrigger, TypeOK
<1>9. CASE StartTriggerRaises
  BY <1>9, FrameCleanInv DEF StartTriggerRaises, Goto, InHand
<1>10. ASSUME NEW n \in Nodes, Restore(n) PROVE CleanInv'
  <2>1. pc' = "undo" /\ \A m \in Nodes : m # n /\ InHand(m) => InHand(m)'
    BY <1>10 DEF Restore, Goto, InHand
  <2>2. CASE Doubt(n) /\ UNCHANGED mode
    BY <1>10, <2>1, <2>2, WriteCleanInv DEF Restore, Doubt, Clean
  <2>3. CASE found[n] # Unknown /\ mode' = [mode EXCEPT ![n] = found[n]] /\ Settled(n)
    <3>1. mode'[n] = found[n] /\ \A m \in Nodes : m # n => mode'[m] = mode[m]
      BY <2>3 DEF TypeOK
    <3>2. origin[n] # Unknown /\ UNCHANGED <<origin, suspect, engaged>>
      BY <1>10, <2>3 DEF Restore, Settled, LoopInv
    <3>3. found[n] # Value /\ (n \notin suspect => found[n] \in {Default, origin[n]})
      BY <2>3, <3>2 DEF NoteInv, NotedOf
    <3>4. Clean(n)'
      BY <3>1, <3>2, <3>3 DEF Clean
    <3> QED  BY <2>1, <2>3, <3>1, <3>2, <3>4, WriteCleanInv DEF Settled
  <2> QED  BY <1>10, <2>2, <2>3 DEF Restore
<1>11. CASE ExamineRaises \/ Restored \/ StopLeftover
  BY <1>11, FrameCleanInv DEF ExamineRaises, Restored, StopLeftover, Return, InHand, CleanInv
<1>12. CASE CallExit \/ Exited \/ CallFreeRun
  BY <1>12, FrameCleanInv DEF CallExit, Exited, CallFreeRun, Call, InHand, CleanInv, Idle, CallInv
<1>13. ASSUME NEW n \in Nodes, ResetNode(n) PROVE CleanInv'
  <2>1. mode'[n] = Default /\ \A m \in Nodes : m # n => mode'[m] = mode[m]
    BY <1>13 DEF ResetNode, TypeOK
  <2>2. Clean(n)' /\ \A m \in Nodes : ~InHand(m)
    BY <1>13, <2>1, Notes DEF Clean, InHand, ResetNode
  <2> QED  BY <1>13, <2>1, <2>2, WriteCleanInv DEF ResetNode, Settled
<1>14. ASSUME NEW n \in Nodes, ResetRaises(n) PROVE CleanInv'
  <2>1. \A m \in Nodes : m # n => mode'[m] = mode[m]
    BY <1>14 DEF ResetRaises, TypeOK
  <2>2. Clean(n)' /\ \A m \in Nodes : ~InHand(m)
    BY <1>14 DEF Clean, InHand, ResetRaises, Doubt
  <2> QED  BY <1>14, <2>1, <2>2, WriteCleanInv DEF ResetRaises, Doubt
<1>15. CASE Killed \/ Launch
  BY <1>15, Notes DEF Killed, Launch, CleanInv, Clean
<1>16. CASE HandStarts \/ HandStops \/ UNCHANGED vars
  BY <1>16, FrameCleanInv DEF HandStarts, HandStops, vars, InHand, CleanInv
<1> QED
  BY <1>1, <1>3, <1>4, <1>5, <1>6, <1>7, <1>8, <1>9, <1>10, <1>11, <1>12, <1>13, <1>14, <1>15,
     <1>16 DEF Next

-----------------------------------------------------------------------------
(* The theorems.                                                            *)

LEMMA NextSyncInv == SyncInv /\ [Next]_vars => SyncInv'
BY NextTypeOK, NextCallInv, NextLoopInv, NextResultInv, NextNoteInv, NextCleanInv DEF SyncInv

(* Whatever call fails wherever, is repeated or killed, the memories of the  *)
(* syncs, the loops over the nodes and the notes to restore agree with the   *)
(* rig.                                                                     *)
THEOREM SyncInvariant == Spec => []SyncInv
BY InitSyncInv, NextSyncInv, PTL DEF Spec

(* Every variable of the GMSL sync and its rig keeps its type.              *)
THEOREM TypeCorrect == Spec => []TypeOK
<1>1. SyncInv => TypeOK
  BY DEF SyncInv
<1> QED  BY <1>1, SyncInvariant, PTL

(* An engage() that returned drives all nodes, until a call or a hand        *)
(* touches the rig.                                                         *)
THEOREM EngagedDrives == Spec => []EngagedMeansDriven
<1>1. SyncInv => EngagedMeansDriven
  BY DEF SyncInv, ResultInv, EngagedMeansDriven
<1> QED  BY <1>1, SyncInvariant, PTL

(* With no sync engaged and no call in progress, nothing that this process   *)
(* applied is left on the rig, but for what a failed command excuses.       *)
THEOREM LeavesNothing == Spec => []NothingLeftBehind
<1>1. SyncInv => NothingLeftBehind
  <2> SUFFICES ASSUME SyncInv, engaged = {}, op = "idle"
               PROVE  /\ pulse = "app" => stray # "none"
                      /\ \A n \in Nodes \ doubt : origin[n] # Unknown => mode[n] # Value
                      /\ \A n \in Nodes \ suspect : origin[n] # Unknown => mode[n] \in {origin[n], Default}
    BY DEF NothingLeftBehind
  <2>1. \A n \in Nodes : Clean(n)
    BY DEF SyncInv, CleanInv, InHand, CallInv
  <2> QED  BY <2>1 DEF Clean, SyncInv, ResultInv
<1> QED  BY <1>1, SyncInvariant, PTL

(* A GmslFreeRunGuard that returned left no node in external sync and no     *)
(* trigger pulsing.                                                         *)
THEOREM FreeRunIsFree == Spec => []FreeRunMeansFree
<1>1. SyncInv => FreeRunMeansFree
  BY DEF SyncInv, ResultInv, FreeRunMeansFree
<1> QED  BY <1>1, SyncInvariant, PTL

(* No late disengage and no exit stops a trigger somebody started by hand.  *)
THEOREM HandTriggerSurvives == Spec => []HandTriggerKept
<1>1. SyncInv => HandTriggerKept
  BY DEF SyncInv, ResultInv, HandTriggerKept
<1> QED  BY <1>1, SyncInvariant, PTL
=============================================================================
