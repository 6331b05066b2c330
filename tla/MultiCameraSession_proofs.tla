---------------------- MODULE MultiCameraSession_proofs ----------------------
(* Proofs about MultiCameraSession, for any set of cameras, any rigs and    *)
(* any number of Starts.                                                    *)
EXTENDS MultiCameraSession, TLAPS

LEMMA InitTypeOK == Init => TypeOK
<1> SUFFICES ASSUME Init PROVE TypeOK
  OBVIOUS
<1>1. phase \in [Runs -> [Cameras -> Phases]] /\ stop \in [Runs -> [Cameras -> BOOLEAN]]
  BY DEF Init, Phases
<1>2. /\ posted \in [Runs -> [Cameras -> 0 .. 2]] /\ handled \in [Runs -> [Cameras -> 0 .. 2]]
      /\ finishedRows \in [Runs -> [Cameras -> {"absent", "empty", "recorded"}]]
  BY DEF Init
<1>3. /\ threads \in [Runs -> SUBSET Cameras] /\ applied \in [Runs -> SUBSET Cameras]
      /\ sharedPanel \in [Runs -> BOOLEAN] /\ engaged \in [Runs -> BOOLEAN]
      /\ announced \in [Runs -> Nat]
  BY DEF Init
<1>4. run \in 0 .. MaxRuns
  BY ConstantsAssumption DEF Init
<1>5. QED
  BY <1>1, <1>2, <1>3, <1>4 DEF Init, TypeOK

(* An aborted start, the undoing of roles, and what it may fail to turn off. *)
LEMMA AbortTyped ==
  ASSUME TypeOK, NEW lost \in SUBSET rig.synced, NEW kept \in SUBSET TurnedOn(run),
         StartAborted(lost, kept)
  PROVE  /\ gui' = "idle" /\ running' = FALSE /\ pending' = {}
         /\ unreset' \subseteq Cameras /\ unstopped' \subseteq {"panels", "trigger"}
         /\ UNCHANGED <<rig, overlapped, run, threads, finishedRows, announced, threadVars>>
BY ConstantsAssumption DEF TypeOK, RigType, TurnedOn, StartAborted

LEMMA ResetTyped ==
  ASSUME TypeOK, NEW r, NEW lost, ResetGenlockRoles(r, lost)
  PROVE  role' \in [Cameras -> {"default", "assigned"}] /\ applied' \in [Runs -> SUBSET Cameras]
BY DEF TypeOK, ResetGenlockRoles

(* The starting page keeps every variable in its range.                     *)
LEMMA StartAllTypeOK == TypeOK /\ StartAllStep => TypeOK'
<1> SUFFICES ASSUME TypeOK, StartAllStep PROVE TypeOK'
  OBVIOUS
<1> USE ConstantsAssumption DEF TypeOK, Runs, Phases, Capturing, Cleaning, StartStages,
    guiVars, ctlVars, threadVars, hardware, fixed, RigType
<1>1. CASE StartAllEntered
  BY <1>1 DEF StartAllEntered
<1>2. CASE StartAllRejected
  BY <1>2 DEF StartAllRejected, StartAborted
<1>3. CASE ResetsDone \/ RolesDone \/ StartAllReturns
  BY <1>3 DEF ResetsDone, RolesDone, StartAllReturns
<1>4. ASSUME NEW c \in Cameras, HardwareReset(c) \/ HardwareResetRaises(c) PROVE TypeOK'
  BY <1>4 DEF HardwareReset, HardwareResetRaises, StartAborted
<1>5. ASSUME NEW c \in Cameras, AssignRole(c) PROVE TypeOK'
  BY <1>5 DEF AssignRole
<1>6. ASSUME NEW c \in Cameras, RoleUnsupported(c) \/ RoleRaises(c) PROVE TypeOK'
  <2>1. CASE RoleUnsupported(c)
    BY <2>1, AbortTyped, ResetTyped DEF RoleUnsupported
  <2>2. CASE RoleRaises(c)
    BY <2>2 DEF RoleRaises, StartAborted
  <2> QED  BY <1>6, <2>1, <2>2
<1>7. CASE EngageGmsl
  BY <1>7 DEF EngageGmsl
<1>8. CASE EngageGmslRaises
  BY <1>8, AbortTyped, ResetTyped DEF EngageGmslRaises
<1>9. CASE ArmSharedPanels
  BY <1>9 DEF ArmSharedPanels, Shared
<1>10. CASE ArmSharedPanelsRaises
  BY <1>10, AbortTyped, ResetTyped DEF ArmSharedPanelsRaises, Disengage
<1>11. ASSUME NEW c \in Cameras, StartThread(c) PROVE TypeOK'
  BY <1>11 DEF StartThread
<1>12. ASSUME NEW c \in Cameras, FirstThreadRaises(c) PROVE TypeOK'
  BY <1>12, AbortTyped DEF FirstThreadRaises, StopSharedPanels, Disengage
<1>13. ASSUME NEW c \in Cameras, LaterThreadRaises(c) PROVE TypeOK'
  BY <1>13 DEF LaterThreadRaises, RequestStop
<1>14. QED
  BY <1>1, <1>2, <1>3, <1>4, <1>5, <1>6, <1>7, <1>8, <1>9, <1>10, <1>11, <1>12, <1>13
  DEF StartAllStep

LEMMA ThreadTypeOK ==
  ASSUME TypeOK, NEW r \in Runs, NEW c \in Cameras, ThreadStep(r, c)
  PROVE  TypeOK'
<1>1. phase' \in [Runs -> [Cameras -> Phases]] /\ posted' \in [Runs -> [Cameras -> 0 .. 2]]
  <2>1. PICK to \in Phases, signals \in 0 .. 2 :
          phase' = [phase EXCEPT ![r][c] = to] /\ posted' = [posted EXCEPT ![r][c] = signals]
    BY DEF ThreadStep, Advance, ArmPanel, SetupRaises, Stream, LeaveLoop, CloseCapture,
      CloseCaptureRaises, FinishThread, Phases, Capturing, Cleaning
  <2>2. QED
    BY <2>1 DEF TypeOK
<1>2. panel' \in {"stopped", "scanning"}
  BY DEF TypeOK, ThreadStep, ArmPanel, SetupRaises, Stream, LeaveLoop, CloseCapture,
    CloseCaptureRaises, FinishThread
<1>3. UNCHANGED <<fixed, guiVars, ctlVars, stop, handled, role, trigger>>
  BY DEF ThreadStep, Advance, ArmPanel, SetupRaises, Stream, LeaveLoop, CloseCapture,
    CloseCaptureRaises, FinishThread
<1>4. QED
  BY <1>1, <1>2, <1>3 DEF TypeOK, fixed, guiVars, ctlVars

LEMMA HandlerTypeOK ==
  ASSUME TypeOK, NEW r \in Runs, NEW c \in Cameras, HandleSignal(r, c)
  PROVE  TypeOK'
<1>1. CASE OnSessionFinished(r, c)
  BY <1>1 DEF OnSessionFinished, TypeOK, guiVars, hardware, fixed
<1>2. CASE OnThreadFinished(r, c)
  <2>1. finishedRows' \in [Runs -> [Cameras -> {"absent", "empty", "recorded"}]]
    BY <1>2 DEF OnThreadFinished, WithDefaultRows, TypeOK
  <2>2. handled' \in [Runs -> [Cameras -> 0 .. 2]]
    BY <1>2 DEF OnThreadFinished, TypeOK
  <2>3. UNCHANGED <<fixed, gui, run, pending, threads, phase, stop, posted>>
    BY <1>2 DEF OnThreadFinished
  <2>4. CASE Teardown(r)
    <3>1. applied' \in [Runs -> SUBSET Cameras] /\ role' \in [Cameras -> {"default", "assigned"}]
      BY <2>4 DEF Teardown, ResetGenlockRoles, TypeOK
    <3>2. sharedPanel' \in [Runs -> BOOLEAN] /\ panel' \in {"stopped", "scanning"}
      BY <2>4 DEF Teardown, StopSharedPanels, TypeOK
    <3>3. /\ engaged' \in [Runs -> BOOLEAN]
          /\ trigger' \in BOOLEAN
      <4>1. engaged' = [engaged EXCEPT ![r] = FALSE] /\ (trigger' = FALSE \/ trigger' = trigger)
        BY <2>4 DEF Teardown, Disengage
      <4>2. QED
        BY <4>1 DEF TypeOK
    <3>4. announced' \in [Runs -> Nat]
      <4>1. announced[r] + 1 \in Nat
        BY DEF TypeOK
      <4>2. QED
        BY <2>4, <4>1 DEF Teardown, TypeOK
    <3>5. QED
      BY <2>1, <2>2, <2>3, <2>4, <3>1, <3>2, <3>3, <3>4 DEF TypeOK, Teardown, fixed
  <2>5. CASE UNCHANGED <<running, applied, sharedPanel, engaged, announced, hardware>>
    BY <2>1, <2>2, <2>3, <2>5 DEF TypeOK, hardware, fixed
  <2>6. QED
    BY <1>2, <2>4, <2>5 DEF OnThreadFinished
<1>3. QED
  BY <1>1, <1>2 DEF HandleSignal

LEMMA OperatorTypeOK ==
  TypeOK /\ (StartClicked \/ StopClicked \/ BackClicked \/ BackReturns) => TypeOK'
<1> SUFFICES ASSUME TypeOK PROVE StartClicked \/ StopClicked \/ BackClicked \/ BackReturns => TypeOK'
  OBVIOUS
<1>1. ASSUME StartClicked PROVE TypeOK'
  <2>1. run' \in 0 .. MaxRuns /\ gui' \in StartStages
    BY <1>1, ConstantsAssumption DEF StartClicked, TypeOK, StartStages
  <2>2. overlapped' \in BOOLEAN /\ running' \in BOOLEAN
    BY <1>1 DEF StartClicked, TypeOK
  <2>3. QED
    BY <1>1, <2>1, <2>2 DEF StartClicked, TypeOK, ctlVars, threadVars, hardware
<1>2. ASSUME StopClicked \/ BackClicked PROVE TypeOK'
  <2>1. stop' \in [Runs -> [Cameras -> BOOLEAN]]
    <3> DEFINE asked == [c \in Cameras |-> IF c \in threads[run] THEN TRUE ELSE stop[run][c]]
    <3>1. stop' = [stop EXCEPT ![run] = asked]
      BY <1>2 DEF StopClicked, BackClicked, RequestStop
    <3>2. CASE run \in Runs
      <4>1. stop[run] \in [Cameras -> BOOLEAN]
        BY <3>2 DEF TypeOK
      <4>2. asked \in [Cameras -> BOOLEAN]
        BY <4>1
      <4>3. QED
        BY <3>1, <4>2 DEF TypeOK
    <3>3. CASE run \notin Runs
      BY <3>1, <3>3 DEF TypeOK
    <3>4. QED
      BY <3>2, <3>3
  <2>2. gui' \in {"idle", "waiting"} \cup StartStages
    BY <1>2 DEF StopClicked, BackClicked, TypeOK, guiVars
  <2>3. UNCHANGED <<fixed, run, running, pending, ctlVars, phase, posted, handled, hardware>>
    BY <1>2 DEF StopClicked, BackClicked, guiVars
  <2>4. QED
    BY <2>1, <2>2, <2>3 DEF TypeOK, fixed, ctlVars, hardware
<1>3. ASSUME BackReturns PROVE TypeOK'
  BY <1>3 DEF BackReturns, TypeOK, ctlVars, threadVars, hardware, fixed
<1>4. QED
  BY <1>1, <1>2, <1>3

LEMMA NextTypeOK == TypeOK /\ [Next]_vars => TypeOK'
<1> SUFFICES ASSUME TypeOK, [Next]_vars PROVE TypeOK'
  OBVIOUS
<1>1. CASE UNCHANGED vars
  BY <1>1 DEF vars, TypeOK, guiVars, ctlVars, threadVars, hardware, fixed
<1>2. QED
  BY <1>1, StartAllTypeOK, ThreadTypeOK, HandlerTypeOK, OperatorTypeOK DEF Next, OperatorRests

(* Every variable stays in its range, for any rigs and any number of Starts. *)
THEOREM TypeCorrect == Spec => []TypeOK
BY InitTypeOK, NextTypeOK, PTL DEF Spec

-----------------------------------------------------------------------------
(* The inductive invariant.                                                 *)

(* A camera's thread is registered exactly when it exists, the signals it   *)
(* posted tell where it is, those handled follow them, and the rows are     *)
(* recorded with the first.                                                 *)
ThreadInv ==
  \A r \in Runs, c \in Cameras :
    /\ c \in threads[r] <=> phase[r][c] # "none"
    /\ phase[r][c] \in Capturing \cup {"none"} => posted[r][c] = 0
    /\ phase[r][c] \in Cleaning => posted[r][c] = 1
    /\ phase[r][c] = "done" => posted[r][c] = 2
    /\ handled[r][c] <= posted[r][c]
    /\ finishedRows[r][c] = IF handled[r][c] = 0 THEN "absent" ELSE "recorded"

InStart(r) == r = run /\ gui \in StartStages

\* A controller not built yet holds nothing.
Fresh(r) ==
  threads[r] = {} /\ applied[r] = {} /\ ~sharedPanel[r] /\ ~engaged[r] /\ announced[r] = 0

Released(r) == applied[r] = {} /\ ~sharedPanel[r] /\ ~engaged[r]

(* What holds of controller r when its start is over: it announces with the *)
(* last signal, only once every camera reported, and having let go.         *)
RunInv(r) ==
  /\ r > run => Fresh(r)
  /\ (\E c \in Cameras : phase[r][c] \in Capturing) => Held(r)
  /\ announced[r] > 0 =>
       Released(r) /\ threads[r] # {} /\ \A c \in threads[r] : handled[r][c] # 0
  /\ ~InStart(r) =>
       /\ threads[r] = {} => ~sharedPanel[r] /\ ~engaged[r]
       /\ Settled(r) => announced[r] > 0

(* How far the start in progress has come.                                  *)
StageInv ==
  gui \in StartStages =>
    /\ run \in Runs
    /\ announced[run] = 0
    /\ \A c \in Cameras : handled[run][c] = 0
    /\ gui # "threads" => threads[run] = {} /\ ~sharedPanel[run]
    /\ gui \in {"pumping", "resets"} => applied[run] = {}
    /\ gui \in {"pumping", "resets", "genlock", "engage"} => ~engaged[run]
    /\ gui = "genlock" => applied[run] \cup pending = rig.synced
    /\ gui \in {"engage", "panels"} => applied[run] = rig.synced
    /\ gui = "panels" => engaged[run] = (rig.gmsl = "tsc")
    /\ gui = "threads" => /\ Held(run)
                          /\ threads[run] \cup pending = Cameras
                          /\ threads[run] \cap pending = {}

IInv == TypeOK /\ ThreadInv /\ StageInv /\ \A r \in Runs : RunInv(r)

LEMMA InitIInv == Init => IInv
<1> SUFFICES ASSUME Init PROVE IInv
  OBVIOUS
<1>1. TypeOK
  BY InitTypeOK
<1>2. ThreadInv
  BY DEF Init, ThreadInv, Capturing, Cleaning
<1>3. StageInv
  BY DEF Init, StageInv, StartStages
<1>4. ASSUME NEW r \in Runs PROVE RunInv(r)
  BY DEF Init, RunInv, Fresh, Released, InStart, Settled, StartStages, Capturing
<1>5. QED
  BY <1>1, <1>2, <1>3, <1>4 DEF IInv

(* What a controller holds depends on its own fields and the rig only.      *)
LEMMA HeldFrame ==
  ASSUME NEW r, rig' = rig, applied'[r] = applied[r], sharedPanel'[r] = sharedPanel[r],
         engaged'[r] = engaged[r]
  PROVE  Held(r)' <=> Held(r)
BY DEF Held, Shared, DualCameras

(* A step that leaves a run alone, and does not end its start, keeps its    *)
(* invariant.                                                               *)
LEMMA RunFrame ==
  ASSUME NEW r \in Runs, RunInv(r), rig' = rig, r > run' => r > run,
         InStart(r)' <=> InStart(r),
         threads'[r] = threads[r], phase'[r] = phase[r], handled'[r] = handled[r],
         applied'[r] = applied[r], sharedPanel'[r] = sharedPanel[r],
         engaged'[r] = engaged[r], announced'[r] = announced[r]
  PROVE  RunInv(r)'
<1>1. Held(r)' <=> Held(r)
  BY HeldFrame
<1>2. Settled(r)' <=> Settled(r)
  BY DEF Settled, InStart
<1>3. QED
  BY <1>1, <1>2 DEF RunInv, Fresh, Released

LEMMA StageFrame ==
  ASSUME StageInv, UNCHANGED <<rig, gui, run, pending, threads, applied, sharedPanel, engaged, announced>>,
         gui \in StartStages => handled'[run] = handled[run]
  PROVE  StageInv'
<1>1. Shared' = Shared
  BY DEF Shared, DualCameras
<1>2. Held(run)' <=> Held(run)
  BY <1>1 DEF Held
<1>3. QED
  BY <1>2 DEF StageInv

LEMMA ThreadInvFrame ==
  ThreadInv /\ UNCHANGED <<threads, phase, posted, handled, finishedRows>> => ThreadInv'
BY DEF ThreadInv

(* Every step of start_all concerns the last controller only, and handles   *)
(* no signal.                                                               *)
Untouched(r) ==
  /\ threads'[r] = threads[r] /\ phase'[r] = phase[r]
  /\ applied'[r] = applied[r] /\ sharedPanel'[r] = sharedPanel[r]
  /\ engaged'[r] = engaged[r]

OnlyCurrent ==
  /\ gui \in StartStages
  /\ gui' \in StartStages \cup {"idle"}
  /\ UNCHANGED <<rig, run, finishedRows, announced, posted, handled>>
  /\ \A r \in Runs : r # run => Untouched(r)

LEMMA StartAllFrame == TypeOK /\ StartAllStep => OnlyCurrent
<1> SUFFICES ASSUME TypeOK, StartAllStep PROVE OnlyCurrent
  OBVIOUS
<1> USE DEF fixed, ctlVars, threadVars, StartStages, Untouched, TypeOK, OnlyCurrent
<1>1. CASE StartAllEntered \/ StartAllRejected \/ ResetsDone \/ RolesDone \/ StartAllReturns
  BY <1>1 DEF StartAllEntered, StartAllRejected, ResetsDone, RolesDone, StartAllReturns, StartAborted
<1>2. ASSUME NEW c \in Cameras, HardwareReset(c) \/ HardwareResetRaises(c) \/ RoleRaises(c)
      PROVE  OnlyCurrent
  BY <1>2 DEF HardwareReset, HardwareResetRaises, RoleRaises, StartAborted
<1>3. ASSUME NEW c \in Cameras, AssignRole(c) \/ RoleUnsupported(c)
      PROVE  OnlyCurrent
  BY <1>3 DEF AssignRole, RoleUnsupported, StartAborted, ResetGenlockRoles
<1>4. CASE EngageGmsl \/ EngageGmslRaises
  BY <1>4 DEF EngageGmsl, EngageGmslRaises, StartAborted, ResetGenlockRoles
<1>5. CASE ArmSharedPanels \/ ArmSharedPanelsRaises
  BY <1>5 DEF ArmSharedPanels, ArmSharedPanelsRaises, StartAborted, ResetGenlockRoles, Disengage
<1>6. ASSUME NEW c \in Cameras, StartThread(c) \/ FirstThreadRaises(c) \/ LaterThreadRaises(c)
      PROVE  OnlyCurrent
  BY <1>6 DEF StartThread, FirstThreadRaises, LaterThreadRaises, StartAborted, StopSharedPanels,
    Disengage
<1>7. QED
  BY <1>1, <1>2, <1>3, <1>4, <1>5, <1>6 DEF StartAllStep

LEMMA StartAllThreadInv == TypeOK /\ ThreadInv /\ StageInv /\ StartAllStep => ThreadInv'
<1> SUFFICES ASSUME TypeOK, ThreadInv, StageInv, StartAllStep PROVE ThreadInv'
  OBVIOUS
<1>1. ASSUME NEW c \in Cameras, StartThread(c) PROVE ThreadInv'
  <2>1. run \in Runs /\ phase[run][c] = "none"
    BY <1>1 DEF StartThread, StageInv, StartStages, ThreadInv
  <2>2. phase' = [phase EXCEPT ![run][c] = "starting"] /\ threads' = [threads EXCEPT ![run] = @ \cup {c}]
    BY <1>1 DEF StartThread
  <2>3. UNCHANGED <<posted, handled, finishedRows>>
    BY <1>1 DEF StartThread
  <2>4. SUFFICES ASSUME NEW r \in Runs, NEW d \in Cameras
                 PROVE  /\ d \in threads'[r] <=> phase'[r][d] # "none"
                        /\ phase'[r][d] = phase[r][d] \/ (phase[r][d] = "none" /\ phase'[r][d] = "starting")
    BY <2>3 DEF ThreadInv, Capturing, Cleaning
  <2>5. CASE r = run /\ d = c
    BY <2>1, <2>2, <2>5 DEF TypeOK
  <2>6. CASE ~(r = run /\ d = c)
    BY <2>1, <2>2, <2>6 DEF TypeOK, ThreadInv
  <2>7. QED
    BY <2>5, <2>6
<1>2. ASSUME \A c \in Cameras : ~StartThread(c) PROVE ThreadInv'
  <2>1. UNCHANGED <<threads, phase, posted, handled, finishedRows>>
    BY <1>2 DEF StartAllStep, StartAllEntered, StartAllRejected, ResetsDone, RolesDone,
      StartAllReturns, StartAborted, HardwareReset, HardwareResetRaises, RoleRaises, AssignRole,
      RoleUnsupported, EngageGmsl, EngageGmslRaises, ArmSharedPanels, ArmSharedPanelsRaises,
      FirstThreadRaises, LaterThreadRaises, ctlVars, threadVars
  <2>2. QED
    BY <2>1, ThreadInvFrame
<1>3. QED
  BY <1>1, <1>2

(* An ending start: back in the event loop.                                 *)
StartEnds ==
  \/ StartAllRejected \/ EngageGmslRaises \/ ArmSharedPanelsRaises \/ StartAllReturns
  \/ \E c \in Cameras : HardwareResetRaises(c) \/ RoleUnsupported(c) \/ RoleRaises(c)
                        \/ FirstThreadRaises(c) \/ LaterThreadRaises(c)

\* It has let go of everything, or its threads have what they need.
EndsWell(r) ==
  /\ threads[r] = {} => ~sharedPanel[r] /\ ~engaged[r]
  /\ threads[r] # {} => Held(r)

LEMMA StartAllStageInv == TypeOK /\ StageInv /\ StartAllStep => StageInv'
<1> SUFFICES ASSUME TypeOK, StageInv, StartAllStep PROVE StageInv'
  OBVIOUS
<1>1. /\ run \in Runs /\ announced[run] = 0 /\ \A c \in Cameras : handled[run][c] = 0
      /\ UNCHANGED <<rig, run, announced, handled>>
  BY StartAllFrame DEF StageInv, OnlyCurrent
<1> USE <1>1 DEF StageInv, StartStages
<1>2. CASE StartEnds
  BY <1>2 DEF StartEnds, StartAllRejected, EngageGmslRaises, ArmSharedPanelsRaises, StartAllReturns,
    HardwareResetRaises, RoleUnsupported, RoleRaises, FirstThreadRaises, LaterThreadRaises,
    StartAborted
<1>3. CASE StartAllEntered
  BY <1>3 DEF StartAllEntered, ctlVars
<1>4. ASSUME NEW c \in Cameras, HardwareReset(c) PROVE StageInv'
  BY <1>4 DEF HardwareReset, ctlVars
<1>5. CASE ResetsDone
  BY <1>5 DEF ResetsDone, ctlVars
<1>6. ASSUME NEW c \in Cameras, AssignRole(c) PROVE StageInv'
  <2>1. applied'[run] = applied[run] \cup {c} /\ pending' = pending \ {c} /\ c \in pending
    BY <1>6 DEF AssignRole, NextForRole, TypeOK
  <2>2. applied'[run] \cup pending' = applied[run] \cup pending
    BY <2>1
  <2>3. QED
    BY <1>6, <2>2 DEF AssignRole
<1>7. CASE RolesDone
  BY <1>7 DEF RolesDone, ctlVars
<1>8. CASE EngageGmsl
  BY <1>8 DEF EngageGmsl, TypeOK
<1>9. CASE ArmSharedPanels
  <2>1. Shared' = Shared
    BY DEF Shared, DualCameras
  <2>2. Held(run)'
    BY <1>9, <2>1 DEF ArmSharedPanels, Held, TypeOK
  <2>3. threads'[run] = {} /\ pending' = Cameras /\ gui' = "threads"
    BY <1>9 DEF ArmSharedPanels
  <2>4. QED
    BY <2>2, <2>3
<1>10. ASSUME NEW c \in Cameras, StartThread(c) PROVE StageInv'
  <2>1. Held(run) /\ gui = "threads" /\ gui' = "threads" /\ UNCHANGED <<applied, sharedPanel, engaged>>
    BY <1>10 DEF StartThread
  <2>2. Held(run)'
    BY <2>1, HeldFrame
  <2>3. threads'[run] = threads[run] \cup {c} /\ pending' = pending \ {c} /\ c \in pending
    BY <1>10 DEF StartThread, TypeOK
  <2>4. threads'[run] \cup pending' = Cameras /\ threads'[run] \cap pending' = {}
    BY <2>1, <2>3
  <2>5. QED
    BY <2>1, <2>2, <2>4
<1>11. QED
  BY <1>2, <1>3, <1>4, <1>5, <1>6, <1>7, <1>8, <1>9, <1>10 DEF StartAllStep, StartEnds

(* A start in progress holds what its capturing threads need.               *)
LEMMA StartAllRunInv ==
  ASSUME IInv, StartAllStep, NEW r \in Runs
  PROVE  RunInv(r)'
<1>1. OnlyCurrent /\ ThreadInv' /\ StageInv'
  BY StartAllFrame, StartAllThreadInv, StartAllStageInv DEF IInv
<1>2. CASE r # run
  <2>1. RunInv(r) /\ (InStart(r)' <=> InStart(r))
    BY <1>1, <1>2 DEF IInv, OnlyCurrent, InStart
  <2>2. QED
    BY <1>1, <1>2, <2>1, RunFrame DEF OnlyCurrent, Untouched
<1>3. CASE r = run /\ gui' \in StartStages
  <2>1. announced'[r] = 0 /\ InStart(r)' /\ ~(r > run')
    BY <1>1, <1>3 DEF OnlyCurrent, StageInv, InStart, IInv, TypeOK
  <2>2. ASSUME NEW c \in Cameras, phase'[r][c] \in Capturing PROVE Held(r)'
    <3>1. c \in threads'[r]
      BY <1>1, <2>2 DEF ThreadInv, Capturing
    <3>2. run' = r /\ gui' = "threads"
      BY <1>1, <1>3, <3>1 DEF StageInv, OnlyCurrent
    <3>3. QED
      BY <1>1, <1>3, <3>2 DEF StageInv, Held
  <2>3. QED
    BY <2>1, <2>2 DEF RunInv
<1>4. CASE r = run /\ gui' = "idle"
  <2>1. announced'[r] = 0 /\ ~(r > run') /\ \A c \in Cameras : handled'[r][c] = 0
    BY <1>1, <1>4 DEF OnlyCurrent, StageInv, IInv, TypeOK
  <2>2. StartEnds
    BY <1>4 DEF StartAllStep, StartEnds, StartAllEntered, HardwareReset, ResetsDone, AssignRole,
      RolesDone, EngageGmsl, ArmSharedPanels, StartThread
  <2>3. ASSUME StartAllReturns \/ \E c \in Cameras : LaterThreadRaises(c)
        PROVE  EndsWell(r)'
    <3>1. /\ threads' = threads /\ threads[r] # {} /\ gui = "threads"
          /\ UNCHANGED <<rig, applied, sharedPanel, engaged>>
      BY <1>1, <1>4, <2>3, ConstantsAssumption
      DEF StartAllReturns, LaterThreadRaises, ctlVars, fixed, StageInv, IInv, OnlyCurrent
    <3>2. Held(r)
      BY <1>1, <1>4, <3>1 DEF StageInv, IInv, OnlyCurrent
    <3>3. Held(r)'
      BY <3>1, <3>2, HeldFrame
    <3>4. QED
      BY <3>1, <3>3 DEF EndsWell
  <2>4. ASSUME \E c \in Cameras : FirstThreadRaises(c)
        PROVE  EndsWell(r)'
    <3>1. threads'[r] = {}
      BY <1>4, <2>4 DEF FirstThreadRaises, StartAborted
    <3>2. ~sharedPanel'[r] /\ ~engaged'[r]
      BY <1>4, <2>4 DEF FirstThreadRaises, StopSharedPanels, Disengage, IInv, TypeOK
    <3>3. QED
      BY <3>1, <3>2 DEF EndsWell
  <2>5. ASSUME \/ StartAllRejected \/ EngageGmslRaises \/ ArmSharedPanelsRaises
               \/ \E c \in Cameras : HardwareResetRaises(c) \/ RoleUnsupported(c) \/ RoleRaises(c)
        PROVE  EndsWell(r)'
    <3>1. threads' = threads /\ sharedPanel' = sharedPanel
      BY <2>5 DEF StartAllRejected, EngageGmslRaises, ArmSharedPanelsRaises, HardwareResetRaises,
        RoleUnsupported, RoleRaises, StartAborted
    <3>2. gui \in StartStages \ {"threads"}
      BY <2>5 DEF StartAllRejected, EngageGmslRaises, ArmSharedPanelsRaises, HardwareResetRaises,
        RoleUnsupported, RoleRaises, StartStages
    <3>3. threads[r] = {} /\ ~sharedPanel[r]
      BY <1>4, <3>2 DEF StageInv, IInv
    <3>4. ~engaged'[r]
      <4>1. CASE ArmSharedPanelsRaises
        BY <1>4, <4>1 DEF ArmSharedPanelsRaises, Disengage, IInv, TypeOK
      <4>2. CASE ~ArmSharedPanelsRaises
        <5>1. engaged' = engaged /\ gui \in {"pumping", "resets", "genlock", "engage"}
          BY <2>5, <4>2 DEF StartAllRejected, EngageGmslRaises, HardwareResetRaises, RoleUnsupported,
            RoleRaises
        <5>2. QED
          BY <1>4, <5>1 DEF StageInv, IInv, StartStages
      <4>3. QED
        BY <4>1, <4>2
    <3>5. QED
      BY <3>1, <3>3, <3>4 DEF EndsWell
  <2>6. EndsWell(r)'
    BY <2>2, <2>3, <2>4, <2>5 DEF StartEnds
  <2>7. ASSUME NEW c \in Cameras, phase'[r][c] \in Capturing PROVE Held(r)'
    BY <1>1, <2>6, <2>7 DEF ThreadInv, Capturing, EndsWell
  <2>8. ~Settled(r)'
    BY <2>1, StartAllTypeOK DEF Settled, IInv, TypeOK
  <2>9. QED
    BY <2>1, <2>6, <2>7, <2>8 DEF RunInv, EndsWell
<1>5. QED
  BY <1>1, <1>2, <1>3, <1>4 DEF OnlyCurrent

(* A camera thread only changes its own phase and count of signals, and     *)
(* never starts capturing again.                                            *)
LEMMA ThreadStepIInv ==
  ASSUME IInv, NEW r \in Runs, NEW c \in Cameras, ThreadStep(r, c)
  PROVE  IInv'
<1>1. TypeOK'
  BY ThreadTypeOK DEF IInv
<1>2. UNCHANGED <<rig, gui, run, pending, ctlVars, handled>>
  BY DEF ThreadStep, Advance, ArmPanel, SetupRaises, Stream, LeaveLoop, CloseCapture,
    CloseCaptureRaises, FinishThread, fixed, guiVars
<1>3. PICK to \in Phases, signals \in 0 .. 2 :
        /\ phase' = [phase EXCEPT ![r][c] = to]
        /\ posted' = [posted EXCEPT ![r][c] = signals]
        /\ phase[r][c] \in Capturing \cup Cleaning
        /\ posted[r][c] <= signals
        /\ \/ to \in Capturing /\ signals = 0 /\ phase[r][c] \in Capturing
           \/ to \in Cleaning /\ signals = 1
           \/ to = "done" /\ signals = 2
  BY DEF ThreadStep, Advance, ArmPanel, SetupRaises, Stream, LeaveLoop, CloseCapture,
    CloseCaptureRaises, FinishThread, Phases, Capturing, Cleaning, IInv, ThreadInv, TypeOK
<1>4. ThreadInv'
  <2> SUFFICES ASSUME NEW q \in Runs, NEW d \in Cameras
               PROVE  /\ d \in threads[q] <=> phase'[q][d] # "none"
                      /\ phase'[q][d] \in Capturing \cup {"none"} => posted'[q][d] = 0
                      /\ phase'[q][d] \in Cleaning => posted'[q][d] = 1
                      /\ phase'[q][d] = "done" => posted'[q][d] = 2
                      /\ handled[q][d] <= posted'[q][d]
    BY <1>2 DEF ThreadInv, IInv, ctlVars
  <2>1. CASE q = r /\ d = c
    <3>1. phase'[q][d] = to /\ posted'[q][d] = signals
      BY <1>3, <2>1 DEF IInv, TypeOK
    <3>2. handled[r][c] <= signals
      <4>1. handled[r][c] \in 0 .. 2 /\ posted[r][c] \in 0 .. 2
        BY DEF IInv, TypeOK
      <4>2. handled[r][c] <= posted[r][c]
        BY DEF IInv, ThreadInv
      <4>3. QED
        BY <1>3, <4>1, <4>2
    <3>3. c \in threads[r]
      BY <1>3 DEF IInv, ThreadInv, Capturing, Cleaning
    <3>4. QED
      BY <1>3, <2>1, <3>1, <3>2, <3>3 DEF Capturing, Cleaning
  <2>2. CASE ~(q = r /\ d = c)
    <3>1. phase'[q][d] = phase[q][d] /\ posted'[q][d] = posted[q][d]
      BY <1>3, <2>2 DEF IInv, TypeOK
    <3>2. QED
      BY <3>1 DEF IInv, ThreadInv
  <2>3. QED
    BY <2>1, <2>2
<1>5. StageInv'
  BY <1>2, StageFrame DEF IInv, ctlVars
<1>6. ASSUME NEW q \in Runs PROVE RunInv(q)'
  <2>1. Held(q)' <=> Held(q)
    BY <1>2, HeldFrame DEF ctlVars
  <2>2. Settled(q)' <=> Settled(q)
    BY <1>2 DEF Settled, ctlVars
  <2>3. (\E d \in Cameras : phase'[q][d] \in Capturing) => \E d \in Cameras : phase[q][d] \in Capturing
    BY <1>3 DEF IInv, TypeOK, Capturing, Cleaning
  <2>4. QED
    BY <1>2, <2>1, <2>2, <2>3 DEF IInv, RunInv, Fresh, Released, InStart, ctlVars
<1>7. QED
  BY <1>1, <1>4, <1>5, <1>6 DEF IInv

(* A handled signal is never of the run whose start is in progress.         *)
LEMMA HandlerNotInStart ==
  ASSUME IInv, NEW r \in Runs, NEW c \in Cameras, EventLoop, posted[r][c] # 0
  PROVE  ~InStart(r) /\ c \in threads[r]
<1>1. c \in threads[r]
  BY DEF IInv, ThreadInv
<1>2. QED
  BY <1>1 DEF EventLoop, InStart, StageInv, IInv, StartStages

\* Nothing is handled of a thread that does not exist or still captures.
LEMMA IdleThreadUnhandled ==
  ASSUME IInv, NEW r \in Runs, NEW c \in Cameras, phase[r][c] \in Capturing \cup {"none"}
  PROVE  handled[r][c] = 0
<1>1. handled[r][c] \in 0 .. 2
  BY DEF IInv, TypeOK
<1>2. handled[r][c] <= 0
  BY DEF IInv, ThreadInv
<1>3. QED
  BY <1>1, <1>2

LEMMA OnSessionFinishedIInv ==
  ASSUME IInv, NEW r \in Runs, NEW c \in Cameras, OnSessionFinished(r, c)
  PROVE  IInv'
<1>1. TypeOK'
  BY HandlerTypeOK DEF IInv, HandleSignal
<1>2. /\ EventLoop /\ handled[r][c] = 0 /\ posted[r][c] >= 1
      /\ handled' = [handled EXCEPT ![r][c] = 1]
      /\ finishedRows' = [finishedRows EXCEPT ![r][c] = "recorded"]
      /\ UNCHANGED <<rig, gui, run, pending, threads, applied, sharedPanel, engaged, announced,
                     phase, posted>>
  BY DEF OnSessionFinished, fixed, guiVars
<1>3. ~InStart(r) /\ c \in threads[r]
  BY <1>2, HandlerNotInStart DEF IInv, TypeOK
<1>4. ThreadInv'
  <2> SUFFICES ASSUME NEW q \in Runs, NEW d \in Cameras
               PROVE  /\ handled'[q][d] <= posted[q][d]
                      /\ finishedRows'[q][d] = IF handled'[q][d] = 0 THEN "absent" ELSE "recorded"
    BY <1>2 DEF ThreadInv, IInv
  <2>1. CASE q = r /\ d = c
    BY <1>2, <2>1 DEF IInv, TypeOK
  <2>2. CASE ~(q = r /\ d = c)
    BY <1>2, <2>2 DEF IInv, TypeOK, ThreadInv
  <2>3. QED
    BY <2>1, <2>2
<1>5. StageInv'
  <2>1. gui \in StartStages => handled'[run] = handled[run]
    BY <1>2, <1>3 DEF InStart, StageInv, IInv, TypeOK
  <2>2. QED
    BY <1>2, <2>1, StageFrame DEF IInv
<1>6. ASSUME NEW q \in Runs PROVE RunInv(q)'
  <2>1. CASE q # r
    BY <1>2, <2>1, RunFrame DEF IInv, TypeOK, InStart
  <2>2. CASE q = r
    <3>1. Held(r)' <=> Held(r)
      BY <1>2, HeldFrame
    <3>2. handled'[r][c] = 1 /\ \A d \in Cameras : handled[r][d] # 0 => handled'[r][d] # 0
      BY <1>2 DEF IInv, TypeOK
    <3>3. ~Settled(r)'
      BY <1>2, <1>3, <3>2 DEF Settled
    <3>4. \A d \in threads[r] : handled[r][d] # 0 => handled'[r][d] # 0
      BY <3>2 DEF IInv, TypeOK
    <3>5. QED
      BY <1>2, <2>2, <3>1, <3>3, <3>4 DEF IInv, RunInv, Fresh, Released, InStart
  <2>3. QED
    BY <2>1, <2>2
<1>7. QED
  BY <1>1, <1>4, <1>5, <1>6 DEF IInv

(* A Qt finished: the teardown happens only when every camera of the run    *)
(* reported, so none of them is capturing; and with the last one it does    *)
(* happen.                                                                  *)
LEMMA OnThreadFinishedIInv ==
  ASSUME IInv, NEW r \in Runs, NEW c \in Cameras, OnThreadFinished(r, c)
  PROVE  IInv'
<1>1. TypeOK'
  BY HandlerTypeOK DEF IInv, HandleSignal
<1>2. /\ EventLoop /\ handled[r][c] = 1 /\ posted[r][c] = 2
      /\ handled' = [handled EXCEPT ![r][c] = 2]
      /\ UNCHANGED <<rig, gui, run, pending, threads, phase, posted>>
  BY DEF OnThreadFinished, fixed
<1>3. ~InStart(r) /\ c \in threads[r]
  BY <1>2, HandlerNotInStart
<1>4. finishedRows' = finishedRows
  <2>1. finishedRows[r][c] = "recorded"
    BY <1>2 DEF IInv, ThreadInv
  <2>2. QED
    BY <2>1 DEF OnThreadFinished, WithDefaultRows, IInv, TypeOK
<1>5. \A d \in Cameras : finishedRows[r][d] # "absent" <=> handled[r][d] # 0
  BY DEF IInv, ThreadInv
<1>6. handled'[r][c] = 2 /\ \A d \in Cameras : handled'[r][d] # 0 <=> handled[r][d] # 0
  BY <1>2 DEF IInv, TypeOK
<1>7. ThreadInv'
  <2> SUFFICES ASSUME NEW q \in Runs, NEW d \in Cameras
               PROVE  /\ handled'[q][d] <= posted[q][d]
                      /\ finishedRows[q][d] = IF handled'[q][d] = 0 THEN "absent" ELSE "recorded"
    BY <1>2, <1>4 DEF ThreadInv, IInv
  <2>1. CASE q = r /\ d = c
    BY <1>2, <2>1 DEF IInv, TypeOK, ThreadInv
  <2>2. CASE ~(q = r /\ d = c)
    BY <1>2, <2>2 DEF IInv, TypeOK, ThreadInv
  <2>3. QED
    BY <2>1, <2>2
<1>8. gui \in StartStages => run # r /\ run \in Runs
  BY <1>3 DEF InStart, IInv, StageInv
<1>9. CASE AllCamerasReported(r, finishedRows'[r])
  <2>1. Teardown(r)
    BY <1>9 DEF OnThreadFinished
  <2>2. /\ applied' = [applied EXCEPT ![r] = {}]
        /\ sharedPanel' = [sharedPanel EXCEPT ![r] = FALSE]
        /\ engaged' = [engaged EXCEPT ![r] = FALSE]
        /\ announced' = [announced EXCEPT ![r] = @ + 1]
    BY <2>1 DEF Teardown, ResetGenlockRoles, StopSharedPanels, Disengage
  <2>3. \A q \in Runs : q # r =>
          /\ applied'[q] = applied[q] /\ sharedPanel'[q] = sharedPanel[q]
          /\ engaged'[q] = engaged[q] /\ announced'[q] = announced[q]
          /\ handled'[q] = handled[q]
    BY <1>2, <2>2 DEF IInv, TypeOK
  <2>4. StageInv'
    BY <1>2, <1>8, <2>3, HeldFrame DEF IInv, StageInv
  <2>5. ASSUME NEW q \in Runs PROVE RunInv(q)'
    <3>1. CASE q # r
      BY <1>2, <2>3, <3>1, RunFrame DEF IInv, InStart
    <3>2. CASE q = r
      <4>1. applied'[r] = {} /\ ~sharedPanel'[r] /\ ~engaged'[r] /\ announced'[r] > 0
        BY <2>2 DEF IInv, TypeOK
      <4>2. \A d \in threads[r] : handled[r][d] # 0
        BY <1>4, <1>5, <1>9 DEF AllCamerasReported
      <4>3. \A d \in Cameras : phase[r][d] \notin Capturing
        BY <4>2, IdleThreadUnhandled DEF IInv, ThreadInv, Capturing
      <4>4. r <= run
        BY <1>3 DEF IInv, RunInv, Fresh, TypeOK, Runs
      <4>5. \A d \in threads[r] : handled'[r][d] # 0
        BY <1>6, <4>2 DEF IInv, TypeOK
      <4>6. QED
        BY <1>2, <1>3, <3>2, <4>1, <4>3, <4>4, <4>5 DEF RunInv, Released, Settled, IInv, TypeOK, Runs
    <3>3. QED
      BY <3>1, <3>2
  <2>6. QED
    BY <1>1, <1>7, <2>4, <2>5 DEF IInv
<1>10. CASE ~AllCamerasReported(r, finishedRows'[r])
  <2>1. UNCHANGED <<applied, sharedPanel, engaged, announced>>
    BY <1>10 DEF OnThreadFinished
  <2>2. {d \in Cameras : finishedRows[r][d] # "absent"} # threads[r]
    BY <1>4, <1>10 DEF AllCamerasReported
  <2>3. \A q \in Runs : q # r => handled'[q] = handled[q]
    BY <1>2 DEF IInv, TypeOK
  <2>4. StageInv'
    BY <1>2, <1>8, <2>1, <2>3, StageFrame DEF IInv
  <2>5. ASSUME NEW q \in Runs PROVE RunInv(q)'
    <3>1. CASE q # r
      BY <1>2, <2>1, <2>3, <3>1, RunFrame DEF IInv, InStart
    <3>2. CASE q = r
      <4>1. PICK d \in Cameras : d \in threads[r] /\ handled[r][d] = 0
        <5>1. threads[r] \subseteq Cameras
          BY DEF IInv, TypeOK
        <5>2. ASSUME NEW d \in Cameras, d \notin threads[r] PROVE handled[r][d] = 0
          BY <5>2, IdleThreadUnhandled DEF IInv, ThreadInv, Capturing
        <5>3. QED
          BY <1>5, <2>2, <5>1, <5>2
      <4>2. ~Settled(r)'
        BY <1>2, <1>6, <4>1 DEF Settled
      <4>3. Held(r)' <=> Held(r)
        BY <1>2, <2>1, HeldFrame
      <4>4. \A e \in threads[r] : handled'[r][e] # 0 <=> handled[r][e] # 0
        BY <1>6 DEF IInv, TypeOK
      <4>5. QED
        BY <1>2, <2>1, <3>2, <4>2, <4>3, <4>4 DEF IInv, RunInv, Fresh, Released, InStart
    <3>3. QED
      BY <3>1, <3>2
  <2>6. QED
    BY <1>1, <1>7, <2>4, <2>5 DEF IInv
<1>11. QED
  BY <1>9, <1>10

(* The operator's clicks start a fresh controller, or only ask and wait.    *)
LEMMA OperatorIInv ==
  ASSUME IInv, StartClicked \/ StopClicked \/ BackClicked \/ BackReturns
  PROVE  IInv'
<1>1. TypeOK'
  BY OperatorTypeOK DEF IInv
<1>2. UNCHANGED <<rig, pending, ctlVars, phase, posted, handled>>
  BY DEF StartClicked, StopClicked, BackClicked, BackReturns, fixed, guiVars, threadVars
<1>3. ThreadInv'
  BY <1>2, ThreadInvFrame DEF IInv, ctlVars
<1>4. CASE StartClicked
  <2>1. run' = run + 1 /\ gui = "idle" /\ gui' = "pumping" /\ run' \in Runs
    BY <1>4, ConstantsAssumption DEF StartClicked, Runs, IInv, TypeOK
  <2>2. Fresh(run')
    BY <2>1 DEF IInv, RunInv, TypeOK
  <2>3. StageInv'
    <3>1. \A d \in Cameras : handled[run'][d] = 0
      BY <2>1, <2>2 DEF IInv, ThreadInv, TypeOK, Fresh
    <3>2. QED
      BY <1>2, <2>1, <2>2, <3>1 DEF StageInv, Fresh, ctlVars, StartStages
  <2>4. ASSUME NEW r \in Runs PROVE RunInv(r)'
    <3>1. CASE r # run'
      BY <1>2, <2>1, <3>1, RunFrame DEF IInv, InStart, ctlVars, StartStages, TypeOK, Runs
    <3>2. CASE r = run'
      <4>1. InStart(r)' /\ ~(r > run') /\ announced'[r] = 0
        BY <1>2, <2>1, <2>2, <3>2 DEF InStart, StartStages, Fresh, ctlVars, Runs
      <4>2. \A d \in Cameras : phase'[r][d] \notin Capturing
        BY <1>2, <2>2, <3>2 DEF Fresh, IInv, ThreadInv, Capturing
      <4>3. QED
        BY <4>1, <4>2 DEF RunInv
    <3>3. QED
      BY <3>1, <3>2
  <2>5. QED
    BY <1>1, <1>3, <2>3, <2>4 DEF IInv
<1>5. CASE StopClicked \/ BackClicked \/ BackReturns
  <2>1. run' = run /\ (gui' = gui \/ (gui \notin StartStages /\ gui' \notin StartStages))
    BY <1>5 DEF StopClicked, BackClicked, BackReturns, guiVars, StartStages
  <2>2. StageInv'
    BY <1>2, <2>1, StageFrame DEF IInv, StageInv, ctlVars
  <2>3. ASSUME NEW r \in Runs PROVE RunInv(r)'
    BY <1>2, <2>1, RunFrame DEF IInv, InStart, ctlVars
  <2>4. QED
    BY <1>1, <1>3, <2>2, <2>3 DEF IInv
<1>6. QED
  BY <1>4, <1>5

LEMMA NextIInv == IInv /\ [Next]_vars => IInv'
<1> SUFFICES ASSUME IInv, [Next]_vars PROVE IInv'
  OBVIOUS
<1>1. CASE StartAllStep
  BY <1>1, StartAllTypeOK, StartAllThreadInv, StartAllStageInv, StartAllRunInv DEF IInv
<1>2. CASE UNCHANGED vars
  <2>1. UNCHANGED <<rig, gui, run, pending, threads, finishedRows, applied, sharedPanel, engaged,
                    announced, phase, posted, handled>>
    BY <1>2 DEF vars, fixed, guiVars, ctlVars, threadVars
  <2>2. TypeOK' /\ ThreadInv' /\ StageInv'
    BY <1>2, <2>1, NextTypeOK, ThreadInvFrame, StageFrame DEF IInv
  <2>3. ASSUME NEW r \in Runs PROVE RunInv(r)'
    BY <2>1, RunFrame DEF IInv, InStart
  <2>4. QED
    BY <2>2, <2>3 DEF IInv
<1>3. QED
  BY <1>1, <1>2, ThreadStepIInv, OnSessionFinishedIInv, OnThreadFinishedIInv, OperatorIInv
  DEF Next, HandleSignal, OperatorRests

(* The inductive invariant holds throughout: what a controller holds follows *)
(* from its threads' phases, signals and rows (start_all,                   *)
(* _on_session_finished_rows, _on_thread_finished).                         *)
THEOREM Invariance == Spec => []IInv
BY InitIInv, NextIInv, PTL DEF Spec

-----------------------------------------------------------------------------
(* No controller ever gives up its run's roles, panels or trigger while one *)
(* of its cameras is still capturing (_on_thread_finished and start_all's   *)
(* failure paths).                                                          *)
THEOREM HeldWhileCapturingThm == Spec => []HeldWhileCapturing
<1>1. IInv => HeldWhileCapturing
  BY DEF IInv, RunInv, HeldWhileCapturing
<1>2. QED
  BY <1>1, Invariance, PTL

(* No finish is lost: a run whose signals were all handled was announced    *)
(* and holds nothing (_on_thread_finished).                                 *)
THEOREM SettledRunReleasedThm == Spec => []SettledRunReleased
<1>1. IInv => SettledRunReleased
  BY DEF IInv, RunInv, SettledRunReleased, Released, Settled, InStart
<1>2. QED
  BY <1>1, Invariance, PTL

(* all_sessions_finished never carries the empty default rows.              *)
THEOREM AnnouncedRowsCompleteThm == Spec => []AnnouncedRowsComplete
<1>1. IInv => AnnouncedRowsComplete
  BY DEF IInv, RunInv, ThreadInv, AnnouncedRowsComplete, TypeOK
<1>2. QED
  BY <1>1, Invariance, PTL

(* Once a free-running baseline passed its guard the trigger is off until   *)
(* start_all is over.                                                       *)
GuardInv == gui \in {"panels", "threads"} /\ rig.gmsl = "guard" => ~trigger

LEMMA NextGuardInv == TypeOK /\ GuardInv /\ [Next]_vars => GuardInv'
<1> SUFFICES ASSUME TypeOK, GuardInv, [Next]_vars PROVE GuardInv'
  OBVIOUS
<1>1. CASE UNCHANGED vars
  BY <1>1 DEF GuardInv, vars, fixed, guiVars, hardware
<1>2. CASE StartClicked \/ StopClicked \/ BackClicked \/ BackReturns \/ OperatorRests
  BY <1>2 DEF GuardInv, StartClicked, StopClicked, BackClicked, BackReturns, OperatorRests, vars,
     fixed, guiVars, hardware
<1>3. CASE StartAllEntered \/ StartAllRejected \/ ResetsDone \/ RolesDone \/ StartAllReturns
  BY <1>3 DEF GuardInv, StartAllEntered, StartAllRejected, ResetsDone, RolesDone, StartAllReturns,
     StartAborted, fixed, hardware
<1>4. ASSUME NEW c \in Cameras,
             HardwareReset(c) \/ HardwareResetRaises(c) \/ AssignRole(c) \/ RoleUnsupported(c)
             \/ RoleRaises(c)
      PROVE  GuardInv'
  BY <1>4 DEF GuardInv, HardwareReset, HardwareResetRaises, AssignRole, RoleUnsupported, RoleRaises,
     StartAborted, fixed, hardware
<1>5. CASE EngageGmsl \/ EngageGmslRaises \/ ArmSharedPanels \/ ArmSharedPanelsRaises
  BY <1>5 DEF GuardInv, EngageGmsl, EngageGmslRaises, ArmSharedPanels, ArmSharedPanelsRaises,
     StartAborted, Disengage, fixed, hardware
<1>6. ASSUME NEW c \in Cameras, StartThread(c) \/ FirstThreadRaises(c) \/ LaterThreadRaises(c)
      PROVE  GuardInv'
  BY <1>6 DEF GuardInv, StartThread, FirstThreadRaises, LaterThreadRaises, StartAborted, fixed, hardware
<1>7. ASSUME NEW r \in Runs, NEW c \in Cameras, HandleSignal(r, c) \/ ThreadStep(r, c)
      PROVE  GuardInv'
  <2>1. UNCHANGED <<rig, gui>> /\ (trigger' = trigger \/ trigger' = FALSE)
    BY <1>7 DEF HandleSignal, OnSessionFinished, OnThreadFinished, Teardown, Disengage, ThreadStep,
       Advance, ArmPanel, SetupRaises, Stream, LeaveLoop, CloseCapture, CloseCaptureRaises,
       FinishThread, fixed, guiVars, hardware
  <2> QED  BY <2>1 DEF GuardInv
<1> QED
  BY <1>1, <1>2, <1>3, <1>4, <1>5, <1>6, <1>7 DEF Next, StartAllStep

(* The steps that end a start before any thread exists.                     *)
LEMMA StartFailsBy ==
  ASSUME IInv, Next, StartFails
  PROVE  \/ StartAllRejected \/ EngageGmslRaises \/ ArmSharedPanelsRaises
         \/ \E c \in Cameras : HardwareResetRaises(c) \/ RoleUnsupported(c) \/ RoleRaises(c)
                              \/ FirstThreadRaises(c)
<1>1. ~(StartClicked \/ StopClicked \/ BackClicked \/ BackReturns \/ OperatorRests)
  BY DEF StartFails, StartStages, StartClicked, StopClicked, BackClicked, BackReturns, OperatorRests,
     vars, guiVars
<1>2. ASSUME NEW r \in Runs, NEW c \in Cameras, HandleSignal(r, c) \/ ThreadStep(r, c) PROVE FALSE
  <2>1. gui' = gui
    BY <1>2 DEF HandleSignal, OnSessionFinished, OnThreadFinished, ThreadStep, Advance, ArmPanel,
       SetupRaises, Stream, LeaveLoop, CloseCapture, CloseCaptureRaises, FinishThread, guiVars
  <2> QED  BY <2>1 DEF StartFails, StartStages
<1>3. ~StartAllReturns
  <2> SUFFICES ASSUME StartAllReturns PROVE FALSE
    OBVIOUS
  <2>1. threads[run] \cup pending = Cameras /\ threads' = threads /\ pending = {}
    BY DEF StartAllReturns, IInv, StageInv, StartStages, ctlVars
  <2> QED  BY <2>1, ConstantsAssumption DEF StartFails
<1>4. ASSUME NEW c \in Cameras, LaterThreadRaises(c) PROVE FALSE
  BY <1>4 DEF LaterThreadRaises, StartFails, ctlVars
<1>5. ASSUME NEW c \in Cameras, HardwareReset(c) \/ AssignRole(c) \/ StartThread(c) PROVE FALSE
  BY <1>5 DEF HardwareReset, AssignRole, StartThread, StartFails, StartStages
<1>6. ~(StartAllEntered \/ ResetsDone \/ RolesDone \/ EngageGmsl \/ ArmSharedPanels)
  BY DEF StartAllEntered, ResetsDone, RolesDone, EngageGmsl, ArmSharedPanels, StartFails, StartStages
<1> QED
  BY <1>1, <1>2, <1>3, <1>4, <1>5, <1>6 DEF Next, StartAllStep

(* A reset of the roles leaves each camera at the default or in the loss.   *)
LEMMA RolesReset ==
  ASSUME TypeOK, run \in Runs, NEW lost \in SUBSET rig.synced, ResetGenlockRoles(run, lost),
         unreset' = lost
  PROVE  applied'[run] = {} /\ \A c \in applied[run] : role'[c] = "default" \/ c \in unreset'
BY DEF ResetGenlockRoles, TypeOK

(* A start that fails before any thread exists gives back the roles, trigger *)
(* and panels it took, on every path that tries, but for what fails to be    *)
(* undone (start_all's failure paths).                                      *)
THEOREM FailedStartReleasesThm == Spec => FailedStartReleasesHardware
<1>1. ASSUME IInv, GuardInv, [Next]_vars PROVE [StartFails => TakesBack]_vars
  <2> SUFFICES ASSUME Next, StartFails PROVE TakesBack
    BY <1>1
  <2> USE <1>1
  <2>1. TypeOK /\ run \in Runs /\ StageInv
    BY DEF IInv, StageInv, StartFails
  <2>2. CASE StartAllRejected \/ \E c \in Cameras : HardwareResetRaises(c)
    <3>1. applied[run] = {} /\ gui \notin {"engage", "panels", "threads"}
      BY <2>1, <2>2 DEF StageInv, StartAllRejected, HardwareResetRaises, StartFails
    <3> QED  BY <3>1 DEF TakesBack
  <2>3. ASSUME NEW c \in Cameras, RoleUnsupported(c) PROVE TakesBack
    BY <2>1, <2>3, RolesReset DEF TakesBack, RoleUnsupported, StartAborted
  <2>4. ASSUME NEW c \in Cameras, RoleRaises(c) PROVE TakesBack
    <3>1. gui = "genlock" /\ applied' = applied
      BY <2>4 DEF RoleRaises
    <3> QED  BY <3>1 DEF TakesBack
  <2>5. CASE EngageGmslRaises
    BY <2>1, <2>5, RolesReset DEF TakesBack, EngageGmslRaises, StartAborted
  <2>6. CASE ArmSharedPanelsRaises
    <3>1. PICK lost \in SUBSET rig.synced, kept \in SUBSET TurnedOn(run) :
            StartAborted(lost, kept) /\ ResetGenlockRoles(run, lost) /\ Disengage(run, kept)
      BY <2>6 DEF ArmSharedPanelsRaises
    <3>2. gui = "panels" /\ unreset' = lost /\ unstopped' = kept
      BY <2>6, <3>1 DEF ArmSharedPanelsRaises, StartAborted
    <3>3. rig.gmsl # "none" => ~trigger' \/ "trigger" \in unstopped'
      <4>1. engaged[run] = (rig.gmsl = "tsc") /\ rig.gmsl \in GmslKinds
        BY <2>1, <3>2, ConstantsAssumption DEF StageInv, StartStages, TypeOK, RigType
      <4> QED  BY <3>1, <3>2, <4>1 DEF Disengage, GuardInv, GmslKinds
    <3> QED  BY <2>1, <3>1, <3>2, <3>3, RolesReset DEF TakesBack
  <2>7. ASSUME NEW c \in Cameras, FirstThreadRaises(c) PROVE TakesBack
    <3>1. PICK kept \in SUBSET TurnedOn(run) :
            StartAborted({}, kept) /\ StopSharedPanels(run, kept) /\ Disengage(run, kept)
      BY <2>7 DEF FirstThreadRaises
    <3>2. gui = "threads" /\ applied' = applied /\ unstopped' = kept
      BY <2>7, <3>1 DEF FirstThreadRaises, StartAborted
    <3>3. Held(run) /\ rig.gmsl \in GmslKinds
      BY <2>1, <3>2, ConstantsAssumption DEF StageInv, StartStages, TypeOK, RigType
    <3>4. rig.gmsl # "none" => ~trigger' \/ "trigger" \in unstopped'
      BY <3>1, <3>2, <3>3 DEF Held, Disengage, GuardInv, GmslKinds
    <3>5. Shared => panel' = "stopped" \/ "panels" \in unstopped'
      BY <3>1, <3>2, <3>3 DEF Held, StopSharedPanels
    <3> QED  BY <3>2, <3>4, <3>5 DEF TakesBack
  <2> QED  BY <2>2, <2>3, <2>4, <2>5, <2>6, <2>7, StartFailsBy
<1>2. Init => GuardInv
  BY DEF Init, GuardInv
<1>3. IInv => TypeOK
  BY DEF IInv
<1>4. Spec => []GuardInv
  BY <1>2, <1>3, NextGuardInv, Invariance, PTL DEF Spec
<1> QED
  BY <1>1, <1>4, Invariance, PTL DEF Spec, FailedStartReleasesHardware
-----------------------------------------------------------------------------
(* RigBacksCapture.  Without an overlapping start every earlier run was     *)
(* announced, and so holds nothing it could take back, or never had a       *)
(* thread; the hardware is then what the last controller recorded of it.    *)

RigOfRun ==
  \A r \in Runs : r = run =>
    /\ \A c \in applied[r] : role[c] = "assigned"
    /\ sharedPanel[r] => Shared /\ panel = "scanning"
    /\ engaged[r] => trigger
    /\ rig.gmsl = "guard" /\ (gui \in {"panels", "threads"} \/ threads[r] # {}) => ~trigger

EarlierRunsOver == \A r \in Runs : r < run => threads[r] = {} \/ announced[r] > 0

RigInv == ~overlapped => RigOfRun /\ EarlierRunsOver

RigIInv == IInv /\ RigInv
LEMMA InitRigIInv == Init => RigIInv
BY InitIInv, ConstantsAssumption DEF Init, RigIInv, RigInv, RigOfRun, EarlierRunsOver, Runs

LEMMA SharedFrame == rig' = rig => (Shared' <=> Shared)
BY DEF Shared, DualCameras

\* A step that keeps the runs as they are, and the rig of the last one.
LEMMA EarlierFrame ==
  ASSUME EarlierRunsOver, UNCHANGED run,
         \A r \in Runs : r < run => threads'[r] = threads[r] /\ announced'[r] = announced[r]
  PROVE  EarlierRunsOver'
BY DEF EarlierRunsOver

(* A start works on the last controller only, step by step on the hardware  *)
(* it has recorded.                                                         *)
LEMMA StartAllRigInv ==
  ASSUME RigIInv, StartAllStep
  PROVE  RigInv'
<1>1. overlapped' = overlapped
  BY DEF StartAllStep, StartAllEntered, StartAllRejected, ResetsDone, RolesDone,
     StartAllReturns, StartAborted, HardwareReset, HardwareResetRaises, RoleRaises, AssignRole,
     RoleUnsupported, EngageGmsl, EngageGmslRaises, ArmSharedPanels, ArmSharedPanelsRaises,
     StartThread, FirstThreadRaises, LaterThreadRaises, fixed
<1> SUFFICES ASSUME RigOfRun, EarlierRunsOver PROVE RigOfRun' /\ EarlierRunsOver'
  BY <1>1 DEF RigInv, RigIInv
<1>2. TypeOK /\ StageInv /\ OnlyCurrent /\ run \in Runs
  BY StartAllFrame DEF RigIInv, IInv, StageInv, OnlyCurrent
<1>3. EarlierRunsOver'
  <2>1. \A r \in Runs : r < run => threads'[r] = threads[r] /\ announced'[r] = announced[r]
    BY <1>2 DEF OnlyCurrent, Untouched, Runs
  <2> QED  BY <1>2, <2>1, EarlierFrame DEF OnlyCurrent
<1>4. UNCHANGED <<rig, run>> /\ (Shared' <=> Shared)
  BY <1>2, SharedFrame DEF OnlyCurrent
<1>5. /\ \A c \in applied[run] : role[c] = "assigned"
      /\ sharedPanel[run] => Shared /\ panel = "scanning"
      /\ engaged[run] => trigger
      /\ rig.gmsl = "guard" /\ (gui \in {"panels", "threads"} \/ threads[run] # {}) => ~trigger
  BY <1>2 DEF RigOfRun
<1>6. SUFFICES
        /\ \A c \in applied'[run] : role'[c] = "assigned"
        /\ sharedPanel'[run] => Shared /\ panel' = "scanning"
        /\ engaged'[run] => trigger'
        /\ rig.gmsl = "guard" /\ (gui' \in {"panels", "threads"} \/ threads'[run] # {}) => ~trigger'
  BY <1>3, <1>4 DEF RigOfRun
<1> USE <1>2, <1>5 DEF TypeOK, StageInv, StartStages
<1>7. CASE StartAllEntered \/ ResetsDone \/ RolesDone \/ StartAllReturns
  BY <1>7 DEF StartAllEntered, ResetsDone, RolesDone, StartAllReturns, ctlVars, hardware
<1>8. CASE StartAllRejected
  BY <1>8 DEF StartAllRejected, StartAborted, hardware
<1>9. ASSUME NEW c \in Cameras, HardwareReset(c) PROVE <1>6!1
  BY <1>9 DEF HardwareReset, ctlVars
<1>10. ASSUME NEW c \in Cameras, HardwareResetRaises(c) \/ RoleRaises(c) PROVE <1>6!1
  BY <1>10 DEF HardwareResetRaises, RoleRaises, StartAborted, hardware
<1>11. ASSUME NEW c \in Cameras, AssignRole(c) PROVE <1>6!1
  BY <1>11 DEF AssignRole
<1>12. ASSUME NEW c \in Cameras, RoleUnsupported(c) PROVE <1>6!1
  BY <1>12 DEF RoleUnsupported, StartAborted, ResetGenlockRoles
<1>13. CASE EngageGmsl
  BY <1>13 DEF EngageGmsl
<1>14. CASE EngageGmslRaises
  BY <1>14 DEF EngageGmslRaises, StartAborted, ResetGenlockRoles
<1>15. CASE ArmSharedPanels
  BY <1>15 DEF ArmSharedPanels
<1>16. CASE ArmSharedPanelsRaises
  BY <1>16 DEF ArmSharedPanelsRaises, StartAborted, ResetGenlockRoles, Disengage
<1>17. ASSUME NEW c \in Cameras, StartThread(c) PROVE <1>6!1
  BY <1>17 DEF StartThread, hardware
<1>18. ASSUME NEW c \in Cameras, FirstThreadRaises(c) PROVE <1>6!1
  BY <1>18 DEF FirstThreadRaises, StartAborted, StopSharedPanels, Disengage
<1>19. ASSUME NEW c \in Cameras, LaterThreadRaises(c) PROVE <1>6!1
  BY <1>19 DEF LaterThreadRaises, ctlVars, hardware
<1> QED
  BY <1>7, <1>8, <1>9, <1>10, <1>11, <1>12, <1>13, <1>14, <1>15, <1>16, <1>17, <1>18, <1>19
     DEF StartAllStep

(* A thread drives a panel only if the controller does not.                 *)
LEMMA ThreadRigInv ==
  ASSUME RigIInv, NEW r \in Runs, NEW c \in Cameras, ThreadStep(r, c)
  PROVE  RigInv'
<1>1. UNCHANGED <<fixed, guiVars, ctlVars, role, trigger>>
  BY DEF ThreadStep, ArmPanel, SetupRaises, Stream, LeaveLoop, CloseCapture, CloseCaptureRaises,
         FinishThread, Advance
<1>2. Shared => panel' = panel
  BY DEF ThreadStep, ArmPanel, SetupRaises, Stream, LeaveLoop, CloseCapture, CloseCaptureRaises,
         FinishThread, Advance, ThreadDrivesPanel
<1>3. Shared' <=> Shared
  BY <1>1, SharedFrame DEF fixed
<1>4. RigOfRun => RigOfRun'
  BY <1>1, <1>2, <1>3 DEF RigOfRun, fixed, guiVars, ctlVars
<1>5. EarlierRunsOver => EarlierRunsOver'
  BY <1>1 DEF EarlierRunsOver, guiVars, ctlVars
<1> QED  BY <1>1, <1>4, <1>5 DEF RigInv, RigIInv, fixed

(* A teardown of an earlier run finds nothing to take back; one of the last *)
(* run empties what was recorded of the hardware before it is let go.       *)
LEMMA HandlerRigInv ==
  ASSUME RigIInv, NEW r \in Runs, NEW c \in Cameras, HandleSignal(r, c)
  PROVE  RigInv'
<1>1. UNCHANGED <<rig, overlapped, gui, run, threads>>
  BY DEF HandleSignal, OnSessionFinished, OnThreadFinished, fixed, guiVars
<1> SUFFICES ASSUME RigOfRun, EarlierRunsOver PROVE RigOfRun' /\ EarlierRunsOver'
  BY <1>1 DEF RigInv, RigIInv
<1>2. Shared' <=> Shared
  BY <1>1, SharedFrame
<1>3. CASE UNCHANGED <<applied, sharedPanel, engaged, announced, hardware>>
  BY <1>1, <1>2, <1>3 DEF RigOfRun, EarlierRunsOver, hardware
<1>4. CASE OnThreadFinished(r, c) /\ Teardown(r)
  <2>1. TypeOK /\ r \in Runs /\ c \in threads[r] /\ ~InStart(r)
    BY <1>4, HandlerNotInStart DEF OnThreadFinished, RigIInv, IInv
  <2>2. /\ applied' = [applied EXCEPT ![r] = {}]
        /\ sharedPanel' = [sharedPanel EXCEPT ![r] = FALSE]
        /\ engaged' = [engaged EXCEPT ![r] = FALSE]
        /\ announced' = [announced EXCEPT ![r] = @ + 1]
        /\ trigger' = trigger \/ (trigger' = FALSE /\ engaged[r])
        /\ panel' = panel \/ sharedPanel[r]
    BY <1>4 DEF Teardown, ResetGenlockRoles, StopSharedPanels, Disengage
  <2>3. PICK lost \in SUBSET rig.synced :
          role' = [d \in Cameras |-> IF d \in applied[r] \ lost THEN "default" ELSE role[d]]
    BY <1>4 DEF Teardown, ResetGenlockRoles
  <2>4. \A q \in Runs : announced[q] > 0 => announced'[q] > 0
    BY <2>1, <2>2 DEF TypeOK
  <2>5. EarlierRunsOver'
    BY <1>1, <2>4 DEF EarlierRunsOver
  <2>6. r <= run
    BY <2>1 DEF RigIInv, IInv, RunInv, Fresh, TypeOK, Runs
  <2>7. CASE r = run
    <3>1. applied'[run] = {} /\ ~sharedPanel'[run] /\ ~engaged'[run]
      BY <2>1, <2>2, <2>7 DEF TypeOK
    <3>2. rig.gmsl = "guard" /\ (gui \in {"panels", "threads"} \/ threads[run] # {}) => ~trigger'
      BY <2>1, <2>2, <2>7 DEF RigOfRun
    <3>3. RigOfRun'
      BY <1>1, <2>7, <3>1, <3>2 DEF RigOfRun
    <3> QED  BY <2>5, <3>3
  <2>8. CASE r # run
    <3>1. applied[r] = {} /\ ~sharedPanel[r] /\ ~engaged[r]
      <4>1. announced[r] > 0
        BY <2>1, <2>6, <2>8 DEF EarlierRunsOver, TypeOK, Runs
      <4> QED  BY <4>1 DEF RigIInv, IInv, RunInv, Released
    <3>2. \A q \in Runs : q = run => /\ applied'[q] = applied[q]
                                     /\ sharedPanel'[q] = sharedPanel[q]
                                     /\ engaged'[q] = engaged[q]
      BY <2>1, <2>2, <2>8 DEF TypeOK
    <3>3. \A d \in Cameras : role'[d] = role[d]
      BY <2>3, <3>1
    <3>4. panel' = panel /\ trigger' = trigger
      BY <2>2, <3>1
    <3>5. \A q \in Runs : applied[q] \subseteq Cameras
      BY <2>1 DEF TypeOK
    <3>6. RigOfRun'
      BY <1>1, <1>2, <3>2, <3>3, <3>4, <3>5 DEF RigOfRun
    <3> QED  BY <2>5, <3>6
  <2> QED  BY <2>5, <2>7, <2>8
<1> QED
  BY <1>3, <1>4 DEF HandleSignal, OnSessionFinished, OnThreadFinished, hardware

(* Start is what overlapped is about: without it every run is over.         *)
LEMMA OperatorRigInv ==
  ASSUME RigIInv, StartClicked \/ StopClicked \/ BackClicked \/ BackReturns
  PROVE  RigInv'
<1>1. UNCHANGED <<rig, ctlVars, hardware>>
  BY DEF StartClicked, StopClicked, BackClicked, BackReturns, fixed
<1>2. Shared' <=> Shared
  BY <1>1, SharedFrame
<1>3. CASE StartClicked
  <2> SUFFICES ASSUME ~overlapped' PROVE RigOfRun' /\ EarlierRunsOver'
    BY DEF RigInv
  <2>1. run' = run + 1 /\ gui' = "pumping" /\ \A r \in Runs : ~Unreleased(r)
    BY <1>3 DEF StartClicked
  <2>2. TypeOK /\ \A r \in Runs : RunInv(r)
    BY DEF RigIInv, IInv
  <2>3. \A r \in Runs : r = run' => Fresh(r)
    BY <2>1, <2>2 DEF RunInv, TypeOK, Runs
  <2>4. RigOfRun'
    BY <1>1, <2>1, <2>3 DEF RigOfRun, Fresh, ctlVars
  <2>5. EarlierRunsOver'
    BY <1>1, <2>1, <2>2 DEF EarlierRunsOver, Unreleased, TypeOK, ctlVars
  <2> QED  BY <2>4, <2>5
<1>4. CASE StopClicked \/ BackClicked \/ BackReturns
  <2>1. UNCHANGED <<run, overlapped>> /\ (gui' = gui \/ gui' \notin {"panels", "threads"})
    BY <1>4 DEF StopClicked, BackClicked, BackReturns, fixed, guiVars
  <2>2. RigOfRun => RigOfRun'
    BY <1>1, <1>2, <2>1 DEF RigOfRun, ctlVars, hardware
  <2>3. EarlierRunsOver => EarlierRunsOver'
    BY <1>1, <2>1 DEF EarlierRunsOver, ctlVars
  <2> QED  BY <2>1, <2>2, <2>3 DEF RigInv, RigIInv
<1> QED  BY <1>3, <1>4

LEMMA NextRigIInv == RigIInv /\ [Next]_vars => RigIInv'
<1> SUFFICES ASSUME RigIInv, [Next]_vars PROVE RigInv'
  BY NextIInv DEF RigIInv
<1>1. CASE UNCHANGED vars
  BY <1>1, SharedFrame DEF vars, fixed, guiVars, ctlVars, hardware, RigIInv, RigInv, RigOfRun,
                           EarlierRunsOver
<1> QED
  BY <1>1, StartAllRigInv, ThreadRigInv, HandlerRigInv, OperatorRigInv
     DEF Next, OperatorRests

(* While a camera streams the hardware is what its controller holds: roles, *)
(* trigger and panels, unless a Start was accepted over an unreleased run   *)
(* (start_all, _on_thread_finished).                                        *)
THEOREM RigBacksCaptureThm == Spec => []RigBacksCapture
<1>1. RigIInv => RigBacksCapture
  <2> SUFFICES ASSUME RigIInv, ~overlapped, NEW r \in Runs, NEW c \in Cameras,
                      phase[r][c] = "streaming"
               PROVE  /\ \A d \in rig.synced : role[d] = "assigned"
                      /\ rig.gmsl # "none" => trigger = (rig.gmsl = "tsc")
                      /\ Shared => panel = "scanning"
    BY DEF RigBacksCapture
  <2>1. TypeOK /\ ThreadInv /\ RunInv(r) /\ RigOfRun /\ EarlierRunsOver
    BY DEF RigIInv, IInv, RigInv
  <2>2. c \in threads[r] /\ handled[r][c] = 0
    BY <2>1, IdleThreadUnhandled DEF ThreadInv, RigIInv, Capturing
  <2>3. r = run
    <3>1. ~(r > run)
      BY <2>1, <2>2 DEF RunInv, Fresh
    <3>2. ~(r < run)
      BY <2>1, <2>2 DEF EarlierRunsOver, RunInv
    <3> QED  BY <2>1, <3>1, <3>2 DEF TypeOK, Runs
  <2>4. Held(r)
    BY <2>1 DEF RunInv, Capturing
  <2>5. rig.gmsl \in GmslKinds /\ trigger \in BOOLEAN
    BY <2>1, ConstantsAssumption DEF TypeOK, RigType
  <2> QED  BY <2>1, <2>2, <2>3, <2>4, <2>5 DEF RigOfRun, Held, GmslKinds
<1>2. Spec => []RigIInv
  BY InitRigIInv, NextRigIInv, PTL DEF Spec
<1> QED  BY <1>1, <1>2, PTL
=============================================================================
