CONSTANTS
  n1 = n1
  n2 = n2
  y1 = y1
  y2 = y2
  Unknown = Unknown
  NotApplied = NotApplied
  Nodes <- MCNodes
  Syncs <- MCSyncs
SPECIFICATION Spec
SYMMETRY Symmetry
INVARIANTS
  TypeOK
  EngagedMeansDriven
  NothingLeftBehind
  FreeRunMeansFree
  HandTriggerKept
