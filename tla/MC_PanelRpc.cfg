CONSTANTS
  gui = gui
  camera = camera
  Threads <- MCThreads
  MaxRequests = 3
  MaxSpawns = 2
  MaxStray = 1
SPECIFICATION FairSpec
INVARIANTS
  TypeOK
  InStep
  AbandonedWorkWasRaised
PROPERTIES
  KeepsPromise
  CallsEnd
CHECK_DEADLOCK FALSE
