SPECIFICATION ImagesSpec
CONSTANTS
  s1 = s1
  ir = ir
  color = color
  Master = master
  Slaves <- MCSlaves
  Identities <- MCIdentities
  Specs <- MCSpecs
  BufferLen = 2
  MaxGap = 1
  Epoch <- MCEpoch
  NoOffset = NoOffset
  MaxTime = 3
  RingLen = 2
  MaxQueued = 2
  EveryN = 2
  MaxImages = 1
INVARIANTS
  ImagesTypeOK
  NothingMatchableWaits
  FramesUsedOnce
  MatchesInOrder
  DiagnosticsAccount
  PeriodicImagesShared
CHECK_DEADLOCK FALSE
