SPECIFICATION FairSpec
CONSTANTS
  c1 = c1
  c2 = c2
  w1 = w1
  w2 = w2
  NoWiring = NoWiring
  Cameras <- MCCameras
  Wirings <- MCWirings
  Rigs <- MCRigs
  Master = c1
  MaxRuns = 2
INVARIANTS
  TypeOK
  HeldWhileCapturing
  RigBacksCapture
  SettledRunReleased
  AnnouncedRowsComplete
PROPERTIES
  FailedStartReleasesHardware
  StopUnlocks
  BackReturnsEventually
