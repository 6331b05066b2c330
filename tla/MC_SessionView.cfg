SPECIFICATION Spec
CONSTANTS
  Samples <- MCSamples
  NumLeds = 6
  Threshold = 2
  WarmupPairs = 1
  Stride = 2
  SnapEvery = 2
  MaxSnaps = 1
  MaxOutliers = 1
  MaxRuns = 2
  MaxPairs = 3
INVARIANTS
  TypeOK
  DropMarksExact
  OverlayOfItsFrame
  RunFilesComplete
  PositionGapRight
CHECK_DEADLOCK FALSE
