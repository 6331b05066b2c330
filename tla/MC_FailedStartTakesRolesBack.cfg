SPECIFICATION Spec
CONSTANTS
  c1 = c1
  c2 = c2
  w1 = w1
  w2 = w2
  NoWiring = NoWiring
  Cameras <- MCCameras
  Wirings <- MCWirings
  Rigs <- MCRigs
  Master = c1
  MaxRuns = 1
INVARIANT FailedStartTakesRolesBack
