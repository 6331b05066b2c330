SPECIFICATION Spec
CONSTANTS
  s1 = s1
  s2 = s2
  Serials = {s1, s2}
  Switchable = {}
  TwoPanels = TRUE
  None = None
  Choices <- MCChoices
  Offered <- MCOffered
  Times = {1, 2}
  DefaultTime = 1
  MaxCameras = 1
  MaxSlots = 1
INVARIANT StaysForCalibration
CHECK_DEADLOCK FALSE
