SPECIFICATION Spec
CONSTANTS
  s1 = s1
  s2 = s2
  Serials = {s1, s2}
  Switchable = {s1, s2}
  TwoPanels = TRUE
  None = None
  Choices <- MCChoices
  Offered <- MCOffered
  Times = {1, 2}
  DefaultTime = 1
  MaxCameras = 2
  MaxSlots = 3
INVARIANTS
  TypeOK
  ExactlyOneMaster
  CapturedForItsPage
  PanelOfTheTest
  OneCameraPerFlow
  SpeedIsSettled
CHECK_DEADLOCK FALSE
