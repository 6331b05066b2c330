CONSTANTS
  s1 = s1
  s2 = s2
  NoSetting = NoSetting
  NoTarget = NoTarget
  Settings <- MCSettings
SPECIFICATION Spec
INVARIANT
  NoPanelAtAnotherSpeed
