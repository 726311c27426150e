SPECIFICATION Spec
CONSTANTS
  pluginPortMin = 50100
  pluginPortMax = 50101
  None = None
  FirstSpec <- MCFirstSpec
  Choices <- MCChoices
  MaxEdits = 2
  MaxKills = 2
CHECK_DEADLOCK FALSE
INVARIANTS ConfigIsWhole
