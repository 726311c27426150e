SPECIFICATION FairSpec
CONSTANTS
  pluginPortMin = 50100
  pluginPortMax = 50101
  None = None
  FirstSpec <- MCFirstSpec
  Choices <- MCChoices
  MaxEdits = 3
  MaxKills = 2
CHECK_DEADLOCK FALSE
INVARIANTS PodInv TrustIsComplete
PROPERTIES SettingsSurvive PodComesUp
