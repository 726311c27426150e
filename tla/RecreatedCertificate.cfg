SPECIFICATION FairSpec
CONSTANTS
  None = None
  Nobody = Nobody
  pluginPortMin = 50100
  pluginPortMax = 50101
  Managers = {m1}
  Installation <- MCInstallation
  Kinds = {"tls"}
  MaxMade = 2
  MaxUid = 2
  MaxEdits = 0
  MaxFaults = 0
  MaxTrouble = 1
CHECK_DEADLOCK FALSE
PROPERTIES GatewayConnects
