SPECIFICATION FairSpec
CONSTANTS
  pluginPortMin = 50100
  pluginPortMax = 50101
  None = None
  Specs = {"plain", "hosted", "noui", "off"}
  Content <- MCContent
  LegacySpecs = {"hosted"}
  MaxUid = 2
  MaxEdits = 1
  MaxTrouble = 1
CHECK_DEADLOCK FALSE
INVARIANT HostInv
PROPERTIES HostNeverMoves RoutesSettle NoRouteLeft
