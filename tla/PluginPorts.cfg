SPECIFICATION FairSpec
CONSTANTS
  pluginPortMin = 50100
  pluginPortMax = 50102
  Inputs <- MCInputs
CHECK_DEADLOCK FALSE
INVARIANTS LoopInv PortsDistinct MatchesReference NobodyLeftOut
PROPERTIES Terminates
