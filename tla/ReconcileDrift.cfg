SPECIFICATION FairSpec
CONSTANTS
  None = None
  pluginPortMin = 50100
  pluginPortMax = 50101
  Specs = {"minimal"}
  Content <- MCContent
  UserObjects = {"user-db"}
  GivenStates = {"absent", "good"}
  MaxUid = 1
  MaxDeletes = 0
  MaxGen = 1
  MaxFaults = 1
  MaxDrift = 1
PROPERTIES OperandsConverge StatusSettles
