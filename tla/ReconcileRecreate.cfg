SPECIFICATION FairSpec
CONSTANTS
  None = None
  pluginPortMin = 50100
  pluginPortMax = 50101
  Specs = {"minimal"}
  Content <- MCContent
  UserObjects = {"user-db"}
  GivenStates = {"good"}
  MaxUid = 2
  MaxDeletes = 1
  MaxGen = 1
  MaxFaults = 0
  MaxDrift = 0
INVARIANTS IInv
PROPERTIES StatusSettles NothingLeftBehind
