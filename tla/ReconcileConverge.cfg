SPECIFICATION FairSpec
CONSTANTS
  None = None
  pluginPortMin = 50100
  pluginPortMax = 50101
  Specs = {"lean", "minimal"}
  Content <- MCContent
  UserObjects = {"user-db"}
  GivenStates = {"good"}
  MaxUid = 1
  MaxDeletes = 0
  MaxGen = 2
  MaxFaults = 0
  MaxDrift = 0
INVARIANTS StatusInv ReadyMeansInPlace StatusCoherent
PROPERTIES KeepsItsPromise OperandsConverge StatusSettles
