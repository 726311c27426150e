SPECIFICATION Spec
CONSTANTS
  None = None
  pluginPortMin = 50100
  pluginPortMax = 50101
  Specs = {"default", "lean"}
  Content <- MCContent
  UserObjects = {}
  GivenStates = {"good"}
  MaxUid = 1
  MaxDeletes = 0
  MaxGen = 2
  MaxFaults = 0
  MaxDrift = 0
INVARIANTS ReadyMeansRolledOut
