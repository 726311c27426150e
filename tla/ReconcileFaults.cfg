SPECIFICATION Spec
CONSTANTS
  None = None
  pluginPortMin = 50100
  pluginPortMax = 50101
  Specs = {"everything", "byo"}
  Content <- MCContent
  UserObjects = {"user-tls", "galaxy-ca"}
  GivenStates = {"bad", "good"}
  MaxUid = 1
  MaxDeletes = 0
  MaxGen = 1
  MaxFaults = 1
  MaxDrift = 0
INVARIANT DependenciesFirst
