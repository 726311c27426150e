SPECIFICATION FairSpec
CONSTANTS
  None = None
  Nobody = Nobody
  pluginPortMin = 50100
  pluginPortMax = 50101
  Managers = {m1, m2}
  Installation <- MCInstallation
  Kinds = {"proxy", "postgres", "abbenay", "tls"}
  MaxMade = 1
  MaxUid = 2
  MaxEdits = 1
  MaxFaults = 1
  MaxTrouble = 1
CHECK_DEADLOCK FALSE
INVARIANTS TypeOK TokenInv LeaderInv
PROPERTIES GeneratedOnce NoIdleRollout AdoptedStays ReadersAgree OneLeads
