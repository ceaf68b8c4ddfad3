SPECIFICATION FairSpec
CONSTANTS
  empty = empty
  v4 = v4
  dual = dual
  r1 = r1
  r2 = r2
  c1 = c1
  preSsh = preSsh
  postSsh = postSsh
  Configs <- MCConfigs
  Default = empty
  Requests = {r1, r2}
  Commands = {}
  Daemon = Daemon
  Keys <- MCKeys
  RulesOf <- DistinctRules
  Families <- MCFamilies
  Needs <- MCNeeds
  SshStates <- TwoSsh
  ValidIn <- MCValidIn
  Faults = {"insert", "crash", "reboot"}
  MaxRevisions = 3
  MaxOutages = 2
INVARIANT
  VettedOnly
PROPERTIES
  RequestsFinish
  Recovery
CHECK_DEADLOCK FALSE
