SPECIFICATION Spec
CONSTANTS
  empty = empty
  v4 = v4
  dual = dual
  r1 = r1
  r2 = r2
  c1 = c1
  preSsh = preSsh
  postSsh = postSsh
  Configs <- MCConfigs
  Default = empty
  Requests = {r1}
  Commands = {c1}
  Daemon = Daemon
  Keys <- MCKeys
  RulesOf <- DistinctRules
  Families <- MCFamilies
  Needs <- MCNeeds
  SshStates <- TwoSsh
  ValidIn <- MCValidIn
  Faults = {}
  MaxRevisions = 3
  MaxOutages = 1
PROPERTY
  SshPortsRejected
CHECK_DEADLOCK FALSE
