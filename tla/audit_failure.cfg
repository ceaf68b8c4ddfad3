SPECIFICATION Spec
CONSTANTS
  empty = empty
  v4 = v4
  dual = dual
  r1 = r1
  r2 = r2
  c1 = c1
  preSsh = preSsh
  postSsh = postSsh
  Configs <- MCConfigs
  Default = empty
  Requests = {r1}
  Commands = {}
  Daemon = Daemon
  Keys <- MCKeys
  RulesOf <- DistinctRules
  Families <- MCFamilies
  Needs <- MCNeeds
  SshStates <- OneSsh
  ValidIn <- AllValid
  Faults = {"audit"}
  MaxRevisions = 3
  MaxOutages = 1
INVARIANT
  NotPersistedWhenReported
CHECK_DEADLOCK FALSE
