SPECIFICATION Spec
CONSTANTS
  empty = empty
  v4 = v4
  dual = dual
  r1 = r1
  r2 = r2
  c1 = c1
  preSsh = preSsh
  postSsh = postSsh
  Configs <- MCConfigs
  Default = empty
  Requests = {r1}
  Commands = {}
  Daemon = Daemon
  Keys <- MCKeys
  RulesOf <- DistinctRules
  Families <- MCFamilies
  Needs <- MCNeeds
  SshStates <- OneSsh
  ValidIn <- AllValid
  Faults = {"read", "insert", "audit", "mark", "status", "snapshot", "reject", "lostAck", "sysctl", "disconnect", "crash", "reboot", "external"}
  MaxRevisions = 4
  MaxOutages = 1
INVARIANTS
  TypeOK
  Agreement
  ActiveWasInstalled
  ForwardingReady
  ForwardingNeeded
CHECK_DEADLOCK FALSE
