SPECIFICATION Spec
CONSTANTS
  one = one
  two = two
  a1 = a1
  a2 = a2
  a3 = a3
  a4 = a4
  daemon = daemon
  cli = cli
  cli2 = cli2
  Configs = {one, two}
  Keys <- MCKeys
  RulesOf <- MCRulesOf
  Callers = {a1, a2, a3, a4}
  ProcessOf <- ThreeProcesses
  NoCaller = NoCaller
INVARIANT
  MergeIsDrift
PROPERTY
  AtomicSpec
