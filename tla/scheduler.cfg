SPECIFICATION Spec
CONSTANTS
  HoursPerDay = 24
  BackupHour = 3
  Days = 4
  Ambiguous = {3}
INVARIANT
  RunsAtThree
CHECK_DEADLOCK FALSE
