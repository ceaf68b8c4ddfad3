SPECIFICATION Spec
CONSTANTS
  old = old
  rejected = rejected
  new = new
  Configs <- MCConfigs
  ConfigOf <- MCConfigOf
  Rejected = {rejected}
  Garbage = garbage
  Buckets = {b1, b2}
  Scheduler = scheduler
  Manual = {manual}
  Keep = 2
  MaxRevisions = 3
  MaxFaults = 1
  MaxSaves = 1
  NoBucket = NoBucket
  NoConfig = NoConfig
INVARIANTS
  TypeOK
  ActiveKept
  AtMostKept
  RestoredWasActive
PROPERTY
  BackedUp
