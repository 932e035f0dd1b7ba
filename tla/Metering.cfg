SPECIFICATION Spec
CONSTANTS
  Keys = {k1}
  Threads = {t1, t2}
  Qps = {1}
  DefaultQps = 2
  KeyBurst = 1
  TenantBurst = 1
  IdleTTL = 1
  DayLength = 2
  MaxTime = 2
  MaxBuckets = 2
  MaxRequests = 3
  MaxStops = 1
  MaxChanges = 1
  MaxFaults = 1
SYMMETRY Symmetry
INVARIANTS WithinRate UsageConserved
CHECK_DEADLOCK FALSE
