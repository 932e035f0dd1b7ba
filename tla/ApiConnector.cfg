\* Two collections of two records, three syncs, two changes and one failure.
SPECIFICATION Spec
CONSTANTS
  NEnds = 2
  NRecords = 2
  ServerPage = 1
  DefaultPageSize = 2
  DefaultMaxPages = 4
  Configs <- SmallConfigs
  Starts <- SmallStarts
  Changing <- SmallChanging
  MaxRetries = 1
  JobAttempts = 2
  MaxJobs = 2
  MaxChanges = 2
  MaxFaults = 1
INVARIANTS CursorCovers
PROPERTIES FullSyncMirrors ContractSpec
CHECK_DEADLOCK FALSE
