\* Three uploads of one file under two faults, beside deletes and a reindex.
SPECIFICATION FairSpec
CONSTANTS
  NFiles = 1
  Contents = {a, Blank}
  Blank = Blank
  MaxUploads = 3
  Keyed = {1, 2}
  MaxAttempts = 2
  Batches = 3
  Concurrency = 2
  Threshold = 2
  BatchDocs = 2
  MaxFaults = 2
INVARIANTS LandedIsCurrent LiveIsSearchable
PROPERTIES AcceptedEnds
CHECK_DEADLOCK FALSE
