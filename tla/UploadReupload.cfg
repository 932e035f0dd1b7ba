\* A file uploaded twice.
SPECIFICATION Spec
CONSTANTS
  NFiles = 1
  Contents = {a, b, Blank}
  Blank = Blank
  MaxUploads = 2
  Keyed = {}
  MaxAttempts = 1
  Batches = 1
  Concurrency = 1
  Threshold = 1
  BatchDocs = 1
  MaxFaults = 0
INVARIANTS ReuploadMakesVersion
CHECK_DEADLOCK FALSE
