\* Two jobs of a tenant that may run one at a time, one of them under every fault.
SPECIFICATION FairSpec
CONSTANTS
  j1 = j1
  j2 = j2
  Jobs = {j1, j2}
  MaxAttempts = 2
  Cap = 1
  Faults <- Unlucky
  MaxSnoozes = 1
INVARIANTS WithinCap SucceededWasWorked
PROPERTIES RecordsSpec MirrorConverges JobsFinish
CHECK_DEADLOCK FALSE
