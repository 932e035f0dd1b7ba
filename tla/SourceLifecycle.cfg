\* Two sources of a tenant, two faults: schedules, syncs, deletes and collection.
SPECIFICATION FairSpec
CONSTANTS
  Sources = {s1, s2}
  Edited = {s1}
  FullEvery = 1
  MaxFaults = 2
INVARIANTS OpenRowHasJob RemovalIsOwed
PROPERTIES DueIsSwept GcIsEnqueued
CHECK_DEADLOCK FALSE
