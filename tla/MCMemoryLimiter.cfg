\* Two callers, a day of two minutes and the next day's, pruned at 3 counters.
SPECIFICATION MemorySpec
CONSTANTS
  c1 = c1
  c2 = c2
  Caller = {c1, c2}
  RpmLimit = 2
  RpdLimit = 3
  PruneThreshold = 2
  MinutesPerDay = 2
  MaxMinute = 3
INVARIANTS
  CountersOK
  ServedWithinQuota
  MemoryBounded
CHECK_DEADLOCK FALSE
