\* Two processes on one table.
SPECIFICATION Spec
CONSTANTS
  c1 = c1
  c2 = c2
  w1 = w1
  w2 = w2
  Caller = {c1}
  Worker = {w1, w2}
  RpmLimit = 2
  RpdLimit = 3
  MinutesPerDay = 2
  MaxMinute = 1
  MaxAdmitted = 3
INVARIANT WithinQuota
CHECK_DEADLOCK FALSE
