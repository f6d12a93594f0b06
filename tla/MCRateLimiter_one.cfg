\* One process, two callers, a day of two minutes and the next day's first.
SPECIFICATION Spec
CONSTANTS
  c1 = c1
  c2 = c2
  w1 = w1
  w2 = w2
  Caller = {c1, c2}
  Worker = {w1}
  RpmLimit = 2
  RpdLimit = 3
  MinutesPerDay = 2
  MaxMinute = 2
  MaxAdmitted = 9
INVARIANT TypeOK WithinQuota
PROPERTY NeverRejectsEarly ImplementsFixedWindow
CHECK_DEADLOCK FALSE
