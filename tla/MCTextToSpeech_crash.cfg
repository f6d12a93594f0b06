SPECIFICATION Spec
CONSTANTS
  u1 = u1
  u2 = u2
  x1 = x1
  x2 = x2
  h1 = h1
  h2 = h2
  User = {u1, u2}
  Clip = {x1, x2}
  Handler = {h1, h2}
  Limit = 2
  MaxJobs = 2
  Faults = {"Crash"}
INVARIANT NoPhantomQueued
CHECK_DEADLOCK FALSE
