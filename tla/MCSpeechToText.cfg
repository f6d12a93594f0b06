SPECIFICATION FairSpec
CONSTANTS
  u1 = u1
  u2 = u2
  h1 = h1
  h2 = h2
  User = {u1, u2}
  Handler = {h1, h2}
  Limit = 2
  MaxJobs = 2
  MaxUploads = 3
  Answers = {"text"}
  Faults = {"Crash", "DbLost"}
INVARIANTS
  TypeOK
  RecordingsStored
PROPERTIES
  ImplementsJobLifecycle
  EveryJobSettles
CHECK_DEADLOCK FALSE
