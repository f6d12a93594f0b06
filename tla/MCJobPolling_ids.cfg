SPECIFICATION Spec
CONSTANTS
  u1 = u1
  u2 = u2
  p1 = p1
  p2 = p2
  User = {u1, u2}
  Poller = {u1}
  Process = {p1}
  MaxTts = 2
  MaxStt = 1
  Types = {"omitted"}
INVARIANT PollAnswersForTheSubmission
CHECK_DEADLOCK FALSE
