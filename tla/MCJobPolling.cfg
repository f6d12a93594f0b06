SPECIFICATION FairSpec
CONSTANTS
  u1 = u1
  u2 = u2
  p1 = p1
  p2 = p2
  User = {u1, u2}
  Poller = {u1}
  Process = {p1, p2}
  MaxTts = 3
  MaxStt = 1
  Types = {"given", "omitted"}
INVARIANTS
  TypeOK
PROPERTIES
  AnswersNeverGoBack
  OutcomeArrives
CHECK_DEADLOCK FALSE
