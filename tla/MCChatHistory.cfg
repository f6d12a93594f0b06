SPECIFICATION Spec
CONSTANTS
  u1 = u1
  u2 = u2
  MaxRequests = 3
  User = {u1, u2}
  FirstOwner = u1
  SaveBuffer = 1
  MaxReply = 2
  MaxSeeds = 0
INVARIANTS
  TypeOK
  OwnMessagesOnly
  ExchangesStayTogether
  AnswersTellOutcome
PROPERTIES
  HistoryGrowsAtItsEnd
