SPECIFICATION Spec
CONSTANTS
  PoolSize = 2
  MaxThreads = 1
  MaxRequests = 3
  MaxTransactions = 2
INVARIANTS
  TypeOK
  NobodyHoldsAndWaits
  StallsOnlyWhenExhausted
PROPERTIES
  EveryRequestEnds
