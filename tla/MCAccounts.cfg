SPECIFICATION Spec
CONSTANTS
  e1 = e1
  c1 = c1
  Email = {e1}
  Cache = {c1}
  MaxRequests = 4
  MaxTime = 3
  MaxOpen = 3
  MaxErrors = 1
  OtpLife = 1
  Ttl = 1
  MaxLookUp = 1
INVARIANTS
  TypeOK
  OnlyTheLastCode
  StaleKeysLapse
PROPERTIES
  VerificationIsPermanent
