SPECIFICATION FairProcessSpec
CONSTANTS
  m1 = m1
  m2 = m2
  garbage = garbage
  Messages = {m1, m2, garbage}
  Malformed = {garbage}
  MaxRetries = 2
INVARIANTS
  ProcessTypeOK
  NothingIsLost
  HeadIsHandled
PROPERTIES
  ImplementsSerialDelivery
  StopsTogether
  BacklogDrains
