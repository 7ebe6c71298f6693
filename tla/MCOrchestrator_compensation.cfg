\* A purchase that may time out and one crash; no call fails.
SPECIFICATION FairSpec
CONSTANTS
  d1 = d1
  p1 = p1
  r1 = r1
  Txn = {p1}
  TypeOf <- MCTypeOf
  MayExpire = {p1}
  MaxRetries = 1
  Faults = {"crash"}
  MaxFaults = 1
PROPERTIES
  CompensationEnds
CHECK_DEADLOCK FALSE
