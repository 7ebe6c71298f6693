\* The deposit times out while its credit is booked; nothing fails.
SPECIFICATION Spec
CONSTANTS
  d1 = d1
  p1 = p1
  r1 = r1
  Txn = {d1}
  TypeOf <- MCTypeOf
  MayExpire = {d1}
  MaxRetries = 1
  Faults = {}
  MaxFaults = 0
INVARIANTS
  LateOutcomeResolvesDeposit
CHECK_DEADLOCK FALSE
