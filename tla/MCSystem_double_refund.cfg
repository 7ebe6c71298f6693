\* Two refunds of one purchase; nothing fails.
SPECIFICATION SystemSpec
CONSTANTS
  d1 = d1
  d2 = d2
  p1 = p1
  p2 = p2
  r1 = r1
  r2 = r2
  alice = alice
  book = book
  Txn = {p1, r1, r2}
  TypeOf <- MCTypeOf
  UserOf <- MCUserOf
  AmountOf <- MCAmountOf
  Opening <- MCOpening
  OpeningBalance = 2
  OfferingOf <- MCOfferingOf
  OriginalOf <- MCOriginalOf
  ProviderFails = {}
  MayExpire = {}
  MaxRetries = 1
  Faults = {}
  MaxFaults = 0
INVARIANTS
  RefundedOnce
CHECK_DEADLOCK FALSE
