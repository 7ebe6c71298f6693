\* A purchase whose debit command is published twice, and a deposit.
SPECIFICATION SystemSpec
CONSTANTS
  d1 = d1
  d2 = d2
  p1 = p1
  p2 = p2
  r1 = r1
  r2 = r2
  alice = alice
  book = book
  Txn = {d1, p1}
  TypeOf <- MCTypeOf
  UserOf <- MCUserOf
  AmountOf <- MCAmountOf
  Opening <- MCOpening
  OpeningBalance = 0
  OfferingOf <- MCOfferingOf
  OriginalOf <- MCOriginalOf
  ProviderFails = {}
  MayExpire = {}
  MaxRetries = 1
  Faults = {"call"}
  MaxFaults = 1
INVARIANTS
  FailedPurchaseKeepsMoney
CHECK_DEADLOCK FALSE
