\* A deposit, one that the provider refuses, and a purchase that needs the money.
SPECIFICATION SystemSpec
CONSTANTS
  d1 = d1
  d2 = d2
  p1 = p1
  p2 = p2
  r1 = r1
  r2 = r2
  alice = alice
  book = book
  Txn = {d1, d2, p1}
  TypeOf <- MCTypeOf
  UserOf <- MCUserOf
  AmountOf <- MCAmountOf
  Opening <- MCOpening
  OpeningBalance = 0
  OfferingOf <- MCOfferingOf
  OriginalOf <- MCOriginalOf
  ProviderFails = {d2}
  MayExpire = {d1}
  MaxRetries = 1
  Faults = {"redelivery", "rejection"}
  MaxFaults = 1
INVARIANTS
  CompletedDepositHasProviderRef
  CreditVerdictIsTrue
  PurchaseVerdictIsTrue
CHECK_DEADLOCK FALSE
