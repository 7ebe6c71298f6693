\* Two purchases of one offering, one of which may time out, one fault.
SPECIFICATION SystemSpec
CONSTANTS
  d1 = d1
  d2 = d2
  p1 = p1
  p2 = p2
  r1 = r1
  r2 = r2
  alice = alice
  book = book
  Txn = {p1, p2}
  TypeOf <- MCTypeOf
  UserOf <- MCUserOf
  AmountOf <- MCAmountOf
  Opening <- MCOpening
  OpeningBalance = 2
  OfferingOf <- MCOfferingOf
  OriginalOf <- MCOriginalOf
  ProviderFails = {}
  MayExpire = {p1}
  MaxRetries = 1
  Faults = {"call", "crash", "redelivery", "rejection"}
  MaxFaults = 1
INVARIANTS
  PurchaseVerdictIsTrue
  PaidBackGivesNoAccess
  BalanceMatchesLedger
CHECK_DEADLOCK FALSE
