\* A purchase and its refund, which may time out; no message is given up on.
SPECIFICATION FairSystemSpec
CONSTANTS
  d1 = d1
  d2 = d2
  p1 = p1
  p2 = p2
  r1 = r1
  r2 = r2
  alice = alice
  book = book
  Txn = {p1, r1}
  TypeOf <- MCTypeOf
  UserOf <- MCUserOf
  AmountOf <- MCAmountOf
  Opening <- MCOpening
  OpeningBalance = 2
  OfferingOf <- MCOfferingOf
  OriginalOf <- MCOriginalOf
  ProviderFails = {}
  MayExpire = {r1}
  MaxRetries = 2
  Faults = {"call", "crash", "redelivery"}
  MaxFaults = 1
INVARIANTS
  CreditVerdictIsTrue
  PaidBackGivesNoAccess
  OpenSagaIsDriven
PROPERTIES
  AcceptedIsSettled
CHECK_DEADLOCK FALSE
