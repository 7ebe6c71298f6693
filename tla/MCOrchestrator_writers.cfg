\* A purchase that may time out, two faults of any kind, one attempt more.
SPECIFICATION FairSpec
CONSTANTS
  d1 = d1
  p1 = p1
  r1 = r1
  Txn = {p1}
  TypeOf <- MCTypeOf
  MayExpire = {p1}
  MaxRetries = 2
  Faults = {"call", "crash", "redelivery", "rejection"}
  MaxFaults = 2
INVARIANTS
  TypeOK
  TerminalSagaMatchesLedger
  TimedOutSagaHasLedgerVerdict
  WritersAreNotOvertaken
  CompensationIsRecorded
  VerdictReachesSaga
  AnswerFindsItsStep
PROPERTIES
  SettledIsFinal
  ImplementsSettlement
  RunningEnds
CHECK_DEADLOCK FALSE
