SPECIFICATION StartCommandsSpec
CONSTANTS
  a1 = a1
  a2 = a2
  a3 = a3
  b1 = b1
  this = this
  other = other
  Requests = {a1, a2}
  PayloadOf <- MCPayloadOf
  Kind = "purchase"
  Faults = {"call"}
  MaxFaults = 1
INVARIANTS
  RefusedIsNotStarted
CHECK_DEADLOCK FALSE
