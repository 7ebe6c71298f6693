SPECIFICATION StartCommandsSpec
CONSTANTS
  a1 = a1
  a2 = a2
  a3 = a3
  b1 = b1
  this = this
  other = other
  Requests = {a1, a2, a3, b1}
  PayloadOf <- MCPayloadOf
  Kind = "purchase"
  Faults = {"call", "crash", "overrun"}
  MaxFaults = 2
INVARIANTS
  StartTypeOK
  AcceptedIsDispatched
  OneTransactionPerPayload
  AnswerIsToThePayload
  OneHandlerPerTransaction
PROPERTIES
  StoredAnswerIsFinal
  ImplementsStarts
SYMMETRY MCRepeats
CHECK_DEADLOCK FALSE
