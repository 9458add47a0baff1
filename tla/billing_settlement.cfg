SPECIFICATION Spec
CONSTANTS
  c1 = c1
  s1 = s1
  w1 = w1
  w2 = w2
  b1 = b1
  None = None
  Charge <- OneCharge
  Slip <- OneSlip
  Web <- TwoRequests
  Beat <- NoBeat
  Jobs <- JobsOnIssuedCharges
  Faults <- AllFaults
  Callbacks <- PaymentCallbacks
  OutboxCap = 1
SYMMETRY Symmetry
INVARIANTS
  TypeOK
  AtMostOnePaymentEvent
  PaidIsReportedByBank
  ProcessedPaymentIsSettled
  CancelledIsAccepted
PROPERTIES
  KeepsPromise
  PaidLeavesByStaleRead
CHECK_DEADLOCK FALSE
