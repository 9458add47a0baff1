SPECIFICATION FairSpec
CONSTANTS
  c1 = c1
  s1 = s1
  w1 = w1
  w2 = w2
  b1 = b1
  None = None
  Charge <- OneCharge
  Slip <- OneSlip
  Web <- OneRequest
  Beat <- OneBeat
  Jobs <- JobsWithoutCancel
  Faults <- CrashesAndErrors
  Callbacks <- ReceivedCallbacks
  OutboxCap = 1
PROPERTIES
  ReceivedIsClosed
CHECK_DEADLOCK FALSE
