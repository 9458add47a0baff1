SPECIFICATION Spec
CONSTANTS
  b1 = b1
  b2 = b2
  p1 = p1
  s1 = s1
  w1 = w1
  w2 = w2
  None = None
  Booking <- TwoBookings
  Professional <- OneProfessional
  Service <- OneService
  Worker <- TwoWorkers
  Start <- TwoStarts
  Duration <- TwoMinutes
  Buffers <- SomeBuffers
  BlockSpans <- OneBlock
  Slack = 0
  Paying <- OnePaying
  Opens = 0
  Closes = 5
  Price = 100
  Amounts <- NothingOrAll
  Rules <- ThreeRules
SYMMETRY Symmetry
INVARIANTS
  TypeOK
  NoDoubleBooking
  CompletedIsAccounted
  ToldOnce
PROPERTIES
  SettledIsFinal
