SPECIFICATION FairSpec
CONSTANTS
  m1 = m1
  m2 = m2
  i1 = i1
  i2 = i2
  i3 = i3
  w1 = w1
  w2 = w2
  None = None
  Message <- TwoMessages
  Silent <- OneSilent
  Inbound <- ThreeInbound
  Phone <- TwoPhones
  Worker <- TwoWorkers
  MAX_ATTEMPTS = 3
  Backoff = 1
  Limit = 1
  Debounce = 1
  MaxTask = 2
  MaxHeard = 2
INVARIANTS
  TypeOK
PROPERTIES
  NotSentAgain
  SweptIsSettled
