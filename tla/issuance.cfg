SPECIFICATION Spec
CONSTANTS
  i1 = i1
  w1 = w1
  w2 = w2
  k1 = k1
  k2 = k2
  e1 = e1
  e2 = e2
  None = None
  Invoice <- OneInvoice
  Web <- TwoRequests
  Celery <- TwoWorkers
  Requests <- AllRequests
  Faults <- AllFaults
  MaxPosts = 2
  MaxRetries = 1
  MaxTasks = 2
  Body <- TwoBodies
SYMMETRY Symmetry
INVARIANTS
  TypeOK
  AuthorizedAtProvider
  CancelledAtProvider
CHECK_DEADLOCK FALSE
