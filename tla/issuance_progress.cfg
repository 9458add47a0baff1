SPECIFICATION FairSpec
CONSTANTS
  i1 = i1
  w1 = w1
  w2 = w2
  k1 = k1
  k2 = k2
  e1 = e1
  e2 = e2
  None = None
  Invoice <- OneInvoice
  Web <- OneRequest
  Celery <- TwoWorkers
  Requests <- CancelAndReprocess
  Faults <- ButPolls
  MaxPosts = 2
  MaxRetries = 1
  MaxTasks = 2
  Body <- TwoBodies
PROPERTIES
  FollowsFsm
  DecidedIsLearnt
CHECK_DEADLOCK FALSE
