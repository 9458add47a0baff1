SPECIFICATION Spec
CONSTANTS
  k1 = k1
  k2 = k2
  w1 = w1
  w2 = w2
  None = None
  Key <- TwoKeys
  Suffixed <- KeysOfParts
  Worker <- TwoWorkers
  Request <- SomeRequests
  MinDueDate <- FirstDay
  MIN_AMOUNT = 250
  INSTALLMENT_MIN = 2
  INSTALLMENT_MAX = 3
  RECURRING_MAX = 3
  MaxSlips = 4
SYMMETRY Symmetry
INVARIANTS
  TypeOK
  PlanIsWhole
  SlipsAreTracked
  SameAnswer
