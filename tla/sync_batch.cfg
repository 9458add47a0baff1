SPECIFICATION FairSpec
CONSTANTS
  c1 = c1
  c2 = c2
  c3 = c3
  c4 = c4
  Charge <- FourCharges
  Broken <- OneBroken
  Limit = 2
  MaxTouch = 2
INVARIANTS
  TypeOK
PROPERTIES
  EveryOpenChargeIsSynced
