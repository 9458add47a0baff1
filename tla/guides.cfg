SPECIFICATION Spec
CONSTANTS
  a1 = a1
  a2 = a2
  q1 = q1
  q2 = q2
  k1 = k1
  k2 = k2
  w1 = w1
  w2 = w2
  None = None
  Cert <- TwoCerts
  NotAfter <- TwoEnds
  Proxy <- TwoProxies
  From <- Begins
  To <- Ends
  HasCode <- TwoProxies
  Pair <- SamePair
  Key <- TwoKeys
  Period <- SamePeriod
  Worker <- TwoWorkers
  Soon = 1
  LastDay = 2
SYMMETRY Symmetry
INVARIANTS
  TypeOK
  OnePrimary
  GuideUnderValidCertificate
  GuideUnderValidProxy
PROPERTIES
  ExpiredIsAlerted
