SPECIFICATION Spec
CONSTANTS
  c1 = c1
  w1 = w1
  b1 = b1
  None = None
  Charge <- OneCharge
  Web <- OneRequest
  Beat <- OneBeat
  Used <- InterAndAsaas
  Events <- AllOfAsaas
  MaxKeys <- OneSetEach
INVARIANTS
  PaidIsReceivedAtIssuer
