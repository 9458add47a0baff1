SPECIFICATION Spec
CONSTANTS
  c1 = c1
  c2 = c2
  c3 = c3
  seed = seed
  official = official
  n1 = n1
  n2 = n2
  w1 = w1
  w2 = w2
  None = None
  Catalog <- Catalogs
  Rtc <- RtcVersions
  National <- Lists
  Seed = seed
  Rule <- Rules
  RtcCode <- Codes
  Items <- ItemsOf
  Hint <- HintOf
  Service <- Services
  StartDocs <- Starts
  Day = {1, 3}
  Amount = {55, 10000}
  LastTestDay = 2
  TEST_CBS = 90
  Worker <- TwoWorkers
  MaxRequests = 5
  MODE = "emit"
  FALLBACK = TRUE
  ENFORCE = TRUE
CHECK_DEADLOCK FALSE
SYMMETRY Symmetry
INVARIANTS
  TypeOK
  OnePublished
  NoteIsExplained
PROPERTIES
  NeverWithdrawn
  OlderAreSuperseded
