SPECIFICATION Spec
CONSTANTS
  Runs = {r1}
  Jobs = {j1, j2}
  Configs <- MCEach
  Kubernetes = TRUE
  BackoffLimit = 1
  MaxFind = 1
  MaxRetries = 1
  PageSize = 1
  Foreign = Foreign
  MaxForeign = 1
ACTION_CONSTRAINT MCWatched
SYMMETRY MCSymmetry
INVARIANTS
  SucceededIsTrue
  ReportsComplete
  TriggeredAgainOnlyIfRejected
PROPERTIES
  FinalNotOverwritten
