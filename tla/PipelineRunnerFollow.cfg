SPECIFICATION Spec
CONSTANTS
  Runs = {r1, r2}
  Jobs = {j1}
  Configs <- MCSameWorkflow
  Kubernetes = TRUE
  BackoffLimit = 1
  MaxFind = 2
  MaxRetries = 1
  PageSize = 1
  Foreign = Foreign
  MaxForeign = 0
INVARIANTS
  FollowsOwnWorkflow
