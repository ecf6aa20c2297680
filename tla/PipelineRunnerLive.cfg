SPECIFICATION FairSpec
CONSTANTS
  Runs = {r1, r2}
  Jobs = {}
  Configs <- MCPolled
  Kubernetes = FALSE
  BackoffLimit = 1
  MaxFind = 2
  MaxRetries = 1
  PageSize = 1
  Foreign = Foreign
  MaxForeign = 0
PROPERTIES
  RunsEnd
