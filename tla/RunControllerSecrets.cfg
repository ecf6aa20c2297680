SPECIFICATION Spec
CONSTANTS
  Runs = {r1}
  NoRun = NoRun
  NoHandler = {}
  Undecryptable = {}
  Federated = {r1}
  MaxConcurrentJobs <- Unlimited
  MaxClaims = 3
  MaxRestarts = 1
INVARIANTS
  FailedRunsHaveNoJob
  SecretsAreOwned
  PodsGetTheirSecrets
