SPECIFICATION Spec
CONSTANTS
  Runs = {r1, r2, r3, r4}
  NoRun = NoRun
  NoHandler = {r3}
  Undecryptable = {r4}
  Federated = {}
  MaxConcurrentJobs = 1
  MaxClaims = 1
  MaxRestarts = 1
INVARIANTS
  CapacityRespected
  ClaimsSound
PROPERTIES
  OffersAreClaimed
