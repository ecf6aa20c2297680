SPECIFICATION Spec
CONSTANTS
  Runs = {r1, r2, r3}
  NoRun = NoRun
INVARIANTS
  TypeOK
  TokenConservation
  StopsClaiming
  ExecutesWithOwnToken
  FetchCarriesNoUsedToken
PROPERTIES
  StopCompletes
  KeepsPolling
