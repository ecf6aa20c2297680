SPECIFICATION Spec
CONSTANTS
  Runs = {r1, r2}
  NoRun = NoRun
  Undoable = {r2}
  Values = {7, 9}
  Precision = 3
  Lifetimes = {2, 5}
  tokenExpiryBuffer = 3
  Timeout = 3
  MaxRevocations = 1
  MaxRestarts = 1
INVARIANTS
  ReportsSound
PROPERTIES
  SentWhileValid
  OffersAreClaimed
  StopCompletes
