SPECIFICATION Spec
CONSTANTS
  tofu = tofu
  bad = bad
  b1 = b1
  Runs = {t1, t2, b1, n1}
  NoRun = NoRun
  NoHandler = {n1}
  Manual = {}
  Versions = {tofu, bad}
  Malformed = {bad}
  Empty = {}
  Tofu = {tofu}
  VersionOf <- MCVersionOf
  MaxConcurrentJobs = 2
INVARIANTS
  PanicIsRecovered
