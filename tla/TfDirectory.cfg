SPECIFICATION Spec
CONSTANTS
  c1 = c1
  c2 = c2
  c3 = c3
  NoCommit = NoCommit
  Blocks <- MCBlocks
  TfFiles = {"main.tf", "meshStack_run_vars.tf", "meshStack_httpbackend.tf"}
  JsonFiles = {"data.json"}
  Hides <- MCHides
  Trimmed <- MCTrimmed
  Names = {"w1", "w2"}
  Others = {"x"}
  MaxRuns = 3
INVARIANTS
  DirectorySound
  ReplayHasSameValues
  OneState
