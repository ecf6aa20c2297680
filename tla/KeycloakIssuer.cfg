SPECIFICATION Spec
CONSTANTS
  IssueTimeout = 3
  DeleteTimeout = 2
  Margin = 6
  AdminLifetime = 12
  MaxIssues = 2
  MaxTime = 16
INVARIANTS
  TypeOK
  SentWhileValid
  ClientsSound
