SPECIFICATION FairSpec
CONSTANTS
  n1 = n1
  n2 = n2
  jobs = jobs
  logs = logs
  c1 = c1
  c2 = c2
  c3 = c3
  Node = {n1, n2}
  BindName = {jobs, logs}
  Call = {c1, c2, c3}
  Matches <- MCMatches
  Wanted <- MCWanted
  Modes = {"run", "run_async"}
  Hwm = 2
INVARIANTS
  TypeOK
  EraseHasAnElement
  Accounted
  ConnectedWhereWanted
  NothingResolvableWaits
PROPERTIES
  LoneCallConnects
CHECK_DEADLOCK FALSE
