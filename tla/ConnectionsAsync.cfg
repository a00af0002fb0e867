SPECIFICATION FairSpec
CONSTANTS
  n1 = n1
  n2 = n2
  jobs = jobs
  logs = logs
  c1 = c1
  c2 = c2
  c3 = c3
  Node = {n1, n2}
  BindName = {jobs, logs}
  Call = {c1}
  Matches <- MCOne
  Wanted <- MCOneWanted
  Modes = {"run_async"}
  Hwm = 2
PROPERTIES
  EventuallyConnected
CHECK_DEADLOCK FALSE
