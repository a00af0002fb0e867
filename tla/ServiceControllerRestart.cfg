SPECIFICATION Spec
CONSTANTS
  w1 = w1
  w2 = w2
  host = host
  NoIp = NoIp
  Node <- MCNode
  Home <- MCHome
  Hit <- MCHit
  Ip = {host}
  jobs = jobs
  BindName = {jobs}
  p1 = p1
  p2 = p2
  Port = {p1, p2}
  HasTopology = TRUE
  Hwm = 2
  MaxLife <- OneRestart
INVARIANTS
  UpToDate
