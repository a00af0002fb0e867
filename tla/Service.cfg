SPECIFICATION FairSpec
CONSTANTS
  Handle = {1, 2, 3, 4}
  Ch1 = 2
  Ch2 = 3
  MainId = {1, 2}
  Port = {1, 2}
  Name = {"jobs", "out"}
  Topology <- MCTopology
  Program <- MCProgram
INVARIANTS
  ReceivesFromSockets
  AdvertisedIsBound
  StaysOnDirectory
PROPERTIES
  WaitingIsReceived
  EveryMainRuns
  StopEndsTheLoop
  DestructorReturns
CHECK_DEADLOCK FALSE
