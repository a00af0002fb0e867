INIT Init
NEXT Next
CONSTANTS
  Uris <- UrisUsed
  Paths <- PathsUsed
  Files <- FilesUsed
  BlockSize = 2
  MaxEntries = 2
  MaxRequests = 2
INVARIANT
  RegisteredIsServed
CHECK_DEADLOCK FALSE
