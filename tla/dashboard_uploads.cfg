SPECIFICATION PageSpec
CONSTANTS
  u1 = u1
  u2 = u2
  Uploads <- TwoUploads
  NumFiles = 3
  Faults = {"http", "put"}
INVARIANTS
  RunningIsShown
  DoneHasJob
  JobIdsMatchFiles
  OnlyUploadsAreConfirmed
PROPERTIES
  UploadsReturn
  BatchReturns
CHECK_DEADLOCK FALSE
