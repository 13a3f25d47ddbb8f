SPECIFICATION Spec
CONSTANTS
  k1 = k1
  k2 = k2
  r1 = r1
  r2 = r2
  b1 = b1
  b2 = b2
  NoBatch = NoBatch
  Keys <- TwoKeys
  Requests <- TwoRequests
  Sizes = {1, 2}
  MaxFileSize = 1
  Confirms <- SomeConfirms
  MaxFiles = 2
  MaxInFlight = 2
  Faults <- AllFaults
SYMMETRY RequestSymmetry
INVARIANTS
  UInv
  QueuedJobsAreBacked
  UploadsAreKept
  RecordedSizeIsActual
  OneJobPerUpload
PROPERTIES
  BatchTotalIsFinal
  ConfirmKept
