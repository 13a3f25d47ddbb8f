SPECIFICATION Spec
CONSTANTS
  k1 = k1
  k2 = k2
  r1 = r1
  r2 = r2
  b1 = b1
  b2 = b2
  NoBatch = NoBatch
  Keys <- TwoKeys
  Requests <- TwoRequests
  Sizes = {1, 2}
  MaxFileSize = 2
  Confirms <- SomeConfirms
  MaxFiles = 2
  MaxInFlight = 1
  Faults <- AllFaults
INVARIANTS
  OrphansAreUnconfirmed
