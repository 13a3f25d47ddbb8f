SPECIFICATION FairSpec
CONSTANTS
  j1 = j1
  j2 = j2
  r1 = r1
  r2 = r2
  Jobs <- TwoJobs
  Readers <- TwoReaders
  MaxInFlight = 2
  Faults = {"redis"}
INVARIANTS
  AnsweredJobsAreCounted
PROPERTIES
  StatsConverge
CHECK_DEADLOCK FALSE
