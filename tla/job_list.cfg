SPECIFICATION FairSpec
CONSTANTS
  j1 = j1
  j2 = j2
  Jobs <- TwoJobs
  Statuses <- TwoStatuses
  All = "all"
  Filters = {"all", "pending"}
  Limit = 1
  MaxQueries = 2
  Faults = {"http"}
INVARIANTS
  PageExisted
PROPERTIES
  ListConverges
