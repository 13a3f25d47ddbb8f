SPECIFICATION FairSpec
CONSTANTS
  j1 = j1
  j2 = j2
  w1 = w1
  w2 = w2
  NoWorker = NoWorker
  Jobs <- TwoJobs
  BatchJobs <- OneJob
  Workers <- OneWorker
  Concurrency = 2
  ApiMaxRetries = 2
  WorkerMaxRetries = 2
  MaxStalledCount = 1
  Faults <- InputFaults
PROPERTIES
  PromiseKept
CHECK_DEADLOCK FALSE
