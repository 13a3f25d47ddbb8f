SPECIFICATION FairSpec
CONSTANTS
  j1 = j1
  j2 = j2
  w1 = w1
  w2 = w2
  NoWorker = NoWorker
  Jobs <- OneJob
  BatchJobs <- OneJob
  Workers <- TwoWorkers
  Concurrency = 2
  ApiMaxRetries = 2
  WorkerMaxRetries = 2
  MaxStalledCount = 1
  Faults <- AllFaults
INVARIANTS
  IInv
  ResultBeforeCompleted
  AcknowledgedMeansCompleted
  FailedIsFinal
  AttemptsBounded
  OnePublisher
  NoConcurrentRuns
PROPERTIES
  OutcomeStays
  EventuallySettled
