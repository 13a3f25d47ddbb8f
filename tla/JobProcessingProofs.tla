------------------------- MODULE JobProcessingProofs -------------------------
(* Proofs about JobProcessing, for every value of its constants.           *)
EXTENDS JobProcessing, FiniteSetTheorems, TLAPS

(* The writes of the repository yield job documents.                       *)
LEMMA RepositoryTypes ==
  ASSUME NEW doc \in JobDoc \cup {NoJob}, NEW s \in JobStatus, NEW e \in BOOLEAN
  PROVE  /\ UpdateStatus(doc, s, e) \in JobDoc \cup {NoJob}
         /\ IncrementAttempts(doc) \in JobDoc \cup {NoJob}
         /\ SetStartedAt(doc) \in JobDoc \cup {NoJob}
         /\ SetCompletedAt(doc) \in JobDoc \cup {NoJob}
<1>1. CASE doc = NoJob
  BY <1>1 DEF UpdateStatus, IncrementAttempts, SetStartedAt, SetCompletedAt, Exists, NoJob
<1>2. CASE doc \in JobDoc
  <2>1. Exists(doc)
    BY <1>2 DEF Exists, JobDoc, JobStatus
  <2>2. UpdateStatus(doc, s, e) \in JobDoc
    BY <1>2, <2>1 DEF UpdateStatus, JobDoc
  <2>3. IncrementAttempts(doc) \in JobDoc
    BY <1>2, <2>1 DEF IncrementAttempts, JobDoc
  <2>4. SetStartedAt(doc) \in JobDoc
    BY <1>2, <2>1 DEF SetStartedAt, JobDoc
  <2>5. SetCompletedAt(doc) \in JobDoc
    BY <1>2, <2>1 DEF SetCompletedAt, JobDoc
  <2>. QED  BY <2>2, <2>3, <2>4, <2>5
<1>. QED  BY <1>1, <1>2

(* Moving one run keeps every run a run.                                   *)
LEMMA GoToType ==
  ASSUME TypeOK, NEW j \in Jobs, NEW n \in RunIds, NEW pc \in Steps, GoTo(j, n, pc)
  PROVE  /\ runs' \in [Jobs -> [RunIds -> Run]]
         /\ runs'[j][n] = [runs[j][n] EXCEPT !.pc = pc]
         /\ \A k \in Jobs, m \in RunIds : k # j \/ m # n => runs'[k][m] = runs[k][m]
<1>1. runs \in [Jobs -> [RunIds -> Run]]
  BY DEF TypeOK
<1>2. [runs[j][n] EXCEPT !.pc = pc] \in Run
  <2>1. runs[j][n] \in Run
    BY <1>1
  <2>. QED  BY <2>1 DEF Run
<1>. QED  BY <1>1, <1>2 DEF GoTo

LEMMA InitType == ASSUME ConstantsAssumption, Init PROVE TypeOK
BY DEF ConstantsAssumption, Init, TypeOK, NotQueued, BullJob, BullStates, Unused, Run, Steps, NoResult, MaxRuns

(* Counting attempts: a run that may have counted one never stops to be     *)
(* such a run, and there are finitely many.                                *)
LEMMA CountedFinite ==
  ASSUME ConstantsAssumption, NEW j \in Jobs
  PROVE  IsFiniteSet(Counted(j)) /\ Cardinality(Counted(j)) \in Nat
<1>1. ApiMaxRetries + MaxStalledCount \in Int
  BY DEF ConstantsAssumption
<1>2. IsFiniteSet(1 .. (ApiMaxRetries + MaxStalledCount))
  BY <1>1, FS_Interval
<1>3. Counted(j) \subseteq 1 .. (ApiMaxRetries + MaxStalledCount)
  BY DEF Counted
<1>. QED  BY <1>2, <1>3, FS_Subset, FS_CardinalityType

LEMMA CountedAtMost ==
  ASSUME ConstantsAssumption, NEW j \in Jobs
  PROVE  Cardinality(Counted(j)) <= ApiMaxRetries + MaxStalledCount
<1>1. ApiMaxRetries + MaxStalledCount \in Nat \ {0}
  BY DEF ConstantsAssumption
<1>2. /\ IsFiniteSet(1 .. (ApiMaxRetries + MaxStalledCount))
      /\ Cardinality(1 .. (ApiMaxRetries + MaxStalledCount)) = ApiMaxRetries + MaxStalledCount
  BY <1>1, FS_Interval
<1>3. Counted(j) \subseteq 1 .. (ApiMaxRetries + MaxStalledCount)
  BY DEF Counted
<1>. QED  BY <1>2, <1>3, FS_Subset

LEMMA AttemptsStep ==
  ASSUME ConstantsAssumption, AttemptsInv, NEW j \in Jobs,
         jobs[j].attempts \in Nat, jobs'[j].attempts \in Nat,
         \A m \in RunIds : /\ runs[j][m].pc \notin BeforeIncrement \cup {"unused"}
                           => runs'[j][m].pc \notin BeforeIncrement \cup {"unused"},
         \/ jobs'[j].attempts <= jobs[j].attempts
         \/ /\ jobs'[j].attempts = jobs[j].attempts + 1
            /\ \E m \in 1 .. (ApiMaxRetries + MaxStalledCount) :
                 /\ runs[j][m].pc \in BeforeIncrement
                 /\ runs'[j][m].pc \notin BeforeIncrement \cup {"unused"}
  PROVE  jobs'[j].attempts <= Cardinality(Counted(j)')
<1>1. 1 .. (ApiMaxRetries + MaxStalledCount) \subseteq RunIds
  BY DEF ConstantsAssumption, RunIds, MaxRuns
<1>2. Counted(j) \subseteq Counted(j)'
  BY <1>1 DEF Counted
<1>3. IsFiniteSet(Counted(j)) /\ Cardinality(Counted(j)) \in Nat
  BY CountedFinite
<1>4. IsFiniteSet(Counted(j)') /\ Cardinality(Counted(j)') \in Nat
  <2>1. ApiMaxRetries + MaxStalledCount \in Int
    BY DEF ConstantsAssumption
  <2>2. IsFiniteSet(1 .. (ApiMaxRetries + MaxStalledCount))
    BY <2>1, FS_Interval
  <2>3. Counted(j)' \subseteq 1 .. (ApiMaxRetries + MaxStalledCount)
    BY DEF Counted
  <2>. QED  BY <2>2, <2>3, FS_Subset, FS_CardinalityType
<1>5. jobs[j].attempts <= Cardinality(Counted(j))
  BY DEF AttemptsInv
<1>6. Cardinality(Counted(j)) <= Cardinality(Counted(j)')
  BY <1>2, <1>4, FS_Subset
<1>7. CASE jobs'[j].attempts <= jobs[j].attempts
  BY <1>3, <1>4, <1>5, <1>6, <1>7
<1>8. CASE /\ jobs'[j].attempts = jobs[j].attempts + 1
           /\ \E m \in 1 .. (ApiMaxRetries + MaxStalledCount) :
                /\ runs[j][m].pc \in BeforeIncrement
                /\ runs'[j][m].pc \notin BeforeIncrement \cup {"unused"}
  <2>1. PICK m \in 1 .. (ApiMaxRetries + MaxStalledCount) :
               /\ runs[j][m].pc \in BeforeIncrement
               /\ runs'[j][m].pc \notin BeforeIncrement \cup {"unused"}
    BY <1>8
  <2>2. m \notin Counted(j) /\ m \in Counted(j)'
    BY <2>1 DEF Counted
  <2>3. Counted(j) \cup {m} \subseteq Counted(j)'
    BY <1>2, <2>2
  <2>4. Cardinality(Counted(j) \cup {m}) = Cardinality(Counted(j)) + 1
    BY <1>3, <2>2, FS_AddElement
  <2>5. Cardinality(Counted(j) \cup {m}) <= Cardinality(Counted(j)')
    BY <1>4, <2>3, FS_Subset
  <2>. QED  BY <1>3, <1>4, <1>5, <1>8, <2>4, <2>5
<1>. QED  BY <1>7, <1>8

(* One run moves on within the processor, its writes touching only its own  *)
(* job: every step from SetProcessing to CountBatch is of this form.       *)
LEMMA RunMoves ==
  ASSUME ConstantsAssumption, IInv, NEW j \in Jobs, NEW n \in RunIds, NEW pc \in Executing,
         runs[j][n].pc \in Executing, GoTo(j, n, pc), UNCHANGED <<bull, alive>>,
         jobs' \in [Jobs -> JobDoc \cup {NoJob}],
         results' \in [Jobs -> {NoResult} \cup RunIds],
         \A k \in Jobs \ {j} : jobs'[k] = jobs[k] /\ results'[k] = results[k],
         results[j] # NoResult => results'[j] = results[j],
         pc \in AfterResult => results'[j] = n,
         Exists(jobs[j]) => Exists(jobs'[j]),
         jobs[j].completedAt => jobs'[j].completedAt,
         jobs'[j].status = "completed" \/ jobs'[j].completedAt => results'[j] # NoResult,
         pc \in {"countBatch", "return"} => jobs'[j].completedAt,
         pc \in BeforeIncrement => runs[j][n].pc \in BeforeIncrement,
         \/ jobs'[j].attempts = jobs[j].attempts
         \/ /\ jobs'[j].attempts = jobs[j].attempts + 1
            /\ runs[j][n].pc \in BeforeIncrement
            /\ pc \notin BeforeIncrement
  PROVE  IInv'
<1>1. /\ runs' \in [Jobs -> [RunIds -> Run]]
      /\ runs'[j][n] = [runs[j][n] EXCEPT !.pc = pc]
      /\ \A k \in Jobs, m \in RunIds : k # j \/ m # n => runs'[k][m] = runs[k][m]
  BY GoToType DEF IInv, Steps
<1>2. TypeOK'
  BY <1>1 DEF IInv, TypeOK
<1>3. runs[j][n] \in Run /\ runs'[j][n].pc = pc
  BY <1>1 DEF IInv, TypeOK, Run
<1>4. QueueInv'
  BY DEF IInv, QueueInv
<1>5. RunInv'
  <2>. SUFFICES ASSUME NEW k \in Jobs, NEW m \in RunIds
                PROVE  LET r == runs'[k][m] IN
                       /\ m > bull[k].started => r.pc = "unused"
                       /\ r.pc \in Executing => m <= ApiMaxRetries + MaxStalledCount
                       /\ r.pc = "onFailed" /\ r.made >= ApiMaxRetries => bull[k].state = "failed"
                       /\ r.pc \in {"countBatch", "return"} => jobs'[k].completedAt
    BY DEF RunInv
  <2>1. CASE k = j /\ m = n
    BY <1>3, <2>1 DEF IInv, RunInv, Executing, BeforeIncrement, BeforeResult, AfterResult
  <2>2. CASE k # j \/ m # n
    <3>1. runs'[k][m] = runs[k][m]
      BY <1>1, <2>2
    <3>2. jobs[k].completedAt => jobs'[k].completedAt
      OBVIOUS
    <3>. QED  BY <3>1, <3>2 DEF IInv, RunInv
  <2>. QED  BY <2>1, <2>2
<1>6. OnePublisher'
  <2>. SUFFICES ASSUME NEW k \in Jobs, NEW m \in RunIds, runs'[k][m].pc \in AfterResult
                PROVE  results'[k] = m
    BY DEF OnePublisher
  <2>1. CASE k = j /\ m = n
    BY <1>3, <2>1
  <2>2. CASE k # j \/ m # n
    <3>1. results[k] = m
      BY <1>1, <2>2 DEF IInv, OnePublisher
    <3>2. m # NoResult
      BY DEF RunIds, NoResult
    <3>. QED  BY <3>1, <3>2
  <2>. QED  BY <2>1, <2>2
<1>7. ResultBeforeCompleted' /\ AcknowledgedHasResult'
  BY DEF IInv, ResultBeforeCompleted, AcknowledgedHasResult
<1>8. AttemptsInv'
  <2>. SUFFICES ASSUME NEW k \in Jobs
                PROVE  jobs'[k].attempts <= Cardinality(Counted(k)')
    BY DEF AttemptsInv
  <2>1. jobs[k].attempts \in Nat /\ jobs'[k].attempts \in Nat
    BY <1>2 DEF IInv, TypeOK, JobDoc, NoJob
  <2>2. \A m \in RunIds : runs[k][m].pc \notin BeforeIncrement \cup {"unused"}
                          => runs'[k][m].pc \notin BeforeIncrement \cup {"unused"}
    <3>1. runs'[j][n].pc \notin BeforeIncrement \cup {"unused"}
          \/ runs[j][n].pc \in BeforeIncrement
      BY <1>3 DEF Executing, BeforeIncrement, BeforeResult, AfterResult
    <3>2. \A m \in RunIds : k # j \/ m # n => runs'[k][m] = runs[k][m]
      BY <1>1
    <3>. QED  BY <3>1, <3>2
  <2>3. n \in 1 .. (ApiMaxRetries + MaxStalledCount)
    BY DEF IInv, RunInv, ConstantsAssumption, RunIds, MaxRuns
  <2>4. CASE k = j
    <3>1. pc \notin BeforeIncrement => runs'[j][n].pc \notin BeforeIncrement \cup {"unused"}
      BY <1>3 DEF Executing, BeforeIncrement, BeforeResult, AfterResult
    <3>. QED  BY <2>1, <2>2, <2>3, <2>4, <3>1, AttemptsStep DEF IInv
  <2>5. CASE k # j
    BY <2>1, <2>2, <2>5, AttemptsStep DEF IInv
  <2>. QED  BY <2>4, <2>5
<1>9. OwnerInv'
  <2>. SUFFICES ASSUME NEW k \in Jobs, NEW m \in RunIds
                PROVE  runs'[k][m].worker = NoWorker <=> runs'[k][m].pc \in {"unused", "ended"}
    BY DEF OwnerInv
  <2>1. CASE k = j /\ m = n
    <3>1. runs'[j][n].worker = runs[j][n].worker
      BY <1>1, <1>3 DEF Run
    <3>. QED  BY <1>3, <2>1, <3>1
              DEF IInv, OwnerInv, Executing, BeforeIncrement, BeforeResult, AfterResult
  <2>2. CASE k # j \/ m # n
    BY <1>1, <2>2 DEF IInv, OwnerInv
  <2>. QED  BY <2>1, <2>2
<1>. QED  BY <1>2, <1>4, <1>5, <1>6, <1>7, <1>8, <1>9 DEF IInv

(* A job that is being processed has its document.                         *)
LEMMA ExecutingExists ==
  ASSUME IInv, NEW j \in Jobs, NEW n \in RunIds, runs[j][n].pc \in Executing
  PROVE  Exists(jobs[j]) /\ bull[j].state # "absent"
<1>1. bull[j].started \in Nat /\ n \in Nat \ {0}
  BY DEF IInv, TypeOK, BullJob, RunIds, MaxRuns
<1>2. runs[j][n].pc # "unused"
  BY DEF Executing, BeforeIncrement, BeforeResult, AfterResult
<1>3. n <= bull[j].started
  BY <1>1, <1>2 DEF IInv, RunInv
<1>. QED  BY <1>1, <1>3 DEF IInv, QueueInv, Accounted

(* What an update of the status leaves alone.                              *)
LEMMA UpdateStatusEffect ==
  ASSUME NEW doc \in JobDoc \cup {NoJob}, NEW s \in JobStatus, NEW e \in BOOLEAN
  PROVE  /\ Exists(doc) <=> Exists(UpdateStatus(doc, s, e))
         /\ UpdateStatus(doc, s, e).completedAt = doc.completedAt
         /\ UpdateStatus(doc, s, e).attempts = doc.attempts
         /\ UpdateStatus(doc, s, e).status = IF Exists(doc) THEN s ELSE "none"
<1>1. CASE doc = NoJob
  BY <1>1 DEF UpdateStatus, Exists, NoJob
<1>2. CASE doc \in JobDoc
  <2>1. Exists(doc)
    BY <1>2 DEF Exists, JobDoc, JobStatus
  <2>2. UpdateStatus(doc, s, e) = [doc EXCEPT !.status = s, !.error = e]
    BY <2>1 DEF UpdateStatus
  <2>3. s # "none"
    BY DEF JobStatus
  <2>. QED  BY <1>2, <2>1, <2>2, <2>3 DEF Exists, JobDoc
<1>. QED  BY <1>1, <1>2

(* The five writes to the job document.                                    *)
LEMMA WriteJobStep ==
  ASSUME ConstantsAssumption, IInv, NEW j \in Jobs, NEW n \in RunIds,
         \/ SetProcessing(j, n) \/ SetStarted(j, n) \/ CountAttempt(j, n)
         \/ SetCompleted(j, n) \/ SetCompletedTime(j, n)
  PROVE  IInv'
<1>. DEFINE d == jobs[j]
<1>1. d \in JobDoc \cup {NoJob} /\ jobs \in [Jobs -> JobDoc \cup {NoJob}]
  BY DEF IInv, TypeOK
<1>2. d.attempts \in Nat
  BY <1>1 DEF JobDoc, NoJob
<1>3. results \in [Jobs -> {NoResult} \cup RunIds] /\ n # NoResult
  BY DEF IInv, TypeOK, RunIds, NoResult
<1>4. runs[j][n].pc \in Executing => Exists(d)
  BY ExecutingExists
<1>5. runs[j][n].pc \in AfterResult => results[j] = n
  BY DEF IInv, OnePublisher
<1>6. d.status = "completed" \/ d.completedAt => results[j] # NoResult
  BY DEF IInv, ResultBeforeCompleted
<1>7. CASE SetProcessing(j, n)
  <2>1. PICK to \in {"setStartedAt", "throw"} :
          /\ GoTo(j, n, to)
          /\ jobs' \in {jobs, [jobs EXCEPT ![j] = UpdateStatus(d, "processing", FALSE)]}
    BY <1>7 DEF SetProcessing, WriteJob
  <2>2. UpdateStatus(d, "processing", FALSE) \in JobDoc \cup {NoJob}
    BY <1>1, RepositoryTypes DEF JobStatus
  <2>3. jobs' \in [Jobs -> JobDoc \cup {NoJob}]
    BY <1>1, <2>1, <2>2
  <2>4. /\ Exists(d) => Exists(jobs'[j])
        /\ jobs'[j].completedAt = d.completedAt
        /\ jobs'[j].status = "completed" => d.status = "completed"
        /\ jobs'[j].attempts = d.attempts
    <3>. DEFINE u == UpdateStatus(d, "processing", FALSE)
    <3>1. /\ Exists(d) <=> Exists(u)
          /\ u.completedAt = d.completedAt
          /\ u.attempts = d.attempts
          /\ u.status = IF Exists(d) THEN "processing" ELSE "none"
      BY <1>1, UpdateStatusEffect DEF JobStatus
    <3>2. jobs'[j] = d \/ jobs'[j] = u
      BY <1>1, <2>1
    <3>. HIDE DEF u, d
    <3>. QED  BY <3>1, <3>2
  <2>. QED  BY <1>3, <1>6, <1>7, <2>1, <2>3, <2>4, RunMoves
            DEF SetProcessing, WriteJob, Executing, BeforeIncrement, AfterResult
<1>8. CASE SetStarted(j, n)
  <2>1. PICK to \in {"incrementAttempts", "throw"} :
          /\ GoTo(j, n, to)
          /\ jobs' \in {jobs, [jobs EXCEPT ![j] = SetStartedAt(d)]}
    BY <1>8 DEF SetStarted, WriteJob
  <2>2. jobs' \in [Jobs -> JobDoc \cup {NoJob}]
    BY <1>1, <2>1, RepositoryTypes DEF JobStatus
  <2>3. /\ Exists(d) => Exists(jobs'[j])
        /\ jobs'[j].completedAt = d.completedAt
        /\ jobs'[j].status = d.status
        /\ jobs'[j].attempts = d.attempts
    BY <1>1, <2>1 DEF SetStartedAt, Exists, JobDoc, NoJob
  <2>. QED  BY <1>3, <1>6, <1>8, <2>1, <2>2, <2>3, RunMoves
            DEF SetStarted, WriteJob, Executing, BeforeIncrement, AfterResult
<1>9. CASE CountAttempt(j, n)
  <2>1. PICK to \in {"findFileAndJob", "throw"} :
          /\ GoTo(j, n, to)
          /\ jobs' \in {jobs, [jobs EXCEPT ![j] = IncrementAttempts(d)]}
    BY <1>9 DEF CountAttempt, WriteJob
  <2>2. jobs' \in [Jobs -> JobDoc \cup {NoJob}]
    BY <1>1, <2>1, RepositoryTypes DEF JobStatus
  <2>3. /\ Exists(d) => Exists(jobs'[j])
        /\ jobs'[j].completedAt = d.completedAt
        /\ jobs'[j].status = d.status
        /\ jobs'[j].attempts \in {d.attempts, d.attempts + 1}
    BY <1>1, <2>1 DEF IncrementAttempts, Exists, JobDoc, NoJob
  <2>. QED  BY <1>3, <1>6, <1>9, <2>1, <2>2, <2>3, RunMoves
            DEF CountAttempt, WriteJob, Executing, BeforeIncrement, BeforeResult, AfterResult
<1>10. CASE SetCompleted(j, n)
  <2>1. PICK to \in {"setCompletedAt", "throw"} :
          /\ GoTo(j, n, to)
          /\ jobs' \in {jobs, [jobs EXCEPT ![j] = UpdateStatus(d, "completed", FALSE)]}
    BY <1>10 DEF SetCompleted, WriteJob
  <2>2. UpdateStatus(d, "completed", FALSE) \in JobDoc \cup {NoJob}
    BY <1>1, RepositoryTypes DEF JobStatus
  <2>3. jobs' \in [Jobs -> JobDoc \cup {NoJob}]
    BY <1>1, <2>1, <2>2
  <2>4. /\ Exists(d) => Exists(jobs'[j])
        /\ jobs'[j].completedAt = d.completedAt
        /\ jobs'[j].attempts = d.attempts
    <3>. DEFINE u == UpdateStatus(d, "completed", FALSE)
    <3>1. /\ Exists(d) <=> Exists(u)
          /\ u.completedAt = d.completedAt
          /\ u.attempts = d.attempts
          /\ u.status = IF Exists(d) THEN "completed" ELSE "none"
      BY <1>1, UpdateStatusEffect DEF JobStatus
    <3>2. jobs'[j] = d \/ jobs'[j] = u
      BY <1>1, <2>1
    <3>. HIDE DEF u, d
    <3>. QED  BY <3>1, <3>2
  <2>5. results[j] = n
    BY <1>5, <1>10 DEF SetCompleted, WriteJob, AfterResult
  <2>. QED  BY <1>3, <1>10, <2>1, <2>3, <2>4, <2>5, RunMoves
            DEF SetCompleted, WriteJob, Executing, BeforeIncrement, AfterResult
<1>11. CASE SetCompletedTime(j, n)
  <2>1. PICK to \in {"countBatch", "return", "throw"} :
          /\ GoTo(j, n, to)
          /\ jobs' \in {jobs, [jobs EXCEPT ![j] = SetCompletedAt(d)]}
          /\ to # "throw" => jobs' = [jobs EXCEPT ![j] = SetCompletedAt(d)]
    BY <1>11 DEF SetCompletedTime, WriteJob
  <2>2. jobs' \in [Jobs -> JobDoc \cup {NoJob}]
    BY <1>1, <2>1, RepositoryTypes DEF JobStatus
  <2>3. Exists(d)
    BY <1>4, <1>11 DEF SetCompletedTime, WriteJob, Executing, AfterResult
  <2>4. /\ Exists(d) => Exists(jobs'[j])
        /\ d.completedAt => jobs'[j].completedAt
        /\ to # "throw" => jobs'[j].completedAt
        /\ jobs'[j].attempts = d.attempts
    BY <1>1, <2>1, <2>3 DEF SetCompletedAt, Exists, JobDoc, NoJob
  <2>5. results[j] = n
    BY <1>5, <1>11 DEF SetCompletedTime, WriteJob, AfterResult
  <2>. QED  BY <1>3, <1>11, <2>1, <2>2, <2>4, <2>5, RunMoves
            DEF SetCompletedTime, WriteJob, Executing, BeforeIncrement, AfterResult
<1>. QED  BY <1>7, <1>8, <1>9, <1>10, <1>11

(* The steps that only read.                                               *)
LEMMA ReadStep ==
  ASSUME ConstantsAssumption, IInv, NEW j \in Jobs, NEW n \in RunIds,
         \/ FindFileAndJob(j, n) \/ GetStream(j, n) \/ ProcessCsv(j, n) \/ CountBatch(j, n)
  PROVE  IInv'
<1>1. /\ jobs' = jobs /\ results' = results /\ UNCHANGED <<bull, alive>>
      /\ runs[j][n].pc \in BeforeResult \cup {"countBatch"}
      /\ \E pc \in {"getStream", "processCsv", "createResult", "return", "throw"} :
           /\ GoTo(j, n, pc)
           /\ pc = "return" => runs[j][n].pc = "countBatch"
  BY DEF FindFileAndJob, GetStream, ProcessCsv, CountBatch, Read, BeforeResult
<1>2. PICK pc \in {"getStream", "processCsv", "createResult", "return", "throw"} :
        /\ GoTo(j, n, pc)
        /\ pc = "return" => runs[j][n].pc = "countBatch"
  BY <1>1
<1>3. pc = "return" => jobs[j].completedAt /\ results[j] = n
  BY <1>2 DEF IInv, RunInv, OnePublisher, AfterResult
<1>4. jobs[j].status = "completed" \/ jobs[j].completedAt => results[j] # NoResult
  BY DEF IInv, ResultBeforeCompleted
<1>. QED  BY <1>1, <1>2, <1>3, <1>4, RunMoves
          DEF IInv, TypeOK, Executing, BeforeIncrement, BeforeResult, AfterResult

LEMMA CreateResultStep ==
  ASSUME ConstantsAssumption, IInv, NEW j \in Jobs, NEW n \in RunIds, CreateResult(j, n)
  PROVE  IInv'
<1>1. PICK pc \in {"setCompleted", "throw"} :
        /\ GoTo(j, n, pc)
        /\ results' = results \/ (results[j] = NoResult /\ results' = [results EXCEPT ![j] = n])
        /\ pc = "setCompleted" => results' = [results EXCEPT ![j] = n]
  BY DEF CreateResult
<1>2. results \in [Jobs -> {NoResult} \cup RunIds] /\ n # NoResult
  BY DEF IInv, TypeOK, RunIds, NoResult
<1>3. jobs[j].status = "completed" \/ jobs[j].completedAt => results[j] # NoResult
  BY DEF IInv, ResultBeforeCompleted
<1>4. /\ results' \in [Jobs -> {NoResult} \cup RunIds]
      /\ \A k \in Jobs \ {j} : results'[k] = results[k]
      /\ results[j] # NoResult => results'[j] = results[j]
      /\ pc \in AfterResult => results'[j] = n
  BY <1>1, <1>2 DEF AfterResult
<1>5. /\ jobs' = jobs /\ UNCHANGED <<bull, alive>> /\ jobs \in [Jobs -> JobDoc \cup {NoJob}]
      /\ runs[j][n].pc \in Executing
  BY DEF CreateResult, IInv, TypeOK, Executing, BeforeResult
<1>6. pc \in Executing /\ pc \notin BeforeIncrement /\ pc \notin {"countBatch", "return"}
  BY DEF Executing, BeforeIncrement, AfterResult
<1>. QED  BY <1>1, <1>3, <1>4, <1>5, <1>6, RunMoves

(* A run begins, ends or turns into its `failed` event r, while the queue   *)
(* moves the job on to b.                                                  *)
RunHandover(j, n, b, r) ==
  /\ Accounted(b)
  /\ b.state # "absent"
  /\ b.state = "completed" => results[j] # NoResult /\ jobs[j].completedAt
  /\ bull[j].state = "failed" => b.state = "failed"
  /\ bull[j].started <= b.started
  /\ n <= b.started
  /\ r.pc \in {"setProcessing", "onFailed", "ended"}
  /\ r.worker = NoWorker <=> r.pc = "ended"
  /\ r.pc = "setProcessing" =>
       runs[j][n].pc = "unused" /\ n <= ApiMaxRetries + MaxStalledCount
  /\ r.pc = "onFailed" /\ r.made >= ApiMaxRetries => b.state = "failed"

(* What remains to be shown of such a step is about that job and that run.  *)
LEMMA RunReplaced ==
  ASSUME ConstantsAssumption, IInv, NEW j \in Jobs, NEW n \in RunIds, NEW r \in Run,
         NEW b \in BullJob,
         runs' = [runs EXCEPT ![j][n] = r], bull' = [bull EXCEPT ![j] = b],
         UNCHANGED <<jobs, results, alive>>, Exists(jobs[j]),
         RunHandover(j, n, b, r)
  PROVE  IInv'
<1>1. /\ runs' \in [Jobs -> [RunIds -> Run]]
      /\ runs'[j][n] = r
      /\ \A k \in Jobs, m \in RunIds : k # j \/ m # n => runs'[k][m] = runs[k][m]
  <2>1. runs \in [Jobs -> [RunIds -> Run]]
    BY DEF IInv, TypeOK
  <2>. QED  BY <2>1
<1>0. bull \in [Jobs -> BullJob]
  BY DEF IInv, TypeOK
<1>2. /\ bull' \in [Jobs -> BullJob]
      /\ bull'[j] = b
      /\ \A k \in Jobs \ {j} : bull'[k] = bull[k]
  BY <1>0
<1>3. TypeOK'
  BY <1>1, <1>2 DEF IInv, TypeOK
<1>4. QueueInv'
  <2>. SUFFICES ASSUME NEW k \in Jobs
                PROVE  /\ Accounted(bull'[k])
                       /\ bull'[k].state # "absent" => Exists(jobs'[k])
    BY DEF QueueInv, Accounted
  <2>1. CASE k = j
    BY <1>2, <2>1 DEF RunHandover
  <2>2. CASE k # j
    <3>1. bull'[k] = bull[k] /\ jobs'[k] = jobs[k]
      BY <1>2, <2>2
    <3>. QED  BY <3>1 DEF IInv, QueueInv
  <2>. QED  BY <2>1, <2>2
<1>5. RunInv'
  <2>. SUFFICES ASSUME NEW k \in Jobs, NEW m \in RunIds
                PROVE  LET q == runs'[k][m] IN
                       /\ m > bull'[k].started => q.pc = "unused"
                       /\ q.pc \in Executing => m <= ApiMaxRetries + MaxStalledCount
                       /\ q.pc = "onFailed" /\ q.made >= ApiMaxRetries => bull'[k].state = "failed"
                       /\ q.pc \in {"countBatch", "return"} => jobs'[k].completedAt
    BY DEF RunInv
  <2>0. /\ n \in Nat /\ m \in Nat /\ bull[k].started \in Nat /\ bull'[k].started \in Nat
        /\ bull[j].started \in Nat /\ b.started \in Nat
    BY <1>0, <1>2 DEF BullJob, RunIds, MaxRuns, ConstantsAssumption
  <2>1. CASE k = j /\ m = n
    BY <1>1, <1>2, <2>0, <2>1 DEF RunHandover, Executing, BeforeIncrement, BeforeResult, AfterResult
  <2>2. CASE k # j \/ m # n
    <3>1. runs'[k][m] = runs[k][m]
      BY <1>1, <2>2
    <3>2. bull[k].started <= bull'[k].started
      BY <1>2, <2>0 DEF RunHandover
    <3>3. bull[k].state = "failed" => bull'[k].state = "failed"
      BY <1>2 DEF RunHandover
    <3>. QED  BY <2>0, <3>1, <3>2, <3>3 DEF IInv, RunInv
  <2>. QED  BY <2>1, <2>2
<1>6. OnePublisher'
  BY <1>1 DEF RunHandover, IInv, OnePublisher, AfterResult
<1>7. ResultBeforeCompleted' /\ AcknowledgedHasResult'
  BY <1>2 DEF RunHandover, IInv, ResultBeforeCompleted, AcknowledgedHasResult
<1>8. AttemptsInv'
  <2>. SUFFICES ASSUME NEW k \in Jobs
                PROVE  jobs'[k].attempts <= Cardinality(Counted(k)')
    BY DEF AttemptsInv
  <2>1. jobs[k].attempts \in Nat /\ jobs'[k].attempts = jobs[k].attempts
    BY DEF IInv, TypeOK, JobDoc, NoJob
  <2>2. \A m \in RunIds : runs[k][m].pc \notin BeforeIncrement \cup {"unused"}
                          => runs'[k][m].pc \notin BeforeIncrement \cup {"unused"}
    BY <1>1 DEF RunHandover, BeforeIncrement
  <2>. QED  BY <2>1, <2>2, AttemptsStep DEF IInv
<1>9. OwnerInv'
  <2>. SUFFICES ASSUME NEW k \in Jobs, NEW m \in RunIds
                PROVE  runs'[k][m].worker = NoWorker <=> runs'[k][m].pc \in {"unused", "ended"}
    BY DEF OwnerInv
  <2>1. CASE k = j /\ m = n
    BY <1>1, <2>1 DEF RunHandover
  <2>2. CASE k # j \/ m # n
    BY <1>1, <2>2 DEF IInv, OwnerInv
  <2>. QED  BY <2>1, <2>2
<1>. QED  BY <1>3, <1>4, <1>5, <1>6, <1>7, <1>8, <1>9 DEF IInv

LEMMA StartStep ==
  ASSUME ConstantsAssumption, IInv, NEW j \in Jobs, NEW w \in Workers, Start(j, w)
  PROVE  IInv'
<1>. DEFINE b == bull[j]
            n == b.started + 1
            c == [b EXCEPT !.state = "active", !.started = n, !.lock = n]
            r == [pc |-> "setProcessing", worker |-> w, made |-> 0]
<1>1. b \in BullJob /\ b.started \in Nat /\ b.made \in Nat /\ b.stalled \in Nat
  BY DEF IInv, TypeOK, BullJob
<1>2. /\ b.state = "waiting" /\ b.started = b.made + b.stalled
      /\ b.made < ApiMaxRetries /\ b.stalled <= MaxStalledCount
      /\ Exists(jobs[j])
  BY <1>1 DEF Start, IInv, QueueInv, Accounted, Deferred, ConstantsAssumption
<1>3. n \in RunIds /\ n <= ApiMaxRetries + MaxStalledCount /\ n = b.started + 1
  BY <1>1, <1>2 DEF RunIds, MaxRuns, ConstantsAssumption
<1>4. bull' = [bull EXCEPT ![j] = c] /\ runs' = [runs EXCEPT ![j][n] = r]
  BY DEF Start
<1>5. runs[j][n].pc = "unused"
  BY <1>1, <1>3 DEF IInv, RunInv
<1>6. r \in Run /\ r.pc = "setProcessing" /\ r.worker # NoWorker
  BY DEF Run, Steps, Executing, BeforeIncrement, ConstantsAssumption
<1>7. UNCHANGED <<jobs, results, alive>>
  BY DEF Start
<1>8. n \in 0 .. MaxRuns
  BY <1>3 DEF RunIds, MaxRuns, ConstantsAssumption
<1>. HIDE DEF r, n, b
<1>9. /\ c \in BullJob /\ c.state = "active" /\ c.started = n /\ c.lock = n
      /\ c.made = b.made /\ c.stalled = b.stalled
  BY <1>1, <1>3, <1>8 DEF BullJob, BullStates
<1>. HIDE DEF c
<1>. USE DEF b
<1>10. RunHandover(j, n, c, r)
  BY <1>1, <1>2, <1>3, <1>5, <1>6, <1>9 DEF RunHandover, Accounted
<1>. QED  BY <1>2, <1>3, <1>4, <1>6, <1>7, <1>9, <1>10, RunReplaced

LEMMA FailDeferredStep ==
  ASSUME ConstantsAssumption, IInv, NEW j \in Jobs, NEW w \in Workers, FailDeferred(j, w)
  PROVE  IInv'
<1>. DEFINE b == bull[j]
            n == b.started + 1
            m == b.made + 1
            c == [b EXCEPT !.state = "failed", !.started = n, !.made = m]
            r == [pc |-> "onFailed", worker |-> w, made |-> m]
<1>1. /\ b \in BullJob /\ b.started \in Nat /\ b.made \in Nat
      /\ b.stalled \in 0 .. MaxStalledCount + 1
  BY DEF IInv, TypeOK, BullJob
<1>2. /\ b.state = "waiting" /\ b.started = b.made + b.stalled
      /\ b.made < ApiMaxRetries /\ b.lock = 0
      /\ Exists(jobs[j])
  BY <1>1 DEF FailDeferred, IInv, QueueInv, Accounted
<1>3. n \in RunIds /\ m \in 0 .. ApiMaxRetries /\ n = b.started + 1 /\ m = b.made + 1
  BY <1>1, <1>2 DEF RunIds, MaxRuns, ConstantsAssumption
<1>4. bull' = [bull EXCEPT ![j] = c] /\ runs' = [runs EXCEPT ![j][n] = r]
  BY DEF FailDeferred
<1>5. r \in Run /\ r.pc = "onFailed" /\ r.worker # NoWorker
  BY <1>3 DEF Run, Steps, ConstantsAssumption
<1>6. UNCHANGED <<jobs, results, alive>>
  BY DEF FailDeferred
<1>7. n \in 0 .. MaxRuns
  BY <1>3 DEF RunIds, MaxRuns, ConstantsAssumption
<1>. HIDE DEF r, n, m, b
<1>8. /\ c \in BullJob /\ c.state = "failed" /\ c.started = n /\ c.lock = b.lock
      /\ c.made = m /\ c.stalled = b.stalled
  BY <1>1, <1>3, <1>7 DEF BullJob, BullStates
<1>. HIDE DEF c
<1>. USE DEF b
<1>9. RunHandover(j, n, c, r)
  BY <1>1, <1>2, <1>3, <1>5, <1>8 DEF RunHandover, Accounted
<1>. QED  BY <1>2, <1>3, <1>4, <1>5, <1>6, <1>8, <1>9, RunReplaced

LEMMA AcknowledgeStep ==
  ASSUME ConstantsAssumption, IInv, NEW j \in Jobs, NEW n \in RunIds, Acknowledge(j, n)
  PROVE  IInv'
<1>. DEFINE b == bull[j]
            m == b.made + 1
            c == [b EXCEPT !.state = "completed", !.lock = 0, !.made = m]
<1>1. /\ b \in BullJob /\ b.started \in Nat /\ b.made \in Nat /\ b.stalled \in Nat
      /\ bull \in [Jobs -> BullJob] /\ n \in Nat \ {0}
  BY DEF IInv, TypeOK, BullJob, RunIds, MaxRuns, ConstantsAssumption
<1>2. /\ runs[j][n].pc = "return" /\ runs' = [runs EXCEPT ![j][n] = Ended]
      /\ UNCHANGED <<jobs, results, alive>>
      /\ bull' = [bull EXCEPT ![j] = IF b.lock = n THEN c ELSE b]
  BY <1>1 DEF Acknowledge
<1>3. /\ Exists(jobs[j]) /\ b.state # "absent"
      /\ results[j] = n /\ jobs[j].completedAt
      /\ n <= b.started
  <2>1. runs[j][n].pc \in Executing /\ runs[j][n].pc \in AfterResult
    BY <1>2 DEF Executing, AfterResult
  <2>. QED  BY <1>1, <1>2, <2>1, ExecutingExists DEF IInv, RunInv, OnePublisher
<1>4. Ended \in Run /\ Ended.pc = "ended" /\ Ended.worker = NoWorker
  BY DEF Ended, Run, Steps, ConstantsAssumption
<1>5. Accounted(b)
  BY DEF IInv, QueueInv
<1>6. n # NoResult
  BY <1>1 DEF NoResult
<1>7. CASE b.lock = n
  <2>1. b.state = "active" /\ b.made < ApiMaxRetries /\ b.stalled <= MaxStalledCount
        /\ b.started = b.made + b.stalled + 1
    BY <1>1, <1>5, <1>7 DEF Accounted
  <2>2. m \in 0 .. ApiMaxRetries /\ m = b.made + 1
    BY <1>1, <2>1 DEF ConstantsAssumption
  <2>. HIDE DEF m, b
  <2>3. /\ c \in BullJob /\ c.state = "completed" /\ c.started = b.started /\ c.lock = 0
        /\ c.made = m /\ c.stalled = b.stalled
    BY <1>1, <2>2 DEF BullJob, BullStates
  <2>. HIDE DEF c
  <2>. USE DEF b
  <2>4. RunHandover(j, n, c, Ended)
    BY <1>1, <1>3, <1>4, <1>6, <2>1, <2>2, <2>3 DEF RunHandover, Accounted
  <2>. QED  BY <1>2, <1>3, <1>4, <1>7, <2>3, <2>4, RunReplaced
<1>8. CASE b.lock # n
  <2>1. bull' = [bull EXCEPT ![j] = b]
    BY <1>2, <1>8
  <2>2. RunHandover(j, n, b, Ended)
    BY <1>1, <1>3, <1>4, <1>5, <1>6 DEF RunHandover
  <2>. QED  BY <1>1, <1>2, <1>3, <1>4, <2>1, <2>2, RunReplaced
<1>. QED  BY <1>7, <1>8

LEMMA RejectStep ==
  ASSUME ConstantsAssumption, IInv, NEW j \in Jobs, NEW n \in RunIds, Reject(j, n)
  PROVE  IInv'
<1>. DEFINE b == bull[j]
            m == b.made + 1
            s == IF m < ApiMaxRetries THEN "delayed" ELSE "failed"
            c == [b EXCEPT !.state = s, !.lock = 0, !.made = m]
            r == [runs[j][n] EXCEPT !.pc = "onFailed", !.made = m]
<1>1. /\ b \in BullJob /\ b.started \in Nat /\ b.made \in Nat /\ b.stalled \in Nat
      /\ bull \in [Jobs -> BullJob] /\ n \in Nat \ {0} /\ runs[j][n] \in Run
  BY DEF IInv, TypeOK, BullJob, RunIds, MaxRuns, ConstantsAssumption
<1>2. /\ runs[j][n].pc = "throw"
      /\ UNCHANGED <<jobs, results, alive>>
      /\ b.lock = n => bull' = [bull EXCEPT ![j] = c] /\ runs' = [runs EXCEPT ![j][n] = r]
      /\ b.lock # n => bull' = [bull EXCEPT ![j] = b] /\ runs' = [runs EXCEPT ![j][n] = Ended]
  BY <1>1 DEF Reject
<1>3. Exists(jobs[j]) /\ b.state # "absent" /\ n <= b.started
  <2>1. runs[j][n].pc \in Executing
    BY <1>2 DEF Executing
  <2>. QED  BY <1>1, <1>2, <2>1, ExecutingExists DEF IInv, RunInv
<1>4. Ended \in Run /\ Ended.pc = "ended" /\ Ended.worker = NoWorker
  BY DEF Ended, Run, Steps, ConstantsAssumption
<1>5. Accounted(b)
  BY DEF IInv, QueueInv
<1>6. b.state = "completed" => results[j] # NoResult /\ jobs[j].completedAt
  BY DEF IInv, AcknowledgedHasResult
<1>7. CASE b.lock = n
  <2>1. /\ b.state = "active" /\ b.made < ApiMaxRetries /\ b.stalled <= MaxStalledCount
        /\ b.started = b.made + b.stalled + 1
    BY <1>1, <1>5, <1>7 DEF Accounted
  <2>2. m \in 0 .. ApiMaxRetries /\ m = b.made + 1
    BY <1>1, <2>1 DEF ConstantsAssumption
  <2>3. /\ s \in BullStates /\ s \in {"delayed", "failed"}
        /\ s = "delayed" => m < ApiMaxRetries
        /\ m >= ApiMaxRetries => s = "failed"
    BY <1>1, <2>2 DEF BullStates, ConstantsAssumption
  <2>. HIDE DEF m, b, s
  <2>4. /\ c \in BullJob /\ c.state = s /\ c.started = b.started /\ c.lock = 0
        /\ c.made = m /\ c.stalled = b.stalled
    BY <1>1, <2>2, <2>3 DEF BullJob
  <2>5. r \in Run /\ r.pc = "onFailed" /\ r.made = m /\ r.worker # NoWorker
    <3>1. runs[j][n].worker # NoWorker
      BY <1>2 DEF IInv, OwnerInv
    <3>. QED  BY <1>1, <2>2, <3>1 DEF Run, Steps
  <2>. HIDE DEF c, r
  <2>. USE DEF b
  <2>6. RunHandover(j, n, c, r)
    BY <1>1, <1>3, <2>1, <2>2, <2>3, <2>4, <2>5 DEF RunHandover, Accounted
  <2>. QED  BY <1>2, <1>3, <1>7, <2>4, <2>5, <2>6, RunReplaced
<1>8. CASE b.lock # n
  <2>1. RunHandover(j, n, b, Ended)
    BY <1>1, <1>3, <1>4, <1>5, <1>6 DEF RunHandover
  <2>. QED  BY <1>1, <1>2, <1>3, <1>4, <1>8, <2>1, RunReplaced
<1>. QED  BY <1>7, <1>8

(* The queue moves a job on to b without any run taking part.              *)
LEMMA QueueMoves ==
  ASSUME IInv, NEW j \in Jobs, NEW b \in BullJob,
         bull' = [bull EXCEPT ![j] = b], UNCHANGED <<jobs, results, runs, alive>>,
         Accounted(b), Exists(jobs[j]), b.started = bull[j].started,
         bull[j].state = "failed" => b.state = "failed",
         b.state = "completed" => bull[j].state = "completed"
  PROVE  IInv'
<1>1. bull \in [Jobs -> BullJob]
  BY DEF IInv, TypeOK
<1>2. /\ bull' \in [Jobs -> BullJob]
      /\ bull'[j] = b
      /\ \A k \in Jobs \ {j} : bull'[k] = bull[k]
  BY <1>1
<1>3. TypeOK'
  BY <1>2 DEF IInv, TypeOK
<1>4. QueueInv'
  <2>. SUFFICES ASSUME NEW k \in Jobs
                PROVE  /\ Accounted(bull'[k])
                       /\ bull'[k].state # "absent" => Exists(jobs'[k])
    BY DEF QueueInv, Accounted
  <2>1. CASE k = j
    BY <1>2, <2>1
  <2>2. CASE k # j
    <3>1. bull'[k] = bull[k] /\ jobs'[k] = jobs[k]
      BY <1>2, <2>2
    <3>. QED  BY <3>1 DEF IInv, QueueInv
  <2>. QED  BY <2>1, <2>2
<1>5. RunInv'
  <2>. SUFFICES ASSUME NEW k \in Jobs, NEW m \in RunIds
                PROVE  LET q == runs'[k][m] IN
                       /\ m > bull'[k].started => q.pc = "unused"
                       /\ q.pc \in Executing => m <= ApiMaxRetries + MaxStalledCount
                       /\ q.pc = "onFailed" /\ q.made >= ApiMaxRetries => bull'[k].state = "failed"
                       /\ q.pc \in {"countBatch", "return"} => jobs'[k].completedAt
    BY DEF RunInv
  <2>1. /\ bull'[k].started = bull[k].started
        /\ bull[k].state = "failed" => bull'[k].state = "failed"
    BY <1>2
  <2>. QED  BY <2>1 DEF IInv, RunInv
<1>6. OwnerInv' /\ OnePublisher' /\ ResultBeforeCompleted' /\ AcknowledgedHasResult'
  BY <1>2 DEF IInv, OwnerInv, OnePublisher, ResultBeforeCompleted, AcknowledgedHasResult
<1>7. AttemptsInv'
  BY DEF IInv, AttemptsInv, Counted
<1>. QED  BY <1>3, <1>4, <1>5, <1>6, <1>7 DEF IInv

LEMMA EnqueueStep ==
  ASSUME ConstantsAssumption, IInv, NEW j \in Jobs, Enqueue(j)
  PROVE  IInv'
<1>. DEFINE b == bull[j]
            c == [b EXCEPT !.state = "waiting"]
<1>1. /\ b \in BullJob /\ b.started \in Nat /\ b.made \in Nat /\ b.stalled \in Nat
      /\ b.state = "absent" /\ Exists(jobs[j]) /\ Accounted(b)
  BY DEF Enqueue, IInv, TypeOK, QueueInv, BullJob
<1>2. bull' = [bull EXCEPT ![j] = c] /\ UNCHANGED <<jobs, results, runs, alive>>
  BY DEF Enqueue
<1>. HIDE DEF b
<1>3. /\ c \in BullJob /\ c.state = "waiting" /\ c.started = b.started /\ c.lock = b.lock
      /\ c.made = b.made /\ c.stalled = b.stalled
  BY <1>1 DEF BullJob, BullStates
<1>. HIDE DEF c
<1>. USE DEF b
<1>4. Accounted(c)
  BY <1>1, <1>3 DEF Accounted
<1>. QED  BY <1>1, <1>2, <1>3, <1>4, QueueMoves

(* A lock that goes away, expired or lost.                                 *)
LEMMA UnlockStep ==
  ASSUME ConstantsAssumption, IInv, NEW j \in Jobs, LockExpires(j) \/ LoseLock(j)
  PROVE  IInv'
<1>. DEFINE b == bull[j]
            c == [b EXCEPT !.lock = 0]
<1>1. /\ b \in BullJob /\ b.started \in Nat /\ b.made \in Nat /\ b.stalled \in Nat
      /\ b.lock # 0 /\ Accounted(b) /\ (b.state # "absent" => Exists(jobs[j]))
  BY DEF LockExpires, LoseLock, IInv, TypeOK, QueueInv, BullJob
<1>2. bull' = [bull EXCEPT ![j] = c] /\ UNCHANGED <<jobs, results, runs, alive>>
  BY DEF LockExpires, LoseLock
<1>. HIDE DEF b
<1>3. /\ c \in BullJob /\ c.state = b.state /\ c.started = b.started /\ c.lock = 0
      /\ c.made = b.made /\ c.stalled = b.stalled
  BY <1>1 DEF BullJob
<1>. HIDE DEF c
<1>. USE DEF b
<1>4. Accounted(c) /\ b.state = "active"
  BY <1>1, <1>3 DEF Accounted
<1>. QED  BY <1>1, <1>2, <1>3, <1>4, QueueMoves

LEMMA StalledCheckStep ==
  ASSUME ConstantsAssumption, IInv, NEW j \in Jobs, StalledCheck(j)
  PROVE  IInv'
<1>. DEFINE b == bull[j]
            t == b.stalled + 1
            c == [b EXCEPT !.state = "waiting", !.stalled = t]
<1>1. /\ b \in BullJob /\ b.started \in Nat /\ b.made \in Nat /\ b.stalled \in Nat
      /\ b.state = "active" /\ b.lock = 0 /\ Accounted(b)
      /\ (b.state # "absent" => Exists(jobs[j]))
  BY DEF StalledCheck, IInv, TypeOK, QueueInv, BullJob
<1>2. bull' = [bull EXCEPT ![j] = c] /\ UNCHANGED <<jobs, results, runs, alive>>
  BY DEF StalledCheck
<1>3. t \in 0 .. MaxStalledCount + 1 /\ t = b.stalled + 1
  BY <1>1 DEF Accounted, ConstantsAssumption
<1>. HIDE DEF b, t
<1>4. /\ c \in BullJob /\ c.state = "waiting" /\ c.started = b.started /\ c.lock = b.lock
      /\ c.made = b.made /\ c.stalled = t
  BY <1>1, <1>3 DEF BullJob, BullStates
<1>. HIDE DEF c
<1>. USE DEF b
<1>5. Accounted(c)
  BY <1>1, <1>3, <1>4 DEF Accounted
<1>. QED  BY <1>1, <1>2, <1>4, <1>5, QueueMoves

LEMMA PromoteStep ==
  ASSUME ConstantsAssumption, IInv, NEW j \in Jobs, Promote(j)
  PROVE  IInv'
<1>. DEFINE b == bull[j]
            c == [b EXCEPT !.state = "waiting"]
<1>1. /\ b \in BullJob /\ b.started \in Nat /\ b.made \in Nat /\ b.stalled \in Nat
      /\ b.state = "delayed" /\ Accounted(b) /\ (b.state # "absent" => Exists(jobs[j]))
  BY DEF Promote, IInv, TypeOK, QueueInv, BullJob
<1>2. bull' = [bull EXCEPT ![j] = c] /\ UNCHANGED <<jobs, results, runs, alive>>
  BY DEF Promote
<1>. HIDE DEF b
<1>3. /\ c \in BullJob /\ c.state = "waiting" /\ c.started = b.started /\ c.lock = b.lock
      /\ c.made = b.made /\ c.stalled = b.stalled
  BY <1>1 DEF BullJob, BullStates
<1>. HIDE DEF c
<1>. USE DEF b
<1>4. Accounted(c)
  BY <1>1, <1>3 DEF Accounted
<1>. QED  BY <1>1, <1>2, <1>3, <1>4, QueueMoves

LEMMA CreateJobStep ==
  ASSUME ConstantsAssumption, IInv, NEW j \in Jobs, CreateJob(j)
  PROVE  IInv'
<1>1. /\ jobs \in [Jobs -> JobDoc \cup {NoJob}] /\ jobs' = [jobs EXCEPT ![j] = NewJob]
      /\ UNCHANGED <<results, bull, runs, alive>> /\ ~Exists(jobs[j])
  BY DEF CreateJob, IInv, TypeOK
<1>2. /\ NewJob \in JobDoc /\ Exists(NewJob) /\ NewJob.attempts = 0
      /\ NewJob.completedAt = FALSE /\ NewJob.status = "pending"
  BY DEF NewJob, JobDoc, JobStatus, Exists
<1>3. /\ jobs' \in [Jobs -> JobDoc \cup {NoJob}]
      /\ jobs'[j] = NewJob
      /\ \A k \in Jobs \ {j} : jobs'[k] = jobs[k]
  BY <1>1, <1>2
<1>4. TypeOK'
  BY <1>1, <1>3 DEF IInv, TypeOK
<1>5. bull[j].state = "absent"
  BY <1>1 DEF IInv, QueueInv
<1>6. QueueInv'
  BY <1>1, <1>2, <1>3 DEF IInv, QueueInv, Accounted
<1>7. \A n \in RunIds : runs[j][n].pc \notin Executing
  BY <1>5, ExecutingExists
<1>8. RunInv'
  BY <1>1, <1>3, <1>7 DEF IInv, RunInv, Executing, AfterResult
<1>9. OwnerInv' /\ OnePublisher' /\ ResultBeforeCompleted' /\ AcknowledgedHasResult'
  BY <1>1, <1>2, <1>3, <1>5 DEF IInv, OwnerInv, OnePublisher, ResultBeforeCompleted, AcknowledgedHasResult
<1>10. AttemptsInv'
  <2>. SUFFICES ASSUME NEW k \in Jobs
                PROVE  jobs'[k].attempts <= Cardinality(Counted(k)')
    BY DEF AttemptsInv
  <2>1. jobs[k].attempts \in Nat
    BY DEF IInv, TypeOK, JobDoc, NoJob
  <2>2. jobs'[k].attempts \in Nat /\ jobs'[k].attempts <= jobs[k].attempts
    BY <1>2, <1>3, <2>1
  <2>. QED  BY <1>1, <2>1, <2>2, AttemptsStep DEF IInv
<1>. QED  BY <1>4, <1>6, <1>8, <1>9, <1>10 DEF IInv

(* Runs that end where they are, with the job documents keeping what the   *)
(* invariant says of them: the `failed` handler, a crash and a restart.     *)
LEMMA RunsEnd ==
  ASSUME ConstantsAssumption, IInv, UNCHANGED <<results, bull>>, alive' \in SUBSET Workers,
         runs' \in [Jobs -> [RunIds -> Run]],
         \A k \in Jobs, m \in RunIds : \/ runs'[k][m] = runs[k][m]
                                       \/ runs'[k][m] = Ended /\ runs[k][m].pc # "unused",
         jobs' \in [Jobs -> JobDoc \cup {NoJob}],
         \A k \in Jobs : /\ Exists(jobs[k]) <=> Exists(jobs'[k])
                         /\ jobs'[k].completedAt = jobs[k].completedAt
                         /\ jobs'[k].attempts = jobs[k].attempts
                         /\ jobs'[k].status = "completed" => jobs[k].status = "completed"
  PROVE  IInv'
<1>1. Ended.pc = "ended" /\ Ended.worker = NoWorker
  BY DEF Ended
<1>2. TypeOK'
  BY DEF IInv, TypeOK
<1>3. QueueInv'
  BY DEF IInv, QueueInv, Accounted
<1>4. RunInv'
  <2>. SUFFICES ASSUME NEW k \in Jobs, NEW m \in RunIds
                PROVE  LET q == runs'[k][m] IN
                       /\ m > bull'[k].started => q.pc = "unused"
                       /\ q.pc \in Executing => m <= ApiMaxRetries + MaxStalledCount
                       /\ q.pc = "onFailed" /\ q.made >= ApiMaxRetries => bull'[k].state = "failed"
                       /\ q.pc \in {"countBatch", "return"} => jobs'[k].completedAt
    BY DEF RunInv
  <2>1. CASE runs'[k][m] = runs[k][m]
    BY <2>1 DEF IInv, RunInv
  <2>2. CASE runs'[k][m] = Ended /\ runs[k][m].pc # "unused"
    BY <1>1, <2>2 DEF IInv, RunInv, Executing, BeforeIncrement, BeforeResult, AfterResult
  <2>. QED  BY <2>1, <2>2
<1>5. OnePublisher' /\ ResultBeforeCompleted' /\ AcknowledgedHasResult'
  BY <1>1 DEF IInv, OnePublisher, ResultBeforeCompleted, AcknowledgedHasResult, AfterResult
<1>6. AttemptsInv'
  <2>. SUFFICES ASSUME NEW k \in Jobs
                PROVE  jobs'[k].attempts <= Cardinality(Counted(k)')
    BY DEF AttemptsInv
  <2>1. jobs[k].attempts \in Nat /\ jobs'[k].attempts = jobs[k].attempts
    BY DEF IInv, TypeOK, JobDoc, NoJob
  <2>2. \A m \in RunIds : runs[k][m].pc \notin BeforeIncrement \cup {"unused"}
                          => runs'[k][m].pc \notin BeforeIncrement \cup {"unused"}
    BY <1>1 DEF BeforeIncrement
  <2>. QED  BY <2>1, <2>2, AttemptsStep DEF IInv
<1>7. OwnerInv'
  BY <1>1 DEF IInv, OwnerInv
<1>. QED  BY <1>2, <1>3, <1>4, <1>5, <1>6, <1>7 DEF IInv

(* The runs a stopping worker takes with it.                               *)
LEMMA RunsWithoutType ==
  ASSUME ConstantsAssumption, IInv, NEW w \in Workers
  PROVE  /\ RunsWithout(w) \in [Jobs -> [RunIds -> Run]]
         /\ \A k \in Jobs, m \in RunIds :
              \/ RunsWithout(w)[k][m] = runs[k][m]
              \/ RunsWithout(w)[k][m] = Ended /\ runs[k][m].pc # "unused"
<1>1. Ended \in Run
  BY DEF Ended, Run, Steps, ConstantsAssumption
<1>2. \A k \in Jobs, m \in RunIds : runs[k][m] \in Run
  BY DEF IInv, TypeOK
<1>3. \A k \in Jobs, m \in RunIds : runs[k][m].worker = w => runs[k][m].pc # "unused"
  BY DEF IInv, OwnerInv, ConstantsAssumption
<1>. QED  BY <1>1, <1>2, <1>3 DEF RunsWithout

LEMMA OnFailedStep ==
  ASSUME ConstantsAssumption, IInv, NEW j \in Jobs, NEW n \in RunIds, OnFailed(j, n)
  PROVE  IInv'
<1>. DEFINE u == UpdateStatus(jobs[j], "failed", TRUE)
            w == runs[j][n].worker
<1>1. /\ jobs \in [Jobs -> JobDoc \cup {NoJob}] /\ jobs[j] \in JobDoc \cup {NoJob}
      /\ runs \in [Jobs -> [RunIds -> Run]] /\ alive \in SUBSET Workers
      /\ runs[j][n] \in Run
  BY DEF IInv, TypeOK
<1>2. /\ jobs' = jobs \/ jobs' = [jobs EXCEPT ![j] = u]
      /\ UNCHANGED <<results, bull>>
      /\ runs[j][n].pc = "onFailed"
  BY DEF OnFailed
<1>3. /\ Exists(jobs[j]) <=> Exists(u)
      /\ u.completedAt = jobs[j].completedAt
      /\ u.attempts = jobs[j].attempts
      /\ u.status # "completed"
      /\ u \in JobDoc \cup {NoJob}
  BY <1>1, UpdateStatusEffect, RepositoryTypes DEF JobStatus
<1>4. w \in Workers
  BY <1>1, <1>2 DEF IInv, OwnerInv, Run
<1>5. Ended \in Run
  BY DEF Ended, Run, Steps, ConstantsAssumption
<1>6. /\ alive' \in SUBSET Workers
      /\ runs' \in [Jobs -> [RunIds -> Run]]
      /\ \A k \in Jobs, m \in RunIds : \/ runs'[k][m] = runs[k][m]
                                       \/ runs'[k][m] = Ended /\ runs[k][m].pc # "unused"
  <2>1. CASE runs' = [runs EXCEPT ![j][n] = Ended] /\ UNCHANGED alive
    BY <1>1, <1>2, <1>5, <2>1
  <2>2. CASE runs' = RunsWithout(w) /\ alive' = alive \ {w}
    <3>. HIDE DEF w
    <3>. QED  BY <1>1, <1>4, <2>2, RunsWithoutType
  <2>. QED  BY <2>1, <2>2 DEF OnFailed
<1>. HIDE DEF u
<1>7. /\ jobs' \in [Jobs -> JobDoc \cup {NoJob}]
      /\ \A k \in Jobs : jobs'[k] = jobs[k] \/ (k = j /\ jobs'[k] = u)
  BY <1>1, <1>2, <1>3
<1>8. \A k \in Jobs : /\ Exists(jobs[k]) <=> Exists(jobs'[k])
                      /\ jobs'[k].completedAt = jobs[k].completedAt
                      /\ jobs'[k].attempts = jobs[k].attempts
                      /\ jobs'[k].status = "completed" => jobs[k].status = "completed"
  BY <1>3, <1>7
<1>. QED  BY <1>2, <1>6, <1>7, <1>8, RunsEnd

LEMMA WorkerStep ==
  ASSUME ConstantsAssumption, IInv, NEW w \in Workers, Crash(w) \/ Restart(w)
  PROVE  IInv'
<1>1. /\ runs \in [Jobs -> [RunIds -> Run]] /\ alive \in SUBSET Workers
      /\ jobs \in [Jobs -> JobDoc \cup {NoJob}]
  BY DEF IInv, TypeOK
<1>2. jobs' = jobs /\ UNCHANGED <<results, bull>>
  BY DEF Crash, Restart
<1>3. /\ alive' \in SUBSET Workers
      /\ runs' \in [Jobs -> [RunIds -> Run]]
      /\ \A k \in Jobs, m \in RunIds : \/ runs'[k][m] = runs[k][m]
                                       \/ runs'[k][m] = Ended /\ runs[k][m].pc # "unused"
  BY <1>1, RunsWithoutType DEF Crash, Restart
<1>. QED  BY <1>1, <1>2, <1>3, RunsEnd

-----------------------------------------------------------------------------
LEMMA InitInv == ASSUME ConstantsAssumption, Init PROVE IInv
<1>1. TypeOK
  BY InitType
<1>2. QueueInv /\ RunInv /\ OwnerInv
  BY DEF ConstantsAssumption, Init, QueueInv, RunInv, OwnerInv, Accounted, NotQueued, Unused, Executing,
         BeforeIncrement, BeforeResult, AfterResult, RunIds, MaxRuns
<1>3. OnePublisher /\ ResultBeforeCompleted /\ AcknowledgedHasResult
  BY DEF Init, OnePublisher, ResultBeforeCompleted, AcknowledgedHasResult, NotQueued, Unused,
         NoJob, AfterResult
<1>4. AttemptsInv
  BY CountedFinite DEF Init, AttemptsInv, NoJob
<1>. QED  BY <1>1, <1>2, <1>3, <1>4 DEF IInv

LEMMA NextInv == ASSUME ConstantsAssumption, IInv, [Next]_vars PROVE IInv'
<1>1. ASSUME NEW j \in Jobs, CreateJob(j) \/ Enqueue(j) PROVE IInv'
  BY <1>1, CreateJobStep, EnqueueStep
<1>2. ASSUME NEW j \in Jobs, Take(j) PROVE IInv'
  BY <1>2, StartStep, FailDeferredStep DEF Take
<1>3. ASSUME NEW j \in Jobs, QueueStep(j) PROVE IInv'
  BY <1>3, UnlockStep, StalledCheckStep, PromoteStep DEF QueueStep
<1>4. ASSUME NEW j \in Jobs, NEW n \in RunIds, RunStep(j, n) PROVE IInv'
  BY <1>4, WriteJobStep, ReadStep, CreateResultStep, AcknowledgeStep, RejectStep, OnFailedStep
     DEF RunStep
<1>5. ASSUME NEW w \in Workers, Crash(w) \/ Restart(w) PROVE IInv'
  BY <1>5, WorkerStep
<1>6. CASE UNCHANGED vars
  BY <1>6 DEF vars, IInv, TypeOK, QueueInv, RunInv, OwnerInv, OnePublisher, ResultBeforeCompleted,
              AcknowledgedHasResult, AttemptsInv, Counted, Accounted
<1>. QED  BY <1>1, <1>2, <1>3, <1>4, <1>5, <1>6 DEF Next

(* The inductive invariant holds in every reachable state.                 *)
THEOREM Invariance == Spec => []IInv
<1>1. Init => IInv
  BY InitInv, ConstantsAssumption
<1>2. IInv /\ [Next]_vars => IInv'
  BY NextInv, ConstantsAssumption
<1>. QED  BY <1>1, <1>2, PTL DEF Spec

(* Every variable keeps its type: the queue's limits bound the runs.       *)
THEOREM TypeCorrect == Spec => []TypeOK
<1>1. IInv => TypeOK
  BY DEF IInv
<1>. QED  BY <1>1, Invariance, PTL

(* A job shown as completed, or with a completion date, has its result.    *)
THEOREM CompletedJobsHaveResults == Spec => []ResultBeforeCompleted
<1>1. IInv => ResultBeforeCompleted
  BY DEF IInv
<1>. QED  BY <1>1, Invariance, PTL

(* Only the run whose report is stored gets past CreateResult, whatever    *)
(* zombies, crashes and failed writes there are.                           *)
THEOREM SinglePublisher == Spec => []OnePublisher
<1>1. IInv => OnePublisher
  BY DEF IInv
<1>. QED  BY <1>1, Invariance, PTL

(* What the queue completed has its result and its completion date.        *)
THEOREM AcknowledgedJobsHaveResults == Spec => []AcknowledgedHasResult
<1>1. IInv => AcknowledgedHasResult
  BY DEF IInv
<1>. QED  BY <1>1, Invariance, PTL

(* The attempts of a job are bounded by the queue's limits on attempts and  *)
(* stalls together.                                                        *)
THEOREM AttemptsAreBounded == Spec => []AttemptsBounded
<1>1. IInv => AttemptsBounded
  <2>. SUFFICES ASSUME IInv, NEW j \in Jobs
                PROVE  jobs[j].attempts <= ApiMaxRetries + MaxStalledCount
    BY DEF AttemptsBounded
  <2>1. jobs[j].attempts \in Nat
    BY DEF IInv, TypeOK, JobDoc, NoJob
  <2>2. jobs[j].attempts <= Cardinality(Counted(j))
    BY DEF IInv, AttemptsInv
  <2>. QED  BY <2>1, <2>2, CountedFinite, CountedAtMost, ConstantsAssumption DEF ConstantsAssumption
<1>. QED  BY <1>1, Invariance, PTL
-----------------------------------------------------------------------------
(* An action on one job leaves the others as they are.                     *)
LEMMA HeldElsewhere ==
  ASSUME HeldInv, NEW j \in Jobs, lost' \subseteq Jobs, Held(j)',
         \A k \in Jobs \ {j} : /\ jobs'[k] = jobs[k] /\ bull'[k] = bull[k]
                               /\ runs'[k] = runs[k]
                               /\ k \in lost' <=> k \in lost
  PROVE  HeldInv'
BY DEF HeldInv, Held

(* The run that executes is the one that holds the lock of an active job.  *)
LEMMA Holder ==
  ASSUME IInv, HeldInv, NEW j \in Jobs \ lost, NEW n \in RunIds, runs[j][n].pc \in Executing
  PROVE  bull[j].state = "active" /\ bull[j].lock = n /\ n # 0
<1>1. bull[j].lock = n
  BY DEF HeldInv, Held
<1>2. n # 0
  BY DEF RunIds
<1>. QED  BY <1>1, <1>2 DEF IInv, QueueInv, Accounted

LEMMA HeldCreateJob ==
  ASSUME IInv, HeldInv, NEW j \in Jobs, CreateJob(j)
  PROVE  HeldInv'
<1>1. bull[j].state = "absent"
  BY DEF CreateJob, IInv, QueueInv
<1>2. \A n \in RunIds : runs[j][n].pc \notin Executing
  BY <1>1, ExecutingExists
<1>3. jobs \in [Jobs -> JobDoc \cup {NoJob}] /\ NewJob.status = "pending"
  BY DEF IInv, TypeOK, NewJob
<1>4. jobs'[j].status = "pending" /\ \A k \in Jobs \ {j} : jobs'[k] = jobs[k]
  BY <1>3 DEF CreateJob
<1>5. Held(j)'
  BY <1>1, <1>2, <1>4 DEF CreateJob, Held, Executing, AfterResult
<1>. QED  BY <1>4, <1>5, HeldElsewhere DEF CreateJob, HeldInv

(* Steps of the queue: none of them hands the lock to a run.               *)
LEMMA HeldQueueStep ==
  ASSUME IInv, HeldInv, NEW j \in Jobs, Enqueue(j) \/ QueueStep(j)
  PROVE  HeldInv'
<1>1. bull \in [Jobs -> BullJob] /\ Accounted(bull[j])
  BY DEF IInv, TypeOK, QueueInv
<1>2. CASE Enqueue(j) \/ Promote(j)
  <2>1. /\ bull'[j].state = "waiting" /\ bull'[j].lock = bull[j].lock
        /\ bull[j].state \in {"absent", "delayed"}
        /\ \A k \in Jobs \ {j} : bull'[k] = bull[k]
        /\ UNCHANGED <<jobs, runs, lost>>
    BY <1>1, <1>2 DEF Enqueue, Promote, BullJob
  <2>2. Held(j)'
    BY <2>1 DEF HeldInv, Held
  <2>. QED  BY <2>1, <2>2, HeldElsewhere DEF HeldInv
<1>3. CASE StalledCheck(j)
  <2>1. /\ bull'[j].state = "waiting" /\ bull'[j].lock = bull[j].lock
        /\ bull[j].state = "active"
        /\ \A k \in Jobs \ {j} : bull'[k] = bull[k]
        /\ UNCHANGED <<jobs, runs, lost>>
    BY <1>1, <1>3 DEF StalledCheck, BullJob
  <2>2. Held(j)'
    BY <2>1 DEF HeldInv, Held
  <2>. QED  BY <2>1, <2>2, HeldElsewhere DEF HeldInv
<1>4. CASE LockExpires(j)
  <2>1. /\ bull'[j].state = bull[j].state
        /\ \A k \in Jobs \ {j} : bull'[k] = bull[k]
        /\ UNCHANGED <<jobs, runs, lost>>
    BY <1>1, <1>4 DEF LockExpires, BullJob
  <2>2. j \notin lost => \A n \in RunIds : runs[j][n].pc \notin Executing
    BY <1>4, Holder DEF LockExpires
  <2>3. Held(j)'
    BY <2>1, <2>2 DEF HeldInv, Held, Executing, AfterResult
  <2>. QED  BY <2>1, <2>3, HeldElsewhere DEF HeldInv
<1>5. CASE LoseLock(j)
  <2>1. /\ bull'[j].state = bull[j].state
        /\ \A k \in Jobs \ {j} : bull'[k] = bull[k]
        /\ UNCHANGED <<jobs, runs>>
        /\ lost' = lost \cup {j}
    BY <1>1, <1>5 DEF LoseLock, BullJob
  <2>2. Held(j)'
    BY <2>1 DEF HeldInv, Held
  <2>. QED  BY <2>1, <2>2, HeldElsewhere DEF HeldInv
<1>. QED  BY <1>2, <1>3, <1>4, <1>5 DEF QueueStep

(* A run starts when no other executes.                                    *)
LEMMA HeldTake ==
  ASSUME ConstantsAssumption, IInv, HeldInv, NEW j \in Jobs, Take(j)
  PROVE  HeldInv'
<1>1. /\ bull \in [Jobs -> BullJob] /\ bull[j].state = "waiting"
      /\ runs \in [Jobs -> [RunIds -> Run]] /\ UNCHANGED <<jobs, lost>>
  BY DEF Take, Start, FailDeferred, IInv, TypeOK
<1>2. j \notin lost => \A n \in RunIds : runs[j][n].pc \notin Executing
  BY <1>1, Holder
<1>3. PICK w \in Workers : Start(j, w) \/ FailDeferred(j, w)
  BY DEF Take
<1>. DEFINE n == bull[j].started + 1
<1>4. CASE Start(j, w)
  <2>1. /\ bull'[j].state = "active" /\ bull'[j].lock = n
        /\ \A k \in Jobs \ {j} : bull'[k] = bull[k] /\ runs'[k] = runs[k]
        /\ \A m \in RunIds : IF m = n THEN runs'[j][m].pc = "setProcessing"
                                      ELSE runs'[j][m] = runs[j][m]
    BY <1>1, <1>4 DEF Start, BullJob
  <2>. HIDE DEF n
  <2>2. Held(j)'
    BY <1>1, <1>2, <2>1 DEF HeldInv, Held, Executing, AfterResult
  <2>. QED  BY <1>1, <2>1, <2>2, HeldElsewhere DEF HeldInv
<1>5. CASE FailDeferred(j, w)
  <2>1. /\ bull'[j].state = "failed"
        /\ \A k \in Jobs \ {j} : bull'[k] = bull[k] /\ runs'[k] = runs[k]
        /\ \A m \in RunIds : IF m = n THEN runs'[j][m].pc = "onFailed"
                                      ELSE runs'[j][m] = runs[j][m]
    BY <1>1, <1>5 DEF FailDeferred, BullJob
  <2>. HIDE DEF n
  <2>2. Held(j)'
    BY <1>1, <1>2, <2>1 DEF HeldInv, Held, Executing, BeforeIncrement, BeforeResult, AfterResult
  <2>. QED  BY <1>1, <2>1, <2>2, HeldElsewhere DEF HeldInv
<1>. QED  BY <1>3, <1>4, <1>5

(* A step of a run: it writes no FAILED, keeps COMPLETED from the write of  *)
(* the status on, and does not touch the queue.                            *)
LEMMA HeldMove ==
  ASSUME IInv, HeldInv, NEW j \in Jobs, NEW n \in RunIds, NEW pc \in Executing,
         runs[j][n].pc \in Executing, GoTo(j, n, pc), UNCHANGED <<bull, lost>>,
         \A k \in Jobs \ {j} : jobs'[k] = jobs[k],
         jobs'[j].status = "failed" => jobs[j].status = "failed",
         pc \in {"setCompletedAt", "countBatch", "return"} =>
           \/ jobs'[j].status = "completed"
           \/ /\ runs[j][n].pc \in {"setCompletedAt", "countBatch", "return"}
              /\ jobs[j].status = "completed" => jobs'[j].status = "completed"
  PROVE  HeldInv'
<1>1. /\ runs'[j][n].pc = pc
      /\ \A m \in RunIds \ {n} : runs'[j][m] = runs[j][m]
      /\ \A k \in Jobs \ {j} : runs'[k] = runs[k]
  <2>1. runs \in [Jobs -> [RunIds -> Run]] /\ runs[j][n] \in Run
    BY DEF IInv, TypeOK
  <2>2. runs'[j][n] = [runs[j][n] EXCEPT !.pc = pc]
    BY <2>1 DEF GoTo
  <2>. QED  BY <2>1, <2>2 DEF GoTo, Run
<1>2. CASE j \in lost
  <2>1. Held(j)'
    BY <1>2 DEF HeldInv, Held
  <2>. QED  BY <1>1, <2>1, HeldElsewhere DEF HeldInv
<1>3. CASE j \notin lost
  <2>1. bull[j].state = "active" /\ bull[j].lock = n
    BY <1>3, Holder
  <2>2. \A m \in RunIds \ {n} : runs[j][m].pc \notin Executing
    BY <1>3, <2>1, Holder
  <2>3. Held(j)'
    BY <1>1, <1>3, <2>1, <2>2 DEF HeldInv, Held, Executing, AfterResult
  <2>. QED  BY <1>1, <2>3, HeldElsewhere DEF HeldInv
<1>. QED  BY <1>2, <1>3

LEMMA HeldWrite ==
  ASSUME IInv, HeldInv, NEW j \in Jobs, NEW n \in RunIds,
         \/ SetProcessing(j, n) \/ SetStarted(j, n) \/ CountAttempt(j, n)
         \/ SetCompleted(j, n) \/ SetCompletedTime(j, n)
  PROVE  HeldInv'
<1>1. jobs \in [Jobs -> JobDoc \cup {NoJob}] /\ jobs[j] \in JobDoc \cup {NoJob}
  BY DEF IInv, TypeOK
<1>2. \A doc : jobs' \in {jobs, [jobs EXCEPT ![j] = doc]} =>
                 \A k \in Jobs \ {j} : jobs'[k] = jobs[k]
  BY <1>1
<1>3. \A doc : jobs' = [jobs EXCEPT ![j] = doc] => jobs'[j] = doc
  BY <1>1
<1>4. runs[j][n].pc \in Executing => Exists(jobs[j])
  BY ExecutingExists
<1>5. /\ SetStartedAt(jobs[j]).status = jobs[j].status
      /\ IncrementAttempts(jobs[j]).status = jobs[j].status
      /\ SetCompletedAt(jobs[j]).status = jobs[j].status
  BY <1>1 DEF SetStartedAt, IncrementAttempts, SetCompletedAt, JobDoc, NoJob, Exists
<1>6. /\ Exists(jobs[j]) => UpdateStatus(jobs[j], "processing", FALSE).status = "processing"
      /\ Exists(jobs[j]) => UpdateStatus(jobs[j], "completed", FALSE).status = "completed"
  BY <1>1, UpdateStatusEffect DEF JobStatus
<1>. USE DEF Executing, BeforeIncrement, BeforeResult, AfterResult
<1>7. CASE SetProcessing(j, n)
  <2>1. runs[j][n].pc = "setProcessing" /\ UNCHANGED <<bull, lost>>
    BY <1>7 DEF SetProcessing, WriteJob
  <2>. DEFINE u == UpdateStatus(jobs[j], "processing", FALSE)
  <2>2. u.status = "processing"
    BY <1>4, <1>6, <2>1
  <2>3. /\ jobs' = jobs \/ jobs' = [jobs EXCEPT ![j] = u]
        /\ GoTo(j, n, "setStartedAt") \/ GoTo(j, n, "throw")
    BY <1>7 DEF SetProcessing, WriteJob
  <2>. HIDE DEF u
  <2>4. /\ \A k \in Jobs \ {j} : jobs'[k] = jobs[k]
        /\ jobs' = jobs \/ jobs'[j].status = "processing"
    BY <1>1, <2>2, <2>3
  <2>. QED  BY <2>1, <2>3, <2>4, HeldMove
<1>8. CASE SetStarted(j, n) \/ CountAttempt(j, n)
  <2>1. runs[j][n].pc \in {"setStartedAt", "incrementAttempts"} /\ UNCHANGED <<bull, lost>>
    BY <1>8 DEF SetStarted, CountAttempt, WriteJob
  <2>2. /\ \A k \in Jobs \ {j} : jobs'[k] = jobs[k]
        /\ jobs'[j].status = jobs[j].status
        /\ \/ GoTo(j, n, "incrementAttempts") \/ GoTo(j, n, "findFileAndJob")
           \/ GoTo(j, n, "throw")
    BY <1>2, <1>3, <1>5, <1>8 DEF SetStarted, CountAttempt, WriteJob
  <2>. QED  BY <2>1, <2>2, HeldMove
<1>9. CASE SetCompleted(j, n)
  <2>1. runs[j][n].pc = "setCompleted" /\ UNCHANGED <<bull, lost>>
    BY <1>9 DEF SetCompleted, WriteJob
  <2>. DEFINE u == UpdateStatus(jobs[j], "completed", FALSE)
  <2>2. u.status = "completed"
    BY <1>4, <1>6, <2>1
  <2>3. \/ jobs' = [jobs EXCEPT ![j] = u] /\ GoTo(j, n, "setCompletedAt")
        \/ jobs' \in {jobs, [jobs EXCEPT ![j] = u]} /\ GoTo(j, n, "throw")
    BY <1>9 DEF SetCompleted, WriteJob
  <2>. HIDE DEF u
  <2>4. /\ \A k \in Jobs \ {j} : jobs'[k] = jobs[k]
        /\ jobs' = jobs \/ jobs'[j].status = "completed"
        /\ \/ GoTo(j, n, "setCompletedAt") /\ jobs'[j].status = "completed"
           \/ GoTo(j, n, "throw")
    BY <1>1, <2>2, <2>3
  <2>. QED  BY <2>1, <2>4, HeldMove
<1>10. CASE SetCompletedTime(j, n)
  <2>1. runs[j][n].pc = "setCompletedAt" /\ UNCHANGED <<bull, lost>>
    BY <1>10 DEF SetCompletedTime, WriteJob
  <2>2. /\ \A k \in Jobs \ {j} : jobs'[k] = jobs[k]
        /\ jobs'[j].status = jobs[j].status
        /\ GoTo(j, n, "countBatch") \/ GoTo(j, n, "return") \/ GoTo(j, n, "throw")
    BY <1>2, <1>3, <1>5, <1>10 DEF SetCompletedTime, WriteJob
  <2>. QED  BY <2>1, <2>2, HeldMove
<1>. QED  BY <1>7, <1>8, <1>9, <1>10

LEMMA HeldRead ==
  ASSUME IInv, HeldInv, NEW j \in Jobs, NEW n \in RunIds,
         \/ FindFileAndJob(j, n) \/ GetStream(j, n) \/ ProcessCsv(j, n)
         \/ CreateResult(j, n) \/ CountBatch(j, n)
  PROVE  HeldInv'
<1>1. /\ UNCHANGED <<jobs, bull, lost>>
      /\ \/ /\ runs[j][n].pc \in BeforeResult
            /\ \/ GoTo(j, n, "getStream") \/ GoTo(j, n, "processCsv") \/ GoTo(j, n, "createResult")
               \/ GoTo(j, n, "setCompleted") \/ GoTo(j, n, "throw")
         \/ /\ runs[j][n].pc = "countBatch"
            /\ GoTo(j, n, "return") \/ GoTo(j, n, "throw")
  BY DEF FindFileAndJob, GetStream, ProcessCsv, CreateResult, CountBatch, Read, BeforeResult
<1>. QED  BY <1>1, HeldMove DEF Executing, BeforeResult, AfterResult

(* BullMQ's verdict: only the holder of the lock completes the job, and it  *)
(* has written COMPLETED before.                                           *)
LEMMA HeldOutcome ==
  ASSUME IInv, HeldInv, NEW j \in Jobs, NEW n \in RunIds, Acknowledge(j, n) \/ Reject(j, n)
  PROVE  HeldInv'
<1>1. /\ bull \in [Jobs -> BullJob] /\ Accounted(bull[j])
      /\ runs \in [Jobs -> [RunIds -> Run]] /\ runs[j][n] \in Run
      /\ UNCHANGED <<jobs, lost>>
  BY DEF IInv, TypeOK, QueueInv, Acknowledge, Reject
<1>2. /\ \A k \in Jobs \ {j} : bull'[k] = bull[k] /\ runs'[k] = runs[k]
      /\ \A m \in RunIds \ {n} : runs'[j][m] = runs[j][m]
  BY <1>1 DEF Acknowledge, Reject
<1>3. runs[j][n].pc \in Executing /\ runs'[j][n].pc \in {"ended", "onFailed"}
  <2>1. runs[j][n].pc \in {"return", "throw"}
    BY DEF Acknowledge, Reject
  <2>2. Ended.pc = "ended"
    BY DEF Ended
  <2>3. \A made : [runs[j][n] EXCEPT !.pc = "onFailed", !.made = made].pc = "onFailed"
    BY <1>1 DEF Run
  <2>4. \/ runs'[j][n] = Ended
        \/ runs'[j][n] = [runs[j][n] EXCEPT !.pc = "onFailed", !.made = bull[j].made + 1]
    BY <1>1 DEF Acknowledge, Reject
  <2>. QED  BY <2>1, <2>2, <2>3, <2>4 DEF Executing, AfterResult
<1>4. CASE bull[j].lock # n
  <2>1. bull' = bull
    BY <1>4 DEF Acknowledge, Reject
  <2>2. j \in lost
    BY <1>3, <1>4, Holder
  <2>3. Held(j)'
    BY <1>1, <2>1, <2>2 DEF HeldInv, Held
  <2>. QED  BY <1>1, <1>2, <2>3, HeldElsewhere DEF HeldInv
<1>5. CASE bull[j].lock = n
  <2>1. bull[j].state = "active"
    BY <1>1, <1>5 DEF Accounted, RunIds
  <2>2. \/ bull'[j].state = "completed" /\ runs[j][n].pc = "return"
        \/ bull'[j].state \in {"delayed", "failed"}
    BY <1>1, <1>5 DEF Acknowledge, Reject, BullJob
  <2>3. j \notin lost => \A m \in RunIds \ {n} : runs[j][m].pc \notin Executing
    BY <1>5, Holder
  <2>4. Held(j)'
    BY <1>1, <1>2, <1>3, <2>1, <2>2, <2>3
       DEF HeldInv, Held, Executing, BeforeIncrement, BeforeResult, AfterResult
  <2>. QED  BY <1>1, <1>2, <2>4, HeldElsewhere DEF HeldInv
<1>. QED  BY <1>4, <1>5

(* The failed handler writes FAILED after the last attempt only: the queue  *)
(* has given the job up by then, so that nobody executes it any more.      *)
LEMMA HeldOnFailed ==
  ASSUME ConstantsAssumption, ApiMaxRetries <= WorkerMaxRetries, IInv, HeldInv,
         NEW j \in Jobs, NEW n \in RunIds, OnFailed(j, n)
  PROVE  HeldInv'
<1>. DEFINE u == UpdateStatus(jobs[j], "failed", TRUE)
            w == runs[j][n].worker
<1>1. /\ jobs \in [Jobs -> JobDoc \cup {NoJob}]
      /\ runs \in [Jobs -> [RunIds -> Run]] /\ runs[j][n] \in Run
      /\ UNCHANGED <<bull, lost>> /\ runs[j][n].pc = "onFailed"
  BY DEF IInv, TypeOK, OnFailed
<1>2. \/ jobs' = jobs
      \/ jobs' = [jobs EXCEPT ![j] = u] /\ runs[j][n].made >= WorkerMaxRetries
  BY DEF OnFailed
<1>3. runs[j][n].made >= WorkerMaxRetries => bull[j].state = "failed"
  <2>1. runs[j][n].made \in Nat
    BY <1>1 DEF Run
  <2>. QED  BY <1>1, <2>1 DEF ConstantsAssumption, IInv, RunInv
<1>4. \A k \in Jobs, m \in RunIds : \/ runs'[k][m] = runs[k][m]
                                    \/ runs'[k][m].pc = "ended"
  <2>1. Ended.pc = "ended"
    BY DEF Ended
  <2>2. CASE runs' = [runs EXCEPT ![j][n] = Ended]
    BY <1>1, <2>1, <2>2
  <2>3. CASE runs' = RunsWithout(w)
    BY <2>1, <2>3 DEF RunsWithout
  <2>. QED  BY <2>2, <2>3 DEF OnFailed
<1>. HIDE DEF u, w
<1>5. ASSUME NEW k \in Jobs PROVE Held(k)'
  <2>1. CASE jobs'[k] = jobs[k]
    BY <1>1, <1>4, <1>5, <2>1 DEF HeldInv, Held, Executing, BeforeIncrement, BeforeResult, AfterResult
  <2>2. CASE jobs'[k] # jobs[k]
    <3>1. k = j /\ bull[j].state = "failed"
      BY <1>1, <1>2, <1>3, <2>2
    <3>2. j \notin lost => \A m \in RunIds : runs[j][m].pc \notin Executing
      BY <3>1, Holder
    <3>. QED  BY <1>1, <1>4, <3>1, <3>2
              DEF HeldInv, Held, Executing, BeforeIncrement, BeforeResult, AfterResult
  <2>. QED  BY <2>1, <2>2
<1>. QED  BY <1>1, <1>5 DEF HeldInv

LEMMA HeldWorkers ==
  ASSUME IInv, HeldInv, NEW w \in Workers, Crash(w) \/ Restart(w)
  PROVE  HeldInv'
<1>1. UNCHANGED <<jobs, bull, lost>>
  BY DEF Crash, Restart
<1>2. \A k \in Jobs, m \in RunIds : \/ runs'[k][m] = runs[k][m]
                                    \/ runs'[k][m].pc = "ended"
  BY DEF Crash, Restart, RunsWithout, Ended
<1>. QED  BY <1>1, <1>2 DEF HeldInv, Held, Executing, BeforeIncrement, BeforeResult, AfterResult

LEMMA HeldInit == Init => HeldInv
BY DEF Init, HeldInv, Held, NoJob, NotQueued, Unused, Executing, BeforeIncrement, BeforeResult, AfterResult

LEMMA HeldNext ==
  ASSUME ConstantsAssumption, ApiMaxRetries <= WorkerMaxRetries, IInv, HeldInv, [Next]_vars
  PROVE  HeldInv'
<1>1. ASSUME NEW j \in Jobs, CreateJob(j) PROVE HeldInv'
  BY <1>1, HeldCreateJob
<1>2. ASSUME NEW j \in Jobs, Enqueue(j) \/ QueueStep(j) PROVE HeldInv'
  BY <1>2, HeldQueueStep
<1>3. ASSUME NEW j \in Jobs, Take(j) PROVE HeldInv'
  BY <1>3, HeldTake
<1>4. ASSUME NEW j \in Jobs, NEW n \in RunIds, RunStep(j, n) PROVE HeldInv'
  BY <1>4, HeldWrite, HeldRead, HeldOutcome, HeldOnFailed DEF RunStep
<1>5. ASSUME NEW w \in Workers, Crash(w) \/ Restart(w) PROVE HeldInv'
  BY <1>5, HeldWorkers
<1>6. CASE UNCHANGED vars
  BY <1>6 DEF vars, HeldInv, Held
<1>. QED  BY <1>1, <1>2, <1>3, <1>4, <1>5, <1>6 DEF Next

LEMMA HeldInvariance ==
  ASSUME ApiMaxRetries <= WorkerMaxRetries
  PROVE  Spec => []HeldInv
<1>1. Init => HeldInv
  BY HeldInit
<1>2. IInv /\ HeldInv /\ [Next]_vars => HeldInv'
  BY HeldNext, ConstantsAssumption
<1>. QED  BY <1>1, <1>2, Invariance, PTL DEF Spec

(* A lock covers the whole run: no crash, stall or retry starts a second    *)
(* run of a job beside one that still executes, until a lock is lost.      *)
THEOREM RunsDoNotOverlap ==
  ASSUME ApiMaxRetries <= WorkerMaxRetries
  PROVE  Spec => []NoConcurrentRuns
<1>1. HeldInv => NoConcurrentRuns
  <2>. SUFFICES ASSUME HeldInv, NEW j \in Jobs \ lost
                PROVE  Cardinality(ExecutingRuns(j)) <= 1
    BY DEF NoConcurrentRuns
  <2>1. ExecutingRuns(j) \subseteq {bull[j].lock}
    BY DEF HeldInv, Held, ExecutingRuns
  <2>2. /\ IsFiniteSet({bull[j].lock}) /\ Cardinality({bull[j].lock}) = 1
    BY FS_Singleton
  <2>. QED  BY <2>1, <2>2, FS_Subset
<1>. QED  BY <1>1, HeldInvariance, PTL

(* What the queue has completed shows as completed, with its date.         *)
THEOREM AcknowledgedJobsAreCompleted ==
  ASSUME ApiMaxRetries <= WorkerMaxRetries
  PROVE  Spec => []AcknowledgedMeansCompleted
<1>1. IInv /\ HeldInv => AcknowledgedMeansCompleted
  BY DEF IInv, AcknowledgedHasResult, HeldInv, Held, AcknowledgedMeansCompleted
<1>. QED  BY <1>1, Invariance, HeldInvariance, PTL

(* FAILED is shown only once the queue has given the job up, whatever locks *)
(* are lost, provided that the worker allows no fewer attempts than the     *)
(* queue.                                                                  *)
THEOREM FailedJobsAreFinal ==
  ASSUME ApiMaxRetries <= WorkerMaxRetries
  PROVE  Spec => []FailedIsFinal
<1>1. HeldInv => FailedIsFinal
  BY DEF HeldInv, Held, FailedIsFinal
<1>. QED  BY <1>1, HeldInvariance, PTL

(* A write of a run changes no other job, and a run that writes executes.   *)
LEMMA RunWrites ==
  ASSUME IInv, NEW k \in Jobs, NEW n \in RunIds, RunStep(k, n), ~OnFailed(k, n)
  PROVE  /\ runs[k][n].pc \in Executing
         /\ \A j \in Jobs \ {k} : jobs'[j] = jobs[j] /\ results'[j] = results[j]
         /\ lost' = lost
<1>. USE DEF Executing, BeforeIncrement, BeforeResult, AfterResult
<1>1. jobs \in [Jobs -> JobDoc \cup {NoJob}] /\ results \in [Jobs -> {NoResult} \cup RunIds]
  BY DEF IInv, TypeOK
<1>2. ASSUME NEW from, NEW doc, NEW to, WriteJob(k, n, from, doc, to)
      PROVE  /\ runs[k][n].pc = from /\ lost' = lost
             /\ \A j \in Jobs \ {k} : jobs'[j] = jobs[j] /\ results'[j] = results[j]
  BY <1>1, <1>2 DEF WriteJob
<1>3. CASE SetProcessing(k, n) \/ SetStarted(k, n) \/ CountAttempt(k, n)
  BY <1>2, <1>3 DEF SetProcessing, SetStarted, CountAttempt
<1>4. CASE SetCompleted(k, n) \/ SetCompletedTime(k, n)
  BY <1>2, <1>4 DEF SetCompleted, SetCompletedTime
<1>5. CASE \/ FindFileAndJob(k, n) \/ GetStream(k, n) \/ ProcessCsv(k, n)
           \/ CountBatch(k, n)
  BY <1>5 DEF FindFileAndJob, GetStream, ProcessCsv, CountBatch, Read
<1>6. CASE CreateResult(k, n)
  BY <1>1, <1>6 DEF CreateResult
<1>7. CASE Acknowledge(k, n) \/ Reject(k, n)
  BY <1>7 DEF Acknowledge, Reject
<1>. QED  BY <1>3, <1>4, <1>5, <1>6, <1>7 DEF RunStep

(* The handler of `failed` writes FAILED, and that only for a job that the   *)
(* queue has given up.                                                     *)
LEMMA LateFailure ==
  ASSUME ConstantsAssumption, ApiMaxRetries <= WorkerMaxRetries, IInv,
         NEW k \in Jobs, NEW n \in RunIds, OnFailed(k, n), NEW j \in Jobs,
         bull[j].state # "absent"
  PROVE  /\ UNCHANGED <<results, lost>>
         /\ \/ jobs'[j] = jobs[j]
            \/ bull[j].state = "failed" /\ jobs'[j].status = "failed"
<1>1. /\ jobs \in [Jobs -> JobDoc \cup {NoJob}] /\ runs[k][n] \in Run
      /\ Exists(jobs[j]) /\ runs[k][n].pc = "onFailed"
  BY DEF IInv, TypeOK, QueueInv, OnFailed
<1>2. UpdateStatus(jobs[j], "failed", TRUE).status = "failed"
  BY <1>1, UpdateStatusEffect DEF JobStatus
<1>3. \/ jobs' = jobs
      \/ /\ jobs' = [jobs EXCEPT ![k] = UpdateStatus(jobs[k], "failed", TRUE)]
         /\ runs[k][n].made >= WorkerMaxRetries
  BY DEF OnFailed
<1>4. runs[k][n].made >= WorkerMaxRetries => bull[k].state = "failed"
  <2>1. runs[k][n].made \in Nat
    BY <1>1 DEF Run
  <2>. QED  BY <1>1, <2>1 DEF ConstantsAssumption, IInv, RunInv
<1>5. UNCHANGED <<results, lost>>
  BY DEF OnFailed
<1>6. CASE j = k
  BY <1>1, <1>2, <1>3, <1>4, <1>5, <1>6
<1>7. CASE j # k
  BY <1>1, <1>3, <1>5, <1>7
<1>. QED  BY <1>6, <1>7

(* Nobody executes a job whose outcome was shown, and the only step that is  *)
(* left writes what is there.                                              *)
LEMMA OutcomeStep ==
  ASSUME ConstantsAssumption, ApiMaxRetries <= WorkerMaxRetries, IInv, HeldInv, [Next]_vars,
         NEW j \in Jobs \ lost', jobs[j].status = "failed" \/ bull[j].state = "completed"
  PROVE  jobs'[j].status = jobs[j].status /\ results'[j] = results[j]
<1>1. bull[j].state = "completed" \/ (bull[j].state = "failed" /\ jobs[j].status = "failed")
  BY DEF HeldInv, Held
<1>2. Exists(jobs[j])
  BY <1>1 DEF IInv, QueueInv
<1>3. ASSUME j \notin lost, NEW n \in RunIds PROVE runs[j][n].pc \notin Executing
  BY <1>1, <1>3, Holder
<1>4. ASSUME NEW k \in Jobs, CreateJob(k) PROVE UNCHANGED results /\ jobs'[j] = jobs[j]
  BY <1>2, <1>4 DEF CreateJob, IInv, TypeOK
<1>5. ASSUME NEW k \in Jobs, Enqueue(k) \/ Take(k) \/ QueueStep(k)
      PROVE  UNCHANGED <<jobs, results>>
  BY <1>5 DEF Enqueue, Take, Start, FailDeferred, QueueStep, LockExpires, LoseLock,
              StalledCheck, Promote
<1>6. ASSUME NEW k \in Jobs, NEW n \in RunIds, RunStep(k, n)
      PROVE  jobs'[j].status = jobs[j].status /\ results'[j] = results[j]
  <2>1. CASE OnFailed(k, n)
    BY <1>1, <2>1, LateFailure
  <2>2. CASE ~OnFailed(k, n)
    <3>1. j # k
      BY <1>3, <1>6, <2>2, RunWrites
    <3>. QED  BY <1>6, <2>2, <3>1, RunWrites
  <2>. QED  BY <2>1, <2>2
<1>7. ASSUME NEW w \in Workers, Crash(w) \/ Restart(w) PROVE UNCHANGED <<jobs, results>>
  BY <1>7 DEF Crash, Restart
<1>. QED  BY <1>4, <1>5, <1>6, <1>7 DEF Next, vars

(* What a client was shown as the outcome of a job stays the outcome.       *)
THEOREM OutcomesStay ==
  ASSUME ApiMaxRetries <= WorkerMaxRetries
  PROVE  Spec => OutcomeStays
<1>1. IInv /\ HeldInv /\ [Next]_vars =>
        [\A j \in Jobs \ lost' :
           jobs[j].status = "failed" \/ bull[j].state = "completed" =>
             jobs'[j].status = jobs[j].status /\ results'[j] = results[j]]_vars
  BY OutcomeStep, ConstantsAssumption
<1>. QED  BY <1>1, Invariance, HeldInvariance, PTL DEF Spec, OutcomeStays
-----------------------------------------------------------------------------
(* Refinement of JobPromise.  When only the input or the storage fails, no  *)
(* lock is lost, no run stalls, and a run that has stored the result gets   *)
(* through to the end: how far the run of the lock is, says what the        *)
(* abstract job is.                                                        *)
OnlyInputFails == Faults \subseteq {"s3", "csv"}

Quiet(j) ==
  LET status == jobs[j].status
      pc == runs[j][bull[j].lock].pc
  IN
  /\ bull[j].stalled = 0
  /\ bull[j].state = "absent" => status \in {"none", "pending"}
  /\ bull[j].state \in {"waiting", "delayed"} => status \in {"pending", "processing"}
  /\ bull[j].state = "failed" => status \in {"processing", "failed"}
  /\ bull[j].state \notin {"active", "completed"} => results[j] = NoResult
  /\ bull[j].state = "active" =>
       /\ bull[j].lock # 0
       /\ pc \in Executing
       /\ pc = "setProcessing" => status \in {"pending", "processing"}
       /\ pc \notin {"setProcessing", "setCompletedAt", "countBatch", "return"} =>
            status = "processing"
       /\ pc \notin AfterResult => results[j] = NoResult

QInv == lost = {} /\ \A j \in Jobs : Quiet(j)

(* A step of the abstract job j, or none, seen in the values of its three   *)
(* variables.                                                              *)
Promised(j) ==
  LET Status(from, to) == jobs[j].status = from /\ jobs'[j].status = to
      ToldAlike == (results'[j] # NoResult) = (results[j] # NoResult)
      QueuedAlike == (bull'[j].state # "absent") = (bull[j].state # "absent")
  IN
  \/ jobs'[j].status = jobs[j].status /\ ToldAlike /\ QueuedAlike
  \/ Status("none", "pending") /\ ToldAlike /\ QueuedAlike
  \/ /\ Status("pending", "pending") /\ ToldAlike
     /\ bull[j].state = "absent" /\ bull'[j].state # "absent"
  \/ /\ Status("pending", "processing") /\ ToldAlike /\ QueuedAlike
     /\ bull[j].state # "absent"
  \/ /\ Status("processing", "processing") /\ QueuedAlike
     /\ results[j] = NoResult /\ results'[j] # NoResult
  \/ /\ Status("processing", "completed") /\ ToldAlike /\ QueuedAlike
     /\ results[j] # NoResult
  \/ /\ Status("processing", "failed") /\ ToldAlike /\ QueuedAlike
     /\ results[j] = NoResult

LEMMA PromisedStep ==
  ASSUME NEW j \in Jobs, Promised(j),
         \A k \in Jobs \ {j} : /\ jobs'[k].status = jobs[k].status
                               /\ results'[k] = results[k]
                               /\ bull'[k].state = bull[k].state
  PROVE  [Promise!Next]_(Promise!vars)
<1>. DEFINE S == [k \in Jobs |-> jobs[k].status]
            P == [k \in Jobs |-> results[k] # NoResult]
            A == [k \in Jobs |-> bull[k].state # "absent"]
            T == [k \in Jobs |-> jobs'[k].status]
            Q == [k \in Jobs |-> results'[k] # NoResult]
            B == [k \in Jobs |-> bull'[k].state # "absent"]
<1>1. T = [S EXCEPT ![j] = jobs'[j].status]
  OBVIOUS
<1>2. (results'[j] # NoResult) = (results[j] # NoResult) => Q = P
  OBVIOUS
<1>3. (bull'[j].state # "absent") = (bull[j].state # "absent") => B = A
  OBVIOUS
<1>4. results'[j] # NoResult => Q = [P EXCEPT ![j] = TRUE]
  OBVIOUS
<1>5. bull'[j].state # "absent" => B = [A EXCEPT ![j] = TRUE]
  OBVIOUS
<1>6. jobs'[j].status = jobs[j].status => T = S
  OBVIOUS
<1>7. /\ S[j] = jobs[j].status
      /\ P[j] = (results[j] # NoResult)
      /\ A[j] = (bull[j].state # "absent")
  OBVIOUS
<1>. HIDE DEF S, P, A, T, Q, B
<1>8. \/ T = S /\ Q = P /\ B = A
      \/ S[j] = "none" /\ T = [S EXCEPT ![j] = "pending"] /\ Q = P /\ B = A
      \/ S[j] = "pending" /\ ~A[j] /\ B = [A EXCEPT ![j] = TRUE] /\ T = S /\ Q = P
      \/ A[j] /\ S[j] = "pending" /\ T = [S EXCEPT ![j] = "processing"] /\ Q = P /\ B = A
      \/ S[j] = "processing" /\ ~P[j] /\ Q = [P EXCEPT ![j] = TRUE] /\ T = S /\ B = A
      \/ P[j] /\ S[j] = "processing" /\ T = [S EXCEPT ![j] = "completed"] /\ Q = P /\ B = A
      \/ ~P[j] /\ S[j] = "processing" /\ T = [S EXCEPT ![j] = "failed"] /\ Q = P /\ B = A
  BY <1>1, <1>2, <1>3, <1>4, <1>5, <1>6, <1>7 DEF Promised
<1>9. \/ T = S /\ Q = P /\ B = A
      \/ Promise!Create(j) \/ Promise!Accept(j) \/ Promise!Begin(j) \/ Promise!Publish(j)
      \/ Promise!Complete(j) \/ Promise!Fail(j)
  BY <1>8 DEF S, P, A, T, Q, B, Promise!Create, Promise!Accept, Promise!Begin,
              Promise!Publish, Promise!Complete, Promise!Fail, Promise!Move
<1>. QED  BY <1>9 DEF S, P, A, T, Q, B, Promise!Next, Promise!Work, Promise!vars

(* An action on one job leaves the others as they are.                     *)
LEMMA QuietElsewhere ==
  ASSUME QInv, NEW j \in Jobs, lost' = lost, Quiet(j)', Promised(j),
         \A k \in Jobs \ {j} : /\ jobs'[k] = jobs[k] /\ results'[k] = results[k]
                               /\ bull'[k] = bull[k] /\ runs'[k] = runs[k]
  PROVE  QInv' /\ [Promise!Next]_(Promise!vars)
<1>1. QInv'
  BY DEF QInv, Quiet
<1>. QED  BY <1>1, PromisedStep

LEMMA QuietCreateJob ==
  ASSUME IInv, QInv, NEW j \in Jobs, CreateJob(j)
  PROVE  QInv' /\ [Promise!Next]_(Promise!vars)
<1>1. bull[j].state = "absent"
  BY DEF CreateJob, IInv, QueueInv
<1>2. jobs \in [Jobs -> JobDoc \cup {NoJob}] /\ NewJob.status = "pending"
  BY DEF IInv, TypeOK, NewJob
<1>3. /\ jobs[j].status = "none" /\ jobs'[j].status = "pending"
      /\ \A k \in Jobs \ {j} : jobs'[k] = jobs[k]
  BY <1>2 DEF CreateJob, Exists
<1>4. Quiet(j)' /\ Promised(j)
  BY <1>1, <1>3 DEF CreateJob, QInv, Quiet, Promised
<1>. QED  BY <1>3, <1>4, QuietElsewhere DEF CreateJob

(* Without a lost lock nothing stalls: of the steps of the queue, only the  *)
(* promotion of a delayed job is left, which does not show.                *)
LEMMA QuietQueue ==
  ASSUME OnlyInputFails, IInv, QInv, NEW j \in Jobs, Enqueue(j) \/ QueueStep(j)
  PROVE  QInv' /\ [Promise!Next]_(Promise!vars)
<1>1. bull \in [Jobs -> BullJob] /\ Accounted(bull[j])
  BY DEF IInv, TypeOK, QueueInv
<1>2. ~LoseLock(j) /\ ~LockExpires(j) /\ ~StalledCheck(j)
  BY <1>1 DEF OnlyInputFails, LoseLock, LockExpires, StalledCheck, Accounted, QInv, Quiet
<1>3. /\ bull'[j].state = "waiting" /\ bull'[j].stalled = bull[j].stalled
      /\ \A k \in Jobs \ {j} : bull'[k] = bull[k]
      /\ UNCHANGED <<jobs, results, runs, lost>>
  BY <1>1, <1>2 DEF Enqueue, QueueStep, Promote, BullJob
<1>4. \/ bull[j].state = "absent" /\ jobs[j].status # "none"
      \/ bull[j].state = "delayed"
  BY <1>2 DEF Enqueue, QueueStep, Promote, Exists
<1>5. Quiet(j)' /\ Promised(j)
  BY <1>3, <1>4 DEF QInv, Quiet, Promised
<1>. QED  BY <1>3, <1>5, QuietElsewhere

LEMMA QuietTake ==
  ASSUME ConstantsAssumption, IInv, QInv, NEW j \in Jobs, Take(j)
  PROVE  QInv' /\ [Promise!Next]_(Promise!vars)
<1>1. /\ bull \in [Jobs -> BullJob] /\ runs \in [Jobs -> [RunIds -> Run]]
      /\ bull[j].stalled = 0
  BY DEF IInv, TypeOK, QInv, Quiet
<1>2. PICK w \in Workers : Start(j, w)
  BY <1>1 DEF Take, FailDeferred, Deferred, ConstantsAssumption
<1>. DEFINE n == bull[j].started + 1
<1>3. n \in RunIds /\ n # 0
  BY <1>1, <1>2 DEF Start, IInv, QueueInv, Accounted, RunIds, MaxRuns, BullJob, ConstantsAssumption
<1>4. /\ bull[j].state = "waiting" /\ bull'[j].state = "active" /\ bull'[j].lock = n
      /\ bull'[j].stalled = 0
      /\ \A k \in Jobs \ {j} : bull'[k] = bull[k] /\ runs'[k] = runs[k]
      /\ UNCHANGED <<jobs, results, lost>>
  BY <1>1, <1>2 DEF Start, BullJob
<1>5. runs'[j][n].pc = "setProcessing"
  BY <1>1, <1>2, <1>3 DEF Start
<1>. HIDE DEF n
<1>6. Quiet(j)' /\ Promised(j)
  BY <1>3, <1>4, <1>5 DEF QInv, Quiet, Promised, Executing, BeforeIncrement, AfterResult
<1>. QED  BY <1>4, <1>6, QuietElsewhere

(* The run that executes: it holds the lock, and the job shows how far it   *)
(* is.                                                                     *)
LEMMA QuietHolder ==
  ASSUME IInv, HeldInv, QInv, NEW j \in Jobs, NEW n \in RunIds, runs[j][n].pc \in Executing
  PROVE  /\ bull[j].state = "active" /\ bull[j].lock = n
         /\ runs[j][n].pc = "setProcessing" => jobs[j].status \in {"pending", "processing"}
         /\ runs[j][n].pc \notin {"setProcessing", "setCompletedAt", "countBatch", "return"}
              => jobs[j].status = "processing"
         /\ runs[j][n].pc \notin AfterResult => results[j] = NoResult
         /\ runs[j][n].pc \in AfterResult => results[j] # NoResult
<1>1. bull[j].state = "active" /\ bull[j].lock = n
  BY Holder DEF QInv
<1>2. n # NoResult
  BY DEF RunIds, NoResult
<1>. QED  BY <1>1, <1>2 DEF QInv, Quiet, IInv, OnePublisher

(* The run of job j moves on, and the abstract job with it.                *)
LEMMA QuietMove ==
  ASSUME IInv, HeldInv, QInv, NEW j \in Jobs, NEW n \in RunIds, NEW pc \in Executing,
         runs[j][n].pc \in Executing, GoTo(j, n, pc), UNCHANGED <<bull, lost>>, Promised(j),
         \A k \in Jobs \ {j} : jobs'[k] = jobs[k] /\ results'[k] = results[k],
         pc # "setProcessing",
         pc \notin {"setCompletedAt", "countBatch", "return"} => jobs'[j].status = "processing",
         pc \notin AfterResult => results'[j] = NoResult
  PROVE  QInv' /\ [Promise!Next]_(Promise!vars)
<1>1. runs'[j][n].pc = pc /\ \A k \in Jobs \ {j} : runs'[k] = runs[k]
  <2>1. runs \in [Jobs -> [RunIds -> Run]] /\ runs[j][n] \in Run
    BY DEF IInv, TypeOK
  <2>2. runs'[j][n] = [runs[j][n] EXCEPT !.pc = pc]
    BY <2>1 DEF GoTo
  <2>. QED  BY <2>1, <2>2 DEF GoTo, Run
<1>2. bull[j].state = "active" /\ bull[j].lock = n /\ n # 0
  BY Holder DEF QInv
<1>3. bull[j].stalled = 0
  BY DEF QInv, Quiet
<1>4. Quiet(j)'
  BY <1>1, <1>2, <1>3 DEF Quiet
<1>. QED  BY <1>1, <1>4, QuietElsewhere

LEMMA QuietWrite ==
  ASSUME OnlyInputFails, IInv, HeldInv, QInv, NEW j \in Jobs, NEW n \in RunIds,
         \/ SetProcessing(j, n) \/ SetStarted(j, n) \/ CountAttempt(j, n)
         \/ SetCompleted(j, n) \/ SetCompletedTime(j, n)
  PROVE  QInv' /\ [Promise!Next]_(Promise!vars)
<1>1. jobs \in [Jobs -> JobDoc \cup {NoJob}] /\ jobs[j] \in JobDoc \cup {NoJob}
  BY DEF IInv, TypeOK
<1>2. "mongo" \notin Faults
  BY DEF OnlyInputFails
<1>3. \A doc : jobs' = [jobs EXCEPT ![j] = doc] =>
                /\ jobs'[j] = doc
                /\ \A k \in Jobs \ {j} : jobs'[k] = jobs[k]
  BY <1>1
<1>4. runs[j][n].pc \in Executing => Exists(jobs[j])
  BY ExecutingExists
<1>5. /\ SetStartedAt(jobs[j]).status = jobs[j].status
      /\ IncrementAttempts(jobs[j]).status = jobs[j].status
      /\ SetCompletedAt(jobs[j]).status = jobs[j].status
  BY <1>1 DEF SetStartedAt, IncrementAttempts, SetCompletedAt, JobDoc, NoJob, Exists
<1>6. /\ Exists(jobs[j]) => UpdateStatus(jobs[j], "processing", FALSE).status = "processing"
      /\ Exists(jobs[j]) => UpdateStatus(jobs[j], "completed", FALSE).status = "completed"
  BY <1>1, UpdateStatusEffect DEF JobStatus
<1>7. UNCHANGED <<results, bull, lost>>
  BY DEF SetProcessing, SetStarted, CountAttempt, SetCompleted, SetCompletedTime, WriteJob
<1>8. CASE SetProcessing(j, n)
  <2>1. /\ runs[j][n].pc = "setProcessing" /\ GoTo(j, n, "setStartedAt")
        /\ jobs' = [jobs EXCEPT ![j] = UpdateStatus(jobs[j], "processing", FALSE)]
    BY <1>2, <1>8 DEF SetProcessing, WriteJob
  <2>2. runs[j][n].pc \in Executing /\ runs[j][n].pc \notin AfterResult
    BY <2>1 DEF Executing, BeforeIncrement, AfterResult
  <2>3. jobs'[j].status = "processing" /\ \A k \in Jobs \ {j} : jobs'[k] = jobs[k]
    BY <1>3, <1>4, <1>6, <2>1, <2>2
  <2>4. Promised(j) /\ results'[j] = NoResult
    BY <1>7, <2>1, <2>2, <2>3, QuietHolder DEF Promised
  <2>. QED  BY <1>7, <2>1, <2>2, <2>3, <2>4, QuietMove DEF Executing, BeforeIncrement
<1>9. CASE SetStarted(j, n) \/ CountAttempt(j, n)
  <2>1. /\ runs[j][n].pc \in {"setStartedAt", "incrementAttempts"}
        /\ GoTo(j, n, "incrementAttempts") \/ GoTo(j, n, "findFileAndJob")
        /\ jobs'[j].status = jobs[j].status /\ \A k \in Jobs \ {j} : jobs'[k] = jobs[k]
    BY <1>2, <1>3, <1>5, <1>9 DEF SetStarted, CountAttempt, WriteJob
  <2>2. runs[j][n].pc \in Executing /\ runs[j][n].pc \notin AfterResult
    BY <2>1 DEF Executing, BeforeIncrement, AfterResult
  <2>3. Promised(j) /\ jobs'[j].status = "processing" /\ results'[j] = NoResult
    BY <1>7, <2>1, <2>2, QuietHolder DEF Promised
  <2>. QED  BY <1>7, <2>1, <2>2, <2>3, QuietMove DEF Executing, BeforeIncrement, BeforeResult
<1>10. CASE SetCompleted(j, n)
  <2>1. /\ runs[j][n].pc = "setCompleted" /\ GoTo(j, n, "setCompletedAt")
        /\ jobs' = [jobs EXCEPT ![j] = UpdateStatus(jobs[j], "completed", FALSE)]
    BY <1>2, <1>10 DEF SetCompleted, WriteJob
  <2>2. runs[j][n].pc \in Executing /\ runs[j][n].pc \in AfterResult
    BY <2>1 DEF Executing, AfterResult
  <2>3. jobs'[j].status = "completed" /\ \A k \in Jobs \ {j} : jobs'[k] = jobs[k]
    BY <1>3, <1>4, <1>6, <2>1, <2>2
  <2>4. Promised(j)
    BY <1>7, <2>1, <2>2, <2>3, QuietHolder DEF Promised
  <2>. QED  BY <1>7, <2>1, <2>2, <2>3, <2>4, QuietMove DEF Executing, AfterResult
<1>11. CASE SetCompletedTime(j, n)
  <2>1. /\ runs[j][n].pc = "setCompletedAt"
        /\ GoTo(j, n, "countBatch") \/ GoTo(j, n, "return")
        /\ jobs'[j].status = jobs[j].status /\ \A k \in Jobs \ {j} : jobs'[k] = jobs[k]
    BY <1>2, <1>3, <1>5, <1>11 DEF SetCompletedTime, WriteJob
  <2>2. Promised(j) /\ runs[j][n].pc \in Executing
    BY <1>7, <2>1 DEF Promised, Executing, AfterResult
  <2>. QED  BY <1>7, <2>1, <2>2, QuietMove DEF Executing, AfterResult
<1>. QED  BY <1>8, <1>9, <1>10, <1>11

LEMMA QuietRead ==
  ASSUME OnlyInputFails, IInv, HeldInv, QInv, NEW j \in Jobs, NEW n \in RunIds,
         \/ FindFileAndJob(j, n) \/ GetStream(j, n) \/ ProcessCsv(j, n)
         \/ CreateResult(j, n) \/ CountBatch(j, n)
  PROVE  QInv' /\ [Promise!Next]_(Promise!vars)
<1>1. "mongo" \notin Faults
  BY DEF OnlyInputFails
<1>2. UNCHANGED <<jobs, bull, lost>>
  BY DEF FindFileAndJob, GetStream, ProcessCsv, CreateResult, CountBatch, Read
<1>3. CASE FindFileAndJob(j, n) \/ GetStream(j, n) \/ ProcessCsv(j, n)
  <2>1. /\ runs[j][n].pc \in {"findFileAndJob", "getStream", "processCsv"}
        /\ \/ GoTo(j, n, "getStream") \/ GoTo(j, n, "processCsv")
           \/ GoTo(j, n, "createResult") \/ GoTo(j, n, "throw")
        /\ results' = results
    BY <1>3 DEF FindFileAndJob, GetStream, ProcessCsv, Read
  <2>2. runs[j][n].pc \in Executing /\ runs[j][n].pc \notin AfterResult
    BY <2>1 DEF Executing, BeforeResult, AfterResult
  <2>3. Promised(j) /\ jobs'[j].status = "processing" /\ results'[j] = NoResult
    BY <1>2, <2>1, <2>2, QuietHolder DEF Promised
  <2>. QED  BY <1>2, <2>1, <2>2, <2>3, QuietMove DEF Executing, BeforeResult
<1>4. CASE CreateResult(j, n)
  <2>1. runs[j][n].pc = "createResult"
    BY <1>4 DEF CreateResult
  <2>2. runs[j][n].pc \in Executing /\ runs[j][n].pc \notin AfterResult
    BY <2>1 DEF Executing, BeforeResult, AfterResult
  <2>3. results[j] = NoResult /\ jobs[j].status = "processing"
    BY <2>1, <2>2, QuietHolder
  <2>4. results \in [Jobs -> {NoResult} \cup RunIds] /\ n # NoResult
    BY DEF IInv, TypeOK, RunIds, NoResult
  <2>5. /\ results'[j] # NoResult /\ GoTo(j, n, "setCompleted")
        /\ \A k \in Jobs \ {j} : results'[k] = results[k]
    BY <1>1, <1>4, <2>3, <2>4 DEF CreateResult
  <2>6. Promised(j)
    BY <1>2, <2>3, <2>5 DEF Promised
  <2>. QED  BY <1>2, <2>2, <2>3, <2>5, <2>6, QuietMove DEF Executing, AfterResult
<1>5. CASE CountBatch(j, n)
  <2>1. /\ runs[j][n].pc = "countBatch" /\ GoTo(j, n, "return") /\ results' = results
    BY <1>1, <1>5 DEF CountBatch, Read
  <2>2. Promised(j)
    BY <1>2, <2>1 DEF Promised
  <2>. QED  BY <1>2, <2>1, <2>2, QuietMove DEF Executing, AfterResult
<1>. QED  BY <1>3, <1>4, <1>5

LEMMA QuietOutcome ==
  ASSUME IInv, HeldInv, QInv, NEW j \in Jobs, NEW n \in RunIds,
         Acknowledge(j, n) \/ Reject(j, n)
  PROVE  QInv' /\ [Promise!Next]_(Promise!vars)
<1>1. /\ bull \in [Jobs -> BullJob] /\ runs \in [Jobs -> [RunIds -> Run]]
      /\ runs[j][n].pc \in {"return", "throw"} /\ UNCHANGED <<jobs, results, lost>>
  BY DEF IInv, TypeOK, Acknowledge, Reject
<1>2. runs[j][n].pc \in Executing
  BY <1>1 DEF Executing, AfterResult
<1>3. bull[j].lock = n /\ bull[j].state = "active" /\ bull[j].stalled = 0
  BY <1>2, QuietHolder DEF QInv, Quiet
<1>4. /\ \A k \in Jobs \ {j} : bull'[k] = bull[k] /\ runs'[k] = runs[k]
      /\ bull'[j].stalled = 0
      /\ \/ bull'[j].state = "completed"
         \/ runs[j][n].pc = "throw" /\ bull'[j].state \in {"delayed", "failed"}
  BY <1>1, <1>3 DEF Acknowledge, Reject, BullJob
<1>5. runs[j][n].pc = "throw" => jobs[j].status = "processing" /\ results[j] = NoResult
  BY <1>2, QuietHolder DEF AfterResult
<1>6. Quiet(j)' /\ Promised(j)
  BY <1>1, <1>3, <1>4, <1>5 DEF Quiet, Promised
<1>. QED  BY <1>1, <1>4, <1>6, QuietElsewhere

(* The failed handler of the last attempt is where the abstract job fails.  *)
LEMMA QuietOnFailed ==
  ASSUME ConstantsAssumption, OnlyInputFails, ApiMaxRetries <= WorkerMaxRetries, IInv, QInv,
         NEW j \in Jobs, NEW n \in RunIds, OnFailed(j, n)
  PROVE  QInv' /\ [Promise!Next]_(Promise!vars)
<1>. DEFINE u == UpdateStatus(jobs[j], "failed", TRUE)
<1>1. /\ jobs \in [Jobs -> JobDoc \cup {NoJob}] /\ jobs[j] \in JobDoc \cup {NoJob}
      /\ runs \in [Jobs -> [RunIds -> Run]] /\ runs[j][n].made \in Nat
      /\ UNCHANGED <<results, bull, lost>> /\ runs[j][n].pc = "onFailed"
  BY DEF IInv, TypeOK, OnFailed, Run
<1>2. /\ runs' = [runs EXCEPT ![j][n] = Ended]
      /\ jobs' = IF runs[j][n].made >= WorkerMaxRetries THEN [jobs EXCEPT ![j] = u] ELSE jobs
  BY DEF OnlyInputFails, OnFailed
<1>3. /\ \A k \in Jobs \ {j} : runs'[k] = runs[k] /\ jobs'[k] = jobs[k]
      /\ \A m \in RunIds \ {n} : runs'[j][m] = runs[j][m]
  BY <1>1, <1>2
<1>4. bull[j].state = "active" => bull[j].lock # n
  BY <1>1 DEF QInv, Quiet, Executing, BeforeIncrement, BeforeResult, AfterResult
<1>5. bull[j].state = "active" => bull[j].lock \in RunIds
  BY DEF IInv, TypeOK, BullJob, QInv, Quiet
<1>6. \/ jobs'[j] = jobs[j]
      \/ /\ bull[j].state = "failed" /\ jobs'[j].status = "failed"
         /\ jobs[j].status \in {"processing", "failed"}
  <2>1. CASE runs[j][n].made >= WorkerMaxRetries
    <3>1. bull[j].state = "failed"
      BY <1>1, <2>1 DEF ConstantsAssumption, IInv, RunInv
    <3>2. jobs[j].status \in {"processing", "failed"}
      BY <3>1 DEF QInv, Quiet
    <3>3. u.status = "failed"
      BY <1>1, <3>2, UpdateStatusEffect DEF Exists, JobStatus
    <3>. HIDE DEF u
    <3>. QED  BY <1>1, <1>2, <2>1, <3>1, <3>2, <3>3
  <2>2. CASE ~(runs[j][n].made >= WorkerMaxRetries)
    BY <1>2, <2>2
  <2>. QED  BY <2>1, <2>2
<1>7. Quiet(j)'
  BY <1>1, <1>3, <1>4, <1>5, <1>6 DEF QInv, Quiet
<1>8. Promised(j)
  BY <1>1, <1>6 DEF QInv, Quiet, Promised
<1>. QED  BY <1>1, <1>3, <1>7, <1>8, QuietElsewhere

LEMMA QuietNext ==
  ASSUME ConstantsAssumption, OnlyInputFails, ApiMaxRetries <= WorkerMaxRetries,
         IInv, HeldInv, QInv, [Next]_vars
  PROVE  QInv' /\ [Promise!Next]_(Promise!vars)
<1>1. ASSUME NEW j \in Jobs, CreateJob(j) PROVE QInv' /\ [Promise!Next]_(Promise!vars)
  BY <1>1, QuietCreateJob
<1>2. ASSUME NEW j \in Jobs, Enqueue(j) \/ QueueStep(j)
      PROVE  QInv' /\ [Promise!Next]_(Promise!vars)
  BY <1>2, QuietQueue
<1>3. ASSUME NEW j \in Jobs, Take(j) PROVE QInv' /\ [Promise!Next]_(Promise!vars)
  BY <1>3, QuietTake
<1>4. ASSUME NEW j \in Jobs, NEW n \in RunIds, RunStep(j, n)
      PROVE  QInv' /\ [Promise!Next]_(Promise!vars)
  BY <1>4, QuietWrite, QuietRead, QuietOutcome, QuietOnFailed DEF RunStep
<1>5. ASSUME UNCHANGED <<jobs, results, bull, runs, lost>>
      PROVE  QInv' /\ [Promise!Next]_(Promise!vars)
  BY <1>5 DEF QInv, Quiet, Promise!vars
<1>6. ASSUME NEW w \in Workers, Crash(w) \/ Restart(w)
      PROVE  QInv' /\ [Promise!Next]_(Promise!vars)
  BY <1>5, <1>6 DEF OnlyInputFails, Crash, Restart
<1>7. CASE UNCHANGED vars
  BY <1>5, <1>7 DEF vars
<1>. QED  BY <1>1, <1>2, <1>3, <1>4, <1>6, <1>7 DEF Next

(* When only the input or the storage fails, what a client sees of a job is *)
(* what JobPromise allows: retries do not show, COMPLETED follows the       *)
(* result, FAILED excludes it, and both are final.                          *)
THEOREM JobsKeepTheirPromise ==
  ASSUME OnlyInputFails, ApiMaxRetries <= WorkerMaxRetries
  PROVE  Spec => Promise!Safety
<1>1. Init => QInv /\ Promise!Init
  <2>. SUFFICES ASSUME Init PROVE QInv /\ Promise!Init
    OBVIOUS
  <2>1. \A j \in Jobs : /\ jobs[j].status = "none" /\ results[j] = NoResult
                       /\ bull[j].state = "absent" /\ bull[j].stalled = 0
    BY DEF Init, NoJob, NotQueued
  <2>2. QInv
    BY <2>1 DEF Init, QInv, Quiet
  <2>3. /\ [j \in Jobs |-> jobs[j].status] = [j \in Jobs |-> "none"]
        /\ [j \in Jobs |-> results[j] # NoResult] = [j \in Jobs |-> FALSE]
        /\ [j \in Jobs |-> bull[j].state # "absent"] = [j \in Jobs |-> FALSE]
    BY <2>1
  <2>. QED  BY <2>2, <2>3 DEF Promise!Init
<1>2. IInv /\ HeldInv /\ QInv /\ [Next]_vars => QInv' /\ [Promise!Next]_(Promise!vars)
  BY QuietNext, ConstantsAssumption
<1>. QED  BY <1>1, <1>2, Invariance, HeldInvariance, PTL DEF Spec, Promise!Safety
=============================================================================
