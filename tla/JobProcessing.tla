---------------------------- MODULE JobProcessing ----------------------------
(***************************************************************************)
(* The life of processing jobs: the worker's processor and its `failed`     *)
(* handler (src/worker.ts), the job and result documents they write, and    *)
(* the BullMQ queue that delivers each job at least once.                   *)
(*                                                                         *)
(* Every `await` of the processor is one action, so that steps of several   *)
(* runs of one job interleave.  A run is one delivery of the job by BullMQ; *)
(* run n of a job is the one its n-th start created.  A run whose lock      *)
(* expired goes on executing beside the run that replaced it.               *)
(***************************************************************************)
EXTENDS Integers, FiniteSets, JobRepository

CONSTANTS
  Jobs,             \* ids of the job documents
  BatchJobs,        \* the jobs created with a batchId
  Workers,          \* worker processes
  NoWorker,         \* the worker of a run that is not executing
  Concurrency,      \* config.QUEUE_CONCURRENCY
  ApiMaxRetries,    \* config.QUEUE_MAX_RETRIES as the API process reads it
  WorkerMaxRetries, \* config.QUEUE_MAX_RETRIES as the worker process reads it
  MaxStalledCount,  \* BullMQ's maxStalledCount, 1 unless configured
  Faults            \* what may go wrong: a subset of AllFaults

AllFaults == {"mongo", "s3", "csv", "lock", "crash"}

ASSUME ConstantsAssumption ==
  /\ BatchJobs \subseteq Jobs
  /\ NoWorker \notin Workers
  /\ Concurrency \in Nat \ {0}
  /\ ApiMaxRetries \in Nat \ {0}
  /\ WorkerMaxRetries \in Nat \ {0}
  /\ MaxStalledCount \in Nat
  /\ Faults \subseteq AllFaults

VARIABLES
  jobs,     \* [Jobs -> JobDoc \cup {NoJob}], the jobs collection
  results,  \* [Jobs -> 0 or the run that stored the job's result document]
  bull,     \* [Jobs -> the job's state in Redis]
  runs,     \* [Jobs -> [RunIds -> a run of the processor]]
  alive,    \* worker processes that are up
  lost      \* history: the jobs whose lock an executing run has lost

vars == <<jobs, results, bull, runs, alive, lost>>

(* Every start of a job follows from its first delivery, a failed attempt  *)
(* or a stall, and both are bounded by the queue.                          *)
MaxRuns == ApiMaxRetries + MaxStalledCount + 1
RunIds == 1 .. MaxRuns

NoResult == 0

(* BullMQ's record of a job: its state, attemptsStarted, attemptsMade,      *)
(* stalledCounter and the run that holds the lock (0 when nobody does).     *)
BullStates == {"absent", "waiting", "active", "delayed", "completed", "failed"}
NotQueued == [state |-> "absent", started |-> 0, made |-> 0, stalled |-> 0,
              lock |-> 0]

(* The await a run is at; `throw` and `return` are the processor's two     *)
(* outcomes, `onFailed` the worker.on('failed') handler.                   *)
AfterResult == {"setCompleted", "setCompletedAt", "countBatch", "return"}
BeforeIncrement == {"setProcessing", "setStartedAt", "incrementAttempts"}
BeforeResult == {"findFileAndJob", "getStream", "processCsv", "createResult"}
Executing == BeforeIncrement \cup BeforeResult \cup AfterResult \cup {"throw"}
Steps == Executing \cup {"unused", "onFailed", "ended"}

Unused == [pc |-> "unused", worker |-> NoWorker, made |-> 0]
Ended == [pc |-> "ended", worker |-> NoWorker, made |-> 0]

(* A job whose stalls exceed maxStalledCount is handed out once more, only  *)
(* for its worker to fail it.                                              *)
Deferred(j) == bull[j].stalled > MaxStalledCount

ExecutingRuns(j) == {n \in RunIds : runs[j][n].pc \in Executing}

Slots(w) ==
  {r \in Jobs \X RunIds : /\ runs[r[1]][r[2]].worker = w
                          /\ runs[r[1]][r[2]].pc \in Executing}

-----------------------------------------------------------------------------
Init ==
  /\ jobs = [j \in Jobs |-> NoJob]
  /\ results = [j \in Jobs |-> NoResult]
  /\ bull = [j \in Jobs |-> NotQueued]
  /\ runs = [j \in Jobs |-> [n \in RunIds |-> Unused]]
  /\ alive = Workers
  /\ lost = {}

(* The API inserts the document and then adds the job to the queue; an API  *)
(* that stops in between leaves a pending job nobody will run.             *)
CreateJob(j) ==
  /\ ~Exists(jobs[j])
  /\ jobs' = [jobs EXCEPT ![j] = NewJob]
  /\ UNCHANGED <<results, bull, runs, alive, lost>>

Enqueue(j) ==
  /\ Exists(jobs[j])
  /\ bull[j].state = "absent"
  /\ bull' = [bull EXCEPT ![j].state = "waiting"]
  /\ UNCHANGED <<jobs, results, runs, alive, lost>>

-----------------------------------------------------------------------------
(* BullMQ hands a waiting job to a worker with a free slot.                *)
Start(j, w) ==
  LET n == bull[j].started + 1 IN
  /\ bull[j].state = "waiting"
  /\ ~Deferred(j)
  /\ w \in alive
  /\ Cardinality(Slots(w)) < Concurrency
  /\ bull' = [bull EXCEPT ![j].state = "active", ![j].started = n, ![j].lock = n]
  /\ runs' = [runs EXCEPT ![j][n] =
                [pc |-> "setProcessing", worker |-> w, made |-> 0]]
  /\ UNCHANGED <<jobs, results, alive, lost>>

(* A deferred failure: the worker fails the job without running it, and    *)
(* the failed event carries the attempts made so far.                      *)
FailDeferred(j, w) ==
  LET n == bull[j].started + 1
      made == bull[j].made + 1
  IN
  /\ bull[j].state = "waiting"
  /\ Deferred(j)
  /\ w \in alive
  /\ Cardinality(Slots(w)) < Concurrency
  /\ bull' = [bull EXCEPT ![j].state = "failed", ![j].started = n, ![j].made = made]
  /\ runs' = [runs EXCEPT ![j][n] = [pc |-> "onFailed", worker |-> w, made |-> made]]
  /\ UNCHANGED <<jobs, results, alive, lost>>

-----------------------------------------------------------------------------
GoTo(j, n, pc) == runs' = [runs EXCEPT ![j][n].pc = pc]

(* Mutant: a rejected write is caught, and the processor goes on.          *)
WriteJobCaught(j, n, from, doc, to) ==
  /\ runs[j][n].pc = from
  /\ \/ jobs' = [jobs EXCEPT ![j] = doc]
     \/ "mongo" \in Faults /\ jobs' = jobs
  /\ GoTo(j, n, to)
  /\ UNCHANGED <<results, bull, alive, lost>>

(* A write to the job document.  When the call rejects, the write may have *)
(* been applied or not; the processor rethrows either way.                 *)
WriteJob(j, n, from, doc, to) ==
  /\ runs[j][n].pc = from
  /\ \/ /\ jobs' = [jobs EXCEPT ![j] = doc]
        /\ GoTo(j, n, to)
     \/ /\ "mongo" \in Faults
        /\ jobs' \in {jobs, [jobs EXCEPT ![j] = doc]}
        /\ GoTo(j, n, "throw")
  /\ UNCHANGED <<results, bull, alive, lost>>

SetProcessing(j, n) ==
  WriteJob(j, n, "setProcessing",
           UpdateStatus(jobs[j], "processing", FALSE), "setStartedAt")

SetStarted(j, n) ==
  WriteJob(j, n, "setStartedAt", SetStartedAt(jobs[j]), "incrementAttempts")

CountAttempt(j, n) ==
  WriteJob(j, n, "incrementAttempts", IncrementAttempts(jobs[j]), "findFileAndJob")

(* A step that only reads: it goes on, or rejects when `fault` may happen.  *)
Read(j, n, from, fault, to) ==
  /\ runs[j][n].pc = from
  /\ \/ GoTo(j, n, to)
     \/ fault /\ GoTo(j, n, "throw")
  /\ UNCHANGED <<jobs, results, bull, alive, lost>>

(* fileRepo.findById and jobRepo.findById, two reads of documents that do   *)
(* not change identity; a missing document throws.                         *)
FindFileAndJob(j, n) ==
  Read(j, n, "findFileAndJob", "mongo" \in Faults,
       IF Exists(jobs[j]) THEN "getStream" ELSE "throw")

GetStream(j, n) == Read(j, n, "getStream", "s3" \in Faults, "processCsv")

(* Mutants: the report is not stored; an error of the stream is not listened *)
(* to, so that the promise never settles.                                  *)
ProcessCsvUnstored(j, n) == Read(j, n, "processCsv", FALSE, "setCompleted")
ProcessCsvUnsettled(j, n) ==
  Faults \cap {"s3", "csv"} = {} /\ Read(j, n, "processCsv", FALSE, "createResult")

(* processCsv settles when the stream ends, and rejects when the parser or  *)
(* the S3 stream errors.                                                   *)
ProcessCsv(j, n) ==
  Read(j, n, "processCsv", Faults \cap {"s3", "csv"} # {}, "createResult")

(* Mutant: models/Result.ts without its unique index.                      *)
CreateResultAgain(j, n) ==
  /\ runs[j][n].pc = "createResult"
  /\ results' = [results EXCEPT ![j] = n]
  /\ GoTo(j, n, "setCompleted")
  /\ UNCHANGED <<jobs, bull, alive, lost>>

(* resultRepo.create: the unique index on jobId rejects a second document.  *)
CreateResult(j, n) ==
  /\ runs[j][n].pc = "createResult"
  /\ \/ /\ results[j] = NoResult
        /\ results' = [results EXCEPT ![j] = n]
        /\ \/ GoTo(j, n, "setCompleted")
           \/ "mongo" \in Faults /\ GoTo(j, n, "throw")
     \/ /\ results[j] # NoResult \/ "mongo" \in Faults
        /\ results' = results
        /\ GoTo(j, n, "throw")
  /\ UNCHANGED <<jobs, bull, alive, lost>>

SetCompleted(j, n) ==
  WriteJob(j, n, "setCompleted",
           UpdateStatus(jobs[j], "completed", FALSE), "setCompletedAt")

(* Mutant: the id of the document is wrong, and nothing is updated.        *)
SetCompletedTimeElsewhere(j, n) ==
  WriteJob(j, n, "setCompletedAt", jobs[j],
           IF j \in BatchJobs THEN "countBatch" ELSE "return")

(* Only a job of a batch counts its batch after completing.                *)
SetCompletedTime(j, n) ==
  WriteJob(j, n, "setCompletedAt", SetCompletedAt(jobs[j]),
           IF j \in BatchJobs THEN "countBatch" ELSE "return")

CountBatch(j, n) == Read(j, n, "countBatch", "mongo" \in Faults, "return")

-----------------------------------------------------------------------------
(* The processor returned: BullMQ completes the job if this run still holds *)
(* its lock, and drops the outcome otherwise.                              *)
Acknowledge(j, n) ==
  /\ runs[j][n].pc = "return"
  /\ bull' = IF bull[j].lock = n
               THEN [bull EXCEPT ![j].state = "completed", ![j].lock = 0,
                                 ![j].made = @ + 1]
               ELSE bull
  /\ runs' = [runs EXCEPT ![j][n] = Ended]
  /\ UNCHANGED <<jobs, results, alive, lost>>

(* The processor threw: BullMQ delays the job for another attempt or fails  *)
(* it, and emits `failed` with the attempts made.                          *)
Reject(j, n) ==
  LET made == bull[j].made + 1 IN
  /\ runs[j][n].pc = "throw"
  /\ IF bull[j].lock = n
       THEN /\ bull' = [bull EXCEPT
                 ![j].state = IF made < ApiMaxRetries THEN "delayed" ELSE "failed",
                 ![j].lock = 0, ![j].made = made]
            /\ runs' = [runs EXCEPT ![j][n] = [@ EXCEPT !.pc = "onFailed", !.made = made]]
       ELSE /\ bull' = bull
            /\ runs' = [runs EXCEPT ![j][n] = Ended]
  /\ UNCHANGED <<jobs, results, alive, lost>>

(* What is left of the runs when worker w stops.                           *)
RunsWithout(w) ==
  [j \in Jobs |-> [n \in RunIds |->
     IF runs[j][n].worker = w THEN Ended ELSE runs[j][n]]]

(* Mutant: FAILED after every attempt, without the test of attemptsMade.    *)
OnFailedAlways(j, n) ==
  /\ runs[j][n].pc = "onFailed"
  /\ jobs' = [jobs EXCEPT ![j] = UpdateStatus(jobs[j], "failed", TRUE)]
  /\ runs' = [runs EXCEPT ![j][n] = Ended]
  /\ UNCHANGED <<results, bull, alive, lost>>

(* worker.on('failed'): records FAILED once the attempts are used up.  The  *)
(* handler is async and nobody awaits it, so a rejected update is an        *)
(* unhandled rejection, which ends the process.                            *)
OnFailed(j, n) ==
  LET failed == [jobs EXCEPT ![j] = UpdateStatus(jobs[j], "failed", TRUE)]
      w == runs[j][n].worker
  IN
  /\ runs[j][n].pc = "onFailed"
  /\ \/ /\ jobs' = IF runs[j][n].made >= WorkerMaxRetries THEN failed ELSE jobs
        /\ runs' = [runs EXCEPT ![j][n] = Ended]
        /\ UNCHANGED alive
     \/ /\ "mongo" \in Faults
        /\ runs[j][n].made >= WorkerMaxRetries
        /\ jobs' \in {jobs, failed}
        /\ runs' = RunsWithout(w)
        /\ alive' = alive \ {w}
  /\ UNCHANGED <<results, bull, lost>>

-----------------------------------------------------------------------------
(* Nobody renews the lock of a run that is gone: it expires.               *)
LockExpires(j) ==
  /\ bull[j].lock # 0
  /\ runs[j][bull[j].lock].pc \notin Executing
  /\ bull' = [bull EXCEPT ![j].lock = 0]
  /\ UNCHANGED <<jobs, results, runs, alive, lost>>

(* A live worker fails to renew in time: a blocked event loop, or Redis out *)
(* of reach for longer than lockDuration.                                  *)
LoseLock(j) ==
  /\ "lock" \in Faults
  /\ bull[j].lock # 0
  /\ runs[j][bull[j].lock].pc \in Executing
  /\ bull' = [bull EXCEPT ![j].lock = 0]
  /\ lost' = lost \cup {j}
  /\ UNCHANGED <<jobs, results, runs, alive>>

(* Mutant: the check takes every active job for a stalled one.             *)
StalledCheckBlind(j) ==
  /\ bull[j].state = "active"
  /\ bull[j].stalled <= MaxStalledCount
  /\ bull' = [bull EXCEPT ![j].state = "waiting", ![j].stalled = @ + 1]
  /\ UNCHANGED <<jobs, results, runs, alive, lost>>

(* The stalled-job check that every live worker repeats.                   *)
StalledCheck(j) ==
  /\ alive # {}
  /\ bull[j].state = "active"
  /\ bull[j].lock = 0
  /\ bull' = [bull EXCEPT ![j].state = "waiting", ![j].stalled = @ + 1]
  /\ UNCHANGED <<jobs, results, runs, alive, lost>>

(* The exponential backoff is over.                                        *)
Promote(j) ==
  /\ bull[j].state = "delayed"
  /\ bull' = [bull EXCEPT ![j].state = "waiting"]
  /\ UNCHANGED <<jobs, results, runs, alive, lost>>

Crash(w) ==
  /\ "crash" \in Faults
  /\ w \in alive
  /\ runs' = RunsWithout(w)
  /\ alive' = alive \ {w}
  /\ UNCHANGED <<jobs, results, bull, lost>>

(* docker-compose.yml has no restart policy: an operator starts it again.   *)
Restart(w) ==
  /\ w \in Workers \ alive
  /\ alive' = alive \cup {w}
  /\ UNCHANGED <<jobs, results, bull, runs, lost>>

-----------------------------------------------------------------------------
RunStep(j, n) ==
  \/ SetProcessing(j, n)
  \/ SetStarted(j, n)
  \/ CountAttempt(j, n)
  \/ FindFileAndJob(j, n)
  \/ GetStream(j, n)
  \/ ProcessCsv(j, n)
  \/ CreateResult(j, n)
  \/ SetCompleted(j, n)
  \/ SetCompletedTime(j, n)
  \/ CountBatch(j, n)
  \/ Acknowledge(j, n)
  \/ Reject(j, n)
  \/ OnFailed(j, n)

Take(j) == \E w \in Workers : Start(j, w) \/ FailDeferred(j, w)

QueueStep(j) ==
  LockExpires(j) \/ LoseLock(j) \/ StalledCheck(j) \/ Promote(j)

Next ==
  \/ \E j \in Jobs : CreateJob(j) \/ Enqueue(j) \/ Take(j) \/ QueueStep(j)
  \/ \E j \in Jobs, n \in RunIds : RunStep(j, n)
  \/ \E w \in Workers : Crash(w) \/ Restart(w)

Spec == Init /\ [][Next]_vars

(* A live process keeps executing its promises (processCsv settles, every   *)
(* awaited call answers or rejects), Redis keeps expiring locks and         *)
(* promoting delayed jobs.  Fetching a job and the stalled check need a     *)
(* live worker, which may keep going away: strong fairness says that they   *)
(* happen if workers keep coming back.  Nothing forces the API to enqueue,  *)
(* a lock to be lost, or a process to stop or to come back.                *)
Fairness ==
  /\ \A j \in Jobs, n \in RunIds : WF_vars(RunStep(j, n))
  /\ \A j \in Jobs : /\ WF_vars(LockExpires(j))
                     /\ WF_vars(Promote(j))
                     /\ SF_vars(StalledCheck(j))
                     /\ SF_vars(Take(j))

FairSpec == Spec /\ Fairness
-----------------------------------------------------------------------------
(* Properties                                                              *)

Run == [pc : Steps, worker : Workers \cup {NoWorker}, made : 0 .. ApiMaxRetries]

BullJob == [state : BullStates, started : 0 .. MaxRuns, made : 0 .. ApiMaxRetries,
            stalled : 0 .. MaxStalledCount + 1, lock : {0} \cup RunIds]

(* Every variable keeps its type (the history variable, in HeldInv): in     *)
(* particular no more runs are started than the queue's limits on attempts  *)
(* and stalls allow.                                                       *)
TypeOK ==
  /\ jobs \in [Jobs -> JobDoc \cup {NoJob}]
  /\ results \in [Jobs -> {NoResult} \cup RunIds]
  /\ bull \in [Jobs -> BullJob]
  /\ runs \in [Jobs -> [RunIds -> Run]]
  /\ alive \in SUBSET Workers

(* Whoever sees a job as completed, by its status or by its completion      *)
(* date, finds its result: GET /job/:id/result never answers 404 for a      *)
(* completed job, whatever zombie runs, crashes and failed writes did.      *)
ResultBeforeCompleted ==
  \A j \in Jobs :
    jobs[j].status = "completed" \/ jobs[j].completedAt => results[j] # NoResult

(* A job that the queue has completed is completed in the database too,    *)
(* with its date: the acknowledgement comes after the last write of the     *)
(* run, and no other run is there to move the status back.  (Unless a run   *)
(* went on executing after it lost the job's lock.)                        *)
AcknowledgedMeansCompleted ==
  \A j \in Jobs \ lost :
    bull[j].state = "completed" =>
      jobs[j].status = "completed" /\ jobs[j].completedAt

(* Until an executing run loses its lock, no two runs of a job execute at   *)
(* once, whatever crashes, stalls and retries there are.                   *)
NoConcurrentRuns == \A j \in Jobs \ lost : Cardinality(ExecutingRuns(j)) <= 1

(* FAILED is only shown for a job that the queue has given up on: no       *)
(* attempt is left that could still complete it.                           *)
FailedIsFinal ==
  \A j \in Jobs : jobs[j].status = "failed" => bull[j].state = "failed"

(* The attempts shown to the user are bounded: each delivery counts itself  *)
(* at most once, and stalls add at most maxStalledCount deliveries to the   *)
(* QUEUE_MAX_RETRIES attempts.                                             *)
AttemptsBounded ==
  \A j \in Jobs : jobs[j].attempts <= ApiMaxRetries + MaxStalledCount

(* A job that the queue has completed has its result and its completion     *)
(* date, even if locks were lost: a zombie run may move the status of such  *)
(* a job back, but the result stays there to be read.                      *)
AcknowledgedHasResult ==
  \A j \in Jobs :
    bull[j].state = "completed" => results[j] # NoResult /\ jobs[j].completedAt

(* Of all the runs of a job, zombies included, only the one whose report is *)
(* the stored result gets to mark the job completed.                       *)
OnePublisher ==
  \A j \in Jobs, n \in RunIds : runs[j][n].pc \in AfterResult => results[j] = n

(* An outcome that was shown stays: once a job shows FAILED, or the queue   *)
(* has completed it, no step of a late run, handler or retry changes its    *)
(* status or its result.  (Unless a run went on executing after it lost the *)
(* job's lock, or the worker believes in fewer attempts than the queue      *)
(* makes.)                                                                 *)
OutcomeStays ==
  [][\A j \in Jobs \ lost' :
       jobs[j].status = "failed" \/ bull[j].state = "completed" =>
         jobs'[j].status = jobs[j].status /\ results'[j] = results[j]]_vars

(* A job that reached the queue is completed or failed there eventually, if *)
(* workers keep coming back: neither crashes nor lost locks can make the    *)
(* queue retry it for ever or forget it.                                   *)
EventuallySettled ==
  []<>(alive # {}) =>
    \A j \in Jobs :
      bull[j].state = "waiting" ~> bull[j].state \in {"completed", "failed"}

(* The abstract specification, seen through the two collections and the     *)
(* queue.                                                                  *)
Promise == INSTANCE JobPromise WITH
  status <- [j \in Jobs |-> jobs[j].status],
  published <- [j \in Jobs |-> results[j] # NoResult],
  accepted <- [j \in Jobs |-> bull[j].state # "absent"]

(* When only the input or the storage fails, the worker keeps the promise:  *)
(* retries do not show, FAILED excludes a result, both are final, and every *)
(* accepted job gets there.                                                *)
PromiseKept == Promise!Spec

-----------------------------------------------------------------------------
(* The inductive invariant behind the safety properties                    *)

(* The queue's counters: each start is accounted for by the failure or the  *)
(* stall that ended it, or is the current one, which alone may hold the     *)
(* lock.                                                                   *)
Accounted(b) ==
  /\ b.started = b.made + b.stalled + (IF b.state = "active" THEN 1 ELSE 0)
  /\ b.lock # 0 => b.state = "active" /\ b.lock = b.started
  /\ b.state = "absent" => b.started = 0
  /\ b.state \notin {"completed", "failed"} => b.made < ApiMaxRetries
  /\ b.state \in {"active", "delayed", "completed"} => b.stalled <= MaxStalledCount

QueueInv ==
  \A j \in Jobs :
    /\ Accounted(bull[j])
    /\ bull[j].state # "absent" => Exists(jobs[j])

(* Runs are numbered by the starts; a deferred failure starts no run.      *)
RunInv ==
  \A j \in Jobs, n \in RunIds :
    LET r == runs[j][n] IN
    /\ n > bull[j].started => r.pc = "unused"
    /\ r.pc \in Executing => n <= ApiMaxRetries + MaxStalledCount
    /\ r.pc = "onFailed" /\ r.made >= ApiMaxRetries => bull[j].state = "failed"
    /\ r.pc \in {"countBatch", "return"} => jobs[j].completedAt

(* A worker process stands behind every run that is still going on.        *)
OwnerInv ==
  \A j \in Jobs, n \in RunIds :
    runs[j][n].worker = NoWorker <=> runs[j][n].pc \in {"unused", "ended"}

(* The runs that may have counted an attempt.                              *)
Counted(j) ==
  {n \in 1 .. (ApiMaxRetries + MaxStalledCount) :
     runs[j][n].pc \notin BeforeIncrement \cup {"unused"}}

AttemptsInv == \A j \in Jobs : jobs[j].attempts <= Cardinality(Counted(j))

IInv ==
  /\ TypeOK
  /\ QueueInv
  /\ RunInv
  /\ OwnerInv
  /\ OnePublisher
  /\ ResultBeforeCompleted
  /\ AcknowledgedHasResult
  /\ AttemptsInv

(* What holds of a job until one of its executing runs loses the lock, and  *)
(* of its status always, when the worker allows no fewer attempts than the  *)
(* queue.                                                                  *)
Held(j) ==
  /\ j \notin lost =>
       /\ \A n \in RunIds :
            /\ runs[j][n].pc \in Executing => bull[j].lock = n
            /\ runs[j][n].pc \in {"setCompletedAt", "countBatch", "return"} =>
                 jobs[j].status = "completed"
       /\ bull[j].state = "completed" => jobs[j].status = "completed"
  /\ jobs[j].status = "failed" => bull[j].state = "failed"

HeldInv == lost \subseteq Jobs /\ \A j \in Jobs : Held(j)
=============================================================================
