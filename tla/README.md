# A TLA+ model of the file-processing system

The system takes CSV files from a browser, processes each once in the
background, and shows its users what became of it. This directory models the
program's own logic: the confirmation of uploads, the queue and its workers, the
CSV processing, the cached statistics, the list of jobs, and the dashboard's hooks
and forms. TLC checks it
on small instances; TLAPS proves the most important safety properties for
every instance.

Paths like `src/worker.ts` are relative to the repository (the API and the
worker live in its `src/`, the dashboard in `dashboard/src/`).

- [1. The system](#1-the-system): inventory
- [2. The modules](#2-the-modules) and how they correspond to the code
- [3. The runs](#3-the-runs): what is checked, bounds, fairness
- [4. The proofs](#4-the-proofs)
- [5. Where the code and its documents disagree](#5-where-the-code-and-its-documents-disagree)
- [6. Abstractions, and what is not modelled](#6-abstractions-and-what-is-not-modelled)
- [7. Plan](#7-plan)

## 1. The system

Three kinds of processes share four stores.

```
 browser tab ──presign/confirm──▶ API process ──jobs──▶ Redis: BullMQ queue
   │   ▲ ▲                          │     │                    │
   │   │ └── Socket.IO rooms ───────┘     │                    ▼
   │   └──── polling: /jobs /stats /job   │             worker processes
   └─PUT─▶ S3 uploads/unconfirmed/        │                    │
             └─ confirm moves to uploads/confirmed/ ──stream──▶│
                                          ▼                    ▼
                         MongoDB: files, jobs, results (unique jobId)
```

| Component | State | Operations | What makes it correct |
|---|---|---|---|
| Worker (`worker.ts`) | one run per delivery of a job, each at one of its awaits | processor (11 awaits), `failed` handler | a completed job has its result; one run publishes; FAILED only when no attempt is left; no run hangs |
| Queue (`queue.service.ts`, BullMQ) | job states, attempts, stalls, locks | `addJob`, `addBatchJobs`; take, complete, fail, delay, stall check | bounded attempts; each job completes or fails in the end; no two runs at a time while locks hold |
| Job, result and file documents (`repositories/`, `models/`) | one document each; unique index on `Result.jobId` | `create`, `updateStatus`, `incrementAttempts`, `setStartedAt`, `setCompletedAt`, `countByStatus`, `countByBatchId` | each write is atomic on one document; there are no transactions |
| Upload confirmation (`upload.controller.ts`, `storage.service.ts`) | objects in S3, the step of each request | presign, confirm, batch confirm: verify, copy, delete, create, enqueue | no queued job without documents and object; 201 only when queued; no upload lost or processed twice |
| CSV processing (`csv.processor.ts`, `validator.ts`, `duplicateDetector.ts`) | stream states, counters, error samples, digests seen | header, row, end and error events | the report covers the whole file, each row in one count; no duplicate missed; the promise settles |
| Statistics (`job.service.ts`, `cache.service.ts`) | Redis key `stats:dashboard`, 10 s | `getStats`, `invalidateJobCache` | an answered confirm is counted; stale snapshots go away |
| Events (`socket.service.ts`, `useSocket.ts`) | rooms of each socket, emits under way | join, leave, emit | a tab is in the room of its page only |
| Dashboard queries (`useJobDetail.ts`, `useJobs.ts`, `useStats.ts`) | query cache | poll, invalidate | an open page ends up with the truth |
| Dashboard uploads (`useUpload.ts`, `useBatchUpload.ts`) | entries per upload, state of the batch | upload, dismiss, reset | a running upload stays visible; job ids belong to their files |
| Upload zone (`UploadZone.tsx` and its rules form) | rows of the editors, the form, a ref; options closed over by each upload | edit, toggle, choose a file | a file gets the options shown when it was chosen; refusals come before its bytes are sent |
| Job list (`DashboardPage.tsx`, `JobFilters`, `Pagination`, `GET /jobs`) | page and status, one query for each | turn, filter, poll, find, count | the list shown converges; no page beyond those that existed |
| Wiring, rate limits, configuration, rendering | constants | | not modelled (section 6) |

The behaviours that are hard, and where the models have them:

- **Interleaving.** Runs of one job beside each other once a lock is lost
  (`JobProcessing`); two confirms over the same objects (`UploadConfirm`); a
  fill of the cache against its invalidation (`StatsCache`); emits, events and
  answers (`JobEvents`); parallel uploads (`DashboardUpload`).
- **Partial failure.** Every awaited call may reject, *with or without* having
  taken effect; nothing in the code undoes earlier calls.
- **Crashes.** A worker or API process stops between any two awaits.
- **At-least-once delivery.** BullMQ retries failed attempts and hands out
  stalled jobs again.
- **Stale copies.** The rules of the form are kept three times, options are
  closed over by uploads that take minutes, and a page's rows and their count are
  read at different moments (`UploadZone`, `JobList`).
- **Ordering and loss.** HEAD requests answer in any order, Socket.IO emits
  queue while disconnected and are lost with the connection.
- **Boundaries.** The separator of `hashRow`, repeated column names, the cap on
  error samples, the Bloom filter's false positives.

`PROJECT.json` lists every hazard at its line, with the property that would
catch it or the reason why none does.

## 2. The modules

### JobRepository, JobProcessing, JobPromise — the life of a job

`JobRepository` is the job document and the writes to it (`UpdateStatus`,
`IncrementAttempts`, ...), as operators from a document to a document.

`JobProcessing` is `worker.ts` over BullMQ. A *run* is one delivery of the job;
`runs[j][n]` holds the await the n-th run of job `j` is at, its worker, and the
attempts that the `failed` event carries. Each `await` of the processor is one
action (`SetProcessing`, `SetStarted`, `CountAttempt`, `FindFileAndJob`,
`GetStream`, `ProcessCsv`, `CreateResult`, `SetCompleted`, `SetCompletedTime`,
`CountBatch`), the two outcomes of the processor are `Acknowledge` and `Reject`,
the handler of `failed` is `OnFailed`. BullMQ is external: `bull[j]` keeps its
state, `attemptsStarted`, `attemptsMade`, `stalledCounter` and lock; its actions
are `Start`, `FailDeferred`, `LockExpires`, `LoseLock`, `StalledCheck` and
`Promote`. `Crash` and `Restart` are the processes'. `Faults` says what may go
wrong, so that one module serves for the strong properties under few faults and
the weaker ones under all.

A run whose lock was lost goes on (BullMQ does not stop the promise of the
processor), so its writes interleave with those of the run that replaced it. A
history variable, `lost`, remembers the jobs to which this happened: the strong
properties are about the others, under the same faults and beside them.

`JobPromise` is the abstract specification: what a client of the API may rely on,
with no worker, queue or attempt in sight. `JobProcessing!PromiseKept` states
that the queue implements it, with the mapping *status ← jobs[j].status,
published ← a result exists, accepted ← the queue has the job*.

### UploadConfirm, ConfirmPromise — from an uploaded object to a queued job

One record per request: the await it is at, its body, the batchId it names, the files
whose HEAD has been answered, the index of the loop, the response. A batch is whatever
names it (`Naming`, `JobsIn`): `batchPresign` makes up a batchId but keeps no record of
it, and both handlers take the one in the client's body, a single confirm with or without
one. `confirm` is the case of a
body with one file: the two handlers make the same calls in the same order.
`Verify` is `verifyObject` (all HEADs of a batch in flight at once, each with its
three ways to reject), `Copy` and `Delete` are `moveToConfirmed`, then
`CreateFile`, `CreateJob` (with the step to the next file), `Enqueue` (`addBulk`
adds a batch in one transaction), `Respond`. `Answer` is asyncHandler with the
error middleware. The clients `Put`, the lifecycle rule of
`infra/s3-lifecycle.json` is `Expire`, `Lose` is a stopped API process. Two
history variables, `uploaded` and `disturbed`, remember the keys that have an
upload, and those that were put again or named by two requests at a time.

`ConfirmPromise` is what a client may rely on, with no object, document or await in
sight: a request is refused before it has left a trace or not at all, its files are
queued together, it is accepted only then, and after a failure anything may be the
case. `UploadConfirm!ConfirmKept` states the refinement, with the mapping *answer ←
the response (400 and 404 refuse, 500 fails), touched ← a confirmed object of the
request exists, handed ← none, some or all of its files are queued*. "Some" is a value
that the abstract specification never takes.

### CsvProcessor, CsvReport — one file through the stream

The events of the S3 stream and of csv-parser are the actions: `OnHeaders`, `OnData` (with
the early returns of the handler as disjuncts), `SourceEnds`, `OnEnd`, `OnParserError`,
`OnSourceError`. `Rejected` is `validateRow` with its early returns, over the row object
as csv-parser builds it (`Row`: keyed by column name, the last cell of a repeated name
wins); `hashRow` joins the values of the row with the separator, character by character;
`Add` is a set for the hash detector, and for the Bloom filter may make *any* other digest
present as well. Which cells a type or a pattern accepts are constants.

`CsvReport` is what the worker may rely on, with no stream, handler or detector in
sight: the promise is rejected, or resolved once with a report that `Describes` the
whole file. `CsvProcessor!ReportKept` states the refinement, with the mapping *rows ←
the row of each line, rejected ← those the validator rejects, exact ← the hash detector
on values without the separator, report ← the counters, once resolved*. This is what
`JobProcessing` takes for granted when it makes `processCsv` one action; that the
documents and the object behind it do not change meanwhile is
`UploadConfirm!QueuedJobsStay`.

### StatsCache — GET /stats and its cache

`getStats` is `Get`, `Count`, `Set`; `Invalidate` is the one call by `confirm`;
worker updates do not invalidate, and `Expire` is the key's ten seconds. A
history variable, `crossed`, remembers whether the last invalidation failed or
fell between a `Count` and its `Set`: exactly then a stale snapshot may stay.

### DashboardRooms, JobEvents — what a tab is told

`DashboardRooms` is the socket of one tab: `Open` is the clean-up of the old
`useSocket` effect followed by the new effect, emits wait in `outbox`, the server
handles them one at a time, `Disconnect` loses what is under way and all rooms.
`JobEvents` extends it with the emits of `SocketService` (which do nothing in a
process that never called `initialize`), the events' handlers, and one query per
page with polling, invalidation, failure, and an answer that may be older than
the event that asked for it. TanStack Query drops a request under way for an
invalidation only when the query has data: until then an event joins the first request
(`Joins`). A query that no page observes loses its data after a while (`Forget`), so that
a page may load for the first time again.

### DashboardUpload, DashboardBatch, DashboardUploads — the upload hooks

`DashboardUpload` is `useUpload`: parallel uploads over one record of entries,
dismissed one by one or all at once, or unmounted. `DashboardBatch` is
`useBatchUpload`: one presign, parallel PUTs with `allSettled`, one confirm of
those that succeeded (`ConfirmIdx` is the place of a file among them), the job ids mapped
back by position (`JobOf`), and `reset`.
`DashboardUploads` runs both side by side on one page.

### RulesForm, UploadZone — the options of an upload

`RulesForm` is the validation-rules form: each handler of the three editors is an
action that changes its rows and, through `Emit`, the form's state and the ref of
`UploadZone`. `Toggle` unmounts the editors with their rows, or mounts them with
rows made from the form (`RowsOf`). `TypeRecord` and `PatternRecord` are
the loops of the two `updateAndEmit`: names trimmed, blank ones left out, the last
of several rows with one name wins. What trimming and `RegExp` do to a text are
constants.

`UploadZone` extends it with the way of a file's options: `ChooseFiles` takes
priority and rules as they are, `Presign`, `Put` and `Confirm` are the requests of
`useUpload` with what the sanitizer, the two schemas and the map of the job
document do to them: an upload whose input is not accepted is `refused`. Whatever was
chosen, it may end as `failed`: at either request by the rate limit (`TurnAway`), and at
the copy for a file name that a `CopySource` cannot take as it is. The other failures of
these calls are in `DashboardUpload` and `UploadConfirm`.

### JobList — the list of jobs, its filter and its pages

Jobs are created, some of them in one millisecond, and advance. A query of
TanStack Query (external) for each page and status has at most one request under
way, whose `Find` and `Count` read the collection at different moments, as
`JobRepository.list` does. The page observes one query, polls, invalidates (which
drops a request under way, unless it is the first of its query), and
turns to others with `SelectStatus`, `Previous` and `NextPage`, whose guards read the
*answer*, not the collection. Answers arrive for queries that are no longer
observed, and are kept.

Operators marked *Mutant* sit before the definition they distort: a plausible
slip in that code, which some property must notice.

## 3. The runs

A component declares its constants and their assumption in one place; an `MC` module
names the small sets that the `.cfg` files give to them. To repeat a run:
`tlc -config <run>.cfg <MC module>.tla` (`PROJECT.json` lists the module of each);
every run takes a few seconds to about two and a half minutes.

| Run | Shows | Instance | Distinct states |
|---|---|---|---|
| `job_all_faults` | `IInv` and the safety properties of the queue under *all* faults; no overlapping runs and completion on acknowledgement while no lock is lost; an outcome that was shown stays; the queue settles every job | 1 batch job, 2 workers, 2 attempts, 1 stall: up to 4 starts of one job | 209 k |
| `job_input_faults` | `PromiseKept`: the refinement of `JobPromise`, with its liveness | 2 jobs (one in a batch), 1 worker with 2 slots, failing input | 2.4 k |
| `confirm_all_faults` | `UInv`, safety and `ConfirmKept`, the refinement of `ConfirmPromise`, under all faults, with overlapping and repeated requests and objects that are overwritten or expire | 2 requests in flight, 2 keys, 2 sizes (the declared one and one too large), a single file with and without a batchId, both orders of two, one key named twice; batches that one or both requests name | 1.19 M |
| `confirm_orphans` | *violation:* an orphan under `uploads/confirmed/` | 2 requests, one after another | (stops) |
| `csv_rows` | `CsvInv` and `ReportKept`, the refinement of `CsvReport`, for both detectors; the promise settles | every file of up to 3 of 8 lines, or 4 of 3, with rules; either stream may fail | 59 k |
| `csv_repeated_header` | *violation:* rows are rejected for a number of cells they do not have | header `name,name`, no rules | (stops) |
| `stats_cache` | an answered confirm is counted, dashboards converge | 2 jobs, 2 dashboards, 2 requests in flight, Redis errors | 631 k |
| `job_events` | rooms follow the page, a job announced to a loaded overview is shown, pages converge | 1 job, 2 pages, 4 emits under way, lost connections and requests | 173 k |
| `events_completion` | *violation:* no completion is ever broadcast | 1 job, no faults | (stops) |
| `dashboard_uploads` | running uploads stay visible, job ids match files, everything returns | 2 uploads beside a batch of 3 files, failing PUTs and requests | 190 k |
| `upload_zone` | the options shown are sent and reach the job; the schemas refuse after the upload for one cause only | 1 upload; names blank, plain, with `$`, with a dot; patterns that compile, do not, or only untrimmed; 2 rules at a time; files that are empty, too large, no CSV; requests turned away, copies that fail | 2.67 M |
| `job_list` | no page beyond those that existed; the list converges | 2 jobs of 2 statuses, one on a page; 2 queries in use; refused reads | 456 k |

**Why the bounds are enough.** The jobs of `JobProcessing` share only the workers' slots,
so one job with two workers has every interleaving of its own runs, a zombie beside its
successor included; with `QUEUE_MAX_RETRIES = 2` and `maxStalledCount = 1` a job sees a
first attempt, a retry, a stall and a deferred failure, the four ways a run starts. Two
jobs in `job_input_faults` show that the refinement does not depend on having one. In
`UploadConfirm` two requests over two shared keys have every race of verify, copy and
delete; batches in both orders overlap first with last and last with first, and each has
one that fails after the other. A size that is declared is at most `MaxFileSize` (the
schema sees to that), so an object that is too large is a mismatch as well: a third size
adds no behaviour. In `CsvProcessor` three lines repeat a row around a rejected one, and
four reach one past the cap of two samples. In `JobEvents` a navigation is a leave
and a join, so that four emits under way (`MaxOutbox`) are two navigations that overtake
the server: leave A, join B, leave B, join A. A batch of three files has a failed file
before, between and after others, which is what the positions of the job ids depend on. In
`UploadZone` two rules at a time (`MaxRules`) have two rows of one name, a row beside a
required field, and each order in which the form remounts them; one upload is enough,
since uploads share nothing but the form. In `JobList` two jobs with one on a page have a
second page that appears, empties and changes its order; two queries in use (`MaxQueries`)
are the one observed and one left behind. What is proved (section 4) holds without any
bound.

`CHECK_DEADLOCK FALSE` is set only where the system comes to rest: a file that
is processed, all jobs done with no worker that may crash, requests that are all
answered, dashboards that poll no more than the statistics change. (The queue under
all faults, the upload zone and the job list never come to rest: workers restart,
forms are edited, pages poll.)

**Fairness.** Every liveness property states what it needs:

- *A live process goes on.* Weak fairness of the steps of a run, a request
  handler, a request of the dashboard: a Node process executes the
  continuations of settled promises, and every driver answers or rejects. For
  `processCsv` this is the S3 stream's promise: `config/s3.ts` sets no timeout,
  and a stream that stalls without an error keeps its run for ever.
- *Redis keeps time.* Weak fairness of `LockExpires`, `Promote` and `Expire`.
- *Workers come back.* `StalledCheck` and `Take` need a live worker, which may keep
  going away: strong fairness, and `EventuallySettled` is conditional on
  `[]<>(alive # {})`. No code restarts a process (`docker-compose.yml` has no
  restart policy), so nothing is assumed of `Restart`.
- *A request gets its turn.* Strong fairness of `StatsCache!Get` (requests may
  have to wait for one another) and of `Serve` and `Receive` in `JobEvents`
  (requests that fail are made again).
- *A page polls.* Weak fairness of `JobList!Poll`, `Find`, `Count` and `Receive`.
  `ListConverges` has the rest as its hypothesis (`Resting`): once the jobs, the user,
  the invalidations and the refusals rest. Polling goes on: a failure is told from an
  answer that brings what was there already (`Failing`), which `Resting` allows for ever.
- Nothing is assumed of clients, sockets, faults, `CreateJob` or `Enqueue`.

**The properties**, by what they relate:

- *Queue against database.* `AcknowledgedMeansCompleted` (a job whose lock no live
  worker lost), `FailedIsFinal`: a user is not shown FAILED
  while an attempt is left. `OutcomeStays`: what was shown as the outcome does not
  change, nor does a failed job get a result. `FailedIsFinal` depends on the API and the
  worker reading the same `QUEUE_MAX_RETRIES`, each from its own environment.
- *Run against run.* `OnePublisher`: the unique index of `Result.jobId` makes
  `createResult` the point where one of several runs is chosen;
  `NoConcurrentRuns` is what locks add.
- *Counters.* `AttemptsBounded`: attempts shown may exceed the maximum by the
  stalls, and by no more.
- *Request against stores.* `QueuedJobsAreBacked` and `UploadsAreKept` hold under
  every fault and overlap. `BatchTotalIsFinal` holds under them for a batch that one
  request has named; a batch confirm that is repeated, or any other confirm that
  names the batchId, adds jobs to a batch that may be running already.
  `RecordedSizeIsActual` and `OneJobPerUpload` hold for every key whose
  presigned URL is used once and whose confirm is not repeated while it is still
  handled, whatever happens to other keys; both conditions are necessary (two
  overlapping confirms of one key do create two jobs).
- *Client against stores.* `ConfirmKept`: a client that was refused may correct its
  request and repeat it. The order of the calls in the handlers matters: a 404 that
  comes from the copy of a second file would break it.
- *Report against file.* `ReportKept`, and of the counters at any time
  `SamplesAreFirstErrors`, `DuplicatesExact`, `NoDuplicateMissed`.
- *Screen against server.* `AnsweredJobsAreCounted`, `StatsConverge`,
  `RoomsFollowPage`, `ToldIsShown`, `PageConverges`, `RunningIsShown`, `DoneHasJob`,
  `JobIdsMatchFiles`, `OnlyUploadsAreConfirmed`, `PageExisted`, `ListConverges`.
  `ToldIsShown` is about an overview that has loaded: an event that joins its first
  request is answered by what may be an older state, until the next poll.
- *Form against job.* `ShownIsSent`, `JobAsShown`, and `LateRefusals`: what the schemas of
  presign accept, those of confirm and of the job accept, but for the names of the Map.

## 4. The proofs

Each of the eight proof modules extends its component and proves, for every value of
the constants that meets the named assumption, that an inductive invariant holds;
the properties are then parts or consequences of it. TLC checks three of the
invariants itself, in `job_all_faults`, `confirm_all_faults` and `csv_rows`; the
others were found with TLC and are checked by their proofs.

**`JobProcessingProofs`** (assumption: `ConstantsAssumption`; any set of jobs and
workers, any limits, any faults). The safety properties are not inductive:
they speak of the documents, and whether a document may be written depends on which
runs can still execute. `IInv` adds:

- `QueueInv`: every start of a job is accounted for by a failed attempt, a stall,
  or the current run (`started = made + stalled + 1` if active), and only the
  current run can hold the lock. This bounds the number of runs, which is what
  makes `TypeOK` (and with it `RunIds`) inductive.
- `RunInv`: runs beyond `started` are unused; a `failed` event that carries the
  maximum comes after the queue has given up; a run past `setCompletedAt` has
  written the date.
- `OwnerInv`: a worker stands behind every run that goes on, so that a crash ends
  exactly its own.
- `AttemptsInv`: the attempts of the document are at most the number of runs
  that have passed `incrementAttempts`: the counter is related to a set, and
  `AttemptsBounded` follows from the size of the set of possible runs.

Theorems: `Invariance`, `TypeCorrect`, `CompletedJobsHaveResults`,
`SinglePublisher`, `AcknowledgedJobsHaveResults`, `AttemptsAreBounded`.

A second invariant, `HeldInv`, rests on the first and says what the lock gives: of a job
whose lock no live worker lost, only the run that holds it executes, and COMPLETED stands
from the write until the acknowledgement and after it. From it, if the API allows no more
retries than the worker believes (`ApiMaxRetries <= WorkerMaxRetries`, the environments of
two processes): `RunsDoNotOverlap`, `AcknowledgedJobsAreCompleted` and
`FailedJobsAreFinal`, the last for all jobs, also those whose lock was lost. The action
property follows: nobody executes a job whose outcome was shown, and the one step that is
left, the `failed` handler, writes what is there (`OutcomesStay`).

`JobsKeepTheirPromise` is the safety part of the refinement of `JobPromise`, for faults
of the input only (`OnlyInputFails`). `QInv` adds to the two invariants that nothing
stalls and that a run which has stored its result gets to the end; each action is then
one of seven changes (`Promised`) of the three abstract values, each a step of
`JobPromise` or none.

**`UploadConfirmProofs`** (assumption: `UploadAssumption`; any requests, bodies,
sizes, faults and overlap). `UInv` says what a handler has stored by the step it
is at: the files before the current one are `Backed`, the current one as far as
it has come, and nothing of the request is queued before everything is
backed. The argument that two handlers do not disturb each other is that their
items are disjoint: every job has a fresh id. Theorems: `Invariance`,
`QueuedJobsBacked`, `SuccessQueued`.

Handlers do meet at the keys. `KeepInv` follows each object of an undisturbed key
from its HEAD on: it has the size that was checked, in whichever place it is
(`FileInv`), and whoever is about to delete it, or has, is the only one (`Alone`).
Theorems: `UploadsKept` (for all keys), `RecordedSizesActual`, `OneJobForEachUpload`.

`ConfirmsKeepTheirPromise` is the whole of `ConfirmKept`: until its files are checked a
request has left no trace, and nothing of it is queued before the one call that queues
it all (`FreshInv`). It needs no condition on faults or overlap. From the same invariant
`QueuedJobsStayBacked`: a handler writes only where nothing is queued yet. And
`BatchTotalFinal`: a handler that creates a job has nothing in the queue, so that in a
batch with a queued job it is another request's, which then names the batch as well.

**`CsvProcessorProofs`** (assumption: `CsvAssumption`; any file, header, rules,
threshold and faults). `RowsInv` ties the counters to the position in the file and the
promise to the two streams; `DetectorInv` says that the digests of the rows so far
are present, and that the hash detector has nothing else. The steps count a
set that grows with the position, so lemmas about the size of an image come first.
Theorems: `Invariance`, `NoRepetitionCounted`, `SamplesOfFirstErrors` (with an invariant
of its own: below the cap the sample has every error so far, at the cap the earliest),
and `HashCountsDigests`: the hash detector counts exactly one row per digest.

That the digests tell the rows apart (`HashDetectorExact`) is a fact about joining, for
rows of any length. It needs induction, which is drawn from the well-foundedness of the
natural numbers without an operator as parameter: a set of numbers with 0 and with the
successor of each member is all of `Nat` (`Numbers`). With it, functions given step by
step exist (`StepsExist`), so that `Joined` has the values its definition says. Of two
joined texts that are equal the last separators are at one place (`LastSeparator`);
hence two valid rows without separators have equal digests exactly if they are equal
(`DigestsTellRows`), also with repeated column names, where lines of different lengths
may make the same row (`NothingMore`).

`ReportsAreKept` is the refinement of `CsvReport`. Every rejected row is counted
(`CountInv`); nothing but the end of the parser resolves the promise and nothing changes
the counts after it (`PromiseMoves`); at that moment every line has been read, so that
the invariants about the rows so far are about the file (`LastRow`).

**`StatsCacheProofs`** (assumption: `StatsAssumption`; any jobs and readers). `SInv`:
unless the last invalidation failed or was crossed, neither the cache nor a fill under
way counts fewer jobs than have been answered. The counts of four statuses cover the
collection (`CountsCover`). Theorems: `Invariance`, `AnsweredCounted`.

**`JobEventsProofs`** (any jobs, any bound on the emits under way). `EmitsInv` reads the
outbox as a chain: a room is left right after it was joined, and the rooms on the server
are what the first emit expects. `ToldInv` says that an event is never older than its
job, and that the overview's answer has every job it was told of, unless a request that
was sent since is still under way. It rests on what an event does to a query with data
only; an event that joins a first request tells the overview nothing. Theorems: `Invariance`, `RoomsFollow`,
`ToldShown`, and `TypeCorrect`, by an invariant of its own (`TypeInv`: what a server
answers is a snapshot of the jobs there are, for the pages that ask).

**`UploadZoneProofs`** (any texts, rules, files). `FormInv`: the ref is the form's state;
while the panel is open the rows make that state; and a record turned into rows and back
is the record again, which is why closing and opening the panel loses nothing. Each
upload carries what was shown, and one that has got to its PUT has a size that both
schemas accept (`UploadInv`). Theorems: `Invariance`, `FormIsShown`,
`JobsAsShown`, `RefusedEarly`.

**`JobListProofs`** (any jobs, statuses and page size). `LInv`: no answer counts more jobs
than have matched its filter at one time, the number of pages grows with the count, and
a page is turned only to what an answer promised. Theorems: `Invariance`,
`PageNumberExisted`.

**`DashboardUploadProofs`** (assumption: `DashboardUploadAssumption`; any number of uploads,
any faults, and a batch beside them). `DInv` adds to the two properties that a call
that waits for its answer has its job on the server. `PageStep` says that a step of the
page is a step of the single uploads or leaves them alone, so that the theorems
are about the composition. Theorems: `Invariance`, `RunningUploadsAreShown`,
`DoneUploadsHaveJobs`.

Of the batch (`BatchAssumption`: its number of files is a natural number), `BInv` says
which files a call has marked, and that the answer lists exactly the files whose PUT
resolved (`PutsInv`, `FilesInv`). The place of a file among them is the number of such
files up to it: it grows by one at each of them, so that every place is filled and by
one file (`PlacesGrow`, `PlacesDiffer`, `PlacesFill`, `FilesToConfirm`). Theorems:
`BatchInvariance`, `JobIdsOfFiles`, `UploadsConfirmed`.

**Only model-checked.** Everything temporal beyond safety (`EventuallySettled`,
the liveness in `PromiseKept`, `PromiseSettles`, `StatsConverge`, `PageConverges`,
`UploadsReturn`, `BatchReturns`, `ListConverges`): liveness under fairness is outside what
the proof system handles. Every invariant and every action property of the runs is a
theorem.

## 5. Where the code and its documents disagree

Three runs end in a violation, each of a statement the repository makes:

1. **Completions are not broadcast** (`events_completion`). `README.md:121`
   says that the worker's events reach the clients through
   `@socket.io/redis-emitter`. `worker.ts` calls
   `socketService.emitJobCompleted`, but only `server.ts:54` ever calls
   `initialize`: in the worker process `io` is null and nothing is emitted. Pages
   learn of completions by polling, which `PageConverges` shows to be enough in
   the end.
2. **Orphans may be confirmed** (`confirm_orphans`). `README.md:219` leaves
   orphans to the lifecycle rule on unconfirmed uploads; a confirm that
   fails after the copy leaves its object under `uploads/confirmed/`.
3. **A repeated column name rejects every row** (`csv_repeated_header`).
   `validateRow` counts the keys of the row object, and reports a column count
   that the row does not have.

Other things that the models brought to light, and that the properties are
stated around:

- `README.md:138` calls the hash detector exact; `hashRow` joins cells with `|`
  and does not escape it, so rows like `a|b,c` and `a,b|c` are duplicates.
  `DuplicatesExact` is stated, and proved, for files whose values have no separator,
  `HashCountsDigests` for all files.
- `README.md:140` says that worker updates invalidate the statistics; only
  confirm does. Until the key expires the counts may be old (`StatsConverge`).
- A worker that stops after `resultRepo.create` and before COMPLETED makes every
  retry fail on the unique index: the job ends FAILED with its result in the
  database. After COMPLETED, a rejected `countByBatchId` has the same effect.
- A job whose stalls exceed `maxStalledCount` is failed by BullMQ with fewer
  attempts than `QUEUE_MAX_RETRIES`: the handler skips the update, and the document
  says PROCESSING for ever. `EventuallySettled` is therefore about the queue.
- `OnFailed`'s update is awaited in a handler that nobody awaits: when it
  rejects, the process ends.
- Nothing joins a room again after a reconnection (`RoomsFollowPage`).
- `useBatchUpload` may be reset, or called again, under way; its updates then
  apply by index to other files. No component calls the hook yet.
- `dashboard/src/components/upload/UploadZone.tsx:161` says that the rules apply to all
  uploaded files. Rules for a column whose name starts with `$` do not: the sanitizer
  deletes them from the body and nothing is reported (`JobAsShown` is up to them).
- A rule for a column with a dot in its name, or one named `constructor` or `prototype`,
  is refused by the Map of the job schema
  alone, with a 500, after the bytes were sent and the object was moved (`LateRefusals`
  says that this is the one thing the schemas refuse so late).
- `storage.service.ts:70` makes the `CopySource` of the key as it is, with the file's name
  in it. S3 decodes a CopySource: for a name with a `%`, or one that no HTTP header takes,
  presign, the PUT and the HEAD succeed, and every confirm fails at the copy.
- `batchPresign` hands out a batchId, and `confirm` and `batchConfirm` take any
  (`upload.controller.ts:66` and `:139`). A batch confirm that is repeated, or a single
  confirm with the batchId of another request, extends a batch whose jobs are processed
  already: the totals of `countByBatchId` change under it.
- An event that arrives while the overview, or a new filter or page, loads for the
  first time joins the request under way, whose answer may be older: the job it announces
  is shown after the next poll only.
- The zone accepts an empty file; presign refuses it, with a 500, since
  the error middleware knows no Zod errors. In a confirm the same holds for any body that
  does not parse.
- A pattern that ends in an escaped space is tested as typed and stored trimmed: the
  stored text ends in a backslash and may not compile (`SamePatterns`).
- A page of the list beyond the first that empties says "No jobs yet", without the
  Pagination; only another status leads back. `createdAt` has no tiebreak, so that a job
  may be on two pages or on none.
- presign and confirm share ten requests a minute and address, against the 10,000
  concurrent uploads of `README.md:136`: of six files chosen at once the last confirms are
  refused after their upload.

## 6. Abstractions, and what is not modelled

- *MongoDB.* One `findByIdAndUpdate` is atomic; a call that rejects may have been
  applied or not. `findFile` and `findJob` of the processor are one action:
  both read documents that never change identity or go away.
- *BullMQ.* Modelled from how the code uses it. Priorities and the rate limiter
  restrict the order and the pace of `Start` and are left out (more behaviours,
  none lost). The early return of `failed` without a job is unreachable
  in the model: it happens only if the job's data was removed from Redis.
- *Data.* A document keeps what the properties tell apart: dates and error texts
  are whether they are set. SHA-256 is injective. The reasons of rejections, the
  summary's timings, progress in percent and log lines are left out.
- *JobEvents, StatsCache.* A job's status only advances; retries are the business of
  `JobProcessing`. The tab is visible (TanStack Query polls only then). The batch
  room has no subscriber in the dashboard.
- *Ids and keys.* Every job has a fresh uuid, and with it its confirmed key. A batchId is
  what the client names, and may be shared. The schemas take any text for an `s3Key`;
  `UploadConfirm` assumes that clients name keys which presign handed out, any of them, as
  often as they like. What is proved of it is proved under this assumption.
- *The list.* A query of the page has a status and a page; `batchId` and `priority` have
  no control in the dashboard. `longest`, a history variable, remembers the most jobs
  that have matched each filter at a time.
- *The form.* A text is a member of a small set; what trimming and `RegExp` do to it
  are constants.

Not modelled:

- The counters of the rate limits: a refusal may come at any time (a failed request in
  `DashboardUpload`, `JobEvents` and `JobList`, `TurnAway` in `UploadZone`), also where the
  count would not allow it.
- presign stores nothing; it is modelled by what it refuses (`UploadZone!Presign`).
- Operations without a caller: `createMany`, `updateProgress`, `deleteObject`,
  `deletePattern`, the cache middleware; overlapping calls of `useBatchUpload`, which no
  component uses.
- The pattern check of the form and that of the worker differ for texts like `/a/gg`,
  with flags that `RegExp` refuses: the form tests the whole text, the worker parses
  the flags. The models have one predicate, `Compiling`.
- Start-up, configuration and logging: what the models need of them are constants.
- Components that render, among them the Header with its copy of the connection's state
  (a flag that follows two events of the socket).

## 7. Plan

The order is that of importance. Done:

1. `JobRepository`, `JobProcessing`, `JobPromise`, with the first theorems.
2. `UploadConfirm` and its proofs.
3. `CsvProcessor` and its proofs.
4. `StatsCache`, `DashboardRooms`, `JobEvents` and the dashboard's uploads, and their
   proofs.
5. `RulesForm` and `UploadZone`; `JobList` with `GET /jobs`; both with proofs.
6. `ConfirmPromise`, refined by `UploadConfirm`, and the proof of the refinement; the proof
   of the safety part of `PromiseKept`.
7. `HeldInv`, and from it `FailedIsFinal`, `NoConcurrentRuns` and
   `AcknowledgedMeansCompleted`; `KeepInv`, and from it `UploadsAreKept`,
   `RecordedSizeIsActual` and `OneJobPerUpload`; `SamplesAreFirstErrors`.
8. The invariants that were only model-checked (`DuplicatesExact`, `JobIdsMatchFiles`,
   `OnlyUploadsAreConfirmed`, `JobEvents!TypeOK`); `CsvReport`, refined by `CsvProcessor`;
   the action properties `OutcomeStays` and `QueuedJobsStay`.
9. The batchId as the client's, the first request of a query, the rate limit and the
   failing copy of an upload: `BatchTotalIsFinal`, `ToldIsShown`, `LateRefusals` and
   `ListConverges` restated around them.

Next, extending the model:

10. Compose `StatsCache` with `JobEvents`: the overview shows an announced job
   only if the cache lets it through; today each is checked against the
   other's promise.
11. The hand-over from `ConfirmPromise` to `JobPromise` (`HandOver` is `Accept` of each of
   its jobs) as a composition of the two abstract specifications.
12. Two jobs in `JobEvents`, with navigation between two job pages.
13. Overlapping batches, once a component uses `useBatchUpload`.

Then proving more:

14. Action properties of the dashboard: an upload shown as done stays until it is
    dismissed; a page that a job's answer reached never shows an older status.
