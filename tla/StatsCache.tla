------------------------------ MODULE StatsCache ------------------------------
(***************************************************************************)
(* GET /stats (JobService.getStats) over the Redis key stats:dashboard, which *)
(* confirm deletes (invalidateJobCache) and a worker does not.  CacheService *)
(* swallows every Redis error: a failed get is a miss, a failed setex or del *)
(* changes nothing.                                                        *)
(*                                                                         *)
(* The other fields of the answer, total and successRate, are functions of  *)
(* the counts.                                                             *)
(***************************************************************************)
EXTENDS Integers, FiniteSets, JobRepository

CONSTANTS
  Jobs,         \* the jobs that clients create
  Readers,      \* the dashboards that poll GET /stats
  MaxInFlight,  \* API requests that are handled at the same time
  Faults        \* subset of {"redis"}

ASSUME StatsAssumption ==
  /\ IsFiniteSet(Jobs)
  /\ MaxInFlight \in Nat \ {0}
  /\ Faults \subseteq {"redis"}

VARIABLES
  jobs,      \* [Jobs -> JobDoc \cup {NoJob}], the jobs collection
  confirms,  \* [Jobs -> where the confirm request of the job is]
  cache,     \* the counts under stats:dashboard, or NoStats
  readers,   \* [Readers -> the request of a dashboard, and what it shows]
  crossed    \* whether the last invalidation failed or crossed a fill

vars == <<jobs, confirms, cache, readers, crossed>>

NoStats == [s \in {} |-> 0]

InFlight == {j \in Jobs : confirms[j] = "invalidate"}
            \cup {r \in Readers : readers[r].pc # "idle"}

Init ==
  /\ jobs = [j \in Jobs |-> NoJob]
  /\ confirms = [j \in Jobs |-> "none"]
  /\ cache = NoStats
  /\ readers = [r \in Readers |-> [pc |-> "idle", counts |-> NoStats, shown |-> NoStats]]
  /\ crossed = FALSE

(* A fill has its counts, and will store them.                             *)
Filling == \E r \in Readers : readers[r].pc = "set"

-----------------------------------------------------------------------------
(* A confirm handler, from the document it creates to its answer.          *)
CreateJob(j) ==
  /\ confirms[j] = "none"
  /\ Cardinality(InFlight) < MaxInFlight
  /\ jobs' = [jobs EXCEPT ![j] = NewJob]
  /\ confirms' = [confirms EXCEPT ![j] = "invalidate"]
  /\ UNCHANGED <<cache, readers, crossed>>

(* Mutant: the answer is sent without invalidateJobCache.                   *)
InvalidateNothing(j) ==
  /\ confirms[j] = "invalidate"
  /\ confirms' = [confirms EXCEPT ![j] = "answered"]
  /\ crossed' = (crossed \/ Filling)
  /\ UNCHANGED <<jobs, cache, readers>>

Invalidate(j) ==
  /\ confirms[j] = "invalidate"
  /\ confirms' = [confirms EXCEPT ![j] = "answered"]
  /\ \/ cache' = NoStats /\ crossed' = Filling
     \/ "redis" \in Faults /\ cache' = cache /\ crossed' = TRUE
  /\ UNCHANGED <<jobs, readers>>

(* A worker moves a job on; the job may be taken before confirm answers.    *)
WorkerUpdate(j) ==
  /\ \/ /\ jobs[j].status = "pending"
        /\ jobs' = [jobs EXCEPT ![j] = UpdateStatus(@, "processing", FALSE)]
     \/ /\ jobs[j].status = "processing"
        /\ \/ jobs' = [jobs EXCEPT ![j] = UpdateStatus(@, "completed", FALSE)]
           \/ jobs' = [jobs EXCEPT ![j] = UpdateStatus(@, "failed", TRUE)]
  /\ UNCHANGED <<confirms, cache, readers, crossed>>

-----------------------------------------------------------------------------
(* getStats: a hit is the answer; a miss or an error counts the jobs.       *)
Get(r) ==
  /\ readers[r].pc = "idle"
  /\ Cardinality(InFlight) < MaxInFlight
  /\ \/ /\ cache # NoStats
        /\ readers' = [readers EXCEPT ![r].shown = cache]
     \/ /\ cache = NoStats \/ "redis" \in Faults
        /\ readers' = [readers EXCEPT ![r].pc = "count"]
  /\ UNCHANGED <<jobs, confirms, cache, crossed>>

Count(r) ==
  /\ readers[r].pc = "count"
  /\ readers' = [readers EXCEPT ![r] =
       [pc |-> "set", counts |-> CountByStatus(jobs), shown |-> readers[r].shown]]
  /\ UNCHANGED <<jobs, confirms, cache, crossed>>

Set(r) ==
  /\ readers[r].pc = "set"
  /\ \/ cache' = readers[r].counts
     \/ "redis" \in Faults /\ cache' = cache
  /\ readers' = [readers EXCEPT ![r] =
                   [pc |-> "idle", counts |-> NoStats, shown |-> readers[r].counts]]
  /\ UNCHANGED <<jobs, confirms, crossed>>

(* Mutant: set instead of setex.                                           *)
ExpireNever == FALSE /\ UNCHANGED vars

(* The ten seconds are over.                                               *)
Expire ==
  /\ cache # NoStats
  /\ cache' = NoStats
  /\ crossed' = (crossed /\ Filling)
  /\ UNCHANGED <<jobs, confirms, readers>>

-----------------------------------------------------------------------------
Next ==
  \/ \E j \in Jobs : CreateJob(j) \/ Invalidate(j) \/ WorkerUpdate(j)
  \/ \E r \in Readers : Get(r) \/ Count(r) \/ Set(r)
  \/ Expire

Spec == Init /\ [][Next]_vars

(* An open dashboard polls every 30 s (useStats), a request is carried      *)
(* through, and Redis expires the key.  A request may have to wait for      *)
(* another to be answered, again and again: strong fairness for Get.        *)
FairSpec ==
  /\ Spec
  /\ \A r \in Readers : SF_vars(Get(r)) /\ WF_vars(Count(r) \/ Set(r))
  /\ \A j \in Jobs : WF_vars(Invalidate(j))
  /\ WF_vars(Expire)

-----------------------------------------------------------------------------
(* Properties                                                              *)

Counts == [JobStatus -> 0 .. Cardinality(Jobs)]
Stats == Counts \cup {NoStats}

(* Every variable keeps its type: an answer always has all four statuses.   *)
TypeOK ==
  /\ jobs \in [Jobs -> JobDoc \cup {NoJob}]
  /\ confirms \in [Jobs -> {"none", "invalidate", "answered"}]
  /\ cache \in Stats
  /\ readers \in [Readers -> [pc : {"idle", "count", "set"}, counts : Stats, shown : Stats]]
  /\ crossed \in BOOLEAN

Total(counts) ==
  counts["pending"] + counts["processing"] + counts["completed"] + counts["failed"]

(* Whoever was told that a job was created finds it counted: the cache holds *)
(* no snapshot older than an answered confirm, except after a del that      *)
(* failed, or that came between the count and the setex of a GET /stats; and *)
(* then only until the key expires or is deleted.                          *)
AnsweredJobsAreCounted ==
  cache # NoStats /\ ~crossed =>
    Total(cache) >= Cardinality({j \in Jobs : confirms[j] = "answered"})

(* Every open dashboard ends up with the counts of the database: no race of *)
(* a fill with an invalidation or with a worker, and no Redis error, leaves *)
(* a stale snapshot behind for good.                                       *)
StatsConverge == <>[](\A r \in Readers : readers[r].shown = CountByStatus(jobs))
=============================================================================
