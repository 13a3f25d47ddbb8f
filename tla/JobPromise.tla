------------------------------ MODULE JobPromise ------------------------------
(***************************************************************************)
(* What a client of the API may rely on about a job, with no worker, queue  *)
(* or attempt in sight: the four statuses of src/types/enums.ts, the result *)
(* that GET /job/:id/result serves, and whether the job was accepted for    *)
(* processing.  A job moves pending -> processing -> completed or failed;   *)
(* its result appears before it completes; a failed job has no result; a    *)
(* final status is never left; an accepted job reaches one.                *)
(***************************************************************************)
CONSTANT Jobs

VARIABLES status, published, accepted

vars == <<status, published, accepted>>

Init ==
  /\ status = [j \in Jobs |-> "none"]
  /\ published = [j \in Jobs |-> FALSE]
  /\ accepted = [j \in Jobs |-> FALSE]

Move(j, from, to) ==
  /\ status[j] = from
  /\ status' = [status EXCEPT ![j] = to]
  /\ UNCHANGED <<published, accepted>>

Create(j) == Move(j, "none", "pending")

Accept(j) ==
  /\ status[j] = "pending"
  /\ ~accepted[j]
  /\ accepted' = [accepted EXCEPT ![j] = TRUE]
  /\ UNCHANGED <<status, published>>

Begin(j) == accepted[j] /\ Move(j, "pending", "processing")

Publish(j) ==
  /\ status[j] = "processing"
  /\ ~published[j]
  /\ published' = [published EXCEPT ![j] = TRUE]
  /\ UNCHANGED <<status, accepted>>

Complete(j) == published[j] /\ Move(j, "processing", "completed")

Fail(j) == ~published[j] /\ Move(j, "processing", "failed")

Work(j) == Begin(j) \/ Publish(j) \/ Complete(j) \/ Fail(j)

Next == \E j \in Jobs : Create(j) \/ Accept(j) \/ Work(j)

Safety == Init /\ [][Next]_vars

Spec == Safety /\ \A j \in Jobs : WF_vars(Work(j))
=============================================================================
