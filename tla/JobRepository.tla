---------------------------- MODULE JobRepository ----------------------------
(***************************************************************************)
(* The job document of src/models/Job.ts and the writes that               *)
(* src/repositories/mongo/job.repository.ts makes to it.  Each write is one *)
(* findByIdAndUpdate: MongoDB applies it to one document atomically, and    *)
(* applies nothing when there is no such document.  The two dates are       *)
(* modelled by whether they are set, the error text by whether it is.       *)
(***************************************************************************)
EXTENDS Naturals, FiniteSets

JobStatus == {"pending", "processing", "completed", "failed"}

JobDoc == [status : JobStatus, attempts : Nat, error : BOOLEAN,
           startedAt : BOOLEAN, completedAt : BOOLEAN]

(* What findById finds when nothing was inserted under the id.             *)
NoJob == [status |-> "none", attempts |-> 0, error |-> FALSE,
          startedAt |-> FALSE, completedAt |-> FALSE]

Exists(doc) == doc.status # "none"

(* JobModel.create: the schema's defaults.                                 *)
NewJob == [status |-> "pending", attempts |-> 0, error |-> FALSE,
           startedAt |-> FALSE, completedAt |-> FALSE]

(* The default of the third parameter is null: a call without it clears the *)
(* error of an earlier attempt.                                            *)
UpdateStatus(doc, status, error) ==
  IF Exists(doc) THEN [doc EXCEPT !.status = status, !.error = error] ELSE doc

(* Mutant: an attempt counts twice.                                        *)
IncrementTwice(doc) ==
  IF Exists(doc) THEN [doc EXCEPT !.attempts = @ + 2] ELSE doc

IncrementAttempts(doc) ==
  IF Exists(doc) THEN [doc EXCEPT !.attempts = @ + 1] ELSE doc

SetStartedAt(doc) ==
  IF Exists(doc) THEN [doc EXCEPT !.startedAt = TRUE] ELSE doc

SetCompletedAt(doc) ==
  IF Exists(doc) THEN [doc EXCEPT !.completedAt = TRUE] ELSE doc

(* countByStatus: the aggregate over the whole collection, zero for a      *)
(* status no document has.                                                 *)
CountByStatus(docs) ==
  [s \in JobStatus |-> Cardinality({j \in DOMAIN docs : docs[j].status = s})]
=============================================================================
