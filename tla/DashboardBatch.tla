---------------------------- MODULE DashboardBatch ----------------------------
(***************************************************************************)
(* A batch upload (dashboard/src/hooks/useBatchUpload.ts): one presign for   *)
(* all files, the PUTs in parallel, one confirm for those that succeeded,   *)
(* and the job ids of the answer mapped back to the files by position.      *)
(* `reset` may clear the state at any time; the call goes on without it.    *)
(*                                                                         *)
(* No component calls the hook yet; one call of `upload` at a time.  The    *)
(* server is the promise of UploadConfirm: confirm creates one job for each *)
(* file it is given and answers with them in that order.                   *)
(***************************************************************************)
EXTENDS Integers, Sequences, FiniteSets

CONSTANTS
  NumFiles,  \* files in the batch
  Faults     \* subset of {"http", "put"}

VARIABLES
  pc,      \* the await the call is at
  status,  \* the state's status
  files,   \* the state's files, none after a reset
  puts,    \* [Indices -> how the PUT ended]
  answer,  \* the files whose jobs the server has created, in order
  isReset  \* whether reset was called

vars == <<pc, status, files, puts, answer, isReset>>

Indices == 1 .. NumFiles
NoJob == 0

Init ==
  /\ pc = "none"
  /\ status = "idle"
  /\ files = <<>>
  /\ puts = [i \in Indices |-> "none"]
  /\ answer = <<>>
  /\ isReset = FALSE

-----------------------------------------------------------------------------
(* setState over prev.files.                                               *)
SetFiles(F(_)) == files' = [i \in DOMAIN files |-> F(i)]

Start ==
  /\ pc = "none"
  /\ pc' = "presign"
  /\ status' = "presigning"
  /\ files' = [i \in Indices |-> [status |-> "pending", jobId |-> NoJob]]
  /\ UNCHANGED <<puts, answer, isReset>>

Presign ==
  /\ pc = "presign"
  /\ pc' = "puts"
  /\ status' = "uploading"
  /\ SetFiles(LAMBDA i : [files[i] EXCEPT !.status = "uploading"])
  /\ UNCHANGED <<puts, answer, isReset>>

(* The browser's PUT of file i ends: with a 2xx status, or otherwise.       *)
PutEnds(i) ==
  /\ pc = "puts" /\ puts[i] = "none"
  /\ \E end \in {"loaded"} \cup (IF "put" \in Faults THEN {"broken"} ELSE {}) :
       puts' = [puts EXCEPT ![i] = end]
  /\ UNCHANGED <<pc, status, files, answer, isReset>>

(* uploadFileToS3 resolves on 'load', or rejects.                          *)
OnLoad(i) ==
  /\ puts[i] = "loaded"
  /\ puts' = [puts EXCEPT ![i] = "resolved"]
  /\ SetFiles(LAMBDA j : IF j = i THEN [files[j] EXCEPT !.status = "uploaded"] ELSE files[j])
  /\ UNCHANGED <<pc, status, answer, isReset>>

(* Mutant: no listener for the 'error' event.                              *)
OnErrorUnheard(i) ==
  /\ FALSE
  /\ UNCHANGED vars

OnError(i) ==
  /\ puts[i] = "broken"
  /\ puts' = [puts EXCEPT ![i] = "rejected"]
  /\ UNCHANGED <<pc, status, files, answer, isReset>>

FailedUploads == {i \in Indices : puts[i] = "rejected"}

(* Mutant: every file is confirmed.                                        *)
AllFiles == [i \in Indices |-> i]

(* The files that did not fail, from the first to the i-th.                *)
UploadsUpTo(i) == {j \in 1 .. i : j \notin FailedUploads}

(* confirmIdx++ : the place of file i among the files that did not fail.    *)
ConfirmIdx(i) == Cardinality(UploadsUpTo(i))

(* The indices of the files to confirm, in order.                          *)
SuccessfulFiles ==
  [k \in 1 .. ConfirmIdx(NumFiles) |->
     CHOOSE i \in UploadsUpTo(NumFiles) : ConfirmIdx(i) = k]

(* allSettled: the failed files are marked; without any other it ends here. *)
AllSettled ==
  /\ pc = "puts"
  /\ \A i \in Indices : puts[i] \in {"resolved", "rejected"}
  /\ SetFiles(LAMBDA i : IF i \in FailedUploads
                         THEN [files[i] EXCEPT !.status = "error"] ELSE files[i])
  /\ IF SuccessfulFiles = <<>>
     THEN pc' = "returned" /\ status' = "error"
     ELSE pc' = "confirm" /\ status' = "confirming"
  /\ UNCHANGED <<puts, answer, isReset>>

ServerConfirms ==
  /\ pc = "confirm"
  /\ pc' = "answer"
  /\ answer' = SuccessfulFiles
  /\ UNCHANGED <<status, files, puts, isReset>>

(* Mutant: the id at the file's own index.                                 *)
JobAtIndex(i) == IF i <= Len(answer) THEN answer[i] ELSE NoJob

(* The job of file i is confirm.jobs[confirmIdx++], if there is one.       *)
JobOf(i) == IF ConfirmIdx(i) \in DOMAIN answer THEN answer[ConfirmIdx(i)] ELSE NoJob

Confirmed ==
  /\ pc = "answer"
  /\ pc' = "returned"
  /\ status' = IF FailedUploads = {} THEN "done" ELSE "error"
  /\ SetFiles(LAMBDA i : IF i \in FailedUploads THEN files[i]
                         ELSE [status |-> "done", jobId |-> JobOf(i)])
  /\ UNCHANGED <<puts, answer, isReset>>

(* The catch block.                                                        *)
Fail ==
  /\ "http" \in Faults
  /\ pc \in {"presign", "confirm", "answer"}
  /\ pc' = "returned"
  /\ status' = "error"
  /\ UNCHANGED <<files, puts, answer, isReset>>

Reset ==
  /\ pc # "none" /\ ~isReset
  /\ isReset' = TRUE
  /\ status' = "idle"
  /\ files' = <<>>
  /\ UNCHANGED <<pc, puts, answer>>

-----------------------------------------------------------------------------
Step ==
  \/ Presign \/ AllSettled \/ ServerConfirms \/ Confirmed \/ Fail
  \/ \E i \in Indices : PutEnds(i) \/ OnLoad(i) \/ OnError(i)

Next == Start \/ Step \/ Reset

Spec == Init /\ [][Next]_vars

(* A request is answered or fails, and a PUT ends, well or not.             *)
FairSpec == Spec /\ WF_vars(Step)

-----------------------------------------------------------------------------
(* Properties                                                              *)

(* The job id next to a file is the job of that file, whichever PUTs failed  *)
(* before it; and a file that is done has one.                             *)
JobIdsMatchFiles ==
  \A i \in DOMAIN files :
    /\ files[i].jobId # NoJob => files[i].jobId = i
    /\ files[i].status = "done" => files[i].jobId # NoJob

(* Only uploaded files are confirmed: one failed PUT neither fails the      *)
(* others' confirm (verifyObject rejects a batch with a missing object) nor *)
(* is lost in a batch that ends as done.                                   *)
OnlyUploadsAreConfirmed ==
  /\ \A k \in DOMAIN answer : puts[answer[k]] = "resolved"
  /\ status = "done" => \A i \in Indices : /\ puts[i] = "resolved"
                                             /\ \E k \in DOMAIN answer : answer[k] = i

(* Every batch returns, whatever fails.                                    *)
BatchReturns == pc = "presign" ~> pc = "returned"
=============================================================================
