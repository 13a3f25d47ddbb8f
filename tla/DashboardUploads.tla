--------------------------- MODULE DashboardUploads ---------------------------
(***************************************************************************)
(* Single uploads and a batch upload side by side: the two hooks keep their  *)
(* states apart and share the network, so that any step of one may come     *)
(* between two steps of the other.                                         *)
(***************************************************************************)
EXTENDS DashboardUpload, Naturals

CONSTANT NumFiles  \* files in the batch

ASSUME BatchAssumption == NumFiles \in Nat

VARIABLES pc, status, files, puts, answer, isReset

batchVars == <<pc, status, files, puts, answer, isReset>>

Batch == INSTANCE DashboardBatch

PageInit == Init /\ Batch!Init

(* A step of a single upload, or of the batch.                             *)
Single == Next /\ UNCHANGED batchVars
OfBatch == Batch!Next /\ UNCHANGED vars

PageNext == Single \/ OfBatch

PageSpec ==
  /\ PageInit
  /\ [][PageNext]_<<vars, batchVars>>
  /\ \A u \in Uploads : WF_vars(Step(u))
  /\ WF_batchVars(Batch!Step)

(* Each job id of a batch is next to the file it was created for.           *)
JobIdsMatchFiles == Batch!JobIdsMatchFiles

(* A batch confirms the files that were uploaded, and no others.            *)
OnlyUploadsAreConfirmed == Batch!OnlyUploadsAreConfirmed

(* Every batch upload returns.                                             *)
BatchReturns == Batch!BatchReturns
=============================================================================
