------------------------- MODULE DashboardUploadProofs -------------------------
(***************************************************************************)
(* The safety of single uploads, for any number of them, beside any batch,   *)
(* and that of a batch of any number of files beside any single uploads.    *)
(***************************************************************************)
EXTENDS DashboardUploads, Functions, FiniteSetTheorems, TLAPS

(* What the call of an upload is at says what the page shows of it and what *)
(* the server has done for it.                                             *)
AnsweredHasJob == \A u \in Uploads : calls[u] = "answer" => u \in jobs

DInv ==
  /\ TypeOK
  /\ RunningIsShown
  /\ DoneHasJob
  /\ AnsweredHasJob

(* The only writes to the entry of an upload are its own, and clearing it   *)
(* once it has ended.                                                      *)
LEMMA InitEstablishes == Init => DInv
  BY DEF Init, DInv, TypeOK, RunningIsShown, DoneHasJob, AnsweredHasJob, Absent

LEMMA StepPreserves == DInv /\ [Next]_vars => DInv'
<1> SUFFICES ASSUME DInv, [Next]_vars PROVE DInv'
  OBVIOUS
<1> USE DEF DInv, TypeOK, RunningIsShown, DoneHasJob, AnsweredHasJob,
            Running, Final, Absent, Entry, Update, GoTo
<1>1. ASSUME NEW u \in Uploads, Start(u) PROVE DInv'
  BY <1>1 DEF Start
<1>2. ASSUME NEW u \in Uploads, Presign(u) PROVE DInv'
  BY <1>2 DEF Presign
<1>3. ASSUME NEW u \in Uploads, PutEnds(u) PROVE DInv'
  BY <1>3 DEF PutEnds
<1>4. ASSUME NEW u \in Uploads, OnLoad(u) PROVE DInv'
  BY <1>4 DEF OnLoad
<1>5. ASSUME NEW u \in Uploads, ServerConfirms(u) PROVE DInv'
  BY <1>5 DEF ServerConfirms
<1>6. ASSUME NEW u \in Uploads, Confirmed(u) PROVE DInv'
  BY <1>6 DEF Confirmed
<1>7. ASSUME NEW u \in Uploads, Fail(u) PROVE DInv'
  BY <1>7 DEF Fail
<1>8. ASSUME NEW u \in Uploads, Dismiss(u) PROVE DInv'
  BY <1>8 DEF Dismiss
<1>9. CASE DismissAll
  BY <1>9 DEF DismissAll
<1>10. CASE Leave
  BY <1>10 DEF Leave
<1>11. CASE UNCHANGED vars
  BY <1>11 DEF vars
<1> QED
  BY <1>1, <1>2, <1>3, <1>4, <1>5, <1>6, <1>7, <1>8, <1>9, <1>10, <1>11 DEF Next, Step

(* Uploads on a page, with a batch beside them, are uploads on their own:    *)
(* the two hooks share no state.                                           *)
LEMMA PageStep == [PageNext]_<<vars, batchVars>> => [Next]_vars
  BY DEF PageNext, Single, OfBatch

THEOREM Invariance == PageSpec => []DInv
<1>1. PageInit => DInv
  BY InitEstablishes DEF PageInit
<1>2. DInv /\ [PageNext]_<<vars, batchVars>> => DInv'
  BY StepPreserves, PageStep
<1> QED
  BY <1>1, <1>2, PTL DEF PageSpec

(* As long as the page stays, a running upload is shown at the step it is    *)
(* at: no other upload, no dismissal and no batch takes it away.           *)
THEOREM RunningUploadsAreShown == PageSpec => []RunningIsShown
  BY Invariance, PTL DEF DInv

(* What is shown as done has its job on the server, under the id shown.     *)
THEOREM DoneUploadsHaveJobs == PageSpec => []DoneHasJob
  BY Invariance, PTL DEF DInv

-----------------------------------------------------------------------------
(* The place of a file among those that did not fail.  Files between two     *)
(* that did not fail make no difference: the places of these are 1, 2, ...   *)
(* without a gap, so that each place is that of one file.                  *)
Kept == Batch!UploadsUpTo(NumFiles)

LEMMA CountOfBatch == \A S : Batch!Cardinality(S) = Cardinality(S)
  BY Zenon DEF Batch!Cardinality, Cardinality

LEMMA KeptFiles ==
  /\ Kept = {i \in 1 .. NumFiles : i \notin Batch!FailedUploads}
  /\ IsFiniteSet(Kept)
  /\ Batch!ConfirmIdx(NumFiles) = Cardinality(Kept)
  /\ Cardinality(Kept) \in Nat
<1>1. Kept = {i \in 1 .. NumFiles : i \notin Batch!FailedUploads}
  BY DEF Kept, Batch!UploadsUpTo
<1>2. IsFiniteSet(1 .. NumFiles)
  BY BatchAssumption, FS_Interval DEF BatchAssumption
<1>3. Kept \in SUBSET (1 .. NumFiles)
  BY <1>1
<1>4. IsFiniteSet(Kept)
  BY <1>2, <1>3, FS_Subset
<1>5. Batch!ConfirmIdx(NumFiles) = Cardinality(Kept)
  BY CountOfBatch DEF Kept, Batch!ConfirmIdx
<1>. QED  BY <1>1, <1>4, <1>5, FS_CardinalityType

LEMMA PlaceInRange ==
  ASSUME NEW i \in Kept
  PROVE  /\ IsFiniteSet(Batch!UploadsUpTo(i))
         /\ Batch!UploadsUpTo(i) \subseteq Kept
         /\ Batch!ConfirmIdx(i) = Cardinality(Batch!UploadsUpTo(i))
         /\ Batch!ConfirmIdx(i) \in 1 .. Cardinality(Kept)
<1>1. i \in 1 .. NumFiles /\ i \notin Batch!FailedUploads
  BY KeptFiles
<1>2. Batch!UploadsUpTo(i) \in SUBSET Kept /\ i \in Batch!UploadsUpTo(i)
  BY <1>1, KeptFiles, BatchAssumption DEF BatchAssumption, Batch!UploadsUpTo
<1>3. Batch!ConfirmIdx(i) = Cardinality(Batch!UploadsUpTo(i))
  BY CountOfBatch DEF Batch!ConfirmIdx
<1>4. /\ IsFiniteSet(Batch!UploadsUpTo(i))
      /\ Cardinality(Batch!UploadsUpTo(i)) <= Cardinality(Kept)
      /\ Cardinality(Batch!UploadsUpTo(i)) \in Nat
  BY <1>2, KeptFiles, FS_Subset, FS_CardinalityType
<1>5. Cardinality(Batch!UploadsUpTo(i)) # 0
  BY <1>2, <1>4, FS_EmptySet
<1>. QED  BY <1>2, <1>3, <1>4, <1>5, KeptFiles

LEMMA PlacesGrow ==
  ASSUME NEW i \in Kept, NEW k \in Kept, i < k
  PROVE  Batch!ConfirmIdx(i) # Batch!ConfirmIdx(k)
<1>1. /\ i \in 1 .. NumFiles /\ k \in 1 .. NumFiles
      /\ k \notin Batch!FailedUploads
  BY KeptFiles
<1>2. /\ Batch!UploadsUpTo(i) \in SUBSET Batch!UploadsUpTo(k)
      /\ Batch!UploadsUpTo(i) # Batch!UploadsUpTo(k)
  <2>1. k \in Batch!UploadsUpTo(k) /\ k \notin Batch!UploadsUpTo(i)
    BY <1>1, BatchAssumption DEF BatchAssumption, Batch!UploadsUpTo
  <2>2. \A j \in Batch!UploadsUpTo(i) : j \in Batch!UploadsUpTo(k)
    BY <1>1, BatchAssumption DEF BatchAssumption, Batch!UploadsUpTo
  <2>. QED  BY <2>1, <2>2
<1>3. IsFiniteSet(Batch!UploadsUpTo(k))
  BY PlaceInRange
<1>4. Cardinality(Batch!UploadsUpTo(i)) # Cardinality(Batch!UploadsUpTo(k))
  BY <1>2, <1>3, FS_Subset
<1>. QED  BY <1>4, PlaceInRange

LEMMA PlacesDiffer ==
  ASSUME NEW i \in Kept, NEW k \in Kept, Batch!ConfirmIdx(i) = Batch!ConfirmIdx(k)
  PROVE  i = k
<1>1. i \in Int /\ k \in Int
  BY KeptFiles, BatchAssumption DEF BatchAssumption
<1>2. i < k \/ k < i \/ i = k
  BY <1>1
<1>. QED  BY <1>2, PlacesGrow

LEMMA PlacesFill ==
  ASSUME NEW n \in 1 .. Cardinality(Kept)
  PROVE  \E i \in Kept : Batch!ConfirmIdx(i) = n
<1>. DEFINE places == [i \in Kept |-> Batch!ConfirmIdx(i)]
            T == 1 .. Cardinality(Kept)
<1>1. places \in [Kept -> T]
  BY PlaceInRange
<1>2. places \in Injection(Kept, T)
  BY <1>1, PlacesDiffer DEF Injection, IsInjective
<1>3. IsFiniteSet(T) /\ Cardinality(T) = Cardinality(Kept)
  BY KeptFiles, FS_Interval
<1>4. places \in Surjection(Kept, T)
  <2>. HIDE DEF places, T
  <2>. QED  BY <1>2, <1>3, FS_Injection
<1>5. \E i \in Kept : places[i] = n
  <2>. HIDE DEF places
  <2>. QED  BY <1>4 DEF Surjection
<1>. QED  BY <1>5

(* The files to confirm are those that did not fail, each at its place.     *)
LEMMA FilesToConfirm ==
  /\ DOMAIN Batch!SuccessfulFiles = 1 .. Cardinality(Kept)
  /\ \A n \in DOMAIN Batch!SuccessfulFiles : Batch!SuccessfulFiles[n] \in Kept
  /\ \A i \in Kept : /\ Batch!ConfirmIdx(i) \in DOMAIN Batch!SuccessfulFiles
                     /\ Batch!SuccessfulFiles[Batch!ConfirmIdx(i)] = i
<1>1. Batch!SuccessfulFiles =
        [n \in 1 .. Cardinality(Kept) |-> CHOOSE i \in Kept : Batch!ConfirmIdx(i) = n]
  BY KeptFiles DEF Batch!SuccessfulFiles, Kept
<1>2. ASSUME NEW n \in 1 .. Cardinality(Kept)
      PROVE  /\ Batch!SuccessfulFiles[n] \in Kept
             /\ Batch!ConfirmIdx(Batch!SuccessfulFiles[n]) = n
  <2>1. Batch!SuccessfulFiles[n] = CHOOSE i \in Kept : Batch!ConfirmIdx(i) = n
    BY <1>1
  <2>2. \E i \in Kept : Batch!ConfirmIdx(i) = n
    BY PlacesFill
  <2>. QED  BY <2>1, <2>2
<1>3. DOMAIN Batch!SuccessfulFiles = 1 .. Cardinality(Kept)
  BY <1>1
<1>. QED  BY <1>2, <1>3, PlaceInRange, PlacesDiffer

-----------------------------------------------------------------------------
(* The batch.  Once every PUT has ended none ends again, so the files that   *)
(* were confirmed are those the answer is read against.                    *)
Settled == \A i \in Batch!Indices : puts[i] \in {"resolved", "rejected"}

FilesInv ==
  /\ DOMAIN files \subseteq Batch!Indices
  /\ \A i \in DOMAIN files :
       /\ files[i] \in [status : {"pending", "uploading", "uploaded", "error", "done"},
                       jobId : {Batch!NoJob, i}]
       /\ files[i].status = "done" => files[i].jobId = i

PutsInv ==
  /\ DOMAIN puts = Batch!Indices
  /\ pc \in {"confirm", "answer"} => Settled
  /\ answer # <<>> => Settled /\ pc \in {"answer", "returned"} /\ answer = Batch!SuccessfulFiles
  /\ pc = "answer" => answer = Batch!SuccessfulFiles
  /\ status = "done" => /\ pc = "returned" /\ Settled /\ Batch!FailedUploads = {}
                        /\ answer = Batch!SuccessfulFiles

BInv == FilesInv /\ PutsInv

(* What is read off the PUTs is the same as long as they are.              *)
LEMMA SamePuts ==
  ASSUME puts' = puts
  PROVE  /\ Batch!FailedUploads' = Batch!FailedUploads
         /\ Batch!SuccessfulFiles' = Batch!SuccessfulFiles
         /\ Settled' = Settled
<1>1. Batch!FailedUploads' = Batch!FailedUploads
  BY DEF Batch!FailedUploads
<1>2. \A i : Batch!UploadsUpTo(i)' = Batch!UploadsUpTo(i)
  BY <1>1 DEF Batch!UploadsUpTo
<1>3. \A i : Batch!ConfirmIdx(i)' = Batch!ConfirmIdx(i)
  BY <1>2 DEF Batch!ConfirmIdx
<1>4. Batch!SuccessfulFiles' = Batch!SuccessfulFiles
  BY <1>2, <1>3 DEF Batch!SuccessfulFiles
<1>. QED  BY <1>1, <1>4 DEF Settled

(* The steps that touch neither the files nor the PUTs.                     *)
LEMMA BatchInit == Batch!Init => BInv
  BY DEF Batch!Init, BInv, FilesInv, PutsInv

LEMMA PutStep ==
  ASSUME PutsInv, NEW i \in Batch!Indices,
         Batch!PutEnds(i) \/ Batch!OnLoad(i) \/ Batch!OnError(i)
  PROVE  PutsInv'
<1>1. /\ DOMAIN puts' = Batch!Indices
      /\ puts[i] \in {"none", "loaded", "broken"}
      /\ UNCHANGED <<pc, status, answer>>
  BY DEF PutsInv, Batch!PutEnds, Batch!OnLoad, Batch!OnError
<1>2. ~Settled
  BY <1>1 DEF Settled
<1>. QED  BY <1>1, <1>2 DEF PutsInv

LEMMA CallStep ==
  ASSUME PutsInv,
         \/ Batch!Start \/ Batch!Presign \/ Batch!AllSettled \/ Batch!ServerConfirms
         \/ Batch!Confirmed \/ Batch!Fail \/ Batch!Reset
  PROVE  PutsInv'
<1>1. puts' = puts
  BY DEF Batch!Start, Batch!Presign, Batch!AllSettled, Batch!ServerConfirms,
         Batch!Confirmed, Batch!Fail, Batch!Reset
<1>. USE <1>1, SamePuts DEF PutsInv
<1>2. CASE Batch!Start
  BY <1>2 DEF Batch!Start
<1>3. CASE Batch!Presign
  BY <1>3 DEF Batch!Presign
<1>4. CASE Batch!AllSettled
  BY <1>4 DEF Batch!AllSettled, Settled
<1>5. CASE Batch!ServerConfirms
  BY <1>5 DEF Batch!ServerConfirms
<1>6. CASE Batch!Confirmed
  BY <1>6 DEF Batch!Confirmed
<1>7. CASE Batch!Fail
  BY <1>7 DEF Batch!Fail
<1>8. CASE Batch!Reset
  BY <1>8 DEF Batch!Reset
<1>. QED  BY <1>2, <1>3, <1>4, <1>5, <1>6, <1>7, <1>8

(* Each setState over prev.files, which are none after a reset.             *)
LEMMA FilesStep ==
  ASSUME BInv, Batch!Next
  PROVE  FilesInv'
<1>. DEFINE Kinds == {"pending", "uploading", "uploaded", "error", "done"}
<1>1. /\ DOMAIN files \subseteq Batch!Indices
      /\ \A i \in DOMAIN files :
           /\ files[i] \in [status : Kinds, jobId : {Batch!NoJob, i}]
           /\ files[i].status = "done" => files[i].jobId = i
  BY DEF BInv, FilesInv
<1>2. ASSUME DOMAIN files' = DOMAIN files,
             \A i \in DOMAIN files :
               \/ files'[i] = files[i]
               \/ files'[i] = [files[i] EXCEPT !.status = "uploading"]
               \/ files'[i] = [files[i] EXCEPT !.status = "uploaded"]
               \/ files'[i] = [files[i] EXCEPT !.status = "error"]
               \/ files'[i] = [status |-> "done", jobId |-> i]
      PROVE  FilesInv'
  <2>. SUFFICES ASSUME NEW i \in DOMAIN files
                PROVE  /\ files'[i] \in [status : Kinds, jobId : {Batch!NoJob, i}]
                       /\ files'[i].status = "done" => files'[i].jobId = i
    BY <1>1, <1>2 DEF FilesInv, Batch!Indices, Batch!NoJob
  <2>. QED  BY <1>1, <1>2
<1>3. CASE Batch!Start
  <2>1. files' = [i \in Batch!Indices |-> [status |-> "pending", jobId |-> Batch!NoJob]]
    BY <1>3 DEF Batch!Start
  <2>. QED  BY <2>1 DEF FilesInv, Batch!Indices, Batch!NoJob
<1>4. CASE Batch!Presign
  BY <1>2, <1>4 DEF Batch!Presign, Batch!SetFiles
<1>5. CASE Batch!AllSettled
  BY <1>2, <1>5 DEF Batch!AllSettled, Batch!SetFiles
<1>6. CASE Batch!Confirmed
  <2>1. \A i \in DOMAIN files :
          i \notin Batch!FailedUploads => Batch!JobOf(i) = i
    <3>. SUFFICES ASSUME NEW i \in DOMAIN files, i \notin Batch!FailedUploads
                  PROVE  Batch!JobOf(i) = i
      OBVIOUS
    <3>1. i \in Kept
      BY <1>1, KeptFiles DEF Batch!Indices
    <3>2. answer = Batch!SuccessfulFiles
      BY <1>6 DEF Batch!Confirmed, BInv, PutsInv
    <3>. QED  BY <3>1, <3>2, FilesToConfirm DEF Batch!JobOf
  <2>. QED  BY <1>2, <1>6, <2>1 DEF Batch!Confirmed, Batch!SetFiles
<1>7. CASE \/ Batch!ServerConfirms \/ Batch!Fail
           \/ \E i \in Batch!Indices : Batch!PutEnds(i) \/ Batch!OnError(i)
  <2>1. files' = files
    BY <1>7 DEF Batch!ServerConfirms, Batch!Fail, Batch!PutEnds, Batch!OnError
  <2>. QED  BY <1>2, <2>1
<1>8. ASSUME NEW i \in Batch!Indices, Batch!OnLoad(i)
      PROVE  FilesInv'
  BY <1>2, <1>8 DEF Batch!OnLoad, Batch!SetFiles
<1>9. CASE Batch!Reset
  <2>1. DOMAIN files' = {}
    BY <1>9 DEF Batch!Reset
  <2>. QED  BY <2>1 DEF FilesInv
<1>. QED  BY <1>3, <1>4, <1>5, <1>6, <1>7, <1>8, <1>9 DEF Batch!Next, Batch!Step

(* Single uploads take no part in a batch.                                 *)
LEMMA BatchOfPage == [PageNext]_<<vars, batchVars>> => Batch!Next \/ UNCHANGED batchVars
  BY DEF PageNext, Single, OfBatch

THEOREM BatchInvariance == PageSpec => []BInv
<1>1. PageInit => BInv
  BY BatchInit DEF PageInit
<1>2. BInv /\ [PageNext]_<<vars, batchVars>> => BInv'
  <2>. SUFFICES ASSUME BInv, Batch!Next \/ UNCHANGED batchVars PROVE BInv'
    BY BatchOfPage
  <2>1. CASE Batch!Next
    <3>1. FilesInv'
      BY <2>1, FilesStep
    <3>2. PutsInv'
      BY <2>1, PutStep, CallStep DEF BInv, Batch!Next, Batch!Step
    <3>. QED  BY <3>1, <3>2 DEF BInv
  <2>2. CASE UNCHANGED batchVars
    BY <2>2, SamePuts DEF batchVars, BInv, FilesInv, PutsInv
  <2>. QED  BY <2>1, <2>2
<1>. QED  BY <1>1, <1>2, PTL DEF PageSpec

(* The job id next to a file of a batch is that of the file's own job, for    *)
(* any number of files, whichever of their PUTs fail and whenever the page   *)
(* is reset; a file that is done has one.                                  *)
THEOREM JobIdsOfFiles == PageSpec => []JobIdsMatchFiles
<1>1. BInv => JobIdsMatchFiles
  BY BatchAssumption
  DEF BatchAssumption, BInv, FilesInv, JobIdsMatchFiles, Batch!JobIdsMatchFiles,
      Batch!Indices, Batch!NoJob
<1>. QED  BY <1>1, BatchInvariance, PTL

(* No batch confirms a file whose PUT failed, and one that ends as done has   *)
(* confirmed all of its files.                                             *)
THEOREM UploadsConfirmed == PageSpec => []OnlyUploadsAreConfirmed
<1>1. ASSUME BInv PROVE OnlyUploadsAreConfirmed
  <2>1. ASSUME NEW n \in DOMAIN answer PROVE puts[answer[n]] = "resolved"
    <3>1. Settled /\ answer = Batch!SuccessfulFiles
      BY <1>1, <2>1 DEF BInv, PutsInv
    <3>2. answer[n] \in Kept
      BY <3>1, FilesToConfirm
    <3>. QED  BY <3>1, <3>2, KeptFiles DEF Settled, Batch!FailedUploads, Batch!Indices
  <2>2. ASSUME status = "done", NEW i \in Batch!Indices
        PROVE  puts[i] = "resolved" /\ \E k \in DOMAIN answer : answer[k] = i
    <3>1. Settled /\ Batch!FailedUploads = {} /\ answer = Batch!SuccessfulFiles
      BY <1>1, <2>2 DEF BInv, PutsInv
    <3>2. i \in Kept
      BY <3>1, KeptFiles DEF Batch!Indices
    <3>. QED  BY <3>1, <3>2, FilesToConfirm DEF Settled, Batch!FailedUploads
  <2>. QED  BY <2>1, <2>2 DEF OnlyUploadsAreConfirmed, Batch!OnlyUploadsAreConfirmed
<1>. QED  BY <1>1, BatchInvariance, PTL
=============================================================================
