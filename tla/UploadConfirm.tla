---------------------------- MODULE UploadConfirm ----------------------------
(***************************************************************************)
(* From an object that a client has PUT under uploads/unconfirmed/ to a job  *)
(* in the queue: POST /upload/confirm and POST /upload/batch/confirm         *)
(* (src/controllers/upload.controller.ts) over S3, MongoDB and the queue.    *)
(*                                                                         *)
(* `confirm` is the case of a body with one file: the two handlers make the *)
(* same calls in the same order, one await per action.  None of the calls   *)
(* is undone when a later one fails.                                       *)
(***************************************************************************)
EXTENDS Integers, Sequences, FiniteSets

CONSTANTS
  Requests,     \* confirm requests the API receives
  Keys,         \* s3Keys that presign handed out
  Sizes,        \* sizes a client may PUT
  MaxFileSize,  \* StorageService.maxFileSize
  Confirms,     \* bodies the validators accept: [files, batch], where files is a
                \* sequence of [key, size] and batch the batchId the client names
  NoBatch,      \* the batchId of a single confirm that names none
  MaxFiles,     \* the most files of a body
  MaxInFlight,  \* requests the API replicas handle at the same time
  Faults        \* what may go wrong: a subset of AllFaults

AllFaults == {"s3", "mongo", "redis", "crash", "expire"}

Bodies == {c.files : c \in Confirms}
Batches == {c.batch : c \in Confirms} \ {NoBatch}

ASSUME UploadAssumption ==
  /\ Sizes \subseteq Nat
  /\ MaxFileSize \in Nat
  /\ MaxFiles \in Nat \ {0}
  /\ \A body \in Bodies : /\ body \in Seq([key : Keys, size : 1 .. MaxFileSize])
                          /\ Len(body) \in 1 .. MaxFiles
  /\ \A c \in Confirms : c.batch = NoBatch => Len(c.files) = 1
  /\ MaxInFlight \in Nat \ {0}
  /\ Faults \subseteq AllFaults

VARIABLES
  unconfirmed,  \* [Keys -> size of the object under uploads/unconfirmed/]
  uploaded,     \* the keys whose upload the API owes the client
  confirmed,    \* [Items -> size of the object under uploads/confirmed/]
  files,        \* [Items -> the size in the file document]
  jobs,         \* the items with a job document
  queue,        \* the items whose job was added to the queue
  requests,     \* [Requests -> the state of the handler]
  disturbed     \* history: the keys that were PUT to twice, expired, or named
                \* by two requests in flight

stores == <<unconfirmed, uploaded, confirmed, files, jobs, queue, disturbed>>
vars == <<unconfirmed, uploaded, confirmed, files, jobs, queue, requests, disturbed>>

(* The i-th file of a request: its jobId is a fresh uuid, so its confirmed  *)
(* key, its documents and its queue entry belong to it alone.              *)
Items == Requests \X (1 .. MaxFiles)

None == -1

Idle == [pc |-> "idle", body |-> <<>>, batch |-> NoBatch, checked |-> {}, at |-> 1,
         response |-> "none"]

InFlight == {r \in Requests : requests[r].pc \notin {"idle", "done", "lost"}}

Indices(r) == DOMAIN requests[r].body
ItemsOf(r) == {<<r, i>> : i \in Indices(r)}
Current(r) == <<r, requests[r].at>>
CurrentFile(r) == requests[r].body[requests[r].at]
KeyOf(i) == requests[i[1]].body[i[2]].key
KeysOf(body) == {body[n].key : n \in DOMAIN body}

(* A batch is whatever names it: batchPresign makes up a batchId, but keeps *)
(* no record of it, and both confirms take the client's.  JobsIn is what    *)
(* countByBatchId counts.                                                  *)
BatchOf(i) == requests[i[1]].batch
Naming(b) == {r \in Requests : requests[r].batch = b}
JobsIn(b) == {i \in jobs : BatchOf(i) = b}

-----------------------------------------------------------------------------
Init ==
  /\ unconfirmed = [k \in Keys |-> None]
  /\ uploaded = {}
  /\ confirmed = [i \in Items |-> None]
  /\ files = [i \in Items |-> None]
  /\ jobs = {}
  /\ queue = {}
  /\ requests = [r \in Requests |-> Idle]
  /\ disturbed = {}

(* The client uploads through its presigned URL, with any number of bytes,  *)
(* and while the URL is valid it may do so again.                          *)
Put(k, size) ==
  /\ unconfirmed' = [unconfirmed EXCEPT ![k] = size]
  /\ uploaded' = uploaded \cup {k}
  /\ disturbed' = IF k \in uploaded THEN disturbed \cup {k} ELSE disturbed
  /\ UNCHANGED <<confirmed, files, jobs, queue, requests>>

(* infra/s3-lifecycle.json expires uploads/unconfirmed/ after a day.        *)
Expire(k) ==
  /\ "expire" \in Faults
  /\ unconfirmed[k] # None
  /\ unconfirmed' = [unconfirmed EXCEPT ![k] = None]
  /\ uploaded' = uploaded \ {k}
  /\ disturbed' = disturbed \cup {k}
  /\ UNCHANGED <<confirmed, files, jobs, queue, requests>>

-----------------------------------------------------------------------------
GoTo(r, pc) == requests' = [requests EXCEPT ![r].pc = pc]

(* asyncHandler hands what the handler throws to the error middleware.     *)
Answer(r, code) ==
  requests' = [requests EXCEPT ![r].pc = "done", ![r].response = code]

(* A call that has taken effect may still be reported as failed.           *)
Proceed(r, pc, fault) == GoTo(r, pc) \/ (fault \in Faults /\ Answer(r, "500"))

(* The schemas take any text for an s3Key.  Here a client names keys that   *)
(* presign handed out; it may name them, and a batch, as often as it likes. *)
Receive(r, c) ==
  /\ requests[r].pc = "idle"
  /\ Cardinality(InFlight) < MaxInFlight
  /\ requests' = [requests EXCEPT ![r] =
       [Idle EXCEPT !.pc = "verify", !.body = c.files, !.batch = c.batch]]
  /\ disturbed' = disturbed \cup
       {k \in KeysOf(c.files) : \E q \in InFlight : k \in KeysOf(requests[q].body)}
  /\ UNCHANGED <<unconfirmed, uploaded, confirmed, files, jobs, queue>>

(* Mutant: the size of the object is not compared.                         *)
VerifyExistence(r, i) ==
  LET checked == requests[r].checked \cup {i} IN
  /\ requests[r].pc = "verify"
  /\ i \in Indices(r) \ requests[r].checked
  /\ unconfirmed[requests[r].body[i].key] # None
  /\ requests' = [requests EXCEPT
       ![r].checked = checked,
       ![r].pc = IF checked = Indices(r) THEN "copy" ELSE "verify"]
  /\ UNCHANGED stores

(* verifyObject: one HEAD per file, all in flight at once, answered in any  *)
(* order.  The first that rejects decides the response; any failure of the  *)
(* HEAD itself counts as a missing file.                                   *)
Verify(r, i) ==
  LET file == requests[r].body[i]
      size == unconfirmed[file.key]
      checked == requests[r].checked \cup {i}
  IN
  /\ requests[r].pc = "verify"
  /\ i \in Indices(r) \ requests[r].checked
  /\ \/ /\ size = file.size
        /\ size <= MaxFileSize
        /\ requests' = [requests EXCEPT
             ![r].checked = checked,
             ![r].pc = IF checked = Indices(r) THEN "copy" ELSE "verify"]
     \/ /\ size # None
        /\ size > MaxFileSize \/ size # file.size
        /\ Answer(r, "400")
     \/ /\ size = None \/ "s3" \in Faults
        /\ Answer(r, "404")
  /\ UNCHANGED stores

(* Mutant: an error of the copy is caught.                                 *)
CopyCaught(r) ==
  LET object == unconfirmed[CurrentFile(r).key] IN
  /\ requests[r].pc = "copy"
  /\ \/ object # None /\ confirmed' = [confirmed EXCEPT ![Current(r)] = object]
     \/ (object = None \/ "s3" \in Faults) /\ confirmed' = confirmed
  /\ GoTo(r, "delete")
  /\ UNCHANGED <<unconfirmed, uploaded, files, jobs, queue, disturbed>>

(* Mutant: a missing object counts as one that verifyObject missed.        *)
CopyNotFound(r) ==
  LET object == unconfirmed[CurrentFile(r).key] IN
  /\ requests[r].pc = "copy"
  /\ \/ /\ object # None
        /\ confirmed' = [confirmed EXCEPT ![Current(r)] = object]
        /\ Proceed(r, "delete", "s3")
     \/ /\ object = None
        /\ confirmed' = confirmed
        /\ Answer(r, "404")
  /\ UNCHANGED <<unconfirmed, uploaded, files, jobs, queue, disturbed>>

(* moveToConfirmed, its first half: whatever is under the key by now.       *)
Copy(r) ==
  LET object == unconfirmed[CurrentFile(r).key] IN
  /\ requests[r].pc = "copy"
  /\ \/ /\ object # None
        /\ confirmed' = [confirmed EXCEPT ![Current(r)] = object]
        /\ Proceed(r, "delete", "s3")
     \/ /\ object = None \/ "s3" \in Faults
        /\ confirmed' = confirmed
        /\ Answer(r, "500")
  /\ UNCHANGED <<unconfirmed, uploaded, files, jobs, queue, disturbed>>

(* Mutant: the object is copied, not moved.                                *)
DeleteNothing(r) ==
  /\ requests[r].pc = "delete"
  /\ GoTo(r, "createFile")
  /\ UNCHANGED stores

(* Its second half; deleting a missing object succeeds.                    *)
Delete(r) ==
  /\ requests[r].pc = "delete"
  /\ \/ /\ unconfirmed' = [unconfirmed EXCEPT ![CurrentFile(r).key] = None]
        /\ Proceed(r, "createFile", "s3")
     \/ /\ "s3" \in Faults
        /\ unconfirmed' = unconfirmed
        /\ Answer(r, "500")
  /\ UNCHANGED <<uploaded, confirmed, files, jobs, queue, disturbed>>

(* Mutant: the job goes to the queue before its document exists.           *)
CreateFileOnly(r) ==
  /\ requests[r].pc = "createFile"
  /\ files' = [files EXCEPT ![Current(r)] = CurrentFile(r).size]
  /\ GoTo(r, "enqueue")
  /\ UNCHANGED <<unconfirmed, uploaded, confirmed, jobs, queue, disturbed>>

(* fileRepo.create stores the size the client declared.                    *)
CreateFile(r) ==
  /\ requests[r].pc = "createFile"
  /\ \/ /\ files' = [files EXCEPT ![Current(r)] = CurrentFile(r).size]
        /\ Proceed(r, "createJob", "mongo")
     \/ /\ "mongo" \in Faults
        /\ files' = files
        /\ Answer(r, "500")
  /\ UNCHANGED <<unconfirmed, uploaded, confirmed, jobs, queue, disturbed>>

(* Mutants: the loop leaves after one file; each job is added to the queue  *)
(* at once.                                                                *)
CreateJobOfFirst(r) ==
  /\ requests[r].pc = "createJob"
  /\ jobs' = jobs \cup {Current(r)}
  /\ GoTo(r, "enqueue")
  /\ UNCHANGED <<unconfirmed, uploaded, confirmed, files, queue, disturbed>>
CreateJobAndEnqueue(r) ==
  LET last == requests[r].at = Len(requests[r].body) IN
  /\ requests[r].pc = "createJob"
  /\ jobs' = jobs \cup {Current(r)}
  /\ queue' = queue \cup {Current(r)}
  /\ requests' = [requests EXCEPT ![r].pc = IF last THEN "respond" ELSE "copy",
                                  ![r].at = IF last THEN @ ELSE @ + 1]
  /\ UNCHANGED <<unconfirmed, uploaded, confirmed, files, disturbed>>

(* jobRepo.create, and on to the next file of the batch.                   *)
CreateJob(r) ==
  LET last == requests[r].at = Len(requests[r].body) IN
  /\ requests[r].pc = "createJob"
  /\ \/ /\ jobs' = jobs \cup {Current(r)}
        /\ \/ requests' = [requests EXCEPT
                ![r].pc = IF last THEN "enqueue" ELSE "copy",
                ![r].at = IF last THEN @ ELSE @ + 1]
           \/ "mongo" \in Faults /\ Answer(r, "500")
     \/ /\ "mongo" \in Faults
        /\ jobs' = jobs
        /\ Answer(r, "500")
  /\ UNCHANGED <<unconfirmed, uploaded, confirmed, files, queue, disturbed>>

(* addJob, or addBulk, which adds the jobs of a batch in one transaction.   *)
Enqueue(r) ==
  /\ requests[r].pc = "enqueue"
  /\ \/ /\ queue' = queue \cup ItemsOf(r)
        /\ Proceed(r, "respond", "redis")
     \/ /\ "redis" \in Faults
        /\ queue' = queue
        /\ Answer(r, "500")
  /\ UNCHANGED <<unconfirmed, uploaded, confirmed, files, jobs, disturbed>>

(* invalidateJobCache and emitStatsUpdate never throw (the cache they touch *)
(* is StatsCache's): the client gets its 201.                              *)
Respond(r) ==
  /\ requests[r].pc = "respond"
  /\ Answer(r, "201")
  /\ UNCHANGED stores

(* The API process that handles r stops, with the handler wherever it was.  *)
Lose(r) ==
  /\ "crash" \in Faults
  /\ r \in InFlight
  /\ GoTo(r, "lost")
  /\ UNCHANGED stores

-----------------------------------------------------------------------------
Handle(r) ==
  \/ \E i \in Indices(r) : Verify(r, i)
  \/ Copy(r)
  \/ Delete(r)
  \/ CreateFile(r)
  \/ CreateJob(r)
  \/ Enqueue(r)
  \/ Respond(r)

Next ==
  \/ \E k \in Keys, size \in Sizes : Put(k, size)
  \/ \E k \in Keys : Expire(k)
  \/ \E r \in Requests, c \in Confirms : Receive(r, c)
  \/ \E r \in Requests : Handle(r) \/ Lose(r)

Spec == Init /\ [][Next]_vars

-----------------------------------------------------------------------------
(* Properties                                                              *)

Steps == {"idle", "verify", "copy", "delete", "createFile", "createJob",
          "enqueue", "respond", "done", "lost"}

Request == [pc : Steps, body : Bodies \cup {<<>>}, batch : Batches \cup {NoBatch},
            checked : SUBSET (1 .. MaxFiles), at : 1 .. MaxFiles,
            response : {"none", "201", "400", "404", "500"}]

(* Every variable keeps its type.                                          *)
TypeOK ==
  /\ unconfirmed \in [Keys -> Sizes \cup {None}]
  /\ uploaded \subseteq Keys
  /\ confirmed \in [Items -> Sizes \cup {None}]
  /\ files \in [Items -> (1 .. MaxFileSize) \cup {None}]
  /\ jobs \subseteq Items
  /\ queue \subseteq Items
  /\ requests \in [Requests -> Request]
  /\ disturbed \subseteq Keys

(* What a worker takes from the queue it can process: the job document, the *)
(* file document and the confirmed object are all there, whichever calls    *)
(* failed and wherever the API stopped.  (The processor's two "not found"   *)
(* errors and its S3 404 are unreachable.)                                 *)
QueuedJobsAreBacked ==
  \A i \in queue : i \in jobs /\ files[i] # None /\ confirmed[i] # None

(* What backs a queued job stays as it is, whatever other requests, retries *)
(* and clients do: every run of the job reads the same file.               *)
QueuedJobsStay ==
  [][\A i \in queue : /\ i \in queue' /\ i \in jobs'
                     /\ files'[i] = files[i] /\ confirmed'[i] = confirmed[i]]_vars

(* A client that was told 201 has every file of its request in the queue:   *)
(* a pending job that nobody will run was never acknowledged.              *)
SuccessMeansQueued ==
  \A r \in Requests : requests[r].response = "201" => ItemsOf(r) \subseteq queue

(* Once a job of a batch can be processed, no job is added to the batch, as *)
(* long as only one request has named its batchId: the total that          *)
(* countByBatchId reports while the batch runs is final, wherever that     *)
(* request fails.  (A batch confirm that is repeated, or another confirm    *)
(* with the same batchId, extends a batch that is running.)                *)
BatchTotalIsFinal ==
  [][\A i \in queue, b \in Batches :
       BatchOf(i) = b /\ Naming(b)' = {i[1]} => JobsIn(b)' = JobsIn(b)]_vars

(* An upload is never lost on the way: until a confirmed copy exists, the   *)
(* object is still there under its unconfirmed key, for a retry, however    *)
(* many requests name it and wherever they fail.  (Unless the lifecycle     *)
(* rule takes it.)                                                         *)
UploadsAreKept ==
  \A k \in uploaded :
    \/ unconfirmed[k] # None
    \/ \E r \in Requests : \E n \in Indices(r) :
         KeyOf(<<r, n>>) = k /\ confirmed[<<r, n>>] # None

(* The size in the file document, by which the worker picks its duplicate   *)
(* detector, is the size of the object it will read.  (Unless the client    *)
(* uploads again, between the HEAD and the copy for one.)                  *)
RecordedSizeIsActual ==
  \A i \in queue : KeyOf(i) \notin disturbed => files[i] = confirmed[i]

(* One upload is processed once, however often the client repeats a confirm *)
(* whose answer was an error or was lost.  (Unless it repeats the confirm   *)
(* while the first is still being handled, or uploads again.)              *)
OneJobPerUpload ==
  \A i, k \in queue : KeyOf(i) = KeyOf(k) /\ KeyOf(i) \notin disturbed => i = k

(* The abstract specification, seen through the response, the confirmed     *)
(* objects (the first trace of a request) and the queue.                   *)
Told(code) ==
  CASE code = "none" -> "none"
    [] code = "201" -> "accepted"
    [] code \in {"400", "404"} -> "refused"
    [] code = "500" -> "failed"

Touched(r) == \E n \in 1 .. MaxFiles : confirmed[<<r, n>>] # None

HandedOver(r) ==
  IF queue \cap ItemsOf(r) = {} THEN "none"
  ELSE IF ItemsOf(r) \subseteq queue THEN "all" ELSE "some"

Client == INSTANCE ConfirmPromise WITH
  answer <- [r \in Requests |-> Told(requests[r].response)],
  touched <- {r \in Requests : Touched(r)},
  handed <- [r \in Requests |-> HandedOver(r)]

(* Confirm implements ConfirmPromise: a 400 or a 404 means that nothing of  *)
(* the request was moved, recorded or queued, so that it can be corrected   *)
(* and repeated; a batch reaches the queue in one step.                    *)
ConfirmKept == Client!Spec

(* src/README.md:219 leaves orphans to the lifecycle rule on unconfirmed    *)
(* uploads: then no object may end up under uploads/confirmed/ without a    *)
(* file document once its request is over.                                 *)
OrphansAreUnconfirmed ==
  \A r \in Requests : \A i \in Indices(r) :
    requests[r].pc = "done" /\ confirmed[<<r, i>>] # None => files[<<r, i>>] # None

-----------------------------------------------------------------------------
(* The inductive invariant behind the first four properties                *)

Backed(i) == i \in jobs /\ files[i] # None /\ confirmed[i] # None

(* What a handler has done by the time it is at a step: the files before    *)
(* the current one are finished, the current one is on its way, and nothing *)
(* is in the queue before everything is finished.                          *)
HandlerInv(r) ==
  LET q == requests[r] IN
  /\ q.pc = "idle" => q.batch = NoBatch /\ \A n \in 1 .. MaxFiles : <<r, n>> \notin queue
  /\ q.pc \notin {"idle", "done", "lost"} => q.body \in Bodies /\ q.at \in Indices(r)
  /\ q.pc = "verify" => q.at = 1
  /\ q.pc \in {"copy", "delete", "createFile", "createJob"} =>
       \A n \in Indices(r) : n < q.at => Backed(<<r, n>>)
  /\ q.pc \in {"delete", "createFile", "createJob"} => confirmed[Current(r)] # None
  /\ q.pc = "createJob" => files[Current(r)] # None
  /\ q.pc \in {"enqueue", "respond"} => \A i \in ItemsOf(r) : Backed(i)
  /\ q.pc = "respond" \/ q.response = "201" => ItemsOf(r) \subseteq queue
  /\ q.response # "none" => q.pc = "done"

UInv ==
  /\ TypeOK
  /\ \A i \in queue : Backed(i)
  /\ \A r \in Requests : HandlerInv(r)
-----------------------------------------------------------------------------
(* The inductive invariant behind the properties of undisturbed uploads     *)

(* The HEAD of the n-th file has answered; its object has been moved.      *)
Seen(r, n) ==
  \/ requests[r].pc = "verify" /\ n \in requests[r].checked
  \/ requests[r].pc \in Steps \ {"idle", "verify", "done", "lost"}
Taken(r, n) ==
  \/ files[<<r, n>>] # None
  \/ requests[r].pc = "createFile" /\ n = requests[r].at

BodyInv ==
  \A r \in Requests :
    /\ requests[r].pc = "idle" => requests[r].body = <<>>
    /\ \A n \in (1 .. MaxFiles) \ Indices(r) : files[<<r, n>>] = None /\ confirmed[<<r, n>>] = None

(* The object of an undisturbed key has the size that was checked, until it *)
(* is gone for good.                                                       *)
FileInv(r, n) ==
  LET f == requests[r].body[n] IN
  f.key \notin disturbed =>
    /\ confirmed[<<r, n>>] \in {None, f.size}
    /\ files[<<r, n>>] \in {None, f.size}
    /\ Seen(r, n) \/ Taken(r, n) =>
         f.key \in uploaded /\ unconfirmed[f.key] \in {None, f.size}
    /\ Taken(r, n) => unconfirmed[f.key] = None

(* Nobody has taken the object that r is about to delete, or has deleted.  *)
Alone(r, n) ==
  \A q \in Requests : \A m \in Indices(q) :
    KeyOf(<<q, m>>) = KeyOf(<<r, n>>) /\ Taken(q, m) => <<q, m>> = <<r, n>>

KeepInv ==
  /\ BodyInv
  /\ \A k \in Keys : unconfirmed[k] # None => k \in uploaded
  /\ UploadsAreKept
  /\ \A r, q \in InFlight : \A k \in KeysOf(requests[r].body) \cap KeysOf(requests[q].body) :
       r = q \/ k \in disturbed
  /\ \A r \in Requests : \A n \in Indices(r) :
       /\ FileInv(r, n)
       /\ KeyOf(<<r, n>>) \notin disturbed =>
            /\ Taken(r, n) => Alone(r, n)
            /\ requests[r].pc = "delete" /\ n = requests[r].at => Alone(r, n) /\ ~Taken(r, n)
=============================================================================
