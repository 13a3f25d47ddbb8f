---------------------------- MODULE DashboardUpload ----------------------------
(***************************************************************************)
(* Single uploads of the overview page (dashboard/src/hooks/useUpload.ts):   *)
(* calls of `upload` run side by side, each from presign over the PUT to    *)
(* confirm, and keep one entry each in the state that UploadZone shows.      *)
(* That state goes with the page; the calls go on without it, and their     *)
(* updates of an entry that is gone change nothing.                         *)
(*                                                                         *)
(* The server is the promise of UploadConfirm: a confirm creates one job,   *)
(* whether or not its answer arrives.  The progress in percent is left out. *)
(***************************************************************************)
EXTENDS FiniteSets

CONSTANTS
  Uploads,  \* the calls of `upload`; an upload's job has its name
  Faults    \* subset of {"http", "put"}

ASSUME DashboardUploadAssumption == Faults \subseteq {"http", "put"}

VARIABLES
  calls,    \* [Uploads -> the await the call is at]
  entries,  \* [Uploads -> its entry, or Absent]
  shown,    \* the uploads that were started on the page as it is mounted
  jobs      \* the uploads whose job the server has created

vars == <<calls, entries, shown, jobs>>

Absent == [status |-> "absent", jobId |-> {}]

Entry(status) == [status |-> status, jobId |-> {}]

Running == {"presign", "put", "loaded", "broken", "confirm", "answer"}
Final == {"done", "error"}

Init ==
  /\ calls = [u \in Uploads |-> "none"]
  /\ entries = [u \in Uploads |-> Absent]
  /\ shown = {}
  /\ jobs = {}

-----------------------------------------------------------------------------
(* The setUploads calls after the first: nothing for an entry that is gone. *)
Update(u, entry) == entries' = IF entries[u] = Absent THEN entries
                               ELSE [entries EXCEPT ![u] = entry]

GoTo(u, pc) == calls' = [calls EXCEPT ![u] = pc]

Start(u) ==
  /\ calls[u] = "none"
  /\ GoTo(u, "presign")
  /\ entries' = [entries EXCEPT ![u] = Entry("uploading")]
  /\ shown' = shown \cup {u}
  /\ UNCHANGED jobs

Presign(u) ==
  /\ calls[u] = "presign"
  /\ GoTo(u, "put")
  /\ UNCHANGED <<entries, shown, jobs>>

(* The browser's PUT ends: with a 2xx status, or with another or an error.  *)
PutEnds(u) ==
  /\ calls[u] = "put"
  /\ GoTo(u, "loaded") \/ ("put" \in Faults /\ GoTo(u, "broken"))
  /\ UNCHANGED <<entries, shown, jobs>>

OnLoad(u) ==
  /\ calls[u] = "loaded"
  /\ GoTo(u, "confirm")
  /\ Update(u, Entry("confirming"))
  /\ UNCHANGED <<shown, jobs>>

(* The server handles POST /upload/confirm.                                *)
ServerConfirms(u) ==
  /\ calls[u] = "confirm"
  /\ GoTo(u, "answer")
  /\ jobs' = jobs \cup {u}
  /\ UNCHANGED <<entries, shown>>

(* Mutant: the entry is done as soon as the object is uploaded.            *)
ConfirmedEarly(u) ==
  /\ calls[u] \in {"confirm", "answer"}
  /\ GoTo(u, "returned")
  /\ Update(u, [status |-> "done", jobId |-> {u}])
  /\ UNCHANGED <<shown, jobs>>

Confirmed(u) ==
  /\ calls[u] = "answer"
  /\ GoTo(u, "returned")
  /\ Update(u, [status |-> "done", jobId |-> {u}])
  /\ UNCHANGED <<shown, jobs>>

(* Mutant: no listener for the 'error' event of the PUT.                   *)
FailUnheard(u) ==
  /\ "http" \in Faults
  /\ calls[u] \in {"presign", "confirm", "answer"}
  /\ GoTo(u, "returned")
  /\ Update(u, Entry("error"))
  /\ UNCHANGED <<shown, jobs>>

(* The catch block: the PUT failed, or a request, before or after it had    *)
(* its effect.                                                             *)
Fail(u) ==
  /\ calls[u] = "broken" \/ ("http" \in Faults /\ calls[u] \in {"presign", "confirm", "answer"})
  /\ GoTo(u, "returned")
  /\ Update(u, Entry("error"))
  /\ UNCHANGED <<shown, jobs>>

Dismiss(u) ==
  /\ entries[u].status \in Final
  /\ entries' = [entries EXCEPT ![u] = Absent]
  /\ UNCHANGED <<calls, shown, jobs>>

(* Mutant: every entry is cleared.                                         *)
ClearAll ==
  /\ \E u \in Uploads : entries[u].status \in Final
  /\ entries' = [u \in Uploads |-> Absent]
  /\ UNCHANGED <<calls, shown, jobs>>

(* dismissAll; the button is there once an entry has ended.                *)
DismissAll ==
  /\ \E u \in Uploads : entries[u].status \in Final
  /\ entries' = [u \in Uploads |-> IF entries[u].status \in Final THEN Absent ELSE entries[u]]
  /\ UNCHANGED <<calls, shown, jobs>>

(* Another page is opened: UploadZone is unmounted.                        *)
Leave ==
  /\ shown # {}
  /\ entries' = [u \in Uploads |-> Absent]
  /\ shown' = {}
  /\ UNCHANGED <<calls, jobs>>

-----------------------------------------------------------------------------
Step(u) ==
  Presign(u) \/ PutEnds(u) \/ OnLoad(u) \/ ServerConfirms(u) \/ Confirmed(u) \/ Fail(u)

Next ==
  \/ \E u \in Uploads : Start(u) \/ Step(u) \/ Dismiss(u)
  \/ DismissAll
  \/ Leave

Spec == Init /\ [][Next]_vars

(* A request is answered or fails, and a PUT ends, well or not: what the     *)
(* browser and its promises see to.                                        *)
FairSpec == Spec /\ \A u \in Uploads : WF_vars(Step(u))

-----------------------------------------------------------------------------
(* Properties                                                              *)

(* Every variable keeps its type.                                          *)
TypeOK ==
  /\ calls \in [Uploads -> Running \cup {"none", "returned"}]
  /\ entries \in [Uploads -> [status : {"absent", "uploading", "confirming"} \cup Final,
                              jobId : SUBSET Uploads]]
  /\ shown \subseteq Uploads /\ jobs \subseteq Uploads

(* As long as the page stays, a running upload is on it, and at the step     *)
(* the call is at: no other upload, and no dismissal, takes it away.        *)
RunningIsShown ==
  \A u \in shown :
    /\ calls[u] \in {"presign", "put", "loaded", "broken"} => entries[u].status = "uploading"
    /\ calls[u] \in {"confirm", "answer"} => entries[u].status = "confirming"

(* What is shown as done has its job on the server, under the id shown.     *)
DoneHasJob ==
  \A u \in Uploads : entries[u].status = "done" => u \in jobs /\ entries[u].jobId = {u}

(* Every upload returns, whatever fails: none is shown as running for ever. *)
UploadsReturn == \A u \in Uploads : calls[u] = "presign" ~> calls[u] = "returned"
=============================================================================
