------------------------------ MODULE UploadZone ------------------------------
(***************************************************************************)
(* The way of a file's options, from the upload zone of the overview page   *)
(* (UploadZone.tsx, over RulesForm) through the two requests of useUpload,   *)
(* the body sanitizer and the request schemas to the job document.          *)
(*                                                                         *)
(* The awaits of an upload and their failures are DashboardUpload's, those   *)
(* of the confirm handler UploadConfirm's: here a call fails only where the *)
(* code or the name of the file makes it fail, and the question is what is  *)
(* refused, when, and what reaches the job.                                *)
(***************************************************************************)
EXTENDS RulesForm

CONSTANTS
  Uploads,      \* the calls of `upload`; an upload's job has its name
  Priorities,   \* the options of the priority select
  MaxFileSize,  \* MAX_FILE_SIZE of the zone and the limit of the schemas
  FileLists,    \* what may be chosen or dropped: sequences of [csv, size]
  DollarNames,  \* names that start with "$"
  OddNames      \* names with a ".", and those of an object's own ("constructor")

ASSUME UploadZoneAssumption ==
  /\ MaxFileSize \in Nat \ {0}
  /\ 5 \in Priorities
  /\ \A list \in FileLists : list \in Seq([csv : BOOLEAN, size : Nat])

VARIABLES
  priority,   \* the state of the select
  uploads,    \* [Uploads -> the await the call is at, and what it closes over]
  objects,    \* [Uploads -> where the object is: "none", "unconfirmed", "confirmed"]
  jobs        \* [Uploads -> its job's rules and priority, or NoJob]

zone == <<priority, uploads, objects, jobs>>
vars == <<form, zone>>

Unused == [pc |-> "none", size |-> 0, rules |-> NoRules, priority |-> 5, shown |-> NoRules]
NoJob == [rules |-> NoRules, priority |-> 0]

Init ==
  /\ FormInit
  /\ priority = 5
  /\ uploads = [u \in Uploads |-> Unused]
  /\ objects = [u \in Uploads |-> "none"]
  /\ jobs = [u \in Uploads |-> NoJob]

-----------------------------------------------------------------------------
(* What the page shows, by its rows where there are rows.                  *)
ShownRules ==
  [required |-> requiredFields,
   types    |-> IF expanded THEN TypeRecord(typeRows) ELSE fieldTypes,
   patterns |-> IF expanded THEN PatternRecord(patternRows) ELSE customPatterns]

Edit == EditForm /\ UNCHANGED zone

ChoosePriority(p) ==
  /\ priority' = p
  /\ UNCHANGED <<form, uploads, objects, jobs>>

(* handleFiles.  Of several files the first is taken; what is refused on    *)
(* the spot changes the message of the zone only.  `shown` is history.      *)
ChooseFiles(u, list) ==
  LET file == Head(list) IN
  /\ uploads[u].pc = "none"
  /\ list # <<>>
  /\ file.csv
  /\ file.size <= MaxFileSize
  /\ uploads' = [uploads EXCEPT ![u] =
       [pc |-> "presign", size |-> file.size, rules |-> rulesRef,
        priority |-> priority, shown |-> ShownRules]]
  /\ UNCHANGED <<form, priority, objects, jobs>>

(* Another page is opened: the zone is unmounted, its uploads go on.        *)
Leave ==
  /\ expanded' = FALSE
  /\ requiredFields' = {} /\ fieldTypes' = <<>> /\ customPatterns' = <<>>
  /\ typeRows' = <<>> /\ patternRows' = <<>>
  /\ rulesRef' = NoRules
  /\ priority' = 5
  /\ UNCHANGED <<uploads, objects, jobs>>

-----------------------------------------------------------------------------
WithoutNames(record, names) == [n \in DOMAIN record \ names |-> record[n]]

(* Mutant: only the keys of the body itself are looked at.                  *)
SanitizedBody(rules) == rules

(* sanitizeMiddleware deletes every key that starts with "$" from the body,  *)
(* however deep; required fields are elements of an array, not keys.        *)
Sanitized(rules) ==
  [required |-> rules.required,
   types    |-> WithoutNames(rules.types, DollarNames),
   patterns |-> WithoutNames(rules.patterns, DollarNames)]

(* fileSize of PresignRequestSchema, and of ConfirmUploadSchema.            *)
PresignAccepts(size) == size > 0 /\ size <= MaxFileSize
ConfirmAccepts(size) == size > 0 /\ size <= MaxFileSize

(* jobRepo.create: a Map of Mongoose refuses such keys.                     *)
MapAccepts(record) == DOMAIN record \cap (DollarNames \cup OddNames) = {}

GoTo(u, pc) == uploads' = [uploads EXCEPT ![u].pc = pc]

(* The call ends for a reason that is not in what was chosen: the options   *)
(* it closed over are gone.                                                *)
Fail(u) == uploads' = [uploads EXCEPT ![u] = [Unused EXCEPT !.pc = "failed"]]

(* uploadRateLimiter counts the presigns and the confirms of an address     *)
(* together and answers 429 beyond ten a minute: here, to either of the two *)
(* requests of an upload at any time.                                      *)
TurnAway(u) ==
  /\ uploads[u].pc \in {"presign", "confirm"}
  /\ Fail(u)
  /\ UNCHANGED <<form, priority, objects, jobs>>

(* Mutant: an empty file is refused by the confirm only.                    *)
PresignAnySize(u) ==
  /\ uploads[u].pc = "presign"
  /\ GoTo(u, IF uploads[u].size <= MaxFileSize THEN "put" ELSE "refused")
  /\ UNCHANGED <<form, priority, objects, jobs>>

(* POST /upload/presign: what the schema refuses ends the upload.           *)
Presign(u) ==
  /\ uploads[u].pc = "presign"
  /\ GoTo(u, IF PresignAccepts(uploads[u].size) THEN "put" ELSE "refused")
  /\ UNCHANGED <<form, priority, objects, jobs>>

Put(u) ==
  /\ uploads[u].pc = "put"
  /\ GoTo(u, "confirm")
  /\ objects' = [objects EXCEPT ![u] = "unconfirmed"]
  /\ UNCHANGED <<form, priority, jobs>>

(* Mutant: the options are read when the confirm is sent.                   *)
ConfirmLate(u) ==
  LET rules == Sanitized(rulesRef) IN
  /\ uploads[u].pc = "confirm"
  /\ jobs' = [jobs EXCEPT ![u] = [rules |-> rules, priority |-> priority]]
  /\ objects' = [objects EXCEPT ![u] = "confirmed"]
  /\ GoTo(u, "done")
  /\ UNCHANGED <<form, priority>>

(* POST /upload/confirm.  moveToConfirmed makes a CopySource of the key as  *)
(* it is, which S3 decodes: for a name that would need encoding, and no     *)
(* check before looks at that, the copy throws.  Otherwise the object is    *)
(* moved, and then the job is created.                                     *)
Confirm(u) ==
  LET upload == uploads[u]
      rules == Sanitized(upload.rules)
  IN
  /\ upload.pc = "confirm"
  /\ \/ /\ ~ConfirmAccepts(upload.size)
        /\ GoTo(u, "refused")
        /\ UNCHANGED <<objects, jobs>>
     \/ /\ ConfirmAccepts(upload.size)
        /\ Fail(u)
        /\ UNCHANGED <<objects, jobs>>
     \/ /\ ConfirmAccepts(upload.size)
        /\ objects' = [objects EXCEPT ![u] = "confirmed"]
        /\ IF MapAccepts(rules.types) /\ MapAccepts(rules.patterns)
           THEN /\ jobs' = [jobs EXCEPT ![u] = [rules |-> rules, priority |-> upload.priority]]
                /\ GoTo(u, "done")
           ELSE jobs' = jobs /\ GoTo(u, "refused")
  /\ UNCHANGED <<form, priority>>

-----------------------------------------------------------------------------
Next ==
  \/ Edit
  \/ \E p \in Priorities \ {priority} : ChoosePriority(p)
  \/ \E u \in Uploads, list \in FileLists : ChooseFiles(u, list)
  \/ Leave
  \/ \E u \in Uploads : TurnAway(u) \/ Presign(u) \/ Put(u) \/ Confirm(u)

Spec == Init /\ [][Next]_vars

-----------------------------------------------------------------------------
(* Properties                                                              *)

(* A job has the priority and the rules that the page showed when its file  *)
(* was chosen, whatever is edited while the file is on its way, but for the *)
(* names that the sanitizer takes out without a word.                      *)
JobAsShown ==
  \A u \in Uploads : jobs[u] # NoJob =>
    LET shown == Sanitized(uploads[u].shown) IN
    /\ jobs[u].priority = uploads[u].priority
    /\ jobs[u].rules.required = shown.required
    /\ jobs[u].rules.types = shown.types
    /\ SamePatterns(jobs[u].rules.patterns, shown.patterns)

(* What the schemas, of the requests and of the job, do not accept is       *)
(* refused before the bytes are sent, or not at all: only a rule for a name *)
(* that the job's Map refuses gets as far as the confirm, which then fails  *)
(* after the object was moved.  (The rate limit and a name that the copy    *)
(* cannot take make a confirm fail whatever was chosen.)                    *)
LateRefusals ==
  \A u \in Uploads : uploads[u].pc = "refused" /\ objects[u] # "none" =>
    \E n \in OddNames :
      n \in DOMAIN uploads[u].rules.types \cup DOMAIN uploads[u].rules.patterns
=============================================================================
