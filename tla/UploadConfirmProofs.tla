------------------------- MODULE UploadConfirmProofs -------------------------
(* Proofs about UploadConfirm, for every value of its constants.           *)
EXTENDS UploadConfirm, TLAPS

(* The two ways a handler moves, and what they leave alone.                *)
LEMMA GoToEffect ==
  ASSUME TypeOK, NEW r \in Requests, NEW pc \in Steps, GoTo(r, pc)
  PROVE  /\ requests' \in [Requests -> Request]
         /\ requests'[r].pc = pc
         /\ requests'[r].body = requests[r].body
         /\ requests'[r].batch = requests[r].batch
         /\ requests'[r].at = requests[r].at
         /\ requests'[r].response = requests[r].response
         /\ \A q \in Requests \ {r} : requests'[q] = requests[q]
<1>1. requests \in [Requests -> Request] /\ requests[r] \in Request
  BY DEF TypeOK
<1>2. requests' = [requests EXCEPT ![r] = [requests[r] EXCEPT !.pc = pc]]
  BY DEF GoTo
<1>. DEFINE q == [requests[r] EXCEPT !.pc = pc]
<1>3. /\ q \in Request /\ q.pc = pc /\ q.body = requests[r].body
      /\ q.batch = requests[r].batch
      /\ q.at = requests[r].at /\ q.response = requests[r].response
  BY <1>1 DEF Request
<1>. HIDE DEF q
<1>. QED  BY <1>1, <1>2, <1>3 DEF q

LEMMA AnswerEffect ==
  ASSUME TypeOK, NEW r \in Requests, NEW code \in {"201", "400", "404", "500"}, Answer(r, code)
  PROVE  /\ requests' \in [Requests -> Request]
         /\ requests'[r].pc = "done"
         /\ requests'[r].body = requests[r].body
         /\ requests'[r].batch = requests[r].batch
         /\ requests'[r].at = requests[r].at
         /\ requests'[r].response = code
         /\ \A q \in Requests \ {r} : requests'[q] = requests[q]
<1>1. requests \in [Requests -> Request] /\ requests[r] \in Request
  BY DEF TypeOK
<1>. DEFINE q == [requests[r] EXCEPT !.pc = "done", !.response = code]
<1>2. requests' = [requests EXCEPT ![r] = q]
  BY DEF Answer
<1>3. /\ q \in Request /\ q.pc = "done" /\ q.body = requests[r].body
      /\ q.batch = requests[r].batch
      /\ q.at = requests[r].at /\ q.response = code
  BY <1>1 DEF Request, Steps
<1>. HIDE DEF q
<1>. QED  BY <1>1, <1>2, <1>3

LEMMA BodyIndices ==
  ASSUME UploadAssumption, NEW body \in Bodies
  PROVE  /\ DOMAIN body = 1 .. Len(body) /\ Len(body) \in 1 .. MaxFiles
         /\ \A i \in DOMAIN body : /\ body[i].key \in Keys
                                   /\ body[i].size \in 1 .. MaxFileSize
<1>. DEFINE S == [key : Keys, size : 1 .. MaxFileSize]
<1>1. body \in Seq(S) /\ Len(body) \in 1 .. MaxFiles
  BY DEF UploadAssumption
<1>2. \A f \in S : f.key \in Keys /\ f.size \in 1 .. MaxFileSize
  OBVIOUS
<1>. HIDE DEF S
<1>3. DOMAIN body = 1 .. Len(body) /\ \A i \in 1 .. Len(body) : body[i] \in S
  BY <1>1
<1>. QED  BY <1>1, <1>2, <1>3

(* The handlers that do not move keep their part of the invariant as long  *)
(* as documents and objects do not disappear and nobody queues their jobs.  *)
LEMMA OtherHandlers ==
  ASSUME UInv, NEW r \in Requests, requests'[r] = requests[r],
         \A i \in Items : /\ i \in jobs => i \in jobs'
                          /\ files[i] # None => files'[i] # None
                          /\ confirmed[i] # None => confirmed'[i] # None,
         queue \subseteq queue',
         \A n \in 1 .. MaxFiles : <<r, n>> \in queue' => <<r, n>> \in queue,
         \A n \in Indices(r) : n \in 1 .. MaxFiles
  PROVE  HandlerInv(r)'
<1>1. HandlerInv(r)
  BY DEF UInv
<1>2. \A n \in 1 .. MaxFiles : <<r, n>> \in Items
  BY DEF Items
<1>3. Indices(r)' = Indices(r) /\ ItemsOf(r)' = ItemsOf(r) /\ Current(r)' = Current(r)
  BY DEF Indices, ItemsOf, Current
<1>4. \A n \in Indices(r) : Backed(<<r, n>>) => Backed(<<r, n>>)'
  BY <1>2 DEF Backed
<1>. QED  BY <1>1, <1>2, <1>3, <1>4 DEF HandlerInv, ItemsOf, Current
(* A moving handler: its files stay within the items.                      *)
LEMMA ItemsInRange ==
  ASSUME UploadAssumption, TypeOK, NEW r \in Requests
  PROVE  /\ \A n \in Indices(r) : n \in 1 .. MaxFiles /\ <<r, n>> \in Items
         /\ ItemsOf(r) \subseteq Items
<1>1. requests[r].body \in Bodies \cup {<<>>}
  BY DEF TypeOK, Request
<1>2. CASE requests[r].body = <<>>
  BY <1>2 DEF Indices, ItemsOf
<1>3. CASE requests[r].body \in Bodies
  <2>1. Indices(r) = 1 .. Len(requests[r].body) /\ Len(requests[r].body) \in 1 .. MaxFiles
    BY <1>3, BodyIndices DEF Indices
  <2>2. \A n \in Indices(r) : n \in 1 .. MaxFiles
    BY <2>1 DEF UploadAssumption
  <2>. QED  BY <2>2 DEF Items, ItemsOf
<1>. QED  BY <1>1, <1>2, <1>3

(* The environment: uploads and expiry touch unconfirmed objects only.      *)
LEMMA ClientStep ==
  ASSUME UInv, NEW k \in Keys,
         Expire(k) \/ \E size \in Sizes : Put(k, size)
  PROVE  UInv'
<1>1. /\ UNCHANGED <<confirmed, files, jobs, queue, requests>>
      /\ uploaded' \subseteq Keys /\ disturbed' \subseteq Keys
      /\ unconfirmed' \in [Keys -> Sizes \cup {None}]
  BY DEF UInv, TypeOK, Expire, Put
<1>2. TypeOK'
  BY <1>1 DEF UInv, TypeOK
<1>3. \A i \in queue' : Backed(i)'
  BY <1>1 DEF UInv, Backed
<1>4. \A r \in Requests : HandlerInv(r)'
  BY <1>1 DEF UInv, HandlerInv, Backed, ItemsOf, Indices, Current
<1>. QED  BY <1>2, <1>3, <1>4 DEF UInv

(* A request that arrives.                                                 *)
LEMMA ReceiveEffect ==
  ASSUME UploadAssumption, TypeOK, NEW r \in Requests, NEW c \in Confirms, Receive(r, c)
  PROVE  /\ c.files \in Bodies
         /\ requests' \in [Requests -> Request]
         /\ requests'[r].pc = "verify" /\ requests'[r].response = "none"
         /\ requests'[r].body = c.files /\ requests'[r].batch = c.batch
         /\ requests'[r].checked = {} /\ requests'[r].at = 1
         /\ \A p \in Requests \ {r} : requests'[p] = requests[p]
<1>. DEFINE q == [Idle EXCEPT !.pc = "verify", !.body = c.files, !.batch = c.batch]
<1>1. requests' = [requests EXCEPT ![r] = q] /\ requests \in [Requests -> Request]
  BY DEF Receive, TypeOK
<1>2. c.files \in Bodies /\ c.batch \in Batches \cup {NoBatch} /\ 1 \in 1 .. MaxFiles
  BY DEF Bodies, Batches, UploadAssumption
<1>3. /\ q.pc = "verify" /\ q.response = "none" /\ q.body = c.files /\ q.batch = c.batch
      /\ q.checked = {} /\ q.at = 1
  BY DEF Idle
<1>4. q \in Request
  BY <1>2 DEF Idle, Request, Steps
<1>. HIDE DEF q
<1>. QED  BY <1>1, <1>2, <1>3, <1>4

LEMMA ReceiveStep ==
  ASSUME UploadAssumption, UInv, NEW r \in Requests, NEW c \in Confirms, Receive(r, c)
  PROVE  UInv'
<1>. DEFINE body == c.files
<1>1. /\ requests[r].pc = "idle" /\ TypeOK
      /\ UNCHANGED <<unconfirmed, uploaded, confirmed, files, jobs, queue>>
  BY DEF Receive, UInv
<1>2. /\ body \in Bodies /\ requests' \in [Requests -> Request]
      /\ requests'[r].pc = "verify" /\ requests'[r].body = body
      /\ requests'[r].at = 1 /\ requests'[r].response = "none"
      /\ \A p \in Requests \ {r} : requests'[p] = requests[p]
  BY <1>1, ReceiveEffect
<1>3. disturbed' = disturbed \cup
        {k \in KeysOf(body) : \E q \in InFlight : k \in KeysOf(requests[q].body)}
  BY DEF Receive
<1>. HIDE DEF body
<1>4. TypeOK'
  <2>1. KeysOf(body) \subseteq Keys
    BY <1>2, BodyIndices DEF KeysOf
  <2>2. disturbed' \subseteq Keys
    BY <1>1, <1>3, <2>1 DEF TypeOK
  <2>. QED  BY <1>1, <1>2, <2>2 DEF TypeOK
<1>5. \A i \in queue' : Backed(i)'
  BY <1>1 DEF UInv, Backed
<1>6. HandlerInv(r)'
  <2>1. 1 \in DOMAIN body /\ \A n \in DOMAIN body : n \in 1 .. MaxFiles
    BY <1>2, BodyIndices DEF UploadAssumption
  <2>. QED  BY <1>1, <1>2, <2>1 DEF HandlerInv, Indices
<1>7. \A p \in Requests \ {r} : HandlerInv(p)'
  BY <1>1, <1>2, ItemsInRange, OtherHandlers
<1>. QED  BY <1>4, <1>5, <1>6, <1>7 DEF UInv

(* A handler that gives up, or is lost, where it stands.                   *)
LEMMA HandlerStops ==
  ASSUME UploadAssumption, UInv, NEW r \in Requests, requests[r].pc # "idle",
         requests'[r].pc \in {"done", "lost"}, requests'[r].body = requests[r].body,
         requests'[r].response = "201" => ItemsOf(r) \subseteq queue',
         requests'[r].response # "none" => requests'[r].pc = "done",
         queue \subseteq queue'
  PROVE  HandlerInv(r)'
<1>1. ItemsOf(r)' = ItemsOf(r)
  BY DEF ItemsOf, Indices
<1>. QED  BY <1>1 DEF HandlerInv

(* A HEAD that answers: one more file is checked, or the request is refused. *)
LEMMA VerifyEffect ==
  ASSUME UploadAssumption, TypeOK, NEW r \in Requests, NEW i \in Indices(r), Verify(r, i)
  PROVE  /\ requests' \in [Requests -> Request]
         /\ requests[r].pc = "verify"
         /\ requests'[r].body = requests[r].body
         /\ requests'[r].batch = requests[r].batch
         /\ requests'[r].at = requests[r].at
         /\ \/ /\ requests'[r].pc \in {"verify", "copy"}
               /\ requests'[r].response = requests[r].response
               /\ requests'[r].checked = requests[r].checked \cup {i}
               /\ requests'[r].pc = "copy" => requests'[r].checked = Indices(r)
               /\ unconfirmed[requests[r].body[i].key] = requests[r].body[i].size
            \/ requests'[r].pc = "done" /\ requests'[r].response \in {"400", "404"}
         /\ \A p \in Requests \ {r} : requests'[p] = requests[p]
<1>1. requests \in [Requests -> Request] /\ requests[r] \in Request
  BY DEF TypeOK
<1>2. requests[r].pc = "verify"
  BY DEF Verify
<1>3. CASE \E code \in {"400", "404"} : Answer(r, code)
  BY <1>2, <1>3, AnswerEffect
<1>4. CASE ~ \E code \in {"400", "404"} : Answer(r, code)
  <2>. DEFINE c == requests[r].checked \cup {i}
              s == IF c = Indices(r) THEN "copy" ELSE "verify"
              q == [requests[r] EXCEPT !.checked = c, !.pc = s]
  <2>1. /\ requests' = [requests EXCEPT ![r] = q]
        /\ unconfirmed[requests[r].body[i].key] = requests[r].body[i].size
    BY <1>4 DEF Verify
  <2>2. /\ s \in Steps /\ s \in {"verify", "copy"} /\ (s = "copy" => c = Indices(r))
        /\ c \in SUBSET (1 .. MaxFiles)
    BY <1>1, ItemsInRange DEF Steps, Request
  <2>. HIDE DEF c, s
  <2>3. /\ q \in Request /\ q.pc = s /\ q.body = requests[r].body
        /\ q.batch = requests[r].batch
        /\ q.at = requests[r].at /\ q.response = requests[r].response /\ q.checked = c
    BY <1>1, <2>2 DEF Request
  <2>. HIDE DEF q
  <2>. QED  BY <1>1, <1>2, <2>1, <2>2, <2>3 DEF c
<1>. QED  BY <1>3, <1>4

LEMMA VerifyStep ==
  ASSUME UploadAssumption, UInv, NEW r \in Requests, NEW i \in Indices(r), Verify(r, i)
  PROVE  UInv'
<1>0. TypeOK /\ HandlerInv(r) /\ requests \in [Requests -> Request] /\ requests[r] \in Request
  BY DEF UInv, TypeOK
<1>1. UNCHANGED stores /\ requests[r].pc = "verify"
  BY DEF Verify
<1>2. /\ requests' \in [Requests -> Request]
      /\ requests'[r].body = requests[r].body
      /\ requests'[r].at = requests[r].at
      /\ \/ requests'[r].pc \in {"verify", "copy"} /\ requests'[r].response = requests[r].response
         \/ requests'[r].pc = "done" /\ requests'[r].response \in {"400", "404"}
      /\ \A p \in Requests \ {r} : requests'[p] = requests[p]
  BY <1>0, <1>1, VerifyEffect
<1>3. TypeOK'
  BY <1>0, <1>1, <1>2 DEF TypeOK, stores
<1>4. \A k \in queue' : Backed(k)'
  BY <1>1 DEF UInv, Backed, stores
<1>5. HandlerInv(r)'
  <2>1. CASE requests'[r].pc \in {"verify", "copy"} /\ requests'[r].response = requests[r].response
    <3>1. /\ queue' = queue /\ jobs' = jobs
          /\ Indices(r)' = Indices(r) /\ ItemsOf(r)' = ItemsOf(r)
      BY <1>1, <1>2 DEF stores, ItemsOf, Indices
    <3>2. /\ requests[r].body \in Bodies /\ requests[r].at = 1 /\ 1 \in Indices(r)
          /\ requests[r].response = "none"
      BY <1>0, <1>1 DEF HandlerInv
    <3>3. \A n \in Indices(r) : ~(n < 1)
      <4>1. \A n \in Indices(r) : n \in 1 .. MaxFiles
        BY <1>0, ItemsInRange
      <4>. QED  BY <4>1 DEF UploadAssumption
    <3>. QED  BY <1>2, <2>1, <3>1, <3>2, <3>3 DEF HandlerInv
  <2>2. CASE requests'[r].pc = "done" /\ requests'[r].response \in {"400", "404"}
    BY <1>0, <1>1, <1>2, <2>2, HandlerStops DEF stores, HandlerInv
  <2>. QED  BY <1>2, <2>1, <2>2
<1>6. \A p \in Requests \ {r} : HandlerInv(p)'
  BY <1>0, <1>1, <1>2, ItemsInRange, OtherHandlers DEF stores
<1>. QED  BY <1>3, <1>4, <1>5, <1>6 DEF UInv
(* The four calls that a handler makes for its current file. The stores     *)
(* only grow, apart from the unconfirmed objects; the handler goes on to pc *)
(* or answers 500.                                                         *)
LEMMA FileStep ==
  ASSUME UploadAssumption, UInv, NEW r \in Requests,
         requests[r].pc \in {"copy", "delete", "createFile", "createJob", "enqueue", "respond"},
         TypeOK', jobs \subseteq jobs',
         \A i \in Items : /\ files[i] # None => files'[i] # None
                          /\ confirmed[i] # None => confirmed'[i] # None,
         queue' = queue \/ (queue' = queue \cup ItemsOf(r) /\ requests[r].pc = "enqueue"),
         requests'[r].body = requests[r].body,
         \A p \in Requests \ {r} : requests'[p] = requests[p],
         HandlerInv(r)'
  PROVE  UInv'
<1>1. TypeOK /\ HandlerInv(r) /\ queue \subseteq Items
  BY DEF UInv, TypeOK
<1>2. ItemsOf(r) \subseteq Items
  BY <1>1, ItemsInRange
<1>3. \A i \in Items : Backed(i) => Backed(i)'
  BY DEF Backed
<1>4. requests[r].pc = "enqueue" => \A i \in ItemsOf(r) : Backed(i)
  BY <1>1 DEF HandlerInv
<1>5. \A i \in queue' : Backed(i)'
  BY <1>1, <1>2, <1>3, <1>4 DEF UInv
<1>6. \A p \in Requests \ {r} : HandlerInv(p)'
  <2>. SUFFICES ASSUME NEW p \in Requests \ {r} PROVE HandlerInv(p)'
    OBVIOUS
  <2>1. \A n \in 1 .. MaxFiles : <<p, n>> \in queue' => <<p, n>> \in queue
    BY DEF ItemsOf
  <2>2. \A n \in Indices(p) : n \in 1 .. MaxFiles
    BY <1>1, ItemsInRange
  <2>. QED  BY <2>1, <2>2, OtherHandlers
<1>. QED  BY <1>5, <1>6 DEF UInv

(* A call that rejects, with its effect or without it.                     *)
LEMMA RejectedCall ==
  ASSUME UploadAssumption, UInv, NEW r \in Requests, Answer(r, "500"),
         requests[r].pc \in {"copy", "delete", "createFile", "createJob", "enqueue"},
         unconfirmed' \in [Keys -> Sizes \cup {None}], uploaded' \subseteq Keys,
         confirmed' \in [Items -> Sizes \cup {None}],
         files' \in [Items -> (1 .. MaxFileSize) \cup {None}],
         jobs' \subseteq Items, queue' \subseteq Items, disturbed' \subseteq Keys,
         jobs \subseteq jobs',
         \A i \in Items : /\ files[i] # None => files'[i] # None
                          /\ confirmed[i] # None => confirmed'[i] # None,
         queue' = queue \/ (queue' = queue \cup ItemsOf(r) /\ requests[r].pc = "enqueue")
  PROVE  UInv'
<1>1. TypeOK /\ HandlerInv(r)
  BY DEF UInv
<1>2. /\ requests' \in [Requests -> Request]
      /\ requests'[r].pc = "done"
      /\ requests'[r].body = requests[r].body
      /\ requests'[r].response = "500"
      /\ \A q \in Requests \ {r} : requests'[q] = requests[q]
  BY <1>1, AnswerEffect
<1>3. TypeOK'
  BY <1>2 DEF TypeOK
<1>4. HandlerInv(r)'
  BY <1>2, HandlerStops
<1>. QED  BY <1>2, <1>3, <1>4, FileStep

LEMMA CopyStep ==
  ASSUME UploadAssumption, UInv, NEW r \in Requests, Copy(r)
  PROVE  UInv'
<1>0. TypeOK /\ HandlerInv(r) /\ confirmed \in [Items -> Sizes \cup {None}]
  BY DEF UInv, TypeOK
<1>1. /\ requests[r].pc = "copy"
      /\ UNCHANGED <<unconfirmed, uploaded, files, jobs, queue, disturbed>>
      /\ requests[r].body \in Bodies /\ requests[r].at \in Indices(r)
  BY <1>0 DEF Copy, HandlerInv
<1>2. Current(r) \in Items /\ CurrentFile(r).key \in Keys
  BY <1>0, <1>1, ItemsInRange, BodyIndices DEF Current, CurrentFile, Indices
<1>. DEFINE object == unconfirmed[CurrentFile(r).key]
<1>3. object \in Sizes \cup {None}
  BY <1>0, <1>2 DEF TypeOK
<1>4. \/ GoTo(r, "delete") /\ object # None /\ confirmed' = [confirmed EXCEPT ![Current(r)] = object]
      \/ Answer(r, "500")
  BY DEF Copy, Proceed
<1>5. \/ confirmed' = confirmed
      \/ object # None /\ confirmed' = [confirmed EXCEPT ![Current(r)] = object]
  BY DEF Copy
<1>. HIDE DEF object
<1>6. /\ confirmed' \in [Items -> Sizes \cup {None}]
      /\ \A i \in Items : confirmed[i] # None => confirmed'[i] # None
  BY <1>0, <1>2, <1>3, <1>5
<1>7. CASE GoTo(r, "delete") /\ object # None /\ confirmed' = [confirmed EXCEPT ![Current(r)] = object]
  <2>1. /\ requests' \in [Requests -> Request]
        /\ requests'[r].pc = "delete"
        /\ requests'[r].body = requests[r].body
        /\ requests'[r].at = requests[r].at
        /\ requests'[r].response = requests[r].response
        /\ \A q \in Requests \ {r} : requests'[q] = requests[q]
    BY <1>0, <1>7, GoToEffect DEF Steps
  <2>2. TypeOK'
    BY <1>0, <1>1, <1>6, <2>1 DEF TypeOK
  <2>3. /\ Indices(r)' = Indices(r) /\ ItemsOf(r)' = ItemsOf(r) /\ Current(r)' = Current(r)
    BY <2>1 DEF Indices, ItemsOf, Current
  <2>4. \A n \in Indices(r) : Backed(<<r, n>>) => Backed(<<r, n>>)'
    BY <1>0, <1>1, <1>6, ItemsInRange DEF Backed
  <2>5. confirmed'[Current(r)] # None
    BY <1>0, <1>2, <1>7
  <2>6. HandlerInv(r)'
    BY <1>0, <1>1, <2>1, <2>3, <2>4, <2>5 DEF HandlerInv
  <2>. QED  BY <1>1, <1>6, <2>1, <2>2, <2>6, FileStep
<1>8. CASE Answer(r, "500")
  BY <1>0, <1>1, <1>6, <1>8, RejectedCall DEF TypeOK
<1>. QED  BY <1>4, <1>7, <1>8

LEMMA DeleteStep ==
  ASSUME UploadAssumption, UInv, NEW r \in Requests, Delete(r)
  PROVE  UInv'
<1>0. TypeOK /\ HandlerInv(r)
  BY DEF UInv
<1>1. /\ requests[r].pc = "delete"
      /\ UNCHANGED <<uploaded, confirmed, files, jobs, queue, disturbed>>
      /\ unconfirmed' \in [Keys -> Sizes \cup {None}]
  BY <1>0 DEF Delete, TypeOK
<1>2. GoTo(r, "createFile") \/ Answer(r, "500")
  BY DEF Delete, Proceed
<1>3. CASE GoTo(r, "createFile")
  <2>1. /\ requests' \in [Requests -> Request]
        /\ requests'[r].pc = "createFile"
        /\ requests'[r].body = requests[r].body
        /\ requests'[r].at = requests[r].at
        /\ requests'[r].response = requests[r].response
        /\ \A q \in Requests \ {r} : requests'[q] = requests[q]
    BY <1>0, <1>3, GoToEffect DEF Steps
  <2>2. TypeOK'
    BY <1>0, <1>1, <2>1 DEF TypeOK
  <2>3. /\ Indices(r)' = Indices(r) /\ ItemsOf(r)' = ItemsOf(r) /\ Current(r)' = Current(r)
    BY <2>1 DEF Indices, ItemsOf, Current
  <2>4. HandlerInv(r)'
    BY <1>0, <1>1, <2>1, <2>3 DEF HandlerInv, Backed
  <2>. QED  BY <1>1, <2>1, <2>2, <2>4, FileStep
<1>4. CASE Answer(r, "500")
  BY <1>0, <1>1, <1>4, RejectedCall DEF TypeOK
<1>. QED  BY <1>2, <1>3, <1>4

LEMMA CreateFileStep ==
  ASSUME UploadAssumption, UInv, NEW r \in Requests, CreateFile(r)
  PROVE  UInv'
<1>0. TypeOK /\ HandlerInv(r) /\ files \in [Items -> (1 .. MaxFileSize) \cup {None}]
  BY DEF UInv, TypeOK
<1>1. /\ requests[r].pc = "createFile"
      /\ UNCHANGED <<unconfirmed, uploaded, confirmed, jobs, queue, disturbed>>
      /\ requests[r].body \in Bodies /\ requests[r].at \in Indices(r)
  BY <1>0 DEF CreateFile, HandlerInv
<1>. DEFINE size == CurrentFile(r).size
<1>2. Current(r) \in Items /\ size \in 1 .. MaxFileSize
  BY <1>0, <1>1, ItemsInRange, BodyIndices DEF Current, CurrentFile, Indices
<1>3. \/ GoTo(r, "createJob") /\ files' = [files EXCEPT ![Current(r)] = size]
      \/ Answer(r, "500")
  BY DEF CreateFile, Proceed
<1>4. files' = files \/ files' = [files EXCEPT ![Current(r)] = size]
  BY DEF CreateFile
<1>5. size # None
  BY <1>2 DEF None, UploadAssumption
<1>. HIDE DEF size
<1>6. /\ files' \in [Items -> (1 .. MaxFileSize) \cup {None}]
      /\ \A i \in Items : files[i] # None => files'[i] # None
  BY <1>0, <1>2, <1>4, <1>5
<1>7. CASE GoTo(r, "createJob") /\ files' = [files EXCEPT ![Current(r)] = size]
  <2>1. /\ requests' \in [Requests -> Request]
        /\ requests'[r].pc = "createJob"
        /\ requests'[r].body = requests[r].body
        /\ requests'[r].at = requests[r].at
        /\ requests'[r].response = requests[r].response
        /\ \A q \in Requests \ {r} : requests'[q] = requests[q]
    BY <1>0, <1>7, GoToEffect DEF Steps
  <2>2. TypeOK'
    BY <1>0, <1>1, <1>6, <2>1 DEF TypeOK
  <2>3. /\ Indices(r)' = Indices(r) /\ ItemsOf(r)' = ItemsOf(r) /\ Current(r)' = Current(r)
    BY <2>1 DEF Indices, ItemsOf, Current
  <2>4. \A n \in Indices(r) : Backed(<<r, n>>) => Backed(<<r, n>>)'
    BY <1>0, <1>1, <1>6, ItemsInRange DEF Backed
  <2>5. files'[Current(r)] # None
    BY <1>0, <1>2, <1>5, <1>7
  <2>6. HandlerInv(r)'
    BY <1>0, <1>1, <2>1, <2>3, <2>4, <2>5 DEF HandlerInv
  <2>. QED  BY <1>1, <1>6, <2>1, <2>2, <2>6, FileStep
<1>8. CASE Answer(r, "500")
  BY <1>0, <1>1, <1>6, <1>8, RejectedCall DEF TypeOK
<1>. QED  BY <1>3, <1>7, <1>8

LEMMA CreateJobStep ==
  ASSUME UploadAssumption, UInv, NEW r \in Requests, CreateJob(r)
  PROVE  UInv'
<1>0. TypeOK /\ HandlerInv(r) /\ requests \in [Requests -> Request] /\ requests[r] \in Request
  BY DEF UInv, TypeOK
<1>. DEFINE body == requests[r].body
            at == requests[r].at
            last == at = Len(body)
            pc == IF last THEN "enqueue" ELSE "copy"
            next == IF last THEN at ELSE at + 1
            q == [requests[r] EXCEPT !.pc = pc, !.at = next]
<1>1. /\ requests[r].pc = "createJob"
      /\ UNCHANGED <<unconfirmed, uploaded, confirmed, files, queue, disturbed>>
      /\ body \in Bodies /\ at \in Indices(r)
      /\ files[Current(r)] # None /\ confirmed[Current(r)] # None
      /\ \A n \in Indices(r) : n < at => Backed(<<r, n>>)
      /\ requests[r].response = "none"
  BY <1>0 DEF CreateJob, HandlerInv
<1>2. /\ Indices(r) = 1 .. Len(body)
      /\ Len(body) \in 1 .. MaxFiles
      /\ at \in Nat
      /\ Current(r) \in Items
  <2>1. /\ DOMAIN body = 1 .. Len(body)
        /\ Len(body) \in 1 .. MaxFiles
    BY <1>1, BodyIndices
  <2>2. Indices(r) = DOMAIN body
    BY DEF Indices
  <2>3. at \in 1 .. Len(body)
    BY <1>1, <2>1, <2>2
  <2>4. MaxFiles \in Nat
    BY DEF UploadAssumption
  <2>5. at \in 1 .. MaxFiles
    BY <2>1, <2>3, <2>4
  <2>6. Current(r) \in Items
    BY <2>5 DEF Current, Items
  <2>. QED  BY <2>1, <2>2, <2>3, <2>5, <2>6
<1>3. \/ requests' = [requests EXCEPT ![r] = q] /\ jobs' = jobs \cup {Current(r)}
      \/ Answer(r, "500")
  BY DEF CreateJob
<1>4. jobs \subseteq jobs' /\ jobs' \subseteq Items
  BY <1>0, <1>2 DEF CreateJob, TypeOK
<1>5. CASE requests' = [requests EXCEPT ![r] = q] /\ jobs' = jobs \cup {Current(r)}
  <2>1. /\ pc \in {"enqueue", "copy"}
        /\ pc \in Steps
        /\ next \in 1 .. MaxFiles
        /\ next \in Indices(r)
        /\ (pc = "copy" => next = at + 1)
        /\ (pc = "enqueue" => at = Len(body))
    <3>. DEFINE length == Len(body)
    <3>1. /\ at \in 1 .. length
          /\ length \in 1 .. MaxFiles
          /\ MaxFiles \in Nat
          /\ Indices(r) = 1 .. length
      BY <1>1, <1>2 DEF UploadAssumption
    <3>2. CASE at = length
      <4>1. pc = "enqueue" /\ next = at
        BY <3>2
      <4>. QED  BY <3>1, <3>2, <4>1 DEF Steps
    <3>3. CASE at # length
      <4>1. pc = "copy" /\ next = at + 1
        BY <3>3
      <4>. HIDE DEF length
      <4>2. at + 1 \in 1 .. length
        BY <3>1, <3>3
      <4>3. at + 1 \in 1 .. MaxFiles
        BY <3>1, <4>2
      <4>. QED  BY <3>1, <4>1, <4>2, <4>3 DEF Steps
    <3>. QED  BY <3>2, <3>3
  <2>. HIDE DEF pc, next
  <2>2. /\ q \in Request /\ q.pc = pc /\ q.at = next
        /\ q.body = body /\ q.response = requests[r].response
    BY <1>0, <2>1 DEF Request
  <2>. HIDE DEF q
  <2>3. /\ requests' \in [Requests -> Request]
        /\ requests'[r] = q
        /\ \A p \in Requests \ {r} : requests'[p] = requests[p]
    BY <1>0, <1>5, <2>2
  <2>4. TypeOK'
    BY <1>0, <1>1, <1>4, <2>3 DEF TypeOK
  <2>5. Indices(r)' = Indices(r) /\ ItemsOf(r)' = ItemsOf(r)
    BY <2>2, <2>3 DEF Indices, ItemsOf
  <2>6. \A n \in Indices(r) : n <= at => Backed(<<r, n>>)'
    <3>. SUFFICES ASSUME NEW n \in Indices(r), n <= at PROVE Backed(<<r, n>>)'
      OBVIOUS
    <3>1. CASE n = at
      BY <1>1, <1>5, <3>1 DEF Backed, Current
    <3>2. CASE n < at
      BY <1>1, <1>4, <3>2 DEF Backed
    <3>. QED  BY <1>2, <3>1, <3>2
  <2>7. CASE pc = "copy"
    <3>1. \A n \in Indices(r) : n < next => Backed(<<r, n>>)'
      BY <1>2, <2>1, <2>6, <2>7
    <3>. QED  BY <1>1, <1>4, <2>1, <2>2, <2>3, <2>4, <2>5, <2>7, <3>1, FileStep DEF HandlerInv
  <2>8. CASE pc = "enqueue"
    <3>1. \A i \in ItemsOf(r) : Backed(i)'
      BY <1>2, <2>1, <2>6, <2>8 DEF ItemsOf
    <3>. QED  BY <1>1, <1>4, <2>1, <2>2, <2>3, <2>4, <2>5, <2>8, <3>1, FileStep DEF HandlerInv
  <2>. QED  BY <2>1, <2>7, <2>8
<1>6. CASE Answer(r, "500")
  BY <1>0, <1>1, <1>4, <1>6, RejectedCall DEF TypeOK
<1>. QED  BY <1>3, <1>5, <1>6

LEMMA EnqueueStep ==
  ASSUME UploadAssumption, UInv, NEW r \in Requests, Enqueue(r)
  PROVE  UInv'
<1>0. TypeOK /\ HandlerInv(r) /\ ItemsOf(r) \subseteq Items
  BY ItemsInRange DEF UInv
<1>1. /\ requests[r].pc = "enqueue"
      /\ UNCHANGED <<unconfirmed, uploaded, confirmed, files, jobs, disturbed>>
      /\ queue' = queue \/ queue' = queue \cup ItemsOf(r)
      /\ ItemsOf(r) \subseteq jobs
  BY <1>0 DEF Enqueue, HandlerInv, Backed
<1>2. \/ GoTo(r, "respond") /\ queue' = queue \cup ItemsOf(r)
      \/ Answer(r, "500")
  BY DEF Enqueue, Proceed
<1>3. queue' \subseteq Items
  BY <1>0, <1>1 DEF TypeOK
<1>4. CASE GoTo(r, "respond") /\ queue' = queue \cup ItemsOf(r)
  <2>1. /\ requests' \in [Requests -> Request]
        /\ requests'[r].pc = "respond"
        /\ requests'[r].body = requests[r].body
        /\ requests'[r].at = requests[r].at
        /\ requests'[r].response = requests[r].response
        /\ \A q \in Requests \ {r} : requests'[q] = requests[q]
    BY <1>0, <1>4, GoToEffect DEF Steps
  <2>2. TypeOK'
    BY <1>0, <1>1, <1>3, <2>1 DEF TypeOK
  <2>3. Indices(r)' = Indices(r) /\ ItemsOf(r)' = ItemsOf(r)
    BY <2>1 DEF Indices, ItemsOf
  <2>4. HandlerInv(r)'
    BY <1>0, <1>1, <1>4, <2>1, <2>3 DEF HandlerInv, Backed
  <2>. QED  BY <1>1, <1>4, <2>1, <2>2, <2>4, FileStep
<1>5. CASE Answer(r, "500")
  BY <1>0, <1>1, <1>3, <1>5, RejectedCall DEF TypeOK
<1>. QED  BY <1>2, <1>4, <1>5

LEMMA RespondStep ==
  ASSUME UploadAssumption, UInv, NEW r \in Requests, Respond(r)
  PROVE  UInv'
<1>0. TypeOK /\ HandlerInv(r)
  BY DEF UInv
<1>1. requests[r].pc = "respond" /\ UNCHANGED stores
  BY DEF Respond
<1>2. /\ requests' \in [Requests -> Request]
      /\ requests'[r].pc = "done"
      /\ requests'[r].body = requests[r].body
      /\ requests'[r].response = "201"
      /\ \A q \in Requests \ {r} : requests'[q] = requests[q]
  BY <1>0, AnswerEffect DEF Respond
<1>3. TypeOK'
  BY <1>0, <1>1, <1>2 DEF TypeOK, stores
<1>4. ItemsOf(r) \subseteq queue
  BY <1>0, <1>1 DEF HandlerInv
<1>5. HandlerInv(r)'
  BY <1>1, <1>2, <1>4, HandlerStops DEF stores
<1>. QED  BY <1>1, <1>2, <1>3, <1>5, FileStep DEF stores

LEMMA LoseStep ==
  ASSUME UploadAssumption, UInv, NEW r \in Requests, Lose(r)
  PROVE  UInv'
<1>0. TypeOK /\ HandlerInv(r)
  BY DEF UInv
<1>1. /\ requests[r].pc \notin {"idle", "done", "lost"} /\ UNCHANGED stores
      /\ GoTo(r, "lost")
  BY DEF Lose, InFlight
<1>2. /\ requests' \in [Requests -> Request]
      /\ requests'[r].pc = "lost"
      /\ requests'[r].body = requests[r].body
      /\ requests'[r].response = requests[r].response
      /\ \A q \in Requests \ {r} : requests'[q] = requests[q]
  BY <1>0, <1>1, GoToEffect DEF Steps
<1>3. TypeOK'
  BY <1>0, <1>1, <1>2 DEF TypeOK, stores
<1>4. requests[r].response = "none"
  BY <1>0, <1>1 DEF HandlerInv
<1>5. HandlerInv(r)'
  BY <1>1, <1>2, <1>4, HandlerStops DEF stores
<1>6. \A i \in queue' : Backed(i)'
  BY <1>1 DEF UInv, Backed, stores
<1>7. \A p \in Requests \ {r} : HandlerInv(p)'
  BY <1>0, <1>1, <1>2, ItemsInRange, OtherHandlers DEF stores
<1>. QED  BY <1>3, <1>5, <1>6, <1>7 DEF UInv

-----------------------------------------------------------------------------
LEMMA InitInv == ASSUME UploadAssumption, Init PROVE UInv
<1>1. TypeOK
  BY DEF UploadAssumption, Init, TypeOK, Idle, Request, Steps
<1>2. \A r \in Requests : HandlerInv(r)
  BY DEF Init, Idle, HandlerInv, ItemsOf, Indices
<1>. QED  BY <1>1, <1>2 DEF Init, UInv

LEMMA NextInv == ASSUME UploadAssumption, UInv, [Next]_vars PROVE UInv'
<1>1. ASSUME NEW k \in Keys, Expire(k) \/ \E size \in Sizes : Put(k, size) PROVE UInv'
  BY <1>1, ClientStep
<1>2. ASSUME NEW r \in Requests, \E c \in Confirms : Receive(r, c) PROVE UInv'
  BY <1>2, ReceiveStep
<1>3. ASSUME NEW r \in Requests, Handle(r) PROVE UInv'
  BY <1>3, VerifyStep, CopyStep, DeleteStep, CreateFileStep, CreateJobStep, EnqueueStep,
     RespondStep DEF Handle
<1>4. ASSUME NEW r \in Requests, Lose(r) PROVE UInv'
  BY <1>4, LoseStep
<1>5. CASE UNCHANGED vars
  BY <1>5 DEF vars, UInv, TypeOK, HandlerInv, Backed, ItemsOf, Indices, Current
<1>. QED  BY <1>1, <1>2, <1>3, <1>4, <1>5 DEF Next

(* The inductive invariant holds in every reachable state.                 *)
THEOREM Invariance == Spec => []UInv
<1>1. Init => UInv
  BY InitInv, UploadAssumption
<1>2. UInv /\ [Next]_vars => UInv'
  BY NextInv, UploadAssumption
<1>. QED  BY <1>1, <1>2, PTL DEF Spec

(* Whatever calls fail and wherever the API stops, a queued job has its     *)
(* documents and its object.                                               *)
THEOREM QueuedJobsBacked == Spec => []QueuedJobsAreBacked
<1>1. UInv => QueuedJobsAreBacked
  BY DEF UInv, Backed, QueuedJobsAreBacked
<1>. QED  BY <1>1, Invariance, PTL

(* A request answered 201 has all of its jobs in the queue.                *)
THEOREM SuccessQueued == Spec => []SuccessMeansQueued
<1>1. UInv => SuccessMeansQueued
  BY DEF UInv, HandlerInv, SuccessMeansQueued
<1>. QED  BY <1>1, Invariance, PTL

-----------------------------------------------------------------------------
(* Undisturbed uploads                                                     *)

LEMMA KeyOfItem == \A r \in Requests : \A n : KeyOf(<<r, n>>) = requests[r].body[n].key
BY DEF KeyOf

(* The keys of a request are keys of Keys.                                 *)
LEMMA KeysInRange ==
  ASSUME UploadAssumption, TypeOK, NEW r \in Requests, NEW n \in Indices(r)
  PROVE  /\ requests[r].body \in Bodies
         /\ requests[r].body[n].key \in Keys
         /\ requests[r].body[n].size # None
         /\ requests[r].body[n].key \in KeysOf(requests[r].body)
<1>1. requests[r].body \in Bodies \cup {<<>>} /\ requests[r].body # <<>>
  BY DEF TypeOK, Request, Indices
<1>2. requests[r].body \in Bodies
  BY <1>1
<1>3. requests[r].body[n].key \in Keys /\ requests[r].body[n].size \in 1 .. MaxFileSize
  BY <1>2, BodyIndices DEF Indices
<1>4. requests[r].body[n].size # None
  BY <1>3 DEF None, UploadAssumption
<1>5. requests[r].body[n].key \in KeysOf(requests[r].body)
  BY DEF Indices, KeysOf
<1>. QED  BY <1>2, <1>3, <1>4, <1>5

(* A step of one handler that leaves the unconfirmed objects alone.        *)
LEMMA KeepQuiet ==
  ASSUME UploadAssumption, TypeOK, KeepInv, UNCHANGED <<unconfirmed, uploaded, disturbed>>,
         \A q \in Requests :
           /\ requests'[q].body = requests[q].body
           /\ requests'[q].pc = "idle" => requests[q].pc = "idle"
           /\ q \in InFlight' => q \in InFlight
           /\ \A n \in (1 .. MaxFiles) \ Indices(q) :
                files'[<<q, n>>] = files[<<q, n>>] /\ confirmed'[<<q, n>>] = confirmed[<<q, n>>]
           /\ \A n \in Indices(q) :
                LET f == requests[q].body[n] IN
                /\ confirmed[<<q, n>>] # None => confirmed'[<<q, n>>] # None
                /\ f.key \notin disturbed =>
                     /\ confirmed'[<<q, n>>] \in {confirmed[<<q, n>>], f.size}
                     /\ files'[<<q, n>>] \in {files[<<q, n>>], f.size}
                     /\ Seen(q, n)' => Seen(q, n) \/ unconfirmed[f.key] = f.size
                     /\ requests'[q].pc = "delete" /\ n = requests'[q].at =>
                          \/ requests[q].pc = "delete" /\ n = requests[q].at
                          \/ Alone(q, n) /\ ~Taken(q, n)
                /\ Taken(q, n)' => Taken(q, n)
  PROVE  KeepInv'
<1>1. \A q \in Requests : Indices(q)' = Indices(q)
  BY DEF Indices
<1>2. \A q \in Requests : \A n : KeyOf(<<q, n>>)' = KeyOf(<<q, n>>)
  BY KeyOfItem DEF KeyOf
<1>3. BodyInv'
  BY <1>1 DEF KeepInv, BodyInv
<1>4. UploadsAreKept'
  BY <1>1, <1>2 DEF KeepInv, UploadsAreKept
<1>5. \A r, q \in InFlight' :
        \A k \in KeysOf(requests'[r].body) \cap KeysOf(requests'[q].body) : r = q \/ k \in disturbed'
  <2>1. \A r \in InFlight' : r \in Requests /\ r \in InFlight /\ requests'[r].body = requests[r].body
    BY DEF InFlight
  <2>. QED  BY <2>1 DEF KeepInv
<1>6. ASSUME NEW r \in Requests, NEW n \in Indices(r)
      PROVE  /\ FileInv(r, n)'
             /\ KeyOf(<<r, n>>)' \notin disturbed' =>
                  /\ Taken(r, n)' => Alone(r, n)'
                  /\ requests'[r].pc = "delete" /\ n = requests'[r].at => Alone(r, n)' /\ ~Taken(r, n)'
  <2>. DEFINE f == requests[r].body[n]
  <2>1. /\ f.key \in Keys /\ f.size # None /\ requests'[r].body[n] = f
        /\ KeyOf(<<r, n>>) = f.key /\ KeyOf(<<r, n>>)' = f.key
    BY <1>2, KeysInRange, KeyOfItem
  <2>2. /\ FileInv(r, n)
        /\ f.key \notin disturbed => /\ Taken(r, n) => Alone(r, n)
                                     /\ requests[r].pc = "delete" /\ n = requests[r].at =>
                                          Alone(r, n) /\ ~Taken(r, n)
        /\ unconfirmed[f.key] # None => f.key \in uploaded
    BY <2>1 DEF KeepInv
  <2>3. Alone(r, n) => Alone(r, n)'
    BY <1>1, <1>2 DEF Alone
  <2>4. FileInv(r, n)'
    BY <2>1, <2>2 DEF FileInv
  <2>. QED  BY <2>1, <2>2, <2>3, <2>4
<1>. QED  BY <1>1, <1>3, <1>4, <1>5, <1>6 DEF KeepInv

(* An upload to a fresh key meets nobody; a second one disturbs the key.   *)
LEMMA KeepPut ==
  ASSUME UploadAssumption, TypeOK, KeepInv, NEW k \in Keys, NEW size \in Sizes, Put(k, size)
  PROVE  KeepInv'
<1>1. /\ unconfirmed \in [Keys -> Sizes \cup {None}]
      /\ UNCHANGED <<confirmed, files, jobs, queue, requests>>
      /\ uploaded' = uploaded \cup {k} /\ disturbed \subseteq disturbed'
      /\ k \in uploaded => k \in disturbed'
  BY DEF Put, TypeOK
<1>2. /\ unconfirmed'[k] = size /\ size # None
      /\ \A l \in Keys \ {k} : unconfirmed'[l] = unconfirmed[l]
  BY <1>1 DEF Put, UploadAssumption, None
<1>3. /\ \A q \in Requests : Indices(q)' = Indices(q)
      /\ \A q \in Requests : \A n : /\ KeyOf(<<q, n>>)' = KeyOf(<<q, n>>)
                                    /\ Seen(q, n)' = Seen(q, n)
                                    /\ Taken(q, n)' = Taken(q, n)
                                    /\ Alone(q, n)' = Alone(q, n)
      /\ InFlight' = InFlight
  BY <1>1 DEF Indices, KeyOf, Seen, Taken, Alone, InFlight
<1>4. BodyInv' /\ UploadsAreKept'
  <2>1. BodyInv'
    BY <1>1, <1>3 DEF KeepInv, BodyInv
  <2>2. ASSUME NEW l \in uploaded'
        PROVE  \/ unconfirmed'[l] # None
               \/ \E r \in Requests : \E n \in Indices(r) :
                    KeyOf(<<r, n>>) = l /\ confirmed[<<r, n>>] # None
    <3>1. CASE l = k
      BY <1>2, <3>1
    <3>2. CASE l # k
      <4>1. l \in uploaded /\ unconfirmed'[l] = unconfirmed[l]
        BY <1>1, <1>2, <2>2, <3>2 DEF TypeOK
      <4>. QED  BY <4>1 DEF KeepInv, UploadsAreKept
    <3>. QED  BY <3>1, <3>2
  <2>3. UploadsAreKept'
    BY <1>1, <1>3, <2>2 DEF UploadsAreKept
  <2>. QED  BY <2>1, <2>3
<1>5. \A l \in Keys : unconfirmed'[l] # None => l \in uploaded'
  BY <1>1, <1>2 DEF KeepInv
<1>6. ASSUME NEW r \in Requests, NEW n \in Indices(r) PROVE FileInv(r, n)'
  <2>. DEFINE f == requests[r].body[n]
  <2>1. f.key \in Keys /\ requests'[r].body[n] = f /\ FileInv(r, n)
    BY <1>1, KeysInRange DEF KeepInv
  <2>2. f.key = k /\ k \notin disturbed' => ~Seen(r, n) /\ ~Taken(r, n)
    BY <1>1, <2>1 DEF FileInv
  <2>. QED  BY <1>1, <1>2, <1>3, <2>1, <2>2 DEF FileInv
<1>. QED  BY <1>1, <1>3, <1>4, <1>5, <1>6 DEF KeepInv

LEMMA KeepExpire ==
  ASSUME UploadAssumption, TypeOK, KeepInv, NEW k \in Keys, Expire(k)
  PROVE  KeepInv'
<1>1. /\ unconfirmed \in [Keys -> Sizes \cup {None}]
      /\ UNCHANGED <<confirmed, files, jobs, queue, requests>>
      /\ uploaded' = uploaded \ {k} /\ disturbed' = disturbed \cup {k}
  BY DEF Expire, TypeOK
<1>2. /\ unconfirmed'[k] = None
      /\ \A l \in Keys \ {k} : unconfirmed'[l] = unconfirmed[l]
  BY <1>1 DEF Expire
<1>3. /\ \A q \in Requests : Indices(q)' = Indices(q)
      /\ \A q \in Requests : \A n : /\ KeyOf(<<q, n>>)' = KeyOf(<<q, n>>)
                                    /\ Seen(q, n)' = Seen(q, n)
                                    /\ Taken(q, n)' = Taken(q, n)
                                    /\ Alone(q, n)' = Alone(q, n)
      /\ InFlight' = InFlight
  BY <1>1 DEF Indices, KeyOf, Seen, Taken, Alone, InFlight
<1>4. BodyInv' /\ UploadsAreKept'
  <2>1. BodyInv'
    BY <1>1, <1>3 DEF KeepInv, BodyInv
  <2>2. ASSUME NEW l \in uploaded'
        PROVE  \/ unconfirmed'[l] # None
               \/ \E r \in Requests : \E n \in Indices(r) :
                    KeyOf(<<r, n>>) = l /\ confirmed[<<r, n>>] # None
    <3>1. l \in uploaded /\ unconfirmed'[l] = unconfirmed[l]
      BY <1>1, <1>2, <2>2 DEF TypeOK
    <3>. QED  BY <3>1 DEF KeepInv, UploadsAreKept
  <2>3. UploadsAreKept'
    <3>. SUFFICES ASSUME NEW l \in uploaded'
                  PROVE  (\/ unconfirmed[l] # None
                          \/ \E r \in Requests : \E n \in Indices(r) :
                               KeyOf(<<r, n>>) = l /\ confirmed[<<r, n>>] # None)'
      BY Zenon DEF UploadsAreKept
    <3>1. CASE unconfirmed'[l] # None
      BY <3>1
    <3>2. CASE \E r \in Requests : \E n \in Indices(r) :
                 KeyOf(<<r, n>>) = l /\ confirmed[<<r, n>>] # None
      <4>1. PICK r \in Requests : \E n \in Indices(r) :
                   KeyOf(<<r, n>>) = l /\ confirmed[<<r, n>>] # None
        BY <3>2
      <4>2. PICK n \in Indices(r) : KeyOf(<<r, n>>) = l /\ confirmed[<<r, n>>] # None
        BY <4>1
      <4>3. n \in Indices(r)' /\ KeyOf(<<r, n>>)' = l /\ confirmed'[<<r, n>>] # None
        BY <1>1, <1>3, <4>2
      <4>. QED  BY <4>2, <4>3
    <3>. QED  BY <2>2, <3>1, <3>2
  <2>. QED  BY <2>1, <2>3
<1>5. \A l \in Keys : unconfirmed'[l] # None => l \in uploaded'
  BY <1>1, <1>2 DEF KeepInv
<1>6. ASSUME NEW r \in Requests, NEW n \in Indices(r) PROVE FileInv(r, n)'
  <2>. DEFINE f == requests[r].body[n]
  <2>1. f.key \in Keys /\ requests'[r].body[n] = f /\ FileInv(r, n)
    BY <1>1, KeysInRange DEF KeepInv
  <2>. QED  BY <1>1, <1>2, <1>3, <2>1 DEF FileInv
<1>. QED  BY <1>1, <1>3, <1>4, <1>5, <1>6 DEF KeepInv

(* A new request disturbs the keys of those in flight, and has done nothing *)
(* yet.                                                                    *)
LEMMA KeepReceive ==
  ASSUME UploadAssumption, TypeOK, KeepInv, NEW r \in Requests, NEW c \in Confirms,
         Receive(r, c)
  PROVE  KeepInv'
<1>. DEFINE body == c.files
<1>1. /\ UNCHANGED <<unconfirmed, uploaded, confirmed, files, jobs, queue>>
      /\ requests[r].pc = "idle" /\ disturbed \subseteq disturbed'
      /\ \A p \in InFlight : \A k \in KeysOf(body) \cap KeysOf(requests[p].body) : k \in disturbed'
  BY DEF Receive
<1>2. /\ requests'[r].pc = "verify" /\ requests'[r].body = body /\ requests'[r].checked = {}
      /\ body \in Bodies /\ \A p \in Requests \ {r} : requests'[p] = requests[p]
  BY ReceiveEffect
<1>. HIDE DEF body
<1>3. /\ requests[r].body = <<>> /\ Indices(r) = {} /\ r \notin InFlight
      /\ \A n \in 1 .. MaxFiles : files[<<r, n>>] = None /\ confirmed[<<r, n>>] = None
  BY <1>1 DEF KeepInv, BodyInv, Indices, InFlight
<1>4. Indices(r)' \subseteq 1 .. MaxFiles
  BY <1>2, BodyIndices DEF Indices, UploadAssumption
<1>5. \A p \in Requests \ {r} :
        /\ Indices(p)' = Indices(p)
        /\ \A n : /\ KeyOf(<<p, n>>)' = KeyOf(<<p, n>>)
                  /\ Seen(p, n)' = Seen(p, n)
                  /\ Taken(p, n)' = Taken(p, n)
  BY <1>1, <1>2 DEF Indices, KeyOf, Seen, Taken
<1>6. \A n \in Indices(r)' : ~Seen(r, n)' /\ ~Taken(r, n)'
  BY <1>1, <1>2, <1>3, <1>4 DEF Seen, Taken
<1>7. BodyInv'
  BY <1>1, <1>2, <1>3, <1>5 DEF KeepInv, BodyInv
<1>8. UploadsAreKept'
  BY <1>1, <1>3, <1>5 DEF KeepInv, UploadsAreKept
<1>9. \A p, q \in InFlight' :
        \A k \in KeysOf(requests'[p].body) \cap KeysOf(requests'[q].body) : p = q \/ k \in disturbed'
  <2>1. \A p \in InFlight' : p # r => p \in InFlight /\ requests'[p] = requests[p] /\ p \in Requests
    BY <1>2 DEF InFlight
  <2>. QED  BY <1>1, <1>2, <2>1 DEF KeepInv
<1>10. ASSUME NEW p \in Requests, NEW n \in Indices(p)'
       PROVE  /\ FileInv(p, n)'
              /\ KeyOf(<<p, n>>)' \notin disturbed' =>
                   /\ Taken(p, n)' => Alone(p, n)'
                   /\ requests'[p].pc = "delete" /\ n = requests'[p].at => Alone(p, n)' /\ ~Taken(p, n)'
  <2>1. CASE p = r
    BY <1>1, <1>2, <1>3, <1>4, <1>6, <2>1 DEF FileInv
  <2>2. CASE p # r
    <3>1. Alone(p, n) => Alone(p, n)'
      BY <1>5, <1>6, <2>2 DEF Alone
    <3>2. n \in Indices(p) /\ requests'[p] = requests[p]
      BY <1>2, <1>5, <2>2
    <3>3. FileInv(p, n) => FileInv(p, n)'
      BY <1>1, <1>5, <2>2, <3>2 DEF FileInv
    <3>. QED  BY <1>1, <1>5, <2>2, <3>1, <3>2, <3>3 DEF KeepInv
  <2>. QED  BY <2>1, <2>2
<1>. QED  BY <1>1, <1>7, <1>8, <1>9, <1>10 DEF KeepInv

(* The copy: an object is there, so that nobody else has taken it.         *)
LEMMA KeepCopy ==
  ASSUME UploadAssumption, TypeOK, UInv, KeepInv, NEW r \in Requests, Copy(r)
  PROVE  KeepInv'
<1>. DEFINE at == requests[r].at
            f == requests[r].body[at]
            object == unconfirmed[f.key]
<1>1. /\ requests[r].pc = "copy" /\ HandlerInv(r)
      /\ UNCHANGED <<unconfirmed, uploaded, files, jobs, queue, disturbed>>
      /\ confirmed \in [Items -> Sizes \cup {None}]
  BY DEF Copy, UInv, TypeOK
<1>2. at \in Indices(r) /\ Current(r) = <<r, at>> /\ CurrentFile(r) = f
  BY <1>1 DEF HandlerInv, Current, CurrentFile
<1>3. /\ f.key \in Keys /\ <<r, at>> \in Items /\ KeyOf(<<r, at>>) = f.key
      /\ \A n \in Indices(r) : <<r, n>> \in Items
  BY <1>2, KeysInRange, ItemsInRange, KeyOfItem
<1>4. /\ \/ GoTo(r, "delete") /\ object # None
         \/ Answer(r, "500")
      /\ confirmed' = confirmed \/ (object # None /\ confirmed' = [confirmed EXCEPT ![<<r, at>>] = object])
  BY <1>2 DEF Copy, Proceed
<1>. HIDE DEF at, f
<1>5. /\ requests'[r].body = requests[r].body /\ requests'[r].at = requests[r].at
      /\ requests'[r].pc = "done" \/ (requests'[r].pc = "delete" /\ object # None)
      /\ \A q \in Requests \ {r} : requests'[q] = requests[q]
  BY <1>4, GoToEffect, AnswerEffect DEF Steps
<1>6. f.key \notin disturbed => object \in {None, f.size}
  BY <1>1, <1>2 DEF KeepInv, FileInv, Seen, Steps, f
<1>7. \A i \in Items : i # <<r, at>> => confirmed'[i] = confirmed[i]
  BY <1>1, <1>4
<1>8. /\ confirmed'[<<r, at>>] = confirmed[<<r, at>>]
         \/ (object # None /\ confirmed'[<<r, at>>] = object)
  BY <1>1, <1>3, <1>4
<1>9. f.key \notin disturbed /\ object # None => Alone(r, at) /\ ~Taken(r, at)
  <2>. SUFFICES ASSUME f.key \notin disturbed, object # None,
                       NEW q \in Requests, NEW m \in Indices(q), KeyOf(<<q, m>>) = f.key
                PROVE  ~Taken(q, m)
    BY <1>2, <1>3 DEF Alone
  <2>1. FileInv(q, m) /\ requests[q].body[m].key = f.key
    BY KeyOfItem DEF KeepInv
  <2>. QED  BY <2>1 DEF FileInv
<1>10. ASSUME NEW q \in Requests
       PROVE  /\ requests'[q].body = requests[q].body
              /\ requests'[q].pc = "idle" => requests[q].pc = "idle"
              /\ q \in InFlight' => q \in InFlight
              /\ \A n \in (1 .. MaxFiles) \ Indices(q) :
                   files'[<<q, n>>] = files[<<q, n>>] /\ confirmed'[<<q, n>>] = confirmed[<<q, n>>]
  <2>1. \A n \in (1 .. MaxFiles) \ Indices(q) : <<q, n>> \in Items /\ <<q, n>> # <<r, at>>
    BY <1>2 DEF Items
  <2>. QED  BY <1>1, <1>5, <1>7, <2>1 DEF InFlight
<1>11. ASSUME NEW q \in Requests, NEW n \in Indices(q)
       PROVE  LET g == requests[q].body[n] IN
              /\ confirmed[<<q, n>>] # None => confirmed'[<<q, n>>] # None
              /\ g.key \notin disturbed =>
                   /\ confirmed'[<<q, n>>] \in {confirmed[<<q, n>>], g.size}
                   /\ files'[<<q, n>>] \in {files[<<q, n>>], g.size}
                   /\ Seen(q, n)' => Seen(q, n) \/ unconfirmed[g.key] = g.size
                   /\ requests'[q].pc = "delete" /\ n = requests'[q].at =>
                        \/ requests[q].pc = "delete" /\ n = requests[q].at
                        \/ Alone(q, n) /\ ~Taken(q, n)
              /\ Taken(q, n)' => Taken(q, n)
  <2>1. <<q, n>> \in Items
    BY ItemsInRange
  <2>2. Seen(q, n)' => Seen(q, n)
    BY <1>1, <1>5 DEF Seen, Steps
  <2>3. Taken(q, n)' => Taken(q, n)
    BY <1>1, <1>5 DEF Taken
  <2>4. CASE q = r /\ n = at
    BY <1>1, <1>5, <1>6, <1>8, <1>9, <2>2, <2>3, <2>4 DEF f
  <2>5. CASE ~(q = r /\ n = at)
    BY <1>1, <1>5, <1>7, <2>1, <2>2, <2>3, <2>5 DEF at
  <2>. QED  BY <2>4, <2>5
<1>. QED  BY <1>1, <1>10, <1>11, KeepQuiet

(* Steps that leave the objects alone, or make the file document.          *)
LEMMA KeepHandle ==
  ASSUME UploadAssumption, TypeOK, UInv, KeepInv, NEW r \in Requests,
         \/ \E i \in Indices(r) : Verify(r, i)
         \/ CreateFile(r) \/ CreateJob(r) \/ Enqueue(r) \/ Respond(r) \/ Lose(r)
  PROVE  KeepInv'
<1>. DEFINE at == requests[r].at
            f == requests[r].body[at]
<1>1. /\ HandlerInv(r) /\ requests \in [Requests -> Request] /\ requests[r] \in Request
      /\ files \in [Items -> (1 .. MaxFileSize) \cup {None}]
  BY DEF UInv, TypeOK
<1>2. /\ UNCHANGED <<unconfirmed, uploaded, confirmed, disturbed>>
      /\ files' = files \/ ( /\ requests[r].pc = "createFile"
                             /\ files' = [files EXCEPT ![<<r, at>>] = f.size])
  BY DEF Verify, CreateFile, CreateJob, Enqueue, Respond, Lose, stores, Current, CurrentFile
<1>3. /\ requests'[r].body = requests[r].body
      /\ requests[r].pc \notin {"idle", "done", "lost"}
      /\ requests'[r].pc \notin {"idle", "delete", "createFile"}
      /\ \A q \in Requests \ {r} : requests'[q] = requests[q]
  <2>1. CASE \E i \in Indices(r) : Verify(r, i)
    <3>1. PICK i \in Indices(r) : Verify(r, i)
      BY <2>1
    <3>. QED  BY <3>1, VerifyEffect
  <2>2. CASE CreateFile(r) \/ Enqueue(r) \/ Respond(r) \/ Lose(r)
    <3>1. \/ \E pc \in {"createJob", "respond", "lost"} : GoTo(r, pc)
          \/ \E code \in {"201", "500"} : Answer(r, code)
      BY <2>2 DEF CreateFile, Enqueue, Respond, Lose, Proceed
    <3>2. requests[r].pc \notin {"idle", "done", "lost"}
      BY <2>2 DEF CreateFile, Enqueue, Respond, Lose, InFlight
    <3>. QED  BY <3>1, <3>2, GoToEffect, AnswerEffect DEF Steps
  <2>3. CASE CreateJob(r)
    BY <1>1, <2>3 DEF CreateJob, Answer, Request
  <2>. QED  BY <2>1, <2>2, <2>3
<1>4. ASSUME NEW n \in Indices(r), Seen(r, n)'
      PROVE  Seen(r, n) \/ unconfirmed[requests[r].body[n].key] = requests[r].body[n].size
  <2>1. CASE \E i \in Indices(r) : Verify(r, i)
    <3>1. PICK i \in Indices(r) : Verify(r, i)
      BY <2>1
    <3>2. /\ requests[r].pc = "verify"
          /\ \/ /\ requests'[r].pc \in {"verify", "copy"}
                /\ requests'[r].checked = requests[r].checked \cup {i}
                /\ requests'[r].pc = "copy" => requests'[r].checked = Indices(r)
                /\ unconfirmed[requests[r].body[i].key] = requests[r].body[i].size
             \/ requests'[r].pc = "done"
      BY <3>1, VerifyEffect
    <3>3. /\ n \in requests[r].checked \cup {i}
          /\ unconfirmed[requests[r].body[i].key] = requests[r].body[i].size
      BY <1>4, <3>2 DEF Seen
    <3>4. n \in requests[r].checked => Seen(r, n)
      BY <3>2 DEF Seen
    <3>. QED  BY <3>3, <3>4
  <2>2. CASE Lose(r)
    BY <1>1, <1>4, <2>2 DEF Lose, GoTo, Seen, Steps
  <2>3. CASE CreateFile(r) \/ CreateJob(r) \/ Enqueue(r) \/ Respond(r)
    BY <1>1, <1>4, <2>3 DEF CreateFile, CreateJob, Enqueue, Respond, Seen, Steps
  <2>. QED  BY <2>1, <2>2, <2>3
<1>5. ASSUME NEW n \in Indices(r) PROVE Taken(r, n)' => Taken(r, n)
  <2>1. <<r, n>> \in Items
    BY ItemsInRange
  <2>. QED  BY <1>1, <1>2, <1>3, <2>1 DEF Taken
<1>6. ASSUME NEW q \in Requests
      PROVE  /\ requests'[q].body = requests[q].body
             /\ requests'[q].pc = "idle" => requests[q].pc = "idle"
             /\ q \in InFlight' => q \in InFlight
             /\ \A n \in (1 .. MaxFiles) \ Indices(q) :
                  files'[<<q, n>>] = files[<<q, n>>] /\ confirmed'[<<q, n>>] = confirmed[<<q, n>>]
  <2>1. at \in Indices(r)
    BY <1>1, <1>3 DEF HandlerInv
  <2>2. \A n \in (1 .. MaxFiles) \ Indices(q) : <<q, n>> \in Items /\ <<q, n>> # <<r, at>>
    BY <2>1 DEF Items
  <2>3. \A n \in (1 .. MaxFiles) \ Indices(q) : files'[<<q, n>>] = files[<<q, n>>]
    <3>. HIDE DEF at, f
    <3>. QED  BY <1>1, <1>2, <2>2
  <2>. QED  BY <1>2, <1>3, <2>3 DEF InFlight
<1>7. ASSUME NEW q \in Requests, NEW n \in Indices(q)
      PROVE  LET g == requests[q].body[n] IN
             /\ confirmed[<<q, n>>] # None => confirmed'[<<q, n>>] # None
             /\ g.key \notin disturbed =>
                  /\ confirmed'[<<q, n>>] \in {confirmed[<<q, n>>], g.size}
                  /\ files'[<<q, n>>] \in {files[<<q, n>>], g.size}
                  /\ Seen(q, n)' => Seen(q, n) \/ unconfirmed[g.key] = g.size
                  /\ requests'[q].pc = "delete" /\ n = requests'[q].at =>
                       \/ requests[q].pc = "delete" /\ n = requests[q].at
                       \/ Alone(q, n) /\ ~Taken(q, n)
             /\ Taken(q, n)' => Taken(q, n)
  <2>1. <<q, n>> \in Items
    BY ItemsInRange
  <2>2. files'[<<q, n>>] = files[<<q, n>>]
          \/ (q = r /\ n = at /\ files'[<<q, n>>] = f.size)
    <3>. HIDE DEF at, f
    <3>. QED  BY <1>1, <1>2, <2>1
  <2>3. CASE q = r
    BY <1>2, <1>3, <1>4, <1>5, <2>2, <2>3
  <2>4. CASE q # r
    <3>1. requests'[q] = requests[q] /\ files'[<<q, n>>] = files[<<q, n>>]
      BY <1>3, <2>2, <2>4
    <3>2. Seen(q, n)' = Seen(q, n) /\ Taken(q, n)' = Taken(q, n)
      BY <3>1 DEF Seen, Taken
    <3>. QED  BY <1>2, <3>1, <3>2
  <2>. QED  BY <2>3, <2>4
<1>. QED  BY <1>2, <1>6, <1>7, KeepQuiet

(* The delete: the object is gone, and the copy is what is left of it.     *)
LEMMA KeepDelete ==
  ASSUME UploadAssumption, TypeOK, UInv, KeepInv, NEW r \in Requests, Delete(r)
  PROVE  KeepInv'
<1>. DEFINE at == requests[r].at
            k == requests[r].body[at].key
<1>1. /\ requests[r].pc = "delete" /\ HandlerInv(r)
      /\ UNCHANGED <<uploaded, confirmed, files, jobs, queue, disturbed>>
      /\ unconfirmed \in [Keys -> Sizes \cup {None}]
  BY DEF Delete, UInv, TypeOK
<1>2. at \in Indices(r) /\ Current(r) = <<r, at>> /\ CurrentFile(r).key = k
      /\ confirmed[<<r, at>>] # None
  BY <1>1 DEF HandlerInv, Current, CurrentFile
<1>3. k \in Keys /\ KeyOf(<<r, at>>) = k /\ k \in KeysOf(requests[r].body)
  BY <1>2, KeysInRange, KeyOfItem
<1>4. /\ \/ unconfirmed' = [unconfirmed EXCEPT ![k] = None]
         \/ unconfirmed' = unconfirmed /\ Answer(r, "500")
      /\ GoTo(r, "createFile") \/ Answer(r, "500")
  BY <1>2 DEF Delete, Proceed
<1>. HIDE DEF at, k
<1>5. /\ requests'[r].body = requests[r].body /\ requests'[r].at = at
      /\ requests'[r].pc \in {"createFile", "done"}
      /\ Answer(r, "500") => requests'[r].pc = "done"
      /\ \A q \in Requests \ {r} : requests'[q] = requests[q]
  BY <1>4, GoToEffect, AnswerEffect DEF Steps, at
<1>6. /\ unconfirmed'[k] \in {None, unconfirmed[k]}
      /\ requests'[r].pc = "createFile" => unconfirmed'[k] = None
      /\ \A l \in Keys \ {k} : unconfirmed'[l] = unconfirmed[l]
  BY <1>1, <1>3, <1>4, <1>5
<1>7. /\ \A q \in Requests : Indices(q)' = Indices(q) /\ requests'[q].body = requests[q].body
      /\ \A q \in Requests : \A n : KeyOf(<<q, n>>)' = KeyOf(<<q, n>>)
      /\ InFlight' \subseteq InFlight
  BY <1>1, <1>5, KeyOfItem DEF Indices, InFlight, KeyOf
<1>8. \A q \in Requests : \A n :
        /\ Seen(q, n)' => Seen(q, n)
        /\ Taken(q, n)' => Taken(q, n) \/ (<<q, n>> = <<r, at>> /\ requests'[r].pc = "createFile")
  BY <1>1, <1>5 DEF Seen, Taken, Steps
<1>9. k \notin disturbed =>
        /\ k \in uploaded /\ Alone(r, at) /\ ~Taken(r, at)
        /\ \A q \in Requests : \A n \in Indices(q) :
             KeyOf(<<q, n>>) = k => ~Taken(q, n)
  <2>1. k \notin disturbed => k \in uploaded /\ Alone(r, at) /\ ~Taken(r, at)
    BY <1>1, <1>2, <1>3 DEF KeepInv, FileInv, Seen, Steps, at, k
  <2>. QED  BY <1>3, <2>1 DEF Alone
<1>10. BodyInv' /\ UploadsAreKept'
  <2>1. BodyInv'
    BY <1>1, <1>5, <1>7 DEF KeepInv, BodyInv
  <2>2. ASSUME NEW l \in uploaded
        PROVE  \/ unconfirmed'[l] # None
               \/ \E q \in Requests : \E n \in Indices(q) :
                    KeyOf(<<q, n>>) = l /\ confirmed[<<q, n>>] # None
    <3>1. CASE l = k
      <4>1. \E n \in Indices(r) : KeyOf(<<r, n>>) = l /\ confirmed[<<r, n>>] # None
        BY <1>2, <1>3, <3>1, Zenon
      <4>. QED  BY <4>1, Zenon
    <3>2. CASE l # k
      <4>1. unconfirmed'[l] = unconfirmed[l]
        BY <1>6, <2>2, <3>2 DEF TypeOK
      <4>. QED  BY <4>1 DEF KeepInv, UploadsAreKept
    <3>. QED  BY <3>1, <3>2
  <2>3. UploadsAreKept'
    BY <1>1, <1>7, <2>2 DEF UploadsAreKept
  <2>. QED  BY <2>1, <2>3
<1>11. \A l \in Keys : unconfirmed'[l] # None => l \in uploaded'
  BY <1>1, <1>6 DEF KeepInv
<1>12. \A p, q \in InFlight' :
         \A l \in KeysOf(requests'[p].body) \cap KeysOf(requests'[q].body) : p = q \/ l \in disturbed'
  <2>1. \A p \in InFlight' : p \in InFlight /\ requests'[p].body = requests[p].body
    BY <1>7 DEF InFlight
  <2>. QED  BY <1>1, <2>1 DEF KeepInv
<1>13. ASSUME NEW q \in Requests, NEW n \in Indices(q)
       PROVE  /\ FileInv(q, n)'
              /\ KeyOf(<<q, n>>)' \notin disturbed' =>
                   /\ Taken(q, n)' => Alone(q, n)'
                   /\ requests'[q].pc = "delete" /\ n = requests'[q].at => Alone(q, n)' /\ ~Taken(q, n)'
  <2>. DEFINE g == requests[q].body[n]
  <2>1. /\ g.key \in Keys /\ KeyOf(<<q, n>>) = g.key /\ KeyOf(<<q, n>>)' = g.key
        /\ requests'[q].body[n] = g /\ g.key \in KeysOf(requests[q].body)
        /\ FileInv(q, n)
        /\ g.key \notin disturbed => /\ Taken(q, n) => Alone(q, n)
                                     /\ requests[q].pc = "delete" /\ n = requests[q].at =>
                                          Alone(q, n) /\ ~Taken(q, n)
    BY <1>7, KeysInRange, KeyOfItem DEF KeepInv
  <2>. HIDE DEF g
  <2>2. CASE g.key = k
    <3>. SUFFICES ASSUME k \notin disturbed
                  PROVE  /\ FileInv(q, n)'
                         /\ Taken(q, n)' => Alone(q, n)'
                         /\ requests'[q].pc = "delete" /\ n = requests'[q].at => Alone(q, n)' /\ ~Taken(q, n)'
      BY <1>1, <2>1, <2>2 DEF FileInv, g
    <3>1. ~Taken(q, n)
      BY <1>9, <2>1, <2>2
    <3>2. \A p \in Requests : \A m \in Indices(p) :
            KeyOf(<<p, m>>) = k /\ Taken(p, m)' => <<p, m>> = <<r, at>> /\ requests'[r].pc = "createFile"
      BY <1>8, <1>9
    <3>3. FileInv(q, n)'
      <4>1. /\ confirmed[<<q, n>>] \in {None, g.size}
            /\ files[<<q, n>>] \in {None, g.size}
            /\ Seen(q, n) => unconfirmed[k] \in {None, g.size}
        BY <2>1, <2>2 DEF FileInv, g
      <4>2. Taken(q, n)' => unconfirmed'[k] = None
        BY <1>6, <1>8, <3>1
      <4>3. Seen(q, n)' => unconfirmed'[k] \in {None, g.size}
        BY <1>6, <1>8, <4>1
      <4>4. /\ confirmed'[<<q, n>>] \in {None, g.size} /\ files'[<<q, n>>] \in {None, g.size}
            /\ k \in uploaded'
        BY <1>1, <1>9, <4>1
      <4>. QED  BY <2>1, <2>2, <4>2, <4>3, <4>4 DEF FileInv
    <3>4. Taken(q, n)' => Alone(q, n)'
      BY <1>7, <2>1, <2>2, <3>2 DEF Alone
    <3>5. requests'[q].pc # "delete"
      <4>1. CASE q = r
        BY <1>5, <4>1
      <4>2. CASE q # r
        <5>1. q \in InFlight' /\ r \in InFlight => k \in disturbed
          BY <1>3, <1>7, <2>1, <2>2, <4>2 DEF KeepInv
        <5>. QED  BY <1>1, <5>1 DEF InFlight
      <4>. QED  BY <4>1, <4>2
    <3>. QED  BY <3>3, <3>4, <3>5
  <2>3. CASE g.key # k
    <3>1. Taken(q, n)' => Taken(q, n)
      BY <1>3, <1>8, <2>1, <2>3
    <3>2. Alone(q, n) => Alone(q, n)'
      BY <1>3, <1>7, <1>8, <2>1, <2>3 DEF Alone
    <3>3. FileInv(q, n)'
      <4>1. unconfirmed'[g.key] = unconfirmed[g.key] /\ (Seen(q, n)' => Seen(q, n))
        BY <1>6, <1>8, <2>1, <2>3
      <4>2. g.key \notin disturbed =>
              /\ confirmed[<<q, n>>] \in {None, g.size}
              /\ files[<<q, n>>] \in {None, g.size}
              /\ Seen(q, n) \/ Taken(q, n) =>
                   g.key \in uploaded /\ unconfirmed[g.key] \in {None, g.size}
              /\ Taken(q, n) => unconfirmed[g.key] = None
        BY <2>1 DEF FileInv, g
      <4>3. g.key \notin disturbed' =>
              /\ confirmed'[<<q, n>>] \in {None, g.size}
              /\ files'[<<q, n>>] \in {None, g.size}
              /\ Seen(q, n)' \/ Taken(q, n)' =>
                   g.key \in uploaded' /\ unconfirmed'[g.key] \in {None, g.size}
              /\ Taken(q, n)' => unconfirmed'[g.key] = None
        BY <1>1, <3>1, <4>1, <4>2
      <4>. QED  BY <2>1, <4>3 DEF FileInv
    <3>4. requests'[q].pc = "delete" /\ n = requests'[q].at => requests[q].pc = "delete" /\ n = requests[q].at
      BY <1>5
    <3>. QED  BY <1>1, <2>1, <3>1, <3>2, <3>3, <3>4
  <2>. QED  BY <2>2, <2>3
<1>. QED  BY <1>1, <1>7, <1>10, <1>11, <1>12, <1>13 DEF KeepInv

LEMMA KeepInit == ASSUME UploadAssumption, Init PROVE KeepInv
<1>1. \A r \in Requests : /\ requests[r].pc = "idle" /\ requests[r].body = <<>> /\ Indices(r) = {}
                          /\ \A n \in 1 .. MaxFiles : files[<<r, n>>] = None /\ confirmed[<<r, n>>] = None
  BY DEF Init, Idle, Items, Indices
<1>2. BodyInv /\ InFlight = {}
  BY <1>1 DEF BodyInv, InFlight
<1>3. (\A k \in Keys : unconfirmed[k] = None) /\ uploaded = {}
  BY DEF Init
<1>. QED  BY <1>1, <1>2, <1>3 DEF KeepInv, UploadsAreKept

LEMMA KeepNext == ASSUME UploadAssumption, UInv, KeepInv, [Next]_vars PROVE KeepInv'
<1>0. TypeOK
  BY DEF UInv
<1>1. CASE \E k \in Keys, size \in Sizes : Put(k, size)
  BY <1>0, <1>1, KeepPut
<1>2. CASE \E k \in Keys : Expire(k)
  BY <1>0, <1>2, KeepExpire
<1>3. CASE \E r \in Requests, c \in Confirms : Receive(r, c)
  BY <1>0, <1>3, KeepReceive
<1>4. ASSUME NEW r \in Requests, Handle(r) \/ Lose(r) PROVE KeepInv'
  <2>1. CASE Copy(r)
    BY <2>1, <1>0, KeepCopy
  <2>2. CASE Delete(r)
    BY <2>2, <1>0, KeepDelete
  <2>3. CASE ~Copy(r) /\ ~Delete(r)
    BY <1>0, <1>4, <2>3, KeepHandle DEF Handle
  <2>. QED  BY <2>1, <2>2, <2>3
<1>5. CASE UNCHANGED vars
  <2>1. /\ InFlight' = InFlight /\ BodyInv' = BodyInv /\ UploadsAreKept' = UploadsAreKept
        /\ UNCHANGED <<unconfirmed, uploaded, disturbed, requests, confirmed, files>>
    BY <1>5 DEF vars, InFlight, BodyInv, UploadsAreKept, Indices, KeyOf
  <2>2. ASSUME NEW r \in Requests, NEW n
        PROVE  /\ Indices(r)' = Indices(r) /\ KeyOf(<<r, n>>)' = KeyOf(<<r, n>>)
               /\ Seen(r, n)' = Seen(r, n) /\ Taken(r, n)' = Taken(r, n)
    BY <2>1 DEF Indices, KeyOf, Seen, Taken
  <2>3. ASSUME NEW r \in Requests, NEW n
        PROVE  FileInv(r, n)' = FileInv(r, n) /\ Alone(r, n)' = Alone(r, n)
    BY <2>1, <2>2 DEF FileInv, Alone
  <2>. QED  BY <2>1, <2>2, <2>3 DEF KeepInv
<1>. QED  BY <1>1, <1>2, <1>3, <1>4, <1>5 DEF Next

LEMMA KeepInvariance == Spec => []KeepInv
<1>1. Init => KeepInv
  BY UploadAssumption, KeepInit
<1>2. UInv /\ KeepInv /\ [Next]_vars => KeepInv'
  BY UploadAssumption, KeepNext
<1>. QED  BY <1>1, <1>2, Invariance, PTL DEF Spec

(* A queued item is a file of its request, and its object was taken.       *)
LEMMA QueuedItem ==
  ASSUME UInv, KeepInv, NEW i \in queue
  PROVE  \E r \in Requests : \E n \in Indices(r) :
           /\ i = <<r, n>> /\ KeyOf(i) = requests[r].body[n].key
           /\ Taken(r, n) /\ confirmed[i] # None /\ files[i] # None
<1>1. i \in Items /\ files[i] # None /\ confirmed[i] # None
  BY DEF UInv, TypeOK, Backed
<1>2. PICK r \in Requests, n \in 1 .. MaxFiles : i = <<r, n>>
  BY <1>1 DEF Items
<1>3. n \in Indices(r)
  BY <1>1, <1>2 DEF KeepInv, BodyInv
<1>. QED  BY <1>1, <1>2, <1>3 DEF Taken, KeyOf

(* However many requests name an upload and wherever they fail, until a     *)
(* confirmed copy exists the object is still under its unconfirmed key.     *)
THEOREM UploadsKept == Spec => []UploadsAreKept
<1>1. KeepInv => UploadsAreKept
  BY DEF KeepInv
<1>. QED  BY <1>1, KeepInvariance, PTL

(* The file document of a queued job has the size of the object that the    *)
(* worker will read, for every upload that is not disturbed.               *)
THEOREM RecordedSizesActual == Spec => []RecordedSizeIsActual
<1>1. ASSUME UInv, KeepInv, NEW i \in queue, KeyOf(i) \notin disturbed
      PROVE  files[i] = confirmed[i]
  <2>1. PICK r \in Requests : \E n \in Indices(r) :
          /\ i = <<r, n>> /\ KeyOf(i) = requests[r].body[n].key
          /\ Taken(r, n) /\ confirmed[i] # None /\ files[i] # None
    BY <1>1, QueuedItem
  <2>2. PICK n \in Indices(r) :
          /\ i = <<r, n>> /\ KeyOf(i) = requests[r].body[n].key
          /\ Taken(r, n) /\ confirmed[i] # None /\ files[i] # None
    BY <2>1
  <2>3. FileInv(r, n)
    BY <1>1 DEF KeepInv
  <2>. QED  BY <1>1, <2>2, <2>3 DEF FileInv
<1>2. UInv /\ KeepInv => RecordedSizeIsActual
  BY <1>1 DEF RecordedSizeIsActual
<1>. QED  BY <1>2, Invariance, KeepInvariance, PTL

(* An undisturbed upload is queued once, whatever the client repeats.       *)
THEOREM OneJobForEachUpload == Spec => []OneJobPerUpload
<1>1. ASSUME UInv, KeepInv, NEW i \in queue, NEW k \in queue,
             KeyOf(i) = KeyOf(k), KeyOf(i) \notin disturbed
      PROVE  i = k
  <2>1. PICK r \in Requests : \E n \in Indices(r) :
          i = <<r, n>> /\ KeyOf(i) = requests[r].body[n].key /\ Taken(r, n)
    BY <1>1, QueuedItem
  <2>2. PICK n \in Indices(r) : i = <<r, n>> /\ Taken(r, n)
    BY <2>1
  <2>3. PICK q \in Requests : \E m \in Indices(q) :
          k = <<q, m>> /\ KeyOf(k) = requests[q].body[m].key /\ Taken(q, m)
    BY <1>1, QueuedItem
  <2>4. PICK m \in Indices(q) : k = <<q, m>> /\ Taken(q, m)
    BY <2>3
  <2>5. Alone(r, n)
    BY <1>1, <2>2 DEF KeepInv
  <2>. QED  BY <1>1, <2>2, <2>4, <2>5 DEF Alone
<1>2. UInv /\ KeepInv => OneJobPerUpload
  BY <1>1 DEF OneJobPerUpload
<1>. QED  BY <1>2, Invariance, KeepInvariance, PTL
-----------------------------------------------------------------------------
(* Refinement of ConfirmPromise: until its files are checked, a request has *)
(* left no trace, and nothing of it is queued before the call that queues   *)
(* all of it.                                                              *)
Fresh(r) ==
  /\ requests[r].pc \in {"idle", "verify"} => ~Touched(r)
  /\ requests[r].pc \notin {"respond", "done", "lost"} =>
       \A n \in 1 .. MaxFiles : <<r, n>> \notin queue

FreshInv == \A r \in Requests : Fresh(r)

(* A step of the abstract request r, or none, seen in the values of its     *)
(* three variables.                                                        *)
Promised(r) ==
  LET told == Told(requests[r].response)
      told1 == Told(requests'[r].response)
      Unclear == told = "none" /\ told1 \in {"none", "failed"}
      HandedAlike == HandedOver(r)' = HandedOver(r)
      TouchedAlike == Touched(r)' = Touched(r)
  IN
  \/ told1 = told /\ HandedAlike /\ TouchedAlike
  \/ Unclear /\ HandedAlike /\ ~Touched(r) /\ Touched(r)'
  \/ Unclear /\ TouchedAlike /\ Touched(r) /\ HandedOver(r) = "none" /\ HandedOver(r)' = "all"
  \/ /\ told = "none" /\ told1 = "accepted"
     /\ HandedAlike /\ TouchedAlike /\ HandedOver(r) = "all"
  \/ told = "none" /\ told1 = "refused" /\ HandedAlike /\ TouchedAlike /\ ~Touched(r)
  \/ told = "none" /\ told1 = "failed" /\ HandedAlike /\ TouchedAlike

LEMMA PromisedStep ==
  ASSUME NEW r \in Requests, Promised(r),
         \A q \in Requests \ {r} : /\ requests'[q] = requests[q]
                                   /\ Touched(q)' = Touched(q)
                                   /\ HandedOver(q)' = HandedOver(q)
  PROVE  [Client!Next]_(Client!vars)
<1>. DEFINE A == [q \in Requests |-> Told(requests[q].response)]
            T == {q \in Requests : Touched(q)}
            H == [q \in Requests |-> HandedOver(q)]
            A1 == [q \in Requests |-> Told(requests'[q].response)]
            T1 == {q \in Requests : Touched(q)'}
            H1 == [q \in Requests |-> HandedOver(q)']
<1>1. /\ A1 = [A EXCEPT ![r] = Told(requests'[r].response)]
      /\ H1 = [H EXCEPT ![r] = HandedOver(r)']
  OBVIOUS
<1>2. /\ Told(requests'[r].response) = Told(requests[r].response) => A1 = A
      /\ HandedOver(r)' = HandedOver(r) => H1 = H
  OBVIOUS
<1>3. /\ Touched(r)' = Touched(r) => T1 = T
      /\ Touched(r)' => T1 = T \cup {r}
  OBVIOUS
<1>4. A[r] = Told(requests[r].response) /\ H[r] = HandedOver(r) /\ (r \in T <=> Touched(r))
  OBVIOUS
<1>. HIDE DEF A, T, H, A1, T1, H1
<1>5. \/ A1 = A /\ T1 = T /\ H1 = H
      \/ /\ A[r] = "none" /\ (A1 = A \/ A1 = [A EXCEPT ![r] = "failed"])
         /\ r \notin T /\ T1 = T \cup {r} /\ H1 = H
      \/ /\ A[r] = "none" /\ (A1 = A \/ A1 = [A EXCEPT ![r] = "failed"])
         /\ r \in T /\ H[r] = "none" /\ H1 = [H EXCEPT ![r] = "all"] /\ T1 = T
      \/ H[r] = "all" /\ A[r] = "none" /\ A1 = [A EXCEPT ![r] = "accepted"] /\ T1 = T /\ H1 = H
      \/ r \notin T /\ A[r] = "none" /\ A1 = [A EXCEPT ![r] = "refused"] /\ T1 = T /\ H1 = H
      \/ A[r] = "none" /\ A1 = [A EXCEPT ![r] = "failed"] /\ T1 = T /\ H1 = H
  BY <1>1, <1>2, <1>3, <1>4 DEF Promised
<1>6. /\ A' = A1 /\ T' = T1 /\ H' = H1
  BY DEF A, T, H, A1, T1, H1
<1>7. /\ Client!Touch(r) <=> Client!Unclear(r) /\ r \notin T /\ T' = T \cup {r} /\ H' = H
      /\ Client!HandOver(r) <=>
           Client!Unclear(r) /\ r \in T /\ H[r] = "none" /\ H' = [H EXCEPT ![r] = "all"] /\ T' = T
  BY DEF A, T, H, Client!Touch, Client!HandOver
<1>8. ASSUME NEW what
      PROVE  Client!Tell(r, what) <=> A[r] = "none" /\ A' = [A EXCEPT ![r] = what]
  BY DEF A, Client!Tell
<1>9. Client!Unclear(r) <=> A[r] = "none" /\ (A' = A \/ Client!Tell(r, "failed"))
  BY DEF A, Client!Unclear
<1>10. /\ Client!Accept(r) <=> H[r] = "all" /\ Client!Tell(r, "accepted") /\ T' = T /\ H' = H
       /\ Client!Refuse(r) <=> r \notin T /\ Client!Tell(r, "refused") /\ T' = T /\ H' = H
       /\ Client!Fail(r) <=> Client!Tell(r, "failed") /\ T' = T /\ H' = H
  BY DEF T, H, Client!Accept, Client!Refuse, Client!Fail
<1>11. \/ A' = A /\ T' = T /\ H' = H
       \/ Client!Touch(r) \/ Client!HandOver(r) \/ Client!Accept(r) \/ Client!Refuse(r)
       \/ Client!Fail(r)
  <2>1. A[r] = "none" /\ (A1 = A \/ A1 = [A EXCEPT ![r] = "failed"]) => Client!Unclear(r)
    BY <1>6, <1>8, <1>9
  <2>2. CASE /\ A[r] = "none" /\ (A1 = A \/ A1 = [A EXCEPT ![r] = "failed"])
             /\ r \notin T /\ T1 = T \cup {r} /\ H1 = H
    <3>1. Client!Touch(r)
      BY <1>6, <1>7, <2>1, <2>2
    <3>. QED  BY <3>1
  <2>3. CASE /\ A[r] = "none" /\ (A1 = A \/ A1 = [A EXCEPT ![r] = "failed"])
             /\ r \in T /\ H[r] = "none" /\ H1 = [H EXCEPT ![r] = "all"] /\ T1 = T
    <3>1. Client!HandOver(r)
      BY <1>6, <1>7, <2>1, <2>3
    <3>. QED  BY <3>1
  <2>4. CASE H[r] = "all" /\ A[r] = "none" /\ A1 = [A EXCEPT ![r] = "accepted"] /\ T1 = T /\ H1 = H
    <3>1. Client!Tell(r, "accepted")
      BY <1>6, <1>8, <2>4
    <3>. QED  BY <1>6, <1>10, <2>4, <3>1
  <2>5. CASE r \notin T /\ A[r] = "none" /\ A1 = [A EXCEPT ![r] = "refused"] /\ T1 = T /\ H1 = H
    <3>1. Client!Tell(r, "refused")
      BY <1>6, <1>8, <2>5
    <3>. QED  BY <1>6, <1>10, <2>5, <3>1
  <2>6. CASE A[r] = "none" /\ A1 = [A EXCEPT ![r] = "failed"] /\ T1 = T /\ H1 = H
    <3>1. Client!Tell(r, "failed")
      BY <1>6, <1>8, <2>6
    <3>. QED  BY <1>6, <1>10, <2>6, <3>1
  <2>7. CASE A1 = A /\ T1 = T /\ H1 = H
    BY <1>6, <2>7
  <2>. QED  BY <1>5, <2>2, <2>3, <2>4, <2>5, <2>6, <2>7
<1>. QED  BY <1>11 DEF A, T, H, Client!Next, Client!vars

(* What a request has in the queue depends on its body and its own items.   *)
LEMMA HandedAlike ==
  ASSUME UploadAssumption, TypeOK, NEW q \in Requests, requests'[q].body = requests[q].body,
         \A n \in 1 .. MaxFiles : <<q, n>> \in queue' <=> <<q, n>> \in queue
  PROVE  HandedOver(q)' = HandedOver(q)
<1>1. ItemsOf(q)' = ItemsOf(q)
  BY DEF ItemsOf, Indices
<1>2. \A i \in ItemsOf(q) : i \in queue' <=> i \in queue
  BY ItemsInRange DEF ItemsOf
<1>3. (queue' \cap ItemsOf(q) = {}) <=> (queue \cap ItemsOf(q) = {})
  BY <1>2
<1>4. (ItemsOf(q) \subseteq queue') <=> (ItemsOf(q) \subseteq queue)
  BY <1>2
<1>. QED  BY <1>1, <1>3, <1>4 DEF HandedOver

(* A step of one handler leaves the others as they are.                    *)
LEMMA FreshElsewhere ==
  ASSUME UploadAssumption, TypeOK, FreshInv, NEW r \in Requests, Fresh(r)', Promised(r),
         \A q \in Requests \ {r} :
           /\ requests'[q] = requests[q]
           /\ \A n \in 1 .. MaxFiles : /\ confirmed'[<<q, n>>] = confirmed[<<q, n>>]
                                       /\ <<q, n>> \in queue' <=> <<q, n>> \in queue
  PROVE  FreshInv' /\ [Client!Next]_(Client!vars)
<1>1. \A q \in Requests \ {r} : Touched(q)' = Touched(q) /\ HandedOver(q)' = HandedOver(q)
  BY HandedAlike DEF Touched
<1>2. \A q \in Requests \ {r} : Fresh(q)'
  BY <1>1 DEF FreshInv, Fresh
<1>. QED  BY <1>1, <1>2, PromisedStep DEF FreshInv

(* A request that arrives has nothing in the queue.                        *)
LEMMA FreshReceive ==
  ASSUME UploadAssumption, UInv, FreshInv, NEW r \in Requests, NEW c \in Confirms,
         Receive(r, c)
  PROVE  FreshInv' /\ [Client!Next]_(Client!vars)
<1>. DEFINE body == c.files
<1>1. /\ TypeOK /\ HandlerInv(r) /\ Fresh(r) /\ requests[r].pc = "idle"
      /\ UNCHANGED <<confirmed, queue>>
  BY DEF UInv, FreshInv, Receive
<1>2. /\ body \in Bodies /\ requests'[r].pc = "verify"
      /\ requests'[r].body = body /\ requests'[r].response = "none"
      /\ \A p \in Requests \ {r} : requests'[p] = requests[p]
  BY <1>1, ReceiveEffect
<1>. HIDE DEF body
<1>4. Touched(r)' = Touched(r) /\ ~Touched(r)
  BY <1>1 DEF Touched, Fresh
<1>5. \A n \in 1 .. MaxFiles : <<r, n>> \notin queue
  BY <1>1 DEF Fresh
<1>6. HandedOver(r) = "none"
  BY <1>1, <1>5, ItemsInRange DEF HandedOver, ItemsOf
<1>7. HandedOver(r)' = "none"
  <2>1. \A n \in DOMAIN body : n \in 1 .. MaxFiles
    BY <1>2, BodyIndices DEF UploadAssumption
  <2>2. ItemsOf(r)' = {<<r, n>> : n \in DOMAIN body}
    BY <1>2 DEF ItemsOf, Indices
  <2>. QED  BY <1>1, <1>5, <2>1, <2>2 DEF HandedOver
<1>8. requests[r].response = "none"
  BY <1>1 DEF HandlerInv
<1>9. Fresh(r)' /\ Promised(r)
  BY <1>1, <1>2, <1>4, <1>5, <1>6, <1>7, <1>8 DEF Fresh, Promised
<1>. QED  BY <1>1, <1>2, <1>9, FreshElsewhere

(* A step of a handler that leaves confirmed objects and the queue alone.   *)
LEMMA FreshQuiet ==
  ASSUME UploadAssumption, UInv, FreshInv, NEW r \in Requests,
         requests[r].pc \notin {"idle", "done", "lost"},
         UNCHANGED <<confirmed, queue>>,
         requests'[r].body = requests[r].body,
         \A q \in Requests \ {r} : requests'[q] = requests[q],
         requests'[r].pc \in {"idle", "verify"} => requests[r].pc = "verify",
         requests'[r].pc \in Steps \ {"respond", "done", "lost"} => requests[r].pc # "respond",
         requests'[r].pc \in Steps,
         \/ requests'[r].response = requests[r].response
         \/ requests'[r].response = "500"
         \/ requests'[r].response \in {"400", "404"} /\ requests[r].pc = "verify"
         \/ requests'[r].response = "201" /\ requests[r].pc = "respond"
  PROVE  FreshInv' /\ [Client!Next]_(Client!vars)
<1>1. TypeOK /\ HandlerInv(r) /\ Fresh(r)
  BY DEF UInv, FreshInv
<1>2. requests[r].response = "none"
  BY <1>1 DEF HandlerInv
<1>3. Touched(r)' = Touched(r) /\ HandedOver(r)' = HandedOver(r)
  BY <1>1, HandedAlike DEF Touched
<1>4. Fresh(r)'
  BY <1>1, <1>3 DEF Fresh, Steps
<1>5. Told("none") = "none" /\ Told("500") = "failed" /\ Told("201") = "accepted"
      /\ Told("400") = "refused" /\ Told("404") = "refused"
  BY DEF Told
<1>6. requests[r].pc = "respond" => HandedOver(r) = "all"
  <2>1. /\ requests[r].at \in Indices(r)
        /\ requests[r].pc = "respond" => ItemsOf(r) \subseteq queue
    BY <1>1 DEF HandlerInv
  <2>2. Current(r) \in ItemsOf(r)
    BY <2>1 DEF ItemsOf, Current
  <2>. QED  BY <2>1, <2>2 DEF HandedOver
<1>7. requests[r].pc = "verify" => ~Touched(r)
  BY <1>1 DEF Fresh
<1>8. Promised(r)
  BY <1>2, <1>3, <1>5, <1>6, <1>7 DEF Promised
<1>. QED  BY <1>1, <1>4, <1>8, FreshElsewhere

LEMMA FreshHandle ==
  ASSUME UploadAssumption, UInv, FreshInv, NEW r \in Requests,
         \/ \E i \in Indices(r) : Verify(r, i)
         \/ Delete(r) \/ CreateFile(r) \/ CreateJob(r) \/ Respond(r) \/ Lose(r)
  PROVE  FreshInv' /\ [Client!Next]_(Client!vars)
<1>1. TypeOK /\ requests \in [Requests -> Request] /\ requests[r] \in Request
  BY DEF UInv, TypeOK
<1>2. UNCHANGED <<confirmed, queue>>
  BY DEF Verify, Delete, CreateFile, CreateJob, Respond, Lose, stores
<1>3. CASE \E i \in Indices(r) : Verify(r, i)
  <2>1. /\ requests[r].pc = "verify" /\ requests'[r].body = requests[r].body
        /\ \A q \in Requests \ {r} : requests'[q] = requests[q]
        /\ \/ /\ requests'[r].pc \in {"verify", "copy"}
              /\ requests'[r].response = requests[r].response
           \/ requests'[r].pc = "done" /\ requests'[r].response \in {"400", "404"}
    <3>1. PICK i \in Indices(r) : Verify(r, i)
      BY <1>3
    <3>. QED  BY <1>1, <3>1, VerifyEffect
  <2>. QED  BY <1>2, <2>1, FreshQuiet DEF Steps
<1>4. CASE Delete(r) \/ CreateFile(r) \/ Respond(r) \/ Lose(r)
  <2>1. /\ requests[r].pc \notin {"idle", "done", "lost"}
        /\ \/ requests[r].pc # "respond" /\ (GoTo(r, "createFile") \/ GoTo(r, "createJob"))
           \/ GoTo(r, "lost") \/ Answer(r, "500")
           \/ requests[r].pc = "respond" /\ Answer(r, "201")
    BY <1>4 DEF Delete, CreateFile, Respond, Lose, Proceed, InFlight
  <2>2. /\ requests'[r].body = requests[r].body
        /\ \A q \in Requests \ {r} : requests'[q] = requests[q]
        /\ \/ /\ requests[r].pc # "respond" /\ requests'[r].pc \in {"createFile", "createJob"}
              /\ requests'[r].response = requests[r].response
           \/ requests'[r].pc = "lost" /\ requests'[r].response = requests[r].response
           \/ requests'[r].pc = "done" /\ requests'[r].response = "500"
           \/ /\ requests[r].pc = "respond" /\ requests'[r].pc = "done"
              /\ requests'[r].response = "201"
    BY <1>1, <2>1, GoToEffect, AnswerEffect DEF Steps
  <2>. QED  BY <1>2, <2>1, <2>2, FreshQuiet DEF Steps
<1>5. CASE CreateJob(r)
  <2>1. /\ requests[r].pc = "createJob" /\ requests'[r].body = requests[r].body
        /\ \A q \in Requests \ {r} : requests'[q] = requests[q]
        /\ \/ /\ requests'[r].pc \in {"enqueue", "copy"}
              /\ requests'[r].response = requests[r].response
           \/ requests'[r].pc = "done" /\ requests'[r].response = "500"
    BY <1>1, <1>5 DEF CreateJob, Answer, Request
  <2>. QED  BY <1>2, <2>1, FreshQuiet DEF Steps
<1>. QED  BY <1>3, <1>4, <1>5

(* The first copy is the first trace of the request.                       *)
LEMMA FreshCopy ==
  ASSUME UploadAssumption, UInv, FreshInv, NEW r \in Requests, Copy(r)
  PROVE  FreshInv' /\ [Client!Next]_(Client!vars)
<1>. DEFINE object == unconfirmed[CurrentFile(r).key]
<1>1. /\ TypeOK /\ HandlerInv(r) /\ Fresh(r) /\ requests[r].pc = "copy"
      /\ UNCHANGED queue /\ confirmed \in [Items -> Sizes \cup {None}]
  BY DEF UInv, TypeOK, FreshInv, Copy
<1>2. /\ GoTo(r, "delete") \/ Answer(r, "500")
      /\ \/ object # None /\ confirmed' = [confirmed EXCEPT ![Current(r)] = object]
         \/ confirmed' = confirmed /\ Answer(r, "500")
  BY DEF Copy, Proceed
<1>3. /\ requests'[r].body = requests[r].body
      /\ \A q \in Requests \ {r} : requests'[q] = requests[q]
      /\ \/ requests'[r].pc = "delete" /\ requests'[r].response = requests[r].response
         \/ requests'[r].pc = "done" /\ requests'[r].response = "500"
  BY <1>1, <1>2, GoToEffect, AnswerEffect DEF Steps
<1>4. requests[r].response = "none" /\ requests[r].at \in Indices(r)
  BY <1>1 DEF HandlerInv
<1>5. requests[r].at \in 1 .. MaxFiles /\ Current(r) \in Items
  BY <1>1, <1>4, ItemsInRange DEF Current
<1>6. CASE confirmed' = confirmed /\ Answer(r, "500")
  <2>1. requests'[r].pc = "done" /\ requests'[r].response = "500"
    BY <1>1, <1>6, AnswerEffect
  <2>. QED  BY <1>1, <1>3, <1>6, <2>1, FreshQuiet DEF Steps
<1>7. CASE object # None /\ confirmed' = [confirmed EXCEPT ![Current(r)] = object]
  <2>. HIDE DEF object
  <2>1. /\ confirmed'[Current(r)] # None
        /\ \A i \in Items : i # Current(r) => confirmed'[i] = confirmed[i]
    BY <1>1, <1>5, <1>7
  <2>2. Touched(r)'
    BY <1>5, <2>1 DEF Touched, Current
  <2>3. HandedOver(r)' = HandedOver(r)
    BY <1>1, <1>3, HandedAlike
  <2>4. \A q \in Requests \ {r} : \A n \in 1 .. MaxFiles : confirmed'[<<q, n>>] = confirmed[<<q, n>>]
    BY <2>1 DEF Items, Current
  <2>5. Fresh(r)'
    BY <1>1, <1>3, <2>2 DEF Fresh
  <2>6. Told("none") = "none" /\ Told("500") = "failed"
    BY DEF Told
  <2>7. Promised(r)
    BY <1>3, <1>4, <2>2, <2>3, <2>6 DEF Promised
  <2>. QED  BY <1>1, <1>3, <2>4, <2>5, <2>7, FreshElsewhere
<1>. QED  BY <1>2, <1>6, <1>7

(* One call queues all the files of the request.                           *)
LEMMA FreshEnqueue ==
  ASSUME UploadAssumption, UInv, FreshInv, NEW r \in Requests, Enqueue(r)
  PROVE  FreshInv' /\ [Client!Next]_(Client!vars)
<1>1. /\ TypeOK /\ HandlerInv(r) /\ Fresh(r) /\ requests[r].pc = "enqueue"
      /\ UNCHANGED confirmed
  BY DEF UInv, TypeOK, FreshInv, Enqueue
<1>2. /\ GoTo(r, "respond") \/ Answer(r, "500")
      /\ \/ queue' = queue \cup ItemsOf(r)
         \/ queue' = queue /\ Answer(r, "500")
  BY DEF Enqueue, Proceed
<1>3. /\ requests'[r].body = requests[r].body
      /\ \A q \in Requests \ {r} : requests'[q] = requests[q]
      /\ \/ requests'[r].pc = "respond" /\ requests'[r].response = requests[r].response
         \/ requests'[r].pc = "done" /\ requests'[r].response = "500"
  BY <1>1, <1>2, GoToEffect, AnswerEffect DEF Steps
<1>4. /\ requests[r].response = "none" /\ requests[r].at \in Indices(r)
      /\ \A i \in ItemsOf(r) : Backed(i)
  BY <1>1 DEF HandlerInv
<1>5. CASE queue' = queue /\ Answer(r, "500")
  <2>1. requests'[r].pc = "done" /\ requests'[r].response = "500"
    BY <1>1, <1>5, AnswerEffect
  <2>. QED  BY <1>1, <1>3, <1>5, <2>1, FreshQuiet DEF Steps
<1>6. CASE queue' = queue \cup ItemsOf(r)
  <2>1. Current(r) \in ItemsOf(r) /\ requests[r].at \in 1 .. MaxFiles
    BY <1>1, <1>4, ItemsInRange DEF ItemsOf, Current
  <2>2. Touched(r) /\ Touched(r)' = Touched(r)
    BY <1>1, <1>4, <2>1 DEF Touched, Backed, Current
  <2>3. ItemsOf(r)' = ItemsOf(r)
    BY <1>3 DEF ItemsOf, Indices
  <2>4. HandedOver(r) = "none"
    BY <1>1, ItemsInRange DEF HandedOver, ItemsOf, Fresh
  <2>5. HandedOver(r)' = "all"
    BY <1>6, <2>1, <2>3 DEF HandedOver
  <2>6. \A q \in Requests \ {r} : \A n \in 1 .. MaxFiles : <<q, n>> \in queue' <=> <<q, n>> \in queue
    BY <1>6 DEF ItemsOf
  <2>7. Fresh(r)'
    BY <1>3 DEF Fresh
  <2>8. Told("none") = "none" /\ Told("500") = "failed"
    BY DEF Told
  <2>9. Promised(r)
    BY <1>3, <1>4, <2>2, <2>4, <2>5, <2>8 DEF Promised
  <2>. QED  BY <1>1, <1>3, <2>6, <2>7, <2>9, FreshElsewhere
<1>. QED  BY <1>2, <1>5, <1>6

LEMMA FreshNext ==
  ASSUME UploadAssumption, UInv, FreshInv, [Next]_vars
  PROVE  FreshInv' /\ [Client!Next]_(Client!vars)
<1>1. ASSUME UNCHANGED <<confirmed, queue, requests>>
      PROVE  FreshInv' /\ [Client!Next]_(Client!vars)
  <2>1. ASSUME NEW r \in Requests
        PROVE  Touched(r)' = Touched(r) /\ HandedOver(r)' = HandedOver(r)
    BY <1>1 DEF Touched, HandedOver, ItemsOf, Indices
  <2>. QED  BY <1>1, <2>1 DEF FreshInv, Fresh, Client!vars
<1>2. CASE \/ \E k \in Keys, size \in Sizes : Put(k, size)
           \/ \E k \in Keys : Expire(k)
  BY <1>1, <1>2 DEF Put, Expire
<1>3. CASE \E r \in Requests, c \in Confirms : Receive(r, c)
  BY <1>3, FreshReceive
<1>4. CASE \E r \in Requests : Handle(r) \/ Lose(r)
  BY <1>4, FreshHandle, FreshCopy, FreshEnqueue DEF Handle
<1>5. CASE UNCHANGED vars
  BY <1>1, <1>5 DEF vars
<1>. QED  BY <1>2, <1>3, <1>4, <1>5 DEF Next

LEMMA FreshInvariance == Spec => []FreshInv
<1>1. Init => FreshInv
  BY DEF Init, Idle, FreshInv, Fresh, Items, Touched
<1>2. UInv /\ FreshInv /\ [Next]_vars => FreshInv'
  BY FreshNext, UploadAssumption
<1>. QED  BY <1>1, <1>2, Invariance, PTL DEF Spec

(* A request is refused before it has left a trace or not at all, queued as *)
(* a whole or not at all, and accepted only once it is queued, whatever     *)
(* else is confirmed beside it and whatever fails.                         *)
THEOREM ConfirmsKeepTheirPromise == Spec => ConfirmKept
<1>1. Init => Client!Init
  <2>. SUFFICES ASSUME Init PROVE Client!Init
    OBVIOUS
  <2>1. \A r \in Requests : requests[r].response = "none" /\ ~Touched(r) /\ HandedOver(r) = "none"
    BY DEF Init, Idle, Touched, Items, HandedOver
  <2>2. /\ [r \in Requests |-> Told(requests[r].response)] = [r \in Requests |-> "none"]
        /\ {r \in Requests : Touched(r)} = {}
        /\ [r \in Requests |-> HandedOver(r)] = [r \in Requests |-> "none"]
    BY <2>1 DEF Told
  <2>. QED  BY <2>2 DEF Client!Init
<1>2. UInv /\ FreshInv /\ [Next]_vars => [Client!Next]_(Client!vars)
  BY FreshNext, UploadAssumption
<1>. QED  BY <1>1, <1>2, Invariance, FreshInvariance, PTL DEF Spec, ConfirmKept, Client!Spec

(* A handler stores a file or its document before any of its jobs is queued, *)
(* and stores nothing for another's: what a queued job needs is not touched. *)
THEOREM QueuedJobsStayBacked == Spec => QueuedJobsStay
<1>1. UInv /\ FreshInv /\ [Next]_vars =>
        [\A i \in queue : /\ i \in queue' /\ i \in jobs'
                         /\ files'[i] = files[i] /\ confirmed'[i] = confirmed[i]]_vars
  <2>. SUFFICES ASSUME UInv, FreshInv, Next, NEW i \in queue
                PROVE  /\ i \in queue' /\ i \in jobs'
                       /\ files'[i] = files[i] /\ confirmed'[i] = confirmed[i]
    OBVIOUS
  <2>1. /\ i \in jobs /\ TypeOK
        /\ \A r \in Requests : HandlerInv(r) /\ Fresh(r)
    BY DEF UInv, Backed, FreshInv
  <2>2. ASSUME NEW r \in Requests, requests[r].pc \in {"copy", "createFile"}
        PROVE  i # Current(r)
    <3>1. requests[r].at \in 1 .. MaxFiles
      BY <2>1, <2>2, ItemsInRange, UploadAssumption DEF HandlerInv
    <3>. QED  BY <2>1, <2>2, <3>1 DEF Fresh, Current
  <2>3. ASSUME NEW r \in Requests, Copy(r)
        PROVE  UNCHANGED <<files, jobs, queue>> /\ confirmed'[i] = confirmed[i]
    BY <2>1, <2>2, <2>3 DEF Copy, TypeOK
  <2>4. ASSUME NEW r \in Requests, CreateFile(r)
        PROVE  UNCHANGED <<confirmed, jobs, queue>> /\ files'[i] = files[i]
    BY <2>1, <2>2, <2>4 DEF CreateFile, TypeOK
  <2>5. ASSUME NEW r \in Requests, CreateJob(r) \/ Enqueue(r)
        PROVE  jobs \subseteq jobs' /\ queue \subseteq queue' /\ UNCHANGED <<files, confirmed>>
    BY <2>5 DEF CreateJob, Enqueue
  <2>6. ASSUME NEW r \in Requests,
               \/ Lose(r) \/ Delete(r) \/ Respond(r)
               \/ \E n \in Indices(r) : Verify(r, n)
               \/ \E c \in Confirms : Receive(r, c)
        PROVE  UNCHANGED <<files, confirmed, jobs, queue>>
    BY <2>6 DEF Lose, Delete, Respond, Verify, Receive, stores
  <2>7. ASSUME NEW k \in Keys, Expire(k) \/ \E size \in Sizes : Put(k, size)
        PROVE  UNCHANGED <<files, confirmed, jobs, queue>>
    BY <2>7 DEF Put, Expire
  <2>. QED  BY <2>1, <2>3, <2>4, <2>5, <2>6, <2>7 DEF Next, Handle
<1>. QED  BY <1>1, Invariance, FreshInvariance, PTL DEF Spec, QueuedJobsStay
(* No step but the arrival of a request changes the batch it names.        *)
LEMMA BatchKept ==
  ASSUME UploadAssumption, TypeOK, NEW r \in Requests, Handle(r) \/ Lose(r),
         NEW p \in Requests
  PROVE  requests'[p].batch = requests[p].batch
<1>1. requests \in [Requests -> Request] /\ requests[r] \in Request
  BY DEF TypeOK
<1>2. CASE \E i \in Indices(r) : Verify(r, i)
  BY <1>2, VerifyEffect
<1>3. CASE CreateJob(r)
  BY <1>1, <1>3 DEF CreateJob, Answer, Request
<1>4. CASE Copy(r) \/ Delete(r) \/ CreateFile(r) \/ Enqueue(r) \/ Respond(r) \/ Lose(r)
  <2>1. (\E pc \in Steps : GoTo(r, pc)) \/ (\E code \in {"201", "500"} : Answer(r, code))
    BY <1>4 DEF Copy, Delete, CreateFile, Enqueue, Respond, Lose, Proceed, Steps
  <2>. QED  BY <2>1, GoToEffect, AnswerEffect
<1>. QED  BY <1>2, <1>3, <1>4 DEF Handle

(* A job of a batch is queued once its request has created all of its jobs, *)
(* and nobody else adds to a batch that only this request has named.       *)
THEOREM BatchTotalFinal == Spec => BatchTotalIsFinal
<1>1. UInv /\ FreshInv /\ [Next]_vars =>
        [\A i \in queue, b \in Batches :
           BatchOf(i) = b /\ Naming(b)' = {i[1]} => JobsIn(b)' = JobsIn(b)]_vars
  <2>. SUFFICES ASSUME UInv, FreshInv, Next, NEW i \in queue, NEW b \in Batches,
                       BatchOf(i) = b, Naming(b)' = {i[1]}
                PROVE  JobsIn(b)' = JobsIn(b)
    OBVIOUS
  <2>1. /\ TypeOK /\ b # NoBatch /\ UploadAssumption
        /\ \A r \in Requests : HandlerInv(r) /\ Fresh(r)
    BY UploadAssumption DEF UInv, FreshInv, Batches
  <2>2. PICK n \in 1 .. MaxFiles : i[1] \in Requests /\ i = <<i[1], n>>
    BY <2>1 DEF TypeOK, Items
  <2>3. \A k \in jobs : k[1] \in Requests
    BY <2>1 DEF TypeOK, Items
  <2>4. CASE \/ \E k \in Keys, size \in Sizes : Put(k, size)
             \/ \E k \in Keys : Expire(k)
    BY <2>4 DEF Put, Expire, JobsIn, BatchOf
  <2>5. ASSUME NEW r \in Requests, NEW c \in Confirms, Receive(r, c)
        PROVE  JobsIn(b)' = JobsIn(b)
    <3>1. /\ requests[r].pc = "idle" /\ jobs' = jobs
          /\ requests'[r].batch = c.batch
          /\ \A p \in Requests \ {r} : requests'[p] = requests[p]
      BY <2>1, <2>5, ReceiveEffect DEF Receive
    <3>2. i[1] # r /\ requests[r].batch = NoBatch
      BY <2>1, <2>2, <3>1 DEF HandlerInv
    <3>3. c.batch # b
      BY <3>1, <3>2 DEF Naming
    <3>. QED  BY <2>1, <2>3, <3>1, <3>2, <3>3 DEF JobsIn, BatchOf
  <2>6. ASSUME NEW r \in Requests, Handle(r) \/ Lose(r)
        PROVE  JobsIn(b)' = JobsIn(b)
    <3>1. \A p \in Requests : requests'[p].batch = requests[p].batch
      BY <2>1, <2>6, BatchKept
    <3>2. CASE jobs' = jobs
      BY <2>3, <3>1, <3>2 DEF JobsIn, BatchOf
    <3>3. CASE CreateJob(r) /\ jobs' = jobs \cup {Current(r)}
      <4>1. i[1] # r
        BY <2>1, <2>2, <3>3 DEF CreateJob, Fresh
      <4>2. Current(r)[1] = r
        BY DEF Current
      <4>. QED  BY <2>3, <3>1, <3>3, <4>1, <4>2 DEF JobsIn, BatchOf, Naming
    <3>4. jobs' = jobs \/ (CreateJob(r) /\ jobs' = jobs \cup {Current(r)})
      BY <2>6 DEF Handle, Lose, Verify, Copy, Delete, CreateFile, CreateJob, Enqueue, Respond, stores
    <3>. QED  BY <3>2, <3>3, <3>4
  <2>. QED  BY <2>4, <2>5, <2>6 DEF Next
<1>. QED  BY <1>1, Invariance, FreshInvariance, PTL DEF Spec, BatchTotalIsFinal

=============================================================================
