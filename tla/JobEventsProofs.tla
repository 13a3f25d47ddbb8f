---------------------------- MODULE JobEventsProofs ----------------------------
(* Proofs about DashboardRooms and JobEvents, for any jobs, any bound on the *)
(* emits under way and any faults.                                         *)
EXTENDS JobEvents, SequenceTheorems, TLAPS

Emits == [act : {"join", "leave"}, room : Pages]

(* Emits under way: each room is left right after it was joined, and the     *)
(* next is joined right after that, up to the page's; the rooms on the       *)
(* server are those that the first of these emits expects.                  *)
Linked(e, f) == IF e.act = "join" THEN f = Leave(e.room) ELSE f.act = "join"

Expected(e) == IF e.act = "join" THEN {} ELSE {e.room}

EmitsInv ==
  /\ \A i \in 1 .. (Len(outbox) - 1) : Linked(outbox[i], outbox[i + 1])
  /\ outbox # <<>> =>
       /\ outbox[Len(outbox)] = Join(page)
       /\ rooms \subseteq Expected(outbox[1])
       /\ ~dropped
  /\ outbox = <<>> => rooms = IF dropped THEN {} ELSE {page}

RInv == RoomsTypeOK /\ EmitsInv

LEMMA RoomsInitInv == ASSUME RoomsAssumption, RoomsInit PROVE RInv
<1>1. /\ page \in Pages
      /\ outbox = <<Join(page)>>
      /\ Join(page) \in [act : {"join", "leave"}, room : Pages]
  BY DEF RoomsInit, Join
<1>2. /\ outbox \in Seq([act : {"join", "leave"}, room : Pages])
      /\ Len(outbox) = 1
      /\ outbox[1] = Join(page)
      /\ outbox # <<>>
  BY <1>1
<1>3. RoomsTypeOK
  <2>1. MaxOutbox >= 1
    BY RoomsAssumption DEF RoomsAssumption
  <2>. QED  BY <1>1, <1>2, <2>1 DEF RoomsInit, RoomsTypeOK
<1>4. EmitsInv
  BY <1>2 DEF RoomsInit, EmitsInv
<1>. QED  BY <1>3, <1>4 DEF RInv

LEMMA OpenStep ==
  ASSUME RInv, NEW p \in Pages, Open(p)
  PROVE  RInv'
<1>. DEFINE two == <<Leave(page), Join(p)>>
<1>1. /\ outbox \in Seq(Emits)
      /\ page \in Pages
      /\ RoomsTypeOK
      /\ EmitsInv
  BY DEF RInv, RoomsTypeOK, Emits
<1>2. /\ outbox' = outbox \o two
      /\ Len(outbox) + 2 <= MaxOutbox
      /\ page' = p
      /\ dropped' = FALSE
      /\ UNCHANGED <<connected, rooms>>
  BY DEF Open
<1>3. two \in Seq(Emits) /\ Len(two) = 2 /\ two[1] = Leave(page) /\ two[2] = Join(p)
  BY <1>1 DEF Leave, Join, Emits
<1>. HIDE DEF two
<1>4. /\ outbox' \in Seq(Emits)
      /\ Len(outbox) \in Nat
      /\ Len(outbox') = Len(outbox) + 2
      /\ \A i \in 1 .. Len(outbox) : outbox'[i] = outbox[i]
      /\ outbox'[Len(outbox) + 1] = Leave(page)
      /\ outbox'[Len(outbox) + 2] = Join(p)
  <2>1. /\ outbox \o two \in Seq(Emits)
        /\ Len(outbox \o two) = Len(outbox) + Len(two)
        /\ \A i \in 1 .. Len(outbox) + Len(two) :
             (outbox \o two)[i] = IF i <= Len(outbox) THEN outbox[i] ELSE two[i - Len(outbox)]
    <3>1. outbox \in Seq(Emits) /\ two \in Seq(Emits)
      BY <1>1, <1>3
    <3>. QED  BY <3>1, ConcatProperties, Zenon
  <2>2. Len(outbox) \in Nat
    BY <1>1
  <2>3. /\ (Len(outbox) + 1) - Len(outbox) = 1 /\ ~(Len(outbox) + 1 <= Len(outbox))
        /\ (Len(outbox) + 2) - Len(outbox) = 2 /\ ~(Len(outbox) + 2 <= Len(outbox))
        /\ Len(outbox) + 1 \in 1 .. (Len(outbox) + 2)
        /\ Len(outbox) + 2 \in 1 .. (Len(outbox) + 2)
        /\ \A i \in 1 .. Len(outbox) : i \in 1 .. (Len(outbox) + 2) /\ i <= Len(outbox)
    BY <2>2
  <2>. QED  BY <1>2, <1>3, <2>1, <2>2, <2>3
<1>5. RoomsTypeOK'
  BY <1>1, <1>2, <1>4 DEF RoomsTypeOK, Emits
<1>6. outbox' # <<>>
  BY <1>4
<1>7. Len(outbox) > 0 => outbox # <<>> /\ outbox'[1] = outbox[1]
  BY <1>1, <1>4
<1>8. \A i \in 1 .. (Len(outbox') - 1) : Linked(outbox'[i], outbox'[i + 1])
  <2>. SUFFICES ASSUME NEW i \in 1 .. (Len(outbox') - 1)
                PROVE  Linked(outbox'[i], outbox'[i + 1])
    OBVIOUS
  <2>1. CASE i < Len(outbox)
    <3>1. /\ i \in 1 .. (Len(outbox) - 1)
          /\ outbox'[i] = outbox[i]
          /\ outbox'[i + 1] = outbox[i + 1]
      BY <1>4, <2>1
    <3>. QED  BY <1>1, <3>1 DEF EmitsInv
  <2>2. CASE i = Len(outbox)
    <3>1. outbox'[i] = Join(page) /\ outbox'[i + 1] = Leave(page)
      BY <1>1, <1>4, <1>7, <2>2 DEF EmitsInv
    <3>. QED  BY <3>1 DEF Linked, Join, Leave
  <2>3. CASE i = Len(outbox) + 1
    <3>1. outbox'[i] = Leave(page) /\ outbox'[i + 1] = Join(p)
      BY <1>4, <2>3
    <3>. QED  BY <3>1 DEF Linked, Join, Leave
  <2>. QED  BY <1>4, <2>1, <2>2, <2>3
<1>9. rooms \subseteq Expected(outbox'[1])
  <2>1. CASE outbox = <<>>
    <3>1. outbox'[1] = Leave(page)
      BY <1>4, <2>1
    <3>. QED  BY <1>1, <2>1, <3>1 DEF EmitsInv, Expected, Leave
  <2>2. CASE outbox # <<>>
    <3>1. Len(outbox) > 0
      BY <1>1, <2>2
    <3>. QED  BY <1>1, <1>7, <2>2, <3>1 DEF EmitsInv
  <2>. QED  BY <2>1, <2>2
<1>10. outbox'[Len(outbox')] = Join(page')
  BY <1>2, <1>4
<1>11. EmitsInv'
  BY <1>2, <1>6, <1>8, <1>9, <1>10 DEF EmitsInv
<1>. QED  BY <1>5, <1>11 DEF RInv

LEMMA HandleStep ==
  ASSUME RInv, HandleEmit
  PROVE  RInv'
<1>1. outbox \in Seq(Emits) /\ outbox # <<>> /\ RoomsTypeOK /\ EmitsInv
  BY DEF RInv, RoomsTypeOK, HandleEmit, Emits
<1>2. /\ rooms' = Handled(outbox[1], rooms)
      /\ outbox' = Tail(outbox)
      /\ UNCHANGED <<page, connected, dropped>>
  BY DEF HandleEmit
<1>3. /\ Len(outbox) \in Nat /\ Len(outbox) > 0
      /\ outbox' \in Seq(Emits)
      /\ Len(outbox') = Len(outbox) - 1
      /\ \A i \in 1 .. (Len(outbox) - 1) : outbox'[i] = outbox[i + 1]
  BY <1>1, <1>2
<1>4. outbox[1] \in Emits /\ ~dropped
  <2>1. 1 \in 1 .. Len(outbox)
    BY <1>3
  <2>2. outbox[1] \in Emits
    BY <1>1, <2>1
  <2>. QED  BY <1>1, <2>2 DEF EmitsInv
<1>5. rooms' = IF outbox[1].act = "join" THEN {outbox[1].room} ELSE {}
  BY <1>1, <1>2, <1>4 DEF EmitsInv, Expected, Handled, Emits
<1>6. RoomsTypeOK'
  <2>1. Len(outbox') <= MaxOutbox
    BY <1>1, <1>3, RoomsAssumption DEF RoomsTypeOK, RoomsAssumption
  <2>2. rooms' \subseteq Pages
    BY <1>4, <1>5 DEF Emits
  <2>. QED  BY <1>1, <1>2, <1>3, <2>1, <2>2 DEF RoomsTypeOK, Emits
<1>7. \A i \in 1 .. (Len(outbox') - 1) : Linked(outbox'[i], outbox'[i + 1])
  <2>. SUFFICES ASSUME NEW i \in 1 .. (Len(outbox') - 1)
                PROVE  Linked(outbox'[i], outbox'[i + 1])
    OBVIOUS
  <2>1. /\ i + 1 \in 1 .. (Len(outbox) - 1)
        /\ outbox'[i] = outbox[i + 1]
        /\ outbox'[i + 1] = outbox[(i + 1) + 1]
    BY <1>3
  <2>. QED  BY <1>1, <2>1 DEF EmitsInv
<1>8. outbox' = <<>> <=> Len(outbox) = 1
  BY <1>3
<1>9. CASE Len(outbox) = 1
  <2>1. outbox[1] = Join(page)
    BY <1>1, <1>9 DEF EmitsInv
  <2>2. rooms' = {page}
    BY <1>5, <2>1 DEF Join
  <2>. QED  BY <1>2, <1>4, <1>6, <1>7, <1>8, <1>9, <2>2 DEF RInv, EmitsInv
<1>10. CASE Len(outbox) # 1
  <2>1. 1 \in 1 .. (Len(outbox) - 1) /\ outbox'[1] = outbox[1 + 1]
    BY <1>3, <1>10
  <2>2. Linked(outbox[1], outbox[1 + 1])
    BY <1>1, <2>1 DEF EmitsInv
  <2>3. rooms' \subseteq Expected(outbox'[1])
    BY <1>5, <2>1, <2>2 DEF Leave, Linked, Expected
  <2>4. outbox'[Len(outbox')] = Join(page)
    <3>1. /\ Len(outbox') \in 1 .. (Len(outbox) - 1)
          /\ outbox'[Len(outbox')] = outbox[Len(outbox)]
      BY <1>3, <1>10
    <3>. QED  BY <1>1, <3>1 DEF EmitsInv
  <2>. QED  BY <1>2, <1>4, <1>6, <1>7, <1>8, <1>10, <2>3, <2>4 DEF RInv, EmitsInv
<1>. QED  BY <1>9, <1>10

LEMMA RoomsStep ==
  ASSUME RInv, RoomsNext \/ UNCHANGED roomVars
  PROVE  RInv'
<1>1. CASE Connect
  BY <1>1 DEF RInv, RoomsTypeOK, EmitsInv, Connect
<1>2. CASE Disconnect
  <2>1. /\ outbox' = <<>> /\ rooms' = {} /\ dropped' = TRUE /\ connected' = FALSE
        /\ page' = page
    BY <1>2 DEF Disconnect
  <2>2. Len(outbox') = 0 /\ outbox' \in Seq(Emits)
    BY <2>1
  <2>3. Len(outbox') <= MaxOutbox
    BY <2>2, RoomsAssumption DEF RoomsAssumption
  <2>4. RoomsTypeOK'
    BY <2>1, <2>2, <2>3 DEF RInv, RoomsTypeOK, Emits
  <2>5. EmitsInv'
    BY <2>1, <2>2 DEF EmitsInv
  <2>. QED  BY <2>4, <2>5 DEF RInv
<1>3. CASE UNCHANGED roomVars
  BY <1>3 DEF RInv, RoomsTypeOK, EmitsInv, roomVars
<1>. QED  BY <1>1, <1>2, <1>3, OpenStep, HandleStep DEF RoomsNext

-----------------------------------------------------------------------------
(* An event, a due emit of the API and an answer are never older than the   *)
(* job they are about; what the overview was told of is in its answer.      *)
Existing == {j \in Jobs : status[j] # None}

ToldInv ==
  /\ status \in [Jobs -> Statuses \cup {None}]
  /\ DOMAIN queries = Pages
  /\ \A c \in calls : c.job \in Existing
  /\ \A m \in inbox : m.job \in Existing
  /\ told \subseteq Existing
  /\ queries[Dashboard].pc \in {"idle", "sent", "served"}
  /\ queries[Dashboard].pc = "served" => told \subseteq DOMAIN queries[Dashboard].answer
  /\ queries[Dashboard].pc = "idle" => told \subseteq DOMAIN queries[Dashboard].shown

(* The writers, and the calls to SocketService.                            *)
LEMMA WriterStep ==
  ASSUME ToldInv, NEW j \in Jobs, Create(j) \/ Start(j) \/ Finish(j)
  PROVE  ToldInv'
<1>1. /\ UNCHANGED <<queries, inbox, told>>
      /\ status' \in [Jobs -> Statuses \cup {None}]
      /\ Existing \subseteq Existing'
      /\ j \in Existing'
      /\ \A c \in calls' : c \in calls \/ c.job = j
  <2>1. CASE Create(j)
    BY <2>1 DEF Create, ToldInv, Existing, Statuses, None
  <2>2. CASE Start(j)
    BY <2>2 DEF Start, ToldInv, Existing, Statuses, None
  <2>3. CASE Finish(j)
    BY <2>3 DEF Finish, ToldInv, Existing, Statuses, None
  <2>. QED  BY <2>1, <2>2, <2>3
<1>. QED  BY <1>1 DEF ToldInv

LEMMA EmitStep ==
  ASSUME ToldInv, NEW c \in calls, Emit(c)
  PROVE  ToldInv'
<1>1. /\ UNCHANGED <<status, queries, told>>
      /\ calls' \subseteq calls
      /\ inbox' = inbox \/ inbox' = inbox \cup Events(c)
  BY DEF Emit
<1>2. \A m \in Events(c) : m.job \in Existing
  BY DEF Events, ToldInv
<1>. QED  BY <1>1, <1>2 DEF ToldInv, Existing

(* What a step of the overview's query does to it.                         *)
LEMMA QueryStep ==
  ASSUME RoomsAssumption, ToldInv, RoomsTypeOK,
         \/ \E m \in inbox : OnEvent(m)
         \/ \E q \in Pages : Fetch(q) \/ Serve(q) \/ Receive(q) \/ FailFetch(q) \/ Forget(q)
  PROVE  ToldInv'
<1>1. UNCHANGED <<status, calls>> /\ inbox' \subseteq inbox /\ Existing' = Existing
  BY DEF OnEvent, Fetch, Serve, Receive, FailFetch, Forget, Existing
<1>2. DOMAIN queries = Pages /\ Dashboard \in Pages /\ page \in Pages
  BY DEF ToldInv, Pages, RoomsTypeOK
<1>3. ASSUME NEW m \in inbox, OnEvent(m)
      PROVE  ToldInv'
  <2>1. CASE Listening(m) /\ ~Joins(queries[page]) /\ page = Dashboard
    <3>1. /\ DOMAIN queries' = Pages
          /\ queries'[Dashboard].pc = "sent"
          /\ told' = told \cup {m.job}
      <4>1. queries' = [queries EXCEPT ![Dashboard].pc = "sent", ![Dashboard].answer = Nothing]
        BY <1>3, <2>1 DEF OnEvent
      <4>2. told' = told \cup {m.job}
        BY <1>3, <2>1 DEF OnEvent
      <4>3. DOMAIN queries' = Pages
        BY <1>2, <4>1
      <4>4. queries'[Dashboard].pc = "sent"
        BY <1>2, <4>1
      <4>. QED  BY <4>2, <4>3, <4>4
    <3>. QED  BY <1>1, <3>1 DEF ToldInv
  <2>2. CASE ~(Listening(m) /\ ~Joins(queries[page]) /\ page = Dashboard)
    <3>1. /\ DOMAIN queries' = Pages
          /\ queries'[Dashboard] = queries[Dashboard]
          /\ told' = told
      BY <1>2, <1>3, <2>2 DEF OnEvent
    <3>. QED  BY <1>1, <3>1 DEF ToldInv
  <2>. QED  BY <2>1, <2>2
<1>4. ASSUME NEW q \in Pages, q # Dashboard,
             Fetch(q) \/ Serve(q) \/ Receive(q) \/ FailFetch(q) \/ Forget(q)
      PROVE  ToldInv'
  <2>1. /\ DOMAIN queries' = Pages
        /\ queries'[Dashboard] = queries[Dashboard]
        /\ told' = told
    BY <1>2, <1>4 DEF Fetch, Serve, Receive, FailFetch, Forget
  <2>. QED  BY <1>1, <2>1 DEF ToldInv
<1>5. CASE Fetch(Dashboard)
  <2>1. DOMAIN queries' = Pages /\ queries'[Dashboard].pc = "sent" /\ told' = told
    BY <1>2, <1>5 DEF Fetch
  <2>. QED  BY <1>1, <2>1 DEF ToldInv
<1>6. CASE Serve(Dashboard)
  <2>1. /\ DOMAIN queries' = Pages /\ told' = told
        /\ queries'[Dashboard].pc = "served"
        /\ queries'[Dashboard].answer = Answer(Dashboard)
    BY <1>2, <1>6 DEF Serve
  <2>2. DOMAIN Answer(Dashboard) = Existing
    BY DEF Answer, Existing
  <2>. QED  BY <1>1, <2>1, <2>2 DEF ToldInv
<1>7. CASE Receive(Dashboard)
  <2>1. /\ DOMAIN queries' = Pages /\ told' = told
        /\ queries[Dashboard].pc = "served"
        /\ queries'[Dashboard].pc = "idle"
        /\ queries'[Dashboard].shown = queries[Dashboard].answer
    BY <1>2, <1>7 DEF Receive
  <2>. QED  BY <1>1, <2>1 DEF ToldInv
<1>8. CASE FailFetch(Dashboard)
  <2>1. DOMAIN queries' = Pages /\ queries'[Dashboard].pc = "idle" /\ told' = {}
    BY <1>2, <1>8 DEF FailFetch
  <2>. QED  BY <1>1, <2>1 DEF ToldInv
<1>9. CASE Forget(Dashboard)
  <2>1. DOMAIN queries' = Pages /\ queries'[Dashboard].pc = "idle" /\ told' = {}
    BY <1>2, <1>9 DEF Forget, Unloaded
  <2>. QED  BY <1>1, <2>1 DEF ToldInv
<1>. QED  BY <1>3, <1>4, <1>5, <1>6, <1>7, <1>8, <1>9

JInv == RInv /\ ToldInv

(* The rooms follow the page, and the answers what the tab was told, in      *)
(* every state.                                                            *)
THEOREM Invariance == Spec => []JInv
<1>1. Init => JInv
  BY RoomsAssumption, RoomsInitInv DEF Init, Unloaded, JInv, ToldInv, Existing, None, Pages
<1>2. JInv /\ [Next]_vars => JInv'
  <2>. SUFFICES ASSUME JInv, [Next]_vars PROVE JInv'
    OBVIOUS
  <2>1. RInv /\ ToldInv /\ RoomsTypeOK
    BY DEF JInv, RInv
  <2>2. CASE \E j \in Jobs : Create(j) \/ Start(j) \/ Finish(j)
    <3>1. UNCHANGED roomVars
      BY <2>2 DEF Create, Start, Finish
    <3>. QED  BY <2>1, <2>2, <3>1, WriterStep, RoomsStep DEF JInv
  <2>3. CASE \E c \in calls : Emit(c)
    <3>1. UNCHANGED roomVars
      BY <2>3 DEF Emit
    <3>. QED  BY <2>1, <2>3, <3>1, EmitStep, RoomsStep DEF JInv
  <2>4. CASE \/ \E m \in inbox : OnEvent(m)
             \/ \E q \in Pages : Fetch(q) \/ Serve(q) \/ Receive(q) \/ FailFetch(q) \/ Forget(q)
    <3>1. UNCHANGED roomVars
      BY <2>4 DEF OnEvent, Fetch, Serve, Receive, FailFetch, Forget
    <3>. QED  BY <2>1, <2>4, <3>1, RoomsAssumption, QueryStep, RoomsStep DEF JInv
  <2>5. CASE Socket
    <3>1. RInv'
      BY <2>1, <2>5, RoomsStep DEF Socket
    <3>2. ToldInv'
      BY <2>1, <2>5 DEF Socket, ToldInv, Existing
    <3>. QED  BY <3>1, <3>2 DEF JInv
  <2>6. CASE UNCHANGED vars \/ \E j \in Jobs : FetchResult(j)
    <3>1. UNCHANGED roomVars /\ UNCHANGED <<status, calls, inbox, queries, told>>
      BY <2>6 DEF vars, roomVars, FetchResult
    <3>2. ToldInv'
      BY <2>1, <3>1 DEF ToldInv, Existing
    <3>. QED  BY <2>1, <3>1, <3>2, RoomsStep DEF JInv
  <2>. QED  BY <2>2, <2>3, <2>4, <2>5, <2>6 DEF Next
<1>. QED  BY <1>1, <1>2, PTL DEF Spec

(* Whatever is navigated, emitted and lost in whatever order, a tab whose    *)
(* emits are handled is in no room but that of its page.                    *)
THEOREM RoomsFollow == Spec => []RoomsFollowPage
<1>1. JInv => RoomsFollowPage
  BY DEF JInv, RInv, EmitsInv, RoomsFollowPage
<1>. QED  BY <1>1, Invariance, PTL

(* A job that the overview was told of is on it once its requests are over,  *)
(* for all that an answer may be older than the event.                      *)
THEOREM ToldShown == Spec => []ToldIsShown
<1>1. JInv => ToldIsShown
  BY DEF JInv, ToldInv, ToldIsShown
<1>. QED  BY <1>1, Invariance, PTL

-----------------------------------------------------------------------------
(* Types.  A page shows nothing but its own job, with a status that a job     *)
(* can have; for that the request's answer is typed by the page, too.       *)
StatesOK == status \in [Jobs -> Statuses \cup {None}]

CallsOK ==
  /\ calls \subseteq [by : {"api", "worker"}, about : {"created", "completed", "failed"}, job : Jobs]
  /\ pushed \subseteq Jobs
  /\ inbox \subseteq [event : {"stats:update", "completed", "failed"}, job : Jobs]

Requests(q) ==
  [pc : {"idle", "sent", "served"}, answer : Snapshots(q), loaded : BOOLEAN,
   shown : Snapshots(q)]

QueriesOK ==
  /\ DOMAIN queries = Pages
  /\ \A q \in Pages : queries[q] \in Requests(q)

TabOK == results \subseteq Jobs /\ told \subseteq Jobs

TypeInv == StatesOK /\ CallsOK /\ QueriesOK /\ TabOK

LEMMA EmptySnapshot == \A q \in Pages : Nothing \in Snapshots(q)
<1>. SUFFICES ASSUME NEW q \in Pages PROVE Nothing \in Snapshots(q)
  OBVIOUS
<1>1. Nothing \in [{} -> Statuses]
  BY DEF Nothing
<1>2. {} \in SUBSET (IF q = Dashboard THEN Jobs ELSE {q})
  OBVIOUS
<1>. QED  BY <1>1, <1>2 DEF Snapshots

(* What the server answers on a page: the status of jobs of that page.      *)
LEMMA AnswerIsSnapshot ==
  ASSUME StatesOK, NEW q \in Pages
  PROVE  Answer(q) \in Snapshots(q)
<1>. DEFINE js == {k \in Jobs : q \in {k, Dashboard} /\ status[k] # None}
<1>1. js \in SUBSET (IF q = Dashboard THEN Jobs ELSE {q})
  BY DEF Pages
<1>2. \A k \in js : status[k] \in Statuses
  BY DEF StatesOK
<1>3. Answer(q) = [k \in js |-> status[k]]
  BY DEF Answer
<1>. HIDE DEF js
<1>4. Answer(q) \in [js -> Statuses]
  BY <1>2, <1>3
<1>. QED  BY <1>1, <1>4 DEF Snapshots

(* A step of one request that keeps its type keeps that of all of them.     *)
LEMMA OneRequest ==
  ASSUME QueriesOK, NEW q \in Pages,
         DOMAIN queries' = Pages,
         \A k \in Pages : k # q => queries'[k] = queries[k],
         queries'[q] \in Requests(q)
  PROVE  QueriesOK'
<1>1. \A k \in Pages : queries'[k] \in Requests(k)
  BY DEF QueriesOK
<1>. QED  BY <1>1 DEF QueriesOK, Requests, Snapshots

LEMMA QueriesInit == Init => QueriesOK
<1>. SUFFICES ASSUME Init PROVE QueriesOK
  OBVIOUS
<1>1. queries = [q \in Pages |-> Unloaded]
  BY DEF Init
<1>. QED  BY <1>1, EmptySnapshot DEF QueriesOK, Requests, Unloaded

(* The steps of the requests.                                              *)
LEMMA RequestsStep ==
  ASSUME TypeInv, page \in Pages,
         \/ \E m \in inbox : OnEvent(m)
         \/ \E q \in Pages : Fetch(q) \/ Serve(q) \/ Receive(q) \/ FailFetch(q) \/ Forget(q)
  PROVE  QueriesOK'
<1>1. ASSUME NEW m \in inbox, OnEvent(m)
      PROVE  QueriesOK'
  <2>1. CASE Listening(m) /\ ~Joins(queries[page])
    <3>1. /\ queries[page] \in Requests(page) /\ DOMAIN queries = Pages
          /\ Nothing \in Snapshots(page)
      BY EmptySnapshot DEF TypeInv, QueriesOK
    <3>2. queries' = [queries EXCEPT ![page].pc = "sent", ![page].answer = Nothing]
      BY <1>1, <2>1 DEF OnEvent
    <3>3. /\ DOMAIN queries' = Pages
          /\ \A k \in Pages : k # page => queries'[k] = queries[k]
          /\ queries'[page] = [queries[page] EXCEPT !.pc = "sent", !.answer = Nothing]
      BY <3>1, <3>2
    <3>4. queries'[page] \in Requests(page)
      BY <3>1, <3>3 DEF Requests
    <3>. QED  BY <3>3, <3>4, OneRequest DEF TypeInv
  <2>2. CASE ~(Listening(m) /\ ~Joins(queries[page]))
    BY <1>1, <2>2 DEF OnEvent, TypeInv, QueriesOK, Requests, Snapshots
  <2>. QED  BY <2>1, <2>2
<1>2. ASSUME NEW q \in Pages, Fetch(q)
      PROVE  QueriesOK'
  <2>1. queries[q] \in Requests(q) /\ DOMAIN queries = Pages
    BY DEF TypeInv, QueriesOK
  <2>2. queries' = [queries EXCEPT ![q].pc = "sent"]
    BY <1>2 DEF Fetch
  <2>3. /\ DOMAIN queries' = Pages
        /\ \A k \in Pages : k # q => queries'[k] = queries[k]
        /\ queries'[q] = [queries[q] EXCEPT !.pc = "sent"]
    BY <2>1, <2>2
  <2>4. queries'[q] \in Requests(q)
    BY <2>1, <2>3 DEF Requests
  <2>. QED  BY <2>3, <2>4, OneRequest DEF TypeInv
<1>3. ASSUME NEW q \in Pages, Serve(q)
      PROVE  QueriesOK'
  <2>1. queries[q] \in Requests(q) /\ DOMAIN queries = Pages /\ Answer(q) \in Snapshots(q)
    BY AnswerIsSnapshot DEF TypeInv, QueriesOK
  <2>2. queries' = [queries EXCEPT ![q].pc = "served", ![q].answer = Answer(q)]
    BY <1>3 DEF Serve
  <2>3. /\ DOMAIN queries' = Pages
        /\ \A k \in Pages : k # q => queries'[k] = queries[k]
        /\ queries'[q] = [queries[q] EXCEPT !.pc = "served", !.answer = Answer(q)]
    BY <2>1, <2>2
  <2>4. queries'[q] \in Requests(q)
    BY <2>1, <2>3 DEF Requests
  <2>. QED  BY <2>3, <2>4, OneRequest DEF TypeInv
<1>4. ASSUME NEW q \in Pages, Receive(q)
      PROVE  QueriesOK'
  <2>1. /\ queries[q] \in Requests(q) /\ DOMAIN queries = Pages
        /\ Nothing \in Snapshots(q)
    BY EmptySnapshot DEF TypeInv, QueriesOK
  <2>2. /\ DOMAIN queries' = Pages
        /\ \A k \in Pages : k # q => queries'[k] = queries[k]
        /\ queries'[q] = [pc     |-> "idle", answer |-> Nothing,
                          loaded |-> q = Dashboard \/ queries[q].answer # Nothing,
                          shown  |-> queries[q].answer]
    BY <1>4, <2>1 DEF Receive
  <2>3. queries'[q] \in Requests(q)
    BY <2>1, <2>2 DEF Requests
  <2>. QED  BY <2>2, <2>3, OneRequest DEF TypeInv
<1>5. ASSUME NEW q \in Pages, FailFetch(q)
      PROVE  QueriesOK'
  <2>1. queries[q] \in Requests(q) /\ DOMAIN queries = Pages /\ Nothing \in Snapshots(q)
    BY EmptySnapshot DEF TypeInv, QueriesOK
  <2>2. queries' = [queries EXCEPT ![q].pc = "idle", ![q].answer = Nothing]
    BY <1>5 DEF FailFetch
  <2>3. /\ DOMAIN queries' = Pages
        /\ \A k \in Pages : k # q => queries'[k] = queries[k]
        /\ queries'[q] = [queries[q] EXCEPT !.pc = "idle", !.answer = Nothing]
    BY <2>1, <2>2
  <2>4. queries'[q] \in Requests(q)
    BY <2>1, <2>3 DEF Requests
  <2>. QED  BY <2>3, <2>4, OneRequest DEF TypeInv
<1>6. ASSUME NEW q \in Pages, Forget(q)
      PROVE  QueriesOK'
  <2>1. queries[q] \in Requests(q) /\ DOMAIN queries = Pages /\ Nothing \in Snapshots(q)
    BY EmptySnapshot DEF TypeInv, QueriesOK
  <2>2. queries' = [queries EXCEPT ![q] = Unloaded]
    BY <1>6 DEF Forget
  <2>3. /\ DOMAIN queries' = Pages
        /\ \A k \in Pages : k # q => queries'[k] = queries[k]
        /\ queries'[q] = Unloaded
    BY <2>1, <2>2
  <2>4. queries'[q] \in Requests(q)
    BY <2>1, <2>3 DEF Requests, Unloaded
  <2>. QED  BY <2>3, <2>4, OneRequest DEF TypeInv
<1>. QED  BY <1>1, <1>2, <1>3, <1>4, <1>5, <1>6

LEMMA EventTypes ==
  ASSUME CallsOK, NEW c \in calls
  PROVE  Events(c) \subseteq [event : {"stats:update", "completed", "failed"}, job : Jobs]
<1>1. /\ c.about \in {"created", "completed", "failed"}
      /\ c.job \in Jobs
  BY DEF CallsOK
<1>2. \A j \in rooms \cap (IF c.about = "created" THEN {} ELSE {c.job}) :
        c.about \in {"completed", "failed"} /\ j \in Jobs
  BY <1>1
<1>. QED  BY <1>1, <1>2 DEF Events

LEMMA TypesStep ==
  ASSUME TypeInv, RInv, [Next]_vars
  PROVE  TypeInv'
<1>1. page \in Pages
  BY DEF RInv, RoomsTypeOK
<1>2. ASSUME NEW j \in Jobs, Create(j) \/ Start(j) \/ Finish(j)
      PROVE  TypeInv'
  <2>1. UNCHANGED <<pushed, inbox, queries, results, told>>
    BY <1>2 DEF Create, Start, Finish
  <2>2. StatesOK'
    BY <1>2 DEF Create, Start, Finish, TypeInv, StatesOK, Statuses, None
  <2>3. CallsOK'
    BY <1>2, <2>1 DEF Create, Start, Finish, TypeInv, CallsOK
  <2>. QED  BY <2>1, <2>2, <2>3 DEF TypeInv, QueriesOK, Requests, Snapshots, TabOK
<1>3. ASSUME NEW c \in calls, Emit(c)
      PROVE  TypeInv'
  <2>1. /\ UNCHANGED <<status, queries, results, told>>
        /\ calls' \subseteq calls
        /\ inbox' \subseteq inbox \cup Events(c)
        /\ pushed' \subseteq pushed \cup {c.job}
    BY <1>3 DEF Emit
  <2>2. c.job \in Jobs
    BY DEF TypeInv, CallsOK
  <2>3. CallsOK'
    BY <2>1, <2>2, EventTypes DEF TypeInv, CallsOK
  <2>. QED  BY <2>1, <2>3 DEF TypeInv, StatesOK, QueriesOK, Requests, Snapshots, TabOK
<1>4. CASE \/ \E m \in inbox : OnEvent(m)
           \/ \E q \in Pages : Fetch(q) \/ Serve(q) \/ Receive(q) \/ FailFetch(q) \/ Forget(q)
  <2>1. QueriesOK'
    BY <1>1, <1>4, RequestsStep
  <2>2. UNCHANGED <<status, calls, pushed, results>> /\ inbox' \subseteq inbox
    BY <1>4 DEF OnEvent, Fetch, Serve, Receive, FailFetch, Forget
  <2>3. \/ told' \subseteq told
        \/ \E m \in inbox : told' = told \cup {m.job}
    BY <1>4 DEF OnEvent, Fetch, Serve, Receive, FailFetch, Forget
  <2>4. \A m \in inbox : m.job \in Jobs
    BY DEF TypeInv, CallsOK
  <2>5. TabOK'
    BY <2>2, <2>3, <2>4 DEF TypeInv, TabOK
  <2>. QED  BY <2>1, <2>2, <2>5 DEF TypeInv, StatesOK, CallsOK
<1>5. CASE Socket \/ (\E j \in Jobs : FetchResult(j)) \/ UNCHANGED vars
  <2>1. /\ UNCHANGED <<status, calls, pushed, queries, told>>
        /\ inbox' \subseteq inbox
        /\ results' \subseteq Jobs
    BY <1>5 DEF Socket, FetchResult, vars, TypeInv, TabOK
  <2>. QED  BY <2>1 DEF TypeInv, StatesOK, CallsOK, QueriesOK, Requests, Snapshots, TabOK
<1>. QED  BY <1>2, <1>3, <1>4, <1>5 DEF Next

(* Every variable keeps its type, and a page shows nothing but jobs of its   *)
(* own with a status a job can have, whatever answers and events reach it.  *)
THEOREM TypeCorrect == Spec => []TypeOK
<1>1. Init => TypeInv
  BY QueriesInit DEF Init, TypeInv, StatesOK, CallsOK, TabOK, None
<1>2. TypeInv /\ JInv /\ [Next]_vars => TypeInv'
  BY TypesStep DEF JInv
<1>3. TypeInv /\ JInv => TypeOK
  <2>. SUFFICES ASSUME TypeInv, JInv PROVE TypeOK
    OBVIOUS
  <2>1. RoomsTypeOK
    BY DEF JInv, RInv
  <2>2. \A q \in Pages : /\ queries[q].pc \in {"idle", "sent", "served"}
                        /\ queries[q].loaded \in BOOLEAN
                        /\ {queries[q].answer, queries[q].shown} \subseteq Snapshots(q)
    BY DEF TypeInv, QueriesOK, Requests
  <2>. QED  BY <2>1, <2>2 DEF TypeInv, TypeOK, StatesOK, CallsOK, TabOK
<1>. QED  BY <1>1, <1>2, <1>3, Invariance, PTL DEF Spec
=============================================================================
