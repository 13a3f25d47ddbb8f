------------------------------ MODULE JobEvents ------------------------------
(***************************************************************************)
(* How a dashboard tab learns what became of a job: from the emits of        *)
(* SocketService to the rooms of the tab (DashboardRooms), and by polling.  *)
(*                                                                         *)
(* A page has one query that matters, GET /job/:id (useJobDetail) or        *)
(* GET /jobs and GET /stats (useJobs, useStats); a job page asks for the    *)
(* result once it has seen the job completed.  TanStack Query is external:  *)
(* refetchInterval starts a request unless one is under way;                *)
(* invalidateQueries drops the one under way and starts another, if the      *)
(* query has data (Query.fetch), and else leaves it to the first request.    *)
(* The data of a page that is closed are forgotten after 5 minutes (gcTime). *)
(*                                                                         *)
(* A job's status only advances here; a worker that runs a job again after  *)
(* a failure is the business of JobProcessing, and the cache of StatsCache. *)
(***************************************************************************)
EXTENDS DashboardRooms, FiniteSets

VARIABLES
  status,   \* [Jobs -> "none" or the status in the jobs collection]
  calls,    \* the calls to SocketService that are due
  pushed,   \* the jobs whose job:completed was broadcast
  inbox,    \* the events under way to the tab
  queries,  \* [Pages -> the request of the page, its answer, whether the query
            \* has data, and what of them is shown]
  results,  \* the jobs whose result is shown
  told      \* history: the new jobs of the events that the overview has acted
            \* on since a request failed or its data were forgotten

vars == <<page, connected, outbox, rooms, dropped,
          status, calls, pushed, inbox, queries, results, told>>

None == "none"

(* Mutant: a job that is not in the collection is answered, too.            *)
AnswerUnchecked(q) == [j \in (IF q = Dashboard THEN Jobs ELSE {q}) |-> status[j]]

(* What GET answers on the page q: nothing (404) of a job that is not there. *)
Answer(q) ==
  [j \in {k \in Jobs : q \in {k, Dashboard} /\ status[k] # None} |-> status[j]]

Nothing == [j \in {} |-> None]

Unloaded == [pc |-> "idle", answer |-> Nothing, loaded |-> FALSE, shown |-> Nothing]

Init ==
  /\ RoomsInit
  /\ status = [j \in Jobs |-> None]
  /\ calls = {}
  /\ pushed = {}
  /\ inbox = {}
  /\ queries = [q \in Pages |-> Unloaded]
  /\ results = {}
  /\ told = {}

-----------------------------------------------------------------------------
(* The processes that write jobs.                                          *)

(* confirm creates the document and will emit stats:update.                *)
Create(j) ==
  /\ status[j] = None
  /\ status' = [status EXCEPT ![j] = "pending"]
  /\ calls' = calls \cup {[by |-> "api", about |-> "created", job |-> j]}
  /\ UNCHANGED <<roomVars, pushed, inbox, queries, results, told>>

(* The worker takes the job, and completes or fails it.                     *)
Start(j) ==
  /\ status[j] = "pending"
  /\ status' = [status EXCEPT ![j] = "processing"]
  /\ UNCHANGED <<roomVars, calls, pushed, inbox, queries, results, told>>

Finish(j) ==
  /\ status[j] = "processing"
  /\ \E s \in {"completed", "failed"} :
       /\ status' = [status EXCEPT ![j] = s]
       /\ calls' = calls \cup {[by |-> "worker", about |-> s, job |-> j]}
  /\ UNCHANGED <<roomVars, pushed, inbox, queries, results, told>>

(* The processes that call SocketService.initialize.                       *)
Initialized == {"api"}

(* emitStatsUpdate, emitJobCompleted, emitJobFailed: nothing without `io`,  *)
(* else an event to the job's room, if any, and stats:update to the overview. *)
Events(c) ==
  {[event |-> c.about, job |-> j] : j \in rooms \cap (IF c.about = "created" THEN {} ELSE {c.job})}
  \cup {[event |-> "stats:update", job |-> c.job] : r \in rooms \cap {Dashboard}}

Emit(c) ==
  /\ c \in calls
  /\ calls' = calls \ {c}
  /\ IF c.by \in Initialized
     THEN /\ inbox' = IF connected THEN inbox \cup Events(c) ELSE inbox
          /\ pushed' = pushed \cup (IF c.about = "completed" THEN {c.job} ELSE {})
     ELSE UNCHANGED <<inbox, pushed>>
  /\ UNCHANGED <<roomVars, status, queries, results, told>>

-----------------------------------------------------------------------------
(* The tab.                                                                *)

(* Only the open page has handlers for the events of its room.             *)
Listening(m) == page = IF m.event = "stats:update" THEN Dashboard ELSE m.job

(* The first request of a query is not dropped: an event joins it.         *)
Joins(query) == query.pc # "idle" /\ ~query.loaded

(* Mutant: a request under way is taken for the one that is due, always.    *)
OnEventJoining(m) ==
  /\ m \in inbox
  /\ inbox' = inbox \ {m}
  /\ IF Listening(m)
     THEN /\ queries' = IF queries[page].pc = "idle"
                        THEN [queries EXCEPT ![page].pc = "sent"] ELSE queries
          /\ told' = IF page = Dashboard /\ ~Joins(queries[page])
                     THEN told \cup {m.job} ELSE told
     ELSE UNCHANGED <<queries, told>>
  /\ UNCHANGED <<roomVars, status, calls, pushed, results>>

(* An event invalidates the query of the page.                             *)
OnEvent(m) ==
  /\ m \in inbox
  /\ inbox' = inbox \ {m}
  /\ IF Listening(m) /\ ~Joins(queries[page])
     THEN /\ queries' = [queries EXCEPT ![page].pc = "sent", ![page].answer = Nothing]
          /\ told' = IF page = Dashboard THEN told \cup {m.job} ELSE told
     ELSE UNCHANGED <<queries, told>>
  /\ UNCHANGED <<roomVars, status, calls, pushed, results>>

(* Mutant: no refetchInterval.                                             *)
FetchOnce(q) ==
  /\ page = q
  /\ queries[q].pc = "idle"
  /\ queries[q].shown = Nothing
  /\ queries' = [queries EXCEPT ![q].pc = "sent"]
  /\ UNCHANGED <<roomVars, status, calls, pushed, inbox, results, told>>

(* A request when the page is opened, and then every 10 s or 30 s.          *)
Fetch(q) ==
  /\ page = q
  /\ queries[q].pc = "idle"
  /\ queries' = [queries EXCEPT ![q].pc = "sent"]
  /\ UNCHANGED <<roomVars, status, calls, pushed, inbox, results, told>>

Serve(q) ==
  /\ queries[q].pc = "sent"
  /\ queries' = [queries EXCEPT ![q].pc = "served", ![q].answer = Answer(q)]
  /\ UNCHANGED <<roomVars, status, calls, pushed, inbox, results, told>>

(* A 404 brings no data, an empty list does.                               *)
Receive(q) ==
  /\ queries[q].pc = "served"
  /\ queries' = [queries EXCEPT ![q] =
                   [pc     |-> "idle", answer |-> Nothing,
                    loaded |-> q = Dashboard \/ queries[q].answer # Nothing,
                    shown  |-> queries[q].answer]]
  /\ UNCHANGED <<roomVars, status, calls, pushed, inbox, results, told>>

(* A request fails for good; what was shown stays.                          *)
FailFetch(q) ==
  /\ "http" \in Faults
  /\ queries[q].pc # "idle"
  /\ queries' = [queries EXCEPT ![q].pc = "idle", ![q].answer = Nothing]
  /\ told' = IF q = Dashboard THEN {} ELSE told
  /\ UNCHANGED <<roomVars, status, calls, pushed, inbox, results>>

(* gcTime of the query of a page that is closed.                            *)
Forget(q) ==
  /\ q # page
  /\ queries[q].pc = "idle"
  /\ queries[q].loaded
  /\ queries' = [queries EXCEPT ![q] = Unloaded]
  /\ told' = IF q = Dashboard THEN {} ELSE told
  /\ UNCHANGED <<roomVars, status, calls, pushed, inbox, results>>

(* The result query is enabled by what the page shows.                     *)
FetchResult(j) ==
  /\ page = j
  /\ queries[j].shown = [k \in {j} |-> "completed"]
  /\ results' = results \cup {j}
  /\ UNCHANGED <<roomVars, status, calls, pushed, inbox, queries, told>>

(* The steps of the socket; a lost connection loses the events under way.   *)
Socket ==
  /\ RoomsNext
  /\ inbox' = IF connected' THEN inbox ELSE {}
  /\ UNCHANGED <<status, calls, pushed, queries, results, told>>

-----------------------------------------------------------------------------
Next ==
  \/ \E j \in Jobs : Create(j) \/ Start(j) \/ Finish(j) \/ FetchResult(j)
  \/ \E c \in calls : Emit(c)
  \/ \E m \in inbox : OnEvent(m)
  \/ \E q \in Pages : Fetch(q) \/ Serve(q) \/ Receive(q) \/ FailFetch(q) \/ Forget(q)
  \/ Socket

Spec == Init /\ [][Next]_vars

(* The calls that are due are made, the worker works, and a page that stays *)
(* open keeps polling (refetchInterval); a request that is tried again and  *)
(* again gets an answer some time.  Nothing is assumed of the socket.       *)
FairSpec ==
  /\ Spec
  /\ \A j \in Jobs : WF_vars(Start(j) \/ Finish(j)) /\ WF_vars(FetchResult(j))
  /\ WF_vars(\E c \in calls : Emit(c))
  /\ \A q \in Pages : WF_vars(Fetch(q)) /\ SF_vars(Serve(q)) /\ SF_vars(Receive(q))

-----------------------------------------------------------------------------
(* Properties                                                              *)

Statuses == {"pending", "processing", "completed", "failed"}
Snapshots(q) ==
  UNION {[js -> Statuses] : js \in SUBSET (IF q = Dashboard THEN Jobs ELSE {q})}

(* Every variable keeps its type: a page shows jobs that exist.             *)
TypeOK ==
  /\ RoomsTypeOK
  /\ status \in [Jobs -> Statuses \cup {None}]
  /\ calls \subseteq [by : {"api", "worker"}, about : {"created", "completed", "failed"}, job : Jobs]
  /\ pushed \subseteq Jobs
  /\ inbox \subseteq [event : {"stats:update", "completed", "failed"}, job : Jobs]
  /\ \A q \in Pages : /\ queries[q].pc \in {"idle", "sent", "served"}
                      /\ queries[q].loaded \in BOOLEAN
                      /\ {queries[q].answer, queries[q].shown} \subseteq Snapshots(q)
  /\ results \subseteq Jobs /\ told \subseteq Jobs

(* A job that stats:update told the overview of is on it as soon as no      *)
(* request is under way and none has failed since: an answer that the server *)
(* computed before the job existed is never shown in the end, and the event *)
(* is not sent before the job can be read.  (Unless the event comes while    *)
(* the overview loads for the first time: it joins that request, whose       *)
(* answer may be older, and the job waits for the next poll.)               *)
ToldIsShown ==
  queries[Dashboard].pc = "idle" => told \subseteq DOMAIN queries[Dashboard].shown

(* A page that stays open ends up showing the jobs as they are, and the      *)
(* result of a completed one, whatever emits, events and requests are lost.  *)
PageConverges ==
  \A q \in Pages :
    <>[](page = q) =>
      <>[](/\ queries[q].shown = Answer(q)
           /\ q \in Jobs /\ Answer(q) = [k \in {q} |-> "completed"] => q \in results)

(* src/README.md:121: "The API server broadcasts job progress and completion *)
(* events via Socket.IO.  The worker uses `@socket.io/redis-emitter` to emit *)
(* events through Redis pub/sub": the completion of a job is broadcast.     *)
CompletionIsPushed == \A j \in Jobs : status[j] = "completed" ~> j \in pushed
=============================================================================
