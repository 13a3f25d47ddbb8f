------------------------------- MODULE JobList -------------------------------
(***************************************************************************)
(* The list of jobs on the overview page: its status filter and its         *)
(* Pagination (DashboardPage.tsx), one query of TanStack Query for each      *)
(* combination of the two (useJobs), and GET /jobs behind them, which reads  *)
(* the jobs of the page and their number one beside the other.              *)
(*                                                                         *)
(* TanStack Query is external.  The query that the page observes is fetched *)
(* when it has no data, when its data are old or invalidated as the page     *)
(* turns to it, and every 30 s.  invalidateQueries drops its request, if one *)
(* is under way and it has data, and starts another; the first request of a *)
(* query is joined (Query.fetch).  The request of a query that is no        *)
(* longer observed runs on, and its data are kept for 5 minutes.            *)
(***************************************************************************)
EXTENDS Integers, FiniteSets, SequencesExt

CONSTANTS
  Jobs,
  Statuses,  \* the statuses told apart, in the order a job takes them
  Filters,   \* the options of the status select: All, and statuses
  All,       \* "All Statuses"
  Limit,     \* jobs on a page
  MaxQueries, \* bound: the queries in use at the same time
  Faults     \* subset of {"http"}

ASSUME JobListAssumption ==
  /\ IsFiniteSet(Jobs) /\ Jobs # {}
  /\ Statuses # <<>>
  /\ All \in Filters /\ Filters \subseteq {All} \cup ToSet(Statuses)
  /\ Limit \in Nat \ {0} /\ MaxQueries \in Nat
  /\ Faults \subseteq {"http"}

VARIABLES
  created,  \* the jobs by createdAt: the sets of jobs of one millisecond
  status,   \* [Jobs -> the index of its status, 0 before it is created]
  filters,  \* the state of DashboardPage: page and status
  queries,  \* [Keys -> the request under way and the data of each query]
  longest   \* history: [Filters -> the most jobs that matched at one time]

vars == <<created, status, filters, queries, longest>>

Keys == [page : 1 .. Cardinality(Jobs), status : Filters]

Unread == -1
NoAnswer == [rows |-> <<>>, total |-> Unread]
Idle(data) == [fetching |-> FALSE, found |-> FALSE, answer |-> NoAnswer, data |-> data]
NoQuery == Idle(NoAnswer)

Observed == queries[filters]
Loaded(query) == query.data # NoAnswer

Fetching(query) == [fetching |-> TRUE, found |-> FALSE, answer |-> NoAnswer, data |-> query.data]

Init ==
  /\ created = <<>>
  /\ status = [j \in Jobs |-> 0]
  /\ filters = [page |-> 1, status |-> All]
  /\ queries = [k \in Keys |-> IF k = filters THEN Fetching(NoQuery) ELSE NoQuery]
  /\ longest = [f \in Filters |-> 0]

-----------------------------------------------------------------------------
(* The jobs collection                                                     *)

Matches(j, filter, st) == st[j] > 0 /\ filter \in {All, Statuses[st[j]]}
Matching(filter, st) == {j \in Jobs : Matches(j, filter, st)}

Written ==
  /\ longest' = [f \in Filters |->
                   Max({longest[f], Cardinality(Matching(f, status'))})]
  /\ UNCHANGED <<filters, queries>>

Create(j) ==
  /\ status[j] = 0
  /\ status' = [status EXCEPT ![j] = 1]
  /\ \/ created' = Append(created, {j})
     \/ created # <<>> /\ created' = [created EXCEPT ![Len(created)] = @ \cup {j}]
  /\ Written

Advance(j) ==
  /\ status[j] \in 1 .. Len(Statuses) - 1
  /\ status' = [status EXCEPT ![j] = @ + 1]
  /\ UNCHANGED created
  /\ Written

(* sort({ createdAt: -1 }): of jobs of one millisecond, any comes first.    *)
Sorted ==
  {FlattenSeq(Reverse(orders)) : orders \in
     {o \in [DOMAIN created -> UNION {SetToSeqs(created[i]) : i \in DOMAIN created}] :
        \A i \in DOMAIN created : o[i] \in SetToSeqs(created[i])}}

Page(jobs, page) ==
  SubSeq(jobs, (page - 1) * Limit + 1, Min({page * Limit, Len(jobs)}))

(* The answers that find may give for the key.                              *)
Found(key) ==
  {Page(SelectSeq(jobs, LAMBDA j : Matches(j, key.status, status)), key.page) : jobs \in Sorted}

(* The two queries of JobRepository.list, side by side.                     *)
Find(k) ==
  /\ queries[k].fetching /\ ~queries[k].found
  /\ \E rows \in Found(k) :
       queries' = [queries EXCEPT ![k] =
         [fetching |-> TRUE, found |-> TRUE,
          answer |-> [rows |-> rows, total |-> @.answer.total], data |-> @.data]]
  /\ UNCHANGED <<created, status, filters, longest>>

Count(k) ==
  /\ queries[k].fetching /\ queries[k].answer.total = Unread
  /\ queries' = [queries EXCEPT ![k].answer.total = Cardinality(Matching(k.status, status))]
  /\ UNCHANGED <<created, status, filters, longest>>

TotalPages(total) == (total + Limit - 1) \div Limit

-----------------------------------------------------------------------------
(* The tab                                                                 *)

Receive(k) ==
  /\ queries[k].fetching /\ queries[k].found /\ queries[k].answer.total # Unread
  /\ queries' = [queries EXCEPT ![k] = Idle(queries[k].answer)]
  /\ UNCHANGED <<created, status, filters, longest>>

(* A request fails for good, as one over jobReadRateLimiter's limit does;   *)
(* the data stay.                                                          *)
Fail(k) ==
  /\ "http" \in Faults
  /\ queries[k].fetching
  /\ queries' = [queries EXCEPT ![k] = Idle(queries[k].data)]
  /\ UNCHANGED <<created, status, filters, longest>>

(* Mutant: no refetchInterval.                                             *)
PollUntilLoaded ==
  /\ ~Observed.fetching
  /\ ~Loaded(Observed)
  /\ queries' = [queries EXCEPT ![filters] = Fetching(@)]
  /\ UNCHANGED <<created, status, filters, longest>>

(* The refetchInterval of the query that is observed.                      *)
Poll ==
  /\ ~Observed.fetching
  /\ queries' = [queries EXCEPT ![filters] = Fetching(@)]
  /\ UNCHANGED <<created, status, filters, longest>>

(* stats:update, or an upload of this tab that is done, while a request is   *)
(* under way; without one, it is a Poll.                                    *)
Invalidate ==
  /\ Observed.fetching
  /\ Loaded(Observed)
  /\ queries' = [queries EXCEPT ![filters] = Fetching(@)]
  /\ UNCHANGED <<created, status, filters, longest>>

(* gcTime of a query that is not observed.                                 *)
Forget(k) ==
  /\ k # filters
  /\ ~queries[k].fetching
  /\ queries' = [queries EXCEPT ![k] = NoQuery]
  /\ UNCHANGED <<created, status, filters, longest>>

(* The page turns to another key; whether data are old is left open.        *)
TurnTo(key) ==
  /\ key # filters
  /\ Cardinality({k \in Keys : queries[k] # NoQuery} \cup {key}) <= MaxQueries
  /\ filters' = key
  /\ \/ ~queries[key].fetching /\ queries' = [queries EXCEPT ![key] = Fetching(@)]
     \/ (queries[key].fetching \/ Loaded(queries[key])) /\ UNCHANGED queries
  /\ UNCHANGED <<created, status, longest>>

(* JobFilters: another status, from its first page.                        *)
SelectStatus(s) == s # filters.status /\ TurnTo([page |-> 1, status |-> s])

(* Pagination is there if the page has jobs.                               *)
Paginated == Loaded(Observed) /\ Observed.data.rows # <<>>

Previous ==
  /\ Paginated
  /\ filters.page > 1
  /\ TurnTo([filters EXCEPT !.page = @ - 1])

(* Mutant: the button is not disabled on the last page.                    *)
NextPageAlways ==
  /\ Paginated
  /\ filters.page < Cardinality(Jobs)
  /\ TurnTo([filters EXCEPT !.page = @ + 1])

NextPage ==
  /\ Paginated
  /\ filters.page < TotalPages(Observed.data.total)
  /\ TurnTo([filters EXCEPT !.page = @ + 1])

-----------------------------------------------------------------------------
Next ==
  \/ \E j \in Jobs : Create(j) \/ Advance(j)
  \/ \E k \in Keys : Find(k) \/ Count(k) \/ Receive(k) \/ Fail(k) \/ Forget(k)
  \/ \E s \in Filters : SelectStatus(s)
  \/ Previous
  \/ NextPage
  \/ Poll
  \/ Invalidate

Spec == Init /\ [][Next]_vars

(* The page polls, and a request is answered if it does not fail.           *)
FairSpec ==
  /\ Spec
  /\ WF_vars(Poll)
  /\ \A k \in Keys : WF_vars(Find(k)) /\ WF_vars(Count(k)) /\ WF_vars(Receive(k))

-----------------------------------------------------------------------------
(* Properties                                                              *)

(* The page number never runs past the jobs that matched at some time, for  *)
(* all that the rows and the number of pages come from different moments.    *)
PageExisted ==
  filters.page <= Max({1, TotalPages(longest[filters.status])})

(* A step that only a failure explains.  (An answer that is equal to the     *)
(* data leaves what a failure would leave; such a step is no failure.)       *)
Failing == \E k \in Keys : Fail(k) /\ ~Receive(k)

Resting == UNCHANGED <<created, status, filters>> /\ ~Invalidate /\ ~Failing

(* Once the jobs rest, the user rests and requests no longer fail, the list  *)
(* ends up as it is in the collection, and stays so while the page goes on   *)
(* polling: whatever failed before, and whatever page was answered from     *)
(* before the last change.                                                 *)
ListConverges ==
  <>[][Resting]_vars =>
    <>[](/\ Observed.data.rows \in Found(filters)
         /\ Observed.data.total = Cardinality(Matching(filters.status, status)))
=============================================================================
