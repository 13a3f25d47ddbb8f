---------------------------- MODULE JobListProofs ----------------------------
(* Proofs about JobList, for any jobs, page size and faults.                *)
EXTENDS JobList, FiniteSetTheorems, TLAPS

LEMMA MaxOfTwo ==
  ASSUME NEW a \in Int, NEW b \in Int
  PROVE  Max({a, b}) = IF a >= b THEN a ELSE b
<1>1. CASE a >= b
  <2>1. \A x \in {a, b} : (\A y \in {a, b} : x >= y) <=> x = a
    BY <1>1
  <2>. QED  BY <1>1, <2>1 DEF Max
<1>2. CASE ~(a >= b)
  <2>1. \A x \in {a, b} : (\A y \in {a, b} : x >= y) <=> x = b
    BY <1>2
  <2>. QED  BY <1>2, <2>1 DEF Max
<1>. QED  BY <1>1, <1>2

(* More jobs never make fewer pages, and each page has one at least.        *)
LEMMA PagesGrow ==
  ASSUME JobListAssumption, NEW a \in Int, NEW b \in Int, a <= b
  PROVE  TotalPages(a) \in Int /\ TotalPages(a) <= TotalPages(b)
<1>. DEFINE p == (a + Limit - 1) \div Limit
            q == (b + Limit - 1) \div Limit
<1>1. Limit \in Int /\ Limit > 0
  BY DEF JobListAssumption
<1>2. p \in Int /\ Limit * p <= a + Limit - 1 /\ q \in Int /\ b + Limit - 1 < Limit * (q + 1)
  BY <1>1
<1>. HIDE DEF p, q
<1>3. p < q + 1
  <2>. SUFFICES ASSUME q + 1 <= p PROVE FALSE
    BY <1>2
  <2>1. Limit * (q + 1) <= Limit * p
    BY <1>1, <1>2
  <2>. QED  BY <1>1, <1>2, <2>1
<1>. QED  BY <1>2, <1>3 DEF TotalPages, p, q

LEMMA PagesHaveJobs ==
  ASSUME JobListAssumption, NEW a \in Nat
  PROVE  TotalPages(a) <= a
<1>. DEFINE p == (a + Limit - 1) \div Limit
<1>1. Limit \in Int /\ Limit > 0
  BY DEF JobListAssumption
<1>2. p \in Int /\ Limit * p <= a + Limit - 1
  BY <1>1
<1>. HIDE DEF p
<1>3. p <= a
  <2>. SUFFICES ASSUME a + 1 <= p PROVE FALSE
    BY <1>2
  <2>1. Limit * (a + 1) <= Limit * p
    BY <1>1, <1>2
  <2>2. Limit * (a + 1) = Limit * a + Limit
    BY <1>1
  <2>3. Limit * a >= a
    BY <1>1
  <2>. QED  BY <1>1, <1>2, <2>1, <2>2, <2>3
<1>. QED  BY <1>3 DEF TotalPages, p

-----------------------------------------------------------------------------
(* No query counts more jobs than have matched its filter at one time, and   *)
(* these are no more than there are.                                       *)
IsAnswer(answer, most) ==
  /\ answer = [rows |-> answer.rows, total |-> answer.total]
  /\ answer.total \in Int /\ answer.total <= most

IsQuery(query, most) ==
  /\ query = [fetching |-> query.fetching, found |-> query.found,
              answer |-> query.answer, data |-> query.data]
  /\ IsAnswer(query.answer, most) /\ IsAnswer(query.data, most)

CountsInv ==
  /\ status \in [Jobs -> Nat]
  /\ longest \in [Filters -> 0 .. Cardinality(Jobs)]
  /\ \A f \in Filters : Cardinality(Matching(f, status)) <= longest[f]

QueriesInv ==
  /\ DOMAIN queries = Keys
  /\ \A k \in Keys : IsQuery(queries[k], longest[k.status])

LInv ==
  /\ CountsInv
  /\ QueriesInv
  /\ filters \in Keys
  /\ PageExisted

LEMMA JobsFinite ==
  ASSUME JobListAssumption
  PROVE  Cardinality(Jobs) \in Nat /\ Cardinality(Jobs) >= 1
<1>1. Cardinality(Jobs) \in Nat
  BY FS_CardinalityType DEF JobListAssumption
<1>2. Cardinality(Jobs) # 0
  BY FS_EmptySet DEF JobListAssumption
<1>. QED  BY <1>1, <1>2

LEMMA MatchingBounded ==
  ASSUME JobListAssumption, NEW f, NEW st
  PROVE  Cardinality(Matching(f, st)) \in 0 .. Cardinality(Jobs)
<1>1. Matching(f, st) \in SUBSET Jobs
  BY DEF Matching
<1>2. /\ IsFiniteSet(Matching(f, st))
      /\ Cardinality(Matching(f, st)) <= Cardinality(Jobs)
  BY <1>1, FS_Subset DEF JobListAssumption
<1>3. Cardinality(Matching(f, st)) \in Nat
  BY <1>2, FS_CardinalityType
<1>. QED  BY <1>2, <1>3, JobsFinite

(* What PageExisted says when the jobs that matched grow in number.         *)
LEMMA Existed ==
  ASSUME JobListAssumption, NEW m \in Nat
  PROVE  /\ Max({1, TotalPages(m)}) \in Int
         /\ Max({1, TotalPages(m)}) >= 1
         /\ Max({1, TotalPages(m)}) >= TotalPages(m)
         /\ \A n \in Nat : m <= n => Max({1, TotalPages(m)}) <= Max({1, TotalPages(n)})
<1>1. TotalPages(m) \in Int
  BY PagesGrow
<1>2. ASSUME NEW n \in Nat, m <= n
      PROVE  Max({1, TotalPages(m)}) <= Max({1, TotalPages(n)})
  <2>1. TotalPages(m) <= TotalPages(n) /\ TotalPages(n) \in Int
    BY <1>2, PagesGrow
  <2>. QED  BY <1>1, <2>1, MaxOfTwo
<1>. QED  BY <1>1, <1>2, MaxOfTwo

(* A write to the collection.                                              *)
LEMMA WriteStep ==
  ASSUME JobListAssumption, LInv, status' \in [Jobs -> Nat], Written
  PROVE  LInv'
<1>1. /\ UNCHANGED <<filters, queries>>
      /\ longest' = [f \in Filters |-> Max({longest[f], Cardinality(Matching(f, status'))})]
  BY DEF Written
<1>2. ASSUME NEW f \in Filters
      PROVE  /\ longest[f] \in 0 .. Cardinality(Jobs)
             /\ longest'[f] \in 0 .. Cardinality(Jobs)
             /\ longest[f] <= longest'[f]
             /\ Cardinality(Matching(f, status')) <= longest'[f]
  <2>1. longest[f] \in 0 .. Cardinality(Jobs)
    BY DEF LInv, CountsInv
  <2>2. Cardinality(Matching(f, status')) \in 0 .. Cardinality(Jobs)
    BY MatchingBounded
  <2>3. longest'[f] = Max({longest[f], Cardinality(Matching(f, status'))})
    BY <1>1
  <2>. DEFINE a == longest[f]
              b == Cardinality(Matching(f, status'))
  <2>4. a \in Int /\ b \in Int
    BY <2>1, <2>2, JobsFinite
  <2>. HIDE DEF a, b
  <2>5. Max({a, b}) = IF a >= b THEN a ELSE b
    BY <2>4, MaxOfTwo
  <2>6. /\ Max({a, b}) \in {a, b}
        /\ a <= Max({a, b}) /\ b <= Max({a, b})
    BY <2>4, <2>5
  <2>. QED  BY <2>1, <2>2, <2>3, <2>6 DEF a, b
<1>3. CountsInv'
  <2>1. longest' \in [Filters -> 0 .. Cardinality(Jobs)]
    BY <1>1, <1>2
  <2>. QED  BY <1>2, <2>1 DEF CountsInv, Matching, Matches
<1>4. QueriesInv'
  <2>. SUFFICES ASSUME NEW k \in Keys PROVE IsQuery(queries[k], longest'[k.status])
    BY <1>1 DEF LInv, QueriesInv
  <2>1. k.status \in Filters
    BY DEF Keys
  <2>2. IsQuery(queries[k], longest[k.status])
    BY DEF LInv, QueriesInv
  <2>. QED  BY <1>2, <2>1, <2>2, JobsFinite DEF IsQuery, IsAnswer
<1>5. PageExisted'
  <2>1. filters.status \in Filters /\ filters.page \in Int
    BY DEF LInv, Keys
  <2>. DEFINE m == longest[filters.status]
              n == longest'[filters.status]
  <2>2. m \in Nat /\ n \in Nat /\ m <= n
    BY <1>2, <2>1, JobsFinite
  <2>. HIDE DEF m, n
  <2>3. Max({1, TotalPages(m)}) <= Max({1, TotalPages(n)})
    BY <2>2, Existed
  <2>4. Max({1, TotalPages(m)}) \in Int /\ Max({1, TotalPages(n)}) \in Int
    BY <2>2, Existed
  <2>5. filters.page <= Max({1, TotalPages(m)})
    BY DEF LInv, PageExisted, m
  <2>6. filters.page <= Max({1, TotalPages(n)})
    BY <2>1, <2>3, <2>4, <2>5
  <2>. QED  BY <1>1, <2>6 DEF PageExisted, n
<1>. QED  BY <1>1, <1>3, <1>4, <1>5 DEF LInv, Keys

(* The steps of one query leave the rest alone.                            *)
LEMMA QueryStep ==
  ASSUME LInv, NEW k \in Keys, DOMAIN queries' = Keys,
         IsQuery(queries'[k], longest[k.status]),
         \A l \in Keys \ {k} : queries'[l] = queries[l],
         UNCHANGED <<created, status, longest>>
  PROVE  CountsInv' /\ QueriesInv'
<1>1. CountsInv'
  BY DEF LInv, CountsInv, Matching, Matches
<1>2. ASSUME NEW l \in Keys PROVE IsQuery(queries'[l], longest'[l.status])
  <2>1. CASE l = k
    BY <2>1
  <2>2. CASE l # k
    BY <2>2 DEF LInv, QueriesInv
  <2>. QED  BY <2>1, <2>2
<1>. QED  BY <1>1, <1>2 DEF QueriesInv

LEMMA SameKey ==
  ASSUME LInv, CountsInv', QueriesInv', UNCHANGED <<filters, longest>>
  PROVE  LInv'
BY DEF LInv, PageExisted, Keys

LEMMA NewQueries ==
  ASSUME NEW m \in Nat
  PROVE  /\ IsAnswer(NoAnswer, m)
         /\ \A query : IsQuery(query, m) => IsQuery(Fetching(query), m)
         /\ \A data : IsAnswer(data, m) => IsQuery(Idle(data), m)
<1>1. IsAnswer(NoAnswer, m)
  BY DEF IsAnswer, NoAnswer, Unread
<1>. QED  BY <1>1 DEF IsQuery, Fetching, Idle

LEMMA RequestStep ==
  ASSUME JobListAssumption, LInv, NEW k \in Keys, Find(k) \/ Count(k) \/ Receive(k) \/ Fail(k) \/ Forget(k)
  PROVE  LInv'
<1>. DEFINE m == longest[k.status]
            query == queries[k]
<1>1. /\ k.status \in Filters /\ m \in Nat
      /\ Cardinality(Matching(k.status, status)) \in 0 .. m
  <2>1. k.status \in Filters
    BY DEF Keys
  <2>2. m \in Nat /\ Cardinality(Matching(k.status, status)) <= m
    BY <2>1, JobsFinite DEF LInv, CountsInv
  <2>3. Cardinality(Matching(k.status, status)) \in Nat
    BY MatchingBounded, JobsFinite
  <2>. HIDE DEF m
  <2>. QED  BY <2>1, <2>2, <2>3
<1>2. IsQuery(query, m) /\ DOMAIN queries = Keys
  BY DEF LInv, QueriesInv
<1>3. UNCHANGED <<created, status, filters, longest>>
  BY DEF Find, Count, Receive, Fail, Forget
<1>4. DOMAIN queries' = Keys /\ \A l \in Keys \ {k} : queries'[l] = queries[l]
  BY <1>2 DEF Find, Count, Receive, Fail, Forget
<1>5. IsQuery(queries'[k], m)
  <2>1. CASE Find(k)
    <3>1. PICK rows : queries'[k] =
            [fetching |-> TRUE, found |-> TRUE,
             answer |-> [rows |-> rows, total |-> query.answer.total], data |-> query.data]
      BY <1>2, <2>1 DEF Find
    <3>. QED  BY <1>2, <3>1 DEF IsQuery, IsAnswer
  <2>2. CASE Count(k)
    <3>. DEFINE total == Cardinality(Matching(k.status, status))
    <3>1. queries' = [queries EXCEPT ![k].answer.total = total]
      BY <2>2 DEF Count
    <3>2. total \in Int /\ total <= m
      BY <1>1
    <3>. HIDE DEF total
    <3>3. queries'[k] =
            [fetching |-> query.fetching, found |-> query.found,
             answer |-> [rows |-> query.answer.rows, total |-> total], data |-> query.data]
      BY <1>2, <3>1 DEF IsQuery, IsAnswer
    <3>. QED  BY <1>2, <3>2, <3>3 DEF IsQuery, IsAnswer
  <2>3. CASE Receive(k)
    <3>1. queries'[k] = Idle(query.answer)
      BY <1>2, <2>3 DEF Receive
    <3>. QED  BY <1>1, <1>2, <3>1, NewQueries DEF IsQuery
  <2>4. CASE Fail(k)
    <3>1. queries'[k] = Idle(query.data)
      BY <1>2, <2>4 DEF Fail
    <3>. QED  BY <1>1, <1>2, <3>1, NewQueries DEF IsQuery
  <2>5. CASE Forget(k)
    <3>1. queries'[k] = NoQuery
      BY <1>2, <2>5 DEF Forget
    <3>. QED  BY <1>1, <3>1, NewQueries DEF NoQuery
  <2>. QED  BY <2>1, <2>2, <2>3, <2>4, <2>5
<1>. QED  BY <1>3, <1>4, <1>5, QueryStep, SameKey

LEMMA FetchStep ==
  ASSUME JobListAssumption, LInv, Poll \/ Invalidate
  PROVE  LInv'
<1>1. filters \in Keys /\ IsQuery(queries[filters], longest[filters.status]) /\ DOMAIN queries = Keys
  BY DEF LInv, QueriesInv
<1>2. longest[filters.status] \in Nat
  BY <1>1, JobsFinite DEF LInv, CountsInv, Keys
<1>3. IsQuery(Fetching(queries[filters]), longest[filters.status])
  BY <1>1, <1>2, NewQueries
<1>4. /\ queries' = [queries EXCEPT ![filters] = Fetching(queries[filters])]
      /\ UNCHANGED <<created, status, filters, longest>>
  BY DEF Poll, Invalidate
<1>. QED  BY <1>1, <1>3, <1>4, QueryStep, SameKey

LEMMA TurnStep ==
  ASSUME JobListAssumption, LInv, NEW key \in Keys, TurnTo(key),
         key.page <= Max({1, TotalPages(longest[key.status])})
  PROVE  LInv'
<1>1. filters' = key /\ UNCHANGED <<created, status, longest>>
  BY DEF TurnTo
<1>2. CountsInv' /\ QueriesInv'
  <2>1. CASE queries' = [queries EXCEPT ![key] = Fetching(queries[key])]
    <3>1. IsQuery(queries[key], longest[key.status]) /\ DOMAIN queries = Keys
      BY DEF LInv, QueriesInv
    <3>2. longest[key.status] \in Nat
      BY JobsFinite DEF LInv, CountsInv, Keys
    <3>3. IsQuery(Fetching(queries[key]), longest[key.status])
      BY <3>1, <3>2, NewQueries
    <3>. QED  BY <1>1, <2>1, <3>1, <3>3, QueryStep
  <2>2. CASE UNCHANGED queries
    BY <1>1, <2>2 DEF LInv, CountsInv, QueriesInv, Matching, Matches
  <2>. QED  BY <2>1, <2>2 DEF TurnTo
<1>. QED  BY <1>1, <1>2 DEF LInv, PageExisted, Keys

(* The select and the buttons of Pagination.                               *)
LEMMA ButtonStep ==
  ASSUME JobListAssumption, LInv,
         (\E s \in Filters : SelectStatus(s)) \/ Previous \/ NextPage
  PROVE  LInv'
<1>1. /\ filters \in Keys /\ filters.page \in Nat /\ filters.status \in Filters
      /\ filters.page <= Max({1, TotalPages(longest[filters.status])})
  BY JobsFinite DEF LInv, PageExisted, Keys
<1>2. \A f \in Filters : longest[f] \in Nat /\ longest[f] <= Cardinality(Jobs)
  BY JobsFinite DEF LInv, CountsInv
<1>3. ASSUME NEW s \in Filters, SelectStatus(s) PROVE LInv'
  <2>. DEFINE key == [page |-> 1, status |-> s]
  <2>1. key \in Keys /\ key.page = 1 /\ key.status = s
    BY JobsFinite DEF Keys
  <2>2. 1 <= Max({1, TotalPages(longest[s])})
    BY <1>2, Existed
  <2>. QED  BY <1>3, <2>1, <2>2, TurnStep DEF SelectStatus
<1>4. CASE Previous
  <2>. DEFINE key == [page |-> filters.page - 1, status |-> filters.status]
  <2>1. filters = [page |-> filters.page, status |-> filters.status]
    BY <1>1 DEF Keys
  <2>2. [filters EXCEPT !.page = filters.page - 1] = key
    BY <2>1
  <2>3. key \in Keys /\ key.page = filters.page - 1 /\ key.status = filters.status
    BY <1>1, <1>4, JobsFinite DEF Keys, Previous
  <2>4. filters.page - 1 <= Max({1, TotalPages(longest[filters.status])})
    <3>. DEFINE most == Max({1, TotalPages(longest[filters.status])})
    <3>1. most \in Int /\ filters.page <= most
      BY <1>1, <1>2, Existed
    <3>. HIDE DEF most
    <3>2. filters.page - 1 <= most
      BY <1>1, <3>1
    <3>. QED  BY <3>2 DEF most
  <2>5. TurnTo(key)
    BY <1>4, <2>2 DEF Previous
  <2>. HIDE DEF key
  <2>. QED  BY <2>3, <2>4, <2>5, TurnStep
<1>5. CASE NextPage
  <2>. DEFINE key == [page |-> filters.page + 1, status |-> filters.status]
              total == Observed.data.total
              m == longest[filters.status]
  <2>1. filters = [page |-> filters.page, status |-> filters.status]
    BY <1>1 DEF Keys
  <2>2. [filters EXCEPT !.page = filters.page + 1] = key
    BY <2>1
  <2>3. total \in Int /\ total <= m
    BY <1>1 DEF LInv, QueriesInv, IsQuery, IsAnswer, Observed
  <2>4. m \in Nat /\ m <= Cardinality(Jobs)
    BY <1>1, <1>2
  <2>5. filters.page < TotalPages(total) /\ TurnTo(key)
    BY <1>5, <2>2 DEF NextPage
  <2>. HIDE DEF total, m
  <2>6. TotalPages(total) \in Int /\ TotalPages(m) \in Int /\ TotalPages(total) <= TotalPages(m)
        /\ TotalPages(m) <= m
    BY <2>3, <2>4, PagesGrow, PagesHaveJobs
  <2>7. filters.page + 1 <= TotalPages(m) /\ filters.page + 1 \in 1 .. Cardinality(Jobs)
    BY <1>1, <2>4, <2>5, <2>6, JobsFinite
  <2>8. key \in Keys /\ key.page = filters.page + 1 /\ key.status = filters.status
    BY <1>1, <2>7 DEF Keys
  <2>9. filters.page + 1 <= Max({1, TotalPages(m)})
    <3>. DEFINE most == Max({1, TotalPages(m)})
    <3>1. most \in Int /\ most >= TotalPages(m)
      BY <2>4, Existed
    <3>. HIDE DEF most
    <3>2. filters.page + 1 <= most
      BY <1>1, <2>6, <2>7, <3>1
    <3>. QED  BY <3>2 DEF most
  <2>. HIDE DEF key
  <2>. QED  BY <2>5, <2>8, <2>9, TurnStep DEF m
<1>. QED  BY <1>3, <1>4, <1>5

-----------------------------------------------------------------------------
(* The invariant holds in every state.                                     *)
THEOREM Invariance == Spec => []LInv
<1>1. Init => LInv
  <2>. SUFFICES ASSUME Init PROVE LInv
    OBVIOUS
  <2>1. CountsInv
    <3>1. \A f : Matching(f, status) = {}
      BY DEF Init, Matching, Matches
    <3>2. \A f : Cardinality(Matching(f, status)) = 0
      BY <3>1, FS_EmptySet
    <3>3. longest \in [Filters -> 0 .. Cardinality(Jobs)]
      BY JobListAssumption, JobsFinite DEF Init
    <3>. QED  BY <3>2, <3>3 DEF Init, CountsInv
  <2>2. filters \in Keys
    BY JobListAssumption, JobsFinite DEF Init, Keys, JobListAssumption
  <2>3. QueriesInv
    <3>1. \A k \in Keys : longest[k.status] = 0
      BY DEF Init, Keys
    <3>2. IsQuery(NoQuery, 0) /\ IsQuery(Fetching(NoQuery), 0)
      BY NewQueries DEF NoQuery
    <3>. QED  BY <3>1, <3>2 DEF Init, QueriesInv
  <2>4. PageExisted
    <3>1. filters.page = 1 /\ longest[filters.status] = 0
      BY <2>2 DEF Init, Keys
    <3>2. 1 <= Max({1, TotalPages(0)})
      <4>. DEFINE most == Max({1, TotalPages(0)})
      <4>1. most \in Int /\ most >= 1
        BY JobListAssumption, Existed
      <4>. HIDE DEF most
      <4>2. 1 <= most
        BY <4>1
      <4>. QED  BY <4>2 DEF most
    <3>. QED  BY <3>1, <3>2 DEF PageExisted
  <2>. QED  BY <2>1, <2>2, <2>3, <2>4 DEF LInv
<1>2. LInv /\ [Next]_vars => LInv'
  <2>. SUFFICES ASSUME LInv, [Next]_vars PROVE LInv'
    OBVIOUS
  <2>1. ASSUME NEW j \in Jobs, Create(j) \/ Advance(j) PROVE LInv'
    <3>1. status \in [Jobs -> Nat]
      BY DEF LInv, CountsInv
    <3>2. status' \in [Jobs -> Nat] /\ Written
      BY <2>1, <3>1 DEF Create, Advance
    <3>. QED  BY <3>2, JobListAssumption, WriteStep
  <2>2. CASE UNCHANGED vars
    BY <2>2 DEF vars, LInv, CountsInv, QueriesInv, PageExisted, Matching, Matches
  <2>. QED  BY <2>1, <2>2, JobListAssumption, RequestStep, FetchStep, ButtonStep DEF Next
<1>. QED  BY <1>1, <1>2, PTL DEF Spec

(* JobList: the page number never runs past the jobs there have been.       *)
THEOREM PageNumberExisted == Spec => []PageExisted
<1>1. LInv => PageExisted
  BY DEF LInv
<1>. QED  BY <1>1, Invariance, PTL
=============================================================================
