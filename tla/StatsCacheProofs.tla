--------------------------- MODULE StatsCacheProofs ---------------------------
(* Proofs about StatsCache, for every value of its constants.              *)
EXTENDS StatsCache, FiniteSetTheorems, TLAPS

Answered == {j \in Jobs : confirms[j] = "answered"}

(* A job of which a confirm was answered has its document; while nothing    *)
(* was crossed, neither the cache nor a fill under way is older than the    *)
(* last answer.                                                            *)
SInv ==
  /\ TypeOK
  /\ \A j \in Jobs : confirms[j] # "none" => jobs[j].status \in JobStatus
  /\ \A r \in Readers : readers[r].pc = "set" => readers[r].counts \in Counts
  /\ ~crossed =>
       /\ cache # NoStats => Total(cache) >= Cardinality(Answered)
       /\ \A r \in Readers :
            readers[r].pc = "set" => Total(readers[r].counts) >= Cardinality(Answered)

LEMMA JobsOfStatus ==
  ASSUME StatsAssumption, NEW S, S \subseteq Jobs
  PROVE  IsFiniteSet(S) /\ Cardinality(S) \in 0 .. Cardinality(Jobs)
<1>1. IsFiniteSet(Jobs)
  BY DEF StatsAssumption
<1>2. IsFiniteSet(S) /\ Cardinality(S) <= Cardinality(Jobs)
  BY <1>1, FS_Subset
<1>. QED  BY <1>1, <1>2, FS_CardinalityType

(* The counts of the collection cover every job that has a status.          *)
LEMMA CountsCover ==
  ASSUME StatsAssumption, TypeOK, NEW S, S \subseteq Jobs,
         \A j \in S : jobs[j].status \in JobStatus
  PROVE  /\ CountByStatus(jobs) \in Counts
         /\ Total(CountByStatus(jobs)) >= Cardinality(S)
<1>. DEFINE Of(s) == {j \in Jobs : jobs[j].status = s}
<1>1. DOMAIN jobs = Jobs
  BY DEF TypeOK
<1>2. CountByStatus(jobs) = [s \in JobStatus |-> Cardinality(Of(s))]
  BY <1>1 DEF CountByStatus
<1>3. \A s : IsFiniteSet(Of(s)) /\ Cardinality(Of(s)) \in 0 .. Cardinality(Jobs)
  BY JobsOfStatus
<1>4. CountByStatus(jobs) \in Counts
  BY <1>2, <1>3 DEF Counts
<1>. DEFINE P == Of("pending")  R == Of("processing")  C == Of("completed")  F == Of("failed")
<1>5. Total(CountByStatus(jobs)) = Cardinality(P) + Cardinality(R) + Cardinality(C) + Cardinality(F)
  BY <1>2 DEF Total, JobStatus
<1>6. /\ IsFiniteSet(P) /\ IsFiniteSet(R) /\ IsFiniteSet(C) /\ IsFiniteSet(F)
      /\ Cardinality(P) \in Nat /\ Cardinality(R) \in Nat
      /\ Cardinality(C) \in Nat /\ Cardinality(F) \in Nat
  BY <1>3, FS_CardinalityType
<1>7. S \subseteq (P \cup R) \cup (C \cup F)
  BY DEF JobStatus
<1>. HIDE DEF P, R, C, F
<1>8. /\ IsFiniteSet(P \cup R)
      /\ Cardinality(P \cup R) <= Cardinality(P) + Cardinality(R)
      /\ Cardinality(P \cup R) \in Nat
  <2>1. IsFiniteSet(P \cup R) /\ IsFiniteSet(P \cap R)
    BY <1>6, FS_Union, FS_Intersection
  <2>2. Cardinality(P \cup R) = Cardinality(P) + Cardinality(R) - Cardinality(P \cap R)
    BY <1>6, FS_Union
  <2>. QED  BY <1>6, <2>1, <2>2, FS_CardinalityType
<1>9. /\ IsFiniteSet(C \cup F)
      /\ Cardinality(C \cup F) <= Cardinality(C) + Cardinality(F)
      /\ Cardinality(C \cup F) \in Nat
  <2>1. IsFiniteSet(C \cup F) /\ IsFiniteSet(C \cap F)
    BY <1>6, FS_Union, FS_Intersection
  <2>2. Cardinality(C \cup F) = Cardinality(C) + Cardinality(F) - Cardinality(C \cap F)
    BY <1>6, FS_Union
  <2>. QED  BY <1>6, <2>1, <2>2, FS_CardinalityType
<1>10. Cardinality((P \cup R) \cup (C \cup F)) <= Cardinality(P \cup R) + Cardinality(C \cup F)
  <2>1. IsFiniteSet((P \cup R) \cap (C \cup F))
    BY <1>8, FS_Intersection, <1>9
  <2>2. Cardinality((P \cup R) \cup (C \cup F))
          = Cardinality(P \cup R) + Cardinality(C \cup F) - Cardinality((P \cup R) \cap (C \cup F))
    BY <1>8, <1>9, FS_Union
  <2>. QED  BY <1>8, <1>9, <2>1, <2>2, FS_CardinalityType
<1>11. IsFiniteSet((P \cup R) \cup (C \cup F))
  BY <1>8, <1>9, FS_Union
<1>12. Cardinality(S) <= Cardinality((P \cup R) \cup (C \cup F))
  BY <1>7, <1>11, FS_Subset
<1>13. Cardinality(S) \in Nat /\ Cardinality((P \cup R) \cup (C \cup F)) \in Nat
  BY <1>11, JobsOfStatus, FS_CardinalityType
<1>14. Total(CountByStatus(jobs)) >= Cardinality(S)
  BY <1>5, <1>6, <1>8, <1>9, <1>10, <1>12, <1>13
<1>. QED  BY <1>4, <1>14

(* The steps of the type invariant.                                        *)
LEMMA RepositoryTypes ==
  ASSUME NEW doc \in JobDoc, NEW s \in JobStatus, NEW e \in BOOLEAN
  PROVE  UpdateStatus(doc, s, e) \in JobDoc /\ UpdateStatus(doc, s, e).status = s
BY DEF UpdateStatus, Exists, JobDoc, JobStatus

LEMMA StatusMeansDoc ==
  ASSUME TypeOK, NEW j \in Jobs, jobs[j].status \in JobStatus
  PROVE  jobs[j] \in JobDoc
BY DEF TypeOK, NoJob, JobStatus

(* A write of one document leaves the others and their number alone.        *)
LEMMA JobStep ==
  ASSUME StatsAssumption, SInv, NEW j \in Jobs, CreateJob(j) \/ WorkerUpdate(j)
  PROVE  SInv'
<1>. USE DEF SInv
<1>1. /\ \E doc \in JobDoc : doc.status \in JobStatus /\ jobs' = [jobs EXCEPT ![j] = doc]
      /\ \/ confirms' = confirms
         \/ confirms[j] = "none" /\ confirms' = [confirms EXCEPT ![j] = "invalidate"]
      /\ UNCHANGED <<cache, readers, crossed>>
  <2>1. CASE CreateJob(j)
    BY <2>1 DEF CreateJob, NewJob, JobDoc, JobStatus, TypeOK
  <2>2. CASE WorkerUpdate(j)
    <3>. DEFINE To(s, e) == jobs' = [jobs EXCEPT ![j] = UpdateStatus(jobs[j], s, e)]
    <3>1. /\ jobs[j].status \in JobStatus
          /\ To("processing", FALSE) \/ To("completed", FALSE) \/ To("failed", TRUE)
          /\ UNCHANGED <<confirms, cache, readers, crossed>>
      BY <2>2 DEF WorkerUpdate, JobStatus
    <3>2. jobs[j] \in JobDoc
      BY <3>1, StatusMeansDoc
    <3>3. /\ UpdateStatus(jobs[j], "processing", FALSE) \in JobDoc
          /\ UpdateStatus(jobs[j], "completed", FALSE) \in JobDoc
          /\ UpdateStatus(jobs[j], "failed", TRUE) \in JobDoc
      BY <3>2, RepositoryTypes DEF JobStatus
    <3>4. \A doc \in JobDoc : doc.status \in JobStatus
      BY DEF JobDoc
    <3>. QED  BY <3>1, <3>3, <3>4
  <2>. QED  BY <2>1, <2>2
<1>2. TypeOK'
  BY <1>1 DEF TypeOK
<1>3. \A k \in Jobs : confirms'[k] # "none" => jobs'[k].status \in JobStatus
  BY <1>1 DEF TypeOK
<1>4. Answered' = Answered
  BY <1>1 DEF TypeOK, Answered
<1>. QED  BY <1>1, <1>2, <1>3, <1>4

LEMMA InvalidateStep ==
  ASSUME StatsAssumption, SInv, NEW j \in Jobs, Invalidate(j)
  PROVE  SInv'
<1>. USE DEF SInv
<1>1. /\ confirms[j] = "invalidate" /\ confirms' = [confirms EXCEPT ![j] = "answered"]
      /\ UNCHANGED <<jobs, readers>>
      /\ crossed' \in BOOLEAN
      /\ cache' \in Stats
      /\ ~crossed' => cache' = NoStats /\ ~Filling
  BY DEF Invalidate, TypeOK, Stats, Filling
<1>2. TypeOK'
  BY <1>1 DEF TypeOK
<1>3. \A k \in Jobs : confirms'[k] # "none" => jobs'[k].status \in JobStatus
  BY <1>1 DEF TypeOK
<1>. QED  BY <1>1, <1>2, <1>3 DEF Filling

LEMMA ReaderStep ==
  ASSUME StatsAssumption, SInv, NEW r \in Readers, Get(r) \/ Count(r) \/ Set(r)
  PROVE  SInv'
<1>. USE DEF SInv
<1>1. UNCHANGED <<jobs, confirms, crossed>> /\ Answered' = Answered
  BY DEF Get, Count, Set, Answered
<1>2. CASE Get(r)
  <2>1. /\ UNCHANGED cache
        /\ TypeOK'
        /\ \A q \in Readers : /\ readers'[q].pc = "set" <=> readers[q].pc = "set"
                              /\ readers'[q].counts = readers[q].counts
    BY <1>1, <1>2 DEF Get, TypeOK
  <2>. QED  BY <1>1, <2>1
<1>3. CASE Count(r)
  <2>1. \A j \in Answered : jobs[j].status \in JobStatus
    BY DEF Answered
  <2>2. /\ CountByStatus(jobs) \in Counts
        /\ Total(CountByStatus(jobs)) >= Cardinality(Answered)
    BY <2>1, CountsCover DEF Answered
  <2>3. /\ UNCHANGED cache
        /\ readers' = [readers EXCEPT ![r] =
             [pc |-> "set", counts |-> CountByStatus(jobs), shown |-> readers[r].shown]]
    BY <1>3 DEF Count
  <2>4. TypeOK'
    <3>. DEFINE new == CountByStatus(jobs)
    <3>. HIDE DEF new
    <3>2. readers' = [readers EXCEPT ![r] = [pc |-> "set", counts |-> new, shown |-> readers[r].shown]]
      BY <2>3 DEF new
    <3>3. new \in Counts
      BY <2>2 DEF new
    <3>. QED  BY <1>1, <2>3, <3>2, <3>3 DEF TypeOK, Stats
  <2>5. \A q \in Readers :
          IF q = r THEN readers'[q].counts = CountByStatus(jobs)
          ELSE readers'[q] = readers[q]
    BY <2>3 DEF TypeOK
  <2>. QED  BY <1>1, <2>2, <2>3, <2>4, <2>5
<1>4. CASE Set(r)
  <2>1. /\ readers[r].pc = "set"
        /\ cache' \in {readers[r].counts, cache}
        /\ readers' = [readers EXCEPT ![r] =
             [pc |-> "idle", counts |-> NoStats, shown |-> readers[r].counts]]
    BY <1>4 DEF Set
  <2>2. TypeOK'
    BY <1>1, <2>1 DEF TypeOK, Stats
  <2>3. \A q \in Readers : IF q = r THEN readers'[q].pc = "idle" ELSE readers'[q] = readers[q]
    BY <2>1 DEF TypeOK
  <2>. QED  BY <1>1, <2>1, <2>2, <2>3
<1>. QED  BY <1>2, <1>3, <1>4

LEMMA ExpireStep == ASSUME SInv, Expire PROVE SInv'
<1>1. /\ cache' = NoStats
      /\ UNCHANGED <<jobs, confirms, readers>>
      /\ crossed' = (crossed /\ Filling)
      /\ Answered' = Answered
  BY DEF Expire, Answered
<1>2. TypeOK'
  BY <1>1 DEF SInv, TypeOK, Stats
<1>. QED  BY <1>1, <1>2 DEF SInv, Filling

LEMMA InitStats == ASSUME StatsAssumption, Init PROVE SInv
BY DEF Init, SInv, TypeOK, Stats

(* The invariant, whatever interleaves with whatever.                      *)
THEOREM Invariance == Spec => []SInv
<1>1. Init => SInv
  BY StatsAssumption, InitStats
<1>2. SInv /\ [Next]_vars => SInv'
  <2>. SUFFICES ASSUME SInv, [Next]_vars PROVE SInv'
    OBVIOUS
  <2>1. CASE UNCHANGED vars
    <3>1. Answered' = Answered
      BY <2>1 DEF vars, Answered
    <3>. QED  BY <2>1, <3>1 DEF SInv, TypeOK, vars
  <2>2. CASE Next
    BY <2>2, StatsAssumption, JobStep, InvalidateStep, ReaderStep, ExpireStep DEF Next
  <2>. QED  BY <2>1, <2>2
<1>. QED  BY <1>1, <1>2, PTL DEF Spec

(* The cache hides no job of an answered confirm, but after an invalidation *)
(* that failed or crossed a fill: for any number of jobs, dashboards and    *)
(* requests in flight.                                                     *)
THEOREM AnsweredCounted == Spec => []AnsweredJobsAreCounted
<1>1. SInv => AnsweredJobsAreCounted
  BY DEF SInv, AnsweredJobsAreCounted, Answered
<1>. QED  BY <1>1, Invariance, PTL
=============================================================================
