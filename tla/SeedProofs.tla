----------------------------- MODULE SeedProofs -----------------------------
(***************************************************************************)
(* Proofs about Seed, for any number of runs, entries and writes by        *)
(* others.                                                                 *)
(***************************************************************************)
EXTENDS Seed, FiniteSetTheorems, TLAPS

Phases == {"users", "candidates", "jobs", "applications", "interviews"}
RowStates == {"absent", "seeded", "changed", "deleted", "withdrawn"}
IdOrNone == Ids \cup {NoId}

TypeOK ==
  /\ outcome \in [Runs -> {"idle", "running", "failed", "completed"}]
  /\ phase \in [Runs -> Phases]
  /\ pending \in [Runs -> SUBSET Entries] /\ looked \in [Runs -> SUBSET Entries]
  /\ jobOf \in [Runs -> [Entries -> IdOrNone]]
  /\ candidateOf \in [Runs -> [Entries -> IdOrNone]]
  /\ link \in [Runs -> [Entries -> IdOrNone \X IdOrNone]]
  /\ now \in [Runs -> 0..2]
  /\ user \in [Entries -> RowStates]
  /\ candidates \in [Entries -> [Ids -> RowStates]]
  /\ jobs \in [Entries -> [Ids -> RowStates]]
  /\ applications \in [Entries -> [Ids \X Ids -> RowStates]]
  /\ overlap \in BOOLEAN
  /\ touched \in [Runs -> SUBSET (Kinds \X Entries)]

-----------------------------------------------------------------------------
(* The invariants.                                                          *)

\* A run that did not overlap is alone; between its findFirst and its write the
\* job it found is the only live one, and none appears if it found none.
DuplicatesInv ==
  /\ \A e \in Entries : \A c, d \in CandidatesOf(e) : c = d
  /\ \A r \in Runs : outcome[r] # "failed" => looked[r] \subseteq pending[r]
  /\ ~overlap =>
       /\ \A q, r \in Runs : OnItsWay(q) /\ OnItsWay(r) => q = r
       /\ \A e \in Entries : \A i, j \in LiveJobs(e) : i = j
       /\ \A r \in Runs, e \in Entries :
            phase[r] = "jobs" /\ e \in pending[r] \cap looked[r]
              => LiveJobs(e) \subseteq {jobOf[r][e]}

\* The phase that writes rows of kind k, and those after it.
PhaseOf(k) == CASE k = "user" -> "users"
                [] k = "candidate" -> "candidates"
                [] k = "job" -> "jobs"
                [] k = "application" -> "applications"
                [] k = "interview" -> "interviews"
After(k) == CASE k = "user" -> Phases \ {"users"}
              [] k = "candidate" -> {"jobs", "applications", "interviews"}
              [] k = "job" -> {"applications", "interviews"}
              [] k = "application" -> {"interviews"}
              [] k = "interview" -> {}

\* r has not failed, and its promise for this row is settled.
Succeeds(r) == outcome[r] \in {"running", "completed"}
Written(r, k, e) ==
  /\ Succeeds(r)
  /\ phase[r] \in After(k) \/ (phase[r] = PhaseOf(k) /\ e \notin pending[r])

\* A run knows the ids of what it wrote, and of what earlier phases wrote.
KnowsIds(r) ==
  /\ outcome[r] = "idle" => phase[r] = "users" /\ pending[r] = {}
  /\ outcome[r] = "completed" => phase[r] = "interviews" /\ pending[r] = {}
  /\ \A e \in Entries :
       /\ Written(r, "candidate", e) \/ phase[r] \in After("candidate")
            => candidateOf[r][e] \in Ids
       /\ Written(r, "job", e) \/ phase[r] \in After("job") => jobOf[r][e] \in Ids

\* What was written is in place or was touched since.  An entry loses all its
\* applications only with its interviews.
Restores(r, e) ==
  /\ \A k \in Kinds : Written(r, k, e) => InPlace(r, k, e) \/ <<k, e>> \in touched[r]
  /\ /\ phase[r] = "applications" /\ Written(r, "application", e)
     /\ applications[e][<<jobOf[r][e], candidateOf[r][e]>>] = "absent"
     => <<"interview", e>> \in touched[r]
  /\ Succeeds(r) /\ phase[r] = "interviews" /\ link[r][e] = <<NoId, NoId>>
     => <<"interview", e>> \in touched[r]

SeedInv ==
  /\ TypeOK
  /\ DuplicatesInv
  /\ \A r \in Runs : KnowsIds(r) /\ \A e \in Entries : Restores(r, e)

-----------------------------------------------------------------------------
(* Types.                                                                   *)

\* A choice over the writes of a nested table keeps its type.
LEMMA NestedType ==
  ASSUME NEW S, NEW T, NEW V, NEW f \in [S -> [T -> V]],
         NEW s \in S, NEW t \in T, NEW v \in V
  PROVE  [f EXCEPT ![s][t] = v] \in [S -> [T -> V]]
OBVIOUS

\* A promise that settles, or fails its run.
LEMMA ProgressType ==
  ASSUME TypeOK, NEW r \in Runs, NEW e \in Entries,
         Settle(r, e) \/ Reject(r, e)
  PROVE  /\ outcome' \in [Runs -> {"idle", "running", "failed", "completed"}]
         /\ phase' \in [Runs -> Phases]
         /\ pending' \in [Runs -> SUBSET Entries]
         /\ looked' \in [Runs -> SUBSET Entries]
<1>1. /\ phase' = phase
      /\ pending' = [pending EXCEPT ![r] = @ \ {e}]
      /\ looked' = [looked EXCEPT ![r] = @ \ {e}]
      /\ outcome' = outcome \/ outcome' = [outcome EXCEPT ![r] = "failed"]
  BY DEF Settle, Reject
<1>2. outcome' \in [Runs -> {"idle", "running", "failed", "completed"}]
  BY <1>1 DEF TypeOK
<1>3. pending' \in [Runs -> SUBSET Entries] /\ looked' \in [Runs -> SUBSET Entries]
  BY <1>1 DEF TypeOK
<1>4. QED BY <1>1, <1>2, <1>3 DEF TypeOK

\* What is recorded of a write by a run.
LEMMA WroteType ==
  ASSUME TypeOK, NEW r \in Runs, NEW k, NEW e \in Entries, Wrote(r, k, e)
  PROVE  /\ touched' \in [Runs -> SUBSET (Kinds \X Entries)]
         /\ overlap' \in BOOLEAN
BY DEF TypeOK, Wrote

\* The steps of a run between its queries.
LEMMA CourseType ==
  ASSUME TypeOK, NEW r \in Runs,
         Start(r) \/ NextPhase(r) \/ Complete(r) \/ SiblingFails(r) \/ Exit(r)
  PROVE  TypeOK'
<1>1. CASE Start(r)
  BY <1>1 DEF Start, TypeOK, found, tables
<1>2. CASE NextPhase(r)
  <2>1. phase' \in [Runs -> Phases] /\ pending' \in [Runs -> SUBSET Entries]
    BY <1>2 DEF NextPhase, TypeOK, Phases
  <2>2. CASE phase[r] = "applications"
    <3>1. PICK f \in [Entries -> (Ids \X Ids) \cup {<<NoId, NoId>>}] :
            link' = [link EXCEPT ![r] = f]
      BY <1>2, <2>2 DEF NextPhase
    <3>2. f \in [Entries -> IdOrNone \X IdOrNone]
      BY DEF IdOrNone
    <3>3. PICK t \in 1..2 : now' = [now EXCEPT ![r] = t]
      BY <1>2, <2>2 DEF NextPhase
    <3>4. link' \in [Runs -> [Entries -> IdOrNone \X IdOrNone]] /\ now' \in [Runs -> 0..2]
      BY <3>1, <3>2, <3>3 DEF TypeOK
    <3>5. QED BY <1>2, <2>1, <3>4 DEF NextPhase, TypeOK, tables, others
  <2>3. CASE phase[r] # "applications"
    BY <1>2, <2>1, <2>3 DEF NextPhase, TypeOK, tables, others
  <2>4. QED BY <2>2, <2>3
<1>3. CASE Complete(r) \/ SiblingFails(r) \/ Exit(r)
  BY <1>3 DEF Complete, SiblingFails, Exit, TypeOK, found, tables, others
<1>4. QED BY <1>1, <1>2, <1>3

\* The queries of a run.
LEMMA QueriesType ==
  ASSUME TypeOK, NEW r \in Runs, NEW e \in Entries,
         \/ Fail(r, e)
         \/ UpsertUser(r, e) \/ UpsertCandidate(r, e)
         \/ FindJob(r, e) \/ WriteJob(r, e) \/ UpsertApplication(r, e)
         \/ FindInterview(r, e) \/ CreateInterview(r, e)
  PROVE  TypeOK'
<1>1. CASE Fail(r, e)
  BY <1>1, ProgressType DEF Fail, TypeOK, found, tables, others
<1>2. CASE UpsertUser(r, e)
  <2>1. user' \in [Entries -> RowStates]
    BY <1>2 DEF UpsertUser, TypeOK, RowStates
  <2>2. QED BY <1>2, <2>1, ProgressType, WroteType DEF UpsertUser, TypeOK, found
<1>3. CASE UpsertCandidate(r, e)
  <2>1. PICK c \in Ids :
          /\ candidates' = [candidates EXCEPT ![e][c] = "seeded"]
          /\ candidateOf' = [candidateOf EXCEPT ![r][e] = c]
    BY <1>3 DEF UpsertCandidate, CandidatesOf, Ids
  <2>2. candidates' \in [Entries -> [Ids -> RowStates]]
    BY <2>1 DEF TypeOK, RowStates
  <2>3. candidateOf' \in [Runs -> [Entries -> IdOrNone]]
    BY <2>1 DEF TypeOK, IdOrNone
  <2>4. QED
    BY <1>3, <2>2, <2>3, ProgressType, WroteType DEF UpsertCandidate, TypeOK
<1>4. CASE FindJob(r, e)
  <2>1. PICK j \in IdOrNone : jobOf' = [jobOf EXCEPT ![r][e] = j]
    BY <1>4 DEF FindJob, FirstJob, LiveJobs, IdOrNone
  <2>2. jobOf' \in [Runs -> [Entries -> IdOrNone]]
    BY <2>1 DEF TypeOK
  <2>3. QED BY <1>4, <2>2 DEF FindJob, TypeOK, tables, others
<1>5. CASE WriteJob(r, e)
  <2>1. PICK j \in Ids : /\ jobs' = [jobs EXCEPT ![e][j] = "seeded"]
                         /\ jobOf' = [jobOf EXCEPT ![r][e] = j]
    <3>1. (IF jobOf[r][e] = NoId THEN r ELSE jobOf[r][e]) \in Ids
      <4>1. jobOf[r][e] \in IdOrNone
        BY DEF TypeOK
      <4>2. QED BY <4>1 DEF IdOrNone, Ids
    <3>2. QED BY <1>5, <3>1 DEF WriteJob
  <2>2. jobs' \in [Entries -> [Ids -> RowStates]]
    BY <2>1 DEF TypeOK, RowStates
  <2>3. jobOf' \in [Runs -> [Entries -> IdOrNone]]
    BY <2>1 DEF TypeOK, IdOrNone
  <2>4. QED BY <1>5, <2>2, <2>3, ProgressType, WroteType DEF WriteJob, TypeOK
<1>6. CASE UpsertApplication(r, e)
  <2>1. applications' \in [Entries -> [Ids \X Ids -> RowStates]]
    <3>1. \/ applications' = applications
          \/ \E a : applications' = [applications EXCEPT ![e][a] = "seeded"]
      BY <1>6 DEF UpsertApplication, Reseed, tables
    <3>2. ASSUME NEW a, applications' = [applications EXCEPT ![e][a] = "seeded"]
          PROVE  applications' \in [Entries -> [Ids \X Ids -> RowStates]]
      BY <3>2 DEF TypeOK, RowStates
    <3>3. QED BY <3>1, <3>2 DEF TypeOK
  <2>2. QED
    BY <1>6, <2>1, ProgressType, WroteType
       DEF UpsertApplication, TypeOK, found, tables, others
<1>7. CASE FindInterview(r, e)
  <2>1. /\ pending' = pending \/ pending' = [pending EXCEPT ![r] = @ \ {e}]
        /\ looked' = looked \/ looked' = [looked EXCEPT ![r] = {e}]
    BY <1>7 DEF FindInterview
  <2>2. pending' \in [Runs -> SUBSET Entries] /\ looked' \in [Runs -> SUBSET Entries]
    <3>1. ASSUME NEW f \in [Runs -> SUBSET Entries], NEW S \in SUBSET Entries
          PROVE  [f EXCEPT ![r] = S] \in [Runs -> SUBSET Entries]
      OBVIOUS
    <3>2. /\ pending \in [Runs -> SUBSET Entries] /\ pending[r] \ {e} \in SUBSET Entries
          /\ looked \in [Runs -> SUBSET Entries] /\ {e} \in SUBSET Entries
      BY DEF TypeOK
    <3>3. QED BY <2>1, <3>1, <3>2, Zenon
  <2>3. UNCHANGED <<outcome, phase, found, tables, others>>
    BY <1>7 DEF FindInterview
  <2>4. QED BY <2>2, <2>3 DEF TypeOK, found, tables, others
<1>8. CASE CreateInterview(r, e)
  BY <1>8, ProgressType, WroteType
     DEF CreateInterview, TypeOK, found, others
<1>9. QED BY <1>1, <1>2, <1>3, <1>4, <1>5, <1>6, <1>7, <1>8

\* The writes of the gateway.
LEMMA TouchesType ==
  ASSUME TypeOK, NEW e \in Entries,
         \/ TouchUser(e) \/ TouchCandidate(e) \/ RemoveCandidate(e)
         \/ TouchJob(e) \/ TouchApplication(e)
  PROVE  TypeOK'
<1>1. ASSUME NEW kinds \in SUBSET Kinds, Touch(kinds, e),
             user' \in [Entries -> RowStates],
             candidates' \in [Entries -> [Ids -> RowStates]],
             jobs' \in [Entries -> [Ids -> RowStates]],
             applications' \in [Entries -> [Ids \X Ids -> RowStates]]
      PROVE  TypeOK'
  BY <1>1 DEF Touch, TypeOK, progress, found
<1>2. CASE TouchUser(e)
  <2>1. user' \in [Entries -> RowStates]
    BY <1>2 DEF TouchUser, TypeOK, RowStates
  <2>2. QED BY <1>1, <1>2, <2>1 DEF TouchUser, TypeOK, Kinds
<1>3. CASE TouchCandidate(e)
  <2>1. candidates' \in [Entries -> [Ids -> RowStates]]
    BY <1>3 DEF TouchCandidate, CandidatesOf, TypeOK, RowStates
  <2>2. QED BY <1>1, <1>3, <2>1 DEF TouchCandidate, TypeOK, Kinds
<1>4. CASE RemoveCandidate(e)
  <2>1. /\ candidates' \in [Entries -> [Ids -> RowStates]]
        /\ applications' \in [Entries -> [Ids \X Ids -> RowStates]]
    BY <1>4 DEF RemoveCandidate, TypeOK, RowStates
  <2>2. QED BY <1>1, <1>4, <2>1 DEF RemoveCandidate, TypeOK, Kinds
<1>5. CASE TouchJob(e)
  <2>1. jobs' \in [Entries -> [Ids -> RowStates]]
    BY <1>5 DEF TouchJob, LiveJobs, TypeOK, RowStates
  <2>2. QED BY <1>1, <1>5, <2>1 DEF TouchJob, TypeOK, Kinds
<1>6. CASE TouchApplication(e)
  <2>1. applications' \in [Entries -> [Ids \X Ids -> RowStates]]
    <3>1. PICK a \in Ids \X Ids, s \in RowStates :
            applications' = [applications EXCEPT ![e][a] = s]
      BY <1>6 DEF TouchApplication, ApplicationsOf, RowStates
    <3>2. QED BY <3>1 DEF TypeOK
  <2>2. QED BY <1>1, <1>6, <2>1 DEF TouchApplication, TypeOK, Kinds
<1>7. QED BY <1>2, <1>3, <1>4, <1>5, <1>6

\* Databases without a run, or of an earlier one.
LEMMA TypeInit == Init => TypeOK
<1>1. SUFFICES ASSUME Init PROVE TypeOK
  OBVIOUS
<1>2. PICK old \in [Entries -> {"nothing", "deleted", "withdrawn"}] :
       /\ user = [e \in Entries |-> IF old[e] = "nothing" THEN "absent" ELSE "deleted"]
       /\ candidates = [e \in Entries |-> [c \in Ids |->
            IF c = Other /\ old[e] # "nothing" THEN "changed" ELSE "absent"]]
       /\ jobs = [e \in Entries |-> [j \in Ids |->
            IF j = Other /\ old[e] = "deleted" THEN "deleted"
            ELSE IF j = Other /\ old[e] = "withdrawn" THEN "changed" ELSE "absent"]]
       /\ applications = [e \in Entries |-> [a \in Ids \X Ids |->
            IF a = <<Other, Other>> /\ old[e] # "nothing" THEN "withdrawn" ELSE "absent"]]
  BY <1>1 DEF Init
<1>3. /\ user \in [Entries -> RowStates]
      /\ candidates \in [Entries -> [Ids -> RowStates]]
      /\ jobs \in [Entries -> [Ids -> RowStates]]
      /\ applications \in [Entries -> [Ids \X Ids -> RowStates]]
  BY <1>2 DEF RowStates
<1>4. /\ outcome \in [Runs -> {"idle", "running", "failed", "completed"}]
      /\ phase \in [Runs -> Phases]
      /\ pending \in [Runs -> SUBSET Entries] /\ looked \in [Runs -> SUBSET Entries]
      /\ overlap \in BOOLEAN /\ touched \in [Runs -> SUBSET (Kinds \X Entries)]
  BY <1>1 DEF Init, Phases
<1>5. /\ jobOf \in [Runs -> [Entries -> IdOrNone]]
      /\ candidateOf \in [Runs -> [Entries -> IdOrNone]]
  BY <1>1 DEF Init, IdOrNone
<1>6. link \in [Runs -> [Entries -> IdOrNone \X IdOrNone]] /\ now \in [Runs -> 0..2]
  BY <1>1 DEF Init, IdOrNone
<1>7. QED BY <1>3, <1>4, <1>5, <1>6 DEF TypeOK

-----------------------------------------------------------------------------
(* No duplicates.                                                           *)

\* Most steps start no run, add no candidate and no live job, and settle
\* promises of jobs rather than answer a findFirst.
LEMMA NothingDuplicated ==
  ASSUME DuplicatesInv, overlap' = overlap,
         \A q \in Runs : OnItsWay(q)' => OnItsWay(q),
         \A e \in Entries : /\ CandidatesOf(e)' \subseteq CandidatesOf(e)
                            /\ LiveJobs(e)' \subseteq LiveJobs(e),
         \A q \in Runs : outcome'[q] # "failed" => looked'[q] \subseteq pending'[q],
         \A q \in Runs, e \in Entries :
           phase'[q] = "jobs" /\ e \in pending'[q] \cap looked'[q]
             => /\ phase[q] = "jobs" /\ e \in pending[q] \cap looked[q]
                /\ jobOf'[q][e] = jobOf[q][e]
  PROVE  DuplicatesInv'
<1>1. \A e \in Entries : \A c, d \in CandidatesOf(e)' : c = d
  BY DEF DuplicatesInv
<1>2. ASSUME ~overlap'
      PROVE  /\ \A q, r \in Runs : OnItsWay(q)' /\ OnItsWay(r)' => q = r
             /\ \A e \in Entries : \A i, j \in LiveJobs(e)' : i = j
  BY <1>2 DEF DuplicatesInv
<1>3. ASSUME ~overlap', NEW r \in Runs, NEW e \in Entries,
             phase'[r] = "jobs", e \in pending'[r] \cap looked'[r]
      PROVE  LiveJobs(e)' \subseteq {jobOf'[r][e]}
  <2>1. LiveJobs(e) \subseteq {jobOf[r][e]} /\ jobOf'[r][e] = jobOf[r][e]
    BY <1>3 DEF DuplicatesInv
  <2>2. QED BY <2>1
<1>4. QED BY <1>1, <1>2, <1>3 DEF DuplicatesInv

\* What Settle and Reject do to promises.
LEMMA SettledPromise ==
  ASSUME TypeOK, DuplicatesInv, NEW r \in Runs, NEW e \in Entries,
         Settle(r, e) \/ Reject(r, e), e \in pending[r] \/ OnItsWay(r)
  PROVE  /\ phase' = phase
         /\ \A q \in Runs : /\ OnItsWay(q)' => OnItsWay(q)
                            /\ outcome'[q] # "failed" => looked'[q] \subseteq pending'[q]
         /\ \A q \in Runs, d \in Entries :
              d \in pending'[q] \cap looked'[q]
                => d \in pending[q] \cap looked[q] /\ <<q, d>> # <<r, e>>
<1>1. /\ phase' = phase
      /\ pending' = [pending EXCEPT ![r] = @ \ {e}]
      /\ looked' = [looked EXCEPT ![r] = @ \ {e}]
      /\ outcome' = outcome \/ outcome' = [outcome EXCEPT ![r] = "failed"]
  BY DEF Settle, Reject
<1>2. ASSUME NEW q \in Runs
      PROVE  /\ OnItsWay(q)' => OnItsWay(q)
             /\ outcome'[q] # "failed" => looked'[q] \subseteq pending'[q]
  <2>1. outcome'[q] # "failed" => looked[q] \subseteq pending[q]
    BY <1>1 DEF TypeOK, DuplicatesInv
  <2>2. CASE q = r
    BY <1>1, <2>1, <2>2 DEF TypeOK, OnItsWay
  <2>3. CASE q # r
    BY <1>1, <2>1, <2>3 DEF TypeOK, OnItsWay
  <2>4. QED BY <2>2, <2>3
<1>3. ASSUME NEW q \in Runs, NEW d \in Entries, d \in pending'[q] \cap looked'[q]
      PROVE  d \in pending[q] \cap looked[q] /\ <<q, d>> # <<r, e>>
  BY <1>1, <1>3 DEF TypeOK
<1>4. QED BY <1>1, <1>2, <1>3

\* The steps of a run between its queries make no rows.
LEMMA CourseDuplicates ==
  ASSUME TypeOK, DuplicatesInv, NEW r \in Runs, KnowsIds(r),
         Start(r) \/ NextPhase(r) \/ Complete(r) \/ SiblingFails(r) \/ Exit(r)
  PROVE  DuplicatesInv'
<1>1. CASE Start(r)
  <2>1. /\ UNCHANGED <<phase, looked, jobOf, candidates, jobs>>
        /\ overlap' = (overlap \/ \E q \in Runs \ {r} : OnItsWay(q))
        /\ outcome[r] = "idle" /\ phase[r] = "users"
        /\ \A q \in Runs \ {r} : outcome'[q] = outcome[q] /\ pending'[q] = pending[q]
    BY <1>1 DEF Start, KnowsIds, found, tables, TypeOK
  <2>2. \A q \in Runs : outcome'[q] # "failed" => looked'[q] \subseteq pending'[q]
    <3>1. outcome'[r] # "failed" => pending'[r] = Entries
      BY <1>1 DEF Start, TypeOK
    <3>2. QED BY <2>1, <3>1 DEF DuplicatesInv, TypeOK
  <2>3. \A e \in Entries : /\ CandidatesOf(e)' = CandidatesOf(e)
                           /\ LiveJobs(e)' = LiveJobs(e)
    BY <2>1 DEF CandidatesOf, LiveJobs
  <2>4. ~overlap' => \A q, p \in Runs : OnItsWay(q)' /\ OnItsWay(p)' => q = p
    BY <2>1 DEF OnItsWay
  <2>5. ASSUME ~overlap', NEW q \in Runs, NEW e \in Entries,
               phase'[q] = "jobs", e \in pending'[q] \cap looked'[q]
        PROVE  LiveJobs(e)' \subseteq {jobOf'[q][e]}
    <3>1. q # r /\ ~overlap
      BY <2>1, <2>5
    <3>2. QED BY <2>1, <2>3, <2>5, <3>1 DEF DuplicatesInv
  <2>6. QED
    <3>1. \A e \in Entries : \A c, d \in CandidatesOf(e)' : c = d
      BY <2>3 DEF DuplicatesInv
    <3>2. ~overlap' => \A e \in Entries : \A i, j \in LiveJobs(e)' : i = j
      BY <2>1, <2>3 DEF DuplicatesInv
    <3>3. QED BY <2>2, <2>4, <2>5, <3>1, <3>2 DEF DuplicatesInv
<1>2. CASE NextPhase(r)
  <2>1. /\ overlap' = overlap /\ outcome' = outcome /\ looked' = looked
        /\ jobOf' = jobOf /\ UNCHANGED <<candidates, jobs>>
        /\ outcome[r] = "running" /\ pending[r] = {}
        /\ \A q \in Runs \ {r} : phase'[q] = phase[q] /\ pending'[q] = pending[q]
    BY <1>2 DEF NextPhase, tables, others, TypeOK
  <2>2. looked[r] = {}
    BY <2>1 DEF DuplicatesInv
  <2>3. QED
    BY <2>1, <2>2, NothingDuplicated
       DEF DuplicatesInv, CandidatesOf, LiveJobs, OnItsWay, TypeOK
<1>3. CASE Complete(r) \/ SiblingFails(r) \/ Exit(r)
  <2>1. /\ overlap' = overlap /\ looked' = looked /\ phase' = phase
        /\ jobOf' = jobOf /\ UNCHANGED <<candidates, jobs>>
        /\ \/ pending' = pending
           \/ pending' = [pending EXCEPT ![r] = {}] /\ outcome'[r] = "failed"
        /\ \/ outcome' = [outcome EXCEPT ![r] = "failed"]
           \/ outcome' = [outcome EXCEPT ![r] = "completed"] /\ outcome[r] = "running"
        /\ OnItsWay(r)
    BY <1>3 DEF Complete, SiblingFails, Exit, found, tables, others, TypeOK, OnItsWay
  <2>2. ASSUME NEW q \in Runs
        PROVE  /\ OnItsWay(q)' => OnItsWay(q)
               /\ outcome'[q] # "failed" => looked'[q] \subseteq pending'[q]
               /\ pending'[q] \subseteq pending[q]
    <3>1. CASE q = r BY <2>1, <3>1 DEF TypeOK, DuplicatesInv
    <3>2. CASE q # r BY <2>1, <3>2 DEF TypeOK, DuplicatesInv, OnItsWay
    <3>3. QED BY <3>1, <3>2
  <2>3. QED
    BY <2>1, <2>2, NothingDuplicated DEF CandidatesOf, LiveJobs
<1>4. QED BY <1>1, <1>2, <1>3

\* The queries that concern neither candidates nor jobs.
LEMMA QuietQueriesDuplicates ==
  ASSUME TypeOK, DuplicatesInv, NEW r \in Runs, NEW e \in Entries,
         \/ Fail(r, e) \/ UpsertUser(r, e) \/ UpsertApplication(r, e)
         \/ FindInterview(r, e) \/ CreateInterview(r, e)
  PROVE  DuplicatesInv'
<1>1. UNCHANGED <<overlap, jobOf, candidates, jobs>>
  BY DEF Fail, UpsertUser, UpsertApplication, FindInterview, CreateInterview,
         Wrote, found, tables, others
<1>2. \A d \in Entries : CandidatesOf(d)' = CandidatesOf(d) /\ LiveJobs(d)' = LiveJobs(d)
  BY <1>1 DEF CandidatesOf, LiveJobs
<1>3. CASE ~FindInterview(r, e)
  <2>1. Settle(r, e) \/ Reject(r, e)
    BY <1>3 DEF Fail, UpsertUser, UpsertApplication, CreateInterview
  <2>2. e \in pending[r] \/ OnItsWay(r)
    BY <1>3 DEF Fail, UpsertUser, UpsertApplication, CreateInterview
  <2>3. QED BY <1>1, <1>2, <2>1, <2>2, SettledPromise, NothingDuplicated
<1>4. CASE FindInterview(r, e)
  <2>1. /\ phase' = phase /\ outcome' = outcome /\ phase[r] = "interviews"
        /\ outcome[r] = "running" /\ looked[r] = {}
        /\ \/ pending' = [pending EXCEPT ![r] = @ \ {e}] /\ looked' = looked
           \/ pending' = pending /\ looked' = [looked EXCEPT ![r] = {e}]
        /\ e \in pending[r]
    BY <1>4 DEF FindInterview
  <2>2. ASSUME NEW q \in Runs
        PROVE  /\ OnItsWay(q)' => OnItsWay(q)
               /\ outcome'[q] # "failed" => looked'[q] \subseteq pending'[q]
               /\ q # r => pending'[q] = pending[q] /\ looked'[q] = looked[q]
    <3>1. CASE q = r BY <2>1, <3>1 DEF TypeOK, OnItsWay
    <3>2. CASE q # r BY <2>1, <3>2 DEF TypeOK, DuplicatesInv, OnItsWay
    <3>3. QED BY <3>1, <3>2
  <2>3. QED BY <1>1, <1>2, <2>1, <2>2, NothingDuplicated
<1>5. QED BY <1>3, <1>4

\* A candidate is created where there is none.
LEMMA UpsertCandidateDuplicates ==
  ASSUME TypeOK, DuplicatesInv, NEW r \in Runs, NEW e \in Entries,
         UpsertCandidate(r, e)
  PROVE  DuplicatesInv'
<1>1. PICK c \in Ids :
        /\ candidates' = [candidates EXCEPT ![e][c] = "seeded"]
        /\ CandidatesOf(e) \subseteq {c}
  <2>1. CASE CandidatesOf(e) = {}
    BY <2>1 DEF UpsertCandidate, Ids
  <2>2. CASE CandidatesOf(e) # {}
    <3>1. PICK c : c = CHOOSE i \in CandidatesOf(e) : TRUE
      OBVIOUS
    <3>2. c \in CandidatesOf(e)
      BY <2>2, <3>1
    <3>3. c \in Ids /\ CandidatesOf(e) \subseteq {c}
      BY <3>2 DEF CandidatesOf, DuplicatesInv
    <3>4. candidates' = [candidates EXCEPT ![e][c] = "seeded"]
      BY <2>2, <3>1, Zenon DEF UpsertCandidate
    <3>5. QED BY <3>3, <3>4
  <2>3. QED BY <2>1, <2>2
<1>2. \A d \in Entries : CandidatesOf(d)' \subseteq IF d = e THEN {c} ELSE CandidatesOf(d)
  BY <1>1 DEF CandidatesOf, TypeOK
<1>3. \A d \in Entries : \A i, j \in CandidatesOf(d)' : i = j
  BY <1>2 DEF DuplicatesInv
<1>4. /\ UNCHANGED <<overlap, jobOf, jobs, phase>> /\ phase[r] = "candidates"
      /\ Settle(r, e) /\ e \in pending[r]
  BY DEF UpsertCandidate, Wrote, Settle
<1>5. \A d \in Entries : LiveJobs(d)' = LiveJobs(d)
  BY <1>4 DEF LiveJobs
<1>6. QED BY <1>3, <1>4, <1>5, SettledPromise DEF DuplicatesInv

\* The job found is the one there is.
LEMMA FindJobDuplicates ==
  ASSUME TypeOK, DuplicatesInv, NEW r \in Runs, NEW e \in Entries, FindJob(r, e)
  PROVE  DuplicatesInv'
<1>1. PICK j \in FirstJob(e) : jobOf' = [jobOf EXCEPT ![r][e] = j]
  BY DEF FindJob
<1>2. /\ UNCHANGED <<overlap, outcome, phase, pending, candidates, jobs>>
      /\ looked' = [looked EXCEPT ![r] = @ \cup {e}] /\ e \in pending[r]
  BY DEF FindJob, tables, others
<1>3. \A d \in Entries : CandidatesOf(d)' = CandidatesOf(d) /\ LiveJobs(d)' = LiveJobs(d)
  BY <1>2 DEF CandidatesOf, LiveJobs
<1>4. \A q \in Runs : outcome'[q] # "failed" => looked'[q] \subseteq pending'[q]
  BY <1>2 DEF DuplicatesInv, TypeOK
<1>5. ASSUME ~overlap, NEW q \in Runs, NEW d \in Entries,
             phase[q] = "jobs", d \in pending'[q] \cap looked'[q]
      PROVE  LiveJobs(d) \subseteq {jobOf'[q][d]}
  <2>1. CASE q = r /\ d = e
    <3>1. jobOf'[q][d] = j
      BY <1>1, <2>1 DEF TypeOK
    <3>2. LiveJobs(e) \subseteq {j}
      BY <1>5 DEF DuplicatesInv, FirstJob
    <3>3. QED BY <2>1, <3>1, <3>2
  <2>2. CASE ~(q = r /\ d = e)
    <3>1. jobOf'[q][d] = jobOf[q][d] /\ d \in pending[q] \cap looked[q]
      BY <1>1, <1>2, <1>5, <2>2 DEF TypeOK
    <3>2. QED BY <1>5, <3>1 DEF DuplicatesInv
  <2>3. QED BY <2>1, <2>2
<1>6. QED BY <1>2, <1>3, <1>4, <1>5 DEF DuplicatesInv, OnItsWay

\* The job written is the one found, or there is none.
LEMMA WriteJobDuplicates ==
  ASSUME TypeOK, DuplicatesInv, NEW r \in Runs, NEW e \in Entries, WriteJob(r, e)
  PROVE  DuplicatesInv'
<1>1. /\ UNCHANGED <<overlap, candidates, phase>> /\ phase[r] = "jobs"
      /\ Settle(r, e) /\ e \in pending[r] \cap looked[r]
  BY DEF WriteJob, Wrote, Settle
<1>2. PICK j \in Ids :
        /\ jobs' = [jobs EXCEPT ![e][j] = "seeded"]
        /\ jobOf' = [jobOf EXCEPT ![r][e] = j]
        /\ ~overlap => LiveJobs(e) \subseteq {j}
  <2>1. /\ jobOf[r][e] \in IdOrNone
        /\ ~overlap => LiveJobs(e) \subseteq {jobOf[r][e]}
        /\ LiveJobs(e) \subseteq Ids
    BY <1>1 DEF TypeOK, DuplicatesInv, LiveJobs
  <2>2. CASE jobOf[r][e] = NoId
    <3>1. ~overlap => LiveJobs(e) = {}
      BY <2>1, <2>2, SeedAssumption DEF Ids
    <3>2. QED BY <2>2, <3>1 DEF WriteJob, Ids
  <2>3. CASE jobOf[r][e] # NoId
    BY <2>1, <2>3 DEF WriteJob, IdOrNone
  <2>4. QED BY <2>2, <2>3
<1>3. \A d \in Entries :
        /\ CandidatesOf(d)' = CandidatesOf(d)
        /\ LiveJobs(d)' \subseteq IF d = e THEN LiveJobs(d) \cup {j} ELSE LiveJobs(d)
  BY <1>1, <1>2 DEF LiveJobs, CandidatesOf, TypeOK
<1>4. ~overlap => \A d \in Entries : \A x, y \in LiveJobs(d)' : x = y
  BY <1>2, <1>3 DEF DuplicatesInv
<1>5. ASSUME ~overlap, NEW q \in Runs, NEW d \in Entries,
             phase[q] = "jobs", d \in pending'[q] \cap looked'[q]
      PROVE  LiveJobs(d)' \subseteq {jobOf'[q][d]}
  <2>1. d \in pending[q] \cap looked[q] /\ <<q, d>> # <<r, e>>
    BY <1>1, <1>5, SettledPromise
  <2>2. q = r
    BY <1>1, <1>5, <2>1 DEF DuplicatesInv, OnItsWay
  <2>3. d # e /\ jobOf'[q][d] = jobOf[q][d]
    BY <1>2, <2>1, <2>2 DEF TypeOK
  <2>4. QED BY <1>3, <1>5, <2>1, <2>3 DEF DuplicatesInv
<1>6. QED BY <1>1, <1>3, <1>4, <1>5, SettledPromise DEF DuplicatesInv

\* The gateway, as far as it is modelled here, creates neither candidates nor jobs.
LEMMA TouchesDuplicates ==
  ASSUME TypeOK, DuplicatesInv, NEW e \in Entries,
         \/ TouchUser(e) \/ TouchCandidate(e) \/ RemoveCandidate(e)
         \/ TouchJob(e) \/ TouchApplication(e)
  PROVE  DuplicatesInv'
<1>1. UNCHANGED <<outcome, phase, pending, looked, jobOf, overlap>>
  BY DEF TouchUser, TouchCandidate, RemoveCandidate, TouchJob, TouchApplication,
         Touch, progress, found
<1>2. \A d \in Entries : CandidatesOf(d)' \subseteq CandidatesOf(d)
  <2>1. CASE TouchCandidate(e)
    BY <2>1 DEF TouchCandidate, CandidatesOf, TypeOK
  <2>2. CASE RemoveCandidate(e)
    BY <2>2 DEF RemoveCandidate, CandidatesOf, TypeOK
  <2>3. CASE TouchUser(e) \/ TouchJob(e) \/ TouchApplication(e)
    BY <2>3 DEF TouchUser, TouchJob, TouchApplication, CandidatesOf
  <2>4. QED BY <2>1, <2>2, <2>3
<1>3. \A d \in Entries : LiveJobs(d)' \subseteq LiveJobs(d)
  <2>1. CASE TouchJob(e)
    BY <2>1 DEF TouchJob, LiveJobs, TypeOK
  <2>2. CASE ~TouchJob(e)
    BY <2>2 DEF TouchUser, TouchCandidate, RemoveCandidate, TouchApplication, LiveJobs
  <2>3. QED BY <2>1, <2>2
<1>4. \A q \in Runs : /\ OnItsWay(q)' => OnItsWay(q)
                      /\ outcome'[q] # "failed" => looked'[q] \subseteq pending'[q]
  BY <1>1 DEF OnItsWay, DuplicatesInv
<1>5. QED BY <1>1, <1>2, <1>3, <1>4, NothingDuplicated

-----------------------------------------------------------------------------
(* A completed run restores.                                                *)

\* A run's step writes what the seed says, and takes nothing away.
OnlySeeds ==
  \A e \in Entries :
    /\ user[e] = "seeded" => user'[e] = "seeded"
    /\ \A i \in Ids : candidates[e][i] = "seeded" => candidates'[e][i] = "seeded"
    /\ \A i \in Ids : jobs[e][i] = "seeded" => jobs'[e][i] = "seeded"
    /\ \A a \in Ids \X Ids :
         /\ applications[e][a] = "seeded" => applications'[e][a] = "seeded"
         /\ applications'[e][a] = "absent" => applications[e][a] = "absent"
    /\ \A i \in interviews : i \in interviews'

CourseStep(r) ==
  Start(r) \/ NextPhase(r) \/ Complete(r) \/ SiblingFails(r) \/ Exit(r)
QueryStep(r, e) ==
  \/ Fail(r, e)
  \/ UpsertUser(r, e) \/ UpsertCandidate(r, e)
  \/ FindJob(r, e) \/ WriteJob(r, e) \/ UpsertApplication(r, e)
  \/ FindInterview(r, e) \/ CreateInterview(r, e)

\* A run takes nothing away between its queries.
LEMMA CourseSeeds ==
  ASSUME NEW r \in Runs, CourseStep(r)
  PROVE  OnlySeeds
BY DEF CourseStep, Start, NextPhase, Complete, SiblingFails, Exit, OnlySeeds, tables

\* Nor does a query: it leaves rows alone or puts them in the seed's state.
LEMMA QueriesSeed ==
  ASSUME TypeOK, NEW r \in Runs, NEW e \in Entries, QueryStep(r, e)
  PROVE  OnlySeeds
<1>1. CASE Fail(r, e) \/ FindJob(r, e) \/ FindInterview(r, e)
  BY <1>1 DEF Fail, FindJob, FindInterview, OnlySeeds, tables
<1>2. CASE UpsertUser(r, e)
  BY <1>2 DEF UpsertUser, OnlySeeds, TypeOK
<1>3. CASE UpsertCandidate(r, e)
  <2>1. PICK c : candidates' = [candidates EXCEPT ![e][c] = "seeded"]
    BY <1>3 DEF UpsertCandidate
  <2>2. QED BY <1>3, <2>1 DEF UpsertCandidate, OnlySeeds, TypeOK
<1>4. CASE WriteJob(r, e)
  <2>1. PICK j : jobs' = [jobs EXCEPT ![e][j] = "seeded"]
    BY <1>4 DEF WriteJob
  <2>2. QED BY <1>4, <2>1 DEF WriteJob, OnlySeeds, TypeOK
<1>5. CASE UpsertApplication(r, e)
  <2>1. /\ UNCHANGED <<user, candidates, jobs, interviews>>
        /\ \/ applications' = applications
           \/ \E a : applications' = [applications EXCEPT ![e][a] = "seeded"]
    BY <1>5 DEF UpsertApplication, Reseed, tables
  <2>2. ASSUME NEW a, applications' = [applications EXCEPT ![e][a] = "seeded"]
        PROVE  \A d \in Entries : \A b \in Ids \X Ids :
                 /\ applications[d][b] = "seeded" => applications'[d][b] = "seeded"
                 /\ applications'[d][b] = "absent" => applications[d][b] = "absent"
    BY <2>2 DEF TypeOK
  <2>3. QED BY <2>1, <2>2 DEF OnlySeeds
<1>6. CASE CreateInterview(r, e)
  BY <1>6 DEF CreateInterview, OnlySeeds
<1>7. QED BY <1>1, <1>2, <1>3, <1>4, <1>5, <1>6 DEF QueryStep

\* What a run wrote stays in place, or touched, while it keeps the ids it found.
LEMMA WrittenStays ==
  ASSUME NEW r \in Runs, NEW e \in Entries, NEW k \in Kinds, KnowsIds(r),
         OnlySeeds, Written(r, k, e),
         InPlace(r, k, e) \/ <<k, e>> \in touched[r],
         <<k, e>> \in touched[r] => <<k, e>> \in touched'[r],
         k \in {"job", "application"} => jobOf'[r][e] = jobOf[r][e],
         k \in {"candidate", "application"} => candidateOf'[r][e] = candidateOf[r][e],
         k = "interview" => now'[r] = now[r]
  PROVE  InPlace(r, k, e)' \/ <<k, e>> \in touched'[r]
<1>1. SUFFICES ASSUME InPlace(r, k, e) PROVE InPlace(r, k, e)'
  OBVIOUS
<1>2. /\ k \in {"candidate", "application"} => candidateOf[r][e] \in Ids
      /\ k \in {"job", "application"} => jobOf[r][e] \in Ids
  BY DEF KnowsIds, Written, After, PhaseOf
<1>3. CASE k = "user" BY <1>1, <1>3 DEF InPlace, OnlySeeds
<1>4. CASE k = "candidate" BY <1>1, <1>2, <1>4 DEF InPlace, OnlySeeds
<1>5. CASE k = "job" BY <1>1, <1>2, <1>5 DEF InPlace, OnlySeeds
<1>6. CASE k = "application"
  <2>1. <<jobOf[r][e], candidateOf[r][e]>> \in Ids \X Ids
    BY <1>2, <1>6
  <2>2. QED BY <1>1, <1>6, <2>1 DEF InPlace, OnlySeeds
<1>7. CASE k = "interview" BY <1>1, <1>7 DEF InPlace, OnlySeeds
<1>8. QED BY <1>3, <1>4, <1>5, <1>6, <1>7 DEF Kinds

RunInv(r) == KnowsIds(r) /\ \A e \in Entries : Restores(r, e)

\* The kinds and the phases, in order.
LEMMA PhaseOrder ==
  ASSUME NEW k \in Kinds
  PROVE  /\ PhaseOf(k) \in Phases /\ PhaseOf(k) \notin After(k)
         /\ \A l \in Kinds : l # k /\ PhaseOf(k) \notin After(l)
                             => PhaseOf(k) # PhaseOf(l) /\ PhaseOf(l) \in After(k)
BY DEF Kinds, Phases, PhaseOf, After

\* A step of another run.
LEMMA OtherRunKeeps ==
  ASSUME NEW r \in Runs, RunInv(r), OnlySeeds,
         outcome'[r] = outcome[r], phase'[r] = phase[r], pending'[r] = pending[r],
         jobOf'[r] = jobOf[r], candidateOf'[r] = candidateOf[r],
         link'[r] = link[r], now'[r] = now[r], touched'[r] = touched[r]
  PROVE  RunInv(r)'
<1>1. \A k, e : Written(r, k, e)' <=> Written(r, k, e)
  BY DEF Written, Succeeds
<1>2. KnowsIds(r)'
  BY <1>1 DEF RunInv, KnowsIds
<1>3. ASSUME NEW e \in Entries PROVE Restores(r, e)'
  <2>1. \A k \in Kinds : Written(r, k, e) => InPlace(r, k, e)' \/ <<k, e>> \in touched'[r]
    BY WrittenStays DEF RunInv, Restores
  <2>2. /\ phase[r] = "applications" /\ Written(r, "application", e)
        /\ applications'[e][<<jobOf[r][e], candidateOf[r][e]>>] = "absent"
        => <<"interview", e>> \in touched[r]
    <3>1. SUFFICES ASSUME phase[r] = "applications", Written(r, "application", e),
                          applications'[e][<<jobOf[r][e], candidateOf[r][e]>>] = "absent"
                   PROVE  <<"interview", e>> \in touched[r]
      OBVIOUS
    <3>2. jobOf[r][e] \in Ids /\ candidateOf[r][e] \in Ids
      BY <3>1 DEF RunInv, KnowsIds, After
    <3>3. applications[e][<<jobOf[r][e], candidateOf[r][e]>>] = "absent"
      BY <3>1, <3>2 DEF OnlySeeds
    <3>4. QED BY <3>1, <3>3 DEF RunInv, Restores
  <2>3. Succeeds(r)' <=> Succeeds(r)
    BY DEF Succeeds
  <2>4. QED BY <1>1, <2>1, <2>2, <2>3 DEF RunInv, Restores
<1>4. QED BY <1>2, <1>3 DEF RunInv

\* A run that failed claims nothing.
LEMMA FailedKeeps ==
  ASSUME NEW r \in Runs, RunInv(r), outcome'[r] = "failed", phase'[r] = phase[r],
         jobOf'[r] = jobOf[r], candidateOf'[r] = candidateOf[r]
  PROVE  RunInv(r)'
BY DEF RunInv, KnowsIds, Restores, Written, Succeeds

\* A query of r that wrote the row of k and e, whether or not its answer came,
\* or found that there is no interview to create.
LEMMA WriteKeeps ==
  ASSUME NEW r \in Runs, NEW k \in Kinds, NEW e \in Entries, RunInv(r), OnlySeeds,
         phase[r] = PhaseOf(k), e \in pending[r], phase'[r] = phase[r],
         pending'[r] = pending[r] \ {e},
         outcome'[r] \in {outcome[r], "failed"},
         touched[r] \ {<<k, e>>} \subseteq touched'[r],
         link'[r] = link[r], now'[r] = now[r],
         InPlace(r, k, e)' \/ (k = "interview" /\ <<k, e>> \in touched'[r]),
         \A d \in Entries :
           /\ (k = "job" /\ d = e) \/ jobOf'[r][d] = jobOf[r][d]
           /\ (k = "candidate" /\ d = e) \/ candidateOf'[r][d] = candidateOf[r][d],
         k = "candidate" => candidateOf'[r][e] \in Ids,
         k = "job" => jobOf'[r][e] \in Ids,
         k = "interview" /\ link[r][e] = <<NoId, NoId>> => <<k, e>> \in touched'[r]
  PROVE  RunInv(r)'
<1>1. outcome[r] \notin {"idle", "completed"}
  BY DEF RunInv, KnowsIds
<1>2. ASSUME NEW l \in Kinds, NEW d \in Entries, Written(r, l, d)'
      PROVE  <<l, d>> = <<k, e>> \/ Written(r, l, d)
  <2>1. CASE l = k
    BY <1>2, <2>1, PhaseOrder DEF Written, Succeeds
  <2>2. CASE l # k
    BY <1>2, <2>2 DEF Written, Succeeds, Kinds, PhaseOf, After
  <2>3. QED BY <2>1, <2>2
<1>3. ~Written(r, k, e)
  BY PhaseOrder DEF Written
<1>4. KnowsIds(r)'
  <2>1. ASSUME NEW d \in Entries,
               Written(r, "candidate", d)' \/ phase[r] \in After("candidate")
        PROVE  candidateOf'[r][d] \in Ids
    <3>1. CASE k = "candidate" /\ d = e BY <3>1
    <3>2. CASE ~(k = "candidate" /\ d = e)
      <4>1. Written(r, "candidate", d) \/ phase[r] \in After("candidate")
        BY <1>2, <2>1, <3>2 DEF Kinds
      <4>2. QED BY <3>2, <4>1 DEF RunInv, KnowsIds
    <3>3. QED BY <3>1, <3>2
  <2>2. ASSUME NEW d \in Entries, Written(r, "job", d)' \/ phase[r] \in After("job")
        PROVE  jobOf'[r][d] \in Ids
    <3>1. CASE k = "job" /\ d = e BY <3>1
    <3>2. CASE ~(k = "job" /\ d = e)
      <4>1. Written(r, "job", d) \/ phase[r] \in After("job")
        BY <1>2, <2>2, <3>2 DEF Kinds
      <4>2. QED BY <3>2, <4>1 DEF RunInv, KnowsIds
    <3>3. QED BY <3>1, <3>2
  <2>3. QED BY <1>1, <2>1, <2>2 DEF KnowsIds
<1>5. ASSUME NEW d \in Entries PROVE Restores(r, d)'
  <2>1. ASSUME NEW l \in Kinds, Written(r, l, d)'
        PROVE  InPlace(r, l, d)' \/ <<l, d>> \in touched'[r]
    <3>1. CASE <<l, d>> = <<k, e>> BY <3>1
    <3>2. CASE <<l, d>> # <<k, e>>
      <4>1. Written(r, l, d)
        BY <1>2, <2>1, <3>2
      <4>2. InPlace(r, l, d) \/ <<l, d>> \in touched[r]
        BY <4>1 DEF RunInv, Restores
      <4>3. /\ l \in {"job", "application"} => jobOf'[r][d] = jobOf[r][d]
            /\ l \in {"candidate", "application"} => candidateOf'[r][d] = candidateOf[r][d]
        <5>1. l = "application" => k \notin {"job", "candidate"}
          BY <4>1 DEF Written, PhaseOf, After
        <5>2. QED BY <3>2, <5>1
      <4>4. QED BY <3>2, <4>1, <4>2, <4>3, WrittenStays DEF RunInv
    <3>3. QED BY <3>1, <3>2
  <2>2. /\ phase'[r] = "applications" /\ Written(r, "application", d)'
        /\ applications'[d][<<jobOf'[r][d], candidateOf'[r][d]>>] = "absent"
        => <<"interview", d>> \in touched'[r]
    <3>1. SUFFICES ASSUME phase[r] = "applications", Written(r, "application", d)',
                 applications'[d][<<jobOf'[r][d], candidateOf'[r][d]>>] = "absent"
                   PROVE  <<"interview", d>> \in touched'[r]
      OBVIOUS
    <3>2. k = "application"
      BY <3>1 DEF PhaseOf, Kinds
    <3>3. d # e
      BY <3>1, <3>2 DEF InPlace
    <3>4. Written(r, "application", d)
      BY <1>2, <3>1, <3>3 DEF Kinds
    <3>5. jobOf[r][d] \in Ids /\ candidateOf[r][d] \in Ids
      BY <3>1 DEF RunInv, KnowsIds, After
    <3>6. applications[d][<<jobOf[r][d], candidateOf[r][d]>>] = "absent"
      BY <3>1, <3>2, <3>5 DEF OnlySeeds
    <3>7. QED BY <3>1, <3>2, <3>4, <3>6 DEF RunInv, Restores
  <2>3. Succeeds(r)' /\ phase'[r] = "interviews" /\ link'[r][d] = <<NoId, NoId>>
        => <<"interview", d>> \in touched'[r]
    <3>1. SUFFICES ASSUME Succeeds(r)', phase[r] = "interviews",
                          link[r][d] = <<NoId, NoId>>
                   PROVE  <<"interview", d>> \in touched'[r]
      OBVIOUS
    <3>2. Succeeds(r) /\ k = "interview"
      BY <3>1 DEF Succeeds, PhaseOf, Kinds
    <3>3. QED BY <3>1, <3>2 DEF RunInv, Restores
  <2>4. QED BY <2>1, <2>2, <2>3 DEF Restores
<1>6. QED BY <1>4, <1>5 DEF RunInv

\* A step of a run changes no other run's progress or ids.
LEMMA StepOfAnother ==
  ASSUME TypeOK, NEW q \in Runs, NEW r \in Runs, q # r,
         CourseStep(q) \/ \E e \in Entries : QueryStep(q, e)
  PROVE  /\ outcome'[r] = outcome[r] /\ phase'[r] = phase[r]
         /\ pending'[r] = pending[r]
         /\ jobOf'[r] = jobOf[r] /\ candidateOf'[r] = candidateOf[r]
         /\ link'[r] = link[r] /\ now'[r] = now[r] /\ touched'[r] = touched[r]
<1>1. CASE Start(q) \/ Complete(q) \/ SiblingFails(q) \/ Exit(q)
  BY <1>1 DEF Start, Complete, SiblingFails, Exit, TypeOK, found, others
<1>2. CASE NextPhase(q)
  <2>1. /\ phase'[r] = phase[r] /\ pending'[r] = pending[r]
        /\ UNCHANGED <<outcome, jobOf, candidateOf, touched>>
    BY <1>2 DEF NextPhase, TypeOK, others
  <2>2. link'[r] = link[r] /\ now'[r] = now[r]
    BY <1>2 DEF NextPhase, TypeOK
  <2>3. QED BY <2>1, <2>2
<1>3. ASSUME NEW e \in Entries, QueryStep(q, e)
      PROVE  /\ outcome'[r] = outcome[r] /\ phase'[r] = phase[r]
             /\ pending'[r] = pending[r]
             /\ jobOf'[r] = jobOf[r] /\ candidateOf'[r] = candidateOf[r]
             /\ link'[r] = link[r] /\ now'[r] = now[r] /\ touched'[r] = touched[r]
  <2>1. outcome'[r] = outcome[r] /\ phase'[r] = phase[r] /\ pending'[r] = pending[r]
    <3>1. CASE FindJob(q, e) \/ FindInterview(q, e)
      BY <3>1 DEF FindJob, FindInterview, TypeOK
    <3>2. CASE ~(FindJob(q, e) \/ FindInterview(q, e))
      <4>1. Settle(q, e) \/ Reject(q, e)
        BY <1>3, <3>2 DEF QueryStep, Fail, UpsertUser, UpsertCandidate, WriteJob,
             UpsertApplication, CreateInterview
      <4>2. QED BY <4>1 DEF Settle, Reject, TypeOK
    <3>3. QED BY <3>1, <3>2
  <2>2. /\ link' = link /\ now' = now
        /\ \/ candidateOf' = candidateOf
           \/ \E c : candidateOf' = [candidateOf EXCEPT ![q][e] = c]
        /\ jobOf' = jobOf \/ \E j : jobOf' = [jobOf EXCEPT ![q][e] = j]
    BY <1>3 DEF QueryStep, Fail, UpsertUser, UpsertCandidate, FindJob, WriteJob,
         UpsertApplication, FindInterview, CreateInterview, found
  <2>3. touched' = touched \/ \E k \in Kinds : Wrote(q, k, e)
    BY <1>3 DEF QueryStep, Fail, UpsertUser, UpsertCandidate, FindJob, WriteJob,
         UpsertApplication, FindInterview, CreateInterview, others, Kinds
  <2>4. touched'[r] = touched[r]
    BY <2>3 DEF Wrote, TypeOK
  <2>5. QED BY <2>1, <2>2, <2>4 DEF TypeOK
<1>4. QED BY <1>1, <1>2, <1>3 DEF CourseStep

\* A run that goes on to the next phase has written this one's rows.
LEMMA NextPhaseKeeps ==
  ASSUME TypeOK, NEW r \in Runs, RunInv(r), NextPhase(r)
  PROVE  RunInv(r)'
<1>1. /\ outcome' = outcome /\ outcome[r] = "running" /\ pending[r] = {}
      /\ pending'[r] = Entries
      /\ UNCHANGED <<jobOf, candidateOf, touched, user, candidates, jobs,
                     applications, interviews>>
      /\ phase[r] # "applications" => link' = link /\ now' = now
  BY DEF NextPhase, TypeOK, tables, others
<1>2. /\ phase[r] = "users" => phase'[r] = "candidates"
      /\ phase[r] = "candidates" => phase'[r] = "jobs"
      /\ phase[r] = "jobs" => phase'[r] = "applications"
      /\ phase[r] = "applications" => phase'[r] = "interviews"
      /\ phase[r] # "interviews" /\ phase[r] \in Phases
  BY DEF NextPhase, TypeOK
<1>3. \A k \in Kinds : phase'[r] \in After(k) => phase[r] \in After(k) \cup {PhaseOf(k)}
  BY <1>2 DEF Kinds, After, PhaseOf, Phases
<1>4. \A k \in Kinds, e \in Entries : Written(r, k, e)' => Written(r, k, e)
  BY <1>1, <1>3 DEF Written, Succeeds
<1>5. \A k \in Kinds : phase'[r] \in After(k) => \A e \in Entries : Written(r, k, e)
  BY <1>1, <1>3 DEF Written, Succeeds
<1>6. KnowsIds(r)'
  <2>1. "candidate" \in Kinds /\ "job" \in Kinds
    BY DEF Kinds
  <2>2. \A e \in Entries :
          /\ Written(r, "candidate", e)' \/ phase'[r] \in After("candidate")
               => candidateOf'[r][e] \in Ids
          /\ Written(r, "job", e)' \/ phase'[r] \in After("job") => jobOf'[r][e] \in Ids
    BY <1>1, <1>4, <1>5, <2>1 DEF RunInv, KnowsIds
  <2>3. QED BY <1>1, <2>2 DEF KnowsIds
<1>7. ASSUME NEW e \in Entries PROVE Restores(r, e)'
  <2>1. ASSUME NEW k \in Kinds, Written(r, k, e)'
        PROVE  InPlace(r, k, e)' \/ <<k, e>> \in touched'[r]
    <3>1. Written(r, k, e)
      BY <1>4, <2>1
    <3>2. k = "interview" => phase[r] = "interviews"
      BY <3>1 DEF Written, After, PhaseOf
    <3>3. InPlace(r, k, e) \/ <<k, e>> \in touched[r]
      BY <3>1 DEF RunInv, Restores
    <3>4. k # "interview"
      BY <1>2, <3>2
    <3>5. QED BY <1>1, <2>1, <3>3, <3>4 DEF InPlace, Kinds
  <2>2. ~(phase'[r] = "applications" /\ Written(r, "application", e)')
    BY <1>1 DEF Written, After
  <2>3. ASSUME phase'[r] = "interviews", link'[r][e] = <<NoId, NoId>>
        PROVE  <<"interview", e>> \in touched'[r]
    <3>1. phase[r] = "applications"
      BY <1>2, <2>3 DEF Phases
    <3>2. PICK f \in [Entries -> (Ids \X Ids) \cup {<<NoId, NoId>>}] :
            /\ \A d \in Entries : IF ApplicationsOf(d) = {}
                                  THEN f[d] = <<NoId, NoId>>
                                  ELSE f[d] \in ApplicationsOf(d)
            /\ link' = [link EXCEPT ![r] = f]
      BY <3>1 DEF NextPhase
    <3>3. f[e] = <<NoId, NoId>>
      BY <2>3, <3>2 DEF TypeOK
    <3>4. <<NoId, NoId>> \notin Ids \X Ids
      BY SeedAssumption DEF Ids
    <3>5. ApplicationsOf(e) = {}
      BY <3>2, <3>3, <3>4 DEF ApplicationsOf
    <3>6. Written(r, "application", e)
      BY <1>1, <3>1 DEF Written, Succeeds, PhaseOf
    <3>7. <<jobOf[r][e], candidateOf[r][e]>> \in Ids \X Ids
      BY <3>1 DEF RunInv, KnowsIds, After
    <3>8. applications[e][<<jobOf[r][e], candidateOf[r][e]>>] = "absent"
      BY <3>5, <3>7 DEF ApplicationsOf
    <3>9. QED BY <1>1, <3>1, <3>6, <3>8 DEF RunInv, Restores
  <2>4. QED BY <2>1, <2>2, <2>3 DEF Restores
<1>8. QED BY <1>6, <1>7 DEF RunInv

\* What a run knows when it starts, goes on to a phase, ends or fails.
LEMMA CourseKeeps ==
  ASSUME TypeOK, NEW r \in Runs, RunInv(r), CourseStep(r)
  PROVE  RunInv(r)'
<1>1. CASE Start(r)
  <2>1. /\ phase'[r] = "users" /\ UNCHANGED <<jobOf, candidateOf>>
        /\ \/ outcome'[r] = "failed"
           \/ outcome'[r] = "running" /\ pending'[r] = Entries
    BY <1>1 DEF Start, found, TypeOK, RunInv, KnowsIds
  <2>2. CASE outcome'[r] = "failed"
    BY <2>1, <2>2 DEF RunInv, KnowsIds, Restores, Written, Succeeds, After
  <2>3. CASE outcome'[r] = "running" /\ pending'[r] = Entries
    <3>1. \A k \in Kinds, e \in Entries : ~Written(r, k, e)'
      BY <2>1, <2>3 DEF Written, After, PhaseOf, Kinds
    <3>2. "candidate" \in Kinds /\ "job" \in Kinds
      BY DEF Kinds
    <3>3. "users" \notin After("candidate") \cup After("job")
      BY DEF After
    <3>4. KnowsIds(r)'
      BY <2>1, <2>3, <3>1, <3>2, <3>3 DEF KnowsIds
    <3>5. \A e \in Entries : Restores(r, e)'
      BY <2>1, <3>1 DEF Restores
    <3>6. QED BY <3>4, <3>5 DEF RunInv
  <2>4. QED BY <2>1, <2>2, <2>3
<1>2. CASE NextPhase(r) BY <1>2, NextPhaseKeeps
<1>3. CASE Complete(r)
  <2>1. /\ UNCHANGED <<phase, pending, jobOf, candidateOf, link, now, touched, user,
                       candidates, jobs, applications, interviews>>
        /\ phase[r] = "interviews" /\ pending[r] = {}
        /\ Succeeds(r) /\ outcome'[r] = "completed"
    BY <1>3 DEF Complete, found, tables, others, TypeOK, Succeeds
  <2>2. \A k, e : Written(r, k, e)' <=> Written(r, k, e)
    BY <2>1 DEF Written, Succeeds
  <2>3. KnowsIds(r)'
    BY <2>1, <2>2 DEF RunInv, KnowsIds
  <2>4. \A k, e : InPlace(r, k, e)' <=> InPlace(r, k, e)
    BY <2>1 DEF InPlace
  <2>5. \A e \in Entries : Restores(r, e)'
    BY <2>1, <2>2, <2>4 DEF RunInv, Restores, Succeeds
  <2>6. QED BY <2>3, <2>5 DEF RunInv
<1>4. CASE SiblingFails(r) \/ Exit(r)
  BY <1>4, FailedKeeps DEF SiblingFails, Exit, found, TypeOK
<1>5. QED BY <1>1, <1>2, <1>3, <1>4 DEF CourseStep

\* A query that keeps r's ids and whose row was not written yet: a job was
\* looked for.
LEMMA FindJobKeeps ==
  ASSUME TypeOK, NEW r \in Runs, NEW e \in Entries, RunInv(r), FindJob(r, e)
  PROVE  RunInv(r)'
<1>1. /\ phase[r] = "jobs" /\ e \in pending[r]
      /\ UNCHANGED <<outcome, phase, pending, candidateOf, link, now, touched, user,
                     candidates, jobs, applications, interviews>>
      /\ \A d \in Entries \ {e} : jobOf'[r][d] = jobOf[r][d]
  BY DEF FindJob, tables, others, TypeOK
<1>2. \A k, d : Written(r, k, d)' <=> Written(r, k, d)
  BY <1>1 DEF Written, Succeeds
<1>3. KnowsIds(r)'
  <2>1. \A d \in Entries : Written(r, "job", d) \/ phase[r] \in After("job") => d # e
    BY <1>1 DEF Written, After
  <2>2. QED BY <1>1, <1>2, <2>1 DEF RunInv, KnowsIds
<1>4. ASSUME NEW d \in Entries PROVE Restores(r, d)'
  <2>1. ASSUME NEW k \in Kinds, Written(r, k, d)
        PROVE  InPlace(r, k, d)' \/ <<k, d>> \in touched'[r]
    <3>1. k # "application" /\ (k = "job" => d # e)
      BY <1>1, <2>1 DEF Written, After, PhaseOf
    <3>2. InPlace(r, k, d) => InPlace(r, k, d)'
      BY <1>1, <3>1 DEF InPlace, Kinds
    <3>3. QED BY <1>1, <2>1, <3>2 DEF RunInv, Restores
  <2>2. QED BY <1>1, <1>2, <2>1 DEF Restores
<1>5. QED BY <1>3, <1>4 DEF RunInv

\* The shared part of the queries that settle their promise and write.
LEMMA SettlesAndWrites ==
  ASSUME TypeOK, NEW r \in Runs, NEW k, NEW e \in Entries,
         Settle(r, e), Wrote(r, k, e)
  PROVE  /\ phase'[r] = phase[r] /\ pending'[r] = pending[r] \ {e}
         /\ outcome'[r] \in {outcome[r], "failed"}
         /\ touched[r] \ {<<k, e>>} \subseteq touched'[r]
BY DEF Settle, Wrote, TypeOK

\* What a run knows after each of its queries.
LEMMA QueryKeeps ==
  ASSUME TypeOK, NEW r \in Runs, NEW e \in Entries, RunInv(r), OnlySeeds,
         QueryStep(r, e)
  PROVE  RunInv(r)'
<1>1. ASSUME Reject(r, e), UNCHANGED found PROVE RunInv(r)'
  BY <1>1, FailedKeeps DEF Reject, found, TypeOK
<1>2. CASE Fail(r, e)
  BY <1>1, <1>2 DEF Fail
<1>3. CASE UpsertUser(r, e)
  <2>1. /\ phase[r] = PhaseOf("user") /\ e \in pending[r]
        /\ Settle(r, e) /\ Wrote(r, "user", e)
        /\ UNCHANGED <<jobOf, candidateOf, link, now>>
    BY <1>3 DEF UpsertUser, PhaseOf, found
  <2>2. InPlace(r, "user", e)'
    BY <1>3 DEF UpsertUser, InPlace, TypeOK
  <2>3. "user" \in Kinds
    BY DEF Kinds
  <2>4. QED BY <2>1, <2>2, <2>3, SettlesAndWrites, WriteKeeps
<1>4. CASE UpsertCandidate(r, e)
  <2>1. /\ phase[r] = PhaseOf("candidate") /\ e \in pending[r]
        /\ Settle(r, e) /\ Wrote(r, "candidate", e)
        /\ UNCHANGED <<jobOf, link, now>>
    BY <1>4 DEF UpsertCandidate, PhaseOf
  <2>2. PICK c \in Ids : /\ candidates' = [candidates EXCEPT ![e][c] = "seeded"]
                         /\ candidateOf' = [candidateOf EXCEPT ![r][e] = c]
    <3>1. CASE CandidatesOf(e) = {}
      BY <1>4, <3>1 DEF UpsertCandidate, Ids
    <3>2. CASE CandidatesOf(e) # {}
      <4>1. PICK c : c = CHOOSE i \in CandidatesOf(e) : TRUE
        OBVIOUS
      <4>2. c \in Ids
        BY <3>2, <4>1 DEF CandidatesOf
      <4>3. /\ candidates' = [candidates EXCEPT ![e][c] = "seeded"]
            /\ candidateOf' = [candidateOf EXCEPT ![r][e] = c]
        BY <1>4, <3>2, <4>1, Zenon DEF UpsertCandidate
      <4>4. QED BY <4>2, <4>3
    <3>3. QED BY <3>1, <3>2
  <2>3. /\ candidateOf'[r][e] = c
        /\ \A d \in Entries \ {e} : candidateOf'[r][d] = candidateOf[r][d]
        /\ candidates'[e][c] = "seeded"
    BY <2>2 DEF TypeOK
  <2>4. InPlace(r, "candidate", e)'
    BY <2>3 DEF InPlace
  <2>5. "candidate" \in Kinds
    BY DEF Kinds
  <2>6. \A d \in Entries : /\ jobOf'[r][d] = jobOf[r][d]
                           /\ d = e \/ candidateOf'[r][d] = candidateOf[r][d]
    BY <2>1, <2>3
  <2>7. candidateOf'[r][e] \in Ids /\ link'[r] = link[r] /\ now'[r] = now[r]
    BY <2>1, <2>3
  <2>8. /\ phase'[r] = phase[r] /\ pending'[r] = pending[r] \ {e}
        /\ outcome'[r] \in {outcome[r], "failed"}
        /\ touched[r] \ {<<"candidate", e>>} \subseteq touched'[r]
    BY <2>1, SettlesAndWrites
  <2>9. QED BY <2>1, <2>4, <2>5, <2>6, <2>7, <2>8, WriteKeeps
<1>5. CASE FindJob(r, e) BY <1>5, FindJobKeeps
<1>6. CASE WriteJob(r, e)
  <2>1. /\ phase[r] = PhaseOf("job") /\ e \in pending[r]
        /\ Settle(r, e) /\ Wrote(r, "job", e)
        /\ UNCHANGED <<candidateOf, link, now>>
    BY <1>6 DEF WriteJob, PhaseOf
  <2>2. PICK j \in Ids : /\ jobs' = [jobs EXCEPT ![e][j] = "seeded"]
                         /\ jobOf' = [jobOf EXCEPT ![r][e] = j]
    <3>1. jobOf[r][e] \in IdOrNone
      BY DEF TypeOK
    <3>2. QED BY <1>6, <3>1 DEF WriteJob, IdOrNone, Ids
  <2>3. /\ jobOf'[r][e] = j
        /\ \A d \in Entries \ {e} : jobOf'[r][d] = jobOf[r][d]
        /\ jobs'[e][j] = "seeded"
    BY <2>2 DEF TypeOK
  <2>4. InPlace(r, "job", e)'
    BY <2>3 DEF InPlace
  <2>5. "job" \in Kinds
    BY DEF Kinds
  <2>6. \A d \in Entries : /\ d = e \/ jobOf'[r][d] = jobOf[r][d]
                           /\ candidateOf'[r][d] = candidateOf[r][d]
    BY <2>1, <2>3
  <2>7. jobOf'[r][e] \in Ids /\ link'[r] = link[r] /\ now'[r] = now[r]
    BY <2>1, <2>3
  <2>8. /\ phase'[r] = phase[r] /\ pending'[r] = pending[r] \ {e}
        /\ outcome'[r] \in {outcome[r], "failed"}
        /\ touched[r] \ {<<"job", e>>} \subseteq touched'[r]
    BY <2>1, SettlesAndWrites
  <2>9. QED BY <2>1, <2>4, <2>5, <2>6, <2>7, <2>8, WriteKeeps
<1>7. CASE UpsertApplication(r, e)
  <2>1. CASE candidates[e][candidateOf[r][e]] = "absent"
    BY <1>1, <1>7, <2>1 DEF UpsertApplication
  <2>2. CASE candidates[e][candidateOf[r][e]] # "absent"
    <3>1. /\ phase[r] = PhaseOf("application") /\ e \in pending[r]
          /\ Settle(r, e) /\ Wrote(r, "application", e)
          /\ UNCHANGED <<jobOf, candidateOf, link, now>>
      BY <1>7, <2>2 DEF UpsertApplication, PhaseOf, found
    <3>2. jobOf[r][e] \in Ids /\ candidateOf[r][e] \in Ids
      BY <1>7 DEF UpsertApplication, RunInv, KnowsIds, After
    <3>3. PICK a \in Ids \X Ids : a = <<jobOf[r][e], candidateOf[r][e]>>
      BY <3>2
    <3>4. applications' = [applications EXCEPT ![e][a] = "seeded"]
      BY <1>7, <2>2, <3>3 DEF UpsertApplication, Reseed
    <3>5. applications'[e][a] = "seeded"
      BY <3>4 DEF TypeOK
    <3>6. InPlace(r, "application", e)'
      BY <3>1, <3>3, <3>5 DEF InPlace
    <3>7. "application" \in Kinds
      BY DEF Kinds
    <3>8. QED BY <3>1, <3>6, <3>7, SettlesAndWrites, WriteKeeps
  <2>3. QED BY <2>1, <2>2
<1>8. CASE FindInterview(r, e)
  <2>1. /\ phase[r] = PhaseOf("interview") /\ e \in pending[r]
        /\ UNCHANGED <<outcome, phase, jobOf, candidateOf, link, now, touched,
                       interviews>>
    BY <1>8 DEF FindInterview, PhaseOf, found, tables, others
  <2>2. CASE pending' = pending
    BY <2>1, <2>2, OtherRunKeeps
  <2>3. CASE pending' # pending
    <3>1. /\ pending' = [pending EXCEPT ![r] = @ \ {e}]
          /\ \/ link[r][e] = <<NoId, NoId>>
             \/ \E i \in interviews : i.entry = e /\ i.at = now[r]
          /\ Succeeds(r)
      BY <1>8, <2>3 DEF FindInterview, Succeeds
    <3>2. link[r][e] = <<NoId, NoId>> => <<"interview", e>> \in touched'[r]
      BY <2>1, <3>1 DEF RunInv, Restores, PhaseOf
    <3>3. InPlace(r, "interview", e)' \/ <<"interview", e>> \in touched'[r]
      BY <2>1, <3>1, <3>2 DEF InPlace
    <3>4. pending'[r] = pending[r] \ {e}
      BY <3>1 DEF TypeOK
    <3>5. "interview" \in Kinds
      BY DEF Kinds
    <3>6. QED BY <2>1, <3>2, <3>3, <3>4, <3>5, WriteKeeps
  <2>4. QED BY <2>2, <2>3
<1>9. CASE CreateInterview(r, e)
  <2>1. CASE link[r][e] \notin ApplicationsOf(e)
    BY <1>1, <1>9, <2>1 DEF CreateInterview
  <2>2. CASE link[r][e] \in ApplicationsOf(e)
    <3>1. /\ phase[r] = PhaseOf("interview") /\ e \in pending[r]
          /\ Settle(r, e) /\ Wrote(r, "interview", e)
          /\ UNCHANGED <<jobOf, candidateOf, link, now>>
      BY <1>9, <2>2 DEF CreateInterview, PhaseOf, found
    <3>2. InPlace(r, "interview", e)'
      <4>1. PICK i : i = [entry |-> e, application |-> link[r][e],
                          at |-> now[r], by |-> r]
        OBVIOUS
      <4>2. interviews' = interviews \cup {i}
        BY <1>9, <2>2, <4>1 DEF CreateInterview
      <4>3. i \in interviews' /\ i.entry = e /\ i.at = now'[r]
        BY <3>1, <4>1, <4>2
      <4>4. QED BY <4>3 DEF InPlace
    <3>3. link[r][e] # <<NoId, NoId>>
      BY <2>2, SeedAssumption DEF ApplicationsOf, Ids
    <3>4. "interview" \in Kinds
      BY DEF Kinds
    <3>5. QED BY <3>1, <3>2, <3>3, <3>4, SettlesAndWrites, WriteKeeps
  <2>3. QED BY <2>1, <2>2
<1>10. QED BY <1>2, <1>3, <1>4, <1>5, <1>6, <1>7, <1>8, <1>9 DEF QueryStep

\* What others write is touched.
LEMMA TouchKeeps ==
  ASSUME TypeOK, NEW r \in Runs, RunInv(r), NEW e \in Entries,
         \/ TouchUser(e) \/ TouchCandidate(e) \/ RemoveCandidate(e)
         \/ TouchJob(e) \/ TouchApplication(e)
  PROVE  RunInv(r)'
<1>1. /\ UNCHANGED <<outcome, phase, pending, jobOf, candidateOf, link, now>>
      /\ touched[r] \subseteq touched'[r]
  BY DEF TouchUser, TouchCandidate, RemoveCandidate, TouchJob, TouchApplication,
         Touch, progress, found
<1>2. \A k, d : Written(r, k, d)' <=> Written(r, k, d)
  BY <1>1 DEF Written, Succeeds
<1>3. KnowsIds(r)'
  BY <1>1, <1>2 DEF RunInv, KnowsIds
<1>4. ASSUME NEW k \in Kinds, NEW d \in Entries, Written(r, k, d), InPlace(r, k, d)
      PROVE  InPlace(r, k, d)' \/ <<k, d>> \in touched'[r]
  <2>1. CASE TouchUser(e)
    <3>1. /\ <<"user", e>> \in touched'[r]
          /\ UNCHANGED <<candidates, jobs, applications, interviews>>
          /\ d # e => user'[d] = user[d]
      BY <2>1 DEF TouchUser, Touch, TypeOK
    <3>2. QED BY <1>1, <1>4, <3>1 DEF InPlace, Kinds
  <2>2. CASE TouchCandidate(e)
    <3>1. /\ <<"candidate", e>> \in touched'[r]
          /\ UNCHANGED <<user, jobs, applications, interviews>>
          /\ d # e => candidates'[d] = candidates[d]
      BY <2>2 DEF TouchCandidate, Touch, TypeOK
    <3>2. QED BY <1>1, <1>4, <3>1 DEF InPlace, Kinds
  <2>3. CASE RemoveCandidate(e)
    <3>1. /\ {<<"candidate", e>>, <<"application", e>>, <<"interview", e>>}
               \subseteq touched'[r]
          /\ UNCHANGED <<user, jobs>>
          /\ d # e => candidates'[d] = candidates[d] /\ applications'[d] = applications[d]
          /\ d # e => \A i \in interviews : i.entry = d => i \in interviews'
      BY <2>3 DEF RemoveCandidate, Touch, TypeOK
    <3>2. QED BY <1>1, <1>4, <3>1 DEF InPlace, Kinds
  <2>4. CASE TouchJob(e)
    <3>1. /\ <<"job", e>> \in touched'[r]
          /\ UNCHANGED <<user, candidates, applications, interviews>>
          /\ d # e => jobs'[d] = jobs[d]
      BY <2>4 DEF TouchJob, Touch, TypeOK
    <3>2. QED BY <1>1, <1>4, <3>1 DEF InPlace, Kinds
  <2>5. CASE TouchApplication(e)
    <3>1. /\ <<"application", e>> \in touched'[r]
          /\ UNCHANGED <<user, candidates, jobs, interviews>>
          /\ d # e => applications'[d] = applications[d]
      BY <2>5 DEF TouchApplication, Touch, TypeOK
    <3>2. QED BY <1>1, <1>4, <3>1 DEF InPlace, Kinds
  <2>6. QED BY <2>1, <2>2, <2>3, <2>4, <2>5
<1>5. ASSUME NEW d \in Entries, phase[r] = "applications",
             applications'[d][<<jobOf[r][d], candidateOf[r][d]>>] = "absent"
      PROVE  \/ applications[d][<<jobOf[r][d], candidateOf[r][d]>>] = "absent"
             \/ <<"interview", d>> \in touched'[r]
  <2>1. PICK a \in Ids \X Ids : a = <<jobOf[r][d], candidateOf[r][d]>>
    BY <1>5 DEF RunInv, KnowsIds, After
  <2>2. CASE RemoveCandidate(e)
    BY <1>5, <2>2 DEF RemoveCandidate, Touch, TypeOK
  <2>3. CASE TouchApplication(e)
    <3>1. PICK b \in ApplicationsOf(e), s \in {"changed", "withdrawn"} :
            applications' = [applications EXCEPT ![e][b] = s]
      BY <2>3 DEF TouchApplication
    <3>2. applications'[d][a] = "absent" => applications[d][a] = "absent"
      BY <3>1 DEF TypeOK
    <3>3. QED BY <1>5, <2>1, <3>2
  <2>4. CASE TouchUser(e) \/ TouchCandidate(e) \/ TouchJob(e)
    BY <1>5, <2>4 DEF TouchUser, TouchCandidate, TouchJob
  <2>5. QED BY <2>2, <2>3, <2>4
<1>6. ASSUME NEW d \in Entries PROVE Restores(r, d)'
  <2>1. \A k \in Kinds : Written(r, k, d)' => InPlace(r, k, d)' \/ <<k, d>> \in touched'[r]
    BY <1>1, <1>2, <1>4 DEF RunInv, Restores
  <2>2. Written(r, "application", d)' <=> Written(r, "application", d)
    BY <1>2
  <2>3. QED BY <1>1, <1>5, <2>1, <2>2 DEF RunInv, Restores, Succeeds
<1>7. QED BY <1>3, <1>6 DEF RunInv

-----------------------------------------------------------------------------
(* The theorems.                                                            *)

\* No run has started.
LEMMA InitSeedInv == Init => SeedInv
<1> SUFFICES ASSUME Init PROVE SeedInv
  OBVIOUS
<1>1. TypeOK
  BY TypeInit
<1>2. DuplicatesInv
  <2>1. PICK old \in [Entries -> {"nothing", "deleted", "withdrawn"}] :
          /\ candidates = [e \in Entries |-> [c \in Ids |->
               IF c = Other /\ old[e] # "nothing" THEN "changed" ELSE "absent"]]
          /\ jobs = [e \in Entries |-> [j \in Ids |->
               IF j = Other /\ old[e] = "deleted" THEN "deleted"
               ELSE IF j = Other /\ old[e] = "withdrawn" THEN "changed" ELSE "absent"]]
    BY DEF Init
  <2>2. \A e \in Entries : CandidatesOf(e) \subseteq {Other} /\ LiveJobs(e) \subseteq {Other}
    BY <2>1 DEF CandidatesOf, LiveJobs
  <2>3. \A q \in Runs : ~OnItsWay(q) /\ looked[q] = {}
    BY DEF Init, OnItsWay
  <2>4. QED BY <2>2, <2>3 DEF DuplicatesInv
<1>3. ASSUME NEW r \in Runs PROVE KnowsIds(r) /\ \A e \in Entries : Restores(r, e)
  <2>1. outcome[r] = "idle" /\ phase[r] = "users" /\ pending[r] = {}
    BY DEF Init
  <2>2. \A k, e : ~Written(r, k, e)
    BY <2>1 DEF Written, Succeeds
  <2>3. QED BY <2>1, <2>2 DEF KnowsIds, Restores, Succeeds, After
<1>4. QED BY <1>1, <1>2, <1>3 DEF SeedInv

\* A step of a run keeps its own knowledge and, by OnlySeeds, every other's.
LEMMA NextSeedInv == SeedInv /\ [Next]_vars => SeedInv'
<1> SUFFICES ASSUME SeedInv, [Next]_vars PROVE SeedInv'
  OBVIOUS
<1>1. TypeOK /\ DuplicatesInv /\ \A r \in Runs : RunInv(r)
  BY DEF SeedInv, RunInv
<1>2. SUFFICES TypeOK' /\ DuplicatesInv' /\ \A r \in Runs : RunInv(r)'
  BY DEF SeedInv, RunInv
<1>3. ASSUME NEW q \in Runs, CourseStep(q)
      PROVE  TypeOK' /\ DuplicatesInv' /\ \A r \in Runs : RunInv(r)'
  <2>1. TypeOK' /\ DuplicatesInv'
    BY <1>1, <1>3, CourseType, CourseDuplicates DEF CourseStep, RunInv
  <2>2. ASSUME NEW r \in Runs PROVE RunInv(r)'
    <3>1. CASE r = q BY <1>1, <1>3, <3>1, CourseKeeps
    <3>2. CASE r # q BY <1>1, <1>3, <3>2, CourseSeeds, StepOfAnother, OtherRunKeeps
    <3>3. QED BY <3>1, <3>2
  <2>3. QED BY <2>1, <2>2
<1>4. ASSUME NEW q \in Runs, NEW e \in Entries, QueryStep(q, e)
      PROVE  TypeOK' /\ DuplicatesInv' /\ \A r \in Runs : RunInv(r)'
  <2>1. TypeOK'
    BY <1>1, <1>4, QueriesType DEF QueryStep
  <2>2. DuplicatesInv'
    BY <1>1, <1>4, QuietQueriesDuplicates, UpsertCandidateDuplicates,
       FindJobDuplicates, WriteJobDuplicates DEF QueryStep
  <2>3. ASSUME NEW r \in Runs PROVE RunInv(r)'
    <3>1. OnlySeeds
      BY <1>1, <1>4, QueriesSeed
    <3>2. CASE r = q BY <1>1, <1>4, <3>1, <3>2, QueryKeeps
    <3>3. CASE r # q BY <1>1, <1>4, <3>1, <3>3, StepOfAnother, OtherRunKeeps
    <3>4. QED BY <3>2, <3>3
  <2>4. QED BY <2>1, <2>2, <2>3
<1>5. ASSUME NEW e \in Entries,
             \/ TouchUser(e) \/ TouchCandidate(e) \/ RemoveCandidate(e)
             \/ TouchJob(e) \/ TouchApplication(e)
      PROVE  TypeOK' /\ DuplicatesInv' /\ \A r \in Runs : RunInv(r)'
  BY <1>1, <1>5, TouchesType, TouchesDuplicates, TouchKeeps
<1>6. CASE UNCHANGED vars
  <2>1. TypeOK'
    BY <1>1, <1>6 DEF TypeOK, vars, progress, found, tables, others
  <2>2. UNCHANGED <<outcome, phase, pending, looked, jobOf, candidateOf, link, now,
                    overlap, touched, user, candidates, jobs, applications, interviews>>
    BY <1>6 DEF vars, progress, found, tables, others
  <2>3. DuplicatesInv'
    BY <1>1, <2>2 DEF DuplicatesInv, OnItsWay, CandidatesOf, LiveJobs
  <2>4. OnlySeeds
    BY <2>2 DEF OnlySeeds
  <2>5. \A r \in Runs : RunInv(r)'
    BY <1>1, <2>2, <2>4, OtherRunKeeps
  <2>6. QED BY <2>1, <2>3, <2>5
<1>7. QED BY <1>3, <1>4, <1>5, <1>6 DEF Next, CourseStep, QueryStep

\* The invariant above holds in every state, for any number of runs and entries
\* and any number of writes by others.
THEOREM SeedInvariance == Spec => []SeedInv
BY InitSeedInv, NextSeedInv, PTL DEF Spec

\* upsertJobByTitleAndCreator and the upserts: runs that do not overlap leave at
\* most one live job per title and creator, and no run ever a second candidate.
THEOREM NoDuplicateRows == Spec => []NoDuplicates
<1>1. SeedInv => NoDuplicates
  <2> SUFFICES ASSUME SeedInv PROVE NoDuplicates
    OBVIOUS
  <2>1. ASSUME NEW S, \A x, y \in S : x = y PROVE Cardinality(S) <= 1
    <3>1. CASE S = {} BY <3>1, FS_EmptySet
    <3>2. CASE S # {}
      <4>1. PICK x : S = {x}
        BY <2>1, <3>2
      <4>2. QED BY <4>1, FS_Singleton
    <3>3. QED BY <3>1, <3>2
  <2>2. QED BY <2>1 DEF SeedInv, DuplicatesInv, NoDuplicates
<1>2. QED BY <1>1, SeedInvariance, PTL

\* main: when it logs that the seed is complete, every row it stands for is in
\* the seed's state, but for what others wrote since this run did.
THEOREM RunsRestore == Spec => []CompletedRunRestores
<1>1. SeedInv => CompletedRunRestores
  <2> SUFFICES ASSUME SeedInv, NEW r \in Runs, NEW k \in Kinds, NEW e \in Entries,
                      outcome[r] = "completed"
               PROVE  InPlace(r, k, e) \/ <<k, e>> \in touched[r]
    BY DEF CompletedRunRestores
  <2>1. phase[r] = "interviews" /\ pending[r] = {} /\ Succeeds(r)
    BY DEF SeedInv, KnowsIds, Succeeds
  <2>2. "interviews" \in After(k) \/ "interviews" = PhaseOf(k)
    BY DEF Kinds, After, PhaseOf, Phases
  <2>3. Written(r, k, e)
    BY <2>1, <2>2 DEF Written
  <2>4. QED BY <2>3 DEF SeedInv, Restores
<1>2. QED BY <1>1, SeedInvariance, PTL
=============================================================================
