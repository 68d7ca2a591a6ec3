-------------------------------- MODULE Seed --------------------------------
(***************************************************************************)
(* prisma/seed.ts: fills a development database, phase after phase, each   *)
(* phase with all of its queries in flight at once (Promise.all) but for   *)
(* the interviews, which are a loop.  Runs may overlap, fail, be killed    *)
(* and be repeated while the gateway's users write to the same rows.       *)
(*                                                                         *)
(* An entry stands for what belongs together in the seed's arrays: a user, *)
(* the job that user created, a candidate, its application for the job and *)
(* an interview.  Candidates and jobs that are created get the run as id;  *)
(* Other is the id of a row that was there before.  A row is "seeded" when *)
(* its columns are the seed's, "changed" when others wrote it.             *)
(***************************************************************************)
EXTENDS Integers, FiniteSets

CONSTANTS Runs, Entries, Other, NoId,
          MaxTouches  \* bound of what others write

ASSUME SeedAssumption ==
  Other \notin Runs /\ NoId \notin Runs \cup {Other} /\ MaxTouches \in Nat

VARIABLES outcome, phase,  \* of a run
          pending,   \* entries whose promise of this phase is not settled
          looked,    \* of these, the ones whose findFirst is answered
          jobOf, candidateOf,  \* ids that a run got from the database
          link,      \* the application an interview is for
          now,       \* the clock as the run read it for the interviews
          user,      \* table users, by entry
          candidates, jobs,  \* by entry and id
          applications,      \* by entry, job and candidate
          interviews,
          overlap,   \* observation only: a run began while another was on its way
          touched,   \* observation only: rows others wrote since the run did
          touches    \* number of writes by others

progress == <<outcome, phase, pending, looked>>
found == <<jobOf, candidateOf, link, now>>
tables == <<user, candidates, jobs, applications, interviews>>
others == <<overlap, touched, touches>>
vars == <<progress, found, tables, others>>

Ids == Runs \cup {Other}
\* What an entry stands for.
Kinds == {"user", "candidate", "job", "application", "interview"}

LiveJobs(e) == {j \in Ids : jobs[e][j] \in {"seeded", "changed"}}
CandidatesOf(e) == {c \in Ids : candidates[e][c] # "absent"}
ApplicationsOf(e) == {a \in Ids \X Ids : applications[e][a] # "absent"}

Init ==
  /\ outcome = [r \in Runs |-> "idle"]
  /\ phase = [r \in Runs |-> "users"]
  /\ pending = [r \in Runs |-> {}] /\ looked = [r \in Runs |-> {}]
  /\ jobOf = [r \in Runs |-> [e \in Entries |-> NoId]]
  /\ candidateOf = jobOf
  /\ link = [r \in Runs |-> [e \in Entries |-> <<NoId, NoId>>]]
  /\ now = [r \in Runs |-> 0]
  /\ \E old \in [Entries -> {"nothing", "deleted", "withdrawn"}] :
       /\ user = [e \in Entries |-> IF old[e] = "nothing" THEN "absent" ELSE "deleted"]
       /\ candidates = [e \in Entries |-> [c \in Ids |->
            IF c = Other /\ old[e] # "nothing" THEN "changed" ELSE "absent"]]
       /\ jobs = [e \in Entries |-> [j \in Ids |->
            IF j = Other /\ old[e] = "deleted" THEN "deleted"
            ELSE IF j = Other /\ old[e] = "withdrawn" THEN "changed" ELSE "absent"]]
       /\ applications = [e \in Entries |-> [a \in Ids \X Ids |->
            IF a = <<Other, Other>> /\ old[e] # "nothing" THEN "withdrawn" ELSE "absent"]]
  /\ interviews = {}
  /\ overlap = FALSE
  /\ touched = [r \in Runs |-> {}] /\ touches = 0

-----------------------------------------------------------------------------
(* The course of a run.                                                     *)

OnItsWay(r) == outcome[r] = "running" \/ pending[r] # {}

\* In production, and without SEED_DEFAULT_PASSWORD, it ends before it writes.
Start(r) ==
  /\ outcome[r] = "idle"
  /\ \/ /\ outcome' = [outcome EXCEPT ![r] = "running"]
        /\ pending' = [pending EXCEPT ![r] = Entries]
     \/ outcome' = [outcome EXCEPT ![r] = "failed"] /\ UNCHANGED pending
  /\ overlap' = (overlap \/ \E q \in Runs \ {r} : OnItsWay(q))
  /\ UNCHANGED <<phase, looked, found, tables, touched, touches>>

\* The promise of e is settled; if the answer was lost, it is rejected.
Settle(r, e) ==
  /\ pending' = [pending EXCEPT ![r] = @ \ {e}]
  /\ looked' = [looked EXCEPT ![r] = @ \ {e}]
  /\ outcome' \in {outcome, [outcome EXCEPT ![r] = "failed"]}
  /\ UNCHANGED phase

Reject(r, e) ==
  /\ pending' = [pending EXCEPT ![r] = @ \ {e}]
  /\ looked' = [looked EXCEPT ![r] = @ \ {e}]
  /\ outcome' = [outcome EXCEPT ![r] = "failed"]
  /\ UNCHANGED phase

\* A query fails.  The others of its Promise.all go on until the process ends.
Fail(r, e) ==
  /\ OnItsWay(r)
  /\ Reject(r, e)
  /\ UNCHANGED <<found, tables, others>>

\* A query of an entry that is not in Entries fails.
SiblingFails(r) ==
  /\ outcome[r] = "running" /\ pending[r] # {}
  /\ outcome' = [outcome EXCEPT ![r] = "failed"]
  /\ UNCHANGED <<phase, pending, looked, found, tables, others>>

\* The process disconnects and ends, or is killed.
Exit(r) ==
  /\ OnItsWay(r)
  /\ outcome' = [outcome EXCEPT ![r] = "failed"]
  /\ pending' = [pending EXCEPT ![r] = {}]
  /\ UNCHANGED <<phase, looked, found, tables, others>>

\* What r wrote is no longer what others left.
Wrote(r, kind, e) ==
  /\ touched' = [touched EXCEPT ![r] = @ \ {<<kind, e>>}]
  /\ UNCHANGED <<overlap, touches>>

\* All promises are fulfilled: the next phase.  Before the interviews all
\* applications for jobs of these titles are read, whoever withdrew them and
\* whatever became of the job; `find` takes the first of an entry.
NextPhase(r) ==
  /\ outcome[r] = "running" /\ pending[r] = {} /\ phase[r] # "interviews"
  /\ phase' = [phase EXCEPT ![r] =
       CASE @ = "users" -> "candidates"
         [] @ = "candidates" -> "jobs"
         [] @ = "jobs" -> "applications"
         [] @ = "applications" -> "interviews"]
  /\ pending' = [pending EXCEPT ![r] = Entries]
  /\ IF phase[r] = "applications"
     THEN /\ \E f \in [Entries -> (Ids \X Ids) \cup {<<NoId, NoId>>}] :
               /\ \A e \in Entries : IF ApplicationsOf(e) = {}
                                     THEN f[e] = <<NoId, NoId>>
                                     ELSE f[e] \in ApplicationsOf(e)
               /\ link' = [link EXCEPT ![r] = f]
          /\ \E t \in 1..2 : /\ \A q \in Runs : now[q] <= t
                             /\ now' = [now EXCEPT ![r] = t]
     ELSE UNCHANGED <<link, now>>
  /\ UNCHANGED <<outcome, looked, jobOf, candidateOf, tables, others>>

Complete(r) ==
  /\ outcome[r] = "running" /\ pending[r] = {} /\ phase[r] = "interviews"
  /\ outcome' = [outcome EXCEPT ![r] = "completed"]
  /\ UNCHANGED <<phase, pending, looked, found, tables, others>>

-----------------------------------------------------------------------------
(* Its queries.                                                             *)

UpsertUser(r, e) ==
  /\ phase[r] = "users" /\ e \in pending[r]
  /\ user' = [user EXCEPT ![e] = "seeded"]
  /\ Settle(r, e) /\ Wrote(r, "user", e)
  /\ UNCHANGED <<found, candidates, jobs, applications, interviews>>

UpsertCandidate(r, e) ==
  /\ phase[r] = "candidates" /\ e \in pending[r]
  /\ LET c == IF CandidatesOf(e) = {} THEN r ELSE CHOOSE i \in CandidatesOf(e) : TRUE
     IN  /\ candidates' = [candidates EXCEPT ![e][c] = "seeded"]
         /\ candidateOf' = [candidateOf EXCEPT ![r][e] = c]
  /\ Settle(r, e) /\ Wrote(r, "candidate", e)
  /\ UNCHANGED <<jobOf, link, now, user, jobs, applications, interviews>>

\* Faulty variant: no job is ever found.
NoJob(e) == {NoId}

\* upsertJobByTitleAndCreator: findFirst passes over deleted jobs.
FirstJob(e) == IF LiveJobs(e) = {} THEN {NoId} ELSE LiveJobs(e)

FindJob(r, e) ==
  /\ phase[r] = "jobs" /\ e \in pending[r] \ looked[r]
  /\ \E j \in FirstJob(e) : jobOf' = [jobOf EXCEPT ![r][e] = j]
  /\ looked' = [looked EXCEPT ![r] = @ \cup {e}]
  /\ UNCHANGED <<outcome, phase, pending, candidateOf, link, now, tables, others>>

\* update by id, which also takes a deletion back, or create.
WriteJob(r, e) ==
  /\ phase[r] = "jobs" /\ e \in looked[r] /\ e \in pending[r]
  /\ LET j == IF jobOf[r][e] = NoId THEN r ELSE jobOf[r][e]
     IN  /\ jobs' = [jobs EXCEPT ![e][j] = "seeded"]
         /\ jobOf' = [jobOf EXCEPT ![r][e] = j]
  /\ Settle(r, e) /\ Wrote(r, "job", e)
  /\ UNCHANGED <<candidateOf, link, now, user, candidates, applications, interviews>>

\* Faulty variant: a withdrawal is not taken back.
KeepWithdrawal(before) == IF before = "withdrawn" THEN before ELSE "seeded"

\* The update's stage, status, notes and deletedAt; the create's but the last.
Reseed(before) == "seeded"

\* The candidate may be gone: its foreign key is violated.
UpsertApplication(r, e) ==
  /\ phase[r] = "applications" /\ e \in pending[r]
  /\ IF candidates[e][candidateOf[r][e]] = "absent"
     THEN Reject(r, e) /\ UNCHANGED <<tables, others>>
     ELSE LET a == <<jobOf[r][e], candidateOf[r][e]>>
          IN  /\ applications' = [applications EXCEPT ![e][a] = Reseed(@)]
              /\ Settle(r, e) /\ Wrote(r, "application", e)
              /\ UNCHANGED <<user, candidates, jobs, interviews>>
  /\ UNCHANGED found

\* One after the other: no application, or one with an interview at this very
\* time, is skipped.
FindInterview(r, e) ==
  /\ phase[r] = "interviews" /\ outcome[r] = "running"
  /\ e \in pending[r] /\ looked[r] = {}
  /\ IF \/ link[r][e] = <<NoId, NoId>>
        \/ \E i \in interviews : i.entry = e /\ i.application = link[r][e] /\ i.at = now[r]
     THEN pending' = [pending EXCEPT ![r] = @ \ {e}] /\ UNCHANGED looked
     ELSE looked' = [looked EXCEPT ![r] = {e}] /\ UNCHANGED pending
  /\ UNCHANGED <<outcome, phase, found, tables, others>>

CreateInterview(r, e) ==
  /\ phase[r] = "interviews" /\ e \in looked[r] /\ e \in pending[r]
  /\ IF link[r][e] \in ApplicationsOf(e)
     THEN /\ interviews' = interviews \cup
               {[entry |-> e, application |-> link[r][e], at |-> now[r], by |-> r]}
          /\ Settle(r, e) /\ Wrote(r, "interview", e)
     ELSE Reject(r, e) /\ UNCHANGED <<interviews, others>>
  /\ UNCHANGED <<found, user, candidates, jobs, applications>>

-----------------------------------------------------------------------------
(* What the gateway's users do meanwhile.                                   *)

Touch(kinds, e) ==
  /\ touches < MaxTouches /\ touches' = touches + 1
  /\ touched' = [r \in Runs |-> touched[r] \cup (kinds \X {e})]
  /\ UNCHANGED <<progress, found, overlap>>

TouchUser(e) ==
  /\ user[e] \in {"seeded", "changed"}
  /\ \E s \in {"changed", "deleted"} : user' = [user EXCEPT ![e] = s]
  /\ Touch({"user"}, e)
  /\ UNCHANGED <<candidates, jobs, applications, interviews>>

TouchCandidate(e) ==
  /\ \E c \in CandidatesOf(e) : candidates' = [candidates EXCEPT ![e][c] = "changed"]
  /\ Touch({"candidate"}, e)
  /\ UNCHANGED <<user, jobs, applications, interviews>>

RemoveCandidate(e) ==
  /\ CandidatesOf(e) # {}
  /\ candidates' = [candidates EXCEPT ![e] = [c \in Ids |-> "absent"]]
  /\ applications' = [applications EXCEPT ![e] = [a \in Ids \X Ids |-> "absent"]]
  /\ interviews' = {i \in interviews : i.entry # e}
  /\ Touch({"candidate", "application", "interview"}, e)
  /\ UNCHANGED <<user, jobs>>

TouchJob(e) ==
  /\ \E j \in LiveJobs(e), s \in {"changed", "deleted"} :
       jobs' = [jobs EXCEPT ![e][j] = s]
  /\ Touch({"job"}, e)
  /\ UNCHANGED <<user, candidates, applications, interviews>>

TouchApplication(e) ==
  /\ \E a \in ApplicationsOf(e), s \in {"changed", "withdrawn"} :
       /\ applications[e][a] # "withdrawn"
       /\ applications' = [applications EXCEPT ![e][a] = s]
  /\ Touch({"application"}, e)
  /\ UNCHANGED <<user, candidates, jobs, interviews>>

Next ==
  \/ \E r \in Runs : Start(r) \/ NextPhase(r) \/ Complete(r)
                   \/ SiblingFails(r) \/ Exit(r)
  \/ \E r \in Runs, e \in Entries :
       \/ Fail(r, e)
       \/ UpsertUser(r, e) \/ UpsertCandidate(r, e)
       \/ FindJob(r, e) \/ WriteJob(r, e) \/ UpsertApplication(r, e)
       \/ FindInterview(r, e) \/ CreateInterview(r, e)
  \/ \E e \in Entries :
       \/ TouchUser(e) \/ TouchCandidate(e) \/ RemoveCandidate(e)
       \/ TouchJob(e) \/ TouchApplication(e)

Spec == Init /\ [][Next]_vars

-----------------------------------------------------------------------------
(* Properties.                                                              *)

\* The README's "idempotent for core entities": runs that do not overlap leave
\* one live job per title and creator, however often they failed half-way and
\* whatever others did to the rows; overlapping or not, one row per candidate.
NoDuplicates ==
  \A e \in Entries :
    /\ Cardinality(CandidatesOf(e)) <= 1
    /\ ~overlap => Cardinality(LiveJobs(e)) <= 1

\* The row of kind k of e looks as r says it left it.
InPlace(r, k, e) ==
  CASE k = "user" -> user[e] = "seeded"
    [] k = "candidate" -> candidates[e][candidateOf[r][e]] = "seeded"
    [] k = "job" -> jobs[e][jobOf[r][e]] = "seeded"
    [] k = "application" ->
         applications[e][<<jobOf[r][e], candidateOf[r][e]>>] = "seeded"
    [] k = "interview" -> \E i \in interviews : i.entry = e /\ i.at = now[r]

\* A run that says it completed has put every row into the seed's state, also
\* rows that were deleted or withdrawn before, and no other run undoes it: what
\* looks different was written by others since this run wrote it.
CompletedRunRestores ==
  \A r \in Runs, k \in Kinds, e \in Entries :
    outcome[r] = "completed" => InPlace(r, k, e) \/ <<k, e>> \in touched[r]
=============================================================================
