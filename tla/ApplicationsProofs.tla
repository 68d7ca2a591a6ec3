------------------------- MODULE ApplicationsProofs -------------------------
(***************************************************************************)
(* Proofs about Applications, for any sets of requests, users and jobs.    *)
(* One lemma per action shows that it preserves the inductive invariant    *)
(* IndInv; the safety properties follow from IndInv.                       *)
(***************************************************************************)
EXTENDS Applications, TLAPS

\* The initial tables are empty and every handler is at its first query.
LEMMA InitIndInv == Init => IndInv
  BY NoIdAssumption DEF Init, IndInv, TypeOK, TablesInv, LocationInv, Sent,
       CandidateErased, MayMissQueue, CandidateExists, FileKey, Calls, Working

\* The job lookup: the handler moves on or is refused; no table changes.
LEMMA FindOpenJobStep ==
  ASSUME IndInv, NEW r \in Requests, FindOpenJob(r)
  PROVE  IndInv'
<1> USE NoIdAssumption DEF IndInv, broker
<1>1. TypeOK'
  BY DEF TypeOK, FindOpenJob, Goto, db, Working, Answered, JobStates, Calls
<1>2. TablesInv'
  BY DEF TypeOK, TablesInv, LocationInv, FindOpenJob, Goto, db, Working,
         JobStates, Calls, CandidateExists, Kinds
<1>3. ASSUME NEW x \in Requests
      PROVE  LocationInv(x)'
  BY DEF TypeOK, TablesInv, LocationInv, FindOpenJob, Goto, db, Working,
       JobStates, Calls, Sent, CandidateErased, MayMissQueue, CandidateExists,
       FileKey, Kinds
<1>4. QED BY <1>1, <1>2, <1>3

\* The candidate lookup: the id read is that of the caller's candidate.
LEMMA FindCandidateStep ==
  ASSUME IndInv, NEW r \in Requests, FindCandidate(r)
  PROVE  IndInv'
<1> USE NoIdAssumption DEF IndInv, broker
<1>1. TypeOK'
  BY DEF TypeOK, FindCandidate, Goto, db, Working, Answered, Calls
<1>2. TablesInv'
  <2>1. /\ pc[r] = "findCandidate"
        /\ \/ /\ candidates[call[r].user] # NoId
              /\ cand' = [cand EXCEPT ![r] = candidates[call[r].user]]
              /\ pc' = [pc EXCEPT ![r] = "checkDuplicate"]
           \/ cand' = cand /\ pc' = [pc EXCEPT ![r] = "createCandidate"]
        /\ UNCHANGED <<call, candidates, apps>>
    BY DEF FindCandidate, Goto, db
  <2>2. r \notin apps /\ call[r].user \in Users
    BY <2>1 DEF LocationInv, TypeOK, Calls
  <2>3. QED
    BY <2>1, <2>2 DEF TypeOK, TablesInv, CandidateExists
<1>3. ASSUME NEW x \in Requests
      PROVE  LocationInv(x)'
  BY DEF TypeOK, TablesInv, LocationInv, FindCandidate, Goto, db, Working,
       Calls, Sent, CandidateErased, MayMissQueue, CandidateExists, FileKey,
       Kinds
<1>4. QED BY <1>1, <1>2, <1>3

\* The candidate is created: its id is new, so no erased one comes back.
LEMMA CreateCandidateStep ==
  ASSUME IndInv, NEW r \in Requests, CreateCandidate(r)
  PROVE  IndInv'
<1> USE NoIdAssumption DEF IndInv, broker
<1>a. CASE candidates[call[r].user] # NoId
  <2>1. pc' = [pc EXCEPT ![r] = "error"] /\ UNCHANGED <<cand, candidates>>
    BY <1>a DEF CreateCandidate, Goto
  <2>2. TypeOK'
    BY <2>1 DEF TypeOK, CreateCandidate, Working, Answered
  <2>3. TablesInv'
    BY <2>1 DEF TypeOK, TablesInv, CreateCandidate, CandidateExists
  <2>4. ASSUME NEW x \in Requests
        PROVE  LocationInv(x)'
    BY <2>1 DEF TypeOK, LocationInv, CreateCandidate, Sent, CandidateErased,
         MayMissQueue, CandidateExists, FileKey
  <2>5. QED BY <2>2, <2>3, <2>4
<1>b. CASE candidates[call[r].user] = NoId
  <2> DEFINE u == call[r].user
  <2>1. /\ pc[r] = "createCandidate"
        /\ candidates' = [candidates EXCEPT ![u] = r]
        /\ \/ /\ cand' = [cand EXCEPT ![r] = r]
              /\ pc' = [pc EXCEPT ![r] = "checkDuplicate"]
           \/ /\ cand' = cand
              /\ pc' = [pc EXCEPT ![r] = "error"]
        /\ UNCHANGED <<call, jobs, apps, withdrawn, files, buffer, broker, fault>>
    BY <1>b DEF CreateCandidate, Goto
  <2>2. u \in Users /\ r # NoId
    BY DEF TypeOK, Calls
  <2>3. /\ candidates' \in [Users -> Requests \cup {NoId}]
        /\ cand' \in [Requests -> Requests \cup {NoId}]
        /\ pc' \in [Requests -> Working \cup Answered]
    BY <2>1, <2>2 DEF TypeOK, Working, Answered
  <2>4. TypeOK'
    BY <2>1, <2>3 DEF TypeOK
  <2>5. cand[r] = NoId /\ \A x \in Requests : cand[x] # r
    BY <2>1 DEF TablesInv
  <2>6. \A v \in Users : candidates[v] # r
    BY <2>1 DEF TablesInv
  <2>7. r \notin apps
    BY <2>1 DEF LocationInv
  <2>8. TablesInv'
    <3>1. \A v \in Users : candidates'[v] # NoId
                           => call'[candidates'[v]].user = v
      BY <2>1, <2>2 DEF TypeOK, TablesInv
    <3>2. ASSUME NEW c \in Requests,
                 pc'[c] \in {"findJob", "findCandidate", "createCandidate",
                            "notFound", "forbidden"}
          PROVE  /\ cand'[c] = NoId
                 /\ \A v \in Users : candidates'[v] # c
                 /\ \A x \in Requests : cand'[x] # c
      BY <2>1, <2>2, <3>2 DEF TypeOK, TablesInv
    <3>3. \A x \in apps : call[x].user # u
      BY <1>b, <2>2 DEF TypeOK, TablesInv, CandidateExists
    <3>4. \A x \in apps : cand'[x] = cand[x]
      BY <2>1, <2>7 DEF TypeOK
    <3>5. \A x \in apps' : cand'[x] # NoId
                           /\ candidates'[call'[x].user] = cand'[x]
      BY <2>1, <3>3, <3>4 DEF TypeOK, TablesInv, CandidateExists, Calls
    <3>6. \A x, y \in apps' : call'[x].job = call'[y].job /\ cand'[x] = cand'[y]
                              => x = y
      BY <2>1, <3>4 DEF TablesInv
    <3>7. QED BY <3>1, <3>2, <3>5, <3>6 DEF TablesInv, CandidateExists
  <2>9. ASSUME NEW x \in Requests
        PROVE  LocationInv(x)'
    BY <2>1, <2>2, <2>5, <2>6 DEF TypeOK, LocationInv, Sent, CandidateErased,
         MayMissQueue, CandidateExists, FileKey, Calls
  <2>10. QED BY <2>4, <2>8, <2>9
<1>c. QED BY <1>a, <1>b

\* The duplicate check reads and branches.
LEMMA CheckDuplicateStep ==
  ASSUME IndInv, NEW r \in Requests, CheckDuplicate(r)
  PROVE  IndInv'
<1> USE NoIdAssumption DEF IndInv, broker
<1>1. TypeOK'
  BY DEF TypeOK, CheckDuplicate, Goto, db, Working, Answered, Calls, Kinds
<1>2. TablesInv'
  BY DEF TypeOK, TablesInv, LocationInv, CheckDuplicate, Goto, db, Working,
         Calls, Kinds, CandidateExists, LiveApplication
<1>3. ASSUME NEW x \in Requests
      PROVE  LocationInv(x)'
  BY DEF TypeOK, TablesInv, LocationInv, CheckDuplicate, Goto, db, Working,
       Calls, Kinds, Sent, CandidateErased, MayMissQueue, CandidateExists,
       FileKey, LiveApplication
<1>4. QED BY <1>1, <1>2, <1>3

\* A failed query ends a handler that has no row, event or file yet; the
\* candidate it may have created is its own.
LEMMA QueryFailsStep ==
  ASSUME IndInv, NEW r \in Requests, QueryFails(r)
  PROVE  IndInv'
<1> USE NoIdAssumption DEF IndInv, broker
<1>1. TypeOK'
  BY DEF TypeOK, QueryFails, Goto, db, Working, Answered
<1>2. TablesInv'
  BY DEF TypeOK, TablesInv, LocationInv, QueryFails, Goto, db, Working,
         CandidateExists, Calls, Kinds
<1>3. ASSUME NEW x \in Requests
      PROVE  LocationInv(x)'
  BY DEF TypeOK, TablesInv, LocationInv, QueryFails, Goto, db, Working, Sent,
       CandidateErased, MayMissQueue, CandidateExists, FileKey, Calls, Kinds
<1>4. QED BY <1>1, <1>2, <1>3

\* The upload adds the request's own key only.
LEMMA UploadCvStep ==
  ASSUME IndInv, NEW r \in Requests, UploadCv(r)
  PROVE  IndInv'
<1> USE NoIdAssumption DEF IndInv, broker
<1>1. TypeOK'
  BY DEF TypeOK, UploadCv, Goto, Suffers, Record, db, Working, Answered,
       Faults, FileKey
<1>2. TablesInv'
  BY DEF TypeOK, TablesInv, LocationInv, UploadCv, Goto, Suffers, Record, db,
       Working, CandidateExists, Calls, Kinds
<1>3. ASSUME NEW x \in Requests
      PROVE  LocationInv(x)'
  BY DEF TypeOK, TablesInv, LocationInv, UploadCv, Goto, Suffers, Record, db,
       Working, Sent, CandidateErased, MayMissQueue, CandidateExists, FileKey,
       Calls, Kinds
<1>4. QED BY <1>1, <1>2, <1>3

\* The insert: the unique pair and the foreign key keep the tables sound.
LEMMA InsertApplicationStep ==
  ASSUME IndInv, NEW r \in Requests, InsertApplication(r)
  PROVE  IndInv'
<1> USE NoIdAssumption DEF IndInv, broker
<1>1. TypeOK'
  <2>1. pc' \in [Requests -> Working \cup Answered]
    BY DEF TypeOK, InsertApplication, InsertFailed, Goto, Working, Answered
  <2>2. fault' \in [Requests -> SUBSET Faults]
    BY DEF TypeOK, InsertApplication, Suffers, Record, Faults
  <2>3. apps' \in {apps, apps \cup {r}}
    BY DEF InsertApplication
  <2>4. QED BY <2>1, <2>2, <2>3 DEF TypeOK, InsertApplication
<1>2. TablesInv'
  BY DEF TypeOK, TablesInv, LocationInv, InsertApplication, InsertFailed,
         PairTaken, Goto, CandidateExists, Calls
<1>3. ASSUME NEW x \in Requests
      PROVE  LocationInv(x)'
  BY DEF TypeOK, TablesInv, LocationInv, InsertApplication, InsertFailed,
       PairTaken, Goto, Suffers, Record, Sent, CandidateErased, MayMissQueue,
       CandidateExists, FileKey, Calls, Kinds
<1>4. QED BY <1>1, <1>2, <1>3

\* The event is buffered, reported as not sent, or not sent.
LEMMA PublishCvUploadedStep ==
  ASSUME IndInv, NEW r \in Requests, PublishCvUploaded(r)
  PROVE  IndInv'
<1> USE NoIdAssumption DEF IndInv, broker
<1>1. TypeOK'
  <2>1. pc' \in [Requests -> Working \cup Answered]
    BY DEF TypeOK, PublishCvUploaded, Goto, Working, Answered
  <2>2. fault' \in [Requests -> SUBSET Faults]
    BY DEF TypeOK, PublishCvUploaded, Record, Window, Faults
  <2>3. buffer' \subseteq Requests
    BY DEF TypeOK, PublishCvUploaded
  <2>4. QED BY <2>1, <2>2, <2>3 DEF TypeOK, PublishCvUploaded, db
<1>2. TablesInv'
  BY DEF TypeOK, TablesInv, PublishCvUploaded, Goto, db, CandidateExists
<1>3. ASSUME NEW x \in Requests
      PROVE  LocationInv(x)'
  BY DEF TypeOK, TablesInv, LocationInv, PublishCvUploaded, Goto, Record,
       Window, db, Sent, CandidateErased, MayMissQueue, CandidateExists,
       FileKey, Calls, Kinds
<1>4. QED BY <1>1, <1>2, <1>3

\* The response changes nothing but the handler's location.
LEMMA BuildUploadResponseStep ==
  ASSUME IndInv, NEW r \in Requests, BuildUploadResponse(r)
  PROVE  IndInv'
<1> USE NoIdAssumption DEF IndInv, broker
<1>1. TypeOK'
  BY DEF TypeOK, BuildUploadResponse, Goto, db, Working, Answered
<1>2. TablesInv'
  BY DEF TypeOK, TablesInv, LocationInv, BuildUploadResponse, Goto, db,
         Working, CandidateExists, Calls, Kinds
<1>3. ASSUME NEW x \in Requests
      PROVE  LocationInv(x)'
  BY DEF TypeOK, TablesInv, LocationInv, BuildUploadResponse, Goto, db,
       Working, Sent, CandidateErased, MayMissQueue, CandidateExists, FileKey,
       Calls, Kinds
<1>4. QED BY <1>1, <1>2, <1>3

\* The rollback removes the request's own row, or leaves and records it.
LEMMA RollbackRowStep ==
  ASSUME IndInv, NEW r \in Requests, RollbackRow(r)
  PROVE  IndInv'
<1> USE NoIdAssumption DEF IndInv, broker
<1>1. TypeOK'
  BY DEF TypeOK, RollbackRow, Goto, Suffers, Record, Working, Answered, Faults
<1>2. TablesInv'
  BY DEF TypeOK, TablesInv, LocationInv, RollbackRow, Goto, Suffers, Record,
       Working, CandidateExists, Calls, Kinds
<1>3. ASSUME NEW x \in Requests
      PROVE  LocationInv(x)'
  BY DEF TypeOK, TablesInv, LocationInv, RollbackRow, Goto, Suffers, Record,
       Working, Sent, CandidateErased, MayMissQueue, CandidateExists, FileKey,
       Calls, Kinds
<1>4. QED BY <1>1, <1>2, <1>3

\* The rollback removes the request's own file, or leaves and records it.
LEMMA RollbackFileStep ==
  ASSUME IndInv, NEW r \in Requests, RollbackFile(r)
  PROVE  IndInv'
<1> USE NoIdAssumption DEF IndInv, broker
<1>1. TypeOK'
  BY DEF TypeOK, RollbackFile, Goto, Suffers, Record, db, Working, Answered,
       Faults, FileKey
<1>2. TablesInv'
  BY DEF TypeOK, TablesInv, LocationInv, RollbackFile, Goto, Suffers, Record,
       db, Working, CandidateExists, Calls, Kinds
<1>3. ASSUME NEW x \in Requests
      PROVE  LocationInv(x)'
  BY DEF TypeOK, TablesInv, LocationInv, RollbackFile, Goto, Suffers, Record,
       db, Working, Sent, CandidateErased, MayMissQueue, CandidateExists,
       FileKey, Calls, Kinds
<1>4. QED BY <1>1, <1>2, <1>3

\* A withdrawal touches an existing row.
LEMMA WithdrawStep ==
  ASSUME IndInv, NEW r \in Requests, Withdraw(r)
  PROVE  IndInv'
<1> USE NoIdAssumption DEF IndInv, broker
<1>1. TypeOK'
  BY DEF TypeOK, Withdraw
<1>2. TablesInv'
  BY DEF TypeOK, TablesInv, LocationInv, Withdraw, CandidateExists, Calls,
         Kinds
<1>3. ASSUME NEW x \in Requests
      PROVE  LocationInv(x)'
  BY DEF TypeOK, TablesInv, LocationInv, Withdraw, Sent, CandidateErased,
       MayMissQueue, CandidateExists, FileKey, Calls, Kinds
<1>4. QED BY <1>1, <1>2, <1>3

\* A delivery moves an event to the broker's queue, where it stays sent, or to
\* a broker that discards it; then it was published too early.
LEMMA DeliverStep ==
  ASSUME IndInv, NEW r \in Requests, Deliver(r)
  PROVE  IndInv'
<1> USE NoIdAssumption DEF IndInv, broker
<1>1. TypeOK'
  BY DEF TypeOK, Deliver, db
<1>2. TablesInv'
  BY DEF TypeOK, TablesInv, LocationInv, Deliver, db, CandidateExists,
         Calls, Kinds
<1>3. ASSUME NEW x \in Requests
      PROVE  LocationInv(x)'
  BY DEF TypeOK, TablesInv, LocationInv, Deliver, db, Sent, CandidateErased,
       MayMissQueue, CandidateExists, FileKey, Calls, Kinds
<1>4. QED BY <1>1, <1>2, <1>3

\* The topology changes nothing else.
LEMMA SetupTopologyStep ==
  ASSUME IndInv, SetupTopology
  PROVE  IndInv'
<1> USE NoIdAssumption DEF IndInv, broker
<1>1. TypeOK'
  BY DEF TypeOK, SetupTopology, db
<1>2. TablesInv'
  BY DEF TypeOK, TablesInv, SetupTopology, db, CandidateExists
<1>3. ASSUME NEW x \in Requests
      PROVE  LocationInv(x)'
  BY DEF TypeOK, LocationInv, MayMissQueue, SetupTopology, db, Sent,
       CandidateErased, CandidateExists, FileKey, Calls, Kinds
<1>4. QED BY <1>1, <1>2, <1>3

\* A lost event is recorded as such.
LEMMA LoseBufferedStep ==
  ASSUME IndInv, NEW r \in Requests, LoseBuffered(r)
  PROVE  IndInv'
<1> USE NoIdAssumption DEF IndInv, broker
<1>1. TypeOK'
  BY DEF TypeOK, LoseBuffered, Suffers, Record, db, Faults
<1>2. TablesInv'
  BY DEF TypeOK, TablesInv, LocationInv, LoseBuffered, Suffers, Record, db,
       CandidateExists, Calls, Kinds
<1>3. ASSUME NEW x \in Requests
      PROVE  LocationInv(x)'
  BY DEF TypeOK, TablesInv, LocationInv, LoseBuffered, Suffers, Record, db,
       Sent, CandidateErased, MayMissQueue, CandidateExists, FileKey, Calls,
       Kinds
<1>4. QED BY <1>1, <1>2, <1>3

\* A crash freezes what the request has written.
LEMMA CrashStep ==
  ASSUME IndInv, NEW r \in Requests, Crash(r)
  PROVE  IndInv'
<1> USE NoIdAssumption DEF IndInv, broker
<1>1. TypeOK'
  BY DEF TypeOK, Crash, Goto, Suffers, Record, db, Working, Answered, Faults
<1>2. TablesInv'
  BY DEF TypeOK, TablesInv, LocationInv, Crash, Goto, Suffers, Record, db,
       Working, CandidateExists, Calls, Kinds
<1>3. ASSUME NEW x \in Requests
      PROVE  LocationInv(x)'
  BY DEF TypeOK, TablesInv, LocationInv, Crash, Goto, Suffers, Record, db,
       Working, Sent, CandidateErased, MayMissQueue, CandidateExists, FileKey,
       Calls, Kinds
<1>4. QED BY <1>1, <1>2, <1>3

\* Deleting a candidate takes its rows along and no one else's.
LEMMA RemoveCandidateStep ==
  ASSUME IndInv, NEW u \in Users, RemoveCandidate(u)
  PROVE  IndInv'
<1> USE NoIdAssumption DEF IndInv, broker
<1>1. TypeOK'
  BY DEF TypeOK, RemoveCandidate, RowsOf
<1>2. TablesInv'
  BY DEF TypeOK, TablesInv, LocationInv, RemoveCandidate, RowsOf,
         CandidateExists, Calls, Kinds
<1>3. ASSUME NEW x \in Requests
      PROVE  LocationInv(x)'
  BY DEF TypeOK, TablesInv, LocationInv, RemoveCandidate, RowsOf, Sent,
       CandidateErased, MayMissQueue, CandidateExists, FileKey, Calls, Kinds
<1>4. QED BY <1>1, <1>2, <1>3

\* A job's status is in none of the other tables.
LEMMA UpdateJobStep ==
  ASSUME IndInv, NEW j \in Jobs, UpdateJob(j)
  PROVE  IndInv'
<1> USE NoIdAssumption DEF IndInv, broker
<1>1. TypeOK'
  BY DEF TypeOK, UpdateJob, JobStates
<1>2. TablesInv'
  BY DEF TypeOK, TablesInv, LocationInv, UpdateJob, JobStates,
         CandidateExists, Calls, Kinds
<1>3. ASSUME NEW x \in Requests
      PROVE  LocationInv(x)'
  BY DEF TypeOK, TablesInv, LocationInv, UpdateJob, JobStates, Sent,
       CandidateErased, MayMissQueue, CandidateExists, FileKey, Calls, Kinds
<1>4. QED BY <1>1, <1>2, <1>3

\* Nor is its deletion.
LEMMA RemoveJobStep ==
  ASSUME IndInv, NEW j \in Jobs, RemoveJob(j)
  PROVE  IndInv'
<1> USE NoIdAssumption DEF IndInv, broker
<1>1. TypeOK'
  BY DEF TypeOK, RemoveJob, JobStates
<1>2. TablesInv'
  BY DEF TypeOK, TablesInv, LocationInv, RemoveJob, JobStates,
         CandidateExists, Calls, Kinds
<1>3. ASSUME NEW x \in Requests
      PROVE  LocationInv(x)'
  BY DEF TypeOK, TablesInv, LocationInv, RemoveJob, JobStates, Sent,
       CandidateErased, MayMissQueue, CandidateExists, FileKey, Calls, Kinds
<1>4. QED BY <1>1, <1>2, <1>3

\* Every step of the system, or a stuttering step, preserves IndInv.
LEMMA NextIndInv == IndInv /\ [Next]_vars => IndInv'
<1> SUFFICES ASSUME IndInv, [Next]_vars
             PROVE  IndInv'
  OBVIOUS
<1>1. ASSUME NEW r \in Requests, Create(r)
      PROVE  IndInv'
  BY <1>1, FindOpenJobStep, FindCandidateStep, CreateCandidateStep,
     CheckDuplicateStep, QueryFailsStep, InsertApplicationStep DEF Create
<1>2. ASSUME NEW r \in Requests, CreateWithCv(r)
      PROVE  IndInv'
  BY <1>2, FindOpenJobStep, FindCandidateStep, CreateCandidateStep,
     CheckDuplicateStep, QueryFailsStep, UploadCvStep, InsertApplicationStep,
     PublishCvUploadedStep, BuildUploadResponseStep, RollbackRowStep,
     RollbackFileStep DEF CreateWithCv
<1>3. CASE UNCHANGED vars
  BY <1>3 DEF vars, db, broker, IndInv, TypeOK, TablesInv, LocationInv, Sent,
       CandidateErased, MayMissQueue, CandidateExists, FileKey
<1>4. QED
  BY <1>1, <1>2, <1>3, WithdrawStep, DeliverStep, LoseBufferedStep, CrashStep,
     RemoveCandidateStep, UpdateJobStep, RemoveJobStep, SetupTopologyStep
     DEF Next

\* The invariant behind all the safety properties holds in every reachable
\* state, for any number of requests, users and jobs.
THEOREM Invariance == Spec => []IndInv
  BY InitIndInv, NextIndInv, PTL DEF Spec

\* Type correctness, with the fact that every soft-deleted row is a row.
THEOREM TypeCorrect == Spec => []TypeOK
<1>1. IndInv => TypeOK
  BY DEF IndInv
<1>2. QED BY <1>1, Invariance, PTL

\* No interleaving of the application handlers with withdrawals, rollbacks and
\* candidate deletions gives one person two rows for one job.
THEOREM NoDuplicateApplication == Spec => []OneApplicationPerPerson
<1>1. IndInv => OneApplicationPerPerson
  BY DEF IndInv, TypeOK, TablesInv, OneApplicationPerPerson, CandidateExists
<1>2. QED BY <1>1, Invariance, PTL

\* A 201 is backed by the row, the CV file and the event.
THEOREM AcceptedBacked == Spec => []AcceptedIsBacked
<1>1. IndInv => AcceptedIsBacked
  BY DEF IndInv, LocationInv, AcceptedIsBacked, Sent
<1>2. QED BY <1>1, Invariance, PTL

\* A refused request leaves no row, event or file unless one of the recorded
\* failures hit it, and no candidate but the one its handler created for the
\* caller after the job check.
THEOREM RefusalClean == Spec => []RefusalLeavesOnlyCandidate
<1>1. IndInv => RefusalLeavesOnlyCandidate
  <2> SUFFICES ASSUME IndInv, NEW r \in Requests, fault[r] = {},
                      pc[r] \in {"error", "forbidden", "notFound", "conflict"}
               PROVE  /\ r \notin apps \cup buffer \cup queue
                      /\ FileKey(r) \notin files
                      /\ \A u \in Users : candidates[u] = r =>
                           u = call[r].user /\ pc[r] \in {"error", "conflict"}
    BY DEF RefusalLeavesOnlyCandidate
  <2>1. r \notin apps \cup buffer \cup queue /\ FileKey(r) \notin files
    BY DEF IndInv, LocationInv, Sent
  <2>2. ASSUME NEW u \in Users, candidates[u] = r
        PROVE  u = call[r].user /\ pc[r] \in {"error", "conflict"}
    BY <2>2, NoIdAssumption DEF IndInv, TablesInv
  <2>3. QED BY <2>1, <2>2
<1>2. QED BY <1>1, Invariance, PTL

\* A row without its CV file has one of two causes, neither a race.
THEOREM DanglingCv == Spec => []DanglingCvExplained
<1>1. IndInv => DanglingCvExplained
  <2> SUFFICES ASSUME IndInv, NEW r \in apps,
                      call[r].kind = "createWithCv", FileKey(r) \notin files
               PROVE  /\ pc[r] = "error"
                      /\ fault[r] \cap {"rowKept", "insertStored"} # {}
    BY DEF DanglingCvExplained
  <2>1. LocationInv(r) /\ pc[r] \in Working \cup Answered
    BY DEF IndInv, TypeOK
  <2>2. pc[r] = "error"
    BY <2>1 DEF LocationInv, Working, Answered
  <2>3. QED BY <2>1, <2>2 DEF LocationInv
<1>2. QED BY <1>1, Invariance, PTL

\* Every event that cv-parser can receive refers to an application that was
\* committed before the event was sent.
THEOREM EventsSound == Spec => []EventRefersToApplication
<1>1. IndInv => EventRefersToApplication
  <2> SUFFICES ASSUME IndInv, NEW r \in buffer \cup queue
               PROVE  /\ cand[r] # NoId
                      /\ r \in apps \/ CandidateErased(r)
                                    \/ "bufferFull" \in fault[r]
                      /\ FileKey(r) \in files \/ "bufferFull" \in fault[r]
    BY DEF EventRefersToApplication
  <2>1. /\ LocationInv(r)
        /\ pc[r] \in Working \cup Answered
        /\ call[r].kind \in Kinds
        /\ Sent(r)
    BY DEF IndInv, TypeOK, Calls, Sent
  <2>2. QED BY <2>1 DEF LocationInv, Working, Answered, Kinds
<1>2. QED BY <1>1, Invariance, PTL
-----------------------------------------------------------------------------
(* The refinement.  What LedgerBar, StateBar and WantsBar are after a step  *)
(* follows from what the step does to apps and pc; each action of the       *)
(* handlers is then one of the ledger's or a stuttering step.               *)

\* A slot of the ledger holds the one row of its person and job.
EntriesAreRows ==
  /\ LedgerBar \in [Slots -> Requests \cup {NoId}]
  /\ \A r \in Requests, s \in Slots :
       LedgerBar[s] = r <=> r \in apps /\ SlotOf(r) = s

\* A slot of the ledger holds the one live or withdrawn row of its person and job.
LEMMA LedgerEntries == IndInv => EntriesAreRows
<1>1. SUFFICES ASSUME IndInv, NEW s \in Slots
               PROVE  /\ LedgerBar[s] \in Requests \cup {NoId}
                      /\ \A r \in Requests :
                           LedgerBar[s] = r <=> r \in apps /\ SlotOf(r) = s
  BY DEF EntriesAreRows, LedgerBar
<1>2. EntryOf(s) \subseteq Requests
  BY <1>1 DEF EntryOf, IndInv, TypeOK
<1>3. \A r, q \in EntryOf(s) : r = q
  BY <1>1 DEF EntryOf, SlotOf, IndInv, TypeOK, TablesInv, CandidateExists
<1>4. CASE EntryOf(s) = {}
  BY <1>4, NoIdAssumption DEF LedgerBar, EntryOf
<1>5. CASE EntryOf(s) # {}
  <2>1. LedgerBar[s] \in EntryOf(s)
    BY <1>5 DEF LedgerBar
  <2>2. QED BY <1>2, <1>3, <2>1 DEF EntryOf
<1>6. QED BY <1>4, <1>5

\* The rows decide the ledger, in the new state as in the old one.
LEMMA SameRows ==
  ASSUME IndInv, IndInv', UNCHANGED <<call, apps>>
  PROVE  LedgerBar' = LedgerBar
BY DEF LedgerBar, EntryOf, SlotOf

\* A row inserted for a free pair fills that pair's slot and no other.
LEMMA RowAdded ==
  ASSUME IndInv, IndInv', NEW r \in Requests,
         call' = call, apps' = apps \cup {r}, LedgerBar[SlotOf(r)] = NoId
  PROVE  LedgerBar' = [LedgerBar EXCEPT ![SlotOf(r)] = r]
<1>1. EntriesAreRows'
  BY LedgerEntries, PTL
<1>2. EntriesAreRows
  BY LedgerEntries
<1>3. \A q \in Requests : SlotOf(q)' = SlotOf(q)
  BY DEF SlotOf
<1>4. ASSUME NEW s \in Slots
      PROVE  LedgerBar'[s] = IF s = SlotOf(r) THEN r ELSE LedgerBar[s]
  BY <1>1, <1>2, <1>3, NoIdAssumption DEF EntriesAreRows
<1>5. QED BY <1>1, <1>2, <1>4 DEF EntriesAreRows

\* A row that goes empties its slot and no other.
LEMMA RowRemoved ==
  ASSUME IndInv, IndInv', NEW r \in apps,
         call' = call, apps' = apps \ {r}
  PROVE  /\ LedgerBar[SlotOf(r)] = r
         /\ LedgerBar' = [LedgerBar EXCEPT ![SlotOf(r)] = NoId]
<1>1. EntriesAreRows'
  BY LedgerEntries, PTL
<1>2. EntriesAreRows
  BY LedgerEntries
<1>3. /\ \A q \in Requests : SlotOf(q)' = SlotOf(q) /\ SlotOf(q) \in Slots
      /\ r \in Requests
  BY DEF SlotOf, Slots, IndInv, TypeOK, Calls
<1>4. LedgerBar[SlotOf(r)] = r
  BY <1>2, <1>3 DEF EntriesAreRows
<1>5. ASSUME NEW s \in Slots
      PROVE  LedgerBar'[s] = IF s = SlotOf(r) THEN NoId ELSE LedgerBar[s]
  BY <1>1, <1>2, <1>3, NoIdAssumption DEF EntriesAreRows
<1>6. QED BY <1>1, <1>2, <1>4, <1>5 DEF EntriesAreRows

\* A handler moves: its state in the ledger follows.
LEMMA StateMoves ==
  ASSUME IndInv, NEW r \in Requests, NEW label, pc' = [pc EXCEPT ![r] = label]
  PROVE  StateBar' = [StateBar EXCEPT ![r] = StateOf(label)]
BY DEF StateBar, IndInv, TypeOK

\* Where the ledger sees a request, by the await its handler stands at.
LEMMA StatesOfLabels ==
  /\ \A l \in {"findJob", "findCandidate", "createCandidate", "checkDuplicate",
               "upload", "insert"} : StateOf(l) = "open"
  /\ \A l \in {"publish", "respond", "rollbackRow"} : StateOf(l) = "submitted"
  /\ StateOf("ok") = "confirmed"
  /\ \A l \in {"rollbackFile", "forbidden", "notFound", "conflict", "error",
               "crashed"} : StateOf(l) = "closed"
BY DEF StateOf, Answered

\* What was asked for does not change on the way.
LEMMA WantsStay ==
  ASSUME call' = call
  PROVE  WantsBar' = WantsBar
BY DEF WantsBar, SlotOf

\* A step of the handler that leaves its row alone: it stays where it was in the
\* ledger's eyes, confirms, or closes.
LEMMA QuietStep ==
  ASSUME IndInv, IndInv', NEW r \in Requests, NEW label,
         UNCHANGED <<call, apps>>, pc' = [pc EXCEPT ![r] = label],
         \/ StateOf(label) = StateOf(pc[r])
         \/ StateOf(pc[r]) = "submitted" /\ StateOf(label) = "confirmed"
         \/ StateOf(pc[r]) \in {"open", "submitted"} /\ StateOf(label) = "closed"
  PROVE  [Ledger!LNext]_(Ledger!lvars)
<1>1. LedgerBar' = LedgerBar /\ WantsBar' = WantsBar
  BY SameRows, WantsStay
<1>2. StateBar' = [StateBar EXCEPT ![r] = StateOf(label)]
  BY StateMoves
<1>3. StateBar[r] = StateOf(pc[r]) /\ StateBar = [q \in Requests |-> StateBar[q]]
  BY DEF StateBar
<1>4. CASE StateOf(label) = StateOf(pc[r])
  <2>1. StateBar' = StateBar
    BY <1>2, <1>3, <1>4
  <2>2. QED BY <1>1, <2>1 DEF Ledger!lvars
<1>5. CASE StateOf(pc[r]) = "submitted" /\ StateOf(label) = "confirmed"
  BY <1>1, <1>2, <1>3, <1>5 DEF Ledger!LNext, Ledger!Confirm
<1>6. CASE StateOf(pc[r]) \in {"open", "submitted"} /\ StateOf(label) = "closed"
  BY <1>1, <1>2, <1>3, <1>6 DEF Ledger!LNext, Ledger!Close
<1>7. QED BY <1>4, <1>5, <1>6

\* The insert enters the row into an empty slot: whoever holds the slot has the
\* pair that the index refuses.
LEMMA InsertSubmits ==
  ASSUME IndInv, IndInv', NEW r \in Requests, InsertApplication(r)
  PROVE  [Ledger!LNext]_(Ledger!lvars)
<1>1. PICK label \in {"ok", "publish", "error", "rollbackFile"} :
        pc' = [pc EXCEPT ![r] = label]
  BY DEF InsertApplication, InsertFailed, Goto
<1>2. StateOf(pc[r]) = "open" /\ call' = call
  BY StatesOfLabels DEF InsertApplication
<1>3. CASE apps' = apps \cup {r} /\ CandidateExists(r) /\ ~PairTaken(r)
  <2>1. SlotOf(r) \in Slots
    BY DEF SlotOf, Slots, IndInv, TypeOK, Calls
  <2>2. LedgerBar[SlotOf(r)] = NoId
    <3>1. \A q \in apps : SlotOf(q) # SlotOf(r)
      BY <1>3 DEF PairTaken, CandidateExists, SlotOf, IndInv, TablesInv
    <3>2. QED BY <2>1, <3>1 DEF LedgerBar, EntryOf
  <2>3. LedgerBar' = [LedgerBar EXCEPT ![SlotOf(r)] = r]
    BY <1>2, <1>3, <2>2, RowAdded
  <2>4. StateBar' = [StateBar EXCEPT ![r] = StateOf(label)] /\ StateBar[r] = "open"
    BY <1>1, <1>2, StateMoves DEF StateBar
  <2>5. WantsBar[r] = SlotOf(r) /\ WantsBar' = WantsBar
    BY <1>2, WantsStay DEF WantsBar
  <2>6. StateOf(label) \in {"submitted", "confirmed", "closed"}
    BY <1>1, StatesOfLabels
  <2>7. Ledger!Submit(r)
    BY <2>2, <2>3, <2>4, <2>5, <2>6 DEF Ledger!Submit, Ledger!States
  <2>8. QED BY <2>7 DEF Ledger!LNext
<1>4. CASE apps' = apps
  <2>1. label \in {"error", "rollbackFile"} \/ apps' = apps \cup {r}
    BY <1>1 DEF InsertApplication, InsertFailed, Goto, IndInv, TypeOK
  <2>2. CASE label \in {"error", "rollbackFile"}
    BY <1>1, <1>2, <1>4, <2>2, QuietStep, StatesOfLabels
  <2>3. CASE r \in apps
    BY <2>3 DEF InsertApplication, IndInv, LocationInv
  <2>4. QED BY <1>4, <2>1, <2>2, <2>3
<1>5. QED BY <1>3, <1>4 DEF InsertApplication

\* The rollback retracts the request's own entry, if it is still there.
LEMMA RollbackRetracts ==
  ASSUME IndInv, IndInv', NEW r \in Requests, RollbackRow(r)
  PROVE  [Ledger!LNext]_(Ledger!lvars)
<1>1. /\ pc' = [pc EXCEPT ![r] = "rollbackFile"] /\ call' = call
      /\ StateOf(pc[r]) = "submitted" /\ StateOf("rollbackFile") = "closed"
  BY StatesOfLabels DEF RollbackRow, Goto
<1>2. CASE apps' = apps
  BY <1>1, <1>2, QuietStep
<1>3. CASE apps' = apps \ {r} /\ r \in apps
  <2>1. /\ LedgerBar[SlotOf(r)] = r
        /\ LedgerBar' = [LedgerBar EXCEPT ![SlotOf(r)] = NoId]
    BY <1>1, <1>3, RowRemoved
  <2>2. StateBar' = [StateBar EXCEPT ![r] = "closed"] /\ StateBar[r] = "submitted"
    BY <1>1, StateMoves DEF StateBar
  <2>3. WantsBar[r] = SlotOf(r) /\ WantsBar' = WantsBar
    BY <1>1, WantsStay DEF WantsBar
  <2>4. Ledger!Retract(r)
    BY <2>1, <2>2, <2>3 DEF Ledger!Retract
  <2>5. QED BY <2>4 DEF Ledger!LNext
<1>4. QED BY <1>2, <1>3 DEF RollbackRow

\* The other steps of the two handlers.
LEMMA HandlerImplements ==
  ASSUME IndInv, IndInv', NEW r \in Requests, Create(r) \/ CreateWithCv(r)
  PROVE  [Ledger!LNext]_(Ledger!lvars)
<1>1. CASE InsertApplication(r) BY <1>1, InsertSubmits
<1>2. CASE RollbackRow(r) BY <1>2, RollbackRetracts
<1>3. ASSUME NEW from \in Working, NEW label,
             pc[r] = from, pc' = [pc EXCEPT ![r] = label], UNCHANGED <<call, apps>>,
             \/ StateOf(label) = StateOf(from)
             \/ StateOf(from) = "submitted" /\ StateOf(label) = "confirmed"
             \/ StateOf(from) \in {"open", "submitted"} /\ StateOf(label) = "closed"
      PROVE  [Ledger!LNext]_(Ledger!lvars)
  BY <1>3, QuietStep
<1>4. CASE FindOpenJob(r)
  <2>1. PICK label \in {"notFound", "forbidden", "findCandidate"} :
          pc' = [pc EXCEPT ![r] = label]
    BY <1>4 DEF FindOpenJob, Goto, IndInv, TypeOK, JobStates, Calls
  <2>2. QED BY <1>3, <1>4, <2>1, StatesOfLabels DEF FindOpenJob, Working, db
<1>5. CASE FindCandidate(r)
  BY <1>3, <1>5, StatesOfLabels DEF FindCandidate, Goto, Working, db
<1>6. CASE CreateCandidate(r)
  BY <1>3, <1>6, StatesOfLabels DEF CreateCandidate, Goto, Working
<1>7. CASE CheckDuplicate(r)
  <2>1. PICK label \in {"conflict", "insert", "upload"} :
          pc' = [pc EXCEPT ![r] = label]
    BY <1>7 DEF CheckDuplicate, Goto, IndInv, TypeOK, Calls, Kinds
  <2>2. QED BY <1>3, <1>7, <2>1, StatesOfLabels DEF CheckDuplicate, Working, db
<1>8. CASE QueryFails(r)
  BY <1>3, <1>8, StatesOfLabels DEF QueryFails, Goto, Working, db
<1>9. CASE UploadCv(r)
  BY <1>3, <1>9, StatesOfLabels DEF UploadCv, Goto, Working, db
<1>10. CASE PublishCvUploaded(r)
  BY <1>3, <1>10, StatesOfLabels DEF PublishCvUploaded, Goto, Working, db
<1>11. CASE BuildUploadResponse(r)
  BY <1>3, <1>11, StatesOfLabels DEF BuildUploadResponse, Goto, Working, db
<1>12. CASE RollbackFile(r)
  BY <1>3, <1>12, StatesOfLabels DEF RollbackFile, Goto, Working, db
<1>13. QED
  BY <1>1, <1>2, <1>4, <1>5, <1>6, <1>7, <1>8, <1>9, <1>10, <1>11, <1>12
     DEF Create, CreateWithCv

\* A process that dies closes its request, with or without an entry.
LEMMA CrashCloses ==
  ASSUME IndInv, IndInv', NEW r \in Requests, Crash(r)
  PROVE  [Ledger!LNext]_(Ledger!lvars)
<1>1. pc' = [pc EXCEPT ![r] = "crashed"] /\ UNCHANGED <<call, apps>>
  BY DEF Crash, Goto, db
<1>2. StateOf("crashed") = "closed" /\ StateOf(pc[r]) \in {"open", "submitted", "closed"}
  BY StatesOfLabels DEF Crash, Working
<1>3. QED BY <1>1, <1>2, QuietStep

\* The rows of a candidate are those of one person, in every job.
LEMMA RemoveErases ==
  ASSUME IndInv, IndInv', NEW u \in Users, RemoveCandidate(u)
  PROVE  Ledger!LNext
<1>1. EntriesAreRows'
  BY LedgerEntries, PTL
<1>2. EntriesAreRows
  BY LedgerEntries
<1>3. \A q \in Requests : SlotOf(q)' = SlotOf(q) /\ SlotOf(q).user = call[q].user
  BY DEF SlotOf, RemoveCandidate
<1>4. \A q \in apps : q \in apps' <=> call[q].user # u
  BY DEF RemoveCandidate, RowsOf, IndInv, TypeOK, TablesInv, CandidateExists, Calls
<1>5. apps' \subseteq apps
  BY DEF RemoveCandidate
<1>6. ASSUME NEW s \in Slots
      PROVE  LedgerBar'[s] = IF s.user = u THEN NoId ELSE LedgerBar[s]
  <2>1. apps \subseteq Requests
    BY DEF IndInv, TypeOK
  <2>2. QED BY <1>1, <1>2, <1>3, <1>4, <1>5, <2>1, NoIdAssumption
       DEF EntriesAreRows
<1>7. WantsBar' = WantsBar /\ StateBar' = StateBar
  BY WantsStay DEF RemoveCandidate, StateBar
<1>8. LedgerBar' = [s \in Slots |-> IF s.user = u THEN NoId ELSE LedgerBar[s]]
  BY <1>1, <1>6 DEF EntriesAreRows
<1>9. Ledger!Erase(u)
  BY <1>7, <1>8 DEF Ledger!Erase, Ledger!Slots, Slots
<1>10. QED BY <1>9 DEF Ledger!LNext

\* Nothing else is seen in the ledger.
LEMMA OthersStutter ==
  ASSUME IndInv, IndInv', UNCHANGED <<call, apps, pc>>
  PROVE  UNCHANGED Ledger!lvars
BY SameRows, WantsStay DEF Ledger!lvars, StateBar

\* Every step of the endpoints is a step of the ledger or none.
LEMMA NextImplements == IndInv /\ IndInv' /\ [Next]_vars => [Ledger!LNext]_(Ledger!lvars)
<1>1. SUFFICES ASSUME IndInv, IndInv', [Next]_vars
               PROVE  [Ledger!LNext]_(Ledger!lvars)
  OBVIOUS
<1>2. ASSUME NEW r \in Requests, Withdraw(r) \/ Deliver(r) \/ LoseBuffered(r)
      PROVE  UNCHANGED <<call, apps, pc>>
  BY <1>2 DEF Withdraw, Deliver, LoseBuffered, db
<1>3. ASSUME NEW j \in Jobs, UpdateJob(j) \/ RemoveJob(j)
      PROVE  UNCHANGED <<call, apps, pc>>
  BY <1>3 DEF UpdateJob, RemoveJob
<1>4. CASE UNCHANGED vars
  BY <1>1, <1>4, OthersStutter DEF vars, db
<1>5. ASSUME SetupTopology
      PROVE  UNCHANGED <<call, apps, pc>>
  BY <1>5 DEF SetupTopology, db
<1>6. QED
  BY <1>1, <1>2, <1>3, <1>4, <1>5, HandlerImplements, CrashCloses,
     RemoveErases, OthersStutter DEF Next

\* Before the first request the ledger is empty.
LEMMA InitImplements == Init => Ledger!LInit
<1>1. SUFFICES ASSUME Init PROVE Ledger!LInit
  OBVIOUS
<1>2. WantsBar \in [Requests -> Slots]
  BY <1>1 DEF Init, WantsBar, SlotOf, Slots, Calls
<1>3. LedgerBar = [s \in Slots |-> NoId]
  BY <1>1 DEF Init, LedgerBar, EntryOf
<1>4. StateBar = [r \in Requests |-> "open"]
  BY <1>1, StatesOfLabels DEF Init, StateBar
<1>5. QED BY <1>2, <1>3, <1>4 DEF Ledger!LInit, Ledger!Slots, Slots

\* The two handlers, with withdrawals, deletions, rollbacks and crashes between
\* any two of their steps, behave like the ledger: one entry per person and job,
\* entered once, and never retracted after a 201.
THEOREM LedgerImplemented == Spec => ImplementsLedger
<1>1. QED BY Invariance, InitImplements, NextImplements, PTL
          DEF Spec, ImplementsLedger, Ledger!LSpec
=============================================================================
