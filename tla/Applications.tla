---------------------------- MODULE Applications ----------------------------
(***************************************************************************)
(* Applying to a job through the API gateway: POST /applications and       *)
(* POST /applications/upload (ApplicationsService.create, createWithCv),   *)
(* interleaved with withdrawals, candidate deletion, job changes, the loss *)
(* of buffered messages, a broker that does not know the topology yet and  *)
(* the death of a gateway process.                                         *)
(*                                                                         *)
(* Every await of the handlers is a step of its own, so that other         *)
(* requests run between a check and the write that relies on it.  Three    *)
(* stores take part and no transaction spans them: the database            *)
(* (candidates, applications), the object store (CV files) and RabbitMQ.   *)
(*                                                                         *)
(* A request stands for everything it is the only one to create: its       *)
(* candidate id, its application id and the random UUID of its file key.   *)
(* Row r keeps the jobId and candidateId it was inserted with, since       *)
(* UpdateApplicationDto has neither: they are call[r].job and cand[r].     *)
(* createWithCv alone writes files; a cvFileKey that the caller of create  *)
(* put into its body refers to nothing this service stored and is left out.*)
(***************************************************************************)

CONSTANTS Requests,    \* apply requests, each sent at most once
          Users,       \* authenticated callers; a user's email never changes
          Jobs,
          NoId         \* null

ASSUME NoIdAssumption == NoId \notin Requests

VARIABLES call,        \* the request's handler, caller and jobId
          pc,          \* where the handler is, or the status it answered
          cand,        \* the handler's local `candidate.id`
          jobs,        \* jobs table
          candidates,  \* candidates table: the row with the user's email
          apps,        \* applications table: ids of the rows
          withdrawn,   \* rows with deletedAt set
          files,       \* keys present in the object store
          buffer,      \* messages in the AMQP channel's write buffer
          bound,       \* the broker has the exchange, the queue and its binding
          queue,       \* messages the broker has accepted for cv-parser
          fault        \* observation only: failures that hit the request

db == <<jobs, candidates, apps, withdrawn>>
broker == <<bound, queue>>
vars == <<call, pc, cand, db, files, buffer, broker, fault>>

Kinds == {"create", "createWithCv"}
Calls == [kind : Kinds, user : Users, job : Jobs]
JobStates == {"OPEN", "NOT_OPEN", "DELETED"}

\* Answers: 201, 403, 404, 409 and 500; "crashed" is a process that died.
Answered == {"ok", "forbidden", "notFound", "conflict", "error", "crashed"}
Working == {"findJob", "findCandidate", "createCandidate", "checkDuplicate",
            "upload", "insert", "publish", "respond",
            "rollbackRow", "rollbackFile"}

\* Failures that no later step of the handler can see or undo.
Faults == {"uploadStored",  \* upload threw, but the object was stored
           "insertStored",  \* application.create threw, but it committed
           "bufferFull",    \* publish returned false: sent, and reported as not
           "rowKept",       \* the rollback's application.delete failed
           "fileKept",      \* the rollback's storage.delete failed
           "unbound",       \* the event was published before the binding was made
           "eventLost",     \* the buffered message died with the connection
           "crash"}

TypeOK ==
  /\ call \in [Requests -> Calls]
  /\ pc \in [Requests -> Working \cup Answered]
  /\ cand \in [Requests -> Requests \cup {NoId}]
  /\ jobs \in [Jobs -> JobStates]
  /\ candidates \in [Users -> Requests \cup {NoId}]
  /\ apps \subseteq Requests
  /\ withdrawn \subseteq apps
  /\ files \subseteq Requests
  /\ buffer \subseteq Requests
  /\ bound \in BOOLEAN
  /\ queue \subseteq Requests
  /\ fault \in [Requests -> SUBSET Faults]

Init ==
  /\ call \in [Requests -> Calls]
  /\ pc = [r \in Requests |-> "findJob"]
  /\ cand = [r \in Requests |-> NoId]
  /\ jobs \in [Jobs -> JobStates]
  /\ candidates = [u \in Users |-> NoId]
  /\ apps = {} /\ withdrawn = {} /\ files = {} /\ buffer = {} /\ queue = {}
  /\ bound = FALSE
  /\ fault = [r \in Requests |-> {}]

-----------------------------------------------------------------------------
(* Database constraints (schema.prisma / migration.sql).                    *)

\* @@unique([jobId, candidateId]): soft-deleted rows count.
PairTaken(r) == \E s \in apps : /\ call[s].job = call[r].job
                                /\ cand[s] = cand[r]

\* The foreign key applications.candidate_id.
CandidateExists(r) == candidates[call[r].user] = cand[r]

\* What `findFirst({jobId, candidateId, deletedAt: null})` looks for.
LiveApplication(r) == \E s \in apps \ withdrawn : /\ call[s].job = call[r].job
                                                  /\ cand[s] = cand[r]

\* Faulty variant: a key made from the caller instead of a random UUID.
KeyPerUser(r) == CHOOSE s \in Requests : call[s].user = call[r].user

\* generateCvFileKey: a fresh UUID per call.
FileKey(r) == r

Goto(r, label) == pc' = [pc EXCEPT ![r] = label]
Record(r, fs) == fault' = [fault EXCEPT ![r] = @ \cup fs]
Suffers(r, f) == Record(r, {f})

-----------------------------------------------------------------------------
(* The handlers.                                                            *)

\* job.findUnique, then 404, 403 or on.
FindOpenJob(r) ==
  /\ pc[r] = "findJob"
  /\ Goto(r, CASE jobs[call[r].job] = "DELETED"  -> "notFound"
               [] jobs[call[r].job] = "NOT_OPEN" -> "forbidden"
               [] jobs[call[r].job] = "OPEN"     -> "findCandidate")
  /\ UNCHANGED <<call, cand, db, files, buffer, broker, fault>>

\* user.findUnique and candidate.findUnique by the user's (immutable) email.
FindCandidate(r) ==
  /\ pc[r] = "findCandidate"
  /\ IF candidates[call[r].user] # NoId
       THEN /\ cand' = [cand EXCEPT ![r] = candidates[call[r].user]]
            /\ Goto(r, "checkDuplicate")
       ELSE /\ Goto(r, "createCandidate")
            /\ UNCHANGED cand
  /\ UNCHANGED <<call, db, files, buffer, broker, fault>>

\* candidate.create; the unique email rejects the slower of two requests.
CreateCandidate(r) ==
  /\ pc[r] = "createCandidate"
  /\ \/ /\ candidates[call[r].user] = NoId
        /\ candidates' = [candidates EXCEPT ![call[r].user] = r]
        /\ \/ /\ cand' = [cand EXCEPT ![r] = r]
              /\ Goto(r, "checkDuplicate")
           \/ Goto(r, "error") /\ UNCHANGED cand  \* committed, answer lost
     \/ /\ candidates[call[r].user] # NoId
        /\ Goto(r, "error")
        /\ UNCHANGED <<cand, candidates>>
  /\ UNCHANGED <<call, jobs, apps, withdrawn, files, buffer, broker, fault>>

\* ensureNoDuplicateApplication.
CheckDuplicate(r) ==
  /\ pc[r] = "checkDuplicate"
  /\ Goto(r, CASE LiveApplication(r)         -> "conflict"
               [] ~LiveApplication(r) /\ call[r].kind = "create" -> "insert"
               [] ~LiveApplication(r) /\ call[r].kind = "createWithCv" -> "upload")
  /\ UNCHANGED <<call, cand, db, files, buffer, broker, fault>>

\* An await outside the try block fails: nothing is undone, the filter says 500.
\* A candidate that the handler has just created stays.
QueryFails(r) ==
  /\ pc[r] \in {"findJob", "findCandidate", "createCandidate",
                "checkDuplicate"}
  /\ Goto(r, "error")
  /\ UNCHANGED <<call, cand, db, files, buffer, broker, fault>>

\* storageService.upload; a failure is answered without a storage.delete.
UploadCv(r) ==
  /\ pc[r] = "upload"
  /\ \/ /\ files' = files \cup {FileKey(r)}
        /\ Goto(r, "insert")
        /\ UNCHANGED fault
     \/ /\ Goto(r, "error")
        /\ UNCHANGED <<files, fault>>
     \/ /\ files' = files \cup {FileKey(r)}
        /\ Goto(r, "error")
        /\ Suffers(r, "uploadStored")
  /\ UNCHANGED <<call, cand, db, buffer, broker>>

\* create has no file to clean up; createWithCv enters its catch block with
\* applicationId still null, so the rollback skips the row.
InsertFailed(r) ==
  Goto(r, IF call[r].kind = "create" THEN "error" ELSE "rollbackFile")

\* Faulty variant: no foreign key on applications.candidate_id.
InsertUnchecked(r) ==
  /\ pc[r] = "insert"
  /\ \/ /\ ~PairTaken(r)
        /\ apps' = apps \cup {r}
        /\ \/ /\ Goto(r, IF call[r].kind = "create" THEN "ok" ELSE "publish")
              /\ UNCHANGED fault
           \/ InsertFailed(r) /\ Suffers(r, "insertStored")
     \/ InsertFailed(r) /\ UNCHANGED <<apps, fault>>
  /\ UNCHANGED <<call, cand, jobs, candidates, withdrawn, files, buffer, broker>>

\* application.create: the unique pair and the foreign key decide, not the
\* earlier check; any error, theirs or an outage, is the same catch block.
InsertApplication(r) ==
  /\ pc[r] = "insert"
  /\ \/ /\ CandidateExists(r) /\ ~PairTaken(r)
        /\ apps' = apps \cup {r}
        /\ \/ /\ Goto(r, IF call[r].kind = "create" THEN "ok" ELSE "publish")
              /\ UNCHANGED fault
           \/ InsertFailed(r) /\ Suffers(r, "insertStored")
     \/ InsertFailed(r) /\ UNCHANGED <<apps, fault>>
  /\ UNCHANGED <<call, cand, jobs, candidates, withdrawn, files, buffer, broker>>

\* The channel is there from createChannel on, before setupTopology has made
\* the exchange, the queue and the binding: publish does not ask for them.
Window == IF bound THEN {} ELSE {"unbound"}

\* Faulty variant: an error of publish is logged and not thrown.
PublishErrorSwallowed(r) ==
  /\ pc[r] = "publish"
  /\ \/ buffer' = buffer \cup {r} /\ Record(r, Window)
     \/ UNCHANGED <<buffer, fault>>
  /\ Goto(r, "respond")
  /\ UNCHANGED <<call, cand, db, files, broker>>

\* publishCvUploaded, synchronous up to the write into the channel buffer.
\* channel.publish returns false for a message it has buffered all the same.
PublishCvUploaded(r) ==
  /\ pc[r] = "publish"
  /\ \/ /\ buffer' = buffer \cup {r}
        /\ Goto(r, "respond")
        /\ Record(r, Window)
     \/ /\ buffer' = buffer \cup {r}
        /\ Goto(r, "rollbackRow")
        /\ Record(r, Window \cup {"bufferFull"})
     \/ /\ Goto(r, "rollbackRow")       \* no channel, or publish threw
        /\ UNCHANGED <<buffer, fault>>
  /\ UNCHANGED <<call, cand, db, files, broker>>

\* Faulty variant: an error of getSignedUrl reaches the catch block.
RollBackIfUnsigned(r) ==
  /\ pc[r] = "respond"
  /\ Goto(r, "ok") \/ Goto(r, "rollbackRow")
  /\ UNCHANGED <<call, cand, db, files, buffer, broker, fault>>

\* buildUploadResponse: a failed getSignedUrl is swallowed.
BuildUploadResponse(r) ==
  /\ pc[r] = "respond"
  /\ Goto(r, "ok")
  /\ UNCHANGED <<call, cand, db, files, buffer, broker, fault>>

\* rollbackCreateWithCv, first half: application.delete of the own row.  A
\* row that is already gone, like any other error, is logged and ignored.
RollbackRow(r) ==
  /\ pc[r] = "rollbackRow"
  /\ \/ /\ apps' = apps \ {r}
        /\ withdrawn' = withdrawn \ {r}
        /\ UNCHANGED fault
     \/ /\ r \in apps
        /\ Suffers(r, "rowKept")
        /\ UNCHANGED <<apps, withdrawn>>
  /\ Goto(r, "rollbackFile")
  /\ UNCHANGED <<call, cand, jobs, candidates, files, buffer, broker>>

\* Faulty variant: the rollback deletes the row alone.
RollbackNoFile(r) ==
  /\ pc[r] = "rollbackFile"
  /\ Goto(r, "error")
  /\ UNCHANGED <<call, cand, db, files, buffer, broker, fault>>

\* rollbackCreateWithCv, second half: storage.delete, errors ignored; then
\* InternalServerErrorException.
RollbackFile(r) ==
  /\ pc[r] = "rollbackFile"
  /\ \/ /\ files' = files \ {FileKey(r)}
        /\ UNCHANGED fault
     \/ /\ Suffers(r, "fileKept")
        /\ UNCHANGED files
  /\ Goto(r, "error")
  /\ UNCHANGED <<call, cand, db, buffer, broker>>

Create(r) ==
  /\ call[r].kind = "create"
  /\ \/ FindOpenJob(r) \/ FindCandidate(r) \/ CreateCandidate(r)
     \/ CheckDuplicate(r) \/ QueryFails(r) \/ InsertApplication(r)

CreateWithCv(r) ==
  /\ call[r].kind = "createWithCv"
  /\ \/ FindOpenJob(r) \/ FindCandidate(r) \/ CreateCandidate(r)
     \/ CheckDuplicate(r) \/ QueryFails(r) \/ UploadCv(r)
     \/ InsertApplication(r) \/ PublishCvUploaded(r) \/ BuildUploadResponse(r)
     \/ RollbackRow(r) \/ RollbackFile(r)

-----------------------------------------------------------------------------
(* The other operations on the same rows.                                   *)

\* ApplicationsService.remove by the applicant or an admin: soft delete.  Its
\* findOne only asks for a live row with this id; a second, concurrent
\* withdrawal writes the same values again.
Withdraw(r) ==
  /\ r \in apps \ withdrawn
  /\ withdrawn' = withdrawn \cup {r}
  /\ UNCHANGED <<call, pc, cand, jobs, candidates, apps, files, buffer, broker,
                 fault>>

RowsOf(c) == {r \in apps : cand[r] = c}

\* CandidatesService.remove: a hard delete that cascades to the rows of the
\* candidate, and to nothing outside the database.
RemoveCandidate(u) ==
  /\ candidates[u] # NoId
  /\ candidates' = [candidates EXCEPT ![u] = NoId]
  /\ apps' = apps \ RowsOf(candidates[u])
  /\ withdrawn' = withdrawn \ RowsOf(candidates[u])
  /\ UNCHANGED <<call, pc, cand, jobs, files, buffer, broker, fault>>

\* JobsService.update (any status to any status) and remove (soft delete).
UpdateJob(j) ==
  /\ jobs[j] # "DELETED"
  /\ \E s \in {"OPEN", "NOT_OPEN"} : jobs' = [jobs EXCEPT ![j] = s]
  /\ UNCHANGED <<call, pc, cand, candidates, apps, withdrawn, files, buffer,
                 broker, fault>>

RemoveJob(j) ==
  /\ jobs[j] # "DELETED"
  /\ jobs' = [jobs EXCEPT ![j] = "DELETED"]
  /\ UNCHANGED <<call, pc, cand, candidates, apps, withdrawn, files, buffer,
                 broker, fault>>

-----------------------------------------------------------------------------
(* The environment.                                                         *)

\* setupTopology of this gateway, of another process of it, or the declarations
\* of cv-parser: of the four asserts only the last, the binding, makes a
\* message routable.  All that they make is durable.
SetupTopology ==
  /\ ~bound
  /\ bound' = TRUE
  /\ UNCHANGED <<call, pc, cand, db, files, buffer, queue, fault>>

\* The channel's buffer reaches the broker.  It is not published as mandatory:
\* without the binding the broker discards it, and without the exchange it
\* closes the channel as well, with what else is buffered there (LoseBuffered).
Deliver(r) ==
  /\ r \in buffer
  /\ buffer' = buffer \ {r}
  /\ queue' = IF bound THEN queue \cup {r} ELSE queue
  /\ UNCHANGED <<call, pc, cand, db, files, bound, fault>>

\* A buffered message is lost with its connection: publish is not confirmed.
LoseBuffered(r) ==
  /\ r \in buffer
  /\ buffer' = buffer \ {r}
  /\ Suffers(r, "eventLost")
  /\ UNCHANGED <<call, pc, cand, db, files, broker>>

\* The process that serves the request dies.
Crash(r) ==
  /\ pc[r] \in Working
  /\ Goto(r, "crashed")
  /\ Suffers(r, "crash")
  /\ UNCHANGED <<call, cand, db, files, buffer, broker>>

Next ==
  \/ \E r \in Requests : \/ Create(r) \/ CreateWithCv(r) \/ Withdraw(r)
                         \/ Deliver(r) \/ LoseBuffered(r) \/ Crash(r)
  \/ \E u \in Users : RemoveCandidate(u)
  \/ \E j \in Jobs : UpdateJob(j) \/ RemoveJob(j)
  \/ SetupTopology

Spec == Init /\ [][Next]_vars

\* The socket drains while its connection lives.  Nothing is assumed of the
\* handlers, of failures, or of when the topology is made.
Fairness == \A r \in Requests : WF_vars(Deliver(r))
FairSpec == Spec /\ Fairness

-----------------------------------------------------------------------------
(* Properties.                                                              *)

CandidateErased(r) == cand[r] # NoId /\ ~CandidateExists(r)

\* The two ways to lose an event that was handed to the channel.
MayMissQueue(r) == "unbound" \in fault[r] \/ "eventLost" \in fault[r]

\* Two handlers that both passed the duplicate check, a re-created candidate
\* or a withdrawal never give one person two rows for one job: neither check
\* of the code is atomic with the insert, so this rests on the unique pair,
\* the foreign key and the cascade together.
OneApplicationPerPerson ==
  \A r, s \in apps : call[r].user = call[s].user /\ call[r].job = call[s].job
                     => r = s

\* What a 201 promises, whatever the other requests roll back meanwhile: the
\* row is there unless the candidate was deleted and, for an upload, the CV is
\* in the store and the cv.uploaded event is on its way or queued, unless its
\* connection died or it was published before the broker had the binding.
AcceptedIsBacked ==
  \A r \in Requests :
    pc[r] = "ok" =>
      /\ r \in apps \/ CandidateErased(r)
      /\ call[r].kind = "createWithCv" =>
           /\ FileKey(r) \in files
           /\ r \in buffer \cup queue \/ MayMissQueue(r)

\* A 500 (or 403, 404, 409) leaves no application row, event or file unless a
\* step of the rollback itself failed or a store answered an error for work it
\* had done.  The candidate that the handler committed before (createCandidate)
\* nobody rolls back: it stays, and is the caller's own and of a request that
\* got past the job check.
RefusalLeavesOnlyCandidate ==
  \A r \in Requests :
    /\ pc[r] \in {"error", "forbidden", "notFound", "conflict"}
    /\ fault[r] = {}
    => /\ r \notin apps \cup buffer \cup queue /\ FileKey(r) \notin files
       /\ \A u \in Users : candidates[u] = r =>
            u = call[r].user /\ pc[r] \in {"error", "conflict"}

\* A row whose cvFileKey points at nothing exists only after the catch block
\* deleted the file of a row it could not delete (or did not know of): no
\* crash and no race between requests produces one.
DanglingCvExplained ==
  \A r \in apps :
    call[r].kind = "createWithCv" /\ FileKey(r) \notin files =>
      /\ pc[r] = "error"
      /\ fault[r] \cap {"rowKept", "insertStored"} # {}

\* cv-parser never receives an event for an application that was not
\* committed first; it finds the row gone only if the candidate was deleted
\* or publish reported a full buffer, and the file gone only in the latter.
EventRefersToApplication ==
  \A r \in buffer \cup queue :
    /\ cand[r] # NoId
    /\ r \in apps \/ CandidateErased(r) \/ "bufferFull" \in fault[r]
    /\ FileKey(r) \in files \/ "bufferFull" \in fault[r]

(* The inductive invariant behind these: how the tables hang together, and  *)
(* what each program location knows about the request's own traces.         *)

\* A candidate id belongs to one email and is new when it is created; rows
\* reference an existing candidate; one row per pair.
TablesInv ==
  /\ \A u \in Users : candidates[u] # NoId => call[candidates[u]].user = u
  /\ \A c \in Requests : pc[c] \in {"findJob", "findCandidate", "createCandidate",
                                   "notFound", "forbidden"}
       => /\ cand[c] = NoId
          /\ \A u \in Users : candidates[u] # c
          /\ \A r \in Requests : cand[r] # c
  /\ \A r \in apps : cand[r] # NoId /\ CandidateExists(r)
  /\ \A r, s \in apps : call[r].job = call[s].job /\ cand[r] = cand[s] => r = s

Sent(r) == r \in buffer \cup queue

LocationInv(r) ==
  /\ pc[r] \in {"findJob", "findCandidate", "createCandidate",
                "checkDuplicate", "upload", "notFound", "forbidden", "conflict"}
       => r \notin apps /\ ~Sent(r) /\ FileKey(r) \notin files
  /\ pc[r] \in {"checkDuplicate", "upload", "insert", "publish", "respond",
                "rollbackRow", "ok"} => cand[r] # NoId
  /\ pc[r] = "insert" => r \notin apps /\ ~Sent(r)
  /\ pc[r] = "publish" => ~Sent(r)
  /\ pc[r] \in {"publish", "respond", "rollbackRow", "ok"}
       => r \in apps \/ CandidateErased(r)
  /\ pc[r] \in {"insert", "publish", "respond", "rollbackRow", "rollbackFile",
                "ok"} /\ call[r].kind = "createWithCv" => FileKey(r) \in files
  /\ pc[r] \in {"respond", "ok"} /\ call[r].kind = "createWithCv"
       => Sent(r) \/ MayMissQueue(r)
  /\ r \in buffer => bound \/ "unbound" \in fault[r]
  /\ pc[r] \in {"rollbackRow", "rollbackFile", "error"} /\ Sent(r)
       => "bufferFull" \in fault[r]
  /\ pc[r] \in {"rollbackFile", "error"} /\ r \in apps
       => "rowKept" \in fault[r] \/ "insertStored" \in fault[r]
  /\ pc[r] = "error" /\ FileKey(r) \in files
       => "uploadStored" \in fault[r] \/ "fileKept" \in fault[r]
  /\ pc[r] = "crashed" /\ r \in apps /\ call[r].kind = "createWithCv"
       => FileKey(r) \in files
  /\ pc[r] = "crashed" /\ Sent(r)
       => /\ FileKey(r) \in files
          /\ r \in apps \/ CandidateErased(r) \/ "bufferFull" \in fault[r]
  /\ Sent(r) => cand[r] # NoId
  /\ call[r].kind = "create"
       => /\ FileKey(r) \notin files /\ ~Sent(r)
          /\ pc[r] \notin {"upload", "publish", "respond", "rollbackRow",
                           "rollbackFile"}

\* Inductive: every step of every request preserves it, whatever its own
\* progress and that of the others.
IndInv == TypeOK /\ TablesInv /\ \A r \in Requests : LocationInv(r)

\* Every accepted upload reaches cv-parser's queue, or was in the buffer of a
\* connection that died, or was published on a new channel whose topology the
\* broker did not have yet.
AcceptedUploadIsQueued ==
  \A r \in Requests : pc[r] = "ok" /\ call[r].kind = "createWithCv"
                      ~> r \in queue \/ MayMissQueue(r)

-----------------------------------------------------------------------------
(* The handlers implement the ledger.                                       *)

SlotOf(r) == [user |-> call[r].user, job |-> call[r].job]
EntryOf(s) == {r \in apps : SlotOf(r) = s}
StateOf(label) == CASE label \in {"publish", "respond", "rollbackRow"}
                                                           -> "submitted"
                    [] label = "ok"                        -> "confirmed"
                    [] label \in {"rollbackFile"} \cup (Answered \ {"ok"})
                                                           -> "closed"
                    [] OTHER                               -> "open"

Slots == [user : Users, job : Jobs]
WantsBar == [r \in Requests |-> SlotOf(r)]
LedgerBar == [s \in Slots |-> IF EntryOf(s) = {} THEN NoId
                                                ELSE CHOOSE r \in EntryOf(s) : TRUE]
StateBar == [r \in Requests |-> StateOf(pc[r])]

Ledger == INSTANCE ApplicationLedger WITH
            wants <- WantsBar, ledger <- LedgerBar, state <- StateBar

\* Under every interleaving, rollback and crash the application table behaves
\* like the ledger: one entry per person and job, entered once, and never
\* retracted after the request was answered with success.
ImplementsLedger == Ledger!LSpec

-----------------------------------------------------------------------------
(* What comments, messages and API docs say and the code does not do.       *)

\* applications.controller.ts documents 409 "Already applied to this job" and
\* the schema says the unique pair is there to "Prevent duplicate
\* applications": the check that answers 409 should let a request through
\* only if that index would, at that moment, accept its row.
DuplicateCheckAgreesWithIndex ==
  [][\A r \in Requests :
       pc[r] = "checkDuplicate" /\ pc'[r] \in {"upload", "insert"}
       => ~PairTaken(r)]_vars

\* queue.service.ts logs "Message was not published" when publish returns
\* false, and the rollback relies on it: no event of a refused request is
\* ever queued.
RefusedIsNotQueued == \A r \in queue : pc[r] # "error"
=============================================================================
