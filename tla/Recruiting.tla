------------------------------ MODULE Recruiting ------------------------------
(***************************************************************************)
(* Working on existing applications: ApplicationsService.update and remove,*)
(* InterviewsService.create, update and remove, with the deletion of       *)
(* candidates and users.  Each handler reads rows, decides, and writes by  *)
(* id in a later await without asking again, so what it decided on may be  *)
(* stale when it writes.                                                   *)
(*                                                                         *)
(* What does not change while a handler runs is part of its call: the      *)
(* job's createdById, the applicant's email and the role that JwtStrategy  *)
(* read make the caller "recruiter" (the job's owner), "admin",            *)
(* "applicant" or "other" for the application.  The owner of a job who     *)
(* applied for it may do what an admin may.                                *)
(***************************************************************************)
CONSTANTS Handlers,  \* one request each
          Apps,      \* applications, each of a candidate of its own
          Users,     \* users that may be interviewers
          None       \* null, or a field that the DTO leaves out

ASSUME RecruitingAssumption == None \notin Handlers \cup Users

VARIABLES pc,          \* where a handler is, or what it answered
          call,        \* its operation and arguments
          seen,        \* the status of the application it read
          apps,        \* rows of applications
          withdrawn,   \* rows with deletedAt set
          status,      \* column status
          stage,       \* columns stage and notes: who wrote them last
          letter,      \* column coverLetter: who wrote it last
          reviewed,    \* column reviewedAt: who stamped it last
          interviews,  \* rows of interviews; the id is that of their creator
          progress,    \* column status of interviews
          interviewer, \* column interviewerId of interviews
          active       \* users without deletedAt

rows == <<apps, withdrawn, status, stage, letter, reviewed>>
meetings == <<interviews, progress, interviewer>>
vars == <<pc, call, seen, rows, meetings, active>>

\* The default, WITHDRAWN, and one that stands for all the others.
Statuses == {"SUBMITTED", "REVIEWING", "WITHDRAWN"}
\* The default, CANCELLED, and one that stands for all the others.
Progress == {"SCHEDULED", "COMPLETED", "CANCELLED"}
Callers == {"recruiter", "admin", "applicant", "other"}

\* UpdateApplicationDto; `stage` stands for stage and notes: None, or a value
\* that the code's test for presence notices, or one that it takes for absent
\* (notes that are null or empty) and Prisma writes all the same.
UpdateCalls == [op : {"update"}, app : Apps, caller : Callers,
                status : Statuses \cup {None}, stage : {None, "text", "blank"},
                letter : BOOLEAN]
RemoveCalls == [op : {"remove"}, app : Apps, caller : Callers]
\* CreateInterviewDto, UpdateInterviewDto; `past` says that scheduledAt is not
\* in the future, "nobody" is the null that takes the interviewer away.
CreateCalls == [op : {"createInterview"}, app : Apps,
                interviewer : Users \cup {None}, past : BOOLEAN]
ChangeCalls == [op : {"updateInterview"}, interview : Handlers,
                interviewer : Users \cup {None, "nobody"}, past : BOOLEAN,
                progress : Progress \cup {None}]
CancelCalls == [op : {"removeInterview"}, interview : Handlers]
Calls == UpdateCalls \cup RemoveCalls \cup CreateCalls \cup ChangeCalls
         \cup CancelCalls

Refused == {"notFound", "forbidden", "badRequest"}
Answered == {"ok", "error"} \cup Refused
Working == {"find", "access", "interviewer", "write"}

TypeOK ==
  /\ pc \in [Handlers -> {"idle"} \cup Working \cup Answered]
  /\ call \in [Handlers -> Calls \cup {None}]
  /\ \A h \in Handlers : pc[h] # "idle" => call[h] \in Calls
  /\ seen \in [Handlers -> Statuses]
  /\ apps \subseteq Apps /\ withdrawn \subseteq apps
  /\ status \in [Apps -> Statuses]
  /\ stage \in [Apps -> Handlers \cup {None}]
  /\ letter \in [Apps -> Handlers \cup {None}]
  /\ reviewed \in [Apps -> Handlers \cup {None}]
  /\ interviews \subseteq Handlers
  /\ progress \in [Handlers -> Progress]
  /\ interviewer \in [Handlers -> Users \cup {None, "nobody"}]
  /\ active \subseteq Users

Init ==
  /\ pc = [h \in Handlers |-> "idle"]
  /\ call = [h \in Handlers |-> None]
  /\ seen = [h \in Handlers |-> "SUBMITTED"]
  /\ apps = Apps /\ withdrawn = {}
  /\ status = [a \in Apps |-> "SUBMITTED"]
  /\ stage = [a \in Apps |-> None] /\ letter = stage /\ reviewed = stage
  /\ interviews = {}
  /\ progress = [h \in Handlers |-> "SCHEDULED"]
  /\ interviewer = [h \in Handlers |-> None]
  /\ active = Users

Goto(h, label) == pc' = [pc EXCEPT ![h] = label]
\* A write has happened; its answer may be lost on the way from the database.
Written(h) == Goto(h, "ok") \/ Goto(h, "error")

Receive(h) ==
  /\ pc[h] = "idle"
  /\ \E c \in Calls : call' = [call EXCEPT ![h] = c]
  /\ Goto(h, "find")
  /\ UNCHANGED <<seen, rows, meetings, active>>

\* A query that is not a write fails: 500.
QueryFails(h) ==
  /\ pc[h] \in Working
  /\ Goto(h, "error")
  /\ UNCHANGED <<call, seen, rows, meetings, active>>

-----------------------------------------------------------------------------
(* ApplicationsService.                                                     *)

\* findOne: a missing or withdrawn row is a 404.
FindApplication(h) ==
  /\ pc[h] = "find" /\ call[h].op \in {"update", "remove"}
  /\ IF call[h].app \in apps \ withdrawn
       THEN /\ seen' = [seen EXCEPT ![h] = status[call[h].app]]
            /\ Goto(h, "access")
       ELSE Goto(h, "notFound") /\ UNCHANGED seen
  /\ UNCHANGED <<call, rows, meetings, active>>

\* The candidate with the caller's email is looked up again: an applicant
\* whose candidate has been deleted is none.
IsApplicant(h) == call[h].caller = "applicant" /\ call[h].app \in apps
IsRecruiter(h) == call[h].caller = "recruiter"
IsAdmin(h) == call[h].caller = "admin"

\* Faulty variant: notes and stage are not asked about.
MayUpdateUnlessStatus(h) ==
  /\ IsApplicant(h) \/ IsRecruiter(h) \/ IsAdmin(h)
  /\ call[h].status # None => IsRecruiter(h) \/ IsAdmin(h)

\* findOne lets the three in; stage, status and notes are the recruiters'.
MayUpdate(h) ==
  /\ IsApplicant(h) \/ IsRecruiter(h) \/ IsAdmin(h)
  /\ call[h].status # None \/ call[h].stage = "text"
       => IsRecruiter(h) \/ IsAdmin(h)

MayRemove(h) == IsApplicant(h) \/ IsAdmin(h)

CheckAccess(h) ==
  /\ pc[h] = "access"
  /\ Goto(h, IF (call[h].op = "update" /\ MayUpdate(h))
                \/ (call[h].op = "remove" /\ MayRemove(h))
             THEN "write" ELSE "forbidden")
  /\ UNCHANGED <<call, seen, rows, meetings, active>>

\* Faulty variant: writes by upsert, and no foreign key.
AnyRow(h) == TRUE

\* Prisma's update answers P2025 when the row is gone, and the foreign key of
\* interviews needs it; that it is still live is not asked again.
RowExists(h) == call[h].app \in apps

\* Faulty variant: reviewedAt is stamped for stage changes.
StampsStage(h) == call[h].stage # None

\* reviewedAt is set when the status differs from the one that was read.
Stamps(h) == call[h].status # None /\ call[h].status # seen[h]

\* Faulty variant: the row that was read is written back as a whole.
WriteBack(h, a) == /\ apps' = apps
                   /\ withdrawn' = withdrawn \ {a}

\* Prisma writes the fields of the DTO and no other: deletedAt stays.
KeepRow(h, a) == /\ apps' = apps
                 /\ withdrawn' = withdrawn

\* application.update by id alone; a row that is gone is an error (P2025).
UpdateApplication(h) ==
  LET a == call[h].app
      Put(column, present) == IF present THEN [column EXCEPT ![a] = h] ELSE column
  IN  /\ pc[h] = "write" /\ call[h].op = "update"
      /\ \/ /\ RowExists(h)
            /\ KeepRow(h, a)
            /\ status' = IF call[h].status = None THEN status
                         ELSE [status EXCEPT ![a] = call[h].status]
            /\ stage' = Put(stage, call[h].stage # None)
            /\ letter' = Put(letter, call[h].letter)
            /\ reviewed' = Put(reviewed, Stamps(h))
            /\ Written(h)
         \/ ~RowExists(h) /\ Goto(h, "error") /\ UNCHANGED rows
      /\ UNCHANGED <<call, seen, meetings, active>>

\* Faulty variant: the status is left as it is.
SetDeletedOnly(h) == status' = status

\* deletedAt and the status are written together.
SetWithdrawn(h) == status' = [status EXCEPT ![call[h].app] = "WITHDRAWN"]

RemoveApplication(h) ==
  /\ pc[h] = "write" /\ call[h].op = "remove"
  /\ \/ /\ RowExists(h)
        /\ withdrawn' = withdrawn \cup {call[h].app}
        /\ SetWithdrawn(h)
        /\ Written(h)
        /\ UNCHANGED <<apps, stage, letter, reviewed>>
     \/ ~RowExists(h) /\ Goto(h, "error") /\ UNCHANGED rows
  /\ UNCHANGED <<call, seen, meetings, active>>

-----------------------------------------------------------------------------
(* InterviewsService.                                                       *)

\* create: the application must be live, then the interviewer is looked up.
FindForInterview(h) ==
  /\ pc[h] = "find" /\ call[h].op = "createInterview"
  /\ Goto(h, IF call[h].app \in apps \ withdrawn THEN "interviewer"
                                                 ELSE "notFound")
  /\ UNCHANGED <<call, seen, rows, meetings, active>>

\* update and remove: the interview must exist; update refuses a past date
\* before it looks for the interviewer.
FindInterview(h) ==
  /\ pc[h] = "find" /\ call[h].op \in {"updateInterview", "removeInterview"}
  /\ Goto(h, IF call[h].interview \notin interviews THEN "notFound"
             ELSE IF call[h].op = "removeInterview" THEN "write"
             ELSE IF call[h].past THEN "badRequest" ELSE "interviewer")
  /\ UNCHANGED <<call, seen, rows, meetings, active>>

\* The interviewer, if one is named, must be an active user; create looks at
\* the date only now.
FindInterviewer(h) ==
  /\ pc[h] = "interviewer"
  /\ Goto(h, IF call[h].interviewer \notin active \cup {None, "nobody"} THEN "notFound"
             ELSE IF call[h].past THEN "badRequest" ELSE "write")
  /\ UNCHANGED <<call, seen, rows, meetings, active>>

CreateInterview(h) ==
  /\ pc[h] = "write" /\ call[h].op = "createInterview"
  /\ \/ /\ RowExists(h)
        /\ interviews' = interviews \cup {h}
        /\ interviewer' = [interviewer EXCEPT ![h] = call[h].interviewer]
        /\ Written(h)
        /\ UNCHANGED progress
     \/ ~RowExists(h) /\ Goto(h, "error") /\ UNCHANGED meetings
  /\ UNCHANGED <<call, seen, rows, active>>

UpdateInterview(h) ==
  LET i == call[h].interview
      Put(column, value) == IF value = None THEN column
                            ELSE [column EXCEPT ![i] = value]
  IN  /\ pc[h] = "write" /\ call[h].op = "updateInterview"
      /\ \/ /\ i \in interviews
            /\ progress' = Put(progress, call[h].progress)
            /\ interviewer' = Put(interviewer, call[h].interviewer)
            /\ Written(h)
            /\ UNCHANGED interviews
         \/ i \notin interviews /\ Goto(h, "error") /\ UNCHANGED meetings
      /\ UNCHANGED <<call, seen, rows, active>>

\* A cancelled interview keeps its row.
RemoveInterview(h) ==
  LET i == call[h].interview
  IN  /\ pc[h] = "write" /\ call[h].op = "removeInterview"
      /\ \/ /\ i \in interviews
            /\ progress' = [progress EXCEPT ![i] = "CANCELLED"]
            /\ Written(h)
            /\ UNCHANGED <<interviews, interviewer>>
         \/ i \notin interviews /\ Goto(h, "error") /\ UNCHANGED meetings
      /\ UNCHANGED <<call, seen, rows, active>>

-----------------------------------------------------------------------------
(* Deletions.                                                               *)

InterviewsOf(a) == {i \in interviews : call[i].app = a}

\* CandidatesService.remove, with the cascade to applications and interviews.
RemoveCandidate(a) ==
  /\ a \in apps
  /\ apps' = apps \ {a}
  /\ withdrawn' = withdrawn \ {a}
  /\ interviews' = interviews \ InterviewsOf(a)
  /\ UNCHANGED <<pc, call, seen, status, stage, letter, reviewed, progress,
                 interviewer, active>>

\* UsersService.softDeleteUser: the user's interviews are left alone.
SoftDeleteUser(u) ==
  /\ u \in active
  /\ active' = active \ {u}
  /\ UNCHANGED <<pc, call, seen, rows, meetings>>

Handle(h) ==
  \/ Receive(h) \/ QueryFails(h)
  \/ FindApplication(h) \/ CheckAccess(h) \/ UpdateApplication(h)
  \/ RemoveApplication(h)
  \/ FindForInterview(h) \/ FindInterview(h) \/ FindInterviewer(h)
  \/ CreateInterview(h) \/ UpdateInterview(h) \/ RemoveInterview(h)

Next == \/ \E h \in Handlers : Handle(h)
        \/ \E a \in Apps : RemoveCandidate(a)
        \/ \E u \in Users : SoftDeleteUser(u)

Spec == Init /\ [][Next]_vars

-----------------------------------------------------------------------------
(* Properties.                                                              *)

Done(h, op) == pc[h] = "ok" /\ call[h].op = op
MayHaveDone(h, op) == pc[h] \in {"ok", "error"} /\ call[h].op = op

\* A row whose status is not the initial one has a reviewedAt, or is
\* withdrawn.  update stamps it by comparing with a status that may be stale
\* when it writes, so the column may be older than the last change, but two
\* updates that overtake each other never leave it empty.
MovedIsReviewed ==
  \A a \in apps :
    \/ status[a] = "SUBMITTED"
    \/ reviewed[a] # None
    \/ a \in withdrawn /\ status[a] = "WITHDRAWN"

\* A withdrawal is final: an update that read the row before writes its
\* fields into the withdrawn row and does not bring it back.
WithdrawnIsFinal == [][withdrawn \cap apps' \subseteq withdrawn']_vars

\* A withdrawn row shows another status than WITHDRAWN only if an update that
\* found it live wrote that status.
WithdrawnStatusExplained ==
  \A a \in withdrawn :
    status[a] = "WITHDRAWN"
    \/ \E h \in Handlers : /\ MayHaveDone(h, "update")
                           /\ call[h].app = a /\ call[h].status = status[a]

\* Stage and notes were written by the job's recruiter or an admin, or are
\* notes that an applicant left blank (the one value that the code does not ask
\* about), and a withdrawal was asked for by the applicant or an admin, whoever
\* else was working on the row.
WritersAreEntitled ==
  \A a \in Apps :
    /\ stage[a] # None => \/ call[stage[a]].caller \in {"recruiter", "admin"}
                          \/ call[stage[a]].stage = "blank"
    /\ a \in withdrawn =>
         \E h \in Handlers : /\ MayHaveDone(h, "remove") /\ call[h].app = a
                             /\ call[h].caller \in {"applicant", "admin"}

\* What an answer promises holds whatever ran in between: an accepted
\* withdrawal or interview is there unless the candidate was deleted; a
\* refused request wrote nothing.
AnswersAreTrue ==
  \A h \in Handlers :
    /\ Done(h, "remove") => call[h].app \in withdrawn \cup (Apps \ apps)
    /\ Done(h, "createInterview") =>
         h \in interviews \/ call[h].app \notin apps
    /\ pc[h] \in Refused =>
         /\ h \notin interviews
         /\ \A a \in Apps : h \notin {stage[a], letter[a], reviewed[a]}

\* An interview always has its application: the cascade and the foreign key
\* close the gap between the check of create and its insert.
InterviewHasApplication ==
  \A i \in interviews : call[i].op = "createInterview" /\ call[i].app \in apps

\* What a handler knows where it stands: a status that it read and that is not
\* the initial one came with a stamp; who is about to write may do so; and
\* nobody has written before the write.
HandlerInv(h) ==
  /\ pc[h] \in {"access", "write"} /\ call[h].op = "update"
       /\ call[h].app \in apps /\ seen[h] # "SUBMITTED"
     => reviewed[call[h].app] # None
  /\ pc[h] = "access" => call[h].op \in {"update", "remove"}
  /\ pc[h] = "interviewer" => call[h].op \in {"createInterview", "updateInterview"}
  /\ pc[h] = "write" /\ call[h].op = "update" =>
       call[h].caller \in {"recruiter", "admin"} \/ call[h].stage # "text"
  /\ pc[h] = "write" /\ call[h].op = "remove" =>
       call[h].caller \in {"applicant", "admin"}
  /\ pc[h] \notin {"ok", "error"} =>
       /\ h \notin interviews
       /\ \A a \in Apps : h \notin {stage[a], letter[a], reviewed[a]}

\* The inductive invariant behind the safety properties above: they hold, and
\* every handler knows what it needs to keep them.
RecruitingInv ==
  /\ TypeOK
  /\ MovedIsReviewed
  /\ WithdrawnStatusExplained
  /\ WritersAreEntitled
  /\ AnswersAreTrue
  /\ InterviewHasApplication
  /\ \A h \in Handlers : HandlerInv(h)
=============================================================================
