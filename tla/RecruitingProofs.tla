--------------------------- MODULE RecruitingProofs ---------------------------
(***************************************************************************)
(* Proofs about Recruiting, for any handlers, applications and users.      *)
(***************************************************************************)
EXTENDS Recruiting, TLAPS

\* The fields of a call, by operation.
LEMMA CallFields ==
  ASSUME NEW c \in Calls
  PROVE  /\ c.op \in {"update", "remove", "createInterview",
                      "updateInterview", "removeInterview"}
         /\ c.op \in {"update", "remove", "createInterview"} => c.app \in Apps
         /\ c.op = "update" => /\ c.status \in Statuses \cup {None}
                               /\ c.caller \in Callers
         /\ c.op = "remove" => c.caller \in Callers
         /\ c.op = "createInterview" => c.interviewer \in Users \cup {None}
         /\ c.op = "updateInterview" =>
              /\ c.interview \in Handlers
              /\ c.interviewer \in Users \cup {None, "nobody"}
              /\ c.progress \in Progress \cup {None}
         /\ c.op = "removeInterview" => c.interview \in Handlers
<1>1. CASE c \in UpdateCalls BY <1>1 DEF UpdateCalls
<1>2. CASE c \in RemoveCalls BY <1>2 DEF RemoveCalls
<1>3. CASE c \in CreateCalls BY <1>3 DEF CreateCalls
<1>4. CASE c \in ChangeCalls BY <1>4 DEF ChangeCalls
<1>5. CASE c \in CancelCalls BY <1>5 DEF CancelCalls
<1>6. QED BY <1>1, <1>2, <1>3, <1>4, <1>5 DEF Calls

\* No handler has begun and every row is as it was submitted.
LEMMA InitRecruitingInv == Init => RecruitingInv
<1> SUFFICES ASSUME Init PROVE RecruitingInv
  OBVIOUS
<1>1. TypeOK
  BY DEF Init, TypeOK, Statuses, Progress, Working, Answered
<1>2. /\ MovedIsReviewed /\ WithdrawnStatusExplained
      /\ AnswersAreTrue /\ InterviewHasApplication
  BY DEF Init, MovedIsReviewed, WithdrawnStatusExplained, AnswersAreTrue,
         InterviewHasApplication, Done, Refused
<1>3. WritersAreEntitled
  BY DEF Init, WritersAreEntitled
<1>4. ASSUME NEW h \in Handlers PROVE HandlerInv(h)
  BY RecruitingAssumption DEF Init, HandlerInv
<1>5. QED BY <1>1, <1>2, <1>3, <1>4 DEF RecruitingInv

\* The steps before a write move their handler along and touch no row.
LEMMA ReadsRecruitingInv ==
  ASSUME RecruitingInv, NEW h \in Handlers,
         \/ Receive(h) \/ QueryFails(h) \/ FindApplication(h) \/ CheckAccess(h)
         \/ FindForInterview(h) \/ FindInterview(h) \/ FindInterviewer(h)
  PROVE  RecruitingInv'
<1> USE DEF RecruitingInv
<1> DEFINE Steps == {"idle"} \cup Working \cup Answered
<1>1. /\ UNCHANGED <<rows, meetings, active>>
      /\ \E l \in Steps \ {"idle", "ok"} : pc' = [pc EXCEPT ![h] = l]
      /\ pc[h] \in {"idle"} \cup Working
  BY DEF Receive, QueryFails, FindApplication, CheckAccess, FindForInterview,
         FindInterview, FindInterviewer, Goto, Working, Answered, Refused
<1>2. \A k \in Handlers : pc[k] # "idle" => call'[k] = call[k]
  BY DEF Receive, QueryFails, FindApplication, CheckAccess, FindForInterview,
         FindInterview, FindInterviewer, TypeOK
<1>3. TypeOK'
  <2>1. pc' \in [Handlers -> Steps]
    BY <1>1 DEF TypeOK
  <2>2. /\ call' \in [Handlers -> Calls \cup {None}]
        /\ \A k \in Handlers : pc'[k] # "idle" => call'[k] \in Calls
    BY <1>1 DEF TypeOK, Receive, QueryFails, FindApplication, CheckAccess,
                FindForInterview, FindInterview, FindInterviewer, Working
  <2>3. seen' \in [Handlers -> Statuses]
    BY CallFields DEF TypeOK, Receive, QueryFails, FindApplication, CheckAccess,
                FindForInterview, FindInterview, FindInterviewer
  <2>4. QED BY <1>1, <2>1, <2>2, <2>3 DEF TypeOK, rows, meetings
<1>4. MovedIsReviewed'
  BY <1>1 DEF MovedIsReviewed, rows
<1>5. WithdrawnStatusExplained'
  BY <1>1, <1>2 DEF WithdrawnStatusExplained, MayHaveDone, rows, Working, TypeOK
<1>6. ASSUME NEW k \in Handlers PROVE HandlerInv(k)'
  <2>1. CASE k # h
    BY <2>1, <1>1, <1>2 DEF HandlerInv, TypeOK, rows, meetings, Receive,
       QueryFails, FindApplication, CheckAccess, FindForInterview,
       FindInterview, FindInterviewer
  <2>2. CASE k = h
    <3>1. /\ h \notin interviews'
          /\ \A a \in Apps : h \notin {stage'[a], letter'[a], reviewed'[a]}
      BY <1>1 DEF HandlerInv, rows, meetings, Working
    <3>2. pc'[h] = "access" =>
            /\ FindApplication(h) /\ call' = call
            /\ seen'[h] = status[call[h].app]
            /\ call[h].app \in apps \ withdrawn
            /\ call[h].op \in {"update", "remove"}
      BY DEF TypeOK, Receive, QueryFails, FindApplication, CheckAccess,
             FindForInterview, FindInterview, FindInterviewer, Goto
    <3>3. pc'[h] = "interviewer" =>
            call'[h].op \in {"createInterview", "updateInterview"}
      BY DEF TypeOK, Receive, QueryFails, FindApplication, CheckAccess,
             FindForInterview, FindInterview, FindInterviewer, Goto
    <3>4. pc'[h] = "write" /\ call'[h].op \in {"update", "remove"} =>
            /\ CheckAccess(h) /\ call' = call /\ seen' = seen
      BY DEF HandlerInv, TypeOK, Receive, QueryFails, FindApplication,
             CheckAccess, FindForInterview, FindInterview, FindInterviewer, Goto
    <3>5. /\ pc'[h] = "write" /\ call'[h].op = "update" =>
               call'[h].caller \in {"recruiter", "admin"} \/ call'[h].stage # "text"
          /\ pc'[h] = "write" /\ call'[h].op = "remove" =>
               call'[h].caller \in {"applicant", "admin"}
      BY <3>4 DEF CheckAccess, MayUpdate, MayRemove, IsApplicant, IsRecruiter,
                  IsAdmin, Goto, TypeOK
    <3>6. ASSUME pc'[h] \in {"access", "write"}, call'[h].op = "update",
                 call'[h].app \in apps', seen'[h] # "SUBMITTED"
          PROVE  reviewed'[call'[h].app] # None
      <4>1. CASE pc'[h] = "access"
        BY <4>1, <3>6, <3>2, <1>1 DEF MovedIsReviewed, rows
      <4>2. CASE pc'[h] = "write"
        BY <4>2, <3>6, <3>4, <1>1 DEF HandlerInv, CheckAccess, rows
      <4>3. QED BY <4>1, <4>2, <3>6
    <3>7. pc'[h] = "access" => call'[h].op \in {"update", "remove"}
      BY <3>2
    <3>8. QED BY <2>2, <3>1, <3>3, <3>5, <3>6, <3>7 DEF HandlerInv
  <2>3. QED BY <2>1, <2>2
<1>7. WritersAreEntitled'
  <2>1. ASSUME NEW a \in Apps, stage'[a] # None
        PROVE  \/ call'[stage'[a]].caller \in {"recruiter", "admin"}
               \/ call'[stage'[a]].stage = "blank"
    BY <2>1, <1>1, <1>2 DEF WritersAreEntitled, HandlerInv, TypeOK, rows
  <2>2. ASSUME NEW a \in Apps, a \in withdrawn'
        PROVE  \E k \in Handlers : /\ MayHaveDone(k, "remove")' /\ call'[k].app = a
                                   /\ call'[k].caller \in {"applicant", "admin"}
    BY <2>2, <1>1, <1>2 DEF WritersAreEntitled, MayHaveDone, rows, Working, TypeOK
  <2>3. QED BY <2>1, <2>2 DEF WritersAreEntitled
<1>8. AnswersAreTrue'
  BY <1>1, <1>2, <1>6
     DEF AnswersAreTrue, HandlerInv, Done, rows, meetings, TypeOK, Refused
<1>9. InterviewHasApplication'
  BY <1>1, <1>2 DEF InterviewHasApplication, HandlerInv, rows, meetings, TypeOK
<1>10. QED BY <1>3, <1>4, <1>5, <1>6, <1>7, <1>8, <1>9

\* update writes the columns of its call into a row, live or withdrawn.
LEMMA UpdateRecruitingInv ==
  ASSUME RecruitingInv, NEW h \in Handlers, UpdateApplication(h)
  PROVE  RecruitingInv'
<1> USE DEF RecruitingInv
<1> DEFINE a == call[h].app
<1>1. /\ pc[h] = "write" /\ call[h].op = "update" /\ call[h] \in Calls
      /\ a \in Apps /\ call[h].status \in Statuses \cup {None}
      /\ UNCHANGED <<call, seen, meetings, active, apps, withdrawn>>
      /\ \E l \in {"ok", "error"} : pc' = [pc EXCEPT ![h] = l]
  BY CallFields DEF UpdateApplication, TypeOK, KeepRow, Written, Goto, rows
<1>2. CASE UNCHANGED rows
  <2>1. TypeOK'
    BY <1>1, <1>2 DEF TypeOK, rows, meetings, Answered
  <2>2. \A k \in Handlers : HandlerInv(k)'
    BY <1>1, <1>2 DEF HandlerInv, TypeOK, rows, meetings
  <2>3. MovedIsReviewed' /\ InterviewHasApplication'
    BY <1>1, <1>2 DEF MovedIsReviewed, InterviewHasApplication, rows, meetings
  <2>4. WithdrawnStatusExplained' /\ WritersAreEntitled'
    BY <1>1, <1>2 DEF WithdrawnStatusExplained, WritersAreEntitled, MayHaveDone,
                      rows, TypeOK
  <2>5. AnswersAreTrue'
    BY <1>1, <1>2 DEF AnswersAreTrue, Done, Refused, rows, meetings, TypeOK
  <2>6. QED BY <2>1, <2>2, <2>3, <2>4, <2>5
<1>3. CASE RowExists(h) /\ ~UNCHANGED rows
  <2>1. /\ a \in apps
        /\ status' = IF call[h].status = None THEN status
                     ELSE [status EXCEPT ![a] = call[h].status]
        /\ stage' = IF call[h].stage # None THEN [stage EXCEPT ![a] = h] ELSE stage
        /\ letter' = IF call[h].letter THEN [letter EXCEPT ![a] = h] ELSE letter
        /\ reviewed' = IF Stamps(h) THEN [reviewed EXCEPT ![a] = h] ELSE reviewed
    BY <1>3 DEF UpdateApplication, RowExists
  <2>2. TypeOK'
    BY <1>1, <2>1 DEF TypeOK, meetings, Answered
  <2>3. \A k \in Handlers : HandlerInv(k)'
    BY <1>1, <2>1, RecruitingAssumption DEF HandlerInv, TypeOK, meetings
  <2>4. MovedIsReviewed'
    <3>1. \A b \in apps : reviewed[b] # None => reviewed'[b] # None
      BY <2>1, RecruitingAssumption DEF TypeOK
    <3>2. \A b \in apps \ {a} : status'[b] = status[b]
      BY <2>1, <1>1 DEF TypeOK
    <3>3. \/ status'[a] = status[a]
          \/ status'[a] = call[h].status /\ call[h].status # None
      BY <2>1, <1>1 DEF TypeOK
    <3>4. Stamps(h) => reviewed'[a] # None
      BY <2>1, <1>1, RecruitingAssumption DEF TypeOK
    <3>5. call[h].status # None /\ ~Stamps(h) =>
            call[h].status = "SUBMITTED" \/ reviewed[a] # None
      BY <1>1, <2>1 DEF HandlerInv, Stamps
    <3>6. QED BY <1>1, <3>1, <3>2, <3>3, <3>4, <3>5 DEF MovedIsReviewed
  <2>5. WithdrawnStatusExplained'
    BY <1>1, <2>1 DEF WithdrawnStatusExplained, MayHaveDone, TypeOK
  <2>6. WritersAreEntitled'
    <3>1. call[h].stage # None => \/ call[h].caller \in {"recruiter", "admin"}
                                  \/ call[h].stage = "blank"
      BY <1>1 DEF HandlerInv, Calls, UpdateCalls, RemoveCalls, CreateCalls,
                  ChangeCalls, CancelCalls
    <3>2. ASSUME NEW b \in Apps, stage'[b] # None
          PROVE  \/ call[stage'[b]].caller \in {"recruiter", "admin"}
                 \/ call[stage'[b]].stage = "blank"
      BY <3>1, <3>2, <1>1, <2>1 DEF WritersAreEntitled, TypeOK
    <3>3. \A k \in Handlers : MayHaveDone(k, "remove") => MayHaveDone(k, "remove")'
      BY <1>1 DEF MayHaveDone, TypeOK
    <3>4. QED BY <3>2, <3>3, <1>1 DEF WritersAreEntitled
  <2>7. AnswersAreTrue'
    BY <1>1, <2>1 DEF AnswersAreTrue, Done, Refused, meetings, TypeOK
  <2>8. InterviewHasApplication'
    BY <1>1 DEF InterviewHasApplication, meetings
  <2>9. QED BY <2>2, <2>3, <2>4, <2>5, <2>6, <2>7, <2>8
<1>4. QED BY <1>2, <1>3 DEF UpdateApplication

\* remove withdraws a row.
LEMMA RemoveRecruitingInv ==
  ASSUME RecruitingInv, NEW h \in Handlers, RemoveApplication(h)
  PROVE  RecruitingInv'
<1> USE DEF RecruitingInv
<1> DEFINE a == call[h].app
<1>1. /\ pc[h] = "write" /\ call[h].op = "remove" /\ call[h] \in Calls
      /\ a \in Apps /\ call[h].caller \in {"applicant", "admin"}
      /\ UNCHANGED <<call, seen, meetings, active, apps, stage, letter, reviewed>>
      /\ \/ /\ a \in apps /\ withdrawn' = withdrawn \cup {a}
            /\ status' = [status EXCEPT ![a] = "WITHDRAWN"]
            /\ \E l \in {"ok", "error"} : pc' = [pc EXCEPT ![h] = l]
         \/ UNCHANGED <<withdrawn, status>> /\ pc' = [pc EXCEPT ![h] = "error"]
  BY CallFields DEF RemoveApplication, TypeOK, SetWithdrawn, RowExists, Written,
                    Goto, rows, HandlerInv
<1>2. TypeOK'
  BY <1>1 DEF TypeOK, meetings, Answered, Statuses
<1>3. \A k \in Handlers : HandlerInv(k)'
  BY <1>1 DEF HandlerInv, TypeOK, meetings
<1>4. MovedIsReviewed' /\ InterviewHasApplication'
  BY <1>1 DEF MovedIsReviewed, InterviewHasApplication, meetings, TypeOK
<1>5. WithdrawnStatusExplained'
  BY <1>1 DEF WithdrawnStatusExplained, MayHaveDone, TypeOK
<1>6. WritersAreEntitled'
  BY <1>1 DEF WritersAreEntitled, MayHaveDone, TypeOK
<1>7. AnswersAreTrue'
  BY <1>1 DEF AnswersAreTrue, Done, Refused, meetings, TypeOK
<1>8. QED BY <1>2, <1>3, <1>4, <1>5, <1>6, <1>7

\* The writes of InterviewsService touch no application.
LEMMA InterviewsRecruitingInv ==
  ASSUME RecruitingInv, NEW h \in Handlers,
         CreateInterview(h) \/ UpdateInterview(h) \/ RemoveInterview(h)
  PROVE  RecruitingInv'
<1> USE DEF RecruitingInv
<1>1. /\ pc[h] = "write" /\ call[h] \in Calls
      /\ UNCHANGED <<call, seen, rows, active>>
      /\ \E l \in {"ok", "error"} : pc' = [pc EXCEPT ![h] = l]
      /\ call[h].op \in {"createInterview", "updateInterview", "removeInterview"}
      /\ \/ interviews' = interviews /\ call[h].op # "createInterview"
         \/ interviews' = interviews /\ pc'[h] = "error"
         \/ /\ interviews' = interviews \cup {h}
            /\ call[h].op = "createInterview" /\ call[h].app \in apps
  BY DEF CreateInterview, UpdateInterview, RemoveInterview, RowExists, Written,
         Goto, TypeOK, meetings
<1>2. TypeOK'
  <2>1. /\ pc' \in [Handlers -> {"idle"} \cup Working \cup Answered]
        /\ call' \in [Handlers -> Calls \cup {None}]
        /\ \A k \in Handlers : pc'[k] # "idle" => call'[k] \in Calls
        /\ interviews' \subseteq Handlers
    BY <1>1 DEF TypeOK, Answered
  <2>2. /\ progress' \in [Handlers -> Progress]
        /\ interviewer' \in [Handlers -> Users \cup {None, "nobody"}]
    BY <1>1, CallFields DEF TypeOK, CreateInterview, UpdateInterview,
                            RemoveInterview, meetings, Progress
  <2>3. QED BY <1>1, <2>1, <2>2 DEF TypeOK, rows
<1>3. \A k \in Handlers : HandlerInv(k)'
  BY <1>1 DEF HandlerInv, TypeOK, rows
<1>4. MovedIsReviewed' /\ InterviewHasApplication'
  BY <1>1 DEF MovedIsReviewed, InterviewHasApplication, rows
<1>5. WithdrawnStatusExplained'
  BY <1>1 DEF WithdrawnStatusExplained, MayHaveDone, rows, TypeOK
<1>6. WritersAreEntitled'
  BY <1>1 DEF WritersAreEntitled, MayHaveDone, rows, TypeOK
<1>7. AnswersAreTrue'
  BY <1>1 DEF AnswersAreTrue, Done, Refused, rows, TypeOK
<1>8. QED BY <1>2, <1>3, <1>4, <1>5, <1>6, <1>7

\* A candidate goes with the application and its interviews.
LEMMA CascadeRecruitingInv ==
  ASSUME RecruitingInv, NEW a \in Apps, RemoveCandidate(a)
  PROVE  RecruitingInv'
<1> USE DEF RecruitingInv
<1>1. /\ a \in apps /\ apps' = apps \ {a} /\ withdrawn' = withdrawn \ {a}
      /\ interviews' = {i \in interviews : call[i].app # a}
      /\ UNCHANGED <<pc, call, seen, status, stage, letter, reviewed, progress,
                     interviewer, active>>
  BY DEF RemoveCandidate, InterviewsOf
<1>2. TypeOK'
  BY <1>1 DEF TypeOK
<1>3. \A k \in Handlers : HandlerInv(k)'
  BY <1>1 DEF HandlerInv
<1>4. MovedIsReviewed' /\ InterviewHasApplication'
  BY <1>1 DEF MovedIsReviewed, InterviewHasApplication
<1>5. WithdrawnStatusExplained' /\ WritersAreEntitled'
  BY <1>1 DEF WithdrawnStatusExplained, WritersAreEntitled, MayHaveDone
<1>6. AnswersAreTrue'
  BY <1>1, CallFields DEF AnswersAreTrue, Done, TypeOK
<1>7. QED BY <1>2, <1>3, <1>4, <1>5, <1>6

\* Every step, or a stuttering step, preserves RecruitingInv.
LEMMA NextRecruitingInv == RecruitingInv /\ [Next]_vars => RecruitingInv'
<1> SUFFICES ASSUME RecruitingInv, [Next]_vars
             PROVE  RecruitingInv'
  OBVIOUS
<1>1. ASSUME NEW h \in Handlers, Handle(h)
      PROVE  RecruitingInv'
  BY <1>1, ReadsRecruitingInv, UpdateRecruitingInv, RemoveRecruitingInv,
     InterviewsRecruitingInv DEF Handle
<1>2. ASSUME NEW a \in Apps, RemoveCandidate(a)
      PROVE  RecruitingInv'
  BY <1>2, CascadeRecruitingInv
<1>3. ASSUME UNCHANGED <<pc, call, seen, rows, meetings>>, active' \subseteq Users
      PROVE  RecruitingInv'
  BY <1>3 DEF RecruitingInv, TypeOK, MovedIsReviewed, WithdrawnStatusExplained,
     WritersAreEntitled, AnswersAreTrue, InterviewHasApplication, HandlerInv,
     MayHaveDone, Done, rows, meetings
<1>4. ASSUME NEW u \in Users, SoftDeleteUser(u)
      PROVE  RecruitingInv'
  BY <1>3, <1>4 DEF SoftDeleteUser, RecruitingInv, TypeOK
<1>5. CASE UNCHANGED vars
  BY <1>3, <1>5 DEF vars, RecruitingInv, TypeOK
<1>6. QED BY <1>1, <1>2, <1>4, <1>5 DEF Next

\* The inductive invariant holds in every reachable state.
THEOREM RecruitingInvariance == Spec => []RecruitingInv
  BY InitRecruitingInv, NextRecruitingInv, PTL DEF Spec

\* A row that has left its initial status carries a reviewedAt, or is withdrawn,
\* however many updates overtake each other.
THEOREM MovedRowsAreReviewed == Spec => []MovedIsReviewed
<1>1. RecruitingInv => MovedIsReviewed
  BY DEF RecruitingInv
<1>2. QED BY <1>1, RecruitingInvariance, PTL

\* Only an update that found the row live gives a withdrawn row another status.
THEOREM WithdrawnRowsExplained == Spec => []WithdrawnStatusExplained
<1>1. RecruitingInv => WithdrawnStatusExplained
  BY DEF RecruitingInv
<1>2. QED BY <1>1, RecruitingInvariance, PTL

\* Every column and every withdrawal comes from somebody entitled to it.
THEOREM EntitledWriters == Spec => []WritersAreEntitled
<1>1. RecruitingInv => WritersAreEntitled
  BY DEF RecruitingInv
<1>2. QED BY <1>1, RecruitingInvariance, PTL

\* What update, remove and the interview handlers answer is true.
THEOREM TrueAnswers == Spec => []AnswersAreTrue
<1>1. RecruitingInv => AnswersAreTrue
  BY DEF RecruitingInv
<1>2. QED BY <1>1, RecruitingInvariance, PTL

\* No interview outlives its application.
THEOREM InterviewsHaveApplications == Spec => []InterviewHasApplication
<1>1. RecruitingInv => InterviewHasApplication
  BY DEF RecruitingInv
<1>2. QED BY <1>1, RecruitingInvariance, PTL

\* A step never takes a withdrawal back.
THEOREM WithdrawalIsFinal == Spec => WithdrawnIsFinal
<1>1. ASSUME [Next]_vars
      PROVE  withdrawn \cap apps' \subseteq withdrawn'
  <2>1. ASSUME NEW h \in Handlers, Handle(h)
        PROVE  withdrawn \subseteq withdrawn'
    BY <2>1 DEF Handle, Receive, QueryFails, FindApplication, CheckAccess,
       UpdateApplication, KeepRow, RemoveApplication, FindForInterview,
       FindInterview, FindInterviewer, CreateInterview, UpdateInterview,
       RemoveInterview, rows
  <2>2. ASSUME NEW a \in Apps, RemoveCandidate(a)
        PROVE  withdrawn \cap apps' \subseteq withdrawn'
    BY <2>2 DEF RemoveCandidate
  <2>3. ASSUME NEW u \in Users, SoftDeleteUser(u)
        PROVE  withdrawn' = withdrawn
    BY <2>3 DEF SoftDeleteUser, rows
  <2>4. CASE UNCHANGED vars
    BY <2>4 DEF vars, rows
  <2>5. QED BY <1>1, <2>1, <2>2, <2>3, <2>4 DEF Next
<1>2. [Next]_vars => [withdrawn \cap apps' \subseteq withdrawn']_vars
  BY <1>1
<1>3. QED BY <1>2, PTL DEF Spec, WithdrawnIsFinal
=============================================================================
