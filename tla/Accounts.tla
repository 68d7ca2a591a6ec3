------------------------------ MODULE Accounts ------------------------------
(***************************************************************************)
(* User accounts: AuthService.signup and UsersController's findOne, update,*)
(* updateRole and remove, with what every request passes through: the      *)
(* global guards (JwtAuthGuard, RolesGuard, ThrottlerGuard), the logging   *)
(* and metrics interceptors, ValidationPipe and HttpExceptionFilter.       *)
(*                                                                         *)
(* One step per await.  The role a request is judged by is read once, in   *)
(* the guards; the row it writes is checked once, before the write.  In    *)
(* between, other requests sign up, change roles and delete users.         *)
(*                                                                         *)
(* Rows have ids: those of Users, and of each sign-up the request itself.  *)
(* The email of u in Users is u.  A caller NoId has no valid access token, *)
(* a target NoId is an id that no user has.                                *)
(***************************************************************************)
EXTENDS Integers

CONSTANTS Requests, Users, Emails, NoId

Ids == Users \cup Requests

ASSUME AccountsAssumption ==
  Users \subseteq Emails /\ NoId \notin Ids \cup Emails /\ Users \cap Requests = {}

VARIABLES pc,        \* where the handler of a request is
          call,      \* its arguments
          seenRole,  \* request.user.role, as JwtStrategy returned it
          answer,    \* status of its response
          trace,     \* what the interceptors made of it
          exists, role, deleted,  \* table users: ids, role, deletedAt # null
          wrote,     \* observation only: requests that wrote to a user's row
          entitled,  \* observation only: were entitled to what they ask, at
                     \* some moment since they were received
          denied     \* observation only: were not, at some such moment

users == <<exists, role, deleted>>
vars == <<pc, call, seenRole, answer, trace, users, wrote, entitled, denied>>

\* ADMIN, and RECRUITER for all that is not ADMIN.
Roles == {"ADMIN", "RECRUITER"}

\* The status each operation declares for its success.
SuccessStatus == [signup |-> 201, get |-> 200, profile |-> 200, role |-> 200,
                  remove |-> 204]
Operations == DOMAIN SuccessStatus
AdminOnly == {"role", "remove"}

\* SignupDto, UpdateUserDto, UpdateRoleDto and the path's id.
Calls == [op : Operations \ {"signup"}, caller : Ids \cup {NoId},
          target : Ids \cup {NoId}, role : Roles]
         \cup [op : {"signup"}, caller : {NoId}, target : Emails, role : Roles]
NoCall == [op |-> "none", caller |-> NoId, target |-> NoId, role |-> "ADMIN"]

EmailOf(id) == IF id \in Users THEN id ELSE call[id].target

\* What an interceptor leaves behind: the ids it logs, the status it counts.
Untraced == [id |-> "none", logged |-> {}, counted |-> 0]

Init ==
  /\ pc = [r \in Requests |-> "idle"]
  /\ call = [r \in Requests |-> NoCall]
  /\ seenRole = [r \in Requests |-> "none"]
  /\ answer = [r \in Requests |-> 0]
  /\ trace = [r \in Requests |-> Untraced]
  /\ exists = Users
  /\ role \in {f \in [Ids -> Roles] : \A r \in Requests : f[r] = "RECRUITER"}
  /\ deleted \in SUBSET Users
  /\ wrote = {} /\ entitled = {} /\ denied = {}

-----------------------------------------------------------------------------
(* Observation.                                                             *)

\* Who may do what, by the rows as they are now.
Entitled(r) ==
  \/ call[r].op = "signup"
  \/ /\ call[r].caller \in exists \ deleted
     /\ \/ call[r].op = "get"
        \/ call[r].op = "profile" /\ call[r].target = call[r].caller
        \/ role[call[r].caller] = "ADMIN"

InFlight(r) == pc[r] \notin {"idle", "answered"}

Observe ==
  /\ entitled' = entitled \cup {r \in Requests : InFlight(r) /\ Entitled(r)}'
  /\ denied' = denied \cup {r \in Requests : InFlight(r) /\ ~Entitled(r)}'

-----------------------------------------------------------------------------
(* The way in and the way out.                                              *)

Goto(r, place) == pc' = [pc EXCEPT ![r] = place]

\* HttpExceptionFilter (or the router) sends the response.
Respond(r, status) ==
  /\ Goto(r, "answered")
  /\ answer' = [answer EXCEPT ![r] = status]

\* An exception thrown by a guard meets no interceptor: it is not logged and
\* not counted, and the answer has at most the id the client sent.
RefusedByGuard(r, status) ==
  /\ Respond(r, status)
  /\ \E id \in {"client", "none"} :
       trace' = [trace EXCEPT ![r] = [Untraced EXCEPT !.id = id]]

\* RequestLoggerInterceptor is registered twice, around MetricsInterceptor:
\* without an id from the client each of the two draws one, and the inner one's
\* is the header that stays.  MetricsInterceptor reads statusCode before the
\* filter sets it, hence counts failures, too, under the status of success.
Unwind(r, status) ==
  /\ Respond(r, status)
  /\ \E id \in {"client", "inner"} :
       trace' = [trace EXCEPT ![r] =
         [id |-> id,
          logged |-> IF id = "client" THEN {"client"} ELSE {"outer", "inner"},
          counted |-> SuccessStatus[call[r].op]]]

Receive(r) ==
  /\ pc[r] = "idle"
  /\ \E c \in Calls :
       /\ c.op = "signup" \/ {c.caller, c.target} \subseteq exists \cup {NoId}
       /\ c.op \in {"get", "profile", "remove"} => c.role = "ADMIN"  \* not used
       /\ call' = [call EXCEPT ![r] = c]
  /\ Goto(r, "guards")
  /\ UNCHANGED <<seenRole, answer, trace, users, wrote>>
  /\ Observe

\* Faulty variant: the deletedAt of the row is not looked at.
AuthenticatedIfFound(r) ==
  call[r].op = "signup" \/ call[r].caller \in exists

\* JwtStrategy.validate; signup is @Public.
Authenticated(r) ==
  call[r].op = "signup" \/ call[r].caller \in exists \ deleted

\* RolesGuard, on updateRole and remove.
MayCall(r) == call[r].op \in AdminOnly => role[call[r].caller] = "ADMIN"

\* The guards run one after the other; the throttler refuses at any time.
Guards(r) ==
  /\ pc[r] = "guards"
  /\ \/ ~Authenticated(r) /\ RefusedByGuard(r, 401) /\ UNCHANGED seenRole
     \/ /\ Authenticated(r) /\ ~MayCall(r)
        /\ RefusedByGuard(r, 403) /\ UNCHANGED seenRole
     \/ /\ Authenticated(r) /\ MayCall(r)
        /\ RefusedByGuard(r, 429) /\ UNCHANGED seenRole
     \/ /\ Authenticated(r) /\ MayCall(r)
        /\ seenRole' = [seenRole EXCEPT ![r] =
             IF call[r].op = "signup" THEN "none" ELSE role[call[r].caller]]
        /\ Goto(r, "pipe") /\ UNCHANGED <<answer, trace>>
  /\ UNCHANGED <<call, users, wrote>>
  /\ Observe

\* ValidationPipe, inside the interceptors.
Validate(r) ==
  /\ pc[r] = "pipe"
  /\ \/ Goto(r, "find") /\ UNCHANGED <<answer, trace>>
     \/ call[r].op \notin {"get", "remove"} /\ Unwind(r, 400)
  /\ UNCHANGED <<call, seenRole, users, wrote>>
  /\ Observe

-----------------------------------------------------------------------------
(* The handlers.                                                            *)

EmailTaken(email) == \E id \in exists : EmailOf(id) = email

\* signup: findByEmail, which finds deleted users too; then hashPassword.
FindByEmail(r) ==
  /\ pc[r] = "find" /\ call[r].op = "signup"
  /\ \/ EmailTaken(call[r].target) /\ Unwind(r, 409)
     \/ ~EmailTaken(call[r].target) /\ Goto(r, "write") /\ UNCHANGED <<answer, trace>>
  /\ UNCHANGED <<call, seenRole, users, wrote>>
  /\ Observe

\* Faulty variant: emails are not unique.
CreateUnchecked(r) ==
  /\ pc[r] = "write" /\ call[r].op = "signup"
  /\ exists' = exists \cup {r}
  /\ role' = [role EXCEPT ![r] = call[r].role]
  /\ Unwind(r, 201)
  /\ UNCHANGED <<call, seenRole, deleted, wrote>>
  /\ Observe

\* user.create; a unique violation becomes a 500, and so does an answer that is
\* lost.
CreateUser(r) ==
  /\ pc[r] = "write" /\ call[r].op = "signup"
  /\ \/ /\ ~EmailTaken(call[r].target)
        /\ exists' = exists \cup {r}
        /\ role' = [role EXCEPT ![r] = call[r].role]
        /\ Unwind(r, 201) \/ Unwind(r, 500)
     \/ EmailTaken(call[r].target) /\ Unwind(r, 500) /\ UNCHANGED <<exists, role>>
  /\ UNCHANGED <<call, seenRole, deleted, wrote>>
  /\ Observe

\* Faulty variant: any user may be updated.
MayUpdateAnybody(r) == TRUE

\* updateProfile: oneself, or anyone for an admin.
MayUpdateProfile(r) ==
  call[r].target = call[r].caller \/ seenRole[r] = "ADMIN"

\* findOneProfile, updateProfile, updateRole, softDeleteUser: findUnique with
\* deletedAt null.
FindTarget(r) ==
  /\ pc[r] = "find" /\ call[r].op # "signup"
  /\ IF call[r].op = "profile" /\ ~MayUpdateProfile(r)
     THEN Unwind(r, 403)
     ELSE IF call[r].target \notin exists \ deleted THEN Unwind(r, 404)
     ELSE IF call[r].op = "get" THEN Unwind(r, 200)
     ELSE Goto(r, "write") /\ UNCHANGED <<answer, trace>>
  /\ UNCHANGED <<call, seenRole, users, wrote>>
  /\ Observe

\* user.update where id is the target, found live before; its answer may be lost.
Write(r, op) ==
  /\ pc[r] = "write" /\ call[r].op = op
  /\ wrote' = wrote \cup {r}
  /\ Unwind(r, SuccessStatus[op]) \/ Unwind(r, 500)
  /\ UNCHANGED <<call, seenRole, exists>>

UpdateProfile(r) == Write(r, "profile") /\ UNCHANGED <<role, deleted>> /\ Observe

UpdateRole(r) ==
  /\ Write(r, "role")
  /\ role' = [role EXCEPT ![call[r].target] = call[r].role]
  /\ UNCHANGED deleted
  /\ Observe

SoftDeleteUser(r) ==
  /\ Write(r, "remove")
  /\ deleted' = deleted \cup {call[r].target}
  /\ UNCHANGED role
  /\ Observe

\* A query fails in the strategy or in the handler.
QueryFails(r) ==
  /\ \/ pc[r] = "guards" /\ call[r].op # "signup" /\ RefusedByGuard(r, 500)
     \/ pc[r] \in {"find", "write"} /\ Unwind(r, 500)
  /\ UNCHANGED <<call, seenRole, users, wrote>>
  /\ Observe

Next == \E r \in Requests :
          \/ Receive(r) \/ Guards(r) \/ Validate(r)
          \/ FindByEmail(r) \/ CreateUser(r)
          \/ FindTarget(r) \/ UpdateProfile(r) \/ UpdateRole(r) \/ SoftDeleteUser(r)
          \/ QueryFails(r)

Spec == Init /\ [][Next]_vars

-----------------------------------------------------------------------------
(* Properties.                                                              *)

TypeOK ==
  /\ pc \in [Requests -> {"idle", "guards", "pipe", "find", "write", "answered"}]
  /\ call \in [Requests -> Calls \cup {NoCall}]
  /\ seenRole \in [Requests -> Roles \cup {"none"}]
  /\ answer \in [Requests -> Nat]
  /\ trace \in [Requests -> [id : {"none", "client", "inner"},
                             logged : SUBSET {"client", "outer", "inner"},
                             counted : Nat]]
  /\ exists \in SUBSET Ids /\ Users \subseteq exists
  /\ role \in [Ids -> Roles]
  /\ deleted \in SUBSET Ids /\ deleted \subseteq exists
  /\ wrote \in SUBSET Requests /\ entitled \in SUBSET Requests
  /\ denied \in SUBSET Requests

UniqueEmails == \A i, j \in exists : EmailOf(i) = EmailOf(j) => i = j

SignUpAnswered(r) ==
  /\ answer[r] = 201 => r \in exists
  /\ answer[r] = 409 => \E id \in exists \ {r} : EmailOf(id) = call[r].target

\* No two rows have one email, deleted rows included, although sign-ups check
\* before they hash and insert.  A sign-up is told the truth: 201 means that
\* its row is there, 409 that the email belongs to some row.
OneAccountPerEmail == UniqueEmails /\ \A r \in Requests : SignUpAnswered(r)

Authorized(r) ==
  /\ r \in wrote => r \in entitled
  /\ answer[r] \in {401, 403} => r \in denied

\* A request that wrote was entitled to, and one that was refused was not, at
\* some moment between its receipt and its answer: roles taken and users
\* deleted before a request was received are never honoured.
AuthorizationHolds == \A r \in Requests : Authorized(r)

PastGuards == {"pipe", "find", "write"}

\* What a request has seen while it is on its way.
Reached(r) ==
  /\ pc[r] = "idle" => answer[r] = 0 /\ trace[r] = Untraced /\ r \notin wrote
  /\ pc[r] # "idle" => /\ call[r] \in Calls
                       /\ call[r].op = "signup" \/ call[r].target \in exists \cup {NoId}
  /\ InFlight(r) => /\ answer[r] = 0 /\ trace[r] = Untraced
                    /\ r \notin wrote
                    /\ Entitled(r) => r \in entitled
                    /\ ~Entitled(r) => r \in denied
  /\ pc[r] \in PastGuards =>
       IF call[r].op = "profile" /\ call[r].target # call[r].caller
       THEN r \in IF seenRole[r] = "ADMIN" THEN entitled ELSE denied
       ELSE r \in entitled
  /\ pc[r] = "write" /\ call[r].op # "signup" =>
       r \in entitled /\ call[r].target \in exists
  /\ r \in exists => call[r].op = "signup" /\ pc[r] = "answered"

\* What is left of a request: whoever got past the guards is counted and logged,
\* under the id of the answer, and nobody else; a 404 is never about a live user.
Answered(r) ==
  /\ trace[r].logged # {} => trace[r].id \in trace[r].logged
  /\ trace[r].logged # {} <=> trace[r].counted # 0
  /\ answer[r] \in {200, 201, 204, 400, 404, 409} => trace[r].logged # {}
  /\ answer[r] \in {401, 429} => trace[r].logged = {}
  /\ answer[r] = 404 => call[r].op # "signup" /\ call[r].target \notin exists \ deleted

\* The inductive invariant behind the two properties above: types, what requests
\* have seen (Reached) and what they leave behind (Answered), whatever others do
\* meanwhile.
AccountsInv ==
  /\ TypeOK
  /\ UniqueEmails
  /\ \A r \in Requests :
       Reached(r) /\ SignUpAnswered(r) /\ Authorized(r) /\ Answered(r)
=============================================================================
