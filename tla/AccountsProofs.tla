--------------------------- MODULE AccountsProofs ---------------------------
(***************************************************************************)
(* Proofs about Accounts, for any sets of requests, users and emails.      *)
(*                                                                         *)
(* A step is taken by one request.  OnlyBy says what it leaves alone;      *)
(* OthersKeep shows once and for all that the invariant of every other     *)
(* request survives it, so each action has only its own request to look at.*)
(***************************************************************************)
EXTENDS Accounts, TLAPS

\* What AccountsInv says of one request.
RequestInv(r) == Reached(r) /\ SignUpAnswered(r) /\ Authorized(r) /\ Answered(r)

\* A step of r that leaves the other requests alone; rows are only added, by r,
\* and deletedAt is only set.
OnlyBy(r) ==
  /\ \A q \in Requests \ {r} :
       /\ pc'[q] = pc[q] /\ call'[q] = call[q] /\ seenRole'[q] = seenRole[q]
       /\ answer'[q] = answer[q] /\ trace'[q] = trace[q]
       /\ q \in wrote' <=> q \in wrote
  /\ exists' \in {exists, exists \cup {r}}
  /\ r \in exists => call'[r] = call[r]
  /\ deleted \subseteq deleted'
  /\ Observe

\* What is observed: entitled and denied only grow, and know the present.
LEMMA Observed ==
  ASSUME TypeOK, Observe
  PROVE  /\ entitled' \in SUBSET Requests /\ denied' \in SUBSET Requests
         /\ entitled \subseteq entitled' /\ denied \subseteq denied'
         /\ \A q \in Requests : InFlight(q)' =>
              (Entitled(q)' => q \in entitled') /\ (~Entitled(q)' => q \in denied')
  BY DEF Observe, TypeOK

\* The emails of existing rows do not change.
LEMMA EmailsKept ==
  ASSUME NEW r \in Requests, OnlyBy(r), TypeOK
  PROVE  \A id \in exists : EmailOf(id)' = EmailOf(id)
  BY DEF OnlyBy, EmailOf, TypeOK, Ids

\* What one request does leaves what another knows true: its row is not touched,
\* and a change of rights is observed for all requests.
LEMMA OthersKeep ==
  ASSUME AccountsInv, NEW r \in Requests, OnlyBy(r),
         NEW q \in Requests \ {r}
  PROVE  RequestInv(q)'
<1>1. /\ TypeOK /\ RequestInv(q) /\ RequestInv(r)
  BY DEF AccountsInv, RequestInv
<1>2. /\ entitled \subseteq entitled' /\ denied \subseteq denied'
      /\ InFlight(q)' => (Entitled(q)' => q \in entitled') /\ (~Entitled(q)' => q \in denied')
  BY <1>1, Observed DEF OnlyBy
<1>3. /\ pc'[q] = pc[q] /\ call'[q] = call[q] /\ seenRole'[q] = seenRole[q]
      /\ answer'[q] = answer[q] /\ trace'[q] = trace[q]
      /\ q \in wrote' <=> q \in wrote
      /\ exists \subseteq exists'
      /\ q \in exists' <=> q \in exists
      /\ exists' \ exists \subseteq {r}
      /\ deleted \subseteq deleted'
  BY DEF OnlyBy
<1>4. \A id \in exists : EmailOf(id)' = EmailOf(id)
  BY <1>1, EmailsKept
<1>5. Reached(q)'
  <2>1. (pc[q] = "idle" => answer[q] = 0 /\ trace[q] = Untraced /\ q \notin wrote)'
    BY <1>1, <1>3 DEF RequestInv, Reached, Untraced
  <2>2. (pc[q] # "idle" => /\ call[q] \in Calls
                           /\ call[q].op = "signup" \/ call[q].target \in exists \cup {NoId})'
    BY <1>1, <1>3 DEF RequestInv, Reached, Calls, Operations, SuccessStatus, Ids, Roles
  <2>3. (InFlight(q) => /\ answer[q] = 0 /\ trace[q] = Untraced
                        /\ q \notin wrote
                        /\ Entitled(q) => q \in entitled
                        /\ ~Entitled(q) => q \in denied)'
    BY <1>1, <1>2, <1>3 DEF RequestInv, Reached, InFlight, Untraced
  <2>4. (pc[q] \in PastGuards =>
           IF call[q].op = "profile" /\ call[q].target # call[q].caller
           THEN q \in IF seenRole[q] = "ADMIN" THEN entitled ELSE denied
           ELSE q \in entitled)'
    BY <1>1, <1>2, <1>3 DEF RequestInv, Reached, PastGuards
  <2>5. (pc[q] = "write" /\ call[q].op # "signup" =>
           q \in entitled /\ call[q].target \in exists)'
    BY <1>1, <1>2, <1>3 DEF RequestInv, Reached
  <2>6. (q \in exists => call[q].op = "signup" /\ pc[q] = "answered")'
    BY <1>1, <1>3 DEF RequestInv, Reached
  <2>7. QED BY <2>1, <2>2, <2>3, <2>4, <2>5, <2>6 DEF Reached
<1>6. SignUpAnswered(q)'
  BY <1>1, <1>3, <1>4 DEF RequestInv, SignUpAnswered
<1>7. Authorized(q)'
  BY <1>1, <1>2, <1>3 DEF RequestInv, Authorized
<1>8. Answered(q)'
  <2>1. answer[q] = 404 => call[q].target \notin exists' \ deleted'
    <3>1. ASSUME answer[q] = 404 PROVE call[q].op # "signup" /\ call[q].target \in exists \cup {NoId}
                                       /\ call[q].target \notin exists \ deleted
      BY <1>1, <3>1 DEF RequestInv, Reached, Answered, InFlight, TypeOK
    <3>2. NoId \notin exists'
      BY <1>1, <1>3, AccountsAssumption DEF TypeOK, Ids
    <3>3. QED BY <3>1, <3>2, <1>3
  <2>2. QED BY <1>1, <1>3, <2>1 DEF RequestInv, Answered
<1>9. QED BY <1>5, <1>6, <1>7, <1>8 DEF RequestInv

\* What the invariant needs after a step of r: its types, unique emails, and
\* r itself.
LEMMA Assemble ==
  ASSUME AccountsInv, NEW r \in Requests, OnlyBy(r),
         TypeOK', UniqueEmails', RequestInv(r)'
  PROVE  AccountsInv'
<1>1. \A q \in Requests : RequestInv(q)'
  BY OthersKeep
<1>2. QED BY <1>1 DEF AccountsInv, RequestInv

\* Without a new row, emails stay unique.
LEMMA SameRows ==
  ASSUME AccountsInv, NEW r \in Requests, OnlyBy(r), exists' = exists
  PROVE  UniqueEmails'
<1>1. \A id \in exists : EmailOf(id)' = EmailOf(id)
  BY EmailsKept DEF AccountsInv
<1>2. QED BY <1>1 DEF AccountsInv, UniqueEmails

\* The request arrives.
LEMMA ReceiveKeeps ==
  ASSUME AccountsInv, NEW r \in Requests, Receive(r)
  PROVE  AccountsInv'
<1>1. TypeOK /\ RequestInv(r) /\ pc[r] = "idle" /\ r \notin exists
  BY DEF AccountsInv, RequestInv, Reached, Receive
<1>2. PICK c \in Calls : /\ c.op = "signup" \/ {c.caller, c.target} \subseteq exists \cup {NoId}
                        /\ call' = [call EXCEPT ![r] = c]
  BY DEF Receive
<1>3. OnlyBy(r)
  BY <1>1, <1>2 DEF Receive, OnlyBy, TypeOK, Goto, users
<1>4. /\ pc'[r] = "guards" /\ call'[r] = c /\ exists' = exists /\ wrote' = wrote
      /\ answer'[r] = 0 /\ trace'[r] = Untraced
  BY <1>1, <1>2 DEF Receive, TypeOK, Goto, users, RequestInv, Reached
<1>5. TypeOK'
  <2>1. entitled' \in SUBSET Requests /\ denied' \in SUBSET Requests
    BY <1>1, Observed DEF Receive
  <2>2. QED BY <1>1, <1>2, <2>1 DEF Receive, TypeOK, Goto, users, Roles, Calls, Operations, SuccessStatus, Ids, NoCall
<1>6. RequestInv(r)'
  <2>1. Reached(r)'
    <3>1. InFlight(r)' => (Entitled(r)' => r \in entitled') /\ (~Entitled(r)' => r \in denied')
      BY <1>1, Observed DEF Receive
    <3>2. QED BY <1>1, <1>2, <1>4, <3>1 DEF RequestInv, Reached, InFlight, PastGuards, Untraced, Calls, Operations, SuccessStatus, Ids, Roles
  <2>2. QED BY <1>1, <1>4, <2>1 DEF RequestInv, Reached, SignUpAnswered, Authorized, Answered
<1>7. QED BY <1>3, <1>4, <1>5, <1>6, SameRows, Assemble

Handler(r) == \/ Guards(r) \/ Validate(r) \/ FindByEmail(r) \/ CreateUser(r)
              \/ FindTarget(r) \/ UpdateProfile(r) \/ UpdateRole(r)
              \/ SoftDeleteUser(r) \/ QueryFails(r)

Traces == [id : {"none", "client", "inner"},
           logged : SUBSET {"client", "outer", "inner"}, counted : Nat]

\* What a response changes, whatever its status.
Responded(r, s) ==
  /\ pc' = [pc EXCEPT ![r] = "answered"]
  /\ answer' = [answer EXCEPT ![r] = s]
  /\ trace' \in [Requests -> Traces]
  /\ \A q \in Requests \ {r} : trace'[q] = trace[q]

MovesOn(r) == \E p \in PastGuards : pc' = [pc EXCEPT ![r] = p]

\* A request refused by a guard is answered, neither logged nor counted.
LEMMA Refused ==
  ASSUME TypeOK, NEW r \in Requests, NEW s \in Nat, RefusedByGuard(r, s)
  PROVE  Responded(r, s) /\ trace'[r].logged = {} /\ trace'[r].counted = 0
<1>1. PICK id \in {"client", "none"} : trace' = [trace EXCEPT ![r] = [Untraced EXCEPT !.id = id]]
  BY DEF RefusedByGuard
<1>2. [Untraced EXCEPT !.id = id] = [id |-> id, logged |-> {}, counted |-> 0]
  BY DEF Untraced
<1>3. QED BY <1>1, <1>2 DEF RefusedByGuard, Respond, Goto, Responded, Traces, TypeOK

\* A request that passed the guards is logged under the id of its answer and
\* counted under the status of success.
LEMMA Unwound ==
  ASSUME TypeOK, NEW r \in Requests, NEW s \in Nat, call[r] \in Calls, Unwind(r, s)
  PROVE  /\ Responded(r, s) /\ trace'[r].id \in trace'[r].logged
         /\ trace'[r].counted = SuccessStatus[call[r].op]
<1>1. PICK id \in {"client", "inner"} : trace' = [trace EXCEPT ![r] =
        [id |-> id,
         logged |-> IF id = "client" THEN {"client"} ELSE {"outer", "inner"},
         counted |-> SuccessStatus[call[r].op]]]
  BY DEF Unwind
<1>2. SuccessStatus[call[r].op] \in Nat
  BY DEF Calls, Operations, SuccessStatus
<1>3. QED BY <1>1, <1>2 DEF Unwind, Respond, Goto, Responded, Traces, TypeOK

\* An answered request keeps the invariant if its answer is right.
LEMMA AnswerKeeps ==
  ASSUME AccountsInv, NEW r \in Requests, OnlyBy(r), InFlight(r), call' = call,
         NEW s \in Nat, Responded(r, s),
         r \in exists' => call[r].op = "signup",
         SignUpAnswered(r)', Authorized(r)', Answered(r)'
  PROVE  RequestInv(r)'
<1>1. TypeOK /\ Reached(r) /\ pc'[r] = "answered" /\ exists \subseteq exists'
  BY DEF AccountsInv, Responded, TypeOK, OnlyBy
<1>2. Reached(r)'
  BY <1>1 DEF Reached, InFlight, PastGuards, Calls, Operations, SuccessStatus, Ids, Roles
<1>3. QED BY <1>2 DEF RequestInv

\* A step that moves r along or answers it, and adds at most r's row.
LEMMA Shape ==
  ASSUME AccountsInv, NEW r \in Requests, InFlight(r), Observe, call' = call,
         \/ /\ MovesOn(r) /\ UNCHANGED <<answer, trace>>
         \/ \E s \in Nat : Responded(r, s),
         seenRole' \in [Requests -> Roles \cup {"none"}],
         \A q \in Requests \ {r} : seenRole'[q] = seenRole[q],
         exists' \in {exists, exists \cup {r}},
         wrote' \in {wrote, wrote \cup {r}},
         deleted \subseteq deleted', deleted' \in SUBSET Ids, deleted' \subseteq exists',
         role' \in [Ids -> Roles]
  PROVE  OnlyBy(r) /\ TypeOK'
<1>1. TypeOK /\ entitled' \in SUBSET Requests /\ denied' \in SUBSET Requests
  BY Observed DEF AccountsInv
<1>2. /\ pc' \in [Requests -> {"idle", "guards", "pipe", "find", "write", "answered"}]
      /\ answer' \in [Requests -> Nat] /\ trace' \in [Requests -> Traces]
      /\ \A q \in Requests \ {r} : /\ pc'[q] = pc[q] /\ answer'[q] = answer[q]
                                  /\ trace'[q] = trace[q]
  <2>1. CASE MovesOn(r) /\ UNCHANGED <<answer, trace>>
    BY <1>1, <2>1 DEF MovesOn, PastGuards, TypeOK, Traces
  <2>2. CASE \E s \in Nat : Responded(r, s)
    <3>1. PICK s \in Nat : Responded(r, s)
      BY <2>2
    <3>2. pc' = [pc EXCEPT ![r] = "answered"] /\ answer' = [answer EXCEPT ![r] = s]
      BY <3>1 DEF Responded
    <3>3. /\ trace' \in [Requests -> Traces]
          /\ \A q \in Requests \ {r} : trace'[q] = trace[q]
      BY <3>1 DEF Responded
    <3>4. /\ pc' \in [Requests -> {"idle", "guards", "pipe", "find", "write", "answered"}]
          /\ \A q \in Requests \ {r} : pc'[q] = pc[q]
      BY <1>1, <3>2 DEF TypeOK
    <3>5. /\ answer' \in [Requests -> Nat]
          /\ \A q \in Requests \ {r} : answer'[q] = answer[q]
      BY <1>1, <3>2 DEF TypeOK
    <3>6. QED BY <3>3, <3>4, <3>5
  <2>3. QED BY <2>1, <2>2
<1>3. TypeOK'
  BY <1>1, <1>2 DEF TypeOK, Traces, Ids, Calls, Operations, SuccessStatus, Roles, NoCall
<1>4. OnlyBy(r)
  BY <1>1, <1>2 DEF OnlyBy, TypeOK
<1>5. QED BY <1>3, <1>4

\* The guards: what they refuse was not permitted when they looked, what they
\* let through is judged by the role they read.
LEMMA GuardsKeep ==
  ASSUME AccountsInv, NEW r \in Requests, Guards(r)
  PROVE  AccountsInv'
<1>1. /\ TypeOK /\ Reached(r) /\ call' = call /\ pc[r] = "guards" /\ InFlight(r)
      /\ exists' = exists /\ deleted' = deleted /\ wrote' = wrote /\ role' = role
      /\ Observe /\ call[r] \in Calls /\ r \notin exists /\ r \notin wrote
      /\ entitled \subseteq entitled' /\ denied \subseteq denied'
  BY Observed DEF AccountsInv, Guards, users, Reached, InFlight
<1>2. ASSUME NEW s \in {401, 403, 429}, RefusedByGuard(r, s), UNCHANGED seenRole,
             s \in {401, 403} => ~Entitled(r)
      PROVE  AccountsInv'
  <2>1. Responded(r, s) /\ trace'[r].logged = {} /\ trace'[r].counted = 0
    BY <1>1, <1>2, Refused
  <2>2. OnlyBy(r) /\ TypeOK'
    <3>1. \E x \in Nat : Responded(r, x)
      BY <2>1
    <3>2. QED BY <1>1, <1>2, <3>1, Shape DEF TypeOK
  <2>3. answer'[r] = s
    BY <1>1, <2>1 DEF Responded, TypeOK
  <2>4. SignUpAnswered(r)' /\ Authorized(r)' /\ Answered(r)'
    BY <1>1, <1>2, <2>1, <2>3 DEF SignUpAnswered, Authorized, Answered, Reached
  <2>5. RequestInv(r)'
    BY <1>1, <2>1, <2>2, <2>4, AnswerKeeps
  <2>6. QED BY <1>1, <2>2, <2>5, SameRows, Assemble
<1>3. ASSUME Authenticated(r), MayCall(r), pc' = [pc EXCEPT ![r] = "pipe"],
             UNCHANGED <<answer, trace>>,
             seenRole' = [seenRole EXCEPT ![r] =
               IF call[r].op = "signup" THEN "none" ELSE role[call[r].caller]]
      PROVE  AccountsInv'
  <2>1. call[r].op # "signup" => call[r].caller \in exists \ deleted /\ call[r].caller \in Ids
    BY <1>1, <1>3 DEF Authenticated, TypeOK
  <2>2. OnlyBy(r) /\ TypeOK'
    <3>1. /\ seenRole' \in [Requests -> Roles \cup {"none"}]
          /\ \A q \in Requests \ {r} : seenRole'[q] = seenRole[q]
      BY <1>1, <1>3, <2>1 DEF TypeOK
    <3>2. MovesOn(r)
      BY <1>3 DEF MovesOn, PastGuards
    <3>3. QED BY <1>1, <1>3, <3>1, <3>2, Shape DEF TypeOK
  <2>3. /\ pc'[r] = "pipe" /\ answer'[r] = 0 /\ trace'[r] = Untraced
        /\ seenRole'[r] = IF call[r].op = "signup" THEN "none" ELSE role[call[r].caller]
    BY <1>1, <1>3 DEF TypeOK, Reached
  <2>4. IF call[r].op = "profile" /\ call[r].target # call[r].caller
        THEN r \in IF seenRole'[r] = "ADMIN" THEN entitled ELSE denied
        ELSE r \in entitled
    <3>1. (Entitled(r) => r \in entitled) /\ (~Entitled(r) => r \in denied)
      BY <1>1 DEF Reached
    <3>2. call[r].op \in {"signup", "get", "profile", "role", "remove"}
      BY <1>1 DEF Calls, Operations, SuccessStatus
    <3>3. QED BY <1>3, <2>1, <2>3, <3>1, <3>2 DEF MayCall, AdminOnly, Entitled
  <2>5. Reached(r)'
    <3>1. InFlight(r)' => (Entitled(r)' => r \in entitled') /\ (~Entitled(r)' => r \in denied')
      BY <1>1, Observed
    <3>2. QED
      BY <1>1, <2>3, <2>4, <3>1 DEF Reached, InFlight, PastGuards, Untraced, Calls,
                                  Operations, SuccessStatus, Ids, Roles
  <2>6. SignUpAnswered(r)' /\ Authorized(r)' /\ Answered(r)'
    BY <1>1, <2>3 DEF SignUpAnswered, Authorized, Answered, Untraced
  <2>7. QED BY <1>1, <2>2, <2>5, <2>6, SameRows, Assemble DEF RequestInv
<1>4. ~Authenticated(r) => ~Entitled(r)
  BY DEF Authenticated, Entitled
<1>5. Authenticated(r) /\ ~MayCall(r) => ~Entitled(r)
  BY DEF MayCall, AdminOnly, Entitled
<1>6. QED BY <1>2, <1>3, <1>4, <1>5 DEF Guards, Goto

\* A handler answers, with or without having written.
LEMMA HandlerAnswers ==
  ASSUME AccountsInv, NEW r \in Requests, pc[r] \in PastGuards, Observe,
         UNCHANGED <<call, seenRole>>, NEW s \in Nat, Unwind(r, s),
         exists' \in {exists, exists \cup {r}},
         wrote' \in {wrote, wrote \cup {r}},
         deleted \subseteq deleted', deleted' \in SUBSET Ids, deleted' \subseteq exists',
         role' \in [Ids -> Roles],
         exists' # exists => call[r].op = "signup" /\ ~EmailTaken(call[r].target),
         s = 201 => r \in exists',
         s = 409 => EmailTaken(call[r].target),
         s = 403 => r \in denied,
         r \in wrote' => r \in entitled,
         s = 404 => call[r].op # "signup" /\ call[r].target \notin exists' \ deleted',
         s \notin {401, 429}
  PROVE  AccountsInv'
<1>1. /\ TypeOK /\ Reached(r) /\ InFlight(r) /\ call[r] \in Calls /\ r \notin exists
      /\ entitled \subseteq entitled' /\ denied \subseteq denied'
  BY Observed DEF AccountsInv, Reached, InFlight, PastGuards
<1>2. /\ Responded(r, s) /\ trace'[r].id \in trace'[r].logged
      /\ trace'[r].counted = SuccessStatus[call[r].op]
  BY <1>1, Unwound
<1>3. OnlyBy(r) /\ TypeOK'
  <2>1. \E x \in Nat : Responded(r, x)
    BY <1>2
  <2>2. QED BY <1>1, <2>1, Shape DEF TypeOK
<1>4. \A id \in exists : EmailOf(id)' = EmailOf(id)
  BY <1>1, <1>3, EmailsKept
<1>5. UniqueEmails'
  <2>1. CASE exists' = exists
    BY <1>3, <2>1, SameRows
  <2>2. CASE exists' # exists
    <3>1. exists' = exists \cup {r} /\ EmailOf(r)' = call[r].target
      BY <2>2, AccountsAssumption DEF EmailOf
    <3>2. \A id \in exists : EmailOf(id)' # call[r].target
      BY <1>4, <2>2 DEF EmailTaken
    <3>3. QED BY <1>4, <3>1, <3>2 DEF UniqueEmails, AccountsInv
  <2>3. QED BY <2>1, <2>2
<1>6. answer'[r] = s
  BY <1>1, <1>2 DEF Responded, TypeOK
<1>7. SignUpAnswered(r)'
  <2>1. EmailTaken(call[r].target) => \E id \in exists' \ {r} : EmailOf(id)' = call[r].target
    BY <1>1, <1>4 DEF EmailTaken
  <2>2. QED BY <1>6, <2>1 DEF SignUpAnswered
<1>8. Authorized(r)'
  BY <1>1, <1>6 DEF Authorized
<1>9. Answered(r)'
  <2>1. trace'[r].counted # 0
    BY <1>1, <1>2 DEF Calls, Operations, SuccessStatus
  <2>2. QED BY <1>2, <1>6, <2>1 DEF Answered
<1>10. RequestInv(r)'
  BY <1>1, <1>2, <1>3, <1>7, <1>8, <1>9, AnswerKeeps
<1>11. QED BY <1>3, <1>5, <1>10, Assemble

\* A handler goes on to its next query.
LEMMA HandlerMoves ==
  ASSUME AccountsInv, NEW r \in Requests, pc[r] \in PastGuards, Observe,
         NEW p \in {"find", "write"}, pc' = [pc EXCEPT ![r] = p],
         UNCHANGED <<answer, trace, call, seenRole, users, wrote>>,
         p = "write" /\ call[r].op # "signup" =>
           r \in entitled /\ call[r].target \in exists
  PROVE  AccountsInv'
<1>1. /\ TypeOK /\ RequestInv(r) /\ InFlight(r) /\ pc'[r] = p
      /\ entitled \subseteq entitled' /\ denied \subseteq denied'
      /\ InFlight(r)' => (Entitled(r)' => r \in entitled') /\ (~Entitled(r)' => r \in denied')
  BY Observed DEF AccountsInv, RequestInv, InFlight, PastGuards, TypeOK
<1>2. OnlyBy(r) /\ TypeOK'
  <2>1. MovesOn(r)
    BY DEF MovesOn, PastGuards
  <2>2. QED BY <1>1, <2>1, Shape DEF TypeOK, users
<1>3. Reached(r)'
  BY <1>1 DEF RequestInv, Reached, InFlight, PastGuards, Untraced, users, Calls,
              Operations, SuccessStatus, Ids, Roles
<1>4. SignUpAnswered(r)' /\ Authorized(r)' /\ Answered(r)'
  BY <1>1 DEF RequestInv, Reached, PastGuards, SignUpAnswered, Authorized, Answered
<1>5. QED BY <1>2, <1>3, <1>4, SameRows, Assemble DEF RequestInv, users

\* Sign-ups: findByEmail and create.
LEMMA SignUpKeeps ==
  ASSUME AccountsInv, NEW r \in Requests, FindByEmail(r) \/ CreateUser(r)
  PROVE  AccountsInv'
<1>1. TypeOK /\ Reached(r) /\ pc[r] \in PastGuards /\ InFlight(r) /\ call[r] \in Calls
  BY DEF AccountsInv, FindByEmail, CreateUser, PastGuards, Reached, InFlight
<1>2. r \notin wrote
  BY <1>1 DEF Reached
<1>3. CASE FindByEmail(r)
  <2>1. CASE EmailTaken(call[r].target) /\ Unwind(r, 409)
    BY <1>1, <1>2, <1>3, <2>1, HandlerAnswers DEF FindByEmail, users, TypeOK
  <2>2. CASE Goto(r, "write") /\ UNCHANGED <<answer, trace>>
    BY <1>1, <1>3, <2>2, HandlerMoves DEF FindByEmail, Goto
  <2>3. QED BY <1>3, <2>1, <2>2 DEF FindByEmail
<1>4. CASE CreateUser(r)
  <2>1. ASSUME ~EmailTaken(call[r].target), exists' = exists \cup {r},
               role' = [role EXCEPT ![r] = call[r].role],
               NEW s \in {201, 500}, Unwind(r, s)
        PROVE  AccountsInv'
    <3>1. role' \in [Ids -> Roles] /\ deleted' \in SUBSET Ids /\ deleted' \subseteq exists'
      BY <1>1, <1>4, <2>1 DEF CreateUser, TypeOK, Ids, Calls
    <3>2. QED BY <1>1, <1>2, <1>4, <2>1, <3>1, HandlerAnswers DEF CreateUser
  <2>2. CASE EmailTaken(call[r].target) /\ Unwind(r, 500) /\ UNCHANGED <<exists, role>>
    BY <1>1, <1>2, <1>4, <2>2, HandlerAnswers DEF CreateUser, TypeOK
  <2>3. QED BY <1>4, <2>1, <2>2 DEF CreateUser
<1>5. QED BY <1>3, <1>4

\* ValidationPipe, and queries that fail.
LEMMA FailuresKeep ==
  ASSUME AccountsInv, NEW r \in Requests, Validate(r) \/ QueryFails(r)
  PROVE  AccountsInv'
<1>1. TypeOK /\ Reached(r) /\ InFlight(r) /\ call[r] \in Calls
  BY DEF AccountsInv, Validate, QueryFails, Reached, InFlight
<1>2. r \notin wrote
  BY <1>1 DEF Reached
<1>3. CASE Validate(r)
  <2>1. CASE Goto(r, "find") /\ UNCHANGED <<answer, trace>>
    BY <1>1, <1>3, <2>1, HandlerMoves DEF Validate, Goto, PastGuards
  <2>2. CASE Unwind(r, 400)
    BY <1>1, <1>2, <1>3, <2>2, HandlerAnswers DEF Validate, users, PastGuards, TypeOK
  <2>3. QED BY <1>3, <2>1, <2>2 DEF Validate
<1>4. CASE QueryFails(r)
  <2>1. CASE pc[r] \in {"find", "write"} /\ Unwind(r, 500)
    <3>1. /\ pc[r] \in PastGuards /\ Observe
          /\ UNCHANGED <<call, seenRole, exists, role, deleted, wrote>>
      BY <1>4, <2>1 DEF QueryFails, users, PastGuards
    <3>2. deleted \in SUBSET Ids /\ deleted \subseteq exists /\ role \in [Ids -> Roles]
      BY <1>1 DEF TypeOK
    <3>3. QED BY <1>2, <2>1, <3>1, <3>2, HandlerAnswers
  <2>2. CASE pc[r] = "guards" /\ RefusedByGuard(r, 500)
    <3>1. Responded(r, 500) /\ trace'[r].logged = {} /\ trace'[r].counted = 0
      BY <1>1, <2>2, Refused
    <3>2. /\ call' = call /\ exists' = exists /\ wrote' = wrote /\ Observe
          /\ r \notin exists /\ answer'[r] = 500
      BY <1>1, <1>4, <3>1 DEF QueryFails, users, Responded, TypeOK, Reached, InFlight
    <3>3. OnlyBy(r) /\ TypeOK'
      <4>1. \E x \in Nat : Responded(r, x)
        BY <3>1
      <4>2. QED BY <1>1, <1>4, <4>1, Shape DEF QueryFails, users, TypeOK
    <3>4. SignUpAnswered(r)' /\ Authorized(r)' /\ Answered(r)'
      BY <1>2, <3>1, <3>2 DEF SignUpAnswered, Authorized, Answered
    <3>5. RequestInv(r)'
      BY <1>1, <3>1, <3>2, <3>3, <3>4, AnswerKeeps
    <3>6. QED BY <3>2, <3>3, <3>5, SameRows, Assemble
  <2>3. QED BY <1>4, <2>1, <2>2 DEF QueryFails
<1>5. QED BY <1>3, <1>4

\* The check of the target, and of who may update a profile.
LEMMA FindTargetKeeps ==
  ASSUME AccountsInv, NEW r \in Requests, FindTarget(r)
  PROVE  AccountsInv'
<1>1. /\ TypeOK /\ Reached(r) /\ pc[r] \in PastGuards /\ InFlight(r) /\ call[r] \in Calls
      /\ r \notin wrote /\ Observe /\ call[r].op # "signup"
      /\ UNCHANGED <<call, seenRole, users, wrote>>
  BY DEF AccountsInv, FindTarget, PastGuards, Reached, InFlight
<1>2. /\ call[r].op = "profile" /\ ~MayUpdateProfile(r) => r \in denied
      /\ ~(call[r].op = "profile" /\ ~MayUpdateProfile(r)) => r \in entitled
  BY <1>1 DEF Reached, MayUpdateProfile
<1>3. CASE call[r].op = "profile" /\ ~MayUpdateProfile(r) /\ Unwind(r, 403)
  BY <1>1, <1>2, <1>3, HandlerAnswers DEF users, TypeOK
<1>4. CASE call[r].target \notin exists \ deleted /\ Unwind(r, 404)
  BY <1>1, <1>4, HandlerAnswers DEF users, TypeOK
<1>5. CASE Unwind(r, 200)
  BY <1>1, <1>5, HandlerAnswers DEF users, TypeOK
<1>6. CASE /\ ~(call[r].op = "profile" /\ ~MayUpdateProfile(r))
           /\ call[r].target \in exists \ deleted
           /\ Goto(r, "write") /\ UNCHANGED <<answer, trace>>
  BY <1>1, <1>2, <1>6, HandlerMoves DEF Goto
<1>7. QED BY <1>3, <1>4, <1>5, <1>6 DEF FindTarget

\* The writes: name, role and deletedAt.
LEMMA WritesKeep ==
  ASSUME AccountsInv, NEW r \in Requests,
         UpdateProfile(r) \/ UpdateRole(r) \/ SoftDeleteUser(r)
  PROVE  AccountsInv'
<1>1. PICK op \in {"profile", "role", "remove"} :
        /\ Write(r, op) /\ Observe
        /\ role' \in {role, [role EXCEPT ![call[r].target] = call[r].role]}
        /\ deleted' = IF op = "remove" THEN deleted \cup {call[r].target} ELSE deleted
  BY DEF UpdateProfile, UpdateRole, SoftDeleteUser
<1>2. /\ TypeOK /\ Reached(r) /\ pc[r] \in PastGuards /\ InFlight(r) /\ call[r] \in Calls
      /\ r \in entitled /\ call[r].target \in exists
  BY <1>1 DEF AccountsInv, Write, PastGuards, Reached, InFlight
<1>3. /\ role' \in [Ids -> Roles] /\ deleted \subseteq deleted'
      /\ deleted' \in SUBSET Ids /\ deleted' \subseteq exists'
  BY <1>1, <1>2 DEF Write, TypeOK, Calls
<1>4. PICK s \in {200, 204, 500} : Unwind(r, s)
  BY <1>1 DEF Write, SuccessStatus
<1>5. QED BY <1>1, <1>2, <1>3, <1>4, HandlerAnswers DEF Write

\* Before the first request.
LEMMA InitAccountsInv == Init => AccountsInv
<1> SUFFICES ASSUME Init PROVE AccountsInv
  OBVIOUS
<1>1. TypeOK
  BY DEF Init, TypeOK, Ids, NoCall, Calls, Untraced, Roles
<1>2. UniqueEmails
  BY DEF Init, UniqueEmails, EmailOf
<1>3. ASSUME NEW r \in Requests PROVE RequestInv(r)
  BY AccountsAssumption DEF Init, RequestInv, Reached, InFlight, PastGuards,
     SignUpAnswered, Authorized, Answered, Untraced
<1>4. QED BY <1>1, <1>2, <1>3 DEF AccountsInv, RequestInv

\* Every step, or a stuttering step, preserves AccountsInv.
LEMMA NextAccountsInv == AccountsInv /\ [Next]_vars => AccountsInv'
<1> SUFFICES ASSUME AccountsInv, [Next]_vars PROVE AccountsInv'
  OBVIOUS
<1>1. ASSUME NEW r \in Requests, Receive(r) \/ Handler(r) PROVE AccountsInv'
  BY <1>1, ReceiveKeeps, GuardsKeep, SignUpKeeps, FailuresKeep, FindTargetKeeps,
     WritesKeep DEF Handler
<1>2. CASE UNCHANGED vars
  <2>1. TypeOK' /\ UniqueEmails'
    BY <1>2 DEF vars, users, AccountsInv, TypeOK, UniqueEmails, EmailOf
  <2>2. ASSUME NEW r \in Requests PROVE RequestInv(r)'
    BY <1>2 DEF vars, users, AccountsInv, RequestInv, Reached, InFlight, PastGuards,
       SignUpAnswered, Authorized, Answered, EmailOf, Entitled, Untraced
  <2>3. QED BY <2>1, <2>2 DEF AccountsInv, RequestInv
<1>3. QED BY <1>1, <1>2 DEF Next, Handler

\* The inductive invariant holds in every reachable state, for any sets of
\* requests, users and emails.
THEOREM AccountsInvariance == Spec => []AccountsInv
  BY InitAccountsInv, NextAccountsInv, PTL DEF Spec

\* No interleaving of sign-ups gives two rows one email, and every sign-up is
\* told the truth.
THEOREM EmailsAreUnique == Spec => []OneAccountPerEmail
<1>1. AccountsInv => OneAccountPerEmail
  BY DEF AccountsInv, OneAccountPerEmail
<1>2. QED BY <1>1, AccountsInvariance, PTL

\* Whoever wrote was entitled, and whoever was refused was not, at some moment
\* between receipt and answer, whatever roles change and users go meanwhile.
THEOREM AuthorizationIsCurrent == Spec => []AuthorizationHolds
<1>1. AccountsInv => AuthorizationHolds
  BY DEF AccountsInv, AuthorizationHolds
<1>2. QED BY <1>1, AccountsInvariance, PTL
=============================================================================
