------------------------------ MODULE Sessions ------------------------------
(***************************************************************************)
(* The refresh-token session of one user: the tokens that login and        *)
(* refresh issue, the one that Redis stores under refresh_token:<userId>,  *)
(* the blacklist that logout writes, and the cookie of the user's browser, *)
(* whose tabs may send requests at the same time.                          *)
(*                                                                         *)
(* A request stands for the token it may issue: tokenId is a random UUID.  *)
(* Users share no key, so one user is enough.  Access tokens are stateless *)
(* and only decide whether a request reaches its handler.                  *)
(***************************************************************************)
EXTENDS FiniteSets

CONSTANTS Requests,  \* POST /auth/login, /refresh and /logout
          NoToken,   \* no cookie; null from Redis
          EmptyId    \* the empty string

ASSUME SessionAssumption == NoToken \notin Requests /\ EmptyId \notin Requests

VARIABLES kind,       \* what each request asks for
          pc,         \* where its handler is, or how it ended
          presented,  \* the refresh token it sent
          stored,     \* refresh_token:<userId>
          blacklist,  \* ids with a key blacklist:<id>
          cookie,     \* the browser's refresh token
          deleted,    \* the user has a deletedAt
          retired,    \* observation only: tokens that were stored and are not
          stale,      \* observation only: sent with a retired token, or
                      \* after the user was deleted
          loggedOut   \* observation only: no login since the last logout

vars == <<kind, pc, presented, stored, blacklist, cookie, deleted, retired,
          stale, loggedOut>>
observed == <<retired, stale, loggedOut>>

Kinds == {"login", "refresh", "logout"}
Ended == {"ok", "refused"}
Steps == {"new", "compare", "blacklisted", "findUser", "store", "respond",
          "delete", "revoke"}

TypeOK ==
  /\ kind \in [Requests -> Kinds]
  /\ pc \in [Requests -> Steps \cup Ended]
  /\ presented \in [Requests -> Requests \cup {NoToken}]
  /\ stored \in Requests \cup {NoToken}
  /\ blacklist \subseteq Requests \cup {EmptyId}
  /\ cookie \in Requests \cup {NoToken}
  /\ deleted \in BOOLEAN /\ loggedOut \in BOOLEAN
  /\ retired \subseteq {r \in Requests : pc[r] \in {"respond", "ok"}}
  /\ stale \subseteq Requests

Init ==
  /\ kind \in [Requests -> Kinds]
  /\ pc = [r \in Requests |-> "new"]
  /\ presented = [r \in Requests |-> NoToken]
  /\ stored = NoToken /\ blacklist = {} /\ cookie = NoToken
  /\ deleted = FALSE /\ loggedOut = FALSE
  /\ retired = {} /\ stale = {}

Goto(r, label) == pc' = [pc EXCEPT ![r] = label]
Retire(t) == retired' = retired \cup (({stored} \ {NoToken}) \ {t})

\* login: the account lockout and the password are LoginAttempts' business;
\* an unknown or deleted user is refused.
SendLogin(r) ==
  /\ kind[r] = "login" /\ pc[r] = "new"
  /\ Goto(r, IF deleted THEN "refused" ELSE "store")
  /\ UNCHANGED <<kind, presented, stored, blacklist, cookie, deleted, observed>>

\* The browser sends the cookie it has now.
SendRefresh(r) ==
  /\ kind[r] = "refresh" /\ pc[r] = "new" /\ cookie # NoToken
  /\ presented' = [presented EXCEPT ![r] = cookie]
  /\ stale' = IF cookie \in retired \/ deleted THEN stale \cup {r} ELSE stale
  /\ Goto(r, "compare")
  /\ UNCHANGED <<kind, stored, blacklist, cookie, deleted, retired, loggedOut>>

\* Faulty variant: some stored token is enough.
CompareExistence(r) ==
  /\ pc[r] = "compare"
  /\ Goto(r, IF stored # NoToken THEN "blacklisted" ELSE "refused")
  /\ UNCHANGED <<kind, presented, stored, blacklist, cookie, deleted, observed>>

\* JwtRefreshStrategy.validate, first await: storedToken !== token.
CompareStored(r) ==
  /\ pc[r] = "compare"
  /\ Goto(r, IF stored = presented[r] THEN "blacklisted" ELSE "refused")
  /\ UNCHANGED <<kind, presented, stored, blacklist, cookie, deleted, observed>>

\* JwtRefreshStrategy.validate, second await: exists(blacklist:<tokenId>).
CheckBlacklist(r) ==
  /\ pc[r] = "blacklisted"
  /\ Goto(r, IF presented[r] \in blacklist THEN "refused" ELSE "findUser")
  /\ UNCHANGED <<kind, presented, stored, blacklist, cookie, deleted, observed>>

\* AuthService.refresh: findById.
FindUser(r) ==
  /\ pc[r] = "findUser"
  /\ Goto(r, IF deleted THEN "refused" ELSE "store")
  /\ UNCHANGED <<kind, presented, stored, blacklist, cookie, deleted, observed>>

\* Faulty variant: a refresh stores the token it was called with.
StorePresented(r) ==
  /\ pc[r] = "store"
  /\ LET t == IF kind[r] = "refresh" THEN presented[r] ELSE r
     IN  stored' = t /\ Retire(t)
  /\ loggedOut' = (loggedOut /\ kind[r] # "login")
  /\ Goto(r, "respond")
  /\ UNCHANGED <<kind, presented, blacklist, cookie, deleted, stale>>

\* generateTokens and storeRefreshToken, for login and for refresh.
StoreRefreshToken(r) ==
  /\ pc[r] = "store"
  /\ stored' = r /\ Retire(r)
  /\ loggedOut' = (loggedOut /\ kind[r] # "login")
  /\ Goto(r, "respond")
  /\ UNCHANGED <<kind, presented, blacklist, cookie, deleted, stale>>

\* JwtStrategy.validate: the access token's user exists and is not deleted.
\* The user it returns has no tokenId.
SendLogout(r) ==
  /\ kind[r] = "logout" /\ pc[r] = "new" /\ cookie # NoToken
  /\ Goto(r, IF deleted THEN "refused" ELSE "delete")
  /\ UNCHANGED <<kind, presented, stored, blacklist, cookie, deleted, observed>>

\* logout, first await: del(refresh_token:<userId>).
LogoutDeletes(r) ==
  /\ pc[r] = "delete"
  /\ stored' = NoToken /\ Retire(NoToken)
  /\ loggedOut' = TRUE
  /\ Goto(r, "revoke")
  /\ UNCHANGED <<kind, presented, blacklist, cookie, deleted, stale>>

\* logout, second await: set(blacklist:<user.tokenId || ''>).
LogoutBlacklists(r) ==
  /\ pc[r] = "revoke"
  /\ blacklist' = blacklist \cup {EmptyId}
  /\ Goto(r, "respond")
  /\ UNCHANGED <<kind, presented, stored, cookie, deleted, observed>>

\* The response sets the cookie, or clears it after a logout.  Responses may
\* arrive in any order.
Respond(r) ==
  /\ pc[r] = "respond"
  /\ cookie' = IF kind[r] = "logout" THEN NoToken ELSE r
  /\ Goto(r, "ok")
  /\ UNCHANGED <<kind, presented, stored, blacklist, deleted, observed>>

\* Redis or the database fails: the handler throws and the cookie stays.
Fails(r) ==
  /\ pc[r] \in Steps \ {"new", "respond"}
  /\ Goto(r, "refused")
  /\ UNCHANGED <<kind, presented, stored, blacklist, cookie, deleted, observed>>

\* UsersService.softDeleteUser: no key of the session is touched.
SoftDeleteUser ==
  /\ ~deleted
  /\ deleted' = TRUE
  /\ UNCHANGED <<kind, pc, presented, stored, blacklist, cookie, observed>>

\* The seven days of refresh_token:<userId> are over.
StoredExpires ==
  /\ stored # NoToken
  /\ stored' = NoToken /\ Retire(NoToken)
  /\ UNCHANGED <<kind, pc, presented, blacklist, cookie, deleted, stale, loggedOut>>

Handle(r) ==
  \/ SendLogin(r) \/ SendRefresh(r) \/ CompareStored(r) \/ CheckBlacklist(r)
  \/ FindUser(r) \/ StoreRefreshToken(r) \/ SendLogout(r) \/ LogoutDeletes(r)
  \/ LogoutBlacklists(r) \/ Respond(r)

Next == \/ \E r \in Requests : Handle(r) \/ Fails(r)
        \/ SoftDeleteUser \/ StoredExpires

Spec == Init /\ [][Next]_vars

-----------------------------------------------------------------------------
(* Properties.                                                              *)

\* A token that was rotated out, logged out or expired never becomes the
\* stored one again, whatever refreshes were in flight meanwhile.
RetiredStaysRetired == stored \notin retired

\* auth.e2e-spec.ts, after logout: "If we send the OLD cookies, they should be
\* invalid".  A refresh sent with a token that is no longer the stored one, or
\* by a deleted user, never gets a new token.
StaleRefreshRefused ==
  \A r \in stale : pc[r] \in {"compare", "blacklisted", "findUser", "refused"}

\* The inductive invariant behind the two: only a request that has stored its
\* token can find it stored or retired, and a stale refresh that got past the
\* comparison is one of a deleted user.
SessionInv ==
  /\ TypeOK
  /\ stored \notin retired
  /\ stored # NoToken => pc[stored] \in {"respond", "ok"}
  /\ cookie # NoToken => pc[cookie] \in {"respond", "ok"}
  /\ \A r \in Requests :
       /\ presented[r] # NoToken => pc[presented[r]] \in {"respond", "ok"}
       /\ kind[r] # "refresh" => r \notin stale
       /\ r \in stale => pc[r] \in {"compare", "blacklisted", "findUser", "refused"}
       /\ r \in stale /\ pc[r] = "compare" => presented[r] \in retired \/ deleted
       /\ r \in stale /\ pc[r] \in {"blacklisted", "findUser"} => deleted
       /\ pc[r] \in {"new", "delete", "revoke"} => r \notin stale
       /\ pc[r] \in {"delete", "revoke"} => kind[r] = "logout"
       /\ pc[r] \in {"compare", "blacklisted", "findUser"}
            => kind[r] = "refresh" /\ presented[r] # NoToken
       /\ pc[r] = "store" => kind[r] \in {"login", "refresh"}

Quiet == \A r \in Requests : pc[r] \in Ended \cup {"new"}

-----------------------------------------------------------------------------
(* What messages, docs and tests say and the code does not do.              *)

\* auth.controller.ts, "Logout successful", and auth.e2e-spec.ts, "If we send
\* the OLD cookies, they should be invalid": once every request is answered and
\* no login has been made since the logout, there is no session.
LogoutEndsSession ==
  /\ Quiet /\ loggedOut
  /\ \A r \in Requests : kind[r] = "logout" => pc[r] \in {"new", "ok"}
  => stored = NoToken
=============================================================================
