--------------------------- MODULE SessionsProofs ---------------------------
(***************************************************************************)
(* Proofs about Sessions, for any number of concurrent requests.           *)
(***************************************************************************)
EXTENDS Sessions, TLAPS

\* No token has been issued yet.
LEMMA InitSessionInv == Init => SessionInv
  BY SessionAssumption DEF Init, SessionInv, TypeOK, Kinds, Steps

\* The steps of a handler that only move it along.
LEMMA MovesSessionInv ==
  ASSUME SessionInv, NEW r \in Requests,
         \/ SendLogin(r) \/ CompareStored(r) \/ CheckBlacklist(r)
         \/ FindUser(r) \/ SendLogout(r) \/ Fails(r)
  PROVE  SessionInv'
<1> USE SessionAssumption DEF SessionInv, TypeOK, Goto, observed, Steps, Ended
<1>1. CASE SendLogin(r)      BY <1>1 DEF SendLogin
<1>2. CASE CompareStored(r)  BY <1>2 DEF CompareStored
<1>3. CASE CheckBlacklist(r) BY <1>3 DEF CheckBlacklist
<1>4. CASE FindUser(r)       BY <1>4 DEF FindUser
<1>5. CASE SendLogout(r)     BY <1>5 DEF SendLogout
<1>6. CASE Fails(r)          BY <1>6 DEF Fails
<1>7. QED BY <1>1, <1>2, <1>3, <1>4, <1>5, <1>6

\* The steps that write a token, a key or the cookie.
LEMMA WritesSessionInv ==
  ASSUME SessionInv, NEW r \in Requests,
         \/ SendRefresh(r) \/ StoreRefreshToken(r) \/ LogoutDeletes(r)
         \/ LogoutBlacklists(r) \/ Respond(r)
  PROVE  SessionInv'
<1> USE SessionAssumption DEF SessionInv, TypeOK, Goto, Retire, observed, Steps, Ended
<1>1. CASE SendRefresh(r)       BY <1>1 DEF SendRefresh
<1>2. CASE StoreRefreshToken(r) BY <1>2 DEF StoreRefreshToken
<1>3. CASE LogoutDeletes(r)     BY <1>3 DEF LogoutDeletes
<1>4. CASE LogoutBlacklists(r)  BY <1>4 DEF LogoutBlacklists
<1>5. CASE Respond(r)           BY <1>5 DEF Respond
<1>6. QED BY <1>1, <1>2, <1>3, <1>4, <1>5

\* Every step, or a stuttering step, preserves SessionInv.
LEMMA NextSessionInv == SessionInv /\ [Next]_vars => SessionInv'
<1> SUFFICES ASSUME SessionInv, [Next]_vars
             PROVE  SessionInv'
  OBVIOUS
<1>1. ASSUME NEW r \in Requests, Handle(r) \/ Fails(r)
      PROVE  SessionInv'
  BY <1>1, MovesSessionInv, WritesSessionInv DEF Handle
<1>2. CASE SoftDeleteUser
  BY <1>2 DEF SoftDeleteUser, SessionInv, TypeOK, observed
<1>3. CASE StoredExpires
  BY <1>3, SessionAssumption DEF StoredExpires, SessionInv, TypeOK, Retire
<1>4. CASE UNCHANGED vars
  BY <1>4 DEF vars, SessionInv, TypeOK
<1>5. QED BY <1>1, <1>2, <1>3, <1>4 DEF Next

\* The inductive invariant holds in every reachable state.
THEOREM SessionInvariance == Spec => []SessionInv
  BY InitSessionInv, NextSessionInv, PTL DEF Spec

\* A refresh token that was rotated out, logged out or expired is never the
\* stored one again.
THEOREM RetiredTokensStayRetired == Spec => []RetiredStaysRetired
<1>1. SessionInv => RetiredStaysRetired
  BY DEF SessionInv, RetiredStaysRetired
<1>2. QED BY <1>1, SessionInvariance, PTL

\* A refresh sent with such a token, or by a deleted user, never succeeds.
THEOREM StaleRefreshesAreRefused == Spec => []StaleRefreshRefused
<1>1. SessionInv => StaleRefreshRefused
  BY DEF SessionInv, TypeOK, StaleRefreshRefused
<1>2. QED BY <1>1, SessionInvariance, PTL
=============================================================================
