---------------------------- MODULE LoginAttempts ----------------------------
(***************************************************************************)
(* The account lockout of AuthService.login for one email: a Redis counter *)
(* login_attempts:<email> that checkAccountLockout reads, handleFailedLogin*)
(* increments and clearLoginAttempts deletes.  Each Redis command is       *)
(* atomic; the commands of concurrent logins interleave.                   *)
(***************************************************************************)
EXTENDS Naturals, FiniteSets

CONSTANTS Logins,       \* login handlers that may run at the same time
          MaxAttempts   \* ACCOUNT_LOCKOUT_MAX_ATTEMPTS

ASSUME LoginAssumption == IsFiniteSet(Logins) /\ MaxAttempts \in Nat \ {0}

VARIABLES pc,        \* per handler; "idle" also before and after a login
          attempts,  \* the counter, 0 when the key does not exist
          ttl,       \* the key has a time to live
          lost       \* observation only: the expire of this key was lost

vars == <<pc, attempts, ttl, lost>>

TypeOK ==
  /\ pc \in [Logins -> {"idle", "verify", "incr", "expire", "clear"}]
  /\ attempts \in 0..(MaxAttempts - 1 + Cardinality(Logins))
  /\ ttl \in BOOLEAN /\ lost \in BOOLEAN
  /\ attempts = 0 => ~ttl

Init == /\ pc = [l \in Logins |-> "idle"]
        /\ attempts = 0 /\ ttl = FALSE /\ lost = FALSE

Goto(l, label) == pc' = [pc EXCEPT ![l] = label]

\* Faulty variant: the account locks one attempt late.
CheckTooLate(l) ==
  /\ pc[l] = "idle"
  /\ IF attempts <= MaxAttempts THEN Goto(l, "verify") ELSE UNCHANGED pc
  /\ UNCHANGED <<attempts, ttl, lost>>

\* login begins; a locked account is answered 401 and nothing changes.
CheckAccountLockout(l) ==
  /\ pc[l] = "idle"
  /\ IF attempts < MaxAttempts THEN Goto(l, "verify") ELSE UNCHANGED pc
  /\ UNCHANGED <<attempts, ttl, lost>>

\* findByEmail and comparePassword: an unknown or deleted user counts as a
\* failure like a wrong password.
Verify(l) ==
  /\ pc[l] = "verify"
  /\ \E next \in {"clear", "incr"} : Goto(l, next)
  /\ UNCHANGED <<attempts, ttl, lost>>

\* Faulty variant: the result of INCR is compared with 0.
IncrNeverExpires(l) ==
  /\ pc[l] = "incr"
  /\ attempts' = attempts + 1
  /\ Goto(l, IF attempts + 1 = 0 THEN "expire" ELSE "idle")
  /\ UNCHANGED <<ttl, lost>>

\* handleFailedLogin: INCR creates the key without a time to live; only the
\* caller that created it goes on to set one.
Incr(l) ==
  /\ pc[l] = "incr"
  /\ attempts' = attempts + 1
  /\ Goto(l, IF attempts + 1 = 1 THEN "expire" ELSE "idle")
  /\ UNCHANGED <<ttl, lost>>

\* EXPIRE: sets the time to live of whatever the key is now, if it exists.
SetExpiry(l) ==
  /\ pc[l] = "expire"
  /\ ttl' = (attempts > 0)
  /\ lost' = FALSE
  /\ Goto(l, "idle")
  /\ UNCHANGED attempts

\* clearLoginAttempts.
ClearLoginAttempts(l) ==
  /\ pc[l] = "clear"
  /\ attempts' = 0 /\ ttl' = FALSE /\ lost' = FALSE
  /\ Goto(l, "idle")

\* The Redis command of a handler fails, or its process dies before it.
Abort(l) ==
  /\ pc[l] # "idle"
  /\ lost' = (lost \/ (pc[l] = "expire" /\ attempts > 0 /\ ~ttl))
  /\ Goto(l, "idle")
  /\ UNCHANGED <<attempts, ttl>>

\* ACCOUNT_LOCKOUT_DURATION_SECONDS after EXPIRE.
KeyExpires ==
  /\ ttl
  /\ attempts' = 0 /\ ttl' = FALSE /\ lost' = FALSE
  /\ UNCHANGED pc

Login(l) == \/ CheckAccountLockout(l) \/ Verify(l) \/ Incr(l)
            \/ SetExpiry(l) \/ ClearLoginAttempts(l)

Next == KeyExpires \/ \E l \in Logins : Login(l) \/ Abort(l)

Spec == Init /\ [][Next]_vars

\* Redis expires keys; a login that has begun is answered.  No login need
\* ever begin.
Fairness == /\ WF_vars(KeyExpires)
            /\ \A l \in Logins : /\ WF_vars(Verify(l) \/ Incr(l))
                                 /\ WF_vars(SetExpiry(l) \/ ClearLoginAttempts(l))
FairSpec == Spec /\ Fairness

-----------------------------------------------------------------------------
(* Properties.                                                              *)

Locked == attempts >= MaxAttempts

\* A login reads the counter before it verifies and increments after, so
\* several can pass a counter of MaxAttempts - 1.  Each handler that is past
\* its check adds at most one: the counter plus the increments still to come
\* exceeds MaxAttempts - 1 by at most the number of handlers.
OvershootIsBounded ==
  attempts + Cardinality({l \in Logins : pc[l] \in {"verify", "incr"}})
    <= MaxAttempts - 1 + Cardinality(Logins)

\* Whatever failed and successful logins interleave with, a counter without a
\* time to live has a handler on its way to set one, unless the EXPIRE of that
\* handler was lost.
CounterWillExpire ==
  attempts > 0 /\ ~ttl => lost \/ \E l \in Logins : pc[l] = "expire"

\* A locked account is unlocked again, unless the EXPIRE was lost.
LockIsLifted == Locked ~> (~Locked \/ lost)
=============================================================================
