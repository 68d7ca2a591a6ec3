------------------------- MODULE LoginAttemptsProofs -------------------------
(***************************************************************************)
(* Proofs about LoginAttempts, for any finite number of concurrent logins  *)
(* and any MaxAttempts.                                                    *)
(***************************************************************************)
EXTENDS LoginAttempts, FiniteSetTheorems, TLAPS

\* The handlers that are past their check and may still increment.
Pending == {l \in Logins : pc[l] \in {"verify", "incr"}}

\* The inductive invariant: the counter together with the increments to come
\* stays within the bound, and a counter without a time to live is accounted
\* for.  TypeOK follows, its bound on the counter included.
LoginInv ==
  /\ pc \in [Logins -> {"idle", "verify", "incr", "expire", "clear"}]
  /\ attempts \in Nat /\ ttl \in BOOLEAN /\ lost \in BOOLEAN
  /\ attempts = 0 => ~ttl
  /\ OvershootIsBounded
  /\ CounterWillExpire

\* Sets of handlers are finite, so their cardinalities are numbers.
LEMMA SetsOfLogins ==
  ASSUME NEW S \in SUBSET Logins
  PROVE  /\ IsFiniteSet(S)
         /\ Cardinality(S) \in Nat
         /\ Cardinality(S) <= Cardinality(Logins)
         /\ Cardinality(Logins) \in Nat
<1>1. IsFiniteSet(Logins)
  BY LoginAssumption
<1>2. IsFiniteSet(S) /\ Cardinality(S) <= Cardinality(Logins)
  BY <1>1, FS_Subset
<1>3. QED BY <1>1, <1>2, FS_CardinalityType

\* What a step of one handler does to the number of pending ones.
LEMMA PendingStep ==
  ASSUME NEW l \in Logins,
         pc \in [Logins -> {"idle", "verify", "incr", "expire", "clear"}],
         NEW label, Goto(l, label)
  PROVE  /\ Pending \subseteq Logins /\ Pending' \subseteq Logins
         /\ label \notin {"verify", "incr"} => Pending' = Pending \ {l}
         /\ label \in {"verify", "incr"} => Pending' = Pending \cup {l}
  BY DEF Pending, Goto

\* No login has begun.
LEMMA InitLoginInv == Init => LoginInv
<1> SUFFICES ASSUME Init PROVE LoginInv
  OBVIOUS
<1>1. Pending = {}
  BY DEF Init, Pending
<1>2. Cardinality(Pending) = 0
  BY <1>1, FS_EmptySet
<1>3. OvershootIsBounded
  BY <1>2, SetsOfLogins, LoginAssumption DEF Init, OvershootIsBounded, Pending
<1>4. CounterWillExpire
  BY DEF Init, CounterWillExpire
<1>5. ttl = FALSE /\ lost = FALSE
  BY DEF Init
<1>6. ttl \in BOOLEAN /\ lost \in BOOLEAN /\ (attempts = 0 => ~ttl)
  BY <1>5
<1>7. attempts \in Nat /\ pc \in [Logins -> {"idle", "verify", "incr", "expire", "clear"}]
  BY DEF Init
<1>8. QED BY <1>3, <1>4, <1>6, <1>7 DEF LoginInv

\* A handler that passes its check joins the pending ones: there is room for
\* it, since the counter is below MaxAttempts and it was not pending itself.
LEMMA CheckLoginInv ==
  ASSUME LoginInv, NEW l \in Logins, CheckAccountLockout(l)
  PROVE  LoginInv'
<1> USE DEF LoginInv
<1>1. CASE UNCHANGED vars
  BY <1>1 DEF vars, OvershootIsBounded, CounterWillExpire
<1>2. CASE attempts < MaxAttempts /\ Goto(l, "verify")
  <2>1. /\ pc' \in [Logins -> {"idle", "verify", "incr", "expire", "clear"}]
        /\ UNCHANGED <<attempts, ttl, lost>>
        /\ Pending' \in SUBSET Logins
    BY <1>2 DEF CheckAccountLockout, Goto, Pending
  <2>2. Cardinality(Pending') \in Nat /\ Cardinality(Logins) \in Nat
        /\ Cardinality(Pending') <= Cardinality(Logins)
    BY <2>1, SetsOfLogins
  <2>3. attempts + Cardinality(Pending') <= MaxAttempts - 1 + Cardinality(Logins)
    BY <1>2, <2>2, LoginAssumption
  <2>4. OvershootIsBounded'
    BY <2>1, <2>3 DEF OvershootIsBounded, Pending
  <2>5. CounterWillExpire'
    BY <1>2, <2>1 DEF CheckAccountLockout, CounterWillExpire, Goto
  <2>6. QED BY <2>1, <2>4, <2>5
<1>3. QED BY <1>1, <1>2 DEF CheckAccountLockout, vars

\* An increment moves one unit from the pending handlers to the counter.
LEMMA IncrLoginInv ==
  ASSUME LoginInv, NEW l \in Logins, Incr(l)
  PROVE  LoginInv'
<1> USE DEF LoginInv
<1>1. /\ pc' \in [Logins -> {"idle", "verify", "incr", "expire", "clear"}]
      /\ attempts' = attempts + 1 /\ UNCHANGED <<ttl, lost>>
      /\ Pending' = Pending \ {l} /\ l \in Pending /\ Pending \in SUBSET Logins
  BY DEF Incr, Goto, Pending
<1>2. Cardinality(Pending') = Cardinality(Pending) - 1
  BY <1>1, SetsOfLogins, FS_RemoveElement
<1>3. OvershootIsBounded'
  BY <1>1, <1>2, SetsOfLogins, LoginAssumption DEF OvershootIsBounded, Pending
<1>4. CounterWillExpire'
  <2>1. CASE attempts = 0
    BY <2>1 DEF Incr, Goto, CounterWillExpire
  <2>2. CASE attempts # 0
    BY <2>2, <1>1 DEF Incr, Goto, CounterWillExpire
  <2>3. QED BY <2>1, <2>2
<1>5. QED BY <1>1, <1>3, <1>4

\* The variables of the steps that keep the counter or clear it stay in their
\* types, and nobody becomes pending who was not.
LEMMA OtherSteps ==
  ASSUME LoginInv,
         \/ KeyExpires
         \/ \E l \in Logins : Verify(l) \/ SetExpiry(l) \/ ClearLoginAttempts(l)
                              \/ Abort(l)
  PROVE  /\ pc' \in [Logins -> {"idle", "verify", "incr", "expire", "clear"}]
         /\ attempts' \in {0, attempts}
         /\ ttl' \in BOOLEAN /\ lost' \in BOOLEAN /\ (attempts' = 0 => ~ttl')
         /\ Pending' \in SUBSET Pending
<1> USE DEF LoginInv, Goto, Pending
<1>1. CASE KeyExpires
  BY <1>1 DEF KeyExpires
<1>2. ASSUME NEW l \in Logins, Verify(l)
      PROVE  /\ UNCHANGED <<attempts, ttl, lost>>
             /\ pc' \in [Logins -> {"idle", "verify", "incr", "expire", "clear"}]
             /\ Pending' \in SUBSET Pending
  BY <1>2 DEF Verify
<1>3. ASSUME NEW l \in Logins, SetExpiry(l)
      PROVE  /\ ttl' \in BOOLEAN /\ lost' = FALSE /\ attempts' = attempts
             /\ attempts' = 0 => ~ttl'
             /\ pc' \in [Logins -> {"idle", "verify", "incr", "expire", "clear"}]
             /\ Pending' \in SUBSET Pending
  BY <1>3 DEF SetExpiry
<1>4. ASSUME NEW l \in Logins, ClearLoginAttempts(l)
      PROVE  /\ attempts' = 0 /\ ttl' = FALSE /\ lost' = FALSE
             /\ pc' \in [Logins -> {"idle", "verify", "incr", "expire", "clear"}]
             /\ Pending' \in SUBSET Pending
  BY <1>4 DEF ClearLoginAttempts
<1>5. ASSUME NEW l \in Logins, Abort(l)
      PROVE  /\ UNCHANGED <<attempts, ttl>> /\ lost' \in BOOLEAN
             /\ pc' \in [Logins -> {"idle", "verify", "incr", "expire", "clear"}]
             /\ Pending' \in SUBSET Pending
  BY <1>5 DEF Abort
<1>6. QED BY <1>1, <1>2, <1>3, <1>4, <1>5

\* They may only lower what is counted and still to be counted.
LEMMA OtherLoginInv ==
  ASSUME LoginInv,
         \/ KeyExpires
         \/ \E l \in Logins : Verify(l) \/ SetExpiry(l) \/ ClearLoginAttempts(l)
                              \/ Abort(l)
  PROVE  LoginInv'
<1> USE DEF LoginInv
<1>1. /\ pc' \in [Logins -> {"idle", "verify", "incr", "expire", "clear"}]
      /\ attempts' \in {0, attempts}
      /\ ttl' \in BOOLEAN /\ lost' \in BOOLEAN /\ (attempts' = 0 => ~ttl')
      /\ Pending' \in SUBSET Pending
  BY OtherSteps
<1>2. Pending \in SUBSET Logins /\ Pending' \in SUBSET Logins
  BY <1>1 DEF Pending
<1>3. Cardinality(Pending') <= Cardinality(Pending)
  BY <1>1, <1>2, SetsOfLogins, FS_Subset
<1>4. OvershootIsBounded'
  BY <1>1, <1>2, <1>3, SetsOfLogins, LoginAssumption DEF OvershootIsBounded, Pending
<1>5. CounterWillExpire'
  <2> USE DEF CounterWillExpire, Goto
  <2>1. CASE KeyExpires
    BY <2>1 DEF KeyExpires
  <2>2. ASSUME NEW l \in Logins, Verify(l)
        PROVE  CounterWillExpire'
    BY <2>2 DEF Verify
  <2>3. ASSUME NEW l \in Logins, SetExpiry(l)
        PROVE  CounterWillExpire'
    BY <2>3 DEF SetExpiry
  <2>4. ASSUME NEW l \in Logins, ClearLoginAttempts(l)
        PROVE  CounterWillExpire'
    BY <2>4 DEF ClearLoginAttempts
  <2>5. ASSUME NEW l \in Logins, Abort(l)
        PROVE  CounterWillExpire'
    BY <2>5 DEF Abort
  <2>6. QED BY <2>1, <2>2, <2>3, <2>4, <2>5
<1>6. attempts' \in Nat
  BY <1>1
<1>7. QED BY <1>1, <1>4, <1>5, <1>6

\* Every step, or a stuttering step, preserves LoginInv.
LEMMA NextLoginInv == LoginInv /\ [Next]_vars => LoginInv'
<1>1. LoginInv /\ UNCHANGED vars => LoginInv'
  BY DEF LoginInv, vars, OvershootIsBounded, CounterWillExpire
<1>2. QED BY <1>1, CheckLoginInv, IncrLoginInv, OtherLoginInv DEF Next, Login

\* However many logins of one email interleave, fail or are dropped, the counter
\* and the increments still to come keep within their bound.
THEOREM LoginInvariance == Spec => []LoginInv
  BY InitLoginInv, NextLoginInv, PTL DEF Spec

\* Concurrent logins overshoot the limit by less than their number.
THEOREM LockoutOvershoot == Spec => []OvershootIsBounded
<1>1. LoginInv => OvershootIsBounded
  BY DEF LoginInv
<1>2. QED BY <1>1, LoginInvariance, PTL

\* A counter that never expires is one whose EXPIRE was lost.
THEOREM CounterExpires == Spec => []CounterWillExpire
<1>1. LoginInv => CounterWillExpire
  BY DEF LoginInv
<1>2. QED BY <1>1, LoginInvariance, PTL

\* The variables keep their types, the counter its bound.
THEOREM LoginTypeCorrect == Spec => []TypeOK
<1>1. LoginInv => TypeOK
  <2> SUFFICES ASSUME LoginInv PROVE TypeOK
    OBVIOUS
  <2>1. Pending \in SUBSET Logins
    BY DEF Pending
  <2>2. Cardinality(Pending) \in Nat /\ Cardinality(Logins) \in Nat
    BY <2>1, SetsOfLogins
  <2>3. attempts <= MaxAttempts - 1 + Cardinality(Logins)
    BY <2>2, LoginAssumption DEF LoginInv, OvershootIsBounded, Pending
  <2>4. QED BY <2>2, <2>3, LoginAssumption DEF LoginInv, TypeOK
<1>2. QED BY <1>1, LoginInvariance, PTL
=============================================================================
