-------------------------- MODULE ApplicationLedger --------------------------
(***************************************************************************)
(* What the application endpoints promise, with the three stores, the      *)
(* handlers' steps and their failures left out: for every person and job   *)
(* the ledger holds at most one application; a request enters its          *)
(* application at most once, into an empty slot; an application leaves     *)
(* only while its request is unanswered (the handler retracts it) or when  *)
(* the person is erased.  In particular a confirmed application is never   *)
(* retracted.                                                              *)
(***************************************************************************)
CONSTANTS Requests, Users, Jobs, NoId

VARIABLES wants,   \* the person and the job of each request
          ledger,  \* the application of each person for each job
          state    \* how far each request is

lvars == <<wants, ledger, state>>

Slots == [user : Users, job : Jobs]
States == {"open", "submitted", "confirmed", "closed"}

LedgerTypeOK ==
  /\ wants \in [Requests -> Slots]
  /\ ledger \in [Slots -> Requests \cup {NoId}]
  /\ state \in [Requests -> States]

LInit ==
  /\ wants \in [Requests -> Slots]
  /\ ledger = [s \in Slots |-> NoId]
  /\ state = [r \in Requests |-> "open"]

\* The application is entered; its request is pending, already answered with
\* success (no further step), or already failed (the answer was lost).
Submit(r) ==
  /\ state[r] = "open"
  /\ ledger[wants[r]] = NoId
  /\ ledger' = [ledger EXCEPT ![wants[r]] = r]
  /\ state' \in {[state EXCEPT ![r] = s] : s \in States \ {"open"}}
  /\ UNCHANGED wants

Confirm(r) ==
  /\ state[r] = "submitted"
  /\ state' = [state EXCEPT ![r] = "confirmed"]
  /\ UNCHANGED <<wants, ledger>>

\* The request is refused, fails or dies.  Its entry, if any, may stay.
Close(r) ==
  /\ state[r] \in {"open", "submitted"}
  /\ state' = [state EXCEPT ![r] = "closed"]
  /\ UNCHANGED <<wants, ledger>>

\* The request fails and takes its own entry back.
Retract(r) ==
  /\ state[r] = "submitted"
  /\ ledger[wants[r]] = r
  /\ ledger' = [ledger EXCEPT ![wants[r]] = NoId]
  /\ state' = [state EXCEPT ![r] = "closed"]
  /\ UNCHANGED wants

\* The person's record is deleted with everything that hangs on it.
Erase(u) ==
  /\ ledger' = [s \in Slots |-> IF s.user = u THEN NoId ELSE ledger[s]]
  /\ UNCHANGED <<wants, state>>

LNext ==
  \/ \E r \in Requests : Submit(r) \/ Confirm(r) \/ Close(r) \/ Retract(r)
  \/ \E u \in Users : Erase(u)

LSpec == LInit /\ [][LNext]_lvars
=============================================================================
