----------------------------- MODULE PlanLedger -----------------------------
(***************************************************************************)
(* What the session log promises about execute-plan runs, whatever crashes *)
(* and restarts happen: it is a ledger with at most one open run, in which *)
(* a plan is opened only after the earlier plans of its phase have had an  *)
(* outcome, never once it is done, and in which an outcome belongs to the  *)
(* run that is open.                                                       *)
(***************************************************************************)
EXTENDS Integers

CONSTANTS
  Plans,          \* the plans, as <<goal, phase, number>>
  NoPlan          \* no run is open; not a plan

VARIABLES
  outcomes,       \* the outcomes so far, as numbered lines of the ledger
  open            \* the plan whose run is open

LedgerInit == outcomes = {} /\ open = NoPlan

\* The plans of the same goal and phase with a smaller number.
Earlier(t) == { u \in Plans : u[1] = t[1] /\ u[2] = t[2] /\ u[3] < t[3] }

Tried(t) == \E o \in outcomes : o.plan = t

\* The last outcome of t is "done".
Done(t) ==
  \E o \in outcomes :
    /\ o.plan = t /\ o.result = "done"
    /\ \A later \in outcomes : later.at > o.at => later.plan # t

\* One line is added, after all the others.
Record(t, r) ==
  \E o \in outcomes' :
    /\ o.plan = t /\ o.result = r
    /\ \A before \in outcomes : before.at < o.at
    /\ outcomes' = outcomes \cup {o}

\* A run is opened; one that a crash left open is forgotten.
Open(t) ==
  /\ open' = t
  /\ UNCHANGED outcomes
  /\ ~Done(t) /\ \A u \in Earlier(t) : Tried(u)

\* The open run gets its outcome.
Close(r) == open # NoPlan /\ open' = NoPlan /\ Record(open, r)

\* A run that a crash left open is forgotten.
Forget == open' = NoPlan /\ UNCHANGED outcomes

\* A done plan fails its verification while no run is open, or a plan that is not
\* done is found invalid, whatever a crash left open.
Reject(t) ==
  /\ open = NoPlan \/ ~Done(t)
  /\ open' = NoPlan /\ Record(t, "failed")

LedgerNext ==
  \/ Forget
  \/ \E r \in {"failed", "done"} : Close(r)
  \/ \E t \in Plans : Open(t) \/ Reject(t)

LedgerSpec == LedgerInit /\ [][LedgerNext]_<<outcomes, open>>

=============================================================================
