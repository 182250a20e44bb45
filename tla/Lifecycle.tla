----------------------------- MODULE Lifecycle -----------------------------
(***************************************************************************)
(* The per-goal state machine of src/lifecycle.ts: the phases a goal goes  *)
(* through and the table of transitions that GoalStateMachine.advance      *)
(* enforces.  fail() is not in the table: it may be called in any phase.   *)
(***************************************************************************)
EXTENDS Naturals, Sequences

LifecyclePhases ==
  { "new", "initializing_project", "creating_roadmap", "planning_phase",
    "executing_plan", "phase_complete", "complete", "failed" }

\* LIFECYCLE_TRANSITIONS: where advance() may go from each phase.
Transitions ==
  [ new                  |-> {"initializing_project"},
    initializing_project |-> {"creating_roadmap"},
    creating_roadmap     |-> {"planning_phase"},
    planning_phase       |-> {"executing_plan", "phase_complete"},
    executing_plan       |-> {"executing_plan", "phase_complete"},
    phase_complete       |-> {"planning_phase", "complete"},
    complete             |-> {},
    failed               |-> {} ]

\* A run of advance() calls, none of which throws: each phase of `path` is
\* allowed from the one before it, the first from `from`.
LegalPath(from, path) ==
  \A i \in 1..Len(path) :
    path[i] \in Transitions[IF i = 1 THEN from ELSE path[i - 1]]

=============================================================================
