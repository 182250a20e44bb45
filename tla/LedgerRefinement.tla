-------------------------- MODULE LedgerRefinement --------------------------
(***************************************************************************)
(* Orchestrator implements PlanLedger: the refinement mapping reads the    *)
(* ledger off the session log alone, the way a restarted daemon has to.    *)
(***************************************************************************)
EXTENDS Orchestrator

PlansOnDisk ==
  UNION { (GoalTitles \ QuickGoals) \X {p} \X (1..PlanCounts[p]) : p \in Phases }

PlanOf(e) == <<e.goal, e.phase, e.plan>>

\* The entries that end the run of a plan.
PlanOutcomes ==
  { i \in DOMAIN log : log[i].cmd = "execute-plan" /\ log[i].status # "running" }

LedgerOutcomes ==
  { [ at |-> i, plan |-> PlanOf(log[i]),
      result |-> IF log[i].status = "done" THEN "done" ELSE "failed" ] : i \in PlanOutcomes }

\* Only the last entry of the log can be an open run.
OpenPlan ==
  IF OpenRun(log) /\ log[Len(log)].cmd = "execute-plan"
    THEN PlanOf(log[Len(log)])
    ELSE <<>>

Ledger == INSTANCE PlanLedger WITH
            Plans <- PlansOnDisk, NoPlan <- <<>>,
            outcomes <- LedgerOutcomes, open <- OpenPlan

\* The daemon keeps the ledger's promises through every crash, restart, retry
\* and failure: no plan is opened before its predecessors in the phase have an
\* outcome or after it was done, and no outcome goes to a run that is not open.
ImplementsLedger == Ledger!LedgerSpec

=============================================================================
