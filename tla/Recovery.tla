------------------------------ MODULE Recovery ------------------------------
(***************************************************************************)
(* What the daemon works out from the files a previous process left:       *)
(* state-consistency.ts (may it start?) and resume-pointer.ts (where does  *)
(* the first pending goal go on?).  Both are pure functions of the session *)
(* log, STATE.md and the heartbeat file.                                   *)
(***************************************************************************)
EXTENDS SessionLog

(***************************************************************************)
(* STATE.md as the daemon writes it.  The status line is one of the texts  *)
(* of orchestrator.ts; status "none" stands for a file that is missing or  *)
(* does not parse (readStateMd returns null).                              *)
(***************************************************************************)
StateStatuses ==
  { "none", "initialized", "roadmap", "planned", "executed", "resuming",
    "quick", "complete" }

StateMds == [phase : Nat, plan : Nat, status : StateStatuses]

NoStateMd == [phase |-> 0, plan |-> 0, status |-> "none"]

\* The status texts that contain "executing", "planned" or "resuming".  The
\* text "Executed plan N" is not one of them.
CeilingStatuses == { "planned", "resuming" }

Abs(n) == IF n < 0 THEN -n ELSE n

\* Check of validateStateConsistency: a run is open but nobody beats for it.
RunningWithoutHeartbeat(log, heartbeat) ==
  OpenRun(log) /\ ~heartbeat

\* Check of validateStateConsistency: STATE.md and the log's last numbered
\* entry are more than one phase apart.
PhaseDrift(log, stateMd) ==
  /\ log # <<>>
  /\ log[Len(log)].phase # 0
  /\ stateMd.status # "none"
  /\ Abs(stateMd.phase - log[Len(log)].phase) > 1

\* suggestedAction = 'reset'.
SuggestsReset(log, stateMd, heartbeat) ==
  RunningWithoutHeartbeat(log, heartbeat) \/ PhaseDrift(log, stateMd)

-----------------------------------------------------------------------------
(***************************************************************************)
(* The resume pointer.  plan 0 means "the first plan of the phase"; phase  *)
(* 0 is no pointer at all (null).                                          *)
(***************************************************************************)
Pointers == [phase : Nat, plan : Nat]

NoPointer == [phase |-> 0, plan |-> 0]

GoalEntries(log, goal) == { i \in DOMAIN log : log[i].goal = goal }

\* findLastPlanComplete looks among these.
PlanCompletes(log, goal) ==
  { i \in GoalEntries(log, goal) :
      /\ log[i].status = "done" /\ log[i].cmd = "execute-plan"
      /\ log[i].phase >= 1 /\ log[i].plan >= 1 }

\* findLastPhaseComplete looks among these.
PhaseCompletes(log, goal) ==
  { i \in GoalEntries(log, goal) :
      /\ log[i].status = "done" /\ log[i].cmd = "plan-phase"
      /\ log[i].phase >= 1 }

\* Mutant of LogPointer: resume at the last plan done, not after it.
LogPointerAtDone(log, goal) ==
  IF PlanCompletes(log, goal) # {}
    THEN LET e == Latest(log, PlanCompletes(log, goal))
         IN  [phase |-> e.phase, plan |-> e.plan]
  ELSE IF PhaseCompletes(log, goal) # {}
    THEN LET e == Latest(log, PhaseCompletes(log, goal))
         IN  [phase |-> e.phase + 1, plan |-> 0]
  ELSE NoPointer

\* The pointer the log alone gives: the plan after the last one done, else
\* the phase after the last one planned.
LogPointer(log, goal) ==
  IF PlanCompletes(log, goal) # {}
    THEN LET e == Latest(log, PlanCompletes(log, goal))
         IN  [phase |-> e.phase, plan |-> e.plan + 1]
  ELSE IF PhaseCompletes(log, goal) # {}
    THEN LET e == Latest(log, PhaseCompletes(log, goal))
         IN  [phase |-> e.phase + 1, plan |-> 0]
  ELSE NoPointer

\* STATE.md as a ceiling: a pointer that is ahead of a STATE.md "in progress"
\* falls back to it.
Clamp(p, stateMd) ==
  IF /\ stateMd.status \in CeilingStatuses
     /\ \/ p.phase > stateMd.phase
        \/ p.phase = stateMd.phase /\ stateMd.plan > 0 /\ p.plan > stateMd.plan
    THEN [phase |-> stateMd.phase, plan |-> stateMd.plan]
    ELSE p

\* computeResumePointer.
ResumePointer(log, stateMd, goal) ==
  LET own == GoalEntries(log, goal)
  IN  IF /\ own # {}
         /\ Latest(log, own).status \in {"running", "crashed"}
         /\ LogPointer(log, goal) # NoPointer
         /\ Clamp(LogPointer(log, goal), stateMd).phase >= 1
        THEN Clamp(LogPointer(log, goal), stateMd)
        ELSE NoPointer

=============================================================================
