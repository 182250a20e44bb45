----------------------------- MODULE SessionLog -----------------------------
(***************************************************************************)
(* session-log.jsonl: the append-only log of agent runs (session-log.ts)   *)
(* and what roadmap-parser.ts derives from it.  A log is a sequence of     *)
(* entries.  A phaseNumber or planNumber the code leaves undefined is 0:   *)
(* every reader in the code tests for a number that is at least 1.         *)
(***************************************************************************)
EXTENDS Integers, Sequences

CONSTANT GoalTitles      \* the titles goals may have

\* SessionLogEntry.phase: the GSD command the entry is about.
Commands ==
  { "new-project", "create-roadmap", "plan-phase", "execute-plan", "quick" }

\* The outcomes that end a run; "running" is the entry that opens it.
TerminalStatuses == { "done", "crashed", "timeout", "verify-failed", "skipped" }

\* SessionLogEntry, without the texts nobody decides anything on.
Entries ==
  [ goal : GoalTitles, cmd : Commands, phase : Nat, plan : Nat,
    status : TerminalStatuses \cup {"running"} ]

\* The entries of one execute-plan command.
IsPlanEntry(e, goal, phase, plan) ==
  /\ e.goal = goal
  /\ e.cmd = "execute-plan"
  /\ e.phase = phase
  /\ e.plan = plan

\* derivePlanExecutionStatuses + discoverPlans: a plan counts as executed as
\* soon as any terminal entry of this goal names it, whatever the outcome.
Executed(log, goal, phase, plan) ==
  \E i \in DOMAIN log : /\ IsPlanEntry(log[i], goal, phase, plan)
                        /\ log[i].status \in TerminalStatuses

\* Mutant of Unexecuted: the last plan file is never looked at.
UnexecutedButLast(log, goal, phase, count) ==
  { n \in 1..(count - 1) : ~Executed(log, goal, phase, n) }

\* Mutant of Unexecuted: an outcome of one plan counts for its whole phase.
UnexecutedPhase(log, goal, phase, count) ==
  { n \in 1..count : \A m \in 1..count : ~Executed(log, goal, phase, m) }

\* The plans of a phase directory with `count` plan files that
\* getNextUnexecutedPlan still has to consider.
Unexecuted(log, goal, phase, count) ==
  { n \in 1..count : ~Executed(log, goal, phase, n) }

\* Mutant of IsNextUnexecuted: plans sorted the other way round.
IsLastUnexecuted(n, log, goal, phase, count) ==
  /\ n \in Unexecuted(log, goal, phase, count)
  /\ \A m \in Unexecuted(log, goal, phase, count) : n >= m

\* getNextUnexecutedPlan: plans are sorted by number, the first one left wins.
IsNextUnexecuted(n, log, goal, phase, count) ==
  /\ n \in Unexecuted(log, goal, phase, count)
  /\ \A m \in Unexecuted(log, goal, phase, count) : n <= m

\* The most recent of the entries at the given indices (a non-empty set).
Latest(log, indices) ==
  log[CHOOSE i \in indices : \A j \in indices : j <= i]

\* inspectForCrashedSessions, as its caller uses it: the last entry of the log
\* is a run that nobody closed.
OpenRun(log) == log # <<>> /\ log[Len(log)].status = "running"

=============================================================================
