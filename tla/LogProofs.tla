----------------------------- MODULE LogProofs ------------------------------
(***************************************************************************)
(* Proofs about the session log of Orchestrator: every outcome in it       *)
(* belongs to the run opened just before it, and the log is a ledger in    *)
(* the sense of PlanLedger.  They assume what the code needs for that: no  *)
(* append is lost (session-log.ts swallows errors) and no spawn is         *)
(* rejected (the catch branch of cursor-agent.ts appends its entry at some *)
(* later time).  Then, without these assumptions: what the log says was    *)
(* done since a goal was taken has been verified.                          *)
(***************************************************************************)
EXTENDS PlanProofs, LedgerRefinement

\* The last entry of the log.
LastIs(e) == log # <<>> /\ log[Len(log)] = e

\* While an agent runs its entry is the last one, open; while its work is
\* verified it is the last one, done.
RunIsLast ==
  /\ pc \in {"tick", "agent", "log"} => LastIs(CallEntry("running"))
  /\ pc = "verify" => LastIs(CallEntry("done"))

\* EntriesPaired is not inductive alone: which entry is the last one matters.
PairingInv == IInv /\ late = {} /\ outcome # "rejected" /\ RunIsLast /\ EntriesPaired

-----------------------------------------------------------------------------
\* The entry e may follow the last entry of the log.
MayFollow(e) ==
  /\ e.status \in {"done", "crashed", "timeout"} =>
       LastIs([e EXCEPT !.status = "running"])
  /\ e.status = "verify-failed" => LastIs([e EXCEPT !.status = "done"])

\* Such an entry keeps the outcomes paired, and is the last one then.
LEMMA AppendPaired ==
  ASSUME log \in Seq(Entries), EntriesPaired,
         NEW e \in Entries, MayFollow(e), log' = Append(log, e)
  PROVE  EntriesPaired' /\ log' # <<>> /\ log'[Len(log')] = e
<1>1. /\ Len(log) \in Nat /\ Len(log') = Len(log) + 1
      /\ DOMAIN log = 1..Len(log) /\ DOMAIN log' = 1..(Len(log) + 1)
      /\ log'[Len(log) + 1] = e
      /\ \A i \in 1..Len(log) : log'[i] = log[i]
  OBVIOUS
<1>2. log' # <<>> /\ log'[Len(log')] = e
  BY <1>1
<1>3. ASSUME NEW i \in DOMAIN log'
      PROVE  /\ log'[i].status \in {"done", "crashed", "timeout"} =>
                  i > 1 /\ log'[i - 1] = [log'[i] EXCEPT !.status = "running"]
             /\ log'[i].status = "verify-failed" =>
                  i > 1 /\ log'[i - 1] = [log'[i] EXCEPT !.status = "done"]
  <2>1. CASE i \in 1..Len(log)
    <3>1. log'[i] = log[i] /\ (i > 1 => log'[i - 1] = log[i - 1])
      BY <1>1, <2>1
    <3>2. QED
      BY <1>1, <2>1, <3>1 DEF EntriesPaired
  <2>2. CASE i = Len(log) + 1
    <3>1. log # <<>> => Len(log) \in 1..Len(log)
      BY <1>1
    <3>2. log # <<>> => i > 1 /\ log'[i - 1] = log[Len(log)]
      BY <1>1, <2>2, <3>1
    <3>3. log'[i] = e
      BY <1>1, <2>2
    <3>4. QED
      BY <3>2, <3>3 DEF MayFollow, LastIs
  <2>3. i \in 1..Len(log) \/ i = Len(log) + 1
    BY <1>1
  <2>4. QED
    BY <2>1, <2>2, <2>3
<1>4. QED
  BY <1>2, <1>3 DEF EntriesPaired

-----------------------------------------------------------------------------
\* Steps that write no entry: the log is left alone, and no agent run begins or
\* moves on.
Quiet ==
  /\ log' = log /\ late' = late
  /\ outcome' \in {outcome, "none"}
  /\ \/ pc' \notin {"tick", "agent", "log", "verify"}
     \/ UNCHANGED <<pc, goal, cmd, cur, target>>

\* Quiet steps keep the invariant.
LEMMA QuietPaired ==
  ASSUME PairingInv, Quiet, IInv'
  PROVE  PairingInv'
<1>1. EntriesPaired'
  BY DEF PairingInv, Quiet, EntriesPaired
<1>2. RunIsLast'
  BY DEF PairingInv, Quiet, RunIsLast, LastIs, CallEntry
<1>3. QED
  BY <1>1, <1>2 DEF PairingInv, Quiet

\* An empty log satisfies it.
LEMMA InitPairing == Init => PairingInv
BY InitIInv DEF Init, PairingInv, RunIsLast, EntriesPaired

\* With no append lost and no spawn rejected, every step keeps it: one step per
\* place of the code that writes an entry, and the rest is quiet.
LEMMA NextPairing ==
  ASSUME MaxLost = 0, "rejected" \notin AgentOutcomes,
         PairingInv, [Next]_vars
  PROVE  PairingInv'
<1>1. IInv /\ IInv'
  BY NextIInv DEF PairingInv
<1>2. lost \in Nat /\ log \in Seq(Entries) /\ late = {}
  BY <1>1 DEF PairingInv, IInv, InStep, TypeOK, HistType, DiskType
<1>3. ASSUME NEW e, AppendLog(e) PROVE log' = Append(log, e)
  BY <1>2, <1>3 DEF AppendLog
<1> USE DEF Quiet, Goto
<1>4. CASE Launch \/ LoadGoals \/ ComputeResume
  <2>1. Quiet
    BY <1>4, <1>2 DEF Launch, LoadGoals, ComputeResume, disk, work
  <2>2. QED
    BY <1>1, <2>1, QuietPaired
<1>5. CASE Refuse \/ Stop \/ Finish \/ Crash
  <2>1. Quiet
    BY <1>5, <1>2 DEF Refuse, Stop, Finish, Crash, Down, Gone, NoWork, disk, PairingInv
  <2>2. QED
    BY <1>1, <2>1, QuietPaired
<1>6. CASE WorkerLoop \/ TakeGoal \/ BeginGoal \/ LeavePause \/ EndGoal
  <2>1. Quiet
    BY <1>6 DEF WorkerLoop, TakeGoal, BeginGoal, LeavePause, EndGoal, NoWork, disk, work
  <2>2. QED
    BY <1>1, <2>1, QuietPaired
<1>7. CASE EnterQuick \/ StartQuick \/ EnterNormal \/ InitProject \/ EnterResume
           \/ FastForward
  <2>1. Quiet
    <3>1. CASE Throw
      BY <3>1 DEF Throw
    <3>2. CASE ReturnOnShutdown
      BY <3>2 DEF ReturnOnShutdown, disk, work
    <3>3. CASE ~Throw /\ ~ReturnOnShutdown
      BY <1>7, <3>3 DEF EnterQuick, StartQuick, EnterNormal, InitProject, EnterResume,
                        FastForward, DirtyGit, PassCheck, FailGoal, EndFailed, Invoke, disk,
                        work
    <3>4. QED
      BY <3>1, <3>2, <3>3
  <2>2. QED
    BY <1>1, <2>1, QuietPaired
<1>8. CASE WriteInitialized \/ EnterRoadmap \/ CreateRoadmap \/ WriteRoadmapped
           \/ ReadRoadmap
  <2>1. Quiet
    <3>1. CASE Throw
      BY <3>1 DEF Throw
    <3>2. CASE ReturnOnShutdown
      BY <3>2 DEF ReturnOnShutdown, disk, work
    <3>3. CASE ~Throw /\ ~ReturnOnShutdown
      BY <1>8, <3>3 DEF WriteInitialized, EnterRoadmap, CreateRoadmap, WriteRoadmapped,
                        ReadRoadmap, PassCheck, Invoke, disk, work
    <3>4. QED
      BY <3>1, <3>2, <3>3
  <2>2. QED
    BY <1>1, <2>1, QuietPaired
<1>9. CASE PlanPhase \/ WritePlanned \/ DiscoverPlans \/ CompleteGoal
           \/ RunPlan \/ StartPlan \/ WriteExecuted
  <2>1. Quiet
    <3>1. CASE Throw
      BY <3>1 DEF Throw
    <3>2. CASE ReturnOnShutdown
      BY <3>2 DEF ReturnOnShutdown, disk, work
    <3>3. CASE ~Throw /\ ~ReturnOnShutdown
      BY <1>9, <3>3 DEF PlanPhase, WritePlanned, DiscoverPlans, CompleteGoal, RunPlan,
                        StartPlan, PassCheck, WriteExecuted, DirtyGit, EndPhase, Invoke, disk, work
    <3>4. QED
      BY <3>1, <3>2, <3>3
  <2>2. QED
    BY <1>1, <2>1, QuietPaired
<1>10. CASE VerifyPasses
  <2>1. Quiet
    BY <1>10 DEF VerifyPasses
  <2>2. QED
    BY <1>1, <2>1, QuietPaired
<1>11. CASE Signal \/ Unpause \/ Over \/ UNCHANGED vars
  <2>1. Quiet
    BY <1>11 DEF Signal, Unpause, Over, vars, disk, proc, work
  <2>2. QED
    BY <1>1, <2>1, QuietPaired
<1>12. CASE Tick \/ AgentWorks
  <2>1. EntriesPaired' /\ late' = {} /\ outcome' = outcome
    BY <1>2, <1>12 DEF Tick, AgentWorks, PairingInv, EntriesPaired, proc, work
  <2>2. RunIsLast'
    BY <1>12 DEF Tick, AgentWorks, PairingInv, RunIsLast, LastIs, CallEntry, proc, work
  <2>3. QED
    BY <1>1, <2>1, <2>2 DEF PairingInv
<1>13. CASE AgentEnds
  <2>1. EntriesPaired' /\ late' = {} /\ outcome' # "rejected"
    BY <1>2, <1>13 DEF AgentEnds, PairingInv, EntriesPaired
  <2>2. RunIsLast'
    BY <1>13 DEF AgentEnds, PairingInv, RunIsLast, LastIs, CallEntry
  <2>3. QED
    BY <1>1, <2>1, <2>2 DEF PairingInv
<1>14. CASE AgentRejected \/ LateAppend
  BY <1>2, <1>14 DEF AgentRejected, LateAppend, PairingInv
<1>15. ASSUME pc \in {"invoke", "log", "verify"},
              NEW status \in TerminalStatuses \cup {"running"}
       PROVE  CallEntry(status) \in Entries
  BY <1>1, <1>15, CallEntryType
     DEF IInv, InStep, TypeOK, GoalInHand, CommandInHand, Running, Commands
<1>16. CASE BeginAgent
  <2> DEFINE e == CallEntry("running")
  <2>1. e \in Entries /\ log' = Append(log, e)
    BY <1>3, <1>15, <1>16 DEF BeginAgent
  <2>2. MayFollow(e)
    BY DEF MayFollow, CallEntry
  <2>3. EntriesPaired' /\ log' # <<>> /\ log'[Len(log')] = e
    <3>1. EntriesPaired
      BY DEF PairingInv
    <3> HIDE DEF e
    <3>2. QED
      BY <1>2, <2>1, <2>2, <3>1, AppendPaired
  <2>4. RunIsLast'
    BY <1>16, <2>3 DEF BeginAgent, RunIsLast, LastIs, CallEntry, work
  <2>5. QED
    BY <1>1, <1>2, <1>16, <2>3, <2>4 DEF BeginAgent, PairingInv, work
<1>17. CASE AgentSucceeded
  <2> DEFINE e == CallEntry("done")
  <2>1. e \in Entries /\ log' = Append(log, e)
    BY <1>3, <1>15, <1>17 DEF AgentSucceeded, TerminalStatuses
  <2>2. MayFollow(e)
    BY <1>17 DEF AgentSucceeded, PairingInv, RunIsLast, MayFollow, CallEntry
  <2>3. EntriesPaired' /\ log' # <<>> /\ log'[Len(log')] = e
    <3>1. EntriesPaired
      BY DEF PairingInv
    <3> HIDE DEF e
    <3>2. QED
      BY <1>2, <2>1, <2>2, <3>1, AppendPaired
  <2>4. RunIsLast'
    BY <1>17, <2>3 DEF AgentSucceeded, After, RunIsLast, LastIs, CallEntry
  <2>5. QED
    BY <1>1, <1>2, <1>17, <2>3, <2>4 DEF AgentSucceeded, PairingInv
<1>18. CASE AgentFailed
  <2> DEFINE e == CallEntry(outcome)
  <2>1. e \in Entries /\ log' = Append(log, e)
    BY <1>3, <1>15, <1>18 DEF AgentFailed, TerminalStatuses
  <2>2. MayFollow(e)
    BY <1>18 DEF AgentFailed, PairingInv, RunIsLast, MayFollow, CallEntry
  <2>3. EntriesPaired' /\ log' # <<>> /\ log'[Len(log')] = e
    <3>1. EntriesPaired
      BY DEF PairingInv
    <3> HIDE DEF e
    <3>2. QED
      BY <1>2, <2>1, <2>2, <3>1, AppendPaired
  <2>4. RunIsLast'
    BY <1>18 DEF AgentFailed, FailGoal, EndFailed, RunIsLast
  <2>5. QED
    BY <1>1, <1>2, <1>18, <2>3, <2>4 DEF AgentFailed, FailGoal, EndFailed, PairingInv
<1>19. CASE VerifyFails
  <2> DEFINE e == CallEntry("verify-failed")
  <2>1. e \in Entries /\ log' = Append(log, e)
    BY <1>3, <1>15, <1>19 DEF VerifyFails, TerminalStatuses
  <2>2. MayFollow(e)
    BY <1>19 DEF VerifyFails, PairingInv, RunIsLast, MayFollow, CallEntry
  <2>3. EntriesPaired' /\ log' # <<>> /\ log'[Len(log')] = e
    <3>1. EntriesPaired
      BY DEF PairingInv
    <3> HIDE DEF e
    <3>2. QED
      BY <1>2, <2>1, <2>2, <3>1, AppendPaired
  <2>4. RunIsLast'
    BY <1>19 DEF VerifyFails, FailGoal, EndFailed, RunIsLast
  <2>5. QED
    BY <1>1, <1>2, <1>19, <2>3, <2>4 DEF VerifyFails, FailGoal, EndFailed, PairingInv
<1>20. CASE RejectPlanFile
  <2> DEFINE e == [ goal |-> goal, cmd |-> "execute-plan", phase |-> cur,
                    plan |-> target, status |-> "skipped" ]
  <2>1. e \in Entries
    BY <1>1, <1>20
       DEF RejectPlanFile, IInv, InStep, TypeOK, WorkType, GoalInHand, Entries, Commands,
           TerminalStatuses
  <2>2. log' = Append(log, e)
    BY <1>3, <1>20 DEF RejectPlanFile
  <2>3. MayFollow(e)
    BY DEF MayFollow
  <2>4. EntriesPaired'
    BY <1>2, <2>1, <2>2, <2>3, AppendPaired DEF PairingInv
  <2>5. RunIsLast'
    BY <1>20 DEF RejectPlanFile, FailGoal, EndFailed, RunIsLast
  <2>6. QED
    BY <1>1, <1>2, <1>20, <2>4, <2>5 DEF RejectPlanFile, FailGoal, EndFailed, PairingInv
<1>21. CASE DetectCrash
  <2>1. RunIsLast' /\ late' = {} /\ outcome' = outcome
    BY <1>2, <1>21 DEF DetectCrash, RunIsLast, work
  <2>2. CASE UNCHANGED log
    BY <1>1, <2>1, <2>2 DEF PairingInv, EntriesPaired
  <2>3. CASE OpenRun(log) /\ AppendLog([log[Len(log)] EXCEPT !.status = "crashed"])
    <3> DEFINE open == log[Len(log)]
               e == [open EXCEPT !.status = "crashed"]
    <3>1. log # <<>> /\ open.status = "running" /\ open \in Entries
      BY <1>2, <2>3 DEF OpenRun
    <3>2. e \in Entries /\ MayFollow(e)
      BY <3>1 DEF MayFollow, LastIs, Entries, TerminalStatuses
    <3>3. log' = Append(log, e)
      BY <1>3, <2>3
    <3>4. EntriesPaired'
      BY <1>2, <3>2, <3>3, AppendPaired DEF PairingInv
    <3>5. QED
      BY <1>1, <2>1, <3>4 DEF PairingInv
  <2>4. QED
    BY <1>21, <2>2, <2>3 DEF DetectCrash
<1>22. QED
  BY <1>4, <1>5, <1>6, <1>7, <1>8, <1>9, <1>10, <1>11, <1>12, <1>13, <1>14, <1>16,
     <1>17, <1>18, <1>19, <1>20, <1>21
     DEF Next, DaemonStep, Worker, Orchestrate, Agent

\* As long as no append is lost and no spawn rejected, every outcome in the log
\* directly follows the opening of its run: however often the daemon crashes,
\* its crash repair closes each open run once and no other.
THEOREM OutcomesPaired ==
  ASSUME MaxLost = 0, "rejected" \notin AgentOutcomes
  PROVE  Spec => []EntriesPaired
<1>1. PairingInv => EntriesPaired
  BY DEF PairingInv
<1>2. PairingInv /\ [Next]_vars => PairingInv'
  BY NextPairing
<1>3. QED
  BY <1>1, <1>2, InitPairing, PTL DEF Spec
-----------------------------------------------------------------------------
(* The ledger *)

\* The log is read as a ledger that is in order.
LedgerInv == PairingInv /\ OrderInv

\* The line of the ledger that the entry at place i stands for.
LineAt(l, i) == [ at |-> i, plan |-> PlanOf(l[i]),
                  result |-> IF l[i].status = "done" THEN "done" ELSE "failed" ]

\* A run is only opened, and a plan file only rejected, for a plan that is not done.
LEMMA OpenedFresh ==
  ASSUME LedgerInv, [Next]_vars, NEW e, log' = Append(log, e),
         e.cmd = "execute-plan", e.status \in {"running", "skipped"}
  PROVE  Fresh(log, e.goal, e.phase, e.plan)
<1>1. log \in Seq(Entries) /\ late = {}
  BY DEF LedgerInv, PairingInv, IInv, InStep, TypeOK, DiskType
<1>2. log'[Len(log')] = e /\ log' # log
  BY <1>1
<1>3. Writes
  BY <1>2, LogWriters
<1>4. ASSUME NEW f, AppendLog(f) PROVE f = e
  <2>1. log' = Append(log, f)
    BY <1>2, <1>4 DEF AppendLog
  <2>2. log'[Len(log')] = f
    BY <1>1, <2>1
  <2>3. QED
    BY <1>2, <2>2
<1>5. CASE DetectCrash
  <2>1. \E f : AppendLog(f) /\ f.status = "crashed"
    <3>1. OpenRun(log) /\ AppendLog([log[Len(log)] EXCEPT !.status = "crashed"])
      BY <1>2, <1>5 DEF DetectCrash
    <3>2. log[Len(log)] \in Entries
      BY <1>1, <3>1 DEF OpenRun
    <3>3. [log[Len(log)] EXCEPT !.status = "crashed"].status = "crashed"
      BY <3>2 DEF Entries
    <3>4. QED
      BY <3>1, <3>3
  <2>2. QED
    BY <1>4, <2>1
<1>6. CASE VerifyFails \/ AgentSucceeded \/ AgentFailed
  <2>1. \E f : AppendLog(f) /\ f.status \notin {"running", "skipped"}
    BY <1>6 DEF VerifyFails, AgentSucceeded, AgentFailed, CallEntry
  <2>2. QED
    BY <1>4, <2>1
<1>7. CASE BeginAgent
  <2>1. e = CallEntry("running")
    BY <1>4, <1>7 DEF BeginAgent
  <2>2. QED
    BY <1>7, <2>1 DEF BeginAgent, CallEntry, LedgerInv, OrderInv, PlanInHand, AtPlan, Running
<1>8. CASE RejectPlanFile
  <2>1. e = [ goal |-> goal, cmd |-> "execute-plan", phase |-> cur, plan |-> target,
              status |-> "skipped" ]
    BY <1>4, <1>8 DEF RejectPlanFile
  <2>2. QED
    BY <1>8, <2>1 DEF RejectPlanFile, LedgerInv, OrderInv, PlanInHand, AtPlan
<1>9. CASE LateAppend
  BY <1>1, <1>9 DEF LateAppend
<1>10. QED
  BY <1>3, <1>5, <1>6, <1>7, <1>8, <1>9 DEF Writes

\* A step that adds an entry to the log is a step of the ledger.
LEMMA AppendStep ==
  ASSUME LedgerInv, LedgerInv', [Next]_vars, NEW e, log' = Append(log, e)
  PROVE  Ledger!LedgerNext
<1> DEFINE n == Len(log) + 1
           t == PlanOf(e)
<1>1. log \in Seq(Entries) /\ log' \in Seq(Entries)
  BY DEF LedgerInv, OrderInv, IInv, InStep, TypeOK, DiskType
<1>2. /\ Len(log) \in Nat /\ Len(log') = n /\ log' # <<>>
      /\ DOMAIN log = 1..Len(log) /\ DOMAIN log' = 1..n
      /\ log'[n] = e /\ e \in Entries
      /\ \A i \in 1..Len(log) : log'[i] = log[i]
  BY <1>1
<1> HIDE DEF n
<1>3. /\ OpenPlan' = IF e.status = "running" /\ e.cmd = "execute-plan" THEN t ELSE <<>>
      /\ t # <<>>
  BY <1>2 DEF OpenPlan, OpenRun, PlanOf
<1>4. LedgerOutcomes = { LineAt(log, i) : i \in PlanOutcomes }
  BY DEF LedgerOutcomes, LineAt
<1>5. LedgerOutcomes' = { LineAt(log', i) : i \in PlanOutcomes' }
  BY DEF LedgerOutcomes, LineAt
<1>6. \A i \in PlanOutcomes : LineAt(log', i) = LineAt(log, i)
  BY <1>2 DEF PlanOutcomes, LineAt, PlanOf
<1>7. e.cmd = "execute-plan" =>
        /\ t \in PlansOnDisk /\ e.phase \in Phases /\ e.plan \in 1..PlanCounts[e.phase]
        /\ Reached(log, e.goal, e.phase, e.plan)
  <2> SUFFICES ASSUME e.cmd = "execute-plan"
               PROVE  /\ t \in PlansOnDisk /\ e.phase \in Phases
                      /\ e.plan \in 1..PlanCounts[e.phase]
                      /\ Reached(log, e.goal, e.phase, e.plan)
    OBVIOUS
  <2>1. EntryInOrder(log', log'[n])
    BY <1>2 DEF LedgerInv, OrderInv, LogInOrder, n
  <2>2. /\ e.goal \notin QuickGoals /\ e.phase \in Phases /\ e.plan \in 1..PlanCounts[e.phase]
        /\ Reached(log', e.goal, e.phase, e.plan)
    BY <1>2, <2>1 DEF EntryInOrder
  <2>3. t \in PlansOnDisk
    <3>1. t \in (GoalTitles \ QuickGoals) \X {e.phase} \X (1..PlanCounts[e.phase])
      BY <1>2, <2>2 DEF PlanOf, Entries
    <3>2. QED
      BY <2>2, <3>1 DEF PlansOnDisk
  <2>4. Reached(log, e.goal, e.phase, e.plan)
    <3> SUFFICES ASSUME NEW m \in 1..(e.plan - 1)
                 PROVE  Executed(log, e.goal, e.phase, m)
      BY DEF Reached
    <3>1. PICK i \in DOMAIN log' : /\ IsPlanEntry(log'[i], e.goal, e.phase, m)
                                   /\ log'[i].status \in TerminalStatuses
      BY <2>2 DEF Reached, Executed
    <3>2. i # n
      BY <1>2, <3>1 DEF IsPlanEntry, Entries
    <3>3. i \in 1..Len(log)
      BY <1>2, <3>2 DEF n
    <3>4. QED
      BY <1>2, <3>1, <3>3 DEF Executed
  <2>5. QED
    BY <2>2, <2>3, <2>4
<1>8. /\ e.status \in {"done", "crashed", "timeout"} =>
           log # <<>> /\ log[Len(log)] = [e EXCEPT !.status = "running"]
      /\ e.status = "verify-failed" =>
           log # <<>> /\ log[Len(log)] = [e EXCEPT !.status = "done"]
  <2>1. n > 1 => log # <<>> /\ log'[n - 1] = log[Len(log)]
    <3>1. n - 1 = Len(log) /\ (n > 1 => Len(log) \in 1..Len(log))
      BY <1>2 DEF n
    <3>2. log = <<>> => Len(log) = 0
      OBVIOUS
    <3>3. QED
      BY <1>2, <3>1, <3>2
  <2>2. n \in DOMAIN log' /\ EntriesPaired'
    BY <1>2 DEF LedgerInv, PairingInv, n
  <2>3. /\ e.status \in {"done", "crashed", "timeout"} =>
             n > 1 /\ log'[n - 1] = [e EXCEPT !.status = "running"]
        /\ e.status = "verify-failed" =>
             n > 1 /\ log'[n - 1] = [e EXCEPT !.status = "done"]
    BY <1>2, <2>2 DEF EntriesPaired
  <2>4. QED
    BY <2>1, <2>3
<1>9. Fresh(log, e.goal, e.phase, e.plan) => ~Ledger!Done(t)
  <2> SUFFICES ASSUME Fresh(log, e.goal, e.phase, e.plan), NEW i \in PlanOutcomes,
                      LineAt(log, i).plan = t, LineAt(log, i).result = "done"
               PROVE  FALSE
    BY <1>4 DEF Ledger!Done
  <2>1. log[i].status = "done" /\ PlanOf(log[i]) = PlanOf(e)
    BY DEF LineAt
  <2>2. /\ log[i].goal = e.goal /\ log[i].phase = e.phase /\ log[i].plan = e.plan
        /\ log[i].cmd = "execute-plan" /\ i \in DOMAIN log
    BY <2>1 DEF PlanOf, PlanOutcomes
  <2>3. e.plan < e.plan /\ e.plan \in Nat
    BY <1>2, <2>1, <2>2 DEF Fresh, Entries
  <2>4. QED
    BY <2>3
<1>10. CASE ~(e.cmd = "execute-plan" /\ e.status # "running")
  <2>1. PlanOutcomes' = PlanOutcomes
    BY <1>2, <1>10 DEF PlanOutcomes, n
  <2>2. LedgerOutcomes' = LedgerOutcomes
    BY <1>4, <1>5, <1>6, <2>1
  <2>3. CASE e.cmd = "execute-plan"
    <3>1. t \in PlansOnDisk
      BY <1>7, <2>3
    <3>2. ~Ledger!Done(t)
      BY <1>10, <1>9, <2>3, OpenedFresh
    <3>3. ASSUME NEW u \in Ledger!Earlier(t) PROVE Ledger!Tried(u)
      <4>1. u[1] = e.goal /\ u[2] = e.phase /\ u[3] < e.plan /\ u \in PlansOnDisk
        BY DEF Ledger!Earlier, PlanOf
      <4>2. u = <<u[1], u[2], u[3]>> /\ u[3] \in Nat /\ u[3] >= 1
        BY <4>1, RoadmapAssumption DEF PlansOnDisk, Phases
      <4>3. Executed(log, e.goal, e.phase, u[3])
        BY <1>2, <1>7, <2>3, <4>1, <4>2 DEF Reached, Entries
      <4>4. PICK i \in DOMAIN log : /\ IsPlanEntry(log[i], e.goal, e.phase, u[3])
                                    /\ log[i].status \in TerminalStatuses
        BY <4>3 DEF Executed
      <4>5. i \in PlanOutcomes /\ LineAt(log, i).plan = u
        BY <4>1, <4>2, <4>4 DEF IsPlanEntry, TerminalStatuses, PlanOutcomes, LineAt, PlanOf
      <4>6. QED
        BY <1>4, <4>5 DEF Ledger!Tried
    <3>4. OpenPlan' = t
      BY <1>3, <1>10, <2>3
    <3>5. Ledger!Open(t)
      BY <2>2, <3>2, <3>3, <3>4 DEF Ledger!Open
    <3>6. QED
      BY <3>1, <3>5 DEF Ledger!LedgerNext
  <2>4. CASE e.cmd # "execute-plan"
    BY <1>3, <2>2, <2>4 DEF Ledger!LedgerNext, Ledger!Forget
  <2>5. QED
    BY <2>3, <2>4
<1>11. CASE e.cmd = "execute-plan" /\ e.status # "running"
  <2> DEFINE r == IF e.status = "done" THEN "done" ELSE "failed"
             o == [at |-> n, plan |-> t, result |-> r]
  <2>1. PlanOutcomes' = PlanOutcomes \cup {n} /\ n \notin PlanOutcomes
    BY <1>2, <1>11 DEF PlanOutcomes, n
  <2>2. LineAt(log', n) = o
    BY <1>2 DEF LineAt
  <2>3. LedgerOutcomes' = LedgerOutcomes \cup {o}
    BY <1>4, <1>5, <1>6, <2>1, <2>2
  <2>4. \A before \in LedgerOutcomes : before.at < o.at
    BY <1>2, <1>4 DEF LineAt, PlanOutcomes, n
  <2>5. Ledger!Record(t, r)
    <3>1. o \in LedgerOutcomes' /\ o.plan = t /\ o.result = r
      BY <2>3
    <3>2. QED
      BY <2>3, <2>4, <3>1 DEF Ledger!Record
  <2>6. OpenPlan' = <<>>
    BY <1>3, <1>11
  <2>7. CASE e.status \in {"done", "crashed", "timeout"}
    <3>1. log # <<>> /\ log[Len(log)] = [e EXCEPT !.status = "running"]
      BY <1>8, <2>7
    <3>2. OpenPlan = t
      BY <1>2, <1>11, <3>1 DEF OpenPlan, OpenRun, PlanOf, Entries
    <3>3. Ledger!Close(r)
      BY <1>3, <2>5, <2>6, <3>2 DEF Ledger!Close
    <3>4. QED
      BY <3>3 DEF Ledger!LedgerNext
  <2>8. CASE e.status = "verify-failed"
    <3>1. log # <<>> /\ log[Len(log)] = [e EXCEPT !.status = "done"]
      BY <1>8, <2>8
    <3>2. OpenPlan = <<>>
      BY <1>2, <3>1 DEF OpenPlan, OpenRun, Entries
    <3>3. Ledger!Reject(t) /\ t \in PlansOnDisk
      BY <1>11, <1>7, <2>5, <2>6, <2>8, <3>2 DEF Ledger!Reject
    <3>4. QED
      BY <3>3 DEF Ledger!LedgerNext
  <2>9. CASE e.status = "skipped"
    <3>1. ~Ledger!Done(t)
      BY <1>11, <1>9, <2>9, OpenedFresh
    <3>2. Ledger!Reject(t) /\ t \in PlansOnDisk
      BY <1>11, <1>7, <2>5, <2>6, <2>9, <3>1 DEF Ledger!Reject
    <3>3. QED
      BY <3>2 DEF Ledger!LedgerNext
  <2>10. QED
    BY <1>2, <2>7, <2>8, <2>9, <1>11 DEF Entries, TerminalStatuses
<1>12. QED
  BY <1>10, <1>11

\* The other steps leave it alone.
LEMMA LedgerStep ==
  ASSUME LedgerInv, LedgerInv', [Next]_vars
  PROVE  [Ledger!LedgerNext]_<<LedgerOutcomes, OpenPlan>>
<1>1. CASE log' = log
  BY <1>1 DEF LedgerOutcomes, PlanOutcomes, OpenPlan
<1>2. CASE log' # log
  <2>1. log \in Seq(Entries)
    BY DEF LedgerInv, OrderInv, IInv, InStep, TypeOK, DiskType
  <2>2. PICK e : log' = Append(log, e)
    BY <1>2, <2>1, LogGrows
  <2>3. QED
    BY <2>2, AppendStep
<1>3. QED
  BY <1>1, <1>2

\* As long as no append is lost and no spawn rejected, the daemon keeps the promises of
\* PlanLedger through every crash, restart, retry and failure.
THEOREM KeepsLedger ==
  ASSUME MaxLost = 0, "rejected" \notin AgentOutcomes
  PROVE  Spec => ImplementsLedger
<1>1. Init => Ledger!LedgerInit
  BY DEF Init, Ledger!LedgerInit, LedgerOutcomes, PlanOutcomes, OpenPlan, OpenRun
<1>2. Init => LedgerInv
  BY InitPairing, InitOrder DEF LedgerInv
<1>3. LedgerInv /\ [Next]_vars => LedgerInv'
  BY NextPairing, NextOrder DEF LedgerInv
<1>4. LedgerInv /\ LedgerInv' /\ [Next]_vars
        => [Ledger!LedgerNext]_<<LedgerOutcomes, OpenPlan>>
  BY LedgerStep
<1>5. QED
  BY <1>1, <1>2, <1>3, <1>4, PTL DEF Spec, ImplementsLedger, Ledger!LedgerSpec

-----------------------------------------------------------------------------
(* Verification *)

\* A plan whose run ended "done" since the goal was taken is verified, or its
\* verification is under way, or the goal has ended.
DoneVerified ==
  \A i \in (since + 1)..Len(log) :
    log[i].goal = goal /\ log[i].cmd = "execute-plan" /\ log[i].status = "done" =>
      \/ <<log[i].phase, log[i].plan>> \in verified
      \/ pc = "ended"
      \/ /\ pc = "verify" /\ cmd = "execute-plan"
         /\ cur = log[i].phase /\ target = log[i].plan

VerifiedInv == OrderInv /\ DoneVerified

\* Without a goal in hand there is nothing to verify.
LEMMA IdleVerified ==
  ASSUME OrderInv', goal' = NoGoal
  PROVE  VerifiedInv'
<1>1. log' \in Seq(Entries) /\ since' \in Nat
  BY DEF OrderInv, IInv, InStep, TypeOK, DiskType, HistType
<1>2. ASSUME NEW l \in Seq(Entries), NEW n \in Nat, NEW i \in (n + 1)..Len(l)
      PROVE  l[i].goal # NoGoal
  <2>1. l[i] \in Entries
    BY <1>2
  <2>2. QED
    BY <2>1, GoalsAssumption DEF Entries
<1>3. QED
  BY <1>1, <1>2 DEF VerifiedInv, DoneVerified

\* A step adds no "done" entry, and leaves a verification alone or ends its goal.
LEMMA StepVerified ==
  ASSUME VerifiedInv, OrderInv',
         log' = log \/ \E e : /\ log' = Append(log, e)
                             /\ ~(e.cmd = "execute-plan" /\ e.status = "done"),
         UNCHANGED <<goal, since>>, verified \subseteq verified',
         \/ pc \notin {"ended", "verify"} \/ pc' = "ended"
         \/ UNCHANGED <<pc, cmd, cur, target>>
  PROVE  VerifiedInv'
<1>1. log \in Seq(Entries) /\ since \in Nat
  BY DEF VerifiedInv, OrderInv, IInv, InStep, TypeOK, DiskType, HistType
<1>2. ASSUME NEW i \in (since' + 1)..Len(log'),
             log'[i].cmd = "execute-plan", log'[i].status = "done"
      PROVE  i \in (since + 1)..Len(log) /\ log'[i] = log[i]
  BY <1>1, <1>2
<1>3. DoneVerified'
  BY <1>2 DEF VerifiedInv, DoneVerified
<1>4. QED
  BY <1>3 DEF VerifiedInv

LEMMA NextVerified ==
  ASSUME VerifiedInv, [Next]_vars
  PROVE  VerifiedInv'
<1>1. OrderInv'
  BY NextOrder DEF VerifiedInv
<1>2. log \in Seq(Entries) /\ since \in Nat
  BY DEF VerifiedInv, OrderInv, IInv, InStep, TypeOK, DiskType, HistType
<1> USE DEF Goto
<1>3. CASE Refuse \/ Stop \/ Finish \/ Crash \/ EndGoal
  BY <1>1, <1>3, IdleVerified DEF Refuse, Stop, Finish, Crash, Down, Gone, EndGoal, NoWork
<1>4. CASE TakeGoal
  <2>1. \A i \in (since' + 1)..Len(log') : FALSE
    BY <1>2, <1>4 DEF TakeGoal, disk
  <2>2. QED
    BY <1>1, <2>1 DEF VerifiedInv, DoneVerified
<1>5. CASE Launch \/ LoadGoals \/ ComputeResume \/ WorkerLoop \/ BeginGoal \/ LeavePause
  BY <1>1, <1>5, StepVerified DEF Launch, LoadGoals, ComputeResume, WorkerLoop, BeginGoal,
                                  LeavePause, disk, work, hist, notes
<1>6. CASE Throw /\ pc \notin {"verify", "ended"}
  BY <1>1, <1>6, StepVerified DEF Throw, hist, notes
<1>7. CASE ReturnOnShutdown
  BY <1>1, <1>7, StepVerified DEF ReturnOnShutdown, disk, work, hist, notes
<1>8. CASE EnterQuick \/ StartQuick \/ EnterNormal \/ InitProject \/ EnterResume \/ FastForward
  <2>1. CASE StartQuick /\ Throw
    BY <1>6, <2>1 DEF StartQuick
  <2>2. CASE FastForward /\ Throw
    BY <1>6, <2>2 DEF FastForward
  <2>3. CASE ~((StartQuick \/ FastForward) /\ Throw) /\ ~ReturnOnShutdown
    BY <1>1, <1>8, <2>3, StepVerified
       DEF EnterQuick, StartQuick, EnterNormal, InitProject, EnterResume, FastForward,
           DirtyGit, PassCheck, FailGoal, EndFailed, Invoke, disk, work, hist, notes
  <2>4. QED
    BY <1>7, <2>1, <2>2, <2>3
<1>9. CASE WriteInitialized \/ EnterRoadmap \/ CreateRoadmap \/ WriteRoadmapped
           \/ ReadRoadmap \/ PlanPhase \/ WritePlanned
  <2>1. CASE ReadRoadmap /\ Throw
    BY <1>6, <2>1 DEF ReadRoadmap
  <2>2. CASE ~(ReadRoadmap /\ Throw) /\ ~ReturnOnShutdown
    BY <1>1, <1>9, <2>2, StepVerified
       DEF WriteInitialized, EnterRoadmap, CreateRoadmap, WriteRoadmapped, ReadRoadmap,
           PlanPhase, WritePlanned, PassCheck, Invoke, disk, work, hist, notes
  <2>3. QED
    BY <1>7, <2>1, <2>2
<1>10. CASE DiscoverPlans \/ CompleteGoal \/ RunPlan \/ StartPlan \/ WriteExecuted
  <2>1. CASE (DiscoverPlans \/ CompleteGoal \/ StartPlan) /\ Throw
    BY <1>6, <2>1 DEF DiscoverPlans, CompleteGoal, StartPlan
  <2>2. CASE ~((DiscoverPlans \/ CompleteGoal \/ StartPlan) /\ Throw)
    BY <1>1, <1>10, <2>2, StepVerified
       DEF DiscoverPlans, EndPhase, CompleteGoal, RunPlan, PassCheck, StartPlan, DirtyGit,
           WriteExecuted, Invoke, disk, work, hist, notes
  <2>3. QED
    BY <2>1, <2>2
<1>11. CASE VerifyPasses
  <2>1. /\ log' = log /\ UNCHANGED <<goal, since>>
        /\ verified' = verified \cup {<<cur, target>>} /\ pc = "verify"
    BY <1>11 DEF VerifyPasses
  <2>2. DoneVerified'
    BY <2>1 DEF VerifiedInv, DoneVerified
  <2>3. QED
    BY <1>1, <2>2 DEF VerifiedInv
<1>12. CASE BeginAgent \/ AgentFailed \/ VerifyFails \/ RejectPlanFile
  <2>1. log' = log \/ \E e : log' = Append(log, e) /\ e.status # "done"
    BY <1>12 DEF BeginAgent, AgentFailed, VerifyFails, RejectPlanFile, AppendLog, CallEntry
  <2>2. QED
    BY <1>1, <1>12, <2>1, StepVerified
       DEF BeginAgent, AgentFailed, VerifyFails, RejectPlanFile, FailGoal, EndFailed, work,
           notes
<1>13. CASE DetectCrash
  <2>1. log' = log \/ \E e : log' = Append(log, e) /\ e.status = "crashed"
    <3>1. CASE OpenRun(log) /\ AppendLog([log[Len(log)] EXCEPT !.status = "crashed"])
      <4>1. log[Len(log)] \in Entries
        BY <1>2, <3>1 DEF OpenRun
      <4>2. [log[Len(log)] EXCEPT !.status = "crashed"].status = "crashed"
        BY <4>1 DEF Entries
      <4>3. QED
        BY <3>1, <4>2 DEF AppendLog
    <3>2. QED
      BY <1>13, <3>1 DEF DetectCrash
  <2>2. QED
    BY <1>1, <1>13, <2>1, StepVerified DEF DetectCrash, work, notes
<1>14. CASE LateAppend
  <2>1. PICK e \in late : AppendLog(e)
    BY <1>14 DEF LateAppend
  <2>2. e.status # "done"
    BY <2>1 DEF VerifiedInv, OrderInv, LateInOrder
  <2>3. log' = log \/ log' = Append(log, e)
    BY <2>1 DEF AppendLog
  <2>4. QED
    BY <1>1, <1>14, <2>2, <2>3, StepVerified DEF LateAppend, work, notes
<1>15. CASE AgentSucceeded
  <2>1. /\ log' = log \/ log' = Append(log, CallEntry("done"))
        /\ UNCHANGED <<goal, since, verified, cmd, cur, target>>
        /\ pc = "log" /\ pc' = After(cmd)
    BY <1>15 DEF AgentSucceeded, AppendLog, notes
  <2>2. cmd = "execute-plan" => pc' = "verify"
    BY <2>1 DEF After
  <2>3. DoneVerified'
    <3> SUFFICES ASSUME NEW i \in (since' + 1)..Len(log'), log'[i].goal = goal',
                        log'[i].cmd = "execute-plan", log'[i].status = "done"
                 PROVE  \/ <<log'[i].phase, log'[i].plan>> \in verified'
                        \/ /\ pc' = "verify" /\ cmd' = "execute-plan"
                           /\ cur' = log'[i].phase /\ target' = log'[i].plan
      BY DEF DoneVerified
    <3>1. (i \in (since + 1)..Len(log) /\ log'[i] = log[i]) \/ log'[i] = CallEntry("done")
      BY <1>2, <2>1
    <3>2. CASE i \in (since + 1)..Len(log) /\ log'[i] = log[i]
      BY <2>1, <3>2 DEF VerifiedInv, DoneVerified
    <3>3. CASE log'[i] = CallEntry("done")
      BY <2>1, <2>2, <3>3 DEF CallEntry
    <3>4. QED
      BY <3>1, <3>2, <3>3
  <2>4. QED
    BY <1>1, <2>3 DEF VerifiedInv
<1>16. CASE Tick \/ AgentEnds \/ AgentRejected \/ AgentWorks
  BY <1>1, <1>16, StepVerified DEF Tick, AgentEnds, AgentRejected, AgentWorks, FailGoal,
                                   EndFailed, disk, proc, work, hist, notes
<1>17. CASE Signal \/ Unpause \/ Over \/ UNCHANGED vars
  BY <1>1, <1>17, StepVerified DEF Signal, Unpause, Over, vars, disk, proc, work, hist, notes
<1>18. QED
  BY <1>3, <1>4, <1>5, <1>8, <1>9, <1>10, <1>11, <1>12, <1>13, <1>14, <1>15, <1>16, <1>17
     DEF Next, DaemonStep, Worker, Orchestrate, Agent

\* Whatever crashes, lost entries, resume pointers and retries there were before and
\* since, a plan is only run when every other plan whose run ended "done" since the goal
\* was taken has passed the verify command.
THEOREM VerifiedFirst == Spec => []NoPlanAfterUnverified
<1>1. Init => VerifiedInv
  BY InitOrder DEF Init, VerifiedInv, DoneVerified
<1>2. VerifiedInv /\ [Next]_vars => VerifiedInv'
  BY NextVerified
<1>3. VerifiedInv => NoPlanAfterUnverified
  BY DEF VerifiedInv, DoneVerified, NoPlanAfterUnverified, Executing
<1>4. QED
  BY <1>1, <1>2, <1>3, PTL DEF Spec

=============================================================================
