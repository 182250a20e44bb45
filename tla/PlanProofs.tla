----------------------------- MODULE PlanProofs -----------------------------
(***************************************************************************)
(* Proofs about the order in which Orchestrator runs the plans of a goal.  *)
(* Nothing is assumed of the log: entries may be lost or come late, agents *)
(* may fail in every way, and the daemon may crash any number of times.    *)
(* Within a phase nothing else is assumed; across phases, that planning    *)
(* leaves a directory and that one full goal uses the directories.         *)
(***************************************************************************)
EXTENDS OrchestratorProofs

-----------------------------------------------------------------------------
(* The inductive invariant *)

\* Every earlier plan of the phase has had an outcome for the goal.
Reached(l, g, p, n) == \A m \in 1..(n - 1) : Executed(l, g, p, m)

\* The plans of the phase that are done for the goal come before this one.
Fresh(l, g, p, n) ==
  \A i \in DOMAIN l :
    l[i].goal = g /\ l[i].cmd = "execute-plan" /\ l[i].phase = p /\ l[i].status = "done"
      => l[i].plan < n

Ready(g, p, n) == Reached(log, g, p, n) /\ Fresh(log, g, p, n)

\* A plan is in hand, from its choice to its verification.
AtPlan == pc \in {"plan", "preflight"} \/ ((Running \/ pc = "verify") /\ cmd = "execute-plan")

\* A phase is.
AtPhase == \/ pc \in {"fastforward", "planned", "discover", "executed"} \/ AtPlan
           \/ Running /\ cmd = "plan-phase"

PhaseInHand ==
  /\ AtPhase => cur \in Phases /\ goal \notin QuickGoals
  /\ \/ pc \in {"init", "initialized", "roadmap", "create", "roadmapped", "phases", "phase"}
     \/ Running /\ cmd \in {"new-project", "create-roadmap"}
     => goal \notin QuickGoals

PlanInHand ==
  /\ AtPlan => target \in 1..PlanCounts[cur] /\ Reached(log, goal, cur, target)
  /\ AtPlan /\ pc # "verify" => Fresh(log, goal, cur, target)

\* A pointer that names a plan names one that is ready.
ResumeReady ==
  /\ pc \in {"inspect", "pointer"} => queue # <<>>
  /\ pc \in {"worker", "gate"} /\ resume.plan > 0
       => queue # <<>> /\ Ready(queue[1], resume.phase, resume.plan)
  /\ pc \in {"taken", "goal", "fastforward"} /\ resume.plan > 0
       => Ready(goal, resume.phase, resume.plan)
  /\ pc = "fastforward" => cur = resume.phase

\* What the log says of a plan.
EntryInOrder(l, e) ==
  e.cmd = "execute-plan" =>
    /\ e.goal \notin QuickGoals /\ e.phase \in Phases /\ e.plan \in 1..PlanCounts[e.phase]
    /\ Reached(l, e.goal, e.phase, e.plan)

\* The entries of plans are in order, and those that are done in ascending order.
LogInOrder ==
  /\ \A i \in DOMAIN log : EntryInOrder(log, log[i])
  /\ \A i, j \in DOMAIN log :
       /\ i < j /\ log[i].goal = log[j].goal /\ log[i].phase = log[j].phase
       /\ log[i].cmd = "execute-plan" /\ log[i].status = "done"
       /\ log[j].cmd = "execute-plan" /\ log[j].status = "done"
       => log[i].plan < log[j].plan

LateInOrder == \A e \in late : EntryInOrder(log, e) /\ e.status # "done"

\* STATE.md names no plan where it serves as a ceiling.
CeilingNamesNoPlan == stateMd.status \in CeilingStatuses => stateMd.plan = 0

OrderInv == /\ IInv /\ PhaseInHand /\ PlanInHand /\ ResumeReady
            /\ LogInOrder /\ LateInOrder /\ CeilingNamesNoPlan

-----------------------------------------------------------------------------
(* The log grows *)

\* What was reached stays reached.
ReachedKept == \A g, p, n : Reached(log, g, p, n) => Reached(log', g, p, n)
FreshKept == \A g, p, n : Fresh(log, g, p, n) => Fresh(log', g, p, n)

\* An entry in order that is appended, or lost, leaves the log in order.
LEMMA AppendInOrder ==
  ASSUME log \in Seq(Entries), LogInOrder,
         NEW e \in Entries, EntryInOrder(log, e), log' = Append(log, e) \/ log' = log,
         e.cmd = "execute-plan" /\ e.status = "done"
           => Fresh(log, e.goal, e.phase, e.plan)
  PROVE  /\ LogInOrder' /\ ReachedKept
         /\ e.status # "done" => FreshKept
<1>1. CASE log' = log
  BY <1>1 DEF LogInOrder, ReachedKept, FreshKept
<1>2. CASE log' = Append(log, e)
  <2>1. /\ Len(log) \in Nat /\ DOMAIN log = 1..Len(log) /\ DOMAIN log' = 1..(Len(log) + 1)
        /\ log'[Len(log) + 1] = e
        /\ \A i \in 1..Len(log) : log'[i] = log[i]
    BY <1>2
  <2> HIDE <1>2
  <2>2. ASSUME NEW g, NEW p, NEW m, Executed(log, g, p, m)
        PROVE  Executed(log', g, p, m)
    BY <2>1, <2>2 DEF Executed
  <2>3. ReachedKept
    BY <2>2 DEF ReachedKept, Reached
  <2>4. e.status # "done" => FreshKept
    <3> SUFFICES ASSUME e.status # "done", NEW g, NEW p, NEW n, Fresh(log, g, p, n),
                        NEW i \in DOMAIN log',
                        log'[i].goal = g, log'[i].cmd = "execute-plan",
                        log'[i].phase = p, log'[i].status = "done"
                 PROVE  log'[i].plan < n
      BY DEF FreshKept, Fresh
    <3>1. i \in 1..Len(log) \/ i = Len(log) + 1
      BY <2>1
    <3>2. QED
      BY <2>1, <3>1 DEF Fresh
  <2>5. ASSUME NEW i \in DOMAIN log' PROVE EntryInOrder(log', log'[i])
    <3>1. i \in 1..Len(log) \/ i = Len(log) + 1
      BY <2>1
    <3>2. EntryInOrder(log, log'[i])
      BY <2>1, <3>1 DEF LogInOrder
    <3>3. QED
      BY <2>3, <3>2 DEF EntryInOrder, ReachedKept
  <2>6. ASSUME NEW i \in DOMAIN log', NEW j \in DOMAIN log', i < j,
               log'[i].goal = log'[j].goal, log'[i].phase = log'[j].phase,
               log'[i].cmd = "execute-plan", log'[i].status = "done",
               log'[j].cmd = "execute-plan", log'[j].status = "done"
        PROVE  log'[i].plan < log'[j].plan
    <3>1. i \in 1..Len(log)
      BY <2>1, <2>6
    <3>2. j \in 1..Len(log) \/ j = Len(log) + 1
      BY <2>1
    <3>3. CASE j \in 1..Len(log)
      BY <2>1, <2>6, <3>1, <3>3 DEF LogInOrder
    <3>4. CASE j = Len(log) + 1
      BY <2>1, <2>6, <3>1, <3>4 DEF Fresh
    <3>5. QED
      BY <3>2, <3>3, <3>4
  <2>7. LogInOrder'
    BY <2>5, <2>6, Zenon DEF LogInOrder
  <2>8. QED
    BY <2>3, <2>4, <2>7
<1>3. QED
  BY <1>1, <1>2

\* The plan that is chosen is the first without an outcome: it is ready.
LEMMA ChosenReady ==
  ASSUME log \in Seq(Entries), LogInOrder, NEW g, NEW p \in Phases, NEW n \in Nat,
         IsNextUnexecuted(n, log, g, p, PlanCounts[p])
  PROVE  n \in 1..PlanCounts[p] /\ Ready(g, p, n)
<1>1. PlanCounts[p] \in Nat
  BY RoadmapAssumption DEF Phases
<1>2. n \in 1..PlanCounts[p] /\ ~Executed(log, g, p, n)
  BY DEF IsNextUnexecuted, Unexecuted
<1>3. Reached(log, g, p, n)
  <2> SUFFICES ASSUME NEW m \in 1..(n - 1) PROVE Executed(log, g, p, m)
    BY DEF Reached
  <2>1. m \in 1..PlanCounts[p] /\ ~(n <= m)
    BY <1>1, <1>2
  <2>2. QED
    BY <2>1 DEF IsNextUnexecuted, Unexecuted
<1>4. Fresh(log, g, p, n)
  <2> SUFFICES ASSUME NEW i \in DOMAIN log, log[i].goal = g, log[i].cmd = "execute-plan",
                      log[i].phase = p, log[i].status = "done"
               PROVE  log[i].plan < n
    BY DEF Fresh
  <2>1. log[i].plan \in 1..PlanCounts[p] /\ Reached(log, g, p, log[i].plan)
    BY DEF LogInOrder, EntryInOrder
  <2>2. Executed(log, g, p, log[i].plan)
    BY DEF Executed, IsPlanEntry, TerminalStatuses
  <2>3. log[i].plan # n
    BY <1>2, <2>2
  <2>4. ~(n < log[i].plan)
    <3>1. n < log[i].plan => n \in 1..(log[i].plan - 1)
      BY <1>1, <1>2, <2>1
    <3>2. QED
      BY <1>2, <2>1, <3>1 DEF Reached
  <2>5. QED
    BY <1>1, <2>1, <2>3, <2>4
<1>5. QED
  BY <1>2, <1>3, <1>4 DEF Ready

\* So is the plan a resume pointer names: the one after the last plan done.
LEMMA PointerReady ==
  ASSUME log \in Seq(Entries), stateMd \in StateMds, LogInOrder, CeilingNamesNoPlan,
         NEW g, ResumePointer(log, stateMd, g).plan > 0
  PROVE  Ready(g, ResumePointer(log, stateMd, g).phase, ResumePointer(log, stateMd, g).plan)
<1> DEFINE I == PlanCompletes(log, g)
<1>1. ResumePointer(log, stateMd, g) = LogPointer(log, g)
  BY DEF ResumePointer, Clamp, CeilingNamesNoPlan, NoPointer
<1>2. I # {}
  <2>1. LogPointer(log, g).plan > 0
    BY <1>1
  <2>2. QED
    BY <2>1 DEF LogPointer, NoPointer
<1>3. I \subseteq DOMAIN log
  BY DEF PlanCompletes, GoalEntries
<1>4. PICK i \in I : /\ Latest(log, I) = log[i] /\ log[i] \in Entries
                     /\ \A j \in I : j <= i
  BY <1>2, <1>3, LatestIn
<1>5. LogPointer(log, g) = [phase |-> log[i].phase, plan |-> log[i].plan + 1]
  BY <1>2, <1>4 DEF LogPointer
<1>6. /\ i \in DOMAIN log /\ log[i].goal = g /\ log[i].cmd = "execute-plan"
      /\ log[i].status = "done"
  BY DEF PlanCompletes, GoalEntries
<1>7. log[i].plan \in Nat /\ Reached(log, g, log[i].phase, log[i].plan)
  BY <1>4, <1>6 DEF LogInOrder, EntryInOrder, Entries
<1>8. Reached(log, g, log[i].phase, log[i].plan + 1)
  <2> SUFFICES ASSUME NEW m \in 1..log[i].plan PROVE Executed(log, g, log[i].phase, m)
    BY <1>7 DEF Reached
  <2>1. CASE m = log[i].plan
    BY <1>6, <2>1 DEF Executed, IsPlanEntry, TerminalStatuses
  <2>2. CASE m # log[i].plan
    BY <1>7, <2>2 DEF Reached
  <2>3. QED
    BY <2>1, <2>2
<1>9. Fresh(log, g, log[i].phase, log[i].plan + 1)
  <2> SUFFICES ASSUME NEW j \in DOMAIN log, log[j].goal = g, log[j].cmd = "execute-plan",
                      log[j].phase = log[i].phase, log[j].status = "done"
               PROVE  log[j].plan < log[i].plan + 1
    BY DEF Fresh
  <2>1. log[j].plan \in Nat
    <3>1. log[j] \in Entries
      OBVIOUS
    <3>2. QED
      BY <3>1 DEF Entries
  <2>2. log[j].phase \in Phases /\ log[j].plan >= 1
    BY <2>1, RoadmapAssumption DEF LogInOrder, EntryInOrder, Phases
  <2>3. j \in I
    BY <2>2, RoadmapAssumption DEF PlanCompletes, GoalEntries, Phases
  <2>4. j <= i
    BY <1>4, <2>3
  <2>5. i \in Nat /\ j \in Nat
    BY <1>3, <2>3
  <2>6. j < i => log[j].plan < log[i].plan
    BY <1>6 DEF LogInOrder
  <2>7. QED
    BY <1>7, <2>1, <2>4, <2>5, <2>6
<1>10. QED
  BY <1>1, <1>5, <1>8, <1>9 DEF Ready

-----------------------------------------------------------------------------
(* The steps *)

\* What the process has in hand is in order.
InHand == PhaseInHand /\ PlanInHand /\ ResumeReady

\* A step that writes no entry keeps the log in order.
LEMMA QuietOrder ==
  ASSUME OrderInv, IInv', log' = log, late' \subseteq late, InHand',
         stateMd' = stateMd \/ CeilingNamesNoPlan'
  PROVE  OrderInv'
<1>1. LogInOrder'
  BY DEF OrderInv, LogInOrder
<1>2. LateInOrder'
  BY DEF OrderInv, LateInOrder
<1>3. CeilingNamesNoPlan'
  BY DEF OrderInv, CeilingNamesNoPlan
<1>4. QED
  BY <1>1, <1>2, <1>3 DEF OrderInv, InHand

\* A step that appends an entry does, if the entry is in order.
LEMMA AppendOrder ==
  ASSUME OrderInv, IInv', NEW e \in Entries, EntryInOrder(log, e), AppendLog(e),
         e.cmd = "execute-plan" /\ e.status = "done"
           => Fresh(log, e.goal, e.phase, e.plan),
         late' \subseteq late, stateMd' = stateMd
  PROVE  /\ ReachedKept /\ (e.status # "done" => FreshKept)
         /\ InHand' => OrderInv'
<1>1. log \in Seq(Entries) /\ LogInOrder
  BY DEF OrderInv, IInv, InStep, TypeOK, DiskType
<1>2. log' = Append(log, e) \/ log' = log
  BY DEF AppendLog
<1>3. LogInOrder' /\ ReachedKept /\ (e.status # "done" => FreshKept)
  BY <1>1, <1>2, AppendInOrder
<1>4. LateInOrder'
  BY <1>3 DEF OrderInv, LateInOrder, EntryInOrder, ReachedKept
<1>5. CeilingNamesNoPlan'
  BY DEF OrderInv, CeilingNamesNoPlan
<1>6. QED
  BY <1>3, <1>4, <1>5 DEF OrderInv, InHand

\* A process that is down has nothing in hand.
LEMMA GoneOrder ==
  ASSUME OrderInv, IInv', NEW how, Gone(how), log' = log, stateMd' \in {stateMd, NoStateMd}
  PROVE  OrderInv'
<1>1. late' \subseteq late /\ pc' = "down"
  BY DEF Gone
<1>2. InHand'
  BY <1>1 DEF InHand, PhaseInHand, PlanInHand, ResumeReady, AtPhase, AtPlan, Running
<1>3. stateMd' = stateMd \/ CeilingNamesNoPlan'
  BY DEF CeilingNamesNoPlan, NoStateMd, CeilingStatuses
<1>4. QED
  BY <1>1, <1>2, <1>3, QuietOrder

LEMMA DownOrder ==
  ASSUME OrderInv, IInv', NEW how, Down(how)
  PROVE  OrderInv'
BY GoneOrder DEF Down, disk

\* A goal that is thrown out of, that returns or that fails has none of it either.
LEMMA LeaveOrder ==
  ASSUME OrderInv, IInv', log' = log, late' \subseteq late, stateMd' = stateMd,
         pc' \in {"pausedGoal", "ended"} \/ (pc' = "goal" /\ resume' = NoPointer)
  PROVE  OrderInv'
<1>1. InHand'
  BY DEF InHand, PhaseInHand, PlanInHand, ResumeReady, AtPhase, AtPlan, Running, NoPointer
<1>2. QED
  BY <1>1, QuietOrder

LEMMA ThrowOrder ==
  ASSUME OrderInv, IInv', Throw \/ ReturnOnShutdown
  PROVE  OrderInv'
<1>1. CASE Throw
  BY <1>1, LeaveOrder DEF Throw, Goto
<1>2. CASE ReturnOnShutdown
  BY <1>2, LeaveOrder DEF ReturnOnShutdown, Goto, disk
<1>3. QED
  BY <1>1, <1>2

\* The start of the daemon: a crashed run is closed with its own entry, and a pointer
\* that names a plan names one that is ready.
LEMMA BootOrder ==
  ASSUME OrderInv, IInv', Launch \/ Refuse \/ LoadGoals \/ DetectCrash \/ ComputeResume
  PROVE  OrderInv'
<1> USE DEF Goto
<1>1. CASE Launch
  <2>1. InHand'
    BY <1>1 DEF Launch, InHand, PhaseInHand, PlanInHand, ResumeReady, AtPhase, AtPlan,
                Running
  <2>2. QED
    BY <1>1, <2>1, QuietOrder DEF Launch, disk
<1>2. CASE Refuse
  BY <1>2, DownOrder DEF Refuse
<1>3. CASE LoadGoals
  <2>1. InHand'
    BY <1>3, GoalsAssumption DEF LoadGoals, InHand, PhaseInHand, PlanInHand, ResumeReady,
                                 AtPhase, AtPlan, Running
  <2>2. QED
    BY <1>3, <2>1, QuietOrder DEF LoadGoals, disk
<1>4. CASE DetectCrash
  <2>1. InHand'
    BY <1>4 DEF DetectCrash, OrderInv, InHand, PhaseInHand, PlanInHand, ResumeReady,
                AtPhase, AtPlan, Running
  <2>2. CASE log' = log
    BY <1>4, <2>1, <2>2, QuietOrder DEF DetectCrash
  <2>3. CASE OpenRun(log) /\ AppendLog([log[Len(log)] EXCEPT !.status = "crashed"])
    <3> DEFINE e == [log[Len(log)] EXCEPT !.status = "crashed"]
    <3>1. log \in Seq(Entries) /\ log # <<>>
      BY <2>3 DEF OpenRun, OrderInv, IInv, InStep, TypeOK, DiskType
    <3>2. Len(log) \in DOMAIN log /\ log[Len(log)] \in Entries
      BY <3>1
    <3>3. /\ e \in Entries /\ e.status = "crashed" /\ e.cmd = log[Len(log)].cmd
          /\ e.goal = log[Len(log)].goal /\ e.phase = log[Len(log)].phase
          /\ e.plan = log[Len(log)].plan
      BY <3>2 DEF Entries, TerminalStatuses
    <3>4. EntryInOrder(log, e)
      BY <3>2, <3>3 DEF OrderInv, LogInOrder, EntryInOrder
    <3> HIDE DEF e
    <3>5. late' \subseteq late /\ stateMd' = stateMd /\ AppendLog(e)
      BY <1>4, <2>3 DEF DetectCrash, e
    <3>6. QED
      BY <2>1, <3>3, <3>4, <3>5, AppendOrder
  <2>4. QED
    BY <1>4, <2>2, <2>3 DEF DetectCrash
<1>5. CASE ComputeResume
  <2>1. log \in Seq(Entries) /\ stateMd \in StateMds /\ LogInOrder /\ CeilingNamesNoPlan
    BY DEF OrderInv, IInv, InStep, TypeOK, DiskType
  <2>2. queue # <<>>
    BY <1>5 DEF ComputeResume, OrderInv, ResumeReady
  <2>3. /\ log' = log /\ queue' = queue /\ stateMd' = stateMd /\ late' = late
        /\ pc' = "worker" /\ resume' = ResumePointer(log, stateMd, queue[1])
    BY <1>5 DEF ComputeResume, disk
  <2>4. resume'.plan > 0 => Ready(queue[1], resume'.phase, resume'.plan)
    BY <2>1, <2>3, PointerReady
  <2>5. InHand'
    BY <2>2, <2>3, <2>4 DEF InHand, PhaseInHand, PlanInHand, ResumeReady, AtPhase, AtPlan,
                            Running, Ready
  <2>6. QED
    BY <2>3, <2>5, QuietOrder
<1>6. QED
  BY <1>1, <1>2, <1>3, <1>4, <1>5

\* The worker: a goal is taken with the pointer that was computed for it.
LEMMA WorkerOrder ==
  ASSUME OrderInv, IInv', Worker
  PROVE  OrderInv'
<1> USE DEF Goto
<1>1. CASE WorkerLoop
  <2>1. InHand'
    BY <1>1 DEF WorkerLoop, disk, OrderInv, InHand, PhaseInHand, PlanInHand, ResumeReady,
                AtPhase, AtPlan, Running, Ready
  <2>2. QED
    BY <1>1, <2>1, QuietOrder DEF WorkerLoop, disk
<1>2. CASE TakeGoal
  <2>1. InHand'
    BY <1>2 DEF TakeGoal, disk, OrderInv, InHand, PhaseInHand, PlanInHand, ResumeReady,
                AtPhase, AtPlan, Running, Ready
  <2>2. QED
    BY <1>2, <2>1, QuietOrder DEF TakeGoal, disk
<1>3. CASE BeginGoal
  <2>1. InHand'
    BY <1>3 DEF BeginGoal, disk, OrderInv, InHand, PhaseInHand, PlanInHand, ResumeReady,
                AtPhase, AtPlan, Running, Ready
  <2>2. QED
    BY <1>3, <2>1, QuietOrder DEF BeginGoal, disk
<1>4. CASE LeavePause
  BY <1>4, LeaveOrder DEF LeavePause, disk
<1>5. CASE EndGoal
  <2>1. InHand'
    BY <1>5 DEF EndGoal, disk, OrderInv, InHand, PhaseInHand, PlanInHand, ResumeReady,
                AtPhase, AtPlan, Running, NoPointer
  <2>2. QED
    BY <1>5, <2>1, QuietOrder DEF EndGoal, disk
<1>6. CASE Stop \/ Finish
  BY <1>6, DownOrder DEF Stop, Finish
<1>7. QED
  BY <1>1, <1>2, <1>3, <1>4, <1>5, <1>6 DEF Worker

\* The ways into orchestrateGoal, and its steps before the phase loop.
LEMMA EntryOrder ==
  ASSUME OrderInv, IInv', EnterQuick \/ StartQuick \/ EnterNormal \/ InitProject
         \/ EnterResume \/ WriteInitialized \/ EnterRoadmap \/ CreateRoadmap
         \/ WriteRoadmapped \/ ReadRoadmap
  PROVE  OrderInv'
<1> USE DEF Goto
<1>1. CASE Throw \/ ReturnOnShutdown
  BY <1>1, ThrowOrder
<1>2. CASE StartQuick /\ ~Throw
  <2>1. InHand'
    BY <1>2 DEF StartQuick, DirtyGit, Invoke, InHand, PhaseInHand, PlanInHand,
                ResumeReady, AtPhase, AtPlan, Running
  <2>2. CeilingNamesNoPlan'
    BY <1>2 DEF StartQuick, DirtyGit, WriteStateMd, CeilingNamesNoPlan, CeilingStatuses
  <2>3. QED
    BY <1>2, <2>1, <2>2, QuietOrder DEF StartQuick, DirtyGit
<1>3. CASE EnterQuick \/ EnterNormal \/ EnterRoadmap \/ InitProject \/ CreateRoadmap
  <2>1. InHand'
    BY <1>3 DEF EnterQuick, EnterNormal, EnterRoadmap, InitProject, CreateRoadmap,
                PassCheck, Invoke, work, InHand, OrderInv, PhaseInHand, PlanInHand,
                ResumeReady, AtPhase, AtPlan, Running
  <2>2. QED
    BY <1>3, <2>1, QuietOrder
       DEF EnterQuick, EnterNormal, EnterRoadmap, InitProject, CreateRoadmap, PassCheck, disk
<1>4. CASE EnterResume
  <2>1. CASE FailGoal /\ UNCHANGED <<disk, late>>
    BY <2>1, LeaveOrder DEF FailGoal, EndFailed, disk
  <2>2. CASE ~(FailGoal /\ UNCHANGED <<disk, late>>)
    <3>1. InHand'
      BY <1>4, <2>2, RoadmapAssumption
         DEF EnterResume, InHand, OrderInv, PhaseInHand, PlanInHand, ResumeReady,
             AtPhase, AtPlan, Running, Ready, Phases, IInv, InStep, TypeOK, ProcType, Pointers
    <3>2. CeilingNamesNoPlan'
      BY <1>4, <2>2 DEF EnterResume, WriteStateMd, CeilingNamesNoPlan
    <3>3. QED
      BY <1>4, <2>2, <3>1, <3>2, QuietOrder DEF EnterResume
  <2>3. QED
    BY <2>1, <2>2
<1>5. CASE WriteInitialized \/ WriteRoadmapped
  <2>1. InHand'
    BY <1>5 DEF WriteInitialized, WriteRoadmapped, InHand, OrderInv, PhaseInHand,
                PlanInHand, ResumeReady, AtPhase, AtPlan, Running
  <2>2. CeilingNamesNoPlan'
    BY <1>5 DEF WriteInitialized, WriteRoadmapped, WriteStateMd, CeilingNamesNoPlan,
                CeilingStatuses
  <2>3. QED
    BY <1>5, <2>1, <2>2, QuietOrder DEF WriteInitialized, WriteRoadmapped
<1>6. CASE ReadRoadmap /\ ~Throw
  <2>1. InHand'
    BY <1>6 DEF ReadRoadmap, InHand, OrderInv, PhaseInHand, PlanInHand, ResumeReady,
                AtPhase, AtPlan, Running
  <2>2. QED
    BY <1>6, <2>1, QuietOrder DEF ReadRoadmap, disk
<1>7. QED
  BY <1>1, <1>2, <1>3, <1>4, <1>5, <1>6

\* The phase loop: a plan is chosen that is ready.
LEMMA PhasesOrder ==
  ASSUME OrderInv, IInv', FastForward \/ PlanPhase \/ WritePlanned \/ DiscoverPlans
         \/ CompleteGoal
  PROVE  OrderInv'
<1> USE DEF Goto
<1>1. log \in Seq(Entries) /\ LogInOrder /\ cur \in Nat /\ NumPhases \in Nat
  BY RoadmapAssumption DEF OrderInv, IInv, InStep, TypeOK, DiskType, WorkType
<1>2. CASE Throw \/ ReturnOnShutdown
  BY <1>2, ThrowOrder
<1>3. CASE FastForward /\ ~Throw /\ ~ReturnOnShutdown
  <2>1. CASE FailGoal /\ UNCHANGED <<disk, late>>
    BY <2>1, LeaveOrder DEF FailGoal, EndFailed, disk
  <2>2. CASE pc' = "phase" /\ UNCHANGED <<disk, late, goal>>
    <3>1. InHand'
      BY <1>3, <2>2 DEF FastForward, InHand, OrderInv, PhaseInHand, PlanInHand,
                        ResumeReady, AtPhase, AtPlan, Running
    <3>2. QED
      BY <2>2, <3>1, QuietOrder DEF disk
  <2>3. CASE /\ pc' = "plan" /\ UNCHANGED <<disk, late, goal, cur>>
             /\ \E n \in 1..PlanCounts[cur] : IsResumeTarget(n) /\ target' = n
    <3>1. PICK n \in 1..PlanCounts[cur] : IsResumeTarget(n) /\ target' = n
      BY <2>3
    <3>2. /\ cur \in Phases /\ goal \notin QuickGoals /\ cur = resume.phase
          /\ resume.plan > 0 => Ready(goal, cur, resume.plan)
      BY <1>3 DEF FastForward, OrderInv, PhaseInHand, ResumeReady, AtPhase
    <3>3. PlanCounts[cur] \in Nat /\ n \in Nat /\ resume.plan \in Nat
      BY <3>2, RoadmapAssumption DEF Phases, OrderInv, IInv, InStep, TypeOK, ProcType, Pointers
    <3>4. Ready(goal, cur, n)
      BY <1>1, <3>1, <3>2, <3>3, ChosenReady DEF IsResumeTarget
    <3>5. InHand'
      BY <2>3, <3>1, <3>2, <3>4 DEF InHand, PhaseInHand, PlanInHand, ResumeReady, AtPhase,
                                    AtPlan, Running, Ready, disk
    <3>6. QED
      BY <2>3, <3>5, QuietOrder DEF disk
  <2>4. QED
    BY <1>3, <2>1, <2>2, <2>3 DEF FastForward
<1>4. CASE PlanPhase /\ ~ReturnOnShutdown
  <2>1. cur \in Phases
    BY <1>1, <1>4 DEF PlanPhase, OrderInv, IInv, InStep, MachineInStep, Phases
  <2>2. InHand'
    BY <1>4, <2>1 DEF PlanPhase, Invoke, InHand, OrderInv, PhaseInHand, PlanInHand,
                      ResumeReady, AtPhase, AtPlan, Running
  <2>3. QED
    BY <1>4, <2>2, QuietOrder DEF PlanPhase, disk
<1>5. CASE WritePlanned
  <2>1. InHand'
    BY <1>5 DEF WritePlanned, InHand, OrderInv, PhaseInHand, PlanInHand, ResumeReady,
                AtPhase, AtPlan, Running
  <2>2. CeilingNamesNoPlan'
    BY <1>5 DEF WritePlanned, WriteStateMd, CeilingNamesNoPlan
  <2>3. QED
    BY <1>5, <2>1, <2>2, QuietOrder DEF WritePlanned
<1>6. CASE DiscoverPlans /\ ~Throw
  <2>1. CASE pc' = "phase"
    <3>1. InHand'
      BY <1>6, <2>1 DEF DiscoverPlans, InHand, OrderInv, PhaseInHand, PlanInHand,
                        ResumeReady, AtPhase, AtPlan, Running
    <3>2. QED
      BY <1>6, <3>1, QuietOrder DEF DiscoverPlans, disk
  <2>2. CASE pc' # "phase"
    <3>1. PICK n \in 1..PlanCounts[cur] :
              IsNextUnexecuted(n, log, goal, cur, PlanCounts[cur]) /\ target' = n
      BY <1>6, <2>2 DEF DiscoverPlans, EndPhase
    <3>2. cur \in Phases /\ goal \notin QuickGoals
      BY <1>6 DEF DiscoverPlans, OrderInv, PhaseInHand, AtPhase
    <3>3. PlanCounts[cur] \in Nat /\ n \in Nat
      BY <3>2, RoadmapAssumption DEF Phases
    <3>4. Ready(goal, cur, n)
      BY <1>1, <3>1, <3>2, <3>3, ChosenReady
    <3>5. InHand'
      BY <1>6, <2>2, <3>1, <3>2, <3>4
         DEF DiscoverPlans, EndPhase, InHand, PhaseInHand, PlanInHand, ResumeReady,
             AtPhase, AtPlan, Running, Ready, disk
    <3>6. QED
      BY <1>6, <3>5, QuietOrder DEF DiscoverPlans, disk
  <2>3. QED
    BY <2>1, <2>2
<1>7. CASE CompleteGoal /\ ~Throw
  <2>1. InHand'
    BY <1>7 DEF CompleteGoal, InHand, PhaseInHand, PlanInHand, ResumeReady, AtPhase,
                AtPlan, Running
  <2>2. CeilingNamesNoPlan'
    BY <1>7 DEF CompleteGoal, WriteStateMd, CeilingNamesNoPlan, CeilingStatuses
  <2>3. QED
    BY <1>7, <2>1, <2>2, QuietOrder DEF CompleteGoal
<1>8. QED
  BY <1>2, <1>3, <1>4, <1>5, <1>6, <1>7

\* What follows the choice of a plan: the entries written for it are in order.
LEMMA PlansOrder ==
  ASSUME OrderInv, IInv', RunPlan \/ StartPlan \/ RejectPlanFile \/ VerifyPasses
         \/ VerifyFails \/ WriteExecuted
  PROVE  OrderInv'
<1> USE DEF Goto
<1>1. CASE Throw \/ ReturnOnShutdown
  BY <1>1, ThrowOrder
<1>2. CASE RunPlan \/ (StartPlan /\ ~Throw)
  <2>1. InHand'
    BY <1>2 DEF RunPlan, PassCheck, StartPlan, DirtyGit, Invoke, work, InHand, OrderInv,
                PhaseInHand, PlanInHand, ResumeReady, AtPhase, AtPlan, Running, disk
  <2>2. QED
    BY <1>2, <2>1, QuietOrder DEF RunPlan, PassCheck, StartPlan, DirtyGit, disk
<1>3. CASE RejectPlanFile \/ VerifyFails
  <2>1. PICK e \in Entries : /\ AppendLog(e) /\ EntryInOrder(log, e)
                             /\ e.status # "done"
    <3>1. CASE RejectPlanFile
      <4> DEFINE e == [ goal |-> goal, cmd |-> "execute-plan", phase |-> cur,
                        plan |-> target, status |-> "skipped" ]
      <4>1. goal \in GoalTitles /\ cur \in Nat /\ target \in Nat
        BY <3>1 DEF RejectPlanFile, OrderInv, IInv, InStep, TypeOK, WorkType, GoalInHand
      <4>2. e \in Entries
        BY <4>1 DEF Entries, Commands, TerminalStatuses
      <4>3. EntryInOrder(log, e)
        BY <3>1 DEF RejectPlanFile, OrderInv, PhaseInHand, PlanInHand, AtPhase, AtPlan,
                    EntryInOrder
      <4>4. AppendLog(e)
        BY <3>1 DEF RejectPlanFile
      <4>5. QED
        BY <4>2, <4>3, <4>4
    <3>2. CASE VerifyFails
      <4>1. goal \in GoalTitles /\ cmd \in Commands
        BY <3>2 DEF VerifyFails, OrderInv, IInv, InStep, GoalInHand, CommandInHand, Commands
      <4>2. CallEntry("verify-failed") \in Entries
        BY <4>1, CallEntryType DEF OrderInv, IInv, InStep, TypeOK, TerminalStatuses
      <4>3. EntryInOrder(log, CallEntry("verify-failed"))
        BY <3>2 DEF VerifyFails, OrderInv, PhaseInHand, PlanInHand, AtPhase, AtPlan,
                    EntryInOrder, CallEntry
      <4>4. QED
        BY <3>2, <4>2, <4>3 DEF VerifyFails, CallEntry
    <3>3. QED
      BY <1>3, <3>1, <3>2
  <2>2. InHand'
    BY <1>3 DEF RejectPlanFile, VerifyFails, FailGoal, EndFailed, InHand, PhaseInHand, PlanInHand,
                ResumeReady, AtPhase, AtPlan, Running
  <2>3. late' \subseteq late /\ stateMd' = stateMd
    BY <1>3 DEF RejectPlanFile, VerifyFails
  <2>4. QED
    BY <2>1, <2>2, <2>3, AppendOrder
<1>4. CASE VerifyPasses
  <2>1. InHand'
    BY <1>4 DEF VerifyPasses, InHand, OrderInv, PhaseInHand, PlanInHand, ResumeReady,
                AtPhase, AtPlan, Running, IInv, InStep, CommandInHand
  <2>2. stateMd' = stateMd \/ CeilingNamesNoPlan'
    BY <1>4 DEF VerifyPasses, WriteStateMd, CeilingNamesNoPlan, CeilingStatuses
  <2>3. QED
    BY <1>4, <2>1, <2>2, QuietOrder DEF VerifyPasses
<1>5. CASE WriteExecuted
  <2>1. InHand'
    BY <1>5 DEF WriteExecuted, work, InHand, OrderInv, PhaseInHand, PlanInHand,
                ResumeReady, AtPhase, AtPlan, Running
  <2>2. CeilingNamesNoPlan'
    BY <1>5 DEF WriteExecuted, WriteStateMd, CeilingNamesNoPlan, CeilingStatuses
  <2>3. QED
    BY <1>5, <2>1, <2>2, QuietOrder DEF WriteExecuted
<1>6. QED
  BY <1>1, <1>2, <1>3, <1>4, <1>5

\* The invoker opens a run for the plan in hand, and closes the run with it.
LEMMA InvokerOrder ==
  ASSUME OrderInv, IInv', BeginAgent \/ Tick \/ AgentEnds \/ AgentSucceeded \/ AgentFailed
         \/ AgentRejected \/ LateAppend
  PROVE  OrderInv'
<1> USE DEF Goto
<1>1. ASSUME Running
      PROVE  /\ goal \in GoalTitles /\ cmd \in Commands /\ WorkType
             /\ \A status \in TerminalStatuses \cup {"running"} :
                  /\ CallEntry(status) \in Entries
                  /\ EntryInOrder(log, CallEntry(status))
                  /\ CallEntry(status).status = status
             /\ \A status : cmd = "execute-plan" => Fresh(log, goal, cur, target)
  <2>1. goal \in GoalTitles /\ cmd \in Commands /\ WorkType
    BY <1>1 DEF Running, OrderInv, IInv, InStep, TypeOK, GoalInHand, CommandInHand
  <2>2. ASSUME NEW status \in TerminalStatuses \cup {"running"}
        PROVE  EntryInOrder(log, CallEntry(status))
    BY <1>1 DEF Running, OrderInv, PhaseInHand, PlanInHand, AtPhase, AtPlan, EntryInOrder,
                CallEntry
  <2>3. cmd = "execute-plan" => Fresh(log, goal, cur, target)
    BY <1>1 DEF Running, OrderInv, PlanInHand, AtPlan
  <2>4. QED
    BY <2>1, <2>2, <2>3, CallEntryType DEF CallEntry
<1>2. CASE BeginAgent
  <2>1. Running /\ CallEntry("running") \in Entries /\ EntryInOrder(log, CallEntry("running"))
    BY <1>1, <1>2 DEF BeginAgent, Running
  <2>2. CallEntry("running").status # "done"
    BY DEF CallEntry
  <2>3. ReachedKept /\ FreshKept /\ (InHand' => OrderInv')
    <3>1. AppendLog(CallEntry("running")) /\ late' = late /\ stateMd' = stateMd
      BY <1>2 DEF BeginAgent
    <3>2. QED
      BY <2>1, <2>2, <3>1, AppendOrder
  <2>4. InHand'
    BY <1>2, <2>3 DEF BeginAgent, work, InHand, OrderInv, PhaseInHand, PlanInHand,
                      ResumeReady, AtPhase, AtPlan, Running, ReachedKept, FreshKept
  <2>5. QED
    BY <2>3, <2>4
<1>3. CASE Tick \/ AgentEnds
  <2>1. InHand'
    BY <1>3 DEF Tick, AgentEnds, work, InHand, OrderInv, PhaseInHand, PlanInHand,
                ResumeReady, AtPhase, AtPlan, Running
  <2>2. QED
    BY <1>3, <2>1, QuietOrder DEF Tick, AgentEnds
<1>4. CASE AgentSucceeded
  <2>1. Running /\ CallEntry("done") \in Entries /\ EntryInOrder(log, CallEntry("done"))
    BY <1>1, <1>4 DEF AgentSucceeded, Running, TerminalStatuses
  <2>2. CallEntry("done").cmd = "execute-plan"
          => Fresh(log, CallEntry("done").goal, CallEntry("done").phase, CallEntry("done").plan)
    BY <1>1, <2>1 DEF CallEntry
  <2>3. ReachedKept /\ (InHand' => OrderInv')
    <3>1. AppendLog(CallEntry("done")) /\ late' = late /\ stateMd' = stateMd
      BY <1>4 DEF AgentSucceeded
    <3>2. QED
      BY <2>1, <2>2, <3>1, AppendOrder
  <2>4. InHand'
    BY <1>1, <1>4, <2>1, <2>3
       DEF AgentSucceeded, After, Commands, InHand, OrderInv, PhaseInHand, PlanInHand,
           ResumeReady, AtPhase, AtPlan, Running, ReachedKept
  <2>5. QED
    BY <2>3, <2>4
<1>5. CASE AgentFailed
  <2>1. /\ Running /\ CallEntry(outcome) \in Entries /\ EntryInOrder(log, CallEntry(outcome))
        /\ CallEntry(outcome).status # "done"
    BY <1>1, <1>5 DEF AgentFailed, Running, TerminalStatuses
  <2>2. InHand' => OrderInv'
    BY <1>5, <2>1, AppendOrder DEF AgentFailed
  <2>3. InHand'
    BY <1>5 DEF AgentFailed, FailGoal, EndFailed, InHand, PhaseInHand, PlanInHand, ResumeReady,
                AtPhase, AtPlan, Running
  <2>4. QED
    BY <2>2, <2>3
<1>6. CASE AgentRejected
  <2>1. EntryInOrder(log, CallEntry("crashed")) /\ CallEntry("crashed").status # "done"
    BY <1>1, <1>6 DEF AgentRejected, Running, TerminalStatuses
  <2>2. /\ log' = log /\ stateMd' = stateMd /\ late' = late \cup {CallEntry("crashed")}
        /\ pc' = "ended"
    BY <1>6 DEF AgentRejected, FailGoal, EndFailed, disk
  <2>3. InHand'
    BY <2>2 DEF InHand, PhaseInHand, PlanInHand, ResumeReady, AtPhase, AtPlan, Running
  <2>4. LogInOrder' /\ LateInOrder' /\ CeilingNamesNoPlan'
    BY <2>1, <2>2 DEF OrderInv, LogInOrder, LateInOrder, CeilingNamesNoPlan
  <2>5. QED
    BY <2>3, <2>4 DEF OrderInv, InHand
<1>7. CASE LateAppend
  <2>1. PICK e \in late : AppendLog(e) /\ late' = late \ {e}
    BY <1>7 DEF LateAppend
  <2>2. e \in Entries /\ EntryInOrder(log, e) /\ e.status # "done"
    BY DEF OrderInv, LateInOrder, IInv, InStep, TypeOK, ProcType
  <2>3. ReachedKept /\ FreshKept /\ (InHand' => OrderInv')
    <3>1. late' \subseteq late /\ stateMd' = stateMd
      BY <1>7, <2>1 DEF LateAppend
    <3>2. QED
      BY <2>1, <2>2, <3>1, AppendOrder
  <2>4. InHand'
    BY <1>7, <2>3 DEF LateAppend, work, InHand, OrderInv, PhaseInHand, PlanInHand,
                      ResumeReady, Ready, AtPhase, AtPlan, Running, ReachedKept, FreshKept
  <2>5. QED
    BY <2>3, <2>4
<1>8. QED
  BY <1>2, <1>3, <1>4, <1>5, <1>6, <1>7

\* The environment leaves log, STATE.md and what is in hand alone.
LEMMA EnvironmentOrder ==
  ASSUME OrderInv, IInv', AgentWorks \/ Signal \/ Crash \/ Unpause \/ Over \/ UNCHANGED vars
  PROVE  OrderInv'
<1>1. CASE Crash
  BY <1>1, GoneOrder DEF Crash
<1>2. CASE AgentWorks \/ Signal \/ Unpause \/ Over \/ UNCHANGED vars
  <2>1. /\ log' = log /\ stateMd' = stateMd /\ late' = late
        /\ UNCHANGED <<pc, queue, resume, goal, cur, target, cmd>>
    BY <1>2 DEF AgentWorks, Signal, Unpause, Over, vars, disk, proc, work
  <2>2. InHand'
    BY <2>1 DEF InHand, OrderInv, PhaseInHand, PlanInHand, ResumeReady, Ready, AtPhase,
                AtPlan, Running
  <2>3. QED
    BY <2>1, <2>2, QuietOrder
<1>3. QED
  BY <1>1, <1>2

-----------------------------------------------------------------------------
(* The theorems *)

LEMMA InitOrder == Init => OrderInv
BY InitIInv DEF Init, OrderInv, PhaseInHand, PlanInHand, ResumeReady, AtPhase, AtPlan,
   Running, LogInOrder, LateInOrder, CeilingNamesNoPlan, NoStateMd, CeilingStatuses

LEMMA NextOrder == OrderInv /\ [Next]_vars => OrderInv'
<1>1. OrderInv /\ [Next]_vars => IInv'
  BY NextIInv DEF OrderInv
<1>2. QED
  BY <1>1, BootOrder, WorkerOrder, EntryOrder, PhasesOrder, PlansOrder, InvokerOrder,
     EnvironmentOrder DEF Next, DaemonStep, Orchestrate, Agent

LEMMA OrderInvariant == Spec => []OrderInv
BY InitOrder, NextOrder, PTL DEF Spec

\* Whatever crashes, lost entries, resume pointers and retries led there, a plan is
\* only run when every earlier plan of its phase has had an outcome for the goal.
THEOREM PlansRunInOrder == Spec => []PlansInOrder
<1>1. OrderInv => PlansInOrder
  BY DEF OrderInv, PlanInHand, AtPlan, Running, Reached, PlansInOrder, Executing
<1>2. QED
  BY <1>1, OrderInvariant, PTL

\* On the same terms, a plan that is done for a goal is never run again for it.
THEOREM DoneOnce == Spec => []DoneNotRepeated
<1>1. ASSUME OrderInv PROVE DoneNotRepeated
  <2> SUFFICES ASSUME pc = "invoke", cmd = "execute-plan", NEW i \in DOMAIN log,
                      IsPlanEntry(log[i], goal, cur, target), log[i].status = "done"
               PROVE  FALSE
    BY DEF DoneNotRepeated
  <2>1. Fresh(log, goal, cur, target) /\ target \in Nat
    BY <1>1 DEF OrderInv, PlanInHand, AtPlan, Running, IInv, InStep, TypeOK, WorkType
  <2>2. log[i].plan < target /\ log[i].plan = target
    BY <2>1 DEF Fresh, IsPlanEntry
  <2>3. QED
    BY <2>1, <2>2
<1>2. QED
  BY <1>1, OrderInvariant, PTL

-----------------------------------------------------------------------------
(* Across phases *)

\* What the order of phases takes: a planning run that reports success has left a
\* directory, and no two different full goals share the directories: the list has one,
\* and failed verifications queue no others.
PlanningLeavesDir == 0 \notin DirMatches
OneFullGoal ==
  /\ ~AutoFix
  /\ \A i, j \in DOMAIN Goals :
       Goals[i] \notin QuickGoals /\ Goals[j] \notin QuickGoals => Goals[i] = Goals[j]

FullGoals == { Goals[i] : i \in DOMAIN Goals } \ QuickGoals

\* Phase p is planned, and left with nothing to do for goal g.
Passed(l, d, g, p) ==
  d[p] >= 1 /\ (d[p] = 1 => \A m \in 1..PlanCounts[p] : Executed(l, g, p, m))

AllPassed(l, d, g, n) == \A p \in Phases : p < n => Passed(l, d, g, p)

\* The goals at work are goals of the list, and quick runs are for quick goals.
GoalsListed ==
  /\ \A i \in DOMAIN queue : queue[i] \in QuickGoals \/ queue[i] \in FullGoals
  /\ goal \in QuickGoals \cup FullGoals \cup {NoGoal}
  /\ (Running \/ pc = "verify") /\ cmd = "quick" => goal \in QuickGoals

\* A phase is planned after the phases before it are passed.
DirsInOrder ==
  \A q \in Phases : dirs[q] >= 1 => \A g \in FullGoals : AllPassed(log, dirs, g, q)

\* The phase in hand is entered after the phases before it are passed.
CurInOrder ==
  (AtPhase /\ pc # "fastforward") \/ pc = "phase" => AllPassed(log, dirs, goal, cur)

\* Plans are looked for in a directory that is there.
PlannedHasDir ==
  /\ \/ pc \in {"planned", "discover", "executed"} \/ AtPlan
     \/ pc = "log" /\ outcome = "done" /\ cmd = "plan-phase"
     => dirs[cur] >= 1
  /\ plannedUpTo > 0 => plannedUpTo \in Phases /\ dirs[plannedUpTo] >= 1

CompletePassed ==
  /\ pc = "pausedGoal" => sm = "failed"
  /\ pc = "ended" /\ sm = "complete" /\ goal \notin QuickGoals
       => AllPassed(log, dirs, goal, NumPhases + 1)

PassedInv == /\ OrderInv /\ GoalsListed /\ DirsInOrder /\ CurInOrder
             /\ PlannedHasDir /\ CompletePassed

\* The steps that write an entry.
Writes == \/ DetectCrash \/ RejectPlanFile \/ VerifyFails \/ BeginAgent
          \/ AgentSucceeded \/ AgentFailed \/ LateAppend

LEMMA LogWriters ==
  ASSUME [Next]_vars
  PROVE  log' = log \/ Writes
<1> USE DEF disk, Writes
<1>1. CASE Launch \/ Refuse \/ LoadGoals \/ ComputeResume \/ Worker
  BY <1>1 DEF Launch, Refuse, LoadGoals, ComputeResume, Worker, WorkerLoop, TakeGoal,
              BeginGoal, LeavePause, EndGoal, Stop, Finish, Down
<1>2. CASE Throw \/ ReturnOnShutdown
  BY <1>2 DEF Throw, ReturnOnShutdown
<1>3. CASE EnterQuick \/ StartQuick \/ EnterNormal \/ InitProject \/ EnterResume
           \/ FastForward
  BY <1>2, <1>3 DEF EnterQuick, StartQuick, EnterNormal, InitProject, EnterResume,
                    FastForward, PassCheck, DirtyGit
<1>4. CASE WriteInitialized \/ EnterRoadmap \/ CreateRoadmap \/ WriteRoadmapped
           \/ ReadRoadmap \/ PlanPhase \/ WritePlanned
  BY <1>2, <1>4 DEF WriteInitialized, EnterRoadmap, CreateRoadmap, WriteRoadmapped,
                    ReadRoadmap, PlanPhase, WritePlanned, PassCheck
<1>5. CASE DiscoverPlans \/ CompleteGoal \/ RunPlan \/ StartPlan \/ VerifyPasses
           \/ WriteExecuted
  BY <1>2, <1>5 DEF DiscoverPlans, CompleteGoal, RunPlan, StartPlan, PassCheck, DirtyGit,
                    VerifyPasses, WriteExecuted
<1>6. CASE Tick \/ AgentEnds \/ AgentRejected \/ AgentWorks
  BY <1>6 DEF Tick, AgentEnds, AgentRejected, AgentWorks
<1>7. CASE Signal \/ Crash \/ Unpause \/ Over \/ UNCHANGED vars
  BY <1>7 DEF Signal, Crash, Unpause, Over, vars
<1>8. QED
  BY <1>1, <1>3, <1>4, <1>5, <1>6, <1>7
     DEF Next, DaemonStep, Orchestrate, Agent

\* The log only grows.
LEMMA LogGrows ==
  ASSUME log \in Seq(Entries), [Next]_vars
  PROVE  log' = log \/ \E e : log' = Append(log, e)
<1>1. log' = log \/ Writes
  BY LogWriters
<1>2. QED
  BY <1>1 DEF Writes, DetectCrash, RejectPlanFile, VerifyFails, BeginAgent, AgentSucceeded,
              AgentFailed, LateAppend, AppendLog

\* So a phase that is passed stays so, while directories come and none goes.
AllPassedKept == \A g, n : AllPassed(log, dirs, g, n) => AllPassed(log', dirs', g, n)

LEMMA PassedStays ==
  ASSUME OrderInv, [Next]_vars, \A p \in Phases : dirs'[p] \in dirs[p]..2
  PROVE  AllPassedKept
<1>1. log \in Seq(Entries) /\ dirs \in [Phases -> 0..2]
  BY DEF OrderInv, IInv, InStep, TypeOK, DiskType
<1>2. ASSUME NEW g, NEW p, NEW m, Executed(log, g, p, m)
      PROVE  Executed(log', g, p, m)
  <2>1. PICK i \in DOMAIN log : IsPlanEntry(log[i], g, p, m) /\ log[i].status \in TerminalStatuses
    BY <1>2 DEF Executed
  <2>2. i \in DOMAIN log' /\ log'[i] = log[i]
    BY <1>1, LogGrows
  <2>3. QED
    BY <2>1, <2>2 DEF Executed
<1>3. ASSUME NEW g, NEW p \in Phases, Passed(log, dirs, g, p)
      PROVE  Passed(log', dirs', g, p)
  <2>1. dirs'[p] >= 1 /\ (dirs'[p] = 1 => dirs[p] = 1)
    BY <1>1, <1>3 DEF Passed
  <2>2. QED
    BY <1>2, <1>3, <2>1 DEF Passed
<1>4. QED
  BY <1>3 DEF AllPassedKept, AllPassed

\* What the steps that add no directory have to show.
AtWork == GoalsListed /\ CurInOrder /\ PlannedHasDir /\ CompletePassed

LEMMA KeepPassed ==
  ASSUME PassedInv, [Next]_vars, dirs' = dirs
  PROVE  AllPassedKept /\ (AtWork' => PassedInv')
<1>1. OrderInv /\ OrderInv'
  BY NextOrder DEF PassedInv
<1>2. \A p \in Phases : dirs'[p] \in dirs[p]..2
  BY <1>1 DEF OrderInv, IInv, InStep, TypeOK, DiskType
<1>3. AllPassedKept
  BY <1>1, <1>2, PassedStays
<1>4. DirsInOrder'
  BY <1>3 DEF PassedInv, DirsInOrder, AllPassedKept
<1>5. QED
  BY <1>1, <1>3, <1>4 DEF PassedInv, AtWork

\* A phase with no plan left to run is passed.
LEMMA NoneLeft ==
  ASSUME NEW g, NEW p \in Phases,
         ~\E n \in 1..PlanCounts[p] : IsNextUnexecuted(n, log, g, p, PlanCounts[p])
  PROVE  \A m \in 1..PlanCounts[p] : Executed(log, g, p, m)
<1> DEFINE U == Unexecuted(log, g, p, PlanCounts[p])
<1>1. U \in SUBSET Nat /\ U \subseteq 1..PlanCounts[p]
  BY RoadmapAssumption DEF Unexecuted, Phases
<1>2. U = {}
  <2> SUFFICES ASSUME U # {} PROVE FALSE
    OBVIOUS
  <2> HIDE DEF U
  <2>1. PICK n \in U : \A k \in U : <<k, n>> \notin OpToRel(<, Nat)
    BY <1>1, NatLessThanWellFounded, WFMin, Zenon
  <2>2. \A k \in U : ~ (k < n)
    BY <1>1, <2>1, Zenon DEF OpToRel
  <2>3. \A k \in U : n <= k
    <3> TAKE k \in U
    <3>1. ~ (k < n) /\ k \in Nat /\ n \in Nat
      BY <1>1, <2>2
    <3>2. QED
      BY <3>1
  <2>4. IsNextUnexecuted(n, log, g, p, PlanCounts[p]) /\ n \in 1..PlanCounts[p]
    BY <1>1, <2>3 DEF IsNextUnexecuted, U
  <2>5. QED
    BY <2>4
<1>3. QED
  BY <1>2 DEF Unexecuted

LEMMA OneMorePassed ==
  ASSUME NEW l, NEW d, NEW g, NEW p \in Phases, AllPassed(l, d, g, p), Passed(l, d, g, p)
  PROVE  AllPassed(l, d, g, p + 1)
BY RoadmapAssumption DEF AllPassed, Phases

\* Before a goal is in hand, and when it ends, there is little to show.
LEMMA StartPassed ==
  ASSUME PassedInv, [Next]_vars, Launch \/ Refuse \/ LoadGoals \/ DetectCrash
         \/ ComputeResume \/ Worker \/ Crash
  PROVE  PassedInv'
<1> USE DEF Goto, PassedInv, AtWork, GoalsListed, CurInOrder, PlannedHasDir, CompletePassed,
            AtPhase, AtPlan, Running
<1>1. CASE Refuse \/ Stop \/ Finish \/ Crash
  <2>1. AtWork' /\ dirs' = dirs
    BY <1>1 DEF Refuse, Stop, Finish, Crash, Down, Gone, NoWork, disk
  <2>2. QED
    BY <2>1, KeepPassed
<1>2. CASE Launch \/ DetectCrash \/ ComputeResume
  <2>1. AtWork' /\ dirs' = dirs
    BY <1>2 DEF Launch, DetectCrash, ComputeResume, disk, work
  <2>2. QED
    BY <2>1, KeepPassed
<1>3. CASE LoadGoals
  <2>1. \A i \in DOMAIN Goals : Goals[i] \in QuickGoals \/ Goals[i] \in FullGoals
    BY DEF FullGoals
  <2>2. AtWork' /\ dirs' = dirs
    BY <1>3, <2>1 DEF LoadGoals, disk, work
  <2>3. QED
    BY <2>2, KeepPassed
<1>4. CASE TakeGoal
  <2>1. queue \in Seq(GoalTitles) /\ queue # <<>>
    BY <1>4 DEF TakeGoal, OrderInv, IInv, InStep, TypeOK, ProcType
  <2>2. 1 \in DOMAIN queue /\ \A i \in DOMAIN Tail(queue) :
            i + 1 \in DOMAIN queue /\ Tail(queue)[i] = queue[i + 1]
    BY <2>1
  <2>3. queue[1] \in QuickGoals \/ queue[1] \in FullGoals
    BY <2>2
  <2>4. \A i \in DOMAIN Tail(queue) :
            Tail(queue)[i] \in QuickGoals \/ Tail(queue)[i] \in FullGoals
    BY <2>2
  <2>5. AtWork' /\ dirs' = dirs
    BY <1>4, <2>3, <2>4 DEF TakeGoal, disk
  <2>6. QED
    BY <2>5, KeepPassed
<1>5. CASE WorkerLoop \/ BeginGoal \/ LeavePause \/ EndGoal
  <2>1. AtWork' /\ dirs' = dirs
    BY <1>5 DEF WorkerLoop, BeginGoal, LeavePause, EndGoal, NoWork, disk, work
  <2>2. QED
    BY <2>1, KeepPassed
<1>6. QED
  BY <1>1, <1>2, <1>3, <1>4, <1>5 DEF Worker

\* A goal that is thrown out of, that returns or that fails is not complete.
LEMMA LeavePassed ==
  ASSUME PassedInv, [Next]_vars, dirs' = dirs, plannedUpTo' = plannedUpTo,
         UNCHANGED <<queue, goal>>,
         \/ pc' = "goal"
         \/ pc' \in {"pausedGoal", "ended"} /\ sm' = "failed"
         \/ pc' = "ended" /\ sm' = sm /\ sm # "complete"
  PROVE  PassedInv'
<1>1. AtWork'
  BY DEF PassedInv, AtWork, GoalsListed, CurInOrder, PlannedHasDir, CompletePassed, AtPhase,
         AtPlan, Running
<1>2. QED
  BY <1>1, KeepPassed

LEMMA ThrowPassed ==
  ASSUME PassedInv, [Next]_vars, Throw \/ ReturnOnShutdown,
         pc \in {"goal", "quick", "fastforward", "phases", "phase", "discover", "preflight"}
  PROVE  PassedInv'
<1> USE DEF Goto
<1>1. CASE Throw
  <2>1. /\ dirs' = dirs /\ plannedUpTo' = plannedUpTo /\ UNCHANGED <<queue, goal>>
        /\ pc' = "goal" \/ (pc' = "pausedGoal" /\ sm' = "failed")
    BY <1>1 DEF Throw
  <2>2. QED
    BY <2>1, LeavePassed
<1>2. CASE ReturnOnShutdown
  <2>1. sm # "complete"
    BY DEF PassedInv, OrderInv, IInv, InStep, MachineInStep
  <2>2. QED
    BY <1>2, <2>1, LeavePassed DEF ReturnOnShutdown, disk, work
<1>3. QED
  BY <1>1, <1>2

\* The steps before the phase loop.
LEMMA EntryPassed ==
  ASSUME PassedInv, [Next]_vars, EnterQuick \/ StartQuick \/ EnterNormal \/ InitProject
         \/ EnterResume \/ WriteInitialized \/ EnterRoadmap \/ CreateRoadmap
         \/ WriteRoadmapped \/ ReadRoadmap
  PROVE  PassedInv'
<1> USE DEF Goto
<1>1. CASE Throw
  <2>1. pc \in {"goal", "quick", "phases"} \/ ~Throw
    BY DEF EnterQuick, StartQuick, EnterNormal, InitProject, EnterResume, WriteInitialized,
           EnterRoadmap, CreateRoadmap, WriteRoadmapped, ReadRoadmap, PassCheck, Invoke,
           Throw
  <2>2. QED
    BY <1>1, <2>1, ThrowPassed
<1> USE DEF PassedInv, AtWork, GoalsListed, CurInOrder, PlannedHasDir, CompletePassed,
            AtPhase, AtPlan, Running
<1>2. CASE (StartQuick /\ ~Throw) \/ InitProject \/ CreateRoadmap
  <2>1. AtWork' /\ dirs' = dirs
    BY <1>2 DEF StartQuick, InitProject, CreateRoadmap, DirtyGit, Invoke, OrderInv, IInv,
                InRoadmap, disk
  <2>2. QED
    BY <2>1, KeepPassed
<1>7. CASE EnterQuick \/ EnterNormal \/ EnterRoadmap
  <2>1. sm # "complete"
    BY <1>7 DEF EnterQuick, EnterNormal, EnterRoadmap, OrderInv, IInv, InStep, MachineInStep
  <2>2. AtWork' /\ dirs' = dirs
    BY <1>7, <2>1 DEF EnterQuick, EnterNormal, EnterRoadmap, PassCheck, work, disk
  <2>3. QED
    BY <2>2, KeepPassed
<1>3. CASE EnterResume
  <2>1. AtWork' /\ dirs' = dirs
    BY <1>3 DEF EnterResume, FailGoal, EndFailed, disk
  <2>2. QED
    BY <2>1, KeepPassed
<1>4. CASE WriteInitialized \/ WriteRoadmapped
  <2>1. AtWork' /\ dirs' = dirs
    BY <1>4 DEF WriteInitialized, WriteRoadmapped
  <2>2. QED
    BY <2>1, KeepPassed
<1>5. CASE ReadRoadmap /\ ~Throw
  <2>1. AllPassed(log', dirs', goal', 1)
    BY RoadmapAssumption DEF AllPassed, Phases
  <2>2. AtWork' /\ dirs' = dirs
    BY <1>5, <2>1 DEF ReadRoadmap, disk
  <2>3. QED
    BY <2>2, KeepPassed
<1>6. QED
  BY <1>1, <1>2, <1>3, <1>4, <1>5, <1>7

\* The phase loop, and the plans of a phase: a phase is left when it is passed, and a
\* resumed one has a directory, so the phases before it were passed.
LEMMA LoopPassed ==
  ASSUME PassedInv, [Next]_vars, OneFullGoal,
         FastForward \/ PlanPhase \/ WritePlanned \/ DiscoverPlans
         \/ CompleteGoal \/ RunPlan \/ StartPlan \/ RejectPlanFile \/ VerifyPasses
         \/ VerifyFails \/ WriteExecuted
  PROVE  PassedInv'
<1> USE DEF Goto
<1>1. CASE (FastForward \/ PlanPhase \/ DiscoverPlans \/ CompleteGoal \/ StartPlan)
           /\ (Throw \/ ReturnOnShutdown)
  <2>1. pc \in {"fastforward", "phase", "discover", "preflight"}
    BY <1>1 DEF FastForward, PlanPhase, DiscoverPlans, CompleteGoal, StartPlan
  <2>2. QED
    BY <1>1, <2>1, ThrowPassed
<1>2. /\ IInv /\ cur \in Nat /\ NumPhases \in Nat /\ dirs \in [Phases -> 0..2]
      /\ goal \in GoalTitles \cup {NoGoal}
  BY RoadmapAssumption DEF PassedInv, OrderInv, IInv, InStep, TypeOK, DiskType, WorkType
<1>3. ASSUME dirs' = dirs, AtWork' PROVE PassedInv'
  BY <1>3, KeepPassed
<1>4. ASSUME dirs' = dirs PROVE AllPassedKept
  BY <1>4, KeepPassed
<1>5. AtPhase \/ pc = "phase" => goal \in FullGoals
  <2>1. AtPhase \/ pc = "phase" => goal \in GoalTitles /\ goal \notin QuickGoals
    BY <1>2 DEF PassedInv, OrderInv, PhaseInHand, AtPhase, AtPlan, Running, IInv, InStep,
                GoalInHand
  <2>2. QED
    BY <2>1, GoalsAssumption DEF PassedInv, GoalsListed
<1>6. ASSUME dirs' = dirs, AtPhase, AllPassed(log', dirs', goal, cur),
             dirs[cur] = 1, \A m \in 1..PlanCounts[cur] : Executed(log, goal, cur, m),
             log' = log
      PROVE  AllPassed(log', dirs', goal, cur + 1)
  <2>1. cur \in Phases
    BY <1>6 DEF PassedInv, OrderInv, PhaseInHand
  <2>2. Passed(log', dirs', goal, cur)
    BY <1>6 DEF Passed
  <2>3. QED
    BY <1>6, <2>1, <2>2, OneMorePassed
<1> DEFINE Leaves == FailGoal /\ dirs' = dirs
<1>7. CASE Leaves
  BY <1>7, LeavePassed DEF FailGoal, EndFailed
<1>8. CASE FastForward /\ ~Throw /\ ~ReturnOnShutdown /\ ~Leaves
  <2>1. /\ dirs' = dirs /\ log' = log /\ dirs[cur] = 1 /\ pc = "fastforward"
        /\ UNCHANGED <<queue, goal, plannedUpTo>>
        /\ \/ pc' = "plan" /\ cur' = cur
           \/ ~HasResumeTarget /\ resume.plan = 0 /\ pc' = "phase" /\ cur' = cur + 1
    BY <1>8 DEF FastForward, disk
  <2>2. cur \in Phases /\ goal \in FullGoals
    BY <1>5, <2>1 DEF AtPhase, PassedInv, OrderInv, PhaseInHand
  <2>3. AllPassed(log, dirs, goal, cur)
    BY <2>1, <2>2 DEF PassedInv, DirsInOrder
  <2>4. AllPassed(log', dirs', goal', cur')
    <3>1. CASE cur' = cur
      BY <2>1, <2>3, <3>1
    <3>2. CASE cur' = cur + 1 /\ ~HasResumeTarget /\ resume.plan = 0
      <4>1. \A m \in 1..PlanCounts[cur] : Executed(log, goal, cur, m)
        BY <2>2, <3>2, NoneLeft DEF HasResumeTarget, IsResumeTarget
      <4>2. QED
        BY <1>6, <2>1, <2>3, <3>2, <4>1 DEF AtPhase
    <3>3. QED
      BY <1>2, <2>1, <3>1, <3>2
  <2>5. AtWork'
    BY <2>1, <2>4 DEF PassedInv, AtWork, GoalsListed, CurInOrder, PlannedHasDir,
                      CompletePassed, AtPhase, AtPlan, Running
  <2>6. QED
    BY <1>3, <2>1, <2>5
<1>9. CASE PlanPhase /\ ~ReturnOnShutdown
  <2>1. /\ dirs' = dirs /\ log' = log /\ UNCHANGED <<queue, goal, cur, plannedUpTo>>
        /\ pc = "phase" /\ cur \in Phases
        /\ \/ pc' = "invoke" /\ cmd' = "plan-phase"
           \/ pc' = "discover" /\ plannedUpTo > 0 /\ cur <= plannedUpTo
    BY <1>2, <1>9
       DEF PlanPhase, SkipPlanning, Invoke, disk, IInv, InStep, MachineInStep, Phases
  <2>2. pc' = "discover" => dirs[cur] >= 1
    <3> SUFFICES ASSUME pc' = "discover" PROVE dirs[cur] >= 1
      OBVIOUS
    <3>1. plannedUpTo \in Phases /\ dirs[plannedUpTo] >= 1 /\ cur <= plannedUpTo
      BY <2>1 DEF PassedInv, PlannedHasDir
    <3>2. CASE cur < plannedUpTo
      <4>1. AllPassed(log, dirs, goal, plannedUpTo)
        BY <1>5, <2>1, <3>1 DEF PassedInv, DirsInOrder
      <4>2. QED
        BY <2>1, <3>2, <4>1 DEF AllPassed, Passed
    <3>3. QED
      BY <1>2, <3>1, <3>2 DEF Phases
  <2>3. AtWork'
    BY <2>1, <2>2 DEF PassedInv, AtWork, GoalsListed, CurInOrder, PlannedHasDir,
                      CompletePassed, AtPhase, AtPlan, Running
  <2>4. QED
    BY <1>3, <2>1, <2>3
<1>10. CASE WritePlanned
  <2>1. cur \in Phases
    BY <1>10 DEF WritePlanned, PassedInv, OrderInv, PhaseInHand, AtPhase
  <2>2. AtWork'
    BY <1>10, <2>1 DEF WritePlanned, PassedInv, AtWork, GoalsListed, CurInOrder,
                       PlannedHasDir, CompletePassed, AtPhase, AtPlan, Running
  <2>3. QED
    BY <1>3, <1>10, <2>2 DEF WritePlanned
<1>11. CASE DiscoverPlans /\ ~Throw
  <2>1. /\ dirs' = dirs /\ log' = log /\ UNCHANGED <<queue, goal, plannedUpTo>>
        /\ pc = "discover" /\ dirs[cur] # 2
        /\ \/ pc' = "plan" /\ cur' = cur
           \/ /\ dirs[cur] = 0 \/ Unexecuted(log, goal, cur, PlanCounts[cur]) = {}
              /\ pc' = "phase" /\ cur' = cur + 1
    BY <1>11 DEF DiscoverPlans, EndPhase, disk
  <2>2. AllPassed(log, dirs, goal, cur) /\ dirs[cur] >= 1 /\ cur \in Phases
    BY <2>1 DEF PassedInv, CurInOrder, PlannedHasDir, OrderInv, PhaseInHand, AtPhase
  <2>3. dirs[cur] = 1
    BY <1>2, <2>1, <2>2
  <2>4. AllPassed(log', dirs', goal', cur')
    <3>1. CASE cur' = cur
      BY <2>1, <2>2, <3>1
    <3>2. CASE cur' = cur + 1 /\ Unexecuted(log, goal, cur, PlanCounts[cur]) = {}
      <4>1. \A m \in 1..PlanCounts[cur] : Executed(log, goal, cur, m)
        BY <3>2 DEF Unexecuted
      <4>2. QED
        BY <1>6, <2>1, <2>2, <2>3, <3>2, <4>1 DEF AtPhase
    <3>3. QED
      BY <2>1, <2>3, <3>1, <3>2
  <2>5. AtWork'
    BY <2>1, <2>3, <2>4 DEF PassedInv, AtWork, GoalsListed, CurInOrder, PlannedHasDir,
                            CompletePassed, AtPhase, AtPlan, Running
  <2>6. QED
    BY <1>3, <2>1, <2>5
<1>12. CASE CompleteGoal /\ ~Throw
  <2>1. /\ dirs' = dirs /\ log' = log /\ UNCHANGED <<queue, goal, plannedUpTo>>
        /\ pc = "phase" /\ pc' = "ended" /\ cur > NumPhases
    BY <1>12 DEF CompleteGoal
  <2>2. AllPassed(log', dirs', goal', NumPhases + 1)
    <3>1. AllPassed(log, dirs, goal, cur)
      BY <2>1 DEF PassedInv, CurInOrder
    <3>2. QED
      BY <1>2, <2>1, <3>1 DEF AllPassed, Phases
  <2>3. AtWork'
    BY <2>1, <2>2 DEF PassedInv, AtWork, GoalsListed, CurInOrder, PlannedHasDir,
                      CompletePassed, AtPhase, AtPlan, Running
  <2>4. QED
    BY <1>3, <2>1, <2>3
<1>13. CASE RunPlan \/ (StartPlan /\ ~Throw) \/ WriteExecuted
  <2>1. dirs' = dirs /\ log' = log
    BY <1>13 DEF RunPlan, PassCheck, StartPlan, DirtyGit, WriteExecuted, disk
  <2>2. sm # "complete"
    BY <1>13 DEF RunPlan, StartPlan, WriteExecuted, PassedInv, OrderInv, IInv, InStep,
                 MachineInStep
  <2>3. AtWork'
    BY <1>13, <2>1, <2>2
       DEF RunPlan, PassCheck, StartPlan, DirtyGit, WriteExecuted, Invoke, work, PassedInv,
           AtWork, GoalsListed, CurInOrder, PlannedHasDir, CompletePassed, AtPhase, AtPlan,
           Running
  <2>4. QED
    BY <1>3, <2>1, <2>3
<1>14. CASE VerifyPasses
  <2>1. dirs' = dirs /\ log' = log
    BY <1>14 DEF VerifyPasses
  <2>2. AtWork'
    BY <1>14, <2>1, <1>2
       DEF VerifyPasses, PassedInv, AtWork, GoalsListed, IInv, InStep, CommandInHand,
           CurInOrder, PlannedHasDir, CompletePassed, AtPhase, AtPlan, Running
  <2>3. QED
    BY <1>3, <2>1, <2>2
<1>15. CASE RejectPlanFile \/ VerifyFails
  <2>1. FailGoal /\ dirs' = dirs
    BY <1>15 DEF RejectPlanFile, VerifyFails, FailGoal, OneFullGoal
  <2>2. QED
    BY <1>7, <2>1
<1>16. QED
  BY <1>1, <1>7, <1>8, <1>9, <1>10, <1>11, <1>12, <1>13, <1>14, <1>15

\* The invoker: what was passed stays so while entries are added.
LEMMA InvokerPassed ==
  ASSUME PassedInv, [Next]_vars, PlanningLeavesDir,
         BeginAgent \/ Tick \/ AgentEnds \/ AgentSucceeded \/ AgentFailed
         \/ AgentRejected \/ LateAppend
  PROVE  PassedInv'
<1> USE DEF Goto
<1>1. CASE AgentFailed \/ AgentRejected
  BY <1>1, LeavePassed DEF AgentFailed, AgentRejected, FailGoal, EndFailed, disk
<1>2. CASE ~AgentFailed /\ ~AgentRejected
  <2>1. dirs' = dirs /\ UNCHANGED <<queue, goal, cur, plannedUpTo, cmd, sm>>
    BY <1>2 DEF BeginAgent, Tick, AgentEnds, AgentSucceeded, LateAppend, work
  <2>2. AllPassedKept
    BY <2>1, KeepPassed
  <2>3. GoalsListed' /\ CompletePassed'
    BY <1>2, <2>1, <2>2
       DEF BeginAgent, Tick, AgentEnds, AgentSucceeded, LateAppend, After, AllPassedKept,
           PassedInv, GoalsListed, CompletePassed, Running
  <2>4. CurInOrder'
    BY <1>2, <2>1, <2>2
       DEF BeginAgent, Tick, AgentEnds, AgentSucceeded, LateAppend, After, AllPassedKept,
           PassedInv, CurInOrder, AtPhase, AtPlan, Running, OrderInv, IInv, InStep, CommandInHand,
           Commands
  <2>5. PlannedHasDir'
    <3>1. pc = "agent" /\ cmd = "plan-phase" => cur \in Phases
      BY DEF PassedInv, OrderInv, PhaseInHand, AtPhase, Running
    <3>2. AgentEnds /\ cmd = "plan-phase" /\ outcome' = "done" => dirs[cur] >= 1
      <4>1. \A k \in DirMatches : k \in 0..2 /\ k # 0
        BY RoadmapAssumption DEF PlanningLeavesDir
      <4>2. AgentEnds /\ cmd = "plan-phase" /\ outcome' = "done" => dirs[cur] \in DirMatches
        BY DEF AgentEnds
      <4>3. QED
        BY <4>1, <4>2
    <3>3. QED
      BY <1>2, <2>1, <3>1, <3>2
         DEF BeginAgent, Tick, AgentEnds, AgentSucceeded, LateAppend, After, work,
             PassedInv, PlannedHasDir, AtPlan, Running, OrderInv, IInv, InStep, CommandInHand,
             Commands
  <2>6. QED
    BY <2>1, <2>3, <2>4, <2>5, KeepPassed DEF AtWork
<1>3. QED
  BY <1>1, <1>2

\* A planning agent adds a directory for the phase in hand, and to no other.
LEMMA AgentWorksPassed ==
  ASSUME PassedInv, [Next]_vars, OneFullGoal, AgentWorks
  PROVE  PassedInv'
<1>1. OrderInv /\ OrderInv'
  BY NextOrder DEF PassedInv
<1>2. /\ log' = log /\ pc = "agent"
      /\ UNCHANGED <<pc, queue, goal, cmd, cur, plannedUpTo, outcome, sm>>
  BY DEF AgentWorks, proc, work
<1>3. CASE dirs' = dirs
  <2>1. AtWork'
    BY <1>2, <1>3 DEF PassedInv, AtWork, GoalsListed, CurInOrder, PlannedHasDir,
                      CompletePassed, AtPhase, AtPlan, Running
  <2>2. QED
    BY <1>3, <2>1, KeepPassed
<1>4. CASE cmd = "plan-phase" /\ \E k \in DirMatches :
              k > dirs[cur] /\ dirs' = [dirs EXCEPT ![cur] = k]
  <2>1. dirs \in [Phases -> 0..2] /\ cur \in Phases /\ goal \in FullGoals
    <3>1. goal \in GoalTitles /\ goal \notin QuickGoals /\ cur \in Phases
      BY <1>1, <1>2, <1>4 DEF OrderInv, IInv, InStep, GoalInHand, PhaseInHand, AtPhase, Running
    <3>2. QED
      BY <1>1, <3>1, GoalsAssumption
         DEF OrderInv, IInv, InStep, TypeOK, DiskType, PassedInv, GoalsListed
  <2>2. PICK k \in DirMatches : k > dirs[cur] /\ dirs' = [dirs EXCEPT ![cur] = k]
    BY <1>4
  <2>3. k \in 0..2 /\ \A p \in Phases : dirs'[p] = IF p = cur THEN k ELSE dirs[p]
    BY <2>1, <2>2, RoadmapAssumption
  <2>4. \A p \in Phases : dirs'[p] \in dirs[p]..2
    BY <2>1, <2>2, <2>3
  <2>5. AllPassedKept
    BY <1>1, <2>4, PassedStays
  <2>6. AllPassed(log', dirs', goal, cur)
    BY <1>2, <1>4, <2>5 DEF PassedInv, CurInOrder, AtPhase, Running, AllPassedKept
  <2>7. DirsInOrder'
    <3> SUFFICES ASSUME NEW q \in Phases, dirs'[q] >= 1, NEW g \in FullGoals
                 PROVE  AllPassed(log', dirs', g, q)
      BY DEF DirsInOrder
    <3>1. CASE q = cur
      <4>1. g = goal
        BY <2>1 DEF FullGoals, OneFullGoal
      <4>2. QED
        BY <2>6, <3>1, <4>1
    <3>2. CASE q # cur
      <4>1. dirs[q] >= 1
        BY <2>3, <3>2
      <4>2. AllPassed(log, dirs, g, q)
        BY <4>1 DEF PassedInv, DirsInOrder
      <4>3. QED
        BY <2>5, <4>2 DEF AllPassedKept
    <3>3. QED
      BY <3>1, <3>2
  <2>8. GoalsListed' /\ CompletePassed'
    BY <1>2 DEF PassedInv, GoalsListed, CompletePassed, Running
  <2>9. CurInOrder'
    BY <1>2, <2>5 DEF PassedInv, CurInOrder, AtPhase, AtPlan, Running, AllPassedKept
  <2>10. PlannedHasDir'
    <3>1. plannedUpTo > 0 => plannedUpTo \in Phases /\ dirs'[plannedUpTo] >= 1
      BY <2>1, <2>4 DEF PassedInv, PlannedHasDir
    <3>2. QED
      BY <1>2, <1>4, <3>1 DEF PlannedHasDir, AtPlan, Running
  <2>11. QED
    BY <1>1, <2>7, <2>8, <2>9, <2>10 DEF PassedInv
<1>5. QED
  BY <1>3, <1>4 DEF AgentWorks

LEMMA NextPassed ==
  ASSUME PlanningLeavesDir, OneFullGoal
  PROVE  PassedInv /\ [Next]_vars => PassedInv'
<1> SUFFICES ASSUME PassedInv, [Next]_vars PROVE PassedInv'
  OBVIOUS
<1>1. CASE Signal \/ Unpause \/ Over \/ UNCHANGED vars
  <2>1. /\ log' = log /\ dirs' = dirs
        /\ UNCHANGED <<pc, queue, goal, cmd, cur, plannedUpTo, outcome, sm>>
    BY <1>1 DEF Signal, Unpause, Over, vars, disk, proc, work
  <2>2. AtWork'
    BY <2>1 DEF PassedInv, AtWork, GoalsListed, CurInOrder, PlannedHasDir, CompletePassed,
                AtPhase, AtPlan, Running
  <2>3. QED
    BY <2>1, <2>2, KeepPassed
<1>2. QED
  BY <1>1, StartPassed, EntryPassed, LoopPassed, InvokerPassed, AgentWorksPassed
     DEF Next, DaemonStep, Orchestrate, Agent

LEMMA InitPassed == Init => PassedInv
<1> SUFFICES ASSUME Init PROVE PassedInv
  OBVIOUS
<1>1. OrderInv
  BY InitOrder
<1>2. QED
  BY <1>1 DEF Init, PassedInv, GoalsListed, DirsInOrder, CurInOrder, PlannedHasDir,
              CompletePassed, AtPhase, AtPlan, Running

LEMMA PassedInvariant ==
  ASSUME PlanningLeavesDir, OneFullGoal
  PROVE  Spec => []PassedInv
BY InitPassed, NextPassed, PTL DEF Spec

\* When planning leaves directories and they serve one full goal, a plan is only run
\* when every plan of every earlier phase has had an outcome for that goal.
THEOREM PhasesRunInOrder ==
  ASSUME PlanningLeavesDir, OneFullGoal
  PROVE  Spec => []PhasesInOrder
<1>1. ASSUME PassedInv PROVE PhasesInOrder
  <2> SUFFICES ASSUME Executing, NEW p \in 1..(cur - 1) PROVE PhaseCovered(goal, p)
    BY DEF PhasesInOrder
  <2>1. AllPassed(log, dirs, goal, cur) /\ cur \in Phases
    BY <1>1 DEF Executing, PassedInv, CurInOrder, OrderInv, PhaseInHand, AtPhase, AtPlan,
                Running
  <2>2. p \in Phases /\ p < cur
    BY <2>1, RoadmapAssumption DEF Phases
  <2>3. QED
    BY <2>1, <2>2 DEF AllPassed, Passed, PhaseCovered
<1>2. QED
  BY <1>1, PassedInvariant, PTL

\* On the same conditions, a full goal that reaches Complete has an outcome for every
\* plan on disk.
THEOREM CompleteIsCovered ==
  ASSUME PlanningLeavesDir, OneFullGoal
  PROVE  Spec => []CompleteCoversPlans
<1>1. ASSUME PassedInv PROVE CompleteCoversPlans
  <2> SUFFICES ASSUME pc = "ended", sm = "complete", goal \notin QuickGoals, NEW p \in Phases
               PROVE  PhaseCovered(goal, p)
    BY DEF CompleteCoversPlans
  <2>1. AllPassed(log, dirs, goal, NumPhases + 1)
    BY <1>1 DEF PassedInv, CompletePassed
  <2>2. p < NumPhases + 1
    BY RoadmapAssumption DEF Phases
  <2>3. QED
    BY <2>1, <2>2 DEF AllPassed, Passed, PhaseCovered
<1>2. QED
  BY <1>1, PassedInvariant, PTL

=============================================================================
