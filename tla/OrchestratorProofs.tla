------------------------- MODULE OrchestratorProofs -------------------------
(***************************************************************************)
(* Proofs about Orchestrator, for any goals, roadmap, configuration and    *)
(* number of restarts.                                                     *)
(***************************************************************************)
EXTENDS Orchestrator, WellFoundedInduction, TLAPS

-----------------------------------------------------------------------------
(* The functions of SessionLog and Recovery *)

\* A non-empty set of indices of a sequence has a largest one.
LEMMA LastIndex ==
  ASSUME NEW S, NEW s \in Seq(S),
         NEW I, I \subseteq DOMAIN s, I # {}
  PROVE  \E i \in I : \A j \in I : j <= i
<1> DEFINE Distances == { Len(s) - i : i \in I }
<1>1. Len(s) \in Nat /\ DOMAIN s = 1..Len(s)
  OBVIOUS
<1>2. Distances \in SUBSET Nat
  BY <1>1
<1>3. PICK n \in Distances : \A k \in Distances : <<k, n>> \notin OpToRel(<, Nat)
  <2>1. Distances # {}
    OBVIOUS
  <2>2. QED
    BY <1>2, <2>1, NatLessThanWellFounded, WFMin, Zenon
<1>4. \A k \in Distances : ~ (k < n)
  BY <1>2, <1>3, Zenon DEF OpToRel
<1>5. PICK i \in I : n = Len(s) - i
  BY <1>3
<1>6. ASSUME NEW j \in I PROVE j <= i
  <2>1. ~ (Len(s) - j < n)
    BY <1>4
  <2>2. i \in Int /\ j \in Int
    BY <1>1
  <2>3. QED
    BY <1>1, <1>5, <2>1, <2>2
<1>7. QED
  BY <1>6

\* Latest picks the last of the entries it is given.
LEMMA LatestIn ==
  ASSUME NEW S, NEW s \in Seq(S),
         NEW I, I \subseteq DOMAIN s, I # {}
  PROVE  \E i \in I : /\ Latest(s, I) = s[i] /\ s[i] \in S
                     /\ \A j \in I : j <= i
<1> DEFINE last == CHOOSE i \in I : \A j \in I : j <= i
<1>1. last \in I /\ \A j \in I : j <= last
  BY LastIndex
<1>2. Latest(s, I) = s[last]
  BY DEF Latest
<1> HIDE DEF last
<1>3. s[last] \in S
  BY <1>1
<1>4. QED
  BY <1>1, <1>2, <1>3

\* The resume pointer is a pointer, whatever the log and STATE.md say.
LEMMA ResumePointerType ==
  ASSUME NEW l \in Seq(Entries), NEW s \in StateMds, NEW g
  PROVE  ResumePointer(l, s, g) \in Pointers
<1>1. LogPointer(l, g) \in Pointers
  <2>1. CASE PlanCompletes(l, g) # {}
    <3>1. PlanCompletes(l, g) \subseteq DOMAIN l
      BY DEF PlanCompletes, GoalEntries
    <3>2. Latest(l, PlanCompletes(l, g)) \in Entries
      BY <2>1, <3>1, LatestIn
    <3>3. QED
      BY <2>1, <3>2 DEF LogPointer, Pointers, Entries
  <2>2. CASE PlanCompletes(l, g) = {} /\ PhaseCompletes(l, g) # {}
    <3>1. PhaseCompletes(l, g) \subseteq DOMAIN l
      BY DEF PhaseCompletes, GoalEntries
    <3>2. Latest(l, PhaseCompletes(l, g)) \in Entries
      BY <2>2, <3>1, LatestIn
    <3>3. QED
      BY <2>2, <3>2 DEF LogPointer, Pointers, Entries
  <2>3. CASE PlanCompletes(l, g) = {} /\ PhaseCompletes(l, g) = {}
    BY <2>3 DEF LogPointer, NoPointer, Pointers
  <2>4. QED
    BY <2>1, <2>2, <2>3
<1>2. Clamp(LogPointer(l, g), s) \in Pointers
  BY <1>1 DEF Clamp, Pointers, StateMds
<1>3. QED
  BY <1>2 DEF ResumePointer, NoPointer, Pointers

-----------------------------------------------------------------------------
(* The inductive invariant *)

\* Past the queue a goal is in hand.
GoalInHand ==
  pc \notin {"down", "boot", "inspect", "pointer", "worker", "gate"}
    => goal \in GoalTitles

\* While an agent runs, and while its work is verified, there is a command.
Running == pc \in {"invoke", "tick", "agent", "log"}

\* The phase of the state machine in which each command is run.
PhaseOf(command) ==
  CASE command = "new-project"    -> "new"
    [] command = "create-roadmap" -> "initializing_project"
    [] command = "plan-phase"     -> "planning_phase"
    [] OTHER                      -> "executing_plan"

CommandInHand ==
  /\ Running => cmd \in Commands /\ sm = PhaseOf(cmd)
  /\ pc = "verify" => cmd \in {"execute-plan", "quick"} /\ sm = "executing_plan"

\* The phase of the state machine at each place of orchestrateGoal.
MachineInStep ==
  /\ pc \in {"down", "boot", "inspect", "pointer", "worker", "gate", "taken",
             "goal", "quick", "init", "initialized"} => sm = "new"
  /\ pc \in {"roadmap", "create", "roadmapped"} => sm = "initializing_project"
  /\ pc \in {"phases", "fastforward"} => sm = "creating_roadmap"
  /\ pc = "fastforward" => cur >= 1
  /\ pc = "phase" => \/ cur = 1 /\ sm = "creating_roadmap"
                     \/ cur > 1 /\ sm = "phase_complete"
  /\ pc = "planned" => sm = "planning_phase"
  /\ pc \in {"discover", "plan", "preflight"} => sm \in {"planning_phase", "executing_plan"}
  /\ pc = "executed" => sm = "executing_plan"
  /\ pc \in {"planned", "discover", "plan", "preflight", "executed"} => cur >= 1
  /\ (Running \/ pc = "verify") /\ cmd \in {"plan-phase", "execute-plan"}
       => cur >= 1

\* A plan in hand is one of a phase of the roadmap, and only a quick goal is run
\* with the quick command: so a failed verification has a title for its fix goal.
InRoadmap ==
  /\ pc \in {"fastforward", "planned", "discover", "plan", "preflight", "executed"}
       => cur \in Phases
  /\ (Running \/ pc = "verify") /\ cmd \in {"plan-phase", "execute-plan"}
       => cur \in Phases
  /\ pc \in {"plan", "preflight"} => target \in 1..PlanCounts[cur]
  /\ (Running \/ pc = "verify") /\ cmd = "execute-plan" => target \in 1..PlanCounts[cur]
  /\ pc = "quick" => goal \in QuickGoals
  /\ (Running \/ pc = "verify") /\ cmd = "quick" => goal \in QuickGoals

InStep == TypeOK /\ GoalInHand /\ CommandInHand /\ MachineInStep

IInv == InStep /\ InRoadmap

-----------------------------------------------------------------------------
\* A fresh workspace satisfies the invariant.
LEMMA InitIInv == Init => IInv
<1> SUFFICES ASSUME Init PROVE IInv
  OBVIOUS
<1> USE DEF Init
<1>1. DiskType
  <2>1. dirs \in [Phases -> 0..2]
    BY RoadmapAssumption
  <2>2. stateMd \in StateMds
    BY DEF NoStateMd, StateMds, StateStatuses
  <2>3. project \in BOOLEAN /\ log \in Seq(Entries)
    OBVIOUS
  <2>4. QED
    BY <2>1, <2>2, <2>3 DEF DiskType
<1>2. ProcType
  <2>1. resume \in Pointers
    BY DEF NoPointer, Pointers
  <2>2. queue \in Seq(GoalTitles) /\ late \in SUBSET Entries
    OBVIOUS
  <2>3. QED
    BY <2>1, <2>2 DEF ProcType, Labels
<1>3. WorkType
  BY DEF WorkType, LifecyclePhases
<1>4. HistType
  BY DEF HistType
<1>5. GoalInHand /\ CommandInHand /\ MachineInStep /\ InRoadmap
  BY DEF GoalInHand, CommandInHand, MachineInStep, InRoadmap, Running
<1>6. QED
  BY <1>1, <1>2, <1>3, <1>4, <1>5 DEF IInv, InStep, TypeOK

-----------------------------------------------------------------------------
(* Building blocks *)

\* Appending a log entry, or losing it, keeps the log a log.
LEMMA AppendLogType ==
  ASSUME log \in Seq(Entries), lost \in Nat, NEW e \in Entries, AppendLog(e)
  PROVE  log' \in Seq(Entries) /\ lost' \in Nat
BY DEF AppendLog

\* The entry written for the command in hand is an entry.
LEMMA CallEntryType ==
  ASSUME WorkType, goal \in GoalTitles, cmd \in Commands,
         NEW status \in TerminalStatuses \cup {"running"}
  PROVE  CallEntry(status) \in Entries
BY DEF WorkType, CallEntry, Entries

\* The process may be gone at any time, in the middle of a write of STATE.md too.
LEMMA GoneInStep ==
  ASSUME IInv, NEW how \in {"refused", "stopped", "finished", "crash"}, Gone(how),
         stateMd' \in StateMds,
         UNCHANGED <<log, heartbeat, project, roadmap, dirs, pauseFlag>>
  PROVE  InStep'
<1> USE DEF Gone, NoWork
<1>1. DiskType'
  BY DEF IInv, InStep, TypeOK, DiskType
<1>2. ProcType'
  <2>1. resume' \in Pointers
    BY DEF NoPointer, Pointers
  <2>2. queue' \in Seq(GoalTitles) /\ late' \in SUBSET Entries
    OBVIOUS
  <2>3. QED
    BY <2>1, <2>2 DEF ProcType, Labels
<1>3. WorkType'
  BY DEF WorkType, LifecyclePhases
<1>4. HistType'
  BY DEF IInv, InStep, TypeOK, HistType
<1>5. GoalInHand' /\ CommandInHand' /\ MachineInStep'
  BY DEF GoalInHand, CommandInHand, MachineInStep, Running
<1>6. QED
  BY <1>1, <1>2, <1>3, <1>4, <1>5 DEF InStep, TypeOK

LEMMA DownInStep ==
  ASSUME IInv, NEW how \in {"refused", "stopped", "finished", "crash"}, Down(how)
  PROVE  InStep'
BY GoneInStep DEF Down, disk, IInv, InStep, TypeOK, DiskType

\* A throw leads to a new attempt from the start, or to the pause.
LEMMA ThrowInStep ==
  ASSUME IInv, goal \in GoalTitles, Throw
  PROVE  InStep'
<1> USE DEF Throw, Goto
<1>1. DiskType'
  BY DEF IInv, InStep, TypeOK, DiskType
<1>2. ProcType'
  BY DEF IInv, InStep, TypeOK, ProcType, Labels, NoPointer, Pointers
<1>3. WorkType'
  <2>1. attempt' \in 0..3
    <3>1. attempt \in 0..3
      BY DEF IInv, InStep, TypeOK, WorkType
    <3>2. \/ attempt < 3 /\ attempt' = attempt + 1
          \/ attempt' = attempt
      BY Zenon
    <3>3. (attempt < 3 /\ attempt' = attempt + 1) => attempt' \in 0..3
      BY <3>1
    <3>4. QED
      BY <3>1, <3>2, <3>3
  <2>2. sm' \in LifecyclePhases
    BY DEF LifecyclePhases
  <2>3. QED
    BY <2>1, <2>2 DEF IInv, InStep, TypeOK, WorkType
<1>4. HistType'
  BY DEF IInv, InStep, TypeOK, HistType, hist, notes
<1>5. GoalInHand' /\ CommandInHand' /\ MachineInStep'
  BY DEF GoalInHand, CommandInHand, MachineInStep, Running
<1>6. QED
  BY <1>1, <1>2, <1>3, <1>4, <1>5 DEF IInv, InStep, TypeOK

\* A return on shutdown ends the goal.
LEMMA ReturnInStep ==
  ASSUME IInv, goal \in GoalTitles, ReturnOnShutdown
  PROVE  InStep'
<1> USE DEF ReturnOnShutdown, Goto
<1>1. DiskType'
  BY DEF IInv, InStep, TypeOK, DiskType, disk
<1>2. ProcType'
  BY DEF IInv, InStep, TypeOK, ProcType, Labels
<1>3. WorkType'
  BY DEF IInv, InStep, TypeOK, WorkType, work
<1>4. HistType'
  BY DEF IInv, InStep, TypeOK, HistType, hist, notes
<1>5. GoalInHand' /\ CommandInHand' /\ MachineInStep'
  BY DEF work, GoalInHand, CommandInHand, MachineInStep, Running
<1>6. QED
  BY <1>1, <1>2, <1>3, <1>4, <1>5 DEF IInv, InStep, TypeOK

\* The shutdown checks with an await behind them lead to the place behind it.
LEMMA PassCheckInStep ==
  ASSUME IInv, goal \in GoalTitles,
         NEW label \in {"quick", "init", "create", "preflight"}, PassCheck(label),
         \/ pc = "goal" /\ label \in {"quick", "init"}
         \/ pc = "roadmap" /\ label = "create"
         \/ pc = "plan" /\ label = "preflight"
  PROVE  InStep'
<1> USE DEF PassCheck, Goto
<1>1. DiskType' /\ HistType'
  BY DEF IInv, InStep, TypeOK, DiskType, HistType, disk, hist, notes
<1>2. ProcType' /\ WorkType'
  BY DEF IInv, InStep, TypeOK, ProcType, WorkType, Labels, work
<1>3. GoalInHand' /\ CommandInHand' /\ MachineInStep'
  BY DEF IInv, InStep, work, GoalInHand, CommandInHand, MachineInStep, Running
<1>4. QED
  BY <1>1, <1>2, <1>3 DEF InStep, TypeOK

\* Handing over a command counts it.
LEMMA InvokeHist ==
  ASSUME HistType, NEW command, Invoke(command)
  PROVE  HistType'
BY DEF HistType, Invoke

\* A failed goal ends without a throw.
LEMMA EndFailedParts ==
  ASSUME IInv, goal \in GoalTitles, EndFailed
  PROVE  /\ pc' \in Labels /\ shuttingDown' = shuttingDown /\ resume' = resume
         /\ WorkType' /\ GoalInHand' /\ CommandInHand' /\ MachineInStep'
<1> USE DEF EndFailed, Goto
<1>1. WorkType'
  BY DEF IInv, InStep, TypeOK, WorkType, LifecyclePhases
<1>2. GoalInHand' /\ CommandInHand' /\ MachineInStep'
  BY DEF GoalInHand, CommandInHand, MachineInStep, Running
<1>3. QED
  BY <1>1, <1>2 DEF Labels

LEMMA FailGoalParts ==
  ASSUME IInv, goal \in GoalTitles, FailGoal
  PROVE  /\ pc' \in Labels /\ shuttingDown' = shuttingDown /\ queue' = queue
         /\ resume' = resume
         /\ WorkType' /\ GoalInHand' /\ CommandInHand' /\ MachineInStep'
BY EndFailedParts DEF FailGoal

\* Fast-forwarding to phase n ends in the planning of phase n.
LEMMA FastForwardEnd ==
  ASSUME NEW n \in Nat, n >= 1
  PROVE  LET path == FastForwardPath(n)
         IN  /\ path[Len(path)] = "planning_phase"
             /\ LET longer == Append(path, "phase_complete")
                IN  longer[Len(longer)] = "phase_complete"
<1> DEFINE path == FastForwardPath(n)
<1>1. /\ path \in Seq(LifecyclePhases)
      /\ Len(path) = 2 * n - 1
      /\ path[2 * n - 1] = "planning_phase"
  <2>1. 2 * n - 1 \in Nat /\ 2 * n - 1 >= 1 /\ (2 * n - 1) % 2 = 1
    OBVIOUS
  <2>2. path \in [1..(2 * n - 1) -> LifecyclePhases]
    BY DEF FastForwardPath, LifecyclePhases
  <2>3. QED
    BY <2>1, <2>2 DEF FastForwardPath
<1> HIDE DEF path
<1>2. LET longer == Append(path, "phase_complete")
      IN  longer[Len(longer)] = "phase_complete"
  BY <1>1
<1>3. QED
  BY <1>1, <1>2 DEF path

-----------------------------------------------------------------------------
(* Starting the daemon *)

\* The start of runDaemon keeps the invariant: the log it repairs stays a log, and
\* the pointer it computes is a pointer.
LEMMA BootInStep ==
  ASSUME IInv, Launch \/ Refuse \/ LoadGoals \/ DetectCrash \/ ComputeResume
  PROVE  InStep'
<1>1. CASE Launch
  <2>1. DiskType'
    BY <1>1 DEF IInv, InStep, TypeOK, DiskType, disk, Launch
  <2>2. ProcType'
    BY <1>1 DEF IInv, InStep, TypeOK, ProcType, Labels, Launch, Goto
  <2>3. WorkType'
    BY <1>1 DEF IInv, InStep, TypeOK, WorkType, work, Launch
  <2>4. HistType'
    BY <1>1 DEF IInv, InStep, TypeOK, HistType, notes, Launch
  <2>5. GoalInHand' /\ CommandInHand' /\ MachineInStep'
    BY <1>1 DEF IInv, InStep, GoalInHand, CommandInHand, MachineInStep, Running, work, Launch, Goto
  <2>6. QED
    BY <2>1, <2>2, <2>3, <2>4, <2>5 DEF IInv, InStep, TypeOK
<1>2. CASE Refuse
  BY <1>2, DownInStep DEF Refuse
<1>3. CASE LoadGoals
  <2>1. DiskType'
    BY <1>3 DEF IInv, InStep, TypeOK, DiskType, disk, LoadGoals
  <2>2. ProcType'
    BY <1>3, GoalsAssumption DEF IInv, InStep, TypeOK, ProcType, LoadGoals, Goto, Labels
  <2>3. WorkType'
    BY <1>3 DEF IInv, InStep, TypeOK, WorkType, work, LoadGoals
  <2>4. HistType'
    BY <1>3 DEF IInv, InStep, TypeOK, HistType, hist, notes, LoadGoals
  <2>5. GoalInHand' /\ CommandInHand' /\ MachineInStep'
    BY <1>3
       DEF IInv, InStep, GoalInHand, CommandInHand, MachineInStep, Running, work, LoadGoals, Goto
  <2>6. QED
    BY <2>1, <2>2, <2>3, <2>4, <2>5 DEF IInv, InStep, TypeOK
<1>4. CASE DetectCrash
  <2>1. log' \in Seq(Entries) /\ lost' \in Nat
    <3>1. log \in Seq(Entries) /\ lost \in Nat
      BY DEF IInv, InStep, TypeOK, DiskType, HistType
    <3>2. CASE OpenRun(log) /\ AppendLog([log[Len(log)] EXCEPT !.status = "crashed"])
      <4>1. log[Len(log)] \in Entries
        BY <3>1, <3>2 DEF OpenRun
      <4>2. [log[Len(log)] EXCEPT !.status = "crashed"] \in Entries
        BY <4>1 DEF Entries, TerminalStatuses
      <4>3. QED
        BY <3>1, <3>2, <4>2, AppendLogType
    <3>3. QED
      BY <1>4, <3>1, <3>2 DEF DetectCrash
  <2>2. ProcType'
    BY <1>4 DEF IInv, InStep, TypeOK, ProcType, Labels, DetectCrash, Goto
  <2>3. WorkType'
    BY <1>4 DEF IInv, InStep, TypeOK, WorkType, work, DetectCrash
  <2>4. DiskType' /\ HistType'
    BY <1>4, <2>1 DEF IInv, InStep, TypeOK, DiskType, HistType, notes, DetectCrash
  <2>5. GoalInHand' /\ CommandInHand' /\ MachineInStep'
    BY <1>4
       DEF IInv, InStep, GoalInHand, CommandInHand, MachineInStep, Running, work, DetectCrash,
           Goto
  <2>6. QED
    BY <2>1, <2>2, <2>3, <2>4, <2>5 DEF IInv, InStep, TypeOK
<1>5. CASE ComputeResume
  <2>1. DiskType'
    BY <1>5 DEF IInv, InStep, TypeOK, DiskType, disk, ComputeResume
  <2>2. ProcType'
    <3>1. resume' \in Pointers
      BY <1>5, ResumePointerType DEF IInv, InStep, TypeOK, DiskType, ComputeResume
    <3>2. QED
      BY <1>5, <3>1 DEF IInv, InStep, TypeOK, ProcType, ComputeResume, Goto, Labels
  <2>3. WorkType'
    BY <1>5 DEF IInv, InStep, TypeOK, WorkType, work, ComputeResume
  <2>4. HistType'
    BY <1>5 DEF IInv, InStep, TypeOK, HistType, hist, notes, ComputeResume
  <2>5. GoalInHand' /\ CommandInHand' /\ MachineInStep'
    BY <1>5
       DEF IInv, InStep, GoalInHand, CommandInHand, MachineInStep, Running, work, ComputeResume,
           Goto
  <2>6. QED
    BY <2>1, <2>2, <2>3, <2>4, <2>5 DEF IInv, InStep, TypeOK
<1>6. QED
  BY <1>1, <1>2, <1>3, <1>4, <1>5

-----------------------------------------------------------------------------
(* runWorker and runOneGoal *)

\* So do the worker's steps: a goal in hand comes from the queue.
LEMMA WorkerInStep ==
  ASSUME IInv, Worker
  PROVE  InStep'
<1>1. CASE WorkerLoop
  <2>1. DiskType'
    BY <1>1 DEF IInv, InStep, TypeOK, DiskType, disk, WorkerLoop
  <2>2. ProcType'
    BY <1>1 DEF IInv, InStep, TypeOK, ProcType, Labels, WorkerLoop, Goto
  <2>3. WorkType'
    BY <1>1 DEF IInv, InStep, TypeOK, WorkType, work, WorkerLoop
  <2>4. HistType'
    BY <1>1 DEF IInv, InStep, TypeOK, HistType, hist, notes, WorkerLoop
  <2>5. GoalInHand' /\ CommandInHand' /\ MachineInStep'
    BY <1>1
       DEF IInv, InStep, GoalInHand, CommandInHand, MachineInStep, Running, work, WorkerLoop, Goto
  <2>6. QED
    BY <2>1, <2>2, <2>3, <2>4, <2>5 DEF IInv, InStep, TypeOK
<1>2. CASE TakeGoal
  <2>1. DiskType'
    BY <1>2 DEF IInv, InStep, TypeOK, DiskType, disk, TakeGoal
  <2>0. queue[1] \in GoalTitles /\ Tail(queue) \in Seq(GoalTitles)
    BY <1>2 DEF IInv, InStep, TypeOK, ProcType, TakeGoal
  <2>2. ProcType'
    BY <1>2, <2>0 DEF IInv, InStep, TypeOK, ProcType, TakeGoal, Goto, Labels
  <2>3. WorkType'
    BY <1>2, <2>0 DEF IInv, InStep, TypeOK, WorkType, TakeGoal
  <2>4. HistType'
    BY <1>2 DEF IInv, InStep, TypeOK, HistType, hist, notes, TakeGoal
  <2>5. GoalInHand' /\ CommandInHand' /\ MachineInStep'
    BY <1>2, <2>0
       DEF IInv, InStep, GoalInHand, CommandInHand, MachineInStep, Running, TakeGoal, Goto
  <2>6. QED
    BY <2>1, <2>2, <2>3, <2>4, <2>5 DEF IInv, InStep, TypeOK
<1>3. CASE BeginGoal
  <2>1. DiskType'
    BY <1>3 DEF IInv, InStep, TypeOK, DiskType, disk, BeginGoal
  <2>2. ProcType'
    BY <1>3 DEF IInv, InStep, TypeOK, ProcType, Labels, BeginGoal, Goto
  <2>3. WorkType'
    BY <1>3 DEF IInv, InStep, TypeOK, WorkType, BeginGoal
  <2>4. HistType'
    BY <1>3 DEF IInv, InStep, TypeOK, HistType, hist, notes, BeginGoal
  <2>5. GoalInHand' /\ CommandInHand' /\ MachineInStep'
    BY <1>3 DEF IInv, InStep, GoalInHand, CommandInHand, MachineInStep, Running, BeginGoal, Goto
  <2>6. QED
    BY <2>1, <2>2, <2>3, <2>4, <2>5 DEF IInv, InStep, TypeOK
<1>4. CASE LeavePause
  <2>1. DiskType'
    BY <1>4 DEF IInv, InStep, TypeOK, DiskType, disk, LeavePause
  <2>2. ProcType'
    BY <1>4 DEF IInv, InStep, TypeOK, ProcType, Labels, LeavePause, Goto
  <2>3. WorkType'
    BY <1>4 DEF IInv, InStep, TypeOK, WorkType, work, LeavePause
  <2>4. HistType'
    BY <1>4 DEF IInv, InStep, TypeOK, HistType, hist, notes, LeavePause
  <2>5. GoalInHand' /\ CommandInHand' /\ MachineInStep'
    BY <1>4
       DEF IInv, InStep, GoalInHand, CommandInHand, MachineInStep, Running, work, LeavePause, Goto
  <2>6. QED
    BY <2>1, <2>2, <2>3, <2>4, <2>5 DEF IInv, InStep, TypeOK
<1>5. CASE EndGoal
  <2>1. DiskType'
    BY <1>5 DEF IInv, InStep, TypeOK, DiskType, disk, EndGoal, NoWork, NoPointer
  <2>2. ProcType'
    BY <1>5 DEF IInv, InStep, TypeOK, ProcType, Labels, EndGoal, NoWork, NoPointer, Pointers, Goto
  <2>3. WorkType'
    BY <1>5 DEF IInv, InStep, TypeOK, WorkType, EndGoal, NoWork, NoPointer, LifecyclePhases
  <2>4. HistType'
    BY <1>5 DEF IInv, InStep, TypeOK, HistType, hist, notes, EndGoal, NoWork, NoPointer
  <2>5. GoalInHand' /\ CommandInHand' /\ MachineInStep'
    BY <1>5
       DEF IInv, InStep, GoalInHand, CommandInHand, MachineInStep, Running, EndGoal, NoWork,
           NoPointer, Goto
  <2>6. QED
    BY <2>1, <2>2, <2>3, <2>4, <2>5 DEF IInv, InStep, TypeOK
<1>6. CASE Stop
  BY <1>6, DownInStep DEF Stop
<1>7. CASE Finish
  BY <1>7, DownInStep DEF Finish
<1>8. QED
  BY <1>1, <1>2, <1>3, <1>4, <1>5, <1>6, <1>7 DEF Worker

-----------------------------------------------------------------------------
(* orchestrateGoal: the three ways in *)

\* So do the entries of orchestrateGoal: each leaves the state machine in the
\* phase that the place it goes to expects.
LEMMA EntryInStep ==
  ASSUME IInv,
         EnterQuick \/ StartQuick \/ EnterNormal \/ InitProject
           \/ EnterResume \/ FastForward
  PROVE  InStep'
<1>1. CASE EnterQuick \/ EnterNormal
  <2>1. goal \in GoalTitles
    BY <1>1 DEF IInv, InStep, GoalInHand, EnterQuick, EnterNormal
  <2>2. QED
    BY <1>1, <2>1, PassCheckInStep DEF EnterQuick, EnterNormal
<1>2. CASE StartQuick
  <2>1. goal \in GoalTitles
    BY <1>2 DEF IInv, InStep, GoalInHand, StartQuick
  <2>2. CASE Throw
    BY <2>1, <2>2, ThrowInStep
  <2>3. CASE ~Throw
    <3>1. DiskType'
      BY <1>2, <2>1, <2>3
         DEF IInv, InStep, TypeOK, DiskType, StartQuick, DirtyGit, WriteStateMd,
             StateMds, StateStatuses
    <3>2. ProcType'
      BY <1>2, <2>1, <2>3
         DEF IInv, InStep, TypeOK, ProcType, Labels, StartQuick, DirtyGit, Goto, Invoke
    <3>3. WorkType'
      BY <1>2, <2>1, <2>3
         DEF IInv, InStep, TypeOK, WorkType, StartQuick, DirtyGit, QuickPath, Invoke,
             Advance, LifecyclePhases, Commands
    <3>4. HistType'
      BY <1>2, <2>3, InvokeHist DEF IInv, InStep, TypeOK, StartQuick, DirtyGit
    <3>5. pc' = "invoke" /\ cmd' = "quick" /\ goal' = goal /\ sm' = "executing_plan"
      BY <1>2, <2>3 DEF StartQuick, DirtyGit, QuickPath, Goto, Invoke, Advance
    <3>6. GoalInHand' /\ CommandInHand' /\ MachineInStep'
      BY <2>1, <3>5
         DEF GoalInHand, CommandInHand, MachineInStep, Running, PhaseOf, Commands
    <3>7. QED
      BY <3>1, <3>2, <3>3, <3>4, <3>6 DEF InStep, TypeOK
  <2>4. QED
    BY <2>2, <2>3
<1>6. CASE InitProject
  <2>1. goal \in GoalTitles /\ sm = "new"
    BY <1>6 DEF IInv, InStep, GoalInHand, MachineInStep, InitProject
  <2>2. DiskType' /\ ProcType'
    BY <1>6 DEF IInv, InStep, TypeOK, DiskType, ProcType, disk, Labels, InitProject,
                Goto, Invoke
  <2>3. WorkType'
    BY <1>6 DEF IInv, InStep, TypeOK, WorkType, InitProject, Invoke, Commands
  <2>4. HistType'
    BY <1>6, InvokeHist DEF IInv, InStep, TypeOK, HistType, hist, notes, InitProject
  <2>5. /\ goal' = goal /\ sm' = sm
        /\ \/ pc' = "initialized"
           \/ pc' = "invoke" /\ cmd' = "new-project"
    BY <1>6 DEF InitProject, Goto, Invoke
  <2>6. GoalInHand' /\ CommandInHand' /\ MachineInStep'
    BY <2>1, <2>5 DEF GoalInHand, CommandInHand, MachineInStep, Running, PhaseOf, Commands
  <2>7. QED
    BY <2>2, <2>3, <2>4, <2>6 DEF InStep, TypeOK
<1>3. CASE EnterResume
  <2>1. DiskType'
    BY <1>3
       DEF IInv, InStep, TypeOK, DiskType, disk, EnterResume, FailGoal, EndFailed, Pointers,
           WriteStateMd, StateMds, StateStatuses
  <2>2. ProcType'
    BY <1>3
       DEF IInv, InStep, TypeOK, ProcType, Labels, EnterResume, FailGoal, EndFailed, Pointers,
           Goto
  <2>3. WorkType'
    BY <1>3
       DEF IInv, InStep, TypeOK, WorkType, ProcType, EnterResume, FailGoal, EndFailed,
           Pointers, Advance, LifecyclePhases
  <2>4. HistType'
    BY <1>3
       DEF IInv, InStep, TypeOK, HistType, hist, notes, EnterResume, FailGoal, EndFailed
  <2>5. GoalInHand' /\ CommandInHand' /\ MachineInStep'
    BY <1>3
       DEF IInv, InStep, GoalInHand, CommandInHand, MachineInStep, Running, EnterResume,
           FailGoal, EndFailed, Goto, Advance
  <2>6. QED
    BY <2>1, <2>2, <2>3, <2>4, <2>5 DEF IInv, InStep, TypeOK
<1>4. CASE FastForward
  <2>1. goal \in GoalTitles
    BY <1>4 DEF IInv, InStep, GoalInHand, FastForward
  <2>2. CASE ReturnOnShutdown
    BY <2>1, <2>2, ReturnInStep
  <2>3. CASE Throw
    BY <2>1, <2>3, ThrowInStep
  <2>4. CASE ~ReturnOnShutdown /\ ~Throw
    <3>1. pc = "fastforward" /\ cur \in Nat /\ cur >= 1
      BY <1>4 DEF IInv, InStep, TypeOK, WorkType, MachineInStep, FastForward
    <3>2. UNCHANGED <<disk, shuttingDown, resume, hist, queue, late, goal, attempt,
                      plannedUpTo, cmd, outcome>>
      BY <1>4, <2>4 DEF FastForward, FailGoal, EndFailed
    <3>3. \/ pc' = "ended" /\ sm' = "failed" /\ UNCHANGED <<cur, target>>
          \/ pc' = "plan" /\ Advance(FastForwardPath(cur)) /\ cur' = cur /\ target' \in Nat
          \/ /\ pc' = "phase" /\ Advance(Append(FastForwardPath(cur), "phase_complete"))
             /\ cur' = cur + 1 /\ target' = 0
      BY <1>4, <2>4, <3>1, RoadmapAssumption DEF FastForward, FailGoal, EndFailed, Goto, Phases
    <3>4. \/ pc' = "ended" /\ sm' = "failed" /\ UNCHANGED <<cur, target>>
          \/ pc' = "plan" /\ sm' = "planning_phase" /\ cur' = cur /\ target' \in Nat
          \/ pc' = "phase" /\ sm' = "phase_complete" /\ cur' = cur + 1 /\ target' = 0
      BY <3>1, <3>3, FastForwardEnd DEF Advance
    <3>5. DiskType' /\ HistType'
      BY <3>2 DEF IInv, InStep, TypeOK, DiskType, HistType, disk, hist, notes
    <3>6. ProcType'
      BY <3>2, <3>4 DEF IInv, InStep, TypeOK, ProcType, Labels
    <3>7. WorkType'
      BY <3>1, <3>2, <3>4 DEF IInv, InStep, TypeOK, WorkType, LifecyclePhases
    <3>8. GoalInHand' /\ CommandInHand'
      BY <2>1, <3>2, <3>4 DEF GoalInHand, CommandInHand, Running
    <3>9. MachineInStep'
      BY <3>1, <3>4 DEF MachineInStep, Running
    <3>10. QED
      BY <3>5, <3>6, <3>7, <3>8, <3>9 DEF IInv, InStep, TypeOK
  <2>5. QED
    BY <2>2, <2>3, <2>4
<1>7. QED
  BY <1>1, <1>2, <1>3, <1>4, <1>6

-----------------------------------------------------------------------------
(* orchestrateGoal: project, roadmap and the phase loop *)

\* So do the steps of the phase loop.
LEMMA PhasesInStep ==
  ASSUME IInv,
         WriteInitialized \/ EnterRoadmap \/ CreateRoadmap \/ WriteRoadmapped \/
         ReadRoadmap \/ PlanPhase \/ WritePlanned \/
         DiscoverPlans \/ CompleteGoal
  PROVE  InStep'
<1>1. CASE WriteInitialized
  <2>1. DiskType'
    BY <1>1
       DEF IInv, InStep, TypeOK, DiskType, WriteInitialized, WriteStateMd, StateMds, StateStatuses
  <2>2. ProcType'
    BY <1>1 DEF IInv, InStep, TypeOK, ProcType, Labels, WriteInitialized, Goto
  <2>3. WorkType'
    BY <1>1 DEF IInv, InStep, TypeOK, WorkType, WriteInitialized, Advance, LifecyclePhases
  <2>4. HistType'
    BY <1>1 DEF IInv, InStep, TypeOK, HistType, hist, notes, WriteInitialized
  <2>5. GoalInHand' /\ CommandInHand' /\ MachineInStep'
    BY <1>1
       DEF IInv, InStep, GoalInHand, CommandInHand, MachineInStep, Running, WriteInitialized,
           Goto, Advance
  <2>6. QED
    BY <2>1, <2>2, <2>3, <2>4, <2>5 DEF IInv, InStep, TypeOK
<1>2. CASE EnterRoadmap
  <2>1. goal \in GoalTitles
    BY <1>2 DEF IInv, InStep, GoalInHand, EnterRoadmap
  <2>2. QED
    BY <1>2, <2>1, PassCheckInStep DEF EnterRoadmap
<1>10. CASE CreateRoadmap
  <2>1. goal \in GoalTitles /\ sm = "initializing_project"
    BY <1>10 DEF IInv, InStep, GoalInHand, MachineInStep, CreateRoadmap
  <2>2. DiskType' /\ ProcType'
    BY <1>10 DEF IInv, InStep, TypeOK, DiskType, ProcType, disk, Labels, CreateRoadmap,
                 Goto, Invoke
  <2>3. WorkType'
    BY <1>10 DEF IInv, InStep, TypeOK, WorkType, CreateRoadmap, Invoke, Commands
  <2>4. HistType'
    BY <1>10, InvokeHist DEF IInv, InStep, TypeOK, HistType, hist, notes, CreateRoadmap
  <2>5. /\ goal' = goal /\ sm' = sm
        /\ \/ pc' = "roadmapped"
           \/ pc' = "invoke" /\ cmd' = "create-roadmap"
    BY <1>10 DEF CreateRoadmap, Goto, Invoke
  <2>6. GoalInHand' /\ CommandInHand' /\ MachineInStep'
    BY <2>1, <2>5 DEF GoalInHand, CommandInHand, MachineInStep, Running, PhaseOf, Commands
  <2>7. QED
    BY <2>2, <2>3, <2>4, <2>6 DEF InStep, TypeOK
<1>3. CASE WriteRoadmapped
  <2>1. DiskType'
    BY <1>3
       DEF IInv, InStep, TypeOK, DiskType, WriteRoadmapped, WriteStateMd, StateMds, StateStatuses
  <2>2. ProcType'
    BY <1>3 DEF IInv, InStep, TypeOK, ProcType, Labels, WriteRoadmapped, Goto
  <2>3. WorkType'
    BY <1>3 DEF IInv, InStep, TypeOK, WorkType, WriteRoadmapped, Advance, LifecyclePhases
  <2>4. HistType'
    BY <1>3 DEF IInv, InStep, TypeOK, HistType, hist, notes, WriteRoadmapped
  <2>5. GoalInHand' /\ CommandInHand' /\ MachineInStep'
    BY <1>3
       DEF IInv, InStep, GoalInHand, CommandInHand, MachineInStep, Running, WriteRoadmapped, Goto,
           Advance
  <2>6. QED
    BY <2>1, <2>2, <2>3, <2>4, <2>5 DEF IInv, InStep, TypeOK
<1>4. CASE ReadRoadmap
  <2>1. goal \in GoalTitles
    BY <1>4 DEF IInv, InStep, GoalInHand, ReadRoadmap
  <2>2. CASE Throw
    BY <2>1, <2>2, ThrowInStep
  <2>3. CASE ~Throw
    <3>1. DiskType'
      BY <1>4, <2>1, <2>3 DEF IInv, InStep, TypeOK, DiskType, disk, ReadRoadmap
    <3>2. ProcType'
      BY <1>4, <2>1, <2>3 DEF IInv, InStep, TypeOK, ProcType, Labels, ReadRoadmap, Goto
    <3>3. WorkType'
      BY <1>4, <2>1, <2>3 DEF IInv, InStep, TypeOK, WorkType, ReadRoadmap
    <3>4. HistType'
      BY <1>4, <2>1, <2>3 DEF IInv, InStep, TypeOK, HistType, hist, notes, ReadRoadmap
    <3>5. GoalInHand' /\ CommandInHand' /\ MachineInStep'
      <4>1. GoalInHand'
        BY <1>4, <2>1, <2>3 DEF GoalInHand, ReadRoadmap, Goto
      <4>2. CommandInHand'
        BY <1>4, <2>1, <2>3
           DEF IInv, InStep, CommandInHand, MachineInStep, Running, ReadRoadmap, Goto
      <4>3. MachineInStep'
        BY <1>4, <2>1, <2>3
           DEF IInv, InStep, TypeOK, CommandInHand, MachineInStep, Running, ReadRoadmap, Goto
      <4>4. QED
        BY <4>1, <4>2, <4>3
    <3>6. QED
      BY <3>1, <3>2, <3>3, <3>4, <3>5 DEF IInv, InStep, TypeOK
  <2>4. QED
    BY <2>2, <2>3
<1>5. CASE PlanPhase
  <2>1. goal \in GoalTitles
    BY <1>5 DEF IInv, InStep, GoalInHand, PlanPhase
  <2>2. CASE ReturnOnShutdown
    BY <2>1, <2>2, ReturnInStep
  <2>3. CASE ~ReturnOnShutdown
    <3>1. DiskType'
      BY <1>5, <2>1, <2>3 DEF IInv, InStep, TypeOK, DiskType, disk, PlanPhase
    <3>2. ProcType'
      BY <1>5, <2>1, <2>3 DEF IInv, InStep, TypeOK, ProcType, Labels, PlanPhase, Goto, Invoke
    <3>3. WorkType'
      BY <1>5, <2>1, <2>3
         DEF IInv, InStep, TypeOK, WorkType, PlanPhase, Invoke, Advance, LifecyclePhases, Commands
    <3>4. HistType'
      BY <1>5, <2>3, InvokeHist DEF IInv, InStep, TypeOK, HistType, hist, notes, PlanPhase
    <3>5. GoalInHand' /\ CommandInHand' /\ MachineInStep'
      <4>1. GoalInHand'
        BY <1>5, <2>1, <2>3 DEF GoalInHand, PlanPhase, Goto, Invoke, Advance
      <4>2. CommandInHand'
        BY <1>5, <2>1, <2>3
           DEF IInv, InStep, CommandInHand, MachineInStep, Running, PhaseOf, Commands, PlanPhase,
               Goto, Invoke, Advance
      <4>3. MachineInStep'
        BY <1>5, <2>1, <2>3
           DEF IInv, InStep, TypeOK, WorkType, CommandInHand, MachineInStep, PlanPhase, Goto,
               Invoke, Advance
      <4>4. QED
        BY <4>1, <4>2, <4>3
    <3>6. QED
      BY <3>1, <3>2, <3>3, <3>4, <3>5 DEF IInv, InStep, TypeOK
  <2>4. QED
    BY <2>2, <2>3
<1>6. CASE WritePlanned
  <2>1. DiskType'
    BY <1>6
       DEF IInv, InStep, TypeOK, DiskType, WorkType, WritePlanned, WriteStateMd, StateMds,
           StateStatuses
  <2>2. ProcType'
    BY <1>6 DEF IInv, InStep, TypeOK, ProcType, Labels, WritePlanned, Goto
  <2>3. WorkType'
    BY <1>6 DEF IInv, InStep, TypeOK, WorkType, WritePlanned
  <2>4. HistType'
    BY <1>6 DEF IInv, InStep, TypeOK, HistType, hist, notes, WritePlanned
  <2>5. GoalInHand' /\ CommandInHand' /\ MachineInStep'
    BY <1>6 DEF IInv, InStep, GoalInHand, CommandInHand, MachineInStep, Running, WritePlanned, Goto
  <2>6. QED
    BY <2>1, <2>2, <2>3, <2>4, <2>5 DEF IInv, InStep, TypeOK
<1>7. CASE DiscoverPlans
  <2>1. goal \in GoalTitles
    BY <1>7 DEF IInv, InStep, GoalInHand, DiscoverPlans
  <2>2. CASE Throw
    BY <2>1, <2>2, ThrowInStep
  <2>3. CASE ~Throw
    <3>1. DiskType'
      BY <1>7, <2>1, <2>3 DEF IInv, InStep, TypeOK, DiskType, disk, DiscoverPlans, EndPhase
    <3>2. ProcType'
      BY <1>7, <2>1, <2>3 DEF IInv, InStep, TypeOK, ProcType, Labels, DiscoverPlans, EndPhase, Goto
    <3>3. WorkType'
      BY <1>7, <2>1, <2>3
         DEF IInv, InStep, TypeOK, WorkType, DiscoverPlans, EndPhase, Advance, LifecyclePhases
    <3>4. HistType'
      BY <1>7, <2>1, <2>3 DEF IInv, InStep, TypeOK, HistType, hist, notes, DiscoverPlans, EndPhase
    <3>5. GoalInHand' /\ CommandInHand' /\ MachineInStep'
      <4>1. GoalInHand'
        BY <1>7, <2>1, <2>3 DEF GoalInHand, DiscoverPlans, EndPhase, Goto, Advance
      <4>2. CommandInHand'
        BY <1>7, <2>1, <2>3
           DEF IInv, InStep, CommandInHand, MachineInStep, Running, DiscoverPlans, EndPhase, Goto,
               Advance
      <4>3. MachineInStep'
        <5>1. cur \in Nat /\ cur >= 1 /\ sm \in {"planning_phase", "executing_plan"}
          BY <1>7, <2>1, <2>3 DEF IInv, InStep, TypeOK, WorkType, MachineInStep, DiscoverPlans
        <5>2. CASE EndPhase
          BY <5>1, <5>2 DEF MachineInStep, EndPhase, Advance, Goto
        <5>3. CASE ~EndPhase
          <6>1. pc' = "plan" /\ cur' = cur /\ sm' = sm
            BY <1>7, <2>1, <2>3, <5>3 DEF DiscoverPlans, Goto
          <6>2. QED
            BY <5>1, <6>1 DEF MachineInStep
        <5>4. QED
          BY <5>2, <5>3
      <4>4. QED
        BY <4>1, <4>2, <4>3
    <3>6. QED
      BY <3>1, <3>2, <3>3, <3>4, <3>5 DEF IInv, InStep, TypeOK
  <2>4. QED
    BY <2>2, <2>3
<1>8. CASE CompleteGoal
  <2>1. goal \in GoalTitles
    BY <1>8 DEF IInv, InStep, GoalInHand, CompleteGoal
  <2>2. CASE Throw
    BY <2>1, <2>2, ThrowInStep
  <2>3. CASE ~Throw
    <3>1. DiskType'
      BY <1>8, <2>1, <2>3, RoadmapAssumption
         DEF IInv, InStep, TypeOK, DiskType, CompleteGoal, WriteStateMd, StateMds, StateStatuses
    <3>2. ProcType'
      BY <1>8, <2>1, <2>3 DEF IInv, InStep, TypeOK, ProcType, Labels, CompleteGoal, Goto
    <3>3. WorkType'
      BY <1>8, <2>1, <2>3 DEF IInv, InStep, TypeOK, WorkType, CompleteGoal, Advance, LifecyclePhases
    <3>4. HistType'
      BY <1>8, <2>1, <2>3 DEF IInv, InStep, TypeOK, HistType, hist, notes, CompleteGoal
    <3>5. GoalInHand' /\ CommandInHand' /\ MachineInStep'
      <4>1. GoalInHand'
        BY <1>8, <2>1, <2>3 DEF GoalInHand, CompleteGoal, Goto, Advance
      <4>2. CommandInHand'
        BY <1>8, <2>1, <2>3
           DEF IInv, InStep, CommandInHand, MachineInStep, Running, CompleteGoal, Goto, Advance
      <4>3. MachineInStep'
        BY <1>8, <2>1, <2>3
           DEF IInv, InStep, TypeOK, CommandInHand, MachineInStep, Running, CompleteGoal, Goto,
               Advance
      <4>4. QED
        BY <4>1, <4>2, <4>3
    <3>6. QED
      BY <3>1, <3>2, <3>3, <3>4, <3>5 DEF IInv, InStep, TypeOK
  <2>4. QED
    BY <2>2, <2>3
<1>9. QED
  BY <1>1, <1>2, <1>3, <1>4, <1>5, <1>6, <1>7, <1>8, <1>10

-----------------------------------------------------------------------------
(* runPlan *)

\* So do the steps of runPlan and of the verification.
LEMMA PlansInStep ==
  ASSUME IInv,
         RunPlan \/ StartPlan \/ RejectPlanFile \/ VerifyPasses \/ VerifyFails \/
         WriteExecuted
  PROVE  InStep'
<1>1. CASE RunPlan
  <2>1. goal \in GoalTitles
    BY <1>1 DEF IInv, InStep, GoalInHand, RunPlan
  <2>2. QED
    BY <1>1, <2>1, PassCheckInStep DEF RunPlan
<1>7. CASE StartPlan
  <2>1. goal \in GoalTitles
    BY <1>7 DEF IInv, InStep, GoalInHand, StartPlan
  <2>2. CASE Throw
    BY <2>1, <2>2, ThrowInStep
  <2>3. CASE ~Throw
    <3>1. DiskType' /\ ProcType'
      BY <1>7, <2>3 DEF IInv, InStep, TypeOK, DiskType, ProcType, disk, Labels, StartPlan,
                        DirtyGit, Goto, Invoke
    <3>2. WorkType'
      BY <1>7, <2>3 DEF IInv, InStep, TypeOK, WorkType, StartPlan, DirtyGit, Invoke,
                        Advance, LifecyclePhases, Commands
    <3>3. HistType'
      BY <1>7, <2>3, InvokeHist DEF IInv, InStep, TypeOK, StartPlan, DirtyGit
    <3>4. /\ pc' = "invoke" /\ cmd' = "execute-plan" /\ goal' = goal /\ cur' = cur
          /\ sm' = "executing_plan" /\ cur >= 1
      BY <1>7, <2>3 DEF IInv, InStep, MachineInStep, StartPlan, DirtyGit, Goto, Invoke,
                        Advance
    <3>5. GoalInHand' /\ CommandInHand' /\ MachineInStep'
      BY <2>1, <3>4 DEF GoalInHand, CommandInHand, MachineInStep, Running, PhaseOf, Commands
    <3>6. QED
      BY <3>1, <3>2, <3>3, <3>5 DEF InStep, TypeOK
  <2>4. QED
    BY <2>2, <2>3
<1>2. CASE RejectPlanFile
  <2>1. goal \in GoalTitles
    BY <1>2 DEF IInv, InStep, GoalInHand, RejectPlanFile
  <2>2. log' \in Seq(Entries) /\ lost' \in Nat
    <3> DEFINE e == [ goal |-> goal, cmd |-> "execute-plan", phase |-> cur,
                      plan |-> target, status |-> "skipped" ]
    <3>1. e \in Entries
      BY <2>1 DEF IInv, InStep, TypeOK, WorkType, Entries, Commands, TerminalStatuses
    <3>2. AppendLog(e)
      BY <1>2 DEF RejectPlanFile
    <3> HIDE DEF e
    <3>3. QED
      BY <3>1, <3>2, AppendLogType DEF IInv, InStep, TypeOK, DiskType, HistType
  <2>3. DiskType' /\ HistType'
    BY <1>2, <2>2 DEF IInv, InStep, TypeOK, DiskType, HistType, notes, RejectPlanFile
  <2>4. QED
    BY <1>2, <2>1, <2>3, FailGoalParts DEF IInv, InStep, TypeOK, ProcType, RejectPlanFile
<1>3. CASE VerifyPasses
  <2>0. goal \in GoalTitles
    BY <1>3 DEF IInv, InStep, GoalInHand, VerifyPasses
  <2>1. DiskType'
    BY <1>3, <2>0
       DEF IInv, InStep, TypeOK, DiskType, VerifyPasses, WriteStateMd, StateMds, StateStatuses
  <2>2. ProcType'
    BY <1>3, <2>0 DEF IInv, InStep, TypeOK, ProcType, Labels, VerifyPasses, Goto
  <2>3. WorkType'
    BY <1>3, <2>0 DEF IInv, InStep, TypeOK, WorkType, VerifyPasses, Advance, LifecyclePhases
  <2>4. HistType'
    BY <1>3, <2>0 DEF IInv, InStep, TypeOK, HistType, WorkType, VerifyPasses
  <2>5. GoalInHand' /\ CommandInHand' /\ MachineInStep'
    BY <1>3, <2>0
       DEF IInv, InStep, GoalInHand, CommandInHand, MachineInStep, Running, VerifyPasses, Goto,
           Advance
  <2>6. QED
    BY <2>1, <2>2, <2>3, <2>4, <2>5 DEF IInv, InStep, TypeOK
<1>4. CASE VerifyFails
  <2>1. goal \in GoalTitles
    BY <1>4 DEF IInv, InStep, GoalInHand, VerifyFails
  <2>2. log' \in Seq(Entries) /\ lost' \in Nat
    <3>1. cmd \in Commands
      BY <1>4 DEF IInv, InStep, CommandInHand, Commands, VerifyFails
    <3>2. CallEntry("verify-failed") \in Entries
      BY <1>4, <2>1, <3>1, CallEntryType DEF IInv, InStep, TypeOK, TerminalStatuses, VerifyFails
    <3>3. QED
      BY <1>4, <3>2, AppendLogType DEF IInv, InStep, TypeOK, DiskType, HistType, notes, VerifyFails
  <2>3. DiskType' /\ HistType'
    BY <1>4, <2>2 DEF IInv, InStep, TypeOK, DiskType, HistType, notes, VerifyFails
  <2>4. queue' \in Seq(GoalTitles)
    <3>1. FixTitle \in GoalTitles
      BY <1>4, FixAssumption
         DEF IInv, InStep, CommandInHand, InRoadmap, VerifyFails, FixTitle, Phases
    <3>2. QED
      BY <1>4, <3>1 DEF IInv, InStep, TypeOK, ProcType, VerifyFails, AddToQueue
  <2>5. QED
    BY <1>4, <2>1, <2>3, <2>4, EndFailedParts
       DEF IInv, InStep, TypeOK, ProcType, VerifyFails
<1>5. CASE WriteExecuted
  <2>1. DiskType'
    BY <1>5
       DEF IInv, InStep, TypeOK, DiskType, WorkType, WriteExecuted, WriteStateMd, StateMds,
           StateStatuses
  <2>2. ProcType'
    BY <1>5 DEF IInv, InStep, TypeOK, ProcType, Labels, WriteExecuted, Goto
  <2>3. WorkType'
    BY <1>5 DEF IInv, InStep, TypeOK, WorkType, work, WriteExecuted
  <2>4. HistType'
    BY <1>5 DEF IInv, InStep, TypeOK, HistType, hist, notes, WriteExecuted
  <2>5. GoalInHand' /\ CommandInHand' /\ MachineInStep'
    BY <1>5
       DEF IInv, InStep, GoalInHand, CommandInHand, MachineInStep, Running, work, WriteExecuted,
           Goto
  <2>6. QED
    BY <2>1, <2>2, <2>3, <2>4, <2>5 DEF IInv, InStep, TypeOK
<1>6. QED
  BY <1>1, <1>2, <1>3, <1>4, <1>5, <1>7

-----------------------------------------------------------------------------
(* The agent invoker and its agent *)

\* So do the steps of the invoker: each command is run in its phase of the state
\* machine, and its outcome leads to the place after it.
LEMMA AgentInStep ==
  ASSUME IInv,
         BeginAgent \/ Tick \/ AgentWorks \/ AgentEnds \/
         AgentSucceeded \/ AgentFailed \/ AgentRejected \/ LateAppend
  PROVE  InStep'
<1>1. CASE BeginAgent
  <2>1. goal \in GoalTitles
    BY <1>1 DEF IInv, InStep, GoalInHand, BeginAgent
  <2>2. log' \in Seq(Entries) /\ lost' \in Nat
    <3>1. cmd \in Commands
      BY <1>1 DEF IInv, InStep, CommandInHand, Running, BeginAgent
    <3>2. CallEntry("running") \in Entries
      BY <1>1, <2>1, <3>1, CallEntryType DEF IInv, InStep, TypeOK, TerminalStatuses, BeginAgent
    <3>3. QED
      BY <1>1, <3>2, AppendLogType DEF IInv, InStep, TypeOK, DiskType, HistType, notes, BeginAgent
  <2>3. DiskType' /\ HistType'
    BY <1>1, <2>2 DEF IInv, InStep, TypeOK, DiskType, HistType, notes, BeginAgent
  <2>4. ProcType'
    BY <1>1 DEF IInv, InStep, TypeOK, ProcType, BeginAgent, Goto, Labels
  <2>5. WorkType'
    BY <1>1 DEF IInv, InStep, TypeOK, WorkType, BeginAgent, work
  <2>6. GoalInHand' /\ CommandInHand' /\ MachineInStep'
    BY <1>1, <2>1
       DEF IInv, InStep, GoalInHand, CommandInHand, MachineInStep, Running, BeginAgent, Goto, work
  <2>7. QED
    BY <2>3, <2>4, <2>5, <2>6 DEF IInv, InStep, TypeOK
<1>2. CASE Tick
  <2>1. DiskType'
    BY <1>2 DEF IInv, InStep, TypeOK, DiskType, Tick
  <2>2. ProcType'
    BY <1>2 DEF IInv, InStep, TypeOK, ProcType, Labels, Tick, Goto
  <2>3. WorkType'
    BY <1>2 DEF IInv, InStep, TypeOK, WorkType, work, Tick
  <2>4. HistType'
    BY <1>2 DEF IInv, InStep, TypeOK, HistType, hist, notes, Tick
  <2>5. GoalInHand' /\ CommandInHand' /\ MachineInStep'
    BY <1>2 DEF IInv, InStep, GoalInHand, CommandInHand, MachineInStep, Running, work, Tick, Goto
  <2>6. QED
    BY <2>1, <2>2, <2>3, <2>4, <2>5 DEF IInv, InStep, TypeOK
<1>3. CASE AgentWorks
  <2>1. DiskType'
    <3>1. dirs' \in [Phases -> 0..2]
      BY <1>3, RoadmapAssumption DEF IInv, InStep, TypeOK, DiskType, AgentWorks
    <3>2. project' \in BOOLEAN /\ roadmap' \in BOOLEAN
      BY <1>3 DEF IInv, InStep, TypeOK, DiskType, AgentWorks
    <3>3. QED
      BY <1>3, <3>1, <3>2 DEF IInv, InStep, TypeOK, DiskType, AgentWorks
  <2>2. ProcType'
    BY <1>3 DEF IInv, InStep, TypeOK, ProcType, proc, AgentWorks
  <2>3. WorkType'
    BY <1>3 DEF IInv, InStep, TypeOK, WorkType, work, AgentWorks
  <2>4. HistType'
    BY <1>3 DEF IInv, InStep, TypeOK, HistType, hist, notes, AgentWorks
  <2>5. GoalInHand' /\ CommandInHand' /\ MachineInStep'
    BY <1>3
       DEF IInv, InStep, GoalInHand, CommandInHand, MachineInStep, Running, proc, work, AgentWorks
  <2>6. QED
    BY <2>1, <2>2, <2>3, <2>4, <2>5 DEF IInv, InStep, TypeOK
<1>4. CASE AgentEnds
  <2>1. DiskType'
    BY <1>4 DEF IInv, InStep, TypeOK, DiskType, AgentEnds
  <2>2. ProcType'
    BY <1>4 DEF IInv, InStep, TypeOK, ProcType, Labels, AgentEnds, Goto
  <2>3. WorkType'
    BY <1>4, ConfigAssumption DEF IInv, InStep, TypeOK, WorkType, AgentEnds
  <2>4. HistType'
    BY <1>4 DEF IInv, InStep, TypeOK, HistType, hist, notes, AgentEnds
  <2>5. GoalInHand' /\ CommandInHand' /\ MachineInStep'
    BY <1>4 DEF IInv, InStep, GoalInHand, CommandInHand, MachineInStep, Running, AgentEnds, Goto
  <2>6. QED
    BY <2>1, <2>2, <2>3, <2>4, <2>5 DEF IInv, InStep, TypeOK
<1>5. CASE AgentSucceeded
  <2>1. goal \in GoalTitles
    BY <1>5 DEF IInv, InStep, GoalInHand, AgentSucceeded
  <2>2. log' \in Seq(Entries) /\ lost' \in Nat
    <3>1. cmd \in Commands
      BY <1>5 DEF IInv, InStep, CommandInHand, Running, AgentSucceeded
    <3>2. CallEntry("done") \in Entries
      BY <1>5, <2>1, <3>1, CallEntryType DEF IInv, InStep, TypeOK, TerminalStatuses, AgentSucceeded
    <3>3. QED
      BY <1>5, <3>2, AppendLogType DEF IInv, InStep, TypeOK, DiskType, HistType, notes, AgentSucceeded
  <2>3. DiskType' /\ HistType'
    BY <1>5, <2>2 DEF IInv, InStep, TypeOK, DiskType, HistType, notes, AgentSucceeded
  <2>4. ProcType'
    BY <1>5 DEF IInv, InStep, TypeOK, ProcType, AgentSucceeded, Goto, Labels, After
  <2>5. WorkType'
    BY <1>5 DEF IInv, InStep, TypeOK, WorkType, AgentSucceeded
  <2>6. GoalInHand' /\ CommandInHand' /\ MachineInStep'
    BY <1>5, <2>1
       DEF IInv, InStep, GoalInHand, CommandInHand, MachineInStep, Running, PhaseOf,
           AgentSucceeded, Goto, After, Commands
  <2>7. QED
    BY <2>3, <2>4, <2>5, <2>6 DEF IInv, InStep, TypeOK
<1>6. CASE AgentFailed
  <2>1. goal \in GoalTitles
    BY <1>6 DEF IInv, InStep, GoalInHand, AgentFailed
  <2>2. log' \in Seq(Entries) /\ lost' \in Nat
    <3>1. cmd \in Commands
      BY <1>6 DEF IInv, InStep, CommandInHand, Running, AgentFailed
    <3>2. CallEntry(outcome) \in Entries
      BY <1>6, <2>1, <3>1, CallEntryType DEF IInv, InStep, TypeOK, TerminalStatuses, AgentFailed
    <3>3. QED
      BY <1>6, <3>2, AppendLogType DEF IInv, InStep, TypeOK, DiskType, HistType, notes, AgentFailed
  <2>3. DiskType' /\ HistType'
    BY <1>6, <2>2 DEF IInv, InStep, TypeOK, DiskType, HistType, notes, AgentFailed
  <2>4. QED
    BY <1>6, <2>1, <2>3, FailGoalParts DEF IInv, InStep, TypeOK, ProcType, AgentFailed
<1>7. CASE AgentRejected
  <2>1. goal \in GoalTitles /\ cmd \in Commands
    BY <1>7 DEF IInv, InStep, GoalInHand, CommandInHand, Running, AgentRejected
  <2>2. late' \in SUBSET Entries
    <3>1. CallEntry("crashed") \in Entries
      BY <2>1, CallEntryType DEF IInv, InStep, TypeOK, TerminalStatuses
    <3>2. QED
      BY <1>7, <3>1 DEF IInv, InStep, TypeOK, ProcType, AgentRejected
  <2>3. DiskType' /\ HistType'
    BY <1>7 DEF IInv, InStep, TypeOK, DiskType, HistType, AgentRejected, disk, hist, notes
  <2>4. QED
    BY <1>7, <2>1, <2>2, <2>3, FailGoalParts DEF IInv, InStep, TypeOK, ProcType, AgentRejected
<1>8. CASE LateAppend
  <2>1. log' \in Seq(Entries) /\ lost' \in Nat
    BY <1>8, AppendLogType DEF IInv, InStep, TypeOK, DiskType, HistType, ProcType, LateAppend
  <2>2. ProcType'
    BY <1>8 DEF IInv, InStep, TypeOK, ProcType, LateAppend
  <2>3. WorkType'
    BY <1>8 DEF IInv, InStep, TypeOK, WorkType, work, LateAppend
  <2>4. DiskType' /\ HistType'
    BY <1>8, <2>1 DEF IInv, InStep, TypeOK, DiskType, HistType, notes, LateAppend
  <2>5. GoalInHand' /\ CommandInHand' /\ MachineInStep'
    BY <1>8 DEF IInv, InStep, GoalInHand, CommandInHand, MachineInStep, Running, work, LateAppend
  <2>6. QED
    BY <2>1, <2>2, <2>3, <2>4, <2>5 DEF IInv, InStep, TypeOK
<1>9. QED
  BY <1>1, <1>2, <1>3, <1>4, <1>5, <1>6, <1>7, <1>8

-----------------------------------------------------------------------------
(* The environment *)

\* So do agents, signals, crashes and the operator.
LEMMA EnvironmentInStep ==
  ASSUME IInv,
         Signal \/ Crash \/ Unpause \/ Over \/ UNCHANGED vars
  PROVE  InStep'
<1>1. CASE Signal
  <2>1. DiskType'
    BY <1>1 DEF IInv, InStep, TypeOK, DiskType, disk, Signal
  <2>2. ProcType'
    BY <1>1 DEF IInv, InStep, TypeOK, ProcType, Signal
  <2>3. WorkType'
    BY <1>1 DEF IInv, InStep, TypeOK, WorkType, work, Signal
  <2>4. HistType'
    BY <1>1 DEF IInv, InStep, TypeOK, HistType, hist, notes, Signal
  <2>5. GoalInHand' /\ CommandInHand' /\ MachineInStep'
    BY <1>1 DEF IInv, InStep, GoalInHand, CommandInHand, MachineInStep, Running, work, Signal
  <2>6. QED
    BY <2>1, <2>2, <2>3, <2>4, <2>5 DEF IInv, InStep, TypeOK
<1>2. CASE Crash
  BY <1>2, GoneInStep
     DEF Crash, IInv, InStep, TypeOK, DiskType, NoStateMd, StateMds, StateStatuses
<1>3. CASE Unpause
  <2>1. DiskType'
    BY <1>3 DEF IInv, InStep, TypeOK, DiskType, Unpause
  <2>2. ProcType'
    BY <1>3 DEF IInv, InStep, TypeOK, ProcType, proc, Unpause
  <2>3. WorkType'
    BY <1>3 DEF IInv, InStep, TypeOK, WorkType, work, Unpause
  <2>4. HistType'
    BY <1>3 DEF IInv, InStep, TypeOK, HistType, hist, notes, Unpause
  <2>5. GoalInHand' /\ CommandInHand' /\ MachineInStep'
    BY <1>3 DEF IInv, InStep, GoalInHand, CommandInHand, MachineInStep, Running, proc, work, Unpause
  <2>6. QED
    BY <2>1, <2>2, <2>3, <2>4, <2>5 DEF IInv, InStep, TypeOK
<1>4. CASE Over \/ UNCHANGED vars
  <2>1. UNCHANGED <<disk, proc, work, hist>>
    BY <1>4 DEF Over, vars
  <2>2. DiskType' /\ HistType'
    BY <2>1 DEF IInv, InStep, TypeOK, DiskType, HistType, disk, hist, notes
  <2>3. ProcType' /\ WorkType'
    BY <2>1 DEF IInv, InStep, TypeOK, ProcType, WorkType, proc, work
  <2>4. GoalInHand' /\ CommandInHand' /\ MachineInStep'
    BY <2>1 DEF IInv, InStep, GoalInHand, CommandInHand, MachineInStep, Running, proc, work
  <2>5. QED
    BY <2>2, <2>3, <2>4 DEF IInv, InStep, TypeOK
<1>5. QED
  BY <1>1, <1>2, <1>3, <1>4

-----------------------------------------------------------------------------
(* The plan in hand *)

\* Every step keeps the plan in hand within the roadmap.
LEMMA NextInRoadmap ==
  ASSUME IInv, [Next]_vars
  PROVE  InRoadmap'
<1> USE DEF Goto, Running
<1>1. CASE Throw \/ ReturnOnShutdown \/ FailGoal \/ EndFailed
  BY <1>1 DEF Throw, ReturnOnShutdown, FailGoal, EndFailed, InRoadmap
<1>2. CASE Launch \/ LoadGoals \/ DetectCrash \/ ComputeResume
  BY <1>2 DEF Launch, LoadGoals, DetectCrash, ComputeResume, InRoadmap
<1>3. ASSUME NEW how, Gone(how) PROVE InRoadmap'
  BY <1>3 DEF Gone, InRoadmap
<1>4. CASE Refuse \/ Crash
  BY <1>3, <1>4 DEF Refuse, Crash, Down
<1>5. CASE Worker
  BY <1>3, <1>5 DEF Worker, WorkerLoop, TakeGoal, BeginGoal, LeavePause, EndGoal, Stop,
                    Finish, Down, InRoadmap
<1>6. CASE EnterQuick \/ EnterNormal \/ EnterRoadmap
  BY <1>6 DEF EnterQuick, EnterNormal, EnterRoadmap, PassCheck, InRoadmap, work
<1>7. CASE StartQuick
  BY <1>1, <1>7 DEF StartQuick, DirtyGit, Invoke, IInv, InRoadmap
<1>8. CASE InitProject \/ CreateRoadmap
  BY <1>8 DEF InitProject, CreateRoadmap, Invoke, InRoadmap
<1>9. CASE EnterResume
  BY <1>1, <1>9, RoadmapAssumption
     DEF EnterResume, IInv, InStep, TypeOK, ProcType, Pointers, InRoadmap, Phases
<1>10. CASE FastForward
  BY <1>1, <1>10 DEF FastForward, IInv, InRoadmap
<1>11. CASE WriteInitialized \/ WriteRoadmapped \/ ReadRoadmap \/ CompleteGoal
  BY <1>1, <1>11 DEF WriteInitialized, WriteRoadmapped, ReadRoadmap, CompleteGoal,
                     InRoadmap
<1>12. CASE PlanPhase
  <2>1. CASE ~ReturnOnShutdown
    <3>1. cur \in Phases
      BY <1>12, <2>1, RoadmapAssumption
         DEF PlanPhase, IInv, InStep, TypeOK, WorkType, MachineInStep, Phases
    <3>2. QED
      BY <1>12, <2>1, <3>1 DEF PlanPhase, Invoke, InRoadmap
  <2>2. QED
    BY <1>1, <2>1
<1>13. CASE WritePlanned \/ DiscoverPlans
  BY <1>1, <1>13 DEF WritePlanned, DiscoverPlans, EndPhase, IInv, InRoadmap
<1>14. CASE RunPlan
  BY <1>14 DEF RunPlan, PassCheck, work, IInv, InRoadmap
<1>15. CASE StartPlan
  BY <1>1, <1>15 DEF StartPlan, DirtyGit, Invoke, IInv, InRoadmap
<1>16. CASE RejectPlanFile \/ VerifyFails \/ AgentFailed \/ AgentRejected
  BY <1>1, <1>16 DEF RejectPlanFile, VerifyFails, AgentFailed, AgentRejected, FailGoal
<1>17. CASE VerifyPasses
  BY <1>17 DEF VerifyPasses, IInv, InStep, CommandInHand, InRoadmap
<1>18. CASE WriteExecuted
  BY <1>18 DEF WriteExecuted, work, IInv, InRoadmap
<1>19. CASE BeginAgent \/ Tick \/ AgentEnds
  BY <1>19 DEF BeginAgent, Tick, AgentEnds, work, IInv, InRoadmap
<1>20. CASE AgentSucceeded
  BY <1>20 DEF AgentSucceeded, After, IInv, InStep, CommandInHand, Commands, InRoadmap
<1>21. CASE LateAppend \/ AgentWorks \/ Signal \/ Unpause \/ UNCHANGED vars
  BY <1>21 DEF LateAppend, AgentWorks, Signal, Unpause, vars, proc, work, IInv, InRoadmap
<1>22. QED
  BY <1>2, <1>4, <1>5, <1>6, <1>7, <1>8, <1>9, <1>10, <1>11, <1>12, <1>13, <1>14, <1>15,
     <1>16, <1>17, <1>18, <1>19, <1>20, <1>21
     DEF Next, DaemonStep, Orchestrate, Agent, Over

-----------------------------------------------------------------------------
(* The theorems *)

\* The invariant is inductive.
LEMMA NextIInv == IInv /\ [Next]_vars => IInv'
<1>1. IInv /\ [Next]_vars => InStep'
  BY BootInStep, WorkerInStep, EntryInStep, PhasesInStep, PlansInStep, AgentInStep,
     EnvironmentInStep DEF Next, DaemonStep, Orchestrate, Agent
<1>2. QED
  BY <1>1, NextInRoadmap DEF IInv

\* It holds in every state, through any number of crashes and restarts.
THEOREM IInvInvariant == Spec => []IInv
BY InitIInv, NextIInv, PTL DEF Spec

\* Every variable keeps its type, whatever crashes, signals and failures come.
THEOREM Typing == Spec => []TypeOK
<1>1. IInv => TypeOK
  BY DEF IInv, InStep
<1>2. QED
  BY <1>1, IInvInvariant, PTL

\* The path of a fast-forward follows the table of transitions.
LEMMA FastForwardLegal ==
  ASSUME NEW n \in Nat, n >= 1
  PROVE  /\ LegalPath("creating_roadmap", FastForwardPath(n))
         /\ LegalPath("creating_roadmap", Append(FastForwardPath(n), "phase_complete"))
<1> DEFINE path == FastForwardPath(n)
           k == 2 * n - 1
<1>1. k \in Nat /\ k >= 1
  OBVIOUS
<1>2. /\ path \in Seq(LifecyclePhases) /\ Len(path) = k
      /\ \A i \in 1..k : path[i] = IF i % 2 = 1 THEN "planning_phase"
                                             ELSE "phase_complete"
  <2>1. path \in [1..k -> LifecyclePhases]
    BY DEF FastForwardPath, LifecyclePhases
  <2>2. QED
    BY <1>1, <2>1 DEF FastForwardPath
<1> HIDE DEF path
<1>3. ASSUME NEW i \in 1..k
      PROVE  path[i] \in Transitions[IF i = 1 THEN "creating_roadmap" ELSE path[i - 1]]
  <2>1. CASE i = 1
    BY <1>1, <1>2, <2>1 DEF Transitions
  <2>2. CASE i > 1 /\ i % 2 = 1
    <3>1. i - 1 \in 1..k /\ (i - 1) % 2 = 0
      BY <1>1, <2>2
    <3>2. QED
      BY <1>1, <1>2, <2>2, <3>1 DEF Transitions
  <2>3. CASE i > 1 /\ i % 2 = 0
    <3>1. i - 1 \in 1..k /\ (i - 1) % 2 = 1
      BY <1>1, <2>3
    <3>2. QED
      BY <1>1, <1>2, <2>3, <3>1 DEF Transitions
  <2>4. QED
    BY <1>1, <2>1, <2>2, <2>3
<1>4. LegalPath("creating_roadmap", path)
  BY <1>2, <1>3 DEF LegalPath
<1>5. LegalPath("creating_roadmap", Append(path, "phase_complete"))
  <2> DEFINE longer == Append(path, "phase_complete")
  <2>1. /\ Len(longer) = k + 1 /\ longer[k + 1] = "phase_complete"
        /\ \A i \in 1..k : longer[i] = path[i]
    BY <1>1, <1>2
  <2>2. path[k] = "planning_phase"
    <3>1. k % 2 = 1
      OBVIOUS
    <3>2. QED
      BY <1>1, <1>2, <3>1
  <2> HIDE DEF longer
  <2>3. ASSUME NEW i \in 1..(k + 1)
        PROVE  longer[i] \in Transitions[IF i = 1 THEN "creating_roadmap" ELSE longer[i - 1]]
    <3>1. CASE i \in 1..k
      BY <1>1, <1>3, <2>1, <3>1
    <3>2. CASE i = k + 1
      BY <1>1, <2>1, <2>2, <3>2 DEF Transitions
    <3>3. QED
      BY <1>1, <3>1, <3>2
  <2>4. QED
    BY <1>1, <2>1, <2>3 DEF LegalPath, longer
<1>6. QED
  BY <1>4, <1>5 DEF path

\* With at least one phase in the roadmap, GoalStateMachine.advance never throws:
\* on every route, after every crash and retry, the transition is in the table.
THEOREM AdvancesNeverThrow ==
  ASSUME NumPhases >= 1
  PROVE  Spec => []AdvancesLegal
<1>1. ASSUME IInv PROVE AdvancesLegal
  <2> SUFFICES ASSUME NEW path \in RequestedAdvances PROVE LegalPath(sm, path)
    BY DEF AdvancesLegal
  <2>1. cur \in Nat /\ NumPhases \in Nat
    BY <1>1, RoadmapAssumption DEF IInv, InStep, TypeOK, WorkType
  <2>2. CASE pc \in {"goal", "quick"}
    <3>1. path = QuickPath \/ path = <<"initializing_project", "creating_roadmap">>
      BY <2>2 DEF RequestedAdvances
    <3>2. sm = "new"
      BY <1>1, <2>2 DEF IInv, InStep, MachineInStep
    <3>3. QED
      BY <3>1, <3>2 DEF LegalPath, Transitions, QuickPath
  <2>3. CASE pc = "fastforward"
    <3>1. \/ path = FastForwardPath(cur)
          \/ path = Append(FastForwardPath(cur), "phase_complete")
      BY <2>3 DEF RequestedAdvances
    <3>2. sm = "creating_roadmap" /\ cur >= 1
      BY <1>1, <2>3 DEF IInv, InStep, MachineInStep
    <3>3. QED
      BY <2>1, <3>1, <3>2, FastForwardLegal
  <2>4. CASE pc \in {"initialized", "roadmapped", "discover", "preflight", "phase"}
    <3>1. path = << CASE pc = "initialized" -> "initializing_project"
                      [] pc = "roadmapped"  -> "creating_roadmap"
                      [] pc = "discover"    -> "phase_complete"
                      [] pc = "preflight"   -> "executing_plan"
                      [] OTHER -> IF cur > NumPhases THEN "complete"
                                                     ELSE "planning_phase" >>
      BY <2>4 DEF RequestedAdvances
    <3>2. QED
      BY <1>1, <2>1, <2>4, <3>1 DEF IInv, InStep, MachineInStep, LegalPath, Transitions
  <2>5. CASE pc = "verify"
    <3>1. path = <<"phase_complete", "complete">>
      BY <2>5 DEF RequestedAdvances
    <3>2. sm = "executing_plan"
      BY <1>1, <2>5 DEF IInv, InStep, CommandInHand
    <3>3. QED
      BY <3>1, <3>2 DEF LegalPath, Transitions
  <2>6. QED
    BY <2>2, <2>3, <2>4, <2>5 DEF RequestedAdvances
<1>2. QED
  BY <1>1, IInvInvariant, PTL

\* The commands handed over since the signal: none without a signal, and after one
\* that was handed over the process is not where it would hand over the next
\* without a look at the flag.
Unchecked == {"quick", "init", "create", "preflight"}

HandedInv ==
  /\ handed \in Nat /\ handed <= 1
  /\ handed = 1 => shuttingDown /\ pc \notin Unchecked
  /\ pc = "down" => handed = 0

\* After a shutdown signal at most one command is handed to an agent, the one that
\* had passed its check before, through any route, retry and goal.
THEOREM OneRunAfterShutdown == Spec => []AtMostOneRunAfterSignal
<1>1. Init => HandedInv
  BY DEF Init, HandedInv
<1>2. ASSUME HandedInv, [Next]_vars PROVE HandedInv'
  <2> USE DEF Goto, HandedInv, Unchecked
  <2>1. CASE handed' = handed /\ shuttingDown' = shuttingDown /\ pc # "down"
             /\ pc' \notin Unchecked \cup {"down"}
    BY <1>2, <2>1
  <2>2. ASSUME NEW how, Gone(how) PROVE HandedInv'
    BY <2>2 DEF Gone
  <2>3. CASE Launch
    BY <1>2, <2>3 DEF Launch, hist, notes
  <2>4. CASE Refuse \/ Crash
    BY <2>2, <2>4 DEF Refuse, Crash, Down
  <2>5. CASE LoadGoals \/ DetectCrash \/ ComputeResume
    BY <2>1, <2>5 DEF LoadGoals, DetectCrash, ComputeResume, hist, notes
  <2>6. CASE Worker
    BY <2>1, <2>2, <2>6 DEF Worker, WorkerLoop, TakeGoal, BeginGoal, LeavePause, EndGoal,
                            Stop, Finish, Down, hist, notes
  <2>7. CASE Throw \/ ReturnOnShutdown
    BY <1>2, <2>7 DEF Throw, ReturnOnShutdown, hist, notes
  <2>8. CASE EnterQuick \/ EnterNormal \/ EnterRoadmap \/ RunPlan
    BY <1>2, <2>8 DEF EnterQuick, EnterNormal, EnterRoadmap, RunPlan, PassCheck, hist, notes
  <2>9. CASE (StartQuick \/ StartPlan) /\ ~Throw
    BY <1>2, <2>9 DEF StartQuick, StartPlan, DirtyGit, Invoke
  <2>10. CASE InitProject \/ CreateRoadmap
    BY <1>2, <2>10 DEF InitProject, CreateRoadmap, Invoke, hist, notes
  <2>11. CASE PlanPhase /\ ~ReturnOnShutdown
    BY <1>2, <2>11 DEF PlanPhase, Invoke, hist, notes
  <2>12. CASE (EnterResume \/ FastForward) /\ ~Throw /\ ~ReturnOnShutdown
    BY <2>1, <2>12 DEF EnterResume, FastForward, FailGoal, EndFailed, hist, notes
  <2>13. CASE (WriteInitialized \/ WriteRoadmapped \/ ReadRoadmap \/ WritePlanned
              \/ DiscoverPlans \/ CompleteGoal) /\ ~Throw
    BY <2>1, <2>13 DEF WriteInitialized, WriteRoadmapped, ReadRoadmap, WritePlanned,
                       DiscoverPlans, EndPhase, CompleteGoal, hist, notes
  <2>14. CASE RejectPlanFile \/ VerifyPasses \/ VerifyFails \/ WriteExecuted
    BY <2>1, <2>14 DEF RejectPlanFile, VerifyPasses, VerifyFails, WriteExecuted, FailGoal,
                       EndFailed, hist, notes
  <2>15. CASE BeginAgent \/ Tick \/ AgentEnds \/ AgentSucceeded \/ AgentFailed
              \/ AgentRejected
    BY <2>1, <2>15 DEF BeginAgent, Tick, AgentEnds, AgentSucceeded, After, AgentFailed,
                       AgentRejected, FailGoal, EndFailed, hist, notes
  <2>16. CASE LateAppend \/ AgentWorks \/ Signal \/ Unpause \/ UNCHANGED vars
    BY <1>2, <2>16 DEF LateAppend, AgentWorks, Signal, Unpause, proc, hist, notes, vars
  <2>17. QED
    BY <1>2, <2>3, <2>4, <2>5, <2>6, <2>7, <2>8, <2>9, <2>10, <2>11, <2>12, <2>13, <2>14,
       <2>15, <2>16 DEF Next, DaemonStep, Orchestrate, Agent, Over
<1>3. HandedInv => AtMostOneRunAfterSignal
  BY DEF HandedInv, AtMostOneRunAfterSignal
<1>4. QED
  BY <1>1, <1>2, <1>3, PTL DEF Spec
=============================================================================
