---------------------------- MODULE Orchestrator ----------------------------
(***************************************************************************)
(* One daemon process (daemon.ts, sequential mode) working through its     *)
(* pending goals with orchestrateGoal (orchestrator.ts) and an agent       *)
(* invoker (cursor-agent.ts), the files they leave in the workspace, and   *)
(* the crashes, shutdowns and restarts in between.                         *)
(*                                                                         *)
(* A step of the model is the code between two awaits that touch a file or *)
(* an agent.  The agents' own work, the operator and the operating system  *)
(* are the environment: they decide how a run ends, whether the expected   *)
(* files appear, whether a plan file is valid, the working tree clean and  *)
(* the verify command content.                                             *)
(***************************************************************************)
EXTENDS Lifecycle, Recovery

CONSTANTS
  Goals,              \* the Pending list of goals.md, in queue order
  QuickGoals,         \* the goals with route "quick"
  NoGoal,             \* not a goal title
  NumPhases,          \* phases in ROADMAP.md
  PlanCounts,         \* PlanCounts[p]: plan files in the directory of phase p
  AutoCheckpoint,     \* config.autoCheckpoint
  RequireCleanGit,    \* config.requireCleanGitBeforePlan
  VerifyCommand,      \* is config.verifyCommand set?
  AutoFix,            \* config.autoFixOnVerifyFail
  PlanFix,            \* PlanFix[p][n]: title of the goal that fixes plan n of phase p
  QuickFix,           \* QuickFix[g]: title of the goal that fixes quick goal g
  AgentOutcomes,      \* how an agent run may end: see Outcomes
  DirMatches,         \* directories a phase may have after a planning run, of 0..2
  MaxBoots,           \* bound: starts of the daemon; the last does not crash
  SignalBoots,        \* bound: the starts in which a shutdown signal may come
  MaxLost             \* bound: how many best-effort log appends get lost

\* A run ends with one of the invoker's three terminal statuses, or the spawn
\* itself is rejected (the catch branch).
Outcomes == { "done", "crashed", "timeout", "rejected" }

ASSUME GoalsAssumption ==
  /\ Goals \in Seq(GoalTitles) /\ Goals # <<>>
  /\ NoGoal \notin GoalTitles

ASSUME RoadmapAssumption ==
  /\ NumPhases \in Nat
  /\ PlanCounts \in [1..NumPhases -> Nat]
  /\ DirMatches \subseteq 0..2

\* A fix goal has no route, so it is a full goal.
ASSUME FixAssumption ==
  /\ AutoFix \in BOOLEAN
  /\ \A p \in 1..NumPhases : \A n \in 1..PlanCounts[p] :
       PlanFix[p][n] \in GoalTitles \ QuickGoals
  /\ \A g \in QuickGoals : QuickFix[g] \in GoalTitles \ QuickGoals

ASSUME ConfigAssumption ==
  /\ AutoCheckpoint \in BOOLEAN /\ RequireCleanGit \in BOOLEAN
  /\ VerifyCommand \in BOOLEAN
  /\ AgentOutcomes \subseteq Outcomes
  /\ MaxBoots \in Nat /\ MaxLost \in Nat /\ SignalBoots \subseteq Nat

VARIABLES
  (* files: they survive the process *)
  log,            \* session-log.jsonl
  stateMd,        \* .planning/STATE.md
  heartbeat,      \* does .planning/heartbeat.txt exist?
  project,        \* does .planning/PROJECT.md exist?
  roadmap,        \* does .planning/ROADMAP.md exist?
  dirs,           \* dirs[p]: directories that match the prefix of phase p
  pauseFlag,      \* does .pause-autopilot exist?
  (* the process *)
  pc,             \* where the process is; "down" when there is none
  shuttingDown,   \* a first SIGINT or SIGTERM was received
  queue,          \* goals not yet taken
  resume,         \* resumeFrom, until the first attempt at the first goal ends
  late,           \* entries whose append nobody awaits
  (* the goal in hand: runOneGoal and orchestrateGoal *)
  goal, attempt, plannedUpTo,
  sm,             \* the GoalStateMachine of this attempt
  cur, target,    \* phase index and plan number being worked on, 0 for none
  cmd, outcome,   \* the command handed to the agent, and how its run ended
  (* history, read by the properties and the bounds only *)
  boots, lost,    \* daemon starts and lost appends so far
  exit,           \* how the last process ended
  since,          \* length of the log when the goal in hand was taken
  verified,       \* <<phase, plan>> verified for the goal since then
  handed          \* commands handed to an agent since the shutdown signal

disk == <<log, stateMd, heartbeat, project, roadmap, dirs, pauseFlag>>
work == <<goal, attempt, plannedUpTo, sm, cur, target, cmd, outcome>>
proc == <<pc, shuttingDown, queue, resume, late>>
notes == <<since, verified, handed>>
hist == <<boots, lost, exit, notes>>
vars == <<disk, proc, work, hist>>

Phases == 1..NumPhases

Init ==
  /\ log = <<>> /\ stateMd = NoStateMd /\ heartbeat = FALSE
  /\ project \in BOOLEAN /\ roadmap = FALSE
  /\ dirs = [p \in Phases |-> 0] /\ pauseFlag = FALSE
  /\ pc = "down" /\ shuttingDown = FALSE /\ queue = <<>>
  /\ resume = NoPointer /\ late = {}
  /\ goal = NoGoal /\ attempt = 0 /\ plannedUpTo = 0 /\ sm = "new"
  /\ cur = 0 /\ target = 0 /\ cmd = "none" /\ outcome = "none"
  /\ boots = 0 /\ lost = 0 /\ exit = "none"
  /\ since = 0 /\ verified = {} /\ handed = 0

-----------------------------------------------------------------------------
(* Building blocks *)

\* appendSessionLog is best effort: an error is swallowed.
AppendLog(e) ==
  \/ log' = Append(log, e) /\ lost' = lost
  \/ lost < MaxLost /\ lost' = lost + 1 /\ log' = log

\* The entry of the command in hand.
CallEntry(status) ==
  [ goal |-> goal, cmd |-> cmd, phase |-> cur, plan |-> target,
    status |-> status ]

WriteStateMd(phase, plan, status) ==
  stateMd' = [phase |-> phase, plan |-> plan, status |-> status]

\* sm.advance, once per phase of the path.
Advance(path) == LegalPath(sm, path) /\ sm' = path[Len(path)]

Goto(label) == pc' = label

\* Hand a command to the agent invoker.
Invoke(command) ==
  /\ cmd' = command /\ Goto("invoke")
  /\ handed' = IF shuttingDown THEN handed + 1 ELSE handed
  /\ UNCHANGED <<boots, lost, exit, since, verified>>

\* addToQueue: not a goal that is running or queued.
AddToQueue(title) ==
  queue' = IF title = goal \/ \E i \in DOMAIN queue : queue[i] = title
             THEN queue
             ELSE Append(queue, title)

\* No goal in hand.
NoWork ==
  /\ goal' = NoGoal /\ attempt' = 0 /\ plannedUpTo' = 0 /\ sm' = "new"
  /\ cur' = 0 /\ target' = 0 /\ cmd' = "none" /\ outcome' = "none"
  /\ since' = 0 /\ verified' = {}

\* The process is gone, with what it held in memory.
Gone(how) ==
  /\ pc' = "down" /\ exit' = how
  /\ shuttingDown' = FALSE /\ queue' = <<>> /\ resume' = NoPointer /\ late' = {}
  /\ NoWork
  /\ handed' = 0
  /\ UNCHANGED <<boots, lost>>

\* It exits by itself, between two writes.
Down(how) == Gone(how) /\ UNCHANGED disk

\* Mutant of Throw: the attempt limit is off by one.
ThrowFourTimes ==
  /\ resume' = NoPointer
  /\ cur' = 0 /\ target' = 0 /\ cmd' = "none" /\ outcome' = "none"
  /\ \/ /\ attempt <= 3
        /\ attempt' = attempt + 1 /\ sm' = "new" /\ Goto("goal")
        /\ UNCHANGED pauseFlag
     \/ /\ attempt > 3
        /\ pauseFlag' \in {pauseFlag, TRUE}
        /\ sm' = "failed" /\ Goto("pausedGoal")
        /\ UNCHANGED attempt
  /\ UNCHANGED <<log, stateMd, heartbeat, project, roadmap, dirs>>
  /\ UNCHANGED <<shuttingDown, queue, late, goal, plannedUpTo, hist>>

\* orchestrateGoal throws: runOneGoal tries again from the start, without a
\* resume pointer; after the third attempt it writes the pause flag, a write that
\* may fail unnoticed.
Throw ==
  /\ resume' = NoPointer
  /\ cur' = 0 /\ target' = 0 /\ cmd' = "none" /\ outcome' = "none"
  /\ \/ /\ attempt < 3
        /\ attempt' = attempt + 1 /\ sm' = "new" /\ Goto("goal")
        /\ UNCHANGED pauseFlag
     \/ /\ attempt >= 3
        /\ pauseFlag' \in {pauseFlag, TRUE}
        /\ sm' = "failed" /\ Goto("pausedGoal")
        /\ UNCHANGED attempt
  /\ UNCHANGED <<log, stateMd, heartbeat, project, roadmap, dirs>>
  /\ UNCHANGED <<shuttingDown, queue, late, goal, plannedUpTo, hist>>

\* The shutdown checks of orchestrateGoal: it returns, the goal is over.
ReturnOnShutdown ==
  /\ shuttingDown
  /\ Goto("ended")
  /\ UNCHANGED <<disk, shuttingDown, queue, resume, late, work, hist>>

\* A check with an await behind it: what follows does not look at the flag again.
PassCheck(label) ==
  /\ Goto(IF shuttingDown THEN "ended" ELSE label)
  /\ UNCHANGED <<disk, shuttingDown, queue, resume, late, work, hist>>

\* ensureCleanGitOrCheckpoint throws: the tree is dirty and no checkpoint is
\* wanted, or the checkpoint commit fails.
DirtyGit == RequireCleanGit /\ Throw

-----------------------------------------------------------------------------
(* Starting the daemon: runDaemon up to the worker *)

Launch ==
  /\ pc = "down" /\ boots < MaxBoots
  /\ boots' = boots + 1
  /\ Goto("boot")
  /\ UNCHANGED <<disk, shuttingDown, queue, resume, late, work,
                 lost, exit, notes>>

\* An inconsistent workspace: refuse to start.
Refuse ==
  /\ pc = "boot"
  /\ SuggestsReset(log, stateMd, heartbeat) /\ ~AutoCheckpoint
  /\ Down("refused")

\* Otherwise goals.md gives the queue; nothing in it says what was done before.
LoadGoals ==
  /\ pc = "boot"
  /\ ~SuggestsReset(log, stateMd, heartbeat) \/ AutoCheckpoint
  /\ queue' = Goals
  /\ Goto("inspect")
  /\ UNCHANGED <<disk, shuttingDown, resume, late, work, hist>>

\* Mutant of DetectCrash: it closes what inspectForCrashedSessions returns,
\* which may be a run that was closed as crashed before.
DetectCrashTwice ==
  /\ pc = "inspect"
  /\ \/ /\ log # <<>> /\ log[Len(log)].status \in {"running", "crashed"}
        /\ AppendLog([log[Len(log)] EXCEPT !.status = "crashed"])
     \/ /\ OpenRun(log) => heartbeat
        /\ UNCHANGED <<log, lost>>
  /\ Goto("pointer")
  /\ UNCHANGED <<stateMd, heartbeat, project, roadmap, dirs, pauseFlag>>
  /\ UNCHANGED <<shuttingDown, queue, resume, late, work, boots, exit, notes>>

\* An open run is closed as crashed when its heartbeat is missing or older
\* than 60s; a fresher file leaves the log alone.
DetectCrash ==
  /\ pc = "inspect"
  /\ \/ /\ OpenRun(log)
        /\ AppendLog([log[Len(log)] EXCEPT !.status = "crashed"])
     \/ /\ OpenRun(log) => heartbeat
        /\ UNCHANGED <<log, lost>>
  /\ Goto("pointer")
  /\ UNCHANGED <<stateMd, heartbeat, project, roadmap, dirs, pauseFlag>>
  /\ UNCHANGED <<shuttingDown, queue, resume, late, work, boots, exit, notes>>

ComputeResume ==
  /\ pc = "pointer"
  /\ resume' = ResumePointer(log, stateMd, queue[1])
  /\ Goto("worker")
  /\ UNCHANGED <<disk, shuttingDown, queue, late, work, hist>>

-----------------------------------------------------------------------------
(* runWorker and runOneGoal *)

WorkerLoop ==
  /\ pc = "worker"
  /\ ~shuttingDown
  /\ Goto("gate")
  /\ UNCHANGED <<disk, shuttingDown, queue, resume, late, work, hist>>

\* Past the pause loop, which looks at nothing but the flag.
TakeGoal ==
  /\ pc = "gate" /\ ~pauseFlag /\ queue # <<>>
  /\ goal' = queue[1] /\ queue' = Tail(queue)
  /\ Goto("taken")
  /\ since' = Len(log) /\ verified' = {}
  /\ UNCHANGED <<disk, shuttingDown, resume, late, boots, lost, exit, handed>>
  /\ UNCHANGED <<attempt, plannedUpTo, sm, cur, target, cmd, outcome>>

BeginGoal ==
  /\ pc = "taken" /\ ~shuttingDown
  /\ attempt' = 1
  /\ Goto("goal")
  /\ UNCHANGED <<disk, shuttingDown, queue, resume, late, hist>>
  /\ UNCHANGED <<goal, plannedUpTo, sm, cur, target, cmd, outcome>>

\* Mutant of LeavePause: it waits for the operator even during a shutdown.
LeavePauseUnpaused ==
  /\ pc = "pausedGoal" /\ ~pauseFlag
  /\ Goto("ended")
  /\ UNCHANGED <<disk, shuttingDown, queue, resume, late, work, hist>>

\* Mutant of LeavePause: it waits for a shutdown, whatever the flag says.
LeavePauseOnShutdown ==
  /\ pc = "pausedGoal" /\ shuttingDown
  /\ Goto("ended")
  /\ UNCHANGED <<disk, shuttingDown, queue, resume, late, work, hist>>

\* The paused attempt loop ends with the flag or with a shutdown.
LeavePause ==
  /\ pc = "pausedGoal"
  /\ ~pauseFlag \/ shuttingDown
  /\ Goto("ended")
  /\ UNCHANGED <<disk, shuttingDown, queue, resume, late, work, hist>>

EndGoal ==
  /\ pc = "ended"
  /\ resume' = NoPointer
  /\ NoWork
  /\ Goto("worker")
  /\ UNCHANGED <<disk, shuttingDown, queue, late, boots, lost, exit, handed>>

\* The worker leaves its loop; node waits for pending appends before it exits.
Stop ==
  /\ pc \in {"worker", "taken"} /\ shuttingDown /\ late = {}
  /\ Down("stopped")

\* Without a status server the daemon ends with its queue.  (With one it waits for
\* goals: that is Daemon.tla.)
Finish ==
  /\ pc = "gate" /\ ~pauseFlag /\ queue = <<>> /\ late = {}
  /\ Down("finished")

Worker == WorkerLoop \/ TakeGoal \/ BeginGoal \/ LeavePause \/ EndGoal
          \/ Stop \/ Finish

-----------------------------------------------------------------------------
(* orchestrateGoal: the three ways in *)

QuickPath == << "initializing_project", "creating_roadmap", "planning_phase",
                "executing_plan" >>

EnterQuick ==
  /\ pc = "goal" /\ goal \in QuickGoals
  /\ PassCheck("quick")

\* After the wait for a clean tree and for headroom.
StartQuick ==
  /\ pc = "quick"
  /\ \/ DirtyGit
     \/ /\ Advance(QuickPath)
        /\ cur' = 1 /\ target' = 1
        /\ WriteStateMd(1, 1, "quick")
        /\ Invoke("quick")
        /\ UNCHANGED <<log, heartbeat, project, roadmap, dirs, pauseFlag>>
        /\ UNCHANGED <<shuttingDown, queue, resume, late>>
        /\ UNCHANGED <<goal, attempt, plannedUpTo, outcome>>

EnterNormal ==
  /\ pc = "goal" /\ goal \notin QuickGoals /\ resume.phase = 0
  /\ PassCheck("init")

\* After the look for PROJECT.md.
InitProject ==
  /\ pc = "init"
  /\ \/ project /\ Goto("initialized") /\ UNCHANGED <<cmd, hist>>
     \/ ~project /\ Invoke("new-project")
  /\ UNCHANGED <<disk, shuttingDown, queue, resume, late>>
  /\ UNCHANGED <<goal, attempt, plannedUpTo, sm, cur, target, outcome>>

\* sm.fail and return: no exception, so no further attempt.
EndFailed ==
  /\ sm' = "failed"
  /\ Goto("ended")
  /\ UNCHANGED <<shuttingDown, resume>>
  /\ UNCHANGED <<goal, attempt, plannedUpTo, cur, target, cmd, outcome>>

FailGoal == EndFailed /\ UNCHANGED queue

\* The first part of the resume branch.  ROADMAP.md exists: a pointer needs a
\* finished plan-phase or execute-plan run, and nobody deletes the file.
EnterResume ==
  /\ pc = "goal" /\ goal \notin QuickGoals /\ resume.phase >= 1
  /\ \/ /\ resume.phase > NumPhases
        /\ FailGoal
        /\ UNCHANGED <<disk, late, hist>>
     \/ /\ resume.phase <= NumPhases
        /\ Advance(<<"initializing_project", "creating_roadmap">>)
        /\ cur' = resume.phase
        /\ WriteStateMd(1, 0, "resuming")
        /\ Goto("fastforward")
        /\ UNCHANGED <<log, heartbeat, project, roadmap, dirs, pauseFlag>>
        /\ UNCHANGED <<shuttingDown, queue, resume, late, hist>>
        /\ UNCHANGED <<goal, attempt, plannedUpTo, target, cmd, outcome>>

\* planning_phase, phase_complete for every earlier phase, then planning_phase.
FastForwardPath(phase) ==
  [ i \in 1..(2 * phase - 1) |->
      IF i % 2 = 1 THEN "planning_phase" ELSE "phase_complete" ]

\* The plan a resume pointer stands for, if the phase directory has it.
IsResumeTarget(n) ==
  IF resume.plan = 0
    THEN IsNextUnexecuted(n, log, goal, cur, PlanCounts[cur])
    ELSE n = resume.plan /\ n <= PlanCounts[cur]

HasResumeTarget == \E n \in 1..PlanCounts[cur] : IsResumeTarget(n)

FastForward ==
  /\ pc = "fastforward"
  /\ \/ cur > 1 /\ ReturnOnShutdown
     \/ /\ ~shuttingDown \/ cur = 1
        /\ dirs[cur] # 1 \/ (~HasResumeTarget /\ resume.plan > 0)
        /\ IF dirs[cur] = 2 THEN Throw
                            ELSE FailGoal /\ UNCHANGED <<disk, late, hist>>
     \/ /\ ~shuttingDown \/ cur = 1
        /\ dirs[cur] = 1
        /\ \/ \E n \in 1..PlanCounts[cur] :
                /\ IsResumeTarget(n)
                /\ Advance(FastForwardPath(cur))
                /\ target' = n /\ cur' = cur
                /\ Goto("plan")
           \/ /\ ~HasResumeTarget /\ resume.plan = 0
              /\ Advance(Append(FastForwardPath(cur), "phase_complete"))
              /\ cur' = cur + 1 /\ target' = 0
              /\ Goto("phase")
        /\ UNCHANGED <<disk, shuttingDown, queue, resume, late, hist>>
        /\ UNCHANGED <<goal, attempt, plannedUpTo, cmd, outcome>>

-----------------------------------------------------------------------------
(* orchestrateGoal: project, roadmap and the phase loop *)

WriteInitialized ==
  /\ pc = "initialized"
  /\ WriteStateMd(0, 0, "initialized")
  /\ Advance(<<"initializing_project">>)
  /\ Goto("roadmap")
  /\ UNCHANGED <<log, heartbeat, project, roadmap, dirs, pauseFlag>>
  /\ UNCHANGED <<shuttingDown, queue, resume, late, hist>>
  /\ UNCHANGED <<goal, attempt, plannedUpTo, cur, target, cmd, outcome>>

EnterRoadmap ==
  /\ pc = "roadmap"
  /\ PassCheck("create")

\* After the look for ROADMAP.md.
CreateRoadmap ==
  /\ pc = "create"
  /\ \/ roadmap /\ Goto("roadmapped") /\ UNCHANGED <<cmd, hist>>
     \/ ~roadmap /\ Invoke("create-roadmap")
  /\ UNCHANGED <<disk, shuttingDown, queue, resume, late>>
  /\ UNCHANGED <<goal, attempt, plannedUpTo, sm, cur, target, outcome>>

WriteRoadmapped ==
  /\ pc = "roadmapped"
  /\ WriteStateMd(0, 0, "roadmap")
  /\ Advance(<<"creating_roadmap">>)
  /\ Goto("phases")
  /\ UNCHANGED <<log, heartbeat, project, roadmap, dirs, pauseFlag>>
  /\ UNCHANGED <<shuttingDown, queue, resume, late, hist>>
  /\ UNCHANGED <<goal, attempt, plannedUpTo, cur, target, cmd, outcome>>

\* parseRoadmap throws when the file is not there.
ReadRoadmap ==
  /\ pc = "phases"
  /\ \/ ~roadmap /\ Throw
     \/ /\ roadmap
        /\ cur' = 1
        /\ Goto("phase")
        /\ UNCHANGED <<disk, shuttingDown, queue, resume, late, hist>>
        /\ UNCHANGED <<goal, attempt, plannedUpTo, sm, target, cmd, outcome>>

\* skipToPhase = plannedUpTo + 1, on a second or third attempt.
SkipPlanning == attempt > 1 /\ plannedUpTo > 0 /\ cur <= plannedUpTo

\* Mutant of PlanPhase: no look at the shutdown flag.
PlanPhaseRegardless ==
  /\ pc = "phase" /\ cur <= NumPhases
  /\ Advance(<<"planning_phase">>)
  /\ target' = 0
  /\ \/ SkipPlanning /\ Goto("discover") /\ UNCHANGED <<cmd, hist>>
     \/ ~SkipPlanning /\ Invoke("plan-phase")
  /\ UNCHANGED <<disk, shuttingDown, queue, resume, late>>
  /\ UNCHANGED <<goal, attempt, plannedUpTo, cur, outcome>>

\* No await lies between this look at the flag and the agent.
PlanPhase ==
  /\ pc = "phase" /\ cur <= NumPhases
  /\ \/ ReturnOnShutdown
     \/ /\ ~shuttingDown
        /\ Advance(<<"planning_phase">>)
        /\ target' = 0
        /\ \/ SkipPlanning /\ Goto("discover") /\ UNCHANGED <<cmd, hist>>
           \/ ~SkipPlanning /\ Invoke("plan-phase")
        /\ UNCHANGED <<disk, shuttingDown, queue, resume, late>>
        /\ UNCHANGED <<goal, attempt, plannedUpTo, cur, outcome>>

\* STATE.md, and reportProgress: the daemon notes how far planning has come.
WritePlanned ==
  /\ pc = "planned"
  /\ WriteStateMd(cur, 0, "planned")
  /\ plannedUpTo' = IF cur > plannedUpTo THEN cur ELSE plannedUpTo
  /\ Goto("discover")
  /\ UNCHANGED <<log, heartbeat, project, roadmap, dirs, pauseFlag>>
  /\ UNCHANGED <<shuttingDown, queue, resume, late, hist>>
  /\ UNCHANGED <<goal, attempt, sm, cur, target, cmd, outcome>>

\* Mutant of EndPhase: the state machine is not told.
EndPhaseSilently ==
  /\ cur' = cur + 1 /\ target' = 0 /\ sm' = sm
  /\ Goto("phase")

\* The end of a phase: no directory, or no plan left.
EndPhase ==
  /\ Advance(<<"phase_complete">>)
  /\ cur' = cur + 1 /\ target' = 0
  /\ Goto("phase")

\* findPhaseDir, discoverPhasePlans and getNextUnexecutedPlan.
DiscoverPlans ==
  /\ pc = "discover"
  /\ \/ dirs[cur] = 2 /\ Throw
     \/ /\ dirs[cur] # 2
        /\ \/ /\ dirs[cur] = 0 \/ Unexecuted(log, goal, cur, PlanCounts[cur]) = {}
              /\ EndPhase
           \/ /\ dirs[cur] = 1
              /\ \E n \in 1..PlanCounts[cur] :
                   /\ IsNextUnexecuted(n, log, goal, cur, PlanCounts[cur])
                   /\ target' = n
              /\ Goto("plan")
              /\ UNCHANGED <<cur, sm>>
        /\ UNCHANGED <<disk, shuttingDown, queue, resume, late, hist>>
        /\ UNCHANGED <<goal, attempt, plannedUpTo, cmd, outcome>>

\* Mutant of CompleteGoal: a refused transition starts over, uncounted.
CompleteGoalUncounted ==
  /\ pc = "phase" /\ cur > NumPhases
  /\ IF LegalPath(sm, <<"complete">>)
       THEN /\ Advance(<<"complete">>)
            /\ WriteStateMd(NumPhases, 0, "complete")
            /\ Goto("ended")
       ELSE sm' = "new" /\ Goto("goal") /\ UNCHANGED stateMd
  /\ UNCHANGED <<log, heartbeat, project, roadmap, dirs, pauseFlag>>
  /\ UNCHANGED <<shuttingDown, queue, resume, late, hist>>
  /\ UNCHANGED <<goal, attempt, plannedUpTo, cur, target, cmd, outcome>>

\* The loop is done.  With no phase at all this transition is not in the table.
CompleteGoal ==
  /\ pc = "phase" /\ cur > NumPhases
  /\ \/ ~LegalPath(sm, <<"complete">>) /\ Throw
     \/ /\ Advance(<<"complete">>)
        /\ WriteStateMd(NumPhases, 0, "complete")
        /\ Goto("ended")
        /\ UNCHANGED <<log, heartbeat, project, roadmap, dirs, pauseFlag>>
        /\ UNCHANGED <<shuttingDown, queue, resume, late, hist>>
        /\ UNCHANGED <<goal, attempt, plannedUpTo, cur, target, cmd, outcome>>

-----------------------------------------------------------------------------
(* runPlan *)

RunPlan ==
  /\ pc = "plan"
  /\ PassCheck("preflight")

\* After the waits for a clean tree, for headroom and for the plan's validation.
StartPlan ==
  /\ pc = "preflight"
  /\ \/ DirtyGit
     \/ /\ Advance(<<"executing_plan">>)
        /\ Invoke("execute-plan")
        /\ UNCHANGED <<disk, shuttingDown, queue, resume, late>>
        /\ UNCHANGED <<goal, attempt, plannedUpTo, cur, target, outcome>>

\* An invalid plan file fails the goal.
RejectPlanFile ==
  /\ pc = "preflight"
  /\ LegalPath(sm, <<"executing_plan">>)
  /\ AppendLog([ goal |-> goal, cmd |-> "execute-plan", phase |-> cur,
                 plan |-> target, status |-> "skipped" ])
  /\ FailGoal
  /\ UNCHANGED <<stateMd, heartbeat, project, roadmap, dirs, pauseFlag>>
  /\ UNCHANGED <<late, boots, exit, notes>>

\* The verify command passes, or none is configured.
VerifyPasses ==
  /\ pc = "verify"
  /\ verified' = verified \cup {<<cur, target>>}
  /\ IF cmd = "quick"
       THEN /\ Advance(<<"phase_complete", "complete">>)
            /\ WriteStateMd(1, 1, "complete")
            /\ Goto("ended")
       ELSE Goto("executed") /\ UNCHANGED <<sm, stateMd>>
  /\ UNCHANGED <<log, heartbeat, project, roadmap, dirs, pauseFlag>>
  /\ UNCHANGED <<shuttingDown, queue, resume, late, boots, lost, exit, since, handed>>
  /\ UNCHANGED <<goal, attempt, plannedUpTo, cur, target, cmd, outcome>>

\* Mutant of VerifyFails: logged, but the goal goes on.
VerifyFailsIgnored ==
  /\ pc = "verify" /\ VerifyCommand
  /\ AppendLog(CallEntry("verify-failed"))
  /\ Goto("executed")
  /\ UNCHANGED <<stateMd, heartbeat, project, roadmap, dirs, pauseFlag>>
  /\ UNCHANGED <<shuttingDown, queue, resume, late, work, boots, exit, notes>>

\* The goal that is queued to fix what the verify command found.
FixTitle == IF cmd = "quick" THEN QuickFix[goal] ELSE PlanFix[cur][target]

\* It fails or times out: logged, and the goal fails; with autoFixOnVerifyFail
\* (onQueueFixGoal) another goal is queued to fix it.
VerifyFails ==
  /\ pc = "verify" /\ VerifyCommand
  /\ AppendLog(CallEntry("verify-failed"))
  /\ IF AutoFix THEN AddToQueue(FixTitle) ELSE queue' = queue
  /\ EndFailed
  /\ UNCHANGED <<stateMd, heartbeat, project, roadmap, dirs, pauseFlag>>
  /\ UNCHANGED <<late, boots, exit, notes>>

WriteExecuted ==
  /\ pc = "executed"
  /\ WriteStateMd(cur, target, "executed")
  /\ Goto("discover")
  /\ UNCHANGED <<log, heartbeat, project, roadmap, dirs, pauseFlag>>
  /\ UNCHANGED <<shuttingDown, queue, resume, late, work, hist>>

Orchestrate ==
  \/ EnterQuick \/ StartQuick \/ EnterNormal \/ InitProject
  \/ EnterResume \/ FastForward
  \/ WriteInitialized \/ EnterRoadmap \/ CreateRoadmap \/ WriteRoadmapped
  \/ ReadRoadmap \/ PlanPhase \/ WritePlanned \/ DiscoverPlans \/ CompleteGoal
  \/ RunPlan \/ StartPlan \/ RejectPlanFile \/ VerifyPasses \/ VerifyFails \/ WriteExecuted

-----------------------------------------------------------------------------
(* The agent invoker *)

\* Mutant of BeginAgent: the run is not opened in the log.
BeginAgentUnlogged ==
  /\ pc = "invoke"
  /\ Goto("tick")
  /\ UNCHANGED <<disk, shuttingDown, queue, resume, late, work, hist>>

\* The run is opened in the log before anything else happens.
BeginAgent ==
  /\ pc = "invoke"
  /\ AppendLog(CallEntry("running"))
  /\ Goto("tick")
  /\ UNCHANGED <<stateMd, heartbeat, project, roadmap, dirs, pauseFlag>>
  /\ UNCHANGED <<shuttingDown, queue, resume, late, work, boots, exit, notes>>

Tick ==
  /\ pc = "tick"
  /\ heartbeat' = TRUE
  /\ Goto("agent")
  /\ UNCHANGED <<log, stateMd, project, roadmap, dirs, pauseFlag>>
  /\ UNCHANGED <<shuttingDown, queue, resume, late, work, hist>>

\* The agent process produces what its command asks for, before it ends.
AgentWorks ==
  /\ pc = "agent"
  /\ \/ cmd = "new-project" /\ ~project /\ project' = TRUE
        /\ UNCHANGED <<roadmap, dirs>>
     \/ cmd = "create-roadmap" /\ ~roadmap /\ roadmap' = TRUE
        /\ UNCHANGED <<project, dirs>>
     \/ /\ cmd = "plan-phase"
        /\ \E k \in DirMatches : k > dirs[cur] /\ dirs' = [dirs EXCEPT ![cur] = k]
        /\ UNCHANGED <<project, roadmap>>
  /\ UNCHANGED <<log, stateMd, heartbeat, pauseFlag, proc, work, hist>>

\* The agent ends, is killed on timeout, or could not be spawned; the
\* heartbeat stops and its file goes.  An agent that reports success has done what
\* the environment is assumed to do (DirMatches; 0 when it may leave nothing).
AgentEnds ==
  /\ pc = "agent"
  /\ outcome' \in AgentOutcomes
  /\ cmd = "plan-phase" /\ outcome' = "done" => dirs[cur] \in DirMatches
  /\ heartbeat' = FALSE
  /\ Goto("log")
  /\ UNCHANGED <<log, stateMd, project, roadmap, dirs, pauseFlag>>
  /\ UNCHANGED <<shuttingDown, queue, resume, late, hist>>
  /\ UNCHANGED <<goal, attempt, plannedUpTo, sm, cur, target, cmd>>

\* Where orchestrateGoal goes on after a successful run.
After(command) ==
  CASE command = "new-project"    -> "initialized"
    [] command = "create-roadmap" -> "roadmapped"
    [] command = "plan-phase"     -> "planned"
    [] OTHER                      -> "verify"

AgentSucceeded ==
  /\ pc = "log" /\ outcome = "done"
  /\ AppendLog(CallEntry("done"))
  /\ outcome' = "none"
  /\ Goto(After(cmd))
  /\ UNCHANGED <<stateMd, heartbeat, project, roadmap, dirs, pauseFlag>>
  /\ UNCHANGED <<shuttingDown, queue, resume, late, boots, exit, notes>>
  /\ UNCHANGED <<goal, attempt, plannedUpTo, sm, cur, target, cmd>>

\* A failed run fails the goal; orchestrateGoal returns without throwing.
AgentFailed ==
  /\ pc = "log" /\ outcome \in {"crashed", "timeout"}
  /\ AppendLog(CallEntry(outcome))
  /\ FailGoal
  /\ UNCHANGED <<stateMd, heartbeat, project, roadmap, dirs, pauseFlag>>
  /\ UNCHANGED <<late, boots, exit, notes>>

\* The catch branch starts its append and returns without waiting for it.
AgentRejected ==
  /\ pc = "log" /\ outcome = "rejected"
  /\ late' = late \cup {CallEntry("crashed")}
  /\ FailGoal
  /\ UNCHANGED <<disk, hist>>

\* Such an append reaches the file at some later time.
LateAppend ==
  /\ pc # "down"
  /\ \E e \in late : AppendLog(e) /\ late' = late \ {e}
  /\ UNCHANGED <<stateMd, heartbeat, project, roadmap, dirs, pauseFlag>>
  /\ UNCHANGED <<pc, shuttingDown, queue, resume, work, boots, exit, notes>>

Agent == BeginAgent \/ Tick \/ AgentEnds
         \/ AgentSucceeded \/ AgentFailed \/ AgentRejected \/ LateAppend

-----------------------------------------------------------------------------
(* The environment *)

\* The first signal sets the flag.
Signal ==
  /\ pc # "down" /\ ~shuttingDown /\ boots \in SignalBoots
  /\ shuttingDown' = TRUE
  /\ UNCHANGED <<disk, pc, queue, resume, late, work, hist>>

\* The next thing to happen here is a write of STATE.md.
WritingStateMd ==
  \/ pc \in {"quick", "initialized", "roadmapped", "planned", "executed"}
  \/ pc = "goal" /\ goal \notin QuickGoals /\ resume.phase \in Phases
  \/ pc = "phase" /\ cur > NumPhases /\ LegalPath(sm, <<"complete">>)
  \/ pc = "verify" /\ cmd = "quick"

\* A second signal, a kill, an exception nobody catches, a power failure (bound:
\* not in the last start, after which nothing would follow it).
\* Inside writeFile it leaves a STATE.md that is cut off and does not parse.
Crash ==
  /\ pc # "down" /\ boots < MaxBoots
  /\ Gone("crash")
  /\ stateMd' \in {stateMd} \cup (IF WritingStateMd THEN {NoStateMd} ELSE {})
  /\ UNCHANGED <<log, heartbeat, project, roadmap, dirs, pauseFlag>>

\* The operator removes the pause flag.
Unpause ==
  /\ pauseFlag
  /\ pauseFlag' = FALSE
  /\ UNCHANGED <<log, stateMd, heartbeat, project, roadmap, dirs>>
  /\ UNCHANGED <<proc, work, hist>>

\* The bound on starts is reached.
Over == pc = "down" /\ boots = MaxBoots /\ ~pauseFlag /\ UNCHANGED vars

DaemonStep == Refuse \/ LoadGoals \/ DetectCrash \/ ComputeResume
              \/ Worker \/ Orchestrate \/ Agent

Next == Launch \/ DaemonStep \/ AgentWorks \/ Signal \/ Crash \/ Unpause \/ Over

Spec == Init /\ [][Next]_vars

\* The process makes progress while it is up: its event loop runs, and an
\* agent run ends (AgentRun!EveryCallAnswered, with what that assumes).
FairSpec == Spec /\ WF_vars(DaemonStep)

-----------------------------------------------------------------------------
(* Properties *)

Labels ==
  { "down", "boot", "inspect", "pointer", "worker", "gate", "taken", "goal",
    "pausedGoal", "ended", "fastforward", "initialized", "roadmap",
    "roadmapped", "phases", "phase", "planned", "discover", "plan", "verify",
    "quick", "init", "create", "preflight", "executed", "invoke", "tick", "agent", "log" }

DiskType ==
  /\ log \in Seq(Entries) /\ stateMd \in StateMds
  /\ heartbeat \in BOOLEAN /\ project \in BOOLEAN /\ roadmap \in BOOLEAN
  /\ dirs \in [Phases -> 0..2] /\ pauseFlag \in BOOLEAN

ProcType ==
  /\ pc \in Labels /\ shuttingDown \in BOOLEAN
  /\ queue \in Seq(GoalTitles) /\ resume \in Pointers
  /\ late \in SUBSET Entries

WorkType ==
  /\ goal \in GoalTitles \cup {NoGoal} /\ attempt \in 0..3
  /\ plannedUpTo \in Nat /\ sm \in LifecyclePhases
  /\ cur \in Nat /\ target \in Nat
  /\ cmd \in Commands \cup {"none"} /\ outcome \in Outcomes \cup {"none"}

HistType ==
  /\ boots \in Nat /\ lost \in Nat
  /\ exit \in {"none", "refused", "stopped", "finished", "crash"}
  /\ since \in Nat /\ verified \in SUBSET (Nat \X Nat) /\ handed \in Nat

\* The type of every variable.
TypeOK == DiskType /\ ProcType /\ WorkType /\ HistType

\* The advances orchestrateGoal asks for from here.
RequestedAdvances ==
  CASE pc = "quick" -> {QuickPath}
    [] pc = "goal" /\ goal \notin QuickGoals /\ resume.phase >= 1
                        -> {<<"initializing_project", "creating_roadmap">>}
    [] pc = "fastforward" -> {FastForwardPath(cur),
                              Append(FastForwardPath(cur), "phase_complete")}
    [] pc = "initialized" -> {<<"initializing_project">>}
    [] pc = "roadmapped"  -> {<<"creating_roadmap">>}
    [] pc = "phase"       -> {<<IF cur > NumPhases THEN "complete"
                                                   ELSE "planning_phase">>}
    [] pc = "discover"    -> {<<"phase_complete">>}
    [] pc = "preflight"   -> {<<"executing_plan">>}
    [] pc = "verify" /\ cmd = "quick" -> {<<"phase_complete", "complete">>}
    [] OTHER -> {}

\* advance() never throws: on every route (quick, normal, resumed, retried) the
\* orchestrator only asks for transitions that LIFECYCLE_TRANSITIONS allows.
AdvancesLegal == \A path \in RequestedAdvances : LegalPath(sm, path)

Executing == pc \in {"invoke", "tick", "agent", "log"} /\ cmd = "execute-plan"

\* A plan is only run when every earlier plan of its phase has had an outcome for
\* this goal, whatever crashes, lost entries and resume pointers led there.
PlansInOrder ==
  Executing => \A m \in 1..(target - 1) : Executed(log, goal, cur, m)

\* A plan that ended "done" for a goal is never handed to an agent again for it.
DoneNotRepeated ==
  pc = "invoke" /\ cmd = "execute-plan" =>
    ~\E i \in DOMAIN log : /\ IsPlanEntry(log[i], goal, cur, target)
                           /\ log[i].status = "done"

\* Every plan in the directory of phase p has had an outcome for goal g.
PhaseCovered(g, p) ==
  dirs[p] = 1 => \A m \in 1..PlanCounts[p] : Executed(log, g, p, m)

\* A plan is only run when every plan of every earlier phase has had an outcome for
\* its goal.  This needs a planning run that reports success to leave a directory
\* (0 \notin DirMatches) and directories that no other full goal has made: else a
\* resume pointer leads past them (resume-pointer.ts:59).
PhasesInOrder == Executing => \A p \in 1..(cur - 1) : PhaseCovered(goal, p)

\* When a full goal reaches Complete, every plan on disk has an outcome for it, on
\* the same conditions.
CompleteCoversPlans ==
  pc = "ended" /\ sm = "complete" /\ goal \notin QuickGoals =>
    \A p \in Phases : PhaseCovered(goal, p)

\* Every outcome in the log directly follows the "running" entry of the same
\* run, and "verify-failed" follows its "done": crash repair included, no run is
\* ever closed twice or closed for another run.
EntriesPaired ==
  \A i \in DOMAIN log :
    /\ log[i].status \in {"done", "crashed", "timeout"} =>
         i > 1 /\ log[i - 1] = [log[i] EXCEPT !.status = "running"]
    /\ log[i].status = "verify-failed" =>
         i > 1 /\ log[i - 1] = [log[i] EXCEPT !.status = "done"]

\* While a plan is being run, every other plan whose run ended "done" since this
\* process took the goal has passed the verify command: a plan that failed it stops
\* the goal, and only a fix goal, under a title of its own, goes on with the others.
\* (A restart between the "done" entry and the verify command loses the
\* verification, as does a title that is taken again: since is set anew.)
NoPlanAfterUnverified ==
  Executing =>
    \A i \in (since + 1)..Len(log) :
      log[i].goal = goal /\ log[i].cmd = "execute-plan" /\ log[i].status = "done"
        => <<log[i].phase, log[i].plan>> \in verified

\* After a shutdown signal at most one more command is handed to an agent: one
\* that had passed its isShuttingDown check and was waiting for git, headroom, a
\* file or the plan's validation when the signal came.  Every way from a command to
\* the next passes a check, so there is never a second one.
AtMostOneRunAfterSignal == handed <= 1

\* Once up, the daemon ends or is paused: retries, failures, empty roadmaps and the
\* fix goals that failed verifications queue never make it run forever.  (The plan
\* files are those of PlanCounts: agents that write ever more plans could go on.)
DaemonEnds == (pc = "boot") ~> (pc = "down" \/ pauseFlag)

\* A shutdown signal ends the process, even in the pause that follows a third
\* failed attempt; only the pause loop before a goal is taken ignores it.
ShutdownEnds == shuttingDown ~> (pc = "down" \/ (pauseFlag /\ pc = "gate"))

-----------------------------------------------------------------------------
(* What the documentation says of a resume, and the code does not do *)

\* README: a resume "re-runs only that plan then continues".  So a pointer that
\* names a plan names one that exists.
ResumeTargetExists ==
  pc = "fastforward" /\ dirs[cur] = 1 /\ resume.plan > 0 => HasResumeTarget

=============================================================================
