# A formal model of gsd-unsupervised

`gsd-unsupervised` is a daemon that works through a list of goals without an
operator: for each goal it drives a coding agent through project setup, a
roadmap, the planning of every phase and the execution of every plan, and it is
meant to survive crashes, restarts, agent failures, hot reloads and shutdown
signals. This directory holds TLA+ modules translated from `src/`, the
configurations that model-check them, and theorems that TLAPS proves for every
value of the constants. Paths below are relative to the repository.

## 1. The system

| part | code | state it keeps | operations |
|---|---|---|---|
| goal state machine | `src/lifecycle.ts` | phase of one goal | `advance`, `fail`, `getNextCommand` |
| orchestrator | `src/orchestrator.ts` | phase and plan in hand; STATE.md | `orchestrateGoal`: quick, normal and resumed route |
| session log | `src/session-log.ts` | `session-log.jsonl` | best-effort append, read, "was the last run left open?" |
| plan discovery | `src/roadmap-parser.ts` | none | roadmap, phase directory, which plans are executed |
| crash recovery | `src/resume-pointer.ts`, `src/state-consistency.ts`, `src/state-parser.ts` | none | may the daemon start, where does it go on |
| goal loop | `src/daemon.ts` | queue, running set, worker pool, mutex, wake-up slot, attempts, pause flag | boot, workers, hot reload, shutdown |
| goals file | `src/goals.ts`, `src/goals-parser.ts`, `src/goal-metadata.ts` | `goals.md` | load, order, append |
| agent invokers | `src/cursor-agent.ts` | heartbeat file, log entries of a run | one command = one run |
| agent processes | `src/agent-runner.ts`, `src/cn-output.ts`, `src/stream-events.ts` | child process, timers | spawn, time out, retry, abort |
| state watcher | `src/state-watcher.ts`, `src/state-index.ts`, `src/state-types.ts` | last snapshot of STATE.md | debounced change events |
| daemon state file | `src/gsd-state.ts`, `src/daemon-health.ts` | `.gsd/state.json` | read, merge and write; is a daemon healthy? |
| intake | `src/intake/clarifier.ts`, `src/intake/goals-writer.ts`, `src/intake/cli-commands.ts` | `pending-goals.json`, `goals.md`, `.gsd/goals-updated` | classify, clarify, confirm, edit, expire, queue |
| start command | `src/intake/start-command.ts`, `src/intake/bundle.ts`, `run` | `.planning/intake/`, tmux sessions | bundle, pointers, queue, launch a daemon |
| upstream synchronisation | `src/gsd-sync.ts` | `.gsd/upstream/`, `.cursor/`, `.codex/` | fetch, install, record |
| status server | `src/status-server.ts`, `src/todos-api.ts` | none of its own | dashboard, POST goals, webhooks |
| resource governor | `src/resource-governor.ts` | none | wait for CPU, memory and GPU headroom |
| plan validator, git | `src/plan-validator.ts`, `src/git.ts` | none | checks before a plan runs |
| command line, config | `src/cli.ts`, `src/config.ts`, `src/init-wizard.ts`, ... | none | start, unpause, init |

How they interact. `runDaemon` checks that STATE.md and the session log agree,
loads `goals.md` into a queue, closes a run that a previous process left open in
the log, computes a resume pointer for the head of the queue, and starts one
worker (sequential mode) or `maxConcurrent` of them. A worker takes a goal, waits
for the workspace mutex and calls `orchestrateGoal` up to three times. The
orchestrator hands commands to an agent invoker, which logs `running`, keeps a
heartbeat file fresh while the agent process lives, and logs the outcome. The
orchestrator reads the log back after every plan to find the next one. Nothing
but files survives the process: the log, STATE.md, the heartbeat, `goals.md`, the
phase directories and the pause flag. Meanwhile the file watcher, the status
server, timers and signal handlers change the queue and the flags between any two
awaits.

Around the daemon other processes work on the same files. Text messages, the
dashboard, `POST /api/goals` and the `add-goal` command put drafts into
`pending-goals.json` and goals into `goals.md`, each with a read, a truncation and a
write of its own; a watcher tells the daemon to load `goals.md` again. The `start`
command installs the upstream support files, writes an intake bundle, queues the
goal, and launches a daemon through `./run` or npx when `.gsd/state.json` shows none
that is healthy; the daemon's timer and workers and `./run` all rewrite that file.

What is hard here: a crash between any two file writes; three files that describe
the same progress and are written at different moments; a log whose appends may be
lost or come late; retries that start from the beginning; workers whose awaits
interleave; promises that nothing resolves; flags that only some loops look at.

What makes each part correct:

- *orchestrator, log, recovery*: `advance` never throws on a route the code takes;
  plans run in order, each at most once to success; Complete means that every plan
  had an outcome; every log outcome belongs to the run that is open; a retry loop
  ends, fix goals included; a shutdown lets at most one more agent start, that of a
  command which had passed its check.
- *goal loop*: one goal at a time, no goal in two hands, the pointer of a crashed
  goal used for that goal alone, a queued goal is run in the end, a paused daemon
  is idle, a shutdown ends.
- *agent runs*: a command has one outcome although exit, timeout, kill and retry
  race; done means that the agent ended well by itself; nothing of an attempt is
  left when the next one starts; the heartbeat follows the run.
- *intake*: a goal that was said to be queued is in `goals.md`, unless two writers met or
  one died with the file open; a draft is queued only
  after it was confirmed, once, and is not lost; the daemon misses no line that its
  watcher could see.
- *start, upstream, state.json*: what the manifest says is installed; a bundle is
  whole before anything leads to it; one daemon runs, and a start command spares one
  that beat when the command looked; an update of `state.json` keeps what it does not set.

## 2. The modules

| module | models | from |
|---|---|---|
| `Lifecycle` | the table of transitions, runs of `advance` | `lifecycle.ts` |
| `SessionLog` | entries, executed plans, the next plan, an open run | `session-log.ts`, `roadmap-parser.ts` |
| `Recovery` | consistency check, resume pointer | `state-consistency.ts`, `resume-pointer.ts` |
| `Orchestrator` | one daemon process in sequential mode with its files, crashes and restarts | `orchestrator.ts`, `daemon.ts`, `cursor-agent.ts` |
| `PlanLedger` | what the log promises about execute-plan runs (abstract) | |
| `LedgerRefinement` | `Orchestrator` implements `PlanLedger` | |
| `AgentRun` | one invoker with the processes, timers and files of its runs | `cursor-agent.ts`, `agent-runner.ts` |
| `AgentCall` | what an invoker promises (abstract) | |
| `Daemon` | the goal loop with its worker pool in one process | `daemon.ts`, `goals.ts`, `status-server.ts` |
| `Intake` | the two intake files and everybody who writes them, with the watcher and the boot of the daemon | `clarifier.ts`, `goals-writer.ts`, `cli-commands.ts`, `status-server.ts`, `goals.ts`, `daemon.ts` |
| `Files` | what a reader finds in a file that is being written | |
| `StateFile` | `.gsd/state.json`, its writers and the health check | `gsd-state.ts`, `daemon-health.ts`, `daemon.ts`, `cli.ts` |
| `Upstream` | synchronising the upstream support files | `gsd-sync.ts` |
| `Start` | start commands with their bundles and daemons: composes `StateFile` and `Upstream` | `start-command.ts`, `bundle.ts`, `run` |
| `MCOrchestrator`, `MCDaemon`, `MCIntake`, `MCStart` | values for TLC | |
| `OrchestratorProofs`, `PlanProofs`, `LogProofs`, `AgentProofs`, `DaemonProofs`, `IntakeProofs`, `UpstreamProofs`, `StartProofs` | theorems | |

**Orchestrator.** One step is the code between two awaits that touch a file or an
agent. `pc` names the await the process is at ("down" when there is no process).
`log`, `stateMd`, `heartbeat`, `project`, `roadmap`, `dirs` and `pauseFlag` are the
files; `Crash` loses everything else. A log entry keeps goal, command, phase and
plan number, and status; a number the code leaves undefined is 0, which is what
every reader in the code treats it like. `stateMd` keeps the phase, the plan and
the status text, the texts as one name each; `Recovery!CeilingStatuses` are those
the resume code recognises. `dirs[p]` is the number of directories that match the
prefix of phase `p` (none: the phase is skipped; two: `findPhaseDir` throws).
`boot`, `inspect`, `pointer` are the start of `runDaemon`; `worker`, `gate`,
`taken`, `goal`, `pausedGoal`, `ended` are `runWorker` and `runOneGoal`;
`quick`, `init`, `create`, `preflight` and `fastforward` to `executed` are
`orchestrateGoal`; `invoke`, `tick`, `agent` and `log` are the invoker. A shutdown check
and the agent that is started after it are two steps wherever the code awaits in between:
`EnterQuick` and `StartQuick`, `EnterNormal` and `InitProject`, `EnterRoadmap` and
`CreateRoadmap`, `RunPlan` and `StartPlan` (git, headroom, validation). In the phase loop
nothing is awaited between them, and `PlanPhase` is one step. With
`autoFixOnVerifyFail` a failed verification queues a goal (`AddToQueue`, `FixTitle`): a
full goal whose title is that of the plan file, or of the quick goal. A crash in a write
of STATE.md may leave a file that does not parse, which readers take for none
(`WritingStateMd`, `NoStateMd`). It is the daemon without a status server, which ends
with its queue; `Daemon` has both. The three copies of the phase loop in `orchestrateGoal`
(normal, after a resumed plan, after a resumed phase without plans) make the same
calls and are one set of actions. The environment decides how an agent run ends,
which files it has produced by then, whether a plan file is valid, the working
tree clean (and a checkpoint commit possible), the verify command content, and
whether a stale heartbeat is older than a minute.

**Daemon.** One step is the code between two awaits of one worker.
`orchestrateGoal` is the stretch at "attempt" that returns, queues a fix goal and
returns, or throws. A worker is at `loop` (head of `while`), `gate` (past the pause
loop), `waiting` (in `waitForWake`), `taken` (state.json is being written),
`blocked` and `woken` (in the mutex), `attempt`, `paused` (after a third attempt),
`ended`, `reporting` (state.json again), `done`. `wakeResolver` holds the worker
whose promise the slot would resolve, so a worker that is overwritten in the slot
stays in `waiting` for ever, as in the code. `waiters` is the FIFO of the mutex; a
woken waiter looks at the flag again, since another worker may come first.
`EditGoals`, `Reload`, `PostGoal`, `Signal` and `Unpause` come between any two
steps. The write of `goals.md` and the queueing of a posted goal are one step.

**AgentRun.** What `Orchestrator` takes as one step, "the agent ends", is a module
of its own: one invoker, one command after the other. `pc` names what the invoker
waits for: `idle` (no command), `accepted` (the `running` entry is appended),
`running` (an attempt), `backoff` (between two attempts, cursor only), `unlinking`
and `logging` (the end of the command). `child` is the process of the attempt;
`heir` is a process it started that holds its pipes, without which node does not
emit "close"; `timer`, `timedOut` and `abort` are the timeout and `abortAgent`
(`terming`: tree-kill is collecting the tree for SIGTERM; `armed`: the five-second
timer; `killing`: tree-kill again, for SIGKILL). SIGTERM may be ignored, SIGKILL
may miss what has left the tree. `writes` are heartbeat writes in flight. The three
invokers and the three ways to run a child are the same text but for the retries
and the result, so each action stands for the copies, and "map" in `PROJECT.json`
names different copies. The daemon may crash at any point.

**AgentCall** is the abstract specification of an invoker: each command has one
`running` entry and one outcome, and the caller has its answer when the outcome is
logged, rejected spawns excepted.

**PlanLedger** is the abstract specification of the log: a ledger of outcomes with at
most one open run, in which a plan is opened only when its predecessors in the phase
have an outcome, never after it was done, and in which an outcome goes to the open
run. What is recorded without a run is a failure: of a verification, or of a plan that
is found invalid before it is run. `LedgerRefinement` reads the ledger off the session
log alone, as a restarted daemon has to.

**Intake.** A goal has the name of the request that first brought its title; a draft
and a line of `goals.md` are that name. What is left to do for a request is a
sequence of file operations (`todo`), taken in the order of the handler, and each of
them is a read, a truncation and a write (`stage`, `base`), so other requests, the
timer, a crash or a reload come between any two. A torn `pending-goals.json` is read
as no drafts; in a torn `goals.md` the Pending section is missing, and the handler
throws: SMS and POST answer with the error, the two dashboard handlers have no `try`
and take the daemon down (`Fails`). The score of a goal is a choice. What the agent
answers the clarifier is `AgentReplies`: `spec` is what `clarifier.test.ts` has its
agent return; the runner of this repository returns no `output`, which is `none`; and
`missing` is an agent that cannot be started. The passing run has all three so that
the rest of the conversation is checked; `v_confirm` has what this build gives.
`Boot`, `Load` and `Watch` are the start of the daemon: until `Watch` no change is
seen, after it a change of the flag file is, and one of `goals.md` if there is a status
server. `raced`, `contended`, `expired` and `unseen` are history; properties use them
to name what the code gives no protection against.

**StateFile.** An update (`BeginUpdate`, `Truncate`, `Write`) reads the file, merges and
writes it back. Three fields matter to the control: the settings that init wrote, taken
together (`own`, or the `default`s a merge with an unreadable file puts in their
place), the process id and the heartbeat with its age. Every other update, such as the
progress that is displayed, changes none of them but takes part in the races. A
daemon has the name of the command that launched it.

**Upstream.** One command at a time compares the manifest with the head of upstream
and then replaces the support tree and the skills of each runtime, manifest last.
`tree` is a revision or nothing (removed, or not yet copied); `skills` are pairs of
name and revision, so a mixture can be seen. Every step may throw, and a command may
be killed in between (`AbandonSync`).

**Start** composes the two: `pc` is the position in `startCommand` and, from `launch` on,
in the `run` script; `tmux` are the sessions, by the mode that `run` read from
`state.json`. The health check and the launch are two steps (`CheckHealth`, then
`LaunchNpx` or `KillSession`), since the user may be asked in between; `seen` notes which
daemons beat when a command looked. `KillSession` ends every daemon in the session of that name. The daemon
in it is reduced to what it writes to `state.json`; `Orchestrator` and `Daemon` have
the rest.

## 3. What is checked

Runs that pass (TLC, every property of a run holds on its whole state space):

| run | instance | shows |
|---|---|---|
| `crash` | one full goal, phases of 2 and 1 plans, verify command, runs that end done or time out; three starts, so two crashes anywhere, the second also during the resume | `DoneNotRepeated`, `EntriesPaired`, `AdvancesLegal`, `PlansInOrder`, `PhasesInOrder`, `CompleteCoversPlans`, `ImplementsLedger` |
| `retry` | one start, one phase with two plans, a verify command with fix goals for either plan, rejected spawns with late entries, one lost append, duplicate phase directories, a shutdown signal anywhere | `TypeOK`, `NoPlanAfterUnverified`, `AtMostOneRunAfterSignal`, `DaemonEnds`, `ShutdownEnds` |
| `empty_roadmap` | a quick goal, which may leave a fix goal, then a full goal; no phase in the roadmap; clean-tree check, rejected spawns, late entries, one lost append | `DaemonEnds`: three attempts, then the pause, then on |
| `agent` | each of the three agents, two commands, three attempts, one crash and restart; children that ignore SIGTERM, processes that inherit their pipes, rejected spawns | `TypeOK`, `NothingLeftRunning`, `HeartbeatFollowsRun`, `DoneIsHonest`, `EveryCallAnswered`, `ImplementsCall` |
| `pool` | two workers, two goals and a fix goal, with and without status server, one outside change, pause flag and signals anywhere | `TypeOK`, `OneGoalAtATime`, `NoGoalTwice`, `PausedMeansIdle`, `PointerForHeadOnly`, `QueuedGoalRuns`, `ShutdownEndsButFor` |
| `intake` | three requests (a text, a dashboard goal or a POST; a YES, a confirmation or an add-goal; a YES or an edit), two served at once, with and without status server, the expiry timer, one crash | `TypeOK`, `QueuedIsWritten`, `QueuedOnce`, `DraftAccountedFor`, `NothingUnconfirmed`, `NothingOverlooked` |
| `start` | two start commands, two revisions of upstream of which the second drops a skill, with and without `./run` and ngrok, one command or daemon killed anywhere | `TypeOK`, `NamedBundlesComplete`, `OneDaemon`, `SyncedMeansInstalled`, `SeenDaemonSpared` |

Runs that TLC refutes: the property is what a document or a test of the
repository says, the counterexample is what the code does.

| run | claim | what happens |
|---|---|---|
| `v_target` | README.md:367, a resume "re-runs only that plan then continues" | after a crash in phase 2 before a plan of it is done, the pointer is (phase 1, last plan + 1), a plan that does not exist: `orchestrateGoal` logs "Resume target plan not found" and the goal fails |
| `v_hang` | docs/ARCHITECTURE.md:97, the status server is closed on "process exit or shutdown" | two idle workers share one `wakeResolver`; the second overwrites the first, whose promise then never resolves, so `Promise.all` never returns and nothing is closed |
| `v_requeue` | tests/daemon-goals-reload.test.ts:143, "does not re-queue already-running or already-completed goals on file change" | `addToQueue` looks at the running set and the queue only; nothing moves a completed goal out of Pending, so a reload runs it again |
| `v_confirm` | status-server.ts:476, "Pending + YES: confirm => resolve pending => queue goal" | `clarifyGoal` asks the result of `runAgent` for `success` and `output`, which it does not have, and returns before it stores the draft; the sender is told to reply YES, and the YES, for which no draft is found, is queued as a goal named YES |
| `v_settings` | gsd-state.ts:95, "only provided fields are merged in" | the heartbeat reads `state.json` between the truncation and the write of a worker's update, takes it for missing, and writes the defaults over mode, agent, goals path and process id |

Two more stories are steps of the model on which no run insists. A crash between the
`running` entry and the first heartbeat makes the next start refuse (`Refuse`), although
docs/ARCHITECTURE.md:88 has it append a `crashed` entry; and the `crashed` entry counts
as an outcome, so a resume skips the interrupted plan that README.md:387 has it re-run.
Both are in the hazards.

### Bounds

- `MaxBoots`: starts of the daemon. The last one does not crash (a crash there has no
  successor), so a run with one start has none. Three starts crash once in a first run and once in
  the run that resumes it. More starts repeat the same kinds of log prefix.
- `SignalBoots`: the starts in which a shutdown signal may come. A first signal
  acts as a crash at the next check as far as files go, so the crash runs leave it
  out and `retry` has it.
- `MaxLost`: best-effort appends that fail. It is 0 in `crash`, whose properties are
  about the log's content: with lost entries the log proves less (a `done` that was
  lost makes the plan run again). In `retry` one is lost, so a plan does run again. With
  appends that fail for ever a plan would be run for ever, and `DaemonEnds` be false.
- `PlanCounts` bounds fix goals: a title is not queued while it is queued or running,
  and no title has a plan done twice, so finitely many plan files give finitely many
  failed verifications. The code has no bound of its own: agents that write new plan
  files for ever could keep the queue from draining. In `retry` fix goals run both
  plans and queue each other.
- `MaxChanges`: reloads, edits and posts in `Daemon`. One change meets every state
  of the pool.
- `MaxCalls`, `MaxWrites` in `AgentRun`: a second command meets what the first one
  left behind (a write in flight, a late entry); one write in flight is enough to
  come after the unlink.
- Roadmaps of at most two phases with at most two plans: the first and a later
  plan of a phase, the first and a later phase. An empty roadmap is a run of its
  own.
- `MaxBusy`, `MaxDeaths`, `MaxExpiries` in `Intake`: two requests at once meet each other
  at every pair of stages, a third one comes before or after; one crash and one expiry
  fall between any two of their steps. The expiry at a boot is not counted. A daemon
  that a failing dashboard handler ends comes back as well.
- `MaxDeaths` in `Start`: commands and daemons killed; a daemon that ends by itself and a
  command whose classification fails count as killed, since the others see the same.
- In `StateFile`, once two updates have met (`raced`), later ones take turns: the
  properties no longer speak of what happens then, and `SettingsKept`, which does,
  is refuted before.
- In `Upstream` one command synchronises at a time (the guard of `ReadManifest`) and
  upstream moves forward only. Two that overlap share one checkout without a lock; what
  they leave installed is not promised by anything.
- Attempts need no bound: the code's own limit of three is in the guards.
- `Goals` has one full goal, and `DirMatches` no 0, where `PhasesInOrder` and
  `CompleteCoversPlans` are checked. With two full goals they do not hold: the second
  goal finds STATE.md and the phase directories of the first, and the fallback of its
  resume pointer to a stale STATE.md can skip a phase. Nor do they when a planning run
  reports success and leaves no directory, since a later plan's directory then draws
  the pointer past it. Both are conditions of the theorems as well. `PlansInOrder`,
  the order within a phase, needs neither.

### Fairness

`Orchestrator!FairSpec` is weak fairness of the daemon's own steps: the event
loop runs, an agent run ends, a verify command ends with its timeout. That an agent
run ends is what `AgentRun!EveryCallAnswered` shows: there nothing makes an agent
end but the daemon's timers, and the only assumption about the environment is that
a process an agent left behind does not hold its pipes for ever (`HeirsLinger`).
Without that assumption a run need never end: the agent's exit clears the kill timer
(`agent-runner.ts:245`), and "close" waits for the process that is left. `AgentWorks`,
signals, crashes and the operator's `Unpause` are not fair, so no property relies on
them. `Daemon!FairSpec` is weak fairness of each worker
and of the close-down: every promise that is resolved is served and every timer
fires. A worker whose promise nobody resolves has no step, so fairness does not
hide the lost wake-up. An attempt ends because `Orchestrator` says so
(`DaemonEnds`).

`Intake` and `Start` are about safety and state no fairness.

`pool`, `intake`, `start` and the violation runs of these modules set CHECK_DEADLOCK
FALSE: a closed or killed process has no step, and requests and commands come to an end. In `Orchestrator` the end of the bounded starts is the
step `Over`, and deadlock is checked.

## 4. What is proved

TLAPS proves that every invariant and every action property of the passing runs, and
both refinements, hold for every value of the constants that satisfies the named
assumptions of the modules (finite sets of goals, workers, requests and commands,
natural numbers of phases, plans and attempts; no bound on starts, signals, changes,
crashes or expirations). What a theorem assumes beyond them stands in its row.

| theorem | says | argument |
|---|---|---|
| `OrchestratorProofs!Typing` | `TypeOK` of `Orchestrator` | first part of the inductive invariant `IInv` |
| `OrchestratorProofs!AdvancesNeverThrow` | `AdvancesLegal`, for at least one phase | `IInv` relates `pc`, the state machine's phase, `cur` and `target`; `FastForwardLegal` handles the replayed transitions of a resume |
| `OrchestratorProofs!OneRunAfterShutdown` | `AtMostOneRunAfterSignal` | `HandedInv`: no command is counted before the signal, and once one is counted the process is at none of the labels between a check and its agent, nor comes to one again |
| `PlanProofs!PlansRunInOrder` | `PlansInOrder` | `OrderInv`: before a plan that is in hand, in the log, in a late entry or named by a resume pointer, every plan of its phase has an outcome; the log only grows, so they keep theirs |
| `PlanProofs!DoneOnce` | `DoneNotRepeated` | the other half of `OrderInv`: what is done in the phase comes before the plan in hand or in the pointer (`Fresh`), and plans are done in ascending order; a late entry is never "done" |
| `PlanProofs!PhasesRunInOrder` | `PhasesInOrder`, if planning leaves a directory (`PlanningLeavesDir`) and all full goals are one (`OneFullGoal`, which excludes fix goals) | `PassedInv`: every phase before the one in hand, and before any that has a directory, is planned and has nothing left to run; a run is resumed only in a phase that has a directory |
| `PlanProofs!CompleteIsCovered` | `CompleteCoversPlans`, on the same conditions | `CompletePassed`, a part of it: at Complete every phase is passed |
| `LogProofs!OutcomesPaired` | `EntriesPaired`, if no append is lost and no spawn rejected | the last entry of the log is tied to `pc` (`running` between "tick" and "log", `done` at "verify"); every other append is neutral |
| `LogProofs!KeepsLedger` | `ImplementsLedger`, on the same conditions | step simulation from pairing and order: a step appends nothing, or one entry, and each kind of entry is a step of `PlanLedger` |
| `LogProofs!VerifiedFirst` | `NoPlanAfterUnverified` | `DoneVerified`: what the log calls done since the goal was taken is verified or is the plan under verification; a failed verification leaves for "ended", where no plan is run for the goal |
| `AgentProofs!AgentTyping` | `TypeOK` of `AgentRun` | part of its `IInv` |
| `AgentProofs!NothingLeft` | `NothingLeftRunning` | an inductive relation between `pc` and `child`: an attempt is left by "close" or by a rejected spawn only |
| `AgentProofs!HeartbeatFollows` | `HeartbeatFollowsRun` | the interval runs exactly at `running` and `backoff` |
| `AgentProofs!HonestDone` | `DoneIsHonest` | without a timeout there is no abort; the last entry of an extended log tells which step wrote it |
| `AgentProofs!InvokerKeepsContract` | `ImplementsCall`: `AgentRun` implements `AgentCall` | step simulation: accept, answer, late entry and crash are steps of the contract, all others stutter |
| `DaemonProofs!DaemonTyping` | `TypeOK` of `Daemon` | part of its `IInv` |
| `DaemonProofs!MutualExclusion` | `OneGoalAtATime`, for any number of workers | a locked mutex has exactly one worker inside; waiters are blocked workers, each once |
| `DaemonProofs!GoalsTakenOnce` | `NoGoalTwice` | `running` is exactly the goals in hand, disjoint from a queue without duplicates; given that `goals.md` starts without duplicates |
| `DaemonProofs!PauseStopsAll` | `PausedMeansIdle` | the flag appears only while its writer holds the mutex, and the writer leaves only when it is gone or a shutdown has begun |
| `DaemonProofs!PointerStays` | `PointerForHeadOnly` | `completedCount = 1` can only be seen by the worker that took the head; the flag is cleared by the first failed attempt |
| `IntakeProofs!IntakeTypeCorrect` | `TypeOK` of `Intake` | `IntakeType`: the type, and for each request the operations its kind still has to do |
| `IntakeProofs!QueuedGoalsAreWritten` | `QueuedIsWritten` | unless writers met or one was cut off: `LinesInv`, a goal that is written, reported or not yet, is in the file or in what its only writer puts back; and `TornHeld`, a torn file has such a writer |
| `IntakeProofs!NothingQueuedUnconfirmed` | `NothingUnconfirmed` | `FreeInv`: each line in the file, in a writer's hands or about to be added is of a goal that needs no confirmation or has had it; no exception for writers that met, since both write such lines |
| `IntakeProofs!NothingIsOverlooked` | `NothingOverlooked` | `OverlookedInv`: a line that the daemon does not know is unseen, or a change is pending; without a status server this holds of the text on its way back too, and while the daemon boots of every request |
| `IntakeProofs!DraftsAreAccountedFor` | `DraftAccountedFor` | `AccountedInv`: a draft that was shown is stored, or in the hands of a request, dead ones included, or already a line, or expired |
| `IntakeProofs!DraftsAreQueuedOnce` | `QueuedOnce` | `OnceInv`: while one request at a time has the draft, it is not both a draft and a line, and a request that may still bring it finds no line of it |
| `StartProofs!StartTypeCorrect` | `TypeOK` of `Start` | part of `StateInv` |
| `StartProofs!BundlesComplete` | `NamedBundlesComplete`, for any number of commands and deaths | `BundleInv`: a bundle is complete from `json` on, and nothing names it before |
| `StartProofs!InstalledWhenSynced` | `SyncedMeansInstalled`, for any revisions of upstream | `UpstreamProofs!SyncInv`: a readable manifest that names the head of upstream is true (`ManifestInv`); the manifest that a command leaves in place while it installs is of an earlier revision than the one it installs (`Behind`), so if it dies nobody can skip because of it; and what it has installed so far is of its own revision (`Progress`) |
| `StartProofs!OneDaemonAtATime` | `OneDaemon` | `StateInv`: while updates have not met, a readable `state.json` has the project's mode (`CalmInv`), so every script uses one session name; a living daemon is in a session, and tmux has one of a name (`SessionInv`) |
| `StartProofs!SeenDaemonsSpared` | `SeenDaemonSpared` | `PidInv` of the same invariant: a daemon that has beaten and that none has followed finds its own process id and a fresh heartbeat in a readable file, so a command that looks then ends (`LookEnds`); `SpareInv`: it stays so, since rivals and races do not go away (`RivalsStay`) |

A type invariant alone is inductive but proves nothing else. `AdvancesLegal` needs to
know that a plan is only reached from `planning_phase` or `executing_plan`; the order of
plans needs what a resume pointer says of the log it was computed from, at every step
until it is used; mutual exclusion needs the positions of waiters and holder.

The proofs about `Intake` share two ideas. Every step of the system is one of eight kinds
(a request comes, talks to the agent, reads a file, opens it for writing, stores drafts,
stores lines, signals, or rests; lemma `Steps`), and what a kind leaves alone is said
once. And unless writers met, who has a file open is alone with it (`LinesAlone`,
`DraftsAlone`), so the text of the file, or what its writer is putting back when it
is torn (`LineText`, `DraftText`), changes only when a request stores something; the
invariants speak of that text.

What trying to prove showed of the model:

- `PlansInOrder` used to speak of all phases at once. Across phases it holds only on the
  two conditions above, which the proof of a resume pointer asks for; the two halves are
  properties of their own now, and the first needs no condition.
- That a start command spares a daemon it could see was false for three commands without
  `./run`: a second daemon's last update can leave its process id over that of the
  first. `SeenDaemonSpared` is stated for a daemon that no other has followed.
- `NoPlanAfterUnverified` took a bound on starts and goals that are queued once before it
  counted from the moment the goal is taken; it needs neither now.
- `NothingOverlooked` was false for three `add-goal` commands without a status server:
  the last of two that meet brings a line back which the daemon had found gone and
  whose flag it had already seen.
- `PlanLedger` had one action for a failed verification and for an invalid plan; the
  two differ in what may be open before them.

Only model-checked: the liveness properties (`DaemonEnds`, `ShutdownEnds`,
`EveryCallAnswered`, `QueuedGoalRuns`, `ShutdownEndsButFor`). They rest on fairness and
so on ENABLED, which is out of the prover's reach.

## 5. What is left out

- The text of prompts, messages, logs, SMS and dashboards; ngrok; the wizard;
  paths and configuration parsing. They decide nothing in the modelled control.
- Errors of file writes other than log appends and the pause flag (for instance a
  full disk while STATE.md is written): they throw and take the path of `Throw`
  from a point where the model has no throw.
- A phase's number in ROADMAP.md may be a decimal; the log uses its index, and so
  does the model. Plan numbers are 1..n without gaps.
- ROADMAP.md, PROJECT.md and the phase directories are produced by agents and not
  deleted. A plan file stays where it is.
- No property promises what the code does not keep: a goal that was reported as queued
  is lost when a writer of `goals.md` is killed between truncation and write, since
  nothing repairs the file (`CutOff`); a daemon that beats only after a start command
  has looked at `state.json` is killed by its `./run` or doubled by its npx; a plan whose
  verification a crash cut off is never verified. All three happen in the runs, where
  the properties except them by name.
- In `Orchestrator` a write of STATE.md is one step that a crash may cut off; a reader
  that meets it half-written is left out, since the one process writes and reads it in
  turn.
- In `Orchestrator` the heartbeat file goes when a run ends; `AgentRun` has the
  write in flight that may bring it back. An agent process that outlives a crashed
  daemon is in neither.
- `Daemon` has no crash: it is about one process, `Orchestrator` about
  restarts.
- `waitForHeadroom` delays a plan and decides nothing (that a signal may come while it
  waits is modelled); the events of `StateWatcher`
  reach log lines only. Neither changes a state that another part reads.
- `Intake` takes `goals.md` of the workspace, which `queueGoal` writes, and
  `config.goalsPath`, which the daemon reads, for one file.
- In `Start` the id of a bundle is the command's own (the code takes the second and the
  title), queueing the goal is one step (`Intake` has its steps), a daemon has one
  worker, and a process id is not used again. Copying a tree is one step: a command
  killed in it leaves the tree out, which the next one treats the same way.
- The `new-project` command, the todo file, the config editor of the dashboard and
  authentication.

## 6. Plan

Done in this order: `Lifecycle`, `SessionLog`, `Recovery`, `Orchestrator` with its
runs, `PlanLedger` and the refinement, `Daemon`, `AgentRun` with `AgentCall`, their
proofs; then `Intake`, `Files`, `StateFile`, `Upstream`, `Start` and the proofs about
bundles and synchronisation.
The proofs about the order of plans, the ledger, the daemons and the intake followed.

Next theorems, in the order of their worth:

1. The safe part of the liveness properties: in `Daemon`, that every worker that waits
   is one the wake-up slot, the mutex or a timer will serve, except for the two named
   traps (what `Stranded` and `PausedAtGate` except and no more); in `Orchestrator`,
   that the attempts of a goal only grow; in `AgentRun`, that an attempt in progress
   has a timer, a kill in progress or an agent that has ended.
2. What a resume pointer guarantees with several full goals, as a theorem with the
   weakest condition on STATE.md.

Next models: a refinement from `Orchestrator`, seen from the worker, to one worker of
`Daemon`; overlapping synchronisations in `Upstream`, once it is clear what they
should promise.
