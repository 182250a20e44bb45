------------------------------- MODULE Daemon -------------------------------
(***************************************************************************)
(* The goal loop of daemon.ts in one process: the queue and its hot reload *)
(* from goals.md, the pool of workers, the single wake-up slot they share, *)
(* the workspace mutex, the attempts at a goal and the pause flag, up to   *)
(* the shutdown that waits for every worker.  orchestrateGoal is one step  *)
(* sequence here ("attempt"): module Orchestrator has its inside.          *)
(*                                                                         *)
(* The code between two awaits is one step of one worker.                  *)
(***************************************************************************)
EXTENDS Integers, Sequences, FiniteSets

CONSTANTS
  Titles,           \* goal titles
  InitialPending,   \* the Pending list of goals.md, in execution order
  FixTitles,        \* titles of the goals queued after a failed verification
  Workers,          \* the workers of the pool: one, or maxConcurrent
  NoGoal,           \* not a title
  NoWorker,         \* not a worker
  AutoFix,          \* config.autoFixOnVerifyFail
  Resuming,         \* computeResumePointer found a pointer for the first goal
  MaxChanges        \* bound: changes of goals.md from outside and reloads

\* The code queues goals.md as it is; titles that occur twice in it at the start
\* are not looked for.
ASSUME QueueAssumption ==
  /\ InitialPending \in Seq(Titles)
  /\ \A i, j \in DOMAIN InitialPending :
        InitialPending[i] = InitialPending[j] => i = j
  /\ FixTitles \subseteq Titles /\ NoGoal \notin Titles
  /\ IsFiniteSet(Titles)

ASSUME PoolAssumption ==
  /\ Workers # {} /\ IsFiniteSet(Workers) /\ NoWorker \notin Workers
  /\ AutoFix \in BOOLEAN /\ Resuming \in BOOLEAN
  /\ MaxChanges \in Nat
  /\ Resuming => InitialPending # <<>>

VARIABLES
  server,          \* config.statusServerPort is set; never changes
  pending,         \* goals.md: the Pending list
  pauseFlag,       \* does .pause-autopilot exist?
  up,              \* the process: "up", "closed" or "killed"
  shuttingDown,    \* a first signal was received
  queue,           \* goals not taken yet
  running,         \* titles of the goals in hand
  completedCount,  \* goals taken so far
  wakeResolver,    \* the worker the next wake() reaches
  locked, waiters, \* workspaceMutex: its flag and its waiting workers
  wpc,             \* where each worker is
  wgoal,           \* the goal each worker has in hand
  attempt,         \* its attempt at it
  pointer,         \* is it run with the resume pointer?
  finished,        \* history: titles whose run has ended
  changes          \* bound counter

files == <<pending, pauseFlag>>
pool  == <<queue, running, completedCount, wakeResolver>>
mutex == <<locked, waiters>>
work  == <<wgoal, attempt, pointer>>
proc  == <<server, up, shuttingDown>>
hist  == <<finished, changes>>
vars  == <<files, pool, mutex, wpc, work, proc, hist>>

Init ==
  /\ pending = InitialPending /\ pauseFlag \in BOOLEAN
  /\ server \in BOOLEAN /\ up = "up" /\ shuttingDown = FALSE
  /\ queue = InitialPending /\ running = {} /\ completedCount = 0
  /\ wakeResolver = NoWorker
  /\ locked = FALSE /\ waiters = <<>>
  /\ wpc = [w \in Workers |-> "loop"] /\ wgoal = [w \in Workers |-> NoGoal]
  /\ attempt = [w \in Workers |-> 0] /\ pointer = [w \in Workers |-> FALSE]
  /\ finished = {} /\ changes = 0

Elements(s) == { s[i] : i \in DOMAIN s }

Goto(w, label) == wpc' = [wpc EXCEPT ![w] = label]

-----------------------------------------------------------------------------
(* The queue *)

\* wake(): the worker in the slot, if any, goes back to its loop.
Woken(labels) ==
  IF wakeResolver = NoWorker THEN labels
                             ELSE [labels EXCEPT ![wakeResolver] = "loop"]

\* Mutant of NotQueued: goals in hand are not looked at.
NotQueuedButTaken == Titles \ Elements(queue)

\* The titles addToQueue accepts.  Goals that have run already are among them.
NotQueued == Titles \ (running \cup Elements(queue))

\* addToQueue of a whole list, in order: each new title once, and a wake-up.
AddToQueue(ts, labels) ==
  /\ queue' = queue \o ts
  /\ IF ts = <<>> THEN wpc' = labels /\ UNCHANGED wakeResolver
                  ELSE wpc' = Woken(labels) /\ wakeResolver' = NoWorker

\* The new titles of goals.md, each once, in the order of their first occurrence.
Precedes(s, t) ==
  \E k \in DOMAIN pending : pending[k] = s /\ \A l \in 1..k : pending[l] # t

NewGoals ==
  LET new == Elements(pending) \cap NotQueued
  IN  { ts \in [1..Cardinality(new) -> new] :
          \A i, j \in DOMAIN ts : i < j => Precedes(ts[i], ts[j]) }

-----------------------------------------------------------------------------
(* A worker *)

WorkerLoop(w) ==
  /\ wpc[w] = "loop"
  /\ Goto(w, IF shuttingDown THEN "done" ELSE "gate")
  /\ UNCHANGED <<files, pool, mutex, work, proc, hist>>

\* Past the pause loop, which only looks at the flag.
TakeGoal(w) ==
  /\ wpc[w] = "gate" /\ ~pauseFlag /\ queue # <<>>
  /\ queue' = Tail(queue)
  /\ running' = running \cup {Head(queue)}
  /\ wgoal' = [wgoal EXCEPT ![w] = Head(queue)]
  /\ completedCount' = completedCount + 1
  /\ Goto(w, "taken")
  /\ UNCHANGED <<files, wakeResolver, mutex, attempt, pointer, proc, hist>>

\* No goal left: the worker is done, or waits in the only wake-up slot.
NoGoalLeft(w) ==
  /\ wpc[w] = "gate" /\ ~pauseFlag /\ queue = <<>>
  /\ IF running = {} /\ ~server
       THEN Goto(w, "done") /\ UNCHANGED wakeResolver
       ELSE Goto(w, "waiting") /\ wakeResolver' = w
  /\ UNCHANGED <<files, queue, running, completedCount, mutex, work, proc, hist>>

\* Mutant of WaitTimeout: the timer clears the slot and resolves nothing.
WaitTimeoutLost(w) ==
  /\ wpc[w] = "waiting" /\ wakeResolver = w
  /\ wakeResolver' = NoWorker
  /\ UNCHANGED <<files, queue, running, completedCount, mutex, wpc, work, proc, hist>>

\* Its timer resolves a wait only if the slot is still its own.
WaitTimeout(w) ==
  /\ wpc[w] = "waiting" /\ wakeResolver = w
  /\ wakeResolver' = NoWorker
  /\ Goto(w, "loop")
  /\ UNCHANGED <<files, queue, running, completedCount, mutex, work, proc, hist>>

\* A signal came while state.json was written: the goal goes back.
GiveBack(w) ==
  /\ wpc[w] = "taken" /\ shuttingDown
  /\ queue' = <<wgoal[w]>> \o queue
  /\ running' = running \ {wgoal[w]}
  /\ wgoal' = [wgoal EXCEPT ![w] = NoGoal]
  /\ Goto(w, "done")
  /\ UNCHANGED <<files, completedCount, wakeResolver, mutex, attempt, pointer,
                 proc, hist>>

\* workspaceMutex.run: wait, or lock and start the first attempt.
Acquire(w) ==
  IF locked
    THEN /\ waiters' = Append(waiters, w)
         /\ Goto(w, "blocked")
         /\ UNCHANGED <<locked, attempt>>
    ELSE /\ locked' = TRUE
         /\ attempt' = [attempt EXCEPT ![w] = 1]
         /\ Goto(w, "attempt")
         /\ UNCHANGED waiters

\* Mutant of BeginGoal: whichever worker comes first counts as the first.
BeginGoalEarly(w) ==
  /\ wpc[w] = "taken" /\ ~shuttingDown
  /\ pointer' = [pointer EXCEPT ![w] = finished = {} /\ Resuming]
  /\ Acquire(w)
  /\ UNCHANGED <<files, pool, wgoal, proc, hist>>

\* isFirst is worked out after the await: completedCount counts every worker.
BeginGoal(w) ==
  /\ wpc[w] = "taken" /\ ~shuttingDown
  /\ pointer' = [pointer EXCEPT ![w] = completedCount = 1 /\ Resuming]
  /\ Acquire(w)
  /\ UNCHANGED <<files, pool, wgoal, proc, hist>>

\* Mutant of Retry: a woken waiter takes the mutex without looking again.
RetryBlindly(w) ==
  /\ wpc[w] = "woken"
  /\ locked' = TRUE
  /\ attempt' = [attempt EXCEPT ![w] = 1]
  /\ Goto(w, "attempt")
  /\ UNCHANGED <<files, pool, waiters, wgoal, pointer, proc, hist>>

\* A woken waiter looks again: another worker may have come first.
Retry(w) ==
  /\ wpc[w] = "woken"
  /\ Acquire(w)
  /\ UNCHANGED <<files, pool, wgoal, pointer, proc, hist>>

\* orchestrateGoal returns, whether the goal was completed or failed.
GoalReturns(w) ==
  /\ wpc[w] = "attempt"
  /\ Goto(w, "ended")
  /\ UNCHANGED <<files, pool, mutex, work, proc, hist>>

\* A failed verification first queues a goal to fix it.
GoalQueuesFix(w) ==
  /\ wpc[w] = "attempt" /\ AutoFix
  /\ \E t \in FixTitles :
       AddToQueue(IF t \in NotQueued THEN <<t>> ELSE <<>>,
                  [wpc EXCEPT ![w] = "ended"])
  /\ UNCHANGED <<files, running, completedCount, mutex, work, proc, hist>>

\* Mutant of GoalThrows: after the third attempt the worker goes on.
GoalThrowsOn(w) ==
  /\ wpc[w] = "attempt"
  /\ pointer' = [pointer EXCEPT ![w] = FALSE]
  /\ \/ /\ attempt[w] < 3
        /\ attempt' = [attempt EXCEPT ![w] = @ + 1]
        /\ UNCHANGED <<wpc, pauseFlag>>
     \/ /\ attempt[w] >= 3
        /\ pauseFlag' = TRUE
        /\ Goto(w, "ended")
        /\ UNCHANGED attempt
  /\ UNCHANGED <<pending, pool, mutex, wgoal, proc, hist>>

\* Mutant of GoalThrows: the attempt limit is off by one.
GoalThrowsFourTimes(w) ==
  /\ wpc[w] = "attempt"
  /\ pointer' = [pointer EXCEPT ![w] = FALSE]
  /\ \/ /\ attempt[w] <= 3
        /\ attempt' = [attempt EXCEPT ![w] = @ + 1]
        /\ UNCHANGED <<wpc, pauseFlag>>
     \/ /\ attempt[w] > 3
        /\ pauseFlag' \in {pauseFlag, TRUE}
        /\ Goto(w, "paused")
        /\ UNCHANGED attempt
  /\ UNCHANGED <<pending, pool, mutex, wgoal, proc, hist>>

\* It throws: a further attempt without the pointer, or, after the third, the
\* pause flag, whose write may fail.
GoalThrows(w) ==
  /\ wpc[w] = "attempt"
  /\ pointer' = [pointer EXCEPT ![w] = FALSE]
  /\ \/ /\ attempt[w] < 3
        /\ attempt' = [attempt EXCEPT ![w] = @ + 1]
        /\ UNCHANGED <<wpc, pauseFlag>>
     \/ /\ attempt[w] >= 3
        /\ pauseFlag' \in {pauseFlag, TRUE}
        /\ Goto(w, "paused")
        /\ UNCHANGED attempt
  /\ UNCHANGED <<pending, pool, mutex, wgoal, proc, hist>>

\* The pause after a third attempt keeps the mutex.
LeavePause(w) ==
  /\ wpc[w] = "paused"
  /\ ~pauseFlag \/ shuttingDown
  /\ Goto(w, "ended")
  /\ UNCHANGED <<files, pool, mutex, work, proc, hist>>

\* Mutant of EndGoal: the next waiter is not woken.
EndGoalQuietly(w) ==
  /\ wpc[w] = "ended"
  /\ locked' = FALSE
  /\ waiters' = IF waiters = <<>> THEN <<>> ELSE Tail(waiters)
  /\ Goto(w, "reporting")
  /\ running' = running \ {wgoal[w]}
  /\ finished' = finished \cup {wgoal[w]}
  /\ wgoal' = [wgoal EXCEPT ![w] = NoGoal]
  /\ attempt' = [attempt EXCEPT ![w] = 0]
  /\ pointer' = [pointer EXCEPT ![w] = FALSE]
  /\ UNCHANGED <<files, queue, completedCount, wakeResolver, proc, changes>>

\* The mutex is released, its first waiter woken, the goal out of hand.
EndGoal(w) ==
  /\ wpc[w] = "ended"
  /\ locked' = FALSE
  /\ IF waiters = <<>>
       THEN Goto(w, "reporting") /\ UNCHANGED waiters
       ELSE /\ wpc' = [wpc EXCEPT ![w] = "reporting", ![Head(waiters)] = "woken"]
            /\ waiters' = Tail(waiters)
  /\ running' = running \ {wgoal[w]}
  /\ finished' = finished \cup {wgoal[w]}
  /\ wgoal' = [wgoal EXCEPT ![w] = NoGoal]
  /\ attempt' = [attempt EXCEPT ![w] = 0]
  /\ pointer' = [pointer EXCEPT ![w] = FALSE]
  /\ UNCHANGED <<files, queue, completedCount, wakeResolver, proc, changes>>

\* state.json is written; wake().
Report(w) ==
  /\ wpc[w] = "reporting"
  /\ wpc' = Woken([wpc EXCEPT ![w] = "loop"])
  /\ wakeResolver' = NoWorker
  /\ UNCHANGED <<files, queue, running, completedCount, mutex, work, proc, hist>>

Worker(w) ==
  \/ WorkerLoop(w) \/ TakeGoal(w) \/ NoGoalLeft(w) \/ WaitTimeout(w) \/ GiveBack(w)
  \/ BeginGoal(w) \/ Retry(w)
  \/ GoalReturns(w) \/ GoalQueuesFix(w) \/ GoalThrows(w)
  \/ LeavePause(w) \/ EndGoal(w) \/ Report(w)

-----------------------------------------------------------------------------
(* The rest of the process, and its environment *)

\* Promise.all: every worker is done; watcher, timers and server are closed.
Close ==
  /\ \A w \in Workers : wpc[w] = "done"
  /\ up' = "closed"
  /\ UNCHANGED <<files, pool, mutex, wpc, work, server, shuttingDown, hist>>

\* Somebody edits goals.md.
EditGoals ==
  /\ changes < MaxChanges /\ changes' = changes + 1
  /\ \E t \in Titles \ Elements(pending) : pending' = Append(pending, t)
  /\ UNCHANGED <<pauseFlag, pool, mutex, wpc, work, proc, finished>>

\* The watcher's doReload, after any touch of the watched files.
Reload ==
  /\ changes < MaxChanges /\ changes' = changes + 1
  /\ \E ts \in NewGoals : AddToQueue(ts, wpc)
  /\ UNCHANGED <<files, running, completedCount, mutex, work, proc, finished>>

\* POST /api/goals and POST /webhook/twilio: appendPendingGoal, then onQueueGoal.
PostGoal ==
  /\ server
  /\ changes < MaxChanges /\ changes' = changes + 1
  /\ \E t \in Titles :
       /\ pending' = <<t>> \o pending
       /\ AddToQueue(IF t \in NotQueued THEN <<t>> ELSE <<>>, wpc)
  /\ UNCHANGED <<pauseFlag, running, completedCount, mutex, work, proc, finished>>

Signal ==
  /\ \/ ~shuttingDown /\ shuttingDown' = TRUE /\ UNCHANGED up
     \/ shuttingDown /\ up' = "killed" /\ UNCHANGED shuttingDown
  /\ UNCHANGED <<files, pool, mutex, wpc, work, server, hist>>

Unpause ==
  /\ pauseFlag /\ pauseFlag' = FALSE
  /\ UNCHANGED <<pending, pool, mutex, wpc, work, proc, hist>>

DaemonStep == up = "up" /\ ((\E w \in Workers : Worker(w)) \/ Close)

Environment == up = "up" /\ (EditGoals \/ Reload \/ PostGoal \/ Signal \/ Unpause)

Next == DaemonStep \/ Environment

Spec == Init /\ [][Next]_vars

\* Every worker's promises and timers are served; an attempt comes to an end.
FairSpec ==
  /\ Spec
  /\ \A w \in Workers : WF_vars(up = "up" /\ Worker(w))
  /\ WF_vars(up = "up" /\ Close)

-----------------------------------------------------------------------------
(* Properties *)

Labels == { "loop", "gate", "waiting", "taken", "blocked", "woken", "attempt",
            "paused", "ended", "reporting", "done" }

\* The type of every variable.
TypeOK ==
  /\ pending \in Seq(Titles) /\ pauseFlag \in BOOLEAN
  /\ server \in BOOLEAN /\ up \in {"up", "closed", "killed"} /\ shuttingDown \in BOOLEAN
  /\ queue \in Seq(Titles) /\ running \in SUBSET Titles /\ completedCount \in Nat
  /\ wakeResolver \in Workers \cup {NoWorker}
  /\ locked \in BOOLEAN /\ waiters \in Seq(Workers)
  /\ wpc \in [Workers -> Labels] /\ wgoal \in [Workers -> Titles \cup {NoGoal}]
  /\ attempt \in [Workers -> 0..3] /\ pointer \in [Workers -> BOOLEAN]
  /\ finished \in SUBSET Titles /\ changes \in Nat

InMutex(w) == wpc[w] \in {"attempt", "paused", "ended"}

\* However the workers' wake-ups interleave, one goal at a time is worked on.
OneGoalAtATime == \A v, w \in Workers : InMutex(v) /\ InMutex(w) => v = w

\* Two workers never have the same goal in hand, whatever is reloaded, posted,
\* queued as a fix or given back while goals run.
NoGoalTwice ==
  \A v, w \in Workers : wgoal[v] = wgoal[w] /\ wgoal[v] # NoGoal => v = w

\* While the pause flag stands nobody works on a goal, though only the worker
\* that wrote it has looked: it keeps the mutex.
PausedMeansIdle ==
  pauseFlag /\ ~shuttingDown => \A w \in Workers : wpc[w] # "attempt"

\* The resume pointer of the crashed goal is used for no other goal, nor for a
\* second attempt.
PointerForHeadOnly ==
  \A w \in Workers : pointer[w] => wgoal[w] = Head(InitialPending) /\ attempt[w] <= 1

\* A queued goal is taken at last, unless the daemon is paused or stopped.
QueuedGoalRuns ==
  \A t \in Titles :
    t \in Elements(queue) ~> (t \in running \/ pauseFlag \/ shuttingDown \/ up # "up")

\* A worker waits whose wake-up slot another worker has taken: nothing will ever
\* resolve its promise.
Stranded == \E w \in Workers : wpc[w] = "waiting" /\ wakeResolver # w

\* A worker sits in the pause loop before a goal, which ignores a shutdown.
PausedAtGate == pauseFlag /\ \E w \in Workers : wpc[w] = "gate"

\* These two apart, a shutdown signal ends the process: no worker is left behind
\* in the mutex, in an attempt or in the pause after one.
ShutdownEndsButFor ==
  shuttingDown ~> (up # "up" \/ PausedAtGate \/ Stranded)

\* What ARCHITECTURE.md says: the status server is closed on shutdown, which
\* needs every worker to come to its end.
ShutdownEnds == shuttingDown ~> (up # "up" \/ PausedAtGate)

\* What tests/daemon-goals-reload.test.ts says: a completed goal is not queued
\* again when the file changes.
FinishedNotTaken ==
  \A w \in Workers : wgoal[w] # NoGoal => wgoal[w] \notin finished

=============================================================================
