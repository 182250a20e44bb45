------------------------------ MODULE AgentRun ------------------------------
(***************************************************************************)
(* An agent invoker (cursor-agent.ts) at work on one command after the     *)
(* other: the agent process it starts (agent-runner.ts), the processes     *)
(* that one starts in turn, the timeout and the kill escalation, the       *)
(* retries, the heartbeat file and the log entries.  The daemon may be     *)
(* killed at any point and started again.                                  *)
(*                                                                         *)
(* The three invokers (cursor, cn, codex) are the same text but for the    *)
(* retries and for what counts as a result, and so are the three ways to   *)
(* run a child process.  "map" names each of the copies once.              *)
(***************************************************************************)
EXTENDS Integers, Sequences

CONSTANTS
  Agents,         \* the agents to choose from: see AllAgents
  MaxAttempts,    \* retryPolicy.maxAttempts
  HeirsLinger,    \* may a process that an agent left behind run for ever?
  MaxCalls,       \* bound: commands
  MaxBoots,       \* bound: starts of the daemon
  MaxWrites       \* bound: heartbeat writes in flight when another one starts

AllAgents == { "cursor", "cn", "codex" }

\* 0; a code of nonRetryableExitCodes; any other; null, for a killed process.
ExitCodes == { "zero", "fatal", "other", "signal" }

ASSUME AgentAssumption ==
  /\ Agents \subseteq AllAgents /\ Agents # {}
  /\ MaxAttempts \in Nat \ {0}
  /\ HeirsLinger \in BOOLEAN
  /\ MaxCalls \in Nat /\ MaxBoots \in Nat /\ MaxWrites \in Nat

VARIABLES
  (* files *)
  log,            \* the session log, as far as calls and statuses go
  heartbeat,      \* does .planning/heartbeat.txt exist?
  (* the daemon *)
  pc,             \* what the invoker waits for; "idle" between two commands
  agent,          \* config.agent
  calls,          \* the number of the command in hand or of the last one
  attempt,        \* of runAgentWithRetry
  timer,          \* is the timeout armed?
  timedOut,
  abort,          \* how far abortAgent is
  beating,        \* is the heartbeat interval running?
  writes,         \* heartbeat writes in flight
  late,           \* rejected calls whose log entry nobody awaits
  (* the operating system *)
  child,          \* the process of this attempt
  code,           \* its exit code
  result,         \* the last result event on its output
  heir,           \* does a process that it started hold its pipes open?
  (* history *)
  boots,          \* starts of the daemon so far
  revived         \* did a write bring the heartbeat file back after the unlink?

call == <<pc, agent, calls, attempt, late>>
clock == <<timer, timedOut, abort>>
beat == <<heartbeat, beating, writes, revived>>
os == <<child, code, result, heir>>
vars == <<call, clock, beat, os, log, boots>>

NoChild ==
  /\ child' = "none" /\ code' = "none" /\ result' = "none" /\ heir' = FALSE

Init ==
  /\ log = <<>> /\ heartbeat = FALSE
  /\ pc = "idle" /\ agent \in Agents /\ calls = 0 /\ attempt = 0
  /\ timer = FALSE /\ timedOut = FALSE /\ abort = "none"
  /\ beating = FALSE /\ writes = 0 /\ late = {}
  /\ child = "none" /\ code = "none" /\ result = "none"
  /\ heir = FALSE
  /\ boots = 1 /\ revived = FALSE

CallEntry(n, s) == [call |-> n, status |-> s]

-----------------------------------------------------------------------------
(* A command is accepted; its first attempt starts *)

\* The prompt is ready and the running entry is appended.
Accept ==
  /\ pc = "idle" /\ calls < MaxCalls
  /\ calls' = calls + 1 /\ attempt' = 0
  /\ log' = Append(log, CallEntry(calls', "running"))
  /\ pc' = "accepted"
  /\ UNCHANGED <<agent, late, clock, beat, os, boots>>

\* runAgentOnce: the process runs, or the "error" event of a failed spawn comes.
Spawn ==
  /\ child' \in {"alive", "unspawned"}
  /\ code' = "none" /\ result' = "none" /\ heir' = FALSE
  /\ timer' = TRUE /\ timedOut' = FALSE /\ abort' = "none"
  /\ attempt' = attempt + 1
  /\ pc' = "running"

\* The first heartbeat is written, the interval starts, and so does the agent.
Start ==
  /\ pc = "accepted"
  /\ writes' = writes + 1 /\ beating' = TRUE
  /\ Spawn
  /\ UNCHANGED <<agent, calls, late, heartbeat, revived, log, boots>>

\* The backoff is over.
StartAgain ==
  /\ pc = "backoff"
  /\ Spawn
  /\ UNCHANGED <<agent, calls, late, beat, log, boots>>

-----------------------------------------------------------------------------
(* The attempt ends *)

\* Mutant of MaxTries: maxAttempts taken for the number of retries.
MaxTriesAndOne == IF agent = "cursor" THEN MaxAttempts + 1 ELSE 1

MaxTries == IF agent = "cursor" THEN MaxAttempts ELSE 1

\* Mutant of Retryable: a timeout is retried like a crash.
RetryableAlways == code # "zero" /\ code # "fatal"

\* An attempt is repeated after a failure, not after a timeout or a fatal code.
Retryable == code # "zero" /\ ~timedOut /\ code # "fatal"

\* runAgentWithRetry gives the last result to the invoker, which clears the
\* heartbeat interval at once.
HandOver == pc' = "unlinking" /\ beating' = FALSE

\* Mutant of Close: the attempt is over as soon as its own process is.
CloseOnExit ==
  /\ pc = "running" /\ child = "exited"
  /\ timer' = FALSE
  /\ IF Retryable /\ attempt < MaxTries
       THEN pc' = "backoff" /\ beating' = beating
       ELSE HandOver
  /\ UNCHANGED <<agent, calls, attempt, late, timedOut, abort, heartbeat,
                 writes, revived, os, log, boots>>

\* The "close" event: the process has exited and nobody holds its pipes.  What
\* is left of an abort finds a dead process.
Close ==
  /\ pc = "running" /\ child = "exited" /\ ~heir
  /\ timer' = FALSE
  /\ IF Retryable /\ attempt < MaxTries
       THEN pc' = "backoff" /\ beating' = beating
       ELSE HandOver
  /\ UNCHANGED <<agent, calls, attempt, late, timedOut, abort, heartbeat,
                 writes, revived, os, log, boots>>

\* Mutant of SpawnError: the catch branch leaves the interval running.
SpawnErrorBeating ==
  /\ pc = "running" /\ child = "unspawned"
  /\ timer' = FALSE
  /\ pc' = "unlinking"
  /\ UNCHANGED <<agent, calls, attempt, late, timedOut, abort, heartbeat,
                 beating, writes, revived, os, log, boots>>

\* The "error" event: the promise rejects and nothing retries it.
SpawnError ==
  /\ pc = "running" /\ child = "unspawned"
  /\ timer' = FALSE
  /\ HandOver
  /\ UNCHANGED <<agent, calls, attempt, late, timedOut, abort, heartbeat,
                 writes, revived, os, log, boots>>

\* The second part of stopHeartbeat.
Unlink ==
  /\ pc = "unlinking"
  /\ heartbeat' = FALSE /\ revived' = FALSE
  /\ pc' = "logging"
  /\ UNCHANGED <<agent, calls, attempt, late, clock, beating, writes, os,
                 log, boots>>

-----------------------------------------------------------------------------
(* The verdict *)

\* An exit code 0 is a result for cn, whatever its output says.
CnResult == code = "zero"

\* And so it is for codex.
CodexResult == code = "zero"

\* cursor-agent has to send a result event; one that reports an error will do.
CursorResult == result # "none"

HasResult ==
  CASE agent = "cursor" -> CursorResult
    [] agent = "cn"     -> CnResult
    [] agent = "codex"  -> CodexResult

\* Mutant of Verdict: the timeout is looked at last.
VerdictByCode ==
  IF child = "unspawned" THEN "rejected"
  ELSE IF code = "zero" /\ HasResult THEN "done"
  ELSE IF timedOut THEN "timeout"
  ELSE "crashed"

Verdict ==
  IF child = "unspawned" THEN "rejected"
  ELSE IF timedOut THEN "timeout"
  ELSE IF code = "zero" /\ HasResult THEN "done"
  ELSE "crashed"

\* Mutant of Answer: a rejected call is logged like every other one, and again
\* by the append that nobody awaits.
AnswerTwice ==
  /\ pc = "logging"
  /\ pc' = "idle"
  /\ log' = Append(log, CallEntry(calls,
                     IF Verdict = "rejected" THEN "crashed" ELSE Verdict))
  /\ late' = IF Verdict = "rejected" THEN late \cup {calls} ELSE late
  /\ NoChild /\ abort' = "none"
  /\ UNCHANGED <<agent, calls, attempt, timer, timedOut, beat, boots>>

\* The outcome is appended and the caller answered; the catch branch answers
\* without waiting for its append.
Answer ==
  /\ pc = "logging"
  /\ pc' = "idle"
  /\ IF Verdict = "rejected"
       THEN late' = late \cup {calls} /\ log' = log
       ELSE late' = late /\ log' = Append(log, CallEntry(calls, Verdict))
  /\ NoChild /\ abort' = "none"
  /\ UNCHANGED <<agent, calls, attempt, timer, timedOut, beat, boots>>

\* The append of a rejected call reaches the log.
LateEntry ==
  /\ pc # "down"
  /\ \E n \in late : /\ log' = Append(log, CallEntry(n, "crashed"))
                     /\ late' = late \ {n}
  /\ UNCHANGED <<pc, agent, calls, attempt, clock, beat, os, boots>>

-----------------------------------------------------------------------------
(* Timeout and abort *)

Timeout ==
  /\ pc = "running" /\ timer /\ child # "unspawned"
  /\ timer' = FALSE /\ timedOut' = TRUE
  /\ abort' = "terming"
  /\ UNCHANGED <<call, beat, os, log, boots>>

\* Mutant of Terminate: no SIGKILL for a process that ignores SIGTERM.
TerminateOnly ==
  /\ pc = "running" /\ abort = "terming"
  /\ abort' = "over"
  /\ heir' \in IF child = "alive" THEN {heir, FALSE} ELSE {heir}
  /\ UNCHANGED <<call, timer, timedOut, beat, child, code, result,
                 log, boots>>

\* tree-kill has sent SIGTERM to the process and to those below it; below a
\* process that is gone it finds none.  The kill timer is armed: the listener for
\* "exit" comes too late for a process that has exited.  An error escalates at
\* once.
Terminate ==
  /\ pc = "running" /\ abort = "terming"
  /\ abort' \in {"armed", "killing"}
  /\ heir' \in IF child = "alive" THEN {heir, FALSE} ELSE {heir}
  /\ UNCHANGED <<call, timer, timedOut, beat, child, code, result,
                 log, boots>>

\* Five seconds later.
KillTimer ==
  /\ pc = "running" /\ abort = "armed"
  /\ abort' = "killing"
  /\ UNCHANGED <<call, timer, timedOut, beat, os, log, boots>>

\* tree-kill has sent SIGKILL, to as much of the tree as it found.
Kill ==
  /\ pc = "running" /\ abort = "killing"
  /\ abort' = "over"
  /\ IF child = "alive"
       THEN child' = "exited" /\ code' = "signal" /\ heir' \in {heir, FALSE}
       ELSE UNCHANGED <<child, code, heir>>
  /\ UNCHANGED <<call, timer, timedOut, beat, result, log, boots>>

-----------------------------------------------------------------------------
(* The heartbeat *)

Tick ==
  /\ beating /\ writes < MaxWrites
  /\ writes' = writes + 1
  /\ UNCHANGED <<call, clock, heartbeat, beating, revived, os, log, boots>>

\* A write reaches the file or fails; nobody waits for it, and the interval may
\* be over by then.
WriteLands ==
  /\ writes > 0
  /\ writes' = writes - 1
  /\ \/ heartbeat' = TRUE /\ revived' = (revived \/ pc \in {"logging", "idle"})
     \/ UNCHANGED <<heartbeat, revived>>
  /\ UNCHANGED <<call, clock, beating, os, log, boots>>

-----------------------------------------------------------------------------
(* The environment *)

\* An agent process exits by itself or because of SIGTERM; an armed kill timer
\* is cleared.
Exit ==
  /\ child = "alive"
  /\ child' = "exited" /\ code' \in ExitCodes
  /\ abort' = IF abort = "armed" THEN "over" ELSE abort
  /\ UNCHANGED <<call, timer, timedOut, beat, result, heir, log, boots>>

\* A result event on the output; extractResult takes the last one.
Report ==
  /\ child = "alive" /\ agent = "cursor"
  /\ result' \in {"ok", "error"}
  /\ UNCHANGED <<call, clock, beat, child, code, heir, log, boots>>

\* The agent starts a process that inherits its pipes, a server for instance.
Inherit ==
  /\ child = "alive" /\ ~heir
  /\ heir' = TRUE
  /\ UNCHANGED <<call, clock, beat, child, code, result, log, boots>>

\* Such a process ends, or closes the pipes.
HeirEnds ==
  /\ heir
  /\ heir' = FALSE
  /\ UNCHANGED <<call, clock, beat, child, code, result, log, boots>>

\* The daemon is killed, or forced to exit by a second signal.  Its agent may run
\* on, as nobody's child.
Crash ==
  /\ pc # "down"
  /\ pc' = "down" /\ late' = {} /\ attempt' = 0
  /\ timer' = FALSE /\ timedOut' = FALSE /\ abort' = "none"
  /\ beating' = FALSE /\ writes' = 0
  /\ NoChild
  /\ UNCHANGED <<agent, calls, heartbeat, revived, log, boots>>

Restart ==
  /\ pc = "down" /\ boots < MaxBoots
  /\ boots' = boots + 1
  /\ pc' = "idle"
  /\ UNCHANGED <<agent, calls, attempt, late, clock, beat, os, log>>

\* The bounds are reached.
Over ==
  \/ pc = "idle" /\ calls = MaxCalls /\ UNCHANGED vars
  \/ pc = "down" /\ boots = MaxBoots /\ UNCHANGED vars

Invoker == Accept \/ Start \/ StartAgain \/ Close \/ SpawnError \/ Unlink
           \/ Answer \/ LateEntry \/ Timeout \/ Terminate \/ KillTimer \/ Kill

Next == Invoker \/ Tick \/ WriteLands \/ Exit \/ Report \/ Inherit \/ HeirEnds
        \/ Crash \/ Restart \/ Over

Spec == Init /\ [][Next]_vars

\* The event loop runs and its timers fire.  An agent need not end by itself,
\* but SIGKILL works; what it leaves behind ends unless HeirsLinger.
FairSpec ==
  /\ Spec
  /\ WF_vars(Invoker)
  /\ ~HeirsLinger => WF_vars(HeirEnds)

-----------------------------------------------------------------------------
(* Properties *)

Waits == { "idle", "accepted", "running", "backoff", "unlinking", "logging",
           "down" }

LogEntries ==
  [call : Nat, status : {"running", "done", "crashed", "timeout"}]

LogType == log \in Seq(LogEntries) /\ late \in SUBSET Nat

CounterType ==
  /\ calls \in 0..MaxCalls /\ attempt \in 0..MaxAttempts
  /\ writes \in Nat /\ boots \in Nat

LabelType ==
  /\ pc \in Waits /\ agent \in Agents
  /\ abort \in {"none", "terming", "armed", "killing", "over"}
  /\ child \in {"none", "unspawned", "alive", "exited"}
  /\ code \in ExitCodes \cup {"none"} /\ result \in {"none", "ok", "error"}

FlagType ==
  /\ timer \in BOOLEAN /\ timedOut \in BOOLEAN /\ heartbeat \in BOOLEAN
  /\ beating \in BOOLEAN /\ heir \in BOOLEAN /\ revived \in BOOLEAN

\* The type of every variable.
TypeOK == LogType /\ CounterType /\ LabelType /\ FlagType

\* An attempt is only over when its process and everything that shares its
\* output are: no retry and no later command of this daemon works in the
\* workspace beside an agent that still runs.
NothingLeftRunning == pc # "running" => child # "alive" /\ ~heir

\* The log never calls a command done whose agent had to be aborted, or failed:
\* seen at the moment the caller is answered.
DoneIsHonest ==
  [][ \A n \in 1..MaxCalls :
        log' = Append(log, CallEntry(n, "done")) =>
          n = calls /\ child = "exited" /\ code = "zero" /\ abort = "none" ]_vars

\* While an agent runs, the heartbeat goes on, retries and backoffs included;
\* once the command is over, nothing writes heartbeats, and the file is only
\* there if a write that was in flight during the unlink has brought it back.
HeartbeatFollowsRun ==
  /\ child = "alive" => beating
  /\ pc = "backoff" => beating
  /\ pc \in {"unlinking", "logging", "idle"} => ~beating
  /\ pc \in {"logging", "idle"} /\ heartbeat /\ boots = 1 => revived

\* Every command gets its answer, whatever the agent does with SIGTERM; only the
\* end of the daemon prevents it.
EveryCallAnswered == (pc = "accepted") ~> (pc = "idle" \/ pc = "down")

Contract == INSTANCE AgentCall WITH
              busy <- pc \notin {"idle", "down"}

\* Retries, timeouts and rejected spawns do not show in the log: one running
\* entry and one outcome per command.
ImplementsCall == Contract!CallSpec

=============================================================================
