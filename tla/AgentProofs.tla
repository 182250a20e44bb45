---------------------------- MODULE AgentProofs -----------------------------
(***************************************************************************)
(* Theorems about AgentRun for every set of agents, every retry policy and *)
(* any number of commands, starts and writes in flight.                    *)
(***************************************************************************)
EXTENDS AgentRun, SequenceTheorems, TLAPS

USE AgentAssumption DEF AllAgents

-----------------------------------------------------------------------------
(* The inductive invariant *)

\* What is known of the attempt counter.
Counted ==
  /\ pc = "accepted" => attempt = 0
  /\ pc = "backoff" => attempt < MaxAttempts

\* What is known of the process, by what the invoker waits for.
Attended ==
  /\ pc \in {"idle", "accepted", "down"} => child = "none"
  /\ pc = "running" => child # "none"
  /\ pc \in {"unlinking", "logging"} => child \in {"unspawned", "exited"}
  /\ pc = "backoff" => child = "exited"
  /\ heir => child \in {"alive", "exited"} /\ pc = "running"

\* The abort and the flag of the timeout go together.
Aborted == ~timedOut => abort = "none"

\* When the heartbeat interval runs, and when its file can be there.
Beating ==
  /\ beating <=> pc \in {"running", "backoff"}
  /\ boots >= 1
  /\ pc \in {"idle", "logging"} /\ boots = 1 /\ heartbeat => revived

IInv == TypeOK /\ Counted /\ Attended /\ Aborted /\ Beating

\* The invariant holds at the start.
LEMMA InitIInv == Init => IInv
<1> SUFFICES ASSUME Init PROVE IInv
  OBVIOUS
<1> USE DEF Init
<1>1. TypeOK
  <2>1. LogType
    BY DEF LogType
  <2>2. CounterType
    BY DEF CounterType
  <2>3. LabelType
    BY DEF LabelType, Waits, ExitCodes
  <2>4. FlagType
    BY DEF FlagType
  <2>5. QED
    BY <2>1, <2>2, <2>3, <2>4 DEF TypeOK
<1>2. Counted /\ Attended /\ Aborted /\ Beating
  BY DEF Counted, Attended, Aborted, Beating
<1>3. QED
  BY <1>1, <1>2 DEF IInv

\* Spawn starts an attempt of a counted command.
LEMMA SpawnIInv ==
  ASSUME IInv, Start \/ StartAgain
  PROVE  IInv'
<1> USE DEF IInv, Start, StartAgain, Spawn, Counted
<1>1. attempt \in 0..MaxAttempts /\ attempt < MaxAttempts
  BY DEF TypeOK, CounterType
<1>2. TypeOK'
  <2>1. LogType'
    BY DEF TypeOK, LogType
  <2>2. CounterType'
    BY <1>1 DEF TypeOK, CounterType, beat
  <2>3. LabelType'
    BY DEF TypeOK, LabelType, Waits
  <2>4. FlagType'
    BY DEF TypeOK, FlagType, beat
  <2>5. QED
    BY <2>1, <2>2, <2>3, <2>4 DEF TypeOK
<1>3. Counted' /\ Attended' /\ Aborted'
  BY DEF Attended, Aborted
<1>4. Beating'
  BY DEF Beating, beat
<1>5. QED
  BY <1>2, <1>3, <1>4

\* The end of an attempt, and of a command.
LEMMA EndIInv ==
  ASSUME IInv, Close \/ SpawnError \/ Unlink
  PROVE  IInv'
<1> USE DEF IInv, Close, SpawnError, Unlink, HandOver, os, clock
<1>1. TypeOK'
  <2>1. LogType'
    BY DEF TypeOK, LogType
  <2>2. CounterType'
    BY DEF TypeOK, CounterType
  <2>3. LabelType'
    BY DEF TypeOK, LabelType, Waits
  <2>4. FlagType'
    BY DEF TypeOK, FlagType
  <2>5. QED
    BY <2>1, <2>2, <2>3, <2>4 DEF TypeOK
<1>2. Counted'
  BY DEF Counted, TypeOK, CounterType, MaxTries
<1>3. Attended' /\ Aborted'
  BY DEF Attended, Aborted
<1>4. Beating'
  BY DEF Beating, TypeOK, FlagType
<1>5. QED
  BY <1>1, <1>2, <1>3, <1>4

\* Accepting and answering a command: the log grows.
LEMMA LogIInv ==
  ASSUME IInv, Accept \/ Answer \/ LateEntry
  PROVE  IInv'
<1> USE DEF IInv, clock, beat, os, NoChild
<1>1. LogType'
  <2> log \in Seq(LogEntries) /\ late \in SUBSET Nat /\ calls \in Nat
    BY DEF TypeOK, LogType, CounterType
  <2>1. CASE Accept
    BY <2>1 DEF Accept, CallEntry, LogEntries, LogType
  <2>2. CASE Answer
    <3>1. CASE Verdict = "rejected"
      BY <2>2, <3>1 DEF Answer, LogType
    <3>2. CASE Verdict # "rejected"
      <4>1. Verdict \in {"done", "crashed", "timeout"}
        BY <3>2 DEF Verdict
      <4>2. CallEntry(calls, Verdict) \in LogEntries
        BY <4>1 DEF CallEntry, LogEntries
      <4>3. log' = Append(log, CallEntry(calls, Verdict)) /\ late' = late
        BY <2>2, <3>2 DEF Answer
      <4>4. QED
        BY <4>2, <4>3 DEF LogType
    <3>3. QED
      BY <3>1, <3>2
  <2>3. CASE LateEntry
    BY <2>3 DEF LateEntry, CallEntry, LogEntries, LogType
  <2>4. QED
    BY <2>1, <2>2, <2>3
<1>2. TypeOK'
  <2>1. CounterType'
    BY DEF TypeOK, CounterType, Accept, Answer, LateEntry
  <2>2. LabelType'
    BY DEF TypeOK, LabelType, Waits, Accept, Answer, LateEntry
  <2>3. FlagType'
    BY DEF TypeOK, FlagType, Accept, Answer, LateEntry
  <2>4. QED
    BY <1>1, <2>1, <2>2, <2>3 DEF TypeOK
<1>3. Counted'
  BY DEF Counted, Accept, Answer, LateEntry
<1>4. Attended' /\ Aborted'
  BY DEF Attended, Aborted, Accept, Answer, LateEntry
<1>5. Beating'
  BY DEF Beating, Accept, Answer, LateEntry
<1>6. QED
  BY <1>2, <1>3, <1>4, <1>5

\* Timeout and kills.
LEMMA AbortIInv ==
  ASSUME IInv, Timeout \/ Terminate \/ KillTimer \/ Kill
  PROVE  IInv'
<1> USE DEF IInv, Timeout, Terminate, KillTimer, Kill, call, beat, os
<1>1. TypeOK'
  <2>1. LogType'
    BY DEF TypeOK, LogType
  <2>2. CounterType'
    BY DEF TypeOK, CounterType
  <2>3. LabelType'
    BY DEF TypeOK, LabelType, ExitCodes
  <2>4. FlagType'
    BY DEF TypeOK, FlagType
  <2>5. QED
    BY <2>1, <2>2, <2>3, <2>4 DEF TypeOK
<1>2. Counted'
  BY DEF Counted
<1>3. Attended'
  BY DEF Attended, TypeOK, FlagType, LabelType
<1>4. Aborted'
  BY DEF Aborted, TypeOK, FlagType
<1>5. Beating'
  BY DEF Beating
<1>6. QED
  BY <1>1, <1>2, <1>3, <1>4, <1>5

\* Heartbeat writes.
LEMMA BeatIInv ==
  ASSUME IInv, Tick \/ WriteLands
  PROVE  IInv'
<1> USE DEF IInv, Tick, WriteLands, call, clock, os
<1>1. TypeOK'
  <2>1. LogType'
    BY DEF TypeOK, LogType
  <2>2. CounterType'
    BY DEF TypeOK, CounterType
  <2>3. LabelType'
    BY DEF TypeOK, LabelType
  <2>4. FlagType'
    BY DEF TypeOK, FlagType
  <2>5. QED
    BY <2>1, <2>2, <2>3, <2>4 DEF TypeOK
<1>2. Counted' /\ Attended' /\ Aborted'
  BY DEF Counted, Attended, Aborted
<1>3. Beating'
  <2>1. boots' = boots /\ pc' = pc /\ beating' = beating
    OBVIOUS
  <2>2. pc \in {"idle", "logging"} /\ heartbeat' =>
          (heartbeat /\ revived' = revived) \/ revived'
    BY Zenon
  <2>3. QED
    BY <2>1, <2>2 DEF Beating
<1>4. QED
  BY <1>1, <1>2, <1>3

\* What agents and operating system do.
LEMMA AgentIInv ==
  ASSUME IInv, Exit \/ Report \/ Inherit \/ HeirEnds
  PROVE  IInv'
<1> USE DEF IInv, Exit, Report, Inherit, HeirEnds, call, clock, beat
<1>1. TypeOK'
  <2>1. LogType'
    BY DEF TypeOK, LogType
  <2>2. CounterType'
    BY DEF TypeOK, CounterType
  <2>3. LabelType'
    BY DEF TypeOK, LabelType, ExitCodes
  <2>4. FlagType'
    BY DEF TypeOK, FlagType
  <2>5. QED
    BY <2>1, <2>2, <2>3, <2>4 DEF TypeOK
<1>2. Counted'
  BY DEF Counted
<1>3. Attended'
  BY DEF Attended, TypeOK, LabelType, Waits
<1>4. Aborted'
  BY DEF Aborted
<1>5. Beating'
  BY DEF Beating
<1>6. QED
  BY <1>1, <1>2, <1>3, <1>4, <1>5

\* Crash and restart.
LEMMA CrashIInv ==
  ASSUME IInv, Crash \/ Restart
  PROVE  IInv'
<1> USE DEF IInv, Crash, Restart, NoChild, clock, beat, os
<1>1. TypeOK'
  <2>1. LogType'
    BY DEF TypeOK, LogType
  <2>2. CounterType'
    BY DEF TypeOK, CounterType
  <2>3. LabelType'
    BY DEF TypeOK, LabelType, Waits
  <2>4. FlagType'
    BY DEF TypeOK, FlagType
  <2>5. QED
    BY <2>1, <2>2, <2>3, <2>4 DEF TypeOK
<1>2. Counted' /\ Attended'
  BY DEF Counted, Attended
<1>3. Aborted'
  BY DEF Aborted
<1>4. Beating'
  <2>1. CASE Crash
    BY <2>1 DEF Beating
  <2>2. CASE Restart
    <3>1. boots' # 1 /\ boots' >= 1
      BY <2>2 DEF Beating, TypeOK, CounterType
    <3>2. QED
      BY <2>2, <3>1 DEF Beating
  <2>3. QED
    BY <2>1, <2>2
<1>5. QED
  BY <1>1, <1>2, <1>3, <1>4

\* Every step preserves the invariant.
LEMMA NextIInv == IInv /\ [Next]_vars => IInv'
<1> SUFFICES ASSUME IInv, [Next]_vars PROVE IInv'
  OBVIOUS
<1>1. CASE Start \/ StartAgain
  BY <1>1, SpawnIInv
<1>2. CASE Close \/ SpawnError \/ Unlink
  BY <1>2, EndIInv
<1>3. CASE Accept \/ Answer \/ LateEntry
  BY <1>3, LogIInv
<1>4. CASE Timeout \/ Terminate \/ KillTimer \/ Kill
  BY <1>4, AbortIInv
<1>5. CASE Tick \/ WriteLands
  BY <1>5, BeatIInv
<1>6. CASE Exit \/ Report \/ Inherit \/ HeirEnds
  BY <1>6, AgentIInv
<1>7. CASE Crash \/ Restart
  BY <1>7, CrashIInv
<1>8. CASE UNCHANGED vars
  BY <1>8 DEF vars, call, clock, beat, os, IInv, TypeOK, Counted, Attended,
              Aborted, Beating, LogType, CounterType, LabelType, FlagType
<1>9. QED
  BY <1>1, <1>2, <1>3, <1>4, <1>5, <1>6, <1>7, <1>8 DEF Next, Invoker, Over

\* The inductive invariant holds throughout.
LEMMA Inductive == Spec => []IInv
  BY InitIInv, NextIInv, PTL DEF Spec

-----------------------------------------------------------------------------
(* Theorems *)

\* Every variable keeps its type: in particular no command takes more attempts
\* than the retry policy allows.
THEOREM AgentTyping == Spec => []TypeOK
<1>1. IInv => TypeOK
  BY DEF IInv
<1>2. QED
  BY <1>1, Inductive, PTL

\* When the invoker is past an attempt, no process of it is left that shares its
\* output, whatever raced to end it.
THEOREM NothingLeft == Spec => []NothingLeftRunning
<1>1. IInv => NothingLeftRunning
  BY DEF IInv, Attended, NothingLeftRunning, TypeOK, LabelType, Waits
<1>2. QED
  BY <1>1, Inductive, PTL

\* Heartbeats are written exactly while a command has an agent or waits to start
\* one again.
THEOREM HeartbeatFollows == Spec => []HeartbeatFollowsRun
<1>1. IInv => HeartbeatFollowsRun
  BY DEF IInv, Attended, Beating, HeartbeatFollowsRun, TypeOK,
     LabelType, FlagType, Waits
<1>2. QED
  BY <1>1, Inductive, PTL

\* An extended log is another log.
LEMMA AppendDiffers ==
  ASSUME NEW S, NEW s \in Seq(S), NEW e \in S
  PROVE  Append(s, e) # s
<1>1. Len(Append(s, e)) = Len(s) + 1 /\ Len(s) \in Nat
  OBVIOUS
<1>2. QED
  BY <1>1

\* A "done" is only logged by the answer to a command whose agent exited with 0
\* before anything was done to stop it.
THEOREM HonestDone == Spec => DoneIsHonest
<1>1. ASSUME IInv, [Next]_vars, NEW n \in 1..MaxCalls,
             log' = Append(log, CallEntry(n, "done"))
      PROVE  n = calls /\ child = "exited" /\ code = "zero" /\ abort = "none"
  <2> DEFINE done == CallEntry(n, "done")
  <2>1. log \in Seq(LogEntries) /\ done \in LogEntries
    BY <1>1 DEF IInv, TypeOK, LogType, LogEntries, CallEntry
  <2>2. log' # log
    BY <1>1, <2>1, AppendDiffers
  <2>3. ASSUME NEW e \in LogEntries, log' = Append(log, e)
        PROVE  e.call = n /\ e.status = "done"
    <3>1. e = done
      BY <1>1, <2>1, <2>3, AppendInjective
    <3>2. QED
      BY <3>1 DEF CallEntry
  <2>4. CASE Accept
    <3>1. CallEntry(calls', "running") \in LogEntries
      BY <1>1, <2>4 DEF Accept, IInv, TypeOK, CounterType, CallEntry,
         LogEntries
    <3>2. QED
      BY <2>3, <2>4, <3>1 DEF Accept, CallEntry
  <2>5. CASE LateEntry
    <3>1. PICK m \in late : log' = Append(log, CallEntry(m, "crashed"))
      BY <2>5 DEF LateEntry
    <3>2. CallEntry(m, "crashed") \in LogEntries
      BY <1>1, <3>1 DEF IInv, TypeOK, LogType, CallEntry, LogEntries
    <3>3. QED
      BY <2>3, <3>1, <3>2 DEF CallEntry
  <2>6. CASE Answer
    <3>1. Verdict # "rejected" /\ log' = Append(log, CallEntry(calls, Verdict))
      BY <2>2, <2>6 DEF Answer
    <3>2. CallEntry(calls, Verdict) \in LogEntries
      BY <1>1, <3>1 DEF IInv, TypeOK, CounterType, CallEntry, LogEntries,
         Verdict
    <3>3. calls = n /\ Verdict = "done"
      BY <2>3, <3>1, <3>2 DEF CallEntry
    <3>4. child # "unspawned" /\ ~timedOut /\ code = "zero"
      BY <3>3 DEF Verdict
    <3>5. QED
      BY <1>1, <2>6, <3>3, <3>4 DEF Answer, IInv, Attended, Aborted
  <2>7. Accept \/ LateEntry \/ Answer
    BY <1>1, <2>2 DEF Next, Invoker, Over, vars, Start, StartAgain, Close,
       SpawnError, Unlink, Timeout, Terminate, KillTimer, Kill, Tick,
       WriteLands, Exit, Report, Inherit, HeirEnds, Crash, Restart
  <2>8. QED
    BY <2>4, <2>5, <2>6, <2>7
<1>2. IInv /\ [Next]_vars =>
        [ \A n \in 1..MaxCalls :
            log' = Append(log, CallEntry(n, "done")) =>
              n = calls /\ child = "exited" /\ code = "zero" /\ abort = "none"
        ]_vars
  BY <1>1
<1>3. QED
  BY <1>2, Inductive, PTL DEF Spec, DoneIsHonest

-----------------------------------------------------------------------------
(* The invoker keeps the contract *)

\* The abstract state starts as it should.
LEMMA CallInitHolds == Init => Contract!CallInit
  BY DEF Init, Contract!CallInit

\* Every step of the invoker is a step of the contract or leaves it alone.
LEMMA CallStepHolds ==
  IInv /\ [Next]_vars =>
    [Contract!CallNext]_<<calls, pc \notin {"idle", "down"}, log, late>>
<1> SUFFICES ASSUME IInv, [Next]_vars
             PROVE  \/ Contract!CallNext
                    \/ UNCHANGED <<calls, pc \notin {"idle", "down"}, log, late>>
  OBVIOUS
<1> USE DEF Contract!CallNext, Contract!CallStatus
<1>1. CASE Accept
  <2>1. Contract!Accept
    BY <1>1 DEF Accept, Contract!Accept, CallEntry
  <2>2. QED
    BY <2>1
<1>2. CASE Answer
  <2>1. CASE Verdict = "rejected"
    <3>1. Contract!Decline
      BY <1>2, <2>1 DEF Answer, Contract!Decline
    <3>2. QED
      BY <3>1
  <2>2. CASE Verdict # "rejected"
    <3>1. Verdict \in {"done", "crashed", "timeout"}
      BY <2>2 DEF Verdict
    <3>2. Contract!Conclude(Verdict)
      BY <1>2, <2>2 DEF Answer, Contract!Conclude, CallEntry
    <3>3. QED
      BY <3>1, <3>2
  <2>3. QED
    BY <2>1, <2>2
<1>3. CASE LateEntry
  <2>1. PICK n \in late : /\ log' = Append(log, CallEntry(n, "crashed"))
                          /\ late' = late \ {n}
    BY <1>3 DEF LateEntry
  <2>2. Contract!Settle(n)
    BY <1>3, <2>1 DEF LateEntry, Contract!Settle, CallEntry
  <2>3. QED
    BY <2>2
<1>4. CASE Crash
  <2>1. Contract!Lose
    BY <1>4 DEF Crash, Contract!Lose
  <2>2. QED
    BY <2>1
<1>5. CASE Start \/ StartAgain \/ Close \/ SpawnError \/ Unlink \/ Restart
  BY <1>5 DEF Start, StartAgain, Spawn, Close, HandOver, SpawnError, Unlink,
              Restart
<1>6. CASE Timeout \/ Terminate \/ KillTimer \/ Kill
  BY <1>6 DEF Timeout, Terminate, KillTimer, Kill, call
<1>7. CASE Tick \/ WriteLands \/ Exit \/ Report \/ Inherit \/ HeirEnds
  BY <1>7 DEF Tick, WriteLands, Exit, Report, Inherit, HeirEnds, call
<1>8. CASE UNCHANGED vars
  BY <1>8 DEF vars, call
<1>9. QED
  BY <1>1, <1>2, <1>3, <1>4, <1>5, <1>6, <1>7, <1>8 DEF Next, Invoker, Over

\* Through retries, timeouts, aborts, rejected spawns and crashes of the daemon the
\* session log shows one running entry and at most one outcome per command.
THEOREM InvokerKeepsContract == Spec => ImplementsCall
  BY CallInitHolds, CallStepHolds, Inductive, PTL
     DEF Spec, ImplementsCall, Contract!CallSpec

=============================================================================
