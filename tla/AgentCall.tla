----------------------------- MODULE AgentCall ------------------------------
(***************************************************************************)
(* What an agent invoker promises its caller: a command is entered in the  *)
(* session log once when it is accepted and once with its outcome, and the *)
(* caller has its answer by then.  How many processes were started for it  *)
(* does not show.  Only a rejected spawn is entered after the answer.      *)
(***************************************************************************)
EXTENDS Integers, Sequences

VARIABLES
  calls,          \* how many commands were accepted
  busy,           \* is one of them unanswered?
  log,            \* the entries of the session log: which call, which status
  late            \* rejected calls whose entry is still to come

CallInit == calls = 0 /\ busy = FALSE /\ log = <<>> /\ late = {}

CallStatus(n, s) == [call |-> n, status |-> s]

Accept ==
  /\ ~busy /\ busy' = TRUE
  /\ calls' = calls + 1
  /\ log' = Append(log, CallStatus(calls + 1, "running"))
  /\ UNCHANGED late

Conclude(s) ==
  /\ busy /\ busy' = FALSE
  /\ log' = Append(log, CallStatus(calls, s))
  /\ UNCHANGED <<calls, late>>

Decline ==
  /\ busy /\ busy' = FALSE
  /\ late' = late \cup {calls}
  /\ UNCHANGED <<calls, log>>

Settle(n) ==
  /\ n \in late /\ late' = late \ {n}
  /\ log' = Append(log, CallStatus(n, "crashed"))
  /\ UNCHANGED <<calls, busy>>

\* The daemon dies: nobody waits for an answer any more.
Lose == busy' = FALSE /\ late' = {} /\ UNCHANGED <<calls, log>>

CallNext ==
  \/ Accept \/ Decline \/ Lose
  \/ \E s \in {"done", "crashed", "timeout"} : Conclude(s)
  \/ \E n \in late : Settle(n)

CallSpec == CallInit /\ [][CallNext]_<<calls, busy, log, late>>
=============================================================================
