------------------------------- MODULE Intake -------------------------------
(***************************************************************************)
(* How goals get into goals.md while the daemon runs: SMS, the dashboard,  *)
(* POST /api/goals, the add-goal command and the timer that expires drafts *)
(* work on two files that nobody locks, pending-goals.json and goals.md,   *)
(* and a watcher tells the daemon to read goals.md again.                  *)
(*                                                                         *)
(* Every change of a file is a read, a truncation and a write, and between *)
(* any two of them another request, a crash or a reload may come.  A goal  *)
(* is named by the request that first brought its title; a draft and a     *)
(* line of goals.md are that name.                                         *)
(***************************************************************************)
EXTENDS Integers, Sequences, FiniteSets

CONSTANTS
  Requests,       \* what people send
  Kinds,          \* what each of them may be
  Timer,          \* the process that runs expirePendingGoals; not a request
  Nobody,         \* no goal; not a request
  AgentReplies,   \* what an agent may answer the clarifier
  MaxBusy,        \* bound: requests and timers that are served at once
  MaxDeaths,      \* bound: crashes of the daemon and killed commands
  MaxExpiries     \* bound: expirePendingGoals runs while the daemon is up

AllKinds == {"sms", "yes", "intake", "confirm", "edit", "post", "cli"}

ASSUME IntakeAssumption ==
  /\ Timer \notin Requests /\ Nobody \notin Requests \cup {Timer}
  /\ Kinds \in [Requests -> SUBSET AllKinds]
  /\ AgentReplies \subseteq {"spec", "none", "missing"}
  /\ MaxBusy \in Nat /\ MaxDeaths \in Nat /\ MaxExpiries \in Nat

Torn == <<Nobody>>    \* a file between its truncation and its write

VARIABLES
  server,      \* is there a status server?  never changes
  daemon,      \* "down", "booting", "loaded" (goals.md read), "up" (watching)
  drafts,      \* pending-goals.json
  lines,       \* the Pending list of goals.md
  flag,        \* does .gsd/goals-updated exist?
  changed,     \* the watcher has seen a change and will reload
  known,       \* goals the daemon has put into its queue
  pc, kind,    \* where each process is, and what it serves
  goal,        \* the goal it is about
  todo,        \* the file operations it still has to do
  stage, base, \* where it is in the first of them, and what it has read
  reply,       \* what the sender was told
  given,       \* the draft id the dashboard was given
  deaths, expiries,   \* bound counters
  raced,       \* history: files in which a write met another one
  contended,   \* history: goals that two requests had in hand at once
  expired,     \* history: drafts that ran out of time
  unseen       \* history: goals whose lines raised no event the daemon saw

files == <<drafts, lines, flag>>
host  == <<server, daemon>>
watch == <<changed, known, unseen>>
work  == <<todo, stage, base>>
bound == <<deaths, expiries>>
hist  == <<raced, contended, expired>>
vars  == <<host, files, watch, pc, kind, goal, work, reply, given, bound, hist>>

Procs == Requests \cup {Timer}
Elements(s) == { s[i] : i \in DOMAIN s }
Times(x, s) == Cardinality({ i \in DOMAIN s : s[i] = x })

\* The n-th of the places I, and what is left of s, in the order in which it was.
Nth(I, n) == CHOOSE i \in I : Cardinality({ j \in I : j <= i }) = n

Without(s, gone) ==
  LET left == { i \in DOMAIN s : s[i] \notin gone }
  IN  [ n \in 1..Cardinality(left) |-> s[Nth(left, n)] ]

\* Whether the flag file exists matters only where nobody watches goals.md itself,
\* without a server; with one it is taken to exist.
Init ==
  /\ server \in BOOLEAN /\ daemon = "up"
  /\ flag \in BOOLEAN /\ (server => flag)
  /\ drafts = <<>> /\ lines = <<>>
  /\ changed = FALSE /\ known = {}
  /\ pc = [p \in Procs |-> "new"] /\ kind = [p \in Procs |-> "none"]
  /\ goal = [p \in Procs |-> Nobody] /\ reply = [p \in Procs |-> "none"]
  /\ todo = [p \in Procs |-> <<>>] /\ stage = [p \in Procs |-> "read"]
  /\ base = [p \in Procs |-> <<>>] /\ given = [p \in Procs |-> Nobody]
  /\ deaths = 0 /\ expiries = 0
  /\ raced = {} /\ contended = {} /\ expired = {} /\ unseen = {}

OfDaemon(p) == p = Timer \/ kind[p] \notin {"none", "cli"}
Busy(p) == pc[p] \in {"agent", "work", "listing", "asking"}

\* Process p has operations `ops` on the files ahead of it.
Undertakes(p, ops) ==
  /\ pc' = [pc EXCEPT ![p] = "work"]
  /\ todo' = [todo EXCEPT ![p] = ops]

Answers(p, text) ==
  /\ pc' = [pc EXCEPT ![p] = "done"]
  /\ reply' = [reply EXCEPT ![p] = text]

-----------------------------------------------------------------------------
(* Requests arrive *)

\* readPendingGoals: what does not parse counts as no drafts.
Drafts == IF drafts = Torn THEN <<>> ELSE drafts

\* A goal is in hand, from the draft that was found until the last operation.
Takes(p, k, g) ==
  /\ kind' = [kind EXCEPT ![p] = k]
  /\ goal' = [goal EXCEPT ![p] = g]
  /\ contended' = IF \E q \in Requests : Busy(q) /\ goal[q] = g
                    THEN contended \cup {g} ELSE contended

Room == Cardinality({ q \in Procs : Busy(q) }) < MaxBusy

Arrival(p) == /\ pc[p] = "new" /\ Room
              /\ UNCHANGED <<host, files, watch, stage, base, given, bound, expired>>

\* A text that is torn looks like no drafts.
ReadsDrafts == raced' = IF drafts = Torn THEN raced \cup {"drafts"} ELSE raced

\* A new goal that still has to be classified.
Classified(p, k) ==
  /\ pc' = [pc EXCEPT ![p] = "agent"]
  /\ Takes(p, k, p)
  /\ UNCHANGED <<todo, reply>>

\* Mutant of ConfirmOps: the draft is kept until its goal is queued.
ConfirmOpsQueueFirst == <<"queue", "touch", "resolve">>

\* What is left to do for a draft that is confirmed, and for one that is edited.
ConfirmOps == <<"resolve", "queue", "touch">>

\* Mutant of EditOps: the edited draft is stored under its old id too early.
EditOpsPutFirst == <<"put", "resolve">>

EditOps == <<"resolve", "put">>

\* Mutant of FoundOps: any answer confirms.
FoundOpsAnyText(k) == ConfirmOps

FoundOps(k) == IF k \in {"yes", "confirm"} THEN ConfirmOps ELSE EditOps

\* POST /webhook/sms: the first draft of this sender decides what the text is.
Sms(p, k) ==
  LET mine == { i \in DOMAIN Drafts : kind[Drafts[i]] = "sms" }
  IN  /\ k \in {"sms", "yes"} /\ server /\ daemon \in {"loaded", "up"}
      /\ Arrival(p) /\ ReadsDrafts
      /\ IF mine = {}
           THEN Classified(p, k)
           ELSE /\ Undertakes(p, FoundOps(k))
                /\ Takes(p, k, Drafts[Nth(mine, 1)])
                /\ UNCHANGED reply

\* POST /api/goals/confirm with an id the dashboard was given.
Confirm(p, k) ==
  /\ k \in {"confirm", "edit"} /\ server /\ daemon \in {"loaded", "up"}
  /\ Arrival(p) /\ ReadsDrafts
  /\ \E id \in { given[q] : q \in Requests } \ {Nobody} :
       IF id \in Elements(Drafts)
         THEN /\ Undertakes(p, FoundOps(k))
              /\ Takes(p, k, id)
              /\ UNCHANGED reply
         ELSE /\ Answers(p, "not found")
              /\ kind' = [kind EXCEPT ![p] = k]
              /\ UNCHANGED <<goal, todo, contended>>

\* POST /api/goals/intake.
DashboardIntake(p) ==
  /\ server /\ daemon \in {"loaded", "up"}
  /\ Arrival(p) /\ UNCHANGED raced
  /\ Classified(p, "intake")

\* POST /api/goals and /webhook/twilio queue without any question.
PostGoal(p) ==
  /\ server /\ daemon \in {"loaded", "up"}
  /\ Arrival(p) /\ UNCHANGED raced
  /\ Undertakes(p, <<"append", "enqueue">>)
  /\ Takes(p, "post", p)
  /\ UNCHANGED reply

\* The add-goal command: a process of its own.
AddGoal(p) ==
  /\ Arrival(p) /\ UNCHANGED raced
  /\ Classified(p, "cli")

-----------------------------------------------------------------------------
(* Classification and drafting *)

\* classifyGoal: score 1 or 2.
Small(p) ==
  /\ pc[p] = "agent"
  /\ Undertakes(p, <<"queue", "touch">>)
  /\ UNCHANGED reply

\* Score 3 to 5, and clarifyGoal got a result with an output.
DraftMade(p) ==
  /\ pc[p] = "agent" /\ "spec" \in AgentReplies /\ kind[p] # "yes"
  /\ Undertakes(p, <<"put">>)
  /\ UNCHANGED reply

\* The same without: nothing is stored, and the sender is asked all the same.
NoDraft(p) ==
  /\ pc[p] = "agent" /\ "none" \in AgentReplies /\ kind[p] # "yes"
  /\ reply' = [reply EXCEPT ![p] = "blank draft"]
  /\ pc' = [pc EXCEPT ![p] = CASE kind[p] = "cli" -> "asking"
                               [] kind[p] = "intake" -> "listing"
                               [] OTHER -> "done"]
  /\ UNCHANGED todo

Agent(p) ==
  /\ Small(p) \/ DraftMade(p) \/ NoDraft(p)
  /\ UNCHANGED <<host, files, watch, kind, goal, stage, base, given, bound, hist>>

\* The dashboard is given the id of the last draft in the file.
ListDrafts(p) ==
  /\ pc[p] = "listing"
  /\ pc' = [pc EXCEPT ![p] = "done"]
  /\ given' = [given EXCEPT ![p] =
                 IF Drafts = <<>> THEN Nobody ELSE Drafts[Len(Drafts)]]
  /\ UNCHANGED <<host, files, watch, kind, goal, work, reply, bound, hist>>

\* The add-goal command has its answer: YES queues the goal, and leaves the
\* draft where it is; so does every other text.
AnswerToAdd(p) ==
  /\ pc[p] = "asking"
  /\ \/ Undertakes(p, <<"queue", "touch">>)
     \/ pc' = [pc EXCEPT ![p] = "done"] /\ UNCHANGED todo
  /\ UNCHANGED <<host, files, watch, kind, goal, stage, base, reply, given, bound, hist>>

-----------------------------------------------------------------------------
(* One file operation: read, truncate, write *)

DraftOps == {"resolve", "put", "expire"}
LineOps  == {"queue", "append"}

Op(p) == Head(todo[p])
At(p, step, ops) ==
  pc[p] = "work" /\ todo[p] # <<>> /\ stage[p] = step /\ Op(p) \in ops

Stage(p, step) == stage' = [stage EXCEPT ![p] = step]

\* Mutant of ReadDrafts: what does not parse is used all the same.
ReadDraftsUnparsed(p) ==
  /\ At(p, "read", DraftOps)
  /\ base' = [base EXCEPT ![p] = drafts] /\ Stage(p, "truncate")
  /\ ReadsDrafts
  /\ UNCHANGED <<host, files, watch, pc, kind, goal, todo, reply, given, bound,
                 contended, expired>>

ReadDrafts(p) ==
  /\ At(p, "read", DraftOps)
  /\ base' = [base EXCEPT ![p] = Drafts] /\ Stage(p, "truncate")
  /\ ReadsDrafts
  /\ UNCHANGED <<host, files, watch, pc, kind, goal, todo, reply, given, bound,
                 contended, expired>>

\* queueGoal and appendPendingGoal look for the Pending section: see Fails.
ReadLines(p) ==
  /\ At(p, "read", LineOps) /\ lines # Torn
  /\ base' = [base EXCEPT ![p] = lines] /\ Stage(p, "truncate")
  /\ UNCHANGED <<host, files, watch, pc, kind, goal, todo, reply, given, bound, hist>>

\* chokidar watches goals.md itself only beside a status server.
Watched == server /\ daemon = "up"

Truncate(p) ==
  /\ \/ /\ At(p, "truncate", DraftOps)
        /\ raced' = IF drafts # base[p] THEN raced \cup {"drafts"} ELSE raced
        /\ drafts' = Torn
        /\ UNCHANGED <<lines, changed>>
     \/ /\ At(p, "truncate", LineOps)
        /\ raced' = IF lines # base[p] THEN raced \cup {"lines"} ELSE raced
        /\ lines' = Torn
        /\ changed' = (changed \/ Watched)
        /\ UNCHANGED drafts
  /\ Stage(p, "write")
  /\ UNCHANGED <<host, flag, known, unseen, pc, kind, goal, todo, base, reply, given,
                 bound, contended, expired>>

\* Mutant of Finished: the sender is answered without waiting for queueGoal.
FinishedNotAwaited(p) ==
  /\ todo' = [todo EXCEPT ![p] = Tail(@)]
  /\ Stage(p, "read") /\ base' = [base EXCEPT ![p] = <<>>]
  /\ pc' = IF Len(todo[p]) > 1 THEN pc
           ELSE [pc EXCEPT ![p] = IF p = Timer THEN "new" ELSE "done"]
  /\ reply' = [reply EXCEPT ![p] =
                 IF p = Timer THEN "none" ELSE IF Op(p) = "put" THEN "draft" ELSE "queued"]

\* The operation is done; after the last one the sender is answered.
Finished(p) ==
  /\ todo' = [todo EXCEPT ![p] = Tail(@)]
  /\ Stage(p, "read") /\ base' = [base EXCEPT ![p] = <<>>]
  /\ IF Len(todo[p]) > 1 THEN UNCHANGED <<pc, reply>>
     ELSE /\ pc' = [pc EXCEPT ![p] =
                      IF p = Timer THEN "new"
                      ELSE IF Op(p) # "put" THEN "done"
                      ELSE CASE kind[p] = "cli"    -> "asking"
                             [] kind[p] = "intake" -> "listing"
                             [] OTHER              -> "done"]
          /\ reply' = [reply EXCEPT ![p] =
                         IF p = Timer THEN "none"
                         ELSE IF Op(p) # "put" THEN "queued"
                         ELSE IF goal[p] = p THEN "draft" ELSE "updated"]

\* Over another request's text the new one may leave its end standing, and the
\* array does not parse.
WriteDrafts(p) ==
  /\ At(p, "write", DraftOps)
  /\ \E gone \in IF Op(p) = "expire" THEN SUBSET Elements(base[p]) ELSE {{}} :
       LET new == CASE Op(p) = "expire"  -> Without(base[p], gone)
                    [] Op(p) = "resolve" -> Without(base[p], {goal[p]})
                    [] Op(p) = "put"     -> Append(base[p], goal[p])
       IN  /\ drafts' \in IF drafts \in {Torn, new} THEN {new} ELSE {new, Torn}
           /\ raced' = IF drafts # Torn THEN raced \cup {"drafts"} ELSE raced
           /\ expired' = expired \cup gone
  /\ Finished(p)
  /\ UNCHANGED <<host, lines, flag, watch, kind, goal, given, bound, contended>>

\* Mutant of WriteLines: the watcher reports the first change alone.
WriteLinesUnreported(p) ==
  /\ At(p, "write", LineOps)
  /\ lines' = IF Op(p) = "queue" THEN Append(base[p], goal[p]) ELSE <<goal[p]>> \o base[p]
  /\ raced' = IF lines # Torn THEN raced \cup {"lines"} ELSE raced
  /\ unseen' = IF Watched THEN unseen \ {goal[p]} ELSE unseen \cup {goal[p]}
  /\ Finished(p)
  /\ UNCHANGED <<host, drafts, flag, changed, known, kind, goal, given, bound,
                 contended, expired>>

\* queueGoal adds at the end of the section, appendPendingGoal at its start.  Of
\* a longer text only the end of the last section is left standing.
WriteLines(p) ==
  /\ At(p, "write", LineOps)
  /\ lines' = IF Op(p) = "queue" THEN Append(base[p], goal[p]) ELSE <<goal[p]>> \o base[p]
  /\ raced' = IF lines # Torn THEN raced \cup {"lines"} ELSE raced
  /\ changed' = (changed \/ Watched)
  /\ unseen' = IF Watched THEN unseen \ {goal[p]} ELSE unseen \cup {goal[p]}
  /\ Finished(p)
  /\ UNCHANGED <<host, drafts, flag, known, kind, goal, given, bound,
                 contended, expired>>

\* touchGoalsUpdated: a file that appears may raise no "change".
Touch(p) ==
  /\ At(p, "read", {"touch"})
  /\ flag' = TRUE
  /\ changed' \in IF daemon # "up" THEN {changed}
                  ELSE IF flag THEN {TRUE} ELSE {changed, TRUE}
  /\ unseen' = IF daemon = "up" /\ flag THEN unseen \ {goal[p]} ELSE unseen
  /\ Finished(p)
  /\ UNCHANGED <<host, drafts, lines, known, kind, goal, given, bound, hist>>

\* onQueueGoal.
Enqueue(p) ==
  /\ At(p, "read", {"enqueue"})
  /\ known' = known \cup {goal[p]}
  /\ Finished(p)
  /\ UNCHANGED <<host, files, changed, unseen, kind, goal, given, bound, hist>>

-----------------------------------------------------------------------------
(* The daemon *)

\* What ends with the daemon's process.
DaemonEnds ==
  /\ daemon' = "down"
  /\ changed' = FALSE /\ known' = {}
  /\ pc' = [q \in Procs |-> IF q = Timer THEN "new"
                            ELSE IF OfDaemon(q) /\ Busy(q) THEN "dead" ELSE pc[q]]
  /\ todo' = [todo EXCEPT ![Timer] = <<>>]
  /\ stage' = [stage EXCEPT ![Timer] = "read"]
  /\ base' = [base EXCEPT ![Timer] = <<>>]
  /\ UNCHANGED <<server, unseen>>

\* An agent that cannot be started, or no Pending section: the SMS and POST
\* handlers catch it; the dashboard handlers do not, and nothing in the process
\* does; the command ends.
Fails(p) ==
  /\ \/ pc[p] = "agent" /\ "missing" \in AgentReplies /\ kind[p] # "yes"
     \/ At(p, "read", LineOps) /\ lines = Torn
  /\ IF kind[p] \in {"intake", "confirm"} THEN DaemonEnds /\ UNCHANGED reply
     ELSE /\ Answers(p, "error")
          /\ UNCHANGED <<host, watch, work>>
  /\ UNCHANGED <<files, kind, goal, given, bound, hist>>

Die ==
  /\ deaths < MaxDeaths /\ deaths' = deaths + 1
  /\ \/ daemon # "down" /\ DaemonEnds
     \/ \E p \in Requests :
          /\ kind[p] = "cli" /\ Busy(p)
          /\ pc' = [pc EXCEPT ![p] = "dead"]
          /\ UNCHANGED <<host, watch, work>>
  /\ UNCHANGED <<files, kind, goal, reply, given, expiries, hist>>

Expire(p) ==
  /\ pc[p] = "new"
  /\ Undertakes(p, <<"expire">>)
  /\ UNCHANGED <<server, files, watch, kind, goal, stage, base, reply, given, deaths, hist>>

\* The hourly timer, and the start of runDaemon.
ExpireByTimer ==
  /\ daemon = "up" /\ expiries < MaxExpiries /\ Room
  /\ expiries' = expiries + 1
  /\ Expire(Timer) /\ UNCHANGED daemon

Boot ==
  /\ daemon = "down" /\ daemon' = "booting"
  /\ Expire(Timer) /\ UNCHANGED expiries

\* loadGoals; without goals and without a status server the daemon ends.
Load ==
  /\ daemon = "booting" /\ pc[Timer] = "new"
  /\ LET found == IF lines = Torn THEN {} ELSE Elements(lines)
     IN  /\ known' = found
         /\ daemon' = IF found = {} /\ ~server THEN "down" ELSE "loaded"
         /\ unseen' = Requests \ found
  /\ UNCHANGED <<server, files, changed, pc, kind, goal, work, reply, given, bound, hist>>

\* chokidar.watch with ignoreInitial.
Watch ==
  /\ daemon = "loaded" /\ daemon' = "up"
  /\ UNCHANGED <<server, files, watch, pc, kind, goal, work, reply, given, bound, hist>>

\* doReload, after the debounce.
Reload ==
  /\ daemon = "up" /\ changed /\ changed' = FALSE
  /\ IF lines = Torn
       THEN UNCHANGED known /\ unseen' = IF server THEN unseen ELSE Requests
       ELSE known' = known \cup Elements(lines) /\ unseen' = {}
  /\ UNCHANGED <<host, files, pc, kind, goal, work, reply, given, bound, hist>>

-----------------------------------------------------------------------------
Arrive(p) ==
  \E k \in Kinds[p] :
    \/ Sms(p, k)
    \/ Confirm(p, k)
    \/ k = "intake" /\ DashboardIntake(p)
    \/ k = "post" /\ PostGoal(p)
    \/ k = "cli" /\ AddGoal(p)

FileStep(p) ==
  \/ ReadDrafts(p) \/ ReadLines(p) \/ Truncate(p)
  \/ WriteDrafts(p) \/ WriteLines(p) \/ Touch(p) \/ Enqueue(p)

Serve(p) == Agent(p) \/ ListDrafts(p) \/ AnswerToAdd(p) \/ Fails(p)

Next ==
  \/ \E p \in Requests : Arrive(p) \/ Serve(p)
  \/ \E p \in Procs : FileStep(p)
  \/ Die \/ ExpireByTimer \/ Boot \/ Load \/ Watch \/ Reload

Spec == Init /\ [][Next]_vars

-----------------------------------------------------------------------------
(* Properties *)

TypeOK ==
  /\ server \in BOOLEAN /\ daemon \in {"down", "booting", "loaded", "up"}
  /\ {drafts, lines} \subseteq Seq(Requests) \cup {Torn}
  /\ flag \in BOOLEAN /\ changed \in BOOLEAN /\ known \subseteq Requests
  /\ pc \in [Procs -> {"new", "agent", "work", "listing", "asking", "done", "dead"}]
  /\ kind \in [Procs -> AllKinds \cup {"none"}]
  /\ goal \in [Procs -> Requests \cup {Nobody}]
  /\ todo \in [Procs -> Seq(DraftOps \cup LineOps \cup {"touch", "enqueue"})]
  /\ stage \in [Procs -> {"read", "truncate", "write"}]
  /\ base \in [Procs -> Seq(Requests)]
  /\ reply \in [Procs -> {"none", "draft", "blank draft", "updated", "queued",
                          "not found", "error"}]
  /\ given \in [Procs -> Requests \cup {Nobody}]
  /\ deaths \in 0..MaxDeaths /\ expiries \in 0..MaxExpiries
  /\ raced \subseteq {"drafts", "lines"}
  /\ contended \cup expired \cup unseen \subseteq Requests

\* A writer of goals.md was killed between its truncation and its write: the file
\* stays empty, and with it go the lines of all goals that were queued before.
CutOff == \E p \in Procs : /\ pc[p] = "dead" /\ stage[p] = "write"
                           /\ todo[p] # <<>> /\ Op(p) \in LineOps

\* A goal whose sender was told "Queued" has its line in goals.md, or in the text that
\* a writer who has the file open is about to put back, unless two writers of
\* goals.md met (goals.ts:111) or one was cut off (goals.ts:127).
QueuedIsWritten ==
  "lines" \notin raced /\ ~CutOff =>
    \A p \in Requests : reply[p] = "queued" =>
      \/ goal[p] \in Elements(lines)
      \/ \E q \in Procs : At(q, "write", LineOps) /\ goal[p] \in Elements(base[q])

\* A draft is queued at most once, although people repeat themselves and the
\* daemon dies between the two files, unless two requests had it in hand at the
\* same time or two writers met.  The add-goal command leaves its draft behind.
QueuedOnce ==
  raced = {} /\ lines # Torn =>
    \A g \in Requests \ contended : kind[g] # "cli" => Times(g, lines) <= 1

\* A draft that somebody was shown is still in pending-goals.json, or is queued,
\* or has expired, or is in the hands of a request; it is lost only with a
\* request that failed or died half-way, or where two writers met.
DraftAccountedFor ==
  raced = {} /\ drafts # Torn /\ lines # Torn =>
    \A g \in Requests : reply[g] = "draft" =>
      \/ g \in Elements(drafts) \cup Elements(lines) \cup expired
      \/ \E p \in Requests : goal[p] = g /\ todo[p] # <<>>

\* No goal that was scored 3 or more is in goals.md before a confirmation of
\* that very goal has arrived, whatever the interleaving.
NothingUnconfirmed ==
  lines # Torn =>
    \A g \in Elements(lines) :
      reply[g] \in {"draft", "blank draft"} =>
        \/ kind[g] = "cli"
        \/ \E p \in Requests : goal[p] = g /\ kind[p] \in {"yes", "confirm"}

\* "Draft received. Reply YES to confirm": a YES that follows is about a goal that
\* its sender was shown (status-server.ts:476).
Shown == { r \in Requests : /\ kind[r] = "sms"
                            /\ reply[r] \in {"draft", "blank draft"} }

YesQueuesTheDraft ==
  [][ \A p \in Requests :
        kind[p] = "none" /\ kind'[p] = "yes" /\ Shown # {} => goal'[p] \in Shown ]_vars

\* The running daemon has every line of goals.md in its queue once it has acted on
\* the last change it saw, unless the line was written while it did not look:
\* before the watcher was ready or, without a status server, by a command that died
\* before its touch, whose touch made the flag file, or that met another writer and
\* brought back a line that the daemon had found gone.
NothingOverlooked ==
  daemon = "up" /\ ~changed /\ lines # Torn /\ (server \/ "lines" \notin raced)
    => Elements(lines) \subseteq known \cup unseen

=============================================================================
