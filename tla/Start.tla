------------------------------- MODULE Start -------------------------------
(***************************************************************************)
(* The start command (src/intake/start-command.ts): synchronise upstream,  *)
(* write an intake bundle and the pointers to the latest one, queue the    *)
(* goal, look whether a daemon is healthy, and launch one if not, with the *)
(* project's ./run script or with npx.  Several commands run in one        *)
(* workspace, and commands and daemons are killed anywhere.                *)
(***************************************************************************)
EXTENDS StateFile, Upstream

CONSTANTS
  NgrokChoices,       \* whether ./run may, or may not, set up ngrok
  MaxDeaths           \* bound: commands and daemons killed

ASSUME StartAssumption == NgrokChoices \subseteq BOOLEAN /\ MaxDeaths \in Nat

VARIABLES
  pc,                 \* where each command is
  bundle,             \* .planning/intake/<id> of each command
  latestJson,         \* the command LATEST.json names
  latestMd,           \* the command LATEST.md names
  queued,             \* the commands whose goal is in goals.md
  script,             \* the project has a ./run script
  tmux,               \* the tmux sessions, by the mode in state.json
  session,            \* the session ./run makes for the daemon of each command
  deaths,
  seen                \* history: the daemons that beat when a command read state.json

startVars ==
  <<pc, bundle, latestJson, latestMd, queued, script, tmux, session, deaths, seen>>
vars == <<fileVars, syncVars, startVars>>

Init ==
  /\ FileInit /\ SyncInit
  /\ pc = [c \in Cmds |-> "sync"]
  /\ bundle = [c \in Cmds |-> "none"]
  /\ latestJson = Missing /\ latestMd = Missing
  /\ queued = {} /\ deaths = 0
  /\ script \in BOOLEAN
  /\ tmux = {}
  /\ session = [c \in Cmds |-> "none"]
  /\ seen = [c \in Cmds |-> {}]

Goto(c, l) == pc' = [pc EXCEPT ![c] = l]
Pc(c, l) == pc[c] = l

-----------------------------------------------------------------------------
(* The bundle and the queue *)

Sync(c) ==
  /\ Pc(c, "sync") /\ SyncStep(c)
  /\ pc' = [pc EXCEPT ![c] = CASE sync'[c].at = "synced" -> "bundle"
                               [] sync'[c].at = "failed" -> "failed"
                               [] OTHER -> "sync"]
  /\ UNCHANGED <<fileVars, bundle, latestJson, latestMd, queued, script,
                 tmux, session, deaths, seen>>

\* Mutant of MakeBundle: the pointers do not wait for the files.
MakeBundleNotAwaited(c) ==
  /\ Pc(c, "bundle") /\ bundle' = [bundle EXCEPT ![c] = "begun"] /\ Goto(c, "json")
  /\ UNCHANGED <<fileVars, syncVars, latestJson, latestMd, queued, script,
                 tmux, session, deaths, seen>>

\* createIntakeBundle: the directory and its files, manifest.json last.  Its name
\* is the second and the title, so it is the command's own.
MakeBundle(c) ==
  /\ \/ Pc(c, "bundle") /\ bundle' = [bundle EXCEPT ![c] = "begun"] /\ Goto(c, "files")
     \/ Pc(c, "files") /\ bundle' = [bundle EXCEPT ![c] = "complete"] /\ Goto(c, "json")
  /\ UNCHANGED <<fileVars, syncVars, latestJson, latestMd, queued, script,
                 tmux, session, deaths, seen>>

\* LATEST.json and then LATEST.md, each truncated and written.
PointJson(c) ==
  /\ \/ Pc(c, "json") /\ latestJson' = Torn /\ Goto(c, "write json")
     \/ Pc(c, "write json") /\ latestJson' \in Landed(c, latestJson) /\ Goto(c, "md")
  /\ UNCHANGED <<fileVars, syncVars, bundle, latestMd, queued, script,
                 tmux, session, deaths, seen>>

PointMd(c) ==
  /\ \/ Pc(c, "md") /\ latestMd' = Torn /\ Goto(c, "write md")
     \/ Pc(c, "write md") /\ latestMd' \in Landed(c, latestMd) /\ Goto(c, "queue")
  /\ UNCHANGED <<fileVars, syncVars, bundle, latestJson, queued, script,
                 tmux, session, deaths, seen>>

\* queueGoal; Intake has the steps of writing goals.md.
QueueGoal(c) ==
  /\ Pc(c, "queue") /\ Goto(c, "health")
  /\ queued' = queued \cup {c}
  /\ UNCHANGED <<fileVars, syncVars, bundle, latestJson, latestMd, script,
                 tmux, session, deaths, seen>>

-----------------------------------------------------------------------------
(* The daemon *)

\* getDaemonHealth; without a healthy daemon, and with a state file, the options
\* or the user decide.  A user may take any time, and what the command does then
\* rests on what it has seen here: "launch" is a step of its own.
CheckHealth(c) ==
  /\ Pc(c, "health")
  /\ \/ Healthy /\ Goto(c, "done")
     \/ ~Healthy /\ file = Missing /\ Goto(c, "done")
     \/ ~Healthy /\ file # Missing /\ \E l \in {"launch", "done"} : Goto(c, l)
  /\ seen' = [seen EXCEPT ![c] = IF Readable(file) THEN beaten ELSE {}]
  /\ UNCHANGED <<fileVars, syncVars, bundle, latestJson, latestMd, queued, script,
                 tmux, session, deaths>>

\* Without a script: npx, which ends with the daemon.
LaunchNpx(c) ==
  /\ Pc(c, "launch") /\ ~script
  /\ daemon' = [daemon EXCEPT ![c] = "loading"]
  /\ Goto(c, "wait")
  /\ UNCHANGED <<file, writing, beaten, raced, syncVars, bundle, latestJson,
                 latestMd, queued, script, tmux, session, deaths, seen>>

Wait(c) ==
  /\ Pc(c, "wait") /\ ~Alive(c) /\ Goto(c, "done")
  /\ UNCHANGED <<fileVars, syncVars, bundle, latestJson, latestMd, queued, script,
                 tmux, session, deaths, seen>>

\* ./run reads the mode (and stops if it cannot) and kills the session of that mode;
\* nothing it waits for lies in between.
KillSession(c) ==
  /\ Pc(c, "launch") /\ script
  /\ \/ /\ ~Readable(file) /\ Goto(c, "failed")
        /\ UNCHANGED <<daemon, writing, beaten, tmux, session>>
     \/ /\ Readable(file)
        /\ session' = [session EXCEPT ![c] = file.settings]
        /\ tmux' = tmux \ {file.settings}
        /\ Kill({ d \in Cmds : Alive(d) /\ session[d] = file.settings })
        /\ Goto(c, "session")
  /\ UNCHANGED <<file, raced, syncVars, bundle, latestJson, latestMd, queued,
                 script, deaths, seen>>

\* tmux refuses a second session of a name.
NewSession(c) ==
  /\ Pc(c, "session")
  /\ \/ /\ session[c] \in tmux /\ Goto(c, "failed")
        /\ UNCHANGED <<daemon, tmux>>
     \/ /\ session[c] \notin tmux
        /\ tmux' = tmux \cup {session[c]}
        /\ daemon' = [daemon EXCEPT ![c] = "loading"]
        /\ \E useNgrok \in NgrokChoices : Goto(c, IF useNgrok THEN "ngrok" ELSE "done")
  /\ UNCHANGED <<file, writing, beaten, raced, syncVars, bundle, latestJson,
                 latestMd, queued, script, session, deaths, seen>>

\* Then it may add the public URL to state.json, with a read and a write of its own.
AddUrl(c) ==
  /\ \/ /\ Pc(c, "ngrok") /\ Readable(file)
        /\ BeginUpdate(<<"script", c>>, <<>>) /\ Goto(c, "url") /\ file' = file
     \/ /\ Pc(c, "ngrok") /\ ~Readable(file)
        /\ Goto(c, "failed") /\ UNCHANGED <<file, writing, raced>>
     \/ Pc(c, "url") /\ Truncate(<<"script", c>>) /\ Goto(c, "write url")
     \/ Pc(c, "write url") /\ Write(<<"script", c>>) /\ Goto(c, "done")
  /\ UNCHANGED <<daemon, beaten, syncVars, bundle, latestJson, latestMd, queued,
                 script, tmux, session, deaths, seen>>

-----------------------------------------------------------------------------

Daemon ==
  DaemonStep /\ UNCHANGED <<syncVars, startVars>>

\* A command is killed; a daemon it launched lives on.
CommandDies(c) ==
  /\ deaths < MaxDeaths /\ deaths' = deaths + 1
  /\ ~Pc(c, "done") /\ ~Pc(c, "failed") /\ Goto(c, "failed")
  /\ IF Pc(c, "sync") /\ Synchronising(c) THEN AbandonSync(c) ELSE UNCHANGED syncVars
  /\ writing' = [writing EXCEPT ![<<"script", c>>] = Idle]
  /\ UNCHANGED <<file, daemon, beaten, raced, bundle, latestJson, latestMd, queued,
                 script, tmux, session, seen>>

DaemonDies(d) ==
  /\ deaths < MaxDeaths /\ deaths' = deaths + 1
  /\ Alive(d) /\ Kill({d})
  /\ UNCHANGED <<file, raced, syncVars, pc, bundle, latestJson, latestMd,
                 queued, script, tmux, session, seen>>

Upstream == Push /\ UNCHANGED <<fileVars, startVars>>

Command(c) ==
  \/ Sync(c) \/ MakeBundle(c) \/ PointJson(c) \/ PointMd(c) \/ QueueGoal(c)
  \/ CheckHealth(c) \/ LaunchNpx(c) \/ Wait(c)
  \/ KillSession(c) \/ NewSession(c) \/ AddUrl(c)

Next ==
  \/ \E c \in Cmds : Command(c) \/ CommandDies(c) \/ DaemonDies(c)
  \/ Daemon \/ Upstream

Spec == Init /\ [][Next]_vars

-----------------------------------------------------------------------------

TypeOK ==
  /\ FileTypeOK /\ SyncTypeOK
  /\ bundle \in [Cmds -> {"none", "begun", "complete"}]
  /\ {latestJson, latestMd} \subseteq Cmds \cup {Missing, Torn}
  /\ queued \subseteq Cmds /\ tmux \subseteq {"own", "default"} /\ script \in BOOLEAN
  /\ session \in [Cmds -> {"own", "default", "none"}]
  /\ deaths \in 0..MaxDeaths
  /\ seen \in [Cmds -> SUBSET Cmds]

\* A session that follows LATEST.json or LATEST.md, or a goal that names its bundle,
\* never finds a bundle with files missing.
NamedBundlesComplete ==
  \A c \in Cmds :
    c \in queued \/ latestJson = c \/ latestMd = c => bundle[c] = "complete"

\* With a ./run script there is one daemon at a time, however many commands launch
\* one: unless updates of state.json met and its mode was lost.
OneDaemon ==
  script /\ ~raced => \A c, d \in Cmds : Alive(c) /\ Alive(d) => c = d

\* No daemon but d can have written its process id over that of d: each ends before
\* the next one begins, or there never was another.
Sole(d) == script \/ \A e \in Cmds \ {d} : daemon[e] = "none"

\* A start command never kills a daemon, nor launches one beside it, that beat when
\* the command read state.json, from that look to its end: unless updates of
\* state.json met or npx launched another daemon as well.  A daemon that beats only
\* after the look is not spared: nothing looks again before the launch; nor is one
\* whose file is between truncation and write when the command looks.
SeenDaemonSpared ==
  [][\A c, d \in Cmds :
       pc'[c] # pc[c] /\ d \in seen[c] /\ Alive(d) /\ Sole(d) /\ ~raced
       => daemon' = daemon]_vars

=============================================================================
