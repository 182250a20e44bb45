----------------------------- MODULE StateFile -----------------------------
(***************************************************************************)
(* .gsd/state.json and the daemons that write it (src/gsd-state.ts, the    *)
(* run command of src/cli.ts, the parts of src/daemon.ts that report).     *)
(* Every update reads the file, merges and writes it back, and none waits  *)
(* for another: a daemon's heartbeat timer, its worker, and the ./run      *)
(* script that adds the public URL.  Of the fields only those something    *)
(* depends on are kept; the display fields (currentGoal, progress ...) are *)
(* updates that change none of them.                                       *)
(***************************************************************************)
EXTENDS Files, Integers

\* A daemon has the name of the command that launched it.
CONSTANT
  NoDaemon      \* no daemonPid; not a command

ASSUME StateFileAssumption == NoDaemon \notin Cmds

VARIABLES
  file,         \* .gsd/state.json
  writing,      \* the updates under way
  daemon,       \* what each daemon is doing
  beaten,       \* the daemons alive that have written a heartbeat
  raced         \* history: some update met another one

fileVars == <<file, writing, daemon, beaten, raced>>

\* settings: mode, agent, goalsPath ... are the project's own.
Contents ==
  [settings : {"own", "default"}, pid : Cmds \cup {NoDaemon}, beat : {"none", "fresh", "stale"}]

Initialised == [settings |-> "own", pid |-> NoDaemon, beat |-> "none"]

\* What an unreadable file is taken for.
Defaults == [settings |-> "default", pid |-> NoDaemon, beat |-> "none"]

\* The heartbeat timer and the worker of a daemon, the script of a command.
Writers == {"timer", "worker", "script"} \X Cmds

Idle == [step |-> "idle"]

FileInit ==
  /\ file \in {Missing, Initialised}
  /\ writing = [w \in Writers |-> Idle]
  /\ daemon = [d \in Cmds |-> "none"]
  /\ beaten = {} /\ raced = FALSE

Alive(d) == daemon[d] \in {"loading", "booting", "up"}

-----------------------------------------------------------------------------
(* One update: read and merge, truncate, write *)

\* { ...contents, ...update }
Over(contents, update) ==
  [k \in DOMAIN contents |-> IF k \in DOMAIN update THEN update[k] ELSE contents[k]]

\* Mutant of Merged: an update keeps nothing of the file.
MergedWithDefaults(update) == Over(Defaults, update)

\* Mutant of Merged: without a file there is nothing to merge with.
MergedWithNothing(update) == IF Readable(file) THEN Over(file, update) ELSE update

\* What cannot be read counts as the defaults.
Merged(update) == Over(IF Readable(file) THEN file ELSE Defaults, update)

\* Bound: after two updates have met once, the later ones take turns.
BeginUpdate(w, update) ==
  /\ writing[w] = Idle
  /\ raced => \A v \in Writers : writing[v] = Idle
  /\ writing' = [writing EXCEPT ![w] =
                   [step |-> "merged", base |-> file, text |-> Merged(update)]]
  /\ raced' = (raced \/ ~Readable(file))

Truncate(w) ==
  /\ writing[w].step = "merged"
  /\ file' = Torn
  /\ writing' = [writing EXCEPT ![w].step = "open"]
  /\ raced' = (raced \/ file # writing[w].base)

Write(w) ==
  /\ writing[w].step = "open"
  /\ file' \in Landed(writing[w].text, file)
  /\ writing' = [writing EXCEPT ![w] = Idle]
  /\ raced' = (raced \/ file # Torn)

-----------------------------------------------------------------------------
(* A daemon *)

\* The run command reads the file first, and exits when it cannot.
LoadState(d) ==
  /\ daemon[d] = "loading"
  /\ daemon' = [daemon EXCEPT ![d] = IF Readable(file) THEN "booting" ELSE "dead"]
  /\ UNCHANGED <<file, writing, beaten, raced>>

\* runDaemon records its process id and waits for it; then the timer starts.
RecordPid(d) ==
  /\ daemon[d] = "booting"
  /\ BeginUpdate(<<"worker", d>>, [pid |-> d])
  /\ UNCHANGED <<file, daemon, beaten>>

Beat(d) ==
  /\ daemon[d] = "up"
  /\ BeginUpdate(<<"timer", d>>, [beat |-> "fresh"])
  /\ UNCHANGED <<file, daemon, beaten>>

\* The worker begins or ends a goal.
ReportGoal(d) ==
  /\ daemon[d] = "up"
  /\ BeginUpdate(<<"worker", d>>, <<>>)
  /\ UNCHANGED <<file, daemon, beaten>>

StepOfUpdate(w) ==
  \/ /\ writing[w].step = "merged" /\ Truncate(w)
     /\ UNCHANGED <<daemon, beaten>>
  \/ /\ writing[w].step = "open" /\ Write(w)
     /\ daemon' = IF w[1] = "worker" THEN [daemon EXCEPT ![w[2]] = "up"] ELSE daemon
     /\ beaten' = IF w[1] = "timer" THEN beaten \cup {w[2]} ELSE beaten

\* 90 seconds without a beat.  The timer beats every 30, so no daemon that has
\* beaten is up; an update takes far less.
Age ==
  /\ Readable(file) /\ file.beat = "fresh"
  /\ \A w \in Writers : writing[w] = Idle
  /\ beaten = {}
  /\ file' = [file EXCEPT !.beat = "stale"]
  /\ UNCHANGED <<writing, daemon, beaten, raced>>

Silenced(ds) ==
  [w \in Writers |-> IF w[1] # "script" /\ w[2] \in ds THEN Idle ELSE writing[w]]

\* Mutant of Kill: the session goes, the processes stay.
KillNothing(ds) == UNCHANGED <<daemon, beaten, writing>>

\* The daemons ds end, whatever they are doing.
Kill(ds) ==
  /\ daemon' = [d \in Cmds |-> IF d \in ds THEN "dead" ELSE daemon[d]]
  /\ beaten' = beaten \ ds
  /\ writing' = Silenced(ds)

DaemonStep ==
  \/ \E d \in Cmds : LoadState(d) \/ RecordPid(d) \/ Beat(d) \/ ReportGoal(d)
  \/ \E w \in {"timer", "worker"} \X Cmds : StepOfUpdate(w)
  \/ Age

-----------------------------------------------------------------------------

\* getDaemonHealth
Healthy ==
  /\ Readable(file)
  /\ file.pid # NoDaemon /\ Alive(file.pid)
  /\ file.beat = "fresh"

\* The comment on writeGsdState: "only provided fields are merged in".  So the
\* settings that init wrote are the settings of every readable file.
SettingsKept == Readable(file) => file.settings = "own"

FileTypeOK ==
  /\ file \in Contents \cup {Missing, Torn}
  /\ \A w \in Writers :
       \/ writing[w] = Idle
       \/ writing[w].step \in {"merged", "open"} /\ writing[w].text \in Contents
  /\ daemon \in [Cmds -> {"none", "loading", "booting", "up", "dead"}]
  /\ beaten \subseteq Cmds /\ raced \in BOOLEAN

=============================================================================
