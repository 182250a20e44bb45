---------------------------- MODULE StartProofs ----------------------------
(***************************************************************************)
(* Proofs about Start, for any number of commands, revisions of upstream   *)
(* and deaths of commands and daemons.                                     *)
(***************************************************************************)
EXTENDS Start, UpstreamProofs, TLAPS

-----------------------------------------------------------------------------
(* Bundles *)

Labels == { "sync", "bundle", "files", "json", "write json", "md", "write md",
            "queue", "health", "launch", "wait", "session", "ngrok", "url",
            "write url", "done", "failed" }

\* A pointer or a goal of goals.md leads to the bundle of c.
Named(c) == c \in queued \/ latestJson = c \/ latestMd = c

\* The bundle of a command is written before anything names it, and not again.
BundleInv ==
  /\ pc \in [Cmds -> Labels]
  /\ bundle \in [Cmds -> {"none", "begun", "complete"}]
  /\ \A c \in Cmds :
       /\ pc[c] \in {"sync", "bundle", "files"} => ~Named(c)
       /\ pc[c] \in {"json", "write json", "md", "write md", "queue"}
            => bundle[c] = "complete"
       /\ Named(c) => bundle[c] = "complete"

LEMMA InitBundle == Init => BundleInv
  BY FilesAssumption DEF Init, BundleInv, Labels, Named

\* A step of command c that leaves the bundles and what names them alone.
LEMMA BundleFrame ==
  ASSUME BundleInv, NEW c \in Cmds, NEW l \in Labels,
         pc' = [pc EXCEPT ![c] = l],
         UNCHANGED <<bundle, latestJson, latestMd, queued>>,
         l \in {"sync", "bundle", "files"} => pc[c] \in {"sync", "bundle", "files"},
         l \notin {"json", "write json", "md", "write md", "queue"}
  PROVE  BundleInv'
  BY DEF BundleInv, Named

LEMMA CommandBundle ==
  ASSUME BundleInv, NEW c \in Cmds, Command(c) \/ CommandDies(c)
  PROVE  BundleInv'
<1>1. CASE Sync(c)
  <2>1. PICK l \in {"bundle", "failed", "sync"} : pc' = [pc EXCEPT ![c] = l]
    BY <1>1 DEF Sync
  <2>2. pc[c] = "sync" /\ UNCHANGED <<bundle, latestJson, latestMd, queued>>
    BY <1>1 DEF Sync, Pc
  <2>3. QED
    BY <2>1, <2>2, BundleFrame DEF Labels
<1>2. CASE MakeBundle(c)
  BY <1>2 DEF MakeBundle, Pc, Goto, BundleInv, Named, Labels
<1>3. CASE PointJson(c)
  BY <1>3, FilesAssumption DEF PointJson, Landed, Pc, Goto, BundleInv, Named, Labels
<1>4. CASE PointMd(c)
  BY <1>4, FilesAssumption DEF PointMd, Landed, Pc, Goto, BundleInv, Named, Labels
<1>5. CASE QueueGoal(c)
  BY <1>5 DEF QueueGoal, Pc, Goto, BundleInv, Named, Labels
<1>6. CASE CheckHealth(c) \/ LaunchNpx(c) \/ Wait(c) \/ KillSession(c)
           \/ NewSession(c) \/ AddUrl(c) \/ CommandDies(c)
  <2>1. UNCHANGED <<bundle, latestJson, latestMd, queued>>
    BY <1>6 DEF CheckHealth, LaunchNpx, Wait, KillSession, NewSession, AddUrl, CommandDies
  <2>2. PICK l \in {"done", "launch", "wait", "failed", "session", "ngrok", "url",
                    "write url"} : pc' = [pc EXCEPT ![c] = l]
    BY <1>6 DEF CheckHealth, LaunchNpx, Wait, KillSession, NewSession, AddUrl,
                CommandDies, Goto
  <2>3. QED
    BY <2>1, <2>2, BundleFrame DEF Labels
<1>7. QED
  BY <1>1, <1>2, <1>3, <1>4, <1>5, <1>6 DEF Command

LEMMA NextBundle == BundleInv /\ [Next]_vars => BundleInv'
<1> SUFFICES ASSUME BundleInv, [Next]_vars PROVE BundleInv'
  OBVIOUS
<1>1. CASE \E c \in Cmds : Command(c) \/ CommandDies(c)
  BY <1>1, CommandBundle
<1>2. CASE Daemon \/ Upstream \/ (\E d \in Cmds : DaemonDies(d)) \/ UNCHANGED vars
  BY <1>2 DEF Daemon, Upstream, DaemonDies, vars, startVars, BundleInv, Named
<1>3. QED
  BY <1>1, <1>2 DEF Next

\* No pointer and no goal ever leads to a bundle that is not whole, whatever commands
\* overlap and die.
THEOREM BundlesComplete == Spec => []NamedBundlesComplete
<1>1. BundleInv => NamedBundlesComplete
  BY DEF BundleInv, NamedBundlesComplete, Named
<1>2. QED
  BY <1>1, InitBundle, NextBundle, PTL DEF Spec

-----------------------------------------------------------------------------
(* Synchronising upstream *)

\* What a step of the composed system does to the installed files is a step of
\* synchronising, or nothing.
LEMMA SyncPart == [Next]_vars => [SyncNext]_syncVars
<1> SUFFICES ASSUME [Next]_vars PROVE [SyncNext]_syncVars
  OBVIOUS
<1>1. CASE UNCHANGED vars
  BY <1>1 DEF vars
<1>2. ASSUME NEW c \in Cmds, Command(c) \/ CommandDies(c) \/ DaemonDies(c)
      PROVE  [SyncNext]_syncVars
  <2>1. CASE Sync(c)
    BY <2>1 DEF Sync, SyncNext
  <2>2. CASE CommandDies(c)
    BY <2>2 DEF CommandDies, SyncNext
  <2>3. CASE MakeBundle(c) \/ PointJson(c) \/ PointMd(c) \/ QueueGoal(c)
             \/ CheckHealth(c) \/ LaunchNpx(c) \/ Wait(c)
             \/ KillSession(c) \/ NewSession(c) \/ AddUrl(c) \/ DaemonDies(c)
    <3>1. UNCHANGED syncVars
      BY <2>3 DEF MakeBundle, PointJson, PointMd, QueueGoal, CheckHealth, LaunchNpx,
         Wait, KillSession, NewSession, AddUrl, DaemonDies
    <3>2. QED
      BY <3>1
  <2>4. QED
    BY <1>2, <2>1, <2>2, <2>3 DEF Command
<1>3. CASE Daemon
  BY <1>3 DEF Daemon
<1>4. CASE Upstream
  BY <1>4 DEF Upstream, SyncNext
<1>5. QED
  BY <1>1, <1>2, <1>3, <1>4 DEF Next

\* A start command whose synchronisation ends well has the revision it found installed,
\* every file and every skill for both runtimes: also when the manifest let it skip the
\* installation, and whichever commands were killed or failed half-way before.
THEOREM InstalledWhenSynced == Spec => SyncedMeansInstalled
<1>1. Init => SyncInv
  BY InitSync DEF Init
<1>2. SyncInv /\ [Next]_vars => SyncInv'
  BY SyncPart, SyncNextKeeps
<1>3. SyncInv /\ [Next]_vars
        => [\A c \in Cmds : ~At(c, "synced") /\ At(c, "synced")'
              => Installed(sync[c].sha)']_syncVars
  BY SyncPart, SyncedStep
<1>4. QED
  BY <1>1, <1>2, <1>3, PTL DEF Spec, SyncedMeansInstalled

-----------------------------------------------------------------------------
(* Types *)

Texts == Contents \cup {Missing, Torn}
Entries == {Idle} \cup [step : {"merged", "open"}, base : Texts, text : Contents]
Updates == {<<>>, [beat |-> "fresh"]} \cup { [pid |-> d] : d \in Cmds }

FileType ==
  /\ file \in Texts
  /\ writing \in [Writers -> Entries]
  /\ daemon \in [Cmds -> {"none", "loading", "booting", "up", "dead"}]
  /\ beaten \subseteq Cmds /\ raced \in BOOLEAN

StartType ==
  /\ FileType
  /\ pc \in [Cmds -> Labels]
  /\ latestJson \in Cmds \cup {Missing, Torn} /\ latestMd \in Cmds \cup {Missing, Torn}
  /\ queued \subseteq Cmds /\ tmux \subseteq {"own", "default"} /\ script \in BOOLEAN
  /\ session \in [Cmds -> {"own", "default", "none"}]
  /\ deaths \in 0..MaxDeaths /\ seen \in [Cmds -> SUBSET Cmds]
  /\ \A c \in Cmds : pc[c] = "session" => session[c] \in {"own", "default"}

LEMMA ContentsReadable == \A f \in Contents : Readable(f)
  BY DEF Contents, Readable, Missing, Torn

\* An update keeps every field it does not give.
LEMMA OverFacts ==
  ASSUME NEW f \in Contents
  PROVE  /\ Over(f, <<>>) = f
         /\ \A d \in Cmds : /\ Over(f, [pid |-> d]) \in Contents
                            /\ Over(f, [pid |-> d]).settings = f.settings
                            /\ Over(f, [pid |-> d]).beat = f.beat
                            /\ Over(f, [pid |-> d]).pid = d
         /\ Over(f, [beat |-> "fresh"]) \in Contents
         /\ Over(f, [beat |-> "fresh"]).settings = f.settings
         /\ Over(f, [beat |-> "fresh"]).beat = "fresh"
         /\ Over(f, [beat |-> "fresh"]).pid = f.pid
<1>1. Over(f, <<>>) = f
  BY DEF Over, Contents
<1>2. ASSUME NEW d \in Cmds
      PROVE  /\ Over(f, [pid |-> d]) \in Contents
             /\ Over(f, [pid |-> d]).settings = f.settings
             /\ Over(f, [pid |-> d]).beat = f.beat
             /\ Over(f, [pid |-> d]).pid = d
  BY DEF Over, Contents
<1>3. /\ Over(f, [beat |-> "fresh"]) \in Contents
      /\ Over(f, [beat |-> "fresh"]).settings = f.settings
      /\ Over(f, [beat |-> "fresh"]).beat = "fresh"
      /\ Over(f, [beat |-> "fresh"]).pid = f.pid
  BY DEF Over, Contents
<1>4. QED
  BY <1>1, <1>2, <1>3

LEMMA MergedType ==
  ASSUME file \in Texts, NEW u \in Updates
  PROVE  Merged(u) \in Contents
<1> DEFINE f == IF Readable(file) THEN file ELSE Defaults
<1>1. f \in Contents
  BY DEF Texts, Readable, Defaults, Contents
<1>2. Over(f, u) \in Contents
  <2> HIDE DEF f
  <2> QED
    BY <1>1, OverFacts DEF Updates
<1>3. QED
  BY <1>2 DEF Merged

LEMMA BeginType ==
  ASSUME FileType, NEW w \in Writers, NEW u \in Updates, BeginUpdate(w, u)
  PROVE  writing' \in [Writers -> Entries] /\ raced' \in BOOLEAN
<1> DEFINE e == [step |-> "merged", base |-> file, text |-> Merged(u)]
<1>1. e \in Entries
  BY MergedType DEF Entries, FileType
<1>2. writing' = [writing EXCEPT ![w] = e] /\ raced' = (raced \/ ~Readable(file))
  BY DEF BeginUpdate
<1>3. QED
  <2> HIDE DEF e
  <2> QED
    BY <1>1, <1>2 DEF FileType

LEMMA TruncateType ==
  ASSUME FileType, NEW w \in Writers, Truncate(w)
  PROVE  writing' \in [Writers -> Entries] /\ raced' \in BOOLEAN /\ file' \in Texts
<1>1. writing[w] \in [step : {"merged", "open"}, base : Texts, text : Contents]
  BY DEF Truncate, FileType, Entries, Idle
<1>2. [writing[w] EXCEPT !.step = "open"] \in Entries
  BY <1>1 DEF Entries
<1>3. writing' = [writing EXCEPT ![w] = [writing[w] EXCEPT !.step = "open"]]
  BY DEF Truncate
<1>4. QED
  BY <1>2, <1>3 DEF Truncate, FileType, Texts

LEMMA WriteType ==
  ASSUME FileType, NEW w \in Writers, Write(w)
  PROVE  writing' \in [Writers -> Entries] /\ raced' \in BOOLEAN /\ file' \in Texts
<1>1. writing[w] \in [step : {"merged", "open"}, base : Texts, text : Contents]
  BY DEF Write, FileType, Entries, Idle
<1>2. writing[w].text \in Contents
  BY <1>1
<1>3. QED
  BY <1>2 DEF Write, FileType, Texts, Entries, Landed

LEMMA KillType ==
  ASSUME FileType, NEW ds \in SUBSET Cmds, Kill(ds)
  PROVE  /\ writing' \in [Writers -> Entries]
         /\ daemon' \in [Cmds -> {"none", "loading", "booting", "up", "dead"}]
         /\ beaten' \subseteq Cmds
  BY DEF Kill, Silenced, FileType, Entries

LEMMA InitType == Init => StartType
<1> SUFFICES ASSUME Init PROVE StartType
  OBVIOUS
<1>1. Initialised \in Contents
  BY DEF Initialised, Contents
<1>2. FileType
  BY <1>1 DEF Init, FileInit, FileType, Texts, Entries
<1>3. QED
  BY <1>2, StartAssumption DEF Init, StartType, Labels

\* A command's step that leaves the daemons and their file alone.
LEMMA StartFrame ==
  ASSUME StartType, UNCHANGED fileVars, NEW c \in Cmds, NEW l \in Labels \ {"session"},
         pc' = [pc EXCEPT ![c] = l],
         latestJson' \in Cmds \cup {Missing, Torn}, latestMd' \in Cmds \cup {Missing, Torn},
         queued' \subseteq Cmds, deaths' \in 0..MaxDeaths, seen' \in [Cmds -> SUBSET Cmds],
         UNCHANGED <<script, tmux, session>>
  PROVE  StartType'
  BY DEF StartType, FileType, fileVars

LEMMA CommandType ==
  ASSUME StartType, NEW c \in Cmds, Command(c)
  PROVE  StartType'
<1> USE DEF Goto, Pc
<1>1. CASE Sync(c)
  <2>1. PICK l \in {"bundle", "failed", "sync"} : pc' = [pc EXCEPT ![c] = l]
    BY <1>1 DEF Sync
  <2>2. QED
    BY <1>1, <2>1, StartFrame DEF Sync, StartType, Labels
<1>2. CASE MakeBundle(c)
  <2>1. PICK l \in {"files", "json"} : pc' = [pc EXCEPT ![c] = l]
    BY <1>2 DEF MakeBundle
  <2>2. QED
    BY <1>2, <2>1, StartFrame DEF MakeBundle, StartType, Labels
<1>3. CASE PointJson(c)
  <2>1. PICK l \in {"write json", "md"} : pc' = [pc EXCEPT ![c] = l]
    BY <1>3 DEF PointJson
  <2>2. latestJson' \in Cmds \cup {Missing, Torn}
    BY <1>3 DEF PointJson, Landed
  <2>3. QED
    BY <1>3, <2>1, <2>2, StartFrame DEF PointJson, StartType, Labels
<1>4. CASE PointMd(c)
  <2>1. PICK l \in {"write md", "queue"} : pc' = [pc EXCEPT ![c] = l]
    BY <1>4 DEF PointMd
  <2>2. latestMd' \in Cmds \cup {Missing, Torn}
    BY <1>4 DEF PointMd, Landed
  <2>3. QED
    BY <1>4, <2>1, <2>2, StartFrame DEF PointMd, StartType, Labels
<1>5. CASE QueueGoal(c)
  BY <1>5, StartFrame DEF QueueGoal, StartType, Labels
<1>6. CASE CheckHealth(c)
  <2>1. PICK l \in {"done", "launch"} : pc' = [pc EXCEPT ![c] = l]
    BY <1>6 DEF CheckHealth
  <2>2. seen' \in [Cmds -> SUBSET Cmds]
    BY <1>6 DEF CheckHealth, StartType, FileType
  <2>3. QED
    BY <1>6, <2>1, <2>2, StartFrame DEF CheckHealth, StartType, Labels
<1>7. CASE LaunchNpx(c)
  BY <1>7 DEF LaunchNpx, StartType, FileType, Labels
<1>8. CASE Wait(c)
  BY <1>8, StartFrame DEF Wait, StartType, Labels
<1>9. CASE KillSession(c)
  <2>1. CASE ~Readable(file)
    BY <1>9, <2>1 DEF KillSession, StartType, FileType, Labels
  <2>2. CASE Readable(file)
    <3>1. file.settings \in {"own", "default"}
      BY <2>2 DEF StartType, FileType, Texts, Readable, Contents
    <3>2. Kill({ d \in Cmds : Alive(d) /\ session[d] = file.settings })
      BY <1>9, <2>2 DEF KillSession
    <3>3. FileType'
      BY <1>9, <3>2, KillType DEF KillSession, StartType, FileType
    <3>4. /\ pc' = [pc EXCEPT ![c] = "session"]
          /\ session' = [session EXCEPT ![c] = file.settings]
          /\ tmux' \subseteq tmux
          /\ UNCHANGED <<latestJson, latestMd, queued, script, deaths, seen>>
      BY <1>9, <2>2 DEF KillSession
    <3>5. QED
      BY <3>1, <3>3, <3>4 DEF StartType, Labels
  <2>3. QED
    BY <2>1, <2>2
<1>10. CASE NewSession(c)
  <2>1. PICK l \in {"failed", "ngrok", "done"} : pc' = [pc EXCEPT ![c] = l]
    BY <1>10 DEF NewSession
  <2>2. FileType'
    BY <1>10 DEF NewSession, StartType, FileType
  <2>3. QED
    BY <1>10, <2>1, <2>2 DEF NewSession, StartType, Labels
<1>11. CASE AddUrl(c)
  <2>1. PICK l \in {"url", "failed", "write url", "done"} : pc' = [pc EXCEPT ![c] = l]
    BY <1>11 DEF AddUrl
  <2>2. <<"script", c>> \in Writers /\ <<>> \in Updates
    BY DEF Writers, Updates
  <2>3. FileType'
    BY <1>11, <2>2, BeginType, TruncateType, WriteType DEF AddUrl, StartType, FileType
  <2>4. QED
    BY <1>11, <2>1, <2>3 DEF AddUrl, StartType, Labels
<1>12. QED
  BY <1>1, <1>2, <1>3, <1>4, <1>5, <1>6, <1>7, <1>8, <1>9, <1>10, <1>11 DEF Command

LEMMA DaemonType ==
  ASSUME FileType, DaemonStep
  PROVE  FileType'
<1>1. ASSUME NEW d \in Cmds, LoadState(d)
      PROVE  FileType'
  BY <1>1 DEF LoadState, FileType
<1>2. ASSUME NEW d \in Cmds, RecordPid(d) \/ Beat(d) \/ ReportGoal(d)
      PROVE  FileType'
  <2>1. /\ <<"worker", d>> \in Writers /\ <<"timer", d>> \in Writers
        /\ {<<>>, [pid |-> d], [beat |-> "fresh"]} \subseteq Updates
    BY DEF Writers, Updates
  <2>2. PICK w \in Writers, u \in Updates : BeginUpdate(w, u)
    BY <1>2, <2>1 DEF RecordPid, Beat, ReportGoal
  <2>3. QED
    BY <1>2, <2>2, BeginType DEF FileType, RecordPid, Beat, ReportGoal
<1>3. ASSUME NEW w \in {"timer", "worker"} \X Cmds, StepOfUpdate(w)
      PROVE  FileType'
  <2>1. w \in Writers /\ w[2] \in Cmds
    BY DEF Writers
  <2>2. QED
    BY <1>3, <2>1, TruncateType, WriteType DEF StepOfUpdate, FileType
<1>4. CASE Age
  BY <1>4 DEF Age, FileType, Texts, Readable, Contents
<1>5. QED
  BY <1>1, <1>2, <1>3, <1>4 DEF DaemonStep

LEMMA NextType == StartType /\ [Next]_vars => StartType'
<1> SUFFICES ASSUME StartType, [Next]_vars PROVE StartType'
  OBVIOUS
<1>1. ASSUME NEW c \in Cmds, CommandDies(c)
      PROVE  StartType'
  <2>1. FileType'
    BY <1>1 DEF CommandDies, StartType, FileType, Entries
  <2>2. deaths' \in 0..MaxDeaths
    BY <1>1, StartAssumption DEF CommandDies, StartType
  <2>3. /\ pc' = [pc EXCEPT ![c] = "failed"]
        /\ UNCHANGED <<latestJson, latestMd, queued, tmux, script, session, seen>>
    BY <1>1 DEF CommandDies, Goto
  <2>4. QED
    BY <2>1, <2>2, <2>3 DEF StartType, Labels
<1>2. ASSUME NEW d \in Cmds, DaemonDies(d)
      PROVE  StartType'
  <2>1. FileType'
    BY <1>2, KillType DEF DaemonDies, StartType, FileType
  <2>2. QED
    BY <1>2, <2>1, StartAssumption DEF DaemonDies, StartType
<1>3. CASE Daemon
  BY <1>3, DaemonType DEF Daemon, startVars, StartType
<1>4. CASE Upstream \/ UNCHANGED vars
  BY <1>4 DEF Upstream, vars, startVars, fileVars, StartType, FileType
<1>5. QED
  BY <1>1, <1>2, <1>3, <1>4, CommandType DEF Next

-----------------------------------------------------------------------------
(* state.json and the daemons *)

\* A daemon is not there before its command launches it.
NotLaunched == {"sync", "bundle", "files", "json", "write json", "md", "write md", "queue",
                "health", "launch", "session"}

\* The timer and the worker of a daemon work while it runs.
RunningInv ==
  /\ \A c \in Cmds : pc[c] \in NotLaunched => daemon[c] = "none"
  /\ \A d \in Cmds : /\ writing[<<"timer", d>>] # Idle => daemon[d] = "up"
                     /\ writing[<<"worker", d>>] # Idle => daemon[d] \in {"booting", "up"}
  /\ \A d \in beaten : daemon[d] = "up"

\* What an update does with the file it has read.
Derived(w) ==
  LET base == writing[w].base
      text == writing[w].text
  IN  /\ base \in Contents /\ base.settings = "own" /\ text.settings = "own"
      /\ text.beat \in {base.beat, "fresh"}
      /\ w[1] = "timer" => text.beat = "fresh"
      /\ IF w[1] = "worker" /\ daemon[w[2]] = "booting" THEN text.pid = w[2]
                                                        ELSE text.pid = base.pid

\* What is in the file, or on its way into it.
Stored(s) == file = s \/ \E w \in Writers : writing[w].step = "open" /\ writing[w].text = s

\* While no update meets another: one file is open at most, and what is stored keeps
\* the project's settings and the last heartbeat.
CalmInv ==
  ~raced =>
    /\ \A w \in Writers : writing[w] # Idle => Derived(w)
    /\ \A w \in Writers : writing[w].step = "open" => file = Torn
    /\ \A v, w \in Writers : writing[v].step = "open" /\ writing[w].step = "open" => v = w
    /\ \A s \in Contents :
         Stored(s) => s.settings = "own" /\ (beaten # {} => s.beat = "fresh")

\* The ./run scripts replace one session by another.
SessionInv ==
  script /\ ~raced =>
    /\ \A d \in Cmds : Alive(d) => session[d] = "own" /\ "own" \in tmux
    /\ \A c, d \in Cmds : Alive(c) /\ Alive(d) => c = d
    /\ \A c \in Cmds : pc[c] = "session" => session[c] = "own"

\* A daemon without a rival has its process id in the file.
PidInv ==
  ~raced => \A d \in Cmds : \A s \in Contents :
              daemon[d] = "up" /\ Sole(d) /\ Stored(s) => s.pid = d

StateInv == StartType /\ RunningInv /\ CalmInv /\ SessionInv /\ PidInv

LEMMA InitState == Init => StateInv
<1> SUFFICES ASSUME Init PROVE StateInv
  OBVIOUS
<1>1. /\ writing = [w \in Writers |-> Idle] /\ daemon = [d \in Cmds |-> "none"]
      /\ beaten = {} /\ pc = [c \in Cmds |-> "sync"]
      /\ file \in {Missing, Initialised}
  BY DEF Init, FileInit
<1>2. \A w \in Writers : writing[w] = Idle /\ writing[w].step # "open"
  BY <1>1 DEF Idle
<1>3. \A d \in Cmds : <<"timer", d>> \in Writers /\ <<"worker", d>> \in Writers
  BY DEF Writers
<1>4. \A s \in Contents : Stored(s) => s.settings = "own"
  BY <1>1, <1>2 DEF Stored, Contents, Missing, Initialised
<1>5. StartType
  BY InitType
<1>6. RunningInv
  BY <1>1, <1>2, <1>3 DEF RunningInv
<1>7. CalmInv
  BY <1>1, <1>2, <1>4 DEF CalmInv
<1>8. SessionInv /\ PidInv
  BY <1>1 DEF SessionInv, PidInv, Alive
<1>9. QED
  BY <1>5, <1>6, <1>7, <1>8 DEF StateInv

\* What an entry of `writing` may be.
LEMMA EntryFacts ==
  ASSUME FileType, NEW w \in Writers
  PROVE  /\ writing[w] = Idle \/ writing[w].step \in {"merged", "open"}
         /\ writing[w].step = "open" => writing[w] # Idle
         /\ writing[w] # Idle => writing[w].text \in Contents /\ writing[w].base \in Texts
  BY DEF FileType, Entries, Idle

LEMMA TextsApart ==
  /\ Missing # Torn /\ Missing \notin Contents /\ Torn \notin Contents
  /\ \A f \in Texts : Readable(f) <=> f \in Contents
<1>1. Missing # Torn
  BY DEF Missing, Torn
<1>2. Missing \notin Contents /\ Torn \notin Contents
  BY ContentsReadable DEF Readable
<1>3. QED
  BY <1>1, <1>2 DEF Texts, Readable

\* A step that begins no update: some end, some daemons are launched, come up or die.
LEMMA UpdatesEnd ==
  ASSUME StateInv, StartType', RunningInv', UNCHANGED <<file, raced, script>>,
         \A w \in Writers : writing'[w] \in {writing[w], Idle},
         \A d \in Cmds : \/ daemon'[d] = daemon[d]
                         \/ /\ daemon'[d] \in {"dead", "loading", "booting"}
                            /\ writing'[<<"worker", d>>] = Idle,
         beaten' \subseteq beaten
  PROVE  CalmInv' /\ PidInv'
<1>1. \A s \in Contents : Stored(s)' => Stored(s)
  BY DEF Stored, Idle
<1>2. \A d \in Cmds : Sole(d)' /\ daemon'[d] = "up" => Sole(d) /\ daemon[d] = "up"
  BY DEF Sole
<1>3. ASSUME ~raced', NEW w \in Writers, writing'[w] # Idle
      PROVE  Derived(w)'
  <2>1. writing'[w] = writing[w] /\ writing[w] # Idle /\ Derived(w)
    BY <1>3 DEF StateInv, CalmInv
  <2>2. w[1] = "worker" => w[2] \in Cmds /\ w = <<"worker", w[2]>>
    BY DEF Writers
  <2>3. w[1] = "worker" => daemon'[w[2]] = daemon[w[2]]
    BY <1>3, <2>2
  <2>4. QED
    BY <2>1, <2>3 DEF Derived
<1>4. \A w \in Writers : writing'[w].step = "open" => writing[w].step = "open" /\ writing'[w] = writing[w]
  BY DEF Idle
<1>5. CalmInv'
  BY <1>1, <1>3, <1>4 DEF StateInv, CalmInv
<1>6. PidInv'
  BY <1>1, <1>2 DEF StateInv, PidInv
<1>7. QED
  BY <1>5, <1>6

LEMMA UpdateBegins ==
  ASSUME StateInv, NEW w \in Writers, NEW u \in Updates, BeginUpdate(w, u),
         UNCHANGED <<file, daemon, beaten, script>>,
         w[1] = "timer" => u = [beat |-> "fresh"],
         IF w[1] = "worker" /\ daemon[w[2]] = "booting" THEN u = [pid |-> w[2]]
                                                        ELSE u \in {<<>>, [beat |-> "fresh"]}
  PROVE  CalmInv' /\ PidInv'
<1> DEFINE e == [step |-> "merged", base |-> file, text |-> Merged(u)]
<1>1. /\ writing' = [writing EXCEPT ![w] = e]
      /\ raced' = (raced \/ ~Readable(file)) /\ writing[w] = Idle
  BY DEF BeginUpdate
<1>2. e.step = "merged" /\ e.base = file /\ e.text = Merged(u)
  OBVIOUS
<1>3. FileType /\ writing \in [Writers -> Entries]
  BY DEF StateInv, StartType, FileType
<1> HIDE DEF e
<1>4. \A s \in Contents : Stored(s)' => Stored(s)
  BY <1>1, <1>2, <1>3 DEF Stored
<1>5. ASSUME ~raced' PROVE Derived(w)'
  <2>1. file \in Contents /\ Readable(file)
    BY <1>1, <1>3, <1>5, TextsApart DEF FileType
  <2>2. file.settings = "own"
    BY <1>1, <1>5, <2>1 DEF StateInv, CalmInv, Stored
  <2>3. e.text = Over(file, u)
    BY <1>2, <2>1 DEF Merged
  <2>4. writing'[w].base = file /\ writing'[w].text = Over(file, u)
    BY <1>1, <1>2, <1>3, <2>3
  <2>5. CASE u = <<>>
    <3>1. Over(file, u) = file /\ w[1] # "timer" /\ daemon' = daemon
      BY <2>1, <2>5, OverFacts
    <3>2. ~(w[1] = "worker" /\ daemon[w[2]] = "booting")
      BY <2>5
    <3>3. QED
      BY <2>1, <2>2, <2>4, <3>1, <3>2 DEF Derived
  <2>6. CASE u = [beat |-> "fresh"]
    <3>1. /\ Over(file, u).settings = "own" /\ Over(file, u).beat = "fresh"
          /\ Over(file, u).pid = file.pid
      BY <2>1, <2>2, <2>6, OverFacts
    <3>2. ~(w[1] = "worker" /\ daemon[w[2]] = "booting") /\ daemon' = daemon
      BY <2>6
    <3>3. QED
      BY <2>1, <2>2, <2>4, <3>1, <3>2 DEF Derived
  <2>7. CASE w[1] = "worker" /\ daemon[w[2]] = "booting" /\ u = [pid |-> w[2]]
    <3>1. w[2] \in Cmds
      BY DEF Writers
    <3>2. /\ Over(file, u).settings = "own" /\ Over(file, u).beat = file.beat
          /\ Over(file, u).pid = w[2]
      BY <2>1, <2>2, <2>7, <3>1, OverFacts
    <3>3. w[1] # "timer" /\ daemon' = daemon
      BY <2>7
    <3>4. QED
      BY <2>1, <2>2, <2>7, <2>4, <3>2, <3>3 DEF Derived
  <2>8. QED
    BY <2>5, <2>6, <2>7
<1>6. ASSUME ~raced', NEW v \in Writers, writing'[v] # Idle
      PROVE  Derived(v)'
  <2>1. CASE v = w
    BY <1>5, <1>6, <2>1
  <2>2. CASE v # w
    BY <1>1, <1>3, <1>6, <2>2 DEF StateInv, CalmInv, Derived
  <2>3. QED
    BY <2>1, <2>2
<1>7. \A v \in Writers : writing'[v].step = "open" => writing[v].step = "open"
  BY <1>1, <1>2, <1>3
<1>8. CalmInv'
  BY <1>1, <1>4, <1>6, <1>7 DEF StateInv, CalmInv
<1>9. PidInv'
  BY <1>1, <1>4 DEF StateInv, PidInv, Sole
<1>10. QED
  BY <1>8, <1>9

LEMMA Truncates ==
  ASSUME StateInv, NEW w \in Writers, Truncate(w), UNCHANGED <<daemon, beaten, script>>
  PROVE  CalmInv' /\ PidInv'
<1> SUFFICES ASSUME ~raced' PROVE CalmInv' /\ PidInv'
  BY DEF CalmInv, PidInv
<1> DEFINE e == [writing[w] EXCEPT !.step = "open"]
<1>1. FileType /\ writing \in [Writers -> Entries] /\ writing[w].step = "merged"
  BY DEF StateInv, StartType, FileType, Truncate
<1>2. writing[w] # Idle
  BY <1>1 DEF Idle
<1>3. writing[w] \in [step : {"merged", "open"}, base : Texts, text : Contents]
  BY <1>1, <1>2 DEF Entries
<1>4. e.step = "open" /\ e.base = writing[w].base /\ e.text = writing[w].text /\ e # Idle
  BY <1>3 DEF Idle
<1>5. writing' = [writing EXCEPT ![w] = e] /\ file' = Torn /\ ~raced /\ file = writing[w].base
  BY DEF Truncate
<1> HIDE DEF e
<1>6. Derived(w) /\ file \in Contents /\ writing[w].text \in Contents
  BY <1>2, <1>3, <1>5 DEF StateInv, CalmInv, Derived
<1>7. \A v \in Writers : writing[v].step # "open"
  BY <1>5, <1>6, TextsApart DEF StateInv, CalmInv
<1>8. \A v \in Writers : writing'[v].step = "open" => v = w
  BY <1>1, <1>5, <1>7
<1>9. \A s \in Contents : Stored(s)' => s = writing[w].text
  BY <1>1, <1>4, <1>5, <1>8, TextsApart DEF Stored
<1>10. Stored(file)
  BY DEF Stored
<1>11. ASSUME NEW v \in Writers, writing'[v] # Idle
       PROVE  Derived(v)'
  <2>1. CASE v = w
    BY <1>1, <1>4, <1>5, <1>6, <2>1 DEF Derived
  <2>2. CASE v # w
    BY <1>1, <1>5, <1>11, <2>2 DEF StateInv, CalmInv, Derived
  <2>3. QED
    BY <2>1, <2>2
<1>12. writing[w].text.settings = "own" /\ (beaten # {} => writing[w].text.beat = "fresh")
  BY <1>5, <1>6, <1>10 DEF StateInv, CalmInv, Derived
<1>13. CalmInv'
  BY <1>5, <1>8, <1>9, <1>11, <1>12 DEF CalmInv
<1>14. ASSUME NEW d \in Cmds, daemon[d] = "up", Sole(d)
       PROVE  writing[w].text.pid = d
  <2>1. file.pid = d
    BY <1>5, <1>6, <1>10, <1>14 DEF StateInv, PidInv
  <2>2. ASSUME w[1] = "worker", daemon[w[2]] = "booting" PROVE FALSE
    <3>1. w[2] \in Cmds
      BY DEF Writers
    <3>2. QED
      BY <1>5, <1>14, <2>2, <3>1 DEF Sole, StateInv, SessionInv, Alive
  <2>3. QED
    BY <1>5, <1>6, <2>1, <2>2 DEF Derived
<1>15. PidInv'
  BY <1>9, <1>14 DEF PidInv, Sole
<1>16. QED
  BY <1>13, <1>15

LEMMA Writes ==
  ASSUME StateInv, NEW w \in Writers, Write(w), UNCHANGED script,
         daemon' = IF w[1] = "worker" THEN [daemon EXCEPT ![w[2]] = "up"] ELSE daemon,
         beaten' = IF w[1] = "timer" THEN beaten \cup {w[2]} ELSE beaten
  PROVE  CalmInv' /\ PidInv'
<1> SUFFICES ASSUME ~raced' PROVE CalmInv' /\ PidInv'
  BY DEF CalmInv, PidInv
<1>1. FileType /\ writing \in [Writers -> Entries] /\ writing[w].step = "open"
  BY DEF StateInv, StartType, FileType, Write
<1>2. writing[w] # Idle /\ writing[w].text \in Contents
  BY <1>1, EntryFacts
<1>3. ~raced /\ file = Torn /\ file' = writing[w].text /\ writing' = [writing EXCEPT ![w] = Idle]
  BY DEF Write, Landed
<1>4. Derived(w) /\ Stored(writing[w].text)
  BY <1>1, <1>2, <1>3 DEF StateInv, CalmInv, Stored
<1>5. \A v \in Writers : writing'[v].step # "open"
  BY <1>1, <1>3 DEF StateInv, CalmInv, Idle
<1>6. \A s \in Contents : Stored(s)' => s = writing[w].text
  BY <1>3, <1>5 DEF Stored
<1>7. ASSUME NEW v \in Writers, writing'[v] # Idle
      PROVE  Derived(v)'
  <2>1. v # w /\ writing'[v] = writing[v] /\ Derived(v)
    BY <1>1, <1>3, <1>7 DEF StateInv, CalmInv
  <2>2. ASSUME v[1] = "worker"
        PROVE  daemon'[v[2]] = daemon[v[2]]
    <3>1. ~(w[1] = "worker" /\ w[2] = v[2])
      BY <2>1, <2>2 DEF Writers
    <3>2. QED
      BY <3>1
  <2>3. QED
    BY <2>1, <2>2 DEF Derived
<1>8. writing[w].text.settings = "own" /\ (beaten' # {} => writing[w].text.beat = "fresh")
  BY <1>2, <1>3, <1>4 DEF StateInv, CalmInv, Derived
<1>9. CalmInv'
  BY <1>5, <1>6, <1>7, <1>8 DEF CalmInv
<1>10. daemon \in [Cmds -> {"none", "loading", "booting", "up", "dead"}]
  BY <1>1 DEF FileType
<1>11. ASSUME NEW d \in Cmds, daemon'[d] = "up", Sole(d)'
       PROVE  writing[w].text.pid = d
  <2>1. Sole(d)
    BY <1>10, <1>11 DEF Sole, Writers
  <2>2. CASE daemon[d] = "up"
    BY <1>2, <1>3, <1>4, <2>1, <2>2 DEF StateInv, PidInv
  <2>3. CASE daemon[d] # "up"
    <3>1. w[1] = "worker" /\ w[2] = d /\ w = <<"worker", d>>
      BY <1>10, <1>11, <2>3 DEF Writers
    <3>2. daemon[d] = "booting"
      BY <1>2, <2>3, <3>1 DEF StateInv, RunningInv
    <3>3. QED
      BY <1>4, <3>1, <3>2 DEF Derived
  <2>4. QED
    BY <2>2, <2>3
<1>12. PidInv'
  BY <1>6, <1>11 DEF PidInv
<1>13. QED
  BY <1>9, <1>12

\* The daemons ds end: their updates with them.
LEMMA KillKeeps ==
  ASSUME StateInv, StartType', NEW ds \in SUBSET Cmds, \A d \in ds : Alive(d), Kill(ds),
         UNCHANGED <<file, raced, script>>,
         \A c \in Cmds : pc'[c] \in NotLaunched => pc[c] \in NotLaunched
  PROVE  RunningInv' /\ CalmInv' /\ PidInv'
<1>1. /\ daemon' = [d \in Cmds |-> IF d \in ds THEN "dead" ELSE daemon[d]]
      /\ beaten' = beaten \ ds /\ writing' = Silenced(ds)
  BY DEF Kill
<1>2. FileType /\ writing \in [Writers -> Entries] /\ beaten \subseteq Cmds
  BY DEF StateInv, StartType, FileType
<1>3. \A w \in Writers : writing'[w] \in {writing[w], Idle}
  BY <1>1 DEF Silenced
<1>4. \A d \in Cmds : <<"timer", d>> \in Writers /\ <<"worker", d>> \in Writers
  BY DEF Writers
<1>5. \A d \in ds : writing'[<<"timer", d>>] = Idle /\ writing'[<<"worker", d>>] = Idle
  BY <1>1, <1>4 DEF Silenced
<1>6. RunningInv'
  <2>1. \A c \in Cmds : pc'[c] \in NotLaunched => daemon'[c] = "none"
    BY <1>1 DEF StateInv, RunningInv, Alive
  <2>2. \A d \in Cmds :
          /\ writing'[<<"timer", d>>] # Idle => daemon'[d] = "up"
          /\ writing'[<<"worker", d>>] # Idle => daemon'[d] \in {"booting", "up"}
    BY <1>1, <1>3, <1>4, <1>5 DEF StateInv, RunningInv
  <2>3. \A d \in beaten' : daemon'[d] = "up"
    BY <1>1, <1>2 DEF StateInv, RunningInv
  <2>4. QED
    BY <2>1, <2>2, <2>3 DEF RunningInv
<1>7. QED
  BY <1>1, <1>3, <1>5, <1>6, UpdatesEnd

\* A daemon that is about to be launched has done nothing.
LEMMA LaunchKeeps ==
  ASSUME StateInv, StartType', NEW c \in Cmds, daemon[c] = "none",
         daemon' = [daemon EXCEPT ![c] = "loading"],
         UNCHANGED <<file, writing, beaten, raced, script>>,
         pc'[c] \notin NotLaunched, \A d \in Cmds \ {c} : pc'[d] = pc[d]
  PROVE  RunningInv' /\ CalmInv' /\ PidInv'
<1>1. FileType /\ \A d \in Cmds : <<"timer", d>> \in Writers /\ <<"worker", d>> \in Writers
  BY DEF StateInv, StartType, Writers
<1>2. writing[<<"timer", c>>] = Idle /\ writing[<<"worker", c>>] = Idle /\ c \notin beaten
  BY DEF StateInv, RunningInv
<1>3. RunningInv'
  BY <1>1, <1>2 DEF StateInv, RunningInv, FileType
<1>4. QED
  BY <1>1, <1>2, <1>3, UpdatesEnd DEF FileType

\* A command's step before it launches anything, or after.
LEMMA QuietKeeps ==
  ASSUME StateInv, StartType', UNCHANGED <<fileVars, script>>,
         \A c \in Cmds : pc'[c] \in NotLaunched => pc[c] \in NotLaunched
  PROVE  RunningInv' /\ CalmInv' /\ PidInv'
<1>1. UNCHANGED <<file, writing, daemon, beaten, raced>>
  BY DEF fileVars
<1>2. RunningInv'
  BY <1>1 DEF StateInv, RunningInv
<1>3. QED
  BY <1>1, <1>2, UpdatesEnd

\* The script of a command writes the file once its daemon is launched.
LEMMA ScriptKeeps ==
  ASSUME StateInv, StartType', NEW c \in Cmds, AddUrl(c)
  PROVE  RunningInv' /\ CalmInv' /\ PidInv'
<1> DEFINE w == <<"script", c>>
<1>1. w \in Writers /\ w[1] = "script" /\ <<>> \in Updates
      /\ \A d \in Cmds : <<"timer", d>> \in Writers /\ <<"worker", d>> \in Writers
  BY DEF Writers, Updates
<1>2. PICK l \in {"url", "failed", "write url", "done"} : pc' = [pc EXCEPT ![c] = l]
  BY DEF AddUrl, Goto
<1>3. UNCHANGED <<daemon, beaten, script>>
  BY DEF AddUrl
<1>4. FileType /\ writing \in [Writers -> Entries] /\ pc \in [Cmds -> Labels]
  BY DEF StateInv, StartType, FileType
<1>5. \A v \in Writers \ {w} : writing'[v] = writing[v]
  BY <1>4 DEF AddUrl, BeginUpdate, Truncate, Write
<1>6. \A d \in Cmds : pc'[d] \in NotLaunched => pc[d] \in NotLaunched
  BY <1>2, <1>4 DEF NotLaunched
<1>7. RunningInv'
  BY <1>1, <1>3, <1>5, <1>6 DEF StateInv, RunningInv
<1>8. CASE BeginUpdate(w, <<>>) /\ UNCHANGED file
  BY <1>1, <1>3, <1>7, <1>8, UpdateBegins
<1>9. CASE UNCHANGED <<file, writing, raced>>
  BY <1>3, <1>6, <1>9, QuietKeeps DEF fileVars
<1>10. CASE Truncate(w)
  BY <1>1, <1>3, <1>7, <1>10, Truncates
<1>11. CASE Write(w)
  BY <1>1, <1>3, <1>7, <1>11, Writes
<1>12. QED
  BY <1>8, <1>9, <1>10, <1>11 DEF AddUrl

LEMMA DaemonKeeps ==
  ASSUME StateInv, StartType', DaemonStep, UNCHANGED <<pc, script>>
  PROVE  RunningInv' /\ CalmInv' /\ PidInv'
<1>1. FileType /\ writing \in [Writers -> Entries]
      /\ \A d \in Cmds : <<"timer", d>> \in Writers /\ <<"worker", d>> \in Writers
  BY DEF StateInv, StartType, FileType, Writers
<1>2. ASSUME NEW d \in Cmds, LoadState(d)
      PROVE  RunningInv' /\ CalmInv' /\ PidInv'
  <2>1. /\ daemon[d] = "loading" /\ UNCHANGED <<file, writing, beaten, raced>>
        /\ \E s \in {"booting", "dead"} : daemon' = [daemon EXCEPT ![d] = s]
    BY <1>2 DEF LoadState
  <2>2. writing[<<"timer", d>>] = Idle /\ writing[<<"worker", d>>] = Idle /\ d \notin beaten
    BY <2>1 DEF StateInv, RunningInv
  <2>3. RunningInv'
    BY <1>1, <2>1, <2>2 DEF StateInv, RunningInv, FileType
  <2>4. \A e \in Cmds : \/ daemon'[e] = daemon[e]
                        \/ /\ daemon'[e] \in {"dead", "loading", "booting"}
                           /\ writing'[<<"worker", e>>] = Idle
    BY <1>1, <2>1, <2>2 DEF FileType
  <2>5. QED
    BY <2>1, <2>3, <2>4, UpdatesEnd
<1>3. ASSUME NEW d \in Cmds, RecordPid(d) \/ Beat(d) \/ ReportGoal(d)
      PROVE  RunningInv' /\ CalmInv' /\ PidInv'
  <2>1. {<<>>, [pid |-> d], [beat |-> "fresh"]} \subseteq Updates
    BY DEF Updates
  <2>2. PICK w \in {<<"timer", d>>, <<"worker", d>>}, u \in Updates :
          /\ BeginUpdate(w, u)
          /\ IF w[1] = "worker" /\ daemon[d] = "booting" THEN u = [pid |-> d]
                                                         ELSE u \in {<<>>, [beat |-> "fresh"]}
          /\ w[1] = "timer" => u = [beat |-> "fresh"] /\ daemon[d] = "up"
          /\ daemon[d] \in {"booting", "up"}
    BY <1>3, <2>1 DEF RecordPid, Beat, ReportGoal
  <2>3. UNCHANGED <<file, daemon, beaten>>
    BY <1>3 DEF RecordPid, Beat, ReportGoal
  <2>4. w \in Writers /\ w[2] = d
    <3>1. CASE w = <<"timer", d>>
      BY <1>1, <3>1
    <3>2. CASE w = <<"worker", d>>
      BY <1>1, <3>2
    <3>3. QED
      BY <2>2, <3>1, <3>2
  <2>5. \A v \in Writers \ {w} : writing'[v] = writing[v]
    BY <1>1, <2>2, <2>4 DEF BeginUpdate
  <2>6. RunningInv'
    BY <1>1, <2>2, <2>3, <2>4, <2>5 DEF StateInv, RunningInv
  <2>7. QED
    BY <2>2, <2>3, <2>4, <2>6, UpdateBegins
<1>4. ASSUME NEW w \in {"timer", "worker"} \X Cmds, StepOfUpdate(w)
      PROVE  RunningInv' /\ CalmInv' /\ PidInv'
  <2>1. w \in Writers /\ w[2] \in Cmds /\ w \in {<<"timer", w[2]>>, <<"worker", w[2]>>}
    BY DEF Writers
  <2>2. \A v \in Writers \ {w} : writing'[v] = writing[v]
    BY <1>1, <1>4, <2>1 DEF StepOfUpdate, Truncate, Write
  <2>3. writing[w] # Idle
    BY <1>4 DEF StepOfUpdate, Idle
  <2>4. CASE Truncate(w) /\ UNCHANGED <<daemon, beaten>>
    <3>1. RunningInv'
      BY <1>1, <2>1, <2>2, <2>3, <2>4 DEF StateInv, RunningInv
    <3>2. QED
      BY <2>1, <2>4, <3>1, Truncates
  <2>5. CASE /\ Write(w)
             /\ daemon' = IF w[1] = "worker" THEN [daemon EXCEPT ![w[2]] = "up"] ELSE daemon
             /\ beaten' = IF w[1] = "timer" THEN beaten \cup {w[2]} ELSE beaten
    <3>1. daemon[w[2]] \in {"booting", "up"} /\ (w[1] = "timer" => daemon[w[2]] = "up")
      <4>1. CASE w = <<"timer", w[2]>>
        BY <2>1, <2>3, <4>1 DEF StateInv, RunningInv
      <4>2. CASE w = <<"worker", w[2]>>
        <5>1. w[1] = "worker"
          BY <4>2
        <5>2. QED
          BY <2>1, <2>3, <4>2, <5>1 DEF StateInv, RunningInv
      <4>3. QED
        BY <2>1, <4>1, <4>2
    <3>2. writing'[w] = Idle
      BY <1>1, <2>1, <2>5 DEF Write
    <3>3. \A c \in Cmds : daemon'[c] = daemon[c] \/ (c = w[2] /\ daemon'[c] = "up")
      <4>1. CASE w[1] = "worker"
        BY <1>1, <2>1, <2>5, <4>1 DEF FileType
      <4>2. CASE w[1] # "worker"
        BY <2>5, <4>2
      <4>3. QED
        BY <4>1, <4>2
    <3>4. RunningInv'
      BY <1>1, <2>1, <2>2, <2>5, <3>1, <3>2, <3>3 DEF StateInv, RunningInv, FileType
    <3>5. QED
      BY <2>1, <2>5, <3>4, Writes
  <2>6. QED
    BY <1>4, <2>4, <2>5 DEF StepOfUpdate
<1>5. CASE Age
  <2>1. /\ file' = [file EXCEPT !.beat = "stale"] /\ file \in Contents /\ beaten = {}
        /\ UNCHANGED <<writing, daemon, beaten, raced>>
        /\ \A w \in Writers : writing[w] = Idle
    BY <1>1, <1>5, TextsApart DEF Age, FileType
  <2>2. file'.settings = file.settings /\ file'.pid = file.pid
    BY <2>1 DEF Contents
  <2>3. \A s \in Contents : Stored(s)' => s = file'
    BY <2>1 DEF Stored, Idle
  <2>4. Stored(file)
    BY DEF Stored
  <2>5. RunningInv'
    BY <2>1 DEF StateInv, RunningInv
  <2>6. CalmInv'
    <3>1. \A w \in Writers : writing'[w] = Idle /\ writing'[w].step # "open"
      BY <2>1 DEF Idle
    <3>2. ~raced => file.settings = "own"
      BY <2>1, <2>4 DEF StateInv, CalmInv
    <3>3. QED
      BY <2>1, <2>2, <2>3, <3>1, <3>2 DEF CalmInv
  <2>7. PidInv'
    BY ZenonT(60), <2>1, <2>2, <2>3, <2>4 DEF StateInv, PidInv, Sole
  <2>8. QED
    BY <2>5, <2>6, <2>7
<1>6. QED
  BY <1>2, <1>3, <1>4, <1>5 DEF DaemonStep

\* No daemon is launched and no session is made.
LEMMA SessionFrame ==
  ASSUME SessionInv, UNCHANGED <<script, tmux, session>>, raced => raced',
         \A d \in Cmds : Alive(d)' => Alive(d),
         \A c \in Cmds : pc'[c] = "session" => pc[c] = "session"
  PROVE  SessionInv'
  BY DEF SessionInv

\* While no update met another the script finds the project's own mode, and the one
\* session of that name holds every daemon.
LEMMA KillSessionKeeps ==
  ASSUME StateInv, NEW c \in Cmds, KillSession(c)
  PROVE  SessionInv'
<1> SUFFICES ASSUME script', ~raced' PROVE SessionInv'
  BY DEF SessionInv
<1>1. script /\ ~raced /\ SessionInv /\ FileType /\ pc \in [Cmds -> Labels]
      /\ session \in [Cmds -> {"own", "default", "none"}]
  BY DEF KillSession, StateInv, StartType
<1>2. CASE ~Readable(file)
  <2>1. UNCHANGED daemon
    BY <1>2 DEF KillSession
  <2>2. QED
    BY <1>1, <1>2, <2>1, SessionFrame DEF KillSession, Goto, Alive
<1>3. CASE Readable(file)
  <2>1. file \in Contents /\ file.settings = "own"
    BY <1>1, <1>3, TextsApart DEF StateInv, CalmInv, Stored, FileType
  <2>2. /\ session' = [session EXCEPT ![c] = "own"] /\ pc' = [pc EXCEPT ![c] = "session"]
        /\ daemon' = [d \in Cmds |-> IF Alive(d) /\ session[d] = "own" THEN "dead" ELSE daemon[d]]
    BY <1>3, <2>1 DEF KillSession, Kill, Goto
  <2>3. \A d \in Cmds : ~Alive(d)'
    BY <1>1, <2>2 DEF SessionInv, Alive
  <2>4. QED
    BY <1>1, <2>2, <2>3 DEF SessionInv
<1>4. QED
  BY <1>2, <1>3

LEMMA NewSessionKeeps ==
  ASSUME StateInv, NEW c \in Cmds, NewSession(c)
  PROVE  SessionInv'
<1> SUFFICES ASSUME script', ~raced' PROVE SessionInv'
  BY DEF SessionInv
<1>1. script /\ ~raced /\ SessionInv /\ pc \in [Cmds -> Labels] /\ pc[c] = "session"
      /\ FileType /\ session[c] = "own"
  BY DEF NewSession, StateInv, StartType, SessionInv, Pc
<1>2. PICK l \in {"failed", "ngrok", "done"} : pc' = [pc EXCEPT ![c] = l]
  BY DEF NewSession, Goto
<1>3. CASE session[c] \in tmux
  BY <1>1, <1>2, <1>3, SessionFrame DEF NewSession, Alive
<1>4. CASE session[c] \notin tmux
  <2>1. \A d \in Cmds : ~Alive(d)
    BY <1>1, <1>4 DEF SessionInv
  <2>2. daemon' = [daemon EXCEPT ![c] = "loading"] /\ "own" \in tmux' /\ session' = session
    BY <1>1, <1>4 DEF NewSession
  <2>3. \A d \in Cmds : Alive(d)' => d = c
    BY <1>1, <2>1, <2>2 DEF Alive, FileType
  <2>4. QED
    BY <1>1, <1>2, <2>2, <2>3 DEF SessionInv
<1>5. QED
  BY <1>3, <1>4

LEMMA CommandKeepsState ==
  ASSUME StateInv, StartType', NEW c \in Cmds, Command(c)
  PROVE  StateInv'
<1> USE DEF Goto, Pc
<1>1. pc \in [Cmds -> Labels] /\ SessionInv
  BY DEF StateInv, StartType
<1>2. CASE Sync(c) \/ MakeBundle(c) \/ PointJson(c) \/ PointMd(c) \/ QueueGoal(c) \/ CheckHealth(c) \/ Wait(c)
  <2>1. UNCHANGED <<fileVars, script, tmux, session>>
    BY <1>2 DEF Sync, MakeBundle, PointJson, PointMd, QueueGoal, CheckHealth, Wait
  <2>2. PICK l \in Labels \ {"session"} :
          pc' = [pc EXCEPT ![c] = l] /\ (l \in NotLaunched => pc[c] \in NotLaunched)
    <3>1. CASE Sync(c)
      BY <3>1 DEF Sync, Labels, NotLaunched
    <3>2. CASE MakeBundle(c)
      BY <3>2 DEF MakeBundle, Labels, NotLaunched
    <3>3. CASE PointJson(c) \/ PointMd(c)
      BY <3>3 DEF PointJson, PointMd, Labels, NotLaunched
    <3>4. CASE QueueGoal(c) \/ CheckHealth(c) \/ Wait(c)
      BY <3>4 DEF QueueGoal, CheckHealth, Wait, Labels, NotLaunched
    <3>5. QED
      BY <1>2, <3>1, <3>2, <3>3, <3>4
  <2>3. RunningInv' /\ CalmInv' /\ PidInv'
    BY <1>1, <2>1, <2>2, QuietKeeps
  <2>4. SessionInv'
    BY <1>1, <2>1, <2>2, SessionFrame DEF fileVars, Alive
  <2>5. QED
    BY <2>3, <2>4 DEF StateInv
<1>3. CASE LaunchNpx(c)
  <2>1. daemon[c] = "none" /\ ~script'
    BY <1>3 DEF LaunchNpx, StateInv, RunningInv, NotLaunched
  <2>2. RunningInv' /\ CalmInv' /\ PidInv'
    BY <1>1, <1>3, <2>1, LaunchKeeps DEF LaunchNpx, NotLaunched
  <2>3. QED
    BY <2>1, <2>2 DEF StateInv, SessionInv
<1>4. CASE KillSession(c)
  <2>1. PICK l \in {"failed", "session"} : pc' = [pc EXCEPT ![c] = l]
    BY <1>4 DEF KillSession
  <2>2. \A d \in Cmds : pc'[d] \in NotLaunched => pc[d] \in NotLaunched
    BY <1>1, <1>4, <2>1 DEF KillSession, NotLaunched
  <2>3. CASE Readable(file)
    <3>1. PICK ds \in SUBSET Cmds : Kill(ds) /\ \A d \in ds : Alive(d)
      BY <1>4, <2>3 DEF KillSession
    <3>2. QED
      BY <1>4, <2>2, <3>1, KillKeeps, KillSessionKeeps DEF KillSession, StateInv
  <2>4. CASE ~Readable(file)
    BY <1>4, <2>2, <2>4, QuietKeeps, KillSessionKeeps DEF KillSession, StateInv, fileVars
  <2>5. QED
    BY <2>3, <2>4
<1>5. CASE NewSession(c)
  <2>1. PICK l \in {"failed", "ngrok", "done"} : pc' = [pc EXCEPT ![c] = l]
    BY <1>5 DEF NewSession
  <2>2. daemon[c] = "none"
    BY <1>5 DEF NewSession, StateInv, RunningInv, NotLaunched
  <2>3. CASE session[c] \in tmux
    BY <1>1, <1>5, <2>1, <2>3, QuietKeeps, NewSessionKeeps
    DEF NewSession, StateInv, fileVars, NotLaunched
  <2>4. CASE session[c] \notin tmux
    BY <1>1, <1>5, <2>1, <2>2, <2>4, LaunchKeeps, NewSessionKeeps
    DEF NewSession, StateInv, NotLaunched
  <2>5. QED
    BY <2>3, <2>4
<1>6. CASE AddUrl(c)
  <2>1. PICK l \in {"url", "failed", "write url", "done"} : pc' = [pc EXCEPT ![c] = l]
    BY <1>6 DEF AddUrl
  <2>2. UNCHANGED <<daemon, script, tmux, session>>
    BY <1>6 DEF AddUrl
  <2>3. raced => raced'
    BY <1>6, Zenon DEF AddUrl, BeginUpdate, Truncate, Write
  <2>4. SessionInv'
    BY <1>1, <2>1, <2>2, <2>3, SessionFrame DEF Alive
  <2>5. QED
    BY <1>6, <2>4, ScriptKeeps DEF StateInv
<1>7. QED
  BY <1>2, <1>3, <1>4, <1>5, <1>6 DEF Command

LEMMA NextState == StateInv /\ [Next]_vars => StateInv'
<1> SUFFICES ASSUME StateInv, [Next]_vars PROVE StateInv'
  OBVIOUS
<1>1. StartType' /\ SessionInv /\ pc \in [Cmds -> Labels] /\ FileType
  BY NextType DEF StateInv, StartType
<1>2. ASSUME NEW c \in Cmds, CommandDies(c)
      PROVE  StateInv'
  <2>1. UNCHANGED <<file, daemon, beaten, raced, script, tmux, session>>
        /\ pc' = [pc EXCEPT ![c] = "failed"]
    BY <1>2 DEF CommandDies, Goto
  <2>2. writing' = [writing EXCEPT ![<<"script", c>>] = Idle]
    BY <1>2 DEF CommandDies
  <2>3. \A w \in Writers : writing'[w] \in {writing[w], Idle}
    BY <1>1, <2>2 DEF FileType
  <2>4. \A d \in Cmds : <<"timer", d>> \in Writers /\ <<"worker", d>> \in Writers
    BY DEF Writers
  <2>5. RunningInv'
    BY <1>1, <2>1, <2>3, <2>4 DEF StateInv, RunningInv, NotLaunched
  <2>6. CalmInv' /\ PidInv'
    BY <1>1, <2>1, <2>3, <2>5, UpdatesEnd
  <2>7. SessionInv'
    BY <1>1, <2>1, SessionFrame DEF Alive
  <2>8. QED
    BY <1>1, <2>5, <2>6, <2>7 DEF StateInv
<1>3. ASSUME NEW d \in Cmds, DaemonDies(d)
      PROVE  StateInv'
  <2>1. Kill({d}) /\ Alive(d) /\ UNCHANGED <<file, raced, script, pc, tmux, session>>
    BY <1>3 DEF DaemonDies
  <2>2. RunningInv' /\ CalmInv' /\ PidInv'
    BY <1>1, <2>1, KillKeeps
  <2>3. SessionInv'
    BY <1>1, <2>1, SessionFrame DEF Alive, Kill
  <2>4. QED
    BY <1>1, <2>2, <2>3 DEF StateInv
<1>4. CASE Daemon
  <2>1. DaemonStep /\ UNCHANGED <<pc, script, tmux, session>>
    BY <1>4 DEF Daemon, startVars
  <2>2. RunningInv' /\ CalmInv' /\ PidInv'
    BY <1>1, <2>1, DaemonKeeps
  <2>3. \A d \in Cmds : Alive(d)' => Alive(d)
    <3>1. ASSUME NEW w \in {"timer", "worker"} \X Cmds, StepOfUpdate(w), NEW d \in Cmds,
                 Alive(d)'
          PROVE  Alive(d)
      <4>1. CASE UNCHANGED daemon
        BY <3>1, <4>1 DEF Alive
      <4>2. CASE w[1] = "worker" /\ daemon' = [daemon EXCEPT ![w[2]] = "up"]
        <5>1. w = <<"worker", w[2]>> /\ w[2] \in Cmds /\ writing[w] # Idle
          BY <3>1, <4>2 DEF StepOfUpdate, Idle
        <5>2. daemon[w[2]] \in {"booting", "up"}
          BY <5>1 DEF StateInv, RunningInv
        <5>3. QED
          BY <1>1, <3>1, <4>2, <5>1, <5>2 DEF Alive, FileType
      <4>3. QED
        BY <3>1, <4>1, <4>2 DEF StepOfUpdate
    <3>2. ASSUME NEW e \in Cmds, LoadState(e), NEW d \in Cmds, Alive(d)'
          PROVE  Alive(d)
      BY <1>1, <3>2 DEF LoadState, Alive, FileType
    <3>3. QED
      BY <2>1, <3>1, <3>2 DEF DaemonStep, RecordPid, Beat, ReportGoal, Age, Alive
  <2>4. raced => raced'
    BY <2>1 DEF DaemonStep, LoadState, RecordPid, Beat, ReportGoal, Age, StepOfUpdate,
       BeginUpdate, Truncate, Write
  <2>5. SessionInv'
    BY <1>1, <2>1, <2>3, <2>4, SessionFrame
  <2>6. QED
    BY <1>1, <2>2, <2>5 DEF StateInv
<1>5. CASE Upstream \/ UNCHANGED vars
  <2>1. UNCHANGED <<fileVars, startVars>>
    BY <1>5 DEF Upstream, vars
  <2>2. RunningInv' /\ CalmInv' /\ PidInv'
    BY <1>1, <2>1, QuietKeeps DEF startVars
  <2>3. SessionInv'
    BY <1>1, <2>1, SessionFrame DEF startVars, fileVars, Alive
  <2>4. QED
    BY <1>1, <2>2, <2>3 DEF StateInv
<1>6. QED
  BY <1>1, <1>2, <1>3, <1>4, <1>5, CommandKeepsState DEF Next

\* However many start commands launch a daemon with ./run, and wherever commands and
\* daemons are killed, one daemon runs at a time while no two updates of state.json met.
THEOREM OneDaemonAtATime == Spec => []OneDaemon
<1>1. StateInv => OneDaemon
  BY DEF StateInv, SessionInv, OneDaemon
<1>2. QED
  BY <1>1, InitState, NextState, PTL DEF Spec

\* A command that saw a beating daemon has ended, unless updates of state.json met or
\* npx launched a second daemon.
SpareInv ==
  \A c, d \in Cmds :
    d \in seen[c] => pc[c] \in {"done", "failed"} \/ raced \/ ~Sole(d)

\* The look itself: what beats is what state.json names, so it is healthy.
LEMMA LookEnds ==
  ASSUME StateInv, NEW c \in Cmds, CheckHealth(c),
         NEW d \in Cmds, d \in beaten, Readable(file), Sole(d), ~raced
  PROVE  pc'[c] = "done"
<1>1. pc \in [Cmds -> Labels] /\ daemon[d] = "up"
  BY DEF StateInv, StartType, RunningInv
<1>2. file \in Contents /\ Stored(file)
  BY TextsApart DEF StateInv, StartType, FileType, Stored
<1>3. file.pid = d /\ file.beat = "fresh"
  BY <1>1, <1>2 DEF StateInv, PidInv, CalmInv
<1>4. Healthy
  BY <1>1, <1>3, StateFileAssumption DEF Healthy, Alive
<1>5. QED
  BY <1>1, <1>4 DEF CheckHealth, Goto

\* A command that has ended stays so.
LEMMA EndedStays ==
  ASSUME StartType, [Next]_vars, NEW c \in Cmds, pc[c] \in {"done", "failed"}
  PROVE  pc'[c] = pc[c]
<1>1. pc \in [Cmds -> Labels]
  BY DEF StartType
<1>2. ASSUME NEW e \in Cmds, Command(e)
      PROVE  pc'[c] = pc[c]
  <2>1. e # c /\ \E l \in Labels : pc' = [pc EXCEPT ![e] = l]
    <3>1. CASE Sync(e) \/ MakeBundle(e) \/ PointJson(e) \/ PointMd(e) \/ QueueGoal(e)
      BY <3>1 DEF Sync, MakeBundle, PointJson, PointMd, QueueGoal, Goto, Pc, Labels
    <3>2. CASE CheckHealth(e) \/ LaunchNpx(e) \/ Wait(e)
      BY <3>2 DEF CheckHealth, LaunchNpx, Wait, Goto, Pc, Labels
    <3>3. CASE KillSession(e) \/ NewSession(e) \/ AddUrl(e)
      BY <3>3 DEF KillSession, NewSession, AddUrl, Goto, Pc, Labels
    <3>4. QED
      BY <1>2, <3>1, <3>2, <3>3 DEF Command
  <2>2. QED
    BY <1>1, <2>1
<1>3. ASSUME NEW e \in Cmds, CommandDies(e)
      PROVE  pc'[c] = pc[c]
  BY <1>1, <1>3 DEF CommandDies, Goto, Pc
<1>4. CASE Daemon \/ Upstream \/ (\E d \in Cmds : DaemonDies(d)) \/ UNCHANGED vars
  BY <1>4 DEF Daemon, Upstream, DaemonDies, vars, startVars
<1>5. QED
  BY <1>2, <1>3, <1>4 DEF Next

\* No daemon is ever unlaunched, and updates that met stay so.
LEMMA RivalsStay ==
  ASSUME StateInv, [Next]_vars
  PROVE  /\ raced => raced'
         /\ \A d \in Cmds : Sole(d)' => Sole(d)
<1>1. FileType
  BY DEF StateInv, StartType
<1> DEFINE Rivals == /\ raced => raced'
                     /\ script' = script
                     /\ \A d \in Cmds : daemon[d] # "none" => daemon'[d] # "none"
<1>2. Rivals
  <2>1. ASSUME NEW c \in Cmds, Command(c)
        PROVE  Rivals
    <3>1. CASE Sync(c) \/ MakeBundle(c) \/ PointJson(c) \/ PointMd(c) \/ QueueGoal(c)
               \/ CheckHealth(c) \/ Wait(c)
      <4>1. UNCHANGED <<fileVars, script>>
        BY <3>1 DEF Sync, MakeBundle, PointJson, PointMd, QueueGoal, CheckHealth, Wait
      <4>2. QED
        BY <4>1 DEF fileVars
    <3>2. CASE LaunchNpx(c)
      BY <1>1, <3>2 DEF LaunchNpx, FileType
    <3>3. CASE KillSession(c)
      BY <1>1, <3>3 DEF KillSession, Kill, FileType
    <3>4. CASE NewSession(c)
      BY <1>1, <3>4 DEF NewSession, FileType
    <3>5. CASE AddUrl(c)
      <4>1. script' = script /\ daemon' = daemon
        BY <3>5 DEF AddUrl
      <4>2. raced => raced'
        BY <3>5, Zenon DEF AddUrl, BeginUpdate, Truncate, Write
      <4>3. QED
        BY <4>1, <4>2
    <3>6. QED
      BY <2>1, <3>1, <3>2, <3>3, <3>4, <3>5 DEF Command
  <2>2. ASSUME NEW c \in Cmds, CommandDies(c) \/ DaemonDies(c)
        PROVE  Rivals
    BY <1>1, <2>2 DEF CommandDies, DaemonDies, Kill, FileType
  <2>3. CASE Daemon
    <3>1. DaemonStep /\ script' = script
      BY <2>3 DEF Daemon, startVars
    <3>2. raced => raced'
      BY <3>1 DEF DaemonStep, LoadState, RecordPid, Beat, ReportGoal, Age, StepOfUpdate,
         BeginUpdate, Truncate, Write
    <3>3. ASSUME NEW d \in Cmds, daemon[d] # "none" PROVE daemon'[d] # "none"
      BY <1>1, <3>1, <3>3 DEF DaemonStep, LoadState, RecordPid, Beat, ReportGoal, Age,
         StepOfUpdate, FileType
    <3>4. QED
      BY <3>1, <3>2, <3>3
  <2>4. CASE Upstream \/ UNCHANGED vars
    BY <2>4 DEF Upstream, vars, startVars, fileVars
  <2>5. QED
    BY <2>1, <2>2, <2>3, <2>4 DEF Next
<1>3. QED
  BY <1>2 DEF Sole

LEMMA NextSpares == StateInv /\ SpareInv /\ [Next]_vars => SpareInv'
<1> SUFFICES ASSUME StateInv, SpareInv, [Next]_vars, NEW c \in Cmds, NEW d \in Cmds,
                    d \in seen'[c], ~raced', Sole(d)'
             PROVE  pc'[c] \in {"done", "failed"}
  BY DEF SpareInv
<1>1. ~raced /\ Sole(d) /\ seen \in [Cmds -> SUBSET Cmds]
  BY RivalsStay DEF StateInv, StartType
<1>2. CASE d \in seen[c]
  BY <1>1, <1>2, EndedStays DEF SpareInv, StateInv
<1>3. CASE d \notin seen[c]
  <2>1. CheckHealth(c) /\ seen' = [seen EXCEPT ![c] = IF Readable(file) THEN beaten ELSE {}]
    <3>1. ASSUME NEW e \in Cmds, Command(e)
          PROVE  seen' = seen
                   \/ /\ CheckHealth(e)
                      /\ seen' = [seen EXCEPT ![e] = IF Readable(file) THEN beaten ELSE {}]
      BY <3>1 DEF Command, Sync, MakeBundle, PointJson, PointMd, QueueGoal, CheckHealth,
         LaunchNpx, Wait, KillSession, NewSession, AddUrl
    <3>2. ASSUME NEW e \in Cmds, CommandDies(e) \/ DaemonDies(e)
          PROVE  seen' = seen
      BY <3>2 DEF CommandDies, DaemonDies
    <3>3. CASE Daemon \/ Upstream \/ UNCHANGED vars
      BY <1>3, <3>3 DEF Daemon, Upstream, vars, startVars
    <3>4. QED
      BY <1>1, <1>3, <3>1, <3>2, <3>3 DEF Next
  <2>2. d \in beaten /\ Readable(file)
    BY <1>1, <2>1
  <2>3. QED
    BY <1>1, <2>1, <2>2, LookEnds
<1>4. QED
  BY <1>2, <1>3

\* A start command spares, until it ends, every daemon that beat when it read
\* state.json and that no other has followed, while no two updates of the file met.
THEOREM SeenDaemonsSpared == Spec => SeenDaemonSpared
<1> DEFINE Spared == \A c, d \in Cmds :
       pc'[c] # pc[c] /\ d \in seen[c] /\ Alive(d) /\ Sole(d) /\ ~raced
       => daemon' = daemon
<1>1. Init => SpareInv
  BY DEF Init, SpareInv
<1>2. StateInv /\ SpareInv /\ [Next]_vars => Spared
  BY EndedStays DEF SpareInv, StateInv
<1>3. StateInv /\ SpareInv /\ [Next]_vars => [Spared]_vars
  BY <1>2
<1>4. QED
  BY <1>1, <1>3, InitState, NextState, NextSpares, PTL DEF Spec, SeenDaemonSpared

\* Every variable keeps its type, the files that are read half-written included.
THEOREM StartTypeCorrect == Spec => []TypeOK
<1>1. StateInv /\ BundleInv /\ SyncInv /\ SkillsInv => TypeOK
  <2> SUFFICES ASSUME StateInv, BundleInv, SyncInv, SkillsInv PROVE TypeOK
    OBVIOUS
  <2>1. FileTypeOK
    BY EntryFacts DEF StateInv, StartType, FileType, FileTypeOK, Texts
  <2>2. SyncTypeOK
    BY SyncTypes
  <2>3. QED
    BY <2>1, <2>2 DEF TypeOK, StateInv, StartType, BundleInv
<1>2. Init => SyncInv /\ SkillsInv
  BY InitSync, InitSkills DEF Init
<1>3. SyncInv /\ SkillsInv /\ [Next]_vars => SyncInv' /\ SkillsInv'
  BY SyncPart, SyncNextKeeps, SkillsStep
<1>4. QED
  BY <1>1, <1>2, <1>3, InitState, NextState, InitBundle, NextBundle, PTL DEF Spec

=============================================================================
