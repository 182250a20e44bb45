--------------------------- MODULE UpstreamProofs ---------------------------
(***************************************************************************)
(* Proofs about Upstream, for any number of commands that synchronise one  *)
(* after the other, fail and are killed, and any number of revisions.      *)
(***************************************************************************)
EXTENDS Upstream, TLAPS

SyncNext == Push \/ \E c \in Cmds : SyncStep(c) \/ AbandonSync(c)

-----------------------------------------------------------------------------
(* The inductive invariant *)

Names == UNION { Skills[s] : s \in Revisions }
NameTable == [RuntimeNames -> SUBSET Names]
Manifests == [sha : Revisions, names : NameTable]

InstallSteps == {"clear tree", "copy tree", "clear skills", "skills", "manifest", "record"}

Steps == InstallSteps \cup {"off", "resolve", "synced", "failed"}

SyncRecords ==
  [at : Steps, prev : Manifests \cup {Missing}, sha : Revisions \cup {Nothing},
   run : {1, 2}, todo : SUBSET Names, names : NameTable]

SyncType ==
  /\ upstream \in Revisions /\ cache \in Revisions \cup {Nothing}
  /\ tree \in [RuntimeNames -> Revisions \cup {Nothing}]
  /\ skills \in [RuntimeNames -> SUBSET (Names \X Revisions)]
  /\ manifest \in Manifests \cup {Missing, Torn}
  /\ sync \in [Cmds -> SyncRecords]

Installing(c) == sync[c].at \in InstallSteps
InstalledAt(r, s) == tree[r] = s /\ Skills[s] \X {s} \subseteq skills[r]

\* One command synchronises at a time.
OneSyncInv == \A c, d \in Cmds : Synchronising(c) /\ Synchronising(d) => c = d

\* The manifest names no revision that upstream had not; if it names the newest,
\* that one is installed.
ManifestInv ==
  Readable(manifest) =>
    /\ manifest.sha <= upstream
    /\ manifest.sha = upstream => Installed(upstream)

\* What a command has read is still the manifest, and it begins with the first
\* runtime.
Looking(c) ==
  /\ sync[c].at \in {"off", "resolve"} => sync[c].run = 1
  /\ sync[c].at = "resolve" =>
       /\ Readable(manifest) => sync[c].prev = manifest
       /\ Readable(sync[c].prev) => sync[c].prev = manifest

\* While files are replaced the manifest names an older revision.
Behind(c) ==
  Installing(c) =>
    /\ sync[c].sha \in Revisions
    /\ sync[c].sha = cache /\ sync[c].sha <= upstream
    /\ Readable(manifest) => manifest.sha < sync[c].sha

\* What a command has installed so far.
Progress(c) ==
  /\ sync[c].at \in {"clear tree", "copy tree", "clear skills", "skills"} /\ sync[c].run = 2
       => InstalledAt("cursor", sync[c].sha)
  /\ sync[c].at \in {"clear skills", "skills"} => tree[Runtime(c)] = sync[c].sha
  /\ sync[c].at = "skills" =>
       \A n \in Skills[sync[c].sha] \ sync[c].todo :
         <<n, sync[c].sha>> \in skills[Runtime(c)]
  /\ sync[c].at \in {"manifest", "record"} =>
       InstalledAt("cursor", sync[c].sha) /\ InstalledAt("codex", sync[c].sha)

SyncInv ==
  /\ SyncType /\ OneSyncInv /\ ManifestInv
  /\ \A c \in Cmds : Looking(c) /\ Behind(c) /\ Progress(c)

LEMMA RuntimeFacts ==
  /\ Len(Runtimes) = 2 /\ Runtimes[1] = "cursor" /\ Runtimes[2] = "codex"
  /\ RuntimeNames = {"cursor", "codex"}
<1>1. Len(Runtimes) = 2 /\ Runtimes[1] = "cursor" /\ Runtimes[2] = "codex"
      /\ DOMAIN Runtimes = {1, 2}
  BY DEF Runtimes
<1>2. QED
  BY <1>1 DEF RuntimeNames

LEMMA NewSyncType == NewSync \in SyncRecords
  BY DEF NewSync, SyncRecords, Steps, InstallSteps, NameTable

LEMMA InitSync == SyncInit => SyncInv
<1> SUFFICES ASSUME SyncInit PROVE SyncInv
  OBVIOUS
<1>1. SyncType
  BY NewSyncType, UpstreamAssumption DEF SyncInit, SyncType, Revisions
<1>2. \A c \in Cmds : sync[c].at = "off" /\ sync[c].run = 1
  BY DEF SyncInit, NewSync
<1>3. ~Readable(manifest)
  BY DEF SyncInit, Readable
<1>4. QED
  BY <1>1, <1>2, <1>3 DEF SyncInv, OneSyncInv, ManifestInv, Looking, Behind,
     Progress, Synchronising, Installing, InstallSteps

-----------------------------------------------------------------------------
(* One lemma per action *)

Quiet == {"off", "synced", "failed"}

\* A step of the one command that synchronises: the others have nothing to lose.
LEMMA StepKeeps ==
  ASSUME SyncInv, SyncType', NEW c \in Cmds,
         \A d \in Cmds \ {c} : sync'[d] = sync[d] /\ sync[d].at \in Quiet,
         ManifestInv', Looking(c)', Behind(c)', Progress(c)'
  PROVE  SyncInv'
<1>1. OneSyncInv'
  BY DEF SyncInv, OneSyncInv, Synchronising, Quiet
<1>2. ASSUME NEW d \in Cmds, d # c PROVE Looking(d)' /\ Behind(d)' /\ Progress(d)'
  <2>1. sync'[d] = sync[d] /\ sync[d].at \in Quiet /\ Looking(d)
    BY <1>2 DEF SyncInv
  <2>2. QED
    BY <2>1 DEF Looking, Behind, Progress, Installing, InstallSteps, Quiet
<1>3. QED
  BY <1>1, <1>2 DEF SyncInv

\* The update of one command's record.
LEMMA Others ==
  ASSUME SyncInv, NEW c \in Cmds, Synchronising(c)
  PROVE  \A d \in Cmds \ {c} : sync[d].at \in Quiet
  BY DEF SyncInv, OneSyncInv, Synchronising, Quiet

LEMMA PushKeeps == SyncInv /\ Push => SyncInv'
<1> SUFFICES ASSUME SyncInv, Push PROVE SyncInv'
  OBVIOUS
<1>1. upstream' = upstream + 1 /\ upstream \in Nat /\ upstream' \in Revisions
  BY UpstreamAssumption DEF Push, SyncInv, SyncType, Revisions
<1>2. Readable(manifest) => manifest.sha \in Nat
  BY UpstreamAssumption DEF Readable, SyncInv, SyncType, Manifests, Revisions
<1>3. UNCHANGED <<cache, tree, skills, manifest, sync>>
  BY DEF Push
<1>4. SyncType' /\ OneSyncInv'
  BY <1>1, <1>3 DEF SyncInv, SyncType, OneSyncInv, Synchronising
<1>5. ManifestInv'
  BY <1>1, <1>2, <1>3 DEF SyncInv, ManifestInv, Readable
<1>6. ASSUME NEW c \in Cmds PROVE Looking(c)' /\ Behind(c)' /\ Progress(c)'
  <2>1. Looking(c) /\ Behind(c) /\ Progress(c)
    BY DEF SyncInv
  <2>2. Installing(c) => sync[c].sha \in Nat
    BY <2>1, UpstreamAssumption DEF Behind, Revisions
  <2>3. QED
    <3>1. Looking(c)' /\ Progress(c)'
      BY <1>3, <2>1 DEF Looking, Progress, Readable, InstalledAt, Runtime
    <3>2. Behind(c)'
      BY <1>1, <1>3, <2>1, <2>2 DEF Behind, Installing, Readable
    <3>3. QED
      BY <3>1, <3>2
<1>7. QED
  BY <1>4, <1>5, <1>6 DEF SyncInv

\* A command ends or is killed; the installed files stay as they are.
LEMMA EndKeeps ==
  ASSUME SyncInv, NEW c \in Cmds, NEW how \in {"synced", "failed"},
         NEW s \in Revisions \cup {Nothing}, End(c, how, s), Synchronising(c),
         UNCHANGED <<upstream, tree, skills>>, ManifestInv',
         manifest' \in Manifests \cup {Missing, Torn},
         cache' \in {cache, upstream}
  PROVE  SyncInv'
<1>1. SyncType'
  BY NewSyncType DEF SyncInv, SyncType, End, SyncRecords, Steps
<1>2. sync'[c].at = how /\ \A d \in Cmds \ {c} : sync'[d] = sync[d]
  BY DEF SyncInv, SyncType, End, NewSync
<1>3. Looking(c)' /\ Behind(c)' /\ Progress(c)'
  BY <1>2 DEF Looking, Behind, Progress, Installing, InstallSteps
<1>4. QED
  BY <1>1, <1>2, <1>3, Others, StepKeeps

LEMMA ReadManifestKeeps ==
  ASSUME SyncInv, NEW c \in Cmds, ReadManifest(c) PROVE SyncInv'
<1> DEFINE p == IF Readable(manifest) THEN manifest ELSE Missing
<1>1. p \in Manifests \cup {Missing}
  BY DEF SyncInv, SyncType, Readable
<1>2. sync' = [sync EXCEPT ![c].at = "resolve", ![c].prev = p]
  BY DEF ReadManifest
<1>3. Readable(p) => p = manifest
  BY DEF Readable
<1>4. Readable(manifest) => p = manifest
  OBVIOUS
<1> HIDE DEF p
<1>5. sync \in [Cmds -> SyncRecords] /\ "resolve" \in Steps
  BY DEF SyncInv, SyncType, Steps
<1>6. SyncType'
  <2>1. sync' \in [Cmds -> SyncRecords]
    BY ZenonT(60), <1>1, <1>2, <1>5 DEF SyncRecords
  <2>2. QED
    BY <2>1 DEF SyncInv, SyncType, ReadManifest
<1>7. /\ sync'[c].at = "resolve" /\ sync'[c].prev = p /\ sync'[c].run = sync[c].run
      /\ \A d \in Cmds \ {c} : sync'[d] = sync[d]
  BY <1>2, <1>5 DEF SyncRecords
<1>8. ManifestInv'
  BY DEF ReadManifest, SyncInv, ManifestInv, Installed, Readable
<1>9. Looking(c)' /\ Behind(c)' /\ Progress(c)'
  <2>1. sync[c].run = 1
    BY DEF ReadManifest, At, SyncInv, Looking
  <2>2. QED
    BY <1>3, <1>4, <1>7, <2>1 DEF ReadManifest, Looking, Behind, Progress, Installing,
       InstallSteps, Readable
<1>10. \A d \in Cmds \ {c} : sync[d].at \in Quiet
  BY <1>5 DEF ReadManifest, Synchronising, Quiet
<1>11. QED
  BY <1>6, <1>7, <1>8, <1>9, <1>10, StepKeeps

LEMMA ResolveKeeps ==
  ASSUME SyncInv, NEW c \in Cmds, Resolve(c) PROVE SyncInv'
<1>1. Synchronising(c)
  BY DEF Resolve, At, Synchronising
<1>2. upstream \in Revisions /\ upstream \in Nat /\ sync \in [Cmds -> SyncRecords]
  BY UpstreamAssumption DEF SyncInv, SyncType, Revisions
<1>3. ManifestInv' /\ manifest' \in Manifests \cup {Missing, Torn}
  BY DEF Resolve, SyncInv, SyncType, ManifestInv, Installed, Readable
<1>4. CASE Fail(c) /\ cache' = cache
  BY <1>1, <1>3, <1>4, EndKeeps DEF Resolve, Fail
<1>5. CASE cache' = upstream /\ End(c, "synced", upstream)
  BY <1>1, <1>2, <1>3, <1>5, EndKeeps DEF Resolve
<1>6. CASE /\ cache' = upstream /\ ~Unchanged(c)
           /\ sync' = [sync EXCEPT ![c].at = "clear tree", ![c].sha = upstream]
  <2>1. SyncType'
    <3>1. "clear tree" \in Steps
      BY DEF Steps, InstallSteps
    <3>2. sync' \in [Cmds -> SyncRecords]
      BY ZenonT(60), <1>2, <1>6, <3>1 DEF SyncRecords
    <3>3. QED
      BY <1>2, <1>6, <3>2 DEF Resolve, SyncInv, SyncType
  <2>2. /\ sync'[c].at = "clear tree" /\ sync'[c].sha = upstream
        /\ sync'[c].run = sync[c].run
        /\ \A d \in Cmds \ {c} : sync'[d] = sync[d]
    BY <1>2, <1>6 DEF SyncRecords
  <2>3. Looking(c) /\ sync[c].at = "resolve"
    BY DEF Resolve, At, SyncInv
  <2>4. Readable(manifest) => manifest.sha < upstream
    <3>1. Readable(manifest) => manifest.sha # upstream
      BY <1>6, <2>3 DEF Unchanged, Looking
    <3>2. Readable(manifest) => manifest.sha \in Nat
      BY UpstreamAssumption DEF Readable, SyncInv, SyncType, Manifests, Revisions
    <3>3. QED
      BY <1>2, <3>1, <3>2 DEF SyncInv, ManifestInv
  <2>5. Looking(c)' /\ Behind(c)' /\ Progress(c)'
    <3>1. sync'[c].run = 1
      BY <2>2, <2>3 DEF Looking
    <3>2. Looking(c)'
      BY <2>2 DEF Looking
    <3>3. Progress(c)'
      <4>1. ~(sync'[c].at \in {"manifest", "record"})
        BY <2>2
      <4>2. ~(sync'[c].at = "skills")
        BY <2>2
      <4>3. ~(sync'[c].at \in {"clear skills", "skills"})
        BY <2>2
      <4>4. ~(sync'[c].run = 2)
        BY <3>1
      <4>5. QED
        BY <4>1, <4>2, <4>3, <4>4, Zenon DEF Progress
    <3>4. upstream' = upstream /\ manifest' = manifest
      BY DEF Resolve
    <3>5. Behind(c)'
      <4>1. cache' = upstream
        BY <1>6
      <4>2. upstream <= upstream
        BY <1>2
      <4>3. Readable(manifest)' => Readable(manifest)
        BY <3>4 DEF Readable
      <4>4. sync'[c].sha \in Revisions /\ sync'[c].sha = cache' /\ sync'[c].sha <= upstream'
        BY <1>2, <2>2, <3>4, <4>1, <4>2
      <4>5. Readable(manifest)' => manifest'.sha < sync'[c].sha
        BY <2>2, <2>4, <3>4, <4>3
      <4>6. QED
        BY <4>4, <4>5 DEF Behind
    <3>6. QED
      BY <3>2, <3>3, <3>5
  <2>6. QED
    BY <1>1, <1>3, <2>1, <2>2, <2>5, Others, StepKeeps
<1>7. QED
  BY <1>4, <1>5, <1>6 DEF Resolve

\* A step of the installation leaves the manifest behind.
LEMMA InstallKeeps ==
  ASSUME SyncInv, SyncType', NEW c \in Cmds, Installing(c),
         sync'[c].at \in InstallSteps, sync'[c].sha = sync[c].sha,
         \A d \in Cmds \ {c} : sync'[d] = sync[d],
         UNCHANGED <<upstream, cache>>, manifest' \in {manifest, Torn}, Progress(c)'
  PROVE  SyncInv'
<1>1. Synchronising(c)
  BY DEF Installing, InstallSteps, Synchronising
<1>2. Readable(manifest)' => Readable(manifest) /\ manifest' = manifest
  BY DEF Readable
<1>3. Behind(c)
  BY DEF SyncInv
<1>4. sync[c].sha \in Nat /\ upstream \in Nat
  BY <1>3, UpstreamAssumption DEF SyncInv, SyncType, Behind, Revisions
<1>5. Readable(manifest) => manifest.sha \in Nat
  BY UpstreamAssumption DEF Readable, SyncInv, SyncType, Manifests, Revisions
<1>6. Readable(manifest) => manifest.sha <= upstream /\ manifest.sha # upstream
  BY <1>3, <1>4, <1>5 DEF Behind
<1>7. ManifestInv'
  BY <1>2, <1>6 DEF ManifestInv
<1>8. Behind(c)'
  BY <1>2, <1>3 DEF Behind
<1>9. Looking(c)'
  BY DEF Looking, InstallSteps
<1>10. QED
  BY <1>1, <1>7, <1>8, <1>9, Others, StepKeeps

LEMMA MoveType ==
  ASSUME SyncInv, NEW c \in Cmds, NEW step \in InstallSteps, Move(c, step)
  PROVE  /\ sync' \in [Cmds -> SyncRecords]
         /\ sync'[c].at = step /\ sync'[c].sha = sync[c].sha /\ sync'[c].run = sync[c].run
         /\ sync'[c].names = sync[c].names
         /\ \A d \in Cmds \ {c} : sync'[d] = sync[d]
<1>1. sync \in [Cmds -> SyncRecords] /\ step \in Steps
  BY DEF SyncInv, SyncType, Steps
<1>2. sync' = [sync EXCEPT ![c].at = step]
  BY DEF Move
<1>3. QED
  BY <1>1, <1>2 DEF SyncRecords

\* The facts about a command at work that its next step needs.
LEMMA AtWork ==
  ASSUME SyncInv, NEW c \in Cmds, Installing(c)
  PROVE  /\ sync[c] \in SyncRecords /\ Progress(c)
         /\ sync[c].sha = cache /\ cache \in Revisions /\ sync[c].run \in {1, 2}
         /\ Runtime(c) = (IF sync[c].run = 1 THEN "cursor" ELSE "codex")
         /\ Runtime(c) \in RuntimeNames
<1>1. sync[c] \in SyncRecords /\ Progress(c) /\ sync[c].sha = cache /\ cache \in Revisions
  BY DEF SyncInv, SyncType, Behind
<1>2. sync[c].run \in {1, 2}
  BY <1>1 DEF SyncRecords
<1>3. QED
  BY <1>1, <1>2, RuntimeFacts DEF Runtime

\* The second runtime comes when the first is done.
LEMMA FirstDone ==
  ASSUME SyncInv, NEW c \in Cmds, sync[c].run = 2,
         sync[c].at \in {"clear tree", "copy tree", "clear skills", "skills"}
  PROVE  InstalledAt("cursor", sync[c].sha) /\ Runtime(c) = "codex"
<1>1. Progress(c)
  BY DEF SyncInv
<1>2. InstalledAt("cursor", sync[c].sha)
  BY <1>1, Zenon DEF Progress
<1>3. Runtime(c) = "codex"
  BY RuntimeFacts DEF Runtime
<1>4. QED
  BY <1>2, <1>3

LEMMA ClearTreeKeeps ==
  ASSUME SyncInv, NEW c \in Cmds, ClearTree(c) PROVE SyncInv'
<1>1. Installing(c) /\ Move(c, "copy tree") /\ sync[c].at = "clear tree"
  BY DEF ClearTree, At, Installing, InstallSteps
<1>2. /\ sync' \in [Cmds -> SyncRecords]
      /\ sync'[c].at = "copy tree" /\ sync'[c].sha = sync[c].sha
      /\ sync'[c].run = sync[c].run /\ \A d \in Cmds \ {c} : sync'[d] = sync[d]
  BY <1>1, MoveType DEF InstallSteps
<1>3. tree' \in [RuntimeNames -> Revisions \cup {Nothing}]
  BY DEF ClearTree, SyncInv, SyncType
<1>4. SyncType'
  BY <1>2, <1>3 DEF ClearTree, SyncInv, SyncType
<1>5. sync[c].run = 2 => tree'["cursor"] = tree["cursor"]
  <2>1. sync[c].run = 2 => Runtime(c) = "codex"
    BY <1>1, FirstDone
  <2>2. tree' = [tree EXCEPT ![Runtime(c)] = Nothing] /\ "cursor" \in DOMAIN tree
    BY RuntimeFacts DEF ClearTree, SyncInv, SyncType
  <2>3. QED
    BY <2>1, <2>2
<1>6. Progress(c)'
  <2>1. sync[c].run = 2 => InstalledAt("cursor", sync[c].sha)
    BY <1>1, FirstDone
  <2>2. skills' = skills
    BY DEF ClearTree
  <2>3. sync'[c].run = 2 => InstalledAt("cursor", sync[c].sha)'
    BY <1>2, <1>5, <2>1, <2>2 DEF InstalledAt
  <2>4. QED
    BY <1>2, <2>3 DEF Progress
<1>7. QED
  BY <1>1, <1>2, <1>4, <1>6, InstallKeeps DEF ClearTree, InstallSteps

LEMMA CopyTreeKeeps ==
  ASSUME SyncInv, NEW c \in Cmds, CopyTree(c) PROVE SyncInv'
<1>1. Installing(c) /\ Move(c, "clear skills") /\ sync[c].at = "copy tree"
  BY DEF CopyTree, At, Installing, InstallSteps
<1>2. /\ sync' \in [Cmds -> SyncRecords]
      /\ sync'[c].at = "clear skills" /\ sync'[c].sha = sync[c].sha
      /\ sync'[c].run = sync[c].run /\ \A d \in Cmds \ {c} : sync'[d] = sync[d]
  BY <1>1, MoveType DEF InstallSteps
<1>3. tree' = [tree EXCEPT ![Runtime(c)] = cache]
  BY DEF CopyTree
<1>4. SyncType'
  <2>1. tree' \in [RuntimeNames -> Revisions \cup {Nothing}]
    BY <1>3 DEF SyncInv, SyncType
  <2>2. QED
    BY <1>2, <2>1 DEF CopyTree, SyncInv, SyncType
<1>5. tree \in [RuntimeNames -> Revisions \cup {Nothing}]
  BY DEF SyncInv, SyncType
<1>6. Progress(c)'
  <2>1. sync[c].run = 2 => InstalledAt("cursor", sync[c].sha) /\ Runtime(c) # "cursor"
    BY <1>1, FirstDone
  <2>2. skills' = skills /\ Runtime(c)' = Runtime(c)
    BY <1>2 DEF CopyTree, Runtime
  <2>3. sync'[c].run = 2 => InstalledAt("cursor", sync[c].sha)'
    BY <1>2, <1>3, <1>5, <2>1, <2>2, RuntimeFacts DEF InstalledAt
  <2>4. tree'[Runtime(c)'] = sync'[c].sha
    BY <1>1, <1>2, <1>3, <1>5, <2>2, AtWork
  <2>5. QED
    BY <1>2, <2>3, <2>4 DEF Progress
<1>7. QED
  BY <1>1, <1>2, <1>4, <1>6, InstallKeeps DEF CopyTree, InstallSteps

LEMMA ClearSkillsKeeps ==
  ASSUME SyncInv, NEW c \in Cmds, ClearSkills(c) PROVE SyncInv'
<1> DEFINE r == Runtime(c)
           old == IF Readable(sync[c].prev) THEN sync[c].prev.names[r] ELSE {}
<1>1. Installing(c) /\ sync[c].at = "clear skills"
  BY DEF ClearSkills, At, Installing, InstallSteps
<1>2. skills' = [skills EXCEPT ![r] = { s \in @ : s[1] \notin old }]
  BY DEF ClearSkills
<1>3. sync' = [sync EXCEPT ![c].at = "skills", ![c].todo = Skills[cache],
                           ![c].names[r] = Skills[cache]]
  BY DEF ClearSkills
<1> HIDE DEF old
<1>4. sync \in [Cmds -> SyncRecords] /\ "skills" \in Steps /\ Skills[cache] \in SUBSET Names
  BY <1>1, AtWork DEF SyncInv, SyncType, Steps, InstallSteps, Names, Revisions
<1>5. r \in RuntimeNames /\ sync[c].names \in NameTable
  BY <1>1, <1>4, AtWork DEF SyncRecords
<1>6. SyncType'
  <2> DEFINE table == [sync[c].names EXCEPT ![r] = Skills[cache]]
  <2>1. table \in NameTable
    BY <1>4, <1>5 DEF NameTable
  <2>2. sync' = [sync EXCEPT ![c] = [sync[c] EXCEPT !.at = "skills", !.todo = Skills[cache],
                                                   !.names = table]]
    BY <1>3, <1>4 DEF SyncRecords
  <2> DEFINE new == Skills[cache]
  <2>6. new \in SUBSET Names
    BY <1>4
  <2> HIDE DEF r, table, new
  <2>7. [sync[c] EXCEPT !.at = "skills", !.todo = new, !.names = table] \in SyncRecords
    BY ZenonT(60), <1>4, <2>1, <2>6 DEF SyncRecords
  <2>3. sync' \in [Cmds -> SyncRecords]
    BY <1>4, <2>2, <2>7 DEF new
  <2>4. skills' \in [RuntimeNames -> SUBSET (Names \X Revisions)]
    BY <1>2 DEF SyncInv, SyncType
  <2>5. QED
    BY <2>3, <2>4 DEF ClearSkills, SyncInv, SyncType
<1>7. /\ sync'[c].at = "skills" /\ sync'[c].sha = sync[c].sha
      /\ sync'[c].todo = Skills[cache] /\ sync'[c].run = sync[c].run
      /\ \A d \in Cmds \ {c} : sync'[d] = sync[d]
  BY <1>3, <1>4 DEF SyncRecords
<1>8. Progress(c)'
  <2>1. tree' = tree /\ Runtime(c)' = Runtime(c)
    BY <1>7 DEF ClearSkills, Runtime
  <2>2. sync'[c].run = 2 => InstalledAt("cursor", sync[c].sha)'
    <3>1. sync[c].run = 2 => InstalledAt("cursor", sync[c].sha) /\ r # "cursor"
      BY <1>1, FirstDone
    <3>2. "cursor" \in DOMAIN skills
      BY RuntimeFacts DEF SyncInv, SyncType
    <3>3. sync[c].run = 2 => skills'["cursor"] = skills["cursor"]
      BY <1>2, <3>1, <3>2
    <3>4. QED
      BY <1>7, <2>1, <3>1, <3>3 DEF InstalledAt
  <2>3. tree[Runtime(c)] = sync[c].sha
    BY <1>1, Zenon DEF SyncInv, Progress
  <2>4. Skills[sync'[c].sha] \ sync'[c].todo = {}
    BY <1>1, <1>7, AtWork
  <2>5. tree'[Runtime(c)'] = sync'[c].sha
    BY <1>7, <2>1, <2>3
  <2>6. ~(sync'[c].at \in {"manifest", "record"})
    BY <1>7
  <2>7. QED
    BY <2>2, <2>4, <2>5, <2>6, Zenon DEF Progress
<1>9. QED
  BY <1>1, <1>6, <1>7, <1>8, InstallKeeps DEF ClearSkills, InstallSteps

LEMMA InstallSkillKeeps ==
  ASSUME SyncInv, NEW c \in Cmds, InstallSkill(c) PROVE SyncInv'
<1> DEFINE r == Runtime(c)
<1>1. Installing(c) /\ sync[c].at = "skills"
  BY DEF InstallSkill, At, Installing, InstallSteps
<1>2. PICK n \in sync[c].todo :
        /\ skills' = [skills EXCEPT ![r] = { s \in @ : s[1] # n } \cup {<<n, cache>>}]
        /\ sync' = [sync EXCEPT ![c].todo = @ \ {n}]
  BY DEF InstallSkill
<1>3. /\ sync \in [Cmds -> SyncRecords] /\ sync[c].todo \in SUBSET Names
      /\ skills \in [RuntimeNames -> SUBSET (Names \X Revisions)]
  BY DEF SyncInv, SyncType, SyncRecords
<1>4. r \in RuntimeNames /\ cache \in Revisions /\ sync[c].sha = cache
  BY <1>1, AtWork
<1> HIDE DEF r
<1>5. SyncType'
  <2>1. sync' \in [Cmds -> SyncRecords]
    BY <1>2, <1>3 DEF SyncRecords
  <2>2. { s \in skills[r] : s[1] # n } \cup {<<n, cache>>} \in SUBSET (Names \X Revisions)
    BY <1>2, <1>3, <1>4
  <2>3. skills' \in [RuntimeNames -> SUBSET (Names \X Revisions)]
    BY <1>2, <1>3, <1>4, <2>2
  <2>4. QED
    BY <2>1, <2>3 DEF InstallSkill, SyncInv, SyncType
<1>6. /\ sync'[c].at = "skills" /\ sync'[c].sha = sync[c].sha
      /\ sync'[c].todo = sync[c].todo \ {n} /\ sync'[c].run = sync[c].run
      /\ \A d \in Cmds \ {c} : sync'[d] = sync[d]
  BY <1>1, <1>2, <1>3 DEF SyncRecords
<1>7. Progress(c)'
  <2>1. tree' = tree /\ Runtime(c)' = r /\ r = Runtime(c)
    BY <1>6 DEF InstallSkill, Runtime, r
  <2>2. sync'[c].run = 2 => InstalledAt("cursor", sync[c].sha)'
    <3>1. sync[c].run = 2 => InstalledAt("cursor", sync[c].sha) /\ r # "cursor"
      BY <1>1, <2>1, FirstDone
    <3>2. "cursor" \in DOMAIN skills
      BY RuntimeFacts DEF SyncInv, SyncType
    <3>3. sync[c].run = 2 => skills'["cursor"] = skills["cursor"]
      BY <1>2, <3>1, <3>2
    <3>4. QED
      BY <1>6, <2>1, <3>1, <3>3 DEF InstalledAt
  <2>3. /\ tree[Runtime(c)] = sync[c].sha
        /\ \A m \in Skills[sync[c].sha] \ sync[c].todo :
             <<m, sync[c].sha>> \in skills[Runtime(c)]
    BY <1>1, Zenon DEF SyncInv, Progress
  <2>4. ASSUME NEW m \in Skills[sync'[c].sha] \ sync'[c].todo
        PROVE  <<m, sync'[c].sha>> \in skills'[Runtime(c)']
    <3>1. skills'[r] = { s \in skills[r] : s[1] # n } \cup {<<n, cache>>}
      BY <1>2, <1>3, <1>4
    <3>2. CASE m = n
      BY <1>4, <1>6, <2>1, <3>1, <3>2
    <3>3. CASE m # n
      <4>1. <<m, sync[c].sha>> \in skills[r]
        BY <1>6, <2>1, <2>3, <2>4, <3>3
      <4>2. QED
        BY <1>6, <2>1, <3>1, <3>3, <4>1
    <3>4. QED
      BY <3>2, <3>3
  <2>5. tree'[Runtime(c)'] = sync'[c].sha
    BY <1>6, <2>1, <2>3
  <2>6. ~(sync'[c].at \in {"manifest", "record"})
    BY <1>6
  <2>7. QED
    BY <2>2, <2>4, <2>5, <2>6, Zenon DEF Progress
<1>8. QED
  BY <1>1, <1>5, <1>6, <1>7, InstallKeeps DEF InstallSkill, InstallSteps

LEMMA EndRuntimeKeeps ==
  ASSUME SyncInv, NEW c \in Cmds, EndRuntime(c) PROVE SyncInv'
<1>1. Installing(c) /\ sync[c].at = "skills" /\ sync[c].todo = {}
  BY DEF EndRuntime, At, Installing, InstallSteps
<1>2. sync \in [Cmds -> SyncRecords]
  BY DEF SyncInv, SyncType
<1>3. tree[Runtime(c)] = sync[c].sha
      /\ \A n \in Skills[sync[c].sha] \ sync[c].todo :
           <<n, sync[c].sha>> \in skills[Runtime(c)]
  BY <1>1, Zenon DEF SyncInv, Progress
<1>4. InstalledAt(Runtime(c), sync[c].sha)
  BY <1>1, <1>3 DEF InstalledAt
<1>5. CASE sync[c].run = 1
  <2>1. sync' = [sync EXCEPT ![c].at = "clear tree", ![c].run = @ + 1]
    <3>1. sync[c].run < Len(Runtimes)
      BY <1>5 DEF Runtimes
    <3>2. QED
      BY <3>1, Zenon DEF EndRuntime
  <2>2. "clear tree" \in Steps
    BY DEF Steps, InstallSteps
  <2>3. sync' \in [Cmds -> SyncRecords]
    <3>1. sync[c].run + 1 \in {1, 2}
      BY <1>5
    <3>2. QED
      BY ZenonT(60), <1>2, <2>1, <2>2, <3>1 DEF SyncRecords
  <2>4. /\ sync'[c].at = "clear tree" /\ sync'[c].sha = sync[c].sha
        /\ \A d \in Cmds \ {c} : sync'[d] = sync[d]
    BY <1>2, <2>1 DEF SyncRecords
  <2>5. Runtime(c) = "cursor"
    BY <1>5, RuntimeFacts DEF Runtime
  <2>6. InstalledAt("cursor", sync[c].sha)'
    BY <1>4, <2>4, <2>5 DEF EndRuntime, InstalledAt
  <2>7. ~(sync'[c].at \in {"clear skills", "skills"}) /\ sync'[c].at # "skills"
        /\ ~(sync'[c].at \in {"manifest", "record"})
    BY <2>4
  <2>8. Progress(c)'
    BY <2>6, <2>7, Zenon DEF Progress
  <2>9. SyncType'
    BY <2>3 DEF EndRuntime, SyncInv, SyncType
  <2>10. QED
    BY <1>1, <2>4, <2>8, <2>9, InstallKeeps DEF EndRuntime, InstallSteps
<1>6. CASE sync[c].run = 2
  <2>1. sync' = [sync EXCEPT ![c].at = "manifest"]
    BY <1>6, RuntimeFacts DEF EndRuntime
  <2>2. "manifest" \in Steps
    BY DEF Steps, InstallSteps
  <2>3. sync' \in [Cmds -> SyncRecords]
    BY <1>2, <2>1, <2>2 DEF SyncRecords
  <2>4. /\ sync'[c].at = "manifest" /\ sync'[c].sha = sync[c].sha
        /\ \A d \in Cmds \ {c} : sync'[d] = sync[d]
    BY <1>2, <2>1 DEF SyncRecords
  <2>5. InstalledAt("cursor", sync[c].sha) /\ InstalledAt("codex", sync[c].sha)
    BY <1>1, <1>4, <1>6, FirstDone
  <2>6. InstalledAt("cursor", sync[c].sha)' /\ InstalledAt("codex", sync[c].sha)'
    BY <2>4, <2>5 DEF EndRuntime, InstalledAt
  <2>7. ~(sync'[c].at \in {"clear tree", "copy tree", "clear skills", "skills"})
        /\ ~(sync'[c].at \in {"clear skills", "skills"}) /\ sync'[c].at # "skills"
    BY <2>4
  <2>8. Progress(c)'
    BY <2>6, <2>7, Zenon DEF Progress
  <2>9. SyncType'
    BY <2>3 DEF EndRuntime, SyncInv, SyncType
  <2>10. QED
    BY <1>1, <2>4, <2>8, <2>9, InstallKeeps DEF EndRuntime, InstallSteps
<1>7. QED
  BY <1>1, <1>5, <1>6, AtWork

\* Both runtimes have what a command is about to record.
LEMMA BothInstalled ==
  ASSUME SyncInv, NEW c \in Cmds, sync[c].at \in {"manifest", "record"}
  PROVE  /\ InstalledAt("cursor", sync[c].sha) /\ InstalledAt("codex", sync[c].sha)
         /\ Installed(sync[c].sha)
<1>1. InstalledAt("cursor", sync[c].sha) /\ InstalledAt("codex", sync[c].sha)
  BY Zenon DEF SyncInv, Progress
<1>2. QED
  BY <1>1, RuntimeFacts DEF Installed, InstalledAt

LEMMA OpenManifestKeeps ==
  ASSUME SyncInv, NEW c \in Cmds, OpenManifest(c) PROVE SyncInv'
<1>1. Installing(c) /\ Move(c, "record") /\ sync[c].at = "manifest"
  BY DEF OpenManifest, At, Installing, InstallSteps
<1>2. /\ sync' \in [Cmds -> SyncRecords]
      /\ sync'[c].at = "record" /\ sync'[c].sha = sync[c].sha
      /\ \A d \in Cmds \ {c} : sync'[d] = sync[d]
  BY <1>1, MoveType DEF InstallSteps
<1>3. SyncType'
  BY <1>2 DEF OpenManifest, SyncInv, SyncType
<1>4. InstalledAt("cursor", sync[c].sha)' /\ InstalledAt("codex", sync[c].sha)'
  BY <1>1, <1>2, BothInstalled DEF OpenManifest, InstalledAt
<1>5. ~(sync'[c].at \in {"clear tree", "copy tree", "clear skills", "skills"})
      /\ ~(sync'[c].at \in {"clear skills", "skills"}) /\ sync'[c].at # "skills"
  BY <1>2
<1>6. Progress(c)'
  BY <1>4, <1>5, Zenon DEF Progress
<1>7. QED
  BY <1>1, <1>2, <1>3, <1>6, InstallKeeps DEF OpenManifest, InstallSteps

LEMMA WriteManifestKeeps ==
  ASSUME SyncInv, NEW c \in Cmds, WriteManifest(c) PROVE SyncInv'
<1>1. Installing(c) /\ Synchronising(c) /\ sync[c].at = "record"
  BY DEF WriteManifest, At, Installing, InstallSteps, Synchronising
<1>2. Behind(c) /\ Installed(sync[c].sha) /\ sync[c].names \in NameTable
  BY <1>1, BothInstalled DEF SyncInv, SyncType, SyncRecords
<1>3. sync[c].sha \in Revisions /\ sync[c].sha <= upstream
  BY <1>1, <1>2 DEF Behind
<1>4. manifest' = [sha |-> sync[c].sha, names |-> sync[c].names]
      /\ UNCHANGED <<upstream, cache, tree, skills>>
  BY DEF WriteManifest
<1>5. manifest' \in Manifests /\ manifest'.sha = sync[c].sha
  BY <1>2, <1>3, <1>4 DEF Manifests
<1>6. ManifestInv'
  BY <1>2, <1>3, <1>4, <1>5 DEF ManifestInv, Installed
<1>7. QED
  BY <1>1, <1>3, <1>4, <1>5, <1>6, EndKeeps DEF WriteManifest

LEMMA AbandonKeeps ==
  ASSUME SyncInv, NEW c \in Cmds, AbandonSync(c) PROVE SyncInv'
<1>1. ManifestInv' /\ manifest' \in Manifests \cup {Missing, Torn}
  BY DEF AbandonSync, SyncInv, SyncType, ManifestInv, Installed, Readable
<1>2. QED
  BY <1>1, EndKeeps DEF AbandonSync, Fail

-----------------------------------------------------------------------------
(* What follows for every system that takes these steps *)

LEMMA SyncNextKeeps == SyncInv /\ [SyncNext]_syncVars => SyncInv'
<1> SUFFICES ASSUME SyncInv, [SyncNext]_syncVars PROVE SyncInv'
  OBVIOUS
<1>1. CASE UNCHANGED syncVars
  BY <1>1 DEF syncVars, SyncInv, SyncType, OneSyncInv, ManifestInv, Looking, Behind,
     Progress, Synchronising, Installing, Installed, InstalledAt, Runtime
<1>2. ASSUME NEW c \in Cmds, SyncStep(c) PROVE SyncInv'
  BY <1>2, ReadManifestKeeps, ResolveKeeps, ClearTreeKeeps, CopyTreeKeeps, ClearSkillsKeeps,
     InstallSkillKeeps, EndRuntimeKeeps, OpenManifestKeeps, WriteManifestKeeps DEF SyncStep
<1>3. QED
  BY <1>1, <1>2, PushKeeps, AbandonKeeps DEF SyncNext

\* A step that ends a synchronisation leaves its revision installed.
\* Only skills that their revision has are installed.
SkillsInv ==
  /\ \A r \in RuntimeNames : \A s \in skills[r] : s[1] \in Skills[s[2]]
  /\ \A c \in Cmds : sync[c].at = "skills" => sync[c].todo \subseteq Skills[sync[c].sha]

LEMMA InitSkills == SyncInit => SkillsInv
  BY DEF SyncInit, SkillsInv, NewSync

LEMMA SkillsStep == SyncInv /\ SkillsInv /\ [SyncNext]_syncVars => SkillsInv'
<1> SUFFICES ASSUME SyncInv, SkillsInv, [SyncNext]_syncVars PROVE SkillsInv'
  OBVIOUS
<1>1. CASE UNCHANGED syncVars \/ Push
  BY <1>1 DEF syncVars, Push, SkillsInv
<1>2. ASSUME NEW c \in Cmds, sync'[c].at # "skills", skills' = skills,
             \A d \in Cmds \ {c} : sync'[d] = sync[d]
      PROVE  SkillsInv'
  BY <1>2 DEF SkillsInv
<1>3. ASSUME NEW c \in Cmds, SyncStep(c) \/ AbandonSync(c)
      PROVE  SkillsInv'
  <2>1. sync \in [Cmds -> SyncRecords] /\ skills \in [RuntimeNames -> SUBSET (Names \X Revisions)]
    BY DEF SyncInv, SyncType
  <2>2. ASSUME ReadManifest(c) \/ ClearTree(c) \/ CopyTree(c) \/ EndRuntime(c) \/ OpenManifest(c)
        PROVE  SkillsInv'
    <3>1. skills' = skills /\ \A d \in Cmds \ {c} : sync'[d] = sync[d]
      BY <2>1, <2>2 DEF ReadManifest, ClearTree, CopyTree, EndRuntime, OpenManifest, Move
    <3>2. sync'[c].at # "skills"
      <4>1. CASE ReadManifest(c)
        BY <2>1, <4>1 DEF ReadManifest, SyncRecords
      <4>2. CASE ClearTree(c) \/ CopyTree(c) \/ OpenManifest(c)
        BY <2>1, <4>2 DEF ClearTree, CopyTree, OpenManifest, Move, SyncRecords
      <4>3. CASE EndRuntime(c)
        BY <2>1, <4>3 DEF EndRuntime, SyncRecords
      <4>4. QED
        BY <2>2, <4>1, <4>2, <4>3
    <3>3. QED
      BY <1>2, <3>1, <3>2
  <2>3. ASSUME NEW how \in {"synced", "failed"}, NEW s, End(c, how, s), skills' = skills
        PROVE  SkillsInv'
    BY <1>2, <2>1, <2>3 DEF End, NewSync
  <2>4. CASE Resolve(c)
    <3>1. skills' = skills
      BY <2>4 DEF Resolve
    <3>2. CASE \E how \in {"synced", "failed"} : \E s : End(c, how, s)
      BY <2>3, <3>1, <3>2
    <3>3. CASE sync' = [sync EXCEPT ![c].at = "clear tree", ![c].sha = upstream]
      <4>1. sync'[c].at # "skills" /\ \A d \in Cmds \ {c} : sync'[d] = sync[d]
        BY <2>1, <3>3 DEF SyncRecords
      <4>2. QED
        BY <1>2, <3>1, <4>1
    <3>4. QED
      BY <2>4, <3>2, <3>3 DEF Resolve, Fail
  <2>5. CASE WriteManifest(c) \/ AbandonSync(c)
    BY <2>3, <2>5 DEF WriteManifest, AbandonSync, Fail
  <2>6. CASE ClearSkills(c)
    <3>1. At(c, "clear skills") /\ cache = sync[c].sha
      BY <2>6 DEF ClearSkills, SyncInv, Behind, Installing, InstallSteps, At
    <3>2. /\ sync'[c].todo = Skills[cache] /\ sync'[c].sha = sync[c].sha
          /\ \A d \in Cmds \ {c} : sync'[d] = sync[d]
      BY <2>1, <2>6 DEF ClearSkills, SyncRecords
    <3>3. \A r \in RuntimeNames : skills'[r] \subseteq skills[r]
      BY <2>1, <2>6 DEF ClearSkills
    <3>4. QED
      BY <3>1, <3>2, <3>3 DEF SkillsInv
  <2>7. CASE InstallSkill(c)
    <3>1. PICK n \in sync[c].todo :
            /\ skills' = [skills EXCEPT ![Runtime(c)] =
                            { s \in @ : s[1] # n } \cup {<<n, cache>>}]
            /\ sync' = [sync EXCEPT ![c].todo = @ \ {n}]
      BY <2>7 DEF InstallSkill
    <3>2. sync[c].at = "skills" /\ cache = sync[c].sha
      BY <2>7 DEF InstallSkill, SyncInv, Behind, Installing, InstallSteps, At
    <3>3. n \in Skills[cache]
      BY <3>1, <3>2 DEF SkillsInv
    <3>4. \A r \in RuntimeNames : \A s \in skills'[r] : s[1] \in Skills[s[2]]
      BY <2>1, <3>1, <3>3 DEF SkillsInv
    <3>5. /\ sync'[c].todo \subseteq sync[c].todo /\ sync'[c].sha = sync[c].sha
          /\ \A d \in Cmds \ {c} : sync'[d] = sync[d]
      BY <2>1, <3>1 DEF SyncRecords
    <3>6. QED
      BY <3>2, <3>4, <3>5 DEF SkillsInv
  <2>8. QED
    BY <1>3, <2>2, <2>4, <2>5, <2>6, <2>7 DEF SyncStep
<1>4. QED
  BY <1>1, <1>3 DEF SyncNext

LEMMA SyncTypes == SyncInv /\ SkillsInv => SyncTypeOK
  BY DEF SyncInv, SyncType, SkillsInv, SyncTypeOK, Manifests

LEMMA SyncedStep ==
  ASSUME SyncInv, [SyncNext]_syncVars, NEW c \in Cmds, ~At(c, "synced"), At(c, "synced")'
  PROVE  Installed(sync[c].sha)'
<1>1. CASE UNCHANGED syncVars
  BY <1>1 DEF syncVars, At
<1>2. CASE Push
  BY <1>2 DEF Push, At
<1>3. ASSUME NEW d \in Cmds, d # c, SyncStep(d) \/ AbandonSync(d) PROVE FALSE
  <2>1. sync'[c] = sync[c]
    BY <1>3 DEF SyncStep, AbandonSync, ReadManifest, Resolve, ClearTree, CopyTree,
       ClearSkills, InstallSkill, EndRuntime, OpenManifest, WriteManifest, Fail, End, Move,
       SyncInv, SyncType
  <2>2. QED
    BY <2>1 DEF At
<1>4. sync \in [Cmds -> SyncRecords]
  BY DEF SyncInv, SyncType
<1>5. CASE AbandonSync(c)
  BY <1>4, <1>5 DEF AbandonSync, Fail, End, At, NewSync
<1>6. CASE WriteManifest(c)
  <2>1. sync'[c].sha = sync[c].sha /\ UNCHANGED <<tree, skills>>
    BY <1>4, <1>6 DEF WriteManifest, End, NewSync
  <2>2. Installed(sync[c].sha)
    BY <1>6, BothInstalled DEF WriteManifest, At
  <2>3. QED
    BY <2>1, <2>2 DEF Installed
<1>7. CASE Resolve(c)
  <2>1. CASE Fail(c)
    BY <1>4, <2>1 DEF Fail, End, At, NewSync
  <2>2. CASE Unchanged(c) /\ End(c, "synced", upstream)
    <3>1. sync'[c].sha = upstream /\ UNCHANGED <<tree, skills>>
      BY <1>4, <1>7, <2>2 DEF Resolve, End, NewSync
    <3>2. Readable(sync[c].prev) /\ sync[c].prev.sha = upstream /\ sync[c].prev = manifest
      BY <1>7, <2>2 DEF Resolve, At, Unchanged, SyncInv, Looking
    <3>3. Installed(upstream)
      BY <3>2 DEF SyncInv, ManifestInv
    <3>4. QED
      BY <3>1, <3>3 DEF Installed
  <2>3. CASE sync' = [sync EXCEPT ![c].at = "clear tree", ![c].sha = upstream]
    BY <1>4, <2>3 DEF At, SyncRecords
  <2>4. QED
    BY <1>7, <2>1, <2>2, <2>3 DEF Resolve
<1>8. CASE ReadManifest(c) \/ ClearTree(c) \/ CopyTree(c) \/ OpenManifest(c)
  BY <1>4, <1>8 DEF ReadManifest, ClearTree, CopyTree, OpenManifest, Move, At, SyncRecords
<1>9. CASE ClearSkills(c)
  <2>1. sync'[c].at = "skills"
    BY <1>4, <1>9 DEF ClearSkills, SyncRecords
  <2>2. QED
    BY <2>1 DEF At
<1>10. CASE InstallSkill(c)
  <2>1. sync'[c].at = sync[c].at
    BY <1>4, <1>10 DEF InstallSkill, SyncRecords
  <2>2. QED
    BY <2>1 DEF At
<1>11. CASE EndRuntime(c)
  <2>1. sync'[c].at \in {"clear tree", "manifest"}
    BY <1>4, <1>11 DEF EndRuntime, SyncRecords
  <2>2. QED
    BY <2>1 DEF At
<1>12. QED
  BY <1>1, <1>2, <1>3, <1>5, <1>6, <1>7, <1>8, <1>9, <1>10, <1>11 DEF SyncNext, SyncStep
=============================================================================
