----------------------------- MODULE Upstream -----------------------------
(***************************************************************************)
(* src/gsd-sync.ts: a start command installs the upstream support files    *)
(* and command skills for each runtime and then records what it installed  *)
(* in .gsd/upstream/manifest.json, so that the next command may skip it.   *)
(* Commands share the cached checkout, the installed files and the         *)
(* manifest; none locks them.                                              *)
(***************************************************************************)
EXTENDS Files, Integers, Sequences

CONSTANTS
  Skills,       \* Skills[s]: the command files of revision s of upstream
  Nothing       \* no revision

\* Revisions are numbered in the order in which upstream has them.
ASSUME UpstreamAssumption ==
  /\ DOMAIN Skills \subseteq Nat /\ 1 \in DOMAIN Skills
  /\ Nothing \notin DOMAIN Skills

VARIABLES
  upstream,     \* the revision at the head of main
  cache,        \* the revision checked out in .gsd/upstream/get-shit-done
  tree,         \* per runtime: the revision of the support files, if complete
  skills,       \* per runtime: the skills in its directory, as <<name, revision>>
  manifest,     \* manifest.json
  sync          \* what each command is doing

syncVars == <<upstream, cache, tree, skills, manifest, sync>>

Runtimes == <<"cursor", "codex">>
RuntimeNames == { Runtimes[i] : i \in DOMAIN Runtimes }
Revisions == DOMAIN Skills

NewSync ==
  [at |-> "off", prev |-> Missing, sha |-> Nothing, run |-> 1,
   todo |-> {}, names |-> [r \in RuntimeNames |-> {}]]

SyncInit ==
  /\ upstream = 1 /\ cache = Nothing
  /\ tree = [r \in RuntimeNames |-> Nothing]
  /\ skills = [r \in RuntimeNames |-> {}]
  /\ manifest = Missing
  /\ sync = [c \in Cmds |-> NewSync]

Synchronising(c) == sync[c].at \notin {"off", "synced", "failed"}

At(c, step) == sync[c].at = step
Move(c, step) == sync' = [sync EXCEPT ![c].at = step]
End(c, how, s) == sync' = [sync EXCEPT ![c] = [NewSync EXCEPT !.at = how, !.sha = s]]
Fail(c) == End(c, "failed", Nothing)
Runtime(c) == Runtimes[sync[c].run]

\* Upstream only moves forward; once every command has looked it does not matter.
Push ==
  /\ \E c \in Cmds : At(c, "off") \/ At(c, "resolve")
  /\ upstream + 1 \in Revisions
  /\ upstream' = upstream + 1
  /\ UNCHANGED <<cache, tree, skills, manifest, sync>>

\* readExistingManifest; what cannot be parsed counts as none.  Bound: one command
\* synchronises at a time.
ReadManifest(c) ==
  /\ At(c, "off") /\ \A d \in Cmds : ~Synchronising(d)
  /\ sync' = [sync EXCEPT ![c].at = "resolve",
                          ![c].prev = IF Readable(manifest) THEN manifest ELSE Missing]
  /\ UNCHANGED <<upstream, cache, tree, skills, manifest>>

\* The manifest is of this revision: nothing is installed.
Unchanged(c) == Readable(sync[c].prev) /\ sync[c].prev.sha = upstream

\* Mutant of Resolve: what is about to be installed is recorded at once.
ResolveRecorded(c) ==
  /\ At(c, "resolve")
  /\ cache' = upstream
  /\ manifest' = [sha |-> upstream, names |-> [r \in RuntimeNames |-> Skills[upstream]]]
  /\ IF Unchanged(c)
       THEN End(c, "synced", upstream)
       ELSE sync' = [sync EXCEPT ![c].at = "clear tree", ![c].sha = upstream]
  /\ UNCHANGED <<upstream, tree, skills>>

\* ensureRepoCache: clone or fetch, check out, rev-parse; any of them may fail.
Resolve(c) ==
  /\ At(c, "resolve")
  /\ \/ Fail(c) /\ cache' = cache
     \/ /\ cache' = upstream
        /\ IF Unchanged(c)
             THEN End(c, "synced", upstream)
             ELSE sync' = [sync EXCEPT ![c].at = "clear tree", ![c].sha = upstream]
  /\ UNCHANGED <<upstream, tree, skills, manifest>>

\* installSupportTree: remove, then copy from the checkout as it is by then.
ClearTree(c) ==
  /\ At(c, "clear tree") /\ Move(c, "copy tree")
  /\ tree' = [tree EXCEPT ![Runtime(c)] = Nothing]
  /\ UNCHANGED <<upstream, cache, skills, manifest>>

CopyTree(c) ==
  /\ At(c, "copy tree") /\ Move(c, "clear skills")
  /\ tree' = [tree EXCEPT ![Runtime(c)] = cache]
  /\ UNCHANGED <<upstream, cache, skills, manifest>>

\* installCommandSkills: the skills the manifest names go ...
ClearSkills(c) ==
  LET r == Runtime(c)
      old == IF Readable(sync[c].prev) THEN sync[c].prev.names[r] ELSE {}
  IN  /\ At(c, "clear skills")
      /\ skills' = [skills EXCEPT ![r] = { s \in @ : s[1] \notin old }]
      /\ sync' = [sync EXCEPT ![c].at = "skills",
                              ![c].todo = Skills[cache],
                              ![c].names[r] = Skills[cache]]
      /\ UNCHANGED <<upstream, cache, tree, manifest>>

\* ... and those of the checkout come, one by one.
InstallSkill(c) ==
  /\ At(c, "skills")
  /\ \E n \in sync[c].todo :
       /\ skills' = [skills EXCEPT ![Runtime(c)] =
                       { s \in @ : s[1] # n } \cup {<<n, cache>>}]
       /\ sync' = [sync EXCEPT ![c].todo = @ \ {n}]
  /\ UNCHANGED <<upstream, cache, tree, manifest>>

\* The next runtime, or the manifest.
EndRuntime(c) ==
  /\ At(c, "skills") /\ sync[c].todo = {}
  /\ sync' = IF sync[c].run < Len(Runtimes)
               THEN [sync EXCEPT ![c].at = "clear tree", ![c].run = @ + 1]
               ELSE [sync EXCEPT ![c].at = "manifest"]
  /\ UNCHANGED <<upstream, cache, tree, skills, manifest>>

OpenManifest(c) ==
  /\ At(c, "manifest") /\ Move(c, "record")
  /\ manifest' = Torn
  /\ UNCHANGED <<upstream, cache, tree, skills>>

WriteManifest(c) ==
  /\ At(c, "record") /\ End(c, "synced", sync[c].sha)
  /\ manifest' = [sha |-> sync[c].sha, names |-> sync[c].names]
  /\ UNCHANGED <<upstream, cache, tree, skills>>

SyncStep(c) ==
  \/ ReadManifest(c) \/ Resolve(c) \/ ClearTree(c) \/ CopyTree(c)
  \/ ClearSkills(c) \/ InstallSkill(c) \/ EndRuntime(c)
  \/ OpenManifest(c) \/ WriteManifest(c)

\* A step throws or the process is killed; what was being copied is not there.
AbandonSync(c) ==
  /\ Synchronising(c) /\ Fail(c)
  /\ UNCHANGED <<upstream, cache, tree, skills, manifest>>

-----------------------------------------------------------------------------

Installed(s) ==
  \A r \in RuntimeNames : tree[r] = s /\ Skills[s] \X {s} \subseteq skills[r]

\* A sync that ends has its revision installed for every runtime, also when it
\* found nothing to do, and whatever killed or failed syncs came before.
SyncedMeansInstalled ==
  [][\A c \in Cmds : ~At(c, "synced") /\ At(c, "synced")'
       => Installed(sync[c].sha)']_syncVars

SyncTypeOK ==
  /\ upstream \in Revisions /\ cache \in Revisions \cup {Nothing}
  /\ tree \in [RuntimeNames -> Revisions \cup {Nothing}]
  /\ \A r \in RuntimeNames : \A s \in skills[r] : s[2] \in Revisions /\ s[1] \in Skills[s[2]]
  /\ manifest \in {Missing, Torn} \/ manifest.sha \in Revisions

=============================================================================
