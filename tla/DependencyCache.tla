--------------------------- MODULE DependencyCache ---------------------------
(***************************************************************************)
(* The dependency cache on a shared volume (internal/cache/cache.go,       *)
(* LocalStore), as the file system shows it to the runners and the API     *)
(* that use it at the same time.                                           *)
(*                                                                         *)
(* An entry is a directory: the runner that published it, which stands for *)
(* the identity of the directory, its manifest, and for each cached path   *)
(* the runner that wrote its contents.  os.RemoveAll deletes the children  *)
(* of the directory it has opened one by one and in any order, and fails   *)
(* if another directory has taken the name when it removes the last link.  *)
(* A copy of a path that is being deleted is missing files, or fails, as   *)
(* any other access to the volume may.                                     *)
(***************************************************************************)
EXTENDS Naturals, Sequences, FiniteSets

CONSTANTS
  Runners,       \* the runner pods
  Works,         \* what they may be started for, see work
  CachePaths,    \* template.spec.cache.paths, in order
  TTL            \* spec.cache.ttlSeconds is set: entries expire

VARIABLES
  work,          \* the BuildRun of each: project, repository, image, template, ...
  entries,       \* the directories of the volume, by scope
  staging,       \* the staging directory of each runner
  workspace,     \* who wrote the cached paths of each runner's source tree
  op,            \* the call in progress of each runner
  purging        \* the directories a purge of their project has begun to delete

cacheVars == <<work, entries, staging, workspace, op, purging>>

Nobody == "nobody"
Paths == {CachePaths[i] : i \in DOMAIN CachePaths}
NoData == [p \in Paths |-> Nobody]
NoEntry == [dir |-> Nobody, manifest |-> "none", data |-> NoData]
Idle == [do |-> "idle"]

\* Runners stand for the identities of directories and images.
ASSUME CacheAssumption ==
  /\ Nobody \notin Runners
  /\ CachePaths \in Seq(STRING)

\* Mutant of ScopeKey: the path is made from the repository and the key only.
ScopeKeyWithoutProject(project, repository, key) == <<repository, key>>

\* The hashes are free of collisions.
ScopeKey(project, repository, key) == <<project, repository, key>>

EntryOf(r, key) == ScopeKey(work[r].project, work[r].repository, key)
KeysOf(r) == <<work[r].template.key>> \o work[r].template.restoreKeys
Scopes == UNION {{EntryOf(r, KeysOf(r)[i]) : i \in DOMAIN KeysOf(r)} : r \in Runners}

\* A directory that holds nothing any more, and what is left of one that does
\* when a child is deleted.
Empty(e) == e.manifest = "none" /\ e.data = NoData
OneLess(e) ==
  (IF e.manifest = "none" THEN {} ELSE {[e EXCEPT !.manifest = "none"]})
    \cup {[e EXCEPT !.data[p] = Nobody] : p \in {q \in Paths : e.data[q] # Nobody}}

CacheInit ==
  /\ work \in Works
  /\ entries = [s \in Scopes |-> NoEntry]
  /\ staging = [r \in Runners |-> NoEntry]
  /\ workspace = [r \in Runners |-> NoData]
  /\ op = [r \in Runners |-> Idle]
  /\ purging = {}

Do(r, next) == op' = [op EXCEPT ![r] = next]

\* The keys are tried in order; after the last one the restore is a miss.
TryKey(r, i) ==
  Do(r, IF i > Len(KeysOf(r)) THEN [do |-> "miss"] ELSE [do |-> "read", key |-> i])

\* The paths of an entry are copied in order; after the last one it is a hit.
TryPath(r, i) ==
  Do(r, IF i > Len(CachePaths) THEN [do |-> "hit"] ELSE [do |-> "copy", key |-> op[r].key, path |-> i])

(***************************************************************************)
(* Restore.                                                                *)
(***************************************************************************)

Current(r) == EntryOf(r, KeysOf(r)[op[r].key])

\* What is opened to be removed is looked up by name, after the manifest is read:
\* it may be another directory by then.
ReadManifest(r) ==
  /\ op[r].do = "read"
  /\ \/ LET manifest == entries[Current(r)].manifest
        IN  CASE manifest = "none"    -> TryKey(r, op[r].key + 1)
              [] manifest = "expired" -> Do(r, [do |-> "open", entry |-> Current(r), key |-> op[r].key])
              [] OTHER                -> TryPath(r, 1)
     \/ Do(r, [do |-> "error"])
  /\ UNCHANGED <<work, entries, staging, workspace, purging>>

\* A path that is not there is skipped.
CopyPath(r) ==
  LET source == entries[Current(r)].data
      p == CachePaths[op[r].path]
  IN  /\ op[r].do = "copy"
      /\ \/ /\ workspace' = IF source[p] = Nobody THEN workspace ELSE [workspace EXCEPT ![r][p] = source[p]]
            /\ TryPath(r, op[r].path + 1)
         \/ Do(r, [do |-> "error"]) /\ UNCHANGED workspace
      /\ UNCHANGED <<work, entries, staging, purging>>

(***************************************************************************)
(* RemoveAll of an entry, for an expired one and before a new one.         *)
(***************************************************************************)

\* Where the caller goes on: the next key, or the rename.
Removed(r) == IF op[r].key = 0 THEN Do(r, [do |-> "rename"]) ELSE TryKey(r, op[r].key + 1)

\* Nothing is to be done if there is no directory of the name.
Open(r) ==
  /\ op[r].do = "open"
  /\ LET dir == entries[op[r].entry].dir
     IN  IF dir = Nobody THEN Removed(r)
         ELSE Do(r, [do |-> "remove", entry |-> op[r].entry, dir |-> dir, key |-> op[r].key])
  /\ UNCHANGED <<work, entries, staging, workspace, purging>>

RemoveItem(r) ==
  /\ op[r].do = "remove"
  /\ entries[op[r].entry].dir = op[r].dir
  /\ \E rest \in OneLess(entries[op[r].entry]) : entries' = [entries EXCEPT ![op[r].entry] = rest]
  /\ UNCHANGED <<work, staging, workspace, op, purging>>

\* Mutant of RemoveDirectory: only the directory that was opened may be removed.
RemoveDirectoryOwn(r) ==
  LET e == entries[op[r].entry]
  IN  /\ op[r].do = "remove"
      /\ e.dir = op[r].dir /\ Empty(e)
      /\ entries' = [entries EXCEPT ![op[r].entry] = NoEntry]
      /\ Removed(r)
      /\ UNCHANGED <<work, staging, workspace, purging>>

\* An error of Save removes the staging directory, too.
RemoveDirectory(r) ==
  LET e == entries[op[r].entry]
  IN  /\ op[r].do = "remove"
      /\ \/ /\ Empty(e)
            /\ entries' = [entries EXCEPT ![op[r].entry] = NoEntry]
            /\ Removed(r)
            /\ UNCHANGED staging
         \/ /\ e.dir # op[r].dir /\ ~Empty(e)
            /\ Do(r, [do |-> "error"])
            /\ staging' = [staging EXCEPT ![r] = NoEntry]
            /\ UNCHANGED entries
      /\ UNCHANGED <<work, workspace, purging>>

(***************************************************************************)
(* Save: stage, remove, rename.                                            *)
(***************************************************************************)

\* The copy of the workspace, and the manifest; a path of a symbolic link or
\* more than MaxBytes is an error, and the staging directory is removed.
Stage(r) ==
  /\ op[r].do = "save"
  /\ \/ /\ staging' = [staging EXCEPT ![r] = [dir |-> r, manifest |-> "fresh", data |-> workspace[r]]]
        /\ Do(r, [do |-> "open", entry |-> EntryOf(r, work[r].template.key), key |-> 0])
     \/ Do(r, [do |-> "error"]) /\ UNCHANGED staging
  /\ UNCHANGED <<work, entries, workspace, purging>>

\* Mutant of Rename: the staged files are moved into the directory that is there.
RenameInto(r) ==
  LET s == EntryOf(r, work[r].template.key)
  IN  /\ op[r].do = "rename"
      /\ entries' = [entries EXCEPT ![s] =
           [dir |-> r, manifest |-> "fresh",
            data |-> [p \in Paths |-> IF staging[r].data[p] = Nobody THEN @.data[p] ELSE staging[r].data[p]]]]
      /\ staging' = [staging EXCEPT ![r] = NoEntry]
      /\ Do(r, [do |-> "saved"])
      /\ UNCHANGED <<work, workspace, purging>>

\* A directory with contents cannot be replaced, and a purge may have taken the
\* staging directory away, or a part of it.
Rename(r) ==
  LET s == EntryOf(r, work[r].template.key)
  IN  /\ op[r].do = "rename"
      /\ \/ /\ staging[r] # NoEntry /\ Empty(entries[s])
            /\ entries' = [entries EXCEPT ![s] = staging[r]]
            /\ Do(r, [do |-> "saved"])
         \/ UNCHANGED entries /\ Do(r, [do |-> "error"])
      /\ staging' = [staging EXCEPT ![r] = NoEntry]
      /\ UNCHANGED <<work, workspace, purging>>

CacheStep(r) ==
  ReadManifest(r) \/ CopyPath(r) \/ Open(r) \/ RemoveItem(r) \/ RemoveDirectory(r) \/ Stage(r) \/ Rename(r)

(***************************************************************************)
(* Time, and the purge of a project by the API.                            *)
(***************************************************************************)

Expire(s) ==
  /\ TTL
  /\ entries[s].manifest = "fresh"
  /\ entries' = [entries EXCEPT ![s].manifest = "expired"]
  /\ UNCHANGED <<work, staging, workspace, op, purging>>

\* A purge opens the directory of runner d, published or not.
Purge(d) ==
  /\ staging[d] # NoEntry \/ \E s \in Scopes : entries[s].dir = d
  /\ purging' = purging \cup {d}
  /\ UNCHANGED <<work, entries, staging, workspace, op>>

\* It deletes the children of the directories it has opened, wherever they are by
\* now, and any directory that is empty; nothing tells it to go on after a crash.
PurgeStep ==
  /\ \/ \E s \in Scopes :
          /\ \/ /\ entries[s].dir \in purging
                /\ \E rest \in OneLess(entries[s]) : entries' = [entries EXCEPT ![s] = rest]
             \/ /\ Empty(entries[s]) /\ entries[s] # NoEntry
                /\ entries' = [entries EXCEPT ![s] = NoEntry]
          /\ UNCHANGED staging
     \/ \E d \in purging :
          /\ \/ \E rest \in OneLess(staging[d]) : staging' = [staging EXCEPT ![d] = rest]
             \/ /\ Empty(staging[d]) /\ staging[d] # NoEntry
                /\ staging' = [staging EXCEPT ![d] = NoEntry]
          /\ UNCHANGED entries
  /\ UNCHANGED <<work, workspace, op, purging>>
=============================================================================
