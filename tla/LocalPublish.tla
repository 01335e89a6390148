---------------------------- MODULE LocalPublish ----------------------------
(***************************************************************************)
(* Jobs that publish to a local output directory: run_job in jobs.py,      *)
(* normalize in pipeline.py and OutputSet in export.py.  normalize holds   *)
(* the lock files; it sweeps what the manifest does not name, stages the   *)
(* candidate in a directory of its own, renames it file by file over the   *)
(* published names, replaces manifest.json, and removes the files only the *)
(* previous manifest named.  run_job then validates what is published and  *)
(* rewrites manifest.json with its completion time.                        *)
(*                                                                         *)
(* Renames and deletions are visible at once and durable only when the     *)
(* directory has been synced: disk and diskManifest are what a power loss  *)
(* may fall back to.                                                       *)
(*                                                                         *)
(* A definition named Operation_Deviation is a deviation of Operation that *)
(* a property must detect; no specification uses it.                       *)
(***************************************************************************)
EXTENDS Naturals

CONSTANTS Jobs,         \* processes that may run jobs on this output directory
          Scenes,       \* which of them are started in one behaviour
          Names,        \* top-level JSONL names, lineage.jsonl among them
          Digests,      \* file contents
          Absent,       \* no file, no manifest, no job
          Plans,        \* the candidates the jobs may build
          Faults        \* "stop", "power", "unreadable": what may go wrong

ASSUME LocalAssumption ==
  /\ Names \subseteq Nat
  /\ Absent \notin Digests \cup Plans \cup Jobs
  /\ \A p \in Plans : DOMAIN p \subseteq Names /\ p \in [DOMAIN p -> Digests]
  /\ Scenes \subseteq SUBSET Jobs
  /\ Faults \subseteq {"stop", "power", "unreadable"}

VARIABLES fault,        \* what goes wrong in this behaviour
          store,        \* top-level JSONL files as a reader sees them
          disk,         \* the same, as far as they are durable
          manifest,     \* manifest.json as a reader sees it
          diskManifest, \* the same, as far as it is durable
          lock,         \* the job that holds .normalize.lock
          pc, plan,
          todo,         \* files the job has still to delete or to rename
          previous,     \* previous_paths, read before the renames
          held          \* the manifest run_job has read and will write back

files == <<store, disk, manifest, diskManifest>>
locals == <<pc, plan, todo, previous, held>>
vars == <<fault, files, lock, locals>>

Locked   == {"build", "preflight", "sweep", "stage", "swap", "commit",
             "sync", "cleanup"}
Unlocked == {"validate", "read", "stamp"}
Running  == Locked \cup Unlocked
Broken   == {"failed", "rejected"}
Stages   == Running \cup Broken \cup {"idle", "succeeded", "away"}

Stored == {n \in Names : store[n] # Absent}
Named(m) == IF m = Absent THEN {} ELSE DOMAIN m
Verifies(m) == \A n \in DOMAIN m : store[n] = m[n]

TypeOK ==
  /\ fault \in Faults
  /\ store \in [Names -> Digests \cup {Absent}]
  /\ disk \in [Names -> Digests \cup {Absent}]
  /\ {manifest, diskManifest} \subseteq Plans \cup {Absent}
  /\ lock \in Jobs \cup {Absent}
  /\ pc \in [Jobs -> Stages]
  /\ plan \in [Jobs -> Plans \cup {Absent}]
  /\ todo \in [Jobs -> SUBSET Names]
  /\ previous \in [Jobs -> SUBSET Names]
  /\ held \in [Jobs -> Plans \cup {Absent}]

Init ==
  /\ fault \in Faults
  /\ store \in [Names -> Digests \cup {Absent}]
  /\ disk = store
  /\ manifest = Absent /\ diskManifest = Absent
  /\ lock = Absent
  /\ \E scene \in Scenes : pc = [j \in Jobs |-> IF j \in scene THEN "idle" ELSE "away"]
  /\ plan = [j \in Jobs |-> Absent]
  /\ todo = [j \in Jobs |-> {}]
  /\ previous = [j \in Jobs |-> {}]
  /\ held = [j \in Jobs |-> Absent]

-----------------------------------------------------------------------------
At(j, stage) == pc[j] = stage
Goto(j, stage) == pc' = [pc EXCEPT ![j] = stage]
Todo(j, names) == todo' = [todo EXCEPT ![j] = names]

(* Paths are taken in sorted order.                                        *)
NextTodo(j, n) == n \in todo[j] /\ \A m \in todo[j] : n <= m

SyncDirectory == disk' = store /\ diskManifest' = manifest
Unsynced == UNCHANGED <<disk, diskManifest>>

Start_Unlocked(j) ==
  /\ pc[j] \notin Running \cup {"away"}
  /\ lock' = j /\ Goto(j, "build")
  /\ plan' = [plan EXCEPT ![j] = Absent]
  /\ Todo(j, {})
  /\ UNCHANGED <<files, previous, held>>

(* LOCK_EX | LOCK_NB: a job that finds the lock held raises at once.       *)
Start(j) ==
  /\ pc[j] \notin Running \cup {"away"}
  /\ IF lock = Absent
     THEN lock' = j /\ Goto(j, "build")
     ELSE UNCHANGED lock /\ Goto(j, "failed")
  /\ plan' = [plan EXCEPT ![j] = Absent]
  /\ Todo(j, {})
  /\ UNCHANGED <<files, previous, held>>

(* Ingest and build decide the candidate; the output is opened afterwards. *)
Build(j) ==
  /\ At(j, "build")
  /\ \E p \in Plans : plan' = [plan EXCEPT ![j] = p]
  /\ Goto(j, "preflight")
  /\ UNCHANGED <<files, lock, todo, previous, held>>

(* _manifest_paths answers the empty set for a manifest it cannot read.    *)
ReadablePaths == {Named(manifest)} \cup (IF fault = "unreadable" THEN {{}} ELSE {})

Preflight_Nothing(j) ==
  /\ At(j, "preflight")
  /\ Todo(j, {})
  /\ Goto(j, "stage")
  /\ UNCHANGED <<files, lock, plan, previous, held>>

Preflight(j) ==
  /\ At(j, "preflight")
  /\ \E published \in ReadablePaths :
       /\ Todo(j, Stored \ published)
       /\ Goto(j, IF Stored \subseteq published THEN "stage" ELSE "sweep")
  /\ UNCHANGED <<files, lock, plan, previous, held>>

Delete(j, n) ==
  /\ NextTodo(j, n)
  /\ store' = [store EXCEPT ![n] = Absent]
  /\ Todo(j, todo[j] \ {n})
  /\ UNCHANGED <<disk, manifest, diskManifest, lock, pc, plan, previous, held>>

Sweep(j, n) == At(j, "sweep") /\ Delete(j, n)

EndSweep(j) ==
  /\ At(j, "sweep") /\ todo[j] = {}
  /\ SyncDirectory
  /\ Goto(j, "stage")
  /\ UNCHANGED <<store, manifest, lock, plan, todo, previous, held>>

(* Every trajectory and the lineage are written to a staging directory of  *)
(* the job's own and synced; then close() reads what it will replace.      *)
Close(j) ==
  /\ At(j, "stage")
  /\ \E published \in ReadablePaths : previous' = [previous EXCEPT ![j] = published]
  /\ Todo(j, DOMAIN plan[j])
  /\ Goto(j, "swap")
  /\ UNCHANGED <<files, lock, plan, held>>

Swap(j, n) ==
  /\ At(j, "swap")
  /\ NextTodo(j, n)
  /\ store' = [store EXCEPT ![n] = plan[j][n]]
  /\ Todo(j, todo[j] \ {n})
  /\ UNCHANGED <<disk, manifest, diskManifest, lock, pc, plan, previous, held>>

EndSwap_Early(j) ==
  /\ At(j, "swap")
  /\ SyncDirectory
  /\ Goto(j, "commit")
  /\ UNCHANGED <<store, manifest, lock, plan, todo, previous, held>>

EndSwap_Unsynced(j) ==
  /\ At(j, "swap") /\ todo[j] = {}
  /\ Unsynced
  /\ Goto(j, "commit")
  /\ UNCHANGED <<store, manifest, lock, plan, todo, previous, held>>

EndSwap(j) ==
  /\ At(j, "swap") /\ todo[j] = {}
  /\ SyncDirectory
  /\ Goto(j, "commit")
  /\ UNCHANGED <<store, manifest, lock, plan, todo, previous, held>>

Commit_FromDirectory(j) ==
  /\ At(j, "commit")
  /\ manifest' = [n \in Stored |-> store[n]]
  /\ Goto(j, "sync")
  /\ Unsynced
  /\ UNCHANGED <<store, lock, plan, todo, previous, held>>

Commit(j) ==
  /\ At(j, "commit")
  /\ manifest' = plan[j]
  /\ Goto(j, "sync")
  /\ Unsynced
  /\ UNCHANGED <<store, lock, plan, todo, previous, held>>

SyncManifest_Unsynced(j) ==
  /\ At(j, "sync")
  /\ Unsynced
  /\ Todo(j, previous[j] \ DOMAIN plan[j])
  /\ Goto(j, "cleanup")
  /\ UNCHANGED <<store, manifest, lock, plan, previous, held>>

SyncManifest(j) ==
  /\ At(j, "sync")
  /\ SyncDirectory
  /\ Todo(j, previous[j] \ DOMAIN plan[j])
  /\ Goto(j, "cleanup")
  /\ UNCHANGED <<store, manifest, lock, plan, previous, held>>

Cleanup(j, n) == At(j, "cleanup") /\ Delete(j, n)

(* The directory is synced if a file was deleted, and normalize returns    *)
(* its locks.                                                              *)
EndCleanup(j) ==
  /\ At(j, "cleanup") /\ todo[j] = {}
  /\ IF previous[j] \subseteq DOMAIN plan[j] THEN Unsynced ELSE SyncDirectory
  /\ lock' = Absent
  /\ Goto(j, "validate")
  /\ previous' = [previous EXCEPT ![j] = {}]
  /\ UNCHANGED <<store, manifest, plan, todo, held>>

(* validate_output: without the locks, on what is published by now.        *)
PublishedValid ==
  manifest # Absent /\ Verifies(manifest) /\ Stored \subseteq DOMAIN manifest

Validate_NoReread(j) ==
  /\ At(j, "validate")
  /\ Goto(j, IF PublishedValid THEN "stamp" ELSE "rejected")
  /\ UNCHANGED <<files, lock, plan, todo, previous, held>>

Validate(j) ==
  /\ At(j, "validate")
  /\ Goto(j, IF PublishedValid THEN "read" ELSE "rejected")
  /\ UNCHANGED <<files, lock, plan, todo, previous, held>>

ReadManifest(j) ==
  /\ At(j, "read")
  /\ held' = [held EXCEPT ![j] = manifest]
  /\ Goto(j, "stamp")
  /\ UNCHANGED <<files, lock, plan, todo, previous>>

(* Only the clock fields differ from the manifest that was read.           *)
StampManifest(j) ==
  /\ At(j, "stamp")
  /\ manifest' = held[j]
  /\ Goto(j, "succeeded")
  /\ Unsynced
  /\ held' = [held EXCEPT ![j] = Absent]
  /\ UNCHANGED <<store, lock, plan, todo, previous>>

-----------------------------------------------------------------------------
Forget(jobs) ==
  /\ plan' = [j \in Jobs |-> IF j \in jobs THEN Absent ELSE plan[j]]
  /\ todo' = [j \in Jobs |-> IF j \in jobs THEN {} ELSE todo[j]]
  /\ previous' = [j \in Jobs |-> IF j \in jobs THEN {} ELSE previous[j]]
  /\ held' = [j \in Jobs |-> IF j \in jobs THEN Absent ELSE held[j]]

Unlock(j) == lock' = IF lock = j THEN Absent ELSE lock

(* A call raised, or the process is gone.  Its staging directory, removed  *)
(* or left behind, is never read again; its lock is released.              *)
Fail(j) ==
  /\ fault = "stop"
  /\ pc[j] \in Running
  /\ Goto(j, "failed")
  /\ Unlock(j)
  /\ Forget({j})
  /\ UNCHANGED files

(* Every unsynced rename or deletion may or may not have reached the disk. *)
PowerLoss ==
  /\ fault = "power"
  /\ \E lost \in SUBSET Names :
       store' = [n \in Names |-> IF n \in lost THEN disk[n] ELSE store[n]]
  /\ manifest' \in {manifest, diskManifest}
  /\ disk' = store' /\ diskManifest' = manifest'
  /\ pc' = [j \in Jobs |-> IF pc[j] \in Running THEN "failed" ELSE pc[j]]
  /\ lock' = Absent
  /\ Forget({j \in Jobs : pc[j] \in Running})

JobStep(j) ==
  \/ Build(j) \/ Preflight(j) \/ EndSweep(j) \/ Close(j) \/ EndSwap(j)
  \/ Commit(j) \/ SyncManifest(j) \/ EndCleanup(j)
  \/ Validate(j) \/ ReadManifest(j) \/ StampManifest(j)
  \/ \E n \in Names : Sweep(j, n) \/ Swap(j, n) \/ Cleanup(j, n)

Next == /\ PowerLoss \/ \E j \in Jobs : Start(j) \/ JobStep(j) \/ Fail(j)
        /\ UNCHANGED fault

Spec == Init /\ [][Next]_vars
FairSpec ==
  Spec /\ \A j \in Jobs :
            /\ WF_vars(JobStep(j) /\ UNCHANGED fault)
            /\ WF_vars(pc[j] \in Broken /\ Start(j) /\ UNCHANGED fault)

-----------------------------------------------------------------------------
Served == IF manifest # Absent /\ Verifies(manifest) THEN manifest ELSE Absent

(* No second job is ever started on the directory.                         *)
Alone == \A j, k \in Jobs : "away" \notin {pc[j], pc[k]} => j = k

(* Safety: a file named by the manifest in force is never removed, whether *)
(* by the preflight sweep, by the cleanup, or by losing power between a    *)
(* rename and the next directory sync.  (With a second job it may be: one  *)
(* that stamps the manifest it read earlier, which another has replaced.)  *)
PublishedNeverRemoved == Alone => Named(manifest) \subseteq Stored

(* Safety: run_job returns only when the directory holds its own files,    *)
(* all verifying, and nothing else - no residue of earlier jobs.  (With    *)
(* the types: a manifest in force is one that a job planned.)              *)
SuccessIsExact ==
  /\ TypeOK
  /\ Alone => \A j \in Jobs : pc[j] = "succeeded" =>
                 /\ manifest = plan[j]
                 /\ Verifies(manifest)
                 /\ Stored = DOMAIN manifest

(* Action property: a new manifest appears only over files that are        *)
(* already durable, so that no power loss can leave it naming lost data;   *)
(* and, whoever else was started on the directory, over exactly the files  *)
(* its own job renamed into place: the lock covers the whole of normalize. *)
CommitIsWhole ==
  [][\A j \in Jobs : pc[j] = "commit" /\ pc'[j] = "sync"
       => /\ manifest' = plan[j]
          /\ \A n \in DOMAIN plan[j] : plan[j][n] = store[n] /\ store[n] = disk[n]]_vars

(* Liveness: once nothing raises any more, a failed job that is started    *)
(* again ends with one complete release and no residue; in particular its  *)
(* validation does not reject what the failed attempts left.               *)
Disrupted == PowerLoss \/ \E j \in Jobs : Fail(j)
Clean == Served # Absent /\ Stored = DOMAIN manifest
RetryCleans ==
  (Alone /\ <>[][~Disrupted]_vars) => \A j \in Jobs : (pc[j] = "build") ~> Clean

(* Refinement: a single job is a correct publisher in the sense of         *)
(* ManifestRelease, up to the validation after its commit and whatever     *)
(* stops it; only a loss of power may also take back what is not durable.  *)
Abstract == INSTANCE ManifestRelease
  WITH Releases <- Plans, Nothing <- Absent, release <- manifest,
       served <- Served, running <- \E j \in Jobs : pc[j] \in Running
ImplementsRelease ==
  /\ Alone => Abstract!Init
  /\ [][Alone => PowerLoss \/ Abstract!Next]_(Abstract!vars)
=============================================================================
