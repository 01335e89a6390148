------------------------- MODULE LocalPublish_proofs -------------------------
(***************************************************************************)
(* Theorems about LocalPublish: whatever number of jobs is started on a    *)
(* directory and wherever they are stopped, a manifest appears only over   *)
(* its own job's durable files; a job that has the directory to itself     *)
(* removes nothing that is published, succeeds only with exactly its own   *)
(* files, and is a publisher as ManifestRelease describes it.              *)
(***************************************************************************)
EXTENDS LocalPublish, TLAPS

(* The lock is held by the job inside normalize.                           *)
Exclusive == \A j \in Jobs : pc[j] \in Locked => lock = j

(* Build has chosen the candidate of a job that is past it.                *)
Planned == \A j \in Jobs : pc[j] \in Running \ {"build"} => plan[j] \in Plans

(* What has been renamed into place is still there, and once the directory *)
(* is synced it is durable.                                                *)
Placed(j) == \A n \in DOMAIN plan[j] \ todo[j] : plan[j][n] = store[n]
Durable(j) == \A n \in DOMAIN plan[j] : plan[j][n] = store[n] /\ store[n] = disk[n]
Renamed ==
  \A j \in Jobs :
    /\ pc[j] = "swap" => todo[j] \subseteq DOMAIN plan[j] /\ Placed(j)
    /\ pc[j] = "commit" => Durable(j)

(* The manifest of a job alone stays in force, and is durable, with the    *)
(* whole directory, by the time that it is validated.                      *)
Validated == {"read", "stamp", "succeeded"}
Returned  == {"validate"} \cup Validated
Synced    == {"cleanup"} \cup Returned
Committed == {"sync"} \cup Synced

SettledJob(j) ==
  /\ pc[j] \in Committed => manifest = plan[j]
  /\ pc[j] \in Synced => diskManifest = manifest
  /\ pc[j] = "cleanup" =>
       /\ todo[j] \subseteq previous[j] \ DOMAIN plan[j]
       /\ previous[j] \subseteq DOMAIN plan[j] => disk = store
  /\ pc[j] \in Returned => disk = store
  /\ pc[j] \in Validated => PublishedValid
  /\ pc[j] = "stamp" => held[j] = manifest
Settled == Alone => \A j \in Jobs : SettledJob(j)

(* What a manifest names is there, and what it may be after losing power   *)
(* also names only what is there and durable.                              *)
Kept ==
  Alone /\ fault # "unreadable" =>
    /\ Named(manifest) \subseteq Stored
    /\ \A j \in Jobs : pc[j] = "sweep" => todo[j] \cap Named(manifest) = {}
    /\ fault = "power" =>
         /\ \A n \in Named(manifest) \cup Named(diskManifest) :
              n \in Stored /\ disk[n] # Absent
         /\ (\A j \in Jobs : pc[j] # "sync") => diskManifest = manifest

IInv == TypeOK /\ Exclusive /\ Planned /\ Renamed /\ Settled /\ Kept
-----------------------------------------------------------------------------
(* The stages are told apart by what they belong to.                       *)
LEMMA StagesApart ==
  /\ Running \subseteq Stages /\ Locked \subseteq Running
  /\ "away" \notin Running /\ "away" \notin Committed
  /\ Stages \subseteq Running \cup {"failed", "rejected", "idle", "succeeded", "away"}
BY DEF Running, Locked, Unlocked, Broken, Stages, Committed, Synced,
  Returned, Validated

(* A candidate is a function from names to contents.                       *)
LEMMA PlanType ==
  ASSUME NEW p \in Plans
  PROVE  /\ p # Absent
         /\ DOMAIN p \subseteq Names
         /\ \A n \in DOMAIN p : p[n] \in Digests /\ p[n] # Absent
BY LocalAssumption

(* What a manifest names is among the names.                               *)
LEMMA NamedType ==
  ASSUME NEW m \in Plans \cup {Absent}
  PROVE  Named(m) \subseteq Names
BY PlanType DEF Named

(* Every step keeps the types.                                             *)
LEMMA TypeStep ==
  ASSUME TypeOK, Planned, Renamed, [Next]_vars
  PROVE  TypeOK'
<1> USE LocalAssumption, PlanType, NamedType
<1>1. ASSUME NEW j \in Jobs, Start(j), UNCHANGED fault PROVE TypeOK'
  BY <1>1 DEF files, Locked, Unlocked, Running, Broken, Stages, TypeOK, Goto,
    Todo, Start, Planned, Renamed
<1>2. ASSUME NEW j \in Jobs, Build(j), UNCHANGED fault PROVE TypeOK'
  BY <1>2 DEF files, Locked, Unlocked, Running, Broken, Stages, TypeOK, At,
    Goto, Build, Planned, Renamed
<1>3. ASSUME NEW j \in Jobs, Preflight(j), UNCHANGED fault PROVE TypeOK'
  BY <1>3 DEF files, Locked, Unlocked, Running, Broken, Stages, Stored,
    TypeOK, At, Goto, Todo, ReadablePaths, Preflight, Planned, Renamed
<1>4. ASSUME NEW j \in Jobs, NEW n \in Names, Sweep(j, n), UNCHANGED fault
      PROVE TypeOK'
  BY <1>4 DEF Locked, Unlocked, Running, Broken, Stages, TypeOK, At, Todo,
    NextTodo, Delete, Sweep, Planned, Renamed
<1>5. ASSUME NEW j \in Jobs, EndSweep(j), UNCHANGED fault PROVE TypeOK'
  BY <1>5 DEF Locked, Unlocked, Running, Broken, Stages, TypeOK, At, Goto,
    SyncDirectory, EndSweep, Planned, Renamed
<1>6. ASSUME NEW j \in Jobs, Close(j), UNCHANGED fault PROVE TypeOK'
  BY <1>6 DEF files, Locked, Unlocked, Running, Broken, Stages, TypeOK, At,
    Goto, Todo, ReadablePaths, Close, Planned, Renamed
<1>7. ASSUME NEW j \in Jobs, NEW n \in Names, Swap(j, n), UNCHANGED fault
      PROVE TypeOK'
  BY <1>7 DEF Locked, Unlocked, Running, Broken, Stages, TypeOK, At, Todo,
    NextTodo, Swap, Planned, Renamed
<1>8. ASSUME NEW j \in Jobs, EndSwap(j), UNCHANGED fault PROVE TypeOK'
  BY <1>8 DEF Locked, Unlocked, Running, Broken, Stages, TypeOK, At, Goto,
    SyncDirectory, EndSwap, Planned, Renamed
<1>9. ASSUME NEW j \in Jobs, Commit(j), UNCHANGED fault PROVE TypeOK'
  BY <1>9 DEF Locked, Unlocked, Running, Broken, Stages, TypeOK, At, Goto,
    Unsynced, Commit, Planned, Renamed
<1>10. ASSUME NEW j \in Jobs, SyncManifest(j), UNCHANGED fault PROVE TypeOK'
  BY <1>10 DEF Locked, Unlocked, Running, Broken, Stages, TypeOK, At, Goto,
    Todo, SyncDirectory, SyncManifest, Planned, Renamed
<1>11. ASSUME NEW j \in Jobs, NEW n \in Names, Cleanup(j, n), UNCHANGED fault
      PROVE TypeOK'
  BY <1>11 DEF Locked, Unlocked, Running, Broken, Stages, TypeOK, At, Todo,
    NextTodo, Delete, Cleanup, Planned, Renamed
<1>12. ASSUME NEW j \in Jobs, EndCleanup(j), UNCHANGED fault PROVE TypeOK'
  BY <1>12 DEF Locked, Unlocked, Running, Broken, Stages, TypeOK, At, Goto,
    SyncDirectory, Unsynced, EndCleanup, Planned, Renamed
<1>13. ASSUME NEW j \in Jobs, Validate(j), UNCHANGED fault PROVE TypeOK'
  BY <1>13 DEF files, Locked, Unlocked, Running, Broken, Stages, TypeOK, At,
    Goto, Validate, Planned, Renamed
<1>14. ASSUME NEW j \in Jobs, ReadManifest(j), UNCHANGED fault PROVE TypeOK'
  BY <1>14 DEF files, Locked, Unlocked, Running, Broken, Stages, TypeOK, At,
    Goto, ReadManifest, Planned, Renamed
<1>15. ASSUME NEW j \in Jobs, StampManifest(j), UNCHANGED fault PROVE TypeOK'
  BY <1>15 DEF Locked, Unlocked, Running, Broken, Stages, TypeOK, At, Goto,
    Unsynced, StampManifest, Planned, Renamed
<1>16. ASSUME NEW j \in Jobs, Fail(j), UNCHANGED fault PROVE TypeOK'
  BY <1>16 DEF files, Locked, Unlocked, Running, Broken, Stages, TypeOK, Goto,
    Forget, Unlock, Fail, Planned, Renamed
<1>17. ASSUME PowerLoss, UNCHANGED fault PROVE TypeOK'
  BY <1>17 DEF Locked, Unlocked, Running, Broken, Stages, TypeOK, Forget,
    PowerLoss, Planned, Renamed
<1>18. CASE UNCHANGED vars
  BY <1>18 DEF vars, files, locals, Locked, Unlocked, Running, Broken, Stages,
    TypeOK
<1> QED
  BY <1>1, <1>2, <1>3, <1>4, <1>5, <1>6, <1>7, <1>8, <1>9, <1>10, <1>11, <1>12,
     <1>13, <1>14, <1>15, <1>16, <1>17, <1>18 DEF Next, JobStep

(* Every step keeps the lock and the candidates.                           *)
LEMMA LockStep ==
  ASSUME TypeOK, Exclusive, Planned, [Next]_vars
  PROVE  (Exclusive /\ Planned)'
<1> USE LocalAssumption
<1>1. ASSUME NEW j \in Jobs, Start(j), UNCHANGED fault
      PROVE (Exclusive /\ Planned)'
  BY <1>1 DEF files, Locked, Unlocked, Running, Broken, Stages, TypeOK, Goto,
    Todo, Start, Exclusive, Planned
<1>2. ASSUME NEW j \in Jobs, Build(j), UNCHANGED fault
      PROVE (Exclusive /\ Planned)'
  BY <1>2 DEF files, Locked, Unlocked, Running, Broken, Stages, TypeOK, At,
    Goto, Build, Exclusive, Planned
<1>3. ASSUME NEW j \in Jobs, Preflight(j), UNCHANGED fault
      PROVE (Exclusive /\ Planned)'
  BY <1>3 DEF files, Locked, Unlocked, Running, Broken, Stages, TypeOK, At,
    Goto, Todo, ReadablePaths, Preflight, Exclusive, Planned
<1>4. ASSUME NEW j \in Jobs, NEW n \in Names, Sweep(j, n), UNCHANGED fault
      PROVE (Exclusive /\ Planned)'
  BY <1>4 DEF Locked, Unlocked, Running, Broken, Stages, TypeOK, At, Todo,
    NextTodo, Delete, Sweep, Exclusive, Planned
<1>5. ASSUME NEW j \in Jobs, EndSweep(j), UNCHANGED fault
      PROVE (Exclusive /\ Planned)'
  BY <1>5 DEF Locked, Unlocked, Running, Broken, Stages, TypeOK, At, Goto,
    SyncDirectory, EndSweep, Exclusive, Planned
<1>6. ASSUME NEW j \in Jobs, Close(j), UNCHANGED fault
      PROVE (Exclusive /\ Planned)'
  BY <1>6 DEF files, Locked, Unlocked, Running, Broken, Stages, TypeOK, At,
    Goto, Todo, ReadablePaths, Close, Exclusive, Planned
<1>7. ASSUME NEW j \in Jobs, NEW n \in Names, Swap(j, n), UNCHANGED fault
      PROVE (Exclusive /\ Planned)'
  BY <1>7 DEF Locked, Unlocked, Running, Broken, Stages, TypeOK, At, Todo,
    NextTodo, Swap, Exclusive, Planned
<1>8. ASSUME NEW j \in Jobs, EndSwap(j), UNCHANGED fault
      PROVE (Exclusive /\ Planned)'
  BY <1>8 DEF Locked, Unlocked, Running, Broken, Stages, TypeOK, At, Goto,
    SyncDirectory, EndSwap, Exclusive, Planned
<1>9. ASSUME NEW j \in Jobs, Commit(j), UNCHANGED fault
      PROVE (Exclusive /\ Planned)'
  BY <1>9 DEF Locked, Unlocked, Running, Broken, Stages, TypeOK, At, Goto,
    Unsynced, Commit, Exclusive, Planned
<1>10. ASSUME NEW j \in Jobs, SyncManifest(j), UNCHANGED fault
      PROVE (Exclusive /\ Planned)'
  BY <1>10 DEF Locked, Unlocked, Running, Broken, Stages, TypeOK, At, Goto,
    Todo, SyncDirectory, SyncManifest, Exclusive, Planned
<1>11. ASSUME NEW j \in Jobs, NEW n \in Names, Cleanup(j, n), UNCHANGED fault
      PROVE (Exclusive /\ Planned)'
  BY <1>11 DEF Locked, Unlocked, Running, Broken, Stages, TypeOK, At, Todo,
    NextTodo, Delete, Cleanup, Exclusive, Planned
<1>12. ASSUME NEW j \in Jobs, EndCleanup(j), UNCHANGED fault
      PROVE (Exclusive /\ Planned)'
  BY <1>12 DEF Locked, Unlocked, Running, Broken, Stages, TypeOK, At, Goto,
    SyncDirectory, Unsynced, EndCleanup, Exclusive, Planned
<1>13. ASSUME NEW j \in Jobs, Validate(j), UNCHANGED fault
      PROVE (Exclusive /\ Planned)'
  BY <1>13 DEF files, Locked, Unlocked, Running, Broken, Stages, TypeOK, At,
    Goto, Validate, Exclusive, Planned
<1>14. ASSUME NEW j \in Jobs, ReadManifest(j), UNCHANGED fault
      PROVE (Exclusive /\ Planned)'
  BY <1>14 DEF files, Locked, Unlocked, Running, Broken, Stages, TypeOK, At,
    Goto, ReadManifest, Exclusive, Planned
<1>15. ASSUME NEW j \in Jobs, StampManifest(j), UNCHANGED fault
      PROVE (Exclusive /\ Planned)'
  BY <1>15 DEF Locked, Unlocked, Running, Broken, Stages, TypeOK, At, Goto,
    Unsynced, StampManifest, Exclusive, Planned
<1>16. ASSUME NEW j \in Jobs, Fail(j), UNCHANGED fault
      PROVE (Exclusive /\ Planned)'
  BY <1>16 DEF files, Locked, Unlocked, Running, Broken, Stages, TypeOK, Goto,
    Forget, Unlock, Fail, Exclusive, Planned
<1>17. ASSUME PowerLoss, UNCHANGED fault PROVE (Exclusive /\ Planned)'
  BY <1>17 DEF Locked, Unlocked, Running, Broken, Stages, TypeOK, Forget,
    PowerLoss, Exclusive, Planned
<1>18. CASE UNCHANGED vars
  BY <1>18 DEF vars, files, locals, Locked, Unlocked, Running, Exclusive,
    Planned
<1> QED
  BY <1>1, <1>2, <1>3, <1>4, <1>5, <1>6, <1>7, <1>8, <1>9, <1>10, <1>11, <1>12,
     <1>13, <1>14, <1>15, <1>16, <1>17, <1>18 DEF Next, JobStep

(* Every step keeps what has been renamed; only the holder of the lock     *)
(* touches the files, unless the power fails.                              *)
LEMMA RenamedStep ==
  ASSUME TypeOK, Exclusive, Planned, Renamed, [Next]_vars
  PROVE  Renamed'
<1> USE LocalAssumption, PlanType
<1>1. ASSUME NEW j \in Jobs, Start(j), UNCHANGED fault PROVE Renamed'
  BY <1>1 DEF files, Locked, Unlocked, Running, Broken, Stages, TypeOK, Goto,
    Todo, Start, Exclusive, Planned, Placed, Durable, Renamed
<1>2. ASSUME NEW j \in Jobs, Build(j), UNCHANGED fault PROVE Renamed'
  BY <1>2 DEF files, Locked, Unlocked, Running, Broken, Stages, TypeOK, At,
    Goto, Build, Exclusive, Planned, Placed, Durable, Renamed
<1>3. ASSUME NEW j \in Jobs, Preflight(j), UNCHANGED fault PROVE Renamed'
  BY <1>3 DEF files, Locked, Unlocked, Running, Broken, Stages, Stored,
    TypeOK, At, Goto, Todo, ReadablePaths, Preflight, Exclusive, Planned,
    Placed, Durable, Renamed
<1>4. ASSUME NEW j \in Jobs, NEW n \in Names, Sweep(j, n), UNCHANGED fault
      PROVE Renamed'
  BY <1>4 DEF Locked, Unlocked, Running, Broken, Stages, TypeOK, At, Todo,
    NextTodo, Delete, Sweep, Exclusive, Planned, Placed, Durable, Renamed
<1>5. ASSUME NEW j \in Jobs, EndSweep(j), UNCHANGED fault PROVE Renamed'
  BY <1>5 DEF Locked, Unlocked, Running, Broken, Stages, TypeOK, At, Goto,
    SyncDirectory, EndSweep, Exclusive, Planned, Placed, Durable, Renamed
<1>6. ASSUME NEW j \in Jobs, Close(j), UNCHANGED fault PROVE Renamed'
  BY <1>6 DEF files, Locked, Unlocked, Running, Broken, Stages, TypeOK, At,
    Goto, Todo, ReadablePaths, Close, Exclusive, Planned, Placed, Durable,
    Renamed
<1>7. ASSUME NEW j \in Jobs, NEW n \in Names, Swap(j, n), UNCHANGED fault
      PROVE Renamed'
  BY <1>7 DEF Locked, Unlocked, Running, Broken, Stages, TypeOK, At, Todo,
    NextTodo, Swap, Exclusive, Planned, Placed, Durable, Renamed
<1>8. ASSUME NEW j \in Jobs, EndSwap(j), UNCHANGED fault PROVE Renamed'
  BY <1>8 DEF Locked, Unlocked, Running, Broken, Stages, TypeOK, At, Goto,
    SyncDirectory, EndSwap, Exclusive, Planned, Placed, Durable, Renamed
<1>9. ASSUME NEW j \in Jobs, Commit(j), UNCHANGED fault PROVE Renamed'
  BY <1>9 DEF Locked, Unlocked, Running, Broken, Stages, TypeOK, At, Goto,
    Unsynced, Commit, Exclusive, Planned, Placed, Durable, Renamed
<1>10. ASSUME NEW j \in Jobs, SyncManifest(j), UNCHANGED fault PROVE Renamed'
  BY <1>10 DEF Locked, Unlocked, Running, Broken, Stages, TypeOK, At, Goto,
    Todo, SyncDirectory, SyncManifest, Exclusive, Planned, Placed, Durable,
    Renamed
<1>11. ASSUME NEW j \in Jobs, NEW n \in Names, Cleanup(j, n), UNCHANGED fault
      PROVE Renamed'
  BY <1>11 DEF Locked, Unlocked, Running, Broken, Stages, TypeOK, At, Todo,
    NextTodo, Delete, Cleanup, Exclusive, Planned, Placed, Durable, Renamed
<1>12. ASSUME NEW j \in Jobs, EndCleanup(j), UNCHANGED fault PROVE Renamed'
  BY <1>12 DEF Locked, Unlocked, Running, Broken, Stages, TypeOK, At, Goto,
    SyncDirectory, Unsynced, EndCleanup, Exclusive, Planned, Placed, Durable,
    Renamed
<1>13. ASSUME NEW j \in Jobs, Validate(j), UNCHANGED fault PROVE Renamed'
  BY <1>13 DEF files, Locked, Unlocked, Running, Broken, Stages, TypeOK, At,
    Goto, Validate, Exclusive, Planned, Placed, Durable, Renamed
<1>14. ASSUME NEW j \in Jobs, ReadManifest(j), UNCHANGED fault PROVE Renamed'
  BY <1>14 DEF files, Locked, Unlocked, Running, Broken, Stages, TypeOK, At,
    Goto, ReadManifest, Exclusive, Planned, Placed, Durable, Renamed
<1>15. ASSUME NEW j \in Jobs, StampManifest(j), UNCHANGED fault PROVE Renamed'
  BY <1>15 DEF Locked, Unlocked, Running, Broken, Stages, TypeOK, At, Goto,
    Unsynced, StampManifest, Exclusive, Planned, Placed, Durable, Renamed
<1>16. ASSUME NEW j \in Jobs, Fail(j), UNCHANGED fault PROVE Renamed'
  BY <1>16 DEF files, Locked, Unlocked, Running, Broken, Stages, TypeOK, Goto,
    Forget, Unlock, Fail, Exclusive, Planned, Placed, Durable, Renamed
<1>17. ASSUME PowerLoss, UNCHANGED fault PROVE Renamed'
  BY <1>17 DEF Locked, Unlocked, Running, Broken, Stages, TypeOK, Forget,
    PowerLoss, Exclusive, Planned, Placed, Durable, Renamed
<1>18. CASE UNCHANGED vars
  BY <1>18 DEF vars, files, locals, Placed, Durable, Renamed
<1> QED
  BY <1>1, <1>2, <1>3, <1>4, <1>5, <1>6, <1>7, <1>8, <1>9, <1>10, <1>11, <1>12,
     <1>13, <1>14, <1>15, <1>16, <1>17, <1>18 DEF Next, JobStep

(* The jobs that take part in a behaviour.                                  *)
Present == {j \in Jobs : pc[j] # "away"}

(* No step adds or removes a job of the behaviour.                         *)
LEMMA SameJobs ==
  ASSUME TypeOK, [Next]_vars
  PROVE  UNCHANGED Present
<1> USE DEF Present, TypeOK, At, Goto, Running, Locked, Unlocked
<1>1. CASE PowerLoss
  BY <1>1 DEF PowerLoss
<1>2. ASSUME NEW j \in Jobs, Start(j) \/ Fail(j) PROVE UNCHANGED Present
  BY <1>2 DEF Start, Fail
<1>3. ASSUME NEW j \in Jobs, JobStep(j) PROVE UNCHANGED Present
  BY <1>3 DEF JobStep, Build, Preflight, Sweep, EndSweep, Close, Swap, EndSwap,
    Commit, SyncManifest, Cleanup, EndCleanup, Validate, ReadManifest,
    StampManifest, Delete
<1>4. CASE UNCHANGED vars
  BY <1>4 DEF vars, locals
<1> QED
  BY <1>1, <1>2, <1>3, <1>4 DEF Next

(* A job that is alone stays alone.                                         *)
LEMMA AloneStep ==
  ASSUME TypeOK, [Next]_vars
  PROVE  Alone' <=> Alone
BY SameJobs DEF Alone, Present

(* Every step of a job that is alone keeps what it has settled.            *)
LEMMA SettledStep ==
  ASSUME TypeOK, Exclusive, Planned, Renamed, Settled, [Next]_vars
  PROVE  Settled'
<1> USE LocalAssumption, PlanType
<1> SUFFICES ASSUME Alone, NEW k \in Jobs
             PROVE  SettledJob(k)'
  BY AloneStep DEF Settled
<1>1. ASSUME NEW j \in Jobs, Start(j), UNCHANGED fault PROVE SettledJob(k)'
  BY <1>1 DEF files, Locked, Unlocked, Running, Broken, Stages, Stored,
    Verifies, TypeOK, Goto, Todo, Start, PublishedValid, Alone, Exclusive,
    Planned, Placed, Durable, Renamed, Validated, Returned, Synced, Committed,
    SettledJob, Settled
<1>2. ASSUME NEW j \in Jobs, Build(j), UNCHANGED fault PROVE SettledJob(k)'
  BY <1>2 DEF files, Locked, Unlocked, Running, Broken, Stages, Stored,
    Verifies, TypeOK, At, Goto, Build, PublishedValid, Alone, Exclusive,
    Planned, Placed, Durable, Renamed, Validated, Returned, Synced, Committed,
    SettledJob, Settled
<1>3. ASSUME NEW j \in Jobs, Preflight(j), UNCHANGED fault PROVE SettledJob(k)'
  BY <1>3 DEF files, Locked, Unlocked, Running, Broken, Stages, Stored,
    Verifies, TypeOK, At, Goto, Todo, ReadablePaths, Preflight,
    PublishedValid, Alone, Exclusive, Planned, Placed, Durable, Renamed,
    Validated, Returned, Synced, Committed, SettledJob, Settled
<1>4. ASSUME NEW j \in Jobs, NEW n \in Names, Sweep(j, n), UNCHANGED fault
      PROVE SettledJob(k)'
  BY <1>4 DEF Locked, Unlocked, Running, Broken, Stages, Stored, Verifies,
    TypeOK, At, Todo, NextTodo, Delete, Sweep, PublishedValid, Alone,
    Exclusive, Planned, Placed, Durable, Renamed, Validated, Returned, Synced,
    Committed, SettledJob, Settled
<1>5. ASSUME NEW j \in Jobs, EndSweep(j), UNCHANGED fault PROVE SettledJob(k)'
  BY <1>5 DEF Locked, Unlocked, Running, Broken, Stages, Stored, Verifies,
    TypeOK, At, Goto, SyncDirectory, EndSweep, PublishedValid, Alone,
    Exclusive, Planned, Placed, Durable, Renamed, Validated, Returned, Synced,
    Committed, SettledJob, Settled
<1>6. ASSUME NEW j \in Jobs, Close(j), UNCHANGED fault PROVE SettledJob(k)'
  BY <1>6 DEF files, Locked, Unlocked, Running, Broken, Stages, Stored,
    Verifies, TypeOK, At, Goto, Todo, ReadablePaths, Close, PublishedValid,
    Alone, Exclusive, Planned, Placed, Durable, Renamed, Validated, Returned,
    Synced, Committed, SettledJob, Settled
<1>7. ASSUME NEW j \in Jobs, NEW n \in Names, Swap(j, n), UNCHANGED fault
      PROVE SettledJob(k)'
  BY <1>7 DEF Locked, Unlocked, Running, Broken, Stages, Stored, Verifies,
    TypeOK, At, Todo, NextTodo, Swap, PublishedValid, Alone, Exclusive,
    Planned, Placed, Durable, Renamed, Validated, Returned, Synced, Committed,
    SettledJob, Settled
<1>8. ASSUME NEW j \in Jobs, EndSwap(j), UNCHANGED fault PROVE SettledJob(k)'
  BY <1>8 DEF Locked, Unlocked, Running, Broken, Stages, Stored, Verifies,
    TypeOK, At, Goto, SyncDirectory, EndSwap, PublishedValid, Alone,
    Exclusive, Planned, Placed, Durable, Renamed, Validated, Returned, Synced,
    Committed, SettledJob, Settled
<1>9. ASSUME NEW j \in Jobs, Commit(j), UNCHANGED fault PROVE SettledJob(k)'
  BY <1>9 DEF Locked, Unlocked, Running, Broken, Stages, Stored, Verifies,
    TypeOK, At, Goto, Unsynced, Commit, PublishedValid, Alone, Exclusive,
    Planned, Placed, Durable, Renamed, Validated, Returned, Synced, Committed,
    SettledJob, Settled
<1>10. ASSUME NEW j \in Jobs, SyncManifest(j), UNCHANGED fault
      PROVE SettledJob(k)'
  BY <1>10 DEF Locked, Unlocked, Running, Broken, Stages, Stored, Verifies,
    TypeOK, At, Goto, Todo, SyncDirectory, SyncManifest, PublishedValid,
    Alone, Exclusive, Planned, Placed, Durable, Renamed, Validated, Returned,
    Synced, Committed, SettledJob, Settled
<1>11. ASSUME NEW j \in Jobs, NEW n \in Names, Cleanup(j, n), UNCHANGED fault
      PROVE SettledJob(k)'
  BY <1>11 DEF Locked, Unlocked, Running, Broken, Stages, Stored, Verifies,
    TypeOK, At, Todo, NextTodo, Delete, Cleanup, PublishedValid, Alone,
    Exclusive, Planned, Placed, Durable, Renamed, Validated, Returned, Synced,
    Committed, SettledJob, Settled
<1>12. ASSUME NEW j \in Jobs, EndCleanup(j), UNCHANGED fault
      PROVE SettledJob(k)'
  BY <1>12 DEF Locked, Unlocked, Running, Broken, Stages, Stored, Verifies,
    TypeOK, At, Goto, SyncDirectory, Unsynced, EndCleanup, PublishedValid,
    Alone, Exclusive, Planned, Placed, Durable, Renamed, Validated, Returned,
    Synced, Committed, SettledJob, Settled
<1>13. ASSUME NEW j \in Jobs, Validate(j), UNCHANGED fault PROVE SettledJob(k)'
  BY <1>13 DEF files, Locked, Unlocked, Running, Broken, Stages, Stored,
    Verifies, TypeOK, At, Goto, PublishedValid, Validate, Alone, Exclusive,
    Planned, Placed, Durable, Renamed, Validated, Returned, Synced, Committed,
    SettledJob, Settled
<1>14. ASSUME NEW j \in Jobs, ReadManifest(j), UNCHANGED fault
      PROVE SettledJob(k)'
  BY <1>14 DEF files, Locked, Unlocked, Running, Broken, Stages, Stored,
    Verifies, TypeOK, At, Goto, PublishedValid, ReadManifest, Alone,
    Exclusive, Planned, Placed, Durable, Renamed, Validated, Returned, Synced,
    Committed, SettledJob, Settled
<1>15. ASSUME NEW j \in Jobs, StampManifest(j), UNCHANGED fault
      PROVE SettledJob(k)'
  BY <1>15 DEF Locked, Unlocked, Running, Broken, Stages, Stored, Verifies,
    TypeOK, At, Goto, Unsynced, PublishedValid, StampManifest, Alone,
    Exclusive, Planned, Placed, Durable, Renamed, Validated, Returned, Synced,
    Committed, SettledJob, Settled
<1>16. ASSUME NEW j \in Jobs, Fail(j), UNCHANGED fault PROVE SettledJob(k)'
  BY <1>16 DEF files, Locked, Unlocked, Running, Broken, Stages, Stored,
    Verifies, TypeOK, Goto, PublishedValid, Forget, Unlock, Fail, Alone,
    Exclusive, Planned, Placed, Durable, Renamed, Validated, Returned, Synced,
    Committed, SettledJob, Settled
<1>17. ASSUME PowerLoss, UNCHANGED fault PROVE SettledJob(k)'
  BY <1>17 DEF Locked, Unlocked, Running, Broken, Stages, Stored, Verifies,
    TypeOK, PublishedValid, Forget, PowerLoss, Alone, Exclusive, Planned,
    Placed, Durable, Renamed, Validated, Returned, Synced, Committed,
    SettledJob, Settled
<1>18. CASE UNCHANGED vars
  BY <1>18 DEF vars, files, locals, Stored, Verifies, PublishedValid, Alone,
    Validated, Returned, Synced, Committed, SettledJob, Settled
<1> QED
  BY <1>1, <1>2, <1>3, <1>4, <1>5, <1>6, <1>7, <1>8, <1>9, <1>10, <1>11, <1>12,
     <1>13, <1>14, <1>15, <1>16, <1>17, <1>18 DEF Next, JobStep

(* Every step of a job that is alone and reads its manifest keeps what is  *)
(* published, and what losing power may bring back.                        *)
LEMMA KeptStep ==
  ASSUME TypeOK, Exclusive, Planned, Renamed, Settled, Kept, [Next]_vars
  PROVE  Kept'
<1> USE LocalAssumption, PlanType, NamedType, AloneStep
<1>1. ASSUME NEW j \in Jobs, Start(j), UNCHANGED fault PROVE Kept'
  BY <1>1 DEF files, Locked, Unlocked, Running, Broken, Stages, Stored, Named,
    Verifies, TypeOK, Goto, Todo, Start, PublishedValid, Alone, Exclusive,
    Planned, Placed, Durable, Renamed, Validated, Returned, Synced, Committed,
    SettledJob, Settled, Kept
<1>2. ASSUME NEW j \in Jobs, Build(j), UNCHANGED fault PROVE Kept'
  BY <1>2 DEF files, Locked, Unlocked, Running, Broken, Stages, Stored, Named,
    Verifies, TypeOK, At, Goto, Build, PublishedValid, Alone, Exclusive,
    Planned, Placed, Durable, Renamed, Validated, Returned, Synced, Committed,
    SettledJob, Settled, Kept
<1>3. ASSUME NEW j \in Jobs, Preflight(j), UNCHANGED fault PROVE Kept'
  BY <1>3 DEF files, Locked, Unlocked, Running, Broken, Stages, Stored, Named,
    Verifies, TypeOK, At, Goto, Todo, ReadablePaths, Preflight,
    PublishedValid, Alone, Exclusive, Planned, Placed, Durable, Renamed,
    Validated, Returned, Synced, Committed, SettledJob, Settled, Kept
<1>4. ASSUME NEW j \in Jobs, NEW n \in Names, Sweep(j, n), UNCHANGED fault
      PROVE Kept'
  BY <1>4 DEF Locked, Unlocked, Running, Broken, Stages, Stored, Named,
    Verifies, TypeOK, At, Todo, NextTodo, Delete, Sweep, PublishedValid,
    Alone, Exclusive, Planned, Placed, Durable, Renamed, Validated, Returned,
    Synced, Committed, SettledJob, Settled, Kept
<1>5. ASSUME NEW j \in Jobs, EndSweep(j), UNCHANGED fault PROVE Kept'
  BY <1>5 DEF Locked, Unlocked, Running, Broken, Stages, Stored, Named,
    Verifies, TypeOK, At, Goto, SyncDirectory, EndSweep, PublishedValid,
    Alone, Exclusive, Planned, Placed, Durable, Renamed, Validated, Returned,
    Synced, Committed, SettledJob, Settled, Kept
<1>6. ASSUME NEW j \in Jobs, Close(j), UNCHANGED fault PROVE Kept'
  BY <1>6 DEF files, Locked, Unlocked, Running, Broken, Stages, Stored, Named,
    Verifies, TypeOK, At, Goto, Todo, ReadablePaths, Close, PublishedValid,
    Alone, Exclusive, Planned, Placed, Durable, Renamed, Validated, Returned,
    Synced, Committed, SettledJob, Settled, Kept
<1>7. ASSUME NEW j \in Jobs, NEW n \in Names, Swap(j, n), UNCHANGED fault
      PROVE Kept'
  BY <1>7 DEF Locked, Unlocked, Running, Broken, Stages, Stored, Named,
    Verifies, TypeOK, At, Todo, NextTodo, Swap, PublishedValid, Alone,
    Exclusive, Planned, Placed, Durable, Renamed, Validated, Returned, Synced,
    Committed, SettledJob, Settled, Kept
<1>8. ASSUME NEW j \in Jobs, EndSwap(j), UNCHANGED fault PROVE Kept'
  BY <1>8 DEF Locked, Unlocked, Running, Broken, Stages, Stored, Named,
    Verifies, TypeOK, At, Goto, SyncDirectory, EndSwap, PublishedValid, Alone,
    Exclusive, Planned, Placed, Durable, Renamed, Validated, Returned, Synced,
    Committed, SettledJob, Settled, Kept
<1>9. ASSUME NEW j \in Jobs, Commit(j), UNCHANGED fault PROVE Kept'
  BY <1>9 DEF Locked, Unlocked, Running, Broken, Stages, Stored, Named,
    Verifies, TypeOK, At, Goto, Unsynced, Commit, PublishedValid, Alone,
    Exclusive, Planned, Placed, Durable, Renamed, Validated, Returned, Synced,
    Committed, SettledJob, Settled, Kept
<1>10. ASSUME NEW j \in Jobs, SyncManifest(j), UNCHANGED fault PROVE Kept'
  BY <1>10 DEF Locked, Unlocked, Running, Broken, Stages, Stored, Named,
    Verifies, TypeOK, At, Goto, Todo, SyncDirectory, SyncManifest,
    PublishedValid, Alone, Exclusive, Planned, Placed, Durable, Renamed,
    Validated, Returned, Synced, Committed, SettledJob, Settled, Kept
<1>11. ASSUME NEW j \in Jobs, NEW n \in Names, Cleanup(j, n), UNCHANGED fault
      PROVE Kept'
  BY <1>11 DEF Locked, Unlocked, Running, Broken, Stages, Stored, Named,
    Verifies, TypeOK, At, Todo, NextTodo, Delete, Cleanup, PublishedValid,
    Alone, Exclusive, Planned, Placed, Durable, Renamed, Validated, Returned,
    Synced, Committed, SettledJob, Settled, Kept
<1>12. ASSUME NEW j \in Jobs, EndCleanup(j), UNCHANGED fault PROVE Kept'
  BY <1>12 DEF Locked, Unlocked, Running, Broken, Stages, Stored, Named,
    Verifies, TypeOK, At, Goto, SyncDirectory, Unsynced, EndCleanup,
    PublishedValid, Alone, Exclusive, Planned, Placed, Durable, Renamed,
    Validated, Returned, Synced, Committed, SettledJob, Settled, Kept
<1>13. ASSUME NEW j \in Jobs, Validate(j), UNCHANGED fault PROVE Kept'
  BY <1>13 DEF files, Locked, Unlocked, Running, Broken, Stages, Stored,
    Named, Verifies, TypeOK, At, Goto, PublishedValid, Validate, Alone,
    Exclusive, Planned, Placed, Durable, Renamed, Validated, Returned, Synced,
    Committed, SettledJob, Settled, Kept
<1>14. ASSUME NEW j \in Jobs, ReadManifest(j), UNCHANGED fault PROVE Kept'
  BY <1>14 DEF files, Locked, Unlocked, Running, Broken, Stages, Stored,
    Named, Verifies, TypeOK, At, Goto, PublishedValid, ReadManifest, Alone,
    Exclusive, Planned, Placed, Durable, Renamed, Validated, Returned, Synced,
    Committed, SettledJob, Settled, Kept
<1>15. ASSUME NEW j \in Jobs, StampManifest(j), UNCHANGED fault PROVE Kept'
  BY <1>15 DEF Locked, Unlocked, Running, Broken, Stages, Stored, Named,
    Verifies, TypeOK, At, Goto, Unsynced, PublishedValid, StampManifest,
    Alone, Exclusive, Planned, Placed, Durable, Renamed, Validated, Returned,
    Synced, Committed, SettledJob, Settled, Kept
<1>16. ASSUME NEW j \in Jobs, Fail(j), UNCHANGED fault PROVE Kept'
  BY <1>16 DEF files, Locked, Unlocked, Running, Broken, Stages, Stored,
    Named, Verifies, TypeOK, Goto, PublishedValid, Forget, Unlock, Fail,
    Alone, Exclusive, Planned, Placed, Durable, Renamed, Validated, Returned,
    Synced, Committed, SettledJob, Settled, Kept
<1>17. ASSUME PowerLoss, UNCHANGED fault PROVE Kept'
  BY <1>17 DEF Locked, Unlocked, Running, Broken, Stages, Stored, Named,
    Verifies, TypeOK, PublishedValid, Forget, PowerLoss, Alone, Exclusive,
    Planned, Placed, Durable, Renamed, Validated, Returned, Synced, Committed,
    SettledJob, Settled, Kept
<1>18. CASE UNCHANGED vars
  BY <1>18 DEF vars, files, locals, Stored, Named, Alone, Kept
<1> QED
  BY <1>1, <1>2, <1>3, <1>4, <1>5, <1>6, <1>7, <1>8, <1>9, <1>10, <1>11, <1>12,
     <1>13, <1>14, <1>15, <1>16, <1>17, <1>18 DEF Next, JobStep

(* The initial states are in the invariant.                                *)
LEMMA InitIInv == Init => IInv
<1> SUFFICES ASSUME Init PROVE IInv
  OBVIOUS
<1> USE LocalAssumption
<1>1. TypeOK
  BY DEF Init, TypeOK, Stages
<1>2. Exclusive /\ Planned /\ Renamed
  BY DEF Init, Exclusive, Planned, Renamed, Locked, Running, Unlocked
<1>3. Settled
  BY DEF Init, Settled, SettledJob, Committed, Synced, Returned, Validated
<1>4. Kept
  BY DEF Init, Kept, Named
<1> QED
  BY <1>1, <1>2, <1>3, <1>4 DEF IInv

(* The invariant is inductive.                                             *)
LEMMA StepIInv == IInv /\ [Next]_vars => IInv'
BY TypeStep, LockStep, RenamedStep, SettledStep, KeptStep DEF IInv

LEMMA Invariance == Spec => []IInv
BY InitIInv, StepIInv, PTL DEF Spec

(* Theorem: when run_job returns to a job that had the directory to        *)
(* itself, the manifest in force is the one it planned, every file that it *)
(* names verifies, and there is no other - whatever went wrong before,     *)
(* with any candidates and any number of attempts.                         *)
THEOREM ReturnsExactly == Spec => []SuccessIsExact
<1>1. ASSUME IInv PROVE SuccessIsExact
  <2> SUFFICES ASSUME Alone, NEW j \in Jobs, pc[j] = "succeeded"
               PROVE  /\ manifest = plan[j] /\ Verifies(manifest)
                      /\ Stored = DOMAIN manifest
    BY <1>1 DEF IInv, SuccessIsExact
  <2>1. manifest = plan[j] /\ PublishedValid
    BY <1>1 DEF IInv, Settled, SettledJob, Committed, Synced, Returned,
      Validated
  <2>2. manifest \in Plans
    BY <1>1, <2>1 DEF IInv, TypeOK, PublishedValid
  <2>3. DOMAIN manifest \subseteq Stored
    BY <2>1, <2>2, PlanType DEF PublishedValid, Verifies, Stored
  <2> QED
    BY <2>1, <2>3 DEF PublishedValid
<1> QED
  BY <1>1, Invariance, PTL

(* Theorem: as long as manifest.json can be read, no step of a job that    *)
(* has the directory to itself - sweep, cleanup, failure or a loss of      *)
(* power - takes away a file that the manifest in force names.  The        *)
(* assumption is what LocalPublish_unreadable shows to be necessary.       *)
THEOREM NothingPublishedIsLost ==
  ASSUME "unreadable" \notin Faults
  PROVE  Spec => []PublishedNeverRemoved
<1>1. IInv => PublishedNeverRemoved
  BY DEF IInv, TypeOK, Kept, PublishedNeverRemoved
<1> QED
  BY <1>1, Invariance, PTL

(* Theorem: of any number of jobs started on one directory, each replaces  *)
(* manifest.json only with its own candidate and only over the files that  *)
(* candidate names, which have its contents and are durable.               *)
THEOREM CommitsOverDurableFiles == Spec => CommitIsWhole
<1>1. ASSUME IInv, [Next]_vars
      PROVE  [\A j \in Jobs : pc[j] = "commit" /\ pc'[j] = "sync"
                => /\ manifest' = plan[j]
                   /\ \A n \in DOMAIN plan[j] :
                        plan[j][n] = store[n] /\ store[n] = disk[n]]_vars
  <2> SUFFICES ASSUME NEW j \in Jobs, pc[j] = "commit", pc'[j] = "sync"
               PROVE  manifest' = plan[j] /\ Durable(j)
    BY DEF Durable
  <2>1. Durable(j)
    BY <1>1 DEF IInv, Renamed
  <2>2. manifest' = plan[j]
    BY <1>1 DEF IInv, TypeOK, Next, vars, locals, JobStep, At, Goto, Start,
      Build,
      Preflight, Sweep, EndSweep, Close, Swap, EndSwap, Commit, SyncManifest,
      Cleanup, EndCleanup, Validate, ReadManifest, StampManifest, Fail,
      PowerLoss, Delete, Running, Locked, Unlocked
  <2> QED
    BY <2>1, <2>2
<1> QED
  BY <1>1, Invariance, PTL DEF Spec, CommitIsWhole

-----------------------------------------------------------------------------
(* Some job is between its start and its end.                              *)
Busy == \E j \in Jobs : pc[j] \in Running

(* Nobody but the job at hand is in the directory.                         *)
LEMMA OnlyJob ==
  ASSUME TypeOK, Alone, NEW j \in Jobs, pc[j] # "away",
         NEW k \in Jobs, k # j
  PROVE  pc[k] = "away"
BY DEF Alone

(* Whatever it does between its start and its end, a consumer is served    *)
(* the manifest in force or nothing.                                       *)
LEMMA WorkingStep ==
  ASSUME manifest' = manifest, Busy, Busy'
  PROVE  Abstract!Next
<1>1. Served' \in {manifest', Absent}
  BY DEF Served
<1>2. CASE Served' = Absent
  BY <1>2 DEF Abstract!Next, Abstract!Disturb, Busy
<1>3. CASE Served' = manifest'
  BY <1>3 DEF Abstract!Next, Abstract!Restore, Busy
<1> QED
  BY <1>1, <1>2, <1>3

(* Every step of a job that is alone is a step of the abstract publisher,  *)
(* or leaves all that it speaks of alone; a loss of power is no such step. *)
LEMMA AbstractStep ==
  ASSUME IInv, [Next]_vars, Alone, ~PowerLoss
  PROVE  [Abstract!Next]_(Abstract!vars)
<1> USE DEF IInv, Served, Verifies
<1>1. ASSUME NEW j \in Jobs, Start(j) PROVE [Abstract!Next]_(Abstract!vars)
  <2>1. ~Busy
    BY <1>1, OnlyJob DEF Start, Busy, Running, Locked, Unlocked
  <2>2. CASE lock = Absent
    <3>1. Busy'
      BY <1>1, <2>2 DEF Start, TypeOK, Goto, Busy, Running, Locked
    <3> QED
      BY <1>1, <2>1, <3>1 DEF Start, files, Abstract!Next, Abstract!Begin, Busy
  <2>3. CASE lock # Absent
    <3>1. ~Busy'
      BY <1>1, <2>1, <2>3
      DEF Start, TypeOK, Goto, Busy, Running, Locked, Unlocked
    <3>2. UNCHANGED <<manifest, Served>>
      BY <1>1 DEF Start, files
    <3> QED
      BY <2>1, <3>1, <3>2 DEF Abstract!vars, Busy
  <2> QED
    BY <2>2, <2>3
<1>2. ASSUME NEW j \in Jobs, JobStep(j) PROVE [Abstract!Next]_(Abstract!vars)
  <2>1. Busy
    BY <1>2 DEF JobStep, Build, Preflight, Sweep, EndSweep, Close, Swap,
      EndSwap,
      Commit, SyncManifest, Cleanup, EndCleanup, Validate, ReadManifest,
      StampManifest, At, Busy, Running, Locked, Unlocked
  <2>2. CASE Build(j) \/ Preflight(j) \/ EndSweep(j) \/ Close(j) \/ EndSwap(j)
             \/ SyncManifest(j) \/ EndCleanup(j) \/ ReadManifest(j)
    <3>1. Busy' /\ manifest' = manifest
      BY <2>2 DEF Build, Preflight, EndSweep, Close, EndSwap, SyncManifest,
        EndCleanup, ReadManifest, TypeOK, Goto, Busy, Running, Locked, Unlocked,
        files
    <3> QED
      BY <2>1, <3>1, WorkingStep
  <2>3. CASE \E n \in Names : Sweep(j, n) \/ Swap(j, n) \/ Cleanup(j, n)
    <3>1. Busy' /\ manifest' = manifest
      BY <2>1, <2>3 DEF Sweep, Swap, Cleanup, Delete, Busy
    <3> QED
      BY <2>1, <3>1, WorkingStep
  <2>4. CASE Commit(j)
    <3>1. plan[j] \in Plans /\ manifest' = plan[j] /\ store' = store
      BY <2>4 DEF Commit, At, Planned, Running, Locked
    <3>2. Served' = plan[j]
      BY <2>4, <3>1, PlanType DEF Commit, At, Renamed, Durable
    <3>3. Busy'
      BY <2>4 DEF Commit, TypeOK, Goto, Busy, Running, Locked
    <3>4. \E r \in Plans : Abstract!Commit(r)
      BY <2>1, <3>1, <3>2, <3>3 DEF Abstract!Commit, Busy
    <3> QED
      BY <3>4 DEF Abstract!Next
  <2>5. CASE Validate(j)
    <3>1. UNCHANGED <<manifest, Served>>
      BY <2>5 DEF Validate, files
    <3>2. CASE PublishedValid
      <4>1. Busy'
        BY <2>5, <3>2 DEF Validate, TypeOK, Goto, Busy, Running, Unlocked
      <4> QED
        BY <2>1, <3>1, <4>1, WorkingStep
    <3>3. CASE ~PublishedValid
      <4>1. ~Busy'
        BY <2>5, <3>3, OnlyJob
        DEF Validate, TypeOK, At, Goto, Busy, Running, Locked, Unlocked
      <4> QED
        BY <2>1, <3>1, <4>1 DEF Abstract!Next, Abstract!Abandon, Busy
    <3> QED
      BY <3>2, <3>3
  <2>6. CASE StampManifest(j)
    <3>1. PublishedValid /\ held[j] = manifest /\ manifest = plan[j]
      BY <2>6 DEF StampManifest, At, Settled, SettledJob, Committed, Synced,
        Returned, Validated
    <3>2. UNCHANGED <<manifest, Served>> /\ Served = manifest
      BY <2>6, <3>1 DEF StampManifest, PublishedValid
    <3>3. manifest \in Plans
      BY <2>6, <3>1 DEF StampManifest, At, Planned, Running, Unlocked
    <3>4. ~Busy'
      BY <2>6, OnlyJob
      DEF StampManifest, TypeOK, At, Goto, Busy, Running, Locked, Unlocked
    <3> QED
      BY <2>1, <3>2, <3>3, <3>4 DEF Abstract!Next, Abstract!Succeed, Busy
  <2> QED
    BY <1>2, <2>2, <2>3, <2>4, <2>5, <2>6 DEF JobStep
<1>3. ASSUME NEW j \in Jobs, Fail(j) PROVE [Abstract!Next]_(Abstract!vars)
  <2>1. Busy /\ UNCHANGED <<manifest, Served>>
    BY <1>3 DEF Fail, files, Busy
  <2>2. ~Busy'
    BY <1>3, OnlyJob DEF Fail, TypeOK, Goto, Busy, Running, Locked, Unlocked
  <2> QED
    BY <2>1, <2>2 DEF Abstract!Next, Abstract!Abandon, Busy
<1>4. CASE UNCHANGED vars
  BY <1>4 DEF vars, files, locals, Abstract!vars
<1> QED
  BY <1>1, <1>2, <1>3, <1>4 DEF Next

(* Theorem: a job that has the directory to itself implements              *)
(* ManifestRelease: a consumer that verifies what it reads is served the   *)
(* release in force, whole, or nothing; never a mixture, and a release is  *)
(* committed only when it is complete.                                     *)
THEOREM PublishesReleases == Spec => ImplementsRelease
<1>1. Init => (Alone => Abstract!Init)
  BY DEF Init, Abstract!Init, Served, Running, Locked, Unlocked
<1>2. IInv /\ [Next]_vars
        => [Alone => PowerLoss \/ Abstract!Next]_(Abstract!vars)
  BY AbstractStep
<1> QED
  BY <1>1, <1>2, Invariance, PTL DEF Spec, ImplementsRelease
=============================================================================
