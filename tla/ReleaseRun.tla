----------------------------- MODULE ReleaseRun -----------------------------
(***************************************************************************)
(* From the stored trajectories to a verdict on the published files.  When *)
(* BuildScheduler is done, assign_sub_session_ids of state.py numbers the  *)
(* branches of each session, _export of pipeline.py writes one file per    *)
(* trajectory, the lineage and the counts of the manifest, and             *)
(* validate_output_backend of validation.py reads the files back, at most  *)
(* two per thread and within a budget of bytes, and compares what it has   *)
(* read with the counts.  The sources that form no trajectory (failed,     *)
(* incomplete, excluded, skipped) only count.                              *)
(*                                                                         *)
(* How files reach the store is the matter of S3Output, LocalPublish and   *)
(* S3Publish; here they are published in one step, whole or with damage.   *)
(* A file's contents are what the validator tells apart.                   *)
(*                                                                         *)
(* A definition named Operation_Deviation is a deviation of Operation that *)
(* a property must detect; no specification uses it.                       *)
(***************************************************************************)
EXTENDS BuildScheduler, Bags

CONSTANTS Ids,          \* trajectory ids in their order
          Inputs,       \* source -> what ingest made of it
          SessionOf,    \* id -> session of the trajectory
          Synthesized,  \* ids whose session is a placeholder
          CreatedAt,    \* representative key -> created_at of the payload
          Bytes,        \* id -> bytes of its row
          ShardLimits,  \* max_shard_bytes settings
          AuditWorkers, \* validation_workers settings
          PendingLimit, \* max_pending_bytes
          Foreign       \* id of a trajectory of another release

Outcomes == {"eligible", "failed", "incomplete", "excluded", "skipped"}

(* Ids lists each trajectory once.  The roots' sources are the captures    *)
(* that aggregation took, and each root has its leaf, which is a source of *)
(* no other root.  A real session is never called like the placeholder     *)
(* (normalize_session_id of identity.py).                                   *)
ASSUME ReleaseAssumption ==
  /\ Ids \in Seq(STRING)
  /\ \A m, n \in 1..Len(Ids) : Ids[m] = Ids[n] => m = n
  /\ {Ids[n] : n \in 1..Len(Ids)} = {Roots[i].id : i \in 1..Last}
  /\ \A i \in 1..Last : /\ Bytes[Roots[i].id] \in Nat
                        /\ CreatedAt[Roots[i].key] \in Nat
                        /\ Roots[i].id \in Synthesized \/ SessionOf[Roots[i].id] # "no_session_id"
  /\ IsFiniteSet(DOMAIN Inputs)
  /\ \A s \in DOMAIN Inputs : Inputs[s] \in Outcomes
  /\ {s \in DOMAIN Inputs : Inputs[s] = "eligible"} = UNION {Roots[i].sources : i \in 1..Last}
  /\ \A i \in 1..Last : \E s \in Roots[i].sources :
       \A k \in (1..Last) \ {i} : s \notin Roots[k].sources
  /\ ShardLimits \subseteq Nat /\ AuditWorkers \subseteq Nat \ {0} /\ PendingLimit \in Nat \ {0}
  /\ Foreign \notin {Ids[n] : n \in 1..Len(Ids)}

VARIABLES phase,
          discarded,    \* rows that assign_sub_session_ids has deleted
          status,       \* captures: source -> outcome
          skipped,      \* its count of skipped sources
          number,       \* sub_session_id in the payload of each row
          unusable,     \* whether a row could not be read for the export, or
                        \* has a session id that makes no file name
          shardLimit,   \* max_shard_bytes of the export, Unknown before it
          manifest,     \* the candidate
          setting,      \* of the validation: threads, row limit
          objects,      \* what the store has under each name of the manifest
          unlisted,     \* JSONL files beside them
          opened,       \* files submitted to the pool
          window,       \* futures, oldest first
          scanned,      \* files whose future is done
          late,         \* the wait for the oldest has just timed out
          pendingBytes,
          observed      \* the merged accumulator

numbering == <<discarded, status, skipped, number>>
release == <<manifest, unusable, shardLimit>>
published == <<setting, objects, unlisted>>
scan == <<opened, window, scanned, late, pendingBytes, observed>>
releaseVars == <<phase, numbering, release, published, scan>>

Nothing == [ ids |-> EmptyBag, lineageIds |-> EmptyBag, covered |-> {},
             accepted |-> 0, quarantined |-> 0, lineageRows |-> 0, duplicates |-> 0,
             reasons |-> 0, trajectoriesValid |-> TRUE, lineageValid |-> TRUE, errors |-> 0 ]

ReleaseInit ==
  /\ Init
  /\ phase = "build"
  /\ discarded = {} /\ status = Inputs /\ skipped = 0 /\ number = <<>>
  /\ manifest = [files |-> <<>>] /\ unusable = FALSE /\ shardLimit = Unknown
  /\ setting = Unknown /\ objects = <<>> /\ unlisted = "none"
  /\ opened = 0 /\ window = <<>> /\ scanned = {} /\ late = FALSE
  /\ pendingBytes = 0 /\ observed = Nothing

-----------------------------------------------------------------------------
(* Numbering                                                               *)
Rows == DOMAIN trajectories \ discarded
Origins(t) == {o.source : o \in {r \in origins : r.id = t}}
Strict(t) == trajectories[t][1] = 0
Rank(t) == CHOOSE n \in 1..Len(Ids) : Ids[n] = t

(* _discard_trajectories: the rows go; their sources are skipped unless    *)
(* another row represents them.                                            *)
Discard_RowsOnly(bad) ==
  /\ discarded' = discarded \cup bad
  /\ UNCHANGED <<status, skipped>>

Discard(bad) ==
  LET kept == UNION {Origins(t) : t \in Rows \ bad}
      lost == {s \in (UNION {Origins(t) : t \in bad}) \ kept : status[s] = "eligible"}
  IN /\ discarded' = discarded \cup bad
     /\ status' = [s \in DOMAIN status |-> IF s \in lost THEN "skipped" ELSE status[s]]
     /\ skipped' = skipped + Cardinality(lost)

(* The order of branches: created_at of the payload, then the id.          *)
Earlier_SharedRank(t, u) ==
  CreatedAt[trajectories[t][2]] < CreatedAt[trajectories[u][2]]

Earlier(t, u) ==
  LET made(r) == CreatedAt[trajectories[r][2]]
  IN made(t) < made(u) \/ (made(t) = made(u) /\ Rank(t) < Rank(u))

Ordinal(t) ==
  IF t \in Synthesized THEN 0
  ELSE Cardinality({u \in Rows \ Synthesized : SessionOf[u] = SessionOf[t] /\ Earlier(u, t)})

(* Every row is read, then every row is rewritten with its number; a row   *)
(* that cannot be read either time is discarded and all begins again.      *)
ReadRows(bad) ==
  /\ (phase = "build" /\ pc = "done") \/ phase = "number"
  /\ IF bad = {} THEN phase' = "rewrite" /\ UNCHANGED <<discarded, status, skipped>>
                 ELSE phase' = "number" /\ Discard(bad)
  /\ UNCHANGED <<number, release, published, scan>>

RewriteRows(bad) ==
  /\ phase = "rewrite"
  /\ number' = [t \in Rows |-> Ordinal(t)]
  /\ IF bad # {} THEN phase' = "number" /\ Discard(bad)
     ELSE /\ phase' = IF skipped > 0 THEN "refused" ELSE "export"
          /\ UNCHANGED <<discarded, status, skipped>>
  /\ UNCHANGED <<release, published, scan>>

-----------------------------------------------------------------------------
(* Export                                                                  *)
Name(t) == IF t \in Synthesized THEN [session |-> "no_session_id", branch |-> t]
           ELSE [session |-> SessionOf[t], branch |-> number[t]]

(* write_trajectory and trajectory_filename raise otherwise.               *)
Writable(limit) ==
  /\ \A t \in Rows : Bytes[t] <= limit
  /\ \A t, u \in Rows : Name(t) = Name(u) => t = u

Of(outcomes) == {s \in DOMAIN status : status[s] \in outcomes}
Records == Of({"failed", "incomplete", "excluded"})

(* Rows in the order of their ids; the sources that rows have, and those   *)
(* of them beyond the first of each row.                                   *)
Listing(rows) ==
  CHOOSE ids \in [1..Cardinality(rows) -> rows] :
    \A m, n \in DOMAIN ids : m < n => Rank(ids[m]) < Rank(ids[n])

Links(rows) == {<<o.id, o.source>> : o \in {r \in origins : r.id \in rows}}
Duplicates(rows) == Cardinality(Links(rows)) - Cardinality(rows)

Files ==
  LET ids == Listing(Rows)
  IN Append([n \in DOMAIN ids |-> [kind |-> "trajectory", id |-> ids[n], bytes |-> Bytes[ids[n]]]],
            [kind |-> "lineage", id |-> "lineage", bytes |-> Cardinality(Links(Rows))])

Candidate ==
  [ files       |-> Files,
    inputs      |-> Cardinality(DOMAIN status),
    skipped     |-> Cardinality(Of({"skipped"})),
    records     |-> Cardinality(Records),
    excluded    |-> Cardinality(Of({"excluded"})),
    failures    |-> Cardinality(Of({"failed"})),
    accepted    |-> Cardinality({t \in Rows : Strict(t)}),
    quarantined |-> Cardinality({t \in Rows : ~Strict(t)}),
    duplicates  |-> Duplicates(Rows),
    reasons     |-> Cardinality({t \in Rows : ~Strict(t)}) + Cardinality(Records) ]

(* _export in one step: nobody else sees the staged files.                 *)
Export(limit, bad) ==
  /\ phase = "export"
  /\ unusable' = bad /\ shardLimit' = limit
  /\ IF bad \/ ~Writable(limit) THEN phase' = "aborted" /\ UNCHANGED <<manifest, setting>>
     ELSE /\ phase' = "publish"
          /\ manifest' = Candidate
          /\ setting' \in {[workers |-> w, limit |-> limit] : w \in AuditWorkers}
                          \cup {[workers |-> 1, limit |-> Unknown]}
  /\ UNCHANGED <<numbering, objects, unlisted, scan>>

(* The manifest's own contract, without which no file is opened.           *)
WellFormed ==
  /\ manifest.excluded <= manifest.records
  /\ manifest.failures <= Least(manifest.inputs, manifest.records + manifest.skipped)

(* The files reach the store; at most one trajectory and the lineage are   *)
(* lost, are older files of the same name, or break off in their first row *)
(* when they are read.  A local directory has been cleaned; on S3 the      *)
(* files listed before the job are ignored, and the listing may fail.      *)
Damages == {"missing", "foreign", "broken"}

Local == setting.limit = Unknown

Publish ==
  /\ phase = "publish"
  /\ phase' = IF WellFormed THEN "audit" ELSE "rejected"
  /\ LET whole == [i \in DOMAIN manifest.files |-> "whole"]
     IN \E i \in DOMAIN whole : \E d, e \in Damages \cup {"whole"} :
          objects' = [whole EXCEPT ![Len(manifest.files)] = e, ![i] = d]
  /\ unlisted' \in {"none", "late", "unknown"} \cup (IF Local THEN {} ELSE {"before"})
  /\ UNCHANGED <<numbering, release, setting, scan>>

-----------------------------------------------------------------------------
(* Validation                                                              *)
File(i) == manifest.files[i]

(* What one file adds to the accumulator: _validate_manifest_file.         *)
ScanTrajectory(i) ==
  CASE objects[i] = "missing" -> [Nothing EXCEPT !.trajectoriesValid = FALSE, !.errors = 1]
    [] objects[i] = "broken"  -> [Nothing EXCEPT !.trajectoriesValid = FALSE, !.errors = 1]
    [] objects[i] = "foreign" ->
         [Nothing EXCEPT !.ids = SetToBag({Foreign}), !.accepted = 1, !.errors = 1]
    [] objects[i] = "whole"   ->
         LET t == File(i).id
         IN [Nothing EXCEPT !.ids = SetToBag({t}),
                            !.accepted = IF Strict(t) THEN 1 ELSE 0,
                            !.quarantined = IF Strict(t) THEN 0 ELSE 1,
                            !.reasons = IF Strict(t) THEN 0 ELSE 1]

(* A lineage row longer than the row limit is counted and not decoded.     *)
Legible(t) == Local \/ Cardinality(Origins(t)) <= setting.limit

ScanLineage(i) ==
  LET read == {t \in Rows : Legible(t)}
  IN CASE objects[i] = "missing" -> [Nothing EXCEPT !.lineageValid = FALSE, !.errors = 1]
       [] objects[i] = "broken"  -> [Nothing EXCEPT !.lineageValid = FALSE, !.errors = 1]
       [] objects[i] = "foreign" ->
            [Nothing EXCEPT !.lineageIds = SetToBag({Foreign}), !.lineageRows = 1,
                            !.covered = {"foreign"}, !.errors = 1]
       [] objects[i] = "whole"   ->
            [Nothing EXCEPT !.lineageIds = SetToBag(read),
                            !.lineageRows = Cardinality(Rows),
                            !.covered = UNION {Origins(t) : t \in read},
                            !.duplicates = Duplicates(read),
                            !.lineageValid = read = Rows,
                            !.errors = Cardinality(Rows \ read)]

Scan(i) == IF File(i).kind = "lineage" THEN ScanLineage(i) ELSE ScanTrajectory(i)

(* _merge_observed and errors.extend                                       *)
Merge(a, b) ==
  [ ids |-> a.ids (+) b.ids, lineageIds |-> a.lineageIds (+) b.lineageIds,
    covered |-> a.covered \cup b.covered,
    accepted |-> a.accepted + b.accepted, quarantined |-> a.quarantined + b.quarantined,
    lineageRows |-> a.lineageRows + b.lineageRows, duplicates |-> a.duplicates + b.duplicates,
    reasons |-> a.reasons + b.reasons,
    trajectoriesValid |-> a.trajectoriesValid /\ b.trajectoriesValid,
    lineageValid |-> a.lineageValid /\ b.lineageValid,
    errors |-> a.errors + b.errors ]

Weight(i) ==
  LET bytes == Greatest(1, File(i).bytes)
  IN IF File(i).kind = "trajectory" \/ Local THEN bytes ELSE Least(bytes, setting.limit)

Serial1 == setting.workers = 1 \/ Len(manifest.files) <= 1

ScanNext ==
  /\ phase = "audit" /\ Serial1
  /\ opened < Len(manifest.files)
  /\ opened' = opened + 1
  /\ observed' = Merge(observed, Scan(opened + 1))
  /\ UNCHANGED <<phase, numbering, release, published, window, scanned, late, pendingBytes>>

CanOpen_EachAlone ==
  /\ opened < Len(manifest.files)
  /\ Len(window) < 2 * setting.workers
  /\ window = <<>> \/ Weight(opened + 1) <= PendingLimit

CanOpen ==
  /\ opened < Len(manifest.files)
  /\ Len(window) < 2 * setting.workers
  /\ window = <<>> \/ pendingBytes + Weight(opened + 1) <= PendingLimit

OpenFile ==
  /\ phase = "audit" /\ ~Serial1 /\ ~late
  /\ CanOpen
  /\ opened' = opened + 1
  /\ window' = Append(window, opened + 1)
  /\ pendingBytes' = pendingBytes + Weight(opened + 1)
  /\ UNCHANGED <<phase, numbering, release, published, scanned, late, observed>>

(* A pool thread ends a file; the pool takes them in order.                *)
InWindow == {window[k] : k \in DOMAIN window}

EndFile(i) ==
  /\ phase \in {"audit", "leaving"}
  /\ i \in InWindow \ scanned
  /\ Cardinality({k \in InWindow \ scanned : k < i}) < setting.workers
  /\ scanned' = scanned \cup {i}
  /\ UNCHANGED <<phase, numbering, release, published, opened, window, late,
                 pendingBytes, observed>>

Waiting == phase = "audit" /\ window # <<>> /\ ~CanOpen

MergeOldest ==
  /\ Waiting /\ ~late
  /\ Head(window) \in scanned
  /\ window' = Tail(window)
  /\ pendingBytes' = pendingBytes - Weight(Head(window))
  /\ observed' = Merge(observed, Scan(Head(window)))
  /\ UNCHANGED <<phase, numbering, release, published, opened, scanned, late>>

(* future.result(timeout) gives up; a future that is done by the time the  *)
(* handler asks is taken for one that raised.                              *)
TimeOut ==
  /\ Waiting /\ ~late
  /\ Head(window) \notin scanned
  /\ late' = TRUE
  /\ UNCHANGED <<phase, numbering, release, published, opened, window, scanned,
                 pendingBytes, observed>>

AskAgain ==
  /\ phase = "audit" /\ late
  /\ late' = FALSE
  /\ phase' = IF Head(window) \in scanned THEN "leaving" ELSE "audit"
  /\ UNCHANGED <<numbering, release, published, opened, window, scanned,
                 pendingBytes, observed>>

(* The exception leaves the pool when its threads have ended.              *)
Leave ==
  /\ phase = "leaving"
  /\ InWindow \subseteq scanned
  /\ phase' = "failed"
  /\ UNCHANGED <<numbering, release, published, scan>>

Unique(bag) == \A t \in BagToSet(bag) : bag[t] = 1

Agrees ==
  /\ Cardinality({i \in DOMAIN manifest.files : File(i).kind = "lineage"}) = 1
  /\ unlisted \in {"none", "before"}
  /\ observed.lineageRows = observed.accepted + observed.quarantined
  /\ observed.trajectoriesValid /\ observed.lineageValid => observed.ids = observed.lineageIds
  /\ Unique(observed.ids) /\ Unique(observed.lineageIds)
  /\ Cardinality(observed.covered) + manifest.skipped + manifest.records = manifest.inputs
  /\ observed.accepted = manifest.accepted /\ observed.quarantined = manifest.quarantined
  /\ observed.lineageValid => observed.duplicates = manifest.duplicates
  /\ observed.reasons + manifest.records <= manifest.reasons

Conclude ==
  /\ phase = "audit"
  /\ opened = Len(manifest.files) /\ window = <<>>
  /\ phase' = IF Agrees /\ observed.errors = 0 THEN "accepted" ELSE "rejected"
  /\ UNCHANGED <<numbering, release, published, scan>>

-----------------------------------------------------------------------------
Ended == {"refused", "aborted", "accepted", "rejected", "failed"}

ReleaseStep ==
  \/ \E bad \in SUBSET Rows : ReadRows(bad) \/ RewriteRows(bad)
  \/ \E limit \in ShardLimits, bad \in BOOLEAN : Export(limit, bad)
  \/ Publish \/ ScanNext \/ OpenFile \/ MergeOldest \/ TimeOut \/ AskAgain \/ Leave \/ Conclude

BuildStep == Coordinate /\ UNCHANGED releaseVars
WorkerStep(i) == Finish(i) /\ UNCHANGED releaseVars
MainStep == ReleaseStep /\ UNCHANGED vars
FileStep(i) == EndFile(i) /\ UNCHANGED vars

Positions == 1 .. Len(Ids) + 1

ReleaseNext ==
  \/ BuildStep \/ MainStep
  \/ \E i \in 1..Last : WorkerStep(i)
  \/ \E i \in Positions : FileStep(i)

ReleaseSpec ==
  /\ ReleaseInit /\ [][ReleaseNext]_<<vars, releaseVars>>
  /\ WF_<<vars, releaseVars>>(BuildStep) /\ WF_<<vars, releaseVars>>(MainStep)
  /\ \A i \in 1..Last : WF_<<vars, releaseVars>>(WorkerStep(i))
  /\ \A i \in Positions : WF_<<vars, releaseVars>>(FileStep(i))

-----------------------------------------------------------------------------
(* The files in the store are those of the manifest and nothing was added. *)
Whole ==
  /\ \A i \in DOMAIN objects : objects[i] = "whole"
  /\ unlisted \in {"none", "before"}

(* Every capture of the run is either covered by the lineage or counted.   *)
Complete ==
  /\ Rows = {Roots[i].id : i \in 1..Last}
  /\ UNION {Origins(t) : t \in Rows} = {s \in DOMAIN Inputs : Inputs[s] = "eligible"}
  /\ status = Inputs

(* Safety: a run ends as it deserves.  What validation accepts is whole    *)
(* and complete; what it rejects is not, or has a lineage row above the    *)
(* row limit, which the export does not apply to lineage: for every build  *)
(* the counts of the manifest are those that validation finds in the rows. *)
(* An export that is aborted met an unusable row or one above the limit of *)
(* that very export, never two branches of one name.  Whatever row was     *)
(* discarded, nothing is published without it.                             *)
ReleaseExact ==
  /\ phase = "accepted" => Whole /\ Complete
  /\ phase = "rejected" => ~Whole \/ \E t \in Rows : ~Legible(t)
  /\ phase = "aborted" =>
       unusable \/ \E t \in Rows : Bytes[t] > shardLimit
  /\ phase \in {"export", "publish", "audit"} => discarded = {}

(* The sums of the first weights; what merging the first scans gives.      *)
SumOf(N, w) ==
  LET sum[n \in 0 .. N] == IF n = 0 THEN 0 ELSE sum[n - 1] + w[n]
  IN sum

Accumulated(N, scans) ==
  LET after[n \in 0 .. N] == IF n = 0 THEN Nothing ELSE Merge(after[n - 1], scans[n])
  IN after

Weights == [i \in DOMAIN manifest.files |-> Weight(i)]
Scans == [i \in DOMAIN manifest.files |-> Scan(i)]

(* Safety: the validator has at most two files per thread open, more than  *)
(* one only within the byte budget; its budget counts what is in flight;   *)
(* and results enter the accumulator once each, in the manifest's order.   *)
AuditBounded ==
  phase \in {"audit", "leaving", "accepted", "rejected", "failed"} =>
    /\ Len(window) <= 2 * setting.workers
    /\ LET total == SumOf(Len(manifest.files), Weights)
       IN pendingBytes = total[opened] - total[opened - Len(window)]
    /\ Len(window) > 1 => pendingBytes <= PendingLimit
    /\ window = [k \in 1 .. Len(window) |-> opened - Len(window) + k]
    /\ observed = Accumulated(Len(manifest.files), Scans)[opened - Len(window)]

(* Liveness: a run ends, with whatever memory, worker and file.            *)
ReleaseEnds == <>(pc = "refused" \/ phase \in Ended)
=============================================================================
