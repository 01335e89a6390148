---------------------------- MODULE StateIngest ----------------------------
(***************************************************************************)
(* Local normalization on a state database that outlives the run:          *)
(* StateStore in state.py, and normalize, _ingest_source,                  *)
(* _eligible_with_metadata and _export in pipeline.py.  A resumed run      *)
(* reuses the rows of earlier runs, which may have had another             *)
(* configuration, seen other files, been interrupted between any two       *)
(* commits, or been written by an older version of the schema.             *)
(*                                                                         *)
(* A content stands for its SHA-256.  A parsed snapshot and its compact    *)
(* projection are <<content, configuration that parsed it>>: whatever else *)
(* they hold is a function of these.  The write lock admits one run.       *)
(*                                                                         *)
(* A definition named Operation_Deviation is a deviation of Operation that *)
(* a property must detect; no specification uses it.                       *)
(***************************************************************************)
EXTENDS Naturals

CONSTANTS Paths,        \* source paths; numbers, for their sorted order
          Contents,     \* what a source file may hold
          Configs,      \* configurations, by config_hash
          Kind,         \* what a configuration makes of a content
          None,         \* no row, no value
          OldSchema,    \* the configuration of a version 1 snapshot
          BatchItems    \* _INGEST_BATCH_ITEMS

ASSUME IngestAssumption ==
  /\ Paths \subseteq Nat
  /\ Kind \in [Configs -> [Contents -> {"turn", "other", "malformed"}]]
  /\ None \notin Contents \cup Configs \cup {"unreadable"}
  /\ OldSchema \notin Configs \cup {None}
  /\ BatchItems \in Nat \ {0}

VARIABLES disk,         \* the committed database
          db,           \* the database as the open connection sees it
          pc,
          cfg,          \* configuration of the run
          resume,       \* its --resume flag
          todo,         \* discovered paths not yet ingested
          batch,        \* batch_items
          read,         \* what this run read at each path
          output        \* what the run published, None before

vars == <<disk, db, pc, cfg, resume, todo, batch, read, output>>

Statuses == {"parsed", "failed", "skipped"}
Captures == [sha : Contents \cup {None}, status : Statuses, seen : BOOLEAN]
Snapshots == Contents \X (Configs \cup {OldSchema})
Databases == [version   : {1, 2},
              meta      : Configs \cup {None},
              captures  : [Paths -> Captures \cup {None}],
              snapshots : [Paths -> Snapshots \cup {None}],
              metadata  : [Paths -> Snapshots \cup {None}]]

Running == {"open", "version", "check", "stamp", "discover", "ingest", "finish",
            "project", "build", "export"}
Stages  == Running \cup {"idle", "failed", "published"}

(* A row of a table is told from none.                                     *)
ASSUME RowAssumption == None \notin Captures /\ None \notin Snapshots

Empty == [p \in Paths |-> None]

TypeOK ==
  /\ disk \in Databases /\ db \in Databases
  /\ pc \in Stages
  /\ cfg \in Configs \cup {None}
  /\ resume \in BOOLEAN
  /\ todo \subseteq Paths
  /\ batch \in 0..BatchItems - 1
  /\ read \in [Paths -> Contents \cup {"unreadable", None}]

(* A new database, or one that version 1 of the schema left behind.        *)
OldDatabases ==
  {[version |-> 1, meta |-> m,
    captures |-> [p \in Paths |->
      IF held[p] = None THEN None
      ELSE [sha |-> held[p], status |-> "parsed", seen |-> FALSE]],
    snapshots |-> [p \in Paths |->
      IF held[p] = None THEN None ELSE <<held[p], OldSchema>>],
    metadata |-> Empty] :
   m \in Configs, held \in [Paths -> Contents \cup {None}]}

NewDatabase == [version |-> 2, meta |-> None, captures |-> Empty,
                snapshots |-> Empty, metadata |-> Empty]

Init ==
  /\ disk \in OldDatabases \cup {NewDatabase}
  /\ db = disk
  /\ pc = "idle" /\ cfg = None /\ resume = FALSE
  /\ todo = {} /\ batch = 0 /\ read = Empty /\ output = None

-----------------------------------------------------------------------------
(* Writes of the open connection, and their commits.                       *)
Write(new) == db' = new /\ UNCHANGED disk
Commit(new) == db' = new /\ disk' = new

Cleared(d) == [d EXCEPT !.captures = Empty, !.snapshots = Empty, !.metadata = Empty]

(* put_snapshot_payload; the update and delete triggers of the snapshots   *)
(* table drop the projection.                                              *)
PutSnapshot(d, p, c) ==
  [d EXCEPT !.snapshots[p] = <<c, cfg>>,
            !.metadata[p] = None,
            !.captures[p] = [sha |-> c, status |-> "parsed", seen |-> TRUE]]

PutDecision_KeepsSnapshot(d, p, sha, status, seen) ==
  [d EXCEPT !.captures[p] = [sha |-> sha, status |-> status, seen |-> seen]]

(* put_failure and put_skipped: no snapshot may survive.                   *)
PutDecision(d, p, sha, status, seen) ==
  [d EXCEPT !.snapshots[p] = None,
            !.metadata[p] = None,
            !.captures[p] = [sha |-> sha, status |-> status, seen |-> seen]]

Matches_AnyContent(d, p, c) ==
  /\ d.captures[p] # None
  /\ d.captures[p].status \in {"parsed", "skipped"}

(* capture_matches: a decided, unchanged source joins the scan.            *)
Matches(d, p, c) ==
  /\ d.captures[p] # None
  /\ d.captures[p].sha = c
  /\ d.captures[p].status \in {"parsed", "skipped"}

Reuse_NotStamped(d, p) == d

Reuse(d, p) == [d EXCEPT !.captures[p].seen = TRUE]

Ingested(d, p, c) ==
  CASE c = "unreadable"              -> PutDecision(d, p, None, "failed", TRUE)
    [] c # "unreadable" /\ Matches(d, p, c) -> Reuse(d, p)
    [] OTHER -> IF Kind[cfg][c] = "malformed"
                THEN PutDecision(d, p, c, "failed", TRUE)
                ELSE PutSnapshot(d, p, c)

-----------------------------------------------------------------------------
Start ==
  /\ pc \notin Running
  /\ pc' = "open"
  /\ cfg' \in Configs
  /\ resume' \in BOOLEAN
  /\ todo' = {} /\ batch' = 0 /\ read' = Empty /\ output' = None
  /\ UNCHANGED <<disk, db>>

(* StateStore.__init__: caches of an incompatible schema are discarded,    *)
(* then the tables are created and the version is stored.                  *)
Open ==
  /\ pc = "open"
  /\ pc' = "version"
  /\ Commit(IF db.version = 2 THEN db ELSE Cleared(db))
  /\ UNCHANGED <<cfg, resume, todo, batch, read, output>>

StoreVersion ==
  /\ pc = "version"
  /\ pc' = "check"
  /\ Commit([db EXCEPT !.version = 2])
  /\ UNCHANGED <<cfg, resume, todo, batch, read, output>>

CheckConfig_AnyHash ==
  /\ pc = "check"
  /\ pc' = "stamp"
  /\ Commit(IF resume THEN db ELSE Cleared(db))
  /\ UNCHANGED <<cfg, resume, todo, batch, read, output>>

(* normalize: reset_ingest, and config_hash, in two transactions.          *)
CheckConfig ==
  /\ pc = "check"
  /\ pc' = "stamp"
  /\ Commit(IF resume /\ db.meta = cfg THEN db ELSE Cleared(db))
  /\ UNCHANGED <<cfg, resume, todo, batch, read, output>>

StampConfig ==
  /\ pc = "stamp"
  /\ pc' = "discover"
  /\ Commit([db EXCEPT !.meta = cfg])
  /\ UNCHANGED <<cfg, resume, todo, batch, read, output>>

(* begin_scan takes a scan id that no row carries, and opens a batch;      *)
(* discover_captures lists the tree.                                       *)
Discover ==
  /\ pc = "discover"
  /\ pc' = "ingest"
  /\ todo' \in SUBSET Paths
  /\ Write([db EXCEPT !.captures = [p \in Paths |->
       IF @[p] = None THEN None ELSE [@[p] EXCEPT !.seen = FALSE]]])
  /\ UNCHANGED <<cfg, resume, batch, read, output>>

Ingest_NeverRotates(p, c) ==
  /\ pc = "ingest"
  /\ p \in todo /\ \A q \in todo : p <= q
  /\ todo' = todo \ {p}
  /\ read' = [read EXCEPT ![p] = c]
  /\ Write(Ingested(db, p, c)) /\ batch' = batch + 1
  /\ UNCHANGED <<pc, cfg, resume, output>>

(* A source that is kept as it is, or cannot be read, does not wait for    *)
(* those before it that are still being parsed.                            *)
Turn(p, c) == \/ \A q \in todo : p <= q
              \/ c = "unreadable"
              \/ Matches(db, p, c)

(* One source, read at last, then rotate_batch.                            *)
Ingest(p, c) ==
  /\ pc = "ingest"
  /\ p \in todo /\ Turn(p, c)
  /\ todo' = todo \ {p}
  /\ read' = [read EXCEPT ![p] = c]
  /\ IF batch + 1 < BatchItems
     THEN Write(Ingested(db, p, c)) /\ batch' = batch + 1
     ELSE Commit(Ingested(db, p, c)) /\ batch' = 0
  /\ UNCHANGED <<pc, cfg, resume, output>>

CloseBatch ==
  /\ pc = "ingest" /\ todo = {}
  /\ pc' = "finish"
  /\ Commit(db)
  /\ batch' = 0
  /\ UNCHANGED <<cfg, resume, todo, read, output>>

(* finish_scan                                                             *)
Unseen(d) == {p \in Paths : d.captures[p] # None /\ ~d.captures[p].seen}

FinishScan ==
  /\ pc = "finish"
  /\ pc' = "project"
  /\ LET keep(table) == [p \in Paths |-> IF p \in Unseen(db) THEN None ELSE table[p]]
     IN Commit([db EXCEPT !.captures = keep(@), !.snapshots = keep(@),
                          !.metadata = keep(@)])
  /\ todo' = Paths
  /\ UNCHANGED <<cfg, resume, batch, read, output>>

(* _eligible_with_metadata: a projection for every snapshot of a turn.     *)
Eligible(p) == db.snapshots[p] # None /\ Kind[cfg][db.snapshots[p][1]] = "turn"

Project(p) ==
  /\ pc = "project"
  /\ p \in todo
  /\ \A q \in todo : p <= q
  /\ todo' = todo \ {p}
  /\ LET new == IF Eligible(p) THEN [db EXCEPT !.metadata[p] = db.snapshots[p]] ELSE db
     IN IF batch + 1 < BatchItems
        THEN Write(new) /\ batch' = batch + 1
        ELSE Commit(new) /\ batch' = 0
  /\ UNCHANGED <<pc, cfg, resume, read, output>>

EndProject ==
  /\ pc = "project" /\ todo = {}
  /\ pc' = "build"
  /\ Commit(db)
  /\ batch' = 0
  /\ UNCHANGED <<cfg, resume, todo, read, output>>

Build ==
  /\ pc = "build"
  /\ pc' = "export"
  /\ UNCHANGED <<disk, db, cfg, resume, todo, batch, read, output>>

(* assign_sub_session_ids found a trajectory it cannot read: its sources   *)
(* that no other trajectory represents become skipped (committed with the  *)
(* assignment), and the run is refused.                                    *)
RefuseBuild(p) ==
  /\ pc = "build"
  /\ Eligible(p)
  /\ pc' = "failed"
  /\ Commit(PutDecision(db, p, db.captures[p].sha, "skipped", FALSE))
  /\ UNCHANGED <<cfg, resume, todo, batch, read, output>>

(* _export: per capture its decision; for a parsed one the view and the    *)
(* body that the trajectories and the lineage are made of.                 *)
View(d, p) == IF d.metadata[p] # None THEN d.metadata[p] ELSE d.snapshots[p]

Published(d) ==
  [p \in {q \in Paths : d.captures[q] # None} |->
     [status |-> d.captures[p].status, sha |-> d.captures[p].sha,
      view |-> View(d, p), body |-> d.snapshots[p]]]

Export ==
  /\ pc = "export"
  /\ pc' = "published"
  /\ output' = Published(db)
  /\ UNCHANGED <<disk, db, cfg, resume, todo, batch, read>>

(* An exception rolls the open batch back; so does the recovery after a    *)
(* crash.                                                                  *)
Stop ==
  /\ pc \in Running
  /\ pc' = "failed"
  /\ db' = disk
  /\ UNCHANGED <<disk, cfg, resume, todo, batch, read, output>>

Next ==
  \/ Start \/ Open \/ StoreVersion \/ CheckConfig \/ StampConfig \/ Discover
  \/ CloseBatch \/ FinishScan \/ EndProject \/ Build \/ Export \/ Stop
  \/ \E p \in Paths : Project(p) \/ RefuseBuild(p)
  \/ \E p \in Paths, c \in Contents \cup {"unreadable"} : Ingest(p, c)

Spec == Init /\ [][Next]_vars

-----------------------------------------------------------------------------
(* What a run on an empty database publishes for the files it read.        *)
Fresh(c) ==
  CASE c = "unreadable" ->
         [status |-> "failed", sha |-> None, view |-> None, body |-> None]
    [] c # "unreadable" /\ Kind[cfg][c] = "malformed" ->
         [status |-> "failed", sha |-> c, view |-> None, body |-> None]
    [] OTHER ->
         [status |-> "parsed", sha |-> c, view |-> <<c, cfg>>, body |-> <<c, cfg>>]

(* Safety: whatever was in the database - rows of another configuration,   *)
(* of deleted or changed files, of interrupted runs, of the old schema - a *)
(* resumed run publishes exactly what a run from scratch would.            *)
PublishedIsFresh ==
  pc = "published" =>
    output = [p \in {q \in Paths : read[q] # None} |-> Fresh(read[p])]

(* Safety: even after a refused build has rewritten decisions, a source    *)
(* that a run publishes as parsed or failed is as a run from scratch would *)
(* publish it; only what a refused build skipped may differ.               *)
PublishedIsCurrent ==
  pc = "published" =>
    \A p \in DOMAIN output :
      output[p].status # "skipped" => output[p] = Fresh(read[p])

(* Safety: a published inventory has one decision for every source of this *)
(* run's scan, under the digest this run read, and none for other sources; *)
(* so it is even after a refused build has rewritten decisions.            *)
EverySourceAccounted ==
  pc = "published" =>
    /\ DOMAIN output = {p \in Paths : read[p] # None}
    /\ \A p \in DOMAIN output :
         output[p].sha = IF read[p] = "unreadable" THEN None ELSE read[p]

(* A capture is marked parsed exactly when its snapshot of the same        *)
(* content exists; a marker without its snapshot would make every later    *)
(* run drop the source.                                                    *)
ParsedHasSnapshot ==
  \A p \in Paths :
    LET parsed == disk.captures[p] # None /\ disk.captures[p].status = "parsed"
    IN /\ parsed <=> disk.snapshots[p] # None
       /\ parsed => disk.snapshots[p][1] = disk.captures[p].sha

(* The recorded config_hash is the configuration of every cached snapshot; *)
(* otherwise a resumed run would mix the semantics of two configurations.  *)
ConfigHonest ==
  \A p \in Paths :
    disk.version = 2 /\ disk.snapshots[p] # None
      => disk.snapshots[p][2] = disk.meta

(* Safety: whatever state a crash leaves on disk, the next run can trust   *)
(* its rows: markers, snapshots and configuration agree.                   *)
DatabaseSound == TypeOK /\ ParsedHasSnapshot /\ ConfigHonest
=============================================================================
