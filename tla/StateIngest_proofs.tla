------------------------- MODULE StateIngest_proofs -------------------------
(***************************************************************************)
(* Theorems about StateIngest: whatever runs came before and wherever they *)
(* were interrupted, the rows on disk can be trusted, and a run publishes  *)
(* what it read under its own configuration.                               *)
(***************************************************************************)
EXTENDS StateIngest, TLAPS

(* The rows of one database agree with one another.                        *)
SoundRow(d, p) ==
  /\ (d.captures[p] # None /\ d.captures[p].status = "parsed") <=> d.snapshots[p] # None
  /\ d.snapshots[p] # None =>
       /\ d.snapshots[p][1] = d.captures[p].sha
       /\ d.version = 2 => d.snapshots[p][2] = d.meta
       /\ d.snapshots[p][2] \in Configs =>
            Kind[d.snapshots[p][2]][d.snapshots[p][1]] # "malformed"
  /\ d.metadata[p] # None => d.metadata[p] = d.snapshots[p]

Sound(d) == d \in Databases /\ \A p \in Paths : SoundRow(d, p)

(* The database belongs to the configuration of the run.                   *)
Own(d) == d.version = 2 /\ d.meta = cfg

(* What the run must have decided about a path where it read c.            *)
ShaOf(c) == IF c = "unreadable" THEN None ELSE c
Decided(row, c) ==
  /\ row # None
  /\ row.sha = ShaOf(c)
  /\ row.status = "failed" => c = "unreadable" \/ Kind[cfg][c] = "malformed"

Filling   == {"ingest", "finish"}
Filled    == {"project", "build", "export"}
Preparing == {"open", "version", "check", "stamp", "discover"}

Types ==
  /\ pc \in Stages
  /\ cfg \in Configs \cup {None}
  /\ pc \in Running => cfg \in Configs
  /\ resume \in BOOLEAN
  /\ todo \subseteq Paths
  /\ batch \in 0..BatchItems - 1
  /\ read \in [Paths -> Contents \cup {"unreadable", None}]

(* How far the run has made the database its own.                          *)
Prepared ==
  /\ pc = "version" => db.version = 2 \/ db.snapshots = Empty
  /\ pc \in {"check", "stamp"} => db.version = 2
  /\ pc = "stamp" => db.meta = cfg \/ db.snapshots = Empty
  /\ pc \in {"discover"} \cup Filling \cup Filled => Own(db)

(* The rows of this scan are those of the paths read.                      *)
Scanned ==
  /\ pc \in Preparing => read = Empty
  /\ pc \in Filling \cup Filled =>
       \A p \in Paths : read[p] # None => Decided(db.captures[p], read[p])
  /\ pc \in Filling =>
       \A p \in Paths : db.captures[p] # None =>
         (db.captures[p].seen <=> read[p] # None)
  /\ pc \in Filled =>
       \A p \in Paths : db.captures[p] # None => read[p] # None

Delivered == PublishedIsCurrent /\ EverySourceAccounted

IInv == Types /\ Sound(disk) /\ Sound(db) /\ Prepared /\ Scanned /\ Delivered

-----------------------------------------------------------------------------
(* A database of the type has fields of their types, and conversely.       *)
LEMMA Fields ==
  ASSUME NEW d
  PROVE  d \in Databases =>
           /\ d.version \in {1, 2}
           /\ d.meta \in Configs \cup {None}
           /\ d.captures \in [Paths -> Captures \cup {None}]
           /\ d.snapshots \in [Paths -> Snapshots \cup {None}]
           /\ d.metadata \in [Paths -> Snapshots \cup {None}]
BY DEF Databases

(* Clearing a database keeps it sound and leaves no snapshot.              *)
LEMMA ClearedSound ==
  ASSUME NEW d, Sound(d)
  PROVE  /\ Sound(Cleared(d))
         /\ Cleared(d).version = d.version /\ Cleared(d).meta = d.meta
         /\ Cleared(d).snapshots = Empty
<1> DEFINE e == Cleared(d)
<1>1. d \in Databases
  BY DEF Sound
<1>2. e \in Databases
  BY <1>1 DEF Databases, Cleared, Empty
<1>3. /\ e.version = d.version /\ e.meta = d.meta
      /\ e.captures = Empty /\ e.snapshots = Empty /\ e.metadata = Empty
  BY <1>1 DEF Databases, Cleared
<1>4. ASSUME NEW p \in Paths PROVE SoundRow(e, p)
  <2> HIDE DEF e
  <2> QED BY <1>3 DEF SoundRow, Empty
<1> QED BY <1>2, <1>3, <1>4 DEF Sound

(* A snapshot of the run's own configuration may enter its database.       *)
LEMMA PutSnapshotSound ==
  ASSUME NEW d, Sound(d), Own(d), cfg \in Configs,
         NEW p \in Paths, NEW c \in Contents, Kind[cfg][c] # "malformed",
         NEW e, e = PutSnapshot(d, p, c)
  PROVE  /\ Sound(e) /\ Own(e)
         /\ \A q \in Paths \ {p} : e.captures[q] = d.captures[q]
         /\ e.captures[p] = [sha |-> c, status |-> "parsed", seen |-> TRUE]
<1> DEFINE row == [sha |-> c, status |-> "parsed", seen |-> TRUE]
<1>1. d \in Databases
  BY DEF Sound
<1>2. row \in Captures /\ <<c, cfg>> \in Snapshots
  BY DEF Captures, Snapshots, Statuses
<1>3. row # None /\ <<c, cfg>> # None
  BY <1>2, RowAssumption
<1>4. /\ e.version = d.version /\ e.meta = d.meta
      /\ e.captures = [d.captures EXCEPT ![p] = row]
      /\ e.snapshots = [d.snapshots EXCEPT ![p] = <<c, cfg>>]
      /\ e.metadata = [d.metadata EXCEPT ![p] = None]
  BY <1>1 DEF Databases, PutSnapshot
<1>5. e \in Databases
  <2>1. /\ [d.captures EXCEPT ![p] = row] \in [Paths -> Captures \cup {None}]
        /\ [d.snapshots EXCEPT ![p] = <<c, cfg>>] \in [Paths -> Snapshots \cup {None}]
        /\ [d.metadata EXCEPT ![p] = None] \in [Paths -> Snapshots \cup {None}]
    BY <1>1, <1>2, Fields
  <2>2. e = [d EXCEPT !.snapshots = [d.snapshots EXCEPT ![p] = <<c, cfg>>],
                      !.metadata = [d.metadata EXCEPT ![p] = None],
                      !.captures = [d.captures EXCEPT ![p] = row]]
    BY <1>1 DEF Databases, PutSnapshot
  <2> QED BY <1>1, <2>1, <2>2 DEF Databases
<1>6. ASSUME NEW q \in Paths PROVE SoundRow(e, q)
  <2>0. SoundRow(d, q)
    BY DEF Sound
  <2>1. CASE q = p
    <3>1. e.captures[q] = row /\ e.snapshots[q] = <<c, cfg>> /\ e.metadata[q] = None
      BY <1>1, <1>4, <2>1, Fields
    <3> QED BY <1>3, <1>4, <3>1 DEF SoundRow, Own
  <2>2. CASE q # p
    <3>1. /\ e.captures[q] = d.captures[q] /\ e.snapshots[q] = d.snapshots[q]
          /\ e.metadata[q] = d.metadata[q]
      BY <1>1, <1>4, <2>2, Fields
    <3> QED BY <1>4, <2>0, <3>1 DEF SoundRow
  <2> QED BY <2>1, <2>2
<1>7. /\ \A q \in Paths \ {p} : e.captures[q] = d.captures[q]
      /\ e.captures[p] = row
  <2> QED BY <1>1, <1>4, Fields
<1>8. Own(e)
  BY <1>4 DEF Own
<1> QED BY <1>5, <1>6, <1>7, <1>8 DEF Sound

(* PutDecision of a whole row.                                             *)
PutRow(d, p, row) == PutDecision(d, p, row.sha, row.status, row.seen)

(* A decision other than parsed leaves no snapshot at its path.            *)
LEMMA PutRowSound ==
  ASSUME NEW d, Sound(d), NEW p \in Paths,
         NEW row \in Captures, row.status # "parsed",
         NEW e, e = PutRow(d, p, row)
  PROVE  /\ Sound(e) /\ e.version = d.version /\ e.meta = d.meta
         /\ \A q \in Paths \ {p} : e.captures[q] = d.captures[q]
         /\ e.captures[p] = row
<1>1. d \in Databases
  BY DEF Sound
<1>2. row # None
  BY RowAssumption
<1>3. row = [sha |-> row.sha, status |-> row.status, seen |-> row.seen]
  BY DEF Captures
<1>4. /\ e.version = d.version /\ e.meta = d.meta
      /\ e.captures = [d.captures EXCEPT ![p] = row]
      /\ e.snapshots = [d.snapshots EXCEPT ![p] = None]
      /\ e.metadata = [d.metadata EXCEPT ![p] = None]
  BY <1>1, <1>3 DEF Databases, PutDecision, PutRow
<1>5. e \in Databases
  <2>1. /\ [d.captures EXCEPT ![p] = row] \in [Paths -> Captures \cup {None}]
        /\ [d.snapshots EXCEPT ![p] = None] \in [Paths -> Snapshots \cup {None}]
        /\ [d.metadata EXCEPT ![p] = None] \in [Paths -> Snapshots \cup {None}]
    BY <1>1, Fields
  <2>2. e = [d EXCEPT !.snapshots = [d.snapshots EXCEPT ![p] = None],
                      !.metadata = [d.metadata EXCEPT ![p] = None],
                      !.captures = [d.captures EXCEPT ![p] = row]]
    BY <1>1, <1>3 DEF Databases, PutDecision, PutRow
  <2> QED BY <1>1, <2>1, <2>2 DEF Databases
<1>6. ASSUME NEW q \in Paths PROVE SoundRow(e, q)
  <2>0. SoundRow(d, q)
    BY DEF Sound
  <2>1. CASE q = p
    <3>1. e.captures[q] = row /\ e.snapshots[q] = None /\ e.metadata[q] = None
      BY <1>1, <1>4, <2>1, Fields
    <3> QED BY <1>2, <3>1 DEF SoundRow
  <2>2. CASE q # p
    <3>1. /\ e.captures[q] = d.captures[q] /\ e.snapshots[q] = d.snapshots[q]
          /\ e.metadata[q] = d.metadata[q]
      BY <1>1, <1>4, <2>2, Fields
    <3> QED BY <1>4, <2>0, <3>1 DEF SoundRow
  <2> QED BY <2>1, <2>2
<1>7. /\ \A q \in Paths \ {p} : e.captures[q] = d.captures[q]
      /\ e.captures[p] = row
  <2> QED BY <1>1, <1>4, Fields
<1> QED BY <1>4, <1>5, <1>6, <1>7 DEF Sound

(* A database whose captures differ in seen only is as sound as before.    *)
LEMMA SeenSound ==
  ASSUME NEW d, NEW e, Sound(d), e \in Databases,
         e.version = d.version, e.meta = d.meta,
         e.snapshots = d.snapshots, e.metadata = d.metadata,
         \A p \in Paths : /\ e.captures[p] # None <=> d.captures[p] # None
                          /\ e.captures[p] # None =>
                               /\ e.captures[p].sha = d.captures[p].sha
                               /\ e.captures[p].status = d.captures[p].status
  PROVE  Sound(e)
BY DEF Sound, SoundRow

(* A row that is kept joins the scan.                                      *)
LEMMA ReuseSound ==
  ASSUME NEW d, Sound(d), NEW p \in Paths, d.captures[p] # None,
         NEW e, e = Reuse(d, p)
  PROVE  /\ Sound(e) /\ e.version = d.version /\ e.meta = d.meta
         /\ \A q \in Paths \ {p} : e.captures[q] = d.captures[q]
         /\ e.captures[p] = [d.captures[p] EXCEPT !.seen = TRUE]
<1> DEFINE row == [d.captures[p] EXCEPT !.seen = TRUE]
<1>1. d \in Databases
  BY DEF Sound
<1>2. /\ d.captures[p] \in Captures /\ row \in Captures
      /\ row.sha = d.captures[p].sha /\ row.status = d.captures[p].status
  <2>1. d.captures[p] \in Captures
    BY <1>1, Fields
  <2> QED BY <2>1 DEF Captures
<1>3. row # None
  BY <1>2, RowAssumption
<1>4. e = [d EXCEPT !.captures = [d.captures EXCEPT ![p] = row]]
  BY <1>1 DEF Databases, Reuse
<1>5. [d.captures EXCEPT ![p] = row] \in [Paths -> Captures \cup {None}]
  BY <1>1, <1>2, Fields
<1>6. /\ e \in Databases
      /\ e.version = d.version /\ e.meta = d.meta
      /\ e.captures = [d.captures EXCEPT ![p] = row]
      /\ e.snapshots = d.snapshots /\ e.metadata = d.metadata
  <2> HIDE DEF row
  <2> QED BY <1>1, <1>4, <1>5 DEF Databases
<1>7. /\ \A q \in Paths \ {p} : e.captures[q] = d.captures[q]
      /\ e.captures[p] = row
  <2> HIDE DEF row
  <2> QED BY <1>1, <1>6, Fields
<1>8. Sound(e)
  <2>1. ASSUME NEW q \in Paths
        PROVE  /\ e.captures[q] # None <=> d.captures[q] # None
               /\ e.captures[q] # None =>
                    /\ e.captures[q].sha = d.captures[q].sha
                    /\ e.captures[q].status = d.captures[q].status
    <3>1. CASE q = p
      BY <1>2, <1>3, <1>7, <3>1
    <3>2. CASE q # p
      BY <1>7, <3>2
    <3> QED BY <3>1, <3>2
  <2> QED BY <1>6, <2>1, SeenSound
<1> QED BY <1>6, <1>7, <1>8

(* Whatever is read at a path, its row is then decided by this run and the *)
(* database stays sound.                                                   *)
LEMMA IngestedSound ==
  ASSUME NEW d, Sound(d), Own(d), cfg \in Configs,
         NEW p \in Paths, NEW c \in Contents \cup {"unreadable"},
         NEW e, e = Ingested(d, p, c)
  PROVE  /\ Sound(e) /\ Own(e)
         /\ \A q \in Paths \ {p} : e.captures[q] = d.captures[q]
         /\ Decided(e.captures[p], c) /\ e.captures[p].seen
<1>1. CASE c = "unreadable"
  <2> DEFINE row == [sha |-> None, status |-> "failed", seen |-> TRUE]
  <2>1. e = PutRow(d, p, row)
    BY <1>1 DEF Ingested, PutRow
  <2>2. row \in Captures /\ row.sha = None /\ row.status = "failed" /\ row.seen
    BY DEF Captures, Statuses
  <2> HIDE DEF row
  <2>3. Decided(row, c)
    BY <1>1, <2>2, RowAssumption DEF Decided, ShaOf
  <2>4. /\ Sound(e) /\ e.version = d.version /\ e.meta = d.meta
        /\ \A q \in Paths \ {p} : e.captures[q] = d.captures[q]
        /\ e.captures[p] = row
    BY <2>1, <2>2, PutRowSound
  <2> QED BY <2>2, <2>3, <2>4 DEF Own
<1>2. CASE c # "unreadable" /\ Matches(d, p, c)
  <2> DEFINE row == [d.captures[p] EXCEPT !.seen = TRUE]
  <2>1. e = Reuse(d, p)
    BY <1>2 DEF Ingested
  <2>2. d.captures[p] # None /\ d.captures[p].sha = c /\ d.captures[p].status # "failed"
    BY <1>2 DEF Matches
  <2>3. d.captures[p] \in Captures
    BY <2>2, Fields DEF Sound
  <2>4. row \in Captures /\ row.sha = c /\ row.status # "failed" /\ row.seen
    BY <2>2, <2>3 DEF Captures
  <2> HIDE DEF row
  <2>5. Decided(row, c)
    BY <1>2, <2>4, RowAssumption DEF Decided, ShaOf
  <2>6. /\ Sound(e) /\ e.version = d.version /\ e.meta = d.meta
        /\ \A q \in Paths \ {p} : e.captures[q] = d.captures[q]
        /\ e.captures[p] = row
    BY <2>1, <2>2, ReuseSound DEF row
  <2> QED BY <2>4, <2>5, <2>6 DEF Own
<1>3. CASE c # "unreadable" /\ ~Matches(d, p, c) /\ Kind[cfg][c] = "malformed"
  <2> DEFINE row == [sha |-> c, status |-> "failed", seen |-> TRUE]
  <2>1. e = PutRow(d, p, row)
    BY <1>3 DEF Ingested, PutRow
  <2>2. row \in Captures /\ row.sha = c /\ row.status = "failed" /\ row.seen
    BY <1>3 DEF Captures, Statuses
  <2> HIDE DEF row
  <2>3. Decided(row, c)
    BY <1>3, <2>2, RowAssumption DEF Decided, ShaOf
  <2>4. /\ Sound(e) /\ e.version = d.version /\ e.meta = d.meta
        /\ \A q \in Paths \ {p} : e.captures[q] = d.captures[q]
        /\ e.captures[p] = row
    BY <2>1, <2>2, PutRowSound
  <2> QED BY <2>2, <2>3, <2>4 DEF Own
<1>4. CASE c # "unreadable" /\ ~Matches(d, p, c) /\ Kind[cfg][c] # "malformed"
  <2> DEFINE row == [sha |-> c, status |-> "parsed", seen |-> TRUE]
  <2>1. e = PutSnapshot(d, p, c)
    BY <1>4 DEF Ingested
  <2>2. row \in Captures /\ row.sha = c /\ row.status # "failed" /\ row.seen
    BY <1>4 DEF Captures, Statuses
  <2> HIDE DEF row
  <2>3. Decided(row, c)
    BY <1>4, <2>2, RowAssumption DEF Decided, ShaOf
  <2>4. /\ Sound(e) /\ Own(e)
        /\ \A q \in Paths \ {p} : e.captures[q] = d.captures[q]
        /\ e.captures[p] = row
    BY <1>4, <2>1, PutSnapshotSound DEF row
  <2> QED BY <2>2, <2>3, <2>4
<1> QED BY <1>1, <1>2, <1>3, <1>4

(* The version is stored when no snapshot of the old schema is left.       *)
LEMMA VersionSound ==
  ASSUME NEW d, Sound(d), d.version = 2 \/ d.snapshots = Empty,
         NEW e, e = [d EXCEPT !.version = 2]
  PROVE  Sound(e) /\ e.version = 2
<1>1. d \in Databases
  BY DEF Sound
<1>2. /\ e \in Databases /\ e.version = 2 /\ e.meta = d.meta
      /\ e.captures = d.captures /\ e.snapshots = d.snapshots /\ e.metadata = d.metadata
  BY <1>1 DEF Databases
<1>3. ASSUME NEW p \in Paths PROVE SoundRow(e, p)
  <2>1. SoundRow(d, p)
    BY DEF Sound
  <2>2. d.version = 2 \/ d.snapshots[p] = None
    BY DEF Empty
  <2> QED BY <1>2, <2>1, <2>2 DEF SoundRow
<1> QED BY <1>2, <1>3 DEF Sound

(* The configuration is stored when no snapshot of another one is left.    *)
LEMMA StampSound ==
  ASSUME NEW d, Sound(d), d.version = 2, d.meta = cfg \/ d.snapshots = Empty,
         cfg \in Configs, NEW e, e = [d EXCEPT !.meta = cfg]
  PROVE  Sound(e) /\ Own(e)
<1>1. d \in Databases
  BY DEF Sound
<1>2. /\ e \in Databases /\ e.version = d.version /\ e.meta = cfg
      /\ e.captures = d.captures /\ e.snapshots = d.snapshots /\ e.metadata = d.metadata
  BY <1>1 DEF Databases
<1>3. ASSUME NEW p \in Paths PROVE SoundRow(e, p)
  <2>1. SoundRow(d, p)
    BY DEF Sound
  <2>2. d.meta = cfg \/ d.snapshots[p] = None
    BY DEF Empty
  <2> QED BY <1>2, <2>1, <2>2 DEF SoundRow
<1> QED BY <1>2, <1>3 DEF Sound, Own

(* A new scan has seen no row.                                             *)
Unscanned(d) ==
  [d EXCEPT !.captures = [p \in Paths |->
     IF @[p] = None THEN None ELSE [@[p] EXCEPT !.seen = FALSE]]]

LEMMA UnscannedSound ==
  ASSUME NEW d, Sound(d), NEW e, e = Unscanned(d)
  PROVE  /\ Sound(e) /\ e.version = d.version /\ e.meta = d.meta
         /\ \A p \in Paths : e.captures[p] # None => ~e.captures[p].seen
<1> DEFINE rows == [p \in Paths |-> IF d.captures[p] = None THEN None
                                    ELSE [d.captures[p] EXCEPT !.seen = FALSE]]
<1>1. d \in Databases
  BY DEF Sound
<1>2. e = [d EXCEPT !.captures = rows]
  BY <1>1 DEF Databases, Unscanned
<1>3. ASSUME NEW p \in Paths
      PROVE  /\ rows[p] \in Captures \cup {None}
             /\ rows[p] # None <=> d.captures[p] # None
             /\ rows[p] # None => /\ rows[p].sha = d.captures[p].sha
                                  /\ rows[p].status = d.captures[p].status
                                  /\ ~rows[p].seen
  <2>1. CASE d.captures[p] = None
    BY <2>1
  <2>2. CASE d.captures[p] # None
    <3>1. d.captures[p] \in Captures
      BY <1>1, <2>2, Fields
    <3>2. /\ rows[p] = [d.captures[p] EXCEPT !.seen = FALSE]
          /\ rows[p] \in Captures
          /\ rows[p].sha = d.captures[p].sha /\ rows[p].status = d.captures[p].status
          /\ ~rows[p].seen
      BY <2>2, <3>1 DEF Captures
    <3> HIDE DEF rows
    <3> QED BY <2>2, <3>2, RowAssumption
  <2> QED BY <2>1, <2>2
<1>4. rows \in [Paths -> Captures \cup {None}]
  <2>1. \A p \in Paths : rows[p] \in Captures \cup {None}
    BY <1>3
  <2> QED BY <2>1
<1> HIDE DEF rows
<1>5. /\ e \in Databases /\ e.version = d.version /\ e.meta = d.meta
      /\ e.captures = rows /\ e.snapshots = d.snapshots /\ e.metadata = d.metadata
  BY <1>1, <1>2, <1>4 DEF Databases
<1>6. Sound(e)
  BY <1>3, <1>5, SeenSound
<1> QED BY <1>3, <1>5, <1>6

(* What finish_scan keeps.                                                 *)
Kept(d) ==
  LET keep(table) == [p \in Paths |-> IF p \in Unseen(d) THEN None ELSE table[p]]
  IN [d EXCEPT !.captures = keep(@), !.snapshots = keep(@), !.metadata = keep(@)]

LEMMA KeptSound ==
  ASSUME NEW d, Sound(d), NEW e, e = Kept(d)
  PROVE  /\ Sound(e) /\ e.version = d.version /\ e.meta = d.meta
         /\ \A p \in Paths :
              e.captures[p] = IF p \in Unseen(d) THEN None ELSE d.captures[p]
<1> DEFINE keep(table) == [p \in Paths |-> IF p \in Unseen(d) THEN None ELSE table[p]]
<1>1. d \in Databases
  BY DEF Sound
<1>2. /\ e.version = d.version /\ e.meta = d.meta
      /\ e.captures = keep(d.captures)
      /\ e.snapshots = keep(d.snapshots) /\ e.metadata = keep(d.metadata)
      /\ e \in Databases
  <2>1. /\ keep(d.captures) \in [Paths -> Captures \cup {None}]
        /\ keep(d.snapshots) \in [Paths -> Snapshots \cup {None}]
        /\ keep(d.metadata) \in [Paths -> Snapshots \cup {None}]
    BY <1>1, Fields
  <2>2. e = [d EXCEPT !.captures = keep(d.captures), !.snapshots = keep(d.snapshots),
                      !.metadata = keep(d.metadata)]
    BY <1>1 DEF Databases, Kept
  <2> HIDE DEF keep
  <2> QED BY <1>1, <2>1, <2>2 DEF Databases
<1>3. ASSUME NEW p \in Paths
      PROVE  IF p \in Unseen(d)
             THEN e.captures[p] = None /\ e.snapshots[p] = None /\ e.metadata[p] = None
             ELSE /\ e.captures[p] = d.captures[p] /\ e.snapshots[p] = d.snapshots[p]
                  /\ e.metadata[p] = d.metadata[p]
  BY <1>2
<1>4. ASSUME NEW p \in Paths PROVE SoundRow(e, p)
  <2>1. SoundRow(d, p)
    BY DEF Sound
  <2> QED BY <1>2, <1>3, <2>1 DEF SoundRow
<1> QED BY <1>2, <1>3, <1>4 DEF Sound

(* A projection is that of the snapshot.                                   *)
LEMMA ProjectSound ==
  ASSUME NEW d, Sound(d), NEW p \in Paths, d.snapshots[p] # None,
         NEW e, e = [d EXCEPT !.metadata[p] = d.snapshots[p]]
  PROVE  /\ Sound(e) /\ e.version = d.version /\ e.meta = d.meta
         /\ e.captures = d.captures
<1>1. d \in Databases
  BY DEF Sound
<1>2. e = [d EXCEPT !.metadata = [d.metadata EXCEPT ![p] = d.snapshots[p]]]
  BY <1>1 DEF Databases
<1>3. [d.metadata EXCEPT ![p] = d.snapshots[p]] \in [Paths -> Snapshots \cup {None}]
  BY <1>1, Fields
<1>4. /\ e \in Databases /\ e.version = d.version /\ e.meta = d.meta
      /\ e.captures = d.captures /\ e.snapshots = d.snapshots
      /\ e.metadata = [d.metadata EXCEPT ![p] = d.snapshots[p]]
  BY <1>1, <1>2, <1>3 DEF Databases
<1>5. ASSUME NEW q \in Paths PROVE SoundRow(e, q)
  <2>1. SoundRow(d, q)
    BY DEF Sound
  <2>2. e.metadata[q] = IF q = p THEN d.snapshots[p] ELSE d.metadata[q]
    BY <1>1, <1>4, Fields
  <2> QED BY <1>4, <2>1, <2>2 DEF SoundRow
<1> QED BY <1>4, <1>5 DEF Sound
-----------------------------------------------------------------------------
LEMMA OldSound ==
  ASSUME NEW d \in OldDatabases
  PROVE  Sound(d)
<1>1. PICK m \in Configs, held \in [Paths -> Contents \cup {None}] :
        d = [version |-> 1, meta |-> m,
             captures |-> [p \in Paths |->
               IF held[p] = None THEN None
               ELSE [sha |-> held[p], status |-> "parsed", seen |-> FALSE]],
             snapshots |-> [p \in Paths |->
               IF held[p] = None THEN None ELSE <<held[p], OldSchema>>],
             metadata |-> Empty]
  BY DEF OldDatabases
<1>2. ASSUME NEW p \in Paths
      PROVE  /\ [sha |-> held[p], status |-> "parsed", seen |-> FALSE] \in Captures
             /\ held[p] # None => <<held[p], OldSchema>> \in Snapshots
  BY DEF Captures, Snapshots, Statuses
<1>3. /\ d.version = 1 /\ d.meta = m
      /\ d.captures \in [Paths -> Captures \cup {None}]
      /\ d.snapshots \in [Paths -> Snapshots \cup {None}]
      /\ d.metadata = Empty
  BY <1>1, <1>2
<1>4. d \in Databases
  <2>1. d = [version |-> d.version, meta |-> d.meta, captures |-> d.captures,
             snapshots |-> d.snapshots, metadata |-> d.metadata]
    BY <1>1
  <2> QED BY <1>3, <2>1 DEF Databases, Empty
<1>5. ASSUME NEW p \in Paths PROVE SoundRow(d, p)
  <2>1. CASE held[p] = None
    <3>1. d.captures[p] = None /\ d.snapshots[p] = None /\ d.metadata[p] = None
      BY <1>1, <2>1 DEF Empty
    <3> QED BY <3>1 DEF SoundRow
  <2>2. CASE held[p] # None
    <3>1. /\ d.captures[p] = [sha |-> held[p], status |-> "parsed", seen |-> FALSE]
          /\ d.snapshots[p] = <<held[p], OldSchema>> /\ d.metadata[p] = None
      BY <1>1, <2>2 DEF Empty
    <3>2. d.captures[p] # None /\ d.snapshots[p] # None
      BY <1>2, <2>2, <3>1, RowAssumption
    <3> QED BY <1>3, <3>1, <3>2, IngestAssumption DEF SoundRow
  <2> QED BY <2>1, <2>2
<1> QED BY <1>4, <1>5 DEF Sound

LEMMA NewSound == Sound(NewDatabase)
<1>1. NewDatabase \in Databases
  BY DEF NewDatabase, Databases, Empty
<1> QED BY <1>1 DEF Sound, SoundRow, NewDatabase, Empty

LEMMA InitInv == Init => IInv
<1> SUFFICES ASSUME Init PROVE IInv
  OBVIOUS
<1>1. Sound(disk) /\ Sound(db)
  BY OldSound, NewSound DEF Init
<1>2. Types
  <2>1. batch \in 0..BatchItems - 1
    BY IngestAssumption DEF Init
  <2>2. read \in [Paths -> Contents \cup {"unreadable", None}]
    BY DEF Init, Empty
  <2> QED BY <2>1, <2>2 DEF Init, Types, Stages, Running
<1>3. Prepared /\ Scanned /\ Delivered
  BY DEF Init, Prepared, Scanned, Delivered, PublishedIsCurrent, EverySourceAccounted,
         Preparing, Filling, Filled
<1> QED BY <1>1, <1>2, <1>3 DEF IInv

(* A step that ends or aborts a run leaves nothing to show.                *)
LEMMA Quiet ==
  ASSUME pc' \in {"open", "failed"}
  PROVE  Prepared' /\ Delivered' /\ ((pc' = "open" => read' = Empty) => Scanned')
BY DEF Prepared, Scanned, Delivered, PublishedIsCurrent, EverySourceAccounted,
       Preparing, Filling, Filled

(* Before the publication only the stages of the run matter.               *)
LEMMA NotYet ==
  ASSUME pc' # "published"
  PROVE  Delivered'
BY DEF Delivered, PublishedIsCurrent, EverySourceAccounted

LEMMA StartInv == IInv /\ Start => IInv'
<1> SUFFICES ASSUME IInv, Start PROVE IInv'
  OBVIOUS
<1> USE DEF IInv, Start
<1>1. Types'
  BY IngestAssumption DEF Types, Stages, Running, Empty
<1>2. Sound(disk)' /\ Sound(db)'
  BY DEF Sound, SoundRow
<1>3. Prepared' /\ Scanned' /\ Delivered'
  BY Quiet
<1> QED BY <1>1, <1>2, <1>3

LEMMA PrepareInv ==
  IInv /\ (Open \/ StoreVersion \/ CheckConfig \/ StampConfig \/ Discover) => IInv'
<1> SUFFICES ASSUME IInv, Open \/ StoreVersion \/ CheckConfig \/ StampConfig \/ Discover
             PROVE  IInv'
  OBVIOUS
<1>0. pc' # "published"
  BY DEF Open, StoreVersion, CheckConfig, StampConfig, Discover
<1>1. CASE Open
  <2>1. Sound(db') /\ (db'.version = 2 \/ db'.snapshots = Empty)
    BY <1>1, ClearedSound DEF IInv, Open, Commit
  <2>2. db' = disk'
    BY <1>1 DEF Open, Commit
  <2>3. Types'
    BY <1>1 DEF IInv, Types, Open, Stages, Running
  <2>4. Prepared' /\ Scanned'
    BY <1>1, <2>1 DEF IInv, Prepared, Scanned, Open, Preparing, Filling, Filled
  <2> QED BY <1>0, <2>1, <2>2, <2>3, <2>4, NotYet DEF IInv, Sound, SoundRow
<1>2. CASE StoreVersion
  <2>1. Sound(db') /\ db'.version = 2
    BY <1>2, VersionSound DEF IInv, Prepared, StoreVersion, Commit
  <2>2. db' = disk'
    BY <1>2 DEF StoreVersion, Commit
  <2>3. Types'
    BY <1>2 DEF IInv, Types, StoreVersion, Stages, Running
  <2>4. Prepared' /\ Scanned'
    BY <1>2, <2>1 DEF IInv, Prepared, Scanned, StoreVersion, Preparing, Filling, Filled
  <2> QED BY <1>0, <2>1, <2>2, <2>3, <2>4, NotYet DEF IInv, Sound, SoundRow
<1>3. CASE CheckConfig
  <2>1. Sound(db') /\ db'.version = 2 /\ (db'.meta = cfg \/ db'.snapshots = Empty)
    BY <1>3, ClearedSound DEF IInv, Prepared, CheckConfig, Commit
  <2>2. db' = disk'
    BY <1>3 DEF CheckConfig, Commit
  <2>3. Types'
    BY <1>3 DEF IInv, Types, CheckConfig, Stages, Running
  <2>4. Prepared' /\ Scanned'
    BY <1>3, <2>1 DEF IInv, Prepared, Scanned, CheckConfig, Preparing, Filling, Filled
  <2> QED BY <1>0, <2>1, <2>2, <2>3, <2>4, NotYet DEF IInv, Sound, SoundRow
<1>4. CASE StampConfig
  <2>1. Sound(db') /\ Own(db')
    BY <1>4, StampSound DEF IInv, Types, Prepared, StampConfig, Commit, Running
  <2>2. db' = disk' /\ cfg' = cfg
    BY <1>4 DEF StampConfig, Commit
  <2>3. Types'
    BY <1>4 DEF IInv, Types, StampConfig, Stages, Running
  <2>4. Prepared' /\ Scanned'
    BY <1>4, <2>1, <2>2 DEF IInv, Prepared, Scanned, StampConfig, Own, Preparing, Filling, Filled
  <2> QED BY <1>0, <2>1, <2>2, <2>3, <2>4, NotYet DEF IInv, Sound, SoundRow
<1>5. CASE Discover
  <2>1. db' = Unscanned(db) /\ disk' = disk
    BY <1>5 DEF Discover, Write, Unscanned
  <2>2. /\ Sound(db') /\ db'.version = db.version /\ db'.meta = db.meta
        /\ \A p \in Paths : db'.captures[p] # None => ~db'.captures[p].seen
    BY <2>1, UnscannedSound DEF IInv
  <2>3. Types'
    BY <1>5 DEF IInv, Types, Discover, Stages, Running
  <2>4. Prepared'
    BY <1>5, <2>2 DEF IInv, Prepared, Discover, Own, Filling, Filled
  <2>5. Scanned'
    BY <1>5, <2>2 DEF IInv, Scanned, Discover, Empty, Preparing, Filling, Filled
  <2> QED BY <1>0, <2>1, <2>2, <2>3, <2>4, <2>5, NotYet DEF IInv, Sound, SoundRow
<1> QED BY <1>1, <1>2, <1>3, <1>4, <1>5
LEMMA IngestInv ==
  ASSUME NEW p \in Paths, NEW c \in Contents \cup {"unreadable"}
  PROVE  IInv /\ Ingest(p, c) => IInv'
<1> SUFFICES ASSUME IInv, Ingest(p, c) PROVE IInv'
  OBVIOUS
<1>1. /\ pc = "ingest" /\ pc' = "ingest" /\ cfg' = cfg /\ cfg \in Configs
      /\ db' = Ingested(db, p, c) /\ disk' \in {disk, db'}
      /\ read' = [read EXCEPT ![p] = c]
  BY DEF IInv, Types, Ingest, Write, Commit, Running
<1>2. Own(db)
  BY <1>1 DEF IInv, Prepared, Filling
<1>3. /\ Sound(db') /\ db'.version = 2 /\ db'.meta = cfg
      /\ \A q \in Paths \ {p} : db'.captures[q] = db.captures[q]
      /\ Decided(db'.captures[p], c) /\ db'.captures[p].seen
  BY <1>1, <1>2, IngestedSound DEF IInv, Own
<1>4. Sound(disk')
  BY <1>1, <1>3 DEF IInv
<1>5. Types'
  <2>1. batch' \in 0..BatchItems - 1
    BY IngestAssumption DEF IInv, Types, Ingest
  <2>2. read' \in [Paths -> Contents \cup {"unreadable", None}]
    BY <1>1 DEF IInv, Types
  <2>3. todo' \subseteq Paths
    BY DEF IInv, Types, Ingest
  <2> QED BY <1>1, <2>1, <2>2, <2>3 DEF IInv, Types, Ingest
<1>6. Prepared'
  BY <1>1, <1>3 DEF Prepared, Own
<1>7. Scanned'
  <2>1. read'[p] = c /\ \A q \in Paths \ {p} : read'[q] = read[q]
    BY <1>1 DEF IInv, Types
  <2>2. c # None
    BY IngestAssumption
  <2>3. ASSUME NEW q \in Paths
        PROVE  /\ read'[q] # None => Decided(db.captures[q], read[q])'
               /\ db'.captures[q] # None => (db'.captures[q].seen <=> read'[q] # None)
    <3>1. CASE q = p
      BY <1>1, <1>3, <2>1, <2>2, <3>1 DEF Decided
    <3>2. CASE q # p
      BY <1>1, <1>3, <2>1, <3>2 DEF IInv, Scanned, Filling, Decided
    <3> QED BY <3>1, <3>2
  <2> QED BY <1>1, <2>3 DEF Scanned, Filling, Filled, Preparing
<1> QED BY <1>1, <1>3, <1>4, <1>5, <1>6, <1>7, NotYet DEF IInv, Sound, SoundRow

LEMMA CloseInv == IInv /\ CloseBatch => IInv'
<1> SUFFICES ASSUME IInv, CloseBatch PROVE IInv'
  OBVIOUS
<1>1. /\ pc = "ingest" /\ pc' = "finish" /\ cfg' = cfg /\ read' = read
      /\ db' = db /\ disk' = db /\ batch' = 0 /\ todo' = todo /\ resume' = resume
  BY DEF CloseBatch, Commit
<1>2. Types'
  BY <1>1, IngestAssumption DEF IInv, Types, Stages, Running
<1>3. Prepared' /\ Scanned'
  BY <1>1 DEF IInv, Prepared, Scanned, Own, Decided, Preparing, Filling, Filled
<1> QED BY <1>1, <1>2, <1>3, NotYet DEF IInv, Sound, SoundRow

LEMMA FinishInv == IInv /\ FinishScan => IInv'
<1> SUFFICES ASSUME IInv, FinishScan PROVE IInv'
  OBVIOUS
<1>1. /\ pc = "finish" /\ pc' = "project" /\ cfg' = cfg /\ read' = read
      /\ db' = Kept(db) /\ disk' = db' /\ batch' = batch /\ todo' = Paths
      /\ resume' = resume
  BY DEF FinishScan, Commit, Kept
<1>2. /\ Sound(db') /\ db'.version = db.version /\ db'.meta = db.meta
      /\ \A p \in Paths :
           db'.captures[p] = IF p \in Unseen(db) THEN None ELSE db.captures[p]
  BY <1>1, KeptSound DEF IInv
<1>3. Types'
  BY <1>1 DEF IInv, Types, Stages, Running
<1>4. Prepared'
  BY <1>1, <1>2 DEF IInv, Prepared, Own, Filling, Filled
<1>5. ASSUME NEW p \in Paths
      PROVE  /\ read'[p] # None => Decided(db.captures[p], read[p])'
             /\ db'.captures[p] # None => read'[p] # None
  <2>1. read[p] # None => Decided(db.captures[p], read[p])
    BY <1>1 DEF IInv, Scanned, Filling
  <2>2. db.captures[p] # None => (db.captures[p].seen <=> read[p] # None)
    BY <1>1 DEF IInv, Scanned, Filling
  <2> QED BY <1>1, <1>2, <2>1, <2>2 DEF Unseen, Decided
<1>6. Scanned'
  BY <1>1, <1>5 DEF Scanned, Preparing, Filling, Filled
<1> QED BY <1>1, <1>2, <1>3, <1>4, <1>6, NotYet DEF IInv, Sound, SoundRow

LEMMA ProjectInv ==
  ASSUME NEW p \in Paths
  PROVE  IInv /\ Project(p) => IInv'
<1> SUFFICES ASSUME IInv, Project(p) PROVE IInv'
  OBVIOUS
<1>1. /\ pc = "project" /\ pc' = "project" /\ cfg' = cfg /\ read' = read
      /\ db' = IF Eligible(p) THEN [db EXCEPT !.metadata[p] = db.snapshots[p]] ELSE db
      /\ disk' \in {disk, db'}
  BY DEF Project, Write, Commit
<1>2. /\ Sound(db') /\ db'.version = db.version /\ db'.meta = db.meta
      /\ db'.captures = db.captures
  BY <1>1, ProjectSound DEF IInv, Eligible
<1>3. Types'
  <2>1. batch' \in 0..BatchItems - 1
    BY IngestAssumption DEF IInv, Types, Project
  <2> QED BY <1>1, <2>1 DEF IInv, Types, Project
<1>4. Prepared' /\ Scanned'
  BY <1>1, <1>2 DEF IInv, Prepared, Scanned, Own, Decided, Preparing, Filling, Filled
<1>5. Sound(disk)' /\ Sound(db)'
  <2>1. Sound(disk') /\ Sound(db')
    BY <1>1, <1>2 DEF IInv
  <2> QED BY <2>1 DEF Sound, SoundRow
<1>6. Delivered'
  BY <1>1, NotYet
<1> QED BY <1>3, <1>4, <1>5, <1>6 DEF IInv

LEMMA BuildInv == IInv /\ (EndProject \/ Build) => IInv'
<1> SUFFICES ASSUME IInv, EndProject \/ Build PROVE IInv'
  OBVIOUS
<1>1. /\ pc \in {"project", "build"} /\ pc' \in {"build", "export"}
      /\ cfg' = cfg /\ read' = read /\ db' = db /\ disk' \in {disk, db}
      /\ batch' \in {batch, 0} /\ todo' = todo /\ resume' = resume
  BY DEF EndProject, Build, Commit
<1>2. Types'
  BY <1>1, IngestAssumption DEF IInv, Types, Stages, Running
<1>3. Prepared' /\ Scanned'
  BY <1>1 DEF IInv, Prepared, Scanned, Own, Decided, Preparing, Filling, Filled
<1> QED BY <1>1, <1>2, <1>3, NotYet DEF IInv, Sound, SoundRow

LEMMA RefuseInv ==
  ASSUME NEW p \in Paths
  PROVE  IInv /\ RefuseBuild(p) => IInv'
<1> SUFFICES ASSUME IInv, RefuseBuild(p) PROVE IInv'
  OBVIOUS
<1> DEFINE row == [sha |-> db.captures[p].sha, status |-> "skipped", seen |-> FALSE]
<1>1. pc = "build" /\ pc' = "failed" /\ db' = PutRow(db, p, row) /\ disk' = db'
  BY DEF RefuseBuild, Commit, PutRow
<1>2. row \in Captures /\ row.status # "parsed"
  <2>1. db.captures[p] # None
    BY DEF IInv, Sound, SoundRow, RefuseBuild, Eligible
  <2>2. db.captures[p] \in Captures
    BY <2>1, Fields DEF IInv, Sound
  <2> QED BY <2>2 DEF Captures, Statuses
<1> HIDE DEF row
<1>3. Sound(db')
  BY <1>1, <1>2, PutRowSound DEF IInv
<1>4. Types'
  BY <1>1 DEF IInv, Types, RefuseBuild, Stages, Running
<1> QED BY <1>1, <1>3, <1>4, Quiet DEF IInv, Sound, SoundRow

LEMMA StopInv == IInv /\ Stop => IInv'
<1> SUFFICES ASSUME IInv, Stop PROVE IInv'
  OBVIOUS
<1>1. pc' = "failed" /\ db' = disk /\ disk' = disk
  BY DEF Stop
<1>2. Types'
  BY <1>1 DEF IInv, Types, Stop, Stages, Running
<1> QED BY <1>1, <1>2, Quiet DEF IInv, Sound, SoundRow
(* What is exported: for every path read its decision, and for what was    *)
(* parsed the snapshot under the run's own configuration.                  *)
LEMMA ExportInv == IInv /\ Export => IInv'
<1> SUFFICES ASSUME IInv, Export PROVE IInv'
  OBVIOUS
<1>1. /\ pc = "export" /\ pc' = "published" /\ cfg' = cfg /\ cfg \in Configs
      /\ read' = read /\ db' = db /\ disk' = disk /\ output' = Published(db)
  BY DEF IInv, Types, Export, Running
<1>2. Own(db) /\ db \in Databases
  BY <1>1 DEF IInv, Prepared, Filled, Sound
<1>3. Types'
  BY <1>1 DEF IInv, Types, Export, Stages, Running
<1>4. Prepared' /\ Scanned'
  BY <1>1 DEF Prepared, Scanned, Preparing, Filling, Filled
<1>5. /\ DOMAIN output' = {q \in Paths : db.captures[q] # None}
      /\ \A q \in DOMAIN output' :
           output'[q] = [status |-> db.captures[q].status, sha |-> db.captures[q].sha,
                         view |-> View(db, q), body |-> db.snapshots[q]]
  BY <1>1 DEF Published
<1>6. ASSUME NEW q \in Paths
      PROVE  /\ db.captures[q] # None <=> read[q] # None
             /\ db.captures[q] # None => Decided(db.captures[q], read[q])
  BY <1>1 DEF IInv, Scanned, Filled, Decided
<1>7. EverySourceAccounted'
  <2>1. DOMAIN output' = {q \in Paths : read'[q] # None}
    BY <1>1, <1>5, <1>6
  <2>2. ASSUME NEW q \in DOMAIN output'
        PROVE  output'[q].sha = IF read'[q] = "unreadable" THEN None ELSE read'[q]
    <3>1. q \in Paths /\ db.captures[q] # None
      BY <1>5
    <3>2. output'[q].sha = db.captures[q].sha
      <4>1. output'[q] = [status |-> db.captures[q].status, sha |-> db.captures[q].sha,
                          view |-> View(db, q), body |-> db.snapshots[q]]
        BY <1>5
      <4> QED BY <4>1
    <3>3. db.captures[q].sha = ShaOf(read[q])
      BY <1>6, <3>1 DEF Decided
    <3> QED BY <1>1, <3>2, <3>3 DEF ShaOf
  <2> QED BY <2>1, <2>2 DEF EverySourceAccounted
<1>8. ASSUME NEW q \in DOMAIN output', output'[q].status # "skipped"
      PROVE  output'[q] = Fresh(read[q])
  <2> DEFINE row == db.captures[q]
             c == read[q]
  <2>1. /\ q \in Paths /\ row # None /\ row \in Captures /\ Decided(row, c)
        /\ c \in Contents \cup {"unreadable"}
    BY <1>2, <1>5, <1>6, Fields DEF IInv, Types
  <2>2. SoundRow(db, q)
    BY <2>1 DEF IInv, Sound
  <2>3. output'[q] = [status |-> row.status, sha |-> ShaOf(c),
                      view |-> View(db, q), body |-> db.snapshots[q]]
    BY <1>5, <2>1 DEF Decided
  <2>4. row.status \in {"parsed", "failed"}
    BY <1>8, <2>1, <2>3 DEF Captures, Statuses
  <2>5. CASE row.status = "failed"
    <3>1. db.snapshots[q] = None /\ View(db, q) = None
      BY <2>2, <2>5 DEF SoundRow, View
    <3>2. c = "unreadable" \/ Kind[cfg][c] = "malformed"
      BY <2>1, <2>5 DEF Decided
    <3>3. Fresh(c) = [status |-> "failed", sha |-> ShaOf(c), view |-> None, body |-> None]
      BY <3>2 DEF Fresh, ShaOf
    <3> QED BY <2>3, <2>5, <3>1, <3>3
  <2>6. CASE row.status = "parsed"
    <3>1. db.snapshots[q] # None
      BY <2>1, <2>2, <2>6 DEF SoundRow
    <3>2. db.snapshots[q] \in Snapshots
      BY <1>2, <2>1, <3>1, Fields
    <3>3. /\ db.snapshots[q][1] = ShaOf(c) /\ db.snapshots[q][1] \in Contents
          /\ db.snapshots[q][2] = cfg /\ Kind[cfg][db.snapshots[q][1]] # "malformed"
      BY <1>1, <1>2, <2>1, <2>2, <3>1, <3>2 DEF SoundRow, Decided, Own, Snapshots
    <3>4. c # "unreadable"
      BY <3>3, IngestAssumption DEF ShaOf
    <3>5. db.snapshots[q] = <<c, cfg>>
      BY <3>2, <3>3, <3>4 DEF Snapshots, ShaOf
    <3>6. View(db, q) = <<c, cfg>>
      BY <2>2, <3>5 DEF SoundRow, View
    <3>7. Fresh(c) = [status |-> "parsed", sha |-> c, view |-> <<c, cfg>>, body |-> <<c, cfg>>]
      BY <3>3, <3>4 DEF Fresh, ShaOf
    <3> QED BY <2>3, <2>6, <3>4, <3>5, <3>6, <3>7 DEF ShaOf
  <2> QED BY <2>4, <2>5, <2>6
<1>9. PublishedIsCurrent'
  BY <1>1, <1>8 DEF PublishedIsCurrent, Fresh
<1> QED BY <1>1, <1>3, <1>4, <1>7, <1>9 DEF IInv, Delivered, Sound, SoundRow

LEMMA StepInv == IInv /\ [Next]_vars => IInv'
<1> SUFFICES ASSUME IInv, [Next]_vars PROVE IInv'
  OBVIOUS
<1>1. CASE UNCHANGED vars
  BY <1>1 DEF IInv, vars, Types, Sound, SoundRow, Prepared, Scanned, Own, Decided, Delivered,
              PublishedIsCurrent, EverySourceAccounted, Fresh
<1>2. CASE Start
  BY <1>2, StartInv
<1>3. CASE Open \/ StoreVersion \/ CheckConfig \/ StampConfig \/ Discover
  BY <1>3, PrepareInv
<1>4. CASE CloseBatch
  BY <1>4, CloseInv
<1>5. CASE FinishScan
  BY <1>5, FinishInv
<1>6. CASE EndProject \/ Build
  BY <1>6, BuildInv
<1>7. CASE Export
  BY <1>7, ExportInv
<1>8. CASE Stop
  BY <1>8, StopInv
<1>9. CASE \E p \in Paths : Project(p) \/ RefuseBuild(p)
  BY <1>9, ProjectInv, RefuseInv
<1>10. CASE \E p \in Paths, c \in Contents \cup {"unreadable"} : Ingest(p, c)
  BY <1>10, IngestInv
<1> QED BY <1>1, <1>2, <1>3, <1>4, <1>5, <1>6, <1>7, <1>8, <1>9, <1>10 DEF Next

LEMMA InvHolds == Spec => []IInv
BY InitInv, StepInv, PTL DEF Spec

(* Wherever a run is interrupted, the rows on disk agree: parsed markers   *)
(* with snapshots, snapshots with the recorded configuration.              *)
THEOREM RowsTrusted == Spec => []DatabaseSound
<1>1. IInv => DatabaseSound
  BY DEF IInv, Types, Sound, SoundRow, DatabaseSound, TypeOK, ParsedHasSnapshot, ConfigHonest
<1> QED BY <1>1, InvHolds, PTL

(* Whatever runs came before, a run publishes one decision for every       *)
(* source that it read, under the digest of what it read, and no other.    *)
THEOREM Accounted == Spec => []EverySourceAccounted
<1>1. IInv => EverySourceAccounted
  BY DEF IInv, Delivered
<1> QED BY <1>1, InvHolds, PTL

(* What a resumed run publishes as parsed or failed is what a run on an    *)
(* empty database would publish.                                           *)
THEOREM ResumedIsCurrent == Spec => []PublishedIsCurrent
<1>1. IInv => PublishedIsCurrent
  BY DEF IInv, Delivered
<1> QED BY <1>1, InvHolds, PTL
=============================================================================
