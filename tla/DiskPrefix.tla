----------------------------- MODULE DiskPrefix -----------------------------
(***************************************************************************)
(* disk_prefix.py: the transcript trie in a scratch SQLite database, one   *)
(* message at a time, behind a bounded lookup cache.  A node carries one   *)
(* covered bit, set when some capture's strict history prefix runs through *)
(* it; a capture is a leaf when the node its transcript ends at is not     *)
(* covered.  The cache keeps a copy of the bit.                            *)
(*                                                                         *)
(* Node ids are positions in nodes.  The cache holds CacheLimit entries,   *)
(* least recently used first; byte weights are one per entry.  The cache   *)
(* of scope roots is left out: a root never changes.                       *)
(*                                                                         *)
(* A definition named Operation_Deviation is a deviation of Operation that *)
(* a property must detect; no specification uses it.                       *)
(***************************************************************************)
EXTENDS Transcripts, SequencesExt

CONSTANTS NoResult,     \* the aggregation has not ended
          MaxInputs,    \* bound on the captures of one aggregation
          HashOf,       \* the digest of each token; digests may collide
          CacheLimit,
          Null          \* SQL NULL

(* NULL is no value of its columns.  Redacted captures without a session   *)
(* have a source each: snapshots has one row per source (state.py).        *)
ASSUME DiskAssumption ==
  /\ Null \notin Captures /\ Null \notin Tokens /\ Null \notin Nat
  /\ MaxInputs \in Nat /\ CacheLimit \in Nat
  /\ \A c, d \in Captures :
       c.session = Missing /\ d.session = Missing /\ c.masked /\ d.masked
         /\ c.source = d.source => c = d

VARIABLES nodes,        \* nodes table: parent, token, covered
          scopes,       \* scopes table: the root of each compatibility key
          cache,        \* _ByteCache of nodes
          rows,         \* snapshots table: capture, endpoint, prefix_end
          current,      \* the capture being added, or Null
          depth,        \* messages of it that have been walked
          node,         \* the node reached
          prefixEnd,    \* its prefix_end so far
          result        \* NoResult until the input is exhausted

vars == <<nodes, scopes, cache, rows, current, depth, node, prefixEnd, result>>
walk == <<current, depth, node, prefixEnd>>

NodeIds == 1..Len(nodes)
Entries == [parent : NodeIds, token : Tokens, node : NodeIds, covered : BOOLEAN]

Rows == {rows[i].capture : i \in DOMAIN rows}

TypeOK ==
  /\ nodes \in Seq([parent : NodeIds \cup {Null}, token : Tokens \cup {Null},
                    covered : BOOLEAN])
  /\ scopes \in [{Compatibility(c) : c \in Rows \cup ({current} \ {Null})} -> NodeIds]
  /\ cache \in Seq(Entries) /\ Len(cache) <= CacheLimit
  /\ rows \in Seq([capture : Captures, endpoint : NodeIds,
                   prefixEnd : NodeIds \cup {Null}])
  /\ current \in Captures \cup {Null}
  /\ depth \in Nat
  /\ node \in NodeIds \cup {Null}
  /\ prefixEnd \in NodeIds \cup {Null}

Init ==
  /\ nodes = <<>> /\ scopes = <<>> /\ cache = <<>> /\ rows = <<>>
  /\ current = Null /\ depth = 0 /\ node = Null /\ prefixEnd = Null
  /\ result = NoResult

-----------------------------------------------------------------------------
SetCovered_InCacheOnly(table, id) == table

SetCovered(table, id) == [table EXCEPT ![id].covered = TRUE]

Lookup_DigestOnly(parent, token) ==
  {i \in NodeIds : /\ nodes[i].parent = parent
                   /\ nodes[i].token # Null
                   /\ HashOf[nodes[i].token] = HashOf[token]}

(* The row with this parent and this exact token; the digest only narrows  *)
(* the index lookup.                                                       *)
Lookup(parent, token) ==
  {i \in NodeIds : /\ nodes[i].parent = parent
                   /\ nodes[i].token # Null
                   /\ HashOf[nodes[i].token] = HashOf[token]
                   /\ nodes[i].token = token}

Cached(parent, token) ==
  {i \in DOMAIN cache : cache[i].parent = parent /\ cache[i].token = token}

(* The cache without the entry of this key: there is at most one.          *)
Others(entry) ==
  LET hit == Cached(entry.parent, entry.token)
  IN IF hit = {} THEN cache ELSE RemoveAt(cache, CHOOSE i \in hit : TRUE)

Put_NoEviction(entry) == Append(Others(entry), entry)

(* _ByteCache.put: the key becomes the most recent; oldest entries go.     *)
Put(entry) ==
  LET kept == IF Len(Others(entry)) < CacheLimit THEN Others(entry)
              ELSE Tail(Others(entry))
  IN IF CacheLimit = 0 THEN <<>> ELSE Append(kept, entry)

(* add: find or create the root, and cover it for a non-empty transcript.  *)
Begin(c) ==
  /\ result = NoResult
  /\ current = Null
  /\ c \notin Rows
  /\ Len(rows) < MaxInputs
  /\ LET key   == Compatibility(c)
         known == key \in DOMAIN scopes
         root  == IF known THEN scopes[key] ELSE Len(nodes) + 1
         table == IF known THEN nodes
                  ELSE Append(nodes, [parent |-> Null, token |-> Null,
                                      covered |-> FALSE])
     IN /\ scopes' = [k \in DOMAIN scopes \cup {key} |->
                        IF k = key THEN root ELSE scopes[k]]
        /\ nodes' = IF Nonempty(c) THEN SetCovered(table, root) ELSE table
        /\ prefixEnd' = IF Nonempty(c) /\ PrefixDepth(c) = 0 THEN root ELSE Null
        /\ node' = root
  /\ current' = c
  /\ depth' = 0
  /\ UNCHANGED <<cache, rows, result>>

(* advance: one message, from the cache, from the table, or inserted.      *)
Advance ==
  /\ current # Null
  /\ depth < Len(Full(current))
  /\ LET token   == Full(current)[depth + 1]
         covered == depth + 1 <= PrefixDepth(current)
         hit     == Cached(node, token)
         found   == Lookup(node, token)
         next    == IF hit # {} THEN cache[CHOOSE i \in hit : TRUE].node
                    ELSE IF found # {} THEN CHOOSE i \in found : TRUE
                    ELSE Len(nodes) + 1
         was     == IF hit # {} THEN cache[CHOOSE i \in hit : TRUE].covered
                    ELSE IF found # {} THEN nodes[next].covered
                    ELSE covered
         table   == IF hit # {} \/ found # {} THEN nodes
                    ELSE Append(nodes, [parent |-> node, token |-> token,
                                        covered |-> covered])
     IN /\ nodes' = IF covered /\ ~was THEN SetCovered(table, next) ELSE table
        /\ cache' = Put([parent |-> node, token |-> token, node |-> next,
                         covered |-> was \/ covered])
        /\ node' = next
        /\ prefixEnd' = IF depth + 1 = PrefixDepth(current) THEN next ELSE prefixEnd
  /\ depth' = depth + 1
  /\ UNCHANGED <<scopes, rows, current, result>>

InsertRow ==
  /\ current # Null
  /\ depth = Len(Full(current))
  /\ rows' = Append(rows, [capture |-> current, endpoint |-> node,
                           prefixEnd |-> prefixEnd])
  /\ current' = Null /\ depth' = 0 /\ node' = Null /\ prefixEnd' = Null
  /\ UNCHANGED <<nodes, scopes, cache, result>>

(* active_snapshots                                                        *)
Active == {i \in DOMAIN rows : ~nodes[rows[i].endpoint].covered}

(* The recursive query: a node and all its ancestors.                      *)
Ancestors ==
  LET up[i \in NodeIds] ==
        {i} \cup (IF nodes[i].parent = Null THEN {} ELSE up[nodes[i].parent])
  IN [i \in NodeIds |-> up[i]]

RowContributors(i) ==
  {rows[i].capture} \cup
  (IF rows[i].prefixEnd = Null THEN {}
   ELSE {rows[j].capture : j \in {k \in DOMAIN rows :
                              rows[k].endpoint \in Ancestors[rows[i].prefixEnd]}})

ActiveRow(c) == CHOOSE i \in Active : rows[i].capture = c

(* The input is exhausted: the lazy collections of DiskAggregationResult,  *)
(* and the lookup cache is released.                                       *)
Finish ==
  /\ result = NoResult
  /\ current = Null
  /\ LET leaves == {rows[i].capture : i \in Active}
     IN result' = [ leaves       |-> leaves,
                    contributors |-> [c \in leaves |-> RowContributors(ActiveRow(c))],
                    intermediate |-> Rows \ leaves ]
  /\ cache' = <<>>
  /\ UNCHANGED <<nodes, scopes, rows, walk>>

Next == Advance \/ InsertRow \/ Finish \/ \E c \in Captures : Begin(c)

Spec == Init /\ [][Next]_vars

-----------------------------------------------------------------------------
(* Safety: the bit in the cache is the bit in the table; a cached TRUE     *)
(* over an uncovered row would suppress the update that hides an           *)
(* intermediate (disk_prefix.py, advance).  The types bound the cache.     *)
CacheCoherent ==
  /\ TypeOK
  /\ \A i \in DOMAIN cache :
    LET e == cache[i] IN /\ nodes[e.node].covered = e.covered
                         /\ nodes[e.node].parent = e.parent
                         /\ nodes[e.node].token = e.token

(* Safety: lineage never crosses a session, a thread or a user, never      *)
(* joins captures around different opaque compaction, and leaves a capture *)
(* with a redacted session to itself.                                      *)
NoCrossScopeLineage ==
  result # NoResult =>
    \A l \in result.leaves : \A c \in result.contributors[l] \ {l} :
      /\ c.compaction = l.compaction
      /\ c.session = l.session
      /\ IF l.session = Missing THEN c.user = l.user /\ ~c.masked /\ ~l.masked
                                ELSE c.thread = l.thread

(* Refinement: the result is the aggregation of exactly the captures read, *)
(* whatever their order, the cache size and the digests.                   *)
Abstract == INSTANCE PrefixLeaves WITH added <- Rows
ImplementsAggregation == Abstract!Spec
=============================================================================
