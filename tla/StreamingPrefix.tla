--------------------------- MODULE StreamingPrefix ---------------------------
(***************************************************************************)
(* streaming.py, streaming_prefix_leaves: the in-memory aggregation.  Each *)
(* trie node counts the active leaves whose history runs through it, and   *)
(* indexes the active leaves and all the captures that end at it.  A       *)
(* capture that is already covered leaves no trace but its path; one that  *)
(* covers active leaves takes them out of every posting first.             *)
(*                                                                         *)
(* A node is named by its compatibility key and the tokens on its path:    *)
(* advance compares whole tokens, so equal paths reach the same node.      *)
(*                                                                         *)
(* A definition named Operation_Deviation is a deviation of Operation that *)
(* a property must detect; no specification uses it.                       *)
(***************************************************************************)
EXTENDS Transcripts

CONSTANTS NoResult, MaxInputs

PathNode(c, n) == <<Compatibility(c), SubSeq(Full(c), 1, n)>>

Endpoint(c) == PathNode(c, Len(Full(c)))

(* prefix_nodes: from the root to the last message before the complete     *)
(* transcript; none for an empty capture.                                  *)
PrefixNodes(c) ==
  IF Nonempty(c) THEN {PathNode(c, n) : n \in 0..PrefixDepth(c)} ELSE {}

TrieNodes == UNION {{PathNode(c, n) : n \in 0..Len(Full(c))} : c \in Captures}

VARIABLES paths,          \* all_paths
          leaves,         \* the active leaves
          extenders,      \* extender_count of each node
          endpointLeaves, \* endpoint_leaf_ids of each node
          endingPaths,    \* ending_paths of each node
          result

vars == <<paths, leaves, extenders, endpointLeaves, endingPaths, result>>

Init ==
  /\ paths = {} /\ leaves = {}
  /\ extenders = [n \in TrieNodes |-> 0]
  /\ endpointLeaves = [n \in TrieNodes |-> {}]
  /\ endingPaths = [n \in TrieNodes |-> {}]
  /\ result = NoResult

(* An active leaf's history already runs through the endpoint.             *)
AddCovered(c) ==
  /\ extenders[Endpoint(c)] > 0
  /\ endingPaths' = [endingPaths EXCEPT ![Endpoint(c)] = @ \cup {c}]
  /\ UNCHANGED <<leaves, extenders, endpointLeaves>>

CoveredLeaves(c) == UNION {endpointLeaves[n] : n \in PrefixNodes(c)}

AddLeaf_NoRelease(c) ==
  /\ extenders[Endpoint(c)] = 0
  /\ LET covered == CoveredLeaves(c)
     IN /\ leaves' = (leaves \ covered) \cup {c}
        /\ extenders' = [n \in TrieNodes |->
             extenders[n] + (IF n \in PrefixNodes(c) THEN 1 ELSE 0)]
        /\ endpointLeaves' = [n \in TrieNodes |->
             (endpointLeaves[n] \ covered) \cup (IF n = Endpoint(c) THEN {c} ELSE {})]
  /\ endingPaths' = [endingPaths EXCEPT ![Endpoint(c)] = @ \cup {c}]

AddLeaf(c) ==
  /\ extenders[Endpoint(c)] = 0
  /\ LET covered == CoveredLeaves(c)
     IN /\ leaves' = (leaves \ covered) \cup {c}
        /\ extenders' = [n \in TrieNodes |->
             extenders[n] - Cardinality({l \in covered : n \in PrefixNodes(l)})
                          + (IF n \in PrefixNodes(c) THEN 1 ELSE 0)]
        /\ endpointLeaves' = [n \in TrieNodes |->
             (endpointLeaves[n] \ covered) \cup (IF n = Endpoint(c) THEN {c} ELSE {})]
  /\ endingPaths' = [endingPaths EXCEPT ![Endpoint(c)] = @ \cup {c}]

Add(c) ==
  /\ result = NoResult
  /\ c \notin paths
  /\ Cardinality(paths) < MaxInputs
  /\ paths' = paths \cup {c}
  /\ AddCovered(c) \/ AddLeaf(c)
  /\ UNCHANGED result

Finish_ActiveOnly ==
  /\ result = NoResult
  /\ result' = [ leaves       |-> leaves,
                 contributors |-> [l \in leaves |->
                    {l} \cup UNION {endpointLeaves[n] : n \in PrefixNodes(l)}],
                 intermediate |-> paths \ leaves ]
  /\ UNCHANGED <<paths, leaves, extenders, endpointLeaves, endingPaths>>

Finish ==
  /\ result = NoResult
  /\ result' = [ leaves       |-> leaves,
                 contributors |-> [l \in leaves |->
                    {l} \cup UNION {endingPaths[n] : n \in PrefixNodes(l)}],
                 intermediate |-> paths \ leaves ]
  /\ UNCHANGED <<paths, leaves, extenders, endpointLeaves, endingPaths>>

Next == Finish \/ \E c \in Captures : Add(c)

Spec == Init /\ [][Next]_vars

-----------------------------------------------------------------------------
(* Safety: a reference count is exactly the number of active leaves whose  *)
(* history runs through the node, and the postings of a node are exactly   *)
(* the active leaves and the paths that end there.  One count too many     *)
(* would suppress a maximal capture for ever, one too few would publish an *)
(* intermediate, a posting left behind would release a leaf twice.         *)
IndexExact ==
  \A n \in TrieNodes :
    /\ extenders[n] = Cardinality({l \in leaves : n \in PrefixNodes(l)})
    /\ endpointLeaves[n] = {l \in leaves : Endpoint(l) = n}
    /\ endingPaths[n] = {c \in paths : Endpoint(c) = n}

(* Refinement: same promise as the disk-backed aggregation.                *)
Abstract == INSTANCE PrefixLeaves WITH added <- paths
ImplementsAggregation == Abstract!Spec
=============================================================================
