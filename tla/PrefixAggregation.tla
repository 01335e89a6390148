-------------------------- MODULE PrefixAggregation --------------------------
(***************************************************************************)
(* The two aggregations side by side on the same captures.  The pipeline   *)
(* uses the disk-backed one; streaming_prefix_leaves is its in-memory      *)
(* counterpart in the package, and which of them was used may not show in  *)
(* the result.                                                             *)
(***************************************************************************)
EXTENDS DiskPrefix

VARIABLES paths, leaves, extenders, endpointLeaves, endingPaths,
          memoryResult  \* what the in-memory aggregation returned

memory == <<paths, leaves, extenders, endpointLeaves, endingPaths, memoryResult>>

Memory == INSTANCE StreamingPrefix WITH result <- memoryResult

BothInit == Init /\ Memory!Init

BothNext ==
  \/ \E c \in Captures : Begin(c) /\ UNCHANGED memory
  \/ Advance /\ UNCHANGED memory
  \/ InsertRow /\ Memory!Add(current)
  \/ Finish /\ Memory!Finish

BothSpec == BothInit /\ [][BothNext]_<<vars, memory>>

-----------------------------------------------------------------------------
(* Safety: the reference counts and the postings of the in-memory trie are *)
(* exact after every capture (StreamingPrefix).                            *)
IndexExact == current = Null => Memory!IndexExact

(* Safety: on the same captures both aggregations return the same leaves,  *)
(* the same contributors of each and the same intermediates.               *)
SameResult == memoryResult = result
=============================================================================
