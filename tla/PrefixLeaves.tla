---------------------------- MODULE PrefixLeaves ----------------------------
(***************************************************************************)
(* What prefix aggregation promises: of the captures of an input, in       *)
(* whatever order they arrive, keep exactly those whose complete           *)
(* transcript no other capture continues, and give every kept leaf the     *)
(* captures it continues.                                                  *)
(***************************************************************************)
EXTENDS Transcripts

CONSTANTS NoResult,     \* the aggregation has not ended
          MaxInputs     \* bound on the captures of one aggregation

VARIABLES added,        \* captures aggregated so far
          result        \* NoResult until the input is exhausted

vars == <<added, result>>

Init == added = {} /\ result = NoResult

Aggregate(c) ==
  /\ result = NoResult
  /\ c \notin added
  /\ Cardinality(added) < MaxInputs
  /\ added' = added \cup {c}
  /\ UNCHANGED result

Exhausted ==
  /\ result = NoResult
  /\ result' = Aggregation(added)
  /\ UNCHANGED added

Next == Exhausted \/ \E c \in Captures : Aggregate(c)

Spec == Init /\ [][Next]_vars

=============================================================================
