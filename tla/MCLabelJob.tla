----------------------------- MODULE MCLabelJob -----------------------------
(* Two input releases that share a name with other content, the lineage     *)
(* between the trajectories; the larger takes two windows of one worker.    *)
EXTENDS LabelJob, TLC

CONSTANTS a, b, g

MCNames   == 1..4
MCLineage == 2
MCDigests == {a, b}
MCConfigs == {g}
MCInputs  == { (1 :> a) @@ (2 :> a),
               (1 :> b) @@ (2 :> a) @@ (3 :> b) @@ (4 :> a) }
=============================================================================
