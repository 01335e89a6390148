----------------------------- MODULE MCS3Publish -----------------------------
(* Three names, the lineage between the two trajectories in sorted order,   *)
(* and candidates that share names with equal content, share names with     *)
(* other content, drop names, and are empty but for their lineage.          *)
EXTENDS S3Publish, TLC

CONSTANTS a, b

MCNames   == 1..3
MCLineage == 2
MCDigests == {a, b}
MCPlans   == { (1 :> a) @@ (2 :> a),
               (1 :> b) @@ (2 :> a) @@ (3 :> a),
               (2 :> b) @@ (3 :> a),
               (2 :> a) }
=============================================================================
