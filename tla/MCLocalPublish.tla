---------------------------- MODULE MCLocalPublish ----------------------------
(* Three names and candidates that share, change and drop each other's      *)
(* names; j1 alone, or j1 and j2 started on the same directory.             *)
EXTENDS LocalPublish, TLC

CONSTANTS a, b, j1, j2

MCJobs   == {j1, j2}
OneOrTwo == {{j1}, {j1, j2}}
One      == {{j1}}

MCNames   == 1..3
MCDigests == {a, b}
MCPlans   == { (1 :> a) @@ (2 :> a),
               (1 :> b) @@ (3 :> a),
               (2 :> b) @@ (3 :> a) }

StopOrPower == {"stop", "power"}
Unreadable  == {"unreadable"}
=============================================================================
