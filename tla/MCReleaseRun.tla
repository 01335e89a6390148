---------------------------- MODULE MCReleaseRun ----------------------------
(* Six roots: t comes three times, with a better and a worse disposition;   *)
(* t, u and w are branches of one session, u and w made at the same time; v *)
(* has no session; intermediate captures a and x are shared, each root has  *)
(* its leaf.  The machine reports nothing, ample room, a smaller container  *)
(* for which the estimate of v is oversized, or a process tree that has     *)
(* outgrown its estimates.                                                  *)
EXTENDS ReleaseRun

Root(id, rank, key, sources) ==
  [id |-> id, rank |-> rank, key |-> key, sources |-> sources]

MCRoots == << Root("t", 1, 5, {"a", "l1"}), Root("t", 0, 7, {"a", "x", "l2"}),
              Root("u", 0, 1, {"a", "l3"}), Root("t", 1, 2, {"x", "l4"}),
              Root("v", 1, 3, {"x", "l5"}), Root("w", 0, 0, {"l6"}) >>

MCEstimates == <<2, 4, 3, 2, 9, 1>>

Sample(tree, limit, other) ==
  [tree |-> tree, rss |-> 2, limit |-> limit, other |-> other]

MCSamples == { Sample(Unknown, Unknown, Unknown), Sample(1, 16, 2),
               Sample(1, 10, 4), Sample(9, 16, 2) }

MCIds == <<"t", "u", "v", "w">>
MCInputs == [s \in {"a", "x", "l1", "l2", "l3", "l4", "l5", "l6",
                    "failed", "incomplete", "excluded", "skipped"} |->
               IF s \in Outcomes THEN s ELSE "eligible"]
MCSessionOf == [t \in {"t", "u", "v", "w"} |-> IF t = "v" THEN "none" ELSE "s"]
MCCreatedAt == [k \in 0 .. 7 |-> IF k <= 1 THEN 1 ELSE k]
MCBytes == [t |-> 3, u |-> 1, v |-> 1, w |-> 1]
=============================================================================
