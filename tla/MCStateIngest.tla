--------------------------- MODULE MCStateIngest ---------------------------
(* Two sources, two configurations that disagree on a content, three        *)
(* contents: a turn, a content only one configuration parses, and one that  *)
(* is not a trajectory turn.                                                *)
EXTENDS StateIngest

CONSTANTS c1, c2, x, y, z

MCPaths    == 1..2
MCConfigs  == {c1, c2}
MCContents == {x, y, z}
MCKind     == [g \in MCConfigs |->
                [c \in MCContents |->
                   IF c = x THEN "turn"
                   ELSE IF c = z THEN "other"
                   ELSE IF g = c1 THEN "turn" ELSE "malformed"]]
=============================================================================
