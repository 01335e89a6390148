----------------------------- MODULE MCPrefixAggregation -----------------------------
(* Every transcript of at most two messages of history and one of response  *)
(* over two tokens whose digests collide, under one identity; short ones of *)
(* a second source; and a message with its continuation under every         *)
(* identity that _compatibility distinguishes.                              *)
EXTENDS PrefixAggregation

CONSTANTS x, y, s1, u1, u2, t1, t2, p, q

MCTokens == {x, y}
MCHash   == [t \in MCTokens |-> "same"]

Texts(n) == UNION {[1..k -> MCTokens] : k \in 0..n}

Capture(source, identity, h, r) ==
  [source |-> source, session |-> identity[1], thread |-> identity[2],
   user |-> identity[3], masked |-> identity[4], compaction |-> identity[5],
   history |-> h, response |-> r]

ShapeCaptures ==
  {Capture(1, <<s1, t1, u1, FALSE, p>>, h, r) : h \in Texts(2), r \in Texts(1)}
  \cup {Capture(2, <<s1, t1, u1, FALSE, p>>, h, r) : h \in {<<>>, <<x>>}, r \in Texts(1)}

Identities ==
  { <<s1, t1, u1, FALSE, p>>, <<s1, t2, u1, FALSE, p>>, <<s1, t1, u2, FALSE, q>>,
    <<Missing, t1, u1, FALSE, p>>, <<Missing, t2, u1, FALSE, p>>,
    <<Missing, t1, u2, FALSE, p>>, <<Missing, t1, u1, TRUE, p>> }

MCCaptures ==
  ShapeCaptures
  \cup {Capture(1, i, <<>>, <<x>>) : i \in Identities}
  \cup {Capture(2, i, <<x>>, <<y>>) : i \in Identities}
=============================================================================
