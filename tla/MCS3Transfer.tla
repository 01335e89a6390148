---------------------------- MODULE MCS3Transfer ----------------------------
(* Five captures, two of them larger than the window of reads; listings in *)
(* any order of keys, with a directory marker, and with a repeated key.    *)
(* Four trajectories, the second a multipart upload of two parts, over two *)
(* threads; the lineage outgrows its buffer with the third row.            *)
EXTENDS S3Transfer, TLC

CONSTANT dir

MCCaptures == 1 .. 5
MCListings == {<<3, 1, dir, 5, 2, 4>>, <<1, 2, 1>>}
MCSizes == (1 :> 1) @@ (2 :> 5) @@ (3 :> 0) @@ (4 :> 2) @@ (5 :> 4)
MCParts == <<0, 2, 0, 0>>
=============================================================================
