---------------------------- MODULE MCClassifier ----------------------------
(* Transcripts that fit, that need one long text cut, both ends of two, or  *)
(* many short ones dropped; three reductions, the last at the least budget. *)
EXTENDS Classifier, TLC

CONSTANTS s1, c1, c2, c3

MCTranscripts == {<<>>, <<3>>, <<9, 4>>, <<2, 2, 2, 2, 2>>, <<1, 12, 1>>, <<1, 1, 1, 1, 1, 1, 1, 1>>}
=============================================================================
