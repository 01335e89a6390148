---------------------------- MODULE Transcripts ----------------------------
(***************************************************************************)
(* Cumulative captures and the relation that aggregation decides between   *)
(* them (streaming.py, aggregate.py): which capture's history continues    *)
(* which complete transcript, and what follows for a set of captures.      *)
(*                                                                         *)
(* A capture is a record: its identity (source, session, thread, user,     *)
(* masked, compaction) and its history and response as sequences of        *)
(* message tokens.  A token stands for message_prefix_token: two messages  *)
(* have the same token when their conversational fields agree.             *)
(*                                                                         *)
(* A definition named Operation_Deviation is a deviation of Operation that *)
(* a property must detect; no specification uses it.                       *)
(***************************************************************************)
EXTENDS Naturals, Sequences, FiniteSets

CONSTANTS Captures,     \* the captures that may arrive
          Tokens,       \* message tokens
          Missing       \* no session id, or the no_session_id sentinel

ASSUME CaptureAssumption ==
  \A c \in Captures : /\ c.history \in Seq(Tokens)
                      /\ c.response \in Seq(Tokens)

Scope_AnyThread(c) ==
  CASE c.session # Missing             -> <<"session", c.session>>
    [] c.session = Missing /\ c.masked -> <<"masked-session-source", c.source>>
    [] OTHER                           -> <<"user", c.user>>

(* _compatibility: a real session with its thread, a redacted session by   *)
(* source alone, otherwise the user; and the same opaque compaction.       *)
Scope(c) ==
  CASE c.session # Missing             -> <<"session", c.session, c.thread>>
    [] c.session = Missing /\ c.masked -> <<"masked-session-source", c.source>>
    [] OTHER                           -> <<"user", c.user>>

Compatibility(c) == <<Scope(c), c.compaction>>

Full(c) == c.history \o c.response

(* How many leading messages of c's history are a strict prefix of c.      *)
(* Meaningful for a non-empty transcript.                                  *)
PrefixDepth(c) ==
  IF c.response # <<>> THEN Len(c.history) ELSE Len(c.history) - 1

Nonempty(c) == Full(c) # <<>>

(* d's history continues the complete transcript of c.                     *)
Covers(d, c) ==
  /\ Compatibility(c) = Compatibility(d)
  /\ Nonempty(d)
  /\ Len(Full(c)) <= PrefixDepth(d)
  /\ Full(c) = SubSeq(d.history, 1, Len(Full(c)))

Leaves(S) == {c \in S : \A d \in S : ~Covers(d, c)}

Contributors(S, l) == {l} \cup {c \in S : Covers(l, c)}

Aggregation(S) ==
  [ leaves       |-> Leaves(S),
    contributors |-> [l \in Leaves(S) |-> Contributors(S, l)],
    intermediate |-> S \ Leaves(S) ]

=============================================================================
