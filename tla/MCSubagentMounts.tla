-------------------------- MODULE MCSubagentMounts --------------------------
(***************************************************************************)
(* Sessions for TLC: a main thread m, a thread c that may be its subagent, *)
(* and a thread d that competes with c, is nested in it, or closes a cycle *)
(* with it; every combination of the stories of the three.  A second       *)
(* family varies the agent messages by which a child is addressed and      *)
(* answers.  Sources number the captures in the order of their capture.    *)
(***************************************************************************)
EXTENDS SubagentMounts

CONSTANT NoSession

MCLinkFields == {"thread", "turn", "forked"}

Text(x)          == [kind |-> "text", id |-> x]
Spawn(id, args)  == [kind |-> "spawn", id |-> id, args |-> args]
Result(id, name) == [kind |-> "result", id |-> id, agent |-> name]

Root == <<"root">>
X    == <<"root", "x">>
Y    == <<"root", "y">>
Z    == <<"root", "z">>

Unlinked == [f \in MCLinkFields |-> None]
Link(thread, turn) == [Unlinked EXCEPT !.thread = thread, !.turn = turn]
Unmarked == [raw |-> None, call |-> None, task |-> None, link |-> Unlinked]
Opaque(raw) == [Unmarked EXCEPT !.raw = raw]

Capture(n, thread, turn, history, response) ==
  [source |-> n, session |-> "s", thread |-> thread, user |-> "u", masked |-> FALSE,
   compaction |-> "none", history |-> history, response |-> response,
   turn |-> turn, link |-> Unlinked, marker |-> Unmarked, agents |-> <<>>]

Main(n, turn, history, response) == Capture(n, "m", turn, history, response)

U == Text("u")
Done == Text("done")
A == Spawn("a", "x")
B == Spawn("b", "y")
B2 == Spawn("b", "x")
AA == Spawn("a", "y")

Called(n, turn) == Main(n, turn, <<U>>, <<A>>)
Answered(n, name) == Main(n, "2", <<U, A, Result("a", name)>>, <<Done>>)
Both(n, b) == Main(n, "1", <<U>>, <<A, b>>)
BothAnswered(n, b, x, y) ==
  Main(n, "2", <<U, A, b, Result("a", x), Result("b", y)>>, <<Done>>)

MainStories ==
  { {},
    {Called(1, "1")},
    {Called(1, "1"), Answered(2, None)},
    {Called(1, "1"), Answered(2, X)},
    {Both(1, B), BothAnswered(2, B, X, Y)},
    {Both(1, B2), BothAnswered(2, B2, None, None)},
    {Called(1, "1"), Called(2, "2")},                        \* sent again, not continued
    {Called(1, "1"), Called(2, "2"), Answered(3, X)},        \* sent again, then continued
    {Called(1, "1"), Answered(2, X), [Answered(3, X) EXCEPT !.response = <<Text("else")>>]},
    {Called(1, "1"), Answered(2, X), Main(3, "1", <<Text("v")>>, <<Done>>)},
    {Called(1, None), Answered(2, X)},
    {Called(1, None), Called(2, "1"), Answered(3, X)},
    {Main(1, "1", <<U>>, <<Spawn(None, "x")>>)},
    {Main(1, "1", <<U>>, <<Spawn("a", Malformed)>>),
     Main(2, "2", <<U, Spawn("a", Malformed), Result("a", X)>>, <<Done>>)},
    {Called(1, "1"), Main(2, "1", <<U>>, <<AA>>)},           \* one id, two arguments
    {Called(1, "1"), Main(2, "2", <<U, A, Result("a", X)>>, <<AA>>)},
    {Called(1, "1"),
     Main(2, "2", <<U, A, Result("a", X), Result("a", Z)>>, <<Done>>)},
    {Called(1, "1"), [Answered(2, X) EXCEPT !.thread = "n"]} }

Sub(n, thread, marker, link) ==
  [Capture(n, thread, "3", <<Text("brief")>>, <<Done>>) EXCEPT !.marker = marker, !.link = link]
Child(n, marker) == Sub(n, "c", marker, Link("m", "1"))
Opaque1 == Opaque("thread_spawn")
K == Spawn("k", "k")
J == Spawn("j", "j")

(* A child that makes a call of its own, and has its result.               *)
Nesting(n, thread, marker, link, call) ==
  LET made == [Sub(n, thread, marker, link) EXCEPT !.response = <<call>>]
  IN {made, [made EXCEPT !.source = n + 1, !.turn = "4", !.response = <<Done>>,
                         !.history = <<Text("brief"), call, Result(call.id, None)>>]}

ChildStories ==
  { {},
    {Child(11, Opaque1)}, {Child(11, Opaque("a"))}, {Child(11, Opaque("y"))},
    {Child(11, [Opaque("json") EXCEPT !.call = "b"])},
    {Child(11, [Opaque("json") EXCEPT !.task = "x"])},
    {Child(11, [Opaque("json") EXCEPT !.link = Link("other", None)])},
    {Child(11, Unmarked)},
    {Sub(11, "c", Opaque1, Link(None, "1"))},
    {Sub(11, "c", Opaque1, Link("m", "2"))},
    {Child(11, Opaque1),                                     \* linkage that changes
     [Sub(12, "c", Opaque1, Link("m", "2")) EXCEPT
        !.history = <<Text("brief"), Done, U>>, !.response = <<Text("end")>>]},
    {Child(11, Opaque1),                                     \* a longer branch, later
     [Child(12, Opaque1) EXCEPT !.history = <<Text("brief"), U, U>>]},
    Nesting(11, "c", Opaque1, Link("m", "1"), K),
    Nesting(11, "c", Opaque1, Link("d", "3"), K) }

OtherStories ==
  { {},
    {Sub(21, "d", Opaque1, Link("m", "1"))},
    {Sub(21, "d", Opaque1, Link("m", "2"))},
    {Sub(21, "d", Opaque("b"), Link("m", "1"))},
    {Sub(21, "d", Opaque1, Link("c", "3"))},
    Nesting(21, "d", Opaque1, Link("c", "3"), J) }

(* Agent messages: in the parent's continuation, and in the child.         *)
Message(id, author, recipient, after) ==
  [origin |-> "history", index |-> 3, item |-> [id |-> id, author |-> author, recipient |-> recipient],
   after |-> after]
Reply == Message("r", X, Root, {"a"})

RelayStories ==
  { <<>>, <<Reply>>, <<[Reply EXCEPT !.after = {}]>>, <<[Reply EXCEPT !.item.recipient = Z]>>,
    <<[Reply EXCEPT !.item.id = "a"]>>, <<Reply, [Reply EXCEPT !.index = 4]>>,
    <<Reply, [Reply EXCEPT !.item.id = "r2", !.index = 4]>>,
    <<Message("q", Y, Root, {"a"})>>, <<Reply, Message("q", Y, Root, {"a", "b"})>> }

Later(agents) ==   \* the transcript goes on, and repeats its messages
  [Answered(3, X) EXCEPT !.turn = "5", !.history = <<U, A, Result("a", X), Done, U>>,
                         !.response = <<Text("end")>>, !.agents = agents]

RelayMains ==
  UNION {{ {Called(1, "1"), [Answered(2, X) EXCEPT !.agents = s]},
           {Called(1, "1"), [Answered(2, X) EXCEPT !.agents = s], Later(<<Reply>>)},
           {Called(1, "1"), [Answered(2, X) EXCEPT !.agents = s],
            Later(<<[Reply EXCEPT !.index = 7]>>)},
           {Called(1, "1"), [Answered(2, X) EXCEPT !.agents = s],
            Later(<<[Reply EXCEPT !.item.author = Y]>>)},
           {Called(1, "1"), Answered(2, X),
            [Main(3, "6", <<Text("v")>>, <<Done>>) EXCEPT !.agents = s]},
           {Called(1, "1"),      \* seen first by a branch with a call of the same id
            [Main(2, "6", <<Text("v"), Spawn("a", "z"), Result("a", X)>>, <<Done>>) EXCEPT
               !.agents = s],
            [Answered(3, X) EXCEPT !.agents = <<[Reply EXCEPT !.index = 1, !.after = {}]>>]},
           {Both(1, B), [BothAnswered(2, B, X, Y) EXCEPT !.agents = s]},
           {Both(1, B), [BothAnswered(2, B, X, X) EXCEPT !.agents = s]} } : s \in RelayStories}

Brief(id, name) == [Message(id, Root, name, {}) EXCEPT !.index = 0]
SubAddressed(n, thread, marker, names) ==
  [Sub(n, thread, marker, Link("m", "1")) EXCEPT !.agents = names]

RelayChildren ==
  {{SubAddressed(11, "c", marker, names)} :
     marker \in {Opaque1, Opaque("a")},
     names \in {<<>>, <<Brief("i", X)>>, <<Brief("i", Y)>>, <<Brief("i", X), Brief("i2", Z)>>}}

RelayOthers == { {}, {SubAddressed(21, "d", Opaque("b"), <<Brief("i", Y)>>)},
                 {SubAddressed(21, "d", Opaque("b"), <<Brief("i", X)>>)} }

(* Captures without a session are aggregated by user: a transcript may be  *)
(* continued by another thread, which may have made the call itself.       *)
Anonymous(S) == {[c EXCEPT !.session = NoSession] : c \in S}
Continued(names) == [Sub(11, "c", Opaque1, Link("n", "9")) EXCEPT !.agents = names]

AnonymousMains ==
  { {Called(1, "1"), [Answered(2, X) EXCEPT !.thread = "n"], Main(3, "1", <<Text("v")>>, <<Done>>)},
    {Called(1, "1"), [Called(4, "9") EXCEPT !.thread = "n"], [Answered(2, X) EXCEPT !.thread = "n"]},
    {[Called(4, "9") EXCEPT !.thread = "n"], Answered(2, X),
     [Main(3, "2", <<U, Spawn("a", Malformed), Result("a", X)>>, <<Done>>) EXCEPT !.thread = "n"]},
    {[Called(1, "1") EXCEPT !.agents = <<[Reply EXCEPT !.item.author = Y]>>],
     [Called(4, "9") EXCEPT !.thread = "n"], [Answered(2, X) EXCEPT !.thread = "n"],
     [Main(3, "6", <<Text("v")>>, <<Done>>) EXCEPT !.thread = "n", !.agents = <<Reply>>]} }

MCInputs ==
  {a \cup b \cup c : a \in MainStories, b \in ChildStories, c \in OtherStories}
  \cup {a \cup b \cup c : a \in RelayMains, b \in RelayChildren, c \in RelayOthers}
  \cup {Anonymous(a \cup b \cup c) : a \in AnonymousMains,
          b \in ChildStories \cup {{Continued(<<>>)}, {Continued(<<Brief("i", X)>>)}},
          c \in {{}, {Sub(21, "d", Opaque1, Link("n", "9"))}}}

MCCaptures == UNION MCInputs
MCTokens == UNION {Range(c.history) \cup Range(c.response) : c \in MCCaptures}

=============================================================================
