---------------------------- MODULE SubagentMounts ----------------------------
(***************************************************************************)
(* How the captures of one session become trees: plan_subagent_mounts of   *)
(* subagents.py with what pipeline.py does before it (leaves that repeat   *)
(* one another are merged and cut down to their spawn messages) and after  *)
(* it (each root and each orphan is materialized, one after the other).    *)
(* A trajectory is mounted into another only on structured evidence of one *)
(* spawn call; whatever is missing, repeated or contradictory leaves it an *)
(* orphan and marks who is concerned.                                      *)
(*                                                                         *)
(* A capture is a record of Transcripts with turn, link (the linkage       *)
(* fields), marker and agents (its agent_message records).  Agent names    *)
(* are paths, task names elements of a path.  A leaf is the capture that   *)
(* represents it; captures are ordered by source.                          *)
(*                                                                         *)
(* A definition named Operation_Deviation is a deviation of Operation that *)
(* a property must detect; no specification uses it.                       *)
(***************************************************************************)
EXTENDS Transcripts, SequencesExt

CONSTANTS Inputs,       \* the sets of captures that a session may hold
          LinkFields,   \* parent thread, parent turn, fork source
          None,         \* an empty field
          Malformed     \* arguments that are no JSON object

ASSUME MountAssumption ==
  /\ Inputs \subseteq SUBSET Captures
  /\ \A S \in Inputs : /\ IsFiniteSet(S)
                       /\ \A c, d \in S : c.session = d.session
  /\ {"thread", "turn"} \subseteq LinkFields
  /\ None # Malformed
  /\ \A c \in Captures : /\ c.source \in Nat /\ DOMAIN c.link = LinkFields
                         /\ c.agents \in Seq(Range(c.agents))
  /\ \A m \in Tokens : m.kind = "result" => m.agent # <<>>

VARIABLES pc,
          captures,
          leaves,       \* representatives of the flat leaves
          merged,       \* the leaves that each of them stands for
          events,       \* spawn evidence: thread, turn, call, task, agent, conflicted
          parentOf,     \* the leaf that holds an event's call
          issues,       \* pairs of a leaf and a diagnostic code
          invalid,      \* children that cannot be mounted
          edges,        \* parent, child, call, turn, agent, relay
          published     \* what was materialized

plan == <<events, parentOf, issues, invalid, edges>>
vars == <<pc, captures, leaves, merged, plan, published>>

Init ==
  /\ pc = "aggregate"
  /\ captures \in Inputs
  /\ leaves = {} /\ merged = <<>>
  /\ events = {} /\ parentOf = <<>> /\ issues = {} /\ invalid = {} /\ edges = {}
  /\ published = {}

-----------------------------------------------------------------------------
(* Messages: a text, a spawn call, or the result of one.                   *)
Spawns(messages) == {m \in Range(messages) : m.kind = "spawn"}
SpawnIds(c) == {m.id : m \in Spawns(Full(c))}
Task(m) == IF m.args = Malformed THEN None ELSE m.args

(* _spawn_only_messages: calls, and results with the id of any call.       *)
SpawnOnly(messages) ==
  SelectSeq(messages, LAMBDA m : \/ m.kind = "spawn"
                                 \/ /\ m.kind = "result"
                                    /\ \E s \in Spawns(messages) : s.id = m.id)

First(S) == CHOOSE c \in S : \A d \in S : c.source <= d.source

IsSubagent(c) == c.marker.raw # None \/ \E f \in LinkFields : c.link[f] # None

(* What leaf aggregation keeps of a session for the planner.               *)
Evidence == {c \in captures : Spawns(c.response) # {} \/ IsSubagent(c) \/ c.agents # <<>>}
            \cup UNION {merged[l] : l \in leaves}

Of(thread) == {c \in Evidence : c.thread = thread}
LeavesOf(thread) == {l \in leaves : l.thread = thread}

LocalRecords(S) == UNION {Range(c.agents) : c \in S}
Records(l) == LocalRecords(UNION {Contributors(captures, d) : d \in merged[l]})

(* _flat_semantic_key                                                      *)
SemanticKey(l) ==
  <<l.thread, l.link, l.marker, {<<l.turn, m>> : m \in Spawns(l.response)}, Full(l),
    {[origin |-> r.origin, index |-> r.index, item |-> r.item] :
       r \in LocalRecords(Contributors(captures, l))},
    IF l.masked THEN {l.source} ELSE {}>>

Aggregate ==
  /\ pc = "aggregate"
  /\ LET maximal == Leaves(captures)
         same(l) == {d \in maximal : SemanticKey(d) = SemanticKey(l)}
     IN /\ leaves' = {First(same(l)) : l \in maximal}
        /\ merged' = [l \in leaves' |-> same(l)]
  /\ pc' = "extract"
  /\ UNCHANGED <<captures, plan, published>>

-----------------------------------------------------------------------------
(* _extract_spawn_evidence                                                 *)
ResultNames(thread, call) ==
  {m.agent : m \in {n \in UNION {
       {Full(c)[i] : i \in {j \in DOMAIN Full(c) :
          \E k \in 1 .. (j - 1) : Full(c)[k].kind = "spawn" /\ Full(c)[k].id = call}} :
       c \in Of(thread)} : n.kind = "result" /\ n.id = call}} \ {None}

Occurrences == UNION {{[in |-> c, call |-> m] : m \in Spawns(c.response)} : c \in Evidence}
Usable == {o \in Occurrences : o.in.turn # None /\ o.call.id # None}
Key(o) == <<o.in.thread, o.in.turn, o.call.id>>
TasksOf(key) == {Task(o.call) : o \in {p \in Usable : Key(p) = key}}

Event(key) ==
  LET names == ResultNames(key[1], key[3])
  IN [thread |-> key[1], turn |-> key[2], call |-> key[3],
      task |-> CHOOSE t \in TasksOf(key) : TRUE,
      agent |-> IF Cardinality(names) = 1 THEN CHOOSE n \in names : TRUE ELSE <<>>,
      conflicted |-> Cardinality(names) > 1]

(* diagnostic_applies_to_snapshot: by the call, where there is one, else   *)
(* by its signature among the calls without an id.                         *)
Applies(l, thread, turn, call) ==
  /\ l.thread = thread
  /\ \E m \in Spawns(Full(l)) : m.id = call.id /\ (call.id = None => m.args = call.args)

Reported(code, S) ==
  UNION {{<<l, code>> : l \in {k \in leaves : Applies(k, o.in.thread, o.in.turn, o.call)}} :
         o \in S}

(* _agent_message_index: the records of a thread, each as its first        *)
(* capture had it; ids that repeat within a capture or that name different *)
(* agents are blocked.                                                     *)
Ids(thread) == {r.item.id : r \in LocalRecords(Of(thread))} \ {None}
Replays(thread, id) == {c \in Of(thread) : \E r \in Range(c.agents) : r.item.id = id}
Repeated(thread, id) ==
  \E c \in Of(thread) : Cardinality({i \in DOMAIN c.agents : c.agents[i].item.id = id}) > 1
Contradicted(thread, id) ==
  Cardinality({r.item : r \in {s \in LocalRecords(Of(thread)) : s.item.id = id}}) > 1

ThreadRecords(thread) ==
  {CHOOSE r \in Range(First(Replays(thread, id)).agents) : r.item.id = id :
     id \in {i \in Ids(thread) : ~Repeated(thread, i) /\ ~Contradicted(thread, i)}}

MessageIssues ==
  UNION {{<<l, "duplicate_agent_message_id">> :
            l \in {k \in leaves : \E i \in Ids(k.thread) : Repeated(k.thread, i)}},
         {<<l, "conflicting_agent_message_evidence">> :
            l \in {k \in leaves : \E i \in Ids(k.thread) : Contradicted(k.thread, i)}}}

Extract ==
  /\ pc = "extract"
  /\ events' = {Event(key) : key \in {k \in {Key(o) : o \in Usable} : Cardinality(TasksOf(k)) = 1}}
  /\ issues' = UNION {
       Reported("spawn_missing_turn_id", {o \in Occurrences : o.in.turn = None}),
       Reported("spawn_missing_call_id",
                {o \in Occurrences : o.in.turn # None /\ o.call.id = None}),
       Reported("malformed_spawn_arguments", {o \in Usable : o.call.args = Malformed}),
       Reported("conflicting_spawn_agent_name",
                {o \in Usable : Cardinality(ResultNames(o.in.thread, o.call.id)) > 1}),
       Reported("conflicting_spawn_evidence",
                {o \in Usable : Cardinality(TasksOf(Key(o))) > 1}),
       MessageIssues}
  /\ pc' = "bind"
  /\ UNCHANGED <<captures, leaves, merged, parentOf, invalid, edges, published>>

(* _contains_spawn, and the candidates of an event among the leaves.       *)
Holders(e) ==
  {l \in LeavesOf(e.thread) :
     \E m \in Spawns(Full(l)) : m.id = e.call /\ (m.args = Malformed \/ m.args = e.task)}

Bind_First ==
  /\ pc = "bind"
  /\ parentOf' = [e \in {f \in events : Holders(f) # {}} |-> First(Holders(e))]
  /\ pc' = "link"
  /\ UNCHANGED <<captures, leaves, merged, events, issues, invalid, edges, published>>

Bind ==
  /\ pc = "bind"
  /\ parentOf' = [e \in {f \in events : Cardinality(Holders(f)) = 1} |-> First(Holders(e))]
  /\ issues' = issues \cup
       (UNION {{<<l, "ambiguous_parent_leaf">> : l \in Holders(e)} :
               e \in {f \in events : Cardinality(Holders(f)) > 1}}) \cup
       (UNION {{<<l, "missing_parent_leaf">> :
                  l \in {k \in LeavesOf(e.thread) : e.call \in SpawnIds(k) \/ k.turn = e.turn}} :
               e \in {f \in events : Holders(f) = {}}})
  /\ pc' = "link"
  /\ UNCHANGED <<captures, leaves, merged, events, invalid, edges, published>>

-----------------------------------------------------------------------------
(* Children: linkage that changes within the thread, and the branch that   *)
(* is mounted of several.  The planner is given routing copies: of each    *)
(* leaf only its spawn messages.                                           *)
Subagents == {l \in leaves : IsSubagent(l)}
Linked(l) == {c \in Of(l.thread) : IsSubagent(c)}

Size(l) == Len(SpawnOnly(Full(l)))

Branches(l) == {d \in Subagents : d.thread = l.thread}
Selected(l) ==
  First({d \in Branches(l) : \A e \in Branches(l) : Size(e) <= Size(d)})

LinkIssues ==
  {<<l, "conflicting_parent_thread">> : l \in {k \in Subagents :
     \E f \in LinkFields : Cardinality({c.link[f] : c \in Linked(k)}) > 1}}
  \cup {<<l, "conflicting_marker_metadata">> : l \in {k \in Subagents :
     Cardinality({c.marker : c \in Linked(k)}) > 1}}
  \cup {<<l, "unselected_child_branch">> : l \in {k \in Subagents : k # Selected(k)}}

CheckLinks ==
  /\ pc = "link"
  /\ issues' = issues \cup LinkIssues
  /\ invalid' = {i[1] : i \in LinkIssues}
  /\ pc' = "propose"
  /\ UNCHANGED <<captures, leaves, merged, events, parentOf, edges, published>>

-----------------------------------------------------------------------------
ParentAgent(name) == IF Len(name) > 1 THEN Front(name) ELSE <<>>

(* _child_agent_recipient: whom the inbound messages of a thread address.  *)
Recipients(thread) ==
  {r.item.recipient : r \in {s \in ThreadRecords(thread) :
     /\ s.origin = "history" /\ s.item.author # <<>> /\ s.item.recipient # <<>>
     /\ ParentAgent(s.item.recipient) = s.item.author}}

(* _validate_child                                                         *)
ChildFaults(c) ==
  (IF c.marker.raw = None THEN {"missing_subagent_marker"} ELSE {})
  \cup (IF c.link.thread = None THEN {"missing_parent_thread_id"} ELSE {})
  \cup (IF c.link.turn = None THEN {"missing_parent_turn_id"} ELSE {})
  \cup (IF \E f \in LinkFields : c.marker.link[f] \notin {None, c.link[f]}
        THEN {"conflicting_marker_metadata"} ELSE {})

Claimed(c) == {e \in events : e.thread = c.link.thread /\ e.turn = c.link.turn}

(* Structured fields of the marker constrain; an opaque one only decides   *)
(* between several calls, when it is exactly one of their names.           *)
Routed(c) ==
  LET explicit == {e \in Claimed(c) : /\ c.marker.call \in {None, e.call}
                                      /\ c.marker.task \in {None, e.task}}
      exact == {e \in explicit : c.marker.raw \in {e.call, e.task}}
  IN IF c.marker.call = None /\ c.marker.task = None /\ Cardinality(explicit) > 1 /\ exact # {}
     THEN exact ELSE explicit

(* _filter_spawns_by_recipient                                             *)
Addressed(S, name) ==
  LET canonical == {e \in S : e.agent = name}
  IN IF canonical # {} THEN canonical
     ELSE {e \in S : e.agent = <<>> /\ ~e.conflicted /\ e.task = Last(name)}

Candidates(c) ==
  LET names == Recipients(c.thread)
  IN IF names = {} \/ (Cardinality(Routed(c)) = 1 /\ \E e \in Routed(c) : e.conflicted)
     THEN Routed(c)
     ELSE Addressed(Routed(c), CHOOSE n \in names : TRUE)

(* Why a child that passes the checks of its linkage has no mount: the     *)
(* first reason.  A parent that is missing or ambiguous was reported when  *)
(* its event was bound.                                                    *)
Refusal(c) ==
  CASE Claimed(c) = {}                          -> {"missing_spawn_call"}
    [] Claimed(c) # {} /\ Routed(c) = {}        -> {"spawn_routing_mismatch"}
    [] Routed(c) # {} /\ Cardinality(Recipients(c.thread)) > 1
                                                -> {"conflicting_child_agent_name"}
    [] OTHER -> IF Candidates(c) = {} THEN {"spawn_routing_mismatch"}
                ELSE IF Cardinality(Candidates(c)) > 1 THEN {"ambiguous_spawn_call"} ELSE {}

EdgeTo(c, e) == [parent |-> parentOf[e], child |-> c, call |-> e.call, turn |-> e.turn,
                 agent |-> e.agent, relay |-> None]

Propose ==
  /\ pc = "propose"
  /\ LET sound   == {c \in Subagents \ invalid : ChildFaults(c) = {}}
         routed  == {c \in sound : Refusal(c) = {}}
         mounted == {c \in routed : Candidates(c) \subseteq DOMAIN parentOf}
     IN /\ edges' = UNION {{EdgeTo(c, e) : e \in Candidates(c)} : c \in mounted}
        /\ invalid' = Subagents \ mounted
        /\ issues' = issues
             \cup (UNION {{<<c, code>> : code \in ChildFaults(c)} : c \in Subagents})
             \cup (UNION {{<<c, code>> : code \in Refusal(c)} : c \in sound})
  /\ pc' = "group"
  /\ UNCHANGED <<captures, leaves, merged, events, parentOf, published>>

(* A call has one child: of several claimants none is chosen.              *)
Claims_ByEvent(e) == {d \in edges : d.parent = e.parent /\ d.call = e.call /\ d.turn = e.turn}

Claims(e) == {d \in edges : d.parent = e.parent /\ d.call = e.call}

Group ==
  /\ pc = "group"
  /\ LET shared == {e \in edges : Cardinality(Claims(e)) > 1}
     IN /\ edges' = edges \ shared
        /\ invalid' = invalid \cup {e.child : e \in shared}
        /\ issues' = issues \cup {<<e.child, "multiple_children_for_spawn">> : e \in shared}
  /\ pc' = "cycles"
  /\ UNCHANGED <<captures, leaves, merged, events, parentOf, published>>

-----------------------------------------------------------------------------
(* Leaves that edges lead to from S, in at most n steps.                   *)
Within(E, S, n) ==
  LET step[k \in 0 .. n] ==
        IF k = 0 THEN S
        ELSE step[k - 1] \cup {e.child : e \in {d \in E : d.parent \in step[k - 1]}}
  IN step
Reach(E, S) == Within(E, S, Cardinality(leaves))[Cardinality(leaves)]

Children(E, l) == {e.child : e \in {d \in E : d.parent = l}}

(* _cycle_nodes; only edges within what is left are kept.                  *)
OnCycle == {l \in leaves : l \in Reach(edges, Children(edges, l))}

BreakCycles ==
  /\ pc = "cycles"
  /\ edges' = {e \in edges : {e.parent, e.child} \cap OnCycle = {}}
  /\ invalid' = invalid \cup OnCycle
  /\ issues' = issues \cup {<<l, "mount_cycle">> : l \in OnCycle}
  /\ pc' = "relay"
  /\ UNCHANGED <<captures, leaves, merged, events, parentOf, published>>

-----------------------------------------------------------------------------
(* _attach_relay_ids: the message of the parent's thread by which a child  *)
(* answered.  It needs the name that the call's result gave the child, the *)
(* child's own recipient of that name, the parent's name as the recipient  *)
(* of the message, and the call's completion before it.                    *)
From(e) == {r \in ThreadRecords(e.parent.thread) : r.item.author = e.agent}
ToParent(e) == {r \in From(e) : ParentAgent(e.agent) \in {<<>>, r.item.recipient}}
After(e) == {r \in ToParent(e) : e.call \in r.after}
RelayId(e) == (CHOOSE r \in After(e) : TRUE).item.id

RelayFault(e) ==
  LET names == Recipients(e.child.thread)
  IN CASE e.agent = <<>> \/ From(e) = {}             -> "none"
       [] Cardinality(names) > 1                     -> "conflicting_child_agent_name"
       [] names = {}                                 -> "missing_child_agent_name"
       [] Cardinality(names) = 1 /\ e.agent \notin names
                                                     -> "conflicting_child_agent_name"
       [] OTHER ->
            IF ToParent(e) = {} THEN "agent_relay_recipient_mismatch"
            ELSE IF After(e) = {} THEN "agent_relay_before_spawn"
            ELSE IF Cardinality(After(e)) > 1 THEN "ambiguous_agent_relay"
            ELSE IF RelayId(e) = e.call THEN "relay_id_conflict"
            ELSE "attached"

(* A message from a descendant that no edge of the parent knows.           *)
Stray(l) ==
  LET mine  == {e \in edges : e.parent = l}
      known == {e.agent : e \in mine} \ {<<>>}
  IN {r \in ThreadRecords(l.thread) :
        /\ known # {} /\ r.item.author \notin known
        /\ r.item.recipient \in {ParentAgent(n) : n \in known} \ {<<>>}
        /\ IsStrictPrefix(r.item.recipient, r.item.author)
        /\ r.after \cap {e.call : e \in mine} # {}}

AttachRelays ==
  /\ pc = "relay"
  /\ LET eligible == {e \in edges : RelayFault(e) = "attached"}
         shared(e) == \E d \in eligible \ {e} : d.parent = e.parent /\ RelayId(d) = RelayId(e)
     IN /\ edges' = {IF e \in eligible /\ ~shared(e) THEN [e EXCEPT !.relay = RelayId(e)] ELSE e :
                       e \in edges}
        /\ issues' = issues
             \cup {<<e.parent, RelayFault(e)>> :
                      e \in {d \in edges : RelayFault(d) \notin {"none", "attached"}}}
             \cup (UNION {{<<e.parent, "relay_id_conflict">>, <<e.child, "relay_id_conflict">>} :
                       e \in {d \in eligible : shared(d)}})
             \cup {<<l, "unmatched_agent_message">> : l \in {k \in leaves : Stray(k) # {}}}
  /\ pc' = "settle"
  /\ UNCHANGED <<captures, leaves, merged, events, parentOf, invalid, published>>

-----------------------------------------------------------------------------
(* What a main leaf reaches is mounted; an event of a parent without a     *)
(* mount of its own turn and call marks the parent.                        *)
Roots == leaves \ Subagents
Reached == Reach(edges, Roots)
Mounted_AnyTurn(e) ==
  \E d \in edges : d.parent \in Reached /\ d.parent.thread = e.thread /\ d.call = e.call

Mounted(e) ==
  \E d \in edges : /\ d.parent \in Reached /\ d.parent.thread = e.thread
                   /\ d.turn = e.turn /\ d.call = e.call

Settle ==
  /\ pc = "settle"
  /\ edges' = {e \in edges : e.parent \in Reached}
  /\ issues' = issues
       \cup {<<l, "unreachable_subagent">> : l \in Subagents \ (Reached \cup invalid)}
       \cup {<<parentOf[e], "unmounted_spawn_call">> :
                e \in {f \in DOMAIN parentOf : ~Mounted(f)}}
  /\ pc' = "publish"
  /\ UNCHANGED <<captures, leaves, merged, events, parentOf, invalid, published>>

-----------------------------------------------------------------------------
(* _materialize_root_worker: children are entered into a dictionary by     *)
(* their call, so that of two under one call the later replaces the other. *)
ChildAt(l, call) ==
  CHOOSE c \in leaves :
    /\ \E e \in edges : e.parent = l /\ e.call = call /\ e.child = c
    /\ \A e \in edges : e.parent = l /\ e.call = call => e.child.source <= c.source
Mounts(l) == [call \in {e.call : e \in {d \in edges : d.parent = l}} |-> ChildAt(l, call)]
Tree(l) == Reach({e \in edges : Mounts(e.parent)[e.call] = e.child}, {l})

(* _accept_local_relay_mount: one record of that id among the parent's own *)
LocalCopies(l, id) ==
  {[origin |-> r.origin, index |-> r.index, item |-> r.item] :
     r \in {s \in Records(l) : s.item.id = id}}
RelaysOf_Planned(l) == {e \in edges : e.parent = l /\ e.relay # None}

RelaysOf(l) ==
  {e \in edges : e.parent = l /\ e.relay # None /\ Cardinality(LocalCopies(l, e.relay)) = 1}

Codes(l) ==
  {i[2] : i \in {j \in issues : j[1] = l}}
  \cup (IF \E e \in edges : e.parent = l /\ e.relay # None /\ e \notin RelaysOf(l)
        THEN {"ambiguous_agent_relay"} ELSE {})

(* audit_codes.py: diagnostics of messages do not make a mount incomplete. *)
Relay == {"conflicting_spawn_agent_name", "missing_child_agent_name",
          "conflicting_child_agent_name", "duplicate_agent_message_id",
          "conflicting_agent_message_evidence", "unmatched_agent_message",
          "agent_relay_recipient_mismatch", "agent_relay_before_spawn",
          "ambiguous_agent_relay", "relay_id_conflict"}

Calls(l) == SelectSeq(Full(l), LAMBDA m : m.kind = "spawn")

(* enrich_trajectory: calls and results pair, and the last word is a text. *)
Paired(l) ==
  LET t == Full(l)
      at(kind, id) == {i \in DOMAIN t : t[i].kind = kind /\ t[i].id = id}
      ids == {t[i].id : i \in {j \in DOMAIN t : t[j].kind # "text"}}
  IN /\ t # <<>> /\ t[Len(t)].kind = "text"
     /\ \A id \in ids : /\ Cardinality(at("spawn", id)) = 1
                        /\ Cardinality(at("result", id)) = 1
                        /\ \A i \in at("spawn", id), j \in at("result", id) : i < j

(* _mount_state                                                            *)
Complete(l) ==
  /\ IsInjective([i \in DOMAIN Calls(l) |-> Calls(l)[i].id])
  /\ DOMAIN Mounts(l) = SpawnIds(l)
  /\ Codes(l) \subseteq Relay

Passes(l) ==
  /\ l \in Roots /\ Codes(l) = {}
  /\ \A d \in Tree(l) : Paired(d) /\ Complete(d)

Output(l) ==
  [root |-> l, orphan |-> l \notin Roots, members |-> IF l \in Roots THEN Tree(l) ELSE {l},
   relays |-> UNION {RelaysOf(d) : d \in IF l \in Roots THEN Tree(l) ELSE {}},
   passes |-> Passes(l)]

Publish(l) ==
  /\ pc = "publish"
  /\ l \in Roots \cup (Subagents \ Reached)
  /\ l \notin {p.root : p \in published}
  /\ published' = published \cup {Output(l)}
  /\ UNCHANGED <<pc, captures, leaves, merged, plan>>

Finish ==
  /\ pc = "publish"
  /\ Roots \cup (Subagents \ Reached) = {p.root : p \in published}
  /\ pc' = "done"
  /\ UNCHANGED <<captures, leaves, merged, plan, published>>

Next ==
  \/ Aggregate \/ Extract \/ Bind \/ CheckLinks \/ Propose \/ Group \/ BreakCycles
  \/ AttachRelays \/ Settle \/ Finish
  \/ \E l \in leaves : Publish(l)

Spec == Init /\ [][Next]_vars

-----------------------------------------------------------------------------
TypeOK ==
  /\ pc \in {"aggregate", "extract", "bind", "link", "propose", "group", "cycles", "relay",
             "settle", "publish", "done"}
  /\ leaves \subseteq captures
  /\ DOMAIN parentOf \subseteq events
  /\ \A e \in edges : {e.parent, e.child} \subseteq leaves
  /\ {i[1] : i \in issues} \cup invalid \cup {p.root : p \in published} \subseteq leaves

(* A session is published completely: every maximal capture is represented *)
(* by one leaf, every leaf is in exactly one published tree, and whoever   *)
(* is left an orphan has a diagnostic of its own or claims a call that no  *)
(* single leaf holds.  Children travel in a dictionary keyed by the call   *)
(* (pipeline.py, materialize), which would drop a second child silently.   *)
EveryLeafAccounted ==
  /\ TypeOK
  /\ pc = "done" =>
       /\ UNION {merged[l] : l \in leaves} = Leaves(captures)
       /\ \A l \in leaves : Cardinality({p \in published : l \in p.members}) = 1
       /\ \A p \in {q \in published : q.orphan} :
            \/ p.root \in {i[1] : i \in issues}
            \/ \E e \in Claimed(p.root) : e \notin DOMAIN parentOf

Members == UNION {p.members : p \in published}

(* Nothing is mounted on a guess: the child names the thread and the turn  *)
(* in which a captured response made the call, only the parent holds that  *)
(* call, and neither the child's marker nor the name under which messages  *)
(* address it says otherwise.  (Without a session the capture may be       *)
(* continued by another thread, while the parent holds a copy whose        *)
(* arguments cannot be read.)                                              *)
MountsProven ==
  \A l \in Members : \A call \in DOMAIN Mounts(l) :
    LET c == Mounts(l)[call]
        names == ResultNames(l.thread, call)
    IN /\ c.link.thread = l.thread
       /\ \E k \in captures : \E m \in Spawns(k.response) :
            /\ k.thread = l.thread /\ k.turn = c.link.turn /\ m.id = call
            /\ LET holders == {d \in LeavesOf(l.thread) : m \in Range(Full(d))}
               IN \/ holders = {l}
                  \/ holders = {} /\ l.session = Missing /\ call \in SpawnIds(l)
            /\ c.marker.call \in {None, call} /\ c.marker.task \in {None, Task(m)}
       /\ Cardinality(names) = 1 => Recipients(c.thread) \subseteq names

(* A root that passes the audit hides nothing: whatever capture of its     *)
(* thread, or of a descendant's, made a call that its transcript repeats,  *)
(* the call has its child, and the one of that capture's turn.  (A capture *)
(* of another thread that it continues has its child, but of the turn in   *)
(* which its own thread made the call.)                                    *)
NothingSilent ==
  \A p \in {q \in published : q.passes} : \A n \in p.members :
    \A k \in {d \in captures : d.thread = n.thread \/ Covers(n, d)} :
      \A m \in Spawns(k.response) \cap Range(Full(n)) :
        /\ m.id \in DOMAIN Mounts(n)
        /\ k.thread = n.thread => Mounts(n)[m.id].link.turn = k.turn

(* A published relay is one message of the parent's own captures, from the *)
(* agent that the call's result and the child's messages both name, to     *)
(* that agent's parent, and no other child's; some capture of the parent's *)
(* thread has it after the call completed.  (Without a session the copy of *)
(* the parent's own captures may be of another thread.)                    *)
RelaysSound ==
  \A p \in published : \A e \in p.relays :
    LET local == {r \in Records(e.parent) : r.item.id = e.relay}
    IN /\ local # {}
       /\ \A r, s \in local : r.origin = s.origin /\ r.index = s.index
       /\ \E r \in LocalRecords({k \in captures : k.thread = e.parent.thread}) :
            /\ r.item.id = e.relay
            /\ e.parent.session # Missing => \A s \in local : s.item = r.item
            /\ {r.item.author} = ResultNames(e.parent.thread, e.call)
            /\ {r.item.author} = Recipients(e.child.thread)
            /\ ParentAgent(r.item.author) \in {<<>>, r.item.recipient}
            /\ e.call \in r.after
       /\ \A d \in p.relays \ {e} : d.parent = e.parent => d.relay # e.relay

(* README.md: of several branches of a subagent's thread the one with the  *)
(* most messages, history and response, is mounted.                        *)
LargestBranchMounted ==
  \A c \in UNION {Range(Mounts(l)) : l \in Members} :
    \A d \in Branches(c) : Len(Full(d)) <= Len(Full(c))
=============================================================================
