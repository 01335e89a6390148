------------------------------ MODULE Classifier ------------------------------
(***************************************************************************)
(* One trajectory is classified: TrajectoryClassifier.classify over        *)
(* ChatCompletionsClient.complete.  Three loops nest: attempts of a        *)
(* request, repetitions after an answer that violates the label contract,  *)
(* and repetitions with less context after the endpoint found the request  *)
(* too large.  Each keeps its own count; only the first starts anew.       *)
(*                                                                         *)
(* A transcript is the sequence of the lengths of its user texts, an       *)
(* answer what _parse_decision tells apart.                                *)
(*                                                                         *)
(* A definition named Operation_Deviation is a deviation of Operation that *)
(* a property must detect; no specification uses it.                       *)
(***************************************************************************)
EXTENDS Naturals, Sequences, Functions, FiniteSets

CONSTANTS MaxRetries,        \* retries of a request
          SemanticRetries,   \* repetitions after an invalid answer
          MaxReductions,     \* MAX_CONTEXT_REDUCTIONS
          MaxContext,        \* max_context_chars
          LeastContext,      \* no reduction goes below this budget
          Transcripts,       \* lengths of the user texts
          NotesCost,         \* length of a serialized transcript without turns
          TurnCost,          \* what a turn adds to its text
          MarkerCost,        \* length of the truncation marker
          Scenarios,         \* keys of the taxonomy
          Capabilities,      \* capability labels
          Unknown            \* a key or a label that is none of these

ASSUME ClassifierAssumption ==
  /\ {MaxRetries, SemanticRetries, MaxReductions} \subseteq Nat
  /\ MaxContext \in Nat /\ LeastContext \in 0 .. MaxContext
  /\ {NotesCost, TurnCost, MarkerCost} \subseteq Nat
  /\ Transcripts \subseteq Seq(Nat \ {0})
  /\ Unknown \notin Scenarios \cup Capabilities

(* The model's text: no JSON, other fields, or the two fields.             *)
LabelLists == UNION {[1 .. k -> Capabilities \cup {Unknown}] : k \in 0 .. 3}
Texts == [form : {"not_json", "other_fields"}, key : {Unknown}, labels : {<<>>}]
         \cup [form : {"decision"}, key : Scenarios \cup {Unknown}, labels : LabelLists]

(* What ends an attempt without a text, and the reason it is reported by.  *)
Transient == {"rate_limit_exhausted", "service_retry_exhausted",
              "network_retry_exhausted", "invalid_api_response"}

VARIABLES turns,             \* the trajectory
          phase,
          budget,            \* context_budget
          reductions, semanticAttempts,
          attempt,           \* attempt of the current call of complete
          request,           \* what the current call sends of the transcript
          outcome,           \* the ClassificationAttempt
          requests           \* number of HTTP requests so far

loop == <<budget, reductions, semanticAttempts>>
classifyVars == <<turns, phase, loop, attempt, request, outcome, requests>>

Concluded == {"answered", "raised"}

-----------------------------------------------------------------------------
(* input_projection.py: a budget of characters split between the first and *)
(* the last texts; the largest split whose serialization fits is searched. *)
Least(x, y) == IF x <= y THEN x ELSE y
Most(x, y)  == IF x <= y THEN y ELSE x

Total(t) == FoldFunction(LAMBDA x, y : x + y, 0, t)
Before(t, i) == Total([j \in 1 .. (i - 1) |-> t[j]])
After(t, i)  == Total([j \in (i + 1) .. Len(t) |-> t[j]])

(* The turns taken with a budget, and how much of each.                    *)
TakePrefix(t, chars) ==
  [i \in {j \in DOMAIN t : Before(t, j) < chars} |-> Least(t[i], chars - Before(t, i))]
TakeSuffix(t, chars) ==
  [i \in {j \in DOMAIN t : After(t, j) < chars} |-> Least(t[i], chars - After(t, i))]

TakenText(t, part) ==
  Total(part) + MarkerCost * Cardinality({i \in DOMAIN part : part[i] < t[i]})

(* Both halves, with one turn that is in both joined by a marker, or with  *)
(* a marker for a turn between them.                                       *)
Truncation(t, chars) ==
  LET half == Most(1, chars \div 2)
      head == TakePrefix(t, half)
      tail == TakeSuffix(t, Most(1, chars - half))
      n    == Cardinality(DOMAIN head) + Cardinality(DOMAIN tail)
      text == TakenText(t, head) + TakenText(t, tail) + MarkerCost
      count == IF DOMAIN head \cap DOMAIN tail = {} THEN n + 1 ELSE n - 1
  IN [sent |-> text, size |-> NotesCost + TurnCost * count + text]

Whole(t) == [sent |-> Total(t), size |-> NotesCost + TurnCost * Len(t) + Total(t)]
Nothing == [sent |-> 0, size |-> NotesCost]

Search_LastTried(t, limit) ==
  LET final[low \in 0 .. Total(t) + 1, high \in 0 .. Total(t) + 1] ==
        IF low >= high THEN Truncation(t, Least(low, Total(t)))
        ELSE LET middle == (low + high - 1) \div 2
             IN IF Truncation(t, middle).size <= limit
                THEN final[middle + 1, high]
                ELSE final[low, middle]
  IN final[0, Total(t) + 1]

Search(t, limit) ==
  LET Reach == 0 .. Total(t) + 1
      Tried == {Nothing} \cup {Truncation(t, chars) : chars \in Reach}
      last[s \in [low : Reach, high : Reach, best : Tried]] ==
        IF s.low >= s.high THEN s.best
        ELSE LET middle == (s.low + s.high - 1) \div 2
                 try    == Truncation(t, middle)
             IN IF try.size <= limit
                THEN last[[low |-> middle + 1, high |-> s.high, best |-> try]]
                ELSE last[[low |-> s.low, high |-> middle, best |-> s.best]]
  IN last[[low |-> 0, high |-> Total(t) + 1, best |-> Nothing]]

Serialize(t, limit) ==
  IF Whole(t).size <= limit \/ t = <<>>
  THEN [sent |-> Whole(t).sent, size |-> Whole(t).size, cut |-> Whole(t).size > limit]
  ELSE [sent |-> Search(t, limit).sent, size |-> Search(t, limit).size, cut |-> TRUE]

Reduced(b) == Most(LeastContext, (3 * b) \div 4)

-----------------------------------------------------------------------------
(* _parse_decision: the first rule an answer breaks.                       *)
Invalid_AnyCount(text) ==
  CASE text.form = "not_json"     -> "invalid_model_output_json"
    [] text.form = "other_fields" -> "invalid_model_output_fields"
    [] text.form = "decision" /\ text.key = Unknown -> "invalid_model_output_scenario_label"
    [] /\ text.form = "decision" /\ text.key # Unknown
       /\ ~IsInjective(text.labels) \/ Unknown \in Range(text.labels)
         -> "invalid_model_output_capability_labels"
    [] OTHER -> "valid"

Invalid(text) ==
  CASE text.form = "not_json"     -> "invalid_model_output_json"
    [] text.form = "other_fields" -> "invalid_model_output_fields"
    [] text.form = "decision" /\ text.key = Unknown -> "invalid_model_output_scenario_label"
    [] /\ text.form = "decision" /\ text.key # Unknown
       /\ \/ Len(text.labels) \notin 1 .. 2
          \/ ~IsInjective(text.labels)
          \/ Unknown \in Range(text.labels)
         -> "invalid_model_output_capability_labels"
    [] OTHER -> "valid"

Base == [truncated |-> request.cut \/ reductions > 0, sent |-> request.sent,
         turns |-> Len(turns), original |-> Total(turns)]

Failed(reason) ==
  [status |-> "failed", reason |-> reason, base |-> Base, cacheable |-> FALSE]
Accepted(text) ==
  [status |-> "accepted", scenarios |-> <<text.key>>, capabilities |-> text.labels,
   base |-> Base, cacheable |-> TRUE]

Unanswered == [status |-> "none"]
NoRequest == [sent |-> 0, size |-> 0, cut |-> FALSE]

ClassifyInit ==
  /\ turns \in Transcripts
  /\ phase = "project"
  /\ budget = MaxContext
  /\ reductions = 0 /\ semanticAttempts = 0
  /\ attempt = 0
  /\ request = NoRequest
  /\ outcome = Unanswered
  /\ requests = 0

(* The top of the loop: the transcript is serialized for the budget of the *)
(* moment and complete() is called.                                        *)
Project ==
  /\ phase = "project"
  /\ request' = Serialize(turns, budget)
  /\ attempt' = 0
  /\ phase' = "call"
  /\ UNCHANGED <<turns, loop, outcome, requests>>

Conclude(a) == phase' = "answered" /\ outcome' = a /\ UNCHANGED loop

Sent == phase = "call" /\ requests' = requests + 1 /\ UNCHANGED <<turns, request>>

(* 429, 5xx, a broken connection, or a response without text content.      *)
SufferTransient(reason) ==
  /\ Sent
  /\ IF attempt = MaxRetries
     THEN Conclude(Failed(reason)) /\ UNCHANGED attempt
     ELSE attempt' = attempt + 1 /\ UNCHANGED <<phase, loop, outcome>>

(* 404 is retried, and a configuration error at last.                      *)
SufferNotFound ==
  /\ Sent
  /\ IF attempt = MaxRetries
     THEN phase' = "raised" /\ UNCHANGED attempt
     ELSE attempt' = attempt + 1 /\ UNCHANGED phase
  /\ UNCHANGED <<loop, outcome>>

(* 401, 403, 422: ends the whole job.                                      *)
SufferRefusal ==
  /\ Sent
  /\ phase' = "raised"
  /\ UNCHANGED <<loop, attempt, outcome>>

(* Any other status fails this trajectory at once.                         *)
SufferOther ==
  /\ Sent
  /\ Conclude(Failed("classifier_http"))
  /\ UNCHANGED attempt

(* 413, or 400 and 422 with a text that speaks of the context.  Gateways   *)
(* differ, and so one may refuse what another has accepted.                *)
ExceedContext_StartsOver ==
  /\ Sent
  /\ IF reductions >= MaxReductions
     THEN Conclude(Failed("context_limit_exhausted"))
     ELSE /\ budget' = Reduced(budget)
          /\ reductions' = reductions + 1
          /\ semanticAttempts' = 0
          /\ phase' = "project"
          /\ UNCHANGED outcome
  /\ UNCHANGED attempt

ExceedContext ==
  /\ Sent
  /\ IF reductions >= MaxReductions
     THEN Conclude(Failed("context_limit_exhausted"))
     ELSE /\ budget' = Reduced(budget)
          /\ reductions' = reductions + 1
          /\ phase' = "project"
          /\ UNCHANGED <<semanticAttempts, outcome>>
  /\ UNCHANGED attempt

(* A text that breaks the contract is asked for again.                     *)
Receive(text) ==
  /\ Sent
  /\ IF Invalid(text) = "valid" THEN Conclude(Accepted(text))
     ELSE IF semanticAttempts < SemanticRetries
          THEN /\ semanticAttempts' = semanticAttempts + 1
               /\ phase' = "project"
               /\ UNCHANGED <<budget, reductions, outcome>>
          ELSE Conclude(Failed(Invalid(text)))
  /\ UNCHANGED attempt

ClassifyNext ==
  \/ Project
  \/ \E reason \in Transient : SufferTransient(reason)
  \/ SufferNotFound \/ SufferRefusal \/ SufferOther
  \/ ExceedContext
  \/ \E text \in Texts : Receive(text)

ClassifySpec == ClassifyInit /\ [][ClassifyNext]_classifyVars

-----------------------------------------------------------------------------
ClassifyTypeOK ==
  /\ turns \in Transcripts
  /\ phase \in {"project", "call"} \cup Concluded
  /\ reductions \in 0 .. MaxReductions
  /\ semanticAttempts \in 0 .. SemanticRetries
  /\ attempt \in 0 .. MaxRetries
  /\ requests \in Nat

(* Safety: however failures of the three kinds alternate, a trajectory     *)
(* costs at most the attempts of one call for the first try, each          *)
(* repetition after an invalid answer, and each reduction of the context.  *)
RequestsBounded ==
  requests <= (MaxRetries + 1) * (SemanticRetries + MaxReductions + 1)

(* Safety: an answer keeps the contract that the label job checks again    *)
(* before it publishes (LabelJob takes a fresh answer for valid); only an  *)
(* accepted one is cached; it records how much of the transcript its own   *)
(* request carried, all of it unless it says truncated; and a failure is   *)
(* reported only when the retries of its kind are used up.                 *)
Contract(a) ==
  a.status = "accepted" =>
    /\ Len(a.scenarios) = 1 /\ Range(a.scenarios) \subseteq Scenarios
    /\ Cardinality(Range(a.capabilities)) \in 1 .. 2
    /\ Len(a.capabilities) = Cardinality(Range(a.capabilities))
    /\ Range(a.capabilities) \subseteq Capabilities

Exhausted(reason) ==
  CASE reason \in Transient -> attempt = MaxRetries
    [] reason = "context_limit_exhausted" -> reductions = MaxReductions
    [] reason = "classifier_http" -> TRUE
    [] OTHER -> semanticAttempts = SemanticRetries

AnswersHonest ==
  phase = "answered" =>
    /\ Contract(outcome)
    /\ outcome.cacheable <=> outcome.status = "accepted"
    /\ outcome.status = "failed" => Exhausted(outcome.reason)
    /\ outcome.base.sent = request.sent
    /\ ~outcome.base.truncated => request.sent = Total(turns)

(* Action property: the budget never grows again, a request that is made   *)
(* again is within it, and so smaller than one that was refused above it.  *)
(* (That it is never larger than the request before does not hold: the     *)
(* excerpt is not the largest that fits, and a smaller budget may find a   *)
(* larger one.)                                                            *)
RepeatsShrink ==
  [][/\ budget' <= budget
     /\ phase = "project" /\ request # NoRequest =>
          /\ request'.size <= Most(budget, NotesCost)
          /\ budget < request.size /\ NotesCost <= budget => request'.size < request.size]_classifyVars
=============================================================================
