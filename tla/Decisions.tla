----------------------------- MODULE Decisions ------------------------------
(***************************************************************************)
(* The stateless decisions: what a request must be before a provider is    *)
(* called, how a model's structured answer is read, and which answers      *)
(* Team receives (runtime/src/decisions/{mod,answer,capability,purpose,    *)
(* intent,jev}.rs, intent/route.rs, provider/structured.rs).               *)
(*                                                                         *)
(* A text is one of the classes its checks tell apart: empty, admitted, or *)
(* not (control characters, or longer than its bound).  An answer is what  *)
(* the decision's operator returns: a record of status 200 with a value,   *)
(* or an error's status.                                                   *)
(***************************************************************************)
EXTENDS Integers, Sequences, FiniteSets, SequencesExt

CONSTANT None

Text == {"", "text", "control"}
admitted(text, empty) == text = "text" \/ (empty /\ text = "")

Invalid == [status |-> 422]     \* the closed shape
Refusal == [status |-> 400]     \* the contract
Broken  == [status |-> 502]     \* the provider, or its answer
Success(value) == [status |-> 200, value |-> value]

sorted_unique(ids) == \A i \in 1..Len(ids) - 1 : ids[i] < ids[i + 1]

-----------------------------------------------------------------------------
(* structured.rs: one value, however the model split its text *)

\* A message's text read as one value, or None; and its non-blank blocks so.
agreed(message) ==
  LET blocks == message.blocks IN
  CASE message.whole # None -> message.whole
    [] /\ message.whole = None /\ ~message.long /\ Len(blocks) >= 2
       /\ \A i \in 1..Len(blocks) : blocks[i] = blocks[1] -> blocks[1]
    [] OTHER -> None

structured(message) ==
  IF message.refusal \/ message.calls THEN None ELSE agreed(message)

\* answer.rs: closed, with every required member, each within its schema.
conforms(schema, value) ==
  /\ DOMAIN value = DOMAIN schema
  /\ \A name \in DOMAIN value : value[name] \in schema[name]

AtMost(n) == {ids \in Seq(Nat) : Len(ids) <= n}

-----------------------------------------------------------------------------
(* capability.rs *)

PlanSchema == [status |-> {"sufficient", "install-required"}, assistant_ids |-> AtMost(4)]

CandidateIds(candidates) == [i \in 1..Len(candidates) |-> candidates[i].id]

PlanRequest(q) ==
  IF /\ admitted(q.objective, FALSE)
     /\ \A i \in 1..Len(q.candidates) : admitted(q.candidates[i].summary, FALSE)
     /\ sorted_unique(CandidateIds(q.candidates))
  THEN Success(None) ELSE Refusal

\* An exact, sorted subset of the shortlist that agrees with its status.
plan(q, value) ==
  LET ids == value.assistant_ids IN
  IF /\ ToSet(ids) \subseteq ToSet(CandidateIds(q.candidates))
     /\ sorted_unique(ids)
     /\ (value.status = "sufficient") <=> (ids = <<>>)
  THEN Success(value) ELSE Broken

-----------------------------------------------------------------------------
(* purpose.rs *)

PurposeSchema == [purpose |-> Text]

\* The pending request the purpose is for, as the turn service finds it: its
\* state may not be readable, there may be none, or it has its turn's pins.
PurposeRequest(q) ==
  CASE ~q.admitted -> Refusal
    [] q.admitted /\ ~q.readable -> [status |-> 503]
    [] q.admitted /\ q.readable /\ q.pending = None -> Refusal
    [] OTHER ->
         IF /\ q.pending.assistant_id = q.assistant_id
            /\ q.pending.action = q.action_id
            /\ q.pending.locale # "unknown"
            /\ q.pending.message
         THEN Success(None) ELSE Refusal

\* The sentence in its canonical form, or null.
sentence(value) == [purpose |-> IF value.purpose = "text" THEN "text" ELSE None]

-----------------------------------------------------------------------------
(* intent.rs and intent/route.rs *)

INSTALL   == "assistant-install"
UNINSTALL == "assistant-uninstall"
INTENTS   == {"ordinary-task", INSTALL, UNINSTALL, "unresolved"}

\* An option that is absent is none of the words that may be there.
ASSUME NoneAssumption == None \notin INTENTS \cup {"possible", "not-needed"}

CONSTANT MAX_CONVERSATION_CHARS

RouteSchema ==
  [intent |-> INTENTS, query |-> Text, assistant_ids |-> AtMost(4), reply |-> Text,
   task_follows |-> BOOLEAN]

\* A selection carries no lifecycle state or decision key, installable Assistants
\* only reach a decision provider, and the conversation window is bounded.
lane(q) ==
  /\ q.expected # None => ~q.reference /\ q.conversation = <<>> /\ ~q.decision
  /\ q.installable # None => q.decision
  /\ FoldSeq(+, 0, q.conversation) <= MAX_CONVERSATION_CHARS

admit_classification(q) == q.candidates = <<>>

admit_selection(q) ==
  /\ \A i \in 1..Len(q.candidates) :
       /\ admitted(q.candidates[i].summary, TRUE)
       /\ q.expected = UNINSTALL => q.candidates[i].summary = ""
  /\ sorted_unique(CandidateIds(q.candidates))

IntentRequest(q) ==
  CASE ~lane(q) -> Invalid
    [] /\ lane(q) /\ admitted(q.objective, FALSE)
       /\ IF q.expected = None THEN admit_classification(q) ELSE admit_selection(q)
       /\ q.installable # None => admitted(q.installable, FALSE) -> Success(None)
    [] OTHER -> Refusal

Route(intent) ==
  [intent |-> intent, query |-> "", assistant_ids |-> <<>>, reply |-> "",
   task_follows |-> FALSE, capability_free |-> FALSE]

\* An intent and a semantic target, never ids; a question where one is needed.
classification(value) ==
  LET lifecycle == value.intent \in {INSTALL, UNINSTALL}
      asks == value.intent = "unresolved" \/ (lifecycle /\ value.query = "")
  IN IF /\ value.assistant_ids = <<>>
        /\ IF lifecycle THEN admitted(value.query, TRUE) ELSE value.query = ""
        /\ asks => value.reply # ""
        /\ value.task_follows => value.intent = INSTALL /\ value.query # ""
     THEN [Route(value.intent) EXCEPT !.query = value.query,
             !.reply = IF asks THEN value.reply ELSE "",
             !.task_follows = value.task_follows]
     ELSE None

\* Mutant: a selection keeps ids the directory does not have.
selectionOutside(q, value) ==
  IF value.task_follows \/ value.query # "" \/ value.assistant_ids = <<>>
     \/ value.intent # q.expected
  THEN None ELSE [Route(value.intent) EXCEPT !.assistant_ids = value.assistant_ids]

\* The expected intent with an exact subset of the directory, or a question.
selection(q, value) ==
  LET ids == value.assistant_ids IN
  IF value.task_follows \/ value.query # "" THEN None
  ELSE IF value.intent = "unresolved"
  THEN IF ids = <<>> /\ value.reply # ""
       THEN [Route("unresolved") EXCEPT !.reply = value.reply] ELSE None
  ELSE IF /\ value.intent = q.expected
          /\ ToSet(ids) \subseteq ToSet(CandidateIds(q.candidates))
          /\ ids # <<>>
          /\ q.expected = UNINSTALL => Len(ids) = 1
  THEN [Route(value.intent) EXCEPT !.assistant_ids = ids]
  ELSE None

route(q, value) ==
  IF ~admitted(value.reply, TRUE) \/ ~sorted_unique(value.assistant_ids) THEN None
  ELSE IF q.expected = None THEN classification(value) ELSE selection(q, value)

\* A request that described installable Assistants also learns whether it is
\* capability-free.
respond(q, r) ==
  Success([intent |-> r.intent, query |-> r.query, assistant_ids |-> r.assistant_ids,
           reply |-> r.reply, task_follows |-> r.task_follows,
           capability |-> IF q.installable = None THEN None
                          ELSE IF r.capability_free THEN "not-needed" ELSE "possible"])

-----------------------------------------------------------------------------
(* jev.rs, its probabilities in hundredths *)

NEEDS == {"conversation", "capability"}
Threshold == 85

\* One closed choice whose distribution sums to one and names its most probable.
choice(answer, options) ==
  /\ answer.choice \in options
  /\ DOMAIN answer.probabilities = options
  /\ FoldFunction(+, 0, answer.probabilities) \in 99..101
  /\ \A o \in options : answer.probabilities[o] <= answer.probabilities[answer.choice]
  /\ answer.confidence \in 0..100

Asked(q) == IF q.installable = None THEN {"intent"} ELSE {"intent", "capability"}

\* The decision a whole, identity-encoded success within its bound carries.
parse(q, response) ==
  /\ response.bounded /\ response.model
  /\ DOMAIN response.answers = Asked(q)
  /\ choice(response.answers.intent, INTENTS)
  /\ q.installable # None => choice(response.answers.capability, NEEDS)

Confident(answer, option) == answer.choice = option /\ answer.confidence >= Threshold

\* The fast path's route, or None: only a confident ordinary task is acted on.
decide(q, response) ==
  IF parse(q, response) /\ Confident(response.answers.intent, "ordinary-task")
  THEN [Route("ordinary-task") EXCEPT !.capability_free =
          /\ q.installable # None
          /\ Confident(response.answers.capability, "conversation")]
  ELSE None
=============================================================================
