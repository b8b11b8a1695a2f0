------------------------------ MODULE Requests ------------------------------
(***************************************************************************)
(* What a chat turn is admitted under (runtime/src/server/turn_input.rs)   *)
(* and what it offers the model (runtime/src/turn/service/prepare.rs).     *)
(*                                                                         *)
(* A request is what the checks see of it.  Its malformed field, and those *)
(* of its parts, stand for every closed shape, type and length a part can  *)
(* break (422); unsafe for every pattern, encoding and layout rule the     *)
(* contract checks apply to it (400).                                      *)
(***************************************************************************)
EXTENDS Attachments, Adapters

CONSTANTS
  MaxAssistants,  \* MAX_CHAT_ASSISTANTS
  MaxActions,     \* MAX_ACTIONS_PER_ASSISTANT
  MaxSchemaNodes, \* MAX_ASSISTANT_SCHEMA_NODES
  MaxEntries,     \* MAX_CONVERSATION_ENTRIES
  MaxEntryChars,  \* MAX_CONVERSATION_TEXT_CHARS
  MaxWindowChars, \* MAX_CONVERSATION_CHARS
  MaxMemories,    \* MAX_MEMORIES
  MaxResults      \* MAX_ACTION_REQUESTS

-----------------------------------------------------------------------------
(* The clock *)

Leap(year) == year % 4 = 0 /\ (year % 100 # 0 \/ year % 400 = 0)

valid_date(date) ==
  /\ date.year >= 1
  /\ date.month \in 1..12
  /\ date.day \in 1..(CASE date.month \in {4, 6, 9, 11} -> 30
                        [] date.month = 2 -> IF Leap(date.year) THEN 29 ELSE 28
                        [] OTHER -> 31)

(* An absent clock is today's date in UTC. *)
clock(given) == given = None \/ (valid_date(given.date) /\ given.zone_known)

-----------------------------------------------------------------------------
(* The presentation window *)

conversation_shape(entries) ==
  /\ Len(entries) <= MaxEntries
  /\ \A i \in DOMAIN entries :
       ~entries[i].malformed /\ entries[i].chars \in 1..MaxEntryChars

admit_conversation(entries) ==
  /\ \A i \in DOMAIN entries : ~entries[i].unsafe
  /\ Total(LAMBDA entry : entry.chars, entries) <= MaxWindowChars

-----------------------------------------------------------------------------
(* The Assistants *)

Distinct(items) ==
  \A i, j \in DOMAIN items : items[i].id = items[j].id => i = j

assistant_shape(assistant) ==
  /\ ~assistant.malformed
  /\ Len(assistant.actions) <= MaxActions
  /\ \A i \in DOMAIN assistant.actions :
       LET action == assistant.actions[i]
       IN ~action.malformed /\ Cardinality(action.input_files) <= 1

(* A file property must be one of the input schema's. *)
action_admitted(action) ==
  ~action.unsafe /\ action.input_files \subseteq action.properties

assistant_admitted(assistant) ==
  /\ ~assistant.unsafe
  /\ \A i \in DOMAIN assistant.actions : action_admitted(assistant.actions[i])
  /\ Distinct(assistant.actions)
  /\ Total(LAMBDA action : action.nodes, assistant.actions) <= MaxSchemaNodes

(* The digest a thread is bound to: the contract without output schemas. *)
scope_digest(assistants) ==
  [i \in DOMAIN assistants |->
    [id |-> assistants[i].id,
     actions |-> [j \in DOMAIN assistants[i].actions |->
       [member \in {"id", "properties", "authorization", "input_files"} |->
         assistants[i].actions[j][member]]]]]

-----------------------------------------------------------------------------
(* A request *)

ListShape(items, max) == items = None \/ Len(items) <= max

context_shape(request) ==
  /\ ~request.malformed
  /\ Len(request.assistants) <= MaxAssistants
  /\ \A i \in DOMAIN request.assistants : assistant_shape(request.assistants[i])
  /\ ListShape(request.memories, MaxMemories)
  /\ Len(request.attachments) <= MaxFiles

build(request) ==
  /\ \A i \in DOMAIN request.assistants :
       assistant_admitted(request.assistants[i])
  /\ ~request.provider.unsafe
  /\ request.memories = None \/ Distinct(request.memories)
  /\ admitted(request.attachments)
  /\ ~request.unsafe
  /\ Distinct(request.assistants)

(* What each endpoint answers to the request: 422, 400, or its turn. *)
Read(shape, contract) ==
  IF ~shape THEN "invalid" ELSE IF ~contract THEN "contract" ELSE "turn"

start(request) ==
  Read(/\ clock(request.clock)
       /\ conversation_shape(request.conversation)
       /\ context_shape(request),
       /\ build(request)
       /\ ~request.blank
       /\ admit_conversation(request.conversation))

resume(request) ==
  Read(/\ Cardinality(DOMAIN request.results) \in 1..MaxResults
       /\ context_shape(request),
       build(request))

-----------------------------------------------------------------------------
(* What the turn offers *)

Tool(name, strict) == [name |-> name, strict |-> strict]

(* A set: the order in which the tools are offered is that of the input. *)
ActionTools(assistant, reads) ==
  {Tool(<<assistant.id, action.id>>, FALSE) :
     action \in exposed(ToSet(assistant.actions), reads)}

Exposed(request) ==
  IF request.routine_settings_answer THEN {} ELSE ToSet(request.assistants)

browser_offered(request) ==
  /\ request.browser_available
  /\ request.attachments = <<>>
  /\ ~request.routine_mode /\ ~request.routine_settings_answer

Own(offered, name) == IF offered THEN {Tool(<<name>>, TRUE)} ELSE {}

surface(request) ==
  LET reads == reads_content(request.attachments)
      browser == browser_offered(request)
      memory == request.attachments = <<>> /\ request.memories # None
      routine == request.routines # None
  IN [tools |-> (UNION {ActionTools(assistant, reads) : assistant \in Exposed(request)})
                \cup Own(TRUE, "clarify") \cup Own(browser, "browser")
                \cup Own(memory, "memory") \cup Own(routine, "routine"),
      browser |-> browser, memory_tool |-> memory, routine_tool |-> routine]

action_names(tools) == {tool.name : tool \in {offer \in tools : ~offer.strict}}
=============================================================================
