------------------------------ MODULE Adapters ------------------------------
(***************************************************************************)
(* What the two provider adapters make of a conversation and of an answer  *)
(* (runtime/src/provider: anthropic.rs, openai.rs, wire.rs).               *)
(*                                                                         *)
(* A text is a sequence of words, of which " " is blank.  An answer's body *)
(* is what is read of it: whether it is JSON of the expected shape, its    *)
(* items with their type, how it stopped, and the usage it reports.        *)
(***************************************************************************)
EXTENDS Integers, SequencesExt, FiniteSetsExt

CONSTANTS
  Unsafe,  \* the call ids Anthropic would not admit as they are
  None     \* an absent member

blank(text) == \A i \in DOMAIN text : text[i] = " "

rstrip(text) == SubSeq(text, 1, Max({0} \cup {i \in DOMAIN text : text[i] # " "}))

Texts(items, type) ==
  LET of == SelectSeq(items, LAMBDA item : item.type = type)
  IN [i \in DOMAIN of |-> of[i].text]

(* The items at these places, in their order: calls, as the turn keeps them. *)
CallsOf(items, places) ==
  LET nth(n) == CHOOSE k \in places : Cardinality({j \in places : j <= k}) = n
  IN [n \in 1..Cardinality(places) |->
        LET item == items[nth(n)]
        IN [id |-> item.id, name |-> item.name, arguments |-> item.arguments]]

-----------------------------------------------------------------------------
(* anthropic.rs: a conversation as messages *)

(* An id outside the admitted alphabet is hashed, the same way everywhere. *)
tool_use_id(id) == IF id \in Unsafe THEN <<"toolu">> \o id ELSE id

text_block(text) == [type |-> "text", text |-> text]

tool_use(call) ==
  [type |-> "tool_use", id |-> tool_use_id(call.id), name |-> call.name,
   arguments |-> call.arguments]

(* Mutant: the result keeps the id the call lost. *)
ToolResultAsIs(result) == [type |-> "tool_result", id |-> result.call_id]

tool_result(result) == [type |-> "tool_result", id |-> tool_use_id(result.call_id)]

(* An item of an earlier answer of the same provider. *)
replay_block(block) ==
  CASE block.type = "text" -> IF blank(block.text) THEN <<>> ELSE <<block>>
    [] block.type = "tool_use" -> <<[block EXCEPT !.id = tool_use_id(@)]>>
    [] OTHER -> <<block>>

Plain(role, text) == [role |-> role, plain |-> TRUE, blocks |-> <<text_block(text)>>]
Blocks(role, blocks) == [role |-> role, plain |-> FALSE, blocks |-> blocks]

AnthropicTurn(turn) ==
  IF turn.provider = "anthropic" /\ turn.raw # None
  THEN IF Len(turn.raw) = 1 /\ turn.raw[1].type = "text"
       THEN Plain("assistant", turn.raw[1].text)
       ELSE Blocks("assistant", FlattenSeq([i \in DOMAIN turn.raw |-> replay_block(turn.raw[i])]))
  ELSE IF turn.calls = <<>> THEN Plain("assistant", turn.text)
  ELSE Blocks("assistant",
         (IF turn.text = <<>> THEN <<>> ELSE <<text_block(turn.text)>>)
         \o [i \in DOMAIN turn.calls |-> tool_use(turn.calls[i])])

AnthropicEntry(message, projected) ==
  CASE message.role = "assistant" -> AnthropicTurn(message)
    [] message.role = "tool" -> Blocks("user", <<tool_result(message)>>)
    [] message.role = "user" ->
         IF message.id = projected
         THEN Blocks("user", <<text_block(<<"text">>), [type |-> "image"]>>)
         ELSE Plain("user", <<"text">>)

(* Runs of user messages and tool results are one user message. *)
merge(entries, entry) ==
  IF entries # <<>> /\ Last(entries).role = "user" /\ entry.role = "user"
  THEN Append(Front(entries), Blocks("user", Last(entries).blocks \o entry.blocks))
  ELSE Append(entries, entry)

formatted_user(blocks) ==
  SelectSeq(blocks, LAMBDA block : ~(block.type = "text" /\ blank(block.text)))

(* The trailing text of a turn that ends the conversation is stripped.  *)
assistant_content(entry) ==
  IF entry.blocks # <<>> /\ Last(entry.blocks).type = "text"
  THEN [entry EXCEPT !.blocks[Len(entry.blocks)].text = rstrip(@)]
  ELSE entry

(* An empty model turn is dropped before the end. *)
format_entry(entry, last) ==
  CASE entry.role = "user" ->
         <<IF entry.plain THEN entry ELSE [entry EXCEPT !.blocks = formatted_user(@)]>>
    [] entry.role = "assistant" /\ last -> <<assistant_content(entry)>>
    [] entry.role = "assistant" /\ ~last ->
         IF entry.blocks \in {<<>>, <<text_block(<<>>)>>} THEN <<>> ELSE <<entry>>

AnthropicMessages(conversation, projected) ==
  LET entries == FoldLeft(LAMBDA before, message :
                            merge(before, AnthropicEntry(message, projected)),
                          <<>>, conversation)
  IN FlattenSeq([i \in DOMAIN entries |-> format_entry(entries[i], i = Len(entries))])

(* anthropic.rs: an answer; None when it is not one *)

AnthropicResponse(body) ==
  IF ~body.parsed
     \/ \E i \in DOMAIN body.items :
          body.items[i].type = "tool_use" /\ ~body.items[i].parsable
  THEN None
  ELSE [text |-> FlattenSeq(Texts(body.items, "text")),
        calls |-> CallsOf(body.items, {i \in DOMAIN body.items : body.items[i].type = "tool_use"}),
        invalid_calls |-> <<>>, refusal |-> body.stop = "refusal",
        truncated |-> body.stop = "cut", provider |-> "anthropic", raw |-> body.items]

-----------------------------------------------------------------------------
(* openai.rs: a conversation as input items *)

OpenAICall(call) == [type |-> "function_call", id |-> call.id, name |-> call.name]

(* Each text or refusal is a message of its own, reasoning is kept only    *)
(* with its encrypted content.                                             *)
replay(item) ==
  CASE item.type = "message" ->
         LET parts == SelectSeq(item.parts, LAMBDA part : part.type \in {"output_text", "refusal"})
         IN [i \in DOMAIN parts |-> [type |-> "message", role |-> "assistant", content |-> parts[i]]]
    [] item.type = "reasoning" -> IF item.encrypted THEN <<item>> ELSE <<>>
    [] item.type = "function_call" -> <<OpenAICall(item)>>
    [] OTHER -> <<>>

OpenAITurn(turn) ==
  LET replayed == turn.provider = "openai" /\ turn.raw # None
      items ==
        IF replayed THEN FlattenSeq([i \in DOMAIN turn.raw |-> replay(turn.raw[i])])
        ELSE IF turn.text # <<>> \/ (turn.calls = <<>> /\ turn.invalid_calls = <<>>)
        THEN <<[type |-> "message", role |-> "assistant",
                content |-> [type |-> "output_text", text |-> turn.text]]>>
        ELSE <<>>
      calls == turn.calls \o turn.invalid_calls
  IN [items |-> items, calls |-> [i \in DOMAIN calls |-> OpenAICall(calls[i])]]

(* Every call of a turn that is not yet in the input follows it. *)
WithCalls(input, calls) ==
  FoldLeft(LAMBDA items, call :
             IF \E i \in DOMAIN items : items[i].type = "function_call" /\ items[i].id = call.id
             THEN items ELSE Append(items, call),
           input, calls)

OpenAIInput(conversation, projected) ==
  FoldLeft(LAMBDA input, message :
             CASE message.role = "assistant" ->
                    LET turn == OpenAITurn(message) IN WithCalls(input \o turn.items, turn.calls)
               [] message.role = "tool" ->
                    Append(input, [type |-> "function_call_output", id |-> message.call_id])
               [] message.role = "user" ->
                    Append(input, [type |-> "message", role |-> "user",
                                   image |-> message.id = projected]),
           <<>>, conversation)

(* openai.rs: an answer; None when it is not one *)

OpenAIResponse(body) ==
  IF ~body.parsed \/ body.stop = "error" THEN None
  ELSE LET parts == FlattenSeq([i \in DOMAIN body.items |->
                      IF body.items[i].type = "message" THEN body.items[i].parts ELSE <<>>])
           calls(parsable) ==
             CallsOf(body.items, {i \in DOMAIN body.items :
               body.items[i].type = "function_call" /\ body.items[i].parsable = parsable})
       IN [text |-> FlattenSeq(Texts(parts, "output_text")),
           calls |-> calls(TRUE), invalid_calls |-> calls(FALSE),
           refusal |-> \E i \in DOMAIN parts : parts[i].type = "refusal",
           truncated |-> body.stop = "cut", provider |-> "openai", raw |-> body.items]

response(provider, body) ==
  IF provider = "openai" THEN OpenAIResponse(body) ELSE AnthropicResponse(body)

-----------------------------------------------------------------------------
(* What the providers ask of a conversation: every call is answered, once, *)
(* before the person speaks again, and nothing else is.                    *)

BlockIds(blocks, type) == [b \in {i \in DOMAIN blocks : blocks[i].type = type} |-> blocks[b].id]

Once(ids) == \A i, j \in DOMAIN ids : ids[i] = ids[j] => i = j

IdSet(ids) == {ids[i] : i \in DOMAIN ids}

AnthropicAccepts(messages) ==
  \A i \in DOMAIN messages :
    LET uses == BlockIds(messages[i].blocks, "tool_use")
        results == BlockIds(messages[i].blocks, "tool_result")
    IN /\ Once(uses) /\ Once(results)
       /\ i > 1 => messages[i].role # messages[i - 1].role
       /\ i < Len(messages) => messages[i].blocks # <<>>
       /\ messages[i].role = "user" =>
            IdSet(results) = IF i = 1 THEN {} ELSE IdSet(BlockIds(messages[i - 1].blocks, "tool_use"))

OpenAIAccepts(input) ==
  LET calls == BlockIds(input, "function_call")
      outputs == BlockIds(input, "function_call_output")
      said == {i \in DOMAIN input : input[i].type = "message" /\ input[i].role = "user"}
  IN /\ Once(calls) /\ Once(outputs) /\ IdSet(calls) = IdSet(outputs)
     /\ \A c \in DOMAIN calls, o \in DOMAIN outputs :
          calls[c] = outputs[o] => c < o /\ ~\E s \in said : c < s /\ s < o

(* Whether the provider admits the conversation, with the request-local    *)
(* blocks in the projected message.                                        *)
Accepts(provider, conversation, projected) ==
  IF provider = "openai" THEN OpenAIAccepts(OpenAIInput(conversation, projected))
  ELSE AnthropicAccepts(AnthropicMessages(conversation, projected))
=============================================================================
