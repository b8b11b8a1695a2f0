------------------------------- MODULE Guards -------------------------------
(***************************************************************************)
(* The guards that review a model's answer before any of its calls runs    *)
(* (runtime/src/tools: refusal, browser, clarification, memory, routine).  *)
(*                                                                         *)
(* An answer has calls in order, the names of the calls that could not be  *)
(* parsed, a text, and whether it was cut short.  The arguments of a call  *)
(* are what its tool reads of them; a text is                              *)
(*   [chars, safe, folded, team_asks]                                      *)
(* after normalisation: its length, whether only printable characters, its *)
(* casefolded form, and whether it asks what Team itself asks.             *)
(***************************************************************************)
EXTENDS Integers, SequencesExt, FiniteSetsExt

CONSTANTS
  MaxQuestionChars, MaxLabelChars, MaxDescriptionChars,
  MinOptions, MaxOptions,  \* options of one clarification
  MaxQuoteChars,           \* MAX_MEMORY_PREFERENCE_CHARS
  MinQuoteChars,           \* MIN_QUOTE_CHARS
  MaxChanges,              \* MAX_MEMORY_CHANGES
  MaxObjectiveChars

Clarify == <<"clarify">>
Browser == <<"browser">>
Memory == <<"memory">>
Routine == <<"routine">>

User(id, said, quoted) == [role |-> "user", id |-> id, said |-> said, quoted |-> quoted]
Result(id, call, content) ==
  [role |-> "tool", id |-> id, call_id |-> call.id, name |-> call.name, content |-> content]

(* What a guard decides. *)
Run == [kind |-> "run"]
Refused(correction) == [kind |-> "refused", correction |-> correction]
Recorded(record) == [kind |-> "recorded", record |-> record]
Unparsable == [kind |-> "contract"]

Latest(messages) == messages[Len(messages)]

-----------------------------------------------------------------------------
(* refusal.rs *)

Names(answer) ==
  {answer.calls[i].name : i \in DOMAIN answer.calls}
    \cup {answer.invalid_calls[i].name : i \in DOMAIN answer.invalid_calls}

(* A guarded tool's call, when the answer makes one, must be parsable and  *)
(* the only one; alone is then its ruling.                                *)
LoneCall(answer, tool, mixed, alone) ==
  CASE tool \notin Names(answer) -> Run
    [] tool \in Names(answer) /\ answer.invalid_calls # <<>> -> Unparsable
    [] tool \in Names(answer) /\ answer.invalid_calls = <<>> ->
         IF DOMAIN answer.calls = {1} THEN alone ELSE Refused(mixed)

-----------------------------------------------------------------------------
(* browser.rs *)

objective(arguments) == arguments.closed /\ arguments.chars \in 1..MaxObjectiveChars

(* Mutant: the Browser may be called beside other tools. *)
ReviewAloneNever(messages) == Run

review_alone(messages) ==
  LoneCall(Latest(messages), Browser, "alone", Run)

review_after(messages) ==
  IF Latest(messages).calls # <<>> THEN Refused("after") ELSE Run

-----------------------------------------------------------------------------
(* clarification.rs *)

line(text, maximum, empty) ==
  text.safe /\ text.chars <= maximum /\ (empty \/ text.chars > 0)

option(given) ==
  /\ line(given.label, MaxLabelChars, FALSE)
  /\ line(given.description, MaxDescriptionChars, TRUE)

parse(arguments) ==
  /\ arguments.closed
  /\ line(arguments.question, MaxQuestionChars, FALSE)
  /\ Len(arguments.options) \in MinOptions..MaxOptions
  /\ \A i \in DOMAIN arguments.options : option(arguments.options[i])
  /\ arguments.default_index \in 0..Len(arguments.options) - 1
  /\ Cardinality({arguments.options[i].label.folded : i \in DOMAIN arguments.options})
       = Len(arguments.options)

team_owned(asked) ==
  \/ asked.question.team_asks
  \/ \E i \in DOMAIN asked.options : asked.options[i].label.team_asks

ReviewClarification(messages, allowed, routine_mode) ==
  LET asked == Latest(messages).calls[1].arguments
  IN LoneCall(Latest(messages), Clarify, "mixed",
       IF ~allowed THEN Refused("after_action")
       ELSE IF ~parse(asked) THEN Refused("invalid")
       ELSE IF routine_mode /\ team_owned(asked) THEN Refused("team_owned")
       ELSE Run)

(* The result of a lone call ends the messages. *)
Ended(messages, tool) ==
  /\ Len(messages) >= 2
  /\ Latest(messages).role = "tool" /\ Latest(messages).name = tool
  /\ LET call == messages[Len(messages) - 1]
     IN call.role = "assistant" /\ Len(call.calls) = 1

asked_clarification(messages) ==
  /\ Ended(messages, Clarify)
  /\ parse(messages[Len(messages) - 1].calls[1].arguments)

-----------------------------------------------------------------------------
(* memory.rs *)

(* The place of the message that started the latest turn. *)
turn_message(messages) ==
  Max({i \in DOMAIN messages : messages[i].role = "user"})

current_message(messages) == messages[turn_message(messages)]

(* What the user said themselves, outside what they quoted. *)
own_words(message) == message.said

(* A change is taken from the user's own words of the current message. *)
change(arguments, current) ==
  /\ arguments.closed
  /\ arguments.op \in {"remember", "forget"}
  /\ line(arguments.quote, MaxQuoteChars, TRUE)
  /\ arguments.quote.chars >= MinQuoteChars
  /\ arguments.quote.folded \in own_words(current)

Change(arguments) ==
  [op |-> arguments.op, topic |-> arguments.topic,
   preference |-> IF arguments.op = "remember" THEN arguments.quote.folded ELSE ""]

calls_to_tool(answer) == SelectSeq(answer.calls, LAMBDA call : call.name = Memory)

(* Mutant: the proposals of every turn of the conversation. *)
ProposedEver(messages) ==
  LET ran == {messages[i].call_id : i \in {j \in DOMAIN messages :
                messages[j].role = "tool" /\ messages[j].content = "proposed"}}
      calls == FlattenSeq([i \in DOMAIN messages |->
                 IF messages[i].role = "assistant" THEN calls_to_tool(messages[i]) ELSE <<>>])
  IN [i \in DOMAIN SelectSeq(calls, LAMBDA call : call.id \in ran) |->
       Change(SelectSeq(calls, LAMBDA call : call.id \in ran)[i].arguments)]

(* The changes of the latest turn whose call ran. *)
proposed(messages) ==
  LET turn == SubSeq(messages, turn_message(messages), Len(messages))
      ran == {turn[i].call_id : i \in {j \in DOMAIN turn :
                turn[j].role = "tool" /\ turn[j].name = Memory /\ turn[j].content = "proposed"}}
      calls == FlattenSeq([i \in DOMAIN turn |->
                 IF turn[i].role = "assistant" THEN calls_to_tool(turn[i]) ELSE <<>>])
      kept == SelectSeq(calls, LAMBDA call :
                call.id \in ran /\ change(call.arguments, current_message(turn)))
  IN [i \in DOMAIN kept |-> Change(kept[i].arguments)]

ReviewMemory(messages, allowed) ==
  LET proposals == calls_to_tool(Latest(messages))
  IN CASE proposals = <<>> -> Run
       [] proposals # <<>> /\ ~allowed -> Refused("after_action")
       [] proposals # <<>> /\ allowed ->
            IF \E i \in DOMAIN proposals :
                 ~change(proposals[i].arguments, current_message(messages))
            THEN Refused("invalid")
            ELSE IF Len(proposed(messages)) + Len(proposals) > MaxChanges
            THEN Refused("limit") ELSE Run

(* What the check's ruling keeps: one boolean a change, or nothing at all. *)
accepted(changes, ruling) ==
  IF Len(ruling) # Len(changes) THEN <<>>
  ELSE LET kept == SetToSortSeq({i \in DOMAIN changes : ruling[i]}, <)
       IN [i \in DOMAIN kept |-> changes[kept[i]]]

-----------------------------------------------------------------------------
(* routine.rs; Recording models what is recordable and what is rerun. *)

ReviewRoutine(messages) ==
  LET recorded == Latest(messages).calls[1].arguments
  IN LoneCall(Latest(messages), Routine, "mixed",
       IF recorded.recordable THEN Recorded(recorded) ELSE Refused("field"))

(* The calls to the rerun's checked tools are judged, or none can be. *)
ReviewRerun(messages, checked) ==
  LET calls == SelectSeq(Latest(messages).calls, LAMBDA call : call.name \in checked)
  IN CASE calls = <<>> -> Run
       [] calls # <<>> /\ Latest(messages).invalid_calls # <<>> -> Unparsable
       [] calls # <<>> /\ Latest(messages).invalid_calls = <<>> ->
            IF \E i \in DOMAIN calls : ~calls[i].arguments.rerun
            THEN Refused("rerun") ELSE Run

(* budget.rs: a turn that calls, or was cut short, ends nothing. *)
final_reply(answer) ==
  IF answer.calls = <<>> /\ answer.invalid_calls = <<>> /\ ~answer.truncated
  THEN answer.text ELSE <<>>

asked_routine(messages) ==
  /\ Latest(messages).role = "tool" /\ Latest(messages).name = Routine
  /\ Latest(messages).content = "recorded"
=============================================================================
