------------------------------ MODULE TurnLoop ------------------------------
(***************************************************************************)
(* The chat turn as one durable definition (runtime/src/turn/definition.rs *)
(* and step.rs), from the request that starts it to its outcome.           *)
(*                                                                         *)
(* The definition is executed from its beginning at every drive.  What it  *)
(* knows (turn) is lost with the process and at every suspension; what the *)
(* journal holds of its model calls and Team requests is replayed.  Drive  *)
(* models the journal's writes, TurnService the requests that drive a run, *)
(* Charging the charge, Recording what the Routine tool records.           *)
(***************************************************************************)
EXTENDS Requests, Guards

CONSTANTS
  Starts,         \* the start requests Team may send
  Kept,           \* what the thread keeps of earlier turns
  KeptScope,      \* the scope digest the thread is bound to
  Answers(_),     \* what each provider's model may answer
  Verdicts,       \* what the memory check may answer
  Results,        \* what Team may answer
  RecursionLimit, \* RECURSION_LIMIT
  MaxAttempts,    \* Profile::CHAT.attempts
  MaxRounds,      \* bound: the rounds Team answers
  MaxCrashes      \* bound: the crashes

(* What the thread keeps, and the items of an answer, are lists; charges   *)
(* and their ceiling count tokens.                                         *)
ASSUME KeptAssumption == Len(Kept) \in Nat /\ Kept = [k \in 1..Len(Kept) |-> Kept[k]]

ASSUME AnswersAssumption ==
  \A r \in Starts : \A body \in Answers(r.provider.id) :
    /\ "items" \in DOMAIN body /\ Len(body.items) \in Nat
    /\ body.items = [k \in 1..Len(body.items) |-> body.items[k]]

ASSUME ChargeAssumption == MaxTurnTokens \in Nat /\ \A r \in Starts : r.charge \in Nat

VARIABLES
  request,  \* the start request, or None
  input,    \* what the run captured
  journal,  \* its model calls and Team requests
  turn,     \* the definition's volatile state
  pc,       \* where the definition is
  sent,     \* provider attempts that carried the turn's attachments
  crashes,
  outcome   \* the run's result, or None

vars == <<request, input, journal, turn, pc, sent, crashes, outcome>>

-----------------------------------------------------------------------------
(* The captured input *)

Input(r) ==
  LET offer == surface(r)
      kept == IF KeptScope = scope_digest(r.assistants) THEN Kept ELSE <<>>
  IN [tools |-> offer.tools, browser |-> offer.browser,
      memory_tool |-> offer.memory_tool, routine_tool |-> offer.routine_tool,
      rerun |-> r.routine_rerun, provider |-> r.provider.id,
      routine_mode |-> r.routine_mode,
      attached |-> r.attachments # <<>>, charge |-> r.charge,
      messages |-> Append(kept, User(<<"turn">>, r.said, r.quoted)),
      turn_start |-> Len(kept)]

(* Mutant: ids are numbered on from the last drive. *)
FreshCounting(i) ==
  [messages |-> i.messages, counter |-> IF turn = None THEN 0 ELSE turn.counter,
   steps |-> 0, attempt |-> 1, first_segment |-> TRUE, after_browser |-> FALSE,
   cursor |-> 1, settled |-> None]

(* Turn::new. *)
Fresh(i) ==
  [messages |-> i.messages, counter |-> 0, steps |-> 0, attempt |-> 1,
   first_segment |-> TRUE, after_browser |-> FALSE, cursor |-> 1, settled |-> None]

-----------------------------------------------------------------------------
(* Helpers *)

Goto(place) == pc' = place

End(result) == outcome' = result /\ Goto("done")

Fail(kind) == End([kind |-> kind])

(* Where the definition goes on by itself, with no step of the journal. *)
At(place, t) == [pc |-> place, turn |-> t]
Failing(kind) == [pc |-> "failed", kind |-> kind]

GoOn(to) ==
  /\ IF to.pc = "failed" THEN Fail(to.kind) /\ UNCHANGED turn
     ELSE turn' = to.turn /\ Goto(to.pc) /\ UNCHANGED outcome
  /\ UNCHANGED <<request, input, journal, sent, crashes>>

Within(t, steps) == t.steps + steps <= RecursionLimit

take_steps(t, steps) == [t EXCEPT !.steps = @ + steps]

Offered(i) == {tool.name : tool \in i.tools}

Tools(i, t) == IF t.after_browser THEN {} ELSE i.tools

Reserved(i, t) ==
  IF i.attached THEN dispatched(t.messages, turn_message(t.messages)) ELSE 0

chat_request(i, t) ==
  [kind |-> "chat", messages |-> t.messages, tools |-> Tools(i, t),
   reserved |-> Reserved(i, t)]

check_request(t) == [kind |-> "check", changes |-> proposed(t.messages)]

(* The journaled step at the cursor. *)
Replaying == turn.cursor <= Len(journal)
Step == journal[turn.cursor]

ModelStep(asked) ==
  [kind |-> "model", request |-> asked, state |-> "running", answer |-> None]

Settle(state, answer) ==
  journal' = [journal EXCEPT ![turn.cursor].state = state, ![turn.cursor].answer = answer]

-----------------------------------------------------------------------------
(* One start *)

Start(r) ==
  /\ pc = "idle"
  /\ request' = r
  /\ IF start(r) # "turn" THEN Fail(start(r)) /\ UNCHANGED <<input, turn>>
     ELSE /\ input' = Input(r) /\ turn' = Fresh(Input(r))
          /\ Goto("model") /\ UNCHANGED outcome
  /\ UNCHANGED <<journal, sent, crashes>>

-----------------------------------------------------------------------------
(* call_model and check_memory: a journaled model call *)

(* The call made at the definition's place; a check costs no graph step. *)
Asked == IF pc = "model" THEN chat_request(input, turn) ELSE check_request(turn)

AtCall ==
  (pc = "model" /\ Within(turn, 1)) \/ (pc = "check" /\ proposed(turn.messages) # <<>>)

Dispatch ==
  /\ AtCall /\ ~Replaying
  /\ journal' = Append(journal, ModelStep(Asked))
  /\ Goto(IF pc = "model" THEN "calling" ELSE "checking")
  /\ UNCHANGED <<request, input, turn, sent, crashes, outcome>>

(* A replay must come to the same call.  A call a crash cut off has        *)
(* failed: the model is never retried.                                     *)
Interrupted ==
  /\ AtCall /\ Replaying
  /\ Step.kind # "model" \/ Step.state = "running"
  /\ IF Step.kind = "model" /\ Step.request = Asked
     THEN Settle("failed", "provider") /\ UNCHANGED <<pc, outcome>>
     ELSE Fail("diverged") /\ UNCHANGED journal
  /\ UNCHANGED <<request, input, turn, sent, crashes>>

Failed ==
  /\ AtCall /\ Replaying
  /\ Step.kind = "model" /\ Step.state = "failed"
  /\ Fail(Step.answer)
  /\ UNCHANGED <<request, input, journal, turn, sent, crashes>>

(* ProviderModel::chat: every attempt is admitted, then sent and answered  *)
(* (Provider models the transport).                                        *)
Refuse ==
  /\ pc = "calling"
  /\ input.attached /\ ~admit_call(input.charge, Reserved(input, turn) + turn.attempt - 1)
  /\ Settle("failed", "contract") /\ Goto("model")
  /\ UNCHANGED <<request, input, turn, sent, crashes, outcome>>

Attempt ==
  /\ pc = "calling"
  /\ input.attached => admit_call(input.charge, Reserved(input, turn) + turn.attempt - 1)
  /\ sent' = IF input.attached THEN sent + 1 ELSE sent
  /\ Goto("sending")
  /\ UNCHANGED <<request, input, journal, turn, crashes, outcome>>

Retry ==
  /\ pc = "sending" /\ turn.attempt < MaxAttempts
  /\ turn' = [turn EXCEPT !.attempt = @ + 1]
  /\ Goto("calling")
  /\ UNCHANGED <<request, input, journal, sent, crashes, outcome>>

(* The provider names the calls of its answer. *)
Named(body) ==
  [body EXCEPT !.items = [i \in DOMAIN @ |->
    IF @[i].type \in {"tool_use", "function_call"}
    THEN [@[i] EXCEPT !.id = <<turn.cursor, i>>] ELSE @[i]]]

(* What was read of it is a message with the attempts it took. *)
Spoken(read, attempts) ==
  [role |-> "assistant", id |-> <<>>, text |-> read.text, truncated |-> read.truncated,
   invalid_calls |-> read.invalid_calls, attempts |-> attempts, calls |-> read.calls,
   refusal |-> read.refusal, provider |-> read.provider, raw |-> read.raw]

Answer(body) ==
  /\ pc = "sending"
  /\ LET read == response(input.provider, Named(body))
     IN IF read = None THEN Settle("failed", "provider")
        ELSE Settle("done", Spoken(read, turn.attempt))
  /\ Goto("model")
  /\ UNCHANGED <<request, input, turn, sent, crashes, outcome>>

GiveUpCall ==
  /\ pc = "sending"
  /\ \E why \in {"provider", "cancelled"} : Settle("failed", why)
  /\ Goto("model")
  /\ UNCHANGED <<request, input, turn, sent, crashes, outcome>>

received(t, message) ==
  IF message.truncated THEN Failing("provider")
  ELSE At("review",
         [t EXCEPT !.steps = @ + 1, !.attempt = 1, !.cursor = @ + 1, !.counter = @ + 1,
            !.messages = Append(@, [message EXCEPT !.id = <<"a", t.counter + 1>>])])

Receive ==
  /\ AtCall /\ pc = "model" /\ Replaying /\ Step.kind = "model" /\ Step.state = "done"
  /\ GoOn(received(turn, Step.answer))

-----------------------------------------------------------------------------
(* review: the guards in order, each one graph step *)

Guard(active, ruling) == IF active THEN <<ruling>> ELSE <<>>

guards(i, t) ==
  Guard(t.after_browser, review_after(t.messages))
  \o Guard(i.browser, review_alone(t.messages))
  \o Guard(i.rerun # None, ReviewRerun(t.messages, i.rerun))
  \o Guard(i.routine_tool, ReviewRoutine(t.messages))
  \o Guard(i.memory_tool, ReviewMemory(t.messages, t.first_segment))
  \o <<ReviewClarification(t.messages, t.first_segment, i.routine_mode)>>

(* The guards taken: up to the first that does not let the calls run. *)
Taken(rulings) ==
  LET stops == {k \in DOMAIN rulings : rulings[k] # Run}
  IN IF stops = {} THEN Len(rulings) ELSE Min(stops)

(* Tool messages that answer calls of the latest answer, with fresh ids. *)
Answered(t, contents) ==
  [t EXCEPT
    !.counter = @ + Len(contents),
    !.messages = @ \o [i \in DOMAIN contents |->
      Result(<<"t", t.counter + i>>, Latest(t.messages).calls[i], contents[i])]]

Calls(t) == Latest(t.messages).calls

Correction(t, ruling) == [k \in DOMAIN Calls(t) |-> ruling.correction]

review(i, t) ==
  LET taken == Taken(guards(i, t))
      ruling == guards(i, t)[taken]
      stepped == take_steps(t, taken)
  IN IF ~Within(t, taken) THEN Failing("provider")
     ELSE CASE ruling.kind = "contract" -> Failing("contract")
            [] ruling.kind = "refused" ->
                 At("model", Answered(stepped, Correction(t, ruling)))
            [] ruling.kind = "recorded" -> At("settle", Answered(stepped, <<"recorded">>))
            [] OTHER ->
                 IF Calls(t) = <<>> THEN At("settle", stepped)
                 ELSE IF ~Within(stepped, 1) THEN Failing("provider")
                 ELSE At("tools", take_steps(stepped, 1))

Review == pc = "review" /\ GoOn(review(input, turn))

-----------------------------------------------------------------------------
(* run_tools *)

Known(i, t, call) == call.name \in Offered(i) /\ ~t.after_browser

(* How one call is answered: by Team, or at once with this content. *)
answer(i, t, call) ==
  CASE ~Known(i, t, call) -> "unknown"
    [] Known(i, t, call) /\ call.name \in action_names(i.tools) ->
         IF call.arguments.valid THEN "team" ELSE "correction"
    [] Known(i, t, call) /\ call.name = Clarify -> "asked"
    [] Known(i, t, call) /\ call.name = Memory -> "proposed"
    [] Known(i, t, call) /\ call.name = Browser ->
         IF objective(call.arguments) THEN "team" ELSE "correction"
    [] Known(i, t, call) /\ call.name = Routine -> "guarded"

ForTeam(i, t) == {k \in DOMAIN Calls(t) : answer(i, t, Calls(t)[k]) = "team"}

interrupt_id(n) == <<"i", n>>

(* Team's calls at their places in the answer, numbered in order. *)
requests(i, t) ==
  [n \in ForTeam(i, t) |->
    [interrupt_id |-> interrupt_id(t.counter + Cardinality({k \in ForTeam(i, t) : k <= n})),
     call |-> Calls(t)[n]]]

TeamStep(asked) == [kind |-> "team", requests |-> asked, results |-> <<>>]

Ids(step) == {step.requests[k].interrupt_id : k \in DOMAIN step.requests}

resumed(t, browser) ==
  [t EXCEPT !.steps = 0, !.first_segment = FALSE, !.after_browser = browser]

(* Every call in order, Team's with its result. *)
push_answers(i, t, results) ==
  Answered(t, [n \in DOMAIN Calls(t) |->
    IF n \in ForTeam(i, t) THEN results[n] ELSE answer(i, t, Calls(t)[n])])

AfterTools(t) ==
  IF \E k \in DOMAIN Calls(t) : Calls(t)[k].name = Clarify THEN "settle" ELSE "model"

(* A Routine call that passed its guard would be answered by no tool. *)
Unguarded(i, t) == \E k \in DOMAIN Calls(t) : answer(i, t, Calls(t)[k]) = "guarded"

run_tools(i, t) ==
  IF Unguarded(i, t) THEN Failing("contract")
  ELSE At(AfterTools(t), push_answers(i, t, <<>>))

(* The requests take their ids before Team answers. *)
told(i, t, results) ==
  LET asked == requests(i, t)
      numbered == [t EXCEPT !.counter = @ + Cardinality(DOMAIN asked), !.cursor = @ + 1]
      browser == \E k \in DOMAIN asked : asked[k].call.name = Browser
  IN At(AfterTools(t),
        resumed(push_answers(i, numbered,
                  [k \in DOMAIN asked |-> results[asked[k].interrupt_id]]), browser))

RunTools ==
  /\ pc = "tools" /\ (Unguarded(input, turn) \/ ForTeam(input, turn) = {})
  /\ GoOn(run_tools(input, turn))

AtTeam == pc = "tools" /\ ~Unguarded(input, turn) /\ ForTeam(input, turn) # {}

AskTeam ==
  /\ AtTeam /\ ~Replaying
  /\ journal' = Append(journal, TeamStep(requests(input, turn)))
  /\ Goto("waiting")
  /\ UNCHANGED <<request, input, turn, sent, crashes, outcome>>

SameBatch == Step.kind = "team" /\ Step.requests = requests(input, turn)
AllAnswered == SameBatch /\ DOMAIN Step.results = Ids(Step)

(* Still unanswered in part: the run waits again. *)
Rewait ==
  /\ AtTeam /\ Replaying
  /\ ~AllAnswered
  /\ IF SameBatch THEN Goto("waiting") /\ UNCHANGED outcome ELSE Fail("diverged")
  /\ UNCHANGED <<request, input, journal, turn, sent, crashes>>

TeamAnswered ==
  /\ AtTeam /\ Replaying /\ AllAnswered
  /\ GoOn(told(input, turn, Step.results))

(* Team's answer to some of the pending requests drives the run again. *)
Rounds == Cardinality({i \in DOMAIN journal : journal[i].kind = "team"})

Resume ==
  /\ pc = "waiting" /\ Rounds <= MaxRounds
  /\ LET last == Len(journal)
         pending == Ids(journal[last]) \ DOMAIN journal[last].results
     IN \E ids \in (SUBSET pending) \ {{}} : \E result \in Results :
          /\ Cardinality(ids) <= MaxResults
          /\ journal' = [journal EXCEPT ![last].results = @ @@ [id \in ids |-> result]]
  /\ turn' = Fresh(input) /\ Goto("model")
  /\ UNCHANGED <<request, input, sent, crashes, outcome>>

-----------------------------------------------------------------------------
(* finish: settle, then check the memory proposals *)

Remember(i, t, reply) ==
  [t EXCEPT !.counter = @ + 1,
    !.messages = Append(@,
      [role |-> "assistant", id |-> <<"a", t.counter + 1>>, text |-> <<reply>>,
       truncated |-> FALSE, invalid_calls |-> <<>>, attempts |-> 1, calls |-> <<>>,
       refusal |-> FALSE, provider |-> i.provider, raw |-> None])]

Settled(reply, clarification, routine) ==
  [kind |-> "completed", reply |-> reply, clarification |-> clarification,
   routine |-> routine, memory |-> <<>>]

(* A recorded question, in routine mode without its default. *)
AskedQuestion(i, t) ==
  LET arguments == t.messages[Len(t.messages) - 1].calls[1].arguments
  IN IF i.routine_mode THEN [arguments EXCEPT !.default_index = None] ELSE arguments

LastAnswer(i, t) ==
  {k \in i.turn_start + 1..Len(t.messages) : t.messages[k].role = "assistant"}

settle(i, t) ==
  LET replies == LastAnswer(i, t)
      reply == final_reply(t.messages[Max(replies)])
      To(after, result) == At("check", [after EXCEPT !.settled = result])
  IN IF asked_clarification(t.messages)
     THEN To(Remember(i, t, "question"), Settled("question", AskedQuestion(i, t), None))
     ELSE IF asked_routine(t.messages)
     THEN To(Remember(i, t, "recorded"), Settled("recorded", None, "recorded"))
     ELSE IF replies = {} \/ blank(reply) THEN Failing("contract")
     ELSE To(t, Settled(reply, None, None))

SettleTurn == pc = "settle" /\ GoOn(settle(input, turn))

(* The check's attempts carry no attachment. *)
Check ==
  /\ pc = "checking"
  /\ \/ \E ruling \in Verdicts : Settle("done", ruling)
     \/ Settle("failed", "cancelled")
  /\ Goto("check")
  /\ UNCHANGED <<request, input, turn, sent, crashes, outcome>>

Unproposed ==
  /\ pc = "check" /\ proposed(turn.messages) = <<>>
  /\ End(turn.settled)
  /\ UNCHANGED <<request, input, journal, turn, sent, crashes>>

Confirm ==
  /\ AtCall /\ pc = "check" /\ Replaying /\ Step.kind = "model" /\ Step.state = "done"
  /\ End([turn.settled EXCEPT !.memory = accepted(proposed(turn.messages), Step.answer)])
  /\ UNCHANGED <<request, input, journal, turn, sent, crashes>>

-----------------------------------------------------------------------------

(* The recursion limit, before a model call. *)
Exceed ==
  /\ pc = "model" /\ ~Within(turn, 1)
  /\ Fail("provider")
  /\ UNCHANGED <<request, input, journal, turn, sent, crashes>>

(* The process ends while it drives the run; a later request drives it.    *)
Crash ==
  /\ pc \notin {"idle", "waiting", "done"} /\ crashes < MaxCrashes
  /\ crashes' = crashes + 1
  /\ turn' = Fresh(input) /\ Goto("model")
  /\ UNCHANGED <<request, input, journal, sent, outcome>>

Init ==
  /\ request = None /\ input = None /\ turn = None /\ outcome = None
  /\ journal = <<>> /\ pc = "idle" /\ sent = 0 /\ crashes = 0

Next ==
  \/ \E r \in Starts : Start(r)
  \/ Dispatch \/ Interrupted \/ Failed \/ Receive \/ Exceed
  \/ Refuse \/ Attempt \/ Retry \/ (pc = "sending" /\ \E body \in Answers(input.provider) : Answer(body)) \/ GiveUpCall
  \/ Review \/ RunTools
  \/ AskTeam \/ Rewait \/ TeamAnswered \/ Resume
  \/ SettleTurn \/ Check \/ Unproposed \/ Confirm
  \/ Crash

Spec == Init /\ [][Next]_vars

-----------------------------------------------------------------------------

Completed == outcome # None /\ outcome.kind = "completed"

TeamSteps == {i \in DOMAIN journal : journal[i].kind = "team"}

(* A turn that is executed again after a suspension or a crash comes to the *)
(* same model calls and asks Team under the same interrupt ids             *)
(* (interrupt_id_next and Turn::new, definition.rs): Team never performs a  *)
(* request twice because the run asked for it under two ids.               *)
ReplaySame == outcome # None => outcome.kind # "diverged"

(* A Browser task is asked for alone and is the last thing a turn asks of  *)
(* Team (review_alone, review_after and answer): what was read on the web  *)
(* can no longer lead to an Action.                                        *)
BrowserLast ==
  \A i \in TeamSteps : \A k \in DOMAIN journal[i].requests :
    journal[i].requests[k].call.name = Browser
    => DOMAIN journal[i].requests = {k} /\ \A j \in TeamSteps : j <= i

(* Every memory change a turn saves was proposed before any Team result,   *)
(* from words the user wrote in the message of this turn, outside what     *)
(* they quoted, and the check confirmed it (memory.rs: review, proposed,   *)
(* accepted), whatever earlier turns proposed.                             *)
KeptFromUser ==
  Completed => \A c \in DOMAIN outcome.memory :
    \E i \in DOMAIN journal :
      /\ journal[i].kind = "model" /\ journal[i].state = "done"
      /\ journal[i].request.kind = "chat"
      /\ \A j \in TeamSteps : i < j
      /\ \E arguments \in {journal[i].answer.calls[k].arguments : k \in
                             {n \in DOMAIN journal[i].answer.calls :
                                journal[i].answer.calls[n].name = Memory}} :
           /\ Change(arguments) = outcome.memory[c]
           /\ arguments.quote.folded \in request.said

ChatSteps == {i \in DOMAIN journal : journal[i].kind = "model" /\ journal[i].request.kind = "chat"}

Admitted(messages) ==
  Accepts(input.provider, messages, IF input.attached THEN <<"turn">> ELSE None)

(* In every model request the provider finds each call answered once,      *)
(* where it asks for it, under one id (anthropic.rs: messages, tool_use_id *)
(* and replay; openai.rs: input; answer_all and push_answers), whichever   *)
(* provider wrote the earlier turns.  A call that could not be parsed is   *)
(* left to RefusedPaired.                                                  *)
CallsPaired ==
  \A i \in ChatSteps :
    LET messages == journal[i].request.messages
    IN (\A j \in DOMAIN messages : messages[j].role = "assistant" => messages[j].invalid_calls = <<>>)
       => Admitted(messages)

Corrections ==
  {"alone", "after", "mixed", "after_action", "invalid", "team_owned", "limit", "field", "rerun"}

(* Every call of a refused response is answered with the guard's           *)
(* correction and stays paired with a result (refusal.rs:1-2; answer_all,  *)
(* definition.rs), a call that could not be parsed included: the messages  *)
(* of the request that follows answer each of them.                        *)
RefusedPaired ==
  \A i \in ChatSteps :
    LET messages == journal[i].request.messages
        results == {k \in DOMAIN messages : messages[k].role = "tool"}
    IN \A j \in DOMAIN messages :
         (/\ messages[j].role = "assistant"
          /\ j + 1 \in results /\ messages[j + 1].content \in Corrections)
         => LET all == messages[j].calls \o messages[j].invalid_calls
            IN \A c \in DOMAIN all : \E k \in results : messages[k].call_id = all[c].id

(* Every provider attempt that carried the turn's attachments, those of a  *)
(* crashed process included, is within the ceiling of the turn             *)
(* (MAX_TURN_TOKENS; attachments.rs: admit_call and dispatched, model.rs:  *)
(* chat).                                                                  *)
CeilingHeld == pc # "idle" /\ input # None => sent * input.charge <= MaxTurnTokens
=============================================================================
