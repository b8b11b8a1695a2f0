------------------------------ MODULE History ------------------------------
(***************************************************************************)
(* What a chat turn gives its model of the thread's earlier turns          *)
(* (runtime/src/budget.rs, turn/service/prepare.rs: fit): the newest whole *)
(* exchanges within the budgets, older Action results omitted a batch at a *)
(* time, and a bridge of presentation history only when nothing is kept.   *)
(*                                                                         *)
(* A thread is followed over successive turns.  A start fits its history   *)
(* and saves what it kept; the turn then completes, and its exchange is    *)
(* appended, or fails, and is not.  Token counts are small numbers.        *)
(***************************************************************************)
EXTENDS Integers, SequencesExt

CONSTANTS
  MaxTurns,      \* bound: turns started
  MaxExchanges,  \* MAX_HISTORY_EXCHANGES
  Budget,        \* HISTORY_BUDGET_TOKENS
  Window,        \* MODEL_WINDOW_TOKENS
  Reserve,       \* OUTPUT_RESERVE_TOKENS
  KeepResults,   \* KEEP_RESULT_EXCHANGES
  OmitTrigger,   \* OMIT_RESULTS_TRIGGER_TOKENS
  Placeholder,   \* tokens of OMITTED_RESULT
  BridgeTokens,  \* tokens of a bridge
  FixedTokens,   \* tokens of a prompt and its tools
  Results        \* the tool results a turn may collect: [name, tokens]

VARIABLES
  history,  \* the thread's stored messages
  before,   \* what was stored before the last start
  offered,  \* the messages of the running turn's input
  fixed,    \* the fixed tokens of the running turn
  turn,     \* turns started
  running   \* is a turn running

vars == <<history, before, offered, fixed, turn, running>>

(* id <<t, i>> is the i-th message of turn t.  read marks a message of an  *)
(* exchange that read content: an attached turn's message, a browser call, *)
(* a browser result.  final marks an accepted reply.                       *)
Message ==
  [id : (1..MaxTurns) \X Nat, role : {"bridge", "user", "assistant", "tool"},
   tokens : Nat, action : BOOLEAN, read : BOOLEAN, final : BOOLEAN]

Msg(id, role, tokens) ==
  [id |-> id, role |-> role, tokens |-> tokens, action |-> FALSE,
   read |-> FALSE, final |-> FALSE]

TurnMessage(t, attached) == [Msg(<<t, 2>>, "user", 1) EXCEPT !.read = attached]

(* What a completed turn appends: a call and a result for each tool it     *)
(* used, then its reply.                                                   *)
Round(t, i, result) ==
  LET browser == result.name = "browser"
  IN << [Msg(<<t, 2 * i + 1>>, "assistant", 1) EXCEPT !.read = browser],
        [Msg(<<t, 2 * i + 2>>, "tool", result.tokens) EXCEPT
           !.action = result.name = "action", !.read = browser] >>

Rounds(t, results) ==
  FlattenSeq([i \in DOMAIN results |-> Round(t, i, results[i])])

Reply(t) == [Msg(<<t, 0>>, "assistant", 1) EXCEPT !.final = TRUE]

-----------------------------------------------------------------------------
(* budget.rs *)

Tokens(messages) == FoldLeft(LAMBDA sum, m : sum + m.tokens, 0, messages)

(* Mutant: a bridge is an exchange of its own. *)
BridgeApart(messages, i) == messages[i].role \in {"bridge", "user"}

(* An exchange starts at a user message, unless that message follows a     *)
(* bridge, which is the start of the exchange both belong to.              *)
Starts(messages, i) ==
  /\ messages[i].role \in {"bridge", "user"}
  /\ ~(i > 1 /\ messages[i - 1].role = "bridge")

(* Whole exchanges exist only when the history starts with a user message. *)
Decomposes(messages) == messages # <<>> => Starts(messages, 1)

exchanges(messages) ==
  LET starts == SetToSortSeq({i \in DOMAIN messages : Starts(messages, i)}, <)
      end(k) == IF k = Len(starts) THEN Len(messages) ELSE starts[k + 1] - 1
  IN [k \in DOMAIN starts |-> SubSeq(messages, starts[k], end(k))]

completed(exchange) == exchange[Len(exchange)].final

forgotten(exchange) == \E i \in DOMAIN exchange : exchange[i].read

Remembered(exchange) == completed(exchange) /\ ~forgotten(exchange)

window_within(constant, conversation) ==
  constant + conversation + Reserve <= Window

(* Mutant: an exchange that does not fit is skipped, not the last one kept.*)
TakeSkipping(constant, current, state, exchange) ==
  LET total == state.used + Tokens(exchange)
  IN IF /\ Remembered(exchange)
        /\ Len(state.kept) < MaxExchanges
        /\ total <= Budget
        /\ window_within(constant + total, current)
     THEN [state EXCEPT !.kept = <<exchange>> \o @, !.used = total]
     ELSE state

(* One exchange of the loop from the newest to the oldest. *)
Take(constant, current, state, exchange) ==
  LET total == state.used + Tokens(exchange)
  IN IF state.full \/ ~Remembered(exchange) THEN state
     ELSE IF \/ Len(state.kept) = MaxExchanges
             \/ total > Budget
             \/ ~window_within(constant + total, current)
     THEN [state EXCEPT !.full = TRUE]
     ELSE [state EXCEPT !.kept = <<exchange>> \o @, !.used = total]

(* history_to_drop, by what it keeps. *)
Kept(messages, constant, current) ==
  LET start == [kept |-> <<>>, used |-> 0, full |-> FALSE]
      step(exchange, state) == Take(constant, current, state, exchange)
  IN FlattenSeq(FoldRight(step, exchanges(messages), start).kept)

Gain(m) ==
  IF m.role = "tool" /\ m.action /\ m.tokens > Placeholder
  THEN m.tokens - Placeholder ELSE 0

(* Mutant: the newest exchanges are counted with the forgotten ones. *)
OmitCountingAll(messages) ==
  LET all == exchanges(messages)
      done == SelectSeq(SubSeq(all, 1, Len(all) - KeepResults + 1), Remembered)
      older == FlattenSeq(done)
      saved == FoldLeft(LAMBDA sum, m : sum + Gain(m), 0, older)
  IN IF saved < OmitTrigger THEN {}
     ELSE {older[i].id : i \in {j \in DOMAIN older : Gain(older[j]) > 0}}

(* The ids of the results that give way: none below the trigger. *)
results_to_omit(messages) ==
  LET done == SelectSeq(exchanges(messages), Remembered)
      older == FlattenSeq(SubSeq(done, 1, Len(done) - KeepResults))
      saved == FoldLeft(LAMBDA sum, m : sum + Gain(m), 0, older)
  IN IF saved < OmitTrigger THEN {}
     ELSE {older[i].id : i \in {j \in DOMAIN older : Gain(older[j]) > 0}}

Omitted(messages) ==
  LET ids == results_to_omit(messages)
  IN [i \in DOMAIN messages |->
        IF messages[i].id \in ids THEN [messages[i] EXCEPT !.tokens = Placeholder]
        ELSE messages[i]]

-----------------------------------------------------------------------------
(* The turns of the thread *)

Refuse ==
  /\ turn' = turn + 1
  /\ UNCHANGED <<history, before, offered, fixed, running>>

(* fit: the kept history, then the bridge if nothing is kept and Team sent *)
(* a conversation, then the turn's message.  A turn that does not fit the  *)
(* window is refused and changes nothing.                                  *)
Fit(constant, message, conversation) ==
  LET kept == Kept(Omitted(history), constant, message.tokens)
      bridges == kept = <<>> /\ conversation
      bridge == IF bridges THEN <<Msg(<<turn + 1, 1>>, "bridge", BridgeTokens)>>
                ELSE <<>>
  IN IF \/ ~window_within(constant, message.tokens)
        \/ ~Decomposes(history)
        \/ bridges /\ ~window_within(constant, message.tokens + BridgeTokens)
     THEN Refuse
     ELSE /\ history' = kept
          /\ before' = history
          /\ offered' = kept \o bridge \o <<message>>
          /\ fixed' = constant
          /\ turn' = turn + 1
          /\ running' = TRUE

Start ==
  /\ ~running /\ turn < MaxTurns
  /\ \E constant \in FixedTokens, attached, conversation \in BOOLEAN :
       Fit(constant, TurnMessage(turn + 1, attached), conversation)

(* The exchange is committed whole. *)
Complete ==
  /\ running
  /\ \E results \in Results :
       history' = offered \o Append(Rounds(turn, results), Reply(turn))
  /\ running' = FALSE
  /\ UNCHANGED <<before, offered, fixed, turn>>

(* The turn fails: what its start kept stays, its exchange is not stored. *)
Fail ==
  /\ running
  /\ running' = FALSE
  /\ UNCHANGED <<history, before, offered, fixed, turn>>

Init ==
  /\ history = <<>> /\ before = <<>> /\ offered = <<>>
  /\ fixed = 0 /\ turn = 0 /\ running = FALSE

Next == Start \/ Complete \/ Fail

Spec == Init /\ [][Next]_vars

-----------------------------------------------------------------------------
(* Properties *)

Newest(s, n) == SubSeq(s, Len(s) - n + 1, Len(s))

(* A start keeps the newest remembered exchanges, without a gap, as many   *)
(* as the count, the history budget and the window allow and no fewer      *)
(* (budget.rs: drop_within, against its documentation).                    *)
KeptIsNewestRun ==
  running =>
    LET all == SelectSeq(exchanges(Omitted(before)), Remembered)
        fits(n) == /\ n <= MaxExchanges
                   /\ Tokens(FlattenSeq(Newest(all, n))) <= Budget
                   /\ window_within(fixed + Tokens(FlattenSeq(Newest(all, n))), 1)
    IN \E n \in 0..Len(all) :
         /\ history = FlattenSeq(Newest(all, n))
         /\ n = 0 \/ fits(n)
         /\ n = Len(all) \/ ~fits(n + 1)

(* The results of the newest remembered exchanges are whole, whatever was  *)
(* forgotten or failed between them (budget.rs: KEEP_RESULT_EXCHANGES).    *)
RecentResultsWhole ==
  LET done == SelectSeq(exchanges(history), Remembered)
      recent == FlattenSeq(Newest(done, IF Len(done) < KeepResults
                                        THEN Len(done) ELSE KeepResults))
  IN \A i \in DOMAIN recent : recent[i].action => recent[i].tokens # Placeholder

(* A bridge leads the history it stands for, and its turn never outlives   *)
(* or loses it (budget.rs: exchanges).                                     *)
BridgeWithItsTurn ==
  \A i \in DOMAIN history :
    /\ history[i].role = "bridge" =>
         /\ i = 1 /\ Len(history) > 1
         /\ history[2].role = "user" /\ history[2].id[1] = history[1].id[1]
    /\ (running /\ history[i].role = "user") =>
         ((\E j \in DOMAIN before : before[j].role = "bridge"
                                    /\ before[j].id[1] = history[i].id[1])
          => history[1].role = "bridge")

=============================================================================
