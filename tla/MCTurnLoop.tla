----------------------------- MODULE MCTurnLoop -----------------------------
(* Four starts: a plain one with the Browser and memory, one in Routine    *)
(* mode, one that carries a file, and one that is refused.                 *)
EXTENDS TurnLoop

Text(folded, asks) == [chars |-> 3, safe |-> TRUE, folded |-> folded, team_asks |-> asks]

MCAction(id, authorization) ==
  [id |-> id, malformed |-> FALSE, unsafe |-> FALSE, nodes |-> 1, properties |-> {},
   authorization |-> authorization, input_files |-> {}]

MCAssistants ==
  <<[id |-> "mail", malformed |-> FALSE, unsafe |-> FALSE,
     actions |-> <<MCAction("read", FALSE), MCAction("send", TRUE)>>]>>

MCFile ==
  [id |-> 1, content |-> "text", malformed |-> FALSE, chars |-> 2, pixels |-> 0,
   encoded |-> 2]

MCStart ==
  [malformed |-> FALSE, unsafe |-> FALSE, blank |-> FALSE, clock |-> None,
   conversation |-> <<>>, assistants |-> MCAssistants, provider |-> [unsafe |-> FALSE, id |-> "anthropic"],
   memories |-> <<>>, attachments |-> <<>>, charge |-> 0, routines |-> None,
   routine_mode |-> FALSE, routine_settings_answer |-> FALSE, routine_rerun |-> None,
   browser_available |-> TRUE, said |-> {"brief"}, quoted |-> {"rude"}]

MCStarts ==
  {MCStart,
   [MCStart EXCEPT !.provider.id = "openai", !.routine_mode = TRUE, !.routines = <<>>,
      !.memories = None, !.routine_rerun = {<<"mail", "send">>}],
   [MCStart EXCEPT !.provider.id = "openai", !.attachments = <<MCFile>>, !.charge = 2],
   [MCStart EXCEPT !.clock =
      [date |-> [year |-> 2023, month |-> 2, day |-> 29], zone_known |-> TRUE]],
   [MCStart EXCEPT !.blank = TRUE]}

MCCall(name, arguments) == [name |-> name, arguments |-> arguments]

MCSend == MCCall(<<"mail", "send">>, [valid |-> TRUE, rerun |-> TRUE])
MCRead == MCCall(<<"mail", "read">>, [valid |-> FALSE, rerun |-> TRUE])

MCOption(label) == [label |-> Text(label, FALSE), description |-> Text("", FALSE)]

MCAsk(asks) ==
  MCCall(Clarify,
    [closed |-> TRUE, question |-> Text("which", asks), default_index |-> 0,
     options |-> <<MCOption("a"), MCOption("b")>>])

MCBrowse == MCCall(Browser, [closed |-> TRUE, chars |-> 3])

MCRemember(quote) ==
  MCCall(Memory, [closed |-> TRUE, op |-> "remember", topic |-> "tone",
                  quote |-> Text(quote, FALSE)])

MCRecord == MCCall(Routine, [recordable |-> TRUE])

(* An answer as each provider writes it. *)
MCBody(provider, thought, words, calls, unparsable, stop) ==
  LET text == IF provider = "openai"
              THEN [type |-> "message", parts |-> <<[type |-> "output_text", text |-> words]>>]
              ELSE [type |-> "text", text |-> words]
      use(call, parsable) ==
        call @@ [type |-> IF provider = "openai" THEN "function_call" ELSE "tool_use",
                 id |-> <<>>, parsable |-> parsable]
  IN [parsed |-> TRUE, stop |-> stop,
      items |->
        thought
        \o (IF words = <<>> THEN <<>> ELSE <<text>>)
        \o [i \in DOMAIN calls |-> use(calls[i], TRUE)]
        \o [i \in DOMAIN unparsable |-> use(unparsable[i], FALSE)]]

MCAnswers(provider) ==
  LET body(words, calls) == MCBody(provider, <<>>, words, calls, <<>>, "end")
      thought == IF provider = "openai" THEN <<[type |-> "reasoning", encrypted |-> TRUE]>>
                 ELSE <<[type |-> "thinking"]>>
  IN {body(<<"reply">>, <<>>),
      body(<<>>, <<MCSend>>),
      MCBody(provider, thought, <<" ">>, <<MCRead, MCSend, MCSend>>, <<>>, "end"),
      body(<<>>, <<MCAsk(FALSE)>>),
      body(<<>>, <<MCAsk(TRUE)>>),
      body(<<>>, <<MCBrowse, MCSend>>),
      body(<<>>, <<MCBrowse>>),
      body(<<>>, <<MCRemember("brief"), MCSend>>),
      body(<<>>, <<MCRemember("rude")>>),
      body(<<>>, <<MCRecord>>),
      MCBody(provider, <<>>, <<>>, <<MCSend>>, <<MCRead>>, "end"),
      MCBody(provider, <<>>, <<>>, <<MCAsk(FALSE)>>, <<MCRead>>, "end"),
      MCBody(provider, <<>>, <<"cut">>, <<>>, <<>>, "cut")}

(* A memory proposal that is refused, beside a call that cannot be parsed. *)
MCUnparsedStarts == {[MCStart EXCEPT !.provider.id = "openai"]}

MCUnparsedAnswers(provider) ==
  {MCBody(provider, <<>>, <<"reply">>, <<>>, <<>>, "end"),
   MCBody(provider, <<>>, <<>>, <<MCRemember("rude")>>, <<MCRead>>, "end")}

MCVerdicts == {<<>>, <<TRUE>>, <<FALSE, TRUE>>}

(* An earlier turn that proposed what its user said then. *)
MCKept ==
  LET call == [id |-> <<0, 1>>] @@ MCRemember("formal")
      earlier(id, words, calls) ==
        [role |-> "assistant", id |-> id, text |-> words, truncated |-> FALSE, refusal |-> FALSE,
         invalid_calls |-> <<>>, attempts |-> 1, provider |-> "anthropic", calls |-> calls,
         raw |-> MCBody("anthropic", <<[type |-> "thinking"]>>, words, calls, <<>>, "end").items]
  IN <<User(<<"kept", 1>>, {"formal"}, {}),
       earlier(<<"kept", 2>>, <<>>, <<call>>),
       Result(<<"kept", 3>>, call, "proposed"),
       earlier(<<"kept", 4>>, <<"noted">>, <<>>)>>

MCUnsafe == {<<0, 1>>}

MCScope == scope_digest(MCAssistants)
=============================================================================
