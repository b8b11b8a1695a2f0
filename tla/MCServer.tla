------------------------------ MODULE MCServer ------------------------------
(* Three requests on two hosts over two connections; single decisions,     *)
(* each with every answer a model may write; tasks of the Browser; and     *)
(* requests that are refused.                                              *)
EXTENDS Server

MCRequest == 1..3
MCSlots == [providers |-> 2, jev |-> 1]
MCPriced == [openai |-> 9, anthropic |-> 6, jev |-> 0]

Models(ids) == [i \in 1..Len(ids) |-> [id |-> ids[i], valid |-> TRUE]]
Offers(host) ==
  [id |-> host, valid |-> TRUE, host |-> host, models |-> Models(<<1, 2>>), default_model |-> 2]
Catalog == [whole |-> TRUE, schema |-> 1, providers |-> <<Offers("anthropic"), Offers("openai")>>,
            default_provider |-> "openai"]
Setup == [catalog |-> Catalog, custody |-> TRUE, bound |-> TRUE]
\* The packaged catalog, and setups with which the proxy does not listen.
MCSetups ==
  {Setup, [Setup EXCEPT !.catalog.providers[1].models = Models(<<2, 2>>)],
   [Setup EXCEPT !.catalog.default_provider = "jev"], [Setup EXCEPT !.custody = FALSE]}

Says(value) == [refusal |-> FALSE, calls |-> FALSE, long |-> FALSE, whole |-> value, blocks |-> <<value>>]
Twice(value, other) == [Says(None) EXCEPT !.blocks = <<value, other>>]
Unusable(value) == {[Says(value) EXCEPT !.refusal = TRUE], [Says(value) EXCEPT !.calls = TRUE],
                    [Twice(value, value) EXCEPT !.long = TRUE], Says(None)}

Asks(path, host, query) ==
  [route |-> path, post |-> TRUE, bearer |-> "right", size |-> 1, json |-> TRUE, shape |-> TRUE,
   model |-> TRUE, host |-> host, attached |-> FALSE, after |-> None, query |-> query,
   fast |-> {}, replies |-> {Says(None)}]

Only(a) == [r \in MCRequest |-> IF r = 1 THEN a ELSE None]

-----------------------------------------------------------------------------
Shortlist == <<[id |-> 1, summary |-> "text"], [id |-> 2, summary |-> "text"]>>

Plan == [objective |-> "text", candidates |-> Shortlist]
PlanValues == [status : {"sufficient", "install-required"},
               assistant_ids : {<<>>, <<1>>, <<1, 2>>, <<2, 1>>, <<3>>}]
AskPlan ==
  [Asks("capability", "openai", Plan) EXCEPT
     !.replies = {Says(v) : v \in PlanValues}
                 \cup {Twice(v, w) : v, w \in {[status |-> "sufficient", assistant_ids |-> <<>>],
                                               [status |-> "install-required", assistant_ids |-> <<1>>]}}
                 \cup Unusable([status |-> "sufficient", assistant_ids |-> <<>>])]

Found == [assistant_id |-> 1, action |-> 1, locale |-> "pt", message |-> TRUE]
Purpose == [admitted |-> TRUE, readable |-> TRUE, pending |-> Found, assistant_id |-> 1, action_id |-> 1]
AskPurpose ==
  [Asks("purpose", "openai", Purpose) EXCEPT !.replies = {Says([purpose |-> t]) : t \in Text}]

Intent == [expected |-> None, candidates |-> <<>>, reference |-> FALSE, conversation |-> <<1>>,
           decision |-> FALSE, installable |-> None, objective |-> "text"]
RouteValues ==
  [intent : INTENTS, query : Text, assistant_ids : {<<>>, <<1>>, <<1, 2>>, <<2, 1>>, <<3>>},
   reply : Text, task_follows : BOOLEAN]
AskIntent(query) ==
  [Asks("intent", "anthropic", query) EXCEPT !.replies = {Says(v) : v \in RouteValues}]
Selects(intent, summary) ==
  [Intent EXCEPT !.expected = intent, !.conversation = <<>>,
     !.candidates = <<[id |-> 1, summary |-> summary], [id |-> 2, summary |-> summary]>>]

Spread(options, most, high) ==
  [o \in options |-> IF o = most THEN high ELSE (100 - high) \div (Cardinality(options) - 1)]
Choice(options, most, high, confidence) ==
  [choice |-> most, confidence |-> confidence, probabilities |-> Spread(options, most, high)]
Jev(intent, confidence, need) ==
  [bounded |-> TRUE, model |-> TRUE,
   answers |-> [intent |-> Choice(INTENTS, intent, 91, confidence),
                capability |-> Choice(NEEDS, need, 80, 85)]]
OnlyIntent(response) == [response EXCEPT !.answers = [intent |-> response.answers.intent]]
JevResponses ==
  LET all == {Jev(i, c, n) : i \in {"ordinary-task", INSTALL}, c \in {84, 85}, n \in NEEDS}
  IN all \cup {OnlyIntent(j) : j \in all}
     \cup {[Jev("ordinary-task", 100, "conversation") EXCEPT !.bounded = FALSE],
           [Jev("ordinary-task", 100, "conversation") EXCEPT !.answers.intent.probabilities["unresolved"] = 92]}
FastAsk(installable, replies) ==
  [Asks("intent", "anthropic", [Intent EXCEPT !.decision = TRUE, !.installable = installable]) EXCEPT
     !.fast = JevResponses, !.replies = replies]

OneRoute == {Says([intent |-> "unresolved", query |-> "", assistant_ids |-> <<>>, reply |-> "text",
                   task_follows |-> FALSE])}

-----------------------------------------------------------------------------
Does(kind, given, note) == [kind |-> kind, given |-> given, note |-> note]
Step == [op |-> "step", objective |-> "text", thread |-> NewThread, observation |-> 1, size |-> 1,
         downloads |-> None, screenshot |-> None, outcome |-> "ok", first |-> 1, last |-> 1,
         summary |-> "text"]
Steps == {Says(Does("click", [ref |-> "text"], "text")), Says(Does("wait", <<>>, "")),
          Says(Does("done", [summary |-> "text"], "")), Says(Does("click", [url |-> "text"], "")),
          Says(Does("read", [refs |-> "text"], ""))}
Written == {[text |-> t, truncated |-> c, bytes |-> b] : t \in {"", "text"}, c \in BOOLEAN, b \in {2, 3}}

Past == [step |-> Does("wait", <<>>, ""), outcome |-> "ok", page |-> 1, downloads |-> None,
         screenshot |-> FALSE, size |-> 1]
Later == [Step EXCEPT !.observation = 4,
            !.thread = [NewThread EXCEPT !.folded = <<Past>>,
              !.steps = <<[Past EXCEPT !.page = 2], [Past EXCEPT !.page = 3, !.downloads = 1]>>]]

Browse(host, ops, begin) ==
  [r \in MCRequest |->
     [Asks("browser", host, IF r = 1 THEN [begin EXCEPT !.op = ops[r]] ELSE [Step EXCEPT !.op = ops[r]]) EXCEPT
        !.after = IF r = 1 THEN None ELSE r - 1,
        !.replies = CASE ops[r] = "step" -> Steps
                      [] ops[r] \in {"fold", "final"} -> Written
                      [] OTHER -> {Says([complete |-> c, missing |-> t]) : c \in BOOLEAN, t \in Text}]]

-----------------------------------------------------------------------------
Delete == Asks("delete", "openai", None)
Turn(host) == Asks("turn", host, None)
OneAnswer == {Says([purpose |-> "text"])}
Lifecycles == {AskIntent(Intent), AskIntent(Selects(INSTALL, "text")), AskIntent(Selects(UNINSTALL, "")),
               FastAsk(None, OneRoute), FastAsk("text", OneRoute)}

\* Two decisions on one host, then one on another; two that may be cancelled; two
\* works in one lane; two whose bodies are together past the memory budget.
Concurrent ==
  LET ask == [AskPurpose EXCEPT !.replies = OneAnswer]
      twoPlans == [AskPlan EXCEPT !.replies = {Says(None)}]
  IN {<<ask, ask, [ask EXCEPT !.host = "anthropic", !.after = 1]>>,
      <<ask, [ask EXCEPT !.host = "anthropic"], None>>,
      <<twoPlans, [twoPlans EXCEPT !.bearer = "rotated"], None>>,
      <<[ask EXCEPT !.size = 2], twoPlans, None>>}

Two(host, ops, begin) == [Browse(host, ops, begin) EXCEPT ![3] = None]
Tasks == {Two("openai", <<"step", "step", "step">>, [Step EXCEPT !.screenshot = "png"]),
          Two("openai", <<"fold", "step", "step">>, Later),
          Two("anthropic", <<"step", "fold", "step">>, Later)}

\* Requests that end before a call: at the boundary, in their shape, in their contract.
Edges ==
  {[Turn("openai") EXCEPT !.route = "health", !.post = FALSE, !.size = 0, !.json = FALSE],
   [Turn("openai") EXCEPT !.route = "health"], [Turn("openai") EXCEPT !.route = "docs"],
   [Turn("openai") EXCEPT !.bearer = "wrong"], [Turn("openai") EXCEPT !.size = 0, !.json = FALSE],
   [Turn("openai") EXCEPT !.size = 3], [Turn("openai") EXCEPT !.json = FALSE],
   [AskPlan EXCEPT !.shape = FALSE], [AskPurpose EXCEPT !.model = FALSE], Delete,
   [AskPlan EXCEPT !.query.candidates = <<Shortlist[2], Shortlist[1]>>],
   [AskPurpose EXCEPT !.query.readable = FALSE], [AskPurpose EXCEPT !.query.pending = None],
   [AskPurpose EXCEPT !.query.action_id = 2], AskIntent([Intent EXCEPT !.conversation = <<1, 2>>]),
   AskIntent([Intent EXCEPT !.candidates = Shortlist]), [Turn("openai") EXCEPT !.attached = TRUE]}

MCWorkloads ==
  Concurrent \cup Tasks
  \cup {Only(a) : a \in Lifecycles \cup Edges \cup {AskPlan, AskPurpose}}
  \cup {[Two("openai", <<op, "step", "step">>, Step) EXCEPT ![2] = None] : op \in {"check", "final"}}
=============================================================================
