------------------------------- MODULE Server -------------------------------
(***************************************************************************)
(* The HTTP boundary Team calls: the admission of a request, the work it   *)
(* starts, what the work holds until it settles, and the answer            *)
(* (runtime/src/server/{mod,boundary,routes,input}.rs, errors.rs).         *)
(*                                                                         *)
(* A request's work runs on a thread of its own and makes the provider     *)
(* calls of module Provider; what it reads and answers is in Decisions and *)
(* Browser.  A chat turn is one attached call here: module TurnLoop has    *)
(* its rounds.  Team is external: it sends requests, some only after the   *)
(* answer to another, and may close a connection at any time.              *)
(***************************************************************************)
EXTENDS Provider, Browser

CONSTANTS
  Workloads,            \* functions from Request to what Team asks, or None
  LaneSlots,            \* the works a decision lane runs at once
  MAX_REQUEST_BYTES,    \* the largest body
  MEMORY_PER_REQUEST,   \* what every body reserves, beside a unit per byte
  MAX_REQUEST_MEMORY,   \* the request memory budget
  MaxAtClose            \* a bound: the requests beside which connections close

\* A call goes to a host of the transport; a request without a body has no JSON;
\* its bearer is the secret or not, or the file changes as it is read.
ASSUME WorkloadsAssumption ==
  \A workload \in Workloads : \A r \in Request :
    workload[r] # None => /\ workload[r].host \in Host
                          /\ workload[r].size \in Nat
                          /\ workload[r].bearer \in {"right", "wrong", "rotated"}
                          /\ workload[r].size = 0 => ~workload[r].json

ASSUME BoundsAssumption ==
  /\ LaneSlots \in Nat \ {0}
  /\ MEMORY_PER_REQUEST \in Nat /\ MAX_REQUEST_MEMORY \in Nat

VARIABLES
  asked,    \* what Team asks with each request
  http,     \* [Request -> where its connection is]
  answer,   \* [Request -> the answer it received, or None]
  work,     \* [Request -> where its work is]
  permits,  \* the requests whose work holds a slot of its lane
  reserved, \* [Request -> the memory it reserved]
  phase     \* of the process: serving, stopping, closed

serverVars == <<asked, http, answer, work, permits, reserved, phase>>
vars == <<providerVars, serverVars>>

Running  == {r \in Request : work[r] \notin {"none", "settled"}}
Routes   == {"health", "turn", "purpose", "capability", "intent", "browser", "delete"}
InLane   == {"capability", "intent", "browser"}
LaneOf(r) == asked[r].route

\* The bytes a body may buffer reserve their memory.
Amount(size) == MEMORY_PER_REQUEST + size
Memory == FoldFunction(+, 0, reserved)

-----------------------------------------------------------------------------
(* The thread of a Browser task: what Team made of the answers so far *)

\* Team takes the step on the page, or folds the oldest steps into the memory
\* written for them; an answer that is none leaves the thread alone.
Took(thread, q, a) ==
  IF a = None \/ a.status # 200 THEN thread
  ELSE CASE q.op = "step" /\ a.value.step.kind \notin Ending ->
              [thread EXCEPT !.steps = Append(@,
                 [step |-> a.value.step, outcome |-> q.outcome, page |-> q.observation,
                  downloads |-> q.downloads, screenshot |-> q.screenshot # None, size |-> q.size])]
         [] q.op = "fold" ->
              LET k == q.last - q.first + 1
                  memory == a.value.memory
                  \* the oldest record goes once one is folded already
                  kept == (IF thread.folded = <<>> THEN <<>> ELSE Tail(thread.folded))
                          \o SubSeq(thread.steps, 1, k)
              IN [thread EXCEPT
                    !.folded = kept,
                    !.folded_omitted = @ + Len(thread.folded) + k - Len(kept),
                    !.memory = IF memory = None THEN @ ELSE memory,
                    !.unnoted = IF memory = None THEN @ + k ELSE @,
                    !.steps = SubSeq(@, k + 1, Len(@))]
         [] OTHER -> thread

NewThread == [folded |-> <<>>, folded_omitted |-> 0, memory |-> 0, unnoted |-> 0, steps |-> <<>>]

\* The request's fields; a Browser call's thread and page are those Team has
\* after the answer to the request before it.
Query(r) ==
  LET Fields[s \in Request] ==
        LET before == asked[s].after
            q == asked[s].query
        IN IF before = None THEN q
           ELSE LET thread == Took(Fields[before].thread, Fields[before], answer[before])
                    moved == Len(thread.steps) > Len(Fields[before].thread.steps)
                IN [q EXCEPT !.thread = thread,
                             !.observation = Fields[before].observation + (IF moved THEN 1 ELSE 0)]
  IN IF asked[r].route = "browser" THEN Fields[r] ELSE asked[r].query

-----------------------------------------------------------------------------
Init ==
  /\ ProviderInit
  /\ asked \in Workloads
  /\ http = [r \in Request |-> "idle"]
  /\ answer = [r \in Request |-> None]
  /\ work = [r \in Request |-> "none"]
  /\ permits = {}
  /\ reserved = [r \in Request |-> 0]
  /\ phase = "serving"

\* What the check of the bearer may say: the token file is read every time.
Authenticates(bearer) ==
  CASE bearer = "right"   -> {200}
    [] bearer = "wrong"   -> {401}
    [] bearer = "rotated" -> {200, 401, 503}

\* The connection receives the status, and what was reserved for it returns.
Answers(r, status) ==
  /\ http' = [http EXCEPT ![r] = "answered"]
  /\ answer' = [answer EXCEPT ![r] = [status |-> status]]
  /\ reserved' = [reserved EXCEPT ![r] = 0]
  /\ UNCHANGED <<asked, work, permits, phase>>

\* The lane's slot, held from here on, and the thread the work runs on.
Starts(r) ==
  /\ http' = [http EXCEPT ![r] = "working"]
  /\ work' = [work EXCEPT ![r] = "read"]
  /\ permits' = IF LaneOf(r) \in InLane THEN permits \cup {r} ELSE permits
  /\ UNCHANGED <<asked, answer, phase>>

LaneFull(r) ==
  LaneOf(r) \in InLane /\ Cardinality({s \in permits : LaneOf(s) = LaneOf(r)}) >= LaneSlots

\* A request whose body, if any, is there: its route, method, bearer and JSON.
Routed(r) ==
  LET a == asked[r] IN
  \/ a.route \notin Routes /\ Answers(r, 404)
  \/ a.route \in Routes /\ a.post = (a.route = "health") /\ Answers(r, 405)
  \/ a.route = "health" /\ ~a.post /\ Answers(r, 200)
  \/ /\ a.route \in Routes \ {"health"} /\ a.post
     /\ \E ruling \in Authenticates(a.bearer) :
          \/ ruling # 200 /\ Answers(r, ruling)
          \/ ruling = 200 /\ ~a.json /\ Answers(r, 422)
          \/ ruling = 200 /\ a.json /\ LaneFull(r) /\ Answers(r, 429)
          \/ ruling = 200 /\ a.json /\ ~LaneFull(r) /\ Starts(r) /\ UNCHANGED reserved

Due(r) ==
  /\ asked[r] # None /\ http[r] = "idle" /\ phase # "closed"
  /\ asked[r].after # None => http[asked[r].after] \in {"answered", "gone"}

\* Without a body a request is routed at once; with one it is authenticated,
\* bounded and admitted to memory before a byte of it is read.
Bodyless(r) ==
  /\ Due(r) /\ asked[r].size = 0
  /\ Routed(r)
  /\ UNCHANGED providerVars

\* Mutant: the budget is compared with what is reserved, without the body itself.
AdmitWithoutOwn(r) ==
  /\ Due(r) /\ asked[r].size > 0
  /\ \E ruling \in Authenticates(asked[r].bearer) :
       \/ ruling # 200 /\ Answers(r, ruling)
       \/ ruling = 200 /\ asked[r].size > MAX_REQUEST_BYTES /\ Answers(r, 413)
       \/ /\ ruling = 200 /\ asked[r].size <= MAX_REQUEST_BYTES
          /\ IF Memory > MAX_REQUEST_MEMORY THEN Answers(r, 503)
             ELSE /\ http' = [http EXCEPT ![r] = "receiving"]
                  /\ reserved' = [reserved EXCEPT ![r] = Amount(asked[r].size)]
                  /\ UNCHANGED <<asked, answer, work, permits, phase>>
  /\ UNCHANGED providerVars

Admit(r) ==
  /\ Due(r) /\ asked[r].size > 0
  /\ \E ruling \in Authenticates(asked[r].bearer) :
       \/ ruling # 200 /\ Answers(r, ruling)
       \/ ruling = 200 /\ asked[r].size > MAX_REQUEST_BYTES /\ Answers(r, 413)
       \/ /\ ruling = 200 /\ asked[r].size <= MAX_REQUEST_BYTES
          /\ IF Memory + Amount(asked[r].size) > MAX_REQUEST_MEMORY THEN Answers(r, 503)
             ELSE /\ http' = [http EXCEPT ![r] = "receiving"]
                  /\ reserved' = [reserved EXCEPT ![r] = Amount(asked[r].size)]
                  /\ UNCHANGED <<asked, answer, work, permits, phase>>
  /\ UNCHANGED providerVars

\* The whole body arrived; or it is late, longer than declared, or broken off.
Received(r) ==
  /\ http[r] = "receiving"
  /\ Routed(r)
  /\ UNCHANGED providerVars

NotReceived(r) ==
  /\ http[r] = "receiving"
  /\ \E status \in {400, 408, 413} : Answers(r, status)
  /\ UNCHANGED providerVars

-----------------------------------------------------------------------------
(* The work, on its own thread *)

WithUsage(u, result) ==
  [name \in DOMAIN result \cup {"usage"} |-> IF name = "usage" THEN u ELSE result[name]]

\* The work settles: it returns what it held, and the answer goes to the
\* connection that still waits for it, with the usage of its calls.
Settles(r, result) ==
  /\ work' = [work EXCEPT ![r] = "settled"]
  /\ permits' = permits \ {r}
  /\ reserved' = [reserved EXCEPT ![r] = 0]
  /\ IF http[r] = "working"
     THEN /\ http' = [http EXCEPT ![r] = "answered"]
          /\ answer' = [answer EXCEPT ![r] =
               IF result.status = 200 /\ asked[r].route # "delete"
               THEN WithUsage(usage[r], result) ELSE result]
     ELSE UNCHANGED <<http, answer>>
  /\ UNCHANGED <<asked, phase>>

\* The work goes on with a call.
Calls(r, stage, kind, host) ==
  /\ work' = [work EXCEPT ![r] = stage]
  /\ StartCall(r, kind, host)
  /\ UNCHANGED <<asked, http, answer, permits, reserved, phase, idle, behind, cancelled, proxy>>

\* A short decision is retried once, every other call twice.
Kind(path) == IF path \in {"purpose", "intent"} THEN "decision" ELSE "chat"

\* What the closed request is, before any provider access.
Verdict(r) ==
  LET a == asked[r]
      q == Query(r)
      closed == a.shape /\ (a.route = "intent" => lane(q))
  IN CASE ~closed -> Invalid
       [] closed /\ a.route # "delete" /\ ~a.model -> Refusal
       [] OTHER ->
            CASE a.route = "capability" -> PlanRequest(q)
              [] a.route = "purpose"    -> PurposeRequest(q)
              [] a.route = "intent"     -> IntentRequest(q)
              [] a.route = "browser"    -> BrowserRequest(q, a.host)
              [] OTHER                  -> Success(None)

Read(r) ==
  LET a == asked[r]
      ruling == Verdict(r)
  IN
  /\ work[r] = "read"
  /\ \/ /\ ruling.status # 200
        /\ Settles(r, ruling) /\ UNCHANGED providerVars
     \/ /\ ruling.status = 200 /\ a.route = "delete"
        /\ \E status \in {200, 503} : Settles(r, [status |-> status])
        /\ UNCHANGED providerVars
     \/ /\ ruling.status = 200 /\ a.route = "browser" /\ WithoutCall(a.query, a.host)
        /\ Settles(r, Success(Nothing(a.query))) /\ UNCHANGED providerVars
     \/ /\ ruling.status = 200 /\ a.route = "intent" /\ a.query.decision
        /\ Calls(r, "jev", "jev", "jev")
     \/ /\ ruling.status = 200
        /\ a.route \in {"turn", "capability", "purpose", "intent", "browser"}
        /\ a.route = "intent" => ~a.query.decision
        /\ a.route = "browser" => ~WithoutCall(a.query, a.host)
        /\ Calls(r, "chat", IF a.attached THEN "attached" ELSE Kind(a.route), a.host)

CallEnded(r, stage) == work[r] = stage /\ call[r].pc = "ended"

\* The fast path answers a confident ordinary task; a cancelled request goes no
\* further; every other outcome keeps the model's route.
FastPath(r) ==
  /\ CallEnded(r, "jev")
  /\ \/ /\ call[r].result = "cancelled"
        /\ Settles(r, [status |-> 409]) /\ UNCHANGED providerVars
     \/ /\ call[r].result \in {"answered", "response", "request"}
        /\ \E response \in IF call[r].result = "answered" THEN asked[r].fast ELSE {None} :
             LET taken == IF response = None THEN None ELSE decide(asked[r].query, response) IN
             \/ /\ taken # None
                /\ Settles(r, respond(asked[r].query, taken)) /\ UNCHANGED providerVars
             \/ /\ taken = None /\ r \in cancelled
                /\ Settles(r, [status |-> 409]) /\ UNCHANGED providerVars
             \/ /\ taken = None /\ r \notin cancelled
                /\ Calls(r, "chat", "decision", asked[r].host)

\* The route's answer to what the model wrote.
Decides(r, message) ==
  LET a == asked[r]
      q == Query(r)
  IN CASE a.route = "turn" -> Success(None)
       [] a.route = "browser" /\ q.op \in {"fold", "final"} ->
            IF q.op = "fold" THEN fold(message) ELSE final_answer(message)
       [] OTHER ->
            LET value == structured(message) IN
            IF value = None THEN Broken
            ELSE CASE a.route = "capability" ->
                        IF conforms(PlanSchema, value) THEN plan(q, value) ELSE Broken
                   [] a.route = "purpose" ->
                        IF conforms(PurposeSchema, value) THEN Success(sentence(value)) ELSE Broken
                   [] a.route = "intent" ->
                        LET taken == IF conforms(RouteSchema, value) THEN route(q, value) ELSE None
                        IN IF taken = None THEN Broken ELSE respond(q, taken)
                   [] a.route = "browser" /\ q.op = "check" ->
                        IF conforms(CheckSchema, value) THEN check(value) ELSE Broken
                   [] OTHER -> step(a.host, value)

Chatted(r) ==
  /\ CallEnded(r, "chat")
  /\ \/ /\ call[r].result = "answered"
        /\ \E message \in asked[r].replies : Settles(r, Decides(r, message))
     \/ call[r].result \in {"request", "response"} /\ Settles(r, Broken)
     \/ call[r].result = "contract" /\ Settles(r, Refusal)
     \/ call[r].result = "cancelled" /\ Settles(r, [status |-> 409])
  /\ UNCHANGED providerVars

-----------------------------------------------------------------------------
(* Team closes a connection; the process is told to stop *)

\* Mutants: closing a connection releases what its work still holds; and leaves
\* reserved what a body that was being received had.
DroppedWithWork(closed) ==
  /\ http' = [r \in Request |-> IF r \in closed THEN "gone" ELSE http[r]]
  /\ reserved' = [r \in Request |-> IF r \in closed THEN 0 ELSE reserved[r]]
  /\ permits' = permits \ closed
  /\ cancelled' = cancelled \cup {r \in closed : http[r] = "working"}
  /\ UNCHANGED <<asked, answer, work, call, idle, behind, usage, proxy>>

DroppedReserved(closed) ==
  /\ http' = [r \in Request |-> IF r \in closed THEN "gone" ELSE http[r]]
  /\ cancelled' = cancelled \cup {r \in closed : http[r] = "working"}
  /\ UNCHANGED <<asked, answer, work, permits, reserved, call, idle, behind, usage, proxy>>

\* The handlers of the connections are dropped: a body being received returns its
\* memory, and work under way is cancelled and keeps what it holds.
Dropped(closed) ==
  /\ http' = [r \in Request |-> IF r \in closed THEN "gone" ELSE http[r]]
  /\ reserved' = [r \in Request |->
       IF r \in closed /\ http[r] = "receiving" THEN 0 ELSE reserved[r]]
  /\ cancelled' = cancelled \cup {r \in closed : http[r] = "working"}
  /\ UNCHANGED <<asked, answer, work, permits, call, idle, behind, usage, proxy>>

Open == {r \in Request : http[r] \in {"receiving", "working"}}

Few == Cardinality({r \in Request : asked[r] # None}) <= MaxAtClose

Close(r) ==
  /\ r \in Open /\ Few
  /\ Dropped({r})
  /\ UNCHANGED phase

Terminate ==
  /\ phase = "serving" /\ Few
  /\ phase' = "stopping"
  /\ UNCHANGED <<providerVars, asked, http, answer, work, permits, reserved>>

\* The connections ended, or the grace did.
Shutdown ==
  /\ phase = "stopping"
  /\ phase' = "closed"
  /\ Dropped(Open)

\* Nothing is left to happen.
Finished ==
  /\ Open = {} /\ Running = {}
  /\ \A r \in Request : ~Due(r)
  /\ UNCHANGED vars

PoolSteps == \E h \in Host : PoolStep(h) /\ UNCHANGED serverVars

Work(r) ==
  \/ CallStep(r) /\ UNCHANGED serverVars
  \/ Read(r) \/ FastPath(r) \/ Chatted(r)

Next ==
  \/ \E r \in Request :
       Bodyless(r) \/ Admit(r) \/ Received(r) \/ NotReceived(r) \/ Close(r) \/ Work(r)
  \/ PoolSteps
  \/ Terminate \/ Shutdown \/ Finished

\* A body has its deadline, an attempt its time bound, and a thread that can go
\* on is scheduled.
Fairness ==
  \A r \in Request :
    /\ WF_vars(Received(r) \/ NotReceived(r) \/ Close(r))
    /\ WF_vars(Work(r))

Spec == Init /\ [][Next]_vars /\ Fairness

-----------------------------------------------------------------------------
(* Properties *)

\* What a connection may receive: the health, a decision, or an error's status.
Statuses == {200, 400, 401, 404, 405, 408, 409, 413, 422, 429, 502, 503}
IsAnswer(a) == "status" \in DOMAIN a /\ a.status \in Statuses

TypeOK ==
  /\ ProviderTypeOK
  /\ http \in [Request -> {"idle", "receiving", "working", "answered", "gone"}]
  /\ work \in [Request -> {"none", "read", "jev", "chat", "settled"}]
  /\ \A r \in Request :
       IF http[r] = "answered" THEN IsAnswer(answer[r]) ELSE answer[r] = None
  /\ permits \subseteq Running
  /\ reserved \in [Request -> Nat]
  /\ phase \in {"serving", "stopping", "closed"}

\* However connections close, the works that run stay within their lane and
\* within the memory budget: "dropping the returned future cancels it, and the
\* work keeps what it owns until it settles" (routes.rs:98-99).
WorkBounded ==
  /\ \A path \in InLane : Cardinality({r \in Running : LaneOf(r) = path}) <= LaneSlots
  /\ LET body(r) == IF http[r] = "receiving" \/ r \in Running THEN Amount(asked[r].size) ELSE 0
     IN FoldFunction(+, 0, [r \in Request |-> body(r)]) <= MAX_REQUEST_MEMORY

\* Once Team closed a request, its work sends nothing more: "a
\* cancelled request never dispatches the fallback (or anything after it)"
\* (intent.rs:113), and every attempt looks first (transport.rs:322).
NothingAfterClose ==
  [][\A r \in cancelled : /\ usage'[r].provider_requests = usage[r].provider_requests
                          /\ call'[r].pc \in InFlight => call[r].pc \in InFlight
                          /\ work[r] = "jev" => work'[r] # "chat"]_vars

\* An answer names an Assistant only out of what Team supplied, exactly one to
\* uninstall; a classification and the fast path name none, and the fast path
\* nothing but an ordinary task ("Jev never produces a lifecycle query, reply,
\* Assistant id, or authority", jev.rs:5-6).
AuthorityClosed ==
  \A r \in Request :
    answer[r] # None /\ answer[r].status = 200 /\ asked[r].route \in {"intent", "capability"}
    => LET q == asked[r].query
           v == answer[r].value
       IN /\ ToSet(v.assistant_ids) \subseteq ToSet(CandidateIds(q.candidates))
          /\ Cardinality(ToSet(v.assistant_ids)) = Len(v.assistant_ids)
          /\ asked[r].route = "intent" =>
               /\ v.assistant_ids # <<>> => v.intent = q.expected
               /\ v.intent = UNINSTALL /\ q.expected = UNINSTALL => Len(v.assistant_ids) = 1
               /\ q.expected # None => v.intent \in {q.expected, "unresolved"} /\ v.query = ""
               /\ v.intent \in {INSTALL, UNINSTALL}
                  => (v.query = "" /\ v.assistant_ids = <<>>) = (v.reply # "")
               /\ v.task_follows => v.intent = INSTALL /\ v.query # ""
               /\ call[r].kind = "jev" \/ v.capability = "not-needed"
                  => v = [v EXCEPT !.intent = "ordinary-task", !.query = "",
                            !.assistant_ids = <<>>, !.reply = "", !.task_follows = FALSE]

\* The conversation of a Browser task only grows at its end from one step to the
\* next, and a page keeps its number when others are folded: "consecutive
\* requests only grow at their end and the provider reuses the cached prompt"
\* (browser/thread.rs:7-8).
Pages(conversation) == {m \in ToSet(conversation) : m.role = "page"}

ThreadGrows ==
  \A r \in Request :
    LET p == IF asked[r] = None THEN None ELSE asked[r].after IN
    p # None /\ asked[r].route = "browser" /\ asked[r].host = "openai" /\ work[r] # "none"
    /\ answer[p] # None /\ answer[p].status = 200
    => LET old == messages(Query(p), <<>>)
           new == messages(Query(r), <<>>)
       IN /\ Query(p).op = "step" /\ answer[p].value.step.kind \notin Ending =>
               /\ Len(new) = Len(old) + 2
               /\ SubSeq(new, 1, Len(old) - 1) = SubSeq(old, 1, Len(old) - 1)
               /\ new[Len(old)] = [old[Len(old)] EXCEPT !.shown = Query(p).screenshot # None]
          /\ \A m \in Pages(old), n \in Pages(new) : m.content = n.content => m.number = n.number

\* Every work that starts ends, and what was reserved for it returns.
WorkEnds ==
  \A r \in Request :
    (r \in Running \/ http[r] = "receiving") ~> (r \notin Running /\ reserved[r] = 0)
=============================================================================
