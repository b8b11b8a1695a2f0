--------------------------- MODULE TurnLoopProofs ---------------------------
(***************************************************************************)
(* Theorems about TurnLoop: whatever the model, Team and the crashes do, a *)
(* turn that is executed again comes to the steps its journal holds, a     *)
(* Browser task is the last thing it asks of Team, and what the attempts   *)
(* that carried its attachments cost stays within the ceiling.             *)
(***************************************************************************)
EXTENDS TurnLoop, FiniteSetTheorems, WellFoundedInduction, TLAPS

-----------------------------------------------------------------------------
(* What every move keeps of a turn *)

Fields ==
  {"messages", "counter", "steps", "attempt", "first_segment", "after_browser",
   "cursor", "settled"}

IsTurn(t) == t = [x \in Fields |-> t[x]] /\ t.cursor \in Nat \ {0}

(* A move without a step of the journal. *)
Alike(t, u) ==
  /\ IsTurn(u)
  /\ u.cursor = t.cursor /\ u.attempt = t.attempt /\ u.after_browser = t.after_browser

LEMMA AnsweredAlike ==
  ASSUME NEW t, IsTurn(t), NEW contents
  PROVE  Alike(t, Answered(t, contents))
PROOF
  BY Zenon DEF IsTurn, Fields, Alike, Answered

LEMMA ReceivedMoves ==
  ASSUME NEW t, IsTurn(t), NEW message, received(t, message).pc # "failed"
  PROVE  LET q == received(t, message)
         IN /\ q = At("review", q.turn) /\ IsTurn(q.turn)
            /\ q.turn.cursor = t.cursor + 1 /\ q.turn.attempt = 1
            /\ q.turn.after_browser = t.after_browser
PROOF
<1>1. t.cursor + 1 \in Nat \ {0}
  BY DEF IsTurn
<1> DEFINE u == [t EXCEPT !.steps = @ + 1, !.attempt = 1, !.cursor = @ + 1,
                   !.counter = @ + 1,
                   !.messages = Append(@, [message EXCEPT !.id = <<"a", t.counter + 1>>])]
<1>2. /\ IsTurn(u) /\ u.cursor = t.cursor + 1 /\ u.attempt = 1
      /\ u.after_browser = t.after_browser
  BY <1>1, Zenon DEF IsTurn, Fields
<1>3. received(t, message) \in {Failing("provider"), At("review", u)}
  BY Zenon DEF received
<1> HIDE DEF u
<1> QED
  BY <1>2, <1>3 DEF At, Failing

LEMMA ReviewMoves ==
  ASSUME NEW i, NEW t, IsTurn(t), review(i, t).pc # "failed"
  PROVE  LET q == review(i, t)
         IN /\ q = At(q.pc, q.turn) /\ q.pc \in {"model", "settle", "tools"}
            /\ Alike(t, q.turn)
PROOF
<1> DEFINE taken == Taken(guards(i, t))
           ruling == guards(i, t)[taken]
           stepped == take_steps(t, taken)
<1>1. Alike(t, stepped) /\ Alike(t, take_steps(stepped, 1))
  BY Zenon DEF IsTurn, Fields, Alike, take_steps
<1>2. \A contents : Alike(t, Answered(stepped, contents))
  BY <1>1, AnsweredAlike DEF Alike
<1>3. \/ review(i, t) = Failing("provider")
      \/ review(i, t) = Failing("contract")
      \/ \E contents : review(i, t) = At("model", Answered(stepped, contents))
      \/ \E contents : review(i, t) = At("settle", Answered(stepped, contents))
      \/ review(i, t) = At("settle", stepped)
      \/ review(i, t) = At("tools", take_steps(stepped, 1))
  BY DEF review
<1> HIDE DEF stepped
<1> QED
  BY <1>1, <1>2, <1>3 DEF At, Failing

LEMMA RunToolsMoves ==
  ASSUME NEW i, NEW t, IsTurn(t), run_tools(i, t).pc # "failed"
  PROVE  LET q == run_tools(i, t)
         IN /\ q = At(q.pc, q.turn) /\ q.pc \in {"model", "settle"}
            /\ Alike(t, q.turn) /\ ~Unguarded(i, t)
PROOF
<1>1. \A contents : Alike(t, Answered(t, contents))
  BY AnsweredAlike
<1> QED
  BY <1>1 DEF run_tools, At, Failing, AfterTools, push_answers

AsksBrowser(i, t) ==
  \E k \in DOMAIN requests(i, t) : requests(i, t)[k].call.name = Browser

(* A segment that is resumed is the same turn. *)
LEMMA ResumedTurn ==
  ASSUME NEW u, IsTurn(u), NEW b
  PROVE  /\ IsTurn(resumed(u, b)) /\ resumed(u, b).cursor = u.cursor
         /\ resumed(u, b).attempt = u.attempt /\ resumed(u, b).after_browser = b
PROOF
<1> DEFINE v == resumed(u, b)
<1>1. u = [x \in Fields |-> u[x]] /\ u.cursor \in Nat \ {0}
  BY DEF IsTurn
<1>2. DOMAIN u = Fields
  BY <1>1, Zenon
<1>3. v = [x \in Fields |-> v[x]]
  BY <1>2, Zenon DEF resumed
<1>4. v.cursor = u.cursor /\ v.attempt = u.attempt /\ v.after_browser = b
  BY <1>2, Zenon DEF resumed, Fields
<1> QED
  BY <1>1, <1>3, <1>4, Zenon DEF IsTurn

LEMMA ToldMoves ==
  ASSUME NEW i, NEW t, IsTurn(t), NEW results
  PROVE  LET q == told(i, t, results)
         IN /\ q = At(q.pc, q.turn) /\ q.pc \in {"model", "settle"}
            /\ IsTurn(q.turn)
            /\ q.turn.cursor = t.cursor + 1 /\ q.turn.attempt = t.attempt
            /\ q.turn.after_browser = AsksBrowser(i, t)
PROOF
<1> DEFINE browser == AsksBrowser(i, t)
           numbered == [t EXCEPT !.counter = @ + Cardinality(DOMAIN requests(i, t)), !.cursor = @ + 1]
<1>1. IsTurn(numbered) /\ numbered.cursor = t.cursor + 1 /\ numbered.attempt = t.attempt
  <2>1. t.cursor + 1 \in Nat \ {0}
    BY DEF IsTurn
  <2> QED
    BY <2>1, Zenon DEF IsTurn, Fields
<1>2. \A contents : Alike(numbered, Answered(numbered, contents))
  BY <1>1, AnsweredAlike
<1>3. ASSUME NEW u, NEW b, IsTurn(u)
      PROVE  /\ IsTurn(resumed(u, b)) /\ resumed(u, b).cursor = u.cursor
             /\ resumed(u, b).attempt = u.attempt /\ resumed(u, b).after_browser = b
  BY <1>3, ResumedTurn
<1>4. \E contents : told(i, t, results) = At(AfterTools(t), resumed(Answered(numbered, contents), browser))
  BY DEF told, push_answers, AsksBrowser
<1> HIDE DEF numbered, browser
<1>5. PICK contents : told(i, t, results) = At(AfterTools(t), resumed(Answered(numbered, contents), browser))
  BY <1>4
<1> DEFINE u == Answered(numbered, contents)
<1>6. /\ IsTurn(u) /\ u.cursor = t.cursor + 1 /\ u.attempt = t.attempt
  BY <1>1, <1>2 DEF Alike
<1> HIDE DEF u
<1>7. told(i, t, results) = At(AfterTools(t), resumed(u, browser))
  BY <1>5 DEF u
<1>8. AfterTools(t) \in {"model", "settle"}
  BY DEF AfterTools
<1>9. /\ told(i, t, results).pc = AfterTools(t)
      /\ told(i, t, results).turn = resumed(u, browser)
      /\ told(i, t, results) = At(AfterTools(t), resumed(u, browser))
  BY <1>7 DEF At
<1>10. told(i, t, results).turn.after_browser = browser
  BY <1>3, <1>6, <1>9
<1>11. told(i, t, results) = At(told(i, t, results).pc, told(i, t, results).turn)
  BY <1>9
<1> QED
  <2> DEFINE q == told(i, t, results)
  <2>1. /\ q.pc \in {"model", "settle"} /\ IsTurn(q.turn)
        /\ q.turn.cursor = t.cursor + 1 /\ q.turn.attempt = t.attempt
    BY <1>3, <1>6, <1>8, <1>9
  <2> HIDE DEF q
  <2> QED
    BY <1>10, <1>11, <2>1, Zenon DEF browser, q

Whole(settled) ==
  \E reply, clarification, routine : settled = Settled(reply, clarification, routine)

LEMMA SettleMoves ==
  ASSUME NEW i, NEW t, IsTurn(t), settle(i, t).pc # "failed"
  PROVE  LET q == settle(i, t)
         IN /\ q = At("check", q.turn) /\ Alike(t, q.turn) /\ Whole(q.turn.settled)
PROOF
<1>1. \A reply : Alike(t, Remember(i, t, reply))
  BY Zenon DEF IsTurn, Fields, Alike, Remember
<1>2. \A u, result : Alike(t, u) =>
        /\ Alike(t, [u EXCEPT !.settled = result])
        /\ [u EXCEPT !.settled = result].settled = result
  BY Zenon DEF IsTurn, Fields, Alike
<1>3. Alike(t, t)
  BY DEF Alike
<1>4. \E u, reply, clarification, routine :
        /\ Alike(t, u)
        /\ settle(i, t) = At("check", [u EXCEPT !.settled = Settled(reply, clarification, routine)])
  <2> HIDE DEF At
  <2> QED
    BY <1>1, <1>3, Zenon DEF settle, Failing
<1>5. PICK u, reply, clarification, routine :
        /\ Alike(t, u)
        /\ settle(i, t) = At("check", [u EXCEPT !.settled = Settled(reply, clarification, routine)])
  BY <1>4
<1> DEFINE after == [u EXCEPT !.settled = Settled(reply, clarification, routine)]
<1>6. Alike(t, after) /\ after.settled = Settled(reply, clarification, routine)
  BY <1>2, <1>5
<1>7. settle(i, t) = At("check", after)
  BY <1>5
<1> HIDE DEF after
<1> QED
  BY <1>6, <1>7 DEF At, Whole

-----------------------------------------------------------------------------
(* The way of a turn through its journal *)

(* At such a place the definition waits for a step of its journal. *)
Asks(i, p) ==
  \/ p.pc = "model" /\ Within(p.turn, 1)
  \/ p.pc = "check" /\ proposed(p.turn.messages) # <<>>
  \/ p.pc = "tools" /\ ~Unguarded(i, p.turn) /\ ForTeam(i, p.turn) # {}

(* The step is the one asked for there. *)
AskedAt(i, p, step) ==
  CASE p.pc = "model" -> step.kind = "model" /\ step.request = chat_request(i, p.turn)
    [] p.pc = "check" -> step.kind = "model" /\ step.request = check_request(p.turn)
    [] p.pc = "tools" -> step.kind = "team" /\ step.requests = requests(i, p.turn)

(* No later action changes such a step. *)
Over(step) ==
  \/ step.kind = "model" /\ step.state = "done"
  \/ step.kind = "team" /\ DOMAIN step.results = Ids(step)

(* Where the definition goes from p, over the journal E. *)
ByModel(E, p, q) ==
  /\ p.pc = "model" /\ Within(p.turn, 1)
  /\ p.turn.cursor \in 1..Len(E)
  /\ E[p.turn.cursor].kind = "model" /\ Over(E[p.turn.cursor])
  /\ q = received(p.turn, E[p.turn.cursor].answer)

ByTeam(i, E, p, q) ==
  /\ p.pc = "tools" /\ ~Unguarded(i, p.turn) /\ ForTeam(i, p.turn) # {}
  /\ p.turn.cursor \in 1..Len(E)
  /\ E[p.turn.cursor].kind = "team" /\ Over(E[p.turn.cursor])
  /\ q = told(i, p.turn, E[p.turn.cursor].results)

ByItself(i, p, q) ==
  \/ p.pc = "review" /\ q = review(i, p.turn)
  \/ /\ p.pc = "tools" /\ (Unguarded(i, p.turn) \/ ForTeam(i, p.turn) = {})
     /\ q = run_tools(i, p.turn)
  \/ p.pc = "settle" /\ q = settle(i, p.turn)

Moves(i, E, p, q) ==
  /\ ByModel(E, p, q) \/ ByTeam(i, E, p, q) \/ ByItself(i, p, q)
  /\ q.pc # "failed"

IsPlace(p) ==
  /\ p = At(p.pc, p.turn) /\ IsTurn(p.turn) /\ p.turn.attempt = 1
  /\ p.pc \in {"model", "review", "tools", "settle", "check"}
  /\ p.pc = "check" => Whole(p.turn.settled)

(* From p on, the turn asks Team for nothing more. *)
Closes(i, p) ==
  p.turn.after_browser \/ (p.pc = "tools" /\ Asks(i, p) /\ AsksBrowser(i, p.turn))

(* p comes before q: what p asks for, q no longer waits for. *)
Before(i, p, q) ==
  /\ p.turn.cursor <= q.turn.cursor
  /\ Asks(i, p) => p.turn.cursor < q.turn.cursor
  /\ Closes(i, p) => q.turn.after_browser

(* After a Browser task every tool is unknown. *)
LEMMA NothingAfterBrowser ==
  ASSUME NEW i, NEW t, t.after_browser
  PROVE  ForTeam(i, t) = {}
PROOF
<1>1. \A call : answer(i, t, call) = "unknown"
  BY DEF answer, Known
<1> QED
  BY <1>1 DEF ForTeam

(* A move leads to a place, past the step it took. *)
LEMMA MovesForward ==
  ASSUME NEW i, NEW E, Len(E) \in Nat, NEW p, IsPlace(p), NEW q, Moves(i, E, p, q)
  PROVE  /\ IsPlace(q) /\ Before(i, p, q)
         /\ q.turn.cursor <= p.turn.cursor + 1
         /\ q.turn.cursor = p.turn.cursor + 1 =>
              p.turn.cursor \in 1..Len(E) /\ Over(E[p.turn.cursor])
PROOF
<1>1. p.turn.cursor \in Nat \ {0} /\ IsTurn(p.turn) /\ p.turn.attempt = 1
  BY DEF IsPlace, IsTurn
<1>2. q.pc # "failed"
  BY DEF Moves
<1>3. CASE ByModel(E, p, q)
  <2>1. q = received(p.turn, E[p.turn.cursor].answer)
    BY <1>3 DEF ByModel
  <2>2. /\ q = At("review", q.turn) /\ IsTurn(q.turn)
        /\ q.turn.cursor = p.turn.cursor + 1 /\ q.turn.attempt = 1
        /\ q.turn.after_browser = p.turn.after_browser
    BY <1>1, <1>2, <2>1, ReceivedMoves
  <2>3. Closes(i, p) => q.turn.after_browser
    BY <1>3, <2>2 DEF ByModel, Closes
  <2>4. IsPlace(q)
    BY <2>2 DEF IsPlace, At
  <2>5. Before(i, p, q)
    BY <1>1, <2>2, <2>3 DEF Before
  <2>6. p.turn.cursor \in 1..Len(E) /\ Over(E[p.turn.cursor])
    BY <1>3 DEF ByModel
  <2> QED
    BY <1>1, <2>2, <2>4, <2>5, <2>6
<1>4. CASE ByTeam(i, E, p, q)
  <2> DEFINE t == p.turn
  <2>1. PICK results : q = told(i, t, results)
    BY <1>4 DEF ByTeam
  <2>2. IsTurn(t) /\ t.attempt = 1
    BY <1>1
  <2>3. /\ q = At(q.pc, q.turn) /\ q.pc \in {"model", "settle"} /\ IsTurn(q.turn)
        /\ q.turn.cursor = t.cursor + 1 /\ q.turn.attempt = 1
        /\ q.turn.after_browser = AsksBrowser(i, t)
    <3> HIDE DEF t
    <3>1. LET r == told(i, t, results)
          IN /\ r = At(r.pc, r.turn) /\ r.pc \in {"model", "settle"}
             /\ IsTurn(r.turn)
             /\ r.turn.cursor = t.cursor + 1 /\ r.turn.attempt = t.attempt
             /\ r.turn.after_browser = AsksBrowser(i, t)
      BY <2>2, ToldMoves, Zenon
    <3> QED
      BY <2>1, <2>2, <3>1
  <2>4. ~p.turn.after_browser
    BY <1>4, NothingAfterBrowser DEF ByTeam
  <2>5. Closes(i, p) => q.turn.after_browser
    BY <2>3, <2>4 DEF Closes
  <2>6. IsPlace(q)
    BY <2>3 DEF IsPlace
  <2>7. Before(i, p, q)
    BY <1>1, <2>3, <2>5 DEF Before
  <2>8. p.turn.cursor \in 1..Len(E) /\ Over(E[p.turn.cursor])
    BY <1>4 DEF ByTeam
  <2> QED
    BY <1>1, <2>3, <2>6, <2>7, <2>8
<1>5. CASE ByItself(i, p, q)
  <2>1. /\ q = At(q.pc, q.turn) /\ q.pc \in {"model", "settle", "tools", "check"}
        /\ Alike(p.turn, q.turn)
        /\ q.pc = "check" => Whole(q.turn.settled)
    <3>1. CASE p.pc = "review"
      BY <1>1, <1>2, <1>5, <3>1, ReviewMoves DEF ByItself
    <3>2. CASE p.pc = "tools"
      BY <1>1, <1>2, <1>5, <3>2, RunToolsMoves DEF ByItself
    <3>3. CASE p.pc = "settle"
      <4>1. q = settle(i, p.turn)
        BY <1>5, <3>3 DEF ByItself
      <4>2. q = At("check", q.turn) /\ Alike(p.turn, q.turn) /\ Whole(q.turn.settled)
        BY <1>1, <1>2, <4>1, SettleMoves
      <4> QED
        BY <4>2 DEF At
    <3> QED
      BY <1>5, <3>1, <3>2, <3>3 DEF ByItself
  <2>2. ~Asks(i, p)
    BY <1>2, <1>5, <1>1, RunToolsMoves DEF ByItself, Asks
  <2>3. Closes(i, p) => q.turn.after_browser
    BY <2>1, <2>2 DEF Alike, Closes
  <2> QED
    BY <1>1, <2>1, <2>2, <2>3 DEF Alike, IsPlace, Before
<1> QED
  BY <1>3, <1>4, <1>5 DEF Moves

(* From one place there is one way on. *)
LEMMA MovesOneWay ==
  ASSUME NEW i, NEW E, NEW p, NEW q, NEW r, Moves(i, E, p, q), Moves(i, E, p, r)
  PROVE  q = r
PROOF
  BY DEF Moves, ByModel, ByTeam, ByItself

-----------------------------------------------------------------------------
(* The first n places C on the way of a run of input i over its journal E: *)
(* each is reached from the one before, every step that was passed is      *)
(* over, and every step of the journal was asked for at one of them.       *)
Way(i, E, C, n) ==
  /\ n \in Nat \ {0} /\ Len(E) \in Nat
  /\ C[1] = At("model", Fresh(i))
  /\ \A k \in 1..n : IsPlace(C[k])
  /\ \A k \in 1..n, l \in 1..n : k < l => Before(i, C[k], C[l])
  /\ \A k \in 1..n : k < n => Moves(i, E, C[k], C[k + 1])
  /\ \A k \in 1..n : C[k].turn.cursor <= Len(E) + 1
  /\ \A k \in 1..n, c \in 1..Len(E) : c < C[k].turn.cursor => Over(E[c])
  /\ \A c \in 1..Len(E) : \E k \in 1..n :
       Asks(i, C[k]) /\ C[k].turn.cursor = c /\ AskedAt(i, C[k], E[c])

Passes(i, E, p) ==
  \E n, C : Way(i, E, C, n) /\ \E k \in 1..n : C[k] = p

LEMMA FreshIsPlace ==
  ASSUME NEW i
  PROVE  IsPlace(At("model", Fresh(i))) /\ Fresh(i).cursor = 1
PROOF
<1>1. Fresh(i) = [x \in Fields |-> Fresh(i)[x]] /\ Fresh(i).cursor = 1 /\ Fresh(i).attempt = 1
  BY DEF Fresh, Fields
<1> QED
  BY <1>1 DEF IsPlace, IsTurn, At

(* The way begins. *)
LEMMA WayBegins ==
  ASSUME NEW i
  PROVE  Passes(i, <<>>, At("model", Fresh(i)))
PROOF
<1> DEFINE C == [k \in Nat |-> At("model", Fresh(i))]
<1>1. C[1] = At("model", Fresh(i))
  OBVIOUS
<1>2. IsPlace(C[1]) /\ C[1].turn.cursor = 1
  BY <1>1, FreshIsPlace DEF At
<1> HIDE DEF C
<1>3. Len(<<>>) = 0
  OBVIOUS
<1>4. Way(i, <<>>, C, 1)
  BY <1>1, <1>2, <1>3 DEF Way
<1> QED
  BY <1>1, <1>4 DEF Passes

(* What was asked for at a place is what the journal holds there. *)
LEMMA WayAgrees ==
  ASSUME NEW i, NEW E, NEW p, Passes(i, E, p), Asks(i, p), p.turn.cursor \in 1..Len(E)
  PROVE  AskedAt(i, p, E[p.turn.cursor])
PROOF
<1>1. PICK n, C : Way(i, E, C, n) /\ \E k \in 1..n : C[k] = p
  BY DEF Passes
<1>2. PICK k \in 1..n : C[k] = p
  BY <1>1
<1>3. PICK l \in 1..n :
        Asks(i, C[l]) /\ C[l].turn.cursor = p.turn.cursor /\ AskedAt(i, C[l], E[p.turn.cursor])
  BY <1>1 DEF Way
<1>4. n \in Nat /\ p.turn.cursor \in Nat
  BY <1>1 DEF Way
<1>5. ~(k < l) /\ ~(l < k)
  BY <1>1, <1>2, <1>3, <1>4 DEF Way, Before
<1>6. k = l
  BY <1>4, <1>5
<1> QED
  BY <1>2, <1>3, <1>6

(* A step that is not over is the last of the journal. *)
LEMMA OpenIsLast ==
  ASSUME NEW i, NEW E, NEW p, Passes(i, E, p), NEW c \in 1..Len(E), ~Over(E[c])
  PROVE  c = Len(E)
PROOF
<1>1. PICK n, C : Way(i, E, C, n)
  BY DEF Passes
<1>2. Len(E) \in Nat
  BY <1>1 DEF Way
<1>3. Len(E) \in 1..Len(E)
  BY <1>2
<1>4. PICK k \in 1..n : C[k].turn.cursor = Len(E)
  BY <1>1, <1>3 DEF Way
<1>5. ~(c < Len(E))
  BY <1>1, <1>4 DEF Way
<1> QED
  BY <1>2, <1>5

(* F holds what E does; steps that were not over may have gone on. *)
Continues(E, F) ==
  /\ Len(F) = Len(E)
  /\ \A c \in 1..Len(E) :
       /\ Over(E[c]) => F[c] = E[c]
       /\ F[c].kind = E[c].kind
       /\ E[c].kind = "model" => F[c].request = E[c].request
       /\ E[c].kind = "team" => F[c].requests = E[c].requests

LEMMA WayKept ==
  ASSUME NEW i, NEW E, NEW F, NEW p, Passes(i, E, p), Continues(E, F)
  PROVE  Passes(i, F, p)
PROOF
<1>1. PICK n, C : Way(i, E, C, n) /\ \E k \in 1..n : C[k] = p
  BY DEF Passes
<1>2. \A k \in 1..n : k < n => Moves(i, F, C[k], C[k + 1])
  <2> SUFFICES ASSUME NEW k \in 1..n, k < n PROVE Moves(i, F, C[k], C[k + 1])
    OBVIOUS
  <2>1. Moves(i, E, C[k], C[k + 1])
    BY <1>1 DEF Way
  <2> DEFINE p1 == C[k]
             q == C[k + 1]
  <2> HIDE DEF p1, q
  <2>2. Moves(i, E, p1, q)
    BY <2>1 DEF p1, q
  <2>3. Moves(i, F, p1, q)
    BY <2>2 DEF Moves, ByModel, ByTeam, Continues
  <2> QED
    BY <2>3 DEF p1, q
<1>3. \A k \in 1..n, c \in 1..Len(F) : c < C[k].turn.cursor => Over(F[c])
  BY <1>1 DEF Way, Continues
<1>4. \A c \in 1..Len(F) : \E k \in 1..n :
        Asks(i, C[k]) /\ C[k].turn.cursor = c /\ AskedAt(i, C[k], F[c])
  <2> SUFFICES ASSUME NEW c \in 1..Len(F)
               PROVE  \E k \in 1..n : Asks(i, C[k]) /\ C[k].turn.cursor = c /\ AskedAt(i, C[k], F[c])
    OBVIOUS
  <2>1. PICK k \in 1..n : Asks(i, C[k]) /\ C[k].turn.cursor = c /\ AskedAt(i, C[k], E[c])
    BY <1>1 DEF Way, Continues
  <2>2. AskedAt(i, C[k], F[c])
    BY <2>1 DEF AskedAt, Asks, Continues
  <2> QED
    BY <2>1, <2>2
<1>5. Way(i, F, C, n)
  BY <1>1, <1>2, <1>3, <1>4 DEF Way, Continues
<1> QED
  BY <1>1, <1>5 DEF Passes

(* A step asked for at the end of the journal. *)
LEMMA WayAsked ==
  ASSUME NEW i, NEW S, NEW E \in Seq(S), NEW x, NEW p, Passes(i, E, p),
         Asks(i, p), p.turn.cursor = Len(E) + 1, AskedAt(i, p, x)
  PROVE  Passes(i, Append(E, x), p)
PROOF
<1>1. PICK n, C : Way(i, E, C, n) /\ \E k \in 1..n : C[k] = p
  BY DEF Passes
<1>2. PICK k \in 1..n : C[k] = p
  BY <1>1
<1> DEFINE F == Append(E, x)
<1>3. Len(F) = Len(E) + 1 /\ F[Len(E) + 1] = x /\ \A c \in 1..Len(E) : F[c] = E[c]
  OBVIOUS
<1> HIDE DEF F
<1>4. Len(E) \in Nat
  OBVIOUS
<1>5. \A l \in 1..n : l < n => Moves(i, F, C[l], C[l + 1])
  <2> SUFFICES ASSUME NEW l \in 1..n, l < n PROVE Moves(i, F, C[l], C[l + 1])
    OBVIOUS
  <2> DEFINE p1 == C[l]
             q == C[l + 1]
  <2>1. Moves(i, E, p1, q)
    BY <1>1 DEF Way
  <2> HIDE DEF p1, q
  <2>2. Moves(i, F, p1, q)
    BY <1>3, <1>4, <2>1 DEF Moves, ByModel, ByTeam
  <2> QED
    BY <2>2 DEF p1, q
<1>6. \A l \in 1..n : C[l].turn.cursor \in Nat /\ C[l].turn.cursor <= Len(E) + 1
  BY <1>1 DEF Way, IsPlace, IsTurn
<1>7. \A l \in 1..n, c \in 1..Len(F) : c < C[l].turn.cursor => Over(F[c])
  <2> SUFFICES ASSUME NEW l \in 1..n, NEW c \in 1..Len(F), c < C[l].turn.cursor
               PROVE  Over(F[c])
    OBVIOUS
  <2>1. c \in 1..Len(E)
    BY <1>6, <1>3, <1>4
  <2>2. Over(E[c])
    BY <1>1, <2>1 DEF Way
  <2> QED
    BY <1>3, <2>1, <2>2
<1>8. \A c \in 1..Len(F) : \E l \in 1..n :
        Asks(i, C[l]) /\ C[l].turn.cursor = c /\ AskedAt(i, C[l], F[c])
  <2> SUFFICES ASSUME NEW c \in 1..Len(F)
               PROVE  \E l \in 1..n : Asks(i, C[l]) /\ C[l].turn.cursor = c /\ AskedAt(i, C[l], F[c])
    OBVIOUS
  <2>1. CASE c = Len(E) + 1
    BY <1>2, <1>3, <2>1
  <2>2. CASE c \in 1..Len(E)
    <3>1. F[c] = E[c]
      BY <1>3, <2>2
    <3> QED
      BY <1>1, <2>2, <3>1 DEF Way
  <2> QED
    BY <1>3, <1>4, <2>1, <2>2
<1>9. \A l \in 1..n : C[l].turn.cursor <= Len(F) + 1
  BY <1>6, <1>3, <1>4
<1>10. Way(i, F, C, n)
  BY <1>1, <1>3, <1>4, <1>5, <1>7, <1>8, <1>9 DEF Way
<1> QED
  BY <1>2, <1>10 DEF Passes, F

(* A move goes along the way, or makes it longer. *)
LEMMA WayGoesOn ==
  ASSUME NEW i, NEW E, NEW p, Passes(i, E, p), NEW q, Moves(i, E, p, q)
  PROVE  Passes(i, E, q)
PROOF
<1>1. PICK n, C : Way(i, E, C, n) /\ \E k \in 1..n : C[k] = p
  BY DEF Passes
<1>2. PICK k \in 1..n : C[k] = p
  BY <1>1
<1>3. n \in Nat \ {0} /\ Len(E) \in Nat
  BY <1>1 DEF Way
<1>4. CASE k < n
  <2>1. Moves(i, E, p, C[k + 1])
    BY <1>1, <1>2, <1>4 DEF Way
  <2>2. C[k + 1] = q
    BY <2>1, MovesOneWay
  <2> QED
    BY <1>1, <1>3, <1>4, <2>2 DEF Passes
<1>5. CASE k = n
  <2> DEFINE D == [l \in Nat |-> IF l = n + 1 THEN q ELSE C[l]]
  <2>1. D[n + 1] = q /\ \A l \in 1..n : D[l] = C[l]
    BY <1>3
  <2> HIDE DEF D
  <2>2. \A l \in 1..n + 1 : l \in 1..n \/ l = n + 1
    BY <1>3
  <2>3. IsPlace(p)
    BY <1>1, <1>2 DEF Way
  <2>4. /\ IsPlace(q) /\ Before(i, p, q)
        /\ q.turn.cursor <= p.turn.cursor + 1
        /\ q.turn.cursor = p.turn.cursor + 1 =>
             p.turn.cursor \in 1..Len(E) /\ Over(E[p.turn.cursor])
    BY <1>3, <2>3, MovesForward
  <2>5. \A l \in 1..n : C[l].turn.cursor \in Nat
    BY <1>1 DEF Way, IsPlace, IsTurn
  <2>6. p.turn.cursor \in Nat /\ q.turn.cursor \in Nat
    BY <2>3, <2>4 DEF IsPlace, IsTurn
  <2>7. \A l \in 1..n : Before(i, C[l], q)
    <3> SUFFICES ASSUME NEW l \in 1..n PROVE Before(i, C[l], q)
      OBVIOUS
    <3>1. CASE l = n
      BY <1>2, <1>5, <2>4, <3>1
    <3>2. CASE l < n
      <4>1. Before(i, C[l], p)
        BY <1>1, <1>2, <1>5, <3>2 DEF Way
      <4>2. p.turn.after_browser => q.turn.after_browser
        BY <2>4 DEF Before, Closes
      <4> QED
        BY <2>4, <2>5, <2>6, <4>1, <4>2 DEF Before
    <3> QED
      BY <1>3, <3>1, <3>2
  <2>8. \A l, m \in 1..n + 1 : l < m => Before(i, D[l], D[m])
    <3> SUFFICES ASSUME NEW l \in 1..n + 1, NEW m \in 1..n + 1, l < m
                 PROVE  Before(i, D[l], D[m])
      OBVIOUS
    <3>1. l \in 1..n
      BY <1>3
    <3>2. CASE m = n + 1
      BY <2>1, <2>7, <3>1, <3>2
    <3>3. CASE m \in 1..n
      BY <1>1, <2>1, <3>1, <3>3 DEF Way
    <3> QED
      BY <2>2, <3>2, <3>3
  <2>9. \A l \in 1..n + 1 : l < n + 1 => Moves(i, E, D[l], D[l + 1])
    <3> SUFFICES ASSUME NEW l \in 1..n PROVE Moves(i, E, D[l], D[l + 1])
      BY <1>3
    <3>1. CASE l = n
      BY <1>2, <1>5, <2>1, <3>1
    <3>2. CASE l < n
      <4>1. l + 1 \in 1..n
        BY <1>3, <3>2
      <4> QED
        BY <1>1, <2>1, <3>2, <4>1 DEF Way
    <3> QED
      BY <1>3, <3>1, <3>2
  <2>10. \A l \in 1..n + 1 : IsPlace(D[l]) /\ D[l].turn.cursor <= Len(E) + 1
    <3>1. q.turn.cursor <= Len(E) + 1
      <4>1. p.turn.cursor <= Len(E) + 1
        BY <1>1, <1>2 DEF Way
      <4> QED
        BY <1>3, <2>4, <2>6, <4>1
    <3> QED
      BY <1>1, <2>1, <2>2, <2>4, <3>1 DEF Way
  <2>11. \A l \in 1..n + 1, c \in 1..Len(E) : c < D[l].turn.cursor => Over(E[c])
    <3>1. \A c \in 1..Len(E) : c < q.turn.cursor => Over(E[c])
      <4>1. \A c \in 1..Len(E) : c < p.turn.cursor => Over(E[c])
        BY <1>1, <1>2 DEF Way
      <4> QED
        BY <2>4, <2>6, <4>1
    <3> QED
      BY <1>1, <2>1, <2>2, <3>1 DEF Way
  <2>12. \A c \in 1..Len(E) : \E l \in 1..n + 1 :
           Asks(i, D[l]) /\ D[l].turn.cursor = c /\ AskedAt(i, D[l], E[c])
    <3> SUFFICES ASSUME NEW c \in 1..Len(E)
                 PROVE  \E l \in 1..n + 1 :
                          Asks(i, D[l]) /\ D[l].turn.cursor = c /\ AskedAt(i, D[l], E[c])
      OBVIOUS
    <3>1. PICK l \in 1..n : Asks(i, C[l]) /\ C[l].turn.cursor = c /\ AskedAt(i, C[l], E[c])
      BY <1>1 DEF Way
    <3>2. l \in 1..n + 1 /\ D[l] = C[l]
      BY <1>3, <2>1
    <3> QED
      BY <3>1, <3>2
  <2>13. D[1] = At("model", Fresh(i)) /\ n + 1 \in Nat \ {0} /\ n + 1 \in 1..n + 1
    BY <1>1, <1>3, <2>1 DEF Way
  <2>14. Way(i, E, D, n + 1)
    BY <1>3, <2>8, <2>9, <2>10, <2>11, <2>12, <2>13 DEF Way
  <2> QED
    BY <2>1, <2>13, <2>14 DEF Passes
<1> QED
  BY <1>3, <1>4, <1>5

LEMMA PassesPlace ==
  ASSUME NEW i, NEW E, NEW p, Passes(i, E, p)
  PROVE  /\ IsPlace(p) /\ p.turn.cursor \in Nat \ {0} /\ Len(E) \in Nat
         /\ p.turn.cursor <= Len(E) + 1
         /\ Passes(i, E, At("model", Fresh(i)))
PROOF
<1>1. PICK n, C : Way(i, E, C, n) /\ \E k \in 1..n : C[k] = p
  BY DEF Passes
<1>2. 1 \in 1..n
  BY <1>1 DEF Way
<1>3. Passes(i, E, At("model", Fresh(i)))
  <2>1. C[1] = At("model", Fresh(i))
    BY <1>1 DEF Way
  <2> QED
    BY <1>1, <1>2, <2>1 DEF Passes
<1>4. IsPlace(p) /\ Len(E) \in Nat /\ p.turn.cursor <= Len(E) + 1
  BY <1>1 DEF Way
<1> QED
  BY <1>3, <1>4 DEF IsPlace, IsTurn

-----------------------------------------------------------------------------
(* The journal *)

StepForm(step) ==
  /\ step.kind \in {"model", "team"}
  /\ step.kind = "model" =>
       /\ step = [x \in {"kind", "request", "state", "answer"} |-> step[x]]
       /\ step.state = "failed" => step.answer # "diverged"
  /\ step.kind = "team" => step = [x \in {"kind", "requests", "results"} |-> step[x]]

IsJournal(E) ==
  /\ \E S : E \in Seq(S)
  /\ \A c \in 1..Len(E) : StepForm(E[c])

LEMMA JournalGrows ==
  ASSUME NEW E, IsJournal(E), NEW step, StepForm(step)
  PROVE  /\ IsJournal(Append(E, step)) /\ Len(E) \in Nat
         /\ Len(Append(E, step)) = Len(E) + 1
         /\ Append(E, step)[Len(E) + 1] = step
PROOF
<1>1. PICK S : E \in Seq(S)
  BY DEF IsJournal
<1>2. Append(E, step) \in Seq(S \cup {step})
  BY <1>1
<1>3. /\ Len(E) \in Nat /\ Len(Append(E, step)) = Len(E) + 1
      /\ Append(E, step)[Len(E) + 1] = step
      /\ \A c \in 1..Len(E) : Append(E, step)[c] = E[c]
  BY <1>1
<1>4. \A c \in 1..Len(E) + 1 : c \in 1..Len(E) \/ c = Len(E) + 1
  BY <1>3
<1> QED
  BY <1>2, <1>3, <1>4 DEF IsJournal

(* One step of it becomes another. *)
LEMMA JournalChanges ==
  ASSUME NEW E, IsJournal(E), NEW c \in 1..Len(E), NEW step, StepForm(step), ~Over(E[c]),
         step.kind = E[c].kind,
         E[c].kind = "model" => step.request = E[c].request,
         E[c].kind = "team" => step.requests = E[c].requests
  PROVE  LET F == [E EXCEPT ![c] = step]
         IN IsJournal(F) /\ Continues(E, F) /\ F[c] = step
PROOF
<1>1. PICK S : E \in Seq(S)
  BY DEF IsJournal
<1> DEFINE F == [E EXCEPT ![c] = step]
<1>2. F \in Seq(S \cup {step}) /\ Len(F) = Len(E)
  BY <1>1
<1>3. F[c] = step /\ \A d \in 1..Len(E) : d # c => F[d] = E[d]
  BY <1>1
<1> HIDE DEF F
<1>4. IsJournal(F)
  BY <1>2, <1>3 DEF IsJournal
<1>5. Continues(E, F)
  BY <1>2, <1>3 DEF Continues
<1> QED
  BY <1>3, <1>4, <1>5 DEF F

LEMMA SettleChanges ==
  ASSUME NEW E, IsJournal(E), NEW c \in 1..Len(E), E[c].kind = "model",
         E[c].state = "running", NEW state, NEW result,
         state = "failed" => result # "diverged"
  PROVE  LET F == [E EXCEPT ![c].state = state, ![c].answer = result]
         IN IsJournal(F) /\ Continues(E, F)
PROOF
<1> DEFINE half == [E[c] EXCEPT !.state = state]
           step == [half EXCEPT !.answer = result]
<1>1. PICK S : E \in Seq(S)
  BY DEF IsJournal
<1>2. E = [d \in 1..Len(E) |-> E[d]]
  BY <1>1
<1>3. [E EXCEPT ![c].state = state, ![c].answer = result] = [E EXCEPT ![c] = step]
  BY <1>2, Zenon
<1>4. StepForm(E[c])
  BY DEF IsJournal
<1>5. /\ step = [x \in {"kind", "request", "state", "answer"} |-> step[x]]
      /\ step.kind = E[c].kind /\ step.request = E[c].request
      /\ step.state = state /\ step.answer = result
  BY <1>4, Zenon DEF StepForm
<1> HIDE DEF step
<1>6. StepForm(step)
  BY <1>5 DEF StepForm
<1>7. ~Over(E[c])
  BY DEF Over
<1>8. LET F == [E EXCEPT ![c] = step] IN IsJournal(F) /\ Continues(E, F)
  <2>1. /\ step.kind = E[c].kind
        /\ E[c].kind = "model" => step.request = E[c].request
        /\ E[c].kind = "team" => step.requests = E[c].requests
    BY <1>5
  <2> QED
    BY <1>6, <1>7, <2>1, JournalChanges
<1> QED
  BY <1>3, <1>8, Zenon

LEMMA ResultsChange ==
  ASSUME NEW E, IsJournal(E), NEW c \in 1..Len(E), E[c].kind = "team", ~Over(E[c]),
         NEW results
  PROVE  LET F == [E EXCEPT ![c].results = results]
         IN IsJournal(F) /\ Continues(E, F)
PROOF
<1> DEFINE step == [E[c] EXCEPT !.results = results]
<1>4. StepForm(E[c])
  BY DEF IsJournal
<1>5. /\ step = [x \in {"kind", "requests", "results"} |-> step[x]]
      /\ step.kind = E[c].kind /\ step.requests = E[c].requests
  BY <1>4, Zenon DEF StepForm
<1>3. [E EXCEPT ![c].results = results] = [E EXCEPT ![c] = step]
  BY Zenon
<1> HIDE DEF step
<1>6. StepForm(step)
  BY <1>5 DEF StepForm
<1> QED
  BY <1>3, <1>5, <1>6, JournalChanges

-----------------------------------------------------------------------------
(* Where the run is on its way *)

(* While a call is made, or the run waits, it is still where it asked. *)
Resting(place) ==
  CASE place \in {"calling", "sending"} -> "model"
    [] place = "checking" -> "check"
    [] place = "waiting" -> "tools"
    [] OTHER -> place

(* How often a call was tried is no part of the way. *)
Rest(t) == [t EXCEPT !.attempt = 1]

Here == At(Resting(pc), Rest(turn))

LEMMA RestAlike ==
  ASSUME NEW i, NEW t, IsTurn(t)
  PROVE  /\ IsTurn(Rest(t)) /\ Rest(t).attempt = 1 /\ Rest(t).cursor = t.cursor
         /\ Rest(t).messages = t.messages /\ Rest(t).settled = t.settled
         /\ t.attempt = 1 => Rest(t) = t
         /\ chat_request(i, Rest(t)) = chat_request(i, t)
         /\ check_request(Rest(t)) = check_request(t)
         /\ Within(Rest(t), 1) <=> Within(t, 1)
         /\ \A message : received(Rest(t), message) = received(t, message)
PROOF
<1>1. /\ IsTurn(Rest(t)) /\ Rest(t).attempt = 1 /\ Rest(t).cursor = t.cursor
      /\ Rest(t).messages = t.messages /\ Rest(t).settled = t.settled
      /\ Rest(t).steps = t.steps /\ Rest(t).after_browser = t.after_browser
      /\ Rest(t).counter = t.counter
  BY Zenon DEF Rest, IsTurn, Fields
<1>2. t.attempt = 1 => Rest(t) = t
  BY Zenon DEF Rest, IsTurn, Fields
<1>3. /\ chat_request(i, Rest(t)) = chat_request(i, t)
      /\ check_request(Rest(t)) = check_request(t)
      /\ Within(Rest(t), 1) <=> Within(t, 1)
  BY <1>1, Zenon DEF chat_request, check_request, Within, Tools, Reserved
<1>4. \A message : received(Rest(t), message) = received(t, message)
  <2> SUFFICES ASSUME NEW message PROVE received(Rest(t), message) = received(t, message)
    OBVIOUS
  <2> DEFINE said == [message EXCEPT !.id = <<"a", t.counter + 1>>]
  <2>1. [Rest(t) EXCEPT !.steps = @ + 1, !.attempt = 1, !.cursor = @ + 1, !.counter = @ + 1,
           !.messages = Append(@, said)]
        = [t EXCEPT !.steps = @ + 1, !.attempt = 1, !.cursor = @ + 1, !.counter = @ + 1,
             !.messages = Append(@, said)]
    <3> HIDE DEF said
    <3> QED
      BY Zenon DEF Rest, IsTurn, Fields
  <2> QED
    BY <1>1, <2>1, Zenon DEF received
<1> QED
  BY <1>1, <1>2, <1>3, <1>4

Places ==
  {"idle", "model", "calling", "sending", "review", "tools", "waiting", "settle",
   "check", "checking", "done"}

OnTheWay ==
  pc \notin {"idle", "done"} =>
    /\ IsTurn(turn)
    /\ pc \notin {"model", "calling", "sending"} => turn.attempt = 1
    /\ Passes(input, journal, Here)

(* What is under way is the last step of the journal. *)
UnderWay ==
  /\ pc \in {"calling", "sending", "checking"} =>
       /\ turn.cursor \in 1..Len(journal)
       /\ Step.kind = "model" /\ Step.state = "running"
  /\ pc = "waiting" => journal # <<>> /\ journal[Len(journal)].kind = "team"

ReplayInv ==
  /\ pc \in Places
  /\ pc = "idle" => journal = <<>>
  /\ IsJournal(journal)
  /\ OnTheWay
  /\ UnderWay
  /\ ReplaySame

(* A call is replayed as it was made. *)
LEMMA CallAgrees ==
  ASSUME ReplayInv, AtCall, Replaying
  PROVE  /\ turn.cursor \in 1..Len(journal)
         /\ Step.kind = "model" /\ Step.request = Asked
PROOF
<1>1. pc \in {"model", "check"} /\ Here = At(pc, Rest(turn))
  BY DEF AtCall, Here, Resting
<1>2. IsTurn(turn) /\ Passes(input, journal, Here)
  BY <1>1 DEF ReplayInv, OnTheWay
<1>3. Here.pc = pc /\ Here.turn = Rest(turn)
  BY <1>1 DEF At
<1>4. turn.cursor \in 1..Len(journal)
  BY <1>2, PassesPlace DEF IsTurn, Replaying
<1>5. Asks(input, Here)
  <2>1. Within(Rest(turn), 1) <=> Within(turn, 1)
    BY <1>2, RestAlike
  <2>2. Rest(turn).messages = turn.messages
    BY <1>2, RestAlike
  <2> QED
    BY <1>3, <2>1, <2>2, Zenon DEF AtCall, Asks
<1>6. Here.turn.cursor = turn.cursor
  BY <1>2, <1>3, RestAlike
<1>7. AskedAt(input, Here, journal[turn.cursor])
  BY <1>2, <1>4, <1>5, <1>6, WayAgrees
<1>8. /\ chat_request(input, Rest(turn)) = chat_request(input, turn)
      /\ check_request(Rest(turn)) = check_request(turn)
  BY <1>2, RestAlike
<1> QED
  BY <1>1, <1>3, <1>4, <1>7, <1>8 DEF AskedAt, Step, Asked

(* So is a batch for Team. *)
LEMMA BatchAgrees ==
  ASSUME ReplayInv, AtTeam, Replaying
  PROVE  turn.cursor \in 1..Len(journal) /\ SameBatch
PROOF
<1>1. pc = "tools" /\ IsTurn(turn) /\ turn.attempt = 1 /\ Passes(input, journal, Here)
  BY DEF AtTeam, ReplayInv, OnTheWay
<1>2. Here = At("tools", turn)
  BY <1>1, RestAlike DEF Here, Resting
<1>3. Here.pc = "tools" /\ Here.turn = turn
  BY <1>2 DEF At
<1>4. turn.cursor \in 1..Len(journal)
  BY <1>1, PassesPlace DEF IsTurn, Replaying
<1>5. Asks(input, Here)
  BY <1>1, <1>3 DEF AtTeam, Asks
<1>6. AskedAt(input, Here, journal[turn.cursor])
  BY <1>1, <1>3, <1>4, <1>5, WayAgrees
<1> QED
  BY <1>3, <1>4, <1>6 DEF AskedAt, SameBatch, Step

(* A run that goes on by itself stays on its way. *)
LEMMA GoesOn ==
  ASSUME ReplayInv, pc \in {"model", "review", "tools", "settle"}, NEW to, GoOn(to),
         to.pc = "failed" => to.kind # "diverged",
         to.pc # "failed" => Moves(input, journal, Here, to)
  PROVE  ReplayInv'
PROOF
<1>1. Passes(input, journal, Here) /\ outcome' \in {outcome, [kind |-> to.kind]}
  BY DEF ReplayInv, OnTheWay, GoOn, Fail, End
<1>2. CASE to.pc = "failed"
  BY <1>2 DEF ReplayInv, OnTheWay, UnderWay, ReplaySame, GoOn, Fail, End, Goto, Places
<1>3. CASE to.pc # "failed"
  <2>1. turn' = to.turn /\ pc' = to.pc /\ outcome' = outcome /\ UNCHANGED <<input, journal>>
    BY <1>3 DEF GoOn, Goto
  <2>2. Passes(input, journal, to)
    BY <1>1, <1>3, WayGoesOn
  <2>3. IsPlace(to)
    BY <2>2, PassesPlace
  <2>4. pc' \in {"model", "review", "tools", "settle", "check"}
    BY <2>1, <2>3 DEF IsPlace
  <2>5. IsTurn(turn') /\ turn'.attempt = 1
    BY <2>1, <2>3 DEF IsPlace
  <2>6. Here' = to
    BY <2>1, <2>3, <2>4, <2>5, RestAlike DEF Here, Resting, IsPlace
  <2>7. Passes(input, journal, Here)'
    BY <2>1, <2>2, <2>6
  <2> QED
    BY <2>1, <2>4, <2>5, <2>7
    DEF ReplayInv, OnTheWay, UnderWay, ReplaySame, Places
<1> QED
  BY <1>2, <1>3

(* A step of the journal goes on, and the definition is where it was. *)
LEMMA StaysThere ==
  ASSUME ReplayInv, pc \notin {"idle", "done"}, pc' \in {"model", "check"},
         Resting(pc) = pc', turn' = turn, input' = input, outcome' = outcome,
         IsJournal(journal'), Continues(journal, journal')
  PROVE  ReplayInv'
PROOF
<1>1. IsTurn(turn) /\ Passes(input, journal, Here)
  BY DEF ReplayInv, OnTheWay
<1>2. Here' = Here
  BY DEF Here, Resting
<1>3. Passes(input, journal', Here)
  BY <1>1, WayKept
<1>4. Passes(input, journal, Here)'
  BY <1>2, <1>3
<1>5. pc' = "check" => turn.attempt = 1
  BY DEF Resting, ReplayInv, OnTheWay, Places
<1> QED
  BY <1>1, <1>4, <1>5 DEF ReplayInv, OnTheWay, UnderWay, ReplaySame, Places

(* The definition is executed from its beginning. *)
LEMMA StartsAgain ==
  ASSUME ReplayInv, pc \notin {"idle", "done"}, pc' = "model", turn' = Fresh(input),
         input' = input, outcome' = outcome,
         IsJournal(journal'), Continues(journal, journal')
  PROVE  ReplayInv'
PROOF
<1>1. Passes(input, journal, Here)
  BY DEF ReplayInv, OnTheWay
<1>2. Passes(input, journal', At("model", Fresh(input)))
  BY <1>1, PassesPlace, WayKept
<1>3. IsTurn(Fresh(input)) /\ Fresh(input).attempt = 1
  BY FreshIsPlace DEF IsPlace, At
<1>4. Here' = At("model", Fresh(input))
  BY <1>3, RestAlike DEF Here, Resting
<1>5. Passes(input, journal, Here)'
  BY <1>2, <1>4
<1> QED
  BY <1>3, <1>5 DEF ReplayInv, OnTheWay, UnderWay, ReplaySame, Places

LEMMA ContinuesItself ==
  ASSUME NEW E
  PROVE  Continues(E, E)
PROOF
  BY DEF Continues

LEMMA CallSettles ==
  ASSUME ReplayInv, turn.cursor \in 1..Len(journal), Step.kind = "model",
         Step.state = "running", NEW state, NEW result, state = "failed" => result # "diverged",
         Settle(state, result)
  PROVE  IsJournal(journal') /\ Continues(journal, journal')
PROOF
<1> DEFINE F == [journal EXCEPT ![turn.cursor].state = state, ![turn.cursor].answer = result]
<1>1. journal' = F
  BY DEF Settle
<1>2. IsJournal(F) /\ Continues(journal, F)
  BY SettleChanges DEF ReplayInv, Step
<1> HIDE DEF F
<1> QED
  BY <1>1, <1>2

(* Where the definition goes on by itself, it moves along its way. *)
LEMMA MovesOn ==
  ASSUME ReplayInv, Receive \/ Review \/ RunTools \/ TeamAnswered \/ SettleTurn
  PROVE  /\ pc \in {"model", "review", "tools", "settle"}
         /\ \E to : /\ GoOn(to) /\ (to.pc = "failed" => to.kind # "diverged")
                    /\ to.pc # "failed" => Moves(input, journal, Here, to)
PROOF
<1>1. CASE Receive
  <2>1. /\ pc = "model" /\ AtCall /\ Replaying /\ Step.kind = "model" /\ Step.state = "done"
        /\ GoOn(received(turn, Step.answer))
    BY <1>1 DEF Receive
  <2>2. turn.cursor \in 1..Len(journal)
    BY <2>1, CallAgrees
  <2>3. IsTurn(turn) /\ Here = At("model", Rest(turn))
    BY <2>1 DEF ReplayInv, OnTheWay, Here, Resting
  <2>4. Here.pc = "model" /\ Here.turn = Rest(turn)
    BY <2>3 DEF At
  <2>5. /\ Rest(turn).cursor = turn.cursor /\ (Within(Rest(turn), 1) <=> Within(turn, 1))
        /\ received(Rest(turn), Step.answer) = received(turn, Step.answer)
    BY <2>3, RestAlike
  <2>6. ByModel(journal, Here, received(turn, Step.answer))
    BY <2>1, <2>2, <2>4, <2>5 DEF ByModel, Step, Over, AtCall
  <2>7. received(turn, Step.answer).pc = "failed" =>
          received(turn, Step.answer).kind # "diverged"
    BY DEF received, Failing, At
  <2> DEFINE to == received(turn, Step.answer)
  <2> HIDE DEF to
  <2>8. GoOn(to) /\ (to.pc = "failed" => to.kind # "diverged")
        /\ (to.pc # "failed" => Moves(input, journal, Here, to))
    BY <2>1, <2>6, <2>7 DEF to, Moves
  <2> QED
    BY <2>1, <2>8
<1>2. CASE Review \/ RunTools \/ TeamAnswered \/ SettleTurn
  <2>1. pc \in {"review", "tools", "settle"} /\ IsTurn(turn) /\ turn.attempt = 1
    BY <1>2 DEF Review, RunTools, TeamAnswered, AtTeam, SettleTurn, ReplayInv, OnTheWay
  <2>2. Here = At(pc, turn)
    BY <2>1, RestAlike DEF Here, Resting
  <2>3. Here.pc = pc /\ Here.turn = turn
    BY <2>2 DEF At
  <2>4. \E to : /\ GoOn(to) /\ (to.pc = "failed" => to.kind # "diverged")
                /\ to.pc # "failed" => Moves(input, journal, Here, to)
    <3>1. CASE Review
      <4> DEFINE to == review(input, turn)
      <4>1. to.pc = "failed" => to.kind # "diverged"
        <5>1. \/ to = Failing("provider")
              \/ to = Failing("contract")
              \/ \E place \in {"model", "settle", "tools"} : \E t : to = At(place, t)
          BY DEF review
        <5> HIDE DEF to
        <5> QED
          BY <5>1 DEF Failing, At
      <4>2. GoOn(to) /\ pc = "review"
        BY <3>1 DEF Review
      <4>3. to.pc # "failed" => Moves(input, journal, Here, to)
        BY <2>3, <4>2 DEF Moves, ByItself
      <4> HIDE DEF to
      <4> QED
        BY <4>1, <4>2, <4>3
    <3>2. CASE RunTools
      <4> DEFINE to == run_tools(input, turn)
      <4>1. to.pc = "failed" => to.kind # "diverged"
        <5>1. to = Failing("contract") \/ to = At(AfterTools(turn), push_answers(input, turn, <<>>))
          BY DEF run_tools
        <5>2. AfterTools(turn) # "failed"
          BY DEF AfterTools
        <5> HIDE DEF to
        <5> QED
          BY <5>1, <5>2 DEF Failing, At
      <4>2. GoOn(to) /\ pc = "tools" /\ (Unguarded(input, turn) \/ ForTeam(input, turn) = {})
        BY <3>2 DEF RunTools
      <4>3. to.pc # "failed" => Moves(input, journal, Here, to)
        BY <2>3, <4>2 DEF Moves, ByItself
      <4> HIDE DEF to
      <4> QED
        BY <4>1, <4>2, <4>3
    <3>3. CASE TeamAnswered
      <4>1. AtTeam /\ Replaying /\ SameBatch /\ DOMAIN Step.results = Ids(Step)
        BY <3>3 DEF TeamAnswered, AllAnswered
      <4>2. turn.cursor \in 1..Len(journal)
        BY <4>1, BatchAgrees
      <4> DEFINE to == told(input, turn, Step.results)
      <4>3. to.pc # "failed"
        BY DEF told, At, AfterTools
      <4>4. GoOn(to)
        BY <3>3 DEF TeamAnswered
      <4>5. ByTeam(input, journal, Here, to)
        BY <2>3, <4>1, <4>2 DEF ByTeam, AtTeam, SameBatch, Step, Over
      <4> HIDE DEF to
      <4> QED
        BY <4>3, <4>4, <4>5 DEF Moves
    <3>4. CASE SettleTurn
      <4> DEFINE to == settle(input, turn)
      <4>1. to.pc = "failed" => to.kind # "diverged"
        <5>1. to = Failing("contract") \/ \E t : to = At("check", t)
          BY DEF settle
        <5> HIDE DEF to
        <5> QED
          BY <5>1 DEF Failing, At
      <4>2. GoOn(to) /\ pc = "settle"
        BY <3>4 DEF SettleTurn
      <4>3. to.pc # "failed" => Moves(input, journal, Here, to)
        BY <2>3, <4>2 DEF Moves, ByItself
      <4> HIDE DEF to
      <4> QED
        BY <4>1, <4>2, <4>3
    <3> QED
      BY <1>2, <3>1, <3>2, <3>3, <3>4
  <2> QED
    BY <2>1, <2>4
<1> QED
  BY <1>1, <1>2

LEMMA Init_Replay ==
  Init => ReplayInv
PROOF
<1>1. IsJournal(<<>>)
  <2>1. <<>> \in Seq({}) /\ Len(<<>>) = 0
    OBVIOUS
  <2> QED
    BY <2>1 DEF IsJournal
<1> QED
  BY <1>1 DEF Init, ReplayInv, OnTheWay, UnderWay, ReplaySame, Places

LEMMA Next_Replay ==
  ReplayInv /\ [Next]_vars => ReplayInv'
PROOF
<1> SUFFICES ASSUME ReplayInv, [Next]_vars PROVE ReplayInv'
  OBVIOUS
<1>1. ASSUME NEW r \in Starts, Start(r) PROVE ReplayInv'
  <2>1. pc = "idle" /\ journal = <<>> /\ journal' = journal
    BY <1>1 DEF Start, ReplayInv
  <2>2. CASE start(r) # "turn"
    <3>1. start(r) # "diverged"
      BY DEF start, Read
    <3> QED
      BY <1>1, <2>1, <2>2, <3>1
      DEF Start, Fail, End, Goto, ReplayInv, OnTheWay, UnderWay, ReplaySame, Places
  <2>3. CASE start(r) = "turn"
    <3>1. /\ input' = Input(r) /\ turn' = Fresh(Input(r)) /\ pc' = "model"
          /\ outcome' = outcome
      BY <1>1, <2>3 DEF Start, Goto
    <3>2. IsTurn(Fresh(Input(r))) /\ Fresh(Input(r)).attempt = 1
      BY FreshIsPlace DEF IsPlace, At
    <3>3. Here' = At("model", Fresh(Input(r)))
      BY <3>1, <3>2, RestAlike DEF Here, Resting
    <3>4. Passes(Input(r), <<>>, At("model", Fresh(Input(r))))
      BY WayBegins
    <3>5. Passes(input, journal, Here)'
      BY <2>1, <3>1, <3>3, <3>4
    <3> QED
      BY <2>1, <3>1, <3>2, <3>5 DEF ReplayInv, OnTheWay, UnderWay, ReplaySame, Places
  <2> QED
    BY <2>2, <2>3
<1>2. CASE Dispatch
  <2>1. /\ AtCall /\ ~Replaying /\ UNCHANGED <<input, turn, outcome>>
        /\ journal' = Append(journal, ModelStep(Asked))
        /\ pc \in {"model", "check"}
        /\ pc' = IF pc = "model" THEN "calling" ELSE "checking"
    BY <1>2 DEF Dispatch, AtCall, Goto
  <2>2. /\ IsTurn(turn) /\ Passes(input, journal, Here) /\ IsJournal(journal)
        /\ pc = "check" => turn.attempt = 1
    BY <2>1 DEF ReplayInv, OnTheWay
  <2>3. Here = At(pc, Rest(turn)) /\ Here' = Here
    BY <2>1 DEF Here, Resting
  <2>4. Here.pc = pc /\ Here.turn = Rest(turn) /\ Rest(turn).cursor = turn.cursor
    BY <2>2, <2>3, RestAlike DEF At
  <2>5. turn.cursor = Len(journal) + 1
    BY <2>1, <2>2, <2>4, PassesPlace DEF Replaying
  <2>6. Asks(input, Here) /\ AskedAt(input, Here, ModelStep(Asked))
    <3>1. /\ chat_request(input, Rest(turn)) = chat_request(input, turn)
          /\ check_request(Rest(turn)) = check_request(turn)
          /\ Within(Rest(turn), 1) <=> Within(turn, 1)
          /\ Rest(turn).messages = turn.messages
      BY <2>2, RestAlike
    <3> QED
      BY <2>1, <2>4, <3>1 DEF AtCall, Asks, AskedAt, ModelStep, Asked
  <2>7. StepForm(ModelStep(Asked))
    BY DEF StepForm, ModelStep
  <2>8. /\ IsJournal(journal') /\ Len(journal') = Len(journal) + 1 /\ Len(journal) \in Nat
        /\ journal'[turn.cursor] = ModelStep(Asked)
    BY <2>1, <2>2, <2>5, <2>7, JournalGrows
  <2>9. Passes(input, journal', Here)
    <3>1. PICK S : journal \in Seq(S)
      BY <2>2 DEF IsJournal
    <3> QED
      BY <2>1, <2>2, <2>4, <2>5, <2>6, <3>1, WayAsked
  <2>10. Passes(input, journal, Here)'
    BY <2>1, <2>3, <2>9
  <2>11. journal'[turn.cursor].kind = "model" /\ journal'[turn.cursor].state = "running"
    BY <2>8 DEF ModelStep
  <2>12. turn.cursor \in 1..Len(journal')
    BY <2>5, <2>8
  <2> QED
    BY <2>1, <2>2, <2>8, <2>10, <2>11, <2>12
    DEF ReplayInv, OnTheWay, UnderWay, ReplaySame, Places, Step
<1>3. CASE Interrupted
  <2>1. /\ AtCall /\ Replaying /\ UNCHANGED <<input, turn>>
        /\ Step.kind # "model" \/ Step.state = "running"
    BY <1>3 DEF Interrupted
  <2>2. turn.cursor \in 1..Len(journal) /\ Step.kind = "model" /\ Step.request = Asked
    BY <2>1, CallAgrees
  <2>3. Settle("failed", "provider") /\ UNCHANGED <<pc, outcome>>
    BY <1>3, <2>2 DEF Interrupted
  <2>4. IsJournal(journal') /\ Continues(journal, journal')
    BY <2>1, <2>2, <2>3, CallSettles
  <2> QED
    BY <2>1, <2>3, <2>4, StaysThere DEF AtCall, Resting
<1>4. CASE Failed
  <2>1. turn.cursor \in 1..Len(journal)
    BY <1>4, CallAgrees DEF Failed
  <2>2. Step.answer # "diverged"
    BY <1>4, <2>1 DEF Failed, Step, ReplayInv, IsJournal, StepForm
  <2> QED
    BY <1>4, <2>2
    DEF Failed, Fail, End, Goto, ReplayInv, OnTheWay, UnderWay, ReplaySame, Places
<1>5. CASE Receive \/ Review \/ RunTools \/ TeamAnswered \/ SettleTurn
  <2>1. pc \in {"model", "review", "tools", "settle"}
    BY <1>5, MovesOn
  <2>2. \E to : /\ GoOn(to) /\ (to.pc = "failed" => to.kind # "diverged")
                /\ to.pc # "failed" => Moves(input, journal, Here, to)
    BY <1>5, MovesOn
  <2> QED
    BY <2>1, <2>2, GoesOn
<1>6. CASE Exceed
  BY <1>6 DEF Exceed, Fail, End, Goto, ReplayInv, OnTheWay, UnderWay, ReplaySame, Places
<1>7. CASE Refuse \/ GiveUpCall
  <2>1. /\ pc \in {"calling", "sending"} /\ pc' = "model"
        /\ UNCHANGED <<input, turn, outcome>>
        /\ \E why : why # "diverged" /\ Settle("failed", why)
    BY <1>7 DEF Refuse, GiveUpCall, Goto
  <2>2. IsJournal(journal') /\ Continues(journal, journal')
    <3>1. /\ turn.cursor \in 1..Len(journal) /\ Step.kind = "model" /\ Step.state = "running"
      BY <2>1 DEF ReplayInv, UnderWay
    <3> QED
      BY <2>1, <3>1, CallSettles
  <2> QED
    BY <2>1, <2>2, StaysThere DEF Resting
<1>8. CASE Attempt
  <2>1. pc = "calling" /\ pc' = "sending" /\ UNCHANGED <<input, journal, turn, outcome>>
    BY <1>8 DEF Attempt, Goto
  <2>2. Here' = Here
    BY <2>1 DEF Here, Resting
  <2> QED
    BY <2>1, <2>2 DEF ReplayInv, OnTheWay, UnderWay, ReplaySame, Places, Step
<1>9. CASE Retry
  <2>1. /\ pc = "sending" /\ pc' = "calling" /\ UNCHANGED <<input, journal, outcome>>
        /\ turn' = [turn EXCEPT !.attempt = @ + 1]
    BY <1>9 DEF Retry, Goto
  <2>2. IsTurn(turn)
    BY <2>1 DEF ReplayInv, OnTheWay
  <2>3. IsTurn(turn') /\ Rest(turn') = Rest(turn) /\ turn'.cursor = turn.cursor
    BY <2>1, <2>2, Zenon DEF IsTurn, Fields, Rest
  <2>4. Here' = Here
    BY <2>1, <2>3 DEF Here, Resting
  <2> QED
    BY <2>1, <2>3, <2>4 DEF ReplayInv, OnTheWay, UnderWay, ReplaySame, Places, Step
<1>10. ASSUME NEW body, Answer(body) PROVE ReplayInv'
  <2>1. /\ pc = "sending" /\ pc' = "model" /\ UNCHANGED <<input, turn, outcome>>
        /\ \E state, result : (state = "failed" => result # "diverged") /\ Settle(state, result)
    <3>1. /\ pc = "sending" /\ pc' = "model" /\ UNCHANGED <<input, turn, outcome>>
      BY <1>10 DEF Answer, Goto
    <3>2. \/ Settle("failed", "provider")
          \/ \E result : Settle("done", result)
      BY <1>10 DEF Answer
    <3> QED
      BY <3>1, <3>2
  <2>2. IsJournal(journal') /\ Continues(journal, journal')
    <3>1. /\ turn.cursor \in 1..Len(journal) /\ Step.kind = "model" /\ Step.state = "running"
      BY <2>1 DEF ReplayInv, UnderWay
    <3> QED
      BY <2>1, <3>1, CallSettles
  <2> QED
    BY <2>1, <2>2, StaysThere DEF Resting
<1>11. CASE Check
  <2>1. /\ pc = "checking" /\ pc' = "check" /\ UNCHANGED <<input, turn, outcome>>
        /\ \E state, result : (state = "failed" => result # "diverged") /\ Settle(state, result)
    <3>1. /\ pc = "checking" /\ pc' = "check" /\ UNCHANGED <<input, turn, outcome>>
      BY <1>11 DEF Check, Goto
    <3>2. \/ Settle("failed", "cancelled")
          \/ \E result : Settle("done", result)
      BY <1>11 DEF Check
    <3> QED
      BY <3>1, <3>2
  <2>2. IsJournal(journal') /\ Continues(journal, journal')
    <3>1. /\ turn.cursor \in 1..Len(journal) /\ Step.kind = "model" /\ Step.state = "running"
      BY <2>1 DEF ReplayInv, UnderWay
    <3> QED
      BY <2>1, <3>1, CallSettles
  <2> QED
    BY <2>1, <2>2, StaysThere DEF Resting
<1>12. CASE AskTeam
  <2> DEFINE asked == TeamStep(requests(input, turn))
  <2>1. /\ AtTeam /\ ~Replaying /\ UNCHANGED <<input, turn, outcome>>
        /\ journal' = Append(journal, asked) /\ pc = "tools" /\ pc' = "waiting"
    BY <1>12 DEF AskTeam, AtTeam, Goto
  <2>2. /\ IsTurn(turn) /\ Passes(input, journal, Here) /\ IsJournal(journal)
        /\ turn.attempt = 1
    BY <2>1 DEF ReplayInv, OnTheWay
  <2>3. Here = At("tools", turn) /\ Here' = Here
    BY <2>1, <2>2, RestAlike DEF Here, Resting
  <2>4. Here.pc = "tools" /\ Here.turn = turn
    BY <2>3 DEF At
  <2>5. turn.cursor = Len(journal) + 1
    BY <2>1, <2>2, <2>4, PassesPlace DEF Replaying
  <2>6. Asks(input, Here) /\ AskedAt(input, Here, asked) /\ asked.kind = "team"
    BY <2>1, <2>4 DEF AtTeam, Asks, AskedAt, TeamStep
  <2>7. StepForm(asked)
    BY DEF StepForm, TeamStep
  <2> HIDE DEF asked
  <2>8. /\ IsJournal(journal') /\ Len(journal') = Len(journal) + 1 /\ Len(journal) \in Nat
        /\ journal'[Len(journal) + 1] = asked
    BY <2>1, <2>2, <2>7, JournalGrows
  <2>9. Passes(input, journal', Here)
    <3>1. PICK S : journal \in Seq(S)
      BY <2>2 DEF IsJournal
    <3> QED
      BY <2>1, <2>2, <2>4, <2>5, <2>6, <3>1, WayAsked
  <2>10. Passes(input, journal, Here)'
    BY <2>1, <2>3, <2>9
  <2>11. journal' # <<>> /\ journal'[Len(journal')].kind = "team"
    BY <2>6, <2>8
  <2> QED
    BY <2>1, <2>2, <2>8, <2>10, <2>11
    DEF ReplayInv, OnTheWay, UnderWay, ReplaySame, Places
<1>13. CASE Rewait
  <2>1. AtTeam /\ Replaying /\ ~AllAnswered /\ UNCHANGED <<input, journal, turn>> /\ pc = "tools"
    BY <1>13 DEF Rewait, AtTeam
  <2>2. turn.cursor \in 1..Len(journal) /\ SameBatch
    BY <2>1, BatchAgrees
  <2>3. pc' = "waiting" /\ outcome' = outcome
    BY <1>13, <2>2 DEF Rewait, Goto
  <2>4. Passes(input, journal, Here) /\ Here' = Here
    BY <2>1, <2>3 DEF ReplayInv, OnTheWay, Here, Resting
  <2>5. ~Over(journal[turn.cursor]) /\ journal[turn.cursor].kind = "team"
    BY <2>1, <2>2 DEF AllAnswered, SameBatch, Over, Step
  <2>6. turn.cursor = Len(journal)
    BY <2>2, <2>4, <2>5, OpenIsLast
  <2>7. journal # <<>>
    BY <2>2
  <2>8. Passes(input, journal, Here)'
    BY <2>1, <2>4
  <2> QED
    BY <2>1, <2>3, <2>5, <2>6, <2>7, <2>8
    DEF ReplayInv, OnTheWay, UnderWay, ReplaySame, Places
<1>14. CASE Resume
  <2> DEFINE last == Len(journal)
  <2>1. /\ pc = "waiting" /\ pc' = "model" /\ turn' = Fresh(input)
        /\ UNCHANGED <<input, outcome>>
    BY <1>14, Zenon DEF Resume, Goto
  <2>2. PICK ids \in (SUBSET (Ids(journal[last]) \ DOMAIN journal[last].results)) \ {{}} : TRUE
    BY <1>14, Zenon DEF Resume
  <2>3. DOMAIN journal[last].results # Ids(journal[last])
    BY <2>2
  <2>4. PICK results : journal' = [journal EXCEPT ![last].results = results]
    BY <1>14, Zenon DEF Resume
  <2>5. journal # <<>> /\ journal[last].kind = "team" /\ IsJournal(journal)
    BY <2>1 DEF ReplayInv, UnderWay
  <2>6. last \in 1..Len(journal)
    <3>1. PICK S : journal \in Seq(S)
      BY <2>5 DEF IsJournal
    <3> QED
      BY <2>5, <3>1
  <2>7. ~Over(journal[last])
    BY <2>3, <2>5 DEF Over
  <2> HIDE DEF last
  <2>8. IsJournal(journal') /\ Continues(journal, journal')
    <3> DEFINE F == [journal EXCEPT ![last].results = results]
    <3>1. IsJournal(F) /\ Continues(journal, F)
      BY <2>5, <2>6, <2>7, ResultsChange
    <3> HIDE DEF F
    <3> QED
      BY <2>4, <3>1 DEF F
  <2> QED
    BY <2>1, <2>8, StartsAgain
<1>15. CASE Unproposed \/ Confirm
  <2>1. /\ pc = "check" /\ pc' = "done" /\ UNCHANGED <<input, journal, turn>>
        /\ \/ outcome' = turn.settled
           \/ \E kept : outcome' = [turn.settled EXCEPT !.memory = kept]
    BY <1>15 DEF Unproposed, Confirm, End, Goto
  <2>2. IsTurn(turn) /\ IsPlace(Here) /\ Here = At("check", Rest(turn))
    BY <2>1, PassesPlace DEF ReplayInv, OnTheWay, Here, Resting
  <2>3. Whole(turn.settled)
    BY <2>2, RestAlike DEF IsPlace, At
  <2>4. outcome'.kind = "completed"
    <3>1. PICK reply, clarification, routine :
            turn.settled = Settled(reply, clarification, routine)
      BY <2>3 DEF Whole
    <3> DEFINE settled == Settled(reply, clarification, routine)
               members == {"kind", "reply", "clarification", "routine", "memory"}
    <3>2. settled = [x \in members |-> settled[x]] /\ settled.kind = "completed"
      BY DEF Settled
    <3> HIDE DEF settled
    <3>3. \A kept : [settled EXCEPT !.memory = kept].kind = "completed"
      BY <3>2, Zenon
    <3>4. turn.settled = settled
      BY <3>1 DEF settled
    <3> QED
      BY <2>1, <3>2, <3>3, <3>4, Zenon
  <2> QED
    BY <2>1, <2>4 DEF ReplayInv, OnTheWay, UnderWay, ReplaySame, Places
<1>16. CASE Crash
  BY <1>16, ContinuesItself, StartsAgain DEF Crash, Goto, ReplayInv
<1>17. CASE UNCHANGED vars
  <2>1. Here' = Here
    BY <1>17 DEF vars, Here
  <2> QED
    BY <1>17, <2>1 DEF vars, ReplayInv, OnTheWay, UnderWay, ReplaySame, Step
<1> QED
  BY <1>1, <1>2, <1>3, <1>4, <1>5, <1>6, <1>7, <1>8, <1>9, <1>10, <1>11, <1>12,
     <1>13, <1>14, <1>15, <1>16, <1>17 DEF Next

(* Whatever the model and Team answer and wherever the process is cut off, *)
(* a turn that is executed again asks what it asked (ctx.rs: run_step;     *)
(* definition.rs: Turn::new, interrupt_id_next).                           *)
THEOREM TurnsReplay == Spec => []ReplaySame
PROOF
<1>1. ReplayInv => ReplaySame
  BY DEF ReplayInv
<1> QED
  BY <1>1, Init_Replay, Next_Replay, PTL DEF Spec

-----------------------------------------------------------------------------
(* The guards over an answer *)

(* What a guard may rule. *)
IsRuling(ruling) == ruling = Run \/ ruling.kind \in {"contract", "refused", "recorded"}

LEMMA LoneCallRules ==
  ASSUME NEW latest, NEW tool, NEW mixed, NEW alone, IsRuling(alone)
  PROVE  IsRuling(LoneCall(latest, tool, mixed, alone))
PROOF
<1>1. LoneCall(latest, tool, mixed, alone) \in {Run, Unparsable, alone, Refused(mixed)}
  BY DEF LoneCall
<1> QED
  BY <1>1 DEF IsRuling, Unparsable, Refused

LEMMA GuardsRule ==
  ASSUME NEW i, NEW t
  PROVE  /\ IsRuling(review_after(t.messages))
         /\ IsRuling(review_alone(t.messages))
         /\ IsRuling(ReviewRerun(t.messages, i.rerun))
         /\ IsRuling(ReviewRoutine(t.messages))
         /\ IsRuling(ReviewMemory(t.messages, t.first_segment))
         /\ IsRuling(ReviewClarification(t.messages, t.first_segment, i.routine_mode))
PROOF
<1>1. /\ IsRuling(Run) /\ IsRuling(Unparsable)
      /\ \A correction : IsRuling(Refused(correction))
      /\ \A record : IsRuling(Recorded(record))
  BY DEF IsRuling, Unparsable, Refused, Recorded
<1>2. IsRuling(review_after(t.messages))
  BY <1>1 DEF review_after
<1>3. IsRuling(review_alone(t.messages))
  BY <1>1, LoneCallRules DEF review_alone
<1>4. IsRuling(ReviewRerun(t.messages, i.rerun))
  <2>1. \/ ReviewRerun(t.messages, i.rerun) \in {Run, Unparsable}
        \/ ReviewRerun(t.messages, i.rerun) = Refused("rerun")
    BY DEF ReviewRerun
  <2> QED
    BY <1>1, <2>1
<1>5. IsRuling(ReviewRoutine(t.messages))
  BY <1>1, LoneCallRules DEF ReviewRoutine
<1>6. IsRuling(ReviewMemory(t.messages, t.first_segment))
  <2>1. \/ ReviewMemory(t.messages, t.first_segment) = Run
        \/ \E correction : ReviewMemory(t.messages, t.first_segment) = Refused(correction)
    BY DEF ReviewMemory
  <2> QED
    BY <1>1, <2>1
<1>7. IsRuling(ReviewClarification(t.messages, t.first_segment, i.routine_mode))
  BY <1>1, LoneCallRules DEF ReviewClarification
<1> QED
  BY <1>2, <1>3, <1>4, <1>5, <1>6, <1>7

LEMMA LeastOfSix ==
  ASSUME NEW S \in SUBSET (1..6), S # {}
  PROVE  Min(S) \in S
PROOF
<1>1. \E x \in S : \A y \in S : x <= y
  <2>1. CASE 1 \in S
    BY <2>1
  <2>2. CASE 1 \notin S /\ 2 \in S
    BY <2>2
  <2>3. CASE S \cap 1..2 = {} /\ 3 \in S
    BY <2>3
  <2>4. CASE S \cap 1..3 = {} /\ 4 \in S
    BY <2>4
  <2>5. CASE S \cap 1..4 = {} /\ 5 \in S
    <3>1. \A y \in S : y \notin 1..4
      BY <2>5
    <3>2. \A y \in S : 5 <= y
      BY <3>1
    <3> QED
      BY <2>5, <3>2
  <2>6. CASE S \cap 1..4 = {} /\ 5 \notin S
    <3>1. \A y \in S : y \notin 1..4 /\ y # 5
      BY <2>6
    <3>2. S \subseteq {6}
      BY <3>1
    <3>3. S = {6}
      BY <3>2
    <3> QED
      BY <3>3
  <2> QED
    BY <2>1, <2>2, <2>3, <2>4, <2>5, <2>6
<1> QED
  BY <1>1 DEF Min

LEMMA Joined ==
  ASSUME NEW S, NEW s \in Seq(S), NEW u \in Seq(S)
  PROVE  /\ s \o u \in Seq(S) /\ Len(s \o u) = Len(s) + Len(u)
         /\ \A k \in 1..Len(s) : (s \o u)[k] = s[k]
         /\ Len(u) = 1 => (s \o u)[Len(s) + 1] = u[1]
PROOF
  OBVIOUS

(* The sequence of the guards: at most six rulings, the Browser's among    *)
(* them when it is offered.                                                *)
LEMMA GuardsList ==
  ASSUME NEW i, NEW t
  PROVE  /\ Len(guards(i, t)) \in 1..6 /\ DOMAIN guards(i, t) = 1..Len(guards(i, t))
         /\ \A k \in 1..Len(guards(i, t)) : IsRuling(guards(i, t)[k])
         /\ i.browser => \E k \in 1..Len(guards(i, t)) : guards(i, t)[k] = review_alone(t.messages)
PROOF
<1> DEFINE after == review_after(t.messages)
           alone == review_alone(t.messages)
           rerun == ReviewRerun(t.messages, i.rerun)
           routine == ReviewRoutine(t.messages)
           memory == ReviewMemory(t.messages, t.first_segment)
           asks == ReviewClarification(t.messages, t.first_segment, i.routine_mode)
           S == {after, alone, rerun, routine, memory, asks}
           a == Guard(t.after_browser, after)
           b == Guard(i.browser, alone)
           c == Guard(i.rerun # None, rerun)
           d == Guard(i.routine_tool, routine)
           e == Guard(i.memory_tool, memory)
           f == <<asks>>
<1>1. \A ruling \in S : IsRuling(ruling)
  BY GuardsRule
<1>2. /\ after \in S /\ alone \in S /\ rerun \in S /\ routine \in S /\ memory \in S /\ asks \in S
  OBVIOUS
<1>3. guards(i, t) = a \o b \o c \o d \o e \o f
  BY DEF guards
<1> HIDE DEF after, alone, rerun, routine, memory, asks, S
<1>4. \A active, ruling : ruling \in S =>
        /\ Guard(active, ruling) \in Seq(S) /\ Len(Guard(active, ruling)) <= 1
        /\ active => Len(Guard(active, ruling)) = 1 /\ Guard(active, ruling)[1] = ruling
  BY DEF Guard
<1>5. /\ a \in Seq(S) /\ Len(a) <= 1
      /\ b \in Seq(S) /\ Len(b) <= 1 /\ (i.browser => Len(b) = 1 /\ b[1] = alone)
      /\ c \in Seq(S) /\ Len(c) <= 1
      /\ d \in Seq(S) /\ Len(d) <= 1
      /\ e \in Seq(S) /\ Len(e) <= 1
      /\ f \in Seq(S) /\ Len(f) = 1
  BY <1>2, <1>4
<1> HIDE DEF a, b, c, d, e, f
<1> DEFINE ab == a \o b
           ac == ab \o c
           ad == ac \o d
           ae == ad \o e
           af == ae \o f
           place == Len(a) + 1
<1>6. /\ ab \in Seq(S) /\ Len(ab) <= 2
      /\ i.browser => place \in 1..Len(ab) /\ ab[place] = alone
  <2>1. ab \in Seq(S) /\ Len(ab) = Len(a) + Len(b) /\ (Len(b) = 1 => ab[place] = b[1])
    BY <1>5, Joined
  <2> HIDE DEF ab
  <2> QED
    BY <1>5, <2>1
<1> HIDE DEF ab, place
<1>7. /\ ac \in Seq(S) /\ Len(ac) <= 3
      /\ \A n \in 1..Len(ab) : n \in 1..Len(ac) /\ ac[n] = ab[n]
  <2>1. /\ ac \in Seq(S) /\ Len(ac) = Len(ab) + Len(c)
        /\ \A n \in 1..Len(ab) : ac[n] = ab[n]
    BY <1>5, <1>6, Joined
  <2> HIDE DEF ac
  <2> QED
    BY <1>5, <1>6, <2>1
<1> HIDE DEF ac
<1>8. /\ ad \in Seq(S) /\ Len(ad) <= 4
      /\ \A n \in 1..Len(ac) : n \in 1..Len(ad) /\ ad[n] = ac[n]
  <2>1. /\ ad \in Seq(S) /\ Len(ad) = Len(ac) + Len(d)
        /\ \A n \in 1..Len(ac) : ad[n] = ac[n]
    BY <1>5, <1>7, Joined
  <2> HIDE DEF ad
  <2> QED
    BY <1>5, <1>7, <2>1
<1> HIDE DEF ad
<1>9. /\ ae \in Seq(S) /\ Len(ae) <= 5
      /\ \A n \in 1..Len(ad) : n \in 1..Len(ae) /\ ae[n] = ad[n]
  <2>1. /\ ae \in Seq(S) /\ Len(ae) = Len(ad) + Len(e)
        /\ \A n \in 1..Len(ad) : ae[n] = ad[n]
    BY <1>5, <1>8, Joined
  <2> HIDE DEF ae
  <2> QED
    BY <1>5, <1>8, <2>1
<1> HIDE DEF ae
<1>10. /\ af \in Seq(S) /\ Len(af) >= 1 /\ Len(af) <= 6
       /\ \A n \in 1..Len(ae) : n \in 1..Len(af) /\ af[n] = ae[n]
  <2>1. /\ af \in Seq(S) /\ Len(af) = Len(ae) + Len(f)
        /\ \A n \in 1..Len(ae) : af[n] = ae[n]
    <3>1. ae \in Seq(S) /\ f \in Seq(S)
      BY <1>5, <1>9
    <3> QED
      BY <3>1, Joined
  <2> HIDE DEF af
  <2> QED
    BY <1>5, <1>9, <2>1
<1>11. guards(i, t) = af
  BY <1>3 DEF ab, ac, ad, ae
<1> HIDE DEF af
<1>12. i.browser => place \in 1..Len(af) /\ af[place] = alone
  <2> HIDE DEF place
  <2> SUFFICES ASSUME i.browser PROVE place \in 1..Len(af) /\ af[place] = alone
    OBVIOUS
  <2>1. place \in 1..Len(ac) /\ ac[place] = alone
    BY <1>6, <1>7
  <2>2. place \in 1..Len(ad) /\ ad[place] = alone
    BY <1>8, <2>1
  <2>3. place \in 1..Len(ae) /\ ae[place] = alone
    BY <1>9, <2>2
  <2> QED
    BY <1>10, <2>3
<1>13. DOMAIN af = 1..Len(af) /\ \A n \in 1..Len(af) : af[n] \in S
  BY <1>10
<1>14. Len(af) \in 1..6
  <2>1. Len(af) \in Nat
    BY <1>10
  <2>2. Len(af) >= 1 /\ Len(af) <= 6
    BY <1>10
  <2> SUFFICES \A m \in Nat : m >= 1 /\ m <= 6 => m \in 1..6
    BY <2>1, <2>2, Zenon
  <2> QED
    OBVIOUS
<1>15. \A n \in 1..Len(af) : IsRuling(af[n])
  BY <1>1, <1>13, Zenon
<1> USE DEF alone
<1>16. i.browser => \E n \in 1..Len(af) : af[n] = review_alone(t.messages)
  BY <1>12, Zenon
<1> QED
  BY <1>11, <1>13, <1>14, <1>15, <1>16, Zenon

(* Calls run only when no guard objects: Browser is then the only one. *)
LEMMA BrowserAlone ==
  ASSUME NEW i, NEW t, i.browser, review(i, t).pc = "tools",
         NEW k \in DOMAIN Calls(t), Calls(t)[k].name = Browser
  PROVE  DOMAIN Calls(t) = {1}
PROOF
<1> DEFINE rulings == guards(i, t)
           stops == {n \in DOMAIN rulings : rulings[n] # Run}
           ruling == rulings[Taken(rulings)]
<1>1. ruling.kind \notin {"contract", "refused", "recorded"}
  <2>1. \/ ruling.kind \notin {"contract", "refused", "recorded"}
        \/ review(i, t) \in {Failing("provider"), Failing("contract")}
        \/ \E u : review(i, t) \in {At("model", u), At("settle", u)}
    BY DEF review
  <2> QED
    BY <2>1 DEF Failing, At
<1>2. /\ Len(rulings) \in 1..6 /\ DOMAIN rulings = 1..Len(rulings)
      /\ \A n \in 1..Len(rulings) : IsRuling(rulings[n])
      /\ \E n \in 1..Len(rulings) : rulings[n] = review_alone(t.messages)
  BY GuardsList
<1>3. Taken(rulings) = IF stops = {} THEN Len(rulings) ELSE Min(stops)
  BY DEF Taken
<1> HIDE DEF rulings
<1>4. stops = {}
  <2> SUFFICES ASSUME stops # {} PROVE FALSE
    OBVIOUS
  <2>1. stops \in SUBSET (1..6)
    BY <1>2
  <2>2. Min(stops) \in stops
    BY <2>1, LeastOfSix
  <2>3. ruling # Run /\ IsRuling(ruling)
    BY <1>2, <1>3, <2>2
  <2> QED
    BY <1>1, <2>3 DEF IsRuling
<1>5. review_alone(t.messages) = Run
  BY <1>2, <1>4
<1>6. Browser \in Names(Latest(t.messages))
  BY DEF Names, Calls
<1>7. DOMAIN Latest(t.messages).calls = {1}
  <2>1. Unparsable # Run /\ \A correction : Refused(correction) # Run
    BY DEF Unparsable, Run, Refused
  <2> QED
    BY <1>5, <1>6, <2>1 DEF review_alone, LoneCall
<1> QED
  BY <1>7 DEF Calls

-----------------------------------------------------------------------------
(* The Browser comes last *)

(* The tools of a turn hold the Browser only when it is offered. *)
LEMMA BrowserOffered ==
  ASSUME NEW r
  PROVE  Browser \in Offered(Input(r)) => Input(r).browser
PROOF
<1> SUFFICES ASSUME Browser \in Offered(Input(r)) PROVE Input(r).browser
  OBVIOUS
<1> DEFINE reads == reads_content(r.attachments)
<1>1. /\ Input(r).tools = surface(r).tools
      /\ Input(r).browser = surface(r).browser
  BY DEF Input
<1>2. PICK tool \in surface(r).tools : tool.name = Browser
  BY <1>1 DEF Offered
<1>3. surface(r).browser = browser_offered(r)
  BY DEF surface
<1> DEFINE actions == UNION {ActionTools(assistant, reads) : assistant \in Exposed(r)}
           clarify == Own(TRUE, "clarify")
           browser == Own(browser_offered(r), "browser")
           memory == Own(r.attachments = <<>> /\ r.memories # None, "memory")
           routine == Own(r.routines # None, "routine")
<1>4. surface(r).tools = actions \cup clarify \cup browser \cup memory \cup routine
  BY DEF surface
<1>5. tool \notin actions
  <2>1. \A x, y : <<x, y>> # Browser
    <3> SUFFICES ASSUME NEW x, NEW y, <<x, y>> = Browser PROVE FALSE
      OBVIOUS
    <3>1. Len(<<x, y>>) = 2 /\ Len(Browser) = 1
      BY DEF Browser
    <3> QED
      BY <3>1
  <2>2. \A assistant : tool \notin ActionTools(assistant, reads)
    BY <1>2, <2>1 DEF ActionTools, Tool
  <2> QED
    BY <2>2
<1>6. tool \notin clarify /\ tool \notin memory /\ tool \notin routine
  <2>1. <<"clarify">> # Browser /\ <<"memory">> # Browser /\ <<"routine">> # Browser
    BY DEF Browser
  <2> QED
    BY <1>2, <2>1 DEF Own, Tool
<1>7. tool \in browser => browser_offered(r)
  BY DEF Own
<1> HIDE DEF actions, clarify, browser, memory, routine
<1> QED
  BY <1>1, <1>2, <1>3, <1>4, <1>5, <1>6, <1>7

(* Calls come to the tools through the guards. *)
LEMMA ToolsReviewed ==
  ASSUME NEW i, NEW E, Len(E) \in Nat, NEW p, IsPlace(p), NEW q, Moves(i, E, p, q),
         q.pc = "tools"
  PROVE  review(i, p.turn).pc = "tools" /\ Calls(q.turn) = Calls(p.turn)
PROOF
<1>1. IsTurn(p.turn) /\ q.pc # "failed"
  BY DEF IsPlace
<1>2. ~ByModel(E, p, q)
  <2> SUFFICES ASSUME ByModel(E, p, q) PROVE FALSE
    OBVIOUS
  <2>1. PICK message : q = received(p.turn, message)
    BY DEF ByModel
  <2>2. q.pc = "review"
    BY <1>1, <2>1, ReceivedMoves DEF At
  <2> QED
    BY <2>2
<1>3. ~ByTeam(i, E, p, q)
  <2> SUFFICES ASSUME ByTeam(i, E, p, q) PROVE FALSE
    OBVIOUS
  <2>1. PICK results : q = told(i, p.turn, results)
    BY DEF ByTeam
  <2>2. q.pc \in {"model", "settle"}
    BY <1>1, <2>1, ToldMoves, Zenon
  <2> QED
    BY <2>2
<1>4. p.pc = "review" /\ q = review(i, p.turn)
  BY <1>1, <1>2, <1>3, RunToolsMoves, SettleMoves DEF Moves, ByItself, At
<1> DEFINE t == p.turn
           stepped == take_steps(t, Taken(guards(i, t)))
<1>5. q = At("tools", take_steps(stepped, 1))
  <2>1. \/ review(i, t) \in {Failing("provider"), Failing("contract")}
        \/ \E u : review(i, t) \in {At("model", u), At("settle", u)}
        \/ review(i, t) = At("tools", take_steps(stepped, 1))
    BY DEF review
  <2> DEFINE to == review(i, t)
             on == take_steps(stepped, 1)
  <2>2. q = to /\ to.pc = "tools"
    BY <1>4
  <2> HIDE DEF stepped, t, to, on
  <2>3. \/ to \in {Failing("provider"), Failing("contract")}
        \/ \E u : to \in {At("model", u), At("settle", u)}
        \/ to = At("tools", on)
    BY <2>1 DEF to, on
  <2> QED
    BY <2>2, <2>3 DEF Failing, At, on
<1>6. take_steps(stepped, 1).messages = t.messages
  BY <1>1, Zenon DEF IsTurn, Fields, take_steps
<1> HIDE DEF stepped
<1> QED
  BY <1>4, <1>5, <1>6 DEF At, Calls

(* On the way of a turn, a Browser task is alone and nothing follows it.   *)
LEMMA WayBrowserLast ==
  ASSUME NEW i, Browser \in Offered(i) => i.browser,
         NEW E, NEW p, Passes(i, E, p),
         NEW c \in 1..Len(E), E[c].kind = "team",
         NEW k \in DOMAIN E[c].requests, E[c].requests[k].call.name = Browser
  PROVE  /\ DOMAIN E[c].requests = {k}
         /\ \A d \in 1..Len(E) : E[d].kind = "team" => d <= c
PROOF
<1>1. PICK n, C : Way(i, E, C, n)
  BY DEF Passes
<1>2. n \in Nat \ {0} /\ Len(E) \in Nat
  BY <1>1 DEF Way
<1>3. PICK l \in 1..n : Asks(i, C[l]) /\ C[l].turn.cursor = c /\ AskedAt(i, C[l], E[c])
  BY <1>1 DEF Way
<1> DEFINE t == C[l].turn
<1>4. C[l].pc = "tools" /\ E[c].requests = requests(i, t)
  BY <1>3 DEF Asks, AskedAt
<1>5. DOMAIN requests(i, t) = ForTeam(i, t) /\ \A j \in ForTeam(i, t) : requests(i, t)[j].call = Calls(t)[j]
  BY DEF requests
<1>6. k \in ForTeam(i, t) /\ Calls(t)[k].name = Browser /\ AsksBrowser(i, t)
  BY <1>4, <1>5 DEF AsksBrowser
<1>7. DOMAIN E[c].requests = {k}
  <2>1. i.browser
    <3>1. answer(i, t, Calls(t)[k]) = "team"
      BY <1>6 DEF ForTeam
    <3>2. Known(i, t, Calls(t)[k])
      BY <3>1 DEF answer
    <3> QED
      BY <1>6, <3>2 DEF Known
  <2>2. l # 1
    BY <1>1, <1>4 DEF Way, At
  <2>3. l - 1 \in 1..n /\ l - 1 < n /\ (l - 1) + 1 = l
    BY <1>2, <2>2
  <2> DEFINE q == C[l - 1]
  <2>4. IsPlace(q) /\ Moves(i, E, q, C[l])
    BY <1>1, <2>3 DEF Way
  <2>5. review(i, q.turn).pc = "tools" /\ Calls(t) = Calls(q.turn)
    BY <1>2, <1>4, <2>4, ToolsReviewed
  <2>6. k \in DOMAIN Calls(t)
    BY <1>6 DEF ForTeam
  <2>7. DOMAIN Calls(t) = {1}
    BY <1>6, <2>1, <2>5, <2>6, BrowserAlone
  <2>8. ForTeam(i, t) \subseteq DOMAIN Calls(t)
    BY DEF ForTeam
  <2>9. ForTeam(i, t) = {k}
    BY <1>6, <2>6, <2>7, <2>8
  <2> QED
    BY <1>4, <1>5, <2>9
<1>8. ASSUME NEW d \in 1..Len(E), E[d].kind = "team" PROVE d <= c
  <2> SUFFICES ASSUME c < d PROVE FALSE
    BY <1>2
  <2>1. PICK m \in 1..n : Asks(i, C[m]) /\ C[m].turn.cursor = d /\ AskedAt(i, C[m], E[d])
    BY <1>1 DEF Way
  <2>2. C[m].pc = "tools" /\ ForTeam(i, C[m].turn) # {}
    BY <1>8, <2>1 DEF Asks, AskedAt
  <2>3. m # l
    BY <1>3, <1>8, <2>1
  <2>4. Before(i, C[l], C[m])
    <3>1. \A a \in 1..n, b \in 1..n : a < b => Before(i, C[a], C[b])
      BY <1>1 DEF Way
    <3>2. ~(m < l)
      <4> SUFFICES ASSUME m < l PROVE FALSE
        OBVIOUS
      <4>1. Before(i, C[m], C[l])
        BY <1>2, <3>1
      <4> QED
        BY <1>2, <1>3, <1>8, <2>1, <4>1 DEF Before
    <3>3. l < m
      BY <1>1, <1>2, <2>3, <3>2 DEF Way
    <3> QED
      BY <1>2, <3>1, <3>3
  <2>5. Closes(i, C[l])
    BY <1>3, <1>4, <1>6 DEF Closes
  <2>6. C[m].turn.after_browser
    BY <2>4, <2>5 DEF Before
  <2> QED
    BY <2>2, <2>6, NothingAfterBrowser
<1> QED
  BY <1>7, <1>8

Offering == pc \notin {"idle", "done"} => (Browser \in Offered(input) => input.browser)

BrowserInv == ReplayInv /\ Offering /\ BrowserLast

(* What the journal holds of a run that goes on is on its way. *)
LEMMA OnTheWayLast ==
  ReplayInv /\ Offering /\ pc \notin {"idle", "done"} => BrowserLast
PROOF
<1> SUFFICES ASSUME ReplayInv, Offering, pc \notin {"idle", "done"} PROVE BrowserLast
  OBVIOUS
<1>1. Passes(input, journal, Here) /\ IsJournal(journal)
  BY DEF ReplayInv, OnTheWay
<1>2. DOMAIN journal = 1..Len(journal) /\ Len(journal) \in Nat
  BY <1>1 DEF IsJournal
<1>3. Browser \in Offered(input) => input.browser
  BY DEF Offering
<1> QED
  BY <1>1, <1>2, <1>3, WayBrowserLast DEF BrowserLast, TeamSteps

(* The input is captured at the start, and an end adds nothing. *)
LEMMA InputKept ==
  ASSUME Next
  PROVE  /\ \/ input' = input /\ (pc' \notin {"idle", "done"} => pc \notin {"idle", "done"})
            \/ \E r : input' = Input(r)
            \/ pc' = "done"
         /\ pc' \in {"idle", "done"} => journal' = journal
PROOF
<1>1. ASSUME NEW r, Start(r)
      PROVE  /\ pc' = "done" \/ input' = Input(r)
             /\ journal' = journal
  BY <1>1 DEF Start, Fail, End, Goto
<1>2. CASE Dispatch \/ Interrupted \/ Failed \/ Receive \/ Exceed
  BY <1>2 DEF Dispatch, Interrupted, Failed, Receive, Exceed, AtCall, GoOn, Fail, End, Goto
<1>3. CASE Refuse \/ Attempt \/ Retry \/ GiveUpCall
  BY <1>3 DEF Refuse, Attempt, Retry, GiveUpCall, Goto
<1>4. ASSUME NEW body, Answer(body)
      PROVE  pc = "sending" /\ pc' = "model" /\ input' = input
  BY <1>4 DEF Answer, Goto
<1>5. CASE Review \/ RunTools \/ TeamAnswered \/ SettleTurn
  BY <1>5 DEF Review, RunTools, TeamAnswered, AtTeam, SettleTurn, GoOn, Fail, End, Goto
<1>6. CASE AskTeam \/ Rewait
  BY <1>6 DEF AskTeam, Rewait, AtTeam, Fail, End, Goto
<1>7. CASE Resume
  BY <1>7, Zenon DEF Resume, Goto
<1>8. CASE Check \/ Unproposed \/ Confirm
  BY <1>8 DEF Check, Unproposed, Confirm, AtCall, End, Goto
<1>9. CASE Crash
  BY <1>9 DEF Crash, Goto
<1> QED
  BY <1>1, <1>2, <1>3, <1>4, <1>5, <1>6, <1>7, <1>8, <1>9 DEF Next

LEMMA Next_Browser == BrowserInv /\ [Next]_vars => BrowserInv'
PROOF
<1> SUFFICES ASSUME BrowserInv, [Next]_vars PROVE BrowserInv'
  OBVIOUS
<1>1. ReplayInv'
  BY Next_Replay DEF BrowserInv
<1>2. CASE UNCHANGED vars
  <2>1. Offering' /\ BrowserLast'
    BY <1>2 DEF vars, BrowserInv, Offering, BrowserLast, TeamSteps
  <2> QED
    BY <1>1, <2>1 DEF BrowserInv
<1>3. CASE Next
  <2>1. Offering'
    <3>1. \A r : input' = Input(r) => Offering'
      BY BrowserOffered DEF Offering
    <3>2. input' = input /\ (pc' \notin {"idle", "done"} => pc \notin {"idle", "done"}) => Offering'
      BY DEF BrowserInv, Offering
    <3>3. pc' = "done" => Offering'
      BY DEF Offering
    <3> QED
      BY <1>3, <3>1, <3>2, <3>3, InputKept
  <2>2. CASE pc' \in {"idle", "done"}
    <3>1. journal' = journal
      BY <1>3, <2>2, InputKept
    <3>2. BrowserLast'
      BY <3>1 DEF BrowserInv, BrowserLast, TeamSteps
    <3> QED
      BY <1>1, <2>1, <3>2 DEF BrowserInv
  <2>3. CASE pc' \notin {"idle", "done"}
    <3>1. (ReplayInv /\ Offering /\ pc \notin {"idle", "done"} => BrowserLast)'
      BY OnTheWayLast, PTL
    <3> QED
      BY <1>1, <2>1, <2>3, <3>1 DEF BrowserInv
  <2> QED
    BY <2>2, <2>3
<1> QED
  BY <1>2, <1>3

(* However the run is cut off and driven again, a Browser task is the only *)
(* request of its batch and the last thing the turn asks of Team           *)
(* (browser.rs: review_alone, review_after; step.rs: answer): nothing read *)
(* on the web leads to an Action.                                          *)
THEOREM BrowserComesLast == Spec => []BrowserLast
PROOF
<1>1. Init => BrowserInv
  BY Init_Replay DEF Init, BrowserInv, Offering, BrowserLast, TeamSteps
<1>2. BrowserInv => BrowserLast
  BY DEF BrowserInv
<1> QED
  BY <1>1, <1>2, Next_Browser, PTL DEF Spec

-----------------------------------------------------------------------------
(* Lists and sums *)

(* A sequence, whatever it holds. *)
IsList(s) == Len(s) \in Nat /\ s = [k \in 1..Len(s) |-> s[k]]

(* A function over the first numbers is a list of that length. *)
LEMMA ListOf ==
  ASSUME NEW s, NEW n \in Nat, s = [k \in 1..n |-> s[k]]
  PROVE  IsList(s) /\ Len(s) = n /\ DOMAIN s = 1..n
PROOF
<1> DEFINE S == {s[k] : k \in 1..n}
<1>1. s \in [1..n -> S] /\ DOMAIN s = 1..n
  OBVIOUS
<1>2. s \in Seq(S)
  BY <1>1
<1>3. Len(s) = n
  BY <1>1, <1>2
<1> QED
  BY <1>1, <1>3 DEF IsList

LEMMA ListElements ==
  ASSUME NEW s, IsList(s)
  PROVE  /\ s \in Seq({s[k] : k \in 1..Len(s)}) /\ DOMAIN s = 1..Len(s)
         /\ Len(s) \in Nat
PROOF
<1> DEFINE S == {s[k] : k \in 1..Len(s)}
           n == Len(s)
<1>1. s = [k \in 1..n |-> s[k]] /\ n \in Nat
  BY DEF IsList
<1>2. s \in [1..n -> S] /\ DOMAIN s = 1..n
  BY <1>1
<1> QED
  BY <1>1, <1>2

LEMMA SeqIsList ==
  ASSUME NEW S, NEW s \in Seq(S)
  PROVE  IsList(s)
PROOF BY DEF IsList

(* One list after another. *)
LEMMA ListsJoin ==
  ASSUME NEW a, IsList(a), NEW b, IsList(b)
  PROVE  /\ IsList(a \o b) /\ Len(a \o b) = Len(a) + Len(b)
         /\ \A k \in 1..Len(a) : (a \o b)[k] = a[k]
         /\ \A k \in Len(a) + 1..Len(a) + Len(b) : (a \o b)[k] = b[k - Len(a)]
PROOF
<1> DEFINE S == {a[k] : k \in 1..Len(a)} \cup {b[k] : k \in 1..Len(b)}
<1>1. a \in Seq(S) /\ b \in Seq(S)
  <2>1. a \in Seq({a[k] : k \in 1..Len(a)}) /\ b \in Seq({b[k] : k \in 1..Len(b)})
    BY ListElements
  <2> QED
    BY <2>1
<1> HIDE DEF S
<1>2. /\ a \o b \in Seq(S) /\ Len(a \o b) = Len(a) + Len(b)
      /\ \A k \in 1..Len(a) : (a \o b)[k] = a[k]
      /\ \A k \in Len(a) + 1..Len(a) + Len(b) : (a \o b)[k] = b[k - Len(a)]
  BY <1>1
<1> QED
  BY <1>2, SeqIsList

LEMMA ListGrows ==
  ASSUME NEW a, IsList(a), NEW x
  PROVE  /\ IsList(Append(a, x)) /\ Len(Append(a, x)) = Len(a) + 1
         /\ Append(a, x)[Len(a) + 1] = x
         /\ \A k \in 1..Len(a) : Append(a, x)[k] = a[k]
PROOF
<1> DEFINE S == {a[k] : k \in 1..Len(a)} \cup {x}
<1>1. a \in Seq(S)
  <2>1. a \in Seq({a[k] : k \in 1..Len(a)})
    BY ListElements
  <2> QED
    BY <2>1
<1>2. x \in S
  OBVIOUS
<1> HIDE DEF S
<1>3. /\ Append(a, x) \in Seq(S) /\ Len(Append(a, x)) = Len(a) + 1
      /\ Append(a, x)[Len(a) + 1] = x
      /\ \A k \in 1..Len(a) : Append(a, x)[k] = a[k]
  BY <1>1, <1>2
<1> QED
  BY <1>3, SeqIsList

LEMMA LeastNat ==
  ASSUME NEW T, T \subseteq Nat, T # {}
  PROVE  \E m \in T : \A n \in T : m <= n
PROOF
<1>1. PICK m \in T : \A n \in T : ~(<<n, m>> \in OpToRel(<, Nat))
  BY WFMin, NatLessThanWellFounded
<1>2. \A n \in T : ~(n < m)
  BY <1>1 DEF OpToRel
<1> QED
  BY <1>2

(* What is true of the first place, and of each when of the one before it, *)
(* is true of all.                                                         *)
LEMMA Climbs ==
  ASSUME NEW a \in Nat, NEW n \in Nat, NEW T, a \in T,
         \A k \in a + 1..n : k - 1 \in T => k \in T
  PROVE  a..n \subseteq T
PROOF
<1> DEFINE Bad == {k \in a..n : k \notin T}
<1>1. SUFFICES ASSUME Bad # {} PROVE FALSE
  OBVIOUS
<1>2. Bad \subseteq Nat
  OBVIOUS
<1>3. PICK m \in Bad : \A k \in Bad : m <= k
  BY <1>1, <1>2, LeastNat
<1>4. m \in a + 1..n
  OBVIOUS
<1>5. m - 1 \in a..n /\ m - 1 \notin Bad
  BY <1>3, <1>4
<1> QED
  BY <1>4, <1>5

(* f sums what g says of the numbers above m, up to n. *)
IsSum(f, g, m, n) == f = [k \in 0..n |-> IF k <= m THEN 0 ELSE f[k - 1] + g[k]]

Summed(g, m, n) == (CHOOSE f : IsSum(f, g, m, n))[n]

LEMMA SumExists ==
  ASSUME NEW g, NEW m \in Nat, NEW n \in Nat
  PROVE  \E f : IsSum(f, g, m, n)
PROOF
<1> DEFINE T == {k \in Nat : \E f : IsSum(f, g, m, k)}
<1>1. 0 \in T
  <2>1. IsSum([k \in 0..0 |-> 0], g, m, 0)
    BY DEF IsSum
  <2> QED
    BY <2>1
<1>2. ASSUME NEW k \in 0 + 1..n, k - 1 \in T PROVE k \in T
  <2>1. PICK f : IsSum(f, g, m, k - 1)
    BY <1>2
  <2>2. k \in Nat /\ k > 0
    BY <1>2
  <2> DEFINE h == [j \in 0..k |-> IF j = k THEN (IF k <= m THEN 0 ELSE f[k - 1] + g[k]) ELSE f[j]]
  <2>3. \A j \in 0..k : h[j] = IF j <= m THEN 0 ELSE h[j - 1] + g[j]
    <3> SUFFICES ASSUME NEW j \in 0..k
                 PROVE  h[j] = IF j <= m THEN 0 ELSE h[j - 1] + g[j]
      OBVIOUS
    <3>1. CASE j = k
      <4>1. k - 1 \in 0..k /\ k - 1 # k
        BY <2>2
      <4>2. h[k - 1] = f[k - 1]
        BY <4>1
      <4> QED
        BY <3>1, <4>2
    <3>2. CASE j # k
      <4>1. j \in 0..(k - 1)
        BY <3>2, <2>2
      <4>2. f[j] = IF j <= m THEN 0 ELSE f[j - 1] + g[j]
        BY <2>1, <4>1 DEF IsSum
      <4>3. h[j] = f[j] /\ (~(j <= m) => h[j - 1] = f[j - 1])
        BY <3>2, <4>1, <2>2
      <4> QED
        BY <4>2, <4>3
    <3> QED
      BY <3>1, <3>2
  <2>4. IsSum(h, g, m, k)
    <3>1. h = [j \in 0..k |-> h[j]]
      OBVIOUS
    <3> HIDE DEF h
    <3> QED
      BY <2>3, <3>1 DEF IsSum
  <2> QED
    BY <2>2, <2>4
<1> HIDE DEF T
<1>3. 0..n \subseteq T
  BY <1>1, <1>2, Climbs
<1> QED
  BY <1>3 DEF T

(* Sums over what agrees are the same. *)
LEMMA SumsAgree ==
  ASSUME NEW m \in Nat, NEW n \in Nat, NEW p \in Nat, n <= p,
         NEW f, NEW g, IsSum(f, g, m, n), NEW e, NEW h, IsSum(e, h, m, p),
         \A k \in 1..n : k > m => g[k] = h[k]
  PROVE  \A k \in 0..n : f[k] = e[k]
PROOF
<1> DEFINE T == {k \in 0..n : f[k] = e[k]}
<1>1. \A k \in 0..n : /\ f[k] = IF k <= m THEN 0 ELSE f[k - 1] + g[k]
                      /\ e[k] = IF k <= m THEN 0 ELSE e[k - 1] + h[k]
  BY DEF IsSum
<1>2. 0 \in T
  BY <1>1
<1>3. ASSUME NEW k \in 0 + 1..n, k - 1 \in T PROVE k \in T
  <2>1. k \in 0..n /\ k \in 1..n /\ k \in Nat /\ (~(k <= m) => k > m)
    BY <1>3
  <2>2. f[k - 1] = e[k - 1]
    BY <1>3
  <2> QED
    BY <1>1, <2>1, <2>2
<1> HIDE DEF T
<1>4. 0..n \subseteq T
  BY <1>2, <1>3, Climbs
<1> QED
  BY <1>4 DEF T

LEMMA SummedIs ==
  ASSUME NEW m \in Nat, NEW n \in Nat, NEW p \in Nat, n <= p,
         NEW g, NEW e, NEW h, IsSum(e, h, m, p),
         \A k \in 1..n : k > m => g[k] = h[k]
  PROVE  Summed(g, m, n) = e[n]
PROOF
<1> DEFINE f == CHOOSE f : IsSum(f, g, m, n)
<1>1. IsSum(f, g, m, n)
  BY SumExists
<1> HIDE DEF f
<1>2. n \in 0..n
  OBVIOUS
<1>3. f[n] = e[n]
  BY <1>1, <1>2, SumsAgree
<1> QED
  BY <1>3 DEF Summed, f

LEMMA SummedAgrees ==
  ASSUME NEW m \in Nat, NEW n \in Nat, NEW g, NEW h,
         \A k \in 1..n : k > m => g[k] = h[k]
  PROVE  Summed(g, m, n) = Summed(h, m, n)
PROOF
<1>1. PICK e : IsSum(e, h, m, n)
  BY SumExists
<1>2. Summed(h, m, n) = e[n]
  BY <1>1, SummedIs
<1>3. Summed(g, m, n) = e[n]
  BY <1>1, SummedIs
<1> QED
  BY <1>2, <1>3

LEMMA SummedOfNone ==
  ASSUME NEW m \in Nat, NEW n \in Nat, n <= m, NEW g
  PROVE  Summed(g, m, n) = 0
PROOF
<1>1. PICK f : IsSum(f, g, m, n)
  BY SumExists
<1>2. f[n] = 0
  BY <1>1 DEF IsSum
<1> QED
  BY <1>1, <1>2, SummedIs

LEMMA SummedOfOneMore ==
  ASSUME NEW m \in Nat, NEW n \in Nat, m <= n, NEW g
  PROVE  Summed(g, m, n + 1) = Summed(g, m, n) + g[n + 1]
PROOF
<1>1. PICK f : IsSum(f, g, m, n + 1)
  BY SumExists
<1>2. Summed(g, m, n) = f[n]
  BY <1>1, SummedIs
<1>3. Summed(g, m, n + 1) = f[n + 1]
  BY <1>1, SummedIs
<1>4. n + 1 \in 0..n + 1 /\ ~(n + 1 <= m) /\ (n + 1) - 1 = n
  OBVIOUS
<1>5. f[n + 1] = f[n] + g[n + 1]
  BY <1>1, <1>4 DEF IsSum
<1> QED
  BY <1>2, <1>3, <1>5

(* A sum of numbers is one, and grows. *)
LEMMA SummedGrows ==
  ASSUME NEW m \in Nat, NEW n \in Nat, NEW p \in Nat, n <= p, NEW g,
         \A k \in m + 1..p : g[k] \in Nat
  PROVE  /\ Summed(g, m, n) \in Nat /\ Summed(g, m, p) \in Nat
         /\ Summed(g, m, n) <= Summed(g, m, p)
PROOF
<1>1. \A k \in Nat : k <= p => Summed(g, m, k) \in Nat
  <2> DEFINE T == {k \in 0..p : Summed(g, m, k) \in Nat}
  <2>1. 0 \in T
    BY SummedOfNone
  <2>2. ASSUME NEW k \in 0 + 1..p, k - 1 \in T PROVE k \in T
    <3>1. k \in Nat /\ k - 1 \in Nat /\ k \in 0..p /\ (k - 1) + 1 = k
      BY <2>2
    <3>2. CASE k <= m
      <4>1. Summed(g, m, k) = 0
        BY <3>1, <3>2, SummedOfNone
      <4> QED
        BY <3>1, <4>1
    <3>3. CASE ~(k <= m)
      <4>1. m <= k - 1 /\ k \in m + 1..p
        BY <3>1, <3>3
      <4>2. Summed(g, m, (k - 1) + 1) = Summed(g, m, k - 1) + g[(k - 1) + 1]
        BY <3>1, <4>1, SummedOfOneMore
      <4>3. Summed(g, m, k) = Summed(g, m, k - 1) + g[k]
        BY <3>1, <4>2
      <4>4. Summed(g, m, k - 1) \in Nat /\ g[k] \in Nat
        BY <2>2, <4>1
      <4>5. Summed(g, m, k) \in Nat
        BY <4>3, <4>4
      <4> QED
        BY <3>1, <4>5
    <3> QED
      BY <3>2, <3>3
  <2> HIDE DEF T
  <2>3. 0..p \subseteq T
    BY <2>1, <2>2, Climbs
  <2> QED
    BY <2>3 DEF T
<1>2. n..p \subseteq {k \in n..p : Summed(g, m, n) <= Summed(g, m, k)}
  <2> DEFINE T == {k \in n..p : Summed(g, m, n) <= Summed(g, m, k)}
  <2>1. n \in T
    BY <1>1
  <2>2. ASSUME NEW k \in n + 1..p, k - 1 \in T PROVE k \in T
    <3>1. k \in Nat /\ k - 1 \in Nat /\ k \in n..p /\ (k - 1) + 1 = k /\ k <= p /\ k - 1 <= p
      BY <2>2
    <3>2. Summed(g, m, n) <= Summed(g, m, k - 1)
      BY <2>2
    <3>3. Summed(g, m, n) \in Nat /\ Summed(g, m, k - 1) \in Nat /\ Summed(g, m, k) \in Nat
      BY <1>1, <3>1
    <3>4. CASE k <= m
      <4>1. Summed(g, m, k) = 0 /\ Summed(g, m, k - 1) = 0
        BY <3>1, <3>4, SummedOfNone
      <4> QED
        BY <3>1, <3>2, <4>1
    <3>5. CASE ~(k <= m)
      <4>1. m <= k - 1 /\ k \in m + 1..p
        BY <3>1, <3>5
      <4>2. Summed(g, m, (k - 1) + 1) = Summed(g, m, k - 1) + g[(k - 1) + 1]
        BY <3>1, <4>1, SummedOfOneMore
      <4>3. Summed(g, m, k) = Summed(g, m, k - 1) + g[k] /\ g[k] \in Nat
        BY <3>1, <4>1, <4>2
      <4>4. Summed(g, m, n) <= Summed(g, m, k)
        BY <3>2, <3>3, <4>3
      <4> QED
        BY <3>1, <4>4
    <3> QED
      BY <3>4, <3>5
  <2> HIDE DEF T
  <2>3. n..p \subseteq T
    BY <2>1, <2>2, Climbs
  <2> QED
    BY <2>3 DEF T
<1>3. p \in n..p
  OBVIOUS
<1> QED
  BY <1>1, <1>2, <1>3

-----------------------------------------------------------------------------
(* What a turn reserved *)

(* The message at m starts the turn; the model and its tools follow it. *)
Reserving(messages, m) ==
  /\ IsList(messages) /\ m \in 1..Len(messages) /\ messages[m].role = "user"
  /\ \A k \in m + 1..Len(messages) :
       /\ messages[k].role # "user"
       /\ messages[k].role = "assistant" => messages[k].attempts \in Nat

Reservations(messages) == [k \in 1..Len(messages) |-> reserves(messages[k])]

LEMMA TurnMessageIs ==
  ASSUME NEW messages, NEW m, Reserving(messages, m)
  PROVE  turn_message(messages) = m
PROOF
<1> DEFINE users == {k \in DOMAIN messages : messages[k].role = "user"}
<1>1. DOMAIN messages = 1..Len(messages) /\ Len(messages) \in Nat
  BY ListElements DEF Reserving
<1>2. m \in users /\ users \subseteq Nat /\ \A k \in users : k <= m
  BY <1>1 DEF Reserving
<1> HIDE DEF users
<1>3. \E x \in users : \A y \in users : x >= y
  BY <1>2
<1>4. Max(users) \in users /\ \A y \in users : Max(users) >= y
  BY <1>3, Zenon DEF Max
<1>5. Max(users) = m
  <2>1. Max(users) \in Nat /\ m \in Nat /\ Max(users) <= m /\ Max(users) >= m
    BY <1>2, <1>4
  <2> QED
    BY ONLY <2>1
<1> QED
  BY <1>5 DEF turn_message, users

LEMMA DispatchedIs ==
  ASSUME NEW messages, Len(messages) \in Nat, NEW m \in Nat
  PROVE  dispatched(messages, m) = Summed(Reservations(messages), m, Len(messages))
PROOF
<1> DEFINE n == Len(messages)
           Sums(f) == f = [k \in 0..n |-> IF k <= m THEN 0 ELSE f[k - 1] + reserves(messages[k])]
           reserved == CHOOSE f : Sums(f)
<1>1. \A f : IsSum(f, Reservations(messages), m, n) <=> Sums(f)
  <2>1. \A k \in 0..n : k <= m \/ (k \in 1..n /\ Reservations(messages)[k] = reserves(messages[k]))
    BY DEF Reservations
  <2> SUFFICES ASSUME NEW f
               PROVE  [k \in 0..n |-> IF k <= m THEN 0 ELSE f[k - 1] + Reservations(messages)[k]]
                      = [k \in 0..n |-> IF k <= m THEN 0 ELSE f[k - 1] + reserves(messages[k])]
    BY DEF IsSum
  <2> QED
    BY <2>1
<1>2. \E f : Sums(f)
  <2> HIDE DEF Sums
  <2>1. PICK f : IsSum(f, Reservations(messages), m, n)
    BY SumExists
  <2> QED
    BY <1>1, <2>1
<1>3. Sums(reserved)
  <2> HIDE DEF Sums
  <2> QED
    BY <1>2
<1>4. IsSum(reserved, Reservations(messages), m, n)
  <2> HIDE DEF Sums, reserved
  <2> QED
    BY <1>1, <1>3
<1>5. dispatched(messages, m) = reserved[n]
  BY DEF dispatched
<1> HIDE DEF reserved, Sums
<1> QED
  BY <1>4, <1>5, SummedIs

LEMMA ReservesNat ==
  ASSUME NEW messages, NEW m, Reserving(messages, m), NEW k \in m + 1..Len(messages)
  PROVE  Reservations(messages)[k] \in Nat
PROOF
<1>1. k \in 1..Len(messages) /\ Len(messages) \in Nat
  BY DEF Reserving, IsList
<1> QED
  BY <1>1 DEF Reserving, Reservations, reserves

(* What follows takes nothing back. *)
LEMMA DispatchedGrows ==
  ASSUME NEW a, NEW b, NEW m, Reserving(a, m), Reserving(b, m), Len(a) <= Len(b),
         \A k \in 1..Len(a) : b[k] = a[k]
  PROVE  /\ dispatched(a, m) \in Nat /\ dispatched(b, m) \in Nat
         /\ dispatched(a, m) <= dispatched(b, m)
PROOF
<1>1. m \in Nat /\ Len(a) \in Nat /\ Len(b) \in Nat
  BY DEF Reserving, IsList
<1>2. /\ dispatched(a, m) = Summed(Reservations(a), m, Len(a))
      /\ dispatched(b, m) = Summed(Reservations(b), m, Len(b))
  BY <1>1, DispatchedIs
<1>3. Summed(Reservations(a), m, Len(a)) = Summed(Reservations(b), m, Len(a))
  <2>1. \A k \in 1..Len(a) : Reservations(a)[k] = Reservations(b)[k]
    BY <1>1 DEF Reservations
  <2> QED
    BY <1>1, <2>1, SummedAgrees
<1>4. \A k \in m + 1..Len(b) : Reservations(b)[k] \in Nat
  BY ReservesNat
<1>5. /\ Summed(Reservations(b), m, Len(a)) \in Nat
      /\ Summed(Reservations(b), m, Len(b)) \in Nat
      /\ Summed(Reservations(b), m, Len(a)) <= Summed(Reservations(b), m, Len(b))
  BY <1>1, <1>4, SummedGrows
<1> QED
  BY <1>2, <1>3, <1>5

(* An answer adds the attempts it took. *)
LEMMA DispatchedAdds ==
  ASSUME NEW a, NEW m, Reserving(a, m), NEW x, x.role = "assistant", x.attempts \in Nat
  PROVE  /\ Reserving(Append(a, x), m)
         /\ dispatched(a, m) \in Nat /\ dispatched(Append(a, x), m) \in Nat
         /\ dispatched(a, m) + x.attempts <= dispatched(Append(a, x), m)
PROOF
<1> DEFINE b == Append(a, x)
           n == Len(a)
<1>1. IsList(b) /\ Len(b) = n + 1 /\ b[n + 1] = x /\ \A k \in 1..n : b[k] = a[k]
  BY ListGrows DEF Reserving
<1> HIDE DEF b
<1>2. n \in Nat /\ m \in 1..n /\ m \in Nat
  BY DEF Reserving, IsList
<1>3. Reserving(b, m)
  <2>1. \A k \in m + 1..n + 1 : k = n + 1 \/ (k \in m + 1..n /\ k \in 1..n)
    BY <1>2
  <2> QED
    BY <1>1, <1>2, <2>1 DEF Reserving
<1>4. /\ dispatched(a, m) \in Nat /\ dispatched(b, m) \in Nat
  BY <1>1, <1>2, <1>3, DispatchedGrows
<1>5. /\ dispatched(a, m) = Summed(Reservations(a), m, n)
      /\ dispatched(b, m) = Summed(Reservations(b), m, n + 1)
  BY <1>1, <1>2, DispatchedIs
<1>6. Summed(Reservations(a), m, n) = Summed(Reservations(b), m, n)
  <2>1. \A k \in 1..n : Reservations(a)[k] = Reservations(b)[k]
    BY <1>1, <1>2 DEF Reservations
  <2> QED
    BY <1>2, <2>1, SummedAgrees
<1>7. Summed(Reservations(b), m, n + 1) = Summed(Reservations(b), m, n) + Reservations(b)[n + 1]
  BY <1>2, SummedOfOneMore
<1>8. Reservations(b)[n + 1] = reserves(x) /\ x.attempts <= reserves(x) /\ reserves(x) \in Nat
  BY <1>1, <1>2 DEF Reservations, reserves
<1>9. dispatched(b, m) = dispatched(a, m) + reserves(x)
  BY <1>5, <1>6, <1>7, <1>8
<1> QED
  BY <1>3, <1>4, <1>8, <1>9 DEF b

-----------------------------------------------------------------------------
(* What the journal spent *)

(* An answer a turn continues with. *)
AnswerForm(message) ==
  /\ {"role", "attempts", "id", "calls"} \subseteq DOMAIN message
  /\ message.role = "assistant" /\ message.attempts \in Nat /\ IsList(message.calls)

Chat(step) == step.kind = "model" /\ step.request.kind = "chat"

Spends(step) == IF Chat(step) /\ step.state = "done" THEN step.answer.attempts ELSE 0

Spent(E, n) == Summed([c \in 1..Len(E) |-> Spends(E[c])], 0, n)

AnswersRead(E) ==
  Len(E) \in Nat /\ \A c \in 1..Len(E) : Chat(E[c]) /\ E[c].state = "done" => AnswerForm(E[c].answer)

LEMMA SpentNat ==
  ASSUME NEW E, AnswersRead(E), NEW n \in 0..Len(E)
  PROVE  /\ Spent(E, n) \in Nat
         /\ n < Len(E) => /\ Spent(E, n + 1) = Spent(E, n) + Spends(E[n + 1])
                          /\ Spends(E[n + 1]) \in Nat
PROOF
<1> DEFINE g == [c \in 1..Len(E) |-> Spends(E[c])]
<1>1. Len(E) \in Nat
  BY DEF AnswersRead
<1>2. \A c \in 1..Len(E) : g[c] = Spends(E[c]) /\ Spends(E[c]) \in Nat
  BY DEF AnswersRead, Spends, AnswerForm
<1>3. \A k \in 1..Len(E) : Spent(E, k) = Summed(g, 0, k) /\ Spent(E, 0) = Summed(g, 0, 0)
  BY DEF Spent
<1>4. Spent(E, n) = Summed(g, 0, n) /\ (n < Len(E) => Spent(E, n + 1) = Summed(g, 0, n + 1))
  BY DEF Spent
<1> HIDE DEF g
<1>5. Summed(g, 0, n) \in Nat
  <2>1. \A k \in 0 + 1..n : g[k] \in Nat
    BY <1>1, <1>2
  <2> QED
    BY <1>1, <2>1, SummedGrows
<1>6. n < Len(E) => Summed(g, 0, n + 1) = Summed(g, 0, n) + g[n + 1]
  BY <1>1, SummedOfOneMore
<1> QED
  BY <1>1, <1>2, <1>4, <1>5, <1>6

LEMMA SpentSame ==
  ASSUME NEW E, NEW F, Len(E) \in Nat, Len(F) \in Nat,
         NEW n \in Nat, n <= Len(E), n <= Len(F),
         \A c \in 1..n : Spends(E[c]) = Spends(F[c])
  PROVE  Spent(E, n) = Spent(F, n)
PROOF
<1> DEFINE g == [c \in 1..Len(E) |-> Spends(E[c])]
           h == [c \in 1..Len(F) |-> Spends(F[c])]
<1>1. \A c \in 1..n : g[c] = h[c]
  OBVIOUS
<1>2. Spent(E, n) = Summed(g, 0, n) /\ Spent(F, n) = Summed(h, 0, n)
  BY DEF Spent
<1> HIDE DEF g, h
<1> QED
  BY <1>1, <1>2, SummedAgrees

LEMMA SpentOfNone ==
  ASSUME NEW E
  PROVE  Spent(E, 0) = 0
PROOF BY SummedOfNone DEF Spent

-----------------------------------------------------------------------------
(* What a turn reserved, along its way *)

Grows(m, a, b) ==
  /\ Reserving(b, m)
  /\ dispatched(a, m) \in Nat /\ dispatched(b, m) \in Nat
  /\ dispatched(a, m) <= dispatched(b, m)

(* Every attempt of an answer the journal holds before p was reserved. *)
Paid(m, E, p) ==
  /\ Reserving(p.turn.messages, m)
  /\ Spent(E, p.turn.cursor - 1) <= dispatched(p.turn.messages, m)
  /\ p.pc \in {"review", "tools"} => IsList(Calls(p.turn))

LEMMA GrowsItself ==
  ASSUME NEW m, NEW a, Reserving(a, m)
  PROVE  Grows(m, a, a)
PROOF
<1>1. Len(a) <= Len(a) /\ \A k \in 1..Len(a) : a[k] = a[k]
  BY DEF Reserving, IsList
<1> QED
  BY <1>1, DispatchedGrows DEF Grows

LEMMA GrowsOn ==
  ASSUME NEW m, NEW a, NEW b, NEW c, Grows(m, a, b), Grows(m, b, c)
  PROVE  Grows(m, a, c)
PROOF BY DEF Grows

LEMMA ResultsFollow ==
  ASSUME NEW t, IsTurn(t), NEW m, Reserving(t.messages, m), NEW contents, IsList(contents)
  PROVE  Grows(m, t.messages, Answered(t, contents).messages)
PROOF
<1> DEFINE a == t.messages
           b == [k \in DOMAIN contents |->
                   Result(<<"t", t.counter + k>>, Latest(t.messages).calls[k], contents[k])]
           c == a \o b
<1>1. DOMAIN contents = 1..Len(contents) /\ Len(contents) \in Nat
  BY ListElements
<1>2. b = [k \in 1..Len(contents) |-> b[k]] /\ \A k \in 1..Len(contents) : b[k].role = "tool"
  BY <1>1 DEF Result
<1>3. Answered(t, contents).messages = c
  BY Zenon DEF IsTurn, Fields, Answered
<1> HIDE DEF b
<1>4. IsList(b) /\ Len(b) = Len(contents)
  BY <1>1, <1>2, ListOf
<1>5. IsList(a) /\ Len(a) \in Nat /\ Len(b) \in Nat /\ m \in 1..Len(a)
  BY <1>1, <1>4 DEF Reserving, IsList
<1>6. /\ IsList(c) /\ Len(c) = Len(a) + Len(b)
      /\ \A k \in 1..Len(a) : c[k] = a[k]
      /\ \A k \in Len(a) + 1..Len(a) + Len(b) : c[k] = b[k - Len(a)]
  BY <1>4, <1>5, ListsJoin
<1> HIDE DEF c
<1>7. Reserving(c, m)
  <2>1. \A k \in m + 1..Len(c) :
          \/ k \in m + 1..Len(a) /\ k \in 1..Len(a)
          \/ k \in Len(a) + 1..Len(a) + Len(b) /\ k - Len(a) \in 1..Len(contents)
    BY <1>4, <1>5, <1>6
  <2>2. \A k \in m + 1..Len(c) :
          c[k].role # "user" /\ (c[k].role = "assistant" => c[k].attempts \in Nat)
    <3> SUFFICES ASSUME NEW k \in m + 1..Len(c)
                 PROVE  c[k].role # "user" /\ (c[k].role = "assistant" => c[k].attempts \in Nat)
      OBVIOUS
    <3>1. CASE k \in m + 1..Len(a) /\ k \in 1..Len(a)
      BY <1>6, <3>1 DEF Reserving
    <3>2. CASE k \in Len(a) + 1..Len(a) + Len(b) /\ k - Len(a) \in 1..Len(contents)
      <4>1. c[k].role = "tool"
        BY <1>2, <1>6, <3>2
      <4> QED
        BY <4>1
    <3> QED
      BY <2>1, <3>1, <3>2
  <2>3. m \in 1..Len(c) /\ c[m].role = "user"
    BY <1>5, <1>6 DEF Reserving
  <2> QED
    BY <1>6, <2>2, <2>3 DEF Reserving
<1>8. Len(a) <= Len(c)
  BY <1>5, <1>6
<1> QED
  BY <1>3, <1>6, <1>7, <1>8, DispatchedGrows DEF Grows

LEMMA AnswerFollows ==
  ASSUME NEW t, IsTurn(t), NEW m, Reserving(t.messages, m),
         NEW message, AnswerForm(message), received(t, message).pc # "failed"
  PROVE  LET q == received(t, message)
         IN /\ Grows(m, t.messages, q.turn.messages)
            /\ dispatched(t.messages, m) + message.attempts <= dispatched(q.turn.messages, m)
            /\ IsList(Calls(q.turn))
PROOF
<1> DEFINE x == [message EXCEPT !.id = <<"a", t.counter + 1>>]
           u == [t EXCEPT !.steps = @ + 1, !.attempt = 1, !.cursor = @ + 1,
                   !.counter = @ + 1, !.messages = Append(@, x)]
           a == t.messages
<1>1. /\ x.role = "assistant" /\ x.attempts = message.attempts /\ x.attempts \in Nat
      /\ x.calls = message.calls
  BY Zenon DEF AnswerForm
<1>2. received(t, message) \in {Failing("provider"), At("review", u)}
  BY Zenon DEF received
<1>3. u.messages = Append(a, x)
  <2> HIDE DEF x
  <2> QED
    BY Zenon DEF IsTurn, Fields
<1> HIDE DEF x, u
<1>4. received(t, message).turn = u
  BY <1>2 DEF At, Failing
<1>5. /\ Reserving(Append(a, x), m)
      /\ dispatched(a, m) \in Nat /\ dispatched(Append(a, x), m) \in Nat
      /\ dispatched(a, m) + x.attempts <= dispatched(Append(a, x), m)
  BY <1>1, DispatchedAdds
<1>6. Len(Append(a, x)) = Len(a) + 1 /\ Append(a, x)[Len(a) + 1] = x
  BY ListGrows DEF Reserving
<1>7. Calls(u) = message.calls
  BY <1>1, <1>3, <1>6 DEF Calls, Latest
<1>8. dispatched(a, m) <= dispatched(Append(a, x), m)
  BY <1>1, <1>5
<1>9. IsList(Calls(u))
  BY <1>7 DEF AnswerForm
<1> QED
  BY <1>1, <1>3, <1>4, <1>5, <1>8, <1>9 DEF Grows

LEMMA ReviewPays ==
  ASSUME NEW i, NEW t, IsTurn(t), review(i, t).pc # "failed",
         NEW m, Reserving(t.messages, m), IsList(Calls(t))
  PROVE  LET q == review(i, t)
         IN Grows(m, t.messages, q.turn.messages) /\ (q.pc = "tools" => IsList(Calls(q.turn)))
PROOF
<1> DEFINE taken == Taken(guards(i, t))
           ruling == guards(i, t)[taken]
           stepped == take_steps(t, taken)
           on == take_steps(stepped, 1)
<1>1. /\ IsTurn(stepped) /\ stepped.messages = t.messages
      /\ IsTurn(on) /\ on.messages = t.messages
  BY Zenon DEF IsTurn, Fields, take_steps
<1>2. IsList(Correction(t, ruling)) /\ IsList(<<"recorded">>)
  <2> DEFINE contents == Correction(t, ruling)
  <2>1. DOMAIN Calls(t) = 1..Len(Calls(t)) /\ Len(Calls(t)) \in Nat
    BY ListElements
  <2>2. contents = [k \in 1..Len(Calls(t)) |-> contents[k]]
    BY <2>1 DEF Correction
  <2> HIDE DEF contents
  <2>3. IsList(contents)
    BY <2>1, <2>2, ListOf
  <2>4. <<"recorded">> \in Seq({"recorded"})
    OBVIOUS
  <2> QED
    BY <2>3, <2>4, SeqIsList DEF contents
<1>3. \/ review(i, t) = Failing("provider")
      \/ review(i, t) = Failing("contract")
      \/ review(i, t) = At("model", Answered(stepped, Correction(t, ruling)))
      \/ review(i, t) = At("settle", Answered(stepped, <<"recorded">>))
      \/ review(i, t) = At("settle", stepped)
      \/ review(i, t) = At("tools", on)
  BY DEF review
<1>4. Calls(on) = Calls(t)
  BY <1>1 DEF Calls
<1> HIDE DEF on, stepped, ruling
<1>5. \A contents : IsList(contents) => Grows(m, t.messages, Answered(stepped, contents).messages)
  BY <1>1, ResultsFollow
<1>6. Grows(m, t.messages, t.messages)
  BY GrowsItself
<1> DEFINE q == review(i, t)
<1>7. \/ q = At("model", Answered(stepped, Correction(t, ruling)))
      \/ q = At("settle", Answered(stepped, <<"recorded">>))
      \/ q = At("settle", stepped)
      \/ q = At("tools", on)
  BY <1>3 DEF Failing
<1> HIDE DEF q
<1>8. Grows(m, t.messages, q.turn.messages)
  BY <1>1, <1>2, <1>5, <1>6, <1>7 DEF At
<1>9. q.pc = "tools" => IsList(Calls(q.turn))
  BY <1>4, <1>7 DEF At
<1> QED
  BY <1>8, <1>9 DEF q

LEMMA AnsweringFollows ==
  ASSUME NEW i, NEW t, IsTurn(t), NEW u, IsTurn(u), u.messages = t.messages,
         NEW m, Reserving(t.messages, m), IsList(Calls(t)), NEW results
  PROVE  Grows(m, t.messages, push_answers(i, u, results).messages)
PROOF
<1> DEFINE contents == [n \in DOMAIN Calls(u) |->
                         IF n \in ForTeam(i, u) THEN results[n] ELSE answer(i, u, Calls(u)[n])]
<1>1. Calls(u) = Calls(t)
  BY DEF Calls
<1>2. DOMAIN Calls(t) = 1..Len(Calls(t)) /\ Len(Calls(t)) \in Nat
  BY ListElements
<1>3. contents = [n \in 1..Len(Calls(t)) |-> contents[n]]
  BY <1>1, <1>2
<1>4. push_answers(i, u, results) = Answered(u, contents)
  BY DEF push_answers
<1> HIDE DEF contents
<1>5. IsList(contents)
  BY <1>2, <1>3, ListOf
<1> QED
  BY <1>4, <1>5, ResultsFollow

LEMMA ToolsPay ==
  ASSUME NEW i, NEW t, IsTurn(t), run_tools(i, t).pc # "failed",
         NEW m, Reserving(t.messages, m), IsList(Calls(t))
  PROVE  Grows(m, t.messages, run_tools(i, t).turn.messages)
PROOF
<1>1. run_tools(i, t).turn = push_answers(i, t, <<>>)
  BY DEF run_tools, At, Failing
<1> QED
  BY <1>1, AnsweringFollows

LEMMA ToldPays ==
  ASSUME NEW i, NEW t, IsTurn(t), NEW results,
         NEW m, Reserving(t.messages, m), IsList(Calls(t))
  PROVE  Grows(m, t.messages, told(i, t, results).turn.messages)
PROOF
<1> DEFINE asked == requests(i, t)
           numbered == [t EXCEPT !.counter = @ + Cardinality(DOMAIN asked), !.cursor = @ + 1]
           pushed == push_answers(i, numbered,
                       [k \in DOMAIN asked |-> results[asked[k].interrupt_id]])
<1>1. IsTurn(numbered) /\ numbered.messages = t.messages
  <2>1. t.cursor + 1 \in Nat \ {0}
    BY DEF IsTurn
  <2> QED
    BY <2>1, Zenon DEF IsTurn, Fields
<1>2. \E browser : told(i, t, results).turn = resumed(pushed, browser)
  BY DEF told, At
<1>3. IsTurn(pushed)
  BY <1>1, AnsweredAlike DEF push_answers, Alike
<1>4. Grows(m, t.messages, pushed.messages)
  BY <1>1, AnsweringFollows
<1> HIDE DEF pushed
<1>5. \A browser : resumed(pushed, browser).messages = pushed.messages
  BY <1>3, Zenon DEF IsTurn, Fields, resumed
<1> QED
  BY <1>2, <1>4, <1>5

LEMMA SettlePays ==
  ASSUME NEW i, NEW t, IsTurn(t), settle(i, t).pc # "failed",
         NEW m, Reserving(t.messages, m)
  PROVE  Grows(m, t.messages, settle(i, t).turn.messages)
PROOF
<1>1. \A reply : Alike(t, Remember(i, t, reply))
  BY Zenon DEF IsTurn, Fields, Alike, Remember
<1>2. \A reply : Grows(m, t.messages, Remember(i, t, reply).messages)
  <2> SUFFICES ASSUME NEW reply PROVE Grows(m, t.messages, Remember(i, t, reply).messages)
    OBVIOUS
  <2> DEFINE x == [role |-> "assistant", id |-> <<"a", t.counter + 1>>, text |-> <<reply>>,
                   truncated |-> FALSE, invalid_calls |-> <<>>, attempts |-> 1, calls |-> <<>>,
                   refusal |-> FALSE, provider |-> i.provider, raw |-> None]
  <2>1. x.role = "assistant" /\ x.attempts = 1 /\ x.attempts \in Nat
    OBVIOUS
  <2>2. Remember(i, t, reply).messages = Append(t.messages, x)
    BY Zenon DEF Remember, IsTurn, Fields
  <2> HIDE DEF x
  <2>3. /\ Reserving(Append(t.messages, x), m)
        /\ dispatched(t.messages, m) \in Nat /\ dispatched(Append(t.messages, x), m) \in Nat
        /\ dispatched(t.messages, m) + x.attempts <= dispatched(Append(t.messages, x), m)
    BY <2>1, DispatchedAdds
  <2> QED
    BY <2>1, <2>2, <2>3 DEF Grows
<1>3. \E u, result :
        /\ IsTurn(u) /\ Grows(m, t.messages, u.messages)
        /\ settle(i, t).turn = [u EXCEPT !.settled = result]
  <2>1. Grows(m, t.messages, t.messages)
    BY GrowsItself
  <2>2. \E u, result :
          /\ u = t \/ \E reply : u = Remember(i, t, reply)
          /\ settle(i, t) = At("check", [u EXCEPT !.settled = result])
    <3> HIDE DEF At
    <3> QED
      BY Zenon DEF settle, Failing
  <2>3. PICK u, result :
          /\ u = t \/ \E reply : u = Remember(i, t, reply)
          /\ settle(i, t) = At("check", [u EXCEPT !.settled = result])
    BY <2>2
  <2>4. IsTurn(u) /\ Grows(m, t.messages, u.messages)
    BY <1>1, <1>2, <2>1, <2>3 DEF Alike
  <2>5. settle(i, t).turn = [u EXCEPT !.settled = result]
    <3> DEFINE after == [u EXCEPT !.settled = result]
    <3>1. settle(i, t) = At("check", after)
      BY <2>3
    <3> HIDE DEF after
    <3>2. settle(i, t).turn = after
      BY <3>1 DEF At
    <3> QED
      BY <3>2 DEF after
  <2> QED
    BY <2>4, <2>5
<1>4. PICK u, result :
        /\ IsTurn(u) /\ Grows(m, t.messages, u.messages)
        /\ settle(i, t).turn = [u EXCEPT !.settled = result]
  BY <1>3
<1>5. [u EXCEPT !.settled = result].messages = u.messages
  BY <1>4, Zenon DEF IsTurn, Fields
<1> QED
  BY <1>4, <1>5

(* A move reserves what the step it takes spent. *)
LEMMA MovesPay ==
  ASSUME NEW i, NEW E, AnswersRead(E), NEW p, IsPlace(p), p.turn.cursor <= Len(E) + 1,
         NEW q, Moves(i, E, p, q),
         NEW m, Paid(m, E, p), ByModel(E, p, q) => Chat(E[p.turn.cursor])
  PROVE  Paid(m, E, q)
PROOF
<1> DEFINE t == p.turn
           c == t.cursor
           a == t.messages
           b == q.turn.messages
<1>1. IsTurn(t) /\ c \in Nat \ {0} /\ q.pc # "failed"
  BY DEF IsPlace, IsTurn, Moves
<1>2. Reserving(a, m) /\ Spent(E, c - 1) <= dispatched(a, m)
  BY DEF Paid
<1>3. q.turn.cursor = c \/ (q.turn.cursor = c + 1 /\ c \in 1..Len(E))
  <2>1. Len(E) \in Nat
    BY DEF AnswersRead
  <2>2. /\ IsPlace(q) /\ Before(i, p, q) /\ q.turn.cursor <= c + 1
        /\ q.turn.cursor = c + 1 => c \in 1..Len(E)
    BY <2>1, MovesForward
  <2>3. q.turn.cursor \in Nat /\ c <= q.turn.cursor
    BY <2>2 DEF Before, IsPlace, IsTurn
  <2> QED
    BY <1>1, <2>2, <2>3
<1>4. c \in 1..Len(E) =>
        Spent(E, c - 1) \in Nat /\ Spent(E, c) = Spent(E, c - 1) + Spends(E[c])
  <2>1. c \in 1..Len(E) => c - 1 \in 0..Len(E) /\ c - 1 < Len(E) /\ (c - 1) + 1 = c
    BY DEF AnswersRead
  <2> QED
    BY <2>1, SpentNat
<1>5. CASE ByModel(E, p, q)
  <2> DEFINE message == E[c].answer
  <2>1. q = received(t, message) /\ c \in 1..Len(E) /\ Chat(E[c]) /\ E[c].state = "done"
    BY <1>5 DEF ByModel, Over
  <2>2. AnswerForm(message) /\ Spends(E[c]) = message.attempts /\ message.attempts \in Nat
    BY <2>1 DEF AnswersRead, Spends, AnswerForm
  <2>3. q = At("review", q.turn) /\ q.turn.cursor = c + 1
    BY <1>1, <2>1, ReceivedMoves
  <2> HIDE DEF message
  <2>4. /\ Grows(m, a, b) /\ dispatched(a, m) + message.attempts <= dispatched(b, m)
        /\ IsList(Calls(q.turn))
    BY <1>1, <1>2, <2>1, <2>2, AnswerFollows
  <2>5. Spent(E, c) <= dispatched(b, m)
    <3>1. /\ Spent(E, c - 1) \in Nat /\ dispatched(a, m) \in Nat /\ dispatched(b, m) \in Nat
          /\ Spent(E, c) = Spent(E, c - 1) + message.attempts
      BY <1>4, <2>1, <2>2, <2>4 DEF Grows
    <3> QED
      BY ONLY <1>2, <2>2, <2>4, <3>1
  <2>6. q.turn.cursor - 1 = c
    BY <1>1, <2>3
  <2> QED
    BY <2>4, <2>5, <2>6 DEF Paid, Grows
<1>6. CASE ~ByModel(E, p, q)
  <2>1. Grows(m, a, b) /\ (q.pc \in {"review", "tools"} => IsList(Calls(q.turn)))
    <3>1. p.pc \in {"review", "tools"} => IsList(Calls(t))
      BY DEF Paid
    <3>2. CASE ByTeam(i, E, p, q)
      <4>1. p.pc = "tools" /\ q = told(i, t, E[c].results)
        BY <3>2 DEF ByTeam
      <4>2. q.pc \notin {"review", "tools"}
        <5> DEFINE results == E[c].results
        <5>1. q = told(i, t, results)
          BY <4>1
        <5> HIDE DEF results, t
        <5>2. LET r == told(i, t, results) IN r.pc \in {"model", "settle"}
          BY <1>1, ToldMoves, Zenon
        <5> QED
          BY <5>1, <5>2
      <4> QED
        BY <1>1, <1>2, <3>1, <4>1, <4>2, ToldPays
    <3>3. CASE p.pc = "review" /\ q = review(i, t)
      <4>1. q.pc # "review"
        BY <1>1, <3>3, ReviewMoves
      <4> QED
        BY <1>1, <1>2, <3>1, <3>3, <4>1, ReviewPays
    <3>4. CASE p.pc = "tools" /\ q = run_tools(i, t)
      <4>1. q.pc \notin {"review", "tools"}
        BY <1>1, <3>4, RunToolsMoves
      <4> QED
        BY <1>1, <1>2, <3>1, <3>4, <4>1, ToolsPay
    <3>5. CASE p.pc = "settle" /\ q = settle(i, t)
      <4>1. q = At("check", q.turn)
        BY <1>1, <3>5, SettleMoves
      <4>2. q.pc = "check"
        BY <4>1 DEF At
      <4> QED
        BY <1>1, <1>2, <3>5, <4>2, SettlePays
    <3> QED
      BY <1>6, <3>2, <3>3, <3>4, <3>5 DEF Moves, ByItself
  <2>2. q.turn.cursor = c + 1 => Spends(E[c]) = 0
    <3>1. q.turn.cursor = c \/ E[c].kind = "team"
      <4>1. CASE ByTeam(i, E, p, q)
        BY <4>1 DEF ByTeam
      <4>2. CASE ByItself(i, p, q)
        <5>1. Alike(t, q.turn)
          BY <1>1, <4>2, ReviewMoves, RunToolsMoves, SettleMoves DEF ByItself
        <5> QED
          BY <5>1 DEF Alike
      <4> QED
        BY <1>6, <4>1, <4>2 DEF Moves
    <3> QED
      BY <1>1, <3>1 DEF Spends, Chat
  <2>3. Spent(E, q.turn.cursor - 1) = Spent(E, c - 1)
    <3>1. CASE q.turn.cursor = c
      BY <3>1
    <3>2. CASE q.turn.cursor = c + 1 /\ c \in 1..Len(E)
      <4>1. /\ Spent(E, c - 1) \in Nat /\ Spent(E, c) = Spent(E, c - 1) + 0
            /\ q.turn.cursor - 1 = c
        BY <1>1, <1>4, <2>2, <3>2
      <4> QED
        BY <4>1
    <3> QED
      BY <1>3, <3>1, <3>2
  <2>4. Spent(E, c - 1) <= dispatched(b, m)
    <3>1. Spent(E, c - 1) \in Nat
      <4>1. p.turn.cursor - 1 \in 0..Len(E)
        BY <1>1 DEF AnswersRead
      <4> QED
        BY <4>1, SpentNat
    <3> QED
      BY <1>2, <2>1, <3>1 DEF Grows
  <2> QED
    BY <2>1, <2>3, <2>4 DEF Paid, Grows
<1> QED
  BY <1>5, <1>6

(* So it is at every place of the way, once it was at the first. *)
LEMMA WayPays ==
  ASSUME NEW i, NEW m, Reserving(i.messages, m), NEW E, AnswersRead(E),
         NEW p, Passes(i, E, p)
  PROVE  Paid(m, E, p)
PROOF
<1>1. PICK n, C : Way(i, E, C, n) /\ \E k \in 1..n : C[k] = p
  BY DEF Passes
<1>2. n \in Nat \ {0} /\ 1 \in 1..n
  BY <1>1 DEF Way
<1> DEFINE T == {k \in 1..n : Paid(m, E, C[k])}
<1>3. 1 \in T
  <2>1. C[1] = At("model", Fresh(i))
    BY <1>1 DEF Way
  <2>2. /\ C[1].pc = "model" /\ C[1].turn.cursor = 1 /\ C[1].turn.messages = i.messages
    BY <2>1 DEF At, Fresh
  <2>3. dispatched(i.messages, m) \in Nat
    BY GrowsItself DEF Grows
  <2>4. Spent(E, C[1].turn.cursor - 1) = 0
    BY <2>2, SpentOfNone
  <2> QED
    BY <1>2, <2>2, <2>3, <2>4 DEF Paid
<1>4. ASSUME NEW k \in 1 + 1..n, k - 1 \in T PROVE k \in T
  <2>1. k - 1 \in 1..n /\ k - 1 < n /\ (k - 1) + 1 = k /\ k \in 1..n
    BY <1>2
  <2> DEFINE from == C[k - 1]
             to == C[k]
  <2>2. Paid(m, E, from)
    BY <1>4
  <2>3. IsPlace(from) /\ from.turn.cursor <= Len(E) + 1 /\ Moves(i, E, from, to)
    BY <1>1, <2>1 DEF Way
  <2>4. Passes(i, E, from)
    BY <1>1, <2>1 DEF Passes
  <2> HIDE DEF from, to
  <2>5. ByModel(E, from, to) => Chat(E[from.turn.cursor])
    <3> SUFFICES ASSUME ByModel(E, from, to) PROVE Chat(E[from.turn.cursor])
      OBVIOUS
    <3>1. from.pc = "model" /\ Asks(i, from) /\ from.turn.cursor \in 1..Len(E)
      BY DEF ByModel, Asks
    <3>2. AskedAt(i, from, E[from.turn.cursor])
      BY <2>4, <3>1, WayAgrees
    <3> QED
      BY <3>1, <3>2 DEF AskedAt, chat_request, Chat
  <2>6. Paid(m, E, to)
    BY <2>2, <2>3, <2>5, MovesPay
  <2> QED
    BY <2>1, <2>6 DEF to
<1> HIDE DEF T
<1>5. 1..n \subseteq T
  BY <1>2, <1>3, <1>4, Climbs
<1> QED
  BY <1>1, <1>5 DEF T

-----------------------------------------------------------------------------
(* What the attempts cost *)

Closed(E) == \A c \in 1..Len(E) : Chat(E[c]) => E[c].state = "done"

(* F holds the answers that E does, and no other. *)
Keeps(E, F) ==
  /\ Len(E) \in Nat /\ Len(F) \in {Len(E), Len(E) + 1}
  /\ \A c \in 1..Len(E) :
       /\ Chat(F[c]) <=> Chat(E[c])
       /\ Chat(E[c]) => /\ F[c].state = "done" <=> E[c].state = "done"
                        /\ E[c].state = "done" => F[c].answer = E[c].answer
  /\ \A c \in 1..Len(F) : c = Len(E) + 1 => ~(Chat(F[c]) /\ F[c].state = "done")

LEMMA KeepsSpent ==
  ASSUME NEW E, NEW F, AnswersRead(E), Keeps(E, F)
  PROVE  /\ AnswersRead(F) /\ Spent(F, Len(F)) = Spent(E, Len(E))
         /\ Closed(F) => Closed(E)
PROOF
<1>1. Len(E) \in Nat /\ Len(F) \in Nat
  BY DEF Keeps
<1>2. \A c \in 1..Len(F) : c \in 1..Len(E) \/ c = Len(E) + 1
  BY <1>1 DEF Keeps
<1>3. AnswersRead(F)
  BY <1>1, <1>2 DEF Keeps, AnswersRead
<1>4. Spent(F, Len(E)) = Spent(E, Len(E))
  <2>1. \A c \in 1..Len(E) : Spends(E[c]) = Spends(F[c])
    BY DEF Keeps, Spends
  <2>2. Len(E) <= Len(F)
    BY <1>1 DEF Keeps
  <2> QED
    BY <1>1, <2>1, <2>2, SpentSame
<1>5. Spent(F, Len(F)) = Spent(F, Len(E))
  <2>1. CASE Len(F) = Len(E)
    BY <2>1
  <2>2. CASE Len(F) = Len(E) + 1
    <3>1. Len(E) + 1 \in 1..Len(F) /\ Len(E) \in 0..Len(F) /\ Len(E) < Len(F)
      BY <1>1, <2>2
    <3>2. Spends(F[Len(E) + 1]) = 0
      BY <3>1 DEF Keeps, Spends
    <3>3. /\ Spent(F, Len(E)) \in Nat
          /\ Spent(F, Len(E) + 1) = Spent(F, Len(E)) + Spends(F[Len(E) + 1])
      BY <1>3, <3>1, SpentNat
    <3> QED
      BY <2>2, <3>2, <3>3
  <2> QED
    BY <2>1, <2>2 DEF Keeps
<1>6. Closed(F) => Closed(E)
  BY <1>1 DEF Keeps, Closed
<1> QED
  BY <1>3, <1>4, <1>5, <1>6

LEMMA KeepsItself ==
  ASSUME NEW E, Len(E) \in Nat
  PROVE  Keeps(E, E)
PROOF BY DEF Keeps

LEMMA JournalList ==
  ASSUME NEW E, IsJournal(E)
  PROVE  IsList(E) /\ Len(E) \in Nat
PROOF BY SeqIsList DEF IsJournal, IsList

LEMMA KeepsAsked ==
  ASSUME NEW E, IsJournal(E), NEW step, Chat(step) => step.state # "done"
  PROVE  Keeps(E, Append(E, step))
PROOF
<1> DEFINE F == Append(E, step)
<1>1. IsList(E) /\ Len(E) \in Nat
  BY JournalList
<1>2. Len(F) = Len(E) + 1 /\ F[Len(E) + 1] = step /\ \A c \in 1..Len(E) : F[c] = E[c]
  BY <1>1, ListGrows
<1> HIDE DEF F
<1> QED
  BY <1>1, <1>2 DEF Keeps, F

LEMMA SettleIs ==
  ASSUME IsJournal(journal), turn.cursor \in 1..Len(journal), Step.kind = "model",
         NEW state, NEW result, Settle(state, result)
  PROVE  /\ Len(journal') = Len(journal)
         /\ \A c \in 1..Len(journal) : c # turn.cursor => journal'[c] = journal[c]
         /\ LET step == journal'[turn.cursor]
            IN /\ step.kind = "model" /\ step.request = Step.request
               /\ step.state = state /\ step.answer = result
PROOF
<1> DEFINE E == journal
           c == turn.cursor
           half == [E[c] EXCEPT !.state = state]
           step == [half EXCEPT !.answer = result]
           F == [E EXCEPT ![c].state = state, ![c].answer = result]
<1>1. E = [d \in 1..Len(E) |-> E[d]] /\ Len(E) \in Nat
  BY JournalList DEF IsList
<1>2. F = [E EXCEPT ![c] = step]
  BY <1>1, Zenon
<1>3. StepForm(E[c]) /\ E[c].kind = "model"
  BY DEF IsJournal, Step
<1>4. /\ step.kind = "model" /\ step.request = E[c].request
      /\ step.state = state /\ step.answer = result
  BY <1>3, Zenon DEF StepForm
<1> HIDE DEF step
<1> DEFINE G == [E EXCEPT ![c] = step]
<1>5. G = [d \in 1..Len(E) |-> G[d]] /\ G[c] = step /\ \A d \in 1..Len(E) : d # c => G[d] = E[d]
  BY <1>1
<1> HIDE DEF G
<1>6. Len(G) = Len(E)
  BY <1>1, <1>5, ListOf
<1>7. journal' = G
  BY <1>2 DEF Settle, G
<1> QED
  BY <1>4, <1>5, <1>6, <1>7 DEF Step

(* What a run captures begins the turn with the user's message. *)
LEMMA InputReserves ==
  ASSUME NEW r \in Starts
  PROVE  /\ Input(r).turn_start \in Nat /\ Input(r).charge \in Nat
         /\ Reserving(Input(r).messages, Input(r).turn_start + 1)
PROOF
<1> DEFINE kept == IF KeptScope = scope_digest(r.assistants) THEN Kept ELSE <<>>
           said == User(<<"turn">>, r.said, r.quoted)
<1>1. /\ Input(r).turn_start = Len(kept) /\ Input(r).charge = r.charge
      /\ Input(r).messages = Append(kept, said)
  BY DEF Input
<1>2. IsList(kept)
  <2>1. IsList(<<>>)
    <3>1. <<>> \in Seq({})
      OBVIOUS
    <3> QED
      BY <3>1, SeqIsList
  <2> QED
    BY <2>1, KeptAssumption DEF IsList
<1>3. said.role = "user"
  BY DEF User
<1> HIDE DEF kept, said
<1>4. /\ Len(kept) \in Nat
      /\ IsList(Append(kept, said)) /\ Len(Append(kept, said)) = Len(kept) + 1
      /\ Append(kept, said)[Len(kept) + 1] = said
  BY <1>2, ListGrows DEF IsList
<1>5. Reserving(Append(kept, said), Len(kept) + 1)
  BY <1>3, <1>4 DEF Reserving
<1> QED
  BY <1>1, <1>4, <1>5, ChargeAssumption

LEMMA CountsSome ==
  ASSUME NEW n \in Nat, NEW passing, passing \subseteq 1..n
  PROVE  Cardinality(passing) \in Nat
PROOF
<1>1. IsFiniteSet(1..n)
  BY FS_Interval
<1>2. IsFiniteSet(passing)
  BY <1>1, FS_Subset
<1> QED
  BY <1>2, FS_CardinalityType

(* The calls that are read of an answer are a list. *)
LEMMA ReadCalls ==
  ASSUME NEW provider, NEW body, IsList(body.items), response(provider, body) # None
  PROVE  IsList(response(provider, body).calls)
PROOF
<1> DEFINE n == Len(body.items)
<1>1. DOMAIN body.items = 1..n /\ n \in Nat
  BY ListElements
<1>2. CASE provider = "openai"
  <2> DEFINE passing == {k \in DOMAIN body.items :
                           body.items[k].type = "function_call" /\ body.items[k].parsable = TRUE}
             calls == response(provider, body).calls
  <2>1. Cardinality(passing) \in Nat
    BY <1>1, CountsSome
  <2>2. calls = [k \in 1..Cardinality(passing) |-> calls[k]]
    BY <1>2 DEF response, OpenAIResponse, CallsOf
  <2> HIDE DEF passing, calls
  <2>3. IsList(calls)
    BY <2>1, <2>2, ListOf
  <2> QED
    BY <2>3 DEF calls
<1>3. CASE provider # "openai"
  <2> DEFINE passing == {k \in DOMAIN body.items : body.items[k].type = "tool_use"}
             calls == response(provider, body).calls
  <2>1. Cardinality(passing) \in Nat
    BY <1>1, CountsSome
  <2>2. calls = [k \in 1..Cardinality(passing) |-> calls[k]]
    BY <1>3 DEF response, AnthropicResponse, CallsOf
  <2> HIDE DEF passing, calls
  <2>3. IsList(calls)
    BY <2>1, <2>2, ListOf
  <2> QED
    BY <2>3 DEF calls
<1> QED
  BY <1>2, <1>3

LEMMA NamedItems ==
  ASSUME NEW body, "items" \in DOMAIN body, IsList(body.items)
  PROVE  IsList(Named(body).items)
PROOF
<1> DEFINE named == [k \in DOMAIN body.items |->
                      IF body.items[k].type \in {"tool_use", "function_call"}
                      THEN [body.items[k] EXCEPT !.id = <<turn.cursor, k>>] ELSE body.items[k]]
<1>1. Named(body).items = named
  BY Zenon DEF Named
<1>2. DOMAIN body.items = 1..Len(body.items) /\ Len(body.items) \in Nat
  BY ListElements
<1>3. named = [k \in 1..Len(body.items) |-> named[k]]
  BY <1>2
<1> HIDE DEF named
<1> QED
  BY <1>1, <1>2, <1>3, ListOf

LEMMA AnswerIsForm ==
  ASSUME NEW r \in Starts, NEW body \in Answers(r.provider.id),
         response(r.provider.id, Named(body)) # None, NEW attempts \in Nat
  PROVE  AnswerForm(Spoken(response(r.provider.id, Named(body)), attempts))
PROOF
<1> DEFINE read == response(r.provider.id, Named(body))
<1>1. "items" \in DOMAIN body /\ IsList(body.items)
  BY AnswersAssumption DEF IsList
<1>2. IsList(read.calls)
  BY <1>1, NamedItems, ReadCalls
<1> HIDE DEF read
<1> QED
  BY <1>2 DEF AnswerForm, Spoken, read

Spending == Spent(journal, Len(journal))

(* A run is driven on what one start captured. *)
Captured ==
  \/ input = None /\ sent = 0 /\ pc \in {"idle", "done"}
  \/ \E r \in Starts : input = Input(r)

(* The attempts made are those the journal tells of and those of the call  *)
(* that is made.  Of a call that was cut off nothing is known, and nothing *)
(* is sent after it.                                                       *)
Accounted ==
  /\ pc = "calling" => sent <= Spending + turn.attempt - 1
  /\ pc = "sending" => sent <= Spending + turn.attempt
  /\ pc \notin {"calling", "sending"} /\ Closed(journal) => sent <= Spending

SentInv ==
  /\ ReplayInv /\ AnswersRead(journal)
  /\ sent \in Nat /\ (pc = "idle" => sent = 0) /\ (~input.attached => sent = 0)
  /\ Captured
  /\ pc \notin {"idle", "done"} => turn.attempt \in Nat \ {0}
  /\ pc \in {"calling", "sending"} => Chat(Step)
  /\ pc = "checking" => ~Chat(Step)
  /\ Accounted
  /\ CeilingHeld

LEMMA SpendingNat ==
  ASSUME AnswersRead(journal)
  PROVE  Spending \in Nat
PROOF
<1>1. Len(journal) \in 0..Len(journal)
  BY DEF AnswersRead
<1> QED
  BY <1>1, SpentNat DEF Spending

(* A step that sends nothing and answers no call of the chat. *)
LEMMA NothingSent ==
  ASSUME SentInv, ReplayInv', input' = input, sent' = sent, Keeps(journal, journal'),
         pc # "idle", pc' \notin {"idle", "calling", "sending", "checking"},
         pc' # "done" => pc # "done" /\ turn'.attempt \in Nat \ {0},
         pc \in {"calling", "sending"} => ~Closed(journal')
  PROVE  SentInv'
PROOF
<1>1. /\ AnswersRead(journal)' /\ Spending' = Spending
      /\ Closed(journal') => Closed(journal)
  BY KeepsSpent DEF SentInv, Spending
<1>2. Accounted'
  BY <1>1 DEF SentInv, Accounted
<1>3. Captured'
  BY DEF SentInv, Captured
<1>4. CeilingHeld'
  BY DEF SentInv, CeilingHeld
<1> QED
  BY <1>1, <1>2, <1>3, <1>4 DEF SentInv

(* The call of the chat that is made is the last step of the journal, and  *)
(* the answers before it were reserved by the messages it is made with.    *)
LEMMA CallReserved ==
  ASSUME SentInv, pc \in {"calling", "sending"}
  PROVE  /\ turn.cursor = Len(journal) /\ turn.cursor \in 1..Len(journal)
         /\ Step.kind = "model" /\ Step.state = "running"
         /\ Spending = Spent(journal, Len(journal) - 1)
         /\ ~Closed(journal)
         /\ input.attached => Reserved(input, turn) \in Nat /\ Spending <= Reserved(input, turn)
PROOF
<1>1. /\ turn.cursor \in 1..Len(journal) /\ Step.kind = "model" /\ Step.state = "running"
      /\ Chat(Step)
  BY DEF SentInv, ReplayInv, UnderWay
<1>2. IsTurn(turn) /\ Passes(input, journal, Here)
  BY DEF SentInv, ReplayInv, OnTheWay
<1>3. ~Over(journal[turn.cursor]) /\ ~Closed(journal)
  BY <1>1 DEF Over, Step, Closed
<1>4. turn.cursor = Len(journal)
  BY <1>1, <1>2, <1>3, OpenIsLast
<1>5. AnswersRead(journal) /\ Len(journal) \in Nat
  BY DEF SentInv, AnswersRead
<1>6. Spending = Spent(journal, Len(journal) - 1)
  <2>1. /\ Len(journal) - 1 \in 0..Len(journal) /\ Len(journal) - 1 < Len(journal)
        /\ (Len(journal) - 1) + 1 = Len(journal)
    BY <1>1, <1>5
  <2>2. /\ Spent(journal, Len(journal) - 1) \in Nat
        /\ Spent(journal, (Len(journal) - 1) + 1)
           = Spent(journal, Len(journal) - 1) + Spends(journal[(Len(journal) - 1) + 1])
    BY <1>5, <2>1, SpentNat
  <2>3. Spends(journal[Len(journal)]) = 0
    BY <1>1, <1>4 DEF Spends, Step
  <2> QED
    BY <2>1, <2>2, <2>3 DEF Spending
<1>7. ASSUME input.attached
      PROVE  Reserved(input, turn) \in Nat /\ Spending <= Reserved(input, turn)
  <2>1. PICK r \in Starts : input = Input(r)
    BY DEF SentInv, Captured
  <2> DEFINE m == input.turn_start + 1
  <2>2. Reserving(input.messages, m)
    BY <2>1, InputReserves
  <2> HIDE DEF m
  <2>3. Paid(m, journal, Here)
    BY <1>2, <1>5, <2>2, WayPays
  <2>4. Here.turn.messages = turn.messages /\ Here.turn.cursor = turn.cursor
    BY <1>2, RestAlike DEF Here, At
  <2>5. /\ Reserving(turn.messages, m)
        /\ Spent(journal, turn.cursor - 1) <= dispatched(turn.messages, m)
    BY <2>3, <2>4 DEF Paid
  <2>6. turn_message(turn.messages) = m /\ dispatched(turn.messages, m) \in Nat
    BY <2>5, TurnMessageIs, GrowsItself DEF Grows
  <2>7. Reserved(input, turn) = dispatched(turn.messages, m)
    BY <1>7, <2>6 DEF Reserved
  <2> QED
    BY <1>4, <1>6, <2>5, <2>6, <2>7
<1> QED
  BY <1>1, <1>3, <1>4, <1>6, <1>7

(* So many calls cost no more than the more that were admitted. *)
LEMMA WithinCeiling ==
  ASSUME NEW x \in Nat, NEW y \in Nat, x <= y, NEW c \in Nat, NEW most \in Nat,
         c > 0 => c * y <= most
  PROVE  x * c <= most
PROOF
<1>1. x * c = c * x
  OBVIOUS
<1>2. y - x \in Nat /\ y = x + (y - x)
  OBVIOUS
<1>3. c * y = c * x + c * (y - x)
  BY <1>2
<1>4. c * (y - x) \in Nat /\ c * x \in Nat
  BY <1>2
<1>5. x * c <= c * y
  BY <1>1, <1>3, <1>4
<1>6. CASE c = 0
  <2>1. x * 0 = 0
    OBVIOUS
  <2> QED
    BY <1>6, <2>1
<1>7. CASE c > 0
  <2> DEFINE low == x * c
             high == c * y
  <2>1. low <= high /\ high <= most /\ low \in Nat /\ high \in Nat
    BY <1>1, <1>3, <1>4, <1>5, <1>7
  <2> HIDE DEF low, high
  <2>2. low <= most
    BY <2>1
  <2> QED
    BY <2>2 DEF low
<1> QED
  BY <1>6, <1>7

(* Where the definition goes by itself it makes its first attempt. *)
LEMMA GoesToPlace ==
  ASSUME NEW i, NEW E, NEW p, Passes(i, E, p), NEW to, GoOn(to),
         to.pc # "failed" => Moves(i, E, p, to)
  PROVE  /\ pc' \notin {"idle", "calling", "sending", "checking"}
         /\ pc' # "done" => turn'.attempt = 1
         /\ UNCHANGED <<input, journal, sent>>
PROOF
<1>1. CASE to.pc = "failed"
  BY <1>1 DEF GoOn, Fail, End, Goto
<1>2. CASE to.pc # "failed"
  <2>1. IsPlace(to)
    <3>1. IsPlace(p) /\ Len(E) \in Nat
      BY PassesPlace
    <3> QED
      BY <1>2, <3>1, MovesForward
  <2> QED
    BY <1>2, <2>1 DEF GoOn, Goto, IsPlace
<1> QED
  BY <1>1, <1>2

LEMMA Start_Sent ==
  ASSUME SentInv, ReplayInv', NEW r \in Starts, Start(r)
  PROVE  SentInv'
PROOF
<1>1. pc = "idle" /\ sent = 0 /\ journal = <<>> /\ journal' = journal /\ sent' = sent
  BY DEF Start, SentInv, ReplayInv
<1>2. Closed(journal) /\ Spending' = Spending /\ Spending \in Nat /\ AnswersRead(journal)
  BY <1>1, SpendingNat DEF Closed, SentInv, Spending
<1>3. CASE start(r) # "turn"
  <2>1. pc' = "done" /\ UNCHANGED <<input, turn>>
    BY <1>3 DEF Start, Fail, End, Goto
  <2>2. Captured' /\ Accounted'
    BY <1>1, <1>2, <2>1 DEF SentInv, Captured, Accounted
  <2>3. CeilingHeld'
    <3>1. CASE input = None
      BY <2>1, <3>1 DEF CeilingHeld
    <3>2. ASSUME NEW q \in Starts, input = Input(q) PROVE CeilingHeld'
      <4>1. input.charge \in Nat /\ MaxTurnTokens \in Nat
        BY <3>2, InputReserves, ChargeAssumption
      <4>2. 0 * input.charge = 0
        BY <4>1
      <4>3. sent' * input'.charge = 0
        BY <1>1, <2>1, <4>2
      <4> QED
        BY <4>1, <4>3 DEF CeilingHeld
    <3> QED
      BY <3>1, <3>2 DEF SentInv, Captured
  <2> QED
    BY <1>1, <1>2, <2>1, <2>2, <2>3 DEF SentInv
<1>4. CASE start(r) = "turn"
  <2>1. pc' = "model" /\ input' = Input(r) /\ turn' = Fresh(Input(r))
    BY <1>4 DEF Start, Goto
  <2>2. Captured' /\ Accounted'
    BY <1>1, <1>2, <2>1 DEF SentInv, Captured, Accounted
  <2>3. turn'.attempt = 1
    BY <2>1 DEF Fresh
  <2>4. CeilingHeld'
    <3>1. input'.charge \in Nat /\ MaxTurnTokens \in Nat
      BY <2>1, InputReserves, ChargeAssumption
    <3>2. 0 * input'.charge = 0
      BY <3>1
    <3>3. sent' * input'.charge = 0
      BY <1>1, <3>2
    <3> QED
      BY <3>1, <3>3 DEF CeilingHeld
  <2> QED
    BY <1>1, <1>2, <2>1, <2>2, <2>3, <2>4 DEF SentInv
<1> QED
  BY <1>3, <1>4

LEMMA Dispatch_Sent ==
  ASSUME SentInv, ReplayInv', Dispatch
  PROVE  SentInv'
PROOF
<1>1. /\ UNCHANGED <<input, turn, sent>> /\ journal' = Append(journal, ModelStep(Asked))
      /\ pc \in {"model", "check"} /\ pc' = IF pc = "model" THEN "calling" ELSE "checking"
  BY DEF Dispatch, AtCall, Goto
<1>2. IsJournal(journal) /\ Len(journal) \in Nat /\ IsList(journal)
  BY JournalList DEF SentInv, ReplayInv
<1>3. Keeps(journal, journal')
  BY <1>1, <1>2, KeepsAsked DEF ModelStep
<1>4. /\ AnswersRead(journal)' /\ Spending' = Spending
      /\ Closed(journal') => Closed(journal)
  BY <1>3, KeepsSpent DEF SentInv, Spending
<1>5. /\ Len(journal') = Len(journal) + 1 /\ journal'[Len(journal) + 1] = ModelStep(Asked)
      /\ \A c \in 1..Len(journal) : journal'[c] = journal[c]
  BY <1>1, <1>2, ListGrows
<1>6. /\ turn'.cursor \in 1..Len(journal') /\ Passes(input', journal', Here')
      /\ journal'[turn'.cursor].state = "running"
  BY <1>1 DEF ReplayInv, OnTheWay, UnderWay, Step
<1>7. Closed(journal)
  <2> SUFFICES ASSUME NEW c \in 1..Len(journal), Chat(journal[c]), journal[c].state # "done"
               PROVE  FALSE
    BY DEF Closed
  <2>1. c \in 1..Len(journal') /\ c # Len(journal')
    BY <1>2, <1>5
  <2>2. ~Over(journal'[c])
    BY <1>5 DEF Over, Chat
  <2> QED
    BY <1>6, <2>1, <2>2, OpenIsLast
<1>8. turn.cursor = Len(journal) + 1
  <2>1. ~Over(journal'[turn'.cursor])
    <3>1. journal'[turn'.cursor].kind = "model"
      BY <1>1 DEF ReplayInv, UnderWay, Step
    <3> QED
      BY <1>6, <3>1 DEF Over
  <2>2. turn'.cursor = Len(journal')
    BY <1>6, <2>1, OpenIsLast
  <2> QED
    BY <1>1, <1>5, <2>2
<1>9. Step' = ModelStep(Asked)
  BY <1>1, <1>5, <1>8 DEF Step
<1>10. Chat(Step') <=> pc = "model"
  BY <1>1, <1>9 DEF ModelStep, Asked, chat_request, check_request, Chat
<1>11. Spending \in Nat /\ sent <= Spending /\ sent \in Nat /\ turn.attempt \in Nat \ {0}
  BY <1>1, <1>7, SpendingNat DEF SentInv, Accounted
<1>12. Accounted'
  <2>1. pc' # "sending" /\ (pc' = "calling" => turn'.attempt = turn.attempt)
    BY <1>1
  <2> QED
    BY <1>1, <1>4, <1>11, <2>1 DEF Accounted
<1>13. Captured' /\ CeilingHeld'
  BY <1>1 DEF SentInv, Captured, CeilingHeld
<1> QED
  BY <1>1, <1>4, <1>10, <1>11, <1>12, <1>13 DEF SentInv

(* The attempt is within the ceiling, those before it counted. *)
LEMMA Attempt_Sent ==
  ASSUME SentInv, ReplayInv', Attempt
  PROVE  SentInv'
PROOF
<1>1. /\ pc = "calling" /\ pc' = "sending" /\ UNCHANGED <<input, journal, turn>>
      /\ sent' = IF input.attached THEN sent + 1 ELSE sent
  BY DEF Attempt, Goto
<1>2. /\ sent \in Nat /\ turn.attempt \in Nat \ {0} /\ Spending \in Nat
      /\ sent <= Spending + turn.attempt - 1
  BY <1>1, SpendingNat DEF SentInv, Accounted
<1>3. sent' \in Nat /\ sent' <= Spending + turn.attempt
  BY <1>1, <1>2
<1>4. Accounted'
  BY <1>1, <1>3 DEF Accounted, Spending
<1>5. CeilingHeld'
  <2>1. CASE ~input.attached
    BY <1>1, <2>1 DEF SentInv, CeilingHeld
  <2>2. CASE input.attached
    <3> DEFINE reserved == Reserved(input, turn)
               charge == input.charge
               a == turn.attempt
    <3>1. reserved \in Nat /\ Spending <= reserved
      BY <1>1, <2>2, CallReserved
    <3>2. charge \in Nat /\ MaxTurnTokens \in Nat
      <4>1. PICK r \in Starts : input = Input(r)
        BY <1>1 DEF SentInv, Captured
      <4> QED
        BY <4>1, InputReserves, ChargeAssumption
    <3>3. charge > 0 => charge * (reserved + a - 1 + 1) <= MaxTurnTokens
      BY <2>2 DEF Attempt, admit_call
    <3>4. a \in Nat
      BY <1>2
    <3> HIDE DEF reserved, charge, a
    <3>5. reserved + a - 1 + 1 = reserved + a /\ reserved + a \in Nat
      BY <3>1, <3>4
    <3>6. sent' <= reserved + a
      <4>1. sent' <= Spending + a
        BY <1>3 DEF a
      <4> QED
        BY <1>2, <1>3, <3>1, <3>4, <4>1
    <3>7. charge > 0 => charge * (reserved + a) <= MaxTurnTokens
      BY <3>3, <3>5
    <3>8. sent' * charge <= MaxTurnTokens
      BY <1>3, <3>2, <3>5, <3>6, <3>7, WithinCeiling
    <3>9. input'.charge = charge
      BY <1>1 DEF charge
    <3> QED
      BY <3>8, <3>9 DEF CeilingHeld
  <2> QED
    BY <2>1, <2>2
<1>6. Captured'
  BY <1>1 DEF SentInv, Captured
<1>7. AnswersRead(journal)' /\ (~input'.attached => sent' = 0) /\ Chat(Step')
  BY <1>1 DEF SentInv, Step
<1> QED
  BY <1>1, <1>2, <1>3, <1>4, <1>5, <1>6, <1>7 DEF SentInv

LEMMA Retry_Sent ==
  ASSUME SentInv, ReplayInv', Retry
  PROVE  SentInv'
PROOF
<1>1. /\ pc = "sending" /\ pc' = "calling" /\ UNCHANGED <<input, journal, sent>>
      /\ turn' = [turn EXCEPT !.attempt = @ + 1]
  BY DEF Retry, Goto
<1>2. IsTurn(turn)
  BY <1>1 DEF SentInv, ReplayInv, OnTheWay
<1>3. turn'.attempt = turn.attempt + 1 /\ turn'.cursor = turn.cursor
  BY <1>1, <1>2, Zenon DEF IsTurn, Fields
<1>4. /\ sent \in Nat /\ turn.attempt \in Nat \ {0} /\ Spending \in Nat
      /\ sent <= Spending + turn.attempt
  BY <1>1, SpendingNat DEF SentInv, Accounted
<1>5. Accounted'
  <2>1. sent' <= Spending' + turn'.attempt - 1
    BY <1>1, <1>3, <1>4 DEF Spending
  <2> QED
    BY <1>1, <2>1 DEF Accounted
<1>6. Captured' /\ CeilingHeld'
  BY <1>1 DEF SentInv, Captured, CeilingHeld
<1>7. /\ AnswersRead(journal)' /\ (~input'.attached => sent' = 0) /\ Chat(Step')
      /\ turn'.attempt \in Nat \ {0}
  BY <1>1, <1>3, <1>4 DEF SentInv, Step
<1> QED
  BY <1>1, <1>4, <1>5, <1>6, <1>7 DEF SentInv

(* A call that failed is told of by no answer. *)
LEMMA FailedKeeps ==
  ASSUME SentInv, turn.cursor \in 1..Len(journal), Step.kind = "model", Step.state = "running",
         NEW state, NEW result, Settle(state, result), state = "failed" \/ ~Chat(Step)
  PROVE  /\ Keeps(journal, journal')
         /\ state = "failed" /\ Chat(Step) => ~Closed(journal')
PROOF
<1>1. IsJournal(journal) /\ Len(journal) \in Nat
  BY JournalList DEF SentInv, ReplayInv
<1>2. /\ Len(journal') = Len(journal)
      /\ \A c \in 1..Len(journal) : c # turn.cursor => journal'[c] = journal[c]
      /\ journal'[turn.cursor].kind = "model"
      /\ journal'[turn.cursor].request = Step.request
      /\ journal'[turn.cursor].state = state
  BY <1>1, SettleIs
<1>3. Chat(journal'[turn.cursor]) <=> Chat(Step)
  BY <1>2 DEF Chat
<1>4. \A c \in 1..Len(journal) :
        /\ Chat(journal'[c]) <=> Chat(journal[c])
        /\ Chat(journal[c]) =>
             /\ journal'[c].state = "done" <=> journal[c].state = "done"
             /\ journal[c].state = "done" => journal'[c].answer = journal[c].answer
  BY <1>2, <1>3 DEF Step
<1> QED
  BY <1>1, <1>2, <1>3, <1>4 DEF Keeps, Closed

LEMMA ResultsKeep ==
  ASSUME NEW E, IsJournal(E), E # <<>>, E[Len(E)].kind = "team", NEW results
  PROVE  Keeps(E, [E EXCEPT ![Len(E)].results = results])
PROOF
<1> DEFINE n == Len(E)
           step == [E[n] EXCEPT !.results = results]
           F == [E EXCEPT ![n] = step]
<1>1. E = [d \in 1..n |-> E[d]] /\ n \in Nat
  BY JournalList DEF IsList
<1>2. n \in 1..n
  <2>1. PICK S : E \in Seq(S)
    BY DEF IsJournal
  <2> QED
    BY <2>1
<1>3. StepForm(E[n])
  BY <1>2 DEF IsJournal
<1>4. step.kind = "team"
  BY <1>3, Zenon DEF StepForm
<1>5. [E EXCEPT ![n].results = results] = F
  BY Zenon
<1> HIDE DEF step
<1>6. F = [d \in 1..n |-> F[d]] /\ F[n] = step /\ \A d \in 1..n : d # n => F[d] = E[d]
  BY <1>1, <1>2
<1> HIDE DEF F
<1>7. Len(F) = n
  BY <1>1, <1>6, ListOf
<1>8. ~Chat(F[n]) /\ ~Chat(E[n])
  BY <1>4, <1>6 DEF Chat
<1>9. Keeps(E, F)
  BY <1>1, <1>6, <1>7, <1>8 DEF Keeps
<1> QED
  BY <1>5, <1>9

(* An answer tells of the attempts it took. *)
LEMMA Answer_Sent ==
  ASSUME SentInv, ReplayInv', pc = "sending", NEW body \in Answers(input.provider), Answer(body)
  PROVE  SentInv'
PROOF
<1>1. pc = "sending" /\ pc' = "model" /\ UNCHANGED <<input, turn, sent>>
  BY DEF Answer, Goto
<1> DEFINE read == response(input.provider, Named(body))
<1>2. /\ turn.cursor = Len(journal) /\ turn.cursor \in 1..Len(journal)
      /\ Step.kind = "model" /\ Step.state = "running" /\ Chat(Step)
      /\ Spending = Spent(journal, Len(journal) - 1)
  BY <1>1, CallReserved DEF SentInv
<1>3. turn.attempt \in Nat \ {0} /\ sent \in Nat /\ sent <= Spending + turn.attempt
  BY <1>1 DEF SentInv, Accounted
<1>4. CASE read = None
  <2>1. Settle("failed", "provider")
    BY <1>4 DEF Answer
  <2>2. Keeps(journal, journal') /\ ~Closed(journal')
    BY <1>2, <2>1, FailedKeeps
  <2> QED
    BY <1>1, <1>3, <2>2, NothingSent
<1>5. CASE read # None
  <2> DEFINE spoken == Spoken(read, turn.attempt)
             n == Len(journal)
  <2>1. Settle("done", spoken)
    BY <1>5 DEF Answer
  <2>2. AnswerForm(spoken) /\ spoken.attempts = turn.attempt
    <3>1. PICK r \in Starts : input = Input(r)
      BY <1>1 DEF SentInv, Captured
    <3>2. input.provider = r.provider.id
      BY <3>1 DEF Input
    <3>3. AnswerForm(spoken)
      BY <1>3, <1>5, <3>2, AnswerIsForm
    <3> QED
      BY <3>3 DEF Spoken
  <2> HIDE DEF spoken, read
  <2>3. /\ Len(journal') = n
        /\ \A c \in 1..n : c # n => journal'[c] = journal[c]
        /\ journal'[n].kind = "model" /\ journal'[n].request = Step.request
        /\ journal'[n].state = "done" /\ journal'[n].answer = spoken
    BY <1>2, <2>1, SettleIs DEF SentInv, ReplayInv
  <2>4. Chat(journal'[n]) /\ Spends(journal'[n]) = turn.attempt
    BY <1>2, <2>2, <2>3 DEF Chat, Spends
  <2>5. AnswersRead(journal') /\ n \in Nat /\ n - 1 \in 0..n
    <3>1. n \in Nat /\ n \in 1..n
      BY <1>2 DEF SentInv, AnswersRead
    <3> QED
      BY <2>2, <2>3, <3>1 DEF SentInv, AnswersRead
  <2>6. Spent(journal', n - 1) = Spending
    <3>1. \A c \in 1..n - 1 : Spends(journal'[c]) = Spends(journal[c])
      <4>1. \A c \in 1..n - 1 : c \in 1..n /\ c # n
        BY <2>5
      <4> QED
        BY <2>3, <4>1
    <3>2. Len(journal') \in Nat /\ n - 1 \in Nat /\ n - 1 <= Len(journal') /\ n - 1 <= n
      BY <2>3, <2>5, <1>2
    <3>3. Spent(journal', n - 1) = Spent(journal, n - 1)
      BY <2>5, <3>1, <3>2, SpentSame
    <3> QED
      BY <1>2, <3>3
  <2>7. Spending' = Spending + turn.attempt
    <3>1. n - 1 \in 0..Len(journal') /\ n - 1 < Len(journal') /\ (n - 1) + 1 = n
      BY <1>2, <2>3, <2>5
    <3>2. Spent(journal', (n - 1) + 1) = Spent(journal', n - 1) + Spends(journal'[(n - 1) + 1])
      BY <2>5, <3>1, SpentNat
    <3>3. Spent(journal', n) = Spending + turn.attempt
      BY <2>4, <2>6, <3>1, <3>2
    <3> QED
      BY <2>3, <3>3 DEF Spending
  <2>8. Accounted'
    BY <1>1, <1>3, <2>7 DEF Accounted
  <2>9. Captured' /\ CeilingHeld'
    BY <1>1 DEF SentInv, Captured, CeilingHeld
  <2> QED
    BY <1>1, <1>3, <2>5, <2>8, <2>9 DEF SentInv
<1> QED
  BY <1>4, <1>5

LEMMA Init_Sent ==
  Init => SentInv
PROOF
<1> SUFFICES ASSUME Init PROVE SentInv
  OBVIOUS
<1>1. ReplayInv /\ pc = "idle" /\ input = None /\ sent = 0 /\ journal = <<>>
  BY Init_Replay DEF Init
<1>2. Len(<<>>) = 0
  OBVIOUS
<1>3. AnswersRead(journal) /\ Closed(journal)
  BY <1>1, <1>2 DEF AnswersRead, Closed
<1>4. Accounted
  BY <1>1, <1>3, SpendingNat DEF Accounted
<1> QED
  BY <1>1, <1>3, <1>4 DEF SentInv, Captured, CeilingHeld

LEMMA Next_Sent ==
  SentInv /\ [Next]_vars => SentInv'
PROOF
<1> SUFFICES ASSUME SentInv, [Next]_vars PROVE SentInv'
  OBVIOUS
<1>1. ReplayInv /\ ReplayInv'
  BY Next_Replay DEF SentInv
<1>2. IsJournal(journal) /\ Len(journal) \in Nat /\ Keeps(journal, journal)
  BY <1>1, JournalList, KeepsItself DEF ReplayInv
<1>3. pc \notin {"idle", "done"} => turn.attempt \in Nat \ {0}
  BY DEF SentInv
<1>4. ASSUME NEW r \in Starts, Start(r) PROVE SentInv'
  BY <1>1, <1>4, Start_Sent
<1>5. CASE Dispatch
  BY <1>1, <1>5, Dispatch_Sent
<1>6. CASE Interrupted
  <2>1. /\ AtCall /\ Replaying /\ UNCHANGED <<input, turn, sent>>
        /\ Step.kind # "model" \/ Step.state = "running"
    BY <1>6 DEF Interrupted
  <2>2. turn.cursor \in 1..Len(journal) /\ Step.kind = "model" /\ Step.request = Asked
    BY <1>1, <2>1, CallAgrees
  <2>3. Settle("failed", "provider") /\ pc' = pc /\ pc \in {"model", "check"}
    BY <1>6, <2>1, <2>2 DEF Interrupted, AtCall
  <2>4. Keeps(journal, journal')
    BY <2>1, <2>2, <2>3, FailedKeeps
  <2> QED
    BY <1>1, <1>3, <2>1, <2>3, <2>4, NothingSent
<1>7. CASE Failed \/ Exceed \/ Unproposed \/ Confirm
  <2>1. pc \in {"model", "check"} /\ pc' = "done" /\ UNCHANGED <<input, journal, sent>>
    BY <1>7 DEF Failed, Exceed, Unproposed, Confirm, AtCall, Fail, End, Goto
  <2> QED
    BY <1>1, <1>2, <2>1, NothingSent
<1>8. CASE Refuse \/ GiveUpCall
  <2>1. /\ pc \in {"calling", "sending"} /\ pc' = "model" /\ UNCHANGED <<input, turn, sent>>
        /\ \E why : Settle("failed", why)
    BY <1>8 DEF Refuse, GiveUpCall, Goto
  <2>2. /\ turn.cursor \in 1..Len(journal) /\ Step.kind = "model" /\ Step.state = "running"
        /\ Chat(Step)
    BY <2>1, CallReserved DEF SentInv
  <2>3. Keeps(journal, journal') /\ ~Closed(journal')
    BY <2>1, <2>2, FailedKeeps
  <2> QED
    BY <1>1, <1>3, <2>1, <2>3, NothingSent
<1>9. CASE Attempt
  BY <1>1, <1>9, Attempt_Sent
<1>10. CASE Retry
  BY <1>1, <1>10, Retry_Sent
<1>11. ASSUME pc = "sending", NEW body \in Answers(input.provider), Answer(body) PROVE SentInv'
  BY <1>1, <1>11, Answer_Sent
<1>12. CASE Receive \/ Review \/ RunTools \/ TeamAnswered \/ SettleTurn
  <2>1. pc \in {"model", "review", "tools", "settle"}
    BY <1>1, <1>12, MovesOn
  <2>2. PICK to : GoOn(to) /\ (to.pc # "failed" => Moves(input, journal, Here, to))
    BY <1>1, <1>12, MovesOn
  <2>3. Passes(input, journal, Here)
    BY <1>1, <2>1 DEF ReplayInv, OnTheWay
  <2>4. /\ pc' \notin {"idle", "calling", "sending", "checking"}
        /\ pc' # "done" => turn'.attempt = 1
        /\ UNCHANGED <<input, journal, sent>>
    BY <2>2, <2>3, GoesToPlace
  <2> QED
    BY <1>1, <1>2, <2>1, <2>4, NothingSent
<1>13. CASE AskTeam
  <2>1. /\ pc = "tools" /\ pc' = "waiting" /\ UNCHANGED <<input, turn, sent>>
        /\ journal' = Append(journal, TeamStep(requests(input, turn)))
    BY <1>13 DEF AskTeam, AtTeam, Goto
  <2>2. Keeps(journal, journal')
    BY <1>2, <2>1, KeepsAsked DEF Chat, TeamStep
  <2> QED
    BY <1>1, <1>3, <2>1, <2>2, NothingSent
<1>14. CASE Rewait
  <2>1. /\ pc = "tools" /\ pc' \in {"waiting", "done"} /\ UNCHANGED <<input, turn, journal, sent>>
    BY <1>14 DEF Rewait, AtTeam, Fail, End, Goto
  <2> QED
    BY <1>1, <1>2, <1>3, <2>1, NothingSent
<1>15. CASE Resume
  <2>1. pc = "waiting" /\ pc' = "model" /\ turn' = Fresh(input) /\ UNCHANGED <<input, sent>>
    BY <1>15, Zenon DEF Resume, Goto
  <2>2. PICK results : journal' = [journal EXCEPT ![Len(journal)].results = results]
    BY <1>15, Zenon DEF Resume
  <2>3. journal # <<>> /\ journal[Len(journal)].kind = "team"
    BY <1>1, <2>1 DEF ReplayInv, UnderWay
  <2>4. Keeps(journal, journal')
    BY <1>2, <2>2, <2>3, ResultsKeep
  <2>5. turn'.attempt = 1
    BY <2>1 DEF Fresh
  <2> QED
    BY <1>1, <2>1, <2>4, <2>5, NothingSent
<1>16. CASE Check
  <2>1. /\ pc = "checking" /\ pc' = "check" /\ UNCHANGED <<input, turn, sent>>
        /\ \E state, result : Settle(state, result)
    <3>1. pc = "checking" /\ pc' = "check" /\ UNCHANGED <<input, turn, sent>>
      BY <1>16 DEF Check, Goto
    <3>2. \E state, result : Settle(state, result)
      BY <1>16 DEF Check
    <3> QED
      BY <3>1, <3>2
  <2>2. /\ turn.cursor \in 1..Len(journal) /\ Step.kind = "model" /\ Step.state = "running"
        /\ ~Chat(Step)
    BY <1>1, <2>1 DEF SentInv, ReplayInv, UnderWay
  <2>3. Keeps(journal, journal')
    BY <2>1, <2>2, FailedKeeps
  <2> QED
    BY <1>1, <1>3, <2>1, <2>3, NothingSent
<1>17. CASE Crash
  <2>1. /\ pc \notin {"idle", "waiting", "done"} /\ pc' = "model" /\ turn' = Fresh(input)
        /\ UNCHANGED <<input, journal, sent>>
    BY <1>17 DEF Crash, Goto
  <2>2. turn'.attempt = 1
    BY <2>1 DEF Fresh
  <2>3. pc \in {"calling", "sending"} => ~Closed(journal')
    BY <2>1, CallReserved
  <2> QED
    BY <1>1, <1>2, <2>1, <2>2, <2>3, NothingSent
<1>18. CASE UNCHANGED vars
  <2>1. UNCHANGED <<input, journal, turn, pc, sent>>
    BY <1>18 DEF vars
  <2>2. AnswersRead(journal)' /\ Spending' = Spending /\ Step' = Step
    BY <2>1 DEF SentInv, Spending, Step
  <2>3. Captured' /\ Accounted' /\ CeilingHeld'
    BY <2>1, <2>2 DEF SentInv, Captured, Accounted, CeilingHeld
  <2> QED
    BY <1>1, <2>1, <2>2, <2>3 DEF SentInv
<1> QED
  BY <1>4, <1>5, <1>6, <1>7, <1>8, <1>9, <1>10, <1>11, <1>12, <1>13, <1>14, <1>15,
     <1>16, <1>17, <1>18 DEF Next

(* Every attempt that carried the turn's attachments, those of a process   *)
(* that crashed and those whose answer was lost included, was admitted     *)
(* with every attempt before it counted: together they stay within         *)
(* MAX_TURN_TOKENS (attachments.rs: admit_call, dispatched; model.rs:      *)
(* chat), though each drive counts them anew from its messages.            *)
THEOREM CeilingKept == Spec => []CeilingHeld
PROOF
<1>1. SentInv => CeilingHeld
  BY DEF SentInv
<1> QED
  BY <1>1, Init_Sent, Next_Sent, PTL DEF Spec
=============================================================================
