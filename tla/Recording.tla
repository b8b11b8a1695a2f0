----------------------------- MODULE Recording -----------------------------
(***************************************************************************)
(* Routines recorded and refined from a chat send (runtime/src/tools/      *)
(* routine.rs, routine/refine.rs, routine/rerun.rs) over the canonical     *)
(* forms of Routines: the context Team sends, the work the model runs, the *)
(* call of shimpz_routine that ends the turn, and the card a person        *)
(* confirms.                                                               *)
(*                                                                         *)
(* Team is external: it keeps one Routine, traces the calls of a send,     *)
(* applies what the guard recorded as the tool's schema says (insert adds  *)
(* after a step, replace puts a call in its place), and checks of the      *)
(* calls it traced, but of nothing else, that what they read is in the     *)
(* plan.                                                                   *)
(***************************************************************************)
EXTENDS Routines

CONSTANTS
  MaxSends,    \* bound: sends
  MaxCalls,    \* bound: traced calls of one send
  MaxRevision, \* bound: revisions of the Routine
  Ids,         \* the step ids, a set of texts
  Values,      \* what a call may send and a result may hold
  Identifiers, \* the values only a result or the person can source
  Questions,   \* the questions a send may answer, or none
  Edits,       \* the edits a model may name
  Source,      \* the work whose result holds values
  Fresh,       \* the work whose input must be fresh in a rerun
  FirstPlan    \* the plan of the Routine's first revision

(* A step that is in no place of a plan has no place. *)
PlaceAssumption == Null \notin Nat
ASSUME PlaceAssumption

(* An edit is of a kind the tool's schema names; its calls are a list. *)
EditsAssumption ==
  \A e \in Edits : /\ e.kind \in {"insert", "replace", "remove"}
                   /\ e.calls = [n \in 1..Len(e.calls) |-> e.calls[n]]
                   /\ Len(e.calls) \in Nat
ASSUME EditsAssumption

(* What the first plan reads comes earlier in it. *)
FirstPlanAssumption ==
  /\ Len(FirstPlan) \in Nat
  /\ FirstPlan = [k \in 1..Len(FirstPlan) |-> FirstPlan[k]]
  /\ \A k \in DOMAIN FirstPlan :
       \A i \in FirstPlan[k].inputs :
         \E p \in 1..(k - 1) :
           i = [member |-> "m", source |-> "step_output", step |-> p, pointer |-> "t",
                where |-> Null, item |-> Null]
ASSUME FirstPlanAssumption

VARIABLES
  plan,      \* the Routine's steps
  revision,  \* its revision
  shown,     \* the Routine as Team last read it for a send
  messages,  \* what the model sees: user messages and Action results
  send,      \* the running send's context, or Null
  trace,     \* the calls Team ran in the send
  sends,     \* sends so far
  card       \* the card a person may confirm, or Null

vars == <<plan, revision, shown, messages, send, trace, sends, card>>

(* The handle of a send's k-th call. *)
Handle(k) == <<"c", k>>

-----------------------------------------------------------------------------
(* The context of a send *)

Schedule == [kind |-> "daily", time |-> "t"]

Listing ==
  [routine_id |-> "r", name |-> "t", schedule |-> Schedule, timezone |-> "UTC",
   timezone_source |-> "none", revision |-> revision,
   daily_steps |-> daily_cap(Schedule) * Len(plan),
   output |-> "show", steps |-> plan]

Selected(steps, rev) ==
  [routine_id |-> "r", name |-> "t", description |-> "t", revision |-> rev,
   output |-> [mode |-> "show", step |-> Last(steps).id], steps |-> steps,
   last_run |-> Null]

settings_question(q) == q # Null /\ q.code \in SettingsCodes

(* A settings answer answers a settings question, with the reading Team    *)
(* took from it.                                                           *)
settled(c) ==
  /\ settings_question(c.question)
  /\ IF c.question.code = "routine-output-unstated" THEN c.output # Null
     ELSE c.schedule # Null

(* The fields Team sends a recording field with. *)
sent_with(c, field) ==
  CASE field = "selected" ->
         /\ c.mode /\ canonical_selected_routine(c.selected)
         /\ \E k \in DOMAIN c.routines :
              /\ c.routines[k].routine_id = c.selected.routine_id
              /\ c.routines[k].revision = c.selected.revision
    [] field \in {"question", "schedule"} -> c.mode
    [] field = "rerun" -> c.question # Null /\ c.question.code = "routine-work-rerun"
    [] field = "output" -> TRUE

admitted(c, field) ==
  /\ c.routines # Null /\ sent_with(c, field)
  /\ field = "question" => canonical_question(c.question)
  /\ field = "rerun" => canonical_rerun(c.rerun)
  /\ field = "schedule" => canonical_schedule(c.schedule)
  /\ field = "output" => c.output \in OutputModes

(* Recordings come only beside the Team's Routines, never with attachments.*)
admit_context(c) ==
  /\ c.routines # Null => ~c.attachments /\ canonical_routine_listings(c.routines)
  /\ c.mode => c.routines # Null
  /\ \A field \in {"question", "rerun", "schedule", "output", "selected"} :
       c[field] # Null => admitted(c, field)
  /\ c.settings_answer => settled(c)

-----------------------------------------------------------------------------
(* The guards of a send *)

User(written) == [role |-> "user", call |-> Null, work |-> Null, values |-> written]
Result(call, work, values) ==
  [role |-> "tool", call |-> call, work |-> work, values |-> values]

(* Mutant: the turn starts at the first message. *)
ThisTurnAll(ms) == ms

(* The messages from the last user message on. *)
this_turn(ms) ==
  LET users == {k \in DOMAIN ms : ms[k].role = "user"}
  IN SubSeq(ms, IF users = {} THEN 1 ELSE Max(users), Len(ms))

(* Mutant: the handles of the whole conversation. *)
CallHandlesEver(ms) ==
  {m.call : m \in {x \in ToSet(ms) : x.role = "tool"}} \ {Null}

(* The handles of this turn's results. *)
call_handles(ms) ==
  {m.call : m \in {x \in ToSet(this_turn(ms)) : x.role = "tool"}} \ {Null}

(* The Action tools a send offers. *)
Actions == {Source, Fresh}

(* The members every slot of a work marks fresh. *)
checked(work, tool) ==
  LET slots == {k \in DOMAIN work : work[k].work = tool}
      fresh(k) == {i.member : i \in {j \in work[k].inputs : j.kind = "fresh"}}
  IN IF slots = {} THEN {}
     ELSE {m \in UNION {fresh(k) : k \in slots} : \A k \in slots : m \in fresh(k)}

(* A fresh identifier comes from an Action's result of this turn, or is    *)
(* written by the person now.                                              *)
rerun_review(ms, work, tool, member, value) ==
  \/ member \notin checked(work, tool)
  \/ value \notin Identifiers
  \/ \E m \in ToSet(this_turn(ms)) :
       (m.role = "user" \/ m.work \in Actions) /\ value \in m.values

(* Mutant: only a removed step is gone. *)
ReadAfterRemoved(selected, edits) ==
  LET gone == {k \in DOMAIN selected.steps :
                 \E j \in DOMAIN edits : /\ edits[j].kind = "remove"
                                         /\ edits[j].step = selected.steps[k].id}
  IN \E k \in DOMAIN selected.steps \ gone :
       \E i \in selected.steps[k].inputs : i.source = "step_output" /\ i.step \in gone

(* A step the edits keep reads one they remove or replace. *)
read_after(selected, edits) ==
  LET gone == {k \in DOMAIN selected.steps :
                 \E j \in DOMAIN edits : /\ edits[j].kind \in {"remove", "replace"}
                                         /\ edits[j].step = selected.steps[k].id}
  IN \E k \in DOMAIN selected.steps \ gone :
       \E i \in selected.steps[k].inputs : i.source = "step_output" /\ i.step \in gone

(* Exactly the selected Routine as shown, and only its own steps. *)
names_selection(args, selected) ==
  /\ args.routine_id = selected.routine_id
  /\ args.base_revision = selected.revision
  /\ args.name = Null /\ args.replaces = Null
  /\ \A k \in DOMAIN args.edits :
       \E j \in DOMAIN selected.steps : selected.steps[j].id = args.edits[k].step

Recorded(outcome) == [why |-> "recorded", outcome |-> outcome]
Correct(field) == [why |-> field, outcome |-> Null]

refined(args, selected, handles) ==
  IF ~(canonical_edits(args.edits) /\ names_selection(args, selected))
  THEN Correct("refine")
  ELSE IF args.description \notin Text THEN Correct("description")
  ELSE IF ~(ToSet(Calls(args.edits)) \subseteq handles) THEN Correct("calls")
  ELSE IF read_after(selected, args.edits) THEN Correct("dependency")
  ELSE IF args.edits = <<>> /\ args.description = selected.description
       THEN Correct("empty")
  ELSE IF ~args.reply THEN Correct("reply")
  ELSE Recorded([kind |-> "refine", routine_id |-> selected.routine_id,
                 base_revision |-> selected.revision,
                 description |-> args.description, edits |-> args.edits])

recorded_outcome(args, c) ==
  IF args.name \notin Text THEN Correct("name")
  ELSE IF args.description \notin Text THEN Correct("description")
  ELSE IF /\ args.replaces # Null
          /\ \A k \in DOMAIN c.routines : c.routines[k].routine_id # args.replaces
       THEN Correct("replaces")
  ELSE IF ~args.reply THEN Correct("reply")
  ELSE Recorded([kind |-> "record", name |-> args.name,
                 description |-> args.description, replaces |-> args.replaces])

RefineMembers == {"routine_id", "base_revision", "edits"}
required(refinable) ==
  {"op", "name", "description", "replaces", "reply"}
    \cup (IF refinable THEN RefineMembers ELSE {})

(* The outcome of a lone call of the tool, or the field that is corrected. *)
record(args, c, handles) ==
  LET refinable == c.selected # Null
  IN IF DOMAIN args # required(refinable)
     THEN Correct(IF refinable THEN "refine" ELSE "invalid")
     ELSE IF refinable /\ args.op = "refine" THEN refined(args, c.selected, handles)
     ELSE IF refinable /\ \E m \in RefineMembers : args[m] # Null THEN Correct("refine")
     ELSE IF args.op # "record" THEN Correct("invalid")
     ELSE recorded_outcome(args, c)

-----------------------------------------------------------------------------
(* Team (external) *)

Reads(position) ==
  [member |-> "m", source |-> "step_output", step |-> position, pointer |-> "t",
   where |-> Null, item |-> Null]
CardReads(position) ==
  [member |-> "m", origin |-> "step", value |-> Null, step |-> position,
   pointer |-> "t", where |-> Null, item |-> Null]

Call(h) == trace[CHOOSE k \in DOMAIN trace : trace[k].handle = h]

(* The entries of the plan the edits make: base positions and calls. *)
Kept(k) == [change |-> "kept", base |-> k, call |-> Null]
Ran(change, base, h) == [change |-> change, base |-> base, call |-> h]

Entries(edits) ==
  LET ran(k, e) ==
        CASE e.step # plan[k].id \/ e.kind = "remove" -> <<>>
          [] e.step = plan[k].id /\ e.kind = "replace" -> <<Ran("replaced", k, e.calls[1])>>
          [] e.step = plan[k].id /\ e.kind = "insert" ->
               [n \in DOMAIN e.calls |-> Ran("added", Null, e.calls[n])]
      made(k) == FlattenSeq([j \in DOMAIN edits |-> ran(k, edits[j])])
      stays(k) ==
        \A j \in DOMAIN edits : edits[j].step = plan[k].id => edits[j].kind = "insert"
  IN FlattenSeq([k \in DOMAIN plan |->
       (IF stays(k) THEN <<Kept(k)>> ELSE <<>>) \o made(k)])

(* The first of some places, or 0 when there is none. *)
First(places) == IF places = {} THEN 0 ELSE Min(places)

(* Where a base step, or a call, is in the entries. *)
BasePlace(entries, base) == First({k \in DOMAIN entries : entries[k].base = base})
CallPlace(entries, h) == First({k \in DOMAIN entries : entries[k].call = h})

CardStep(entries, k) ==
  LET e == entries[k]
      read == IF e.change = "kept"
              THEN {BasePlace(entries, i.step) : i \in plan[e.base].inputs}
              ELSE IF Call(e.call).reads = Null THEN {}
              ELSE {CallPlace(entries, Call(e.call).reads)}
      work == IF e.change = "kept" THEN plan[e.base].work ELSE Call(e.call).work
  IN [position |-> k, work |-> work, inputs |-> {CardReads(p) : p \in read},
      change |-> e.change, base |-> e.base]

Removed(edits) ==
  LET gone(k) == SelectSeq(edits, LAMBDA e : e.step = plan[k].id /\ e.kind # "insert")
      entry(k, j) ==
        [position |-> k, work |-> plan[k].work,
         change |-> IF gone(k)[j].kind = "remove" THEN "removed" ELSE "replaced"]
  IN FlattenSeq([k \in DOMAIN plan |-> [j \in DOMAIN gone(k) |-> entry(k, j)]])

Refinement(outcome) ==
  LET entries == Entries(outcome.edits)
  IN [kind |-> "refine", routine_id |-> "r", base_revision |-> outcome.base_revision,
      name |-> "t", description |-> outcome.description, schedule |-> Schedule,
      timezone |-> "UTC", timezone_source |-> "none", output |-> "show",
      steps |-> [k \in DOMAIN entries |-> CardStep(entries, k)],
      removed |-> Removed(outcome.edits)]

(* A call Team traced reads only what is before it in the plan. *)
Traced(c) ==
  \A k \in DOMAIN c.steps :
    c.steps[k].change # "kept" => \A i \in c.steps[k].inputs : i.step \in 1..(k - 1)

Proposal(outcome) ==
  [kind |-> "record", replaces |-> outcome.replaces,
   name |-> "t", description |-> outcome.description, schedule |-> Schedule,
   timezone |-> "UTC", timezone_source |-> "none", output |-> "show",
   steps |-> [k \in DOMAIN trace |->
     [position |-> k, work |-> trace[k].work, change |-> "added", base |-> Null,
      inputs |-> IF trace[k].reads = Null THEN {}
                 ELSE {CardReads(CHOOSE j \in DOMAIN trace : trace[j].handle = trace[k].reads)}]]]

(* The card Team makes of a record, or none. *)
CardOf(outcome) ==
  IF outcome.kind = "record"
  THEN IF trace = <<>> THEN Null ELSE Proposal(outcome)
  ELSE IF ~canonical_refine(outcome) \/ outcome.base_revision # revision THEN Null
  ELSE LET made == Refinement(outcome)
       IN IF Len(made.steps) \in 1..MaxSteps /\ Traced(made) THEN made ELSE Null

(* The ids of a confirmed plan: a kept step's own, else one not in use. *)
Confirmed(c) ==
  LET kept == {plan[c.steps[k].base].id : k \in {j \in DOMAIN c.steps : c.steps[j].change = "kept"}}
      free == SetToSeq(Ids \ kept)
      news(k) == Cardinality({j \in 1..k : c.steps[j].change # "kept"})
  IN [k \in DOMAIN c.steps |->
       [id |-> IF c.steps[k].change = "kept" THEN plan[c.steps[k].base].id ELSE free[news(k)],
        position |-> k, work |-> c.steps[k].work,
        inputs |-> {Reads(i.step) : i \in c.steps[k].inputs}]]

-----------------------------------------------------------------------------
(* Steps *)

Send ==
  /\ send = Null /\ sends < MaxSends
  /\ \E mode, attachments, settings_answer, stale \in BOOLEAN,
        question \in Questions \cup {Null}, written \in {{}, Values},
        schedule \in {Null, Schedule}, output \in {Null, "show"},
        rerun \in {Null, <<[work |-> Fresh, count |-> 1, inputs |->
                     {[member |-> "m", kind |-> "fresh", value |-> Null,
                       chosen |-> FALSE, source |-> Null]}]>>},
        selects, lists \in BOOLEAN :
       LET now == Selected(plan, revision)
           c == [routines |-> IF lists THEN <<Listing>> ELSE Null, mode |-> mode,
                 attachments |-> attachments, settings_answer |-> settings_answer,
                 question |-> question, schedule |-> schedule, output |-> output,
                 rerun |-> rerun,
                 selected |-> IF ~selects THEN Null ELSE IF stale THEN shown ELSE now]
       IN /\ admit_context(c)
          /\ send' = [routines |-> c.routines, selected |-> c.selected, rerun |-> rerun]
          /\ shown' = IF selects /\ ~stale THEN now ELSE shown
          /\ messages' = Append(messages, User(written))
  /\ trace' = <<>> /\ sends' = sends + 1
  /\ UNCHANGED <<plan, revision, card>>

(* A call of an Action: the rerun guard, then Team.  Its result comes with *)
(* its handle.                                                             *)
Run ==
  /\ send # Null /\ Len(trace) < MaxCalls
  /\ \E work \in IF send.rerun = Null THEN {Source} ELSE {Source, Fresh},
        value \in Values, reads \in {Null} \cup {t.handle : t \in ToSet(trace)} :
       /\ send.rerun # Null => rerun_review(messages, send.rerun, work, "m", value)
       /\ LET handle == Handle(Len(trace) + 1)
          IN /\ trace' = Append(trace, [handle |-> handle, work |-> work, reads |-> reads,
                                        value |-> value])
             /\ \E held \in IF work = Source THEN {{v} : v \in Values} ELSE {{}} :
                  messages' = Append(messages, Result(handle, work, held))
  /\ UNCHANGED <<plan, revision, shown, send, sends, card>>

Arguments ==
  [op : {"record"}, name : {"t", Null}, description : {"t"}, replaces : {Null, "r"},
   reply : {TRUE}]
    \cup
  [op : {"refine"}, name : {Null}, description : {"t", "u"}, replaces : {Null},
   routine_id : {"r"}, base_revision : 1..MaxRevision, reply : {TRUE},
   edits : UNION {[1..n -> Edits] : n \in 0..2}]

(* The lone call of the tool, which is offered beside the Team's Routines: *)
(* a refusal is corrected and the turn goes on; a record ends it, and Team *)
(* makes its card.                                                         *)
Propose ==
  /\ send # Null /\ send.routines # Null
  /\ \E args \in Arguments :
       LET ruling == record(args, send, call_handles(messages))
       IN /\ ruling.why = "recorded"
          /\ card' = CardOf(ruling.outcome)
  /\ send' = Null /\ trace' = <<>>
  /\ UNCHANGED <<plan, revision, shown, messages, sends>>

Reply ==
  /\ send # Null /\ send' = Null /\ trace' = <<>>
  /\ UNCHANGED <<plan, revision, shown, messages, sends, card>>

Confirm ==
  /\ card # Null /\ send = Null /\ revision < MaxRevision
  /\ card.kind = "refine" => card.base_revision = revision
  /\ plan' = Confirmed(card) /\ revision' = revision + 1 /\ card' = Null
  /\ UNCHANGED <<shown, messages, send, trace, sends>>

Revoke ==
  /\ card # Null /\ card' = Null
  /\ UNCHANGED <<plan, revision, shown, messages, send, trace, sends>>

Init ==
  /\ plan = FirstPlan /\ revision = 1
  /\ shown = Selected(FirstPlan, 1)
  /\ messages = <<>> /\ send = Null /\ trace = <<>> /\ sends = 0
  /\ card = Null

Next == Send \/ Run \/ Propose \/ Reply \/ Confirm \/ Revoke

Spec == Init /\ [][Next]_vars

-----------------------------------------------------------------------------
(* Properties *)

(* Every step a refinement keeps reads, in the plan the card shows, the    *)
(* very steps it read before, from results that come earlier (refine.rs:   *)
(* read_after decides this before Team applies anything).                  *)
KeptReadOn ==
  (card # Null /\ card.kind = "refine" /\ card.base_revision = revision) =>
    \A k \in DOMAIN card.steps :
      card.steps[k].change = "kept" =>
        LET before == {i.step : i \in plan[card.steps[k].base].inputs}
            now == {i.step : i \in card.steps[k].inputs}
        IN /\ now \subseteq 1..(k - 1)
           /\ {card.steps[p].base : p \in now} = before
           /\ \A p \in now : card.steps[p].change = "kept"

(* Every card Team makes of an accepted call is one its clients admit:     *)
(* each base step is accounted for once (routine_context.rs:               *)
(* canonical_edits; routine_proposal.rs: base_positions).                  *)
CardAdmitted ==
  card # Null => IF card.kind = "refine" THEN canonical_refinement(card)
                 ELSE canonical_proposal(card)

(* Whatever the model writes, a refinement that is recorded names only     *)
(* calls of this send, though results of earlier sends, whose calls had    *)
(* the same handles, stay in the conversation: "only the call handles of   *)
(* Action results of this message" (routine.rs:240).                       *)
RefinesOwnCalls ==
  (send # Null /\ send.routines # Null /\ send.selected # Null) =>
    \A args \in {a \in Arguments : a.op = "refine"} :
      LET ruling == record(args, send, call_handles(messages))
      IN ruling.why = "recorded" =>
           ToSet(Calls(ruling.outcome.edits)) \subseteq {trace[k].handle : k \in DOMAIN trace}

(* A value a rerun must find anew is never one remembered of an earlier    *)
(* send (rerun.rs: rerun_review).                                          *)
FreshNotRemembered ==
  (send # Null /\ send.rerun # Null) =>
    \A k \in DOMAIN trace :
      (trace[k].work = Fresh /\ trace[k].value \in Identifiers) =>
        LET first == Len(messages) - Len(trace)
        IN \E j \in first..(first + k - 1) : trace[k].value \in messages[j].values
=============================================================================
