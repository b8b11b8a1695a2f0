------------------------------ MODULE Routines ------------------------------
(***************************************************************************)
(* The canonical forms of a Team Routine (protocol/team/http: routine,     *)
(* routine_context, routine_proposal): schedules, plans, what the Brain     *)
(* sees of a Routine, its refinement, and the cards a person confirms.     *)
(*                                                                         *)
(* A form has exactly the fields its record names; the shape of any other  *)
(* object, the grammar of a text beyond membership in Text, and the bounds *)
(* on encoded bytes are left out.  A step's Assistant, Action, effect and  *)
(* Stored Inputs are its work; a step's inputs, which the wire sorts by    *)
(* member, are a set.                                                      *)
(***************************************************************************)
EXTENDS Integers, SequencesExt, FiniteSetsExt, Functions

CONSTANTS
  Null,           \* an absent value
  Text,           \* the texts, identifiers, names and pointers admitted
  MaxSteps,       \* MAX_ROUTINE_STEPS
  MaxInputs,      \* MAX_STEP_INPUTS
  MaxRoutines,    \* MAX_ROUTINES
  MaxEdits,       \* MAX_REFINE_EDITS
  MaxOptions,     \* MAX_QUESTION_OPTIONS
  Day,            \* DAY_SECONDS
  MinGap,         \* MIN_CONTINUOUS_GAP_SECONDS
  MaxGap          \* MAX_CONTINUOUS_GAP_SECONDS

OutputModes == {"show", "changes", "none"}
ShownModes == {"show", "changes"}

-----------------------------------------------------------------------------
(* Schedules and zones *)

canonical_schedule(s) ==
  \/ s.kind = "continuous" /\ s.gap \in MinGap..MaxGap
  \/ s.kind = "daily" /\ s.time \in Text
  \/ s.kind = "weekly" /\ s.time \in Text /\ s.weekday \in 0..6
  \/ s.kind = "monthly" /\ s.time \in Text /\ s.day \in 1..28

(* The starts of a continuous Routine in any rolling day. *)
continuous_cap(gap) == (Day - 1) \div gap + 1

daily_cap(s) == IF s.kind = "continuous" THEN continuous_cap(s.gap) ELSE 1

MaxDailySteps == continuous_cap(MinGap) * MaxSteps

zoned(zone, source) ==
  /\ zone \in Text /\ source \in {"browser", "person", "none"}
  /\ source = "none" => zone = "UTC"

(* From 1, below 2^31.                                                     *)
valid_revision(r) == r \in 1..2147483647

-----------------------------------------------------------------------------
(* Plans *)

(* A value copied from an earlier step's result, through an array item its *)
(* selector names.                                                         *)
reference(i, at) ==
  /\ i.step \in 1..(at - 1)
  /\ i.pointer \in Text
  /\ IF i.where = Null THEN i.item = Null ELSE i.where \in Text /\ i.item \in Text

input(i, at) ==
  /\ i.member \in Text
  /\ \/ i.source \in {"literal", "run_clock"} /\ i.value \in Text
     \/ i.source = "step_output" /\ reference(i, at)

members(inputs, admit(_)) ==
  /\ Cardinality(inputs) <= MaxInputs
  /\ \A i \in inputs : admit(i)
  /\ \A i, j \in inputs : i.member = j.member => i = j

canonical_step(step, at) ==
  /\ at \in 1..MaxSteps
  /\ step.position = at
  /\ step.work \in Text
  /\ members(step.inputs, LAMBDA i : input(i, at))

-----------------------------------------------------------------------------
(* What a recording turn's context carries *)

canonical_routine_listing(r) ==
  /\ r.routine_id \in Text /\ r.name \in Text
  /\ canonical_schedule(r.schedule) /\ zoned(r.timezone, r.timezone_source)
  /\ valid_revision(r.revision)
  /\ r.daily_steps \in 1..MaxDailySteps
  /\ r.output \in OutputModes
  /\ Len(r.steps) \in 1..MaxSteps
  /\ \A k \in DOMAIN r.steps : r.steps[k].id \in Text /\ r.steps[k].work \in Text

canonical_routine_listings(rs) ==
  /\ Len(rs) <= MaxRoutines
  /\ \A k \in DOMAIN rs : canonical_routine_listing(rs[k])
  /\ \A j, k \in DOMAIN rs : rs[j].routine_id = rs[k].routine_id => j = k

rerun_input(i) ==
  /\ i.member \in Text
  /\ \/ i.kind = "value" /\ i.value \in Text \cup {Null} /\ i.source = Null
     \/ i.kind = "fresh" /\ i.value = Null /\ i.source \in Text \cup {Null} /\ ~i.chosen
     \/ i.kind = "clock" /\ i.value = Null /\ i.source = Null /\ ~i.chosen

canonical_rerun(work) ==
  /\ Len(work) \in 1..MaxSteps
  /\ \A k \in DOMAIN work :
       /\ work[k].work \in Text /\ work[k].count \in 1..MaxSteps
       /\ members(work[k].inputs, rerun_input)
  /\ FoldLeft(LAMBDA sum, entry : sum + entry.count, 0, work) <= MaxSteps

(* The latest run's outcome at each position of the revision it executed. *)
last_run(run) ==
  run # Null =>
    /\ valid_revision(run.revision)
    /\ Len(run.steps) \in 1..MaxSteps
    /\ \A k \in DOMAIN run.steps :
         run.steps[k] \in {"done", "recovered", "failed", "stopped", "waiting",
                           "not_run", "unavailable"}

canonical_selected_routine(s) ==
  /\ s.routine_id \in Text /\ s.name \in Text /\ s.description \in Text
  /\ valid_revision(s.revision)
  /\ Len(s.steps) \in 1..MaxSteps
  /\ \A k \in DOMAIN s.steps :
       s.steps[k].id \in Text /\ canonical_step(s.steps[k], k)
  /\ \A j, k \in DOMAIN s.steps : s.steps[j].id = s.steps[k].id => j = k
  /\ s.output.mode \in OutputModes
  /\ s.output.step = IF s.output.mode \in ShownModes THEN Last(s.steps).id ELSE Null
  /\ last_run(s.last_run)

edit(e) ==
  /\ e.step \in Text
  /\ \/ e.kind = "insert" /\ Len(e.calls) \in 1..MaxSteps
     \/ e.kind = "replace" /\ Len(e.calls) = 1
     \/ e.kind = "remove" /\ e.calls = <<>>

Calls(edits) == FlattenSeq([k \in DOMAIN edits |-> edits[k].calls])

(* Mutant: two edits may name one step. *)
CanonicalEditsTwice(edits) ==
  /\ Len(edits) <= MaxEdits
  /\ \A k \in DOMAIN edits : edit(edits[k])
  /\ IsInjective(Calls(edits))

(* At most one edit a step, and each call named once. *)
canonical_edits(edits) ==
  /\ Len(edits) <= MaxEdits
  /\ \A k \in DOMAIN edits : edit(edits[k])
  /\ \A j, k \in DOMAIN edits : edits[j].step = edits[k].step => j = k
  /\ IsInjective(Calls(edits))

canonical_refine(r) ==
  /\ r.routine_id \in Text /\ valid_revision(r.base_revision)
  /\ r.description \in Text /\ canonical_edits(r.edits)

-----------------------------------------------------------------------------
(* Cards and questions *)

unreferenced(i) == i.step = Null /\ i.pointer = Null /\ i.where = Null /\ i.item = Null

(* The dated text a clock input may show is a text with a template. *)
card_input(i, at) ==
  /\ i.member \in Text
  /\ \/ i.origin \in {"request", "assistant"} /\ i.value \in Text /\ unreferenced(i)
     \/ i.origin = "clock" /\ i.value \in Text \cup {Null} /\ unreferenced(i)
     \/ /\ i.origin \in {"step", "selector"} /\ i.value = Null
        /\ (i.where # Null) = (i.origin = "selector")
        /\ reference(i, at)

card_members(step, at) ==
  /\ step.position = at /\ step.work \in Text
  /\ members(step.inputs, LAMBDA i : card_input(i, at))

steps_of(steps, admit(_, _)) ==
  /\ Len(steps) \in 1..MaxSteps
  /\ \A k \in DOMAIN steps : admit(steps[k], k)

settings(card) ==
  /\ card.name \in Text /\ card.description \in Text
  /\ canonical_schedule(card.schedule) /\ zoned(card.timezone, card.timezone_source)
  /\ card.output \in OutputModes

canonical_proposal(card) ==
  /\ card.replaces \in Text \cup {Null}
  /\ settings(card)
  /\ steps_of(card.steps, card_members)

refined_step(step, at) ==
  /\ \/ step.change = "added" /\ step.base = Null
     \/ step.change \in {"kept", "replaced"} /\ step.base \in 1..MaxSteps
  /\ card_members(step, at)

removed_step(step) ==
  /\ step.position \in 1..MaxSteps /\ step.work \in Text
  /\ step.change \in {"removed", "replaced"}

Ordered(s) == \A j, k \in DOMAIN s : j < k => s[j] <= s[k]

(* Every base step once: kept where it was, in order, or gone, a replaced  *)
(* one beside its replacement.                                             *)
base_positions(steps, removed) ==
  LET bases(change) ==
        LET of == SelectSeq(steps, LAMBDA s : s.change = change)
        IN [k \in DOMAIN of |-> of[k].base]
      gone == [k \in DOMAIN removed |-> removed[k].position]
      all == bases("kept") \o gone
  IN /\ Ordered(bases("kept")) /\ Ordered(gone)
     /\ IsInjective(all) /\ ToSet(all) = 1..Len(all)
     /\ IsInjective(bases("replaced"))
     /\ ToSet(bases("replaced")) =
          {removed[k].position : k \in {j \in DOMAIN removed : removed[j].change = "replaced"}}

canonical_refinement(card) ==
  /\ card.routine_id \in Text /\ valid_revision(card.base_revision)
  /\ settings(card)
  /\ steps_of(card.steps, refined_step)
  /\ \A k \in DOMAIN card.removed : removed_step(card.removed[k])
  /\ base_positions(card.steps, card.removed)

QuestionCodes ==
  {"routine-schedule-unstated", "routine-output-unstated",
   "routine-interval-over-budget", "routine-binding-ambiguous", "routine-work-rerun"}
SettingsCodes ==
  {"routine-interval-over-budget", "routine-output-unstated", "routine-schedule-unstated"}

(* Options only for an ambiguous binding, an interval only for one over    *)
(* the budget.                                                             *)
canonical_question(q) ==
  /\ q.code \in QuestionCodes
  /\ Cardinality(q.options) <= MaxOptions /\ q.options \subseteq Text
  /\ q.code # "routine-binding-ambiguous" => q.options = {}
  /\ IF q.code = "routine-interval-over-budget" THEN q.value \in MinGap..MaxGap
     ELSE q.value = Null
=============================================================================
