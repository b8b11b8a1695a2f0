------------------------------ MODULE Browser -------------------------------
(***************************************************************************)
(* The Browser agent's stateless calls: the task's thread as Team and the  *)
(* Brain admit it, how a call is rendered as messages, and what each       *)
(* operation answers (protocol/team/http/src/browser/{mod,thread}.rs,      *)
(* runtime/src/decisions/browser.rs, browser/thread.rs, browser/haiku.rs). *)
(*                                                                         *)
(* A page is a number and its size; a text is one of Decisions' classes.   *)
(* The thread is OpenAI's; Claude Haiku sees the newest records only.      *)
(***************************************************************************)
EXTENDS Decisions

CONSTANTS MAX_STEPS,         \* the steps a thread holds
          MAX_HISTORY_BYTES, \* what its history renders to
          MAX_FOLDED_BYTES,  \* its folded records, one byte each
          MAX_MEMORY_BYTES,  \* the longest memory
          MAX_REQUEST_TEXT_BYTES, \* the text of a whole request
          HAIKU_RECORDS,     \* the newest records Haiku's step sees
          Priced             \* [Host -> the largest prompt its model is priced for]

-----------------------------------------------------------------------------
(* protocol/team/http/src/browser *)

FIELDS ==
  [navigate |-> {"url"}, click |-> {"ref"}, type |-> {"ref", "text"},
   scroll |-> {"direction"}, wait |-> {}, screenshot |-> {}, read |-> {"refs"},
   done |-> {"summary"}, needs_person |-> {"reason", "sentence"}]

Ending   == {"done", "needs_person"}
OUTCOMES == {"ok", "refused", "navigation-failed", "interrupted", "returned"}

\* The step a flat answer names, or None outside the closed set: `given` holds
\* the fields that are not null.  A null or blank note is no note.
canonical_step(value) ==
  IF /\ value.kind \in DOMAIN FIELDS
     /\ DOMAIN value.given = FIELDS[value.kind]
     /\ \A name \in DOMAIN value.given : admitted(value.given[name], FALSE)
     /\ value.note # "control"
  THEN value ELSE None

\* An unfolded step: its record, the page it was chosen on, and whether a
\* screenshot came with it.
canonical_record(record) ==
  /\ record.outcome \in OUTCOMES
  /\ canonical_step(record.step) # None
  /\ record.step.kind \notin Ending

Bytes(entries) == FoldSeq(+, 0, [i \in 1..Len(entries) |-> entries[i].size])

history_bytes(thread) ==
  Len(thread.folded) + thread.memory + Bytes(thread.steps)

request_text_bytes(q) == history_bytes(q.thread) + q.size

canonical_thread(thread) ==
  /\ Len(thread.folded) + Len(thread.steps) <= MAX_STEPS
  /\ thread.folded_omitted <= MAX_STEPS * MAX_STEPS /\ thread.unnoted <= MAX_STEPS * MAX_STEPS
  /\ thread.memory <= MAX_MEMORY_BYTES
  /\ \A i \in 1..Len(thread.folded) : canonical_record(thread.folded[i])
  /\ \A i \in 1..Len(thread.steps) : canonical_record(thread.steps[i])
  /\ Len(thread.folded) <= MAX_FOLDED_BYTES /\ history_bytes(thread) <= MAX_HISTORY_BYTES

-----------------------------------------------------------------------------
(* browser/thread.rs: the thread as one growing conversation *)

Task == [role |-> "task"]

\* Mutant: the steps that left the folded records are not counted.
firstOfKept(thread) == Len(thread.folded) + 1

\* The number of the first step that is not folded.
first(thread) == thread.folded_omitted + Len(thread.folded) + 1

line(number, record) == [number |-> number, step |-> record.step, outcome |-> record.outcome]

earlier(thread) ==
  IF thread.folded = <<>> /\ thread.memory = 0 /\ thread.folded_omitted = 0 THEN <<>>
  ELSE <<[role |-> "earlier", omitted |-> thread.folded_omitted,
          lines |-> [i \in 1..Len(thread.folded) |->
                       line(thread.folded_omitted + i, thread.folded[i])],
          memory |-> thread.memory, unnoted |-> thread.unnoted]>>

page(number, content, downloads, shown) ==
  [role |-> "page", number |-> number, content |-> content, downloads |-> downloads,
   shown |-> shown]

\* A step's page as it was current, then what was done on it.
Taken(number, e) ==
  <<page(number, e.page, e.downloads, e.screenshot),
    [role |-> "step", step |-> e.step, outcome |-> e.outcome]>>

messages(q, instruction) ==
  LET t == q.thread IN
  <<Task>> \o earlier(t)
  \o FlattenSeq([i \in 1..Len(t.steps) |-> Taken(first(t) + i - 1, t.steps[i])])
  \o <<page(first(t) + Len(t.steps), q.observation, q.downloads, FALSE)>>
  \o instruction

\* haiku.rs: the newest records, folded or not.
records(thread) ==
  LET all == thread.folded \o thread.steps
  IN SubSeq(all, IF Len(all) > HAIKU_RECORDS THEN Len(all) - HAIKU_RECORDS + 1 ELSE 1, Len(all))

\* What a call may cost is bounded before the provider is called.
ImageTokens == 1
input_bound(q, host) ==
  (IF host = "openai" THEN history_bytes(q.thread) ELSE Len(records(q.thread)))
  + q.size + (IF q.screenshot = "png" THEN ImageTokens ELSE 0)

bounded(q, host) == input_bound(q, host) <= Priced[host]

-----------------------------------------------------------------------------
(* browser.rs: the four operations *)

validate(q) ==
  /\ admitted(q.objective, FALSE)
  /\ canonical_thread(q.thread)
  /\ request_text_bytes(q) <= MAX_REQUEST_TEXT_BYTES
  /\ q.screenshot \in {None, "png"}

\* A request that calls a model, is refused, or needs no call: Haiku writes no
\* memory, no final answer and no verdict.
BrowserRequest(q, host) ==
  CASE q.op = "check" ->
         IF ~admitted(q.objective, FALSE) \/ ~admitted(q.summary, FALSE) THEN Refusal
         ELSE Success(None)
    [] OTHER ->
         IF ~validate(q) \/ (q.op = "fold" /\ q.first > q.last) THEN Refusal
         ELSE IF q.op # "step" /\ host # "openai" THEN Success(None)
         ELSE IF bounded(q, host) THEN Success(None) ELSE Refusal

WithoutCall(q, host) == q.op # "step" /\ host # "openai"

Nothing(q) ==
  CASE q.op = "fold"  -> [memory |-> None]
    [] q.op = "final" -> [summary |-> None]
    [] q.op = "check" -> [complete |-> None, missing |-> None]

CheckSchema == [complete |-> BOOLEAN, missing |-> Text]

\* Haiku's schema has no read step.
step(host, value) ==
  IF host # "openai" /\ value.kind = "read" THEN Broken
  ELSE IF canonical_step(value) = None THEN Broken
  ELSE Success([step |-> canonical_step(value)])

\* A plain answer, or None; a rewrite of the memory that is too long, or that
\* the provider cut short, is refused, so Team keeps the memory it had.
fold(reply) ==
  Success([memory |-> IF reply.text = "text" /\ ~reply.truncated /\ reply.bytes <= MAX_MEMORY_BYTES
                      THEN reply.bytes ELSE None])

final_answer(reply) ==
  Success([summary |-> IF reply.text = "text" THEN "text" ELSE None])

check(value) ==
  IF value.complete THEN Success([complete |-> TRUE, missing |-> None])
  ELSE IF admitted(value.missing, FALSE)
  THEN Success([complete |-> FALSE, missing |-> value.missing]) ELSE Broken
=============================================================================
