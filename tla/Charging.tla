------------------------------ MODULE Charging ------------------------------
(***************************************************************************)
(* Charging the attachments of a turn before it starts                     *)
(* (runtime/src/attachments/count.rs): the readable files are counted by   *)
(* the provider on worker threads, every count of the process holds one of *)
(* a few slots, and one deadline bounds them all.  Whatever was not        *)
(* counted in time is estimated, except an image.                          *)
(*                                                                         *)
(* Turns charge at the same time and share the slots.  A turn is stopped   *)
(* when Team closes its request; its deadline passes at any moment.        *)
(***************************************************************************)
EXTENDS Attachments

CONSTANTS
  Turn,        \* the turns charging
  FilesOf,     \* [Turn -> the files of the turn, at least one]
  Slots,       \* MAX_COUNT_WORKERS, as the slots of the process
  MaxWorkers,  \* MAX_COUNT_WORKERS, as the workers of one charging
  Counts,      \* the counts a provider may answer
  Nothing      \* no count

ASSUME ChargingAssumption ==
  /\ IsFiniteSet(Turn)
  /\ Slots \in Nat \ {0}
  /\ MaxWorkers \in Nat \ {0}
  /\ Nothing \notin Counts
  /\ Counts \subseteq Nat
  /\ FilesOf \in [Turn -> Seq(File)]

VARIABLES
  free,     \* the slots nobody holds
  stopped,  \* the turns Team closed
  late,     \* the turns whose deadline passed
  job,      \* the charging of each turn
  worker,   \* the workers of each charging
  channel   \* the counts sent and not received

vars == <<free, stopped, late, job, worker, channel>>

Worker == 1..MaxWorkers

Countable(t) ==
  SelectSeq([i \in DOMAIN FilesOf[t] |-> i],
            LAMBDA i : FilesOf[t][i].content # "opaque")

Workers(t) == 1..Min({MaxWorkers, Len(Countable(t))})

(* What one count gave: a number, "unavailable" or "cancelled". *)
Counted ==
  [kind : {"value", "unavailable", "cancelled"}, value : Counts \cup {Nothing}]

Value(v) == [kind |-> "value", value |-> v]
Unavailable == [kind |-> "unavailable", value |-> Nothing]
Cancelled == [kind |-> "cancelled", value |-> Nothing]

(* The nested scope of a charging stops with its turn, or when the         *)
(* charging leaves.                                                        *)
Stopped(t) == t \in stopped \/ job[t].left

Holding(t, w) == worker[t][w].pc \in {"held", "counting"}

-----------------------------------------------------------------------------
(* A worker *)

Gone == [pc |-> "gone", file |-> 0, counted |-> Unavailable]

Move(t, w, pc) == worker' = [worker EXCEPT ![t][w].pc = pc]

Give(t, w, counted) ==
  worker' = [worker EXCEPT ![t][w].pc = "send", ![t][w].counted = counted]

(* Job::work: the next uncounted file, until none is left. *)
Fetch(t, w) ==
  /\ worker[t][w].pc = "next"
  /\ IF job[t].next > Len(Countable(t)) THEN Move(t, w, "gone") /\ UNCHANGED job
     ELSE /\ worker' = [worker EXCEPT ![t][w].pc = "slot",
                                      ![t][w].file = Countable(t)[job[t].next]]
          /\ job' = [job EXCEPT ![t].next = @ + 1]
  /\ UNCHANGED <<free, stopped, late, channel>>

(* Slots::take. *)
TakeSlot(t, w) ==
  /\ worker[t][w].pc = "slot" /\ free > 0
  /\ free' = free - 1
  /\ Move(t, w, "held")
  /\ UNCHANGED <<stopped, late, job, channel>>

(* A worker that waits for a slot looks at its scope, then at the clock. *)
GiveUp(t, w) ==
  /\ worker[t][w].pc = "slot" /\ free = 0
  /\ Stopped(t) \/ t \in late
  /\ Give(t, w, IF Stopped(t) THEN Cancelled ELSE Unavailable)
  /\ UNCHANGED <<free, stopped, late, job, channel>>

(* With the slot, it looks at the clock, then at its scope. *)
Begin(t, w) ==
  /\ worker[t][w].pc = "held"
  /\ IF t \in late \/ Stopped(t)
     THEN /\ Give(t, w, IF t \in late THEN Unavailable ELSE Cancelled)
          /\ free' = free + 1
     ELSE Move(t, w, "counting") /\ UNCHANGED free
  /\ UNCHANGED <<stopped, late, job, channel>>

(* Mutant: a count that ended by its deadline keeps its slot. *)
CountKeeping(t, w) ==
  /\ worker[t][w].pc = "counting"
  /\ \/ \E v \in Counts : Give(t, w, Value(v)) /\ free' = free + 1
     \/ Give(t, w, Unavailable) /\ UNCHANGED free
     \/ Stopped(t) /\ Give(t, w, Cancelled) /\ free' = free + 1
  /\ UNCHANGED <<stopped, late, job, channel>>

(* The provider counts, fails or runs out of time, or the scope stopped.   *)
(* The slot goes with the end of the count.                                *)
Count(t, w) ==
  /\ worker[t][w].pc = "counting"
  /\ \/ \E v \in Counts : Give(t, w, Value(v))
     \/ Give(t, w, Unavailable)
     \/ Stopped(t) /\ Give(t, w, Cancelled)
  /\ free' = free + 1
  /\ UNCHANGED <<stopped, late, job, channel>>

(* Mutant: a worker waits until its count is received. *)
SendWaiting(t, w) ==
  /\ worker[t][w].pc = "send" /\ job[t].pc = "collect"
  /\ channel' = [channel EXCEPT ![t] =
                    Append(@, <<worker[t][w].file, worker[t][w].counted>>)]
  /\ worker' = [worker EXCEPT ![t][w] = [Gone EXCEPT !.pc = "next"]]
  /\ UNCHANGED <<free, stopped, late, job>>

(* A worker nobody listens to ends. *)
Send(t, w) ==
  /\ worker[t][w].pc = "send"
  /\ IF job[t].pc = "collect"
     THEN /\ channel' = [channel EXCEPT ![t] =
                           Append(@, <<worker[t][w].file, worker[t][w].counted>>)]
          /\ worker' = [worker EXCEPT ![t][w] = [Gone EXCEPT !.pc = "next"]]
     ELSE worker' = [worker EXCEPT ![t][w] = Gone] /\ UNCHANGED channel
  /\ UNCHANGED <<free, stopped, late, job>>

-----------------------------------------------------------------------------
(* The charging of a turn *)

Job(t) ==
  [pc |-> "start", next |-> 1, got |-> 0, left |-> FALSE,
   values |-> [i \in DOMAIN FilesOf[t] |-> Nothing], result |-> "none"]

End(t, result) ==
  job' = [job EXCEPT ![t] = [Job(t) EXCEPT !.pc = "done", !.result = result]]

Start(t) ==
  /\ job[t].pc = "start"
  /\ IF t \in stopped THEN End(t, "cancelled") /\ UNCHANGED worker
     ELSE /\ job' = [job EXCEPT ![t].pc = "collect"]
          /\ worker' = [worker EXCEPT ![t] = [w \in Worker |->
               IF w \in Workers(t) THEN [Gone EXCEPT !.pc = "next"] ELSE Gone]]
  /\ UNCHANGED <<free, stopped, late, channel>>

(* collect takes the counts as they come; a cancelled one ends it. *)
Receive(t) ==
  /\ job[t].pc = "collect" /\ job[t].got < Len(Countable(t))
  /\ channel[t] # <<>>
  /\ LET file == Head(channel[t])[1]
         counted == Head(channel[t])[2]
         more == [job[t] EXCEPT !.got = @ + 1]
     IN job' = [job EXCEPT ![t] =
          CASE counted.kind = "value" -> [more EXCEPT !.values[file] = counted.value]
            [] counted.kind = "unavailable" -> more
            [] counted.kind = "cancelled" ->
                 [more EXCEPT !.pc = "join", !.left = TRUE, !.result = "cancelled"]]
  /\ channel' = [channel EXCEPT ![t] = IF job'[t].left THEN <<>> ELSE Tail(@)]
  /\ UNCHANGED <<free, stopped, late, worker>>

(* All counts came, or the deadline found none waiting; the nested scope   *)
(* is cancelled.                                                           *)
Leave(t) ==
  /\ job[t].pc = "collect"
  /\ \/ job[t].got = Len(Countable(t))
     \/ channel[t] = <<>> /\ t \in late
  /\ job' = [job EXCEPT ![t].pc = "join", ![t].left = TRUE]
  /\ channel' = [channel EXCEPT ![t] = <<>>]
  /\ UNCHANGED <<free, stopped, late, worker>>

Uncounted(t, i) == job[t].values[i] = Nothing

Charges(t) ==
  [i \in DOMAIN FilesOf[t] |->
     IF Uncounted(t, i) THEN estimated_charge(FilesOf[t][i]) ELSE job[t].values[i]]

(* Mutant: the estimates come before the turn's stop. *)
ChargedUnstopped(t) ==
  IF job[t].result = "cancelled" THEN "cancelled"
  ELSE IF \E i \in DOMAIN FilesOf[t] : Uncounted(t, i) /\ ~Estimable(FilesOf[t][i])
       THEN "unmeasured"
  ELSE IF t \in stopped THEN "cancelled"
  ELSE IF admit_charges(Charges(t)) = {} THEN "ceiling" ELSE "charged"

(* What the charging answers once its workers ended. *)
Charged(t) ==
  IF job[t].result = "cancelled" \/ t \in stopped THEN "cancelled"
  ELSE IF \E i \in DOMAIN FilesOf[t] : Uncounted(t, i) /\ ~Estimable(FilesOf[t][i])
       THEN "unmeasured"
  ELSE IF admit_charges(Charges(t)) = {} THEN "ceiling" ELSE "charged"

Join(t) ==
  /\ job[t].pc = "join"
  /\ \A w \in Workers(t) : worker[t][w].pc = "gone"
  /\ End(t, Charged(t))
  /\ UNCHANGED <<free, stopped, late, worker, channel>>

-----------------------------------------------------------------------------

StopTurn(t) ==
  /\ t \notin stopped /\ job[t].pc # "done"
  /\ stopped' = stopped \cup {t}
  /\ UNCHANGED <<free, late, job, worker, channel>>

Deadline(t) ==
  /\ t \notin late /\ job[t].pc \in {"collect", "join"}
  /\ late' = late \cup {t}
  /\ UNCHANGED <<free, stopped, job, worker, channel>>

Init ==
  /\ free = Slots
  /\ stopped = {} /\ late = {}
  /\ job = [t \in Turn |-> Job(t)]
  /\ worker = [t \in Turn |-> [w \in Worker |-> Gone]]
  /\ channel = [t \in Turn |-> <<>>]

WorkerStep(t, w) ==
  Fetch(t, w) \/ TakeSlot(t, w) \/ GiveUp(t, w) \/ Begin(t, w) \/ Count(t, w) \/ Send(t, w)

Charge(t) == Start(t) \/ Receive(t) \/ Leave(t) \/ Join(t)

Next ==
  \E t \in Turn :
    \/ Charge(t) \/ StopTurn(t) \/ Deadline(t)
    \/ \E w \in Worker : WorkerStep(t, w)

(* Threads are scheduled, a provider's count ends by its own time bound,   *)
(* and the clock advances.                                                 *)
Fairness ==
  \A t \in Turn :
    /\ WF_vars(Charge(t))
    /\ WF_vars(Deadline(t))
    /\ \A w \in Worker : WF_vars(WorkerStep(t, w))

Spec == Init /\ [][Next]_vars /\ Fairness

-----------------------------------------------------------------------------
(* Properties *)

(* A slot is free or held by exactly one count in flight, and a charging   *)
(* that ended holds none (count.rs: Slot's drop, the scoped threads).      *)
SlotsHeld ==
  /\ free + Cardinality({p \in Turn \X Worker : Holding(p[1], p[2])}) = Slots
  /\ \A t \in Turn, w \in Worker : job[t].pc = "done" => worker[t][w].pc = "gone"

(* Only a stop by Team cancels a turn, never its own deadline; and a turn  *)
(* stopped before its charging ends is not told of an image that could not *)
(* be measured (count.rs: charges).                                        *)
StopDecides ==
  \A t \in Turn :
    /\ job[t].result = "cancelled" => t \in stopped
    /\ job[t].result \in {"unmeasured", "ceiling", "charged"} => t \notin stopped

(* A charging ends, whatever the provider, the other turns and Team do     *)
(* (count.rs: COUNT_DEADLINE bounds every wait).                           *)
Ends ==
  \A t \in Turn : (job[t].pc = "collect") ~> (job[t].pc = "done")
=============================================================================
