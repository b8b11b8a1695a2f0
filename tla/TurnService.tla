---------------------------- MODULE TurnService ----------------------------
(***************************************************************************)
(* The chat turns of one thread (runtime/src/turn/service.rs) over two     *)
(* stores: the thread store (threads.rs: the thread's row and its          *)
(* delivery) and the Holdpoint ledger (the thread's runs).  No transaction *)
(* spans both, so every transaction of either store is a step of its own   *)
(* and the process may crash, or the store fail, between any two.          *)
(*                                                                         *)
(* The thread's lock serialises its operations, so one operation is in     *)
(* progress at a time; what it holds in memory is op.  Team chooses every  *)
(* request freely: it may repeat a resume whose answer was lost, or send   *)
(* an old one late.                                                        *)
(*                                                                         *)
(* A run is what the service sees of it: whether it ended, the requests    *)
(* it asked Team for, those of its last round, and those still open.  An   *)
(* exchange of the history is named by the run that produced it.           *)
(***************************************************************************)
EXTENDS Integers, Sequences, FiniteSets

CONSTANTS
  MaxRuns,    \* bound: turns started
  MaxRounds,  \* bound: rounds of requests the turns ask, taken together
  Slot,       \* the requests one round may ask
  Scope,      \* digests of Assistant contracts
  None        \* SQL NULL

ASSUME TurnAssumption ==
  /\ MaxRuns \in Nat
  /\ MaxRounds \in Nat
  /\ None \notin Nat

VARIABLES
  thread,    \* the row of threads, or None
  delivery,  \* the row of deliveries, or None
  run,       \* the ledger
  op,        \* the operation in progress
  told,      \* the interrupts Team was told of
  reply      \* the answer to the last request

vars == <<thread, delivery, run, op, told, reply>>

Run == 1..MaxRuns
Interrupt == Run \X (1..MaxRounds) \X Slot
Thread == [scope : Scope, history : Seq(Run), open : Run \cup {None},
           committed : Run \cup {None}]
Delivery == [answered : SUBSET Interrupt, turn : Run]

ASSUME NullAssumption == None \notin Thread /\ None \notin Delivery

Outcome == {"done", "failed", "cancelled", "other"}

ASSUME OutcomeAssumption == None \notin Outcome

(* finisher is no field of the code: what the resume answered whose drive  *)
(* brought the run to its end.                                             *)
RunState ==
  [state : {"unknown", "open", "ended", "deleted"}, scope : Scope \cup {None},
   base : Seq(Run), asked : SUBSET Interrupt, round : SUBSET Interrupt,
   pending : SUBSET Interrupt, cancel : BOOLEAN,
   outcome : Outcome \cup {None}, finisher : SUBSET Interrupt]

Unknown ==
  [state |-> "unknown", scope |-> None, base |-> <<>>, asked |-> {},
   round |-> {}, pending |-> {}, cancel |-> FALSE, outcome |-> None,
   finisher |-> {}]

Reply ==
  [kind : {"none", "pending", "turn", "refused", "state", "stopped", "deleted"},
   run : Run \cup {None}, answered : SUBSET Interrupt]

Silence == [kind |-> "none", run |-> None, answered |-> {}]

(***************************************************************************)
(*   start, resume, delete   the request was admitted, the thread locked   *)
(*   reference, submit       start: save open_run, submit the run          *)
(*   resolve                 resume: record the fresh results              *)
(*   drive, suspended, ended driving the run                               *)
(*   erase, letGo            reconcile: delete the run, clear open_run     *)
(*   forgetRun, forgetThread, forgetDelivery      delete_thread_locked     *)
(*   delivered               answer with the delivery, if it is the one    *)
(* next is where reconcile or a deletion returns to, out what it answers.  *)
(***************************************************************************)
Op ==
  [pc : {"idle", "start", "resume", "delete", "reference", "submit", "resolve",
         "drive", "suspended", "ended", "erase", "letGo", "forgetRun",
         "forgetThread", "forgetDelivery", "delivered"},
   next : {"idle", "reference", "delivered"}, out : {"turn", "stopped", "refused", "deleted"},
   answered : SUBSET Interrupt, scope : Scope \cup {None},
   run : Run \cup {None}, thread : Thread \cup {None}, kept : Seq(Run)]

Idle ==
  [pc |-> "idle", next |-> "idle", out |-> "stopped", answered |-> {},
   scope |-> None, run |-> None, thread |-> None, kept |-> <<>>]

FreshThread(scope) ==
  [scope |-> scope, history |-> <<>>, open |-> None, committed |-> None]

Held(r) == run[r].state \in {"open", "ended"}

-----------------------------------------------------------------------------
(* Answers *)

Goto(pc) == op' = [op EXCEPT !.pc = pc]

(* The operation returns, and its memory and the lock go. *)
Answer(kind) ==
  /\ op' = Idle
  /\ reply' = [kind |-> kind, answered |-> op.answered,
               run |-> IF kind = "turn" THEN op.run ELSE None]

(* The thread is loaded under its lock. *)
Admit(pc, scope, answered) ==
  /\ op.pc = "idle"
  /\ op' = [Idle EXCEPT !.pc = pc, !.scope = scope, !.answered = answered,
                         !.thread = thread]
  /\ reply' = Silence
  /\ UNCHANGED <<thread, delivery, run, told>>

(* What Team may send: a start, a deletion, or a resume with any results   *)
(* of interrupts it was told of.                                           *)
Request ==
  \/ \E scope \in Scope : Admit("start", scope, {})
  \/ Admit("delete", None, {})
  \/ \E scope \in Scope, answered \in SUBSET told :
       answered # {} /\ Admit("resume", scope, answered)

-----------------------------------------------------------------------------
(* reconcile and deletion *)

(* The ledger without a run; what is kept of it only names the run later. *)
Deleted(r) ==
  IF Held(r)
  THEN [run EXCEPT ![r] = [@ EXCEPT !.state = "deleted", !.base = <<>>,
                                    !.pending = {}, !.cancel = FALSE]]
  ELSE run

(* What an operation that reconciles its thread does next. *)
Reconciling(next, out) ==
  [op EXCEPT !.pc = "erase", !.next = next, !.out = out]

(* Mutant: the reference is cleared and the run left in the ledger. *)
EraseForgotten ==
  /\ op.pc = "erase"
  /\ Goto("letGo")
  /\ UNCHANGED <<thread, delivery, run, told, reply>>

(* reconcile deletes the run, then clears open_run. *)
Erase ==
  /\ op.pc = "erase"
  /\ run' = Deleted(op.thread.open)
  /\ Goto("letGo")
  /\ UNCHANGED <<thread, delivery, told, reply>>

LetGo ==
  /\ op.pc = "letGo"
  /\ thread' = [op.thread EXCEPT !.open = None]
  /\ IF op.next = "idle" THEN Answer(op.out)
     ELSE /\ op' = [op EXCEPT !.pc = op.next, !.thread.open = None]
          /\ UNCHANGED reply
  /\ UNCHANGED <<delivery, run, told>>

(* delete_thread_locked: the run first, then the thread, then what was     *)
(* delivered of it.  The two rows go in two transactions.                  *)
Forget(next, out) ==
  op' = [op EXCEPT !.next = next, !.out = out,
           !.pc = IF thread # None /\ thread.open # None THEN "forgetRun"
                  ELSE "forgetThread"]

ForgetRun ==
  /\ op.pc = "forgetRun"
  /\ run' = Deleted(thread.open)
  /\ Goto("forgetThread")
  /\ UNCHANGED <<thread, delivery, told, reply>>

ForgetThread ==
  /\ op.pc = "forgetThread"
  /\ thread' = None
  /\ Goto("forgetDelivery")
  /\ UNCHANGED <<delivery, run, told, reply>>

ForgetDelivery ==
  /\ op.pc = "forgetDelivery"
  /\ delivery' = None
  /\ IF op.next = "idle" THEN Answer(op.out)
     ELSE /\ op' = [op EXCEPT !.pc = op.next, !.thread = FreshThread(op.scope)]
          /\ UNCHANGED reply
  /\ UNCHANGED <<thread, run, told>>

Delete ==
  /\ op.pc = "delete"
  /\ Forget("idle", "deleted")
  /\ UNCHANGED <<thread, delivery, run, told, reply>>

-----------------------------------------------------------------------------
(* start *)

Pending(r) == IF r # None /\ Held(r) THEN run[r].pending ELSE {}

(* Mutant: a thread keeps its history when its contract changed. *)
AbandonsPending(t, scope) == Pending(t.open) # {}

(* A pending turn, or a changed contract: the whole thread is forgotten. *)
Abandons(t, scope) == Pending(t.open) # {} \/ t.scope # scope

(* thread_for_start. *)
Start ==
  /\ op.pc = "start"
  /\ IF op.thread = None
     THEN op' = [op EXCEPT !.pc = "reference", !.thread = FreshThread(op.scope)]
     ELSE IF Abandons(op.thread, op.scope) THEN Forget("reference", "stopped")
     ELSE IF op.thread.open = None THEN Goto("reference")
     ELSE op' = Reconciling("reference", "stopped")
  /\ UNCHANGED <<thread, delivery, run, told, reply>>

(* Mutant: the history taken out of the thread is not put back. *)
NamingEmptied(t, r, kept) == [t EXCEPT !.open = r, !.history = <<>>]

(* The thread with its kept history and its new run. *)
Naming(t, r, kept) == [t EXCEPT !.open = r, !.history = kept]

(* The budget keeps the newest exchanges, or refuses the turn.  The thread *)
(* is saved before its run is submitted; an identifier whose run was never *)
(* submitted names nothing and may be taken again.                         *)
Reference ==
  /\ op.pc = "reference"
  /\ \/ \E r \in Run, n \in 1..(Len(op.thread.history) + 1) :
          LET kept == SubSeq(op.thread.history, n, Len(op.thread.history))
          IN /\ run[r].state = "unknown"
             /\ \A q \in 1..(r - 1) : run[q].state # "unknown"
             /\ thread' = Naming(op.thread, r, kept)
             /\ op' = [op EXCEPT !.pc = "submit", !.run = r,
                                 !.thread = Naming(@, r, kept), !.kept = kept]
             /\ UNCHANGED reply
     \/ Answer("refused") /\ UNCHANGED thread
  /\ UNCHANGED <<delivery, run, told>>

Submit ==
  /\ op.pc = "submit"
  /\ run' = [run EXCEPT ![op.run].state = "open", ![op.run].scope = op.scope,
                        ![op.run].base = op.kept]
  /\ Goto("drive")
  /\ UNCHANGED <<thread, delivery, told, reply>>

-----------------------------------------------------------------------------
(* Driving the run of the operation *)

(* The rounds asked so far, by every run. *)
Rounds == {i[2] : i \in UNION {run[r].asked : r \in Run}}

(* The next round a run may ask Team for. *)
NewRounds(r) ==
  LET k == Cardinality(Rounds) + 1
  IN IF k > MaxRounds THEN {}
     ELSE {{<<r, k, i>> : i \in S} : S \in SUBSET Slot \ {{}}}

WithRound(me, new) ==
  IF new = {} THEN me
  ELSE [me EXCEPT !.asked = @ \cup new, !.round = new, !.pending = new]

(* The run parks on new requests. *)
Ask ==
  /\ op.pc = "drive"
  /\ LET me == run[op.run]
     IN /\ me.state = "open" /\ ~me.cancel /\ me.pending = {}
        /\ \E new \in NewRounds(op.run) :
             run' = [run EXCEPT ![op.run] = WithRound(me, new)]
  /\ Goto("suspended")
  /\ UNCHANGED <<thread, delivery, told, reply>>

(* The run still waits for requests it asked before. *)
Wait ==
  /\ op.pc = "drive"
  /\ run[op.run].pending # {}
  /\ ~run[op.run].cancel
  /\ Goto("suspended")
  /\ UNCHANGED <<thread, delivery, run, told, reply>>

(* The run ends.  A cancellation wins over every other outcome, also one   *)
(* that lands while the run is about to wait: the requests it was about to *)
(* park on are then written with its end.                                  *)
End ==
  /\ op.pc = "drive"
  /\ \E out \in Outcome, new \in {{}} \cup NewRounds(op.run) :
       LET me == run[op.run]
       IN /\ out = "cancelled" <=> me.cancel
          /\ out \in {"done", "failed"} => me.pending = {}
          /\ new # {} => me.cancel /\ me.pending = {}
          /\ run' = [run EXCEPT ![op.run] =
                       [WithRound(me, new) EXCEPT !.state = "ended",
                          !.outcome = out, !.finisher = op.answered]]
  /\ Goto("ended")
  /\ UNCHANGED <<thread, delivery, told, reply>>

(* The client went away: the run is cancelled while its drive lasts.       *)
Cancel ==
  /\ op.pc \in {"drive", "suspended"}
  /\ ~run[op.run].cancel
  /\ run' = [run EXCEPT ![op.run].cancel = TRUE]
  /\ UNCHANGED <<thread, delivery, op, told, reply>>

(* The requests the run waits on are answered to Team. *)
Suspended ==
  /\ op.pc = "suspended"
  /\ Answer("pending")
  /\ told' = told \cup run[op.run].pending
  /\ UNCHANGED <<thread, delivery, run>>

(* Mutant: the delivery names the turn committed before. *)
CommitStale ==
  /\ op.pc = "ended"
  /\ run[op.run].outcome = "done"
  /\ LET new == [op.thread EXCEPT !.history = Append(run[op.run].base, op.run),
                                  !.committed = op.run]
     IN thread' = new /\ op' = [Reconciling("idle", "turn") EXCEPT !.thread = new]
  /\ delivery' = [answered |-> op.answered, turn |-> op.thread.committed]
  /\ UNCHANGED <<run, told, reply>>

(* Mutant: the exchange is committed without its delivery. *)
CommitUndelivered ==
  /\ op.pc = "ended"
  /\ run[op.run].outcome = "done"
  /\ LET new == [op.thread EXCEPT !.history = Append(run[op.run].base, op.run),
                                  !.committed = op.run]
     IN thread' = new /\ op' = [Reconciling("idle", "turn") EXCEPT !.thread = new]
  /\ UNCHANGED <<delivery, run, told, reply>>

(* The exchange and its delivery in one transaction; open_run stays. *)
Commit ==
  /\ op.pc = "ended"
  /\ run[op.run].outcome = "done"
  /\ LET new == [op.thread EXCEPT !.history = Append(run[op.run].base, op.run),
                                  !.committed = op.run]
     IN thread' = new /\ op' = [Reconciling("idle", "turn") EXCEPT !.thread = new]
  /\ delivery' = [answered |-> op.answered, turn |-> op.run]
  /\ UNCHANGED <<run, told, reply>>

(* A run that ended otherwise leaves no exchange. *)
Stop ==
  /\ op.pc = "ended"
  /\ run[op.run].outcome # "done"
  /\ op' = Reconciling("idle", "stopped")
  /\ UNCHANGED <<thread, delivery, run, told, reply>>

-----------------------------------------------------------------------------
(* resume *)

(* Every result was recorded by an earlier resume. *)
Applied(r) ==
  op.answered \subseteq run[r].asked /\ op.answered \cap run[r].pending = {}

(* Mutant: any resume whose results were recorded finishes the run. *)
FinishesApplied(r) == Applied(r)

(* Only the resume naming exactly the last round finishes the run. *)
Finishes(r) == Applied(r) /\ op.answered = run[r].round

Refuse == Answer("refused") /\ UNCHANGED <<thread, delivery, run, told>>

(* Mutant: a run that ended is let go, committed or not. *)
ResumeEndedDropped(r) ==
  /\ run[r].state = "ended"
  /\ op' = Reconciling("delivered", "stopped")
  /\ UNCHANGED reply

(* The open run already ended: commit it now, or let it go. *)
ResumeEnded(r) ==
  /\ run[r].state = "ended"
  /\ \/ /\ op.thread.committed # r /\ Finishes(r)
        /\ op' = [op EXCEPT !.pc = "ended", !.run = r]
        /\ UNCHANGED reply
     \/ op.thread.committed # r /\ ~Finishes(r) /\ Answer("refused")
     \/ /\ op.thread.committed = r
        /\ op' = Reconciling("delivered", "stopped")
        /\ UNCHANGED reply

(* The open run goes on: it was killed in the middle, or waits on Team. *)
ResumeOpen(r) ==
  /\ run[r].state = "open"
  /\ IF run[r].pending = {} /\ ~Applied(r)
     THEN op' = Reconciling("delivered", "stopped") /\ UNCHANGED reply
     ELSE IF run[r].pending = {} /\ ~Finishes(r) THEN Answer("refused")
     ELSE IF op.scope # op.thread.scope
     THEN Forget("idle", "refused") /\ UNCHANGED reply
     ELSE \/ Answer("refused")
          \/ /\ op.answered \subseteq run[r].asked
             /\ op' = [op EXCEPT !.pc = "resolve", !.run = r]
             /\ UNCHANGED reply

Resume ==
  /\ op.pc = "resume"
  /\ IF op.thread = None THEN Answer("refused")
     ELSE IF op.thread.open = None THEN Goto("delivered") /\ UNCHANGED reply
     ELSE IF ~Held(op.thread.open)
     THEN /\ op' = [op EXCEPT !.pc = "letGo", !.next = "delivered"]
          /\ UNCHANGED reply
     ELSE ResumeEnded(op.thread.open) \/ ResumeOpen(op.thread.open)
  /\ UNCHANGED <<thread, delivery, run, told>>

(* The results still open are recorded one by one, then the run is driven. *)
Resolve ==
  /\ op.pc = "resolve"
  /\ \/ \E i \in op.answered \cap run[op.run].pending :
          /\ run' = [run EXCEPT ![op.run].pending = @ \ {i}]
          /\ UNCHANGED op
     \/ /\ op.answered \cap run[op.run].pending = {}
        /\ Goto("drive")
        /\ UNCHANGED run
  /\ UNCHANGED <<thread, delivery, told, reply>>

(* The committed turn again, to exactly the resume it was delivered to. *)
Delivered ==
  /\ op.pc = "delivered"
  /\ IF delivery # None /\ delivery.answered = op.answered
     THEN /\ op' = Idle
          /\ reply' = [kind |-> "turn", run |-> delivery.turn,
                       answered |-> op.answered]
     ELSE Answer("refused")
  /\ UNCHANGED <<thread, delivery, run, told>>

-----------------------------------------------------------------------------

(* Any transaction may fail, or a drive: the request is answered 503. *)
Fail ==
  /\ op.pc # "idle"
  /\ Answer("state")
  /\ UNCHANGED <<thread, delivery, run, told>>

(* The process dies with its request; Team never receives an answer. *)
Crash ==
  /\ op.pc # "idle"
  /\ op' = Idle
  /\ UNCHANGED <<thread, delivery, run, told, reply>>

Init ==
  /\ thread = None
  /\ delivery = None
  /\ run = [r \in Run |-> Unknown]
  /\ op = Idle
  /\ told = {}
  /\ reply = Silence

Next ==
  \/ Request \/ Start \/ Reference \/ Submit \/ Resume \/ Resolve \/ Delivered
  \/ Ask \/ Wait \/ End \/ Cancel \/ Suspended \/ Commit \/ Stop
  \/ Erase \/ LetGo \/ Delete \/ ForgetRun \/ ForgetThread \/ ForgetDelivery
  \/ Fail \/ Crash

Spec == Init /\ [][Next]_vars

-----------------------------------------------------------------------------
(* Properties *)

(* The rows of both stores and the operation have the types of the code.   *)
TurnTypeOK ==
  /\ thread \in Thread \cup {None}
  /\ delivery \in Delivery \cup {None}
  /\ run \in [Run -> RunState]
  /\ op \in Op
  /\ told \subseteq Interrupt
  /\ reply \in Reply

(* The ledger holds no run but the one its thread names, at every crash    *)
(* point: nothing is left that no later request finds (service.rs start,   *)
(* reconcile, delete_thread_locked).                                       *)
NoOrphanRun ==
  \A r \in Run : Held(r) => thread # None /\ thread.open = r

(* What a thread remembers, and the run it has open, belong to the exact   *)
(* Assistant contract it is bound to (prepare.rs thread_for_start,         *)
(* service.rs resume_open).                                                *)
OneContract ==
  thread # None =>
    /\ \A i \in DOMAIN thread.history :
         run[thread.history[i]].scope = thread.scope
    /\ thread.open # None /\ Held(thread.open) =>
         run[thread.open].scope = thread.scope

(* A turn is received only by a resume that answered its last round of     *)
(* requests, never by the late repetition of an earlier round's resume     *)
(* (service.rs resume_open, delivered).                                    *)
TurnToItsRound ==
  reply.kind = "turn" /\ reply.answered # {} =>
    reply.answered \cap run[reply.run].round # {}

(* The resume that finished its run by naming the whole last round is      *)
(* never refused when Team repeats it, until the thread moves on to        *)
(* another turn or is forgotten (service.rs resume_open, ended, delivered).*)
RetryReceivesTurn ==
  \A r \in Run :
    /\ run[r].outcome = "done" /\ run[r].finisher = run[r].round
    /\ reply.kind = "refused" /\ reply.answered = run[r].round
    /\ run[r].round # {}
    => ~ /\ thread # None
         /\ \/ thread.open = r
            \/ thread.open = None /\ thread.committed = r

(* A completed turn leaves the ledger uncommitted only when a new turn or  *)
(* a deletion abandons it, never because Team resumed it (service.rs       *)
(* resume_open, threads.rs commit).                                        *)
DoneKept ==
  [][\A r \in Run :
       /\ run[r].state = "ended" /\ run'[r].state = "deleted"
       /\ run[r].outcome = "done" /\ op.answered # {}
       => thread.committed = r]_vars

(* The history of the thread is that of a conversation: crashes, failures  *)
(* and repeated requests neither lose, repeat nor resurrect an exchange    *)
(* (threads.rs save and commit, service.rs ended and reconcile).           *)
History == IF thread = None THEN <<>> ELSE thread.history

Chat == INSTANCE Conversation WITH Exchange <- Run, history <- History

IsConversation == Chat!Spec

-----------------------------------------------------------------------------
(* What the source says of itself, and does not hold *)

(* "deletes it and keeps the history" (service.rs reconcile): a start      *)
(* under the same contract forgets a conversation only for a turn that     *)
(* still waits on Team, not for one that ended.                            *)
EndedKeepsHistory ==
  op.pc = "forgetRun" /\ op.next = "reference" /\ thread.scope = op.scope =>
    run[thread.open].state = "open"

(* "The committed turn kept for a repeated resume goes with its thread     *)
(* too" (threads.rs): a turn is received only from the thread that         *)
(* committed it.                                                           *)
DeliveredCommitted ==
  reply.kind = "turn" => thread # None /\ thread.committed = reply.run
=============================================================================
