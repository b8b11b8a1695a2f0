------------------------- MODULE TurnServiceProofs -------------------------
(***************************************************************************)
(* Theorems about TurnService, for every number of turns, rounds, requests *)
(* and contracts.                                                          *)
(***************************************************************************)
EXTENDS TurnService, FiniteSetTheorems, TLAPS

(* Where an operation works on its run, and has driven or may drive it. *)
Working == {"submit", "resolve", "drive", "suspended", "ended"}

(* What an operation holds in memory is what the next step takes it for. *)
MemoryInv ==
  /\ op.pc \in Working => op.run \in Run
  /\ op.pc \in Working \cup {"reference", "erase", "letGo"} => op.thread \in Thread
  /\ op.pc = "start" \/ op.next = "reference" => op.scope \in Scope
  /\ op.pc \in {"forgetRun", "forgetThread", "forgetDelivery"} => op.next # "delivered"

(* The types of the state, and of what an operation holds. *)
TypeInv == TurnTypeOK /\ MemoryInv

(* The thread in memory is the stored one until the operation writes it.   *)
LoadedInv ==
  op.pc \in Working \cup {"start", "resume", "erase"} => op.thread = thread

(* Nothing is held where a run is about to be named, or was let go.        *)
QuietInv ==
  op.pc \in {"reference", "letGo", "forgetThread", "forgetDelivery"} =>
    \A r \in Run : ~Held(r)

(* The run an operation works on is the one the thread names; it is new    *)
(* until it is submitted.                                                  *)
WorkInv ==
  op.pc \in Working =>
    /\ thread.open = op.run
    /\ IF op.pc = "submit" THEN run[op.run].state = "unknown" ELSE Held(op.run)

OrphanInv == NoOrphanRun /\ LoadedInv /\ QuietInv /\ WorkInv

(* Every exchange of a history comes from a run under this contract. *)
Under(runs, scope, h) ==
  \A i \in DOMAIN h : runs[h[i]].state # "unknown" /\ runs[h[i]].scope = scope

(* What is stored belongs to one contract. *)
StoredInv ==
  /\ thread # None => Under(run, thread.scope, thread.history)
  /\ thread # None /\ thread.open # None /\ Held(thread.open) =>
       run[thread.open].scope = thread.scope
  /\ \A r \in Run : Held(r) => Under(run, run[r].scope, run[r].base)

(* What an operation is about to store belongs to the contract it is for.  *)
MeantInv ==
  /\ op.pc \in {"reference", "letGo"} =>
       Under(run, op.thread.scope, op.thread.history)
  /\ op.pc = "submit" => Under(run, op.scope, op.kept)
  /\ \/ op.pc \in {"reference", "submit"}
     \/ op.next = "reference" /\ op.pc \in {"erase", "letGo"}
     => op.thread.scope = op.scope

(* Runs are numbered in the order they are submitted, so a run starts from *)
(* exchanges that are older than its own.                                  *)
OrderInv ==
  /\ \A r \in Run : run[r].state # "unknown" =>
       \A q \in 1..(r - 1) : run[q].state # "unknown"
  /\ op.pc = "submit" => \A q \in 1..(op.run - 1) : run[q].state # "unknown"
  /\ \A r \in Run : Held(r) => \A i \in DOMAIN run[r].base : run[r].base[i] < r

(* A committed turn has ended, and until it is committed the thread keeps  *)
(* the history its run started from.                                       *)
CommitInv ==
  /\ thread # None /\ thread.committed # None =>
       run[thread.committed].state \in {"ended", "deleted"}
  /\ thread # None /\ thread.open # None /\ Held(thread.open)
     /\ thread.committed # thread.open =>
       thread.history = run[thread.open].base

(* Where the operation is in the life of its run, and that what it holds   *)
(* of the thread is what the thread remembers.                             *)
ProgressInv ==
  /\ op.pc \in {"resolve", "drive", "suspended"} => run[op.run].state = "open"
  /\ op.pc = "ended" =>
       run[op.run].state = "ended" /\ thread.committed # op.run
  /\ op.pc = "submit" => thread.history = op.kept
  /\ op.pc = "letGo" => op.thread = thread
  /\ op.pc = "forgetDelivery" => thread = None
  /\ op.pc = "reference" =>
       IF thread = None THEN op.thread.history = <<>> /\ op.thread.committed = None
       ELSE op.thread = thread

ChatInv == OrderInv /\ CommitInv /\ ProgressInv

(* What an operation that answers requests is about to delete of a run:    *)
(* one that did not complete, or was committed.                            *)
KeptInv ==
  /\ op.pc \in {"start", "delete"} => op.answered = {}
  /\ op.pc = "forgetRun" /\ op.answered # {} => run[thread.open].state = "open"
  /\ op.pc = "erase" /\ op.answered # {} /\ run[op.thread.open].state = "ended"
     /\ run[op.thread.open].outcome = "done" =>
       op.thread.committed = op.thread.open

(* A run that ended; it asks no further round. *)
Finished(r) == r \in Run /\ run[r].state \in {"ended", "deleted"}

(* What the run waits on are requests of its last round, and a run that is *)
(* done waits on none.                                                     *)
AskedInv ==
  \A r \in Run :
    /\ run[r].pending \subseteq run[r].round
    /\ run[r].round \subseteq run[r].asked
    /\ run[r].outcome = "done" => Finished(r) /\ run[r].pending = {}

(* The resume, if it is one, names a request of the run's last round. *)
Reaches(answered, r) == answered # {} => answered \cap run[r].round # {}

(* A turn is told, or kept for a repetition, of a run that ended, to a     *)
(* resume that reached its last round.                                     *)
ToldInv ==
  /\ reply.kind = "turn" => Finished(reply.run) /\ Reaches(reply.answered, reply.run)
  /\ delivery # None =>
       Finished(delivery.turn) /\ Reaches(delivery.answered, delivery.turn)
  /\ op.out = "turn" =>
       /\ op.pc \in {"erase", "letGo"} /\ op.next = "idle"
       /\ Finished(op.run) /\ Reaches(op.answered, op.run)

(* A resume that drives its run waits on that round too, or reached it. *)
DrivenInv ==
  /\ op.pc \in {"resolve", "drive"} =>
       run[op.run].pending # {} \/ Reaches(op.answered, op.run)
  /\ op.pc = "ended" /\ run[op.run].outcome = "done" =>
       Reaches(op.answered, op.run)

RoundInv == AskedInv /\ ToldInv /\ DrivenInv

(* Nothing is answered while an operation lasts; a start answers no        *)
(* requests, and only a resume whose contract changed refuses after it     *)
(* forgot its thread.                                                      *)
QuestionInv ==
  /\ op.pc # "idle" => reply = Silence
  /\ op.next = "reference" \/ op.pc \in {"start", "delete", "reference", "submit"}
     => op.answered = {}
  /\ op.out = "refused" =>
       op.pc \in {"forgetRun", "forgetThread", "forgetDelivery"} /\ op.next = "idle"
  /\ op.pc = "delivered" => thread # None /\ thread.open = None

(* The resume that ended the run named its whole last round. *)
Whole(r) == run[r].finisher = run[r].round /\ run[r].round # {}

(* A turn that such a resume finished is committed with its delivery to it. *)
FinishInv ==
  /\ op.pc = "ended" =>
       run[op.run].finisher = op.answered \/ op.answered = run[op.run].round
  /\ thread # None /\ thread.committed # None /\ Whole(thread.committed) =>
       delivery # None /\ delivery.answered = run[thread.committed].round

RetryInv == QuestionInv /\ FinishInv /\ RetryReceivesTurn

-----------------------------------------------------------------------------
(* Types *)

(* Memory and answers before the first request are typed. *)
LEMMA IdleTyped == Idle \in Op /\ Silence \in Reply
PROOF BY DEF Idle, Op, Silence, Reply

(* Any answer leaves typed memory and a typed reply. *)
LEMMA AnswerTyped ==
  ASSUME TypeInv,
         NEW kind \in {"pending", "turn", "refused", "state", "stopped", "deleted"},
         kind # "turn", Answer(kind)
  PROVE  op' = Idle /\ op' \in Op /\ reply' \in Reply /\ MemoryInv'
PROOF
<1>1. op.answered \in SUBSET Interrupt
  BY DEF TypeInv, TurnTypeOK, Op
<1>2. op' = Idle /\ op' \in Op /\ reply' \in Reply
  BY <1>1, IdleTyped DEF Answer, Reply
<1>3. op'.pc = "idle" /\ op'.next = "idle"
  BY <1>2 DEF Idle
<1>4. MemoryInv'
  BY <1>3 DEF MemoryInv, Working
<1> QED
  BY <1>2, <1>4

(* A fresh thread is a thread. *)
LEMMA FreshThreadTyped ==
  ASSUME NEW scope \in Scope
  PROVE  FreshThread(scope) \in Thread
PROOF BY DEF FreshThread, Thread

(* A run leaves the ledger typed. *)
LEMMA DeletedTyped ==
  ASSUME TypeInv, NEW r
  PROVE  Deleted(r) \in [Run -> RunState]
PROOF
<1>1. run \in [Run -> RunState] /\ <<>> \in Seq(Run)
  BY DEF TypeInv, TurnTypeOK
<1>2. ASSUME NEW me \in RunState
      PROVE  [me EXCEPT !.state = "deleted", !.base = <<>>, !.pending = {},
                        !.cancel = FALSE] \in RunState
  BY <1>1 DEF RunState
<1> QED
  BY <1>1, <1>2 DEF Deleted

(* The rounds are numbered within their bound. *)
LEMMA NewRoundsTyped ==
  ASSUME TypeInv, NEW r \in Run, NEW new \in NewRounds(r)
  PROVE  new \in SUBSET Interrupt
PROOF
<1>1. Rounds \subseteq 1..MaxRounds
  BY DEF TypeInv, TurnTypeOK, Rounds, RunState, Interrupt
<1>2. IsFiniteSet(1..MaxRounds)
  BY FS_Interval, TurnAssumption
<1>3. Cardinality(Rounds) \in Nat
  BY <1>1, <1>2, FS_Subset, FS_CardinalityType
<1>4. Cardinality(Rounds) + 1 \in 1..MaxRounds
  BY <1>3, TurnAssumption DEF NewRounds
<1> QED
  BY <1>4 DEF NewRounds, Interrupt

(* A run that asks a new round stays typed. *)
LEMMA WithRoundTyped ==
  ASSUME TypeInv, NEW me \in RunState, NEW new \in SUBSET Interrupt
  PROVE  /\ WithRound(me, new) \in RunState
         /\ WithRound(me, new).state = me.state
         /\ WithRound(me, new).scope = me.scope
         /\ WithRound(me, new).base = me.base
PROOF BY DEF WithRound, RunState

(* Every request is admitted with typed memory. *)
LEMMA RequestTyped ==
  ASSUME TypeInv, Request
  PROVE  TypeInv'
PROOF
<1>1. PICK pc \in {"start", "delete", "resume"}, scope \in Scope \cup {None},
           answered \in SUBSET told :
        Admit(pc, scope, answered) /\ (pc = "start" => scope \in Scope)
  BY DEF Request
<1>2. op' \in Op
  BY <1>1, IdleTyped DEF Admit, Op, TypeInv, TurnTypeOK
<1>3. TurnTypeOK'
  BY <1>1, <1>2, IdleTyped DEF Admit, TypeInv, TurnTypeOK
<1>4. op' = [Idle EXCEPT !.pc = pc, !.scope = scope, !.answered = answered,
                         !.thread = thread]
  BY <1>1 DEF Admit
<1>5. op'.pc = pc /\ op'.next = "idle" /\ op'.scope = scope
  BY <1>4 DEF Idle
<1>6. MemoryInv'
  BY <1>1, <1>5 DEF MemoryInv, Working
<1> QED
  BY <1>3, <1>6 DEF TypeInv

(* What the operation forgets next is typed. *)
LEMMA ForgetTyped ==
  ASSUME TypeInv, NEW next \in {"idle", "reference"},
         NEW out \in {"stopped", "refused", "deleted"}, Forget(next, out)
  PROVE  /\ op' \in Op
         /\ op'.pc \in {"forgetRun", "forgetThread"}
         /\ op'.next = next /\ op'.scope = op.scope
         /\ op'.pc = "forgetThread" => thread = None \/ thread.open = None
PROOF
<1> DEFINE pc == IF thread # None /\ thread.open # None THEN "forgetRun"
                 ELSE "forgetThread"
<1>1. op' = [op EXCEPT !.next = next, !.out = out, !.pc = pc]
  BY DEF Forget
<1>2. pc \in {"forgetRun", "forgetThread"}
      /\ (pc = "forgetThread" => thread = None \/ thread.open = None)
  OBVIOUS
<1>3. op \in Op
  BY DEF TypeInv, TurnTypeOK
<1> HIDE DEF pc
<1>4. op' \in Op /\ op'.pc = pc /\ op'.next = next /\ op'.scope = op.scope
  BY <1>1, <1>2, <1>3 DEF Op
<1> QED
  BY <1>2, <1>4

(* An operation that goes to another step keeps what it holds. *)
LEMMA GotoTyped ==
  ASSUME TypeInv,
         NEW pc \in {"reference", "submit", "resolve", "drive", "suspended",
                     "ended", "erase", "letGo", "forgetRun", "forgetThread",
                     "forgetDelivery", "delivered"},
         op' = [op EXCEPT !.pc = pc]
  PROVE  /\ op' \in Op
         /\ op'.pc = pc
         /\ op'.next = op.next /\ op'.scope = op.scope
         /\ op'.thread = op.thread /\ op'.run = op.run
PROOF BY DEF TypeInv, TurnTypeOK, Op

(* So does one that goes to reconcile its thread. *)
LEMMA ReconcilingTyped ==
  ASSUME TypeInv, NEW next \in {"idle", "reference", "delivered"},
         NEW out \in {"turn", "stopped"}, op' = Reconciling(next, out)
  PROVE  /\ op' \in Op
         /\ op'.pc = "erase" /\ op'.next = next
         /\ op'.scope = op.scope /\ op'.thread = op.thread
PROOF BY DEF TypeInv, TurnTypeOK, Op, Reconciling

(* Deleting, and reconciling, keep the types. *)
LEMMA DeletionTyped ==
  ASSUME TypeInv,
         Erase \/ LetGo \/ Delete \/ ForgetRun \/ ForgetThread \/ ForgetDelivery
  PROVE  TypeInv'
PROOF
<1> USE DEF TypeInv, Working
<1>0. Idle.pc = "idle" /\ Idle.next = "idle"
  BY DEF Idle
<1>1. CASE Erase
  <2>1. run' \in [Run -> RunState]
    BY <1>1, DeletedTyped DEF Erase
  <2> QED
    BY <1>1, <2>1 DEF Erase, Goto, TurnTypeOK, MemoryInv, Op
<1>2. CASE LetGo
  <2>1. op.thread \in Thread
    BY <1>2 DEF LetGo, MemoryInv
  <2>2. thread' \in Thread /\ [op.thread EXCEPT !.open = None] \in Thread
    BY <1>2, <2>1 DEF LetGo, Thread
  <2>3. CASE op.next = "idle"
    <3>1. op' = Idle /\ op' \in Op /\ reply' \in Reply
      <4>1. CASE op.out = "turn"
        BY <1>2, <2>3, <4>1, IdleTyped DEF LetGo, Answer, TurnTypeOK, Op, Reply
      <4>2. CASE op.out # "turn"
        BY <1>2, <2>3, <4>2, AnswerTyped DEF LetGo, TurnTypeOK, Op
      <4> QED
        BY <4>1, <4>2
    <3> QED
      BY <1>2, <2>2, <3>1, <1>0 DEF LetGo, TurnTypeOK, MemoryInv
  <2>4. CASE op.next # "idle"
    <3>1. op' = [op EXCEPT !.pc = op.next, !.thread.open = None]
      BY <1>2, <2>4 DEF LetGo
    <3>2. op'.thread = [op.thread EXCEPT !.open = None] /\ op'.pc = op.next
          /\ op'.next = op.next /\ op'.scope = op.scope /\ op' \in Op
      BY <3>1, <2>2 DEF TurnTypeOK, Op
    <3>3. MemoryInv'
      BY <3>2, <2>2 DEF MemoryInv, TurnTypeOK, Op
    <3> QED
      BY <1>2, <2>2, <2>4, <3>2, <3>3 DEF LetGo, TurnTypeOK
  <2> QED
    BY <2>3, <2>4
<1>3. CASE Delete
  BY <1>3, ForgetTyped DEF Delete, TurnTypeOK, MemoryInv
<1>4. CASE ForgetRun
  <2>1. run' \in [Run -> RunState]
    BY <1>4, DeletedTyped DEF ForgetRun
  <2> QED
    BY <1>4, <2>1 DEF ForgetRun, Goto, TurnTypeOK, MemoryInv, Op
<1>5. CASE ForgetThread
  BY <1>5 DEF ForgetThread, Goto, TurnTypeOK, MemoryInv, Op
<1>6. CASE ForgetDelivery
  <2>1. CASE op.next = "idle"
    <3>1. op' = Idle /\ op' \in Op /\ reply' \in Reply
      <4>1. CASE op.out = "turn"
        BY <1>6, <2>1, <4>1, IdleTyped DEF ForgetDelivery, Answer, TurnTypeOK, Op, Reply
      <4>2. CASE op.out # "turn"
        BY <1>6, <2>1, <4>2, AnswerTyped DEF ForgetDelivery, TurnTypeOK, Op
      <4> QED
        BY <4>1, <4>2
    <3> QED
      BY <1>6, <3>1, <1>0 DEF ForgetDelivery, TurnTypeOK, MemoryInv
  <2>2. CASE op.next = "reference"
    <3>1. FreshThread(op.scope) \in Thread
      BY <2>2, FreshThreadTyped DEF MemoryInv
    <3>2. /\ op' = [op EXCEPT !.pc = "reference", !.thread = FreshThread(op.scope)]
          /\ delivery' = None
          /\ UNCHANGED <<thread, run, told, reply>>
      BY <1>6, <2>2 DEF ForgetDelivery
    <3>3. op' \in Op /\ op'.pc = "reference" /\ op'.next = op.next
          /\ op'.scope = op.scope /\ op'.thread = FreshThread(op.scope)
      BY <3>1, <3>2 DEF TurnTypeOK, Op
    <3>4. TurnTypeOK'
      BY <3>2, <3>3 DEF TurnTypeOK
    <3>5. MemoryInv'
      BY <2>2, <3>1, <3>3 DEF MemoryInv
    <3> QED
      BY <3>4, <3>5
  <2> QED
    BY <1>6, <2>1, <2>2 DEF ForgetDelivery, MemoryInv, TurnTypeOK, Op
<1> QED
  BY <1>1, <1>2, <1>3, <1>4, <1>5, <1>6

(* Starting a turn keeps the types. *)
LEMMA StartTyped ==
  ASSUME TypeInv, Start \/ Reference \/ Submit
  PROVE  TypeInv'
PROOF
<1> USE DEF TypeInv, Working
<1>1. CASE Start
  <2>1. op.scope \in Scope /\ op.pc = "start"
    BY <1>1 DEF Start, MemoryInv
  <2>2. CASE op.thread = None
    <3>1. FreshThread(op.scope) \in Thread
      BY <2>1, FreshThreadTyped
    <3>2. op' = [op EXCEPT !.pc = "reference", !.thread = FreshThread(op.scope)]
          /\ UNCHANGED <<thread, delivery, run, told, reply>>
      BY <1>1, <2>2 DEF Start
    <3> QED
      BY <2>1, <3>1, <3>2 DEF TurnTypeOK, MemoryInv, Op
  <2>3. CASE op.thread # None /\ Abandons(op.thread, op.scope)
    BY <1>1, <2>1, <2>3, ForgetTyped DEF Start, TurnTypeOK, MemoryInv
  <2>4. CASE op.thread # None /\ ~Abandons(op.thread, op.scope)
    <3>1. op.thread \in Thread /\ UNCHANGED <<thread, delivery, run, told, reply>>
      BY <1>1, <2>4 DEF Start, TurnTypeOK, Op
    <3>2. CASE op.thread.open = None
      <4>1. op' = [op EXCEPT !.pc = "reference"]
        BY <1>1, <2>4, <3>2 DEF Start, Goto
      <4>2. op' \in Op /\ op'.pc = "reference" /\ op'.next = op.next
            /\ op'.scope = op.scope /\ op'.thread = op.thread
        BY <4>1, GotoTyped
      <4> QED
        BY <2>1, <3>1, <4>2 DEF TurnTypeOK, MemoryInv
    <3>3. CASE op.thread.open # None
      <4>1. op' = Reconciling("reference", "stopped")
        BY <1>1, <2>4, <3>3 DEF Start
      <4>2. op' \in Op /\ op'.pc = "erase" /\ op'.next = "reference"
            /\ op'.scope = op.scope /\ op'.thread = op.thread
        BY <4>1, ReconcilingTyped
      <4> QED
        BY <2>1, <3>1, <4>2 DEF TurnTypeOK, MemoryInv
    <3> QED
      BY <3>2, <3>3
  <2> QED
    BY <2>2, <2>3, <2>4
<1>2. CASE Reference
  <2>1. CASE Answer("refused") /\ thread' = thread
    <3>1. UNCHANGED <<delivery, run, told>>
      BY <1>2 DEF Reference
    <3>2. op' \in Op /\ reply' \in Reply /\ MemoryInv'
      BY <2>1, AnswerTyped
    <3> QED
      BY <2>1, <3>1, <3>2 DEF TurnTypeOK
  <2>2. ASSUME NEW r \in Run, NEW kept \in Seq(Run),
               thread' = Naming(op.thread, r, kept),
               op' = [op EXCEPT !.pc = "submit", !.run = r,
                                !.thread = Naming(@, r, kept), !.kept = kept],
               reply' = reply
        PROVE  TypeInv'
    <3>1. op.thread \in Thread
      BY <1>2 DEF Reference, MemoryInv
    <3>2. Naming(op.thread, r, kept) \in Thread
      BY <3>1 DEF Naming, Thread
    <3> QED
      BY <1>2, <2>2, <3>2 DEF Reference, TurnTypeOK, MemoryInv, Op
  <2>3. op.thread.history \in Seq(Run)
    BY <1>2 DEF Reference, MemoryInv, Thread
  <2>4. \A n \in 1..(Len(op.thread.history) + 1) :
          SubSeq(op.thread.history, n, Len(op.thread.history)) \in Seq(Run)
    BY <2>3
  <2> QED
    BY <1>2, <2>1, <2>2, <2>4 DEF Reference
<1>3. CASE Submit
  <2>1. op.run \in Run /\ op.scope \in Scope \cup {None} /\ op.kept \in Seq(Run)
    BY <1>3 DEF Submit, MemoryInv, TurnTypeOK, Op
  <2>2. run' = [run EXCEPT ![op.run] =
                  [@ EXCEPT !.state = "open", !.scope = op.scope, !.base = op.kept]]
    BY <1>3, <2>1 DEF Submit, TurnTypeOK
  <2>3. run[op.run] \in RunState
    BY <2>1 DEF TurnTypeOK
  <2>4. [run[op.run] EXCEPT !.state = "open", !.scope = op.scope, !.base = op.kept]
          \in RunState
    BY <2>1, <2>3 DEF RunState
  <2>5. run' \in [Run -> RunState]
    BY <2>1, <2>2, <2>4 DEF TurnTypeOK
  <2> QED
    BY <1>3, <2>5 DEF Submit, Goto, TurnTypeOK, MemoryInv, Op
<1> QED
  BY <1>1, <1>2, <1>3

(* Driving the run of an operation keeps the types. *)
LEMMA DriveTyped ==
  ASSUME TypeInv, Ask \/ Wait \/ End \/ Cancel \/ Suspended
  PROVE  TypeInv'
PROOF
<1> USE DEF TypeInv, Working
<1>1. op.run \in Run /\ run[op.run] \in RunState
  BY DEF Ask, Wait, End, Cancel, Suspended, MemoryInv, TurnTypeOK
<1>2. op.answered \in SUBSET Interrupt
  BY DEF TurnTypeOK, Op
<1>3. CASE Ask
  <2>1. run' \in [Run -> RunState]
    BY <1>1, <1>3, NewRoundsTyped, WithRoundTyped DEF Ask, TurnTypeOK
  <2> QED
    BY <1>3, <2>1 DEF Ask, Goto, TurnTypeOK, MemoryInv, Op
<1>4. CASE Wait
  BY <1>4 DEF Wait, Goto, TurnTypeOK, MemoryInv, Op
<1>5. CASE End
  <2>1. PICK out \in Outcome, new \in {{}} \cup NewRounds(op.run) :
          run' = [run EXCEPT ![op.run] =
                    [WithRound(run[op.run], new) EXCEPT !.state = "ended",
                       !.outcome = out, !.finisher = op.answered]]
    BY <1>5 DEF End
  <2>2. WithRound(run[op.run], new) \in RunState
    BY <1>1, NewRoundsTyped, WithRoundTyped
  <2>3. [WithRound(run[op.run], new) EXCEPT !.state = "ended",
           !.outcome = out, !.finisher = op.answered] \in RunState
    BY <1>2, <2>2 DEF RunState
  <2>4. run' \in [Run -> RunState]
    BY <2>1, <2>3 DEF TurnTypeOK
  <2> QED
    BY <1>5, <2>4 DEF End, Goto, TurnTypeOK, MemoryInv, Op
<1>6. CASE Cancel
  <2>1. [run[op.run] EXCEPT !.cancel = TRUE] \in RunState
    BY <1>1 DEF RunState
  <2>2. run' = [run EXCEPT ![op.run] = [run[op.run] EXCEPT !.cancel = TRUE]]
    BY <1>1, <1>6 DEF Cancel
  <2>3. run' \in [Run -> RunState]
    BY <2>1, <2>2 DEF TurnTypeOK
  <2> QED
    BY <1>6, <2>3 DEF Cancel, TurnTypeOK, MemoryInv
<1>7. CASE Suspended
  <2>1. told' \subseteq Interrupt
    BY <1>1, <1>7 DEF Suspended, TurnTypeOK, RunState
  <2> QED
    BY <1>7, <2>1, AnswerTyped DEF Suspended, TurnTypeOK, MemoryInv, Idle
<1> QED
  BY <1>3, <1>4, <1>5, <1>6, <1>7

(* Ending a drive keeps the types. *)
LEMMA EndedTyped ==
  ASSUME TypeInv, Commit \/ Stop
  PROVE  TypeInv'
PROOF
<1> USE DEF TypeInv, Working
<1>1. op.pc = "ended" /\ op.run \in Run /\ op.thread \in Thread
  BY DEF Commit, Stop, MemoryInv
<1>2. CASE Commit
  <2> DEFINE new == [op.thread EXCEPT !.history = Append(run[op.run].base, op.run),
                                      !.committed = op.run]
  <2>1. run[op.run].base \in Seq(Run)
    BY <1>1 DEF TurnTypeOK, RunState
  <2>2. Append(run[op.run].base, op.run) \in Seq(Run)
    BY <1>1, <2>1
  <2>3. new \in Thread
    BY <1>1, <2>2 DEF Thread
  <2>4. thread' = new /\ op' = [Reconciling("idle", "turn") EXCEPT !.thread = new]
    BY <1>2 DEF Commit
  <2> HIDE DEF new
  <2>5. op' \in Op /\ op'.pc = "erase" /\ op'.next = "idle" /\ op'.thread = new
    BY <2>3, <2>4 DEF Reconciling, TurnTypeOK, Op
  <2>6. delivery' \in Delivery
    BY <1>1, <1>2 DEF Commit, TurnTypeOK, Op, Delivery
  <2>7. MemoryInv'
    BY <2>3, <2>5 DEF MemoryInv
  <2> QED
    BY <1>2, <2>3, <2>4, <2>5, <2>6, <2>7 DEF Commit, TurnTypeOK
<1>3. CASE Stop
  BY <1>1, <1>3 DEF Stop, Reconciling, TurnTypeOK, MemoryInv, Op
<1> QED
  BY <1>2, <1>3

(* Taking a run up again keeps the types. *)
LEMMA ResumeTyped ==
  ASSUME TypeInv, Resume \/ Resolve \/ Delivered
  PROVE  TypeInv'
PROOF
<1> USE DEF TypeInv, Working
<1>1. ASSUME Answer("refused"), UNCHANGED <<thread, delivery, run, told>>
      PROVE  TypeInv'
  BY <1>1, AnswerTyped DEF TurnTypeOK
<1>2. ASSUME op.thread # None, UNCHANGED <<thread, delivery, run, told, reply>>,
             op.pc = "resume",
             NEW r \in Run,
             \/ op' = [op EXCEPT !.pc = "ended", !.run = r]
             \/ op' = [op EXCEPT !.pc = "resolve", !.run = r]
             \/ op' = Reconciling("delivered", "stopped")
             \/ op' = [op EXCEPT !.pc = "letGo", !.next = "delivered"]
      PROVE  TypeInv'
  <2>1. op.thread \in Thread
    BY <1>2 DEF TurnTypeOK, Op
  <2>2. CASE \/ op' = [op EXCEPT !.pc = "ended", !.run = r]
             \/ op' = [op EXCEPT !.pc = "resolve", !.run = r]
    <3>1. op' \in Op /\ op'.pc \in {"ended", "resolve"} /\ op'.run = r
          /\ op'.next = op.next /\ op'.scope = op.scope /\ op'.thread = op.thread
      BY <2>2 DEF TurnTypeOK, Op
    <3> QED
      BY <1>2, <2>1, <3>1 DEF TurnTypeOK, MemoryInv
  <2>3. CASE op' = Reconciling("delivered", "stopped")
    <3>1. op' \in Op /\ op'.pc = "erase" /\ op'.next = "delivered"
          /\ op'.scope = op.scope /\ op'.thread = op.thread
      BY <2>3, ReconcilingTyped
    <3> QED
      BY <1>2, <2>1, <3>1 DEF TurnTypeOK, MemoryInv
  <2>4. CASE op' = [op EXCEPT !.pc = "letGo", !.next = "delivered"]
    <3>1. op' \in Op /\ op'.pc = "letGo" /\ op'.next = "delivered"
          /\ op'.scope = op.scope /\ op'.thread = op.thread
      BY <2>4 DEF TurnTypeOK, Op
    <3> QED
      BY <1>2, <2>1, <3>1 DEF TurnTypeOK, MemoryInv
  <2> QED
    BY <1>2, <2>2, <2>3, <2>4
<1>3. CASE Resume
  <2>1. op.pc = "resume" /\ UNCHANGED <<thread, delivery, run, told>>
    BY <1>3 DEF Resume
  <2>2. CASE op.thread = None
    BY <1>1, <1>3, <2>1, <2>2 DEF Resume
  <2>3. CASE op.thread # None /\ op.thread.open = None
    <3>1. op' = [op EXCEPT !.pc = "delivered"] /\ UNCHANGED reply
      BY <1>3, <2>3 DEF Resume, Goto
    <3> QED
      BY <2>1, <3>1 DEF TurnTypeOK, MemoryInv, Op
  <2>4. CASE op.thread # None /\ op.thread.open # None
    <3> DEFINE r == op.thread.open
    <3>1. r \in Run
      BY <2>4 DEF TurnTypeOK, Op, Thread
    <3>2. CASE ~Held(r)
      BY <1>2, <1>3, <2>1, <2>4, <3>1, <3>2 DEF Resume
    <3>3. CASE ResumeEnded(r)
      BY <1>1, <1>2, <2>1, <2>4, <3>1, <3>3 DEF ResumeEnded
    <3>4. CASE ResumeOpen(r)
      <4>1. CASE Forget("idle", "refused") /\ UNCHANGED reply
        BY <2>1, <4>1, ForgetTyped DEF TurnTypeOK, MemoryInv
      <4> QED
        BY <1>1, <1>2, <2>1, <2>4, <3>1, <3>4, <4>1 DEF ResumeOpen
    <3> QED
      BY <1>3, <2>4, <3>2, <3>3, <3>4 DEF Resume
  <2> QED
    BY <2>2, <2>3, <2>4
<1>4. CASE Resolve
  <2>1. op.run \in Run
    BY <1>4 DEF Resolve, MemoryInv
  <2>2. ASSUME NEW me \in RunState, NEW i
        PROVE  [me EXCEPT !.pending = @ \ {i}] \in RunState
    BY DEF RunState
  <2>3. run' \in [Run -> RunState]
    <3>1. CASE run' = run
      BY <3>1 DEF TurnTypeOK
    <3>2. ASSUME NEW i, run' = [run EXCEPT ![op.run].pending = @ \ {i}]
          PROVE  run' \in [Run -> RunState]
      <4>1. run' = [run EXCEPT ![op.run] = [run[op.run] EXCEPT !.pending = @ \ {i}]]
        BY <3>2
      <4> QED
        BY <2>1, <2>2, <4>1 DEF TurnTypeOK
    <3> QED
      BY <1>4, <3>1, <3>2 DEF Resolve
  <2> QED
    BY <1>4, <2>3 DEF Resolve, Goto, TurnTypeOK, MemoryInv, Op
<1>5. CASE Delivered
  <2>1. CASE delivery # None /\ delivery.answered = op.answered
    <3>1. delivery \in Delivery
      BY <2>1 DEF TurnTypeOK
    <3>2. op' = Idle /\ reply' = [kind |-> "turn", run |-> delivery.turn,
                                  answered |-> op.answered]
      BY <1>5, <2>1 DEF Delivered
    <3>3. reply' \in Reply
      BY <3>1, <3>2, <2>1 DEF Reply, Delivery
    <3>4. op' \in Op /\ op'.pc = "idle" /\ op'.next = "idle"
      BY <3>2, IdleTyped DEF Idle
    <3>5. MemoryInv'
      BY <3>4 DEF MemoryInv
    <3> QED
      BY <1>5, <3>3, <3>4, <3>5 DEF Delivered, TurnTypeOK
  <2> QED
    BY <1>1, <1>5, <2>1 DEF Delivered
<1> QED
  BY <1>3, <1>4, <1>5

(* Every step keeps the types. *)
LEMMA TypeStep ==
  ASSUME TypeInv, [Next]_vars
  PROVE  TypeInv'
PROOF
<1>1. CASE Fail
  BY <1>1, AnswerTyped DEF Fail, TypeInv, TurnTypeOK
<1>2. CASE Crash
  <2>1. op'.pc = "idle" /\ op'.next = "idle" /\ op' \in Op
    BY <1>2, IdleTyped DEF Crash, Idle
  <2> QED
    BY <1>2, <2>1 DEF Crash, TypeInv, TurnTypeOK, MemoryInv, Working
<1>3. CASE UNCHANGED vars
  BY <1>3 DEF vars, TypeInv, TurnTypeOK, MemoryInv
<1> QED
  BY <1>1, <1>2, <1>3, RequestTyped, DeletionTyped, StartTyped, DriveTyped,
     EndedTyped, ResumeTyped DEF Next

(* The service begins typed. *)
LEMMA TypeInit ==
  ASSUME Init
  PROVE  TypeInv
PROOF
<1>1. Unknown \in RunState
  BY DEF Unknown, RunState, Outcome
<1>2. op.pc = "idle" /\ op.next = "idle" /\ op \in Op /\ reply \in Reply
  BY IdleTyped DEF Init, Idle
<1> QED
  BY <1>1, <1>2 DEF Init, TypeInv, TurnTypeOK, MemoryInv, Working

(* The rows of both stores and what an operation holds in memory keep      *)
(* their types (threads.rs, service.rs), whatever the number of turns,     *)
(* rounds and requests.                                                    *)
THEOREM TurnTypeCorrect == Spec => []TurnTypeOK
PROOF
<1>1. Init => TypeInv
  BY TypeInit
<1>2. TypeInv /\ [Next]_vars => TypeInv'
  BY TypeStep
<1>3. TypeInv => TurnTypeOK
  BY DEF TypeInv
<1> QED
  BY <1>1, <1>2, <1>3, PTL DEF Spec

-----------------------------------------------------------------------------
(* No run is left behind *)

(* A run that is deleted is held no more, and no other run is touched. *)
LEMMA DeletedForgets ==
  ASSUME TypeInv, NEW r, run' = Deleted(r), NEW q \in Run
  PROVE  Held(q)' => Held(q) /\ q # r
PROOF BY DEF TypeInv, TurnTypeOK, Deleted, Held, RunState

(* Nothing is held when the thread names no run. *)
LEMMA NoneHeld ==
  ASSUME NoOrphanRun, thread = None \/ thread.open = None \/ ~Held(thread.open)
  PROVE  \A r \in Run : ~Held(r)
PROOF BY TurnAssumption DEF NoOrphanRun, Run

(* An operation that returns keeps what holds of the two stores. *)
LEMMA ReturnKeepsOrphan ==
  ASSUME OrphanInv, op' = Idle, UNCHANGED <<thread, run>>
  PROVE  OrphanInv'
PROOF
<1>1. op'.pc = "idle"
  BY DEF Idle
<1> QED
  BY <1>1 DEF OrphanInv, NoOrphanRun, LoadedInv, QuietInv, WorkInv, Working, Held

(* Forgetting starts with the run the thread names, or none is held. *)
LEMMA ForgetKeepsOrphan ==
  ASSUME TypeInv, OrphanInv, NEW next \in {"idle", "reference"},
         NEW out \in {"stopped", "refused", "deleted"}, Forget(next, out),
         UNCHANGED <<thread, run>>
  PROVE  OrphanInv'
PROOF
<1>1. /\ op'.pc \in {"forgetRun", "forgetThread"}
      /\ op'.pc = "forgetThread" => thread = None \/ thread.open = None
  BY ForgetTyped
<1>2. op'.pc = "forgetThread" => \A r \in Run : ~Held(r)
  BY <1>1, NoneHeld DEF OrphanInv
<1> QED
  BY <1>1, <1>2 DEF OrphanInv, NoOrphanRun, LoadedInv, QuietInv, WorkInv, Working, Held

(* Requests find what is stored. *)
LEMMA RequestKeepsOrphan ==
  ASSUME TypeInv, OrphanInv, Request
  PROVE  OrphanInv'
PROOF
<1>1. PICK pc \in {"start", "delete", "resume"}, scope \in Scope \cup {None},
           answered \in SUBSET told : Admit(pc, scope, answered)
  BY DEF Request
<1>2. /\ op'.pc = pc /\ op'.thread = thread
      /\ UNCHANGED <<thread, run>>
  BY <1>1 DEF Admit, Idle
<1> QED
  BY <1>2 DEF OrphanInv, NoOrphanRun, LoadedInv, QuietInv, WorkInv, Working, Held

(* Reconciling and deleting take the run out of the ledger before the      *)
(* thread lets go of it.                                                   *)
LEMMA DeletionKeepsOrphan ==
  ASSUME TypeInv, OrphanInv,
         Erase \/ LetGo \/ Delete \/ ForgetRun \/ ForgetThread \/ ForgetDelivery
  PROVE  OrphanInv'
PROOF
<1> USE DEF Working
<1>0. op \in Op /\ run \in [Run -> RunState]
  BY DEF TypeInv, TurnTypeOK
<1>1. CASE Erase
  <2>1. op.thread = thread /\ thread' = thread /\ op'.pc = "letGo"
    BY <1>0, <1>1 DEF Erase, Goto, OrphanInv, LoadedInv, Op
  <2>2. \A r \in Run : Held(r)' => Held(r) /\ r # thread.open
    BY <1>1, <2>1, DeletedForgets DEF Erase
  <2>3. \A r \in Run : ~Held(r)'
    BY <2>2 DEF OrphanInv, NoOrphanRun
  <2> QED
    BY <2>1, <2>3 DEF OrphanInv, NoOrphanRun, LoadedInv, QuietInv, WorkInv
<1>2. CASE LetGo
  <2>1. \A r \in Run : ~Held(r)'
    BY <1>2 DEF LetGo, OrphanInv, QuietInv, Held
  <2>2. op'.pc \in {"idle", "reference", "delivered"}
    <3>1. CASE op.next = "idle"
      BY <1>2, <3>1 DEF LetGo, Answer, Idle
    <3>2. CASE op.next # "idle"
      <4>1. op'.pc = op.next
        BY <1>0, <1>2, <3>2 DEF LetGo, Op
      <4> QED
        BY <1>0, <4>1 DEF Op
    <3> QED
      BY <3>1, <3>2
  <2> QED
    BY <2>1, <2>2 DEF OrphanInv, NoOrphanRun, LoadedInv, QuietInv, WorkInv
<1>3. CASE Delete
  BY <1>3, ForgetKeepsOrphan DEF Delete
<1>4. CASE ForgetRun
  <2>1. thread' = thread /\ op'.pc = "forgetThread"
    BY <1>0, <1>4 DEF ForgetRun, Goto, Op
  <2>2. \A r \in Run : Held(r)' => Held(r) /\ r # thread.open
    BY <1>4, DeletedForgets DEF ForgetRun
  <2>3. \A r \in Run : ~Held(r)'
    BY <2>2 DEF OrphanInv, NoOrphanRun
  <2> QED
    BY <2>1, <2>3 DEF OrphanInv, NoOrphanRun, LoadedInv, QuietInv, WorkInv
<1>5. CASE ForgetThread
  <2>1. \A r \in Run : ~Held(r)'
    BY <1>5 DEF ForgetThread, OrphanInv, QuietInv, Held
  <2>2. op'.pc = "forgetDelivery"
    BY <1>0, <1>5 DEF ForgetThread, Goto, Op
  <2> QED
    BY <2>1, <2>2 DEF OrphanInv, NoOrphanRun, LoadedInv, QuietInv, WorkInv
<1>6. CASE ForgetDelivery
  <2>1. \A r \in Run : ~Held(r)'
    BY <1>6 DEF ForgetDelivery, OrphanInv, QuietInv, Held
  <2>2. op'.pc \in {"idle", "reference", "delivered"}
    <3>1. CASE op.next = "idle"
      BY <1>6, <3>1 DEF ForgetDelivery, Answer, Idle
    <3>2. CASE op.next # "idle"
      <4>1. op'.pc = op.next
        BY <1>0, <1>6, <3>2 DEF ForgetDelivery, Op
      <4> QED
        BY <1>0, <4>1 DEF Op
    <3> QED
      BY <3>1, <3>2
  <2> QED
    BY <2>1, <2>2 DEF OrphanInv, NoOrphanRun, LoadedInv, QuietInv, WorkInv
<1> QED
  BY <1>1, <1>2, <1>3, <1>4, <1>5, <1>6

(* A turn names its run before it submits it. *)
LEMMA StartKeepsOrphan ==
  ASSUME TypeInv, OrphanInv, Start \/ Reference \/ Submit
  PROVE  OrphanInv'
PROOF
<1> USE DEF Working
<1>0. op \in Op /\ run \in [Run -> RunState]
  BY DEF TypeInv, TurnTypeOK
<1>1. CASE Start
  <2>1. op.thread = thread /\ UNCHANGED <<thread, run>>
    BY <1>1 DEF Start, OrphanInv, LoadedInv
  <2>2. CASE Forget("reference", "stopped")
    BY <2>1, <2>2, ForgetKeepsOrphan
  <2>3. CASE op'.pc = "reference" /\ (thread = None \/ thread.open = None)
    BY <2>1, <2>3, NoneHeld
       DEF OrphanInv, NoOrphanRun, LoadedInv, QuietInv, WorkInv, Held
  <2>4. CASE op'.pc = "erase" /\ op'.thread = op.thread
    BY <2>1, <2>4 DEF OrphanInv, NoOrphanRun, LoadedInv, QuietInv, WorkInv, Held
  <2> QED
    BY <1>0, <1>1, <2>1, <2>2, <2>3, <2>4 DEF Start, Goto, Reconciling, Op
<1>2. CASE Reference
  <2>1. \A r \in Run : ~Held(r)
    BY <1>2 DEF Reference, OrphanInv, QuietInv
  <2>2. CASE Answer("refused") /\ thread' = thread
    BY <1>2, <2>2, ReturnKeepsOrphan DEF Reference, Answer
  <2>3. ASSUME NEW r \in Run, NEW kept, run[r].state = "unknown",
               thread' = Naming(op.thread, r, kept),
               op' = [op EXCEPT !.pc = "submit", !.run = r,
                                !.thread = Naming(@, r, kept), !.kept = kept]
        PROVE  OrphanInv'
    <3>1. op.thread \in Thread /\ run' = run
      BY <1>2 DEF Reference, TypeInv, MemoryInv
    <3>2. thread'.open = r
      BY <2>3, <3>1 DEF Naming, Thread
    <3>3. op'.pc = "submit" /\ op'.run = r /\ op'.thread = thread'
      BY <1>0, <2>3 DEF Op
    <3>4. \A q \in Run : ~Held(q)'
      BY <2>1, <3>1 DEF Held
    <3>5. run'[op'.run].state = "unknown"
      BY <2>3, <3>1, <3>3
    <3> QED
      BY <3>2, <3>3, <3>4, <3>5 DEF OrphanInv, NoOrphanRun, LoadedInv, QuietInv, WorkInv
  <2> QED
    BY <1>2, <2>2, <2>3 DEF Reference
<1>3. CASE Submit
  <2>1. op.run \in Run /\ thread \in Thread /\ thread.open = op.run /\ op.thread = thread
    BY <1>3 DEF Submit, TypeInv, MemoryInv, OrphanInv, WorkInv, LoadedInv
  <2>2. op'.pc = "drive" /\ op'.run = op.run /\ op'.thread = op.thread /\ thread' = thread
    BY <1>0, <1>3 DEF Submit, Goto, Op
  <2>3. \A r \in Run : run'[r].state = IF r = op.run THEN "open" ELSE run[r].state
    BY <1>0, <1>3, <2>1 DEF Submit, RunState
  <2>4. thread' # None
    BY <2>1, <2>2, NullAssumption
  <2>5. NoOrphanRun'
    BY <2>1, <2>2, <2>3, <2>4 DEF OrphanInv, NoOrphanRun, Held
  <2>6. Held(op.run)'
    BY <2>1, <2>2, <2>3 DEF Held
  <2> QED
    BY <2>1, <2>2, <2>5, <2>6 DEF OrphanInv, LoadedInv, QuietInv, WorkInv, Held
<1> QED
  BY <1>1, <1>2, <1>3

(* A step that works on the run of the operation keeps it held. *)
LEMMA WorkKeepsOrphan ==
  ASSUME TypeInv, OrphanInv, op.pc \in Working \ {"submit"},
         op'.pc \in Working \ {"submit"}, op'.run = op.run, op'.thread = op.thread,
         thread' = thread,
         \A r \in Run : Held(r)' => Held(r),
         Held(op.run)'
  PROVE  OrphanInv'
PROOF
<1>1. NoOrphanRun'
  BY DEF OrphanInv, NoOrphanRun
<1>2. LoadedInv'
  BY DEF OrphanInv, LoadedInv, Working
<1>3. WorkInv'
  BY DEF OrphanInv, WorkInv, Held
<1> QED
  BY <1>1, <1>2, <1>3 DEF OrphanInv, QuietInv, Working

(* Driving a run changes no other, and keeps it held. *)
LEMMA DriveKeepsOrphan ==
  ASSUME TypeInv, OrphanInv, Ask \/ Wait \/ End \/ Cancel \/ Suspended
  PROVE  OrphanInv'
PROOF
<1> USE DEF Working
<1>0. op \in Op /\ run \in [Run -> RunState]
  BY DEF TypeInv, TurnTypeOK
<1>1. op.run \in Run /\ run[op.run] \in RunState /\ Held(op.run) /\ thread' = thread
  BY <1>0 DEF Ask, Wait, End, Cancel, Suspended, TypeInv, MemoryInv, OrphanInv, WorkInv
<1>2. ASSUME NEW me \in RunState, me.state \in {"open", "ended"},
             run' = [run EXCEPT ![op.run] = me]
      PROVE  \A r \in Run : (Held(r)' => Held(r)) /\ (r = op.run => Held(r)')
  BY <1>0, <1>1, <1>2 DEF Held
<1>3. CASE Ask
  <2>1. PICK new \in NewRounds(op.run) :
          run' = [run EXCEPT ![op.run] = WithRound(run[op.run], new)]
    BY <1>3 DEF Ask
  <2>2. /\ WithRound(run[op.run], new) \in RunState
        /\ WithRound(run[op.run], new).state = run[op.run].state
    BY <1>1, NewRoundsTyped, WithRoundTyped
  <2>3. \A r \in Run : (Held(r)' => Held(r)) /\ (r = op.run => Held(r)')
    BY <1>1, <1>2, <2>1, <2>2 DEF Held
  <2>4. op'.pc = "suspended" /\ op'.run = op.run /\ op'.thread = op.thread
    BY <1>0, <1>3 DEF Ask, Goto, Op
  <2>5. Held(op.run)'
    BY <1>1, <2>3, <2>4 DEF Held
  <2> QED
    BY <1>1, <1>3, <2>3, <2>4, <2>5, WorkKeepsOrphan DEF Ask
<1>4. CASE Wait
  <2>1. op'.pc = "suspended" /\ op'.run = op.run /\ op'.thread = op.thread /\ run' = run
    BY <1>0, <1>4 DEF Wait, Goto, Op
  <2> QED
    BY <1>1, <1>4, <2>1, WorkKeepsOrphan DEF Wait, Held
<1>5. CASE End
  <2>1. PICK out \in Outcome, new \in {{}} \cup NewRounds(op.run) :
          run' = [run EXCEPT ![op.run] =
                    [WithRound(run[op.run], new) EXCEPT !.state = "ended",
                       !.outcome = out, !.finisher = op.answered]]
    BY <1>5 DEF End
  <2> DEFINE me == [WithRound(run[op.run], new) EXCEPT !.state = "ended",
                      !.outcome = out, !.finisher = op.answered]
  <2>2. WithRound(run[op.run], new) \in RunState
    BY <1>1, NewRoundsTyped, WithRoundTyped
  <2>3. me \in RunState /\ me.state = "ended"
    BY <1>0, <2>2 DEF RunState, Op
  <2>4. \A r \in Run : (Held(r)' => Held(r)) /\ (r = op.run => Held(r)')
    BY <1>2, <2>1, <2>3
  <2>5. op'.pc = "ended" /\ op'.run = op.run /\ op'.thread = op.thread
    BY <1>0, <1>5 DEF End, Goto, Op
  <2>6. Held(op.run)'
    BY <1>1, <2>4, <2>5 DEF Held
  <2> QED
    BY <1>1, <1>5, <2>4, <2>5, <2>6, WorkKeepsOrphan DEF End
<1>6. CASE Cancel
  <2> DEFINE me == [run[op.run] EXCEPT !.cancel = TRUE]
  <2>1. me \in RunState /\ me.state = run[op.run].state
    BY <1>1 DEF RunState
  <2>2. run' = [run EXCEPT ![op.run] = me] /\ op' = op
    BY <1>6 DEF Cancel
  <2>3. \A r \in Run : (Held(r)' => Held(r)) /\ (r = op.run => Held(r)')
    BY <1>1, <1>2, <2>1, <2>2 DEF Held
  <2>4. Held(op.run)'
    BY <1>1, <2>2, <2>3 DEF Held
  <2> QED
    BY <1>1, <1>6, <2>2, <2>3, <2>4, WorkKeepsOrphan DEF Cancel
<1>7. CASE Suspended
  BY <1>7, ReturnKeepsOrphan DEF Suspended, Answer
<1> QED
  BY <1>3, <1>4, <1>5, <1>6, <1>7

(* A run that ended is let go only after its thread was committed. *)
LEMMA EndedKeepsOrphan ==
  ASSUME TypeInv, OrphanInv, Commit \/ Stop
  PROVE  OrphanInv'
PROOF
<1>1. /\ op.pc = "ended" /\ op.thread = thread /\ run' = run
      /\ op.thread \in Thread /\ op \in Op
  BY DEF Commit, Stop, OrphanInv, LoadedInv, TypeInv, MemoryInv, TurnTypeOK, Working
<1>2. op'.pc = "erase" /\ op'.thread = thread'
  BY <1>1 DEF Commit, Stop, Reconciling, Op
<1>3. thread' \in Thread /\ thread'.open = thread.open
  <2>1. thread' \in Thread
    BY <1>2, EndedTyped DEF TypeInv, MemoryInv
  <2>2. thread'.open = thread.open
    BY <1>1 DEF Commit, Stop, Thread
  <2> QED
    BY <2>1, <2>2
<1>4. NoOrphanRun'
  BY <1>1, <1>3, NullAssumption DEF OrphanInv, NoOrphanRun, Held
<1> QED
  BY <1>2, <1>4 DEF OrphanInv, LoadedInv, QuietInv, WorkInv, Working

(* A resume works on the run its thread names, when the ledger holds it. *)
LEMMA ResumeKeepsOrphan ==
  ASSUME TypeInv, OrphanInv, Resume \/ Resolve \/ Delivered
  PROVE  OrphanInv'
PROOF
<1> USE DEF Working
<1>0. op \in Op /\ run \in [Run -> RunState]
  BY DEF TypeInv, TurnTypeOK
<1>1. CASE Resume
  <2>1. op.thread = thread /\ UNCHANGED <<thread, run>>
    BY <1>1 DEF Resume, OrphanInv, LoadedInv
  <2>2. CASE Answer("refused")
    BY <2>1, <2>2, ReturnKeepsOrphan DEF Answer
  <2>3. CASE Forget("idle", "refused")
    BY <2>1, <2>3, ForgetKeepsOrphan
  <2>4. CASE op'.pc = "delivered"
    BY <2>1, <2>4 DEF OrphanInv, NoOrphanRun, LoadedInv, QuietInv, WorkInv, Held
  <2>5. CASE op'.pc = "erase" /\ op'.thread = op.thread
    BY <2>1, <2>5 DEF OrphanInv, NoOrphanRun, LoadedInv, QuietInv, WorkInv, Held
  <2>6. CASE op'.pc = "letGo" /\ ~Held(thread.open)
    BY <2>1, <2>6, NoneHeld
       DEF OrphanInv, NoOrphanRun, LoadedInv, QuietInv, WorkInv, Held
  <2>7. CASE /\ op'.pc \in {"ended", "resolve"}
             /\ op'.run = thread.open /\ Held(thread.open) /\ op'.thread = op.thread
    BY <2>1, <2>7 DEF OrphanInv, NoOrphanRun, LoadedInv, QuietInv, WorkInv, Held
  <2>8. CASE op.thread = None
    BY <1>1, <2>2, <2>8 DEF Resume
  <2>9. CASE op.thread # None /\ op.thread.open = None
    BY <1>0, <1>1, <2>4, <2>9 DEF Resume, Goto, Op
  <2>10. CASE op.thread # None /\ op.thread.open # None /\ ~Held(op.thread.open)
    BY <1>0, <1>1, <2>1, <2>6, <2>10 DEF Resume, Op
  <2>11. CASE op.thread # None /\ ResumeEnded(op.thread.open)
    BY <1>0, <2>1, <2>2, <2>5, <2>7, <2>11 DEF ResumeEnded, Reconciling, Op, Held
  <2>12. CASE op.thread # None /\ ResumeOpen(op.thread.open)
    BY <1>0, <2>1, <2>2, <2>3, <2>5, <2>7, <2>12 DEF ResumeOpen, Reconciling, Op, Held
  <2> QED
    BY <1>1, <2>8, <2>9, <2>10, <2>11, <2>12 DEF Resume
<1>2. CASE Resolve
  <2>1. op.run \in Run /\ Held(op.run) /\ thread' = thread
    BY <1>2 DEF Resolve, TypeInv, MemoryInv, OrphanInv, WorkInv
  <2>2. \A r \in Run : run'[r].state = run[r].state
    <3>1. CASE run' = run
      BY <3>1
    <3>2. ASSUME NEW i, run' = [run EXCEPT ![op.run].pending = @ \ {i}], NEW r \in Run
          PROVE  run'[r].state = run[r].state
      BY <1>0, <2>1, <3>2 DEF RunState
    <3> QED
      BY <1>2, <3>1, <3>2 DEF Resolve
  <2>3. op'.pc \in {"resolve", "drive"} /\ op'.run = op.run /\ op'.thread = op.thread
    BY <1>0, <1>2 DEF Resolve, Goto, Op
  <2>4. Held(op.run)' /\ \A r \in Run : Held(r)' => Held(r)
    BY <2>1, <2>2, <2>3 DEF Held
  <2> QED
    BY <1>2, <2>1, <2>3, <2>4, WorkKeepsOrphan DEF Resolve
<1>3. CASE Delivered
  BY <1>3, ReturnKeepsOrphan DEF Delivered, Answer
<1> QED
  BY <1>1, <1>2, <1>3

(* Every step keeps every held run named by its thread. *)
LEMMA OrphanStep ==
  ASSUME TypeInv, OrphanInv, [Next]_vars
  PROVE  OrphanInv'
PROOF
<1>1. CASE Fail \/ Crash
  BY <1>1, ReturnKeepsOrphan DEF Fail, Crash, Answer
<1>2. CASE UNCHANGED vars
  BY <1>2 DEF vars, OrphanInv, NoOrphanRun, LoadedInv, QuietInv, WorkInv, Held
<1> QED
  BY <1>1, <1>2, RequestKeepsOrphan, DeletionKeepsOrphan, StartKeepsOrphan,
     DriveKeepsOrphan, EndedKeepsOrphan, ResumeKeepsOrphan DEF Next

(* Nothing is held before the first turn. *)
LEMMA OrphanInit ==
  ASSUME Init
  PROVE  OrphanInv
PROOF
<1>1. op.pc = "idle" /\ \A r \in Run : run[r].state = "unknown"
  BY DEF Init, Idle, Unknown
<1> QED
  BY <1>1 DEF OrphanInv, NoOrphanRun, LoadedInv, QuietInv, WorkInv, Working, Held

(* At every crash point the ledger holds no run but the one its thread     *)
(* names, so a later request always finds it: a thread names its run       *)
(* before it is submitted, and lets go of it after it is deleted           *)
(* (service.rs start, reconcile, delete_thread_locked).                    *)
THEOREM NoRunOrphaned == Spec => []NoOrphanRun
PROOF
<1>1. Init => TypeInv /\ OrphanInv
  BY TypeInit, OrphanInit
<1>2. TypeInv /\ OrphanInv /\ [Next]_vars => (TypeInv /\ OrphanInv)'
  BY TypeStep, OrphanStep
<1>3. OrphanInv => NoOrphanRun
  BY DEF OrphanInv
<1> QED
  BY <1>1, <1>2, <1>3, PTL DEF Spec

-----------------------------------------------------------------------------
(* One contract *)

(* A run that was submitted keeps its contract, and while it is held also  *)
(* the exchanges it started from; no other run comes to be held, and one   *)
(* that ended does not go on.                                              *)
Lasts(r) ==
  /\ run[r].state # "unknown" =>
       run'[r].state # "unknown" /\ run'[r].scope = run[r].scope
  /\ run[r].state = "unknown" => run'[r].state = "unknown"
  /\ run[r].state \in {"ended", "deleted"} => run'[r].state \in {"ended", "deleted"}
  /\ Held(r)' =>
       Held(r) /\ run'[r].scope = run[r].scope /\ run'[r].base = run[r].base

(* A history stays under its contract while the runs last. *)
LEMMA UnderLasts ==
  ASSUME NEW runs, NEW later, NEW scope, NEW h \in Seq(Run), Under(runs, scope, h),
         \A r \in Run : runs[r].state # "unknown" =>
           later[r].state # "unknown" /\ later[r].scope = runs[r].scope
  PROVE  Under(later, scope, h)
PROOF BY DEF Under

(* Dropping the oldest exchanges keeps a history under its contract. *)
LEMMA UnderSuffix ==
  ASSUME NEW runs, NEW scope, NEW h \in Seq(Run), Under(runs, scope, h),
         NEW n \in 1..(Len(h) + 1)
  PROVE  Under(runs, scope, SubSeq(h, n, Len(h)))
PROOF BY DEF Under

(* So does adding an exchange of the same contract. *)
LEMMA UnderAppend ==
  ASSUME NEW runs, NEW scope, NEW h \in Seq(Run), Under(runs, scope, h),
         NEW r \in Run, runs[r].state # "unknown", runs[r].scope = scope
  PROVE  Under(runs, scope, Append(h, r))
PROOF BY DEF Under

(* Only submitting a run makes one, or gives one a contract. *)
LEMMA RunsLast ==
  ASSUME TypeInv, OrphanInv, [Next]_vars, op.pc # "submit" \/ run' = run, NEW r \in Run
  PROVE  Lasts(r)
PROOF
<1> USE DEF Lasts, Held
<1>0. run \in [Run -> RunState] /\ op \in Op
  BY DEF TypeInv, TurnTypeOK
<1>1. CASE run' = run
  BY <1>1
<1>2. ASSUME NEW q, run' = Deleted(q)
      PROVE  Lasts(r)
  BY <1>0, <1>2 DEF Deleted, RunState
<1>3. ASSUME NEW me \in RunState, op.run \in Run, Held(op.run),
             me.state \in {run[op.run].state, "ended"},
             me.scope = run[op.run].scope, me.base = run[op.run].base,
             run' = [run EXCEPT ![op.run] = me]
      PROVE  Lasts(r)
  BY <1>0, <1>3
<1>4. CASE Ask \/ End \/ Cancel \/ Resolve
  <2>1. op.run \in Run /\ Held(op.run) /\ run[op.run] \in RunState
    BY <1>0, <1>4
       DEF Ask, End, Cancel, Resolve, Working, TypeInv, MemoryInv, OrphanInv, WorkInv
  <2> USE DEF Working
  <2>2. CASE Ask
    <3>1. PICK new \in NewRounds(op.run) :
            run' = [run EXCEPT ![op.run] = WithRound(run[op.run], new)]
      BY <2>2 DEF Ask
    <3> DEFINE me == WithRound(run[op.run], new)
    <3>2. /\ me \in RunState /\ me.state = run[op.run].state
          /\ me.scope = run[op.run].scope /\ me.base = run[op.run].base
      BY <2>1, NewRoundsTyped, WithRoundTyped
    <3> HIDE DEF me
    <3>3. run' = [run EXCEPT ![op.run] = me]
      BY <3>1 DEF me
    <3> QED
      BY <1>3, <2>1, <3>2, <3>3
  <2>3. CASE End
    <3>1. PICK out \in Outcome, new \in {{}} \cup NewRounds(op.run) :
            run' = [run EXCEPT ![op.run] =
                      [WithRound(run[op.run], new) EXCEPT !.state = "ended",
                         !.outcome = out, !.finisher = op.answered]]
      BY <2>3 DEF End
    <3> DEFINE asked == WithRound(run[op.run], new)
               me == [asked EXCEPT !.state = "ended", !.outcome = out,
                                   !.finisher = op.answered]
    <3>2. /\ asked \in RunState
          /\ asked.scope = run[op.run].scope /\ asked.base = run[op.run].base
      BY <2>1, NewRoundsTyped, WithRoundTyped
    <3>3. run' = [run EXCEPT ![op.run] = me]
      BY <3>1
    <3> HIDE DEF asked
    <3>4. /\ me \in RunState /\ me.state = "ended"
          /\ me.scope = run[op.run].scope /\ me.base = run[op.run].base
      BY <1>0, <3>2 DEF RunState, Op
    <3> HIDE DEF me
    <3> QED
      BY <1>3, <2>1, <3>3, <3>4
  <2>4. CASE Cancel
    <3> DEFINE me == [run[op.run] EXCEPT !.cancel = TRUE]
    <3>1. /\ me \in RunState /\ me.state = run[op.run].state
          /\ me.scope = run[op.run].scope /\ me.base = run[op.run].base
      BY <2>1 DEF RunState
    <3>2. run' = [run EXCEPT ![op.run] = me]
      BY <2>4 DEF Cancel
    <3> HIDE DEF me
    <3> QED
      BY <1>3, <2>1, <3>1, <3>2
  <2>5. CASE Resolve
    <3>1. ASSUME NEW i, run' = [run EXCEPT ![op.run].pending = @ \ {i}]
          PROVE  Lasts(r)
      <4> DEFINE me == [run[op.run] EXCEPT !.pending = @ \ {i}]
      <4>1. /\ me \in RunState /\ me.state = run[op.run].state
            /\ me.scope = run[op.run].scope /\ me.base = run[op.run].base
        BY <2>1 DEF RunState
      <4>2. run' = [run EXCEPT ![op.run] = me]
        BY <3>1
      <4> HIDE DEF me
      <4> QED
        BY <1>3, <2>1, <4>1, <4>2
    <3> QED
      BY <1>1, <2>5, <3>1 DEF Resolve
  <2> QED
    BY <1>4, <2>2, <2>3, <2>4, <2>5
<1>5. CASE Erase \/ ForgetRun
  BY <1>2, <1>5 DEF Erase, ForgetRun
<1>6. CASE ~(Ask \/ End \/ Cancel \/ Resolve \/ Erase \/ ForgetRun)
  <2>1. run' = run
    BY <1>6 DEF Next, Submit, vars, Request, Admit, Start, Reference, Resume, Delivered, Wait,
                Suspended, Commit, Stop, LetGo, Delete, ForgetThread, ForgetDelivery,
                Fail, Crash
  <2> QED
    BY <1>1, <2>1
<1> QED
  BY <1>4, <1>5, <1>6

(* While the runs last, what a held run started from stays under its contract. *)
LEMMA BasesKeep ==
  ASSUME TypeInv, StoredInv, \A r \in Run : Lasts(r)
  PROVE  \A r \in Run : Held(r)' => Under(run', run'[r].scope, run'[r].base)
PROOF
<1>1. SUFFICES ASSUME NEW r \in Run, Held(r)'
               PROVE  Under(run', run'[r].scope, run'[r].base)
  OBVIOUS
<1>2. Held(r) /\ run'[r].scope = run[r].scope /\ run'[r].base = run[r].base
  BY <1>1 DEF Lasts
<1>3. Under(run, run[r].scope, run[r].base) /\ run[r].base \in Seq(Run)
  BY <1>2 DEF StoredInv, TypeInv, TurnTypeOK, RunState
<1>4. \A q \in Run : run[q].state # "unknown" =>
        run'[q].state # "unknown" /\ run'[q].scope = run[q].scope
  BY DEF Lasts
<1> QED
  BY <1>2, <1>3, <1>4, UnderLasts

(* While the runs last, what is stored changes only with the thread. *)
LEMMA StoredKeeps ==
  ASSUME TypeInv, StoredInv, \A r \in Run : Lasts(r), thread' = thread
  PROVE  StoredInv'
PROOF
<1>1. thread \in Thread \cup {None}
  BY DEF TypeInv, TurnTypeOK
<1>2. \A r \in Run : run[r].state # "unknown" =>
        run'[r].state # "unknown" /\ run'[r].scope = run[r].scope
  BY DEF Lasts
<1>3. thread # None => Under(run', thread.scope, thread.history)
  BY <1>1, <1>2, UnderLasts DEF StoredInv, Thread
<1>4. thread # None /\ thread.open # None /\ Held(thread.open)' =>
        run'[thread.open].scope = thread.scope
  BY <1>1 DEF StoredInv, Lasts, Thread, Held
<1> QED
  BY <1>3, <1>4, BasesKeep DEF StoredInv, Held

(* An operation that is about to store nothing means nothing. *)
LEMMA NothingMeant ==
  ASSUME op'.pc \notin {"reference", "submit", "erase", "letGo"}
  PROVE  MeantInv'
PROOF BY DEF MeantInv

(* Most steps of an operation leave the thread as it is, and mean nothing. *)
LEMMA PlainKeepsContract ==
  ASSUME TypeInv, OrphanInv, StoredInv, [Next]_vars,
         \/ Request \/ Delete \/ ForgetRun \/ Ask \/ Wait \/ End \/ Cancel
         \/ Suspended \/ Resolve \/ Delivered \/ Fail \/ Crash
  PROVE  StoredInv' /\ MeantInv'
PROOF
<1>0. op \in Op
  BY DEF TypeInv, TurnTypeOK
<1>1. thread' = thread /\ (op.pc # "submit" \/ run' = run)
  <2>1. CASE Request
    BY <2>1 DEF Request, Admit
  <2>2. CASE Delete \/ ForgetRun \/ Ask \/ Wait \/ End \/ Cancel
    BY <2>2 DEF Delete, ForgetRun, Ask, Wait, End, Cancel
  <2>3. CASE Suspended \/ Resolve \/ Delivered \/ Fail \/ Crash
    BY <2>3 DEF Suspended, Resolve, Delivered, Fail, Crash
  <2> QED
    BY <2>1, <2>2, <2>3
<1>2. op'.pc \notin {"reference", "submit", "erase", "letGo"}
  <2>1. CASE Request
    BY <2>1 DEF Request, Admit, Idle
  <2>2. CASE Delete
    BY <2>2, ForgetTyped DEF Delete
  <2>3. CASE ForgetRun \/ Ask \/ Wait \/ End
    BY <1>0, <2>3 DEF ForgetRun, Ask, Wait, End, Goto, Op
  <2>4. CASE Cancel \/ Resolve
    BY <1>0, <2>4 DEF Cancel, Resolve, Goto, Op
  <2>5. CASE Suspended \/ Delivered \/ Fail \/ Crash
    BY <2>5 DEF Suspended, Delivered, Fail, Crash, Answer, Idle
  <2> QED
    BY <2>1, <2>2, <2>3, <2>4, <2>5
<1> QED
  BY <1>1, <1>2, RunsLast, StoredKeeps, NothingMeant

(* Reconciling and forgetting keep the history of one contract, or none.   *)
LEMMA DeletionKeepsContract ==
  ASSUME TypeInv, OrphanInv, StoredInv, MeantInv, [Next]_vars,
         Erase \/ LetGo \/ ForgetThread \/ ForgetDelivery
  PROVE  StoredInv' /\ MeantInv'
PROOF
<1>0. op \in Op /\ op.pc # "submit"
  BY DEF TypeInv, TurnTypeOK, Erase, LetGo, ForgetThread, ForgetDelivery
<1>1. \A r \in Run : Lasts(r)
  BY <1>0, RunsLast
<1>2. CASE Erase
  <2>1. op.thread = thread /\ thread' = thread /\ thread # None
    BY <1>2, NullAssumption DEF Erase, OrphanInv, LoadedInv, TypeInv, MemoryInv
  <2>2. StoredInv'
    BY <1>1, <2>1, StoredKeeps
  <2>3. /\ op'.pc = "letGo" /\ op'.next = op.next /\ op'.scope = op.scope
        /\ op'.thread = op.thread
    BY <1>0, <1>2 DEF Erase, Goto, Op
  <2>4. MeantInv'
    BY <1>2, <2>1, <2>2, <2>3 DEF Erase, StoredInv, MeantInv
  <2> QED
    BY <2>2, <2>4
<1>3. CASE LetGo
  <2>1. /\ run' = run /\ thread' = [op.thread EXCEPT !.open = None]
        /\ op.pc = "letGo" /\ op.thread \in Thread
    BY <1>3 DEF LetGo, TypeInv, MemoryInv
  <2>2. /\ thread'.open = None /\ thread'.scope = op.thread.scope
        /\ thread'.history = op.thread.history
    BY <2>1 DEF Thread
  <2>3. StoredInv'
    BY <1>1, <2>1, <2>2, BasesKeep DEF StoredInv, MeantInv
  <2>4. CASE op.next = "idle"
    BY <1>3, <2>3, <2>4, NothingMeant DEF LetGo, Answer, Idle
  <2>5. CASE op.next = "delivered"
    <3>1. op'.pc = "delivered"
      BY <1>0, <1>3, <2>5 DEF LetGo, Op
    <3> QED
      BY <3>1, <2>3, NothingMeant
  <2>6. CASE op.next = "reference"
    <3>1. op' = [op EXCEPT !.pc = op.next, !.thread.open = None]
      BY <1>3, <2>6 DEF LetGo
    <3>2. op'.pc = "reference" /\ op'.scope = op.scope /\ op'.thread = thread'
      BY <1>0, <2>1, <2>6, <3>1 DEF Op
    <3>3. op.thread.scope = op.scope
      BY <2>1, <2>6 DEF MeantInv
    <3> QED
      BY <2>1, <2>2, <2>3, <3>2, <3>3 DEF MeantInv
  <2> QED
    BY <1>0, <2>3, <2>4, <2>5, <2>6 DEF Op
<1>4. CASE ForgetThread
  <2>1. thread' = None /\ op'.pc = "forgetDelivery"
    BY <1>0, <1>4 DEF ForgetThread, Goto, Op
  <2> QED
    BY <1>1, <2>1, BasesKeep, NothingMeant DEF StoredInv
<1>5. CASE ForgetDelivery
  <2>1. thread' = thread
    BY <1>5 DEF ForgetDelivery
  <2>2. StoredInv'
    BY <1>1, <2>1, StoredKeeps
  <2>3. CASE op.next = "idle"
    BY <1>5, <2>2, <2>3, NothingMeant DEF ForgetDelivery, Answer, Idle
  <2>4. CASE op.next # "idle"
    <3>1. op'.pc = "reference" /\ op'.scope = op.scope
          /\ op'.thread = FreshThread(op.scope)
      BY <1>0, <1>5, <2>4 DEF ForgetDelivery, TypeInv, MemoryInv, Op
    <3>2. op'.thread.scope = op.scope /\ op'.thread.history = <<>>
      BY <3>1 DEF FreshThread
    <3>3. Under(run', op.scope, <<>>)
      BY DEF Under
    <3> QED
      BY <2>2, <3>1, <3>2, <3>3 DEF MeantInv
  <2> QED
    BY <2>3, <2>4
<1> QED
  BY <1>2, <1>3, <1>4, <1>5

(* A turn starts from exchanges of its own contract only. *)
LEMMA StartKeepsContract ==
  ASSUME TypeInv, OrphanInv, StoredInv, MeantInv, [Next]_vars, Start \/ Reference
  PROVE  StoredInv' /\ MeantInv'
PROOF
<1>0. op \in Op /\ op.pc # "submit"
  BY DEF TypeInv, TurnTypeOK, Start, Reference
<1>1. \A r \in Run : Lasts(r)
  BY <1>0, RunsLast
<1>2. CASE Start
  <2>1. op.thread = thread /\ UNCHANGED <<thread, run>>
    BY <1>2 DEF Start, OrphanInv, LoadedInv
  <2>2. StoredInv'
    BY <1>1, <2>1, StoredKeeps
  <2>3. CASE op.thread = None
    <3>1. op' = [op EXCEPT !.pc = "reference", !.thread = FreshThread(op.scope)]
          /\ op.pc = "start"
      BY <1>2, <2>3 DEF Start
    <3>2. op'.pc = "reference" /\ op'.scope = op.scope
          /\ op'.thread.scope = op.scope /\ op'.thread.history = <<>>
      BY <1>0, <3>1 DEF Op, FreshThread
    <3>3. Under(run', op.scope, <<>>)
      BY DEF Under
    <3> QED
      BY <2>2, <3>2, <3>3 DEF MeantInv
  <2>4. CASE op.thread # None /\ Abandons(op.thread, op.scope)
    BY <1>2, <2>2, <2>4, ForgetTyped, NothingMeant DEF Start
  <2>5. CASE op.thread # None /\ ~Abandons(op.thread, op.scope)
    <3>1. op.thread.scope = op.scope
      BY <2>5 DEF Abandons
    <3>2. op'.pc \in {"reference", "erase"} /\ op'.scope = op.scope
          /\ op'.thread = op.thread
      BY <1>0, <1>2, <2>5 DEF Start, Goto, Reconciling, Op
    <3>3. Under(run', thread.scope, thread.history)
      BY <2>1, <2>5 DEF StoredInv
    <3> QED
      BY <2>1, <2>2, <3>1, <3>2, <3>3 DEF MeantInv
  <2> QED
    BY <2>3, <2>4, <2>5
<1>3. CASE Reference
  <2>1. /\ run' = run /\ op.pc = "reference" /\ op.thread \in Thread
        /\ op.thread.scope = op.scope
        /\ Under(run, op.thread.scope, op.thread.history)
    BY <1>3 DEF Reference, TypeInv, MemoryInv, MeantInv
  <2>2. CASE Answer("refused") /\ thread' = thread
    BY <1>1, <2>2, StoredKeeps, NothingMeant DEF Answer, Idle
  <2>3. ASSUME NEW r \in Run, NEW n \in 1..(Len(op.thread.history) + 1),
               NEW kept, kept = SubSeq(op.thread.history, n, Len(op.thread.history)),
               run[r].state = "unknown",
               thread' = Naming(op.thread, r, kept),
               op' = [op EXCEPT !.pc = "submit", !.run = r,
                                !.thread = Naming(@, r, kept), !.kept = kept]
        PROVE  StoredInv' /\ MeantInv'
    <3>1. Under(run, op.scope, kept)
      BY <2>1, <2>3, UnderSuffix DEF Thread
    <3>2. thread'.open = r /\ thread'.scope = op.scope /\ thread'.history = kept
      BY <2>1, <2>3 DEF Naming, Thread
    <3>3. /\ op'.pc = "submit" /\ op'.scope = op.scope /\ op'.kept = kept
          /\ op'.thread = thread'
      BY <1>0, <2>3 DEF Op
    <3>4. ~Held(thread.open)'
      BY <2>1, <2>3, <3>2 DEF Held
    <3>5. StoredInv'
      BY <1>1, <2>1, <3>1, <3>2, <3>4, BasesKeep DEF StoredInv
    <3>6. MeantInv'
      BY <2>1, <3>1, <3>2, <3>3 DEF MeantInv
    <3> QED
      BY <3>5, <3>6
  <2> QED
    BY <1>3, <2>2, <2>3 DEF Reference
<1> QED
  BY <1>2, <1>3

(* A run is submitted under the contract of the thread that names it. *)
LEMMA SubmitKeepsContract ==
  ASSUME TypeInv, OrphanInv, StoredInv, MeantInv, Submit
  PROVE  StoredInv' /\ MeantInv'
PROOF
<1>1. /\ op \in Op /\ run \in [Run -> RunState] /\ op.pc = "submit"
      /\ op.run \in Run /\ thread \in Thread
      /\ op.thread = thread /\ thread.open = op.run /\ thread' = thread
      /\ run[op.run].state = "unknown"
  BY DEF Submit, TypeInv, TurnTypeOK, MemoryInv, OrphanInv, LoadedInv, WorkInv, Working
<1>2. thread # None /\ thread.scope = op.scope
  BY <1>1, NullAssumption DEF MeantInv
<1>3. run'[op.run].scope = op.scope /\ run'[op.run].base = op.kept
  BY <1>1 DEF Submit, RunState
<1>4. \A r \in Run : r # op.run => run'[r] = run[r]
  BY <1>1 DEF Submit
<1>5. \A r \in Run : run[r].state # "unknown" =>
        run'[r].state # "unknown" /\ run'[r].scope = run[r].scope
  BY <1>1, <1>4
<1>6. Under(run', thread.scope, thread.history)
  BY <1>1, <1>2, <1>5, UnderLasts DEF StoredInv, Thread
<1>7. ASSUME NEW r \in Run, Held(r)'
      PROVE  Under(run', run'[r].scope, run'[r].base)
  <2>1. CASE r = op.run
    <3>1. Under(run, op.scope, op.kept) /\ op.kept \in Seq(Run)
      BY <1>1 DEF MeantInv, Op
    <3> QED
      BY <1>3, <1>5, <2>1, <3>1, UnderLasts
  <2>2. CASE r # op.run
    <3>1. Held(r) /\ run'[r] = run[r] /\ run[r].base \in Seq(Run)
      BY <1>1, <1>4, <1>7, <2>2 DEF Held, RunState
    <3>2. Under(run, run[r].scope, run[r].base)
      BY <3>1 DEF StoredInv
    <3> QED
      BY <1>5, <3>1, <3>2, UnderLasts
  <2> QED
    BY <2>1, <2>2
<1>8. StoredInv'
  BY <1>1, <1>2, <1>3, <1>6, <1>7 DEF StoredInv, Held
<1>9. op'.pc = "drive"
  BY <1>1 DEF Submit, Goto, Op
<1> QED
  BY <1>8, <1>9, NothingMeant

(* A turn that is committed adds an exchange of its thread's contract. *)
LEMMA EndedKeepsContract ==
  ASSUME TypeInv, OrphanInv, StoredInv, [Next]_vars, Commit \/ Stop
  PROVE  StoredInv' /\ MeantInv'
PROOF
<1>1. /\ op.pc = "ended" /\ op \in Op /\ op.thread = thread /\ thread \in Thread
      /\ thread # None /\ run' = run /\ run \in [Run -> RunState]
      /\ op.run \in Run /\ thread.open = op.run /\ Held(op.run)
  BY NullAssumption DEF Commit, Stop, OrphanInv, LoadedInv, WorkInv, TypeInv, MemoryInv,
     TurnTypeOK, Working
<1>2. \A r \in Run : Lasts(r)
  BY <1>1, RunsLast
<1>3. op'.pc = "erase" /\ op'.next = "idle"
  BY <1>1 DEF Commit, Stop, Reconciling, Op
<1>4. MeantInv'
  BY <1>3 DEF MeantInv
<1>5. CASE Stop
  BY <1>2, <1>4, <1>5, StoredKeeps DEF Stop
<1>6. CASE Commit
  <2>1. /\ thread'.history = Append(run[op.run].base, op.run)
        /\ thread'.open = op.run /\ thread'.scope = thread.scope
    BY <1>1, <1>6 DEF Commit, Thread
  <2>2. /\ run[op.run].scope = thread.scope /\ run[op.run].state # "unknown"
        /\ run[op.run].base \in Seq(Run)
        /\ Under(run, run[op.run].scope, run[op.run].base)
    BY <1>1, TurnAssumption DEF StoredInv, Held, RunState, Run
  <2>3. Under(run', thread'.scope, thread'.history)
    BY <1>1, <2>1, <2>2, UnderAppend
  <2> QED
    BY <1>1, <1>2, <1>4, <2>1, <2>2, <2>3, BasesKeep DEF StoredInv
<1> QED
  BY <1>5, <1>6

(* A resume lets go of a thread, but never of what it remembers. *)
LEMMA ResumeKeepsContract ==
  ASSUME TypeInv, OrphanInv, StoredInv, [Next]_vars, Resume
  PROVE  StoredInv' /\ MeantInv'
PROOF
<1>1. /\ op.pc = "resume" /\ op \in Op /\ op.thread = thread
      /\ thread' = thread /\ run' = run
  BY DEF Resume, OrphanInv, LoadedInv, TypeInv, TurnTypeOK
<1>2. StoredInv'
  BY <1>1, RunsLast, StoredKeeps
<1>3. CASE Answer("refused")
  BY <1>2, <1>3, NothingMeant DEF Answer, Idle
<1>4. CASE Forget("idle", "refused")
  BY <1>2, <1>4, ForgetTyped, NothingMeant DEF TypeInv
<1>5. CASE op'.pc \in {"delivered", "ended", "resolve"}
  BY <1>2, <1>5, NothingMeant
<1>6. CASE op'.pc = "erase" /\ op'.next = "delivered"
  BY <1>2, <1>6 DEF MeantInv
<1>7. CASE /\ op'.pc = "letGo" /\ op'.next = "delivered"
           /\ op'.thread = thread /\ thread # None
  BY <1>1, <1>2, <1>7 DEF StoredInv, MeantInv
<1>8. CASE op.thread = None
  BY <1>3, <1>8 DEF Resume
<1>9. CASE op.thread # None /\ op.thread.open = None
  BY <1>1, <1>5, <1>9 DEF Resume, Goto, Op
<1>10. CASE op.thread # None /\ op.thread.open # None /\ ~Held(op.thread.open)
  BY <1>1, <1>7, <1>10 DEF Resume, Op
<1>11. CASE op.thread # None /\ ResumeEnded(op.thread.open)
  BY <1>1, <1>3, <1>5, <1>6, <1>11 DEF ResumeEnded, Reconciling, Op
<1>12. CASE op.thread # None /\ ResumeOpen(op.thread.open)
  BY <1>1, <1>3, <1>4, <1>5, <1>6, <1>12 DEF ResumeOpen, Reconciling, Op
<1> QED
  BY <1>8, <1>9, <1>10, <1>11, <1>12 DEF Resume

(* Every step keeps every history under one contract. *)
LEMMA ContractStep ==
  ASSUME TypeInv, OrphanInv, StoredInv, MeantInv, [Next]_vars
  PROVE  StoredInv' /\ MeantInv'
PROOF
<1>1. CASE UNCHANGED vars
  BY <1>1 DEF vars, StoredInv, MeantInv, Held
<1> QED
  BY <1>1, PlainKeepsContract, DeletionKeepsContract, StartKeepsContract,
     SubmitKeepsContract, EndedKeepsContract, ResumeKeepsContract DEF Next

(* What a thread remembers, and the run it has open, belong to the exact   *)
(* Assistant contract the thread is bound to, through every crash and      *)
(* repeated request (prepare.rs thread_for_start, service.rs resume_open). *)
THEOREM ThreadOfOneContract == Spec => []OneContract
PROOF
<1>1. Init => TypeInv /\ OrphanInv /\ StoredInv /\ MeantInv
  BY TypeInit, OrphanInit DEF Init, StoredInv, MeantInv, Idle, Unknown, Held
<1>2. TypeInv /\ OrphanInv /\ StoredInv /\ MeantInv /\ [Next]_vars
      => (TypeInv /\ OrphanInv /\ StoredInv /\ MeantInv)'
  BY TypeStep, OrphanStep, ContractStep
<1>3. StoredInv => OneContract
  BY DEF StoredInv, OneContract, Under
<1> QED
  BY <1>1, <1>2, <1>3, PTL DEF Spec

-----------------------------------------------------------------------------
(* The history is a conversation *)

(* While the runs last, their order and what they started from stay. *)
LEMMA OrderKeeps ==
  ASSUME OrderInv, \A r \in Run : Lasts(r), op'.pc # "submit"
  PROVE  OrderInv'
PROOF
<1>1. \A r \in Run : (run'[r].state # "unknown") <=> (run[r].state # "unknown")
  BY DEF Lasts
<1>2. \A r \in Run : \A q \in 1..(r - 1) : q \in Run
  BY TurnAssumption DEF Run
<1>3. \A r \in Run : run'[r].state # "unknown" =>
        \A q \in 1..(r - 1) : run'[q].state # "unknown"
  BY <1>1, <1>2 DEF OrderInv
<1>4. \A r \in Run : Held(r)' => \A i \in DOMAIN run'[r].base : run'[r].base[i] < r
  BY DEF OrderInv, Lasts
<1> QED
  BY <1>3, <1>4 DEF OrderInv

(* While the runs last, a thread that is not written stays consistent with *)
(* the turn it committed and the run it has open.                          *)
LEMMA CommitKeeps ==
  ASSUME TypeInv, CommitInv, \A r \in Run : Lasts(r), thread' = thread
  PROVE  CommitInv'
PROOF
<1>1. thread \in Thread \cup {None}
  BY DEF TypeInv, TurnTypeOK
<1>2. thread # None /\ thread.committed # None =>
        run'[thread.committed].state \in {"ended", "deleted"}
  BY <1>1 DEF CommitInv, Lasts, Thread
<1>3. /\ thread # None /\ thread.open # None /\ Held(thread.open)'
      /\ thread.committed # thread.open
      => thread.history = run'[thread.open].base
  BY <1>1 DEF CommitInv, Lasts, Thread, Held
<1> QED
  BY <1>2, <1>3 DEF CommitInv, Held

(* An operation that is at none of these places has made no progress.      *)
LEMMA NoProgress ==
  ASSUME op'.pc \notin {"resolve", "drive", "suspended", "ended", "submit", "letGo",
                        "forgetDelivery", "reference"}
  PROVE  ProgressInv'
PROOF BY DEF ProgressInv

(* A drive leaves its run open, or ended and not committed. *)
LEMMA DriveProgress ==
  ASSUME TypeInv, OrphanInv, CommitInv, ProgressInv, Ask \/ Wait \/ End \/ Cancel \/ Resolve
  PROVE  ProgressInv'
PROOF
<1> USE DEF Working
<1>0. op \in Op /\ run \in [Run -> RunState]
  BY DEF TypeInv, TurnTypeOK
<1>1. /\ op.run \in Run /\ run[op.run] \in RunState /\ run[op.run].state = "open"
      /\ thread' = thread /\ thread \in Thread /\ op.thread = thread
  BY <1>0 DEF Ask, Wait, End, Cancel, Resolve, TypeInv, MemoryInv, ProgressInv,
              OrphanInv, LoadedInv
<1>2. CASE Ask
  <2>1. run'[op.run].state = "open"
    <3>1. PICK new \in NewRounds(op.run) :
            run' = [run EXCEPT ![op.run] = WithRound(run[op.run], new)]
      BY <1>2 DEF Ask
    <3>2. WithRound(run[op.run], new).state = "open"
      BY <1>1, NewRoundsTyped, WithRoundTyped
    <3> QED
      BY <1>0, <1>1, <3>1, <3>2
  <2>2. op'.pc = "suspended" /\ op'.run = op.run
    BY <1>0, <1>2 DEF Ask, Goto, Op
  <2> QED
    BY <2>1, <2>2 DEF ProgressInv
<1>3. CASE Wait
  <2>1. op'.pc = "suspended" /\ op'.run = op.run /\ run' = run
    BY <1>0, <1>3 DEF Wait, Goto, Op
  <2> QED
    BY <1>1, <2>1 DEF ProgressInv
<1>4. CASE End
  <2>1. run'[op.run].state = "ended"
    <3>1. PICK out \in Outcome, new \in {{}} \cup NewRounds(op.run) :
            run' = [run EXCEPT ![op.run] =
                      [WithRound(run[op.run], new) EXCEPT !.state = "ended",
                         !.outcome = out, !.finisher = op.answered]]
      BY <1>4 DEF End
    <3>2. WithRound(run[op.run], new) \in RunState
      BY <1>1, NewRoundsTyped, WithRoundTyped
    <3>3. [WithRound(run[op.run], new) EXCEPT !.state = "ended",
             !.outcome = out, !.finisher = op.answered].state = "ended"
      BY <3>2 DEF RunState
    <3> QED
      BY <1>0, <1>1, <3>1, <3>3
  <2>2. op'.pc = "ended" /\ op'.run = op.run
    BY <1>0, <1>4 DEF End, Goto, Op
  <2>3. thread.committed # op.run
    BY <1>1, NullAssumption, TurnAssumption DEF CommitInv, Run
  <2> QED
    BY <1>1, <2>1, <2>2, <2>3 DEF ProgressInv
<1>5. CASE Cancel
  <2>1. run'[op.run].state = "open" /\ op' = op /\ op.pc \in {"drive", "suspended"}
    BY <1>0, <1>1, <1>5 DEF Cancel, RunState
  <2> QED
    BY <2>1 DEF ProgressInv
<1>6. CASE Resolve
  <2>1. run'[op.run].state = "open"
    <3>1. ASSUME NEW i, run' = [run EXCEPT ![op.run].pending = @ \ {i}]
          PROVE  run'[op.run].state = "open"
      BY <1>0, <1>1, <3>1 DEF RunState
    <3> QED
      BY <1>1, <1>6, <3>1 DEF Resolve
  <2>2. op'.pc \in {"resolve", "drive"} /\ op'.run = op.run
    BY <1>0, <1>6 DEF Resolve, Goto, Op
  <2> QED
    BY <2>1, <2>2 DEF ProgressInv
<1> QED
  BY <1>2, <1>3, <1>4, <1>5, <1>6

(* Most steps leave the thread as it is. *)
LEMMA PlainKeepsChat ==
  ASSUME TypeInv, OrphanInv, ChatInv, [Next]_vars,
         \/ Request \/ Delete \/ ForgetRun \/ Ask \/ Wait \/ End \/ Cancel
         \/ Suspended \/ Resolve \/ Delivered \/ Fail \/ Crash
  PROVE  ChatInv'
PROOF
<1>0. op \in Op
  BY DEF TypeInv, TurnTypeOK
<1>1. thread' = thread /\ (op.pc # "submit" \/ run' = run)
  <2>1. CASE Request
    BY <2>1 DEF Request, Admit
  <2>2. CASE Delete \/ ForgetRun \/ Ask \/ Wait \/ End \/ Cancel
    BY <2>2 DEF Delete, ForgetRun, Ask, Wait, End, Cancel
  <2>3. CASE Suspended \/ Resolve \/ Delivered \/ Fail \/ Crash
    BY <2>3 DEF Suspended, Resolve, Delivered, Fail, Crash
  <2> QED
    BY <2>1, <2>2, <2>3
<1>2. \A r \in Run : Lasts(r)
  BY <1>1, RunsLast
<1>3. ProgressInv' /\ op'.pc # "submit"
  <2>1. CASE Request
    BY <2>1, NoProgress DEF Request, Admit, Idle
  <2>2. CASE Delete
    BY <2>2, ForgetTyped, NoProgress DEF Delete
  <2>3. CASE ForgetRun
    BY <1>0, <2>3, NoProgress DEF ForgetRun, Goto, Op
  <2>4. CASE Ask \/ Wait \/ End
    <3>1. op'.pc # "submit"
      BY <1>0, <2>4 DEF Ask, Wait, End, Goto, Op
    <3> QED
      BY <2>4, <3>1, DriveProgress DEF ChatInv
  <2>5. CASE Cancel \/ Resolve
    <3>1. op'.pc # "submit"
      BY <1>0, <2>5 DEF Cancel, Resolve, Goto, Op
    <3> QED
      BY <2>5, <3>1, DriveProgress DEF ChatInv
  <2>6. CASE Suspended \/ Delivered \/ Fail \/ Crash
    BY <2>6, NoProgress DEF Suspended, Delivered, Fail, Crash, Answer, Idle
  <2> QED
    BY <2>1, <2>2, <2>3, <2>4, <2>5, <2>6
<1> QED
  BY <1>1, <1>2, <1>3, OrderKeeps, CommitKeeps DEF ChatInv

(* Reconciling keeps what the thread remembers; forgetting leaves nothing. *)
LEMMA DeletionKeepsChat ==
  ASSUME TypeInv, OrphanInv, ChatInv, [Next]_vars,
         Erase \/ LetGo \/ ForgetThread \/ ForgetDelivery
  PROVE  ChatInv'
PROOF
<1>0. op \in Op /\ op.pc # "submit"
  BY DEF TypeInv, TurnTypeOK, Erase, LetGo, ForgetThread, ForgetDelivery
<1>1. \A r \in Run : Lasts(r)
  BY <1>0, RunsLast
<1>2. CASE Erase
  <2>1. op.thread = thread /\ thread' = thread
    BY <1>2 DEF Erase, OrphanInv, LoadedInv
  <2>2. op'.pc = "letGo" /\ op'.thread = op.thread
    BY <1>0, <1>2 DEF Erase, Goto, Op
  <2>3. ProgressInv'
    BY <2>1, <2>2 DEF ProgressInv
  <2> QED
    BY <1>1, <2>1, <2>2, <2>3, OrderKeeps, CommitKeeps DEF ChatInv
<1>3. CASE LetGo
  <2>1. /\ run' = run /\ op.thread = thread /\ thread \in Thread /\ thread # None
        /\ thread' = [thread EXCEPT !.open = None]
    BY <1>3, NullAssumption DEF LetGo, TypeInv, MemoryInv, ChatInv, ProgressInv
  <2>2. thread'.open = None /\ thread'.committed = thread.committed
    BY <2>1 DEF Thread
  <2>3. CommitInv'
    BY <2>1, <2>2 DEF ChatInv, CommitInv
  <2>4. CASE op.next = "idle"
    <3>1. op'.pc = "idle"
      BY <1>3, <2>4 DEF LetGo, Answer, Idle
    <3> QED
      BY <1>1, <2>3, <3>1, OrderKeeps, NoProgress DEF ChatInv
  <2>5. CASE op.next = "delivered"
    <3>1. op'.pc = "delivered"
      BY <1>0, <1>3, <2>5 DEF LetGo, Op
    <3> QED
      BY <1>1, <2>3, <3>1, OrderKeeps, NoProgress DEF ChatInv
  <2>6. CASE op.next = "reference"
    <3>1. op' = [op EXCEPT !.pc = op.next, !.thread.open = None]
      BY <1>3, <2>6 DEF LetGo
    <3>2. op'.pc = "reference" /\ op'.thread = thread'
      BY <1>0, <2>1, <2>6, <3>1 DEF Op
    <3>3. thread' # None
      <4>1. thread' \in Thread
        BY <2>1 DEF Thread
      <4> QED
        BY <4>1, NullAssumption
    <3>4. ProgressInv'
      BY <3>2, <3>3 DEF ProgressInv
    <3> QED
      BY <1>1, <2>3, <3>2, <3>4, OrderKeeps DEF ChatInv
  <2> QED
    BY <1>0, <2>4, <2>5, <2>6 DEF Op
<1>4. CASE ForgetThread
  <2>1. thread' = None /\ op'.pc = "forgetDelivery"
    BY <1>0, <1>4 DEF ForgetThread, Goto, Op
  <2>2. CommitInv' /\ ProgressInv'
    BY <2>1 DEF CommitInv, ProgressInv
  <2> QED
    BY <1>1, <2>1, <2>2, OrderKeeps DEF ChatInv
<1>5. CASE ForgetDelivery
  <2>1. thread' = thread /\ thread = None
    BY <1>5 DEF ForgetDelivery, ChatInv, ProgressInv
  <2>2. CASE op.next = "idle"
    <3>1. op'.pc = "idle"
      BY <1>5, <2>2 DEF ForgetDelivery, Answer, Idle
    <3> QED
      BY <1>1, <2>1, <3>1, OrderKeeps, CommitKeeps, NoProgress DEF ChatInv
  <2>3. CASE op.next # "idle"
    <3>1. op'.pc = "reference" /\ op'.thread = FreshThread(op.scope)
      BY <1>0, <1>5, <2>3 DEF ForgetDelivery, TypeInv, MemoryInv, Op
    <3>2. ProgressInv'
      BY <2>1, <3>1 DEF ProgressInv, FreshThread
    <3> QED
      BY <1>1, <2>1, <3>1, <3>2, OrderKeeps, CommitKeeps DEF ChatInv
  <2> QED
    BY <2>2, <2>3
<1> QED
  BY <1>2, <1>3, <1>4, <1>5

(* A turn starts from the newest exchanges of the thread. *)
LEMMA StartKeepsChat ==
  ASSUME TypeInv, OrphanInv, ChatInv, [Next]_vars, Start \/ Reference
  PROVE  ChatInv'
PROOF
<1>0. op \in Op /\ op.pc # "submit"
  BY DEF TypeInv, TurnTypeOK, Start, Reference
<1>1. \A r \in Run : Lasts(r)
  BY <1>0, RunsLast
<1>2. CASE Start
  <2>1. op.thread = thread /\ UNCHANGED <<thread, run>> /\ op.pc = "start"
    BY <1>2 DEF Start, OrphanInv, LoadedInv
  <2>2. CASE Forget("reference", "stopped")
    BY <1>1, <2>1, <2>2, ForgetTyped, OrderKeeps, CommitKeeps, NoProgress DEF ChatInv
  <2>3. CASE op' = [op EXCEPT !.pc = "reference", !.thread = FreshThread(op.scope)]
             /\ thread = None
    <3>1. op'.pc = "reference" /\ op'.thread = FreshThread(op.scope)
      BY <1>0, <2>3 DEF Op
    <3>2. ProgressInv'
      BY <2>1, <2>3, <3>1 DEF ProgressInv, FreshThread
    <3> QED
      BY <1>1, <2>1, <3>1, <3>2, OrderKeeps, CommitKeeps DEF ChatInv
  <2>4. CASE op'.pc \in {"reference", "erase"} /\ op'.thread = op.thread /\ thread # None
    <3>1. ProgressInv'
      BY <2>1, <2>4 DEF ProgressInv
    <3> QED
      BY <1>1, <2>1, <2>4, <3>1, OrderKeeps, CommitKeeps DEF ChatInv
  <2>5. CASE op.thread = None
    BY <1>2, <2>1, <2>3, <2>5 DEF Start
  <2>6. CASE op.thread # None
    BY <1>0, <1>2, <2>1, <2>2, <2>4, <2>6 DEF Start, Goto, Reconciling, Op
  <2> QED
    BY <2>5, <2>6
<1>3. CASE Reference
  <2>1. run' = run /\ op.pc = "reference" /\ op.thread \in Thread
    BY <1>3 DEF Reference, TypeInv, MemoryInv
  <2>2. CASE Answer("refused") /\ thread' = thread
    <3>1. op'.pc = "idle"
      BY <2>2 DEF Answer, Idle
    <3> QED
      BY <1>1, <2>2, <3>1, OrderKeeps, CommitKeeps, NoProgress DEF ChatInv
  <2>3. ASSUME NEW r \in Run, NEW kept, run[r].state = "unknown",
               \A q \in 1..(r - 1) : run[q].state # "unknown",
               thread' = Naming(op.thread, r, kept),
               op' = [op EXCEPT !.pc = "submit", !.run = r,
                                !.thread = Naming(@, r, kept), !.kept = kept]
        PROVE  ChatInv'
    <3>1. /\ thread'.open = r /\ thread'.history = kept
          /\ thread'.committed = op.thread.committed
      BY <2>1, <2>3 DEF Naming, Thread
    <3>2. op'.pc = "submit" /\ op'.run = r /\ op'.kept = kept
      BY <1>0, <2>3 DEF Op
    <3>3. op.thread.committed # None =>
            run[op.thread.committed].state \in {"ended", "deleted"}
      BY <2>1 DEF ChatInv, ProgressInv, CommitInv
    <3>4. OrderInv'
      BY <2>1, <2>3, <3>2 DEF ChatInv, OrderInv, Held
    <3>5. CommitInv'
      BY <2>1, <2>3, <3>1, <3>3 DEF CommitInv, Held
    <3>6. ProgressInv'
      BY <3>1, <3>2 DEF ProgressInv
    <3> QED
      BY <3>4, <3>5, <3>6 DEF ChatInv
  <2> QED
    BY <1>3, <2>2, <2>3 DEF Reference
<1> QED
  BY <1>2, <1>3

(* A run is submitted from the history its thread keeps, all of it older. *)
LEMMA SubmitKeepsChat ==
  ASSUME TypeInv, OrphanInv, MeantInv, ChatInv, Submit
  PROVE  ChatInv'
PROOF
<1>1. /\ op \in Op /\ run \in [Run -> RunState] /\ op.pc = "submit"
      /\ op.run \in Run /\ thread \in Thread /\ thread' = thread
      /\ thread.open = op.run /\ run[op.run].state = "unknown"
      /\ thread.history = op.kept /\ op.kept \in Seq(Run)
  BY DEF Submit, TypeInv, TurnTypeOK, MemoryInv, OrphanInv, LoadedInv, WorkInv, Working,
     ChatInv, ProgressInv, Op
<1>2. run'[op.run].state = "open" /\ run'[op.run].base = op.kept
  BY <1>1 DEF Submit, RunState
<1>3. \A r \in Run : r # op.run => run'[r] = run[r]
  BY <1>1 DEF Submit
<1>4. op'.pc = "drive" /\ op'.run = op.run
  BY <1>1 DEF Submit, Goto, Op
<1>5. \A r \in Run : r \in Nat /\ \A q \in 1..(r - 1) : q \in Run
  BY TurnAssumption DEF Run
<1>6. \A i \in DOMAIN op.kept : op.kept[i] < op.run
  <2>1. SUFFICES ASSUME NEW i \in DOMAIN op.kept, ~(op.kept[i] < op.run)
                 PROVE  FALSE
    BY <1>1, <1>5
  <2>2. op.kept[i] \in Run /\ run[op.kept[i]].state # "unknown"
    BY <1>1 DEF MeantInv, Under
  <2>3. op.kept[i] # op.run
    BY <1>1, <2>2
  <2>4. op.run \in 1..(op.kept[i] - 1)
    BY <1>1, <2>1, <2>2, <2>3, TurnAssumption DEF Run
  <2> QED
    BY <1>1, <2>2, <2>4 DEF ChatInv, OrderInv
<1>7. OrderInv'
  <2>1. \A r \in Run : run'[r].state # "unknown" =>
          \A q \in 1..(r - 1) : run'[q].state # "unknown"
    BY <1>1, <1>2, <1>3, <1>5 DEF ChatInv, OrderInv
  <2>2. \A r \in Run : Held(r)' => \A i \in DOMAIN run'[r].base : run'[r].base[i] < r
    BY <1>2, <1>3, <1>6 DEF ChatInv, OrderInv, Held
  <2> QED
    BY <1>4, <2>1, <2>2 DEF OrderInv
<1>8. CommitInv'
  <2>1. thread.committed # None => run'[thread.committed].state \in {"ended", "deleted"}
    BY <1>1, <1>3, NullAssumption DEF ChatInv, CommitInv, Thread
  <2> QED
    BY <1>1, <1>2, <2>1 DEF CommitInv
<1>9. ProgressInv'
  BY <1>2, <1>4 DEF ProgressInv
<1> QED
  BY <1>7, <1>8, <1>9 DEF ChatInv

(* Once a turn is committed its run has ended. *)
LEMMA EndedKeepsChat ==
  ASSUME TypeInv, OrphanInv, ChatInv, [Next]_vars, Commit \/ Stop
  PROVE  ChatInv'
PROOF
<1>1. /\ op.pc = "ended" /\ op \in Op /\ run' = run /\ thread \in Thread
      /\ op.thread = thread /\ thread.open = op.run /\ run[op.run].state = "ended"
  BY DEF Commit, Stop, TypeInv, TurnTypeOK, MemoryInv, OrphanInv, LoadedInv, WorkInv,
     Working, ChatInv, ProgressInv
<1>2. \A r \in Run : Lasts(r)
  BY <1>1, RunsLast
<1>3. op'.pc = "erase"
  BY <1>1 DEF Commit, Stop, Reconciling, Op
<1>4. CASE Stop
  BY <1>2, <1>3, <1>4, OrderKeeps, CommitKeeps, NoProgress DEF Stop, ChatInv
<1>5. CASE Commit
  <2>1. thread'.open = op.run /\ thread'.committed = op.run
    BY <1>1, <1>5 DEF Commit, Thread
  <2>2. CommitInv'
    BY <1>1, <2>1 DEF CommitInv
  <2> QED
    BY <1>2, <1>3, <2>2, OrderKeeps, NoProgress DEF ChatInv
<1> QED
  BY <1>4, <1>5

(* A resume finishes a run only before it was committed. *)
LEMMA ResumeKeepsChat ==
  ASSUME TypeInv, OrphanInv, ChatInv, [Next]_vars, Resume
  PROVE  ChatInv'
PROOF
<1>1. /\ op.pc = "resume" /\ op \in Op /\ op.thread = thread
      /\ thread' = thread /\ run' = run
  BY DEF Resume, OrphanInv, LoadedInv, TypeInv, TurnTypeOK
<1>2. \A r \in Run : Lasts(r)
  BY <1>1, RunsLast
<1>3. ProgressInv' /\ op'.pc # "submit"
  <2>1. CASE Answer("refused")
    BY <2>1, NoProgress DEF Answer, Idle
  <2>2. CASE Forget("idle", "refused")
    BY <2>2, ForgetTyped, NoProgress DEF TypeInv
  <2>3. CASE op'.pc \in {"delivered", "erase"}
    BY <2>3, NoProgress
  <2>4. CASE op'.pc = "letGo" /\ op'.thread = op.thread
    BY <1>1, <2>4 DEF ProgressInv
  <2>5. CASE op'.pc = "resolve" /\ run[op'.run].state = "open"
    BY <1>1, <2>5 DEF ProgressInv
  <2>6. CASE /\ op'.pc = "ended" /\ run[op'.run].state = "ended"
             /\ thread.committed # op'.run
    BY <1>1, <2>6 DEF ProgressInv
  <2>7. CASE op.thread = None
    BY <2>1, <2>7 DEF Resume
  <2>8. CASE op.thread # None /\ op.thread.open = None
    BY <1>1, <2>3, <2>8 DEF Resume, Goto, Op
  <2>9. CASE op.thread # None /\ op.thread.open # None /\ ~Held(op.thread.open)
    BY <1>1, <2>4, <2>9 DEF Resume, Op
  <2>10. CASE op.thread # None /\ ResumeEnded(op.thread.open)
    BY <1>1, <2>1, <2>3, <2>6, <2>10 DEF ResumeEnded, Reconciling, Op
  <2>11. CASE op.thread # None /\ ResumeOpen(op.thread.open)
    BY <1>1, <2>1, <2>2, <2>3, <2>5, <2>11 DEF ResumeOpen, Reconciling, Op
  <2> QED
    BY <2>7, <2>8, <2>9, <2>10, <2>11 DEF Resume
<1> QED
  BY <1>1, <1>2, <1>3, OrderKeeps, CommitKeeps DEF ChatInv

(* Every step keeps the order of the turns and what each started from. *)
LEMMA ChatStep ==
  ASSUME TypeInv, OrphanInv, MeantInv, ChatInv, [Next]_vars
  PROVE  ChatInv'
PROOF
<1>1. CASE UNCHANGED vars
  BY <1>1 DEF vars, ChatInv, OrderInv, CommitInv, ProgressInv, Held
<1> QED
  BY <1>1, PlainKeepsChat, DeletionKeepsChat, StartKeepsChat, SubmitKeepsChat,
     EndedKeepsChat, ResumeKeepsChat DEF Next

(* Every step of the service is a step of the conversation, or none. *)
LEMMA ChatRefines ==
  ASSUME TypeInv, OrphanInv, MeantInv, ChatInv, [Next]_vars
  PROVE  [Chat!Next]_History
PROOF
<1>0. op \in Op /\ run \in [Run -> RunState]
  BY DEF TypeInv, TurnTypeOK
<1>1. CASE thread' = thread
  BY <1>1 DEF History
<1>2. CASE Reference
  <2>1. op.pc = "reference" /\ op.thread \in Thread
    BY <1>2 DEF Reference, TypeInv, MemoryInv
  <2>2. History = op.thread.history
    BY <2>1 DEF History, ChatInv, ProgressInv
  <2>3. ASSUME NEW r \in Run, NEW n \in 1..(Len(op.thread.history) + 1),
               thread' = Naming(op.thread, r, SubSeq(op.thread.history, n,
                                                      Len(op.thread.history)))
        PROVE  Chat!Next
    <3> DEFINE h == op.thread.history
               kept == SubSeq(h, n, Len(h))
    <3>1. h \in Seq(Run)
      BY <2>1 DEF Thread
    <3>2. Naming(op.thread, r, kept) \in Thread
      <4>1. kept \in Seq(Run)
        BY <3>1
      <4> HIDE DEF kept
      <4> QED
        BY <2>1, <4>1 DEF Naming, Thread
    <3>3. Naming(op.thread, r, kept).history = kept
      BY <2>1 DEF Naming, Thread
    <3>4. History' = kept
      BY <2>3, <3>2, <3>3, NullAssumption DEF History
    <3>5. CASE n \in 1..Len(h)
      <4>1. n \in DOMAIN History /\ History' = SubSeq(History, n, Len(History))
        BY <2>2, <3>1, <3>4, <3>5
      <4>2. Chat!Trim(n)
        BY <4>1 DEF Chat!Trim
      <4> QED
        BY <4>1, <4>2 DEF Chat!Next
    <3>6. CASE n = Len(h) + 1
      <4>1. kept = <<>>
        BY <3>1, <3>6
      <4> QED
        BY <3>4, <4>1 DEF Chat!Next, Chat!Forget
    <3> QED
      BY <3>1, <3>5, <3>6
  <2> QED
    BY <1>1, <1>2, <2>3 DEF Reference
<1>3. CASE LetGo
  <2>1. /\ op.thread = thread /\ thread \in Thread
        /\ thread' = [thread EXCEPT !.open = None]
    BY <1>3 DEF LetGo, TypeInv, MemoryInv, ChatInv, ProgressInv
  <2>2. thread' \in Thread /\ thread'.history = thread.history
    BY <2>1 DEF Thread
  <2> QED
    BY <2>1, <2>2, NullAssumption DEF History
<1>4. CASE ForgetThread
  BY <1>4 DEF ForgetThread, History, Chat!Next, Chat!Forget
<1>5. CASE Commit
  <2>1. /\ op.pc = "ended" /\ op.run \in Run /\ thread \in Thread /\ op.thread = thread
        /\ thread # None /\ thread.open = op.run /\ Held(op.run)
        /\ thread.committed # op.run
    BY <1>5, NullAssumption
       DEF Commit, TypeInv, MemoryInv, OrphanInv, LoadedInv, WorkInv, Working, ChatInv,
           ProgressInv
  <2>2. History = run[op.run].base
    BY <2>1, TurnAssumption DEF History, ChatInv, CommitInv, Run
  <2>3. \A i \in DOMAIN History : History[i] < op.run
    BY <2>1, <2>2 DEF ChatInv, OrderInv
  <2>4. thread' \in Thread /\ thread'.history = Append(run[op.run].base, op.run)
    <3>1. run[op.run].base \in Seq(Run)
      BY <1>0, <2>1 DEF RunState
    <3> DEFINE h == Append(run[op.run].base, op.run)
    <3>2. h \in Seq(Run)
      BY <2>1, <3>1
    <3>3. thread' = [thread EXCEPT !.history = h, !.committed = op.run]
      BY <1>5, <2>1 DEF Commit
    <3> HIDE DEF h
    <3>4. thread' \in Thread /\ thread'.history = h
      BY <2>1, <3>2, <3>3 DEF Thread
    <3> QED
      BY <3>4 DEF h
  <2>5. History' = Append(History, op.run)
    BY <2>2, <2>4, NullAssumption DEF History
  <2> QED
    BY <2>1, <2>3, <2>5 DEF Chat!Next, Chat!Exchanged
<1>6. CASE ~(Reference \/ LetGo \/ ForgetThread \/ Commit)
  <2>1. thread' = thread
    BY <1>6 DEF Next, vars, Request, Admit, Start, Submit, Resume, Resolve, Delivered,
                Ask, Wait, End, Cancel, Suspended, Stop, Erase, Delete, ForgetRun,
                ForgetDelivery, Fail, Crash
  <2> QED
    BY <1>1, <2>1
<1> QED
  BY <1>2, <1>3, <1>4, <1>5, <1>6

(* The first turn finds an empty conversation. *)
LEMMA ChatInit ==
  ASSUME Init
  PROVE  TypeInv /\ OrphanInv /\ StoredInv /\ MeantInv /\ ChatInv
PROOF
<1>1. op.pc = "idle" /\ op.next = "idle" /\ thread = None
  BY DEF Init, Idle
<1>2. \A r \in Run : run[r].state = "unknown"
  BY DEF Init, Unknown
<1>3. StoredInv /\ MeantInv
  BY <1>1, <1>2 DEF StoredInv, MeantInv, Held
<1>4. ChatInv
  BY <1>1, <1>2 DEF ChatInv, OrderInv, CommitInv, ProgressInv, Held
<1> QED
  BY <1>3, <1>4, TypeInit, OrphanInit

(* The history a thread keeps is that of a conversation (threads.rs save   *)
(* and commit, service.rs ended and reconcile): over two stores that no    *)
(* transaction spans, crashes, failed writes and repeated requests append  *)
(* each exchange once and in order, and drop only the oldest, or all.      *)
THEOREM HistoryIsConversation == Spec => IsConversation
PROOF
<1>1. Init => TypeInv /\ OrphanInv /\ StoredInv /\ MeantInv /\ ChatInv
  BY ChatInit
<1>2. TypeInv /\ OrphanInv /\ StoredInv /\ MeantInv /\ ChatInv /\ [Next]_vars
      => (TypeInv /\ OrphanInv /\ StoredInv /\ MeantInv /\ ChatInv)'
  BY TypeStep, OrphanStep, ContractStep, ChatStep
<1>3. Init => Chat!Init
  BY DEF Init, Chat!Init, History
<1>4. TypeInv /\ OrphanInv /\ MeantInv /\ ChatInv /\ [Next]_vars
      => [Chat!Next]_History
  BY ChatRefines
<1> QED
  BY <1>1, <1>2, <1>3, <1>4, PTL DEF Spec, IsConversation, Chat!Spec

-----------------------------------------------------------------------------
(* A completed turn is kept *)

(* An operation at none of these places is about to delete nothing. *)
LEMMA NothingDeleted ==
  ASSUME op'.pc \notin {"start", "delete", "forgetRun", "erase"}
  PROVE  KeptInv'
PROOF BY DEF KeptInv

(* What is about to be deleted was decided from what the store holds. *)
LEMMA KeptStep ==
  ASSUME TypeInv, OrphanInv, ChatInv, KeptInv, [Next]_vars
  PROVE  KeptInv'
PROOF
<1>0. op \in Op
  BY DEF TypeInv, TurnTypeOK
<1>1. CASE Request
  <2>1. CASE \E scope \in Scope : Admit("start", scope, {})
    BY <2>1 DEF Admit, Idle, KeptInv
  <2>2. CASE Admit("delete", None, {})
    BY <2>2 DEF Admit, Idle, KeptInv
  <2>3. CASE \E scope \in Scope, answered \in SUBSET told :
               answered # {} /\ Admit("resume", scope, answered)
    BY <2>3, NothingDeleted DEF Admit, Idle
  <2> QED
    BY <1>1, <2>1, <2>2, <2>3 DEF Request
<1>2. CASE Delete
  <2>1. op.answered = {} /\ op'.answered = op.answered
    BY <1>0, <1>2 DEF Delete, Forget, KeptInv, Op
  <2>2. op'.pc \in {"forgetRun", "forgetThread"}
    BY <1>2, ForgetTyped DEF Delete
  <2> QED
    BY <2>1, <2>2 DEF KeptInv
<1>3. CASE Start
  <2>1. op.answered = {} /\ op'.answered = op.answered
    BY <1>0, <1>3 DEF Start, Forget, Goto, Reconciling, KeptInv, Op
  <2>2. op'.pc \notin {"start", "delete"}
    BY <1>0, <1>3 DEF Start, Forget, Goto, Reconciling, Op
  <2> QED
    BY <2>1, <2>2 DEF KeptInv
<1>4. CASE Resume
  <2>1. /\ op.pc = "resume" /\ op.thread = thread
        /\ thread' = thread /\ run' = run
    BY <1>4 DEF Resume, OrphanInv, LoadedInv
  <2>2. CASE Answer("refused")
    BY <2>2, NothingDeleted DEF Answer, Idle
  <2>3. CASE op'.pc \in {"delivered", "letGo", "ended", "resolve"}
    BY <2>3, NothingDeleted
  <2>4. CASE op'.pc \in {"forgetRun", "forgetThread"} /\ run[thread.open].state = "open"
    BY <2>1, <2>4 DEF KeptInv
  <2>5. CASE /\ op'.pc = "erase" /\ op'.thread = thread
             /\ \/ run[thread.open].state = "open"
                \/ thread.committed = thread.open
    BY <2>1, <2>5 DEF KeptInv
  <2>6. CASE op.thread = None
    BY <1>4, <2>2, <2>6 DEF Resume
  <2>7. CASE op.thread # None /\ (op.thread.open = None \/ ~Held(op.thread.open))
    BY <1>0, <1>4, <2>3, <2>7 DEF Resume, Goto, Op
  <2>8. CASE op.thread # None /\ ResumeEnded(op.thread.open)
    BY <1>0, <2>1, <2>2, <2>3, <2>5, <2>8 DEF ResumeEnded, Reconciling, Op
  <2>9. CASE op.thread # None /\ ResumeOpen(op.thread.open)
    <3>1. CASE Forget("idle", "refused")
      BY <2>1, <2>4, <2>9, <3>1, ForgetTyped DEF ResumeOpen
    <3> QED
      BY <1>0, <2>1, <2>2, <2>3, <2>5, <2>9, <3>1 DEF ResumeOpen, Reconciling, Op
  <2> QED
    BY <1>4, <2>6, <2>7, <2>8, <2>9 DEF Resume
<1>5. CASE Commit \/ Stop
  <2>1. /\ op.pc = "ended" /\ op.thread = thread /\ thread \in Thread
        /\ thread.open = op.run /\ run' = run
    BY <1>5 DEF Commit, Stop, TypeInv, MemoryInv, OrphanInv, LoadedInv, WorkInv, Working
  <2>2. op'.pc = "erase" /\ op'.thread = thread'
    BY <1>0, <1>5, <2>1 DEF Commit, Stop, Reconciling, Op
  <2>3. thread'.open = op.run
    BY <1>5, <2>1 DEF Commit, Stop, Thread
  <2>4. run[op.run].outcome # "done" \/ thread'.committed = op.run
    BY <1>5, <2>1 DEF Commit, Stop, Thread
  <2> QED
    BY <2>1, <2>2, <2>3, <2>4 DEF KeptInv
<1>6. CASE Reference
  <2>1. CASE Answer("refused")
    BY <2>1, NothingDeleted DEF Answer, Idle
  <2>2. ASSUME NEW r, NEW kept,
               op' = [op EXCEPT !.pc = "submit", !.run = r,
                                !.thread = Naming(@, r, kept), !.kept = kept]
        PROVE  KeptInv'
    <3>1. op'.pc = "submit"
      BY <1>0, <2>2 DEF Op
    <3> QED
      BY <3>1, NothingDeleted
  <2> QED
    BY <1>6, <2>1, <2>2 DEF Reference
<1>7. CASE Submit \/ Resolve \/ Ask \/ Wait \/ End
  BY <1>0, <1>7, NothingDeleted DEF Submit, Resolve, Ask, Wait, End, Goto, Op
<1>8. CASE Cancel
  <2>1. op' = op /\ op.pc \in {"drive", "suspended"}
    BY <1>8 DEF Cancel
  <2> QED
    BY <2>1, NothingDeleted
<1>9. CASE Suspended \/ Delivered \/ Fail \/ Crash
  BY <1>9, NothingDeleted DEF Suspended, Delivered, Fail, Crash, Answer, Idle
<1>10. CASE Erase \/ ForgetRun \/ ForgetThread
  BY <1>0, <1>10, NothingDeleted DEF Erase, ForgetRun, ForgetThread, Goto, Op
<1>11. CASE LetGo \/ ForgetDelivery
  <2>1. CASE op.next = "idle"
    BY <1>11, <2>1, NothingDeleted DEF LetGo, ForgetDelivery, Answer, Idle
  <2>2. CASE op.next # "idle"
    <3>1. op'.pc = op.next
      BY <1>0, <1>11, <2>2 DEF LetGo, ForgetDelivery, Op
    <3>2. op.next \in {"reference", "delivered"}
      BY <1>0, <2>2 DEF Op
    <3> QED
      BY <3>1, <3>2, NothingDeleted
  <2> QED
    BY <2>1, <2>2
<1>12. CASE UNCHANGED vars
  BY <1>12 DEF vars, KeptInv
<1> QED
  BY <1>1, <1>2, <1>3, <1>4, <1>5, <1>6, <1>7, <1>8, <1>9, <1>10, <1>11, <1>12 DEF Next

(* Only reconciling a thread, or forgetting it, deletes a run. *)
LEMMA OnlyDeletionDeletes ==
  ASSUME TypeInv, OrphanInv, [Next]_vars, NEW r \in Run,
         run[r].state = "ended", run'[r].state = "deleted"
  PROVE  Erase \/ ForgetRun
PROOF
<1>1. CASE Ask \/ End \/ Cancel \/ Resolve
  <2>1. /\ op.pc \in Working \ {"submit"} /\ op.run \in Run
        /\ op'.pc \in Working \ {"submit"} /\ op'.run = op.run
    BY <1>1 DEF Ask, End, Cancel, Resolve, Goto, Working, TypeInv, TurnTypeOK, MemoryInv, Op
  <2>2. run'[op.run].state \in {"open", "ended"}
    BY <2>1, OrphanStep DEF OrphanInv, WorkInv, Held
  <2>3. r # op.run => run'[r] = run[r]
    BY <1>1, <2>1 DEF Ask, End, Cancel, Resolve, TypeInv, TurnTypeOK
  <2> QED
    BY <2>2, <2>3
<1>2. CASE Submit
  <2>1. op.run \in Run /\ run[op.run].state = "unknown"
    BY <1>2 DEF Submit, Working, TypeInv, MemoryInv, OrphanInv, WorkInv
  <2> QED
    BY <1>2, <2>1 DEF Submit, TypeInv, TurnTypeOK
<1>3. CASE ~(Ask \/ End \/ Cancel \/ Resolve \/ Submit \/ Erase \/ ForgetRun)
  <2>1. run' = run
    BY <1>3 DEF Next, vars, Request, Admit, Start, Reference, Resume, Delivered, Wait,
                Suspended, Commit, Stop, LetGo, Delete, ForgetThread, ForgetDelivery,
                Fail, Crash
  <2> QED
    BY <2>1
<1> QED
  BY <1>1, <1>2, <1>3

(* A completed turn that Team resumes is committed before its run is       *)
(* deleted: only a new turn or a deletion abandons it uncommitted          *)
(* (service.rs resume_open, threads.rs commit).                            *)
THEOREM CompletedTurnKept == Spec => DoneKept
PROOF
<1>1. Init => TypeInv /\ OrphanInv /\ StoredInv /\ MeantInv /\ ChatInv
  BY ChatInit
<1>2. Init => KeptInv
  BY DEF Init, Idle, KeptInv
<1>3. TypeInv /\ OrphanInv /\ StoredInv /\ MeantInv /\ ChatInv /\ KeptInv /\ [Next]_vars
      => (TypeInv /\ OrphanInv /\ StoredInv /\ MeantInv /\ ChatInv /\ KeptInv)'
  BY TypeStep, OrphanStep, ContractStep, ChatStep, KeptStep
<1>4. ASSUME TypeInv, OrphanInv, KeptInv, [Next]_vars, NEW r \in Run,
             run[r].state = "ended", run'[r].state = "deleted",
             run[r].outcome = "done", op.answered # {}
      PROVE  thread.committed = r
  <2>1. Erase \/ ForgetRun
    BY <1>4, OnlyDeletionDeletes
  <2>2. CASE Erase
    <3>1. op.thread = thread /\ r = op.thread.open
      BY <1>4, <2>2 DEF Erase, Deleted, OrphanInv, LoadedInv, TypeInv, TurnTypeOK
    <3> QED
      BY <1>4, <2>2, <3>1 DEF Erase, KeptInv
  <2>3. CASE ForgetRun
    <3>1. r = thread.open
      BY <1>4, <2>3 DEF ForgetRun, Deleted, TypeInv, TurnTypeOK
    <3> QED
      BY <1>4, <2>3, <3>1 DEF ForgetRun, KeptInv
  <2> QED
    BY <2>1, <2>2, <2>3
<1>5. TypeInv /\ OrphanInv /\ KeptInv /\ [Next]_vars
      => [\A r \in Run :
            /\ run[r].state = "ended" /\ run'[r].state = "deleted"
            /\ run[r].outcome = "done" /\ op.answered # {}
            => thread.committed = r]_vars
  BY <1>4
<1> QED
  BY <1>1, <1>2, <1>3, <1>5, PTL DEF Spec, DoneKept

-----------------------------------------------------------------------------
(* A turn and the round it answers *)

(* What a step leaves of a run that ended. *)
StaysFinished(r) ==
  Finished(r) =>
    /\ run'[r].state \in {"ended", "deleted"}
    /\ run'[r].round = run[r].round
    /\ run'[r].outcome = run[r].outcome
    /\ run'[r].finisher = run[r].finisher

(* A run that asks a new round waits on it whole. *)
LEMMA WithRoundAsks ==
  ASSUME NEW me \in RunState, NEW new \in SUBSET Interrupt,
         me.pending \subseteq me.round, me.round \subseteq me.asked
  PROVE  /\ WithRound(me, new).pending \subseteq WithRound(me, new).round
         /\ WithRound(me, new).round \subseteq WithRound(me, new).asked
         /\ WithRound(me, new).outcome = me.outcome
         /\ new = {} => WithRound(me, new) = me
PROOF BY DEF WithRound, RunState

(* A run asks its rounds while it is open, and keeps what it ended with. *)
LEMMA RunStep ==
  ASSUME TypeInv, OrphanInv, ChatInv, AskedInv, [Next]_vars
  PROVE  AskedInv' /\ \A r \in Run : StaysFinished(r)
PROOF
<1> USE DEF Working
<1>0. run \in [Run -> RunState] /\ op \in Op
  BY DEF TypeInv, TurnTypeOK
<1>1. CASE run' = run
  BY <1>1 DEF AskedInv, StaysFinished, Finished
<1>2. ASSUME NEW q, run' = Deleted(q)
      PROVE  AskedInv' /\ \A r \in Run : StaysFinished(r)
  <2>1. ASSUME NEW me \in RunState
        PROVE  LET new == [me EXCEPT !.state = "deleted", !.base = <<>>,
                                     !.pending = {}, !.cancel = FALSE]
               IN /\ new.state = "deleted" /\ new.pending = {}
                  /\ new.round = me.round /\ new.asked = me.asked
                  /\ new.outcome = me.outcome /\ new.finisher = me.finisher
    BY DEF RunState
  <2>2. ASSUME NEW r \in Run
        PROVE  \/ run'[r] = run[r]
               \/ /\ run'[r].state = "deleted" /\ run'[r].pending = {}
                  /\ run'[r].round = run[r].round /\ run'[r].asked = run[r].asked
                  /\ run'[r].outcome = run[r].outcome
                  /\ run'[r].finisher = run[r].finisher
    BY <1>0, <1>2, <2>1 DEF Deleted
  <2> QED
    BY <2>2 DEF AskedInv, StaysFinished, Finished
<1>3. ASSUME NEW me \in RunState, op.run \in Run,
             run[op.run].state \notin {"ended", "deleted"},
             run' = [run EXCEPT ![op.run] = me],
             me.pending \subseteq me.round, me.round \subseteq me.asked,
             me.outcome = "done" => me.state = "ended" /\ me.pending = {}
      PROVE  AskedInv' /\ \A r \in Run : StaysFinished(r)
  <2>1. run'[op.run] = me /\ \A r \in Run \ {op.run} : run'[r] = run[r]
    BY <1>0, <1>3
  <2> QED
    BY <1>3, <2>1 DEF AskedInv, StaysFinished, Finished
<1>4. CASE Submit
  <2>1. op.run \in Run /\ run[op.run] \in RunState /\ run[op.run].state = "unknown"
    BY <1>0, <1>4 DEF Submit, TypeInv, MemoryInv, OrphanInv, WorkInv
  <2> DEFINE me == [run[op.run] EXCEPT !.state = "open", !.scope = op.scope,
                                       !.base = op.kept]
  <2>2. run' = [run EXCEPT ![op.run] = me]
    BY <1>4 DEF Submit
  <2>3. /\ me \in RunState /\ me.pending = run[op.run].pending
        /\ me.round = run[op.run].round /\ me.asked = run[op.run].asked
        /\ me.outcome = run[op.run].outcome
    BY <1>0, <2>1 DEF RunState, Op
  <2> HIDE DEF me
  <2> QED
    BY <1>3, <2>1, <2>2, <2>3 DEF AskedInv, Finished
<1>5. CASE Ask \/ End \/ Cancel \/ Resolve
  <2>1. op.run \in Run /\ run[op.run] \in RunState /\ run[op.run].state = "open"
    BY <1>0, <1>5
       DEF Ask, End, Cancel, Resolve, TypeInv, MemoryInv, ChatInv, ProgressInv
  <2>2. /\ run[op.run].pending \subseteq run[op.run].round
        /\ run[op.run].round \subseteq run[op.run].asked
        /\ run[op.run].outcome # "done"
    BY <2>1 DEF AskedInv, Finished
  <2>3. CASE Ask
    <3>1. PICK new \in NewRounds(op.run) :
            run' = [run EXCEPT ![op.run] = WithRound(run[op.run], new)]
      BY <2>3 DEF Ask
    <3> DEFINE me == WithRound(run[op.run], new)
    <3>2. /\ me \in RunState /\ me.outcome # "done"
          /\ me.pending \subseteq me.round /\ me.round \subseteq me.asked
      BY <2>1, <2>2, NewRoundsTyped, WithRoundTyped, WithRoundAsks
    <3>3. run' = [run EXCEPT ![op.run] = me]
      BY <3>1
    <3> HIDE DEF me
    <3> QED
      BY <1>3, <2>1, <3>2, <3>3
  <2>4. CASE End
    <3>1. PICK out \in Outcome, new \in {{}} \cup NewRounds(op.run) :
            /\ out = "cancelled" <=> run[op.run].cancel
            /\ out \in {"done", "failed"} => run[op.run].pending = {}
            /\ new # {} => run[op.run].cancel /\ run[op.run].pending = {}
            /\ run' = [run EXCEPT ![op.run] =
                         [WithRound(run[op.run], new) EXCEPT !.state = "ended",
                            !.outcome = out, !.finisher = op.answered]]
      BY <2>4 DEF End
    <3> DEFINE asked == WithRound(run[op.run], new)
               me == [asked EXCEPT !.state = "ended", !.outcome = out,
                                   !.finisher = op.answered]
    <3>2. /\ asked \in RunState
          /\ asked.pending \subseteq asked.round /\ asked.round \subseteq asked.asked
          /\ out = "done" => asked.pending = {}
      BY <2>1, <2>2, <3>1, NewRoundsTyped, WithRoundTyped, WithRoundAsks
    <3>3. run' = [run EXCEPT ![op.run] = me]
      BY <3>1
    <3> HIDE DEF asked
    <3>4. /\ me \in RunState /\ me.state = "ended" /\ me.outcome = out
          /\ me.pending = asked.pending /\ me.round = asked.round
          /\ me.asked = asked.asked
      BY <1>0, <3>2 DEF RunState, Op
    <3> HIDE DEF me
    <3> QED
      BY <1>3, <2>1, <3>2, <3>3, <3>4
  <2>5. CASE Cancel
    <3> DEFINE me == [run[op.run] EXCEPT !.cancel = TRUE]
    <3>1. /\ me \in RunState /\ me.pending = run[op.run].pending
          /\ me.round = run[op.run].round /\ me.asked = run[op.run].asked
          /\ me.outcome = run[op.run].outcome
      BY <2>1 DEF RunState
    <3>2. run' = [run EXCEPT ![op.run] = me]
      BY <2>5 DEF Cancel
    <3> HIDE DEF me
    <3> QED
      BY <1>3, <2>1, <2>2, <3>1, <3>2
  <2>6. CASE Resolve
    <3>1. ASSUME NEW i, run' = [run EXCEPT ![op.run].pending = @ \ {i}]
          PROVE  AskedInv' /\ \A r \in Run : StaysFinished(r)
      <4> DEFINE me == [run[op.run] EXCEPT !.pending = @ \ {i}]
      <4>1. /\ me \in RunState /\ me.pending \subseteq run[op.run].pending
            /\ me.round = run[op.run].round /\ me.asked = run[op.run].asked
            /\ me.outcome = run[op.run].outcome
        BY <2>1 DEF RunState
      <4>2. run' = [run EXCEPT ![op.run] = me]
        BY <3>1
      <4> HIDE DEF me
      <4> QED
        BY <1>3, <2>1, <2>2, <4>1, <4>2
    <3> QED
      BY <1>1, <2>6, <3>1 DEF Resolve
  <2> QED
    BY <1>5, <2>3, <2>4, <2>5, <2>6
<1>6. CASE Erase \/ ForgetRun
  BY <1>2, <1>6 DEF Erase, ForgetRun
<1>7. CASE ~(Submit \/ Ask \/ End \/ Cancel \/ Resolve \/ Erase \/ ForgetRun)
  <2>1. run' = run
    BY <1>7 DEF Next, vars, Request, Admit, Start, Reference, Resume, Delivered, Wait,
                Suspended, Commit, Stop, LetGo, Delete, ForgetThread, ForgetDelivery,
                Fail, Crash
  <2> QED
    BY <1>1, <2>1
<1> QED
  BY <1>4, <1>5, <1>6, <1>7

(* A turn that may be told stays one. *)
LEMMA ReachedStays ==
  ASSUME NEW r, NEW answered, Finished(r), Reaches(answered, r),
         \A q \in Run : StaysFinished(q)
  PROVE  /\ r \in Run /\ run'[r].state \in {"ended", "deleted"}
         /\ answered # {} => answered \cap run'[r].round # {}
PROOF BY DEF Finished, Reaches, StaysFinished

(* A turn is answered by the operation that committed it, or again from    *)
(* its delivery.                                                           *)
LEMMA ReplyTells ==
  ASSUME TypeInv, ToldInv, \A r \in Run : StaysFinished(r), [Next]_vars
  PROVE  (reply.kind = "turn" =>
            Finished(reply.run) /\ Reaches(reply.answered, reply.run))'
PROOF
<1> USE DEF Finished, Reaches
<1>0. op \in Op
  BY DEF TypeInv, TurnTypeOK
<1>1. CASE reply' = reply
  BY <1>1, ReachedStays DEF ToldInv
<1>2. CASE reply'.kind # "turn"
  BY <1>2
<1>3. ASSUME NEW kind, kind # "turn", Answer(kind)
      PROVE  reply'.kind # "turn"
  BY <1>3 DEF Answer
<1>4. CASE Request
  <2>1. reply' = Silence
    BY <1>4 DEF Request, Admit
  <2> QED
    BY <1>2, <2>1 DEF Silence
<1>5. CASE LetGo \/ ForgetDelivery
  <2>1. CASE op.next = "idle" /\ op.out = "turn"
    <3>1. op.pc = "letGo"
      BY <1>5, <2>1 DEF LetGo, ForgetDelivery, ToldInv
    <3>2. reply'.run = op.run /\ reply'.answered = op.answered
      BY <1>5, <2>1, <3>1 DEF LetGo, ForgetDelivery, Answer
    <3> QED
      BY <2>1, <3>2, ReachedStays DEF ToldInv
  <2>2. CASE op.next # "idle" \/ op.out # "turn"
    BY <1>1, <1>2, <1>3, <1>5, <2>2 DEF LetGo, ForgetDelivery
  <2> QED
    BY <2>1, <2>2
<1>6. CASE Delivered
  <2>1. CASE delivery # None /\ delivery.answered = op.answered
    <3>1. reply'.run = delivery.turn /\ reply'.answered = delivery.answered
      BY <1>6, <2>1 DEF Delivered
    <3> QED
      BY <2>1, <3>1, ReachedStays DEF ToldInv
  <2> QED
    BY <1>2, <1>3, <1>6, <2>1 DEF Delivered
<1>7. CASE Reference \/ Resume \/ Suspended \/ Fail
  <2>1. reply' = reply \/ Answer("refused") \/ Answer("pending") \/ Answer("state")
    BY <1>7 DEF Reference, Resume, ResumeEnded, ResumeOpen, Suspended, Fail
  <2> QED
    BY <1>1, <1>2, <1>3, <2>1
<1>8. CASE ~(Request \/ LetGo \/ ForgetDelivery \/ Delivered \/ Reference \/ Resume
             \/ Suspended \/ Fail)
  <2>1. reply' = reply
    BY <1>8 DEF Next, vars, Start, Submit, Resolve, Ask, Wait, End, Cancel, Commit, Stop,
                Erase, Delete, ForgetRun, ForgetThread, Crash
  <2> QED
    BY <1>1, <2>1
<1> QED
  BY <1>4, <1>5, <1>6, <1>7, <1>8

(* A turn is kept for a repetition by the commit it ended in. *)
LEMMA DeliveryKeeps ==
  ASSUME TypeInv, ChatInv, ToldInv, DrivenInv, \A r \in Run : StaysFinished(r),
         [Next]_vars
  PROVE  (delivery # None =>
            Finished(delivery.turn) /\ Reaches(delivery.answered, delivery.turn))'
PROOF
<1> USE DEF Finished, Reaches
<1>1. CASE delivery' = delivery
  BY <1>1, ReachedStays DEF ToldInv
<1>2. CASE Commit
  <2>1. Finished(op.run) /\ Reaches(op.answered, op.run)
    BY <1>2 DEF Commit, Working, TypeInv, MemoryInv, ChatInv, ProgressInv, DrivenInv
  <2>2. delivery'.turn = op.run /\ delivery'.answered = op.answered
    BY <1>2 DEF Commit
  <2> QED
    BY <2>1, <2>2, ReachedStays
<1>3. CASE ForgetDelivery
  BY <1>3 DEF ForgetDelivery
<1>4. CASE ~(Commit \/ ForgetDelivery)
  <2>1. delivery' = delivery
    BY <1>4 DEF Next, vars, Request, Admit, Start, Reference, Resume, Delivered, Submit,
                Resolve, Ask, Wait, End, Cancel, Suspended, Stop, Erase, LetGo, Delete,
                ForgetRun, ForgetThread, Fail, Crash
  <2> QED
    BY <1>1, <2>1
<1> QED
  BY <1>2, <1>3, <1>4

(* An operation answers a turn once it committed it. *)
LEMMA OutKeeps ==
  ASSUME TypeInv, OrphanInv, ChatInv, ToldInv, DrivenInv, \A r \in Run : StaysFinished(r),
         [Next]_vars
  PROVE  (op.out = "turn" =>
            /\ op.pc \in {"erase", "letGo"} /\ op.next = "idle"
            /\ Finished(op.run) /\ Reaches(op.answered, op.run))'
PROOF
<1> USE DEF Finished, Reaches
<1>0. op \in Op
  BY DEF TypeInv, TurnTypeOK
<1>1. CASE op'.out # "turn"
  BY <1>1
<1>2. CASE op' = Idle
  BY <1>1, <1>2 DEF Idle
<1>3. ASSUME op'.out = op.out, op.pc \notin {"erase", "letGo"}
      PROVE  op'.out # "turn"
  BY <1>3 DEF ToldInv
<1>4. CASE Request
  <2>1. PICK pc, scope, answered : Admit(pc, scope, answered)
    BY <1>4 DEF Request
  <2>2. op'.out = "stopped"
    BY <2>1 DEF Admit, Idle
  <2> QED
    BY <1>1, <2>2
<1>5. CASE Start \/ Resume \/ Delete
  <2>1. op'.out = op.out \/ op'.out \in {"stopped", "refused", "deleted"}
    <3>1. ASSUME NEW next, NEW out, Forget(next, out)
          PROVE  op'.out = out
      BY <1>0, <3>1 DEF Forget, Op
    <3>2. ASSUME NEW next, op' = Reconciling(next, "stopped")
          PROVE  op'.out = "stopped"
      BY <1>0, <3>2 DEF Reconciling, Op
    <3>3. CASE Start
      BY <1>0, <3>1, <3>2, <3>3 DEF Start, Goto, Op
    <3>4. CASE Delete
      BY <3>1, <3>4 DEF Delete
    <3>5. CASE Resume
      <4>1. CASE Answer("refused")
        BY <4>1 DEF Answer, Idle
      <4>2. CASE op.thread # None /\ ResumeEnded(op.thread.open)
        BY <1>0, <3>2, <4>1, <4>2 DEF ResumeEnded, Op
      <4>3. CASE op.thread # None /\ ResumeOpen(op.thread.open)
        BY <1>0, <3>1, <3>2, <4>1, <4>3 DEF ResumeOpen, Op
      <4> QED
        BY <1>0, <3>5, <4>1, <4>2, <4>3 DEF Resume, Goto, Op
    <3> QED
      BY <1>5, <3>3, <3>4, <3>5
  <2>2. op.pc \notin {"erase", "letGo"}
    BY <1>5 DEF Start, Resume, Delete
  <2> QED
    BY <1>1, <1>3, <2>1, <2>2
<1>6. CASE Reference
  <2>1. op'.out = op.out \/ op' = Idle
    BY <1>0, <1>6 DEF Reference, Answer, Op
  <2> QED
    BY <1>1, <1>2, <1>3, <1>6, <2>1 DEF Reference
<1>7. CASE Submit \/ Resolve \/ Ask \/ Wait \/ End \/ Cancel \/ ForgetRun \/ ForgetThread
  <2>1. op'.out = op.out
    BY <1>0, <1>7 DEF Submit, Resolve, Ask, Wait, End, Cancel, ForgetRun, ForgetThread, Goto, Op
  <2>2. op.pc \notin {"erase", "letGo"}
    BY <1>7 DEF Submit, Resolve, Ask, Wait, End, Cancel, ForgetRun, ForgetThread
  <2> QED
    BY <1>1, <1>3, <2>1, <2>2
<1>8. CASE Commit
  <2>1. Finished(op.run) /\ Reaches(op.answered, op.run)
    BY <1>8 DEF Commit, Working, TypeInv, MemoryInv, ChatInv, ProgressInv, DrivenInv
  <2>2. /\ op'.pc = "erase" /\ op'.next = "idle"
        /\ op'.run = op.run /\ op'.answered = op.answered
    BY <1>0, <1>8 DEF Commit, Reconciling, Op
  <2> QED
    BY <2>1, <2>2, ReachedStays
<1>9. CASE Stop
  BY <1>0, <1>1, <1>9 DEF Stop, Reconciling, Op
<1>10. CASE Erase
  <2>1. /\ op'.pc = "letGo" /\ op'.next = op.next /\ op'.out = op.out
        /\ op'.run = op.run /\ op'.answered = op.answered
    BY <1>0, <1>10 DEF Erase, Goto, Op
  <2> QED
    BY <2>1, ReachedStays DEF ToldInv
<1>11. CASE LetGo \/ ForgetDelivery
  <2>1. CASE op.next = "idle"
    BY <1>2, <1>11, <2>1 DEF LetGo, ForgetDelivery, Answer
  <2>2. CASE op.next # "idle"
    <3>1. op'.out = op.out
      BY <1>0, <1>11, <2>2 DEF LetGo, ForgetDelivery, Op
    <3> QED
      BY <1>1, <2>2, <3>1 DEF ToldInv
  <2> QED
    BY <2>1, <2>2
<1>12. CASE Suspended \/ Delivered \/ Fail \/ Crash
  BY <1>2, <1>12 DEF Suspended, Delivered, Fail, Crash, Answer
<1>13. CASE UNCHANGED vars
  <2>1. op' = op
    BY <1>13 DEF vars
  <2> QED
    BY <2>1, ReachedStays DEF ToldInv
<1> QED
  BY <1>4, <1>5, <1>6, <1>7, <1>8, <1>9, <1>10, <1>11, <1>12, <1>13 DEF Next

(* A resume drives its run only to a round it answers, or with a request   *)
(* still open.                                                             *)
LEMMA DrivenStep ==
  ASSUME TypeInv, OrphanInv, ChatInv, AskedInv, DrivenInv, QuestionInv,
         \A r \in Run : StaysFinished(r), AskedInv', [Next]_vars
  PROVE  DrivenInv'
PROOF
<1> USE DEF Reaches
<1>0. op \in Op /\ run \in [Run -> RunState]
  BY DEF TypeInv, TurnTypeOK
<1>1. CASE op'.pc \notin {"resolve", "drive", "ended"}
  BY <1>1 DEF DrivenInv
<1>2. CASE Submit
  <2>1. op'.answered = {} /\ op'.pc = "drive"
    BY <1>0, <1>2 DEF Submit, Goto, QuestionInv, Op
  <2> QED
    BY <2>1 DEF DrivenInv
<1>3. CASE Resume
  <2>1. /\ op.pc = "resume" /\ run' = run /\ op.thread = thread
        /\ thread \in Thread \cup {None}
    BY <1>3 DEF Resume, OrphanInv, LoadedInv, TypeInv, TurnTypeOK
  <2>2. CASE Answer("refused")
    BY <1>1, <2>2 DEF Answer, Idle
  <2>3. CASE op.thread = None
    BY <1>3, <2>2, <2>3 DEF Resume
  <2>4. CASE op.thread # None /\ (op.thread.open = None \/ ~Held(op.thread.open))
    BY <1>0, <1>1, <1>3, <2>4 DEF Resume, Goto, Op
  <2>5. CASE op.thread # None /\ ResumeEnded(op.thread.open)
    <3>1. CASE Finishes(op.thread.open) /\ op' = [op EXCEPT !.pc = "ended", !.run = op.thread.open]
      <4>1. op'.pc = "ended" /\ op'.run = op.thread.open /\ op'.answered = op.answered
        BY <1>0, <3>1 DEF Op
      <4>2. op'.answered = run'[op'.run].round
        BY <2>1, <3>1, <4>1 DEF Finishes
      <4> QED
        BY <4>1, <4>2 DEF DrivenInv
    <3>2. CASE op' = Reconciling("delivered", "stopped")
      BY <1>0, <1>1, <3>2 DEF Reconciling, Op
    <3> QED
      BY <2>2, <2>5, <3>1, <3>2 DEF ResumeEnded
  <2>6. CASE op.thread # None /\ ResumeOpen(op.thread.open)
    <3>1. CASE op' = Reconciling("delivered", "stopped")
      BY <1>0, <1>1, <3>1 DEF Reconciling, Op
    <3>2. CASE Forget("idle", "refused")
      BY <1>1, <3>2, ForgetTyped
    <3>3. CASE /\ run[op.thread.open].pending # {} \/ Finishes(op.thread.open)
               /\ op' = [op EXCEPT !.pc = "resolve", !.run = op.thread.open]
      <4>1. op'.pc = "resolve" /\ op'.run = op.thread.open /\ op'.answered = op.answered
        BY <1>0, <3>3 DEF Op
      <4> QED
        BY <2>1, <3>3, <4>1 DEF DrivenInv, Finishes
    <3> QED
      BY <2>2, <2>6, <3>1, <3>2, <3>3 DEF ResumeOpen
  <2> QED
    BY <1>3, <2>3, <2>4, <2>5, <2>6 DEF Resume
<1>4. CASE Resolve
  <2>1. op.pc = "resolve" /\ op.run \in Run /\ op'.run = op.run /\ op'.answered = op.answered
    BY <1>0, <1>4 DEF Resolve, Goto, Op, Working, TypeInv, MemoryInv
  <2>2. op'.pc \in {"resolve", "drive"}
    BY <1>0, <1>4 DEF Resolve, Goto, Op
  <2>3. ASSUME NEW i \in op.answered \cap run[op.run].pending,
               run' = [run EXCEPT ![op.run].pending = @ \ {i}]
        PROVE  DrivenInv'
    <3>1. run'[op.run].round = run[op.run].round
      BY <1>0, <2>1, <2>3 DEF RunState
    <3>2. i \in run[op.run].round
      BY <2>1 DEF AskedInv
    <3> QED
      BY <2>1, <2>2, <3>1, <3>2 DEF DrivenInv
  <2>4. CASE run' = run
    BY <2>1, <2>2, <2>4 DEF DrivenInv
  <2> QED
    BY <1>4, <2>3, <2>4 DEF Resolve
<1>5. CASE End
  <2>1. /\ op.pc = "drive" /\ op.run \in Run /\ run[op.run] \in RunState
        /\ op'.pc = "ended" /\ op'.run = op.run /\ op'.answered = op.answered
    BY <1>0, <1>5 DEF End, Goto, Op, Working, TypeInv, MemoryInv
  <2>2. PICK out \in Outcome, new \in {{}} \cup NewRounds(op.run) :
          /\ out = "cancelled" <=> run[op.run].cancel
          /\ out \in {"done", "failed"} => run[op.run].pending = {}
          /\ new # {} => run[op.run].cancel /\ run[op.run].pending = {}
          /\ run' = [run EXCEPT ![op.run] =
                       [WithRound(run[op.run], new) EXCEPT !.state = "ended",
                          !.outcome = out, !.finisher = op.answered]]
    BY <1>5 DEF End
  <2>3. new \in SUBSET Interrupt
    BY <2>1, <2>2, NewRoundsTyped
  <2> DEFINE asked == WithRound(run[op.run], new)
             me == [asked EXCEPT !.state = "ended", !.outcome = out,
                                 !.finisher = op.answered]
  <2>4. asked \in RunState /\ (new = {} => asked = run[op.run])
    BY <2>1, <2>3, WithRoundTyped DEF WithRound
  <2>5. run'[op.run] = me
    BY <1>0, <2>1, <2>2
  <2> HIDE DEF asked
  <2>6. me.outcome = out /\ me.round = asked.round
    BY <2>4 DEF RunState
  <2> HIDE DEF me
  <2>7. out = "done" => new = {} /\ run[op.run].pending = {}
    BY <2>2
  <2>8. out = "done" => Reaches(op.answered, op.run)
    BY <2>1, <2>7 DEF DrivenInv
  <2> QED
    BY <2>1, <2>4, <2>5, <2>6, <2>7, <2>8 DEF DrivenInv
<1>6. CASE Cancel
  <2>1. op' = op /\ op.run \in Run /\ op.pc \in {"drive", "suspended"}
    BY <1>6 DEF Cancel, Working, TypeInv, MemoryInv
  <2>2. run'[op.run].pending = run[op.run].pending /\ run'[op.run].round = run[op.run].round
    BY <1>0, <1>6, <2>1 DEF Cancel, RunState
  <2> QED
    BY <2>1, <2>2 DEF DrivenInv
<1>7. CASE Request
  <2>1. PICK pc, scope, answered : pc \in {"start", "delete", "resume"} /\ Admit(pc, scope, answered)
    BY <1>7 DEF Request
  <2>2. op'.pc = pc
    BY <2>1 DEF Admit, Idle
  <2> QED
    BY <1>1, <2>1, <2>2
<1>8. CASE Start \/ Delete
  <2>1. op'.pc \in {"forgetRun", "forgetThread", "reference", "erase"}
    BY <1>0, <1>8, ForgetTyped DEF Start, Delete, Goto, Reconciling, Op
  <2> QED
    BY <1>1, <2>1
<1>9. CASE Reference
  <2>1. CASE Answer("refused")
    BY <1>1, <2>1 DEF Answer, Idle
  <2>2. ASSUME NEW r, NEW kept,
               op' = [op EXCEPT !.pc = "submit", !.run = r,
                                !.thread = Naming(@, r, kept), !.kept = kept]
        PROVE  op'.pc = "submit"
    BY <1>0, <2>2 DEF Op
  <2> QED
    BY <1>1, <1>9, <2>1, <2>2 DEF Reference
<1>10. CASE Ask \/ Wait \/ Commit \/ Stop \/ Erase \/ ForgetRun \/ ForgetThread
  BY <1>0, <1>1, <1>10
     DEF Ask, Wait, Commit, Stop, Erase, ForgetRun, ForgetThread, Goto, Reconciling, Op
<1>11. CASE LetGo \/ ForgetDelivery
  <2>1. CASE op.next = "idle"
    BY <1>1, <1>11, <2>1 DEF LetGo, ForgetDelivery, Answer, Idle
  <2>2. CASE op.next # "idle"
    <3>1. op'.pc = op.next
      BY <1>0, <1>11, <2>2 DEF LetGo, ForgetDelivery, Op
    <3> QED
      BY <1>0, <1>1, <2>2, <3>1 DEF Op
  <2> QED
    BY <2>1, <2>2
<1>12. CASE Suspended \/ Delivered \/ Fail \/ Crash
  BY <1>1, <1>12 DEF Suspended, Delivered, Fail, Crash, Answer, Idle
<1>13. CASE UNCHANGED vars
  BY <1>13 DEF vars, DrivenInv
<1> QED
  BY <1>2, <1>3, <1>4, <1>5, <1>6, <1>7, <1>8, <1>9, <1>10, <1>11, <1>12, <1>13 DEF Next

(* The rounds and the turns they are told of, together. *)
LEMMA RoundStep ==
  ASSUME TypeInv, OrphanInv, ChatInv, RoundInv, QuestionInv, [Next]_vars
  PROVE  RoundInv'
PROOF
<1>1. AskedInv' /\ \A r \in Run : StaysFinished(r)
  BY RunStep DEF RoundInv
<1>2. ToldInv'
  BY <1>1, ReplyTells, DeliveryKeeps, OutKeeps DEF RoundInv, ToldInv
<1>3. DrivenInv'
  BY <1>1, DrivenStep DEF RoundInv
<1> QED
  BY <1>1, <1>2, <1>3 DEF RoundInv

-----------------------------------------------------------------------------
(* A repeated resume and its turn *)

(* What an operation that returned, or goes on unanswered, keeps. *)
LEMMA QuestionStep ==
  ASSUME TypeInv, OrphanInv, ChatInv, QuestionInv, [Next]_vars
  PROVE  QuestionInv'
PROOF
<1>0. op \in Op /\ thread \in Thread \cup {None}
  BY DEF TypeInv, TurnTypeOK
<1>1. CASE op' = Idle
  BY <1>1 DEF QuestionInv, Idle
<1>2. CASE Request
  <2>1. PICK pc, scope, answered : pc \in {"start", "delete", "resume"} /\
          Admit(pc, scope, answered) /\ (pc # "resume" => answered = {})
    BY <1>2 DEF Request
  <2>2. /\ op'.pc = pc /\ op'.answered = answered /\ op'.out = "stopped"
        /\ op'.next = "idle" /\ reply' = Silence
    BY <2>1 DEF Admit, Idle
  <2> QED
    BY <2>1, <2>2 DEF QuestionInv
<1>3. ASSUME op.pc # "idle", reply' = reply, op'.answered = op.answered,
             \/ op'.next = op.next
             \/ op'.next # "reference"
             \/ op.answered = {},
             \/ op'.pc \notin {"start", "delete", "reference", "submit"}
             \/ op.answered = {},
             op'.out = "refused" =>
               /\ op'.pc \in {"forgetRun", "forgetThread", "forgetDelivery"}
               /\ op'.next = "idle",
             op'.pc = "delivered" => thread' # None /\ thread'.open = None
      PROVE  QuestionInv'
  BY <1>3 DEF QuestionInv
<1>4. ASSUME op.pc # "idle", reply' = reply, op'.answered = op.answered, op'.next = op.next,
             op'.out = op.out, op.pc \notin {"forgetRun", "forgetThread", "forgetDelivery"},
             op'.pc \notin {"start", "delete", "reference", "submit", "delivered"}
      PROVE  QuestionInv'
  BY <1>4 DEF QuestionInv
<1>5. ASSUME NEW next, NEW out, Forget(next, out)
      PROVE  /\ op'.pc \in {"forgetRun", "forgetThread"}
             /\ op'.next = next /\ op'.out = out /\ op'.answered = op.answered
  <2> DEFINE pc == IF thread # None /\ thread.open # None THEN "forgetRun"
                   ELSE "forgetThread"
  <2>1. op' = [op EXCEPT !.next = next, !.out = out, !.pc = pc]
    BY <1>5 DEF Forget
  <2>2. pc \in {"forgetRun", "forgetThread"}
    OBVIOUS
  <2> HIDE DEF pc
  <2> QED
    BY <1>0, <2>1, <2>2 DEF Op
<1>6. ASSUME NEW next, NEW out, op' = Reconciling(next, out)
      PROVE  /\ op'.pc = "erase"
             /\ op'.next = next /\ op'.out = out /\ op'.answered = op.answered
  BY <1>0, <1>6 DEF Reconciling, Op
<1>7. CASE Delete
  <2>1. op.pc = "delete" /\ op.answered = {} /\ reply' = reply
    BY <1>7 DEF Delete, QuestionInv
  <2> QED
    BY <1>3, <1>5, <1>7, <2>1 DEF Delete
<1>8. CASE Start
  <2>1. op.pc = "start" /\ op.answered = {} /\ reply' = reply /\ op.out # "refused"
    BY <1>8 DEF Start, QuestionInv
  <2>2. CASE op'.pc = "reference" /\ op'.answered = op.answered /\ op'.out = op.out
    BY <1>3, <2>1, <2>2
  <2>3. CASE Forget("reference", "stopped")
    BY <1>3, <1>5, <2>1, <2>3
  <2>4. CASE op' = Reconciling("reference", "stopped")
    BY <1>3, <1>6, <2>1, <2>4
  <2> QED
    BY <1>0, <1>8, <2>2, <2>3, <2>4 DEF Start, Goto, Op
<1>9. CASE Reference
  <2>1. CASE Answer("refused")
    BY <1>1, <2>1 DEF Answer
  <2>2. ASSUME NEW r, NEW kept, reply' = reply,
               op' = [op EXCEPT !.pc = "submit", !.run = r,
                                !.thread = Naming(@, r, kept), !.kept = kept]
        PROVE  QuestionInv'
    <3>1. /\ op'.pc = "submit" /\ op'.answered = op.answered
          /\ op'.out = op.out /\ op'.next = op.next
      BY <1>0, <2>2 DEF Op
    <3>2. op.pc = "reference" /\ op.answered = {} /\ op.out # "refused"
      BY <1>9 DEF Reference, QuestionInv
    <3> QED
      BY <1>3, <2>2, <3>1, <3>2
  <2> QED
    BY <1>9, <2>1, <2>2 DEF Reference
<1>10. CASE Submit \/ Resolve \/ Ask \/ Wait \/ End \/ Cancel
  <2>1. /\ op.pc \in {"submit", "resolve", "drive", "suspended"} /\ reply' = reply
        /\ op'.answered = op.answered /\ op'.next = op.next /\ op'.out = op.out
        /\ op'.pc \in {"resolve", "drive", "suspended", "ended"}
    BY <1>0, <1>10 DEF Submit, Resolve, Ask, Wait, End, Cancel, Goto, Op
  <2> QED
    BY <1>4, <2>1
<1>11. CASE Commit
  <2>1. op.pc = "ended" /\ reply' = reply
    BY <1>11 DEF Commit
  <2>2. /\ op'.pc = "erase" /\ op'.next = "idle" /\ op'.out = "turn"
        /\ op'.answered = op.answered
    BY <1>0, <1>11 DEF Commit, Reconciling, Op
  <2> QED
    BY <1>3, <2>1, <2>2
<1>12. CASE Stop
  <2>1. op.pc = "ended" /\ reply' = reply /\ op' = Reconciling("idle", "stopped")
    BY <1>12 DEF Stop
  <2> QED
    BY <1>3, <1>6, <2>1
<1>13. CASE Erase
  <2>1. /\ op.pc = "erase" /\ reply' = reply
        /\ op'.pc = "letGo" /\ op'.answered = op.answered
        /\ op'.next = op.next /\ op'.out = op.out
    BY <1>0, <1>13 DEF Erase, Goto, Op
  <2> QED
    BY <1>4, <2>1
<1>14. CASE ForgetRun \/ ForgetThread
  <2>1. /\ op.pc # "idle" /\ reply' = reply
        /\ op'.pc \in {"forgetThread", "forgetDelivery"} /\ op'.answered = op.answered
        /\ op'.next = op.next /\ op'.out = op.out
    BY <1>0, <1>14 DEF ForgetRun, ForgetThread, Goto, Op
  <2>2. op.out = "refused" => op.next = "idle"
    BY DEF QuestionInv
  <2> QED
    BY <1>3, <2>1, <2>2
<1>15. CASE LetGo
  <2>1. CASE op.next = "idle"
    BY <1>1, <1>15, <2>1 DEF LetGo, Answer
  <2>2. CASE op.next # "idle"
    <3>1. /\ op.pc = "letGo" /\ reply' = reply /\ op.thread \in Thread
          /\ thread' = [op.thread EXCEPT !.open = None]
      BY <1>15, <2>2 DEF LetGo, TypeInv, MemoryInv
    <3>2. /\ op'.pc = op.next /\ op'.answered = op.answered
          /\ op'.next = op.next /\ op'.out = op.out
      BY <1>0, <1>15, <2>2 DEF LetGo, Op
    <3>3. thread'.open = None /\ thread' \in Thread
      BY <3>1 DEF Thread
    <3>4. op.out # "refused" /\ (op.next = "reference" => op.answered = {})
      BY <3>1 DEF QuestionInv
    <3>5. op.next \in {"reference", "delivered"}
      BY <1>0, <2>2 DEF Op
    <3> QED
      BY <1>3, <3>1, <3>2, <3>3, <3>4, <3>5, NullAssumption
  <2> QED
    BY <2>1, <2>2
<1>16. CASE ForgetDelivery
  <2>1. CASE op.next = "idle"
    BY <1>1, <1>16, <2>1 DEF ForgetDelivery, Answer
  <2>2. CASE op.next # "idle"
    <3>1. op.pc = "forgetDelivery" /\ op.next = "reference" /\ reply' = reply
      BY <1>0, <1>16, <2>2 DEF ForgetDelivery, TypeInv, MemoryInv, Op
    <3>2. /\ op'.pc = "reference" /\ op'.answered = op.answered
          /\ op'.next = op.next /\ op'.out = op.out
      BY <1>0, <1>16, <3>1 DEF ForgetDelivery, Op
    <3>3. op.answered = {} /\ op.out # "refused"
      BY <3>1 DEF QuestionInv
    <3> QED
      BY <1>3, <3>1, <3>2, <3>3
  <2> QED
    BY <2>1, <2>2
<1>17. CASE Resume
  <2>1. /\ op.pc = "resume" /\ op.thread = thread /\ thread' = thread
        /\ op.out # "refused"
    BY <1>17 DEF Resume, OrphanInv, LoadedInv, QuestionInv
  <2>2. CASE Answer("refused")
    BY <1>1, <2>2 DEF Answer
  <2>3. CASE op' = Reconciling("delivered", "stopped") /\ reply' = reply
    BY <1>3, <1>6, <2>1, <2>3
  <2>4. CASE op.thread = None
    BY <1>17, <2>2, <2>4 DEF Resume
  <2>5. CASE op.thread # None /\ op.thread.open = None
    <3>1. /\ reply' = reply /\ op'.pc = "delivered" /\ op'.answered = op.answered
          /\ op'.next = op.next /\ op'.out = op.out
      BY <1>0, <1>17, <2>5 DEF Resume, Goto, Op
    <3> QED
      BY <1>3, <2>1, <2>5, <3>1
  <2>6. CASE op.thread # None /\ op.thread.open # None /\ ~Held(op.thread.open)
    <3>1. /\ reply' = reply /\ op'.pc = "letGo" /\ op'.answered = op.answered
          /\ op'.next = "delivered" /\ op'.out = op.out
      BY <1>0, <1>17, <2>6 DEF Resume, Op
    <3> QED
      BY <1>3, <2>1, <3>1
  <2>7. CASE op.thread # None /\ ResumeEnded(op.thread.open)
    <3>1. CASE /\ op' = [op EXCEPT !.pc = "ended", !.run = op.thread.open]
               /\ reply' = reply
      <4>1. /\ op'.pc = "ended" /\ op'.answered = op.answered
            /\ op'.next = op.next /\ op'.out = op.out
        BY <1>0, <3>1 DEF Op
      <4> QED
        BY <1>4, <2>1, <3>1, <4>1
    <3> QED
      BY <2>2, <2>3, <2>7, <3>1 DEF ResumeEnded
  <2>8. CASE op.thread # None /\ ResumeOpen(op.thread.open)
    <3>1. CASE /\ op' = [op EXCEPT !.pc = "resolve", !.run = op.thread.open]
               /\ reply' = reply
      <4>1. /\ op'.pc = "resolve" /\ op'.answered = op.answered
            /\ op'.next = op.next /\ op'.out = op.out
        BY <1>0, <3>1 DEF Op
      <4> QED
        BY <1>4, <2>1, <3>1, <4>1
    <3>2. CASE Forget("idle", "refused") /\ reply' = reply
      BY <1>3, <1>5, <2>1, <3>2
    <3> QED
      BY <2>2, <2>3, <2>8, <3>1, <3>2 DEF ResumeOpen
  <2> QED
    BY <1>17, <2>4, <2>5, <2>6, <2>7, <2>8 DEF Resume
<1>18. CASE Suspended \/ Delivered \/ Fail \/ Crash
  BY <1>1, <1>18 DEF Suspended, Delivered, Fail, Crash, Answer
<1>19. CASE UNCHANGED vars
  BY <1>19 DEF vars, QuestionInv
<1> QED
  BY <1>2, <1>7, <1>8, <1>9, <1>10, <1>11, <1>12, <1>13, <1>14, <1>15, <1>16, <1>17, <1>18,
     <1>19 DEF Next

(* An operation that ends a run is the resume that drove it, or one that   *)
(* names its whole last round.                                             *)
LEMMA FinisherStep ==
  ASSUME TypeInv, OrphanInv, ChatInv, FinishInv, \A r \in Run : StaysFinished(r),
         [Next]_vars
  PROVE  (op.pc = "ended" =>
            run[op.run].finisher = op.answered \/ op.answered = run[op.run].round)'
PROOF
<1>0. op \in Op /\ run \in [Run -> RunState]
  BY DEF TypeInv, TurnTypeOK
<1>1. CASE op'.pc # "ended"
  BY <1>1
<1>2. CASE End
  <2>1. /\ op.run \in Run /\ run[op.run] \in RunState
        /\ op'.run = op.run /\ op'.answered = op.answered
    BY <1>0, <1>2 DEF End, Goto, Op, Working, TypeInv, MemoryInv
  <2>2. PICK out \in Outcome, new \in {{}} \cup NewRounds(op.run) :
          run' = [run EXCEPT ![op.run] =
                    [WithRound(run[op.run], new) EXCEPT !.state = "ended",
                       !.outcome = out, !.finisher = op.answered]]
    BY <1>2 DEF End
  <2> DEFINE asked == WithRound(run[op.run], new)
  <2>3. asked \in RunState
    BY <2>1, NewRoundsTyped, WithRoundTyped
  <2>4. run'[op.run] = [asked EXCEPT !.state = "ended", !.outcome = out,
                                     !.finisher = op.answered]
    BY <1>0, <2>1, <2>2
  <2> HIDE DEF asked
  <2>5. run'[op.run].finisher = op.answered
    BY <2>3, <2>4 DEF RunState
  <2> QED
    BY <2>1, <2>5
<1>3. CASE Resume
  <2>1. CASE Answer("refused")
    BY <1>1, <2>1 DEF Answer, Idle
  <2>2. CASE op.thread # None /\ ResumeEnded(op.thread.open)
    <3>1. CASE Finishes(op.thread.open) /\ op' = [op EXCEPT !.pc = "ended", !.run = op.thread.open]
      <4>1. op'.run = op.thread.open /\ op'.answered = op.answered /\ run' = run
        BY <1>0, <1>3, <3>1 DEF Resume, Op
      <4> QED
        BY <3>1, <4>1 DEF Finishes
    <3>2. CASE op' = Reconciling("delivered", "stopped")
      BY <1>0, <1>1, <3>2 DEF Reconciling, Op
    <3> QED
      BY <2>1, <2>2, <3>1, <3>2 DEF ResumeEnded
  <2>3. CASE op.thread # None /\ ResumeOpen(op.thread.open)
    <3>1. CASE Forget("idle", "refused")
      BY <1>1, <3>1, ForgetTyped
    <3>2. CASE op' = Reconciling("delivered", "stopped")
      BY <1>0, <1>1, <3>2 DEF Reconciling, Op
    <3>3. CASE op' = [op EXCEPT !.pc = "resolve", !.run = op.thread.open]
      BY <1>0, <1>1, <3>3 DEF Op
    <3> QED
      BY <2>1, <2>3, <3>1, <3>2, <3>3 DEF ResumeOpen
  <2>4. CASE op.thread # None /\ (op.thread.open = None \/ ~Held(op.thread.open))
    BY <1>0, <1>1, <1>3, <2>4 DEF Resume, Goto, Op
  <2> QED
    BY <1>3, <2>1, <2>2, <2>3, <2>4 DEF Resume
<1>4. CASE Request
  <2>1. PICK pc, scope, answered : pc \in {"start", "delete", "resume"} /\ Admit(pc, scope, answered)
    BY <1>4 DEF Request
  <2>2. op'.pc = pc
    BY <2>1 DEF Admit, Idle
  <2> QED
    BY <1>1, <2>1, <2>2
<1>5. CASE Start \/ Delete
  <2>1. op'.pc \in {"forgetRun", "forgetThread", "reference", "erase"}
    BY <1>0, <1>5, ForgetTyped DEF Start, Delete, Goto, Reconciling, Op
  <2> QED
    BY <1>1, <2>1
<1>6. CASE Reference
  <2>1. ASSUME Answer("refused")
        PROVE  op'.pc # "ended"
    BY <2>1 DEF Answer, Idle
  <2>2. ASSUME NEW r, NEW kept,
               op' = [op EXCEPT !.pc = "submit", !.run = r,
                                !.thread = Naming(@, r, kept), !.kept = kept]
        PROVE  op'.pc # "ended"
    BY <1>0, <2>2 DEF Op
  <2>3. op'.pc # "ended"
    BY <1>6, <2>1, <2>2 DEF Reference
  <2> QED
    BY <1>1, <2>3
<1>7. CASE Submit \/ Resolve \/ Ask \/ Wait \/ Cancel
  <2>1. op'.pc \in {"resolve", "drive", "suspended"}
    BY <1>0, <1>7 DEF Submit, Resolve, Ask, Wait, Cancel, Goto, Op
  <2> QED
    BY <1>1, <2>1
<1>8. CASE Commit \/ Stop \/ Erase \/ ForgetRun \/ ForgetThread
  BY <1>0, <1>1, <1>8
     DEF Commit, Stop, Erase, ForgetRun, ForgetThread, Goto, Reconciling, Op
<1>9. CASE LetGo \/ ForgetDelivery
  <2>1. CASE op.next = "idle"
    BY <1>1, <1>9, <2>1 DEF LetGo, ForgetDelivery, Answer, Idle
  <2>2. CASE op.next # "idle"
    <3>1. op'.pc = op.next
      BY <1>0, <1>9, <2>2 DEF LetGo, ForgetDelivery, Op
    <3> QED
      BY <1>0, <1>1, <2>2, <3>1 DEF Op
  <2> QED
    BY <2>1, <2>2
<1>10. CASE Suspended \/ Delivered \/ Fail \/ Crash
  BY <1>1, <1>10 DEF Suspended, Delivered, Fail, Crash, Answer, Idle
<1>11. CASE UNCHANGED vars
  BY <1>11 DEF vars, FinishInv
<1> QED
  BY <1>2, <1>3, <1>4, <1>5, <1>6, <1>7, <1>8, <1>9, <1>10, <1>11 DEF Next

(* The thread's last turn keeps its delivery as long as the thread has it. *)
LEMMA DeliveredStep ==
  ASSUME TypeInv, OrphanInv, ChatInv, FinishInv, \A r \in Run : StaysFinished(r),
         [Next]_vars
  PROVE  (thread # None /\ thread.committed # None /\ Whole(thread.committed) =>
            delivery # None /\ delivery.answered = run[thread.committed].round)'
PROOF
<1>0. op \in Op /\ thread \in Thread \cup {None}
  BY DEF TypeInv, TurnTypeOK
<1>1. ASSUME thread # None, thread'.committed = thread.committed, delivery' = delivery,
             thread.committed # None, Whole(thread.committed)'
      PROVE  delivery' # None /\ delivery'.answered = run'[thread'.committed].round
  <2>1. thread.committed \in Run
    BY <1>0, <1>1 DEF Thread
  <2>2. Finished(thread.committed)
    BY <1>1, <2>1 DEF ChatInv, CommitInv, Finished
  <2>3. /\ run'[thread.committed].round = run[thread.committed].round
        /\ run'[thread.committed].finisher = run[thread.committed].finisher
    BY <2>1, <2>2 DEF StaysFinished
  <2>4. run'[thread.committed].finisher = run'[thread.committed].round
        /\ run'[thread.committed].round # {}
    BY <1>1 DEF Whole
  <2> QED
    BY <1>1, <2>3, <2>4 DEF FinishInv, Whole
<1>2. CASE thread' = thread /\ delivery' = delivery
  BY <1>1, <1>2 DEF Whole
<1>3. CASE Commit
  <2>1. /\ op.pc = "ended" /\ op.run \in Run /\ op.thread \in Thread
        /\ run' = run /\ delivery' = [answered |-> op.answered, turn |-> op.run]
        /\ thread' = [op.thread EXCEPT !.history = Append(run[op.run].base, op.run),
                                       !.committed = op.run]
    BY <1>3 DEF Commit, Working, TypeInv, MemoryInv
  <2>2. thread'.committed = op.run /\ delivery'.answered = op.answered
    BY <2>1 DEF Thread
  <2>3. delivery' # None
    <3>1. delivery' \in Delivery
      BY <1>0, <2>1 DEF Op, Delivery
    <3> QED
      BY <3>1, NullAssumption
  <2>4. run[op.run].finisher = op.answered \/ op.answered = run[op.run].round
    BY <2>1 DEF FinishInv
  <2> QED
    BY <2>1, <2>2, <2>3, <2>4 DEF Whole
<1>4. CASE LetGo
  <2>1. /\ op.thread = thread /\ thread \in Thread /\ thread # None
        /\ thread' = [thread EXCEPT !.open = None] /\ delivery' = delivery
    BY <1>4, NullAssumption DEF LetGo, TypeInv, MemoryInv, ChatInv, ProgressInv
  <2>2. thread'.committed = thread.committed
    BY <2>1 DEF Thread
  <2> QED
    BY <1>1, <2>1, <2>2 DEF Whole
<1>5. CASE Reference
  <2>1. CASE thread' = thread
    BY <1>2, <1>5, <2>1 DEF Reference
  <2>2. ASSUME NEW r, NEW kept, thread' = Naming(op.thread, r, kept)
        PROVE  (thread # None /\ thread.committed # None /\ Whole(thread.committed) =>
                 delivery # None /\ delivery.answered = run[thread.committed].round)'
    <3>1. op.thread \in Thread /\ delivery' = delivery /\ op.pc = "reference"
      BY <1>5 DEF Reference, TypeInv, MemoryInv
    <3>2. thread'.committed = op.thread.committed
      BY <2>2, <3>1 DEF Naming, Thread
    <3>3. CASE thread = None
      BY <3>1, <3>2, <3>3 DEF ChatInv, ProgressInv
    <3>4. CASE thread # None
      BY <1>1, <3>1, <3>2, <3>4 DEF ChatInv, ProgressInv, Whole
    <3> QED
      BY <3>3, <3>4
  <2> QED
    BY <1>5, <2>1, <2>2 DEF Reference
<1>6. CASE ForgetThread
  BY <1>6 DEF ForgetThread
<1>7. CASE ForgetDelivery
  BY <1>7 DEF ForgetDelivery, ChatInv, ProgressInv
<1>8. CASE ~(Commit \/ LetGo \/ Reference \/ ForgetThread \/ ForgetDelivery)
  <2>1. thread' = thread /\ delivery' = delivery
    BY <1>8 DEF Next, vars, Request, Admit, Start, Resume, Delivered, Submit,
                Resolve, Ask, Wait, End, Cancel, Suspended, Stop, Erase, Delete,
                ForgetRun, Fail, Crash
  <2> QED
    BY <1>2, <2>1
<1> QED
  BY <1>3, <1>4, <1>5, <1>6, <1>7, <1>8

(* A refusal is of a resume whose turn the thread no longer keeps. *)
LEMMA RetryStep ==
  ASSUME TypeInv, OrphanInv, ChatInv, RoundInv, RetryInv, TypeInv', RoundInv', FinishInv',
         \A r \in Run : StaysFinished(r), [Next]_vars
  PROVE  RetryReceivesTurn'
PROOF
<1> USE DEF RetryReceivesTurn
<1>0. op \in Op /\ run \in [Run -> RunState] /\ thread \in Thread \cup {None}
  BY DEF TypeInv, TurnTypeOK
<1>1. CASE reply'.kind # "refused"
  BY <1>1
<1>2. ASSUME reply' = reply, op.pc # "idle"
      PROVE  reply'.kind # "refused"
  BY <1>2 DEF RetryInv, QuestionInv, Silence
<1>3. ASSUME NEW kind, kind # "refused", Answer(kind)
      PROVE  reply'.kind # "refused"
  BY <1>3 DEF Answer
<1>4. CASE UNCHANGED vars
  BY <1>4 DEF vars, RetryInv
<1>5. CASE Request
  <2>1. reply' = Silence
    BY <1>5 DEF Request, Admit
  <2> QED
    BY <1>1, <2>1 DEF Silence
<1>6. CASE Reference
  <2>1. op.pc = "reference" /\ op.answered = {}
    BY <1>6 DEF Reference, RetryInv, QuestionInv
  <2>2. CASE Answer("refused")
    BY <2>1, <2>2 DEF Answer
  <2> QED
    BY <1>1, <1>2, <1>6, <2>1, <2>2 DEF Reference
<1>7. CASE LetGo \/ ForgetDelivery
  <2>1. CASE op.next = "idle" /\ op.out = "refused"
    <3>1. op.pc = "forgetDelivery" /\ thread = None /\ thread' = thread
      BY <1>7, <2>1 DEF LetGo, ForgetDelivery, RetryInv, QuestionInv, ChatInv, ProgressInv
    <3> QED
      BY <3>1
  <2>2. CASE op.next # "idle" \/ op.out # "refused"
    BY <1>1, <1>2, <1>3, <1>7, <2>2 DEF LetGo, ForgetDelivery
  <2> QED
    BY <2>1, <2>2
<1>8. CASE Delivered
  <2>1. /\ op.pc = "delivered" /\ thread # None /\ thread.open = None
        /\ thread' = thread /\ run' = run /\ delivery' = delivery
    BY <1>8 DEF Delivered, RetryInv, QuestionInv
  <2>2. CASE delivery # None /\ delivery.answered = op.answered
    BY <1>1, <1>8, <2>2 DEF Delivered
  <2>3. CASE ~(delivery # None /\ delivery.answered = op.answered)
    <3>1. reply'.answered = op.answered
      BY <1>8, <2>3 DEF Delivered, Answer
    <3>2. ASSUME NEW r \in Run, run[r].finisher = run[r].round, run[r].round # {},
                 op.answered = run[r].round, thread.committed = r
          PROVE  FALSE
      <4>1. thread.committed # None
        BY <3>2, TurnAssumption DEF Run
      <4> QED
        BY <2>1, <2>3, <3>2, <4>1 DEF RetryInv, FinishInv, Whole
    <3>3. \A r \in Run : r # None
      BY TurnAssumption DEF Run
    <3> QED
      BY <2>1, <3>1, <3>2, <3>3
  <2> QED
    BY <2>2, <2>3
<1>9. CASE Resume
  <2>1. /\ op.pc = "resume" /\ op.thread = thread /\ thread' = thread /\ run' = run
    BY <1>9 DEF Resume, OrphanInv, LoadedInv
  <2>2. CASE thread = None
    BY <2>1, <2>2
  <2>3. CASE reply' = reply
    BY <1>1, <1>2, <2>1, <2>3
  <2>4. ASSUME thread # None, thread.open # None, Answer("refused"),
               ~Finishes(thread.open) \/ run[thread.open].state = "open"
        PROVE  RetryReceivesTurn'
    <3>1. reply'.answered = op.answered
      BY <2>4 DEF Answer
    <3>2. ASSUME NEW r \in Run, run[r].outcome = "done", run[r].round # {},
                 op.answered = run[r].round, thread.open = r
          PROVE  FALSE
      <4>1. /\ run[r].pending = {} /\ run[r].round \subseteq run[r].asked
            /\ run[r].state \in {"ended", "deleted"}
        BY <3>2 DEF RoundInv, AskedInv, Finished
      <4>2. Finishes(r)
        BY <3>2, <4>1 DEF Finishes, Applied
      <4> QED
        BY <2>4, <3>2, <4>1, <4>2
    <3> QED
      BY <2>1, <2>4, <3>1, <3>2
  <2>5. CASE thread # None /\ thread.open # None /\ ResumeEnded(thread.open)
    BY <2>3, <2>4, <2>5 DEF ResumeEnded
  <2>6. CASE thread # None /\ thread.open # None /\ ResumeOpen(thread.open)
    BY <2>3, <2>4, <2>6 DEF ResumeOpen
  <2> QED
    BY <1>9, <2>1, <2>2, <2>3, <2>5, <2>6 DEF Resume
<1>10. CASE Suspended \/ Fail
  BY <1>1, <1>3, <1>10 DEF Suspended, Fail
<1>11. CASE Start \/ Submit \/ Resolve \/ Ask \/ Wait \/ End \/ Cancel \/ Commit \/ Stop
             \/ Erase \/ Delete \/ ForgetRun \/ ForgetThread \/ Crash
  <2>1. reply' = reply /\ op.pc # "idle"
    BY <1>11 DEF Start, Submit, Resolve, Ask, Wait, End, Cancel, Commit, Stop, Erase,
                 Delete, ForgetRun, ForgetThread, Crash
  <2> QED
    BY <1>1, <1>2, <2>1
<1> QED
  BY <1>4, <1>5, <1>6, <1>7, <1>8, <1>9, <1>10, <1>11 DEF Next

(* What the two theorems rest on, together. *)
AnswerInv == TypeInv /\ OrphanInv /\ StoredInv /\ MeantInv /\ ChatInv /\ RoundInv /\ RetryInv

LEMMA AnswerInvariant == Spec => []AnswerInv
PROOF
<1>1. ASSUME Init
      PROVE  AnswerInv
  <2>1. /\ op.pc = "idle" /\ op.next = "idle" /\ op.out = "stopped" /\ thread = None
        /\ delivery = None /\ reply.kind = "none"
    BY <1>1 DEF Init, Idle, Silence
  <2>2. ASSUME NEW r \in Run
        PROVE  /\ run[r].pending = {} /\ run[r].round = {} /\ run[r].asked = {}
               /\ run[r].outcome # "done"
    BY <1>1, OutcomeAssumption DEF Init, Unknown, Outcome
  <2>3. RoundInv
    BY <2>1, <2>2 DEF RoundInv, AskedInv, ToldInv, DrivenInv
  <2>4. RetryInv
    BY <2>1, <2>2 DEF RetryInv, QuestionInv, FinishInv, RetryReceivesTurn
  <2> QED
    BY <1>1, <2>3, <2>4, ChatInit DEF AnswerInv
<1>2. ASSUME AnswerInv, [Next]_vars
      PROVE  AnswerInv'
  <2> USE <1>2 DEF AnswerInv
  <2>1. TypeInv' /\ OrphanInv' /\ StoredInv' /\ MeantInv' /\ ChatInv'
    BY TypeStep, OrphanStep, ContractStep, ChatStep
  <2>2. \A r \in Run : StaysFinished(r)
    BY RunStep DEF RoundInv
  <2>3. RoundInv' /\ QuestionInv'
    BY RoundStep, QuestionStep DEF RetryInv
  <2>4. FinishInv'
    BY <2>2, FinisherStep, DeliveredStep DEF RetryInv, FinishInv
  <2>5. RetryReceivesTurn'
    BY <2>1, <2>2, <2>3, <2>4, RetryStep
  <2> QED
    BY <2>1, <2>3, <2>4, <2>5 DEF RetryInv
<1> QED
  BY <1>1, <1>2, PTL DEF Spec

(* A resume receives a turn only if it answered a request of the turn's    *)
(* last round, whichever resumes, repeated or late, came between           *)
(* (service.rs resume_open, ended, delivered).                             *)
THEOREM TurnsToTheirRound == Spec => []TurnToItsRound
PROOF
<1>1. AnswerInv => TurnToItsRound
  BY DEF AnswerInv, RoundInv, ToldInv, Reaches, TurnToItsRound
<1> QED
  BY <1>1, AnswerInvariant, PTL

(* The resume that finished its run by naming the whole last round is      *)
(* never refused when it is repeated, after any crash, until the thread    *)
(* moves on or is forgotten (service.rs resume_open, ended, delivered;     *)
(* threads.rs commit).                                                     *)
THEOREM RetriesReceiveTheirTurn == Spec => []RetryReceivesTurn
PROOF
<1>1. AnswerInv => RetryReceivesTurn
  BY DEF AnswerInv, RetryInv
<1> QED
  BY <1>1, AnswerInvariant, PTL

=============================================================================
