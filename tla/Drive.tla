------------------------------- MODULE Drive -------------------------------
(***************************************************************************)
(* Drive sessions over the ledger of one run (session.rs, attempt.rs, the  *)
(* settlement in ctx.rs and the loop of worker.rs), with the host and the  *)
(* executors it runs.                                                      *)
(*                                                                         *)
(* A session works on what it read: the prefix of the history up to seen,  *)
(* plus the events it buffered.  Every other variable of the ledger is     *)
(* only read inside a write, so other sessions and the host interleave     *)
(* between any two steps.  What a definition decides next is a             *)
(* nondeterministic choice among what ctx.rs lets it do.                   *)
(***************************************************************************)
EXTENDS Ledger

CONSTANTS
  Deadline,      \* RunOptions.deadline_ms, or None
  ProofRetryMs,  \* WorkerOptions.proof_retry_ms
  Delays,        \* bound: how far ahead a definition's timed wait may be
  MaxBuffer,     \* bound: pure events a session buffers before it must write
  HostOps        \* bound: what the host of this instance does on its own

ASSUME DriveAssumption ==
  /\ Deadline \in Nat \cup {None}
  /\ ProofRetryMs \in Nat
  /\ Delays \subseteq Nat
  /\ MaxBuffer \in Nat
  /\ HostOps \subseteq {"cancel", "acknowledge", "wake"}

VARIABLES
  ses,     \* what each session holds in memory
  acting   \* the activity executors that may still act

vars == <<ledgerVars, now, ses, acting>>

(***************************************************************************)
(*   idle      about to load the run      park       decided to wait       *)
(*   run       in the definition          parking    released, to write    *)
(*   checked   passed the dispatch gate   finish     decided the outcome   *)
(*   proving   asking the host            finishing  released, to write    *)
(*   unproven  some proof is missing      attempt    waiting for it        *)
(*   lost      giving up an attempt whose lease renewal failed             *)
(* A call that is over returned suspended, ended, refused (Busy, LeaseLost *)
(* or State) or limit (Error::Limit), or its process crashed.              *)
(***************************************************************************)
Active == {"idle", "run", "checked", "proving", "unproven", "attempt", "lost",
           "park", "parking", "finish", "finishing"}
Over == {"suspended", "ended", "refused", "limit", "crashed"}

SessionState ==
  [pc : Active \cup Over, token : Nat, seen : Nat, buffer : Seq(Event),
   owed : Seq(NewObligation), left : SUBSET Obligation, proven : SUBSET Nat,
   attempt : Nat, kind : StepKind, aware : BOOLEAN,
   until : Nat \cup {None}, target : Outcome]

Fresh ==
  [pc |-> "idle", token |-> 0, seen |-> 0, buffer |-> <<>>, owed |-> <<>>,
   left |-> {}, proven |-> {}, attempt |-> 0, kind |-> "model",
   aware |-> FALSE, until |-> None, target |-> "done"]

Become(s, new) == ses' = [ses EXCEPT ![s] = new]
Move(s, to) == Become(s, [ses[s] EXCEPT !.pc = to])

(* The call is over; its memory is gone. *)
Leave(s, how) == Become(s, [Fresh EXCEPT !.pc = how])

(* The locals of an attempt go out of scope. *)
Unwound(me) ==
  [me EXCEPT !.kind = "model", !.attempt = 0, !.left = {}, !.proven = {}]

Conclude(me, out) == [Unwound(me) EXCEPT !.pc = "finish", !.target = out]

-----------------------------------------------------------------------------
(* What a session knows *)

(* The positions of the history a session has read. *)
Read(s) == 1..(IF ses[s].seen <= Len(events) THEN ses[s].seen ELSE Len(events))

Known(s) == {events[i] : i \in Read(s)}
              \cup {ses[s].buffer[i] : i \in DOMAIN ses[s].buffer}

(* Attempts started and not settled, as the session sees them. *)
Running(s) ==
  {a \in Read(s) : events[a].type = "dispatched" /\ Settled(a) \notin Known(s)}

Cancelled(s) == ses[s].aware \/ CancelRequested \in Known(s)
Expired == Deadline # None /\ now >= Deadline
GateOpen(s) == ~Cancelled(s) /\ ~Expired

(* What an interrupted gate makes of the session. *)
GateShut(s) ==
  \/ /\ Cancelled(s)
     /\ Become(s, Conclude(ses[s], "cancelled"))
  \/ /\ ~Cancelled(s)
     /\ Expired
     /\ Become(s, Conclude(ses[s], "expired"))

(* A wait never outlasts the deadline of the run. *)
Capped(at) ==
  IF Deadline = None THEN at
  ELSE IF at = None \/ Deadline < at THEN Deadline ELSE at

Waiting(me, at) == [Unwound(me) EXCEPT !.pc = "park", !.until = Capped(at)]

Covers(o, a) == o.fence = a.fence /\ o.attempt \in {0, a.attempt}

(* The host says Ended only of an executor that ended. *)
Provable(S) == {o \in S : \A a \in acting : ~Covers(o, a)}

MayAct(f) == {a \in acting : a.fence = f}

-----------------------------------------------------------------------------
(* Writes that do nothing *)

(* The write found newer history (drive_once starts over), or no lease. *)
WriteStopped(s) ==
  /\ \/ /\ Stale(ses[s].token, ses[s].seen)
        /\ Become(s, [Fresh EXCEPT !.aware = ses[s].aware])
     \/ /\ Refused(ses[s].token, ses[s].seen)
        /\ Leave(s, "refused")
  /\ UNCHANGED <<ledgerVars, now, acting>>

(* A write past the bounds rolls back; its Error::Limit ends the run. *)
LimitReached(s) ==
  /\ Become(s, Conclude(ses[s], "limited"))
  /\ UNCHANGED <<ledgerVars, acting>>

(* The session after a committed write of n events. *)
Wrote(s, n) ==
  [ses[s] EXCEPT !.token = FenceOf(ses[s].token), !.seen = Len(events) + n,
                 !.buffer = <<>>, !.owed = <<>>]

Writable(s) == MayWrite(ses[s].token, ses[s].seen)

-----------------------------------------------------------------------------
(* The definition runs *)

Load(s) ==
  /\ ses[s].pc = "idle"
  /\ state # "absent"
  /\ \/ /\ state = "open"
        /\ Become(s, [ses[s] EXCEPT !.pc = "run", !.seen = Len(events)])
     \/ state = "closed" /\ Leave(s, "ended")
     \/ state \in {"acknowledged", "deleted"} /\ Leave(s, "refused")
  /\ UNCHANGED <<ledgerVars, now, acting>>

(* Another process's cancellation is polled; a local one raises a flag. *)
Observe(s) ==
  /\ ses[s].pc \in {"run", "proving", "attempt"}
  /\ cancel
  /\ ~Cancelled(s)
  /\ Become(s, [ses[s] EXCEPT !.aware = TRUE])
  /\ UNCHANGED <<ledgerVars, now, acting>>

(* Replay settles an attempt an earlier session left running: its fate is  *)
(* unknown.                                                                *)
Interrupted(s) ==
  /\ ses[s].pc = "run"
  /\ \E a \in Running(s) :
       Become(s, [ses[s] EXCEPT !.buffer = Append(@, Settled(a))])
  /\ UNCHANGED <<ledgerVars, now, acting>>

(* New pure work: a local computation, a timer, or a deferred request. *)
Record(s) ==
  /\ ses[s].pc = "run"
  /\ Running(s) = {}
  /\ GateOpen(s)
  /\ Len(ses[s].buffer) < MaxBuffer
  /\ \E e \in {Pure} \cup {Scheduled(d) : d \in Deferred} :
       /\ e = Pure \/ e \notin Known(s)
       /\ Become(s, [ses[s] EXCEPT !.buffer = Append(@, e)])
  /\ UNCHANGED <<ledgerVars, now, acting>>

Refuse(s) ==
  /\ ses[s].pc = "run"
  /\ GateShut(s)
  /\ UNCHANGED <<ledgerVars, now, acting>>

(* attempt: the gate is open; the dispatch is a later step. *)
Attempt(s) ==
  /\ ses[s].pc = "run"
  /\ Running(s) = {}
  /\ GateOpen(s)
  /\ \E k \in StepKind :
       Become(s, [ses[s] EXCEPT !.pc = "checked", !.kind = k, !.proven = {}])
  /\ UNCHANGED <<ledgerVars, now, acting>>

(* Any Wait: for the host, a timer, or because the worker stops. *)
Suspend(s) ==
  /\ ses[s].pc = "run"
  /\ Running(s) = {}
  /\ \E at \in {None} \cup {now + d : d \in Delays \cup {0}} : Become(s, Waiting(ses[s], at))
  /\ UNCHANGED <<ledgerVars, now, acting>>

(* The definition returned, or cannot continue (it changed, or panicked). *)
Return(s) ==
  /\ ses[s].pc = "run"
  /\ \E out \in {"done", "limited", "unrecoverable"} :
       /\ out = "unrecoverable" \/ Running(s) = {}
       /\ Become(s, Conclude(ses[s], IF out # "unrecoverable" /\ Expired
                                     THEN "expired" ELSE out))
  /\ UNCHANGED <<ledgerVars, now, acting>>

-----------------------------------------------------------------------------
(* Dispatching an attempt *)

(* The buffer and the dispatch in one write, when nothing forbids it. *)
DispatchAllowed(s) ==
  LET me == ses[s]
      own == Append(me.buffer, Dispatched(FenceOf(me.token), me.kind))
      a == Len(events) + Len(own)
  IN /\ Allowed(me.token, me.proven)
     /\ \/ /\ Fits(Len(own), 0)
           /\ WriteHold(s, me.token, own, me.proven, me.owed)
           /\ Become(s, [Wrote(s, Len(own)) EXCEPT !.pc = "attempt",
                           !.attempt = a, !.proven = {}])
           /\ acting' = IF me.kind = "model" THEN acting
                        ELSE acting \cup {[fence |-> FenceOf(me.token),
                                           attempt |-> a]}
        \/ ~Fits(Len(own), 0) /\ LimitReached(s)

(* Otherwise only the buffer commits; the session proves what is owed. *)
DispatchHeld(s) ==
  LET me == ses[s]
  IN /\ ~Allowed(me.token, me.proven)
     /\ \/ /\ Fits(Len(me.buffer), 0)
           /\ WriteHold(s, me.token, me.buffer, me.proven, me.owed)
           /\ Become(s, LET wrote == Wrote(s, Len(me.buffer))
                        IN IF cancel THEN Conclude(wrote, "cancelled")
                           ELSE [wrote EXCEPT !.pc = "proving", !.proven = {},
                                  !.left = Owing(me.token, me.proven)])
           /\ UNCHANGED acting
        \/ ~Fits(Len(me.buffer), 0) /\ LimitReached(s)

Dispatch(s) ==
  /\ ses[s].pc = "checked"
  /\ \/ WriteStopped(s)
     \/ /\ Writable(s)
        /\ DispatchAllowed(s) \/ DispatchHeld(s)
        /\ UNCHANGED now

(* prove, then the gate again when every obligation was proven. *)
Prove(s) ==
  /\ ses[s].pc = "proving"
  /\ \E P \in SUBSET Provable(ses[s].left) :
       IF P # ses[s].left
       THEN Become(s, [ses[s] EXCEPT !.pc = "unproven", !.proven = Ids(P),
                                     !.left = {}])
       ELSE \/ GateShut(s)
            \/ Become(s, Waiting(ses[s], now))
            \/ /\ GateOpen(s)
               /\ Become(s, [ses[s] EXCEPT !.pc = "checked",
                               !.proven = Ids(P), !.left = {}])
  /\ UNCHANGED <<ledgerVars, now, acting>>

(* Some executor is unproven: keep what was proven and wait. *)
HoldUnproven(s) ==
  LET me == ses[s]
  IN /\ me.pc = "unproven"
     /\ \/ WriteStopped(s)
        \/ /\ Writable(s)
           /\ \/ /\ Fits(Len(me.buffer), 0)
                 /\ WriteHold(s, me.token, me.buffer, me.proven, me.owed)
                 /\ Become(s, Waiting(Wrote(s, Len(me.buffer)),
                                   now + ProofRetryMs))
                 /\ UNCHANGED acting
              \/ ~Fits(Len(me.buffer), 0) /\ LimitReached(s)
           /\ UNCHANGED now

-----------------------------------------------------------------------------
(* Waiting for an attempt *)

(* The buffer without its heartbeat: at most one is ever queued. *)
WithoutBeats(q) ==
  LET B == {i \in DOMAIN q : q[i] = Heartbeat}
      i == CHOOSE j \in B : TRUE
  IN IF B = {} THEN q ELSE SubSeq(q, 1, i - 1) \o SubSeq(q, i + 1, Len(q))

(* The newest heartbeat replaces a queued one. *)
Beat(s) ==
  /\ ses[s].pc = "attempt"
  /\ Become(s, [ses[s] EXCEPT !.buffer = Append(WithoutBeats(@), Heartbeat)])
  /\ UNCHANGED <<ledgerVars, now, acting>>

(* A third of the lease passed since the last write. *)
RenewalDue(s) ==
  /\ ses[s].token # 0
  /\ ses[s].token = fence => now >= expires - LeaseMs + LeaseMs \div 3

(* Heartbeats that do not fit are dropped; what still does not fit is an   *)
(* Error::Limit, which ends the run, or gives the attempt up first.        *)
Renew(s) ==
  LET me == ses[s]
      kept == IF Fits(Len(me.buffer), 0) THEN me.buffer
              ELSE WithoutBeats(me.buffer)
  IN /\ me.pc \in {"run", "attempt"}
     /\ RenewalDue(s)
     /\ me.pc = "attempt" => ~Cancelled(s) /\ ~Expired
     /\ \/ WriteStopped(s)
        \/ /\ Writable(s)
           /\ \/ /\ Fits(Len(kept), 0)
                 /\ WriteHold(s, me.token, kept, {}, me.owed)
                 /\ Become(s, Wrote(s, Len(kept)))
              \/ /\ ~Fits(Len(kept), 0)
                 /\ Become(s, LET rest == [me EXCEPT !.buffer = kept]
                              IN IF me.pc = "run" THEN Conclude(rest, "limited")
                                 ELSE [rest EXCEPT !.pc = "lost"])
                 /\ UNCHANGED ledgerVars
           /\ UNCHANGED <<now, acting>>

(* What the session learns of the executor of its attempt: it ended, or it *)
(* may still act and becomes an obligation (ctx.rs settle_activity).       *)
Learned(s, ended) ==
  LET me == ses[s]
      mine == [fence |-> me.token, attempt |-> me.attempt]
  IN IF me.kind = "model"
     THEN [owed |-> me.owed, acting |-> acting]
     ELSE IF ended THEN [owed |-> me.owed, acting |-> acting \ {mine}]
          ELSE [owed |-> Append(me.owed, mine), acting |-> acting]

(* An activity's result, or its uncertainty, is committed at once. *)
SettleActivity(s) ==
  LET me == ses[s]
      own == Append(me.buffer, Settled(me.attempt))
  IN /\ me.pc = "attempt"
     /\ me.kind = "activity"
     /\ \E ended \in BOOLEAN :
          LET new == Learned(s, ended) IN
          /\ acting' = new.acting
          /\ UNCHANGED now
          /\ \/ /\ Refused(me.token, me.seen)
                /\ Leave(s, "refused")
                /\ UNCHANGED ledgerVars
             \/ /\ Writable(s)
                /\ Fits(Len(own), ReceiptHeadroom)
                /\ WriteHold(s, me.token, own, {}, new.owed)
                /\ Become(s, [Unwound(Wrote(s, Len(own))) EXCEPT !.pc = "run"])
             \/ /\ Writable(s)
                /\ ~Fits(Len(own), ReceiptHeadroom)
                /\ Become(s, [Conclude(me, "limited") EXCEPT !.buffer = own,
                                !.owed = new.owed])
                /\ UNCHANGED ledgerVars

(* A model's answer is pure: it waits in the buffer for the next write. *)
SettleModel(s) ==
  LET me == ses[s]
      settled == [Unwound(me) EXCEPT !.pc = "run",
                                     !.buffer = Append(@, Settled(me.attempt))]
  IN /\ me.pc = "attempt"
     /\ me.kind = "model"
     /\ \/ Become(s, settled)
        \/ /\ Cancelled(s) \/ Expired
           /\ Become(s, Conclude(settled, IF Cancelled(s) THEN "cancelled"
                                          ELSE "expired"))
     /\ UNCHANGED <<ledgerVars, now, acting>>

(* conclude: whatever the attempt returned is not recorded. *)
GiveUp(s) ==
  /\ ses[s].pc = "lost"
  /\ \E ended \in BOOLEAN :
       LET new == Learned(s, ended) IN
       /\ acting' = new.acting
       /\ Become(s, [Conclude(ses[s], "limited") EXCEPT !.owed = new.owed])
  /\ UNCHANGED <<ledgerVars, now>>

-----------------------------------------------------------------------------
(* Leaving the run *)

(* The host ends every executor of the session, or an obligation names it. *)
Release(s) ==
  LET me == ses[s]
      next == IF me.pc = "park" THEN "parking" ELSE "finishing"
  IN /\ me.pc \in {"park", "finish"}
     /\ \/ /\ Move(s, next)
           /\ acting' = IF me.token = 0 THEN acting
                        ELSE acting \ MayAct(me.token)
        \/ /\ me.token # 0
           /\ Become(s, [me EXCEPT !.pc = next,
                  !.owed = Append(@, [fence |-> me.token, attempt |-> 0])])
           /\ UNCHANGED acting
     /\ UNCHANGED <<ledgerVars, now>>

(* Mutant: a park does not look at what arrived. *)
OvertakenUnseen(s) == FALSE

(* A host input arrived after the session decided to wait. *)
Overtaken(s) == Len(events) > ses[s].seen

(* An overtaken park is refused, and the definition runs again on the newer *)
(* history; a park past the bounds returns Error::Limit to the caller.  The  *)
(* call that returns suspended had read seen events and written its buffer.  *)
Park(s) ==
  LET me == ses[s]
  IN /\ me.pc = "parking"
     /\ \/ WriteStopped(s)
        \/ /\ Writable(s)
           /\ \/ /\ Overtaken(s)
                 /\ WriteRefusedPark(s, me.token)
                 /\ Become(s, [me EXCEPT !.pc = "run", !.seen = Len(events),
                                         !.until = None])
              \/ /\ ~Overtaken(s)
                 /\ Fits(Len(me.buffer), 0)
                 /\ WritePark(me.token, me.buffer, me.owed, me.until)
                 /\ Become(s, [Fresh EXCEPT !.pc = "suspended",
                                 !.token = FenceOf(me.token),
                                 !.seen = me.seen + Len(me.buffer)])
              \/ /\ ~Overtaken(s)
                 /\ ~Fits(Len(me.buffer), 0)
                 /\ Leave(s, "limit")
                 /\ UNCHANGED ledgerVars
           /\ UNCHANGED <<now, acting>>

(* An end that does not fit is written without the buffered pure events. *)
Finish(s) ==
  LET me == ses[s]
      whole == Fits(Len(me.buffer) + 1, TerminalHeadroom)
      own == IF whole THEN me.buffer ELSE <<>>
      out == IF whole THEN me.target ELSE "limited"
  IN /\ me.pc = "finishing"
     /\ \/ WriteStopped(s)
        \/ /\ Writable(s)
           /\ \/ /\ Fits(Len(own) + 1, TerminalHeadroom)
                 /\ WriteFinish(me.token, own, me.owed, out)
                 /\ Leave(s, "ended")
              \/ /\ ~Fits(Len(own) + 1, TerminalHeadroom)
                 /\ Leave(s, "limit")
                 /\ UNCHANGED ledgerVars
           /\ UNCHANGED <<now, acting>>

Crash(s) ==
  /\ ses[s].pc \in Active
  /\ Leave(s, "crashed")
  /\ UNCHANGED <<ledgerVars, now, acting>>

-----------------------------------------------------------------------------
(* The host and its executors *)

(* An executor ends on its own, whoever waits for it. *)
ExecutorEnds ==
  /\ \E a \in acting : acting' = acting \ {a}
  /\ UNCHANGED <<ledgerVars, now, ses>>

Host ==
  /\ \/ Create
     \/ \E d \in Deferred, r \in Result : Resolve(d, r)
     \/ "cancel" \in HostOps /\ Cancel
     \/ "acknowledge" \in HostOps /\ Acknowledge
     \/ "wake" \in HostOps /\ Wake
  /\ UNCHANGED <<now, ses, acting>>

-----------------------------------------------------------------------------

Init ==
  /\ LedgerInit
  /\ ses = [s \in Session |-> Fresh]
  /\ acting = {}

SessionStep(s) ==
  \/ Load(s) \/ Observe(s) \/ Interrupted(s) \/ Record(s) \/ Refuse(s)
  \/ Attempt(s) \/ Suspend(s) \/ Return(s)
  \/ Dispatch(s) \/ Prove(s) \/ HoldUnproven(s)
  \/ Beat(s) \/ Renew(s) \/ SettleActivity(s) \/ SettleModel(s) \/ GiveUp(s)
  \/ Release(s) \/ Park(s) \/ Finish(s) \/ Crash(s)

Clock == Tick /\ UNCHANGED <<ses, acting>>

Next ==
  \/ \E s \in Session : SessionStep(s)
  \/ Host \/ ExecutorEnds \/ Clock

Spec == Init /\ [][Next]_vars

-----------------------------------------------------------------------------
(* Properties *)

(* The row, the sessions and the executors have the types the code gives.  *)
TypeOK ==
  /\ LedgerTypeOK
  /\ ses \in [Session -> SessionState]
  /\ acting \subseteq NewObligation

(* Whatever crashes, stalls or takes over, no activity is dispatched while *)
(* an earlier executor of the run may still act (session.rs dispatch,      *)
(* write.rs apply and claim).                                              *)
OneExecutor == \A a, b \in acting : a = b

(* A run nobody holds names every executor that may still act: whoever     *)
(* claims, ends or deletes it next has an obligation to prove first        *)
(* (ctx.rs settle_activity, session.rs release, write.rs claim).           *)
Accounted ==
  holder = None /\ state # "deleted" =>
    \A a \in acting : \E o \in obligations : Covers(o, a)

(* The session whose fence is current is missing only host inputs: nothing *)
(* another session decided can be absent from its history                  *)
(* (write.rs write: stale, claim and foreign).                             *)
ViewsComplete ==
  \A s \in Session :
    state = "open" /\ ses[s].token = fence /\ fence # 0 =>
      \A i \in (ses[s].seen + 1)..Len(events) : HostInput(events[i])

(* The history every session would load is one History::apply accepts,     *)
(* whichever sessions wrote it: one attempt at a time, settled once,       *)
(* requests answered once and after they are asked, nothing after the end. *)
HistoryValid ==
  /\ \A i, j \in DOMAIN events : i < j =>
       /\ events[i].type # "completed"
       /\ events[j].type \in {"scheduled", "resolved", "settled", "cancel"} =>
            events[i] # events[j]
       /\ events[i].type = "dispatched" /\ events[j].type = "dispatched" =>
            \E k \in i..j : events[k] = Settled(i)
  /\ \A j \in DOMAIN events :
       /\ events[j].type = "settled" =>
            events[j].attempt < j /\ events[events[j].attempt].type = "dispatched"
       /\ events[j].type = "resolved" =>
            \E i \in 1..j : events[i] = Scheduled(events[j].step)

(* Nothing is dispatched once a cancellation is in the history, by any     *)
(* session and however late it notices (write.rs apply: allowed).          *)
NoDispatchAfterCancel ==
  \A i, j \in DOMAIN events :
    i < j /\ events[i] = CancelRequested => events[j].type # "dispatched"

(* A run cancelled while open ends cancelled, whatever outcome the session *)
(* that ends it decided (write.rs apply: ending).                          *)
CancelWins == cancel /\ outcome # None => outcome = "cancelled"

(* A run that sleeps until the host or a timer wakes it has nothing in its *)
(* history that the session which parked it had not read: a host input     *)
(* landing around the park always leaves the run due (write.rs write:      *)
(* refused_park; host.rs append_one).                                      *)
Due == wake # None /\ wake <= now

SleepsInformed ==
  state = "open" /\ holder = None /\ ~Due =>
    \E s \in Session :
      ses[s].pc = "suspended" /\ ses[s].token = fence /\ ses[s].seen = Len(events)

(* An open run always has room for its end, whatever was committed past    *)
(* its bounds (write.rs check_size).                                       *)
RoomToEnd == state = "open" => Len(events) + 1 <= MaxEvents + TerminalHeadroom

=============================================================================
