------------------------------- MODULE Ledger -------------------------------
(***************************************************************************)
(* The Holdpoint ledger: the row of one run, its history and its side      *)
(* tables, and every transaction that changes them.  Each transaction is   *)
(* one SQLite BEGIN IMMEDIATE transaction (store/mod.rs), so each is one   *)
(* step.  Transactions of a lease holder (store/write.rs) are operators    *)
(* over the lease the session presents: the fencing token it was given     *)
(* (0 until it claimed the run: the first claim takes fence 1) and the     *)
(* newest sequence number it has seen.  Transactions of the host           *)
(* (store/host.rs) need no lease.                                          *)
(*                                                                         *)
(* An event keeps only what decides a later transition; the size of a      *)
(* history is its number of events (the byte bound behaves the same way).  *)
(***************************************************************************)
EXTENDS Integers, Sequences, FiniteSets, FiniteSetsExt

CONSTANTS
  Session,          \* drive sessions; a session that ended never comes back
  Deferred,         \* the steps a definition may defer to the host
  Result,           \* the results a host may give for a deferred step
  LeaseMs,          \* WorkerOptions.lease_ms
  MaxEvents,        \* Limits.max_events_per_run
  ReceiptHeadroom,  \* events an effect's receipt may add past MaxEvents
  TerminalHeadroom, \* events the end of the run may add past MaxEvents
  MaxTime,          \* bound of the clock
  None              \* SQL NULL

ASSUME LeaseAssumption == LeaseMs \in Nat /\ MaxTime \in Nat

(***************************************************************************)
(* "more than any receipt, so a run can always end after one":             *)
(* the headroom of an end exceeds that of a receipt by the cancellation    *)
(* that lands past every bound and the end itself.                         *)
(***************************************************************************)
ASSUME HeadroomAssumption ==
  /\ MaxEvents \in Nat \ {0}
  /\ ReceiptHeadroom \in Nat
  /\ TerminalHeadroom \in Nat
  /\ TerminalHeadroom >= ReceiptHeadroom + 2

ASSUME NoneAssumption ==
  /\ None \notin Session
  /\ None \notin Nat
  /\ Result \cap {"absent", "open"} = {}

VARIABLES
  state,        \* runs.state; "absent" before submission, "deleted" after deletion
  events,       \* the history; runs.seq is its length
  fence,        \* runs.fence
  holder,       \* runs.lease_session
  expires,      \* runs.lease_expires_ms (0 when it is NULL)
  cancel,       \* runs.cancel
  wake,         \* runs.wake_ms
  outcome,      \* runs.outcome
  obligations,  \* the obligations table
  deferred,     \* the deferred table: "absent", "open", or the result
  now           \* the clock the workers share

ledgerVars == <<state, events, fence, holder, expires, cancel, wake, outcome,
                obligations, deferred>>

-----------------------------------------------------------------------------
(* Events and rows *)

Outcome == {"done", "cancelled", "expired", "limited", "unrecoverable"}
StepKind == {"model", "activity"}

Started == [type |-> "started"]
Pure == [type |-> "pure"]
Heartbeat == [type |-> "heartbeat"]
CancelRequested == [type |-> "cancel"]
Scheduled(d) == [type |-> "scheduled", step |-> d]
Resolved(d, r) == [type |-> "resolved", step |-> d, result |-> r]
Dispatched(f, k) == [type |-> "dispatched", fence |-> f, kind |-> k]
Settled(a) == [type |-> "settled", attempt |-> a]
Completed(o) == [type |-> "completed", outcome |-> o]

Event == [type : {"started", "pure", "heartbeat", "cancel"}]
           \cup [type : {"scheduled"}, step : Deferred]
           \cup [type : {"resolved"}, step : Deferred, result : Result]
           \cup [type : {"dispatched"}, fence : Nat, kind : StepKind]
           \cup [type : {"settled"}, attempt : Nat]
           \cup [type : {"completed"}, outcome : Outcome]

(***************************************************************************)
(* An attempt is named by the position of its dispatch in the history      *)
(* (the code's step and attempt numbers, which are as unique); attempt 0   *)
(* is an obligation for everything a session owned.                        *)
(***************************************************************************)
NewObligation == [fence : Nat, attempt : Nat]
Obligation == [id : Nat \ {0}, fence : Nat, attempt : Nat]

Ids(S) == {o.id : o \in S}
(* Mutant: the first obligation is numbered zero. *)
NextIdFromZero(S) == IF S = {} THEN 0 ELSE Max(Ids(S)) + 1

NextId(S) == Max(Ids(S) \cup {0}) + 1

WithNew(S, new) ==
  S \cup {[id |-> NextId(S) + i - 1, fence |-> new[i].fence,
           attempt |-> new[i].attempt] : i \in DOMAIN new}

(* What the events of a write add to the deferred table. *)
Registered(own) ==
  [d \in Deferred |-> IF Scheduled(d) \in {own[i] : i \in DOMAIN own}
                      THEN "open" ELSE deferred[d]]

HostInput(e) == e.type \in {"resolved", "cancel"}

(* Whether the history may grow by n events within its bound plus extra. *)
Fits(n, extra) == Len(events) + n <= MaxEvents + extra

-----------------------------------------------------------------------------
(* A holder's write: what it finds *)

(* Another session wrote since this one read, or the run ended. *)
Stale(token, seen) ==
  token = 0 /\ (state # "open" \/ Len(events) > seen)

LeaseFree == holder = None \/ expires <= now

(* Mutant: a claim does not compare what the session read with the row. *)
MayWriteUnread(token, seen) ==
  /\ state = "open"
  /\ IF token = 0 THEN LeaseFree ELSE token = fence

(* The session's own lease, or a claim the ledger grants. *)
MayWrite(token, seen) ==
  /\ state = "open"
  /\ IF token = 0 THEN Len(events) <= seen /\ LeaseFree ELSE token = fence

(* LeaseLost, Busy, or a run that was deleted. *)
Refused(token, seen) == ~Stale(token, seen) /\ ~MayWrite(token, seen)

(* Mutant: a claim goes on under the fence it found. *)
FenceKept(token) == IF fence = 0 THEN 1 ELSE fence

FenceOf(token) == IF token = 0 THEN fence + 1 ELSE fence

(* Mutant: a claim forgets the session it takes over from. *)
UncleanForgotten(token) == {}

(* A claim after a session that ended without a clean release records it. *)
Unclean(token) ==
  IF token = 0 /\ holder # None
  THEN {[id |-> NextId(obligations), fence |-> fence, attempt |-> 0]}
  ELSE {}

(* The obligations left once those in proven are deleted. *)
Owing(token, proven) ==
  {o \in obligations \cup Unclean(token) : o.id \notin proven}

(* Mutants: one of the two conditions of a dispatch is missing. *)
AllowedUnproven(token, proven) == ~cancel
AllowedCancelled(token, proven) == Owing(token, proven) = {}

(* A step is dispatched only when not cancelled and nothing is owed. *)
Allowed(token, proven) == ~cancel /\ Owing(token, proven) = {}

-----------------------------------------------------------------------------
(* A holder's write: what it does *)

(* Keep holding the run (End::Hold and End::Receipt). *)
WriteHold(s, token, own, proven, new) ==
  /\ events' = events \o own
  /\ fence' = FenceOf(token)
  /\ holder' = s
  /\ expires' = now + LeaseMs
  /\ wake' = now
  /\ obligations' = WithNew(Owing(token, proven), new)
  /\ deferred' = Registered(own)
  /\ UNCHANGED <<state, cancel, outcome>>

(* A park that a host input overtook: only the lease is renewed. *)
WriteRefusedPark(s, token) ==
  /\ fence' = FenceOf(token)
  /\ holder' = s
  /\ expires' = now + LeaseMs
  /\ wake' = now
  /\ UNCHANGED <<state, events, cancel, outcome, obligations, deferred>>

(* Release the run until at. *)
WritePark(token, own, new, at) ==
  /\ events' = events \o own
  /\ fence' = FenceOf(token)
  /\ holder' = None
  /\ expires' = 0
  /\ wake' = at
  /\ obligations' = WithNew(Owing(token, {}), new)
  /\ deferred' = Registered(own)
  /\ UNCHANGED <<state, cancel, outcome>>

(* Mutant: the outcome the session decided is written as it is. *)
EndingDecided(out) == out

(* End the run: a cancellation committed first wins. *)
Ending(out) == IF cancel THEN "cancelled" ELSE out

WriteFinish(token, own, new, out) ==
  /\ events' = Append(events \o own, Completed(Ending(out)))
  /\ fence' = FenceOf(token)
  /\ holder' = None
  /\ expires' = 0
  /\ wake' = None
  /\ obligations' = WithNew(Owing(token, {}), new)
  /\ deferred' = Registered(own)
  /\ state' = "closed"
  /\ outcome' = Ending(out)
  /\ UNCHANGED cancel

-----------------------------------------------------------------------------
(* The host's transactions *)

Create ==
  /\ state = "absent"
  /\ state' = "open"
  /\ events' = <<Started>>
  /\ wake' = now
  /\ UNCHANGED <<fence, holder, expires, cancel, outcome, obligations, deferred>>

Resolve(d, r) ==
  /\ state = "open"
  /\ deferred[d] = "open"
  /\ Fits(1, 0)
  /\ deferred' = [deferred EXCEPT ![d] = r]
  /\ events' = Append(events, Resolved(d, r))
  /\ wake' = now
  /\ UNCHANGED <<state, fence, holder, expires, cancel, outcome, obligations>>

(* Mutant: a repeated cancellation appends again. *)
CancelAgain ==
  /\ state = "open"
  /\ cancel' = TRUE
  /\ events' = Append(events, CancelRequested)
  /\ wake' = now
  /\ UNCHANGED <<state, fence, holder, expires, outcome, obligations, deferred>>

(* A cancellation always lands, whatever the size of the history. *)
Cancel ==
  /\ state = "open"
  /\ ~cancel
  /\ cancel' = TRUE
  /\ events' = Append(events, CancelRequested)
  /\ wake' = now
  /\ UNCHANGED <<state, fence, holder, expires, outcome, obligations, deferred>>

(* Only a tombstone stays; the obligations table is not touched. *)
Acknowledge ==
  /\ state = "closed"
  /\ state' = "acknowledged"
  /\ events' = <<>>
  /\ deferred' = [d \in Deferred |-> "absent"]
  /\ outcome' = None
  /\ UNCHANGED <<fence, holder, expires, cancel, wake, obligations>>

Wake ==
  /\ state = "open"
  /\ wake' = now
  /\ UNCHANGED <<state, events, fence, holder, expires, cancel, outcome,
                 obligations, deferred>>

(* Mutant: a lease still live does not refuse the deletion. *)
DeleteAllowedHeld(readFence, proven) ==
  /\ state \notin {"absent", "deleted"}
  /\ fence = readFence
  /\ Ids(obligations) \subseteq proven

(* store.delete_proven: nothing claimed the run since fence was read, and  *)
(* every obligation it carries is among those proven.                      *)
DeleteAllowed(readFence, proven) ==
  /\ state \notin {"absent", "deleted"}
  /\ LeaseFree
  /\ fence = readFence
  /\ Ids(obligations) \subseteq proven

DeleteRow ==
  /\ state' = "deleted"
  /\ events' = <<>>
  /\ deferred' = [d \in Deferred |-> "absent"]
  /\ obligations' = {}
  /\ outcome' = None
  /\ holder' = None
  /\ expires' = 0
  /\ wake' = None
  /\ UNCHANGED <<fence, cancel>>

LedgerInit ==
  /\ state = "absent"
  /\ events = <<>>
  /\ fence = 0
  /\ holder = None
  /\ expires = 0
  /\ cancel = FALSE
  /\ wake = None
  /\ outcome = None
  /\ obligations = {}
  /\ deferred = [d \in Deferred |-> "absent"]
  /\ now = 0

(* The clock moves on its own. *)
Tick ==
  /\ now < MaxTime
  /\ now' = now + 1
  /\ UNCHANGED ledgerVars

LedgerTypeOK ==
  /\ state \in {"absent", "open", "closed", "acknowledged", "deleted"}
  /\ events \in Seq(Event)
  /\ fence \in Nat
  /\ holder \in Session \cup {None}
  /\ expires \in Nat
  /\ cancel \in BOOLEAN
  /\ wake \in Nat \cup {None}
  /\ outcome \in Outcome \cup {None}
  /\ obligations \subseteq Obligation
  /\ deferred \in [Deferred -> {"absent", "open"} \cup Result]
  /\ now \in Nat
=============================================================================
