------------------------------ MODULE Provider ------------------------------
(***************************************************************************)
(* The provider calls of one Brain process: the logical call with its      *)
(* attempts, its retries and its usage, over pools of connections whose    *)
(* open connections hold the pool's slots (runtime/src/provider/           *)
(* transport.rs, provider/mod.rs, cancel.rs).                              *)
(*                                                                         *)
(* Time is left out: a bound that may pass while a call waits is an action *)
(* that may happen while it waits.  The HTTP client (hyper) is external:   *)
(* what it does with a connection is modelled from how it is configured.   *)
(* It hands a connection that comes back to a waiting call of the same     *)
(* host; the connection that call had started to open goes on in the       *)
(* background and becomes idle.  Every connection is a tunnel through the  *)
(* egress proxy (module Egress), whose policy does not change.             *)
(***************************************************************************)
EXTENDS Egress

CONSTANTS Request, \* the HTTP requests of Team whose work calls providers
          Slots    \* [Pool -> the open connections the pool allows]

Pool == {"providers", "jev"}
Host == {"openai", "anthropic", "jev"}
PoolOf(h) == IF h = "jev" THEN "jev" ELSE "providers"

ASSUME SlotsAssumption == Slots \in [Pool -> Nat \ {0}]

\* Two hosts share the slots of the first pool.
ASSUME SharedAssumption == Slots["providers"] >= 2

ASSUME RequestAssumption == IsFiniteSet(Request)

VARIABLES
  call,      \* [Request -> the provider call its work waits for]
  idle,      \* [Host -> its idle connections]
  behind,    \* [Host -> connections that open for no call any more, by stage]
  usage,     \* [Request -> the counters of its scope]
  cancelled  \* the requests whose scope was cancelled

providerVars == <<call, idle, behind, usage, cancelled, proxy>>

Waiting  == {"waiting", "connecting"}     \* for a slot; for the connection
InFlight == Waiting \cup {"exchanging"}
Calling  == InFlight \cup {"attempt", "send", "sleeping"}

NoCall  == [pc |-> "none", kind |-> "chat", host |-> "openai", attempt |-> 0,
            attempts |-> 0, result |-> "none"]
NoUsage == [model_calls |-> 0, failed_calls |-> 0, unreported_calls |-> 0,
            reported |-> 0, provider_requests |-> 0]

\* The profiles' attempts: an ordinary turn and a helper call, a decision, the
\* one attempt of the fast path.
Attempts == [chat |-> 3, attached |-> 3, decision |-> 2, jev |-> 1]

\* Mutant: one host's idle connections may keep the whole pool.
IdleKeepsPool(slots) == slots

\* The idle connections one host may keep: at most half of the slots, at least one.
idle_per_host(slots) == IF slots \div 2 > 1 THEN slots \div 2 ELSE 1

\* The hosts' counts together, in the pool p.
InPool(p, count) ==
  IF p = "jev" THEN count["jev"] ELSE count["openai"] + count["anthropic"]

\* The slots of pool p that a call, or a connection it left behind, holds.
Busy(p) ==
  Cardinality({r \in Request : /\ call[r].pc \in {"connecting", "exchanging"}
                               /\ PoolOf(call[r].host) = p})
  + InPool(p, [h \in Host |-> behind[h].connecting])

Free(p) == Slots[p] - Busy(p) - InPool(p, idle)

ProviderInit ==
  /\ EgressInit
  /\ call = [r \in Request |-> NoCall]
  /\ idle = [h \in Host |-> 0]
  /\ behind = [h \in Host |-> [waiting |-> 0, connecting |-> 0]]
  /\ usage = [r \in Request |-> NoUsage]
  /\ cancelled = {}

-----------------------------------------------------------------------------
\* The fast path's exchange counts nothing: it is one send, and no model call.
Counted(kind) == kind # "jev"

\* The work of r makes a call.
StartCall(r, kind, host) ==
  /\ call' = [call EXCEPT ![r] =
                [pc |-> IF Counted(kind) THEN "attempt" ELSE "send", kind |-> kind,
                 host |-> host, attempt |-> 1, attempts |-> Attempts[kind],
                 result |-> "none"]]
  /\ usage' = IF Counted(kind) THEN [usage EXCEPT ![r].model_calls = @ + 1] ELSE usage

\* The counters once a call of the kind ended with the result.
call_failed(u) == [u EXCEPT !.failed_calls = @ + 1]

answered(u, reported) ==
  IF reported THEN [u EXCEPT !.reported = @ + 1] ELSE [u EXCEPT !.unreported_calls = @ + 1]

Ended(c, result) == [c EXCEPT !.pc = "ended", !.result = result]

Fails(r, result) ==
  /\ call' = [call EXCEPT ![r] = Ended(@, result)]
  /\ usage' = IF Counted(call[r].kind) THEN [usage EXCEPT ![r] = call_failed(@)] ELSE usage

\* The admission of an attached call refuses the attempt.
Refuse(r) ==
  /\ call[r].pc = "attempt" /\ call[r].kind = "attached"
  /\ Fails(r, "contract")
  /\ UNCHANGED <<idle, behind, cancelled, proxy>>

\* Mutant: an attempt does not look at the cancellation.
AttemptAnyway(r) ==
  /\ call[r].pc = "attempt"
  /\ call' = [call EXCEPT ![r].pc = "send"]
  /\ usage' = [usage EXCEPT ![r].provider_requests = @ + 1]
  /\ UNCHANGED <<idle, behind, cancelled, proxy>>

Attempt(r) ==
  /\ call[r].pc = "attempt"
  /\ IF r \in cancelled
     THEN Fails(r, "cancelled")
     ELSE /\ call' = [call EXCEPT ![r].pc = "send"]
          /\ usage' = [usage EXCEPT ![r].provider_requests = @ + 1]
  /\ UNCHANGED <<idle, behind, cancelled, proxy>>

\* The request goes out on an idle connection of its host, or waits for one.
Send(r) ==
  LET h == call[r].host IN
  /\ call[r].pc = "send"
  /\ \/ /\ r \in cancelled
        /\ Fails(r, "cancelled")
        /\ UNCHANGED idle
     \/ /\ r \notin cancelled /\ idle[h] > 0
        /\ call' = [call EXCEPT ![r].pc = "exchanging"]
        /\ idle' = [idle EXCEPT ![h] = @ - 1]
        /\ UNCHANGED usage
     \/ /\ r \notin cancelled /\ idle[h] = 0
        /\ call' = [call EXCEPT ![r].pc = "waiting"]
        /\ UNCHANGED <<idle, usage>>
  /\ UNCHANGED <<behind, cancelled, proxy>>

\* Mutant: a connection opens without a slot of its pool.
SlotAnyway(r) ==
  /\ call[r].pc = "waiting"
  /\ call' = [call EXCEPT ![r].pc = "connecting"]
  /\ UNCHANGED <<idle, behind, usage, cancelled, proxy>>

Slot(r) ==
  /\ call[r].pc = "waiting" /\ Free(PoolOf(call[r].host)) > 0
  /\ call' = [call EXCEPT ![r].pc = "connecting"]
  /\ UNCHANGED <<idle, behind, usage, cancelled, proxy>>

\* The tunnel through the proxy and its TLS are up.
Connected(r) ==
  /\ call[r].pc = "connecting" /\ permitted(call[r].host)
  /\ call' = [call EXCEPT ![r].pc = "exchanging"]
  /\ UNCHANGED <<idle, behind, usage, cancelled, proxy>>

\* The client puts a connection to h back once calls are `next`: a waiting call
\* of the host takes it, else it is kept idle while the host may keep one more.
PutBack(h, next) ==
  LET waiters == {w \in Request : next[w].pc \in Waiting /\ next[w].host = h} IN
  \/ \E w \in waiters :
       /\ call' = [next EXCEPT ![w].pc = "exchanging"]
       /\ behind' = [behind EXCEPT ![h][next[w].pc] = @ + 1]
       /\ idle' = idle
  \/ /\ waiters = {}
     /\ call' = next
     /\ behind' = behind
     /\ idle' = IF idle[h] < idle_per_host(Slots[PoolOf(h)])
                THEN [idle EXCEPT ![h] = @ + 1] ELSE idle

\* An attempt that may be made again is, after a pause; the last one ends the call.
Again(c) == IF c.attempt < c.attempts THEN [c EXCEPT !.pc = "sleeping"] ELSE Ended(c, "request")

Tallied(r, next) ==
  IF next.pc = "ended" /\ Counted(next.kind)
  THEN [usage EXCEPT ![r] = call_failed(@)] ELSE usage

\* The attempt gets no answer: no slot or connection in time, a broken or
\* oversized answer, or its time is up.  What it held or opened is dropped.
Unanswered(r) ==
  /\ call[r].pc \in InFlight
  /\ call' = [call EXCEPT ![r] = Again(@)]
  /\ usage' = Tallied(r, Again(call[r]))
  /\ UNCHANGED <<idle, behind, cancelled, proxy>>

\* A success, read by the adapter (or not), with its token counts (or without).
Answered(r) ==
  /\ call[r].pc = "exchanging"
  /\ \E parsed, reported \in BOOLEAN :
       /\ PutBack(call[r].host,
                  [call EXCEPT ![r] = Ended(@, IF parsed THEN "answered" ELSE "response")])
       /\ usage' = IF ~Counted(call[r].kind) THEN usage
                   ELSE [usage EXCEPT ![r] = IF parsed THEN answered(@, reported)
                                             ELSE call_failed(@)]
  /\ UNCHANGED <<cancelled, proxy>>

\* An answer that is no success: one the provider's SDK would retry, or not.
Refused(r) ==
  /\ call[r].pc = "exchanging"
  /\ \E should_retry \in BOOLEAN :
       LET next == IF should_retry THEN Again(call[r]) ELSE Ended(call[r], "request") IN
       /\ PutBack(call[r].host, [call EXCEPT ![r] = next])
       /\ usage' = Tallied(r, next)
  /\ UNCHANGED <<cancelled, proxy>>

Wake(r) ==
  /\ call[r].pc = "sleeping"
  /\ call' = [call EXCEPT ![r].pc = "attempt", ![r].attempt = @ + 1]
  /\ UNCHANGED <<idle, behind, usage, cancelled, proxy>>

\* A call that waits observes the cancellation.
Stop(r) ==
  /\ r \in cancelled /\ call[r].pc \in InFlight \cup {"sleeping"}
  /\ Fails(r, "cancelled")
  /\ UNCHANGED <<idle, behind, cancelled, proxy>>

\* What goes on in the background: connections left behind, idle ones.
Left(h, stage) == [behind EXCEPT ![h][stage] = @ - 1]

BehindSlot(h) ==
  /\ behind[h].waiting > 0 /\ Free(PoolOf(h)) > 0
  /\ behind' = [behind EXCEPT ![h] = [waiting |-> @.waiting - 1, connecting |-> @.connecting + 1]]
  /\ UNCHANGED <<call, idle, usage, cancelled, proxy>>

\* Connected, it becomes idle (a call waiting for its host takes it at once).
BehindConnected(h) ==
  /\ behind[h].connecting > 0 /\ permitted(h)
  /\ \/ \E w \in Request :
          /\ call[w].pc \in Waiting /\ call[w].host = h
          /\ LET stage == call[w].pc IN
             behind' = [behind EXCEPT ![h] = [Left(h, "connecting")[h] EXCEPT ![stage] = @ + 1]]
          /\ call' = [call EXCEPT ![w].pc = "exchanging"]
          /\ idle' = idle
     \/ /\ \A w \in Request : ~(call[w].pc \in Waiting /\ call[w].host = h)
        /\ behind' = Left(h, "connecting")
        /\ idle' = IF idle[h] < idle_per_host(Slots[PoolOf(h)])
                   THEN [idle EXCEPT ![h] = @ + 1] ELSE idle
        /\ call' = call
  /\ UNCHANGED <<usage, cancelled, proxy>>

BehindFails(h) ==
  \E stage \in Waiting :
    /\ behind[h][stage] > 0
    /\ behind' = Left(h, stage)
    /\ UNCHANGED <<call, idle, usage, cancelled, proxy>>

Expire(h) ==
  /\ idle[h] > 0
  /\ idle' = [idle EXCEPT ![h] = @ - 1]
  /\ UNCHANGED <<call, behind, usage, cancelled, proxy>>

CallStep(r) ==
  Refuse(r) \/ Attempt(r) \/ Send(r) \/ Slot(r) \/ Connected(r) \/ Unanswered(r)
  \/ Answered(r) \/ Refused(r) \/ Wake(r) \/ Stop(r)

PoolStep(h) == BehindSlot(h) \/ BehindConnected(h) \/ BehindFails(h) \/ Expire(h)

-----------------------------------------------------------------------------
(* Properties *)

CallType ==
  [pc : Calling \cup {"none", "ended"}, kind : DOMAIN Attempts, host : Host,
   attempt : 0..3, attempts : 0..3,
   result : {"none", "answered", "request", "response", "cancelled", "contract"}]

ProviderTypeOK ==
  /\ call \in [Request -> CallType]
  /\ idle \in [Host -> Nat]
  /\ behind \in [Host -> [waiting : Nat, connecting : Nat]]
  /\ \A r \in Request : \A n \in DOMAIN usage[r] : usage[r][n] \in Nat
  /\ cancelled \subseteq Request
  /\ \A p \in Pool : Free(p) >= 0

\* A call never waits for a slot that idle connections alone keep: "idle ones of
\* one host keep at most half of the pool's slots, so another host's calls always
\* find a slot instead of waiting behind them" (transport.rs:199-200).
WaitsBehindCalls ==
  \A r \in Request :
    call[r].pc = "waiting" /\ Free(PoolOf(call[r].host)) = 0
    => Busy(PoolOf(call[r].host)) > 0
=============================================================================
