---------------------------- MODULE ServerProofs ----------------------------
(***************************************************************************)
(* Theorems about Server: its provider calls over the pools, for every     *)
(* number of requests, every workload and every number of slots the two    *)
(* hosts of the shared pool can share.                                     *)
(***************************************************************************)
EXTENDS Server, FiniteSetTheorems, WellFoundedInduction, TLAPS

Usage ==
  [model_calls : Nat, failed_calls : Nat, unreported_calls : Nat,
   reported : Nat, provider_requests : Nat]

(* The pools' state has its types. *)
Typed ==
  /\ call \in [Request -> CallType]
  /\ idle \in [Host -> Nat]
  /\ behind \in [Host -> [waiting : Nat, connecting : Nat]]
  /\ usage \in [Request -> Usage]

(* An attempt that will be made again is not the last. *)
Counts ==
  \A r \in Request :
    /\ call[r].attempt <= call[r].attempts
    /\ call[r].pc = "sleeping" => call[r].attempt < call[r].attempts

(* A host keeps no more idle connections than its share. *)
Shared == \A h \in Host : idle[h] <= idle_per_host(Slots[PoolOf(h)])

(* A call that waits has taken whatever was idle of its host. *)
Reused == \A r \in Request : call[r].pc \in Waiting => idle[call[r].host] = 0

(* No pool holds more open connections than it has slots. *)
Bounded == \A p \in Pool : Free(p) >= 0

PoolInv == Typed /\ Counts /\ Shared /\ Reused /\ Bounded

-----------------------------------------------------------------------------
(* How many calls hold a slot of a pool *)

Holds(c, p) == c.pc \in {"connecting", "exchanging"} /\ PoolOf(c.host) = p

Holders(calls, p) == {r \in Request : Holds(calls[r], p)}

Weight(c, p) == IF Holds(c, p) THEN 1 ELSE 0

(* When one call changes, the number of holders changes by that one. *)
LEMMA HoldersOfOne ==
  ASSUME NEW c, NEW d, NEW p, NEW r \in Request,
         \A s \in Request \ {r} : d[s] = c[s]
  PROVE  /\ Cardinality(Holders(c, p)) \in Nat
         /\ Cardinality(Holders(d, p)) \in Nat
         /\ Cardinality(Holders(d, p))
              = Cardinality(Holders(c, p)) + Weight(d[r], p) - Weight(c[r], p)
PROOF
<1> DEFINE Rest == {s \in Request \ {r} : Holds(c[s], p)}
<1>1. IsFiniteSet(Rest) /\ r \notin Rest /\ Cardinality(Rest) \in Nat
  BY RequestAssumption, FS_Subset, FS_CardinalityType
<1>2. Cardinality(Rest \cup {r}) = Cardinality(Rest) + 1
  BY <1>1, FS_AddElement
<1>3. /\ Holders(c, p) = IF Holds(c[r], p) THEN Rest \cup {r} ELSE Rest
      /\ Holders(d, p) = IF Holds(d[r], p) THEN Rest \cup {r} ELSE Rest
  BY DEF Holders
<1> HIDE DEF Rest
<1> QED
  BY <1>1, <1>2, <1>3 DEF Weight

(* The slots of a pool that calls hold, that connections nobody waits for  *)
(* any more hold, and that idle ones hold.                                 *)
Using(p)  == Cardinality(Holders(call, p))
Behind(p) == InPool(p, [h \in Host |-> behind[h].connecting])
Idle(p)   == InPool(p, idle)

LEMMA FreeOf ==
  ASSUME NEW p \in Pool
  PROVE  /\ Free(p) = Slots[p] - (Using(p) + Behind(p)) - Idle(p)
         /\ Free(p)' = Slots[p] - (Using(p)' + Behind(p)') - Idle(p)'
PROOF BY DEF Free, Busy, Using, Holders, Holds, Behind, Idle

LEMMA Numbers ==
  ASSUME Typed, NEW p \in Pool
  PROVE  /\ Slots[p] \in Nat \ {0} /\ Using(p) \in Nat
         /\ Behind(p) \in Nat /\ Idle(p) \in Nat
PROOF
<1>1. Using(p) \in Nat
  BY RequestAssumption, FS_Subset, FS_CardinalityType DEF Using, Holders
<1> QED
  BY <1>1, SlotsAssumption DEF Typed, Behind, Idle, InPool, Host

(* The slots calls hold, after a step that changes one call.               *)
LEMMA UsingOfOne ==
  ASSUME Typed, NEW r \in Request, NEW new,
         call' = [call EXCEPT ![r] = new], NEW p
  PROVE  Using(p)' = Using(p) + Weight(new, p) - Weight(call[r], p)
PROOF
<1> DEFINE next == call'
<1>1. next[r] = new /\ \A s \in Request \ {r} : next[s] = call[s]
  BY DEF Typed
<1>2. Using(p)' = Cardinality(Holders(next, p))
  BY DEF Using
<1> HIDE DEF next
<1>3. Cardinality(Holders(next, p))
        = Cardinality(Holders(call, p)) + Weight(next[r], p) - Weight(call[r], p)
  BY <1>1, HoldersOfOne
<1> QED
  BY <1>1, <1>2, <1>3 DEF Using

-----------------------------------------------------------------------------
(* One call changes, the connections do not *)

(* A call may change as it likes, as long as it takes no slot that is not  *)
(* free, and waits only where nothing is idle.                             *)
LEMMA CallChanges ==
  ASSUME PoolInv, NEW r \in Request, NEW new \in CallType,
         call' = [call EXCEPT ![r] = new],
         UNCHANGED <<idle, behind>>, usage' \in [Request -> Usage],
         new.attempt <= new.attempts,
         new.pc = "sleeping" => new.attempt < new.attempts,
         new.pc \in Waiting => idle[new.host] = 0,
         \A p \in Pool : Holds(new, p) => Holds(call[r], p) \/ Free(p) > 0
  PROVE  PoolInv'
PROOF
<1>1. Typed'
  BY DEF PoolInv, Typed
<1>2. Counts' /\ Shared' /\ Reused'
  BY DEF PoolInv, Typed, Counts, Shared, Reused
<1>3. Bounded'
  <2> SUFFICES ASSUME NEW p \in Pool PROVE Free(p)' >= 0
    BY DEF Bounded
  <2>1. Using(p)' = Using(p) + Weight(new, p) - Weight(call[r], p)
    BY UsingOfOne DEF PoolInv
  <2>2. Behind(p)' = Behind(p) /\ Idle(p)' = Idle(p)
    BY DEF Behind, Idle
  <2>3. Free(p) >= 0 /\ (Holds(new, p) => Holds(call[r], p) \/ Free(p) > 0)
    BY DEF PoolInv, Bounded
  <2> QED
    BY <2>1, <2>2, <2>3, FreeOf, Numbers DEF Weight, PoolInv
<1> QED
  BY <1>1, <1>2, <1>3 DEF PoolInv

-----------------------------------------------------------------------------
(* The counters of a scope stay counters *)

LEMMA Tallies ==
  ASSUME usage \in [Request -> Usage], NEW r \in Request
  PROVE  /\ [usage EXCEPT ![r] = call_failed(@)] \in [Request -> Usage]
         /\ \A b \in BOOLEAN : [usage EXCEPT ![r] = answered(@, b)] \in [Request -> Usage]
         /\ \A c : Tallied(r, c) \in [Request -> Usage]
         /\ [usage EXCEPT ![r].model_calls = @ + 1] \in [Request -> Usage]
         /\ [usage EXCEPT ![r].provider_requests = @ + 1] \in [Request -> Usage]
PROOF BY DEF Usage, call_failed, answered, Tallied

-----------------------------------------------------------------------------
(* The steps of a call *)

LEMMA StartKeeps ==
  ASSUME PoolInv, NEW r \in Request, NEW kind \in DOMAIN Attempts, NEW h \in Host,
         StartCall(r, kind, h), UNCHANGED <<idle, behind>>
  PROVE  PoolInv'
PROOF
<1> DEFINE new == [pc |-> IF Counted(kind) THEN "attempt" ELSE "send", kind |-> kind,
                   host |-> h, attempt |-> 1, attempts |-> Attempts[kind],
                   result |-> "none"]
<1>1. Attempts[kind] \in 1..3
  BY DEF Attempts
<1>2. new \in CallType
  BY <1>1 DEF CallType, Calling, InFlight, Waiting
<1>3. usage' \in [Request -> Usage]
  BY Tallies DEF StartCall, PoolInv, Typed
<1>4. call' = [call EXCEPT ![r] = new] /\ new.pc \in {"attempt", "send"}
  BY DEF StartCall
<1>5. new.attempt <= new.attempts /\ ~Holds(new, "jev") /\ ~Holds(new, "providers")
  BY <1>1 DEF Holds
<1> HIDE DEF new
<1> QED
  BY <1>2, <1>3, <1>4, <1>5, CallChanges DEF Pool, Waiting

(* The call ends with a failure. *)
LEMMA FailsKeeps ==
  ASSUME PoolInv, NEW r \in Request,
         NEW result \in {"request", "cancelled", "contract"},
         Fails(r, result), UNCHANGED <<idle, behind>>
  PROVE  PoolInv'
PROOF
<1> DEFINE new == Ended(call[r], result)
<1>1. call[r] \in CallType /\ call[r].attempt <= call[r].attempts
  BY DEF PoolInv, Typed, Counts
<1>2. new \in CallType /\ new.pc = "ended" /\ new.attempt <= new.attempts
  BY <1>1 DEF Ended, CallType
<1>3. call' = [call EXCEPT ![r] = new]
  BY DEF Fails
<1>4. usage' \in [Request -> Usage]
  BY Tallies DEF Fails, PoolInv, Typed
<1> HIDE DEF new
<1> QED
  BY <1>2, <1>3, <1>4, CallChanges DEF Waiting, Holds

(* A call moves on, with the connections as they are. *)
LEMMA MoveKeeps ==
  ASSUME PoolInv, NEW r \in Request,
         NEW pc \in Calling \ {"sleeping"},
         call' = [call EXCEPT ![r].pc = pc],
         UNCHANGED <<idle, behind>>, usage' \in [Request -> Usage],
         pc \in Waiting => idle[call[r].host] = 0,
         pc \in {"connecting", "exchanging"} =>
           \/ call[r].pc \in {"connecting", "exchanging"}
           \/ Free(PoolOf(call[r].host)) > 0
  PROVE  PoolInv'
PROOF
<1> DEFINE new == [call[r] EXCEPT !.pc = pc]
<1>1. call[r] \in CallType /\ call[r].attempt <= call[r].attempts
  BY DEF PoolInv, Typed, Counts
<1>2. /\ new \in CallType /\ new.pc = pc /\ new.host = call[r].host
      /\ new.attempt <= new.attempts
  BY <1>1 DEF CallType
<1>3. call' = [call EXCEPT ![r] = new]
  OBVIOUS
<1>4. \A p \in Pool : Holds(new, p) => Holds(call[r], p) \/ Free(p) > 0
  BY <1>2 DEF Holds
<1> HIDE DEF new
<1> QED
  BY <1>2, <1>3, <1>4, CallChanges

(* An attempt that failed is made again after a pause, or was the last. *)
LEMMA AgainTyped ==
  ASSUME PoolInv, NEW r \in Request
  PROVE  LET new == Again(call[r]) IN
         /\ new \in CallType /\ new.host = call[r].host
         /\ new.pc \in {"ended", "sleeping"} /\ new.attempt <= new.attempts
         /\ new.pc = "sleeping" => new.attempt < new.attempts
PROOF
<1>1. call[r] \in CallType /\ call[r].attempt <= call[r].attempts
  BY DEF PoolInv, Typed, Counts
<1> QED
  BY <1>1 DEF Again, Ended, CallType, Calling

LEMMA UnansweredKeeps ==
  ASSUME PoolInv, NEW r \in Request, Unanswered(r)
  PROVE  PoolInv'
PROOF
<1> DEFINE new == Again(call[r])
<1>1. /\ new \in CallType /\ new.pc \in {"ended", "sleeping"}
      /\ new.attempt <= new.attempts
      /\ new.pc = "sleeping" => new.attempt < new.attempts
  BY AgainTyped
<1>2. call' = [call EXCEPT ![r] = new] /\ UNCHANGED <<idle, behind>>
  BY DEF Unanswered
<1>3. usage' \in [Request -> Usage]
  BY Tallies DEF Unanswered, PoolInv, Typed
<1> HIDE DEF new
<1> QED
  BY <1>1, <1>2, <1>3, CallChanges DEF Waiting, Holds

LEMMA WakeKeeps ==
  ASSUME PoolInv, NEW r \in Request, Wake(r)
  PROVE  PoolInv'
PROOF
<1> DEFINE new == [call[r] EXCEPT !.pc = "attempt", !.attempt = @ + 1]
<1>1. call[r] \in CallType /\ call[r].attempt < call[r].attempts
  BY DEF PoolInv, Typed, Counts, Wake
<1>2. new \in CallType /\ new.pc = "attempt" /\ new.attempt <= new.attempts
  <2>1. /\ call[r].attempt + 1 \in 0..3
        /\ call[r].attempt + 1 <= call[r].attempts
    BY <1>1 DEF CallType
  <2> DEFINE n == call[r].attempt + 1
  <2>2. new = [call[r] EXCEPT !.pc = "attempt", !.attempt = n]
    OBVIOUS
  <2>3. n \in 0..3 /\ n <= call[r].attempts
    BY <2>1
  <2> HIDE DEF n
  <2> QED
    BY <1>1, <2>2, <2>3 DEF CallType, Calling
<1>3. /\ call' = [call EXCEPT ![r] = new] /\ UNCHANGED <<idle, behind>>
      /\ usage' \in [Request -> Usage]
  BY DEF Wake, PoolInv, Typed
<1> HIDE DEF new
<1> QED
  BY <1>2, <1>3, CallChanges DEF Waiting, Holds

(* A request goes out on an idle connection: its slot passes to the call.  *)
LEMMA SendKeeps ==
  ASSUME PoolInv, NEW r \in Request, Send(r)
  PROVE  PoolInv'
PROOF
<1>1. CASE r \in cancelled
  BY <1>1, FailsKeeps DEF Send
<1>2. CASE r \notin cancelled /\ idle[call[r].host] = 0
  <2>1. /\ call' = [call EXCEPT ![r].pc = "waiting"] /\ UNCHANGED <<idle, behind>>
        /\ usage' \in [Request -> Usage]
    BY <1>2 DEF Send, PoolInv, Typed
  <2> QED
    BY <1>2, <2>1, MoveKeeps DEF Calling, InFlight, Waiting
<1>3. CASE r \notin cancelled /\ idle[call[r].host] > 0
  <2> DEFINE h == call[r].host
             new == [call[r] EXCEPT !.pc = "exchanging"]
  <2>1. /\ call' = [call EXCEPT ![r] = new]
        /\ idle' = [idle EXCEPT ![h] = @ - 1] /\ UNCHANGED <<behind, usage>>
        /\ call[r].pc = "send" /\ call[r] \in CallType /\ h \in Host
        /\ idle[h] \in Nat \ {0}
    BY <1>3 DEF Send, PoolInv, Typed, CallType
  <2>2. new \in CallType /\ new.pc = "exchanging" /\ new.host = h
    BY <2>1 DEF CallType, Calling, InFlight
  <2>3. Typed'
    <3>1. call' \in [Request -> CallType]
      <4> HIDE DEF new
      <4> QED
        BY <2>1, <2>2 DEF PoolInv, Typed
    <3>2. idle' \in [Host -> Nat]
      <4>1. idle[h] - 1 \in Nat
        BY <2>1
      <4> HIDE DEF h, new
      <4> QED
        BY <2>1, <4>1 DEF PoolInv, Typed
    <3> QED
      BY <2>1, <3>1, <3>2 DEF PoolInv, Typed
  <2>4. Counts' /\ Shared'
    <3>1. new.attempt = call[r].attempt /\ new.attempts = call[r].attempts
      BY <2>1 DEF CallType
    <3>2. idle'[h] = idle[h] - 1 /\ \A g \in Host \ {h} : idle'[g] = idle[g]
      BY <2>1 DEF PoolInv, Typed
    <3>3. Shared'
      <4> SUFFICES ASSUME NEW g \in Host
                   PROVE  idle'[g] <= idle_per_host(Slots[PoolOf(g)])
        BY DEF Shared
      <4>1. idle_per_host(Slots[PoolOf(g)]) \in Nat
        BY SlotsAssumption DEF PoolOf, Pool, idle_per_host
      <4> QED
        BY <2>1, <3>2, <4>1 DEF PoolInv, Typed, Shared
    <3>4. Counts'
      BY <2>1, <2>2, <3>1 DEF PoolInv, Typed, Counts
    <3> QED
      BY <3>3, <3>4
  <2>5. Reused'
    BY <2>1, <2>2 DEF PoolInv, Typed, Reused, Waiting
  <2>6. Bounded'
    <3> SUFFICES ASSUME NEW p \in Pool PROVE Free(p)' >= 0
      BY DEF Bounded
    <3>1. Using(p)' = Using(p) + Weight(new, p) - Weight(call[r], p)
      BY <2>1, UsingOfOne DEF PoolInv
    <3>2. /\ Weight(call[r], p) = 0
          /\ Weight(new, p) = IF PoolOf(h) = p THEN 1 ELSE 0
      BY <2>1, <2>2 DEF Weight, Holds
    <3>3. Behind(p)' = Behind(p)
      BY <2>1 DEF Behind
    <3>4. Idle(p)' = Idle(p) - (IF PoolOf(h) = p THEN 1 ELSE 0)
      BY <2>1 DEF Idle, InPool, PoolOf, Host, Pool, PoolInv, Typed
    <3>5. Free(p) >= 0
      BY DEF PoolInv, Bounded
    <3> QED
      BY <3>1, <3>2, <3>3, <3>4, <3>5, FreeOf, Numbers DEF PoolInv
  <2> QED
    BY <2>3, <2>4, <2>5, <2>6 DEF PoolInv
<1>4. idle[call[r].host] \in Nat
  BY DEF PoolInv, Typed, CallType
<1> QED
  BY <1>1, <1>2, <1>3, <1>4

(* The slots calls hold, after a step that changes two of them.            *)
OnlyTwo(c, d, r, w) == \A s \in Request : s # r /\ s # w => d[s] = c[s]

LEMMA HoldersOfTwo ==
  ASSUME NEW c, NEW d, NEW p, NEW r \in Request, NEW w \in Request, w # r,
         OnlyTwo(c, d, r, w)
  PROVE  Cardinality(Holders(d, p))
           = Cardinality(Holders(c, p)) + Weight(d[r], p) - Weight(c[r], p)
                                        + Weight(d[w], p) - Weight(c[w], p)
PROOF
<1>1. PICK mid : mid = [s \in Request |-> IF s = r THEN d[r] ELSE c[s]]
  OBVIOUS
<1>2. /\ mid[r] = d[r] /\ mid[w] = c[w]
      /\ \A s \in Request \ {r} : mid[s] = c[s]
      /\ \A s \in Request \ {w} : d[s] = mid[s]
  BY <1>1 DEF OnlyTwo
<1>3. /\ Cardinality(Holders(c, p)) \in Nat
      /\ Cardinality(Holders(mid, p)) \in Nat
      /\ Cardinality(Holders(mid, p))
           = Cardinality(Holders(c, p)) + Weight(mid[r], p) - Weight(c[r], p)
  BY ONLY <1>2, HoldersOfOne, r \in Request
<1>4. Cardinality(Holders(d, p))
        = Cardinality(Holders(mid, p)) + Weight(d[w], p) - Weight(mid[w], p)
  BY ONLY <1>2, HoldersOfOne, w \in Request
<1>5. /\ Weight(d[r], p) \in Int /\ Weight(c[r], p) \in Int
      /\ Weight(d[w], p) \in Int /\ Weight(c[w], p) \in Int
  BY DEF Weight
<1> QED
  BY <1>2, <1>3, <1>4, <1>5

LEMMA UsingOfTwo ==
  ASSUME NEW r \in Request, NEW w \in Request, w # r, NEW new, NEW taken, NEW p,
         call'[r] = new, call'[w] = taken,
         \A s \in Request : s # r /\ s # w => call'[s] = call[s]
  PROVE  Using(p)' = Using(p) + Weight(new, p) - Weight(call[r], p)
                              + Weight(taken, p) - Weight(call[w], p)
PROOF
<1>1. PICK c, d : c = call /\ d = call'
  OBVIOUS
<1>2. OnlyTwo(c, d, r, w)
  BY <1>1 DEF OnlyTwo
<1>3. Cardinality(Holders(d, p))
        = Cardinality(Holders(c, p)) + Weight(d[r], p) - Weight(c[r], p)
                                     + Weight(d[w], p) - Weight(c[w], p)
  BY ONLY <1>2, HoldersOfTwo, r \in Request, w \in Request, w # r
<1> QED
  BY <1>1, <1>3 DEF Using

(* One connection of pool p more, or fewer, of host h. *)
At(h, p) == IF PoolOf(h) = p THEN 1 ELSE 0

LEMMA IdleOfOne ==
  ASSUME Typed, NEW h \in Host, idle' = [idle EXCEPT ![h] = @ + 1], NEW p \in Pool
  PROVE  Idle(p)' = Idle(p) + At(h, p)
PROOF BY DEF Idle, InPool, PoolOf, Host, Pool, Typed, At

LEMMA BehindOfOne ==
  ASSUME Typed, NEW h \in Host, NEW new \in [waiting : Nat, connecting : Nat],
         behind' = [behind EXCEPT ![h] = new], NEW p \in Pool
  PROVE  Behind(p)' = Behind(p)
           + (IF PoolOf(h) = p THEN new.connecting - behind[h].connecting ELSE 0)
PROOF BY DEF Behind, InPool, PoolOf, Host, Pool, Typed

(* A host that keeps one more idle connection stays within its share.      *)
LEMMA SharedOfOne ==
  ASSUME Typed, Shared, NEW h \in Host,
         \/ UNCHANGED idle
         \/ idle' = [idle EXCEPT ![h] = @ - 1]
         \/ /\ idle[h] < idle_per_host(Slots[PoolOf(h)])
            /\ idle' = [idle EXCEPT ![h] = @ + 1]
  PROVE  Shared'
PROOF
<1> SUFFICES ASSUME NEW g \in Host PROVE idle'[g] <= idle_per_host(Slots[PoolOf(g)])
  BY DEF Shared
<1>1. idle_per_host(Slots[PoolOf(g)]) \in Nat
  BY SlotsAssumption DEF PoolOf, Pool, idle_per_host
<1>2. idle[g] \in Nat /\ idle[g] <= idle_per_host(Slots[PoolOf(g)])
  BY DEF Typed, Shared
<1>3. CASE g = h
  BY <1>1, <1>2, <1>3 DEF Typed
<1>4. CASE g # h
  BY <1>1, <1>2, <1>4 DEF Typed
<1> QED
  BY <1>3, <1>4

(* A call gives its connection back: a waiting call of the host takes it,  *)
(* and leaves behind what it opened, or it becomes idle or is dropped.     *)
LEMMA PutBackKeeps ==
  ASSUME PoolInv, NEW r \in Request, call[r].pc = "exchanging",
         NEW new \in CallType, new.host = call[r].host,
         new.pc \in {"ended", "sleeping"}, new.attempt <= new.attempts,
         new.pc = "sleeping" => new.attempt < new.attempts,
         PutBack(call[r].host, [call EXCEPT ![r] = new]),
         usage' \in [Request -> Usage]
  PROVE  PoolInv'
PROOF
<1> DEFINE h == call[r].host
           next == [call EXCEPT ![r] = new]
           waiters == {w \in Request : next[w].pc \in Waiting /\ next[w].host = h}
<1>1. /\ call \in [Request -> CallType] /\ h \in Host
      /\ next \in [Request -> CallType] /\ next[r] = new
      /\ \A s \in Request \ {r} : next[s] = call[s]
  BY DEF PoolInv, Typed, CallType
<1>2. /\ behind[h] \in [waiting : Nat, connecting : Nat] /\ idle[h] \in Nat
  BY <1>1 DEF PoolInv, Typed
<1>3. \A p \in Pool : Weight(new, p) = 0 /\ Weight(call[r], p) = At(h, p)
  BY DEF Weight, Holds, At
<1>4. CASE \E w \in waiters :
             /\ call' = [next EXCEPT ![w].pc = "exchanging"]
             /\ behind' = [behind EXCEPT ![h][next[w].pc] = @ + 1]
             /\ idle' = idle
  <2>1. PICK w \in waiters :
             /\ call' = [next EXCEPT ![w].pc = "exchanging"]
             /\ behind' = [behind EXCEPT ![h][next[w].pc] = @ + 1]
             /\ idle' = idle
    BY <1>4
  <2>2. /\ w \in Request \ {r} /\ next[w] = call[w]
        /\ call[w] \in CallType /\ call[w].pc \in Waiting /\ call[w].host = h
    BY <1>1 DEF Waiting
  <2> DEFINE taken == [call[w] EXCEPT !.pc = "exchanging"]
             open == [behind[h] EXCEPT ![call[w].pc] = @ + 1]
  <2>3. /\ taken \in CallType /\ taken.pc = "exchanging" /\ taken.host = h
        /\ taken.attempt = call[w].attempt /\ taken.attempts = call[w].attempts
    BY <2>2 DEF CallType, Calling, InFlight
  <2>4. call' = [next EXCEPT ![w] = taken] /\ behind' = [behind EXCEPT ![h] = open]
    BY <2>1, <2>2
  <2>5. /\ open \in [waiting : Nat, connecting : Nat]
        /\ open.connecting - behind[h].connecting
             = IF call[w].pc = "connecting" THEN 1 ELSE 0
    BY <1>2, <2>2 DEF Waiting
  <2> HIDE DEF taken, open
  <2>6. Typed'
    <3>1. call' \in [Request -> CallType]
      BY <1>1, <2>3, <2>4
    <3>2. behind' \in [Host -> [waiting : Nat, connecting : Nat]]
      BY <1>1, <2>4, <2>5 DEF PoolInv, Typed
    <3> QED
      BY <2>1, <3>1, <3>2 DEF PoolInv, Typed
  <2>7. Counts'
    <3>1. \A s \in Request : call'[s] = IF s = w THEN taken
                                       ELSE IF s = r THEN new ELSE call[s]
      BY <1>1, <2>2, <2>4
    <3> QED
      BY <2>2, <2>3, <3>1 DEF PoolInv, Counts
  <2>8. Reused'
    <3>1. \A s \in Request : call'[s] = IF s = w THEN taken
                                       ELSE IF s = r THEN new ELSE call[s]
      BY <1>1, <2>2, <2>4
    <3>2. idle' = idle /\ \A s \in Request : call[s].pc \in Waiting => idle[call[s].host] = 0
      BY <2>1 DEF PoolInv, Reused
    <3>3. taken.pc \notin Waiting /\ new.pc \notin Waiting
      BY <2>3 DEF Waiting
    <3> SUFFICES ASSUME NEW s \in Request, call'[s].pc \in Waiting
                 PROVE  idle'[call'[s].host] = 0
      BY DEF Reused
    <3>4. call'[s] = call[s]
      BY <3>1, <3>3, Zenon
    <3> QED
      BY <3>2, <3>4, Zenon
  <2>9. Bounded'
    <3> SUFFICES ASSUME NEW p \in Pool PROVE Free(p)' >= 0
      BY DEF Bounded
    <3>1. Using(p)' = Using(p) + Weight(new, p) - Weight(call[r], p)
                               + Weight(taken, p) - Weight(call[w], p)
      <4>1. /\ call'[r] = new /\ call'[w] = taken /\ w \in Request /\ w # r
            /\ \A s \in Request : s # r /\ s # w => call'[s] = call[s]
        BY <1>1, <2>2, <2>4
      <4> HIDE DEF waiters, next
      <4> QED
        BY <4>1, UsingOfTwo
    <3>2. /\ Weight(taken, p) = At(h, p)
          /\ Weight(call[w], p) = IF call[w].pc = "connecting" THEN At(h, p) ELSE 0
      BY <2>2, <2>3 DEF Weight, Holds, At, Waiting
    <3>3. Behind(p)' = Behind(p) + (IF call[w].pc = "connecting" THEN At(h, p) ELSE 0)
      <4>1. Behind(p)' = Behind(p)
              + (IF PoolOf(h) = p THEN open.connecting - behind[h].connecting ELSE 0)
        <5>1. Typed /\ behind' = [behind EXCEPT ![h] = open]
              /\ open \in [waiting : Nat, connecting : Nat] /\ h \in Host
          BY <1>1, <2>4, <2>5 DEF PoolInv
        <5> QED
          BY ONLY <5>1, BehindOfOne, p \in Pool
      <4> QED
        BY <2>5, <4>1 DEF At
    <3>4. Idle(p)' = Idle(p)
      BY <2>1 DEF Idle
    <3>5. Free(p) >= 0 /\ At(h, p) \in Nat
      BY DEF PoolInv, Bounded, At
    <3>6. Free(p)' = Free(p)
      BY <1>3, <3>1, <3>2, <3>3, <3>4, <3>5, FreeOf, Numbers DEF PoolInv
    <3> QED
      BY <3>5, <3>6
  <2>10. Shared'
    BY <2>1, <1>1, SharedOfOne DEF PoolInv
  <2> QED
    BY <2>6, <2>7, <2>8, <2>9, <2>10 DEF PoolInv
<1>5. CASE /\ waiters = {}
           /\ call' = next /\ behind' = behind
           /\ idle' = IF idle[h] < idle_per_host(Slots[PoolOf(h)])
                      THEN [idle EXCEPT ![h] = @ + 1] ELSE idle
  <2>1. Typed' /\ Counts'
    BY <1>1, <1>2, <1>5 DEF PoolInv, Typed, Counts
  <2>2. Reused'
    BY <1>1, <1>5 DEF PoolInv, Typed, Reused, Waiting
  <2>3. Shared'
    BY <1>1, <1>5, SharedOfOne DEF PoolInv
  <2>4. Bounded'
    <3> SUFFICES ASSUME NEW p \in Pool PROVE Free(p)' >= 0
      BY DEF Bounded
    <3>1. Using(p)' = Using(p) + Weight(new, p) - Weight(call[r], p)
      BY <1>5, UsingOfOne DEF PoolInv
    <3>2. Behind(p)' = Behind(p)
      BY <1>5 DEF Behind
    <3>3. Idle(p)' \in {Idle(p), Idle(p) + At(h, p)}
      <4>1. CASE idle' = idle
        BY <4>1 DEF Idle
      <4>2. CASE idle' = [idle EXCEPT ![h] = @ + 1]
        BY <1>1, <4>2, IdleOfOne DEF PoolInv
      <4> QED
        BY <1>5, <4>1, <4>2
    <3>4. Free(p) >= 0 /\ At(h, p) \in Nat
      BY DEF PoolInv, Bounded, At
    <3> QED
      BY <1>3, <3>1, <3>2, <3>3, <3>4, FreeOf, Numbers DEF PoolInv
  <2> QED
    BY <2>1, <2>2, <2>3, <2>4 DEF PoolInv
<1> QED
  BY <1>4, <1>5 DEF PutBack

LEMMA AnsweredKeeps ==
  ASSUME PoolInv, NEW r \in Request, Answered(r)
  PROVE  PoolInv'
PROOF
<1>1. PICK parsed \in BOOLEAN, reported \in BOOLEAN :
        /\ PutBack(call[r].host,
                   [call EXCEPT ![r] = Ended(@, IF parsed THEN "answered" ELSE "response")])
        /\ usage' = IF ~Counted(call[r].kind) THEN usage
                    ELSE [usage EXCEPT ![r] = IF parsed THEN answered(@, reported)
                                              ELSE call_failed(@)]
  BY DEF Answered
<1> DEFINE new == Ended(call[r], IF parsed THEN "answered" ELSE "response")
<1>2. /\ call[r] \in CallType /\ call[r].attempt <= call[r].attempts
      /\ call[r].pc = "exchanging"
  BY DEF PoolInv, Typed, Counts, Answered
<1>3. /\ new \in CallType /\ new.pc = "ended" /\ new.attempt <= new.attempts
      /\ new.host = call[r].host
  BY <1>2 DEF Ended, CallType
<1>4. PutBack(call[r].host, [call EXCEPT ![r] = new])
  BY <1>1
<1>5. usage' \in [Request -> Usage]
  BY <1>1, Tallies DEF PoolInv, Typed
<1> HIDE DEF new
<1> QED
  BY <1>2, <1>3, <1>4, <1>5, PutBackKeeps

LEMMA RefusedKeeps ==
  ASSUME PoolInv, NEW r \in Request, Refused(r)
  PROVE  PoolInv'
PROOF
<1>1. PICK new \in {Again(call[r]), Ended(call[r], "request")} :
        PutBack(call[r].host, [call EXCEPT ![r] = new]) /\ usage' = Tallied(r, new)
  BY DEF Refused
<1>2. /\ call[r] \in CallType /\ call[r].attempt <= call[r].attempts
      /\ call[r].pc = "exchanging"
  BY DEF PoolInv, Typed, Counts, Refused
<1>3. /\ new \in CallType /\ new.pc \in {"ended", "sleeping"}
      /\ new.attempt <= new.attempts /\ new.host = call[r].host
      /\ new.pc = "sleeping" => new.attempt < new.attempts
  BY <1>2, AgainTyped DEF Ended, CallType
<1>4. usage' \in [Request -> Usage]
  BY <1>1, Tallies DEF PoolInv, Typed
<1> QED
  BY <1>1, <1>2, <1>3, <1>4, PutBackKeeps

(* Every step of a call. *)
LEMMA CallStepKeeps ==
  ASSUME PoolInv, NEW r \in Request, CallStep(r)
  PROVE  PoolInv'
PROOF
<1>1. /\ call[r] \in CallType /\ call[r].host \in Host
      /\ usage \in [Request -> Usage]
  BY DEF PoolInv, Typed, CallType
<1>2. CASE Refuse(r)
  BY <1>2, FailsKeeps DEF Refuse
<1>3. CASE Attempt(r)
  <2>1. CASE r \in cancelled
    BY <1>3, <2>1, FailsKeeps DEF Attempt
  <2>2. CASE r \notin cancelled
    <3>1. /\ call' = [call EXCEPT ![r].pc = "send"] /\ UNCHANGED <<idle, behind>>
          /\ usage' \in [Request -> Usage]
      BY <1>1, <1>3, <2>2, Tallies DEF Attempt
    <3> QED
      BY <3>1, MoveKeeps DEF Calling, Waiting, InFlight
  <2> QED
    BY <2>1, <2>2
<1>4. CASE Send(r)
  BY <1>4, SendKeeps
<1>5. CASE Slot(r)
  <2>1. /\ call' = [call EXCEPT ![r].pc = "connecting"] /\ UNCHANGED <<idle, behind>>
        /\ usage' \in [Request -> Usage] /\ Free(PoolOf(call[r].host)) > 0
        /\ idle[call[r].host] = 0
    BY <1>1, <1>5 DEF Slot, PoolInv, Reused, Waiting
  <2> QED
    BY <2>1, MoveKeeps DEF Calling, Waiting, InFlight
<1>6. CASE Connected(r)
  <2>1. /\ call' = [call EXCEPT ![r].pc = "exchanging"] /\ UNCHANGED <<idle, behind>>
        /\ usage' \in [Request -> Usage] /\ call[r].pc = "connecting"
    BY <1>1, <1>6 DEF Connected
  <2> QED
    BY <2>1, MoveKeeps DEF Calling, Waiting, InFlight
<1>7. CASE Unanswered(r)
  BY <1>7, UnansweredKeeps
<1>8. CASE Answered(r) \/ Refused(r)
  BY <1>8, AnsweredKeeps, RefusedKeeps
<1>9. CASE Wake(r)
  BY <1>9, WakeKeeps
<1>10. CASE Stop(r)
  BY <1>10, FailsKeeps DEF Stop
<1> QED
  BY <1>2, <1>3, <1>4, <1>5, <1>6, <1>7, <1>8, <1>9, <1>10 DEF CallStep

-----------------------------------------------------------------------------
(* The connections no call waits for *)

LEMMA PoolStepKeeps ==
  ASSUME PoolInv, NEW h \in Host, PoolStep(h)
  PROVE  PoolInv'
PROOF
<1>0. /\ call \in [Request -> CallType] /\ usage' \in [Request -> Usage]
      /\ behind[h] \in [waiting : Nat, connecting : Nat] /\ idle[h] \in Nat
      /\ PoolOf(h) \in Pool
  BY DEF PoolInv, Typed, PoolStep, BehindSlot, BehindConnected, BehindFails, Expire,
         PoolOf, Pool
<1>1. CASE BehindSlot(h)
  <2> DEFINE open == [waiting |-> behind[h].waiting - 1, connecting |-> behind[h].connecting + 1]
  <2>1. /\ behind' = [behind EXCEPT ![h] = open] /\ UNCHANGED <<call, idle, usage>>
        /\ open \in [waiting : Nat, connecting : Nat]
        /\ open.connecting = behind[h].connecting + 1
        /\ Free(PoolOf(h)) > 0
    BY <1>0, <1>1 DEF BehindSlot
  <2> HIDE DEF open
  <2>2. Typed' /\ Counts' /\ Shared' /\ Reused'
    BY <2>1 DEF PoolInv, Typed, Counts, Shared, Reused
  <2>3. Bounded'
    <3> SUFFICES ASSUME NEW p \in Pool PROVE Free(p)' >= 0
      BY DEF Bounded
    <3>1. Behind(p)' = Behind(p)
            + (IF PoolOf(h) = p THEN open.connecting - behind[h].connecting ELSE 0)
      BY <2>1, BehindOfOne DEF PoolInv
    <3>2. Using(p)' = Using(p) /\ Idle(p)' = Idle(p)
      BY <2>1 DEF Using, Idle
    <3>3. Free(p) >= 0 /\ (PoolOf(h) = p => Free(p) > 0)
      BY <2>1 DEF PoolInv, Bounded
    <3> QED
      BY <1>0, <2>1, <3>1, <3>2, <3>3, FreeOf, Numbers DEF PoolInv
  <2> QED
    BY <2>2, <2>3 DEF PoolInv
<1>2. CASE BehindFails(h)
  <2>1. PICK stage \in Waiting : behind[h][stage] > 0 /\ behind' = Left(h, stage)
    BY <1>2 DEF BehindFails
  <2> DEFINE open == [behind[h] EXCEPT ![stage] = @ - 1]
  <2>2. /\ behind' = [behind EXCEPT ![h] = open] /\ UNCHANGED <<call, idle, usage>>
        /\ open \in [waiting : Nat, connecting : Nat]
        /\ open.connecting <= behind[h].connecting
    <3>1. stage \in {"waiting", "connecting"} /\ behind[h][stage] \in Nat \ {0}
      BY <1>0, <2>1 DEF Waiting
    <3>2. behind' = [behind EXCEPT ![h] = open] /\ UNCHANGED <<call, idle, usage>>
      BY <1>2, <2>1 DEF BehindFails, Left
    <3>3. CASE stage = "waiting"
      BY <1>0, <3>1, <3>2, <3>3
    <3>4. CASE stage = "connecting"
      BY <1>0, <3>1, <3>2, <3>4
    <3> QED
      BY <3>1, <3>3, <3>4
  <2> HIDE DEF open
  <2>3. Typed' /\ Counts' /\ Shared' /\ Reused'
    BY <2>2 DEF PoolInv, Typed, Counts, Shared, Reused
  <2>4. Bounded'
    <3> SUFFICES ASSUME NEW p \in Pool PROVE Free(p)' >= 0
      BY DEF Bounded
    <3>1. Behind(p)' = Behind(p)
            + (IF PoolOf(h) = p THEN open.connecting - behind[h].connecting ELSE 0)
      BY <2>2, BehindOfOne DEF PoolInv
    <3>2. Using(p)' = Using(p) /\ Idle(p)' = Idle(p)
      BY <2>2 DEF Using, Idle
    <3>3. Free(p) >= 0
      BY DEF PoolInv, Bounded
    <3> QED
      BY <1>0, <2>2, <3>1, <3>2, <3>3, FreeOf, Numbers DEF PoolInv
  <2> QED
    BY <2>3, <2>4 DEF PoolInv
<1>3. CASE Expire(h)
  <2>1. /\ idle' = [idle EXCEPT ![h] = @ - 1] /\ UNCHANGED <<call, behind, usage>>
        /\ idle[h] > 0
    BY <1>3 DEF Expire
  <2>2. Typed' /\ Counts' /\ Reused'
    BY <1>0, <2>1 DEF PoolInv, Typed, Counts, Reused, Waiting, CallType
  <2>3. Shared'
    BY <2>1, SharedOfOne DEF PoolInv
  <2>4. Bounded'
    <3> SUFFICES ASSUME NEW p \in Pool PROVE Free(p)' >= 0
      BY DEF Bounded
    <3>1. Using(p)' = Using(p) /\ Behind(p)' = Behind(p)
      BY <2>1 DEF Using, Behind
    <3>2. Idle(p)' <= Idle(p) /\ Idle(p)' \in Nat
      BY <1>0, <2>1 DEF Idle, InPool, Host, PoolInv, Typed
    <3>3. Free(p) >= 0
      BY DEF PoolInv, Bounded
    <3> QED
      BY <3>1, <3>2, <3>3, FreeOf, Numbers DEF PoolInv
  <2> QED
    BY <2>2, <2>3, <2>4 DEF PoolInv
<1>4. CASE /\ behind[h].connecting > 0 /\ UNCHANGED usage
           /\ \E w \in Request :
                /\ call[w].pc \in Waiting /\ call[w].host = h
                /\ LET stage == call[w].pc IN
                   behind' = [behind EXCEPT ![h] = [Left(h, "connecting")[h] EXCEPT ![stage] = @ + 1]]
                /\ call' = [call EXCEPT ![w].pc = "exchanging"]
                /\ idle' = idle
  <2>1. PICK w \in Request :
          /\ call[w].pc \in Waiting /\ call[w].host = h
          /\ LET stage == call[w].pc IN
             behind' = [behind EXCEPT ![h] = [Left(h, "connecting")[h] EXCEPT ![stage] = @ + 1]]
          /\ call' = [call EXCEPT ![w].pc = "exchanging"]
          /\ idle' = idle
    BY <1>4
  <2> DEFINE new == [call[w] EXCEPT !.pc = "exchanging"]
             less == [behind[h] EXCEPT !.connecting = @ - 1]
             open == [less EXCEPT ![call[w].pc] = @ + 1]
  <2>2. /\ call[w] \in CallType /\ new \in CallType /\ new.pc = "exchanging"
        /\ new.host = h /\ new.attempt = call[w].attempt
        /\ new.attempts = call[w].attempts
    BY <1>0, <2>1 DEF CallType, Calling, InFlight
  <2>3. /\ call' = [call EXCEPT ![w] = new] /\ behind' = [behind EXCEPT ![h] = open]
    BY <1>0, <2>1 DEF Left, PoolInv, Typed
  <2>4. /\ open \in [waiting : Nat, connecting : Nat]
        /\ open.connecting = behind[h].connecting
             - (IF call[w].pc = "connecting" THEN 0 ELSE 1)
    <3>1. less \in [waiting : Nat, connecting : Nat] /\ less.connecting = behind[h].connecting - 1
      BY <1>0, <1>4
    <3>2. call[w].pc \in {"waiting", "connecting"}
      BY <2>1 DEF Waiting
    <3> HIDE DEF less
    <3> QED
      BY <1>0, <3>1, <3>2
  <2> HIDE DEF new, less, open
  <2>5. Typed'
    BY <1>0, <1>4, <2>1, <2>2, <2>3, <2>4 DEF PoolInv, Typed
  <2>6. Counts' /\ Reused' /\ Shared'
    BY <1>0, <2>1, <2>2, <2>3 DEF PoolInv, Counts, Reused, Shared, Waiting
  <2>7. Bounded'
    <3> SUFFICES ASSUME NEW p \in Pool PROVE Free(p)' >= 0
      BY DEF Bounded
    <3>1. Using(p)' = Using(p) + Weight(new, p) - Weight(call[w], p)
      BY <2>3, UsingOfOne DEF PoolInv
    <3>2. /\ Weight(new, p) = At(h, p)
          /\ Weight(call[w], p) = IF call[w].pc = "connecting" THEN At(h, p) ELSE 0
      BY <2>1, <2>2 DEF Weight, Holds, At, Waiting
    <3>3. Behind(p)' = Behind(p) - (IF call[w].pc = "connecting" THEN 0 ELSE At(h, p))
      <4>1. Behind(p)' = Behind(p)
              + (IF PoolOf(h) = p THEN open.connecting - behind[h].connecting ELSE 0)
        BY <2>3, <2>4, BehindOfOne DEF PoolInv
      <4> QED
        BY <1>0, <2>4, <4>1, Numbers DEF At, PoolInv
    <3>4. Idle(p)' = Idle(p)
      BY <2>1 DEF Idle
    <3>5. Free(p) >= 0 /\ At(h, p) \in Nat
      BY DEF PoolInv, Bounded, At
    <3> QED
      BY <3>1, <3>2, <3>3, <3>4, <3>5, FreeOf, Numbers DEF PoolInv
  <2> QED
    BY <2>5, <2>6, <2>7 DEF PoolInv
<1>5. CASE /\ behind[h].connecting > 0 /\ UNCHANGED usage
           /\ \A w \in Request : ~(call[w].pc \in Waiting /\ call[w].host = h)
           /\ behind' = Left(h, "connecting")
           /\ idle' = IF idle[h] < idle_per_host(Slots[PoolOf(h)])
                      THEN [idle EXCEPT ![h] = @ + 1] ELSE idle
           /\ call' = call
  <2> DEFINE open == [behind[h] EXCEPT !.connecting = @ - 1]
  <2>1. /\ behind' = [behind EXCEPT ![h] = open]
        /\ open \in [waiting : Nat, connecting : Nat]
        /\ open.connecting = behind[h].connecting - 1
    <3>1. /\ open \in [waiting : Nat, connecting : Nat]
          /\ open.connecting = behind[h].connecting - 1
      BY <1>0, <1>5
    <3> QED
      BY <1>5, <3>1 DEF Left
  <2> HIDE DEF open
  <2>2. Typed' /\ Counts'
    BY <1>0, <1>5, <2>1 DEF PoolInv, Typed, Counts
  <2>3. Reused'
    BY <1>0, <1>5 DEF PoolInv, Typed, Reused, Waiting, CallType
  <2>4. Shared'
    BY <1>5, SharedOfOne DEF PoolInv
  <2>5. Bounded'
    <3> SUFFICES ASSUME NEW p \in Pool PROVE Free(p)' >= 0
      BY DEF Bounded
    <3>1. Behind(p)' = Behind(p) - At(h, p)
      <4>1. Behind(p)' = Behind(p)
              + (IF PoolOf(h) = p THEN open.connecting - behind[h].connecting ELSE 0)
        BY <2>1, BehindOfOne DEF PoolInv
      <4> QED
        BY <1>0, <2>1, <4>1, Numbers DEF At, PoolInv
    <3>2. Using(p)' = Using(p)
      BY <1>5 DEF Using
    <3>3. Idle(p)' \in {Idle(p), Idle(p) + At(h, p)}
      <4>1. CASE idle' = idle
        BY <4>1 DEF Idle
      <4>2. CASE idle' = [idle EXCEPT ![h] = @ + 1]
        BY <4>2, IdleOfOne DEF PoolInv
      <4> QED
        BY <1>5, <4>1, <4>2
    <3>4. Free(p) >= 0 /\ At(h, p) \in Nat
      BY DEF PoolInv, Bounded, At
    <3> QED
      BY <3>1, <3>2, <3>3, <3>4, FreeOf, Numbers DEF PoolInv
  <2> QED
    BY <2>2, <2>3, <2>4, <2>5 DEF PoolInv
<1>6. CASE BehindConnected(h)
  BY <1>4, <1>5, <1>6 DEF BehindConnected
<1> QED
  BY <1>1, <1>2, <1>3, <1>6 DEF PoolStep

-----------------------------------------------------------------------------
(* The whole server *)

(* Work is there for what Team asked. *)
Placed ==
  /\ asked \in Workloads
  /\ http \in [Request -> {"idle", "receiving", "working", "answered", "gone"}]
  /\ work \in [Request -> {"none", "read", "jev", "chat", "settled"}]
  /\ \A r \in Request : http[r] = "receiving" \/ work[r] # "none" => asked[r] # None
  /\ cancelled \subseteq Request

ServerInv == PoolInv /\ Placed

(* The work of a request makes a call, and nothing else changes. *)
LEMMA CallsKeeps ==
  ASSUME ServerInv, NEW r \in Request, work[r] # "none",
         NEW stage \in {"jev", "chat"}, NEW kind \in DOMAIN Attempts, NEW h \in Host,
         Calls(r, stage, kind, h)
  PROVE  ServerInv'
PROOF
<1>1. PoolInv'
  BY StartKeeps DEF Calls, ServerInv
<1>2. Placed'
  BY DEF Calls, ServerInv, Placed
<1> QED
  BY <1>1, <1>2 DEF ServerInv

(* A step that leaves the provider calls alone keeps what holds of them. *)
LEMMA StillKeeps ==
  ASSUME PoolInv, UNCHANGED <<call, idle, behind, usage>>
  PROVE  PoolInv'
PROOF
BY DEF PoolInv, Typed, Counts, Shared, Reused, Bounded, Free, Busy

LEMMA RoutedKeeps ==
  ASSUME Placed, NEW r \in Request, Routed(r), asked[r] # None, UNCHANGED cancelled
  PROVE  Placed'
PROOF
<1>1. CASE \E status : Answers(r, status)
  BY <1>1 DEF Answers, Placed
<1>2. CASE Starts(r)
  BY <1>2 DEF Starts, Placed
<1> QED
  BY <1>1, <1>2 DEF Routed

LEMMA SettlesKeeps ==
  ASSUME ServerInv, NEW r \in Request, NEW result, Settles(r, result),
         work[r] # "none", UNCHANGED providerVars
  PROVE  ServerInv'
PROOF
<1>1. Placed'
  BY DEF Settles, ServerInv, Placed, providerVars
<1> QED
  BY <1>1, StillKeeps DEF ServerInv, providerVars

(* The host and the profile of every call are ones the transport has. *)
LEMMA WorkKeeps ==
  ASSUME ServerInv, NEW r \in Request, Read(r) \/ FastPath(r) \/ Chatted(r)
  PROVE  ServerInv'
PROOF
<1>1. /\ work[r] # "none"
      /\ asked[r].host \in Host /\ "jev" \in Host
      /\ {"chat", "attached", "decision", "jev"} = DOMAIN Attempts
      /\ \A path : Kind(path) \in {"decision", "chat"}
  BY WorkloadsAssumption DEF Read, FastPath, Chatted, CallEnded, ServerInv, Placed,
     Host, Attempts, Kind
<1>2. CASE \E result : Settles(r, result) /\ UNCHANGED providerVars
  BY <1>1, <1>2, SettlesKeeps
<1>3. CASE \/ Calls(r, "jev", "jev", "jev")
           \/ \E kind \in {"chat", "attached", "decision"} : Calls(r, "chat", kind, asked[r].host)
  BY <1>1, <1>3, CallsKeeps
<1>4. CASE Read(r)
  BY <1>1, <1>2, <1>3, <1>4 DEF Read
<1>5. CASE FastPath(r)
  BY <1>1, <1>2, <1>3, <1>5 DEF FastPath
<1>6. CASE Chatted(r)
  BY <1>2, <1>6 DEF Chatted
<1> QED
  BY <1>4, <1>5, <1>6

LEMMA InitHolds == Init => ServerInv
PROOF
<1> SUFFICES ASSUME Init PROVE ServerInv
  OBVIOUS
<1>1. NoCall \in CallType /\ NoUsage \in Usage
  BY DEF NoCall, NoUsage, CallType, Usage, Attempts, Host
<1>2. Typed
  BY <1>1 DEF Init, ProviderInit, Typed
<1>3. /\ Counts /\ Reused
      /\ \A p \in Pool : Holders(call, p) = {}
  BY DEF Init, ProviderInit, NoCall, Counts, Reused, Waiting, Holders, Holds
<1>4. Shared
  BY SlotsAssumption DEF Init, ProviderInit, Shared, PoolOf, Pool, Host, idle_per_host
<1>5. Bounded
  <2> SUFFICES ASSUME NEW p \in Pool PROVE Free(p) >= 0
    BY DEF Bounded
  <2>1. Using(p) = 0
    BY <1>3, FS_EmptySet DEF Using
  <2>2. Behind(p) = 0 /\ Idle(p) = 0
    BY DEF Init, ProviderInit, Behind, Idle, InPool, Host
  <2>3. Slots[p] \in Nat
    BY SlotsAssumption
  <2> QED
    BY <2>1, <2>2, <2>3, FreeOf
<1>6. Placed
  BY DEF Init, ProviderInit, Placed
<1> QED
  BY <1>2, <1>3, <1>4, <1>5, <1>6 DEF ServerInv, PoolInv

LEMMA NextKeeps == ServerInv /\ [Next]_vars => ServerInv'
PROOF
<1> SUFFICES ASSUME ServerInv, [Next]_vars PROVE ServerInv'
  OBVIOUS
<1> USE DEF ServerInv
<1>1. ASSUME NEW r \in Request, Bodyless(r) PROVE ServerInv'
  <2>1. Placed'
    BY <1>1, RoutedKeeps DEF Bodyless, Due, providerVars
  <2> QED
    BY <1>1, <2>1, StillKeeps DEF Bodyless, providerVars
<1>2. ASSUME NEW r \in Request, Admit(r) PROVE ServerInv'
  <2>1. CASE \E status : Answers(r, status)
    BY <1>2, <2>1, StillKeeps DEF Admit, Answers, Placed, providerVars
  <2>2. CASE /\ http' = [http EXCEPT ![r] = "receiving"] /\ asked[r] # None
             /\ UNCHANGED <<asked, work>> /\ UNCHANGED providerVars
    BY <2>2, StillKeeps DEF Placed, providerVars
  <2> QED
    BY <1>2, <2>1, <2>2 DEF Admit, Due
<1>3. ASSUME NEW r \in Request, Received(r) PROVE ServerInv'
  <2>1. Placed'
    BY <1>3, RoutedKeeps DEF Received, Placed, providerVars
  <2> QED
    BY <1>3, <2>1, StillKeeps DEF Received, providerVars
<1>4. ASSUME NEW r \in Request, NotReceived(r) PROVE ServerInv'
  BY <1>4, StillKeeps DEF NotReceived, Answers, Placed, providerVars
<1>5. ASSUME NEW closed \in SUBSET Request, Dropped(closed) PROVE ServerInv'
  BY <1>5, StillKeeps DEF Dropped, Placed
<1>6. ASSUME NEW r \in Request, CallStep(r), UNCHANGED serverVars PROVE ServerInv'
  <2>1. UNCHANGED cancelled
    BY <1>6 DEF CallStep, Refuse, Attempt, Send, Slot, Connected, Unanswered, Answered,
       Refused, Wake, Stop
  <2> QED
    BY <1>6, <2>1, CallStepKeeps DEF Placed, serverVars
<1>7. ASSUME NEW h \in Host, PoolStep(h), UNCHANGED serverVars PROVE ServerInv'
  <2>1. UNCHANGED cancelled
    BY <1>7 DEF PoolStep, BehindSlot, BehindConnected, BehindFails, Expire
  <2> QED
    BY <1>7, <2>1, PoolStepKeeps DEF Placed, serverVars
<1>8. CASE Terminate \/ Finished \/ UNCHANGED vars
  BY <1>8, StillKeeps DEF Terminate, Finished, Placed, vars, providerVars, serverVars
<1>9. CASE Shutdown
  BY <1>5, <1>9 DEF Shutdown, Open
<1>10. ASSUME NEW r \in Request, Close(r) PROVE ServerInv'
  BY <1>5, <1>10 DEF Close
<1>11. ASSUME NEW r \in Request, Work(r) PROVE ServerInv'
  BY <1>6, <1>11, WorkKeeps DEF Work
<1> QED
  BY <1>1, <1>2, <1>3, <1>4, <1>7, <1>8, <1>9, <1>10, <1>11 DEF Next, PoolSteps

(* Every state of the server keeps its calls and connections in bounds: no *)
(* pool holds more connections than it has slots, no host more idle ones   *)
(* than its share, and a call that waits left none of its host idle        *)
(* (runtime/src/provider/transport.rs).                                    *)
THEOREM PoolsBounded == Spec => []PoolInv
PROOF BY InitHolds, NextKeeps, PTL DEF Spec, ServerInv

-----------------------------------------------------------------------------
(* Waiting for a slot *)

LEMMA HalfLeavesOne ==
  ASSUME NEW n \in Nat, n >= 2
  PROVE  idle_per_host(n) < n
PROOF BY DEF idle_per_host

(* A call that waits while no slot is free waits for a call: what idle     *)
(* connections of the other host keep is less than the pool's slots, and   *)
(* its own host has none (runtime/src/provider/transport.rs).              *)
THEOREM CallsWaitBehindCalls == Spec => []WaitsBehindCalls
PROOF
<1>1. PoolInv => WaitsBehindCalls
  <2> SUFFICES ASSUME PoolInv, NEW r \in Request,
                      call[r].pc = "waiting", Free(PoolOf(call[r].host)) = 0
               PROVE  Busy(PoolOf(call[r].host)) > 0
    BY DEF WaitsBehindCalls
  <2> DEFINE h == call[r].host
             p == PoolOf(h)
  <2>1. h \in Host /\ p \in Pool /\ idle[h] = 0
    BY DEF PoolInv, Typed, CallType, Reused, Waiting, PoolOf, Pool
  <2>2. Busy(p) = Using(p) + Behind(p) /\ Using(p) + Behind(p) \in Nat
    BY <2>1, Numbers DEF PoolInv, Busy, Using, Holders, Holds, Behind
  <2>3. Slots[p] = Busy(p) + Idle(p)
    BY <2>1, <2>2, Numbers, FreeOf DEF PoolInv
  <2>4. Idle(p) < Slots[p]
    <3>1. CASE p = "jev"
      BY <2>1, <3>1, SlotsAssumption DEF Idle, InPool, PoolOf, Host, Pool
    <3>2. CASE p # "jev"
      <4>1. p = "providers" /\ h \in {"openai", "anthropic"}
        BY <2>1, <3>2 DEF PoolOf, Host, Pool
      <4>2. \A g \in {"openai", "anthropic"} :
              PoolOf(g) = "providers" /\ g \in Host /\ idle[g] \in Nat
              /\ idle[g] <= idle_per_host(Slots["providers"])
        BY DEF PoolOf, Host, PoolInv, Typed, Shared
      <4>3. Slots["providers"] \in Nat /\ idle_per_host(Slots["providers"]) < Slots["providers"]
        BY SlotsAssumption, SharedAssumption, HalfLeavesOne DEF Pool
      <4>4. idle_per_host(Slots["providers"]) \in Nat
        BY <4>3 DEF idle_per_host
      <4> QED
        BY <2>1, <4>1, <4>2, <4>3, <4>4 DEF Idle, InPool
    <3> QED
      BY <3>1, <3>2
  <2> QED
    BY <2>1, <2>2, <2>3, <2>4, Numbers DEF PoolInv
<1> QED
  BY <1>1, PoolsBounded, PTL

-----------------------------------------------------------------------------
(* After Team closed a request *)

(* What a step does not do to a request that is cancelled. *)
SilentFor(r) ==
  /\ usage'[r].provider_requests = usage[r].provider_requests
  /\ call'[r].pc \in InFlight => call[r].pc \in InFlight
  /\ work[r] = "jev" => work'[r] # "chat"

(* The counters but the one of the sends may move. *)
LEMMA TalliesSendNothing ==
  ASSUME usage \in [Request -> Usage], NEW s \in Request, NEW r \in Request
  PROVE  /\ [usage EXCEPT ![s] = call_failed(@)][r].provider_requests
              = usage[r].provider_requests
         /\ \A b \in BOOLEAN : [usage EXCEPT ![s] = answered(@, b)][r].provider_requests
              = usage[r].provider_requests
         /\ \A c : Tallied(s, c)[r].provider_requests = usage[r].provider_requests
PROOF BY DEF Usage, call_failed, answered, Tallied

(* A call that ends, or is to be made again, sends nothing, and the call    *)
(* that takes its connection was waiting for one.                          *)
LEMMA PutBackSilent ==
  ASSUME NEW r \in Request, NEW next, DOMAIN next = Request,
         next[r].pc \in InFlight => call[r].pc \in InFlight,
         \/ call' = next
         \/ \E w \in Request : /\ next[w].pc \in Waiting
                               /\ call' = [next EXCEPT ![w].pc = "exchanging"]
  PROVE  call'[r].pc \in InFlight => call[r].pc \in InFlight
PROOF
<1>2. CASE call' = next
  BY <1>2
<1>3. ASSUME NEW w \in Request, next[w].pc \in Waiting,
             call' = [next EXCEPT ![w].pc = "exchanging"]
      PROVE  call'[r].pc \in InFlight => call[r].pc \in InFlight
  <2>1. CASE w = r
    BY <1>3, <2>1 DEF InFlight
  <2>2. CASE w # r
    BY <1>3, <2>2
  <2> QED
    BY <2>1, <2>2
<1> QED
  BY <1>2, <1>3

LEMMA CallStepSilent ==
  ASSUME ServerInv, NEW s \in Request, CallStep(s), UNCHANGED work, NEW r \in cancelled
  PROVE  SilentFor(r)
PROOF
<1>0. /\ r \in Request /\ Typed /\ call \in [Request -> CallType]
      /\ usage \in [Request -> Usage]
  BY DEF ServerInv, PoolInv, Typed, Placed
<1> SUFFICES /\ usage'[r].provider_requests = usage[r].provider_requests
             /\ call'[r].pc \in InFlight => call[r].pc \in InFlight
  BY DEF SilentFor
<1>1. ASSUME NEW result, Fails(s, result)
      PROVE  /\ usage'[r].provider_requests = usage[r].provider_requests
             /\ call'[r].pc \in InFlight => call[r].pc \in InFlight
  BY <1>0, <1>1, TalliesSendNothing DEF Fails, Ended, CallType, InFlight, Waiting
<1>2. CASE Refuse(s) \/ Stop(s)
  BY <1>1, <1>2 DEF Refuse, Stop
<1>3. CASE Attempt(s)
  <2>1. CASE s = r
    BY <1>1, <1>3, <2>1 DEF Attempt
  <2>2. CASE s # r
    <3>1. CASE s \in cancelled
      BY <1>1, <1>3, <3>1 DEF Attempt
    <3>2. CASE s \notin cancelled
      BY <1>0, <1>3, <2>2, <3>2 DEF Attempt
    <3> QED
      BY <3>1, <3>2
  <2> QED
    BY <2>1, <2>2
<1>4. CASE Send(s)
  <2>1. CASE s \in cancelled
    BY <1>1, <1>4, <2>1 DEF Send
  <2>2. CASE s \notin cancelled
    BY <1>0, <1>4, <2>2 DEF Send
  <2> QED
    BY <2>1, <2>2
<1>5. CASE Slot(s) \/ Connected(s)
  BY <1>0, <1>5 DEF Slot, Connected, InFlight, Waiting, CallType
<1>6. CASE Unanswered(s)
  BY <1>0, <1>6, TalliesSendNothing, AgainTyped DEF Unanswered, InFlight, Waiting, ServerInv
<1>7. CASE Answered(s)
  <2>1. PICK parsed \in BOOLEAN, reported \in BOOLEAN :
          /\ PutBack(call[s].host,
                     [call EXCEPT ![s] = Ended(@, IF parsed THEN "answered" ELSE "response")])
          /\ usage' = IF ~Counted(call[s].kind) THEN usage
                      ELSE [usage EXCEPT ![s] = IF parsed THEN answered(@, reported)
                                                ELSE call_failed(@)]
    BY <1>7 DEF Answered
  <2> DEFINE new == Ended(call[s], IF parsed THEN "answered" ELSE "response")
  <2>2. new.pc = "ended" /\ PutBack(call[s].host, [call EXCEPT ![s] = new])
    BY <1>0, <2>1 DEF Ended, CallType
  <2>3. usage'[r].provider_requests = usage[r].provider_requests
    BY <1>0, <2>1, TalliesSendNothing
  <2> HIDE DEF new
  <2>4. PICK next : next = [call EXCEPT ![s] = new]
    OBVIOUS
  <2>5. \/ call' = next
        \/ \E w \in Request : /\ next[w].pc \in Waiting
                              /\ call' = [next EXCEPT ![w].pc = "exchanging"]
    BY <2>2, <2>4 DEF PutBack
  <2>6. call'[r].pc \in InFlight => call[r].pc \in InFlight
    <3>1. DOMAIN next = Request /\ (next[r].pc \in InFlight => call[r].pc \in InFlight)
      BY <1>0, <2>2, <2>4 DEF InFlight, Waiting
    <3> QED
      BY <1>0, <2>5, <3>1, PutBackSilent
  <2> QED
    BY <2>3, <2>6
<1>8. CASE Refused(s)
  <2>1. PICK new \in {Again(call[s]), Ended(call[s], "request")} :
          PutBack(call[s].host, [call EXCEPT ![s] = new]) /\ usage' = Tallied(s, new)
    BY <1>8 DEF Refused
  <2>2. new.pc \in {"ended", "sleeping"}
    <3>1. Again(call[s]).pc \in {"ended", "sleeping"}
      BY AgainTyped DEF ServerInv
    <3>2. Ended(call[s], "request").pc = "ended"
      BY <1>0 DEF Ended, CallType
    <3> QED
      BY <2>1, <3>1, <3>2
  <2>3. usage'[r].provider_requests = usage[r].provider_requests
    BY <1>0, <2>1, TalliesSendNothing
  <2>4. PICK next : next = [call EXCEPT ![s] = new]
    OBVIOUS
  <2>5. \/ call' = next
        \/ \E w \in Request : /\ next[w].pc \in Waiting
                              /\ call' = [next EXCEPT ![w].pc = "exchanging"]
    BY <2>1, <2>4 DEF PutBack
  <2>6. call'[r].pc \in InFlight => call[r].pc \in InFlight
    <3>1. DOMAIN next = Request /\ (next[r].pc \in InFlight => call[r].pc \in InFlight)
      BY <1>0, <2>2, <2>4 DEF InFlight, Waiting
    <3> QED
      BY <1>0, <2>5, <3>1, PutBackSilent
  <2> QED
    BY <2>3, <2>6
<1>9. CASE Wake(s)
  BY <1>0, <1>9 DEF Wake, InFlight, Waiting, CallType
<1> QED
  BY <1>2, <1>3, <1>4, <1>5, <1>6, <1>7, <1>8, <1>9 DEF CallStep

LEMMA PoolStepSilent ==
  ASSUME ServerInv, NEW h \in Host, PoolStep(h), UNCHANGED work, NEW r \in cancelled
  PROVE  SilentFor(r)
PROOF
<1>0. r \in Request /\ call \in [Request -> CallType]
  BY DEF ServerInv, PoolInv, Typed, Placed
<1>1. CASE call' = call
  BY <1>1 DEF PoolStep, BehindSlot, BehindConnected, BehindFails, Expire, SilentFor
<1>2. CASE \E w \in Request : /\ call[w].pc \in Waiting /\ UNCHANGED usage
                              /\ call' = [call EXCEPT ![w].pc = "exchanging"]
  BY <1>0, <1>2 DEF SilentFor, InFlight
<1> QED
  BY <1>1, <1>2 DEF PoolStep, BehindSlot, BehindConnected, BehindFails, Expire

(* The work of a cancelled request may still go on to a first call, which  *)
(* is sent nowhere; it does not go on from the fast path to the model.     *)
LEMMA WorkSilent ==
  ASSUME ServerInv, NEW s \in Request, Read(s) \/ FastPath(s) \/ Chatted(s), NEW r \in cancelled
  PROVE  SilentFor(r)
PROOF
<1>0. /\ r \in Request /\ call \in [Request -> CallType] /\ usage \in [Request -> Usage]
      /\ work \in [Request -> {"none", "read", "jev", "chat", "settled"}]
  BY DEF ServerInv, PoolInv, Typed, Placed
<1>1. CASE \E result : Settles(s, result) /\ UNCHANGED providerVars
  BY <1>0, <1>1 DEF Settles, providerVars, SilentFor
<1>2. ASSUME NEW stage, NEW kind, NEW h, Calls(s, stage, kind, h),
             work[s] = "jev" => stage # "chat" \/ s # r
      PROVE  SilentFor(r)
  <2>1. usage'[r].provider_requests = usage[r].provider_requests
    BY <1>0, <1>2 DEF Calls, StartCall, Usage
  <2>2. call'[r].pc \in InFlight => call[r].pc \in InFlight
    BY <1>0, <1>2 DEF Calls, StartCall, InFlight, Waiting
  <2>3. work[r] = "jev" => work'[r] # "chat"
    BY <1>0, <1>2 DEF Calls
  <2> QED
    BY <2>1, <2>2, <2>3 DEF SilentFor
<1>3. CASE Read(s)
  BY <1>1, <1>2, <1>3 DEF Read
<1>4. CASE FastPath(s)
  BY <1>1, <1>2, <1>4 DEF FastPath
<1>5. CASE Chatted(s)
  BY <1>1, <1>5 DEF Chatted
<1> QED
  BY <1>3, <1>4, <1>5

(* Once Team closed a request, no step of any request or connection sends  *)
(* anything for it, and the fast path does not fall back to the model      *)
(* (runtime/src/server/routes/intent.rs, runtime/src/provider/transport.rs).*)
THEOREM NothingSentAfterClose == Spec => NothingAfterClose
PROOF
<1> DEFINE Silent == \A r \in cancelled : SilentFor(r)
<1>1. ASSUME ServerInv, [Next]_vars PROVE Silent \/ UNCHANGED vars
  <2> SUFFICES ASSUME Next, NEW r \in cancelled PROVE SilentFor(r) \/ UNCHANGED vars
    BY <1>1
  <2>0. r \in Request /\ work \in [Request -> {"none", "read", "jev", "chat", "settled"}]
    BY <1>1 DEF ServerInv, Placed
  <2>1. CASE UNCHANGED <<call, usage>> /\ work' = work
    BY <2>1 DEF SilentFor
  <2>2. CASE UNCHANGED <<call, usage>> /\ \E s \in Request : work' = [work EXCEPT ![s] = "read"]
    BY <2>0, <2>2 DEF SilentFor
  <2>3. ASSUME NEW s \in Request, Routed(s), UNCHANGED providerVars
        PROVE  SilentFor(r) \/ UNCHANGED vars
    <3>0. UNCHANGED <<call, usage>>
      BY <2>3 DEF providerVars
    <3>1. CASE \E status : Answers(s, status)
      <4>1. work' = work
        BY <3>1 DEF Answers
      <4> QED
        BY <2>1, <3>0, <4>1
    <3>2. CASE Starts(s)
      <4>1. \E q \in Request : work' = [work EXCEPT ![q] = "read"]
        BY <2>3, <3>2 DEF Starts
      <4> QED
        BY <2>2, <3>0, <4>1
    <3> QED
      BY <2>3, <3>1, <3>2 DEF Routed
  <2>4. ASSUME NEW s \in Request, Bodyless(s) \/ Received(s) PROVE SilentFor(r) \/ UNCHANGED vars
    BY <2>3, <2>4 DEF Bodyless, Received
  <2>5. ASSUME NEW s \in Request, Admit(s) \/ NotReceived(s) \/ Close(s)
        PROVE  SilentFor(r) \/ UNCHANGED vars
    BY <2>1, <2>5 DEF Admit, NotReceived, Close, Answers, Dropped, providerVars
  <2>6. ASSUME NEW s \in Request, Work(s) PROVE SilentFor(r) \/ UNCHANGED vars
    BY <1>1, <2>6, CallStepSilent, WorkSilent DEF Work, serverVars
  <2>7. CASE PoolSteps
    BY <1>1, <2>7, PoolStepSilent DEF PoolSteps, serverVars
  <2>8. CASE Terminate \/ Shutdown \/ Finished
    BY <2>1, <2>8 DEF Terminate, Shutdown, Dropped, Finished, vars, providerVars, serverVars
  <2> QED
    BY <2>4, <2>5, <2>6, <2>7, <2>8 DEF Next
<1>2. ServerInv /\ [Next]_vars => [Silent]_vars
  BY <1>1
<1>3. Spec => [][Silent]_vars
  BY <1>2, InitHolds, NextKeeps, PTL DEF Spec
<1> QED
  BY <1>3 DEF NothingAfterClose, SilentFor

-----------------------------------------------------------------------------
(* Sums over a finite set: what FoldFunction adds up *)

(* Some number of a set of numbers is the least. *)
LEMMA LeastNat ==
  ASSUME NEW T, T \subseteq Nat, T # {}
  PROVE  \E m \in T : \A n \in T : m <= n
PROOF
<1>1. PICK m \in T : \A n \in T : ~(<<n, m>> \in OpToRel(<, Nat))
  BY WFMin, NatLessThanWellFounded
<1>2. \A n \in T : ~(n < m)
  BY <1>1 DEF OpToRel
<1> QED
  BY <1>2

(* Some subset of a finite set is one of T, and no smaller one is. *)
LEMMA LeastSet ==
  ASSUME NEW D, IsFiniteSet(D), NEW T, T \subseteq SUBSET D, T # {}
  PROVE  \E s \in T : \A x \in s : s \ {x} \notin T
PROOF
<1> DEFINE N == {Cardinality(s) : s \in T}
<1>1. \A s \in SUBSET D : IsFiniteSet(s) /\ Cardinality(s) \in Nat
  BY FS_Subset, FS_CardinalityType
<1>2. N \subseteq Nat /\ N # {}
  BY <1>1
<1>3. PICK m \in N : \A n \in N : m <= n
  BY <1>2, LeastNat
<1>4. PICK s \in T : m = Cardinality(s)
  BY <1>3
<1>5. ASSUME NEW x \in s, s \ {x} \in T PROVE FALSE
  <2>1. IsFiniteSet(s) /\ Cardinality(s) \in Nat
    BY <1>1, <1>4
  <2>2. Cardinality(s \ {x}) = Cardinality(s) - 1
    BY <1>5, <2>1, FS_RemoveElement
  <2>3. m <= Cardinality(s \ {x})
    BY <1>3, <1>5
  <2> QED
    BY <1>4, <2>1, <2>2, <2>3
<1> QED
  BY <1>5

Pick(s) == CHOOSE x \in s : TRUE

(* g adds up, over each of the sets D, what f gives their members. *)
Adds(g, f, D) ==
  g = [s \in D |-> IF s = {} THEN 0 ELSE f[Pick(s)] + g[s \ {Pick(s)}]]

(* There is such a function for all subsets of a finite set. *)
LEMMA AddsExists ==
  ASSUME NEW D, IsFiniteSet(D), NEW f
  PROVE  \E g : Adds(g, f, SUBSET D)
PROOF
<1> DEFINE Upto(n) == {s \in SUBSET D : Cardinality(s) <= n}
           T == {n \in Nat : ~\E g : Adds(g, f, Upto(n))}
<1>1. \A s \in SUBSET D : IsFiniteSet(s) /\ Cardinality(s) \in Nat
  BY FS_Subset, FS_CardinalityType
<1>2. ASSUME T # {} PROVE FALSE
  <2>1. PICK m \in T : \A n \in T : m <= n
    BY <1>2, LeastNat
  <2>2. CASE m = 0
    <3> DEFINE g == [s \in Upto(0) |-> 0]
    <3>1. \A s \in Upto(0) : s = {}
      BY <1>1, FS_EmptySet
    <3>2. Adds(g, f, Upto(0))
      BY <3>1 DEF Adds
    <3> QED
      BY <2>1, <2>2, <3>2
  <2>3. CASE m # 0
    <3>1. m - 1 \in Nat /\ m - 1 \notin T
      BY <2>1, <2>3
    <3>2. PICK g : Adds(g, f, Upto(m - 1))
      BY <3>1
    <3> DEFINE h == [s \in Upto(m) |-> IF s = {} THEN 0
                                       ELSE f[Pick(s)] + g[s \ {Pick(s)}]]
    <3>3. \A t \in Upto(m - 1) : t \in Upto(m)
      BY <1>1, <2>1, <3>1
    <3>4. \A t \in Upto(m - 1) : h[t] = g[t]
      <4>1. \A t \in Upto(m - 1) :
              g[t] = IF t = {} THEN 0 ELSE f[Pick(t)] + g[t \ {Pick(t)}]
        <5> HIDE DEF Upto
        <5> QED
          BY <3>2 DEF Adds
      <4> QED
        BY <3>3, <4>1
    <3>5. ASSUME NEW s \in Upto(m), s # {}
          PROVE  s \ {Pick(s)} \in Upto(m - 1)
      <4>1. Pick(s) \in s
        BY <3>5 DEF Pick
      <4>2. Cardinality(s \ {Pick(s)}) = Cardinality(s) - 1
        BY <1>1, <4>1, FS_RemoveElement
      <4> QED
        BY <1>1, <2>1, <4>2
    <3>6. h = [s \in Upto(m) |-> IF s = {} THEN 0 ELSE f[Pick(s)] + h[s \ {Pick(s)}]]
      BY <3>4, <3>5
    <3> QED
      BY <2>1, <3>6 DEF Adds
  <2> QED
    BY <2>2, <2>3
<1>3. Cardinality(D) \in Nat /\ Upto(Cardinality(D)) = SUBSET D
  BY FS_CardinalityType, FS_Subset
<1>4. \A n \in Nat : \E g : Adds(g, f, Upto(n))
  BY <1>2
<1> HIDE DEF Upto
<1>5. \E g : Adds(g, f, Upto(Cardinality(D)))
  BY <1>3, <1>4
<1> QED
  BY <1>3, <1>5

(* FoldFunction is one of them. *)
Sum(f) == FoldFunction(+, 0, f)

LEMMA SumAdds ==
  ASSUME NEW D, IsFiniteSet(D), NEW f \in [D -> Nat]
  PROVE  \E g : Adds(g, f, SUBSET D) /\ Sum(f) = g[D]
PROOF
<1> DEFINE g == CHOOSE g : Adds(g, f, SUBSET D)
<1>1. Adds(g, f, SUBSET D)
  BY AddsExists
<1>2. DOMAIN f = D
  OBVIOUS
<1>3. Sum(f) = g[D]
  BY <1>2 DEF Sum, FoldFunction, FoldFunctionOnSet, MapThenFoldSet, Adds, Pick
<1> QED
  BY <1>1, <1>3

LEMMA AddsStep ==
  ASSUME NEW D, NEW f, NEW g, Adds(g, f, SUBSET D), NEW s \in SUBSET D
  PROVE  /\ s = {} => g[s] = 0
         /\ s # {} => Pick(s) \in s /\ g[s] = f[Pick(s)] + g[s \ {Pick(s)}]
PROOF
<1>1. g[s] = IF s = {} THEN 0 ELSE f[Pick(s)] + g[s \ {Pick(s)}]
  BY DEF Adds
<1> QED
  BY <1>1 DEF Pick

LEMMA AddsNat ==
  ASSUME NEW D, IsFiniteSet(D), NEW f \in [D -> Nat], NEW g, Adds(g, f, SUBSET D)
  PROVE  \A s \in SUBSET D : g[s] \in Nat
PROOF
<1> DEFINE T == {s \in SUBSET D : g[s] \notin Nat}
<1>1. ASSUME T # {} PROVE FALSE
  <2>1. PICK s \in T : \A x \in s : s \ {x} \notin T
    BY <1>1, LeastSet
  <2> DEFINE x == Pick(s)
  <2>2. s \in SUBSET D /\ g[s] \notin Nat
    BY <2>1
  <2>3. x \in s /\ g[s] = f[x] + g[s \ {x}]
    <3>1. /\ s = {} => g[s] = 0
          /\ s # {} => Pick(s) \in s /\ g[s] = f[Pick(s)] + g[s \ {Pick(s)}]
      BY <2>2, AddsStep
    <3> QED
      BY <2>2, <3>1
  <2>4. g[s \ {x}] \in Nat /\ f[x] \in Nat
    BY <2>1, <2>3
  <2> QED
    BY <2>1, <2>3, <2>4
<1> QED
  BY <1>1

(* It does not matter which member is added first. *)
Adding(g, f, S, q) == g[S] = f[q] + g[S \ {q}]

LEMMA AddsAny ==
  ASSUME NEW D, IsFiniteSet(D), NEW f \in [D -> Nat], NEW g, Adds(g, f, SUBSET D),
         NEW S \in SUBSET D, NEW q \in S
  PROVE  Adding(g, f, S, q)
PROOF
<1> DEFINE T == {s \in SUBSET D : \E r \in s : g[s] # f[r] + g[s \ {r}]}
<1>1. ASSUME T # {} PROVE FALSE
  <2>1. PICK s \in T : \A x \in s : s \ {x} \notin T
    BY <1>1, LeastSet
  <2>2. PICK r \in s : g[s] # f[r] + g[s \ {r}]
    BY <2>1
  <2> DEFINE x == Pick(s)
             rest == (s \ {x}) \ {r}
  <2>3. x \in s /\ g[s] = f[x] + g[s \ {x}]
    <3>1. s \in SUBSET D /\ s # {}
      BY <2>1, <2>2
    <3>2. /\ s = {} => g[s] = 0
          /\ s # {} => Pick(s) \in s /\ g[s] = f[Pick(s)] + g[s \ {Pick(s)}]
      BY <3>1, AddsStep
    <3> QED
      BY <3>1, <3>2
  <2>4. x # r
    BY <2>2, <2>3
  <2>5. g[s \ {x}] = f[r] + g[rest]
    BY <2>1, <2>2, <2>3, <2>4
  <2>6. g[s \ {r}] = f[x] + g[rest]
    <3>1. (s \ {r}) \ {x} = rest /\ s \ {r} \in SUBSET D /\ x \in s \ {r}
      BY <2>1, <2>3, <2>4
    <3>2. s \ {r} \notin T
      BY <2>1, <2>2
    <3> QED
      BY <3>1, <3>2
  <2>7. f[r] \in Nat /\ f[x] \in Nat /\ g[rest] \in Nat
    BY <2>1, <2>2, <2>3, AddsNat
  <2> HIDE DEF x, rest
  <2> QED
    BY <2>2, <2>3, <2>5, <2>6, <2>7
<1> QED
  BY <1>1 DEF Adding

(* What is smaller everywhere adds up to less, and what is the same to the *)
(* same.                                                                   *)
LEMMA AddsMonotone ==
  ASSUME NEW D, IsFiniteSet(D), NEW f \in [D -> Nat], NEW g, Adds(g, f, SUBSET D),
         NEW e \in [D -> Nat], NEW h, Adds(h, e, SUBSET D),
         NEW S \in SUBSET D, \A x \in S : e[x] <= f[x]
  PROVE  h[S] <= g[S]
PROOF
<1> DEFINE T == {s \in SUBSET S : ~(h[s] <= g[s])}
<1>0. IsFiniteSet(S)
  BY FS_Subset
<1>1. ASSUME T # {} PROVE FALSE
  <2>1. PICK s \in T : \A x \in s : s \ {x} \notin T
    BY <1>0, <1>1, LeastSet
  <2>2. s \in SUBSET D /\ s # {}
    <3>1. s \in SUBSET D /\ ~(h[s] <= g[s])
      BY <2>1
    <3>2. s = {} => h[s] = 0 /\ g[s] = 0
      BY <3>1, AddsStep
    <3> QED
      BY <3>1, <3>2
  <2> DEFINE x == Pick(s)
  <2>3. x \in s /\ g[s] = f[x] + g[s \ {x}] /\ h[s] = e[x] + h[s \ {x}]
    BY <2>2, AddsStep
  <2>4. h[s \ {x}] <= g[s \ {x}] /\ e[x] <= f[x]
    BY <2>1, <2>3
  <2>5. /\ f[x] \in Nat /\ e[x] \in Nat
        /\ g[s \ {x}] \in Nat /\ h[s \ {x}] \in Nat
    BY <2>2, <2>3, AddsNat
  <2> HIDE DEF x
  <2> QED
    BY <2>1, <2>3, <2>4, <2>5
<1> QED
  BY <1>1

LEMMA SumIsNat ==
  ASSUME NEW D, IsFiniteSet(D), NEW f \in [D -> Nat]
  PROVE  Sum(f) \in Nat
PROOF
<1>1. PICK g : Adds(g, f, SUBSET D) /\ Sum(f) = g[D]
  BY SumAdds
<1>2. D \in SUBSET D
  OBVIOUS
<1> QED
  BY <1>1, <1>2, AddsNat

LEMMA SumMonotone ==
  ASSUME NEW D, IsFiniteSet(D), NEW f \in [D -> Nat], NEW e \in [D -> Nat],
         \A x \in D : e[x] <= f[x]
  PROVE  Sum(e) <= Sum(f)
PROOF
<1>1. PICK g : Adds(g, f, SUBSET D) /\ Sum(f) = g[D]
  BY SumAdds
<1>2. PICK h : Adds(h, e, SUBSET D) /\ Sum(e) = h[D]
  BY SumAdds
<1>3. h[D] <= g[D]
  BY <1>1, <1>2, AddsMonotone
<1> QED
  BY <1>1, <1>2, <1>3

(* When one number changes, the sum changes by as much. *)
LEMMA SumOfOne ==
  ASSUME NEW D, IsFiniteSet(D), NEW f \in [D -> Nat], NEW e \in [D -> Nat], NEW r \in D,
         \A x \in D \ {r} : e[x] = f[x]
  PROVE  Sum(e) = Sum(f) + e[r] - f[r]
PROOF
<1>1. PICK g : Adds(g, f, SUBSET D) /\ Sum(f) = g[D]
  BY SumAdds
<1>2. PICK h : Adds(h, e, SUBSET D) /\ Sum(e) = h[D]
  BY SumAdds
<1> DEFINE rest == D \ {r}
<1>3. g[D] = f[r] + g[rest] /\ h[D] = e[r] + h[rest]
  <2>1. Adds(g, f, SUBSET D) /\ Adds(h, e, SUBSET D)
    BY <1>1, <1>2
  <2>2. Adding(g, f, D, r) /\ Adding(h, e, D, r)
    BY <2>1, AddsAny
  <2> QED
    BY <2>2 DEF Adding
<1>4. /\ rest \in SUBSET D /\ f[r] \in Nat /\ e[r] \in Nat
      /\ \A x \in rest : e[x] = f[x] /\ f[x] \in Nat
  OBVIOUS
<1> HIDE DEF rest
<1>5. g[rest] \in Nat /\ h[rest] \in Nat
  BY <1>1, <1>2, <1>4, AddsNat
<1>6. \A x \in rest : e[x] <= f[x] /\ f[x] <= e[x]
  BY <1>4
<1>7. Adds(g, f, SUBSET D) /\ Adds(h, e, SUBSET D)
  BY <1>1, <1>2
<1>8. h[rest] <= g[rest] /\ g[rest] <= h[rest]
  <2>1. \A x \in rest : e[x] <= f[x]
    BY <1>6
  <2>2. \A x \in rest : f[x] <= e[x]
    BY <1>6
  <2>3. h[rest] <= g[rest]
    BY <1>4, <1>7, <2>1, AddsMonotone
  <2>4. g[rest] <= h[rest]
    BY <1>4, <1>7, <2>2, AddsMonotone
  <2> QED
    BY <2>3, <2>4
<1> QED
  BY <1>1, <1>2, <1>3, <1>4, <1>5, <1>8

(* Nothing adds up to nothing. *)
LEMMA SumOfNothing ==
  ASSUME NEW D, IsFiniteSet(D), NEW f \in [D -> Nat], \A x \in D : f[x] = 0
  PROVE  Sum(f) = 0
PROOF
<1>1. PICK g : Adds(g, f, SUBSET D) /\ Sum(f) = g[D]
  BY SumAdds
<1> DEFINE T == {s \in SUBSET D : g[s] # 0}
<1>2. ASSUME T # {} PROVE FALSE
  <2>1. PICK s \in T : \A x \in s : s \ {x} \notin T
    BY <1>2, LeastSet
  <2>2. s \in SUBSET D /\ g[s] # 0
    BY <2>1
  <2>3. /\ s = {} => g[s] = 0
        /\ s # {} => Pick(s) \in s /\ g[s] = f[Pick(s)] + g[s \ {Pick(s)}]
    BY <1>1, <2>2, AddsStep
  <2> QED
    BY <2>1, <2>2, <2>3
<1>3. D \in SUBSET D
  OBVIOUS
<1> QED
  BY <1>1, <1>2, <1>3

-----------------------------------------------------------------------------
(* What work holds: its memory and its slot of a lane *)

(* A request whose body is received, or whose work runs, reserves the      *)
(* memory of its body, and only such a one; together they reserve no more  *)
(* than the budget.                                                        *)
Body(r) == IF http[r] = "receiving" \/ r \in Running THEN Amount(asked[r].size) ELSE 0

MemoryHeld ==
  /\ \A r \in Request : http[r] \in {"idle", "receiving"} => work[r] = "none"
  /\ reserved = [r \in Request |-> Body(r)]
  /\ Sum(reserved) <= MAX_REQUEST_MEMORY

(* The work that runs in a lane, and only that, holds one of its slots.    *)
Lane(path) == {r \in Running : LaneOf(r) = path}

LanesHeld ==
  /\ permits = {r \in Running : LaneOf(r) \in InLane}
  /\ \A path \in InLane : Cardinality(Lane(path)) <= LaneSlots

HeldInv == MemoryHeld /\ LanesHeld

(* What a body takes is a number.                                          *)
LEMMA BodyIsNat ==
  ASSUME Placed, NEW r \in Request
  PROVE  /\ Body(r) \in Nat
         /\ asked[r] # None => asked[r].size \in Nat /\ Amount(asked[r].size) \in Nat
PROOF BY WorkloadsAssumption, BoundsAssumption DEF Placed, Body, Running, Amount

LEMMA ReservedIsNat ==
  ASSUME Placed, MemoryHeld
  PROVE  reserved \in [Request -> Nat]
PROOF BY BodyIsNat DEF MemoryHeld

(* A step after which no request reserves more keeps within the budget.    *)
LEMMA LessReserved ==
  ASSUME Placed, MemoryHeld, reserved' \in [Request -> Nat],
         \A r \in Request : reserved'[r] <= reserved[r]
  PROVE  Sum(reserved)' <= MAX_REQUEST_MEMORY
PROOF
<1> DEFINE next == reserved'
<1>1. reserved \in [Request -> Nat] /\ next \in [Request -> Nat]
  BY ReservedIsNat
<1>2. \A r \in Request : next[r] <= reserved[r]
  OBVIOUS
<1>3. Sum(reserved)' = Sum(next)
  OBVIOUS
<1> HIDE DEF next
<1>4. Sum(next) <= Sum(reserved)
  BY <1>1, <1>2, RequestAssumption, SumMonotone
<1>5. Sum(next) \in Nat /\ Sum(reserved) \in Nat
  BY <1>1, RequestAssumption, SumIsNat
<1>6. Sum(reserved) <= MAX_REQUEST_MEMORY
  BY DEF MemoryHeld
<1>7. Sum(next) <= MAX_REQUEST_MEMORY
  BY <1>4, <1>5, <1>6, BoundsAssumption
<1> QED
  BY <1>3, <1>7

(* So does the admission of a body that fits in what is left.              *)
LEMMA OneReserves ==
  ASSUME Placed, MemoryHeld, NEW r \in Request, NEW amount \in Nat,
         reserved[r] = 0, Memory + amount <= MAX_REQUEST_MEMORY,
         reserved' = [reserved EXCEPT ![r] = amount]
  PROVE  Sum(reserved)' <= MAX_REQUEST_MEMORY
PROOF
<1> DEFINE next == reserved'
<1>1. reserved \in [Request -> Nat]
  BY ReservedIsNat
<1>2. /\ next \in [Request -> Nat] /\ next[r] = amount
      /\ \A s \in Request \ {r} : next[s] = reserved[s]
  BY <1>1
<1>3. Sum(reserved)' = Sum(next)
  OBVIOUS
<1>4. Memory = Sum(reserved)
  BY Zenon DEF Sum, Memory
<1> HIDE DEF next
<1>5. Sum(next) = Sum(reserved) + next[r] - reserved[r]
  BY <1>1, <1>2, RequestAssumption, SumOfOne
<1>6. Sum(reserved) \in Nat
  BY <1>1, RequestAssumption, SumIsNat
<1>7. Sum(reserved) + amount <= MAX_REQUEST_MEMORY
  BY <1>4
<1>8. Sum(next) <= MAX_REQUEST_MEMORY
  BY <1>2, <1>5, <1>6, <1>7
<1> QED
  BY <1>3, <1>8

LEMMA LanesAreFinite ==
  \A path : IsFiniteSet(Lane(path)) /\ Cardinality(Lane(path)) \in Nat
PROOF BY RequestAssumption, FS_Subset, FS_CardinalityType DEF Lane, Running

(* A step after which no more work runs keeps every lane within its slots. *)
LEMMA FewerRun ==
  ASSUME LanesHeld, Running' \subseteq Running, UNCHANGED asked
  PROVE  \A path \in InLane : Cardinality(Lane(path))' <= LaneSlots
PROOF
<1> SUFFICES ASSUME NEW path \in InLane PROVE Cardinality(Lane(path))' <= LaneSlots
  OBVIOUS
<1> DEFINE next == Lane(path)'
<1>1. next \subseteq Lane(path)
  BY DEF Lane, LaneOf
<1>2. Cardinality(Lane(path))' = Cardinality(next)
  OBVIOUS
<1>3. Cardinality(Lane(path)) <= LaneSlots /\ Cardinality(Lane(path)) \in Nat
  BY LanesAreFinite DEF LanesHeld
<1> HIDE DEF next
<1>4. Cardinality(next) \in Nat /\ Cardinality(next) <= Cardinality(Lane(path))
  BY <1>1, LanesAreFinite, FS_Subset, FS_CardinalityType
<1> QED
  BY <1>2, <1>3, <1>4, BoundsAssumption

(* Work starts where its lane has a slot left.                             *)
LEMMA StartsInLane ==
  ASSUME LanesHeld, Placed, NEW r \in Request, work[r] = "none", Starts(r), ~LaneFull(r)
  PROVE  LanesHeld'
PROOF
<1>1. /\ Running' = Running \cup {r} /\ r \notin Running
      /\ asked' = asked
  BY DEF Starts, Running, Placed
<1>2. permits' = {s \in Running' : LaneOf(s)' \in InLane}
  BY <1>1 DEF Starts, LanesHeld, LaneOf, Running
<1>3. ASSUME NEW path \in InLane PROVE Cardinality(Lane(path))' <= LaneSlots
  <2> DEFINE next == Lane(path)'
  <2>0. Cardinality(Lane(path))' = Cardinality(next)
    OBVIOUS
  <2>1. Cardinality(Lane(path)) <= LaneSlots /\ Cardinality(Lane(path)) \in Nat
    BY LanesAreFinite DEF LanesHeld
  <2>2. CASE LaneOf(r) # path
    <3>1. next = Lane(path)
      BY <1>1, <2>2 DEF Lane, LaneOf
    <3> QED
      BY <2>0, <2>1, <3>1
  <2>3. CASE LaneOf(r) = path
    <3>1. next = Lane(path) \cup {r} /\ r \notin Lane(path)
      BY <1>1, <2>3 DEF Lane, LaneOf
    <3>2. {s \in permits : LaneOf(s) = path} = Lane(path)
      BY <1>3 DEF LanesHeld, Lane
    <3>3. ~(Cardinality(Lane(path)) >= LaneSlots)
      BY <1>3, <2>3, <3>2 DEF LaneFull
    <3> HIDE DEF next
    <3>4. Cardinality(next) = Cardinality(Lane(path)) + 1
      BY <3>1, LanesAreFinite, FS_AddElement
    <3> QED
      BY <2>0, <2>1, <3>3, <3>4, BoundsAssumption
  <2> QED
    BY <2>2, <2>3
<1> QED
  BY <1>2, <1>3 DEF LanesHeld

(* A connection that is answered returns what it reserved, and no work is  *)
(* lost by it: the request had none.                                       *)
LEMMA AnswersHold ==
  ASSUME Placed, HeldInv, NEW r \in Request, work[r] = "none", NEW status, Answers(r, status)
  PROVE  HeldInv'
PROOF
<1>1. reserved \in [Request -> Nat]
  BY ReservedIsNat DEF HeldInv
<1>2. /\ http' = [http EXCEPT ![r] = "answered"] /\ reserved' = [reserved EXCEPT ![r] = 0]
      /\ UNCHANGED <<asked, work, permits>> /\ Running' = Running /\ r \notin Running
  BY DEF Answers, Running
<1>3. \A s \in Request : reserved'[s] = Body(s)'
  BY <1>1, <1>2 DEF HeldInv, MemoryHeld, Body, Running, Placed, Amount
<1>4. MemoryHeld'
  <2>1. reserved' \in [Request -> Nat] /\ \A s \in Request : reserved'[s] <= reserved[s]
    BY <1>1, <1>2
  <2>2. Sum(reserved)' <= MAX_REQUEST_MEMORY
    BY <2>1, LessReserved DEF HeldInv
  <2>3. reserved' = [s \in Request |-> Body(s)']
    BY <1>1, <1>2, <1>3
  <2>4. \A s \in Request : http'[s] \in {"idle", "receiving"} => work'[s] = "none"
    BY <1>2 DEF HeldInv, MemoryHeld, Placed
  <2> QED
    BY <2>2, <2>3, <2>4 DEF MemoryHeld
<1>5. LanesHeld'
  <2>1. \A path \in InLane : Cardinality(Lane(path))' <= LaneSlots
    BY <1>2, FewerRun DEF HeldInv
  <2> QED
    BY <1>2, <2>1 DEF HeldInv, LanesHeld, LaneOf
<1> QED
  BY <1>4, <1>5 DEF HeldInv

(* Work starts with what its body reserved.                                *)
LEMMA StartsHold ==
  ASSUME Placed, HeldInv, NEW r \in Request, work[r] = "none", Starts(r), ~LaneFull(r),
         http[r] = "receiving", UNCHANGED reserved
  PROVE  HeldInv'
PROOF
<1>1. reserved \in [Request -> Nat]
  BY ReservedIsNat DEF HeldInv
<1>2. /\ http' = [http EXCEPT ![r] = "working"] /\ work' = [work EXCEPT ![r] = "read"]
      /\ asked' = asked /\ Running' = Running \cup {r}
  BY DEF Starts, Running, Placed
<1>3. \A s \in Request : Body(s)' = Body(s)
  BY <1>2 DEF Body, Placed, Amount
<1>4. MemoryHeld'
  <2>1. Sum(reserved)' <= MAX_REQUEST_MEMORY
    BY <1>1, LessReserved DEF HeldInv
  <2>2. reserved' = [s \in Request |-> Body(s)']
    BY <1>3 DEF HeldInv, MemoryHeld
  <2>3. \A s \in Request : http'[s] \in {"idle", "receiving"} => work'[s] = "none"
    BY <1>2 DEF HeldInv, MemoryHeld, Placed
  <2> QED
    BY <2>1, <2>2, <2>3 DEF MemoryHeld
<1> QED
  BY <1>4, StartsInLane DEF HeldInv

(* A routed request: one without a body has no JSON, and starts no work.   *)
LEMMA RoutedHold ==
  ASSUME Placed, HeldInv, NEW r \in Request, Routed(r), asked[r] # None,
         http[r] = "receiving" \/ (http[r] = "idle" /\ asked[r].size = 0)
  PROVE  HeldInv'
PROOF
<1>1. work[r] = "none"
  BY DEF HeldInv, MemoryHeld
<1>2. CASE \E status : Answers(r, status)
  BY <1>1, <1>2, AnswersHold
<1>3. CASE asked[r].json /\ ~LaneFull(r) /\ Starts(r) /\ UNCHANGED reserved
  <2>1. http[r] = "receiving"
    BY <1>3, WorkloadsAssumption DEF Placed
  <2> QED
    BY <1>1, <1>3, <2>1, StartsHold
<1> QED
  BY <1>2, <1>3 DEF Routed

(* A body is admitted when what it takes is left of the budget.            *)
LEMMA AdmitHold ==
  ASSUME Placed, HeldInv, NEW r \in Request, Admit(r)
  PROVE  HeldInv'
PROOF
<1>1. work[r] = "none" /\ http[r] = "idle" /\ asked[r] # None
  BY DEF HeldInv, MemoryHeld, Admit, Due
<1>2. CASE \E status : Answers(r, status)
  BY <1>1, <1>2, AnswersHold
<1>3. CASE /\ ~(Memory + Amount(asked[r].size) > MAX_REQUEST_MEMORY)
           /\ http' = [http EXCEPT ![r] = "receiving"]
           /\ reserved' = [reserved EXCEPT ![r] = Amount(asked[r].size)]
           /\ UNCHANGED <<asked, work, permits>>
  <2>1. reserved \in [Request -> Nat] /\ Amount(asked[r].size) \in Nat
    BY <1>1, BodyIsNat, ReservedIsNat DEF HeldInv
  <2>2. Running' = Running /\ r \notin Running
    BY <1>1, <1>3 DEF Running
  <2>3. \A s \in Request : reserved'[s] = Body(s)'
    BY <1>1, <1>3, <2>1, <2>2 DEF HeldInv, MemoryHeld, Body, Running, Placed, Amount
  <2>4. Sum(reserved)' <= MAX_REQUEST_MEMORY
    <3>1. reserved[r] = 0
      BY <1>1, <2>2 DEF HeldInv, MemoryHeld, Body
    <3>2. Memory = Sum(reserved)
      BY Zenon DEF Sum, Memory
    <3>3. Sum(reserved) \in Nat
      BY <2>1, RequestAssumption, SumIsNat
    <3>4. Memory + Amount(asked[r].size) <= MAX_REQUEST_MEMORY
      <4>1. ~(Sum(reserved) + Amount(asked[r].size) > MAX_REQUEST_MEMORY)
        BY <1>3, <3>2
      <4>2. Sum(reserved) + Amount(asked[r].size) <= MAX_REQUEST_MEMORY
        BY <2>1, <3>3, <4>1, BoundsAssumption
      <4> QED
        BY <3>2, <4>2
    <3> QED
      BY <1>3, <2>1, <3>1, <3>4, OneReserves DEF HeldInv
  <2>5. MemoryHeld'
    <3>1. reserved' = [s \in Request |-> Body(s)']
      BY <1>3, <2>1, <2>3
    <3>2. \A s \in Request : http'[s] \in {"idle", "receiving"} => work'[s] = "none"
      BY <1>1, <1>3 DEF HeldInv, MemoryHeld, Placed
    <3> QED
      BY <2>4, <3>1, <3>2 DEF MemoryHeld
  <2>6. LanesHeld'
    <3>1. \A path \in InLane : Cardinality(Lane(path))' <= LaneSlots
      BY <1>3, <2>2, FewerRun DEF HeldInv
    <3> QED
      BY <1>3, <2>2, <3>1 DEF HeldInv, LanesHeld, LaneOf
  <2> QED
    BY <2>5, <2>6 DEF HeldInv
<1> QED
  BY <1>2, <1>3 DEF Admit

(* Work that settles returns what it held.                                 *)
LEMMA SettlesHold ==
  ASSUME Placed, HeldInv, NEW r \in Request, work[r] # "none", NEW result, Settles(r, result)
  PROVE  HeldInv'
PROOF
<1>1. reserved \in [Request -> Nat]
  BY ReservedIsNat DEF HeldInv
<1>2. /\ reserved' = [reserved EXCEPT ![r] = 0] /\ work' = [work EXCEPT ![r] = "settled"]
      /\ permits' = permits \ {r} /\ asked' = asked
      /\ http' = http \/ http' = [http EXCEPT ![r] = "answered"]
      /\ http[r] \notin {"idle", "receiving"}
  BY DEF Settles, HeldInv, MemoryHeld
<1>3. Running' = Running \ {r}
  BY <1>2 DEF Running, Placed
<1>4. \A s \in Request : reserved'[s] = Body(s)'
  BY <1>1, <1>2, <1>3 DEF HeldInv, MemoryHeld, Body, Placed, Amount
<1>5. MemoryHeld'
  <2>1. reserved' \in [Request -> Nat] /\ \A s \in Request : reserved'[s] <= reserved[s]
    BY <1>1, <1>2
  <2>2. Sum(reserved)' <= MAX_REQUEST_MEMORY
    BY <2>1, LessReserved DEF HeldInv
  <2>3. reserved' = [s \in Request |-> Body(s)']
    BY <1>1, <1>2, <1>4
  <2>4. \A s \in Request : http'[s] \in {"idle", "receiving"} => work'[s] = "none"
    BY <1>2 DEF HeldInv, MemoryHeld, Placed
  <2> QED
    BY <2>2, <2>3, <2>4 DEF MemoryHeld
<1>6. LanesHeld'
  <2>1. \A path \in InLane : Cardinality(Lane(path))' <= LaneSlots
    BY <1>2, <1>3, FewerRun DEF HeldInv
  <2> QED
    BY <1>2, <1>3, <2>1 DEF HeldInv, LanesHeld, LaneOf
<1> QED
  BY <1>5, <1>6 DEF HeldInv

(* Work that goes on keeps what it holds.                                  *)
LEMMA StaysHold ==
  ASSUME Placed, HeldInv, Running' = Running,
         UNCHANGED <<asked, http, permits, reserved>>,
         \A s \in Request : work[s] = "none" => work'[s] = "none"
  PROVE  HeldInv'
PROOF
<1>1. reserved \in [Request -> Nat]
  BY ReservedIsNat DEF HeldInv
<1>2. MemoryHeld'
  <2>1. Sum(reserved)' <= MAX_REQUEST_MEMORY
    BY <1>1, LessReserved DEF HeldInv
  <2>2. \A s \in Request : Body(s)' = Body(s)
    BY DEF Body, Amount
  <2> QED
    BY <2>1, <2>2 DEF HeldInv, MemoryHeld
<1>3. LanesHeld'
  <2>1. \A path \in InLane : Cardinality(Lane(path))' <= LaneSlots
    BY FewerRun DEF HeldInv
  <2> QED
    BY <2>1 DEF HeldInv, LanesHeld, LaneOf
<1> QED
  BY <1>2, <1>3 DEF HeldInv

(* Connections close: only a body that was being received returns its      *)
(* memory, for work under way keeps what it holds.                         *)
LEMMA DroppedHold ==
  ASSUME Placed, HeldInv, NEW closed \in SUBSET Request, Dropped(closed)
  PROVE  HeldInv'
PROOF
<1>1. reserved \in [Request -> Nat]
  BY ReservedIsNat DEF HeldInv
<1>2. /\ http' = [r \in Request |-> IF r \in closed THEN "gone" ELSE http[r]]
      /\ reserved' = [r \in Request |->
           IF r \in closed /\ http[r] = "receiving" THEN 0 ELSE reserved[r]]
      /\ UNCHANGED <<asked, work, permits>> /\ Running' = Running
  BY DEF Dropped, Running
<1>3. \A s \in Request : reserved'[s] = Body(s)'
  BY <1>1, <1>2 DEF HeldInv, MemoryHeld, Body, Running, Amount
<1>4. MemoryHeld'
  <2>1. reserved' \in [Request -> Nat] /\ \A s \in Request : reserved'[s] <= reserved[s]
    BY <1>1, <1>2
  <2>2. Sum(reserved)' <= MAX_REQUEST_MEMORY
    BY <2>1, LessReserved DEF HeldInv
  <2>3. reserved' = [s \in Request |-> Body(s)']
    BY <1>2, <1>3
  <2>4. \A s \in Request : http'[s] \in {"idle", "receiving"} => work'[s] = "none"
    BY <1>2 DEF HeldInv, MemoryHeld
  <2> QED
    BY <2>2, <2>3, <2>4 DEF MemoryHeld
<1>5. LanesHeld'
  <2>1. \A path \in InLane : Cardinality(Lane(path))' <= LaneSlots
    BY <1>2, FewerRun DEF HeldInv
  <2> QED
    BY <1>2, <2>1 DEF HeldInv, LanesHeld, LaneOf
<1> QED
  BY <1>4, <1>5 DEF HeldInv

LEMMA WorkHold ==
  ASSUME Placed, HeldInv, NEW r \in Request, Read(r) \/ FastPath(r) \/ Chatted(r)
  PROVE  HeldInv'
PROOF
<1>1. work[r] \in {"read", "jev", "chat"}
  BY DEF Read, FastPath, Chatted, CallEnded
<1>2. CASE \E result : Settles(r, result)
  BY <1>1, <1>2, SettlesHold
<1>3. CASE \E stage \in {"jev", "chat"} : \E kind, h : Calls(r, stage, kind, h)
  BY <1>1, <1>3, StaysHold DEF Calls, Running, Placed
<1>4. CASE Read(r)
  BY <1>2, <1>3, <1>4 DEF Read
<1>5. CASE FastPath(r)
  BY <1>2, <1>3, <1>5 DEF FastPath
<1>6. CASE Chatted(r)
  BY <1>2, <1>6 DEF Chatted
<1> QED
  BY <1>4, <1>5, <1>6

LEMMA InitHeld == Init => HeldInv
PROOF
<1> SUFFICES ASSUME Init PROVE HeldInv
  OBVIOUS
<1>1. Running = {} /\ permits = {} /\ reserved = [r \in Request |-> 0]
  BY DEF Init, Running
<1>2. MemoryHeld
  <2>1. Sum(reserved) = 0
    BY <1>1, RequestAssumption, SumOfNothing
  <2>2. \A r \in Request : Body(r) = 0
    BY <1>1 DEF Init, Body
  <2>3. \A r \in Request : work[r] = "none"
    BY DEF Init
  <2> QED
    BY <1>1, <2>1, <2>2, <2>3, BoundsAssumption DEF MemoryHeld
<1>3. LanesHeld
  <2>1. \A path : Lane(path) = {}
    BY <1>1 DEF Lane
  <2>2. \A path : Cardinality(Lane(path)) = 0
    BY <2>1, FS_EmptySet
  <2> QED
    BY <1>1, <2>2, BoundsAssumption DEF LanesHeld
<1> QED
  BY <1>2, <1>3 DEF HeldInv

LEMMA NextHeld == Placed /\ HeldInv /\ [Next]_vars => HeldInv'
PROOF
<1> SUFFICES ASSUME Placed, HeldInv, [Next]_vars PROVE HeldInv'
  OBVIOUS
<1>1. ASSUME NEW r \in Request, Bodyless(r) PROVE HeldInv'
  BY <1>1, RoutedHold DEF Bodyless, Due
<1>2. ASSUME NEW r \in Request, Admit(r) PROVE HeldInv'
  BY <1>2, AdmitHold
<1>3. ASSUME NEW r \in Request, Received(r) PROVE HeldInv'
  BY <1>3, RoutedHold DEF Received, Placed
<1>4. ASSUME NEW r \in Request, NotReceived(r) PROVE HeldInv'
  <2>1. work[r] = "none"
    BY <1>4 DEF NotReceived, HeldInv, MemoryHeld
  <2> QED
    BY <1>4, <2>1, AnswersHold DEF NotReceived
<1>5. ASSUME NEW r \in Request, Close(r) PROVE HeldInv'
  BY <1>5, DroppedHold DEF Close
<1>6. CASE Shutdown
  BY <1>6, DroppedHold DEF Shutdown, Open
<1>7. CASE UNCHANGED <<asked, http, work, permits, reserved>>
  BY <1>7, StaysHold DEF Running
<1>8. ASSUME NEW r \in Request, Work(r) PROVE HeldInv'
  BY <1>7, <1>8, WorkHold DEF Work, serverVars
<1>9. CASE PoolSteps \/ Terminate \/ Finished \/ UNCHANGED vars
  BY <1>7, <1>9 DEF PoolSteps, Terminate, Finished, vars, serverVars
<1> QED
  BY <1>1, <1>2, <1>3, <1>4, <1>5, <1>6, <1>8, <1>9 DEF Next

(* However connections close, the works of a lane are within its slots,    *)
(* and what the bodies of received requests and running works take is      *)
(* within the memory budget: what is reserved is just that, and a          *)
(* connection that closes returns nothing its work still holds             *)
(* (runtime/src/server/routes.rs, runtime/src/server/boundary.rs).         *)
THEOREM WorkStaysBounded == Spec => []WorkBounded
PROOF
<1>1. HeldInv => WorkBounded
  <2> SUFFICES ASSUME HeldInv PROVE WorkBounded
    OBVIOUS
  <2> DEFINE bodies == [r \in Request |->
               IF http[r] = "receiving" \/ r \in Running THEN Amount(asked[r].size) ELSE 0]
  <2>1. bodies = reserved
    BY DEF HeldInv, MemoryHeld, Body
  <2>2. Sum(bodies) <= MAX_REQUEST_MEMORY
    BY <2>1 DEF HeldInv, MemoryHeld
  <2>3. FoldFunction(+, 0, bodies) <= MAX_REQUEST_MEMORY
    BY <2>2, Zenon DEF Sum
  <2>4. \A path \in InLane : Cardinality({r \in Running : LaneOf(r) = path}) <= LaneSlots
    BY DEF HeldInv, LanesHeld, Lane
  <2> QED
    BY <2>3, <2>4, Zenon DEF WorkBounded
<1>2. Spec => [](Placed /\ HeldInv)
  <2>1. Init => Placed
    BY InitHolds DEF ServerInv
  <2> QED
    BY <2>1, InitHolds, NextKeeps, InitHeld, NextHeld, PTL DEF Spec, ServerInv
<1> QED
  BY <1>1, <1>2, PTL

-----------------------------------------------------------------------------
(* What an answer names: only what Team supplied *)

LEMMA NatSequence ==
  ASSUME NEW ids \in Seq(Nat)
  PROVE  ids \in [1..Len(ids) -> Nat] /\ Len(ids) \in Nat
PROOF OBVIOUS

(* In increasing order, an identifier is less than every later one.        *)
LEMMA SortedIncreases ==
  ASSUME NEW ids \in Seq(Nat), sorted_unique(ids)
  PROVE  \A i, j \in 1..Len(ids) : i < j => ids[i] < ids[j]
PROOF
<1> SUFFICES ASSUME NEW i \in 1..Len(ids),
                    \E j \in 1..Len(ids) : i < j /\ ~(ids[i] < ids[j])
             PROVE  FALSE
  OBVIOUS
<1> DEFINE T == {j \in 1..Len(ids) : i < j /\ ~(ids[i] < ids[j])}
<1>1. PICK m \in T : \A n \in T : m <= n
  <2>1. T \subseteq Nat /\ T # {}
    OBVIOUS
  <2> HIDE DEF T
  <2> QED
    BY <2>1, LeastNat
<1>2. /\ m \in 1..Len(ids) /\ i < m /\ ~(ids[i] < ids[m])
      /\ m - 1 \in 1..Len(ids) - 1 /\ m - 1 \in 1..Len(ids)
      /\ Len(ids) \in Nat
  BY <1>1
<1>3. ids[m - 1] < ids[m]
  <2>1. ids[m - 1] < ids[(m - 1) + 1]
    BY <1>2 DEF sorted_unique
  <2>2. (m - 1) + 1 = m
    BY <1>2
  <2> QED
    BY ONLY <2>1, <2>2, Zenon
<1>4. ids[i] \in Nat /\ ids[m - 1] \in Nat /\ ids[m] \in Nat
  <2>1. ids \in [1..Len(ids) -> Nat]
    BY NatSequence
  <2>2. \A k \in 1..Len(ids) : ids[k] \in Nat
    BY ONLY <2>1, Zenon
  <2> QED
    BY ONLY <1>2, <2>2, i \in 1..Len(ids), Zenon
<1>5. CASE m - 1 = i
  BY <1>2, <1>3, <1>4, <1>5
<1>6. CASE m - 1 # i
  <2>1. i < m - 1 /\ m - 1 < m /\ m - 1 \in Nat /\ m \in Nat
    BY <1>2, <1>6
  <2>2. m - 1 \notin T
    <3> HIDE DEF T
    <3> QED
      BY ONLY <1>1, <2>1
  <2>3. ids[i] < ids[m - 1]
    BY ONLY <1>2, <2>1, <2>2, Zenon
  <2>4. \A a, b, c \in Nat : a < b /\ b < c => a < c
    OBVIOUS
  <2> QED
    BY ONLY <1>2, <1>3, <1>4, <2>3, <2>4, Zenon
<1> QED
  BY <1>5, <1>6

(* It occurs once. *)
LEMMA SortedCounts ==
  ASSUME NEW ids \in Seq(Nat), sorted_unique(ids)
  PROVE  Cardinality(ToSet(ids)) = Len(ids)
PROOF
<1> DEFINE n == Len(ids)
<1>1. n \in Nat /\ ids = [i \in 1..n |-> ids[i]] /\ ToSet(ids) = {ids[i] : i \in 1..n}
  BY DEF ToSet
<1>2. \A i, j \in 1..n : ids[i] = ids[j] => i = j
  <2> SUFFICES ASSUME NEW i \in 1..n, NEW j \in 1..n, ids[i] = ids[j] PROVE i = j
    OBVIOUS
  <2>1. ~(i < j) /\ ~(j < i)
    <3>1. ids[i] \in Nat
      OBVIOUS
    <3> QED
      BY <3>1, SortedIncreases
  <2> QED
    BY <2>1
<1>3. ids \in Injection(1..n, ToSet(ids)) /\ ids \in Surjection(1..n, ToSet(ids))
  <2>1. ids \in [1..n -> ToSet(ids)]
    BY <1>1
  <2>2. \A t \in ToSet(ids) : \E i \in 1..n : ids[i] = t
    BY <1>1
  <2> HIDE DEF n
  <2> QED
    BY <1>2, <2>1, <2>2 DEF Injection, Surjection, IsInjective
<1>4. IsFiniteSet(1..n) /\ Cardinality(1..n) = n
  <2> HIDE DEF n
  <2>1. 1 \in Int /\ n \in Int
    BY <1>1
  <2>2. IsFiniteSet(1..n) /\ Cardinality(1..n) = IF 1 > n THEN 0 ELSE n - 1 + 1
    BY <2>1, FS_Interval, Zenon
  <2> QED
    BY <1>1, <2>2
<1> HIDE DEF n
<1>5. Cardinality(ToSet(ids)) = Cardinality(1..n)
  BY <1>3, <1>4, FS_Surjection
<1> QED
  BY <1>4, <1>5 DEF n

(* No identifier is one of any set, once. *)
LEMMA NoneNamed ==
  /\ ToSet(<<>>) = {} /\ Len(<<>>) = 0
  /\ Cardinality(ToSet(<<>>)) = Len(<<>>)
PROOF BY FS_EmptySet DEF ToSet

(* The answer v to what Team asked with a, of a call of the kind, has the  *)
(* authority that closes it.                                               *)
Authority(a, v, kind) ==
  LET q == a.query IN
  /\ ToSet(v.assistant_ids) \subseteq ToSet(CandidateIds(q.candidates))
  /\ Cardinality(ToSet(v.assistant_ids)) = Len(v.assistant_ids)
  /\ a.route = "intent" =>
       /\ v.assistant_ids # <<>> => v.intent = q.expected
       /\ v.intent = UNINSTALL /\ q.expected = UNINSTALL => Len(v.assistant_ids) = 1
       /\ q.expected # None => v.intent \in {q.expected, "unresolved"} /\ v.query = ""
       /\ v.intent \in {INSTALL, UNINSTALL}
          => (v.query = "" /\ v.assistant_ids = <<>>) = (v.reply # "")
       /\ v.task_follows => v.intent = INSTALL /\ v.query # ""
       /\ kind = "jev" \/ v.capability = "not-needed"
          => v = [v EXCEPT !.intent = "ordinary-task", !.query = "",
                    !.assistant_ids = <<>>, !.reply = "", !.task_follows = FALSE]

(* A shortlist's plan names an exact subset of it.                         *)
LEMMA PlanNames ==
  ASSUME NEW a, a.route = "capability", NEW value, NEW kind,
         conforms(PlanSchema, value), plan(a.query, value).status = 200
  PROVE  plan(a.query, value) = Success(value) /\ Authority(a, value, kind)
PROOF
<1> DEFINE ids == value.assistant_ids
<1>1. /\ ToSet(ids) \subseteq ToSet(CandidateIds(a.query.candidates)) /\ sorted_unique(ids)
      /\ plan(a.query, value) = Success(value)
  <2> HIDE DEF ids
  <2>1. Broken.status # 200
    BY DEF Broken
  <2> QED
    BY <2>1 DEF plan, ids
<1>2. ids \in Seq(Nat)
  <2>1. "assistant_ids" \in DOMAIN value /\ value["assistant_ids"] \in PlanSchema["assistant_ids"]
    BY DEF conforms, PlanSchema
  <2> QED
    BY <2>1 DEF PlanSchema, AtMost
<1>3. Cardinality(ToSet(ids)) = Len(ids)
  <2> HIDE DEF ids
  <2> QED
    BY <1>1, <1>2, SortedCounts
<1> QED
  BY <1>1, <1>3 DEF Authority

(* A route the model decided: a classification names no Assistant, a       *)
(* selection an exact subset of its directory; neither is capability-free. *)
LEMMA RouteNames ==
  ASSUME NEW q, NEW value, conforms(RouteSchema, value), route(q, value) # None
  PROVE  LET taken == route(q, value) IN
         /\ taken.capability_free = FALSE
         /\ taken.intent \in INTENTS
         /\ taken.assistant_ids = <<>> \/
              /\ taken.assistant_ids \in Seq(Nat) /\ sorted_unique(taken.assistant_ids)
              /\ taken.assistant_ids # <<>>
              /\ ToSet(taken.assistant_ids) \subseteq ToSet(CandidateIds(q.candidates))
              /\ taken.intent = q.expected /\ taken.query = "" /\ taken.reply = ""
         /\ taken.intent = UNINSTALL /\ q.expected = UNINSTALL => Len(taken.assistant_ids) = 1
         /\ q.expected # None => taken.intent \in {q.expected, "unresolved"} /\ taken.query = ""
         /\ taken.intent \in {INSTALL, UNINSTALL}
            => ((taken.query = "" /\ taken.assistant_ids = <<>>) <=> taken.reply # "")
         /\ taken.task_follows \in BOOLEAN
         /\ taken.task_follows => taken.intent = INSTALL /\ taken.query # ""
PROOF
<1>1. /\ value.intent \in INTENTS /\ value.assistant_ids \in Seq(Nat)
      /\ value.task_follows \in BOOLEAN
  <2>1. \A name \in {"intent", "assistant_ids", "task_follows"} :
          name \in DOMAIN value /\ value[name] \in RouteSchema[name]
    BY DEF conforms, RouteSchema
  <2> QED
    BY <2>1 DEF RouteSchema, AtMost
<1>2. sorted_unique(value.assistant_ids)
  BY DEF route
<1>3. CASE q.expected = None
  <2>1. route(q, value) = classification(value) /\ classification(value) # None
    BY <1>3 DEF route
  <2>2. q.expected # UNINSTALL
    BY <1>3, NoneAssumption DEF INTENTS
  <2> QED
    BY <1>1, <1>3, <2>1, <2>2 DEF classification, Route, INSTALL, UNINSTALL
<1>4. CASE q.expected # None
  <2>1. route(q, value) = selection(q, value) /\ selection(q, value) # None
    BY <1>4 DEF route
  <2>2. CASE value.intent = "unresolved"
    BY <1>1, <1>4, <2>1, <2>2 DEF selection, Route, INSTALL, UNINSTALL, INTENTS
  <2>3. CASE value.intent # "unresolved"
    BY <1>1, <1>2, <1>4, <2>1, <2>3 DEF selection, Route, INSTALL, UNINSTALL
  <2> QED
    BY <2>2, <2>3
<1> QED
  BY <1>3, <1>4

(* What Team receives of such a route, from a call of the model.           *)
LEMMA RouteAuthority ==
  ASSUME NEW a, NEW value, conforms(RouteSchema, value), route(a.query, value) # None,
         NEW kind, kind # "jev"
  PROVE  \E v : respond(a.query, route(a.query, value)) = Success(v) /\ Authority(a, v, kind)
PROOF
<1> DEFINE q == a.query
           taken == route(q, value)
           v == [intent |-> taken.intent, query |-> taken.query,
                 assistant_ids |-> taken.assistant_ids, reply |-> taken.reply,
                 task_follows |-> taken.task_follows,
                 capability |-> IF q.installable = None THEN None
                                ELSE IF taken.capability_free THEN "not-needed" ELSE "possible"]
<1>1. respond(q, taken) = Success(v)
  BY DEF respond
<1>2. /\ taken.capability_free = FALSE
      /\ taken.assistant_ids = <<>> \/
           /\ taken.assistant_ids \in Seq(Nat) /\ sorted_unique(taken.assistant_ids)
           /\ taken.assistant_ids # <<>>
           /\ ToSet(taken.assistant_ids) \subseteq ToSet(CandidateIds(q.candidates))
           /\ taken.intent = q.expected /\ taken.query = "" /\ taken.reply = ""
      /\ taken.intent = UNINSTALL /\ q.expected = UNINSTALL => Len(taken.assistant_ids) = 1
      /\ q.expected # None => taken.intent \in {q.expected, "unresolved"} /\ taken.query = ""
      /\ taken.intent \in {INSTALL, UNINSTALL}
         => ((taken.query = "" /\ taken.assistant_ids = <<>>) <=> taken.reply # "")
      /\ taken.task_follows => taken.intent = INSTALL /\ taken.query # ""
  BY RouteNames
<1> HIDE DEF taken
<1>3. v.capability # "not-needed"
  BY <1>2, NoneAssumption
<1>4. /\ ToSet(v.assistant_ids) \subseteq ToSet(CandidateIds(q.candidates))
      /\ Cardinality(ToSet(v.assistant_ids)) = Len(v.assistant_ids)
  BY <1>2, NoneNamed, SortedCounts
<1>5. (v.intent \in {INSTALL, UNINSTALL}
         => (v.query = "" /\ v.assistant_ids = <<>>) = (v.reply # ""))
  BY <1>2
<1>6. Authority(a, v, kind)
  <2>1. /\ v.assistant_ids # <<>> => v.intent = q.expected
        /\ v.intent = UNINSTALL /\ q.expected = UNINSTALL => Len(v.assistant_ids) = 1
        /\ q.expected # None => v.intent \in {q.expected, "unresolved"} /\ v.query = ""
        /\ v.task_follows => v.intent = INSTALL /\ v.query # ""
    BY <1>2
  <2> HIDE DEF v
  <2> QED
    BY <1>3, <1>4, <1>5, <2>1 DEF Authority
<1> QED
  BY <1>1, <1>6 DEF taken

(* The fast path's answer is an ordinary task that names nothing.          *)
LEMMA FastAuthority ==
  ASSUME NEW a, a.query.expected = None, NEW response, decide(a.query, response) # None, NEW kind
  PROVE  \E v : /\ respond(a.query, decide(a.query, response)) = Success(v)
                /\ Authority(a, v, kind)
PROOF
<1> DEFINE q == a.query
           taken == decide(q, response)
           v == [intent |-> taken.intent, query |-> taken.query,
                 assistant_ids |-> taken.assistant_ids, reply |-> taken.reply,
                 task_follows |-> taken.task_follows,
                 capability |-> IF q.installable = None THEN None
                                ELSE IF taken.capability_free THEN "not-needed" ELSE "possible"]
<1>1. respond(q, taken) = Success(v)
  BY DEF respond
<1>2. /\ taken.intent = "ordinary-task" /\ taken.query = "" /\ taken.assistant_ids = <<>>
      /\ taken.reply = "" /\ taken.task_follows = FALSE
  BY DEF decide, Route
<1> HIDE DEF taken
<1>3. /\ v.intent = "ordinary-task" /\ v.query = "" /\ v.assistant_ids = <<>>
      /\ v.reply = "" /\ v.task_follows = FALSE
  BY <1>2
<1>4. v = [v EXCEPT !.intent = "ordinary-task", !.query = "",
             !.assistant_ids = <<>>, !.reply = "", !.task_follows = FALSE]
  <2>1. /\ v = [name \in DOMAIN v |-> v[name]]
        /\ \A name : name \in DOMAIN v
             <=> name \in {"intent", "query", "assistant_ids", "reply", "task_follows", "capability"}
    OBVIOUS
  <2> HIDE DEF v
  <2> QED
    BY <1>3, <2>1
<1>5. Authority(a, v, kind)
  <2> HIDE DEF v
  <2> QED
    BY <1>3, <1>4, NoneNamed DEF Authority, INSTALL, UNINSTALL
<1> QED
  BY <1>1, <1>5 DEF taken

(* No step but the one that starts a call changes what kind of call it is. *)
LEMMA KindStays ==
  ASSUME Typed, NEW r \in Request,
         CallStep(r) \/ \E h \in Host : PoolStep(h)
  PROVE  \A s \in Request : call'[s].kind = call[s].kind
PROOF
<1> DEFINE Stays(c) == \A s \in Request : c[s].kind = call[s].kind
<1>0. call \in [Request -> CallType]
  BY DEF Typed
<1>1. ASSUME NEW new, new.kind = call[r].kind PROVE Stays([call EXCEPT ![r] = new])
  BY <1>0, <1>1
<1>2. ASSUME NEW next \in [Request -> CallType], Stays(next), NEW h, PutBack(h, next)
      PROVE  Stays(call')
  <2>1. ASSUME NEW w \in Request, call' = [next EXCEPT ![w].pc = "exchanging"]
        PROVE  Stays(call')
    BY <1>2, <2>1 DEF CallType
  <2> QED
    BY <1>2, <2>1 DEF PutBack
<1>3. ASSUME NEW result PROVE Ended(call[r], result).kind = call[r].kind
  BY <1>0 DEF Ended, CallType
<1>4. Again(call[r]).kind = call[r].kind
  BY <1>0, <1>3 DEF Again, CallType
<1>5. ASSUME NEW result, Fails(r, result) PROVE Stays(call')
  BY <1>1, <1>3, <1>5 DEF Fails
<1>6. ASSUME NEW pc, call' = [call EXCEPT ![r].pc = pc] PROVE Stays(call')
  BY <1>0, <1>6 DEF CallType
<1>7. CASE Refuse(r) \/ Stop(r)
  BY <1>5, <1>7 DEF Refuse, Stop
<1>8. CASE Attempt(r)
  BY <1>5, <1>6, <1>8 DEF Attempt
<1>9. CASE Send(r)
  BY <1>5, <1>6, <1>9 DEF Send
<1>10. CASE Slot(r) \/ Connected(r)
  BY <1>6, <1>10 DEF Slot, Connected
<1>11. CASE Unanswered(r)
  BY <1>1, <1>4, <1>11 DEF Unanswered
<1>12. CASE Answered(r)
  <2>1. PICK parsed \in BOOLEAN :
          PutBack(call[r].host,
                  [call EXCEPT ![r] = Ended(call[r], IF parsed THEN "answered" ELSE "response")])
    BY <1>12 DEF Answered
  <2> DEFINE new == Ended(call[r], IF parsed THEN "answered" ELSE "response")
  <2>2. new \in CallType /\ new.kind = call[r].kind
    BY <1>0, <1>3 DEF Ended, CallType
  <2> HIDE DEF new
  <2>3. [call EXCEPT ![r] = new] \in [Request -> CallType] /\ Stays([call EXCEPT ![r] = new])
    BY <1>0, <1>1, <2>2
  <2>4. PutBack(call[r].host, [call EXCEPT ![r] = new])
    BY <2>1 DEF new
  <2> QED
    BY <1>2, <2>3, <2>4
<1>13. CASE Refused(r)
  <2>1. PICK should_retry \in BOOLEAN :
          PutBack(call[r].host,
            [call EXCEPT ![r] = IF should_retry THEN Again(call[r]) ELSE Ended(call[r], "request")])
    BY <1>13 DEF Refused
  <2> DEFINE new == IF should_retry THEN Again(call[r]) ELSE Ended(call[r], "request")
  <2>2. new \in CallType /\ new.kind = call[r].kind
    BY <1>0, <1>3, <1>4 DEF Again, Ended, CallType, Calling
  <2> HIDE DEF new
  <2>3. [call EXCEPT ![r] = new] \in [Request -> CallType] /\ Stays([call EXCEPT ![r] = new])
    BY <1>0, <1>1, <2>2
  <2>4. PutBack(call[r].host, [call EXCEPT ![r] = new])
    BY <2>1 DEF new
  <2> QED
    BY <1>2, <2>3, <2>4
<1>14. CASE Wake(r)
  <2> DEFINE new == [call[r] EXCEPT !.pc = "attempt", !.attempt = @ + 1]
  <2>1. call' = [call EXCEPT ![r] = new] /\ new.kind = call[r].kind
    BY <1>0, <1>14 DEF Wake, CallType
  <2> HIDE DEF new
  <2> QED
    BY <1>1, <2>1
<1>15. ASSUME NEW h \in Host, PoolStep(h) PROVE Stays(call')
  <2>1. CASE call' = call
    BY <2>1
  <2>2. ASSUME NEW w \in Request, call' = [call EXCEPT ![w].pc = "exchanging"]
        PROVE  Stays(call')
    BY <1>0, <2>2 DEF CallType
  <2> QED
    BY <1>15, <2>1, <2>2 DEF PoolStep, BehindSlot, BehindConnected, BehindFails, Expire
<1> QED
  BY <1>7, <1>8, <1>9, <1>10, <1>11, <1>12, <1>13, <1>14, <1>15 DEF CallStep

(* The fast path is only taken for a classification, by its own call; the  *)
(* call of the model is another; and a success closes settled work with    *)
(* the authority of its call.                                              *)
Granted(r) ==
  answer[r] # None /\ answer[r].status = 200 /\ asked[r].route \in {"intent", "capability"}

Grants(r) ==
  /\ work[r] = "jev" => asked[r].route = "intent" /\ asked[r].query.expected = None
  /\ work[r] = "chat" => call[r].kind # "jev"
  /\ Granted(r) => work[r] = "settled" /\ Authority(asked[r], answer[r].value, call[r].kind)

AuthorityInv ==
  /\ answer = [r \in Request |-> answer[r]]
  /\ \A r \in Request : Grants(r)

(* A decision is asked for with the request's own fields.                  *)
LEMMA QueryOf ==
  ASSUME NEW r, asked[r].route # "browser"
  PROVE  Query(r) = asked[r].query
PROOF BY Zenon DEF Query

LEMMA DecisionHasNoExpected ==
  ASSUME NEW q, lane(q), q.decision
  PROVE  q.expected = None
PROOF BY Zenon DEF lane

(* A result that closes a request with no more authority than it has.      *)
Closes(a, result, kind) ==
  \/ result.status # 200
  \/ a.route \notin {"intent", "capability"}
  \/ \E v : result = Success(v) /\ Authority(a, v, kind)

LEMMA UsageAdds ==
  ASSUME NEW u, NEW v
  PROVE  WithUsage(u, Success(v)).value = v
PROOF BY DEF WithUsage, Success

LEMMA SettlesAuthority ==
  ASSUME Placed, AuthorityInv, NEW r \in Request, NEW result, Settles(r, result),
         Closes(asked[r], result, call[r].kind), UNCHANGED call
  PROVE  AuthorityInv'
PROOF
<1>0. answer' = answer \/ \E given : answer' = [answer EXCEPT ![r] = given]
  BY DEF Settles
<1> SUFFICES ASSUME NEW s \in Request PROVE Grants(s)'
  BY <1>0 DEF AuthorityInv
<1>1. /\ asked' = asked /\ call' = call
      /\ work'[s] = IF s = r THEN "settled" ELSE work[s]
  BY DEF Settles, Placed
<1>2. CASE answer'[s] = answer[s]
  BY <1>1, <1>2 DEF AuthorityInv, Grants, Granted
<1>3. CASE s = r /\ answer'[s] # answer[s]
  <2>1. answer'[r] = IF result.status = 200 /\ asked[r].route # "delete"
                     THEN WithUsage(usage[r], result) ELSE result
    BY <1>3 DEF Settles, AuthorityInv
  <2>2. ASSUME Granted(r)' PROVE Authority(asked[r], answer'[r].value, call[r].kind)
    <3>1. asked[r].route \in {"intent", "capability"} /\ answer'[r].status = 200
      BY <1>1, <2>2 DEF Granted
    <3>2. CASE result.status # 200
      BY <2>1, <3>1, <3>2
    <3>3. CASE result.status = 200
      <4>1. PICK v : result = Success(v) /\ Authority(asked[r], v, call[r].kind)
        BY <3>1, <3>3 DEF Closes
      <4>2. answer'[r] = WithUsage(usage[r], Success(v))
        BY <2>1, <3>1, <3>3, <4>1
      <4>3. answer'[r].value = v
        BY <4>2, UsageAdds
      <4> QED
        BY <4>1, <4>3
    <3> QED
      BY <3>2, <3>3
  <2> QED
    BY <1>1, <1>3, <2>2 DEF Grants
<1>4. CASE s # r
  <2>1. answer'[s] = answer[s]
    BY <1>0, <1>4 DEF AuthorityInv
  <2> QED
    BY <1>2, <2>1
<1> QED
  BY <1>2, <1>3, <1>4

(* A step that answers no request and starts no call or work but a new     *)
(* request's reading.                                                      *)
LEMMA AnswerStays ==
  ASSUME AuthorityInv, UNCHANGED <<asked, answer>>,
         \A r \in Request : call'[r].kind = call[r].kind,
         \A r \in Request : work'[r] = work[r] \/ (work[r] = "none" /\ work'[r] = "read")
  PROVE  AuthorityInv'
PROOF
<1> SUFFICES ASSUME NEW s \in Request PROVE Grants(s)'
  BY DEF AuthorityInv
<1>1. Grants(s)
  BY DEF AuthorityInv
<1> QED
  BY <1>1 DEF Grants, Granted

LEMMA AnswersAuthority ==
  ASSUME AuthorityInv, NEW r \in Request, NEW status, Answers(r, status), UNCHANGED call,
         status # 200 \/ asked[r].route \notin {"intent", "capability"}
  PROVE  AuthorityInv'
PROOF
<1>1. answer' = [answer EXCEPT ![r] = [status |-> status]] /\ UNCHANGED <<asked, work>>
  BY DEF Answers
<1> SUFFICES ASSUME NEW s \in Request PROVE Grants(s)'
  BY <1>1 DEF AuthorityInv
<1>2. Grants(s)
  BY DEF AuthorityInv
<1>3. CASE s = r
  <2>1. answer'[r] = [status |-> status]
    BY <1>1 DEF AuthorityInv
  <2> QED
    BY <1>1, <1>2, <1>3, <2>1 DEF Grants, Granted
<1>4. CASE s # r
  <2>1. answer'[s] = answer[s]
    BY <1>1, <1>4 DEF AuthorityInv
  <2> QED
    BY <1>1, <1>2, <2>1 DEF Grants, Granted
<1> QED
  BY <1>3, <1>4

LEMMA RoutedAuthority ==
  ASSUME Placed, HeldInv, AuthorityInv, NEW r \in Request, Routed(r), UNCHANGED call,
         http[r] \in {"idle", "receiving"}
  PROVE  AuthorityInv'
PROOF
<1>1. ASSUME NEW status, Answers(r, status),
             status # 200 \/ asked[r].route \notin {"intent", "capability"}
      PROVE  AuthorityInv'
  BY <1>1, AnswersAuthority
<1>2. CASE Starts(r)
  <2>1. work[r] = "none"
    BY DEF HeldInv, MemoryHeld
  <2> QED
    BY <1>2, <2>1, AnswerStays DEF Starts, Placed
<1> QED
  BY <1>1, <1>2 DEF Routed

(* Work goes on with a call: the fast path's for a classification only.    *)
LEMMA CallsAuthority ==
  ASSUME Typed, Placed, AuthorityInv, NEW r \in Request, work[r] \in {"read", "jev"},
         NEW stage, NEW kind, NEW h, Calls(r, stage, kind, h),
         \/ stage = "jev" /\ asked[r].route = "intent" /\ asked[r].query.expected = None
         \/ stage = "chat" /\ kind # "jev"
  PROVE  AuthorityInv'
PROOF
<1> SUFFICES ASSUME NEW s \in Request PROVE Grants(s)'
  BY DEF Calls, AuthorityInv
<1>1. Grants(s)
  BY DEF AuthorityInv
<1>2. /\ UNCHANGED <<asked, answer>> /\ work'[r] = stage
      /\ call'[r].kind = kind
  BY DEF Calls, StartCall, Placed, Typed
<1>3. CASE s = r
  BY <1>1, <1>2, <1>3 DEF Grants, Granted
<1>4. CASE s # r
  <2>1. call'[s] = call[s] /\ work'[s] = work[s]
    BY <1>4 DEF Calls, StartCall, Placed, Typed
  <2> QED
    BY <1>1, <1>2, <2>1 DEF Grants, Granted
<1> QED
  BY <1>3, <1>4

LEMMA ReadAuthority ==
  ASSUME Typed, Placed, AuthorityInv, NEW r \in Request, Read(r)
  PROVE  AuthorityInv'
PROOF
<1> DEFINE a == asked[r]
<1>0. work[r] = "read"
  BY DEF Read
<1>1. ASSUME NEW result, Settles(r, result), UNCHANGED providerVars,
             result.status # 200 \/ a.route \notin {"intent", "capability"}
      PROVE  AuthorityInv'
  <2>1. Closes(a, result, call[r].kind)
    BY <1>1 DEF Closes
  <2> QED
    BY <1>1, <2>1, SettlesAuthority DEF providerVars
<1>2. CASE Verdict(r).status # 200 /\ Settles(r, Verdict(r)) /\ UNCHANGED providerVars
  BY <1>1, <1>2
<1>3. CASE a.route = "delete" /\ \E status \in {200, 503} : Settles(r, [status |-> status])
           /\ UNCHANGED providerVars
  BY <1>1, <1>3
<1>4. CASE /\ a.route = "browser" /\ Settles(r, Success(Nothing(a.query)))
           /\ UNCHANGED providerVars
  BY <1>1, <1>4
<1>5. CASE /\ Verdict(r).status = 200 /\ a.route = "intent" /\ a.query.decision
           /\ Calls(r, "jev", "jev", "jev")
  <2>1. Query(r) = a.query
    BY <1>5, QueryOf
  <2>2. lane(a.query)
    <3>1. Invalid.status # 200
      BY DEF Invalid
    <3>2. ASSUME ~lane(a.query) PROVE Verdict(r) = Invalid
      BY <1>5, <2>1, <3>2, Zenon DEF Verdict
    <3> QED
      BY <1>5, <3>1, <3>2
  <2>3. a.query.expected = None
    BY <1>5, <2>2, DecisionHasNoExpected
  <2> QED
    BY <1>0, <1>5, <2>3, CallsAuthority
<1>6. ASSUME NEW kind \in {"attached", "decision", "chat"}, Calls(r, "chat", kind, a.host)
      PROVE  AuthorityInv'
  BY <1>0, <1>6, CallsAuthority
<1>7. Kind(a.route) \in {"decision", "chat"}
  BY DEF Kind
<1> HIDE DEF a
<1> QED
  BY <1>2, <1>3, <1>4, <1>5, <1>6, <1>7 DEF Read, a

LEMMA FastPathAuthority ==
  ASSUME Typed, Placed, AuthorityInv, NEW r \in Request, FastPath(r)
  PROVE  AuthorityInv'
PROOF
<1>0. work[r] = "jev" /\ asked[r].route = "intent" /\ asked[r].query.expected = None
  BY DEF FastPath, CallEnded, AuthorityInv, Grants
<1>1. CASE Settles(r, [status |-> 409]) /\ UNCHANGED providerVars
  <2>1. Closes(asked[r], [status |-> 409], call[r].kind)
    BY DEF Closes
  <2> QED
    BY <1>1, <2>1, SettlesAuthority DEF providerVars
<1>2. ASSUME NEW response, decide(asked[r].query, response) # None, UNCHANGED providerVars,
             Settles(r, respond(asked[r].query, decide(asked[r].query, response)))
      PROVE  AuthorityInv'
  <2>1. \E v : /\ respond(asked[r].query, decide(asked[r].query, response)) = Success(v)
               /\ Authority(asked[r], v, call[r].kind)
    BY <1>0, <1>2, FastAuthority
  <2>2. Closes(asked[r], respond(asked[r].query, decide(asked[r].query, response)), call[r].kind)
    BY <2>1 DEF Closes
  <2> QED
    BY <1>2, <2>2, SettlesAuthority DEF providerVars
<1>3. CASE Calls(r, "chat", "decision", asked[r].host)
  BY <1>0, <1>3, CallsAuthority
<1>4. CASE call[r].result = "cancelled" /\ Settles(r, [status |-> 409]) /\ UNCHANGED providerVars
  BY <1>1, <1>4
<1>5. ASSUME NEW response, NEW taken,
             taken = IF response = None THEN None ELSE decide(asked[r].query, response),
             \/ /\ taken # None
                /\ Settles(r, respond(asked[r].query, taken)) /\ UNCHANGED providerVars
             \/ /\ taken = None /\ r \in cancelled
                /\ Settles(r, [status |-> 409]) /\ UNCHANGED providerVars
             \/ /\ taken = None /\ r \notin cancelled
                /\ Calls(r, "chat", "decision", asked[r].host)
      PROVE  AuthorityInv'
  BY <1>1, <1>2, <1>3, <1>5
<1> QED
  BY <1>4, <1>5 DEF FastPath

LEMMA ChattedAuthority ==
  ASSUME Typed, Placed, AuthorityInv, NEW r \in Request, Chatted(r)
  PROVE  AuthorityInv'
PROOF
<1> DEFINE a == asked[r]
           kind == call[r].kind
<1>0. work[r] = "chat" /\ kind # "jev" /\ UNCHANGED providerVars
  BY DEF Chatted, CallEnded, AuthorityInv, Grants
<1>1. ASSUME NEW result, Settles(r, result), Closes(a, result, kind) PROVE AuthorityInv'
  BY <1>0, <1>1, SettlesAuthority DEF providerVars
<1>2. \A result \in {Broken, Refusal, [status |-> 409]} : Closes(a, result, kind)
  BY DEF Broken, Refusal, Closes
<1>3. ASSUME NEW message PROVE Closes(a, Decides(r, message), kind)
  <2> DEFINE value == structured(message)
  <2>1. CASE a.route \notin {"intent", "capability"}
    BY <2>1 DEF Closes
  <2>2. CASE a.route = "capability"
    <3>1. Query(r) = a.query
      BY <2>2, QueryOf
    <3> HIDE DEF value
    <3>2. \/ Decides(r, message) = Broken
          \/ conforms(PlanSchema, value) /\ Decides(r, message) = plan(a.query, value)
      BY <2>2, <3>1 DEF Decides, value
    <3>3. CASE conforms(PlanSchema, value) /\ Decides(r, message) = plan(a.query, value)
      <4>1. CASE plan(a.query, value).status = 200
        <5>1. plan(a.query, value) = Success(value) /\ Authority(a, value, kind)
          BY <2>2, <3>3, <4>1, PlanNames
        <5> QED
          BY <3>3, <5>1 DEF Closes
      <4>2. CASE plan(a.query, value).status # 200
        BY <3>3, <4>2 DEF Closes
      <4> QED
        BY <4>1, <4>2
    <3> QED
      BY <1>2, <3>2, <3>3
  <2>3. CASE a.route = "intent"
    <3>1. Query(r) = a.query
      BY <2>3, QueryOf
    <3> HIDE DEF value
    <3>2. \/ Decides(r, message) = Broken
          \/ /\ conforms(RouteSchema, value) /\ route(a.query, value) # None
             /\ Decides(r, message) = respond(a.query, route(a.query, value))
      BY <2>3, <3>1 DEF Decides, value
    <3>3. CASE /\ conforms(RouteSchema, value) /\ route(a.query, value) # None
               /\ Decides(r, message) = respond(a.query, route(a.query, value))
      <4>1. \E v : /\ respond(a.query, route(a.query, value)) = Success(v)
                   /\ Authority(a, v, kind)
        BY <1>0, <3>3, RouteAuthority
      <4> QED
        BY <3>3, <4>1 DEF Closes
    <3> QED
      BY <1>2, <3>2, <3>3
  <2> QED
    BY <2>1, <2>2, <2>3
<1> HIDE DEF a, kind
<1> QED
  BY <1>1, <1>2, <1>3 DEF Chatted

LEMMA NextAuthority == ServerInv /\ HeldInv /\ AuthorityInv /\ [Next]_vars => AuthorityInv'
PROOF
<1> SUFFICES ASSUME ServerInv, HeldInv, AuthorityInv, [Next]_vars PROVE AuthorityInv'
  OBVIOUS
<1>0. Typed /\ Placed
  BY DEF ServerInv, PoolInv
<1>1. ASSUME NEW r \in Request, Bodyless(r) \/ Received(r) PROVE AuthorityInv'
  BY <1>0, <1>1, RoutedAuthority DEF Bodyless, Received, Due, providerVars
<1>2. CASE UNCHANGED <<asked, answer, call, work>>
  BY <1>2, AnswerStays
<1>3. ASSUME NEW r \in Request, Admit(r) PROVE AuthorityInv'
  <2>1. ASSUME NEW status, status # 200, Answers(r, status) PROVE AuthorityInv'
    BY <1>3, <2>1, AnswersAuthority DEF Admit, providerVars
  <2> QED
    BY <1>2, <1>3, <2>1 DEF Admit, providerVars
<1>4. ASSUME NEW r \in Request, NotReceived(r) PROVE AuthorityInv'
  BY <1>4, AnswersAuthority DEF NotReceived, providerVars
<1>5. ASSUME NEW closed, Dropped(closed) PROVE AuthorityInv'
  BY <1>2, <1>5 DEF Dropped
<1>6. ASSUME NEW r \in Request, Work(r) PROVE AuthorityInv'
  <2>1. CASE CallStep(r) /\ UNCHANGED serverVars
    BY <1>0, <2>1, KindStays, AnswerStays DEF serverVars
  <2> QED
    BY <1>0, <1>6, <2>1, ReadAuthority, FastPathAuthority, ChattedAuthority DEF Work
<1>7. CASE PoolSteps
  <2>1. PICK h \in Host : PoolStep(h) /\ UNCHANGED serverVars
    BY <1>7 DEF PoolSteps
  <2>2. CASE Request = {}
    BY <2>1, <2>2, AnswerStays DEF serverVars
  <2>3. CASE Request # {}
    <3>1. \A s \in Request : call'[s].kind = call[s].kind
      BY <1>0, <2>1, <2>3, KindStays
    <3> QED
      BY <2>1, <3>1, AnswerStays DEF serverVars
  <2> QED
    BY <2>2, <2>3
<1>8. CASE Terminate \/ Finished \/ UNCHANGED vars
  BY <1>2, <1>8 DEF Terminate, Finished, vars, providerVars, serverVars
<1> QED
  BY <1>1, <1>3, <1>4, <1>5, <1>6, <1>7, <1>8 DEF Next, Close, Shutdown

(* Whatever a model wrote and however requests interleave, an answer names *)
(* an Assistant only out of what Team supplied, each once and one to       *)
(* uninstall; a classification and the fast path name none, and the fast   *)
(* path nothing but an ordinary task (runtime/src/decisions/intent.rs,     *)
(* decisions/intent/route.rs, decisions/capability.rs, decisions/jev.rs).  *)
THEOREM AuthorityStaysClosed == Spec => []AuthorityClosed
PROOF
<1>1. AuthorityInv => AuthorityClosed
  BY DEF AuthorityInv, AuthorityClosed, Grants, Granted, Authority
<1>2. Init => AuthorityInv
  BY DEF Init, AuthorityInv, Grants, Granted
<1>3. Spec => [](ServerInv /\ HeldInv /\ AuthorityInv)
  <2>1. ServerInv /\ HeldInv /\ AuthorityInv /\ [Next]_vars
          => (ServerInv /\ HeldInv /\ AuthorityInv)'
    BY NextKeeps, NextHeld, NextAuthority DEF ServerInv
  <2> QED
    BY <1>2, <2>1, InitHolds, InitHeld, PTL DEF Spec
<1> QED
  BY <1>1, <1>3, PTL

-----------------------------------------------------------------------------
(* The answers *)

(* A connection has an answer exactly when it was answered, and one whose  *)
(* status is an answer's.                                                  *)
AnswerInv ==
  /\ answer = [r \in Request |-> answer[r]]
  /\ \A r \in Request :
       IF http[r] = "answered" THEN IsAnswer(answer[r]) ELSE answer[r] = None
  /\ phase \in {"serving", "stopping", "closed"}

(* Whatever is decided is an answer: a success or one of the errors.       *)
LEMMA Rulings ==
  /\ IsAnswer(Invalid) /\ IsAnswer(Refusal) /\ IsAnswer(Broken)
  /\ \A status \in Statuses : IsAnswer([status |-> status])
  /\ \A value : IsAnswer(Success(value))
PROOF BY DEF IsAnswer, Statuses, Invalid, Refusal, Broken, Success

LEMMA UsageAnswers ==
  ASSUME NEW result, IsAnswer(result), NEW u
  PROVE  IsAnswer(WithUsage(u, result))
PROOF BY DEF IsAnswer, WithUsage

LEMMA VerdictAnswers ==
  ASSUME NEW r
  PROVE  IsAnswer(Verdict(r))
PROOF
<1> DEFINE ruled(a) == a \in {Invalid, Refusal, Success(None), [status |-> 503]}
<1>1. \A a : ruled(a) => IsAnswer(a)
  BY Rulings DEF Statuses
<1>2. \A q : ruled(PlanRequest(q))
  BY DEF PlanRequest
<1>3. \A q : ruled(PurposeRequest(q))
  BY DEF PurposeRequest
<1>4. \A q : ruled(IntentRequest(q))
  BY DEF IntentRequest
<1>5. \A q, h : ruled(BrowserRequest(q, h))
  BY DEF BrowserRequest
<1>6. ruled(Invalid) /\ ruled(Refusal) /\ ruled(Success(None))
  OBVIOUS
<1> HIDE DEF ruled
<1>7. ruled(Verdict(r))
  BY <1>2, <1>3, <1>4, <1>5, <1>6 DEF Verdict
<1> QED
  BY <1>1, <1>7

LEMMA DecidesAnswers ==
  ASSUME NEW r, NEW message
  PROVE  IsAnswer(Decides(r, message))
PROOF
<1>1. \A q, value : IsAnswer(plan(q, value))
  BY Rulings DEF plan
<1>2. \A q, taken : IsAnswer(respond(q, taken))
  BY Rulings DEF respond
<1>3. \A h, value : IsAnswer(step(h, value))
  BY Rulings DEF step
<1>4. \A reply : IsAnswer(fold(reply)) /\ IsAnswer(final_answer(reply))
  BY Rulings DEF fold, final_answer
<1>5. \A value : IsAnswer(check(value))
  BY Rulings DEF check
<1> QED
  BY <1>1, <1>2, <1>3, <1>4, <1>5, Rulings DEF Decides

LEMMA AnswersTyped ==
  ASSUME Placed, AnswerInv, NEW r \in Request, NEW status \in Statuses, Answers(r, status)
  PROVE  AnswerInv'
PROOF
<1>1. IsAnswer([status |-> status])
  BY Rulings
<1> QED
  BY <1>1 DEF Answers, Placed, AnswerInv

(* The check of a bearer lets a request on, or says an error.              *)
LEMMA BearerRuled ==
  ASSUME Placed, NEW r \in Request, asked[r] # None
  PROVE  Authenticates(asked[r].bearer) \subseteq Statuses
PROOF
<1> DEFINE bearers == {"right", "wrong", "rotated"}
<1>1. asked[r].bearer \in bearers
  BY WorkloadsAssumption DEF Placed
<1>2. \A bearer \in bearers : Authenticates(bearer) \subseteq Statuses
  BY DEF Authenticates, Statuses
<1> QED
  BY <1>1, <1>2

LEMMA RoutedTyped ==
  ASSUME Placed, AnswerInv, NEW r \in Request, Routed(r), asked[r] # None,
         http[r] \in {"idle", "receiving"}
  PROVE  AnswerInv'
PROOF
<1>1. CASE \E status \in Statuses : Answers(r, status)
  BY <1>1, AnswersTyped
<1>2. CASE Starts(r)
  BY <1>2 DEF Starts, Placed, AnswerInv
<1>3. {200, 404, 405, 422, 429} \subseteq Statuses
  BY DEF Statuses
<1> QED
  BY <1>1, <1>2, <1>3, BearerRuled DEF Routed

LEMMA AdmitTyped ==
  ASSUME Placed, AnswerInv, NEW r \in Request, Admit(r)
  PROVE  AnswerInv'
PROOF
<1>1. CASE \E status \in Statuses : Answers(r, status)
  BY <1>1, AnswersTyped
<1>2. CASE http' = [http EXCEPT ![r] = "receiving"] /\ UNCHANGED <<answer, phase>>
  BY <1>2 DEF Admit, Due, Placed, AnswerInv
<1>3. {413, 503} \subseteq Statuses
  BY DEF Statuses
<1> QED
  BY <1>1, <1>2, <1>3, BearerRuled DEF Admit, Due

(* Work that settles answers the connection that still waits.              *)
LEMMA SettlesTyped ==
  ASSUME Placed, AnswerInv, NEW r \in Request, NEW result, IsAnswer(result), Settles(r, result)
  PROVE  AnswerInv'
PROOF
<1>1. CASE UNCHANGED <<http, answer>>
  BY <1>1 DEF Settles, AnswerInv
<1>2. ASSUME NEW given, IsAnswer(given), http' = [http EXCEPT ![r] = "answered"],
             answer' = [answer EXCEPT ![r] = given]
      PROVE  AnswerInv'
  BY <1>2 DEF Settles, Placed, AnswerInv
<1>3. IsAnswer(WithUsage(usage[r], result))
  BY UsageAnswers
<1> QED
  BY <1>1, <1>2, <1>3 DEF Settles

LEMMA WorkTyped ==
  ASSUME Placed, AnswerInv, NEW r \in Request, Read(r) \/ FastPath(r) \/ Chatted(r)
  PROVE  AnswerInv'
PROOF
<1>1. CASE \E result : IsAnswer(result) /\ Settles(r, result)
  BY <1>1, SettlesTyped
<1>2. CASE UNCHANGED <<http, answer, phase>>
  BY <1>2 DEF AnswerInv
<1>3. ASSUME NEW stage, NEW kind, NEW h, Calls(r, stage, kind, h) PROVE AnswerInv'
  BY <1>2, <1>3 DEF Calls
<1>4. CASE Read(r)
  <2>1. IsAnswer(Verdict(r)) /\ \A value : IsAnswer(Success(value))
    BY VerdictAnswers, Rulings
  <2>2. \A status \in {200, 503} : IsAnswer([status |-> status])
    BY Rulings DEF Statuses
  <2> QED
    BY <1>1, <1>3, <1>4, <2>1, <2>2 DEF Read
<1>5. CASE FastPath(r)
  <2>1. IsAnswer([status |-> 409])
    BY Rulings DEF Statuses
  <2>2. \A taken : IsAnswer(respond(asked[r].query, taken))
    BY Rulings DEF respond
  <2> QED
    BY <1>1, <1>3, <1>5, <2>1, <2>2 DEF FastPath
<1>6. CASE Chatted(r)
  <2>1. IsAnswer([status |-> 409]) /\ IsAnswer(Broken) /\ IsAnswer(Refusal)
    BY Rulings DEF Statuses
  <2>2. \A message : IsAnswer(Decides(r, message))
    BY DecidesAnswers
  <2> QED
    BY <1>1, <1>6, <2>1, <2>2 DEF Chatted
<1> QED
  BY <1>4, <1>5, <1>6

LEMMA NextTyped == Placed /\ AnswerInv /\ [Next]_vars => AnswerInv'
PROOF
<1> SUFFICES ASSUME Placed, AnswerInv, [Next]_vars PROVE AnswerInv'
  OBVIOUS
<1>1. ASSUME NEW r \in Request, Bodyless(r) PROVE AnswerInv'
  BY <1>1, RoutedTyped DEF Bodyless, Due
<1>2. ASSUME NEW r \in Request, Admit(r) PROVE AnswerInv'
  BY <1>2, AdmitTyped
<1>3. ASSUME NEW r \in Request, Received(r) PROVE AnswerInv'
  BY <1>3, RoutedTyped DEF Received, Placed
<1>4. ASSUME NEW r \in Request, NotReceived(r) PROVE AnswerInv'
  <2>1. {400, 408, 413} \subseteq Statuses
    BY DEF Statuses
  <2> QED
    BY <1>4, <2>1, AnswersTyped DEF NotReceived
<1>5. ASSUME NEW closed \in SUBSET Open, Dropped(closed),
             phase' \in {"serving", "stopping", "closed"}
      PROVE  AnswerInv'
  BY <1>5 DEF Dropped, Open, Placed, AnswerInv
<1>6. ASSUME NEW r \in Request, Close(r) PROVE AnswerInv'
  <2>1. {r} \in SUBSET Open /\ Dropped({r}) /\ phase' = phase
    BY <1>6 DEF Close
  <2> QED
    BY <1>5, <2>1 DEF AnswerInv
<1>7. CASE Shutdown
  BY <1>5, <1>7 DEF Shutdown
<1>8. CASE UNCHANGED <<http, answer>> /\ phase' \in {phase, "stopping"}
  BY <1>8 DEF AnswerInv
<1>9. ASSUME NEW r \in Request, Work(r) PROVE AnswerInv'
  BY <1>8, <1>9, WorkTyped DEF Work, serverVars
<1>10. CASE PoolSteps \/ Terminate \/ Finished \/ UNCHANGED vars
  BY <1>8, <1>10 DEF PoolSteps, Terminate, Finished, vars, serverVars
<1> QED
  BY <1>1, <1>2, <1>3, <1>4, <1>6, <1>7, <1>9, <1>10 DEF Next

(* In every behaviour of the server its state has its types: a connection  *)
(* has an answer exactly when it was answered, whose status is an answer's *)
(* (runtime/src/server/errors.rs), a lane's slots are held by work that    *)
(* runs only, and no pool has opened more than it may                      *)
(* (runtime/src/provider/transport.rs).                                    *)
THEOREM TypeCorrect == Spec => []TypeOK
PROOF
<1>1. Init => AnswerInv
  BY DEF Init, AnswerInv
<1>2. ServerInv /\ HeldInv /\ AnswerInv => TypeOK
  <2> SUFFICES ASSUME ServerInv, HeldInv, AnswerInv PROVE TypeOK
    OBVIOUS
  <2>1. \A u \in Usage : \A n \in DOMAIN u : u[n] \in Nat
    BY DEF Usage
  <2>2. ProviderTypeOK
    BY <2>1 DEF ServerInv, PoolInv, Typed, Bounded, Placed, ProviderTypeOK
  <2>3. reserved \in [Request -> Nat]
    BY ReservedIsNat DEF ServerInv, HeldInv
  <2>4. permits \subseteq Running
    BY DEF HeldInv, LanesHeld
  <2> QED
    BY <2>2, <2>3, <2>4 DEF ServerInv, Placed, AnswerInv, TypeOK
<1>3. ServerInv /\ HeldInv /\ AnswerInv /\ [Next]_vars => (ServerInv /\ HeldInv /\ AnswerInv)'
  BY NextKeeps, NextHeld, NextTyped DEF ServerInv
<1> QED
  BY <1>1, <1>2, <1>3, InitHolds, InitHeld, PTL DEF Spec
=============================================================================
