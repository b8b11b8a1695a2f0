---------------------------- MODULE DriveProofs ----------------------------
(***************************************************************************)
(* Theorems about Drive, for every number of sessions, every bound and     *)
(* every length of the lease.                                              *)
(***************************************************************************)
EXTENDS Drive, FiniteSetTheorems, WellFoundedInduction, SequenceTheorems, TLAPS

-----------------------------------------------------------------------------
(* Facts about the operators of the ledger: how obligations are numbered,  *)
(* and what each transaction makes of a well-typed row.                    *)

(* Some number bounds the identifiers of a set of obligations. *)
Bounded(S) == \E n \in Nat : \A i \in Ids(S) : i <= n

(* A bounded, nonempty set of numbers has a greatest element (what         *)
(* SELECT MAX(id) returns).                                                *)
LEMMA MaxOfBounded ==
  ASSUME NEW S \in SUBSET Nat, S # {},
         NEW n \in Nat, \A i \in S : i <= n
  PROVE  /\ Max(S) \in S
         /\ \A i \in S : Max(S) >= i
PROOF
<1> DEFINE Above(i) == {j \in S : j > i}
           T == {Above(i) : i \in S}
           R == StrictSubsetOrdering(S)
<1>1. IsFiniteSet(S)
  BY FS_BoundedSetOfNaturals
<1>2. IsWellFoundedOn(R, SUBSET S)
  BY <1>1, FS_FiniteSubsetsOfFinite, FS_StrictSubsetOrderingWellFounded
<1>3. PICK t \in T : \A u \in T : ~(<<u, t>> \in R)
  <2>1. T \subseteq SUBSET S /\ T # {}
    OBVIOUS
  <2> HIDE DEF T, R
  <2> QED
    BY <1>2, <2>1, WFMin
<1>4. PICK m \in S : t = Above(m)
  OBVIOUS
<1>5. \A i \in S : m >= i
  <2> SUFFICES ASSUME NEW i \in S, i > m PROVE FALSE
    OBVIOUS
  <2>1. Above(i) \subseteq Above(m) /\ Above(i) # Above(m)
    <3>1. i \in Above(m) /\ i \notin Above(i)
      OBVIOUS
    <3>2. Above(i) \subseteq Above(m)
      <4> SUFFICES ASSUME NEW j \in S, j > i PROVE j > m
        OBVIOUS
      <4> QED
        OBVIOUS
    <3> HIDE DEF Above
    <3> QED
      BY <3>1, <3>2
  <2>2. <<Above(i), Above(m)>> \in R
    BY <2>1 DEF StrictSubsetOrdering
  <2>3. Above(i) \in T
    OBVIOUS
  <2> QED
    BY <1>3, <1>4, <2>2, <2>3
<1> QED
  BY <1>5 DEF Max

(* The number of a new obligation is greater than every number in use.     *)
LEMMA NextIdFresh ==
  ASSUME NEW S \in SUBSET Obligation, Bounded(S)
  PROVE  /\ NextId(S) \in Nat \ {0}
         /\ \A o \in S : o.id < NextId(S)
PROOF
<1> DEFINE I == Ids(S) \cup {0}
<1>1. PICK n \in Nat : \A i \in Ids(S) : i <= n
  BY DEF Bounded
<1>2. I \in SUBSET Nat /\ I # {} /\ (\A i \in I : i <= n)
  BY <1>1 DEF Ids, Obligation
<1>3. Max(I) \in Nat /\ \A i \in I : Max(I) >= i
  <2> HIDE DEF I
  <2> QED
    BY <1>2, MaxOfBounded
<1>4. \A o \in S : o.id \in I
  BY DEF Ids
<1>5. \A o \in S : o.id \in Nat
  BY DEF Obligation
<1>6. NextId(S) = Max(I) + 1
  BY DEF NextId
<1> HIDE DEF I
<1> QED
  BY <1>3, <1>4, <1>5, <1>6

(* Obligations stay typed and bounded when new ones are recorded.          *)
LEMMA WithNewTyped ==
  ASSUME NEW S \in SUBSET Obligation, Bounded(S),
         NEW new \in Seq(NewObligation)
  PROVE  /\ WithNew(S, new) \in SUBSET Obligation
         /\ Bounded(WithNew(S, new))
PROOF
<1> DEFINE k == NextId(S)
<1>1. k \in Nat \ {0} /\ \A o \in S : o.id < k
  BY NextIdFresh
<1>2. Len(new) \in Nat /\ DOMAIN new = 1..Len(new)
  BY LenProperties
<1>3. \A i \in DOMAIN new : new[i] \in NewObligation
  BY ElementOfSeq, <1>2
<1>4. \A i \in DOMAIN new : new[i].fence \in Nat /\ new[i].attempt \in Nat
  BY <1>3 DEF NewObligation
<1>5. WithNew(S, new) =
        S \cup {[id |-> k + i - 1, fence |-> new[i].fence,
                 attempt |-> new[i].attempt] : i \in DOMAIN new}
  BY DEF WithNew
<1> HIDE DEF k
<1>6. \A i \in DOMAIN new : k + i - 1 \in Nat \ {0} /\ k + i - 1 <= k + Len(new)
  BY <1>1, <1>2
<1>7. WithNew(S, new) \in SUBSET Obligation
  BY <1>4, <1>5, <1>6 DEF Obligation
<1>8. \A o \in WithNew(S, new) : o.id <= k + Len(new)
  <2> SUFFICES ASSUME NEW o \in WithNew(S, new) PROVE o.id <= k + Len(new)
    OBVIOUS
  <2>1. CASE o \in S
    <3>1. o.id \in Nat /\ o.id < k
      BY <2>1, <1>1 DEF Obligation
    <3> QED
      BY <3>1, <1>1, <1>2
  <2>2. CASE o \notin S
    BY <2>2, <1>5, <1>6
  <2> QED
    BY <2>1, <2>2
<1>9. k + Len(new) \in Nat
  BY <1>1, <1>2
<1> QED
  BY <1>7, <1>8, <1>9 DEF Bounded, Ids

-----------------------------------------------------------------------------
(* Transactions preserve the type of the row *)

(* The row is well typed, and its obligations can be numbered.             *)
RowOK == LedgerTypeOK /\ Bounded(obligations)

(* What a write leaves of the obligations is typed and bounded.            *)
LEMMA OwingTyped ==
  ASSUME RowOK, NEW token \in Nat, NEW proven
  PROVE  /\ Owing(token, proven) \in SUBSET Obligation
         /\ Bounded(Owing(token, proven))
PROOF
<1> DEFINE k == NextId(obligations)
<1>1. k \in Nat \ {0} /\ \A o \in obligations : o.id < k
  BY NextIdFresh DEF RowOK, LedgerTypeOK
<1>2. /\ Unclean(token) \in SUBSET Obligation
      /\ \A o \in Unclean(token) : o.id = k
  BY <1>1 DEF Unclean, Obligation, RowOK, LedgerTypeOK
<1>3. obligations \in SUBSET Obligation
  BY DEF RowOK, LedgerTypeOK
<1>4. \A o \in obligations \cup Unclean(token) : o.id <= k
  <2> HIDE DEF k
  <2>1. \A o \in obligations : o.id \in Nat
    BY <1>3 DEF Obligation
  <2> QED
    BY <1>1, <1>2, <2>1
<1> HIDE DEF k
<1>5. Owing(token, proven) \subseteq obligations \cup Unclean(token)
  BY DEF Owing
<1> QED
  BY <1>1, <1>2, <1>3, <1>4, <1>5 DEF Bounded, Ids

(* The deferred table keeps its type. *)
LEMMA RegisteredTyped ==
  ASSUME RowOK, NEW own
  PROVE  Registered(own) \in [Deferred -> {"absent", "open"} \cup Result]
PROOF BY DEF Registered, RowOK, LedgerTypeOK

(* The fence of a write is a number.                                       *)
LEMMA FenceTyped ==
  ASSUME RowOK, NEW token
  PROVE  FenceOf(token) \in Nat
PROOF BY DEF FenceOf, RowOK, LedgerTypeOK

(* A write that keeps the run (write.rs, End::Hold) keeps the row typed. *)
LEMMA HoldTyped ==
  ASSUME RowOK, now' = now, NEW s \in Session, NEW token \in Nat,
         NEW own \in Seq(Event), NEW proven, NEW new \in Seq(NewObligation),
         WriteHold(s, token, own, proven, new)
  PROVE  RowOK'
PROOF
<1>1. obligations' \in SUBSET Obligation /\ Bounded(obligations')
  BY OwingTyped, WithNewTyped DEF WriteHold
<1>2. events' \in Seq(Event)
  BY ConcatProperties DEF WriteHold, RowOK, LedgerTypeOK
<1>3. fence' \in Nat /\ deferred' \in [Deferred -> {"absent", "open"} \cup Result]
  BY FenceTyped, RegisteredTyped DEF WriteHold
<1>4. expires' \in Nat /\ wake' \in Nat \cup {None} /\ holder' \in Session \cup {None}
  BY LeaseAssumption DEF WriteHold, RowOK, LedgerTypeOK
<1> QED
  BY <1>1, <1>2, <1>3, <1>4 DEF WriteHold, RowOK, LedgerTypeOK

(* A refused park (write.rs, refused_park) keeps the row typed. *)
LEMMA RefusedParkTyped ==
  ASSUME RowOK, now' = now, NEW s \in Session, NEW token \in Nat,
         WriteRefusedPark(s, token)
  PROVE  RowOK'
PROOF
<1>1. fence' \in Nat
  BY FenceTyped DEF WriteRefusedPark
<1>2. expires' \in Nat /\ wake' \in Nat \cup {None} /\ holder' \in Session \cup {None}
  BY LeaseAssumption DEF WriteRefusedPark, RowOK, LedgerTypeOK
<1> QED
  BY <1>1, <1>2 DEF WriteRefusedPark, RowOK, LedgerTypeOK, Bounded

(* A park (write.rs, End::Park) keeps the row typed. *)
LEMMA ParkTyped ==
  ASSUME RowOK, now' = now, NEW token \in Nat, NEW own \in Seq(Event),
         NEW new \in Seq(NewObligation), NEW at \in Nat \cup {None},
         WritePark(token, own, new, at)
  PROVE  RowOK'
PROOF
<1>1. obligations' \in SUBSET Obligation /\ Bounded(obligations')
  BY OwingTyped, WithNewTyped DEF WritePark
<1>2. events' \in Seq(Event)
  BY ConcatProperties DEF WritePark, RowOK, LedgerTypeOK
<1>3. fence' \in Nat /\ deferred' \in [Deferred -> {"absent", "open"} \cup Result]
  BY FenceTyped, RegisteredTyped DEF WritePark
<1> QED
  BY <1>1, <1>2, <1>3 DEF WritePark, RowOK, LedgerTypeOK

(* The end of the run (write.rs, End::Finish) keeps the row typed. *)
LEMMA FinishTyped ==
  ASSUME RowOK, now' = now, NEW token \in Nat, NEW own \in Seq(Event),
         NEW new \in Seq(NewObligation), NEW out \in Outcome,
         WriteFinish(token, own, new, out)
  PROVE  RowOK'
PROOF
<1>1. obligations' \in SUBSET Obligation /\ Bounded(obligations')
  BY OwingTyped, WithNewTyped DEF WriteFinish
<1>2. Ending(out) \in Outcome
  BY DEF Ending, Outcome
<1>3. Completed(Ending(out)) \in Event
  BY <1>2 DEF Completed, Event
<1>4. events \o own \in Seq(Event)
  BY ConcatProperties DEF RowOK, LedgerTypeOK
<1>5. events' \in Seq(Event)
  BY <1>3, <1>4, AppendProperties DEF WriteFinish
<1>6. fence' \in Nat /\ deferred' \in [Deferred -> {"absent", "open"} \cup Result]
  BY FenceTyped, RegisteredTyped DEF WriteFinish
<1> QED
  BY <1>1, <1>2, <1>5, <1>6 DEF WriteFinish, RowOK, LedgerTypeOK

(* The transactions of the host keep the type of the row.                  *)
LEMMA HostTyped ==
  ASSUME RowOK, now' = now,
         \/ Create
         \/ \E d \in Deferred, r \in Result : Resolve(d, r)
         \/ Cancel
         \/ Acknowledge
         \/ Wake
  PROVE  RowOK'
PROOF
<1>1. CASE Create
  <2>1. <<Started>> \in Seq(Event)
    BY DEF Started, Event
  <2> QED
    BY <1>1, <2>1 DEF Create, RowOK, LedgerTypeOK, Bounded
<1>2. ASSUME NEW d \in Deferred, NEW r \in Result, Resolve(d, r)
      PROVE  RowOK'
  <2>1. Append(events, Resolved(d, r)) \in Seq(Event)
    BY AppendProperties DEF Resolved, Event, RowOK, LedgerTypeOK
  <2> QED
    BY <1>2, <2>1 DEF Resolve, RowOK, LedgerTypeOK, Bounded
<1>3. CASE Cancel
  <2>1. Append(events, CancelRequested) \in Seq(Event)
    BY AppendProperties DEF CancelRequested, Event, RowOK, LedgerTypeOK
  <2> QED
    BY <1>3, <2>1 DEF Cancel, RowOK, LedgerTypeOK, Bounded
<1>4. CASE Acknowledge
  BY <1>4 DEF Acknowledge, RowOK, LedgerTypeOK, Bounded
<1>5. CASE Wake
  BY <1>5 DEF Wake, RowOK, LedgerTypeOK, Bounded
<1> QED
  BY <1>1, <1>2, <1>3, <1>4, <1>5

(* A run that was never submitted is a typed row. *)
LEMMA InitTyped ==
  ASSUME LedgerInit
  PROVE  RowOK
PROOF
<1>1. Bounded(obligations)
  BY DEF LedgerInit, Bounded, Ids
<1>2. LedgerTypeOK
  <2>1. deferred \in [Deferred -> {"absent", "open"} \cup Result]
    BY DEF LedgerInit
  <2>2. events \in Seq(Event)
    BY EmptySeq DEF LedgerInit
  <2>3. obligations \subseteq Obligation
    BY DEF LedgerInit
  <2> QED
    BY <2>1, <2>2, <2>3 DEF LedgerInit, LedgerTypeOK
<1> QED
  BY <1>1, <1>2 DEF RowOK

(* The clock moves and the row stays typed. *)
LEMMA TickTyped ==
  ASSUME RowOK, Tick
  PROVE  RowOK'
PROOF BY DEF Tick, ledgerVars, RowOK, LedgerTypeOK, Bounded

-----------------------------------------------------------------------------
(* The invariant of types *)

(* The type invariant, with what numbering obligations needs.              *)
TypeInv ==
  /\ RowOK
  /\ ses \in [Session -> SessionState]
  /\ acting \subseteq NewObligation

-----------------------------------------------------------------------------
(* What a session holds is well typed, whatever it does next *)

(* A step of one session leaves the memory of all of them typed. *)
LEMMA BecomeTyped ==
  ASSUME ses \in [Session -> SessionState], NEW s \in Session,
         NEW new \in SessionState, Become(s, new)
  PROVE  ses' \in [Session -> SessionState]
PROOF BY DEF Become

(* A call that begins, or is over, has a typed memory. *)
LEMMA FreshTyped ==
  /\ Fresh \in SessionState
  /\ \A how \in Over : [Fresh EXCEPT !.pc = how] \in SessionState
  /\ \A b \in BOOLEAN : [Fresh EXCEPT !.aware = b] \in SessionState
PROOF
<1>1. <<>> \in Seq(Event) /\ <<>> \in Seq(NewObligation)
  OBVIOUS
<1>2. 0 \in Nat /\ {} \in SUBSET Obligation /\ {} \in SUBSET Nat
  OBVIOUS
<1> QED
  BY <1>1, <1>2, Zenon DEF Fresh, SessionState, Active, Over, StepKind, Outcome

(* Dropping the locals of an attempt keeps the memory typed. *)
LEMMA UnwoundTyped ==
  ASSUME NEW me \in SessionState
  PROVE  Unwound(me) \in SessionState
PROOF BY DEF Unwound, SessionState, StepKind

(* Deciding an outcome keeps the memory typed (ctx.rs conclude). *)
LEMMA ConcludeTyped ==
  ASSUME NEW me \in SessionState, NEW out \in Outcome
  PROVE  Conclude(me, out) \in SessionState
PROOF
<1>1. Unwound(me) \in SessionState
  BY UnwoundTyped
<1> QED
  BY <1>1 DEF Conclude, SessionState, Active

(* Deciding to wait keeps the memory typed (ctx.rs interrupted). *)
LEMMA WaitingTyped ==
  ASSUME NEW me \in SessionState, NEW at \in Nat \cup {None}
  PROVE  Waiting(me, at) \in SessionState
PROOF
<1>1. Unwound(me) \in SessionState
  BY UnwoundTyped
<1>2. Capped(at) \in Nat \cup {None}
  BY DriveAssumption DEF Capped
<1> QED
  BY <1>1, <1>2 DEF Waiting, SessionState, Active

(* The memory after a committed write is typed (session.rs write). *)
LEMMA WroteTyped ==
  ASSUME TypeInv, NEW s \in Session, NEW n \in Nat
  PROVE  Wrote(s, n) \in SessionState
PROOF
<1>1. FenceOf(ses[s].token) \in Nat
  BY FenceTyped DEF TypeInv
<1>2. Len(events) + n \in Nat
  BY LenProperties DEF TypeInv, RowOK, LedgerTypeOK
<1>3. <<>> \in Seq(Event) /\ <<>> \in Seq(NewObligation)
  OBVIOUS
<1>4. ses[s] \in SessionState
  BY DEF TypeInv
<1> QED
  BY <1>1, <1>2, <1>3, <1>4 DEF Wrote, SessionState

(* Dropping the queued heartbeat leaves a buffer of events.                *)
LEMMA WithoutBeatsTyped ==
  ASSUME NEW q \in Seq(Event)
  PROVE  WithoutBeats(q) \in Seq(Event)
PROOF
<1> DEFINE B == {i \in DOMAIN q : q[i] = Heartbeat}
           k == CHOOSE j \in B : TRUE
<1>1. CASE B = {}
  BY <1>1 DEF WithoutBeats
<1>2. CASE B # {}
  <2>1. k \in 1..Len(q) /\ Len(q) \in Nat
    BY <1>2, LenProperties
  <2>2. WithoutBeats(q) = SubSeq(q, 1, k - 1) \o SubSeq(q, k + 1, Len(q))
    BY <1>2 DEF WithoutBeats
  <2> HIDE DEF k, B
  <2>3. SubSeq(q, 1, k - 1) \in Seq(Event)
    BY <2>1, SubSeqProperties
  <2>4. SubSeq(q, k + 1, Len(q)) \in Seq(Event)
    BY <2>1, SubSeqProperties
  <2> QED
    BY <2>2, <2>3, <2>4, ConcatProperties
<1> QED
  BY <1>1, <1>2

-----------------------------------------------------------------------------
(* The type invariant: one step per action *)

(* The events a session adds are events of the history.                    *)
LEMMA EventTyped ==
  /\ Pure \in Event /\ Heartbeat \in Event
  /\ \A d \in Deferred : Scheduled(d) \in Event
  /\ \A a \in Nat : Settled(a) \in Event
  /\ \A f \in Nat, k \in StepKind : Dispatched(f, k) \in Event
PROOF BY DEF Pure, Heartbeat, Scheduled, Settled, Dispatched, Event

(* A typed memory, field by field. *)
LEMMA SessionTyped ==
  ASSUME TypeInv, NEW s \in Session
  PROVE  /\ ses[s] \in SessionState
         /\ ses[s].token \in Nat /\ ses[s].seen \in Nat
         /\ ses[s].attempt \in Nat /\ ses[s].kind \in StepKind
         /\ ses[s].buffer \in Seq(Event)
         /\ ses[s].owed \in Seq(NewObligation)
         /\ ses[s].left \subseteq Obligation
         /\ ses[s].proven \subseteq Nat
         /\ ses[s].aware \in BOOLEAN
         /\ ses[s].until \in Nat \cup {None}
         /\ ses[s].target \in Outcome
         /\ now \in Nat /\ fence \in Nat /\ Len(events) \in Nat
PROOF
<1>1. ses[s] \in SessionState
  BY DEF TypeInv
<1>2. now \in Nat /\ fence \in Nat /\ Len(events) \in Nat
  BY LenProperties DEF TypeInv, RowOK, LedgerTypeOK
<1> QED
  BY <1>1, <1>2 DEF SessionState

(* A step that leaves the row and the executors alone only has to keep the *)
(* memory of its session typed.                                            *)
LEMMA OwnStepTyped ==
  ASSUME TypeInv, NEW s \in Session, NEW new \in SessionState, Become(s, new),
         UNCHANGED <<ledgerVars, now>>, acting' \subseteq NewObligation
  PROVE  TypeInv'
PROOF
<1>1. ses' \in [Session -> SessionState]
  BY BecomeTyped DEF TypeInv
<1>2. RowOK'
  BY DEF TypeInv, RowOK, LedgerTypeOK, Bounded, ledgerVars
<1> QED
  BY <1>1, <1>2 DEF TypeInv

(* A step that also writes the row, and keeps its type.                    *)
LEMMA WriteStepTyped ==
  ASSUME TypeInv, NEW s \in Session, NEW new \in SessionState, Become(s, new),
         RowOK', acting' \subseteq NewObligation
  PROVE  TypeInv'
PROOF
<1>1. ses' \in [Session -> SessionState]
  BY BecomeTyped DEF TypeInv
<1> QED
  BY <1>1 DEF TypeInv

(* A write that finds newer history, or no lease, keeps the types. *)
LEMMA WriteStoppedTyped ==
  ASSUME TypeInv, NEW s \in Session, WriteStopped(s)
  PROVE  TypeInv'
PROOF
<1>1. ses[s].aware \in BOOLEAN
  BY SessionTyped
<1>2. /\ [Fresh EXCEPT !.aware = ses[s].aware] \in SessionState
      /\ [Fresh EXCEPT !.pc = "refused"] \in SessionState
  BY <1>1, FreshTyped DEF Over
<1>3. acting' \subseteq NewObligation
  BY DEF WriteStopped, TypeInv
<1>4. CASE Become(s, [Fresh EXCEPT !.aware = ses[s].aware])
  BY <1>2, <1>3, <1>4, OwnStepTyped DEF WriteStopped
<1>5. CASE Become(s, [Fresh EXCEPT !.pc = "refused"])
  BY <1>2, <1>3, <1>5, OwnStepTyped DEF WriteStopped
<1> QED
  BY <1>4, <1>5 DEF WriteStopped, Leave

(* A shut gate keeps the types (session.rs gate). *)
LEMMA GateShutTyped ==
  ASSUME TypeInv, NEW s \in Session, GateShut(s)
  PROVE  \E new \in SessionState : Become(s, new)
PROOF
<1>1. ses[s] \in SessionState
  BY SessionTyped
<1>2. {"cancelled", "expired"} \subseteq Outcome
  BY DEF Outcome
<1> QED
  BY <1>1, <1>2, ConcludeTyped DEF GateShut

(* The steps of the definition keep the types (ctx.rs). *)
LEMMA DefinitionTyped ==
  ASSUME TypeInv, NEW s \in Session,
         \/ Load(s) \/ Observe(s) \/ Interrupted(s) \/ Record(s) \/ Refuse(s)
         \/ Attempt(s) \/ Suspend(s) \/ Return(s) \/ Crash(s)
  PROVE  TypeInv'
PROOF
<1>1. SUFFICES \E new \in SessionState : Become(s, new)
  <2>1. UNCHANGED <<ledgerVars, now>> /\ UNCHANGED acting
    BY DEF Load, Observe, Interrupted, Record, Refuse, Attempt, Suspend, Return,
           Crash
  <2>2. acting' \subseteq NewObligation
    BY <2>1 DEF TypeInv
  <2> QED
    BY <2>1, <2>2, OwnStepTyped
<1> DEFINE me == ses[s]
<1>2. /\ me \in SessionState /\ now \in Nat /\ Len(events) \in Nat
      /\ me.buffer \in Seq(Event)
  BY SessionTyped
<1> HIDE DEF me
<1>3. CASE Load(s)
  <2>1. [me EXCEPT !.pc = "run", !.seen = Len(events)] \in SessionState
    BY <1>2 DEF SessionState, Active
  <2>2. /\ [Fresh EXCEPT !.pc = "ended"] \in SessionState
        /\ [Fresh EXCEPT !.pc = "refused"] \in SessionState
    BY FreshTyped DEF Over
  <2> QED
    BY <1>3, <2>1, <2>2 DEF Load, Leave, me
<1>4. CASE Observe(s)
  <2>1. [me EXCEPT !.aware = TRUE] \in SessionState
    BY <1>2 DEF SessionState
  <2> QED
    BY <1>4, <2>1 DEF Observe, me
<1>5. CASE Interrupted(s)
  <2>1. PICK a \in Running(s) : Become(s, [me EXCEPT !.buffer = Append(@, Settled(a))])
    BY <1>5 DEF Interrupted, me
  <2>2. a \in Nat
    BY <1>2, SessionTyped DEF Running, Read
  <2>3. Append(me.buffer, Settled(a)) \in Seq(Event)
    BY <1>2, <2>2, EventTyped, AppendProperties
  <2>4. [me EXCEPT !.buffer = Append(@, Settled(a))] \in SessionState
    BY <1>2, <2>3 DEF SessionState
  <2> QED
    BY <2>1, <2>4
<1>6. CASE Record(s)
  <2>1. PICK e \in {Pure} \cup {Scheduled(d) : d \in Deferred} :
          Become(s, [me EXCEPT !.buffer = Append(@, e)])
    BY <1>6 DEF Record, me
  <2>2. Append(me.buffer, e) \in Seq(Event)
    BY <1>2, <2>1, EventTyped, AppendProperties
  <2>3. [me EXCEPT !.buffer = Append(@, e)] \in SessionState
    BY <1>2, <2>2 DEF SessionState
  <2> QED
    BY <2>1, <2>3
<1>7. CASE Refuse(s)
  BY <1>7, GateShutTyped DEF Refuse
<1>8. CASE Attempt(s)
  <2>1. \A k \in StepKind :
          [me EXCEPT !.pc = "checked", !.kind = k, !.proven = {}] \in SessionState
    BY <1>2 DEF SessionState, Active
  <2> QED
    BY <1>8, <2>1 DEF Attempt, me
<1>9. CASE Suspend(s)
  <2>1. \A d \in Delays \cup {0} : now + d \in Nat
    BY <1>2, DriveAssumption
  <2> QED
    BY <1>2, <1>9, <2>1, WaitingTyped DEF Suspend, me
<1>10. CASE Return(s)
  <2>1. {"done", "limited", "unrecoverable", "expired"} \subseteq Outcome
    BY DEF Outcome
  <2> QED
    BY <1>2, <1>10, <2>1, ConcludeTyped DEF Return, me
<1>11. CASE Crash(s)
  BY <1>11, FreshTyped DEF Crash, Leave, Over
<1> QED
  BY <1>3, <1>4, <1>5, <1>6, <1>7, <1>8, <1>9, <1>10, <1>11

(* The steps of a session that only wait: no row changes.                  *)
LEMMA WaitingStepTyped ==
  ASSUME TypeInv, NEW s \in Session,
         \/ Prove(s) \/ Beat(s) \/ SettleModel(s) \/ GiveUp(s) \/ Release(s)
  PROVE  TypeInv'
PROOF
<1> DEFINE me == ses[s]
           mine == [fence |-> me.token, attempt |-> me.attempt]
<1>1. SUFFICES (\E new \in SessionState : Become(s, new))
               /\ acting' \subseteq NewObligation
  <2>1. UNCHANGED <<ledgerVars, now>>
    BY DEF Prove, Beat, SettleModel, GiveUp, Release
  <2> QED
    BY <2>1, OwnStepTyped
<1>2. /\ me \in SessionState /\ now \in Nat /\ Len(events) \in Nat
      /\ me.buffer \in Seq(Event) /\ me.owed \in Seq(NewObligation)
      /\ me.attempt \in Nat /\ me.token \in Nat
      /\ me.left \subseteq Obligation
  BY SessionTyped
<1>3. /\ mine \in NewObligation
      /\ [fence |-> me.token, attempt |-> 0] \in NewObligation
  BY <1>2 DEF NewObligation
<1>4. acting \subseteq NewObligation
  BY DEF TypeInv
<1> HIDE DEF me
<1>5. CASE Prove(s)
  <2>1. acting' \subseteq NewObligation
    BY <1>4, <1>5 DEF Prove
  <2>2. PICK P \in SUBSET Provable(me.left) :
          \/ Become(s, [me EXCEPT !.pc = "unproven", !.proven = Ids(P), !.left = {}])
          \/ GateShut(s)
          \/ Become(s, Waiting(me, now))
          \/ Become(s, [me EXCEPT !.pc = "checked", !.proven = Ids(P), !.left = {}])
    BY <1>5 DEF Prove, me
  <2>3. Ids(P) \in SUBSET Nat
    BY <1>2, <2>2 DEF Provable, Ids, Obligation
  <2>4. /\ [me EXCEPT !.pc = "unproven", !.proven = Ids(P), !.left = {}] \in SessionState
        /\ [me EXCEPT !.pc = "checked", !.proven = Ids(P), !.left = {}] \in SessionState
    BY <1>2, <2>3 DEF SessionState, Active
  <2> QED
    BY <1>2, <2>1, <2>2, <2>4, GateShutTyped, WaitingTyped
<1>6. CASE Beat(s)
  <2>1. Append(WithoutBeats(me.buffer), Heartbeat) \in Seq(Event)
    BY <1>2, WithoutBeatsTyped, EventTyped, AppendProperties
  <2>2. [me EXCEPT !.buffer = Append(WithoutBeats(@), Heartbeat)] \in SessionState
    BY <1>2, <2>1 DEF SessionState
  <2> QED
    BY <1>4, <1>6, <2>2 DEF Beat, me
<1>7. CASE SettleModel(s)
  <2> DEFINE settled == [Unwound(me) EXCEPT !.pc = "run",
                                !.buffer = Append(@, Settled(me.attempt))]
  <2>1. Append(me.buffer, Settled(me.attempt)) \in Seq(Event)
    BY <1>2, EventTyped, AppendProperties
  <2>2. Unwound(me) \in SessionState /\ Unwound(me).buffer = me.buffer
    BY <1>2, UnwoundTyped DEF Unwound, SessionState
  <2>3. settled \in SessionState
    BY <2>1, <2>2 DEF SessionState, Active
  <2> HIDE DEF settled
  <2>4. \A out \in Outcome : Conclude(settled, out) \in SessionState
    BY <2>3, ConcludeTyped
  <2>5. {"cancelled", "expired"} \subseteq Outcome
    BY DEF Outcome
  <2>6. \/ Become(s, settled)
        \/ Become(s, Conclude(settled, IF Cancelled(s) THEN "cancelled" ELSE "expired"))
    BY <1>7 DEF SettleModel, me, settled
  <2> QED
    BY <1>4, <1>7, <2>3, <2>4, <2>5, <2>6 DEF SettleModel
<1>8. CASE GiveUp(s)
  <2>1. PICK ended \in BOOLEAN :
          /\ acting' = Learned(s, ended).acting
          /\ Become(s, [Conclude(me, "limited") EXCEPT !.owed = Learned(s, ended).owed])
    BY <1>8 DEF GiveUp, me
  <2>2. /\ Learned(s, ended).owed \in Seq(NewObligation)
        /\ Learned(s, ended).acting \subseteq acting
    <3>1. Append(me.owed, mine) \in Seq(NewObligation)
      BY <1>2, <1>3, AppendProperties
    <3> QED
      BY <1>2, <3>1 DEF Learned, me
  <2>3. Conclude(me, "limited") \in SessionState
    BY <1>2, ConcludeTyped DEF Outcome
  <2>4. [Conclude(me, "limited") EXCEPT !.owed = Learned(s, ended).owed] \in SessionState
    BY <2>2, <2>3 DEF SessionState
  <2> QED
    BY <1>4, <2>1, <2>2, <2>4
<1>9. CASE Release(s)
  <2> DEFINE next == IF me.pc = "park" THEN "parking" ELSE "finishing"
             owed == Append(me.owed, [fence |-> me.token, attempt |-> 0])
  <2>1. owed \in Seq(NewObligation)
    BY <1>2, <1>3, AppendProperties
  <2>2. next \in Active
    BY DEF Active
  <2> HIDE DEF next, owed
  <2>3. /\ [me EXCEPT !.pc = next] \in SessionState
        /\ [me EXCEPT !.pc = next, !.owed = owed] \in SessionState
    BY <1>2, <2>1, <2>2 DEF SessionState
  <2>4. \/ Become(s, [me EXCEPT !.pc = next])
        \/ Become(s, [me EXCEPT !.pc = next, !.owed = owed])
    BY <1>9 DEF Release, Move, me, next, owed
  <2>5. acting' \subseteq acting
    BY <1>9 DEF Release
  <2> QED
    BY <1>4, <2>3, <2>4, <2>5
<1> QED
  BY <1>5, <1>6, <1>7, <1>8, <1>9

(* A write past the bounds: the row stays, the session concludes.          *)
LEMMA LimitReachedTyped ==
  ASSUME TypeInv, NEW s \in Session, LimitReached(s), now' = now
  PROVE  TypeInv'
PROOF
<1>1. Conclude(ses[s], "limited") \in SessionState
  BY SessionTyped, ConcludeTyped DEF Outcome
<1>2. acting' \subseteq NewObligation
  BY DEF LimitReached, TypeInv
<1> QED
  BY <1>1, <1>2, OwnStepTyped DEF LimitReached

(* Dispatch keeps the types (session.rs dispatch). *)
LEMMA DispatchTyped ==
  ASSUME TypeInv, NEW s \in Session, Dispatch(s)
  PROVE  TypeInv'
PROOF
<1> DEFINE me == ses[s]
           own == Append(me.buffer, Dispatched(FenceOf(me.token), me.kind))
           a == Len(events) + Len(own)
           mine == [fence |-> FenceOf(me.token), attempt |-> a]
<1>1. /\ me \in SessionState /\ me.token \in Nat /\ me.kind \in StepKind
      /\ me.buffer \in Seq(Event) /\ me.owed \in Seq(NewObligation)
      /\ Len(events) \in Nat
  BY SessionTyped
<1>2. FenceOf(me.token) \in Nat
  BY FenceTyped DEF TypeInv
<1>3. own \in Seq(Event) /\ Len(own) \in Nat /\ Len(me.buffer) \in Nat
  BY <1>1, <1>2, EventTyped, AppendProperties, LenProperties
<1>4. acting \subseteq NewObligation /\ RowOK
  BY DEF TypeInv
<1> HIDE DEF me, own
<1>5. CASE WriteStopped(s)
  BY <1>5, WriteStoppedTyped
<1>6. CASE DispatchAllowed(s) /\ now' = now
  <2>1. CASE LimitReached(s)
    BY <1>6, <2>1, LimitReachedTyped
  <2>2. CASE /\ WriteHold(s, me.token, own, me.proven, me.owed)
             /\ Become(s, [Wrote(s, Len(own)) EXCEPT !.pc = "attempt",
                             !.attempt = a, !.proven = {}])
             /\ acting' = IF me.kind = "model" THEN acting ELSE acting \cup {mine}
    <3>1. RowOK'
      BY <1>1, <1>3, <1>4, <1>6, <2>2, HoldTyped
    <3>2. a \in Nat
      BY <1>1, <1>3
    <3>3. acting' \subseteq NewObligation
      BY <1>2, <1>4, <2>2, <3>2 DEF NewObligation
    <3> HIDE DEF a
    <3>4. Wrote(s, Len(own)) \in SessionState
      BY <1>3, WroteTyped
    <3>5. [Wrote(s, Len(own)) EXCEPT !.pc = "attempt", !.attempt = a,
                                     !.proven = {}] \in SessionState
      BY <3>2, <3>4 DEF SessionState, Active
    <3> QED
      BY <2>2, <3>1, <3>3, <3>5, WriteStepTyped
  <2> QED
    BY <1>6, <2>1, <2>2 DEF DispatchAllowed, me, own
<1>7. CASE DispatchHeld(s) /\ now' = now
  <2>1. CASE LimitReached(s)
    BY <1>7, <2>1, LimitReachedTyped
  <2> DEFINE wrote == Wrote(s, Len(me.buffer))
  <2>2. CASE /\ WriteHold(s, me.token, me.buffer, me.proven, me.owed)
             /\ Become(s, IF cancel THEN Conclude(wrote, "cancelled")
                          ELSE [wrote EXCEPT !.pc = "proving", !.proven = {},
                                  !.left = Owing(me.token, me.proven)])
             /\ UNCHANGED acting
    <3>1. RowOK'
      BY <1>1, <1>4, <1>7, <2>2, HoldTyped
    <3>2. wrote \in SessionState
      BY <1>3, WroteTyped
    <3>3. Owing(me.token, me.proven) \subseteq Obligation
      BY <1>1, <1>4, OwingTyped
    <3> HIDE DEF wrote
    <3>4. Conclude(wrote, "cancelled") \in SessionState
      BY <3>2, ConcludeTyped DEF Outcome
    <3>5. [wrote EXCEPT !.pc = "proving", !.proven = {},
             !.left = Owing(me.token, me.proven)] \in SessionState
      BY <3>2, <3>3 DEF SessionState, Active
    <3>6. acting' \subseteq NewObligation
      BY <1>4, <2>2
    <3> QED
      BY <2>2, <3>1, <3>4, <3>5, <3>6, WriteStepTyped
  <2> QED
    BY <1>7, <2>1, <2>2 DEF DispatchHeld, me
<1> QED
  BY <1>5, <1>6, <1>7 DEF Dispatch

(* Keeping what was proven keeps the types (session.rs dispatch). *)
LEMMA HoldUnprovenTyped ==
  ASSUME TypeInv, NEW s \in Session, HoldUnproven(s)
  PROVE  TypeInv'
PROOF
<1> DEFINE me == ses[s]
           wrote == Wrote(s, Len(me.buffer))
<1>1. /\ me.token \in Nat /\ now \in Nat
      /\ me.buffer \in Seq(Event) /\ me.owed \in Seq(NewObligation)
  BY SessionTyped
<1>2. wrote \in SessionState
  BY <1>1, LenProperties, WroteTyped
<1>3. acting \subseteq NewObligation /\ RowOK
  BY DEF TypeInv
<1>4. now + ProofRetryMs \in Nat
  BY <1>1, DriveAssumption
<1> HIDE DEF me, wrote
<1>5. Waiting(wrote, now + ProofRetryMs) \in SessionState
  BY <1>2, <1>4, WaitingTyped
<1>6. CASE WriteStopped(s)
  BY <1>6, WriteStoppedTyped
<1>7. CASE LimitReached(s) /\ now' = now
  BY <1>7, LimitReachedTyped
<1>8. CASE /\ WriteHold(s, me.token, me.buffer, me.proven, me.owed)
           /\ Become(s, Waiting(wrote, now + ProofRetryMs))
           /\ UNCHANGED acting
           /\ now' = now
  <2>1. RowOK'
    BY <1>1, <1>3, <1>8, HoldTyped
  <2>2. acting' \subseteq NewObligation
    BY <1>3, <1>8
  <2> QED
    BY <1>5, <1>8, <2>1, <2>2, WriteStepTyped
<1> QED
  BY <1>6, <1>7, <1>8 DEF HoldUnproven, me, wrote

(* A renewal keeps the types (session.rs renew_if_due). *)
LEMMA RenewTyped ==
  ASSUME TypeInv, NEW s \in Session, Renew(s)
  PROVE  TypeInv'
PROOF
<1> DEFINE me == ses[s]
           kept == IF Fits(Len(me.buffer), 0) THEN me.buffer
                   ELSE WithoutBeats(me.buffer)
           rest == [me EXCEPT !.buffer = kept]
           left == IF me.pc = "run" THEN Conclude(rest, "limited")
                   ELSE [rest EXCEPT !.pc = "lost"]
<1>1. /\ me \in SessionState /\ me.token \in Nat
      /\ me.buffer \in Seq(Event) /\ me.owed \in Seq(NewObligation)
  BY SessionTyped
<1>2. kept \in Seq(Event) /\ Len(kept) \in Nat
  BY <1>1, WithoutBeatsTyped, LenProperties
<1>3. acting \subseteq NewObligation /\ RowOK
  BY DEF TypeInv
<1> HIDE DEF me, kept
<1>4. rest \in SessionState
  BY <1>1, <1>2 DEF SessionState
<1> HIDE DEF rest
<1>5. left \in SessionState
  <2>1. Conclude(rest, "limited") \in SessionState
    BY <1>4, ConcludeTyped DEF Outcome
  <2>2. [rest EXCEPT !.pc = "lost"] \in SessionState
    BY <1>4 DEF SessionState, Active
  <2> QED
    BY <2>1, <2>2
<1> HIDE DEF left
<1>6. CASE WriteStopped(s)
  BY <1>6, WriteStoppedTyped
<1>7. CASE /\ WriteHold(s, me.token, kept, {}, me.owed)
           /\ Become(s, Wrote(s, Len(kept)))
           /\ UNCHANGED <<now, acting>>
  <2>1. RowOK'
    BY <1>1, <1>2, <1>3, <1>7, HoldTyped
  <2>2. Wrote(s, Len(kept)) \in SessionState
    BY <1>2, WroteTyped
  <2>3. acting' \subseteq NewObligation
    BY <1>3, <1>7
  <2> QED
    BY <1>7, <2>1, <2>2, <2>3, WriteStepTyped
<1>8. CASE /\ Become(s, left)
           /\ UNCHANGED ledgerVars
           /\ UNCHANGED <<now, acting>>
  <2>1. acting' \subseteq NewObligation
    BY <1>3, <1>8
  <2> QED
    BY <1>5, <1>8, <2>1, OwnStepTyped
<1> QED
  BY <1>6, <1>7, <1>8 DEF Renew, me, kept, rest, left

(* An activity's settlement keeps the types (ctx.rs settle_activity). *)
LEMMA SettleActivityTyped ==
  ASSUME TypeInv, NEW s \in Session, SettleActivity(s)
  PROVE  TypeInv'
PROOF
<1> DEFINE me == ses[s]
           own == Append(me.buffer, Settled(me.attempt))
           mine == [fence |-> me.token, attempt |-> me.attempt]
<1>1. /\ me \in SessionState /\ me.token \in Nat /\ me.attempt \in Nat
      /\ me.buffer \in Seq(Event) /\ me.owed \in Seq(NewObligation)
  BY SessionTyped
<1>2. own \in Seq(Event) /\ Len(own) \in Nat
  BY <1>1, EventTyped, AppendProperties, LenProperties
<1>3. acting \subseteq NewObligation /\ RowOK
  BY DEF TypeInv
<1>4. Append(me.owed, mine) \in Seq(NewObligation)
  BY <1>1, AppendProperties DEF NewObligation
<1>5. \A ended \in BOOLEAN :
        /\ Learned(s, ended).owed \in Seq(NewObligation)
        /\ Learned(s, ended).acting \subseteq acting
  BY <1>1, <1>4 DEF Learned
<1>6. Wrote(s, Len(own)) \in SessionState
  BY <1>2, WroteTyped
<1>7. [Unwound(Wrote(s, Len(own))) EXCEPT !.pc = "run"] \in SessionState
  <2>1. Unwound(Wrote(s, Len(own))) \in SessionState
    BY <1>6, UnwoundTyped
  <2> QED
    BY <2>1 DEF SessionState, Active
<1> HIDE DEF me, own
<1>8. PICK ended \in BOOLEAN :
        /\ acting' = Learned(s, ended).acting
        /\ UNCHANGED now
        /\ \/ /\ Leave(s, "refused")
              /\ UNCHANGED ledgerVars
           \/ /\ WriteHold(s, me.token, own, {}, Learned(s, ended).owed)
              /\ Become(s, [Unwound(Wrote(s, Len(own))) EXCEPT !.pc = "run"])
           \/ /\ Become(s, [Conclude(me, "limited") EXCEPT !.buffer = own,
                              !.owed = Learned(s, ended).owed])
              /\ UNCHANGED ledgerVars
  BY DEF SettleActivity, me, own
<1>9. acting' \subseteq NewObligation
  BY <1>3, <1>5, <1>8
<1>10. CASE Leave(s, "refused") /\ UNCHANGED ledgerVars
  <2>1. [Fresh EXCEPT !.pc = "refused"] \in SessionState
    BY FreshTyped DEF Over
  <2> QED
    BY <1>8, <1>9, <1>10, <2>1, OwnStepTyped DEF Leave
<1>11. CASE /\ WriteHold(s, me.token, own, {}, Learned(s, ended).owed)
            /\ Become(s, [Unwound(Wrote(s, Len(own))) EXCEPT !.pc = "run"])
  <2>1. RowOK'
    BY <1>1, <1>2, <1>3, <1>5, <1>8, <1>11, HoldTyped
  <2> QED
    BY <1>7, <1>9, <1>11, <2>1, WriteStepTyped
<1>12. CASE /\ Become(s, [Conclude(me, "limited") EXCEPT !.buffer = own,
                           !.owed = Learned(s, ended).owed])
            /\ UNCHANGED ledgerVars
  <2>1. Conclude(me, "limited") \in SessionState
    BY <1>1, ConcludeTyped DEF Outcome
  <2>2. [Conclude(me, "limited") EXCEPT !.buffer = own,
           !.owed = Learned(s, ended).owed] \in SessionState
    BY <1>2, <1>5, <2>1 DEF SessionState
  <2> QED
    BY <1>8, <1>9, <1>12, <2>2, OwnStepTyped
<1> QED
  BY <1>8, <1>10, <1>11, <1>12

(* Parking keeps the types (session.rs park). *)
LEMMA ParkStepTyped ==
  ASSUME TypeInv, NEW s \in Session, Park(s)
  PROVE  TypeInv'
PROOF
<1> DEFINE me == ses[s]
           parked == [Fresh EXCEPT !.pc = "suspended", !.token = FenceOf(me.token),
                                   !.seen = me.seen + Len(me.buffer)]
           again == [me EXCEPT !.pc = "run", !.seen = Len(events), !.until = None]
<1>1. /\ me \in SessionState /\ me.token \in Nat
      /\ me.buffer \in Seq(Event) /\ me.owed \in Seq(NewObligation)
      /\ me.until \in Nat \cup {None} /\ Len(events) \in Nat
      /\ Len(me.buffer) \in Nat /\ me.seen \in Nat
  BY SessionTyped, LenProperties
<1>2. acting \subseteq NewObligation /\ RowOK
  BY DEF TypeInv
<1>3. FenceOf(me.token) \in Nat /\ me.seen + Len(me.buffer) \in Nat
  BY <1>1, <1>2, FenceTyped
<1> HIDE DEF me
<1>4. again \in SessionState
  BY <1>1 DEF SessionState, Active
<1>5. parked \in SessionState
  BY <1>3, FreshTyped DEF SessionState, Over
<1> HIDE DEF again, parked
<1>6. CASE WriteStopped(s)
  BY <1>6, WriteStoppedTyped
<1>7. CASE UNCHANGED <<now, acting>> /\ ~WriteStopped(s)
  <2>1. acting' \subseteq NewObligation
    BY <1>2, <1>7
  <2>2. CASE WriteRefusedPark(s, me.token) /\ Become(s, again)
    <3>1. RowOK'
      BY <1>1, <1>2, <1>7, <2>2, RefusedParkTyped
    <3> QED
      BY <1>4, <2>1, <2>2, <3>1, WriteStepTyped
  <2>3. CASE /\ WritePark(me.token, me.buffer, me.owed, me.until)
             /\ Become(s, parked)
    <3>1. RowOK'
      BY <1>1, <1>2, <1>7, <2>3, ParkTyped
    <3> QED
      BY <1>5, <2>1, <2>3, <3>1, WriteStepTyped
  <2>4. CASE Leave(s, "limit") /\ UNCHANGED ledgerVars
    <3>1. [Fresh EXCEPT !.pc = "limit"] \in SessionState
      BY FreshTyped DEF Over
    <3> QED
      BY <1>7, <2>1, <2>4, <3>1, OwnStepTyped DEF Leave
  <2> QED
    BY <1>7, <2>2, <2>3, <2>4 DEF Park, me, again, parked
<1> QED
  BY <1>6, <1>7 DEF Park

(* Ending the run keeps the types (session.rs finish). *)
LEMMA FinishStepTyped ==
  ASSUME TypeInv, NEW s \in Session, Finish(s)
  PROVE  TypeInv'
PROOF
<1> DEFINE me == ses[s]
           whole == Fits(Len(me.buffer) + 1, TerminalHeadroom)
           own == IF whole THEN me.buffer ELSE <<>>
           out == IF whole THEN me.target ELSE "limited"
<1>1. /\ me.token \in Nat /\ me.target \in Outcome
      /\ me.buffer \in Seq(Event) /\ me.owed \in Seq(NewObligation)
  BY SessionTyped
<1>2. acting \subseteq NewObligation /\ RowOK
  BY DEF TypeInv
<1> HIDE DEF me, whole
<1>3. own \in Seq(Event) /\ out \in Outcome
  <2>1. <<>> \in Seq(Event) /\ "limited" \in Outcome
    BY DEF Outcome
  <2> QED
    BY <1>1, <2>1
<1> HIDE DEF own, out
<1>4. \A how \in Over : [Fresh EXCEPT !.pc = how] \in SessionState
  BY FreshTyped
<1>5. CASE WriteStopped(s)
  BY <1>5, WriteStoppedTyped
<1>6. CASE /\ WriteFinish(me.token, own, me.owed, out)
           /\ Leave(s, "ended")
           /\ UNCHANGED <<now, acting>>
  <2>1. RowOK'
    BY <1>1, <1>2, <1>3, <1>6, FinishTyped
  <2> QED
    BY <1>2, <1>4, <1>6, <2>1, WriteStepTyped DEF Leave, Over
<1>7. CASE Leave(s, "limit") /\ UNCHANGED ledgerVars /\ UNCHANGED <<now, acting>>
  BY <1>2, <1>4, <1>7, OwnStepTyped DEF Leave, Over
<1> QED
  BY <1>5, <1>6, <1>7 DEF Finish, me, own, out, whole

(* Every step keeps the types. *)
LEMMA TypeStep ==
  ASSUME TypeInv, [Next]_vars
  PROVE  TypeInv'
PROOF
<1>1. ASSUME NEW s \in Session, SessionStep(s)
      PROVE  TypeInv'
  BY <1>1, DefinitionTyped, WaitingStepTyped, DispatchTyped, HoldUnprovenTyped,
     RenewTyped, SettleActivityTyped, ParkStepTyped, FinishStepTyped
     DEF SessionStep
<1>2. CASE Host
  <2>1. RowOK'
    BY <1>2, HostTyped DEF Host, TypeInv
  <2> QED
    BY <1>2, <2>1 DEF Host, TypeInv
<1>3. CASE ExecutorEnds
  BY <1>3 DEF ExecutorEnds, TypeInv, RowOK, LedgerTypeOK, Bounded, ledgerVars
<1>4. CASE Clock
  <2>1. RowOK'
    BY <1>4, TickTyped DEF Clock, TypeInv
  <2> QED
    BY <1>4, <2>1 DEF Clock, TypeInv
<1>5. CASE UNCHANGED vars
  BY <1>5 DEF vars, TypeInv, RowOK, LedgerTypeOK, Bounded, ledgerVars
<1> QED
  BY <1>1, <1>2, <1>3, <1>4, <1>5 DEF Next

(* Nothing is held, owed or running before the run is submitted. *)
LEMMA InitInv ==
  ASSUME Init
  PROVE  TypeInv
PROOF
<1>1. ses \in [Session -> SessionState]
  BY FreshTyped DEF Init
<1> QED
  BY <1>1, InitTyped DEF Init, TypeInv

(* Every reachable state is well typed: the row, what the sessions hold    *)
(* and the executors (session.rs, store/write.rs, store/host.rs).          *)
THEOREM TypeCorrect == Spec => []TypeOK
PROOF
<1>1. Init => TypeInv
  BY InitInv
<1>2. TypeInv /\ [Next]_vars => TypeInv'
  BY TypeStep
<1>3. TypeInv => TypeOK
  BY DEF TypeInv, TypeOK, RowOK
<1> QED
  BY <1>1, <1>2, <1>3, PTL DEF Spec

-----------------------------------------------------------------------------
(* How the row moves: the transactions behind every step *)

(* A session keeps an open run, and adds own within the bound plus extra.  *)
HoldStep(s, own, extra) ==
  /\ state = "open"
  /\ own \in Seq(Event)
  /\ Fits(Len(own), extra)
  /\ \E token \in Nat, proven \in SUBSET Nat, new \in Seq(NewObligation) :
       WriteHold(s, token, own, proven, new)

(* A session lets an open run go, or ends it.                              *)
LeaveStep ==
  /\ state = "open"
  /\ \/ \E s \in Session, token \in Nat : WriteRefusedPark(s, token)
     \/ \E token \in Nat, own \in Seq(Event), new \in Seq(NewObligation),
           at \in Nat \cup {None} :
          Fits(Len(own), 0) /\ WritePark(token, own, new, at)
     \/ \E token \in Nat, own \in Seq(Event), new \in Seq(NewObligation),
           out \in Outcome : WriteFinish(token, own, new, out)

HostStep ==
  \/ Create
  \/ \E d \in Deferred, r \in Result : Resolve(d, r)
  \/ Cancel
  \/ Acknowledge
  \/ Wake

RowStep ==
  \/ UNCHANGED ledgerVars
  \/ HostStep
  \/ \E s \in Session, own \in Seq(Event), extra \in {0, ReceiptHeadroom} :
       HoldStep(s, own, extra)
  \/ LeaveStep

(* Dispatch leaves the row alone or is one holder's write. *)
LEMMA DispatchRow ==
  ASSUME TypeInv, NEW s \in Session, Dispatch(s)
  PROVE  RowStep
PROOF
<1> DEFINE me == ses[s]
           own == Append(me.buffer, Dispatched(FenceOf(me.token), me.kind))
<1>1. /\ me.token \in Nat /\ me.kind \in StepKind /\ me.proven \subseteq Nat
      /\ me.buffer \in Seq(Event) /\ me.owed \in Seq(NewObligation)
  BY SessionTyped
<1>2. FenceOf(me.token) \in Nat
  BY FenceTyped DEF TypeInv
<1>3. own \in Seq(Event)
  BY <1>1, <1>2, EventTyped, AppendProperties
<1> HIDE DEF me, own
<1>4. CASE WriteStopped(s)
  BY <1>4 DEF WriteStopped, RowStep
<1>5. CASE LimitReached(s)
  BY <1>5 DEF LimitReached, RowStep
<1>6. CASE /\ Writable(s) /\ Fits(Len(own), 0)
           /\ WriteHold(s, me.token, own, me.proven, me.owed)
  <2>1. HoldStep(s, own, 0)
    BY <1>1, <1>3, <1>6 DEF HoldStep, Writable, MayWrite
  <2> QED
    BY <1>3, <2>1 DEF RowStep
<1>7. CASE /\ Writable(s) /\ Fits(Len(me.buffer), 0)
           /\ WriteHold(s, me.token, me.buffer, me.proven, me.owed)
  <2>1. HoldStep(s, me.buffer, 0)
    BY <1>1, <1>7 DEF HoldStep, Writable, MayWrite
  <2> QED
    BY <1>1, <2>1 DEF RowStep
<1> QED
  BY <1>4, <1>5, <1>6, <1>7 DEF Dispatch, DispatchAllowed, DispatchHeld, me, own

(* Keeping what was proven leaves the row alone or is one hold. *)
LEMMA HoldUnprovenRow ==
  ASSUME TypeInv, NEW s \in Session, HoldUnproven(s)
  PROVE  RowStep
PROOF
<1> DEFINE me == ses[s]
<1>1. /\ me.token \in Nat /\ me.proven \subseteq Nat
      /\ me.buffer \in Seq(Event) /\ me.owed \in Seq(NewObligation)
  BY SessionTyped
<1> HIDE DEF me
<1>2. CASE WriteStopped(s) \/ LimitReached(s)
  BY <1>2 DEF WriteStopped, LimitReached, RowStep
<1>3. CASE /\ Writable(s) /\ Fits(Len(me.buffer), 0)
           /\ WriteHold(s, me.token, me.buffer, me.proven, me.owed)
  <2>1. HoldStep(s, me.buffer, 0)
    BY <1>1, <1>3 DEF HoldStep, Writable, MayWrite
  <2> QED
    BY <1>1, <2>1 DEF RowStep
<1> QED
  BY <1>2, <1>3 DEF HoldUnproven, me

(* A renewal leaves the row alone or is one hold within the bounds. *)
LEMMA RenewRow ==
  ASSUME TypeInv, NEW s \in Session, Renew(s)
  PROVE  RowStep
PROOF
<1> DEFINE me == ses[s]
           kept == IF Fits(Len(me.buffer), 0) THEN me.buffer
                   ELSE WithoutBeats(me.buffer)
<1>1. /\ me.token \in Nat /\ me.buffer \in Seq(Event)
      /\ me.owed \in Seq(NewObligation)
  BY SessionTyped
<1>2. kept \in Seq(Event)
  BY <1>1, WithoutBeatsTyped
<1> HIDE DEF me, kept
<1>3. CASE UNCHANGED ledgerVars
  BY <1>3 DEF RowStep
<1>4. CASE /\ Writable(s) /\ Fits(Len(kept), 0)
           /\ WriteHold(s, me.token, kept, {}, me.owed)
  <2>1. HoldStep(s, kept, 0)
    BY <1>1, <1>2, <1>4 DEF HoldStep, Writable, MayWrite
  <2> QED
    BY <1>2, <2>1 DEF RowStep
<1> QED
  BY <1>3, <1>4 DEF Renew, WriteStopped, me, kept

(* A settlement leaves the row alone or is one receipt's write. *)
LEMMA SettleActivityRow ==
  ASSUME TypeInv, NEW s \in Session, SettleActivity(s)
  PROVE  RowStep
PROOF
<1> DEFINE me == ses[s]
           own == Append(me.buffer, Settled(me.attempt))
           mine == [fence |-> me.token, attempt |-> me.attempt]
<1>1. /\ me.token \in Nat /\ me.attempt \in Nat
      /\ me.buffer \in Seq(Event) /\ me.owed \in Seq(NewObligation)
  BY SessionTyped
<1>2. own \in Seq(Event)
  BY <1>1, EventTyped, AppendProperties
<1>3. Append(me.owed, mine) \in Seq(NewObligation)
  BY <1>1, AppendProperties DEF NewObligation
<1>4. \A ended \in BOOLEAN : Learned(s, ended).owed \in Seq(NewObligation)
  BY <1>1, <1>3 DEF Learned
<1> HIDE DEF me, own
<1>5. CASE UNCHANGED ledgerVars
  BY <1>5 DEF RowStep
<1>6. ASSUME NEW ended \in BOOLEAN, Writable(s), Fits(Len(own), ReceiptHeadroom),
             WriteHold(s, me.token, own, {}, Learned(s, ended).owed)
      PROVE  RowStep
  <2>1. HoldStep(s, own, ReceiptHeadroom)
    BY <1>1, <1>2, <1>4, <1>6 DEF HoldStep, Writable, MayWrite
  <2> QED
    BY <1>2, <2>1 DEF RowStep
<1> QED
  BY <1>5, <1>6 DEF SettleActivity, me, own

(* Parking and ending leave the row alone or are one write each. *)
LEMMA LeaveRow ==
  ASSUME TypeInv, NEW s \in Session, Park(s) \/ Finish(s)
  PROVE  RowStep
PROOF
<1> DEFINE me == ses[s]
           whole == Fits(Len(me.buffer) + 1, TerminalHeadroom)
           own == IF whole THEN me.buffer ELSE <<>>
           out == IF whole THEN me.target ELSE "limited"
<1>1. /\ me.token \in Nat /\ me.target \in Outcome /\ me.until \in Nat \cup {None}
      /\ me.buffer \in Seq(Event) /\ me.owed \in Seq(NewObligation)
  BY SessionTyped
<1>2. own \in Seq(Event) /\ out \in Outcome
  <2>1. <<>> \in Seq(Event) /\ "limited" \in Outcome
    BY DEF Outcome
  <2> QED
    BY <1>1, <2>1
<1> HIDE DEF me, whole, own, out
<1>3. CASE UNCHANGED ledgerVars
  BY <1>3 DEF RowStep
<1>4. CASE Writable(s) /\ WriteRefusedPark(s, me.token)
  BY <1>1, <1>4 DEF RowStep, LeaveStep, Writable, MayWrite
<1>5. CASE /\ Writable(s) /\ Fits(Len(me.buffer), 0)
           /\ WritePark(me.token, me.buffer, me.owed, me.until)
  BY <1>1, <1>5 DEF RowStep, LeaveStep, Writable, MayWrite
<1>6. CASE Writable(s) /\ WriteFinish(me.token, own, me.owed, out)
  BY <1>1, <1>2, <1>6 DEF RowStep, LeaveStep, Writable, MayWrite
<1> QED
  BY <1>3, <1>4, <1>5, <1>6 DEF Park, Finish, WriteStopped, me, whole, own, out

(* Every step leaves the row alone or is one of the ledger's transactions. *)
LEMMA RowMoves ==
  ASSUME TypeInv, [Next]_vars
  PROVE  RowStep
PROOF
<1>1. CASE UNCHANGED ledgerVars
  BY <1>1 DEF RowStep
<1>2. ASSUME NEW s \in Session, SessionStep(s)
      PROVE  RowStep
  <2>1. CASE \/ Load(s) \/ Observe(s) \/ Interrupted(s) \/ Record(s) \/ Refuse(s)
             \/ Attempt(s) \/ Suspend(s) \/ Return(s) \/ Prove(s) \/ Beat(s)
             \/ SettleModel(s) \/ GiveUp(s) \/ Release(s) \/ Crash(s)
    BY <1>1, <2>1 DEF Load, Observe, Interrupted, Record, Refuse, Attempt, Suspend,
                      Return, Prove, Beat, SettleModel, GiveUp, Release, Crash
  <2> QED
    BY <1>2, <2>1, DispatchRow, HoldUnprovenRow, RenewRow, SettleActivityRow,
       LeaveRow DEF SessionStep
<1>3. CASE Host
  BY <1>3 DEF Host, RowStep, HostStep
<1> QED
  BY <1>1, <1>2, <1>3 DEF Next, vars, ExecutorEnds, Clock, Tick

-----------------------------------------------------------------------------
(* A cancellation decides how the run ends *)

(* CancelWins is not inductive: an acknowledged run, which can no longer   *)
(* be cancelled, and an open one, which can, must have no outcome at all.  *)
CancelInv ==
  /\ state # "closed" => outcome = None
  /\ CancelWins

(* Every step keeps that a cancelled run has no other outcome. *)
LEMMA CancelStep ==
  ASSUME CancelInv, RowStep
  PROVE  CancelInv'
PROOF
<1>1. CASE UNCHANGED ledgerVars
  BY <1>1 DEF CancelInv, CancelWins, ledgerVars
<1>2. CASE HostStep
  BY <1>2 DEF HostStep, Create, Resolve, Cancel, Acknowledge, Wake, CancelInv,
              CancelWins
<1>3. ASSUME NEW s \in Session, NEW own, NEW extra, HoldStep(s, own, extra)
      PROVE  CancelInv'
  BY <1>3 DEF HoldStep, WriteHold, CancelInv, CancelWins
<1>4. CASE LeaveStep
  <2>1. ASSUME NEW s, NEW token, WriteRefusedPark(s, token)
        PROVE  CancelInv'
    BY <2>1 DEF WriteRefusedPark, CancelInv, CancelWins
  <2>2. ASSUME NEW token, NEW own, NEW new, NEW at, WritePark(token, own, new, at)
        PROVE  CancelInv'
    BY <2>2 DEF WritePark, CancelInv, CancelWins
  <2>3. ASSUME NEW token, NEW own, NEW new, NEW out, WriteFinish(token, own, new, out)
        PROVE  CancelInv'
    BY <2>3 DEF WriteFinish, Ending, CancelInv, CancelWins
  <2> QED
    BY <1>4, <2>1, <2>2, <2>3 DEF LeaveStep
<1> QED
  BY <1>1, <1>2, <1>3, <1>4 DEF RowStep

(* However many sessions fight over the run and whatever the one that ends *)
(* it decided, a run cancelled while open ends cancelled (write.rs apply). *)
THEOREM CancellationWins == Spec => []CancelWins
PROOF
<1>1. Init => TypeInv /\ CancelInv
  <2> SUFFICES ASSUME Init PROVE TypeInv /\ CancelInv
    OBVIOUS
  <2>1. TypeInv
    BY InitInv
  <2> QED
    BY <2>1 DEF Init, LedgerInit, CancelInv, CancelWins
<1>2. TypeInv /\ CancelInv /\ [Next]_vars => (TypeInv /\ CancelInv)'
  BY TypeStep, RowMoves, CancelStep
<1>3. CancelInv => CancelWins
  BY DEF CancelInv
<1> QED
  BY <1>1, <1>2, <1>3, PTL DEF Spec

-----------------------------------------------------------------------------
(* There is always room for the end *)

(* RoomToEnd with the room it needs: a receipt may use the headroom of     *)
(* receipts, and the one cancellation of the run one event more.           *)
RoomInv ==
  state = "open" =>
    Len(events) <= MaxEvents + ReceiptHeadroom + (IF cancel THEN 1 ELSE 0)

(* Every step keeps the history below its bound, the receipt's headroom and one cancellation. *)
LEMMA RoomStep ==
  ASSUME TypeInv, RoomInv, RowStep
  PROVE  RoomInv'
PROOF
<1>1. events \in Seq(Event) /\ Len(events) \in Nat
  BY LenProperties DEF TypeInv, RowOK, LedgerTypeOK
<1>2. CASE UNCHANGED ledgerVars
  BY <1>2 DEF RoomInv, ledgerVars
<1>3. CASE HostStep
  <2>1. CASE Create
    BY <2>1, HeadroomAssumption DEF Create, RoomInv
  <2>2. ASSUME NEW d \in Deferred, NEW r \in Result, Resolve(d, r)
        PROVE  RoomInv'
    <3>1. Len(events') = Len(events) + 1
      BY <1>1, <2>2 DEF Resolve
    <3> QED
      BY <1>1, <2>2, <3>1, HeadroomAssumption DEF Resolve, Fits, RoomInv
  <2>3. CASE Cancel
    <3>1. Len(events') = Len(events) + 1
      BY <1>1, <2>3 DEF Cancel
    <3> QED
      BY <1>1, <2>3, <3>1, HeadroomAssumption DEF Cancel, RoomInv
  <2>4. CASE Acknowledge \/ Wake
    BY <2>4 DEF Acknowledge, Wake, RoomInv
  <2> QED
    BY <1>3, <2>1, <2>2, <2>3, <2>4 DEF HostStep
<1>4. ASSUME NEW s \in Session, NEW own \in Seq(Event),
             NEW extra \in {0, ReceiptHeadroom}, HoldStep(s, own, extra)
      PROVE  RoomInv'
  <2>1. events' = events \o own
    BY <1>4 DEF HoldStep, WriteHold
  <2>2. Len(events') = Len(events) + Len(own) /\ Len(own) \in Nat
    BY <1>1, <1>4, <2>1, ConcatProperties, LenProperties
  <2> QED
    BY <1>1, <1>4, <2>2, HeadroomAssumption DEF HoldStep, Fits, RoomInv
<1>5. CASE LeaveStep
  <2>1. ASSUME NEW s, NEW token, WriteRefusedPark(s, token)
        PROVE  RoomInv'
    BY <2>1 DEF WriteRefusedPark, RoomInv
  <2>2. ASSUME NEW token, NEW own \in Seq(Event), NEW new, NEW at,
               Fits(Len(own), 0), WritePark(token, own, new, at)
        PROVE  RoomInv'
    <3>1. Len(events') = Len(events) + Len(own) /\ Len(own) \in Nat
      BY <1>1, <2>2, ConcatProperties, LenProperties DEF WritePark
    <3> QED
      BY <1>1, <2>2, <3>1, HeadroomAssumption DEF Fits, RoomInv
  <2>3. ASSUME NEW token, NEW own, NEW new, NEW out, WriteFinish(token, own, new, out)
        PROVE  RoomInv'
    BY <2>3 DEF WriteFinish, RoomInv
  <2> QED
    BY <1>5, <2>1, <2>2, <2>3 DEF LeaveStep
<1> QED
  BY <1>2, <1>3, <1>4, <1>5 DEF RowStep

(* Whatever receipts and whatever cancellation land past the bounds of the *)
(* history, the end of an open run still fits (write.rs check_size and its *)
(* headrooms).                                                             *)
THEOREM AlwaysRoomToEnd == Spec => []RoomToEnd
PROOF
<1>1. Init => TypeInv /\ RoomInv
  <2> SUFFICES ASSUME Init PROVE TypeInv /\ RoomInv
    OBVIOUS
  <2>1. TypeInv
    BY InitInv
  <2> QED
    BY <2>1 DEF Init, LedgerInit, RoomInv
<1>2. TypeInv /\ RoomInv /\ [Next]_vars => (TypeInv /\ RoomInv)'
  BY TypeStep, RowMoves, RoomStep
<1>3. TypeInv /\ RoomInv => RoomToEnd
  <2> SUFFICES ASSUME TypeInv, RoomInv PROVE RoomToEnd
    OBVIOUS
  <2>1. Len(events) \in Nat
    BY LenProperties DEF TypeInv, RowOK, LedgerTypeOK
  <2> QED
    BY <2>1, HeadroomAssumption DEF RoomInv, RoomToEnd
<1> QED
  BY <1>1, <1>2, <1>3, PTL DEF Spec

-----------------------------------------------------------------------------
(* One executor at a time *)

(* The session whose writes the ledger accepts.                            *)
Holds(s) ==
  state = "open" /\ ses[s].pc \in Active /\ ses[s].token # 0 /\ ses[s].token = fence

Covered(a) == \E o \in obligations : Covers(o, a)

(* An executor the session still answers for in memory: that of its        *)
(* attempt, or one it owes an obligation it has not written yet.           *)
Answers(me, a) ==
  \/ /\ me.pc \in {"attempt", "lost"}
     /\ me.kind = "activity"
     /\ a = [fence |-> me.token, attempt |-> me.attempt]
  \/ /\ me.pc \in {"finish", "finishing"}
     /\ \E i \in DOMAIN me.owed : Covers(me.owed[i], a)

(* What a session that holds the run has read of its obligations is true.  *)
Informed(me) ==
  /\ me.pc = "proving" => me.left \subseteq obligations
  /\ me.pc \in {"checked", "unproven"} =>
       \A o \in obligations, a \in acting : o.id \in me.proven => ~Covers(o, a)

(* Before its first claim a session has proven nothing and runs nothing.   *)
Unclaimed(me) ==
  me.token = 0 =>
    me.proven = {} /\ me.pc \notin {"proving", "unproven", "attempt", "lost"}

UniqueIds(S) == \A o, p \in S : o.id = p.id => o = p

(* Fences only grow, and one session holds the newest.                     *)
FenceInv ==
  /\ state = "absent" => fence = 0
  /\ \A s \in Session :
       /\ ses[s].token <= fence
       /\ Unclaimed(ses[s])
       /\ Holds(s) => holder = s

(* Every executor that may act is named by an obligation, or belongs to    *)
(* the newest fence, whose session answers for it if it still lives.       *)
ExecutorInv ==
  /\ UniqueIds(obligations)
  /\ \A a \in acting : Covered(a) \/ (holder # None /\ a.fence = fence)
  /\ \A s \in Session : Holds(s) =>
       /\ Informed(ses[s])
       /\ \A a \in acting : Covered(a) \/ Answers(ses[s], a)
  /\ OneExecutor

(* New obligations get numbers of their own (write.rs record_obligations). *)
LEMMA WithNewUnique ==
  ASSUME NEW S \in SUBSET Obligation, Bounded(S), UniqueIds(S),
         NEW new \in Seq(NewObligation)
  PROVE  /\ UniqueIds(WithNew(S, new))
         /\ S \subseteq WithNew(S, new)
         /\ \A i \in DOMAIN new : \E o \in WithNew(S, new) :
              o.fence = new[i].fence /\ o.attempt = new[i].attempt
PROOF
<1> DEFINE k == NextId(S)
           N(i) == [id |-> k + i - 1, fence |-> new[i].fence,
                    attempt |-> new[i].attempt]
<1>1. k \in Nat \ {0} /\ \A o \in S : o.id < k
  BY NextIdFresh
<1>2. DOMAIN new \subseteq Nat \ {0}
  BY LenProperties
<1>3. \A o \in S : o.id \in Nat
  BY DEF Obligation
<1>4. WithNew(S, new) = S \cup {N(i) : i \in DOMAIN new}
  BY DEF WithNew
<1> HIDE DEF k
<1>5. \A i \in DOMAIN new : N(i).id >= k /\ N(i).id \in Nat
  BY <1>1, <1>2
<1>6. \A i, j \in DOMAIN new : N(i).id = N(j).id => i = j
  BY <1>1, <1>2
<1>7. \A i \in DOMAIN new : N(i).fence = new[i].fence /\ N(i).attempt = new[i].attempt
  OBVIOUS
<1> HIDE DEF N
<1>8. UniqueIds(WithNew(S, new))
  <2> SUFFICES ASSUME NEW o \in WithNew(S, new), NEW p \in WithNew(S, new),
                      o.id = p.id
               PROVE  o = p
    BY DEF UniqueIds
  <2>1. CASE o \in S /\ p \in S
    BY <2>1 DEF UniqueIds
  <2>2. CASE o \notin S /\ p \notin S
    BY <2>2, <1>4, <1>6
  <2>3. CASE o \in S /\ p \notin S
    BY <2>3, <1>1, <1>3, <1>4, <1>5
  <2>4. CASE o \notin S /\ p \in S
    BY <2>4, <1>1, <1>3, <1>4, <1>5
  <2> QED
    BY <2>1, <2>2, <2>3, <2>4
<1> QED
  BY <1>4, <1>7, <1>8

(* A write by the session that may make it keeps every executor named that *)
(* was named, names those it owes, and those of the session it takes over. *)
LEMMA ObligationsKept ==
  ASSUME TypeInv, FenceInv, ExecutorInv, NEW s \in Session, Writable(s),
         NEW proven, NEW new \in Seq(NewObligation),
         ses[s].token = 0 => proven = {},
         \A o \in obligations, a \in acting : o.id \in proven => ~Covers(o, a),
         obligations' = WithNew(Owing(ses[s].token, proven), new)
  PROVE  /\ UniqueIds(obligations')
         /\ Owing(ses[s].token, proven) \subseteq obligations'
         /\ \A a \in acting :
              \/ Covered(a)
              \/ ses[s].token = 0
              \/ \E i \in DOMAIN new : Covers(new[i], a)
              => Covered(a)'
PROOF
<1> DEFINE token == ses[s].token
           S == Owing(token, proven)
           k == NextId(obligations)
<1>1. token \in Nat /\ RowOK /\ obligations \in SUBSET Obligation
  BY SessionTyped DEF TypeInv, RowOK, LedgerTypeOK
<1>2. S \in SUBSET Obligation /\ Bounded(S)
  BY <1>1, OwingTyped
<1>3. k \in Nat \ {0} /\ \A o \in obligations : o.id < k /\ o.id \in Nat
  BY <1>1, NextIdFresh DEF RowOK, Obligation
<1>4. \A o \in Unclean(token) : o.id = k
  BY DEF Unclean
<1>5. S \subseteq obligations \cup Unclean(token)
  BY DEF Owing
<1>6. UniqueIds(S)
  <2>1. \A o, p \in Unclean(token) : o = p
    BY DEF Unclean
  <2>2. UniqueIds(obligations)
    BY DEF ExecutorInv
  <2> HIDE DEF k, S, token
  <2> QED
    BY <1>3, <1>4, <1>5, <2>1, <2>2 DEF UniqueIds
<1>7. /\ UniqueIds(obligations') /\ S \subseteq obligations'
      /\ \A i \in DOMAIN new : \E o \in obligations' :
           o.fence = new[i].fence /\ o.attempt = new[i].attempt
  <2> HIDE DEF S
  <2>1. obligations' = WithNew(S, new)
    BY DEF S
  <2> QED
    BY <1>2, <1>6, <2>1, WithNewUnique
<1>8. ASSUME NEW a \in acting, Covered(a)
      PROVE  Covered(a)'
  <2>1. PICK o \in obligations : Covers(o, a)
    BY <1>8 DEF Covered
  <2>2. o \in S
    BY <2>1 DEF Owing
  <2> QED
    BY <1>7, <2>1, <2>2 DEF Covered
<1>9. ASSUME NEW a \in acting, token = 0, ~Covered(a)
      PROVE  Covered(a)'
  <2>1. holder # None /\ a.fence = fence
    BY <1>9 DEF ExecutorInv
  <2> DEFINE u == [id |-> k, fence |-> fence, attempt |-> 0]
  <2>2. u \in S /\ Covers(u, a)
    <3>1. u \in Unclean(token) /\ proven = {}
      BY <1>9, <2>1 DEF Unclean
    <3> QED
      BY <2>1, <3>1 DEF Owing, Covers
  <2> HIDE DEF u
  <2> QED
    BY <1>7, <2>2 DEF Covered
<1>10. ASSUME NEW a \in acting, NEW i \in DOMAIN new, Covers(new[i], a)
       PROVE  Covered(a)'
  BY <1>7, <1>10 DEF Covered, Covers
<1> QED
  BY <1>7, <1>8, <1>9, <1>10

(* A step of a session that leaves the row alone keeps both invariants     *)
(* when the session, if it holds the run, still answers for its executors. *)
LEMMA OwnStepKeeps ==
  ASSUME TypeInv, FenceInv, ExecutorInv, NEW s \in Session, NEW new,
         Become(s, new), UNCHANGED ledgerVars, acting' \subseteq acting,
         ses[s].pc \in Active, new.token \in {0, ses[s].token}, Unclaimed(new),
         Holds(s) /\ new.token # 0 /\ new.pc \in Active =>
           Informed(new) /\ \A a \in acting' : Covered(a) \/ Answers(new, a)
  PROVE  FenceInv' /\ ExecutorInv'
PROOF
<1>1. \A t \in Session : ses'[t] = IF t = s THEN new ELSE ses[t]
  BY DEF Become, TypeInv
<1>2. /\ state' = state /\ fence' = fence /\ holder' = holder
      /\ obligations' = obligations
  BY DEF ledgerVars
<1>3. \A t \in Session : Holds(t)' => Holds(t)
  BY <1>1, <1>2 DEF Holds
<1>4. FenceInv'
  <2>1. \A t \in Session : ses'[t].token <= fence' /\ Unclaimed(ses'[t])
    BY <1>1, <1>2, SessionTyped DEF FenceInv
  <2> QED
    BY <1>2, <1>3, <2>1 DEF FenceInv, Unclaimed
<1>5. \A a : Covered(a)' <=> Covered(a)
  BY <1>2 DEF Covered
<1>6. ASSUME NEW t \in Session, Holds(t)'
      PROVE  /\ Informed(ses[t])'
             /\ \A a \in acting' : Covered(a)' \/ Answers(ses[t], a)'
  <2>1. CASE t = s
    <3>1. new.token # 0 /\ new.pc \in Active /\ Holds(s)
      BY <1>1, <1>3, <1>6, <2>1 DEF Holds
    <3>2. Informed(new) /\ \A a \in acting' : Covered(a) \/ Answers(new, a)
      BY <3>1
    <3>3. ses'[t] = new
      BY <1>1, <2>1
    <3> QED
      BY <1>2, <1>5, <3>2, <3>3 DEF Informed, Answers
  <2>2. CASE t # s
    <3>1. ses'[t] = ses[t]
      BY <1>1, <2>2
    <3>2. Informed(ses[t]) /\ \A a \in acting : Covered(a) \/ Answers(ses[t], a)
      BY <1>3, <1>6 DEF ExecutorInv
    <3> QED
      BY <1>2, <1>5, <3>1, <3>2 DEF Informed, Answers
  <2> QED
    BY <2>1, <2>2
<1>7. UniqueIds(obligations)' /\ OneExecutor'
  BY <1>2 DEF ExecutorInv, UniqueIds, OneExecutor
<1>8. \A a \in acting' : Covered(a)' \/ (holder' # None /\ a.fence = fence')
  BY <1>2, <1>5 DEF ExecutorInv
<1> QED
  BY <1>4, <1>6, <1>7, <1>8 DEF ExecutorInv

(* A write by the session that may make it keeps both invariants when what *)
(* it leaves names or answers for every executor.                          *)
LEMMA WriteKeeps ==
  ASSUME TypeInv, FenceInv, ExecutorInv, NEW s \in Session, NEW new,
         Become(s, new), Writable(s), ses[s].pc \in Active,
         fence' = FenceOf(ses[s].token), state' # "absent",
         new.token \in {0, fence'}, Unclaimed(new),
         new.pc \in Active =>
           /\ holder' = s
           /\ new.token = fence'
           /\ new.pc = "proving" => new.left \subseteq obligations'
           /\ new.pc \in {"checked", "unproven"} =>
                \A o \in obligations', a \in acting' :
                  o.id \in new.proven => ~Covers(o, a)
           /\ \A a \in acting' : Covered(a)' \/ Answers(new, a),
         UniqueIds(obligations'),
         \A a \in acting' : Covered(a)' \/ (holder' # None /\ a.fence = fence'),
         OneExecutor'
  PROVE  FenceInv' /\ ExecutorInv'
PROOF
<1>1. \A t \in Session : ses'[t] = IF t = s THEN new ELSE ses[t]
  BY DEF Become, TypeInv
<1>2. \A t \in Session : ses[t].token \in Nat /\ ses[t].token <= fence /\ fence \in Nat
  BY SessionTyped DEF FenceInv
<1>3. state = "open" /\ (ses[s].token # 0 => ses[s].token = fence)
  BY DEF Writable, MayWrite
<1>4. fence' \in Nat /\ fence <= fence'
  BY <1>2 DEF FenceOf
<1>5. ASSUME NEW t \in Session, t # s
      PROVE  ~Holds(t)'
  <2>1. SUFFICES ASSUME Holds(t)' PROVE FALSE
    OBVIOUS
  <2>2. ses[t].token = fence' /\ ses[t].token # 0 /\ ses[t].pc \in Active
    BY <1>1, <1>5, <2>1 DEF Holds
  <2>3. CASE ses[s].token = 0
    BY <1>2, <2>2, <2>3 DEF FenceOf
  <2>4. CASE ses[s].token # 0
    <3>1. Holds(t) /\ Holds(s)
      BY <1>3, <2>2, <2>4 DEF Holds, FenceOf
    <3> QED
      BY <1>5, <3>1 DEF FenceInv
  <2> QED
    BY <2>3, <2>4
<1>6. ses'[s] = new
  BY <1>1
<1>7. FenceInv'
  <2>1. \A t \in Session : ses'[t].token <= fence' /\ Unclaimed(ses'[t])
    BY <1>1, <1>2, <1>4 DEF FenceInv
  <2>2. Holds(s)' => holder' = s
    BY <1>6 DEF Holds
  <2> QED
    BY <1>5, <2>1, <2>2 DEF FenceInv, Unclaimed
<1>8. Holds(s)' => /\ Informed(ses[s])'
                   /\ \A a \in acting' : Covered(a)' \/ Answers(ses[s], a)'
  BY <1>6 DEF Holds, Informed, Answers
<1> QED
  BY <1>5, <1>7, <1>8 DEF ExecutorInv, UniqueIds

(* What the helpers leave of a session's memory.                           *)
LEMMA MemoryKept ==
  ASSUME NEW me \in SessionState
  PROVE  /\ Unwound(me).token = me.token /\ Unwound(me).owed = me.owed
         /\ Unwound(me).pc = me.pc /\ Unwound(me).proven = {}
         /\ Unwound(me) \in SessionState
         /\ \A out : /\ Conclude(me, out).pc = "finish"
                     /\ Conclude(me, out).token = me.token
                     /\ Conclude(me, out).owed = me.owed
                     /\ Conclude(me, out).proven = {}
         /\ \A at : /\ Waiting(me, at).pc = "park"
                    /\ Waiting(me, at).token = me.token
                    /\ Waiting(me, at).proven = {}
PROOF
<1>1. /\ Unwound(me).token = me.token /\ Unwound(me).owed = me.owed
      /\ Unwound(me).pc = me.pc /\ Unwound(me).proven = {}
      /\ Unwound(me) \in SessionState
  BY UnwoundTyped DEF Unwound, SessionState
<1> QED
  BY <1>1 DEF Conclude, Waiting, SessionState

(* A call that begins, or is over, owes nothing and holds no proof. *)
LEMMA FreshMemory ==
  /\ Fresh.token = 0 /\ Fresh.proven = {} /\ Fresh.pc = "idle"
  /\ \A how : /\ [Fresh EXCEPT !.pc = how].pc = how
              /\ [Fresh EXCEPT !.pc = how].token = 0
              /\ [Fresh EXCEPT !.pc = how].proven = {}
  /\ \A b : /\ [Fresh EXCEPT !.aware = b].pc = "idle"
            /\ [Fresh EXCEPT !.aware = b].token = 0
            /\ [Fresh EXCEPT !.aware = b].proven = {}
PROOF BY DEF Fresh

(* The common case: the session does not answer for an executor itself.    *)
LEMMA PlainStepKeeps ==
  ASSUME TypeInv, FenceInv, ExecutorInv, NEW s \in Session, NEW new,
         Become(s, new), UNCHANGED ledgerVars, acting' \subseteq acting,
         ses[s].pc \in Active \ {"attempt", "lost", "finish", "finishing"},
         new.token \in {0, ses[s].token}, new.proven = {},
         new.pc \notin {"proving", "checked", "unproven", "attempt", "lost"}
  PROVE  FenceInv' /\ ExecutorInv'
PROOF
<1>1. Unclaimed(new)
  BY DEF Unclaimed
<1>2. Holds(s) => \A a \in acting' : Covered(a)
  BY DEF ExecutorInv, Answers
<1>3. Informed(new)
  BY DEF Informed
<1> QED
  BY <1>1, <1>2, <1>3, OwnStepKeeps

(* A call that is over, or starts over, has nothing left to answer for.    *)
LEMMA LeaveKeeps ==
  ASSUME TypeInv, FenceInv, ExecutorInv, NEW s \in Session,
         UNCHANGED ledgerVars, acting' \subseteq acting, ses[s].pc \in Active,
         \/ \E how \in Over : Leave(s, how)
         \/ \E b \in BOOLEAN : Become(s, [Fresh EXCEPT !.aware = b])
  PROVE  FenceInv' /\ ExecutorInv'
PROOF
<1>1. PICK new : /\ Become(s, new) /\ new.token = 0 /\ new.proven = {}
                 /\ new.pc \in Over \cup {"idle"}
  <2>1. ASSUME NEW how \in Over, Leave(s, how)
        PROVE  \E new : /\ Become(s, new) /\ new.token = 0 /\ new.proven = {}
                        /\ new.pc \in Over \cup {"idle"}
    <3> DEFINE new == [Fresh EXCEPT !.pc = how]
    <3>1. new.token = 0 /\ new.proven = {} /\ new.pc \in Over \cup {"idle"}
      BY FreshMemory
    <3>2. Become(s, new)
      BY <2>1 DEF Leave
    <3> QED
      BY <3>1, <3>2
  <2>2. ASSUME NEW b \in BOOLEAN, Become(s, [Fresh EXCEPT !.aware = b])
        PROVE  \E new : /\ Become(s, new) /\ new.token = 0 /\ new.proven = {}
                        /\ new.pc \in Over \cup {"idle"}
    <3> DEFINE new == [Fresh EXCEPT !.aware = b]
    <3>1. new.token = 0 /\ new.proven = {} /\ new.pc \in Over \cup {"idle"}
      BY FreshMemory
    <3>2. Become(s, new)
      BY <2>2
    <3> QED
      BY <3>1, <3>2
  <2> QED
    BY <2>1, <2>2
<1>2. Unclaimed(new)
  BY <1>1 DEF Unclaimed, Over
<1> QED
  BY <1>1, <1>2, OwnStepKeeps

(* A step that only touches the buffer, or what the session is aware of.   *)
LEMMA BufferStepKeeps ==
  ASSUME TypeInv, FenceInv, ExecutorInv, NEW s \in Session, NEW new,
         Become(s, new), UNCHANGED ledgerVars, acting' \subseteq acting,
         ses[s].pc \in Active, new.pc = ses[s].pc, new.token = ses[s].token,
         new.proven = ses[s].proven, new.left = ses[s].left,
         new.kind = ses[s].kind, new.attempt = ses[s].attempt,
         new.owed = ses[s].owed
  PROVE  FenceInv' /\ ExecutorInv'
PROOF
<1>1. Unclaimed(new)
  BY DEF FenceInv, Unclaimed
<1>2. Holds(s) => Informed(new) /\ \A a \in acting' : Covered(a) \/ Answers(new, a)
  BY DEF ExecutorInv, Informed, Answers
<1> QED
  BY <1>1, <1>2, OwnStepKeeps

(* A write that does nothing leaves every executor accounted for. *)
LEMMA WriteStoppedKeeps ==
  ASSUME TypeInv, FenceInv, ExecutorInv, NEW s \in Session, WriteStopped(s),
         ses[s].pc \in Active
  PROVE  FenceInv' /\ ExecutorInv'
PROOF
<1>1. "refused" \in Over /\ ses[s].aware \in BOOLEAN
  BY SessionTyped DEF Over
<1> QED
  BY <1>1, LeaveKeeps DEF WriteStopped

(* The steps of the definition leave every executor accounted for. *)
LEMMA DefinitionKeeps ==
  ASSUME TypeInv, FenceInv, ExecutorInv, NEW s \in Session,
         \/ Load(s) \/ Observe(s) \/ Interrupted(s) \/ Record(s) \/ Refuse(s)
         \/ Attempt(s) \/ Suspend(s) \/ Return(s) \/ Crash(s)
  PROVE  FenceInv' /\ ExecutorInv'
PROOF
<1> DEFINE me == ses[s]
<1>1. me \in SessionState /\ Unclaimed(me)
  BY SessionTyped DEF FenceInv
<1>2. UNCHANGED ledgerVars /\ acting' \subseteq acting
  BY DEF Load, Observe, Interrupted, Record, Refuse, Attempt, Suspend, Return, Crash
<1>3. Holds(s) => /\ Informed(me)
                  /\ \A a \in acting : Covered(a) \/ Answers(me, a)
  BY DEF ExecutorInv
<1> HIDE DEF me
<1>4. CASE Load(s)
  <2>1. CASE \E how \in Over : Leave(s, how)
    BY <1>2, <1>4, <2>1, LeaveKeeps DEF Load, Active
  <2>2. CASE Become(s, [me EXCEPT !.pc = "run", !.seen = Len(events)])
    <3> DEFINE new == [me EXCEPT !.pc = "run", !.seen = Len(events)]
    <3>1. /\ new.token = me.token /\ new.proven = me.proven /\ new.pc = "run"
      BY <1>1 DEF SessionState
    <3>2. me.pc = "idle"
      BY <1>4 DEF Load, me
    <3> HIDE DEF new
    <3>3. Unclaimed(new)
      BY <1>1, <3>1 DEF Unclaimed
    <3>4. Holds(s) => Informed(new) /\ \A a \in acting' : Covered(a) \/ Answers(new, a)
      BY <1>2, <1>3, <3>1, <3>2 DEF Informed, Answers
    <3>5. Become(s, new) /\ ses[s].pc \in Active /\ new.token \in {0, ses[s].token}
      BY <2>2, <3>1, <3>2 DEF new, me, Active
    <3> QED
      BY <1>2, <3>3, <3>4, <3>5, OwnStepKeeps
  <2> QED
    BY <1>4, <2>1, <2>2 DEF Load, Over, me
<1>5. ASSUME NEW new, Become(s, new), new.pc = me.pc, new.token = me.token,
             new.proven = me.proven, new.left = me.left, new.kind = me.kind,
             new.attempt = me.attempt, new.owed = me.owed, me.pc \in Active
      PROVE  FenceInv' /\ ExecutorInv'
  BY <1>2, <1>5, BufferStepKeeps DEF me
<1>6. CASE Observe(s)
  <2>1. Become(s, [me EXCEPT !.aware = TRUE]) /\ me.pc \in Active
    BY <1>6 DEF Observe, me, Active
  <2> QED
    BY <1>1, <1>5, <2>1 DEF SessionState
<1>7. CASE Interrupted(s) \/ Record(s)
  <2>1. PICK e : Become(s, [me EXCEPT !.buffer = Append(@, e)])
    BY <1>7 DEF Interrupted, Record, me
  <2>2. me.pc \in Active
    BY <1>7 DEF Interrupted, Record, me, Active
  <2> QED
    BY <1>1, <1>5, <2>1, <2>2 DEF SessionState
<1>8. CASE Refuse(s) \/ Suspend(s) \/ Return(s)
  <2>1. PICK new : /\ Become(s, new) /\ new.token = me.token /\ new.proven = {}
                   /\ new.pc \in {"finish", "park"}
    BY <1>1, <1>8, MemoryKept DEF Refuse, GateShut, Suspend, Return, me
  <2>2. me.pc = "run"
    BY <1>8 DEF Refuse, Suspend, Return, me
  <2> QED
    BY <1>2, <2>1, <2>2, PlainStepKeeps DEF me, Active
<1>9. CASE Attempt(s)
  <2>1. PICK k : Become(s, [me EXCEPT !.pc = "checked", !.kind = k, !.proven = {}])
    BY <1>9 DEF Attempt, me
  <2> DEFINE new == [me EXCEPT !.pc = "checked", !.kind = k, !.proven = {}]
  <2>2. new.pc = "checked" /\ new.token = me.token /\ new.proven = {}
    BY <1>1 DEF SessionState
  <2>3. me.pc = "run"
    BY <1>9 DEF Attempt, me
  <2> HIDE DEF new
  <2>4. Unclaimed(new)
    BY <2>2 DEF Unclaimed
  <2>5. Holds(s) => Informed(new) /\ \A a \in acting' : Covered(a) \/ Answers(new, a)
    BY <1>2, <1>3, <2>2, <2>3 DEF Informed, Answers
  <2>6. Become(s, new) /\ ses[s].pc \in Active /\ new.token \in {0, ses[s].token}
    BY <2>1, <2>2, <2>3 DEF new, me, Active
  <2> QED
    BY <1>2, <2>4, <2>5, <2>6, OwnStepKeeps
<1>10. CASE Crash(s)
  BY <1>2, <1>10, LeaveKeeps DEF Crash, Over
<1> QED
  BY <1>4, <1>6, <1>7, <1>8, <1>9, <1>10

(* A shut gate keeps what the session owes and drops its proofs. *)
LEMMA GateShutMemory ==
  ASSUME TypeInv, NEW s \in Session, GateShut(s)
  PROVE  \E new : /\ Become(s, new) /\ new.token = ses[s].token
                  /\ new.proven = {} /\ new.pc = "finish"
PROOF
<1>1. PICK out : Become(s, Conclude(ses[s], out))
  BY DEF GateShut
<1> DEFINE new == Conclude(ses[s], out)
<1>2. new.token = ses[s].token /\ new.proven = {} /\ new.pc = "finish"
  <2>1. ses[s] \in SessionState
    BY SessionTyped
  <2> QED
    BY <2>1, MemoryKept
<1>3. Become(s, new)
  BY <1>1
<1> HIDE DEF new
<1> QED
  BY <1>2, <1>3

(* A write past the bounds leaves every executor accounted for. *)
LEMMA LimitReachedKeeps ==
  ASSUME TypeInv, FenceInv, ExecutorInv, NEW s \in Session, LimitReached(s),
         ses[s].pc \in {"checked", "unproven"}
  PROVE  FenceInv' /\ ExecutorInv'
PROOF
<1> DEFINE new == Conclude(ses[s], "limited")
<1>1. new.pc = "finish" /\ new.token = ses[s].token /\ new.proven = {}
  BY ZenonT(60), SessionTyped, MemoryKept
<1>2. Become(s, new) /\ UNCHANGED ledgerVars /\ acting' \subseteq acting
  BY DEF LimitReached
<1> HIDE DEF new
<1> QED
  BY <1>1, <1>2, PlainStepKeeps DEF Active

(* The host proves an executor ended only when it did, so what a session   *)
(* holds for proven names no executor that may act.                        *)
LEMMA ProveKeeps ==
  ASSUME TypeInv, FenceInv, ExecutorInv, NEW s \in Session, Prove(s)
  PROVE  FenceInv' /\ ExecutorInv'
PROOF
<1> DEFINE me == ses[s]
<1>1. /\ me \in SessionState /\ me.pc = "proving" /\ Unclaimed(me)
      /\ UNCHANGED ledgerVars /\ acting' \subseteq acting
  BY SessionTyped DEF Prove, FenceInv
<1>2. Holds(s) => me.left \subseteq obligations /\ \A a \in acting : Covered(a)
  BY <1>1 DEF ExecutorInv, Informed, Answers
<1>3. me.token # 0
  BY <1>1 DEF Unclaimed
<1> HIDE DEF me
<1>4. PICK P \in SUBSET Provable(me.left) :
        \/ Become(s, [me EXCEPT !.pc = "unproven", !.proven = Ids(P), !.left = {}])
        \/ GateShut(s)
        \/ Become(s, Waiting(me, now))
        \/ Become(s, [me EXCEPT !.pc = "checked", !.proven = Ids(P), !.left = {}])
  BY DEF Prove, me
<1>5. CASE GateShut(s) \/ Become(s, Waiting(me, now))
  <2>1. PICK new : /\ Become(s, new) /\ new.token = me.token /\ new.proven = {}
                   /\ new.pc \in {"finish", "park"}
    <3>1. /\ Waiting(me, now).token = me.token /\ Waiting(me, now).proven = {}
          /\ Waiting(me, now).pc = "park"
      BY <1>1, MemoryKept
    <3> QED
      BY <1>5, <3>1, GateShutMemory DEF me
  <2> QED
    BY <1>1, <2>1, PlainStepKeeps DEF me, Active
<1>6. ASSUME NEW pc \in {"unproven", "checked"},
             Become(s, [me EXCEPT !.pc = pc, !.proven = Ids(P), !.left = {}])
      PROVE  FenceInv' /\ ExecutorInv'
  <2> DEFINE new == [me EXCEPT !.pc = pc, !.proven = Ids(P), !.left = {}]
  <2>1. new.pc = pc /\ new.token = me.token /\ new.proven = Ids(P)
    BY <1>1 DEF SessionState
  <2>2. Become(s, new) /\ ses[s].pc \in Active /\ new.token \in {0, ses[s].token}
    BY <1>1, <1>6, <2>1 DEF me, Active
  <2> HIDE DEF new
  <2>3. Unclaimed(new)
    BY <1>3, <2>1 DEF Unclaimed
  <2>4. ASSUME Holds(s), NEW o \in obligations, NEW a \in acting, o.id \in Ids(P)
        PROVE  ~Covers(o, a)
    <3>1. PICK q \in P : q.id = o.id
      BY <2>4 DEF Ids
    <3>2. q \in me.left /\ ~Covers(q, a)
      BY <1>4, <2>4, <3>1 DEF Provable
    <3>3. q = o
      BY <1>2, <2>4, <3>1, <3>2 DEF ExecutorInv, UniqueIds
    <3> QED
      BY <3>2, <3>3
  <2>5. Holds(s) => Informed(new)
    BY <2>1, <2>4 DEF Informed
  <2> QED
    BY <1>1, <1>2, <2>2, <2>3, <2>5, OwnStepKeeps
<1> QED
  BY <1>4, <1>5, <1>6

(* While it waits for an attempt, the session answers for its executor. *)
LEMMA AttemptKeeps ==
  ASSUME TypeInv, FenceInv, ExecutorInv, NEW s \in Session,
         Beat(s) \/ SettleModel(s) \/ GiveUp(s)
  PROVE  FenceInv' /\ ExecutorInv'
PROOF
<1> DEFINE me == ses[s]
           mine == [fence |-> me.token, attempt |-> me.attempt]
<1>1. me \in SessionState /\ Unclaimed(me) /\ me.owed \in Seq(NewObligation)
  BY SessionTyped DEF FenceInv
<1>2. Holds(s) => \A a \in acting : Covered(a) \/ Answers(me, a)
  BY DEF ExecutorInv
<1> HIDE DEF me
<1>3. CASE Beat(s)
  <2> DEFINE new == [me EXCEPT !.buffer = Append(WithoutBeats(@), Heartbeat)]
  <2>1. Become(s, new) /\ me.pc = "attempt" /\ UNCHANGED <<ledgerVars, acting>>
    BY <1>3 DEF Beat, me
  <2>2. /\ new.pc = me.pc /\ new.token = me.token /\ new.proven = me.proven
        /\ new.left = me.left /\ new.kind = me.kind
        /\ new.attempt = me.attempt /\ new.owed = me.owed
    BY <1>1 DEF SessionState
  <2> HIDE DEF new
  <2> QED
    BY <2>1, <2>2, BufferStepKeeps DEF me, Active
<1>4. CASE SettleModel(s)
  <2>1. me.pc = "attempt" /\ me.kind = "model" /\ UNCHANGED <<ledgerVars, acting>>
    BY <1>4 DEF SettleModel, me
  <2> DEFINE settled == [Unwound(me) EXCEPT !.pc = "run",
                                !.buffer = Append(@, Settled(me.attempt))]
  <2>2. settled.token = me.token /\ settled.proven = {} /\ settled.pc = "run"
    BY <1>1, MemoryKept DEF SessionState
  <2>3. \A out : /\ Conclude(settled, out).token = me.token
                 /\ Conclude(settled, out).proven = {}
                 /\ Conclude(settled, out).pc = "finish"
    <3>1. Append(me.buffer, Settled(me.attempt)) \in Seq(Event)
      BY <1>1, EventTyped, AppendProperties DEF SessionState
    <3>2. Unwound(me) \in SessionState /\ Unwound(me).buffer = me.buffer
      BY <1>1, UnwoundTyped DEF Unwound, SessionState
    <3>3. settled \in SessionState
      BY <3>1, <3>2 DEF SessionState, Active
    <3> HIDE DEF settled
    <3> QED
      BY <2>2, <3>3, MemoryKept
  <2>4. \/ Become(s, settled)
        \/ \E out : Become(s, Conclude(settled, out))
    BY <1>4 DEF SettleModel, me
  <2> HIDE DEF settled
  <2>5. PICK new : /\ Become(s, new) /\ new.token = me.token /\ new.proven = {}
                   /\ new.pc \in {"run", "finish"}
    BY <2>2, <2>3, <2>4
  <2>6. Unclaimed(new) /\ Informed(new)
    BY <2>5 DEF Unclaimed, Informed
  <2>7. Holds(s) => \A a \in acting' : Covered(a)
    BY <1>2, <2>1 DEF Answers
  <2> QED
    BY <2>1, <2>5, <2>6, <2>7, OwnStepKeeps DEF me, Active
<1>5. CASE GiveUp(s)
  <2>1. PICK ended \in BOOLEAN :
          /\ acting' = Learned(s, ended).acting
          /\ Become(s, [Conclude(me, "limited") EXCEPT !.owed = Learned(s, ended).owed])
    BY <1>5 DEF GiveUp, me
  <2>2. me.pc = "lost" /\ UNCHANGED ledgerVars
    BY <1>5 DEF GiveUp, me
  <2> DEFINE owed == Learned(s, ended).owed
             new == [Conclude(me, "limited") EXCEPT !.owed = owed]
  <2>3. acting' \subseteq acting
    BY <2>1 DEF Learned
  <2>4. /\ new.pc = "finish" /\ new.token = me.token /\ new.proven = {}
        /\ new.owed = owed
    BY <1>1, MemoryKept DEF Conclude, Unwound, SessionState
  <2>5. ASSUME NEW a \in acting', Covered(a) \/ Answers(me, a)
        PROVE  Covered(a) \/ \E i \in DOMAIN owed : Covers(owed[i], a)
    <3>1. SUFFICES ASSUME Answers(me, a)
                   PROVE  \E i \in DOMAIN owed : Covers(owed[i], a)
      BY <2>5
    <3>2. me.kind = "activity" /\ a = mine
      BY <2>2, <3>1 DEF Answers
    <3>3. owed = Append(me.owed, mine)
      BY <2>1, <3>2 DEF Learned, me
    <3>4. Len(owed) \in DOMAIN owed /\ owed[Len(owed)] = mine
      BY <1>1, <3>3, LenProperties
    <3> QED
      BY <3>2, <3>4 DEF Covers
  <2> HIDE DEF owed, new
  <2>6. Unclaimed(new) /\ Informed(new)
    BY <2>4 DEF Unclaimed, Informed
  <2>7. Holds(s) => \A a \in acting' : Covered(a) \/ Answers(new, a)
    BY <1>2, <2>3, <2>4, <2>5 DEF Answers
  <2>8. Become(s, new) /\ ses[s].pc \in Active /\ new.token \in {0, ses[s].token}
    BY <2>1, <2>2, <2>4 DEF new, owed, me, Active
  <2> QED
    BY <2>2, <2>3, <2>6, <2>7, <2>8, OwnStepKeeps
<1> QED
  BY <1>3, <1>4, <1>5

(* A release ends the session's executors or names them (session.rs release). *)
LEMMA ReleaseKeeps ==
  ASSUME TypeInv, FenceInv, ExecutorInv, NEW s \in Session, Release(s)
  PROVE  FenceInv' /\ ExecutorInv'
PROOF
<1> DEFINE me == ses[s]
           next == IF me.pc = "park" THEN "parking" ELSE "finishing"
           mine == [fence |-> me.token, attempt |-> 0]
<1>1. me \in SessionState /\ Unclaimed(me) /\ me.owed \in Seq(NewObligation)
  BY SessionTyped DEF FenceInv
<1>2. /\ me.pc \in {"park", "finish"} /\ UNCHANGED ledgerVars
      /\ acting' \subseteq acting
  BY DEF Release
<1>3. \/ Become(s, [me EXCEPT !.pc = next])
      \/ Become(s, [me EXCEPT !.pc = next, !.owed = Append(@, mine)])
  BY DEF Release, Move
<1>4. Holds(s) => \A a \in acting : Covered(a) \/ Answers(me, a)
  BY DEF ExecutorInv
<1> HIDE DEF me
<1>5. PICK new : /\ Become(s, new) /\ new.token = me.token /\ new.pc = next
                 /\ new.proven = me.proven
                 /\ \/ new.owed = me.owed
                    \/ new.owed = Append(me.owed, mine)
  <2> DEFINE n1 == [me EXCEPT !.pc = next]
             n2 == [me EXCEPT !.pc = next, !.owed = Append(@, mine)]
  <2>1. /\ n1.token = me.token /\ n1.pc = next /\ n1.proven = me.proven
        /\ n1.owed = me.owed
        /\ n2.token = me.token /\ n2.pc = next /\ n2.proven = me.proven
        /\ n2.owed = Append(me.owed, mine)
    BY <1>1 DEF SessionState
  <2>2. Become(s, n1) \/ Become(s, n2)
    BY <1>3
  <2> HIDE DEF n1, n2, next
  <2> QED
    BY <2>1, <2>2
<1>6. \A i \in DOMAIN me.owed : i \in DOMAIN new.owed /\ new.owed[i] = me.owed[i]
  BY <1>1, <1>5, AppendProperties
<1>7. Unclaimed(new) /\ Informed(new)
  BY <1>1, <1>5 DEF Unclaimed, Informed
<1>8. Holds(s) => \A a \in acting' : Covered(a) \/ Answers(new, a)
  BY <1>2, <1>4, <1>5, <1>6 DEF Answers
<1> QED
  BY <1>2, <1>5, <1>7, <1>8, OwnStepKeeps DEF me, Active

(* What a committed write leaves in the session's memory. *)
LEMMA WroteMemory ==
  ASSUME TypeInv, NEW s \in Session, NEW n \in Nat
  PROVE  /\ Wrote(s, n) \in SessionState
         /\ Wrote(s, n).token = FenceOf(ses[s].token)
         /\ Wrote(s, n).pc = ses[s].pc /\ Wrote(s, n).kind = ses[s].kind
         /\ Wrote(s, n).attempt = ses[s].attempt
PROOF
<1>1. ses[s] \in SessionState /\ fence \in Nat
  BY SessionTyped
<1>2. Wrote(s, n).token = FenceOf(ses[s].token)
  BY <1>1 DEF Wrote, SessionState
<1> QED
  BY <1>1, <1>2, WroteTyped DEF Wrote, SessionState

(* A write that keeps the run keeps both invariants when the executors the *)
(* session answered for are owed by the write, or still answered for.      *)
LEMMA HoldKeeps ==
  ASSUME TypeInv, FenceInv, ExecutorInv, NEW s \in Session, Writable(s),
         ses[s].pc \in Active, NEW own, NEW proven, NEW owed \in Seq(NewObligation),
         WriteHold(s, ses[s].token, own, proven, owed),
         ses[s].token = 0 => proven = {},
         \A o \in obligations, a \in acting : o.id \in proven => ~Covers(o, a),
         NEW new, Become(s, new), new.token = FenceOf(ses[s].token),
         new.pc \in Active \ {"checked", "unproven"},
         new.pc = "proving" => new.left \subseteq Owing(ses[s].token, proven),
         acting' \subseteq acting,
         \A a \in acting' : Answers(ses[s], a) =>
           Answers(new, a) \/ \E i \in DOMAIN owed : Covers(owed[i], a)
  PROVE  FenceInv' /\ ExecutorInv'
PROOF
<1>1. /\ UniqueIds(obligations')
      /\ Owing(ses[s].token, proven) \subseteq obligations'
      /\ \A a \in acting :
           \/ Covered(a)
           \/ ses[s].token = 0
           \/ \E i \in DOMAIN owed : Covers(owed[i], a)
           => Covered(a)'
  BY ObligationsKept DEF WriteHold
<1>2. /\ fence' = FenceOf(ses[s].token) /\ holder' = s /\ state' = "open"
      /\ holder' # None
  BY NoneAssumption DEF WriteHold, Writable, MayWrite
<1>3. ses[s].token # 0 => Holds(s) /\ fence' = fence
  BY <1>2 DEF Holds, Writable, MayWrite, FenceOf
<1>4. \A a \in acting' : Covered(a)' \/ Answers(new, a)
  BY <1>1, <1>3 DEF ExecutorInv
<1>5. \A a \in acting' : Covered(a)' \/ (holder' # None /\ a.fence = fence')
  BY <1>1, <1>2, <1>3 DEF ExecutorInv
<1>6. OneExecutor'
  BY DEF ExecutorInv, OneExecutor
<1>7. FenceOf(ses[s].token) # 0
  <2>1. ses[s].token \in Nat /\ fence \in Nat
    BY SessionTyped
  <2> QED
    BY <2>1 DEF FenceOf, Writable, MayWrite
<1>8. Unclaimed(new)
  BY <1>7 DEF Unclaimed
<1> QED
  BY <1>1, <1>2, <1>4, <1>5, <1>6, <1>8, WriteKeeps

(* A dispatch the ledger allows finds no executor that may act: nothing is *)
(* owed, nothing is unclean, and what was proven was true.                 *)
LEMMA DispatchAlone ==
  ASSUME TypeInv, FenceInv, ExecutorInv, NEW s \in Session,
         ses[s].pc = "checked", Writable(s),
         Allowed(ses[s].token, ses[s].proven)
  PROVE  acting = {}
PROOF
<1> DEFINE me == ses[s]
<1> SUFFICES ASSUME NEW a \in acting PROVE FALSE
  OBVIOUS
<1>1. Owing(me.token, me.proven) = {}
  BY DEF Allowed
<1>2. CASE me.token = 0
  <2>1. me.proven = {}
    BY <1>2 DEF FenceInv, Unclaimed
  <2>2. obligations = {} /\ Unclean(me.token) = {}
    BY <1>1, <2>1 DEF Owing
  <2>3. holder = None
    BY <1>2, <2>2 DEF Unclean
  <2> QED
    BY <2>2, <2>3 DEF ExecutorInv, Covered
<1>3. CASE me.token # 0
  <2>1. Holds(s)
    BY <1>3 DEF Holds, Writable, MayWrite, Active
  <2>2. PICK o \in obligations : Covers(o, a)
    BY <2>1 DEF ExecutorInv, Answers, Covered
  <2>3. o.id \in me.proven
    BY <1>1 DEF Owing
  <2> QED
    BY <2>1, <2>2, <2>3 DEF ExecutorInv, Informed
<1> QED
  BY <1>2, <1>3

(* A dispatch that commits starts the only executor. *)
LEMMA DispatchAllowedKeeps ==
  ASSUME TypeInv, FenceInv, ExecutorInv, NEW s \in Session,
         ses[s].pc = "checked", Writable(s), DispatchAllowed(s)
  PROVE  FenceInv' /\ ExecutorInv'
PROOF
<1> DEFINE me == ses[s]
           own == Append(me.buffer, Dispatched(FenceOf(me.token), me.kind))
           a == Len(events) + Len(own)
           mine == [fence |-> FenceOf(me.token), attempt |-> a]
           new == [Wrote(s, Len(own)) EXCEPT !.pc = "attempt", !.attempt = a,
                                             !.proven = {}]
<1>1. /\ me.token \in Nat /\ me.kind \in StepKind /\ fence \in Nat
      /\ me.buffer \in Seq(Event) /\ me.owed \in Seq(NewObligation)
      /\ RowOK
  BY SessionTyped DEF TypeInv
<1>2. Len(own) \in Nat
  <2>1. own \in Seq(Event)
    BY <1>1, FenceTyped, EventTyped, AppendProperties
  <2> HIDE DEF own
  <2> QED
    BY <2>1, LenProperties
<1>3. acting = {}
  BY DispatchAlone DEF DispatchAllowed
<1>4. CASE LimitReached(s)
  BY <1>4, LimitReachedKeeps
<1>5. CASE /\ WriteHold(s, me.token, own, me.proven, me.owed)
           /\ Become(s, new)
           /\ acting' = IF me.kind = "model" THEN acting ELSE acting \cup {mine}
  <2>1. /\ UniqueIds(obligations')
    <3>1. me.token = 0 => me.proven = {}
      BY DEF FenceInv, Unclaimed
    <3>2. obligations' = WithNew(Owing(me.token, me.proven), me.owed)
      BY <1>5 DEF WriteHold
    <3> HIDE DEF own
    <3> QED
      BY <1>1, <1>3, <3>1, <3>2, ObligationsKept
  <2>2. /\ fence' = FenceOf(me.token) /\ holder' = s /\ state' = "open"
        /\ holder' # None
    BY <1>5, NoneAssumption DEF WriteHold, Writable, MayWrite
  <2>3. FenceOf(me.token) # 0
    BY <1>1 DEF FenceOf, Writable, MayWrite
  <2> HIDE DEF own, a
  <2>4. /\ new.pc = "attempt" /\ new.token = FenceOf(me.token) /\ new.attempt = a
        /\ new.kind = me.kind
    BY <1>2, WroteMemory DEF SessionState
  <2> HIDE DEF new
  <2>5. \A b \in acting' : b = mine /\ new.kind = "activity"
    BY <1>1, <1>3, <1>5, <2>4 DEF StepKind
  <2>6. \A b \in acting' : Answers(new, b) /\ b.fence = fence'
    BY <2>2, <2>4, <2>5 DEF Answers
  <2>7. OneExecutor'
    BY <2>5 DEF OneExecutor
  <2>8. Unclaimed(new)
    BY <2>3, <2>4 DEF Unclaimed
  <2>9. Become(s, new) /\ ses[s].pc \in Active
    BY <1>5 DEF Active
  <2> QED
    BY <2>1, <2>2, <2>4, <2>6, <2>7, <2>8, <2>9, WriteKeeps
<1> QED
  BY <1>4, <1>5 DEF DispatchAllowed

(* A dispatch the ledger holds back leaves every executor named. *)
LEMMA DispatchHeldKeeps ==
  ASSUME TypeInv, FenceInv, ExecutorInv, NEW s \in Session,
         ses[s].pc = "checked", Writable(s), DispatchHeld(s)
  PROVE  FenceInv' /\ ExecutorInv'
PROOF
<1> DEFINE me == ses[s]
           wrote == Wrote(s, Len(me.buffer))
           left == Owing(me.token, me.proven)
           new == IF cancel THEN Conclude(wrote, "cancelled")
                  ELSE [wrote EXCEPT !.pc = "proving", !.proven = {}, !.left = left]
<1>1. /\ me.owed \in Seq(NewObligation) /\ Len(me.buffer) \in Nat
      /\ me.pc \in Active
  BY SessionTyped, LenProperties DEF Active
<1>2. wrote \in SessionState /\ wrote.token = FenceOf(me.token)
  BY <1>1, WroteMemory
<1>3. CASE LimitReached(s)
  BY <1>3, LimitReachedKeeps
<1>4. CASE /\ WriteHold(s, me.token, me.buffer, me.proven, me.owed)
           /\ Become(s, new)
           /\ UNCHANGED acting
  <2> HIDE DEF wrote, left
  <2>1. /\ new.token = FenceOf(me.token) /\ new.pc \in {"finish", "proving"}
        /\ new.pc = "proving" => new.left = left
    <3> DEFINE done == Conclude(wrote, "cancelled")
               proving == [wrote EXCEPT !.pc = "proving", !.proven = {}, !.left = left]
    <3>1. done.token = FenceOf(me.token) /\ done.pc = "finish"
      BY <1>2, MemoryKept
    <3>2. /\ proving.token = FenceOf(me.token) /\ proving.pc = "proving"
          /\ proving.left = left
      BY <1>2 DEF SessionState
    <3>3. new = done \/ new = proving
      OBVIOUS
    <3> HIDE DEF done, proving, new
    <3> QED
      BY <3>1, <3>2, <3>3
  <2> HIDE DEF new
  <2>2. me.token = 0 => me.proven = {}
    BY DEF FenceInv, Unclaimed
  <2>3. \A o \in obligations, a \in acting : o.id \in me.proven => ~Covers(o, a)
    <3>1. CASE me.token = 0
      BY <2>2, <3>1
    <3>2. CASE me.token # 0
      <4>1. Holds(s)
        BY <1>1, <3>2 DEF Holds, Writable, MayWrite
      <4> QED
        BY <4>1 DEF ExecutorInv, Informed
    <3> QED
      BY <3>1, <3>2
  <2>4. \A a : ~Answers(me, a)
    BY DEF Answers
  <2>5. new.pc \in Active \ {"checked", "unproven"}
    BY <2>1 DEF Active
  <2> QED
    BY ZenonT(60), <1>1, <1>4, <2>1, <2>2, <2>3, <2>4, <2>5, HoldKeeps DEF left
<1> QED
  BY <1>3, <1>4 DEF DispatchHeld

(* Dispatch leaves every executor accounted for. *)
LEMMA DispatchKeeps ==
  ASSUME TypeInv, FenceInv, ExecutorInv, NEW s \in Session, Dispatch(s)
  PROVE  FenceInv' /\ ExecutorInv'
PROOF BY WriteStoppedKeeps, DispatchAllowedKeeps, DispatchHeldKeeps
      DEF Dispatch, Active

(* Deleting what was proven leaves every executor named. *)
LEMMA HoldUnprovenKeeps ==
  ASSUME TypeInv, FenceInv, ExecutorInv, NEW s \in Session, HoldUnproven(s)
  PROVE  FenceInv' /\ ExecutorInv'
PROOF
<1> DEFINE me == ses[s]
           wrote == Wrote(s, Len(me.buffer))
           new == Waiting(wrote, now + ProofRetryMs)
<1>1. /\ me.owed \in Seq(NewObligation) /\ Len(me.buffer) \in Nat
      /\ me.pc = "unproven" /\ me.pc \in Active /\ now' = now
  <2>1. now' = now /\ me.pc = "unproven"
    BY DEF HoldUnproven, WriteStopped
  <2> QED
    BY <2>1, SessionTyped, LenProperties DEF Active
<1>2. wrote \in SessionState /\ wrote.token = FenceOf(me.token)
  BY <1>1, WroteMemory
<1>3. CASE WriteStopped(s)
  BY <1>1, <1>3, WriteStoppedKeeps
<1>4. CASE LimitReached(s)
  BY <1>1, <1>4, LimitReachedKeeps
<1>5. CASE /\ Writable(s)
           /\ WriteHold(s, me.token, me.buffer, me.proven, me.owed)
           /\ Become(s, new)
           /\ UNCHANGED acting
  <2> HIDE DEF wrote
  <2>1. new.token = FenceOf(me.token) /\ new.pc = "park"
    BY <1>2, MemoryKept
  <2> HIDE DEF new
  <2>2. me.token # 0
    BY <1>1 DEF FenceInv, Unclaimed
  <2>3. \A o \in obligations, a \in acting : o.id \in me.proven => ~Covers(o, a)
    <3>1. Holds(s)
      BY <1>1, <1>5, <2>2 DEF Holds, Writable, MayWrite
    <3> QED
      BY <1>1, <3>1 DEF ExecutorInv, Informed
  <2>4. \A a : ~Answers(me, a)
    BY <1>1 DEF Answers
  <2>5. new.pc \in Active \ {"checked", "unproven"} /\ new.pc # "proving"
    BY <2>1 DEF Active
  <2> QED
    BY ZenonT(60), <1>1, <1>5, <2>1, <2>2, <2>3, <2>4, <2>5, HoldKeeps
<1> QED
  BY <1>3, <1>4, <1>5 DEF HoldUnproven

(* A renewal leaves every executor accounted for. *)
LEMMA RenewKeeps ==
  ASSUME TypeInv, FenceInv, ExecutorInv, NEW s \in Session, Renew(s)
  PROVE  FenceInv' /\ ExecutorInv'
PROOF
<1> DEFINE me == ses[s]
           kept == IF Fits(Len(me.buffer), 0) THEN me.buffer
                   ELSE WithoutBeats(me.buffer)
           rest == [me EXCEPT !.buffer = kept]
           lost == [rest EXCEPT !.pc = "lost"]
<1>1. /\ me \in SessionState /\ me.buffer \in Seq(Event)
      /\ me.owed \in Seq(NewObligation)
      /\ me.pc \in {"run", "attempt"} /\ me.token # 0
  BY SessionTyped DEF Renew, RenewalDue
<1>2. kept \in Seq(Event) /\ Len(kept) \in Nat
  BY <1>1, WithoutBeatsTyped, LenProperties
<1>3. me.pc \in Active
  BY <1>1 DEF Active
<1> HIDE DEF kept
<1>4. rest \in SessionState /\ rest.token = me.token /\ rest.pc = me.pc
      /\ rest.proven = me.proven /\ rest.kind = me.kind /\ rest.attempt = me.attempt
  BY <1>1, <1>2 DEF SessionState
<1>5. CASE WriteStopped(s)
  BY <1>3, <1>5, WriteStoppedKeeps
<1>6. CASE /\ Writable(s)
           /\ WriteHold(s, me.token, kept, {}, me.owed)
           /\ Become(s, Wrote(s, Len(kept)))
           /\ UNCHANGED acting
  <2> DEFINE new == Wrote(s, Len(kept))
  <2>1. /\ new.token = FenceOf(me.token) /\ new.pc = me.pc /\ new.kind = me.kind
        /\ new.attempt = me.attempt
    BY <1>2, WroteMemory
  <2> HIDE DEF new
  <2>2. FenceOf(me.token) = me.token
    BY <1>1, <1>6 DEF FenceOf, Writable, MayWrite
  <2>3. \A a : Answers(me, a) => Answers(new, a)
    BY <1>1, <2>1, <2>2 DEF Answers
  <2>4. new.pc \in Active \ {"checked", "unproven"} /\ new.pc # "proving"
    BY <1>1, <2>1 DEF Active
  <2>5. Become(s, new) /\ acting' \subseteq acting
    BY <1>6 DEF new
  <2> DEFINE proven == {}
  <2>6. WriteHold(s, ses[s].token, kept, proven, me.owed) /\ Writable(s)
    BY <1>6
  <2>7. /\ \A o \in obligations, a \in acting : o.id \in proven => ~Covers(o, a)
        /\ ses[s].token = 0 => proven = {}
    OBVIOUS
  <2>8. \A a \in acting' : Answers(ses[s], a) =>
          Answers(new, a) \/ \E i \in DOMAIN me.owed : Covers(me.owed[i], a)
    BY <2>3
  <2>9. /\ new.token = FenceOf(ses[s].token) /\ ses[s].pc \in Active
        /\ me.owed \in Seq(NewObligation)
    BY <1>1, <1>3, <2>1
  <2> HIDE DEF me, proven
  <2> QED
    BY <2>4, <2>5, <2>6, <2>7, <2>8, <2>9, HoldKeeps
<1>7. CASE me.pc = "run" /\ Become(s, Conclude(rest, "limited"))
           /\ UNCHANGED ledgerVars /\ UNCHANGED acting
  <2> DEFINE new == Conclude(rest, "limited")
  <2> HIDE DEF rest
  <2>1. new.token = me.token /\ new.proven = {} /\ new.pc = "finish"
    BY <1>4, MemoryKept
  <2>2. Become(s, new)
    BY <1>7
  <2> HIDE DEF new
  <2> QED
    BY <1>3, <1>7, <2>1, <2>2, PlainStepKeeps
<1>8. CASE me.pc = "attempt" /\ Become(s, lost)
           /\ UNCHANGED ledgerVars /\ UNCHANGED acting
  <2>1. /\ lost.pc = "lost" /\ lost.token = me.token /\ lost.kind = me.kind
        /\ lost.attempt = me.attempt /\ lost.proven = me.proven
    BY <1>4 DEF SessionState
  <2> HIDE DEF lost
  <2>2. \A a : Answers(me, a) => Answers(lost, a)
    BY <1>8, <2>1 DEF Answers
  <2>3. Unclaimed(lost) /\ Informed(lost)
    BY <1>1, <2>1 DEF Unclaimed, Informed
  <2>4. Holds(s) => \A a \in acting' : Covered(a) \/ Answers(lost, a)
    BY <1>8, <2>2 DEF ExecutorInv
  <2> QED
    BY <1>3, <1>8, <2>1, <2>3, <2>4, OwnStepKeeps
<1> QED
  BY <1>1, <1>5, <1>6, <1>7, <1>8 DEF Renew, kept, rest, lost

(* The settlement names the executor of the attempt, unless it ended.      *)
LEMMA LearnedNames ==
  ASSUME TypeInv, NEW s \in Session, NEW ended \in BOOLEAN,
         ses[s].pc \in {"attempt", "lost"},
         NEW a \in Learned(s, ended).acting, Answers(ses[s], a)
  PROVE  \E i \in DOMAIN Learned(s, ended).owed : Covers(Learned(s, ended).owed[i], a)
PROOF
<1> DEFINE me == ses[s]
           mine == [fence |-> me.token, attempt |-> me.attempt]
           owed == Learned(s, ended).owed
<1>1. me.kind = "activity" /\ a = mine
  BY DEF Answers
<1>2. owed = Append(me.owed, mine)
  BY <1>1 DEF Learned
<1>3. Len(owed) \in DOMAIN owed /\ owed[Len(owed)] = mine
  BY <1>2, SessionTyped, LenProperties
<1> HIDE DEF owed
<1>4. \E i \in DOMAIN owed : Covers(owed[i], a)
  BY <1>1, <1>3 DEF Covers
<1> QED
  BY <1>4 DEF owed

(* A settled attempt's executor ended, or its obligation is committed. *)
LEMMA SettleActivityKeeps ==
  ASSUME TypeInv, FenceInv, ExecutorInv, NEW s \in Session, SettleActivity(s)
  PROVE  FenceInv' /\ ExecutorInv'
PROOF
<1> DEFINE me == ses[s]
           own == Append(me.buffer, Settled(me.attempt))
           run == [Unwound(Wrote(s, Len(own))) EXCEPT !.pc = "run"]
<1>1. /\ me \in SessionState /\ me.pc = "attempt" /\ me.owed \in Seq(NewObligation)
      /\ me.pc \in Active /\ me.kind = "activity" /\ me.token \in Nat
      /\ me.attempt \in Nat
  BY SessionTyped DEF SettleActivity, Active
<1>2. Len(own) \in Nat
  <2>1. own \in Seq(Event)
    BY <1>1, SessionTyped, EventTyped, AppendProperties
  <2> HIDE DEF own
  <2> QED
    BY <2>1, LenProperties
<1>3. PICK ended \in BOOLEAN :
        /\ acting' = Learned(s, ended).acting
        /\ \/ /\ Leave(s, "refused")
              /\ UNCHANGED ledgerVars
           \/ /\ Writable(s)
              /\ WriteHold(s, me.token, own, {}, Learned(s, ended).owed)
              /\ Become(s, run)
           \/ /\ Become(s, [Conclude(me, "limited") EXCEPT !.buffer = own,
                              !.owed = Learned(s, ended).owed])
              /\ UNCHANGED ledgerVars
  BY DEF SettleActivity
<1> DEFINE owed == Learned(s, ended).owed
<1>4. acting' \subseteq acting
  BY <1>3 DEF Learned
<1>5. owed \in Seq(NewObligation)
  <2>1. [fence |-> me.token, attempt |-> me.attempt] \in NewObligation
    BY <1>1 DEF NewObligation
  <2> QED
    BY <1>1, <2>1, AppendProperties DEF Learned
<1>6. \A a \in acting' : Answers(me, a) => \E i \in DOMAIN owed : Covers(owed[i], a)
  BY <1>1, <1>3, LearnedNames
<1> HIDE DEF own, owed
<1>7. CASE Leave(s, "refused") /\ UNCHANGED ledgerVars
  BY <1>1, <1>4, <1>7, LeaveKeeps DEF Over
<1>8. CASE /\ Writable(s)
           /\ WriteHold(s, me.token, own, {}, owed)
           /\ Become(s, run)
  <2> DEFINE proven == {}
             new == run
  <2>1. new.token = FenceOf(me.token) /\ new.pc = "run"
    BY <1>2, WroteMemory, MemoryKept, UnwoundTyped DEF SessionState
  <2>2. WriteHold(s, me.token, own, proven, owed) /\ Become(s, new) /\ Writable(s)
    BY <1>8
  <2>3. /\ \A o \in obligations, a \in acting : o.id \in proven => ~Covers(o, a)
        /\ me.token = 0 => proven = {}
    OBVIOUS
  <2>4. new.pc \in Active \ {"checked", "unproven"} /\ new.pc # "proving"
    BY <2>1 DEF Active
  <2>5. \A a \in acting' : Answers(ses[s], a) =>
          Answers(new, a) \/ \E i \in DOMAIN owed : Covers(owed[i], a)
    BY <1>6
  <2>6. /\ WriteHold(s, ses[s].token, own, proven, owed)
        /\ new.token = FenceOf(ses[s].token) /\ ses[s].pc \in Active
        /\ ses[s].token = 0 => proven = {}
    BY <1>1, <2>1, <2>2, <2>3
  <2> HIDE DEF proven, new, run, me
  <2> QED
    BY <1>4, <1>5, <2>2, <2>3, <2>4, <2>5, <2>6, HoldKeeps
<1>9. CASE /\ Become(s, [Conclude(me, "limited") EXCEPT !.buffer = own, !.owed = owed])
           /\ UNCHANGED ledgerVars
  <2> DEFINE new == [Conclude(me, "limited") EXCEPT !.buffer = own, !.owed = owed]
  <2>1. /\ new.pc = "finish" /\ new.token = me.token /\ new.proven = {}
        /\ new.owed = owed
    BY <1>1, MemoryKept DEF Conclude, Unwound, SessionState
  <2>2. Become(s, new)
    BY <1>9
  <2> HIDE DEF new
  <2>3. Unclaimed(new) /\ Informed(new)
    BY <2>1 DEF Unclaimed, Informed
  <2>4. Holds(s) => \A a \in acting' : Covered(a) \/ Answers(new, a)
    BY <1>4, <1>6, <2>1 DEF ExecutorInv, Answers
  <2> QED
    BY <1>1, <1>4, <1>9, <2>1, <2>2, <2>3, <2>4, OwnStepKeeps
<1> QED
  BY <1>3, <1>7, <1>8, <1>9 DEF owed

(* A session that lets the run go leaves every executor named.             *)
LEMMA HandOverKeeps ==
  ASSUME TypeInv, FenceInv, ExecutorInv, NEW s \in Session, Writable(s),
         ses[s].pc \in {"parking", "finishing"}, UNCHANGED acting,
         obligations' = WithNew(Owing(ses[s].token, {}), ses[s].owed),
         fence' = FenceOf(ses[s].token), state' # "absent",
         NEW new, Become(s, new), new.pc \in Over,
         new.token \in {0, fence'}, new.proven = {}
  PROVE  FenceInv' /\ ExecutorInv'
PROOF
<1> DEFINE me == ses[s]
           proven == {}
<1>1. me.owed \in Seq(NewObligation) /\ me.pc \in Active
  BY SessionTyped DEF Active
<1>2. /\ UniqueIds(obligations')
      /\ \A a \in acting :
           \/ Covered(a)
           \/ me.token = 0
           \/ \E i \in DOMAIN me.owed : Covers(me.owed[i], a)
           => Covered(a)'
  <2>1. /\ \A o \in obligations, a \in acting : o.id \in proven => ~Covers(o, a)
        /\ me.token = 0 => proven = {}
        /\ obligations' = WithNew(Owing(me.token, proven), me.owed)
    OBVIOUS
  <2> HIDE DEF proven
  <2> QED
    BY <1>1, <2>1, ObligationsKept
<1>3. me.token # 0 => Holds(s)
  BY <1>1 DEF Holds, Writable, MayWrite
<1>4. \A a \in acting' : Covered(a)'
  BY <1>2, <1>3 DEF ExecutorInv, Answers
<1>5. Unclaimed(new) /\ new.pc \notin Active
  BY DEF Unclaimed, Over, Active
<1>6. OneExecutor'
  BY DEF ExecutorInv, OneExecutor
<1> QED
  BY <1>1, <1>2, <1>4, <1>5, <1>6, WriteKeeps

(* A park leaves every executor named (session.rs park). *)
LEMMA ParkKeeps ==
  ASSUME TypeInv, FenceInv, ExecutorInv, NEW s \in Session, Park(s)
  PROVE  FenceInv' /\ ExecutorInv'
PROOF
<1> DEFINE me == ses[s]
           parked == [Fresh EXCEPT !.pc = "suspended", !.token = FenceOf(me.token),
                                   !.seen = me.seen + Len(me.buffer)]
           again == [me EXCEPT !.pc = "run", !.seen = Len(events), !.until = None]
<1>1. me \in SessionState /\ me.pc = "parking" /\ me.pc \in Active /\ Unclaimed(me)
  BY SessionTyped DEF Park, Active, FenceInv
<1>2. UNCHANGED acting
  BY DEF Park, WriteStopped
<1>3. CASE WriteStopped(s)
  BY <1>1, <1>3, WriteStoppedKeeps
<1>4. CASE Leave(s, "limit") /\ UNCHANGED ledgerVars
  BY <1>1, <1>2, <1>4, LeaveKeeps DEF Over
<1>5. CASE /\ Writable(s) /\ Overtaken(s)
           /\ WriteRefusedPark(s, me.token) /\ Become(s, again)
  <2>1. again.pc = "run" /\ again.token = me.token /\ again.proven = me.proven
    BY <1>1 DEF SessionState
  <2>2. Become(s, again)
    BY <1>5
  <2> HIDE DEF again
  <2>3. me.token # 0
    <3>1. me.seen \in Nat /\ Len(events) \in Nat
      BY SessionTyped
    <3> QED
      BY <1>5, <3>1 DEF Overtaken, Writable, MayWrite
  <2>4. /\ fence' = fence /\ fence' = FenceOf(me.token) /\ me.token = fence
        /\ holder' = s /\ state' = "open" /\ obligations' = obligations
        /\ holder' # None
    BY <1>5, <2>3, NoneAssumption DEF WriteRefusedPark, Writable, MayWrite, FenceOf
  <2>5. Holds(s)
    BY <1>1, <2>3, <1>5 DEF Holds, Writable, MayWrite
  <2>6. \A a \in acting' : Covered(a)'
    BY <1>1, <1>2, <2>4, <2>5 DEF ExecutorInv, Covered, Answers
  <2>7. Unclaimed(again) /\ UniqueIds(obligations') /\ OneExecutor'
    BY <1>2, <2>1, <2>3, <2>4 DEF Unclaimed, ExecutorInv, UniqueIds, OneExecutor
  <2> QED
    BY <1>1, <1>5, <2>1, <2>2, <2>4, <2>6, <2>7, WriteKeeps
<1>6. CASE /\ Writable(s)
           /\ WritePark(me.token, me.buffer, me.owed, me.until)
           /\ Become(s, parked)
  <2>1. parked.pc = "suspended" /\ parked.token = FenceOf(me.token)
        /\ parked.proven = {}
    BY DEF Fresh
  <2>2. Become(s, parked)
    BY <1>6
  <2> HIDE DEF parked
  <2>3. /\ obligations' = WithNew(Owing(me.token, {}), me.owed)
        /\ fence' = FenceOf(me.token) /\ state' # "absent"
    BY <1>6 DEF WritePark, Writable, MayWrite
  <2>4. parked.pc \in Over
    BY <2>1 DEF Over
  <2> QED
    BY <1>1, <1>2, <1>6, <2>1, <2>2, <2>3, <2>4, HandOverKeeps
<1> QED
  BY <1>3, <1>4, <1>5, <1>6 DEF Park

(* The end of the run leaves every executor named (session.rs finish). *)
LEMMA FinishKeeps ==
  ASSUME TypeInv, FenceInv, ExecutorInv, NEW s \in Session, Finish(s)
  PROVE  FenceInv' /\ ExecutorInv'
PROOF
<1> DEFINE me == ses[s]
<1>1. me.pc = "finishing" /\ me.pc \in Active
  BY DEF Finish, Active
<1>2. UNCHANGED acting
  BY DEF Finish, WriteStopped
<1>3. CASE WriteStopped(s)
  BY <1>1, <1>3, WriteStoppedKeeps
<1>4. CASE Leave(s, "limit") /\ UNCHANGED ledgerVars
  BY <1>1, <1>2, <1>4, LeaveKeeps DEF Over
<1>5. ASSUME NEW own, NEW out, Writable(s), WriteFinish(me.token, own, me.owed, out),
             Leave(s, "ended")
      PROVE  FenceInv' /\ ExecutorInv'
  <2> DEFINE new == [Fresh EXCEPT !.pc = "ended"]
  <2>1. new.pc = "ended" /\ new.token = 0 /\ new.proven = {} /\ new.pc \in Over
    BY FreshMemory DEF Over
  <2>2. Become(s, new)
    BY <1>5 DEF Leave
  <2> HIDE DEF new
  <2>3. /\ obligations' = WithNew(Owing(me.token, {}), me.owed)
        /\ fence' = FenceOf(me.token) /\ state' # "absent"
    BY <1>5 DEF WriteFinish
  <2> QED
    BY <1>1, <1>2, <1>5, <2>1, <2>2, <2>3, HandOverKeeps
<1> QED
  BY <1>3, <1>4, <1>5 DEF Finish

(* The host's transactions change neither fence nor obligations nor holder. *)
LEMMA HostKeeps ==
  ASSUME TypeInv, FenceInv, ExecutorInv, Host
  PROVE  FenceInv' /\ ExecutorInv'
PROOF
<1>1. /\ fence' = fence /\ holder' = holder /\ obligations' = obligations
      /\ ses' = ses /\ acting' = acting
  BY DEF Host, Create, Resolve, Cancel, Acknowledge, Wake
<1>2. state' # "absent" \/ state' = state
  BY DEF Host, Create, Resolve, Cancel, Acknowledge, Wake
<1>3. state' = "open" => state = "open" \/ fence = 0
  BY DEF Host, Create, Resolve, Cancel, Acknowledge, Wake, FenceInv
<1>4. \A s \in Session : Holds(s)' => Holds(s)
  BY <1>1, <1>3 DEF Holds
<1>5. FenceInv'
  BY <1>1, <1>2, <1>4 DEF FenceInv, Unclaimed
<1>6. ExecutorInv'
  BY <1>1, <1>4 DEF ExecutorInv, UniqueIds, Covered, Informed, Answers, OneExecutor
<1> QED
  BY <1>5, <1>6

(* Every step keeps every executor accounted for. *)
LEMMA ExecutorStep ==
  ASSUME TypeInv, FenceInv, ExecutorInv, [Next]_vars
  PROVE  FenceInv' /\ ExecutorInv'
PROOF
<1>1. ASSUME NEW s \in Session, SessionStep(s)
      PROVE  FenceInv' /\ ExecutorInv'
  BY <1>1, DefinitionKeeps, DispatchKeeps, ProveKeeps, HoldUnprovenKeeps,
     AttemptKeeps, RenewKeeps, SettleActivityKeeps, ReleaseKeeps, ParkKeeps,
     FinishKeeps DEF SessionStep
<1>2. ASSUME UNCHANGED <<ledgerVars, ses>>, acting' \subseteq acting
      PROVE  FenceInv' /\ ExecutorInv'
  <2>1. FenceInv'
    BY <1>2 DEF FenceInv, Unclaimed, Holds, ledgerVars
  <2>2. ExecutorInv'
    BY <1>2 DEF ExecutorInv, UniqueIds, Covered, Informed, Answers, OneExecutor,
                Holds, ledgerVars
  <2> QED
    BY <2>1, <2>2
<1> QED
  BY <1>1, <1>2, HostKeeps DEF Next, vars, ExecutorEnds, Clock, Tick

(* No executor acts before the run is submitted. *)
LEMMA ExecutorInit ==
  ASSUME Init
  PROVE  FenceInv /\ ExecutorInv
PROOF
<1>1. \A s \in Session : ses[s].token = 0 /\ ses[s].proven = {} /\ ses[s].pc = "idle"
  BY FreshMemory DEF Init
<1>2. FenceInv
  BY <1>1 DEF Init, LedgerInit, FenceInv, Unclaimed, Holds
<1>3. ExecutorInv
  BY <1>1 DEF Init, LedgerInit, ExecutorInv, UniqueIds, Holds, OneExecutor
<1> QED
  BY <1>2, <1>3

(* Whatever crashes, expires or takes over, at most one activity executor  *)
(* of the run may act, whatever the number of sessions and the length of   *)
(* the lease: the fence and the obligations alone guarantee it             *)
(* (session.rs dispatch, write.rs apply and claim).                        *)
THEOREM OneExecutorActs == Spec => []OneExecutor
PROOF
<1>1. Init => TypeInv /\ FenceInv /\ ExecutorInv
  BY InitInv, ExecutorInit
<1>2. TypeInv /\ FenceInv /\ ExecutorInv /\ [Next]_vars
      => (TypeInv /\ FenceInv /\ ExecutorInv)'
  BY TypeStep, ExecutorStep
<1>3. ExecutorInv => OneExecutor
  BY DEF ExecutorInv
<1> QED
  BY <1>1, <1>2, <1>3, PTL DEF Spec

(* A run nobody holds names every executor that may still act, so the next *)
(* session to claim it has it to prove (ctx.rs settle_activity, session.rs *)
(* release, write.rs claim).                                               *)
THEOREM ExecutorsAccounted == Spec => []Accounted
PROOF
<1>1. Init => TypeInv /\ FenceInv /\ ExecutorInv
  BY InitInv, ExecutorInit
<1>2. TypeInv /\ FenceInv /\ ExecutorInv /\ [Next]_vars
      => (TypeInv /\ FenceInv /\ ExecutorInv)'
  BY TypeStep, ExecutorStep
<1>3. ExecutorInv => Accounted
  BY DEF ExecutorInv, Accounted, Covered
<1> QED
  BY <1>1, <1>2, <1>3, PTL DEF Spec

=============================================================================
