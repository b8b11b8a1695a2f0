--------------------------- MODULE DeletionProofs ---------------------------
(***************************************************************************)
(* Theorems about Deletion: what a deletion proved before its transaction  *)
(* still holds in it, whatever the sessions of the run did in between.     *)
(***************************************************************************)
EXTENDS Deletion, DriveProofs

-----------------------------------------------------------------------------
(* How a run moves under a deletion *)

(* No fence is given back, a lease is taken only with a new fence, and an  *)
(* executor only starts in a write that makes the history longer.          *)
Moves ==
  /\ fence' \in Nat /\ fence' >= fence
  /\ fence' = fence /\ holder' # None => holder # None
  /\ \/ /\ state' = state
        /\ acting' \subseteq acting
        /\ Len(events') >= Len(events)
        /\ state # "open" => events' = events
     \/ /\ state = "open" /\ state' \in {"open", "closed"}
        /\ Len(events') > Len(events)
     \/ /\ state = "closed" /\ state' = "acknowledged"
        /\ events' = <<>> /\ acting' = acting
     \/ /\ state = "absent" /\ state' = "open"
        /\ Len(events') = 1 /\ acting' = acting

(* A step that does not touch the row. *)
LEMMA RowUntouched ==
  ASSUME TypeInv, UNCHANGED ledgerVars, acting' \subseteq acting
  PROVE  Moves
PROOF
<1>1. fence \in Nat /\ Len(events) \in Nat
  BY LenProperties DEF TypeInv, RowOK, LedgerTypeOK
<1> QED
  BY <1>1 DEF Moves, ledgerVars

(* The fence and the lease after a write: the writer held the run, or its  *)
(* claim raised the fence (write.rs claim).                                *)
LEMMA WriterTakes ==
  ASSUME TypeInv, FenceInv, NEW s \in Session, Writable(s), ses[s].pc \in Active,
         fence' = FenceOf(ses[s].token)
  PROVE  /\ fence' \in Nat /\ fence' >= fence
         /\ fence' = fence => holder # None
         /\ state = "open"
PROOF
<1>1. fence \in Nat /\ ses[s].token \in Nat
  BY SessionTyped
<1>2. CASE ses[s].token = 0
  BY <1>1, <1>2 DEF FenceOf, Writable, MayWrite
<1>3. CASE ses[s].token # 0
  <2>1. Holds(s)
    BY <1>3 DEF Holds, Writable, MayWrite
  <2> QED
    BY <1>1, <1>3, <2>1, NoneAssumption DEF FenceOf, FenceInv, Writable, MayWrite
<1> QED
  BY <1>2, <1>3

(* A write of a holder that keeps the run moves it so. *)
LEMMA HoldMoves ==
  ASSUME TypeInv, FenceInv, NEW s \in Session, Writable(s), ses[s].pc \in Active,
         NEW own \in Seq(Event), NEW proven, NEW new,
         WriteHold(s, ses[s].token, own, proven, new),
         acting' \subseteq acting \/ Len(own) > 0
  PROVE  Moves
PROOF
<1>1. /\ fence' \in Nat /\ fence' >= fence /\ state = "open"
      /\ fence' = fence => holder # None
  BY WriterTakes DEF WriteHold
<1>2. events \in Seq(Event) /\ Len(events) \in Nat /\ Len(own) \in Nat
  BY LenProperties DEF TypeInv, RowOK, LedgerTypeOK
<1>3. Len(events') = Len(events) + Len(own)
  BY <1>2, ConcatProperties DEF WriteHold
<1>4. state' = state
  BY DEF WriteHold
<1>5. Len(events') >= Len(events) /\ (Len(own) > 0 => Len(events') > Len(events))
  BY <1>2, <1>3
<1> QED
  BY <1>1, <1>4, <1>5 DEF Moves

(* A dispatch lengthens the history, or starts no executor. *)
LEMMA DispatchMoves ==
  ASSUME TypeInv, FenceInv, NEW s \in Session, Dispatch(s)
  PROVE  Moves
PROOF
<1> DEFINE me == ses[s]
           own == Append(me.buffer, Dispatched(FenceOf(me.token), me.kind))
<1>1. /\ me.buffer \in Seq(Event) /\ me.pc \in Active /\ me.kind \in StepKind
      /\ FenceOf(me.token) \in Nat /\ Len(me.buffer) \in Nat
  BY SessionTyped, FenceTyped, LenProperties DEF Dispatch, Active, TypeInv
<1>2. own \in Seq(Event) /\ Len(own) > 0
  <2> DEFINE e == Dispatched(FenceOf(me.token), me.kind)
             q == me.buffer
  <2>1. e \in Event /\ q \in Seq(Event) /\ Len(q) \in Nat
    BY <1>1, EventTyped
  <2> HIDE DEF e, q
  <2>2. Append(q, e) \in Seq(Event) /\ Len(Append(q, e)) = Len(q) + 1
    BY <2>1, AppendProperties
  <2> QED
    BY <2>1, <2>2 DEF e, q
<1> HIDE DEF own
<1>3. CASE UNCHANGED <<ledgerVars, acting>>
  BY <1>3, RowUntouched
<1>4. ASSUME Writable(s), WriteHold(s, me.token, own, me.proven, me.owed)
      PROVE  Moves
  BY <1>1, <1>2, <1>4, HoldMoves
<1>5. ASSUME Writable(s), WriteHold(s, me.token, me.buffer, me.proven, me.owed),
             acting' = acting
      PROVE  Moves
  BY <1>1, <1>5, HoldMoves
<1> QED
  BY <1>3, <1>4, <1>5
  DEF Dispatch, WriteStopped, DispatchAllowed, DispatchHeld, LimitReached, own

(* The other writes that keep the run start no executor. *)
LEMMA KeepingMoves ==
  ASSUME TypeInv, FenceInv, NEW s \in Session,
         HoldUnproven(s) \/ Renew(s) \/ SettleActivity(s)
  PROVE  Moves
PROOF
<1> DEFINE me == ses[s]
<1>1. /\ me.buffer \in Seq(Event) /\ me.attempt \in Nat
      /\ me.pc \in {"unproven", "run", "attempt"}
  BY SessionTyped DEF HoldUnproven, Renew, SettleActivity
<1>2. me.pc \in Active
  BY <1>1 DEF Active
<1>3. CASE UNCHANGED ledgerVars /\ acting' \subseteq acting
  BY <1>3, RowUntouched
<1>4. CASE HoldUnproven(s)
  <2>1. ASSUME Writable(s), WriteHold(s, me.token, me.buffer, me.proven, me.owed),
               acting' = acting
        PROVE  Moves
    BY <1>1, <1>2, <2>1, HoldMoves
  <2> QED
    BY <1>3, <1>4, <2>1 DEF HoldUnproven, WriteStopped, LimitReached
<1>5. CASE Renew(s)
  <2> DEFINE kept == IF Fits(Len(me.buffer), 0) THEN me.buffer
                     ELSE WithoutBeats(me.buffer)
             none == {}
  <2>1. kept \in Seq(Event)
    BY <1>1, WithoutBeatsTyped
  <2>2. acting' = acting
    BY <1>5 DEF Renew, WriteStopped
  <2> HIDE DEF kept, none
  <2>3. ASSUME Writable(s), WriteHold(s, me.token, kept, none, me.owed)
        PROVE  Moves
    BY <1>2, <2>1, <2>2, <2>3, HoldMoves
  <2> QED
    BY <1>3, <1>5, <2>2, <2>3 DEF Renew, WriteStopped, kept, none
<1>6. CASE SettleActivity(s)
  <2> DEFINE own == Append(me.buffer, Settled(me.attempt))
             none == {}
  <2>1. own \in Seq(Event)
    BY <1>1, EventTyped, AppendProperties
  <2> HIDE DEF own, none
  <2>2. PICK ended \in BOOLEAN :
          /\ acting' = Learned(s, ended).acting
          /\ \/ UNCHANGED ledgerVars
             \/ /\ Writable(s)
                /\ WriteHold(s, me.token, own, none, Learned(s, ended).owed)
    BY <1>6 DEF SettleActivity, own, none
  <2>3. acting' \subseteq acting
    BY <2>2 DEF Learned
  <2>4. ASSUME NEW owed, Writable(s), WriteHold(s, me.token, own, none, owed)
        PROVE  Moves
    BY <1>2, <2>1, <2>3, <2>4, HoldMoves
  <2> QED
    BY <1>3, <2>2, <2>3, <2>4
<1> QED
  BY <1>4, <1>5, <1>6

(* A park and an end start no executor, and leave the run unheld. *)
LEMMA LeavingMoves ==
  ASSUME TypeInv, FenceInv, NEW s \in Session, Park(s) \/ Finish(s)
  PROVE  Moves
PROOF
<1> DEFINE me == ses[s]
           whole == Fits(Len(me.buffer) + 1, TerminalHeadroom)
           own == IF whole THEN me.buffer ELSE <<>>
           out == IF whole THEN me.target ELSE "limited"
<1>1. /\ me.buffer \in Seq(Event) /\ me.pc \in Active /\ me.target \in Outcome
      /\ events \in Seq(Event) /\ Len(events) \in Nat /\ Len(me.buffer) \in Nat
  BY SessionTyped, LenProperties
  DEF Park, Finish, Active, TypeInv, RowOK, LedgerTypeOK
<1>2. acting' = acting
  BY DEF Park, Finish, WriteStopped
<1>3. CASE UNCHANGED ledgerVars
  BY <1>2, <1>3, RowUntouched
<1>4. ASSUME Writable(s), fence' = FenceOf(me.token)
      PROVE  /\ fence' \in Nat /\ fence' >= fence /\ state = "open"
             /\ fence' = fence => holder # None
  BY <1>1, <1>4, WriterTakes
<1>5. CASE Writable(s) /\ WriteRefusedPark(s, me.token)
  <2>1. /\ fence' = FenceOf(me.token) /\ state' = state /\ events' = events
    BY <1>5 DEF WriteRefusedPark
  <2> QED
    BY <1>1, <1>2, <1>4, <1>5, <2>1 DEF Moves
<1>6. CASE Writable(s) /\ WritePark(me.token, me.buffer, me.owed, me.until)
  <2>1. /\ fence' = FenceOf(me.token) /\ state' = state /\ holder' = None
        /\ events' = events \o me.buffer
    BY <1>6 DEF WritePark
  <2>2. Len(events') >= Len(events)
    <3>1. Len(events') = Len(events) + Len(me.buffer)
      BY <1>1, <2>1, ConcatProperties
    <3> QED
      BY <1>1, <3>1
  <2> QED
    BY <1>2, <1>4, <1>6, <2>1, <2>2 DEF Moves
<1>7. CASE Writable(s) /\ WriteFinish(me.token, own, me.owed, out)
  <2>1. /\ own \in Seq(Event) /\ out \in Outcome /\ Len(own) \in Nat
    <3>1. own \in Seq(Event) /\ out \in Outcome
      BY <1>1 DEF Outcome
    <3> HIDE DEF own
    <3> QED
      BY <3>1, LenProperties
  <2> HIDE DEF own, out
  <2>2. /\ fence' = FenceOf(me.token) /\ state' = "closed" /\ holder' = None
        /\ events' = Append(events \o own, Completed(Ending(out)))
    BY <1>7 DEF WriteFinish
  <2>3. Len(events') > Len(events)
    <3> DEFINE F == events \o own
    <3>1. F \in Seq(Event) /\ Len(F) = Len(events) + Len(own)
      BY <1>1, <2>1, ConcatProperties
    <3>2. Completed(Ending(out)) \in Event
      BY <2>1 DEF Ending, Completed, Event, Outcome
    <3>3. events' = Append(F, Completed(Ending(out)))
      BY <2>2
    <3> HIDE DEF F
    <3>4. Len(events') = Len(F) + 1
      BY <3>1, <3>2, <3>3, AppendProperties
    <3> QED
      BY <1>1, <2>1, <3>1, <3>4
  <2> QED
    BY <1>4, <1>7, <2>2, <2>3 DEF Moves
<1> QED
  BY <1>3, <1>5, <1>6, <1>7 DEF Park, Finish, WriteStopped, own, out, whole

(* The host gives no fence and takes no lease. *)
LEMMA HostMoves ==
  ASSUME TypeInv, Host
  PROVE  Moves
PROOF
<1>1. /\ fence' = fence /\ holder' = holder /\ acting' = acting /\ fence \in Nat
      /\ events \in Seq(Event) /\ Len(events) \in Nat
  BY LenProperties DEF Host, Create, Resolve, Cancel, Acknowledge, Wake, TypeInv,
                       RowOK, LedgerTypeOK
<1>2. CASE Create
  BY <1>1, <1>2 DEF Create, Moves
<1>3. ASSUME NEW e \in Event, events' = Append(events, e), state = "open",
             state' = "open"
      PROVE  Moves
  <2>1. Len(events') = Len(events) + 1
    BY <1>1, <1>3, AppendProperties
  <2> QED
    BY <1>1, <1>3, <2>1 DEF Moves
<1>4. ASSUME NEW d \in Deferred, NEW r \in Result, Resolve(d, r)
      PROVE  Moves
  <2>1. Resolved(d, r) \in Event
    BY DEF Resolved, Event
  <2> QED
    BY <1>3, <1>4, <2>1 DEF Resolve
<1>5. CASE Cancel
  <2>1. CancelRequested \in Event
    BY DEF CancelRequested, Event
  <2> QED
    BY <1>3, <1>5, <2>1 DEF Cancel
<1>6. CASE Acknowledge
  BY <1>1, <1>6 DEF Acknowledge, Moves
<1>7. CASE Wake
  BY <1>1, <1>7 DEF Wake, Moves
<1> QED
  BY <1>2, <1>4, <1>5, <1>6, <1>7 DEF Host

(* Every step of Drive moves the run so. *)
LEMMA StepMoves ==
  ASSUME TypeInv, FenceInv, [Next]_vars
  PROVE  Moves
PROOF
<1>1. ASSUME NEW s \in Session, SessionStep(s)
      PROVE  Moves
  <2>1. CASE \/ Load(s) \/ Observe(s) \/ Interrupted(s) \/ Record(s) \/ Refuse(s)
             \/ Attempt(s) \/ Suspend(s) \/ Return(s) \/ Prove(s) \/ Beat(s)
             \/ SettleModel(s) \/ GiveUp(s) \/ Release(s) \/ Crash(s)
    <3>1. UNCHANGED ledgerVars /\ acting' \subseteq acting
      BY <2>1 DEF Load, Observe, Interrupted, Record, Refuse, Attempt, Suspend,
                  Return, Prove, Beat, SettleModel, GiveUp, Learned, Release, Crash
    <3> QED
      BY <3>1, RowUntouched
  <2> QED
    BY <1>1, <2>1, DispatchMoves, KeepingMoves, LeavingMoves DEF SessionStep
<1>2. CASE ExecutorEnds \/ Clock \/ UNCHANGED vars
  <2>1. UNCHANGED ledgerVars /\ acting' \subseteq acting
    BY <1>2 DEF ExecutorEnds, Clock, Tick, vars
  <2> QED
    BY <2>1, RowUntouched
<1> QED
  BY <1>1, <1>2, HostMoves DEF Next

-----------------------------------------------------------------------------
(* What a deletion read still says of the run *)

(* An open or ended run has a history; any other has none. *)
Written == state \in {"open", "closed"} <=> Len(events) > 0

(* As long as the history has the length that was read, every executor     *)
(* that may act is one the deletion asks the host about; as long as the    *)
(* fence is the one that was read, so is the session that holds the run.   *)
InProgress ==
  del.pc # "none" =>
    /\ del.seq \in Nat /\ del.fence \in Nat
    /\ state \in {"open", "closed", "acknowledged"}
    /\ state # "acknowledged" => del.seq > 0 /\ Len(events) >= del.seq
    /\ Len(events) = del.seq => \A a \in acting :
         del.pc = "read" /\ \E o \in del.left : Covers(o, a)
    /\ fence >= del.fence
    /\ fence = del.fence /\ holder # None =>
         \E o \in del.left : o.fence = fence /\ o.attempt = 0

(* A deleted run owes and holds nothing, so what DriveProofs shows of the  *)
(* fence and of the executors is about runs that are not deleted.          *)
DeletionInv ==
  /\ TypeInv
  /\ state # "deleted" => FenceInv /\ ExecutorInv
  /\ Written
  /\ InProgress

(* A deleted run stays deleted, and nothing is written to it. *)
LEMMA DeletedStays ==
  ASSUME TypeInv, state = "deleted", [Next]_vars
  PROVE  state' = state /\ events' = events
PROOF
<1>1. RowStep
  BY RowMoves
<1>2. ~HostStep
  BY DEF HostStep, Create, Resolve, Cancel, Acknowledge, Wake
<1> QED
  BY <1>1, <1>2 DEF RowStep, HoldStep, LeaveStep, ledgerVars

(* The sessions, the host and the executors keep what a deletion read. *)
LEMMA DriveKeepsDeletion ==
  ASSUME DeletionInv, [Next]_vars, del' = del
  PROVE  DeletionInv' /\ ~Deleting
PROOF
<1>1. TypeInv'
  BY TypeStep DEF DeletionInv
<1>2. CASE state = "deleted"
  BY <1>1, <1>2, DeletedStays DEF DeletionInv, Written, InProgress, Deleting
<1>3. CASE state # "deleted"
  <2>1. FenceInv' /\ ExecutorInv'
    BY <1>3, ExecutorStep DEF DeletionInv
  <2>2. Moves
    BY <1>3, StepMoves DEF DeletionInv
  <2>3. /\ Len(events) \in Nat /\ Len(events') \in Nat /\ fence \in Nat
        /\ state \in {"absent", "open", "closed", "acknowledged", "deleted"}
    BY <1>1, LenProperties DEF DeletionInv, TypeInv, RowOK, LedgerTypeOK
  <2>4. events' = <<>> => Len(events') = 0
    OBVIOUS
  <2>5. Written'
    BY <2>2, <2>3, <2>4 DEF DeletionInv, Written, Moves
  <2>6. ASSUME del.pc # "none"
        PROVE  /\ state' \in {"open", "closed", "acknowledged"}
               /\ state' # "acknowledged" => del.seq > 0 /\ Len(events') >= del.seq
               /\ Len(events') = del.seq => \A a \in acting' :
                    del.pc = "read" /\ \E o \in del.left : Covers(o, a)
               /\ fence' >= del.fence
               /\ fence' = del.fence /\ holder' # None =>
                    \E o \in del.left : o.fence = fence' /\ o.attempt = 0
    <3>1. /\ del.seq \in Nat /\ del.fence \in Nat
          /\ state \in {"open", "closed", "acknowledged"}
          /\ state # "acknowledged" => del.seq > 0 /\ Len(events) >= del.seq
          /\ Len(events) = del.seq => \A a \in acting :
               del.pc = "read" /\ \E o \in del.left : Covers(o, a)
          /\ fence >= del.fence
          /\ fence = del.fence /\ holder # None =>
               \E o \in del.left : o.fence = fence /\ o.attempt = 0
      BY <2>6 DEF DeletionInv, InProgress
    <3>2. state' \in {"open", "closed", "acknowledged"}
      BY <2>2, <3>1 DEF Moves
    <3>3. state' # "acknowledged" => del.seq > 0 /\ Len(events') >= del.seq
      BY <2>2, <2>3, <3>1 DEF Moves
    <3>4. Len(events') = del.seq => Len(events) = del.seq /\ acting' \subseteq acting
      <4>1. CASE /\ state' = state /\ acting' \subseteq acting
                 /\ Len(events') >= Len(events)
                 /\ state # "open" => events' = events
        BY <2>3, <3>1, <4>1
      <4>2. CASE state = "open" /\ Len(events') > Len(events)
        BY <2>3, <3>1, <4>2
      <4>3. CASE state = "closed" /\ events' = <<>>
        BY <2>4, <3>1, <4>3
      <4> QED
        BY <2>2, <3>1, <4>1, <4>2, <4>3 DEF Moves
    <3>5. fence' >= del.fence
          /\ (fence' = del.fence => fence' = fence)
      BY <2>2, <2>3, <3>1 DEF Moves
    <3>6. fence' = del.fence /\ holder' # None =>
            \E o \in del.left : o.fence = fence' /\ o.attempt = 0
      BY <2>2, <3>1, <3>5 DEF Moves
    <3> QED
      BY <3>1, <3>2, <3>3, <3>4, <3>5, <3>6
  <2>7. InProgress'
    BY <2>6 DEF DeletionInv, InProgress
  <2>8. ~Deleting
    BY <2>2 DEF Deleting, Moves
  <2> QED
    BY <1>1, <2>1, <2>5, <2>7, <2>8 DEF DeletionInv
<1> QED
  BY <1>2, <1>3

(* What is read is true of the run when it is read. *)
LEMMA ReadKeepsDeletion ==
  ASSUME DeletionInv, DeleteRead
  PROVE  DeletionInv' /\ ~Deleting
PROOF
<1>1. /\ state' = state /\ events' = events /\ fence' = fence /\ holder' = holder
      /\ acting' = acting /\ obligations' = obligations /\ ses' = ses
      /\ UNCHANGED ledgerVars /\ now' = now
  BY DEF DeleteRead, vars, ledgerVars
<1>2. TypeInv'
  BY <1>1 DEF DeletionInv, TypeInv, RowOK, LedgerTypeOK, Bounded, ledgerVars
<1>3. FenceInv' /\ ExecutorInv'
  BY <1>1 DEF DeleteRead, DeletionInv, FenceInv, ExecutorInv, Unclaimed, Holds,
              UniqueIds, Covered, Informed, Answers, OneExecutor
<1>4. Written'
  BY <1>1 DEF DeletionInv, Written
<1>5. /\ del'.pc = "read" /\ del'.fence = fence /\ del'.seq = Len(events)
      /\ del'.left = DeletionOwes
  BY DEF DeleteRead
<1>6. fence \in Nat /\ Len(events) \in Nat
      /\ state \in {"open", "closed", "acknowledged"}
  BY LenProperties DEF DeletionInv, TypeInv, RowOK, LedgerTypeOK, DeleteRead
<1>7. ASSUME holder # None
      PROVE  [id |-> 0, fence |-> fence, attempt |-> 0] \in DeletionOwes
  BY <1>7 DEF DeletionOwes
<1>8. ASSUME NEW a \in acting
      PROVE  \E o \in DeletionOwes : Covers(o, a)
  <2>1. Covered(a) \/ (holder # None /\ a.fence = fence)
    BY DEF DeleteRead, DeletionInv, ExecutorInv
  <2>2. CASE Covered(a)
    BY <2>2 DEF Covered, DeletionOwes
  <2>3. CASE holder # None /\ a.fence = fence
    BY <1>7, <2>3 DEF Covers
  <2> QED
    BY <2>1, <2>2, <2>3
<1>9. InProgress'
  BY <1>1, <1>5, <1>6, <1>7, <1>8 DEF InProgress, DeletionInv, Written
<1> QED
  BY <1>1, <1>2, <1>3, <1>4, <1>9 DEF DeletionInv, Deleting

(* The host says Ended only of an executor that ended: nothing of what was *)
(* asked about acts once all of it is proven.                              *)
LEMMA ProveKeepsDeletion ==
  ASSUME DeletionInv, DeleteProve
  PROVE  DeletionInv' /\ ~Deleting
PROOF
<1>1. /\ state' = state /\ events' = events /\ fence' = fence /\ holder' = holder
      /\ acting' = acting /\ obligations' = obligations /\ ses' = ses
      /\ UNCHANGED ledgerVars /\ now' = now /\ del.pc = "read"
  BY DEF DeleteProve, vars, ledgerVars
<1>2. TypeInv'
  BY <1>1 DEF DeletionInv, TypeInv, RowOK, LedgerTypeOK, Bounded, ledgerVars
<1>3. state # "deleted"
  BY <1>1 DEF DeletionInv, InProgress
<1>4. FenceInv' /\ ExecutorInv'
  BY <1>1, <1>3 DEF DeletionInv, FenceInv, ExecutorInv, Unclaimed, Holds,
                    UniqueIds, Covered, Informed, Answers, OneExecutor
<1>5. Written'
  BY <1>1 DEF DeletionInv, Written
<1>6. InProgress'
  <2>1. CASE del' = NoDeletion
    BY <2>1 DEF InProgress, NoDeletion
  <2>2. CASE Provable(del.left) = del.left /\ del' = [del EXCEPT !.pc = "proved"]
    <3>1. del' = [del EXCEPT !.pc = "proved"]
      BY <2>2
    <3>2. /\ del'.fence = del.fence /\ del'.seq = del.seq /\ del'.left = del.left
      BY <3>1
    <3>3. \A o \in del.left, a \in acting : ~Covers(o, a)
      BY <2>2 DEF Provable
    <3> QED
      BY <1>1, <3>2, <3>3 DEF DeletionInv, InProgress
  <2> QED
    BY <2>1, <2>2 DEF DeleteProve
<1> QED
  BY <1>1, <1>2, <1>4, <1>5, <1>6 DEF DeletionInv, Deleting

(* The transaction finds the fence and the history it compares with: what  *)
(* the host proved is still true.                                          *)
LEMMA CommitKeepsDeletion ==
  ASSUME DeletionInv, DeleteCommit
  PROVE  /\ DeletionInv'
         /\ Deleting /\ Len(events) = del.seq => acting = {}
         /\ Deleting => /\ LeaseFree
                        /\ holder # None => \E o \in del.left :
                             o.fence = fence /\ o.attempt = 0
PROOF
<1>1. /\ del.pc = "proved" /\ del' = NoDeletion /\ ses' = ses /\ acting' = acting
      /\ now' = now
  BY DEF DeleteCommit
<1>2. InProgress'
  BY <1>1 DEF InProgress, NoDeletion
<1>3. CASE UNCHANGED ledgerVars
  <2>1. /\ state' = state /\ events' = events /\ fence' = fence /\ holder' = holder
        /\ obligations' = obligations
    BY <1>3 DEF ledgerVars
  <2>2. TypeInv'
    BY <1>1, <1>3 DEF DeletionInv, TypeInv, RowOK, LedgerTypeOK, Bounded, ledgerVars
  <2>3. state # "deleted" => FenceInv' /\ ExecutorInv'
    BY <1>1, <2>1 DEF DeletionInv, FenceInv, ExecutorInv, Unclaimed, Holds,
                      UniqueIds, Covered, Informed, Answers, OneExecutor
  <2>4. Written'
    BY <2>1 DEF DeletionInv, Written
  <2> QED
    BY <1>2, <2>1, <2>2, <2>3, <2>4 DEF DeletionInv, Deleting
<1>4. CASE DeleteAllowed(del.fence, Ids(del.left)) /\ DeleteRow
  <2>1. TypeInv'
    <3>1. <<>> \in Seq(Event)
      OBVIOUS
    <3>2. [d \in Deferred |-> "absent"] \in [Deferred -> {"absent", "open"} \cup Result]
      OBVIOUS
    <3>3. Bounded({})
      BY DEF Bounded, Ids
    <3>4. /\ state' = "deleted" /\ events' = <<>> /\ obligations' = {}
          /\ deferred' = [d \in Deferred |-> "absent"]
          /\ outcome' = None /\ holder' = None /\ expires' = 0 /\ wake' = None
          /\ fence' = fence /\ cancel' = cancel
      BY <1>4 DEF DeleteRow
    <3> QED
      BY <1>1, <3>1, <3>2, <3>3, <3>4 DEF DeletionInv, TypeInv, RowOK, LedgerTypeOK
  <2>2. state' = "deleted" /\ Written'
    BY <1>4 DEF DeleteRow, Written
  <2>3. fence = del.fence /\ LeaseFree
    BY <1>4 DEF DeleteAllowed
  <2>4. /\ Len(events) = del.seq => acting = {}
        /\ holder # None => \E o \in del.left : o.fence = fence /\ o.attempt = 0
    BY <1>1, <2>3 DEF DeletionInv, InProgress
  <2> QED
    BY <1>2, <2>1, <2>2, <2>3, <2>4 DEF DeletionInv
<1> QED
  BY <1>3, <1>4 DEF DeleteCommit

(* Every step keeps what a deletion read, and a step that deletes the run  *)
(* finds it as the host proved it.                                         *)
LEMMA DeletionStep ==
  ASSUME DeletionInv, [DeletionNext]_dvars
  PROVE  /\ DeletionInv'
         /\ Deleting /\ Len(events) = del.seq => acting = {}
         /\ Deleting => /\ LeaseFree
                        /\ holder # None => \E o \in del.left :
                             o.fence = fence /\ o.attempt = 0
PROOF
<1>1. CASE [Next]_vars /\ del' = del
  BY <1>1, DriveKeepsDeletion
<1>2. CASE DeleteRead
  BY <1>2, ReadKeepsDeletion
<1>3. CASE DeleteProve
  BY <1>3, ProveKeepsDeletion
<1>4. CASE DeleteCommit
  BY <1>4, CommitKeepsDeletion
<1> QED
  BY <1>1, <1>2, <1>3, <1>4 DEF DeletionNext, dvars

LEMMA DeletionInvInit ==
  ASSUME DeletionInit
  PROVE  DeletionInv
PROOF
<1>1. TypeInv /\ FenceInv /\ ExecutorInv
  BY InitInv, ExecutorInit DEF DeletionInit
<1>2. state = "absent" /\ Len(events) = 0
  BY DEF DeletionInit, Init, LedgerInit
<1>3. InProgress
  BY DEF DeletionInit, NoDeletion, InProgress
<1> QED
  BY <1>1, <1>2, <1>3 DEF DeletionInv, Written

(* A run that no session wrote to between the proofs and the deletion has  *)
(* no executor left when it is deleted, for every number of sessions that  *)
(* crash, park and take over meanwhile (worker.rs delete_run).             *)
THEOREM DeletionLeavesNone == DeletionSpec => DeletedQuiet
PROOF
<1>1. DeletionInit => DeletionInv
  BY DeletionInvInit
<1>2. DeletionInv /\ [DeletionNext]_dvars
      => DeletionInv' /\ [Deleting /\ Len(events) = del.seq => acting = {}]_dvars
  BY DeletionStep
<1> QED
  BY <1>1, <1>2, PTL DEF DeletionSpec, DeletedQuiet

(* No lease is live when a run is deleted, and the session that may still  *)
(* hold an expired one is one the host proved ended: a claim since the     *)
(* proofs raised the fence (store/host.rs delete_proven, write.rs claim).  *)
THEOREM DeletionFindsNoHolder == DeletionSpec => DeletedUnheld
PROOF
<1>1. DeletionInit => DeletionInv
  BY DeletionInvInit
<1>2. DeletionInv /\ [DeletionNext]_dvars
      => /\ DeletionInv'
         /\ [Deleting => LeaseFree /\ (holder # None => \E o \in del.left :
                o.fence = fence /\ o.attempt = 0)]_dvars
  BY DeletionStep
<1> QED
  BY <1>1, <1>2, PTL DEF DeletionSpec, DeletedUnheld

=============================================================================
