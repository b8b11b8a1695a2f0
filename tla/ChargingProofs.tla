--------------------------- MODULE ChargingProofs ---------------------------
(***************************************************************************)
(* Theorems about Charging, for every finite set of turns, their files,    *)
(* and every number of slots and workers.                                  *)
(***************************************************************************)
EXTENDS Charging, FiniteSetTheorems, TLAPS

Files == {0} \cup {Countable(t)[n] : t \in Turn, n \in Int}

WorkerState ==
  [pc : {"gone", "next", "slot", "held", "counting", "send"},
   file : Files, counted : Counted]

(* The charging's state has its types; what it read of the files has none. *)
Typed ==
  /\ free \in Nat
  /\ worker \in [Turn -> [Worker -> WorkerState]]
  /\ channel \in [Turn -> Seq(Files \X Counted)]
  /\ DOMAIN job = Turn
  /\ \A t \in Turn :
       /\ DOMAIN job[t] = {"pc", "next", "got", "left", "values", "result"}
       /\ job[t].pc \in {"start", "collect", "join", "done"}
       /\ job[t].next \in Nat /\ job[t].left \in BOOLEAN

(* The pairs of a turn and a worker that hold a slot. *)
Pairs == Turn \X Worker
Holders == {p \in Pairs : Holding(p[1], p[2])}

Conserved == free + Cardinality(Holders) = Slots

(* A worker runs only while its charging collects or joins. *)
Running ==
  \A t \in Turn, w \in Worker :
    worker[t][w].pc # "gone" => w \in Workers(t) /\ job[t].pc \in {"collect", "join"}

(* A cancelled count was cancelled by Team, or nobody will receive it. *)
Cancels ==
  \A t \in Turn :
    /\ job[t].left => job[t].pc = "join"
    /\ \A w \in Worker :
         worker[t][w].counted.kind = "cancelled" =>
           worker[t][w].pc = "send" /\ (t \in stopped \/ job[t].left)
    /\ \A i \in 1..Len(channel[t]) : channel[t][i][2].kind = "cancelled" => t \in stopped

(* A charging has an answer when it ended, or once Team stopped it. *)
Results ==
  \A t \in Turn :
    job[t].result \in {"unmeasured", "ceiling", "charged"} => job[t].pc = "done"

IInv == Typed /\ Conserved /\ Running /\ Cancels /\ Results /\ StopDecides

-----------------------------------------------------------------------------
(* The pairs are finitely many. *)
LEMMA FinitelyHeld == IsFiniteSet(Pairs) /\ IsFiniteSet(Holders) /\ Cardinality(Holders) \in Nat
PROOF
<1>1. IsFiniteSet(Worker)
  BY ChargingAssumption, FS_Interval DEF Worker
<1>2. IsFiniteSet(Pairs)
  BY <1>1, ChargingAssumption, FS_Product DEF Pairs
<1> QED
  BY <1>2, FS_Subset, FS_CardinalityType DEF Holders

(* The slots one worker holds. *)
Takes(state) == IF state.pc \in {"held", "counting"} THEN 1 ELSE 0

(* A worker's step changes its state, and the free slots by what it took. *)
LEMMA ConservedByOne ==
  ASSUME Typed, Conserved, NEW t \in Turn, NEW w \in Worker, NEW next \in WorkerState,
         worker' = [worker EXCEPT ![t][w] = next],
         free' = free + Takes(worker[t][w]) - Takes(next)
  PROVE  Conserved' /\ worker' \in [Turn -> [Worker -> WorkerState]]
PROOF
<1>1. worker' \in [Turn -> [Worker -> WorkerState]] /\ worker'[t][w] = next
  BY DEF Typed
<1>2. \A s \in Turn, v \in Worker : s # t \/ v # w => worker'[s][v] = worker[s][v]
  BY DEF Typed
<1>3. PICK old, new : old = Holders /\ new = Holders'
  OBVIOUS
<1>4. <<t, w>> \in Pairs
  BY DEF Pairs
<1>5. \A p \in Pairs : p # <<t, w>> => (p \in new <=> p \in old)
  <2> SUFFICES ASSUME NEW p \in Pairs, p # <<t, w>> PROVE p \in new <=> p \in old
    OBVIOUS
  <2>1. p[1] \in Turn /\ p[2] \in Worker /\ (p[1] # t \/ p[2] # w)
    BY DEF Pairs
  <2>2. worker'[p[1]][p[2]] = worker[p[1]][p[2]]
    BY <1>2, <2>1
  <2> QED
    BY <1>3, <2>2 DEF Holders, Holding
<1>6. /\ <<t, w>> \in old <=> Holding(t, w)
      /\ <<t, w>> \in new <=> next.pc \in {"held", "counting"}
  BY <1>1, <1>3, <1>4 DEF Holders, Holding
<1>7. old \subseteq Pairs /\ new \subseteq Pairs
  BY <1>3 DEF Holders, Pairs
<1>8. IsFiniteSet(old) /\ IsFiniteSet(new) /\ Cardinality(old) \in Nat
  BY <1>3, <1>7, FinitelyHeld, FS_Subset, FS_CardinalityType
<1>9. /\ new = old \cup {<<t, w>>} \/ new = old \ {<<t, w>>}
      /\ <<t, w>> \in new => new = old \cup {<<t, w>>}
      /\ <<t, w>> \notin new => new = old \ {<<t, w>>}
  BY <1>4, <1>5, <1>7
<1>10. /\ Cardinality(old \cup {<<t, w>>})
            = IF <<t, w>> \in old THEN Cardinality(old) ELSE Cardinality(old) + 1
       /\ Cardinality(old \ {<<t, w>>})
            = IF <<t, w>> \in old THEN Cardinality(old) - 1 ELSE Cardinality(old)
  BY <1>8, FS_AddElement, FS_RemoveElement
<1>11. free \in Nat /\ free + Cardinality(old) = Slots /\ Slots \in Nat
  BY <1>3, ChargingAssumption DEF Typed, Conserved
<1>12. free' + Cardinality(new) = Slots
  <2>1. /\ Takes(worker[t][w]) = IF <<t, w>> \in old THEN 1 ELSE 0
        /\ Takes(next) = IF <<t, w>> \in new THEN 1 ELSE 0
    BY <1>6 DEF Takes, Holding
  <2>2. Cardinality(new) = Cardinality(old) - Takes(worker[t][w]) + Takes(next)
    <3>1. Cardinality(new) =
            IF <<t, w>> \in new
            THEN IF <<t, w>> \in old THEN Cardinality(old) ELSE Cardinality(old) + 1
            ELSE IF <<t, w>> \in old THEN Cardinality(old) - 1 ELSE Cardinality(old)
      BY <1>9, <1>10
    <3> QED
      BY <1>8, <2>1, <3>1
  <2>3. Takes(worker[t][w]) \in Int /\ Takes(next) \in Int
    BY DEF Takes
  <2> QED
    BY <1>8, <1>11, <2>2, <2>3
<1> QED
  BY <1>1, <1>3, <1>12 DEF Conserved

-----------------------------------------------------------------------------
(* The steps of a worker *)

(* What a worker's step may do: it runs before it and may end; a cancelled *)
(* count is about to be sent and its scope stopped.                        *)
LEMMA WorkerChanges ==
  ASSUME IInv, NEW t \in Turn, NEW w \in Worker, NEW next \in WorkerState,
         worker' = [worker EXCEPT ![t][w] = next],
         worker[t][w].pc # "gone",
         next.counted.kind = "cancelled" => next.pc = "send" /\ Stopped(t),
         UNCHANGED <<stopped, late, channel>>,
         free' \in Nat, Conserved',
         DOMAIN job' = Turn,
         \A s \in Turn :
           /\ DOMAIN job'[s] = DOMAIN job[s] /\ job'[s].next \in Nat
           /\ job'[s].pc = job[s].pc /\ job'[s].left = job[s].left
           /\ job'[s].result = job[s].result
  PROVE  IInv'
PROOF
<1>1. /\ worker' \in [Turn -> [Worker -> WorkerState]] /\ worker'[t][w] = next
      /\ \A s \in Turn, v \in Worker : s # t \/ v # w => worker'[s][v] = worker[s][v]
  BY DEF IInv, Typed
<1>2. Typed'
  BY <1>1 DEF IInv, Typed
<1>3. Running'
  BY <1>1 DEF IInv, Running
<1>4. Cancels'
  BY <1>1 DEF IInv, Cancels, Stopped
<1>5. Results' /\ StopDecides'
  BY DEF IInv, Results, StopDecides
<1> QED
  BY <1>2, <1>3, <1>4, <1>5 DEF IInv

LEMMA Kinds ==
  /\ Unavailable \in Counted /\ Cancelled \in Counted
  /\ \A v \in Counts : Value(v) \in Counted
  /\ Unavailable.kind = "unavailable" /\ Cancelled.kind = "cancelled"
  /\ \A v \in Counts : Value(v).kind = "value"
  /\ Gone \in WorkerState /\ [Gone EXCEPT !.pc = "next"] \in WorkerState
PROOF BY DEF Unavailable, Cancelled, Value, Counted, Gone, WorkerState, Files

LEMMA FetchKeeps ==
  ASSUME IInv, NEW t \in Turn, NEW w \in Worker, Fetch(t, w)
  PROVE  IInv'
PROOF
<1>0. /\ worker[t][w] \in WorkerState /\ worker[t][w].pc = "next"
      /\ worker[t][w].counted.kind # "cancelled"
      /\ free \in Nat /\ DOMAIN job = Turn /\ job[t].next \in Nat
  BY DEF IInv, Typed, Cancels, Fetch
<1>1. CASE job[t].next > Len(Countable(t))
  <2> DEFINE next == [worker[t][w] EXCEPT !.pc = "gone"]
  <2>1. /\ next \in WorkerState /\ next.pc = "gone" /\ next.counted = worker[t][w].counted
        /\ worker' = [worker EXCEPT ![t][w] = next] /\ UNCHANGED <<free, stopped, late, job, channel>>
    BY <1>0, <1>1 DEF Fetch, Move, WorkerState
  <2> HIDE DEF next
  <2>2. Conserved'
    <3>1. free' = free + Takes(worker[t][w]) - Takes(next)
      BY <1>0, <2>1 DEF Takes
    <3> QED
      BY <2>1, <3>1, ConservedByOne DEF IInv
  <2> QED
    BY <1>0, <2>1, <2>2, WorkerChanges DEF IInv, Typed
<1>2. CASE ~(job[t].next > Len(Countable(t)))
  <2> DEFINE file == Countable(t)[job[t].next]
             next == [worker[t][w] EXCEPT !.pc = "slot", !.file = file]
  <2>1. file \in Files
    BY <1>0 DEF Files
  <2> HIDE DEF file
  <2>2. /\ next \in WorkerState /\ next.pc = "slot" /\ next.counted = worker[t][w].counted
    BY <1>0, <2>1 DEF WorkerState
  <2>3. /\ worker' = [worker EXCEPT ![t][w] = next]
        /\ UNCHANGED <<free, stopped, late, channel>>
        /\ job' = [job EXCEPT ![t].next = @ + 1]
    <3>1. /\ worker' = [worker EXCEPT ![t][w].pc = "slot", ![t][w].file = file]
          /\ UNCHANGED <<free, stopped, late, channel>>
          /\ job' = [job EXCEPT ![t].next = @ + 1]
      BY <1>2 DEF Fetch, file
    <3>2. worker \in [Turn -> [Worker -> WorkerState]]
      BY DEF IInv, Typed
    <3> QED
      BY <3>1, <3>2
  <2> HIDE DEF next
  <2>4. Conserved'
    <3>1. free' = free + Takes(worker[t][w]) - Takes(next)
      BY <1>0, <2>2, <2>3 DEF Takes
    <3> QED
      BY <2>2, <2>3, <3>1, ConservedByOne DEF IInv
  <2>5. DOMAIN job' = Turn /\
        \A s \in Turn :
          /\ DOMAIN job'[s] = DOMAIN job[s] /\ job'[s].next \in Nat
          /\ job'[s].pc = job[s].pc /\ job'[s].left = job[s].left
          /\ job'[s].result = job[s].result
    BY <1>0, <2>3 DEF IInv, Typed
  <2> QED
    BY <1>0, <2>2, <2>3, <2>4, <2>5, WorkerChanges
<1> QED
  BY <1>1, <1>2

(* A worker with a file, up to the end of its count. *)
LEMMA SlotKeeps ==
  ASSUME IInv, NEW t \in Turn, NEW w \in Worker,
         TakeSlot(t, w) \/ GiveUp(t, w) \/ Begin(t, w) \/ Count(t, w)
  PROVE  IInv'
PROOF
<1>0. /\ worker[t][w] \in WorkerState /\ free \in Nat
      /\ worker[t][w].pc \in {"slot", "held", "counting"}
      /\ worker[t][w].counted.kind # "cancelled"
      /\ UNCHANGED <<stopped, late, job, channel>>
  BY DEF IInv, Typed, Cancels, TakeSlot, GiveUp, Begin, Count
<1>1. ASSUME NEW pc \in {"held", "counting"}, Move(t, w, pc),
             \/ worker[t][w].pc = "slot" /\ free > 0 /\ free' = free - 1
             \/ worker[t][w].pc \in {"held", "counting"} /\ free' = free
      PROVE  IInv'
  <2> DEFINE next == [worker[t][w] EXCEPT !.pc = pc]
  <2>1. /\ next \in WorkerState /\ next.pc = pc /\ next.counted = worker[t][w].counted
        /\ worker' = [worker EXCEPT ![t][w] = next] /\ free' \in Nat
    BY <1>0, <1>1 DEF Move, WorkerState
  <2> HIDE DEF next
  <2>2. Conserved'
    <3>1. free' = free + Takes(worker[t][w]) - Takes(next)
      BY <1>0, <1>1, <2>1 DEF Takes
    <3> QED
      BY <2>1, <3>1, ConservedByOne DEF IInv
  <2> QED
    BY <1>0, <2>1, <2>2, WorkerChanges DEF IInv, Typed
<1>2. ASSUME NEW counted \in Counted, Give(t, w, counted),
             counted.kind = "cancelled" => Stopped(t),
             \/ worker[t][w].pc = "slot" /\ free' = free
             \/ worker[t][w].pc \in {"held", "counting"} /\ free' = free + 1
      PROVE  IInv'
  <2> DEFINE next == [worker[t][w] EXCEPT !.pc = "send", !.counted = counted]
  <2>1. /\ next \in WorkerState /\ next.pc = "send" /\ next.counted = counted
        /\ worker' = [worker EXCEPT ![t][w] = next] /\ free' \in Nat
    <3>1. next \in WorkerState /\ next.pc = "send" /\ next.counted = counted
      BY <1>0 DEF WorkerState
    <3>0. free' \in Nat
      BY <1>0, <1>2
    <3>2. worker' = [worker EXCEPT ![t][w].pc = "send", ![t][w].counted = counted]
      BY <1>2 DEF Give
    <3>3. worker \in [Turn -> [Worker -> WorkerState]]
      BY DEF IInv, Typed
    <3>4. worker' = [worker EXCEPT ![t][w] = next]
      BY <3>2, <3>3
    <3> QED
      BY <3>0, <3>1, <3>4
  <2> HIDE DEF next
  <2>2. Conserved'
    <3>1. free' = free + Takes(worker[t][w]) - Takes(next)
      BY <1>0, <1>2, <2>1 DEF Takes
    <3> QED
      BY <2>1, <3>1, ConservedByOne DEF IInv
  <2> QED
    BY <1>0, <1>2, <2>1, <2>2, WorkerChanges DEF IInv, Typed
<1>3. CASE TakeSlot(t, w)
  BY <1>1, <1>3 DEF TakeSlot
<1>4. CASE GiveUp(t, w)
  <2>1. CASE Stopped(t)
    BY <1>2, <1>4, <2>1, Kinds DEF GiveUp
  <2>2. CASE ~Stopped(t)
    BY <1>2, <1>4, <2>2, Kinds DEF GiveUp
  <2> QED
    BY <2>1, <2>2
<1>5. CASE Begin(t, w)
  <2>1. CASE t \in late
    BY <1>2, <1>5, <2>1, Kinds DEF Begin
  <2>2. CASE t \notin late /\ Stopped(t)
    BY <1>2, <1>5, <2>2, Kinds DEF Begin
  <2>3. CASE t \notin late /\ ~Stopped(t)
    BY <1>1, <1>5, <2>3 DEF Begin
  <2> QED
    BY <2>1, <2>2, <2>3
<1>6. CASE Count(t, w)
  BY <1>2, <1>6, Kinds DEF Count
<1> QED
  BY <1>3, <1>4, <1>5, <1>6

LEMMA SendKeeps ==
  ASSUME IInv, NEW t \in Turn, NEW w \in Worker, Send(t, w)
  PROVE  IInv'
PROOF
<1>0. /\ worker[t][w] \in WorkerState /\ worker[t][w].pc = "send"
      /\ free \in Nat /\ UNCHANGED <<free, stopped, late, job>>
      /\ channel \in [Turn -> Seq(Files \X Counted)]
  BY DEF IInv, Typed, Send
<1>1. PICK next \in {[Gone EXCEPT !.pc = "next"], Gone} :
        worker' = [worker EXCEPT ![t][w] = next]
  BY DEF Send
<1>2. /\ next \in WorkerState /\ next.pc \in {"gone", "next"}
      /\ next.counted.kind = "unavailable"
  BY <1>1, Kinds DEF Gone
<1>3. Conserved' /\ worker' \in [Turn -> [Worker -> WorkerState]]
  <2>1. free' = free + Takes(worker[t][w]) - Takes(next)
    BY <1>0, <1>2 DEF Takes
  <2> QED
    BY <1>1, <1>2, <2>1, ConservedByOne DEF IInv
<1>4. \A s \in Turn, v \in Worker : s # t \/ v # w => worker'[s][v] = worker[s][v]
  BY <1>1 DEF IInv, Typed
<1>5. worker'[t][w] = next
  BY <1>1 DEF IInv, Typed
<1>6. Running'
  <2> SUFFICES ASSUME NEW s \in Turn, NEW v \in Worker, worker'[s][v].pc # "gone"
               PROVE  v \in Workers(s) /\ job[s].pc \in {"collect", "join"}
    BY <1>0 DEF Running
  <2>1. worker[s][v].pc # "gone"
    BY <1>0, <1>4
  <2> QED
    BY <2>1 DEF IInv, Running
<1>7. /\ channel' \in [Turn -> Seq(Files \X Counted)]
      /\ \A s \in Turn : \A i \in 1..Len(channel'[s]) :
           channel'[s][i][2].kind = "cancelled" => s \in stopped
  <2>1. CASE job[t].pc = "collect"
    <3> DEFINE new == <<worker[t][w].file, worker[t][w].counted>>
    <3>1. /\ new \in Files \X Counted /\ new[2] = worker[t][w].counted
          /\ channel' = [channel EXCEPT ![t] = Append(@, new)]
      BY <1>0, <2>1 DEF Send, WorkerState
    <3>2. new[2].kind = "cancelled" => t \in stopped
      BY <2>1, <3>1 DEF IInv, Cancels
    <3> HIDE DEF new
    <3>3. channel' \in [Turn -> Seq(Files \X Counted)]
      BY <1>0, <3>1
    <3>4. ASSUME NEW s \in Turn, NEW i \in 1..Len(channel'[s]),
                 channel'[s][i][2].kind = "cancelled"
          PROVE  s \in stopped
      <4>1. CASE s # t
        <5>1. channel'[s] = channel[s]
          BY <1>0, <3>1, <4>1
        <5> QED
          BY <3>4, <5>1 DEF IInv, Cancels
      <4>2. CASE s = t /\ i = Len(channel[t]) + 1
        <5>1. channel'[s][i] = new
          BY <1>0, <3>1, <4>2
        <5> QED
          BY <3>2, <3>4, <4>2, <5>1
      <4>3. CASE s = t /\ i # Len(channel[t]) + 1
        <5>1. i \in 1..Len(channel[t]) /\ channel'[s][i] = channel[t][i]
          BY <1>0, <3>1, <4>3
        <5> QED
          BY <3>4, <4>3, <5>1 DEF IInv, Cancels
      <4> QED
        BY <4>1, <4>2, <4>3
    <3> QED
      BY <3>3, <3>4
  <2>2. CASE job[t].pc # "collect"
    BY <1>0, <2>2 DEF Send, IInv, Cancels
  <2> QED
    BY <2>1, <2>2
<1>8. Typed'
  BY <1>0, <1>3, <1>7 DEF IInv, Typed
<1>9. Cancels'
  <2>1. \A s \in Turn : job'[s].left => job'[s].pc = "join"
    BY <1>0 DEF IInv, Cancels
  <2>2. ASSUME NEW s \in Turn, NEW v \in Worker, worker'[s][v].counted.kind = "cancelled"
        PROVE  worker'[s][v].pc = "send" /\ (s \in stopped \/ job[s].left)
    <3>1. worker'[s][v] = worker[s][v]
      BY <1>2, <1>4, <1>5, <2>2
    <3> QED
      BY <2>2, <3>1 DEF IInv, Cancels
  <2> QED
    BY <1>0, <1>7, <2>1, <2>2 DEF Cancels
<1>10. Results' /\ StopDecides'
  BY <1>0 DEF IInv, Results, StopDecides
<1> QED
  BY <1>3, <1>6, <1>8, <1>9, <1>10 DEF IInv

-----------------------------------------------------------------------------
(* The steps of a charging *)

LEMMA StartKeeps ==
  ASSUME IInv, NEW t \in Turn, Start(t)
  PROVE  IInv'
PROOF
<1>0. /\ job[t].pc = "start" /\ UNCHANGED <<free, stopped, late, channel>>
      /\ \A v \in Worker : worker[t][v].pc = "gone"
      /\ ~job[t].left /\ DOMAIN job = Turn
  BY DEF Start, IInv, Typed, Running, Cancels
<1>1. CASE t \in stopped
  <2>1. job' = [job EXCEPT ![t] = [Job(t) EXCEPT !.pc = "done", !.result = "cancelled"]]
        /\ UNCHANGED worker
    BY <1>1 DEF Start, End
  <2>2. /\ DOMAIN job' = Turn
        /\ DOMAIN job'[t] = {"pc", "next", "got", "left", "values", "result"}
        /\ job'[t].pc = "done" /\ job'[t].next \in Nat /\ job'[t].left \in BOOLEAN
        /\ ~job'[t].left
        /\ job'[t].result = "cancelled"
        /\ \A s \in Turn \ {t} : job'[s] = job[s]
    BY <1>0, <2>1 DEF Job
  <2>3. Typed' /\ Conserved'
    <3>1. Typed'
      BY <1>0, <2>1, <2>2 DEF IInv, Typed
    <3> QED
      BY <1>0, <2>1, <3>1 DEF IInv, Conserved, Holders, Holding
  <2>4. Running'
    BY <1>0, <2>1, <2>2 DEF IInv, Running
  <2>5. Cancels'
    BY <1>0, <1>1, <2>1, <2>2 DEF IInv, Cancels
  <2>6. Results' /\ StopDecides'
    BY <1>0, <1>1, <2>1, <2>2 DEF IInv, Results, StopDecides
  <2> QED
    BY <2>3, <2>4, <2>5, <2>6 DEF IInv
<1>2. CASE t \notin stopped
  <2> DEFINE new == [w \in Worker |-> IF w \in Workers(t) THEN [Gone EXCEPT !.pc = "next"] ELSE Gone]
  <2>1. /\ job' = [job EXCEPT ![t].pc = "collect"]
        /\ worker' = [worker EXCEPT ![t] = new]
    BY <1>2 DEF Start
  <2>2. /\ new \in [Worker -> WorkerState]
        /\ \A v \in Worker : new[v].pc \in {"gone", "next"} /\ (new[v].pc # "gone" => v \in Workers(t))
        /\ \A v \in Worker : new[v].counted.kind = "unavailable"
    <3>1. /\ Gone.pc = "gone" /\ [Gone EXCEPT !.pc = "next"].pc = "next"
          /\ Gone.counted.kind = "unavailable"
          /\ [Gone EXCEPT !.pc = "next"].counted.kind = "unavailable"
      BY Kinds DEF Gone
    <3> QED
      BY <3>1, Kinds
  <2> HIDE DEF new
  <2>3. /\ worker' \in [Turn -> [Worker -> WorkerState]] /\ worker'[t] = new
        /\ \A s \in Turn \ {t} : worker'[s] = worker[s]
    BY <2>1, <2>2 DEF IInv, Typed
  <2>4. /\ DOMAIN job' = Turn
        /\ DOMAIN job'[t] = DOMAIN job[t] /\ job'[t].pc = "collect"
        /\ job'[t].next = job[t].next /\ job'[t].left = job[t].left
        /\ job'[t].result = job[t].result
        /\ \A s \in Turn \ {t} : job'[s] = job[s]
    BY <1>0, <2>1 DEF IInv, Typed
  <2>5. Typed'
    BY <1>0, <2>3, <2>4 DEF IInv, Typed
  <2>6. Conserved'
    <3>1. \A s \in Turn, v \in Worker :
            worker'[s][v].pc \in {"held", "counting"} <=> worker[s][v].pc \in {"held", "counting"}
      BY <1>0, <2>2, <2>3
    <3>2. Holders' = Holders
      BY <3>1 DEF Holders, Holding, Pairs
    <3> QED
      BY <1>0, <3>2 DEF IInv, Conserved
  <2>7. Running'
    BY <1>0, <2>2, <2>3, <2>4 DEF IInv, Running
  <2>8. Cancels'
    BY <1>0, <2>2, <2>3, <2>4 DEF IInv, Cancels
  <2>9. Results' /\ StopDecides'
    BY <1>0, <2>4 DEF IInv, Results, StopDecides
  <2> QED
    BY <2>5, <2>6, <2>7, <2>8, <2>9 DEF IInv
<1> QED
  BY <1>1, <1>2

(* The charging changes, the workers and the slots do not. *)
LEMMA JobChanges ==
  ASSUME IInv, NEW t \in Turn, NEW new, job' = [job EXCEPT ![t] = new],
         DOMAIN new = {"pc", "next", "got", "left", "values", "result"},
         new.next \in Nat, new.left \in BOOLEAN,
         new.pc \in {"collect", "join"}, job[t].pc = "collect",
         new.left <=> new.pc = "join",
         new.result = job[t].result \/ (new.result = "cancelled" /\ t \in stopped),
         channel' \in [Turn -> Seq(Files \X Counted)],
         \A s \in Turn : \A i \in 1..Len(channel'[s]) :
           channel'[s][i][2].kind = "cancelled" => s \in stopped,
         UNCHANGED <<free, stopped, late, worker>>
  PROVE  IInv'
PROOF
<1>1. DOMAIN job' = Turn /\ job'[t] = new /\ \A s \in Turn \ {t} : job'[s] = job[s]
  BY DEF IInv, Typed
<1>2. Typed' /\ Conserved'
  BY <1>1 DEF IInv, Typed, Conserved, Holders, Holding
<1>3. Running'
  BY <1>1 DEF IInv, Running
<1>4. Cancels'
  BY <1>1 DEF IInv, Cancels
<1>5. Results' /\ StopDecides'
  BY <1>1 DEF IInv, Results, StopDecides
<1> QED
  BY <1>2, <1>3, <1>4, <1>5 DEF IInv

LEMMA ReceiveKeeps ==
  ASSUME IInv, NEW t \in Turn, Receive(t)
  PROVE  IInv'
PROOF
<1> DEFINE first == Head(channel[t])
           counted == first[2]
           more == [job[t] EXCEPT !.got = @ + 1]
           new == CASE counted.kind = "value" -> [more EXCEPT !.values[first[1]] = counted.value]
                    [] counted.kind = "unavailable" -> more
                    [] counted.kind = "cancelled" ->
                         [more EXCEPT !.pc = "join", !.left = TRUE, !.result = "cancelled"]
<1>0. /\ job[t].pc = "collect" /\ channel[t] # <<>> /\ ~job[t].left
      /\ channel \in [Turn -> Seq(Files \X Counted)]
      /\ UNCHANGED <<free, stopped, late, worker>>
      /\ DOMAIN job = Turn
      /\ DOMAIN job[t] = {"pc", "next", "got", "left", "values", "result"}
      /\ job[t].next \in Nat
  BY DEF Receive, IInv, Typed, Cancels
<1>1. /\ first \in Files \X Counted /\ first = channel[t][1] /\ 1 \in 1..Len(channel[t])
      /\ Tail(channel[t]) \in Seq(Files \X Counted)
      /\ \A i \in 1..Len(Tail(channel[t])) :
           i + 1 \in 1..Len(channel[t]) /\ Tail(channel[t])[i] = channel[t][i + 1]
  BY <1>0
<1>2. counted.kind \in {"value", "unavailable", "cancelled"}
      /\ (counted.kind = "cancelled" => t \in stopped)
  BY <1>1 DEF Counted, IInv, Cancels
<1>3. job' = [job EXCEPT ![t] = new]
  BY DEF Receive
<1>4. channel' = [channel EXCEPT ![t] = IF job'[t].left THEN <<>> ELSE Tail(@)]
  BY DEF Receive
<1> HIDE DEF first
<1>5. /\ DOMAIN more = DOMAIN job[t] /\ more.pc = "collect" /\ more.next = job[t].next
      /\ more.left = FALSE /\ more.result = job[t].result
  BY <1>0
<1> HIDE DEF more
<1>6. /\ DOMAIN new = DOMAIN job[t] /\ new.next = job[t].next
      /\ new.pc \in {"collect", "join"} /\ new.left \in BOOLEAN
      /\ new.left <=> new.pc = "join"
      /\ new.result = job[t].result \/ (new.result = "cancelled" /\ t \in stopped)
  <2>1. CASE counted.kind = "value"
    <3>1. new = [more EXCEPT !.values[first[1]] = counted.value]
      BY <2>1
    <3> HIDE DEF new
    <3> QED
      BY <1>0, <1>5, <3>1
  <2>2. CASE counted.kind = "unavailable"
    <3>1. new = more
      BY <2>2
    <3> QED
      BY <1>0, <1>5, <3>1
  <2>3. CASE counted.kind = "cancelled"
    <3>1. new = [more EXCEPT !.pc = "join", !.left = TRUE, !.result = "cancelled"]
      BY <2>3
    <3> HIDE DEF new
    <3> QED
      BY <1>0, <1>2, <1>5, <2>3, <3>1
  <2> QED
    BY <1>2, <2>1, <2>2, <2>3
<1> HIDE DEF new
<1>7. /\ channel' \in [Turn -> Seq(Files \X Counted)]
      /\ channel'[t] \in {<<>>, Tail(channel[t])}
      /\ \A s \in Turn \ {t} : channel'[s] = channel[s]
  BY <1>0, <1>1, <1>4
<1>8. \A s \in Turn : \A i \in 1..Len(channel'[s]) :
        channel'[s][i][2].kind = "cancelled" => s \in stopped
  <2> SUFFICES ASSUME NEW s \in Turn, NEW i \in 1..Len(channel'[s]),
                      channel'[s][i][2].kind = "cancelled"
               PROVE  s \in stopped
    OBVIOUS
  <2>0. \A u \in Turn : \A j \in 1..Len(channel[u]) :
          channel[u][j][2].kind = "cancelled" => u \in stopped
    BY DEF IInv, Cancels
  <2>1. CASE s # t
    <3>1. channel'[s] = channel[s]
      BY <1>7, <2>1
    <3> QED
      BY <2>0, <3>1
  <2>2. CASE s = t
    <3>1. channel'[t] = Tail(channel[t])
      BY <1>7, <2>2
    <3>2. i + 1 \in 1..Len(channel[t]) /\ channel'[t][i] = channel[t][i + 1]
      BY <1>1, <2>2, <3>1
    <3> QED
      BY <2>2, <3>2 DEF IInv, Cancels
  <2> QED
    BY <2>1, <2>2
<1> QED
  BY <1>0, <1>3, <1>6, <1>7, <1>8, JobChanges

LEMMA LeaveKeeps ==
  ASSUME IInv, NEW t \in Turn, Leave(t)
  PROVE  IInv'
PROOF
<1> DEFINE new == [job[t] EXCEPT !.pc = "join", !.left = TRUE]
<1>0. /\ job[t].pc = "collect" /\ DOMAIN job = Turn
      /\ channel \in [Turn -> Seq(Files \X Counted)]
      /\ UNCHANGED <<free, stopped, late, worker>>
      /\ DOMAIN job[t] = {"pc", "next", "got", "left", "values", "result"}
      /\ job[t].next \in Nat
  BY DEF Leave, IInv, Typed
<1>1. job' = [job EXCEPT ![t] = new]
  BY <1>0 DEF Leave
<1>2. /\ DOMAIN new = DOMAIN job[t] /\ new.next = job[t].next /\ new.pc = "join"
      /\ new.left = TRUE /\ new.result = job[t].result
  BY <1>0
<1>3. /\ channel' \in [Turn -> Seq(Files \X Counted)] /\ channel'[t] = <<>>
      /\ \A s \in Turn \ {t} : channel'[s] = channel[s]
  BY <1>0 DEF Leave
<1>4. \A s \in Turn : \A i \in 1..Len(channel'[s]) :
        channel'[s][i][2].kind = "cancelled" => s \in stopped
  BY <1>3 DEF IInv, Cancels
<1> HIDE DEF new
<1> QED
  BY <1>0, <1>1, <1>2, <1>3, <1>4, JobChanges

LEMMA JoinKeeps ==
  ASSUME IInv, NEW t \in Turn, Join(t)
  PROVE  IInv'
PROOF
<1>1. Charged(t) \in {"cancelled", "unmeasured", "ceiling", "charged"}
      /\ (Charged(t) = "cancelled" <=> t \in stopped)
  BY DEF Charged, IInv, StopDecides
<1>2. /\ job[t].pc = "join" /\ UNCHANGED <<free, stopped, late, worker, channel>>
      /\ \A v \in Worker : worker[t][v].pc = "gone"
      /\ DOMAIN job = Turn
  BY DEF Join, IInv, Typed, Running
<1>3. PICK result : result = Charged(t)
  OBVIOUS
<1>4. /\ DOMAIN job' = Turn
      /\ DOMAIN job'[t] = {"pc", "next", "got", "left", "values", "result"}
      /\ job'[t].pc = "done" /\ job'[t].next \in Nat /\ job'[t].left \in BOOLEAN
      /\ ~job'[t].left
      /\ job'[t].result = result
      /\ \A s \in Turn \ {t} : job'[s] = job[s]
  BY <1>2, <1>3 DEF Join, End, Job
<1>5. Typed' /\ Conserved'
  <2>1. Typed'
    BY <1>2, <1>4 DEF IInv, Typed
  <2> QED
    BY <1>2, <2>1 DEF IInv, Conserved, Holders, Holding
<1>6. Running'
  BY <1>2, <1>4 DEF IInv, Running
<1>7. Cancels'
  BY <1>2, <1>4 DEF IInv, Cancels
<1>8. Results' /\ StopDecides'
  BY <1>1, <1>2, <1>3, <1>4 DEF IInv, Results, StopDecides
<1> QED
  BY <1>5, <1>6, <1>7, <1>8 DEF IInv

(* Team stops a turn that has no answer yet. *)
LEMMA StopKeeps ==
  ASSUME IInv, NEW t \in Turn, StopTurn(t)
  PROVE  IInv'
PROOF
<1>1. Typed' /\ Conserved' /\ Running' /\ Results'
  BY DEF StopTurn, IInv, Typed, Conserved, Holders, Holding, Running, Results
<1>2. Cancels'
  BY DEF StopTurn, IInv, Cancels
<1>3. StopDecides'
  BY DEF StopTurn, IInv, Results, StopDecides
<1> QED
  BY <1>1, <1>2, <1>3 DEF IInv

-----------------------------------------------------------------------------
(* The theorems *)

LEMMA InitHolds == Init => IInv
PROOF
<1> SUFFICES ASSUME Init PROVE IInv
  OBVIOUS
<1>1. \A t \in Turn : /\ DOMAIN job[t] = {"pc", "next", "got", "left", "values", "result"}
                      /\ job[t].pc = "start" /\ job[t].next \in Nat /\ job[t].left \in BOOLEAN
                      /\ ~job[t].left
                      /\ job[t].result = "none"
  BY DEF Init, Job
<1>2. Typed
  <2>1. free \in Nat /\ worker \in [Turn -> [Worker -> WorkerState]]
    BY Kinds, ChargingAssumption DEF Init
  <2>2. channel \in [Turn -> Seq(Files \X Counted)]
    BY DEF Init
  <2> QED
    BY <1>1, <2>1, <2>2 DEF Init, Typed
<1>3. Conserved
  <2>1. Holders = {}
    BY DEF Init, Holders, Holding, Gone, Pairs
  <2> QED
    BY <2>1, FS_EmptySet, ChargingAssumption DEF Init, Conserved
<1>4. Running
  BY DEF Init, Running, Gone
<1>5. Cancels
  BY <1>1, Kinds DEF Init, Cancels, Gone
<1>6. Results /\ StopDecides
  BY <1>1 DEF Results, StopDecides
<1> QED
  BY <1>2, <1>3, <1>4, <1>5, <1>6 DEF IInv

LEMMA NextKeeps == IInv /\ [Next]_vars => IInv'
PROOF
<1> SUFFICES ASSUME IInv, [Next]_vars PROVE IInv'
  OBVIOUS
<1>1. ASSUME NEW t \in Turn, Charge(t) PROVE IInv'
  BY <1>1, StartKeeps, ReceiveKeeps, LeaveKeeps, JoinKeeps DEF Charge
<1>2. ASSUME NEW t \in Turn, NEW w \in Worker, WorkerStep(t, w) PROVE IInv'
  BY <1>2, FetchKeeps, SlotKeeps, SendKeeps DEF WorkerStep
<1>3. ASSUME NEW t \in Turn, Deadline(t) PROVE IInv'
  BY <1>3 DEF Deadline, IInv, Typed, Conserved, Holders, Holding, Running, Cancels,
     Results, StopDecides
<1>4. CASE UNCHANGED vars
  BY <1>4 DEF vars, IInv, Typed, Conserved, Holders, Holding, Running, Cancels,
     Results, StopDecides
<1> QED
  BY <1>1, <1>2, <1>3, <1>4, StopKeeps DEF Next

(* Every slot is free or held by one count that is under way, and a        *)
(* charging that ended left none behind (runtime/src/attachments/count.rs: *)
(* the drop of Slot, the scoped threads).                                  *)
THEOREM SlotsConserved == Spec => []SlotsHeld
PROOF
<1>1. IInv => SlotsHeld
  BY DEF IInv, Conserved, Holders, Pairs, Running, SlotsHeld
<1> QED
  BY <1>1, InitHolds, NextKeeps, PTL DEF Spec

(* A charging answers "cancelled" exactly when Team stopped its turn before *)
(* it ended, whatever its deadline, its provider and the other turns did    *)
(* (runtime/src/attachments/count.rs: charges).                             *)
THEOREM OnlyTeamCancels == Spec => []StopDecides
PROOF
<1>1. IInv => StopDecides
  BY DEF IInv
<1> QED
  BY <1>1, InitHolds, NextKeeps, PTL DEF Spec
=============================================================================
