---------------------------- MODULE ReplayProofs ----------------------------
(***************************************************************************)
(* Theorems about the history of Drive: that whatever sessions write it,   *)
(* it is one that replay accepts, and what a session knows of it.          *)
(***************************************************************************)
EXTENDS DriveProofs

-----------------------------------------------------------------------------
(* Histories that replay accepts *)

(* The types of the events a session records before it dispatches. *)
Buffered == {"pure", "heartbeat", "scheduled", "settled"}

(* The events of a session that a history has at most once. *)
Once(e) == e.type \in {"scheduled", "settled"}

Distinct(q, j) == \A i \in 1..(j - 1) : q[i] # q[j]

(* HistoryValid of a history E, with attempts that are positions in it.   *)
Valid(E) ==
  /\ \A i, j \in DOMAIN E : i < j =>
       /\ E[i].type # "completed"
       /\ E[j].type \in {"scheduled", "resolved", "settled", "cancel"} => E[i] # E[j]
       /\ E[i].type = "dispatched" /\ E[j].type = "dispatched" =>
            \E k \in i..j : E[k] = Settled(i)
  /\ \A j \in DOMAIN E :
       /\ E[j].type = "settled" =>
            E[j].attempt \in 1..(j - 1) /\ E[E[j].attempt].type = "dispatched"
       /\ E[j].type = "resolved" =>
            \E i \in 1..j : E[i] = Scheduled(E[j].step)

Unended(E) == \A i \in DOMAIN E : E[i].type # "completed"

(* What one write of a holder may add to a history E: nothing twice, only  *)
(* receipts of attempts E has, and a dispatch last, when none is running.  *)
Addable(E, own) ==
  \A j \in DOMAIN own :
    /\ own[j].type \in Buffered \cup {"dispatched"}
    /\ Once(own[j]) => own[j] \notin Range(E) /\ Distinct(own, j)
    /\ own[j].type = "settled" =>
         /\ own[j].attempt \in DOMAIN E
         /\ E[own[j].attempt].type = "dispatched"
    /\ own[j].type = "dispatched" =>
         /\ j = Len(own)
         /\ \A i \in DOMAIN E : E[i].type = "dispatched" =>
              Settled(i) \in Range(E) \cup Range(own)

(* The positions of two histories in their concatenation. *)
LEMMA ConcatIs ==
  ASSUME NEW E \in Seq(Event), NEW own \in Seq(Event)
  PROVE  /\ E \o own \in Seq(Event)
         /\ Len(E \o own) = Len(E) + Len(own)
         /\ DOMAIN (E \o own) = 1..(Len(E) + Len(own))
         /\ \A i \in DOMAIN E : i \in DOMAIN (E \o own) /\ (E \o own)[i] = E[i]
         /\ \A i \in DOMAIN (E \o own) : i \notin DOMAIN E =>
              i - Len(E) \in DOMAIN own /\ (E \o own)[i] = own[i - Len(E)]
         /\ Range(E \o own) = Range(E) \cup Range(own)
PROOF
<1> DEFINE F == E \o own
           n == Len(E)
<1>1. /\ n \in Nat /\ Len(own) \in Nat
      /\ DOMAIN E = 1..n /\ DOMAIN own = 1..Len(own)
      /\ F \in Seq(Event) /\ Len(F) = n + Len(own)
      /\ DOMAIN F = 1..(n + Len(own))
      /\ \A i \in DOMAIN E : i \in DOMAIN F /\ F[i] = E[i]
      /\ \A i \in DOMAIN F : i \notin DOMAIN E =>
           i - n \in DOMAIN own /\ F[i] = own[i - n]
  BY ConcatProperties, LenProperties
<1> HIDE DEF F, n
<1>2. Range(F) \subseteq Range(E) \cup Range(own)
  <2> SUFFICES ASSUME NEW i \in DOMAIN F
               PROVE  F[i] \in Range(E) \cup Range(own)
    BY DEF Range
  <2>1. CASE i \in DOMAIN E
    BY <1>1, <2>1 DEF Range
  <2>2. CASE i \notin DOMAIN E
    BY <1>1, <2>2 DEF Range
  <2> QED
    BY <2>1, <2>2
<1>3. Range(E) \subseteq Range(F)
  BY <1>1 DEF Range
<1>4. Range(own) \subseteq Range(F)
  <2> SUFFICES ASSUME NEW i \in DOMAIN own
               PROVE  own[i] \in Range(F)
    BY DEF Range
  <2>1. n + i \in DOMAIN F /\ n + i \notin DOMAIN E /\ (n + i) - n = i
    BY <1>1
  <2>2. F[n + i] = own[i]
    BY <1>1, <2>1
  <2> QED
    BY <2>1, <2>2 DEF Range
<1>5. Range(F) = Range(E) \cup Range(own)
  BY <1>2, <1>3, <1>4
<1> QED
  BY <1>1, <1>5 DEF F, n

(* The positions of a history with one event more. *)
LEMMA AppendIs ==
  ASSUME NEW E \in Seq(Event), NEW e \in Event
  PROVE  /\ Append(E, e) \in Seq(Event)
         /\ Len(Append(E, e)) = Len(E) + 1
         /\ DOMAIN Append(E, e) = 1..(Len(E) + 1)
         /\ Append(E, e)[Len(E) + 1] = e
         /\ \A i \in DOMAIN E : i \in DOMAIN Append(E, e) /\ Append(E, e)[i] = E[i]
         /\ \A i \in DOMAIN Append(E, e) : i \notin DOMAIN E => i = Len(E) + 1
PROOF
<1> DEFINE F == Append(E, e)
           n == Len(E)
<1>1. /\ F \in Seq(Event) /\ Len(F) = n + 1 /\ F[n + 1] = e
      /\ \A i \in 1..n : F[i] = E[i]
  BY AppendProperties
<1>2. DOMAIN F = 1..Len(F) /\ DOMAIN E = 1..n /\ n \in Nat
  BY <1>1, LenProperties
<1> HIDE DEF F, n
<1>3. /\ DOMAIN F = 1..(n + 1)
      /\ \A i \in DOMAIN E : i \in DOMAIN F /\ F[i] = E[i]
      /\ \A i \in DOMAIN F : i \notin DOMAIN E => i = n + 1
  BY <1>1, <1>2
<1> QED
  BY <1>1, <1>3 DEF F, n

(* The write of a holder keeps a history one that replay accepts. *)
LEMMA ConcatValid ==
  ASSUME NEW E \in Seq(Event), NEW own \in Seq(Event),
         Valid(E), Unended(E), Addable(E, own)
  PROVE  Valid(E \o own) /\ Unended(E \o own)
PROOF
<1> DEFINE n == Len(E)
           F == E \o own
<1>1. /\ n \in Nat /\ Len(own) \in Nat
      /\ DOMAIN E = 1..n /\ DOMAIN own = 1..Len(own)
      /\ DOMAIN F = 1..(n + Len(own))
      /\ \A i \in DOMAIN E : i \in DOMAIN F /\ F[i] = E[i]
      /\ \A i \in DOMAIN F : i \notin DOMAIN E =>
           i - n \in DOMAIN own /\ F[i] = own[i - n]
  BY ConcatProperties, LenProperties
<1>2. \A j \in DOMAIN own : own[j].type \notin {"completed", "resolved", "cancel"}
  BY DEF Addable, Buffered
<1> HIDE DEF F, n
<1>3. Unended(F)
  BY <1>1, <1>2 DEF Unended
<1>4. ASSUME NEW i \in DOMAIN F, NEW j \in DOMAIN F, i < j,
             F[j].type \in {"scheduled", "resolved", "settled", "cancel"}
      PROVE  F[i] # F[j]
  <2>1. CASE j \in DOMAIN E
    <3>1. i \in DOMAIN E
      BY <1>1, <1>4, <2>1
    <3> QED
      BY <1>1, <1>4, <2>1, <3>1 DEF Valid
  <2>2. CASE j \notin DOMAIN E
    <3> DEFINE k == j - n
    <3>1. k \in DOMAIN own /\ F[j] = own[k] /\ Once(own[k])
      BY <1>1, <1>2, <1>4, <2>2 DEF Once
    <3>2. CASE i \in DOMAIN E
      BY <1>1, <3>1, <3>2 DEF Addable, Range
    <3>3. CASE i \notin DOMAIN E
      <4>1. i - n \in 1..(k - 1) /\ F[i] = own[i - n]
        BY <1>1, <1>4, <2>2, <3>3
      <4> QED
        BY <3>1, <4>1 DEF Addable, Distinct
    <3> QED
      BY <3>2, <3>3
  <2> QED
    BY <2>1, <2>2
<1>5. ASSUME NEW j \in DOMAIN F, F[j].type = "settled"
      PROVE  F[j].attempt \in 1..(j - 1) /\ F[F[j].attempt].type = "dispatched"
  <2>1. CASE j \in DOMAIN E
    <3>1. /\ E[j].attempt \in 1..(j - 1)
          /\ E[E[j].attempt].type = "dispatched"
      BY <1>1, <1>5, <2>1 DEF Valid
    <3> QED
      BY <1>1, <2>1, <3>1
  <2>2. CASE j \notin DOMAIN E
    <3>1. /\ F[j].attempt \in DOMAIN E
          /\ E[F[j].attempt].type = "dispatched"
      BY <1>1, <1>5, <2>2 DEF Addable
    <3> QED
      BY <1>1, <2>2, <3>1
  <2> QED
    BY <2>1, <2>2
<1>6. ASSUME NEW j \in DOMAIN F, F[j].type = "resolved"
      PROVE  \E i \in 1..j : F[i] = Scheduled(F[j].step)
  <2>1. j \in DOMAIN E
    BY <1>1, <1>2, <1>6
  <2>2. PICK i \in 1..j : E[i] = Scheduled(E[j].step)
    BY <1>1, <1>6, <2>1 DEF Valid
  <2> QED
    BY <1>1, <2>1, <2>2
<1>7. ASSUME NEW i \in DOMAIN F, NEW j \in DOMAIN F, i < j,
             F[i].type = "dispatched", F[j].type = "dispatched"
      PROVE  \E k \in i..j : F[k] = Settled(i)
  <2>1. CASE j \in DOMAIN E
    <3>1. i \in DOMAIN E
      BY <1>1, <1>7, <2>1
    <3>2. PICK k \in i..j : E[k] = Settled(i)
      BY <1>1, <1>7, <2>1, <3>1 DEF Valid
    <3> QED
      BY <1>1, <2>1, <3>1, <3>2
  <2>2. CASE j \notin DOMAIN E
    <3>1. j - n = Len(own) /\ i \in DOMAIN E
      <4>1. j - n = Len(own)
        BY <1>1, <1>7, <2>2 DEF Addable
      <4>2. ASSUME i \notin DOMAIN E
            PROVE  FALSE
        <5>1. i - n \in DOMAIN own /\ own[i - n].type = "dispatched"
          BY <1>1, <1>7, <4>2
        <5>2. i - n = Len(own)
          BY <5>1 DEF Addable
        <5> QED
          BY <1>1, <1>7, <4>1, <5>2
      <4> QED
        BY <4>1, <4>2
    <3>2. Settled(i) \in Range(E) \cup Range(own)
      BY <1>1, <1>7, <2>2, <3>1 DEF Addable
    <3>3. PICK k \in DOMAIN F : F[k] = Settled(i)
      <4>1. CASE Settled(i) \in Range(E)
        BY <1>1, <4>1 DEF Range
      <4>2. CASE Settled(i) \in Range(own)
        <5>1. PICK m \in DOMAIN own : own[m] = Settled(i)
          BY <4>2 DEF Range
        <5>2. n + m \in DOMAIN F /\ n + m \notin DOMAIN E /\ (n + m) - n = m
          BY <1>1
        <5>3. F[n + m] = own[m]
          BY <1>1, <5>2
        <5> QED
          BY <5>1, <5>2, <5>3
      <4> QED
        BY <3>2, <4>1, <4>2
    <3>4. i < k
      BY <1>1, <1>5, <3>3 DEF Settled
    <3>5. k <= j
      BY <1>1, <2>2, <3>1
    <3> QED
      BY <1>1, <3>3, <3>4, <3>5
  <2> QED
    BY <2>1, <2>2
<1>8. Valid(F)
  BY <1>3, <1>4, <1>5, <1>6, <1>7 DEF Valid, Unended
<1> QED
  BY <1>3, <1>8 DEF F

(* One event more keeps a history valid when it is none that may only come *)
(* once, or comes for the first time.                                      *)
LEMMA AppendValid ==
  ASSUME NEW E \in Seq(Event), NEW e \in Event, Valid(E), Unended(E),
         e.type \in {"resolved", "cancel", "completed"},
         e.type # "completed" => e \notin Range(E),
         e.type = "resolved" => Scheduled(e.step) \in Range(E)
  PROVE  /\ Valid(Append(E, e))
         /\ e.type # "completed" => Unended(Append(E, e))
PROOF
<1> DEFINE n == Len(E)
           F == Append(E, e)
<1>1. /\ n \in Nat /\ DOMAIN E = 1..n /\ DOMAIN F = 1..(n + 1)
      /\ F[n + 1] = e
      /\ \A i \in DOMAIN E : i \in DOMAIN F /\ F[i] = E[i]
      /\ \A i \in DOMAIN F : i \notin DOMAIN E => i = n + 1
  BY AppendProperties, LenProperties
<1> HIDE DEF F, n
<1>2. e.type # "completed" => Unended(F)
  BY <1>1 DEF Unended
<1>3. ASSUME NEW i \in DOMAIN F, NEW j \in DOMAIN F, i < j
      PROVE  /\ F[i].type # "completed"
             /\ F[j].type \in {"scheduled", "resolved", "settled", "cancel"} => F[i] # F[j]
             /\ F[i].type = "dispatched" /\ F[j].type = "dispatched" =>
                  \E k \in i..j : F[k] = Settled(i)
  <2>1. i \in DOMAIN E
    BY <1>1, <1>3
  <2>2. CASE j \in DOMAIN E
    <3>1. /\ E[i].type # "completed"
          /\ E[j].type \in {"scheduled", "resolved", "settled", "cancel"} => E[i] # E[j]
          /\ E[i].type = "dispatched" /\ E[j].type = "dispatched" =>
               \E k \in i..j : E[k] = Settled(i)
      BY <1>3, <2>1, <2>2 DEF Valid
    <3>2. \A k \in i..j : F[k] = E[k]
      BY <1>1, <2>1, <2>2
    <3> QED
      BY <1>1, <2>1, <2>2, <3>1, <3>2
  <2>3. CASE j \notin DOMAIN E
    <3>1. F[j] = e /\ F[i] = E[i]
      BY <1>1, <2>1, <2>3
    <3> QED
      BY <2>1, <3>1 DEF Unended, Range
  <2> QED
    BY <2>2, <2>3
<1>4. ASSUME NEW j \in DOMAIN F
      PROVE  /\ F[j].type = "settled" =>
                  F[j].attempt \in 1..(j - 1) /\ F[F[j].attempt].type = "dispatched"
             /\ F[j].type = "resolved" =>
                  \E i \in 1..j : F[i] = Scheduled(F[j].step)
  <2>1. CASE j \in DOMAIN E
    <3>1. /\ E[j].type = "settled" =>
               E[j].attempt \in 1..(j - 1) /\ E[E[j].attempt].type = "dispatched"
          /\ E[j].type = "resolved" =>
               \E i \in 1..j : E[i] = Scheduled(E[j].step)
      BY <2>1 DEF Valid
    <3>2. \A i \in 1..j : F[i] = E[i]
      BY <1>1, <2>1
    <3> QED
      BY <1>1, <2>1, <3>1, <3>2
  <2>2. CASE j \notin DOMAIN E
    <3>1. F[j] = e /\ j = n + 1
      BY <1>1, <2>2
    <3>2. ASSUME e.type = "resolved"
          PROVE  \E i \in 1..j : F[i] = Scheduled(e.step)
      <4>1. PICK i \in DOMAIN E : E[i] = Scheduled(e.step)
        BY <3>2 DEF Range
      <4> QED
        BY <1>1, <3>1, <4>1
    <3> QED
      BY <3>1, <3>2
  <2> QED
    BY <2>1, <2>2
<1>5. Valid(F)
  BY <1>3, <1>4 DEF Valid
<1> QED
  BY <1>2, <1>5 DEF F

-----------------------------------------------------------------------------
(* What a session remembers of a history *)

Prefix(E, me) == {E[i] : i \in 1..me.seen}

KnownTo(E, me) == Prefix(E, me) \cup Range(me.buffer)

(* The buffer of a session continues the prefix of E it read, and so does  *)
(* the attempt it waits for; it dispatches when no attempt is running.     *)
Remembers(E, me) ==
  /\ me.seen <= Len(E)
  /\ \A j \in DOMAIN me.buffer :
       /\ me.buffer[j].type \in Buffered
       /\ Once(me.buffer[j]) =>
            me.buffer[j] \notin Prefix(E, me) /\ Distinct(me.buffer, j)
       /\ me.buffer[j].type = "settled" =>
            /\ me.buffer[j].attempt \in 1..me.seen
            /\ E[me.buffer[j].attempt].type = "dispatched"
  /\ me.pc = "idle" => me.buffer = <<>>
  /\ me.pc \in {"attempt", "lost"} =>
       /\ me.attempt \in 1..me.seen
       /\ E[me.attempt].type = "dispatched"
       /\ Settled(me.attempt) \notin KnownTo(E, me)
  /\ me.pc \in {"checked", "proving"} =>
       \A i \in 1..me.seen :
         E[i].type = "dispatched" => Settled(i) \in KnownTo(E, me)

(* What a session has not read of E came from the host. *)
ReadAll(E, me) == \A i \in (me.seen + 1)..Len(E) : HostInput(E[i])

(* What a session remembers stays true of a longer history. *)
LEMMA RemembersMore ==
  ASSUME NEW E \in Seq(Event), NEW own \in Seq(Event), NEW me \in SessionState,
         Remembers(E, me)
  PROVE  Remembers(E \o own, me)
PROOF
<1> DEFINE F == E \o own
<1>1. /\ Len(E) \in Nat /\ Len(own) \in Nat /\ Len(F) = Len(E) + Len(own)
      /\ \A i \in 1..Len(E) : F[i] = E[i]
      /\ me.seen \in Nat
  BY ConcatProperties, LenProperties DEF SessionState
<1> HIDE DEF F
<1>2. me.seen <= Len(F) /\ \A i \in 1..me.seen : F[i] = E[i]
  BY <1>1 DEF Remembers
<1>3. Prefix(F, me) = Prefix(E, me)
  BY <1>2 DEF Prefix
<1> QED
  BY <1>2, <1>3 DEF Remembers, KnownTo, F

(* A step that keeps the buffer, and does not go to a state that says more *)
(* of it, keeps what a session remembers.                                  *)
LEMMA RemembersLess ==
  ASSUME NEW E, NEW me, NEW new, Remembers(E, me),
         new.buffer = me.buffer, new.seen = me.seen,
         new.pc \notin {"idle", "attempt", "lost", "checked", "proving"}
  PROVE  Remembers(E, new)
PROOF BY DEF Remembers, Prefix, KnownTo

(* A memory without a buffer agrees with every history it read within. *)
LEMMA BlankRemembers ==
  ASSUME NEW E \in Seq(Event), NEW new, new.buffer = <<>>,
         new.seen \in Nat, new.seen <= Len(E),
         new.pc \notin {"attempt", "lost", "checked", "proving"}
  PROVE  Remembers(E, new)
PROOF BY DEF Remembers

(* A session that read all may write its buffer. *)
LEMMA AddableBuffer ==
  ASSUME NEW E \in Seq(Event), NEW me \in SessionState, Remembers(E, me),
         ReadAll(E, me)
  PROVE  Addable(E, me.buffer)
PROOF
<1>1. /\ me.seen \in Nat /\ Len(E) \in Nat /\ DOMAIN E = 1..Len(E)
      /\ me.buffer \in Seq(Event) /\ me.seen <= Len(E)
  BY LenProperties DEF SessionState, Remembers
<1>2. ASSUME NEW j \in DOMAIN me.buffer, Once(me.buffer[j])
      PROVE  me.buffer[j] \notin Range(E)
  <2>1. me.buffer[j] \notin Prefix(E, me)
    BY <1>2 DEF Remembers
  <2>2. ASSUME NEW i \in DOMAIN E, me.buffer[j] = E[i]
        PROVE  FALSE
    <3>1. CASE i <= me.seen
      BY <1>1, <2>1, <2>2, <3>1 DEF Prefix
    <3>2. CASE i > me.seen
      BY <1>1, <1>2, <2>2, <3>2 DEF ReadAll, HostInput, Once
    <3> QED
      BY <1>1, <3>1, <3>2
  <2> QED
    BY <2>2 DEF Range
<1> QED
  BY <1>1, <1>2 DEF Addable, Remembers, Buffered

(* One event more may be written with what may be written, if it is pure,  *)
(* the receipt of a running attempt, or a dispatch when none is running.   *)
LEMMA AddableAppend ==
  ASSUME NEW E \in Seq(Event), NEW own \in Seq(Event), NEW e \in Event,
         Addable(E, own), \A j \in DOMAIN own : own[j].type \in Buffered,
         e.type \in {"settled", "dispatched"},
         e.type = "settled" =>
           /\ e \notin Range(E) \cup Range(own)
           /\ e.attempt \in DOMAIN E
           /\ E[e.attempt].type = "dispatched",
         e.type = "dispatched" =>
           \A i \in DOMAIN E : E[i].type = "dispatched" =>
             Settled(i) \in Range(E) \cup Range(own)
  PROVE  Addable(E, Append(own, e))
PROOF
<1> DEFINE n == Len(own)
           new == Append(own, e)
<1>1. /\ n \in Nat /\ DOMAIN own = 1..n /\ DOMAIN new = 1..(n + 1)
      /\ Len(new) = n + 1 /\ new[n + 1] = e
      /\ \A i \in DOMAIN own : new[i] = own[i]
      /\ \A i \in DOMAIN new : i \notin DOMAIN own => i = n + 1
  <2>1. /\ new \in Seq(Event) /\ Len(new) = n + 1 /\ new[n + 1] = e
        /\ \A i \in 1..n : new[i] = own[i]
    BY AppendProperties
  <2>2. n \in Nat /\ DOMAIN own = 1..n /\ DOMAIN new = 1..Len(new)
    BY <2>1, LenProperties
  <2> HIDE DEF n, new
  <2> QED
    BY <2>1, <2>2
<1> HIDE DEF n, new
<1>2. Range(own) \subseteq Range(new)
  BY <1>1 DEF Range
<1>3. ASSUME NEW j \in DOMAIN new
      PROVE  /\ new[j].type \in Buffered \cup {"dispatched"}
             /\ Once(new[j]) => new[j] \notin Range(E) /\ Distinct(new, j)
             /\ new[j].type = "settled" =>
                  /\ new[j].attempt \in DOMAIN E
                  /\ E[new[j].attempt].type = "dispatched"
             /\ new[j].type = "dispatched" =>
                  /\ j = Len(new)
                  /\ \A i \in DOMAIN E : E[i].type = "dispatched" =>
                       Settled(i) \in Range(E) \cup Range(new)
  <2>1. CASE j \in DOMAIN own
    <3>1. /\ own[j].type \in Buffered
          /\ Once(own[j]) => own[j] \notin Range(E) /\ Distinct(own, j)
          /\ own[j].type = "settled" =>
               /\ own[j].attempt \in DOMAIN E
               /\ E[own[j].attempt].type = "dispatched"
      BY <2>1 DEF Addable
    <3>2. Distinct(own, j) => Distinct(new, j)
      BY <1>1, <2>1 DEF Distinct
    <3>3. own[j].type # "dispatched"
      BY <3>1 DEF Buffered
    <3> QED
      BY <1>1, <2>1, <3>1, <3>2, <3>3
  <2>2. CASE j \notin DOMAIN own
    <3>1. j = n + 1 /\ new[j] = e
      BY <1>1, <2>2
    <3>2. e.type = "settled" => Distinct(new, j)
      <4> SUFFICES ASSUME e.type = "settled", NEW i \in 1..(j - 1)
                   PROVE  new[i] # new[j]
        BY DEF Distinct
      <4>1. i \in DOMAIN own
        BY <1>1, <3>1
      <4> QED
        BY <1>1, <3>1, <4>1 DEF Range
    <3> QED
      BY <1>1, <1>2, <3>1, <3>2 DEF Once, Buffered
  <2> QED
    BY <2>1, <2>2
<1> QED
  BY <1>3 DEF Addable, new

(* What a session that waits for an attempt writes when it is settled. *)
LEMMA AddableSettled ==
  ASSUME NEW E \in Seq(Event), NEW me \in SessionState, Remembers(E, me),
         ReadAll(E, me), me.pc = "attempt"
  PROVE  Addable(E, Append(me.buffer, Settled(me.attempt)))
PROOF
<1> DEFINE e == Settled(me.attempt)
<1>1. /\ me.seen \in Nat /\ Len(E) \in Nat /\ DOMAIN E = 1..Len(E)
      /\ me.buffer \in Seq(Event) /\ me.seen <= Len(E)
      /\ me.attempt \in Nat
  BY LenProperties DEF SessionState, Remembers
<1>2. e \in Event /\ e.type = "settled" /\ e.attempt = me.attempt
  BY <1>1 DEF Settled, Event
<1>3. /\ me.attempt \in 1..me.seen
      /\ E[me.attempt].type = "dispatched"
      /\ e \notin Prefix(E, me) /\ e \notin Range(me.buffer)
  BY DEF Remembers, KnownTo
<1> HIDE DEF e
<1>4. e \notin Range(E)
  <2> SUFFICES ASSUME NEW i \in DOMAIN E, e = E[i]
               PROVE  FALSE
    BY DEF Range
  <2>1. CASE i <= me.seen
    BY <1>1, <1>3, <2>1 DEF Prefix
  <2>2. CASE i > me.seen
    BY <1>1, <1>2, <2>2 DEF ReadAll, HostInput
  <2> QED
    BY <1>1, <2>1, <2>2
<1>5. me.attempt \in DOMAIN E
  BY <1>1, <1>3
<1>6. Addable(E, me.buffer) /\ \A j \in DOMAIN me.buffer : me.buffer[j].type \in Buffered
  BY AddableBuffer DEF Remembers
<1>7. Addable(E, Append(me.buffer, e))
  BY <1>1, <1>2, <1>3, <1>4, <1>5, <1>6, AddableAppend
<1> QED
  BY <1>7 DEF e

(* What every attempt a session read of is settled by, in all of E. *)
LEMMA AllSettled ==
  ASSUME NEW E \in Seq(Event), NEW me \in SessionState, Remembers(E, me),
         ReadAll(E, me), me.pc \in {"checked", "proving"},
         NEW i \in DOMAIN E, E[i].type = "dispatched"
  PROVE  Settled(i) \in Range(E) \cup Range(me.buffer)
PROOF
<1>1. /\ me.seen \in Nat /\ Len(E) \in Nat /\ DOMAIN E = 1..Len(E)
      /\ me.seen <= Len(E)
  BY LenProperties DEF SessionState, Remembers
<1>2. i \in 1..me.seen
  BY <1>1 DEF ReadAll, HostInput
<1>3. Settled(i) \in Prefix(E, me) \cup Range(me.buffer)
  BY <1>2 DEF Remembers, KnownTo
<1>4. Prefix(E, me) \subseteq Range(E)
  BY <1>1 DEF Prefix, Range
<1> QED
  BY <1>3, <1>4

(* What a session writes when it dispatches. *)
LEMMA AddableDispatch ==
  ASSUME NEW E \in Seq(Event), NEW me \in SessionState, Remembers(E, me),
         ReadAll(E, me), me.pc = "checked", NEW f \in Nat
  PROVE  Addable(E, Append(me.buffer, Dispatched(f, me.kind)))
PROOF
<1> DEFINE e == Dispatched(f, me.kind)
<1>1. me.buffer \in Seq(Event) /\ me.kind \in StepKind
  BY DEF SessionState
<1>2. e \in Event /\ e.type = "dispatched"
  BY <1>1 DEF Dispatched, Event
<1> HIDE DEF e
<1>3. Addable(E, me.buffer) /\ \A j \in DOMAIN me.buffer : me.buffer[j].type \in Buffered
  BY AddableBuffer DEF Remembers
<1>4. \A i \in DOMAIN E : E[i].type = "dispatched" =>
        Settled(i) \in Range(E) \cup Range(me.buffer)
  BY AllSettled
<1>5. Addable(E, Append(me.buffer, e))
  BY <1>1, <1>2, <1>3, <1>4, AddableAppend
<1> QED
  BY <1>5 DEF e

(* Losing a queued heartbeat keeps what a session remembers. *)
LEMMA WithoutBeatsRemembers ==
  ASSUME NEW E, NEW me \in SessionState, Remembers(E, me),
         me.pc \notin {"checked", "proving"}
  PROVE  Remembers(E, [me EXCEPT !.buffer = WithoutBeats(me.buffer)])
PROOF
<1> DEFINE q == me.buffer
           B == {i \in DOMAIN q : q[i] = Heartbeat}
           k == CHOOSE j \in B : TRUE
           w == WithoutBeats(q)
           new == [me EXCEPT !.buffer = w]
<1>1. q \in Seq(Event) /\ Len(q) \in Nat /\ DOMAIN q = 1..Len(q)
  BY LenProperties DEF SessionState
<1>2. CASE B = {}
  <2>1. w = q
    BY <1>2 DEF WithoutBeats
  <2>2. new = me
    BY <2>1 DEF SessionState
  <2> QED
    BY <2>2
<1>3. CASE B # {}
  <2>1. k \in 1..Len(q)
    BY <1>1, <1>3
  <2>2. w = SubSeq(q, 1, k - 1) \o SubSeq(q, k + 1, Len(q))
    BY <1>3 DEF WithoutBeats
  <2> HIDE DEF k, B
  <2>3. /\ SubSeq(q, 1, k - 1) \in Seq(Event)
        /\ Len(SubSeq(q, 1, k - 1)) = k - 1
        /\ \A i \in 1..(k - 1) : SubSeq(q, 1, k - 1)[i] = q[i]
    BY <1>1, <2>1, SubSeqProperties
  <2>4. /\ SubSeq(q, k + 1, Len(q)) \in Seq(Event)
        /\ Len(SubSeq(q, k + 1, Len(q))) = Len(q) - k
        /\ \A i \in 1..(Len(q) - k) : SubSeq(q, k + 1, Len(q))[i] = q[k + i]
    BY <1>1, <2>1, SubSeqProperties
  <2>5. /\ w \in Seq(Event) /\ Len(w) = Len(q) - 1 /\ DOMAIN w = 1..(Len(q) - 1)
        /\ \A i \in DOMAIN w : w[i] = IF i < k THEN q[i] ELSE q[i + 1]
    <3> DEFINE a == SubSeq(q, 1, k - 1)
               b == SubSeq(q, k + 1, Len(q))
    <3>1. /\ a \in Seq(Event) /\ Len(a) = k - 1
          /\ \A i \in 1..(k - 1) : a[i] = q[i]
      BY <2>3
    <3>2. /\ b \in Seq(Event) /\ Len(b) = Len(q) - k
          /\ \A i \in 1..(Len(q) - k) : b[i] = q[k + i]
      BY <2>4
    <3>3. w = a \o b
      BY <2>2
    <3> HIDE DEF a, b, w
    <3>4. /\ w \in Seq(Event) /\ Len(w) = Len(a) + Len(b)
          /\ \A i \in 1..(Len(a) + Len(b)) :
               w[i] = IF i <= Len(a) THEN a[i] ELSE b[i - Len(a)]
      BY <3>1, <3>2, <3>3, ConcatProperties
    <3>5. DOMAIN w = 1..Len(w)
      BY <3>4, LenProperties
    <3>6. Len(w) = Len(q) - 1
      BY <1>1, <2>1, <3>1, <3>2, <3>4
    <3>7. ASSUME NEW i \in DOMAIN w
          PROVE  w[i] = IF i < k THEN q[i] ELSE q[i + 1]
      <4>1. CASE i < k
        <5> HIDE DEF q
        <5>0. i \in 1..(Len(q) - 1) /\ k \in 1..Len(q) /\ Len(q) \in Nat
          BY <1>1, <2>1, <3>5, <3>6
        <5>1. i \in 1..(k - 1) /\ i \in 1..(Len(a) + Len(b)) /\ i <= Len(a)
          BY <3>1, <3>2, <4>1, <5>0
        <5>2. w[i] = a[i] /\ a[i] = q[i]
          BY <3>1, <3>4, <5>1
        <5> QED
          BY <4>1, <5>2
      <4>2. CASE i >= k
        <5> HIDE DEF q
        <5>0. i \in 1..(Len(q) - 1) /\ k \in 1..Len(q) /\ Len(q) \in Nat
          BY <1>1, <2>1, <3>5, <3>6
        <5> DEFINE x == i - (k - 1)
        <5>1. x \in 1..(Len(q) - k) /\ ~(i <= k - 1) /\ k + x = i + 1
          BY <5>0, <4>2
        <5>2. w[i] = b[x]
          BY <3>1, <3>4, <3>5, <5>1
        <5> HIDE DEF x
        <5>3. b[x] = q[k + x]
          BY <3>2, <5>1
        <5>4. ~(i < k)
          BY <5>0, <4>2
        <5> QED
          BY <5>1, <5>2, <5>3, <5>4
      <4> QED
        BY <1>1, <2>1, <3>5, <4>1, <4>2
    <3> QED
      BY <3>4, <3>5, <3>6, <3>7
  <2>6. new.buffer = w /\ new.pc = me.pc /\ new.seen = me.seen /\ new.attempt = me.attempt
    BY DEF SessionState
  <2> HIDE DEF w, new
  <2>7. ASSUME NEW j \in DOMAIN w
        PROVE  \E m \in DOMAIN q : /\ w[j] = q[m]
                                   /\ Distinct(q, m) => Distinct(w, j)
    <3> DEFINE m == IF j < k THEN j ELSE j + 1
    <3>1. m \in DOMAIN q /\ w[j] = q[m]
      BY <1>1, <2>1, <2>5
    <3>2. ASSUME Distinct(q, m), NEW i \in 1..(j - 1)
          PROVE  w[i] # w[j]
      <4> DEFINE l == IF i < k THEN i ELSE i + 1
      <4>1. l \in 1..(m - 1) /\ w[i] = q[l]
        <5> HIDE DEF q
        <5>1. /\ i \in 1..(j - 1) /\ j \in 1..(Len(q) - 1) /\ k \in 1..Len(q)
              /\ Len(q) \in Nat
          BY <1>1, <2>1, <2>5, <2>7, <3>2
        <5>2. i \in DOMAIN w
          BY <2>5, <5>1
        <5> QED
          BY <2>5, <5>1, <5>2
      <4> HIDE DEF l, m
      <4> QED
        BY <3>1, <3>2, <4>1 DEF Distinct
    <3> QED
      BY <3>1, <3>2 DEF Distinct
  <2>8. Range(w) \subseteq Range(q)
    BY <2>7 DEF Range
  <2>9. \A j \in DOMAIN w :
          /\ w[j].type \in Buffered
          /\ Once(w[j]) => w[j] \notin Prefix(E, me) /\ Distinct(w, j)
          /\ w[j].type = "settled" =>
               w[j].attempt \in 1..me.seen /\ E[w[j].attempt].type = "dispatched"
    BY <2>7 DEF Remembers
  <2>10. new.pc # "idle"
    BY <1>1, <2>1, <2>6 DEF Remembers
  <2>11. KnownTo(E, new) \subseteq KnownTo(E, me) /\ Prefix(E, new) = Prefix(E, me)
    BY <2>6, <2>8 DEF KnownTo, Prefix
  <2>12. Remembers(E, new)
    BY <2>6, <2>9, <2>10, <2>11 DEF Remembers
  <2> QED
    BY <2>12 DEF new, w, q
<1> QED
  BY <1>2, <1>3

(* Recording one pure event keeps what a session remembers. *)
LEMMA AppendRemembers ==
  ASSUME NEW E, NEW me \in SessionState, NEW new \in SessionState,
         NEW e \in Event, Remembers(E, me), e.type \in Buffered,
         new.buffer = Append(me.buffer, e), new.seen = me.seen,
         new.pc \notin {"idle", "checked", "proving"},
         new.pc \in {"attempt", "lost"} =>
           /\ me.pc \in {"attempt", "lost"}
           /\ new.attempt = me.attempt
           /\ e # Settled(me.attempt),
         Once(e) => e \notin KnownTo(E, me),
         e.type = "settled" =>
           e.attempt \in 1..me.seen /\ E[e.attempt].type = "dispatched"
  PROVE  Remembers(E, new)
PROOF
<1> DEFINE q == me.buffer
           w == Append(q, e)
           n == Len(q)
<1>1. /\ n \in Nat /\ DOMAIN q = 1..n /\ DOMAIN w = 1..(n + 1)
      /\ w[n + 1] = e /\ \A i \in DOMAIN q : w[i] = q[i]
      /\ \A i \in DOMAIN w : i \notin DOMAIN q => i = n + 1
  <2>1. q \in Seq(Event)
    BY DEF SessionState
  <2>2. /\ w \in Seq(Event) /\ Len(w) = n + 1 /\ w[n + 1] = e
        /\ \A i \in 1..n : w[i] = q[i]
    BY <2>1, AppendProperties
  <2>3. n \in Nat /\ DOMAIN q = 1..n /\ DOMAIN w = 1..Len(w)
    BY <2>1, <2>2, LenProperties
  <2> HIDE DEF n, w, q
  <2> QED
    BY <2>2, <2>3
<1>2. new.buffer = w
  OBVIOUS
<1> HIDE DEF w, n
<1>3. \A j \in DOMAIN q :
        /\ q[j].type \in Buffered
        /\ Once(q[j]) => q[j] \notin Prefix(E, me) /\ Distinct(q, j)
        /\ q[j].type = "settled" =>
             q[j].attempt \in 1..me.seen /\ E[q[j].attempt].type = "dispatched"
  BY DEF Remembers
<1>4. ASSUME NEW j \in DOMAIN w
      PROVE  /\ w[j].type \in Buffered
             /\ Once(w[j]) => w[j] \notin Prefix(E, me) /\ Distinct(w, j)
             /\ w[j].type = "settled" =>
                  w[j].attempt \in 1..me.seen /\ E[w[j].attempt].type = "dispatched"
  <2>1. CASE j \in DOMAIN q
    <3>1. Distinct(q, j) => Distinct(w, j)
      BY <1>1, <2>1 DEF Distinct
    <3> QED
      BY <1>1, <1>3, <2>1, <3>1
  <2>2. CASE j \notin DOMAIN q
    <3>1. w[j] = e /\ \A i \in 1..(j - 1) : w[i] = q[i] /\ i \in DOMAIN q
      BY <1>1, <2>2
    <3>2. Once(e) => Distinct(w, j)
      BY <3>1 DEF KnownTo, Range, Distinct
    <3> QED
      BY <3>1, <3>2 DEF KnownTo
  <2> QED
    BY <2>1, <2>2
<1>5. Range(w) \subseteq Range(q) \cup {e}
  BY <1>1 DEF Range
<1> HIDE DEF q
<1>6. Prefix(E, new) = Prefix(E, me)
  BY DEF Prefix
<1> QED
  BY <1>2, <1>4, <1>5, <1>6 DEF Remembers, KnownTo, q

(* What a step that changes neither buffer nor attempt keeps. *)
LEMMA RemembersSame ==
  ASSUME NEW E, NEW me, NEW new, Remembers(E, me),
         new.buffer = me.buffer, new.seen = me.seen, new.attempt = me.attempt,
         \/ new.pc = me.pc
         \/ new.pc = "checked" /\ me.pc = "proving"
         \/ new.pc = "lost" /\ me.pc = "attempt"
  PROVE  Remembers(E, new)
PROOF BY DEF Remembers, Prefix, KnownTo

-----------------------------------------------------------------------------
(* The invariant *)

(* A history the host and the sessions wrote so far, with what the row     *)
(* says of it: the cancel flag, and the requests that are still open.      *)
HistoryInv ==
  /\ state \notin {"open", "closed"} => events = <<>>
  /\ state = "open" => Unended(events)
  /\ Valid(events)
  /\ NoDispatchAfterCancel
  /\ \A i \in DOMAIN events : events[i] = CancelRequested => cancel
  /\ \A d \in Deferred :
       /\ state = "absent" => deferred[d] # "open"
       /\ state = "open" /\ deferred[d] = "open" => Scheduled(d) \in Range(events)
  /\ state = "open" =>
       \A i \in DOMAIN events :
         events[i].type = "resolved" => deferred[events[i].step] # "open"

Unread(me) == me.seen = 0 /\ me.buffer = <<>> /\ me.pc \in {"idle", "crashed"}

OneToken ==
  \A s, t \in Session :
    ses[s].token # 0 /\ ses[s].token = ses[t].token => s = t

(* Sessions remember the history of the open run, and a fence is given to  *)
(* one session, which missed only what the host did.                       *)
ReadingInv ==
  /\ \A s \in Session :
       /\ state = "absent" => Unread(ses[s])
       /\ state = "open" => Remembers(events, ses[s])
  /\ OneToken
  /\ ViewsComplete

ReplayInv == HistoryInv /\ ReadingInv /\ SleepsInformed

(* A session that may write read all that sessions wrote (write.rs: stale, *)
(* and the token of the lease).                                            *)
LEMMA WriterRead ==
  ASSUME ReadingInv, NEW s \in Session, TypeInv, Writable(s)
  PROVE  /\ state = "open"
         /\ Remembers(events, ses[s])
         /\ ReadAll(events, ses[s])
PROOF
<1>1. state = "open" /\ Remembers(events, ses[s])
  BY DEF Writable, MayWrite, ReadingInv
<1>2. ses[s].token \in Nat /\ ses[s].seen \in Nat /\ Len(events) \in Nat
  BY SessionTyped
<1>3. CASE ses[s].token = 0
  <2>1. Len(events) <= ses[s].seen
    BY <1>3 DEF Writable, MayWrite
  <2>2. \A i \in (ses[s].seen + 1)..Len(events) : FALSE
    BY <1>2, <2>1
  <2> QED
    BY <1>1, <2>2 DEF ReadAll
<1>4. CASE ses[s].token # 0
  BY <1>1, <1>4 DEF Writable, MayWrite, ReadingInv, ViewsComplete, ReadAll
<1> QED
  BY <1>1, <1>3, <1>4

(* A holder's write keeps the history and what the row says of it. *)
LEMMA GrowHistory ==
  ASSUME TypeInv, HistoryInv, state = "open", state' = "open",
         NEW own \in Seq(Event), Addable(events, own),
         \A j \in DOMAIN own : own[j].type = "dispatched" => ~cancel,
         events' = events \o own, deferred' = Registered(own), cancel' = cancel
  PROVE  HistoryInv'
PROOF
<1> DEFINE E == events
           n == Len(events)
           F == events \o own
<1>0. events \in Seq(Event)
  BY DEF TypeInv, RowOK, LedgerTypeOK
<1>1. /\ n \in Nat /\ Len(own) \in Nat
      /\ DOMAIN events = 1..n /\ DOMAIN own = 1..Len(own)
      /\ DOMAIN F = 1..(n + Len(own))
      /\ \A i \in DOMAIN events : i \in DOMAIN F /\ F[i] = events[i]
      /\ \A i \in DOMAIN F : i \notin DOMAIN events =>
           i - n \in DOMAIN own /\ F[i] = own[i - n]
  BY <1>0, ConcatProperties, LenProperties
<1>2. events' = F
  OBVIOUS
<1>3. Valid(F) /\ Unended(F)
  BY <1>0, ConcatValid DEF HistoryInv
<1> HIDE DEF F, n
<1>4. \A j \in DOMAIN own : own[j].type \notin {"completed", "resolved", "cancel"}
  BY DEF Addable, Buffered
<1>5. ASSUME NEW i \in DOMAIN F, NEW j \in DOMAIN F, i < j, F[i] = CancelRequested
      PROVE  F[j].type # "dispatched"
  <2>1. i \in DOMAIN events /\ events[i] = CancelRequested
    BY <1>1, <1>4, <1>5 DEF CancelRequested
  <2>2. cancel
    BY <2>1 DEF HistoryInv
  <2>3. CASE j \in DOMAIN events
    BY <1>1, <1>5, <2>1, <2>3 DEF HistoryInv, NoDispatchAfterCancel
  <2>4. CASE j \notin DOMAIN events
    BY <1>1, <2>2, <2>4
  <2> QED
    BY <2>3, <2>4
<1>6. NoDispatchAfterCancel'
  BY <1>2, <1>5 DEF NoDispatchAfterCancel
<1>7. \A i \in DOMAIN F : F[i] = CancelRequested => cancel
  BY <1>1, <1>4 DEF HistoryInv, CancelRequested
<1>8. ASSUME NEW d \in Deferred, deferred'[d] = "open"
      PROVE  Scheduled(d) \in Range(F)
  <2>1. CASE Scheduled(d) \in {own[i] : i \in DOMAIN own}
    <3>1. PICK i \in DOMAIN own : own[i] = Scheduled(d)
      BY <2>1
    <3>2. n + i \in DOMAIN F /\ n + i \notin DOMAIN events /\ (n + i) - n = i
      BY <1>1
    <3>3. F[n + i] = own[i]
      BY <1>1, <3>2
    <3> QED
      BY <3>1, <3>2, <3>3 DEF Range
  <2>2. CASE Scheduled(d) \notin {own[i] : i \in DOMAIN own}
    <3>1. deferred[d] = "open"
      BY <1>8, <2>2 DEF Registered
    <3>2. Scheduled(d) \in Range(events)
      BY <3>1 DEF HistoryInv
    <3> QED
      BY <1>1, <3>2 DEF Range
  <2> QED
    BY <2>1, <2>2
<1>9. ASSUME NEW i \in DOMAIN F, F[i].type = "resolved"
      PROVE  deferred'[F[i].step] # "open"
  <2>1. i \in DOMAIN events /\ F[i] = events[i]
    BY <1>1, <1>4, <1>9
  <2>2. events[i] \in Event /\ events[i].type = "resolved"
    BY <1>0, <1>1, <1>9, <2>1
  <2>3. events[i].step \in Deferred
    BY <2>2 DEF Event
  <2>4. deferred[events[i].step] # "open"
    BY <2>1, <2>2 DEF HistoryInv
  <2>5. Scheduled(events[i].step) \in Range(events)
    <3>1. PICK k \in 1..i : events[k] = Scheduled(events[i].step)
      BY <2>1, <2>2 DEF HistoryInv, Valid
    <3>2. k \in DOMAIN events
      BY <1>1, <2>1
    <3> QED
      BY <3>1, <3>2 DEF Range
  <2>6. ASSUME NEW j \in DOMAIN own, own[j] = Scheduled(events[i].step)
        PROVE  FALSE
    <3>1. Once(own[j])
      BY <2>6 DEF Once, Scheduled
    <3> QED
      BY <2>5, <2>6, <3>1 DEF Addable
  <2>7. deferred'[events[i].step] = deferred[events[i].step]
    BY <2>3, <2>6 DEF Registered
  <2> QED
    BY <2>1, <2>4, <2>7
<1> QED
  BY <1>2, <1>3, <1>6, <1>7, <1>8, <1>9 DEF HistoryInv

(* The end of the run closes a history that is otherwise a holder's write. *)
LEMMA EndHistory ==
  ASSUME TypeInv, HistoryInv, state = "open", state' = "closed",
         NEW own \in Seq(Event), Addable(events, own),
         \A j \in DOMAIN own : own[j].type = "dispatched" => ~cancel,
         NEW out \in Outcome, events' = Append(events \o own, Completed(out)),
         cancel' = cancel
  PROVE  HistoryInv'
PROOF
<1> DEFINE n == Len(events)
           F == events \o own
           G == Append(F, Completed(out))
           m == Len(F)
<1>0. events \in Seq(Event)
  BY DEF TypeInv, RowOK, LedgerTypeOK
<1>1. /\ n \in Nat /\ Len(own) \in Nat /\ F \in Seq(Event) /\ m = n + Len(own)
      /\ DOMAIN events = 1..n /\ DOMAIN own = 1..Len(own)
      /\ DOMAIN F = 1..(n + Len(own))
      /\ \A i \in DOMAIN events : i \in DOMAIN F /\ F[i] = events[i]
      /\ \A i \in DOMAIN F : i \notin DOMAIN events =>
           i - n \in DOMAIN own /\ F[i] = own[i - n]
  BY <1>0, ConcatProperties, LenProperties
<1>2. Valid(F) /\ Unended(F)
  BY <1>0, ConcatValid DEF HistoryInv
<1>3. Completed(out) \in Event /\ Completed(out).type = "completed"
  BY DEF Completed, Event
<1> HIDE DEF F
<1>4. Valid(G)
  BY <1>1, <1>2, <1>3, AppendValid
<1>5. /\ DOMAIN G = 1..(m + 1) /\ G[m + 1] = Completed(out)
      /\ \A i \in 1..m : G[i] = F[i]
  <2>1. /\ G \in Seq(Event) /\ Len(G) = m + 1 /\ G[m + 1] = Completed(out)
        /\ \A i \in 1..m : G[i] = F[i]
    BY <1>1, <1>3, AppendProperties
  <2>2. DOMAIN G = 1..Len(G)
    BY <2>1, LenProperties
  <2> QED
    BY <2>1, <2>2
<1>6. events' = G
  BY DEF F
<1> HIDE DEF G, m, n
<1>7. \A j \in DOMAIN own : own[j].type \notin {"completed", "resolved", "cancel"}
  BY DEF Addable, Buffered
<1>8. ASSUME NEW i \in DOMAIN G, G[i] = CancelRequested
      PROVE  i \in DOMAIN events /\ events[i] = CancelRequested /\ cancel
  <2>1. i # m + 1
    BY <1>3, <1>5, <1>8 DEF CancelRequested
  <2>2. i \in DOMAIN F /\ F[i] = CancelRequested
    BY <1>1, <1>5, <1>8, <2>1
  <2>3. i \in DOMAIN events /\ events[i] = CancelRequested
    BY <1>1, <1>7, <2>2 DEF CancelRequested
  <2> QED
    BY <2>3 DEF HistoryInv
<1>9. ASSUME NEW i \in DOMAIN G, NEW j \in DOMAIN G, i < j, G[i] = CancelRequested
      PROVE  G[j].type # "dispatched"
  <2>1. i \in DOMAIN events /\ events[i] = CancelRequested /\ cancel
    BY <1>8, <1>9
  <2>2. CASE j \in DOMAIN events
    BY <1>1, <1>5, <1>9, <2>1, <2>2 DEF HistoryInv, NoDispatchAfterCancel
  <2>3. CASE j \in DOMAIN F /\ j \notin DOMAIN events
    BY <1>1, <1>5, <2>1, <2>3
  <2>4. CASE j \notin DOMAIN F
    BY <1>1, <1>3, <1>5, <2>4
  <2> QED
    BY <2>2, <2>3, <2>4
<1>10. NoDispatchAfterCancel'
  BY <1>6, <1>9 DEF NoDispatchAfterCancel
<1> QED
  BY <1>4, <1>6, <1>8, <1>10 DEF HistoryInv

(* What the host appends keeps the history and what the row says of it. *)
LEMMA InputHistory ==
  ASSUME TypeInv, HistoryInv, state = "open", state' = "open",
         NEW e \in Event, e.type \in {"resolved", "cancel"},
         e \notin Range(events), events' = Append(events, e),
         e.type = "resolved" => Scheduled(e.step) \in Range(events),
         e.type = "cancel" => cancel',
         cancel => cancel',
         \A d \in Deferred : deferred'[d] = "open" => deferred[d] = "open",
         e.type = "resolved" => deferred'[e.step] # "open"
  PROVE  HistoryInv'
PROOF
<1> DEFINE n == Len(events)
           F == Append(events, e)
<1>1. /\ n \in Nat /\ events \in Seq(Event) /\ DOMAIN events = 1..n
      /\ DOMAIN F = 1..(n + 1) /\ F[n + 1] = e
      /\ \A i \in DOMAIN events : i \in DOMAIN F /\ F[i] = events[i]
      /\ \A i \in DOMAIN F : i \notin DOMAIN events => i = n + 1
  <2>1. events \in Seq(Event)
    BY DEF TypeInv, RowOK, LedgerTypeOK
  <2>2. /\ F \in Seq(Event) /\ Len(F) = n + 1 /\ F[n + 1] = e
        /\ \A i \in 1..n : F[i] = events[i]
    BY <2>1, AppendProperties
  <2>3. DOMAIN F = 1..Len(F) /\ DOMAIN events = 1..n /\ n \in Nat
    BY <2>1, <2>2, LenProperties
  <2> HIDE DEF F, n
  <2> QED
    BY <2>1, <2>2, <2>3
<1>2. Valid(F) /\ Unended(F)
  BY <1>1, AppendValid DEF HistoryInv
<1>3. events' = F
  OBVIOUS
<1> HIDE DEF F, n
<1>4. ASSUME NEW i \in DOMAIN F, NEW j \in DOMAIN F, i < j, F[i] = CancelRequested
      PROVE  F[j].type # "dispatched"
  <2>1. i \in DOMAIN events
    BY <1>1, <1>4
  <2>2. CASE j \in DOMAIN events
    BY <1>1, <1>4, <2>1, <2>2 DEF HistoryInv, NoDispatchAfterCancel
  <2>3. CASE j \notin DOMAIN events
    BY <1>1, <2>3
  <2> QED
    BY <2>2, <2>3
<1>5. NoDispatchAfterCancel'
  BY <1>3, <1>4 DEF NoDispatchAfterCancel
<1>6. \A i \in DOMAIN F : F[i] = CancelRequested => cancel'
  BY <1>1 DEF HistoryInv, CancelRequested
<1>7. Range(events) \subseteq Range(F)
  BY <1>1 DEF Range
<1>8. ASSUME NEW i \in DOMAIN F, F[i].type = "resolved"
      PROVE  deferred'[F[i].step] # "open"
  <2>1. CASE i \in DOMAIN events
    <3>1. F[i] = events[i] /\ events[i] \in Event
      BY <1>1, <2>1
    <3>2. events[i].step \in Deferred
      BY <1>8, <3>1 DEF Event
    <3> QED
      BY <1>8, <2>1, <3>1, <3>2 DEF HistoryInv
  <2>2. CASE i \notin DOMAIN events
    BY <1>1, <1>8, <2>2
  <2> QED
    BY <2>1, <2>2
<1> QED
  BY <1>2, <1>3, <1>5, <1>6, <1>7, <1>8 DEF HistoryInv

(* The transactions of the host keep the history valid. *)
LEMMA HostHistory ==
  ASSUME TypeInv, HistoryInv, HostStep
  PROVE  HistoryInv'
PROOF
<1>1. CASE Create
  <2>1. events' = <<Started>> /\ Started.type = "started"
    BY <1>1 DEF Create, Started
  <2>2. DOMAIN events' = {1} /\ events'[1] = Started
    BY <2>1
  <2>3. Valid(events') /\ Unended(events')
    BY <2>1, <2>2 DEF Valid, Unended
  <2>4. NoDispatchAfterCancel'
    BY <2>1, <2>2 DEF NoDispatchAfterCancel
  <2>5. Started # CancelRequested
    BY DEF Started, CancelRequested
  <2> QED
    BY <1>1, <2>1, <2>2, <2>3, <2>4, <2>5 DEF Create, HistoryInv
<1>2. ASSUME NEW d \in Deferred, NEW r \in Result, Resolve(d, r)
      PROVE  HistoryInv'
  <2> DEFINE e == Resolved(d, r)
  <2>1. e \in Event /\ e.type = "resolved" /\ e.step = d
    BY DEF Resolved, Event
  <2>2. state = "open" /\ deferred[d] = "open" /\ state' = "open" /\ cancel' = cancel
    BY <1>2 DEF Resolve
  <2>3. e \notin Range(events)
    BY <2>1, <2>2 DEF HistoryInv, Range
  <2>4. Scheduled(d) \in Range(events)
    BY <2>2 DEF HistoryInv
  <2>5. events' = Append(events, e) /\ deferred' = [deferred EXCEPT ![d] = r]
    BY <1>2 DEF Resolve
  <2>6. r # "open"
    BY NoneAssumption
  <2>7. deferred \in [Deferred -> {"absent", "open"} \cup Result]
    BY DEF TypeInv, RowOK, LedgerTypeOK
  <2>8. /\ deferred'[d] # "open"
        /\ \A c \in Deferred : deferred'[c] = "open" => deferred[c] = "open"
    BY <2>5, <2>6, <2>7
  <2> HIDE DEF e
  <2> QED
    BY <2>1, <2>2, <2>3, <2>4, <2>5, <2>8, InputHistory
<1>3. CASE Cancel
  <2>1. CancelRequested \in Event /\ CancelRequested.type = "cancel"
    BY DEF CancelRequested, Event
  <2>2. CancelRequested \notin Range(events)
    BY <1>3 DEF Cancel, HistoryInv, Range
  <2> QED
    BY <1>3, <2>1, <2>2, InputHistory DEF Cancel
<1>4. CASE Acknowledge
  <2>1. events' = <<>> /\ DOMAIN events' = {}
    BY <1>4 DEF Acknowledge
  <2> QED
    BY <1>4, <2>1 DEF Acknowledge, HistoryInv, Valid, NoDispatchAfterCancel
<1>5. CASE Wake
  BY <1>5 DEF Wake, HistoryInv, NoDispatchAfterCancel
<1> QED
  BY <1>1, <1>2, <1>3, <1>4, <1>5 DEF HostStep

-----------------------------------------------------------------------------
(* The shapes of a step *)

(* A session's step that writes nothing: it keeps its token and what it    *)
(* read, reads everything, or starts over.                                 *)
QuietStep(s, new) ==
  /\ UNCHANGED <<ledgerVars, now>>
  /\ Become(s, new)
  /\ ses[s].pc \in Active
  /\ \/ new.token = 0
     \/ /\ new.token = ses[s].token
        /\ new.seen \in {ses[s].seen, Len(events)}
  /\ state = "absent" => Unread(new)
  /\ state = "open" => Remembers(events, new)

(* Such a step keeps the invariant. *)
LEMMA QuietKeeps ==
  ASSUME TypeInv, ReplayInv, NEW s \in Session, NEW new, QuietStep(s, new)
  PROVE  ReplayInv'
PROOF
<1>1. /\ state' = state /\ events' = events /\ fence' = fence /\ holder' = holder
      /\ cancel' = cancel /\ wake' = wake /\ deferred' = deferred /\ now' = now
  BY DEF QuietStep, ledgerVars
<1>2. HistoryInv'
  BY <1>1 DEF ReplayInv, HistoryInv, NoDispatchAfterCancel
<1>3. ses'[s] = new /\ \A t \in Session : t # s => ses'[t] = ses[t]
  BY DEF QuietStep, Become, TypeInv
<1>4. ASSUME NEW t \in Session
      PROVE  /\ state' = "absent" => Unread(ses'[t])
             /\ state' = "open" => Remembers(events', ses'[t])
  BY <1>1, <1>3 DEF QuietStep, ReplayInv, ReadingInv
<1>5. OneToken'
  BY <1>3 DEF QuietStep, ReplayInv, ReadingInv, OneToken
<1>6. ViewsComplete'
  <2> SUFFICES ASSUME NEW t \in Session, state = "open", ses'[t].token = fence,
                      fence # 0, NEW i \in (ses'[t].seen + 1)..Len(events)
               PROVE  HostInput(events[i])
    BY <1>1 DEF ViewsComplete
  <2>1. CASE t # s
    BY <1>3, <2>1 DEF ReplayInv, ReadingInv, ViewsComplete
  <2>2. CASE t = s
    <3>1. new.token = ses[s].token /\ new.seen \in {ses[s].seen, Len(events)}
      BY <1>3, <2>2 DEF QuietStep
    <3>2. Len(events) \in Nat
      BY SessionTyped
    <3>3. new.seen = ses[s].seen
      BY <1>3, <2>2, <3>1, <3>2
    <3> QED
      BY <1>3, <2>2, <3>1, <3>3 DEF ReplayInv, ReadingInv, ViewsComplete
  <2> QED
    BY <2>1, <2>2
<1>7. SleepsInformed'
  <2> SUFFICES ASSUME state = "open", holder = None, ~Due
               PROVE  \E t \in Session : /\ ses'[t].pc = "suspended"
                                         /\ ses'[t].token = fence
                                         /\ ses'[t].seen = Len(events)
    BY <1>1 DEF SleepsInformed, Due
  <2>1. PICK t \in Session : /\ ses[t].pc = "suspended" /\ ses[t].token = fence
                             /\ ses[t].seen = Len(events)
    BY DEF ReplayInv, SleepsInformed
  <2>2. t # s
    BY <2>1 DEF QuietStep, Active
  <2> QED
    BY <1>3, <2>1, <2>2
<1> QED
  BY <1>2, <1>4, <1>5, <1>6, <1>7 DEF ReplayInv, ReadingInv

(* A session's committed write of own: it is the newest holder, or was, *)
(* and read all there is.                                               *)
WriteStep(s, new, own) ==
  /\ Become(s, new)
  /\ events' = events \o own
  /\ fence' = FenceOf(ses[s].token)
  /\ new.token = FenceOf(ses[s].token)
  /\ new.seen = Len(events) + Len(own)

(* After a write the writer read all, and the others remember what they did. *)
LEMMA WriteReading ==
  ASSUME TypeInv, FenceInv, ReadingInv, NEW s \in Session, NEW new,
         NEW own \in Seq(Event), Writable(s), WriteStep(s, new, own),
         state' = "open" /\ Remembers(events', new)
  PROVE  ReadingInv'
PROOF
<1>1. ses'[s] = new /\ \A t \in Session : t # s => ses'[t] = ses[t]
  BY DEF WriteStep, Become, TypeInv
<1>2. state = "open"
  BY WriterRead
<1>3. events \in Seq(Event) /\ \A t \in Session : ses[t] \in SessionState
  BY DEF TypeInv, RowOK, LedgerTypeOK
<1>4. \A t \in Session : Remembers(events', ses'[t])
  BY <1>1, <1>2, <1>3, RemembersMore DEF WriteStep, ReadingInv
<1>5. /\ fence \in Nat /\ \A t \in Session : ses[t].token \in Nat /\ ses[t].token <= fence
      /\ new.token = fence'
  BY SessionTyped DEF FenceInv, WriteStep
<1>6. ses[s].token # 0 => ses[s].token = fence
  BY DEF Writable, MayWrite
<1>7. ASSUME NEW t \in Session, t # s
      PROVE  ses'[t].token # fence' /\ (ses'[t].token = ses[t].token)
  <2>1. CASE ses[s].token = 0
    BY <1>1, <1>5, <1>7, <2>1 DEF WriteStep, FenceOf
  <2>2. CASE ses[s].token # 0
    <3>1. fence' = fence /\ fence # 0
      BY <1>6, <2>2 DEF WriteStep, FenceOf
    <3> QED
      BY <1>1, <1>6, <1>7, <2>2, <3>1 DEF ReadingInv, OneToken
  <2> QED
    BY <2>1, <2>2
<1>8. OneToken'
  <2> SUFFICES ASSUME NEW t \in Session, NEW u \in Session, ses'[t].token # 0,
                      ses'[t].token = ses'[u].token
               PROVE  t = u
    BY DEF OneToken
  <2>1. CASE t = s \/ u = s
    BY <1>1, <1>5, <1>7, <2>1
  <2>2. CASE t # s /\ u # s
    BY <1>7, <2>2 DEF ReadingInv, OneToken
  <2> QED
    BY <2>1, <2>2
<1>9. ViewsComplete'
  <2> SUFFICES ASSUME NEW t \in Session, ses'[t].token = fence',
                      NEW i \in (ses'[t].seen + 1)..Len(events')
               PROVE  HostInput(events'[i])
    BY DEF ViewsComplete
  <2>1. t = s
    BY <1>7
  <2>2. Len(events') = new.seen /\ new.seen \in Nat
    BY <1>3, ConcatProperties, LenProperties DEF WriteStep
  <2> QED
    BY <1>1, <2>1, <2>2
<1> QED
  BY <1>4, <1>8, <1>9 DEF ReadingInv

(* A write that keeps the run keeps the invariant. *)
LEMMA HoldReplays ==
  ASSUME TypeInv, FenceInv, ReplayInv, NEW s \in Session, NEW new,
         NEW own \in Seq(Event), NEW proven, NEW owed, Writable(s),
         Addable(events, own),
         \A j \in DOMAIN own : own[j].type = "dispatched" => ~cancel,
         WriteHold(s, ses[s].token, own, proven, owed),
         WriteStep(s, new, own), Remembers(events', new)
  PROVE  ReplayInv'
PROOF
<1>1. /\ state = "open" /\ state' = "open" /\ cancel' = cancel
      /\ events' = events \o own /\ deferred' = Registered(own) /\ holder' = s
  BY WriterRead DEF WriteHold, ReplayInv
<1>2. HistoryInv'
  BY <1>1, GrowHistory DEF ReplayInv
<1>3. ReadingInv'
  BY <1>1, WriteReading DEF ReplayInv
<1>4. SleepsInformed'
  BY <1>1, NoneAssumption DEF SleepsInformed
<1> QED
  BY <1>2, <1>3, <1>4 DEF ReplayInv

-----------------------------------------------------------------------------
(* One lemma per step of a session *)

(* What a session knows of an open run, in the terms of the invariant. *)
LEMMA KnownIs ==
  ASSUME TypeInv, NEW s \in Session, Remembers(events, ses[s])
  PROVE  /\ Read(s) = 1..ses[s].seen
         /\ Known(s) = KnownTo(events, ses[s])
         /\ ses[s] \in SessionState
         /\ events \in Seq(Event)
PROOF
<1>1. ses[s].seen <= Len(events)
  BY DEF Remembers
<1>2. Read(s) = 1..ses[s].seen
  BY <1>1 DEF Read
<1>3. Known(s) = KnownTo(events, ses[s])
  BY <1>2 DEF Known, KnownTo, Prefix, Range
<1> QED
  BY <1>2, <1>3 DEF TypeInv, RowOK, LedgerTypeOK

(* A call that starts over, is over, or concludes without its buffer. *)
LEMMA BlankReplays ==
  ASSUME TypeInv, ReplayInv, NEW s \in Session, NEW new,
         UNCHANGED <<ledgerVars, now>>, Become(s, new),
         ses[s].pc \in Active, new.token = 0, new.buffer = <<>>, new.seen = 0,
         new.pc \in {"idle"} \cup Over,
         state = "absent" => new.pc \in {"idle", "crashed"}
  PROVE  ReplayInv'
PROOF
<1>1. events \in Seq(Event) /\ Len(events) \in Nat
  BY LenProperties DEF TypeInv, RowOK, LedgerTypeOK
<1>2. Remembers(events, new)
  BY <1>1, BlankRemembers DEF Over
<1>3. QuietStep(s, new)
  BY <1>2 DEF QuietStep, Unread
<1> QED
  BY <1>3, QuietKeeps

(* A session at work is in no run that was not submitted. *)
LEMMA WorkingIsSubmitted ==
  ASSUME ReplayInv, NEW s \in Session, ses[s].pc \notin {"idle", "crashed"}
  PROVE  state # "absent"
PROOF BY DEF ReplayInv, ReadingInv, Unread

(* A write that finds newer history, or no lease, forgets what it read. *)
LEMMA StoppedReplays ==
  ASSUME TypeInv, ReplayInv, NEW s \in Session, WriteStopped(s),
         ses[s].pc \in Active \ {"idle"}
  PROVE  ReplayInv'
PROOF
<1>1. state # "absent"
  BY WorkingIsSubmitted DEF Active
<1>2. CASE Become(s, [Fresh EXCEPT !.aware = ses[s].aware])
  BY <1>1, <1>2, BlankReplays DEF WriteStopped, Fresh
<1>3. CASE Leave(s, "refused")
  BY <1>1, <1>3, BlankReplays DEF WriteStopped, Leave, Fresh, Over
<1> QED
  BY <1>2, <1>3 DEF WriteStopped

(* A session that keeps its buffer and goes on to wait or to end. *)
LEMMA LessReplays ==
  ASSUME TypeInv, ReplayInv, NEW s \in Session, NEW new,
         UNCHANGED <<ledgerVars, now>>, Become(s, new),
         ses[s].pc \in Active \ {"idle"},
         new.token = ses[s].token, new.buffer = ses[s].buffer,
         new.seen = ses[s].seen,
         new.pc \notin {"idle", "attempt", "lost", "checked", "proving"}
  PROVE  ReplayInv'
PROOF
<1>1. state # "absent"
  BY WorkingIsSubmitted DEF Active
<1>2. state = "open" => Remembers(events, new)
  BY RemembersLess DEF ReplayInv, ReadingInv
<1>3. QuietStep(s, new)
  BY <1>1, <1>2 DEF QuietStep
<1> QED
  BY <1>3, QuietKeeps

(* What concluding and waiting keep of the memory. *)
LEMMA UnwoundKeeps ==
  ASSUME NEW me \in SessionState, NEW out, NEW at
  PROVE  /\ Conclude(me, out).token = me.token
         /\ Conclude(me, out).seen = me.seen
         /\ Conclude(me, out).buffer = me.buffer
         /\ Conclude(me, out).pc = "finish"
         /\ Waiting(me, at).token = me.token
         /\ Waiting(me, at).seen = me.seen
         /\ Waiting(me, at).buffer = me.buffer
         /\ Waiting(me, at).pc = "park"
PROOF BY DEF Conclude, Waiting, Unwound, SessionState

(* A shut gate ends the run without a write. *)
LEMMA GateShutReplays ==
  ASSUME TypeInv, ReplayInv, NEW s \in Session, GateShut(s),
         UNCHANGED <<ledgerVars, now>>, ses[s].pc \in Active \ {"idle"}
  PROVE  ReplayInv'
PROOF
<1>1. PICK out \in Outcome : Become(s, Conclude(ses[s], out))
  BY DEF GateShut, Outcome
<1>2. ses[s] \in SessionState
  BY SessionTyped
<1> QED
  BY <1>1, <1>2, UnwoundKeeps, LessReplays

(* The definition runs: loading, recording, deciding. *)
LEMMA DefinitionReplays ==
  ASSUME TypeInv, ReplayInv, NEW s \in Session,
         \/ Load(s) \/ Observe(s) \/ Interrupted(s) \/ Record(s) \/ Refuse(s)
         \/ Attempt(s) \/ Suspend(s) \/ Return(s)
  PROVE  ReplayInv'
PROOF
<1> DEFINE me == ses[s]
<1>1. /\ me \in SessionState /\ events \in Seq(Event) /\ Len(events) \in Nat
      /\ me.buffer \in Seq(Event)
  BY SessionTyped DEF TypeInv, RowOK, LedgerTypeOK
<1>2. state = "open" => Remembers(events, me)
  BY DEF ReplayInv, ReadingInv
<1>3. me.pc \in {"run", "proving", "attempt"} => state # "absent"
  BY WorkingIsSubmitted
<1>4. CASE Load(s)
  <2> DEFINE new == [me EXCEPT !.pc = "run", !.seen = Len(events)]
  <2>1. CASE state = "open" /\ Become(s, new)
    <3>1. /\ new.token = me.token /\ new.seen = Len(events) /\ new.pc = "run"
          /\ new.buffer = me.buffer
      BY <1>1 DEF SessionState
    <3>2. me.buffer = <<>>
      BY <1>2, <1>4, <2>1 DEF Load, Remembers
    <3> HIDE DEF new
    <3>3. Remembers(events, new)
      BY <1>1, <3>1, <3>2, BlankRemembers
    <3>4. QuietStep(s, new)
      BY <1>4, <2>1, <3>1, <3>3 DEF Load, QuietStep, Active
    <3> QED
      BY <3>4, QuietKeeps
  <2>2. CASE Leave(s, "ended") \/ Leave(s, "refused")
    <3>1. PICK how \in {"ended", "refused"} : Become(s, [Fresh EXCEPT !.pc = how])
      BY <2>2 DEF Leave
    <3> QED
      BY <1>4, <3>1, BlankReplays DEF Load, Fresh, Over, Active
  <2> QED
    BY <1>4, <2>1, <2>2 DEF Load
<1>5. CASE Observe(s)
  <2> DEFINE new == [me EXCEPT !.aware = TRUE]
  <2>1. /\ new.token = me.token /\ new.seen = me.seen /\ new.pc = me.pc
        /\ new.buffer = me.buffer /\ new.attempt = me.attempt
    BY <1>1 DEF SessionState
  <2>2. Become(s, new)
    BY <1>5 DEF Observe
  <2> HIDE DEF new
  <2>3. state = "open" => Remembers(events, new)
    BY <1>2, <2>1, RemembersSame
  <2>4. QuietStep(s, new)
    BY <1>3, <1>5, <2>1, <2>2, <2>3 DEF Observe, QuietStep, Active
  <2> QED
    BY <2>4, QuietKeeps
<1>6. ASSUME NEW e \in Event, e.type \in Buffered, me.pc = "run",
             UNCHANGED <<ledgerVars, now>>,
             Become(s, [me EXCEPT !.buffer = Append(me.buffer, e)]),
             state = "open" /\ Once(e) => e \notin KnownTo(events, me),
             state = "open" /\ e.type = "settled" =>
               e.attempt \in 1..me.seen /\ events[e.attempt].type = "dispatched"
      PROVE  ReplayInv'
  <2> DEFINE new == [me EXCEPT !.buffer = Append(me.buffer, e)]
  <2>1. /\ new.token = me.token /\ new.seen = me.seen /\ new.pc = me.pc
        /\ new.buffer = Append(me.buffer, e)
    BY <1>1 DEF SessionState
  <2>2. Append(me.buffer, e) \in Seq(Event)
    BY <1>1, <1>6, AppendProperties
  <2>3. new \in SessionState
    BY <1>1, <2>2 DEF SessionState
  <2> HIDE DEF new
  <2>4. state = "open" => Remembers(events, new)
    BY <1>1, <1>2, <1>6, <2>1, <2>3, AppendRemembers
  <2>5. QuietStep(s, new)
    BY <1>3, <1>6, <2>1, <2>4 DEF QuietStep, Active, new
  <2> QED
    BY <2>5, QuietKeeps
<1>7. CASE Interrupted(s)
  <2>1. PICK a \in Running(s) :
          Become(s, [me EXCEPT !.buffer = Append(me.buffer, Settled(a))])
    BY <1>7 DEF Interrupted
  <2>2. a \in Nat /\ Settled(a) \in Event
    <3>1. a \in Nat
      BY <1>1, <2>1 DEF Running, Read, SessionState
    <3> QED
      BY <3>1, EventTyped
  <2>3. Settled(a).type = "settled" /\ Settled(a).attempt = a
    BY DEF Settled
  <2>4. ASSUME state = "open"
        PROVE  /\ Settled(a) \notin KnownTo(events, me)
               /\ a \in 1..me.seen /\ events[a].type = "dispatched"
    BY <1>2, <2>1, <2>4, KnownIs DEF Running
  <2> QED
    BY <1>6, <1>7, <2>1, <2>2, <2>3, <2>4 DEF Interrupted, Buffered
<1>8. CASE Record(s)
  <2>1. PICK e \in {Pure} \cup {Scheduled(d) : d \in Deferred} :
          /\ e = Pure \/ e \notin Known(s)
          /\ Become(s, [me EXCEPT !.buffer = Append(me.buffer, e)])
    BY <1>8 DEF Record
  <2>2. /\ e \in Event /\ e.type \in {"pure", "scheduled"}
        /\ e = Pure => e.type = "pure"
    BY <2>1, EventTyped DEF Pure, Scheduled
  <2>3. state = "open" /\ Once(e) => e \notin KnownTo(events, me)
    BY <1>2, <2>1, <2>2, KnownIs DEF Once
  <2> QED
    BY <1>6, <1>8, <2>1, <2>2, <2>3 DEF Record, Buffered
<1>9. CASE Refuse(s)
  BY <1>9, GateShutReplays DEF Refuse, Active
<1>10. CASE Attempt(s)
  <2>1. PICK k \in StepKind :
          Become(s, [me EXCEPT !.pc = "checked", !.kind = k, !.proven = {}])
    BY <1>10 DEF Attempt
  <2> DEFINE new == [me EXCEPT !.pc = "checked", !.kind = k, !.proven = {}]
  <2>2. /\ new.token = me.token /\ new.seen = me.seen /\ new.pc = "checked"
        /\ new.buffer = me.buffer
    BY <1>1 DEF SessionState
  <2> HIDE DEF new
  <2>3. ASSUME state = "open"
        PROVE  Remembers(events, new)
    <3>1. Remembers(events, me)
      BY <1>2, <2>3
    <3>2. \A i \in 1..me.seen :
            events[i].type = "dispatched" => Settled(i) \in KnownTo(events, me)
      BY <1>10, <3>1, KnownIs DEF Attempt, Running
    <3>3. Prefix(events, new) = Prefix(events, me)
          /\ KnownTo(events, new) = KnownTo(events, me)
      BY <2>2 DEF Prefix, KnownTo
    <3> QED
      BY <2>2, <3>1, <3>2, <3>3 DEF Remembers
  <2>4. QuietStep(s, new)
    BY <1>3, <1>10, <2>1, <2>2, <2>3 DEF Attempt, QuietStep, Active, new
  <2> QED
    BY <2>4, QuietKeeps
<1>11. CASE Suspend(s)
  <2>1. PICK at : Become(s, Waiting(me, at))
    BY <1>11 DEF Suspend
  <2> QED
    BY <1>1, <1>11, <2>1, UnwoundKeeps, LessReplays DEF Suspend, Active
<1>12. CASE Return(s)
  <2>1. PICK out : Become(s, Conclude(me, out))
    BY <1>12 DEF Return
  <2> QED
    BY <1>1, <1>12, <2>1, UnwoundKeeps, LessReplays DEF Return, Active
<1> QED
  BY <1>4, <1>5, <1>7, <1>8, <1>9, <1>10, <1>11, <1>12

(* Asking for proofs, waiting for an attempt, and giving up. *)
LEMMA WaitingReplays ==
  ASSUME TypeInv, ReplayInv, NEW s \in Session,
         \/ Prove(s) \/ Beat(s) \/ SettleModel(s) \/ GiveUp(s) \/ Release(s)
         \/ Crash(s)
  PROVE  ReplayInv'
PROOF
<1> DEFINE me == ses[s]
<1>1. /\ me \in SessionState /\ events \in Seq(Event) /\ Len(events) \in Nat
      /\ me.buffer \in Seq(Event)
  BY SessionTyped DEF TypeInv, RowOK, LedgerTypeOK
<1>2. state = "open" => Remembers(events, me)
  BY DEF ReplayInv, ReadingInv
<1>3. me.pc \notin {"idle", "crashed"} => state # "absent"
  BY WorkingIsSubmitted
<1>4. CASE Prove(s)
  <2>1. me.pc = "proving" /\ UNCHANGED <<ledgerVars, now>>
    BY <1>4 DEF Prove
  <2>2. CASE GateShut(s)
    BY <2>1, <2>2, GateShutReplays DEF Active
  <2>3. CASE Become(s, Waiting(me, now))
    BY <1>1, <2>1, <2>3, UnwoundKeeps, LessReplays DEF Active
  <2>4. ASSUME NEW P,
               Become(s, [me EXCEPT !.pc = "unproven", !.proven = Ids(P), !.left = {}])
        PROVE  ReplayInv'
    <3> DEFINE new == [me EXCEPT !.pc = "unproven", !.proven = Ids(P), !.left = {}]
    <3>1. /\ new.token = me.token /\ new.seen = me.seen /\ new.pc = "unproven"
          /\ new.buffer = me.buffer
      BY <1>1 DEF SessionState
    <3> HIDE DEF new
    <3> QED
      BY <2>1, <2>4, <3>1, LessReplays DEF Active, new
  <2>5. ASSUME NEW P,
               Become(s, [me EXCEPT !.pc = "checked", !.proven = Ids(P), !.left = {}])
        PROVE  ReplayInv'
    <3> DEFINE new == [me EXCEPT !.pc = "checked", !.proven = Ids(P), !.left = {}]
    <3>1. /\ new.token = me.token /\ new.seen = me.seen /\ new.pc = "checked"
          /\ new.buffer = me.buffer /\ new.attempt = me.attempt
      BY <1>1 DEF SessionState
    <3> HIDE DEF new
    <3>2. state = "open" => Remembers(events, new)
      BY <1>2, <2>1, <3>1, RemembersSame
    <3>3. QuietStep(s, new)
      BY <1>3, <2>1, <2>5, <3>1, <3>2 DEF QuietStep, Active, new
    <3> QED
      BY <3>3, QuietKeeps
  <2> QED
    BY <1>4, <2>2, <2>3, <2>4, <2>5 DEF Prove
<1>5. CASE Beat(s)
  <2> DEFINE w == WithoutBeats(me.buffer)
             mid == [me EXCEPT !.buffer = w]
             new == [me EXCEPT !.buffer = Append(w, Heartbeat)]
  <2>1. w \in Seq(Event)
    BY <1>1, WithoutBeatsTyped
  <2>2. Append(w, Heartbeat) \in Seq(Event) /\ Heartbeat \in Event
        /\ Heartbeat.type = "heartbeat"
    BY <2>1, EventTyped, AppendProperties DEF Heartbeat
  <2>3. /\ mid \in SessionState /\ new \in SessionState
        /\ mid.buffer = w /\ mid.seen = me.seen /\ mid.pc = me.pc
        /\ mid.attempt = me.attempt
        /\ new.buffer = Append(w, Heartbeat) /\ new.seen = me.seen
        /\ new.pc = me.pc /\ new.attempt = me.attempt /\ new.token = me.token
    BY <1>1, <2>1, <2>2 DEF SessionState
  <2>4. me.pc = "attempt" /\ Become(s, new) /\ UNCHANGED <<ledgerVars, now>>
    BY <1>5 DEF Beat
  <2>5. state = "open" => Remembers(events, mid)
    BY <1>1, <1>2, <2>4, WithoutBeatsRemembers
  <2> HIDE DEF w, mid, new
  <2>6. state = "open" => Remembers(events, new)
    BY <2>2, <2>3, <2>4, <2>5, AppendRemembers DEF Settled, Once, Buffered, Heartbeat
  <2>7. QuietStep(s, new)
    BY <1>3, <2>3, <2>4, <2>6 DEF QuietStep, Active
  <2> QED
    BY <2>7, QuietKeeps
<1>6. CASE SettleModel(s)
  <2> DEFINE e == Settled(me.attempt)
             new == [Unwound(me) EXCEPT !.pc = "run", !.buffer = Append(@, e)]
  <2>1. e \in Event /\ e.type = "settled" /\ e.attempt = me.attempt
    BY <1>1, EventTyped DEF Settled, SessionState
  <2>2. Append(me.buffer, e) \in Seq(Event)
    BY <1>1, <2>1, AppendProperties
  <2>3. /\ new \in SessionState /\ new.token = me.token /\ new.seen = me.seen
        /\ new.pc = "run" /\ new.buffer = Append(me.buffer, e)
    <3>1. Unwound(me) \in SessionState /\ Unwound(me).buffer = me.buffer
          /\ Unwound(me).token = me.token /\ Unwound(me).seen = me.seen
      BY <1>1, UnwoundTyped DEF Unwound, SessionState
    <3> HIDE DEF e
    <3> QED
      BY <2>2, <3>1 DEF SessionState, Active
  <2>4. me.pc = "attempt" /\ UNCHANGED <<ledgerVars, now>>
    BY <1>6 DEF SettleModel
  <2> HIDE DEF e, new
  <2>5. state = "open" => /\ Remembers(events, me) /\ e \notin KnownTo(events, me)
                          /\ e.attempt \in 1..me.seen
                          /\ events[e.attempt].type = "dispatched"
    BY <1>2, <2>1, <2>4 DEF Remembers, e
  <2>6. state = "open" => Remembers(events, new)
    BY <1>1, <2>1, <2>3, <2>5, AppendRemembers DEF Buffered
  <2>7. CASE Become(s, new)
    <3>1. QuietStep(s, new)
      BY <1>3, <2>3, <2>4, <2>6, <2>7 DEF QuietStep, Active
    <3> QED
      BY <3>1, QuietKeeps
  <2>8. ASSUME NEW out, Become(s, Conclude(new, out))
        PROVE  ReplayInv'
    <3> DEFINE end == Conclude(new, out)
    <3>1. /\ end.token = me.token /\ end.seen = me.seen /\ end.pc = "finish"
          /\ end.buffer = new.buffer /\ end.seen = new.seen
      BY <2>3, UnwoundKeeps
    <3> HIDE DEF end
    <3>2. state = "open" => Remembers(events, end)
      BY <2>6, <3>1, RemembersLess
    <3>3. QuietStep(s, end)
      BY <1>3, <2>4, <2>8, <3>1, <3>2 DEF QuietStep, Active, end
    <3> QED
      BY <3>3, QuietKeeps
  <2> QED
    BY <1>6, <2>7, <2>8 DEF SettleModel, new, e
<1>7. CASE GiveUp(s)
  <2>1. PICK owed : Become(s, [Conclude(me, "limited") EXCEPT !.owed = owed])
    BY <1>7 DEF GiveUp
  <2> DEFINE new == [Conclude(me, "limited") EXCEPT !.owed = owed]
  <2>2. /\ new.token = me.token /\ new.seen = me.seen /\ new.pc = "finish"
        /\ new.buffer = me.buffer
    <3>1. Conclude(me, "limited") \in SessionState
      BY <1>1, ConcludeTyped DEF Outcome
    <3> HIDE DEF me
    <3> QED
      BY <1>1, <3>1, UnwoundKeeps DEF SessionState
  <2> HIDE DEF new
  <2> QED
    BY <1>7, <2>1, <2>2, LessReplays DEF GiveUp, Active, new
<1>8. CASE Release(s)
  <2> DEFINE to == IF me.pc = "park" THEN "parking" ELSE "finishing"
             owed == Append(me.owed, [fence |-> me.token, attempt |-> 0])
  <2>1. \/ Become(s, [me EXCEPT !.pc = to])
        \/ Become(s, [me EXCEPT !.pc = to, !.owed = owed])
    BY <1>8 DEF Release, Move
  <2> HIDE DEF owed
  <2> DEFINE one == [me EXCEPT !.pc = to]
             two == [me EXCEPT !.pc = to, !.owed = owed]
  <2>2. /\ one.token = me.token /\ one.seen = me.seen /\ one.pc = to
        /\ one.buffer = me.buffer
        /\ two.token = me.token /\ two.seen = me.seen /\ two.pc = to
        /\ two.buffer = me.buffer
    BY <1>1 DEF SessionState
  <2>3. me.pc \in {"park", "finish"} /\ UNCHANGED <<ledgerVars, now>>
    BY <1>8 DEF Release
  <2>4. Become(s, one) \/ Become(s, two)
    BY <2>1
  <2> HIDE DEF one, two
  <2> QED
    BY <2>2, <2>3, <2>4, LessReplays DEF Active
<1>9. CASE Crash(s)
  BY <1>9, BlankReplays DEF Crash, Leave, Fresh, Over
<1> QED
  BY <1>4, <1>5, <1>6, <1>7, <1>8, <1>9

(* A write whose error ends the run concludes without one. *)
LEMMA LimitReplays ==
  ASSUME TypeInv, ReplayInv, NEW s \in Session, LimitReached(s), now' = now,
         ses[s].pc \in Active \ {"idle"}
  PROVE  ReplayInv'
PROOF
<1>1. ses[s] \in SessionState
  BY SessionTyped
<1> QED
  BY <1>1, UnwoundKeeps, LessReplays DEF LimitReached

(* The memory after a write of n events, and what it makes of it. *)
LEMMA WroteIs ==
  ASSUME TypeInv, NEW s \in Session, NEW n \in Nat
  PROVE  /\ Wrote(s, n) \in SessionState
         /\ Wrote(s, n).token = FenceOf(ses[s].token)
         /\ Wrote(s, n).seen = Len(events) + n
         /\ Wrote(s, n).buffer = <<>>
         /\ Wrote(s, n).pc = ses[s].pc
         /\ Wrote(s, n).attempt = ses[s].attempt
PROOF
<1>1. ses[s] \in SessionState
  BY SessionTyped
<1> QED
  BY <1>1, WroteTyped DEF Wrote, SessionState

(* A write that leaves an empty buffer, and nothing to remember. *)
LEMMA HoldBlankReplays ==
  ASSUME TypeInv, FenceInv, ReplayInv, NEW s \in Session, NEW new,
         NEW own \in Seq(Event), NEW proven, NEW owed, Writable(s),
         Addable(events, own),
         \A j \in DOMAIN own : own[j].type = "dispatched" => ~cancel,
         WriteHold(s, ses[s].token, own, proven, owed), Become(s, new),
         new.token = FenceOf(ses[s].token),
         new.seen = Len(events) + Len(own), new.buffer = <<>>,
         new.pc \notin {"attempt", "lost", "checked", "proving"}
  PROVE  ReplayInv'
PROOF
<1>1. events' = events \o own /\ fence' = FenceOf(ses[s].token)
  BY DEF WriteHold
<1>2. events \in Seq(Event)
  BY DEF TypeInv, RowOK, LedgerTypeOK
<1>3. events' \in Seq(Event) /\ Len(events') = new.seen /\ new.seen \in Nat
  BY <1>1, <1>2, ConcatProperties, LenProperties
<1>4. Remembers(events', new)
  BY <1>3, BlankRemembers
<1>5. WriteStep(s, new, own)
  BY <1>1 DEF WriteStep
<1> QED
  BY <1>4, <1>5, HoldReplays

(* Dispatching an attempt, or only what precedes it. *)
LEMMA DispatchReplays ==
  ASSUME TypeInv, FenceInv, ReplayInv, NEW s \in Session, Dispatch(s)
  PROVE  ReplayInv'
PROOF
<1> DEFINE me == ses[s]
           own == Append(me.buffer, Dispatched(FenceOf(me.token), me.kind))
           a == Len(events) + Len(own)
<1>1. /\ me \in SessionState /\ events \in Seq(Event) /\ Len(events) \in Nat
      /\ me.buffer \in Seq(Event) /\ Len(me.buffer) \in Nat
  BY SessionTyped, LenProperties DEF TypeInv, RowOK, LedgerTypeOK
<1>2. me.pc = "checked"
  BY DEF Dispatch
<1>3. FenceOf(me.token) \in Nat /\ me.kind \in StepKind
  BY <1>1, FenceTyped DEF TypeInv, SessionState
<1>4. CASE WriteStopped(s)
  BY <1>2, <1>4, StoppedReplays DEF Active
<1>5. CASE LimitReached(s) /\ now' = now
  BY <1>2, <1>5, LimitReplays DEF Active
<1>6. ASSUME Writable(s), Allowed(me.token, me.proven),
             WriteHold(s, me.token, own, me.proven, me.owed),
             Become(s, [Wrote(s, Len(own)) EXCEPT !.pc = "attempt",
                          !.attempt = a, !.proven = {}])
      PROVE  ReplayInv'
  <2> DEFINE new == [Wrote(s, Len(own)) EXCEPT !.pc = "attempt",
                       !.attempt = a, !.proven = {}]
             e == Dispatched(FenceOf(me.token), me.kind)
  <2>1. e \in Event /\ e.type = "dispatched"
    BY <1>3, EventTyped DEF Dispatched
  <2>2. /\ own \in Seq(Event) /\ Len(own) = Len(me.buffer) + 1
        /\ own[Len(own)] = e /\ Len(own) \in Nat /\ DOMAIN own = 1..Len(own)
    <3>1. own = Append(me.buffer, e)
      OBVIOUS
    <3> HIDE DEF own, e
    <3> QED
      BY <1>1, <2>1, <3>1, AppendIs
  <2>3. Remembers(events, me) /\ ReadAll(events, me) /\ state = "open"
    BY <1>6, WriterRead DEF ReplayInv
  <2>4. Addable(events, own)
    BY <1>1, <1>2, <1>3, <2>3, AddableDispatch
  <2>5. /\ new.token = FenceOf(me.token) /\ new.seen = Len(events) + Len(own)
        /\ new.buffer = <<>> /\ new.pc = "attempt" /\ new.attempt = a
    <3>1. /\ Wrote(s, Len(own)) \in SessionState
          /\ Wrote(s, Len(own)).token = FenceOf(ses[s].token)
          /\ Wrote(s, Len(own)).seen = Len(events) + Len(own)
          /\ Wrote(s, Len(own)).buffer = <<>>
      BY <2>2, WroteIs
    <3> HIDE DEF own, a
    <3> QED
      BY <3>1 DEF SessionState
  <2>6. events' = events \o own
    BY <1>6 DEF WriteHold
  <2> HIDE DEF own, new, e
  <2>7. /\ events' \in Seq(Event) /\ Len(events') = a
        /\ events'[a] = e /\ DOMAIN events' = 1..a /\ a \in 1..a
    <3>1. /\ events' \in Seq(Event) /\ Len(events') = a /\ DOMAIN events' = 1..a
          /\ \A i \in DOMAIN events' : i \notin DOMAIN events =>
               events'[i] = own[i - Len(events)]
      <4>1. own \in Seq(Event) /\ events \in Seq(Event)
        BY <1>1, <2>2
      <4> HIDE DEF me
      <4>2. /\ events \o own \in Seq(Event)
            /\ Len(events \o own) = Len(events) + Len(own)
            /\ DOMAIN (events \o own) = 1..(Len(events) + Len(own))
            /\ \A i \in DOMAIN (events \o own) : i \notin DOMAIN events =>
                 i - Len(events) \in DOMAIN own
                 /\ (events \o own)[i] = own[i - Len(events)]
        BY <4>1, ConcatIs
      <4> QED
        BY <2>6, <4>2
    <3>2. DOMAIN events = 1..Len(events)
      BY <1>1, LenProperties
    <3>3. /\ a \in 1..a /\ a \notin 1..Len(events)
          /\ a - Len(events) = Len(own)
      BY <1>1, <2>2
    <3> QED
      BY <2>2, <3>1, <3>2, <3>3
  <2>8. Valid(events')
    BY <1>1, <2>2, <2>3, <2>4, <2>6, ConcatValid DEF ReplayInv, HistoryInv
  <2>9. Settled(a) \notin Range(events')
    <3> SUFFICES ASSUME NEW i \in 1..a, events'[i] = Settled(a)
                 PROVE  FALSE
      BY <2>7 DEF Range
    <3>1. events'[i].type = "settled" /\ events'[i].attempt = a
      BY DEF Settled
    <3>2. a \in 1..(i - 1)
      BY <2>7, <2>8, <3>1 DEF Valid
    <3> QED
      BY <2>7, <3>2
  <2>10. Remembers(events', new)
    <3>1. Prefix(events', new) = Range(events') /\ Range(new.buffer) = {}
      BY <2>5, <2>7 DEF Prefix, Range
    <3>2. Settled(a) \notin KnownTo(events', new)
      BY <2>9, <3>1 DEF KnownTo
    <3> QED
      BY <2>1, <2>5, <2>7, <3>2 DEF Remembers
  <2>11. ~cancel
    BY <1>6 DEF Allowed
  <2>12. WriteStep(s, new, own)
    BY <1>6, <2>5, <2>6 DEF WriteStep, WriteHold, new
  <2> QED
    BY <1>6, <2>2, <2>4, <2>10, <2>11, <2>12, HoldReplays
<1>7. ASSUME Writable(s), NEW new,
             WriteHold(s, me.token, me.buffer, me.proven, me.owed), Become(s, new),
             \/ new = Conclude(Wrote(s, Len(me.buffer)), "cancelled")
             \/ new = [Wrote(s, Len(me.buffer)) EXCEPT !.pc = "proving",
                         !.proven = {}, !.left = Owing(me.token, me.proven)]
      PROVE  ReplayInv'
  <2> DEFINE q == me.buffer
  <2>1. Remembers(events, me) /\ ReadAll(events, me) /\ state = "open"
    BY <1>7, WriterRead DEF ReplayInv
  <2>2. Addable(events, q) /\ \A j \in DOMAIN q : q[j].type # "dispatched"
    BY <1>1, <2>1, AddableBuffer DEF Remembers, Buffered
  <2>3. /\ Wrote(s, Len(q)) \in SessionState
        /\ Wrote(s, Len(q)).token = FenceOf(me.token)
        /\ Wrote(s, Len(q)).seen = Len(events) + Len(q)
        /\ Wrote(s, Len(q)).buffer = <<>>
    BY <1>1, WroteIs
  <2>4. CASE new = Conclude(Wrote(s, Len(q)), "cancelled")
    <3>1. /\ new.token = FenceOf(me.token) /\ new.seen = Len(events) + Len(q)
          /\ new.buffer = <<>> /\ new.pc = "finish"
      BY <2>3, <2>4, UnwoundKeeps
    <3> QED
      BY <1>1, <1>7, <2>2, <3>1, HoldBlankReplays
  <2>5. CASE new = [Wrote(s, Len(q)) EXCEPT !.pc = "proving",
                      !.proven = {}, !.left = Owing(me.token, me.proven)]
    <3>1. /\ new.token = FenceOf(me.token) /\ new.seen = Len(events) + Len(q)
          /\ new.buffer = <<>> /\ new.pc = "proving"
      <4> HIDE DEF q, me
      <4> QED
        BY <2>3, <2>5 DEF SessionState
    <3>2. events' = events \o q
      BY <1>7 DEF WriteHold
    <3>3. /\ events' \in Seq(Event) /\ Len(events') = new.seen /\ new.seen \in Nat
          /\ DOMAIN events' = 1..new.seen
          /\ Range(events') = Range(events) \cup Range(q)
          /\ \A i \in DOMAIN events' : i \notin DOMAIN events =>
               events'[i].type # "dispatched"
          /\ \A i \in DOMAIN events : events'[i] = events[i]
      <4> HIDE DEF q
      <4>1. q \in Seq(Event) /\ Len(q) \in Nat
        BY <1>1 DEF q
      <4>2. /\ events' \in Seq(Event) /\ Len(events') = Len(events) + Len(q)
            /\ DOMAIN events' = 1..(Len(events) + Len(q))
            /\ Range(events') = Range(events) \cup Range(q)
            /\ \A i \in DOMAIN events : events'[i] = events[i]
            /\ \A i \in DOMAIN events' : i \notin DOMAIN events =>
                 i - Len(events) \in DOMAIN q /\ events'[i] = q[i - Len(events)]
        BY <1>1, <3>2, <4>1, ConcatIs
      <4> QED
        BY <1>1, <2>2, <3>1, <4>1, <4>2
    <3> HIDE DEF q
    <3>4. \A i \in DOMAIN events' :
            events'[i].type = "dispatched" => Settled(i) \in Range(events')
      BY <1>1, <1>2, <2>1, <3>3, AllSettled DEF q
    <3>5. Prefix(events', new) = Range(events')
      BY <3>3 DEF Prefix, Range
    <3>6. Remembers(events', new)
      BY <3>1, <3>3, <3>4, <3>5 DEF Remembers, KnownTo
    <3>7. WriteStep(s, new, q)
      BY <1>7, <3>1, <3>2 DEF WriteStep, WriteHold
    <3> QED
      BY <1>1, <1>7, <2>2, <3>6, <3>7, HoldReplays DEF q
  <2> QED
    BY <1>7, <2>4, <2>5
<1>8. CASE Writable(s) /\ DispatchAllowed(s) /\ now' = now
  BY <1>5, <1>6, <1>8 DEF DispatchAllowed
<1>9. CASE Writable(s) /\ DispatchHeld(s) /\ now' = now
  BY <1>5, <1>7, <1>9, Zenon DEF DispatchHeld
<1> QED
  BY <1>4, <1>8, <1>9 DEF Dispatch

(* Keeping what was proven while some executor is not. *)
LEMMA HoldUnprovenReplays ==
  ASSUME TypeInv, FenceInv, ReplayInv, NEW s \in Session, HoldUnproven(s)
  PROVE  ReplayInv'
PROOF
<1> DEFINE me == ses[s]
<1>1. /\ me \in SessionState /\ events \in Seq(Event) /\ me.pc = "unproven"
      /\ me.buffer \in Seq(Event) /\ Len(me.buffer) \in Nat
  BY SessionTyped, LenProperties DEF TypeInv, RowOK, LedgerTypeOK, HoldUnproven
<1>2. CASE WriteStopped(s)
  BY <1>1, <1>2, StoppedReplays DEF Active
<1>3. CASE LimitReached(s) /\ now' = now
  BY <1>1, <1>3, LimitReplays DEF Active
<1>4. CASE /\ Writable(s)
           /\ WriteHold(s, me.token, me.buffer, me.proven, me.owed)
           /\ Become(s, Waiting(Wrote(s, Len(me.buffer)), now + ProofRetryMs))
  <2> DEFINE q == me.buffer
             new == Waiting(Wrote(s, Len(q)), now + ProofRetryMs)
  <2>1. Remembers(events, me) /\ ReadAll(events, me)
    BY <1>4, WriterRead DEF ReplayInv
  <2>2. Addable(events, q) /\ \A j \in DOMAIN q : q[j].type # "dispatched"
    BY <1>1, <2>1, AddableBuffer DEF Remembers, Buffered
  <2>3. /\ Wrote(s, Len(q)) \in SessionState
        /\ Wrote(s, Len(q)).token = FenceOf(me.token)
        /\ Wrote(s, Len(q)).seen = Len(events) + Len(q)
        /\ Wrote(s, Len(q)).buffer = <<>>
    BY <1>1, WroteIs
  <2>4. /\ new.token = FenceOf(me.token) /\ new.seen = Len(events) + Len(q)
        /\ new.buffer = <<>> /\ new.pc = "park"
    BY <2>3, UnwoundKeeps
  <2>5. Become(s, new)
    BY <1>4
  <2> HIDE DEF new
  <2> QED
    BY <1>1, <1>4, <2>2, <2>4, <2>5, HoldBlankReplays
<1> QED
  BY <1>2, <1>3, <1>4 DEF HoldUnproven

(* A renewal commits what the session buffered, or gives the attempt up. *)
LEMMA RenewReplays ==
  ASSUME TypeInv, FenceInv, ReplayInv, NEW s \in Session, Renew(s)
  PROVE  ReplayInv'
PROOF
<1> DEFINE me == ses[s]
           kept == IF Fits(Len(me.buffer), 0) THEN me.buffer
                   ELSE WithoutBeats(me.buffer)
           rest == [me EXCEPT !.buffer = kept]
           lost == [rest EXCEPT !.pc = "lost"]
<1>1. /\ me \in SessionState /\ events \in Seq(Event)
      /\ me.buffer \in Seq(Event) /\ me.pc \in {"run", "attempt"}
      /\ DOMAIN events = 1..Len(events) /\ Len(events) \in Nat
  BY SessionTyped, LenProperties DEF TypeInv, RowOK, LedgerTypeOK, Renew
<1>2. kept \in Seq(Event) /\ Len(kept) \in Nat
  BY <1>1, WithoutBeatsTyped, LenProperties
<1>3. me.pc \in Active \ {"idle"}
  BY <1>1 DEF Active
<1>4. ASSUME Remembers(events, me)
      PROVE  Remembers(events, rest)
  <2>1. CASE Fits(Len(me.buffer), 0)
    <3>1. rest = me
      BY <1>1, <2>1 DEF SessionState
    <3> QED
      BY <1>4, <3>1
  <2>2. CASE ~Fits(Len(me.buffer), 0)
    <3>1. rest = [me EXCEPT !.buffer = WithoutBeats(me.buffer)]
      BY <2>2
    <3> HIDE DEF rest
    <3> QED
      BY <1>1, <1>4, <3>1, WithoutBeatsRemembers
  <2> QED
    BY <2>1, <2>2
<1> HIDE DEF kept
<1>5. /\ rest \in SessionState /\ rest.token = me.token /\ rest.pc = me.pc
      /\ rest.seen = me.seen /\ rest.buffer = kept /\ rest.attempt = me.attempt
  BY <1>1, <1>2 DEF SessionState
<1>6. /\ lost.token = me.token /\ lost.pc = "lost" /\ lost.attempt = me.attempt
      /\ lost.seen = me.seen /\ lost.buffer = kept
  BY <1>5 DEF SessionState
<1> HIDE DEF rest, lost
<1>7. CASE WriteStopped(s)
  BY <1>3, <1>7, StoppedReplays
<1>8. state # "absent" /\ (state = "open" => Remembers(events, me))
  BY <1>1, WorkingIsSubmitted DEF ReplayInv, ReadingInv
<1>9. CASE /\ me.pc = "run" /\ Become(s, Conclude(rest, "limited"))
           /\ UNCHANGED <<ledgerVars, now>>
  <2> DEFINE new == Conclude(rest, "limited")
  <2>1. /\ new.token = me.token /\ new.seen = me.seen /\ new.buffer = kept
        /\ new.pc = "finish"
    BY <1>5, UnwoundKeeps
  <2>2. Become(s, new)
    BY <1>9
  <2> HIDE DEF new
  <2>3. state = "open" => Remembers(events, new)
    BY <1>4, <1>5, <1>8, <2>1, RemembersLess
  <2>4. QuietStep(s, new)
    BY <1>3, <1>8, <1>9, <2>1, <2>2, <2>3 DEF QuietStep
  <2> QED
    BY <2>4, QuietKeeps
<1>10. CASE /\ me.pc = "attempt" /\ Become(s, lost)
            /\ UNCHANGED <<ledgerVars, now>>
  <2>1. state = "open" => Remembers(events, lost)
    BY <1>4, <1>5, <1>6, <1>8, <1>10, RemembersSame
  <2>2. QuietStep(s, lost)
    BY <1>3, <1>6, <1>8, <1>10, <2>1 DEF QuietStep
  <2> QED
    BY <2>2, QuietKeeps
<1>11. CASE /\ Writable(s) /\ WriteHold(s, me.token, kept, {}, me.owed)
            /\ Become(s, Wrote(s, Len(kept)))
  <2> DEFINE new == Wrote(s, Len(kept))
  <2>1. Remembers(events, me) /\ ReadAll(events, me)
    BY <1>11, WriterRead DEF ReplayInv
  <2>2. Remembers(events, rest) /\ ReadAll(events, rest)
    BY <1>4, <1>5, <2>1 DEF ReadAll
  <2>3. Addable(events, kept) /\ \A j \in DOMAIN kept : kept[j].type # "dispatched"
    BY <1>1, <1>5, <2>2, AddableBuffer DEF Remembers, Buffered
  <2>4. /\ new.token = FenceOf(me.token) /\ new.seen = Len(events) + Len(kept)
        /\ new.buffer = <<>> /\ new.pc = me.pc /\ new.attempt = me.attempt
    BY <1>2, WroteIs
  <2>5. Become(s, new)
    BY <1>11
  <2> HIDE DEF new
  <2>6. CASE me.pc = "run"
    BY <1>2, <1>11, <2>3, <2>4, <2>5, <2>6, HoldBlankReplays
  <2>7. CASE me.pc = "attempt"
    <3>1. events' = events \o kept
      BY <1>11 DEF WriteHold
    <3>2. /\ events' \in Seq(Event) /\ Len(events') = new.seen /\ new.seen \in Nat
          /\ DOMAIN events' = 1..new.seen
          /\ Range(events') = Range(events) \cup Range(kept)
          /\ \A i \in DOMAIN events : i \in DOMAIN events' /\ events'[i] = events[i]
      <4> HIDE DEF me
      <4>1. /\ events \o kept \in Seq(Event)
            /\ Len(events \o kept) = Len(events) + Len(kept)
            /\ DOMAIN (events \o kept) = 1..(Len(events) + Len(kept))
            /\ Range(events \o kept) = Range(events) \cup Range(kept)
            /\ \A i \in DOMAIN events : i \in DOMAIN (events \o kept)
                                        /\ (events \o kept)[i] = events[i]
        BY <1>1, <1>2, ConcatIs
      <4> QED
        BY <1>1, <1>2, <2>4, <3>1, <4>1
    <3>3. /\ me.attempt \in 1..me.seen /\ me.seen <= Len(events)
          /\ events[me.attempt].type = "dispatched" /\ me.seen \in Nat
      BY <1>1, <2>1, <2>7 DEF Remembers, SessionState
    <3>4. Settled(me.attempt) \notin Prefix(events, me) \cup Range(kept)
      BY <1>5, <2>2, <2>7 DEF Remembers, KnownTo, Prefix
    <3>5. Settled(me.attempt) \notin Range(events)
      <4> SUFFICES ASSUME NEW i \in DOMAIN events, events[i] = Settled(me.attempt)
                   PROVE  FALSE
        BY DEF Range
      <4>1. CASE i <= me.seen
        BY <1>1, <3>4, <4>1 DEF Prefix
      <4>2. CASE i > me.seen
        BY <1>1, <2>1, <3>3, <4>2 DEF ReadAll, HostInput, Settled
      <4> QED
        BY <1>1, <3>3, <4>1, <4>2
    <3>6. Prefix(events', new) = Range(events') /\ Range(new.buffer) = {}
      BY <2>4, <3>2 DEF Prefix, Range
    <3>7. Settled(new.attempt) \notin KnownTo(events', new)
      BY <2>4, <3>2, <3>4, <3>5, <3>6 DEF KnownTo
    <3>8. new.attempt \in 1..new.seen /\ events'[new.attempt].type = "dispatched"
      BY <1>1, <2>4, <3>2, <3>3
    <3>9. Remembers(events', new)
      BY <2>4, <2>7, <3>2, <3>7, <3>8 DEF Remembers
    <3>10. WriteStep(s, new, kept)
      BY <1>11, <2>4, <2>5, <3>1 DEF WriteStep, WriteHold
    <3> QED
      BY <1>2, <1>11, <2>3, <3>9, <3>10, HoldReplays
  <2> QED
    BY <1>1, <2>6, <2>7
<1> QED
  BY <1>1, <1>7, <1>9, <1>10, <1>11 DEF Renew, kept, rest, lost

(* An activity's outcome is written at once, or ends the run. *)
LEMMA SettleActivityReplays ==
  ASSUME TypeInv, FenceInv, ReplayInv, NEW s \in Session, SettleActivity(s)
  PROVE  ReplayInv'
PROOF
<1> DEFINE me == ses[s]
           e == Settled(me.attempt)
           own == Append(me.buffer, e)
<1>1. /\ me \in SessionState /\ events \in Seq(Event) /\ Len(events) \in Nat
      /\ me.buffer \in Seq(Event) /\ me.pc = "attempt" /\ me.attempt \in Nat
      /\ now' = now
  BY SessionTyped DEF TypeInv, RowOK, LedgerTypeOK, SettleActivity
<1>2. e \in Event /\ e.type = "settled" /\ e.attempt = me.attempt
  BY <1>1, EventTyped DEF Settled
<1>3. own \in Seq(Event) /\ Len(own) \in Nat
  BY <1>1, <1>2, AppendProperties, LenProperties
<1>4. state # "absent" /\ (state = "open" => Remembers(events, me))
  BY <1>1, WorkingIsSubmitted DEF ReplayInv, ReadingInv
<1>5. CASE Leave(s, "refused") /\ UNCHANGED ledgerVars
  BY <1>1, <1>4, <1>5, BlankReplays DEF Leave, Fresh, Over, Active
<1>6. ASSUME NEW owed, Writable(s), WriteHold(s, me.token, own, {}, owed),
             Become(s, [Unwound(Wrote(s, Len(own))) EXCEPT !.pc = "run"])
      PROVE  ReplayInv'
  <2> DEFINE new == [Unwound(Wrote(s, Len(own))) EXCEPT !.pc = "run"]
  <2>1. Remembers(events, me) /\ ReadAll(events, me)
    BY <1>6, WriterRead DEF ReplayInv
  <2>2. Addable(events, own)
    BY <1>1, <2>1, AddableSettled
  <2>3. \A j \in DOMAIN own : own[j].type # "dispatched"
    <3>1. \A j \in DOMAIN me.buffer : me.buffer[j].type # "dispatched"
      BY <2>1 DEF Remembers, Buffered
    <3>2. /\ own[Len(me.buffer) + 1] = e
          /\ \A i \in DOMAIN me.buffer : own[i] = me.buffer[i]
          /\ \A i \in DOMAIN own : i \notin DOMAIN me.buffer => i = Len(me.buffer) + 1
      <4> DEFINE q == me.buffer
      <4>1. q \in Seq(Event) /\ own = Append(q, e)
        BY <1>1
      <4> HIDE DEF q, e, own
      <4>2. /\ Append(q, e)[Len(q) + 1] = e
            /\ \A i \in DOMAIN q : Append(q, e)[i] = q[i]
            /\ \A i \in DOMAIN Append(q, e) : i \notin DOMAIN q => i = Len(q) + 1
        BY <1>2, <4>1, AppendIs
      <4> QED
        BY <4>1, <4>2 DEF q
    <3> HIDE DEF own, e
    <3> QED
      BY <1>2, <3>1, <3>2
  <2>4. /\ new.token = FenceOf(me.token) /\ new.seen = Len(events) + Len(own)
        /\ new.buffer = <<>> /\ new.pc = "run"
    <3> DEFINE w == Wrote(s, Len(own))
    <3>1. /\ w \in SessionState /\ w.token = FenceOf(me.token)
          /\ w.seen = Len(events) + Len(own) /\ w.buffer = <<>>
      BY <1>3, WroteIs
    <3> HIDE DEF w, own, e
    <3> QED
      BY <3>1 DEF Unwound, SessionState, w
  <2>5. Become(s, new)
    BY <1>6
  <2> HIDE DEF new, own, e
  <2> QED
    BY <1>3, <1>6, <2>2, <2>3, <2>4, <2>5, HoldBlankReplays
<1>7. ASSUME NEW owed, UNCHANGED ledgerVars,
             Become(s, [Conclude(me, "limited") EXCEPT !.buffer = own, !.owed = owed])
      PROVE  ReplayInv'
  <2> DEFINE end == Conclude(me, "limited")
             mid == [end EXCEPT !.buffer = own]
             new == [end EXCEPT !.buffer = own, !.owed = owed]
  <2>1. /\ end \in SessionState /\ end.token = me.token /\ end.seen = me.seen
        /\ end.pc = "finish"
    <3>1. end \in SessionState
      BY <1>1, ConcludeTyped DEF Outcome
    <3> QED
      BY <1>1, <3>1, UnwoundKeeps
  <2>2. Become(s, new)
    BY <1>7
  <2> HIDE DEF end
  <2>3. /\ mid \in SessionState /\ mid.pc = "finish" /\ mid.seen = me.seen
        /\ mid.buffer = own
        /\ new.token = me.token /\ new.seen = me.seen /\ new.pc = "finish"
        /\ new.buffer = own
    <3> HIDE DEF own, me
    <3> QED
      BY <1>3, <2>1 DEF SessionState
  <2>4. own = Append(me.buffer, e)
    OBVIOUS
  <2> HIDE DEF mid, new, own, e
  <2>5. state = "open" => /\ Remembers(events, me) /\ e \notin KnownTo(events, me)
                          /\ e.attempt \in 1..me.seen
                          /\ events[e.attempt].type = "dispatched"
    BY <1>1, <1>2, <1>4 DEF Remembers, e
  <2>6. state = "open" => Remembers(events, mid)
    BY <1>1, <1>2, <2>3, <2>4, <2>5, AppendRemembers DEF Buffered
  <2>7. state = "open" => Remembers(events, new)
    BY <2>3, <2>6, RemembersLess
  <2>8. QuietStep(s, new)
    BY <1>1, <1>4, <1>7, <2>2, <2>3, <2>7 DEF QuietStep, Active
  <2> QED
    BY <2>8, QuietKeeps
<1> QED
  BY <1>1, <1>5, <1>6, <1>7 DEF SettleActivity

(* A park writes what the session buffered, and lets the run go unless the *)
(* host added to it: it sleeps knowing all of the history.                 *)
LEMMA ParkReplays ==
  ASSUME TypeInv, FenceInv, ReplayInv, NEW s \in Session, Park(s)
  PROVE  ReplayInv'
PROOF
<1> DEFINE me == ses[s]
           q == me.buffer
<1>1. /\ me \in SessionState /\ events \in Seq(Event) /\ Len(events) \in Nat
      /\ q \in Seq(Event) /\ Len(q) \in Nat /\ me.pc = "parking" /\ me.seen \in Nat
      /\ now' = now \/ WriteStopped(s)
  BY SessionTyped, LenProperties DEF TypeInv, RowOK, LedgerTypeOK, Park
<1>2. state # "absent"
  BY <1>1, WorkingIsSubmitted
<1>3. CASE WriteStopped(s)
  BY <1>1, <1>3, StoppedReplays DEF Active
<1>4. ASSUME Writable(s)
      PROVE  /\ Remembers(events, me) /\ ReadAll(events, me) /\ state = "open"
             /\ Addable(events, q) /\ \A j \in DOMAIN q : q[j].type # "dispatched"
  <2>1. Remembers(events, me) /\ ReadAll(events, me) /\ state = "open"
    BY <1>4, WriterRead DEF ReplayInv
  <2>2. Addable(events, q) /\ \A j \in DOMAIN q : q[j].type # "dispatched"
    BY <1>1, <2>1, AddableBuffer DEF Remembers, Buffered
  <2> QED
    BY <2>1, <2>2
<1>5. CASE /\ Writable(s) /\ WriteRefusedPark(s, me.token)
           /\ Become(s, [me EXCEPT !.pc = "run", !.seen = Len(events), !.until = None])
           /\ Overtaken(s)
  <2> DEFINE new == [me EXCEPT !.pc = "run", !.seen = Len(events), !.until = None]
  <2>1. /\ new.token = me.token /\ new.seen = Len(events) /\ new.pc = "run"
        /\ new.buffer = q
    BY <1>1 DEF SessionState
  <2>2. Become(s, new)
    BY <1>5
  <2> HIDE DEF new
  <2>3. me.token # 0 /\ fence' = fence /\ me.token = fence
    <3>1. Len(events) > me.seen
      BY <1>5 DEF Overtaken
    <3> QED
      BY <1>1, <1>5, <3>1 DEF Writable, MayWrite, WriteRefusedPark, FenceOf
  <2>4. DOMAIN events = 1..Len(events)
    BY <1>1, LenProperties
  <2>5. Remembers(events, me) /\ ReadAll(events, me) /\ state = "open"
        /\ Addable(events, q)
    BY <1>4, <1>5
  <2>6. Prefix(events, new) = Range(events)
    BY <2>1, <2>4 DEF Prefix, Range
  <2>7. \A j \in DOMAIN q :
          /\ q[j].type \in Buffered
          /\ Once(q[j]) => q[j] \notin Range(events) /\ Distinct(q, j)
          /\ q[j].type = "settled" =>
               q[j].attempt \in 1..Len(events) /\ events[q[j].attempt].type = "dispatched"
    BY <2>4, <2>5 DEF Remembers, Addable
  <2> HIDE DEF q
  <2>8. Remembers(events, new)
    BY <1>1, <2>1, <2>6, <2>7 DEF Remembers
  <2>9. /\ state' = state /\ events' = events /\ cancel' = cancel
        /\ deferred' = deferred /\ holder' = s
    BY <1>5 DEF WriteRefusedPark
  <2>10. HistoryInv'
    BY <2>9 DEF ReplayInv, HistoryInv, NoDispatchAfterCancel
  <2>11. ses'[s] = new /\ \A t \in Session : t # s => ses'[t] = ses[t]
    BY <2>2 DEF Become, TypeInv
  <2>12. \A t \in Session : Remembers(events', ses'[t])
    BY <2>5, <2>8, <2>9, <2>11 DEF ReplayInv, ReadingInv
  <2>13. OneToken'
    BY <2>1, <2>11 DEF ReplayInv, ReadingInv, OneToken
  <2>14. ViewsComplete'
    <3> SUFFICES ASSUME NEW t \in Session, ses'[t].token = fence, fence # 0,
                        NEW i \in (ses'[t].seen + 1)..Len(events)
                 PROVE  HostInput(events[i])
      BY <2>3, <2>9 DEF ViewsComplete
    <3>1. t # s
      BY <1>1, <2>1, <2>11
    <3> QED
      BY <2>5, <2>11, <3>1 DEF ReplayInv, ReadingInv, ViewsComplete
  <2>15. SleepsInformed'
    BY <2>9, NoneAssumption DEF SleepsInformed
  <2> QED
    BY <1>2, <2>9, <2>10, <2>12, <2>13, <2>14, <2>15 DEF ReplayInv, ReadingInv
<1>6. CASE /\ Writable(s) /\ ~Overtaken(s)
           /\ WritePark(me.token, q, me.owed, me.until)
           /\ Become(s, [Fresh EXCEPT !.pc = "suspended", !.token = FenceOf(me.token),
                           !.seen = me.seen + Len(q)])
  <2> DEFINE new == [Fresh EXCEPT !.pc = "suspended", !.token = FenceOf(me.token),
                       !.seen = me.seen + Len(q)]
  <2>1. me.seen = Len(events)
    <3>1. me.seen <= Len(events) /\ ~(Len(events) > me.seen)
      BY <1>4, <1>6 DEF Remembers, Overtaken
    <3> QED
      BY <1>1, <3>1
  <2>2. /\ new.token = FenceOf(me.token) /\ new.seen = Len(events) + Len(q)
        /\ new.pc = "suspended" /\ new.buffer = <<>>
    BY <2>1 DEF Fresh
  <2>3. Become(s, new)
    BY <1>6
  <2> HIDE DEF new
  <2>4. /\ events' = events \o q /\ fence' = FenceOf(me.token) /\ state' = "open"
        /\ cancel' = cancel /\ deferred' = Registered(q)
    BY <1>4, <1>6 DEF WritePark
  <2> HIDE DEF q
  <2>5. events' \in Seq(Event) /\ Len(events') = new.seen /\ new.seen \in Nat
    BY <1>1, <2>2, <2>4, ConcatProperties, LenProperties
  <2>6. Remembers(events', new)
    BY <2>2, <2>5, BlankRemembers
  <2>7. WriteStep(s, new, q)
    BY <2>2, <2>3, <2>4 DEF WriteStep
  <2>8. ReadingInv'
    BY <1>1, <1>6, <2>4, <2>6, <2>7, WriteReading DEF ReplayInv
  <2>9. HistoryInv'
    BY <1>1, <1>4, <1>6, <2>4, GrowHistory DEF ReplayInv
  <2>10. ses'[s] = new
    BY <2>3 DEF Become, TypeInv
  <2>11. SleepsInformed'
    BY <2>2, <2>4, <2>5, <2>10 DEF SleepsInformed
  <2> QED
    BY <2>8, <2>9, <2>11 DEF ReplayInv
<1>7. CASE Leave(s, "limit") /\ UNCHANGED ledgerVars /\ now' = now
  BY <1>1, <1>2, <1>7, BlankReplays DEF Leave, Fresh, Over, Active
<1> QED
  BY <1>1, <1>3, <1>5, <1>6, <1>7 DEF Park

(* The end of the run is the last event, and no session continues it. *)
LEMMA FinishReplays ==
  ASSUME TypeInv, FenceInv, ReplayInv, NEW s \in Session, Finish(s)
  PROVE  ReplayInv'
PROOF
<1> DEFINE me == ses[s]
           whole == Fits(Len(me.buffer) + 1, TerminalHeadroom)
           own == IF whole THEN me.buffer ELSE <<>>
           out == IF whole THEN me.target ELSE "limited"
<1>1. /\ me \in SessionState /\ events \in Seq(Event) /\ Len(events) \in Nat
      /\ me.buffer \in Seq(Event) /\ me.pc = "finishing" /\ me.target \in Outcome
  BY SessionTyped DEF TypeInv, RowOK, LedgerTypeOK, Finish
<1>2. state # "absent"
  BY <1>1, WorkingIsSubmitted
<1>3. CASE WriteStopped(s)
  BY <1>1, <1>3, StoppedReplays DEF Active
<1>4. CASE Leave(s, "limit") /\ UNCHANGED ledgerVars /\ now' = now
  BY <1>1, <1>2, <1>4, BlankReplays DEF Leave, Fresh, Over, Active
<1>5. CASE Writable(s) /\ WriteFinish(me.token, own, me.owed, out) /\ Leave(s, "ended")
  <2>1. Remembers(events, me) /\ ReadAll(events, me) /\ state = "open"
    BY <1>5, WriterRead DEF ReplayInv
  <2>2. /\ Addable(events, me.buffer)
        /\ \A j \in DOMAIN me.buffer : me.buffer[j].type # "dispatched"
    BY <1>1, <2>1, AddableBuffer DEF Remembers, Buffered
  <2>3. /\ own \in Seq(Event) /\ Addable(events, own)
        /\ \A j \in DOMAIN own : own[j].type # "dispatched"
    BY <1>1, <2>2 DEF Addable
  <2>4. Ending(out) \in Outcome
    BY <1>1 DEF Ending, Outcome
  <2>5. /\ events' = Append(events \o own, Completed(Ending(out)))
        /\ state' = "closed" /\ cancel' = cancel /\ fence' = FenceOf(me.token)
    BY <1>5 DEF WriteFinish
  <2> HIDE DEF own, out
  <2>6. HistoryInv'
    BY <2>1, <2>3, <2>4, <2>5, EndHistory DEF ReplayInv
  <2>7. ses'[s].token = 0 /\ \A t \in Session : t # s => ses'[t] = ses[t]
    BY <1>5 DEF Leave, Become, Fresh, TypeInv
  <2>8. OneToken'
    BY <2>7 DEF ReplayInv, ReadingInv, OneToken
  <2>9. ViewsComplete' /\ SleepsInformed'
    BY <2>5 DEF ViewsComplete, SleepsInformed
  <2> QED
    BY <2>5, <2>6, <2>8, <2>9 DEF ReplayInv, ReadingInv
<1> QED
  BY <1>3, <1>4, <1>5 DEF Finish

-----------------------------------------------------------------------------
(* The host, and the theorems *)

(* What the host appends, no session has to have read. *)
LEMMA HostReading ==
  ASSUME TypeInv, FenceInv, ReplayInv, HostStep, UNCHANGED <<now, ses>>
  PROVE  ReadingInv'
PROOF
<1>1. /\ events \in Seq(Event) /\ Len(events) \in Nat /\ fence' = fence
      /\ \A s \in Session : ses[s] \in SessionState
  BY LenProperties
  DEF TypeInv, RowOK, LedgerTypeOK, HostStep, Create, Resolve, Cancel, Acknowledge, Wake
<1>2. OneToken'
  BY DEF ReplayInv, ReadingInv, OneToken
<1>3. CASE Create
  <2>1. fence = 0 /\ \A s \in Session : Unread(ses[s])
    BY <1>3 DEF Create, FenceInv, ReplayInv, ReadingInv
  <2>2. events' = <<Started>> /\ state' = "open" /\ Len(events') = 1
    BY <1>3 DEF Create
  <2>3. Started \in Event
    BY DEF Started, Event
  <2>4. \A s \in Session : Remembers(events', ses'[s])
    <3>1. events' \in Seq(Event) /\ 0 <= Len(events')
      BY <2>2, <2>3
    <3>2. \A s \in Session : ses'[s] = ses[s] /\ Unread(ses[s])
      BY <2>1
    <3> QED
      BY <3>1, <3>2, BlankRemembers DEF Unread
  <2>5. ViewsComplete'
    BY <1>1, <2>1 DEF ViewsComplete
  <2> QED
    BY <1>2, <2>2, <2>4, <2>5 DEF ReadingInv
<1>4. ASSUME NEW e \in Event, HostInput(e), events' = Append(events, e),
             state = "open", state' = "open"
      PROVE  ReadingInv'
  <2> DEFINE n == Len(events)
             F == Append(events, e)
  <2>1. /\ F \in Seq(Event) /\ Len(F) = n + 1 /\ F[n + 1] = e
        /\ \A i \in DOMAIN events : F[i] = events[i]
        /\ DOMAIN events = 1..n
    BY <1>1, AppendIs, LenProperties
  <2>2. events' = F
    BY <1>4
  <2>3. <<e>> \in Seq(Event) /\ F = events \o <<e>>
    BY <1>1
  <2> HIDE DEF F, n
  <2>4. ASSUME NEW s \in Session
        PROVE  Remembers(F, ses[s])
    <3>1. Remembers(events, ses[s])
      BY <1>4 DEF ReplayInv, ReadingInv
    <3> DEFINE one == <<e>>
    <3>2. one \in Seq(Event) /\ F = events \o one
      BY <2>3
    <3> HIDE DEF one
    <3>3. Remembers(events \o one, ses[s])
      BY <1>1, <3>1, <3>2, RemembersMore
    <3> QED
      BY <3>2, <3>3
  <2>5. ASSUME NEW s \in Session, ses[s].token = fence, fence # 0,
               NEW i \in (ses[s].seen + 1)..(n + 1)
        PROVE  HostInput(F[i])
    <3>1. ses[s].seen \in Nat /\ n \in Nat
      BY <1>1 DEF SessionState, n
    <3>2. CASE i = n + 1
      BY <1>4, <2>1, <3>2
    <3>3. CASE i # n + 1
      <4>1. i \in (ses[s].seen + 1)..Len(events) /\ i \in DOMAIN events
        BY <2>1, <3>1, <3>3 DEF n
      <4>2. HostInput(events[i])
        BY <1>4, <2>5, <4>1 DEF ReplayInv, ReadingInv, ViewsComplete
      <4> QED
        BY <2>1, <4>1, <4>2
    <3> QED
      BY <3>2, <3>3
  <2>6. ViewsComplete'
    BY <1>1, <2>1, <2>2, <2>5 DEF ViewsComplete
  <2> QED
    BY <1>2, <1>4, <2>2, <2>4, <2>6 DEF ReadingInv
<1>5. ASSUME NEW d \in Deferred, NEW r \in Result, Resolve(d, r)
      PROVE  ReadingInv'
  <2>1. Resolved(d, r) \in Event /\ HostInput(Resolved(d, r))
    BY DEF Resolved, Event, HostInput
  <2> QED
    BY <1>4, <1>5, <2>1 DEF Resolve
<1>6. CASE Cancel
  <2>1. CancelRequested \in Event /\ HostInput(CancelRequested)
    BY DEF CancelRequested, Event, HostInput
  <2> QED
    BY <1>4, <1>6, <2>1 DEF Cancel
<1>7. CASE Acknowledge
  <2>1. state' = "acknowledged"
    BY <1>7 DEF Acknowledge
  <2>2. ViewsComplete'
    BY <2>1 DEF ViewsComplete
  <2> QED
    BY <1>2, <2>1, <2>2 DEF ReadingInv
<1>8. CASE Wake
  <2>1. state' = state /\ events' = events
    BY <1>8 DEF Wake
  <2>2. ViewsComplete'
    BY <1>1, <2>1 DEF ReplayInv, ReadingInv, ViewsComplete
  <2> QED
    BY <1>2, <2>1, <2>2 DEF ReplayInv, ReadingInv
<1> QED
  BY <1>3, <1>5, <1>6, <1>7, <1>8 DEF HostStep

(* The host keeps the invariant: whatever it adds to a run leaves it due. *)
LEMMA HostReplays ==
  ASSUME TypeInv, FenceInv, ReplayInv, Host
  PROVE  ReplayInv'
PROOF
<1>1. HostStep /\ UNCHANGED <<now, ses>>
  BY DEF Host, HostStep
<1>2. HistoryInv' /\ ReadingInv'
  BY <1>1, HostHistory, HostReading DEF ReplayInv
<1>3. state' = "open" => wake' = now
  BY DEF Host, Create, Resolve, Cancel, Acknowledge, Wake
<1>4. now \in Nat /\ None \notin Nat
  BY NoneAssumption DEF TypeInv, RowOK, LedgerTypeOK
<1>5. SleepsInformed'
  BY <1>1, <1>3, <1>4 DEF SleepsInformed, Due
<1> QED
  BY <1>2, <1>5 DEF ReplayInv

(* The passage of time, and the end of an executor, change no history. *)
LEMMA OutsideReplays ==
  ASSUME TypeInv, ReplayInv, UNCHANGED <<ledgerVars, ses>>, now' \in Nat, now <= now'
  PROVE  ReplayInv'
PROOF
<1>1. /\ state' = state /\ events' = events /\ fence' = fence /\ holder' = holder
      /\ cancel' = cancel /\ wake' = wake /\ deferred' = deferred /\ ses' = ses
  BY DEF ledgerVars
<1>2. HistoryInv'
  BY <1>1 DEF ReplayInv, HistoryInv, NoDispatchAfterCancel
<1>3. ReadingInv'
  BY <1>1 DEF ReplayInv, ReadingInv, OneToken, ViewsComplete
<1>4. now \in Nat /\ wake \in Nat \cup {None}
  BY DEF TypeInv, RowOK, LedgerTypeOK
<1>5. Due => Due'
  BY <1>1, <1>4, NoneAssumption DEF Due
<1>6. SleepsInformed'
  BY <1>1, <1>5 DEF ReplayInv, SleepsInformed
<1> QED
  BY <1>2, <1>3, <1>6 DEF ReplayInv

(* Every step keeps the history one that replay accepts. *)
LEMMA ReplayStep ==
  ASSUME TypeInv, FenceInv, ReplayInv, [Next]_vars
  PROVE  ReplayInv'
PROOF
<1>1. ASSUME NEW s \in Session, SessionStep(s)
      PROVE  ReplayInv'
  BY <1>1, DefinitionReplays, DispatchReplays, WaitingReplays, HoldUnprovenReplays,
     RenewReplays, SettleActivityReplays, ParkReplays, FinishReplays DEF SessionStep
<1>2. now \in Nat
  BY DEF TypeInv, RowOK, LedgerTypeOK
<1>3. CASE ExecutorEnds \/ Clock \/ UNCHANGED vars
  BY <1>2, <1>3, OutsideReplays DEF ExecutorEnds, Clock, Tick, vars, ledgerVars
<1> QED
  BY <1>1, <1>3, HostReplays DEF Next

(* A run that was not submitted has no history, and no session read it. *)
LEMMA ReplayInit ==
  ASSUME Init
  PROVE  ReplayInv
PROOF
<1>1. /\ state = "absent" /\ events = <<>> /\ fence = 0
      /\ \A d \in Deferred : deferred[d] = "absent"
  BY DEF Init, LedgerInit
<1>2. \A s \in Session : /\ ses[s].token = 0 /\ ses[s].seen = 0
                         /\ ses[s].buffer = <<>> /\ ses[s].pc = "idle"
  BY DEF Init, Fresh
<1>3. HistoryInv
  BY <1>1 DEF HistoryInv, Valid, NoDispatchAfterCancel
<1>4. ReadingInv
  BY <1>1, <1>2 DEF ReadingInv, Unread, OneToken, ViewsComplete
<1>5. SleepsInformed
  BY <1>1 DEF SleepsInformed
<1> QED
  BY <1>3, <1>4, <1>5 DEF ReplayInv

(* All the invariants of a run together. *)
RunInv == TypeInv /\ FenceInv /\ ExecutorInv /\ ReplayInv

LEMMA RunInvariant == Spec => []RunInv
PROOF
<1>1. Init => RunInv
  BY InitInv, ExecutorInit, ReplayInit DEF RunInv
<1>2. RunInv /\ [Next]_vars => RunInv'
  BY TypeStep, ExecutorStep, ReplayStep DEF RunInv
<1> QED
  BY <1>1, <1>2, PTL DEF Spec

(* The session whose fence is current is missing only host inputs, for any *)
(* number of sessions that claim, stall and take over (write.rs write:     *)
(* stale, claim and foreign).                                              *)
THEOREM ViewsAreComplete == Spec => []ViewsComplete
PROOF
<1>1. RunInv => ViewsComplete
  BY DEF RunInv, ReplayInv, ReadingInv
<1> QED
  BY <1>1, RunInvariant, PTL

(* Whatever sessions wrote it, at whatever length, the history of a run is *)
(* one that History::apply accepts when the next session loads it.         *)
THEOREM HistoriesReplay == Spec => []HistoryValid
PROOF
<1>1. RunInv => HistoryValid
  <2> SUFFICES ASSUME RunInv PROVE HistoryValid
    OBVIOUS
  <2>1. events \in Seq(Event) /\ Valid(events)
    BY DEF RunInv, TypeInv, RowOK, LedgerTypeOK, ReplayInv, HistoryInv
  <2>2. DOMAIN events = 1..Len(events) /\ Len(events) \in Nat
    BY <2>1, LenProperties
  <2> QED
    BY <2>1, <2>2 DEF Valid, HistoryValid
<1> QED
  BY <1>1, RunInvariant, PTL

(* No dispatch follows a cancellation in any history: the check is in the  *)
(* transaction, so a session that has not noticed it yet dispatches        *)
(* nothing (write.rs apply: allowed).                                      *)
THEOREM NothingDispatchedAfterCancel == Spec => []NoDispatchAfterCancel
PROOF
<1>1. RunInv => NoDispatchAfterCancel
  BY DEF RunInv, ReplayInv, HistoryInv
<1> QED
  BY <1>1, RunInvariant, PTL

(* A run sleeps only when the session that parked it had read everything   *)
(* in its history: an input of the host that lands around the park leaves  *)
(* the run due (write.rs write: refused_park; host.rs append_one).         *)
THEOREM SleepersInformed == Spec => []SleepsInformed
PROOF
<1>1. RunInv => SleepsInformed
  BY DEF RunInv, ReplayInv
<1> QED
  BY <1>1, RunInvariant, PTL

=============================================================================
