-------------------------- MODULE RecordingProofs --------------------------
(***************************************************************************)
(* Theorems about Recording, for every plan, every edit a model may name   *)
(* and every bound.                                                        *)
(***************************************************************************)
EXTENDS Recording, SequenceTheorems, WellFoundedInduction, TLAPS

-----------------------------------------------------------------------------
(* Sequences of anything *)

(* A sequence, whatever it holds. *)
IsSeq(s) == Len(s) \in Nat /\ s = [k \in 1..Len(s) |-> s[k]]

(* A function over the first numbers is a sequence of that length. *)
LEMMA ListIsSeq ==
  ASSUME NEW s, NEW n \in Nat, s = [k \in 1..n |-> s[k]]
  PROVE  IsSeq(s) /\ Len(s) = n /\ DOMAIN s = 1..n
PROOF
<1> DEFINE S == {s[k] : k \in 1..n}
<1>1. s \in [1..n -> S] /\ DOMAIN s = 1..n
  OBVIOUS
<1>2. s \in Seq(S)
  BY <1>1, SeqDef
<1>3. Len(s) \in Nat /\ DOMAIN s = 1..Len(s)
  BY <1>2, LenProperties
<1>4. Len(s) = n
  BY <1>1, <1>3
<1> QED
  BY <1>1, <1>4 DEF IsSeq

LEMMA SeqDomain ==
  ASSUME NEW s, IsSeq(s)
  PROVE  Len(s) \in Nat /\ DOMAIN s = 1..Len(s)
PROOF BY DEF IsSeq

(* A sequence is one of its own elements. *)
LEMMA SeqOfItsOwn ==
  ASSUME NEW s, IsSeq(s), NEW S, \A k \in 1..Len(s) : s[k] \in S
  PROVE  s \in Seq(S)
PROOF
<1>1. s \in [1..Len(s) -> S] /\ Len(s) \in Nat
  BY DEF IsSeq
<1> QED
  BY <1>1, SeqDef

(* What belongs to a set of sequences is one. *)
LEMMA SeqIsSeq ==
  ASSUME NEW S, NEW s \in Seq(S)
  PROVE  IsSeq(s) /\ DOMAIN s = 1..Len(s) /\ \A k \in 1..Len(s) : s[k] \in S
PROOF
<1>1. Len(s) \in Nat /\ s \in [1..Len(s) -> S] /\ DOMAIN s = 1..Len(s)
  BY LenProperties
<1> QED
  BY <1>1 DEF IsSeq

(* Some number of a set of numbers is the least. *)
LEMMA LeastNat ==
  ASSUME NEW T, T \subseteq Nat, T # {}
  PROVE  \E m \in T : \A n \in T : m <= n
PROOF
<1>1. PICK m \in T : \A n \in T : ~(<<n, m>> \in OpToRel(<, Nat))
  BY WFMin, NatLessThanWellFounded
<1>2. \A n \in T : ~(n < m)
  BY <1>1 DEF OpToRel
<1> QED
  BY <1>2

(* The least of some numbers is the one no other is below. *)
LEMMA MinIs ==
  ASSUME NEW S, S \subseteq Int, NEW m \in S, \A x \in S : m <= x
  PROVE  Min(S) = m
PROOF
<1>1. \E x \in S : \A y \in S : x =< y
  OBVIOUS
<1>2. Min(S) \in S /\ \A y \in S : Min(S) =< y
  BY <1>1, Zenon DEF Min
<1>3. Min(S) \in Int /\ m \in Int
  BY <1>2
<1>4. Min(S) <= m /\ m <= Min(S)
  BY <1>2
<1> QED
  BY ONLY <1>3, <1>4

LEMMA MinOfOne ==
  ASSUME NEW m \in Int
  PROVE  Min({m}) = m
PROOF
<1> DEFINE S == {m}
<1>1. S \subseteq Int /\ m \in S /\ \A x \in S : m <= x
  OBVIOUS
<1> HIDE DEF S
<1>2. Min(S) = m
  BY <1>1, MinIs
<1> QED
  BY <1>2 DEF S

(* The greatest of some numbers is the one no other is above. *)
LEMMA MaxIs ==
  ASSUME NEW S, S \subseteq Int, NEW m \in S, \A x \in S : x <= m
  PROVE  Max(S) = m
PROOF
<1>1. \E x \in S : \A y \in S : x >= y
  OBVIOUS
<1>2. Max(S) \in S /\ \A y \in S : Max(S) >= y
  BY <1>1, Zenon DEF Max
<1>3. Max(S) \in Int /\ m \in Int
  BY <1>2
<1>4. Max(S) <= m /\ m <= Max(S)
  BY <1>2
<1> QED
  BY ONLY <1>3, <1>4

-----------------------------------------------------------------------------
(* Flattening *)

(* The prefixes FlattenSeq builds. *)
Flattens(f, seqs) ==
  f = [i \in 1..Len(seqs) |-> IF i = 1 THEN seqs[i] ELSE f[i - 1] \o seqs[i]]

(* They exist. *)
LEMMA FlattensExists ==
  ASSUME NEW seqs, Len(seqs) \in Nat
  PROVE  \E f : Flattens(f, seqs)
PROOF
<1> DEFINE Upto(g, m) == g = [i \in 1..m |-> IF i = 1 THEN seqs[i] ELSE g[i - 1] \o seqs[i]]
           Bad == {m \in Nat : ~\E g : Upto(g, m)}
<1>1. SUFFICES Bad = {}
  BY DEF Flattens
<1>2. SUFFICES ASSUME Bad # {} PROVE FALSE
  OBVIOUS
<1>3. PICK m \in Bad : \A n \in Bad : m <= n
  BY <1>2, LeastNat
<1>4. m \in Nat
  OBVIOUS
<1>5. CASE m = 0
  <2>1. Upto([i \in 1..0 |-> i], m)
    BY <1>5
  <2> QED
    BY <2>1
<1>6. CASE m > 0
  <2>1. m - 1 \in Nat /\ m - 1 \notin Bad
    <3> HIDE DEF Bad
    <3> QED
      BY <1>3, <1>4, <1>6
  <2>2. PICK g : Upto(g, m - 1)
    BY <2>1
  <2> DEFINE h == [i \in 1..m |-> IF i = m THEN (IF m = 1 THEN seqs[1] ELSE g[m - 1] \o seqs[m])
                                  ELSE g[i]]
  <2>3. \A i \in 1..m : h[i] = IF i = 1 THEN seqs[i] ELSE h[i - 1] \o seqs[i]
    <3> SUFFICES ASSUME NEW i \in 1..m
                 PROVE  h[i] = IF i = 1 THEN seqs[i] ELSE h[i - 1] \o seqs[i]
      OBVIOUS
    <3>1. CASE i = m
      BY <3>1, <1>4, <1>6
    <3>2. CASE i # m
      <4>1. i \in 1..(m - 1)
        BY <3>2, <1>4
      <4>2. g[i] = IF i = 1 THEN seqs[i] ELSE g[i - 1] \o seqs[i]
        BY <2>2, <4>1
      <4>3. h[i] = g[i] /\ (i # 1 => h[i - 1] = g[i - 1])
        BY <3>2, <4>1, <1>4
      <4> QED
        BY <4>2, <4>3
    <3> QED
      BY <3>1, <3>2
  <2>4. Upto(h, m)
    <3> HIDE DEF h
    <3>1. h = [i \in 1..m |-> h[i]]
      BY DEF h
    <3> QED
      BY <2>3, <3>1
  <2> QED
    BY <2>4
<1> QED
  BY <1>4, <1>5, <1>6

(* What is true of the first of some numbers, and of each when of the one  *)
(* before it, is true of all.                                              *)
LEMMA Climbs ==
  ASSUME NEW n \in Nat, NEW T, 1 \in T, \A k \in 1..n : k > 1 /\ k - 1 \in T => k \in T
  PROVE  1..n \subseteq T
PROOF
<1> DEFINE Bad == {k \in 1..n : k \notin T}
<1>1. SUFFICES ASSUME Bad # {} PROVE FALSE
  OBVIOUS
<1>2. Bad \subseteq Nat
  OBVIOUS
<1>3. PICK m \in Bad : \A k \in Bad : m <= k
  BY <1>1, <1>2, LeastNat
<1>4. m \in 1..n /\ m > 1
  OBVIOUS
<1>5. m - 1 \in 1..n /\ m - 1 \notin Bad
  BY <1>3, <1>4
<1> QED
  BY <1>4, <1>5

(* Where the elements of two sequences are when one follows the other. *)
JoinOf(c, a, b) ==
  /\ \A x \in 1..Len(a) : c[x] = a[x]
  /\ \A j \in 1..Len(b) : c[Len(a) + j] = b[j]

LEMMA Joined ==
  ASSUME NEW E, NEW a \in Seq(E), NEW b \in Seq(E)
  PROVE  JoinOf(a \o b, a, b)
PROOF
<1>1. Len(a) \in Nat /\ Len(b) \in Nat
  BY LenProperties
<1>2. /\ a \o b \in Seq(E) /\ Len(a \o b) = Len(a) + Len(b)
      /\ \A i \in 1..Len(a) + Len(b) :
           (a \o b)[i] = IF i <= Len(a) THEN a[i] ELSE b[i - Len(a)]
  BY ConcatProperties
<1>3. ASSUME NEW x \in 1..Len(a) PROVE (a \o b)[x] = a[x]
  <2>1. x \in 1..Len(a) + Len(b) /\ x <= Len(a)
    BY ONLY <1>1, <1>3
  <2> QED
    BY ONLY <1>2, <2>1, Zenon
<1>4. ASSUME NEW j \in 1..Len(b) PROVE (a \o b)[Len(a) + j] = b[j]
  <2>1. Len(a) + j \in 1..Len(a) + Len(b) /\ ~(Len(a) + j <= Len(a)) /\ (Len(a) + j) - Len(a) = j
    BY ONLY <1>1, <1>4
  <2> QED
    BY ONLY <1>2, <2>1, Zenon
<1> QED
  BY <1>3, <1>4 DEF JoinOf

(* Where the pieces of a flattened sequence are. *)
Pieces(flat, off, seqs) ==
  /\ IsSeq(flat)
  /\ off \in [0..Len(seqs) -> Nat] /\ off[0] = 0 /\ off[Len(seqs)] = Len(flat)
  /\ \A k \in 1..Len(seqs) :
       /\ off[k] = off[k - 1] + Len(seqs[k])
       /\ \A i \in 1..k : off[i] <= off[k]
       /\ \A j \in 1..Len(seqs[k]) : flat[off[k - 1] + j] = seqs[k][j]

(* Each piece is where the lengths of those before it put it. *)
LEMMA FlattenPieces ==
  ASSUME NEW seqs, IsSeq(seqs), \A k \in 1..Len(seqs) : IsSeq(seqs[k])
  PROVE  \E off : Pieces(FlattenSeq(seqs), off, seqs)
PROOF
<1> DEFINE n == Len(seqs)
           E == UNION {{seqs[k][j] : j \in 1..Len(seqs[k])} : k \in 1..n}
<1>1. n \in Nat
  BY DEF IsSeq
<1>2. \A k \in 1..n : seqs[k] \in Seq(E) /\ Len(seqs[k]) \in Nat
  <2>1. ASSUME NEW k \in 1..n PROVE seqs[k] \in Seq(E)
    <3>1. \A j \in 1..Len(seqs[k]) : seqs[k][j] \in E
      OBVIOUS
    <3> HIDE DEF E
    <3> QED
      BY <2>1, <3>1, SeqOfItsOwn
  <2> QED
    BY <2>1 DEF IsSeq
<1>3. CASE n = 0
  <2>1. FlattenSeq(seqs) = seqs
    BY <1>3 DEF FlattenSeq
  <2>2. Pieces(seqs, [k \in 0..0 |-> 0], seqs)
    BY <1>3 DEF Pieces
  <2> QED
    BY <2>1, <2>2
<1>4. CASE n # 0
  <2>1. PICK f : Flattens(f, seqs) /\ FlattenSeq(seqs) = f[n]
    <3> DEFINE F == CHOOSE f : Flattens(f, seqs)
    <3>1. Flattens(F, seqs)
      BY <1>1, FlattensExists
    <3>2. FlattenSeq(seqs) = F[n]
      BY <1>4 DEF FlattenSeq, Flattens
    <3> QED
      BY <3>1, <3>2
  <2> HIDE DEF E
  <2>2. /\ n \in Nat /\ 1 \in 1..n /\ f[1] = seqs[1]
        /\ \A k \in 1..n : k > 1 => k - 1 \in 1..n /\ f[k] = f[k - 1] \o seqs[k]
    <3>1. n \in Nat /\ 1 \in 1..n /\ \A k \in 1..n : k > 1 => k - 1 \in 1..n
      BY ONLY <1>1, <1>4
    <3>2. \A k \in 1..n : f[k] = IF k = 1 THEN seqs[k] ELSE f[k - 1] \o seqs[k]
      BY <2>1, Zenon DEF Flattens
    <3> HIDE DEF n
    <3>3. \A k \in 1..n : k > 1 => k # 1
      BY ONLY <3>1
    <3> QED
      BY <3>1, <3>2, <3>3, Zenon
  <2> HIDE DEF n
  <2>3. \A k \in 1..n : f[k] \in Seq(E)
    <3> DEFINE T == {k \in 1..n : f[k] \in Seq(E)}
    <3>1. 1 \in T
      BY <1>2, <2>2
    <3>2. ASSUME NEW k \in 1..n, k > 1, k - 1 \in T PROVE k \in T
      <4>1. f[k] = f[k - 1] \o seqs[k] /\ f[k - 1] \in Seq(E) /\ seqs[k] \in Seq(E)
        BY <1>2, <2>2, <3>2
      <4>2. f[k] \in Seq(E)
        BY ONLY <4>1, ConcatProperties
      <4> QED
        BY <4>2
    <3> HIDE DEF T
    <3>3. 1..n \subseteq T
      BY <2>2, <3>1, <3>2, Climbs
    <3> QED
      BY <3>3 DEF T
  <2> DEFINE off == [k \in 0..n |-> IF k = 0 THEN 0 ELSE Len(f[k])]
  <2>4. off \in [0..n -> Nat] /\ off[0] = 0 /\ \A k \in 1..n : off[k] = Len(f[k])
    <3>1. \A k \in 1..n : Len(f[k]) \in Nat
      BY <2>3, LenProperties
    <3> QED
      BY <2>2, <3>1
  <2> HIDE DEF off
  <2>5. \A k \in 1..n : k - 1 \in 0..n /\ off[k] = off[k - 1] + Len(seqs[k])
    <3> SUFFICES ASSUME NEW k \in 1..n PROVE k - 1 \in 0..n /\ off[k] = off[k - 1] + Len(seqs[k])
      OBVIOUS
    <3>1. CASE k = 1
      BY <1>2, <2>2, <2>4, <3>1
    <3>2. CASE k > 1
      <4>1. f[k] = f[k - 1] \o seqs[k] /\ k - 1 \in 1..n
        BY <2>2, <3>2
      <4>2. f[k - 1] \in Seq(E) /\ seqs[k] \in Seq(E)
        BY <1>2, <2>3, <4>1
      <4>3. Len(f[k]) = Len(f[k - 1]) + Len(seqs[k])
        BY ONLY <4>1, <4>2, ConcatProperties
      <4>4. off[k] = Len(f[k]) /\ off[k - 1] = Len(f[k - 1])
        BY <2>4, <4>1
      <4>5. k - 1 \in 0..n
        BY <2>2, <3>2
      <4> QED
        BY ONLY <4>3, <4>4, <4>5
    <3> QED
      BY <2>2, <3>1, <3>2
  <2> DEFINE At(k, i) ==
        off[i] <= off[k] /\ \A j \in 1..Len(seqs[i]) : f[k][off[i - 1] + j] = seqs[i][j]
  <2>6. \A k \in 1..n : \A i \in 1..k : At(k, i)
    <3> DEFINE T == {k \in 1..n : \A i \in 1..k : At(k, i)}
    <3>1. 1 \in T
      <4>1. ASSUME NEW j \in 1..Len(seqs[1]) PROVE f[1][off[1 - 1] + j] = seqs[1][j]
        BY <2>2, <2>4, <4>1
      <4>2. off[1] <= off[1]
        BY <2>2, <2>4
      <4> QED
        BY <2>2, <4>1, <4>2
    <3>2. ASSUME NEW k \in 1..n, k > 1, k - 1 \in T, NEW i \in 1..k PROVE At(k, i)
      <4>1. /\ k - 1 \in 1..n /\ k \in 0..n /\ f[k] = f[k - 1] \o seqs[k]
            /\ i \in 1..n /\ i \in 0..n /\ i \in Nat /\ k \in Nat
        <5>1. n \in Nat /\ k \in 1..n /\ k > 1 /\ i \in 1..k
          BY <2>2, <3>2
        <5>2. /\ k - 1 \in 1..n /\ k \in 0..n
              /\ i \in 1..n /\ i \in 0..n /\ i \in Nat /\ k \in Nat
          BY ONLY <5>1
        <5> QED
          BY ONLY <2>2, <5>1, <5>2, Zenon
      <4>2. /\ f[k - 1] \in Seq(E) /\ seqs[k] \in Seq(E) /\ Len(f[k - 1]) = off[k - 1]
            /\ Len(seqs[k]) \in Nat
        BY <1>2, <2>3, <2>4, <4>1
      <4>3. /\ off[k] = off[k - 1] + Len(seqs[k])
            /\ off[i] \in Nat /\ off[k - 1] \in Nat /\ off[k] \in Nat
        <5>1. k - 1 \in 0..n
          BY ONLY <2>2, <4>1
        <5> QED
          BY <2>4, <2>5, <4>1, <5>1
      <4>4. /\ \A x \in 1..off[k - 1] : f[k][x] = f[k - 1][x]
            /\ \A j \in 1..Len(seqs[k]) : f[k][off[k - 1] + j] = seqs[k][j]
        <5>1. f[k - 1] \in Seq(E) /\ seqs[k] \in Seq(E)
          BY <4>2
        <5>2. JoinOf(f[k - 1] \o seqs[k], f[k - 1], seqs[k])
          BY ONLY <5>1, Joined
        <5>3. JoinOf(f[k], f[k - 1], seqs[k])
          BY ONLY <4>1, <5>2
        <5> QED
          BY ONLY <4>2, <5>3, Zenon DEF JoinOf
      <4>5. CASE i = k
        <5>1. off[k] <= off[k]
          BY ONLY <4>3
        <5> QED
          BY ONLY <4>4, <4>5, <5>1, Zenon
      <4>6. CASE i # k
        <5>1. i \in 1..(k - 1)
          BY ONLY <4>1, <4>6, <3>2
        <5>2. At(k - 1, i) /\ Len(seqs[i]) \in Nat
          BY <1>2, <3>2, <4>1, <5>1
        <5>3. i - 1 \in 0..n /\ off[i - 1] \in Nat /\ off[i] = off[i - 1] + Len(seqs[i])
          BY <2>4, <2>5, <4>1
        <5>4. ASSUME NEW j \in 1..Len(seqs[i]) PROVE f[k][off[i - 1] + j] = seqs[i][j]
          <6>1. off[i - 1] + j \in 1..off[k - 1]
            <7>1. off[i] <= off[k - 1] /\ Len(seqs[i]) \in Nat /\ j \in 1..Len(seqs[i])
              BY <5>2, <5>4
            <7>2. /\ off[i] = off[i - 1] + Len(seqs[i])
                  /\ off[i - 1] \in Nat /\ off[k - 1] \in Nat
              BY <4>3, <5>3
            <7> QED
              BY ONLY <7>1, <7>2
          <6>2. f[k - 1][off[i - 1] + j] = seqs[i][j]
            BY <5>2, <5>4
          <6> QED
            BY ONLY <4>4, <6>1, <6>2, Zenon
        <5>5. off[i] <= off[k]
          BY ONLY <4>2, <4>3, <5>2
        <5> QED
          BY <5>4, <5>5
      <4> QED
        BY <4>5, <4>6
    <3> HIDE DEF At
    <3>3. \A k \in 1..n : k > 1 /\ k - 1 \in T => k \in T
      BY <3>2
    <3> HIDE DEF T
    <3>4. 1..n \subseteq T
      BY <2>2, <3>1, <3>3, Climbs
    <3> QED
      BY <3>4 DEF T
  <2>7. IsSeq(f[n]) /\ off[n] = Len(f[n])
    <3>1. n \in 1..n
      BY <1>1, <1>4
    <3> QED
      BY <2>3, <2>4, <3>1, SeqIsSeq
  <2>8. \A k \in 1..n :
          /\ off[k] = off[k - 1] + Len(seqs[k])
          /\ \A i \in 1..k : off[i] <= off[k]
          /\ \A j \in 1..Len(seqs[k]) : f[n][off[k - 1] + j] = seqs[k][j]
    <3> SUFFICES ASSUME NEW k \in 1..n
                 PROVE  /\ off[k] = off[k - 1] + Len(seqs[k])
                        /\ \A i \in 1..k : off[i] <= off[k]
                        /\ \A j \in 1..Len(seqs[k]) : f[n][off[k - 1] + j] = seqs[k][j]
      OBVIOUS
    <3>1. n \in 1..n /\ k \in 1..n
      BY <1>1, <1>4
    <3> QED
      BY <2>5, <2>6, <3>1
  <2>9. Pieces(FlattenSeq(seqs), off, seqs)
    BY <2>1, <2>4, <2>7, <2>8 DEF Pieces, n
  <2> QED
    BY <2>9
<1> QED
  BY <1>3, <1>4

(* Everything in a flattened sequence is in one of its pieces. *)
LEMMA PieceOf ==
  ASSUME NEW flat, NEW off, NEW seqs, Pieces(flat, off, seqs), IsSeq(seqs),
         \A k \in 1..Len(seqs) : IsSeq(seqs[k]), NEW x \in 1..Len(flat)
  PROVE  \E k \in 1..Len(seqs) : \E j \in 1..Len(seqs[k]) :
           x = off[k - 1] + j /\ flat[x] = seqs[k][j]
PROOF
<1> DEFINE n == Len(seqs)
           T == {k \in 0..n : x <= off[k]}
<1>1. n \in Nat /\ x \in Nat /\ 1 <= x /\ x <= off[n] /\ off \in [0..n -> Nat] /\ off[0] = 0
  BY DEF Pieces, IsSeq
<1>2. T \subseteq Nat /\ n \in T
  BY <1>1
<1>3. PICK k \in T : \A m \in T : k <= m
  <2> HIDE DEF T
  <2> QED
    BY <1>2, LeastNat
<1>4. k \in 0..n /\ x <= off[k] /\ k # 0
  BY <1>1
<1>5. k \in 1..n /\ k - 1 \in 0..n /\ k - 1 \notin T
  <2>1. k \in 1..n /\ k - 1 \in 0..n /\ ~(k <= k - 1)
    BY ONLY <1>1, <1>4
  <2> HIDE DEF T
  <2> QED
    BY ONLY <1>3, <2>1
<1>6. off[k - 1] < x /\ off[k - 1] \in Nat /\ off[k] \in Nat
  <2>1. ~(x <= off[k - 1]) /\ off[k - 1] \in Nat /\ off[k] \in Nat
    BY <1>1, <1>4, <1>5
  <2> QED
    BY ONLY <1>1, <2>1
<1>7. off[k] = off[k - 1] + Len(seqs[k]) /\ Len(seqs[k]) \in Nat
      /\ \A j \in 1..Len(seqs[k]) : flat[off[k - 1] + j] = seqs[k][j]
  BY <1>5 DEF Pieces, IsSeq
<1> DEFINE j == x - off[k - 1]
<1>8. j \in 1..Len(seqs[k]) /\ x = off[k - 1] + j
  <2>1. /\ x \in Nat /\ x <= off[k] /\ off[k - 1] < x /\ off[k - 1] \in Nat
        /\ off[k] = off[k - 1] + Len(seqs[k]) /\ Len(seqs[k]) \in Nat
    BY <1>1, <1>4, <1>6, <1>7
  <2> QED
    BY ONLY <2>1
<1> QED
  BY <1>5, <1>7, <1>8

-----------------------------------------------------------------------------
(* The entries of a refined plan *)

(* The edits leave a base step where it is. *)
Stays(edits, k) == \A j \in DOMAIN edits : edits[j].step = plan[k].id => edits[j].kind = "insert"

(* What an edit puts beside a base step. *)
RanBy(k, e) ==
  CASE e.step # plan[k].id \/ e.kind = "remove" -> <<>>
    [] e.step = plan[k].id /\ e.kind = "replace" -> <<Ran("replaced", k, e.calls[1])>>
    [] e.step = plan[k].id /\ e.kind = "insert" ->
         [n \in DOMAIN e.calls |-> Ran("added", Null, e.calls[n])]
MadeBy(edits, k) == FlattenSeq([j \in DOMAIN edits |-> RanBy(k, edits[j])])
PieceBy(edits, k) == (IF Stays(edits, k) THEN <<Kept(k)>> ELSE <<>>) \o MadeBy(edits, k)

(* An entry that holds a call: in the place of a base step that does not   *)
(* stay, or beside one.                                                    *)
CallEntry(edits, k, x) ==
  \/ x.change = "replaced" /\ x.base = k /\ ~Stays(edits, k)
  \/ x.change = "added" /\ x.base = Null

LEMMA RanByCalls ==
  ASSUME NEW edits, NEW j \in DOMAIN edits, edits[j] \in Edits, NEW k
  PROVE  /\ IsSeq(RanBy(k, edits[j]))
         /\ \A n \in 1..Len(RanBy(k, edits[j])) : CallEntry(edits, k, RanBy(k, edits[j])[n])
PROOF
<1> DEFINE e == edits[j]
<1>1. e.kind \in {"insert", "replace", "remove"} /\ IsSeq(e.calls)
  BY EditsAssumption DEF EditsAssumption, IsSeq
<1>2. CASE e.step # plan[k].id \/ e.kind = "remove"
  <2>1. RanBy(k, e) = <<>>
    BY <1>2 DEF RanBy
  <2>2. IsSeq(<<>>) /\ Len(<<>>) = 0
    BY DEF IsSeq
  <2> QED
    BY <2>1, <2>2
<1>3. CASE e.step = plan[k].id /\ e.kind = "replace"
  <2> DEFINE r == Ran("replaced", k, e.calls[1])
  <2>1. RanBy(k, e) = <<r>>
    BY <1>3 DEF RanBy
  <2>2. IsSeq(<<r>>) /\ Len(<<r>>) = 1 /\ <<r>>[1] = r
    BY DEF IsSeq
  <2>3. CallEntry(edits, k, r)
    BY <1>3 DEF CallEntry, Stays, Ran
  <2> HIDE DEF r
  <2> QED
    BY <2>1, <2>2, <2>3
<1>4. CASE e.step = plan[k].id /\ e.kind = "insert"
  <2> DEFINE r == [n \in 1..Len(e.calls) |-> Ran("added", Null, e.calls[n])]
  <2>1. RanBy(k, e) = r
    BY <1>1, <1>4, ListIsSeq DEF RanBy, IsSeq
  <2>2. IsSeq(r) /\ Len(r) = Len(e.calls)
    BY <1>1, ListIsSeq DEF IsSeq
  <2>3. \A n \in 1..Len(e.calls) : CallEntry(edits, k, r[n])
    BY DEF CallEntry, Ran
  <2> HIDE DEF r
  <2> QED
    BY <2>1, <2>2, <2>3
<1> QED
  BY <1>1, <1>2, <1>3, <1>4

LEMMA MadeByCalls ==
  ASSUME NEW edits, IsSeq(edits), \A j \in 1..Len(edits) : edits[j] \in Edits, NEW k
  PROVE  /\ IsSeq(MadeBy(edits, k))
         /\ \A n \in 1..Len(MadeBy(edits, k)) : CallEntry(edits, k, MadeBy(edits, k)[n])
PROOF
<1> DEFINE seqs == [j \in 1..Len(edits) |-> RanBy(k, edits[j])]
<1>1. Len(edits) \in Nat /\ DOMAIN edits = 1..Len(edits)
  BY ListIsSeq DEF IsSeq
<1>2. MadeBy(edits, k) = FlattenSeq(seqs)
  BY <1>1 DEF MadeBy
<1>3. IsSeq(seqs) /\ Len(seqs) = Len(edits)
  BY <1>1, ListIsSeq
<1>4. \A j \in 1..Len(seqs) :
        /\ IsSeq(seqs[j])
        /\ \A n \in 1..Len(seqs[j]) : CallEntry(edits, k, seqs[j][n])
  BY <1>1, <1>3, RanByCalls
<1> HIDE DEF seqs
<1>5. PICK off : Pieces(FlattenSeq(seqs), off, seqs)
  BY <1>3, <1>4, FlattenPieces
<1>6. ASSUME NEW x \in 1..Len(FlattenSeq(seqs)) PROVE CallEntry(edits, k, FlattenSeq(seqs)[x])
  <2>1. PICK i \in 1..Len(seqs) : \E j \in 1..Len(seqs[i]) : FlattenSeq(seqs)[x] = seqs[i][j]
    BY <1>3, <1>4, <1>5, PieceOf
  <2> QED
    BY <1>4, <2>1
<1> QED
  BY <1>2, <1>5, <1>6 DEF Pieces

LEMMA PieceByParts ==
  ASSUME NEW edits, IsSeq(edits), \A j \in 1..Len(edits) : edits[j] \in Edits, NEW k
  PROVE  /\ IsSeq(PieceBy(edits, k))
         /\ Stays(edits, k) => Len(PieceBy(edits, k)) >= 1 /\ PieceBy(edits, k)[1] = Kept(k)
         /\ \A n \in 1..Len(PieceBy(edits, k)) :
              \/ Stays(edits, k) /\ n = 1
              \/ CallEntry(edits, k, PieceBy(edits, k)[n])
PROOF
<1> DEFINE made == MadeBy(edits, k)
           head == IF Stays(edits, k) THEN <<Kept(k)>> ELSE <<>>
           E == {Kept(k)} \cup {made[n] : n \in 1..Len(made)}
<1>1. IsSeq(made) /\ \A n \in 1..Len(made) : CallEntry(edits, k, made[n])
  BY MadeByCalls
<1>2. made \in Seq(E) /\ Len(made) \in Nat
  <2>1. \A n \in 1..Len(made) : made[n] \in E
    OBVIOUS
  <2> HIDE DEF E
  <2> QED
    BY <1>1, <2>1, SeqOfItsOwn DEF IsSeq
<1>3. <<Kept(k)>> \in Seq(E) /\ <<>> \in Seq(E)
  OBVIOUS
<1> HIDE DEF made, E
<1>4. /\ head \o made \in Seq(E) /\ Len(head \o made) = Len(head) + Len(made)
      /\ \A i \in 1..Len(head) + Len(made) :
           (head \o made)[i] = IF i <= Len(head) THEN head[i] ELSE made[i - Len(head)]
  BY <1>2, <1>3, ConcatProperties
<1>5. PieceBy(edits, k) = head \o made
  BY DEF PieceBy, made
<1>6. CASE Stays(edits, k)
  <2>1. Len(head) = 1 /\ head[1] = Kept(k)
    BY <1>6
  <2> HIDE DEF head
  <2>2. 1 \in 1..Len(head) + Len(made) /\ 1 <= Len(head) /\ Len(head) + Len(made) >= 1
    BY <1>2, <2>1
  <2>3. (head \o made)[1] = Kept(k)
    BY <1>4, <2>1, <2>2
  <2>4. ASSUME NEW n \in 1..Len(head \o made), n # 1 PROVE CallEntry(edits, k, (head \o made)[n])
    <3>1. n \in 1..Len(head) + Len(made) /\ ~(n <= Len(head)) /\ n - Len(head) \in 1..Len(made)
      BY <1>2, <1>4, <2>1, <2>4
    <3>2. (head \o made)[n] = made[n - Len(head)]
      BY <1>4, <3>1
    <3> QED
      BY <1>1, <3>1, <3>2 DEF made
  <2> QED
    BY <1>4, <1>5, <1>6, <2>2, <2>3, <2>4, SeqIsSeq
<1>7. CASE ~Stays(edits, k)
  <2>1. Len(head) = 0
    BY <1>7
  <2> HIDE DEF head
  <2>2. ASSUME NEW n \in 1..Len(head \o made) PROVE CallEntry(edits, k, (head \o made)[n])
    <3>1. n \in 1..Len(head) + Len(made) /\ ~(n <= Len(head)) /\ n - Len(head) \in 1..Len(made)
      BY <1>2, <1>4, <2>1, <2>2
    <3>2. (head \o made)[n] = made[n - Len(head)]
      BY <1>4, <3>1
    <3> QED
      BY <1>1, <3>1, <3>2 DEF made
  <2> QED
    BY <1>4, <1>5, <1>7, <2>2, SeqIsSeq
<1> QED
  BY <1>6, <1>7

(* Where each base step that stays is in the entries, and what else there  *)
(* is.                                                                     *)
Placed(entries, at, edits) ==
  /\ IsSeq(entries)
  /\ at \in [1..Len(plan) -> Nat \ {0}]
  /\ \A k \in 1..Len(plan) : Stays(edits, k) =>
       /\ at[k] \in 1..Len(entries) /\ entries[at[k]] = Kept(k)
       /\ \A i \in 1..(k - 1) : Stays(edits, i) => at[i] < at[k]
  /\ \A x \in 1..Len(entries) : \E k \in 1..Len(plan) :
       \/ Stays(edits, k) /\ x = at[k]
       \/ CallEntry(edits, k, entries[x])

LEMMA EntriesPlaced ==
  ASSUME IsSeq(plan), NEW edits, IsSeq(edits), \A j \in 1..Len(edits) : edits[j] \in Edits
  PROVE  \E at : Placed(Entries(edits), at, edits)
PROOF
<1> DEFINE seqs == [k \in 1..Len(plan) |-> PieceBy(edits, k)]
<1>1. Len(plan) \in Nat /\ DOMAIN plan = 1..Len(plan)
  BY ListIsSeq DEF IsSeq
<1>2. Entries(edits) = FlattenSeq(seqs)
  BY <1>1 DEF Entries, PieceBy, MadeBy, RanBy, Stays
<1>3. IsSeq(seqs) /\ Len(seqs) = Len(plan) /\ \A k \in 1..Len(plan) : seqs[k] = PieceBy(edits, k)
  BY <1>1, ListIsSeq
<1> HIDE DEF seqs
<1>4. \A k \in 1..Len(seqs) :
        /\ IsSeq(seqs[k])
        /\ Stays(edits, k) => Len(seqs[k]) >= 1 /\ seqs[k][1] = Kept(k)
        /\ \A n \in 1..Len(seqs[k]) :
             (Stays(edits, k) /\ n = 1) \/ CallEntry(edits, k, seqs[k][n])
  <2> SUFFICES ASSUME NEW k \in 1..Len(plan)
               PROVE  /\ IsSeq(PieceBy(edits, k))
                      /\ Stays(edits, k) =>
                           Len(PieceBy(edits, k)) >= 1 /\ PieceBy(edits, k)[1] = Kept(k)
                      /\ \A n \in 1..Len(PieceBy(edits, k)) :
                           \/ Stays(edits, k) /\ n = 1
                           \/ CallEntry(edits, k, PieceBy(edits, k)[n])
    BY <1>3
  <2> QED
    BY PieceByParts
<1> DEFINE flat == FlattenSeq(seqs)
<1>5. PICK off : Pieces(flat, off, seqs)
  BY <1>3, <1>4, FlattenPieces
<1>6. \A x \in 1..Len(flat) : \E k \in 1..Len(seqs) : \E j \in 1..Len(seqs[k]) :
         x = off[k - 1] + j /\ flat[x] = seqs[k][j]
  BY <1>3, <1>4, <1>5, PieceOf
<1> HIDE DEF flat
<1> DEFINE at == [k \in 1..Len(plan) |-> off[k - 1] + 1]
<1>7. /\ IsSeq(flat) /\ off \in [0..Len(plan) -> Nat] /\ off[Len(plan)] = Len(flat)
      /\ \A k \in 1..Len(plan) :
           /\ off[k] = off[k - 1] + Len(seqs[k])
           /\ \A i \in 1..k : off[i] <= off[k]
           /\ \A j \in 1..Len(seqs[k]) : flat[off[k - 1] + j] = seqs[k][j]
  BY <1>3, <1>5 DEF Pieces
<1>8. \A k \in 1..Len(plan) : off[k - 1] \in Nat /\ off[k] \in Nat /\ at[k] = off[k - 1] + 1
  <2>1. \A k \in 1..Len(plan) : k - 1 \in 0..Len(plan) /\ k \in 0..Len(plan)
    BY ONLY <1>1
  <2> QED
    BY <1>7, <2>1
<1>9. at \in [1..Len(plan) -> Nat \ {0}]
  BY <1>8
<1> HIDE DEF at
<1>10. ASSUME NEW k \in 1..Len(plan), Stays(edits, k)
       PROVE  /\ at[k] \in 1..Len(flat) /\ flat[at[k]] = Kept(k)
              /\ \A i \in 1..(k - 1) : Stays(edits, i) => at[i] < at[k]
  <2>1. Len(seqs[k]) >= 1 /\ seqs[k][1] = Kept(k) /\ Len(seqs[k]) \in Nat
    BY <1>3, <1>4, <1>10 DEF IsSeq
  <2>2. flat[at[k]] = Kept(k)
    <3>1. 1 \in 1..Len(seqs[k])
      BY ONLY <2>1
    <3>2. flat[off[k - 1] + 1] = seqs[k][1]
      BY <1>7, <3>1
    <3> QED
      BY ONLY <1>8, <1>10, <2>1, <3>2
  <2>3. at[k] <= off[k]
    BY <1>7, <1>8, <2>1
  <2>4. off[k] <= off[Len(plan)] /\ off[Len(plan)] = Len(flat)
    <3>1. Len(plan) \in 1..Len(plan)
      BY ONLY <1>1, <1>10
    <3> QED
      BY <1>7, <3>1
  <2>5. at[k] \in 1..Len(flat)
    <3>1. off[k] \in Nat /\ Len(flat) \in Nat /\ at[k] \in Nat \ {0}
      BY <1>7, <1>8, <1>9 DEF IsSeq
    <3> QED
      BY ONLY <2>3, <2>4, <3>1
  <2>6. ASSUME NEW i \in 1..(k - 1), Stays(edits, i) PROVE at[i] < at[k]
    <3>1. i \in 1..Len(plan) /\ k - 1 \in 1..Len(plan) /\ i \in 1..(k - 1)
      BY ONLY <1>1, <1>10, <2>6
    <3>2. off[i] <= off[k - 1]
      BY <1>7, <3>1
    <3>3. Len(seqs[i]) >= 1 /\ Len(seqs[i]) \in Nat
      BY <1>3, <1>4, <2>6, <3>1 DEF IsSeq
    <3>4. at[i] <= off[i]
      <4>1. at[i] = off[i - 1] + 1 /\ off[i - 1] \in Nat /\ off[i] = off[i - 1] + Len(seqs[i])
        BY <1>7, <1>8, <3>1
      <4> QED
        BY ONLY <3>3, <4>1
    <3>5. off[i] \in Nat /\ off[k - 1] \in Nat /\ at[k] = off[k - 1] + 1 /\ at[i] \in Nat
      BY <1>8, <1>9, <3>1
    <3> QED
      BY ONLY <3>2, <3>4, <3>5
  <2> QED
    BY <2>2, <2>5, <2>6
<1>11. ASSUME NEW x \in 1..Len(flat)
       PROVE  \E k \in 1..Len(plan) :
                (Stays(edits, k) /\ x = at[k]) \/ CallEntry(edits, k, flat[x])
  <2>0. PICK k \in 1..Len(plan) : \E j \in 1..Len(seqs[k]) : x = off[k - 1] + j /\ flat[x] = seqs[k][j]
    BY <1>3, <1>6
  <2>1. PICK j \in 1..Len(seqs[k]) : x = off[k - 1] + j /\ flat[x] = seqs[k][j]
    BY <2>0
  <2>2. CASE Stays(edits, k) /\ j = 1
    BY <1>8, <2>1, <2>2
  <2>3. CASE CallEntry(edits, k, seqs[k][j])
    BY <2>1, <2>3
  <2> QED
    BY <1>3, <1>4, <2>1, <2>2, <2>3
<1>12. Placed(flat, at, edits)
  BY <1>7, <1>9, <1>10, <1>11 DEF Placed
<1> QED
  BY <1>2, <1>12 DEF flat

(* A base step that stays is in one place of the entries. *)
LEMMA StaysInPlace ==
  ASSUME IsSeq(plan), NEW edits, NEW entries, NEW at, Placed(entries, at, edits),
         NEW k \in 1..Len(plan), Stays(edits, k)
  PROVE  BasePlace(entries, k) = at[k]
PROOF
<1> DEFINE places == {x \in DOMAIN entries : entries[x].base = k}
<1>1. DOMAIN entries = 1..Len(entries) /\ Len(plan) \in Nat
  <2>1. IsSeq(entries) /\ IsSeq(plan)
    BY DEF Placed
  <2> QED
    BY ONLY <2>1, SeqDomain, Zenon
<1>2. at[k] \in 1..Len(entries) /\ entries[at[k]].base = k
  <2>1. at[k] \in 1..Len(entries) /\ entries[at[k]] = Kept(k)
    BY DEF Placed
  <2> QED
    BY ONLY <2>1 DEF Kept
<1>3. ASSUME NEW x \in places PROVE x = at[k]
  <2>1. x \in 1..Len(entries) /\ entries[x].base = k
    BY <1>1
  <2>2. PICK i \in 1..Len(plan) : (Stays(edits, i) /\ x = at[i]) \/ CallEntry(edits, i, entries[x])
    BY <2>1 DEF Placed
  <2>3. CASE Stays(edits, i) /\ x = at[i]
    <3>1. entries[x] = Kept(i)
      BY <2>3 DEF Placed
    <3> QED
      BY <2>1, <2>3, <3>1 DEF Kept
  <2>4. CASE CallEntry(edits, i, entries[x])
    <3>1. k \in Nat
      BY <1>1
    <3> QED
      BY <2>1, <2>4, <3>1, PlaceAssumption DEF CallEntry, PlaceAssumption
  <2> QED
    BY <2>2, <2>3, <2>4
<1>4. places = {at[k]}
  BY <1>1, <1>2, <1>3
<1>5. Min({at[k]}) = at[k]
  <2>1. at[k] \in Int
    BY DEF Placed
  <2> QED
    BY ONLY <2>1, MinOfOne
<1> QED
  BY <1>4, <1>5 DEF BasePlace, First

(* An entry that is kept is the base step that stays there. *)
LEMMA KeptStays ==
  ASSUME NEW edits, NEW entries, NEW at, Placed(entries, at, edits),
         NEW x \in 1..Len(entries), entries[x].change = "kept"
  PROVE  \E k \in 1..Len(plan) : Stays(edits, k) /\ x = at[k] /\ entries[x] = Kept(k)
PROOF
<1>1. PICK k \in 1..Len(plan) : (Stays(edits, k) /\ x = at[k]) \/ CallEntry(edits, k, entries[x])
  BY DEF Placed
<1> QED
  BY <1>1 DEF Placed, CallEntry

-----------------------------------------------------------------------------
(* The cards Team makes *)

(* What every step of a plan reads comes earlier in it. *)
ReadsEarlier(steps) ==
  \A k \in 1..Len(steps) : \A i \in steps[k].inputs : \E p \in 1..(k - 1) : i = Reads(p)

(* A card's step that is kept reads on what it read. *)
ReadsOn(steps, k) ==
  LET before == {i.step : i \in plan[steps[k].base].inputs}
      now == {i.step : i \in steps[k].inputs}
  IN /\ now \subseteq 1..(k - 1)
     /\ {steps[p].base : p \in now} = before
     /\ \A p \in now : steps[p].change = "kept"

(* What Team shows of an entry. *)
LEMMA CardStepShows ==
  ASSUME NEW entries, NEW k
  PROVE  /\ CardStep(entries, k).change = entries[k].change
         /\ \A b : entries[k] = Kept(b) =>
              /\ CardStep(entries, k).base = b
              /\ CardStep(entries, k).inputs =
                   {CardReads(p) : p \in {BasePlace(entries, i.step) : i \in plan[b].inputs}}
PROOF
<1>1. CardStep(entries, k).change = entries[k].change
  BY DEF CardStep
<1>2. ASSUME NEW b, entries[k] = Kept(b)
      PROVE  /\ CardStep(entries, k).base = b
             /\ CardStep(entries, k).inputs =
                  {CardReads(p) : p \in {BasePlace(entries, i.step) : i \in plan[b].inputs}}
  <2>1. entries[k].change = "kept" /\ entries[k].base = b
    BY <1>2 DEF Kept
  <2> QED
    BY <2>1 DEF CardStep
<1> QED
  BY <1>1, <1>2

LEMMA RefinementReadsOn ==
  ASSUME IsSeq(plan), ReadsEarlier(plan),
         NEW edits, IsSeq(edits), \A j \in 1..Len(edits) : edits[j] \in Edits,
         NEW selected, selected.steps = plan, ~read_after(selected, edits),
         NEW steps,
         steps = [k \in DOMAIN Entries(edits) |-> CardStep(Entries(edits), k)]
  PROVE  /\ IsSeq(steps)
         /\ \A k \in 1..Len(steps) : steps[k].change = "kept" => ReadsOn(steps, k)
PROOF
<1> DEFINE entries == Entries(edits)
<1>1. PICK at : Placed(entries, at, edits)
  BY EntriesPlaced
<1>2. /\ IsSeq(entries) /\ DOMAIN entries = 1..Len(entries) /\ Len(entries) \in Nat
      /\ DOMAIN plan = 1..Len(plan) /\ DOMAIN edits = 1..Len(edits) /\ Len(plan) \in Nat
  BY <1>1, SeqDomain DEF Placed
<1>3. IsSeq(steps) /\ Len(steps) = Len(entries)
  BY <1>2, ListIsSeq
<1>4. \A k \in 1..Len(entries) : steps[k] = CardStep(entries, k)
  BY <1>2
<1> HIDE DEF entries
(* What a step that stays reads, stays. *)
<1>5. ASSUME NEW b \in 1..Len(plan), Stays(edits, b), NEW p \in 1..(b - 1),
             Reads(p) \in plan[b].inputs
      PROVE  Stays(edits, p) /\ p \in 1..Len(plan)
  <2> DEFINE gone == {k \in DOMAIN selected.steps :
                        \E j \in DOMAIN edits : /\ edits[j].kind \in {"remove", "replace"}
                                                /\ edits[j].step = selected.steps[k].id}
  <2>1. p \in 1..Len(plan)
    BY <1>2
  <2>2. b \notin gone
    BY <1>5 DEF Stays
  <2>3. \A i \in plan[b].inputs : ~(i.source = "step_output" /\ i.step \in gone)
    BY <1>2, <1>5, <2>2 DEF read_after
  <2>4. p \notin gone
    BY <1>5, <2>3 DEF Reads
  <2>5. ASSUME NEW j \in DOMAIN edits, edits[j].step = plan[p].id PROVE edits[j].kind = "insert"
    <3>1. edits[j].kind \in {"insert", "replace", "remove"}
      BY <1>2, EditsAssumption DEF EditsAssumption
    <3> QED
      BY <1>2, <2>1, <2>4, <2>5, <3>1
  <2> QED
    BY <2>1, <2>5 DEF Stays
<1>6. ASSUME NEW k \in 1..Len(steps), steps[k].change = "kept" PROVE ReadsOn(steps, k)
  <2>1. k \in 1..Len(entries) /\ entries[k].change = "kept"
    <3>1. k \in 1..Len(entries) /\ steps[k] = CardStep(entries, k)
      BY <1>3, <1>4
    <3>2. CardStep(entries, k).change = entries[k].change
      BY CardStepShows
    <3> QED
      BY ONLY <1>6, <3>1, <3>2, Zenon
  <2>2. PICK b \in 1..Len(plan) : Stays(edits, b) /\ k = at[b] /\ entries[k] = Kept(b)
    BY <1>1, <2>1, KeptStays
  <2>3. /\ steps[k].base = b
        /\ steps[k].inputs = {CardReads(p) : p \in {BasePlace(entries, i.step) : i \in plan[b].inputs}}
    <3>1. /\ CardStep(entries, k).base = b
          /\ CardStep(entries, k).inputs =
               {CardReads(p) : p \in {BasePlace(entries, i.step) : i \in plan[b].inputs}}
      BY <2>2, CardStepShows
    <3>2. steps[k] = CardStep(entries, k)
      BY <1>4, <2>1
    <3> QED
      BY ONLY <3>1, <3>2, Zenon
  <2> DEFINE now == {i.step : i \in steps[k].inputs}
  <2>4. now = {BasePlace(entries, i.step) : i \in plan[b].inputs}
    <3> DEFINE P == {BasePlace(entries, i.step) : i \in plan[b].inputs}
    <3>1. steps[k].inputs = {CardReads(p) : p \in P}
      BY <2>3
    <3>2. \A p : CardReads(p).step = p
      BY DEF CardReads
    <3> HIDE DEF P
    <3>3. now = {i.step : i \in {CardReads(p) : p \in P}}
      BY <3>1
    <3>4. now \subseteq P
      BY ONLY <3>2, <3>3
    <3>5. \A p \in P : CardReads(p) \in {CardReads(q) : q \in P}
      OBVIOUS
    <3>6. P \subseteq now
      BY ONLY <3>2, <3>3, <3>5
    <3>7. now = P
      BY <3>4, <3>6
    <3> QED
      BY <3>7 DEF P
  <2>5. ASSUME NEW i \in plan[b].inputs
        PROVE  LET p == BasePlace(entries, i.step)
               IN p \in 1..(k - 1) /\ steps[p].base = i.step /\ steps[p].change = "kept"
    <3>1. PICK r \in 1..(b - 1) : i = Reads(r)
      BY DEF ReadsEarlier
    <3>2. Stays(edits, r) /\ r \in 1..Len(plan) /\ i.step = r
      BY <1>5, <2>2, <3>1 DEF Reads
    <3>3. BasePlace(entries, i.step) = at[r]
      BY <1>1, <3>2, StaysInPlace
    <3>4. at[r] \in 1..Len(entries) /\ entries[at[r]] = Kept(r) /\ at[r] < at[b]
      BY <1>1, <2>2, <3>1, <3>2 DEF Placed
    <3>5. steps[at[r]].base = r /\ steps[at[r]].change = "kept"
      <4>1. entries[at[r]].change = "kept"
        BY <3>4 DEF Kept
      <4>2. CardStep(entries, at[r]).base = r /\ CardStep(entries, at[r]).change = "kept"
        BY <3>4, <4>1, CardStepShows
      <4> QED
        BY ONLY <1>4, <3>4, <4>2, Zenon
    <3>6. at[r] \in 1..(k - 1)
      BY <1>2, <2>1, <2>2, <3>4
    <3> QED
      BY <3>2, <3>3, <3>5, <3>6
  <2>6. now \subseteq 1..(k - 1) /\ \A p \in now : steps[p].change = "kept"
    <3> SUFFICES ASSUME NEW p \in now PROVE p \in 1..(k - 1) /\ steps[p].change = "kept"
      OBVIOUS
    <3>1. PICK i \in plan[b].inputs : p = BasePlace(entries, i.step)
      BY <2>4
    <3> QED
      BY <2>5, <3>1, Zenon
  <2>7. {steps[p].base : p \in now} = {i.step : i \in plan[b].inputs}
    <3>1. ASSUME NEW p \in now PROVE \E i \in plan[b].inputs : steps[p].base = i.step
      <4>1. PICK i \in plan[b].inputs : p = BasePlace(entries, i.step)
        BY <2>4, <3>1
      <4> QED
        BY <2>5, <4>1, Zenon
    <3>2. ASSUME NEW i \in plan[b].inputs PROVE \E p \in now : steps[p].base = i.step
      <4>1. BasePlace(entries, i.step) \in now
        BY <2>4
      <4> QED
        BY <2>5, <4>1, Zenon
    <3> HIDE DEF now
    <3> QED
      BY <3>1, <3>2
  <2> QED
    BY <2>3, <2>6, <2>7 DEF ReadsOn
<1> QED
  BY <1>3, <1>6

-----------------------------------------------------------------------------
(* The inductive invariant *)

(* What Team traced of the running send: every call has its handle, and    *)
(* read from an earlier one or from none.                                  *)
TraceInv ==
  /\ IsSeq(trace)
  /\ \A k \in 1..Len(trace) :
       /\ trace[k].handle = Handle(k)
       /\ trace[k].reads = Null \/ \E j \in 1..(k - 1) : trace[k].reads = Handle(j)

PlanInv == revision \in Nat \ {0} /\ IsSeq(plan) /\ ReadsEarlier(plan)

(* The Routine as somebody was shown it is the plan of some revision, and  *)
(* this one's while its revision is this one.                              *)
ShownOf(selected) ==
  /\ selected.revision \in Nat /\ selected.revision <= revision
  /\ selected.revision = revision => selected.steps = plan

SelectedInv ==
  /\ ShownOf(shown)
  /\ send # Null /\ send.selected # Null => ShownOf(send.selected)

(* A card that waits is of this revision, and what its steps read is       *)
(* earlier in it.                                                          *)
CardOK(c) ==
  /\ IsSeq(c.steps)
  /\ \A k \in 1..Len(c.steps) : \A i \in c.steps[k].inputs : i.step \in 1..(k - 1)
  /\ c.kind = "refine" =>
       /\ c.base_revision = revision
       /\ \A k \in 1..Len(c.steps) : c.steps[k].change = "kept" => ReadsOn(c.steps, k)

CardInv == card # Null => CardOK(card)

PlansInv == TraceInv /\ PlanInv /\ SelectedInv /\ CardInv

(* A card that is in order stays so while the plan does. *)
LEMMA CardStays ==
  ASSUME UNCHANGED <<plan, revision>>, card' # Null => CardOK(card')
  PROVE  CardInv'
PROOF
<1>1. plan' = plan /\ revision' = revision
  OBVIOUS
<1>2. ASSUME card' # Null PROVE CardOK(card)'
  <2>1. CardOK(card')
    BY <1>2
  <2> QED
    BY ONLY <1>1, <2>1, Zenon DEF CardOK, ReadsOn, IsSeq
<1> QED
  BY <1>2 DEF CardInv

(* Initially. *)
LEMMA PlansInit == Init => PlansInv
PROOF
<1> SUFFICES ASSUME Init PROVE PlansInv
  OBVIOUS
<1>1. TraceInv
  <2>1. trace = <<>> /\ Len(<<>>) = 0
    BY DEF Init
  <2>2. IsSeq(<<>>)
    BY DEF IsSeq
  <2> QED
    BY <2>1, <2>2 DEF TraceInv
<1>2. PlanInv
  <2>1. IsSeq(FirstPlan)
    BY FirstPlanAssumption DEF FirstPlanAssumption, IsSeq
  <2>2. ReadsEarlier(FirstPlan)
    BY <2>1, SeqDomain, FirstPlanAssumption DEF FirstPlanAssumption, ReadsEarlier, Reads
  <2> QED
    BY <2>1, <2>2 DEF Init, PlanInv
<1>3. SelectedInv
  BY DEF Init, SelectedInv, ShownOf, Selected
<1>4. CardInv
  BY DEF Init, CardInv
<1> QED
  BY <1>1, <1>2, <1>3, <1>4 DEF PlansInv

(* A send begins with the Routine as it is, or as it was shown before. *)
LEMMA SendPlans == PlansInv /\ Send => PlansInv'
PROOF
<1> SUFFICES ASSUME PlansInv, Send PROVE PlansInv'
  OBVIOUS
<1>1. UNCHANGED <<plan, revision, card>> /\ trace' = <<>>
  BY DEF Send
<1>2. TraceInv'
  <2>1. Len(<<>>) = 0 /\ IsSeq(<<>>)
    BY DEF IsSeq
  <2> QED
    BY <1>1, <2>1 DEF TraceInv, IsSeq
<1>3. PlanInv'
  BY <1>1 DEF PlansInv, PlanInv, ReadsEarlier, IsSeq
<1>4. SelectedInv'
  <2> DEFINE now == Selected(plan, revision)
  <2>1. /\ shown' = shown \/ shown' = now
        /\ send'.selected = Null \/ send'.selected = shown \/ send'.selected = now
    BY DEF Send
  <2>2. ShownOf(shown) /\ ShownOf(now)
    BY DEF PlansInv, SelectedInv, PlanInv, ShownOf, Selected
  <2> HIDE DEF now
  <2> QED
    BY <1>1, <2>1, <2>2 DEF SelectedInv, ShownOf
<1>5. CardInv'
  BY <1>1, CardStays DEF PlansInv, CardInv
<1> QED
  BY <1>2, <1>3, <1>4, <1>5 DEF PlansInv

(* A call is traced under the next handle. *)
LEMMA RunPlans == PlansInv /\ Run => PlansInv'
PROOF
<1> SUFFICES ASSUME PlansInv, Run PROVE PlansInv'
  OBVIOUS
<1>1. UNCHANGED <<plan, revision, shown, send, card>>
  BY DEF Run
<1>2. PICK work, value, reads :
        /\ reads \in {Null} \cup {t.handle : t \in ToSet(trace)}
        /\ trace' = Append(trace, [handle |-> Handle(Len(trace) + 1), work |-> work,
                                   reads |-> reads, value |-> value])
  BY Zenon DEF Run
<1> DEFINE new == [handle |-> Handle(Len(trace) + 1), work |-> work,
                   reads |-> reads, value |-> value]
<1>3. Len(trace) \in Nat /\ IsSeq(trace) /\ DOMAIN trace = 1..Len(trace)
  BY SeqDomain DEF PlansInv, TraceInv
<1>4. reads = Null \/ \E j \in 1..Len(trace) : reads = Handle(j)
  BY <1>2, <1>3 DEF ToSet, PlansInv, TraceInv
<1>5. /\ IsSeq(Append(trace, new)) /\ Len(Append(trace, new)) = Len(trace) + 1
      /\ \A k \in 1..Len(trace) : Append(trace, new)[k] = trace[k]
      /\ Append(trace, new)[Len(trace) + 1] = new
  <2> DEFINE E == {trace[k] : k \in 1..Len(trace)} \cup {new}
  <2>1. new \in E /\ \A k \in 1..Len(trace) : trace[k] \in E
    OBVIOUS
  <2> HIDE DEF E, new
  <2>2. trace \in Seq(E)
    BY <1>3, <2>1, SeqOfItsOwn
  <2>3. Append(trace, new) \in Seq(E)
    BY <2>1, <2>2, AppendProperties
  <2>4. IsSeq(Append(trace, new))
    BY <2>3, SeqIsSeq
  <2> QED
    BY <2>1, <2>2, <2>4, AppendProperties
<1>6. TraceInv'
  <2>1. trace' = Append(trace, new) /\ new.handle = Handle(Len(trace) + 1) /\ new.reads = reads
    BY <1>2
  <2> HIDE DEF new
  <2>2. ASSUME NEW k \in 1..Len(trace')
        PROVE  /\ trace'[k].handle = Handle(k)
               /\ trace'[k].reads = Null \/ \E j \in 1..(k - 1) : trace'[k].reads = Handle(j)
    <3>1. CASE k \in 1..Len(trace)
      BY <1>5, <2>1, <3>1 DEF PlansInv, TraceInv
    <3>2. CASE k = Len(trace) + 1
      <4>1. k - 1 = Len(trace)
        BY <1>3, <3>2
      <4> QED
        BY <1>4, <1>5, <2>1, <3>2, <4>1
    <3> QED
      BY <1>3, <1>5, <2>1, <2>2, <3>1, <3>2
  <2> QED
    BY <1>5, <2>1, <2>2 DEF TraceInv, IsSeq
<1>7. PlanInv'
  BY <1>1 DEF PlansInv, PlanInv, ReadsEarlier, IsSeq
<1>8. SelectedInv' /\ CardInv'
  <2>1. SelectedInv'
    BY <1>1 DEF PlansInv, SelectedInv, ShownOf
  <2>2. CardInv'
    BY <1>1, CardStays DEF PlansInv, CardInv
  <2> QED
    BY <2>1, <2>2
<1> QED
  BY <1>6, <1>7, <1>8 DEF PlansInv

(* A call that is recorded as a refinement names the selected Routine,     *)
(* edits that no kept step's results are taken from, and calls it may name.*)
LEMMA RefineRecorded ==
  ASSUME NEW args, NEW c, NEW handles, record(args, c, handles).why = "recorded",
         \/ record(args, c, handles).outcome.kind # "record"
         \/ c.selected # Null /\ args.op = "refine"
  PROVE  LET o == record(args, c, handles).outcome
         IN /\ c.selected # Null /\ args.op = "refine"
            /\ o.edits = args.edits /\ o.base_revision = c.selected.revision
            /\ ~read_after(c.selected, args.edits)
            /\ ToSet(Calls(args.edits)) \subseteq handles
PROOF
<1> DEFINE r == record(args, c, handles)
<1>1. \A field \in {"refine", "description", "calls", "dependency", "empty", "reply",
                    "name", "replaces", "invalid"} :
        Correct(field).why # "recorded"
  BY DEF Correct
<1>2. \A o : Recorded(o).outcome = o
  BY DEF Recorded
<1>3. CASE c.selected # Null /\ args.op = "refine"
  <2>1. r = refined(args, c.selected, handles)
    <3>1. r = Correct("refine") \/ r = refined(args, c.selected, handles)
      BY <1>3 DEF record
    <3> QED
      BY <1>1, <3>1
  <2>2. /\ ~read_after(c.selected, args.edits)
        /\ ToSet(Calls(args.edits)) \subseteq handles
        /\ r = Recorded([kind |-> "refine", routine_id |-> c.selected.routine_id,
                         base_revision |-> c.selected.revision,
                         description |-> args.description, edits |-> args.edits])
    BY <1>1, <2>1 DEF refined
  <2> QED
    BY <1>2, <1>3, <2>2
<1>4. CASE ~(c.selected # Null /\ args.op = "refine")
  <2>1. \/ r = Correct("refine") \/ r = Correct("invalid")
        \/ r = recorded_outcome(args, c)
    BY <1>4 DEF record
  <2>2. r = recorded_outcome(args, c)
    BY <1>1, <2>1
  <2>3. r = Recorded([kind |-> "record", name |-> args.name,
                      description |-> args.description, replaces |-> args.replaces])
    BY <1>1, <2>2 DEF recorded_outcome
  <2>4. r.outcome.kind = "record"
    BY <1>2, <2>3
  <2> QED
    BY <1>4, <2>4
<1> QED
  BY <1>3, <1>4

(* What the model may name as edits is a list of them. *)
LEMMA EditsListed ==
  ASSUME NEW args \in Arguments, args.op = "refine"
  PROVE  IsSeq(args.edits) /\ \A j \in 1..Len(args.edits) : args.edits[j] \in Edits
PROOF
<1>1. PICK n \in 0..2 : args.edits \in [1..n -> Edits]
  BY DEF Arguments
<1>2. args.edits = [k \in 1..n |-> args.edits[k]] /\ n \in Nat
  BY <1>1
<1>3. IsSeq(args.edits) /\ Len(args.edits) = n
  BY <1>2, ListIsSeq
<1> QED
  BY <1>1, <1>3

(* The card of a refinement the guard accepted. *)
LEMMA RefinementCardOK ==
  ASSUME PlansInv, NEW o, IsSeq(o.edits), \A j \in 1..Len(o.edits) : o.edits[j] \in Edits,
         o.base_revision = revision, NEW selected, selected.steps = plan,
         ~read_after(selected, o.edits), Traced(Refinement(o))
  PROVE  CardOK(Refinement(o))
PROOF
<1> DEFINE made == Refinement(o)
<1>1. /\ made.kind = "refine" /\ made.base_revision = revision
      /\ made.steps = [k \in DOMAIN Entries(o.edits) |-> CardStep(Entries(o.edits), k)]
  BY DEF Refinement
<1> HIDE DEF made
<1>2. /\ IsSeq(made.steps)
      /\ \A k \in 1..Len(made.steps) : made.steps[k].change = "kept" => ReadsOn(made.steps, k)
  BY <1>1, RefinementReadsOn DEF PlansInv, PlanInv
<1>3. DOMAIN made.steps = 1..Len(made.steps)
  BY <1>2, SeqDomain
<1>4. ASSUME NEW k \in 1..Len(made.steps), NEW i \in made.steps[k].inputs
      PROVE  i.step \in 1..(k - 1)
  <2>1. CASE made.steps[k].change = "kept"
    BY <1>2, <1>4, <2>1 DEF ReadsOn
  <2>2. CASE made.steps[k].change # "kept"
    BY <1>3, <1>4, <2>2 DEF Traced, made
  <2> QED
    BY <2>1, <2>2
<1> QED
  BY <1>1, <1>2, <1>4 DEF CardOK, made

(* The card of a record: what a call read is the one call of that handle.  *)
LEMMA ProposalCardOK ==
  ASSUME PlansInv, NEW o
  PROVE  CardOK(Proposal(o))
PROOF
<1>1. IsSeq(trace) /\ Len(trace) \in Nat /\ DOMAIN trace = 1..Len(trace)
  BY SeqDomain DEF PlansInv, TraceInv
<1> DEFINE found(k) == CHOOSE j \in DOMAIN trace : trace[j].handle = trace[k].reads
           steps == [k \in DOMAIN trace |->
                      [position |-> k, work |-> trace[k].work, change |-> "added", base |-> Null,
                       inputs |-> IF trace[k].reads = Null THEN {} ELSE {CardReads(found(k))}]]
<1>2. Proposal(o).kind = "record" /\ Proposal(o).steps = steps
  BY DEF Proposal
<1>3. IsSeq(steps) /\ Len(steps) = Len(trace)
  BY <1>1, ListIsSeq
<1>4. \A k \in 1..Len(trace) :
        steps[k].inputs = IF trace[k].reads = Null THEN {} ELSE {CardReads(found(k))}
  BY <1>1
<1> HIDE DEF steps, found
<1>5. ASSUME NEW k \in 1..Len(trace), NEW i \in steps[k].inputs PROVE i.step \in 1..(k - 1)
  <2>1. trace[k].reads # Null /\ i.step = found(k)
    <3>1. steps[k].inputs = IF trace[k].reads = Null THEN {} ELSE {CardReads(found(k))}
      BY <1>4
    <3>2. trace[k].reads # Null /\ i = CardReads(found(k))
      BY <1>5, <3>1
    <3> QED
      BY <3>2 DEF CardReads
  <2>2. PICK j \in 1..(k - 1) : trace[k].reads = Handle(j)
    BY <2>1 DEF PlansInv, TraceInv
  <2>3. j \in DOMAIN trace /\ trace[j].handle = trace[k].reads
    BY <1>1, <2>2 DEF PlansInv, TraceInv
  <2>4. found(k) \in DOMAIN trace /\ trace[found(k)].handle = trace[k].reads
    BY <2>3, Zenon DEF found
  <2>5. Handle(found(k)) = Handle(j)
    BY <1>1, <2>2, <2>4 DEF PlansInv, TraceInv
  <2> QED
    BY <2>1, <2>2, <2>5 DEF Handle
<1> QED
  BY <1>2, <1>3, <1>5 DEF CardOK

(* The tool's call ends the send; the card Team makes of it is in order. *)
LEMMA ProposePlans == PlansInv /\ Propose => PlansInv'
PROOF
<1> SUFFICES ASSUME PlansInv, Propose PROVE PlansInv'
  OBVIOUS
<1>1. UNCHANGED <<plan, revision, shown>> /\ trace' = <<>> /\ send' = Null /\ send # Null
  BY DEF Propose
<1>2. TraceInv'
  <2>1. Len(<<>>) = 0 /\ IsSeq(<<>>)
    BY DEF IsSeq
  <2> QED
    BY <1>1, <2>1 DEF TraceInv, IsSeq
<1>3. PlanInv'
  BY <1>1 DEF PlansInv, PlanInv, ReadsEarlier, IsSeq
<1>4. SelectedInv'
  BY <1>1 DEF PlansInv, SelectedInv, ShownOf
<1>5. CardInv'
  <2>1. PICK args \in Arguments :
          /\ record(args, send, call_handles(messages)).why = "recorded"
          /\ card' = CardOf(record(args, send, call_handles(messages)).outcome)
    BY DEF Propose
  <2> DEFINE o == record(args, send, call_handles(messages)).outcome
  <2>2. CASE o.kind = "record"
    <3>1. card' = Null \/ card' = Proposal(o)
      BY <2>1, <2>2 DEF CardOf
    <3>2. CardOK(Proposal(o))
      BY ProposalCardOK
    <3> HIDE DEF o
    <3>3. CASE card' = Proposal(o)
      BY <1>1, <3>2, <3>3, CardStays
    <3> QED
      BY <3>1, <3>3 DEF CardInv
  <2>3. CASE o.kind # "record"
    <3>1. /\ send.selected # Null /\ args.op = "refine"
          /\ o.edits = args.edits /\ o.base_revision = send.selected.revision
          /\ ~read_after(send.selected, args.edits)
      BY <2>1, <2>3, RefineRecorded
    <3>2. IsSeq(args.edits) /\ \A j \in 1..Len(args.edits) : args.edits[j] \in Edits
      BY <3>1, EditsListed
    <3> HIDE DEF o
    <3>3. \/ card' = Null
          \/ /\ card' = Refinement(o) /\ o.base_revision = revision /\ Traced(Refinement(o))
      BY <2>1, <2>3 DEF CardOf, o
    <3>4. CASE card' = Refinement(o) /\ o.base_revision = revision /\ Traced(Refinement(o))
      <4>1. send.selected.steps = plan
        BY <1>1, <3>1, <3>4 DEF PlansInv, SelectedInv, ShownOf
      <4>2. CardOK(Refinement(o))
        BY <3>1, <3>2, <3>4, <4>1, RefinementCardOK
      <4> QED
        BY <1>1, <3>4, <4>2, CardStays
    <3> QED
      BY <3>3, <3>4 DEF CardInv
  <2> QED
    BY <2>2, <2>3
<1> QED
  BY <1>2, <1>3, <1>4, <1>5 DEF PlansInv

(* A confirmed plan's steps read what the card's do, under other ids. *)
LEMMA ConfirmPlans == PlansInv /\ Confirm => PlansInv'
PROOF
<1> SUFFICES ASSUME PlansInv, Confirm PROVE PlansInv'
  OBVIOUS
<1>1. /\ UNCHANGED <<shown, send, trace>> /\ send = Null /\ card' = Null
      /\ revision' = revision + 1 /\ plan' = Confirmed(card) /\ CardOK(card)
  BY DEF Confirm, PlansInv, CardInv
<1>2. revision \in Nat \ {0}
  BY DEF PlansInv, PlanInv
<1>3. TraceInv'
  BY <1>1 DEF PlansInv, TraceInv, IsSeq
<1>4. PlanInv'
  <2>1. IsSeq(card.steps) /\ Len(card.steps) \in Nat /\ DOMAIN card.steps = 1..Len(card.steps)
    BY <1>1, SeqDomain DEF CardOK
  <2>2. PICK ids : plan' = [k \in 1..Len(card.steps) |->
                              [id |-> ids[k], position |-> k, work |-> card.steps[k].work,
                               inputs |-> {Reads(i.step) : i \in card.steps[k].inputs}]]
    <3> DEFINE kept == {plan[card.steps[k].base].id :
                          k \in {j \in DOMAIN card.steps : card.steps[j].change = "kept"}}
               free == SetToSeq(Ids \ kept)
               news(k) == Cardinality({j \in 1..k : card.steps[j].change # "kept"})
               id(k) == IF card.steps[k].change = "kept" THEN plan[card.steps[k].base].id
                        ELSE free[news(k)]
               ids == [k \in 1..Len(card.steps) |-> id(k)]
    <3>1. plan' = [k \in DOMAIN card.steps |->
                     [id |-> id(k), position |-> k, work |-> card.steps[k].work,
                      inputs |-> {Reads(i.step) : i \in card.steps[k].inputs}]]
      BY <1>1 DEF Confirmed
    <3>2. \A k \in 1..Len(card.steps) : ids[k] = id(k)
      OBVIOUS
    <3> HIDE DEF ids, id
    <3> QED
      BY <2>1, <3>1, <3>2
  <2>3. IsSeq(plan)' /\ Len(plan') = Len(card.steps)
    BY <2>1, <2>2, ListIsSeq DEF IsSeq
  <2>4. ASSUME NEW k \in 1..Len(plan'), NEW i \in plan'[k].inputs
        PROVE  \E p \in 1..(k - 1) : i = Reads(p)
    <3>1. k \in 1..Len(card.steps) /\ plan'[k].inputs = {Reads(j.step) : j \in card.steps[k].inputs}
      BY <2>2, <2>3
    <3>2. PICK j \in card.steps[k].inputs : i = Reads(j.step)
      BY <2>4, <3>1
    <3>3. j.step \in 1..(k - 1)
      BY <1>1, <3>1 DEF CardOK
    <3> QED
      BY <3>2, <3>3
  <2>5. ReadsEarlier(plan)'
    BY <2>4 DEF ReadsEarlier, Reads
  <2> QED
    BY <1>1, <1>2, <2>3, <2>5 DEF PlanInv
<1>5. SelectedInv'
  BY <1>1, <1>2 DEF PlansInv, SelectedInv, ShownOf
<1>6. CardInv'
  BY <1>1 DEF CardInv
<1> QED
  BY <1>3, <1>4, <1>5, <1>6 DEF PlansInv

LEMMA OtherPlans == PlansInv /\ (Reply \/ Revoke \/ UNCHANGED vars) => PlansInv'
PROOF
<1> SUFFICES ASSUME PlansInv, Reply \/ Revoke \/ UNCHANGED vars PROVE PlansInv'
  OBVIOUS
<1>1. /\ UNCHANGED <<plan, revision, shown>> /\ trace' \in {trace, <<>>}
      /\ (send' = send \/ send' = Null) /\ (card' = card \/ card' = Null)
  BY DEF Reply, Revoke, vars
<1>2. TraceInv'
  <2>1. CASE trace' = trace
    BY <2>1 DEF PlansInv, TraceInv, IsSeq
  <2>2. CASE trace' = <<>>
    <3>1. Len(<<>>) = 0 /\ IsSeq(<<>>)
      BY DEF IsSeq
    <3> QED
      BY <2>2, <3>1 DEF TraceInv, IsSeq
  <2> QED
    BY <1>1, <2>1, <2>2
<1>3. PlanInv'
  BY <1>1 DEF PlansInv, PlanInv, ReadsEarlier, IsSeq
<1>4. SelectedInv'
  BY <1>1 DEF PlansInv, SelectedInv, ShownOf
<1>5. CardInv'
  <2>1. CASE card' = Null
    BY <2>1 DEF CardInv
  <2>2. CASE card' = card
    BY <1>1, <2>2, CardStays DEF PlansInv, CardInv
  <2> QED
    BY <1>1, <2>1, <2>2
<1> QED
  BY <1>2, <1>3, <1>4, <1>5 DEF PlansInv

LEMMA PlansKept == PlansInv /\ [Next]_vars => PlansInv'
PROOF
  BY SendPlans, RunPlans, ProposePlans, ConfirmPlans, OtherPlans DEF Next

(* Every step a refinement keeps reads, in the plan its card shows, the    *)
(* steps it read before, from results that come earlier (refine.rs:        *)
(* read_after refuses edits that take such a result away; Team applies     *)
(* what it recorded), for every plan, list of edits and way they are       *)
(* applied to a plan of any revision.                                      *)
THEOREM KeptReadsOn == Spec => []KeptReadOn
PROOF
<1>1. PlansInv => KeptReadOn
  <2> SUFFICES ASSUME PlansInv, card # Null, card.kind = "refine",
                      NEW k \in DOMAIN card.steps, card.steps[k].change = "kept"
               PROVE  ReadsOn(card.steps, k)
    BY DEF KeptReadOn, ReadsOn
  <2>1. DOMAIN card.steps = 1..Len(card.steps)
    BY SeqDomain DEF PlansInv, CardInv, CardOK
  <2> QED
    BY <2>1 DEF PlansInv, CardInv, CardOK
<1>2. Spec => []PlansInv
  BY PlansInit, PlansKept, PTL DEF Spec
<1> QED
  BY <1>1, <1>2, PTL

-----------------------------------------------------------------------------
(* What a send finds and names *)

(* The work a rerun checks. *)
RerunWork ==
  <<[work |-> Fresh, count |-> 1, inputs |->
      {[member |-> "m", kind |-> "fresh", value |-> Null, chosen |-> FALSE, source |-> Null]}]>>

(* While a send runs, the messages since its user's are the results of the *)
(* calls traced, in their order and under their handles, and a fresh       *)
(* identifier a call sends is in one of them from before it, or the user   *)
(* wrote it.                                                               *)
SendStart == Len(messages) - Len(trace)

TurnInv ==
  /\ IsSeq(messages)
  /\ send # Null =>
       /\ send.rerun # Null => send.rerun = RerunWork
       /\ SendStart \in 1..Len(messages)
       /\ messages[SendStart].role = "user"
       /\ \A j \in (SendStart + 1)..Len(messages) : messages[j].role = "tool"
       /\ \A k \in 1..Len(trace) : messages[SendStart + k].call = trace[k].handle
       /\ send.rerun # Null =>
            \A k \in 1..Len(trace) :
              (trace[k].work = Fresh /\ trace[k].value \in Identifiers) =>
                \E j \in SendStart..(SendStart + k - 1) : trace[k].value \in messages[j].values

(* What a message added to a sequence leaves of it. *)
LEMMA Appended ==
  ASSUME NEW s, IsSeq(s), NEW m
  PROVE  /\ IsSeq(Append(s, m)) /\ Len(Append(s, m)) = Len(s) + 1
         /\ \A k \in 1..Len(s) : Append(s, m)[k] = s[k]
         /\ Append(s, m)[Len(s) + 1] = m
PROOF
<1> DEFINE E == {s[k] : k \in 1..Len(s)} \cup {m}
<1>1. m \in E /\ \A k \in 1..Len(s) : s[k] \in E
  OBVIOUS
<1> HIDE DEF E
<1>2. s \in Seq(E)
  BY <1>1, SeqOfItsOwn
<1>3. Append(s, m) \in Seq(E)
  BY <1>1, <1>2, AppendProperties
<1>4. IsSeq(Append(s, m))
  BY <1>3, SeqIsSeq
<1> QED
  BY <1>1, <1>2, <1>4, AppendProperties

(* The turn a message belongs to starts at the last one of the user. *)
LEMMA ThisTurn ==
  ASSUME IsSeq(messages), NEW u \in 1..Len(messages), messages[u].role = "user",
         \A j \in (u + 1)..Len(messages) : messages[j].role = "tool"
  PROVE  this_turn(messages) = SubSeq(messages, u, Len(messages))
PROOF
<1> DEFINE users == {k \in DOMAIN messages : messages[k].role = "user"}
<1>1. DOMAIN messages = 1..Len(messages) /\ Len(messages) \in Nat
  BY SeqDomain
<1>2. users \subseteq Int /\ u \in users
  BY <1>1
<1>3. ASSUME NEW x \in users PROVE x <= u
  <2>1. x \in 1..Len(messages) /\ messages[x].role = "user"
    BY <1>1
  <2>2. CASE x > u
    <3>1. x \in (u + 1)..Len(messages)
      BY <1>1, <2>1, <2>2
    <3> QED
      BY <2>1, <3>1
  <2> QED
    BY <1>1, <2>1, <2>2
<1>4. Max(users) = u /\ users # {}
  <2> HIDE DEF users
  <2> QED
    BY <1>2, <1>3, MaxIs
<1> QED
  BY <1>4 DEF this_turn

(* A message of the turn is the user's or one after it. *)
LEMMA TurnMessages ==
  ASSUME IsSeq(messages), NEW u \in 1..Len(messages), messages[u].role = "user",
         \A j \in (u + 1)..Len(messages) : messages[j].role = "tool",
         NEW m \in ToSet(this_turn(messages))
  PROVE  \E j \in u..Len(messages) : m = messages[j]
PROOF
<1>1. Len(messages) \in Nat /\ this_turn(messages) = SubSeq(messages, u, Len(messages))
  BY ThisTurn, SeqDomain
<1> DEFINE S == {messages[k] : k \in 1..Len(messages)}
           turn == SubSeq(messages, u, Len(messages))
<1>2. \A i \in u..Len(messages) : messages[i] \in S
  BY <1>1
<1> HIDE DEF S
<1>3. /\ turn \in Seq(S) /\ Len(turn) = Len(messages) - u + 1
      /\ \A i \in 1..Len(messages) - u + 1 : turn[i] = messages[u + i - 1]
  BY <1>1, <1>2, SubSeqProperties
<1>4. PICK i \in 1..Len(messages) - u + 1 : m = messages[u + i - 1]
  <2>1. DOMAIN turn = 1..Len(messages) - u + 1
    BY <1>3, LenProperties
  <2>2. PICK i \in DOMAIN turn : m = turn[i]
    BY <1>1 DEF ToSet
  <2> QED
    BY <1>3, <2>1, <2>2
<1>5. u + i - 1 \in u..Len(messages)
  BY <1>1
<1> QED
  BY <1>4, <1>5

(* A fresh identifier the guard lets through is in a message of the turn.  *)
LEMMA RerunFinds ==
  ASSUME IsSeq(messages), NEW u \in 1..Len(messages), messages[u].role = "user",
         \A j \in (u + 1)..Len(messages) : messages[j].role = "tool",
         NEW value \in Identifiers, rerun_review(messages, RerunWork, Fresh, "m", value)
  PROVE  \E j \in u..Len(messages) : value \in messages[j].values
PROOF
<1>1. "m" \in checked(RerunWork, Fresh)
  <2> DEFINE slots == {k \in DOMAIN RerunWork : RerunWork[k].work = Fresh}
             fresh(k) == {i.member : i \in {j \in RerunWork[k].inputs : j.kind = "fresh"}}
  <2>1. DOMAIN RerunWork = {1} /\ RerunWork[1].work = Fresh
    BY DEF RerunWork
  <2>2. slots = {1}
    BY <2>1
  <2>3. "m" \in fresh(1)
    <3> DEFINE one == [member |-> "m", kind |-> "fresh", value |-> Null, chosen |-> FALSE,
                       source |-> Null]
    <3>1. RerunWork[1].inputs = {one} /\ one.kind = "fresh" /\ one.member = "m"
      BY DEF RerunWork
    <3> HIDE DEF one
    <3> QED
      BY <3>1
  <2>4. "m" \in UNION {fresh(k) : k \in slots} /\ \A k \in slots : "m" \in fresh(k)
    BY <2>2, <2>3
  <2>5. slots # {}
    BY <2>2
  <2> QED
    BY <2>4, <2>5 DEF checked
<1>2. PICK m \in ToSet(this_turn(messages)) : value \in m.values
  BY <1>1 DEF rerun_review
<1> QED
  BY <1>2, TurnMessages

LEMMA SendTurn == PlansInv /\ TurnInv /\ Send => TurnInv'
PROOF
<1> SUFFICES ASSUME PlansInv, TurnInv, Send PROVE TurnInv'
  OBVIOUS
<1>1. PICK written, rerun :
        /\ messages' = Append(messages, User(written)) /\ trace' = <<>>
        /\ send'.rerun = rerun /\ (rerun = Null \/ rerun = RerunWork)
  <2>1. trace' = <<>> /\ \E written : messages' = Append(messages, User(written))
    BY DEF Send
  <2>2. send'.rerun = Null \/ send'.rerun = RerunWork
    BY DEF Send, RerunWork
  <2> QED
    BY <2>1, <2>2, Zenon
<1> DEFINE n == Len(messages)
<1>2. /\ n \in Nat /\ IsSeq(messages') /\ Len(messages') = n + 1
      /\ messages'[n + 1] = User(written) /\ Len(trace') = 0
  <2>1. IsSeq(messages) /\ n \in Nat
    BY DEF TurnInv, IsSeq
  <2> HIDE DEF n
  <2>2. Len(<<>>) = 0
    OBVIOUS
  <2> QED
    BY <1>1, <2>1, <2>2, Appended DEF n
<1>3. SendStart' = n + 1
  BY <1>2 DEF SendStart
<1>4. User(written).role = "user"
  BY DEF User
<1>5. \A j \in (n + 2)..(n + 1) : FALSE
  BY <1>2
<1>6. IsSeq(messages)'
  BY <1>2 DEF IsSeq
<1> HIDE DEF n
<1>7. /\ SendStart' \in 1..Len(messages')
      /\ messages'[SendStart'].role = "user"
      /\ \A j \in (SendStart' + 1)..Len(messages') : messages'[j].role = "tool"
      /\ \A k \in 1..Len(trace') : FALSE
  BY <1>2, <1>3, <1>4
<1> QED
  BY <1>1, <1>6, <1>7 DEF TurnInv

LEMMA RunTurn == PlansInv /\ TurnInv /\ Run => TurnInv'
PROOF
<1> SUFFICES ASSUME PlansInv, TurnInv, Run PROVE TurnInv'
  OBVIOUS
<1>1. PICK work, value, reads, held :
        /\ send.rerun # Null => rerun_review(messages, send.rerun, work, "m", value)
        /\ trace' = Append(trace, [handle |-> Handle(Len(trace) + 1), work |-> work,
                                   reads |-> reads, value |-> value])
        /\ messages' = Append(messages, Result(Handle(Len(trace) + 1), work, held))
  BY Zenon DEF Run
<1>2. send' = send /\ send # Null
  BY DEF Run
<1> DEFINE n == Len(messages)
           t == Len(trace)
           new == [handle |-> Handle(t + 1), work |-> work, reads |-> reads, value |-> value]
           result == Result(Handle(t + 1), work, held)
<1>3. /\ n \in Nat /\ IsSeq(messages) /\ IsSeq(messages)' /\ Len(messages') = n + 1
      /\ \A j \in 1..n : messages'[j] = messages[j]
      /\ messages'[n + 1] = result
  <2>1. IsSeq(messages) /\ n \in Nat
    BY DEF TurnInv, IsSeq
  <2>2. messages' = Append(messages, result)
    BY <1>1
  <2> HIDE DEF result, n
  <2>3. IsSeq(Append(messages, result))
    BY <2>1, Appended
  <2>4. IsSeq(messages)'
    BY <2>2, <2>3 DEF IsSeq
  <2> QED
    BY <2>1, <2>2, <2>4, Appended DEF n
<1>4. /\ t \in Nat /\ Len(trace') = t + 1
      /\ \A k \in 1..t : trace'[k] = trace[k]
      /\ trace'[t + 1] = new
  <2>1. IsSeq(trace) /\ t \in Nat
    BY DEF PlansInv, TraceInv, IsSeq
  <2>2. trace' = Append(trace, new)
    BY <1>1
  <2> HIDE DEF new, t
  <2> QED
    BY <2>1, <2>2, Appended DEF t
<1>5. /\ new.work = work /\ new.value = value /\ result.role = "tool"
      /\ result.call = new.handle
  BY DEF Result
<1> HIDE DEF n, t, new, result
<1>6. /\ SendStart \in 1..n /\ SendStart' = SendStart /\ SendStart + t = n
      /\ messages[SendStart].role = "user"
      /\ \A j \in (SendStart + 1)..n : messages[j].role = "tool"
      /\ send.rerun # Null => send.rerun = RerunWork
  <2>1. SendStart = n - t /\ SendStart' = (n + 1) - (t + 1)
    BY <1>3, <1>4 DEF SendStart, n, t
  <2>2. /\ SendStart \in 1..n /\ messages[SendStart].role = "user"
        /\ \A j \in (SendStart + 1)..n : messages[j].role = "tool"
        /\ send.rerun # Null => send.rerun = RerunWork
    BY <1>2 DEF TurnInv, n
  <2> QED
    BY <1>3, <1>4, <2>1, <2>2
<1>7. /\ SendStart' \in 1..Len(messages')
      /\ messages'[SendStart'].role = "user"
      /\ \A j \in (SendStart' + 1)..Len(messages') : messages'[j].role = "tool"
  <2>1. ASSUME NEW j \in (SendStart + 1)..(n + 1) PROVE messages'[j].role = "tool"
    <3>1. CASE j = n + 1
      BY <1>3, <1>5, <3>1
    <3>2. CASE j # n + 1
      <4>1. j \in 1..n /\ j \in (SendStart + 1)..n
        BY <1>3, <1>6, <2>1, <3>2
      <4> QED
        BY <1>3, <1>6, <4>1
    <3> QED
      BY <3>1, <3>2
  <2> QED
    BY <1>3, <1>6, <2>1
<1>8. ASSUME send.rerun # Null, NEW k \in 1..Len(trace'),
             trace'[k].work = Fresh, trace'[k].value \in Identifiers
      PROVE  \E j \in SendStart..(SendStart + k - 1) : trace'[k].value \in messages'[j].values
  <2>1. CASE k \in 1..t
    <3>1. PICK j \in SendStart..(SendStart + k - 1) : trace[k].value \in messages[j].values
      BY <1>2, <1>4, <1>8, <2>1 DEF TurnInv, t
    <3>2. j \in 1..n
      BY <1>3, <1>4, <1>6, <2>1, <3>1
    <3> QED
      BY <1>3, <1>4, <2>1, <3>1, <3>2
  <2>2. CASE k = t + 1
    <3>1. work = Fresh /\ value \in Identifiers /\ trace'[k].value = value
      BY <1>4, <1>5, <1>8, <2>2
    <3>2. rerun_review(messages, RerunWork, Fresh, "m", value)
      BY <1>1, <1>6, <1>8, <3>1
    <3>3. PICK j \in SendStart..n : value \in messages[j].values
      BY <1>3, <1>6, <3>1, <3>2, RerunFinds DEF n
    <3>4. j \in 1..n /\ j \in SendStart..(SendStart + k - 1)
      BY <1>3, <1>4, <1>6, <2>2, <3>3
    <3> QED
      BY <1>3, <3>1, <3>3, <3>4
  <2> QED
    BY <1>4, <1>8, <2>1, <2>2
<1>9. ASSUME NEW k \in 1..Len(trace')
      PROVE  messages'[SendStart' + k].call = trace'[k].handle
  <2>1. CASE k \in 1..t
    <3>1. messages[SendStart + k].call = trace[k].handle
      BY <1>2, <2>1 DEF TurnInv, t
    <3>2. SendStart + k \in 1..n
      BY <1>3, <1>4, <1>6, <2>1
    <3> QED
      BY <1>3, <1>4, <1>6, <2>1, <3>1, <3>2
  <2>2. CASE k = t + 1
    <3>1. SendStart + k = n + 1
      BY <1>3, <1>4, <1>6, <2>2
    <3> QED
      BY <1>3, <1>4, <1>5, <1>6, <2>2, <3>1
  <2> QED
    BY <1>4, <1>9, <2>1, <2>2
<1> QED
  BY <1>2, <1>3, <1>6, <1>7, <1>8, <1>9 DEF TurnInv

LEMMA TurnKept == PlansInv /\ TurnInv /\ [Next]_vars => TurnInv'
PROOF
<1> SUFFICES ASSUME PlansInv, TurnInv, [Next]_vars PROVE TurnInv'
  OBVIOUS
<1>1. CASE Propose \/ Reply
  <2>1. send' = Null /\ messages' = messages
    BY <1>1 DEF Propose, Reply
  <2> QED
    BY <2>1 DEF TurnInv, IsSeq
<1>2. CASE Confirm \/ Revoke \/ UNCHANGED vars
  <2>1. UNCHANGED <<messages, trace, send>>
    BY <1>2 DEF Confirm, Revoke, vars
  <2> QED
    BY <2>1 DEF TurnInv, SendStart, IsSeq
<1> QED
  BY <1>1, <1>2, SendTurn, RunTurn DEF Next

LEMMA TurnInit == Init => TurnInv
PROOF
<1>1. Len(<<>>) = 0 /\ IsSeq(<<>>)
  BY DEF IsSeq
<1> QED
  BY <1>1 DEF Init, TurnInv, IsSeq

LEMMA TurnHolds == Spec => [](PlansInv /\ TurnInv)
PROOF
<1>1. Init => PlansInv /\ TurnInv
  BY TurnInit, PlansInit
<1>2. PlansInv /\ TurnInv /\ [Next]_vars => PlansInv' /\ TurnInv'
  BY PlansKept, TurnKept
<1> QED
  BY <1>1, <1>2, PTL DEF Spec

(* What a rerun must find anew is in a result of this send from before the *)
(* call, or written by the person in it: never remembered of an earlier    *)
(* send (rerun.rs: rerun_review, this_turn), for every number of sends,    *)
(* calls and values.                                                       *)
THEOREM FreshFoundAnew == Spec => []FreshNotRemembered
PROOF
<1>1. PlansInv /\ TurnInv => FreshNotRemembered
  <2> SUFFICES ASSUME PlansInv, TurnInv, send # Null, send.rerun # Null,
                      NEW k \in DOMAIN trace, trace[k].work = Fresh,
                      trace[k].value \in Identifiers
               PROVE  \E j \in SendStart..(SendStart + k - 1) :
                        trace[k].value \in messages[j].values
    BY DEF FreshNotRemembered, SendStart
  <2>1. DOMAIN trace = 1..Len(trace)
    BY SeqDomain DEF PlansInv, TraceInv
  <2> QED
    BY <2>1 DEF TurnInv
<1> QED
  BY <1>1, TurnHolds, PTL

(* A handle the guard of refinements accepts is of a call of this send.    *)
LEMMA HandlesTraced ==
  ASSUME PlansInv, TurnInv, send # Null
  PROVE  call_handles(messages) \subseteq {trace[k].handle : k \in DOMAIN trace}
PROOF
<1>1. /\ IsSeq(messages) /\ SendStart \in 1..Len(messages)
      /\ messages[SendStart].role = "user"
      /\ \A j \in (SendStart + 1)..Len(messages) : messages[j].role = "tool"
      /\ \A k \in 1..Len(trace) : messages[SendStart + k].call = trace[k].handle
  BY DEF TurnInv
<1>2. DOMAIN trace = 1..Len(trace) /\ Len(trace) \in Nat /\ Len(messages) \in Nat
  BY <1>1, SeqDomain DEF PlansInv, TraceInv
<1>3. ASSUME NEW m \in ToSet(this_turn(messages)), m.role = "tool"
      PROVE  \E k \in DOMAIN trace : m.call = trace[k].handle
  <2>1. PICK j \in SendStart..Len(messages) : m = messages[j]
    BY <1>1, TurnMessages
  <2>2. j # SendStart
    BY <1>1, <1>3, <2>1
  <2>3. j - SendStart \in 1..Len(trace) /\ SendStart + (j - SendStart) = j
    BY <1>1, <1>2, <2>1, <2>2 DEF SendStart
  <2> QED
    BY <1>1, <1>2, <2>1, <2>3
<1> QED
  BY <1>3 DEF call_handles

(* A refinement that is recorded names only calls of this send, whatever   *)
(* the model writes and whatever results of earlier sends the conversation *)
(* holds (routine/refine.rs: call_handles, refined), for every number of   *)
(* sends, calls and edits.                                                 *)
THEOREM OwnCallsRefined == Spec => []RefinesOwnCalls
PROOF
<1>1. PlansInv /\ TurnInv => RefinesOwnCalls
  <2> DEFINE handles == call_handles(messages)
             traced == {trace[k].handle : k \in DOMAIN trace}
             ruling(args) == record(args, send, handles)
  <2> SUFFICES ASSUME PlansInv, TurnInv, send # Null, send.selected # Null,
                      NEW args \in Arguments, args.op = "refine",
                      ruling(args).why = "recorded"
               PROVE  ToSet(Calls(ruling(args).outcome.edits)) \subseteq traced
    BY DEF RefinesOwnCalls
  <2>1. handles \subseteq traced
    BY HandlesTraced
  <2> HIDE DEF handles, traced
  <2>2. ruling(args).outcome.edits = args.edits /\ ToSet(Calls(args.edits)) \subseteq handles
    BY RefineRecorded
  <2> QED
    BY <2>1, <2>2
<1> QED
  BY <1>1, TurnHolds, PTL

=============================================================================
