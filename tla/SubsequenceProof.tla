--------------------------- MODULE SubsequenceProof ---------------------------
(***************************************************************************)
(* What Only picks of a sequence, and induction on numbers and on          *)
(* sequences, by sets: the induction theorems of the library take a        *)
(* predicate as a parameter.                                               *)
(***************************************************************************)
EXTENDS Subsequence, Integers, SequenceTheorems, WellFoundedInduction, TLAPS

\* A set of numbers with 0 and every successor is all of them.
LEMMA SetInd ==
    ASSUME NEW S, 0 \in S, \A n \in Nat : n \in S => n + 1 \in S
    PROVE  Nat \subseteq S
<1> SUFFICES ASSUME Nat \ S # {} PROVE FALSE
  OBVIOUS
<1>1. IsWellFoundedOn(OpToRel(<, Nat), Nat)
  BY NatLessThanWellFounded
<1>2. PICK m \in Nat \ S : \A y \in Nat \ S : ~(<<y, m>> \in OpToRel(<, Nat))
  BY <1>1, WFMin
<1>3. \A y \in Nat \ S : ~(y < m)
  BY <1>2 DEF OpToRel
<1>4. m # 0 /\ m - 1 \in Nat /\ m - 1 < m
  OBVIOUS
<1>5. m - 1 \in S
  BY <1>3, <1>4
<1>6. m = (m - 1) + 1
  BY <1>4
<1> QED
  BY <1>4, <1>5, <1>6

\* f picks what is in P off the first places of s.
Picks(f, s, P, n) ==
    /\ f[0] = <<>>
    /\ \A i \in 1 .. n :
        f[i] = IF s[i] \in P THEN Append(f[i - 1], s[i]) ELSE f[i - 1]

LEMMA PicksExist ==
    ASSUME NEW S, NEW s \in Seq(S), NEW P, NEW n \in Nat, n <= Len(s)
    PROVE  \E f \in [0 .. n -> Seq(S)] : Picks(f, s, P, n)
<1> DEFINE T == {k \in Nat : k <= Len(s) => \E f \in [0 .. k -> Seq(S)] : Picks(f, s, P, k)}
<1>0. Len(s) \in Nat /\ \A k \in 1 .. Len(s) : s[k] \in S
  OBVIOUS
<1>1. 0 \in T
  <2>1. [i \in 0 .. 0 |-> <<>>] \in [0 .. 0 -> Seq(S)]
    OBVIOUS
  <2>2. Picks([i \in 0 .. 0 |-> <<>>], s, P, 0)
    BY DEF Picks
  <2> QED
    BY <2>1, <2>2
<1>2. ASSUME NEW k \in Nat, k \in T
      PROVE  k + 1 \in T
  <2> SUFFICES ASSUME k + 1 <= Len(s)
               PROVE  \E f \in [0 .. k + 1 -> Seq(S)] : Picks(f, s, P, k + 1)
    OBVIOUS
  <2>1. PICK f \in [0 .. k -> Seq(S)] : Picks(f, s, P, k)
    BY <1>0, <1>2
  <2>2. PICK x : x = IF s[k + 1] \in P THEN Append(f[k], s[k + 1]) ELSE f[k]
    OBVIOUS
  <2>3. x \in Seq(S)
    <3>1. f[k] \in Seq(S) /\ s[k + 1] \in S
      BY <1>0
    <3> QED
      BY <2>2, <3>1
  <2>4. PICK g : g = [i \in 0 .. k + 1 |-> IF i = k + 1 THEN x ELSE f[i]]
    OBVIOUS
  <2>5. g \in [0 .. k + 1 -> Seq(S)]
    BY <2>3, <2>4
  <2>6. /\ \A i \in 0 .. k : g[i] = f[i]
        /\ g[k + 1] = x
    BY <2>4
  <2>7. Picks(g, s, P, k + 1)
    <3>1. g[0] = <<>>
      BY <2>1, <2>6 DEF Picks
    <3>2. ASSUME NEW i \in 1 .. k + 1
          PROVE  g[i] = IF s[i] \in P THEN Append(g[i - 1], s[i]) ELSE g[i - 1]
      <4>1. CASE i = k + 1
        <5>1. g[k + 1 - 1] = f[k]
          BY <2>6
        <5> QED
          BY <4>1, <5>1, <2>2, <2>6
      <4>2. CASE i # k + 1
        <5>1. i \in 1 .. k /\ i \in 0 .. k /\ i - 1 \in 0 .. k
          BY <4>2
        <5>2. g[i] = f[i] /\ g[i - 1] = f[i - 1]
          BY <5>1, <2>6
        <5> QED
          BY <5>1, <5>2, <2>1 DEF Picks
      <4> QED
        BY <4>1, <4>2
    <3> QED
      BY <3>1, <3>2 DEF Picks
  <2> QED
    BY <2>5, <2>7
<1> HIDE DEF T
<1>3. Nat \subseteq T
  BY <1>1, <1>2, SetInd
<1> QED
  BY <1>3 DEF T

Agree(s, t, n) == \A i \in 1 .. n : s[i] = t[i]

LEMMA PicksUnique ==
    ASSUME NEW s, NEW t, NEW P, NEW n \in Nat, NEW f, NEW g,
           Agree(s, t, n), Picks(f, s, P, n), Picks(g, t, P, n)
    PROVE  f[n] = g[n]
<1> DEFINE T == {k \in Nat : k <= n => f[k] = g[k]}
<1>1. 0 \in T
  BY DEF Picks
<1>2. ASSUME NEW k \in Nat, k \in T
      PROVE  k + 1 \in T
  <2> SUFFICES ASSUME k + 1 <= n PROVE f[k + 1] = g[k + 1]
    OBVIOUS
  <2>1. f[k] = g[k] /\ k + 1 \in 1 .. n /\ (k + 1) - 1 = k
    BY <1>2
  <2> QED
    BY <2>1 DEF Picks, Agree
<1> HIDE DEF T
<1>3. Nat \subseteq T
  BY <1>1, <1>2, SetInd
<1> QED
  BY <1>3 DEF T

LEMMA OnlyPicks ==
    ASSUME NEW S, NEW s \in Seq(S), NEW P
    PROVE  \E f \in [0 .. Len(s) -> Seq(S)] : Picks(f, s, P, Len(s)) /\ Only(s, P) = f[Len(s)]
<1> DEFINE upTo[i \in 0 .. Len(s)] ==
            IF i = 0 THEN <<>>
            ELSE IF s[i] \in P THEN Append(upTo[i - 1], s[i]) ELSE upTo[i - 1]
<1>1. Len(s) \in Nat
  OBVIOUS
<1>2. PICK f \in [0 .. Len(s) -> Seq(S)] : Picks(f, s, P, Len(s))
  <2>1. \A n \in Nat : n <= Len(s) => \E f \in [0 .. n -> Seq(S)] : Picks(f, s, P, n)
    BY PicksExist
  <2>2. Len(s) <= Len(s)
    BY <1>1
  <2> HIDE DEF upTo
  <2> QED
    BY <2>1, <2>2, <1>1
<1>3. f = [i \in 0 .. Len(s) |-> IF i = 0 THEN <<>>
            ELSE IF s[i] \in P THEN Append(f[i - 1], s[i]) ELSE f[i - 1]]
  <2>1. PICK g : g = [i \in 0 .. Len(s) |-> IF i = 0 THEN <<>>
            ELSE IF s[i] \in P THEN Append(f[i - 1], s[i]) ELSE f[i - 1]]
    OBVIOUS
  <2>2. ASSUME NEW i \in 0 .. Len(s) PROVE f[i] = g[i]
    <3>1. CASE i = 0
      BY <3>1, <2>1, <1>2 DEF Picks
    <3>2. CASE i # 0
      <4>1. i \in 1 .. Len(s)
        BY <3>2, <1>1
      <4> QED
        BY <4>1, <3>2, <2>1, <1>2 DEF Picks
    <3> QED
      BY <3>1, <3>2
  <2> QED
    BY <2>1, <2>2
<1>4. upTo = [i \in 0 .. Len(s) |-> IF i = 0 THEN <<>>
            ELSE IF s[i] \in P THEN Append(upTo[i - 1], s[i]) ELSE upTo[i - 1]]
  BY <1>3, Zenon
<1>0. PICK u : u = upTo
  OBVIOUS
<1>5. Picks(u, s, P, Len(s))
  <2>1. u = [i \in 0 .. Len(s) |-> IF i = 0 THEN <<>>
            ELSE IF s[i] \in P THEN Append(u[i - 1], s[i]) ELSE u[i - 1]]
    BY <1>0, <1>4
  <2>2. \A i \in 1 .. Len(s) : i \in 0 .. Len(s) /\ i # 0
    BY <1>1
  <2>3. 0 \in 0 .. Len(s)
    BY <1>1
  <2> HIDE DEF upTo
  <2> QED
    BY <2>1, <2>2, <2>3 DEF Picks
<1>6. Only(s, P) = u[Len(s)]
  BY <1>0 DEF Only
<1> HIDE DEF upTo
<1>7. u[Len(s)] = f[Len(s)]
  <2>1. Agree(s, s, Len(s))
    BY DEF Agree
  <2> QED
    BY <2>1, <1>1, <1>2, <1>5, PicksUnique
<1> QED
  BY <1>2, <1>6, <1>7

\* What holds of the empty sequence, and of s with one more if of s.
LEMMA SeqInd ==
    ASSUME NEW S, NEW T, <<>> \in T,
           \A s \in Seq(S), p \in S : s \in T => Append(s, p) \in T
    PROVE  Seq(S) \subseteq T
<1> DEFINE N == {n \in Nat : \A s \in Seq(S) : Len(s) = n => s \in T}
<1>1. 0 \in N
  BY EmptySeq
<1>2. ASSUME NEW n \in Nat, n \in N
      PROVE  n + 1 \in N
  <2> SUFFICES ASSUME NEW s \in Seq(S), Len(s) = n + 1 PROVE s \in T
    OBVIOUS
  <2>1. PICK f, p : f = SubSeq(s, 1, n) /\ p = s[n + 1]
    OBVIOUS
  <2>2. f \in Seq(S) /\ p \in S /\ Len(f) = n
    BY <2>1
  <2>3. s = Append(f, p)
    <3>1. Append(f, p) \in Seq(S) /\ Len(Append(f, p)) = n + 1
      BY <2>2
    <3>2. \A i \in 1 .. n + 1 : Append(f, p)[i] = s[i]
      BY <2>1, <2>2
    <3> HIDE DEF N
    <3> QED
      BY <3>1, <3>2, SeqEqual
  <2> QED
    BY <1>2, <2>2, <2>3
<1> HIDE DEF N
<1>3. Nat \subseteq N
  BY <1>1, <1>2, SetInd
<1>4. \A s \in Seq(S) : Len(s) \in N
  BY <1>3
<1> QED
  BY <1>4 DEF N

LEMMA OnlyType ==
    ASSUME NEW S, NEW s \in Seq(S), NEW P
    PROVE  Only(s, P) \in Seq(S)
<1>1. Len(s) \in Nat
  OBVIOUS
<1>2. PICK f \in [0 .. Len(s) -> Seq(S)] : Only(s, P) = f[Len(s)]
  BY OnlyPicks
<1> QED
  BY <1>1, <1>2

\* Only, from one end of the sequence to the other.
LEMMA OnlyEmpty ==
    ASSUME NEW P
    PROVE  Only(<<>>, P) = <<>>
<1>1. <<>> \in Seq({}) /\ Len(<<>>) = 0
  OBVIOUS
<1>2. PICK f \in [0 .. Len(<<>>) -> Seq({})] :
        Picks(f, <<>>, P, Len(<<>>)) /\ Only(<<>>, P) = f[Len(<<>>)]
  BY <1>1, OnlyPicks
<1> QED
  BY <1>1, <1>2 DEF Picks

LEMMA OnlyAppend ==
    ASSUME NEW S, NEW s \in Seq(S), NEW p \in S, NEW P
    PROVE  Only(Append(s, p), P) =
                IF p \in P THEN Append(Only(s, P), p) ELSE Only(s, P)
<1>0. PICK t, n : t = Append(s, p) /\ n = Len(s)
  OBVIOUS
<1>1. /\ n \in Nat /\ t \in Seq(S) /\ Len(t) = n + 1 /\ t[n + 1] = p
      /\ \A i \in 1 .. n : s[i] = t[i]
  BY <1>0
<1>2. PICK f \in [0 .. n -> Seq(S)] : Picks(f, s, P, n) /\ Only(s, P) = f[n]
  BY <1>0, OnlyPicks
<1>3. PICK g \in [0 .. n + 1 -> Seq(S)] : Picks(g, t, P, n + 1) /\ Only(t, P) = g[n + 1]
  <2>1. \E g \in [0 .. Len(t) -> Seq(S)] : Picks(g, t, P, Len(t)) /\ Only(t, P) = g[Len(t)]
    BY <1>1, OnlyPicks
  <2> QED
    BY <2>1, <1>1
<1>4. Picks(g, t, P, n)
  <2>1. \A i \in 1 .. n : i \in 1 .. n + 1
    BY <1>1
  <2> QED
    BY <2>1, <1>3 DEF Picks
<1>5. f[n] = g[n]
  <2>1. n \in Nat /\ Agree(s, t, n)
    BY <1>1 DEF Agree
  <2>2. Picks(f, s, P, n)
    BY <1>2
  <2> QED
    BY <2>1, <2>2, <1>4, PicksUnique, ZenonT(60)
<1>6. g[n + 1] = IF p \in P THEN Append(g[n], p) ELSE g[n]
  <2>1. n + 1 \in 1 .. n + 1 /\ (n + 1) - 1 = n
    BY <1>1
  <2> QED
    BY <2>1, <1>1, <1>3 DEF Picks
<1> QED
  BY <1>0, <1>2, <1>3, <1>5, <1>6

LEMMA AppendJoin ==
    ASSUME NEW S, NEW s \in Seq(S), NEW t \in Seq(S), NEW p \in S
    PROVE  s \o Append(t, p) = Append(s \o t, p)
<1>1. s \o Append(t, p) \in Seq(S) /\ Append(s \o t, p) \in Seq(S)
  OBVIOUS
<1>2. Len(s \o Append(t, p)) = Len(Append(s \o t, p))
  OBVIOUS
<1> QED
  OBVIOUS

\* Only takes a join part by part.
LEMMA OnlyJoin ==
    ASSUME NEW S, NEW s \in Seq(S), NEW t \in Seq(S), NEW P
    PROVE  Only(s \o t, P) = Only(s, P) \o Only(t, P)
<1> DEFINE T == {u \in Seq(S) : Only(s \o u, P) = Only(s, P) \o Only(u, P)}
<1>1. <<>> \in T
  <2>1. Only(s, P) \in Seq(S)
    BY OnlyType
  <2>2. Only(s, P) \o <<>> = Only(s, P) /\ s \o <<>> = s
    BY <2>1
  <2>3. Only(s \o <<>>, P) = Only(s, P) \o Only(<<>>, P)
    BY <2>2, OnlyEmpty
  <2>4. <<>> \in Seq(S)
    OBVIOUS
  <2> QED
    BY <2>3, <2>4
<1>2. ASSUME NEW u \in Seq(S), NEW p \in S, u \in T
      PROVE  Append(u, p) \in T
  <2>0. PICK x, y : x = Only(s, P) /\ y = Only(u, P)
    OBVIOUS
  <2>1. /\ x \in Seq(S) /\ y \in Seq(S) /\ s \o u \in Seq(S)
        /\ Append(u, p) \in Seq(S)
    BY <2>0, OnlyType
  <2>2. Only(s \o u, P) = x \o y
    BY <1>2, <2>0
  <2>3. s \o Append(u, p) = Append(s \o u, p)
    BY AppendJoin
  <2>4. Only(Append(s \o u, p), P) = IF p \in P THEN Append(x \o y, p) ELSE x \o y
    BY <2>1, <2>2, OnlyAppend
  <2>5. Only(Append(u, p), P) = IF p \in P THEN Append(y, p) ELSE y
    BY <2>0, OnlyAppend
  <2>6. x \o Append(y, p) = Append(x \o y, p)
    BY <2>1, AppendJoin
  <2> QED
    BY <2>0, <2>1, <2>3, <2>4, <2>5, <2>6
<1> HIDE DEF T
<1>3. Seq(S) \subseteq T
  BY <1>1, <1>2, SeqInd
<1> QED
  BY <1>3 DEF T

\* Only takes all when all are in the set.
LEMMA OnlyAll ==
    ASSUME NEW S, NEW P, S \subseteq P, NEW s \in Seq(S)
    PROVE  Only(s, P) = s
<1> DEFINE T == {u \in Seq(S) : Only(u, P) = u}
<1>1. <<>> \in T
  BY OnlyEmpty
<1>2. ASSUME NEW u \in Seq(S), NEW p \in S, u \in T
      PROVE  Append(u, p) \in T
  <2>1. Only(Append(u, p), P) = Append(u, p)
    BY <1>2, OnlyAppend
  <2> QED
    BY <2>1
<1> HIDE DEF T
<1>3. Seq(S) \subseteq T
  BY <1>1, <1>2, SeqInd
<1> QED
  BY <1>3 DEF T
=============================================================================
