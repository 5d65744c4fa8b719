---------------------------- MODULE Iteration_proofs ----------------------------
(***************************************************************************)
(* Induction over the natural numbers for sets, what it takes to prove      *)
(* about functions that are defined by repeating a step, and a lemma about  *)
(* sequences that lose an element.                                          *)
(***************************************************************************)
EXTENDS Integers, Sequences, WellFoundedInduction, SequenceTheorems, TLAPS

(* The least number of a set that is not empty.                             *)
LEMMA LeastNumber ==
  ASSUME NEW S \in SUBSET Nat, S # {}
  PROVE  \E n \in S : \A m \in S : n <= m
<1> DEFINE R == OpToRel(<, Nat)
<1>1. IsWellFoundedOn(R, Nat)
  BY NatLessThanWellFounded
<1>2. \A x, y \in Nat : ~(<<x, y>> \in R) => y <= x
  BY DEF OpToRel
<1>3. \E x \in S : \A y \in S : ~(<<y, x>> \in R)
  <2> HIDE DEF R
  <2> QED BY <1>1, WFMin
<1> HIDE DEF R
<1> QED BY <1>2, <1>3

(* Induction: a set with 0 and every successor has all numbers up to n.     *)
LEMMA Induction ==
  ASSUME NEW n \in Nat, NEW S, 0 \in S, \A k \in 0..(n - 1) : k \in S => k + 1 \in S
  PROVE  \A k \in 0..n : k \in S
<1> DEFINE T == {k \in 0..n : k \notin S}
<1> SUFFICES ASSUME T # {} PROVE FALSE
  OBVIOUS
<1>1. PICK m \in T : \A k \in T : m <= k
  <2> T \in SUBSET Nat
    OBVIOUS
  <2> QED BY LeastNumber
<1>2. m # 0 /\ m - 1 \in 0..(n - 1) /\ m - 1 \notin T
  BY <1>1
<1> QED BY <1>1, <1>2

(* f starts with a, and its step k is g[k].                                 *)
Iterates(f, A, a, g) == f[0] = a /\ \A k \in Nat : f[k] \in A /\ f[k + 1] = g[k][f[k]]

LEMMA IterationExists ==
  ASSUME NEW A, NEW a \in A, NEW g, \A k \in Nat : \A x \in A : g[k][x] \in A
  PROVE  \E f : Iterates(f, A, a, g)
<1> DEFINE Upto(n) == {p \in [0..n -> A] : p[0] = a /\ \A k \in 0..(n - 1) : p[k + 1] = g[k][p[k]]}
<1>1. ASSUME NEW n \in Nat PROVE Upto(n) # {}
  <2> DEFINE S == {m \in Nat : Upto(m) # {}}
  <2>1. 0 \in S
    <3>1. [k \in 0..0 |-> a] \in Upto(0)
      OBVIOUS
    <3> QED BY <3>1
  <2>2. ASSUME NEW m \in 0..(n - 1), m \in S PROVE m + 1 \in S
    <3>1. PICK p \in Upto(m) : TRUE
      BY <2>2
    <3> DEFINE q == [k \in 0..(m + 1) |-> IF k = m + 1 THEN g[m][p[m]] ELSE p[k]]
    <3>2. q \in Upto(m + 1)
      <4>1. m \in Nat /\ m \in 0..m
        OBVIOUS
      <4>2. q \in [0..(m + 1) -> A] /\ q[0] = a
        BY <3>1, <4>1
      <4>3. ASSUME NEW k \in 0..((m + 1) - 1) PROVE q[k + 1] = g[k][q[k]]
        <5>1. CASE k = m
          <6>1. m + 1 \in 0..(m + 1) /\ m \in 0..(m + 1) /\ m # m + 1
            BY <4>1
          <6>2. q[m + 1] = g[m][p[m]] /\ q[m] = p[m]
            BY <6>1
          <6> QED BY <5>1, <6>2
        <5>2. CASE k # m
          <6>1. k \in 0..(m - 1) /\ k + 1 \in 0..m
            BY <5>2
          <6> QED BY <3>1, <6>1
        <5> QED BY <5>1, <5>2
      <4> QED BY <4>2, <4>3
    <3> HIDE DEF q, Upto
    <3> QED BY <3>2
  <2> HIDE DEF S
  <2>3. n \in S
    <3>1. n \in 0..n
      OBVIOUS
    <3> QED BY <2>1, <2>2, <3>1, Induction
  <2> QED BY <2>3 DEF S
<1>2. ASSUME NEW n \in Nat, NEW m \in n..(n + 1), NEW p \in Upto(n), NEW q \in Upto(m)
      PROVE  p[n] = q[n]
  <2> DEFINE S == {k \in 0..n : p[k] = q[k]}
  <2>1. 0 \in S
    OBVIOUS
  <2>2. ASSUME NEW k \in 0..(n - 1), k \in S PROVE k + 1 \in S
    <3>1. k \in 0..(m - 1) /\ k + 1 \in 0..n
      OBVIOUS
    <3>2. p[k + 1] = g[k][p[k]] /\ q[k + 1] = g[k][q[k]]
      BY <3>1
    <3> QED BY <2>2, <3>1, <3>2
  <2>3. n \in S
    <3>1. n \in 0..n
      OBVIOUS
    <3> HIDE DEF S
    <3> QED BY <2>1, <2>2, <3>1, Induction
  <2> QED BY <2>3
<1>3. PICK up : \A n \in Nat : up[n] \in Upto(n)
  <2> HIDE DEF Upto
  <2>1. \A n \in Nat : [m \in Nat |-> CHOOSE p \in Upto(m) : TRUE][n] \in Upto(n)
    BY <1>1
  <2> QED BY <2>1
<1> DEFINE f == [n \in Nat |-> up[n][n]]
<1>4. f \in [Nat -> A]
  BY <1>3
<1>5. f[0] = a
  BY <1>3
<1>6. ASSUME NEW k \in Nat PROVE f[k + 1] = g[k][f[k]]
  <2>1. up[k + 1] \in Upto(k + 1) /\ up[k] \in Upto(k) /\ k + 1 \in k..(k + 1) /\ k + 1 \in Nat
    BY <1>3
  <2>2. up[k][k] = up[k + 1][k]
    <3> HIDE DEF Upto
    <3> QED BY <1>2, <2>1
  <2>3. up[k + 1][k + 1] = g[k][up[k + 1][k]]
    <3>1. k \in 0..((k + 1) - 1)
      OBVIOUS
    <3> QED BY <2>1, <3>1
  <2> QED BY <2>1, <2>2, <2>3
<1> HIDE DEF f
<1> QED BY <1>4, <1>5, <1>6 DEF Iterates

(* s, which has m elements, without the one behind its first n.             *)
Dropped(s, m, n) ==
  [i \in 1..(m - 1) |-> IF i <= n THEN s[i] ELSE s[i + 1]]

(* RemoveAt of the community modules, element by element.                   *)
LEMMA RemovedIs ==
  ASSUME NEW S, NEW s \in Seq(S), NEW n \in 0..(Len(s) - 1)
  PROVE  SubSeq(s, 1, (n + 1) - 1) \o SubSeq(s, (n + 1) + 1, Len(s)) = Dropped(s, Len(s), n)
<1>1. Len(s) \in Nat /\ n \in Nat /\ (n + 1) - 1 = n /\ \A i \in 1..Len(s) : s[i] \in S
  BY LenProperties, ElementOfSeq
<1> DEFINE u == SubSeq(s, 1, n)
           v == SubSeq(s, (n + 1) + 1, Len(s))
<1>2. u \in Seq(S) /\ Len(u) = n /\ \A i \in 1..n : u[i] = s[i]
  BY <1>1, SubSeqProperties
<1>3. v \in Seq(S) /\ Len(v) = (Len(s) - 1) - n /\ \A i \in 1..((Len(s) - 1) - n) : v[i] = s[n + i + 1]
  <2>1. /\ v \in Seq(S)
        /\ Len(v) = IF (n + 1) + 1 <= Len(s) THEN Len(s) - ((n + 1) + 1) + 1 ELSE 0
        /\ \A i \in 1..(Len(s) - ((n + 1) + 1) + 1) : v[i] = s[((n + 1) + 1) + i - 1]
    BY <1>1, SubSeqProperties
  <2>2. /\ Len(s) - ((n + 1) + 1) + 1 = (Len(s) - 1) - n
        /\ (~((n + 1) + 1 <= Len(s)) => (Len(s) - 1) - n = 0)
    BY <1>1
  <2>3. \A i \in 1..((Len(s) - 1) - n) : ((n + 1) + 1) + i - 1 = n + i + 1
    BY <1>1
  <2> HIDE DEF v
  <2> QED BY <2>1, <2>2, <2>3
<1> HIDE DEF u, v
<1>4. /\ u \o v \in Seq(S) /\ Len(u \o v) = Len(s) - 1
      /\ \A i \in 1..(Len(s) - 1) : (u \o v)[i] = IF i <= n THEN u[i] ELSE v[i - n]
  <2>1. /\ u \o v \in Seq(S) /\ Len(u \o v) = Len(u) + Len(v)
        /\ \A i \in 1..(Len(u) + Len(v)) :
             (u \o v)[i] = IF i <= Len(u) THEN u[i] ELSE v[i - Len(u)]
    BY <1>2, <1>3, ConcatProperties
  <2>2. Len(u) + Len(v) = Len(s) - 1
    BY <1>1, <1>2, <1>3
  <2> QED BY <1>2, <2>1, <2>2
<1>5. ASSUME NEW i \in 1..(Len(s) - 1)
      PROVE  (u \o v)[i] = IF i <= n THEN s[i] ELSE s[i + 1]
  <2>1. i <= n => i \in 1..n
    BY <1>1
  <2>2. ~(i <= n) => i - n \in 1..((Len(s) - 1) - n) /\ n + (i - n) + 1 = i + 1
    BY <1>1
  <2> QED BY <1>2, <1>3, <1>4, <2>1, <2>2
<1>6. u \o v = [i \in 1..(Len(s) - 1) |-> (u \o v)[i]]
  BY <1>4, LenProperties
<1>7. u \o v = Dropped(s, Len(s), n)
  BY <1>5, <1>6 DEF Dropped
<1> QED BY <1>1, <1>7 DEF u, v
=============================================================================
