----------------------------- MODULE HashMap_proofs -----------------------------
(***************************************************************************)
(* Proofs about HashMap: no pair is lost, found twice or looked for in the  *)
(* wrong bucket while the table doubles, it never doubles while it doubles, *)
(* and it is the dictionary that hashmap.h promises.                        *)
(***************************************************************************)
EXTENDS HashMap, Iteration_proofs, FunctionTheorems, FiniteSetTheorems, SequenceTheorems

-----------------------------------------------------------------------------
(* Chains.                                                                  *)

(* The pairs of a sequence, and that no key has two of them.                *)
Held(c) == {c[j] : j \in 1..Len(c)}

Distinct(c) == \A j, l \in 1..Len(c) : c[j].key = c[l].key => j = l

(* A put in the set of pairs.                                               *)
But(A, k) == {q \in A : q.key # k}

(* The search of ll_find through a chain.                                   *)
Search(c, k) == SelectInSeq(c, LAMBDA p : p.key = k)

LEMMA SearchIs ==
  ASSUME NEW c \in Seq(Pairs), NEW k
  PROVE  /\ Search(c, k) = 0 <=> \A j \in 1..Len(c) : c[j].key # k
         /\ Search(c, k) # 0 => Search(c, k) \in 1..Len(c) /\ c[Search(c, k)].key = k
<1> DEFINE I == {j \in 1..Len(c) : c[j].key = k}
<1>1. Search(c, k) = IF I # {} THEN Min(I) ELSE 0
  BY DEF Search, SelectInSeq
<1>2. ASSUME I # {} PROVE Min(I) \in I
  <2>1. I \in SUBSET Nat
    OBVIOUS
  <2>2. \E m \in I : \A n \in I : m <= n
    <3> HIDE DEF I
    <3> QED BY <1>2, <2>1, LeastNumber
  <2> HIDE DEF I
  <2> QED BY <2>2 DEF Min
<1>3. \A j \in I : j # 0
  OBVIOUS
<1> QED BY <1>1, <1>2, <1>3

(* A chain without the pair of k, as ll_remove_nth_node leaves it.          *)
Cleared(c, k) == IF Search(c, k) # 0 THEN RemoveAt(c, Search(c, k)) ELSE c

LEMMA ClearedIs ==
  ASSUME NEW c \in Seq(Pairs), Distinct(c), NEW k
  PROVE  /\ Cleared(c, k) \in Seq(Pairs)
         /\ Distinct(Cleared(c, k))
         /\ Held(Cleared(c, k)) = But(Held(c), k)
<1>0. Len(c) \in Nat /\ \A j \in 1..Len(c) : c[j] \in Pairs
  BY LenProperties, ElementOfSeq
<1>1. CASE Search(c, k) = 0
  BY <1>1, SearchIs DEF Cleared, Held, But
<1>2. CASE Search(c, k) # 0
  <2> PICK n : n = Search(c, k) - 1
    OBVIOUS
  <2>1. n + 1 \in 1..Len(c) /\ n + 1 = Search(c, k) /\ c[n + 1].key = k /\ n \in 0..(Len(c) - 1)
        /\ n \in Nat
    <3>1. Search(c, k) \in 1..Len(c) /\ c[Search(c, k)].key = k
      BY <1>2, SearchIs
    <3> QED BY <1>0, <3>1
  <2>2. Cleared(c, k) = Dropped(c, Len(c), n)
    <3>1. Cleared(c, k) = SubSeq(c, 1, (n + 1) - 1) \o SubSeq(c, (n + 1) + 1, Len(c))
      BY <1>2, <2>1 DEF Cleared, RemoveAt
    <3> QED BY <2>1, <3>1, RemovedIs
  <2> PICK d : d = Cleared(c, k)
    OBVIOUS
  <2>3. /\ d \in Seq(Pairs) /\ Len(d) = Len(c) - 1 /\ Len(c) - 1 \in Nat
        /\ \A i \in 1..(Len(c) - 1) : d[i] = IF i <= n THEN c[i] ELSE c[i + 1]
    <3>1. Len(c) - 1 \in Nat /\ \A i \in 1..(Len(c) - 1) : i \in 1..Len(c) /\ i + 1 \in 1..Len(c)
      BY <1>0, <2>1
    <3>2. d = [i \in 1..(Len(c) - 1) |-> IF i <= n THEN c[i] ELSE c[i + 1]]
      BY <2>2 DEF Dropped
    <3> QED BY <1>0, <3>1, <3>2
  <2>4. \A i \in 1..(Len(c) - 1) : /\ i \in 1..Len(c) /\ i + 1 \in 1..Len(c)
                                   /\ i <= n => i # n + 1
                                   /\ ~(i <= n) => i + 1 # n + 1
    BY <1>0, <2>1
  <2>5. \A i \in 1..Len(c) : i # n + 1 => \/ i \in 1..(Len(c) - 1) /\ i <= n
                                          \/ i - 1 \in 1..(Len(c) - 1) /\ ~(i - 1 <= n) /\ (i - 1) + 1 = i
    BY <1>0, <2>1
  <2>6. \A i \in 1..Len(c) : i # n + 1 <=> c[i].key # k
    BY <2>1 DEF Distinct
  <2>7. Distinct(d)
    <3> SUFFICES ASSUME NEW i \in 1..(Len(c) - 1), NEW j \in 1..(Len(c) - 1), d[i].key = d[j].key
                 PROVE  i = j
      BY <2>3 DEF Distinct
    <3>0. /\ \E x \in 1..Len(c) : d[i] = c[x] /\ (((i <= n) /\ x = i) \/ (~(i <= n) /\ x = i + 1))
          /\ \E y \in 1..Len(c) : d[j] = c[y] /\ (((j <= n) /\ y = j) \/ (~(j <= n) /\ y = j + 1))
      BY <2>3, <2>4
    <3> PICK x \in 1..Len(c), y \in 1..Len(c) :
           /\ d[i] = c[x] /\ (((i <= n) /\ x = i) \/ (~(i <= n) /\ x = i + 1))
           /\ d[j] = c[y] /\ (((j <= n) /\ y = j) \/ (~(j <= n) /\ y = j + 1))
      BY <3>0
    <3>1. x = y
      BY DEF Distinct
    <3> QED BY <2>1, <3>1
  <2>8. Held(d) = But(Held(c), k)
    <3>1. ASSUME NEW i \in 1..(Len(c) - 1) PROVE \E j \in 1..Len(c) : j # n + 1 /\ d[i] = c[j]
      BY <2>3, <2>4
    <3>2. ASSUME NEW j \in 1..Len(c), j # n + 1 PROVE \E i \in 1..(Len(c) - 1) : d[i] = c[j]
      BY <2>3, <2>5, <3>2
    <3>3. Held(d) = {d[i] : i \in 1..(Len(c) - 1)}
      BY <2>3 DEF Held
    <3>4. ASSUME NEW i \in 1..(Len(c) - 1) PROVE d[i] \in But(Held(c), k)
      <4> PICK j \in 1..Len(c) : j # n + 1 /\ d[i] = c[j]
        BY <3>1
      <4> QED BY <2>6 DEF Held, But
    <3>5. ASSUME NEW q \in But(Held(c), k) PROVE q \in Held(d)
      <4> PICK j \in 1..Len(c) : q = c[j] /\ c[j].key # k
        BY DEF Held, But
      <4>1. j # n + 1
        BY <2>6
      <4> QED BY <3>2, <3>3, <4>1
    <3> QED BY <3>3, <3>4, <3>5
  <2> QED BY <2>3, <2>7, <2>8
<1> QED BY <1>1, <1>2

(* What ht_put does to the chain.                                           *)
LEMMA PutIs ==
  ASSUME NEW c \in Seq(Pairs), Distinct(c), NEW p \in Pairs,
         NEW d, d = Append(Cleared(c, p.key), p)
  PROVE  d \in Seq(Pairs) /\ Distinct(d) /\ Held(d) = But(Held(c), p.key) \cup {p}
<1> PICK e : e = Cleared(c, p.key)
  OBVIOUS
<1>1. e \in Seq(Pairs) /\ Distinct(e) /\ Held(e) = But(Held(c), p.key) /\ Len(e) \in Nat
  BY ClearedIs, LenProperties
<1>2. /\ d \in Seq(Pairs) /\ Len(d) = Len(e) + 1
      /\ \A i \in 1..Len(e) : d[i] = e[i]
      /\ d[Len(e) + 1] = p
  BY <1>1, AppendProperties
<1>3. \A i \in 1..(Len(e) + 1) : i = Len(e) + 1 \/ i \in 1..Len(e)
  BY <1>1
<1>4. \A i \in 1..Len(e) : e[i].key # p.key
  <2>1. \A i \in 1..Len(e) : e[i] \in Held(e)
    BY DEF Held
  <2> QED BY <1>1, <2>1 DEF But
<1>5. Distinct(d)
  BY <1>1, <1>2, <1>3, <1>4 DEF Distinct
<1>6. Held(d) = Held(e) \cup {p}
  <2>1. Len(e) + 1 \in 1..(Len(e) + 1) /\ \A i \in 1..Len(e) : i \in 1..(Len(e) + 1)
    BY <1>1
  <2> QED BY <1>2, <1>3, <2>1 DEF Held
<1> QED BY <1>1, <1>2, <1>5, <1>6

(* There are as many pairs as positions.                                    *)
LEMMA HeldCount ==
  ASSUME NEW c \in Seq(Pairs), Distinct(c)
  PROVE  IsFiniteSet(Held(c)) /\ Cardinality(Held(c)) = Len(c)
<1>1. Len(c) \in Nat /\ c \in [1..Len(c) -> Held(c)]
  BY LenProperties DEF Held
<1>2. c \in Bijection(1..Len(c), Held(c))
  BY <1>1 DEF Distinct, Held, Bijection, Injection, Surjection, IsInjective
<1>3. IsFiniteSet(1..Len(c)) /\ Cardinality(1..Len(c)) = Len(c)
  BY <1>1, FS_Interval
<1> QED BY <1>2, <1>3, FS_Bijection DEF ExistsBijection

(* Two chains one behind the other.                                         *)
LEMMA JoinedIs ==
  ASSUME NEW c \in Seq(Pairs), NEW d \in Seq(Pairs), Distinct(c), Distinct(d),
         \A q \in Held(c), r \in Held(d) : q.key # r.key
  PROVE  c \o d \in Seq(Pairs) /\ Distinct(c \o d) /\ Held(c \o d) = Held(c) \cup Held(d)
<1> PICK e : e = c \o d
  OBVIOUS
<1>1. Len(c) \in Nat /\ Len(d) \in Nat
  BY LenProperties
<1>2. /\ e \in Seq(Pairs) /\ Len(e) = Len(c) + Len(d)
      /\ \A i \in 1..(Len(c) + Len(d)) : e[i] = IF i <= Len(c) THEN c[i] ELSE d[i - Len(c)]
  BY ConcatProperties
<1>3. \A i \in 1..(Len(c) + Len(d)) :
        \/ i \in 1..Len(c) /\ e[i] = c[i] /\ e[i] \in Held(c)
        \/ i - Len(c) \in 1..Len(d) /\ e[i] = d[i - Len(c)] /\ e[i] \in Held(d)
  <2>1. \A i \in 1..(Len(c) + Len(d)) : /\ i <= Len(c) => i \in 1..Len(c)
                                        /\ ~(i <= Len(c)) => i - Len(c) \in 1..Len(d)
    BY <1>1
  <2>2. (\A i \in 1..Len(c) : c[i] \in Held(c)) /\ \A i \in 1..Len(d) : d[i] \in Held(d)
    BY DEF Held
  <2> QED BY <1>2, <2>1, <2>2
<1>4. Distinct(e)
  <2> SUFFICES ASSUME NEW i \in 1..(Len(c) + Len(d)), NEW j \in 1..(Len(c) + Len(d)),
                      e[i].key = e[j].key
               PROVE  i = j
    BY <1>2 DEF Distinct
  <2>1. CASE i \in 1..Len(c) /\ e[i] = c[i] /\ e[i] \in Held(c)
    <3>1. j \in 1..Len(c) /\ e[j] = c[j]
      BY <1>3, <2>1
    <3> QED BY <2>1, <3>1 DEF Distinct
  <2>2. CASE i - Len(c) \in 1..Len(d) /\ e[i] = d[i - Len(c)] /\ e[i] \in Held(d)
    <3>1. j - Len(c) \in 1..Len(d) /\ e[j] = d[j - Len(c)]
      BY <1>3, <2>2
    <3>2. i - Len(c) = j - Len(c)
      BY <2>2, <3>1 DEF Distinct
    <3> QED BY <1>1, <3>2
  <2> QED BY <1>3, <2>1, <2>2
<1>5. Held(e) = Held(c) \cup Held(d)
  <2>1. \A i \in 1..Len(c) : i \in 1..(Len(c) + Len(d)) /\ i <= Len(c)
    BY <1>1
  <2>2. \A i \in 1..Len(d) : /\ Len(c) + i \in 1..(Len(c) + Len(d)) /\ ~(Len(c) + i <= Len(c))
                             /\ (Len(c) + i) - Len(c) = i
    BY <1>1
  <2>3. \A i \in 1..Len(c) : c[i] \in Held(e)
    BY <1>2, <2>1 DEF Held
  <2>4. \A i \in 1..Len(d) : d[i] \in Held(e)
    <3>1. \A i \in 1..Len(d) : e[Len(c) + i] = d[i]
      BY <1>2, <2>2
    <3> QED BY <1>2, <2>2, <3>1 DEF Held
  <2>5. Held(e) \subseteq Held(c) \cup Held(d)
    BY <1>2, <1>3 DEF Held
  <2>6. (\A q \in Held(c) : q \in Held(e)) /\ \A q \in Held(d) : q \in Held(e)
    BY <2>3, <2>4 DEF Held
  <2> QED BY <2>5, <2>6
<1> QED BY <1>2, <1>4, <1>5

-----------------------------------------------------------------------------
(* All chains one behind the other.                                         *)

(* FlattenSeq of the community modules, chain by chain.                     *)
LEMMA FlattenSteps ==
  ASSUME NEW s \in Seq(Seq(Pairs)), s # <<>>
  PROVE  \E f : /\ FlattenSeq(s) = f[Len(s)]
                /\ f[1] = s[1]
                /\ \A i \in 2..Len(s) : f[i] = f[i - 1] \o s[i]
<1> DEFINE Step(f) == [i \in 1..Len(s) |-> IF i = 1 THEN s[i] ELSE f[i - 1] \o s[i]]
           join == [k \in Nat |-> [c \in Seq(Pairs) |->
                      IF k + 2 \in 1..Len(s) THEN c \o s[k + 2] ELSE c]]
<1>1. Len(s) \in Nat /\ Len(s) # 0
  BY EmptySeq, LenProperties
<1>2. \A i \in 1..Len(s) : s[i] \in Seq(Pairs)
  BY ElementOfSeq
<1>3. s[1] \in Seq(Pairs)
  BY <1>1, <1>2
<1>4. ASSUME NEW k \in Nat, NEW c \in Seq(Pairs) PROVE join[k][c] \in Seq(Pairs)
  <2>1. CASE k + 2 \in 1..Len(s)
    <3>1. join[k][c] = c \o s[k + 2] /\ s[k + 2] \in Seq(Pairs)
      BY <1>2, <2>1
    <3> HIDE DEF join
    <3> QED BY <3>1, ConcatProperties
  <2>2. CASE k + 2 \notin 1..Len(s)
    BY <2>2
  <2> QED BY <2>1, <2>2
<1>5. PICK g : Iterates(g, Seq(Pairs), s[1], join)
  <2> HIDE DEF join
  <2> QED BY <1>3, <1>4, IterationExists
<1> DEFINE f == [i \in 1..Len(s) |-> g[i - 1]]
<1>6. f = Step(f)
  <2> SUFFICES ASSUME NEW i \in 1..Len(s)
               PROVE  g[i - 1] = IF i = 1 THEN s[i] ELSE f[i - 1] \o s[i]
    OBVIOUS
  <2>1. CASE i = 1
    BY <1>5, <2>1 DEF Iterates
  <2>2. CASE i # 1
    <3>1. /\ i - 1 \in 1..Len(s) /\ i - 2 \in Nat /\ (i - 2) + 1 = i - 1
          /\ (i - 1) - 1 = i - 2 /\ (i - 2) + 2 = i
      BY <1>1, <2>2
    <3>2. g[i - 1] = join[i - 2][g[i - 2]] /\ g[i - 2] \in Seq(Pairs)
      <4> HIDE DEF join
      <4> QED BY <1>5, <3>1 DEF Iterates
    <3>3. join[i - 2][g[i - 2]] = g[i - 2] \o s[i]
      BY <3>1, <3>2
    <3>4. f[i - 1] = g[i - 2]
      BY <3>1
    <3> HIDE DEF f, join
    <3> QED BY <2>2, <3>2, <3>3, <3>4
  <2> QED BY <2>1, <2>2
<1> HIDE DEF f, join
<1> DEFINE flatten == CHOOSE h : h = Step(h)
<1>7. flatten = Step(flatten)
  <2> HIDE DEF Step
  <2> QED BY <1>6
<1>8. FlattenSeq(s) = flatten[Len(s)]
  BY <1>1 DEF FlattenSeq
<1> HIDE DEF flatten
<1>9. /\ flatten[1] = s[1]
      /\ \A i \in 2..Len(s) : flatten[i] = flatten[i - 1] \o s[i]
  <2>1. 1 \in 1..Len(s) /\ \A i \in 2..Len(s) : i \in 1..Len(s) /\ i # 1
    BY <1>1
  <2> QED BY <1>7, <2>1
<1> QED BY <1>8, <1>9

LEMMA FlattenOne ==
  ASSUME NEW w \in Seq(Pairs)
  PROVE  FlattenSeq(<<w>>) = w
<1>1. <<w>> \in Seq(Seq(Pairs)) /\ Len(<<w>>) = 1 /\ <<w>>[1] = w /\ <<w>> # <<>>
  OBVIOUS
<1> QED BY <1>1, FlattenSteps

(* No pair is lost or doubled.                                              *)
LEMMA FlattenIs ==
  ASSUME NEW s \in Seq(Seq(Pairs)), s # <<>>,
         \A b \in 1..Len(s) : Distinct(s[b]),
         \A b, c \in 1..Len(s) : \A q \in Held(s[b]), r \in Held(s[c]) : q.key = r.key => b = c
  PROVE  /\ FlattenSeq(s) \in Seq(Pairs)
         /\ Distinct(FlattenSeq(s))
         /\ Held(FlattenSeq(s)) = UNION {Held(s[b]) : b \in 1..Len(s)}
<1> PICK f : /\ FlattenSeq(s) = f[Len(s)]
             /\ f[1] = s[1]
             /\ \A i \in 2..Len(s) : f[i] = f[i - 1] \o s[i]
  BY FlattenSteps
<1> DEFINE Right(n) == /\ f[n] \in Seq(Pairs)
                       /\ Distinct(f[n])
                       /\ Held(f[n]) = UNION {Held(s[b]) : b \in 1..n}
           S == {k \in Nat : Right(k + 1)}
<1>1. Len(s) \in Nat /\ Len(s) # 0 /\ \A i \in 1..Len(s) : s[i] \in Seq(Pairs)
  BY EmptySeq, LenProperties, ElementOfSeq
<1>2. 0 \in S
  <2>1. Held(f[1]) = UNION {Held(s[b]) : b \in 1..1}
    OBVIOUS
  <2>2. 1 \in 1..Len(s)
    BY <1>1
  <2>3. Right(1)
    BY <1>1, <2>1, <2>2
  <2> QED BY <2>3
<1>3. ASSUME NEW k \in 0..((Len(s) - 1) - 1), k \in S PROVE k + 1 \in S
  <2> PICK n : n = k + 1
    OBVIOUS
  <2>1. n \in Nat /\ n + 1 \in 2..Len(s) /\ (n + 1) - 1 = n /\ n + 1 \in 1..Len(s)
        /\ \A b \in 1..n : b \in 1..Len(s) /\ b # n + 1
    BY <1>1
  <2>2. /\ f[n] \in Seq(Pairs) /\ Distinct(f[n])
        /\ Held(f[n]) = UNION {Held(s[b]) : b \in 1..n}
    BY <1>3
  <2>3. f[n + 1] = f[n] \o s[n + 1] /\ s[n + 1] \in Seq(Pairs) /\ Distinct(s[n + 1])
    BY <1>1, <2>1
  <2>4. \A q \in Held(f[n]), r \in Held(s[n + 1]) : q.key # r.key
    BY <2>1, <2>2
  <2>5. /\ f[n + 1] \in Seq(Pairs) /\ Distinct(f[n + 1])
        /\ Held(f[n + 1]) = Held(f[n]) \cup Held(s[n + 1])
    <3> HIDE DEF S, Right
    <3>1. PICK c, d : c = f[n] /\ d = s[n + 1]
      OBVIOUS
    <3>2. c \in Seq(Pairs) /\ Distinct(c) /\ d \in Seq(Pairs) /\ Distinct(d)
          /\ (\A q \in Held(c), r \in Held(d) : q.key # r.key)
      BY <2>2, <2>3, <2>4, <3>1
    <3>3. c \o d \in Seq(Pairs) /\ Distinct(c \o d) /\ Held(c \o d) = Held(c) \cup Held(d)
      BY <3>2, JoinedIs
    <3> QED BY <2>3, <3>1, <3>3
  <2>6. Held(f[n + 1]) = UNION {Held(s[b]) : b \in 1..(n + 1)}
    <3>1. \A b : b \in 1..(n + 1) <=> b \in 1..n \/ b = n + 1
      BY <2>1
    <3>2. \A q : q \in UNION {Held(s[b]) : b \in 1..(n + 1)} <=>
                  q \in UNION {Held(s[b]) : b \in 1..n} \/ q \in Held(s[n + 1])
      BY <3>1
    <3> QED BY <2>2, <2>5, <3>2
  <2>7. Right(n + 1)
    BY <2>5, <2>6
  <2> QED BY <2>1, <2>7
<1>4. Len(s) - 1 \in S
  <2>1. Len(s) - 1 \in Nat /\ Len(s) - 1 \in 0..(Len(s) - 1)
    BY <1>1
  <2> HIDE DEF S
  <2> QED BY <1>2, <1>3, <2>1, Induction
<1>5. Right(Len(s))
  <2>1. (Len(s) - 1) + 1 = Len(s)
    BY <1>1
  <2> QED BY <1>4, <2>1
<1> QED BY <1>5

-----------------------------------------------------------------------------
(* The table.                                                               *)

LEMMA ModIs ==
  ASSUME NEW a \in Nat, NEW h \in Nat \ {0}
  PROVE  a % h \in 0..(h - 1)
OBVIOUS

(* Each pair is where its key hashes to, and no key has two in a chain.     *)
Good(bk, h) ==
  /\ h \in Nat \ {0}
  /\ bk \in [0..(h - 1) -> Seq(Pairs)]
  /\ \A b \in 0..(h - 1) : Distinct(bk[b])
  /\ \A b \in 0..(h - 1) : \A q \in Held(bk[b]) : Hash[q.key] % h = b

InTable(bk, h) == UNION {Held(bk[b]) : b \in 0..(h - 1)}

LEMMA PairsIs ==
  ASSUME NEW p \in Pairs
  PROVE  p.key \in Keys /\ p.value \in Values
BY DEF Pairs

LEMMA HeldType ==
  ASSUME NEW c \in Seq(Pairs)
  PROVE  Held(c) \subseteq Pairs
BY ElementOfSeq DEF Held

LEMMA InTableType ==
  ASSUME NEW bk, NEW h, Good(bk, h)
  PROVE  InTable(bk, h) \subseteq Pairs
<1>1. ASSUME NEW b \in 0..(h - 1) PROVE Held(bk[b]) \subseteq Pairs
  <2>1. bk[b] \in Seq(Pairs)
    BY DEF Good
  <2> QED BY <2>1, HeldType
<1> QED BY <1>1 DEF InTable

LEMMA BucketIs ==
  ASSUME NEW h \in Nat \ {0}, NEW k \in Keys
  PROVE  Hash[k] % h \in 0..(h - 1)
<1>1. Hash[k] \in Nat
  BY HashMapAssumption
<1> QED BY <1>1, ModIs

(* No key has two pairs.                                                    *)
LEMMA OnePerKey ==
  ASSUME NEW bk, NEW h, Good(bk, h), NEW q \in InTable(bk, h), NEW r \in InTable(bk, h),
         q.key = r.key
  PROVE  q = r
<1>1. PICK b \in 0..(h - 1) : q \in Held(bk[b])
  BY DEF InTable
<1>2. PICK c \in 0..(h - 1) : r \in Held(bk[c])
  BY DEF InTable
<1>3. b = c
  BY <1>1, <1>2 DEF Good
<1>4. Distinct(bk[b])
  BY DEF Good
<1> QED BY <1>1, <1>2, <1>3, <1>4 DEF Held, Distinct

(* The search in one chain finds what is anywhere in the table.             *)
LEMMA FoundIs ==
  ASSUME NEW bk, NEW h, Good(bk, h), NEW k \in Keys
  PROVE  LET c == bk[Hash[k] % h]
         IN /\ Search(c, k) = 0 => \A q \in InTable(bk, h) : q.key # k
            /\ Search(c, k) # 0 => c[Search(c, k)] \in InTable(bk, h) /\ c[Search(c, k)].key = k
<1> PICK b : b = Hash[k] % h
  OBVIOUS
<1>1. b \in 0..(h - 1)
  BY BucketIs DEF Good
<1> PICK c : c = bk[b]
  OBVIOUS
<1>2. c \in Seq(Pairs)
  BY <1>1 DEF Good
<1>3. ASSUME Search(c, k) = 0, NEW q \in InTable(bk, h), q.key = k PROVE FALSE
  <2>1. PICK d \in 0..(h - 1) : q \in Held(bk[d])
    BY DEF InTable
  <2>2. d = b
    BY <1>3, <2>1 DEF Good
  <2>3. \A j \in 1..Len(c) : c[j].key # k
    BY <1>2, <1>3, SearchIs
  <2> QED BY <1>3, <2>1, <2>2, <2>3 DEF Held
<1>4. ASSUME Search(c, k) # 0 PROVE c[Search(c, k)] \in InTable(bk, h) /\ c[Search(c, k)].key = k
  <2>1. Search(c, k) \in 1..Len(c) /\ c[Search(c, k)].key = k
    BY <1>2, <1>4, SearchIs
  <2>2. c[Search(c, k)] \in Held(c)
    BY <2>1 DEF Held
  <2> QED BY <1>1, <2>1, <2>2 DEF InTable
<1> QED BY <1>3, <1>4

(* A chain changed in the pair of its key only.                             *)
Changed(bk, b, d) == [bk EXCEPT ![b] = d]

LEMMA ReplacedIs ==
  ASSUME NEW bk, NEW h, Good(bk, h), NEW k \in Keys,
         NEW X, \A q \in X : q.key = k,
         NEW d \in Seq(Pairs), Distinct(d), Held(d) = But(Held(bk[Hash[k] % h]), k) \cup X
  PROVE  /\ Good(Changed(bk, Hash[k] % h, d), h)
         /\ InTable(Changed(bk, Hash[k] % h, d), h) = But(InTable(bk, h), k) \cup X
<1> PICK b : b = Hash[k] % h
  OBVIOUS
<1> PICK new : new = Changed(bk, b, d)
  OBVIOUS
<1>1. b \in 0..(h - 1) /\ bk \in [0..(h - 1) -> Seq(Pairs)] /\ h \in Nat \ {0}
  BY BucketIs DEF Good
<1>2. /\ new \in [0..(h - 1) -> Seq(Pairs)]
      /\ \A c \in 0..(h - 1) : new[c] = IF c = b THEN d ELSE bk[c]
  BY <1>1 DEF Changed
<1>3. Good(new, h)
  <2>1. \A c \in 0..(h - 1) : Distinct(new[c])
    BY <1>2 DEF Good
  <2>2. \A c \in 0..(h - 1) : \A q \in Held(new[c]) : Hash[q.key] % h = c
    BY <1>1, <1>2 DEF Good, But
  <2> QED BY <1>1, <1>2, <2>1, <2>2 DEF Good
<1>4. ASSUME NEW q \in InTable(new, h) PROVE q \in But(InTable(bk, h), k) \cup X
  <2>1. PICK c \in 0..(h - 1) : q \in Held(new[c])
    BY DEF InTable
  <2>2. CASE c = b
    BY <1>1, <1>2, <2>1, <2>2 DEF InTable, But
  <2>3. CASE c # b
    <3>1. q \in Held(bk[c]) /\ Hash[q.key] % h = c
      BY <1>2, <2>1, <2>3 DEF Good
    <3> QED BY <2>3, <3>1 DEF InTable, But
  <2> QED BY <2>2, <2>3
<1>5. ASSUME NEW q \in But(InTable(bk, h), k) PROVE q \in InTable(new, h)
  <2>1. PICK c \in 0..(h - 1) : q \in Held(bk[c]) /\ q.key # k
    BY DEF InTable, But
  <2>2. q \in Held(new[c])
    BY <1>2, <2>1 DEF But
  <2> QED BY <2>2 DEF InTable
<1>6. ASSUME NEW q \in X PROVE q \in InTable(new, h)
  <2>1. q \in Held(new[b])
    BY <1>1, <1>2
  <2> QED BY <1>1, <2>1 DEF InTable
<1> QED BY <1>3, <1>4, <1>5, <1>6

LEMMA EmptyIs ==
  ASSUME NEW h \in Nat \ {0}, NEW bk, bk = [b \in 0..(h - 1) |-> <<>>]
  PROVE  Good(bk, h) /\ InTable(bk, h) = {}
<1>1. <<>> \in Seq(Pairs) /\ Held(<<>>) = {} /\ Distinct(<<>>)
  BY DEF Held, Distinct
<1> QED BY <1>1 DEF Good, InTable

(* What ht_double_hmax has to put back.                                     *)
LEMMA AllPairsAre ==
  ASSUME NEW bk, NEW h, Good(bk, h), NEW s, s = [b \in 1..h |-> bk[b - 1]]
  PROVE  /\ FlattenSeq(s) \in Seq(Pairs)
         /\ Distinct(FlattenSeq(s))
         /\ Held(FlattenSeq(s)) = InTable(bk, h)
<1>1. h \in Nat /\ 1 \in 1..h /\ \A b \in 1..h : b - 1 \in 0..(h - 1)
  BY DEF Good
<1>2. \A b \in 0..(h - 1) : b + 1 \in 1..h /\ (b + 1) - 1 = b
  BY <1>1
<1>3. s \in Seq(Seq(Pairs)) /\ Len(s) = h /\ s # <<>> /\ \A b \in 1..h : s[b] = bk[b - 1]
  <2>1. \A b \in 1..h : bk[b - 1] \in Seq(Pairs)
    BY <1>1 DEF Good
  <2>2. s \in [1..h -> Seq(Seq(Pairs))] \/ s \in [1..h -> Seq(Pairs)]
    BY <2>1
  <2>3. s \in Seq(Seq(Pairs)) /\ Len(s) = h
    BY <1>1, <2>1
  <2> QED BY <1>1, <2>3, EmptySeq
<1>4. \A b \in 1..Len(s) : Distinct(s[b])
  BY <1>1, <1>3 DEF Good
<1>5. ASSUME NEW b \in 1..Len(s), NEW c \in 1..Len(s), NEW q \in Held(s[b]), NEW r \in Held(s[c]),
             q.key = r.key
      PROVE  b = c
  <2>1. /\ b - 1 \in 0..(h - 1) /\ q \in Held(bk[b - 1])
        /\ c - 1 \in 0..(h - 1) /\ r \in Held(bk[c - 1])
    BY <1>1, <1>3
  <2>2. Hash[q.key] % h = b - 1 /\ Hash[r.key] % h = c - 1
    BY <2>1 DEF Good
  <2>3. b - 1 = c - 1
    BY <1>5, <2>2, Zenon
  <2> QED BY <1>1, <1>3, <2>3
<1>6. InTable(bk, h) = UNION {Held(s[b]) : b \in 1..Len(s)}
  <2>1. ASSUME NEW q \in InTable(bk, h) PROVE q \in UNION {Held(s[b]) : b \in 1..Len(s)}
    <3>1. PICK b \in 0..(h - 1) : q \in Held(bk[b])
      BY DEF InTable
    <3>2. b + 1 \in 1..Len(s) /\ q \in Held(s[b + 1])
      BY <1>2, <1>3, <3>1
    <3> QED BY <3>2
  <2>2. ASSUME NEW b \in 1..Len(s) PROVE Held(s[b]) \subseteq InTable(bk, h)
    BY <1>1, <1>3 DEF InTable
  <2> QED BY <2>1, <2>2
<1> QED BY <1>3, <1>4, <1>5, <1>6, FlattenIs

(* The positions that are taken.                                            *)
Taken(bk) == UNION {{b} \X (1..Len(bk[b])) : b \in DOMAIN bk}

LEMMA TakenIs ==
  ASSUME NEW bk, NEW h, Good(bk, h)
  PROVE  /\ IsFiniteSet(InTable(bk, h))
         /\ Cardinality(Taken(bk)) = Cardinality(InTable(bk, h))
         /\ \A d, e \in Taken(bk) : bk[d[1]][d[2]].key = bk[e[1]][e[2]].key => d = e
<1>1. IsFiniteSet(InTable(bk, h))
  <2>1. PICK s : s = [b \in 1..h |-> bk[b - 1]]
    OBVIOUS
  <2>2. PICK c : c = FlattenSeq(s)
    OBVIOUS
  <2>3. c \in Seq(Pairs) /\ Distinct(c) /\ Held(c) = InTable(bk, h)
    BY <2>1, <2>2, AllPairsAre
  <2> QED BY <2>3, HeldCount
<1>2. DOMAIN bk = 0..(h - 1)
  BY DEF Good
<1>3. ASSUME NEW e \in Taken(bk)
      PROVE  /\ e = <<e[1], e[2]>> /\ e[1] \in 0..(h - 1) /\ e[2] \in 1..Len(bk[e[1]])
             /\ bk[e[1]][e[2]] \in Held(bk[e[1]])
  BY <1>2 DEF Taken, Held
<1>4. ASSUME NEW d \in Taken(bk), NEW e \in Taken(bk), bk[d[1]][d[2]].key = bk[e[1]][e[2]].key
      PROVE  d = e
  <2>1. d[1] = e[1]
    <3>1. \A x \in Taken(bk) : Hash[bk[x[1]][x[2]].key] % h = x[1]
      BY <1>3 DEF Good
    <3>2. Hash[bk[d[1]][d[2]].key] % h = d[1] /\ Hash[bk[e[1]][e[2]].key] % h = e[1]
      BY <3>1
    <3> QED BY <1>4, <3>2, Zenon
  <2>2. d[2] = e[2]
    <3>1. Distinct(bk[d[1]])
      BY <1>3 DEF Good
    <3> QED BY <1>3, <1>4, <2>1, <3>1 DEF Distinct
  <2> QED BY <1>3, <2>1, <2>2
<1>5. PICK f : f = [e \in Taken(bk) |-> bk[e[1]][e[2]]]
  OBVIOUS
<1>6. f \in Bijection(Taken(bk), InTable(bk, h))
  <2>1. f \in [Taken(bk) -> InTable(bk, h)]
    BY <1>3, <1>5 DEF InTable
  <2>2. \A d, e \in Taken(bk) : f[d] = f[e] => d = e
    BY <1>4, <1>5
  <2>3. ASSUME NEW q \in InTable(bk, h) PROVE \E e \in Taken(bk) : f[e] = q
    <3>1. PICK b \in 0..(h - 1) : q \in Held(bk[b])
      BY DEF InTable
    <3>2. PICK j \in 1..Len(bk[b]) : q = bk[b][j]
      BY <3>1 DEF Held
    <3>3. <<b, j>> \in Taken(bk)
      BY <1>2, <3>2 DEF Taken
    <3> QED BY <1>5, <3>2, <3>3
  <2> QED BY <2>1, <2>2, <2>3 DEF Bijection, Injection, Surjection, IsInjective
<1>7. Cardinality(Taken(bk)) = Cardinality(InTable(bk, h))
  <2>1. ExistsBijection(InTable(bk, h), Taken(bk))
    <3>1. ExistsBijection(Taken(bk), InTable(bk, h))
      BY <1>6 DEF ExistsBijection
    <3> QED BY <3>1, Fun_ExistsBijSymmetric
  <2> QED BY <1>1, <2>1, FS_Bijection
<1> QED BY <1>1, <1>4, <1>7

(* How many pairs there are after a put.                                    *)
LEMMA CountIs ==
  ASSUME NEW A, IsFiniteSet(A), NEW k, NEW p, p.key = k,
         \A q, r \in A : q.key = r.key => q = r
  PROVE  /\ Cardinality(A) \in Nat
         /\ (\E q \in A : q.key = k) => /\ Cardinality(But(A, k)) = Cardinality(A) - 1
                                        /\ Cardinality(But(A, k) \cup {p}) = Cardinality(A)
                                        /\ Cardinality(A) # 0
         /\ (\A q \in A : q.key # k) => /\ But(A, k) = A
                                        /\ Cardinality(But(A, k) \cup {p}) = Cardinality(A) + 1
<1>1. Cardinality(A) \in Nat
  BY FS_CardinalityType
<1>2. p \notin But(A, k)
  BY DEF But
<1>3. ASSUME \E q \in A : q.key = k
      PROVE  /\ Cardinality(But(A, k)) = Cardinality(A) - 1
             /\ Cardinality(But(A, k) \cup {p}) = Cardinality(A)
             /\ Cardinality(A) # 0
  <2> PICK q \in A : q.key = k
    BY <1>3
  <2>1. But(A, k) = A \ {q}
    BY DEF But
  <2>2. IsFiniteSet(A \ {q}) /\ Cardinality(A \ {q}) = Cardinality(A) - 1
    BY FS_RemoveElement
  <2>3. Cardinality((A \ {q}) \cup {p}) = Cardinality(A \ {q}) + 1
    BY <1>2, <2>1, <2>2, FS_AddElement
  <2>4. Cardinality(A \ {q}) \in Nat
    BY <2>2, FS_CardinalityType
  <2> QED BY <1>1, <2>1, <2>2, <2>3, <2>4
<1>4. ASSUME \A q \in A : q.key # k
      PROVE  But(A, k) = A /\ Cardinality(But(A, k) \cup {p}) = Cardinality(A) + 1
  <2>1. But(A, k) = A
    BY <1>4 DEF But
  <2> QED BY <1>2, <2>1, FS_AddElement
<1> QED BY <1>1, <1>3, <1>4

(* ht_put, up to the test of the load.                                      *)
PutIn(bk, h, p) ==
  [bk EXCEPT ![Hash[p.key] % h] = Append(Cleared(bk[Hash[p.key] % h], p.key), p)]

CountOfPut(bk, h, p) ==
  IF Search(bk[Hash[p.key] % h], p.key) # 0 THEN Cardinality(InTable(bk, h))
                                            ELSE Cardinality(InTable(bk, h)) + 1

LEMMA PutInTable ==
  ASSUME NEW bk, NEW h, Good(bk, h), NEW p \in Pairs
  PROVE  /\ Good(PutIn(bk, h, p), h)
         /\ InTable(PutIn(bk, h, p), h) = But(InTable(bk, h), p.key) \cup {p}
         /\ CountOfPut(bk, h, p) = Cardinality(InTable(PutIn(bk, h, p), h))
         /\ CountOfPut(bk, h, p) \in Nat
<1>k. PICK k : k = p.key
  OBVIOUS
<1>0. k \in Keys
  BY <1>k, PairsIs
<1>c. PICK c : c = bk[Hash[k] % h]
  OBVIOUS
<1>2. c \in Seq(Pairs) /\ Distinct(c)
  <2>1. Hash[k] % h \in 0..(h - 1)
    BY <1>0, BucketIs DEF Good
  <2> QED BY <1>c, <2>1 DEF Good
<1>d. PICK d : d = Append(Cleared(c, k), p)
  OBVIOUS
<1>3. d \in Seq(Pairs) /\ Distinct(d) /\ Held(d) = But(Held(c), k) \cup {p}
  BY <1>2, <1>d, <1>k, PutIs
<1>n. PICK new : new = [bk EXCEPT ![Hash[k] % h] = d]
  OBVIOUS
<1>m. new = PutIn(bk, h, p)
  BY <1>c, <1>d, <1>k, <1>n DEF PutIn
<1>A. PICK A : A = InTable(bk, h)
  OBVIOUS
<1>4. Good(new, h) /\ InTable(new, h) = But(A, k) \cup {p}
  <2>X. PICK X : X = {p}
    OBVIOUS
  <2>1. \A q \in X : q.key = k
    BY <1>k, <2>X
  <2>2. Held(d) = But(Held(bk[Hash[k] % h]), k) \cup X
    BY <1>3, <1>c, <2>X
  <2>3. /\ Good(Changed(bk, Hash[k] % h, d), h)
        /\ InTable(Changed(bk, Hash[k] % h, d), h) = But(InTable(bk, h), k) \cup X
    BY <1>0, <1>3, <2>1, <2>2, ReplacedIs
  <2> QED BY <1>A, <1>n, <2>3, <2>X DEF Changed
<1>5. /\ IsFiniteSet(A)
      /\ \A q, r \in A : q.key = r.key => q = r
  BY <1>A, TakenIs, OnePerKey
<1>6. /\ Search(c, k) # 0 => \E q \in A : q.key = k
      /\ Search(c, k) = 0 => \A q \in A : q.key # k
  BY <1>0, <1>A, <1>c, FoundIs
<1>7. /\ Cardinality(A) \in Nat
      /\ Search(c, k) # 0 => Cardinality(But(A, k) \cup {p}) = Cardinality(A)
      /\ Search(c, k) = 0 => Cardinality(But(A, k) \cup {p}) = Cardinality(A) + 1
  <2>1. p.key = k
    BY <1>k
  <2>2. /\ Cardinality(A) \in Nat
        /\ (\E q \in A : q.key = k) => Cardinality(But(A, k) \cup {p}) = Cardinality(A)
        /\ (\A q \in A : q.key # k) => Cardinality(But(A, k) \cup {p}) = Cardinality(A) + 1
    BY <1>5, <2>1, CountIs
  <2> QED BY <1>6, <2>2
<1>8. CountOfPut(bk, h, p) = Cardinality(But(A, k) \cup {p}) /\ CountOfPut(bk, h, p) \in Nat
  <2>1. CountOfPut(bk, h, p) = IF Search(c, k) # 0 THEN Cardinality(A) ELSE Cardinality(A) + 1
    BY <1>A, <1>c, <1>k DEF CountOfPut
  <2> QED BY <1>7, <2>1
<1> QED BY <1>4, <1>8, <1>m, <1>A, <1>k

-----------------------------------------------------------------------------
(* The invariant.                                                           *)

(* What the innermost ht_double_hmax has still to put back.                 *)
Todo == IF work = <<>> THEN <<>> ELSE Head(work)

(* The pairs t fit in the table beside the n that are there without a pair  *)
(* of the same key and without loading it to 3/4.                           *)
Sound(bk, h, n, t) ==
  /\ Good(bk, h)
  /\ n = Cardinality(InTable(bk, h))
  /\ t \in Seq(Pairs)
  /\ Distinct(t)
  /\ \A q \in Held(t), r \in InTable(bk, h) : q.key # r.key
  /\ 4 * (n + Len(t)) < 3 * h

(* At most one ht_double_hmax is under way, and what it has to put back fits. *)
TableInv ==
  /\ work = <<>> \/ (Todo # <<>> /\ work = <<Todo>>)
  /\ Sound(buckets, hmax, size, Todo)

(* The chains of the doubled table, and what was in the chains before.      *)
NoPairs(h) == [b \in 0..(h - 1) |-> <<>>]
AllOf(bk, h) == FlattenSeq([b \in 1..h |-> bk[b - 1]])

(* The table doubled: everything is to be put back and fits.                *)
LEMMA DoubledIs ==
  ASSUME NEW bk, NEW h, Good(bk, h),
         NEW n \in Nat \ {0}, n = Cardinality(InTable(bk, h)), 4 * n < 3 * h + 4,
         NEW e, e = NoPairs(2 * h),
         NEW t, t = AllOf(bk, h)
  PROVE  /\ Sound(e, 2 * h, 0, t)
         /\ t # <<>>
         /\ Held(t) = InTable(bk, h)
         /\ InTable(e, 2 * h) = {}
<1>1. h \in Nat \ {0} /\ 2 * h \in Nat \ {0}
  BY DEF Good
<1>2. Good(e, 2 * h) /\ InTable(e, 2 * h) = {}
  BY <1>1, EmptyIs DEF NoPairs
<1>3. t \in Seq(Pairs) /\ Distinct(t) /\ Held(t) = InTable(bk, h)
  <2>1. PICK s : s = [b \in 1..h |-> bk[b - 1]]
    OBVIOUS
  <2> QED BY <2>1, AllPairsAre DEF AllOf
<1>4. Len(t) = n
  BY <1>3, HeldCount
<1>5. 0 = Cardinality(InTable(e, 2 * h))
  BY <1>2, FS_EmptySet
<1>6. 4 * (0 + Len(t)) < 3 * (2 * h)
  BY <1>1, <1>4
<1>7. t # <<>>
  BY <1>4
<1> QED BY <1>2, <1>3, <1>5, <1>6, <1>7 DEF Sound

(* ht_put with the pairs of rest still to be put back.                      *)
LEMMA PutPairIs ==
  ASSUME Sound(buckets, hmax, size, <<>>), NEW p \in Pairs,
         NEW rest \in Seq(Pairs), Distinct(rest),
         \A q \in Held(rest) : q.key # p.key,
         \A q \in Held(rest), r \in InTable(buckets, hmax) : q.key # r.key,
         rest # <<>> => 4 * ((size + 1) + Len(rest)) < 3 * hmax,
         PutPair(p, IF rest = <<>> THEN <<>> ELSE <<rest>>)
  PROVE  /\ TableInv'
         /\ (InTable(buckets, hmax) \cup Held(Todo))'
              = But(InTable(buckets, hmax), p.key) \cup {p} \cup Held(rest)
         /\ 4 * ((size + 1) + Len(rest)) < 3 * hmax => hmax' = hmax
<1> PICK bk, h, n0 : bk = buckets /\ h = hmax /\ n0 = size
  OBVIOUS
<1> PICK bk2, h2, n2, w2 : bk2 = buckets' /\ h2 = hmax' /\ n2 = size' /\ w2 = work'
  OBVIOUS
<1>n. PICK new, n : new = PutIn(bk, h, p) /\ n = CountOfPut(bk, h, p)
  OBVIOUS
<1>0. /\ Good(bk, h) /\ n0 = Cardinality(InTable(bk, h)) /\ 4 * n0 < 3 * h
      /\ n0 \in Nat /\ h \in Nat \ {0}
  <2>1. Good(bk, h) /\ n0 = Cardinality(InTable(bk, h)) /\ 4 * (n0 + Len(<<>>)) < 3 * h
    BY DEF Sound
  <2>2. n0 \in Nat /\ h \in Nat \ {0}
    BY <2>1, TakenIs, FS_CardinalityType DEF Good
  <2> QED BY <2>1, <2>2
<1>1. /\ Good(new, h)
      /\ InTable(new, h) = But(InTable(bk, h), p.key) \cup {p}
      /\ n = Cardinality(InTable(new, h))
      /\ n \in Nat
  BY <1>0, <1>n, PutInTable
<1>2. n <= n0 + 1 /\ n \in Nat \ {0} /\ Len(rest) \in Nat
  <2>1. n # 0
    <3>1. IsFiniteSet(InTable(new, h)) /\ p \in InTable(new, h)
      BY <1>1, TakenIs
    <3> QED BY <1>1, <3>1, FS_EmptySet
  <2>2. n = n0 \/ n = n0 + 1
    BY <1>0, <1>n DEF CountOfPut
  <2> QED BY <1>0, <1>1, <2>1, <2>2, LenProperties
<1>3. IF Overloaded(n, h)
        THEN /\ bk2 = NoPairs(2 * h)
             /\ h2 = 2 * h
             /\ n2 = 0
             /\ w2 = <<AllOf(new, h)>> \o (IF rest = <<>> THEN <<>> ELSE <<rest>>)
        ELSE /\ bk2 = new
             /\ n2 = n
             /\ w2 = (IF rest = <<>> THEN <<>> ELSE <<rest>>)
             /\ h2 = h
  <2>1. Bucket(p.key) = Hash[p.key] % h /\ Chain(p.key) = bk[Hash[p.key] % h]
    BY DEF Bucket, Chain
  <2>2. Position(p.key) = Search(bk[Hash[p.key] % h], p.key)
    BY <2>1 DEF Position, Search
  <2>3. ChainWithout(p.key) = Cleared(bk[Hash[p.key] % h], p.key)
    BY <2>1, <2>2 DEF ChainWithout, ht_has_key, Cleared
  <2>4. [buckets EXCEPT ![Bucket(p.key)] = Append(ChainWithout(p.key), p)] = new
    BY <1>n, <2>1, <2>3 DEF PutIn
  <2>5. (IF ht_has_key(p.key) THEN size ELSE size + 1) = n
    BY <1>n, <1>0, <2>2 DEF ht_has_key, CountOfPut
  <2>6. IF Overloaded(n, h)
          THEN ht_double_hmax(new, IF rest = <<>> THEN <<>> ELSE <<rest>>)
          ELSE /\ buckets' = new
               /\ size' = n
               /\ work' = (IF rest = <<>> THEN <<>> ELSE <<rest>>)
               /\ UNCHANGED hmax
    BY <2>4, <2>5 DEF PutPair
  <2> QED BY <2>6 DEF ht_double_hmax, NoPairs, AllOf
<1> PICK t2 : t2 = IF w2 = <<>> THEN <<>> ELSE Head(w2)
  OBVIOUS
<1>4. ASSUME ~Overloaded(n, h)
      PROVE  /\ t2 = rest
             /\ w2 = <<>> \/ (t2 # <<>> /\ w2 = <<t2>>)
             /\ Sound(bk2, h2, n2, t2)
             /\ InTable(bk2, h2) \cup Held(t2) = But(InTable(bk, h), p.key) \cup {p} \cup Held(rest)
             /\ h2 = h
  <2>1. t2 = rest /\ (w2 = <<>> \/ (t2 # <<>> /\ w2 = <<t2>>))
    BY <1>3, <1>4
  <2>2. bk2 = new /\ n2 = n /\ h2 = h
    BY <1>3, <1>4
  <2>3. 4 * (n + Len(rest)) < 3 * h
    <3>1. CASE rest = <<>>
      <4>1. Len(rest) = 0 /\ 4 * n < 3 * h
        BY <1>0, <1>1, <1>4, <3>1 DEF Overloaded
      <4> QED BY <1>1, <4>1
    <3>2. CASE rest # <<>>
      BY <1>0, <1>1, <1>2, <3>2
    <3> QED BY <3>1, <3>2
  <2>4. \A q \in Held(rest), r \in InTable(new, h) : q.key # r.key
    BY <1>1 DEF But
  <2>5. Sound(new, h, n, rest)
    BY <1>1, <2>3, <2>4 DEF Sound
  <2> QED BY <1>1, <2>1, <2>2, <2>5
<1>5. ASSUME Overloaded(n, h)
      PROVE  /\ w2 = <<>> \/ (t2 # <<>> /\ w2 = <<t2>>)
             /\ Sound(bk2, h2, n2, t2)
             /\ InTable(bk2, h2) \cup Held(t2) = But(InTable(bk, h), p.key) \cup {p} \cup Held(rest)
             /\ ~(4 * ((n0 + 1) + Len(rest)) < 3 * h)
  <2>1. 4 * n >= 3 * h
    BY <1>5 DEF Overloaded
  <2>2. ~(4 * ((n0 + 1) + Len(rest)) < 3 * h)
    BY <1>0, <1>1, <1>2, <2>1
  <2>3. rest = <<>>
    BY <2>2
  <2> PICK t : t = AllOf(new, h)
    OBVIOUS
  <2>4. w2 = <<t>> /\ h2 = 2 * h /\ n2 = 0 /\ bk2 = NoPairs(2 * h)
    <3>1. w2 = <<t>> \o <<>> /\ h2 = 2 * h /\ n2 = 0 /\ bk2 = NoPairs(2 * h)
      BY <1>3, <1>5, <2>3
    <3> QED BY <3>1
  <2>5. t2 = t /\ w2 = <<t2>>
    BY <2>4
  <2>6. 4 * n < 3 * h + 4
    <3>1. n \in Nat
      BY <1>1
    <3> QED BY <1>0, <1>2, <3>1
  <2>7. Sound(bk2, h2, n2, t) /\ t # <<>> /\ Held(t) = InTable(new, h) /\ InTable(bk2, h2) = {}
    <3>1. n \in Nat \ {0} /\ n = Cardinality(InTable(new, h)) /\ Good(new, h)
      BY <1>1, <1>2
    <3>2. Sound(bk2, 2 * h, 0, t) /\ t # <<>> /\ Held(t) = InTable(new, h) /\ InTable(bk2, 2 * h) = {}
      BY <2>4, <2>6, <3>1, DoubledIs
    <3> QED BY <2>4, <3>2
  <2>8. Held(rest) = {}
    BY <2>3 DEF Held
  <2> QED BY <1>1, <2>2, <2>5, <2>7, <2>8
<1>6. TableInv' /\ Todo' = t2
  BY <1>4, <1>5 DEF TableInv, Todo
<1>7. InTable(bk2, h2) \cup Held(t2) = But(InTable(bk, h), p.key) \cup {p} \cup Held(rest)
  BY <1>4, <1>5
<1> QED BY <1>4, <1>5, <1>6, <1>7

-----------------------------------------------------------------------------
(* The steps.                                                               *)

(* All the pairs, in the table or still to be put back.                     *)
Present == InTable(buckets, hmax) \cup Held(Todo)

LEMMA FirstIs ==
  ASSUME NEW c \in Seq(Pairs), Distinct(c), c # <<>>
  PROVE  /\ Head(c) \in Pairs
         /\ Tail(c) \in Seq(Pairs)
         /\ Distinct(Tail(c))
         /\ Len(c) = Len(Tail(c)) + 1
         /\ Len(Tail(c)) \in Nat
         /\ Held(c) = {Head(c)} \cup Held(Tail(c))
         /\ \A q \in Held(Tail(c)) : q.key # Head(c).key
<1>a. PICK t : t = Tail(c)
  OBVIOUS
<1>1. /\ Len(c) \in Nat /\ Len(c) # 0 /\ Head(c) = c[1]
      /\ t \in Seq(Pairs) /\ Len(t) = Len(c) - 1
      /\ \A i \in 1..Len(t) : t[i] = c[i + 1]
  BY <1>a, EmptySeq, LenProperties, HeadTailProperties
<1>2. /\ Len(t) \in Nat /\ Len(c) = Len(t) + 1 /\ 1 \in 1..Len(c)
      /\ \A i \in 1..Len(t) : i + 1 \in 1..Len(c) /\ i + 1 # 1
      /\ \A i \in 1..Len(c) : i = 1 \/ (i - 1 \in 1..Len(t) /\ (i - 1) + 1 = i)
  BY <1>1
<1>3. Head(c) \in Pairs
  BY <1>1, <1>2, ElementOfSeq
<1>4. Distinct(t)
  <2> SUFFICES ASSUME NEW i \in 1..Len(t), NEW j \in 1..Len(t), t[i].key = t[j].key
               PROVE  i = j
    BY DEF Distinct
  <2>1. c[i + 1].key = c[j + 1].key /\ i + 1 \in 1..Len(c) /\ j + 1 \in 1..Len(c)
    BY <1>1, <1>2
  <2>2. i + 1 = j + 1
    BY <2>1 DEF Distinct
  <2> QED BY <1>2, <2>2
<1>5. Held(c) = {Head(c)} \cup Held(t)
  <2>1. ASSUME NEW i \in 1..Len(c) PROVE c[i] \in {Head(c)} \cup Held(t)
    <3>1. CASE i = 1
      BY <1>1, <3>1
    <3>2. CASE i # 1
      <4>1. i - 1 \in 1..Len(t) /\ t[i - 1] = c[i]
        BY <1>1, <1>2, <3>2
      <4> QED BY <4>1 DEF Held
    <3> QED BY <3>1, <3>2
  <2>2. Head(c) \in Held(c)
    BY <1>1, <1>2 DEF Held
  <2>3. ASSUME NEW i \in 1..Len(t) PROVE t[i] \in Held(c)
    BY <1>1, <1>2 DEF Held
  <2>4. Held(t) \subseteq Held(c)
    BY <2>3 DEF Held
  <2>5. Held(c) \subseteq {Head(c)} \cup Held(t)
    <3> SUFFICES ASSUME NEW q \in Held(c) PROVE q \in {Head(c)} \cup Held(t)
      OBVIOUS
    <3>1. PICK i \in 1..Len(c) : q = c[i]
      BY DEF Held
    <3> QED BY <2>1, <3>1
  <2> QED BY <2>2, <2>4, <2>5
<1>6. \A q \in Held(t) : q.key # Head(c).key
  <2> SUFFICES ASSUME NEW q \in Held(t), q.key = Head(c).key PROVE FALSE
    OBVIOUS
  <2>1. PICK i \in 1..Len(t) : q = t[i]
    BY DEF Held
  <2>2. i + 1 \in 1..Len(c) /\ 1 \in 1..Len(c) /\ c[i + 1].key = c[1].key /\ i + 1 # 1
    BY <1>1, <1>2, <2>1
  <2> QED BY <2>2 DEF Distinct
<1> QED BY <1>a, <1>1, <1>2, <1>3, <1>4, <1>5, <1>6

LEMMA IdleIs ==
  ASSUME TableInv, work = <<>>
  PROVE  Todo = <<>> /\ Held(Todo) = {} /\ Sound(buckets, hmax, size, <<>>)
BY DEF TableInv, Todo, Held

LEMMA PutStep ==
  ASSUME TableInv, NEW k \in Keys, NEW v \in Values, ht_put(k, v)
  PROVE  TableInv' /\ Present' = But(Present, k) \cup {[key |-> k, value |-> v]}
<1>1. PICK p, rest : p = [key |-> k, value |-> v] /\ rest = <<>>
  OBVIOUS
<1>2. p \in Pairs /\ p.key = k /\ rest \in Seq(Pairs) /\ Held(rest) = {} /\ Distinct(rest)
  BY <1>1 DEF Pairs, Held, Distinct
<1>3. work = <<>> /\ PutPair(p, IF rest = <<>> THEN <<>> ELSE <<rest>>)
  BY <1>1 DEF ht_put
<1>4. Todo = <<>> /\ Held(Todo) = {} /\ Sound(buckets, hmax, size, <<>>)
  BY <1>3, IdleIs
<1>5. /\ \A q \in Held(rest) : q.key # p.key
      /\ \A q \in Held(rest), r \in InTable(buckets, hmax) : q.key # r.key
      /\ rest # <<>> => 4 * ((size + 1) + Len(rest)) < 3 * hmax
  BY <1>1, <1>2
<1>6. /\ TableInv'
      /\ (InTable(buckets, hmax) \cup Held(Todo))'
           = But(InTable(buckets, hmax), p.key) \cup {p} \cup Held(rest)
  BY <1>2, <1>3, <1>4, <1>5, PutPairIs
<1> QED BY <1>1, <1>2, <1>4, <1>6 DEF Present

LEMMA PutBackStep ==
  ASSUME TableInv, PutBack
  PROVE  TableInv' /\ Present' = Present /\ hmax' = hmax
<1>1. PICK p, rest, t : p = Head(Todo) /\ rest = Tail(Todo) /\ t = Todo
  OBVIOUS
<1>2. t # <<>> /\ work = <<t>> /\ Sound(buckets, hmax, size, t)
  BY <1>1 DEF PutBack, TableInv
<1>3. PutPair(p, IF rest = <<>> THEN <<>> ELSE <<rest>>)
  <2>1. Head(work) = t /\ Tail(work) = <<>> /\ <<rest>> \o <<>> = <<rest>>
    BY <1>2
  <2> QED BY <1>1, <2>1 DEF PutBack
<1>4. t \in Seq(Pairs) /\ Distinct(t) /\ 4 * (size + Len(t)) < 3 * hmax
      /\ (\A q \in Held(t), r \in InTable(buckets, hmax) : q.key # r.key)
      /\ Good(buckets, hmax) /\ size = Cardinality(InTable(buckets, hmax))
  BY <1>2 DEF Sound
<1>5. /\ p \in Pairs /\ rest \in Seq(Pairs) /\ Distinct(rest)
      /\ Len(t) = Len(rest) + 1 /\ Len(rest) \in Nat
      /\ Held(t) = {p} \cup Held(rest)
      /\ \A q \in Held(rest) : q.key # p.key
  BY <1>1, <1>2, <1>4, FirstIs
<1>6. size \in Nat /\ hmax \in Nat
  BY <1>4, TakenIs, FS_CardinalityType DEF Good
<1>7. 4 * ((size + 1) + Len(rest)) < 3 * hmax /\ 4 * (size + Len(<<>>)) < 3 * hmax
  BY <1>4, <1>5, <1>6
<1>8. Sound(buckets, hmax, size, <<>>)
  <2>1. <<>> \in Seq(Pairs) /\ Held(<<>>) = {} /\ Distinct(<<>>)
    BY DEF Held, Distinct
  <2> QED BY <1>4, <1>7, <2>1 DEF Sound
<1>9. \A q \in Held(rest), r \in InTable(buckets, hmax) : q.key # r.key
  BY <1>4, <1>5
<1>10. /\ TableInv'
       /\ (InTable(buckets, hmax) \cup Held(Todo))'
            = But(InTable(buckets, hmax), p.key) \cup {p} \cup Held(rest)
       /\ hmax' = hmax
  BY <1>3, <1>5, <1>7, <1>8, <1>9, PutPairIs
<1>11. But(InTable(buckets, hmax), p.key) = InTable(buckets, hmax)
  <2>1. \A r \in InTable(buckets, hmax) : r.key # p.key
    BY <1>4, <1>5
  <2> QED BY <2>1 DEF But
<1>12. Present' = InTable(buckets, hmax) \cup {p} \cup Held(rest)
  BY <1>10, <1>11 DEF Present
<1> QED BY <1>1, <1>5, <1>10, <1>12 DEF Present

LEMMA RemoveStep ==
  ASSUME TableInv, NEW k \in Keys, ht_remove_entry(k)
  PROVE  TableInv' /\ Present' = But(Present, k)
<1>0. PICK bk, h, n : bk = buckets /\ h = hmax /\ n = size
  OBVIOUS
<1>1. Todo = <<>> /\ Held(Todo) = {} /\ Good(bk, h) /\ n = Cardinality(InTable(bk, h))
      /\ 4 * (n + Len(<<>>)) < 3 * h
  <2>1. work = <<>>
    BY DEF ht_remove_entry
  <2> QED BY <1>0, <2>1, IdleIs DEF Sound
<1>c. PICK c : c = bk[Hash[k] % h]
  OBVIOUS
<1>2. c \in Seq(Pairs) /\ Distinct(c) /\ h \in Nat \ {0}
  <2>1. Hash[k] % h \in 0..(h - 1)
    BY <1>1, BucketIs DEF Good
  <2> QED BY <1>1, <1>c, <2>1 DEF Good
<1>d. PICK d : d = Cleared(c, k)
  OBVIOUS
<1>3. d \in Seq(Pairs) /\ Distinct(d) /\ Held(d) = But(Held(c), k)
  BY <1>2, <1>d, ClearedIs
<1>4. /\ Search(c, k) # 0
      /\ buckets' = Changed(bk, Hash[k] % h, d)
      /\ size' = n - 1 /\ hmax' = h /\ work' = <<>>
  <2>1. Bucket(k) = Hash[k] % h /\ Chain(k) = c
    BY <1>0, <1>c DEF Bucket, Chain
  <2>2. Position(k) = Search(c, k)
    BY <2>1 DEF Position, Search
  <2>3. ChainWithout(k) = d
    BY <1>d, <2>1, <2>2 DEF ChainWithout, ht_has_key, Cleared
  <2> QED BY <1>0, <2>1, <2>2, <2>3 DEF ht_remove_entry, ht_has_key, Changed
<1>n. PICK new : new = Changed(bk, Hash[k] % h, d)
  OBVIOUS
<1>A. PICK A : A = InTable(bk, h)
  OBVIOUS
<1>5. Good(new, h) /\ InTable(new, h) = But(A, k)
  <2>X. PICK X : X = {}
    OBVIOUS
  <2>1. \A q \in X : q.key = k
    BY <2>X
  <2>2. Held(d) = But(Held(bk[Hash[k] % h]), k) \cup X
    BY <1>3, <1>c, <2>X
  <2>3. /\ Good(Changed(bk, Hash[k] % h, d), h)
        /\ InTable(Changed(bk, Hash[k] % h, d), h) = But(InTable(bk, h), k) \cup X
    BY <1>1, <1>3, <2>1, <2>2, ReplacedIs
  <2> QED BY <1>A, <1>n, <2>3, <2>X
<1>6. n - 1 = Cardinality(But(A, k)) /\ 4 * ((n - 1) + Len(<<>>)) < 3 * h
  <2>1. \E q \in A : q.key = k
    BY <1>1, <1>4, <1>A, <1>c, FoundIs
  <2>2. PICK q \in A : q.key = k
    BY <2>1
  <2>3. IsFiniteSet(A) /\ \A x, y \in A : x.key = y.key => x = y
    BY <1>1, <1>A, TakenIs, OnePerKey
  <2>4. Cardinality(But(A, k)) = Cardinality(A) - 1 /\ Cardinality(A) \in Nat
    BY <2>2, <2>3, CountIs
  <2>5. n \in Nat /\ Len(<<>>) = 0
    BY <1>1, <1>A, <2>4
  <2> QED BY <1>1, <1>2, <1>A, <2>4, <2>5
<1>7. Sound(new, h, n - 1, <<>>)
  <2>1. <<>> \in Seq(Pairs) /\ Held(<<>>) = {} /\ Distinct(<<>>)
    BY DEF Held, Distinct
  <2> QED BY <1>5, <1>6, <2>1 DEF Sound
<1>8. Todo' = <<>>
  BY <1>4 DEF Todo
<1>9. TableInv'
  BY <1>4, <1>7, <1>8, <1>n DEF TableInv
<1>10. Present' = InTable(new, h) \cup Held(<<>>)
  BY <1>4, <1>8, <1>n DEF Present
<1> QED BY <1>0, <1>1, <1>5, <1>9, <1>10, <1>A DEF Present

LEMMA InitIs ==
  ASSUME Init
  PROVE  TableInv /\ Present = {}
<1>1. hmax \in Nat \ {0} /\ buckets = [b \in 0..(hmax - 1) |-> <<>>] /\ size = 0 /\ work = <<>>
  BY HashMapAssumption DEF Init
<1>2. Good(buckets, hmax) /\ InTable(buckets, hmax) = {}
  BY <1>1, EmptyIs
<1>3. size = Cardinality(InTable(buckets, hmax)) /\ 4 * (size + Len(<<>>)) < 3 * hmax
  BY <1>1, <1>2, FS_EmptySet
<1>4. <<>> \in Seq(Pairs) /\ Held(<<>>) = {} /\ Distinct(<<>>)
  BY DEF Held, Distinct
<1>5. Todo = <<>>
  BY <1>1 DEF Todo
<1>6. Sound(buckets, hmax, size, <<>>)
  BY <1>2, <1>3, <1>4 DEF Sound
<1> QED BY <1>1, <1>2, <1>4, <1>5, <1>6 DEF TableInv, Present

LEMMA StutterStep ==
  ASSUME TableInv, UNCHANGED vars
  PROVE  TableInv' /\ Present' = Present /\ Waiting' = Waiting
<1>1. Todo' = Todo
  BY DEF vars, Todo
<1> QED BY <1>1 DEF vars, TableInv, Present, Waiting

(* TableInv is an invariant.                                                *)
THEOREM TableInvariance == Spec => []TableInv
<1>1. Init => TableInv
  BY InitIs
<1>2. ASSUME TableInv, [Next]_vars PROVE TableInv'
  <2>1. ASSUME NEW k \in Keys, NEW v \in Values, ht_put(k, v) PROVE TableInv'
    BY <2>1, <1>2, PutStep
  <2>2. CASE PutBack
    BY <2>2, <1>2, PutBackStep
  <2>3. ASSUME NEW k \in Keys, ht_remove_entry(k) PROVE TableInv'
    BY <2>3, <1>2, RemoveStep
  <2>4. CASE UNCHANGED vars
    BY <2>4, <1>2, StutterStep
  <2> QED BY <1>2, <2>1, <2>2, <2>3, <2>4 DEF Next
<1> QED BY <1>1, <1>2, PTL DEF Spec

-----------------------------------------------------------------------------
(* The properties.                                                          *)

LEMMA WaitingIs ==
  ASSUME TableInv
  PROVE  Waiting = Todo /\ Todo \in Seq(Pairs)
<1>1. Todo \in Seq(Pairs)
  BY DEF TableInv, Sound
<1>2. CASE work = <<>>
  BY <1>1, <1>2 DEF Waiting, Todo
<1>3. CASE Todo # <<>> /\ work = <<Todo>>
  <2>1. PICK t : t = Todo
    OBVIOUS
  <2>2. work = <<t>> /\ work # <<>> /\ t \in Seq(Pairs)
    BY <1>1, <1>3, <2>1
  <2>3. FlattenSeq(<<t>>) = t
    BY <2>2, FlattenOne
  <2> QED BY <1>1, <2>1, <2>2, <2>3 DEF Waiting
<1> QED BY <1>2, <1>3 DEF TableInv

LEMMA TypeIs ==
  ASSUME TableInv
  PROVE  TypeOK
<1>1. /\ Good(buckets, hmax) /\ size = Cardinality(InTable(buckets, hmax))
      /\ Todo \in Seq(Pairs)
      /\ work = <<>> \/ (Todo # <<>> /\ work = <<Todo>>)
  BY DEF TableInv, Sound
<1>2. size \in Nat
  BY <1>1, TakenIs, FS_CardinalityType
<1>3. work \in Seq(Seq(Pairs) \ {<<>>})
  <2>1. CASE work = <<>>
    BY <2>1
  <2>2. CASE Todo # <<>> /\ work = <<Todo>>
    <3>1. PICK t : t = Todo
      OBVIOUS
    <3>2. t \in Seq(Pairs) \ {<<>>} /\ work = <<t>>
      BY <1>1, <2>2, <3>1
    <3> QED BY <3>2
  <2> QED BY <1>1, <2>1, <2>2
<1> QED BY <1>1, <1>2, <1>3 DEF TypeOK, Good

LEMMA ConsistentIs ==
  ASSUME TableInv
  PROVE  TableConsistent
<1>1. PICK bk, h, t : bk = buckets /\ h = hmax /\ t = Todo
  OBVIOUS
<1>2. /\ Good(bk, h) /\ size = Cardinality(InTable(bk, h))
      /\ t \in Seq(Pairs) /\ Distinct(t)
      /\ \A q \in Held(t), r \in InTable(bk, h) : q.key # r.key
  BY <1>1 DEF TableInv, Sound
<1>3. /\ Cardinality(Taken(bk)) = Cardinality(InTable(bk, h))
      /\ \A d, e \in Taken(bk) : bk[d[1]][d[2]].key = bk[e[1]][e[2]].key => d = e
  BY <1>2, TakenIs
<1>4. Entries = Taken(bk)
  BY <1>1 DEF Entries, Taken
<1>5. \A b \in DOMAIN buckets : \A j \in 1..Len(buckets[b]) : Hash[buckets[b][j].key] % hmax = b
  <2> SUFFICES ASSUME NEW b \in DOMAIN bk, NEW j \in 1..Len(bk[b])
               PROVE  Hash[bk[b][j].key] % h = b
    BY <1>1
  <2>1. b \in 0..(h - 1)
    BY <1>2 DEF Good
  <2>2. bk[b][j] \in Held(bk[b])
    BY DEF Held
  <2> QED BY <1>2, <2>1, <2>2 DEF Good
<1>6. size = Cardinality(Entries)
  BY <1>2, <1>3, <1>4
<1>7. \A d, e \in Entries : Entry(d).key = Entry(e).key => d = e
  BY <1>1, <1>3, <1>4 DEF Entry
<1>8. Waiting = t
  BY <1>1, WaitingIs
<1>9. ASSUME NEW j \in 1..Len(t)
      PROVE  ~ht_has_key(t[j].key) /\ \A l \in 1..Len(t) : t[l].key = t[j].key => l = j
  <2>1. PICK k : k = t[j].key
    OBVIOUS
  <2>2. t[j] \in Held(t) /\ t[j] \in Pairs
    BY <1>2, ElementOfSeq DEF Held
  <2>3. k \in Keys /\ \A r \in InTable(bk, h) : r.key # k
    BY <1>2, <2>1, <2>2, PairsIs
  <2>4. Search(bk[Hash[k] % h], k) = 0
    BY <1>2, <2>3, FoundIs
  <2>5. ~ht_has_key(k)
    BY <1>1, <2>4 DEF ht_has_key, Position, Chain, Bucket, Search
  <2> QED BY <1>2, <2>1, <2>5 DEF Distinct
<1> QED BY <1>5, <1>6, <1>7, <1>8, <1>9 DEF TableConsistent

(* The variables always have their types.                                   *)
THEOREM TableTypes == Spec => []TypeOK
BY TypeIs, TableInvariance, PTL

(* No search of the table misses a pair or finds a second one, ht->size is   *)
(* right, and this stays so while ht_double_hmax puts the pairs back.       *)
THEOREM TableIsConsistent == Spec => []TableConsistent
BY ConsistentIs, TableInvariance, PTL

(* ht_double_hmax never calls itself through ht_put.                        *)
THEOREM NoDoublingWhileDoubling == Spec => NoNestedDoubling
<1>1. ASSUME TableInv, [Next]_vars PROVE [work # <<>> => hmax' = hmax]_vars
  <2>1. ASSUME NEW k \in Keys, NEW v \in Values, ht_put(k, v) PROVE work = <<>>
    BY <2>1 DEF ht_put
  <2>2. CASE PutBack
    BY <2>2, <1>1, PutBackStep
  <2>3. ASSUME NEW k \in Keys, ht_remove_entry(k) PROVE work = <<>>
    BY <2>3 DEF ht_remove_entry
  <2> QED BY <1>1, <2>1, <2>2, <2>3 DEF Next
<1> QED BY <1>1, TableInvariance, PTL DEF Spec, NoNestedDoubling

-----------------------------------------------------------------------------
(* The refinement.                                                          *)

(* The value a set of pairs gives a key.                                    *)
ValueIn(A, k) ==
  IF \E q \in A : q.key = k THEN (CHOOSE q \in A : q.key = k).value ELSE NoValue

LEMMA ValueIs ==
  ASSUME NEW A, \A q, r \in A : q.key = r.key => q = r, NEW q \in A
  PROVE  ValueIn(A, q.key) = q.value
<1>1. PICK k : k = q.key
  OBVIOUS
<1>2. (CHOOSE r \in A : r.key = k) \in A /\ (CHOOSE r \in A : r.key = k).key = k
  BY <1>1
<1>3. (CHOOSE r \in A : r.key = k) = q
  BY <1>1, <1>2
<1> QED BY <1>1, <1>3 DEF ValueIn

LEMMA PresentIs ==
  ASSUME TableInv
  PROVE  \A q, r \in Present : q.key = r.key => q = r
<1>1. PICK bk, h, t : bk = buckets /\ h = hmax /\ t = Todo
  OBVIOUS
<1>2. /\ Good(bk, h)
      /\ t \in Seq(Pairs) /\ Distinct(t)
      /\ \A q \in Held(t), r \in InTable(bk, h) : q.key # r.key
  BY <1>1 DEF TableInv, Sound
<1>3. \A q, r \in InTable(bk, h) : q.key = r.key => q = r
  BY <1>2, OnePerKey
<1>4. \A q, r \in Held(t) : q.key = r.key => q = r
  BY <1>2 DEF Held, Distinct
<1> QED BY <1>1, <1>2, <1>3, <1>4 DEF Present

(* What a caller sees is what is present.                                   *)
LEMMA ContentIs ==
  ASSUME TableInv, NEW k \in Keys
  PROVE  Content(k) = ValueIn(Present, k)
<1>1. PICK bk, h, t, A : bk = buckets /\ h = hmax /\ t = Todo /\ A = Present
  OBVIOUS
<1>2. /\ Good(bk, h)
      /\ t \in Seq(Pairs) /\ Distinct(t)
      /\ Waiting = t
      /\ A = InTable(bk, h) \cup Held(t)
  BY <1>1, WaitingIs DEF TableInv, Sound, Present
<1>3. \A q, r \in A : q.key = r.key => q = r
  BY <1>1, PresentIs
<1>4. PICK w, c, n : w = Search(t, k) /\ c = bk[Hash[k] % h] /\ n = Search(c, k)
  OBVIOUS
<1>5. Content(k) = IF w # 0 THEN t[w].value ELSE IF n # 0 THEN c[n].value ELSE NoValue
  <2>1. Chain(k) = c
    BY <1>1, <1>4 DEF Chain, Bucket
  <2>2. Position(k) = n
    BY <1>4, <2>1 DEF Position, Search
  <2>3. ht_get(k) = IF n # 0 THEN c[n].value ELSE NoValue
    BY <2>1, <2>2 DEF ht_get, ht_has_key
  <2>4. w = SelectInSeq(Waiting, LAMBDA p : p.key = k)
    BY <1>2, <1>4 DEF Search
  <2> QED BY <1>2, <2>3, <2>4 DEF Content
<1>6. CASE w # 0
  <2>1. w \in 1..Len(t) /\ t[w].key = k
    BY <1>2, <1>4, <1>6, SearchIs
  <2>2. t[w] \in A
    BY <1>2, <2>1 DEF Held
  <2>3. ValueIn(A, t[w].key) = t[w].value
    BY <1>3, <2>2, ValueIs
  <2> QED BY <1>1, <1>5, <1>6, <2>1, <2>3
<1>7. CASE w = 0 /\ n # 0
  <2>1. c[n] \in InTable(bk, h) /\ c[n].key = k
    BY <1>2, <1>4, <1>7, FoundIs
  <2>2. ValueIn(A, c[n].key) = c[n].value
    BY <1>2, <1>3, <2>1, ValueIs
  <2> QED BY <1>1, <1>5, <1>7, <2>1, <2>2
<1>8. CASE w = 0 /\ n = 0
  <2>1. \A q \in InTable(bk, h) : q.key # k
    BY <1>2, <1>4, <1>8, FoundIs
  <2>2. \A q \in Held(t) : q.key # k
    <3>1. \A j \in 1..Len(t) : t[j].key # k
      BY <1>2, <1>4, <1>8, SearchIs
    <3> QED BY <3>1 DEF Held
  <2>3. ValueIn(A, k) = NoValue
    BY <1>2, <2>1, <2>2 DEF ValueIn
  <2> QED BY <1>1, <1>5, <1>8, <2>3
<1> QED BY <1>6, <1>7, <1>8

(* A put or a removal changes the value of its key only.                    *)
LEMMA ValueAfter ==
  ASSUME NEW A, \A q, r \in A : q.key = r.key => q = r, NEW k
  PROVE  /\ \A j : j # k => ValueIn(But(A, k), j) = ValueIn(A, j)
         /\ ValueIn(But(A, k), k) = NoValue
         /\ \A p : p.key = k =>
              /\ \A j : j # k => ValueIn(But(A, k) \cup {p}, j) = ValueIn(A, j)
              /\ ValueIn(But(A, k) \cup {p}, k) = p.value
<1>1. ValueIn(But(A, k), k) = NoValue
  BY DEF ValueIn, But
<1>2. ASSUME NEW B, NEW j, \A q, r \in B : q.key = r.key => q = r,
             \A q : q.key = j => (q \in A <=> q \in B)
      PROVE  ValueIn(B, j) = ValueIn(A, j)
  <2>1. CASE \E q \in A : q.key = j
    <3> PICK q \in A : q.key = j
      BY <2>1
    <3>1. q \in B
      BY <1>2
    <3>2. ValueIn(A, q.key) = q.value /\ ValueIn(B, q.key) = q.value
      BY <1>2, <3>1, ValueIs
    <3> QED BY <3>2
  <2>2. CASE ~ \E q \in A : q.key = j
    BY <1>2, <2>2 DEF ValueIn
  <2> QED BY <2>1, <2>2
<1>3. ASSUME NEW j, j # k PROVE ValueIn(But(A, k), j) = ValueIn(A, j)
  <2>1. PICK B : B = But(A, k)
    OBVIOUS
  <2>2. /\ \A q, r \in B : q.key = r.key => q = r
        /\ \A q : q.key = j => (q \in A <=> q \in B)
    BY <1>3, <2>1 DEF But
  <2> QED BY <1>2, <2>1, <2>2
<1>4. ASSUME NEW p, p.key = k
      PROVE  /\ \A j : j # k => ValueIn(But(A, k) \cup {p}, j) = ValueIn(A, j)
             /\ ValueIn(But(A, k) \cup {p}, k) = p.value
  <2>1. PICK B : B = But(A, k) \cup {p}
    OBVIOUS
  <2>2. \A q, r \in B : q.key = r.key => q = r
    BY <1>4, <2>1 DEF But
  <2>3. ASSUME NEW j, j # k PROVE ValueIn(B, j) = ValueIn(A, j)
    <3>1. \A q : q.key = j => (q \in A <=> q \in B)
      BY <1>4, <2>1, <2>3 DEF But
    <3> QED BY <1>2, <2>2, <3>1
  <2>4. ValueIn(B, p.key) = p.value
    BY <2>1, <2>2, ValueIs
  <2> QED BY <1>4, <2>1, <2>3, <2>4
<1> QED BY <1>1, <1>3, <1>4

(* The dictionary that a set of pairs stands for.                           *)
DictOf(A) == [k \in Keys |-> ValueIn(A, k)]

LEMMA DictIs == TableInv => [k \in Keys |-> Content(k)] = DictOf(Present)
BY ContentIs DEF DictOf

LEMMA DictPut ==
  ASSUME NEW A, \A q, r \in A : q.key = r.key => q = r, NEW k \in Keys, NEW p, p.key = k
  PROVE  DictOf(But(A, k) \cup {p}) = [DictOf(A) EXCEPT ![k] = p.value]
<1>1. PICK B : B = But(A, k) \cup {p}
  OBVIOUS
<1>2. (\A j : j # k => ValueIn(B, j) = ValueIn(A, j)) /\ ValueIn(B, k) = p.value
  <2>1. \A q : q.key = k =>
          /\ \A j : j # k => ValueIn(But(A, k) \cup {q}, j) = ValueIn(A, j)
          /\ ValueIn(But(A, k) \cup {q}, k) = q.value
    BY ValueAfter
  <2>2. /\ \A j : j # k => ValueIn(But(A, k) \cup {p}, j) = ValueIn(A, j)
        /\ ValueIn(But(A, k) \cup {p}, k) = p.value
    BY <2>1, Zenon
  <2> QED BY <1>1, <2>2
<1>3. DictOf(B) = [DictOf(A) EXCEPT ![k] = p.value]
  BY <1>2 DEF DictOf
<1> QED BY <1>1, <1>3

LEMMA DictRemove ==
  ASSUME NEW A, \A q, r \in A : q.key = r.key => q = r, NEW k \in Keys
  PROVE  DictOf(But(A, k)) = [DictOf(A) EXCEPT ![k] = NoValue]
<1>1. PICK B : B = But(A, k)
  OBVIOUS
<1>2. (\A j : j # k => ValueIn(B, j) = ValueIn(A, j)) /\ ValueIn(B, k) = NoValue
  BY <1>1, ValueAfter
<1>3. DictOf(B) = [DictOf(A) EXCEPT ![k] = NoValue]
  BY <1>2 DEF DictOf
<1> QED BY <1>1, <1>3

(* The hash map is a dictionary: a put and a removal change the value of     *)
(* their key only, and rehashing changes none.                              *)
THEOREM HashMapIsADictionary == Spec => ImplementsDictionary
<1> DEFINE dict == [k \in Keys |-> Content(k)]
<1>1. ASSUME Init PROVE Abstract!Init
  <2>1. TableInv /\ Present = {}
    BY <1>1, InitIs
  <2>2. dict = DictOf({})
    BY <2>1, DictIs
  <2>3. DictOf({}) = [k \in Keys |-> NoValue]
    BY DEF DictOf, ValueIn
  <2> QED BY <2>2, <2>3 DEF Abstract!Init
<1>2. TableInv' => dict' = DictOf(Present')
  <2>1. TableInv' => (dict = DictOf(Present))'
    BY DictIs, PTL
  <2> QED BY <2>1
<1>3. ASSUME TableInv, TableInv', [Next]_vars PROVE [Abstract!Next]_dict
  <2>1. PICK A, B, f, g : A = Present /\ B = Present' /\ f = dict /\ g = dict'
    OBVIOUS
  <2>2. f = DictOf(A) /\ g = DictOf(B) /\ \A q, r \in A : q.key = r.key => q = r
    BY <1>2, <1>3, <2>1, DictIs, PresentIs
  <2>3. ASSUME NEW k \in Keys, NEW v \in Values, ht_put(k, v) PROVE g = [f EXCEPT ![k] = v]
    <3>1. PICK p : p = [key |-> k, value |-> v]
      OBVIOUS
    <3>2. B = But(A, k) \cup {p} /\ p.key = k /\ p.value = v
      BY <1>3, <2>1, <2>3, <3>1, PutStep
    <3> QED BY <2>2, <3>2, DictPut
  <2>4. ASSUME PutBack PROVE g = f
    BY <1>3, <2>1, <2>2, <2>4, PutBackStep
  <2>5. ASSUME NEW k \in Keys, ht_remove_entry(k) PROVE g = [f EXCEPT ![k] = NoValue]
    <3>1. B = But(A, k)
      BY <1>3, <2>1, <2>5, RemoveStep
    <3> QED BY <2>2, <3>1, DictRemove
  <2>6. ASSUME UNCHANGED vars PROVE g = f
    BY <1>3, <2>1, <2>2, <2>6, StutterStep
  <2>7. (\E k \in Keys : g = [f EXCEPT ![k] = NoValue] \/ \E v \in Values : g = [f EXCEPT ![k] = v])
        \/ g = f
    BY <1>3, <2>3, <2>4, <2>5, <2>6 DEF Next
  <2> QED BY <2>1, <2>7 DEF Abstract!Next, Abstract!Put, Abstract!Remove
<1> QED BY <1>1, <1>3, TableInvariance, PTL DEF Spec, ImplementsDictionary, Abstract!Spec
=============================================================================
