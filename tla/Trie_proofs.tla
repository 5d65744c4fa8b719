------------------------------ MODULE Trie_proofs ------------------------------
(***************************************************************************)
(* Proofs about Trie: its nodes and counters are those of its words, so     *)
(* that it is the set of topics the server takes it for; and about          *)
(* TopicMatch: is_subscribed finds the topics that its patterns cover.       *)
(***************************************************************************)
EXTENDS TopicMatch, Iteration_proofs, SequenceTheorems, FiniteSetTheorems

Characters == UNION {ToSet(t) : t \in Topics}

Words == Seq(Characters)

-----------------------------------------------------------------------------
(* Words and their prefixes.                                                *)

Cut(s, k) == SubSeq(s, 1, k)

LEMMA TopicsAreWords == Topics \subseteq Words
<1> SUFFICES ASSUME NEW t \in Topics PROVE t \in Words
  OBVIOUS
<1>1. t \in Seq(ToSet(t)) /\ ToSet(t) \subseteq Characters
  BY TrieAssumption DEF Characters
<1> QED BY <1>1, SeqMonotonic DEF Words

LEMMA PrefixesAreCuts ==
  ASSUME NEW s
  PROVE  Prefixes(s) = {Cut(s, k) : k \in 0..Len(s)}
BY DEF Prefixes, Cut

LEMMA CutFacts ==
  ASSUME NEW s \in Words, NEW k \in 0..Len(s)
  PROVE  /\ Cut(s, k) \in Words /\ Len(Cut(s, k)) = k /\ Len(s) \in Nat /\ k \in Nat
         /\ \A n \in 1..k : Cut(s, k)[n] = s[n]
         /\ Cut(s, k) = Root <=> k = 0
<1>1. Len(s) \in Nat /\ \A n \in 1..Len(s) : s[n] \in Characters
  BY LenProperties, ElementOfSeq DEF Words
<1>2. /\ Cut(s, k) \in Words /\ Len(Cut(s, k)) = k
      /\ \A n \in 1..k : Cut(s, k)[n] = s[n]
  BY <1>1, SubSeqProperties DEF Words, Cut
<1>3. Cut(s, k) = Root <=> k = 0
  BY <1>1, <1>2, EmptySeq DEF Words, Root
<1> QED BY <1>1, <1>2, <1>3

LEMMA SameWord ==
  ASSUME NEW s \in Words, NEW t \in Words, Len(s) = Len(t), \A n \in 1..Len(s) : s[n] = t[n]
  PROVE  s = t
BY SeqEqual DEF Words

LEMMA CutCut ==
  ASSUME NEW s \in Words, NEW k \in 0..Len(s), NEW l \in 0..k
  PROVE  Cut(Cut(s, k), l) = Cut(s, l)
<1>1. /\ Cut(s, k) \in Words /\ Len(Cut(s, k)) = k /\ k \in Nat /\ Len(s) \in Nat
      /\ \A n \in 1..k : Cut(s, k)[n] = s[n]
  BY CutFacts
<1>2. l \in 0..Len(s) /\ l \in 0..Len(Cut(s, k))
  BY <1>1
<1>3. /\ Cut(s, l) \in Words /\ Len(Cut(s, l)) = l
      /\ \A n \in 1..l : Cut(s, l)[n] = s[n]
  BY <1>2, CutFacts
<1>4. /\ Cut(Cut(s, k), l) \in Words /\ Len(Cut(Cut(s, k), l)) = l
      /\ \A n \in 1..l : Cut(Cut(s, k), l)[n] = Cut(s, k)[n]
  BY <1>1, <1>2, CutFacts
<1>5. \A n \in 1..l : n \in 1..k
  BY <1>1
<1> QED BY <1>1, <1>3, <1>4, <1>5, SameWord

LEMMA CutAll ==
  ASSUME NEW s \in Words
  PROVE  Cut(s, Len(s)) = s
<1>1. Len(s) \in 0..Len(s)
  BY LenProperties DEF Words
<1> QED BY <1>1, CutFacts, SameWord

LEMMA FrontCut ==
  ASSUME NEW s \in Words, NEW k \in 1..Len(s)
  PROVE  Front(Cut(s, k)) = Cut(s, k - 1)
<1>1. k \in 0..Len(s) /\ k - 1 \in 0..k
  BY LenProperties DEF Words
<1>2. Front(Cut(s, k)) = Cut(Cut(s, k), k - 1)
  BY <1>1, CutFacts DEF Front, Cut
<1> QED BY <1>1, <1>2, CutCut

LEMMA PrefixFacts ==
  ASSUME NEW s \in Words
  PROVE  /\ s \in Prefixes(s) /\ Root \in Prefixes(s)
         /\ Prefixes(s) \subseteq Words
         /\ IsFiniteSet(Prefixes(s))
<1>1. Len(s) \in Nat
  BY LenProperties DEF Words
<1>2. 0 \in 0..Len(s) /\ Len(s) \in 0..Len(s)
  BY <1>1
<1>3. s \in Prefixes(s)
  BY <1>2, CutAll, PrefixesAreCuts
<1>4. Root \in Prefixes(s)
  BY <1>2, CutFacts, PrefixesAreCuts
<1>5. Prefixes(s) \subseteq Words
  BY CutFacts, PrefixesAreCuts
<1>6. IsFiniteSet(Prefixes(s))
  <2> DEFINE f == [k \in 0..Len(s) |-> Cut(s, k)]
  <2>1. f \in Surjection(0..Len(s), Prefixes(s))
    BY PrefixesAreCuts DEF Surjection
  <2>2. IsFiniteSet(0..Len(s))
    BY <1>1, FS_Interval
  <2> QED BY <2>1, <2>2, FS_Surjection
<1> QED BY <1>3, <1>4, <1>5, <1>6

(* A prefix of a prefix is a prefix.                                        *)
LEMMA PrefixOfPrefix ==
  ASSUME NEW s \in Words, NEW x \in Prefixes(s)
  PROVE  Prefixes(x) \subseteq Prefixes(s)
<1> PICK k \in 0..Len(s) : x = Cut(s, k)
  BY PrefixesAreCuts
<1>1. Len(x) = k /\ Len(s) \in Nat
  BY CutFacts
<1> SUFFICES ASSUME NEW l \in 0..k PROVE Cut(x, l) \in Prefixes(s)
  BY <1>1, PrefixesAreCuts
<1>2. Cut(x, l) = Cut(s, l) /\ l \in 0..Len(s)
  BY <1>1, CutCut
<1> QED BY <1>2, PrefixesAreCuts

(* The nodes below x on the way to s: one, if x is a proper prefix of s.    *)
LEMMA ChildOnPath ==
  ASSUME NEW s \in Words, NEW k \in 0..Len(s), k # Len(s)
  PROVE  /\ k + 1 \in 0..Len(s)
         /\ Cut(s, k + 1) \in Prefixes(s) \ {Root}
         /\ Front(Cut(s, k + 1)) = Cut(s, k)
<1>1. k + 1 \in 0..Len(s) /\ k + 1 \in 1..Len(s) /\ (k + 1) - 1 = k /\ k + 1 # 0
  BY LenProperties DEF Words
<1> QED BY <1>1, CutFacts, FrontCut, PrefixesAreCuts

LEMMA ParentOnPath ==
  ASSUME NEW s \in Words, NEW y \in Prefixes(s) \ {Root}
  PROVE  /\ Front(y) \in Prefixes(s)
         /\ Len(Front(y)) \in 0..Len(s) /\ Len(Front(y)) # Len(s)
         /\ y = Cut(s, Len(Front(y)) + 1)
<1> PICK k \in 0..Len(s) : y = Cut(s, k)
  BY PrefixesAreCuts
<1>1. Len(s) \in Nat /\ k # 0
  BY CutFacts
<1>2. k \in 1..Len(s) /\ k - 1 \in 0..Len(s) /\ k - 1 # Len(s) /\ (k - 1) + 1 = k
  BY <1>1
<1>3. Front(y) = Cut(s, k - 1) /\ Len(Front(y)) = k - 1
  BY <1>2, FrontCut, CutFacts
<1> QED BY <1>2, <1>3, PrefixesAreCuts

-----------------------------------------------------------------------------
(* Children.                                                                *)

Children(x, S) == {y \in S \ {Root} : Front(y) = x}

LEMMA ChildrenAreFinite ==
  ASSUME NEW x, NEW S, IsFiniteSet(S)
  PROVE  IsFiniteSet(Children(x, S)) /\ Born(x, S) \in Nat
<1>1. Children(x, S) \in SUBSET S
  BY DEF Children
<1>2. IsFiniteSet(Children(x, S))
  BY <1>1, FS_Subset
<1> QED BY <1>2, FS_CardinalityType DEF Born, Children

(* Nodes that come add to the counters of their parents.                    *)
LEMMA BornMore ==
  ASSUME NEW x, NEW S, NEW T, IsFiniteSet(S), IsFiniteSet(T)
  PROVE  Born(x, S \cup T) = Born(x, S) + Born(x, T \ S)
<1>1. IsFiniteSet(T \ S)
  BY FS_Difference
<1>2. IsFiniteSet(Children(x, S)) /\ IsFiniteSet(Children(x, T \ S)) /\ Born(x, S) \in Nat
      /\ Born(x, T \ S) \in Nat
  BY <1>1, ChildrenAreFinite
<1>3. Children(x, S \cup T) = Children(x, S) \cup Children(x, T \ S)
      /\ Children(x, S) \cap Children(x, T \ S) = {}
  BY DEF Children
<1>4. Cardinality(Children(x, S \cup T)) =
        Cardinality(Children(x, S)) + Cardinality(Children(x, T \ S)) - Cardinality({})
  BY <1>2, <1>3, FS_Union
<1>5. Cardinality({}) = 0
  BY FS_EmptySet
<1> QED BY <1>2, <1>4, <1>5 DEF Born, Children

LEMMA BornLess ==
  ASSUME NEW x, NEW S, NEW T \in SUBSET S, IsFiniteSet(S)
  PROVE  Born(x, S \ T) = Born(x, S) - Born(x, T)
<1>1. IsFiniteSet(T) /\ IsFiniteSet(S \ T)
  BY FS_Subset, FS_Difference
<1>2. T \cup (S \ T) = S /\ (S \ T) \ T = S \ T
  OBVIOUS
<1>3. Born(x, S) = Born(x, T) + Born(x, S \ T)
  BY <1>1, <1>2, BornMore
<1> QED BY <1>1, <1>3, ChildrenAreFinite

-----------------------------------------------------------------------------
(* The nodes that a set of words needs.                                     *)

Needed(W) == {Root} \cup UNION {Prefixes(w) : w \in W}

LEMMA NeededFacts ==
  ASSUME NEW W \in SUBSET Words
  PROVE  /\ W \subseteq Needed(W) /\ Needed(W) \subseteq Words
         /\ \A y \in Needed(W) \ {Root} : Front(y) \in Needed(W)
         /\ \A w \in W : Prefixes(w) \subseteq Needed(W)
<1>1. \A w \in W : w \in Prefixes(w) /\ Prefixes(w) \subseteq Words
  BY PrefixFacts
<1>2. Root \in Words
  BY EmptySeq DEF Root, Words
<1>3. ASSUME NEW y \in Needed(W) \ {Root} PROVE Front(y) \in Needed(W)
  <2>1. PICK w \in W : y \in Prefixes(w)
    BY DEF Needed
  <2>2. Front(y) \in Prefixes(w)
    BY <2>1, ParentOnPath
  <2> QED BY <2>2 DEF Needed
<1> QED BY <1>1, <1>2, <1>3 DEF Needed

(* A needed node is a word or has a needed child.                           *)
LEMMA WordOrParent ==
  ASSUME NEW W \in SUBSET Words, NEW w \in W, NEW x \in Prefixes(w), x # w
  PROVE  \E y \in Needed(W) \ {Root} : Front(y) = x
<1> PICK k \in 0..Len(w) : x = Cut(w, k)
  BY PrefixesAreCuts
<1>1. k # Len(w)
  BY CutAll
<1>2. Cut(w, k + 1) \in Prefixes(w) \ {Root} /\ Front(Cut(w, k + 1)) = x
  BY <1>1, ChildOnPath
<1> QED BY <1>2 DEF Needed

(* The children of t, and of a node before t, among the nodes needed: they   *)
(* tell whether the words other than t need that node.                      *)
LEMMA ChildNeeds ==
  ASSUME NEW W \in SUBSET Words, NEW t \in W, NEW y \in Needed(W) \ {Root},
         Front(y) \notin Needed(W \ {t})
  PROVE  y = Cut(t, Len(Front(y)) + 1) /\ Len(Front(y)) \in 0..Len(t) /\ Front(y) # t
<1>1. PICK w \in W : y \in Prefixes(w)
  BY DEF Needed
<1>2. w \in Words /\ t \in Words
  OBVIOUS
<1>3. Front(y) \in Prefixes(w)
  BY <1>1, <1>2, ParentOnPath
<1>4. w = t
  BY <1>3 DEF Needed
<1>5. /\ Len(Front(y)) \in 0..Len(t) /\ Len(Front(y)) # Len(t)
      /\ y = Cut(t, Len(Front(y)) + 1)
  BY <1>1, <1>2, <1>4, ParentOnPath
<1> QED BY <1>5

LEMMA KeptWord ==
  ASSUME NEW W \in SUBSET Words, NEW t \in W, t # Root, IsFiniteSet(Needed(W))
  PROVE  Born(t, Needed(W)) = 0 <=> t \notin Needed(W \ {t})
<1>1. Born(t, Needed(W)) = 0 <=> Children(t, Needed(W)) = {}
  <2>1. IsFiniteSet(Children(t, Needed(W)))
    BY ChildrenAreFinite
  <2> QED BY <2>1, FS_EmptySet DEF Born, Children
<1>2. ASSUME t \in Needed(W \ {t}) PROVE Children(t, Needed(W)) # {}
  <2>1. PICK w \in W : t \in Prefixes(w) /\ w # t
    BY <1>2 DEF Needed
  <2>2. \E y \in Needed(W) \ {Root} : Front(y) = t
    BY <2>1, WordOrParent
  <2> QED BY <2>2 DEF Children
<1>3. ASSUME t \notin Needed(W \ {t}), NEW y \in Children(t, Needed(W)) PROVE FALSE
  <2>1. y \in Needed(W) \ {Root} /\ Front(y) = t
    BY DEF Children
  <2> QED BY <1>3, <2>1, ChildNeeds
<1> QED BY <1>1, <1>2, <1>3

LEMMA KeptBefore ==
  ASSUME NEW W \in SUBSET Words, NEW t \in W, IsFiniteSet(Needed(W)),
         NEW k \in 1..Len(t), k # Len(t),
         NEW x, x = Cut(t, k), NEW next, next = Cut(t, k + 1)
  PROVE  /\ next \in Needed(W \ {t}) =>
              x \in Needed(W \ {t}) /\ Born(x, Needed(W)) # 0
         /\ next \notin Needed(W \ {t}) =>
              (Born(x, Needed(W)) = 1 /\ x \notin W <=> x \notin Needed(W \ {t}))
<1> DEFINE C == Children(x, Needed(W))
<1>1. IsFiniteSet(C) /\ Born(x, Needed(W)) = Cardinality(C)
  BY ChildrenAreFinite DEF Born, Children
<1>2. t \in Words /\ Len(t) \in Nat /\ k \in 0..Len(t)
  BY LenProperties DEF Words
<1>3. /\ k + 1 \in 0..Len(t)
      /\ next \in Prefixes(t) \ {Root} /\ Front(next) = x
  BY <1>2, ChildOnPath
<1>4. next \in C
  BY <1>3 DEF Needed, Children
<1>5. x \in Words /\ Len(x) = k /\ x # Root /\ x # t
  BY <1>2, CutFacts
<1>6. ASSUME next \in Needed(W \ {t})
      PROVE  x \in Needed(W \ {t}) /\ Born(x, Needed(W)) # 0
  <2>1. x \in Needed(W \ {t})
    <3>1. W \ {t} \in SUBSET Words
      OBVIOUS
    <3> QED BY <1>3, <1>6, <3>1, NeededFacts
  <2>2. Cardinality(C) # 0
    BY <1>1, <1>4, FS_EmptySet
  <2> QED BY <1>1, <2>1, <2>2
<1>7. ASSUME next \notin Needed(W \ {t}), x \notin Needed(W \ {t})
      PROVE  Born(x, Needed(W)) = 1 /\ x \notin W
  <2>1. x \notin W
    <3>1. W \ {t} \in SUBSET Words
      OBVIOUS
    <3>2. W \ {t} \subseteq Needed(W \ {t})
      BY <3>1, NeededFacts
    <3> QED BY <1>5, <1>7, <3>2
  <2>2. ASSUME NEW y \in C PROVE y = next
    <3>1. y \in Needed(W) \ {Root} /\ Front(y) = x
      BY DEF Children
    <3>2. y = Cut(t, Len(Front(y)) + 1)
      BY <1>7, <3>1, ChildNeeds
    <3> QED BY <1>5, <3>1, <3>2
  <2>3. C = {next}
    BY <1>4, <2>2
  <2> QED BY <1>1, <2>1, <2>3, FS_Singleton
<1>8. ASSUME next \notin Needed(W \ {t}), x \in Needed(W \ {t}), x \notin W
      PROVE  Born(x, Needed(W)) # 1
  <2>1. PICK w \in W \ {t} : x \in Prefixes(w)
    BY <1>5, <1>8 DEF Needed
  <2>2. PICK y \in Needed(W \ {t}) \ {Root} : Front(y) = x
    <3>1. W \ {t} \in SUBSET Words /\ x # w
      BY <1>8
    <3> QED BY <2>1, <3>1, WordOrParent
  <2>3. y \in C /\ y # next
    BY <1>8, <2>2 DEF Needed, Children
  <2>4. ~(\E z : C = {z})
    BY <1>4, <2>3
  <2> HIDE DEF C
  <2> QED BY <1>1, <2>4, FS_Singleton
<1> QED BY <1>6, <1>7, <1>8

-----------------------------------------------------------------------------
(* What trie_remove frees.                                                  *)

LEMMA NeededByOthers ==
  ASSUME NEW W, NEW t \in W
  PROVE  Needed(W) = Needed(W \ {t}) \cup Prefixes(t)
BY DEF Needed

(* The calls of trie_remove_helper return, from t upwards, whether the other *)
(* words can do without the node.                                           *)
LEMMA FreedIs ==
  ASSUME NEW t \in end_of_word, end_of_word \in SUBSET Words,
         nodes = Needed(end_of_word), IsFiniteSet(nodes),
         \A x \in nodes : n_children[x] = Born(x, nodes)
  PROVE  Freed(t) = nodes \ Needed(end_of_word \ {t})
<1> DEFINE x == [k \in 0..Len(t) |-> SubSeq(t, 1, k)]
           Step(f) == [k \in 0..Len(t) |->
                         IF k = Len(t)
                           THEN n_children[t] = 0
                           ELSE /\ n_children[x[k]] = (IF f[k + 1] THEN 1 ELSE 0)
                                /\ x[k] \notin end_of_word]
           returns == CHOOSE f : f = Step(f)
           kept == Needed(end_of_word \ {t})
<1>1. Freed(t) = {x[k] : k \in {k \in 1..Len(t) : returns[k]}}
  BY DEF Freed
<1>2. t \in Words /\ Len(t) \in Nat
  BY LenProperties DEF Words
<1>3. \A k \in 0..Len(t) : x[k] = Cut(t, k)
  BY DEF Cut
<1>4. x[Len(t)] = t
  <2>1. Len(t) \in 0..Len(t)
    BY <1>2
  <2> QED BY <1>2, <1>3, <2>1, CutAll
<1>5. \A k \in 1..Len(t) : x[k] \in nodes /\ x[k] # Root
  <2> SUFFICES ASSUME NEW k \in 1..Len(t) PROVE x[k] \in nodes /\ x[k] # Root
    OBVIOUS
  <2>1. k \in 0..Len(t) /\ k # 0
    BY <1>2
  <2>2. x[k] \in Prefixes(t) /\ x[k] # Root
    BY <1>2, <1>3, <2>1, PrefixesAreCuts, CutFacts
  <2> QED BY <2>2 DEF Needed
<1> HIDE DEF x, kept
<1>6. ASSUME NEW f, NEW k \in 1..Len(t),
             k # Len(t) => (f[k + 1] <=> x[k + 1] \notin kept)
      PROVE  Step(f)[k] <=> x[k] \notin kept
  <2>1. k \in 0..Len(t) /\ n_children[x[k]] = Born(x[k], nodes)
    BY <1>2, <1>5
  <2>2. CASE k = Len(t)
    <3>1. x[k] = t /\ t # Root
      BY <1>4, <1>5, <2>2
    <3>2. Born(t, nodes) = 0 <=> t \notin kept
      BY <3>1, KeptWord DEF kept
    <3>3. Step(f)[k] <=> n_children[t] = 0
      BY <2>1, <2>2
    <3> QED BY <2>1, <3>1, <3>2, <3>3
  <2>3. CASE k # Len(t)
    <3>1. k + 1 \in 0..Len(t)
      BY <1>2, <2>3
    <3>2. x[k] = Cut(t, k) /\ x[k + 1] = Cut(t, k + 1)
      BY <1>3, <2>1, <3>1
    <3>3. /\ x[k + 1] \in kept => x[k] \in kept /\ Born(x[k], nodes) # 0
          /\ x[k + 1] \notin kept =>
               (Born(x[k], nodes) = 1 /\ x[k] \notin end_of_word <=> x[k] \notin kept)
      BY <2>3, <3>2, KeptBefore DEF kept
    <3>4. Step(f)[k] <=> /\ Born(x[k], nodes) = (IF f[k + 1] THEN 1 ELSE 0)
                         /\ x[k] \notin end_of_word
      BY <2>1, <2>3
    <3> QED BY <1>6, <2>3, <3>3, <3>4
  <2> QED BY <2>2, <2>3
<1>7. returns = Step(returns)
  <2> DEFINE free == [k \in 0..Len(t) |-> x[k] \notin kept]
             f == Step(free)
  <2>1. ASSUME NEW k \in 1..Len(t) PROVE f[k] <=> free[k]
    <3>1. k \in 0..Len(t) /\ (k # Len(t) => k + 1 \in 0..Len(t))
      BY <1>2
    <3>2. k # Len(t) => (free[k + 1] <=> x[k + 1] \notin kept)
      BY <3>1
    <3>3. free[k] <=> x[k] \notin kept
      BY <3>1
    <3> HIDE DEF free, Step
    <3>4. Step(free)[k] <=> x[k] \notin kept
      BY <1>6, <3>2
    <3> QED BY <3>3, <3>4
  <2>2. f = Step(f)
    <3>1. \A k \in 0..Len(t) : k # Len(t) => k + 1 \in 1..Len(t)
      BY <1>2
    <3>2. \A k \in 0..Len(t) : k # Len(t) => (f[k + 1] <=> free[k + 1])
      BY <2>1, <3>1
    <3> HIDE DEF free
    <3>3. ASSUME NEW k \in 0..Len(t)
          PROVE  (IF k = Len(t) THEN n_children[t] = 0
                    ELSE /\ n_children[x[k]] = (IF free[k + 1] THEN 1 ELSE 0)
                         /\ x[k] \notin end_of_word)
                 = (IF k = Len(t) THEN n_children[t] = 0
                      ELSE /\ n_children[x[k]] = (IF f[k + 1] THEN 1 ELSE 0)
                           /\ x[k] \notin end_of_word)
      BY <3>2
    <3> QED BY <3>3
  <2> HIDE DEF Step, f
  <2> QED BY <2>2
<1>8. \A k \in 1..Len(t) : returns[k] <=> x[k] \notin kept
  <2> DEFINE S == {l \in 0..Len(t) : \A k \in 1..Len(t) :
                                       k + l = Len(t) => (returns[k] <=> x[k] \notin kept)}
  <2> HIDE DEF returns, Step
  <2>1. 0 \in S
    <3> SUFFICES ASSUME NEW k \in 1..Len(t), k + 0 = Len(t)
                 PROVE  returns[k] <=> x[k] \notin kept
      BY <1>2
    <3>1. k = Len(t)
      BY <1>2
    <3> QED BY <1>6, <1>7, <3>1
  <2>2. ASSUME NEW l \in 0..(Len(t) - 1), l \in S PROVE l + 1 \in S
    <3> SUFFICES ASSUME NEW k \in 1..Len(t), k + (l + 1) = Len(t)
                 PROVE  returns[k] <=> x[k] \notin kept
      BY <1>2
    <3>1. k + 1 \in 1..Len(t) /\ (k + 1) + l = Len(t)
      BY <1>2
    <3>2. returns[k + 1] <=> x[k + 1] \notin kept
      BY <2>2, <3>1
    <3> QED BY <1>6, <1>7, <3>2
  <2>3. \A l \in 0..Len(t) : l \in S
    <3> HIDE DEF S
    <3> QED BY <1>2, <2>1, <2>2, Induction
  <2> SUFFICES ASSUME NEW k \in 1..Len(t) PROVE returns[k] <=> x[k] \notin kept
    OBVIOUS
  <2>4. Len(t) - k \in 0..Len(t) /\ k + (Len(t) - k) = Len(t)
    BY <1>2
  <2> QED BY <2>3, <2>4
<1> HIDE DEF returns, Step
<1>9. Freed(t) = {x[k] : k \in {k \in 1..Len(t) : x[k] \notin kept}}
  BY <1>1, <1>8
<1>10. Prefixes(t) = {x[k] : k \in 0..Len(t)}
  BY <1>3, PrefixesAreCuts
<1>11. x[0] = Root /\ Root \in kept
  BY <1>2, <1>3, CutFacts DEF kept, Needed
<1>12. nodes = kept \cup Prefixes(t)
  BY NeededByOthers DEF kept
<1>13. ASSUME NEW y PROVE y \in Freed(t) <=> y \in nodes \ kept
  <2>1. \A k \in 0..Len(t) : k = 0 \/ k \in 1..Len(t)
    BY <1>2
  <2>2. \A k \in 1..Len(t) : k \in 0..Len(t)
    BY <1>2
  <2> QED BY <1>9, <1>10, <1>11, <1>12, <2>1, <2>2
<1> QED BY <1>13 DEF kept

-----------------------------------------------------------------------------
(* The inductive invariant.                                                 *)

WordsAreTopics ==
  end_of_word \in SUBSET Topics /\ \A t \in end_of_word : Spelled(t)

(* Also those of an insertion that did not end well.                        *)
NodesHaveParents ==
  IsFiniteSet(nodes) /\ \A y \in nodes \ {Root} : Front(y) \in nodes

TrieInv == WordsAreTopics /\ NodesHaveParents /\ TrieShape

(* A shorter way to say TrieShape.                                          *)
LEMMA Shape ==
  ASSUME NEW W, NEW N
  PROVE  N = {Root} \cup UNION {Prefixes(t) : t \in W} <=> N = Needed(W)
BY DEF Needed

LEMMA TrieInit == Init => TrieInv
<1> SUFFICES ASSUME Init PROVE TrieInv
  OBVIOUS
<1>1. Born(Root, nodes) = 0
  <2>1. {y \in nodes \ {Root} : Front(y) = Root} = {}
    BY DEF Init
  <2> QED BY <2>1, FS_EmptySet DEF Born
<1>2. IsFiniteSet(nodes) /\ n_Nodes = Cardinality(nodes)
  BY FS_Singleton DEF Init
<1>3. \A x \in nodes : n_children[x] = Born(x, nodes)
  BY <1>1 DEF Init
<1> QED BY <1>2, <1>3 DEF Init, TrieInv, TrieShape, WordsAreTopics, NodesHaveParents

LEMMA SpelledPrefix ==
  ASSUME NEW s \in Words, Spelled(s), NEW x \in Prefixes(s)
  PROVE  Spelled(x)
<1> PICK k \in 0..Len(s) : x = Cut(s, k)
  BY PrefixesAreCuts
<1>1. Len(x) = k /\ \A n \in 1..k : x[n] = s[n]
  BY CutFacts
<1>2. \A n \in 1..k : n \in 1..Len(s)
  BY LenProperties DEF Words
<1> QED BY <1>1, <1>2 DEF Spelled, ToSet

LEMMA TrieInsert ==
  ASSUME TrieInv, NEW t \in Topics, add_subscription(t)
  PROVE  TrieInv'
<1>0. PICK path : path = {x \in Prefixes(t) : Spelled(x)}
  OBVIOUS
<1>1. /\ nodes' = nodes \cup path
      /\ n_children' = n_children_with(path)
      /\ n_Nodes' = n_Nodes + Cardinality(path \ nodes)
      /\ t \in path => end_of_word' = end_of_word \cup {t}
      /\ t \notin path => alive' = FALSE /\ end_of_word' = end_of_word
      /\ alive
  BY <1>0 DEF add_subscription, trie_insert
<1>2. t \in Words /\ end_of_word \in SUBSET Words
  BY TopicsAreWords DEF TrieInv, WordsAreTopics
<1>3. /\ t \in path => Spelled(t) /\ path = Prefixes(t)
      /\ path \subseteq Prefixes(t) /\ IsFiniteSet(path)
  BY <1>0, <1>2, SpelledPrefix, PrefixFacts, FS_Subset
<1>4. ASSUME NEW y \in path \ {Root} PROVE Front(y) \in path
  <2>1. y \in Prefixes(t) \ {Root} /\ Spelled(y)
    BY <1>0
  <2>2. Front(y) \in Prefixes(t)
    BY <1>2, <2>1, ParentOnPath
  <2>3. Front(y) \in Prefixes(y)
    <3>1. y \in Words /\ y \in Prefixes(y)
      BY <1>2, <2>1, PrefixFacts
    <3> QED BY <2>1, <3>1, ParentOnPath
  <2>4. Spelled(Front(y))
    BY <1>2, <2>1, <2>3, SpelledPrefix, PrefixFacts
  <2> QED BY <1>0, <2>2, <2>4
<1>5. WordsAreTopics'
  BY <1>1, <1>3 DEF TrieInv, WordsAreTopics, Spelled
<1>6. IsFiniteSet(nodes) /\ IsFiniteSet(path \ nodes) /\ nodes \cap (path \ nodes) = {}
      /\ nodes \cup (path \ nodes) = nodes \cup path
  BY <1>3, FS_Difference DEF TrieInv, NodesHaveParents
<1>7. NodesHaveParents'
  <2>1. IsFiniteSet(nodes')
    BY <1>1, <1>3, <1>6, FS_Union
  <2> QED BY <1>1, <1>4, <2>1 DEF TrieInv, NodesHaveParents
<1>8. nodes = Needed(end_of_word)
  BY <1>1, Shape DEF TrieInv, TrieShape
<1>9. /\ Needed(end_of_word') \subseteq nodes'
      /\ alive' => nodes' = Needed(end_of_word')
  BY <1>1, <1>3, <1>8 DEF Needed
<1>10. DOMAIN n_children' = nodes'
  BY <1>1 DEF n_children_with
<1>11. ASSUME NEW x \in nodes' PROVE n_children'[x] = Born(x, nodes')
  <2>1. n_children'[x] = (IF x \in nodes THEN n_children[x] ELSE 0) + Born(x, path \ nodes)
    BY <1>1 DEF n_children_with
  <2>2. Born(x, nodes') = Born(x, nodes) + Born(x, path \ nodes)
    BY <1>1, <1>3, <1>6, BornMore
  <2>3. x \in nodes => n_children[x] = Born(x, nodes)
    BY DEF TrieInv, TrieShape
  <2>4. x \notin nodes => Born(x, nodes) = 0
    <3> SUFFICES ASSUME x \notin nodes PROVE Born(x, nodes) = 0
      OBVIOUS
    <3>1. {y \in nodes \ {Root} : Front(y) = x} = {}
      BY DEF TrieInv, NodesHaveParents
    <3> QED BY <3>1, FS_EmptySet DEF Born
  <2> QED BY <2>1, <2>2, <2>3, <2>4
<1>12. n_Nodes' = Cardinality(nodes')
  <2>1. Cardinality(nodes \cup (path \ nodes)) =
          Cardinality(nodes) + Cardinality(path \ nodes) - Cardinality({})
    BY <1>6, FS_Union
  <2>2. Cardinality({}) = 0 /\ Cardinality(nodes) \in Nat /\ Cardinality(path \ nodes) \in Nat
    BY <1>6, FS_EmptySet, FS_CardinalityType
  <2>3. n_Nodes = Cardinality(nodes)
    BY DEF TrieInv, TrieShape
  <2>4. Cardinality(nodes \cup (path \ nodes)) = n_Nodes + Cardinality(path \ nodes)
    BY <2>1, <2>2, <2>3
  <2> QED BY <1>1, <1>6, <2>4
<1>13. TrieShape'
  BY <1>9, <1>10, <1>11, <1>12 DEF TrieShape, Needed
<1> QED BY <1>5, <1>7, <1>13 DEF TrieInv

LEMMA TrieRemove ==
  ASSUME TrieInv, alive, NEW t \in Topics, trie_search(t), trie_remove(t)
  PROVE  TrieInv' /\ end_of_word' = end_of_word \ {t}
<1>0. PICK freed : freed = Freed(t)
  OBVIOUS
<1>1. /\ nodes' = nodes \ freed
      /\ end_of_word' = end_of_word \ {t}
      /\ n_children' = [x \in nodes \ freed |-> n_children[x] - Born(x, freed)]
      /\ n_Nodes' = n_Nodes - Cardinality(freed)
  BY <1>0 DEF trie_remove
<1>2. t \in end_of_word /\ end_of_word \in SUBSET Words /\ IsFiniteSet(nodes)
      /\ \A x \in nodes : n_children[x] = Born(x, nodes)
  BY TopicsAreWords DEF TrieInv, WordsAreTopics, NodesHaveParents, TrieShape, trie_search
<1>3. nodes = Needed(end_of_word)
  BY Shape DEF TrieInv, TrieShape
<1>4. freed = nodes \ Needed(end_of_word \ {t})
  BY <1>0, <1>2, <1>3, FreedIs
<1>5. Needed(end_of_word \ {t}) \subseteq nodes
  BY <1>2, <1>3, NeededByOthers
<1>6. nodes' = Needed(end_of_word')
  BY <1>1, <1>4, <1>5
<1>7. freed \in SUBSET nodes /\ IsFiniteSet(freed)
  BY <1>2, <1>4, FS_Subset
<1>8. WordsAreTopics'
  BY <1>1 DEF TrieInv, WordsAreTopics, Spelled
<1>9. NodesHaveParents'
  <2>1. IsFiniteSet(nodes')
    BY <1>1, <1>2, FS_Difference
  <2>2. end_of_word' \in SUBSET Words
    BY <1>1, <1>2
  <2>3. \A y \in Needed(end_of_word') \ {Root} : Front(y) \in Needed(end_of_word')
    BY <2>2, NeededFacts
  <2> QED BY <1>6, <2>1, <2>3 DEF NodesHaveParents
<1>10. ASSUME NEW x \in nodes' PROVE n_children'[x] = Born(x, nodes')
  <2>1. n_children'[x] = n_children[x] - Born(x, freed) /\ x \in nodes
    BY <1>1
  <2> QED BY <1>1, <1>2, <1>7, <2>1, BornLess
<1>11. n_Nodes' = Cardinality(nodes')
  <2>1. Cardinality(nodes \ freed) = Cardinality(nodes) - Cardinality(nodes \cap freed)
    BY <1>2, FS_Difference
  <2>2. nodes \cap freed = freed
    BY <1>7
  <2>3. n_Nodes = Cardinality(nodes)
    BY DEF TrieInv, TrieShape
  <2> QED BY <1>1, <2>1, <2>2, <2>3
<1>12. DOMAIN n_children' = nodes'
  BY <1>1
<1>13. TrieShape'
  BY <1>6, <1>10, <1>11, <1>12 DEF TrieShape, Needed
<1> QED BY <1>1, <1>8, <1>9, <1>13 DEF TrieInv

LEMMA TrieStep == TrieInv /\ [Next]_vars => TrieInv'
<1> SUFFICES ASSUME TrieInv, [Next]_vars PROVE TrieInv'
  OBVIOUS
<1>1. CASE UNCHANGED vars
  <2> USE <1>1 DEF vars
  <2>1. WordsAreTopics' /\ NodesHaveParents'
    BY DEF TrieInv, WordsAreTopics, NodesHaveParents
  <2>2. TrieShape'
    BY DEF TrieInv, TrieShape
  <2> QED BY <2>1, <2>2 DEF TrieInv
<1>2. ASSUME NEW t \in Topics, add_subscription(t) PROVE TrieInv'
  BY <1>2, TrieInsert
<1>3. ASSUME NEW t \in Topics, rmv_subscription(t) PROVE TrieInv'
  <2>1. CASE trie_search(t) /\ trie_remove(t)
    BY <1>3, <2>1, TrieRemove DEF rmv_subscription
  <2>2. CASE alive' = FALSE /\ UNCHANGED <<nodes, end_of_word, n_children, n_Nodes, size>>
    <3>1. WordsAreTopics' /\ NodesHaveParents'
      BY <2>2 DEF TrieInv, WordsAreTopics, NodesHaveParents
    <3>2. TrieShape'
      BY <2>2 DEF TrieInv, TrieShape
    <3> QED BY <3>1, <3>2 DEF TrieInv
  <2> QED BY <1>3, <2>1, <2>2 DEF rmv_subscription
<1> QED BY <1>1, <1>2, <1>3 DEF Next

THEOREM TrieInvariance == Spec => []TrieInv
<1> QED BY TrieInit, TrieStep, PTL DEF Spec

(* The nodes and the counters of trie.c are those its words need, in every  *)
(* state of every sequence of insertions and removals, whatever prefixes    *)
(* the topics share.                                                        *)
THEOREM NodesOfWords == Spec => []TrieShape
<1>1. TrieInv => TrieShape
  BY DEF TrieInv
<1> QED BY <1>1, TrieInvariance, PTL

-----------------------------------------------------------------------------
(* The trie is a set.                                                       *)

(* trie_search finds the words and nothing else.                            *)
LEMMA FoundAreWords ==
  TrieInv => {t \in Topics : trie_search(t)} = end_of_word
<1> SUFFICES ASSUME TrieInv PROVE {t \in Topics : trie_search(t)} = end_of_word
  OBVIOUS
<1>1. end_of_word \in SUBSET Topics
  BY DEF TrieInv, WordsAreTopics
<1>2. \A t \in end_of_word : Prefixes(t) \subseteq nodes
  BY DEF TrieInv, TrieShape
<1> QED BY <1>1, <1>2 DEF trie_search

(* A topic with a letter outside the alphabet is not in the trie.           *)
LEMMA StrayIsNoWord ==
  ASSUME TrieInv, NEW t \in Topics, StrayRead(t)
  PROVE  t \notin end_of_word
<1>1. Len(t) \in Nat
  BY TopicsAreWords, LenProperties DEF Words
<1>2. PICK l \in 0..(Len(t) - 1) : t[l + 1] \notin Letters
  BY DEF StrayRead
<1>3. l + 1 \in 1..Len(t)
  BY <1>1
<1>4. ~Spelled(t)
  BY <1>2, <1>3 DEF Spelled, ToSet
<1> QED BY <1>4 DEF TrieInv, WordsAreTopics

(* The trie of a subscriber is the set of the topics that were subscribed   *)
(* to and not unsubscribed from.                                            *)
THEOREM TrieIsASet == Spec => ImplementsSet
<1>1. Init => Abstract!Init
  <2> SUFFICES ASSUME Init PROVE Abstract!Init
    OBVIOUS
  <2>1. TrieInv
    BY TrieInit
  <2>2. {t \in Topics : trie_search(t)} = {}
    BY <2>1, FoundAreWords DEF Init
  <2> QED BY <2>2 DEF Abstract!Init
<1>2. TrieInv' => ({t \in Topics : trie_search(t)} = end_of_word)'
  BY FoundAreWords, PTL
<1>3. TrieInv /\ TrieInv' /\ [Next]_vars =>
        [\A t \in Topics : /\ add_subscription(t) /\ alive' => Abstract!Add(t)
                           /\ rmv_subscription(t) => Abstract!Remove(t)]_vars
  <2> SUFFICES ASSUME TrieInv, TrieInv', NEW t \in Topics
               PROVE  /\ add_subscription(t) /\ alive' => Abstract!Add(t)
                      /\ rmv_subscription(t) => Abstract!Remove(t)
    OBVIOUS
  <2>1. {u \in Topics : trie_search(u)} = end_of_word
    BY FoundAreWords
  <2>2. {u \in Topics : trie_search(u)}' = end_of_word'
    BY <1>2
  <2>3. ASSUME add_subscription(t), alive' PROVE Abstract!Add(t)
    <3>1. end_of_word' = end_of_word \cup {t}
      BY <2>3 DEF add_subscription, trie_insert
    <3> QED BY <2>1, <2>2, <3>1 DEF Abstract!Add
  <2>4. ASSUME rmv_subscription(t) PROVE Abstract!Remove(t)
    <3>1. end_of_word' = end_of_word \ {t}
      BY <2>4, StrayIsNoWord DEF rmv_subscription, trie_remove
    <3> QED BY <2>1, <2>2, <3>1 DEF Abstract!Remove
  <2> QED BY <2>3, <2>4
<1> QED BY <1>1, <1>3, TrieInvariance, PTL DEF Spec, ImplementsSet

-----------------------------------------------------------------------------
(* The levels of topics and patterns, over any characters A.                *)

LEMMA LeastOf ==
  ASSUME NEW S \in SUBSET Nat, S # {}
  PROVE  Min(S) \in S /\ \A n \in S : Min(S) <= n
<1>1. \E n \in S : \A m \in S : n <= m
  BY LeastNumber
<1> QED BY <1>1 DEF Min

LEMMA SlashFacts ==
  ASSUME NEW A, NEW t \in Seq(A), NEW c \in Slashes(t), c # Len(t) + 1
  PROVE  /\ Len(t) \in Nat /\ c \in 0..Len(t) /\ Slashes(t) \subseteq 0..(Len(t) + 1)
         /\ 0 \in Slashes(t) /\ Len(t) + 1 \in Slashes(t)
         /\ NextSlash(t, c) \in Slashes(t) /\ c < NextSlash(t, c)
         /\ \A d \in Slashes(t) : c < d => NextSlash(t, c) <= d
<1>1. /\ Len(t) \in Nat /\ Slashes(t) \subseteq 0..(Len(t) + 1)
      /\ 0 \in Slashes(t) /\ Len(t) + 1 \in Slashes(t)
  BY LenProperties DEF Slashes
<1> DEFINE S == {d \in Slashes(t) : d > c}
<1>2. S \in SUBSET Nat /\ Len(t) + 1 \in S
  BY <1>1
<1>3. Min(S) \in S /\ \A n \in S : Min(S) <= n
  <2> HIDE DEF S
  <2> QED BY <1>2, LeastOf
<1>4. NextSlash(t, c) = Min(S)
  BY DEF NextSlash
<1> QED BY <1>1, <1>3, <1>4

LEMMA LevelFacts ==
  ASSUME NEW A, NEW t \in Seq(A), NEW c \in Slashes(t), c # Len(t) + 1
  PROVE  /\ Level(t, c) \in Seq(A)
         /\ Len(Level(t, c)) = NextSlash(t, c) - 1 - c
         /\ \A i \in 1..(NextSlash(t, c) - 1 - c) : Level(t, c)[i] = t[c + i] /\ t[c + i] # "/"
<1>1. /\ Len(t) \in Nat /\ c \in 0..Len(t) /\ NextSlash(t, c) \in 1..(Len(t) + 1)
      /\ c < NextSlash(t, c) /\ \A d \in Slashes(t) : c < d => NextSlash(t, c) <= d
  BY SlashFacts
<1> PICK e : e = NextSlash(t, c)
  OBVIOUS
<1>2. \A i \in (c + 1)..(e - 1) : t[i] \in A /\ t[i] # "/"
  <2> SUFFICES ASSUME NEW i \in (c + 1)..(e - 1) PROVE t[i] \in A /\ t[i] # "/"
    OBVIOUS
  <2>1. i \in 1..Len(t) /\ i \in 1..(Len(t) + 1) /\ c < i /\ i < e
    BY <1>1
  <2>2. i \notin Slashes(t)
    BY <1>1, <2>1
  <2> QED BY <2>1, <2>2, ElementOfSeq DEF Slashes
<1>3. c + 1 \in Int /\ e - 1 \in Int
  BY <1>1
<1>4. PICK l : l = SubSeq(t, c + 1, e - 1)
  OBVIOUS
<1>5. /\ l \in Seq(A)
      /\ Len(l) = IF c + 1 <= e - 1 THEN (e - 1) - (c + 1) + 1 ELSE 0
      /\ \A i \in 1..((e - 1) - (c + 1) + 1) : l[i] = t[(c + 1) + i - 1]
  BY <1>2, <1>3, <1>4, SubSeqProperties
<1>6. Len(l) = e - 1 - c
  BY <1>1, <1>5
<1>7. ASSUME NEW i \in 1..(e - 1 - c) PROVE l[i] = t[c + i] /\ t[c + i] # "/"
  <2>1. i \in 1..((e - 1) - (c + 1) + 1) /\ (c + 1) + i - 1 = c + i /\ c + i \in (c + 1)..(e - 1)
    BY <1>1
  <2> QED BY <1>2, <1>5, <2>1
<1> QED BY <1>4, <1>5, <1>6, <1>7 DEF Level

(* A pattern up to the end of one of its levels is what is before the level *)
(* and the level.                                                           *)
LEMMA UpToLevel ==
  ASSUME NEW A, NEW p \in Seq(A), NEW b \in Slashes(p), b # Len(p) + 1
  PROVE  SubSeq(p, 1, b) \o Level(p, b) = SubSeq(p, 1, NextSlash(p, b) - 1)
<1>1. /\ 1 \in 1..(Len(p) + 1) /\ b \in (1 - 1)..Len(p) /\ NextSlash(p, b) - 1 \in b..Len(p)
  BY SlashFacts
<1> QED BY <1>1, ConcatAdjacentSubSeq DEF Level

NoSlash(l) == \A i \in 1..Len(l) : l[i] # "/"

EndsBeforeLevel(y) == Len(y) # 0 => y[Len(y)] = "/"

(* Conversely, if what is before a slash of a pattern ends with a level l,  *)
(* the pattern has this level there.                                        *)
LEMMA LevelBefore ==
  ASSUME NEW A, NEW p \in Seq(A), NEW e \in Slashes(p) \ {0}, NEW y \in Seq(A), NEW l \in Seq(A),
         SubSeq(p, 1, e - 1) = y \o l, NoSlash(l), EndsBeforeLevel(y)
  PROVE  /\ Len(y) \in Slashes(p) /\ Len(y) # Len(p) + 1
         /\ NextSlash(p, Len(y)) = e
         /\ Level(p, Len(y)) = l
         /\ SubSeq(p, 1, Len(y)) = y
<1>0. PICK b : b = Len(y)
  OBVIOUS
<1>1. /\ Len(p) \in Nat /\ b \in Nat /\ Len(l) \in Nat /\ e \in 1..(Len(p) + 1)
  BY <1>0, LenProperties DEF Slashes
<1>2. PICK u : u = SubSeq(p, 1, e - 1)
  OBVIOUS
<1>3. u \in Seq(A) /\ Len(u) = e - 1 /\ \A i \in 1..(e - 1) : u[i] = p[i]
  <2>1. \A i \in 1..(e - 1) : p[i] \in A
    BY <1>1, ElementOfSeq
  <2>2. 1 \in Int /\ e - 1 \in Int
    BY <1>1
  <2>3. /\ u \in Seq(A) /\ Len(u) = IF 1 <= e - 1 THEN (e - 1) - 1 + 1 ELSE 0
        /\ \A i \in 1..((e - 1) - 1 + 1) : u[i] = p[1 + i - 1]
    BY <1>2, <2>1, <2>2, SubSeqProperties
  <2> QED BY <1>1, <2>3
<1>4. /\ Len(u) = b + Len(l)
      /\ \A i \in 1..(b + Len(l)) : u[i] = IF i <= b THEN y[i] ELSE l[i - b]
  <2>1. /\ Len(y \o l) = Len(y) + Len(l)
        /\ \A i \in 1..(Len(y) + Len(l)) :
             (y \o l)[i] = IF i <= Len(y) THEN y[i] ELSE l[i - Len(y)]
    BY ConcatProperties
  <2> QED BY <1>0, <1>2, <2>1
<1>5. e = b + Len(l) + 1 /\ b # Len(p) + 1 /\ b \in 0..Len(p)
  <2>1. e - 1 = b + Len(l)
    BY <1>3, <1>4
  <2> QED BY <1>1, <2>1
<1>6. \A i \in 1..b : p[i] = y[i]
  <2> SUFFICES ASSUME NEW i \in 1..b PROVE p[i] = y[i]
    OBVIOUS
  <2>1. i \in 1..(e - 1) /\ i \in 1..(b + Len(l)) /\ i <= b
    BY <1>1, <1>5
  <2> QED BY <1>3, <1>4, <2>1
<1>7. \A i \in 1..Len(l) : p[b + i] = l[i]
  <2> SUFFICES ASSUME NEW i \in 1..Len(l) PROVE p[b + i] = l[i]
    OBVIOUS
  <2>1. b + i \in 1..(e - 1) /\ b + i \in 1..(b + Len(l)) /\ ~(b + i <= b) /\ (b + i) - b = i
    BY <1>1, <1>5
  <2> QED BY <1>3, <1>4, <2>1
<1>8. b \in Slashes(p)
  <2>1. CASE b = 0
    BY <2>1 DEF Slashes
  <2>2. CASE b # 0
    <3>1. b \in 1..b /\ b \in 1..(Len(p) + 1)
      BY <1>1, <1>5, <2>2
    <3>2. p[b] = "/"
      BY <1>0, <1>6, <2>2, <3>1 DEF EndsBeforeLevel
    <3> QED BY <3>1, <3>2 DEF Slashes
  <2> QED BY <2>1, <2>2
<1>9. NextSlash(p, b) = e
  <2>1. /\ NextSlash(p, b) \in Slashes(p) /\ b < NextSlash(p, b)
        /\ \A d \in Slashes(p) : b < d => NextSlash(p, b) <= d
        /\ NextSlash(p, b) \in 0..(Len(p) + 1)
    BY <1>5, <1>8, SlashFacts
  <2>2. NextSlash(p, b) <= e
    BY <1>1, <1>5, <2>1
  <2>3. ASSUME NextSlash(p, b) < e PROVE FALSE
    <3>1. PICK i : i = NextSlash(p, b) - b
      OBVIOUS
    <3>2. i \in 1..Len(l) /\ NextSlash(p, b) = b + i /\ b + i # 0 /\ b + i # Len(p) + 1
      <4>1. PICK f : f = NextSlash(p, b)
        OBVIOUS
      <4>2. f \in 0..(Len(p) + 1) /\ b < f /\ f < e /\ i = f - b
        BY <2>1, <2>3, <3>1, <4>1
      <4>3. i \in Int /\ i >= 1 /\ i <= Len(l)
        BY <1>1, <1>5, <4>2
      <4>4. f = b + i /\ f # 0 /\ f # Len(p) + 1
        BY <1>1, <4>2
      <4> QED BY <1>1, <4>1, <4>3, <4>4
    <3>3. p[b + i] # "/"
      BY <1>7, <3>2 DEF NoSlash
    <3> QED BY <2>1, <3>2, <3>3 DEF Slashes
  <2> QED BY <1>1, <2>1, <2>2, <2>3
<1>10. Level(p, b) = l
  <2>1. /\ Level(p, b) \in Seq(A) /\ Len(Level(p, b)) = e - 1 - b
        /\ \A i \in 1..(e - 1 - b) : Level(p, b)[i] = p[b + i]
    <3>1. /\ Level(p, b) \in Seq(A) /\ Len(Level(p, b)) = NextSlash(p, b) - 1 - b
          /\ \A i \in 1..(NextSlash(p, b) - 1 - b) : Level(p, b)[i] = p[b + i]
      BY <1>5, <1>8, LevelFacts
    <3> QED BY <1>9, <3>1
  <2>2. e - 1 - b = Len(l)
    BY <1>1, <1>5
  <2>3. Len(Level(p, b)) = Len(l) /\ \A i \in 1..Len(Level(p, b)) : Level(p, b)[i] = l[i]
    BY <1>7, <2>1, <2>2
  <2> QED BY <2>1, <2>3, SeqEqual
<1>11. SubSeq(p, 1, b) = y
  <2>1. \A i \in 1..b : p[i] \in A
    BY <1>1, <1>5, ElementOfSeq
  <2>2. PICK v : v = SubSeq(p, 1, b)
    OBVIOUS
  <2>3. /\ v \in Seq(A) /\ Len(v) = IF 1 <= b THEN b - 1 + 1 ELSE 0
        /\ \A i \in 1..(b - 1 + 1) : v[i] = p[1 + i - 1]
    BY <1>1, <2>1, <2>2, SubSeqProperties
  <2>4. Len(v) = b /\ \A i \in 1..b : v[i] = y[i]
    BY <1>1, <1>6, <2>3
  <2>5. Len(v) = Len(y) /\ \A i \in 1..Len(v) : v[i] = y[i]
    BY <1>0, <2>4
  <2> QED BY <2>2, <2>3, <2>5, SeqEqual
<1> QED BY <1>0, <1>5, <1>8, <1>9, <1>10, <1>11

(* Where the loops over the letters of a level of the topic stop.           *)
LEMMA StopsAreSlashes ==
  ASSUME NEW A, NEW t \in Seq(A), NEW c \in Slashes(t), c # Len(t) + 1, Level(t, c) # <<>>
  PROVE  /\ c < NextSlash(t, c) - 1
         /\ FirstEnd(t, c) = NextSlash(t, c) - 1
         /\ \A d \in Slashes(t) : c < d => d - 1 \in StarStops(t, c)
         /\ \A n \in StarStops(t, c) : n + 1 \in Slashes(t) /\ c < n + 1
<1>1. PICK e : e = NextSlash(t, c)
  OBVIOUS
<1>2. /\ Len(t) \in Nat /\ c \in 0..Len(t)
      /\ e \in Slashes(t) /\ c < e /\ e \in 0..(Len(t) + 1)
      /\ \A d \in Slashes(t) : d \in 0..(Len(t) + 1) /\ (c < d => e <= d)
  BY <1>1, SlashFacts
<1>3. c < e - 1
  <2>1. Level(t, c) \in Seq(A) /\ Len(Level(t, c)) = e - 1 - c
    BY <1>1, LevelFacts
  <2>2. Len(Level(t, c)) \in Nat \ {0}
    BY <2>1, EmptySeq
  <2> QED BY <1>2, <2>1, <2>2
<1>4. ASSUME NEW d \in Slashes(t), c < d PROVE d - 1 \in LevelEnds(t, c) \ {c}
  <2>1. d - 1 \in c..Len(t) /\ d - 1 # c /\ (d - 1) + 1 = d /\ d \in 0..(Len(t) + 1)
    BY <1>2, <1>3, <1>4
  <2>2. d = Len(t) + 1 => d - 1 = Len(t)
    BY <1>2
  <2> QED BY <1>2, <1>4, <2>1, <2>2 DEF LevelEnds, Slashes
<1>5. ASSUME NEW n \in LevelEnds(t, c) PROVE n + 1 \in Slashes(t) /\ c < n + 1 /\ n \in Nat
  <2>1. n \in c..Len(t) /\ (n = Len(t) \/ t[n + 1] = "/")
    BY DEF LevelEnds
  <2>2. n + 1 \in 1..(Len(t) + 1) /\ c < n + 1 /\ n \in Nat
    BY <1>2, <2>1
  <2> QED BY <2>1, <2>2 DEF Slashes
<1>6. FirstEnd(t, c) = e - 1
  <2>1. LevelEnds(t, c) \in SUBSET Nat /\ e - 1 \in LevelEnds(t, c)
    BY <1>2, <1>4, <1>5
  <2>2. FirstEnd(t, c) \in LevelEnds(t, c) /\ \A n \in LevelEnds(t, c) : FirstEnd(t, c) <= n
    BY <2>1, LeastOf DEF FirstEnd
  <2>3. PICK n : n = FirstEnd(t, c)
    OBVIOUS
  <2>4. n \in Nat /\ e <= n + 1 /\ n <= e - 1
    BY <1>2, <1>5, <2>1, <2>2, <2>3
  <2> QED BY <1>2, <2>3, <2>4
<1> QED BY <1>1, <1>3, <1>4, <1>5, <1>6 DEF StarStops

-----------------------------------------------------------------------------
(* The cut of a topic into pieces, from a level of the pattern on.          *)

CoversFrom(p, b, t, c) ==
  \E cut \in [Slashes(p) -> Slashes(t)] :
    /\ cut[b] = c /\ cut[Len(p) + 1] = Len(t) + 1
    /\ \A n \in Slashes(p) \ {Len(p) + 1} :
         b <= n => CoversLevel(p, n, t, cut[n], cut[NextSlash(p, n)])

LEMMA CoversAll ==
  ASSUME NEW A, NEW p \in Seq(A), NEW t
  PROVE  CoversByLevels(p, t) <=> CoversFrom(p, 0, t, 0)
<1>1. \A n \in Slashes(p) : 0 <= n
  BY LenProperties DEF Slashes
<1> QED BY <1>1 DEF CoversByLevels, CoversFrom

LEMMA CoversEnd ==
  ASSUME NEW A, NEW p \in Seq(A), NEW t \in Seq(A), NEW b \in Slashes(p), NEW c \in Slashes(t)
  PROVE  /\ c = Len(t) + 1 => (CoversFrom(p, b, t, c) <=> b = Len(p) + 1)
         /\ b = Len(p) + 1 /\ CoversFrom(p, b, t, c) => c = Len(t) + 1
<1>1. /\ Len(p) \in Nat /\ Len(t) \in Nat
      /\ \A n \in Slashes(p) : n \in 0..(Len(p) + 1)
      /\ \A n \in Slashes(t) : n \in 0..(Len(t) + 1)
      /\ Len(t) + 1 \in Slashes(t)
  BY LenProperties DEF Slashes
<1>2. ASSUME b # Len(p) + 1, CoversFrom(p, b, t, c) PROVE c # Len(t) + 1
  <2>1. NextSlash(p, b) \in Slashes(p)
    BY <1>2, SlashFacts
  <2>2. PICK cut \in [Slashes(p) -> Slashes(t)] :
          cut[b] = c /\ CoversLevel(p, b, t, cut[b], cut[NextSlash(p, b)])
    BY <1>1, <1>2 DEF CoversFrom
  <2>3. cut[NextSlash(p, b)] \in 0..(Len(t) + 1) /\ c < cut[NextSlash(p, b)]
    BY <1>1, <2>1, <2>2 DEF CoversLevel
  <2> QED BY <1>1, <2>3
<1>3. ASSUME b = Len(p) + 1, c = Len(t) + 1 PROVE CoversFrom(p, b, t, c)
  <2> DEFINE cut == [n \in Slashes(p) |-> Len(t) + 1]
  <2>1. cut \in [Slashes(p) -> Slashes(t)] /\ cut[b] = c /\ cut[Len(p) + 1] = Len(t) + 1
    BY <1>1, <1>3
  <2>2. \A n \in Slashes(p) \ {Len(p) + 1} : ~(b <= n)
    BY <1>1, <1>3
  <2> HIDE DEF cut
  <2> QED BY <2>1, <2>2 DEF CoversFrom
<1>4. ASSUME b = Len(p) + 1, CoversFrom(p, b, t, c) PROVE c = Len(t) + 1
  BY <1>4 DEF CoversFrom
<1> QED BY <1>2, <1>3, <1>4

LEMMA CoversMore ==
  ASSUME NEW A, NEW p \in Seq(A), NEW t \in Seq(A),
         NEW b \in Slashes(p), b # Len(p) + 1, NEW c \in Slashes(t)
  PROVE  CoversFrom(p, b, t, c) <=>
           \E d \in Slashes(t) : CoversLevel(p, b, t, c, d) /\ CoversFrom(p, NextSlash(p, b), t, d)
<1>1. PICK f : f = NextSlash(p, b)
  OBVIOUS
<1>2. /\ Len(p) \in Nat /\ b \in 0..Len(p) /\ f \in Slashes(p) /\ b < f
      /\ Len(p) + 1 \in Slashes(p)
      /\ \A n \in Slashes(p) : n \in 0..(Len(p) + 1) /\ (b < n => f <= n)
  BY <1>1, SlashFacts
<1>3. ASSUME CoversFrom(p, b, t, c)
      PROVE  \E d \in Slashes(t) : CoversLevel(p, b, t, c, d) /\ CoversFrom(p, f, t, d)
  <2>1. PICK cut \in [Slashes(p) -> Slashes(t)] :
          /\ cut[b] = c /\ cut[Len(p) + 1] = Len(t) + 1
          /\ \A n \in Slashes(p) \ {Len(p) + 1} :
               b <= n => CoversLevel(p, n, t, cut[n], cut[NextSlash(p, n)])
    BY <1>3 DEF CoversFrom
  <2>2. cut[f] \in Slashes(t) /\ CoversLevel(p, b, t, c, cut[f])
    BY <1>1, <1>2, <2>1
  <2>3. \A n \in Slashes(p) \ {Len(p) + 1} :
          f <= n => CoversLevel(p, n, t, cut[n], cut[NextSlash(p, n)])
    BY <1>2, <2>1
  <2>4. CoversFrom(p, f, t, cut[f])
    BY <2>1, <2>3 DEF CoversFrom
  <2> QED BY <2>2, <2>4
<1>4. ASSUME NEW d \in Slashes(t), CoversLevel(p, b, t, c, d), CoversFrom(p, f, t, d)
      PROVE  CoversFrom(p, b, t, c)
  <2>1. PICK cut \in [Slashes(p) -> Slashes(t)] :
          /\ cut[f] = d /\ cut[Len(p) + 1] = Len(t) + 1
          /\ \A n \in Slashes(p) \ {Len(p) + 1} :
               f <= n => CoversLevel(p, n, t, cut[n], cut[NextSlash(p, n)])
    BY <1>4 DEF CoversFrom
  <2> DEFINE new == [cut EXCEPT ![b] = c]
  <2>2. /\ new \in [Slashes(p) -> Slashes(t)]
        /\ \A n \in Slashes(p) : new[n] = IF n = b THEN c ELSE cut[n]
    OBVIOUS
  <2> HIDE DEF new
  <2>3. new[b] = c /\ new[f] = d /\ new[Len(p) + 1] = Len(t) + 1
    BY <1>2, <2>1, <2>2
  <2>4. ASSUME NEW n \in Slashes(p) \ {Len(p) + 1}, b <= n
        PROVE  CoversLevel(p, n, t, new[n], new[NextSlash(p, n)])
    <3>1. CASE n = b
      BY <1>1, <1>4, <2>3, <3>1
    <3>2. CASE n # b
      <4>1. f <= n
        BY <1>2, <2>4, <3>2
      <4>2. NextSlash(p, n) \in Slashes(p) /\ n < NextSlash(p, n) /\ NextSlash(p, n) \in 0..(Len(p) + 1)
        BY SlashFacts
      <4>3. NextSlash(p, n) # b
        BY <1>2, <2>4, <4>2
      <4>4. new[n] = cut[n] /\ new[NextSlash(p, n)] = cut[NextSlash(p, n)]
        BY <2>2, <3>2, <4>2, <4>3
      <4> QED BY <2>1, <4>1, <4>4
    <3> QED BY <3>1, <3>2
  <2> QED BY <2>2, <2>3, <2>4 DEF CoversFrom
<1> QED BY <1>1, <1>3, <1>4

-----------------------------------------------------------------------------
(* is_subscribed, one call of it.                                           *)

(* Where is_subscribed is called for the level behind the slash c.          *)
Before(c) == IF c = 0 THEN 0 ELSE c - 1

(* The node x is that of a pattern up to one of its levels, and the levels   *)
(* from there on cover the topic from the slash c on.                       *)
Found(t, c, x) ==
  \E p \in end_of_word : \E b \in Slashes(p) :
    /\ b = 0 <=> c = 0
    /\ x = SubSeq(p, 1, Before(b))
    /\ CoversFrom(p, b, t, c)

(* A trie that holds patterns over C, and a topic over C.                   *)
Tree(C, t) ==
  /\ end_of_word \subseteq Words /\ Words \subseteq Seq(C)
  /\ nodes = Needed(end_of_word)
  /\ {"/", "+", "*"} \subseteq C
  /\ t \in Seq(C)
  /\ NoEmptyLevel(t)

LEMMA CutsAreNodes ==
  ASSUME NEW C, NEW t, Tree(C, t), NEW p \in end_of_word, NEW k \in 0..Len(p)
  PROVE  /\ p \in Seq(C) /\ nodes \subseteq Seq(C)
         /\ SubSeq(p, 1, k) \in nodes
         /\ Len(SubSeq(p, 1, k)) = k
         /\ \A i \in 1..k : SubSeq(p, 1, k)[i] = p[i]
<1>1. p \in Words /\ end_of_word \in SUBSET Words
  BY DEF Tree
<1>2. SubSeq(p, 1, k) \in Prefixes(p)
  BY PrefixesAreCuts DEF Cut
<1>3. Prefixes(p) \subseteq nodes /\ nodes \subseteq Words
  BY <1>1, NeededFacts DEF Tree
<1> QED BY <1>1, <1>2, <1>3, CutFacts DEF Cut, Tree

(* The node that the step over a "/" leads to.                              *)
Below(x, c) == IF c = 0 THEN x ELSE Append(x, "/")

(* The three ways to go on behind it: a "+", a "*", the level of the topic.   *)
OverPlus(called, t, c, y) ==
  /\ Append(y, "+") \in nodes
  /\ called[NextSlash(t, c) - 1][Append(y, "+")]

OverStar(called, t, c, y) ==
  /\ Append(y, "*") \in nodes
  /\ \E d \in Slashes(t) : c < d /\ called[d - 1][Append(y, "*")]

OverLevel(called, t, c, y) ==
  /\ \A m \in c..(NextSlash(t, c) - 1) : y \o SubSeq(t, c + 1, m) \in nodes
  /\ called[NextSlash(t, c) - 1][y \o Level(t, c)]

LEMMA ReturnsOfLevel ==
  ASSUME NEW A, NEW t \in Seq(A), NoEmptyLevel(t), NEW c \in Slashes(t), c # Len(t) + 1,
         NEW called, NEW x
  PROVE  Returns(called, t, Before(c), x) <=>
           /\ Below(x, c) \in nodes
           /\ \/ OverPlus(called, t, c, Below(x, c))
              \/ OverStar(called, t, c, Below(x, c))
              \/ OverLevel(called, t, c, Below(x, c))
<1>1. PICK y, e : y = Below(x, c) /\ e = NextSlash(t, c)
  OBVIOUS
<1>2. Len(t) \in Nat /\ c \in 0..Len(t)
  BY SlashFacts
<1>3. /\ c < e - 1 /\ FirstEnd(t, c) = e - 1
      /\ \A d \in Slashes(t) : c < d => d - 1 \in StarStops(t, c)
      /\ \A n \in StarStops(t, c) : n + 1 \in Slashes(t) /\ c < n + 1
  <2>1. Level(t, c) # <<>>
    BY DEF NoEmptyLevel
  <2> QED BY <1>1, <2>1, StopsAreSlashes
<1>4. /\ Before(c) # Len(t)
      /\ (t[Before(c) + 1] = "/" <=> c # 0)
      /\ (c # 0 => Before(c) + 1 = c)
      /\ (c = 0 => Before(c) = c)
  <2>1. CASE c = 0
    <3>1. Len(t) # 0
      <4>1. e \in 0..(Len(t) + 1) /\ c < e
        BY <1>1, SlashFacts
      <4> QED BY <1>2, <1>3, <2>1, <4>1
    <3>2. t[c + 1] # "/"
      <4>1. 1 \in 1..(e - 1 - c)
        <5>1. e \in 0..(Len(t) + 1)
          BY <1>1, SlashFacts
        <5> QED BY <1>2, <1>3, <2>1, <5>1
      <4> QED BY <1>1, <4>1, LevelFacts
    <3> QED BY <2>1, <3>1, <3>2 DEF Before
  <2>2. CASE c # 0
    BY <1>2, <2>2 DEF Before, Slashes
  <2> QED BY <2>1, <2>2
<1>5. OverStar(called, t, c, y) <=>
        /\ Append(y, "*") \in nodes
        /\ \E n \in StarStops(t, c) : called[n][Append(y, "*")]
  <2>1. \A n \in StarStops(t, c) : (n + 1) - 1 = n
    BY <1>2 DEF StarStops, LevelEnds
  <2> QED BY <1>3, <2>1 DEF OverStar
<1>6. Returns(called, t, Before(c), x) <=>
        /\ y \in nodes
        /\ \/ /\ Append(y, "+") \in nodes
              /\ called[FirstEnd(t, c)][Append(y, "+")]
           \/ /\ Append(y, "*") \in nodes
              /\ \E n \in StarStops(t, c) : called[n][Append(y, "*")]
           \/ /\ \A m \in c..FirstEnd(t, c) : y \o SubSeq(t, c + 1, m) \in nodes
              /\ called[FirstEnd(t, c)][y \o SubSeq(t, c + 1, FirstEnd(t, c))]
  <2>1. CASE c = 0
    BY <1>1, <1>4, <2>1 DEF Returns, Below
  <2>2. CASE c # 0
    BY <1>1, <1>4, <2>2 DEF Returns, Below
  <2> QED BY <2>1, <2>2
<1> QED BY <1>1, <1>3, <1>5, <1>6 DEF OverPlus, OverLevel, Level

(* The three ways lead to nodes before the slash behind a level.            *)
LEMMA FoundBehind ==
  ASSUME NEW C, NEW t, Tree(C, t), NEW c \in Slashes(t), c # Len(t) + 1,
         NEW x \in nodes, c = 0 => x = Root,
         NEW l \in Seq(C), NoSlash(l),
         NEW d \in Slashes(t), c < d,
         Found(t, d, Below(x, c) \o l),
         l # <<"*">> => d = NextSlash(t, c),
         l \notin {<<"*">>, <<"+">>} => l = Level(t, c)
  PROVE  Found(t, c, x)
<1>1. PICK y : y = Below(x, c)
  OBVIOUS
<1>0. PICK p \in end_of_word :
        \E e \in Slashes(p) :
          (e = 0 <=> d = 0) /\ y \o l = SubSeq(p, 1, Before(e)) /\ CoversFrom(p, e, t, d)
  BY <1>1 DEF Found
<1>2. PICK e \in Slashes(p) :
        (e = 0 <=> d = 0) /\ y \o l = SubSeq(p, 1, Before(e)) /\ CoversFrom(p, e, t, d)
  BY <1>0
<1>3. p \in Seq(C) /\ p \in Words /\ t \in Seq(C) /\ x \in Seq(C) /\ "/" \in C
  <2>1. end_of_word \in SUBSET Words
    BY DEF Tree
  <2>2. nodes \subseteq Words
    BY <2>1, NeededFacts DEF Tree
  <2> QED BY <2>1, <2>2 DEF Tree
<1>4. c \in Nat /\ d \in Nat /\ d # 0
  BY <1>3, SlashFacts, LenProperties DEF Slashes
<1>5. e # 0 /\ y \o l = SubSeq(p, 1, e - 1)
  BY <1>2, <1>4 DEF Before
<1>6. y \in Seq(C) /\ (Len(y) # 0 => y[Len(y)] = "/") /\ (c # 0 => Len(y) = Len(x) + 1) /\ (c = 0 => Len(y) = 0)
  <2>1. CASE c = 0
    <3>1. y = Root /\ Len(y) = 0
      BY <1>1, <1>3, <2>1, EmptySeq DEF Below, Root
    <3> QED BY <1>1, <1>3, <2>1, <3>1 DEF Below
  <2>2. CASE c # 0
    BY <1>1, <1>3, <2>2, AppendProperties DEF Below
  <2> QED BY <2>1, <2>2
<1>7. PICK b : b = Len(y)
  OBVIOUS
<1>8. /\ b \in Slashes(p) /\ b # Len(p) + 1 /\ NextSlash(p, b) = e /\ Level(p, b) = l
      /\ SubSeq(p, 1, b) = y
  <2>1. e \in Slashes(p) \ {0}
    BY <1>5
  <2>2. EndsBeforeLevel(y)
    BY <1>6 DEF EndsBeforeLevel
  <2>3. /\ Len(y) \in Slashes(p) /\ Len(y) # Len(p) + 1
        /\ NextSlash(p, Len(y)) = e
        /\ Level(p, Len(y)) = l
        /\ SubSeq(p, 1, Len(y)) = y
    <3>1. SubSeq(p, 1, e - 1) = y \o l
      BY <1>5
    <3>2. p \in Seq(C) /\ y \in Seq(C)
      BY <1>3, <1>6
    <3> QED BY <2>1, <2>2, <3>1, <3>2, LevelBefore
  <2> QED BY <1>7, <2>3
<1>9. CoversLevel(p, b, t, c, d)
  BY <1>8 DEF CoversLevel
<1>10. CoversFrom(p, b, t, c)
  BY <1>2, <1>3, <1>8, <1>9, CoversMore
<1>11. (b = 0 <=> c = 0) /\ x = SubSeq(p, 1, Before(b))
  <2>1. Len(x) \in Nat /\ b \in 0..Len(p)
    BY <1>3, <1>8, LenProperties, SlashFacts
  <2>2. CASE c = 0
    <3>1. b = 0 /\ y = x
      BY <1>1, <1>6, <1>7, <2>2 DEF Below
    <3> QED BY <1>8, <2>2, <3>1 DEF Before
  <2>3. CASE c # 0
    <3>1. b = Len(x) + 1 /\ b # 0
      BY <1>6, <1>7, <2>1, <2>3
    <3>2. y = Append(x, "/") /\ \A i \in 1..Len(x) : y[i] = x[i]
      BY <1>1, <1>3, <2>3, AppendProperties DEF Below
    <3>3. \A i \in 1..b : y[i] = p[i]
      BY <1>3, <1>8, <2>1, CutFacts DEF Cut
    <3>4. Len(x) \in 0..Len(p)
      BY <1>3, <2>1, <3>1, LenProperties
    <3>5. PICK z : z = SubSeq(p, 1, Len(x))
      OBVIOUS
    <3>6. z \in Words /\ Len(z) = Len(x) /\ \A i \in 1..Len(x) : z[i] = p[i]
      BY <1>3, <3>4, <3>5, CutFacts DEF Cut
    <3>7. z \in Seq(C)
      BY <3>6 DEF Tree
    <3>8. \A i \in 1..Len(z) : z[i] = x[i]
      <4>1. \A i \in 1..Len(x) : i \in 1..b
        BY <2>1, <3>1
      <4> QED BY <3>2, <3>3, <3>6, <4>1
    <3>9. z = x
      BY <1>3, <3>6, <3>7, <3>8, SeqEqual
    <3>10. Before(b) = Len(x)
      BY <2>1, <3>1 DEF Before
    <3> QED BY <2>3, <3>1, <3>5, <3>9, <3>10
  <2> QED BY <2>2, <2>3
<1> QED BY <1>8, <1>10, <1>11 DEF Found

(* The calls for the levels behind c return what they should.               *)
RightBehind(called, t, c) ==
  \A d \in Slashes(t) : c < d => \A z \in nodes : called[d - 1][z] <=> Found(t, d, z)

LEMMA OneCharacter ==
  ASSUME NEW C, NEW y \in Seq(C), NEW a \in C, a # "/"
  PROVE  <<a>> \in Seq(C) /\ NoSlash(<<a>>) /\ Append(y, a) = y \o <<a>>
<1>1. <<a>> \in Seq(C) /\ NoSlash(<<a>>)
  BY DEF NoSlash
<1> QED BY <1>1, AppendIsConcat

LEMMA FoundIfReturned ==
  ASSUME NEW C, NEW t, Tree(C, t), NEW c \in Slashes(t), c # Len(t) + 1,
         NEW x \in nodes, c = 0 => x = Root, NEW called, RightBehind(called, t, c),
         Returns(called, t, Before(c), x)
  PROVE  Found(t, c, x)
<1>1. PICK y, e : y = Below(x, c) /\ e = NextSlash(t, c)
  OBVIOUS
<1>2. /\ t \in Seq(C) /\ NoEmptyLevel(t) /\ "/" \in C /\ "+" \in C /\ "*" \in C
      /\ nodes \subseteq Seq(C)
  <2>1. end_of_word \in SUBSET Words
    BY DEF Tree
  <2>2. nodes \subseteq Words
    BY <2>1, NeededFacts DEF Tree
  <2> QED BY <2>2 DEF Tree
<1>3. /\ y \in nodes
      /\ OverPlus(called, t, c, y) \/ OverStar(called, t, c, y) \/ OverLevel(called, t, c, y)
  BY <1>1, <1>2, ReturnsOfLevel
<1>4. y \in Seq(C) /\ e \in Slashes(t) /\ c < e /\ Len(t) \in Nat /\ c \in Nat /\ e \in Nat
  BY <1>1, <1>2, <1>3, SlashFacts
<1>5. ASSUME OverPlus(called, t, c, y) PROVE Found(t, c, x)
  <2>1. <<"+">> \in Seq(C) /\ NoSlash(<<"+">>) /\ Append(y, "+") = y \o <<"+">>
    BY <1>2, <1>4, OneCharacter
  <2>2. Found(t, e, y \o <<"+">>)
    BY <1>1, <1>4, <1>5, <2>1 DEF OverPlus, RightBehind
  <2> QED BY <1>1, <1>4, <2>1, <2>2, FoundBehind
<1>6. ASSUME OverStar(called, t, c, y) PROVE Found(t, c, x)
  <2>1. <<"*">> \in Seq(C) /\ NoSlash(<<"*">>) /\ Append(y, "*") = y \o <<"*">>
    BY <1>2, <1>4, OneCharacter
  <2>2. PICK d \in Slashes(t) : c < d /\ Found(t, d, y \o <<"*">>)
    BY <1>6, <2>1 DEF OverStar, RightBehind
  <2> QED BY <1>1, <1>4, <2>1, <2>2, FoundBehind
<1>7. ASSUME OverLevel(called, t, c, y) PROVE Found(t, c, x)
  <2>1. PICK l : l = Level(t, c)
    OBVIOUS
  <2>2. l \in Seq(C) /\ NoSlash(l)
    <3>1. /\ l \in Seq(C) /\ Len(l) = e - 1 - c
          /\ \A i \in 1..(e - 1 - c) : l[i] = t[c + i] /\ t[c + i] # "/"
      BY <1>1, <1>2, <2>1, LevelFacts
    <3> QED BY <3>1 DEF NoSlash
  <2>3. y \o l \in nodes
    <3>1. e - 1 \in c..(e - 1)
      BY <1>4
    <3> QED BY <1>1, <1>7, <2>1, <3>1 DEF OverLevel, Level
  <2>4. Found(t, e, y \o l)
    BY <1>1, <1>4, <1>7, <2>1, <2>3 DEF OverLevel, RightBehind
  <2> QED BY <1>1, <1>4, <2>1, <2>2, <2>4, FoundBehind
<1> QED BY <1>3, <1>5, <1>6, <1>7

LEMMA ReturnedIfFound ==
  ASSUME NEW C, NEW t, Tree(C, t), NEW c \in Slashes(t), c # Len(t) + 1,
         NEW x \in nodes, NEW called, RightBehind(called, t, c), Found(t, c, x)
  PROVE  Returns(called, t, Before(c), x)
<1>1. PICK p \in end_of_word :
        \E b \in Slashes(p) :
          (b = 0 <=> c = 0) /\ x = SubSeq(p, 1, Before(b)) /\ CoversFrom(p, b, t, c)
  BY DEF Found
<1>2. PICK b \in Slashes(p) :
        (b = 0 <=> c = 0) /\ x = SubSeq(p, 1, Before(b)) /\ CoversFrom(p, b, t, c)
  BY <1>1
<1>3. PICK y, e, f, l : y = Below(x, c) /\ e = NextSlash(t, c) /\ f = NextSlash(p, b) /\ l = Level(p, b)
  OBVIOUS
<1>4. /\ p \in Seq(C) /\ t \in Seq(C) /\ NoEmptyLevel(t)
      /\ "/" \in C /\ "+" \in C /\ "*" \in C /\ nodes \subseteq Seq(C)
  <2>1. end_of_word \in SUBSET Words
    BY DEF Tree
  <2>2. nodes \subseteq Words
    BY <2>1, NeededFacts DEF Tree
  <2> QED BY <2>1, <2>2 DEF Tree
<1>5. b # Len(p) + 1
  BY <1>2, <1>4, CoversEnd
<1>6. /\ Len(p) \in Nat /\ b \in 0..Len(p) /\ f \in Slashes(p) /\ b < f /\ f \in 0..(Len(p) + 1)
      /\ Len(t) \in Nat /\ c \in 0..Len(t) /\ e \in Slashes(t) /\ c < e /\ e \in 0..(Len(t) + 1)
  <2>1. /\ Len(p) \in Nat /\ b \in 0..Len(p) /\ f \in Slashes(p) /\ b < f /\ f \in 0..(Len(p) + 1)
    BY <1>3, <1>4, <1>5, SlashFacts
  <2>2. /\ Len(t) \in Nat /\ c \in 0..Len(t) /\ e \in Slashes(t) /\ c < e /\ e \in 0..(Len(t) + 1)
    BY <1>3, <1>4, SlashFacts
  <2> QED BY <2>1, <2>2
<1>7. y = SubSeq(p, 1, b)
  <2>1. CASE c = 0
    BY <1>2, <1>3, <2>1 DEF Below, Before
  <2>2. CASE c # 0
    <3>1. x = SubSeq(p, 1, b - 1) /\ y = Append(x, "/") /\ p[b] = "/" /\ b - 1 \in 0..Len(p) /\ b \in 1..Len(p)
      BY <1>2, <1>3, <1>5, <1>6, <2>2 DEF Below, Before, Slashes
    <3>2. /\ x \in Seq(C) /\ Len(x) = b - 1 /\ \A i \in 1..(b - 1) : x[i] = p[i]
      BY <1>4, <3>1, CutsAreNodes
    <3>3. PICK z : z = SubSeq(p, 1, b)
      OBVIOUS
    <3>4. z \in Seq(C) /\ Len(z) = b /\ \A i \in 1..b : z[i] = p[i]
      BY <1>4, <1>6, <3>3, CutsAreNodes
    <3>5. /\ y \in Seq(C) /\ Len(y) = Len(x) + 1
          /\ (\A i \in 1..Len(x) : y[i] = x[i]) /\ y[Len(x) + 1] = "/"
      BY <1>4, <3>1, <3>2, AppendProperties
    <3>6. Len(y) = b
      BY <1>6, <3>2, <3>5
    <3>7. \A i \in 1..Len(y) : y[i] = z[i]
      <4> SUFFICES ASSUME NEW i \in 1..b PROVE y[i] = z[i]
        BY <3>6
      <4>1. CASE i = b
        <5>1. Len(x) + 1 = i
          BY <1>6, <3>2, <4>1
        <5> QED BY <3>1, <3>4, <3>5, <4>1, <5>1
      <4>2. CASE i # b
        <5>1. i \in 1..(b - 1)
          BY <1>6, <4>2
        <5> QED BY <3>2, <3>4, <3>5, <5>1
      <4> QED BY <4>1, <4>2
    <3> QED BY <3>3, <3>4, <3>5, <3>6, <3>7, SeqEqual
  <2> QED BY <2>1, <2>2
<1>8. PICK d \in Slashes(t) : CoversLevel(p, b, t, c, d) /\ CoversFrom(p, f, t, d)
  BY <1>2, <1>3, <1>4, <1>5, CoversMore
<1>9. y \in nodes /\ y \in Seq(C)
  BY <1>4, <1>6, <1>7, CutsAreNodes
<1>10. y \o l = SubSeq(p, 1, f - 1) /\ y \o l \in nodes
  <2>1. y \o l = SubSeq(p, 1, f - 1)
    BY <1>3, <1>4, <1>5, <1>7, UpToLevel
  <2>2. f - 1 \in 0..Len(p)
    BY <1>6
  <2> QED BY <2>1, <2>2, CutsAreNodes
<1>11. c < d /\ called[d - 1][y \o l]
  <2>1. c < d /\ d # 0 /\ f # 0
    BY <1>6, <1>8 DEF CoversLevel
  <2>2. Found(t, d, y \o l)
    BY <1>8, <1>6, <1>10, <2>1 DEF Found, Before
  <2> QED BY <1>10, <2>1, <2>2 DEF RightBehind
<1>12. OverPlus(called, t, c, y) \/ OverStar(called, t, c, y) \/ OverLevel(called, t, c, y)
  <2>1. CASE l = <<"*">>
    <3>1. Append(y, "*") = y \o l
      BY <1>4, <1>9, <2>1, OneCharacter
    <3> QED BY <1>10, <1>11, <3>1 DEF OverStar
  <2>2. CASE l = <<"+">>
    <3>1. Append(y, "+") = y \o l
      BY <1>4, <1>9, <2>2, OneCharacter
    <3>2. <<"+">> # <<"*">>
      OBVIOUS
    <3>3. d = e
      BY <1>3, <1>8, <2>2, <3>2 DEF CoversLevel
    <3> QED BY <1>3, <1>10, <1>11, <3>1, <3>3 DEF OverPlus
  <2>3. CASE l \notin {<<"*">>, <<"+">>}
    <3>1. d = e /\ l = Level(t, c)
      BY <1>3, <1>8, <2>3 DEF CoversLevel
    <3>2. /\ Len(l) = e - 1 - c /\ \A i \in 1..(e - 1 - c) : l[i] = t[c + i]
      BY <1>3, <1>4, <3>1, LevelFacts
    <3>3. /\ Len(l) = f - 1 - b /\ \A i \in 1..(f - 1 - b) : l[i] = p[b + i]
      BY <1>3, <1>4, <1>5, LevelFacts
    <3>4. ASSUME NEW m \in c..(e - 1) PROVE y \o SubSeq(t, c + 1, m) \in nodes
      <4>1. PICK k : k = b + (m - c)
        OBVIOUS
      <4>2. /\ m \in Int /\ k \in b..Len(p) /\ k \in 0..Len(p) /\ k - b = m - c
            /\ \A i \in 1..(m - c) : i \in 1..(e - 1 - c) /\ i \in 1..(f - 1 - b)
        <5>1. e - 1 - c = f - 1 - b
          BY <3>2, <3>3
        <5> QED BY <1>6, <4>1, <5>1
      <4>3. \A i \in 1..(m - c) : t[c + i] = p[b + i]
        BY <3>2, <3>3, <4>2
      <4>4. SubSeq(t, c + 1, m) = SubSeq(p, b + 1, k)
        <5>1. PICK u, v : u = SubSeq(t, c + 1, m) /\ v = SubSeq(p, b + 1, k)
          OBVIOUS
        <5>2. /\ u \in Seq(C) /\ Len(u) = IF c + 1 <= m THEN m - (c + 1) + 1 ELSE 0
              /\ \A i \in 1..(m - (c + 1) + 1) : u[i] = t[(c + 1) + i - 1]
          <6>1. \A i \in (c + 1)..m : t[i] \in C
            BY <1>4, <1>6, ElementOfSeq
          <6> QED BY <1>6, <4>2, <5>1, <6>1, SubSeqProperties
        <5>3. /\ v \in Seq(C) /\ Len(v) = IF b + 1 <= k THEN k - (b + 1) + 1 ELSE 0
              /\ \A i \in 1..(k - (b + 1) + 1) : v[i] = p[(b + 1) + i - 1]
          <6>1. \A i \in (b + 1)..k : p[i] \in C
            BY <1>4, <1>6, <4>2, ElementOfSeq
          <6> QED BY <1>6, <4>2, <5>1, <6>1, SubSeqProperties
        <5>4. Len(u) = m - c /\ \A i \in 1..(m - c) : u[i] = t[c + i]
          BY <1>6, <4>2, <5>2
        <5>5. Len(v) = m - c /\ \A i \in 1..(m - c) : v[i] = p[b + i]
          <6>1. PICK j : j = m - c
            OBVIOUS
          <6>2. j \in Nat /\ k - (b + 1) + 1 = j /\ (b + 1 <= k <=> j # 0) /\ b \in Nat
            BY <1>6, <4>2, <6>1
          <6>3. Len(v) = j /\ \A i \in 1..j : v[i] = p[(b + 1) + i - 1]
            BY <5>3, <6>2
          <6>4. \A i \in 1..j : (b + 1) + i - 1 = b + i
            BY <6>2
          <6> QED BY <6>1, <6>3, <6>4
        <5>6. Len(u) = Len(v) /\ \A i \in 1..Len(u) : u[i] = v[i]
          BY <4>3, <5>4, <5>5
        <5> QED BY <5>1, <5>2, <5>3, <5>6, SeqEqual
      <4>5. SubSeq(p, 1, b) \o SubSeq(p, b + 1, k) = SubSeq(p, 1, k)
        <5>1. 1 \in 1..(Len(p) + 1) /\ b \in (1 - 1)..Len(p)
          BY <1>6
        <5> QED BY <1>4, <4>2, <5>1, ConcatAdjacentSubSeq
      <4> QED BY <1>7, <4>2, <4>4, <4>5, CutsAreNodes
    <3> QED BY <1>3, <1>11, <3>1, <3>4 DEF OverLevel
  <2> QED BY <2>1, <2>2, <2>3
<1> QED BY <1>3, <1>4, <1>9, <1>12, ReturnsOfLevel

LEMMA FoundAtEnd ==
  ASSUME NEW C, NEW t, Tree(C, t), NEW x, NEW called
  PROVE  Returns(called, t, Before(Len(t) + 1), x) <=> Found(t, Len(t) + 1, x)
<1>1. PICK e : e = Len(t) + 1
  OBVIOUS
<1>2. t \in Seq(C) /\ Len(t) \in Nat /\ e # 0 /\ Before(e) = Len(t) /\ e \in Slashes(t)
  BY <1>1, LenProperties DEF Tree, Slashes, Before
<1>3. Returns(called, t, Before(e), x) <=> x \in end_of_word
  BY <1>2 DEF Returns
<1>4. ASSUME NEW p \in end_of_word
      PROVE  p \in Seq(C) /\ Len(p) \in Nat /\ p = SubSeq(p, 1, Before(Len(p) + 1))
             /\ Len(p) + 1 \in Slashes(p) /\ Len(p) + 1 # 0
  <2>1. p \in Words /\ p \in Seq(C)
    BY DEF Tree
  <2>2. Len(p) \in Nat /\ Before(Len(p) + 1) = Len(p) /\ Len(p) + 1 \in Slashes(p)
    BY <2>1, LenProperties DEF Slashes, Before
  <2>3. SubSeq(p, 1, Len(p)) = p
    BY <2>1, CutAll DEF Cut
  <2> QED BY <2>1, <2>2, <2>3
<1>5. ASSUME x \in end_of_word PROVE Found(t, e, x)
  <2>1. CoversFrom(x, Len(x) + 1, t, e)
    BY <1>1, <1>2, <1>4, <1>5, CoversEnd
  <2> QED BY <1>2, <1>4, <1>5, <2>1 DEF Found
<1>6. ASSUME Found(t, e, x) PROVE x \in end_of_word
  <2>1. PICK p \in end_of_word :
          \E b \in Slashes(p) :
            (b = 0 <=> e = 0) /\ x = SubSeq(p, 1, Before(b)) /\ CoversFrom(p, b, t, e)
    BY <1>6 DEF Found
  <2>2. PICK b \in Slashes(p) : x = SubSeq(p, 1, Before(b)) /\ CoversFrom(p, b, t, e)
    BY <2>1
  <2>3. b = Len(p) + 1
    BY <1>1, <1>2, <1>4, <2>2, CoversEnd
  <2> QED BY <1>4, <2>2, <2>3
<1> QED BY <1>1, <1>3, <1>5, <1>6

-----------------------------------------------------------------------------
(* The recursion of is_subscribed ends: it calls itself only further on in   *)
(* the topic, so that its recursive function exists.                        *)

SameBehind(called, other, t, k) ==
  \A n \in 0..Len(t) : k < n => \A z \in nodes : called[n][z] <=> other[n][z]

LEMMA StopsAreBehind ==
  ASSUME NEW A, NEW t \in Seq(A), NEW k \in 0..Len(t), k # Len(t),
         NEW i, i = IF t[k + 1] = "/" THEN k + 1 ELSE k
  PROVE  /\ FirstEnd(t, i) \in 0..Len(t) /\ k < FirstEnd(t, i) /\ i <= FirstEnd(t, i)
         /\ \A n \in StarStops(t, i) : n \in 0..Len(t) /\ k < n
<1>1. Len(t) \in Nat /\ i \in k..Len(t) /\ i \in Nat
  BY LenProperties
<1>2. LevelEnds(t, i) \in SUBSET Nat /\ Len(t) \in LevelEnds(t, i)
  BY <1>1 DEF LevelEnds
<1>3. FirstEnd(t, i) \in LevelEnds(t, i)
  BY <1>2, LeastOf DEF FirstEnd
<1>4. \A n \in LevelEnds(t, i) : n \in 0..Len(t) /\ i <= n /\ k < n
  <2> SUFFICES ASSUME NEW n \in LevelEnds(t, i) PROVE n \in 0..Len(t) /\ i <= n /\ k < n
    OBVIOUS
  <2>1. n \in i..Len(t) /\ (n = Len(t) \/ t[n + 1] = "/")
    BY DEF LevelEnds
  <2>2. n # k
    <3>1. CASE t[k + 1] = "/"
      BY <1>1, <2>1, <3>1
    <3>2. CASE t[k + 1] # "/"
      BY <2>1, <3>2
    <3> QED BY <3>1, <3>2
  <2> QED BY <1>1, <2>1, <2>2
<1> QED BY <1>3, <1>4 DEF StarStops

LEMMA ReturnsDepends ==
  ASSUME NEW A, NEW t \in Seq(A), NEW k \in 0..Len(t), NEW called, NEW other, NEW x,
         SameBehind(called, other, t, k), Returns(called, t, k, x)
  PROVE  Returns(other, t, k, x)
<1>1. CASE k = Len(t)
  BY <1>1 DEF Returns
<1>2. CASE k # Len(t)
  <2>1. PICK i, y : i = (IF t[k + 1] = "/" THEN k + 1 ELSE k)
                    /\ y = (IF t[k + 1] = "/" THEN Append(x, "/") ELSE x)
    OBVIOUS
  <2>2. PICK n : n = FirstEnd(t, i)
    OBVIOUS
  <2>3. /\ n \in 0..Len(t) /\ k < n /\ i <= n /\ i \in Nat
        /\ \A s \in StarStops(t, i) : s \in 0..Len(t) /\ k < s
    <3>1. i \in Nat
      BY <2>1
    <3> QED BY <1>2, <2>1, <2>2, <3>1, StopsAreBehind
  <2>4. \A f : Returns(f, t, k, x) <=>
          /\ y \in nodes
          /\ \/ /\ Append(y, "+") \in nodes
                /\ f[n][Append(y, "+")]
             \/ /\ Append(y, "*") \in nodes
                /\ \E s \in StarStops(t, i) : f[s][Append(y, "*")]
             \/ /\ \A m \in i..n : y \o SubSeq(t, i + 1, m) \in nodes
                /\ f[n][y \o SubSeq(t, i + 1, n)]
    BY <1>2, <2>1, <2>2 DEF Returns
  <2>5. n \in i..n
    BY <2>3
  <2>6. \A z \in nodes : called[n][z] => other[n][z]
    BY <2>3 DEF SameBehind
  <2>7. \A s \in StarStops(t, i) : \A z \in nodes : called[s][z] => other[s][z]
    BY <2>3 DEF SameBehind
  <2> HIDE DEF SameBehind
  <2> QED BY <2>4, <2>5, <2>6, <2>7
<1> QED BY <1>1, <1>2

(* The values called of is_subscribed are right from position from on.       *)
FixedFrom(called, t, from) ==
  \A k \in 0..Len(t) : from <= k => \A x \in nodes : called[k][x] <=> Returns(called, t, k, x)

LEMMA OneMoreCall ==
  ASSUME NEW A, NEW t \in Seq(A), NEW k \in 0..Len(t),
         NEW h \in [0..Len(t) -> [nodes -> BOOLEAN]], FixedFrom(h, t, k + 1)
  PROVE  \E g \in [0..Len(t) -> [nodes -> BOOLEAN]] : FixedFrom(g, t, k)
<1>1. Len(t) \in Nat
  BY LenProperties
<1>2. PICK row : row = [x \in nodes |-> IF Returns(h, t, k, x) THEN TRUE ELSE FALSE]
  OBVIOUS
<1>3. row \in [nodes -> BOOLEAN] /\ \A x \in nodes : row[x] <=> Returns(h, t, k, x)
  BY <1>2
<1>4. PICK g : g = [h EXCEPT ![k] = row]
  OBVIOUS
<1>5. /\ g \in [0..Len(t) -> [nodes -> BOOLEAN]]
      /\ g[k] = row /\ \A l \in 0..Len(t) : l # k => g[l] = h[l]
  BY <1>3, <1>4
<1>6. ASSUME NEW l \in 0..Len(t), k <= l, NEW x \in nodes PROVE g[l][x] <=> Returns(g, t, l, x)
  <2>1. SameBehind(h, g, t, l) /\ SameBehind(g, h, t, l)
    <3>1. \A n \in 0..Len(t) : l < n => n # k
      BY <1>1, <1>6
    <3> QED BY <1>5, <3>1 DEF SameBehind
  <2>2. Returns(h, t, l, x) <=> Returns(g, t, l, x)
    BY <2>1, ReturnsDepends
  <2>3. CASE l = k
    BY <1>3, <1>5, <2>2, <2>3
  <2>4. CASE l # k
    <3>1. k + 1 <= l
      BY <1>1, <1>6, <2>4
    <3>2. h[l][x] <=> Returns(h, t, l, x)
      BY <3>1 DEF FixedFrom
    <3> QED BY <1>5, <2>2, <2>4, <3>2
  <2> QED BY <2>3, <2>4
<1> QED BY <1>5, <1>6 DEF FixedFrom

LEMMA CallsExist ==
  ASSUME NEW A, NEW t \in Seq(A)
  PROVE  \E g \in [0..Len(t) -> [nodes -> BOOLEAN]] : FixedFrom(g, t, 0)
<1>1. Len(t) \in Nat
  BY LenProperties
<1> DEFINE L == Len(t)
           S == {m \in 0..(L + 1) : \E g \in [0..L -> [nodes -> BOOLEAN]] : FixedFrom(g, t, L + 1 - m)}
<1>2. 0 \in S
  <2>1. PICK g : g = [k \in 0..L |-> [x \in nodes |-> FALSE]]
    OBVIOUS
  <2>2. g \in [0..L -> [nodes -> BOOLEAN]]
    BY <2>1
  <2>3. \A k \in 0..L : ~(L + 1 - 0 <= k)
    BY <1>1
  <2> QED BY <1>1, <2>2, <2>3 DEF FixedFrom
<1>3. ASSUME NEW m \in 0..((L + 1) - 1), m \in S PROVE m + 1 \in S
  <2>1. PICK h \in [0..L -> [nodes -> BOOLEAN]] : FixedFrom(h, t, L + 1 - m)
    BY <1>3
  <2>2. PICK k : k = L - m
    OBVIOUS
  <2>3. k \in 0..L /\ L + 1 - m = k + 1 /\ L + 1 - (m + 1) = k /\ m + 1 \in 0..(L + 1)
    BY <1>1, <2>2
  <2>4. FixedFrom(h, t, k + 1)
    BY <2>1, <2>3
  <2>5. \E g \in [0..L -> [nodes -> BOOLEAN]] : FixedFrom(g, t, k)
    BY <2>3, <2>4, OneMoreCall
  <2> QED BY <2>3, <2>5
<1>4. L + 1 \in S
  <2>1. L + 1 \in Nat /\ L + 1 \in 0..(L + 1)
    BY <1>1
  <2> HIDE DEF S, L
  <2> QED BY <1>2, <1>3, <2>1, Induction
<1>5. L + 1 - (L + 1) = 0
  BY <1>1
<1> QED BY <1>4, <1>5

LEMMA IsSubscribedCalls ==
  ASSUME NEW A, NEW t \in Seq(A), Root \in nodes
  PROVE  \E called : FixedFrom(called, t, 0) /\ is_subscribed(t) = called[0][Root]
<1> DEFINE Is(called) ==
      called = [pos \in 0..Len(t) |-> [node \in nodes |-> Returns(called, t, pos, node)]]
<1>1. \E called : Is(called)
  <2>1. PICK g \in [0..Len(t) -> [nodes -> BOOLEAN]] : FixedFrom(g, t, 0)
    BY CallsExist
  <2>2. ASSUME NEW k \in 0..Len(t)
        PROVE  g[k] = [node \in nodes |-> Returns(g, t, k, node)]
    <3>1. \A x \in nodes : g[k][x] <=> Returns(g, t, k, x)
      BY <2>1 DEF FixedFrom
    <3>2. \A x \in nodes : Returns(g, t, k, x) \in BOOLEAN
      BY DEF Returns
    <3>3. g[k] \in [nodes -> BOOLEAN]
      OBVIOUS
    <3>4. \A x \in nodes : g[k][x] = Returns(g, t, k, x)
      BY <3>1, <3>2, <3>3
    <3> QED BY <3>3, <3>4
  <2>3. g = [pos \in 0..Len(t) |-> [node \in nodes |-> Returns(g, t, pos, node)]]
    BY <2>2
  <2> QED BY <2>3
<1>2. PICK called : called = CHOOSE f : Is(f)
  OBVIOUS
<1>3. Is(called)
  BY <1>1, <1>2
<1>4. is_subscribed(t) = called[0][Root]
  BY <1>2 DEF is_subscribed
<1>5. FixedFrom(called, t, 0)
  BY <1>3 DEF FixedFrom
<1> QED BY <1>4, <1>5

-----------------------------------------------------------------------------
(* What the calls return, from the end of the topic to its start.           *)

RightAt(called, t, c) ==
  \A x \in nodes : (c = 0 => x = Root) => (called[Before(c)][x] <=> Found(t, c, x))

LEMMA RightOneBefore ==
  ASSUME NEW C, NEW t, Tree(C, t), NEW called, FixedFrom(called, t, 0), NEW c \in Slashes(t),
         \A d \in Slashes(t) : c < d => RightAt(called, t, d)
  PROVE  RightAt(called, t, c)
<1>1. t \in Seq(C) /\ Len(t) \in Nat /\ \A d \in Slashes(t) : d \in 0..(Len(t) + 1)
  BY LenProperties DEF Tree, Slashes
<1>2. Before(c) \in 0..Len(t)
  BY <1>1 DEF Before
<1>3. \A x \in nodes : called[Before(c)][x] <=> Returns(called, t, Before(c), x)
  <2>1. 0 <= Before(c)
    BY <1>2
  <2> QED BY <1>2, <2>1 DEF FixedFrom
<1>4. CASE c = Len(t) + 1
  <2>1. \A x : Returns(called, t, Before(c), x) <=> Found(t, c, x)
    BY <1>4, FoundAtEnd
  <2> QED BY <1>3, <2>1 DEF RightAt
<1>5. CASE c # Len(t) + 1
  <2>1. RightBehind(called, t, c)
    <3>1. \A d \in Slashes(t) : c < d => d # 0 /\ Before(d) = d - 1
      BY <1>1 DEF Before
    <3> QED BY <3>1 DEF RightAt, RightBehind
  <2>2. ASSUME NEW x \in nodes, c = 0 => x = Root
        PROVE  Returns(called, t, Before(c), x) <=> Found(t, c, x)
    BY <1>5, <2>1, <2>2, FoundIfReturned, ReturnedIfFound
  <2> QED BY <1>3, <2>2 DEF RightAt
<1> QED BY <1>4, <1>5

LEMMA RightEverywhere ==
  ASSUME NEW C, NEW t, Tree(C, t), NEW called, FixedFrom(called, t, 0)
  PROVE  \A c \in Slashes(t) : RightAt(called, t, c)
<1>1. t \in Seq(C) /\ Len(t) \in Nat /\ \A d \in Slashes(t) : d \in 0..(Len(t) + 1)
  BY LenProperties DEF Tree, Slashes
<1> DEFINE N == Len(t) + 2
           S == {m \in 0..N : \A c \in Slashes(t) : N - m <= c => RightAt(called, t, c)}
<1>2. 0 \in S
  BY <1>1
<1>3. ASSUME NEW m \in 0..(N - 1), m \in S PROVE m + 1 \in S
  <2>1. ASSUME NEW c \in Slashes(t), N - (m + 1) <= c PROVE RightAt(called, t, c)
    <3>1. \A d \in Slashes(t) : c < d => N - m <= d
      BY <1>1, <2>1
    <3>2. \A d \in Slashes(t) : c < d => RightAt(called, t, d)
      BY <1>3, <3>1
    <3> QED BY <3>2, RightOneBefore
  <2>2. m + 1 \in 0..N
    BY <1>1
  <2> QED BY <2>1, <2>2
<1>4. N \in S
  <2>1. N \in Nat /\ N \in 0..N
    BY <1>1
  <2> HIDE DEF S, N
  <2> QED BY <1>2, <1>3, <2>1, Induction
<1>5. \A c \in Slashes(t) : N - N <= c
  BY <1>1
<1> QED BY <1>4, <1>5

(* is_subscribed, for a trie and a topic over the same characters.          *)
LEMMA MatchedTopics ==
  ASSUME NEW C, NEW t, Tree(C, t)
  PROVE  is_subscribed(t) <=> \E p \in end_of_word : CoversByLevels(p, t)
<1>1. t \in Seq(C) /\ end_of_word \in SUBSET Words /\ \A p \in end_of_word : p \in Seq(C)
  BY DEF Tree
<1>2. Root \in nodes /\ 0 \in Slashes(t)
  BY DEF Tree, Needed, Slashes
<1>3. PICK called : FixedFrom(called, t, 0) /\ is_subscribed(t) = called[0][Root]
  BY <1>1, <1>2, IsSubscribedCalls
<1>4. RightAt(called, t, 0)
  BY <1>2, <1>3, RightEverywhere
<1>5. called[0][Root] <=> Found(t, 0, Root)
  BY <1>2, <1>4 DEF RightAt, Before
<1>6. Found(t, 0, Root) <=> \E p \in end_of_word : CoversFrom(p, 0, t, 0)
  <2>1. ASSUME NEW p \in end_of_word
        PROVE  0 \in Slashes(p) /\ Root = SubSeq(p, 1, Before(0))
    <3>1. SubSeq(p, 1, 0) = Root
      BY <1>1, <2>1, CutFacts, LenProperties DEF Cut
    <3> QED BY <3>1 DEF Slashes, Before
  <2> QED BY <2>1 DEF Found
<1>7. \A p \in end_of_word : CoversByLevels(p, t) <=> CoversFrom(p, 0, t, 0)
  BY <1>1, CoversAll
<1> QED BY <1>3, <1>5, <1>6, <1>7

(* is_subscribed finds a topic exactly if the levels of some pattern cover   *)
(* it: for tries of any size, topics and patterns of any length, and any     *)
(* number of wildcards in them (is_subscribed).                             *)
THEOREM MatchingByLevels == Spec => []MatchesByLevels
<1>1. TrieInv => MatchesByLevels
  <2> SUFFICES ASSUME TrieInv, alive, NEW t \in Published, NoEmptyLevel(t)
               PROVE  is_subscribed(t) <=> \E p \in end_of_word : CoversByLevels(p, t)
    BY DEF MatchesByLevels
  <2>1. PICK C : C = Characters \cup ToSet(t) \cup {"/", "+", "*"}
    OBVIOUS
  <2>2. t \in Seq(C)
    <3>1. t \in Seq(ToSet(t)) /\ ToSet(t) \subseteq C
      BY <2>1, PublishedAssumption
    <3> QED BY <3>1, SeqMonotonic
  <2>3. Words \subseteq Seq(C)
    BY <2>1, SeqMonotonic DEF Words
  <2>4. end_of_word \subseteq Words
    BY TopicsAreWords DEF TrieInv, WordsAreTopics
  <2>5. nodes = Needed(end_of_word)
    BY Shape DEF TrieInv, TrieShape
  <2> QED BY <2>1, <2>2, <2>3, <2>4, <2>5, MatchedTopics DEF Tree
<1> QED BY <1>1, TrieInvariance, PTL
===============================================================================
