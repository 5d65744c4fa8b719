--------------------------- MODULE LinkedList_proofs ---------------------------
(***************************************************************************)
(* Proofs about LinkedList: from the head to NULL there are exactly the     *)
(* nodes in use, and what they hold is the sequence that list.h promises.   *)
(***************************************************************************)
EXTENDS LinkedList, Iteration_proofs, FiniteSetTheorems, SequenceTheorems

Link == Addrs \cup {Null}

TypeOK ==
  /\ head \in Link
  /\ tail \in Link
  /\ size \in Nat
  /\ link \in [Addrs -> Link]
  /\ data \in [Addrs -> Data]
  /\ allocated \in SUBSET Addrs

(* The nodes of the list, in their order, are s.                            *)
Chain(s) ==
  /\ s \in [1..size -> Addrs]
  /\ \A i, j \in 1..size : s[i] = s[j] => i = j
  /\ allocated = {s[i] : i \in 1..size}
  /\ head = IF size = 0 THEN Null ELSE s[1]
  /\ size > 0 => tail = s[size]
  /\ \A i \in 1..size : link[s[i]] = IF i = size THEN Null ELSE s[i + 1]

(* The inductive invariant.                                                 *)
ListInv == TypeOK /\ \E s \in [1..size -> Addrs] : Chain(s)

-----------------------------------------------------------------------------
(* Steps along the links.                                                   *)

LEMMA NodeAtIs ==
  TypeOK => /\ NodeAt \in [Nat -> Link]
            /\ NodeAt[0] = head
            /\ \A k \in Nat : NodeAt[k + 1] = IF NodeAt[k] = Null THEN Null ELSE link[NodeAt[k]]
<1> SUFFICES ASSUME TypeOK
             PROVE  /\ NodeAt \in [Nat -> Link]
                    /\ NodeAt[0] = head
                    /\ \A k \in Nat : NodeAt[k + 1] =
                         IF NodeAt[k] = Null THEN Null ELSE link[NodeAt[k]]
  OBVIOUS
<1> DEFINE Step(f) == [k \in Nat |->
                         IF k = 0 THEN head
                                  ELSE IF f[k - 1] = Null THEN Null ELSE link[f[k - 1]]]
           next == [k \in Nat |-> [x \in Link |-> IF x = Null THEN Null ELSE link[x]]]
<1>1. head \in Link /\ \A k \in Nat : \A x \in Link : next[k][x] \in Link
  BY DEF TypeOK, Link
<1>2. PICK f : f[0] = head /\ \A k \in Nat : f[k] \in Link /\ f[k + 1] = next[k][f[k]]
  <2>1. PICK f : Iterates(f, Link, head, next)
    <3> HIDE DEF next
    <3> QED BY <1>1, IterationExists
  <2> HIDE DEF next
  <2> QED BY <2>1 DEF Iterates
<1> DEFINE along == [k \in Nat |-> f[k]]
<1>3. along = Step(along)
  <2>1. \A k \in Nat : k = 0 \/ (k - 1 \in Nat /\ (k - 1) + 1 = k)
    OBVIOUS
  <2>2. \A k \in Nat : f[k] = IF k = 0 THEN head
                                ELSE IF f[k - 1] = Null THEN Null ELSE link[f[k - 1]]
    BY <1>2, <2>1
  <2> QED BY <2>1, <2>2
<1>4. NodeAt = Step(NodeAt)
  <2>1. NodeAt = CHOOSE h : h = Step(h)
    BY DEF NodeAt
  <2> HIDE DEF Step, along
  <2> QED BY <1>3, <2>1, Zenon
<1>5. /\ DOMAIN NodeAt = Nat /\ NodeAt = [k \in Nat |-> NodeAt[k]]
      /\ NodeAt[0] = head
      /\ \A k \in Nat : NodeAt[k + 1] = IF NodeAt[k] = Null THEN Null ELSE link[NodeAt[k]]
  <2>1. \A k \in Nat : k + 1 \in Nat /\ k + 1 # 0 /\ (k + 1) - 1 = k
    OBVIOUS
  <2> HIDE DEF NodeAt
  <2> QED BY <1>4, <2>1
<1>6. ASSUME NEW n \in Nat PROVE NodeAt[n] \in Link
  <2> DEFINE S == {k \in Nat : NodeAt[k] \in Link}
  <2>1. 0 \in S
    BY <1>1, <1>5
  <2>2. ASSUME NEW k \in 0..(n - 1), k \in S PROVE k + 1 \in S
    <3>1. NodeAt[k] = Null \/ NodeAt[k] \in Addrs
      BY <2>2 DEF Link
    <3>2. Null \in Link /\ \A x \in Addrs : link[x] \in Link
      BY DEF TypeOK, Link
    <3>3. k \in Nat /\ NodeAt[k + 1] = IF NodeAt[k] = Null THEN Null ELSE link[NodeAt[k]]
      BY <1>5
    <3>4. NodeAt[k + 1] \in Link
      BY <3>1, <3>2, <3>3
    <3> QED BY <3>3, <3>4
  <2>3. n \in S
    <3>1. n \in 0..n
      OBVIOUS
    <3> HIDE DEF S
    <3> QED BY <2>1, <2>2, <3>1, Induction
  <2> QED BY <2>3
<1> QED BY <1>5, <1>6

(* They lead through the nodes of the list in their order, and then stay at *)
(* NULL.                                                                    *)
LEMMA NodesOfChain ==
  ASSUME TypeOK, NEW s, Chain(s)
  PROVE  /\ \A k \in 0..(size - 1) : NodeAt[k] = s[k + 1]
         /\ NodeAt[size] = Null
         /\ \A k \in Nat : k >= size => NodeAt[k] = Null
<1> DEFINE at == [k \in 0..size |-> IF k = size THEN Null ELSE s[k + 1]]
<1>1. size \in Nat /\ Null \notin Addrs
  BY LinkedListAssumption DEF TypeOK
<1>2. \A k \in 0..size : NodeAt[k] = at[k]
  <2> DEFINE S == {k \in 0..size : NodeAt[k] = at[k]}
  <2>1. 0 \in S
    BY <1>1, NodeAtIs DEF Chain
  <2>2. ASSUME NEW k \in 0..(size - 1), k \in S PROVE k + 1 \in S
    <3>1. k \in Nat /\ k \in 0..size /\ k # size /\ k + 1 \in 1..size /\ k + 1 \in 0..size
      BY <1>1
    <3>2. NodeAt[k] = s[k + 1] /\ s[k + 1] \in Addrs
      BY <2>2, <3>1 DEF Chain
    <3>3. NodeAt[k + 1] = link[s[k + 1]]
      BY <1>1, <3>1, <3>2, NodeAtIs
    <3>4. link[s[k + 1]] = IF k + 1 = size THEN Null ELSE s[(k + 1) + 1]
      BY <3>1 DEF Chain
    <3> QED BY <3>1, <3>3, <3>4
  <2> HIDE DEF S
  <2>3. \A k \in 0..size : k \in S
    BY <1>1, <2>1, <2>2, Induction
  <2> QED BY <2>3 DEF S
<1>3. NodeAt[size] = Null
  BY <1>1, <1>2
<1>4. ASSUME NEW k \in Nat, k >= size PROVE NodeAt[k] = Null
  <2> DEFINE S == {d \in Nat : NodeAt[size + d] = Null}
  <2>0. k - size \in Nat /\ size + (k - size) = k
    BY <1>1, <1>4
  <2>1. 0 \in S
    BY <1>1, <1>3
  <2>2. ASSUME NEW d \in 0..((k - size) - 1), d \in S PROVE d + 1 \in S
    <3>1. size + d \in Nat /\ size + (d + 1) = (size + d) + 1
      BY <1>1
    <3>2. NodeAt[(size + d) + 1] = Null
      BY <2>2, <3>1, NodeAtIs
    <3> QED BY <3>1, <3>2
  <2>3. k - size \in S
    <3>1. k - size \in 0..(k - size)
      BY <2>0
    <3> HIDE DEF S
    <3> QED BY <2>0, <2>1, <2>2, <3>1, Induction
  <2> QED BY <2>0, <2>3
<1>5. \A k \in 0..(size - 1) : k \in 0..size /\ k # size
  BY <1>1
<1> QED BY <1>1, <1>2, <1>3, <1>4, <1>5

LEMMA InvIsSound == ListInv => ChainSound
<1> SUFFICES ASSUME ListInv PROVE ChainSound
  OBVIOUS
<1> PICK s : Chain(s)
  BY DEF ListInv
<1>1. TypeOK /\ size \in Nat
  BY DEF ListInv, TypeOK
<1>2. /\ \A k \in 0..(size - 1) : NodeAt[k] = s[k + 1]
      /\ NodeAt[size] = Null
  BY <1>1, NodesOfChain
<1>3. allocated = {NodeAt[k] : k \in 0..(size - 1)}
  <2>1. \A i \in 1..size : i - 1 \in 0..(size - 1) /\ (i - 1) + 1 = i
    BY <1>1
  <2>2. \A k \in 0..(size - 1) : k + 1 \in 1..size
    BY <1>1
  <2>3. allocated = {s[i] : i \in 1..size}
    BY DEF Chain
  <2> QED BY <1>2, <2>1, <2>2, <2>3
<1>4. Cardinality(allocated) = size
  <2>1. s \in Bijection(1..size, allocated)
    BY DEF Chain, Bijection, Injection, Surjection, IsInjective
  <2>2. IsFiniteSet(1..size) /\ Cardinality(1..size) = size
    BY <1>1, FS_Interval
  <2> QED BY <2>1, <2>2, FS_Bijection DEF ExistsBijection
<1>5. size > 0 => tail = NodeAt[size - 1]
  BY <1>1, <1>2 DEF Chain
<1> QED BY <1>2, <1>3, <1>4, <1>5 DEF ChainSound

-----------------------------------------------------------------------------
(* Adding a node.                                                           *)

(* s with x behind its first n elements, of which it has m.                 *)
With(s, m, n, x) ==
  [i \in 1..(m + 1) |-> IF i <= n THEN s[i] ELSE IF i = n + 1 THEN x ELSE s[i - 1]]

(* The node before position n.                                              *)
LEMMA PrevIs ==
  ASSUME TypeOK, NEW s, Chain(s), NEW n \in 1..(size - 1)
  PROVE  ll_get_nth_node(n - 1) = s[n] /\ s[n] \in Addrs /\ n \in 1..size
<1>1. size \in Nat
  BY DEF TypeOK
<1>2. n - 1 \in 0..(size - 1) /\ n - 1 # size - 1 /\ (n - 1) + 1 = n /\ n \in 1..size
  BY <1>1
<1>3. NodeAt[n - 1] = s[n]
  BY <1>2, NodesOfChain
<1> QED BY <1>2, <1>3 DEF ll_get_nth_node, Chain

(* The three ways to set the links come to the same.                        *)
LEMMA LinkedAtIs ==
  ASSUME TypeOK, NEW s, Chain(s), NEW a \in Addrs \ allocated, NEW n \in 0..size
  PROVE  /\ LinkedAt(a, n) \in [Addrs -> Link]
         /\ \A x \in Addrs : LinkedAt(a, n)[x] =
              IF x = a THEN IF n = size THEN Null ELSE s[n + 1]
                       ELSE IF n > 0 /\ x = s[n] THEN a ELSE link[x]
<1>1. size \in Nat /\ link \in [Addrs -> Link] /\ head \in Link /\ a \in Link /\ Null \in Link
  BY DEF TypeOK, Link
<1>2. \A i \in 1..size : s[i] \in Addrs /\ s[i] # a
  BY DEF Chain
<1>3. CASE n = 0
  <2>1. LinkedAt(a, n) = [link EXCEPT ![a] = head]
    BY <1>3 DEF LinkedAt
  <2>2. head = IF n = size THEN Null ELSE s[n + 1]
    BY <1>3 DEF Chain
  <2> QED BY <1>1, <1>3, <2>1, <2>2
<1>4. CASE n > 0 /\ n < size
  <2>1. n \in 1..(size - 1) /\ n \in 1..size /\ n # size /\ n # 0
    BY <1>1, <1>4
  <2>2. ll_get_nth_node(n - 1) = s[n]
    BY <2>1, PrevIs
  <2>3. LinkedAt(a, n) = [link EXCEPT ![s[n]] = a, ![a] = link[s[n]]]
    BY <1>4, <2>1, <2>2 DEF LinkedAt
  <2>4. link[s[n]] = s[n + 1] /\ link[s[n]] \in Link
    BY <1>1, <1>2, <2>1 DEF Chain
  <2> QED BY <1>1, <1>2, <1>4, <2>1, <2>3, <2>4
<1>5. CASE n > 0 /\ n = size
  <2>1. n \in 1..size /\ n # 0
    BY <1>1, <1>5
  <2>2. tail = s[n]
    BY <1>5 DEF Chain
  <2>3. LinkedAt(a, n) = [link EXCEPT ![s[n]] = a, ![a] = Null]
    BY <1>5, <2>1, <2>2 DEF LinkedAt
  <2> QED BY <1>1, <1>2, <1>5, <2>1, <2>3
<1> QED BY <1>1, <1>3, <1>4, <1>5

LEMMA LeastIs ==
  ASSUME NEW m \in Nat, NEW n \in Nat
  PROVE  Least(m, n) \in 0..n /\ Least(m, n) = IF m < n THEN m ELSE n
BY DEF Least

LEMMA AddKeepsChain ==
  ASSUME TypeOK, NEW s, Chain(s), NEW pos \in Positions, NEW d \in Data,
         ll_add_nth_node(pos, d)
  PROVE  /\ TypeOK'
         /\ \E a \in Addrs \ allocated : \E t :
              /\ t = With(s, size, Least(pos, size), a)
              /\ Chain(t)'
              /\ data' = [data EXCEPT ![a] = d]
<1>0. PICK m, n : m = size /\ n = Least(pos, size)
  OBVIOUS
<1>1. PICK a \in Addrs \ allocated :
        /\ allocated' = allocated \cup {a}
        /\ data' = [data EXCEPT ![a] = d]
        /\ link' = LinkedAt(a, n)
        /\ head' = IF n = 0 THEN a ELSE head
        /\ tail' = IF n = m THEN a ELSE tail
        /\ size' = m + 1
  BY <1>0 DEF ll_add_nth_node
<1>2. m \in Nat /\ n \in 0..m /\ n \in Nat
  <2>1. size \in Nat /\ pos \in Nat
    BY DEF TypeOK, Positions
  <2> QED BY <1>0, <2>1, LeastIs
<1>3. /\ link' \in [Addrs -> Link]
      /\ \A x \in Addrs : link'[x] =
           IF x = a THEN IF n = m THEN Null ELSE s[n + 1]
                    ELSE IF n > 0 /\ x = s[n] THEN a ELSE link[x]
  BY <1>0, <1>1, <1>2, LinkedAtIs
<1>4. /\ s \in [1..m -> Addrs]
      /\ \A i, j \in 1..m : s[i] = s[j] => i = j
      /\ \A i \in 1..m : s[i] # a
      /\ allocated = {s[i] : i \in 1..m}
      /\ head = IF m = 0 THEN Null ELSE s[1]
      /\ m > 0 => tail = s[m]
      /\ \A i \in 1..m : link[s[i]] = IF i = m THEN Null ELSE s[i + 1]
  BY <1>0 DEF Chain
<1>5. TypeOK'
  <2>1. a \in Link /\ head' \in Link /\ tail' \in Link
    BY <1>1 DEF TypeOK, Link
  <2>2. data' \in [Addrs -> Data] /\ allocated' \in SUBSET Addrs
    BY <1>1 DEF TypeOK
  <2> QED BY <1>1, <1>2, <1>3, <2>1, <2>2 DEF TypeOK
<1>6. PICK t : t = With(s, m, n, a)
  OBVIOUS
<1>7. /\ DOMAIN t = 1..(m + 1) /\ t = [i \in 1..(m + 1) |-> t[i]]
      /\ \A i \in 1..m : i <= n => t[i] = s[i]
      /\ t[n + 1] = a
      /\ \A i \in 1..m : i > n => t[i + 1] = s[i]
  <2>1. \A i \in 1..m : i \in 1..(m + 1) /\ i + 1 \in 1..(m + 1) /\ (i + 1) - 1 = i
    BY <1>2
  <2>2. n + 1 \in 1..(m + 1) /\ ~(n + 1 <= n)
    BY <1>2
  <2>3. \A i \in 1..m : i > n => ~(i + 1 <= n) /\ i + 1 # n + 1
    BY <1>2
  <2> QED BY <1>6, <2>1, <2>2, <2>3 DEF With
<1>8. \A i \in 1..(m + 1) : \/ i \in 1..m /\ i <= n
                            \/ i = n + 1
                            \/ i - 1 \in 1..m /\ i - 1 > n /\ (i - 1) + 1 = i
  BY <1>2
<1>9. \A i \in 1..(m + 1) : \/ i \in 1..m /\ i <= n /\ t[i] = s[i]
                            \/ i = n + 1 /\ t[i] = a
                            \/ i - 1 \in 1..m /\ i - 1 > n /\ t[i] = s[i - 1]
  BY <1>7, <1>8
<1>10. t \in [1..(m + 1) -> Addrs]
  BY <1>4, <1>7, <1>9
<1>11. ASSUME NEW i \in 1..(m + 1), NEW j \in 1..(m + 1), t[i] = t[j] PROVE i = j
  BY <1>2, <1>4, <1>9, <1>11
<1>12. allocated' = {t[i] : i \in 1..(m + 1)}
  <2>1. \A i \in 1..m : \E j \in 1..(m + 1) : t[j] = s[i]
    <3>1. \A i \in 1..m : i \in 1..(m + 1) /\ i + 1 \in 1..(m + 1) /\ (i <= n \/ i > n)
      BY <1>2
    <3> QED BY <1>7, <3>1
  <2>2. n + 1 \in 1..(m + 1)
    BY <1>2
  <2>3. \A i \in 1..(m + 1) : t[i] = a \/ \E j \in 1..m : t[i] = s[j]
    BY <1>9
  <2> QED BY <1>1, <1>4, <1>7, <2>1, <2>2, <2>3
<1>13. head' = t[1]
  <2>1. n = 0 \/ (n # 0 /\ m # 0 /\ 1 \in 1..m /\ 1 <= n)
    BY <1>2
  <2> QED BY <1>1, <1>4, <1>7, <2>1
<1>14. tail' = t[m + 1]
  <2>1. n = m \/ (n # m /\ m > 0 /\ m \in 1..m /\ m > n)
    BY <1>2
  <2> QED BY <1>1, <1>4, <1>7, <2>1
<1>15. ASSUME NEW i \in 1..(m + 1)
       PROVE  link'[t[i]] = IF i = m + 1 THEN Null ELSE t[i + 1]
  <2>1. CASE i \in 1..m /\ i <= n /\ t[i] = s[i]
    <3>1. n \in 1..m /\ i # m + 1 /\ n > 0
      BY <1>2, <2>1
    <3>2. CASE i = n
      BY <1>3, <1>4, <1>7, <2>1, <3>1, <3>2
    <3>3. CASE i # n
      <4>1. i # m /\ i + 1 \in 1..m /\ i + 1 <= n
        BY <1>2, <2>1, <3>3
      <4>2. s[i] # s[n] /\ s[i] # a /\ s[i] \in Addrs
        BY <1>4, <2>1, <3>1, <3>3
      <4> QED BY <1>3, <1>4, <1>7, <2>1, <3>1, <4>1, <4>2
    <3> QED BY <3>2, <3>3
  <2>2. CASE i = n + 1 /\ t[i] = a
    <3>1. CASE n = m
      BY <1>3, <2>2, <3>1
    <3>2. CASE n # m
      <4>1. n + 1 \in 1..m /\ n + 1 > n /\ i # m + 1
        BY <1>2, <2>2, <3>2
      <4> QED BY <1>3, <1>7, <2>2, <3>2, <4>1
    <3> QED BY <3>1, <3>2
  <2>3. CASE i - 1 \in 1..m /\ i - 1 > n /\ t[i] = s[i - 1]
    <3>1. s[i - 1] # a /\ s[i - 1] \in Addrs /\ (n > 0 => s[i - 1] # s[n])
      <4>1. n > 0 => n \in 1..m /\ n # i - 1
        BY <1>2, <2>3
      <4> QED BY <1>4, <2>3, <4>1
    <3>2. link'[t[i]] = IF i - 1 = m THEN Null ELSE s[(i - 1) + 1]
      BY <1>3, <1>4, <2>3, <3>1
    <3>3. i - 1 # m => i # m + 1 /\ i \in 1..m /\ i > n /\ (i - 1) + 1 = i
      BY <1>2, <2>3
    <3>4. i - 1 = m <=> i = m + 1
      BY <1>2
    <3> QED BY <1>7, <3>2, <3>3, <3>4
  <2> QED BY <1>9, <2>1, <2>2, <2>3
<1>16. Chain(t)'
  <2>1. size' = m + 1 /\ size' # 0
    BY <1>1, <1>2
  <2>2. \A i, j \in 1..(m + 1) : t[i] = t[j] => i = j
    BY <1>11
  <2>3. \A i \in 1..(m + 1) : link'[t[i]] = IF i = m + 1 THEN Null ELSE t[i + 1]
    BY <1>15
  <2> QED BY <1>10, <1>12, <1>13, <1>14, <2>1, <2>2, <2>3 DEF Chain
<1> QED BY <1>0, <1>1, <1>5, <1>6, <1>16

-----------------------------------------------------------------------------
(* Removing a node, and all of them.                                        *)

LEMMA RemoveKeepsChain ==
  ASSUME TypeOK, NEW s, Chain(s), NEW pos \in Positions, ll_remove_nth_node(pos)
  PROVE  /\ TypeOK' /\ size > 0 /\ data' = data
         /\ \E t : t = Dropped(s, size, Least(pos, size - 1)) /\ Chain(t)'
<1>0. PICK m, n : m = size /\ n = Least(pos, size - 1)
  OBVIOUS
<1>1. /\ s \in [1..m -> Addrs]
      /\ \A i, j \in 1..m : s[i] = s[j] => i = j
      /\ allocated = {s[i] : i \in 1..m}
      /\ head = IF m = 0 THEN Null ELSE s[1]
      /\ m > 0 => tail = s[m]
      /\ \A i \in 1..m : link[s[i]] = IF i = m THEN Null ELSE s[i + 1]
  BY <1>0 DEF Chain
<1>2. m \in Nat /\ m > 0 /\ m - 1 \in Nat /\ n \in 0..(m - 1) /\ n \in Nat /\ n + 1 \in 1..m
  <2>1. size \in Nat /\ pos \in Nat
    BY DEF TypeOK, Positions
  <2>2. head # Null
    BY DEF ll_remove_nth_node
  <2>3. size > 0 /\ size - 1 \in Nat
    BY <1>0, <1>1, <2>1, <2>2
  <2>4. n \in 0..(size - 1)
    BY <1>0, <2>1, <2>3, LeastIs
  <2> QED BY <1>0, <2>1, <2>3, <2>4
<1>3. n > 0 => ll_get_nth_node(n - 1) = s[n] /\ s[n] \in Addrs /\ n \in 1..m /\ link[s[n]] = s[n + 1]
  <2>1. n > 0 => n \in 1..(size - 1) /\ n # m
    BY <1>0, <1>2
  <2> QED BY <1>0, <1>1, <2>1, PrevIs
<1>4. /\ n = 0 => head' = link[head] /\ link' = link /\ tail' = tail
      /\ n # 0 => /\ link' = [link EXCEPT ![s[n]] = link[s[n + 1]]]
                  /\ tail' = IF n = m - 1 THEN s[n] ELSE tail
                  /\ head' = head
      /\ allocated' = allocated \ {s[n + 1]}
      /\ size' = m - 1 /\ data' = data
  <2>1. CASE n = 0
    BY <1>0, <1>1, <1>2, <2>1 DEF ll_remove_nth_node
  <2>2. CASE n # 0
    <3>1. n > 0
      BY <1>2, <2>2
    <3> QED BY <1>0, <1>3, <2>2, <3>1 DEF ll_remove_nth_node
  <2> QED BY <2>1, <2>2
<1>5. s[n + 1] \in Addrs /\ link[s[n + 1]] = IF n + 1 = m THEN Null ELSE s[(n + 1) + 1]
  BY <1>1, <1>2
<1>6. \A x \in Addrs : link'[x] = IF n > 0 /\ x = s[n] THEN link[s[n + 1]] ELSE link[x]
  BY <1>2, <1>3, <1>4 DEF TypeOK
<1>7. TypeOK'
  <2>1. link[head] \in Link /\ link[s[n + 1]] \in Link
    <3>1. head = s[1] /\ s[1] \in Addrs
      BY <1>1, <1>2
    <3> QED BY <1>5, <3>1 DEF TypeOK
  <2>2. head' \in Link /\ tail' \in Link
    <3>1. n > 0 => s[n] \in Link
      BY <1>3 DEF Link
    <3> QED BY <1>2, <1>4, <2>1, <3>1 DEF TypeOK
  <2>3. link' \in [Addrs -> Link]
    BY <1>4, <2>1 DEF TypeOK
  <2> QED BY <1>2, <1>4, <2>2, <2>3 DEF TypeOK
<1>8. PICK t : t = Dropped(s, m, n)
  OBVIOUS
<1>9. /\ DOMAIN t = 1..(m - 1) /\ t = [i \in 1..(m - 1) |-> t[i]]
      /\ \A i \in 1..(m - 1) : \/ i <= n /\ t[i] = s[i]
                               \/ i > n /\ t[i] = s[i + 1]
  BY <1>2, <1>8 DEF Dropped
<1>10. \A i \in 1..(m - 1) : i \in 1..m /\ i + 1 \in 1..m /\ i # m
  BY <1>2
<1>11. t \in [1..(m - 1) -> Addrs]
  BY <1>1, <1>9, <1>10
<1>12. ASSUME NEW i \in 1..(m - 1), NEW j \in 1..(m - 1), t[i] = t[j] PROVE i = j
  BY <1>1, <1>2, <1>9, <1>10, <1>12
<1>13. allocated' = {t[i] : i \in 1..(m - 1)}
  <2>1. ASSUME NEW i \in 1..m, i # n + 1 PROVE \E j \in 1..(m - 1) : t[j] = s[i]
    <3>1. CASE i <= n
      <4>1. i \in 1..(m - 1) /\ ~(i > n)
        BY <1>2, <3>1
      <4> QED BY <1>9, <4>1
    <3>2. CASE i > n
      <4>1. i - 1 \in 1..(m - 1) /\ ~(i - 1 <= n) /\ (i - 1) + 1 = i
        BY <1>2, <2>1, <3>2
      <4> QED BY <1>9, <4>1
    <3> QED BY <1>2, <3>1, <3>2
  <2>2. \A i \in 1..(m - 1) : \E j \in 1..m : j # n + 1 /\ t[i] = s[j]
    <3>1. \A i \in 1..(m - 1) : (i <= n => i # n + 1) /\ (i > n => i + 1 # n + 1)
      BY <1>2
    <3> QED BY <1>9, <1>10, <3>1
  <2>3. \A j \in 1..m : j # n + 1 => s[j] # s[n + 1]
    BY <1>1, <1>2
  <2>4. \A x : x \in allocated' <=> \E j \in 1..m : j # n + 1 /\ x = s[j]
    BY <1>1, <1>4, <2>3
  <2> QED BY <2>1, <2>2, <2>4
<1>14. head' = IF m - 1 = 0 THEN Null ELSE t[1]
  <2>1. CASE n = 0
    <3>1. head' = IF 1 = m THEN Null ELSE s[1 + 1]
      BY <1>1, <1>2, <1>4, <2>1
    <3>2. 1 # m => 1 \in 1..(m - 1) /\ ~(1 <= n)
      BY <1>2, <2>1
    <3>3. 1 # m => t[1] = s[1 + 1]
      BY <1>9, <3>2
    <3>4. 1 = m <=> m - 1 = 0
      BY <1>2
    <3> QED BY <3>1, <3>3, <3>4
  <2>2. CASE n # 0
    <3>1. 1 \in 1..(m - 1) /\ ~(1 > n) /\ m - 1 # 0 /\ m # 0
      BY <1>2, <2>2
    <3> QED BY <1>1, <1>4, <1>9, <2>2, <3>1
  <2> QED BY <2>1, <2>2
<1>15. m - 1 > 0 => tail' = t[m - 1]
  <2> SUFFICES ASSUME m - 1 > 0 PROVE tail' = t[m - 1]
    OBVIOUS
  <2>1. m - 1 \in 1..(m - 1) /\ (m - 1) + 1 = m
    BY <1>2
  <2>2. CASE n = m - 1
    <3>1. n # 0 /\ ~(m - 1 > n)
      BY <1>2, <2>2
    <3> QED BY <1>4, <1>9, <2>1, <2>2, <3>1
  <2>3. CASE n # m - 1
    <3>1. ~(m - 1 <= n)
      BY <1>2, <2>3
    <3> QED BY <1>1, <1>2, <1>4, <1>9, <2>1, <2>3, <3>1
  <2> QED BY <2>2, <2>3
<1>16. ASSUME NEW i \in 1..(m - 1)
       PROVE  link'[t[i]] = IF i = m - 1 THEN Null ELSE t[i + 1]
  <2>0. i # m - 1 => i + 1 \in 1..(m - 1)
    BY <1>2
  <2>1. CASE i <= n /\ t[i] = s[i]
    <3>1. n \in 1..m /\ n > 0
      BY <1>2, <2>1
    <3>2. CASE i = n
      <4>1. link'[t[i]] = IF n + 1 = m THEN Null ELSE s[(n + 1) + 1]
        BY <1>3, <1>5, <1>6, <2>1, <3>1, <3>2
      <4>2. n + 1 = m <=> i = m - 1
        BY <1>2, <3>2
      <4>3. i # m - 1 => ~(i + 1 <= n)
        BY <1>2, <3>2
      <4>4. i # m - 1 => t[i + 1] = s[(n + 1) + 1]
        BY <1>9, <2>0, <3>2, <4>3
      <4> QED BY <4>1, <4>2, <4>4
    <3>3. CASE i # n
      <4>1. i # m - 1 /\ i + 1 <= n /\ ~(i + 1 > n)
        BY <1>2, <2>1, <3>3
      <4>2. s[i] # s[n] /\ s[i] \in Addrs /\ link[s[i]] = s[i + 1]
        BY <1>1, <1>10, <3>1, <3>3
      <4>3. t[i + 1] = s[i + 1]
        BY <1>9, <2>0, <4>1
      <4> QED BY <1>6, <2>1, <4>1, <4>2, <4>3
    <3> QED BY <3>2, <3>3
  <2>2. CASE i > n /\ t[i] = s[i + 1]
    <3>1. s[i + 1] \in Addrs /\ (n > 0 => s[i + 1] # s[n])
      <4>1. n > 0 => n \in 1..m /\ n # i + 1
        BY <1>2, <2>2
      <4> QED BY <1>1, <1>10, <4>1
    <3>2. link'[t[i]] = IF i + 1 = m THEN Null ELSE s[(i + 1) + 1]
      BY <1>1, <1>6, <1>10, <2>2, <3>1
    <3>3. i + 1 = m <=> i = m - 1
      BY <1>2
    <3>4. ~(i + 1 <= n)
      BY <1>2, <2>2
    <3>5. i # m - 1 => t[i + 1] = s[(i + 1) + 1]
      BY <1>9, <2>0, <3>4
    <3> QED BY <3>2, <3>3, <3>5
  <2> QED BY <1>9, <2>1, <2>2
<1>17. Chain(t)'
  <2>1. \A i, j \in 1..(m - 1) : t[i] = t[j] => i = j
    BY <1>12
  <2>2. \A i \in 1..(m - 1) : link'[t[i]] = IF i = m - 1 THEN Null ELSE t[i + 1]
    BY <1>16
  <2> QED BY <1>4, <1>11, <1>13, <1>14, <1>15, <2>1, <2>2 DEF Chain
<1> QED BY <1>0, <1>2, <1>4, <1>7, <1>8, <1>17

(* ll_free gets to every node.                                              *)
LEMMA FreeKeepsChain ==
  ASSUME ListInv, ll_free
  PROVE  TypeOK' /\ size' = 0 /\ \E s : Chain(s)'
<1> PICK s : Chain(s)
  BY DEF ListInv
<1>1. TypeOK /\ size \in Nat /\ allocated \in SUBSET Addrs
  BY DEF ListInv, TypeOK
<1>2. allocated = {NodeAt[k] : k \in 0..(size - 1)} /\ Cardinality(allocated) = size
  BY InvIsSound DEF ChainSound
<1>3. size <= Cardinality(Addrs) /\ Cardinality(Addrs) \in Nat
  BY <1>1, <1>2, LinkedListAssumption, FS_Subset, FS_CardinalityType
<1>4. \A k \in 0..(size - 1) : k \in 0..Cardinality(Addrs)
  BY <1>1, <1>3
<1>5. allocated' = {} /\ head' = Null /\ tail' = Null /\ size' = 0 /\ link' = link /\ data' = data
  BY <1>2, <1>4 DEF ll_free
<1>6. TypeOK'
  BY <1>1, <1>5 DEF TypeOK, Link
<1>7. PICK t : t = [i \in 1..0 |-> Null]
  OBVIOUS
<1>8. Chain(t)'
  BY <1>5, <1>7 DEF Chain
<1> QED BY <1>5, <1>6, <1>8

-----------------------------------------------------------------------------
LEMMA ListInit == Init => ListInv
<1> SUFFICES ASSUME Init PROVE ListInv
  OBVIOUS
<1>1. TypeOK
  BY DEF Init, TypeOK, Link
<1>2. PICK t : t = [i \in 1..0 |-> Null]
  OBVIOUS
<1>3. Chain(t)
  BY <1>2 DEF Init, Chain
<1> QED BY <1>1, <1>3 DEF ListInv, Chain

LEMMA ListStep == ListInv /\ [Next]_vars => ListInv'
<1> SUFFICES ASSUME ListInv, [Next]_vars PROVE ListInv'
  OBVIOUS
<1>0. TypeOK
  BY DEF ListInv
<1> PICK s : Chain(s)
  BY DEF ListInv
<1> SUFFICES TypeOK' /\ \E t : Chain(t)'
  BY DEF ListInv, Chain
<1>1. CASE UNCHANGED vars
  BY <1>0, <1>1 DEF vars, TypeOK, Chain
<1>2. ASSUME NEW pos \in Positions, ll_remove_nth_node(pos) PROVE TypeOK' /\ \E t : Chain(t)'
  BY <1>0, <1>2, RemoveKeepsChain
<1>3. ASSUME NEW pos \in Positions, NEW d \in Data, ll_add_nth_node(pos, d)
      PROVE  TypeOK' /\ \E t : Chain(t)'
  BY <1>0, <1>3, AddKeepsChain
<1>4. CASE ll_free
  BY <1>4, FreeKeepsChain
<1> QED BY <1>1, <1>2, <1>3, <1>4 DEF Next

THEOREM ListInvariance == Spec => []ListInv
<1> QED BY ListInit, ListStep, PTL DEF Spec

(* From the head to NULL there are exactly the size nodes in use, whatever  *)
(* the fresh memory of a node held: none is lost, none is freed too early.  *)
THEOREM ChainIsSound == Spec => []ChainSound
<1> QED BY ListInvariance, InvIsSound, PTL

-----------------------------------------------------------------------------
(* The list is a sequence.                                                  *)

LEMMA InsertedIs ==
  ASSUME NEW S, NEW s \in Seq(S), NEW n \in 0..Len(s), NEW x \in S
  PROVE  SubSeq(s, 1, (n + 1) - 1) \o <<x>> \o SubSeq(s, n + 1, Len(s)) = With(s, Len(s), n, x)
<1>1. Len(s) \in Nat /\ n \in Nat /\ (n + 1) - 1 = n /\ \A i \in 1..Len(s) : s[i] \in S
  BY LenProperties, ElementOfSeq
<1> DEFINE u == SubSeq(s, 1, n)
           v == SubSeq(s, n + 1, Len(s))
           w == u \o <<x>>
<1>2. u \in Seq(S) /\ Len(u) = n /\ \A i \in 1..n : u[i] = s[i]
  BY <1>1, SubSeqProperties
<1>3. v \in Seq(S) /\ Len(v) = Len(s) - n /\ \A i \in 1..(Len(s) - n) : v[i] = s[n + i]
  <2>1. /\ v \in Seq(S) /\ Len(v) = IF n + 1 <= Len(s) THEN Len(s) - (n + 1) + 1 ELSE 0
        /\ \A i \in 1..(Len(s) - (n + 1) + 1) : v[i] = s[(n + 1) + i - 1]
    BY <1>1, SubSeqProperties
  <2>2. Len(s) - (n + 1) + 1 = Len(s) - n /\ (~(n + 1 <= Len(s)) => Len(s) - n = 0)
    BY <1>1
  <2>3. \A i \in 1..(Len(s) - n) : (n + 1) + i - 1 = n + i
    BY <1>1
  <2> HIDE DEF v
  <2> QED BY <2>1, <2>2, <2>3
<1>4. <<x>> \in Seq(S) /\ Len(<<x>>) = 1 /\ <<x>>[1] = x
  OBVIOUS
<1> HIDE DEF u, v
<1>5. w \in Seq(S) /\ Len(w) = n + 1 /\ \A i \in 1..(n + 1) : w[i] = IF i <= n THEN s[i] ELSE x
  <2>1. /\ w \in Seq(S) /\ Len(w) = n + 1
        /\ \A i \in 1..(n + 1) : w[i] = IF i <= n THEN u[i] ELSE <<x>>[i - n]
    BY <1>2, <1>4, ConcatProperties
  <2>2. \A i \in 1..(n + 1) : (i <= n => i \in 1..n) /\ (~(i <= n) => i - n = 1)
    BY <1>1
  <2> HIDE DEF w
  <2> QED BY <1>2, <1>4, <2>1, <2>2
<1> HIDE DEF w
<1>6. /\ w \o v \in Seq(S) /\ Len(w \o v) = Len(s) + 1
      /\ \A i \in 1..(Len(s) + 1) : (w \o v)[i] = IF i <= n + 1 THEN w[i] ELSE v[i - (n + 1)]
  <2>1. /\ w \o v \in Seq(S) /\ Len(w \o v) = Len(w) + Len(v)
        /\ \A i \in 1..(Len(w) + Len(v)) :
             (w \o v)[i] = IF i <= Len(w) THEN w[i] ELSE v[i - Len(w)]
    BY <1>3, <1>5, ConcatProperties
  <2>2. Len(w) + Len(v) = Len(s) + 1
    BY <1>1, <1>3, <1>5
  <2> QED BY <1>5, <2>1, <2>2
<1>7. ASSUME NEW i \in 1..(Len(s) + 1)
      PROVE  (w \o v)[i] = IF i <= n THEN s[i] ELSE IF i = n + 1 THEN x ELSE s[i - 1]
  <2>1. CASE i <= n + 1
    <3>1. i \in 1..(n + 1) /\ (i <= n \/ i = n + 1)
      BY <1>1, <2>1
    <3> QED BY <1>5, <1>6, <2>1, <3>1
  <2>2. CASE ~(i <= n + 1)
    <3>1. i - (n + 1) \in 1..(Len(s) - n) /\ n + (i - (n + 1)) = i - 1 /\ ~(i <= n) /\ i # n + 1
      BY <1>1, <2>2
    <3> QED BY <1>3, <1>6, <2>2, <3>1
  <2> QED BY <2>1, <2>2
<1>8. w \o v = [i \in 1..(Len(s) + 1) |-> (w \o v)[i]]
  BY <1>6, LenProperties
<1>9. w \o v = With(s, Len(s), n, x)
  BY <1>7, <1>8 DEF With
<1> QED BY <1>1, <1>9 DEF u, v, w

(* What a traversal reads.                                                  *)
LEMMA ListIs ==
  ListInv => \A s : Chain(s) =>
    [k \in 1..size |-> data[NodeAt[k - 1]]] = [k \in 1..size |-> data[s[k]]]
<1> SUFFICES ASSUME ListInv, NEW s, Chain(s)
             PROVE  \A k \in 1..size : NodeAt[k - 1] = s[k]
  OBVIOUS
<1>1. TypeOK /\ size \in Nat
  BY DEF ListInv, TypeOK
<1>2. \A k \in 1..size : k - 1 \in 0..(size - 1) /\ (k - 1) + 1 = k
  BY <1>1
<1> QED BY <1>1, <1>2, NodesOfChain

(* The list implements the sequence that list.h promises: every function    *)
(* of list.c does to what a traversal reads what it does to the sequence.   *)
THEOREM ListIsASequence == Spec => ImplementsSequence
<1> DEFINE list == [k \in 1..size |-> data[NodeAt[k - 1]]]
<1>1. Init => Abstract!Init
  <2> SUFFICES ASSUME Init PROVE list = <<>>
    BY DEF Abstract!Init
  <2>1. size = 0
    BY DEF Init
  <2> QED BY <2>1
<1>2. ListInv' => (\A s : Chain(s) =>
        [k \in 1..size |-> data[NodeAt[k - 1]]] = [k \in 1..size |-> data[s[k]]])'
  BY ListIs, PTL
<1>3. ListInv /\ ListInv' /\ [Next]_vars =>
        [/\ ll_free => Abstract!Clear
         /\ \A pos \in Positions :
              /\ ll_remove_nth_node(pos) => Abstract!Delete(pos)
              /\ \A d \in Data : ll_add_nth_node(pos, d) => Abstract!Add(pos, d)]_vars
  <2> SUFFICES ASSUME ListInv, ListInv'
               PROVE  /\ ll_free => Abstract!Clear
                      /\ \A pos \in Positions :
                           /\ ll_remove_nth_node(pos) => Abstract!Delete(pos)
                           /\ \A d \in Data : ll_add_nth_node(pos, d) => Abstract!Add(pos, d)
    OBVIOUS
  <2>0. TypeOK /\ size \in Nat
    BY DEF ListInv, TypeOK
  <2> PICK s : Chain(s)
    BY DEF ListInv
  <2> PICK m, old : m = size /\ old = list
    OBVIOUS
  <2>1. /\ old = [k \in 1..m |-> data[s[k]]]
        /\ m \in Nat /\ s \in [1..m -> Addrs] /\ allocated = {s[k] : k \in 1..m}
    BY <2>0, ListIs DEF Chain
  <2>2. old \in Seq(Data) /\ Len(old) = m
    BY <2>0, <2>1 DEF TypeOK
  <2>3. ASSUME ll_free PROVE Abstract!Clear
    <3>1. size' = 0
      BY <2>3 DEF ll_free
    <3>2. list' = <<>>
      BY <3>1
    <3> QED BY <3>2 DEF Abstract!Clear
  <2>4. ASSUME NEW pos \in Positions, ll_remove_nth_node(pos) PROVE Abstract!Delete(pos)
    <3> PICK n : n = Least(pos, m - 1)
      OBVIOUS
    <3>1. PICK t : t = Dropped(s, m, n) /\ Chain(t)'
      BY <2>0, <2>4, RemoveKeepsChain
    <3>2. data' = data /\ size' = m - 1 /\ m > 0
      BY <2>0, <2>4, RemoveKeepsChain DEF ll_remove_nth_node
    <3>3. list' = [k \in 1..(m - 1) |-> data[t[k]]]
      BY <1>2, <3>1, <3>2
    <3>4. n \in 0..(m - 1) /\ n + 1 = IF pos < m THEN pos + 1 ELSE m
      BY <2>1, <3>2 DEF Least, Positions
    <3>5. list' = Dropped(old, m, n)
      <4>1. \A k \in 1..(m - 1) : k \in 1..m /\ k + 1 \in 1..m
        BY <2>1
      <4>2. \A k \in 1..(m - 1) : t[k] = IF k <= n THEN s[k] ELSE s[k + 1]
        BY <3>1 DEF Dropped
      <4>3. \A k \in 1..(m - 1) : data[t[k]] = IF k <= n THEN old[k] ELSE old[k + 1]
        BY <2>1, <4>1, <4>2
      <4> QED BY <3>3, <4>3 DEF Dropped
    <3>6. list' = SubSeq(old, 1, (n + 1) - 1) \o SubSeq(old, (n + 1) + 1, Len(old))
      <4>1. SubSeq(old, 1, (n + 1) - 1) \o SubSeq(old, (n + 1) + 1, Len(old))
              = Dropped(old, Len(old), n)
        <5>1. n \in 0..(Len(old) - 1)
          BY <2>2, <3>4
        <5> QED BY <2>2, <5>1, RemovedIs
      <4> HIDE DEF list
      <4> QED BY <2>2, <3>5, <4>1
    <3>7. old # <<>>
      <4>1. m # 0 /\ Len(<<>>) = 0
        BY <2>1, <3>2
      <4> QED BY <2>2, <4>1
    <3> QED BY <2>2, <3>4, <3>6, <3>7 DEF Abstract!Delete, Abstract!RemoveAt
  <2>5. ASSUME NEW pos \in Positions, NEW d \in Data, ll_add_nth_node(pos, d)
        PROVE  Abstract!Add(pos, d)
    <3> PICK n : n = Least(pos, m)
      OBVIOUS
    <3>0. PICK a \in Addrs \ allocated :
            \E t : t = With(s, m, n, a) /\ Chain(t)' /\ data' = [data EXCEPT ![a] = d]
      BY <2>0, <2>5, AddKeepsChain
    <3>1. PICK t : t = With(s, m, n, a) /\ Chain(t)' /\ data' = [data EXCEPT ![a] = d]
      BY <3>0
    <3>2. size' = m + 1
      BY <2>5 DEF ll_add_nth_node
    <3>3. list' = [k \in 1..(m + 1) |-> data'[t[k]]]
      BY <1>2, <3>1, <3>2
    <3>4. n \in 0..m /\ n + 1 = IF pos < m THEN pos + 1 ELSE m + 1
      BY <2>1 DEF Least, Positions
    <3>5. list' = With(old, m, n, d)
      <4>1. \A k \in 1..(m + 1) : \/ k <= n /\ k \in 1..m
                                  \/ ~(k <= n) /\ k = n + 1
                                  \/ ~(k <= n) /\ k # n + 1 /\ k - 1 \in 1..m
        BY <2>1, <3>4
      <4>2. \A k \in 1..(m + 1) : t[k] = IF k <= n THEN s[k] ELSE IF k = n + 1 THEN a ELSE s[k - 1]
        BY <3>1 DEF With
      <4>3. data'[a] = d /\ \A k \in 1..m : data'[s[k]] = old[k]
        BY <2>0, <2>1, <3>1 DEF TypeOK
      <4>4. \A k \in 1..(m + 1) :
              data'[t[k]] = IF k <= n THEN old[k] ELSE IF k = n + 1 THEN d ELSE old[k - 1]
        BY <4>1, <4>2, <4>3
      <4> QED BY <3>3, <4>4 DEF With
    <3>6. list' = SubSeq(old, 1, (n + 1) - 1) \o <<d>> \o SubSeq(old, n + 1, Len(old))
      <4>1. SubSeq(old, 1, (n + 1) - 1) \o <<d>> \o SubSeq(old, n + 1, Len(old))
              = With(old, Len(old), n, d)
        <5>1. n \in 0..Len(old)
          BY <2>2, <3>4
        <5> QED BY <2>2, <5>1, InsertedIs
      <4> HIDE DEF list
      <4> QED BY <2>2, <3>5, <4>1
    <3> QED BY <2>2, <3>4, <3>6 DEF Abstract!Add, Abstract!InsertAt
  <2> QED BY <2>3, <2>4, <2>5
<1> QED BY <1>1, <1>3, ListInvariance, PTL DEF Spec, ImplementsSequence
=============================================================================
