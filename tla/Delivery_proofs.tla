----------------------------- MODULE Delivery_proofs -----------------------------
(***************************************************************************)
(* Proofs about Delivery: while every recv() takes a whole message or finds *)
(* the end of the stream, the subscriber stays at the boundaries of the     *)
(* messages, and shows all of them before it stops; and, whatever recv()    *)
(* does, a message read at its boundaries shows what was published.         *)
(***************************************************************************)
EXTENDS Delivery, SequenceTheorems, TLAPS

-----------------------------------------------------------------------------
(* Sequences of n elements, whatever these are.                             *)
Row(s, n) == n \in Nat /\ Len(s) = n /\ \E A : s \in Seq(A)

LEMMA RowOf ==
  ASSUME NEW A, NEW s \in Seq(A)
  PROVE  Row(s, Len(s)) /\ Len(s) \in Nat
BY LenProperties DEF Row

(* u is s with t behind it.                                                 *)
Joined(u, s, t, m, n) ==
  /\ Row(u, m + n)
  /\ \A i \in 1..m : u[i] = s[i]
  /\ \A i \in 1..n : u[m + i] = t[i]

LEMMA RowJoin ==
  ASSUME NEW s, NEW t, NEW m, NEW n, Row(s, m), Row(t, n)
  PROVE  Joined(s \o t, s, t, m, n)
<1>1. PICK A, B : s \in Seq(A) /\ t \in Seq(B)
  BY DEF Row
<1>2. PICK C : C = A \cup B
  OBVIOUS
<1>3. s \in Seq(C) /\ t \in Seq(C)
  BY <1>1, <1>2, SeqMonotonic
<1>4. PICK u : u = s \o t
  OBVIOUS
<1>5. /\ u \in Seq(C) /\ Len(u) = m + n
      /\ \A i \in 1..(m + n) : u[i] = IF i <= m THEN s[i] ELSE t[i - m]
  BY <1>3, <1>4, ConcatProperties DEF Row
<1>6. /\ m \in Nat /\ n \in Nat /\ m + n \in Nat
      /\ \A i \in 1..m : i \in 1..(m + n) /\ i <= m
      /\ \A i \in 1..n : m + i \in 1..(m + n) /\ ~(m + i <= m) /\ (m + i) - m = i
  BY DEF Row
<1>7. Joined(u, s, t, m, n)
  BY <1>5, <1>6 DEF Row, Joined
<1> QED BY <1>4, <1>7

LEMMA RowCut ==
  ASSUME NEW s, NEW l, Row(s, l), NEW m \in Nat \ {0}, NEW n \in Int, n <= l
  PROVE  /\ Row(SubSeq(s, m, n), IF m <= n THEN n - m + 1 ELSE 0)
         /\ \A i \in 1..(n - m + 1) : SubSeq(s, m, n)[i] = s[m + i - 1]
<1>1. PICK A : s \in Seq(A)
  BY DEF Row
<1>2. \A i \in m..n : s[i] \in A
  <2>1. \A i \in m..n : i \in 1..Len(s)
    BY DEF Row
  <2> QED BY <1>1, <2>1, ElementOfSeq
<1>3. PICK t : t = SubSeq(s, m, n)
  OBVIOUS
<1>4. /\ t \in Seq(A) /\ Len(t) = IF m <= n THEN n - m + 1 ELSE 0
      /\ \A i \in 1..(n - m + 1) : t[i] = s[m + i - 1]
  BY <1>2, <1>3, SubSeqProperties
<1>5. (IF m <= n THEN n - m + 1 ELSE 0) \in Nat
  OBVIOUS
<1> QED BY <1>3, <1>4, <1>5 DEF Row

LEMMA RowAppend ==
  ASSUME NEW s, NEW n, Row(s, n), NEW x
  PROVE  /\ Row(Append(s, x), n + 1)
         /\ \A i \in 1..n : Append(s, x)[i] = s[i]
         /\ Append(s, x)[n + 1] = x
<1>1. PICK A : s \in Seq(A)
  BY DEF Row
<1>2. PICK B : B = A \cup {x}
  OBVIOUS
<1>3. s \in Seq(B) /\ x \in B
  BY <1>1, <1>2, SeqMonotonic
<1>4. PICK u : u = Append(s, x)
  OBVIOUS
<1>5. u \in Seq(B) /\ Len(u) = n + 1 /\ (\A i \in 1..n : u[i] = s[i]) /\ u[n + 1] = x
  BY <1>3, <1>4, AppendProperties DEF Row
<1>6. Row(u, n + 1)
  BY <1>5 DEF Row
<1> QED BY <1>4, <1>5, <1>6

LEMMA RowOne ==
  ASSUME NEW x
  PROVE  Row(<<x>>, 1) /\ <<x>>[1] = x
<1>1. <<x>> \in Seq({x}) /\ Len(<<x>>) = 1 /\ <<x>>[1] = x
  OBVIOUS
<1> QED BY <1>1 DEF Row

(* A sequence of n elements, x the first.                                   *)
Headed(s, n, x) == Row(s, n) /\ n # 0 /\ s[1] = x

LEMMA RowThen ==
  ASSUME NEW s, NEW t, NEW m, NEW n, NEW x, Headed(s, m, x), Row(t, n), NEW l, l = m + n
  PROVE  Headed(s \o t, l, x)
<1>1. PICK u : u = s \o t
  OBVIOUS
<1>2. Joined(u, s, t, m, n)
  BY <1>1, RowJoin DEF Headed
<1>3. Row(u, m + n) /\ u[1] = s[1] /\ m \in Nat /\ m # 0 /\ n \in Nat
  BY <1>2 DEF Joined, Headed, Row
<1> QED BY <1>1, <1>3 DEF Headed

LEMMA RowFill ==
  ASSUME NEW x, NEW n \in Nat
  PROVE  Row(Fill(x, n), n) /\ \A i \in 1..n : Fill(x, n)[i] = x
<1>1. Fill(x, n) \in Seq({x}) /\ Len(Fill(x, n)) = n /\ \A i \in 1..n : Fill(x, n)[i] = x
  BY DEF Fill
<1> QED BY <1>1 DEF Row

LEMMA RowStore ==
  ASSUME NEW k, NEW n \in Nat
  PROVE  Row(Store(k, n), n)
<1>1. PICK f : f = Store(k, n)
  OBVIOUS
<1>2. f = [i \in 1..n |-> f[i]]
  BY <1>1 DEF Store
<1>3. f \in Seq({f[i] : i \in 1..n}) /\ Len(f) = n
  BY <1>2
<1> QED BY <1>1, <1>3 DEF Row

LEMMA RowReverse ==
  ASSUME NEW s, NEW n, Row(s, n)
  PROVE  Row(Seqs!Reverse(s), n)
<1>1. PICK A : s \in Seq(A)
  BY DEF Row
<1>2. PICK t : t = Seqs!Reverse(s)
  OBVIOUS
<1>3. t = [i \in 1..n |-> s[(n - i) + 1]] /\ n \in Nat
  BY <1>2 DEF Seqs!Reverse, Row
<1>4. \A i \in 1..n : s[(n - i) + 1] \in A
  BY <1>1, <1>3 DEF Row
<1>5. t \in Seq(A) /\ Len(t) = n
  BY <1>3, <1>4
<1> QED BY <1>2, <1>3, <1>5 DEF Row

LEMMA RowBigEndian ==
  ASSUME NEW k, NEW n \in Nat
  PROVE  Row(BigEndian(k, n), n)
BY RowStore, RowReverse DEF BigEndian

LEMMA SameRow ==
  ASSUME NEW s, NEW t, NEW n, Row(s, n), Row(t, n), \A i \in 1..n : s[i] = t[i]
  PROVE  s = t
<1>1. PICK A, B : s \in Seq(A) /\ t \in Seq(B)
  BY DEF Row
<1>2. PICK C : C = A \cup B
  OBVIOUS
<1>3. s \in Seq(C) /\ t \in Seq(C)
  BY <1>1, <1>2, SeqMonotonic
<1>4. Len(s) = Len(t) /\ \A i \in 1..Len(s) : s[i] = t[i]
  BY DEF Row
<1> QED BY <1>3, <1>4, SeqEqual

-----------------------------------------------------------------------------
(* Arithmetic with a base that is a parameter.                              *)

LEMMA TimesMonotonic ==
  ASSUME NEW b \in Nat, NEW x \in Int, NEW y \in Int, x <= y
  PROVE  b * x <= b * y
OBVIOUS

LEMMA DivMod ==
  ASSUME NEW b \in Nat \ {0}, NEW n \in Int
  PROVE  n = b * (n \div b) + (n % b) /\ n \div b \in Int /\ n % b \in 0..(b - 1)
<1>1. b \in Int /\ b > 0
  OBVIOUS
<1>2. PICK q, r : q = n \div b /\ r = n % b
  OBVIOUS
<1>3. n = b * q + r
  BY <1>1, <1>2
<1>4. q \in Int /\ r \in 0..(b - 1)
  BY <1>1, <1>2
<1> QED BY <1>2, <1>3, <1>4

LEMMA SameDivMod ==
  ASSUME NEW b \in Nat \ {0}, NEW p \in Int, NEW q \in Int,
         NEW r \in 0..(b - 1), NEW s \in 0..(b - 1), b * p + r = b * q + s
  PROVE  ~(p < q)
<1> SUFFICES ASSUME p + 1 <= q PROVE FALSE
  OBVIOUS
<1>1. b * (p + 1) <= b * q
  BY TimesMonotonic
<1>2. b * (p + 1) = b * p + b
  OBVIOUS
<1>3. PICK u, v : u = b * p /\ v = b * q
  OBVIOUS
<1>4. u \in Int /\ v \in Int
  BY <1>3
<1> QED BY <1>1, <1>2, <1>3, <1>4

LEMMA DivModUnique ==
  ASSUME NEW b \in Nat \ {0}, NEW n \in Int, NEW q \in Int, NEW r \in 0..(b - 1), n = b * q + r
  PROVE  n \div b = q /\ n % b = r
<1>1. PICK p, s : p = n \div b /\ s = n % b
  OBVIOUS
<1>2. n = b * p + s /\ p \in Int /\ s \in 0..(b - 1)
  BY <1>1, DivMod
<1>3. b * p + s = b * q + r
  BY <1>2
<1>4. ~(p < q) /\ ~(q < p)
  BY <1>2, <1>3, SameDivMod
<1>5. p = q /\ b * p = b * q
  BY <1>2, <1>4
<1>6. PICK u : u = b * q
  OBVIOUS
<1>7. u \in Int /\ u + s = u + r
  BY <1>3, <1>5, <1>6
<1>8. r = s
  BY <1>2, <1>7
<1> QED BY <1>1, <1>5, <1>8

LEMMA SmallMod ==
  ASSUME NEW b \in Nat \ {0}, NEW r \in 0..(b - 1)
  PROVE  r % b = r
<1>1. PICK n : n = b * 0 + r
  OBVIOUS
<1>2. n \in Int /\ n = r
  BY <1>1
<1>3. n % b = r
  BY <1>1, <1>2, DivModUnique
<1> QED BY <1>2, <1>3

(* A digit less: the quotient of a number below b * m is below m.            *)
LEMMA DivLess ==
  ASSUME NEW b \in Nat \ {0}, NEW m \in Nat, NEW n \in 0..(b * m - 1)
  PROVE  n \div b \in 0..(m - 1)
<1>1. b * m \in Nat
  OBVIOUS
<1>2. n \in Int /\ 0 <= n /\ n < b * m
  BY <1>1
<1>3. PICK q, r : q = n \div b /\ r = n % b
  OBVIOUS
<1>4. n = b * q + r /\ q \in Int /\ r \in 0..(b - 1)
  BY <1>2, <1>3, DivMod
<1>5. q < m
  <2> SUFFICES ASSUME m <= q PROVE FALSE
    BY <1>4
  <2>1. b * m <= b * q
    BY <1>4, TimesMonotonic
  <2> QED BY <1>1, <1>2, <1>4, <2>1
<1>6. 0 <= q
  <2> SUFFICES ASSUME q <= -1 PROVE FALSE
    BY <1>4
  <2>1. b * q <= b * (-1)
    BY <1>4, TimesMonotonic
  <2>2. b * (-1) = -b
    OBVIOUS
  <2>3. b * q \in Int
    BY <1>4
  <2> QED BY <1>2, <1>4, <2>1, <2>2, <2>3
<1> QED BY <1>3, <1>4, <1>5, <1>6

-----------------------------------------------------------------------------
(* Numbers of up to four bytes.                                             *)

LEMMA BaseIs == Base \in Nat \ {0} /\ Base > 4 /\ Base % 2 = 0
BY MessagesAssumption

(* s is n bytes.                                                            *)
Bytes(s, n) == Row(s, n) /\ \A i \in 1..n : s[i] \in Byte

(* What is left of k before its i-th digit.                                 *)
Left(k, i) ==
  IF i = 1 THEN k
  ELSE IF i = 2 THEN k \div Base
  ELSE IF i = 3 THEN (k \div Base) \div Base
  ELSE ((k \div Base) \div Base) \div Base

LEMMA StoreIs ==
  ASSUME NEW k, NEW n \in 0..4
  PROVE  /\ Row(Store(k, n), n)
         /\ \A i \in 1..n : Store(k, n)[i] = Left(k, i) % Base
<1> DEFINE Is(h) == h = [i \in 1..n |-> IF i = 1 THEN k ELSE h[i - 1] \div Base]
<1>1. \E h : Is(h)
  <2>1. PICK g : g = [i \in 1..n |-> Left(k, i)]
    OBVIOUS
  <2>2. \A i \in 1..n : g[i] = IF i = 1 THEN k ELSE g[i - 1] \div Base
    <3> SUFFICES ASSUME NEW i \in 1..n, i # 1 PROVE g[i] = g[i - 1] \div Base
      BY <2>1 DEF Left
    <3>1. i - 1 \in 1..n /\ (i = 2 \/ i = 3 \/ i = 4)
      OBVIOUS
    <3>2. g[i] = Left(k, i) /\ g[i - 1] = Left(k, i - 1)
      BY <2>1, <3>1
    <3>3. Left(k, i) = Left(k, i - 1) \div Base
      BY <3>1 DEF Left
    <3> QED BY <3>2, <3>3
  <2> QED BY <2>1, <2>2
<1>2. PICK left : left = CHOOSE h : Is(h)
  OBVIOUS
<1>3. Is(left)
  BY <1>1, <1>2
<1>4. Store(k, n) = [i \in 1..n |-> left[i] % Base]
  <2>1. Shifts(k, n) = left
    BY <1>2 DEF Shifts
  <2> QED BY <2>1 DEF Store
<1>5. \A i \in 1..n : left[i] = Left(k, i)
  <2>1. \A i \in 1..n : left[i] = IF i = 1 THEN k ELSE left[i - 1] \div Base
    BY <1>3
  <2>2. 1 \in 1..n => left[1] = Left(k, 1)
    BY <2>1 DEF Left
  <2>3. 2 \in 1..n => left[2] = Left(k, 2)
    <3>1. 2 \in 1..n => 1 \in 1..n /\ left[2] = left[2 - 1] \div Base /\ 2 - 1 = 1
      BY <2>1
    <3> QED BY <2>2, <3>1 DEF Left
  <2>4. 3 \in 1..n => left[3] = Left(k, 3)
    <3>1. 3 \in 1..n => 2 \in 1..n /\ left[3] = left[3 - 1] \div Base /\ 3 - 1 = 2
      BY <2>1
    <3> QED BY <2>3, <3>1 DEF Left
  <2>5. 4 \in 1..n => left[4] = Left(k, 4)
    <3>1. 4 \in 1..n => 3 \in 1..n /\ left[4] = left[4 - 1] \div Base /\ 4 - 1 = 3
      BY <2>1
    <3> QED BY <2>4, <3>1 DEF Left
  <2>6. \A i \in 1..n : i = 1 \/ i = 2 \/ i = 3 \/ i = 4
    OBVIOUS
  <2> QED BY <2>2, <2>3, <2>4, <2>5, <2>6
<1> QED BY <1>4, <1>5, RowStore

LEMMA LoadTwo ==
  ASSUME NEW s, Len(s) = 2
  PROVE  Load(s) = s[1] + Base * (s[2] + Base * 0)
<1> DEFINE Is(h) == h = [k \in 1..(Len(s) + 1) |-> IF k = Len(s) + 1 THEN 0 ELSE s[k] + Base * h[k + 1]]
<1>1. \E h : Is(h)
  <2>1. PICK g : g = [k \in 1..3 |-> IF k = 3 THEN 0 ELSE IF k = 2 THEN s[2] + Base * 0
                                     ELSE s[1] + Base * (s[2] + Base * 0)]
    OBVIOUS
  <2>2. g[3] = 0 /\ g[2] = s[2] + Base * 0 /\ g[1] = s[1] + Base * (s[2] + Base * 0)
    BY <2>1
  <2>3. \A k \in 1..3 : g[k] = IF k = 3 THEN 0 ELSE s[k] + Base * g[k + 1]
    <3>1. \A k \in 1..3 : k = 1 \/ k = 2 \/ k = 3
      OBVIOUS
    <3>2. 1 + 1 = 2 /\ 2 + 1 = 3
      OBVIOUS
    <3> QED BY <2>2, <3>1, <3>2
  <2>4. g = [k \in 1..3 |-> IF k = 3 THEN 0 ELSE s[k] + Base * g[k + 1]]
    BY <2>1, <2>3
  <2>5. Len(s) + 1 = 3
    OBVIOUS
  <2> QED BY <2>4, <2>5
<1>2. PICK from : from = CHOOSE h : Is(h)
  OBVIOUS
<1>3. Is(from)
  BY <1>1, <1>2
<1>4. Load(s) = from[1]
  BY <1>2 DEF Load
<1>5. \A k \in 1..3 : from[k] = IF k = 3 THEN 0 ELSE s[k] + Base * from[k + 1]
  <2>1. Len(s) + 1 = 3
    OBVIOUS
  <2> QED BY <1>3, <2>1
<1>6. from[3] = 0 /\ from[2] = s[2] + Base * from[2 + 1] /\ from[1] = s[1] + Base * from[1 + 1]
  BY <1>5
<1>7. 2 + 1 = 3 /\ 1 + 1 = 2
  OBVIOUS
<1> QED BY <1>4, <1>6, <1>7

LEMMA LoadFour ==
  ASSUME NEW s, Len(s) = 4
  PROVE  Load(s) = s[1] + Base * (s[2] + Base * (s[3] + Base * (s[4] + Base * 0)))
<1> DEFINE Is(h) == h = [k \in 1..(Len(s) + 1) |-> IF k = Len(s) + 1 THEN 0 ELSE s[k] + Base * h[k + 1]]
<1>1. \E h : Is(h)
  <2>1. PICK w, x, y, z : /\ z = s[4] + Base * 0 /\ y = s[3] + Base * z
                          /\ x = s[2] + Base * y /\ w = s[1] + Base * x
    OBVIOUS
  <2>2. PICK g : g = [k \in 1..5 |-> IF k = 5 THEN 0 ELSE IF k = 4 THEN z
                                     ELSE IF k = 3 THEN y ELSE IF k = 2 THEN x ELSE w]
    OBVIOUS
  <2>3. g[5] = 0 /\ g[4] = z /\ g[3] = y /\ g[2] = x /\ g[1] = w
    BY <2>2
  <2>4. \A k \in 1..5 : g[k] = IF k = 5 THEN 0 ELSE s[k] + Base * g[k + 1]
    <3>1. \A k \in 1..5 : k = 1 \/ k = 2 \/ k = 3 \/ k = 4 \/ k = 5
      OBVIOUS
    <3>2. 1 + 1 = 2 /\ 2 + 1 = 3 /\ 3 + 1 = 4 /\ 4 + 1 = 5
      OBVIOUS
    <3> QED BY <2>1, <2>3, <3>1, <3>2
  <2>5. g = [k \in 1..5 |-> IF k = 5 THEN 0 ELSE s[k] + Base * g[k + 1]]
    BY <2>2, <2>4
  <2>6. Len(s) + 1 = 5
    OBVIOUS
  <2> QED BY <2>5, <2>6
<1>2. PICK from : from = CHOOSE h : Is(h)
  OBVIOUS
<1>3. Is(from)
  BY <1>1, <1>2
<1>4. Load(s) = from[1]
  BY <1>2 DEF Load
<1>5. \A k \in 1..5 : from[k] = IF k = 5 THEN 0 ELSE s[k] + Base * from[k + 1]
  <2>1. Len(s) + 1 = 5
    OBVIOUS
  <2> QED BY <1>3, <2>1
<1>6. /\ from[5] = 0 /\ from[4] = s[4] + Base * from[4 + 1] /\ from[3] = s[3] + Base * from[3 + 1]
      /\ from[2] = s[2] + Base * from[2 + 1] /\ from[1] = s[1] + Base * from[1 + 1]
  BY <1>5
<1>7. 4 + 1 = 5 /\ 3 + 1 = 4 /\ 2 + 1 = 3 /\ 1 + 1 = 2
  OBVIOUS
<1> QED BY <1>4, <1>6, <1>7

(* The numbers that n bytes hold.                                           *)
Holds(n) == IF n = 2 THEN Short ELSE Word

LEMMA RangesAre ==
  /\ Short = Base * Base /\ Short \in Nat \ {0}
  /\ Base * Short \in Nat /\ Base * (Base * Short) \in Nat
  /\ Word = Base * (Base * (Base * Base)) /\ Word \in Nat \ {0}
<1>1. Base \in Nat /\ Base # 0
  BY BaseIs
<1>2. Short = Base * Base /\ Word = (Base * Base) * (Base * Base)
  BY DEF Short, Word
<1>3. Base * Base \in Nat \ {0}
  BY <1>1
<1>4. PICK q : q = Base * Base
  OBVIOUS
<1>5. q \in Nat \ {0} /\ q * q \in Nat \ {0} /\ q * q = Base * (Base * q)
  <2>1. q \in Nat \ {0}
    BY <1>3, <1>4
  <2>2. q * q \in Nat /\ q * q # 0
    BY <2>1
  <2>3. (Base * Base) * q = Base * (Base * q)
    BY <1>1, <2>1
  <2> QED BY <1>4, <2>1, <2>2, <2>3
<1> QED BY <1>1, <1>2, <1>4, <1>5

LEMMA LoadStore ==
  ASSUME NEW n \in {2, 4}, NEW k \in 0..(Holds(n) - 1)
  PROVE  Bytes(Store(k, n), n) /\ Load(Store(k, n)) = k
<1>1. PICK b, s : b = Base /\ s = Store(k, n)
  OBVIOUS
<1>2. b \in Nat \ {0} /\ Base \in Nat \ {0}
  BY <1>1, BaseIs
<1>3. Row(s, n) /\ \A i \in 1..n : s[i] = Left(k, i) % b
  BY <1>1, StoreIs
<1>4. k \in Int
  <2>1. Holds(n) \in Nat
    BY RangesAre DEF Holds
  <2> QED BY <2>1
<1>5. PICK k2, k3, k4 : k2 = k \div b /\ k3 = k2 \div b /\ k4 = k3 \div b
  OBVIOUS
<1>6. /\ k = b * k2 + (k % b) /\ k2 \in Int /\ k % b \in 0..(b - 1)
      /\ k2 = b * k3 + (k2 % b) /\ k3 \in Int /\ k2 % b \in 0..(b - 1)
      /\ k3 = b * k4 + (k3 % b) /\ k4 \in Int /\ k3 % b \in 0..(b - 1)
  <2>1. k = b * k2 + (k % b) /\ k2 \in Int /\ k % b \in 0..(b - 1)
    <3>1. k = b * (k \div b) + (k % b) /\ k \div b \in Int /\ k % b \in 0..(b - 1)
      BY <1>2, <1>4, DivMod
    <3> QED BY <1>5, <3>1
  <2>2. k2 = b * k3 + (k2 % b) /\ k3 \in Int /\ k2 % b \in 0..(b - 1)
    BY <1>2, <1>5, <2>1, DivMod
  <2>3. k3 = b * k4 + (k3 % b) /\ k4 \in Int /\ k3 % b \in 0..(b - 1)
    BY <1>2, <1>5, <2>2, DivMod
  <2> QED BY <2>1, <2>2, <2>3
<1>7. Byte = 0..(b - 1)
  BY <1>1 DEF Byte
<1>8. CASE n = 2
  <2>1. s[1] = k % b /\ s[2] = k2 % b
    BY <1>1, <1>3, <1>5, <1>8 DEF Left
  <2>2. k2 \in 0..(b - 1)
    <3>1. k \in 0..(b * b - 1)
      BY <1>1, <1>8, RangesAre DEF Holds
    <3> QED BY <1>2, <1>5, <3>1, DivLess
  <2>3. k2 % b = k2
    BY <1>2, <2>2, SmallMod
  <2>4. Load(s) = s[1] + b * (s[2] + b * 0)
    BY <1>1, <1>3, <1>8, LoadTwo DEF Row
  <2>5. s[2] + b * 0 = k2
    BY <1>2, <1>6, <2>1, <2>3
  <2>6. b * k2 \in Int
    BY <1>2, <1>6
  <2>7. Load(s) = k
    <3>1. PICK u, r : u = b * k2 /\ r = k % b
      OBVIOUS
    <3>2. r + u = u + r
      BY <1>6, <2>6, <3>1
    <3> QED BY <1>6, <2>1, <2>4, <2>5, <3>1, <3>2
  <2>8. \A i \in 1..n : i = 1 \/ i = 2
    BY <1>8
  <2>9. Bytes(s, n)
    BY <1>3, <1>6, <1>7, <2>1, <2>8 DEF Bytes
  <2> QED BY <1>1, <2>7, <2>9
<1>9. CASE n = 4
  <2>1. s[1] = k % b /\ s[2] = k2 % b /\ s[3] = k3 % b /\ s[4] = k4 % b
    BY <1>1, <1>3, <1>5, <1>9 DEF Left
  <2>2. k4 \in 0..(b - 1)
    <3>1. k \in 0..(b * (b * (b * b)) - 1)
      BY <1>1, <1>9, RangesAre DEF Holds
    <3>2. k2 \in 0..(b * (b * b) - 1)
      <4>1. b * (b * b) \in Nat
        BY <1>1, RangesAre
      <4> QED BY <1>2, <1>5, <3>1, <4>1, DivLess
    <3>3. k3 \in 0..(b * b - 1)
      <4>1. b * b \in Nat
        BY <1>1, RangesAre
      <4> QED BY <1>2, <1>5, <3>2, <4>1, DivLess
    <3> QED BY <1>2, <1>5, <3>3, DivLess
  <2>3. k4 % b = k4
    BY <1>2, <2>2, SmallMod
  <2>4. Load(s) = s[1] + b * (s[2] + b * (s[3] + b * (s[4] + b * 0)))
    BY <1>1, <1>3, <1>9, LoadFour DEF Row
  <2>5. s[4] + b * 0 = k4
    BY <1>2, <1>6, <2>1, <2>3
  <2>6. s[3] + b * k4 = k3
    <3>1. PICK u, r : u = b * k4 /\ r = k3 % b
      OBVIOUS
    <3>2. u \in Int
      BY <1>2, <1>6, <3>1
    <3> QED BY <1>6, <2>1, <3>1, <3>2
  <2>7. s[2] + b * k3 = k2
    <3>1. PICK u, r : u = b * k3 /\ r = k2 % b
      OBVIOUS
    <3>2. u \in Int
      BY <1>2, <1>6, <3>1
    <3> QED BY <1>6, <2>1, <3>1, <3>2
  <2>8. s[1] + b * k2 = k
    <3>1. PICK u, r : u = b * k2 /\ r = k % b
      OBVIOUS
    <3>2. u \in Int
      BY <1>2, <1>6, <3>1
    <3> QED BY <1>6, <2>1, <3>1, <3>2
  <2>9. Load(s) = k
    BY <2>4, <2>5, <2>6, <2>7, <2>8
  <2>10. \A i \in 1..n : i = 1 \/ i = 2 \/ i = 3 \/ i = 4
    BY <1>9
  <2>11. k4 % b \in 0..(b - 1)
    BY <2>2, <2>3
  <2>12. Bytes(s, n)
    BY <1>3, <1>6, <1>7, <2>1, <2>10, <2>11 DEF Bytes
  <2> QED BY <1>1, <2>9, <2>12
<1> QED BY <1>8, <1>9

LEMMA StoreLoadTwo ==
  ASSUME NEW s, Bytes(s, 2)
  PROVE  Store(Load(s), 2) = s
<1>1. PICK b, w, x, k : b = Base /\ w = s[1] /\ x = s[2] /\ k = Load(s)
  OBVIOUS
<1>2. b \in Nat \ {0} /\ w \in 0..(b - 1) /\ x \in 0..(b - 1)
  BY <1>1, BaseIs DEF Bytes, Byte
<1>3. k = b * x + w /\ k \in Int
  <2>1. k = w + b * (x + b * 0)
    BY <1>1, LoadTwo DEF Bytes, Row
  <2>2. x + b * 0 = x
    BY <1>2
  <2>3. PICK u : u = b * x
    OBVIOUS
  <2>4. u \in Int /\ k = w + u
    BY <1>2, <2>1, <2>2, <2>3
  <2> QED BY <1>2, <2>3, <2>4
<1>4. k \div b = x /\ k % b = w /\ x % b = x
  BY <1>2, <1>3, DivModUnique, SmallMod
<1>5. PICK d : d = Store(k, 2)
  OBVIOUS
<1>6. Row(d, 2) /\ \A i \in 1..2 : d[i] = Left(k, i) % b
  BY <1>1, <1>5, StoreIs
<1>7. d[1] = w /\ d[2] = x
  BY <1>1, <1>4, <1>6 DEF Left
<1>8. \A i \in 1..2 : d[i] = s[i]
  <2>1. \A i \in 1..2 : i = 1 \/ i = 2
    OBVIOUS
  <2> QED BY <1>1, <1>7, <2>1
<1> QED BY <1>1, <1>5, <1>6, <1>8, SameRow DEF Bytes

LEMMA StoreLoadFour ==
  ASSUME NEW s, Bytes(s, 4)
  PROVE  Store(Load(s), 4) = s
<1>1. PICK b, w, x, y, z : b = Base /\ w = s[1] /\ x = s[2] /\ y = s[3] /\ z = s[4]
  OBVIOUS
<1>2. /\ b \in Nat \ {0} /\ w \in 0..(b - 1) /\ x \in 0..(b - 1)
      /\ y \in 0..(b - 1) /\ z \in 0..(b - 1)
  BY <1>1, BaseIs DEF Bytes, Byte
<1>3. PICK k4, k3, k2, k : /\ k4 = z + b * 0 /\ k3 = y + b * k4
                           /\ k2 = x + b * k3 /\ k = w + b * k2
  OBVIOUS
<1>4. k4 \in Int /\ k3 \in Int /\ k2 \in Int /\ k \in Int
  <2>1. k4 \in Int
    BY <1>2, <1>3
  <2>2. k3 \in Int
    BY <1>2, <1>3, <2>1
  <2>3. k2 \in Int
    BY <1>2, <1>3, <2>2
  <2>4. k \in Int
    BY <1>2, <1>3, <2>3
  <2> QED BY <2>1, <2>2, <2>3, <2>4
<1>5. Load(s) = k
  BY <1>1, <1>3, LoadFour DEF Bytes, Row
<1>6. k \div b = k2 /\ k % b = w
  <2>1. b * k2 \in Int
    BY <1>2, <1>4
  <2>2. k = b * k2 + w
    <3>1. PICK u : u = b * k2
      OBVIOUS
    <3> QED BY <1>2, <1>3, <2>1, <3>1
  <2> QED BY <1>2, <1>4, <2>2, DivModUnique
<1>7. k2 \div b = k3 /\ k2 % b = x
  <2>1. b * k3 \in Int
    BY <1>2, <1>4
  <2>2. k2 = b * k3 + x
    <3>1. PICK u : u = b * k3
      OBVIOUS
    <3> QED BY <1>2, <1>3, <2>1, <3>1
  <2> QED BY <1>2, <1>4, <2>2, DivModUnique
<1>8. k3 \div b = k4 /\ k3 % b = y
  <2>1. b * k4 \in Int
    BY <1>2, <1>4
  <2>2. k3 = b * k4 + y
    <3>1. PICK u : u = b * k4
      OBVIOUS
    <3> QED BY <1>2, <1>3, <2>1, <3>1
  <2> QED BY <1>2, <1>4, <2>2, DivModUnique
<1>9. k4 % b = z
  <2>1. k4 = z
    BY <1>2, <1>3
  <2> QED BY <1>2, <2>1, SmallMod
<1>10. Row(Store(k, 4), 4) /\ \A i \in 1..4 : Store(k, 4)[i] = Left(k, i) % b
  BY <1>1, StoreIs
<1>11. PICK d : d = Store(k, 4)
  OBVIOUS
<1>12. d[1] = w /\ d[2] = x /\ d[3] = y /\ d[4] = z
  BY <1>1, <1>6, <1>7, <1>8, <1>9, <1>10, <1>11 DEF Left
<1>13. \A i \in 1..4 : i = 1 \/ i = 2 \/ i = 3 \/ i = 4
  OBVIOUS
<1>14. \A i \in 1..4 : d[i] = s[i]
  BY <1>1, <1>12, <1>13
<1>15. d = s
  BY <1>10, <1>11, <1>14, SameRow DEF Bytes
<1> QED BY <1>5, <1>11, <1>15

LEMMA StoreLoad ==
  ASSUME NEW n \in {2, 4}, NEW s, Bytes(s, n)
  PROVE  Store(Load(s), n) = s
BY StoreLoadTwo, StoreLoadFour

LEMMA ReverseIs ==
  ASSUME NEW s, NEW n, Row(s, n)
  PROVE  /\ Row(Seqs!Reverse(s), n)
         /\ \A i \in 1..n : Seqs!Reverse(s)[i] = s[(n - i) + 1]
<1>1. Seqs!Reverse(s) = [i \in 1..n |-> s[(n - i) + 1]]
  BY DEF Seqs!Reverse, Row
<1> QED BY <1>1, RowReverse

LEMMA ReverseTwice ==
  ASSUME NEW s, NEW n, Row(s, n)
  PROVE  Seqs!Reverse(Seqs!Reverse(s)) = s
<1>1. PICK t : t = Seqs!Reverse(s)
  OBVIOUS
<1>2. Row(t, n) /\ \A i \in 1..n : t[i] = s[(n - i) + 1]
  BY <1>1, ReverseIs
<1>3. PICK u : u = Seqs!Reverse(t)
  OBVIOUS
<1>4. Row(u, n) /\ \A i \in 1..n : u[i] = t[(n - i) + 1]
  BY <1>2, <1>3, ReverseIs
<1>5. \A i \in 1..n : (n - i) + 1 \in 1..n /\ (n - ((n - i) + 1)) + 1 = i
  BY DEF Row
<1>6. \A i \in 1..n : u[i] = s[i]
  BY <1>2, <1>4, <1>5
<1> QED BY <1>1, <1>3, <1>4, <1>6, SameRow

LEMMA BytesReverse ==
  ASSUME NEW s, NEW n, Bytes(s, n)
  PROVE  Bytes(Seqs!Reverse(s), n)
<1>1. Row(s, n) /\ n \in Nat
  BY DEF Bytes, Row
<1>2. \A i \in 1..n : (n - i) + 1 \in 1..n
  BY <1>1
<1> QED BY <1>1, <1>2, ReverseIs DEF Bytes

(* A number that is sent in the order of the network arrives.               *)
LEMMA NumberArrives ==
  ASSUME NEW n \in {2, 4}, NEW k \in 0..(Holds(n) - 1)
  PROVE  ntoh(Load(BigEndian(k, n)), n) = k
<1>1. PICK s, t : s = Store(k, n) /\ t = BigEndian(k, n)
  OBVIOUS
<1>2. Bytes(s, n) /\ Load(s) = k
  BY <1>1, LoadStore
<1>3. t = Seqs!Reverse(s) /\ Bytes(t, n)
  BY <1>1, <1>2, BytesReverse DEF BigEndian
<1>4. Store(Load(t), n) = t
  BY <1>3, StoreLoad
<1>5. Seqs!Reverse(t) = s
  BY <1>2, <1>3, ReverseTwice DEF Bytes
<1> QED BY <1>1, <1>2, <1>4, <1>5 DEF ntoh

(* The bytes of an address are turned around.                               *)
LEMMA AddressTurns ==
  ASSUME NEW a, Bytes(a, 4)
  PROVE  Store(ntoh(Load(a), 4), 4) = Seqs!Reverse(a)
<1>1. Store(Load(a), 4) = a
  BY StoreLoad
<1>2. Bytes(Seqs!Reverse(a), 4)
  BY BytesReverse
<1> QED BY <1>1, <1>2, StoreLoad DEF ntoh

-----------------------------------------------------------------------------
(* What a provider publishes, and the size of a message.                    *)

LEMMA SizesAre ==
  /\ TopicSize \in Nat /\ TopicSize # 0 /\ DataSize \in Nat /\ DataSize >= 6
  /\ IpAt = 2 /\ PortAt = 6 /\ TopicAt = 8
  /\ DataAt = TopicSize + 9 /\ MsgSize = TopicSize + DataSize + 9
  /\ MsgSize \in Nat \ {0}
BY MessagesAssumption DEF IpAt, PortAt, TopicAt, DataAt, MsgSize

(* What a provider publishes.                                               *)
LEMMA ReadingIs ==
  ASSUME NEW r \in Readings
  PROVE  /\ r \in ReadingsOf(r.type)
         /\ r.type \in 0..3
         /\ r.addr \in [1..4 -> Byte]
         /\ r.port \in 0..(Short - 1)
         /\ r.topic \in Seq(Byte) /\ Len(r.topic) <= TopicSize
         /\ \A k \in 1..Len(r.topic) : r.topic[k] # 0
         /\ r.type = 0 => r.value \in Numbers \X {0}
         /\ r.type = 1 => r.value \in (0..(Short - 1)) \X {2}
         /\ r.type = 2 => r.value \in Numbers \X Byte
         /\ r.type = 3 => /\ r.value \in Seq(Byte) /\ Len(r.value) <= DataSize
                          /\ \A k \in 1..Len(r.value) : r.value[k] # 0
<1>1. PICK t \in 0..3 : r \in ReadingsOf(t)
  BY ReadingsAssumption DEF INT_SRV_MSG, STRING_SRV_MSG
<1>2. /\ r.type = t /\ r.addr \in [1..4 -> Byte] /\ r.port \in 0..(Short - 1)
      /\ r.topic \in Texts(TopicSize) /\ r.value \in Values(t)
  BY <1>1 DEF ReadingsOf
<1>3. ASSUME NEW size, NEW x \in Texts(size)
      PROVE  x \in Seq(Byte) /\ Len(x) <= size /\ \A k \in 1..Len(x) : x[k] # 0
  <2>1. x \in Seq(Byte \ {0}) /\ Len(x) <= size
    BY DEF Texts
  <2>2. x \in Seq(Byte) /\ \A k \in 1..Len(x) : x[k] \in Byte \ {0}
    BY <2>1, SeqMonotonic, ElementOfSeq
  <2> QED BY <2>1, <2>2
<1>4. /\ t = 0 => r.value \in Numbers \X {0}
      /\ t = 1 => r.value \in (0..(Short - 1)) \X {2}
      /\ t = 2 => r.value \in Numbers \X Byte
      /\ t = 3 => r.value \in Texts(DataSize)
  BY <1>2 DEF Values, INT_SRV_MSG, SHORT_REAL_SRV_MSG, FLOAT_SRV_MSG
<1> QED BY <1>1, <1>2, <1>3, <1>4

LEMMA PayloadIs ==
  ASSUME NEW r \in Readings
  PROVE  \E n \in 0..DataSize : Row(Payload(r), n)
<1>0. /\ r.type \in 0..3
      /\ r.type = 3 => r.value \in Seq(Byte) /\ Len(r.value) <= DataSize
      /\ DataSize \in Nat /\ DataSize >= 6
  BY ReadingIs, SizesAre
<1>1. ASSUME NEW x, NEW k PROVE Row(<<x>> \o BigEndian(k, 4), 5)
  <2>1. Row(<<x>>, 1) /\ Row(BigEndian(k, 4), 4)
    BY RowOne, RowBigEndian
  <2>2. Joined(<<x>> \o BigEndian(k, 4), <<x>>, BigEndian(k, 4), 1, 4)
    BY <2>1, RowJoin
  <2> QED BY <2>2 DEF Joined
<1>2. ASSUME NEW x, NEW k, NEW y PROVE Row(<<x>> \o BigEndian(k, 4) \o <<y>>, 6)
  <2>1. Row(<<x>> \o BigEndian(k, 4), 5) /\ Row(<<y>>, 1)
    BY <1>1, RowOne
  <2>2. Joined((<<x>> \o BigEndian(k, 4)) \o <<y>>, <<x>> \o BigEndian(k, 4), <<y>>, 5, 1)
    BY <2>1, RowJoin
  <2> QED BY <2>2 DEF Joined
<1>3. CASE r.type = 0
  <2>1. Payload(r) = <<SignByte(r.value[1])>> \o BigEndian(Magnitude(r.value[1]), 4)
    BY <1>3 DEF Payload, INT_SRV_MSG, SHORT_REAL_SRV_MSG, FLOAT_SRV_MSG
  <2> QED BY <1>0, <1>1, <2>1
<1>4. CASE r.type = 1
  <2>1. Payload(r) = BigEndian(r.value[1], 2)
    BY <1>4 DEF Payload, INT_SRV_MSG, SHORT_REAL_SRV_MSG, FLOAT_SRV_MSG
  <2>2. Row(Payload(r), 2)
    BY <2>1, RowBigEndian
  <2> QED BY <1>0, <2>2
<1>5. CASE r.type = 2
  <2>1. Payload(r) = <<SignByte(r.value[1])>> \o BigEndian(Magnitude(r.value[1]), 4)
                     \o <<r.value[2]>>
    BY <1>5 DEF Payload, INT_SRV_MSG, SHORT_REAL_SRV_MSG, FLOAT_SRV_MSG
  <2> QED BY <1>0, <1>2, <2>1
<1>6. CASE r.type = 3
  <2>1. Payload(r) = r.value
    BY <1>6 DEF Payload, INT_SRV_MSG, SHORT_REAL_SRV_MSG, FLOAT_SRV_MSG
  <2>2. Row(r.value, Len(r.value)) /\ Len(r.value) \in Nat /\ Len(r.value) <= DataSize
    BY <1>0, <1>6, RowOf
  <2> QED BY <1>0, <2>1, <2>2
<1> QED BY <1>0, <1>3, <1>4, <1>5, <1>6

-----------------------------------------------------------------------------
(* The fields of a message.                                                 *)

(* The n elements of p are in s behind the first f.                         *)
At(s, f, p, n) == \A i \in 1..n : s[f + i] = p[i]

(* u is s with t behind it, and has what s has.                             *)
Longer(u, s, m, t, n) ==
  /\ Row(u, m + n) /\ At(u, m, t, n)
  /\ \A f \in Nat, k \in Nat : f + k <= m => \A p : At(s, f, p, k) => At(u, f, p, k)

LEMMA Behind ==
  ASSUME NEW s, NEW m, Row(s, m), NEW t, NEW n, Row(t, n)
  PROVE  Longer(s \o t, s, m, t, n)
<1>1. PICK u : u = s \o t
  OBVIOUS
<1>2. Joined(u, s, t, m, n)
  BY <1>1, RowJoin
<1>3. Row(u, m + n) /\ At(u, m, t, n) /\ m \in Nat
  BY <1>2 DEF Joined, At, Row
<1>4. ASSUME NEW f \in Nat, NEW k \in Nat, f + k <= m, NEW p, At(s, f, p, k)
      PROVE  At(u, f, p, k)
  <2>1. \A i \in 1..k : f + i \in 1..m
    BY <1>3, <1>4
  <2> QED BY <1>2, <1>4, <2>1 DEF Joined, At
<1> QED BY <1>1, <1>3, <1>4 DEF Longer

(* A topic of l characters, the rest of its field, the type and n bytes.     *)
IsDatagram(g, r, l, n) ==
  /\ l = Len(r.topic) /\ l \in 0..TopicSize
  /\ n \in 0..DataSize /\ Row(Payload(r), n)
  /\ Row(g, TopicSize + 1 + n)
  /\ At(g, 0, r.topic, l)
  /\ At(g, l, Fill(0, TopicSize - l), TopicSize - l)
  /\ At(g, TopicSize, <<r.type>>, 1)
  /\ At(g, TopicSize + 1, Payload(r), n)

LEMMA DatagramHas ==
  ASSUME NEW r \in Readings
  PROVE  \E l, n : IsDatagram(Datagram(r), r, l, n)
<1>1. PICK n \in 0..DataSize : Row(Payload(r), n)
  BY PayloadIs
<1>2. PICK l, w, t : l = Len(r.topic) /\ w = TopicSize /\ t = r.topic
  OBVIOUS
<1>3. l \in Nat /\ l <= w /\ Row(t, l) /\ w \in Nat /\ n \in Nat /\ w - l \in Nat
      /\ l \in 0..w
  <2>1. t \in Seq(Byte) /\ l <= w
    BY <1>2, ReadingIs
  <2>2. l \in Nat /\ Row(t, l)
    BY <1>2, <2>1, RowOf
  <2> QED BY <1>2, <2>1, <2>2, SizesAre
<1>4. PICK z, o, p : z = Fill(0, w - l) /\ o = <<r.type>> /\ p = Payload(r)
  OBVIOUS
<1>5. Row(z, w - l) /\ Row(o, 1) /\ Row(p, n)
  BY <1>1, <1>3, <1>4, RowFill, RowOne
<1>6. PICK a, b, c : a = t \o z /\ b = a \o o /\ c = b \o p
  OBVIOUS
<1>7. Longer(a, t, l, z, w - l)
  BY <1>3, <1>5, <1>6, Behind
<1>8. Row(a, w) /\ At(a, 0, t, l) /\ At(a, l, z, w - l)
  <2>1. l + (w - l) = w /\ 0 + l <= l
    BY <1>3
  <2>2. At(t, 0, t, l)
    BY <1>3 DEF At
  <2> QED BY <1>3, <1>7, <2>1, <2>2 DEF Longer
<1>9. Longer(b, a, w, o, 1)
  BY <1>5, <1>6, <1>8, Behind
<1>10. Row(b, w + 1) /\ At(b, 0, t, l) /\ At(b, l, z, w - l) /\ At(b, w, o, 1)
  <2>1. l + (w - l) <= w /\ 0 + l <= w
    BY <1>3
  <2> QED BY <1>3, <1>8, <1>9, <2>1 DEF Longer
<1>11. Longer(c, b, w + 1, p, n)
  BY <1>5, <1>6, <1>10, Behind
<1>12. /\ Row(c, w + 1 + n) /\ At(c, 0, t, l) /\ At(c, l, z, w - l) /\ At(c, w, o, 1)
       /\ At(c, w + 1, p, n)
  <2>1. l + (w - l) <= w + 1 /\ 0 + l <= w + 1 /\ w + 1 <= w + 1
    BY <1>3
  <2> QED BY <1>3, <1>10, <1>11, <2>1 DEF Longer
<1>13. Datagram(r) = c
  BY <1>2, <1>4, <1>6 DEF Datagram
<1> QED BY <1>1, <1>2, <1>3, <1>4, <1>12, <1>13 DEF IsDatagram

(* A message of a topic of l characters and n bytes.                        *)
IsMessage(m, r, l, n) ==
  /\ l = Len(r.topic) /\ l \in 0..TopicSize
  /\ n \in 0..DataSize /\ Row(Payload(r), n)
  /\ Row(m, MsgSize)
  /\ m[1] = r.type
  /\ At(m, 1, Seqs!Reverse(r.addr), 4)
  /\ At(m, 5, Store(r.port, 2), 2)
  /\ At(m, 7, r.topic, l)
  /\ m[8 + l] = 0
  /\ At(m, 8 + TopicSize, Payload(r), n)
  /\ \A i \in (n + 1)..(DataSize + 1) : m[8 + TopicSize + i] = 0

LEMMA AddressIs ==
  ASSUME NEW r \in Readings
  PROVE  Bytes(r.addr, 4)
<1>1. PICK a, b : a = r.addr /\ b = [i \in 1..4 |-> a[i]]
  OBVIOUS
<1>2. a \in [1..4 -> Byte]
  BY <1>1, ReadingIs
<1>3. b \in Seq({a[i] : i \in 1..4}) /\ Len(b) = 4
  BY <1>1
<1>4. a = b
  BY <1>1, <1>2
<1> QED BY <1>1, <1>2, <1>3, <1>4 DEF Bytes, Row

LEMMA MessageHas ==
  ASSUME NEW r \in Readings
  PROVE  \E l, n : IsMessage(srv_msg(r.addr, BigEndian(r.port, 2), Datagram(r)), r, l, n)
<1>1. PICK g, w, q : g = Datagram(r) /\ w = TopicSize /\ q = DataSize
  OBVIOUS
<1>2. PICK l, n : IsDatagram(g, r, l, n)
  BY <1>1, DatagramHas
<1>3. /\ w \in Nat /\ w # 0 /\ q \in Nat /\ l \in Nat /\ l <= w /\ n \in Nat /\ n <= q
      /\ q + 1 - n \in Nat /\ MsgSize = w + q + 9
  BY <1>1, <1>2, SizesAre DEF IsDatagram
<1>4. Row(g, w + 1 + n) /\ Len(g) - TopicSize - 1 = n
  BY <1>1, <1>2, <1>3 DEF IsDatagram, Row
<1>5. PICK o, x, y, z, e, v, f :
        /\ o = <<g[w + 1]>>
        /\ x = Store(ntoh(Load(r.addr), 4), 4)
        /\ y = Store(ntoh(Load(BigEndian(r.port, 2)), 2), 2)
        /\ z = SubSeq(g, 1, w)
        /\ e = <<0>>
        /\ v = SubSeq(g, w + 2, w + 1 + n)
        /\ f = Fill(0, q + 1 - n)
  OBVIOUS
<1>6. Row(o, 1) /\ o[1] = r.type /\ Row(e, 1) /\ e[1] = 0
  <2>1. g[w + 1] = <<r.type>>[1]
    <3>1. 1 \in 1..1
      OBVIOUS
    <3> QED BY <1>1, <1>2, <3>1 DEF IsDatagram, At
  <2> QED BY <1>5, <2>1, RowOne
<1>7. Row(x, 4) /\ x = Seqs!Reverse(r.addr)
  <2>1. Bytes(r.addr, 4)
    BY AddressIs
  <2> QED BY <1>5, <2>1, AddressTurns, RowStore
<1>8. Row(y, 2) /\ y = Store(r.port, 2)
  <2>1. r.port \in 0..(Holds(2) - 1)
    BY ReadingIs DEF Holds
  <2>2. ntoh(Load(BigEndian(r.port, 2)), 2) = r.port
    BY <2>1, NumberArrives
  <2> QED BY <1>5, <2>2, RowStore
<1>9. Row(z, w) /\ \A i \in 1..w : z[i] = g[i]
  <2>1. /\ Row(z, IF 1 <= w THEN w - 1 + 1 ELSE 0)
        /\ \A i \in 1..(w - 1 + 1) : z[i] = g[1 + i - 1]
    BY <1>3, <1>4, <1>5, RowCut
  <2>2. (IF 1 <= w THEN w - 1 + 1 ELSE 0) = w /\ w - 1 + 1 = w /\ \A i \in 1..w : 1 + i - 1 = i
    BY <1>3
  <2> QED BY <2>1, <2>2
<1>10. Row(v, n) /\ At(v, 0, Payload(r), n)
  <2>1. w + 2 \in Nat \ {0} /\ w + 1 + n \in Int /\ w + 1 + n <= w + 1 + n
    BY <1>3
  <2>2. /\ Row(v, IF w + 2 <= w + 1 + n THEN (w + 1 + n) - (w + 2) + 1 ELSE 0)
        /\ \A i \in 1..((w + 1 + n) - (w + 2) + 1) : v[i] = g[(w + 2) + i - 1]
    BY <1>4, <1>5, <2>1, RowCut
  <2>3. /\ (IF w + 2 <= w + 1 + n THEN (w + 1 + n) - (w + 2) + 1 ELSE 0) = n
        /\ (w + 1 + n) - (w + 2) + 1 = n
        /\ \A i \in 1..n : (w + 2) + i - 1 = (w + 1) + i /\ 0 + i = i
    BY <1>3
  <2>4. At(g, w + 1, Payload(r), n)
    BY <1>1, <1>2 DEF IsDatagram
  <2>5. \A i \in 1..n : v[i] = Payload(r)[i]
    BY <2>2, <2>3, <2>4 DEF At
  <2> QED BY <2>2, <2>3, <2>5 DEF At
<1>11. Row(f, q + 1 - n) /\ \A i \in 1..(q + 1 - n) : f[i] = 0
  BY <1>3, <1>5, RowFill
<1>12. PICK a1, a2, a3, a4, a5, a6 :
         /\ a1 = o \o x /\ a2 = a1 \o y /\ a3 = a2 \o z
         /\ a4 = a3 \o e /\ a5 = a4 \o v /\ a6 = a5 \o f
  OBVIOUS
<1>13. Row(a1, 5) /\ At(a1, 0, o, 1) /\ At(a1, 1, x, 4)
  <2>1. Longer(a1, o, 1, x, 4) /\ At(o, 0, o, 1)
    BY <1>6, <1>7, <1>12, Behind DEF At
  <2>2. 1 + 4 = 5 /\ 0 + 1 <= 1
    OBVIOUS
  <2> QED BY <2>1, <2>2 DEF Longer
<1>14. Row(a2, 7) /\ At(a2, 0, o, 1) /\ At(a2, 1, x, 4) /\ At(a2, 5, y, 2)
  <2>1. Longer(a2, a1, 5, y, 2)
    BY <1>8, <1>12, <1>13, Behind
  <2>2. 5 + 2 = 7 /\ 0 + 1 <= 5 /\ 1 + 4 <= 5
    OBVIOUS
  <2> QED BY <1>13, <2>1, <2>2 DEF Longer
<1>15. /\ Row(a3, 7 + w) /\ At(a3, 0, o, 1) /\ At(a3, 1, x, 4) /\ At(a3, 5, y, 2)
       /\ At(a3, 7, z, w)
  <2>1. Longer(a3, a2, 7, z, w)
    BY <1>9, <1>12, <1>14, Behind
  <2>2. 0 + 1 <= 7 /\ 1 + 4 <= 7 /\ 5 + 2 <= 7
    OBVIOUS
  <2> QED BY <1>14, <2>1, <2>2 DEF Longer
<1>16. /\ Row(a4, 8 + w) /\ At(a4, 0, o, 1) /\ At(a4, 1, x, 4) /\ At(a4, 5, y, 2)
       /\ At(a4, 7, z, w) /\ At(a4, 7 + w, e, 1)
  <2>1. Longer(a4, a3, 7 + w, e, 1)
    BY <1>6, <1>12, <1>15, Behind
  <2>2. (7 + w) + 1 = 8 + w /\ 0 + 1 <= 7 + w /\ 1 + 4 <= 7 + w /\ 5 + 2 <= 7 + w
    BY <1>3
  <2> QED BY <1>3, <1>15, <2>1, <2>2 DEF Longer
<1>17. /\ Row(a5, 8 + w + n) /\ At(a5, 0, o, 1) /\ At(a5, 1, x, 4) /\ At(a5, 5, y, 2)
       /\ At(a5, 7, z, w) /\ At(a5, 7 + w, e, 1) /\ At(a5, 8 + w, v, n)
  <2>1. Longer(a5, a4, 8 + w, v, n)
    BY <1>10, <1>12, <1>16, Behind
  <2>2. /\ 0 + 1 <= 8 + w /\ 1 + 4 <= 8 + w /\ 5 + 2 <= 8 + w
        /\ 7 + w <= 8 + w /\ (7 + w) + 1 <= 8 + w /\ 7 + w \in Nat
    BY <1>3
  <2> QED BY <1>3, <1>16, <2>1, <2>2 DEF Longer
<1>18. /\ Row(a6, MsgSize) /\ At(a6, 0, o, 1) /\ At(a6, 1, x, 4) /\ At(a6, 5, y, 2)
       /\ At(a6, 7, z, w) /\ At(a6, 7 + w, e, 1) /\ At(a6, 8 + w, v, n)
       /\ At(a6, 8 + w + n, f, q + 1 - n)
  <2>1. Longer(a6, a5, 8 + w + n, f, q + 1 - n)
    BY <1>11, <1>12, <1>17, Behind
  <2>2. /\ (8 + w + n) + (q + 1 - n) = MsgSize
        /\ 0 + 1 <= 8 + w + n /\ 1 + 4 <= 8 + w + n /\ 5 + 2 <= 8 + w + n
        /\ 7 + w <= 8 + w + n /\ (7 + w) + 1 <= 8 + w + n /\ (8 + w) + n <= 8 + w + n
        /\ 7 + w \in Nat /\ 8 + w \in Nat
    BY <1>3
  <2> QED BY <1>3, <1>17, <2>1, <2>2 DEF Longer
<1>19. a6 = srv_msg(r.addr, BigEndian(r.port, 2), g)
  BY <1>1, <1>4, <1>5, <1>12 DEF srv_msg
<1>20. a6[1] = r.type
  <2>1. 1 \in 1..1 /\ 0 + 1 = 1
    OBVIOUS
  <2> QED BY <1>6, <1>18, <2>1 DEF At
<1>21. At(a6, 7, r.topic, l)
  <2>1. \A i \in 1..l : i \in 1..w /\ 0 + i = i
    BY <1>3
  <2> QED BY <1>2, <1>9, <1>18, <2>1 DEF IsDatagram, At
<1>22. a6[8 + l] = 0
  <2>1. CASE l = w
    <3>1. 1 \in 1..1 /\ (7 + w) + 1 = 8 + l
      BY <1>3, <2>1
    <3> QED BY <1>6, <1>18, <3>1 DEF At
  <2>2. CASE l # w
    <3>1. l + 1 \in 1..w /\ 7 + (l + 1) = 8 + l /\ 1 \in 1..(w - l) /\ w - l \in Nat
      BY <1>3, <2>2
    <3>2. Fill(0, w - l)[1] = 0
      BY <3>1, RowFill
    <3>3. g[l + 1] = 0
      BY <1>1, <1>2, <3>1, <3>2 DEF IsDatagram, At
    <3>4. a6[7 + (l + 1)] = z[l + 1]
      BY <1>18, <3>1 DEF At
    <3> QED BY <1>9, <3>1, <3>3, <3>4
  <2> QED BY <2>1, <2>2
<1>23. At(a6, 8 + w, Payload(r), n)
  <2>1. \A i \in 1..n : 0 + i = i
    BY <1>3
  <2> QED BY <1>10, <1>18, <2>1 DEF At
<1>24. ASSUME NEW i \in (n + 1)..(q + 1) PROVE a6[8 + w + i] = 0
  <2>1. i - n \in 1..(q + 1 - n) /\ (8 + w + n) + (i - n) = 8 + w + i
    BY <1>3
  <2> QED BY <1>11, <1>18, <2>1 DEF At
<1>25. IsMessage(a6, r, l, n)
  BY <1>1, <1>2, <1>7, <1>8, <1>18, <1>20, <1>21, <1>22, <1>23, <1>24 DEF IsMessage, IsDatagram
<1> QED BY <1>1, <1>19, <1>25

-----------------------------------------------------------------------------
(* What a subscriber reads in a message.                                    *)

LEMMA TextIs ==
  ASSUME NEW s, NEW n, Row(s, n), NEW t, NEW l, Row(t, l), l < n,
         \A i \in 1..l : s[i] = t[i] /\ t[i] # 0, s[l + 1] = 0
  PROVE  Text(s) = t
<1>1. n \in Nat /\ l \in Nat /\ Len(s) = n
  BY DEF Row
<1>2. PICK ends : ends = {k \in 1..Len(s) : s[k] = 0}
  OBVIOUS
<1>3. l + 1 \in ends
  BY <1>1, <1>2
<1>4. \A k \in ends : l + 1 <= k
  <2> SUFFICES ASSUME NEW k \in ends, ~(l + 1 <= k) PROVE FALSE
    OBVIOUS
  <2>1. k \in 1..l
    BY <1>1, <1>2
  <2> QED BY <1>2, <2>1
<1>5. Seqs!Min(ends) = l + 1
  <2>1. PICK m : m = CHOOSE x \in ends : \A y \in ends : x <= y
    OBVIOUS
  <2>2. m \in ends /\ \A y \in ends : m <= y
    BY <1>3, <1>4, <2>1
  <2>3. m \in Int /\ m <= l + 1 /\ l + 1 <= m
    BY <1>1, <1>2, <1>3, <1>4, <2>2
  <2>4. m = l + 1
    BY <1>1, <2>3
  <2> QED BY <2>1, <2>4 DEF Seqs!Min
<1>6. Text(s) = SubSeq(s, 1, (l + 1) - 1)
  <2>1. ends # {}
    BY <1>3
  <2> QED BY <1>2, <1>5, <2>1 DEF Text
<1>7. (l + 1) - 1 = l
  BY <1>1
<1>8. PICK u : u = SubSeq(s, 1, l)
  OBVIOUS
<1>9. Row(u, l) /\ \A i \in 1..l : u[i] = s[i]
  <2>1. /\ Row(u, IF 1 <= l THEN l - 1 + 1 ELSE 0)
        /\ \A i \in 1..(l - 1 + 1) : u[i] = s[1 + i - 1]
    BY <1>1, <1>8, RowCut
  <2>2. (IF 1 <= l THEN l - 1 + 1 ELSE 0) = l /\ l - 1 + 1 = l /\ \A i \in 1..l : 1 + i - 1 = i
    BY <1>1
  <2> QED BY <2>1, <2>2
<1>10. u = t
  BY <1>9, SameRow
<1> QED BY <1>6, <1>7, <1>8, <1>10

(* A field of a message, cut out.                                           *)
LEMMA FieldIs ==
  ASSUME NEW s, NEW m, Row(s, m), NEW f \in Nat, NEW p, NEW n, Row(p, n), f + n <= m, At(s, f, p, n)
  PROVE  SubSeq(s, f + 1, f + n) = p
<1>1. n \in Nat /\ m \in Nat
  BY DEF Row
<1>2. PICK u : u = SubSeq(s, f + 1, f + n)
  OBVIOUS
<1>3. f + 1 \in Nat \ {0} /\ f + n \in Int
  BY <1>1
<1>4. /\ Row(u, IF f + 1 <= f + n THEN (f + n) - (f + 1) + 1 ELSE 0)
      /\ \A i \in 1..((f + n) - (f + 1) + 1) : u[i] = s[(f + 1) + i - 1]
  BY <1>2, <1>3, RowCut
<1>5. /\ (IF f + 1 <= f + n THEN (f + n) - (f + 1) + 1 ELSE 0) = n
      /\ (f + n) - (f + 1) + 1 = n /\ \A i \in 1..n : (f + 1) + i - 1 = f + i
  BY <1>1
<1>6. Row(u, n) /\ \A i \in 1..n : u[i] = p[i]
  BY <1>4, <1>5 DEF At
<1> QED BY <1>2, <1>6, SameRow

(* data of a message: the n bytes of the payload, then zeros.               *)
LEMMA DataIs ==
  ASSUME NEW m, NEW r, NEW l, NEW n, IsMessage(m, r, l, n)
  PROVE  /\ Row(data(m), DataSize + 1)
         /\ At(data(m), 0, Payload(r), n)
         /\ \A i \in (n + 1)..(DataSize + 1) : data(m)[i] = 0
<1>1. PICK d, w, q : d = data(m) /\ w = TopicSize /\ q = DataSize
  OBVIOUS
<1>2. /\ w \in Nat /\ q \in Nat /\ MsgSize = w + q + 9 /\ DataAt = w + 9
      /\ n \in Nat /\ n <= q /\ Row(m, w + q + 9)
  BY <1>1, SizesAre DEF IsMessage
<1>3. Row(d, q + 1) /\ \A i \in 1..(q + 1) : d[i] = m[8 + w + i]
  <2>1. w + 9 \in Nat \ {0} /\ w + q + 9 \in Int /\ w + q + 9 <= w + q + 9
    BY <1>2
  <2>2. /\ Row(d, IF w + 9 <= w + q + 9 THEN (w + q + 9) - (w + 9) + 1 ELSE 0)
        /\ \A i \in 1..((w + q + 9) - (w + 9) + 1) : d[i] = m[(w + 9) + i - 1]
    BY <1>1, <1>2, <2>1, RowCut DEF data
  <2>3. /\ (IF w + 9 <= w + q + 9 THEN (w + q + 9) - (w + 9) + 1 ELSE 0) = q + 1
        /\ (w + q + 9) - (w + 9) + 1 = q + 1
        /\ \A i \in 1..(q + 1) : (w + 9) + i - 1 = 8 + w + i
    BY <1>2
  <2> QED BY <2>2, <2>3
<1>4. At(d, 0, Payload(r), n)
  <2>1. \A i \in 1..n : i \in 1..(q + 1) /\ 0 + i = i
    BY <1>2
  <2> QED BY <1>1, <1>3, <2>1 DEF At, IsMessage
<1>5. \A i \in (n + 1)..(q + 1) : d[i] = 0
  <2>1. \A i \in (n + 1)..(q + 1) : i \in 1..(q + 1)
    BY <1>2
  <2> QED BY <1>1, <1>3, <2>1 DEF IsMessage
<1> QED BY <1>1, <1>3, <1>4, <1>5

LEMMA TopicShown ==
  ASSUME NEW r \in Readings, NEW m, NEW l, NEW n, IsMessage(m, r, l, n)
  PROVE  Text(SubSeq(m, TopicAt, MsgSize)) = r.topic
<1>1. PICK w, q, t : w = TopicSize /\ q = DataSize /\ t = r.topic
  OBVIOUS
<1>2. /\ w \in Nat /\ q \in Nat /\ MsgSize = w + q + 9 /\ TopicAt = 8
      /\ l \in Nat /\ l <= w /\ Row(m, w + q + 9)
  BY <1>1, SizesAre DEF IsMessage
<1>3. Row(t, l) /\ \A i \in 1..l : t[i] # 0
  <2>1. t \in Seq(Byte) /\ \A k \in 1..Len(t) : t[k] # 0
    BY <1>1, ReadingIs
  <2> QED BY <1>1, <2>1, RowOf DEF IsMessage
<1>4. PICK s : s = SubSeq(m, 8, w + q + 9)
  OBVIOUS
<1>5. Row(s, w + q + 2) /\ \A i \in 1..(w + q + 2) : s[i] = m[7 + i]
  <2>1. /\ Row(s, IF 8 <= w + q + 9 THEN (w + q + 9) - 8 + 1 ELSE 0)
        /\ \A i \in 1..((w + q + 9) - 8 + 1) : s[i] = m[8 + i - 1]
    BY <1>2, <1>4, RowCut
  <2>2. /\ (IF 8 <= w + q + 9 THEN (w + q + 9) - 8 + 1 ELSE 0) = w + q + 2
        /\ (w + q + 9) - 8 + 1 = w + q + 2
        /\ \A i \in 1..(w + q + 2) : 8 + i - 1 = 7 + i
    BY <1>2
  <2> QED BY <2>1, <2>2
<1>6. l < w + q + 2 /\ l + 1 \in 1..(w + q + 2) /\ 7 + (l + 1) = 8 + l
      /\ \A i \in 1..l : i \in 1..(w + q + 2)
  BY <1>2
<1>7. s[l + 1] = 0 /\ \A i \in 1..l : s[i] = t[i]
  BY <1>1, <1>5, <1>6 DEF IsMessage, At
<1>8. Text(s) = t
  BY <1>3, <1>5, <1>6, <1>7, TextIs
<1> QED BY <1>1, <1>2, <1>4, <1>8

LEMMA PortShown ==
  ASSUME NEW r \in Readings, NEW m, NEW l, NEW n, IsMessage(m, r, l, n)
  PROVE  Load(SubSeq(m, PortAt, PortAt + 1)) = r.port
<1>1. r.port \in 0..(Holds(2) - 1)
  BY ReadingIs DEF Holds
<1>2. Row(Store(r.port, 2), 2) /\ Load(Store(r.port, 2)) = r.port
  BY <1>1, LoadStore DEF Bytes
<1>3. PortAt = 5 + 1 /\ PortAt + 1 = 5 + 2 /\ 5 + 2 <= MsgSize
  BY SizesAre
<1>4. SubSeq(m, 5 + 1, 5 + 2) = Store(r.port, 2)
  BY <1>2, <1>3, FieldIs DEF IsMessage
<1> QED BY <1>2, <1>3, <1>4

LEMMA AddressShown ==
  ASSUME NEW r \in Readings, NEW m, NEW l, NEW n, IsMessage(m, r, l, n)
  PROVE  SubSeq(m, IpAt, IpAt + 3) = Seqs!Reverse(r.addr)
<1>1. Row(Seqs!Reverse(r.addr), 4)
  BY AddressIs, RowReverse DEF Bytes
<1>2. IpAt = 1 + 1 /\ IpAt + 3 = 1 + 4 /\ 1 + 4 <= MsgSize
  BY SizesAre
<1>3. SubSeq(m, 1 + 1, 1 + 4) = Seqs!Reverse(r.addr)
  BY <1>1, <1>2, FieldIs DEF IsMessage
<1> QED BY <1>2, <1>3

LEMMA SameLength ==
  ASSUME NEW s, NEW m, NEW n, Row(s, m), Row(s, n)
  PROVE  m = n
BY DEF Row

(* An int is negated by the provider's sign byte.                           *)
LEMMA IntIs ==
  ASSUME NEW v \in Numbers
  PROVE  /\ Magnitude(v) \in 0..(Word - 1)
         /\ (IF SignByte(v) = 0 THEN ToInt(Magnitude(v)) ELSE Negated(ToInt(Magnitude(v))))
              = ToInt(v % Word)
         /\ (IF SignByte(v) = 0 THEN Magnitude(v) ELSE -Magnitude(v)) = v
<1>1. PICK w, u : w = Word /\ u = Magnitude(v)
  OBVIOUS
<1>2. w \in Nat \ {0} /\ v \in Int /\ 1 - w <= v /\ v <= w - 1
  BY <1>1, RangesAre DEF Numbers
<1>3. CASE v >= 0
  <2>1. u = v /\ SignByte(v) = 0
    BY <1>1, <1>2, <1>3 DEF Magnitude, SignByte
  <2>2. v \in 0..(w - 1)
    BY <1>2, <1>3
  <2>3. v % w = v
    BY <1>2, <2>2, SmallMod
  <2> QED BY <1>1, <2>1, <2>2, <2>3
<1>4. CASE v < 0
  <2>1. u = -v /\ SignByte(v) = 1
    BY <1>1, <1>2, <1>4 DEF Magnitude, SignByte
  <2>2. u \in 0..(w - 1) /\ w - u \in 0..(w - 1) /\ -u = v /\ u \in Int
    BY <1>2, <1>4, <2>1
  <2>3. v % w = w - u
    <3>1. w * (-1) = -w
      BY <1>2
    <3>2. v = w * (-1) + (w - u)
      BY <1>2, <2>1, <2>2, <3>1
    <3> QED BY <1>2, <2>2, <3>2, DivModUnique
  <2>4. (w - u) % w = w - u
    BY <1>2, <2>2, SmallMod
  <2>5. (-ToInt(u)) % w = w - u
    <3>1. ToInt(u) = u \/ ToInt(u) = u - w
      BY <1>1 DEF ToInt
    <3>2. CASE ToInt(u) = u
      BY <2>2, <2>3, <3>2
    <3>3. CASE ToInt(u) = u - w
      <4>1. -ToInt(u) = w - u
        BY <1>2, <2>2, <3>3
      <4> QED BY <2>4, <4>1
    <3> QED BY <3>1, <3>2, <3>3
  <2>6. Negated(ToInt(u)) = ToInt(w - u)
    BY <1>1, <2>5 DEF Negated
  <2> QED BY <1>1, <2>1, <2>2, <2>3, <2>6
<1> QED BY <1>2, <1>3, <1>4

(* The number u behind the sign byte b.                                     *)
Signed(d, b, u) == d[1] = b /\ ntoh(Load(SubSeq(d, 2, 5)), 4) = u

LEMMA SignedNumber ==
  ASSUME NEW u \in 0..(Word - 1), NEW b, NEW p, p = <<b>> \o BigEndian(u, 4)
  PROVE  /\ Row(p, 5)
         /\ \A d, k : Row(d, k) /\ 5 <= k /\ At(d, 0, p, 5) => Signed(d, b, u)
<1>1. PICK o, e : o = <<b>> /\ e = BigEndian(u, 4)
  OBVIOUS
<1>2. Row(o, 1) /\ o[1] = b /\ Row(e, 4)
  BY <1>1, RowOne, RowBigEndian
<1>3. Row(p, 5) /\ p[1] = b /\ \A i \in 1..4 : p[1 + i] = e[i]
  <2>1. Joined(p, o, e, 1, 4)
    BY <1>1, <1>2, RowJoin
  <2>2. 1 + 4 = 5 /\ 1 \in 1..1
    OBVIOUS
  <2> QED BY <1>2, <2>1, <2>2 DEF Joined
<1>4. ASSUME NEW d, NEW k, Row(d, k), 5 <= k, At(d, 0, p, 5)
      PROVE  Signed(d, b, u)
  <2>1. \A i \in 1..5 : d[i] = p[i]
    <3>1. \A i \in 1..5 : 0 + i = i
      OBVIOUS
    <3> QED BY <1>4, <3>1 DEF At
  <2>2. At(d, 1, e, 4)
    <3>1. \A i \in 1..4 : 1 + i \in 1..5
      OBVIOUS
    <3> QED BY <1>3, <2>1, <3>1 DEF At
  <2>3. SubSeq(d, 1 + 1, 1 + 4) = e
    <3>1. 1 + 4 <= k
      BY <1>4
    <3> QED BY <1>2, <1>4, <2>2, <3>1, FieldIs
  <2>4. 1 + 1 = 2 /\ 1 + 4 = 5 /\ 1 \in 1..5
    OBVIOUS
  <2>5. ntoh(Load(e), 4) = u
    <3>1. u \in 0..(Holds(4) - 1)
      BY DEF Holds
    <3> QED BY <1>1, <3>1, NumberArrives
  <2> QED BY <1>3, <2>1, <2>3, <2>4, <2>5 DEF Signed
<1> QED BY <1>3, <1>4

LEMMA IntShown ==
  ASSUME NEW r \in Readings, r.type = 0, NEW m, NEW l, NEW n, IsMessage(m, r, l, n)
  PROVE  print_int_msg(m) = <<ToInt(r.value[1] % Word), r.value[2]>>
<1>1. PICK v, p, d, u, b : /\ v = r.value[1] /\ p = Payload(r) /\ d = data(m)
                           /\ u = Magnitude(v) /\ b = SignByte(v)
  OBVIOUS
<1>2. v \in Numbers /\ r.value[2] = 0
  BY <1>1, ReadingIs
<1>3. p = <<b>> \o BigEndian(u, 4)
  BY <1>1 DEF Payload, INT_SRV_MSG, SHORT_REAL_SRV_MSG, FLOAT_SRV_MSG
<1>4. u \in 0..(Word - 1)
  BY <1>1, <1>2, IntIs
<1>5. Row(d, DataSize + 1) /\ At(d, 0, p, n) /\ 5 <= DataSize + 1 /\ Row(p, n)
  <2>1. 5 <= DataSize + 1
    BY SizesAre
  <2> QED BY <1>1, <2>1, DataIs DEF IsMessage
<1>6. Row(p, 5) /\ \A c, k : Row(c, k) /\ 5 <= k /\ At(c, 0, p, 5) => Signed(c, b, u)
  BY <1>3, <1>4, SignedNumber
<1>7. Signed(d, b, u)
  <2>1. n = 5
    BY <1>5, <1>6, SameLength
  <2> QED BY <1>5, <1>6, <2>1
<1>8. print_int_msg(m) =
        <<IF SignByte(v) = 0 THEN ToInt(Magnitude(v)) ELSE Negated(ToInt(Magnitude(v))), 0>>
  BY <1>1, <1>7 DEF print_int_msg, Signed
<1> QED BY <1>1, <1>2, <1>8, IntIs

LEMMA ShortRealShown ==
  ASSUME NEW r \in Readings, r.type = 1, NEW m, NEW l, NEW n, IsMessage(m, r, l, n)
  PROVE  print_short_real_msg(m) = r.value
<1>1. PICK v, p, d : v = r.value[1] /\ p = Payload(r) /\ d = data(m)
  OBVIOUS
<1>2. v \in 0..(Holds(2) - 1) /\ r.value = <<v, 2>>
  BY <1>1, ReadingIs DEF Holds
<1>3. p = BigEndian(v, 2) /\ Row(p, 2)
  <2>1. p = BigEndian(v, 2)
    BY <1>1 DEF Payload, INT_SRV_MSG, SHORT_REAL_SRV_MSG, FLOAT_SRV_MSG
  <2> QED BY <2>1, RowBigEndian
<1>4. Row(d, DataSize + 1) /\ At(d, 0, p, n) /\ 0 + 2 <= DataSize + 1 /\ Row(p, n)
  <2>1. 0 + 2 <= DataSize + 1
    BY SizesAre
  <2> QED BY <1>1, <2>1, DataIs DEF IsMessage
<1>5. n = 2
  BY <1>3, <1>4, SameLength
<1>6. SubSeq(d, 0 + 1, 0 + 2) = p
  BY <1>4, <1>5, FieldIs
<1>7. ntoh(Load(p), 2) = v
  BY <1>2, <1>3, NumberArrives
<1>8. 0 + 1 = 1 /\ 0 + 2 = 2
  OBVIOUS
<1> QED BY <1>1, <1>2, <1>6, <1>7, <1>8 DEF print_short_real_msg

LEMMA FloatShown ==
  ASSUME NEW r \in Readings, r.type = 2, NEW m, NEW l, NEW n, IsMessage(m, r, l, n)
  PROVE  print_float_msg(m) = r.value
<1>1. PICK v, x, p, d, u, b :
        /\ v = r.value[1] /\ x = r.value[2] /\ p = Payload(r) /\ d = data(m)
        /\ u = Magnitude(v) /\ b = SignByte(v)
  OBVIOUS
<1>2. v \in Numbers /\ r.value = <<v, x>>
  BY <1>1, ReadingIs
<1>3. PICK s, o : s = <<b>> \o BigEndian(u, 4) /\ o = <<x>>
  OBVIOUS
<1>4. p = s \o o
  BY <1>1, <1>3 DEF Payload, INT_SRV_MSG, SHORT_REAL_SRV_MSG, FLOAT_SRV_MSG
<1>5. u \in 0..(Word - 1)
  BY <1>1, <1>2, IntIs
<1>6. /\ Row(s, 5) /\ \A c, k : Row(c, k) /\ 5 <= k /\ At(c, 0, s, 5) => Signed(c, b, u)
      /\ Row(o, 1) /\ o[1] = x
  BY <1>3, <1>5, SignedNumber, RowOne
<1>7. Row(p, 6) /\ At(p, 0, s, 5) /\ p[6] = x
  <2>1. Joined(p, s, o, 5, 1)
    BY <1>4, <1>6, RowJoin
  <2>2. 5 + 1 = 6 /\ 1 \in 1..1 /\ \A i \in 1..5 : 0 + i = i
    OBVIOUS
  <2> QED BY <1>6, <2>1, <2>2 DEF Joined, At
<1>8. Row(d, DataSize + 1) /\ At(d, 0, p, n) /\ 5 <= DataSize + 1 /\ Row(p, n)
  <2>1. 5 <= DataSize + 1
    BY SizesAre
  <2> QED BY <1>1, <2>1, DataIs DEF IsMessage
<1>9. n = 6
  BY <1>7, <1>8, SameLength
<1>10. At(d, 0, s, 5) /\ d[6] = x
  <2>1. \A i \in 1..5 : i \in 1..6 /\ 0 + i = i
    OBVIOUS
  <2>2. 6 \in 1..6 /\ 0 + 6 = 6
    OBVIOUS
  <2> QED BY <1>7, <1>8, <1>9, <2>1, <2>2 DEF At
<1>11. Signed(d, b, u)
  BY <1>6, <1>8, <1>10
<1>12. print_float_msg(m) = <<IF SignByte(v) = 0 THEN Magnitude(v) ELSE -Magnitude(v), x>>
  BY <1>1, <1>10, <1>11 DEF print_float_msg, Signed
<1> QED BY <1>2, <1>12, IntIs

LEMMA StringShown ==
  ASSUME NEW r \in Readings, r.type = 3, NEW m, NEW l, NEW n, IsMessage(m, r, l, n)
  PROVE  print_string_msg(m) = r.value
<1>1. PICK p, d, q : p = r.value /\ d = data(m) /\ q = DataSize + 1
  OBVIOUS
<1>2. Payload(r) = p
  BY <1>1 DEF Payload, INT_SRV_MSG, SHORT_REAL_SRV_MSG, FLOAT_SRV_MSG
<1>3. /\ Row(d, q) /\ Row(p, n) /\ n \in Nat /\ n < q /\ n + 1 \in (n + 1)..q
      /\ At(d, 0, p, n) /\ \A i \in (n + 1)..q : d[i] = 0
  <2>1. n \in 0..DataSize
    BY DEF IsMessage
  <2>2. DataSize \in Nat
    BY SizesAre
  <2>3. n \in Nat /\ n < q /\ n + 1 \in (n + 1)..q
    BY <1>1, <2>1, <2>2
  <2> QED BY <1>1, <1>2, <2>3, DataIs DEF IsMessage
<1>4. \A i \in 1..n : p[i] # 0
  <2>1. Len(p) = n
    BY <1>3 DEF Row
  <2> QED BY <1>1, <2>1, ReadingIs
<1>5. \A i \in 1..n : d[i] = p[i]
  <2>1. \A i \in 1..n : 0 + i = i
    BY <1>3
  <2> QED BY <1>3, <2>1 DEF At
<1>6. Text(d) = p
  BY <1>3, <1>4, <1>5, TextIs
<1> QED BY <1>1, <1>6 DEF print_string_msg

(* A whole message shows its reading.                                       *)
LEMMA MessageShown ==
  ASSUME NEW r \in Readings,
         NEW m, m = srv_msg(r.addr, BigEndian(r.port, 2), Datagram(r))
  PROVE  Row(m, MsgSize) /\ m[1] = r.type /\ Shown(m) = OnTerminal(r)
<1>1. PICK l, n : IsMessage(m, r, l, n)
  BY MessageHas
<1>2. m[1] = r.type /\ r.type \in 0..3 /\ Row(m, MsgSize)
  BY <1>1, ReadingIs DEF IsMessage
<1>3. PICK value : value = CASE m[1] = 0 -> print_int_msg(m)
                             [] m[1] = 1 -> print_short_real_msg(m)
                             [] m[1] = 2 -> print_float_msg(m)
                             [] OTHER    -> print_string_msg(m)
  OBVIOUS
<1>4. value = IF r.type = 0 THEN <<ToInt(r.value[1] % Word), r.value[2]>> ELSE r.value
  <2>1. CASE r.type = 0
    BY <1>1, <1>2, <1>3, <2>1, IntShown
  <2>2. CASE r.type = 1
    BY <1>1, <1>2, <1>3, <2>2, ShortRealShown
  <2>3. CASE r.type = 2
    BY <1>1, <1>2, <1>3, <2>3, FloatShown
  <2>4. CASE r.type = 3
    BY <1>1, <1>2, <1>3, <2>4, StringShown
  <2> QED BY <1>2, <2>1, <2>2, <2>3, <2>4
<1>5. Shown(m) = [type  |-> m[1],
                  addr  |-> SubSeq(m, IpAt, IpAt + 3),
                  port  |-> Load(SubSeq(m, PortAt, PortAt + 1)),
                  topic |-> Text(SubSeq(m, TopicAt, MsgSize)),
                  value |-> value]
  <2>1. m[1] \in INT_SRV_MSG..STRING_SRV_MSG
    BY <1>2 DEF INT_SRV_MSG, STRING_SRV_MSG
  <2> QED BY <1>3, <2>1 DEF Shown, type, INT_SRV_MSG, SHORT_REAL_SRV_MSG, FLOAT_SRV_MSG
<1>6. Shown(m) = [type |-> r.type, addr |-> Seqs!Reverse(r.addr), port |-> r.port,
                  topic |-> r.topic, value |-> value]
  BY <1>1, <1>2, <1>5, TopicShown, PortShown, AddressShown
<1>7. OnTerminal(r) = [type |-> r.type, addr |-> Seqs!Reverse(r.addr), port |-> r.port,
                       topic |-> r.topic, value |-> value]
  <2>1. r \in ReadingsOf(r.type)
    BY ReadingIs
  <2>2. r = [type |-> r.type, addr |-> r.addr, port |-> r.port, topic |-> r.topic, value |-> r.value]
    BY <2>1 DEF ReadingsOf
  <2>3. PICK x, y : x = Seqs!Reverse(r.addr) /\ y = <<ToInt(r.value[1] % Word), r.value[2]>>
    OBVIOUS
  <2>4. OnTerminal(r) = [r EXCEPT !.addr = x, !.value = IF r.type = 0 THEN y ELSE r.value]
    BY <2>3 DEF OnTerminal, INT_SRV_MSG
  <2> QED BY <1>4, <2>2, <2>3, <2>4
<1> QED BY <1>2, <1>6, <1>7

(* Every message of the server has the size of srv_msg_t and begins with     *)
(* its type.                                                                *)
LEMMA SrvMsgIs ==
  ASSUME NEW r \in Readings, NEW m, m = srv_msg(r.addr, BigEndian(r.port, 2), Datagram(r))
  PROVE  Headed(m, MsgSize, r.type)
<1>1. Row(m, MsgSize) /\ m[1] = r.type /\ MsgSize # 0
  BY MessageShown, SizesAre
<1> QED BY <1>1 DEF Headed

LEMMA CloseMsgIs == Headed(close_msg, MsgSize, CLOSE_SRV_MSG)
<1>1. MsgSize - 1 \in Nat /\ MsgSize = 1 + (MsgSize - 1)
  BY SizesAre
<1>2. Headed(<<CLOSE_SRV_MSG>>, 1, CLOSE_SRV_MSG) /\ Row(Fill(0, MsgSize - 1), MsgSize - 1)
  BY <1>1, RowOne, RowFill DEF Headed
<1>3. Headed(<<CLOSE_SRV_MSG>> \o Fill(0, MsgSize - 1), MsgSize, CLOSE_SRV_MSG)
  BY <1>1, <1>2, RowThen
<1> QED BY <1>3 DEF close_msg

-----------------------------------------------------------------------------
(* The stream.                                                              *)

Types == 0..4

(* pos[j] bytes of s are the first j messages, whose types are T.           *)
Cuts(pos, s, T) ==
  /\ pos \in [0..Len(T) -> Nat]
  /\ pos[0] = 0
  /\ pos[Len(T)] = Len(s)
  /\ \A j \in 0..Len(T) : pos[j] <= Len(s)
  /\ \A j \in 1..Len(T) : pos[j] = pos[j - 1] + MsgSize /\ s[pos[j - 1] + 1] = T[j]

(* s is whole messages, of the types T.                                     *)
Framed(s, T) == T \in Seq(Types) /\ \E pos : Cuts(pos, s, T)

LEMMA FramedEmpty ==
  ASSUME NEW s, Framed(s, <<>>)
  PROVE  Len(s) = 0
<1>1. PICK pos : Cuts(pos, s, <<>>)
  BY DEF Framed
<1> QED BY <1>1 DEF Cuts

LEMMA FramedFirst ==
  ASSUME NEW s, Row(s, Len(s)), NEW T, Framed(s, T), T # <<>>
  PROVE  /\ MsgSize <= Len(s)
         /\ s[1] = T[1]
         /\ Framed(SubSeq(s, MsgSize + 1, Len(s)), Tail(T))
<1>1. PICK pos : Cuts(pos, s, T)
  BY DEF Framed
<1>2. PICK n, l, w : n = Len(T) - 1 /\ l = Len(s) /\ w = MsgSize
  OBVIOUS
<1>3. /\ T \in Seq(Types) /\ n \in Nat /\ Len(T) = n + 1 /\ l \in Nat /\ w \in Nat /\ w # 0
      /\ 1 \in 1..(n + 1) /\ 0 \in 0..(n + 1)
  <2>1. T \in Seq(Types)
    BY DEF Framed
  <2>2. Len(T) \in Nat /\ Len(T) # 0
    BY <2>1, EmptySeq, LenProperties
  <2> QED BY <1>2, <2>1, <2>2, SizesAre DEF Row
<1>4. /\ pos \in [0..(n + 1) -> Nat] /\ pos[0] = 0 /\ pos[n + 1] = l
      /\ \A j \in 0..(n + 1) : pos[j] <= l
      /\ \A j \in 1..(n + 1) : pos[j] = pos[j - 1] + w /\ s[pos[j - 1] + 1] = T[j]
  BY <1>1, <1>2, <1>3 DEF Cuts
<1>5. w <= l /\ s[1] = T[1]
  <2>1. pos[1] = pos[0] + w /\ s[pos[0] + 1] = T[1] /\ pos[1] <= l
    <3>1. 1 - 1 = 0 /\ 1 \in 0..(n + 1)
      BY <1>3
    <3> QED BY <1>3, <1>4, <3>1
  <2> QED BY <1>3, <1>4, <2>1
<1>6. PICK t, U : t = SubSeq(s, w + 1, l) /\ U = Tail(T)
  OBVIOUS
<1>7. Len(t) = l - w /\ \A i \in 1..(l - w) : t[i] = s[w + i]
  <2>1. w + 1 \in Nat \ {0} /\ l \in Int /\ l - (w + 1) + 1 = l - w
        /\ (IF w + 1 <= l THEN l - (w + 1) + 1 ELSE 0) = l - w
        /\ \A i \in 1..(l - w) : (w + 1) + i - 1 = w + i
    BY <1>3, <1>5
  <2>2. /\ Row(SubSeq(s, w + 1, l), IF w + 1 <= l THEN l - (w + 1) + 1 ELSE 0)
        /\ \A i \in 1..(l - (w + 1) + 1) : SubSeq(s, w + 1, l)[i] = s[(w + 1) + i - 1]
    <3>1. Row(s, l) /\ l <= l
      BY <1>2, <1>3
    <3> QED BY <2>1, <3>1, RowCut
  <2> QED BY <1>6, <2>1, <2>2 DEF Row
<1>8. U \in Seq(Types) /\ Len(U) = n /\ \A j \in 1..n : U[j] = T[j + 1]
  BY <1>3, <1>6, HeadTailProperties, EmptySeq
<1>9. PICK f : f = [j \in 0..n |-> pos[j + 1] - w]
  OBVIOUS
<1>10. \A j \in 0..n : /\ f[j] = pos[j + 1] - w /\ pos[j + 1] = pos[j] + w
                       /\ f[j] = pos[j] /\ pos[j] \in Nat /\ f[j] <= l - w
                       /\ s[pos[j] + 1] = T[j + 1]
  <2> SUFFICES ASSUME NEW j \in 0..n
               PROVE  /\ f[j] = pos[j + 1] - w /\ pos[j + 1] = pos[j] + w
                      /\ f[j] = pos[j] /\ pos[j] \in Nat /\ f[j] <= l - w
                      /\ s[pos[j] + 1] = T[j + 1]
    OBVIOUS
  <2>1. j + 1 \in 1..(n + 1) /\ j + 1 \in 0..(n + 1) /\ j \in 0..(n + 1) /\ (j + 1) - 1 = j
    BY <1>3
  <2>2. /\ pos[j + 1] = pos[j] + w /\ s[pos[j] + 1] = T[j + 1] /\ pos[j] \in Nat
        /\ pos[j + 1] \in Nat /\ pos[j + 1] <= l
    BY <1>4, <2>1
  <2>3. f[j] = pos[j + 1] - w
    BY <1>9
  <2> QED BY <1>3, <2>2, <2>3
<1>11. ASSUME NEW j \in 1..n PROVE f[j] = f[j - 1] + w /\ t[f[j - 1] + 1] = U[j]
  <2>1. j - 1 \in 0..n /\ (j - 1) + 1 = j /\ j \in 0..n /\ j + 1 \in 1..(n + 1)
    BY <1>3
  <2>2. f[j - 1] = pos[j] - w /\ f[j - 1] \in Nat /\ f[j] = pos[j] /\ s[pos[j] + 1] = T[j + 1]
        /\ f[j] = f[j - 1] + w /\ f[j] <= l - w /\ pos[j] \in Nat
    BY <1>3, <1>10, <2>1
  <2>3. f[j - 1] + 1 \in 1..(l - w) /\ w + (f[j - 1] + 1) = pos[j] + 1
    <3>1. PICK a, b : a = f[j - 1] /\ b = pos[j]
      OBVIOUS
    <3>2. a \in Nat /\ b \in Nat /\ a = b - w /\ b = a + w /\ b <= l - w
      BY <2>2, <3>1
    <3>3. a + 1 \in 1..(l - w) /\ w + (a + 1) = b + 1
      BY <1>3, <3>2
    <3> QED BY <3>1, <3>3
  <2>4. t[f[j - 1] + 1] = s[pos[j] + 1]
    BY <1>7, <2>3
  <2> QED BY <1>8, <2>2, <2>4
<1>12. f \in [0..n -> Nat] /\ f[0] = 0 /\ f[n] = l - w
  <2>1. 0 \in 0..n /\ n \in 0..n
    BY <1>3
  <2>2. f[n] = pos[n + 1] - w
    BY <1>10, <2>1
  <2> QED BY <1>4, <1>9, <1>10, <2>1, <2>2
<1>13. Cuts(f, t, U)
  BY <1>2, <1>7, <1>8, <1>10, <1>11, <1>12 DEF Cuts
<1> QED BY <1>2, <1>5, <1>6, <1>8, <1>13 DEF Framed

LEMMA FramedNext ==
  ASSUME NEW s, Row(s, Len(s)), NEW T, Framed(s, T),
         NEW x \in Types, NEW m, Headed(m, MsgSize, x)
  PROVE  Framed(s \o m, Append(T, x)) /\ Row(s \o m, Len(s \o m))
<1>1. PICK pos : Cuts(pos, s, T)
  BY DEF Framed
<1>2. PICK n, l, w, t, U : /\ n = Len(T) /\ l = Len(s) /\ w = MsgSize
                           /\ t = s \o m /\ U = Append(T, x)
  OBVIOUS
<1>3. n \in Nat /\ l \in Nat /\ w \in Nat /\ w # 0 /\ T \in Seq(Types)
  <2>1. T \in Seq(Types)
    BY DEF Framed
  <2> QED BY <1>2, <2>1, LenProperties, SizesAre DEF Row
<1>4. Row(t, l + w) /\ Len(t) = l + w
      /\ (\A i \in 1..l : t[i] = s[i]) /\ \A i \in 1..w : t[l + i] = m[i]
  <2>1. Joined(t, s, m, l, w)
    BY <1>2, RowJoin DEF Headed
  <2> QED BY <2>1 DEF Joined, Row
<1>5. t[l + 1] = x
  <2>1. 1 \in 1..w
    BY <1>3
  <2> QED BY <1>4, <2>1 DEF Headed
<1>6. U \in Seq(Types) /\ Len(U) = n + 1 /\ (\A j \in 1..n : U[j] = T[j]) /\ U[n + 1] = x
  BY <1>2, <1>3, AppendProperties
<1>7. /\ pos \in [0..n -> Nat] /\ pos[0] = 0 /\ pos[n] = l
      /\ \A j \in 0..n : pos[j] <= l
      /\ \A j \in 1..n : pos[j] = pos[j - 1] + w /\ s[pos[j - 1] + 1] = T[j]
  BY <1>1, <1>2 DEF Cuts
<1>8. PICK f : f = [j \in 0..(n + 1) |-> IF j <= n THEN pos[j] ELSE l + w]
  OBVIOUS
<1>9. (\A j \in 0..n : f[j] = pos[j] /\ f[j] \in Nat /\ f[j] <= l) /\ f[n + 1] = l + w
  BY <1>3, <1>7, <1>8
<1>10. \A j \in 0..(n + 1) : j \in 0..n \/ j = n + 1
  BY <1>3
<1>11. f \in [0..(n + 1) -> Nat] /\ f[0] = 0 /\ \A j \in 0..(n + 1) : f[j] <= l + w
  <2>1. 0 \in 0..n /\ l + w \in Nat
    BY <1>3
  <2>2. \A j \in 0..(n + 1) : f[j] \in Nat /\ f[j] <= l + w
    BY <1>3, <1>9, <1>10
  <2> QED BY <1>7, <1>8, <1>9, <2>1, <2>2
<1>12. ASSUME NEW j \in 1..(n + 1) PROVE f[j] = f[j - 1] + w /\ t[f[j - 1] + 1] = U[j]
  <2>1. CASE j \in 1..n
    <3>1. j \in 0..n /\ j - 1 \in 0..n
      BY <1>3, <2>1
    <3>2. f[j] = pos[j] /\ f[j - 1] = pos[j - 1] /\ pos[j - 1] \in Nat /\ pos[j] <= l
          /\ pos[j] = pos[j - 1] + w /\ s[pos[j - 1] + 1] = T[j]
      BY <1>7, <1>9, <2>1, <3>1
    <3>3. pos[j - 1] + 1 \in 1..l
      BY <1>3, <3>2
    <3> QED BY <1>4, <1>6, <2>1, <3>2, <3>3
  <2>2. CASE j = n + 1
    <3>1. j - 1 = n /\ n \in 0..n
      BY <1>3, <2>2
    <3> QED BY <1>5, <1>6, <1>7, <1>9, <2>2, <3>1
  <2>3. j \in 1..n \/ j = n + 1
    BY <1>3
  <2> QED BY <2>1, <2>2, <2>3
<1>13. Cuts(f, t, U)
  BY <1>2, <1>4, <1>6, <1>9, <1>11, <1>12 DEF Cuts
<1>14. Row(t, Len(t))
  BY <1>4
<1> QED BY <1>2, <1>6, <1>13, <1>14 DEF Framed

-----------------------------------------------------------------------------
(* The invariant.                                                           *)

(* T are the types of what was sent and is not shown, then that of the      *)
(* CLOSE_SRV_MSG when there is one.                                         *)
Outstanding(T) ==
  /\ Len(shown) <= Len(sent)
  /\ Len(T) = (Len(sent) - Len(shown)) + (IF srv = "stopped" THEN 1 ELSE 0)
  /\ \A j \in 1..Len(T) : T[j] = CLOSE_SRV_MSG <=> (srv = "stopped" /\ j = Len(T))

TypesOK ==
  /\ srv \in {"up", "stopped", "gone"}
  /\ sub \in {"running", "exited"}
  /\ Row(stream, Len(stream))
  /\ Row(msg, MsgSize)
  /\ sent \in Seq(Readings)
  /\ reads \in Seq([at : Nat, n : Nat])
  /\ Row(shown, Len(shown))

Whole ==
  NoShortRead =>
    /\ AtEnd => srv # "up" /\ Len(shown) >= Len(sent)
    /\ ~AtEnd /\ sub = "running" => \E T : Framed(stream, T) /\ Outstanding(T)
    /\ ~AtEnd /\ sub = "exited" => srv = "stopped" /\ Len(shown) = Len(sent)

StreamInv == TypesOK /\ Whole

LEMMA TakenIs ==
  ASSUME reads \in Seq([at : Nat, n : Nat])
  PROVE  Taken \in Nat
<1>1. CASE reads = <<>>
  BY <1>1 DEF Taken
<1>2. CASE reads # <<>>
  <2>1. reads[Len(reads)] \in [at : Nat, n : Nat]
    <3>1. Len(reads) \in 1..Len(reads)
      BY <1>2, EmptySeq, LenProperties
    <3> QED BY <3>1, ElementOfSeq
  <2> QED BY <1>2, <2>1 DEF Taken
<1> QED BY <1>1, <1>2

LEMMA StreamInit == Init => StreamInv
<1> SUFFICES ASSUME Init PROVE StreamInv
  OBVIOUS
<1>1. /\ srv = "up" /\ stream = <<>> /\ sub = "running" /\ msg \in Garbage
      /\ sent = <<>> /\ reads = <<>> /\ shown = <<>>
  BY DEF Init
<1>2. Row(<<>>, Len(<<>>)) /\ Len(<<>>) = 0
  <2>1. <<>> \in Seq({}) /\ Len(<<>>) = 0
    OBVIOUS
  <2> QED BY <2>1 DEF Row
<1>3. Row(msg, MsgSize)
  BY <1>1, SizesAre, RowFill DEF Garbage
<1>4. TypesOK
  BY <1>1, <1>2, <1>3 DEF TypesOK
<1>5. PICK f : f = [j \in 0..0 |-> 0]
  OBVIOUS
<1>6. Cuts(f, <<>>, <<>>)
  BY <1>5 DEF Cuts
<1>7. Framed(<<>>, <<>>)
  BY <1>6 DEF Framed
<1>8. Outstanding(<<>>)
  BY <1>1 DEF Outstanding
<1>9. ~AtEnd
  BY <1>1 DEF AtEnd
<1> QED BY <1>1, <1>4, <1>7, <1>8, <1>9 DEF StreamInv, Whole

(* One more message in the stream.                                          *)
LEMMA Written ==
  ASSUME StreamInv, NEW m, NEW x \in Types, Headed(m, MsgSize, x), stream' = stream \o m
  PROVE  /\ Row(stream', Len(stream'))
         /\ \A T : Framed(stream, T) => Framed(stream', Append(T, x))
<1>1. Row(stream, Len(stream))
  BY DEF StreamInv, TypesOK
<1>2. PICK s, t : s = stream /\ t = stream'
  OBVIOUS
<1>3. PICK pos : pos = [j \in 0..0 |-> 0]
  OBVIOUS
<1>4. Row(t, Len(t))
  <2>1. Joined(t, s, m, Len(s), MsgSize)
    BY <1>1, <1>2, RowJoin DEF Headed
  <2> QED BY <2>1 DEF Joined, Row
<1>5. ASSUME NEW T, Framed(s, T) PROVE Framed(t, Append(T, x))
  BY <1>1, <1>2, <1>5, FramedNext
<1> QED BY <1>2, <1>4, <1>5

LEMMA ForwardStep ==
  ASSUME StreamInv, NEW r \in Readings, ForwardReading(r)
  PROVE  StreamInv'
<1>1. PICK m : m = srv_msg(r.addr, BigEndian(r.port, 2), Datagram(r))
  OBVIOUS
<1>2. Headed(m, MsgSize, r.type) /\ r.type \in Types /\ r.type # CLOSE_SRV_MSG
  <2>1. r.type \in 0..3
    BY ReadingIs
  <2>2. Headed(m, MsgSize, r.type)
    BY <1>1, SrvMsgIs
  <2> QED BY <2>1, <2>2 DEF Types, CLOSE_SRV_MSG
<1>3. /\ srv = "up" /\ stream' = stream \o m /\ sent' = Append(sent, r)
      /\ srv' = srv /\ sub' = sub /\ msg' = msg /\ reads' = reads /\ shown' = shown
  BY <1>1 DEF ForwardReading
<1>4. /\ Row(stream', Len(stream'))
      /\ \A T : Framed(stream, T) => Framed(stream', Append(T, r.type))
  BY <1>2, <1>3, Written
<1>5. sent' \in Seq(Readings) /\ Len(sent') = Len(sent) + 1 /\ Len(sent) \in Nat
      /\ Len(shown) \in Nat
  BY <1>3, AppendProperties, LenProperties DEF StreamInv, TypesOK, Row
<1>6. TypesOK'
  BY <1>3, <1>4, <1>5 DEF StreamInv, TypesOK
<1>7. ASSUME NEW T, Framed(stream, T), Outstanding(T)
      PROVE  Outstanding(Append(T, r.type))'
  <2>1. PICK U, n : U = Append(T, r.type) /\ n = Len(T)
    OBVIOUS
  <2>2. T \in Seq(Types) /\ n \in Nat
    BY <1>7, <2>1, LenProperties DEF Framed
  <2>3. Len(U) = n + 1 /\ (\A j \in 1..n : U[j] = T[j]) /\ U[n + 1] = r.type
    BY <1>2, <2>1, <2>2, AppendProperties
  <2>4. Len(shown) <= Len(sent) /\ n = Len(sent) - Len(shown)
        /\ \A j \in 1..n : T[j] # CLOSE_SRV_MSG
    BY <1>3, <1>5, <1>7, <2>1 DEF Outstanding
  <2>5. \A j \in 1..(n + 1) : j \in 1..n \/ j = n + 1
    BY <2>2
  <2>6. \A j \in 1..(n + 1) : U[j] # CLOSE_SRV_MSG
    BY <1>2, <2>3, <2>4, <2>5
  <2>7. Len(shown) <= Len(sent) + 1 /\ n + 1 = (Len(sent) + 1) - Len(shown)
    BY <1>5, <2>2, <2>4
  <2> QED BY <1>3, <1>5, <2>1, <2>3, <2>6, <2>7 DEF Outstanding
<1>8. Whole'
  <2>1. (NoShortRead' <=> NoShortRead) /\ (AtEnd' <=> AtEnd)
    BY <1>3 DEF NoShortRead, AtEnd
  <2>2. ASSUME NoShortRead, ~AtEnd, sub = "running"
        PROVE  (\E T : Framed(stream, T) /\ Outstanding(T))'
    <3>1. PICK T : Framed(stream, T) /\ Outstanding(T)
      BY <2>2 DEF StreamInv, Whole
    <3>2. PICK U : U = Append(T, r.type)
      OBVIOUS
    <3>3. Framed(stream', U) /\ Outstanding(U)'
      BY <1>4, <1>7, <3>1, <3>2
    <3> QED BY <3>3
  <2>3. NoShortRead => ~AtEnd /\ sub # "exited"
    BY <1>3 DEF StreamInv, Whole
  <2> QED BY <1>3, <2>1, <2>2, <2>3 DEF Whole
<1> QED BY <1>6, <1>8 DEF StreamInv

LEMMA CloseStep ==
  ASSUME StreamInv, CloseConnection
  PROVE  StreamInv'
<1>1. /\ srv = "up" /\ srv' = "stopped" /\ stream' = stream \o close_msg
      /\ sub' = sub /\ msg' = msg /\ sent' = sent /\ reads' = reads /\ shown' = shown
  BY DEF CloseConnection
<1>2. Headed(close_msg, MsgSize, CLOSE_SRV_MSG) /\ CLOSE_SRV_MSG \in Types
  BY CloseMsgIs DEF Types, CLOSE_SRV_MSG
<1>3. /\ Row(stream', Len(stream'))
      /\ \A T : Framed(stream, T) => Framed(stream', Append(T, CLOSE_SRV_MSG))
  BY <1>1, <1>2, Written
<1>4. TypesOK'
  BY <1>1, <1>3 DEF StreamInv, TypesOK
<1>5. Len(sent) \in Nat /\ Len(shown) \in Nat
  BY LenProperties DEF StreamInv, TypesOK, Row
<1>6. ASSUME NEW T, Framed(stream, T), Outstanding(T)
      PROVE  Outstanding(Append(T, CLOSE_SRV_MSG))'
  <2>1. PICK U, n : U = Append(T, CLOSE_SRV_MSG) /\ n = Len(T)
    OBVIOUS
  <2>2. T \in Seq(Types) /\ n \in Nat
    BY <1>6, <2>1, LenProperties DEF Framed
  <2>3. Len(U) = n + 1 /\ (\A j \in 1..n : U[j] = T[j]) /\ U[n + 1] = CLOSE_SRV_MSG
    BY <1>2, <2>1, <2>2, AppendProperties
  <2>4. Len(shown) <= Len(sent) /\ n = Len(sent) - Len(shown)
        /\ \A j \in 1..n : T[j] # CLOSE_SRV_MSG
    BY <1>1, <1>5, <1>6, <2>1 DEF Outstanding
  <2>5. \A j \in 1..(n + 1) : (j \in 1..n /\ j # n + 1) \/ j = n + 1
    BY <2>2
  <2>6. \A j \in 1..(n + 1) : U[j] = CLOSE_SRV_MSG <=> j = n + 1
    BY <2>3, <2>4, <2>5
  <2> QED BY <1>1, <2>1, <2>3, <2>4, <2>6 DEF Outstanding
<1>7. Whole'
  <2>1. (NoShortRead' <=> NoShortRead) /\ (AtEnd' <=> AtEnd)
    BY <1>1 DEF NoShortRead, AtEnd
  <2>2. ASSUME NoShortRead, ~AtEnd, sub = "running"
        PROVE  (\E T : Framed(stream, T) /\ Outstanding(T))'
    <3>1. PICK T : Framed(stream, T) /\ Outstanding(T)
      BY <2>2 DEF StreamInv, Whole
    <3>2. PICK U : U = Append(T, CLOSE_SRV_MSG)
      OBVIOUS
    <3>3. Framed(stream', U) /\ Outstanding(U)'
      BY <1>3, <1>6, <3>1, <3>2
    <3> QED BY <3>3
  <2>3. NoShortRead => ~AtEnd /\ sub # "exited"
    BY <1>1 DEF StreamInv, Whole
  <2> QED BY <1>1, <2>1, <2>2, <2>3 DEF Whole
<1> QED BY <1>4, <1>7 DEF StreamInv

LEMMA EndsStep ==
  ASSUME StreamInv, ServerEnds
  PROVE  StreamInv'
<1>1. /\ srv = "up" /\ srv' = "gone" /\ stream' = stream
      /\ sub' = sub /\ msg' = msg /\ sent' = sent /\ reads' = reads /\ shown' = shown
  BY DEF ServerEnds
<1>2. TypesOK'
  BY <1>1 DEF StreamInv, TypesOK
<1>3. \A T : Outstanding(T) => Outstanding(T)'
  BY <1>1 DEF Outstanding
<1>4. (NoShortRead' <=> NoShortRead) /\ (AtEnd' <=> AtEnd)
  BY <1>1 DEF NoShortRead, AtEnd
<1>5. (\E T : Framed(stream, T) /\ Outstanding(T)) => (\E T : Framed(stream, T) /\ Outstanding(T))'
  BY <1>1, <1>3
<1>6. Whole'
  BY <1>1, <1>4, <1>5 DEF StreamInv, Whole
<1> QED BY <1>2, <1>6 DEF StreamInv

(* What handle_server_msg leaves, by the number of bytes it got.            *)
LEMMA ReadIs ==
  ASSUME StreamInv, HandleServerMsg
  PROVE  \E n \in Received :
           /\ sub = "running"
           /\ stream' = SubSeq(stream, n + 1, Len(stream))
           /\ reads' = Append(reads, [at |-> Taken, n |-> n])
           /\ srv' = srv /\ sent' = sent
           /\ IF msg'[1] = CLOSE_SRV_MSG
                THEN sub' = "exited" /\ shown' = shown
                ELSE sub' = sub /\ shown' = Append(shown, Shown(msg'))
           /\ Row(msg', MsgSize)
           /\ Row(stream', Len(stream'))
           /\ \A i \in 1..n : msg'[i] = stream[i]
<1>1. PICK n \in Received, stack \in {msg} \cup Garbage :
        /\ msg' = SubSeq(stream, 1, n) \o SubSeq(stack, n + 1, MsgSize)
        /\ stream' = BytesLeft(n)
        /\ reads' = Append(reads, [at |-> Taken, n |-> n])
  BY DEF HandleServerMsg
<1>2. /\ sub = "running" /\ srv' = srv /\ sent' = sent
      /\ IF msg'[1] = CLOSE_SRV_MSG
           THEN sub' = "exited" /\ shown' = shown
           ELSE sub' = sub /\ shown' = Append(shown, Shown(msg'))
  BY DEF HandleServerMsg, type
<1>3. PICK w, l, s : w = MsgSize /\ l = Len(stream) /\ s = stream
  OBVIOUS
<1>4. Row(s, l) /\ l \in Nat /\ w \in Nat /\ w # 0 /\ Row(stack, w)
  <2>1. Row(stack, w)
    BY <1>3, SizesAre, RowFill DEF Garbage, StreamInv, TypesOK
  <2> QED BY <1>3, <2>1, SizesAre DEF StreamInv, TypesOK, Row
<1>5. n \in Nat /\ n <= l /\ n <= w
  BY <1>3, <1>4 DEF Received
<1>6. PICK a, b : a = SubSeq(s, 1, n) /\ b = SubSeq(stack, n + 1, w)
  OBVIOUS
<1>7. Row(a, n) /\ \A i \in 1..n : a[i] = s[i]
  <2>1. /\ Row(a, IF 1 <= n THEN n - 1 + 1 ELSE 0)
        /\ \A i \in 1..(n - 1 + 1) : a[i] = s[1 + i - 1]
    BY <1>4, <1>5, <1>6, RowCut
  <2>2. (IF 1 <= n THEN n - 1 + 1 ELSE 0) = n /\ n - 1 + 1 = n /\ \A i \in 1..n : 1 + i - 1 = i
    BY <1>5
  <2> QED BY <2>1, <2>2
<1>8. Row(b, w - n)
  <2>1. n + 1 \in Nat \ {0} /\ w \in Int /\ w <= w
    BY <1>4, <1>5
  <2>2. Row(b, IF n + 1 <= w THEN w - (n + 1) + 1 ELSE 0)
    BY <1>4, <1>6, <2>1, RowCut
  <2>3. (IF n + 1 <= w THEN w - (n + 1) + 1 ELSE 0) = w - n
    BY <1>4, <1>5
  <2> QED BY <2>2, <2>3
<1>9. PICK m : m = a \o b
  OBVIOUS
<1>10. Row(m, w) /\ \A i \in 1..n : m[i] = a[i]
  <2>1. Joined(m, a, b, n, w - n)
    BY <1>7, <1>8, <1>9, RowJoin
  <2>2. n + (w - n) = w
    BY <1>4, <1>5
  <2> QED BY <2>1, <2>2 DEF Joined
<1>11. msg' = m
  BY <1>1, <1>3, <1>6, <1>9
<1>12. \A i \in 1..n : m[i] = s[i]
  BY <1>7, <1>10
<1>13. PICK t : t = SubSeq(s, n + 1, l)
  OBVIOUS
<1>14. Row(t, Len(t))
  <2>1. n + 1 \in Nat \ {0} /\ l \in Int /\ l <= l
    BY <1>4, <1>5
  <2>2. Row(t, IF n + 1 <= l THEN l - (n + 1) + 1 ELSE 0)
    BY <1>4, <1>13, <2>1, RowCut
  <2> QED BY <2>2 DEF Row
<1>15. stream' = t
  BY <1>1, <1>3, <1>13 DEF BytesLeft
<1> QED BY <1>1, <1>2, <1>3, <1>10, <1>11, <1>12, <1>13, <1>14, <1>15

LEMMA HandleStep ==
  ASSUME StreamInv, HandleServerMsg
  PROVE  StreamInv'
<1>1. PICK n \in Received :
        /\ sub = "running"
        /\ stream' = SubSeq(stream, n + 1, Len(stream))
        /\ reads' = Append(reads, [at |-> Taken, n |-> n])
        /\ srv' = srv /\ sent' = sent
        /\ IF msg'[1] = CLOSE_SRV_MSG
             THEN sub' = "exited" /\ shown' = shown
             ELSE sub' = sub /\ shown' = Append(shown, Shown(msg'))
        /\ Row(msg', MsgSize)
        /\ Row(stream', Len(stream'))
        /\ \A i \in 1..n : msg'[i] = stream[i]
  BY ReadIs
<1>2. /\ Row(stream, Len(stream)) /\ sent \in Seq(Readings) /\ reads \in Seq([at : Nat, n : Nat])
      /\ Row(shown, Len(shown)) /\ Len(shown) \in Nat /\ Len(sent) \in Nat
      /\ Len(stream) \in Nat
  BY LenProperties DEF StreamInv, TypesOK, Row
<1>3. n \in Nat /\ n <= MsgSize /\ n <= Len(stream) /\ (n = 0 => srv # "up" /\ stream = <<>>)
      /\ MsgSize \in Nat /\ MsgSize # 0
  BY <1>2, SizesAre DEF Received
<1>4. reads' \in Seq([at : Nat, n : Nat]) /\ Len(reads') = Len(reads) + 1 /\ Len(reads) \in Nat
      /\ (\A k \in 1..Len(reads) : reads'[k] = reads[k]) /\ reads'[Len(reads) + 1].n = n
  <2>1. PICK x : x = [at |-> Taken, n |-> n]
    OBVIOUS
  <2>2. x \in [at : Nat, n : Nat] /\ x.n = n
    BY <1>2, <1>3, <2>1, TakenIs
  <2> QED BY <1>1, <1>2, <2>1, <2>2, AppendProperties, LenProperties
<1>5. Row(shown', Len(shown')) /\ (shown' = shown \/ Len(shown') = Len(shown) + 1)
      /\ (msg'[1] # CLOSE_SRV_MSG => Len(shown') = Len(shown) + 1)
  <2>1. PICK x : x = Shown(msg')
    OBVIOUS
  <2>2. Row(Append(shown, x), Len(shown) + 1)
    BY <1>2, RowAppend
  <2>3. Row(Append(shown, x), Len(Append(shown, x))) /\ Len(Append(shown, x)) = Len(shown) + 1
    BY <2>2 DEF Row
  <2> QED BY <1>1, <1>2, <2>1, <2>3
<1>6. TypesOK'
  BY <1>1, <1>4, <1>5 DEF StreamInv, TypesOK
<1>7. /\ NoShortRead' => NoShortRead /\ n \in {0, MsgSize}
      /\ AtEnd' <=> (AtEnd \/ n = 0)
  <2>1. DOMAIN reads = 1..Len(reads) /\ DOMAIN reads' = 1..(Len(reads) + 1)
    BY <1>2, <1>4, LenProperties
  <2>2. \A k \in 1..(Len(reads) + 1) : k \in 1..Len(reads) \/ k = Len(reads) + 1
    BY <1>4
  <2>3. (\A k \in 1..Len(reads) : k \in 1..(Len(reads) + 1)) /\ Len(reads) + 1 \in 1..(Len(reads) + 1)
    BY <1>4
  <2>4. NoShortRead' => NoShortRead /\ n \in {0, MsgSize}
    BY <1>4, <2>1, <2>3 DEF NoShortRead
  <2>5. AtEnd' => AtEnd \/ n = 0
    BY <1>4, <2>1, <2>2 DEF AtEnd
  <2>6. AtEnd \/ n = 0 => AtEnd'
    BY <1>4, <2>1, <2>3 DEF AtEnd
  <2> QED BY <2>4, <2>5, <2>6
<1>8. ASSUME NoShortRead', AtEnd PROVE Whole'
  <2>1. srv # "up" /\ Len(shown) >= Len(sent)
    BY <1>7, <1>8 DEF StreamInv, Whole
  <2>2. Len(shown') >= Len(sent)
    BY <1>2, <1>5, <2>1
  <2> QED BY <1>1, <1>7, <1>8, <2>1, <2>2 DEF Whole
<1>9. ASSUME NoShortRead', ~AtEnd, n = 0 PROVE Whole'
  <2>1. PICK T : Framed(stream, T) /\ Outstanding(T)
    BY <1>1, <1>7, <1>9 DEF StreamInv, Whole
  <2>2. stream = <<>> /\ srv # "up" /\ Len(stream) = 0
    BY <1>3, <1>9
  <2>3. T = <<>>
    <3> SUFFICES ASSUME T # <<>> PROVE FALSE
      OBVIOUS
    <3>1. MsgSize <= Len(stream)
      BY <1>2, <2>1, FramedFirst
    <3> QED BY <1>3, <2>2, <3>1
  <2>4. Len(T) = 0
    BY <2>3
  <2>5. Len(sent) = Len(shown)
    BY <1>2, <2>1, <2>4 DEF Outstanding
  <2>6. Len(shown') >= Len(sent)
    BY <1>2, <1>5, <2>5
  <2> QED BY <1>1, <1>7, <1>9, <2>2, <2>6 DEF Whole
<1>10. ASSUME NoShortRead', ~AtEnd, n = MsgSize PROVE Whole'
  <2>1. PICK T : Framed(stream, T) /\ Outstanding(T)
    BY <1>1, <1>7, <1>10 DEF StreamInv, Whole
  <2>2. ~AtEnd'
    BY <1>3, <1>7, <1>10
  <2>3. T # <<>>
    <3> SUFFICES ASSUME T = <<>> PROVE FALSE
      OBVIOUS
    <3>1. Len(stream) = 0
      BY <2>1, FramedEmpty
    <3> QED BY <1>2, <1>3, <1>10, <3>1
  <2>4. PICK k, U : k = Len(T) /\ U = Tail(T)
    OBVIOUS
  <2>5. T \in Seq(Types) /\ k \in Nat /\ k # 0 /\ Len(U) = k - 1 /\ 1 \in 1..k
        /\ \A j \in 1..(k - 1) : U[j] = T[j + 1] /\ j + 1 \in 1..k
    <3>1. T \in Seq(Types)
      BY <2>1 DEF Framed
    <3>2. k \in Nat /\ k # 0
      BY <2>3, <2>4, <3>1, EmptySeq
    <3>3. Len(U) = k - 1 /\ \A j \in 1..(k - 1) : U[j] = T[j + 1]
      BY <2>3, <2>4, <3>1, HeadTailProperties
    <3> QED BY <3>1, <3>2, <3>3
  <2>6. msg'[1] = T[1] /\ Framed(stream', U)
    <3>1. stream[1] = T[1] /\ Framed(SubSeq(stream, MsgSize + 1, Len(stream)), Tail(T))
      BY <1>2, <2>1, <2>3, FramedFirst
    <3>2. msg'[1] = stream[1]
      BY <1>1, <1>3, <1>10
    <3> QED BY <1>1, <1>10, <2>4, <3>1, <3>2
  <2>7. /\ Len(shown) <= Len(sent)
        /\ k = (Len(sent) - Len(shown)) + (IF srv = "stopped" THEN 1 ELSE 0)
        /\ \A j \in 1..k : T[j] = CLOSE_SRV_MSG <=> (srv = "stopped" /\ j = k)
    BY <2>1, <2>4 DEF Outstanding
  <2>8. CASE T[1] = CLOSE_SRV_MSG
    <3>1. srv = "stopped" /\ k = 1
      BY <2>5, <2>7, <2>8
    <3>2. Len(shown) = Len(sent)
      BY <1>2, <2>7, <3>1
    <3> QED BY <1>1, <2>2, <2>6, <2>8, <3>1, <3>2 DEF Whole
  <2>9. CASE T[1] # CLOSE_SRV_MSG
    <3>1. ~(srv = "stopped" /\ 1 = k)
      BY <2>5, <2>7, <2>9
    <3>2. Len(shown') = Len(shown) + 1 /\ sub' = "running" /\ srv' = srv /\ sent' = sent
      BY <1>1, <1>5, <2>6, <2>9
    <3>3. Len(shown) + 1 <= Len(sent)
      BY <1>2, <2>5, <2>7, <3>1
    <3>4. k - 1 = (Len(sent) - (Len(shown) + 1)) + (IF srv = "stopped" THEN 1 ELSE 0)
      BY <1>2, <2>5, <2>7
    <3>5. \A j \in 1..(k - 1) : U[j] = CLOSE_SRV_MSG <=> (srv = "stopped" /\ j = k - 1)
      <4>1. \A j \in 1..(k - 1) : j + 1 = k <=> j = k - 1
        BY <2>5
      <4> QED BY <2>5, <2>7, <4>1
    <3>6. Outstanding(U)'
      BY <2>5, <3>2, <3>3, <3>4, <3>5 DEF Outstanding
    <3> QED BY <2>2, <2>6, <3>2, <3>6 DEF Whole
  <2> QED BY <2>8, <2>9
<1>11. Whole'
  <2>1. CASE ~NoShortRead'
    BY <2>1 DEF Whole
  <2>2. CASE NoShortRead'
    BY <1>7, <1>8, <1>9, <1>10, <2>2
  <2> QED BY <2>1, <2>2
<1> QED BY <1>6, <1>11 DEF StreamInv

(* StreamInv is an invariant.                                               *)
THEOREM StreamInvariance == Spec => []StreamInv
<1>1. ASSUME StreamInv, [Next]_vars PROVE StreamInv'
  <2>1. ASSUME NEW r \in Readings, ForwardReading(r) PROVE StreamInv'
    BY <1>1, <2>1, ForwardStep
  <2>2. CASE CloseConnection
    BY <1>1, <2>2, CloseStep
  <2>3. CASE ServerEnds
    BY <1>1, <2>3, EndsStep
  <2>4. CASE HandleServerMsg
    BY <1>1, <2>4, HandleStep
  <2>5. CASE UNCHANGED vars
    <3>1. TypesOK'
      BY <1>1, <2>5 DEF vars, StreamInv, TypesOK
    <3>2. \A T : Outstanding(T) => Outstanding(T)'
      BY <2>5 DEF vars, Outstanding
    <3>3. (NoShortRead' <=> NoShortRead) /\ (AtEnd' <=> AtEnd)
      BY <2>5 DEF vars, NoShortRead, AtEnd
    <3>4. (\E T : Framed(stream, T) /\ Outstanding(T))
          => (\E T : Framed(stream, T) /\ Outstanding(T))'
      BY <2>5, <3>2 DEF vars
    <3>5. Whole'
      BY <1>1, <2>5, <3>3, <3>4 DEF vars, StreamInv, Whole
    <3> QED BY <3>1, <3>5 DEF StreamInv
  <2> QED BY <1>1, <2>1, <2>2, <2>3, <2>4, <2>5 DEF Next
<1> QED BY <1>1, StreamInit, PTL DEF Spec

(* Unless a recv() was short, a subscriber that stops has shown every        *)
(* reading sent over its connection, and before the end of the stream       *)
(* exactly these (handle_server_msg).                                       *)
THEOREM DeliveryLosesNothing == Spec => []NothingLost
<1>1. StreamInv => NothingLost
  BY DEF StreamInv, Whole, NothingLost
<1> QED BY <1>1, StreamInvariance, PTL

-----------------------------------------------------------------------------
(* Where the messages are in the stream.                                    *)

(* The stream s begins at byte t of c messages F of w bytes, and ends with   *)
(* them.                                                                    *)
Placed(s, t, F, c, w) ==
  /\ t + Len(s) = w * c
  /\ \A n \in 1..c, j \in 1..w, i \in 1..Len(s) : t + i = w * (n - 1) + j => s[i] = F[n][j]

LEMMA PlacedRead ==
  ASSUME NEW s, NEW l, Row(s, l), NEW t \in Nat, NEW F, NEW c \in Nat, NEW w \in Nat,
         Placed(s, t, F, c, w), NEW n \in 0..l
  PROVE  Placed(SubSeq(s, n + 1, l), t + n, F, c, w)
<1>1. PICK u, v : u = SubSeq(s, n + 1, l) /\ v = t + n
  OBVIOUS
<1>2. l \in Nat /\ Len(s) = l /\ n \in Nat /\ n <= l
  BY DEF Row
<1>3. Row(u, l - n) /\ \A i \in 1..(l - n) : u[i] = s[n + i]
  <2>1. n + 1 \in Nat \ {0} /\ l \in Int /\ l <= l
    BY <1>2
  <2>2. /\ Row(u, IF n + 1 <= l THEN l - (n + 1) + 1 ELSE 0)
        /\ \A i \in 1..(l - (n + 1) + 1) : u[i] = s[(n + 1) + i - 1]
    BY <1>1, <2>1, RowCut
  <2>3. /\ (IF n + 1 <= l THEN l - (n + 1) + 1 ELSE 0) = l - n /\ l - (n + 1) + 1 = l - n
        /\ \A i \in 1..(l - n) : (n + 1) + i - 1 = n + i
    BY <1>2
  <2> QED BY <2>2, <2>3
<1>4. Len(u) = l - n
  BY <1>3 DEF Row
<1>5. v + Len(u) = w * c
  <2>1. t + l = w * c
    BY <1>2 DEF Placed
  <2> QED BY <1>1, <1>2, <1>4, <2>1
<1>6. ASSUME NEW k \in 1..c, NEW j \in 1..w, NEW i \in 1..(l - n), v + i = w * (k - 1) + j
      PROVE  u[i] = F[k][j]
  <2>1. n + i \in 1..l /\ t + (n + i) = v + i
    BY <1>1, <1>2
  <2>2. t + (n + i) = w * (k - 1) + j
    BY <1>6, <2>1
  <2>3. s[n + i] = F[k][j]
    BY <1>2, <2>1, <2>2 DEF Placed
  <2> QED BY <1>3, <2>3
<1>7. Placed(u, v, F, c, w)
  BY <1>4, <1>5, <1>6 DEF Placed
<1> QED BY <1>1, <1>7

LEMMA PlacedSent ==
  ASSUME NEW s, NEW l, Row(s, l), NEW t \in Nat, NEW F, NEW c \in Nat, NEW w \in Nat \ {0},
         Placed(s, t, F, c, w), NEW m, Row(m, w),
         NEW G, \A n \in 1..c : G[n] = F[n], G[c + 1] = m
  PROVE  Placed(s \o m, t, G, c + 1, w)
<1>1. PICK u : u = s \o m
  OBVIOUS
<1>2. l \in Nat /\ Len(s) = l
  BY DEF Row
<1>3. /\ Len(u) = l + w
      /\ \A i \in 1..l : u[i] = s[i]
      /\ \A i \in 1..w : u[l + i] = m[i]
  <2>1. Joined(u, s, m, l, w)
    BY <1>1, RowJoin
  <2> QED BY <2>1 DEF Joined, Row
<1>4. PICK p : p = w * c
  OBVIOUS
<1>5. p \in Int /\ t + l = p /\ w * (c + 1) = p + w
  <2>1. w * (c + 1) = w * c + w /\ w * c \in Int
    OBVIOUS
  <2> QED BY <1>2, <1>4, <2>1 DEF Placed
<1>6. t + Len(u) = w * (c + 1)
  BY <1>2, <1>3, <1>5
<1>7. ASSUME NEW n \in 1..(c + 1), NEW j \in 1..w, NEW i \in 1..(l + w), t + i = w * (n - 1) + j
      PROVE  u[i] = G[n][j]
  <2>1. CASE n = c + 1
    <3>1. w * (n - 1) = p
      <4>1. n - 1 = c
        BY <2>1
      <4> QED BY <1>4, <4>1
    <3>2. i = l + j
      BY <1>2, <1>5, <1>7, <3>1
    <3> QED BY <1>3, <2>1, <3>2
  <2>2. CASE n \in 1..c
    <3>1. w * n <= p
      BY <1>4, <2>2, TimesMonotonic
    <3>2. w * n = w * (n - 1) + w
      OBVIOUS
    <3>3. PICK x, y : x = w * (n - 1) /\ y = w * n
      OBVIOUS
    <3>4. x \in Int /\ y \in Int
      BY <3>3
    <3>5. t + i <= p
      BY <1>5, <1>7, <3>1, <3>2, <3>3, <3>4
    <3>6. i \in 1..l
      BY <1>2, <1>5, <3>5
    <3>7. s[i] = F[n][j]
      BY <1>2, <1>7, <2>2, <3>6 DEF Placed
    <3> QED BY <1>3, <2>2, <3>6, <3>7
  <2> QED BY <2>1, <2>2
<1> QED BY <1>1, <1>3, <1>6, <1>7 DEF Placed

LEMMA PlacedFirst ==
  ASSUME NEW s, NEW l, Row(s, l), NEW t \in Nat, NEW F, NEW c \in Nat, NEW w \in Nat \ {0},
         Placed(s, t, F, c, w), w <= l, t % w = 0
  PROVE  /\ (t \div w) + 1 \in 1..c
         /\ \A j \in 1..w : s[j] = F[(t \div w) + 1][j]
<1>1. PICK q, p : q = t \div w /\ p = w * q
  OBVIOUS
<1>2. l \in Nat /\ Len(s) = l
  BY DEF Row
<1>3. t = p /\ q \in Int /\ p \in Int
  <2>1. t = w * q + (t % w) /\ q \in Int
    BY <1>1, DivMod
  <2>2. w * q \in Int
    BY <2>1
  <2> QED BY <1>1, <2>1, <2>2
<1>4. q + 1 <= c
  <2> SUFFICES ASSUME c <= q PROVE FALSE
    BY <1>3
  <2>1. w * c <= p
    BY <1>1, <1>3, TimesMonotonic
  <2>2. t + l = w * c
    BY <1>2 DEF Placed
  <2>3. w * c \in Int
    OBVIOUS
  <2> QED BY <1>2, <1>3, <2>1, <2>2, <2>3
<1>5. 0 <= q
  <2> SUFFICES ASSUME q <= -1 PROVE FALSE
    BY <1>3
  <2>1. p <= w * (-1)
    BY <1>1, <1>3, TimesMonotonic
  <2>2. w * (-1) = -w
    OBVIOUS
  <2> QED BY <1>3, <2>1, <2>2
<1>6. q + 1 \in 1..c
  BY <1>3, <1>4, <1>5
<1>7. ASSUME NEW j \in 1..w PROVE s[j] = F[q + 1][j]
  <2>1. (q + 1) - 1 = q /\ j \in 1..l
    BY <1>2, <1>3
  <2>2. t + j = w * ((q + 1) - 1) + j
    BY <1>1, <1>3, <2>1
  <2> QED BY <1>2, <1>6, <2>1, <2>2 DEF Placed
<1> QED BY <1>1, <1>6, <1>7

-----------------------------------------------------------------------------
(* What is shown.                                                           *)

MessageOf(r) == srv_msg(r.addr, BigEndian(r.port, 2), Datagram(r))

(* The messages the server has put into the stream.                         *)
Sending == Len(sent) + (IF srv = "stopped" THEN 1 ELSE 0)

Wire == [n \in 1..Sending |-> IF n <= Len(sent) THEN MessageOf(sent[n]) ELSE close_msg]

(* Every read is shown but for one of CLOSE_SRV_MSG, which is the last.      *)
ReadsShown == Len(shown) <= Len(reads) /\ (sub = "running" => Len(shown) = Len(reads))

ShownInv ==
  /\ Placed(stream, Taken, Wire, Sending, MsgSize)
  /\ ReadsShown
  /\ ShownAsPublished

LEMMA ShownTypes ==
  ASSUME TypesOK
  PROVE  /\ Row(stream, Len(stream)) /\ Len(stream) \in Nat
         /\ Len(sent) \in Nat /\ DOMAIN sent = 1..Len(sent)
         /\ Len(reads) \in Nat /\ DOMAIN reads = 1..Len(reads)
         /\ Row(shown, Len(shown)) /\ Len(shown) \in Nat /\ DOMAIN shown = 1..Len(shown)
         /\ Taken \in Nat
         /\ Sending \in Nat
<1>1. /\ Row(stream, Len(stream)) /\ Row(shown, Len(shown))
      /\ sent \in Seq(Readings) /\ reads \in Seq([at : Nat, n : Nat])
  BY DEF TypesOK
<1>2. Len(stream) \in Nat /\ Len(shown) \in Nat /\ DOMAIN shown = 1..Len(shown)
  BY <1>1, LenProperties DEF Row
<1>3. /\ Len(sent) \in Nat /\ DOMAIN sent = 1..Len(sent)
      /\ Len(reads) \in Nat /\ DOMAIN reads = 1..Len(reads)
  BY <1>1, LenProperties
<1>4. Sending \in Nat
  BY <1>3 DEF Sending
<1> QED BY <1>1, <1>2, <1>3, <1>4, TakenIs

LEMMA ShownInit == Init => ShownInv
<1> SUFFICES ASSUME Init PROVE ShownInv
  OBVIOUS
<1>1. srv = "up" /\ stream = <<>> /\ sent = <<>> /\ reads = <<>> /\ shown = <<>>
  BY DEF Init
<1>2. Taken = 0 /\ Sending = 0
  BY <1>1 DEF Taken, Sending
<1>3. Placed(<<>>, 0, Wire, 0, MsgSize)
  <2>1. Len(<<>>) = 0 /\ MsgSize * 0 = 0
    BY SizesAre
  <2> QED BY <2>1 DEF Placed
<1>4. ReadsShown
  BY <1>1 DEF ReadsShown
<1>5. ShownAsPublished
  BY <1>1 DEF ShownAsPublished
<1> QED BY <1>1, <1>2, <1>3, <1>4, <1>5 DEF ShownInv

LEMMA ForwardShown ==
  ASSUME StreamInv, ShownInv, NEW r \in Readings, ForwardReading(r)
  PROVE  ShownInv'
<1>1. PICK m : m = MessageOf(r)
  OBVIOUS
<1>2. /\ srv = "up" /\ stream' = stream \o m /\ sent' = Append(sent, r)
      /\ srv' = srv /\ sub' = sub /\ reads' = reads /\ shown' = shown
  BY <1>1 DEF ForwardReading, MessageOf
<1>3. TypesOK
  BY DEF StreamInv
<1>4. /\ Len(sent') = Len(sent) + 1
      /\ (\A n \in 1..Len(sent) : sent'[n] = sent[n])
      /\ sent'[Len(sent) + 1] = r
  BY <1>2, <1>3, AppendProperties DEF TypesOK
<1>5. Taken' = Taken /\ Sending = Len(sent) /\ Sending' = Len(sent) + 1 /\ Len(sent) \in Nat
  BY <1>2, <1>3, <1>4, ShownTypes DEF Taken, Sending
<1>6. Placed(stream', Taken, Wire', Sending + 1, MsgSize)
  <2>1. \A n \in 1..Sending : Wire'[n] = Wire[n]
    BY <1>4, <1>5 DEF Wire
  <2>2. Wire'[Sending + 1] = m
    BY <1>1, <1>4, <1>5 DEF Wire
  <2>3. Row(m, MsgSize)
    BY <1>1, MessageShown DEF MessageOf
  <2>4. PICK F, G, u : F = Wire /\ G = Wire' /\ u = stream'
    OBVIOUS
  <2>5. Placed(stream, Taken, F, Sending, MsgSize)
    BY <2>4 DEF ShownInv
  <2>6. Placed(stream \o m, Taken, G, Sending + 1, MsgSize)
    BY <1>3, <2>1, <2>2, <2>3, <2>4, <2>5, ShownTypes, SizesAre, PlacedSent
  <2> QED BY <1>2, <2>4, <2>6
<1>7. ReadsShown'
  BY <1>2 DEF ShownInv, ReadsShown
<1>8. ShownAsPublished'
  <2> SUFFICES ASSUME NEW k \in DOMAIN shown, Aligned(k), NEW n, n = (reads[k].at \div MsgSize) + 1
               PROVE  n <= Len(sent') /\ shown[k] = OnTerminal(sent'[n])
    BY <1>2 DEF ShownAsPublished, Aligned
  <2>1. n <= Len(sent) /\ shown[k] = OnTerminal(sent[n])
    BY DEF ShownInv, ShownAsPublished
  <2>2. n \in 1..Len(sent)
    <3>1. k \in 1..Len(reads) /\ reads \in Seq([at : Nat, n : Nat])
      BY <1>3, ShownTypes DEF ShownInv, ReadsShown, TypesOK
    <3>2. PICK a : a = reads[k].at
      OBVIOUS
    <3>3. a \in Nat
      <4>1. reads[k] \in [at : Nat, n : Nat]
        BY <3>1, ElementOfSeq
      <4> QED BY <3>2, <4>1
    <3>4. a \div MsgSize \in Nat
      BY <3>3, SizesAre
    <3> QED BY <1>5, <2>1, <3>2, <3>4
  <2> QED BY <1>4, <1>5, <2>1, <2>2
<1> QED BY <1>5, <1>6, <1>7, <1>8 DEF ShownInv

LEMMA CloseShown ==
  ASSUME StreamInv, ShownInv, CloseConnection
  PROVE  ShownInv'
<1>1. /\ srv = "up" /\ srv' = "stopped" /\ stream' = stream \o close_msg /\ sent' = sent
      /\ sub' = sub /\ reads' = reads /\ shown' = shown
  BY DEF CloseConnection
<1>2. TypesOK
  BY DEF StreamInv
<1>3. Taken' = Taken /\ Sending = Len(sent) /\ Sending' = Len(sent) + 1 /\ Len(sent) \in Nat
  BY <1>1, <1>2, ShownTypes DEF Taken, Sending
<1>4. Placed(stream', Taken, Wire', Sending + 1, MsgSize)
  <2>1. \A n \in 1..Sending : Wire'[n] = Wire[n]
    BY <1>1, <1>3 DEF Wire
  <2>2. Wire'[Sending + 1] = close_msg
    BY <1>1, <1>3 DEF Wire
  <2>3. PICK F, G, m : F = Wire /\ G = Wire' /\ m = close_msg
    OBVIOUS
  <2>4. Row(m, MsgSize)
    BY <2>3, CloseMsgIs DEF Headed
  <2>5. Placed(stream, Taken, F, Sending, MsgSize)
    BY <2>3 DEF ShownInv
  <2>6. Placed(stream \o m, Taken, G, Sending + 1, MsgSize)
    BY <1>2, <2>1, <2>2, <2>3, <2>4, <2>5, ShownTypes, SizesAre, PlacedSent
  <2> QED BY <1>1, <2>3, <2>6
<1>5. ReadsShown' /\ ShownAsPublished'
  BY <1>1 DEF ShownInv, ReadsShown, ShownAsPublished, Aligned
<1> QED BY <1>3, <1>4, <1>5 DEF ShownInv

LEMMA EndsShown ==
  ASSUME ShownInv, ServerEnds
  PROVE  ShownInv'
<1>1. /\ srv = "up" /\ srv' = "gone" /\ stream' = stream /\ sent' = sent
      /\ sub' = sub /\ reads' = reads /\ shown' = shown
  BY DEF ServerEnds
<1>2. Taken' = Taken /\ Sending' = Sending
  BY <1>1 DEF Taken, Sending
<1>3. Wire' = Wire
  BY <1>1, <1>2 DEF Wire
<1>4. ReadsShown' /\ ShownAsPublished'
  BY <1>1 DEF ShownInv, ReadsShown, ShownAsPublished, Aligned
<1> QED BY <1>1, <1>2, <1>3, <1>4 DEF ShownInv

LEMMA HandleShown ==
  ASSUME StreamInv, ShownInv, HandleServerMsg
  PROVE  ShownInv'
<1>1. PICK n \in Received :
        /\ sub = "running"
        /\ stream' = SubSeq(stream, n + 1, Len(stream))
        /\ reads' = Append(reads, [at |-> Taken, n |-> n])
        /\ srv' = srv /\ sent' = sent
        /\ IF msg'[1] = CLOSE_SRV_MSG
             THEN sub' = "exited" /\ shown' = shown
             ELSE sub' = sub /\ shown' = Append(shown, Shown(msg'))
        /\ Row(msg', MsgSize)
        /\ Row(stream', Len(stream'))
        /\ \A i \in 1..n : msg'[i] = stream[i]
  BY ReadIs
<1>2. TypesOK
  BY DEF StreamInv
<1>3. PICK l, w, t, c, x : /\ l = Len(stream) /\ w = MsgSize /\ t = Taken /\ c = Sending
                           /\ x = [at |-> t, n |-> n]
  OBVIOUS
<1>4. l \in Nat /\ w \in Nat \ {0} /\ t \in Nat /\ c \in Nat /\ Row(stream, l)
  BY <1>2, <1>3, ShownTypes, SizesAre
<1>5. n \in 0..l /\ n \in Nat /\ n <= w
  BY <1>3, <1>4 DEF Received
<1>6. /\ Len(reads') = Len(reads) + 1 /\ Len(reads) \in Nat
      /\ (\A k \in 1..Len(reads) : reads'[k] = reads[k])
      /\ reads'[Len(reads) + 1] = x /\ x.at = t /\ x.n = n
  <2>1. x \in [at : Nat, n : Nat] /\ x.at = t /\ x.n = n
    BY <1>3, <1>4, <1>5
  <2> QED BY <1>1, <1>2, <1>3, <2>1, AppendProperties, ShownTypes DEF TypesOK
<1>7. Taken' = t + n
  <2>1. reads' # <<>>
    <3> SUFFICES ASSUME reads' = <<>> PROVE FALSE
      OBVIOUS
    <3>1. Len(reads') = 0
      OBVIOUS
    <3> QED BY <1>6, <3>1
  <2> QED BY <1>6, <2>1 DEF Taken
<1>8. Sending' = c
  BY <1>1, <1>3 DEF Sending
<1>9. Wire' = Wire
  BY <1>1, <1>3, <1>8 DEF Wire
<1>10. Placed(stream', t + n, Wire, c, w)
  <2>1. PICK F, s : F = Wire /\ s = stream
    OBVIOUS
  <2>2. Placed(s, t, F, c, w)
    BY <1>3, <2>1 DEF ShownInv
  <2>3. Placed(SubSeq(s, n + 1, l), t + n, F, c, w)
    BY <1>4, <1>5, <2>1, <2>2, PlacedRead
  <2> QED BY <1>1, <1>3, <2>1, <2>3
<1>11. Len(shown) = Len(reads) /\ Row(shown, Len(shown)) /\ DOMAIN shown = 1..Len(shown)
  BY <1>1, <1>2, ShownTypes DEF ShownInv, ReadsShown
<1>12. CASE msg'[1] = CLOSE_SRV_MSG
  <2>1. shown' = shown /\ sub' = "exited"
    BY <1>1, <1>12
  <2>2. ReadsShown'
    BY <1>6, <1>11, <2>1 DEF ReadsShown
  <2>3. ShownAsPublished'
    BY <1>1, <1>6, <1>11, <2>1 DEF ShownInv, ShownAsPublished, Aligned
  <2> QED BY <1>3, <1>7, <1>8, <1>9, <1>10, <2>2, <2>3 DEF ShownInv
<1>13. CASE msg'[1] # CLOSE_SRV_MSG
  <2>1. PICK o, y : o = Len(shown) /\ y = Shown(msg')
    OBVIOUS
  <2>2. sub' = sub /\ shown' = Append(shown, y)
    BY <1>1, <1>13, <2>1
  <2>3. /\ Row(shown', o + 1) /\ (\A i \in 1..o : shown'[i] = shown[i])
        /\ shown'[o + 1] = y /\ o \in Nat
    BY <1>6, <1>11, <2>1, <2>2, RowAppend
  <2>4. Len(shown') = o + 1 /\ DOMAIN shown' = 1..(o + 1)
    <3>1. PICK A : shown' \in Seq(A) /\ Len(shown') = o + 1
      BY <2>3 DEF Row
    <3> QED BY <3>1, LenProperties
  <2>5. ReadsShown'
    BY <1>6, <1>11, <2>1, <2>4 DEF ReadsShown
  <2>6. ASSUME NEW k \in 1..o, Aligned(k)'
        PROVE  /\ (reads'[k].at \div MsgSize) + 1 <= Len(sent)
               /\ shown'[k] = OnTerminal(sent[(reads'[k].at \div MsgSize) + 1])
    <3>1. reads'[k] = reads[k] /\ shown'[k] = shown[k] /\ k \in DOMAIN shown
      BY <1>6, <1>11, <2>1, <2>3
    <3>2. Aligned(k)
      BY <2>6, <3>1 DEF Aligned
    <3> QED BY <3>1, <3>2 DEF ShownInv, ShownAsPublished
  <2>7. ASSUME n = w, t % w = 0
        PROVE  (t \div w) + 1 <= Len(sent) /\ y = OnTerminal(sent[(t \div w) + 1])
    <3>1. PICK F, q : F = Wire /\ q = (t \div w) + 1
      OBVIOUS
    <3>2. Placed(stream, t, F, c, w)
      BY <1>3, <3>1 DEF ShownInv
    <3>3. w <= l
      BY <1>4, <1>5, <2>7
    <3>4. q \in 1..c /\ \A j \in 1..w : stream[j] = F[q][j]
      BY <1>4, <2>7, <3>1, <3>2, <3>3, PlacedFirst
    <3>5. PICK m : m = F[q]
      OBVIOUS
    <3>6. \A j \in 1..w : msg'[j] = m[j]
      BY <1>1, <2>7, <3>4, <3>5
    <3>7. CASE q <= Len(sent)
      <4>1. PICK r : r = sent[q]
        OBVIOUS
      <4>2. r \in Readings
        <5>1. q \in 1..Len(sent)
          BY <3>4, <3>7
        <5> QED BY <1>2, <4>1, <5>1, ElementOfSeq DEF TypesOK
      <4>3. m = MessageOf(r)
        BY <1>3, <3>1, <3>4, <3>5, <3>7, <4>1 DEF Wire
      <4>4. Row(m, w) /\ Shown(m) = OnTerminal(r)
        BY <1>3, <4>2, <4>3, MessageShown DEF MessageOf
      <4>5. msg' = m
        BY <1>1, <1>3, <3>6, <4>4, SameRow
      <4> QED BY <2>1, <3>1, <3>7, <4>1, <4>4, <4>5
    <3>8. CASE ~(q <= Len(sent))
      <4>1. m = close_msg
        BY <1>3, <3>1, <3>4, <3>5, <3>8 DEF Wire
      <4>2. m[1] = CLOSE_SRV_MSG
        BY <4>1, CloseMsgIs DEF Headed
      <4>3. 1 \in 1..w
        BY <1>4
      <4> QED BY <1>13, <3>6, <4>2, <4>3
    <3> QED BY <3>7, <3>8
  <2>8. ASSUME Aligned(o + 1)'
        PROVE  /\ (reads'[o + 1].at \div MsgSize) + 1 <= Len(sent)
               /\ shown'[o + 1] = OnTerminal(sent[(reads'[o + 1].at \div MsgSize) + 1])
    <3>1. reads'[o + 1].at = t /\ reads'[o + 1].n = n
      BY <1>6, <1>11, <2>1
    <3>2. n = w /\ t % w = 0
      BY <1>3, <2>8, <3>1 DEF Aligned
    <3> QED BY <1>3, <2>3, <2>7, <3>1, <3>2
  <2>9. ShownAsPublished'
    <3>1. \A k \in 1..(o + 1) : k \in 1..o \/ k = o + 1
      BY <2>3
    <3> QED BY <1>1, <2>4, <2>6, <2>8, <3>1 DEF ShownAsPublished
  <2> QED BY <1>3, <1>7, <1>8, <1>9, <1>10, <2>5, <2>9 DEF ShownInv
<1> QED BY <1>12, <1>13

(* Whatever the server sends and however recv() cuts it, a message that is   *)
(* read at its boundaries is shown as its provider published it             *)
(* (handle_udp_msg, handle_server_msg).                                     *)
THEOREM MessagesShownAsPublished == Spec => []ShownAsPublished
<1>1. ASSUME StreamInv, ShownInv, [Next]_vars PROVE ShownInv'
  <2>1. ASSUME NEW r \in Readings, ForwardReading(r) PROVE ShownInv'
    BY <1>1, <2>1, ForwardShown
  <2>2. CASE CloseConnection
    BY <1>1, <2>2, CloseShown
  <2>3. CASE ServerEnds
    BY <1>1, <2>3, EndsShown
  <2>4. CASE HandleServerMsg
    BY <1>1, <2>4, HandleShown
  <2>5. CASE UNCHANGED vars
    <3>1. Taken' = Taken /\ Sending' = Sending
      BY <2>5 DEF vars, Taken, Sending
    <3>2. Wire' = Wire
      BY <2>5, <3>1 DEF vars, Wire
    <3>3. ReadsShown' /\ ShownAsPublished'
      BY <1>1, <2>5 DEF vars, ShownInv, ReadsShown, ShownAsPublished, Aligned
    <3> QED BY <1>1, <2>5, <3>1, <3>2, <3>3 DEF vars, ShownInv
  <2> QED BY <1>1, <2>1, <2>2, <2>3, <2>4, <2>5 DEF Next
<1>2. Spec => []ShownInv
  BY <1>1, ShownInit, StreamInvariance, PTL DEF Spec
<1>3. ShownInv => ShownAsPublished
  BY DEF ShownInv
<1> QED BY <1>2, <1>3, PTL
=============================================================================
