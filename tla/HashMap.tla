------------------------------- MODULE HashMap -------------------------------
(***************************************************************************)
(* src/hashmap.c: a table of chains that doubles when it is loaded to 3/4.  *)
(* ht_double_hmax puts every pair back with ht_put, which may remove,       *)
(* append and double in its turn.  Each of these calls of ht_put is a step: *)
(* work holds, innermost call first, what the calls of ht_double_hmax under *)
(* way have still to put back.  Between two calls of the server it is empty. *)
(* A chain is a sequence (module LinkedList).                               *)
(***************************************************************************)
EXTENDS Integers, Sequences, FiniteSets, SequencesExt

CONSTANTS
  Keys, Values, NoValue,
  Hash,         \* hash_function: hash_uint or hash_string
  InitialHmax   \* the hmax given to ht_create

ASSUME HashMapAssumption ==
  /\ Hash \in [Keys -> Nat]
  /\ InitialHmax \in Nat \ {0}
  /\ NoValue \notin Values

VARIABLES
  buckets,  \* ht->buckets
  hmax,     \* ht->hmax
  size,     \* ht->size
  work      \* the pairs still to be put back

vars == <<buckets, hmax, size, work>>

Pairs == [key : Keys, value : Values]

Bucket(k) == Hash[k] % hmax

Chain(k) == buckets[Bucket(k)]

Position(k) == SelectInSeq(Chain(k), LAMBDA p : p.key = k)

ht_has_key(k) == Position(k) # 0

ht_get(k) == IF ht_has_key(k) THEN Chain(k)[Position(k)].value ELSE NoValue

(* size / hmax >= LOAD_FACTOR                                               *)
Overloaded(n, h) == 4 * n >= 3 * h

ChainWithout(k) == IF ht_has_key(k) THEN RemoveAt(Chain(k), Position(k))
                                    ELSE Chain(k)

(* Mutants: the size is not reset; the table grows by one bucket; the last   *)
(* bucket is left out.                                                      *)
ht_double_hmax_keeping_size(old, rest) ==
  /\ buckets' = [b \in 0..(2 * hmax - 1) |-> <<>>]
  /\ hmax' = 2 * hmax
  /\ size' = size
  /\ work' = <<FlattenSeq([b \in 1..hmax |-> old[b - 1]])>> \o rest

ht_double_hmax_by_one(old, rest) ==
  /\ buckets' = [b \in 0..hmax |-> <<>>]
  /\ hmax' = hmax + 1
  /\ size' = 0
  /\ work' = <<FlattenSeq([b \in 1..hmax |-> old[b - 1]])>> \o rest

ht_double_hmax_but_last(old, rest) ==
  /\ buckets' = [b \in 0..(2 * hmax - 1) |-> <<>>]
  /\ hmax' = 2 * hmax
  /\ size' = 0
  /\ work' = SelectSeq(<<FlattenSeq([b \in 1..(hmax - 1) |-> old[b - 1]])>> \o rest,
                       LAMBDA s : s # <<>>)

(* ht_double_hmax, up to its first call of ht_put.                          *)
ht_double_hmax(old, rest) ==
  /\ buckets' = [b \in 0..(2 * hmax - 1) |-> <<>>]
  /\ hmax' = 2 * hmax
  /\ size' = 0
  /\ work' = <<FlattenSeq([b \in 1..hmax |-> old[b - 1]])>> \o rest

(* ht_put: take out the entry of the key, append the new pair, double.      *)
PutPair(p, rest) ==
  LET n   == IF ht_has_key(p.key) THEN size ELSE size + 1
      new == [buckets EXCEPT ![Bucket(p.key)] = Append(ChainWithout(p.key), p)]
  IN IF Overloaded(n, hmax)
       THEN ht_double_hmax(new, rest)
       ELSE /\ buckets' = new
            /\ size' = n
            /\ work' = rest
            /\ UNCHANGED hmax

ht_put(k, v) ==
  /\ work = <<>>
  /\ PutPair([key |-> k, value |-> v], <<>>)

(* One iteration of the loop of the innermost ht_double_hmax.               *)
PutBack ==
  /\ work # <<>>
  /\ LET todo == Tail(Head(work))
     IN PutPair(Head(Head(work)),
                IF todo = <<>> THEN Tail(work) ELSE <<todo>> \o Tail(work))

(* Mutant: a key that is not there is counted out too.                      *)
ht_remove_uncounted(k) ==
  /\ work = <<>>
  /\ buckets' = [buckets EXCEPT ![Bucket(k)] = ChainWithout(k)]
  /\ size' = size - 1
  /\ UNCHANGED <<hmax, work>>

(* ht_remove_entry; nothing happens when the key is not there.              *)
ht_remove_entry(k) ==
  /\ work = <<>>
  /\ ht_has_key(k)
  /\ buckets' = [buckets EXCEPT ![Bucket(k)] = ChainWithout(k)]
  /\ size' = size - 1
  /\ UNCHANGED <<hmax, work>>

Init ==
  /\ hmax = InitialHmax
  /\ buckets = [b \in 0..(InitialHmax - 1) |-> <<>>]
  /\ size = 0
  /\ work = <<>>

Next ==
  \/ \E k \in Keys, v \in Values : ht_put(k, v)
  \/ PutBack
  \/ \E k \in Keys : ht_remove_entry(k)

Spec == Init /\ [][Next]_vars

-----------------------------------------------------------------------------
(* The pairs that are in the table or waiting to be put back, by position.  *)
Entries == UNION {{b} \X (1..Len(buckets[b])) : b \in DOMAIN buckets}
Waiting == IF work = <<>> THEN <<>> ELSE FlattenSeq(work)

Entry(e) == buckets[e[1]][e[2]]

(* The variables have their types.                                          *)
TypeOK ==
  /\ hmax \in Nat \ {0}
  /\ buckets \in [0..(hmax - 1) -> Seq(Pairs)]
  /\ size \in Nat
  /\ work \in Seq(Seq(Pairs) \ {<<>>})

(* Each pair is in the bucket its key hashes to under the present hmax, size *)
(* counts the pairs in the table, and no key has two pairs, neither in the   *)
(* table nor waiting: so no search of ht_has_key, ht_get or ht_remove_entry  *)
(* misses a pair, and ht_put never takes one out while it puts pairs back.   *)
TableConsistent ==
  /\ \A b \in DOMAIN buckets : \A j \in 1..Len(buckets[b]) :
       Hash[buckets[b][j].key] % hmax = b
  /\ size = Cardinality(Entries)
  /\ \A d, e \in Entries : Entry(d).key = Entry(e).key => d = e
  /\ \A j \in 1..Len(Waiting) :
       /\ ~ht_has_key(Waiting[j].key)
       /\ \A l \in 1..Len(Waiting) : Waiting[l].key = Waiting[j].key => l = j

(* Putting the pairs back never doubles the table again, so ht_double_hmax   *)
(* does not recurse and the size it leaves is below the load factor.        *)
NoNestedDoubling == [][work # <<>> => hmax' = hmax]_vars

(* The table implements a dictionary as ht_get shows it; while pairs are put *)
(* back nobody looks, and the pairs that wait still count.                  *)
Content(k) ==
  LET w == SelectInSeq(Waiting, LAMBDA p : p.key = k)
  IN IF w # 0 THEN Waiting[w].value ELSE ht_get(k)

Abstract == INSTANCE Dictionary WITH dict <- [k \in Keys |-> Content(k)]

(* Every put and removal changes the value of its own key and no other, and  *)
(* rehashing changes nothing (ht_put, ht_double_hmax, ht_remove_entry).      *)
ImplementsDictionary == Abstract!Spec
=============================================================================
