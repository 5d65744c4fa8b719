----------------------------- MODULE LinkedList -----------------------------
(***************************************************************************)
(* src/list.c: a singly linked list with a pointer to its last node, on a   *)
(* heap of addresses.  malloc() returns any free address and the node keeps *)
(* whatever the address held before, so a link that is not set shows.  A    *)
(* node that is removed is freed at once, as its callers do (hashmap.c,     *)
(* lines 208-211).  The tail is not reset when the list gets empty.         *)
(***************************************************************************)
EXTENDS Integers, Sequences, FiniteSets

CONSTANTS
  Addrs,     \* the addresses of nodes
  Null,      \* NULL
  Data       \* what a node may hold

ASSUME LinkedListAssumption == IsFiniteSet(Addrs) /\ Null \notin Addrs

VARIABLES
  head, tail, size,  \* the fields of ll_t
  link, data,        \* the fields next and data of the nodes
  allocated          \* the addresses in use

vars == <<head, tail, size, link, data, allocated>>

(* The node after k steps along the links from the head; NULL stays NULL.   *)
NodeAt[k \in Nat] ==
  IF k = 0 THEN head
           ELSE IF NodeAt[k - 1] = Null THEN Null ELSE link[NodeAt[k - 1]]

(* ll_get_nth_node                                                          *)
ll_get_nth_node(n) == IF n = size - 1 THEN tail ELSE NodeAt[n]

(* Mutant: a position at or behind the end becomes the first one.           *)
LeastOrFirst(m, n) == IF m < n THEN m ELSE 0

(* The position behind the end means the end.                               *)
Least(m, n) == IF m < n THEN m ELSE n

(* Mutant: the link of a last node is not set.                              *)
LinkedAtUnset(a, n) ==
  CASE n = 0           -> [link EXCEPT ![a] = head]
    [] n > 0 /\ n < size -> LET prev == ll_get_nth_node(n - 1)
                            IN [link EXCEPT ![prev] = a, ![a] = link[prev]]
    [] n > 0 /\ n = size -> [link EXCEPT ![tail] = a]

(* The links once the new node a has position n.                            *)
LinkedAt(a, n) ==
  CASE n = 0           -> [link EXCEPT ![a] = head]
    [] n > 0 /\ n < size -> LET prev == ll_get_nth_node(n - 1)
                            IN [link EXCEPT ![prev] = a, ![a] = link[prev]]
    [] n > 0 /\ n = size -> [link EXCEPT ![tail] = a, ![a] = Null]

ll_add_nth_node(pos, d) ==
  LET n == Least(pos, size)
  IN \E a \in Addrs \ allocated :
       /\ allocated' = allocated \cup {a}
       /\ data' = [data EXCEPT ![a] = d]
       /\ link' = LinkedAt(a, n)
       /\ head' = IF n = 0 THEN a ELSE head
       /\ tail' = IF n = size THEN a ELSE tail
       /\ size' = size + 1

(* ll_remove_nth_node, and free_ll_node of the node it returns.             *)
ll_remove_nth_node(pos) ==
  LET n    == Least(pos, size - 1)
      prev == ll_get_nth_node(n - 1)
      rmv  == IF n = 0 THEN head ELSE link[prev]
  IN /\ head # Null
     /\ IF n = 0
          THEN head' = link[head] /\ UNCHANGED <<link, tail>>
          ELSE /\ link' = [link EXCEPT ![prev] = link[rmv]]
               /\ tail' = IF n = size - 1 THEN prev ELSE tail
               /\ UNCHANGED head
     /\ size' = size - 1
     /\ allocated' = allocated \ {rmv}
     /\ UNCHANGED data

(* ll_free: every node from the head to NULL is freed.  A list made again   *)
(* with ll_create follows it, as for the buckets of ht_double_hmax.         *)
ll_free ==
  /\ allocated' = allocated \ {NodeAt[k] : k \in 0..Cardinality(Addrs)}
  /\ head' = Null
  /\ tail' = Null
  /\ size' = 0
  /\ UNCHANGED <<link, data>>

Init ==  \* ll_create
  /\ head = Null
  /\ tail = Null
  /\ size = 0
  /\ link \in [Addrs -> Addrs \cup {Null}]
  /\ data \in [Addrs -> Data]
  /\ allocated = {}

(* Positions: 0 as for the list of subscribers, and up to one behind the    *)
(* end, which list.h describes as well.                                     *)
Positions == 0..(Cardinality(Addrs) + 1)

Next ==
  \/ \E pos \in Positions :
       \/ ll_remove_nth_node(pos)
       \/ \E d \in Data : ll_add_nth_node(pos, d)
  \/ ll_free

Spec == Init /\ [][Next]_vars

-----------------------------------------------------------------------------
(* From the head to NULL there are exactly size nodes, all different, and   *)
(* they are the nodes in use: nothing leaks, no freed node is reached, and   *)
(* there is no cycle.  The tail of a list with nodes is the last of them.   *)
ChainSound ==
  /\ NodeAt[size] = Null
  /\ allocated = {NodeAt[k] : k \in 0..(size - 1)}
  /\ Cardinality(allocated) = size
  /\ size > 0 => tail = NodeAt[size - 1]

(* The list implements a sequence: each call changes what a traversal from   *)
(* the head reads (as handle_udp_msg does) as list.h says, also at the ends, *)
(* and clamps positions behind the end.                                     *)
Abstract == INSTANCE ListOfData
              WITH list <- [k \in 1..size |-> data[NodeAt[k - 1]]]

ImplementsSequence ==
  Abstract!Init /\ [][
     /\ ll_free => Abstract!Clear
     /\ \A pos \in Positions :
          /\ ll_remove_nth_node(pos) => Abstract!Delete(pos)
          /\ \A d \in Data : ll_add_nth_node(pos, d) => Abstract!Add(pos, d)]_vars
=============================================================================
