--------------------------------- MODULE Trie ---------------------------------
(***************************************************************************)
(* src/trie.c as the server uses it for the topics of one subscriber        *)
(* (add_subscription and rmv_subscription of src/server.c).  A node is      *)
(* named by the word that leads to it, the root by <<>>.  The recursions    *)
(* of trie.c go down one path, so the nodes they visit are prefixes of the  *)
(* topic.  The value of a node, always the same, is left out.               *)
(***************************************************************************)
EXTENDS Integers, Sequences, FiniteSets, SequencesExt

CONSTANTS
  Letters,   \* TOPIC_ALPHABET
  Topics,    \* the topics users give in their commands
  MaxSize    \* bound on size, which the program does not have

ASSUME TrieAssumption ==
  /\ \A t \in Topics : t \in Seq(ToSet(t))
  /\ MaxSize \in Nat

VARIABLES
  nodes,        \* the nodes of the trie
  end_of_word,  \* those that have it set
  n_children,   \* their n_children
  n_Nodes,      \* trie->n_Nodes
  size,         \* trie->size
  alive         \* the process has not ended by DIE or a bad read

vars == <<nodes, end_of_word, n_children, n_Nodes, size, alive>>

Root == <<>>

Born(x, new) == Cardinality({y \in new \ {Root} : Front(y) = x})

(* get_index_from_alphabet # -1 for all letters                             *)
Spelled(x) == ToSet(x) \subseteq Letters

(* Mutant: the children of the nodes that are there already are not counted. *)
n_children_of_new(path) ==
  [x \in nodes \cup path |->
     IF x \in nodes THEN n_children[x] ELSE Born(x, path)]

(* n_children when the nodes of path have been added.                       *)
n_children_with(path) ==
  [x \in nodes \cup path |->
     (IF x \in nodes THEN n_children[x] ELSE 0) + Born(x, path \ nodes)]

(* trie_insert, from add_subscription.  The nodes before a letter that is   *)
(* not in the alphabet are made before DIE.                                 *)
trie_insert(t) ==
  LET path == {x \in Prefixes(t) : Spelled(x)}
  IN /\ nodes' = nodes \cup path
     /\ n_children' = n_children_with(path)
     /\ n_Nodes' = n_Nodes + Cardinality(path \ nodes)
     /\ IF t \in path
          THEN /\ end_of_word' = end_of_word \cup {t}
               /\ size' = size + 1
               /\ UNCHANGED alive
          ELSE alive' = FALSE /\ UNCHANGED <<end_of_word, size>>

add_subscription(t) == alive /\ size < MaxSize /\ trie_insert(t)

(* trie_search                                                              *)
trie_search(t) == Prefixes(t) \subseteq nodes /\ t \in end_of_word

(* trie_search follows a child with the index -1: it stands on a node and    *)
(* the next letter is not in the alphabet.                                  *)
StrayRead(t) == \E l \in 0..(Len(t) - 1) :
                  /\ {SubSeq(t, 1, m) : m \in 0..l} \subseteq nodes
                  /\ t[l + 1] \notin Letters

(* Mutant: a node is freed without a look at end_of_word.                   *)
FreedWords(t) ==
  LET x[k \in 0..Len(t)] == SubSeq(t, 1, k)
      returns[k \in 0..Len(t)] ==
        IF k = Len(t) THEN n_children[t] = 0
          ELSE n_children[x[k]] = (IF returns[k + 1] THEN 1 ELSE 0)
  IN {x[k] : k \in {k \in 1..Len(t) : returns[k]}}

(* The nodes trie_remove_helper frees on its way back from t, which it has   *)
(* found: returns[k] is what the call for the prefix of length k returns.   *)
Freed(t) ==
  LET x[k \in 0..Len(t)] == SubSeq(t, 1, k)
      returns[k \in 0..Len(t)] ==
        IF k = Len(t)
          THEN n_children[t] = 0
          ELSE /\ n_children[x[k]] = (IF returns[k + 1] THEN 1 ELSE 0)
               /\ x[k] \notin end_of_word
  IN {x[k] : k \in {k \in 1..Len(t) : returns[k]}}

(* trie_remove                                                              *)
trie_remove(t) ==
  LET freed == Freed(t)
  IN /\ nodes' = nodes \ freed
     /\ end_of_word' = end_of_word \ {t}
     /\ n_children' = [x \in nodes \ freed |-> n_children[x] - Born(x, freed)]
     /\ n_Nodes' = n_Nodes - Cardinality(freed)
     /\ size' = size - 1
     /\ UNCHANGED alive

(* rmv_subscription                                                         *)
rmv_subscription(t) ==
  /\ alive
  /\ \/ trie_search(t) /\ trie_remove(t)
     \/ /\ StrayRead(t)
        /\ alive' = FALSE
        /\ UNCHANGED <<nodes, end_of_word, n_children, n_Nodes, size>>

Init ==  \* trie_create
  /\ nodes = {Root}
  /\ end_of_word = {}
  /\ n_children = [x \in {Root} |-> 0]
  /\ n_Nodes = 1
  /\ size = 0
  /\ alive = TRUE

Next == \E t \in Topics : add_subscription(t) \/ rmv_subscription(t)

Spec == Init /\ [][Next]_vars

-----------------------------------------------------------------------------
(* The trie has the nodes its words need and no others (but for those of an  *)
(* insertion that ended the process), so removals free all they should and   *)
(* nothing a longer or a shorter word still needs; each counter of children  *)
(* and the counter of nodes say how many there are.                         *)
TrieShape ==
  /\ {Root} \cup UNION {Prefixes(t) : t \in end_of_word} \subseteq nodes
  /\ alive => nodes = {Root} \cup UNION {Prefixes(t) : t \in end_of_word}
  /\ DOMAIN n_children = nodes
  /\ \A x \in nodes : n_children[x] = Born(x, nodes)
  /\ n_Nodes = Cardinality(nodes)

(* What trie_search finds is the set of topics subscribed to and not        *)
(* unsubscribed from, whatever their common prefixes.                       *)
Abstract == INSTANCE TopicSet WITH topics <- {t \in Topics : trie_search(t)}

ImplementsSet ==
  Abstract!Init /\ [][\A t \in Topics :
     /\ add_subscription(t) /\ alive' => Abstract!Add(t)
     /\ rmv_subscription(t) => Abstract!Remove(t)]_vars
=============================================================================
