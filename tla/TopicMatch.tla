------------------------------ MODULE TopicMatch ------------------------------
(***************************************************************************)
(* is_subscribed of src/server.c: whether a subscriber's trie matches the    *)
(* topic of a datagram.  The recursion follows the wildcards of the trie at  *)
(* the start of a level and the letters of the topic within it.  A pointer   *)
(* into the topic is the number of letters before it.  Topics are over the   *)
(* alphabet: for another character the code reads index -1.                 *)
(***************************************************************************)
EXTENDS Trie

CONSTANT Published   \* the topics of the providers' datagrams

ASSUME PublishedAssumption ==
  \A t \in Published : t \in Seq(ToSet(t)) /\ Spelled(t)

(* The positions from pos on at which a level of t ends.                    *)
LevelEnds(t, pos) == {n \in pos..Len(t) : n = Len(t) \/ t[n + 1] = "/"}

FirstEnd(t, pos) == Min(LevelEnds(t, pos))

(* Mutant: a star takes one level only.                                     *)
StarStopsFirst(t, pos) == LevelEnds(t, pos) \cap {FirstEnd(t, pos)}

(* Where the loop of the wildcard * goes on with the rest of the topic.     *)
StarStops(t, pos) == LevelEnds(t, pos) \ {pos}

(* The body of is_subscribed, for a node and the topic from pos on.  It     *)
(* calls itself at positions behind pos: called[n][x] is what the call for   *)
(* the node x and the topic from n on returns.                              *)
Returns(called, topic, pos, node) ==
  IF pos = Len(topic)
    THEN node \in end_of_word
    ELSE LET slash  == topic[pos + 1] = "/"
             topics == IF slash THEN Append(node, "/") ELSE node
             i      == IF slash THEN pos + 1 ELSE pos
             n      == FirstEnd(topic, i)
         IN /\ topics \in nodes
            /\ \/ /\ Append(topics, "+") \in nodes
                  /\ called[n][Append(topics, "+")]
               \/ /\ Append(topics, "*") \in nodes
                  /\ \E stop \in StarStops(topic, i) : called[stop][Append(topics, "*")]
               \/ /\ \A m \in i..n : topics \o SubSeq(topic, i + 1, m) \in nodes
                  /\ called[n][topics \o SubSeq(topic, i + 1, n)]

is_subscribed(topic) ==
  LET called[pos \in 0..Len(topic)] ==
        [node \in nodes |-> Returns(called, topic, pos, node)]
  IN called[0][Root]

-----------------------------------------------------------------------------
(* The levels of a topic or a pattern: the positions of the "/" before each  *)
(* of them, as if one stood before the first and one behind the last.       *)
Slashes(t) == {0} \cup {n \in 1..(Len(t) + 1) : n = Len(t) + 1 \/ t[n] = "/"}

NextSlash(t, n) == Min({m \in Slashes(t) : m > n})

Level(t, n) == SubSeq(t, n + 1, NextSlash(t, n) - 1)

NoEmptyLevel(t) == \A n \in Slashes(t) \ {Len(t) + 1} : Level(t, n) # <<>>

(* Level n of the pattern p covers what is between the slashes c and d of t:  *)
(* at least one level for *, any one level for +, that very level otherwise. *)
CoversLevel(p, n, t, c, d) ==
  /\ c < d
  /\ Level(p, n) # <<"*">> => d = NextSlash(t, c)
  /\ Level(p, n) \notin {<<"*">>, <<"+">>} => Level(p, n) = Level(t, c)

(* Pattern p covers topic t: t can be cut into one piece for each level of p. *)
CoversByLevels(p, t) ==
  \E cut \in [Slashes(p) -> Slashes(t)] :
    /\ cut[0] = 0 /\ cut[Len(p) + 1] = Len(t) + 1
    /\ \A n \in Slashes(p) \ {Len(p) + 1} :
         CoversLevel(p, n, t, cut[n], cut[NextSlash(p, n)])

(* A datagram goes to a subscriber exactly if one of its patterns covers the *)
(* topic, whatever else the trie holds: patterns that share levels, that end *)
(* inside others, or have wildcards side by side (is_subscribed).           *)
MatchesByLevels ==
  alive => \A t \in Published : NoEmptyLevel(t) =>
             (is_subscribed(t) <=> \E p \in end_of_word : CoversByLevels(p, t))
=============================================================================
