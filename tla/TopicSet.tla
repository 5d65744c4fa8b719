------------------------------- MODULE TopicSet -------------------------------
(***************************************************************************)
(* What the server wants of a subscriber's trie: a set of topics.           *)
(***************************************************************************)
CONSTANT Topics

VARIABLE topics

Init == topics = {}

Add(t) == topics' = topics \cup {t}

Remove(t) == topics' = topics \ {t}

Next == \E t \in Topics : Add(t) \/ Remove(t)

Spec == Init /\ [][Next]_topics
=============================================================================
