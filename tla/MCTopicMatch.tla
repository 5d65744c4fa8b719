----------------------------- MODULE MCTopicMatch -----------------------------
(***************************************************************************)
(* An instance of TopicMatch for TLC.  Two letters and "/", the wildcards,    *)
(* and "?" for a character outside the alphabet.                  *)
(***************************************************************************)
EXTENDS TopicMatch

MCLetters == {"a", "b", "/", "+", "*"}

(* Patterns with wildcards, alone and within a level, topics that are the    *)
(* prefix of others, and two that leave the alphabet.                       *)
MCTopics == {
  <<"a">>, <<"+">>, <<"*">>, <<"a", "/", "+">>, <<"a", "/", "*">>,
  <<"*", "/", "b">>, <<"+", "/", "a", "b">>, <<"*", "/", "a", "b", "/", "*">>,
  <<"a", "/", "*", "/", "b">>, <<"*", "/", "+">>, <<"+", "/", "*">>,
  <<"a", "b", "/", "b">>, <<"+", "a">>, <<"a", "*", "/", "b">>,
  <<"a", "b">>, <<"a", "b", "a">>, <<"b">>, <<"a", "/", "b">>,
  <<"a", "?">>, <<"a", "b", "?", "b">>}

(* Every topic of one to three levels with these names.                     *)
MCNames == {<<"a">>, <<"b">>, <<"a", "b">>}

MCPublished ==
  LET two == {l \o <<"/">> \o m : l, m \in MCNames}
  IN MCNames \cup two \cup {l \o <<"/">> \o m : l \in two, m \in MCNames}
=============================================================================
