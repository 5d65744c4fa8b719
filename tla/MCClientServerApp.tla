--------------------------- MODULE MCClientServerApp ---------------------------
(***************************************************************************)
(* Small instances of ClientServerApp for TLC: an id A whose subscriber is  *)
(* started up to two times (a duplicate or a restart), an id B; the         *)
(* wildcard star, which covers both topics, x, which covers one, and odd,   *)
(* which has a character outside TOPIC_ALPHABET.                            *)
(***************************************************************************)
EXTENDS ClientServerApp, TLC

CONSTANTS A, B, a1, a2, b1, star, x, odd

Twice   == {a1, a2}
Three   == {a1, a2, b1}
TwoIds  == {a1, b1}

OwnerOf == [p \in {a1, a2, b1} |-> IF p = b1 THEN B ELSE A]

TwiceIdOf  == [p \in Twice |-> OwnerOf[p]]
ThreeIdOf  == [p \in Three |-> OwnerOf[p]]
TwoIdsIdOf == [p \in TwoIds |-> OwnerOf[p]]

MCNoFd == -1

(* The two processes of id A may be exchanged, also by TLC.                 *)
SameId == Permutations({a1, a2})

NoCommand == [p \in Procs |-> 0]
Once      == [p \in Procs |-> 1]
OnlyFirst == [p \in Procs |-> IF p = a1 THEN 2 ELSE 0]

(* The providers have the topics x, and y, which only star covers.          *)
MCCovers == {<<star, "x">>, <<star, "y">>, <<x, "x">>}

(* What is on the stack where no message was read.                          *)
SpelledByChance == {CloseMsg} \cup [type : {"subscribe"}, topic : {star, odd}]
=============================================================================
