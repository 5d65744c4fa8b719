------------------------------ MODULE MCHashMap ------------------------------
(***************************************************************************)
(* An instance of HashMap for TLC: as many keys as it takes to double three *)
(* times from hmax = 2; three of them collide until the last doubling.      *)
(***************************************************************************)
EXTENDS HashMap

MCHash == [k \in Keys |-> CASE k = "k1" -> 0 [] k = "k2" -> 8 [] k = "k3" -> 16
                            [] k = "k4" -> 3 [] k = "k5" -> 7 [] k = "k6" -> 1]
=============================================================================
