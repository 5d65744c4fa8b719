------------------------------- MODULE MCDelivery -------------------------------
(***************************************************************************)
(* A small instance of Delivery for TLC: bytes of eight values, topics of   *)
(* two characters and a payload of six bytes.                               *)
(***************************************************************************)
EXTENDS Delivery

Reading(t, topic, v) ==
  [type |-> t, addr |-> <<1, 2, 3, 4>>, port |-> 8, topic |-> topic, value |-> v]

(* The ends of the ranges of the numbers, INT also beyond those of an int;  *)
(* an empty and a full payload; a short and a full topic.                   *)
MCReadings ==
  {Reading(INT_SRV_MSG, <<3>>, <<n, 0>>) : n \in {0, 2047, -2048, 2048, -2050}}
  \cup {Reading(SHORT_REAL_SRV_MSG, <<5, 5>>, <<63, 2>>)}
  \cup {Reading(FLOAT_SRV_MSG, <<3>>, v) : v \in {<<-4095, 0>>, <<12, 7>>}}
  \cup {Reading(STRING_SRV_MSG, <<5, 5>>, v) : v \in {<<>>, <<4>>, <<7, 7, 7, 7, 7, 7>>}}
=============================================================================
