------------------------------ MODULE Dictionary ------------------------------
(***************************************************************************)
(* What hashmap.h promises: a value for each key, NoValue if there is none. *)
(***************************************************************************)
CONSTANTS Keys, Values, NoValue

VARIABLE dict

Init == dict = [k \in Keys |-> NoValue]

Put(k, v) == dict' = [dict EXCEPT ![k] = v]

Remove(k) == dict' = [dict EXCEPT ![k] = NoValue]

Next == \E k \in Keys : Remove(k) \/ \E v \in Values : Put(k, v)

Spec == Init /\ [][Next]_dict
=============================================================================
