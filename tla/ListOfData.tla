------------------------------ MODULE ListOfData ------------------------------
(***************************************************************************)
(* What list.h promises: a sequence; a position behind the end means the    *)
(* end, when adding and when removing.                                      *)
(***************************************************************************)
EXTENDS Naturals, Sequences, SequencesExt

CONSTANT Data

VARIABLE list

Init == list = <<>>

Add(n, d) == list' = InsertAt(list, IF n < Len(list) THEN n + 1 ELSE Len(list) + 1, d)

Delete(n) == /\ list # <<>>
             /\ list' = RemoveAt(list, IF n < Len(list) THEN n + 1 ELSE Len(list))

Clear == list' = <<>>

Next == Clear \/ \E n \in 0..Len(list) : Delete(n) \/ \E d \in Data : Add(n, d)

Spec == Init /\ [][Next]_list
=============================================================================
