----------------------------- MODULE Dictionary -----------------------------
(* What a Lua table promises: a value for every key, nil at first, and      *)
(* nothing but an assignment changes one.                                   *)
CONSTANTS Keys, Values, Nil

VARIABLE dict

Init == dict = [k \in Keys |-> Nil]

Assign(k, v) == dict' = [dict EXCEPT ![k] = v]

Next == \E k \in Keys, v \in Values \cup {Nil} : Assign(k, v)

Spec == Init /\ [][Next]_dict
==============================================================================
