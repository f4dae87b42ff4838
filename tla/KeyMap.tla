------------------------------- MODULE KeyMap -------------------------------
(***************************************************************************)
(* What the hash table promises: a map.                                    *)
(***************************************************************************)
CONSTANTS Keys, Values, Nothing

VARIABLE map

Init == map = [k \in Keys |-> Nothing]

Put(k, v) == map' = [map EXCEPT ![k] = v]
Take(k)   == Put(k, Nothing)

Next == \E k \in Keys : Take(k) \/ \E v \in Values : Put(k, v)

Spec == Init /\ [][Next]_map
=============================================================================
