----------------------------- MODULE KeyValueMap -----------------------------
(***************************************************************************)
(* What cad_hash.h promises: a map from keys to values, whose set and del  *)
(* return the previous value of the key, or NULL.                          *)
(***************************************************************************)
CONSTANTS Keys, Values, NULL

VARIABLES
    map,    \* the value of each key, NULL if it has none
    result  \* what the last set or del returned

vars == <<map, result>>

Init ==
    /\ map = [key \in Keys |-> NULL]
    /\ result = NULL

Set(key, value) ==
    /\ map' = [map EXCEPT ![key] = value]
    /\ result' = map[key]

Del(key) ==
    /\ map' = [map EXCEPT ![key] = NULL]
    /\ result' = map[key]

Clean ==
    /\ map' = [key \in Keys |-> NULL]
    /\ UNCHANGED result

Next ==
    \/ \E key \in Keys, value \in Values : Set(key, value)
    \/ \E key \in Keys : Del(key)
    \/ Clean

Spec == Init /\ [][Next]_vars
==============================================================================
