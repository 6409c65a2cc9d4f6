------------------------------ MODULE KeyedMap ------------------------------
(***************************************************************************)
(* What the pending-request map promises to the endpoint consumers that    *)
(* use it: one map in which set() refuses a key that is present, and in    *)
(* which an entry leaves only by the pop() that returns it.                *)
(***************************************************************************)
CONSTANTS Keys, Values, None

VARIABLES
    map,    \* the entry of every key, or None
    answer  \* what the last operation returned

vars == <<map, answer>>

Answer(value, found) == [value |-> value, found |-> found]

Init ==
    /\ map = [k \in Keys |-> None]
    /\ answer = Answer(None, FALSE)

\* A duplicate key is an error, here the answer that the key was found.
Set(k, v) ==
    /\ map' = IF map[k] = None THEN [map EXCEPT ![k] = v] ELSE map
    /\ answer' = Answer(None, map[k] # None)

GetOrCreate(k, v) ==
    /\ map' = IF map[k] = None THEN [map EXCEPT ![k] = v] ELSE map
    /\ answer' = Answer(map'[k], map[k] # None)

Get(k) ==
    /\ answer' = Answer(map[k], map[k] # None)
    /\ UNCHANGED map

Pop(k) ==
    /\ map' = [map EXCEPT ![k] = None]
    /\ answer' = Answer(map[k], map[k] # None)

Next ==
    \E k \in Keys :
        \/ \E v \in Values : Set(k, v) \/ GetOrCreate(k, v)
        \/ Get(k)
        \/ Pop(k)

Spec == Init /\ [][Next]_vars
=============================================================================
