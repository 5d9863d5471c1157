------------------------------- MODULE RefMap -------------------------------
(***************************************************************************)
(* hashmap/hash_map_ref.c: the map that test_hashmap.c compares the hash   *)
(* map with.  Its array of entries is a map from keys to values; a value   *)
(* of 0 stands for a key without an entry, as in hashmapref_select.        *)
(***************************************************************************)
EXTENDS Integers, FiniteSets

CONSTANTS Keys,
          Values  \* what a key can be mapped to: not 0

VARIABLES map,  \* the value of each key
          ret   \* what the last call returned

vars == <<map, ret>>

Init ==
    /\ map = [k \in Keys |-> 0]
    /\ ret = 0

hashmapref_insert(k, v) ==
    /\ map' = [map EXCEPT ![k] = v]
    /\ ret' = 0

(* true is 1 and false is 0 *)
hashmapref_remove(k) ==
    /\ map' = [map EXCEPT ![k] = 0]
    /\ ret' = IF map[k] # 0 THEN 1 ELSE 0

hashmapref_select(k) ==
    /\ ret' = map[k]
    /\ UNCHANGED map

hashmapref_count ==
    /\ ret' = Cardinality({k \in Keys : map[k] # 0})
    /\ UNCHANGED map

Next ==
    \/ \E k \in Keys :
          \/ \E v \in Values : hashmapref_insert(k, v)
          \/ hashmapref_remove(k)
          \/ hashmapref_select(k)
    \/ hashmapref_count

Spec == Init /\ [][Next]_vars
=============================================================================
