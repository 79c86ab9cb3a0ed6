------------------------------ MODULE HashMap ------------------------------
(***************************************************************************)
(* What include/libcnt/hash.h promises: a map from keys to values, each    *)
(* value at an address that stays the same while its key is in the map.    *)
(***************************************************************************)
EXTENDS Naturals

CONSTANTS Key, Value, Address, NULL

VARIABLE map            \* key -> [at, value], or NULL if it is not in the map

Free == Address \ {map[k].at : k \in {j \in Key : map[j] # NULL}}

MapInit == map = [k \in Key |-> NULL]

Becomes(k, entries) ==
  map'[k] \in entries /\ map' = [map EXCEPT ![k] = map'[k]]

Add(k) == map[k] = NULL /\ Becomes(k, [at : Free, value : Value])

Update(k) == map[k] # NULL /\ Becomes(k, [at : {map[k].at}, value : Value])

Drop(k) == map[k] # NULL /\ Becomes(k, {NULL})

Forget == map' = [k \in Key |-> NULL]

MapNext == Forget \/ \E k \in Key : Add(k) \/ Update(k) \/ Drop(k)

MapSpec == MapInit /\ [][MapNext]_map
=============================================================================
