------------------------------- MODULE MCHash -------------------------------
(***************************************************************************)
(* Small instances of Hash and its cursor: four keys, of which three share *)
(* a line, and room for three.                                             *)
(***************************************************************************)
EXTENDS HashCursor, TLC

CONSTANTS key1, key2, key3, key4

MCKey == {key1, key2, key3, key4}
MCHashOf == (key1 :> 0) @@ (key2 :> 0) @@ (key3 :> 0) @@ (key4 :> 1)
AddressSymmetry == Permutations(Element) \cup Permutations(Place)
=============================================================================
