------------------------------- MODULE MCList -------------------------------
(***************************************************************************)
(* Small instances of List: the addresses are model values, of which the   *)
(* code compares nothing but equality.                                     *)
(***************************************************************************)
EXTENDS List, TLC

AddressSymmetry == Permutations(Element)
=============================================================================
