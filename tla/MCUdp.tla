------------------------------- MODULE MCUdp -------------------------------
(***************************************************************************)
(* Small instances of Udp: three peers, of which two share a line.         *)
(***************************************************************************)
EXTENDS Udp, TLC

CONSTANTS peer1, peer2, peer3

MCAddress == {peer1, peer2, peer3}
MCHashOf == (peer1 :> 0) @@ (peer2 :> 0) @@ (peer3 :> 1)
AddressSymmetry == Permutations(Element) \cup Permutations(Place) \cup Permutations(Datagram)
=============================================================================
