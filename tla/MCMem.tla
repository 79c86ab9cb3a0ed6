------------------------------- MODULE MCMem -------------------------------
(***************************************************************************)
(* Small instances of MemUse.  The addresses are symmetric, but the runs   *)
(* do without: mem checks liveness too, and the others are short.          *)
(***************************************************************************)
EXTENDS MemUse, TLC
=============================================================================
