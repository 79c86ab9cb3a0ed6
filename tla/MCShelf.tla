------------------------------- MODULE MCShelf -------------------------------
(***************************************************************************)
(* Small instances of Shelf.  The slot of the first zone lies between the  *)
(* two where mem_alloc may place another zone, so that zones are linked in *)
(* and against address order, and MCStride stops growth after three zones  *)
(* (of 1, 3 and 6 elements) by leaving no slot for a fourth.               *)
(***************************************************************************)
EXTENDS Shelf

MCSlots == {10, 20, 30}
MCFirstSlot == 20
MCStride == 7
=============================================================================
