---------------------------- MODULE MCShelfCursor ----------------------------
(***************************************************************************)
(* Small instances of ShelfCursor.  The slot of the first zone lies        *)
(* between the two where mem_alloc may place another, so that they link in *)
(* and against address order, and MCStride stops growth after three zones  *)
(* (of 1, 3 and 6 elements) by leaving no slot for a fourth.               *)
(***************************************************************************)
EXTENDS ShelfCursor

MCSlots == {10, 20, 30}
MCFirstSlot == 20
MCStride == 7
=============================================================================
