------------------------------ MODULE ShelfSet ------------------------------
(***************************************************************************)
(* What include/libcnt/shelf.h promises of allocation, and nothing of how  *)
(* it is done: a shelf is a set of elements.  An allocation hands out an   *)
(* element that nobody holds, a free takes back one that was handed out    *)
(* and says whether it did, a clear takes them all back.                   *)
(***************************************************************************)
EXTENDS Naturals, FiniteSets

CONSTANT Element        \* what the shelf may hand out

VARIABLES elements,     \* the elements handed out and not taken back
          size          \* what cntShelf_size returns

setVars == <<elements, size>>

SetInit == elements = {} /\ size = 0

SetAlloc == \E e \in Element \ elements :
              /\ elements' = elements \cup {e}
              /\ size' = size + 1

SetFree == \E e \in elements :
             /\ elements' = elements \ {e}
             /\ size' = size - 1

SetClear == elements' = {} /\ size' = 0

SetNext == SetAlloc \/ SetFree \/ SetClear

SetSpec == SetInit /\ [][SetNext]_setVars
=============================================================================
