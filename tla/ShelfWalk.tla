------------------------------ MODULE ShelfWalk ------------------------------
(***************************************************************************)
(* What include/libcnt/shelf.h promises of a walk: after cntShelf_reset,   *)
(* cntShelf_each returns every element that was in the shelf at the reset  *)
(* and has not been freed since, each once, and then NULL.  "New elements  *)
(* added while reading the cursor may or may not be sean by the cursor.    *)
(* Removing elements does not affect the cursor."  cntShelf_islast tells   *)
(* whether anything is left.                                               *)
(***************************************************************************)
EXTENDS Naturals, Sequences, SequencesExt

CONSTANT Element

VARIABLES elements,   \* the elements in the shelf
          walking,    \* reset was called since the shelf was new or cleared
          due,        \* those the walk still owes to the client
          seen,       \* those it returned and that are still there, in order
          more,       \* the next call of each is bound to return an element
          over        \* the next call of each is bound to return NULL

walkVars == <<elements, walking, due, seen, more, over>>

Unseen == elements \ Range(seen)

WalkInit ==
  /\ elements = {} /\ walking = FALSE /\ due = {} /\ seen = <<>>
  /\ more = FALSE /\ over = FALSE

Insert == \E e \in Element \ elements :
            /\ elements' = elements \cup {e}
            /\ UNCHANGED <<walking, due, seen, more, over>>

\* Removing an element takes it out of the walk and nothing else.
Free == \E e \in elements :
            /\ elements' = elements \ {e}
            /\ due' = due \ {e}
            /\ seen' = RemoveFirst(seen, e)
            /\ over' \in BOOLEAN /\ (over => over') /\ (over' => due' = {})
            /\ more' \in BOOLEAN /\ (more => more') /\ (more' => Unseen' # {})
            /\ ~(more' /\ over')
            /\ UNCHANGED walking

Start == /\ walking' = TRUE /\ due' = elements /\ seen' = <<>>
         /\ more' = FALSE /\ over' = FALSE
         /\ UNCHANGED elements

Return == \E e \in Unseen :
            /\ walking /\ ~over
            /\ seen' = Append(seen, e)
            /\ due' = due \ {e}
            /\ more' = FALSE
            /\ UNCHANGED <<elements, walking, over>>

Announce == /\ walking /\ ~over /\ Unseen # {}
            /\ more' = TRUE
            /\ UNCHANGED <<elements, walking, due, seen, over>>

Finish == /\ walking /\ ~more /\ due = {}
          /\ over' = TRUE
          /\ UNCHANGED <<elements, walking, due, seen, more>>

Empty == /\ elements' = {} /\ walking' = FALSE /\ due' = {} /\ seen' = <<>>
         /\ more' = FALSE /\ over' = FALSE

WalkNext == Insert \/ Free \/ Start \/ Return \/ Announce \/ Finish \/ Empty

WalkSpec == WalkInit /\ [][WalkNext]_walkVars
=============================================================================
