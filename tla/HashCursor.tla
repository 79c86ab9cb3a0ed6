------------------------------ MODULE HashCursor ------------------------------
(***************************************************************************)
(* The cursor of lib/cnt/hash.c.  It hands out the elements of the shelf   *)
(* that the hash keeps them in, so Hash is composed here with what         *)
(* ShelfWalk promises of a walk: a put adds an element to the walk or,     *)
(* when it updates, none.                                                  *)
(*                                                                         *)
(* The promise holds for a client that keeps to what the shelf can bear    *)
(* (see ShelfCursor): it resets the cursor after a new or a clear before   *)
(* it removes anything, and while an element may have been fetched ahead,  *)
(* by islast or when the one returned last was removed, it removes only    *)
(* elements that have been returned.                                       *)
(***************************************************************************)
EXTENDS Hash

VARIABLES walking, due, seen, more, over,     \* those of ShelfWalk
          fetched        \* the cursor may hold an element not yet returned

cursorVars == <<walking, due, seen, more, over>>

Shelf == INSTANCE ShelfWalk

CursorInit == HashInit /\ Shelf!WalkInit /\ fetched = FALSE

\* cntHash_put, when the key is in the hash and when it is not.
PutAndWalk(s, w) ==
  /\ Put(s, w)
  /\ (UNCHANGED <<elements, cursorVars>>) \/ Shelf!Insert
  /\ UNCHANGED fetched

\* cntHash_remove or cntHash_remove_by_address of e
RemoveAndWalk(e) ==
  /\ walking /\ (fetched => e \in Range(seen))
  /\ RemoveKey(KeyAt(e)) \/ RemoveByAddress(e)
  /\ Shelf!Free
  /\ fetched' = (fetched \/ (seen # <<>> /\ e = Last(seen)))

ClearAndWalk == Clear /\ Shelf!Empty /\ fetched' = FALSE

\* cntHash_reset
Reset ==
  /\ Shelf!Start /\ fetched' = FALSE
  /\ UNCHANGED <<lines, next, place, value, content, lent>>

\* cntHash_each, which returns an element or ends.
Each ==
  /\ Shelf!Return \/ Shelf!Finish
  /\ fetched' = FALSE
  /\ UNCHANGED hashVars

\* cntHash_islast
IsLast ==
  /\ Shelf!Announce \/ Shelf!Finish
  /\ fetched' = more'
  /\ UNCHANGED hashVars

CursorNext ==
  \/ \E s \in Place, w \in Value : PutAndWalk(s, w)
  \/ \E e \in elements : RemoveAndWalk(e)
  \/ ClearAndWalk
  \/ \E s \in Place, k \in Key : Scribble(s, k) /\ UNCHANGED <<cursorVars, fetched>>
  \/ \E e \in elements, s \in Place :
       MoveKey(e, s) /\ UNCHANGED <<cursorVars, fetched>>
  \/ Reset \/ Each \/ IsLast

CursorSpec == CursorInit /\ [][CursorNext]_<<hashVars, cursorVars, fetched>>

-----------------------------------------------------------------------------
KeysOf(set) == {KeyAt(e) : e \in set}

\* A walk returns every key that was in the hash at the reset and has not been
\* removed since once, whatever is put, updated, moved or removed meanwhile:
\* what a walk of the shelf does for elements the hash does for keys.
Keys == INSTANCE ShelfWalk WITH Element <- Key, elements <- KeysOf(elements),
          due <- KeysOf(due), seen <- [i \in DOMAIN seen |-> KeyAt(seen[i])]
ImplementsKeyWalk == Keys!WalkSpec
=============================================================================
