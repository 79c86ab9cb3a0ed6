----------------------------- MODULE ShelfCursor -----------------------------
(***************************************************************************)
(* Shelf under a client that keeps to what the cursor can bear: it frees   *)
(* any element it holds, the last one returned included, except the one    *)
(* the cursor has already fetched; and after a clear it resets the cursor  *)
(* before it frees anything.  Two history variables record what the walk   *)
(* owes and what it has returned.                                          *)
(***************************************************************************)
EXTENDS Shelf

CONSTANT MaxHeld     \* bound: the client holds no more elements than this

VARIABLES due,       \* elements held at the reset, not yet returned or freed
          seen       \* elements returned since the reset and not freed

cursorVars == <<shelfVars, due, seen>>

CursorInit == ShelfInit /\ due = {} /\ seen = <<>>

CursorAlloc ==
  Cardinality(held) < MaxHeld /\ Alloc /\ UNCHANGED <<due, seen>>

FreeWalked(v) == Free(v) /\ due' = due \ {v} /\ seen' = RemoveFirst(seen, v)

FreeUnfetched(v) == v # cur.next /\ FreeWalked(v)

CarefulFree(v) == (armed \/ cur = NoCursor) /\ FreeUnfetched(v)

CursorRestart == (Clear \/ Renew) /\ due' = {} /\ seen' = <<>>

CursorReset == Reset /\ due' = held /\ seen' = <<>>

CursorEach ==
  LET e == EachResult(cur).ret
  IN  /\ Each
      /\ due' = due \ {e}
      /\ seen' = IF e = NULL THEN seen ELSE Append(seen, e)

CursorIsLast == IsLast /\ UNCHANGED <<due, seen>>

CursorNext ==
  \/ CursorAlloc
  \/ \E v \in held : CarefulFree(v)
  \/ CursorRestart
  \/ CursorReset
  \/ CursorEach
  \/ CursorIsLast

CursorSpec == CursorInit /\ [][CursorNext]_cursorVars

\* The client that frees what it likes, the element the cursor has fetched too.
PlainNext ==
  CursorNext \/ \E v \in held : (armed \/ cur = NoCursor) /\ FreeWalked(v)
PlainSpec == CursorInit /\ [][PlainNext]_cursorVars

-----------------------------------------------------------------------------
\* No assert of shelf.c fails and no freed memory is read (lines 164, 182, 241).
NoFault == status = "ok"

\* An element fetched ahead of its turn is also the last one returned, so the
\* branch of line 169, which would drop a fetched element, is never taken.
PrefetchIsLast == cur.next # NULL => cur.next = cur.last

\* each_next_free is the first free element above the cursor in its zone, or
\* NULL: what the comparisons of lines 145, 188-193 and 198-202 keep up.
NextFreeExact ==
  armed /\ cur.mz # NULL =>
    LET above == {e \in Range(zone[cur.mz].free) : e > cur.last}
    IN  cur.next_free = IF above = {} THEN NULL ELSE Min(above)

\* "Removing elements does not affect the cursor" (shelf.h:92): cntShelf_each
\* returns an element that is in the shelf.
ReturnsElement ==
  [][CursorEach => EachResult(cur).ret \in held \cup {NULL}]_cursorVars

\* A walk returns every element once, in spite of what is freed meanwhile.
Walking == INSTANCE ShelfWalk WITH Element <- Address, elements <- held,
             walking <- armed, more <- armed /\ cur.next # NULL,
             over <- armed /\ cur.mz = NULL /\ cur.next = NULL
ImplementsWalk == Walking!WalkSpec
=============================================================================
