-------------------------------- MODULE SList --------------------------------
(***************************************************************************)
(* lib/cnt/slist.c: a list kept sorted by a comparison function, with a    *)
(* way to build an element in place (cntSList_tmp_alloc) and to insert it  *)
(* where it belongs afterwards (cntSList_tmp_insert).                      *)
(*                                                                         *)
(* It uses cntList as ListSeq describes it.  Values that compare equal may *)
(* still differ, as memcmp sees in cntSList_remove_by_value.               *)
(***************************************************************************)
EXTENDS Integers, FiniteSets, FiniteSetsExt, ListSeq

CONSTANTS NULL,
          Rank         \* comp(x, y) has the sign of Rank[x] - Rank[y]

ASSUME SListAssumption == NULL \notin Element /\ Rank \in [Value -> Nat]

VARIABLES tmp,         \* the element being built at the end, or NULL
          filled       \* the client has written its value

slistVars == <<items, tmp, filled>>

Size == Len(items)

\* Mutant: the loop ends on an element that is lower.
FirstLower(s, w) ==
  Min({i \in 1 .. Len(s) : Rank[s[i].value] =< Rank[w]} \cup {Len(s) + 1})

\* The loop of lines 83-86 and of lines 131-135: the first element that does
\* not compare lower than w, or one past the last.
FirstNotLower(s, w) ==
  Min({i \in 1 .. Len(s) : Rank[s[i].value] >= Rank[w]} \cup {Len(s) + 1})

PositionOf(e) == CHOOSE i \in 1 .. Size : items[i].at = e

SListInit == items = <<>> /\ tmp = NULL /\ filled = FALSE

\* What cntSList_insert leaves, the new element being e.
Inserted(s, e, w) == InsertAt(s, FirstNotLower(s, w), [at |-> e, value |-> w])

SInsert(e, w) ==
  /\ e \notin Used
  /\ items' = Inserted(items, e, w)
  /\ UNCHANGED <<tmp, filled>>

\* cntSList_set: remove, then insert; the element may be the one just freed.
SetOrder(i, e, w) ==
  /\ e \notin Used \/ e = items[i].at
  /\ items' = Inserted(RemoveAt(items, i), e, w)
  /\ UNCHANGED <<tmp, filled>>

RemoveOrder(i) == Delete(i) /\ UNCHANGED <<tmp, filled>>

\* Mutant: the loop gives up on an element that compares equal.
FirstHigherOrEqual(w) == FirstNotLower(items, w)

\* Where the loop of lines 100-107 gives up: the first element that compares
\* higher than w.
FirstHigher(w) ==
  Min({i \in 1 .. Size : Rank[items[i].value] > Rank[w]} \cup {Size + 1})

\* The elements that the loop would meet and that have value w.
Met(w) == {i \in 1 .. FirstHigher(w) - 1 : items[i].value = w}

RemoveByValue(w) ==
  /\ IF Met(w) = {} THEN UNCHANGED items ELSE Delete(Min(Met(w)))
  /\ UNCHANGED <<tmp, filled>>

SClear == Empty /\ tmp' = NULL /\ filled' = FALSE

\* cntSList_tmp_alloc: whatever value w was in the memory.
TmpAlloc(e, w) ==
  /\ e \notin Used
  /\ items' = Append(items, [at |-> e, value |-> w])
  /\ tmp' = e /\ filled' = FALSE

\* The client writes the value of its element.
FillTmp(w) ==
  /\ items' = [items EXCEPT ![PositionOf(tmp)].value = w]
  /\ filled' = TRUE
  /\ UNCHANGED tmp

TmpFree == Delete(PositionOf(tmp)) /\ tmp' = NULL /\ filled' = FALSE

\* Where cntSList_tmp_insert would have the element: before this one, which is
\* itself at the latest.
TmpDest == FirstNotLower(items, items[PositionOf(tmp)].value)

\* cntList_relink_by_address, unless source and destination are the same.
TmpInsert ==
  /\ \/ TmpDest = PositionOf(tmp) /\ UNCHANGED items
     \/ Precede(PositionOf(tmp), TmpDest)
  /\ tmp' = NULL /\ filled' = FALSE

-----------------------------------------------------------------------------
Plain ==
  \/ \E e \in Element, w \in Value : SInsert(e, w) \/ TmpAlloc(e, w)
  \/ \E i \in 1 .. Size, e \in Element, w \in Value : SetOrder(i, e, w)
  \/ \E w \in Value : RemoveByValue(w)

\* While an element is being built, the client leaves the others where they
\* are or removes them, and it inserts it only if it is not the lowest, which
\* cntList_relink_by_address does not bear (list.c:337).
Building ==
  \/ \E w \in Value : FillTmp(w)
  \/ TmpFree
  \/ filled /\ (TmpDest # 1 \/ Size = 1) /\ TmpInsert

SListNext ==
  \/ tmp = NULL /\ Plain
  \/ tmp # NULL /\ Building
  \/ \E i \in 1 .. Size : items[i].at # tmp /\ RemoveOrder(i)
  \/ SClear

SListSpec == SListInit /\ [][SListNext]_slistVars

-----------------------------------------------------------------------------
\* The elements other than the one being built are sorted, and it is the last
\* one: cntSList_tmp_insert need not look at elements after it.
Sorted ==
  /\ \A i, m \in 1 .. Size :
       i < m /\ items[m].at # tmp => Rank[items[i].value] =< Rank[items[m].value]
  /\ tmp # NULL => items[Size].at = tmp

\* cntSList_remove_by_value, which gives up at the first higher value (line
\* 102), meets every element that has the value it looks for.
RemovalMeetsAll ==
  tmp = NULL =>
    \A w \in Value : Met(w) = {i \in 1 .. Size : items[i].value = w}
=============================================================================
