------------------------------ MODULE ListSeq ------------------------------
(***************************************************************************)
(* What include/libcnt/list.h promises: a list is a sequence of values,    *)
(* each at an address that stays the same for as long as it is in the list.*)
(***************************************************************************)
EXTENDS Naturals, Sequences, SequencesExt

CONSTANTS Element, Value

VARIABLE items          \* the list: [at : Element, value : Value], in order

Used == {items[i].at : i \in 1 .. Len(items)}

SeqInit == items = <<>>

Put(i) == \E e \in Element \ Used, w \in Value :
            items' = InsertAt(items, i, [at |-> e, value |-> w])

Write(i) == \E w \in Value : items' = [items EXCEPT ![i].value = w]

Delete(i) == items' = RemoveAt(items, i)

\* Item i moves to where it just precedes item j.
Precede(i, j) ==
  /\ i # j
  /\ items' = InsertAt(RemoveAt(items, i), IF i < j THEN j - 1 ELSE j, items[i])

Empty == items' = <<>>

SeqNext ==
  \/ \E i \in 1 .. Len(items) + 1 : Put(i)
  \/ \E i \in 1 .. Len(items) : Write(i) \/ Delete(i)
  \/ \E i, j \in 1 .. Len(items) : Precede(i, j)
  \/ Empty

SeqSpec == SeqInit /\ [][SeqNext]_items
=============================================================================
