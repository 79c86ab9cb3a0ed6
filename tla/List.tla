-------------------------------- MODULE List --------------------------------
(***************************************************************************)
(* lib/cnt/list.c: the doubly linked list, with its cached position.       *)
(*                                                                         *)
(* The elements of a list live in a shelf, of which List uses no more than *)
(* ShelfSet says: an allocation gives some element that is not in use.     *)
(* cntList_size is the size of the shelf.  Orders count from 0, as in C.   *)
(*                                                                         *)
(* The variable order is not in the code: it is the list that list.h       *)
(* promises, kept beside the links so that the two can be compared.        *)
(***************************************************************************)
EXTENDS Integers, Sequences, FiniteSets, SequencesExt, FiniteSetsExt

CONSTANTS Element,      \* the addresses the shelf may hand out
          NULL,
          Value,        \* what may be stored
          CacheBeyond   \* line 156: 5 in the code

ASSUME ListAssumption == NULL \notin Element /\ CacheBeyond \in Nat

VARIABLES
  elements,    \* the elements of the shelf that are in use
  first, last,
  next,        \* the links of an element
  previous,
  value,       \* its value
  cached,      \* last_accessed_element and last_accessed_order: [at, order]
  order,       \* the elements from first to last, as list.h has them
  status       \* "ok", or "fault": NULL was dereferenced

listVars == <<elements, first, last, next, previous, value, cached, order, status>>
allButCache == <<elements, first, last, next, previous, value, order, status>>

NoCache == [at |-> NULL, order |-> 0]

Size == Cardinality(elements)

\* Where element e stands in the list, from 1.
RankOf(e) == CHOOSE i \in 1 .. Len(order) : order[i] = e

\* if (p) p->f = q;
LinkTo(f, p, q) == IF p = NULL THEN f ELSE [f EXCEPT ![p] = q]

\* Mutant: the walk does one link less.
FollowShort(link, p, n) ==
  LET walk[i \in 0 .. n] == IF i < 2 THEN p ELSE link[walk[i - 1]]
  IN  walk[n]

\* The element n links away from p; NULL where the links end before.
Follow(link, p, n) ==
  LET walk[i \in 0 .. n] == IF i = 0 THEN p
                            ELSE IF walk[i - 1] \in elements
                                 THEN link[walk[i - 1]] ELSE NULL
  IN  walk[n]

-----------------------------------------------------------------------------
(***************************************************************************)
(* order_to_index: where element number o is, and the cache it leaves when *)
(* it finds cache c.                                                       *)
(***************************************************************************)
Distance(o, p) == IF o < p THEN p - o ELSE o - p

Lookup(c, o) ==
  LET dend == Size - 1 - o
      dexterm == IF o < dend THEN o ELSE dend
      dlast == Distance(o, c.order)
      near == c.at # NULL /\ dlast =< dexterm
      ptr == IF near
             THEN Follow(IF o > c.order THEN next ELSE previous, c.at, dlast)
             ELSE IF o < dend THEN Follow(next, first, dexterm)
                              ELSE Follow(previous, last, dexterm)
  IN  [ptr |-> ptr,
       cache |-> IF near \/ dexterm > CacheBeyond
                 THEN [at |-> ptr, order |-> o] ELSE c]

\* The cache after cntList_get of each of the first n elements in turn.
ScanCache(n) ==
  LET after[i \in 0 .. n] == IF i = 0 THEN cached
                             ELSE Lookup(after[i - 1], i - 1).cache
  IN  after[n]

\* Mutant: the loop starts at order 1.
MatchesFromOne(w) ==
  {o \in 1 .. Size - 1 : value[Lookup(ScanCache(o), o).ptr] = w}

\* The orders whose element compares equal to w, in the loop of lines 280-286.
Matches(w) == {o \in 0 .. Size - 1 : value[Lookup(ScanCache(o), o).ptr] = w}

-----------------------------------------------------------------------------
(***************************************************************************)
(* The operations that know an element by its address.  The links and the  *)
(* value of an element that is not in use are erased: what the shelf and   *)
(* its client leave there is not to be read.                               *)
(***************************************************************************)
ListInit ==
  /\ elements = {}
  /\ first = NULL /\ last = NULL
  /\ next = [e \in Element |-> NULL]
  /\ previous = [e \in Element |-> NULL]
  /\ value = [e \in Element |-> NULL]
  /\ cached = NoCache
  /\ order = <<>>
  /\ status = "ok"

\* cntShelf_alloc gives n; the caller, or what was in the memory, gives w.
NewElement(n, w) ==
  /\ n \notin elements
  /\ elements' = elements \cup {n}
  /\ value' = [value EXCEPT ![n] = w]

FreeElement(e) ==
  /\ elements' = elements \ {e}
  /\ value' = [value EXCEPT ![e] = NULL]

Push(n, w) ==
  /\ NewElement(n, w)
  /\ next' = LinkTo(next, last, n)
  /\ previous' = [previous EXCEPT ![n] = last]
  /\ first' = IF last = NULL THEN n ELSE first
  /\ last' = n
  /\ order' = Append(order, n)
  /\ UNCHANGED <<cached, status>>

\* Mutant: the cache stays on the element that is popped.
CacheAfterPopNot(e) == cached

CacheAfterPop(e) == IF cached.at = e THEN NoCache ELSE cached

Pop ==
  /\ last # NULL
  /\ FreeElement(last)
  /\ next' = LinkTo(next, previous[last], NULL)
  /\ previous' = [previous EXCEPT ![last] = NULL]
  /\ first' = IF previous[last] = NULL THEN NULL ELSE first
  /\ last' = previous[last]
  /\ cached' = CacheAfterPop(last)
  /\ order' = Front(order)
  /\ UNCHANGED status

\* Mutant: the element before e is not told.
LinkBeforeHalf(n, e) ==
  /\ next' = [next EXCEPT ![n] = e]
  /\ previous' = [previous EXCEPT ![n] = previous[e], ![e] = n]
  /\ first' = IF previous[e] = NULL THEN n ELSE first
  /\ UNCHANGED last

LinkBefore(n, e) ==
  /\ next' = LinkTo([next EXCEPT ![n] = e], previous[e], n)
  /\ previous' = [previous EXCEPT ![n] = previous[e], ![e] = n]
  /\ first' = IF previous[e] = NULL THEN n ELSE first
  /\ UNCHANGED last

AddBefore(n, e, w) ==
  /\ NewElement(n, w)
  /\ LinkBefore(n, e)
  /\ order' = InsertAt(order, RankOf(e), n)
  /\ UNCHANGED status

AllocBefore(n, e, w) == AddBefore(n, e, w) /\ cached' = NoCache

AllocAfter(n, e, w) ==
  IF next[e] # NULL THEN AllocBefore(n, next[e], w) ELSE Push(n, w)

\* Mutant: removing the last element leaves last where it was.
UnlinkNotLast(e) ==
  /\ next' = LinkTo([next EXCEPT ![e] = NULL], previous[e], next[e])
  /\ previous' = LinkTo([previous EXCEPT ![e] = NULL], next[e], previous[e])
  /\ first' = IF previous[e] = NULL THEN next[e] ELSE first
  /\ UNCHANGED last

Unlink(e) ==
  /\ next' = LinkTo([next EXCEPT ![e] = NULL], previous[e], next[e])
  /\ previous' = LinkTo([previous EXCEPT ![e] = NULL], next[e], previous[e])
  /\ first' = IF previous[e] = NULL THEN next[e] ELSE first
  /\ last' = IF next[e] = NULL THEN previous[e] ELSE last

\* remove_by_element
RemoveElement(e) ==
  /\ FreeElement(e)
  /\ Unlink(e)
  /\ order' = RemoveAt(order, RankOf(e))
  /\ UNCHANGED status

RemoveByAddress(e) == RemoveElement(e) /\ cached' = NoCache

\* cntList_clear; cntList_del and cntList_new leave the same.
Clear ==
  /\ elements' = {}
  /\ first' = NULL /\ last' = NULL
  /\ next' = [e \in Element |-> NULL]
  /\ previous' = [e \in Element |-> NULL]
  /\ value' = [e \in Element |-> NULL]
  /\ cached' = NoCache
  /\ order' = <<>>
  /\ UNCHANGED status

(***************************************************************************)
(* cntList_relink_by_address: s is unlinked, then linked before d.  Line   *)
(* 337 writes through the previous element of d, which the first element   *)
(* has not.                                                                *)
(***************************************************************************)
Relink(d, s) ==
  LET n == LinkTo(next, previous[s], next[s])
      p == LinkTo(previous, next[s], previous[s])
  IN  /\ d # s
      /\ previous' = [p EXCEPT ![s] = p[d], ![d] = s]
      /\ last' = IF next[s] = NULL THEN previous[s] ELSE last
      /\ first' = IF previous[s] = NULL THEN next[s] ELSE first
      /\ UNCHANGED <<elements, value>>
      /\ \/ /\ p[d] = NULL
            /\ next' = [n EXCEPT ![s] = d]
            /\ status' = "fault"
            /\ UNCHANGED <<cached, order>>
         \/ /\ p[d] # NULL
            /\ next' = [n EXCEPT ![s] = d, ![p[d]] = s]
            /\ cached' = NoCache
            /\ order' = LET i == RankOf(s)  j == RankOf(d)
                        IN  InsertAt(RemoveAt(order, i), IF i < j THEN j - 1 ELSE j, s)
            /\ UNCHANGED status

-----------------------------------------------------------------------------
(***************************************************************************)
(* The operations that know an element by its order.                       *)
(***************************************************************************)
Get(o) ==
  /\ cached' = Lookup(cached, o).cache
  /\ UNCHANGED allButCache

\* cntList_set of an element there is; the one after the last is a push.
Set(o, w) ==
  /\ value' = [value EXCEPT ![Lookup(cached, o).ptr] = w]
  /\ cached' = Lookup(cached, o).cache
  /\ UNCHANGED <<elements, first, last, next, previous, order, status>>

Insert(n, o, w) ==
  IF o = Size
  THEN Push(n, w)
  ELSE /\ AddBefore(n, Lookup(cached, o).ptr, w)
       /\ cached' = [at |-> n, order |-> o]

\* The element after e takes the order of e.
CacheOfNext(e, o) ==
  IF next[e] = NULL THEN NoCache ELSE [at |-> next[e], order |-> o]

RemoveNth(c, o) ==
  LET e == Lookup(c, o).ptr
  IN  RemoveElement(e) /\ cached' = CacheOfNext(e, o)

RemoveOrder(o) == RemoveNth(cached, o)

RemoveByValue(w) ==
  \/ /\ Matches(w) = {}
     /\ cached' = ScanCache(Size)
     /\ UNCHANGED allButCache
  \/ /\ Matches(w) # {}
     /\ RemoveNth(ScanCache(Min(Matches(w)) + 1), Min(Matches(w)))

-----------------------------------------------------------------------------
ByAddress ==
  \E n, e \in Element, w \in Value :
    Push(n, w) \/ (e \in elements /\ (AllocBefore(n, e, w) \/ AllocAfter(n, e, w)))

ByOrder ==
  \E o \in 0 .. Size :
    \/ \E n \in Element, w \in Value : Insert(n, o, w)
    \/ o < Size /\ (Get(o) \/ RemoveOrder(o) \/ \E w \in Value : Set(o, w))

Removal ==
  \/ Pop
  \/ \E e \in elements : RemoveByAddress(e)
  \/ \E w \in Value : RemoveByValue(w)
  \/ Clear

\* The client relinks no element to the head of the list, nor where it is.
Inside(d, s) == previous[d] # NULL /\ ~(previous[d] = s /\ previous[s] = NULL)

ListNext ==
  /\ status = "ok"
  /\ \/ ByAddress
     \/ ByOrder
     \/ Removal
     \/ \E d, s \in elements : Inside(d, s) /\ Relink(d, s)

ListSpec == ListInit /\ [][ListNext]_listVars

-----------------------------------------------------------------------------
Link == Element \cup {NULL}

Neighbour(i) == IF i \in 1 .. Len(order) THEN order[i] ELSE NULL

\* Every element in use is in the list once, and the links, followed either
\* way, spell the list that the operations of list.h should have made.
LinksExact ==
  /\ Range(order) = elements /\ Len(order) = Size
  /\ first = Neighbour(1) /\ last = Neighbour(Len(order))
  /\ \A i \in 1 .. Len(order) : /\ next[order[i]] = Neighbour(i + 1)
                                /\ previous[order[i]] = Neighbour(i - 1)

\* The cached element is in the list and at the cached order, after whatever
\* was done to the list since it was cached ("as we change the order of
\* elements after this one", lines 222, 247 and 339).
CacheExact ==
  cached.at # NULL => /\ cached.order \in 0 .. Size - 1
                      /\ order[cached.order + 1] = cached.at

\* order_to_index finds element o whichever of its three ways it takes.
LookupExact == \A o \in 0 .. Size - 1 : Lookup(cached, o).ptr = order[o + 1]

\* "The first element of the list matching the given value will be removed"
\* (list.h:116), though each comparison moves the cache.
RemovesFirstMatch ==
  [][\A w \in Value :
       RemoveByValue(w) =>
         LET M == {i \in 1 .. Len(order) : value[order[i]] = w}
         IN  order' = IF M = {} THEN order ELSE RemoveAt(order, Min(M))]_listVars

\* The links, followed from first, are a sequence that the operations change
\* as list.h says, and no element changes its address or its value.
Nth(i) == LET e == Follow(next, first, i - 1)
          IN  [at |-> e, value |-> IF e \in elements THEN value[e] ELSE NULL]
Promise == INSTANCE ListSeq WITH items <- [i \in 1 .. Size |-> Nth(i)]
ImplementsSeq == Promise!SeqSpec
=============================================================================
