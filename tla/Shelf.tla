-------------------------------- MODULE Shelf --------------------------------
(***************************************************************************)
(* lib/cnt/shelf.c: the pool of equal-sized elements under every container.*)
(*                                                                         *)
(* Elements live in memory zones.  The first zone is inside the shelf      *)
(* object, the others come from mem_alloc, each half as large again as the *)
(* one before it.  Every zone threads its free elements into a list sorted *)
(* by address; the shelf has one cursor (the each_* fields) that walks the *)
(* elements in use by skipping that list.                                  *)
(*                                                                         *)
(* An address is a number: a zone is named by the address of its data, and *)
(* element i of zone z has address z + i, so pointers compare as in C.     *)
(* mem_alloc may place a zone at any slot that holds no live zone, that of *)
(* a deleted zone included.                                                *)
(***************************************************************************)
EXTENDS Integers, Sequences, FiniteSets, SequencesExt, FiniteSetsExt

CONSTANTS NbElements,   \* nb_elements given to cntShelf_new
          Slots,        \* where the data of a zone may start
          FirstSlot,    \* where the data of the first zone starts
          Stride        \* bound: slots are this far apart, zones smaller

ASSUME ShelfAssumption ==
  /\ Stride \in Nat
  /\ NbElements \in 1 .. Stride - 1
  /\ Slots \subseteq Nat \ {0}
  /\ FirstSlot \in Slots
  /\ \A a, b \in Slots : a < b => a + Stride =< b

VARIABLES
  chain,       \* the memzone list: slots, the first zone at its head
  zone,        \* slot -> memzone
  total_used,  \* this->nb_used_elements
  cur,         \* each_mz, each_next_free, each_last and each_next
  held,        \* the elements the client was given and has not freed
  armed,       \* the client has called reset since new or clear
  status       \* "ok", "assert" (an assert failed), "wild" (read freed memory)

shelfVars == <<chain, zone, total_used, cur, held, armed, status>>

NULL == 0

\* Every address an element may have.
Address == UNION {s .. s + Stride - 1 : s \in Slots}

NoZone == [nb |-> 0, used |-> 0, free |-> <<>>]
NoCursor == [mz |-> NULL, next_free |-> NULL, last |-> NULL, next |-> NULL]

\* Mutants: the last element is not linked; the step is twice the size.
EmptyZoneShort(s, n) ==
  [nb |-> n, used |-> 0, free |-> [i \in 1 .. n - 1 |-> s + i - 1]]
EmptyZoneWide(s, n) ==
  [nb |-> n, used |-> 0, free |-> [i \in 1 .. n |-> s + 2 * (i - 1)]]

\* empty_chain: every element of a zone on its free list, in address order.
EmptyZone(s, n) == [nb |-> n, used |-> 0, free |-> [i \in 1 .. n |-> s + i - 1]]

Data(zs, s) == s .. s + zs[s].nb - 1
FirstFree(zs, s) == IF zs[s].free = <<>> THEN NULL ELSE Head(zs[s].free)

\* The next_free link of the i-th element of a free list.
LinkAfter(fl, i) == IF i < Len(fl) THEN fl[i + 1] ELSE NULL

\* The elements of live zones that are on no free list.
Allocated == UNION {Data(zone, s) \ Range(zone[s].free) : s \in Range(chain)}

\* Where zone s stands in the chain.
PlaceOf(s) == CHOOSE i \in 1 .. Len(chain) : chain[i] = s

\* The zones' own counters, added up along the chain.
UsedSum == MapThenSumSet(LAMBDA s : zone[s].used, Range(chain))

-----------------------------------------------------------------------------
(***************************************************************************)
(* cntShelf_new, cntShelf_clear and cntShelf_del.  None of them writes the *)
(* cursor: new leaves what was in the memory, clear what the last walk     *)
(* left.                                                                   *)
(***************************************************************************)
FreshZones == [s \in Slots |-> IF s = FirstSlot THEN EmptyZone(s, NbElements)
                                                ELSE NoZone]

ShelfInit ==
  /\ chain = <<FirstSlot>>
  /\ zone = FreshZones
  /\ total_used = 0
  /\ cur = NoCursor
  /\ held = {}
  /\ armed = FALSE
  /\ status = "ok"

\* all_memzone_del, then a fresh first zone; its asserts add up the counters.
Restart ==
  /\ chain' = <<FirstSlot>>
  /\ zone' = FreshZones
  /\ total_used' = 0
  /\ held' = {}
  /\ armed' = FALSE
  /\ status' = IF total_used = UsedSum THEN "ok" ELSE "assert"

Clear == status = "ok" /\ Restart /\ UNCHANGED cur

\* del, then new on the same memory: the cursor is zeroed memory or stale.
Renew == status = "ok" /\ Restart /\ cur' \in {cur, NoCursor}

-----------------------------------------------------------------------------
(***************************************************************************)
(* cntShelf_alloc, and cntShelf_put which copies a value into the result.  *)
(***************************************************************************)
NewSize(n) == ((n + 1) * 3) \div 2

\* Line 128: the first zone with a free element, or else the last zone.
AllocZone ==
  chain[CHOOSE i \in 1 .. Len(chain) :
          /\ i = Len(chain) \/ zone[chain[i]].free # <<>>
          /\ \A j \in 1 .. i - 1 : zone[chain[j]].free = <<>>]

\* Mutant: the cursor keeps the element that is taken.
AdvanceFreeNot(c, fl) == c

\* The cursor when the head of free list fl is taken.
AdvanceFree(c, fl) ==
  IF c.next_free = Head(fl) THEN [c EXCEPT !.next_free = LinkAfter(fl, 1)] ELSE c

Take(zs, s) ==
  /\ zone' = [zs EXCEPT ![s].free = Tail(@), ![s].used = @ + 1]
  /\ total_used' = total_used + 1
  /\ cur' = AdvanceFree(cur, zs[s].free)
  /\ held' = held \cup {Head(zs[s].free)}
  /\ UNCHANGED <<armed, status>>

AllocInZone ==
  /\ status = "ok"
  /\ zone[AllocZone].free # <<>>
  /\ Take(zone, AllocZone)
  /\ UNCHANGED chain

AllocNewZone(s) ==
  LET n == NewSize(zone[AllocZone].nb)
  IN  /\ status = "ok"
      /\ zone[AllocZone].free = <<>>
      /\ s \notin Range(chain)
      /\ n < Stride
      /\ chain' = Append(chain, s)
      /\ Take([zone EXCEPT ![s] = EmptyZone(s, n)], s)

Alloc == AllocInZone \/ \E s \in Slots : AllocNewZone(s)

-----------------------------------------------------------------------------
(***************************************************************************)
(* cntShelf_each, as a function of a cursor: [status, cur, ret].           *)
(***************************************************************************)

(***************************************************************************)
(* Lines 241-245: step over the free elements that start at p, from        *)
(* each_next_free = nf.  The loop reads nf's link, so nf must be free.     *)
(***************************************************************************)
Skip(fl, p, nf) ==
  IF p # nf
  THEN [status |-> IF nf = NULL \/ p < nf THEN "ok" ELSE "assert",
        ptr |-> p, next_free |-> nf]
  ELSE IF nf \notin Range(fl)
  THEN [status |-> "wild", ptr |-> p, next_free |-> nf]
  ELSE LET k == CHOOSE i \in 1 .. Len(fl) : fl[i] = nf
           n == CHOOSE m \in 1 .. Len(fl) + 1 - k :
                  /\ k + m > Len(fl) \/ fl[k + m] # p + m
                  /\ \A j \in 1 .. m - 1 : fl[k + j] = p + j
       IN  [status |-> "ok", ptr |-> p + n, next_free |-> LinkAfter(fl, k + n - 1)]

\* Mutant: each_next_free is not refreshed when the walk enters a zone.
WalkAtStale(i, j, p, nf) ==
  LET s == chain[j]
  IN  Skip(zone[s].free, IF i = j THEN p ELSE s, IF i = j THEN nf ELSE NULL)

\* A walk at position p of zone number i; a later zone is entered at its data.
WalkAt(i, j, p, nf) ==
  LET s == chain[j]
  IN  IF i = j THEN Skip(zone[s].free, p, nf)
               ELSE Skip(zone[s].free, s, FirstFree(zone, s))

EachResult(c) ==
  IF c.next # NULL
  THEN [status |-> "ok", ret |-> c.next,
        cur |-> [c EXCEPT !.last = c.next, !.next = NULL]]
  ELSE IF c.mz = NULL
  THEN [status |-> "ok", ret |-> NULL, cur |-> c]
  ELSE IF c.mz \notin Range(chain)
  THEN [status |-> "wild", ret |-> NULL, cur |-> c]
  ELSE
  LET i == PlaceOf(c.mz)
      p == IF c.last = NULL THEN c.mz ELSE c.last + 1
      At(j) == WalkAt(i, j, p, c.next_free)
      InUse == {j \in i .. Len(chain) :
                  At(j).ptr # chain[j] + zone[chain[j]].nb}
  IN  IF At(i).status # "ok"
      THEN [status |-> At(i).status, ret |-> NULL, cur |-> c]
      ELSE IF InUse = {}
      THEN [status |-> "ok", ret |-> NULL,
            cur |-> [c EXCEPT !.mz = NULL,
                              !.next_free = At(Len(chain)).next_free]]
      ELSE LET j == Min(InUse)
           IN  [status |-> "ok", ret |-> At(j).ptr,
                cur |-> [mz |-> chain[j], next_free |-> At(j).next_free,
                         last |-> At(j).ptr, next |-> NULL]]

\* Mutant: looking ahead does not move each_last.
PrefetchInPlace(c) ==
  LET r == EachResult(c)
  IN  [status |-> r.status,
       cur |-> [r.cur EXCEPT !.last = c.last, !.next = r.ret]]

\* each_next = cntShelf_each(this)
Prefetch(c) == LET r == EachResult(c)
               IN  [status |-> r.status, cur |-> [r.cur EXCEPT !.next = r.ret]]

-----------------------------------------------------------------------------
(***************************************************************************)
(* cntShelf_free                                                           *)
(***************************************************************************)

\* Lines 165-171: the cursor leaves an element about to be freed.
LeaveElement(c, v) ==
  IF c.last = v
  THEN IF c.next = NULL THEN Prefetch(c) ELSE [status |-> "ok", cur |-> c]
  ELSE [status |-> "ok",
        cur |-> IF c.next = v THEN [c EXCEPT !.next = NULL] ELSE c]

\* Mutant: the freed element always goes to the head of the list.
InsertionPointHead(fl, v) == 1

\* Lines 183-184: the place in free list fl of the first element not below v.
InsertionPoint(fl, v) ==
  CHOOSE i \in 1 .. Len(fl) + 1 :
    /\ i > Len(fl) \/ fl[i] >= v
    /\ \A j \in 1 .. i - 1 : fl[j] < v

\* Mutant: the cursor does not learn of the freed element.
CursorAfterFreeNot(c, s, fl, v) == c

\* Lines 188-194 and 198-203: v is back on free list fl of zone s.
CursorAfterFree(c, s, fl, v) ==
  LET from == IF c.next # NULL THEN c.next ELSE c.last
      behind ==
        IF v > (IF fl = <<>> THEN NULL ELSE Head(fl))
        THEN c.mz = s /\ from < v /\ (c.next_free = NULL \/ c.next_free > v)
        ELSE /\ c.next_free = Head(fl)
             /\ (c.next # NULL /\ c.next < v) \/ c.last < v
  IN  IF behind THEN [c EXCEPT !.next_free = v] ELSE c

\* Mutant: the zone's counter is not decremented.
FreedZoneMiscounted(s, v) ==
  [zone[s] EXCEPT !.free = InsertAt(@, InsertionPoint(@, v), v)]

FreedZone(s, v) ==
  [zone[s] EXCEPT !.free = InsertAt(@, InsertionPoint(@, v), v), !.used = @ - 1]

\* Mutants: the first zone is unlinked too; the counter is compared with one.
UnlinksFirst(s) == zone[s].used = 1
UnlinksEarly(s) == zone[s].used =< 2 /\ s # FirstSlot

\* Lines 208-211: an empty zone is unlinked, unless it is the first.
Unlinks(s) == zone[s].used = 1 /\ s # FirstSlot

FreeFails(st) ==
  status' = st /\ UNCHANGED <<chain, zone, total_used, cur, held, armed>>

\* Lines 181, 185 and 196: v is not in use and free returns 0.
FreeNothing(c) ==
  cur' = c /\ UNCHANGED <<chain, zone, total_used, held, armed, status>>

FreeInZone(s, v, c) ==
  /\ cur' = CursorAfterFree(c, s, zone[s].free, v)
  /\ total_used' = total_used - 1
  /\ held' = held \ {v}
  /\ IF Unlinks(s)
     THEN /\ chain' = RemoveAt(chain, PlaceOf(s))
          /\ zone' = [zone EXCEPT ![s] = NoZone]
     ELSE /\ zone' = [zone EXCEPT ![s] = FreedZone(s, v)]
          /\ UNCHANGED chain
  /\ UNCHANGED <<armed, status>>

\* home: the zone that holds address v, if there is one.
Free(v) ==
  LET leave == LeaveElement(cur, v)
      home == {s \in Range(chain) : v \in Data(zone, s)}
  IN  /\ status = "ok"
      /\ \/ total_used = 0 /\ FreeFails("assert")               \* line 164
         \/ /\ total_used > 0
            /\ leave.status # "ok"
            /\ FreeFails(leave.status)
         \/ /\ total_used > 0
            /\ leave.status = "ok"
            /\ \/ home = {} /\ FreeNothing(leave.cur)
               \/ \E s \in home :
                    \/ zone[s].used = 0 /\ FreeFails("assert")  \* line 182
                    \/ /\ zone[s].used > 0
                       /\ v \in Range(zone[s].free)
                       /\ FreeNothing(leave.cur)
                    \/ /\ zone[s].used > 0
                       /\ v \notin Range(zone[s].free)
                       /\ FreeInZone(s, v, leave.cur)

-----------------------------------------------------------------------------
(***************************************************************************)
(* The cursor.  A client walks only after a reset.                         *)
(***************************************************************************)
Reset ==
  /\ status = "ok"
  /\ cur' = [mz |-> FirstSlot, next_free |-> FirstFree(zone, FirstSlot),
             last |-> NULL, next |-> NULL]
  /\ armed' = TRUE
  /\ UNCHANGED <<chain, zone, total_used, held, status>>

MoveTo(r) ==
  /\ cur' = r.cur
  /\ status' = r.status
  /\ UNCHANGED <<chain, zone, total_used, held, armed>>

Each == status = "ok" /\ armed /\ MoveTo(EachResult(cur))

IsLast == status = "ok" /\ armed /\ cur.next = NULL /\ MoveTo(Prefetch(cur))

-----------------------------------------------------------------------------
Walk == Reset \/ Each \/ IsLast

\* A client that frees what it holds; a wild one frees any address twice.
ShelfNext == Alloc \/ (\E v \in held : Free(v)) \/ Clear \/ Renew \/ Walk
AnyNext == ShelfNext \/ \E v \in Address : Free(v)

ShelfSpec == ShelfInit /\ [][ShelfNext]_shelfVars
AnySpec == ShelfInit /\ [][AnyNext]_shelfVars

-----------------------------------------------------------------------------
ZoneType == [nb : 0 .. Stride - 1, used : Nat, free : Seq(Address)]
CursorType == [mz : Slots \cup {NULL}, next_free : Nat, last : Nat, next : Nat]

\* The variables have their types.
TypeOK ==
  /\ chain \in Seq(Slots)
  /\ zone \in [Slots -> ZoneType]
  /\ total_used \in Int
  /\ cur \in CursorType
  /\ held \subseteq Address
  /\ armed \in BOOLEAN
  /\ status \in {"ok", "assert", "wild"}

\* The zones are chained once each, the first zone at the head, and a slot
\* outside the chain holds nothing (cntShelf_free's unlinking, line 208).
ChainExact ==
  /\ chain # <<>> /\ chain[1] = FirstSlot
  /\ \A i, j \in 1 .. Len(chain) : chain[i] = chain[j] => i = j
  /\ \A s \in Slots : (s \in Range(chain)) = (zone[s].nb > 0)

Sorted(fl) == \A i, j \in 1 .. Len(fl) : i < j => fl[i] < fl[j]

\* A free list is strictly sorted by address and stays inside its zone, which
\* lines 183-205 maintain and the cursor of cntShelf_each relies on.
FreeListsSorted ==
  \A s \in Slots : /\ Sorted(zone[s].free)
                   /\ Range(zone[s].free) \subseteq Data(zone, s)

\* The elements the client holds are exactly those of live zones that are on
\* no free list: none is handed out twice, none is lost, none is freed memory.
HeldExact == held = Allocated

\* cntShelf_size is the number of elements, and a zone's counter is what its
\* free list leaves, so line 208 unlinks a zone exactly when it is empty.
SizeExact ==
  /\ total_used = Cardinality(held)
  /\ \A s \in Slots : zone[s].used + Len(zone[s].free) = zone[s].nb

\* A zone other than the first is unlinked as soon as its last element is
\* freed (line 208), so memory does not grow by allocating and freeing.
NoEmptyZone == \A i \in 2 .. Len(chain) : zone[chain[i]].used > 0

\* The shelf is a set of elements: alloc, free and clear do what shelf.h says.
Set == INSTANCE ShelfSet WITH Element <- Address, elements <- Allocated,
                              size <- total_used
ImplementsSet == Set!SetSpec
=============================================================================
