---------------------------- MODULE CursorProof ----------------------------
(***************************************************************************)
(* Theorems about the cursor of a shelf.  What the theorems of ShelfProof  *)
(* say of any client holds under a walk; an element fetched ahead is       *)
(* always the one returned last, so that of the two branches by which      *)
(* cntShelf_free would forget it, that of line 169 is never taken; no      *)
(* assert fails under a walk, each_next_free is what it stands for, and    *)
(* the walk is the one that shelf.h promises.                              *)
(*                                                                         *)
(* The argument is in three layers.  Skip and EachResult, as functions of  *)
(* a cursor that is CursorOk: they find the next element in use, and take  *)
(* it from what is Ahead of the cursor.  Then what alloc and free do to    *)
(* the zones under such a cursor.  Last the invariant of the walk, which   *)
(* ties what the client has seen and is still owed to what is ahead.       *)
(***************************************************************************)
EXTENDS ShelfCursor, ShelfProof

\* What was fetched ahead with cursor c, if anything, is its last element.
Fetched(c) == c.next # NULL => c.next = c.last

\* cntShelf_each leaves nothing fetched, and the element it returns as last.
LEMMA EachFetches ==
  ASSUME NEW c \in CursorType
  PROVE  /\ EachResult(c).cur.next = NULL
         /\ EachResult(c).ret # NULL => EachResult(c).cur.last = EachResult(c).ret
<1>1. c = [mz |-> c.mz, next_free |-> c.next_free, last |-> c.last, next |-> c.next]
  BY DEF CursorType
<1>2. CASE c.next # NULL
  BY <1>1, <1>2 DEF EachResult
<1>3. CASE c.next = NULL /\ (c.mz = NULL \/ c.mz \notin Range(chain))
  BY <1>3 DEF EachResult
<1>4. CASE c.next = NULL /\ c.mz # NULL /\ c.mz \in Range(chain)
  <2> DEFINE i == PlaceOf(c.mz)
             p == IF c.last = NULL THEN c.mz ELSE c.last + 1
             At(j) == WalkAt(i, j, p, c.next_free)
             U == {j \in i .. Len(chain) : At(j).ptr # chain[j] + zone[chain[j]].nb}
             d == [c EXCEPT !.mz = NULL, !.next_free = At(Len(chain)).next_free]
  <2>1. EachResult(c) =
          IF At(i).status # "ok"
          THEN [status |-> At(i).status, ret |-> NULL, cur |-> c]
          ELSE IF U = {}
          THEN [status |-> "ok", ret |-> NULL, cur |-> d]
          ELSE [status |-> "ok", ret |-> At(Min(U)).ptr,
                cur |-> [mz |-> chain[Min(U)], next_free |-> At(Min(U)).next_free,
                         last |-> At(Min(U)).ptr, next |-> NULL]]
    BY <1>4 DEF EachResult
  <2>2. d.next = NULL
    BY <1>1, <1>4
  <2> HIDE DEF At, U, d
  <2> QED
    BY <2>1, <2>2, <1>4
<1> QED
  BY <1>2, <1>3, <1>4

\* The cursor of a state that ShelfInv describes, for the lemmas below.
Walkable ==
  /\ chain \in Seq(Slots) /\ \A s \in Slots : zone[s].free \in Seq(Nat)
  /\ cur \in CursorType

\* cntShelf_islast, and line 167 of cntShelf_free: what is fetched is last.
LEMMA PrefetchFetches ==
  ASSUME Walkable
  PROVE  Fetched(Prefetch(cur).cur)
<1> DEFINE r == EachResult(cur)
<1>1. r.cur \in CursorType
  BY EachResultType DEF Walkable
<1>2. r.ret # NULL => r.cur.last = r.ret
  BY EachFetches DEF Walkable
<1>3. Prefetch(cur).cur = [r.cur EXCEPT !.next = r.ret]
  BY DEF Prefetch
<1> HIDE DEF r
<1>4. Prefetch(cur).cur.next = r.ret /\ Prefetch(cur).cur.last = r.cur.last
  BY <1>1, <1>3 DEF CursorType
<1> QED
  BY <1>2, <1>4 DEF Fetched

\* Lines 165-171 of cntShelf_free.
LEMMA LeaveFetches ==
  ASSUME Walkable, Fetched(cur), NEW v
  PROVE  Fetched(LeaveElement(cur, v).cur)
<1>1. CASE cur.last = v /\ cur.next = NULL
  BY <1>1, PrefetchFetches DEF LeaveElement
<1>2. CASE cur.last = v /\ cur.next # NULL
  BY <1>2 DEF LeaveElement
<1>3. CASE cur.last # v /\ cur.next = v
  <2>1. [cur EXCEPT !.next = NULL].next = NULL
    BY DEF Walkable, CursorType
  <2> QED
    BY <1>3, <2>1 DEF LeaveElement, Fetched
<1>4. CASE cur.last # v /\ cur.next # v
  BY <1>4 DEF LeaveElement
<1> QED
  BY <1>1, <1>2, <1>3, <1>4

\* Lines 145 and 188-203 write each_next_free only.
LEMMA FreeFieldOnly ==
  ASSUME NEW c \in CursorType, Fetched(c), NEW x
  PROVE  Fetched([c EXCEPT !.next_free = x])
BY DEF CursorType, Fetched

-----------------------------------------------------------------------------
\* Every step of any client keeps what is fetched the last element returned.
LEMMA FetchedStep ==
  ASSUME ShelfInv, PrefetchIsLast, AnyNext
  PROVE  PrefetchIsLast'
<1>1. Walkable /\ Fetched(cur)
  BY CursorStays DEF Walkable, Fetched, PrefetchIsLast
<1>2. SUFFICES Fetched(cur')
  BY DEF Fetched, PrefetchIsLast
<1>3. cur \in CursorType
  BY <1>1 DEF Walkable
<1>4. CASE Alloc
  <2>1. PICK fl : cur' = AdvanceFree(cur, fl)
    BY <1>4 DEF Alloc, AllocInZone, AllocNewZone, Take
  <2> QED
    BY <2>1, <1>1, <1>3, FreeFieldOnly DEF AdvanceFree
<1>5. ASSUME NEW v, Free(v) PROVE Fetched(cur')
  <2> DEFINE c == LeaveElement(cur, v).cur
  <2>1. Fetched(c) /\ c \in CursorType
    BY <1>1, LeaveFetches, LeaveElementType DEF Walkable
  <2>2. \/ cur' = cur
        \/ cur' = c
        \/ \E s, fl : cur' = CursorAfterFree(c, s, fl, v)
    BY <1>5 DEF Free, FreeFails, FreeNothing, FreeInZone
  <2> HIDE DEF c
  <2>3. ASSUME NEW s, NEW fl PROVE Fetched(CursorAfterFree(c, s, fl, v))
    BY <2>1, FreeFieldOnly DEF CursorAfterFree
  <2> QED
    BY <1>1, <2>1, <2>2, <2>3
<1>6. CASE Clear \/ Renew
  BY <1>6, <1>1 DEF Clear, Renew, NoCursor, Fetched
<1>7. CASE Reset
  BY <1>7 DEF Reset, Fetched
<1>8. CASE Each
  BY <1>8, <1>3, EachFetches DEF Each, MoveTo, Fetched
<1>9. CASE IsLast
  BY <1>9, <1>1, PrefetchFetches DEF IsLast, MoveTo
<1> QED
  BY <1>4, <1>5, <1>6, <1>7, <1>8, <1>9 DEF AnyNext, ShelfNext, Walk

\* Whatever the client does, the one element that cntShelf_islast or
\* cntShelf_free has fetched ahead is also the last one returned.
THEOREM ShelfPrefetchIsLast == AnySpec => []PrefetchIsLast
<1>1. ShelfInit => PrefetchIsLast
  BY DEF ShelfInit, NoCursor, PrefetchIsLast
<1>2. ShelfInv /\ PrefetchIsLast /\ [AnyNext]_shelfVars => PrefetchIsLast'
  <2>1. ShelfInv /\ PrefetchIsLast /\ AnyNext => PrefetchIsLast'
    BY FetchedStep
  <2>2. PrefetchIsLast /\ UNCHANGED shelfVars => PrefetchIsLast'
    BY DEF shelfVars, PrefetchIsLast
  <2> QED
    BY <2>1, <2>2
<1> QED
  BY <1>1, <1>2, ShelfSafe, PTL DEF AnySpec

\* The client that walks is one of the clients that do anything.
LEMMA CursorStep == [CursorNext]_cursorVars => [AnyNext]_shelfVars
<1> SUFFICES ASSUME [CursorNext]_cursorVars PROVE [AnyNext]_shelfVars
  OBVIOUS
<1>1. CASE UNCHANGED cursorVars
  BY <1>1 DEF cursorVars
<1>2. CASE CursorAlloc \/ CursorRestart \/ CursorReset \/ CursorEach \/ CursorIsLast
  BY <1>2 DEF CursorAlloc, CursorRestart, CursorReset, CursorEach, CursorIsLast,
              AnyNext, ShelfNext, Walk
<1>3. CASE \E v \in held : CarefulFree(v)
  BY <1>3 DEF CarefulFree, FreeUnfetched, FreeWalked, AnyNext, ShelfNext
<1> QED
  BY <1>1, <1>2, <1>3 DEF CursorNext

\* A walk with elements allocated and freed under it leaves the shelf exact,
\* and what it fetches ahead is the last element it returned.
THEOREM WalkSafe == CursorSpec => [](HeldExact /\ SizeExact /\ PrefetchIsLast)
<1>1. CursorSpec => AnySpec
  BY CursorStep, PTL DEF CursorSpec, CursorInit, AnySpec
<1> QED
  BY <1>1, ShelfHeldExact, ShelfSizeExact, ShelfPrefetchIsLast, PTL

-----------------------------------------------------------------------------
(***************************************************************************)
(* What lines 241-245 find, when each_next_free is what it should be.      *)
(***************************************************************************)
\* n is the least of F above x, or NULL if there is none.
Nearest(F, x, n) ==
  IF n = NULL THEN \A e \in F : e =< x
              ELSE n \in F /\ n > x /\ \A e \in F : e > x => n =< e

\* r stops on the first element above x that is not of F.
Skipped(F, x, r) ==
  /\ r.status = "ok"
  /\ r.ptr \in Nat /\ r.ptr > x /\ r.ptr \notin F
  /\ \A e \in Nat : e > x /\ e < r.ptr => e \in F
  /\ r.next_free \in Nat /\ Nearest(F, r.ptr, r.next_free)

LEMMA SkipExact ==
  ASSUME NEW fl \in Seq(Nat), Sorted(fl), NULL \notin Range(fl),
         NEW x \in Nat, NEW nf \in Nat, Nearest(Range(fl), x, nf)
  PROVE  Skipped(Range(fl), x, Skip(fl, x + 1, nf))
<1> DEFINE p == x + 1
<1>1. /\ Len(fl) \in Nat /\ \A j \in 1 .. Len(fl) : fl[j] \in Nat /\ fl[j] \in Range(fl)
      /\ \A e \in Range(fl) : e \in Nat /\ \E j \in 1 .. Len(fl) : fl[j] = e
      /\ \A i, j \in 1 .. Len(fl) : i < j => fl[i] < fl[j]
  BY RangeOf DEF Sorted
<1>2. CASE p # nf
  <2>1. Skip(fl, p, nf) = [status |-> "ok", ptr |-> p, next_free |-> nf]
    BY <1>2 DEF Skip, Nearest, NULL
  <2>2. p \notin Range(fl) /\ Nearest(Range(fl), p, nf)
    BY <1>1, <1>2 DEF Nearest, NULL
  <2> QED
    BY <2>1, <2>2 DEF Skipped
<1>3. CASE p = nf
  <2>1. nf \in Range(fl)
    BY <1>3 DEF Nearest, NULL
  <2> DEFINE k == CHOOSE i \in 1 .. Len(fl) : fl[i] = nf
             n == CHOOSE m \in 1 .. Len(fl) + 1 - k :
                    /\ k + m > Len(fl) \/ fl[k + m] # p + m
                    /\ \A j \in 1 .. m - 1 : fl[k + j] = p + j
  <2>2. k \in 1 .. Len(fl) /\ fl[k] = p
    BY <1>3, <1>1, <2>1
  <2>3. Skip(fl, p, nf) = [status |-> "ok", ptr |-> p + n,
                           next_free |-> LinkAfter(fl, k + n - 1)]
    BY <1>3, <2>1 DEF Skip
  <2> HIDE DEF k
  <2>4. /\ n \in 1 .. Len(fl) + 1 - k
        /\ k + n > Len(fl) \/ fl[k + n] # p + n
        /\ \A j \in 1 .. n - 1 : fl[k + j] = p + j
    <3> DEFINE T == {m \in 1 .. Len(fl) + 1 - k : k + m > Len(fl) \/ fl[k + m] # p + m}
    <3>1. T \subseteq Nat /\ Len(fl) + 1 - k \in T
      BY <1>1, <2>2
    <3>2. PICK m \in T : \A q \in T : m =< q
      BY <3>1, LeastNat
    <3>3. \A j \in 1 .. m - 1 : j \in 1 .. Len(fl) + 1 - k /\ j \notin T
      BY <3>1, <3>2, <1>1, <2>2
    <3>4. \A j \in 1 .. m - 1 : fl[k + j] = p + j
      BY <3>3
    <3> QED
      BY <3>2, <3>4
  <2> HIDE DEF n
  <2> DEFINE l == k + n - 1
             y == p + n
  <2>5. l \in 1 .. Len(fl) /\ fl[l] = y - 1 /\ n \in Nat /\ k \in Nat /\ y \in Nat
    <3>1. n \in Nat /\ k \in Nat /\ l \in 1 .. Len(fl)
      BY <1>1, <2>2, <2>4
    <3>2. CASE n = 1
      BY <3>1, <3>2, <2>2
    <3>3. CASE n # 1
      <4>1. n - 1 \in 1 .. n - 1 /\ k + (n - 1) = l
        BY <3>1, <3>3, <2>4
      <4>2. fl[l] = p + (n - 1)
        BY <4>1, <2>4
      <4> QED
        BY <3>1, <4>2
    <3> QED
      BY <3>1, <3>2, <3>3
  <2>a. l + 1 = k + n /\ y = p + n /\ p \in Nat /\ p = x + 1 /\ l \in Nat
    BY <2>5, <1>1
  <2> HIDE DEF l, y, p
  <2>6. l < Len(fl) => /\ l + 1 \in 1 .. Len(fl) /\ fl[l + 1] \in Nat /\ fl[l + 1] > y
                       /\ fl[l + 1] \in Range(fl)
    <3> SUFFICES ASSUME l < Len(fl)
                 PROVE  /\ l + 1 \in 1 .. Len(fl) /\ fl[l + 1] \in Nat /\ fl[l + 1] > y
                        /\ fl[l + 1] \in Range(fl)
      OBVIOUS
    <3>1. l + 1 \in 1 .. Len(fl) /\ l < l + 1
      BY <2>5, <1>1
    <3>2. fl[l + 1] \in Nat /\ fl[l + 1] \in Range(fl) /\ fl[l] < fl[l + 1]
      BY <3>1, <1>1, <2>5
    <3>3. fl[l + 1] # y
      BY <3>1, <2>a, <2>4, <1>1
    <3> QED
      BY <3>1, <3>2, <3>3, <2>5
  <2>7. ASSUME NEW e \in Range(fl)
        PROVE  e =< y - 1 \/ (l < Len(fl) /\ fl[l + 1] =< e)
    <3>1. PICK j \in 1 .. Len(fl) : fl[j] = e
      BY <1>1
    <3>2. CASE j =< l
      <4>1. j = l \/ j < l
        BY <3>2, <2>a
      <4>2. fl[j] \in Nat /\ fl[j] =< fl[l]
        BY <4>1, <2>5, <1>1, SMTT(30)
      <4> QED
        BY <3>1, <4>2, <2>5
    <3>3. CASE j > l
      <4>1. l < Len(fl) /\ l + 1 \in 1 .. Len(fl) /\ (j = l + 1 \/ l + 1 < j)
        BY <3>3, <2>5, <1>1
      <4> QED
        BY <3>1, <4>1, <1>1, SMTT(30)
    <3> QED
      BY <3>2, <3>3, <2>5
  <2>8. ASSUME NEW e \in Nat, e > x, e < y PROVE e \in Range(fl)
    <3>1. e - p \in 0 .. n - 1 /\ e = p + (e - p)
      BY <2>8, <2>5, <2>a
    <3>2. CASE e = p
      BY <3>2, <2>2, <1>1
    <3>3. CASE e # p
      <4>1. PICK d : d = e - p
        OBVIOUS
      <4>2. d \in 1 .. n - 1 /\ e = p + d
        BY <4>1, <3>1, <3>3, <2>5, <2>a
      <4>3. fl[k + d] = e
        BY <4>2, <2>4
      <4>4. k + d \in 1 .. Len(fl)
        BY <4>2, <2>4, <2>2, <2>5, <1>1
      <4> QED
        BY <4>3, <4>4, <1>1
    <3> QED
      BY <3>2, <3>3
  <2>9. y \notin Range(fl) /\ y > x
    <3>1. y \notin Range(fl)
      BY <2>6, <2>7, <2>5
    <3> QED
      BY <3>1, <2>5, <2>a
  <2>10. LinkAfter(fl, l) \in Nat /\ Nearest(Range(fl), y, LinkAfter(fl, l))
    <3>1. CASE l < Len(fl)
      <4>1. LinkAfter(fl, l) = fl[l + 1] /\ fl[l + 1] # NULL
        BY <3>1, <2>6 DEF LinkAfter
      <4>2. PICK q : q = fl[l + 1]
        OBVIOUS
      <4>3. q \in Nat /\ q > y /\ q \in Range(fl) /\ LinkAfter(fl, l) = q /\ q # NULL
        BY <4>1, <4>2, <3>1, <2>6
      <4>4. \A e \in Range(fl) : e > y => q =< e
        BY <4>2, <2>5, <2>7, <1>1
      <4> QED
        BY <4>3, <4>4 DEF Nearest
    <3>2. CASE ~ (l < Len(fl))
      <4>1. LinkAfter(fl, l) = NULL
        BY <3>2 DEF LinkAfter
      <4>2. \A e \in Range(fl) : e =< y
        BY <3>2, <2>5, <2>7, <1>1
      <4> QED
        BY <4>1, <4>2 DEF Nearest, NULL
    <3> QED
      BY <3>1, <3>2
  <2>11. Skip(fl, p, nf) = [status |-> "ok", ptr |-> y, next_free |-> LinkAfter(fl, l)]
    BY <2>3 DEF y, l
  <2> QED
    BY <2>5, <2>8, <2>9, <2>10, <2>11 DEF Skipped, p
<1> QED
  BY <1>2, <1>3

\* In a zone: r is the first element in use above x, or the end of the zone.
FoundIn(s, z, x, r) ==
  /\ r.status = "ok" /\ r.ptr \in Nat /\ r.next_free \in Nat
  /\ r.ptr = s + z.nb => \A e \in InUse(s, z) : e =< x
  /\ r.ptr # s + z.nb => /\ r.ptr \in InUse(s, z) /\ r.ptr > x
                         /\ \A e \in InUse(s, z) : e > x => r.ptr =< e
                         /\ Nearest(Range(z.free), r.ptr, r.next_free)

LEMMA ZoneNumbers ==
  ASSUME NEW s \in Slots, NEW z, ZoneOK(s, z)
  PROVE  /\ s \in Nat /\ s > 0 /\ z.nb \in Nat /\ z.free \in Seq(Nat) /\ Sorted(z.free)
         /\ \A e \in Span(s, z) : e \in Nat /\ e >= s /\ e < s + z.nb /\ e # NULL
         /\ \A e \in Nat : e >= s /\ e < s + z.nb => e \in Span(s, z)
         /\ Range(z.free) \subseteq Span(s, z) /\ InUse(s, z) \subseteq Span(s, z)
         /\ NULL \notin Range(z.free) /\ NULL \notin InUse(s, z)
<1>1. s \in Nat /\ s > 0 /\ z.nb \in Nat
  BY SlotsAreNat, ShelfAssumption DEF ZoneOK
<1>2. /\ \A e \in Span(s, z) : e \in Nat /\ e >= s /\ e < s + z.nb /\ e # NULL
      /\ \A e \in Nat : e >= s /\ e < s + z.nb => e \in Span(s, z)
  BY <1>1 DEF Span, NULL
<1>3. Range(z.free) \subseteq Span(s, z) /\ z.free \in Seq(Nat) /\ Sorted(z.free)
  BY DEF ZoneOK
<1>4. InUse(s, z) \subseteq Span(s, z)
  BY DEF InUse
<1>5. NULL \notin Range(z.free) /\ NULL \notin InUse(s, z)
  BY <1>2, <1>3, <1>4
<1> QED
  BY <1>1, <1>2, <1>3, <1>4, <1>5

LEMMA ZoneSkip ==
  ASSUME NEW s \in Slots, NEW z, ZoneOK(s, z), NEW x \in Nat, s =< x + 1, x < s + z.nb,
         NEW nf \in Nat, Nearest(Range(z.free), x, nf)
  PROVE  FoundIn(s, z, x, Skip(z.free, x + 1, nf))
<1>1. /\ s \in Nat /\ s > 0 /\ z.nb \in Nat /\ z.free \in Seq(Nat) /\ Sorted(z.free)
      /\ NULL \notin Range(z.free)
      /\ \A e \in Span(s, z) : e \in Nat /\ e >= s /\ e < s + z.nb
      /\ \A e \in Nat : e >= s /\ e < s + z.nb => e \in Span(s, z)
      /\ Range(z.free) \subseteq Span(s, z)
  BY ZoneNumbers
<1>2. PICK r : r = Skip(z.free, x + 1, nf)
  OBVIOUS
<1>3. Skipped(Range(z.free), x, r)
  BY <1>1, <1>2, SkipExact
<1>4. /\ r.status = "ok" /\ r.ptr \in Nat /\ r.ptr > x /\ r.ptr \notin Range(z.free)
      /\ \A e \in Nat : e > x /\ e < r.ptr => e \in Range(z.free)
      /\ r.next_free \in Nat /\ Nearest(Range(z.free), r.ptr, r.next_free)
  BY <1>3 DEF Skipped
<1>5. r.ptr =< s + z.nb
  <2> SUFFICES ASSUME r.ptr > s + z.nb PROVE FALSE
    BY <1>1, <1>4
  <2>1. s + z.nb \in Range(z.free)
    BY <1>1, <1>4
  <2> QED
    BY <2>1, <1>1
<1>6. \A e \in InUse(s, z) : e \in Nat /\ e < s + z.nb /\ (e > x => r.ptr =< e)
  <2> TAKE e \in InUse(s, z)
  <2>1. e \in Nat /\ e < s + z.nb /\ e \notin Range(z.free)
    BY <1>1 DEF InUse
  <2> QED
    BY <2>1, <1>4
<1>7. CASE r.ptr = s + z.nb
  <2>1. \A e \in InUse(s, z) : e =< x
    BY <1>1, <1>6, <1>7
  <2> QED
    BY <2>1, <1>2, <1>4, <1>7 DEF FoundIn
<1>8. CASE r.ptr # s + z.nb
  <2>0. r.ptr \in Nat /\ r.ptr >= s /\ r.ptr < s + z.nb
    BY <1>1, <1>4, <1>5, <1>8, SMTT(30)
  <2>1. r.ptr \in InUse(s, z)
    BY <2>0, <1>1, <1>4 DEF InUse
  <2> QED
    BY <2>1, <1>2, <1>4, <1>6, <1>8 DEF FoundIn
<1> QED
  BY <1>7, <1>8

\* The first free element of a zone is the nearest above its beginning.
LEMMA FirstFreeNearest ==
  ASSUME NEW zs, NEW s \in Slots, ZoneOK(s, zs[s])
  PROVE  /\ FirstFree(zs, s) \in Nat
         /\ \A x \in Nat : x < s => Nearest(Range(zs[s].free), x, FirstFree(zs, s))
<1> DEFINE fl == zs[s].free
<1>1. /\ s \in Nat /\ fl \in Seq(Nat) /\ Sorted(fl) /\ NULL \notin Range(fl)
      /\ \A e \in Range(fl) : e \in Nat /\ e >= s
  BY ZoneNumbers
<1>2. CASE fl = <<>>
  <2>1. Range(fl) = {}
    BY <1>2 DEF Range
  <2> QED
    BY <2>1, <1>2 DEF FirstFree, Nearest, NULL
<1>3. CASE fl # <<>>
  <2> HIDE DEF fl
  <2>1. /\ Len(fl) \in Nat \ {0} /\ Head(fl) = fl[1] /\ 1 \in 1 .. Len(fl)
        /\ \A e \in Range(fl) : \E j \in 1 .. Len(fl) : fl[j] = e
        /\ \A j \in 1 .. Len(fl) : fl[j] \in Range(fl)
        /\ \A i, j \in 1 .. Len(fl) : i < j => fl[i] < fl[j]
    BY <1>1, <1>3, RangeOf DEF Sorted
  <2>2. PICK h : h = fl[1]
    OBVIOUS
  <2>3. h \in Range(fl) /\ h \in Nat /\ h >= s /\ h # NULL
    BY <1>1, <2>1, <2>2
  <2>4. \A e \in Range(fl) : h =< e
    <3> TAKE e \in Range(fl)
    <3>1. PICK j \in 1 .. Len(fl) : fl[j] = e
      BY <2>1
    <3>2. j = 1 \/ 1 < j
      BY <2>1
    <3>3. e \in Nat
      BY <1>1
    <3> QED
      BY <3>1, <3>2, <3>3, <2>1, <2>2, <2>3
  <2>5. FirstFree(zs, s) = h
    BY <1>3, <2>1, <2>2 DEF FirstFree, fl
  <2> QED
    BY <2>3, <2>4, <2>5, <1>1 DEF Nearest, fl
<1> QED
  BY <1>2, <1>3

-----------------------------------------------------------------------------
(***************************************************************************)
(* The cursor during a walk.                                               *)
(***************************************************************************)
\* The cursor stands at the first zone, before its elements, or on an element
\* in use, and its each_next_free is the nearest free element above.
Placed(ch, zs, c) ==
  /\ c.mz \in Range(ch)
  /\ Nearest(Range(zs[c.mz].free), c.last, c.next_free)
  /\ \/ c.last = NULL /\ c.next = NULL /\ c.mz = FirstSlot
     \/ c.last \in InUse(c.mz, zs[c.mz])

CursorOk(ch, zs, c) ==
  /\ c \in CursorType
  /\ c.next # NULL => c.next = c.last /\ c.mz # NULL
  /\ c.mz # NULL => Placed(ch, zs, c)

\* Zone t is behind zone s in the chain.
After(ch, s, t) == \E i, j \in 1 .. Len(ch) : i < j /\ ch[i] = s /\ ch[j] = t

\* The elements in use that the walk has still to meet.
Ahead(ch, zs, c) ==
  IF c.mz = NULL THEN {}
  ELSE {e \in InUse(c.mz, zs[c.mz]) : e > c.last \/ e = c.next}
         \cup UNION {InUse(t, zs[t]) : t \in {u \in Slots : After(ch, c.mz, u)}}

LEMMA ChainFacts ==
  ASSUME NEW ch, NEW zs, GoodZones(zs), GoodChain(ch, zs)
  PROVE  /\ ch \in Seq(Slots) /\ NoRepeat(ch) /\ Len(ch) \in Nat /\ Len(ch) > 0
         /\ ch[1] = FirstSlot
         /\ \A j \in 1 .. Len(ch) : ch[j] \in Slots /\ ZoneOK(ch[j], zs[ch[j]])
         /\ \A s : s \in Range(ch) <=> \E j \in 1 .. Len(ch) : ch[j] = s
         /\ Range(ch) \subseteq Slots
         /\ \A s \in Slots : s # NULL
<1>1. /\ ch \in Seq(Slots) /\ NoRepeat(ch) /\ Len(ch) \in Nat /\ Len(ch) > 0
      /\ ch[1] = FirstSlot
  BY DEF GoodChain, NoRepeat
<1>2. \A s \in Slots : s # NULL
  BY SlotsAreNat DEF NULL
<1> QED
  BY <1>1, <1>2, RangeOf DEF GoodZones

\* What is ahead, by the zones' places in the chain.
LEMMA AheadIs ==
  ASSUME NEW ch, NEW zs, GoodZones(zs), GoodChain(ch, zs), NEW c,
         NEW i \in 1 .. Len(ch), ch[i] = c.mz, NEW e
  PROVE  e \in Ahead(ch, zs, c) <=>
           \E m \in i .. Len(ch) : /\ e \in InUse(ch[m], zs[ch[m]])
                                   /\ m > i \/ e > c.last \/ e = c.next
<1>1. /\ NoRepeat(ch) /\ Len(ch) \in Nat
      /\ \A j \in 1 .. Len(ch) : ch[j] \in Slots
      /\ c.mz \in Slots /\ c.mz # NULL
  BY ChainFacts
<1>2. ASSUME NEW m \in i .. Len(ch), e \in InUse(ch[m], zs[ch[m]]),
             m > i \/ e > c.last \/ e = c.next
      PROVE  e \in Ahead(ch, zs, c)
  <2>1. CASE m = i
    BY <1>1, <1>2, <2>1 DEF Ahead
  <2>2. CASE m # i
    <3>1. m \in 1 .. Len(ch) /\ i < m
      BY <2>2, <1>1
    <3>2. After(ch, c.mz, ch[m]) /\ ch[m] \in Slots
      BY <3>1, <1>1 DEF After
    <3> QED
      BY <3>2, <1>1, <1>2 DEF Ahead
  <2> QED
    BY <2>1, <2>2
<1>3. ASSUME e \in Ahead(ch, zs, c)
      PROVE  \E m \in i .. Len(ch) : /\ e \in InUse(ch[m], zs[ch[m]])
                                     /\ m > i \/ e > c.last \/ e = c.next
  <2>1. CASE e \in InUse(c.mz, zs[c.mz]) /\ (e > c.last \/ e = c.next)
    <3>1. i \in i .. Len(ch)
      BY <1>1
    <3> QED
      BY <3>1, <2>1
  <2>2. CASE \E t \in Slots : After(ch, c.mz, t) /\ e \in InUse(t, zs[t])
    <3>1. PICK t \in Slots, j \in 1 .. Len(ch), m \in 1 .. Len(ch) :
                 j < m /\ ch[j] = c.mz /\ ch[m] = t /\ e \in InUse(t, zs[t])
      BY <2>2 DEF After
    <3>2. j = i
      BY <3>1, <1>1 DEF NoRepeat
    <3>3. m \in i .. Len(ch) /\ m > i
      BY <3>1, <3>2
    <3> QED
      BY <3>1, <3>3
  <2> QED
    BY <2>1, <2>2, <1>1, <1>3 DEF Ahead
<1> QED
  BY <1>2, <1>3

\* What cntShelf_each promises: nothing is left, or what it returns is the
\* next one ahead and the walk stands on it.
EachDone(c, r) ==
  /\ r.status = "ok" /\ CursorOk(chain, zone, r.cur) /\ r.cur.next = NULL
  /\ r.ret = NULL => r.cur.mz = NULL /\ Ahead(chain, zone, c) = {}
  /\ r.ret # NULL => /\ r.ret \in Ahead(chain, zone, c)
                     /\ r.cur.last = r.ret /\ r.cur.mz # NULL
                     /\ Ahead(chain, zone, r.cur) = Ahead(chain, zone, c) \ {r.ret}

\* What the walk finds in the zones of the chain from the cursor's on.
LEMMA WalkFinds ==
  ASSUME GoodZones(zone), GoodChain(chain, zone), NEW c, CursorOk(chain, zone, c),
         c.next = NULL, c.mz # NULL,
         NEW i \in 1 .. Len(chain), chain[i] = c.mz, NEW j \in i .. Len(chain),
         NEW p, p = IF c.last = NULL THEN c.mz ELSE c.last + 1
  PROVE  FoundIn(chain[j], zone[chain[j]], IF i = j THEN p - 1 ELSE chain[j] - 1,
                 WalkAt(i, j, p, c.next_free))
<1> DEFINE s == chain[j]
           z == zone[s]
<1>1. j \in 1 .. Len(chain) /\ s \in Slots /\ ZoneOK(s, z)
  BY ChainFacts
<1> HIDE DEF s, z
<1>2. /\ s \in Nat /\ s > 0 /\ z.nb \in Nat /\ s - 1 \in Nat
      /\ \A e \in Range(z.free) : e \in Nat /\ e >= s
      /\ \A e \in InUse(s, z) : e \in Nat /\ e >= s /\ e < s + z.nb
  BY <1>1, ZoneNumbers
<1>3. z.nb > 0
  BY <1>1, RangeOf DEF GoodChain, s, z
<1>4. CASE i = j
  <2>1. c \in CursorType /\ Placed(chain, zone, c) /\ c.mz = s
    BY <1>4 DEF CursorOk, s
  <2>2. /\ c.last \in Nat /\ c.next_free \in Nat
        /\ Nearest(Range(z.free), c.last, c.next_free)
        /\ c.last = NULL \/ c.last \in InUse(s, z)
    BY <2>1 DEF Placed, CursorType, z
  <2>3. /\ p - 1 \in Nat /\ s =< (p - 1) + 1 /\ p - 1 < s + z.nb /\ (p - 1) + 1 = p
        /\ c.last = NULL => p = s
        /\ c.last # NULL => p - 1 = c.last
    BY <1>2, <1>3, <2>1, <2>2 DEF NULL
  <2>4. Nearest(Range(z.free), p - 1, c.next_free)
    <3>1. CASE c.last = NULL
      BY <3>1, <1>2, <2>2, <2>3 DEF Nearest, NULL
    <3>2. CASE c.last # NULL
      BY <3>2, <2>2, <2>3
    <3> QED
      BY <3>1, <3>2
  <2>5. FoundIn(s, z, p - 1, Skip(z.free, (p - 1) + 1, c.next_free))
    BY <1>1, <2>2, <2>3, <2>4, ZoneSkip
  <2> QED
    BY <2>5, <2>3, <1>4 DEF WalkAt, s, z
<1>5. CASE i # j
  <2>1. /\ FirstFree(zone, s) \in Nat
        /\ Nearest(Range(z.free), s - 1, FirstFree(zone, s))
    BY <1>1, <1>2, FirstFreeNearest DEF z
  <2>2. s =< (s - 1) + 1 /\ s - 1 < s + z.nb /\ (s - 1) + 1 = s
    BY <1>2
  <2>3. FoundIn(s, z, s - 1, Skip(z.free, (s - 1) + 1, FirstFree(zone, s)))
    BY <1>1, <1>2, <2>1, <2>2, ZoneSkip
  <2> QED
    BY <2>2, <2>3, <1>5 DEF WalkAt, s, z
<1> QED
  BY <1>4, <1>5

LEMMA EachWalks ==
  ASSUME GoodZones(zone), GoodChain(chain, zone), NEW c, CursorOk(chain, zone, c),
         c.next = NULL, c.mz # NULL
  PROVE  EachDone(c, EachResult(c))
<1> DEFINE i == PlaceOf(c.mz)
           p == IF c.last = NULL THEN c.mz ELSE c.last + 1
           At(j) == WalkAt(i, j, p, c.next_free)
           U == {j \in i .. Len(chain) : At(j).ptr # chain[j] + zone[chain[j]].nb}
           From(j) == IF i = j THEN p - 1 ELSE chain[j] - 1
<1>1. /\ Len(chain) \in Nat /\ NoRepeat(chain)
      /\ \A j \in 1 .. Len(chain) :
           chain[j] \in Slots /\ chain[j] # NULL /\ ZoneOK(chain[j], zone[chain[j]])
      /\ \A s : s \in Range(chain) <=> \E j \in 1 .. Len(chain) : chain[j] = s
      /\ chain \in Seq(Slots) /\ Range(chain) \subseteq Slots
  BY ChainFacts
<1>2. c \in CursorType /\ Placed(chain, zone, c) /\ c.mz \in Range(chain) /\ c.mz \in Slots
  BY <1>1 DEF CursorOk, Placed
<1>3. i \in 1 .. Len(chain) /\ chain[i] = c.mz
  BY <1>1, <1>2 DEF PlaceOf
<1>4. EachResult(c) =
        IF At(i).status # "ok"
        THEN [status |-> At(i).status, ret |-> NULL, cur |-> c]
        ELSE IF U = {}
        THEN [status |-> "ok", ret |-> NULL,
              cur |-> [c EXCEPT !.mz = NULL, !.next_free = At(Len(chain)).next_free]]
        ELSE [status |-> "ok", ret |-> At(Min(U)).ptr,
              cur |-> [mz |-> chain[Min(U)], next_free |-> At(Min(U)).next_free,
                       last |-> At(Min(U)).ptr, next |-> NULL]]
  BY <1>2 DEF EachResult
<1> HIDE DEF i
<1>5. \A j \in i .. Len(chain) : FoundIn(chain[j], zone[chain[j]], From(j), At(j))
  BY <1>3, WalkFinds
<1>6. /\ c.last \in Nat /\ c.mz \in Nat /\ c.mz > 0
      /\ c.last = NULL => p - 1 = c.mz - 1
      /\ c.last # NULL => p - 1 = c.last
  BY <1>2, SlotsAreNat DEF CursorType
<1> HIDE DEF At, p
<1>7. ASSUME NEW j \in i .. Len(chain)
      PROVE  /\ chain[j] \in Slots /\ ZoneOK(chain[j], zone[chain[j]]) /\ j \in 1 .. Len(chain)
             /\ \A e \in InUse(chain[j], zone[chain[j]]) :
                  /\ e \in Nat /\ e >= chain[j] /\ e # NULL
                  /\ j > i \/ e > c.last => e > From(j)
             /\ At(j).status = "ok" /\ At(j).ptr \in Nat /\ At(j).next_free \in Nat
  <2>1. j \in 1 .. Len(chain)
    BY <1>1, <1>3
  <2>2. chain[j] \in Slots /\ ZoneOK(chain[j], zone[chain[j]])
    BY <1>1, <2>1
  <2>3. /\ chain[j] \in Nat
        /\ \A e \in InUse(chain[j], zone[chain[j]]) : e \in Nat /\ e >= chain[j] /\ e # NULL
    BY <2>2, ZoneNumbers
  <2>4. \A e \in InUse(chain[j], zone[chain[j]]) : j > i \/ e > c.last => e > From(j)
    BY <2>3, <1>3, <1>6 DEF From
  <2> QED
    BY <2>1, <2>2, <2>3, <2>4, <1>5 DEF FoundIn
<1> HIDE DEF From
\* Nothing is ahead in a zone where the walk finds nothing.
<1>8. ASSUME NEW j \in i .. Len(chain), j \notin U, NEW e \in InUse(chain[j], zone[chain[j]])
      PROVE  ~ (j > i \/ e > c.last \/ e = c.next)
  <2>1. At(j).ptr = chain[j] + zone[chain[j]].nb
    BY <1>8
  <2>2. e =< From(j)
    BY <2>1, <1>5 DEF FoundIn
  <2>3. From(j) \in Int
    BY <1>1, <1>3, <1>6, <1>7, SlotsAreNat DEF From, p
  <2>4. e \in Nat /\ e # NULL /\ (j > i \/ e > c.last => e > From(j))
    BY <1>7
  <2>5. ~ (e > From(j))
    BY <2>2, <2>3, <2>4
  <2> QED
    BY <2>4, <2>5
<1>9. At(i).status = "ok"
  BY <1>1, <1>3, <1>7
<1>10. CASE U = {}
  <2>1. Ahead(chain, zone, c) = {}
    <3> SUFFICES ASSUME NEW e \in Ahead(chain, zone, c) PROVE FALSE
      OBVIOUS
    <3>1. PICK m \in i .. Len(chain) : /\ e \in InUse(chain[m], zone[chain[m]])
                                       /\ m > i \/ e > c.last \/ e = c.next
      BY <1>3, AheadIs
    <3> HIDE DEF U
    <3> QED
      BY <3>1, <1>8, <1>10
  <2> DEFINE x == At(Len(chain)).next_free
             d == [c EXCEPT !.mz = NULL, !.next_free = x]
  <2>2. EachResult(c) = [status |-> "ok", ret |-> NULL, cur |-> d]
    BY <1>4, <1>9, <1>10
  <2>3. x \in Nat
    BY <1>1, <1>3, <1>7
  <2> HIDE DEF x
  <2>4. d \in CursorType /\ d.mz = NULL /\ d.next = NULL
    BY <2>3, <1>2 DEF CursorType
  <2> HIDE DEF d
  <2>5. CursorOk(chain, zone, d)
    BY <2>4 DEF CursorOk
  <2> QED
    BY <2>1, <2>2, <2>4, <2>5 DEF EachDone
<1>11. CASE U # {}
  <2>1. PICK j : j = Min(U)
    OBVIOUS
  <2>2. j \in U /\ \A m \in U : j =< m
    <3>1. U \subseteq Nat
      BY <1>1, <1>3
    <3> HIDE DEF U
    <3> QED
      BY <3>1, <2>1, <1>11, MinOfNat
  <2>3. PICK s, e, d : /\ s = chain[j] /\ e = At(j).ptr
                       /\ d = [mz |-> s, next_free |-> At(j).next_free,
                               last |-> e, next |-> NULL]
    OBVIOUS
  <2>4. EachResult(c) = [status |-> "ok", ret |-> e, cur |-> d]
    BY <1>4, <1>9, <1>11, <2>1, <2>3
  <2>5. /\ j \in i .. Len(chain) /\ e # s + zone[s].nb /\ j \in 1 .. Len(chain)
        /\ s \in Slots /\ s \in Range(chain) /\ s # NULL
    BY <2>2, <2>3, <1>1, <1>7
  <2>6. /\ e \in InUse(s, zone[s]) /\ e > From(j) /\ e \in Nat /\ e # NULL
        /\ \A f \in InUse(s, zone[s]) : f > From(j) => e =< f
        /\ At(j).next_free \in Nat
        /\ Nearest(Range(zone[s].free), e, At(j).next_free)
    BY <2>3, <2>5, <1>5, <1>7 DEF FoundIn
  <2> HIDE DEF U
  <2>7. /\ d \in CursorType /\ d.next = NULL /\ d.mz = s /\ d.last = e
        /\ d.next_free = At(j).next_free
    BY <2>3, <2>5, <2>6 DEF CursorType, NULL
  <2>8. CursorOk(chain, zone, d)
    BY <2>5, <2>6, <2>7 DEF CursorOk, Placed
  <2>9. e \in Ahead(chain, zone, c)
    <3>1. j > i \/ e > c.last
      <4>1. CASE j = i
        BY <4>1, <2>6, <1>6 DEF From, NULL
      <4>2. CASE j # i
        BY <4>2, <2>5, <1>3, <1>1
      <4> QED
        BY <4>1, <4>2
    <3> QED
      BY <3>1, <2>3, <2>5, <2>6, <1>3, AheadIs
  <2>10. ASSUME NEW f PROVE f \in Ahead(chain, zone, d) <=> f \in Ahead(chain, zone, c) /\ f # e
    <3>1. ASSUME f \in Ahead(chain, zone, d) PROVE f \in Ahead(chain, zone, c) /\ f # e
      <4>1. PICK m \in j .. Len(chain) : /\ f \in InUse(chain[m], zone[chain[m]])
                                         /\ m > j \/ f > d.last \/ f = d.next
        BY <3>1, <2>3, <2>5, <2>7, AheadIs
      <4>2. m \in i .. Len(chain) /\ m \in 1 .. Len(chain) /\ (m = j \/ m > j) /\ f # NULL /\ f \in Nat
        BY <4>1, <2>5, <1>1, <1>3, <1>7
      <4>3. CASE m = j
        <5>1. f > e
          BY <4>1, <4>2, <4>3, <2>7
        <5>2. j > i \/ f > c.last
          <6>1. CASE j = i
            BY <5>1, <4>2, <6>1, <2>6, <1>6 DEF From, NULL
          <6>2. CASE j # i
            BY <6>2, <2>5, <1>3, <1>1
          <6> QED
            BY <6>1, <6>2
        <5>3. f \in Ahead(chain, zone, c)
          BY <5>2, <4>1, <4>2, <4>3, <1>3, AheadIs
        <5> QED
          BY <5>1, <5>3, <4>2, <2>6
      <4>4. CASE m > j
        <5>1. m > i /\ chain[m] # s
          BY <4>4, <4>2, <2>3, <2>5, <1>1, <1>3 DEF NoRepeat
        <5>2. f \in Ahead(chain, zone, c)
          BY <5>1, <4>1, <4>2, <1>3, AheadIs
        <5>3. Span(s, zone[s]) \cap Span(chain[m], zone[chain[m]]) = {}
          BY <5>1, <4>2, <2>3, <2>5, <1>1, SpansDisjoint
        <5> QED
          BY <5>2, <5>3, <4>1, <2>6 DEF InUse
      <4> QED
        BY <4>2, <4>3, <4>4
    <3>2. ASSUME f \in Ahead(chain, zone, c), f # e PROVE f \in Ahead(chain, zone, d)
      <4>1. PICK m \in i .. Len(chain) : /\ f \in InUse(chain[m], zone[chain[m]])
                                         /\ m > i \/ f > c.last \/ f = c.next
        BY <3>2, <1>3, AheadIs
      <4>2. m \in U
        BY <4>1, <1>8
      <4>3. j =< m /\ m \in j .. Len(chain) /\ f # NULL /\ f \in Nat /\ f > From(m)
        <5>1. j =< m
          BY <4>2, <2>2
        <5>2. f # NULL /\ f \in Nat /\ f > From(m)
          BY <4>1, <1>7
        <5> QED
          BY <5>1, <5>2, <2>5
      <4>4. m > j \/ f > d.last
        <5>1. CASE m = j
          BY <5>1, <4>1, <4>3, <3>2, <2>3, <2>6, <2>7
        <5>2. CASE m # j
          BY <5>2, <4>3, <2>5
        <5> QED
          BY <5>1, <5>2
      <4> QED
        BY <4>1, <4>3, <4>4, <2>3, <2>5, <2>7, AheadIs
    <3> QED
      BY <3>1, <3>2
  <2>11. Ahead(chain, zone, d) = Ahead(chain, zone, c) \ {e}
    BY <2>10
  <2> QED
    BY <2>4, <2>5, <2>6, <2>7, <2>8, <2>9, <2>11 DEF EachDone
<1> QED
  BY <1>10, <1>11

\* cntShelf_each, from any cursor of a walk.
LEMMA EachExact ==
  ASSUME GoodZones(zone), GoodChain(chain, zone), NEW c, CursorOk(chain, zone, c)
  PROVE  EachDone(c, EachResult(c))
<1>1. c \in CursorType
  BY DEF CursorOk
<1>2. CASE c.next # NULL
  <2> DEFINE d == [c EXCEPT !.last = c.next, !.next = NULL]
  <2>1. EachResult(c) = [status |-> "ok", ret |-> c.next, cur |-> d]
    BY <1>2 DEF EachResult
  <2>2. c.next = c.last /\ c.mz # NULL /\ Placed(chain, zone, c)
    BY <1>2 DEF CursorOk
  <2>3. d \in CursorType /\ d.mz = c.mz /\ d.last = c.last /\ d.next = NULL
        /\ d.next_free = c.next_free
    BY <1>1, <2>2 DEF CursorType, NULL
  <2> HIDE DEF d
  <2>4. c.last \in InUse(c.mz, zone[c.mz]) /\ c.last # NULL /\ c.last \in Nat
    BY <1>1, <1>2, <2>2 DEF Placed, CursorType
  <2>5. CursorOk(chain, zone, d)
    BY <2>2, <2>3, <2>4 DEF CursorOk, Placed
  <2>6. c.mz \in Slots /\ ZoneOK(c.mz, zone[c.mz])
    BY <2>2, ChainFacts DEF Placed, GoodZones
  <2>7. \A e \in InUse(c.mz, zone[c.mz]) : e \in Nat /\ e # NULL
    BY <2>6, ZoneNumbers
  <2>8. \A t \in Slots : After(chain, c.mz, t) => c.last \notin InUse(t, zone[t])
    <3> SUFFICES ASSUME NEW t \in Slots, After(chain, c.mz, t)
                 PROVE  c.last \notin InUse(t, zone[t])
      OBVIOUS
    <3>1. t # c.mz
      BY ChainFacts DEF After, NoRepeat
    <3>2. Span(c.mz, zone[c.mz]) \cap Span(t, zone[t]) = {}
      BY <3>1, <2>6, SpansDisjoint DEF GoodZones
    <3> QED
      BY <3>2, <2>4 DEF InUse
  <2>9. Ahead(chain, zone, d) = Ahead(chain, zone, c) \ {c.next}
    BY <2>2, <2>3, <2>4, <2>7, <2>8 DEF Ahead
  <2>10. c.next \in Ahead(chain, zone, c)
    BY <2>2, <2>4 DEF Ahead
  <2> QED
    BY <1>2, <2>1, <2>2, <2>3, <2>5, <2>9, <2>10 DEF EachDone
<1>3. CASE c.next = NULL /\ c.mz = NULL
  <2>1. EachResult(c) = [status |-> "ok", ret |-> NULL, cur |-> c]
    BY <1>3 DEF EachResult
  <2> QED
    BY <2>1, <1>3 DEF EachDone, Ahead
<1> QED
  BY <1>2, <1>3, EachWalks

\* Looking ahead: nothing more is ahead, or the element the walk stands on.
Fetches(c, r) ==
  /\ r.status = "ok" /\ CursorOk(chain, zone, r.cur)
  /\ Ahead(chain, zone, r.cur) = Ahead(chain, zone, c)
  /\ r.cur.next = NULL => r.cur.mz = NULL /\ Ahead(chain, zone, c) = {}
  /\ r.cur.next # NULL => /\ r.cur.next \in Ahead(chain, zone, c)
                          /\ r.cur.last = r.cur.next

LEMMA PrefetchExact ==
  ASSUME GoodZones(zone), GoodChain(chain, zone), NEW c, CursorOk(chain, zone, c)
  PROVE  Fetches(c, Prefetch(c))
<1>1. PICK r : r = EachResult(c)
  OBVIOUS
<1>2. EachDone(c, r)
  BY <1>1, EachExact
<1> DEFINE d == [r.cur EXCEPT !.next = r.ret]
<1>3. Prefetch(c) = [status |-> r.status, cur |-> d]
  BY <1>1 DEF Prefetch
<1>4. r.cur \in CursorType /\ r.cur.next = NULL /\ CursorOk(chain, zone, r.cur)
  BY <1>2 DEF EachDone, CursorOk
<1>5. CASE r.ret = NULL
  <2>1. d = r.cur
    BY <1>4, <1>5 DEF CursorType
  <2>2. Ahead(chain, zone, d) = {} /\ Ahead(chain, zone, c) = {} /\ d.mz = NULL
    BY <2>1, <1>2, <1>5 DEF EachDone, Ahead
  <2> HIDE DEF d
  <2> QED
    BY <1>2, <1>3, <1>4, <2>1, <2>2 DEF Fetches, EachDone
<1>6. CASE r.ret # NULL
  <2>1. /\ r.ret \in Ahead(chain, zone, c) /\ r.cur.last = r.ret /\ r.cur.mz # NULL
        /\ Ahead(chain, zone, r.cur) = Ahead(chain, zone, c) \ {r.ret}
    BY <1>2, <1>6 DEF EachDone
  <2>2. /\ d \in CursorType /\ d.next = r.ret /\ d.mz = r.cur.mz /\ d.last = r.cur.last
        /\ d.next_free = r.cur.next_free
    BY <1>4, <2>1 DEF CursorType
  <2> HIDE DEF d
  <2>3. /\ r.cur.mz \in Range(chain)
        /\ Nearest(Range(zone[r.cur.mz].free), r.cur.last, r.cur.next_free)
        /\ r.ret \in InUse(r.cur.mz, zone[r.cur.mz])
    BY <1>4, <1>6, <2>1 DEF CursorOk, Placed
  <2>4. CursorOk(chain, zone, d)
    BY <2>1, <2>2, <2>3 DEF CursorOk, Placed
  <2>5. r.cur.mz \in Slots /\ ZoneOK(r.cur.mz, zone[r.cur.mz])
    BY <2>3, ChainFacts DEF GoodZones
  <2>6. \A e \in InUse(r.cur.mz, zone[r.cur.mz]) : e # NULL
    BY <2>5, ZoneNumbers
  <2>7. Ahead(chain, zone, d) = Ahead(chain, zone, r.cur) \cup {r.ret}
    BY <1>4, <2>1, <2>2, <2>3, <2>6 DEF Ahead
  <2>8. Ahead(chain, zone, d) = Ahead(chain, zone, c)
    BY <2>1, <2>7
  <2>9. r.status = "ok"
    BY <1>2 DEF EachDone
  <2> QED
    BY <1>3, <1>6, <2>1, <2>2, <2>4, <2>8, <2>9 DEF Fetches
<1> QED
  BY <1>5, <1>6

\* Lines 165-171: the cursor leaves v, and the walk has as much ahead.
Leaves(c, v, r) ==
  /\ r.status = "ok" /\ CursorOk(chain, zone, r.cur)
  /\ Ahead(chain, zone, r.cur) = Ahead(chain, zone, c)
  /\ r.cur.next # v
  /\ r.cur.mz # NULL => r.cur.last # v
  /\ c.next # NULL => r.cur.next = c.next
  /\ c.next = NULL /\ c.mz = NULL => r.cur.next = NULL /\ r.cur.mz = NULL

LEMMA LeaveExact ==
  ASSUME GoodZones(zone), GoodChain(chain, zone), NEW c, CursorOk(chain, zone, c),
         NEW v, v # NULL, v # c.next
  PROVE  Leaves(c, v, LeaveElement(c, v))
<1>1. c \in CursorType
  BY DEF CursorOk
<1>2. CASE c.last = v /\ c.next = NULL
  <2>1. PICK r : r = Prefetch(c)
    OBVIOUS
  <2>2. Fetches(c, r) /\ LeaveElement(c, v) = r
    BY <2>1, <1>2, PrefetchExact DEF LeaveElement
  <2>3. CASE r.cur.next = NULL
    BY <2>2, <2>3, <1>2 DEF Fetches, Leaves
  <2>4. CASE r.cur.next # NULL
    <3>1. /\ r.cur.next \in Ahead(chain, zone, c) /\ r.cur.last = r.cur.next
      BY <2>2, <2>4 DEF Fetches
    <3>2. c.mz # NULL
      BY <3>1 DEF Ahead
    <3>3. /\ c.mz \in Range(chain) /\ v \in InUse(c.mz, zone[c.mz])
      BY <3>2, <1>2 DEF CursorOk, Placed
    <3>4. c.mz \in Slots /\ ZoneOK(c.mz, zone[c.mz])
      BY <3>3, ChainFacts DEF GoodZones
    <3>5. v \in Nat
      BY <3>3, <3>4, ZoneNumbers
    <3>6. v \notin Ahead(chain, zone, c)
      <4>1. ASSUME NEW t \in Slots, After(chain, c.mz, t) PROVE v \notin InUse(t, zone[t])
        <5>1. t # c.mz
          BY <4>1, ChainFacts DEF After, NoRepeat
        <5>2. Span(c.mz, zone[c.mz]) \cap Span(t, zone[t]) = {}
          BY <5>1, <3>4, SpansDisjoint DEF GoodZones
        <5> QED
          BY <5>2, <3>3 DEF InUse
      <4>2. ~ (v > c.last) /\ v # c.next
        BY <1>2, <3>5
      <4> QED
        BY <4>1, <4>2, <3>2 DEF Ahead
    <3>7. r.cur.next # v
      BY <3>1, <3>6
    <3> QED
      BY <2>2, <2>4, <3>1, <3>2, <3>7, <1>2 DEF Fetches, Leaves
  <2> QED
    BY <2>3, <2>4
<1>3. CASE ~ (c.last = v /\ c.next = NULL)
  <2>1. c.last = v => c.mz = NULL \/ c.next = NULL
    BY DEF CursorOk
  <2>2. c.last # v
    BY <1>3, <2>1 DEF CursorOk
  <2>3. LeaveElement(c, v) = [status |-> "ok", cur |-> c]
    BY <2>2 DEF LeaveElement
  <2> QED
    BY <2>2, <2>3 DEF Leaves
<1> QED
  BY <1>2, <1>3

-----------------------------------------------------------------------------
(***************************************************************************)
(* The walk while elements are allocated.                                  *)
(***************************************************************************)
\* Line 145: when the head of a free list is taken, the link after it is the
\* nearest free element wherever the head was.
LEMMA NearestTaken ==
  ASSUME NEW fl \in Seq(Nat), fl # <<>>, Sorted(fl), NULL \notin Range(fl),
         NEW x \in Nat, NEW n, Nearest(Range(fl), x, n)
  PROVE  Nearest(Range(fl) \ {Head(fl)}, x, IF n = Head(fl) THEN LinkAfter(fl, 1) ELSE n)
<1>1. /\ Len(fl) \in Nat /\ Len(fl) > 0 /\ Head(fl) = fl[1]
      /\ \A j \in 1 .. Len(fl) : fl[j] \in Nat /\ fl[j] \in Range(fl)
      /\ \A e \in Range(fl) : e \in Nat /\ \E j \in 1 .. Len(fl) : fl[j] = e
      /\ \A i, j \in 1 .. Len(fl) : i < j => fl[i] < fl[j]
  BY RangeOf DEF Sorted
<1>2. CASE n # Head(fl)
  BY <1>1, <1>2 DEF Nearest
<1>3. CASE n = Head(fl)
  <2>1. n # NULL /\ n \in Nat /\ n > x
    BY <1>1, <1>3 DEF Nearest
  <2>2. CASE Len(fl) = 1
    <3>1. Range(fl) \ {Head(fl)} = {} /\ LinkAfter(fl, 1) = NULL
      BY <1>1, <2>2 DEF LinkAfter
    <3> QED
      BY <3>1, <1>3 DEF Nearest
  <2>3. CASE Len(fl) # 1
    <3>1. PICK m : m = fl[2]
      OBVIOUS
    <3>a. 2 \in 1 .. Len(fl) /\ 1 \in 1 .. Len(fl) /\ 1 < 2 /\ 1 < Len(fl) /\ 1 + 1 = 2
      <4>1. Len(fl) \in Nat /\ Len(fl) > 0
        BY <1>1
      <4>2. PICK k : k = Len(fl)
        OBVIOUS
      <4>3. k \in Nat /\ k > 0 /\ k # 1
        BY <4>1, <4>2, <2>3
      <4>4. 2 \in 1 .. k /\ 1 \in 1 .. k /\ 1 < k
        BY <4>3
      <4> QED
        BY <4>2, <4>4
    <3>b. fl[1] < fl[2] /\ fl[2] \in Nat /\ fl[2] \in Range(fl) /\ fl[1] = n
      BY <3>a, <1>1, <1>3
    <3>c. LinkAfter(fl, 1) = fl[2]
      BY <3>a DEF LinkAfter
    <3>2. /\ LinkAfter(fl, 1) = m /\ m \in Nat /\ m \in Range(fl) /\ m > n /\ m # NULL
          /\ 2 \in 1 .. Len(fl) /\ 1 \in 1 .. Len(fl)
      BY <3>1, <3>a, <3>b, <3>c, <2>1 DEF NULL
    <3>3. ASSUME NEW e \in Range(fl), e # n PROVE m =< e
      <4>1. PICK j \in 1 .. Len(fl) : fl[j] = e
        BY <1>1
      <4>2. j = 2 \/ 2 < j
        BY <4>1, <3>3, <1>1, <1>3
      <4> QED
        BY <4>1, <4>2, <3>1, <3>2, <1>1
    <3> QED
      BY <3>2, <3>3, <1>3, <2>1 DEF Nearest
  <2> QED
    BY <2>2, <2>3
<1> QED
  BY <1>2, <1>3

\* d is c but for each_next_free.
SamePlace(c, d) == d \in CursorType /\ d.mz = c.mz /\ d.last = c.last /\ d.next = c.next

LEMMA SetNextFree ==
  ASSUME NEW c \in CursorType, NEW n \in Nat
  PROVE  SamePlace(c, [c EXCEPT !.next_free = n]) /\ [c EXCEPT !.next_free = n].next_free = n
BY DEF CursorType, SamePlace

\* The head h of the free list of s goes into use.
TakenFrom(zs, ys, s, h) ==
  /\ GoodZones(zs) /\ GoodZones(ys)
  /\ zs[s].free # <<>> /\ h = Head(zs[s].free)
  /\ ys[s].free = Tail(zs[s].free)
  /\ InUse(s, ys[s]) = InUse(s, zs[s]) \cup {h}
  /\ \A t \in Slots \ {s} : ys[t] = zs[t]

\* The walk has what it had ahead, and x perhaps.
Grows(a, b, x) == a \subseteq b /\ b \subseteq a \cup {x}

LEMMA TakeCursor ==
  ASSUME NEW ch, NEW zs, NEW ys, NEW s \in Slots, NEW h, TakenFrom(zs, ys, s, h),
         NEW c, CursorOk(ch, zs, c), Range(ch) \subseteq Slots
  PROVE  /\ CursorOk(ch, ys, AdvanceFree(c, zs[s].free))
         /\ SamePlace(c, AdvanceFree(c, zs[s].free))
         /\ Grows(Ahead(ch, zs, c), Ahead(ch, ys, AdvanceFree(c, zs[s].free)), h)
<1> DEFINE fl == zs[s].free
           n == IF c.next_free = Head(fl) THEN LinkAfter(fl, 1) ELSE c.next_free
<1>1. PICK d : d = AdvanceFree(c, fl)
  OBVIOUS
<1>2. /\ GoodZones(zs) /\ GoodZones(ys) /\ fl # <<>> /\ h = Head(fl)
      /\ ys[s].free = Tail(fl) /\ InUse(s, ys[s]) = InUse(s, zs[s]) \cup {h}
      /\ \A t \in Slots \ {s} : ys[t] = zs[t]
  BY DEF TakenFrom
<1>3. /\ fl \in Seq(Nat) /\ Sorted(fl) /\ NULL \notin Range(fl)
      /\ Range(fl) \subseteq Span(s, zs[s])
  BY <1>2, ZoneNumbers DEF GoodZones
<1>4. Range(ys[s].free) = Range(fl) \ {h} /\ h \in Range(fl) /\ h # NULL
  BY <1>2, <1>3, TakenListSorted
<1>5. c \in CursorType /\ c.next_free \in Nat /\ LinkAfter(fl, 1) \in Nat
  BY <1>3 DEF CursorOk, CursorType, LinkAfter, NULL
<1> HIDE DEF fl
<1>6. SamePlace(c, d) /\ d.next_free = n
  <2>1. CASE c.next_free = Head(fl)
    <3>1. d = [c EXCEPT !.next_free = LinkAfter(fl, 1)]
      BY <1>1, <2>1 DEF AdvanceFree
    <3> QED
      BY <3>1, <2>1, <1>5, SetNextFree
  <2>2. CASE c.next_free # Head(fl)
    BY <1>1, <1>5, <2>2 DEF AdvanceFree, SamePlace
  <2> QED
    BY <2>1, <2>2
<1>7. ASSUME c.mz # NULL
      PROVE  Nearest(Range(ys[c.mz].free), c.last, n)
  <2>1. /\ c.mz \in Slots /\ Nearest(Range(zs[c.mz].free), c.last, c.next_free)
        /\ c.last \in Nat
    BY <1>5, <1>7 DEF CursorOk, Placed, CursorType
  <2>2. CASE c.mz = s
    <3>1. Nearest(Range(fl), c.last, c.next_free)
      BY <2>1, <2>2 DEF fl
    <3>2. Nearest(Range(fl) \ {Head(fl)}, c.last, n)
      BY <3>1, <2>1, <1>2, <1>3, NearestTaken
    <3> QED
      BY <3>2, <2>2, <1>2, <1>4
  <2>3. CASE c.mz # s
    <3>1. Span(s, zs[s]) \cap Span(c.mz, zs[c.mz]) = {}
      BY <2>1, <2>3, <1>2, SpansDisjoint DEF GoodZones
    <3>2. Range(zs[c.mz].free) \subseteq Span(c.mz, zs[c.mz])
      BY <2>1, <1>2 DEF GoodZones, ZoneOK
    <3>3. c.next_free # h
      BY <3>1, <3>2, <2>1, <1>3, <1>4 DEF Nearest
    <3> QED
      BY <3>3, <2>1, <2>3, <1>2
  <2> QED
    BY <2>2, <2>3
<1>8. \A t \in Slots : /\ InUse(t, zs[t]) \subseteq InUse(t, ys[t])
                       /\ InUse(t, ys[t]) \subseteq InUse(t, zs[t]) \cup {h}
  BY <1>2
<1> HIDE DEF n
<1>9. CursorOk(ch, ys, d)
  <2>1. ASSUME c.mz # NULL PROVE Placed(ch, ys, d)
    <3>1. c.mz \in Slots /\ Placed(ch, zs, c)
      BY <2>1 DEF CursorOk, Placed
    <3>2. d.mz = c.mz /\ d.last = c.last /\ d.next = c.next /\ d.next_free = n
      BY <1>6 DEF SamePlace
    <3>3. d.mz \in Range(ch) /\ Nearest(Range(ys[d.mz].free), d.last, d.next_free)
      BY <3>1, <3>2, <2>1, <1>7 DEF Placed
    <3>4. \/ d.last = NULL /\ d.next = NULL /\ d.mz = FirstSlot
          \/ d.last \in InUse(d.mz, ys[d.mz])
      BY <3>1, <3>2, <1>8 DEF Placed
    <3> QED
      BY <3>3, <3>4 DEF Placed
  <2> QED
    BY <2>1, <1>6 DEF CursorOk, SamePlace
<1>10. Grows(Ahead(ch, zs, c), Ahead(ch, ys, d), h)
  <2>1. CASE c.mz = NULL
    BY <2>1, <1>6 DEF Ahead, SamePlace, Grows
  <2>2. CASE c.mz # NULL
    <3>1. c.mz \in Slots
      BY <2>2 DEF CursorOk, Placed
    <3> QED
      BY <3>1, <2>2, <1>6, <1>8 DEF Ahead, SamePlace, Grows
  <2> QED
    BY <2>1, <2>2
<1> QED
  BY <1>1, <1>6, <1>9, <1>10 DEF fl

\* A zone that is appended changes nothing for a cursor.
LEMMA AppendCursor ==
  ASSUME NEW ch, NEW zs, GoodZones(zs), GoodChain(ch, zs),
         NEW s \in Slots, s \notin Range(ch),
         NEW dh, dh \in Seq(Slots), Len(dh) = Len(ch) + 1, dh[Len(ch) + 1] = s,
         \A j \in 1 .. Len(ch) : dh[j] = ch[j], Range(dh) = Range(ch) \cup {s},
         NEW ys, InUse(s, ys[s]) = {}, \A t \in Slots \ {s} : ys[t] = zs[t],
         NEW c, CursorOk(ch, zs, c)
  PROVE  CursorOk(dh, ys, c) /\ Ahead(dh, ys, c) = Ahead(ch, zs, c)
<1>1. /\ Len(ch) \in Nat /\ \A j \in 1 .. Len(ch) : ch[j] \in Slots /\ ch[j] # s
      /\ Range(ch) \subseteq Slots
  BY ChainFacts
<1>2. CASE c.mz = NULL
  BY <1>2 DEF CursorOk, Ahead
<1>3. CASE c.mz # NULL
  <2>1. Placed(ch, zs, c) /\ c.mz \in Range(ch) /\ c.mz \in Slots \ {s}
    BY <1>1, <1>3 DEF CursorOk, Placed
  <2>2. CursorOk(dh, ys, c)
    BY <2>1 DEF CursorOk, Placed
  <2>3. \A t \in Slots \ {s} : After(dh, c.mz, t) <=> After(ch, c.mz, t)
    <3> TAKE t \in Slots \ {s}
    <3>1. \A j \in 1 .. Len(dh) : j \in 1 .. Len(ch) \/ dh[j] = s
      BY <1>1
    <3>2. \A j \in 1 .. Len(ch) : j \in 1 .. Len(dh)
      BY <1>1
    <3>3. After(dh, c.mz, t) => After(ch, c.mz, t)
      BY <3>1, <2>1 DEF After
    <3>4. After(ch, c.mz, t) => After(dh, c.mz, t)
      BY <3>2 DEF After
    <3> QED
      BY <3>3, <3>4
  <2>4. ~ After(ch, c.mz, s)
    BY <1>1 DEF After
  <2>5. Ahead(dh, ys, c) = Ahead(ch, zs, c)
    BY <1>3, <2>1, <2>3, <2>4 DEF Ahead
  <2> QED
    BY <2>2, <2>5
<1> QED
  BY <1>2, <1>3

\* cntShelf_alloc under a walk.
LEMMA AllocWalks ==
  ASSUME ShelfInv, CursorOk(chain, zone, cur), Alloc
  PROVE  /\ CursorOk(chain', zone', cur') /\ SamePlace(cur, cur')
         /\ \E h \in Address \ held :
              /\ held' = held \cup {h}
              /\ Grows(Ahead(chain, zone, cur), Ahead(chain', zone', cur'), h)
<1>1. GoodZones(zone) /\ GoodChain(chain, zone) /\ held = UseOf(zone)
  BY DEF ShelfInv
<1>2. ShelfInv' /\ held' # held
  <2>1. ShelfInv' /\ \E e \in Address \ held : held' = held \cup {e}
    BY InvAllocInZone, InvAllocNewZone DEF Alloc
  <2> QED
    BY <2>1
<1>3. GoodZones(zone') /\ GoodChain(chain', zone')
  BY <1>2 DEF ShelfInv
<1>4. ASSUME NEW zs, NEW s \in Slots, GoodZones(zs), UseOf(zs) = held, zs[s].free # <<>>,
             Take(zs, s), CursorOk(chain', zs, cur)
      PROVE  /\ CursorOk(chain', zone', cur') /\ SamePlace(cur, cur')
             /\ \E h \in Address \ held :
                  /\ held' = held \cup {h}
                  /\ Grows(Ahead(chain', zs, cur), Ahead(chain', zone', cur'), h)
  <2> DEFINE h == Head(zs[s].free)
             y == [zs[s] EXCEPT !.free = Tail(zs[s].free), !.used = zs[s].used + 1]
  <2>1. ZoneOK(s, zs[s]) /\ zs \in [Slots -> [nb : 0 .. Stride - 1, used : Nat, free : Seq(Nat)]]
    BY <1>4 DEF GoodZones
  <2>2. /\ InUse(s, y) = InUse(s, zs[s]) \cup {h} /\ h \in Span(s, zs[s])
    BY <2>1, <1>4, TakeOK
  <2>3. /\ zone' = [zs EXCEPT ![s] = y] /\ cur' = AdvanceFree(cur, zs[s].free)
        /\ held' = held \cup {h}
    BY <1>4, <2>1 DEF Take
  <2>4. y.free = Tail(zs[s].free)
    BY <2>1
  <2> HIDE DEF y
  <2>5. zone'[s] = y /\ \A t \in Slots \ {s} : zone'[t] = zs[t]
    BY <2>1, <2>3
  <2> HIDE DEF h
  <2>6. TakenFrom(zs, zone', s, h)
    BY <1>3, <1>4, <2>2, <2>4, <2>5 DEF TakenFrom, h
  <2>7. h \in Address /\ h \notin held
    <3>1. h \in Address
      BY <2>1, <2>2, SpanInAddress
    <3> QED
      BY <3>1, <2>3, <1>2
  <2>8. Range(chain') \subseteq Slots
    BY <1>3, ChainFacts
  <2>9. PICK d : d = AdvanceFree(cur, zs[s].free)
    OBVIOUS
  <2>10. PICK ch, ys : ch = chain' /\ ys = zone'
    OBVIOUS
  <2>11. /\ CursorOk(ch, ys, d) /\ SamePlace(cur, d)
         /\ Grows(Ahead(ch, zs, cur), Ahead(ch, ys, d), h)
    BY <2>6, <2>8, <2>9, <2>10, <1>4, TakeCursor
  <2> QED
    BY <2>3, <2>7, <2>9, <2>10, <2>11
<1>5. CASE AllocInZone
  <2> DEFINE s == AllocZone
  <2>1. s \in Slots /\ zone[s].free # <<>> /\ Take(zone, s) /\ chain' = chain
    BY <1>5, AllocZoneExact DEF AllocInZone
  <2> HIDE DEF s
  <2> QED
    BY <2>1, <1>1, <1>4
<1>6. ASSUME NEW s \in Slots, AllocNewZone(s)
      PROVE  /\ CursorOk(chain', zone', cur') /\ SamePlace(cur, cur')
             /\ \E h \in Address \ held :
                  /\ held' = held \cup {h}
                  /\ Grows(Ahead(chain, zone, cur), Ahead(chain', zone', cur'), h)
  <2> DEFINE n == NewSize(zone[AllocZone].nb)
             zs == [zone EXCEPT ![s] = EmptyZone(s, n)]
  <2>1. s \notin Range(chain) /\ n < Stride /\ chain' = Append(chain, s) /\ Take(zs, s)
    BY <1>6 DEF AllocNewZone
  <2>2. n \in 1 .. Stride - 1
    <3>1. AllocZone \in Slots /\ zone[AllocZone].nb \in Nat
      BY <1>1, AllocZoneExact DEF GoodZones
    <3>2. n \in Nat /\ n > 0
      BY <3>1 DEF NewSize
    <3> QED
      BY <2>1, <3>2, ShelfAssumption
  <2> HIDE DEF n
  <2>3. /\ ZoneOK(s, EmptyZone(s, n)) /\ InUse(s, EmptyZone(s, n)) = {}
        /\ EmptyZone(s, n).free # <<>>
    BY <2>2, EmptyZoneOK
  <2>4. /\ GoodZones(zs) /\ zs[s] = EmptyZone(s, n)
        /\ \A t \in Slots \ {s} : zs[t] = zone[t]
        /\ UseOf(zs) = (UseOf(zone) \ InUse(s, zone[s])) \cup InUse(s, EmptyZone(s, n))
    <3>1. ZoneChanged(zone, s, EmptyZone(s, n), zs)
      BY <1>1, <2>3, UpdateZone
    <3> HIDE DEF zs
    <3> QED
      BY <3>1 DEF ZoneChanged
  <2> HIDE DEF zs
  <2>5. InUse(s, zone[s]) = {}
    <3>1. s \in Nat /\ zone[s].nb \in Nat /\ ~(zone[s].nb > 0)
      BY <1>1, <2>1, SlotsAreNat DEF GoodChain, GoodZones
    <3>2. Span(s, zone[s]) = {}
      BY <3>1 DEF Span
    <3> QED
      BY <3>2 DEF InUse
  <2>6. UseOf(zs) = held
    BY <1>1, <2>3, <2>4, <2>5
  <2>7. PICK dh : dh = chain'
    OBVIOUS
  <2>8. /\ dh \in Seq(Slots) /\ Len(dh) = Len(chain) + 1 /\ dh[Len(chain) + 1] = s
        /\ \A j \in 1 .. Len(chain) : dh[j] = chain[j]
        /\ Range(dh) = Range(chain) \cup {s}
    BY <2>1, <2>7, <1>1, ChainFacts, AppendExact
  <2>9. CursorOk(dh, zs, cur) /\ Ahead(dh, zs, cur) = Ahead(chain, zone, cur)
    BY <2>1, <2>3, <2>4, <2>8, <1>1, AppendCursor
  <2> QED
    BY <2>1, <2>3, <2>4, <2>6, <2>7, <2>9, <1>4
<1> QED
  BY <1>5, <1>6 DEF Alloc

-----------------------------------------------------------------------------
(***************************************************************************)
(* The walk while elements are freed.                                      *)
(***************************************************************************)
\* The nearest free element once v is free too.
Nearer(x, n, v) == IF v > x /\ (n = NULL \/ v < n) THEN v ELSE n

LEMMA NearestFreed ==
  ASSUME NEW F \in SUBSET Nat, NEW x \in Nat, NEW n \in Nat, Nearest(F, x, n),
         NEW v \in Nat, v # NULL, v # x
  PROVE  Nearest(F \cup {v}, x, Nearer(x, n, v))
<1>1. CASE v > x /\ (n = NULL \/ v < n)
  BY <1>1 DEF Nearest, Nearer
<1>2. CASE ~ (v > x /\ (n = NULL \/ v < n))
  BY <1>2 DEF Nearest, Nearer
<1> QED
  BY <1>1, <1>2

\* Lines 188-194 and 198-203 compute it, for a cursor in the zone.
LEMMA AfterFreeHere ==
  ASSUME NEW c \in CursorType, c.next # NULL => c.next = c.last,
         NEW s, c.mz = s, NEW fl \in Seq(Nat), Sorted(fl), NULL \notin Range(fl),
         Nearest(Range(fl), c.last, c.next_free),
         NEW v \in Nat, v # NULL, v \notin Range(fl)
  PROVE  CursorAfterFree(c, s, fl, v) = [c EXCEPT !.next_free = Nearer(c.last, c.next_free, v)]
<1>1. c.last \in Nat /\ c.next_free \in Nat /\ c = [c EXCEPT !.next_free = c.next_free]
  BY DEF CursorType
<1> DEFINE x == c.last
           n == c.next_free
           h == IF fl = <<>> THEN NULL ELSE Head(fl)
           behind == IF v > h
                     THEN x < v /\ (n = NULL \/ n > v)
                     ELSE n = Head(fl) /\ x < v
<1>2. CursorAfterFree(c, s, fl, v) = IF behind THEN [c EXCEPT !.next_free = v] ELSE c
  <2>1. (IF c.next # NULL THEN c.next ELSE c.last) = x
    OBVIOUS
  <2>2. ((c.next # NULL /\ c.next < v) \/ c.last < v) <=> x < v
    OBVIOUS
  <2> QED
    BY <2>1, <2>2 DEF CursorAfterFree
<1>3. behind <=> v > x /\ (n = NULL \/ v < n)
  <2>1. CASE fl = <<>>
    <3>1. v > h
      BY <2>1 DEF NULL
    <3> QED
      BY <3>1, <1>1
  <2>2. CASE fl # <<>> /\ v > Head(fl)
    BY <2>2, <1>1
  <2>3. CASE fl # <<>> /\ ~ (v > Head(fl))
    <3>1. /\ Len(fl) \in Nat /\ Len(fl) > 0 /\ Head(fl) = fl[1] /\ 1 \in 1 .. Len(fl)
          /\ \A j \in 1 .. Len(fl) : fl[j] \in Nat /\ fl[j] \in Range(fl)
          /\ \A e \in Range(fl) : e \in Nat /\ \E j \in 1 .. Len(fl) : fl[j] = e
          /\ \A i, j \in 1 .. Len(fl) : i < j => fl[i] < fl[j]
      BY <2>3, RangeOf DEF Sorted
    <3>2. PICK g : g = Head(fl)
      OBVIOUS
    <3>3. g \in Nat /\ g \in Range(fl) /\ v < g /\ g # NULL
      BY <3>1, <3>2, <2>3
    <3>4. \A e \in Range(fl) : g =< e
      <4> TAKE e \in Range(fl)
      <4>1. PICK j \in 1 .. Len(fl) : fl[j] = e
        BY <3>1
      <4>2. j = 1 \/ 1 < j
        BY <4>1, <3>1
      <4> QED
        BY <4>1, <4>2, <3>1, <3>2
    <3>5. behind <=> n = g /\ x < v
      BY <3>2, <2>3
    <3>6. v > x => n = g
      BY <3>3, <3>4, <1>1 DEF Nearest
    <3> HIDE DEF behind
    <3> QED
      BY <3>3, <3>5, <3>6, <1>1
  <2> QED
    BY <2>1, <2>2, <2>3
<1> HIDE DEF behind
<1> QED
  BY <1>1, <1>2, <1>3 DEF Nearer

\* A cursor elsewhere, or nowhere, keeps its place.
LEMMA AfterFreeElsewhere ==
  ASSUME NEW c \in CursorType, NEW s, c.mz # s, NEW fl \in Seq(Nat), NEW v \in Nat, v # NULL,
         c.mz # NULL => c.next_free = NULL \/ c.next_free \notin Range(fl),
         NULL \notin Range(fl)
  PROVE  /\ SamePlace(c, CursorAfterFree(c, s, fl, v))
         /\ c.mz # NULL => CursorAfterFree(c, s, fl, v) = c
<1>1. CursorAfterFree(c, s, fl, v) \in {c, [c EXCEPT !.next_free = v]}
  BY DEF CursorAfterFree
<1>2. SamePlace(c, c) /\ SamePlace(c, [c EXCEPT !.next_free = v])
  BY DEF CursorType, SamePlace
<1>3. ASSUME c.mz # NULL PROVE CursorAfterFree(c, s, fl, v) = c
  <2>1. CASE fl = <<>>
    BY <2>1 DEF CursorAfterFree, NULL
  <2>2. CASE fl # <<>>
    <3>1. Head(fl) \in Range(fl)
      BY <2>2, RangeOf
    <3>2. c.next_free # Head(fl)
      BY <3>1, <1>3
    <3> QED
      BY <3>2, <2>2 DEF CursorAfterFree
  <2> QED
    BY <2>1, <2>2
<1> QED
  BY <1>1, <1>2, <1>3

\* Unlinking a zone leaves the others in their order.
LEMMA AfterRemoved ==
  ASSUME NEW ch, NEW n \in Nat, n = Len(ch), NEW i \in 1 .. n,
         NEW dh, Len(dh) = n - 1, RemovedAt(ch, n, i, dh),
         NEW a, a # ch[i], NEW b, b # ch[i]
  PROVE  After(dh, a, b) <=> After(ch, a, b)
<1>1. \A j \in 1 .. n - 1 : dh[j] = IF j < i THEN ch[j] ELSE ch[j + 1]
  BY DEF RemovedAt
<1>2. ASSUME After(dh, a, b) PROVE After(ch, a, b)
  <2>1. PICK j, k \in 1 .. n - 1 : j < k /\ dh[j] = a /\ dh[k] = b
    BY <1>2 DEF After
  <2>2. PICK p, q \in 1 .. n : /\ p = (IF j < i THEN j ELSE j + 1)
                               /\ q = (IF k < i THEN k ELSE k + 1)
    BY <2>1
  <2>3. p < q /\ ch[p] = a /\ ch[q] = b
    BY <2>1, <2>2, <1>1
  <2> QED
    BY <2>3 DEF After
<1>3. ASSUME After(ch, a, b) PROVE After(dh, a, b)
  <2>1. PICK j, k \in 1 .. n : j < k /\ ch[j] = a /\ ch[k] = b
    BY <1>3 DEF After
  <2>2. j # i /\ k # i
    BY <2>1
  <2>3. PICK p, q \in 1 .. n - 1 : /\ p = (IF j < i THEN j ELSE j - 1)
                                   /\ q = (IF k < i THEN k ELSE k - 1)
    BY <2>1, <2>2
  <2>4. p < q
    BY <2>1, <2>2, <2>3
  <2>5. dh[p] = ch[j] /\ dh[q] = ch[k]
    BY <2>1, <2>2, <2>3, <1>1
  <2> QED
    BY <2>1, <2>4, <2>5 DEF After
<1> QED
  BY <1>2, <1>3

\* The element of s that is freed is ahead no more.
LEMMA AheadFreed ==
  ASSUME NEW ch, NEW zs, GoodZones(zs), GoodChain(ch, zs), NEW s \in Slots, NEW v,
         v \in InUse(s, zs[s]), NEW c, CursorOk(ch, zs, c),
         NEW dh, NEW ys, NEW d, SamePlace(c, d),
         c.mz # NULL => \A t \in Slots : After(dh, c.mz, t) /\ InUse(t, ys[t]) # {}
                                          <=> After(ch, c.mz, t) /\ InUse(t, ys[t]) # {},
         InUse(s, ys[s]) = InUse(s, zs[s]) \ {v},
         \A t \in Slots \ {s} : ys[t] = zs[t]
  PROVE  Ahead(dh, ys, d) = Ahead(ch, zs, c) \ {v}
<1>1. \A t \in Slots : InUse(t, ys[t]) = InUse(t, zs[t]) \ {v}
  <2> TAKE t \in Slots
  <2>1. CASE t = s
    BY <2>1
  <2>2. CASE t # s
    <3>1. Span(s, zs[s]) \cap Span(t, zs[t]) = {}
      BY <2>2, SpansDisjoint DEF GoodZones
    <3>2. v \notin InUse(t, zs[t])
      BY <3>1 DEF InUse
    <3> QED
      BY <3>2, <2>2
  <2> QED
    BY <2>1, <2>2
<1>2. CASE c.mz = NULL
  BY <1>2 DEF Ahead, SamePlace
<1>3. CASE c.mz # NULL
  <2>1. c.mz \in Slots
    BY <1>3 DEF CursorOk, CursorType
  <2>2. Ahead(ch, zs, c) \ {v} =
          {e \in InUse(c.mz, ys[c.mz]) : e > c.last \/ e = c.next}
            \cup UNION {InUse(t, ys[t]) : t \in {u \in Slots : After(ch, c.mz, u)}}
    BY <1>1, <1>3, <2>1 DEF Ahead
  <2>3. Ahead(dh, ys, d) =
          {e \in InUse(c.mz, ys[c.mz]) : e > c.last \/ e = c.next}
            \cup UNION {InUse(t, ys[t]) : t \in {u \in Slots : After(dh, c.mz, u)}}
    BY <1>3 DEF Ahead, SamePlace
  <2>4. UNION {InUse(t, ys[t]) : t \in {u \in Slots : After(dh, c.mz, u)}}
          = UNION {InUse(t, ys[t]) : t \in {u \in Slots : After(ch, c.mz, u)}}
    BY <1>3
  <2> QED
    BY <2>2, <2>3, <2>4
<1> QED
  BY <1>2, <1>3

\* What a free does to a walk whose cursor has left the element.
LEMMA FreeWalks ==
  ASSUME ShelfInv, NEW s \in Range(chain), NEW v \in InUse(s, zone[s]), zone[s].used > 0,
         NEW c, CursorOk(chain, zone, c), c.next # v, c.mz # NULL => c.last # v,
         FreeInZone(s, v, c)
  PROVE  /\ CursorOk(chain', zone', cur') /\ SamePlace(c, cur')
         /\ Ahead(chain', zone', cur') = Ahead(chain, zone, c) \ {v}
<1> DEFINE fl == zone[s].free
<1>1. /\ GoodZones(zone) /\ GoodChain(chain, zone) /\ s \in Slots
      /\ \A t \in Slots : ZoneOK(t, zone[t])
  BY ChainFacts DEF ShelfInv, GoodZones
<1>2. /\ fl \in Seq(Nat) /\ Sorted(fl) /\ NULL \notin Range(fl)
      /\ Range(fl) \subseteq Span(s, zone[s]) /\ v \in Nat /\ v # NULL /\ v \notin Range(fl)
  BY <1>1, ZoneNumbers DEF InUse
<1>3. c \in CursorType /\ (c.next # NULL => c.next = c.last)
      /\ c.next_free \in Nat /\ c.last \in Nat
  BY DEF CursorOk, CursorType
<1>4. cur' = CursorAfterFree(c, s, fl, v)
  BY DEF FreeInZone
<1>5. \A t \in Slots \ {s} : Span(s, zone[s]) \cap Span(t, zone[t]) = {}
  BY <1>1, SpansDisjoint
\* A cursor in another zone.
<1>6. ASSUME c.mz # NULL, c.mz # s
      PROVE  /\ c.mz \in Slots \ {s} /\ c.mz \in Range(chain) /\ cur' = c
             /\ (c.last = NULL /\ c.next = NULL /\ c.mz = FirstSlot) \/ c.last \in InUse(c.mz, zone[c.mz])
             /\ Nearest(Range(zone[c.mz].free), c.last, c.next_free)
  <2>1. /\ c.mz \in Slots \ {s} /\ c.mz \in Range(chain)
        /\ (c.last = NULL /\ c.next = NULL /\ c.mz = FirstSlot) \/ c.last \in InUse(c.mz, zone[c.mz])
        /\ Nearest(Range(zone[c.mz].free), c.last, c.next_free)
    BY <1>3, <1>6 DEF CursorOk, Placed, CursorType
  <2>2. Range(zone[c.mz].free) \subseteq Span(c.mz, zone[c.mz])
    BY <2>1, <1>1 DEF ZoneOK
  <2>3. c.next_free \notin Range(fl)
    BY <2>1, <2>2, <1>2, <1>5 DEF Nearest
  <2>4. CursorAfterFree(c, s, fl, v) = c
    BY <2>3, <1>2, <1>3, <1>6, AfterFreeElsewhere
  <2> QED
    BY <2>1, <2>4, <1>4
<1>7. c.mz = NULL => SamePlace(c, cur')
  <2>1. c.mz = NULL => c.mz # s
    BY <1>1, ChainFacts
  <2> QED
    BY <2>1, <1>2, <1>3, <1>4, AfterFreeElsewhere
<1>8. CASE ~ Unlinks(s)
  <2> DEFINE y == FreedZone(s, v)
             gl == InsertAt(fl, InsertionPoint(fl, v), v)
  <2>1. chain' = chain /\ zone' = [zone EXCEPT ![s] = y]
    BY <1>8 DEF FreeInZone
  <2>2. ZoneFreed(s, zone[s], v, y) /\ y.free = gl
    <3>1. zone[s] \in [nb : 0 .. Stride - 1, used : Nat, free : Seq(Nat)]
      BY <1>1 DEF ZoneOK
    <3>2. y = [zone[s] EXCEPT !.free = gl, !.used = zone[s].used - 1]
      BY DEF FreedZone
    <3>3. ZoneFreed(s, zone[s], v, [zone[s] EXCEPT !.free = gl, !.used = zone[s].used - 1])
      BY <1>1, FreedOK
    <3> QED
      BY <3>1, <3>2, <3>3
  <2>3. Range(gl) = Range(fl) \cup {v}
    BY <1>2, FreedListSorted
  <2> HIDE DEF y, gl
  <2>4. /\ zone'[s] = y /\ \A t \in Slots \ {s} : zone'[t] = zone[t]
        /\ InUse(s, y) = InUse(s, zone[s]) \ {v}
    BY <2>1, <2>2, <1>1 DEF GoodZones, ZoneFreed
  <2>a. SamePlace(c, cur') => Ahead(chain', zone', cur') = Ahead(chain, zone, c) \ {v}
    <3>1. PICK dh, ys, d : dh = chain' /\ ys = zone' /\ d = cur'
      OBVIOUS
    <3>2. dh = chain /\ InUse(s, ys[s]) = InUse(s, zone[s]) \ {v}
          /\ \A t \in Slots \ {s} : ys[t] = zone[t]
      BY <3>1, <2>1, <2>4
    <3>3. SamePlace(c, d) => Ahead(dh, ys, d) = Ahead(chain, zone, c) \ {v}
      BY <3>2, <1>1, AheadFreed
    <3> QED
      BY <3>1, <3>3
  <2>5. CASE c.mz = s
    <3>1. /\ Nearest(Range(fl), c.last, c.next_free) /\ c.last # v
          /\ \/ c.last = NULL /\ c.next = NULL /\ c.mz = FirstSlot
             \/ c.last \in InUse(s, zone[s])
      BY <2>5, <1>1, ChainFacts DEF CursorOk, Placed
    <3>2. cur' = [c EXCEPT !.next_free = Nearer(c.last, c.next_free, v)]
      BY <3>1, <2>5, <1>2, <1>3, <1>4, AfterFreeHere
    <3>3. Nearer(c.last, c.next_free, v) \in Nat
      BY <1>2, <1>3 DEF Nearer
    <3>4. SamePlace(c, cur') /\ cur'.next_free = Nearer(c.last, c.next_free, v)
      BY <3>2, <3>3, <1>3, SetNextFree
    <3>5. Nearest(Range(gl), c.last, cur'.next_free)
      <4>1. Range(fl) \in SUBSET Nat
        BY <1>2, RangeOf
      <4>2. Nearest(Range(fl) \cup {v}, c.last, Nearer(c.last, c.next_free, v))
        BY <4>1, <3>1, <1>2, <1>3, NearestFreed
      <4> QED
        BY <4>2, <3>4, <2>3
    <3>6. Placed(chain', zone', cur')
      BY <3>1, <3>4, <3>5, <2>1, <2>2, <2>4, <2>5 DEF Placed, SamePlace
    <3>7. CursorOk(chain', zone', cur')
      BY <3>4, <3>6, <1>3, <2>5, <1>1, ChainFacts DEF CursorOk, SamePlace
    <3> QED
      BY <3>4, <3>7, <2>a
  <2>6. CASE c.mz # s
    <3>1. SamePlace(c, cur')
      BY <1>3, <1>6, <1>7, <2>6 DEF SamePlace
    <3>2. c.mz # NULL => Placed(chain', zone', cur')
      BY <1>6, <2>1, <2>4, <2>6 DEF Placed
    <3>3. CursorOk(chain', zone', cur')
      BY <3>1, <3>2, <1>3 DEF CursorOk, SamePlace
    <3> QED
      BY <3>1, <3>3, <2>a
  <2> QED
    BY <2>5, <2>6
<1>9. CASE Unlinks(s)
  <2> DEFINE i == PlaceOf(s)
  <2>1. /\ zone[s].used = 1 /\ s # FirstSlot
        /\ chain' = RemoveAt(chain, i) /\ zone' = [zone EXCEPT ![s] = NoZone]
    BY <1>9 DEF FreeInZone, Unlinks
  <2>2. i \in 1 .. Len(chain) /\ chain[i] = s
    BY <1>1, ChainFacts DEF PlaceOf
  <2> HIDE DEF i
  <2>3. PICK dh : dh = chain'
    OBVIOUS
  <2>4. /\ chain \in Seq(Slots) /\ Len(chain) \in Nat /\ NoRepeat(chain) /\ chain[1] = FirstSlot
        /\ Range(chain) \subseteq Slots
    BY <1>1, ChainFacts
  <2>5. /\ Len(dh) = Len(chain) - 1 /\ RemovedAt(chain, Len(chain), i, dh)
        /\ Range(dh) = Range(chain) \ {s}
    BY <2>1, <2>2, <2>3, <2>4, RemoveAtExact, RemoveOld
  <2>6. InUse(s, zone[s]) = {v} /\ InUse(s, NoZone) = {}
    BY <2>1, <1>1, LastInUse, NoZoneOK
  <2>7. /\ zone'[s] = NoZone /\ \A t \in Slots \ {s} : zone'[t] = zone[t]
    BY <2>1, <1>1 DEF GoodZones
  <2>8. c.mz # s
    <3> SUFFICES ASSUME c.mz = s PROVE FALSE
      OBVIOUS
    <3>1. c.last # v /\ (c.mz = FirstSlot \/ c.last \in {v})
      BY <2>6, <1>1, ChainFacts DEF CursorOk, Placed
    <3> QED
      BY <3>1, <2>1
  <2>9. SamePlace(c, cur')
    BY <2>8, <1>3, <1>6, <1>7 DEF SamePlace
  <2>10. c.mz # NULL => Placed(dh, zone', cur')
    BY <1>6, <2>5, <2>7, <2>8 DEF Placed
  <2>11. CursorOk(dh, zone', cur')
    BY <2>9, <2>10, <1>3 DEF CursorOk, SamePlace
  <2>12. ASSUME c.mz # NULL, NEW t \in Slots, t # s
         PROVE  After(dh, c.mz, t) <=> After(chain, c.mz, t)
    BY <2>12, <2>2, <2>4, <2>5, <2>8, AfterRemoved
  <2>13. InUse(s, zone'[s]) = {}
    BY <2>6, <2>7
  <2>14. Ahead(dh, zone', cur') = Ahead(chain, zone, c) \ {v}
    <3>1. PICK ys, d : ys = zone' /\ d = cur'
      OBVIOUS
    <3>2. InUse(s, ys[s]) = InUse(s, zone[s]) \ {v} /\ InUse(s, ys[s]) = {}
      BY <3>1, <2>6, <2>13
    <3>3. c.mz # NULL => \A t \in Slots : After(dh, c.mz, t) /\ InUse(t, ys[t]) # {}
                                           <=> After(chain, c.mz, t) /\ InUse(t, ys[t]) # {}
      BY <3>2, <2>12
    <3>4. SamePlace(c, d) /\ \A t \in Slots \ {s} : ys[t] = zone[t]
      BY <3>1, <2>7, <2>9
    <3>5. Ahead(dh, ys, d) = Ahead(chain, zone, c) \ {v}
      BY <3>2, <3>3, <3>4, <1>1, AheadFreed
    <3> QED
      BY <3>1, <3>5
  <2> QED
    BY <2>3, <2>9, <2>11, <2>14
<1> QED
  BY <1>8, <1>9

-----------------------------------------------------------------------------
(***************************************************************************)
(* The counters of the zones add up to that of the shelf, which            *)
(* all_memzone_del asserts.                                                *)
(***************************************************************************)
UsedIn(zs) == [s \in Slots |-> zs[s].used]

CountsAdd == total_used = SumOf(UsedIn(zone), Range(chain))

LEMMA UsedFacts ==
  ASSUME NEW ch, NEW zs, GoodZones(zs), GoodChain(ch, zs)
  PROVE  /\ IsFiniteSet(Range(ch)) /\ Range(ch) \subseteq Slots
         /\ \A s \in Slots : UsedIn(zs)[s] = zs[s].used /\ UsedIn(zs)[s] \in Int
<1>1. ch \in Seq(Slots) /\ NoRepeat(ch) /\ Range(ch) \subseteq Slots
  BY ChainFacts
<1>2. IsFiniteSet(Range(ch))
  BY <1>1, NoRepeatCardinality
<1>3. \A s \in Slots : zs[s].used \in Int
  BY DEF GoodZones
<1> QED
  BY <1>1, <1>2, <1>3 DEF UsedIn

\* The model's sum is that of CommonLemmas.
LEMMA UsedSumIs ==
  ASSUME GoodZones(zone), GoodChain(chain, zone)
  PROVE  UsedSum = SumOf(UsedIn(zone), Range(chain))
<1> DEFINE f == UsedIn(zone)
           S == Range(chain)
           B(s, g) == IF s = {} THEN 0
                      ELSE LET x == CHOOSE y \in s : TRUE IN zone[x].used + g[s \ {x}]
<1>1. UsedSum = (CHOOSE g : g = [s \in SUBSET S |-> B(s, g)])[S]
  BY DEF UsedSum, MapThenSumSet, MapThenFoldSet
<1>0. IsFiniteSet(S) /\ S \subseteq Slots /\ \A s \in Slots : f[s] = zone[s].used
  BY UsedFacts
<1> HIDE DEF f, S
<1>2. ASSUME NEW s \in SUBSET S, NEW g PROVE B(s, g) = Added(f, s, g)
  <2>1. CASE s = {}
    BY <2>1 DEF Added
  <2>2. CASE s # {}
    <3>1. (CHOOSE y \in s : TRUE) \in s
      BY <2>2
    <3> QED
      BY <3>1, <2>2, <1>0 DEF Added
  <2> QED
    BY <2>1, <2>2
<1> HIDE DEF B
<1>3. \A g : (g = [s \in SUBSET S |-> B(s, g)]) <=> Adds(f, S, g)
  BY <1>2 DEF Adds
<1>4. \E g : Adds(f, S, g)
  BY <1>0, AddsExists
<1>5. PICK g : g = [s \in SUBSET S |-> B(s, g)] /\ UsedSum = g[S]
  BY <1>1, <1>3, <1>4
<1>6. UsedSum = SumOf(f, S)
  BY <1>0, <1>3, <1>5, SumIs
<1> QED
  BY <1>6 DEF f, S

LEMMA FreshCounts ==
  SumOf(UsedIn(FreshZones), Range(<<FirstSlot>>)) = 0
<1>1. FirstSlot \in Slots /\ FreshZones[FirstSlot].used = 0
  BY ShelfAssumption DEF FreshZones, EmptyZone
<1>2. Range(<<FirstSlot>>) = {FirstSlot}
  BY DEF Range
<1>9. IsFiniteSet({FirstSlot})
  BY FS_Singleton
<1>3. PICK f : f = UsedIn(FreshZones)
  OBVIOUS
<1>4. f[FirstSlot] = 0
  BY <1>1, <1>3 DEF UsedIn
<1>5. {FirstSlot} \ {FirstSlot} = {} /\ SumOf(f, {}) = 0
  BY SumEmpty
<1>6. SumOf(f, {FirstSlot}) = f[FirstSlot] + SumOf(f, {FirstSlot} \ {FirstSlot})
  BY <1>4, <1>9, SumStep
<1> QED
  BY <1>2, <1>3, <1>4, <1>5, <1>6

LEMMA AllocCounts ==
  ASSUME ShelfInv, CountsAdd, Alloc
  PROVE  CountsAdd'
<1>1. GoodZones(zone) /\ GoodChain(chain, zone)
  BY DEF ShelfInv
<1>2. ShelfInv'
  BY InvAllocInZone, InvAllocNewZone DEF Alloc
<1>3. GoodZones(zone') /\ GoodChain(chain', zone')
  BY <1>2 DEF ShelfInv
<1>4. PICK f, g, S, T : /\ f = UsedIn(zone) /\ g = UsedIn(zone')
                        /\ S = Range(chain) /\ T = Range(chain')
  OBVIOUS
<1>5. /\ IsFiniteSet(S) /\ S \subseteq Slots
      /\ \A s \in Slots : f[s] = zone[s].used /\ f[s] \in Int
      /\ \A s \in Slots : g[s] = zone'[s].used /\ g[s] \in Int
      /\ total_used = SumOf(f, S) /\ SumOf(f, S) \in Int
  <2>1. /\ IsFiniteSet(S) /\ S \subseteq Slots
        /\ \A s \in Slots : f[s] = zone[s].used /\ f[s] \in Int
    BY <1>1, <1>4, UsedFacts
  <2>2. \A s \in Slots : g[s] = zone'[s].used /\ g[s] \in Int
    BY <1>3, <1>4, UsedFacts
  <2> QED
    BY <2>1, <2>2, <1>4, SumInt DEF CountsAdd
<1>8. SumOf(g, T) = total_used' => CountsAdd'
  BY <1>4 DEF CountsAdd
<1>6. CASE AllocInZone
  <2> DEFINE s == AllocZone
  <2>1. /\ s \in Slots /\ s \in S /\ Take(zone, s) /\ chain' = chain
    BY <1>4, <1>6, AllocZoneExact DEF AllocInZone
  <2> HIDE DEF s
  <2>2. /\ zone' = [zone EXCEPT ![s].free = Tail(@), ![s].used = @ + 1]
        /\ total_used' = total_used + 1
    BY <2>1 DEF Take
  <2>3. zone'[s].used = zone[s].used + 1 /\ \A t \in Slots \ {s} : zone'[t] = zone[t]
    BY <2>1, <2>2, <1>1 DEF GoodZones
  <2>4. \A t \in S \ {s} : g[t] = f[t]
    BY <2>3, <1>5
  <2>5. SumOf(g, S) = SumOf(f, S) - f[s] + g[s]
    BY <2>1, <2>4, <1>5, SumChanged
  <2>6. g[s] = f[s] + 1 /\ f[s] \in Int /\ T = S
    BY <2>1, <2>3, <1>4, <1>5
  <2>7. SumOf(g, T) = SumOf(f, S) + 1
    BY <2>5, <2>6, <1>5
  <2> QED
    BY <2>2, <2>7, <1>5, <1>8
<1>7. ASSUME NEW s \in Slots, AllocNewZone(s) PROVE CountsAdd'
  <2> DEFINE n == NewSize(zone[AllocZone].nb)
             zs == [zone EXCEPT ![s] = EmptyZone(s, n)]
  <2>1. s \notin Range(chain) /\ chain' = Append(chain, s) /\ Take(zs, s)
    BY <1>7 DEF AllocNewZone
  <2>2. /\ zs[s].used = 0 /\ zs[s] = EmptyZone(s, n)
        /\ \A t \in Slots \ {s} : zs[t] = zone[t]
        /\ DOMAIN zs = Slots
    BY <1>1 DEF GoodZones, EmptyZone
  <2> HIDE DEF zs, n
  <2>3. /\ zone' = [zs EXCEPT ![s].free = Tail(@), ![s].used = @ + 1]
        /\ total_used' = total_used + 1
    BY <2>1 DEF Take
  <2>4. zone'[s].used = 1 /\ \A t \in Slots \ {s} : zone'[t] = zs[t]
    BY <2>2, <2>3 DEF EmptyZone
  <2>5. \A t \in S : g[t] = f[t]
    BY <2>1, <2>2, <2>4, <1>4, <1>5
  <2>6. SumOf(g, S) = SumOf(f, S)
    BY <2>5, <1>5, SumSame
  <2>7. T = S \cup {s}
    BY <2>1, <1>1, <1>4, ChainFacts, AppendExact
  <2>8. s \notin S /\ (\A t \in S : g[t] \in Int) /\ g[s] = 1
    BY <2>1, <2>4, <1>4, <1>5
  <2>9. SumOf(g, S \cup {s}) = g[s] + SumOf(g, S)
    BY <2>8, <1>5, SumWith
  <2>10. SumOf(g, T) = SumOf(f, S) + 1
    BY <2>6, <2>7, <2>8, <2>9, <1>5
  <2> QED
    BY <2>3, <2>10, <1>5, <1>8
<1> QED
  BY <1>6, <1>7 DEF Alloc

\* A zone with an element in use has a counter that says so (line 182).
LEMMA InUseCounted ==
  ASSUME NEW s \in Slots, NEW z, ZoneOK(s, z), NEW v \in InUse(s, z)
  PROVE  z.used > 0
<1>1. /\ z.used + Len(z.free) = z.nb /\ z.used \in Nat
      /\ Sorted(z.free) /\ Range(z.free) \subseteq Span(s, z)
      /\ z.free \in Seq(Nat) /\ z.nb \in Nat
      /\ s \in Nat /\ Len(z.free) \in Nat
  BY SlotsAreNat, ShelfAssumption DEF ZoneOK
<1>2. IsFiniteSet(Range(z.free)) /\ Cardinality(Range(z.free)) = Len(z.free)
  BY <1>1, SortedCardinality
<1>3. IsFiniteSet(Span(s, z)) /\ Cardinality(Span(s, z)) = z.nb
  <2>1. s \in Int /\ s + z.nb - 1 \in Int
    BY <1>1
  <2>2. IsFiniteSet(s .. s + z.nb - 1)
        /\ Cardinality(s .. s + z.nb - 1) =
             IF s > s + z.nb - 1 THEN 0 ELSE (s + z.nb - 1) - s + 1
    BY <2>1, FS_Interval
  <2> QED
    BY <2>2, <1>1 DEF Span
<1>4. v \in Span(s, z) /\ v \notin Range(z.free)
  BY DEF InUse
<1>5. Range(z.free) # Span(s, z)
  BY <1>4
<1>6. Cardinality(Range(z.free)) # Cardinality(Span(s, z))
  BY <1>1, <1>3, <1>5, FS_Subset
<1> QED
  BY <1>1, <1>2, <1>3, <1>6

\* cntShelf_free takes one from the counters, or unlinks the zone that had one.
LEMMA FreeCounts ==
  ASSUME ShelfInv, CountsAdd, NEW s \in Range(chain), NEW v \in InUse(s, zone[s]),
         zone[s].used > 0, NEW c \in CursorType, FreeInZone(s, v, c)
  PROVE  CountsAdd'
<1>1. GoodZones(zone) /\ GoodChain(chain, zone) /\ s \in Slots
  BY ChainFacts DEF ShelfInv
<1>2. ShelfInv'
  <2>1. v \in Data(zone, s) /\ v \notin Range(zone[s].free)
    BY DEF InUse, Span, Data
  <2> QED
    BY <2>1, InvFreeInZone
<1>3. GoodZones(zone') /\ GoodChain(chain', zone')
  BY <1>2 DEF ShelfInv
<1>4. PICK f, g, S, T : /\ f = UsedIn(zone) /\ g = UsedIn(zone')
                        /\ S = Range(chain) /\ T = Range(chain')
  OBVIOUS
<1>5. /\ IsFiniteSet(S) /\ S \subseteq Slots /\ s \in S
      /\ \A t \in Slots : f[t] = zone[t].used /\ f[t] \in Int
      /\ \A t \in Slots : g[t] = zone'[t].used /\ g[t] \in Int
      /\ total_used = SumOf(f, S) /\ SumOf(f, S) \in Int
  <2>1. /\ IsFiniteSet(S) /\ S \subseteq Slots
        /\ \A t \in Slots : f[t] = zone[t].used /\ f[t] \in Int
    BY <1>1, <1>4, UsedFacts
  <2>2. \A t \in Slots : g[t] = zone'[t].used /\ g[t] \in Int
    BY <1>3, <1>4, UsedFacts
  <2> QED
    BY <2>1, <2>2, <1>4, SumInt DEF CountsAdd
<1>6. SumOf(g, T) = total_used' => CountsAdd'
  BY <1>4 DEF CountsAdd
<1>7. total_used' = total_used - 1
  BY DEF FreeInZone
<1>8. CASE Unlinks(s)
  <2>1. zone' = [zone EXCEPT ![s] = NoZone] /\ chain' = RemoveAt(chain, PlaceOf(s))
        /\ f[s] = 1
    BY <1>1, <1>5, <1>8 DEF FreeInZone, Unlinks
  <2>2. \A t \in S \ {s} : g[t] = f[t]
    BY <2>1, <1>1, <1>5 DEF GoodZones
  <2>3. T = S \ {s}
    <3>1. chain \in Seq(Slots) /\ NoRepeat(chain)
      BY <1>1, ChainFacts
    <3>2. PlaceOf(s) \in 1 .. Len(chain) /\ chain[PlaceOf(s)] = s
      BY <1>1, ChainFacts DEF PlaceOf
    <3> QED
      BY <3>1, <3>2, <2>1, <1>4, RemoveOld
  <2>4. IsFiniteSet(T)
    BY <2>3, <1>5, FS_RemoveElement
  <2>5. SumOf(f, S) = f[s] + SumOf(f, T) /\ SumOf(f, T) \in Int
    BY <2>3, <1>5, SumStep
  <2>6. SumOf(g, T) = SumOf(f, T)
    BY <2>2, <2>3, <2>4, SumSame
  <2> QED
    BY <2>1, <2>5, <2>6, <1>5, <1>6, <1>7
<1>9. CASE ~Unlinks(s)
  <2>1. zone' = [zone EXCEPT ![s] = FreedZone(s, v)] /\ chain' = chain
    BY <1>9 DEF FreeInZone
  <2>2. /\ zone'[s] = FreedZone(s, v) /\ FreedZone(s, v).used = zone[s].used - 1
        /\ \A t \in Slots \ {s} : zone'[t] = zone[t]
    BY <2>1, <1>1 DEF FreedZone, GoodZones, ZoneOK
  <2>3. (\A t \in S \ {s} : g[t] = f[t]) /\ g[s] = f[s] - 1
    BY <2>2, <1>1, <1>5
  <2>6. T = S
    BY <2>1, <1>4
  <2>5. f[s] \in Int /\ g[s] \in Int /\ \A t \in S : f[t] \in Int
    BY <1>5
  <2>4. SumOf(g, S) = SumOf(f, S) - f[s] + g[s]
    BY <2>3, <2>5, <1>5, SumChanged
  <2> QED
    BY <2>3, <2>4, <2>5, <2>6, <1>5, <1>6, <1>7
<1> QED
  BY <1>8, <1>9

\* A free of an element in use, with a cursor that holds: it is freed, by the
\* cursor that cntShelf_free has moved on first.
LEMMA FreeIs ==
  ASSUME ShelfInv, CountsAdd, NEW v \in held, Free(v),
         LeaveElement(cur, v).status = "ok", LeaveElement(cur, v).cur \in CursorType
  PROVE  \E s \in Range(chain) : /\ v \in InUse(s, zone[s]) /\ zone[s].used > 0
                                 /\ FreeInZone(s, v, LeaveElement(cur, v).cur)
<1>1. GoodZones(zone) /\ GoodChain(chain, zone) /\ held = UseOf(zone)
  BY DEF ShelfInv
<1>2. total_used > 0
  BY FS_EmptySet, FS_CardinalityType DEF ShelfInv
<1>3. \A s \in Range(chain) : /\ s \in Slots /\ ZoneOK(s, zone[s])
                              /\ Data(zone, s) \ Range(zone[s].free) = InUse(s, zone[s])
  BY <1>1, ChainFacts DEF GoodZones, Data, InUse, Span
<1>4. PICK t \in Range(chain) : v \in InUse(t, zone[t])
  BY <1>1, <1>3, UseOnChain
<1>5. zone[t].used > 0
  BY <1>3, <1>4, InUseCounted
<1>6. \A s \in Range(chain) : v \in Data(zone, s) => s = t
  <2> SUFFICES ASSUME NEW s \in Range(chain), v \in Data(zone, s), s # t PROVE FALSE
    OBVIOUS
  <2>1. v \in Span(s, zone[s]) /\ v \in Span(t, zone[t])
    BY <1>4 DEF Data, Span, InUse
  <2> QED
    BY <2>1, <1>3, <1>4, SpansDisjoint
<1>7. {s \in Range(chain) : v \in Data(zone, s)} = {t} /\ v \notin Range(zone[t].free)
  BY <1>3, <1>4, <1>6
<1> DEFINE k == LeaveElement(cur, v)
           home == {s \in Range(chain) : v \in Data(zone, s)}
<1>8. \/ home = {} \/ \E s \in home : \/ zone[s].used = 0 \/ v \in Range(zone[s].free)
                                      \/ FreeInZone(s, v, k.cur)
  BY <1>2 DEF Free
<1> QED
  BY <1>4, <1>5, <1>7, <1>8

-----------------------------------------------------------------------------
(***************************************************************************)
(* The invariant of a walk.  The counters add up, so that no assert fails; *)
(* and once the cursor was reset it is always on an element in use, or at  *)
(* the start or the end of the chain, what the walk owes is ahead of it,   *)
(* and what the walk has returned is not.                                  *)
(***************************************************************************)
AheadNow == Ahead(chain, zone, cur)

SeenHeld == seen \in Seq(Address) /\ NoRepeat(seen) /\ Range(seen) \subseteq held

OnCourse == /\ CursorOk(chain, zone, cur)
            /\ due \subseteq AheadNow /\ Range(seen) \cap AheadNow = {}

WalkInv ==
  /\ ShelfInv /\ CountsAdd /\ status = "ok"
  /\ SeenHeld
  /\ armed => OnCourse
  /\ ~armed => due = {} /\ seen = <<>>

More == armed /\ cur.next # NULL
Over == armed /\ cur.mz = NULL /\ cur.next = NULL

\* What is ahead is in the shelf; what is fetched is ahead.
LEMMA AheadHeld ==
  ASSUME ShelfInv, CursorOk(chain, zone, cur)
  PROVE  /\ AheadNow \subseteq held
         /\ cur.next # NULL => cur.next \in AheadNow /\ cur.mz # NULL
         /\ cur.mz = NULL => AheadNow = {} /\ cur.next = NULL
<1>1. GoodZones(zone) /\ GoodChain(chain, zone) /\ held = UseOf(zone)
  BY DEF ShelfInv
<1>2. AheadNow \subseteq held
  <2>1. cur.mz # NULL => cur.mz \in Slots
    BY DEF CursorOk, CursorType
  <2>2. \A s \in Slots : InUse(s, zone[s]) \subseteq held
    BY <1>1 DEF UseOf
  <2> QED
    BY <2>1, <2>2 DEF AheadNow, Ahead
<1>3. ASSUME cur.next # NULL PROVE cur.next \in AheadNow /\ cur.mz # NULL
  <2>1. cur.next = cur.last /\ cur.mz # NULL /\ Placed(chain, zone, cur)
    BY <1>3 DEF CursorOk
  <2>2. cur.next \in InUse(cur.mz, zone[cur.mz])
    BY <2>1, <1>3 DEF Placed
  <2> QED
    BY <2>1, <2>2 DEF AheadNow, Ahead
<1>4. cur.mz = NULL => AheadNow = {} /\ cur.next = NULL
  BY <1>3 DEF AheadNow, Ahead
<1> QED
  BY <1>2, <1>3, <1>4

\* A fresh shelf, and a cursor that was reset.
LEMMA FreshWalk ==
  ASSUME ShelfInv', chain' = <<FirstSlot>>, zone' = FreshZones, total_used' = 0,
         held' = {}, armed' = FALSE, status' = "ok", due' = {}, seen' = <<>>
  PROVE  WalkInv'
<1>1. CountsAdd'
  <2>1. PICK n : n = SumOf(UsedIn(zone'), Range(chain'))
    OBVIOUS
  <2>2. n = 0
    BY <2>1, FreshCounts
  <2> QED
    BY <2>1, <2>2 DEF CountsAdd
<1>2. SeenHeld'
  BY DEF SeenHeld, NoRepeat, Range
<1> QED
  BY <1>1, <1>2 DEF WalkInv

LEMMA ResetAhead ==
  ASSUME ShelfInv, Reset
  PROVE  /\ CursorOk(chain, zone, cur') /\ Ahead(chain, zone, cur') = held
         /\ cur'.mz # NULL /\ cur'.next = NULL
<1>1. /\ GoodZones(zone) /\ GoodChain(chain, zone) /\ held = UseOf(zone)
      /\ FirstSlot \in Slots
  BY ShelfAssumption DEF ShelfInv
<1>2. PICK c : c = cur'
  OBVIOUS
<1>3. c = [mz |-> FirstSlot, next_free |-> FirstFree(zone, FirstSlot),
           last |-> NULL, next |-> NULL]
  BY <1>2 DEF Reset
<1>4. /\ Len(chain) \in Nat /\ Len(chain) > 0 /\ chain[1] = FirstSlot
      /\ FirstSlot \in Range(chain) /\ FirstSlot # NULL /\ ZoneOK(FirstSlot, zone[FirstSlot])
      /\ \A s : s \in Range(chain) <=> \E j \in 1 .. Len(chain) : chain[j] = s
      /\ \A j \in 1 .. Len(chain) : chain[j] \in Slots /\ ZoneOK(chain[j], zone[chain[j]])
  <2>1. /\ Len(chain) \in Nat /\ Len(chain) > 0 /\ chain[1] = FirstSlot
        /\ \A s : s \in Range(chain) <=> \E j \in 1 .. Len(chain) : chain[j] = s
        /\ \A j \in 1 .. Len(chain) : chain[j] \in Slots /\ ZoneOK(chain[j], zone[chain[j]])
        /\ FirstSlot # NULL
    BY <1>1, ChainFacts
  <2>2. 1 \in 1 .. Len(chain)
    BY <2>1
  <2> QED
    BY <2>1, <2>2
<1>5. CursorOk(chain, zone, c)
  <2>1. NULL \in Nat /\ FirstSlot \in Nat /\ NULL < FirstSlot
    BY <1>1, SlotsAreNat DEF NULL
  <2>2. /\ FirstFree(zone, FirstSlot) \in Nat
        /\ Nearest(Range(zone[FirstSlot].free), NULL, FirstFree(zone, FirstSlot))
    BY <2>1, <1>1, <1>4, FirstFreeNearest
  <2>3. c \in CursorType
    BY <2>1, <2>2, <1>1, <1>3 DEF CursorType
  <2>4. /\ c.mz = FirstSlot /\ c.last = NULL /\ c.next = NULL
        /\ c.next_free = FirstFree(zone, FirstSlot)
    BY <1>3
  <2> QED
    BY <2>2, <2>3, <2>4, <1>4 DEF CursorOk, Placed
<1>6. \A e : e \in Ahead(chain, zone, c) <=> e \in held
  <2> TAKE e
  <2>1. /\ c.mz = chain[1] /\ c.last = NULL /\ c.next = NULL /\ 1 \in 1 .. Len(chain)
        /\ c.mz = FirstSlot
    BY <1>3, <1>4
  <2>2. e \in Ahead(chain, zone, c) <=>
          \E m \in 1 .. Len(chain) : /\ e \in InUse(chain[m], zone[chain[m]])
                                     /\ m > 1 \/ e > c.last \/ e = c.next
    BY <2>1, <1>1, AheadIs
  <2>3. \A m \in 1 .. Len(chain) : e \in InUse(chain[m], zone[chain[m]]) => e > c.last
    BY <2>1, <1>4, ZoneNumbers DEF NULL
  <2>4. e \in held <=> \E s \in Range(chain) : e \in InUse(s, zone[s])
    <3>1. \A s \in Range(chain) : Data(zone, s) \ Range(zone[s].free) = InUse(s, zone[s])
      BY DEF Data, InUse, Span
    <3> QED
      BY <3>1, <1>1, UseOnChain
  <2> QED
    BY <2>2, <2>3, <2>4, <1>4
<1>7. Ahead(chain, zone, c) = held
  BY <1>6
<1>8. c.mz # NULL /\ c.next = NULL
  BY <1>3, <1>4
<1> QED
  BY <1>2, <1>5, <1>7, <1>8

-----------------------------------------------------------------------------
(***************************************************************************)
(* The steps, each with what it is for the walk that shelf.h promises.     *)
(***************************************************************************)
LEMMA WalkAlloc ==
  ASSUME WalkInv, CursorAlloc
  PROVE  /\ WalkInv' /\ UNCHANGED <<armed, due, seen>>
         /\ \E h \in Address \ held : held' = held \cup {h}
         /\ armed => cur'.mz = cur.mz /\ cur'.next = cur.next
<1>1. ShelfInv /\ CountsAdd /\ Alloc /\ UNCHANGED <<due, seen>>
  BY DEF WalkInv, CursorAlloc
<1>2. ShelfInv' /\ \E h \in Address \ held : held' = held \cup {h}
  BY <1>1, InvAllocInZone, InvAllocNewZone DEF Alloc
<1>3. CountsAdd'
  BY <1>1, AllocCounts
<1>4. UNCHANGED <<armed, status>>
  BY <1>1 DEF Alloc, AllocInZone, AllocNewZone, Take
<1>5. SeenHeld'
  BY <1>1, <1>2 DEF WalkInv, SeenHeld, NoRepeat
<1>6. ASSUME armed PROVE OnCourse' /\ SamePlace(cur, cur')
  <2>1. OnCourse /\ SeenHeld
    BY <1>6 DEF WalkInv
  <2>2. /\ CursorOk(chain', zone', cur') /\ SamePlace(cur, cur')
        /\ \E h \in Address \ held : Grows(AheadNow, AheadNow', h)
    BY <2>1, <1>1, AllocWalks DEF OnCourse, AheadNow
  <2>3. due \subseteq AheadNow' /\ Range(seen) \cap AheadNow' = {}
    BY <2>1, <2>2 DEF OnCourse, SeenHeld, Grows
  <2> QED
    BY <2>2, <2>3, <1>1 DEF OnCourse
<1> QED
  BY <1>1, <1>2, <1>3, <1>4, <1>5, <1>6 DEF WalkInv, SamePlace

\* An element in use is freed in its zone, whatever cntShelf_free does first.
LEMMA WalkFree ==
  ASSUME WalkInv, NEW v \in held, CarefulFree(v)
  PROVE  /\ WalkInv' /\ UNCHANGED armed
         /\ held' = held \ {v} /\ due' = due \ {v} /\ seen' = RemoveFirst(seen, v)
         /\ Over => Over'
         /\ More => More'
<1>1. /\ ShelfInv /\ CountsAdd /\ status = "ok" /\ SeenHeld
      /\ GoodZones(zone) /\ GoodChain(chain, zone)
      /\ Free(v) /\ v # cur.next /\ (armed \/ cur = NoCursor)
      /\ due' = due \ {v} /\ seen' = RemoveFirst(seen, v)
  BY DEF WalkInv, ShelfInv, CarefulFree, FreeUnfetched, FreeWalked
<1>2. v # NULL
  <2>1. v \in Address
    BY <1>1, InvImplies DEF TypeOK
  <2> QED
    BY <2>1, ShelfAssumption DEF Address, NULL
<1>3. PICK k : k = LeaveElement(cur, v)
  OBVIOUS
<1>4. k.status = "ok" /\ k.cur \in CursorType /\ (armed => Leaves(cur, v, k))
  <2>1. CASE armed
    BY <2>1, <1>1, <1>2, <1>3, LeaveExact DEF WalkInv, OnCourse, Leaves, CursorOk
  <2>2. CASE ~armed
    <3>1. cur.last = NULL /\ cur.next = NULL /\ cur \in CursorType
      BY <2>2, <1>1 DEF NoCursor, ShelfInv
    <3> QED
      BY <3>1, <2>2, <1>2, <1>3 DEF LeaveElement
  <2> QED
    BY <2>1, <2>2
<1>5. PICK s \in Range(chain) : /\ v \in InUse(s, zone[s]) /\ zone[s].used > 0
                                /\ FreeInZone(s, v, k.cur)
  BY <1>1, <1>3, <1>4, FreeIs
<1>6. ShelfInv' /\ held' = held \ {v} /\ CountsAdd'
  <2>1. v \in Data(zone, s) /\ v \notin Range(zone[s].free)
    BY <1>5 DEF InUse, Span, Data
  <2> QED
    BY <2>1, <1>1, <1>4, <1>5, InvFreeInZone, FreeCounts
<1>7. UNCHANGED <<armed, status>>
  BY <1>5 DEF FreeInZone
<1>8. SeenHeld'
  BY <1>1, <1>6, RemoveFirstExact DEF SeenHeld
<1>9. ASSUME armed PROVE /\ CursorOk(chain', zone', cur') /\ SamePlace(k.cur, cur')
                         /\ AheadNow' = AheadNow \ {v}
  BY <1>1, <1>4, <1>5, <1>9, FreeWalks DEF Leaves, AheadNow
<1>10. ASSUME armed PROVE OnCourse'
  <2>1. OnCourse /\ Range(seen') = Range(seen) \ {v}
    BY <1>1, <1>10, RemoveFirstExact DEF WalkInv, SeenHeld
  <2> QED
    BY <2>1, <1>1, <1>9, <1>10 DEF OnCourse
<1>11. ASSUME ~armed PROVE due' = {} /\ seen' = <<>>
  <2>1. due = {} /\ seen = <<>>
    BY <1>11 DEF WalkInv
  <2>2. RemoveFirst(<<>>, v) = <<>>
    BY DEF RemoveFirst
  <2> QED
    BY <2>1, <2>2, <1>1
<1>12. WalkInv'
  BY <1>1, <1>6, <1>7, <1>8, <1>10, <1>11 DEF WalkInv
<1>13. (Over => Over') /\ (More => More')
  BY <1>4, <1>7, <1>9 DEF Over, More, Leaves, SamePlace
<1> QED
  BY <1>1, <1>6, <1>7, <1>12, <1>13

LEMMA WalkEach ==
  ASSUME WalkInv, CursorEach
  PROVE  /\ WalkInv' /\ armed /\ UNCHANGED <<held, armed>>
         /\ LET e == EachResult(cur).ret
            IN  \/ /\ e = NULL /\ UNCHANGED <<due, seen>>
                   /\ due = {} /\ ~More /\ ~More' /\ Over'
                \/ /\ e \in held \ Range(seen) /\ ~Over /\ ~More' /\ ~Over'
                   /\ due' = due \ {e} /\ seen' = Append(seen, e)
<1>1. /\ ShelfInv /\ CountsAdd /\ SeenHeld /\ OnCourse /\ CursorOk(chain, zone, cur)
      /\ GoodZones(zone) /\ GoodChain(chain, zone)
  BY DEF WalkInv, ShelfInv, CursorEach, Each, OnCourse
<1>2. PICK r : r = EachResult(cur)
  OBVIOUS
<1>3. EachDone(cur, r)
  BY <1>1, <1>2, EachExact
<1>4. /\ armed /\ cur' = r.cur /\ status' = r.status
      /\ UNCHANGED <<chain, zone, total_used, held, armed>>
      /\ due' = due \ {r.ret} /\ seen' = IF r.ret = NULL THEN seen ELSE Append(seen, r.ret)
  BY <1>2 DEF CursorEach, Each, MoveTo
<1>5. ShelfInv' /\ CountsAdd'
  <2>1. Walk
    BY DEF CursorEach, Walk
  <2> QED
    BY <2>1, <1>1, <1>4, InvWalk DEF CountsAdd
<1>6. /\ AheadNow \subseteq held
      /\ cur.next # NULL => cur.next \in AheadNow
      /\ cur.mz = NULL => AheadNow = {}
  BY <1>1, AheadHeld
<1>7. AheadNow' = Ahead(chain, zone, r.cur)
  BY <1>4 DEF AheadNow
<1>8. /\ r.status = "ok" /\ CursorOk(chain, zone, r.cur) /\ r.cur.next = NULL
      /\ r.ret = NULL => r.cur.mz = NULL /\ AheadNow = {}
      /\ r.ret # NULL => /\ r.ret \in AheadNow /\ r.cur.mz # NULL
                         /\ Ahead(chain, zone, r.cur) = AheadNow \ {r.ret}
  BY <1>3 DEF EachDone, AheadNow
<1>9. ~More' /\ (r.ret = NULL => Over') /\ (r.ret # NULL => ~Over')
  BY <1>4, <1>8 DEF More, Over
<1>10. CASE r.ret = NULL
  <2>1. due = {} /\ cur.next = NULL /\ due' = due /\ seen' = seen /\ AheadNow' = {}
    <3>1. r.cur.mz = NULL
      BY <1>8, <1>10
    <3> QED
      BY <3>1, <1>1, <1>4, <1>6, <1>7, <1>8, <1>10 DEF OnCourse, Ahead
  <2>2. SeenHeld' /\ OnCourse'
    BY <2>1, <1>1, <1>4, <1>8 DEF SeenHeld, OnCourse, NoRepeat
  <2>3. WalkInv'
    BY <2>2, <1>4, <1>5, <1>8 DEF WalkInv
  <2> QED
    BY <2>1, <2>3, <1>2, <1>4, <1>9, <1>10 DEF More
<1>11. CASE r.ret # NULL
  <2> DEFINE e == r.ret
  <2>1. /\ e \in held /\ e \notin Range(seen) /\ e \in Address
        /\ due' = due \ {e} /\ seen' = Append(seen, e) /\ AheadNow' = AheadNow \ {e}
    <3>1. held \subseteq Address
      BY <1>1, InvImplies DEF TypeOK
    <3> QED
      BY <3>1, <1>1, <1>4, <1>6, <1>7, <1>8, <1>11 DEF OnCourse
  <2>2. ~Over
    BY <1>6, <1>8, <1>11 DEF Over
  <2> HIDE DEF e
  <2>3. /\ Append(seen, e) \in Seq(Address) /\ NoRepeat(Append(seen, e))
        /\ Range(Append(seen, e)) = Range(seen) \cup {e}
    BY <2>1, <1>1, AppendExact DEF SeenHeld
  <2>4. SeenHeld'
    BY <2>1, <2>3, <1>1, <1>4 DEF SeenHeld
  <2>5. OnCourse'
    <3>1. Range(seen') = Range(seen) \cup {e}
      BY <2>1, <2>3
    <3>2. CursorOk(chain', zone', cur')
      BY <1>4, <1>8
    <3> QED
      BY <3>1, <3>2, <2>1, <1>1 DEF OnCourse
  <2>6. WalkInv'
    BY <2>4, <2>5, <1>4, <1>5, <1>8 DEF WalkInv
  <2> QED
    BY <2>1, <2>2, <2>6, <1>2, <1>4, <1>9, <1>11 DEF e
<1> QED
  BY <1>10, <1>11

LEMMA WalkIsLast ==
  ASSUME WalkInv, CursorIsLast
  PROVE  /\ WalkInv' /\ armed /\ UNCHANGED <<held, armed, due, seen>> /\ ~More
         /\ \/ due = {} /\ ~More' /\ Over'
            \/ ~Over /\ held \ Range(seen) # {} /\ More' /\ ~Over'
<1>1. /\ ShelfInv /\ CountsAdd /\ SeenHeld /\ OnCourse /\ CursorOk(chain, zone, cur)
      /\ GoodZones(zone) /\ GoodChain(chain, zone)
  BY DEF WalkInv, ShelfInv, CursorIsLast, IsLast, OnCourse
<1>2. PICK r : r = Prefetch(cur)
  OBVIOUS
<1>3. Fetches(cur, r)
  BY <1>1, <1>2, PrefetchExact
<1>4. /\ armed /\ cur' = r.cur /\ status' = r.status /\ cur.next = NULL
      /\ UNCHANGED <<chain, zone, total_used, held, armed, due, seen>>
  BY <1>2 DEF CursorIsLast, IsLast, MoveTo
<1>5. ShelfInv' /\ CountsAdd'
  <2>1. Walk
    BY DEF CursorIsLast, Walk
  <2> QED
    BY <2>1, <1>1, <1>4, InvWalk DEF CountsAdd
<1>6. AheadNow \subseteq held /\ (cur.mz = NULL => AheadNow = {})
  BY <1>1, AheadHeld
<1>7. /\ r.status = "ok" /\ CursorOk(chain, zone, r.cur) /\ AheadNow' = AheadNow
      /\ r.cur.next = NULL => r.cur.mz = NULL /\ AheadNow = {}
      /\ r.cur.next # NULL => r.cur.next \in AheadNow
  BY <1>3, <1>4 DEF Fetches, AheadNow
<1>8. SeenHeld' /\ OnCourse'
  BY <1>1, <1>4, <1>7 DEF SeenHeld, OnCourse, NoRepeat
<1>9. WalkInv'
  BY <1>4, <1>5, <1>7, <1>8 DEF WalkInv
<1>10. CASE r.cur.next = NULL
  <2>1. due = {}
    BY <1>1, <1>7, <1>10 DEF OnCourse
  <2> QED
    BY <2>1, <1>4, <1>7, <1>9, <1>10 DEF More, Over
<1>11. CASE r.cur.next # NULL
  <2>1. r.cur.next \in held \ Range(seen) /\ ~Over
    BY <1>1, <1>6, <1>7, <1>11 DEF OnCourse, Over
  <2> QED
    BY <2>1, <1>4, <1>9, <1>11 DEF More, Over
<1> QED
  BY <1>10, <1>11

LEMMA WalkReset ==
  ASSUME WalkInv, CursorReset
  PROVE  /\ WalkInv' /\ armed' = TRUE /\ held' = held /\ due' = held /\ seen' = <<>>
         /\ ~More' /\ ~Over'
<1>1. /\ ShelfInv /\ CountsAdd /\ status = "ok" /\ Reset
      /\ armed' = TRUE /\ due' = held /\ seen' = <<>>
      /\ UNCHANGED <<chain, zone, total_used, held, status>>
  BY DEF WalkInv, CursorReset, Reset
<1>2. ShelfInv' /\ CountsAdd'
  BY <1>1, InvWalk DEF Walk, CountsAdd
<1>3. /\ CursorOk(chain, zone, cur') /\ Ahead(chain, zone, cur') = held
      /\ cur'.mz # NULL /\ cur'.next = NULL
  BY <1>1, ResetAhead
<1>4. Range(seen') = {}
  BY <1>1 DEF Range
<1>5. SeenHeld'
  BY <1>1, <1>4 DEF SeenHeld, NoRepeat
<1>6. OnCourse'
  BY <1>1, <1>3, <1>4 DEF OnCourse, AheadNow
<1> QED
  BY <1>1, <1>2, <1>3, <1>5, <1>6 DEF WalkInv, More, Over

\* Clearing or rebuilding the shelf fails no assert: the counters add up.
LEMMA WalkRestart ==
  ASSUME WalkInv, CursorRestart
  PROVE  /\ WalkInv' /\ armed' = FALSE /\ held' = {} /\ due' = {} /\ seen' = <<>>
<1>1. /\ ShelfInv /\ CountsAdd /\ GoodZones(zone) /\ GoodChain(chain, zone)
      /\ Restart /\ due' = {} /\ seen' = <<>> /\ cur' \in {cur, NoCursor}
  BY DEF WalkInv, ShelfInv, CursorRestart, Clear, Renew
<1>2. cur' \in CursorType
  BY <1>1 DEF ShelfInv, NoCursor, CursorType, NULL
<1>3. ShelfInv'
  BY <1>1, <1>2, InvRestart
<1>4. total_used = UsedSum
  BY <1>1, UsedSumIs DEF CountsAdd
<1> QED
  BY <1>1, <1>3, <1>4, FreshWalk DEF Restart

LEMMA WalkStarts == CursorInit => WalkInv
<1> SUFFICES ASSUME CursorInit PROVE WalkInv
  OBVIOUS
<1>1. ShelfInit /\ due = {} /\ seen = <<>>
  BY DEF CursorInit
<1>2. ShelfInv
  BY <1>1, InvInit
<1>3. CountsAdd
  BY <1>1, FreshCounts DEF ShelfInit, CountsAdd
<1>4. SeenHeld
  BY <1>1 DEF SeenHeld, NoRepeat, Range
<1> QED
  BY <1>1, <1>2, <1>3, <1>4 DEF ShelfInit, WalkInv

LEMMA WalkInvStep == WalkInv /\ [CursorNext]_cursorVars => WalkInv'
<1> SUFFICES ASSUME WalkInv, [CursorNext]_cursorVars PROVE WalkInv'
  OBVIOUS
<1>1. CASE CursorNext
  BY <1>1, WalkAlloc, WalkFree, WalkRestart, WalkReset, WalkEach, WalkIsLast DEF CursorNext
<1>2. CASE UNCHANGED cursorVars
  <2>1. /\ UNCHANGED <<chain, zone, total_used, cur, held>>
        /\ UNCHANGED <<armed, status, due, seen>>
    BY <1>2 DEF cursorVars, shelfVars
  <2>2. ShelfInv' /\ CountsAdd'
    BY <2>1 DEF WalkInv, ShelfInv, CountsAdd
  <2>3. SeenHeld'
    BY <2>1 DEF WalkInv, SeenHeld, NoRepeat
  <2>4. OnCourse' <=> OnCourse
    BY <2>1 DEF OnCourse, AheadNow
  <2> QED
    BY <2>1, <2>2, <2>3, <2>4 DEF WalkInv
<1> QED
  BY <1>1, <1>2

\* The invariant holds of every client that keeps off the fetched element.
THEOREM WalkInvariant == CursorSpec => []WalkInv
BY WalkStarts, WalkInvStep, PTL DEF CursorSpec

\* No assert of shelf.c fails under a walk and the walk reads no freed memory,
\* with elements allocated and freed between its calls (lines 164, 182, 241).
THEOREM WalkNoFault == CursorSpec => []NoFault
<1>1. WalkInv => NoFault
  BY DEF WalkInv, NoFault
<1> QED
  BY <1>1, WalkInvariant, PTL

\* each_next_free is the first free element above the cursor, through every
\* alloc and free that moves it (lines 145, 188-193, 198-202).
THEOREM WalkNextFreeExact == CursorSpec => []NextFreeExact
<1>1. WalkInv => NextFreeExact
  <2> SUFFICES ASSUME WalkInv, armed, cur.mz # NULL
               PROVE  LET above == {e \in Range(zone[cur.mz].free) : e > cur.last}
                      IN  cur.next_free = IF above = {} THEN NULL ELSE Min(above)
    BY DEF NextFreeExact
  <2> DEFINE F == Range(zone[cur.mz].free)
             above == {e \in F : e > cur.last}
  <2>1. CursorOk(chain, zone, cur) /\ ShelfInv
    BY DEF WalkInv, OnCourse
  <2>2. Nearest(F, cur.last, cur.next_free) /\ cur.mz \in Slots
    BY <2>1 DEF CursorOk, Placed, CursorType
  <2>3. F \subseteq Nat /\ NULL \notin F /\ cur.last \in Nat
    <3>1. ZoneOK(cur.mz, zone[cur.mz])
      BY <2>1, <2>2 DEF ShelfInv, GoodZones
    <3>2. cur.last \in Nat
      BY <2>1 DEF CursorOk, CursorType
    <3> QED
      BY <3>1, <3>2, <2>2, ZoneNumbers
  <2>4. above \subseteq Nat /\ \A e \in above : e \in F
    BY <2>3
  <2>5. CASE above = {}
    BY <2>2, <2>5 DEF Nearest
  <2>6. CASE above # {}
    <3>1. Min(above) \in above /\ \A e \in above : Min(above) =< e
      BY <2>4, <2>6, MinOfNat
    <3> DEFINE m == Min(above)
    <3>2. m \in Nat /\ m \in F /\ m > cur.last /\ \A e \in above : m =< e
      BY <3>1, <2>4
    <3> HIDE DEF m
    <3>3. cur.next_free # NULL
      BY <3>2, <2>2, <2>3 DEF Nearest
    <3>4. cur.next_free \in above /\ cur.next_free =< m
      BY <3>2, <3>3, <2>2 DEF Nearest
    <3>5. cur.next_free = m
      BY <3>2, <3>4, <2>4
    <3> QED
      BY <3>5, <2>6 DEF m
  <2> QED
    BY <2>5, <2>6
<1> QED
  BY <1>1, WalkInvariant, PTL

\* What cntShelf_each returns is in the shelf (shelf.h:92).
THEOREM WalkReturnsElement == CursorSpec => ReturnsElement
<1>1. WalkInv /\ [CursorNext]_cursorVars
        => [CursorEach => EachResult(cur).ret \in held \cup {NULL}]_cursorVars
  BY WalkEach
<1> QED
  BY <1>1, WalkInvariant, PTL DEF CursorSpec, ReturnsElement

\* The walk's own instances of the operators on sequences.
LEMMA WalkingOperators ==
  /\ Walking!Unseen = held \ Range(seen) /\ Walking!Unseen' = held' \ Range(seen')
  /\ \A v : Walking!RemoveFirst(seen, v) = RemoveFirst(seen, v)
<1>1. Walking!Unseen = held \ Range(seen) /\ Walking!Unseen' = held' \ Range(seen')
  BY DEF Walking!Unseen, Walking!Range, Range
<1>2. ASSUME NEW v PROVE Walking!RemoveFirst(seen, v) = RemoveFirst(seen, v)
  BY DEF Walking!RemoveFirst, RemoveFirst, Walking!RemoveAt, RemoveAt,
         Walking!SelectInSeq, SelectInSeq, Walking!Min, Min
<1> QED
  BY <1>1, <1>2

\* A step of the shelf under a walk is a step of the walk that shelf.h promises.
LEMMA WalkingStep ==
  WalkInv /\ WalkInv' /\ [CursorNext]_cursorVars
    => [Walking!WalkNext]_<<held, armed, due, seen, More, Over>>
<1> SUFFICES ASSUME WalkInv, WalkInv', CursorNext
             PROVE  [Walking!WalkNext]_<<held, armed, due, seen, More, Over>>
  BY DEF cursorVars, shelfVars, More, Over
<1>1. /\ armed \in BOOLEAN /\ armed' \in BOOLEAN
      /\ More \in BOOLEAN /\ Over \in BOOLEAN /\ More' \in BOOLEAN /\ Over' \in BOOLEAN
      /\ ~(More /\ Over) /\ ~(More' /\ Over')
  BY DEF WalkInv, ShelfInv, More, Over
<1>2. CASE CursorAlloc
  <2>1. /\ UNCHANGED <<armed, due, seen>>
        /\ \E h \in Address \ held : held' = held \cup {h}
        /\ armed => cur'.mz = cur.mz /\ cur'.next = cur.next
    BY <1>2, WalkAlloc
  <2>2. UNCHANGED <<More, Over>>
    BY <2>1 DEF More, Over
  <2>3. Walking!Insert
    BY <2>1, <2>2 DEF Walking!Insert, More, Over
  <2> QED
    BY <2>3 DEF Walking!WalkNext
<1>3. ASSUME NEW v \in held, CarefulFree(v) PROVE Walking!Free
  <2>1. /\ UNCHANGED armed
        /\ held' = held \ {v} /\ due' = due \ {v} /\ seen' = RemoveFirst(seen, v)
        /\ Over => Over'
        /\ More => More'
    BY <1>3, WalkFree
  <2>2. Over' => due' = {}
    <3>1. ASSUME Over' PROVE OnCourse' /\ ShelfInv'
      BY <3>1 DEF Over, WalkInv
    <3>2. ASSUME Over' PROVE AheadNow' = {}
      BY <3>1, <3>2 DEF Over, AheadNow, Ahead
    <3> QED
      BY <3>1, <3>2 DEF OnCourse
  <2>3. More' => held' \ Range(seen') # {}
    <3>1. ASSUME More' PROVE OnCourse' /\ ShelfInv' /\ cur'.next # NULL
      BY <3>1 DEF More, WalkInv
    <3>2. (ShelfInv /\ CursorOk(chain, zone, cur) /\ cur.next # NULL
            => AheadNow \subseteq held /\ cur.next \in AheadNow)'
      BY AheadHeld, PTL
    <3> QED
      BY <3>1, <3>2 DEF OnCourse
  <2> DEFINE m == armed /\ cur.next # NULL
             o == armed /\ cur.mz = NULL /\ cur.next = NULL
  <2>4. /\ o' \in BOOLEAN /\ (o => o') /\ (o' => due' = {})
        /\ m' \in BOOLEAN /\ (m => m') /\ (m' => held' \ Range(seen') # {})
        /\ ~(m' /\ o')
    BY <2>1, <2>2, <2>3, <1>1 DEF More, Over
  <2>5. Walking!Free = \E e \in held :
           /\ held' = held \ {e} /\ due' = due \ {e} /\ seen' = RemoveFirst(seen, e)
           /\ o' \in BOOLEAN /\ (o => o') /\ (o' => due' = {})
           /\ m' \in BOOLEAN /\ (m => m') /\ (m' => held' \ Range(seen') # {})
           /\ ~(m' /\ o')
           /\ UNCHANGED armed
    BY WalkingOperators DEF Walking!Free
  <2> HIDE DEF m, o
  <2> QED
    BY <2>1, <2>4, <2>5
<1>4. CASE CursorRestart
  <2>1. /\ armed' = FALSE /\ held' = {} /\ due' = {} /\ seen' = <<>>
    BY <1>4, WalkRestart
  <2>2. Walking!Empty
    BY <2>1 DEF Walking!Empty
  <2> QED
    BY <2>2 DEF Walking!WalkNext
<1>5. CASE CursorReset
  <2>1. /\ armed' = TRUE /\ held' = held /\ due' = held /\ seen' = <<>>
        /\ ~More' /\ ~Over'
    BY <1>5, WalkReset
  <2>2. Walking!Start
    BY <2>1 DEF Walking!Start, More, Over
  <2> QED
    BY <2>2 DEF Walking!WalkNext
<1>6. CASE CursorEach
  <2>1. PICK e : e = EachResult(cur).ret
    OBVIOUS
  <2>2. /\ armed /\ UNCHANGED <<held, armed>>
        /\ \/ /\ e = NULL /\ UNCHANGED <<due, seen>>
              /\ due = {} /\ ~More /\ ~More' /\ Over'
           \/ /\ e \in held \ Range(seen) /\ ~Over /\ ~More' /\ ~Over'
              /\ due' = due \ {e} /\ seen' = Append(seen, e)
    BY <2>1, <1>6, WalkEach
  <2>3. CASE /\ UNCHANGED <<due, seen>> /\ due = {} /\ ~More /\ ~More' /\ Over'
    <3>1. Walking!Finish
      BY <2>2, <2>3, <1>1 DEF Walking!Finish, More, Over
    <3> QED
      BY <3>1 DEF Walking!WalkNext
  <2>4. CASE /\ e \in held \ Range(seen) /\ ~Over /\ ~More' /\ ~Over'
             /\ due' = due \ {e} /\ seen' = Append(seen, e)
    <3>1. (armed /\ cur.next # NULL)' = FALSE
      BY <2>4 DEF More
    <3>2. /\ ~(armed /\ cur.mz = NULL /\ cur.next = NULL)
          /\ UNCHANGED (armed /\ cur.mz = NULL /\ cur.next = NULL)
      BY <2>4 DEF Over
    <3>3. Walking!Return
      BY <2>2, <2>4, <3>1, <3>2, WalkingOperators DEF Walking!Return
    <3> QED
      BY <3>3 DEF Walking!WalkNext
  <2> QED
    BY <2>2, <2>3, <2>4
<1>7. CASE CursorIsLast
  <2>1. /\ armed /\ UNCHANGED <<held, armed, due, seen>> /\ ~More
        /\ \/ due = {} /\ ~More' /\ Over'
           \/ ~Over /\ held \ Range(seen) # {} /\ More' /\ ~Over'
    BY <1>7, WalkIsLast
  <2>2. CASE due = {} /\ ~More' /\ Over'
    <3>1. Walking!Finish
      BY <2>1, <2>2, <1>1 DEF Walking!Finish, More, Over
    <3> QED
      BY <3>1 DEF Walking!WalkNext
  <2>3. CASE ~Over /\ held \ Range(seen) # {} /\ More' /\ ~Over'
    <3>1. (armed /\ cur.next # NULL)' = TRUE
      BY <2>3 DEF More
    <3>2. /\ ~(armed /\ cur.mz = NULL /\ cur.next = NULL)
          /\ UNCHANGED (armed /\ cur.mz = NULL /\ cur.next = NULL)
      BY <2>3 DEF Over
    <3>3. Walking!Announce
      BY <2>1, <2>3, <3>1, <3>2, WalkingOperators DEF Walking!Announce
    <3> QED
      BY <3>3 DEF Walking!WalkNext
  <2> QED
    BY <2>1, <2>2, <2>3
<1> QED
  BY <1>2, <1>3, <1>4, <1>5, <1>6, <1>7 DEF CursorNext, Walking!WalkNext

\* A walk returns every element that was there at the reset and is not freed
\* since, each once, and then NULL, whatever is allocated and freed meanwhile.
THEOREM WalkImplements == CursorSpec => ImplementsWalk
<1>1. CursorInit => Walking!WalkInit
  BY DEF CursorInit, ShelfInit, Walking!WalkInit
<1>2. WalkInv /\ WalkInv' /\ [CursorNext]_cursorVars
        => [Walking!WalkNext]_<<held, armed, due, seen, More, Over>>
  BY WalkingStep
<1>3. [Walking!WalkNext]_<<held, armed, due, seen, More, Over>>
        => [Walking!WalkNext]_<<held, armed, due, seen, armed /\ cur.next # NULL,
                                armed /\ cur.mz = NULL /\ cur.next = NULL>>
  BY DEF More, Over
<1> QED
  BY <1>1, <1>2, <1>3, WalkInvariant, PTL DEF CursorSpec, ImplementsWalk, Walking!WalkSpec,
     Walking!walkVars
=============================================================================
