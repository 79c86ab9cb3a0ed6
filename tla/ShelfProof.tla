----------------------------- MODULE ShelfProof -----------------------------
(***************************************************************************)
(* Theorems about Shelf, for any number of slots and elements and for the  *)
(* client that does anything (AnySpec): the invariants of the run          *)
(* shelf_alloc, and that the shelf implements ShelfSet.                    *)
(*                                                                         *)
(* The invariant ShelfInv says of each zone that its free list is sorted   *)
(* and inside it and that its counter is what the list leaves; of the      *)
(* chain that it has each zone in use once; and of what the client holds   *)
(* that it is what the zones have in use.  Of the cursor it needs the type *)
(* only: no step lets it decide what is free.                              *)
(***************************************************************************)
EXTENDS Shelf, CommonLemmas

\* The place lines 183-184 look for exists: what InsertionPoint returns.
LEMMA InsertionPointExact ==
  ASSUME NEW fl \in Seq(Nat), NEW v \in Nat
  PROVE  LET i == InsertionPoint(fl, v)
         IN  /\ i \in 1 .. Len(fl) + 1
             /\ i > Len(fl) \/ fl[i] >= v
             /\ \A j \in 1 .. i - 1 : fl[j] < v
<1> DEFINE T == {i \in 1 .. Len(fl) + 1 : i > Len(fl) \/ fl[i] >= v}
<1>1. T \subseteq Nat /\ Len(fl) + 1 \in T /\ Len(fl) \in Nat
  OBVIOUS
<1>2. PICK n \in T : \A m \in T : n =< m
  BY <1>1, LeastNat
<1>3. \A j \in 1 .. n - 1 : fl[j] \in Nat /\ j \notin T /\ j \in 1 .. Len(fl)
  BY <1>1, <1>2
<1>4. \A j \in 1 .. n - 1 : fl[j] < v
  BY <1>3
<1> QED
  BY <1>2, <1>4 DEF InsertionPoint

-----------------------------------------------------------------------------
Ordered(f, n) ==
  /\ \A j \in 1 .. n : f[j] \in Nat
  /\ \A j, k \in 1 .. n : j < k => f[j] < f[k]

\* i is the place of v in the first n entries of f.
PlaceIn(f, n, i, v) ==
  /\ i \in 1 .. n + 1
  /\ \A j \in 1 .. i - 1 : f[j] < v
  /\ \A j \in i .. n : v < f[j]

Image(f, n) == {f[j] : j \in 1 .. n}

\* Putting a number at its place keeps a list of numbers in order.
LEMMA InsertKeepsOrder ==
  ASSUME NEW n \in Nat, NEW f, NEW g, NEW i, NEW v \in Nat,
         Ordered(f, n), PlaceIn(f, n, i, v), InsertedAt(f, n, i, v, g)
  PROVE  Ordered(g, n + 1) /\ Image(g, n + 1) = Image(f, n) \cup {v}
<1> USE DEF Ordered, PlaceIn, InsertedAt
<1>1. ASSUME NEW j \in 1 .. n + 1, NEW k \in 1 .. n + 1, j < k
      PROVE  g[j] < g[k]
  <2>1. CASE k < i
    BY <2>1, <1>1
  <2>2. CASE k = i
    BY <2>2, <1>1
  <2>3. CASE k > i /\ j < i
    <3>1. k - 1 \in i .. n /\ g[k] = f[k - 1] /\ j \in 1 .. i - 1 /\ g[j] = f[j]
      BY <2>3, <1>1
    <3>2. f[j] < v /\ v < f[k - 1] /\ f[j] \in Nat /\ f[k - 1] \in Nat
      BY <3>1
    <3> QED
      BY <3>1, <3>2
  <2>4. CASE k > i /\ j = i
    BY <2>4, <1>1
  <2>5. CASE k > i /\ j > i
    <3>1. /\ k - 1 \in 1 .. n /\ j - 1 \in 1 .. n /\ j - 1 < k - 1
          /\ g[k] = f[k - 1] /\ g[j] = f[j - 1]
      BY <2>5, <1>1
    <3> QED
      BY <3>1
  <2> QED
    BY <2>1, <2>2, <2>3, <2>4, <2>5
<1>2. \A j \in 1 .. n + 1 : g[j] \in {f[k] : k \in 1 .. n} \cup {v}
  <2> TAKE j \in 1 .. n + 1
  <2>1. CASE j < i
    BY <2>1
  <2>2. CASE j = i
    BY <2>2
  <2>3. CASE j > i
    <3>1. j - 1 \in 1 .. n /\ g[j] = f[j - 1]
      BY <2>3
    <3> QED
      BY <3>1
  <2> QED
    BY <2>1, <2>2, <2>3
<1>3. v \in {g[j] : j \in 1 .. n + 1}
  BY g[i] = v
<1>4. \A j \in 1 .. n : f[j] \in {g[k] : k \in 1 .. n + 1}
  <2> TAKE j \in 1 .. n
  <2>1. CASE j < i
    <3>1. j \in 1 .. n + 1 /\ g[j] = f[j]
      BY <2>1
    <3> QED
      BY <3>1
  <2>2. CASE j >= i
    <3>1. j + 1 \in 1 .. n + 1 /\ g[j + 1] = f[j]
      BY <2>2
    <3> QED
      BY <3>1
  <2> QED
    BY <2>1, <2>2
<1>5. \A j \in 1 .. n + 1 : g[j] \in Nat
  BY <1>2
<1> QED
  BY <1>1, <1>2, <1>3, <1>4, <1>5 DEF Image

\* Freeing keeps a free list sorted and adds the element, no other.
LEMMA FreedListSorted ==
  ASSUME NEW fl \in Seq(Nat), NEW v \in Nat, v \notin Range(fl), Sorted(fl)
  PROVE  LET g == InsertAt(fl, InsertionPoint(fl, v), v)
         IN  /\ g \in Seq(Nat) /\ Len(g) = Len(fl) + 1
             /\ Sorted(g)
             /\ Range(g) = Range(fl) \cup {v}
<1> DEFINE i == InsertionPoint(fl, v)
           g == InsertAt(fl, i, v)
<1>1. /\ i \in 1 .. Len(fl) + 1
      /\ i > Len(fl) \/ fl[i] >= v
      /\ \A j \in 1 .. i - 1 : fl[j] < v
  BY InsertionPointExact
<1> HIDE DEF i
<1>2. /\ Len(fl) \in Nat /\ DOMAIN fl = 1 .. Len(fl)
      /\ \A j \in 1 .. Len(fl) : fl[j] \in Nat /\ fl[j] # v
  BY DEF Range
<1>3. Ordered(fl, Len(fl))
  BY <1>2 DEF Sorted, Ordered
<1>4. PlaceIn(fl, Len(fl), i, v)
  <2>1. \A j \in i .. Len(fl) : v < fl[j]
    BY <1>1, <1>2, <1>3, SMTT(30) DEF Ordered
  <2> QED
    BY <1>1, <2>1 DEF PlaceIn
<1>5. g \in Seq(Nat) /\ Len(g) = Len(fl) + 1 /\ InsertedAt(fl, Len(fl), i, v, g)
  BY <1>1, InsertAtExact
<1> HIDE DEF g
<1>6. Ordered(g, Len(fl) + 1) /\ Image(g, Len(fl) + 1) = Image(fl, Len(fl)) \cup {v}
  BY <1>2, <1>3, <1>4, <1>5, InsertKeepsOrder
<1>7. Range(fl) = Image(fl, Len(fl))
  BY <1>2 DEF Range, Image
<1>8. DOMAIN g = 1 .. Len(fl) + 1
  BY <1>5
<1>9. Range(g) = Image(g, Len(fl) + 1)
  BY <1>8 DEF Range, Image
<1>10. Sorted(g)
  BY <1>5, <1>6 DEF Sorted, Ordered
<1> QED
  BY <1>5, <1>6, <1>7, <1>9, <1>10 DEF g, i

\* Taking the head of a sorted list takes exactly one element out of it.
LEMMA TakenListSorted ==
  ASSUME NEW fl \in Seq(Nat), fl # <<>>, Sorted(fl)
  PROVE  /\ Tail(fl) \in Seq(Nat) /\ Len(Tail(fl)) = Len(fl) - 1
         /\ Sorted(Tail(fl))
         /\ Head(fl) \in Range(fl)
         /\ Range(Tail(fl)) = Range(fl) \ {Head(fl)}
<1> DEFINE t == Tail(fl)
<1>1. /\ Len(fl) \in Nat \ {0} /\ Head(fl) = fl[1]
      /\ \A j \in 1 .. Len(fl) : fl[j] \in Nat
      /\ DOMAIN fl = 1 .. Len(fl)
  OBVIOUS
<1>2. /\ t \in Seq(Nat) /\ Len(t) = Len(fl) - 1
      /\ \A j \in 1 .. Len(fl) - 1 : t[j] = fl[j + 1]
  BY HeadTailProperties
<1> HIDE DEF t
<1>3. DOMAIN t = 1 .. Len(fl) - 1
  BY <1>2
<1>4. Sorted(t)
  <2> SUFFICES ASSUME NEW j \in 1 .. Len(fl) - 1, NEW k \in 1 .. Len(fl) - 1, j < k
               PROVE  t[j] < t[k]
    BY <1>2 DEF Sorted
  <2>1. fl[j + 1] < fl[k + 1]
    BY <1>1 DEF Sorted
  <2> QED
    BY <2>1, <1>2
<1>5. ASSUME NEW x \in Range(t) PROVE x \in Range(fl) /\ x # Head(fl)
  <2>1. PICK j \in 1 .. Len(fl) - 1 : x = fl[j + 1]
    BY <1>2, <1>3 DEF Range
  <2>2. fl[1] < fl[j + 1]
    BY <1>1 DEF Sorted
  <2> QED
    BY <2>1, <2>2, <1>1 DEF Range
<1>6. ASSUME NEW x \in Range(fl), x # Head(fl) PROVE x \in Range(t)
  <2>1. PICK j \in 1 .. Len(fl) : x = fl[j]
    BY <1>1 DEF Range
  <2>2. j - 1 \in 1 .. Len(fl) - 1 /\ t[j - 1] = fl[j]
    BY <2>1, <1>6, <1>1, <1>2
  <2> QED
    BY <2>1, <2>2, <1>3 DEF Range
<1>7. Head(fl) \in Range(fl)
  BY <1>1 DEF Range
<1> QED
  BY <1>2, <1>4, <1>5, <1>6, <1>7 DEF t

\* A sorted list has as many elements as entries.
LEMMA SortedCardinality ==
  ASSUME NEW fl \in Seq(Nat), Sorted(fl)
  PROVE  IsFiniteSet(Range(fl)) /\ Cardinality(Range(fl)) = Len(fl)
<1>1. /\ Len(fl) \in Nat /\ DOMAIN fl = 1 .. Len(fl)
      /\ \A j \in 1 .. Len(fl) : fl[j] \in Nat
  OBVIOUS
<1>2. NoRepeat(fl)
  BY <1>1 DEF Sorted, NoRepeat
<1> QED
  BY <1>2, NoRepeatCardinality

-----------------------------------------------------------------------------
(***************************************************************************)
(* One zone at a time.                                                     *)
(***************************************************************************)
Span(s, z) == s .. s + z.nb - 1
InUse(s, z) == Span(s, z) \ Range(z.free)

ZoneOK(s, z) ==
  /\ z \in [nb : 0 .. Stride - 1, used : Nat, free : Seq(Nat)]
  /\ z.used + Len(z.free) = z.nb
  /\ Sorted(z.free)
  /\ Range(z.free) \subseteq Span(s, z)

\* Slots are addresses above NULL.
LEMMA SlotsAreNat == \A s \in Slots : s \in Nat /\ s > 0
BY ShelfAssumption

\* Zones that fit their slots do not overlap.
LEMMA SpansDisjoint ==
  ASSUME NEW s \in Slots, NEW t \in Slots, NEW y, NEW z,
         ZoneOK(s, y), ZoneOK(t, z), s # t
  PROVE  Span(s, y) \cap Span(t, z) = {}
<1>1. s \in Nat /\ t \in Nat /\ Stride \in Nat
  BY SlotsAreNat, ShelfAssumption
<1>2. y.nb \in 0 .. Stride - 1 /\ z.nb \in 0 .. Stride - 1
  BY DEF ZoneOK
<1>3. s + Stride =< t \/ t + Stride =< s
  BY <1>1, ShelfAssumption
<1> QED
  BY <1>1, <1>2, <1>3 DEF Span

\* The place of a zone is made of addresses of elements.
LEMMA SpanInAddress ==
  ASSUME NEW s \in Slots, NEW z, ZoneOK(s, z)
  PROVE  Span(s, z) \subseteq Address
<1>1. s \in Nat /\ Stride \in Nat /\ z.nb \in 0 .. Stride - 1
  BY SlotsAreNat, ShelfAssumption DEF ZoneOK
<1>2. Span(s, z) \subseteq s .. s + Stride - 1
  BY <1>1 DEF Span
<1> QED
  BY <1>2 DEF Address

\* empty_chain threads every element of a zone, in order.
LEMMA EmptyZoneOK ==
  ASSUME NEW s \in Slots, NEW n \in 1 .. Stride - 1
  PROVE  /\ ZoneOK(s, EmptyZone(s, n))
         /\ InUse(s, EmptyZone(s, n)) = {}
         /\ EmptyZone(s, n).free # <<>>
         /\ EmptyZone(s, n).used = 0 /\ EmptyZone(s, n).nb = n
<1> DEFINE fl == [i \in 1 .. n |-> s + i - 1]
           z == EmptyZone(s, n)
<1>1. s \in Nat /\ n \in Nat /\ n > 0 /\ Stride \in Nat
  BY SlotsAreNat, ShelfAssumption
<1>2. z.nb = n /\ z.used = 0 /\ z.free = fl /\ z = [nb |-> n, used |-> 0, free |-> fl]
  BY DEF EmptyZone
<1>3. \A i \in 1 .. n : s + i - 1 \in Nat
  BY <1>1
<1>4. fl \in Seq(Nat) /\ Len(fl) = n
  BY <1>1, <1>3
<1>5. Sorted(fl)
  BY <1>1, <1>4 DEF Sorted
<1>6. Range(fl) = s .. s + n - 1
  <2>1. \A x \in s .. s + n - 1 : x - s + 1 \in 1 .. n /\ fl[x - s + 1] = x
    BY <1>1
  <2>2. \A i \in 1 .. n : fl[i] \in s .. s + n - 1
    BY <1>1
  <2> QED
    BY <2>1, <2>2 DEF Range
<1>7. fl # <<>>
  BY <1>1, <1>4
<1> HIDE DEF fl
<1>8. z \in [nb : 0 .. Stride - 1, used : Nat, free : Seq(Nat)]
  BY <1>1, <1>2, <1>4
<1>9. Span(s, z) = s .. s + n - 1
  BY <1>2 DEF Span
<1> HIDE DEF z
<1>10. z.used + Len(z.free) = z.nb
  BY <1>1, <1>2, <1>4
<1> QED
  BY <1>2, <1>5, <1>6, <1>7, <1>8, <1>9, <1>10 DEF ZoneOK, InUse, z

\* A slot without a zone is in order, and has nothing in use.
LEMMA NoZoneOK ==
  ASSUME NEW s \in Slots
  PROVE  ZoneOK(s, NoZone) /\ InUse(s, NoZone) = {} /\ Span(s, NoZone) = {}
         /\ NoZone.nb = 0
<1>1. s \in Nat /\ Stride \in Nat /\ Stride > 0
  BY SlotsAreNat, ShelfAssumption
<1>2. <<>> \in Seq(Nat) /\ Len(<<>>) = 0 /\ Range(<<>>) = {} /\ Sorted(<<>>)
  BY DEF Range, Sorted
<1>3. NoZone.nb = 0 /\ NoZone.used = 0 /\ NoZone.free = <<>>
  BY DEF NoZone
<1>4. NoZone \in [nb : 0 .. Stride - 1, used : Nat, free : Seq(Nat)]
  BY <1>1, <1>2 DEF NoZone
<1>5. Span(s, NoZone) = {}
  BY <1>1, <1>3 DEF Span
<1> QED
  BY <1>2, <1>3, <1>4, <1>5 DEF ZoneOK, InUse

\* Taking the head of the free list puts that element in use, no other.
LEMMA TakeOK ==
  ASSUME NEW s \in Slots, NEW z, ZoneOK(s, z), z.free # <<>>
  PROVE  LET y == [z EXCEPT !.free = Tail(z.free), !.used = z.used + 1]
         IN  /\ ZoneOK(s, y)
             /\ InUse(s, y) = InUse(s, z) \cup {Head(z.free)}
             /\ Head(z.free) \in Span(s, z)
             /\ y.nb = z.nb /\ y.used = z.used + 1
<1> DEFINE fl == Tail(z.free)
           y == [z EXCEPT !.free = fl, !.used = z.used + 1]
<1>1. /\ z \in [nb : 0 .. Stride - 1, used : Nat, free : Seq(Nat)]
      /\ z.used + Len(z.free) = z.nb
      /\ Sorted(z.free) /\ Range(z.free) \subseteq Span(s, z)
      /\ z.free \in Seq(Nat) /\ z.used \in Nat /\ z.nb \in 0 .. Stride - 1
  BY DEF ZoneOK
<1>2. /\ fl \in Seq(Nat) /\ Len(fl) = Len(z.free) - 1
      /\ Sorted(fl) /\ Head(z.free) \in Range(z.free)
      /\ Range(fl) = Range(z.free) \ {Head(z.free)}
  BY <1>1, TakenListSorted
<1> HIDE DEF fl
<1>8. z.used + 1 \in Nat
  BY <1>1
<1>3. y.nb = z.nb /\ y.used = z.used + 1 /\ y.free = fl
  BY <1>1
<1>4. y \in [nb : 0 .. Stride - 1, used : Nat, free : Seq(Nat)]
  BY <1>1, <1>2, <1>8
<1>5. Span(s, y) = Span(s, z)
  BY <1>3 DEF Span
<1> HIDE DEF y
<1>6. Len(z.free) \in Nat
  BY <1>1
<1>7. y.used + Len(y.free) = y.nb
  BY <1>1, <1>2, <1>3, <1>6
<1>9. ZoneOK(s, y)
  BY <1>1, <1>2, <1>3, <1>4, <1>5, <1>7 DEF ZoneOK
<1>10. Head(z.free) \in Span(s, z)
  BY <1>1, <1>2
<1>11. InUse(s, y) = InUse(s, z) \cup {Head(z.free)}
  BY <1>2, <1>3, <1>5, <1>10 DEF InUse
<1> QED
  BY <1>3, <1>9, <1>10, <1>11 DEF y, fl

\* y is zone z after element v was freed.
ZoneFreed(s, z, v, y) ==
  /\ ZoneOK(s, y)
  /\ InUse(s, y) = InUse(s, z) \ {v}
  /\ y.nb = z.nb /\ y.used = z.used - 1

\* Freeing takes exactly one element out of use.
LEMMA FreedOK ==
  ASSUME NEW s \in Slots, NEW z, ZoneOK(s, z), z.used > 0, NEW v \in InUse(s, z)
  PROVE  ZoneFreed(s, z, v,
           [z EXCEPT !.free = InsertAt(z.free, InsertionPoint(z.free, v), v),
                     !.used = z.used - 1])
<1> DEFINE fl == InsertAt(z.free, InsertionPoint(z.free, v), v)
           y == [z EXCEPT !.free = fl, !.used = z.used - 1]
<1>1. /\ z \in [nb : 0 .. Stride - 1, used : Nat, free : Seq(Nat)]
      /\ z.used + Len(z.free) = z.nb
      /\ Sorted(z.free) /\ Range(z.free) \subseteq Span(s, z)
      /\ z.free \in Seq(Nat) /\ z.used \in Nat /\ z.nb \in 0 .. Stride - 1
  BY DEF ZoneOK
<1>2. v \in Span(s, z) /\ v \notin Range(z.free) /\ v \in Nat
  BY SlotsAreNat, <1>1 DEF InUse, Span
<1>3. /\ fl \in Seq(Nat) /\ Len(fl) = Len(z.free) + 1
      /\ Sorted(fl) /\ Range(fl) = Range(z.free) \cup {v}
  BY <1>1, <1>2, FreedListSorted
<1> HIDE DEF fl
<1>4. y.nb = z.nb /\ y.used = z.used - 1 /\ y.free = fl
  BY <1>1
<1>5. z.used - 1 \in Nat /\ Len(z.free) \in Nat
  BY <1>1
<1>6. y \in [nb : 0 .. Stride - 1, used : Nat, free : Seq(Nat)]
  BY <1>1, <1>3, <1>5
<1>7. Span(s, y) = Span(s, z)
  BY <1>4 DEF Span
<1> HIDE DEF y
<1>8. y.used + Len(y.free) = y.nb
  BY <1>1, <1>3, <1>4, <1>5
<1> QED
  BY <1>2, <1>3, <1>4, <1>6, <1>7, <1>8, <1>1 DEF ZoneOK, InUse, fl, y, ZoneFreed

\* A zone whose counter says one has one element in use: line 208 unlinks it
\* when that one is freed, and loses nothing.
LEMMA LastInUse ==
  ASSUME NEW s \in Slots, NEW z, ZoneOK(s, z), z.used = 1, NEW v \in InUse(s, z)
  PROVE  InUse(s, z) = {v}
<1>1. /\ z.used + Len(z.free) = z.nb
      /\ Sorted(z.free) /\ Range(z.free) \subseteq Span(s, z)
      /\ z.free \in Seq(Nat) /\ z.nb \in 0 .. Stride - 1
      /\ s \in Nat /\ Stride \in Nat /\ Len(z.free) \in Nat
  BY SlotsAreNat, ShelfAssumption DEF ZoneOK
<1>2. IsFiniteSet(Range(z.free)) /\ Cardinality(Range(z.free)) = z.nb - 1
  BY <1>1, SortedCardinality
<1>3. IsFiniteSet(Span(s, z)) /\ Cardinality(Span(s, z)) = z.nb
  <2>1. s \in Int /\ s + z.nb - 1 \in Int
    BY <1>1
  <2>2. /\ IsFiniteSet(s .. s + z.nb - 1)
        /\ Cardinality(s .. s + z.nb - 1)
             = IF s > s + z.nb - 1 THEN 0 ELSE (s + z.nb - 1) - s + 1
    BY <2>1, FS_Interval
  <2> QED
    BY <2>2, <1>1 DEF Span
<1>4. v \in Span(s, z) /\ v \notin Range(z.free)
  BY DEF InUse
<1> DEFINE T == Span(s, z) \ {v}
<1>5. IsFiniteSet(T) /\ Cardinality(T) = z.nb - 1
  BY <1>3, <1>4, FS_RemoveElement
<1>6. Range(z.free) \subseteq T
  BY <1>1, <1>4
<1>7. Range(z.free) = T
  BY <1>2, <1>5, <1>6, FS_Subset
<1> QED
  BY <1>4, <1>7 DEF InUse

-----------------------------------------------------------------------------
(***************************************************************************)
(* What the cursor computes stays a cursor, whatever the client did.       *)
(***************************************************************************)
Status == {"ok", "assert", "wild"}

\* Lines 241-245 leave the walk with a number for each of its pointers.
LEMMA SkipType ==
  ASSUME NEW fl \in Seq(Nat), NEW p \in Nat, NEW nf \in Nat
  PROVE  /\ Skip(fl, p, nf).status \in Status
         /\ Skip(fl, p, nf).ptr \in Nat
         /\ Skip(fl, p, nf).next_free \in Nat
<1>0. Len(fl) \in Nat /\ DOMAIN fl = 1 .. Len(fl) /\ \A i \in 1 .. Len(fl) : fl[i] \in Nat
  OBVIOUS
<1>1. CASE p # nf
  BY <1>1 DEF Skip, Status
<1>2. CASE p = nf /\ nf \notin Range(fl)
  BY <1>2 DEF Skip, Status
<1>3. CASE p = nf /\ nf \in Range(fl)
  <2> DEFINE k == CHOOSE i \in 1 .. Len(fl) : fl[i] = nf
             n == CHOOSE m \in 1 .. Len(fl) + 1 - k :
                    /\ k + m > Len(fl) \/ fl[k + m] # p + m
                    /\ \A j \in 1 .. m - 1 : fl[k + j] = p + j
  <2>1. k \in 1 .. Len(fl)
    BY <1>3, <1>0 DEF Range
  <2>2. Skip(fl, p, nf) = [status |-> "ok", ptr |-> p + n,
                           next_free |-> LinkAfter(fl, k + n - 1)]
    BY <1>3 DEF Skip
  <2> HIDE DEF k
  <2>3. n \in 1 .. Len(fl) + 1 - k
    <3> DEFINE T == {m \in 1 .. Len(fl) + 1 - k : k + m > Len(fl) \/ fl[k + m] # p + m}
    <3>1. T \subseteq Nat /\ Len(fl) + 1 - k \in T
      BY <1>0, <2>1
    <3>2. PICK m \in T : \A q \in T : m =< q
      BY <3>1, LeastNat
    <3>3. \A j \in 1 .. m - 1 : j \in 1 .. Len(fl) + 1 - k /\ j \notin T
      BY <3>1, <3>2, <1>0, <2>1
    <3>4. \A j \in 1 .. m - 1 : fl[k + j] = p + j
      BY <3>3
    <3> QED
      BY <3>2, <3>4
  <2> HIDE DEF n
  <2>4. LinkAfter(fl, k + n - 1) \in Nat
    BY <1>0, <2>1, <2>3 DEF LinkAfter, NULL
  <2> QED
    BY <2>2, <2>3, <2>4, <1>0, <2>1 DEF Status
<1> QED
  BY <1>1, <1>2, <1>3

\* The first free element of a zone is an address or NULL.
LEMMA FirstFreeType ==
  ASSUME NEW zs, NEW s, zs[s].free \in Seq(Nat)
  PROVE  FirstFree(zs, s) \in Nat
BY DEF FirstFree, NULL

\* A walk in any zone of the chain leaves numbers.
LEMMA WalkAtType ==
  ASSUME chain \in Seq(Slots), \A s \in Slots : zone[s].free \in Seq(Nat),
         NEW i, NEW j \in 1 .. Len(chain), NEW p \in Nat, NEW nf \in Nat
  PROVE  /\ WalkAt(i, j, p, nf).status \in Status
         /\ WalkAt(i, j, p, nf).ptr \in Nat
         /\ WalkAt(i, j, p, nf).next_free \in Nat
<1>1. chain[j] \in Slots /\ chain[j] \in Nat
  BY SlotsAreNat
<1>2. zone[chain[j]].free \in Seq(Nat) /\ FirstFree(zone, chain[j]) \in Nat
  BY <1>1, FirstFreeType
<1>3. CASE i = j
  BY <1>2, <1>3, SkipType DEF WalkAt
<1>4. CASE i # j
  BY <1>1, <1>2, <1>4, SkipType DEF WalkAt
<1> QED
  BY <1>3, <1>4

\* cntShelf_each leaves a cursor of the right type, whatever it began from,
\* the cursor that clear and new do not reset included.
LEMMA EachResultType ==
  ASSUME chain \in Seq(Slots), \A s \in Slots : zone[s].free \in Seq(Nat),
         NEW c \in CursorType
  PROVE  /\ EachResult(c).status \in Status
         /\ EachResult(c).ret \in Nat
         /\ EachResult(c).cur \in CursorType
<1>1. CASE c.next # NULL
  BY <1>1 DEF EachResult, CursorType, NULL, Status
<1>2. CASE c.next = NULL /\ (c.mz = NULL \/ c.mz \notin Range(chain))
  BY <1>2 DEF EachResult, CursorType, NULL, Status
<1>3. CASE c.next = NULL /\ c.mz # NULL /\ c.mz \in Range(chain)
  <2> DEFINE i == PlaceOf(c.mz)
             p == IF c.last = NULL THEN c.mz ELSE c.last + 1
             At(j) == WalkAt(i, j, p, c.next_free)
             U == {j \in i .. Len(chain) : At(j).ptr # chain[j] + zone[chain[j]].nb}
  <2>1. i \in 1 .. Len(chain) /\ Len(chain) \in Nat
    BY <1>3 DEF PlaceOf, Range
  <2>2. p \in Nat /\ c.next_free \in Nat
    BY <1>3, SlotsAreNat DEF CursorType, NULL
  <2> HIDE DEF i, p
  <2>3. \A j \in i .. Len(chain) : /\ At(j).status \in Status /\ At(j).ptr \in Nat
                                   /\ At(j).next_free \in Nat
    <3> TAKE j \in i .. Len(chain)
    <3>1. j \in 1 .. Len(chain)
      BY <2>1
    <3> QED
      BY <3>1, <2>2, WalkAtType
  <2>4. EachResult(c) =
          IF At(i).status # "ok"
          THEN [status |-> At(i).status, ret |-> NULL, cur |-> c]
          ELSE IF U = {}
          THEN [status |-> "ok", ret |-> NULL,
                cur |-> [c EXCEPT !.mz = NULL, !.next_free = At(Len(chain)).next_free]]
          ELSE [status |-> "ok", ret |-> At(Min(U)).ptr,
                cur |-> [mz |-> chain[Min(U)], next_free |-> At(Min(U)).next_free,
                         last |-> At(Min(U)).ptr, next |-> NULL]]
    BY <1>3 DEF EachResult, i, p
  <2>5. i \in i .. Len(chain) /\ Len(chain) \in i .. Len(chain)
    BY <2>1
  <2>6. U # {} => Min(U) \in i .. Len(chain)
    <3> SUFFICES ASSUME U # {} PROVE Min(U) \in U
      OBVIOUS
    <3>1. U \subseteq Nat
      BY <2>1
    <3>2. PICK m \in U : \A q \in U : m =< q
      BY <3>1, LeastNat
    <3> HIDE DEF U
    <3> QED
      BY <3>2 DEF Min
  <2>7. U # {} => chain[Min(U)] \in Slots
    BY <2>6, <2>1
  <2> HIDE DEF At, U
  <2>8. CASE At(i).status # "ok"
    BY <2>8, <2>3, <2>4, <2>5 DEF NULL
  <2>9. CASE At(i).status = "ok" /\ U = {}
    <3> DEFINE x == At(Len(chain)).next_free
               d == [c EXCEPT !.mz = NULL, !.next_free = x]
    <3>1. EachResult(c) = [status |-> "ok", ret |-> NULL, cur |-> d]
      BY <2>9, <2>4
    <3>2. x \in Nat
      BY <2>3, <2>5
    <3> HIDE DEF x
    <3>3. d \in CursorType
      BY <3>2 DEF CursorType
    <3> HIDE DEF d
    <3> QED
      BY <3>1, <3>3 DEF NULL, Status
  <2>10. CASE At(i).status = "ok" /\ U # {}
    BY <2>10, <2>3, <2>4, <2>6, <2>7 DEF NULL, CursorType, Status
  <2> QED
    BY <2>8, <2>9, <2>10
<1> QED
  BY <1>1, <1>2, <1>3

\* So do lines 165-171 of cntShelf_free.
LEMMA LeaveElementType ==
  ASSUME chain \in Seq(Slots), \A s \in Slots : zone[s].free \in Seq(Nat),
         cur \in CursorType, NEW v
  PROVE  /\ LeaveElement(cur, v).status \in Status
         /\ LeaveElement(cur, v).cur \in CursorType
<1>1. /\ EachResult(cur).status \in Status /\ EachResult(cur).ret \in Nat
      /\ EachResult(cur).cur \in CursorType
  BY EachResultType
<1>2. Prefetch(cur).status \in Status /\ Prefetch(cur).cur \in CursorType
  BY <1>1 DEF Prefetch, CursorType
<1> QED
  BY <1>2 DEF LeaveElement, Status, CursorType, NULL

-----------------------------------------------------------------------------
(***************************************************************************)
(* The inductive invariant: every zone is in order, the chain has exactly  *)
(* the live zones, and what the client holds is what the zones have in use *)
(* and the counter says.                                                   *)
(***************************************************************************)
UseOf(zs) == UNION {InUse(s, zs[s]) : s \in Slots}

GoodZones(zs) ==
  /\ zs \in [Slots -> [nb : 0 .. Stride - 1, used : Nat, free : Seq(Nat)]]
  /\ \A s \in Slots : ZoneOK(s, zs[s])

GoodChain(ch, zs) ==
  /\ ch \in Seq(Slots) /\ ch # <<>> /\ ch[1] = FirstSlot
  /\ \A i, j \in 1 .. Len(ch) : ch[i] = ch[j] => i = j
  /\ \A s \in Slots : (s \in Range(ch)) = (zs[s].nb > 0)
  /\ \A i \in 2 .. Len(ch) : zs[ch[i]].used > 0

ShelfInv ==
  /\ GoodZones(zone)
  /\ GoodChain(chain, zone)
  /\ held = UseOf(zone)
  /\ IsFiniteSet(held) /\ total_used = Cardinality(held)
  /\ cur \in CursorType
  /\ armed \in BOOLEAN
  /\ status \in Status

\* ys is zs with z for the zone of slot s.
ZoneChanged(zs, s, z, ys) ==
  /\ GoodZones(ys)
  /\ ys[s] = z /\ \A t \in Slots \ {s} : ys[t] = zs[t]
  /\ \A e \in Span(s, zs[s]) : e \in UseOf(zs) <=> e \in InUse(s, zs[s])
  /\ UseOf(ys) = (UseOf(zs) \ InUse(s, zs[s])) \cup InUse(s, z)

\* Changing one zone changes what is in use by what it changes there.
LEMMA UpdateZone ==
  ASSUME NEW zs, GoodZones(zs), NEW s \in Slots, NEW z, ZoneOK(s, z)
  PROVE  ZoneChanged(zs, s, z, [zs EXCEPT ![s] = z])
<1> DEFINE ys == [zs EXCEPT ![s] = z]
<1>1. zs \in [Slots -> [nb : 0 .. Stride - 1, used : Nat, free : Seq(Nat)]]
  BY DEF GoodZones
<1>2. z \in [nb : 0 .. Stride - 1, used : Nat, free : Seq(Nat)]
  BY DEF ZoneOK
<1>3. /\ ys \in [Slots -> [nb : 0 .. Stride - 1, used : Nat, free : Seq(Nat)]]
      /\ ys[s] = z /\ \A t \in Slots \ {s} : ys[t] = zs[t]
  BY <1>1, <1>2, Zenon
<1> HIDE DEF ys
<1>4. \A t \in Slots : ZoneOK(t, ys[t])
  BY <1>3 DEF GoodZones
<1>5. \A t \in Slots \ {s} : InUse(t, zs[t]) \cap Span(s, zs[s]) = {}
  <2> TAKE t \in Slots \ {s}
  <2>1. Span(t, zs[t]) \cap Span(s, zs[s]) = {}
    BY SpansDisjoint DEF GoodZones
  <2> QED
    BY <2>1 DEF InUse
<1>6. InUse(s, zs[s]) \subseteq Span(s, zs[s])
  BY DEF InUse
<1>7. \A e \in Span(s, zs[s]) : e \in UseOf(zs) <=> e \in InUse(s, zs[s])
  BY <1>5 DEF UseOf
<1>8. UseOf(ys) = (UseOf(zs) \ InUse(s, zs[s])) \cup InUse(s, z)
  <2>1. \A t \in Slots \ {s} : InUse(t, ys[t]) = InUse(t, zs[t])
    BY <1>3
  <2>2. InUse(s, ys[s]) = InUse(s, z)
    BY <1>3
  <2>3. \A t \in Slots \ {s} : InUse(t, zs[t]) \cap InUse(s, zs[s]) = {}
    BY <1>5, <1>6
  <2> QED
    BY <2>1, <2>2, <2>3 DEF UseOf
<1> QED
  BY <1>3, <1>4, <1>7, <1>8 DEF GoodZones, ys, ZoneChanged

\* What the chain's zones have in use is what all zones have in use.
LEMMA UseOnChain ==
  ASSUME NEW zs, NEW ch, GoodZones(zs), GoodChain(ch, zs)
  PROVE  UNION {Data(zs, s) \ Range(zs[s].free) : s \in Range(ch)} = UseOf(zs)
<1>1. Range(ch) \subseteq Slots
  BY DEF GoodChain, Range
<1>2. \A s \in Slots : Data(zs, s) \ Range(zs[s].free) = InUse(s, zs[s])
  BY DEF Data, InUse, Span
<1>3. \A s \in Slots \ Range(ch) : InUse(s, zs[s]) = {}
  <2> TAKE s \in Slots \ Range(ch)
  <2>1. s \in Nat /\ zs[s].nb \in Nat /\ ~(zs[s].nb > 0)
    BY SlotsAreNat DEF GoodChain, GoodZones
  <2>2. Span(s, zs[s]) = {}
    BY <2>1 DEF Span
  <2> QED
    BY <2>2 DEF InUse
<1> QED
  BY <1>1, <1>2, <1>3 DEF UseOf

\* The invariant has in it what the runs check.
LEMMA InvImplies ==
  ShelfInv => TypeOK /\ ChainExact /\ FreeListsSorted /\ HeldExact /\ SizeExact
              /\ NoEmptyZone
<1> SUFFICES ASSUME ShelfInv
             PROVE  TypeOK /\ ChainExact /\ FreeListsSorted /\ HeldExact
                    /\ SizeExact /\ NoEmptyZone
  OBVIOUS
<1>1. \A s \in Slots : ZoneOK(s, zone[s])
  BY DEF ShelfInv, GoodZones
<1>2. \A s \in Slots : Span(s, zone[s]) \subseteq Address
  BY <1>1, SpanInAddress
<1>3. FreeListsSorted
  BY <1>1 DEF FreeListsSorted, ZoneOK, Span, Data
<1>4. zone \in [Slots -> ZoneType]
  <2>1. ASSUME NEW s \in Slots PROVE zone[s] \in ZoneType
    <3>1. /\ zone[s] \in [nb : 0 .. Stride - 1, used : Nat, free : Seq(Nat)]
          /\ Range(zone[s].free) \subseteq Address
      BY <1>1, <1>2 DEF ZoneOK
    <3>2. zone[s].free \in Seq(Nat)
      BY <3>1
    <3>3. \A i \in 1 .. Len(zone[s].free) : zone[s].free[i] \in Address
      BY <3>1, <3>2 DEF Range
    <3>4. zone[s].free \in Seq(Address)
      BY <3>2, <3>3
    <3> QED
      BY <3>1, <3>4 DEF ZoneType
  <2> QED
    BY <2>1 DEF ShelfInv, GoodZones
<1>5. held \subseteq Address
  BY <1>2 DEF ShelfInv, UseOf, InUse
<1>6. total_used \in Int
  BY FS_CardinalityType DEF ShelfInv
<1>7. TypeOK
  BY <1>4, <1>5, <1>6 DEF TypeOK, ShelfInv, GoodChain, Status
<1>8. ChainExact /\ NoEmptyZone
  BY DEF ShelfInv, GoodChain, ChainExact, NoEmptyZone
<1>9. HeldExact
  BY UseOnChain DEF ShelfInv, HeldExact, Allocated
<1>10. SizeExact
  BY <1>1 DEF ShelfInv, SizeExact, ZoneOK
<1> QED
  BY <1>3, <1>7, <1>8, <1>9, <1>10

\* cntShelf_new and cntShelf_clear leave zones in order.
LEMMA FreshZonesGood ==
  GoodZones(FreshZones) /\ GoodChain(<<FirstSlot>>, FreshZones)
  /\ UseOf(FreshZones) = {}
<1>1. FirstSlot \in Slots /\ NbElements \in 1 .. Stride - 1 /\ Stride \in Nat
  BY ShelfAssumption
<1>2. /\ ZoneOK(FirstSlot, EmptyZone(FirstSlot, NbElements))
      /\ InUse(FirstSlot, EmptyZone(FirstSlot, NbElements)) = {}
      /\ EmptyZone(FirstSlot, NbElements).nb = NbElements
  BY <1>1, EmptyZoneOK
<1>3. \A s \in Slots : ZoneOK(s, NoZone) /\ InUse(s, NoZone) = {} /\ NoZone.nb = 0
  BY NoZoneOK
<1>4. \A s \in Slots : ZoneOK(s, FreshZones[s]) /\ InUse(s, FreshZones[s]) = {}
  BY <1>2, <1>3 DEF FreshZones
<1>5. GoodZones(FreshZones)
  BY <1>4 DEF GoodZones, ZoneOK, FreshZones
<1>6. \A s \in Slots : (s = FirstSlot) = (FreshZones[s].nb > 0)
  BY <1>1, <1>2, <1>3 DEF FreshZones
<1>7. Range(<<FirstSlot>>) = {FirstSlot}
  BY DEF Range
<1>8. GoodChain(<<FirstSlot>>, FreshZones)
  BY <1>1, <1>6, <1>7 DEF GoodChain
<1>9. UseOf(FreshZones) = {}
  BY <1>4 DEF UseOf
<1> QED
  BY <1>5, <1>8, <1>9

-----------------------------------------------------------------------------
(***************************************************************************)
(* The steps.                                                              *)
(***************************************************************************)
LEMMA InvInit == ShelfInit => ShelfInv
<1> SUFFICES ASSUME ShelfInit PROVE ShelfInv
  OBVIOUS
<1>1. NoCursor \in CursorType
  BY DEF NoCursor, CursorType, NULL
<1>2. IsFiniteSet({}) /\ Cardinality({}) = 0
  BY FS_EmptySet
<1> QED
  BY <1>1, <1>2, FreshZonesGood DEF ShelfInit, ShelfInv, Status

\* Clear, and del followed by new, establish the invariant.
LEMMA InvRestart ==
  ASSUME ShelfInv, Restart, cur' \in CursorType PROVE ShelfInv'
<1>1. IsFiniteSet({}) /\ Cardinality({}) = 0
  BY FS_EmptySet
<1> QED
  BY <1>1, FreshZonesGood DEF Restart, ShelfInv, Status

\* The walk of line 128 ends on a zone, which has room or is the last one.
LEMMA AllocZoneExact ==
  ASSUME ShelfInv
  PROVE  /\ AllocZone \in Slots /\ AllocZone \in Range(chain)
         /\ zone[AllocZone].nb > 0
<1>1. /\ chain \in Seq(Slots) /\ Len(chain) \in Nat \ {0}
      /\ \A i \in 1 .. Len(chain) : chain[i] \in Slots
  BY DEF ShelfInv, GoodChain
<1> DEFINE T == {i \in 1 .. Len(chain) : i = Len(chain) \/ zone[chain[i]].free # <<>>}
<1>2. T \subseteq Nat /\ Len(chain) \in T
  BY <1>1
<1>3. PICK n \in T : \A m \in T : n =< m
  BY <1>2, LeastNat
<1>4. \A j \in 1 .. n - 1 : j \in 1 .. Len(chain) /\ j \notin T
  BY <1>1, <1>2, <1>3
<1>5. \A j \in 1 .. n - 1 : zone[chain[j]].free = <<>>
  BY <1>4
<1>6. \E i \in 1 .. Len(chain) : AllocZone = chain[i]
  BY <1>3, <1>5 DEF AllocZone
<1> QED
  BY <1>1, <1>6 DEF Range, ShelfInv, GoodChain

\* Line 145 keeps the type of the cursor.
LEMMA AdvanceFreeType ==
  ASSUME NEW c \in CursorType, NEW fl \in Seq(Nat)
  PROVE  AdvanceFree(c, fl) \in CursorType
<1>1. LinkAfter(fl, 1) \in Nat
  BY DEF LinkAfter, NULL
<1> QED
  BY <1>1 DEF AdvanceFree, CursorType

\* Taking an element of a zone: the zones stay in order, and the client holds
\* one element more, which nobody held.
LEMMA TakeStep ==
  ASSUME ShelfInv, NEW zs, GoodZones(zs), UseOf(zs) = held,
         NEW s \in Slots, zs[s].free # <<>>, Take(zs, s)
  PROVE  /\ GoodZones(zone')
         /\ zone'[s].nb = zs[s].nb /\ zone'[s].used = zs[s].used + 1
         /\ \A t \in Slots \ {s} : zone'[t] = zs[t]
         /\ held' = UseOf(zone')
         /\ IsFiniteSet(held') /\ total_used' = Cardinality(held')
         /\ cur' \in CursorType /\ armed' \in BOOLEAN /\ status' \in Status
         /\ \E e \in Address \ held : held' = held \cup {e}
<1> DEFINE y == [zs[s] EXCEPT !.free = Tail(zs[s].free), !.used = zs[s].used + 1]
           e == Head(zs[s].free)
<1>1. /\ ZoneOK(s, zs[s])
      /\ zs \in [Slots -> [nb : 0 .. Stride - 1, used : Nat, free : Seq(Nat)]]
  BY DEF GoodZones
<1>2. /\ ZoneOK(s, y) /\ InUse(s, y) = InUse(s, zs[s]) \cup {e}
      /\ e \in Span(s, zs[s]) /\ y.nb = zs[s].nb /\ y.used = zs[s].used + 1
  BY <1>1, TakeOK
<1>3. zone' = [zs EXCEPT ![s] = y]
  BY <1>1 DEF Take
<1>4. zs[s].free \in Seq(Nat) /\ e \in Range(zs[s].free)
  BY <1>1, TakenListSorted DEF ZoneOK
<1>5. held' = held \cup {e} /\ total_used' = total_used + 1
  BY DEF Take
<1>6. cur' \in CursorType /\ armed' \in BOOLEAN /\ status' \in Status
  BY <1>4, AdvanceFreeType DEF Take, ShelfInv
<1> HIDE DEF y, e
<1>7. /\ GoodZones(zone') /\ zone'[s] = y
      /\ \A t \in Slots \ {s} : zone'[t] = zs[t]
      /\ e \in UseOf(zs) <=> e \in InUse(s, zs[s])
      /\ UseOf(zone') = (UseOf(zs) \ InUse(s, zs[s])) \cup InUse(s, y)
  <2>1. ZoneChanged(zs, s, y, [zs EXCEPT ![s] = y])
    BY <1>2, UpdateZone
  <2>2. ZoneChanged(zs, s, y, zone')
    BY <2>1, <1>3
  <2> QED
    BY <2>2, <1>2 DEF ZoneChanged
<1>8. InUse(s, zs[s]) \subseteq UseOf(zs)
  BY DEF UseOf
<1>9. UseOf(zone') = held \cup {e} /\ e \notin held
  BY <1>2, <1>4, <1>7, <1>8 DEF InUse
<1>10. IsFiniteSet(held') /\ Cardinality(held') = Cardinality(held) + 1
  BY <1>5, <1>9, FS_AddElement DEF ShelfInv
<1>11. e \in Address
  BY <1>1, <1>2, SpanInAddress
<1> QED
  BY <1>2, <1>5, <1>6, <1>7, <1>9, <1>10, <1>11 DEF ShelfInv

\* An alloc from a zone that has room keeps the invariant.
LEMMA InvAllocInZone ==
  ASSUME ShelfInv, AllocInZone
  PROVE  ShelfInv' /\ \E e \in Address \ held : held' = held \cup {e}
<1> DEFINE s == AllocZone
<1>1. s \in Slots /\ zone[s].free # <<>> /\ Take(zone, s) /\ chain' = chain
  BY AllocZoneExact DEF AllocInZone
<1> HIDE DEF s
<1>2. /\ GoodZones(zone')
      /\ zone'[s].nb = zone[s].nb /\ zone'[s].used = zone[s].used + 1
      /\ \A t \in Slots \ {s} : zone'[t] = zone[t]
      /\ held' = UseOf(zone')
      /\ IsFiniteSet(held') /\ total_used' = Cardinality(held')
      /\ cur' \in CursorType /\ armed' \in BOOLEAN /\ status' \in Status
      /\ \E e \in Address \ held : held' = held \cup {e}
  BY <1>1, TakeStep DEF ShelfInv
<1>3. \A t \in Slots : zone'[t].nb = zone[t].nb
  BY <1>2
<1>4. \A t \in Slots : zone[t].used > 0 => zone'[t].used > 0
  <2>1. \A t \in Slots : zone[t].used \in Nat
    BY DEF ShelfInv, GoodZones
  <2> QED
    BY <1>2, <2>1
<1>5. \A i \in 1 .. Len(chain) : chain[i] \in Slots
  BY DEF ShelfInv, GoodChain
<1>6. GoodChain(chain', zone')
  <2>1. \A i \in 2 .. Len(chain) : zone[chain[i]].used > 0 /\ i \in 1 .. Len(chain)
    BY DEF ShelfInv, GoodChain
  <2>2. \A i \in 2 .. Len(chain) : zone'[chain[i]].used > 0
    BY <2>1, <1>4, <1>5
  <2> QED
    BY <2>2, <1>1, <1>3 DEF ShelfInv, GoodChain
<1> QED
  BY <1>2, <1>6 DEF ShelfInv

\* An alloc that appends a zone keeps the invariant.
LEMMA InvAllocNewZone ==
  ASSUME ShelfInv, NEW s \in Slots, AllocNewZone(s)
  PROVE  ShelfInv' /\ \E e \in Address \ held : held' = held \cup {e}
<1> DEFINE n == NewSize(zone[AllocZone].nb)
           zs == [zone EXCEPT ![s] = EmptyZone(s, n)]
<1>1. /\ s \notin Range(chain) /\ n < Stride
      /\ chain' = Append(chain, s) /\ Take(zs, s)
  BY DEF AllocNewZone
<1>2. n \in 1 .. Stride - 1
  <2>1. AllocZone \in Slots /\ zone[AllocZone].nb \in Nat
    BY AllocZoneExact DEF ShelfInv, GoodZones
  <2>2. n \in Nat /\ n > 0
    BY <2>1 DEF NewSize
  <2> QED
    BY <1>1, <2>2, ShelfAssumption
<1> HIDE DEF n
<1>3. /\ ZoneOK(s, EmptyZone(s, n)) /\ InUse(s, EmptyZone(s, n)) = {}
      /\ EmptyZone(s, n).free # <<>>
      /\ EmptyZone(s, n).used = 0 /\ EmptyZone(s, n).nb = n
  BY <1>2, EmptyZoneOK
<1>4. /\ GoodZones(zs) /\ zs[s] = EmptyZone(s, n)
      /\ \A t \in Slots \ {s} : zs[t] = zone[t]
      /\ UseOf(zs) = (UseOf(zone) \ InUse(s, zone[s])) \cup InUse(s, EmptyZone(s, n))
  <2>1. ZoneChanged(zone, s, EmptyZone(s, n), zs)
    BY <1>3, UpdateZone DEF ShelfInv
  <2> HIDE DEF zs
  <2> QED
    BY <2>1 DEF ZoneChanged
<1> HIDE DEF zs
<1>5. InUse(s, zone[s]) = {}
  <2>1. s \in Nat /\ zone[s].nb \in Nat /\ ~(zone[s].nb > 0)
    BY <1>1, SlotsAreNat DEF ShelfInv, GoodChain, GoodZones
  <2>2. Span(s, zone[s]) = {}
    BY <2>1 DEF Span
  <2> QED
    BY <2>2 DEF InUse
<1>6. UseOf(zs) = held
  BY <1>3, <1>4, <1>5 DEF ShelfInv
<1>7. /\ GoodZones(zone')
      /\ zone'[s].nb = zs[s].nb /\ zone'[s].used = zs[s].used + 1
      /\ \A t \in Slots \ {s} : zone'[t] = zs[t]
      /\ held' = UseOf(zone')
      /\ IsFiniteSet(held') /\ total_used' = Cardinality(held')
      /\ cur' \in CursorType /\ armed' \in BOOLEAN /\ status' \in Status
      /\ \E e \in Address \ held : held' = held \cup {e}
  BY <1>1, <1>3, <1>4, <1>6, TakeStep
<1>8. /\ zone'[s].nb > 0 /\ zone'[s].used > 0
      /\ \A t \in Slots \ {s} : zone'[t] = zone[t]
  BY <1>2, <1>3, <1>4, <1>7
<1>9. GoodChain(chain', zone')
  <2>1. /\ chain \in Seq(Slots) /\ chain # <<>> /\ chain[1] = FirstSlot
        /\ Len(chain) \in Nat \ {0} /\ DOMAIN chain = 1 .. Len(chain)
        /\ \A i, j \in 1 .. Len(chain) : chain[i] = chain[j] => i = j
        /\ \A t \in Slots : (t \in Range(chain)) = (zone[t].nb > 0)
        /\ \A i \in 2 .. Len(chain) : zone[chain[i]].used > 0
    BY DEF ShelfInv, GoodChain
  <2>2. /\ chain' \in Seq(Slots) /\ chain' # <<>>
        /\ Len(chain') = Len(chain) + 1
        /\ \A i \in 1 .. Len(chain) : chain'[i] = chain[i]
        /\ chain'[Len(chain) + 1] = s
        /\ Range(chain') = Range(chain) \cup {s}
    <3>1. s \notin Range(chain) /\ NoRepeat(chain)
      BY <1>1, <2>1 DEF NoRepeat
    <3> QED
      BY <3>1, <1>1, <2>1, AppendExact
  <2>3. \A i \in 1 .. Len(chain) : chain[i] # s /\ chain[i] \in Slots
    BY <1>1, <2>1 DEF Range
  <2>4. \A i, j \in 1 .. Len(chain') : chain'[i] = chain'[j] => i = j
    BY <2>1, <2>2, <2>3
  <2>5. \A t \in Slots : (t \in Range(chain')) = (zone'[t].nb > 0)
    BY <2>1, <2>2, <1>8
  <2>6. ASSUME NEW i \in 2 .. Len(chain') PROVE zone'[chain'[i]].used > 0
    <3>1. CASE i = Len(chain) + 1
      BY <3>1, <2>2, <1>8
    <3>2. CASE i # Len(chain) + 1
      <4>1. i \in 2 .. Len(chain) /\ i \in 1 .. Len(chain)
        BY <3>2, <2>1, <2>2
      <4> QED
        BY <4>1, <2>1, <2>2, <2>3, <1>8
    <3> QED
      BY <3>1, <3>2
  <2>7. chain'[1] = FirstSlot
    BY <2>1, <2>2
  <2> QED
    BY <2>2, <2>4, <2>5, <2>6, <2>7 DEF GoodChain
<1> QED
  BY <1>7, <1>9 DEF ShelfInv

\* Lines 188-203 keep the type of the cursor.
LEMMA CursorAfterFreeType ==
  ASSUME NEW c \in CursorType, NEW s, NEW fl, NEW v \in Nat
  PROVE  CursorAfterFree(c, s, fl, v) \in CursorType
BY DEF CursorAfterFree, CursorType

\* Freeing an element in use takes it, and no other, out of what is held.
LEMMA InvFreeInZone ==
  ASSUME ShelfInv, NEW s \in Range(chain), NEW v \in Data(zone, s),
         v \notin Range(zone[s].free), zone[s].used > 0,
         NEW c \in CursorType, FreeInZone(s, v, c)
  PROVE  ShelfInv' /\ v \in held /\ held' = held \ {v}
<1>1. /\ chain \in Seq(Slots) /\ chain # <<>> /\ chain[1] = FirstSlot
      /\ Len(chain) \in Nat \ {0} /\ DOMAIN chain = 1 .. Len(chain)
      /\ \A j, k \in 1 .. Len(chain) : chain[j] = chain[k] => j = k
      /\ \A t \in Slots : (t \in Range(chain)) = (zone[t].nb > 0)
      /\ \A j \in 2 .. Len(chain) : zone[chain[j]].used > 0
  BY DEF ShelfInv, GoodChain
<1>2. s \in Slots /\ s \in Nat
  BY <1>1, SlotsAreNat DEF Range
<1>3. /\ ZoneOK(s, zone[s]) /\ zone[s].used \in Nat /\ zone[s].nb \in Nat
      /\ \A t \in Slots : zone[t].used \in Nat
  BY <1>2 DEF ShelfInv, GoodZones
<1>4. v \in InUse(s, zone[s]) /\ v \in Span(s, zone[s]) /\ v \in Nat
  BY <1>2, <1>3 DEF Data, InUse, Span
<1>5. v \in held
  BY <1>2, <1>4 DEF ShelfInv, UseOf
<1>6. held' = held \ {v} /\ total_used' = total_used - 1
  BY DEF FreeInZone
<1>7. IsFiniteSet(held') /\ Cardinality(held') = Cardinality(held) - 1
  BY <1>5, <1>6, FS_RemoveElement DEF ShelfInv
<1>8. cur' \in CursorType /\ armed' \in BOOLEAN /\ status' \in Status
  BY <1>4, CursorAfterFreeType DEF FreeInZone, ShelfInv
<1>9. ASSUME NEW z, ZoneChanged(zone, s, z, zone'), InUse(s, z) = InUse(s, zone[s]) \ {v}
      PROVE  GoodZones(zone') /\ held' = UseOf(zone')
  <2>1. InUse(s, zone[s]) \subseteq UseOf(zone)
    BY <1>2 DEF UseOf
  <2>2. UseOf(zone') = UseOf(zone) \ {v}
    BY <2>1, <1>4, <1>9 DEF ZoneChanged
  <2> QED
    BY <2>2, <1>6, <1>9 DEF ZoneChanged, ShelfInv
<1>10. CASE ~ Unlinks(s)
  <2> DEFINE z == FreedZone(s, v)
  <2>1. chain' = chain /\ zone' = [zone EXCEPT ![s] = z]
    BY <1>10 DEF FreeInZone
  <2>2. z = [zone[s] EXCEPT
               !.free = InsertAt(zone[s].free, InsertionPoint(zone[s].free, v), v),
               !.used = zone[s].used - 1]
    BY <1>3 DEF FreedZone, ZoneOK
  <2>3. /\ ZoneOK(s, z) /\ InUse(s, z) = InUse(s, zone[s]) \ {v}
        /\ z.nb = zone[s].nb /\ z.used = zone[s].used - 1
    <3>1. ZoneFreed(s, zone[s], v, z)
      <4> DEFINE w == zone[s]
      <4>1. ZoneOK(s, w) /\ w.used > 0 /\ v \in InUse(s, w)
        BY <1>3, <1>4
      <4> HIDE DEF w
      <4>2. ZoneFreed(s, w, v,
              [w EXCEPT !.free = InsertAt(w.free, InsertionPoint(w.free, v), v),
                        !.used = w.used - 1])
        BY <4>1, <1>2, FreedOK
      <4> QED
        BY <4>2, <2>2 DEF w
    <3> HIDE DEF z
    <3> QED
      BY <3>1 DEF ZoneFreed
  <2> HIDE DEF z
  <2>4. ZoneChanged(zone, s, z, zone')
    BY <2>1, <2>3, <1>2, UpdateZone DEF ShelfInv
  <2>5. GoodZones(zone') /\ held' = UseOf(zone')
    BY <2>3, <2>4, <1>9
  <2>6. zone'[s] = z /\ \A t \in Slots \ {s} : zone'[t] = zone[t]
    BY <2>4 DEF ZoneChanged
  <2>7. \A t \in Slots : zone'[t].nb = zone[t].nb
    BY <2>3, <2>6
  <2>8. ASSUME NEW j \in 2 .. Len(chain) PROVE zone'[chain[j]].used > 0
    <3>1. j \in 1 .. Len(chain) /\ chain[j] \in Slots /\ zone[chain[j]].used > 0
          /\ chain[j] # FirstSlot
      BY <1>1
    <3>2. chain[j] = s => zone[s].used > 1
      BY <3>1, <1>3, <1>10 DEF Unlinks
    <3> QED
      BY <3>1, <3>2, <2>3, <2>6, <1>3
  <2>9. GoodChain(chain', zone')
    BY <2>1, <2>7, <2>8, <1>1 DEF GoodChain
  <2> QED
    BY <2>5, <2>9, <1>5, <1>6, <1>7, <1>8 DEF ShelfInv
<1>11. CASE Unlinks(s)
  <2>1. zone[s].used = 1 /\ s # FirstSlot
    BY <1>11 DEF Unlinks
  <2>2. chain' = RemoveAt(chain, PlaceOf(s)) /\ zone' = [zone EXCEPT ![s] = NoZone]
    BY <1>11 DEF FreeInZone
  <2> DEFINE i == PlaceOf(s)
  <2>3. i \in 1 .. Len(chain) /\ chain[i] = s
    BY <1>1 DEF PlaceOf, Range
  <2> HIDE DEF i
  <2>4. InUse(s, zone[s]) = {v}
    BY <2>1, <1>2, <1>3, <1>4, LastInUse
  <2>5. /\ ZoneOK(s, NoZone) /\ InUse(s, NoZone) = {} /\ NoZone.nb = 0
    BY <1>2, NoZoneOK
  <2>6. ZoneChanged(zone, s, NoZone, zone')
    BY <2>2, <2>5, <1>2, UpdateZone DEF ShelfInv
  <2>7. GoodZones(zone') /\ held' = UseOf(zone')
    BY <2>4, <2>5, <2>6, <1>9
  <2>8. zone'[s] = NoZone /\ \A t \in Slots \ {s} : zone'[t] = zone[t]
    BY <2>6 DEF ZoneChanged
  <2>9. /\ chain' \in Seq(Slots) /\ Len(chain') = Len(chain) - 1
        /\ \A j \in 1 .. Len(chain) - 1 :
             chain'[j] = IF j < i THEN chain[j] ELSE chain[j + 1]
        /\ \A j, k \in 1 .. Len(chain') : chain'[j] = chain'[k] => j = k
        /\ Range(chain') = Range(chain) \ {s}
    <3>1. NoRepeat(chain)
      BY <1>1 DEF NoRepeat
    <3>2. /\ chain' \in Seq(Slots) /\ Len(chain') = Len(chain) - 1
          /\ RemovedAt(chain, Len(chain), i, chain')
      BY <2>2, <2>3, <1>1, RemoveAtExact DEF i
    <3>3. NoRepeat(chain') /\ Range(chain') = Range(chain) \ {chain[i]}
      BY <3>1, <2>2, <2>3, <1>1, RemoveOld DEF i
    <3>4. /\ \A j \in 1 .. Len(chain) - 1 :
                chain'[j] = IF j < i THEN chain[j] ELSE chain[j + 1]
          /\ Range(chain') = Range(chain) \ {s}
      BY <3>2, <3>3, <2>3 DEF RemovedAt
    <3>5. \A j, k \in 1 .. Len(chain') : chain'[j] = chain'[k] => j = k
      BY <3>3 DEF NoRepeat
    <3> QED
      BY <3>2, <3>4, <3>5
  <2>10. i > 1
    BY <2>1, <2>3, <1>1
  <2>11. chain'[1] = FirstSlot /\ chain' # <<>>
    BY <2>3, <2>9, <2>10, <1>1
  <2>12. \A t \in Slots : (t \in Range(chain')) = (zone'[t].nb > 0)
    BY <2>5, <2>8, <2>9, <1>1
  <2>13. ASSUME NEW j \in 2 .. Len(chain') PROVE zone'[chain'[j]].used > 0
    <3>1. PICK k \in 2 .. Len(chain) : chain'[j] = chain[k] /\ k # i
      BY <2>3, <2>9, <1>1
    <3>2. chain[k] # s /\ chain[k] \in Slots /\ k \in 1 .. Len(chain)
      BY <3>1, <2>3, <1>1
    <3> QED
      BY <3>1, <3>2, <2>8, <1>1
  <2>14. GoodChain(chain', zone')
    BY <2>9, <2>11, <2>12, <2>13 DEF GoodChain
  <2> QED
    BY <2>7, <2>14, <1>5, <1>6, <1>7, <1>8 DEF ShelfInv
<1> QED
  BY <1>10, <1>11

\* What the lemmas about the cursor ask of a state, the invariant has.
LEMMA CursorStays ==
  ASSUME ShelfInv
  PROVE  /\ chain \in Seq(Slots) /\ \A s \in Slots : zone[s].free \in Seq(Nat)
         /\ cur \in CursorType
BY DEF ShelfInv, GoodChain, GoodZones

\* Any free, of an address held or not: either the abstract set loses exactly
\* that element, or it stays as it is.
LEMMA InvFree ==
  ASSUME ShelfInv, NEW v, Free(v)
  PROVE  /\ ShelfInv'
         /\ \/ v \in held /\ held' = held \ {v}
            \/ held' = held
<1>1. /\ LeaveElement(cur, v).status \in Status
      /\ LeaveElement(cur, v).cur \in CursorType
  BY CursorStays, LeaveElementType
<1> DEFINE c == LeaveElement(cur, v).cur
<1>2. CASE \E st \in Status : FreeFails(st)
  BY <1>2 DEF FreeFails, ShelfInv
<1>3. CASE FreeNothing(c)
  BY <1>1, <1>3 DEF FreeNothing, ShelfInv
<1>4. CASE \E s \in Range(chain) : /\ v \in Data(zone, s)
                                  /\ zone[s].used > 0 /\ v \notin Range(zone[s].free)
                                  /\ FreeInZone(s, v, c)
  BY <1>1, <1>4, InvFreeInZone
<1>5. \/ \E st \in Status : FreeFails(st)
      \/ FreeNothing(c)
      \/ \E s \in Range(chain) : /\ v \in Data(zone, s)
                                  /\ zone[s].used > 0 /\ v \notin Range(zone[s].free)
                                  /\ FreeInZone(s, v, c)
  <2>1. "assert" \in Status
    BY DEF Status
  <2> QED
    BY <1>1, <2>1 DEF Free
<1> QED
  BY <1>2, <1>3, <1>4, <1>5

\* Reset, each and islast keep the invariant.
LEMMA InvWalk ==
  ASSUME ShelfInv, Walk PROVE ShelfInv' /\ held' = held
<1>1. CASE Reset
  <2>1. FirstFree(zone, FirstSlot) \in Nat /\ FirstSlot \in Slots
    BY CursorStays, FirstFreeType, ShelfAssumption
  <2>2. cur' \in CursorType
    BY <1>1, <2>1 DEF Reset, CursorType, NULL
  <2> QED
    BY <1>1, <2>2 DEF Reset, ShelfInv
<1>2. CASE Each
  <2>1. EachResult(cur).status \in Status /\ EachResult(cur).cur \in CursorType
    BY CursorStays, EachResultType
  <2> QED
    BY <1>2, <2>1 DEF Each, MoveTo, ShelfInv
<1>3. CASE IsLast
  <2>1. /\ EachResult(cur).status \in Status /\ EachResult(cur).ret \in Nat
        /\ EachResult(cur).cur \in CursorType
    BY CursorStays, EachResultType
  <2>2. Prefetch(cur).status \in Status /\ Prefetch(cur).cur \in CursorType
    BY <2>1 DEF Prefetch, CursorType
  <2> QED
    BY <1>3, <2>2 DEF IsLast, MoveTo, ShelfInv
<1> QED
  BY <1>1, <1>2, <1>3 DEF Walk

\* Every step of any client keeps the invariant and is a step of the set.
LEMMA InvStep ==
  ASSUME ShelfInv, AnyNext
  PROVE  /\ ShelfInv'
         /\ \/ \E e \in Address \ held : held' = held \cup {e}
            \/ \E e \in held : held' = held \ {e}
            \/ held' = {}
            \/ held' = held
<1>1. CASE Alloc
  BY <1>1, InvAllocInZone, InvAllocNewZone DEF Alloc
<1>2. ASSUME NEW v, Free(v)
      PROVE  ShelfInv' /\ ((v \in held /\ held' = held \ {v}) \/ held' = held)
  BY <1>2, InvFree
<1>3. CASE Clear \/ Renew
  <2>1. Restart /\ cur' \in CursorType
    <3>1. NoCursor \in CursorType /\ cur \in CursorType
      BY DEF NoCursor, CursorType, NULL, ShelfInv
    <3> QED
      BY <1>3, <3>1 DEF Clear, Renew
  <2>2. held' = {}
    BY <2>1 DEF Restart
  <2> QED
    BY <2>1, <2>2, InvRestart
<1>4. CASE Walk
  BY <1>4, InvWalk
<1> QED
  BY <1>1, <1>2, <1>3, <1>4 DEF AnyNext, ShelfNext

-----------------------------------------------------------------------------
\* The invariant holds of every run of every client, one that frees any
\* address any number of times included.
THEOREM ShelfSafe == AnySpec => []ShelfInv
<1>1. ShelfInit => ShelfInv
  BY InvInit
<1>2. ShelfInv /\ [AnyNext]_shelfVars => ShelfInv'
  <2> SUFFICES ASSUME ShelfInv, [AnyNext]_shelfVars PROVE ShelfInv'
    OBVIOUS
  <2>1. CASE AnyNext
    BY <2>1, InvStep
  <2>2. CASE UNCHANGED shelfVars
    BY <2>2 DEF shelfVars, ShelfInv
  <2> QED
    BY <2>1, <2>2
<1> QED
  BY <1>1, <1>2, PTL DEF AnySpec

\* The variables keep their types.
THEOREM ShelfTyped == AnySpec => []TypeOK
BY ShelfSafe, InvImplies, PTL

\* cntShelf_alloc and cntShelf_free: the elements handed out are exactly those
\* on no free list of a live zone, so none is handed out twice or lost.
THEOREM ShelfHeldExact == AnySpec => []HeldExact
BY ShelfSafe, InvImplies, PTL

\* cntShelf_free keeps every free list sorted and inside its zone.
THEOREM ShelfListsSorted == AnySpec => []FreeListsSorted
BY ShelfSafe, InvImplies, PTL

\* cntShelf_size counts the elements; the counters of the zones are exact.
THEOREM ShelfSizeExact == AnySpec => []SizeExact
BY ShelfSafe, InvImplies, PTL

\* The chain has each live zone once, none of them empty but the first.
THEOREM ShelfChainExact == AnySpec => [](ChainExact /\ NoEmptyZone)
BY ShelfSafe, InvImplies, PTL

\* The shelf implements the set of elements that shelf.h describes.
THEOREM ShelfImplementsSet == AnySpec => ImplementsSet
<1>1. ShelfInit => Set!SetInit
  <2> SUFFICES ASSUME ShelfInit PROVE Set!SetInit
    OBVIOUS
  <2>1. Allocated = UseOf(FreshZones) /\ total_used = 0
    BY FreshZonesGood, UseOnChain DEF ShelfInit, Allocated
  <2> QED
    BY <2>1, FreshZonesGood DEF Set!SetInit
<1>2. ShelfInv /\ ShelfInv' /\ [AnyNext]_shelfVars => [Set!SetNext]_(Set!setVars)
  <2> SUFFICES ASSUME ShelfInv, ShelfInv', [AnyNext]_shelfVars
               PROVE  [Set!SetNext]_(Set!setVars)
    OBVIOUS
  <2>1. Allocated = held
    BY UseOnChain DEF ShelfInv, Allocated
  <2>2. Allocated' = held'
    BY UseOnChain DEF ShelfInv, Allocated
  <2>3. /\ total_used = Cardinality(held) /\ IsFiniteSet(held)
        /\ total_used' = Cardinality(held')
    BY DEF ShelfInv
  <2>4. CASE UNCHANGED shelfVars
    BY <2>4, <2>1, <2>2 DEF shelfVars, Set!setVars, ShelfInv
  <2>5. CASE \E e \in Address \ held : held' = held \cup {e}
    <3>1. PICK e \in Address \ held : held' = held \cup {e}
      BY <2>5
    <3>2. total_used' = total_used + 1
      BY <2>3, <3>1, FS_AddElement
    <3> QED
      BY <2>1, <2>2, <3>1, <3>2 DEF Set!SetNext, Set!SetAlloc
  <2>6. CASE \E e \in held : held' = held \ {e}
    <3>1. PICK e \in held : held' = held \ {e}
      BY <2>6
    <3>2. total_used' = total_used - 1
      BY <2>3, <3>1, FS_RemoveElement
    <3> QED
      BY <2>1, <2>2, <3>1, <3>2 DEF Set!SetNext, Set!SetFree
  <2>7. CASE held' = {}
    <3>1. total_used' = 0
      BY <2>3, <2>7, FS_EmptySet
    <3> QED
      BY <2>2, <2>7, <3>1 DEF Set!SetNext, Set!SetClear
  <2>8. CASE held' = held
    BY <2>1, <2>2, <2>3, <2>8 DEF Set!setVars
  <2> QED
    BY <2>4, <2>5, <2>6, <2>7, <2>8, InvStep
<1> QED
  BY <1>1, <1>2, ShelfSafe, PTL DEF AnySpec, ImplementsSet, Set!SetSpec
=============================================================================
