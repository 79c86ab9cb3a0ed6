----------------------------- MODULE ListProof -----------------------------
(***************************************************************************)
(* Theorems about List, for any elements, values and CacheBeyond: the      *)
(* invariants of the run list, its property of cntList_remove_by_value,    *)
(* and that the links are the sequence that list.h promises.               *)
(*                                                                         *)
(* The invariant ListInv says that the links spell order, that what is     *)
(* cached is at the order it is cached with, and that no operation of this *)
(* client dereferences NULL.  The three hold only together: an operation   *)
(* by order is right because the cache is, and leaves a cache that is      *)
(* right because the links are.                                            *)
(***************************************************************************)
EXTENDS List, CommonLemmas

\* The entry of s at i, and NULL on either side of s.
EntryAt(s, i) == IF i \in 1 .. Len(s) THEN s[i] ELSE NULL

LinkMap(f) == f \in [Element -> Link]

\* The links spell s.
Chain(s, f, l, nx, pv) ==
  /\ s \in Seq(Element) /\ NoRepeat(s)
  /\ LinkMap(nx) /\ LinkMap(pv)
  /\ f = EntryAt(s, 1) /\ l = EntryAt(s, Len(s))
  /\ \A i \in 1 .. Len(s) : nx[s[i]] = EntryAt(s, i + 1) /\ pv[s[i]] = EntryAt(s, i - 1)

GoodCache(c, s) ==
  c.at # NULL => c.order \in 0 .. Len(s) - 1 /\ s[c.order + 1] = c.at

\* An entry is not NULL, what is beside the sequence is.
LEMMA EntryIsElement ==
  ASSUME NEW s \in Seq(Element), NEW i \in Int
  PROVE  /\ EntryAt(s, i) \in Link
         /\ EntryAt(s, i) # NULL <=> i \in 1 .. Len(s)
         /\ i \in 1 .. Len(s) => EntryAt(s, i) = s[i] /\ s[i] \in Element /\ s[i] # NULL
<1>1. \A j \in 1 .. Len(s) : s[j] \in Element /\ s[j] # NULL
  BY ListAssumption
<1> QED
  BY <1>1 DEF EntryAt, Link

\* What a link written does, and one written if there is an element.
LEMMA LinkWritten ==
  ASSUME NEW f, LinkMap(f), NEW p \in Element, NEW q \in Link
  PROVE  /\ LinkMap([f EXCEPT ![p] = q])
         /\ \A x \in Element : [f EXCEPT ![p] = q][x] = IF x = p THEN q ELSE f[x]
BY DEF LinkMap

LEMMA LinkToExact ==
  ASSUME NEW f, LinkMap(f), NEW p \in Link, NEW q \in Link
  PROVE  /\ LinkMap(LinkTo(f, p, q))
         /\ \A x \in Element : LinkTo(f, p, q)[x] = IF x = p THEN q ELSE f[x]
<1>1. CASE p = NULL
  BY <1>1, ListAssumption DEF LinkTo, LinkMap
<1>2. CASE p # NULL
  BY <1>2 DEF LinkTo, Link, LinkMap
<1> QED
  BY <1>1, <1>2

\* The links of a list are double links as CommonLemmas has them.
LEMMA ChainSpells ==
  ASSUME NEW s, NEW f, NEW l, NEW nx, NEW pv
  PROVE  Chain(s, f, l, nx, pv) <=> Spells(Element, NULL, s, f, l, nx, pv)
<1>1. \A i : EntryAt(s, i) = EntryOf(NULL, s, i)
  BY DEF EntryAt, EntryOf
<1>2. \A g : LinkMap(g) <=> LinkMapOf(Element, NULL, g)
  BY DEF LinkMap, LinkMapOf, Link
<1> QED
  BY <1>1, <1>2 DEF Chain, Spells

\* Push links n at the end.
LEMMA ChainPushed ==
  ASSUME NEW s, NEW f, NEW l, NEW nx, NEW pv, Chain(s, f, l, nx, pv),
         NEW n \in Element, n \notin Range(s), nx[n] = NULL
  PROVE  Chain(Append(s, n), IF l = NULL THEN n ELSE f, n,
               LinkTo(nx, l, n), [pv EXCEPT ![n] = l])
<1> DEFINE nx2 == LinkTo(nx, l, n)
           pv2 == [pv EXCEPT ![n] = l]
<1>1. /\ s \in Seq(Element) /\ LinkMap(nx) /\ LinkMap(pv)
      /\ l = EntryAt(s, Len(s)) /\ Len(s) \in Nat
  BY DEF Chain
<1>2. l \in Link /\ n \in Link /\ n # l
  <2>1. l \in Link
    BY <1>1, EntryIsElement
  <2>2. l # NULL => l = s[Len(s)] /\ Len(s) \in 1 .. Len(s)
    BY <1>1 DEF EntryAt
  <2>3. \A j \in 1 .. Len(s) : s[j] # n
    BY <1>1, RangeOf
  <2> QED
    BY <2>1, <2>2, <2>3, ListAssumption DEF Link
<1>3. /\ LinkMap(nx2) /\ \A x \in Element : nx2[x] = IF x = l THEN n ELSE nx[x]
      /\ LinkMap(pv2) /\ \A x \in Element : pv2[x] = IF x = n THEN l ELSE pv[x]
  BY <1>1, <1>2, LinkToExact, LinkWritten
<1> HIDE DEF nx2, pv2
<1>4. LinkMapOf(Element, NULL, nx2) /\ LinkMapOf(Element, NULL, pv2)
  BY <1>3 DEF LinkMap, LinkMapOf, Link
<1>5. nx2[n] = NULL
  BY <1>2, <1>3
<1>6. Spells(Element, NULL, Append(s, n), IF l = NULL THEN n ELSE f, n, nx2, pv2)
  BY <1>3, <1>4, <1>5, ChainSpells, SpellsPushed, ListAssumption
<1> QED
  BY <1>6, ChainSpells DEF nx2, pv2

\* LinkBefore links n before the i-th element.
LEMMA ChainInserted ==
  ASSUME NEW s, NEW f, NEW l, NEW nx, NEW pv, Chain(s, f, l, nx, pv),
         NEW i \in 1 .. Len(s), NEW n \in Element, n \notin Range(s)
  PROVE  Chain(InsertAt(s, i, n), IF pv[s[i]] = NULL THEN n ELSE f, l,
               LinkTo([nx EXCEPT ![n] = s[i]], pv[s[i]], n),
               [pv EXCEPT ![n] = pv[s[i]], ![s[i]] = n])
<1> DEFINE e == s[i]
           b == pv[e]
           nx1 == [nx EXCEPT ![n] = e]
           nx2 == LinkTo(nx1, b, n)
           pv1 == [pv EXCEPT ![n] = b]
           pv2 == [pv1 EXCEPT ![e] = n]
<1>1. s \in Seq(Element) /\ LinkMap(nx) /\ LinkMap(pv) /\ Len(s) \in Nat
  BY DEF Chain
<1>2. e \in Element /\ e \in Link /\ n \in Link
  BY <1>1 DEF Link
<1>3. b \in Link
  BY <1>1, <1>2 DEF LinkMap
<1> HIDE DEF e, b
<1>4. /\ LinkMap(nx1) /\ \A x \in Element : nx1[x] = IF x = n THEN e ELSE nx[x]
      /\ LinkMap(pv1) /\ \A x \in Element : pv1[x] = IF x = n THEN b ELSE pv[x]
  BY <1>1, <1>2, <1>3, LinkWritten
<1> HIDE DEF nx1, pv1
<1>5. LinkMap(nx2) /\ \A x \in Element : nx2[x] = IF x = b THEN n ELSE nx1[x]
  BY <1>2, <1>3, <1>4, LinkToExact
<1>6. LinkMap(pv2) /\ \A x \in Element : pv2[x] = IF x = e THEN n ELSE pv1[x]
  BY <1>2, <1>4, LinkWritten
<1> HIDE DEF nx2, pv2
<1>7. LinkMapOf(Element, NULL, nx2) /\ LinkMapOf(Element, NULL, pv2)
  BY <1>5, <1>6 DEF LinkMap, LinkMapOf, Link
<1>8. /\ \A x \in Element : nx2[x] = IF x = pv[s[i]] THEN n ELSE IF x = n THEN s[i] ELSE nx[x]
      /\ \A x \in Element : pv2[x] = IF x = s[i] THEN n ELSE IF x = n THEN pv[s[i]] ELSE pv[x]
  BY <1>4, <1>5, <1>6 DEF e, b
<1>9. Spells(Element, NULL, InsertAt(s, i, n), IF pv[s[i]] = NULL THEN n ELSE f, l, nx2, pv2)
  BY <1>7, <1>8, ChainSpells, SpellsInserted, ListAssumption
<1> QED
  BY <1>9, ChainSpells DEF nx2, pv2, nx1, pv1, e, b

\* Unlinking the i-th element, whatever becomes of its own links.
LEMMA ChainRemoved ==
  ASSUME NEW s, NEW f, NEW l, NEW nx, NEW pv, Chain(s, f, l, nx, pv),
         NEW i \in 1 .. Len(s),
         NEW nx1, LinkMap(nx1), \A x \in Element : x # s[i] => nx1[x] = nx[x],
         NEW pv1, LinkMap(pv1), \A x \in Element : x # s[i] => pv1[x] = pv[x]
  PROVE  Chain(RemoveAt(s, i),
               IF pv[s[i]] = NULL THEN nx[s[i]] ELSE f,
               IF nx[s[i]] = NULL THEN pv[s[i]] ELSE l,
               LinkTo(nx1, pv[s[i]], nx[s[i]]),
               LinkTo(pv1, nx[s[i]], pv[s[i]]))
<1> DEFINE e == s[i]
           b == pv[e]
           a == nx[e]
           nx2 == LinkTo(nx1, b, a)
           pv2 == LinkTo(pv1, a, b)
<1>1. s \in Seq(Element) /\ LinkMap(nx) /\ LinkMap(pv) /\ Len(s) \in Nat
  BY DEF Chain
<1>2. e \in Element
  BY <1>1
<1>3. b \in Link /\ a \in Link
  BY <1>1, <1>2 DEF LinkMap
<1>4. /\ \A x \in Element : x # e => nx1[x] = nx[x]
      /\ \A x \in Element : x # e => pv1[x] = pv[x]
  OBVIOUS
<1> HIDE DEF e, b, a
<1>5. LinkMap(nx2) /\ \A x \in Element : nx2[x] = IF x = b THEN a ELSE nx1[x]
  BY <1>3, LinkToExact
<1>6. LinkMap(pv2) /\ \A x \in Element : pv2[x] = IF x = a THEN b ELSE pv1[x]
  BY <1>3, LinkToExact
<1> HIDE DEF nx2, pv2
<1>7. LinkMapOf(Element, NULL, nx2) /\ LinkMapOf(Element, NULL, pv2)
  BY <1>5, <1>6 DEF LinkMap, LinkMapOf, Link
<1>8. /\ \A x \in Element : x # s[i] => nx2[x] = IF x = pv[s[i]] THEN nx[s[i]] ELSE nx[x]
      /\ \A x \in Element : x # s[i] => pv2[x] = IF x = nx[s[i]] THEN pv[s[i]] ELSE pv[x]
  BY <1>4, <1>5, <1>6 DEF e, b, a
<1>9. Spells(Element, NULL, RemoveAt(s, i),
             IF pv[s[i]] = NULL THEN nx[s[i]] ELSE f,
             IF nx[s[i]] = NULL THEN pv[s[i]] ELSE l, nx2, pv2)
  BY <1>7, <1>8, ChainSpells, SpellsRemoved, ListAssumption
<1> QED
  BY <1>9, ChainSpells DEF nx2, pv2, e, b, a

-----------------------------------------------------------------------------
(* What follows the links, and the cache.  A function that is defined by   *)
(* recursion is what CHOOSE finds for its equation; the lemmas show that   *)
(* there is a solution, and that any solution agrees with it.              *)
(***************************************************************************)
WalkBody(link, p, n, f) ==
  [i \in 0 .. n |-> IF i = 0 THEN p
                   ELSE IF f[i - 1] \in elements THEN link[f[i - 1]] ELSE NULL]

LEMMA FollowIs ==
  ASSUME NEW link, NEW p, NEW n \in Nat, NEW g, g = WalkBody(link, p, n, g)
  PROVE  Follow(link, p, n) = g[n]
<1>1. Follow(link, p, n) = (CHOOSE f : f = WalkBody(link, p, n, f))[n]
  BY DEF Follow, WalkBody
<1>2. PICK f : f = WalkBody(link, p, n, f) /\ Follow(link, p, n) = f[n]
  BY <1>1
<1>3. ASSUME NEW h, h = WalkBody(link, p, n, h), NEW i \in 0 .. n
      PROVE  h[i] = IF i = 0 THEN p
                    ELSE IF h[i - 1] \in elements THEN link[h[i - 1]] ELSE NULL
  BY <1>3 DEF WalkBody
<1> DEFINE T == {i \in 0 .. n : f[i] # g[i]}
<1>4. T = {}
  <2> SUFFICES ASSUME T # {} PROVE FALSE
    OBVIOUS
  <2>1. T \subseteq Nat
    OBVIOUS
  <2>2. PICK m \in T : \A i \in T : m =< i
    BY <2>1, LeastNat
  <2>3. m \in 0 .. n /\ f[m] # g[m]
    OBVIOUS
  <2>4. m # 0
    BY <2>3, <1>2, <1>3
  <2>5. m - 1 \in 0 .. n /\ m - 1 \notin T
    BY <2>2, <2>3, <2>4
  <2>6. f[m - 1] = g[m - 1]
    BY <2>5
  <2>7. f[m] = g[m]
    <3>1. f[m] = IF f[m - 1] \in elements THEN link[f[m - 1]] ELSE NULL
      BY <2>3, <2>4, <1>2, <1>3
    <3>2. g[m] = IF g[m - 1] \in elements THEN link[g[m - 1]] ELSE NULL
      BY <2>3, <2>4, <1>3
    <3> QED
      BY <3>1, <3>2, <2>6
  <2> QED
    BY <2>3, <2>7
<1> QED
  BY <1>2, <1>4

\* Links followed forward, then backward, as far as there are elements.
LEMMA FollowNext ==
  ASSUME NEW s, NEW f, NEW l, NEW nx, NEW pv, Chain(s, f, l, nx, pv), Range(s) = elements,
         NEW k \in 1 .. Len(s), NEW n \in Nat, k + n =< Len(s)
  PROVE  Follow(nx, s[k], n) = s[k + n]
<1> DEFINE g == [i \in 0 .. n |-> s[k + i]]
<1>1. s \in Seq(Element) /\ Len(s) \in Nat /\ \A j \in 1 .. Len(s) : nx[s[j]] = EntryAt(s, j + 1)
  BY DEF Chain
<1>2. \A j \in 1 .. Len(s) : s[j] \in elements
  BY <1>1, RangeOf
<1>3. ASSUME NEW i \in 0 .. n
      PROVE  g[i] = IF i = 0 THEN s[k]
                    ELSE IF g[i - 1] \in elements THEN nx[g[i - 1]] ELSE NULL
  <2>1. CASE i = 0
    BY <2>1
  <2>2. CASE i # 0
    <3>1. /\ i - 1 \in 0 .. n /\ g[i - 1] = s[k + (i - 1)]
          /\ k + (i - 1) \in 1 .. Len(s) /\ k + (i - 1) + 1 = k + i /\ k + i \in 1 .. Len(s)
      BY <2>2, <1>1
    <3>2. nx[s[k + (i - 1)]] = s[k + i]
      BY <3>1, <1>1 DEF EntryAt
    <3> QED
      BY <3>1, <3>2, <2>2, <1>2
  <2> QED
    BY <2>1, <2>2
<1>4. g = WalkBody(nx, s[k], n, g)
  BY <1>3 DEF WalkBody
<1>5. Follow(nx, s[k], n) = g[n]
  BY <1>4, FollowIs
<1> QED
  BY <1>5

LEMMA FollowPrevious ==
  ASSUME NEW s, NEW f, NEW l, NEW nx, NEW pv, Chain(s, f, l, nx, pv), Range(s) = elements,
         NEW k \in 1 .. Len(s), NEW n \in Nat, n < k
  PROVE  Follow(pv, s[k], n) = s[k - n]
<1> DEFINE g == [i \in 0 .. n |-> s[k - i]]
<1>1. s \in Seq(Element) /\ Len(s) \in Nat /\ \A j \in 1 .. Len(s) : pv[s[j]] = EntryAt(s, j - 1)
  BY DEF Chain
<1>2. \A j \in 1 .. Len(s) : s[j] \in elements
  BY <1>1, RangeOf
<1>3. ASSUME NEW i \in 0 .. n
      PROVE  g[i] = IF i = 0 THEN s[k]
                    ELSE IF g[i - 1] \in elements THEN pv[g[i - 1]] ELSE NULL
  <2>1. CASE i = 0
    BY <2>1
  <2>2. CASE i # 0
    <3>1. /\ i - 1 \in 0 .. n /\ g[i - 1] = s[k - (i - 1)]
          /\ k - (i - 1) \in 1 .. Len(s) /\ k - (i - 1) - 1 = k - i /\ k - i \in 1 .. Len(s)
      BY <2>2, <1>1
    <3>2. pv[s[k - (i - 1)]] = s[k - i]
      BY <3>1, <1>1 DEF EntryAt
    <3> QED
      BY <3>1, <3>2, <2>2, <1>2
  <2> QED
    BY <2>1, <2>2
<1>4. g = WalkBody(pv, s[k], n, g)
  BY <1>3 DEF WalkBody
<1>5. Follow(pv, s[k], n) = g[n]
  BY <1>4, FollowIs
<1> QED
  BY <1>5

\* What the operations by order rest on.
LinksInv ==
  /\ Chain(order, first, last, next, previous)
  /\ Range(order) = elements

LEMMA SizeExact ==
  ASSUME LinksInv
  PROVE  Size = Len(order) /\ Len(order) \in Nat /\ order \in Seq(Element) /\ NoRepeat(order)
<1>1. order \in Seq(Element) /\ NoRepeat(order)
  BY DEF LinksInv, Chain
<1>2. Size = Len(order)
  BY <1>1, NoRepeatCardinality DEF LinksInv, Size
<1> QED
  BY <1>1, <1>2

\* order_to_index finds the element, by any of its three ways, and leaves a
\* cache that is right, whatever right cache it began with.
LEMMA LookupFinds ==
  ASSUME LinksInv, NEW c, GoodCache(c, order), NEW o \in 0 .. Len(order) - 1
  PROVE  Lookup(c, o).ptr = order[o + 1] /\ GoodCache(Lookup(c, o).cache, order)
<1> DEFINE dend == Size - 1 - o
           dexterm == IF o < dend THEN o ELSE dend
           dlast == Distance(o, c.order)
           near == c.at # NULL /\ dlast =< dexterm
           ptr == IF near
                  THEN Follow(IF o > c.order THEN next ELSE previous, c.at, dlast)
                  ELSE IF o < dend THEN Follow(next, first, dexterm)
                                   ELSE Follow(previous, last, dexterm)
           cache == IF near \/ dexterm > CacheBeyond THEN [at |-> ptr, order |-> o] ELSE c
<1>1. Lookup(c, o).ptr = ptr /\ Lookup(c, o).cache = cache
  BY DEF Lookup
<1>2. /\ Size = Len(order) /\ Len(order) \in Nat /\ order \in Seq(Element)
      /\ Chain(order, first, last, next, previous) /\ Range(order) = elements
      /\ first = EntryAt(order, 1) /\ last = EntryAt(order, Len(order))
  BY SizeExact DEF LinksInv, Chain
<1>3. Chain(order, first, last, next, previous) /\ Range(order) = elements
  BY DEF LinksInv
<1>4. ptr = order[o + 1]
  <2>1. CASE near
    <3>1. c.order \in 0 .. Len(order) - 1 /\ order[c.order + 1] = c.at
      BY <2>1 DEF GoodCache
    <3> DEFINE k == c.order + 1
    <3>2. k \in 1 .. Len(order) /\ order[k] = c.at
      BY <3>1, <1>2
    <3>3. CASE o > c.order
      <4>1. dlast = o - c.order /\ dlast \in Nat /\ k + dlast = o + 1 /\ k + dlast =< Len(order)
        BY <3>1, <3>3, <1>2 DEF Distance
      <4>2. ptr = Follow(next, order[k], dlast)
        BY <2>1, <3>2, <3>3
      <4> HIDE DEF ptr, dlast, k
      <4>3. Follow(next, order[k], dlast) = order[k + dlast]
        BY <4>1, <3>2, <1>3, FollowNext
      <4> QED
        BY <4>1, <4>2, <4>3
    <3>4. CASE ~(o > c.order)
      <4>1. dlast = c.order - o /\ dlast \in Nat /\ k - dlast = o + 1 /\ dlast < k
        BY <3>1, <3>4, <1>2 DEF Distance
      <4>2. ptr = Follow(previous, order[k], dlast)
        BY <2>1, <3>2, <3>4
      <4> HIDE DEF ptr, dlast, k
      <4>3. Follow(previous, order[k], dlast) = order[k - dlast]
        BY <4>1, <3>2, <1>3, FollowPrevious
      <4> QED
        BY <4>1, <4>2, <4>3
    <3> QED
      BY <3>3, <3>4
  <2>2. CASE ~near /\ o < dend
    <3>1. ptr = Follow(next, first, o) /\ first = order[1] /\ 1 \in 1 .. Len(order)
      BY <2>2, <1>2 DEF EntryAt
    <3>2. o \in Nat /\ 1 + o =< Len(order)
      BY <1>2
    <3> HIDE DEF ptr
    <3>3. Follow(next, order[1], o) = order[1 + o]
      BY <3>1, <3>2, <1>3, FollowNext
    <3> QED
      BY <3>1, <3>2, <3>3
  <2>3. CASE ~near /\ ~(o < dend)
    <3>1. /\ ptr = Follow(previous, last, dend) /\ last = order[Len(order)]
          /\ Len(order) \in 1 .. Len(order)
      BY <2>3, <1>2 DEF EntryAt
    <3>2. dend \in Nat /\ dend < Len(order) /\ Len(order) - dend = o + 1
      BY <1>2
    <3> DEFINE k == Len(order)
    <3>3. k \in 1 .. Len(order) /\ dend \in Nat /\ dend < k
      BY <3>1, <3>2
    <3> HIDE DEF ptr, dend, k
    <3>4. Follow(previous, order[k], dend) = order[k - dend]
      BY <3>3, <1>3, FollowPrevious
    <3> QED
      BY <3>1, <3>2, <3>4 DEF k
  <2> QED
    BY <2>1, <2>2, <2>3
<1> HIDE DEF ptr, near, dexterm
<1>5. GoodCache(cache, order)
  BY <1>4 DEF GoodCache
<1> QED
  BY <1>1, <1>4, <1>5

\* The cache stays right over the comparisons of cntList_remove_by_value.
ScanBody(n, f) == [i \in 0 .. n |-> IF i = 0 THEN cached ELSE Lookup(f[i - 1], i - 1).cache]

LEMMA ScanBodyAt ==
  ASSUME NEW n, NEW f, f = ScanBody(n, f), NEW i \in 0 .. n
  PROVE  f[i] = IF i = 0 THEN cached ELSE Lookup(f[i - 1], i - 1).cache
BY DEF ScanBody

LEMMA ScanExists == ASSUME NEW n \in Nat PROVE \E f : f = ScanBody(n, f)
<1> DEFINE T == {i \in Nat : ~ \E f : f = ScanBody(i, f)}
<1>1. T = {}
  <2> SUFFICES ASSUME T # {} PROVE FALSE
    OBVIOUS
  <2>1. PICK m \in T : \A i \in T : m =< i
    BY LeastNat
  <2>2. m \in Nat /\ ~ \E f : f = ScanBody(m, f)
    OBVIOUS
  <2>3. CASE m = 0
    <3> DEFINE g == [i \in 0 .. 0 |-> cached]
    <3>1. g = ScanBody(0, g)
      BY DEF ScanBody
    <3> QED
      BY <2>2, <2>3, <3>1
  <2>4. CASE m # 0
    <3>1. m - 1 \in Nat /\ m - 1 \notin T
      BY <2>1, <2>2, <2>4
    <3>2. PICK f : f = ScanBody(m - 1, f)
      BY <3>1
    <3> DEFINE g == [i \in 0 .. m |-> IF i = m THEN Lookup(f[m - 1], m - 1).cache ELSE f[i]]
    <3>3. ASSUME NEW i \in 0 .. m
          PROVE  g[i] = IF i = 0 THEN cached ELSE Lookup(g[i - 1], i - 1).cache
      <4>1. CASE i = m
        <5>1. m - 1 \in 0 .. m /\ m - 1 # m
          BY <2>2, <2>4
        <5>2. g[m - 1] = f[m - 1]
          BY <5>1
        <5>3. g[m] = Lookup(f[m - 1], m - 1).cache
          BY <2>2
        <5> QED
          BY <4>1, <5>2, <5>3, <2>4
      <4>2. CASE i # m /\ i # 0
        <5>1. i \in 0 .. m - 1 /\ i - 1 \in 0 .. m /\ i - 1 # m
          BY <4>2, <2>2
        <5>2. f[i] = Lookup(f[i - 1], i - 1).cache
          BY <5>1, <4>2, <3>2, ScanBodyAt
        <5>3. g[i] = f[i] /\ g[i - 1] = f[i - 1]
          BY <5>1, <4>2
        <5> QED
          BY <5>2, <5>3, <4>2
      <4>3. CASE i # m /\ i = 0
        <5>1. 0 \in 0 .. m - 1
          BY <4>3, <2>2
        <5>2. f[0] = cached
          BY <5>1, <3>2, ScanBodyAt
        <5> QED
          BY <5>2, <4>3
      <4> QED
        BY <4>1, <4>2, <4>3
    <3>4. g = ScanBody(m, g)
      BY <3>3 DEF ScanBody
    <3> QED
      BY <2>2, <3>4
  <2> QED
    BY <2>3, <2>4
<1> QED
  BY <1>1

LEMMA ScanCacheGood ==
  ASSUME LinksInv, GoodCache(cached, order), NEW n \in 0 .. Len(order)
  PROVE  GoodCache(ScanCache(n), order)
<1>0. n \in Nat
  OBVIOUS
<1>1. ScanCache(n) = (CHOOSE f : f = ScanBody(n, f))[n]
  BY DEF ScanCache, ScanBody
<1>2. PICK f : f = ScanBody(n, f) /\ ScanCache(n) = f[n]
  BY <1>0, <1>1, ScanExists
<1> DEFINE T == {i \in 0 .. n : ~ GoodCache(f[i], order)}
<1>3. T = {}
  <2> SUFFICES ASSUME T # {} PROVE FALSE
    OBVIOUS
  <2>1. T \subseteq Nat
    OBVIOUS
  <2>2. PICK m \in T : \A i \in T : m =< i
    BY <2>1, LeastNat
  <2>3. m \in 0 .. n /\ ~ GoodCache(f[m], order)
    OBVIOUS
  <2>4. CASE m = 0
    BY <2>3, <2>4, <1>2, ScanBodyAt
  <2>5. CASE m # 0
    <3>1. m - 1 \in 0 .. n /\ m - 1 \notin T /\ m - 1 \in 0 .. Len(order) - 1
      BY <2>2, <2>3, <2>5, SizeExact
    <3>2. GoodCache(f[m - 1], order)
      BY <3>1
    <3>3. f[m] = Lookup(f[m - 1], m - 1).cache
      BY <2>3, <2>5, <1>2, ScanBodyAt
    <3> QED
      BY <2>3, <3>1, <3>2, <3>3, LookupFinds
  <2> QED
    BY <2>4, <2>5
<1> QED
  BY <1>0, <1>2, <1>3

\* The elements that cntList_remove_by_value meets are those of the list.
LEMMA MatchesExact ==
  ASSUME LinksInv, GoodCache(cached, order), NEW w
  PROVE  Matches(w) = {o \in 0 .. Len(order) - 1 : value[order[o + 1]] = w}
<1>1. Size = Len(order) /\ Len(order) \in Nat
  BY SizeExact
<1>2. ASSUME NEW o \in 0 .. Len(order) - 1 PROVE Lookup(ScanCache(o), o).ptr = order[o + 1]
  <2>1. o \in 0 .. Len(order)
    BY <1>1
  <2> QED
    BY <2>1, ScanCacheGood, LookupFinds
<1> QED
  BY <1>1, <1>2 DEF Matches

\* The place of an element in the list.
LEMMA RankExact ==
  ASSUME LinksInv
  PROVE  /\ \A i \in 1 .. Len(order) : RankOf(order[i]) = i /\ order[i] \in elements
         /\ \A e \in elements : RankOf(e) \in 1 .. Len(order) /\ order[RankOf(e)] = e
<1>1. /\ order \in Seq(Element) /\ NoRepeat(order)
      /\ \A x : x \in elements <=> \E j \in 1 .. Len(order) : order[j] = x
  BY SizeExact, RangeOf DEF LinksInv
<1>2. \A e \in elements : RankOf(e) \in 1 .. Len(order) /\ order[RankOf(e)] = e
  BY <1>1 DEF RankOf
<1>3. \A i \in 1 .. Len(order) : RankOf(order[i]) = i /\ order[i] \in elements
  BY <1>1, <1>2 DEF NoRepeat
<1> QED
  BY <1>2, <1>3

-----------------------------------------------------------------------------
(***************************************************************************)
(* The inductive invariant.  The links of an element that is not in use    *)
(* are erased, which cntList_push relies on.                               *)
(***************************************************************************)
ListInv ==
  /\ LinksInv
  /\ \A e \in Element \ elements : next[e] = NULL
  /\ GoodCache(cached, order)
  /\ value \in [Element -> Value \cup {NULL}]
  /\ status = "ok"

\* What a step does to the sequence and to the values.
PutStep ==
  \E i \in 1 .. Len(order) + 1, n \in Element \ elements, w \in Value :
    order' = InsertAt(order, i, n) /\ value' = [value EXCEPT ![n] = w]

WriteStep ==
  \E i \in 1 .. Len(order), w \in Value :
    order' = order /\ value' = [value EXCEPT ![order[i]] = w]

DeleteStep ==
  \E i \in 1 .. Len(order) :
    order' = RemoveAt(order, i) /\ value' = [value EXCEPT ![order[i]] = NULL]

MoveStep ==
  \E i, j \in 1 .. Len(order) :
    /\ i # j
    /\ order' = InsertAt(RemoveAt(order, i), IF i < j THEN j - 1 ELSE j, order[i])
    /\ value' = value

EmptyStep == order' = <<>>

SameStep == order' = order /\ value' = value

ListStep == PutStep \/ WriteStep \/ DeleteStep \/ MoveStep \/ EmptyStep \/ SameStep

\* The neighbours of an element are in the list, or are NULL.
LEMMA Neighbours ==
  ASSUME LinksInv, NEW i \in 1 .. Len(order)
  PROVE  /\ order[i] \in Element /\ order[i] \in elements
         /\ next[order[i]] = EntryAt(order, i + 1)
         /\ next[order[i]] \in Link /\ next[order[i]] # order[i]
         /\ next[order[i]] # NULL => next[order[i]] \in elements /\ i + 1 \in 1 .. Len(order)
         /\ previous[order[i]] = EntryAt(order, i - 1)
         /\ previous[order[i]] \in Link /\ previous[order[i]] # order[i]
         /\ previous[order[i]] # NULL => previous[order[i]] \in elements /\ i - 1 \in 1 .. Len(order)
<1>1. /\ order \in Seq(Element) /\ NoRepeat(order) /\ Len(order) \in Nat
      /\ next[order[i]] = EntryAt(order, i + 1) /\ previous[order[i]] = EntryAt(order, i - 1)
  BY DEF LinksInv, Chain
<1>2. \A j \in 1 .. Len(order) : order[j] \in elements /\ order[j] \in Element /\ order[j] # NULL
  BY <1>1, RangeOf, ListAssumption DEF LinksInv
<1>3. i + 1 \in Int /\ i - 1 \in Int /\ i + 1 # i /\ i - 1 # i
  BY <1>1
<1>4. ASSUME NEW j \in Int, j # i
      PROVE  /\ EntryAt(order, j) \in Link /\ EntryAt(order, j) # order[i]
             /\ EntryAt(order, j) # NULL => EntryAt(order, j) \in elements /\ j \in 1 .. Len(order)
  <2>1. CASE j \in 1 .. Len(order)
    BY <2>1, <1>1, <1>2, <1>4 DEF EntryAt, NoRepeat, Link
  <2>2. CASE j \notin 1 .. Len(order)
    BY <2>2, <1>2 DEF EntryAt, Link
  <2> QED
    BY <2>1, <2>2
<1> QED
  BY <1>1, <1>2, <1>3, <1>4

LEMMA NoCacheGood == ASSUME NEW s PROVE GoodCache(NoCache, s)
BY DEF GoodCache, NoCache

\* The cache stays right when the list grows at its end.
LEMMA PushKeeps ==
  ASSUME ListInv, NEW n \in Element, NEW w \in Value, Push(n, w)
  PROVE  ListInv' /\ PutStep
<1>1. /\ Chain(order, first, last, next, previous) /\ Range(order) = elements
      /\ order \in Seq(Element) /\ NoRepeat(order) /\ Len(order) \in Nat
      /\ LinkMap(next) /\ last = EntryAt(order, Len(order))
  BY DEF ListInv, LinksInv, Chain
<1>2. n \notin elements /\ n \notin Range(order) /\ next[n] = NULL
  BY <1>1 DEF Push, NewElement, ListInv
<1>3. /\ elements' = elements \cup {n} /\ value' = [value EXCEPT ![n] = w]
      /\ next' = LinkTo(next, last, n) /\ previous' = [previous EXCEPT ![n] = last]
      /\ first' = (IF last = NULL THEN n ELSE first) /\ last' = n
      /\ order' = Append(order, n) /\ cached' = cached /\ status' = status
  BY DEF Push, NewElement
<1>4. /\ Chain(Append(order, n), IF last = NULL THEN n ELSE first, n,
               LinkTo(next, last, n), [previous EXCEPT ![n] = last])
  BY <1>1, <1>2, ChainPushed
<1>5. /\ Len(Append(order, n)) = Len(order) + 1
      /\ \A j \in 1 .. Len(order) : Append(order, n)[j] = order[j]
      /\ Range(Append(order, n)) = elements \cup {n}
  BY <1>1, <1>2, AppendExact
<1>6. LinksInv'
  BY <1>3, <1>4, <1>5 DEF LinksInv
<1>7. \A x \in Element \ elements' : next'[x] = NULL
  <2>1. last = NULL \/ last \in elements
    BY <1>1, RangeOf DEF EntryAt
  <2>2. last \in Link /\ n \in Link
    BY <1>1, <2>1, EntryIsElement DEF Link
  <2>3. \A x \in Element : next'[x] = IF x = last THEN n ELSE next[x]
    BY <1>1, <1>3, <2>2, LinkToExact
  <2> QED
    BY <2>1, <2>3, <1>3, ListAssumption DEF ListInv
<1>8. GoodCache(cached', order')
  BY <1>1, <1>3, <1>5 DEF ListInv, GoodCache
<1>9. value' \in [Element -> Value \cup {NULL}] /\ status' = "ok"
  BY <1>3 DEF ListInv
<1>10. PutStep
  <2>1. InsertAt(order, Len(order) + 1, n) = Append(order, n)
    BY <1>1, AppendIsInsert
  <2>2. Len(order) + 1 \in 1 .. Len(order) + 1
    BY <1>1
  <2> QED
    BY <2>1, <2>2, <1>2, <1>3 DEF PutStep
<1> QED
  BY <1>6, <1>7, <1>8, <1>9, <1>10 DEF ListInv

\* What is common to the removals.
LEMMA RemovalKeeps ==
  ASSUME ListInv, NEW i \in 1 .. Len(order), RemoveElement(order[i])
  PROVE  /\ LinksInv' /\ DeleteStep /\ order' = RemoveAt(order, i)
         /\ \A x \in Element \ elements' : next'[x] = NULL
         /\ value' \in [Element -> Value \cup {NULL}] /\ status' = "ok"
<1> DEFINE e == order[i]
           nx1 == [next EXCEPT ![e] = NULL]
           pv1 == [previous EXCEPT ![e] = NULL]
<1>1. /\ Chain(order, first, last, next, previous) /\ Range(order) = elements
      /\ order \in Seq(Element) /\ NoRepeat(order) /\ Len(order) \in Nat
      /\ LinkMap(next) /\ LinkMap(previous)
  BY DEF ListInv, LinksInv, Chain
<1>2. LinksInv
  BY DEF ListInv
<1>3. /\ e \in Element /\ e \in elements
      /\ next[e] \in Link /\ next[e] # e
      /\ previous[e] \in Link /\ previous[e] # e
      /\ previous[e] # NULL => previous[e] \in elements
  BY <1>2, Neighbours
<1>4. RankOf(e) = i
  BY <1>2, RankExact
<1>5. /\ elements' = elements \ {e} /\ value' = [value EXCEPT ![e] = NULL]
      /\ next' = LinkTo(nx1, previous[e], next[e])
      /\ previous' = LinkTo(pv1, next[e], previous[e])
      /\ first' = (IF previous[e] = NULL THEN next[e] ELSE first)
      /\ last' = (IF next[e] = NULL THEN previous[e] ELSE last)
      /\ order' = RemoveAt(order, i) /\ status' = status
  BY <1>4 DEF RemoveElement, FreeElement, Unlink
<1>6. NULL \in Link
  BY DEF Link
<1>7. /\ LinkMap(nx1) /\ \A x \in Element : nx1[x] = IF x = e THEN NULL ELSE next[x]
      /\ LinkMap(pv1) /\ \A x \in Element : pv1[x] = IF x = e THEN NULL ELSE previous[x]
  BY <1>1, <1>3, <1>6, LinkWritten
<1> HIDE DEF nx1, pv1
<1>8. Chain(RemoveAt(order, i),
            IF previous[order[i]] = NULL THEN next[order[i]] ELSE first,
            IF next[order[i]] = NULL THEN previous[order[i]] ELSE last,
            LinkTo(nx1, previous[order[i]], next[order[i]]),
            LinkTo(pv1, next[order[i]], previous[order[i]]))
  <2>1. /\ \A x \in Element : x # order[i] => nx1[x] = next[x]
        /\ \A x \in Element : x # order[i] => pv1[x] = previous[x]
    BY <1>7
  <2> QED
    BY <2>1, <1>1, <1>7, ChainRemoved
<1>9. Range(RemoveAt(order, i)) = elements \ {e}
  BY <1>1, RemoveOld
<1>10. LinksInv'
  BY <1>5, <1>8, <1>9 DEF LinksInv
<1>11. \A x \in Element \ elements' : next'[x] = NULL
  <2>1. \A x \in Element : next'[x] = IF x = previous[e] THEN next[e] ELSE nx1[x]
    BY <1>3, <1>5, <1>7, LinkToExact
  <2> QED
    BY <2>1, <1>3, <1>5, <1>7, ListAssumption DEF ListInv
<1>12. value' \in [Element -> Value \cup {NULL}] /\ status' = "ok"
  BY <1>5 DEF ListInv
<1> QED
  BY <1>5, <1>10, <1>11, <1>12 DEF DeleteStep

LEMMA RemoveByAddressKeeps ==
  ASSUME ListInv, NEW e \in elements, RemoveByAddress(e)
  PROVE  ListInv' /\ DeleteStep
<1>1. PICK i \in 1 .. Len(order) : order[i] = e
  BY RankExact DEF ListInv
<1>2. RemoveElement(order[i]) /\ cached' = NoCache
  BY <1>1 DEF RemoveByAddress
<1>3. GoodCache(cached', order')
  BY <1>2, NoCacheGood
<1> QED
  BY <1>2, <1>3, RemovalKeeps DEF ListInv

\* The element after the one that is removed takes its order.
LEMMA RemoveNthKeeps ==
  ASSUME ListInv, NEW c, GoodCache(c, order), NEW o \in 0 .. Len(order) - 1, RemoveNth(c, o)
  PROVE  ListInv' /\ DeleteStep /\ order' = RemoveAt(order, o + 1)
<1> DEFINE i == o + 1
           e == order[i]
<1>1. LinksInv /\ Len(order) \in Nat /\ order \in Seq(Element)
  BY SizeExact DEF ListInv
<1>2. o \in Nat /\ i \in 1 .. Len(order) /\ i - 1 = o
  BY <1>1
<1>3. Lookup(c, o).ptr = e
  BY <1>1, LookupFinds
<1>4. RemoveElement(e) /\ cached' = CacheOfNext(e, o)
  BY <1>3 DEF RemoveNth
<1>5. next[e] # NULL => next[e] = order[i + 1] /\ i + 1 \in 1 .. Len(order)
  BY <1>1, <1>2, Neighbours DEF EntryAt
<1> HIDE DEF i
<1>6. order' = RemoveAt(order, i)
  BY <1>2, <1>4, RemovalKeeps
<1>7. /\ Len(RemoveAt(order, i)) = Len(order) - 1
      /\ RemovedAt(order, Len(order), i, RemoveAt(order, i))
  BY <1>1, <1>2, RemoveAtExact
<1>8. GoodCache(cached', order')
  <2>1. CASE next[e] = NULL
    BY <2>1, <1>4, NoCacheGood DEF CacheOfNext
  <2>2. CASE next[e] # NULL
    <3>1. cached'.at = order[i + 1] /\ cached'.order = o
      BY <2>2, <1>4, <1>5 DEF CacheOfNext
    <3>2. o + 1 = i /\ i \in 1 .. Len(order) - 1
      BY <2>2, <1>1, <1>2, <1>5
    <3>3. RemoveAt(order, i)[i] = order[i + 1]
      BY <3>2, <1>7 DEF RemovedAt
    <3>4. o \in 0 .. Len(RemoveAt(order, i)) - 1
      BY <3>2, <1>1, <1>2, <1>7
    <3> QED
      BY <3>1, <3>2, <3>3, <3>4, <1>6 DEF GoodCache
  <2> QED
    BY <2>1, <2>2
<1> QED
  BY <1>2, <1>4, <1>6, <1>8, RemovalKeeps DEF ListInv, i

LEMMA PopKeeps ==
  ASSUME ListInv, Pop
  PROVE  ListInv' /\ DeleteStep
<1> DEFINE i == Len(order)
           pv1 == [previous EXCEPT ![last] = NULL]
<1>1. /\ LinksInv
      /\ Chain(order, first, last, next, previous) /\ Range(order) = elements
      /\ order \in Seq(Element) /\ NoRepeat(order) /\ Len(order) \in Nat
      /\ LinkMap(next) /\ LinkMap(previous) /\ last = EntryAt(order, Len(order))
      /\ \A j \in 1 .. Len(order) : next[order[j]] = EntryAt(order, j + 1)
  BY DEF ListInv, LinksInv, Chain
<1>2. last # NULL /\ i \in 1 .. Len(order) /\ last = order[i] /\ next[last] = NULL
  BY <1>1 DEF Pop, EntryAt
<1>3. /\ last \in Element /\ last \in elements
      /\ previous[last] \in Link /\ previous[last] # last
      /\ previous[last] # NULL => previous[last] \in elements
  BY <1>1, <1>2, Neighbours
<1>4. /\ elements' = elements \ {last} /\ value' = [value EXCEPT ![last] = NULL]
      /\ next' = LinkTo(next, previous[last], NULL)
      /\ previous' = [previous EXCEPT ![last] = NULL]
      /\ first' = (IF previous[last] = NULL THEN NULL ELSE first)
      /\ last' = previous[last]
      /\ cached' = CacheAfterPop(last)
      /\ order' = Front(order) /\ status' = status
  BY DEF Pop, FreeElement
<1>5. NULL \in Link
  BY DEF Link
<1>6. /\ LinkMap(pv1)
      /\ \A x \in Element : pv1[x] = IF x = last THEN NULL ELSE previous[x]
  BY <1>1, <1>3, <1>5, LinkWritten
<1> HIDE DEF pv1
<1>7. Chain(RemoveAt(order, i),
            IF previous[order[i]] = NULL THEN next[order[i]] ELSE first,
            IF next[order[i]] = NULL THEN previous[order[i]] ELSE last,
            LinkTo(next, previous[order[i]], next[order[i]]),
            LinkTo(pv1, next[order[i]], previous[order[i]]))
  <2>1. \A x \in Element : x # order[i] => pv1[x] = previous[x]
    BY <1>2, <1>6
  <2> HIDE DEF i
  <2> QED
    BY <2>1, <1>1, <1>2, <1>6, ChainRemoved
<1>8. previous' = pv1 /\ LinkTo(pv1, NULL, previous[last]) = pv1
  BY <1>4 DEF LinkTo, pv1
<1>9. Chain(RemoveAt(order, i), first', last', next', previous')
  BY <1>2, <1>4, <1>7, <1>8
<1>10. Front(order) = RemoveAt(order, i)
  BY <1>1, <1>2, FrontIsRemove
<1>11. Range(RemoveAt(order, i)) = elements \ {last}
  BY <1>1, <1>2, RemoveOld
<1>12. LinksInv'
  BY <1>4, <1>9, <1>10, <1>11 DEF LinksInv
<1>13. \A x \in Element \ elements' : next'[x] = NULL
  <2>1. \A x \in Element : next'[x] = IF x = previous[last] THEN NULL ELSE next[x]
    BY <1>1, <1>3, <1>4, <1>5, LinkToExact
  <2> QED
    BY <2>1, <1>2, <1>4 DEF ListInv
<1>14. GoodCache(cached', order')
  <2>1. CASE cached.at = last
    BY <2>1, <1>4, NoCacheGood DEF CacheAfterPop
  <2>2. CASE cached.at # last /\ cached.at # NULL
    <3>1. /\ Len(RemoveAt(order, i)) = Len(order) - 1
          /\ \A j \in 1 .. Len(order) - 1 :
               RemoveAt(order, i)[j] = IF j < i THEN order[j] ELSE order[j + 1]
      BY <1>1, <1>2, RemoveAtExact DEF RemovedAt
    <3>2. /\ cached.order \in 0 .. Len(order) - 1 /\ order[cached.order + 1] = cached.at
          /\ cached' = cached
      BY <2>2, <1>4 DEF ListInv, GoodCache, CacheAfterPop
    <3>3. cached.order + 1 # i
      BY <3>2, <2>2, <1>2
    <3>4. cached.order \in 0 .. Len(order) - 1 - 1 /\ cached.order + 1 \in 1 .. Len(order) - 1
      BY <3>2, <3>3, <1>1
    <3> QED
      BY <3>1, <3>2, <3>4, <1>4, <1>10 DEF GoodCache
  <2>3. CASE cached.at = NULL
    BY <2>3, <1>2, <1>4 DEF CacheAfterPop, GoodCache
  <2> QED
    BY <2>1, <2>2, <2>3
<1>15. value' \in [Element -> Value \cup {NULL}] /\ status' = "ok"
  BY <1>4 DEF ListInv
<1>16. DeleteStep
  BY <1>2, <1>4, <1>10 DEF DeleteStep
<1> QED
  BY <1>12, <1>13, <1>14, <1>15, <1>16 DEF ListInv

\* What is common to the insertions before the element at i.
LEMMA InsertionKeeps ==
  ASSUME ListInv, NEW i \in 1 .. Len(order), NEW n \in Element, NEW w \in Value,
         AddBefore(n, order[i], w)
  PROVE  /\ LinksInv' /\ PutStep /\ order' = InsertAt(order, i, n)
         /\ \A x \in Element \ elements' : next'[x] = NULL
         /\ value' \in [Element -> Value \cup {NULL}] /\ status' = "ok"
<1> DEFINE e == order[i]
           nx1 == [next EXCEPT ![n] = e]
<1>1. /\ LinksInv
      /\ Chain(order, first, last, next, previous) /\ Range(order) = elements
      /\ order \in Seq(Element) /\ NoRepeat(order) /\ Len(order) \in Nat
      /\ LinkMap(next) /\ LinkMap(previous)
  BY DEF ListInv, LinksInv, Chain
<1>2. /\ e \in Element /\ e \in elements /\ previous[e] \in Link
      /\ previous[e] # NULL => previous[e] \in elements
  BY <1>1, Neighbours
<1>3. RankOf(e) = i
  BY <1>1, RankExact
<1>4. /\ n \notin elements /\ elements' = elements \cup {n}
      /\ value' = [value EXCEPT ![n] = w]
      /\ next' = LinkTo(nx1, previous[e], n)
      /\ previous' = [previous EXCEPT ![n] = previous[e], ![e] = n]
      /\ first' = (IF previous[e] = NULL THEN n ELSE first)
      /\ last' = last
      /\ order' = InsertAt(order, i, n) /\ status' = status
  BY <1>3 DEF AddBefore, NewElement, LinkBefore
<1>5. Chain(InsertAt(order, i, n), IF previous[order[i]] = NULL THEN n ELSE first, last,
            LinkTo([next EXCEPT ![n] = order[i]], previous[order[i]], n),
            [previous EXCEPT ![n] = previous[order[i]], ![order[i]] = n])
  BY <1>1, <1>4, ChainInserted
<1>6. i \in 1 .. Len(order) + 1
  BY <1>1
<1>7. Range(InsertAt(order, i, n)) = elements \cup {n}
  BY <1>1, <1>4, <1>6, InsertNew
<1>8. LinksInv'
  BY <1>4, <1>5, <1>7 DEF LinksInv
<1>9. \A x \in Element \ elements' : next'[x] = NULL
  <2>1. e \in Link /\ n \in Link
    BY <1>2 DEF Link
  <2>2. LinkMap(nx1) /\ \A x \in Element : nx1[x] = IF x = n THEN e ELSE next[x]
    BY <1>1, <2>1, LinkWritten
  <2> DEFINE b == previous[e]
  <2>3. b \in Link /\ next' = LinkTo(nx1, b, n)
    BY <1>2, <1>4
  <2> HIDE DEF nx1, b
  <2>4. \A x \in Element : LinkTo(nx1, b, n)[x] = IF x = b THEN n ELSE nx1[x]
    <3>1. LinkMap(nx1) /\ b \in Link /\ n \in Link
      BY <2>1, <2>2, <2>3
    <3> HIDE DEF e
    <3> QED
      BY ONLY <3>1, LinkToExact
  <2> QED
    BY <2>2, <2>3, <2>4, <1>2, <1>4, ListAssumption DEF ListInv, b
<1>10. value' \in [Element -> Value \cup {NULL}] /\ status' = "ok"
  BY <1>4 DEF ListInv
<1>11. PutStep
  BY <1>4, <1>6 DEF PutStep
<1> QED
  BY <1>4, <1>8, <1>9, <1>10, <1>11

LEMMA AllocBeforeKeeps ==
  ASSUME ListInv, NEW e \in elements, NEW n \in Element, NEW w \in Value,
         AllocBefore(n, e, w)
  PROVE  ListInv' /\ PutStep
<1>1. PICK i \in 1 .. Len(order) : order[i] = e
  BY RankExact DEF ListInv
<1>2. AddBefore(n, order[i], w) /\ cached' = NoCache
  BY <1>1 DEF AllocBefore
<1>3. GoodCache(cached', order')
  BY <1>2, NoCacheGood
<1> QED
  BY <1>2, <1>3, InsertionKeeps DEF ListInv

LEMMA AllocAfterKeeps ==
  ASSUME ListInv, NEW e \in elements, NEW n \in Element, NEW w \in Value,
         AllocAfter(n, e, w)
  PROVE  ListInv' /\ PutStep
<1>1. PICK i \in 1 .. Len(order) : order[i] = e
  BY RankExact DEF ListInv
<1>2. next[e] # NULL => next[e] \in elements
  BY <1>1, Neighbours DEF ListInv
<1> QED
  BY <1>2, AllocBeforeKeeps, PushKeeps DEF AllocAfter

LEMMA InsertKeeps ==
  ASSUME ListInv, NEW n \in Element, NEW o \in 0 .. Size, NEW w \in Value, Insert(n, o, w)
  PROVE  ListInv' /\ PutStep
<1>1. LinksInv /\ GoodCache(cached, order)
  BY DEF ListInv
<1>2. Size = Len(order) /\ Len(order) \in Nat /\ order \in Seq(Element)
  BY <1>1, SizeExact
<1>3. CASE o = Size
  BY <1>3, PushKeeps DEF Insert
<1>4. CASE o # Size
  <2>1. o \in 0 .. Len(order) - 1 /\ o + 1 \in 1 .. Len(order) /\ o + 1 \in 1 .. Len(order) + 1
    BY <1>2, <1>4
  <2>2. Lookup(cached, o).ptr = order[o + 1]
    BY <2>1, <1>1, LookupFinds
  <2>3. AddBefore(n, order[o + 1], w) /\ cached' = [at |-> n, order |-> o]
    BY <2>2, <1>4 DEF Insert
  <2>4. order' = InsertAt(order, o + 1, n)
    BY <2>1, <2>3, InsertionKeeps
  <2>5. /\ Len(InsertAt(order, o + 1, n)) = Len(order) + 1
        /\ InsertedAt(order, Len(order), o + 1, n, InsertAt(order, o + 1, n))
    BY <2>1, <1>2, InsertAtExact
  <2>6. InsertAt(order, o + 1, n)[o + 1] = n /\ o \in 0 .. Len(order) + 1 - 1
    BY <2>1, <2>5, <1>2 DEF InsertedAt
  <2>7. cached'.at = n /\ cached'.order = o
    BY <2>3
  <2>8. GoodCache(cached', order')
    BY <2>4, <2>5, <2>6, <2>7 DEF GoodCache
  <2> QED
    BY <2>1, <2>3, <2>8, InsertionKeeps DEF ListInv
<1> QED
  BY <1>3, <1>4

LEMMA GetKeeps ==
  ASSUME ListInv, NEW o \in 0 .. Size, o < Size, Get(o)
  PROVE  ListInv' /\ SameStep
<1>1. LinksInv /\ GoodCache(cached, order)
  BY DEF ListInv
<1>2. o \in 0 .. Len(order) - 1
  BY <1>1, SizeExact
<1>3. GoodCache(Lookup(cached, o).cache, order)
  BY <1>1, <1>2, LookupFinds
<1>4. /\ cached' = Lookup(cached, o).cache /\ elements' = elements /\ first' = first
      /\ last' = last /\ next' = next /\ previous' = previous /\ value' = value
      /\ order' = order /\ status' = status
  BY DEF Get, allButCache
<1>5. LinksInv'
  BY <1>1, <1>4 DEF LinksInv
<1>6. GoodCache(cached', order')
  BY <1>3, <1>4
<1> QED
  BY <1>4, <1>5, <1>6 DEF ListInv, SameStep

LEMMA SetKeeps ==
  ASSUME ListInv, NEW o \in 0 .. Size, o < Size, NEW w \in Value, Set(o, w)
  PROVE  ListInv' /\ WriteStep
<1>1. LinksInv /\ GoodCache(cached, order)
  BY DEF ListInv
<1>2. o \in 0 .. Len(order) - 1 /\ o + 1 \in 1 .. Len(order)
  BY <1>1, SizeExact
<1>3. GoodCache(Lookup(cached, o).cache, order) /\ Lookup(cached, o).ptr = order[o + 1]
  BY <1>1, <1>2, LookupFinds
<1>4. /\ cached' = Lookup(cached, o).cache /\ elements' = elements /\ first' = first
      /\ last' = last /\ next' = next /\ previous' = previous
      /\ value' = [value EXCEPT ![order[o + 1]] = w]
      /\ order' = order /\ status' = status
  BY <1>3 DEF Set
<1>5. LinksInv'
  BY <1>1, <1>4 DEF LinksInv
<1>6. GoodCache(cached', order')
  BY <1>3, <1>4
<1>7. value' \in [Element -> Value \cup {NULL}]
  BY <1>4 DEF ListInv
<1> QED
  BY <1>2, <1>4, <1>5, <1>6, <1>7 DEF ListInv, WriteStep

LEMMA RemoveByValueKeeps ==
  ASSUME ListInv, NEW w \in Value, RemoveByValue(w)
  PROVE  /\ ListInv' /\ (DeleteStep \/ SameStep)
         /\ LET M == {i \in 1 .. Len(order) : value[order[i]] = w}
            IN  order' = IF M = {} THEN order ELSE RemoveAt(order, Min(M))
<1> DEFINE M == {i \in 1 .. Len(order) : value[order[i]] = w}
<1>1. LinksInv /\ GoodCache(cached, order)
  BY DEF ListInv
<1>2. Size = Len(order) /\ Len(order) \in Nat
  BY <1>1, SizeExact
<1>3. Matches(w) = {o \in 0 .. Len(order) - 1 : value[order[o + 1]] = w}
  BY <1>1, MatchesExact
<1>4. CASE Matches(w) = {}
  <2>1. M = {}
    <3>1. ASSUME NEW i \in M PROVE FALSE
      <4>1. i - 1 \in 0 .. Len(order) - 1 /\ i - 1 + 1 = i
        BY <1>2
      <4> QED
        BY <4>1, <1>3, <1>4
    <3> QED
      BY <3>1
  <2>2. /\ cached' = ScanCache(Len(order)) /\ elements' = elements /\ first' = first
        /\ last' = last /\ next' = next /\ previous' = previous /\ value' = value
        /\ order' = order /\ status' = status
    BY <1>2, <1>4 DEF RemoveByValue, allButCache
  <2>3. Len(order) \in 0 .. Len(order)
    BY <1>2
  <2>4. GoodCache(cached', order')
    BY <2>2, <2>3, <1>1, ScanCacheGood
  <2>5. LinksInv'
    BY <2>2, <1>1 DEF LinksInv
  <2> QED
    BY <2>1, <2>2, <2>4, <2>5 DEF ListInv, SameStep
<1>5. CASE Matches(w) # {}
  <2> DEFINE o == Min(Matches(w))
  <2>1. Matches(w) \subseteq Nat
    BY <1>2, <1>3
  <2>2. o \in Matches(w) /\ \A p \in Matches(w) : o =< p
    BY <2>1, <1>5, MinOfNat
  <2> HIDE DEF o
  <2>3. o \in 0 .. Len(order) - 1 /\ value[order[o + 1]] = w
    BY <2>2, <1>3
  <2>4. o + 1 \in 0 .. Len(order) /\ o + 1 \in 1 .. Len(order) /\ o \in Nat
    BY <2>3, <1>2
  <2>5. RemoveNth(ScanCache(o + 1), o)
    BY <1>5 DEF RemoveByValue, o
  <2>6. GoodCache(ScanCache(o + 1), order)
    BY <2>4, <1>1, ScanCacheGood
  <2>7. ListInv' /\ DeleteStep /\ order' = RemoveAt(order, o + 1)
    BY <2>3, <2>5, <2>6, RemoveNthKeeps
  <2>8. o + 1 \in M
    BY <2>3, <2>4
  <2>9. M \subseteq Nat /\ M # {}
    BY <2>8, <1>2
  <2>10. ASSUME NEW i \in M PROVE o + 1 =< i
    <3>1. i - 1 \in 0 .. Len(order) - 1 /\ i - 1 + 1 = i
      BY <1>2
    <3>2. i - 1 \in Matches(w)
      BY <3>1, <1>3
    <3> QED
      BY <3>1, <3>2, <2>2, <2>4
  <2>11. Min(M) \in M /\ \A i \in M : Min(M) =< i
    BY <2>9, MinOfNat
  <2>12. Min(M) = o + 1
    <3>1. Min(M) \in Nat /\ Min(M) =< o + 1 /\ o + 1 =< Min(M)
      BY <2>8, <2>9, <2>10, <2>11
    <3> QED
      BY <3>1, <2>4
  <2> QED
    BY <2>7, <2>9, <2>12
<1> QED
  BY <1>4, <1>5

LEMMA ClearKeeps ==
  ASSUME ListInv, Clear
  PROVE  ListInv' /\ EmptyStep
<1>1. /\ elements' = {} /\ first' = NULL /\ last' = NULL /\ order' = <<>>
      /\ next' = [e \in Element |-> NULL] /\ previous' = [e \in Element |-> NULL]
      /\ value' = [e \in Element |-> NULL] /\ cached' = NoCache /\ status' = "ok"
  BY DEF Clear, ListInv
<1>2. /\ <<>> \in Seq(Element) /\ Len(<<>>) = 0 /\ 1 .. 0 = {} /\ Range(<<>>) = {}
  BY DEF Range
<1>3. LinkMap(next') /\ LinkMap(previous')
  BY <1>1 DEF LinkMap, Link
<1>4. Chain(order', first', last', next', previous')
  <2>1. order' \in Seq(Element) /\ Len(order') = 0 /\ 1 .. Len(order') = {}
    BY <1>1, <1>2
  <2>2. NoRepeat(order')
    BY <2>1 DEF NoRepeat
  <2>3. EntryAt(order', 1) = NULL /\ EntryAt(order', Len(order')) = NULL
    BY <2>1 DEF EntryAt
  <2> QED
    BY <2>1, <2>2, <2>3, <1>1, <1>3 DEF Chain
<1>5. LinksInv'
  BY <1>1, <1>2, <1>4 DEF LinksInv
<1>6. GoodCache(cached', order')
  BY <1>1, NoCacheGood
<1>7. /\ \A x \in Element \ elements' : next'[x] = NULL
      /\ value' \in [Element -> Value \cup {NULL}]
  BY <1>1
<1> QED
  BY <1>1, <1>5, <1>6, <1>7 DEF ListInv, EmptyStep

\* The element moves to a place that is not the first: there is an element
\* to tell of it.
LEMMA RelinkKeeps ==
  ASSUME ListInv, NEW d \in elements, NEW s \in elements, Inside(d, s), Relink(d, s)
  PROVE  ListInv' /\ MoveStep
<1> DEFINE nx1 == LinkTo(next, previous[s], next[s])
           pv1 == LinkTo(previous, next[s], previous[s])
           b == pv1[d]
<1>1. /\ LinksInv
      /\ Chain(order, first, last, next, previous) /\ Range(order) = elements
      /\ order \in Seq(Element) /\ NoRepeat(order) /\ Len(order) \in Nat
      /\ LinkMap(next) /\ LinkMap(previous)
  BY DEF ListInv, LinksInv, Chain
<1>2. PICK i \in 1 .. Len(order) : order[i] = s
  BY <1>1, RankExact
<1>3. PICK j \in 1 .. Len(order) : order[j] = d
  BY <1>1, RankExact
<1> DEFINE k == IF i < j THEN j - 1 ELSE j
           R == RemoveAt(order, i)
<1>4. RankOf(s) = i /\ RankOf(d) = j
  BY <1>1, <1>2, <1>3, RankExact
<1>5. d # s /\ i # j /\ s \in Element /\ d \in Element
  BY <1>1, <1>2, <1>3, Neighbours DEF Relink
<1>6. Chain(R, IF previous[s] = NULL THEN next[s] ELSE first,
               IF next[s] = NULL THEN previous[s] ELSE last, nx1, pv1)
  BY <1>1, <1>2, ChainRemoved
<1>7. /\ R \in Seq(Element) /\ Len(R) = Len(order) - 1
      /\ \A m \in 1 .. Len(order) - 1 : R[m] = IF m < i THEN order[m] ELSE order[m + 1]
      /\ Range(R) = elements \ {s}
  BY <1>1, <1>2, RemoveAtExact, RemoveOld DEF RemovedAt
<1>8. k \in 1 .. Len(R) /\ R[k] = d
  <2>1. k \in 1 .. Len(order) - 1
    BY <1>1, <1>5
  <2>2. R[k] = order[j]
    <3>1. CASE i < j
      <4>1. k = j - 1 /\ ~(j - 1 < i) /\ j - 1 + 1 = j
        BY <3>1, <1>1
      <4> QED
        BY <2>1, <4>1, <1>7
    <3>2. CASE ~(i < j)
      <4>1. k = j /\ j < i
        BY <3>2, <1>5
      <4> QED
        BY <2>1, <4>1, <1>7
    <3> QED
      BY <3>1, <3>2
  <2> QED
    BY <2>1, <2>2, <1>3, <1>7
<1>9. k # 1
  <2>1. previous[d] = EntryAt(order, j - 1) /\ previous[s] = EntryAt(order, i - 1)
    BY <1>1, <1>2, <1>3, Neighbours
  <2>2. previous[d] # NULL /\ ~(previous[d] = s /\ previous[s] = NULL)
    BY DEF Inside
  <2>3. j # 1
    BY <2>1, <2>2 DEF EntryAt
  <2>4. ~(j = 2 /\ i = 1)
    <3>1. ASSUME j = 2, i = 1 PROVE FALSE
      <4>1. EntryAt(order, 1) = order[1] /\ EntryAt(order, 0) = NULL
        BY <3>1, <1>2 DEF EntryAt
      <4> QED
        BY <4>1, <3>1, <2>1, <2>2, <1>2
    <3> QED
      BY <3>1
  <2> QED
    BY <2>3, <2>4, <1>1
<1> HIDE DEF k, R, nx1, pv1
<1>10. LinkMap(nx1) /\ LinkMap(pv1) /\ b = EntryAt(R, k - 1)
  BY <1>6, <1>8 DEF Chain
<1>11. b # NULL /\ b \in elements /\ b \in Element /\ b # d
  <2>1. k - 1 \in 1 .. Len(R) /\ k - 1 # k
    BY <1>7, <1>8, <1>9
  <2>2. b = R[k - 1] /\ R[k - 1] \in Element
    BY <2>1, <1>7, <1>10 DEF EntryAt
  <2>3. R[k - 1] \in Range(R)
    BY <2>1, <1>7, RangeOf
  <2>4. NoRepeat(R)
    BY <1>6 DEF Chain
  <2> QED
    BY <2>1, <2>2, <2>3, <2>4, <1>7, <1>8, ListAssumption DEF NoRepeat
<1> HIDE DEF b
<1>12. /\ next' = [nx1 EXCEPT ![s] = d, ![b] = s]
       /\ previous' = [pv1 EXCEPT ![s] = b, ![d] = s]
       /\ first' = (IF previous[s] = NULL THEN next[s] ELSE first)
       /\ last' = (IF next[s] = NULL THEN previous[s] ELSE last)
       /\ elements' = elements /\ value' = value /\ cached' = NoCache /\ status' = status
       /\ order' = InsertAt(R, k, s)
  BY <1>4, <1>11 DEF Relink, nx1, pv1, b, k, R
<1>13. Chain(InsertAt(R, k, s), IF b = NULL THEN s ELSE first', last',
             LinkTo([nx1 EXCEPT ![s] = d], b, s), [pv1 EXCEPT ![s] = b, ![d] = s])
  <2>1. Chain(R, first', last', nx1, pv1)
    BY <1>6, <1>12
  <2>2. s \notin Range(R)
    BY <1>7
  <2>3. pv1[R[k]] = b /\ R[k] = d
    BY <1>8 DEF b
  <2> QED
    BY <2>1, <2>2, <2>3, <1>5, <1>8, ChainInserted
<1>14. LinkTo([nx1 EXCEPT ![s] = d], b, s) = [nx1 EXCEPT ![s] = d, ![b] = s]
  BY <1>11 DEF LinkTo
<1>15. Chain(order', first', last', next', previous')
  BY <1>11, <1>12, <1>13, <1>14
<1>16. Range(order') = elements'
  <2>1. k \in 1 .. Len(R) + 1 /\ s \notin Range(R) /\ NoRepeat(R)
    BY <1>6, <1>7, <1>8 DEF Chain
  <2>2. Range(InsertAt(R, k, s)) = Range(R) \cup {s}
    BY <2>1, <1>5, <1>7, InsertNew
  <2> QED
    BY <2>2, <1>7, <1>12
<1>17. LinksInv'
  BY <1>15, <1>16 DEF LinksInv
<1>18. \A x \in Element \ elements' : next'[x] = NULL
  <2>1. /\ previous[s] \in Link /\ next[s] \in Link
        /\ previous[s] # NULL => previous[s] \in elements
    BY <1>1, <1>2, Neighbours
  <2>2. \A x \in Element : nx1[x] = IF x = previous[s] THEN next[s] ELSE next[x]
    BY <2>1, <1>1, LinkToExact DEF nx1
  <2>3. DOMAIN nx1 = Element
    BY <1>10 DEF LinkMap
  <2>4. \A x \in Element \ elements : next'[x] = nx1[x]
    BY <2>3, <1>11, <1>12
  <2>5. \A x \in Element \ elements : nx1[x] = next[x]
    BY <2>1, <2>2, ListAssumption
  <2> QED
    BY <2>4, <2>5, <1>12 DEF ListInv
<1>19. GoodCache(cached', order')
  BY <1>12, NoCacheGood
<1>20. MoveStep
  BY <1>2, <1>3, <1>5, <1>12 DEF MoveStep, k, R
<1>21. value' \in [Element -> Value \cup {NULL}] /\ status' = "ok"
  BY <1>12 DEF ListInv
<1> QED
  BY <1>17, <1>18, <1>19, <1>20, <1>21 DEF ListInv

LEMMA ListInvInit == ListInit => ListInv
<1> SUFFICES ASSUME ListInit PROVE ListInv
  OBVIOUS
<1>1. /\ elements = {} /\ first = NULL /\ last = NULL /\ order = <<>>
      /\ next = [e \in Element |-> NULL] /\ previous = [e \in Element |-> NULL]
      /\ value = [e \in Element |-> NULL] /\ cached = NoCache /\ status = "ok"
  BY DEF ListInit
<1>2. /\ order \in Seq(Element) /\ Len(order) = 0 /\ 1 .. Len(order) = {} /\ Range(order) = {}
  BY <1>1 DEF Range
<1>3. LinkMap(next) /\ LinkMap(previous)
  BY <1>1 DEF LinkMap, Link
<1>4. NoRepeat(order) /\ EntryAt(order, 1) = NULL /\ EntryAt(order, Len(order)) = NULL
  BY <1>2 DEF NoRepeat, EntryAt
<1>5. LinksInv
  BY <1>1, <1>2, <1>3, <1>4 DEF LinksInv, Chain
<1>6. GoodCache(cached, order)
  BY <1>1, NoCacheGood
<1> QED
  BY <1>1, <1>5, <1>6 DEF ListInv

LEMMA ListInvStep ==
  ListInv /\ [ListNext]_listVars => ListInv' /\ ListStep
<1> SUFFICES ASSUME ListInv, [ListNext]_listVars PROVE ListInv' /\ ListStep
  OBVIOUS
<1> USE DEF ListStep
<1>1. CASE ByAddress
  BY <1>1, PushKeeps, AllocBeforeKeeps, AllocAfterKeeps DEF ByAddress
<1>2. CASE ByOrder
  <2>1. PICK o \in 0 .. Size :
          \/ \E n \in Element, w \in Value : Insert(n, o, w)
          \/ o < Size /\ (Get(o) \/ RemoveOrder(o) \/ \E w \in Value : Set(o, w))
    BY <1>2 DEF ByOrder
  <2>2. CASE \E n \in Element, w \in Value : Insert(n, o, w)
    BY <2>2, InsertKeeps
  <2>3. CASE o < Size /\ Get(o)
    BY <2>3, GetKeeps
  <2>4. CASE o < Size /\ RemoveOrder(o)
    <3>1. o \in 0 .. Len(order) - 1 /\ GoodCache(cached, order)
      BY <2>4, SizeExact DEF ListInv
    <3> QED
      BY <3>1, <2>4, RemoveNthKeeps DEF RemoveOrder
  <2>5. CASE o < Size /\ \E w \in Value : Set(o, w)
    BY <2>5, SetKeeps
  <2> QED
    BY <2>1, <2>2, <2>3, <2>4, <2>5
<1>3. CASE Removal
  BY <1>3, PopKeeps, RemoveByAddressKeeps, RemoveByValueKeeps, ClearKeeps DEF Removal
<1>4. CASE \E d, s \in elements : Inside(d, s) /\ Relink(d, s)
  BY <1>4, RelinkKeeps
<1>5. CASE UNCHANGED listVars
  <2>1. /\ elements' = elements /\ first' = first /\ last' = last /\ next' = next
        /\ previous' = previous /\ value' = value /\ cached' = cached
        /\ order' = order /\ status' = status
    BY <1>5 DEF listVars
  <2> QED
    BY <2>1 DEF ListInv, LinksInv, SameStep
<1> QED
  BY <1>1, <1>2, <1>3, <1>4, <1>5 DEF ListNext

LEMMA ListInvariant == ListSpec => []ListInv
<1>1. ListInv /\ [ListNext]_listVars => ListInv'
  BY ListInvStep
<1> QED
  BY <1>1, ListInvInit, PTL DEF ListSpec

(***************************************************************************)
(* Whatever is done to a list, by address or by order, its links spell the *)
(* sequence that list.h says the operations make: push and pop, insertions *)
(* before and after an element, removals, clear and relink_by_address.     *)
(***************************************************************************)
THEOREM ListLinksExact == ListSpec => []LinksExact
<1>1. ListInv => LinksExact
  <2> SUFFICES ASSUME ListInv PROVE LinksExact
    OBVIOUS
  <2>1. Size = Len(order) /\ Chain(order, first, last, next, previous) /\ Range(order) = elements
    BY SizeExact DEF ListInv, LinksInv
  <2> QED
    BY <2>1 DEF LinksExact, Chain, Neighbour, EntryAt
<1> QED
  BY <1>1, ListInvariant, PTL

(***************************************************************************)
(* The cached element is at the cached order, after any operation: the     *)
(* invalidations of list.c, and the two updates that replace one, suffice. *)
(***************************************************************************)
THEOREM ListCacheExact == ListSpec => []CacheExact
<1>1. ListInv => CacheExact
  BY SizeExact DEF ListInv, CacheExact, GoodCache
<1> QED
  BY <1>1, ListInvariant, PTL

(***************************************************************************)
(* order_to_index finds the element of an order, by its cache, from the    *)
(* first element or from the last one.                                     *)
(***************************************************************************)
THEOREM ListLookupExact == ListSpec => []LookupExact
<1>1. ListInv => LookupExact
  BY SizeExact, LookupFinds DEF ListInv, LookupExact
<1> QED
  BY <1>1, ListInvariant, PTL

(***************************************************************************)
(* cntList_remove_by_value removes the first element that matches, though  *)
(* every comparison moves the cache that it looks the next one up with.    *)
(***************************************************************************)
THEOREM ListRemovesFirst == ListSpec => RemovesFirstMatch
<1>1. ListInv /\ [ListNext]_listVars =>
        [\A w \in Value :
           RemoveByValue(w) =>
             LET M == {i \in 1 .. Len(order) : value[order[i]] = w}
             IN  order' = IF M = {} THEN order ELSE RemoveAt(order, Min(M))]_listVars
  BY RemoveByValueKeeps
<1> QED
  BY <1>1, ListInvariant, PTL DEF ListSpec, RemovesFirstMatch

-----------------------------------------------------------------------------
(***************************************************************************)
(* The refinement: what the links spell, with the values, is the sequence  *)
(* of ListSeq, and a step of the list is a step of it.                     *)
(***************************************************************************)
ItemsOf(s, val) == [i \in 1 .. Len(s) |-> [at |-> s[i], value |-> val[s[i]]]]

Item == [at : Element, value : Value \cup {NULL}]

ValueMap(f) == f \in [Element -> Value \cup {NULL}]

LEMMA ItemsType ==
  ASSUME NEW s \in Seq(Element), NEW val, ValueMap(val)
  PROVE  /\ ItemsOf(s, val) \in Seq(Item) /\ Len(ItemsOf(s, val)) = Len(s)
         /\ \A i \in 1 .. Len(s) : ItemsOf(s, val)[i] = [at |-> s[i], value |-> val[s[i]]]
<1>1. Len(s) \in Nat /\ \A i \in 1 .. Len(s) : s[i] \in Element
  OBVIOUS
<1>2. \A i \in 1 .. Len(s) : [at |-> s[i], value |-> val[s[i]]] \in Item
  BY <1>1 DEF Item, ValueMap
<1>3. ItemsOf(s, val) \in [1 .. Len(s) -> Item]
  BY <1>2 DEF ItemsOf
<1>4. ItemsOf(s, val) \in Seq(Item) /\ Len(ItemsOf(s, val)) = Len(s)
  BY <1>1, <1>3, LenProperties
<1> QED
  BY <1>4 DEF ItemsOf

LEMMA ItemsInserted ==
  ASSUME NEW s \in Seq(Element), NEW val, ValueMap(val),
         NEW n \in Element, n \notin Range(s), NEW w \in Value \cup {NULL},
         NEW i \in 1 .. Len(s) + 1
  PROVE  ItemsOf(InsertAt(s, i, n), [val EXCEPT ![n] = w])
           = InsertAt(ItemsOf(s, val), i, [at |-> n, value |-> w])
<1> DEFINE d == InsertAt(s, i, n)
           val2 == [val EXCEPT ![n] = w]
           t == ItemsOf(s, val)
           new == [at |-> n, value |-> w]
           a == ItemsOf(d, val2)
           b == InsertAt(t, i, new)
<1>1. /\ Len(s) \in Nat /\ \A j \in 1 .. Len(s) : s[j] \in Element /\ s[j] # n
  BY RangeOf
<1>2. /\ d \in Seq(Element) /\ Len(d) = Len(s) + 1
      /\ \A j \in 1 .. Len(s) + 1 : d[j] = IF j < i THEN s[j] ELSE IF j = i THEN n ELSE s[j - 1]
  <2>1. d \in Seq(Element) /\ Len(d) = Len(s) + 1 /\ InsertedAt(s, Len(s), i, n, d)
    BY InsertAtExact
  <2> QED
    BY <2>1 DEF InsertedAt
<1>3. /\ ValueMap(val2) /\ val2[n] = w
      /\ \A x \in Element : x # n => val2[x] = val[x]
  BY DEF ValueMap
<1>4. /\ t \in Seq(Item) /\ Len(t) = Len(s)
      /\ \A j \in 1 .. Len(s) : t[j] = [at |-> s[j], value |-> val[s[j]]]
  BY ItemsType
<1> HIDE DEF d, val2, t
<1>5. new \in Item
  BY DEF Item
<1> HIDE DEF new
<1>6. /\ b \in Seq(Item) /\ Len(b) = Len(s) + 1
      /\ \A j \in 1 .. Len(s) + 1 : b[j] = IF j < i THEN t[j] ELSE IF j = i THEN new ELSE t[j - 1]
  <2>1. t \in Seq(Item) /\ i \in 1 .. Len(t) + 1
    BY <1>4
  <2>2. b \in Seq(Item) /\ Len(b) = Len(t) + 1 /\ InsertedAt(t, Len(t), i, new, b)
    BY <2>1, <1>5, InsertAtExact
  <2> QED
    BY <2>2, <1>4 DEF InsertedAt
<1>7. /\ a \in Seq(Item) /\ Len(a) = Len(s) + 1
      /\ \A j \in 1 .. Len(s) + 1 : a[j] = [at |-> d[j], value |-> val2[d[j]]]
  BY <1>2, <1>3, ItemsType
<1> HIDE DEF a, b
<1>8. ASSUME NEW j \in 1 .. Len(s) + 1 PROVE a[j] = b[j]
  <2>1. CASE j < i
    <3>1. j \in 1 .. Len(s)
      BY <2>1, <1>1
    <3>2. d[j] = s[j] /\ val2[s[j]] = val[s[j]] /\ b[j] = t[j]
      BY <2>1, <3>1, <1>1, <1>2, <1>3, <1>6
    <3> QED
      BY <3>1, <3>2, <1>4, <1>7
  <2>2. CASE j = i
    <3>1. d[j] = n /\ b[j] = new
      BY <2>2, <1>2, <1>6
    <3> QED
      BY <3>1, <1>3, <1>7 DEF new
  <2>3. CASE j > i
    <3>1. j - 1 \in 1 .. Len(s) /\ ~(j < i) /\ j # i
      BY <2>3, <1>1
    <3>2. d[j] = s[j - 1] /\ val2[s[j - 1]] = val[s[j - 1]] /\ b[j] = t[j - 1]
      BY <3>1, <1>1, <1>2, <1>3, <1>6
    <3> QED
      BY <3>1, <3>2, <1>4, <1>7
  <2> QED
    BY <2>1, <2>2, <2>3, <1>1
<1>9. a = b
  BY <1>6, <1>7, <1>8, SeqEqual
<1> QED
  BY <1>9 DEF a, b, d, t, val2, new

LEMMA ItemsRemoved ==
  ASSUME NEW s \in Seq(Element), NoRepeat(s), NEW val, ValueMap(val),
         NEW i \in 1 .. Len(s), NEW val2, ValueMap(val2),
         \A x \in Element : x # s[i] => val2[x] = val[x]
  PROVE  ItemsOf(RemoveAt(s, i), val2) = RemoveAt(ItemsOf(s, val), i)
<1> DEFINE d == RemoveAt(s, i)
           t == ItemsOf(s, val)
           a == ItemsOf(d, val2)
           b == RemoveAt(t, i)
<1>1. /\ Len(s) \in Nat /\ \A j \in 1 .. Len(s) : s[j] \in Element /\ (s[j] = s[i] => j = i)
  BY DEF NoRepeat
<1>2. /\ d \in Seq(Element) /\ Len(d) = Len(s) - 1
      /\ \A j \in 1 .. Len(s) - 1 : d[j] = IF j < i THEN s[j] ELSE s[j + 1]
  BY RemoveAtExact DEF RemovedAt
<1>3. /\ t \in Seq(Item) /\ Len(t) = Len(s)
      /\ \A j \in 1 .. Len(s) : t[j] = [at |-> s[j], value |-> val[s[j]]]
  BY ItemsType
<1> HIDE DEF d, t
<1>4. /\ b \in Seq(Item) /\ Len(b) = Len(s) - 1
      /\ \A j \in 1 .. Len(s) - 1 : b[j] = IF j < i THEN t[j] ELSE t[j + 1]
  <2>1. b \in Seq(Item) /\ Len(b) = Len(t) - 1 /\ RemovedAt(t, Len(t), i, b)
    BY <1>3, RemoveAtExact
  <2> QED
    BY <2>1, <1>3 DEF RemovedAt
<1>5. /\ a \in Seq(Item) /\ Len(a) = Len(s) - 1
      /\ \A j \in 1 .. Len(s) - 1 : a[j] = [at |-> d[j], value |-> val2[d[j]]]
  BY <1>2, ItemsType
<1> HIDE DEF a, b
<1>6. ASSUME NEW j \in 1 .. Len(s) - 1 PROVE a[j] = b[j]
  <2>1. CASE j < i
    <3>1. j \in 1 .. Len(s) /\ j # i
      BY <2>1, <1>1
    <3>2. d[j] = s[j] /\ val2[s[j]] = val[s[j]] /\ b[j] = t[j]
      BY <2>1, <3>1, <1>1, <1>2, <1>4
    <3>3. a[j] = [at |-> s[j], value |-> val[s[j]]]
      BY <3>2, <1>5
    <3> QED
      BY <3>1, <3>2, <3>3, <1>3
  <2>2. CASE ~(j < i)
    <3>1. j + 1 \in 1 .. Len(s) /\ j + 1 # i
      BY <2>2, <1>1
    <3>2. d[j] = s[j + 1] /\ val2[s[j + 1]] = val[s[j + 1]] /\ b[j] = t[j + 1]
      BY <2>2, <3>1, <1>1, <1>2, <1>4
    <3>3. a[j] = [at |-> s[j + 1], value |-> val[s[j + 1]]]
      BY <3>2, <1>5
    <3> QED
      BY <3>1, <3>2, <3>3, <1>3
  <2> QED
    BY <2>1, <2>2
<1>7. a = b
  BY <1>4, <1>5, <1>6, SeqEqual
<1> QED
  BY <1>7 DEF a, b, d, t

LEMMA ItemsWritten ==
  ASSUME NEW s \in Seq(Element), NoRepeat(s), NEW val, ValueMap(val),
         NEW i \in 1 .. Len(s), NEW new, NEW val2, ValueMap(val2),
         \A x \in Element : x # s[i] => val2[x] = val[x],
         new = [at |-> s[i], value |-> val2[s[i]]]
  PROVE  ItemsOf(s, val2) = [ItemsOf(s, val) EXCEPT ![i] = new]
<1>1. \A j \in 1 .. Len(s) : s[j] \in Element /\ (s[j] = s[i] => j = i)
  BY DEF NoRepeat
<1>2. \A j \in 1 .. Len(s) : j # i => val2[s[j]] = val[s[j]]
  BY <1>1
<1>3. ItemsOf(s, val2) =
        [j \in 1 .. Len(s) |-> IF j = i THEN new ELSE [at |-> s[j], value |-> val[s[j]]]]
  BY <1>2 DEF ItemsOf
<1>4. [ItemsOf(s, val) EXCEPT ![i] = new] =
        [j \in 1 .. Len(s) |-> IF j = i THEN new ELSE [at |-> s[j], value |-> val[s[j]]]]
  BY DEF ItemsOf
<1> QED
  BY <1>3, <1>4

Items == [i \in 1 .. Size |-> Nth(i)]

LEMMA ItemsExact == ListInv => Items = ItemsOf(order, value)
<1> SUFFICES ASSUME ListInv PROVE Items = ItemsOf(order, value)
  OBVIOUS
<1>1. /\ LinksInv /\ Size = Len(order) /\ Len(order) \in Nat /\ order \in Seq(Element)
      /\ Chain(order, first, last, next, previous) /\ Range(order) = elements
  BY SizeExact DEF ListInv, LinksInv
<1>2. first = EntryAt(order, 1)
  BY <1>1 DEF Chain
<1>3. ASSUME NEW i \in 1 .. Len(order)
      PROVE  Nth(i) = [at |-> order[i], value |-> value[order[i]]]
  <2>1. 1 \in 1 .. Len(order) /\ i - 1 \in Nat /\ 1 + (i - 1) =< Len(order) /\ 1 + (i - 1) = i
    BY <1>1
  <2>2. first = order[1]
    BY <2>1, <1>2 DEF EntryAt
  <2>3. Follow(next, order[1], i - 1) = order[1 + (i - 1)]
    BY <2>1, <1>1, FollowNext
  <2>4. order[i] \in elements
    BY <1>1, RankExact
  <2> QED
    BY <2>1, <2>2, <2>3, <2>4 DEF Nth
<1> QED
  BY <1>1, <1>3 DEF Items, ItemsOf

\* A step of the list, as a step of the sequence.
LEMMA ItemsStep ==
  ListInv /\ ListStep /\ Items = ItemsOf(order, value) /\ Items' = ItemsOf(order', value')
    => [Promise!SeqNext]_Items
<1> SUFFICES ASSUME ListInv, ListStep, Items = ItemsOf(order, value),
                    Items' = ItemsOf(order', value')
             PROVE  [Promise!SeqNext]_Items
  OBVIOUS
<1>1. /\ LinksInv /\ Len(order) \in Nat /\ order \in Seq(Element) /\ NoRepeat(order)
      /\ Range(order) = elements /\ ValueMap(value)
  BY SizeExact DEF ListInv, LinksInv, ValueMap
<1>2. /\ Len(Items) = Len(order)
      /\ \A i \in 1 .. Len(order) : Items[i] = [at |-> order[i], value |-> value[order[i]]]
  BY <1>1, ItemsType
<1>3. Promise!SeqNext =
        (\/ \E i \in 1 .. Len(Items) + 1 : Promise!Put(i)
         \/ \E i \in 1 .. Len(Items) : Promise!Write(i) \/ Promise!Delete(i)
         \/ \E i, j \in 1 .. Len(Items) : Promise!Precede(i, j)
         \/ Promise!Empty)
  BY DEF Promise!SeqNext, Items
<1>4. CASE PutStep
  <2>1. PICK i \in 1 .. Len(order) + 1, n \in Element \ elements, w \in Value :
          order' = InsertAt(order, i, n) /\ value' = [value EXCEPT ![n] = w]
    BY <1>4 DEF PutStep
  <2>2. ItemsOf(InsertAt(order, i, n), [value EXCEPT ![n] = w])
          = InsertAt(ItemsOf(order, value), i, [at |-> n, value |-> w])
    <3>1. n \notin Range(order) /\ w \in Value \cup {NULL}
      BY <1>1
    <3> QED
      BY <3>1, <1>1, ItemsInserted
  <2>0. Items' = InsertAt(Items, i, [at |-> n, value |-> w])
    BY <2>1, <2>2
  <2>3. n \notin Promise!Used
    <3>1. Promise!Used = {Items[j].at : j \in 1 .. Len(Items)}
      BY DEF Promise!Used, Items
    <3>2. \A j \in 1 .. Len(order) : order[j] \in elements
      BY <1>1, RankExact
    <3>3. ASSUME NEW j \in 1 .. Len(order) PROVE Items[j].at = order[j]
      <4>1. Items[j] = [at |-> order[j], value |-> value[order[j]]]
        BY <1>2
      <4> QED
        BY <4>1
    <3> QED
      BY <3>1, <3>2, <3>3, <1>2
  <2>4. Promise!Put(i)
    BY <2>0, <2>3 DEF Promise!Put, Items, Promise!InsertAt, InsertAt
  <2> QED
    BY <2>4, <1>2, <1>3
<1>5. CASE WriteStep
  <2>1. PICK i \in 1 .. Len(order), w \in Value :
          order' = order /\ value' = [value EXCEPT ![order[i]] = w]
    BY <1>5 DEF WriteStep
  <2> DEFINE e == order[i]
  <2>3. e = order[i] /\ e \in Element
    BY <1>1
  <2> HIDE DEF e
  <2> DEFINE new == [at |-> e, value |-> w]
             val2 == [value EXCEPT ![e] = w]
  <2>4. /\ ValueMap(val2) /\ val2[e] = w
        /\ \A x \in Element : x # e => val2[x] = value[x]
    BY <2>3, <1>1 DEF ValueMap
  <2>8. new = [at |-> order[i], value |-> val2[order[i]]]
    BY <2>3, <2>4
  <2> HIDE DEF val2, new
  <2>0. ItemsOf(order, val2) = [ItemsOf(order, value) EXCEPT ![i] = new]
    BY <2>3, <2>4, <2>8, <1>1, ItemsWritten
  <2>5. Items' = [Items EXCEPT ![i] = new]
    BY <2>0, <2>1, <2>3 DEF val2
  <2>7. Items[i] = [at |-> e, value |-> value[e]]
    BY <2>3, <1>2
  <2>6. [Items[i] EXCEPT !.value = w] = new
    BY <2>7 DEF new
  <2>2. Items' = [Items EXCEPT ![i].value = w]
    BY <2>5, <2>6
  <2>9. Promise!Write(i)
    BY <2>2 DEF Promise!Write, Items
  <2> QED
    BY <2>9, <1>2, <1>3
<1>6. CASE DeleteStep
  <2>1. PICK i \in 1 .. Len(order) :
          order' = RemoveAt(order, i) /\ value' = [value EXCEPT ![order[i]] = NULL]
    BY <1>6 DEF DeleteStep
  <2> DEFINE val2 == [value EXCEPT ![order[i]] = NULL]
  <2>2. ValueMap(val2) /\ \A x \in Element : x # order[i] => val2[x] = value[x]
    BY <1>1 DEF ValueMap
  <2> HIDE DEF val2
  <2>0. ItemsOf(RemoveAt(order, i), val2) = RemoveAt(ItemsOf(order, value), i)
    BY <2>2, <1>1, ItemsRemoved
  <2>3. Items' = RemoveAt(Items, i)
    BY <2>0, <2>1 DEF val2
  <2>4. Promise!Delete(i)
    BY <2>3 DEF Promise!Delete, Items, Promise!RemoveAt, RemoveAt
  <2> QED
    BY <2>4, <1>2, <1>3
<1>7. CASE MoveStep
  <2>1. PICK i \in 1 .. Len(order), j \in 1 .. Len(order) :
          /\ i # j
          /\ order' = InsertAt(RemoveAt(order, i), IF i < j THEN j - 1 ELSE j, order[i])
          /\ value' = value
    BY <1>7 DEF MoveStep
  <2> DEFINE R == RemoveAt(order, i)
             s == order[i]
             k == IF i < j THEN j - 1 ELSE j
  <2>2. s \in Element /\ value[s] \in Value \cup {NULL} /\ value = [value EXCEPT ![s] = value[s]]
    BY <1>1 DEF ValueMap
  <2>3. R \in Seq(Element) /\ Len(R) = Len(order) - 1 /\ s \notin Range(R)
    BY <1>1, RemoveAtExact, RemoveOld
  <2>4. k \in 1 .. Len(R) + 1
    BY <2>1, <2>3, <1>1
  <2>5. ItemsOf(R, value) = RemoveAt(Items, i)
    BY <1>1, ItemsRemoved
  <2> HIDE DEF R, k, s
  <2>6. ItemsOf(InsertAt(R, k, s), [value EXCEPT ![s] = value[s]])
          = InsertAt(ItemsOf(R, value), k, [at |-> s, value |-> value[s]])
    BY <2>2, <2>3, <2>4, <1>1, ItemsInserted
  <2>7. Items' = InsertAt(RemoveAt(Items, i), k, Items[i])
    BY <2>1, <2>2, <2>5, <2>6, <1>2 DEF R, k, s
  <2>8. Promise!Precede(i, j)
    BY <2>1, <2>7 DEF Promise!Precede, Items, Promise!RemoveAt, RemoveAt,
         Promise!InsertAt, InsertAt, k
  <2> QED
    BY <2>8, <1>2, <1>3
<1>8. CASE EmptyStep
  <2>1. Items' = <<>>
    BY <1>8 DEF EmptyStep, ItemsOf
  <2>2. Promise!Empty
    BY <2>1 DEF Promise!Empty, Items
  <2> QED
    BY <2>2, <1>3
<1>9. CASE SameStep
  BY <1>9 DEF SameStep
<1> QED
  BY <1>4, <1>5, <1>6, <1>7, <1>8, <1>9 DEF ListStep

(***************************************************************************)
(* What is found by following the links from the first element, with the   *)
(* values there, is the sequence of list.h: an operation puts, writes,     *)
(* deletes or moves one item, or empties the list, and changes the address *)
(* or the value of no other.                                               *)
(***************************************************************************)
THEOREM ListImplementsSeq == ListSpec => ImplementsSeq
<1>1. ListInit => Promise!SeqInit
  <2> SUFFICES ASSUME ListInit PROVE Items = <<>>
    BY DEF Promise!SeqInit, Items
  <2>1. Items = ItemsOf(order, value)
    BY ListInvInit, ItemsExact
  <2>2. order = <<>>
    BY DEF ListInit
  <2> QED
    BY <2>1, <2>2 DEF ItemsOf
<1>2. ListInv => Items = ItemsOf(order, value)
  BY ItemsExact
<1>3. ListInv /\ [ListNext]_listVars => ListInv' /\ ListStep
  BY ListInvStep
<1>4. [Promise!SeqNext]_Items => [Promise!SeqNext]_[i \in 1 .. Size |-> Nth(i)]
  BY DEF Items
<1>5. ListInv /\ ListStep /\ (Items = ItemsOf(order, value)) /\ (Items = ItemsOf(order, value))'
        => [Promise!SeqNext]_Items
  BY ItemsStep
<1> QED
  BY <1>1, <1>2, <1>3, <1>4, <1>5, ListInvariant, PTL DEF ListSpec, ImplementsSeq, Promise!SeqSpec
=============================================================================
