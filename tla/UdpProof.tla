------------------------------ MODULE UdpProof ------------------------------
(***************************************************************************)
(* Theorems about the links and their queues, for any peers, places of     *)
(* addresses, hash function and number of datagrams.                       *)
(*                                                                         *)
(* LinksInv is HashInv for the hash of the links, with what makes it safe  *)
(* that udp_socket_receive looks up an address in its own frame: no link   *)
(* has its key there.  QueuesOk says that the links from first_datagram    *)
(* spell, for each link, a sequence of datagrams of its peer that ends at  *)
(* last_datagram, that no datagram is in two and that none is in none.     *)
(***************************************************************************)
EXTENDS Udp, CommonLemmas

\* The hash of links has no cursor: for what is proved of the hash alone.
H == INSTANCE HashProof WITH Place <- Place \cup {from}, Key <- Address, Value <- {NULL},
                             walking <- FALSE, due <- {}, seen <- <<>>,
                             more <- FALSE, over <- FALSE, fetched <- FALSE

LEMMA HashOfLinks == H!HashAssumption
BY UdpAssumption DEF H!HashAssumption

-----------------------------------------------------------------------------
(***************************************************************************)
(* The hash that Udp has is the one that HashProof is about.               *)
(***************************************************************************)
LEMMA LinksFind ==
  \A a : links!Find(a) = H!Find(a) /\ links!Matching(a) = H!Matching(a)
BY DEF links!Find, H!Find, links!Matching, H!Matching, links!KeyAt, H!KeyAt

LEMMA LinksWalk ==
  /\ \A l, n : links!Nth(l, n) = H!Nth(l, n)
  /\ \A l, found : links!Depth(l, found) = H!Depth(l, found)
<1>1. links!Cardinality(elements) = H!Cardinality(elements)
  BY Zenon DEF links!Cardinality, H!Cardinality
<1>2. \A l, n : links!Nth(l, n) = H!Nth(l, n)
  BY Zenon DEF links!Nth, H!Nth
<1>3. \A l, found : links!Depth(l, found) = H!Depth(l, found)
  BY <1>1, <1>2 DEF links!Depth, H!Depth
<1> QED
  BY <1>2, <1>3

LEMMA LinksPut == ASSUME NEW s, links!Put(s, NULL) PROVE H!Put(s, NULL)
BY LinksFind, LinksWalk
   DEF links!Put, H!Put, links!Link, H!Link, links!PlaceAfterUpdate, H!PlaceAfterUpdate

LEMMA LinksRemove == ASSUME NEW a, links!RemoveKey(a) PROVE H!RemoveKey(a)
BY LinksFind, LinksWalk
   DEF links!RemoveKey, H!RemoveKey, links!RemoveFrom, H!RemoveFrom,
       links!Link, H!Link, links!KeyAt, H!KeyAt

LEMMA LinksOther ==
  /\ links!HashInit => H!HashInit
  /\ links!Clear => H!Clear
  /\ \A s, a : links!Scribble(s, a) => H!Scribble(s, a)
<1>1. links!HashInit => H!HashInit
  BY DEF links!HashInit, H!HashInit, links!Line, H!Line
<1>2. links!Clear => H!Clear
  BY DEF links!Clear, H!Clear, links!Line, H!Line
<1>3. ASSUME NEW s, NEW a, links!Scribble(s, a) PROVE H!Scribble(s, a)
  BY <1>3 DEF links!Scribble, H!Scribble, links!Range, H!Range
<1> QED
  BY <1>1, <1>2, <1>3

-----------------------------------------------------------------------------
(***************************************************************************)
(* The links.                                                              *)
(***************************************************************************)
LinksInv ==
  /\ H!HashInv
  /\ \A a \in Address : lent[a] # from
  /\ address \in [Element -> Address \cup {NULL}]
  /\ \A e \in elements : address[e] = H!KeyAt(e)

\* What is found for an address is the link that has it.
LinkFor(a) ==
  \/ links!Find(a) \in elements /\ address[links!Find(a)] = a
  \/ links!Find(a) = NULL /\ \A e \in elements : address[e] # a

LEMMA LinksTyped ==
  ASSUME LinksInv
  PROVE  /\ elements \subseteq Element /\ NULL \notin Element
         /\ content \in [Place \cup {from} -> Address]
         /\ \A e \in elements : address[e] \in Address
         /\ \A c, e \in elements : address[c] = address[e] => c = e
<1>1. H!HashTypes /\ H!KeysInv /\ \A e \in elements : address[e] = H!KeyAt(e)
  BY DEF LinksInv, H!HashInv
<1>2. elements \subseteq Element /\ content \in [Place \cup {from} -> Address]
  BY <1>1 DEF H!HashTypes
<1>3. \A e \in elements : H!KeyAt(e) \in Address
  BY <1>1, <1>2 DEF H!KeysInv, H!KeyAt
<1> QED
  BY <1>1, <1>2, <1>3, UdpAssumption DEF H!KeysInv

LEMMA LinkFound == LinksInv => \A a \in Address : LinkFor(a)
<1> SUFFICES ASSUME LinksInv, NEW a \in Address PROVE LinkFor(a)
  OBVIOUS
<1>1. H!FoundAs(a)
  BY HashOfLinks, H!FindExact DEF LinksInv
<1>2. H!Matching(a) = {e \in elements : address[e] = a}
  BY DEF LinksInv, H!Matching
<1>3. IF H!Matching(a) = {} THEN links!Find(a) = NULL ELSE links!Find(a) \in H!Matching(a)
  BY <1>1, LinksFind DEF H!FoundAs
<1> QED
  BY <1>2, <1>3 DEF LinkFor

LEMMA LinkFoundNext == (LinksInv => \A a \in Address : LinkFor(a))'
BY LinkFound, PTL

\* udp_link_construct and udp_socket_receive for an address that is not there.
LEMMA LinkAdded ==
  ASSUME LinksInv, NEW s \in Place, NEW e \in Element, PutLink(s, e),
         links!Find(content[s]) = NULL
  PROVE  /\ LinksInv' /\ e \notin elements /\ elements' = elements \cup {e}
         /\ address' = [address EXCEPT ![e] = content[s]]
         /\ content' = content /\ content[s] \in Address
<1>1. /\ H!Put(s, NULL) /\ e \notin elements /\ elements' = elements \cup {e}
      /\ address' = [address EXCEPT ![e] = content[s]]
  BY LinksPut DEF PutLink
<1>2. H!HashInv' /\ H!HashStep
  <2>1. s \in Place \cup {from} /\ NULL \in {NULL}
    OBVIOUS
  <2> QED
    BY <1>1, <2>1, HashOfLinks, H!PutKeeps DEF LinksInv
<1>3. /\ H!HashTypes /\ H!HashTypes' /\ H!KeysInv /\ H!KeysInv'
      /\ address \in [Element -> Address \cup {NULL}]
      /\ \A x \in elements : address[x] = H!KeyAt(x)
  BY <1>2 DEF LinksInv, H!HashInv
<1>4. /\ lent' = [lent EXCEPT ![content[s]] = s] /\ content' = content
      /\ place' = [place EXCEPT ![e] = s]
  BY <1>1 DEF H!Put
<1>5. content[s] \in Address
  BY <1>3 DEF H!HashTypes
<1>6. H!KeyAt(e)' = content[s]
  BY <1>3, <1>4 DEF H!KeyAt, H!HashTypes
<1>7. \A x \in elements : H!KeyAt(x)' = H!KeyAt(x)
  BY <1>1, <1>3, <1>4 DEF H!KeyAt, H!HashTypes
<1>8. \A x \in elements' : address'[x] = H!KeyAt(x)'
  BY <1>1, <1>3, <1>6, <1>7 DEF H!HashTypes
<1>9. \A a \in Address : lent'[a] # from
  BY <1>3, <1>4, <1>5, UdpAssumption DEF LinksInv, H!HashTypes
<1>10. address' \in [Element -> Address \cup {NULL}]
  BY <1>1, <1>3, <1>5
<1> QED
  BY <1>1, <1>2, <1>4, <1>5, <1>8, <1>9, <1>10 DEF LinksInv

\* udp_link_del of the last reference.
LEMMA LinkRemoved ==
  ASSUME LinksInv, NEW e \in elements, links!RemoveKey(address[e]),
         address' = [address EXCEPT ![e] = NULL]
  PROVE  LinksInv' /\ elements' = elements \ {e} /\ content' = content
<1>1. H!RemoveKey(H!KeyAt(e)) /\ e \in Element /\ elements \subseteq Element
  <2>1. address[e] = H!KeyAt(e) /\ H!RemoveKey(address[e])
    BY LinksRemove DEF LinksInv
  <2> QED
    BY <2>1, LinksTyped
<1>2. H!HashInv' /\ H!Lost(e)
  BY <1>1, HashOfLinks, H!RemovalsKeep DEF LinksInv
<1>3. elements' = elements \ {e} /\ \A x \in elements' : H!KeyAt(x)' = H!KeyAt(x)
  BY <1>2 DEF H!Lost, H!SameOn
<1>4. /\ address \in [Element -> Address \cup {NULL}]
      /\ \A x \in elements : address[x] = H!KeyAt(x)
  BY DEF LinksInv
<1>5. \A x \in elements' : address'[x] = H!KeyAt(x)'
  BY <1>1, <1>3, <1>4
<1>6. content' = content /\ \E a : lent' = [lent EXCEPT ![a] = NULL]
  BY <1>1 DEF H!RemoveKey, H!RemoveFrom
<1>7. \A a \in Address : lent'[a] # from
  <2>1. PICK a : lent' = [lent EXCEPT ![a] = NULL]
    BY <1>6
  <2>2. lent \in [Address -> (Place \cup {from}) \cup {NULL}]
    BY DEF LinksInv, H!HashInv, H!HashTypes
  <2> QED
    BY <2>1, <2>2, UdpAssumption DEF LinksInv
<1>8. address' \in [Element -> Address \cup {NULL}]
  BY <1>4
<1> QED
  BY <1>2, <1>3, <1>5, <1>6, <1>7, <1>8 DEF LinksInv

\* Writing to a place of the client that no link uses, or to the frame.
LEMMA LinksWritten ==
  ASSUME LinksInv, NEW s \in Place \cup {from}, NEW a \in Address, H!Scribble(s, a),
         UNCHANGED address
  PROVE  LinksInv' /\ elements' = elements /\ content'[s] = a
<1>1. H!HashInv' /\ H!Kept
  BY HashOfLinks, H!ScribbleKeeps DEF LinksInv
<1>2. lent' = lent /\ content' = [content EXCEPT ![s] = a]
  BY DEF H!Scribble
<1>3. content'[s] = a
  BY <1>2, LinksTyped
<1> QED
  BY <1>1, <1>2, <1>3 DEF LinksInv, H!Kept, H!SameOn

LEMMA FrameWritten ==
  ASSUME LinksInv, NEW a \in Address, content' = [content EXCEPT ![from] = a],
         UNCHANGED <<elements, lines, next, place, value, lent, address>>
  PROVE  LinksInv' /\ elements' = elements /\ content'[from] = a
<1>1. DOMAIN lent = Address /\ \A b \in Address : lent[b] # from
  BY DEF LinksInv, H!HashInv, H!HashTypes
<1>2. from \notin H!Range(lent)
  BY <1>1 DEF H!Range
<1>3. H!Scribble(from, a)
  BY <1>2 DEF H!Scribble
<1>4. from \in Place \cup {from} /\ UNCHANGED address
  OBVIOUS
<1> QED
  BY <1>3, <1>4, LinksWritten

\* udp_init
LEMMA LinksCleared ==
  ASSUME LinksInv, links!Clear, address' = [e \in Element |-> NULL]
  PROVE  LinksInv' /\ elements' = {} /\ content' = content
<1>1. H!Clear /\ H!HashTypes
  BY LinksOther DEF LinksInv, H!HashInv
<1>2. H!HashInv' /\ elements' = {}
  BY <1>1, HashOfLinks, H!ClearKeeps
<1>3. content' = content /\ lent' = [a \in Address |-> NULL]
  BY <1>1 DEF H!Clear
<1>4. \A a \in Address : lent'[a] # from
  BY <1>3, UdpAssumption
<1>5. address' \in [Element -> Address \cup {NULL}]
  OBVIOUS
<1> QED
  BY <1>2, <1>3, <1>4, <1>5 DEF LinksInv

LEMMA LinksSame ==
  ASSUME LinksInv, UNCHANGED <<linksVars, address>>
  PROVE  LinksInv'
<1>1. UNCHANGED H!hashVars
  BY DEF linksVars, H!hashVars
<1>2. H!HashInv'
  BY <1>1, HashOfLinks, H!SameKeeps DEF LinksInv
<1>3. /\ elements' = elements /\ place' = place /\ content' = content /\ lent' = lent
      /\ address' = address
  BY DEF linksVars
<1> QED
  BY <1>2, <1>3 DEF LinksInv, H!KeyAt

LEMMA LinksInit == UdpInit => LinksInv
<1> SUFFICES ASSUME UdpInit PROVE LinksInv
  OBVIOUS
<1>1. H!HashInit /\ address = [e \in Element |-> NULL]
  BY LinksOther DEF UdpInit
<1>2. H!HashInv
  BY <1>1, HashOfLinks, H!HashInvInit
<1>3. elements = {} /\ lent = [a \in Address |-> NULL]
  BY <1>1 DEF H!HashInit
<1> QED
  BY <1>1, <1>2, <1>3, UdpAssumption DEF LinksInv

-----------------------------------------------------------------------------
(***************************************************************************)
(* One queue: f and l are its ends, and the links nx from f on spell s.    *)
(***************************************************************************)
Spelt(s, f, l, nx) ==
  /\ s \in Seq(Datagram) /\ NoRepeat(s)
  /\ f = EntryOf(NULL, s, 1) /\ l = EntryOf(NULL, s, Len(s))
  /\ \A i \in 1 .. Len(s) : nx[s[i]] = EntryOf(NULL, s, i + 1)

LEMMA SpeltEntries ==
  ASSUME NEW s, NEW f, NEW l, NEW nx, Spelt(s, f, l, nx)
  PROVE  /\ s \in Seq(Datagram) /\ Len(s) \in Nat /\ DOMAIN s = 1 .. Len(s) /\ NoRepeat(s)
         /\ \A i \in 1 .. Len(s) : s[i] \in Datagram /\ s[i] # NULL
         /\ \A x : x \in Range(s) <=> \E i \in 1 .. Len(s) : s[i] = x
         /\ IF s = <<>> THEN f = NULL /\ l = NULL /\ Len(s) = 0
                        ELSE f = s[1] /\ l = s[Len(s)] /\ Len(s) > 0 /\ f # NULL /\ l # NULL
<1>1. s \in Seq(Datagram) /\ NoRepeat(s)
      /\ f = EntryOf(NULL, s, 1) /\ l = EntryOf(NULL, s, Len(s))
  BY DEF Spelt
<1>2. /\ Len(s) \in Nat /\ DOMAIN s = 1 .. Len(s)
      /\ \A i \in 1 .. Len(s) : s[i] \in Datagram /\ s[i] # NULL
  BY <1>1, UdpAssumption
<1>3. \A x : x \in Range(s) <=> \E i \in 1 .. Len(s) : s[i] = x
  BY <1>1, RangeOf
<1>4. IF s = <<>> THEN f = NULL /\ l = NULL /\ Len(s) = 0
      ELSE f = s[1] /\ l = s[Len(s)] /\ Len(s) > 0 /\ f # NULL /\ l # NULL
  <2>1. s = <<>> <=> Len(s) = 0
    BY <1>1, EmptySeq
  <2> QED
    BY <2>1, <1>1, <1>2 DEF EntryOf
<1> QED
  BY <1>1, <1>2, <1>3, <1>4

LEMMA SpeltSame ==
  ASSUME NEW s, NEW f, NEW l, NEW nx, Spelt(s, f, l, nx), NEW ny,
         \A d \in Range(s) : ny[d] = nx[d]
  PROVE  Spelt(s, f, l, ny)
<1>1. \A i \in 1 .. Len(s) : s[i] \in Range(s)
  BY SpeltEntries
<1> QED
  BY <1>1 DEF Spelt

LEMMA SpeltEmpty == ASSUME NEW nx PROVE Spelt(<<>>, NULL, NULL, nx)
BY DEF Spelt, NoRepeat, EntryOf

\* Lines 190-196: a datagram goes to the end.
LEMMA SpeltPushed ==
  ASSUME NEW s, NEW f, NEW l, NEW nx \in [Datagram -> Datagram \cup {NULL}], Spelt(s, f, l, nx),
         NEW d \in Datagram, d \notin Range(s), nx[d] = NULL,
         NEW ny, ny = IF l = NULL THEN nx ELSE [nx EXCEPT ![l] = d]
  PROVE  Spelt(Append(s, d), IF l = NULL THEN d ELSE f, d, ny)
<1>1. /\ s \in Seq(Datagram) /\ Len(s) \in Nat /\ NoRepeat(s)
      /\ \A i \in 1 .. Len(s) : s[i] \in Datagram /\ s[i] # NULL /\ s[i] \in Range(s)
      /\ IF s = <<>> THEN f = NULL /\ l = NULL /\ Len(s) = 0
                     ELSE f = s[1] /\ l = s[Len(s)] /\ Len(s) > 0 /\ f # NULL /\ l # NULL
  BY SpeltEntries
<1>2. \A i \in 1 .. Len(s) : nx[s[i]] = EntryOf(NULL, s, i + 1)
  BY DEF Spelt
<1>3. PICK t : t = Append(s, d)
  OBVIOUS
<1>4. /\ t \in Seq(Datagram) /\ Len(t) = Len(s) + 1 /\ NoRepeat(t)
      /\ (\A i \in 1 .. Len(s) : t[i] = s[i]) /\ t[Len(s) + 1] = d
  BY <1>1, <1>3, AppendExact
<1>5. EntryOf(NULL, t, Len(t)) = d /\ EntryOf(NULL, t, 1) = IF l = NULL THEN d ELSE f
  BY <1>1, <1>4 DEF EntryOf
<1>6. ASSUME NEW i \in 1 .. Len(t) PROVE ny[t[i]] = EntryOf(NULL, t, i + 1)
  <2>1. CASE i = Len(s) + 1
    <3>1. t[i] = d /\ EntryOf(NULL, t, i + 1) = NULL
      BY <2>1, <1>1, <1>4 DEF EntryOf
    <3>2. d # l
      <4>1. s # <<>> => Len(s) \in 1 .. Len(s) /\ s[Len(s)] \in Range(s)
        BY <1>1
      <4> QED
        BY <4>1, <1>1, UdpAssumption
    <3> QED
      BY <3>1, <3>2
  <2>2. CASE i = Len(s) /\ i # Len(s) + 1
    <3>1. /\ i \in 1 .. Len(s) /\ s # <<>> /\ t[i] = l /\ l \in Datagram /\ l # NULL
          /\ i + 1 \in 1 .. Len(t) /\ t[i + 1] = d
      BY <2>2, <1>1, <1>4
    <3> QED
      BY <3>1 DEF EntryOf
  <2>3. CASE i < Len(s)
    <3>1. i \in 1 .. Len(s) /\ i + 1 \in 1 .. Len(s) /\ i + 1 \in 1 .. Len(t)
      BY <2>3, <1>1, <1>4
    <3>2. t[i] = s[i] /\ t[i + 1] = s[i + 1] /\ nx[s[i]] = s[i + 1]
      BY <3>1, <1>2, <1>4 DEF EntryOf
    <3>3. s[i] # l
      BY <3>1, <2>3, <1>1 DEF NoRepeat
    <3> QED
      BY <3>1, <3>2, <3>3 DEF EntryOf
  <2>4. i = Len(s) + 1 \/ (i = Len(s) /\ i # Len(s) + 1) \/ i < Len(s)
    BY <1>1, <1>4
  <2> QED
    BY <2>1, <2>2, <2>3, <2>4
<1>7. Spelt(t, IF l = NULL THEN d ELSE f, d, ny)
  BY <1>4, <1>5, <1>6 DEF Spelt
<1> QED
  BY <1>3, <1>7

\* udp_link_shift_datagrams: the first one goes.
LEMMA SpeltShifted ==
  ASSUME NEW s, NEW f, NEW l, NEW nx, Spelt(s, f, l, nx), f # NULL, NEW ny,
         \A d \in Datagram : d # f => ny[d] = nx[d]
  PROVE  /\ Spelt(Tail(s), nx[f], IF l = f THEN NULL ELSE l, ny)
         /\ s # <<>> /\ Range(Tail(s)) = Range(s) \ {f}
<1>1. /\ s \in Seq(Datagram) /\ Len(s) \in Nat /\ NoRepeat(s)
      /\ \A i \in 1 .. Len(s) : s[i] \in Datagram /\ s[i] # NULL
      /\ \A x : x \in Range(s) <=> \E i \in 1 .. Len(s) : s[i] = x
      /\ s # <<>> /\ f = s[1] /\ l = s[Len(s)] /\ Len(s) > 0
  BY SpeltEntries
<1>2. \A i \in 1 .. Len(s) : nx[s[i]] = EntryOf(NULL, s, i + 1)
  BY DEF Spelt
<1>3. PICK t : t = Tail(s)
  OBVIOUS
<1>4. /\ t \in Seq(Datagram) /\ Len(t) = Len(s) - 1
      /\ \A i \in 1 .. Len(s) - 1 : t[i] = s[i + 1]
  BY <1>1, <1>3
<1>5. NoRepeat(t)
  BY <1>1, <1>4 DEF NoRepeat
<1>6. \A x : x \in Range(t) <=> \E i \in 1 .. Len(t) : t[i] = x
  BY <1>4, RangeOf
<1>7. ASSUME NEW x PROVE x \in Range(t) <=> x \in Range(s) /\ x # f
  <2>1. ASSUME x \in Range(t) PROVE x \in Range(s) /\ x # f
    <3>1. PICK i \in 1 .. Len(t) : t[i] = x
      BY <2>1, <1>6
    <3>2. i + 1 \in 1 .. Len(s) /\ s[i + 1] = x /\ i + 1 # 1
      BY <3>1, <1>1, <1>4
    <3> QED
      BY <3>2, <1>1 DEF NoRepeat
  <2>2. ASSUME x \in Range(s), x # f PROVE x \in Range(t)
    <3>1. PICK i \in 1 .. Len(s) : s[i] = x
      BY <2>2, <1>1
    <3>2. i - 1 \in 1 .. Len(t) /\ t[i - 1] = x
      BY <3>1, <2>2, <1>1, <1>4
    <3> QED
      BY <3>2, <1>6
  <2> QED
    BY <2>1, <2>2
<1>8. ASSUME NEW i \in 1 .. Len(t) PROVE ny[t[i]] = EntryOf(NULL, t, i + 1)
  <2>1. i + 1 \in 1 .. Len(s) /\ i + 1 # 1 /\ t[i] = s[i + 1] /\ (i + 1) + 1 = i + 2
    BY <1>1, <1>4
  <2>2. s[i + 1] # f /\ s[i + 1] \in Datagram
    BY <2>1, <1>1 DEF NoRepeat
  <2>3. ny[t[i]] = EntryOf(NULL, s, i + 2)
    BY <2>1, <2>2, <1>2
  <2>4. EntryOf(NULL, t, i + 1) = EntryOf(NULL, s, i + 2)
    BY <1>1, <1>4, <2>1 DEF EntryOf
  <2> QED
    BY <2>3, <2>4
<1>9. nx[f] = EntryOf(NULL, t, 1)
  <2>1. nx[f] = EntryOf(NULL, s, 2)
    <3>1. 1 \in 1 .. Len(s) /\ 1 + 1 = 2
      BY <1>1
    <3> QED
      BY <3>1, <1>1, <1>2
  <2> QED
    BY <2>1, <1>1, <1>4 DEF EntryOf
<1>10. EntryOf(NULL, t, Len(t)) = IF l = f THEN NULL ELSE l
  <2>1. l = f <=> Len(s) = 1
    <3>1. 1 \in 1 .. Len(s) /\ Len(s) \in 1 .. Len(s) /\ l = s[Len(s)] /\ f = s[1]
      BY <1>1
    <3>2. NoRepeat(s)
      BY <1>1
    <3> QED
      BY ONLY <3>1, <3>2 DEF NoRepeat
  <2> QED
    BY <2>1, <1>1, <1>4 DEF EntryOf
<1>11. Spelt(t, nx[f], IF l = f THEN NULL ELSE l, ny)
  BY <1>4, <1>5, <1>8, <1>9, <1>10 DEF Spelt
<1>12. Range(t) = Range(s) \ {f}
  BY <1>7
<1> QED
  BY <1>1, <1>3, <1>11, <1>12

\* From walks the links to the end.
FromAt(at, n) ==
  LET length == CHOOSE m \in 0 .. n : at[m] = NULL /\ \A i \in 0 .. m - 1 : at[i] # NULL
  IN  [i \in 1 .. length |-> at[i - 1]]

LEMMA FromExact ==
  ASSUME NEW s, NEW f, NEW l, Spelt(s, f, l, next_dtg)
  PROVE  From(f) = s /\ Len(s) =< Cardinality(Datagram) /\ Cardinality(Datagram) \in Nat
<1>1. PICK n : n = Cardinality(Datagram)
  OBVIOUS
<1>2. PICK at : at = LinkWalked(NULL, next_dtg, f, n)
  OBVIOUS
<1>3. From(f) = FromAt(at, n)
  BY <1>1, <1>2 DEF From, FromAt, LinkWalked, LinkWalk
<1>4. /\ s \in Seq(Datagram) /\ Len(s) \in Nat /\ NoRepeat(s) /\ DOMAIN s = 1 .. Len(s)
      /\ \A i \in 1 .. Len(s) : s[i] \in Datagram /\ s[i] # NULL
  BY SpeltEntries
<1>5. n \in Nat /\ Len(s) =< n
  <2>1. Range(s) \subseteq Datagram /\ IsFiniteSet(Datagram)
    BY <1>4, RangeOf, UdpAssumption
  <2>2. Cardinality(Range(s)) = Len(s)
    BY <1>4, NoRepeatCardinality
  <2> QED
    BY <1>1, <2>1, <2>2, FS_Subset, FS_CardinalityType
<1>6. ASSUME NEW i \in 0 .. n PROVE at[i] = EntryOf(NULL, s, i + 1)
  <2>1. PICK nx : nx = next_dtg
    OBVIOUS
  <2>2. LinksFrom(Datagram, NULL, s, nx, f)
    BY <2>1, UdpAssumption DEF Spelt, LinksFrom
  <2>3. LinkWalked(NULL, nx, f, n)[i] = EntryOf(NULL, s, i + 1)
    BY <2>2, <1>5, LinkWalkExact
  <2> QED
    BY <1>2, <2>1, <2>3
<1>7. \A i \in 0 .. n : at[i] = NULL <=> ~(i < Len(s))
  BY <1>4, <1>5, <1>6 DEF EntryOf
<1>8. (CHOOSE m \in 0 .. n : at[m] = NULL /\ \A i \in 0 .. m - 1 : at[i] # NULL) = Len(s)
  <2>1. Len(s) \in 0 .. n /\ at[Len(s)] = NULL /\ \A i \in 0 .. Len(s) - 1 : at[i] # NULL
    BY <1>4, <1>5, <1>7
  <2>2. ASSUME NEW m \in 0 .. n, at[m] = NULL, \A i \in 0 .. m - 1 : at[i] # NULL
        PROVE  m = Len(s)
    <3>1. ~(m < Len(s))
      BY <1>7, <2>2
    <3>2. ~(Len(s) < m)
      <4>1. Len(s) < m => Len(s) \in 0 .. m - 1
        BY <1>4
      <4> QED
        BY <4>1, <2>1, <2>2
    <3>3. m \in Nat /\ Len(s) \in Nat
      BY <1>4, <1>5
    <3> QED
      BY ONLY <3>1, <3>2, <3>3
  <2> QED
    BY <2>1, <2>2
<1>9. FromAt(at, n) = [i \in 1 .. Len(s) |-> at[i - 1]]
  BY <1>8 DEF FromAt
<1>10. \A i \in 1 .. Len(s) : at[i - 1] = s[i]
  <2> TAKE i \in 1 .. Len(s)
  <2>1. i - 1 \in 0 .. n /\ (i - 1) + 1 = i
    BY <1>4, <1>5
  <2>2. at[i - 1] = EntryOf(NULL, s, (i - 1) + 1)
    BY <2>1, <1>6
  <2> QED
    BY <2>1, <2>2 DEF EntryOf
<1>11. s = [i \in 1 .. Len(s) |-> s[i]]
  BY <1>4
<1>12. [i \in 1 .. Len(s) |-> at[i - 1]] = [i \in 1 .. Len(s) |-> s[i]]
  BY <1>10
<1> QED
  BY <1>1, <1>3, <1>5, <1>9, <1>11, <1>12

-----------------------------------------------------------------------------
(***************************************************************************)
(* The invariant, and what each action does to the queues q.               *)
(***************************************************************************)
UdpTypes ==
  /\ first_datagram \in [Element -> Datagram \cup {NULL}]
  /\ last_datagram \in [Element -> Datagram \cup {NULL}]
  /\ refcount \in [Element -> Nat] /\ holds \in [Element -> Nat]
  /\ buffers \subseteq Datagram
  /\ next_dtg \in [Datagram -> Datagram \cup {NULL}]
  /\ sender \in [Datagram -> Address \cup {NULL}]
  /\ dtg \in Datagram \cup {NULL}

RefsExact ==
  \A e \in Element : refcount[e] = holds[e] /\ (e \in elements <=> holds[e] > 0)

Receiving ==
  dtg # NULL => /\ dtg \in buffers /\ next_dtg[dtg] = NULL
                /\ sender[dtg] = content[from] /\ Known(content[from])

QueuesSpell(q) ==
  /\ q \in [Element -> Seq(Datagram)]
  /\ \A e \in Element : Spelt(q[e], first_datagram[e], last_datagram[e], next_dtg)
  /\ \A e \in Element : e \notin elements => q[e] = <<>>

QueuesHold(q) ==
  /\ \A e \in Element : \A d \in Range(q[e]) :
       d \in buffers /\ d # dtg /\ sender[d] = address[e]
  /\ \A c, e \in Element : \A d \in Range(q[c]) : d \in Range(q[e]) => c = e
  /\ \A d \in buffers : d # dtg => \E e \in Element : d \in Range(q[e])

QueuesOk(q) == QueuesSpell(q) /\ QueuesHold(q)

StateInv == LinksInv /\ UdpTypes /\ RefsExact /\ Receiving

UdpInv == StateInv /\ \E q : QueuesOk(q)

LEMMA RangeEmpty == Range(<<>>) = {}
BY DEF Range

LEMMA ConstructStep ==
  ASSUME StateInv, NEW q, QueuesOk(q), dtg = NULL,
         NEW s \in Place, ~Known(content[s]), Construct(s)
  PROVE  /\ StateInv' /\ QueuesOk(q)'
         /\ \E e \in Element \ elements :
              /\ elements' = elements \cup {e} /\ q[e] = <<>>
              /\ address' = [address EXCEPT ![e] = content[s]]
              /\ refcount' = [refcount EXCEPT ![e] = 1]
<1>1. PICK e \in Element :
        /\ PutLink(s, e)
        /\ first_datagram' = [first_datagram EXCEPT ![e] = NULL]
        /\ last_datagram' = [last_datagram EXCEPT ![e] = NULL]
        /\ refcount' = [refcount EXCEPT ![e] = 1]
        /\ holds' = [holds EXCEPT ![e] = 1]
        /\ UNCHANGED <<buffers, next_dtg, dtg, sender>>
  BY DEF Construct
<1>2. /\ LinksInv' /\ e \notin elements /\ elements' = elements \cup {e}
      /\ address' = [address EXCEPT ![e] = content[s]]
  BY <1>1, LinkAdded DEF StateInv, Known
<1>3. /\ UdpTypes /\ RefsExact /\ address \in [Element -> Address \cup {NULL}]
  BY DEF StateInv, LinksInv
<1>4. QueuesSpell(q) /\ QueuesHold(q) /\ q[e] = <<>> /\ Range(q[e]) = {}
  BY <1>2, RangeEmpty DEF QueuesOk, QueuesSpell
<1>5. first_datagram[e] = NULL /\ last_datagram[e] = NULL
  <2>1. Spelt(<<>>, first_datagram[e], last_datagram[e], next_dtg)
    BY <1>4 DEF QueuesSpell
  <2> QED
    BY <2>1, SpeltEntries
<1>6. first_datagram' = first_datagram /\ last_datagram' = last_datagram
  BY <1>1, <1>3, <1>5 DEF UdpTypes
<1>7. UdpTypes'
  BY <1>1, <1>3, <1>6 DEF UdpTypes
<1>8. RefsExact'
  BY <1>1, <1>2, <1>3 DEF RefsExact, UdpTypes
<1>9. Receiving'
  BY <1>1 DEF Receiving
<1>10. QueuesSpell(q)'
  BY <1>1, <1>2, <1>4, <1>6 DEF QueuesSpell
<1>11. QueuesHold(q)'
  BY <1>1, <1>2, <1>3, <1>4 DEF QueuesHold
<1> QED
  BY <1>1, <1>2, <1>4, <1>7, <1>8, <1>9, <1>10, <1>11 DEF StateInv, QueuesOk

LEMMA RestartStep ==
  ASSUME StateInv, dtg = NULL, Restart
  PROVE  /\ StateInv' /\ elements' = {}
         /\ \E r : r = [e \in Element |-> <<>>] /\ QueuesOk(r)'
<1>1. /\ links!Clear
      /\ address' = [e \in Element |-> NULL]
      /\ first_datagram' = [e \in Element |-> NULL]
      /\ last_datagram' = [e \in Element |-> NULL]
      /\ refcount' = [e \in Element |-> 0]
      /\ buffers' = {}
      /\ next_dtg' = [d \in Datagram |-> NULL]
      /\ sender' = [d \in Datagram |-> NULL]
      /\ holds' = [e \in Element |-> 0]
      /\ dtg' = NULL
  BY DEF Restart
<1>2. LinksInv' /\ elements' = {}
  BY <1>1, LinksCleared DEF StateInv
<1>3. UdpTypes'
  BY <1>1 DEF UdpTypes
<1>4. RefsExact' /\ Receiving'
  BY <1>1, <1>2 DEF RefsExact, Receiving
<1>5. PICK r : r = [e \in Element |-> <<>>]
  OBVIOUS
<1>6. r \in [Element -> Seq(Datagram)] /\ \A e \in Element : r[e] = <<>> /\ Range(r[e]) = {}
  BY <1>5, RangeEmpty
<1>7. QueuesSpell(r)'
  BY <1>1, <1>6, SpeltEmpty DEF QueuesSpell
<1>8. QueuesHold(r)'
  BY <1>1, <1>6 DEF QueuesHold
<1> QED
  BY <1>2, <1>3, <1>4, <1>5, <1>7, <1>8 DEF StateInv, QueuesOk

\* A datagram has come from a peer that has a link.
LEMMA ArriveStep ==
  ASSUME StateInv, NEW q, QueuesOk(q), dtg = NULL,
         NEW a \in Address, Known(a), NEW d \in Datagram, Arrive(a, d)
  PROVE  /\ StateInv' /\ QueuesOk(q)'
         /\ UNCHANGED <<elements, address, refcount>>
<1>1. /\ d \notin buffers /\ buffers' = buffers \cup {d}
      /\ next_dtg' = [next_dtg EXCEPT ![d] = NULL]
      /\ sender' = [sender EXCEPT ![d] = a]
      /\ content' = [content EXCEPT ![from] = a]
      /\ dtg' = d
      /\ UNCHANGED <<elements, lines, next, place, value, lent, address,
                     first_datagram, last_datagram, refcount, holds>>
  BY DEF Arrive, fields
<1>2. LinksInv' /\ content'[from] = a
  BY <1>1, FrameWritten DEF StateInv
<1>3. UdpTypes /\ RefsExact /\ LinksInv /\ QueuesSpell(q) /\ QueuesHold(q)
  BY DEF StateInv, QueuesOk
<1>4. Known(a)'
  <2>1. LinkFor(a) /\ links!Find(a) # NULL
    BY <1>3, LinkFound DEF Known
  <2>2. \E e \in elements : address[e] = a
    BY <2>1 DEF LinkFor
  <2>3. LinkFor(a)'
    BY <1>2, LinkFoundNext
  <2>4. links!Find(a)' # NULL
    <3>1. (links!Find(a) \in elements)' => links!Find(a)' # NULL
      BY <1>1, <1>3, LinksTyped
    <3> QED
      BY <3>1, <2>2, <2>3, <1>1 DEF LinkFor
  <2> QED
    BY <2>4 DEF Known
<1>5. UdpTypes'
  BY <1>1, <1>3 DEF UdpTypes
<1>6. RefsExact'
  BY <1>1, <1>3 DEF RefsExact
<1>7. Receiving'
  <2>1. d \in buffers' /\ next_dtg'[d] = NULL /\ sender'[d] = a
    BY <1>1, <1>3 DEF UdpTypes
  <2>2. Known(content[from])'
    BY <1>2, <1>4 DEF Known
  <2> QED
    BY <2>1, <2>2, <1>1, <1>2 DEF Receiving
<1>8. \A e \in Element : \A b \in Range(q[e]) : b \in buffers /\ b # d /\ b \in Datagram
  BY <1>1, <1>3 DEF QueuesHold, UdpTypes
<1>9. QueuesSpell(q)'
  <2>1. ASSUME NEW e \in Element
        PROVE  Spelt(q[e], first_datagram'[e], last_datagram'[e], next_dtg')
    <3>1. \A b \in Range(q[e]) : next_dtg'[b] = next_dtg[b]
      BY <1>1, <1>3, <1>8 DEF UdpTypes
    <3>2. Spelt(q[e], first_datagram[e], last_datagram[e], next_dtg)
      BY <1>3 DEF QueuesSpell
    <3> QED
      BY <3>1, <3>2, <1>1, SpeltSame
  <2> QED
    BY <2>1, <1>1, <1>3 DEF QueuesSpell
<1>10. QueuesHold(q)'
  <2>1. ASSUME NEW e \in Element, NEW b \in Range(q[e])
        PROVE  b \in buffers' /\ b # dtg' /\ sender'[b] = address'[e]
    <3>1. sender'[b] = sender[b]
      BY <1>1, <1>3, <1>8 DEF UdpTypes
    <3>2. sender[b] = address[e]
      BY <1>3 DEF QueuesHold
    <3> QED
      BY <3>1, <3>2, <1>1, <1>8
  <2>2. \A c, e \in Element : \A b \in Range(q[c]) : b \in Range(q[e]) => c = e
    BY <1>3 DEF QueuesHold
  <2>3. ASSUME NEW b \in buffers', b # dtg' PROVE \E e \in Element : b \in Range(q[e])
    <3>1. b \in buffers /\ b # dtg
      BY <2>3, <1>1, <1>3, UdpAssumption DEF UdpTypes
    <3> QED
      BY <3>1, <1>3 DEF QueuesHold
  <2> QED
    BY <2>1, <2>2, <2>3 DEF QueuesHold
<1> QED
  BY <1>1, <1>2, <1>5, <1>6, <1>7, <1>9, <1>10 DEF StateInv, QueuesOk

\* The datagram goes to the end of the queue of its peer.
LEMMA DispatchStep ==
  ASSUME StateInv, NEW q, QueuesOk(q), Dispatch
  PROVE  /\ StateInv' /\ UNCHANGED <<elements, address>>
         /\ \E e \in elements, d \in Datagram : \E r :
              /\ d \in buffers /\ d = dtg /\ dtg # NULL
              /\ r = [q EXCEPT ![e] = Append(@, d)] /\ QueuesOk(r)'
              /\ refcount' = [refcount EXCEPT ![e] = @ + 1]
<1>1. LinksInv /\ UdpTypes /\ RefsExact /\ Receiving /\ QueuesSpell(q) /\ QueuesHold(q)
  BY DEF StateInv, QueuesOk
<1>2. dtg # NULL
  BY DEF Dispatch
<1>3. /\ dtg \in buffers /\ dtg \in Datagram /\ next_dtg[dtg] = NULL
      /\ sender[dtg] = content[from] /\ links!Find(content[from]) # NULL
  BY <1>1, <1>2 DEF Receiving, UdpTypes, Known
<1>4. PICK e \in Element :
        /\ links!Find(content[from]) = e
        /\ refcount' = [refcount EXCEPT ![e] = refcount[e] + 1]
        /\ Enqueue(e, first_datagram[e], last_datagram[e])
        /\ UNCHANGED <<linksVars, address>>
        /\ holds' = [holds EXCEPT ![e] = @ + 1]
        /\ dtg' = NULL
        /\ UNCHANGED <<buffers, sender>>
  BY <1>3 DEF Dispatch, LinkOf, RefsAfterReuse
<1>5. e \in elements /\ address[e] = content[from]
  <2>1. content[from] \in Address
    BY <1>1, LinksTyped
  <2>2. LinkFor(content[from])
    BY <1>1, <2>1, LinkFound
  <2> QED
    BY <2>2, <1>3, <1>4 DEF LinkFor
<1>6. LinksInv' /\ elements' = elements /\ address' = address /\ content' = content
  BY <1>1, <1>4, LinksSame DEF linksVars
<1>7. PICK d, f, l : d = dtg /\ f = first_datagram[e] /\ l = last_datagram[e]
  OBVIOUS
<1>8. /\ next_dtg' = IF l = NULL THEN next_dtg ELSE [next_dtg EXCEPT ![l] = d]
      /\ first_datagram' = [first_datagram EXCEPT ![e] = IF l = NULL THEN d ELSE f]
      /\ last_datagram' = [last_datagram EXCEPT ![e] = d]
  BY <1>4, <1>7 DEF Enqueue
<1>9. d \in Datagram /\ d \in buffers /\ d # NULL /\ next_dtg[d] = NULL
  BY <1>2, <1>3, <1>7
<1>10. UdpTypes'
  BY <1>1, <1>4, <1>7, <1>8, <1>9 DEF UdpTypes
<1>11. RefsExact'
  BY <1>1, <1>4, <1>5, <1>6 DEF RefsExact, UdpTypes
<1>12. Receiving'
  BY <1>4 DEF Receiving
<1>13. /\ Spelt(q[e], f, l, next_dtg) /\ q \in [Element -> Seq(Datagram)]
       /\ \A c \in Element : d \notin Range(q[c]) /\ Range(q[c]) \subseteq buffers
       /\ buffers \subseteq Datagram
  BY <1>1, <1>7 DEF QueuesSpell, QueuesHold, UdpTypes
<1>14. PICK t : t = Append(q[e], d)
  OBVIOUS
<1>15. /\ Spelt(t, IF l = NULL THEN d ELSE f, d, next_dtg')
       /\ Range(t) = Range(q[e]) \cup {d} /\ t \in Seq(Datagram)
  <2>1. next_dtg \in [Datagram -> Datagram \cup {NULL}]
    BY <1>1 DEF UdpTypes
  <2>2. Spelt(t, IF l = NULL THEN d ELSE f, d, next_dtg')
    BY <2>1, <1>8, <1>9, <1>13, <1>14, SpeltPushed
  <2>3. NoRepeat(q[e]) /\ q[e] \in Seq(Datagram)
    BY <1>13, SpeltEntries
  <2> QED
    BY <2>2, <2>3, <1>9, <1>13, <1>14, AppendExact
<1>16. PICK r : r = [q EXCEPT ![e] = t]
  OBVIOUS
<1>17. /\ r \in [Element -> Seq(Datagram)] /\ r[e] = t
       /\ \A c \in Element : c # e => r[c] = q[c]
  BY <1>13, <1>15, <1>16
<1>18. QueuesSpell(r)'
  <2>1. ASSUME NEW c \in Element
        PROVE  Spelt(r[c], first_datagram'[c], last_datagram'[c], next_dtg')
    <3>1. CASE c = e
      BY <3>1, <1>1, <1>8, <1>15, <1>17 DEF UdpTypes
    <3>2. CASE c # e
      <4>1. Spelt(q[c], first_datagram[c], last_datagram[c], next_dtg)
        BY <1>1 DEF QueuesSpell
      <4>2. \A b \in Range(q[c]) : next_dtg'[b] = next_dtg[b]
        <5>1. l # NULL => l \in Range(q[e]) /\ l \in Datagram
          BY <1>13, SpeltEntries
        <5>2. \A b \in Range(q[c]) : b # l \/ l = NULL
          BY <5>1, <3>2, <1>1 DEF QueuesHold
        <5> QED
          BY <5>1, <5>2, <1>1, <1>8, <1>13 DEF UdpTypes
      <4>3. first_datagram'[c] = first_datagram[c] /\ last_datagram'[c] = last_datagram[c]
        BY <3>2, <1>1, <1>8 DEF UdpTypes
      <4> QED
        BY <4>1, <4>2, <4>3, <3>2, <1>17, SpeltSame
    <3> QED
      BY <3>1, <3>2
  <2>2. \A c \in Element : c \notin elements' => r[c] = <<>>
    BY <1>1, <1>5, <1>6, <1>17 DEF QueuesSpell
  <2> QED
    BY <2>1, <2>2, <1>17 DEF QueuesSpell
<1>19. QueuesHold(r)'
  <2>1. \A c \in Element : Range(r[c]) = IF c = e THEN Range(q[e]) \cup {d} ELSE Range(q[c])
    BY <1>15, <1>17
  <2>2. dtg' = NULL /\ buffers' = buffers /\ sender' = sender /\ NULL \notin buffers
    BY <1>4, <1>13, UdpAssumption
  <2>3. sender[d] = address[e]
    BY <1>3, <1>5, <1>7
  <2>4. ASSUME NEW c \in Element, NEW b \in Range(r[c])
        PROVE  b \in buffers' /\ b # dtg' /\ sender'[b] = address'[c]
    BY <2>1, <2>2, <2>3, <1>1, <1>6, <1>9, <1>13 DEF QueuesHold
  <2>5. \A c, g \in Element : \A b \in Range(r[c]) : b \in Range(r[g]) => c = g
    BY <2>1, <1>1, <1>13 DEF QueuesHold
  <2>6. \A b \in buffers' : b # dtg' => \E c \in Element : b \in Range(r[c])
    BY <2>1, <2>2, <1>1, <1>7 DEF QueuesHold
  <2> QED
    BY <2>4, <2>5, <2>6 DEF QueuesHold
<1>20. r = [q EXCEPT ![e] = Append(@, d)]
  BY <1>14, <1>16
<1> QED
  BY <1>2, <1>4, <1>5, <1>6, <1>7, <1>9, <1>10, <1>11, <1>12, <1>18, <1>19, <1>20
     DEF StateInv, QueuesOk

\* The first datagram of a queue goes.
LEMMA ShiftStep ==
  ASSUME StateInv, NEW q, QueuesOk(q), dtg = NULL, NEW e \in elements, Shift(e)
  PROVE  /\ StateInv' /\ UNCHANGED <<elements, address, refcount>> /\ q[e] # <<>>
         /\ \E r : r = [q EXCEPT ![e] = Tail(@)] /\ QueuesOk(r)'
<1>1. LinksInv /\ UdpTypes /\ RefsExact /\ Receiving /\ QueuesSpell(q) /\ QueuesHold(q)
  BY DEF StateInv, QueuesOk
<1>2. e \in Element
  BY <1>1, LinksTyped
<1>3. PICK d, l : d = first_datagram[e] /\ l = last_datagram[e]
  OBVIOUS
<1>4. /\ d # NULL
      /\ first_datagram' = [first_datagram EXCEPT ![e] = next_dtg[d]]
      /\ last_datagram' = [last_datagram EXCEPT ![e] = IF l = d THEN NULL ELSE l]
      /\ buffers' = buffers \ {d}
      /\ next_dtg' = [next_dtg EXCEPT ![d] = NULL]
      /\ sender' = [sender EXCEPT ![d] = NULL]
      /\ UNCHANGED <<linksVars, address, refcount, dtg, holds>>
  BY <1>3 DEF Shift, FirstAfterShift, LastAfterShift
<1>5. LinksInv' /\ elements' = elements /\ address' = address
  BY <1>1, <1>4, LinksSame DEF linksVars
<1>6. d \in Datagram /\ next_dtg[d] \in Datagram \cup {NULL} /\ l \in Datagram \cup {NULL}
  BY <1>1, <1>2, <1>3, <1>4 DEF UdpTypes
<1>7. UdpTypes'
  BY <1>1, <1>2, <1>4, <1>6 DEF UdpTypes
<1>8. RefsExact' /\ Receiving'
  BY <1>1, <1>4, <1>5 DEF RefsExact, Receiving
<1>9. /\ Spelt(q[e], d, l, next_dtg) /\ q \in [Element -> Seq(Datagram)]
      /\ \A c \in Element : Range(q[c]) \subseteq buffers
      /\ buffers \subseteq Datagram
  BY <1>1, <1>2, <1>3 DEF QueuesSpell, QueuesHold, UdpTypes
<1>10. PICK t : t = Tail(q[e])
  OBVIOUS
<1>11. /\ Spelt(t, next_dtg[d], IF l = d THEN NULL ELSE l, next_dtg')
       /\ q[e] # <<>> /\ Range(t) = Range(q[e]) \ {d} /\ t \in Seq(Datagram) /\ d \in Range(q[e])
  <2>1. \A b \in Datagram : b # d => next_dtg'[b] = next_dtg[b]
    BY <1>1, <1>4 DEF UdpTypes
  <2>2. /\ Spelt(t, next_dtg[d], IF l = d THEN NULL ELSE l, next_dtg')
        /\ q[e] # <<>> /\ Range(t) = Range(q[e]) \ {d}
    BY <2>1, <1>4, <1>9, <1>10, SpeltShifted
  <2>3. d \in Range(q[e])
    BY <2>2, <1>9, SpeltEntries
  <2> QED
    BY <2>2, <2>3 DEF Spelt
<1>12. PICK r : r = [q EXCEPT ![e] = t]
  OBVIOUS
<1>13. /\ r \in [Element -> Seq(Datagram)] /\ r[e] = t
       /\ \A c \in Element : c # e => r[c] = q[c]
  BY <1>2, <1>9, <1>11, <1>12
<1>14. \A c \in Element : c # e => d \notin Range(q[c])
  BY <1>1, <1>2, <1>11 DEF QueuesHold
<1>15. QueuesSpell(r)'
  <2>1. ASSUME NEW c \in Element
        PROVE  Spelt(r[c], first_datagram'[c], last_datagram'[c], next_dtg')
    <3>1. CASE c = e
      BY <3>1, <1>1, <1>4, <1>11, <1>13 DEF UdpTypes
    <3>2. CASE c # e
      <4>1. Spelt(q[c], first_datagram[c], last_datagram[c], next_dtg)
        BY <1>1 DEF QueuesSpell
      <4>2. \A b \in Range(q[c]) : next_dtg'[b] = next_dtg[b]
        BY <3>2, <1>1, <1>4, <1>9, <1>14 DEF UdpTypes
      <4>3. first_datagram'[c] = first_datagram[c] /\ last_datagram'[c] = last_datagram[c]
        BY <3>2, <1>1, <1>4 DEF UdpTypes
      <4> QED
        BY <4>1, <4>2, <4>3, <3>2, <1>13, SpeltSame
    <3> QED
      BY <3>1, <3>2
  <2>2. \A c \in Element : c \notin elements' => r[c] = <<>>
    BY <1>1, <1>5, <1>13 DEF QueuesSpell
  <2> QED
    BY <2>1, <2>2, <1>13 DEF QueuesSpell
<1>16. QueuesHold(r)'
  <2>1. \A c \in Element : Range(r[c]) = Range(q[c]) \ {d}
    BY <1>11, <1>13, <1>14
  <2>2. ASSUME NEW c \in Element, NEW b \in Range(r[c])
        PROVE  b \in buffers' /\ b # dtg' /\ sender'[b] = address'[c]
    <3>1. b \in Range(q[c]) /\ b # d /\ b \in buffers /\ b \in Datagram
      BY <2>1, <2>2, <1>9
    <3>2. sender'[b] = sender[b]
      BY <3>1, <1>1, <1>4 DEF UdpTypes
    <3>3. b # dtg /\ sender[b] = address[c]
      BY <3>1, <1>1 DEF QueuesHold
    <3> QED
      BY <3>1, <3>2, <3>3, <1>4, <1>5
  <2>3. \A c, g \in Element : \A b \in Range(r[c]) : b \in Range(r[g]) => c = g
    BY <2>1, <1>1 DEF QueuesHold
  <2>4. \A b \in buffers' : b # dtg' => \E c \in Element : b \in Range(r[c])
    BY <2>1, <1>1, <1>4 DEF QueuesHold
  <2> QED
    BY <2>2, <2>3, <2>4 DEF QueuesHold
<1>17. r = [q EXCEPT ![e] = Tail(@)]
  BY <1>10, <1>12
<1> QED
  BY <1>4, <1>5, <1>7, <1>8, <1>11, <1>15, <1>16, <1>17 DEF StateInv, QueuesOk

\* A reference goes that is not the last one.
LEMMA ReleaseStep ==
  ASSUME StateInv, NEW q, QueuesOk(q), dtg = NULL,
         NEW e \in elements, Delete(e), refcount[e] - 1 > 0
  PROVE  /\ StateInv' /\ QueuesOk(q)' /\ UNCHANGED <<elements, address>>
         /\ refcount' = [refcount EXCEPT ![e] = @ - 1]
<1>1. LinksInv /\ UdpTypes /\ RefsExact /\ Receiving /\ QueuesSpell(q) /\ QueuesHold(q)
  BY DEF StateInv, QueuesOk
<1>2. e \in Element
  BY <1>1, LinksTyped
<1>3. /\ holds' = [holds EXCEPT ![e] = @ - 1]
      /\ refcount' = [refcount EXCEPT ![e] = refcount[e] - 1]
      /\ UNCHANGED <<linksVars, address, first_datagram, last_datagram,
                     buffers, next_dtg, sender, dtg>>
  BY DEF Delete
<1>4. LinksInv' /\ elements' = elements /\ address' = address
  BY <1>1, <1>3, LinksSame DEF linksVars
<1>5. refcount[e] = holds[e] /\ holds[e] \in Nat /\ holds[e] - 1 \in Nat /\ holds[e] - 1 > 0
  BY <1>1, <1>2 DEF RefsExact, UdpTypes
<1>6. UdpTypes'
  BY <1>1, <1>2, <1>3, <1>5 DEF UdpTypes
<1>7. RefsExact'
  BY <1>1, <1>2, <1>3, <1>4, <1>5 DEF RefsExact, UdpTypes
<1>8. Receiving'
  BY <1>3 DEF Receiving
<1>9. QueuesSpell(q)'
  BY <1>1, <1>3, <1>4 DEF QueuesSpell
<1>10. QueuesHold(q)'
  BY <1>1, <1>3, <1>4 DEF QueuesHold
<1> QED
  BY <1>3, <1>4, <1>6, <1>7, <1>8, <1>9, <1>10 DEF StateInv, QueuesOk

\* The last reference goes, and with it the link and its datagrams.
LEMMA LastReleaseStep ==
  ASSUME StateInv, NEW q, QueuesOk(q), dtg = NULL,
         NEW e \in elements, Delete(e), ~(refcount[e] - 1 > 0)
  PROVE  /\ StateInv' /\ elements' = elements \ {e} /\ refcount[e] = 1
         /\ address' = [address EXCEPT ![e] = NULL]
         /\ refcount' = [refcount EXCEPT ![e] = 0]
         /\ \E r : r = [q EXCEPT ![e] = <<>>] /\ QueuesOk(r)'
<1>1. LinksInv /\ UdpTypes /\ RefsExact /\ Receiving /\ QueuesSpell(q) /\ QueuesHold(q)
  BY DEF StateInv, QueuesOk
<1>2. e \in Element /\ address[e] \in Address /\ NULL \notin Element
  BY <1>1, LinksTyped
<1>3. links!Find(address[e]) = e
  <2>1. LinkFor(address[e])
    BY <1>1, <1>2, LinkFound
  <2> QED
    BY <2>1, <1>1, LinksTyped DEF LinkFor
<1>4. PICK dtgs : dtgs = Range(From(first_datagram[e]))
  OBVIOUS
<1>5. /\ holds' = [holds EXCEPT ![e] = @ - 1]
      /\ buffers' = buffers \ dtgs
      /\ next_dtg' = [d \in Datagram |-> IF d \in dtgs THEN NULL ELSE next_dtg[d]]
      /\ sender' = [d \in Datagram |-> IF d \in dtgs THEN NULL ELSE sender[d]]
      /\ links!RemoveKey(address[e])
      /\ address' = [address EXCEPT ![e] = NULL]
      /\ first_datagram' = [first_datagram EXCEPT ![e] = NULL]
      /\ last_datagram' = [last_datagram EXCEPT ![e] = NULL]
      /\ refcount' = [refcount EXCEPT ![e] = 0]
      /\ UNCHANGED dtg
  BY <1>2, <1>3, <1>4 DEF Delete
<1>6. LinksInv' /\ elements' = elements \ {e}
  BY <1>1, <1>5, LinkRemoved
<1>7. refcount[e] = holds[e] /\ holds[e] = 1
  BY <1>1, <1>2 DEF RefsExact, UdpTypes
<1>8. dtgs = Range(q[e])
  <2>1. Spelt(q[e], first_datagram[e], last_datagram[e], next_dtg)
    BY <1>1, <1>2 DEF QueuesSpell
  <2> QED
    BY <2>1, <1>4, FromExact
<1>9. UdpTypes'
  BY <1>1, <1>2, <1>5, <1>7 DEF UdpTypes
<1>10. RefsExact'
  BY <1>1, <1>2, <1>5, <1>6, <1>7 DEF RefsExact, UdpTypes
<1>11. Receiving'
  BY <1>5 DEF Receiving
<1>12. PICK r : r = [q EXCEPT ![e] = <<>>]
  OBVIOUS
<1>13. /\ q \in [Element -> Seq(Datagram)] /\ r \in [Element -> Seq(Datagram)]
       /\ r[e] = <<>> /\ Range(r[e]) = {} /\ \A c \in Element : c # e => r[c] = q[c]
  BY <1>1, <1>2, <1>12, RangeEmpty DEF QueuesSpell
<1>14. /\ \A c \in Element : c # e => \A b \in Range(q[c]) : b \notin dtgs
       /\ \A c \in Element : Range(q[c]) \subseteq buffers
       /\ buffers \subseteq Datagram
  BY <1>1, <1>2, <1>8 DEF QueuesHold, UdpTypes
<1>15. QueuesSpell(r)'
  <2>1. ASSUME NEW c \in Element
        PROVE  Spelt(r[c], first_datagram'[c], last_datagram'[c], next_dtg')
    <3>1. CASE c = e
      BY <3>1, <1>1, <1>5, <1>13, SpeltEmpty DEF UdpTypes
    <3>2. CASE c # e
      <4>1. Spelt(q[c], first_datagram[c], last_datagram[c], next_dtg)
        BY <1>1 DEF QueuesSpell
      <4>2. \A b \in Range(q[c]) : next_dtg'[b] = next_dtg[b]
        BY <3>2, <1>5, <1>14
      <4>3. first_datagram'[c] = first_datagram[c] /\ last_datagram'[c] = last_datagram[c]
        BY <3>2, <1>1, <1>5 DEF UdpTypes
      <4> QED
        BY <4>1, <4>2, <4>3, <3>2, <1>13, SpeltSame
    <3> QED
      BY <3>1, <3>2
  <2>2. \A c \in Element : c \notin elements' => r[c] = <<>>
    BY <1>1, <1>6, <1>13 DEF QueuesSpell
  <2> QED
    BY <2>1, <2>2, <1>13 DEF QueuesSpell
<1>16. QueuesHold(r)'
  <2>1. ASSUME NEW c \in Element, NEW b \in Range(r[c])
        PROVE  b \in buffers' /\ b # dtg' /\ sender'[b] = address'[c]
    <3>1. c # e /\ b \in Range(q[c]) /\ b \notin dtgs /\ b \in buffers /\ b \in Datagram
      BY <2>1, <1>13, <1>14
    <3>2. b # dtg /\ sender[b] = address[c]
      BY <3>1, <1>1 DEF QueuesHold
    <3>3. sender'[b] = sender[b] /\ address'[c] = address[c]
      BY <3>1, <1>1, <1>5 DEF LinksInv
    <3> QED
      BY <3>1, <3>2, <3>3, <1>5
  <2>2. ASSUME NEW c \in Element, NEW g \in Element, NEW b \in Range(r[c]), b \in Range(r[g])
        PROVE  c = g
    <3>1. b \in Range(q[c]) /\ b \in Range(q[g])
      BY <2>2, <1>13
    <3> QED
      BY <3>1, <1>1 DEF QueuesHold
  <2>3. ASSUME NEW b \in buffers', b # dtg' PROVE \E c \in Element : b \in Range(r[c])
    <3>1. b \in buffers /\ b \notin Range(q[e]) /\ b # dtg
      BY <2>3, <1>5, <1>8
    <3>2. PICK c \in Element : b \in Range(q[c])
      BY <3>1, <1>1 DEF QueuesHold
    <3> QED
      BY <3>1, <3>2, <1>13
  <2> QED
    BY <2>1, <2>2, <2>3 DEF QueuesHold
<1> QED
  BY <1>5, <1>6, <1>7, <1>9, <1>10, <1>11, <1>12, <1>15, <1>16 DEF StateInv, QueuesOk

\* The client writes an address, or the memory of the frame is used again.
LEMMA WriteStep ==
  ASSUME StateInv, NEW q, QueuesOk(q), dtg = NULL, NEW a \in Address,
         (\E s \in Place : Write(s, a)) \/ ReuseFrame(a)
  PROVE  StateInv' /\ QueuesOk(q)' /\ UNCHANGED <<elements, address, refcount>>
<1>1. LinksInv /\ UdpTypes /\ RefsExact /\ QueuesSpell(q) /\ QueuesHold(q)
  BY DEF StateInv, QueuesOk
<1>2. /\ LinksInv' /\ UNCHANGED elements
      /\ UNCHANGED <<address, first_datagram, last_datagram, refcount, buffers, next_dtg,
                     dtg, sender, holds>>
  <2>1. CASE \E s \in Place : Write(s, a)
    <3>0. PICK s \in Place : Write(s, a)
      BY <2>1
    <3>1. H!Scribble(s, a) /\ s \in Place \cup {from} /\ UNCHANGED address
      BY <3>0, LinksOther DEF Write, fields
    <3>2. LinksInv' /\ elements' = elements
      BY <3>1, <1>1, LinksWritten
    <3> QED
      BY <3>0, <3>2 DEF Write, fields
  <2>2. CASE ReuseFrame(a)
    BY <2>2, <1>1, FrameWritten DEF ReuseFrame, fields
  <2> QED
    BY <2>1, <2>2
<1>3. UdpTypes' /\ RefsExact' /\ Receiving'
  BY <1>1, <1>2 DEF UdpTypes, RefsExact, Receiving
<1>4. QueuesSpell(q)' /\ QueuesHold(q)'
  BY <1>1, <1>2 DEF QueuesSpell, QueuesHold
<1> QED
  BY <1>2, <1>3, <1>4 DEF StateInv, QueuesOk

LEMMA SameStep ==
  ASSUME StateInv, NEW q, QueuesOk(q), UNCHANGED udpVars
  PROVE  StateInv' /\ QueuesOk(q)'
<1>1. LinksInv /\ UdpTypes /\ RefsExact /\ Receiving /\ QueuesSpell(q) /\ QueuesHold(q)
  BY DEF StateInv, QueuesOk
<1>2. /\ UNCHANGED linksVars
      /\ UNCHANGED <<address, first_datagram, last_datagram, refcount, buffers, next_dtg,
                     dtg, sender, holds>>
  BY DEF udpVars, fields
<1>3. LinksInv'
  BY <1>1, <1>2, LinksSame
<1>4. UdpTypes' /\ RefsExact'
  BY <1>1, <1>2 DEF linksVars, UdpTypes, RefsExact
<1>5. Receiving'
  <2>1. ASSUME NEW a PROVE links!Find(a)' = links!Find(a)
    BY <1>2 DEF linksVars, links!Find, links!Matching, links!KeyAt
  <2>2. content' = content
    BY <1>2 DEF linksVars
  <2>3. Known(content[from]) => Known(content[from])'
    <3>1. PICK a : a = content[from] /\ a = content'[from]
      BY <2>2
    <3> QED
      BY <2>1, <3>1 DEF Known
  <2> QED
    BY <2>2, <2>3, <1>1, <1>2 DEF Receiving
<1>6. QueuesSpell(q)' /\ QueuesHold(q)'
  BY <1>1, <1>2 DEF linksVars, QueuesSpell, QueuesHold
<1> QED
  BY <1>3, <1>4, <1>5, <1>6 DEF StateInv, QueuesOk

LEMMA UdpInvInit == UdpInit => UdpInv
<1> SUFFICES ASSUME UdpInit PROVE UdpInv
  OBVIOUS
<1>1. /\ LinksInv /\ elements = {}
      /\ first_datagram = [e \in Element |-> NULL]
      /\ last_datagram = [e \in Element |-> NULL]
      /\ refcount = [e \in Element |-> 0]
      /\ buffers = {}
      /\ next_dtg = [d \in Datagram |-> NULL]
      /\ dtg = NULL
      /\ sender = [d \in Datagram |-> NULL]
      /\ holds = [e \in Element |-> 0]
  BY LinksInit DEF UdpInit, links!HashInit
<1>2. UdpTypes /\ RefsExact /\ Receiving
  BY <1>1 DEF UdpTypes, RefsExact, Receiving
<1>3. PICK r : r = [e \in Element |-> <<>>]
  OBVIOUS
<1>4. r \in [Element -> Seq(Datagram)] /\ \A e \in Element : r[e] = <<>> /\ Range(r[e]) = {}
  BY <1>3, RangeEmpty
<1>5. QueuesSpell(r)
  BY <1>1, <1>4, SpeltEmpty DEF QueuesSpell
<1>6. QueuesHold(r)
  BY <1>1, <1>4 DEF QueuesHold
<1> QED
  BY <1>1, <1>2, <1>5, <1>6 DEF UdpInv, StateInv, QueuesOk

LEMMA UdpInvStep == UdpInv /\ [UdpNext]_udpVars => UdpInv'
<1> SUFFICES ASSUME UdpInv, [UdpNext]_udpVars PROVE UdpInv'
  OBVIOUS
<1>1. StateInv
  BY DEF UdpInv
<1>2. PICK q : QueuesOk(q)
  BY DEF UdpInv
<1>3. ASSUME dtg = NULL, NEW s \in Place, ~Known(content[s]), Construct(s) PROVE UdpInv'
  BY <1>1, <1>2, <1>3, ConstructStep DEF UdpInv
<1>4. ASSUME dtg = NULL, NEW e \in elements, Shift(e) PROVE UdpInv'
  BY <1>1, <1>2, <1>4, ShiftStep DEF UdpInv
<1>5. ASSUME dtg = NULL, NEW e \in elements, Delete(e) PROVE UdpInv'
  BY <1>1, <1>2, <1>5, ReleaseStep, LastReleaseStep DEF UdpInv
<1>6. ASSUME dtg = NULL, NEW a \in Address, (\E s \in Place : Write(s, a)) \/ ReuseFrame(a)
      PROVE  UdpInv'
  BY <1>1, <1>2, <1>6, WriteStep DEF UdpInv
<1>7. ASSUME dtg = NULL, Restart PROVE UdpInv'
  BY <1>1, <1>7, RestartStep DEF UdpInv
<1>8. ASSUME dtg = NULL, NEW a \in Address, Known(a), NEW d \in Datagram, Arrive(a, d)
      PROVE  UdpInv'
  BY <1>1, <1>2, <1>8, ArriveStep DEF UdpInv
<1>9. ASSUME Dispatch PROVE UdpInv'
  BY <1>1, <1>2, <1>9, DispatchStep DEF UdpInv
<1>10. ASSUME UNCHANGED udpVars PROVE UdpInv'
  BY <1>1, <1>2, <1>10, SameStep DEF UdpInv
<1> QED
  BY <1>3, <1>4, <1>5, <1>6, <1>7, <1>8, <1>9, <1>10 DEF UdpNext, Use, Come

\* The invariant holds of every client that the run udp has.
THEOREM UdpInvariant == UdpSpec => []UdpInv
BY UdpInvInit, UdpInvStep, PTL DEF UdpSpec

\* A link is there as long as the client has a reference to it, and no longer:
\* none goes under a holder and none stays behind.
THEOREM UdpKeptWhileHeld == UdpSpec => []KeptWhileHeld
<1>1. UdpInv => KeptWhileHeld
  <2>1. ASSUME UdpInv PROVE elements \subseteq Element /\ RefsExact
    BY <2>1, LinksTyped DEF UdpInv, StateInv
  <2> QED
    BY <2>1 DEF RefsExact, KeptWhileHeld
<1> QED
  BY <1>1, UdpInvariant, PTL

LEMMA QueueIs ==
  ASSUME NEW q, QueuesSpell(q), NEW e \in Element
  PROVE  /\ Queue(e) = q[e] /\ Spelt(q[e], first_datagram[e], last_datagram[e], next_dtg)
         /\ Len(q[e]) =< Cardinality(Datagram) /\ Cardinality(Datagram) \in Nat
BY FromExact DEF Queue, QueuesSpell

LEMMA PlaceExact ==
  ASSUME UdpInv, NEW d \in buffers
  PROVE  Cardinality(PlacesOf(d)) = IF d = dtg THEN 0 ELSE 1
<1>1. PICK q : QueuesSpell(q) /\ QueuesHold(q)
  BY DEF UdpInv, QueuesOk
<1>2. LinksInv /\ elements \subseteq Element
  BY LinksTyped DEF UdpInv, StateInv
<1>3. \A e \in Element :
        /\ Queue(e) = q[e] /\ Len(q[e]) =< Cardinality(Datagram) /\ Cardinality(Datagram) \in Nat
        /\ Len(q[e]) \in Nat /\ NoRepeat(q[e])
        /\ \A x : x \in Range(q[e]) <=> \E i \in 1 .. Len(q[e]) : q[e][i] = x
  BY <1>1, QueueIs, SpeltEntries
<1>4. ASSUME NEW p \in PlacesOf(d)
      PROVE  /\ p[1] \in elements /\ p[2] \in 1 .. Len(q[p[1]]) /\ q[p[1]][p[2]] = d
             /\ p = <<p[1], p[2]>> /\ d \in Range(q[p[1]])
  <2>1. /\ p \in elements \X (1 .. Cardinality(Datagram))
        /\ p[2] =< Len(Queue(p[1])) /\ Queue(p[1])[p[2]] = d
    BY DEF PlacesOf
  <2>2. p[1] \in elements /\ p[2] \in 1 .. Cardinality(Datagram) /\ p = <<p[1], p[2]>>
    BY <2>1
  <2>3. p[2] \in 1 .. Len(q[p[1]]) /\ q[p[1]][p[2]] = d
    BY <2>1, <2>2, <1>2, <1>3
  <2> QED
    BY <2>2, <2>3, <1>2, <1>3
<1>5. CASE d = dtg
  <2>1. PlacesOf(d) = {}
    BY <1>1, <1>2, <1>4, <1>5 DEF QueuesHold
  <2> QED
    BY <2>1, <1>5, FS_EmptySet
<1>6. CASE d # dtg
  <2>1. PICK e \in Element : d \in Range(q[e])
    BY <1>1, <1>6 DEF QueuesHold
  <2>2. e \in elements
    BY <2>1, <1>1, RangeEmpty DEF QueuesSpell
  <2>3. PICK i \in 1 .. Len(q[e]) : q[e][i] = d
    BY <2>1, <1>3
  <2>4. i \in 1 .. Cardinality(Datagram)
    BY <2>1, <2>3, <1>3
  <2>5. <<e, i>> \in PlacesOf(d)
    BY <2>1, <2>2, <2>3, <2>4, <1>3 DEF PlacesOf
  <2>6. ASSUME NEW p \in PlacesOf(d) PROVE p = <<e, i>>
    <3>1. /\ p[1] \in Element /\ d \in Range(q[p[1]]) /\ p = <<p[1], p[2]>>
          /\ p[2] \in 1 .. Len(q[p[1]]) /\ q[p[1]][p[2]] = d
      BY <1>2, <1>4, <2>6
    <3>2. p[1] = e
      <4>1. PICK c : c = p[1]
        OBVIOUS
      <4>2. c \in Element /\ d \in Range(q[c])
        BY <3>1, <4>1
      <4>3. c = e
        BY <4>2, <2>1, <1>1 DEF QueuesHold
      <4> QED
        BY <4>1, <4>3
    <3>3. p[2] = i
      BY <3>1, <3>2, <2>3, <1>3 DEF NoRepeat
    <3> QED
      BY <3>1, <3>2, <3>3
  <2>7. PlacesOf(d) = {<<e, i>>}
    BY <2>5, <2>6
  <2> QED
    BY <2>7, <1>6, FS_Singleton
<1> QED
  BY <1>5, <1>6

\* Each datagram in use is in one queue, once, or is being received, and
\* last_datagram is the end of the queue, so that the next one is linked there
\* and none is lost.
THEOREM UdpQueuesExact == UdpSpec => []QueuesExact
<1>1. UdpInv => QueuesExact
  <2> SUFFICES ASSUME UdpInv PROVE QueuesExact
    OBVIOUS
  <2>1. \A d \in buffers : Cardinality(PlacesOf(d)) = (IF d = dtg THEN 0 ELSE 1)
    BY PlaceExact
  <2>2. ASSUME NEW e \in elements
        PROVE  last_datagram[e] = IF Queue(e) = <<>> THEN NULL ELSE Queue(e)[Len(Queue(e))]
    <3>1. PICK q : QueuesSpell(q)
      BY DEF UdpInv, QueuesOk
    <3>2. e \in Element
      BY LinksTyped DEF UdpInv, StateInv
    <3>3. Queue(e) = q[e] /\ Spelt(q[e], first_datagram[e], last_datagram[e], next_dtg)
      BY <3>1, <3>2, QueueIs
    <3> QED
      BY <3>3, SpeltEntries
  <2> QED
    BY <2>1, <2>2 DEF QueuesExact
<1> QED
  BY <1>1, UdpInvariant, PTL

\* A queue has the datagrams of its own peer, also when links share a line of
\* the hash and when a link is made again after its memory was given to another.
THEOREM UdpFromSender == UdpSpec => []FromSender
<1>1. UdpInv => FromSender
  <2> SUFFICES ASSUME UdpInv, NEW e \in elements, NEW d \in Range(Queue(e))
               PROVE  sender[d] = address[e]
    BY DEF FromSender
  <2>1. PICK q : QueuesSpell(q) /\ QueuesHold(q)
    BY DEF UdpInv, QueuesOk
  <2>2. e \in Element
    BY LinksTyped DEF UdpInv, StateInv
  <2> QED
    BY <2>1, <2>2, QueueIs DEF QueuesHold
<1> QED
  BY <1>1, UdpInvariant, PTL

-----------------------------------------------------------------------------
(***************************************************************************)
(* The queues by peer.  ViewOf says that f is what UdpQueues is to see of  *)
(* links els with the addresses adr, the counts refs and the queues q.     *)
(***************************************************************************)
Entry(n, s) == [refs |-> n, queue |-> s]

ViewOf(els, adr, refs, f, q) ==
  /\ f = [a \in Address |-> f[a]]
  /\ \A e \in els : adr[e] \in Address /\ f[adr[e]] = Entry(refs[e], q[e])
  /\ \A c, e \in els : adr[c] = adr[e] => c = e
  /\ \A a \in Address : (\A e \in els : adr[e] # a) => f[a] = NULL

LEMMA FunctionsEqual ==
  ASSUME NEW f, NEW g, f = [a \in Address |-> f[a]], g = [a \in Address |-> g[a]],
         \A a \in Address : f[a] = g[a]
  PROVE  f = g
<1>1. [a \in Address |-> f[a]] = [a \in Address |-> g[a]]
  OBVIOUS
<1> QED
  BY <1>1

LEMMA ViewSame ==
  ASSUME NEW els, NEW adr, NEW refs, NEW q, NEW f, NEW g,
         ViewOf(els, adr, refs, f, q), ViewOf(els, adr, refs, g, q)
  PROVE  g = f
<1>1. \A a \in Address : g[a] = f[a]
  BY DEF ViewOf
<1> QED
  BY <1>1, FunctionsEqual DEF ViewOf

\* f and g show links that differ in what link e has.
OneChanged(els, adr, refs, refs2, q, r, f, g, e) ==
  /\ e \in els /\ ViewOf(els, adr, refs, f, q) /\ ViewOf(els, adr, refs2, g, r)
  /\ \A c \in els : c # e => refs2[c] = refs[c] /\ r[c] = q[c]

LEMMA ViewChanged ==
  ASSUME NEW els, NEW adr, NEW refs, NEW refs2, NEW q, NEW r, NEW f, NEW g, NEW e,
         OneChanged(els, adr, refs, refs2, q, r, f, g, e)
  PROVE  /\ adr[e] \in Address /\ f[adr[e]] = Entry(refs[e], q[e])
         /\ g = [f EXCEPT ![adr[e]] = Entry(refs2[e], r[e])]
<1>0. /\ e \in els /\ ViewOf(els, adr, refs, f, q) /\ ViewOf(els, adr, refs2, g, r)
      /\ \A c \in els : c # e => refs2[c] = refs[c] /\ r[c] = q[c]
  BY DEF OneChanged
<1>1. adr[e] \in Address /\ f[adr[e]] = Entry(refs[e], q[e])
  BY <1>0 DEF ViewOf
<1>2. PICK h : h = [f EXCEPT ![adr[e]] = Entry(refs2[e], r[e])]
  OBVIOUS
<1>3. DOMAIN f = Address /\ h = [a \in Address |-> h[a]]
  BY <1>0, <1>1, <1>2 DEF ViewOf
<1>4. ASSUME NEW a \in Address PROVE h[a] = g[a]
  <2>1. CASE \A c \in els : adr[c] # a
    BY <1>0, <2>1, <1>2, <1>3 DEF ViewOf
  <2>2. ASSUME NEW c \in els, adr[c] = a PROVE h[a] = g[a]
    BY <1>0, <2>2, <1>1, <1>2, <1>3 DEF ViewOf
  <2> QED
    BY <2>1, <2>2
<1>5. h = g
  BY <1>0, <1>3, <1>4, FunctionsEqual DEF ViewOf
<1> QED
  BY <1>1, <1>2, <1>5

\* g shows one link more than f.
OneAdded(els, adr, refs, adr2, refs2, q, f, g, e) ==
  /\ e \notin els /\ ViewOf(els, adr, refs, f, q) /\ ViewOf(els \cup {e}, adr2, refs2, g, q)
  /\ \A c \in els : adr2[c] = adr[c] /\ refs2[c] = refs[c]

LEMMA ViewAdded ==
  ASSUME NEW els, NEW adr, NEW refs, NEW adr2, NEW refs2, NEW q, NEW f, NEW g, NEW e,
         OneAdded(els, adr, refs, adr2, refs2, q, f, g, e)
  PROVE  /\ adr2[e] \in Address /\ f[adr2[e]] = NULL
         /\ g = [f EXCEPT ![adr2[e]] = Entry(refs2[e], q[e])]
<1>0. /\ e \notin els /\ ViewOf(els, adr, refs, f, q) /\ ViewOf(els \cup {e}, adr2, refs2, g, q)
      /\ \A c \in els : adr2[c] = adr[c] /\ refs2[c] = refs[c]
  BY DEF OneAdded
<1>1. adr2[e] \in Address /\ \A c \in els : adr[c] # adr2[e]
  BY <1>0 DEF ViewOf
<1>2. PICK h : h = [f EXCEPT ![adr2[e]] = Entry(refs2[e], q[e])]
  OBVIOUS
<1>3. DOMAIN f = Address /\ h = [a \in Address |-> h[a]]
  BY <1>0, <1>1, <1>2 DEF ViewOf
<1>4. ASSUME NEW a \in Address PROVE h[a] = g[a]
  <2>1. CASE a = adr2[e]
    BY <1>0, <2>1, <1>1, <1>2, <1>3 DEF ViewOf
  <2>2. CASE a # adr2[e]
    <3>1. h[a] = f[a]
      BY <2>2, <1>2, <1>3
    <3>2. CASE \A c \in els : adr[c] # a
      BY <1>0, <3>1, <3>2, <2>2 DEF ViewOf
    <3>3. ASSUME NEW c \in els, adr[c] = a PROVE h[a] = g[a]
      BY <1>0, <3>1, <3>3 DEF ViewOf
    <3> QED
      BY <3>2, <3>3
  <2> QED
    BY <2>1, <2>2
<1>5. h = g
  BY <1>0, <1>3, <1>4, FunctionsEqual DEF ViewOf
<1>6. f[adr2[e]] = NULL
  BY <1>0, <1>1 DEF ViewOf
<1> QED
  BY <1>1, <1>2, <1>5, <1>6

\* g shows one link less than f.
OneRemoved(els, adr, refs, adr2, refs2, q, r, f, g, e) ==
  /\ e \in els /\ ViewOf(els, adr, refs, f, q) /\ ViewOf(els \ {e}, adr2, refs2, g, r)
  /\ \A c \in els : c # e => adr2[c] = adr[c] /\ refs2[c] = refs[c] /\ r[c] = q[c]

LEMMA ViewRemoved ==
  ASSUME NEW els, NEW adr, NEW refs, NEW adr2, NEW refs2, NEW q, NEW r, NEW f, NEW g, NEW e,
         OneRemoved(els, adr, refs, adr2, refs2, q, r, f, g, e)
  PROVE  /\ adr[e] \in Address /\ f[adr[e]] = Entry(refs[e], q[e])
         /\ g = [f EXCEPT ![adr[e]] = NULL]
<1>0. /\ e \in els /\ ViewOf(els, adr, refs, f, q) /\ ViewOf(els \ {e}, adr2, refs2, g, r)
      /\ \A c \in els : c # e => adr2[c] = adr[c] /\ refs2[c] = refs[c] /\ r[c] = q[c]
  BY DEF OneRemoved
<1>1. adr[e] \in Address /\ f[adr[e]] = Entry(refs[e], q[e])
  BY <1>0 DEF ViewOf
<1>2. PICK h : h = [f EXCEPT ![adr[e]] = NULL]
  OBVIOUS
<1>3. DOMAIN f = Address /\ h = [a \in Address |-> h[a]]
  BY <1>0, <1>1, <1>2 DEF ViewOf
<1>4. ASSUME NEW a \in Address PROVE h[a] = g[a]
  <2>1. CASE a = adr[e]
    BY <1>0, <2>1, <1>1, <1>2, <1>3 DEF ViewOf
  <2>2. CASE a # adr[e]
    <3>1. h[a] = f[a]
      BY <2>2, <1>2, <1>3
    <3>2. CASE \A c \in els : adr[c] # a
      BY <1>0, <3>1, <3>2 DEF ViewOf
    <3>3. ASSUME NEW c \in els, adr[c] = a PROVE h[a] = g[a]
      BY <1>0, <3>1, <3>3, <2>2 DEF ViewOf
    <3> QED
      BY <3>2, <3>3
  <2> QED
    BY <2>1, <2>2
<1>5. h = g
  BY <1>0, <1>3, <1>4, FunctionsEqual DEF ViewOf
<1> QED
  BY <1>1, <1>2, <1>5

\* The peers as Queues has them.
Peers ==
  [a \in Address |-> LET e == links!Find(a)
                     IN  IF e = NULL THEN NULL ELSE [refs |-> refcount[e], queue |-> Queue(e)]]

LEMMA PeersView ==
  ASSUME StateInv, NEW q, QueuesOk(q)
  PROVE  ViewOf(elements, address, refcount, Peers, q)
<1>1. /\ LinksInv /\ QueuesSpell(q) /\ elements \subseteq Element /\ NULL \notin Element
      /\ \A e \in elements : address[e] \in Address
      /\ \A c, e \in elements : address[c] = address[e] => c = e
  BY LinksTyped DEF StateInv, QueuesOk
<1>2. \A a \in Address : LinkFor(a)
  BY <1>1, LinkFound
<1>3. Peers = [a \in Address |-> Peers[a]]
  BY DEF Peers
<1>4. ASSUME NEW e \in elements PROVE Peers[address[e]] = Entry(refcount[e], q[e])
  <2>1. links!Find(address[e]) = e /\ address[e] \in Address /\ e # NULL
    BY <1>1, <1>2 DEF LinkFor
  <2>2. Queue(e) = q[e]
    BY <1>1, QueueIs
  <2> QED
    BY <2>1, <2>2 DEF Peers, Entry
<1>5. ASSUME NEW a \in Address, \A e \in elements : address[e] # a PROVE Peers[a] = NULL
  <2>1. links!Find(a) = NULL
    BY <1>2, <1>5 DEF LinkFor
  <2> QED
    BY <2>1 DEF Peers
<1> QED
  BY <1>1, <1>3, <1>4, <1>5 DEF ViewOf

LEMMA PeersViewed == StateInv => \A q : QueuesOk(q) => ViewOf(elements, address, refcount, Peers, q)
BY PeersView

LEMMA PeersViewNext ==
  (StateInv => \A q : QueuesOk(q) => ViewOf(elements, address, refcount, Peers, q))'
BY PeersViewed, PTL

LEMMA MakeStep ==
  ASSUME StateInv, NEW q, QueuesOk(q), dtg = NULL,
         NEW s \in Place, ~Known(content[s]), Construct(s)
  PROVE  Queues!Next
<1>1. PICK e \in Element \ elements :
        /\ elements' = elements \cup {e} /\ q[e] = <<>>
        /\ address' = [address EXCEPT ![e] = content[s]]
        /\ refcount' = [refcount EXCEPT ![e] = 1]
  BY ConstructStep
<1>2. PICK f, g : f = Peers /\ g = Peers'
  OBVIOUS
<1>3. /\ ViewOf(elements, address, refcount, f, q)
      /\ ViewOf(elements \cup {e}, address', refcount', g, q)
  <2>1. StateInv' /\ QueuesOk(q)'
    BY ConstructStep
  <2>2. ViewOf(elements', address', refcount', Peers', q)
    BY <2>1, PeersViewNext
  <2> QED
    BY <1>1, <1>2, <2>2, PeersView
<1>4. /\ \A c \in elements : address'[c] = address[c] /\ refcount'[c] = refcount[c]
      /\ refcount'[e] = 1
  <2>1. /\ address \in [Element -> Address \cup {NULL}] /\ refcount \in [Element -> Nat]
        /\ elements \subseteq Element
    BY LinksTyped DEF StateInv, LinksInv, UdpTypes
  <2> QED
    BY <1>1, <2>1
<1>5. PICK a : a = address'[e]
  OBVIOUS
<1>6. a \in Address /\ f[a] = NULL /\ g = [f EXCEPT ![a] = Entry(1, <<>>)]
  <2>1. PICK els, adr, adr2, refs, refs2 :
          /\ els = elements /\ adr = address /\ adr2 = address'
          /\ refs = refcount /\ refs2 = refcount'
    OBVIOUS
  <2>2. OneAdded(els, adr, refs, adr2, refs2, q, f, g, e)
    BY <2>1, <1>3, <1>4 DEF OneAdded
  <2>3. /\ adr2[e] \in Address /\ f[adr2[e]] = NULL
        /\ g = [f EXCEPT ![adr2[e]] = Entry(refs2[e], q[e])]
    BY ONLY <2>2, ViewAdded
  <2> QED
    BY <2>1, <2>3, <1>1, <1>4, <1>5
<1>7. Queues!Make(a)
  BY <1>2, <1>6 DEF Queues!Make, Peers, Entry
<1> QED
  BY <1>6, <1>7 DEF Queues!Next

LEMMA ForgetStep ==
  ASSUME StateInv, dtg = NULL, Restart
  PROVE  Queues!Next
<1>1. PICK r : StateInv' /\ elements' = {} /\ QueuesOk(r)'
  BY RestartStep
<1>2. ViewOf(elements', address', refcount', Peers', r)
  BY <1>1, PeersViewNext
<1>3. PICK f, g : f = Peers' /\ g = [a \in Address |-> NULL]
  OBVIOUS
<1>4. f = [a \in Address |-> f[a]] /\ \A a \in Address : f[a] = NULL
  BY <1>1, <1>2, <1>3 DEF ViewOf
<1>5. f = g
  BY <1>3, <1>4
<1>6. Queues!Restart
  BY <1>3, <1>5 DEF Queues!Restart, Peers
<1> QED
  BY <1>6 DEF Queues!Next

LEMMA ReceiveStep ==
  ASSUME StateInv, NEW q, QueuesOk(q), Dispatch
  PROVE  Queues!Next
<1>1. PICK e \in elements, d \in Datagram : \E r :
        /\ d \in buffers /\ d = dtg /\ dtg # NULL
        /\ r = [q EXCEPT ![e] = Append(@, d)] /\ QueuesOk(r)'
        /\ refcount' = [refcount EXCEPT ![e] = @ + 1]
  BY DispatchStep
<1>2. PICK r : /\ d \in buffers /\ d = dtg /\ dtg # NULL
               /\ r = [q EXCEPT ![e] = Append(@, d)] /\ QueuesOk(r)'
               /\ refcount' = [refcount EXCEPT ![e] = @ + 1]
  BY <1>1
<1>3. PICK f, g : f = Peers /\ g = Peers'
  OBVIOUS
<1>4. /\ ViewOf(elements, address, refcount, f, q)
      /\ ViewOf(elements, address, refcount', g, r)
  <2>1. StateInv' /\ QueuesOk(r)' /\ elements' = elements /\ address' = address
    BY <1>2, DispatchStep
  <2>2. ViewOf(elements', address', refcount', Peers', r)
    BY <2>1, PeersViewNext
  <2> QED
    BY <1>3, <2>1, <2>2, PeersView
<1>5. /\ refcount \in [Element -> Nat] /\ q \in [Element -> Seq(Datagram)]
      /\ elements \subseteq Element
  BY LinksTyped DEF StateInv, UdpTypes, QueuesOk, QueuesSpell
<1>6. /\ refcount'[e] = refcount[e] + 1 /\ r[e] = Append(q[e], d)
      /\ \A c \in elements : c # e => refcount'[c] = refcount[c] /\ r[c] = q[c]
  BY <1>2, <1>5
<1>7. PICK a, n, s : a = address[e] /\ n = refcount[e] /\ s = q[e]
  OBVIOUS
<1>8. a \in Address /\ f[a] = Entry(n, s) /\ g = [f EXCEPT ![a] = Entry(n + 1, Append(s, d))]
  <2>1. PICK els, adr, refs, refs2 :
          els = elements /\ adr = address /\ refs = refcount /\ refs2 = refcount'
    OBVIOUS
  <2>2. OneChanged(els, adr, refs, refs2, q, r, f, g, e)
    BY <2>1, <1>4, <1>6 DEF OneChanged
  <2>3. /\ adr[e] \in Address /\ f[adr[e]] = Entry(refs[e], q[e])
        /\ g = [f EXCEPT ![adr[e]] = Entry(refs2[e], r[e])]
    BY ONLY <2>2, ViewChanged
  <2> QED
    BY <2>1, <2>3, <1>6, <1>7
<1>9. f[a] # NULL /\ g = [f EXCEPT ![a] = [refs |-> @.refs + 1, queue |-> Append(@.queue, d)]]
  <2>1. Entry(n, s) \in [refs : Nat, queue : Seq(Datagram)]
    BY <1>5, <1>7 DEF Entry
  <2>2. Entry(n, s).refs = n /\ Entry(n, s).queue = s
    BY DEF Entry
  <2>3. Entry(n + 1, Append(s, d)) = [refs |-> n + 1, queue |-> Append(s, d)]
    BY DEF Entry
  <2> QED
    BY <2>1, <2>2, <2>3, <1>8, UdpAssumption
<1>10. d \notin Queues!Queued
  <2>1. ASSUME NEW b \in Address, f[b] # NULL, NEW i \in 1 .. Len(f[b].queue), f[b].queue[i] = d
        PROVE  FALSE
    <3>1. PICK c \in elements : address[c] = b /\ f[b] = Entry(refcount[c], q[c])
      BY <2>1, <1>4 DEF ViewOf
    <3>2. f[b].queue = q[c]
      BY <3>1 DEF Entry
    <3>3. d \in Range(q[c])
      <4>1. q[c] \in Seq(Datagram) /\ i \in 1 .. Len(q[c]) /\ q[c][i] = d
        BY <2>1, <3>1, <3>2, <1>5
      <4> QED
        BY <4>1, RangeOf
    <3> QED
      BY <3>3, <1>2, <1>5 DEF QueuesOk, QueuesHold
  <2> QED
    BY <2>1, <1>3 DEF Queues!Queued, Peers
<1>11. Queues!Receive(a, d)
  BY <1>3, <1>9, <1>10 DEF Queues!Receive, Peers
<1> QED
  BY <1>8, <1>11 DEF Queues!Next

LEMMA QueueShiftStep ==
  ASSUME StateInv, NEW q, QueuesOk(q), dtg = NULL, NEW e \in elements, Shift(e)
  PROVE  Queues!Next
<1>1. PICK r : r = [q EXCEPT ![e] = Tail(@)] /\ QueuesOk(r)'
  BY ShiftStep
<1>2. StateInv' /\ UNCHANGED <<elements, address, refcount>> /\ q[e] # <<>>
  BY ShiftStep
<1>3. PICK f, g : f = Peers /\ g = Peers'
  OBVIOUS
<1>4. /\ ViewOf(elements, address, refcount, f, q)
      /\ ViewOf(elements, address, refcount, g, r)
  <2>1. ViewOf(elements', address', refcount', Peers', r)
    BY <1>1, <1>2, PeersViewNext
  <2> QED
    BY <1>2, <1>3, <2>1, PeersView
<1>5. /\ refcount \in [Element -> Nat] /\ q \in [Element -> Seq(Datagram)]
      /\ elements \subseteq Element
  BY LinksTyped DEF StateInv, UdpTypes, QueuesOk, QueuesSpell
<1>6. r[e] = Tail(q[e]) /\ \A c \in elements : c # e => r[c] = q[c]
  BY <1>1, <1>5
<1>7. PICK a, n, s : a = address[e] /\ n = refcount[e] /\ s = q[e]
  OBVIOUS
<1>8. a \in Address /\ f[a] = Entry(n, s) /\ g = [f EXCEPT ![a] = Entry(n, Tail(s))]
  <2>1. PICK els, adr, refs : els = elements /\ adr = address /\ refs = refcount
    OBVIOUS
  <2>2. OneChanged(els, adr, refs, refs, q, r, f, g, e)
    BY <2>1, <1>4, <1>6 DEF OneChanged
  <2>3. /\ adr[e] \in Address /\ f[adr[e]] = Entry(refs[e], q[e])
        /\ g = [f EXCEPT ![adr[e]] = Entry(refs[e], r[e])]
    BY ONLY <2>2, ViewChanged
  <2> QED
    BY <2>1, <2>3, <1>6, <1>7
<1>9. /\ f[a] # NULL /\ f[a].queue # <<>>
      /\ g = [f EXCEPT ![a].queue = Tail(@)]
  <2>1. Entry(n, s) \in [refs : Nat, queue : Seq(Datagram)]
    BY <1>5, <1>7 DEF Entry
  <2>2. Entry(n, s).queue = s
    BY DEF Entry
  <2>3. [Entry(n, s) EXCEPT !.queue = Tail(s)] = Entry(n, Tail(s))
    <3>1. PICK t, x : t = Tail(s) /\ x = [Entry(n, s) EXCEPT !.queue = t]
      OBVIOUS
    <3>2. x = Entry(n, t)
      BY <3>1 DEF Entry
    <3> QED
      BY <3>1, <3>2
  <2>4. [f EXCEPT ![a].queue = Tail(@)] = [f EXCEPT ![a] = Entry(n, Tail(s))]
    BY <2>2, <2>3, <1>8
  <2> QED
    BY <2>1, <2>2, <2>4, <1>2, <1>7, <1>8, UdpAssumption
<1>10. Queues!Shift(a)
  BY <1>3, <1>9 DEF Queues!Shift, Peers
<1> QED
  BY <1>8, <1>10 DEF Queues!Next

LEMMA QueueReleaseStep ==
  ASSUME StateInv, NEW q, QueuesOk(q), dtg = NULL, NEW e \in elements, Delete(e)
  PROVE  Queues!Next
<1>1. PICK f, g : f = Peers /\ g = Peers'
  OBVIOUS
<1>2. /\ refcount \in [Element -> Nat] /\ q \in [Element -> Seq(Datagram)]
      /\ address \in [Element -> Address \cup {NULL}] /\ elements \subseteq Element
  BY LinksTyped DEF StateInv, UdpTypes, LinksInv, QueuesOk, QueuesSpell
<1>3. PICK a, n, s : a = address[e] /\ n = refcount[e] /\ s = q[e]
  OBVIOUS
<1>4. n \in Nat /\ s \in Seq(Datagram)
  BY <1>2, <1>3
<1>5. Entry(n, s) # NULL /\ Entry(n, s).refs = n /\ Entry(n, s).queue = s
  <2>1. Entry(n, s) \in [refs : Nat, queue : Seq(Datagram)]
    BY <1>4 DEF Entry
  <2> QED
    BY <2>1, UdpAssumption DEF Entry
<1>6. ViewOf(elements, address, refcount, f, q)
  BY <1>1, PeersView
<1>7. CASE n - 1 > 0
  <2>1. /\ StateInv' /\ QueuesOk(q)' /\ UNCHANGED <<elements, address>>
        /\ refcount' = [refcount EXCEPT ![e] = @ - 1]
    BY <1>3, <1>7, ReleaseStep
  <2>2. ViewOf(elements, address, refcount', g, q)
    <3>1. ViewOf(elements', address', refcount', Peers', q)
      BY <2>1, PeersViewNext
    <3> QED
      BY <2>1, <3>1, <1>1
  <2>3. PICK els, adr, refs, refs2 :
          els = elements /\ adr = address /\ refs = refcount /\ refs2 = refcount'
    OBVIOUS
  <2>4. refs2[e] = n - 1 /\ \A c \in els : c # e => refs2[c] = refs[c]
    BY <2>1, <2>3, <1>2, <1>3
  <2>5. OneChanged(els, adr, refs, refs2, q, q, f, g, e)
    BY <2>2, <2>3, <2>4, <1>6 DEF OneChanged
  <2>6. /\ adr[e] \in Address /\ f[adr[e]] = Entry(refs[e], q[e])
        /\ g = [f EXCEPT ![adr[e]] = Entry(refs2[e], q[e])]
    BY ONLY <2>5, ViewChanged
  <2>7. a \in Address /\ f[a] = Entry(n, s) /\ g = [f EXCEPT ![a] = Entry(n - 1, s)]
    BY <2>3, <2>4, <2>6, <1>3
  <2>8. Entry(n - 1, s) = [refs |-> n - 1, queue |-> s]
    BY DEF Entry
  <2>9. /\ f[a] # NULL
        /\ g = [f EXCEPT ![a] = IF @.refs = 1 THEN NULL
                           ELSE [refs |-> @.refs - 1, queue |-> @.queue]]
    <3>1. f[a] # NULL /\ f[a].refs = n /\ f[a].queue = s /\ n # 1
      BY <2>7, <1>4, <1>5, <1>7
    <3>2. IF f[a].refs = 1 THEN NULL ELSE [refs |-> f[a].refs - 1, queue |-> f[a].queue]
          = Entry(n - 1, s)
      BY <3>1, <2>8
    <3> QED
      BY <2>7, <3>1, <3>2
  <2>10. Queues!Release(a)
    BY <2>9, <1>1 DEF Queues!Release, Peers
  <2> QED
    BY <2>7, <2>10 DEF Queues!Next
<1>8. CASE ~(n - 1 > 0)
  <2>1. PICK r : r = [q EXCEPT ![e] = <<>>] /\ QueuesOk(r)'
    BY <1>3, <1>8, LastReleaseStep
  <2>2. /\ StateInv' /\ elements' = elements \ {e} /\ n = 1
        /\ address' = [address EXCEPT ![e] = NULL]
        /\ refcount' = [refcount EXCEPT ![e] = 0]
    BY <1>3, <1>8, LastReleaseStep
  <2>3. ViewOf(elements \ {e}, address', refcount', g, r)
    <3>1. ViewOf(elements', address', refcount', Peers', r)
      BY <2>1, <2>2, PeersViewNext
    <3> QED
      BY <2>2, <3>1, <1>1
  <2>4. PICK els, adr, adr2, refs, refs2 :
          /\ els = elements /\ adr = address /\ adr2 = address'
          /\ refs = refcount /\ refs2 = refcount'
    OBVIOUS
  <2>5. \A c \in els : c # e => adr2[c] = adr[c] /\ refs2[c] = refs[c] /\ r[c] = q[c]
    BY <2>1, <2>2, <2>4, <1>2
  <2>6. OneRemoved(els, adr, refs, adr2, refs2, q, r, f, g, e)
    BY <2>3, <2>4, <2>5, <1>6 DEF OneRemoved
  <2>7. /\ adr[e] \in Address /\ f[adr[e]] = Entry(refs[e], q[e])
        /\ g = [f EXCEPT ![adr[e]] = NULL]
    BY ONLY <2>6, ViewRemoved
  <2>8. a \in Address /\ f[a] = Entry(n, s) /\ g = [f EXCEPT ![a] = NULL]
    BY <2>4, <2>7, <1>3
  <2>9. /\ f[a] # NULL
        /\ g = [f EXCEPT ![a] = IF @.refs = 1 THEN NULL
                           ELSE [refs |-> @.refs - 1, queue |-> @.queue]]
    BY <2>2, <2>8, <1>5
  <2>10. Queues!Release(a)
    BY <2>9, <1>1 DEF Queues!Release, Peers
  <2> QED
    BY <2>8, <2>10 DEF Queues!Next
<1> QED
  BY <1>7, <1>8

\* The steps that UdpQueues does not see.
LEMMA PeersSame ==
  ASSUME StateInv, StateInv', NEW q, QueuesOk(q), QueuesOk(q)',
         UNCHANGED <<elements, address, refcount>>
  PROVE  UNCHANGED Peers
<1>1. PICK f, g : f = Peers /\ g = Peers'
  OBVIOUS
<1>2. ViewOf(elements, address, refcount, f, q)
  BY <1>1, PeersView
<1>3. ViewOf(elements, address, refcount, g, q)
  <2>1. ViewOf(elements', address', refcount', Peers', q)
    BY PeersViewNext
  <2> QED
    BY <2>1, <1>1
<1>4. PICK els, adr, refs : els = elements /\ adr = address /\ refs = refcount
  OBVIOUS
<1>5. ViewOf(els, adr, refs, f, q) /\ ViewOf(els, adr, refs, g, q)
  BY <1>2, <1>3, <1>4
<1>6. g = f
  BY ONLY <1>5, ViewSame
<1> QED
  BY <1>1, <1>6

LEMMA QueuesStep == UdpInv /\ [UdpNext]_udpVars => [Queues!Next]_Peers
<1> SUFFICES ASSUME UdpInv, [UdpNext]_udpVars PROVE Queues!Next \/ UNCHANGED Peers
  OBVIOUS
<1>1. StateInv
  BY DEF UdpInv
<1>2. PICK q : QueuesOk(q)
  BY DEF UdpInv
<1>3. ASSUME dtg = NULL, NEW s \in Place, ~Known(content[s]), Construct(s) PROVE Queues!Next
  BY <1>1, <1>2, <1>3, MakeStep
<1>4. ASSUME dtg = NULL, NEW e \in elements, Shift(e) PROVE Queues!Next
  BY <1>1, <1>2, <1>4, QueueShiftStep
<1>5. ASSUME dtg = NULL, NEW e \in elements, Delete(e) PROVE Queues!Next
  BY <1>1, <1>2, <1>5, QueueReleaseStep
<1>6. ASSUME dtg = NULL, NEW a \in Address, (\E s \in Place : Write(s, a)) \/ ReuseFrame(a)
      PROVE  UNCHANGED Peers
  <2>1. StateInv' /\ QueuesOk(q)' /\ UNCHANGED <<elements, address, refcount>>
    BY <1>1, <1>2, <1>6, WriteStep
  <2> QED
    BY <2>1, <1>1, <1>2, PeersSame
<1>7. ASSUME dtg = NULL, Restart PROVE Queues!Next
  BY <1>1, <1>7, ForgetStep
<1>8. ASSUME dtg = NULL, NEW a \in Address, Known(a), NEW d \in Datagram, Arrive(a, d)
      PROVE  UNCHANGED Peers
  <2>1. StateInv' /\ QueuesOk(q)' /\ UNCHANGED <<elements, address, refcount>>
    BY <1>1, <1>2, <1>8, ArriveStep
  <2> QED
    BY <2>1, <1>1, <1>2, PeersSame
<1>9. ASSUME Dispatch PROVE Queues!Next
  BY <1>1, <1>2, <1>9, ReceiveStep
<1>10. ASSUME UNCHANGED udpVars PROVE UNCHANGED Peers
  <2>1. StateInv' /\ QueuesOk(q)' /\ UNCHANGED <<elements, address, refcount>>
    BY <1>1, <1>2, <1>10, SameStep DEF udpVars, linksVars, fields
  <2> QED
    BY <2>1, <1>1, <1>2, PeersSame
<1> QED
  BY <1>3, <1>4, <1>5, <1>6, <1>7, <1>8, <1>9, <1>10 DEF UdpNext, Use, Come

LEMMA QueuesInit == UdpInit => Queues!Init
<1> SUFFICES ASSUME UdpInit PROVE Queues!Init
  OBVIOUS
<1>1. UdpInv /\ elements = {}
  BY UdpInvInit DEF UdpInit, links!HashInit
<1>2. PICK q : StateInv /\ QueuesOk(q)
  BY <1>1 DEF UdpInv
<1>3. ViewOf(elements, address, refcount, Peers, q)
  BY <1>2, PeersView
<1>4. PICK f, g : f = Peers /\ g = [a \in Address |-> NULL]
  OBVIOUS
<1>5. f = [a \in Address |-> f[a]] /\ \A a \in Address : f[a] = NULL
  BY <1>1, <1>3, <1>4 DEF ViewOf
<1>6. f = g
  BY <1>4, <1>5
<1> QED
  BY <1>4, <1>6 DEF Queues!Init, Peers

\* The hash, the links, their ends and next pointers implement the queues by
\* peer: what a client receives from a peer it gets once and in order, and
\* loses only with the last reference.
THEOREM UdpImplementsQueues == UdpSpec => ImplementsQueues
<1>1. [Queues!Next]_Peers =>
        [Queues!Next]_([a \in Address |->
           LET e == links!Find(a)
           IN  IF e = NULL THEN NULL ELSE [refs |-> refcount[e], queue |-> Queue(e)]])
  BY DEF Peers
<1> QED
  BY <1>1, QueuesInit, QueuesStep, UdpInvariant, PTL
     DEF UdpSpec, ImplementsQueues, Queues!Spec
=============================================================================
