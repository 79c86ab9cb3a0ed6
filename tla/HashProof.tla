------------------------------ MODULE HashProof ------------------------------
(***************************************************************************)
(* Theorems about the hash and its cursor, for any keys, hash function,    *)
(* number of lines and places of keys.                                     *)
(*                                                                         *)
(* That every element is found by its own key is not inductive: it says    *)
(* nothing of where an operation stops on its way down a line.  HashInv    *)
(* adds the sequence that each line spells, which is of the elements whose *)
(* key is of that line, that no two elements have the same key, and that   *)
(* the place of a key in the hash is the one the client gave last.         *)
(*                                                                         *)
(* As no two elements have the same key, looking at keys for elements      *)
(* commutes with what a walk does to the sequence of those it returned.    *)
(***************************************************************************)
EXTENDS HashCursor, CommonLemmas

Pointer == Element \cup {NULL}

\* The links from f on spell s.
Strung(s, f, nx) ==
  /\ s \in Seq(Element) /\ NoRepeat(s)
  /\ f = EntryOf(NULL, s, 1)
  /\ \A i \in 1 .. Len(s) : nx[s[i]] = EntryOf(NULL, s, i + 1)

HashTypes ==
  /\ elements \subseteq Element /\ IsFiniteSet(elements)
  /\ lines \in [Line -> Pointer]
  /\ next \in [Element -> Pointer]
  /\ place \in [Element -> Place \cup {NULL}]
  /\ value \in [Element -> Value \cup {NULL}]
  /\ content \in [Place -> Key]
  /\ lent \in [Key -> Place \cup {NULL}]

InLine(l) == {e \in elements : HashOf[KeyAt(e)] = l}

LinesSpell(ch, lns, nx) == \A l \in Line : Strung(ch[l], lns[l], nx)

KeysInv ==
  /\ \A e \in elements : /\ place[e] \in Place /\ value[e] \in Value
                         /\ lent[KeyAt(e)] = place[e]
  /\ \A d, e \in elements : KeyAt(d) = KeyAt(e) => d = e
  /\ \A e \in Element \ elements : next[e] = NULL

LinesInv ==
  \E ch \in [Line -> Seq(Element)] :
    LinesSpell(ch, lines, next) /\ \A l \in Line : Range(ch[l]) = InLine(l)

HashInv == HashTypes /\ KeysInv /\ LinesInv

-----------------------------------------------------------------------------
(***************************************************************************)
(* Down a line.                                                            *)
(***************************************************************************)
\* Its entries are elements, and what comes after them is not in another.
LEMMA StrungEntries ==
  ASSUME NEW s, NEW f, NEW nx, Strung(s, f, nx)
  PROVE  /\ s \in Seq(Element) /\ Len(s) \in Nat /\ NoRepeat(s) /\ f = EntryOf(NULL, s, 1)
         /\ \A i \in 1 .. Len(s) : /\ s[i] \in Element /\ s[i] # NULL /\ s[i] \in Range(s)
                                   /\ nx[s[i]] = EntryOf(NULL, s, i + 1)
         /\ \A x : x \in Range(s) <=> \E i \in 1 .. Len(s) : s[i] = x
BY RangeOf, HashAssumption DEF Strung

\* A search down the links that stops at what is found.
SearchBody(found, nx, w) == [e \in Pointer |-> IF e \in found THEN e ELSE w[nx[e]]]

\* There is such a function: what is found, for those that come before it.
LEMMA SearchExists ==
  ASSUME NEW s, NEW f, NEW nx \in [Element -> Pointer], Strung(s, f, nx),
         \A e \in Element : e \notin Range(s) => nx[e] \notin Range(s),
         NEW j \in 1 .. Len(s)
  PROVE  \E w : w = SearchBody({s[j], NULL}, nx, w)
<1>1. /\ Len(s) \in Nat /\ NoRepeat(s)
      /\ \A i \in 1 .. Len(s) : /\ s[i] \in Element /\ s[i] # NULL
                                /\ nx[s[i]] = EntryOf(NULL, s, i + 1)
      /\ \A x : x \in Range(s) <=> \E i \in 1 .. Len(s) : s[i] = x
  BY StrungEntries
<1> DEFINE before == {x \in Range(s) : \E i \in 1 .. Len(s) : s[i] = x /\ i =< j}
           w == [e \in Pointer |-> IF e \in before THEN s[j] ELSE NULL]
<1>2. ASSUME NEW i \in 1 .. Len(s) PROVE s[i] \in before <=> i =< j
  BY <1>1 DEF NoRepeat
<1>3. NULL \notin before /\ \A x \in before : x \in Range(s)
  BY <1>1
<1> HIDE DEF before
<1>4. ASSUME NEW e \in Pointer PROVE w[e] = IF e \in {s[j], NULL} THEN e ELSE w[nx[e]]
  <2>1. CASE e = NULL
    BY <2>1, <1>3
  <2>2. CASE e = s[j]
    BY <2>2, <1>2
  <2>3. CASE e \in Range(s) /\ e # s[j]
    <3>1. PICK i \in 1 .. Len(s) : s[i] = e
      BY <1>1, <2>3
    <3>2. i # j /\ i \in Int /\ j \in Int
      BY <2>3, <3>1
    <3>3. CASE i = Len(s)
      <4>1. nx[e] = NULL /\ ~(i =< j)
        BY <1>1, <3>1, <3>2, <3>3 DEF EntryOf
      <4>2. w[nx[e]] = NULL /\ w[e] = NULL
        BY <1>2, <1>3, <3>1, <4>1 DEF Pointer
      <4> QED
        BY <2>3, <4>2, <1>1, <3>1
    <3>4. CASE i # Len(s)
      <4>1. i + 1 \in 1 .. Len(s) /\ (i =< j <=> i + 1 =< j)
        BY <1>1, <3>2, <3>4
      <4>2. nx[e] = s[i + 1] /\ nx[e] \in Pointer
        BY <1>1, <3>1, <4>1 DEF EntryOf, Pointer
      <4>3. w[nx[e]] = w[e]
        BY <1>2, <3>1, <4>1, <4>2
      <4> QED
        BY <2>3, <4>3, <1>1, <3>1
    <3> QED
      BY <3>3, <3>4
  <2>4. CASE e \notin Range(s) /\ e # NULL
    <3>1. nx[e] \in Pointer /\ nx[e] \notin Range(s) /\ s[j] \in Range(s)
      BY <1>1, <2>4 DEF Pointer
    <3>2. w[e] = NULL /\ w[nx[e]] = NULL
      BY <1>3, <2>4, <3>1
    <3> QED
      BY <2>4, <3>1, <3>2
  <2> QED
    BY <2>1, <2>2, <2>3, <2>4
<1>5. w = [e \in Pointer |-> IF e \in {s[j], NULL} THEN e ELSE w[nx[e]]]
  BY <1>4
<1> HIDE DEF w
<1> QED
  BY <1>5 DEF SearchBody

\* A walk down a line stops at the first entry that is found, or after all.
StopsAt(s, found, j) ==
  /\ j \in 1 .. Len(s) + 1
  /\ EntryOf(NULL, s, j) \in found \cup {NULL}
  /\ \A i \in 1 .. j - 1 : s[i] \notin found

\* What the search ends at, from the head of a line.
LEMMA SearchEnds ==
  ASSUME NEW s, NEW f, NEW nx, Strung(s, f, nx),
         NEW found, NULL \in found, NEW j, StopsAt(s, found, j),
         NEW w, w = SearchBody(found, nx, w)
  PROVE  w[f] = EntryOf(NULL, s, j)
<1>0. /\ j \in 1 .. Len(s) + 1 /\ EntryOf(NULL, s, j) \in found
      /\ \A i \in 1 .. j - 1 : s[i] \notin found
  BY DEF StopsAt
<1>1. /\ Len(s) \in Nat /\ f = EntryOf(NULL, s, 1)
      /\ \A i \in 1 .. Len(s) : /\ s[i] \in Element
                                /\ nx[s[i]] = EntryOf(NULL, s, i + 1)
  BY StrungEntries
<1>2. \A e \in Pointer : w[e] = IF e \in found THEN e ELSE w[nx[e]]
  BY DEF SearchBody
<1>3. \A i \in Int : EntryOf(NULL, s, i) \in Pointer
  BY <1>1 DEF EntryOf, Pointer
<1> DEFINE T == {n \in Nat : n < j /\ w[EntryOf(NULL, s, j - n)] # EntryOf(NULL, s, j)}
<1>4. T = {}
  <2> SUFFICES ASSUME T # {} PROVE FALSE
    OBVIOUS
  <2>1. PICK m \in T : \A n \in T : m =< n
    BY LeastNat
  <2>2. m \in Nat /\ m < j /\ w[EntryOf(NULL, s, j - m)] # EntryOf(NULL, s, j)
    OBVIOUS
  <2>3. CASE m = 0
    <3>1. j \in Int /\ j - m = j
      BY <1>0, <1>1, <2>3
    <3> QED
      BY <1>0, <1>2, <1>3, <2>2, <3>1
  <2>4. CASE m # 0
    <3>1. m - 1 \in Nat /\ m - 1 < j /\ m - 1 \notin T
      BY <1>0, <1>1, <2>1, <2>2, <2>4
    <3>2. w[EntryOf(NULL, s, j - (m - 1))] = EntryOf(NULL, s, j)
      BY <3>1
    <3>3. j - m \in 1 .. j - 1 /\ j - m \in 1 .. Len(s) /\ (j - m) + 1 = j - (m - 1)
      BY <1>0, <1>1, <2>2, <2>4
    <3>4. w[s[j - m]] = w[nx[s[j - m]]] /\ nx[s[j - m]] = EntryOf(NULL, s, j - (m - 1))
      BY <1>0, <1>1, <1>2, <3>3 DEF Pointer
    <3>5. EntryOf(NULL, s, j - m) = s[j - m]
      BY <3>3 DEF EntryOf
    <3> QED
      BY <2>2, <3>2, <3>4, <3>5
  <2> QED
    BY <2>3, <2>4
<1>5. j - 1 \in Nat /\ j - 1 < j /\ j - (j - 1) = 1
  BY <1>0, <1>1
<1>6. w[EntryOf(NULL, s, 1)] = EntryOf(NULL, s, j)
  BY <1>4, <1>5
<1> QED
  BY <1>1, <1>6

\* The chains of the lines, as HashInv has them.
Chains(ch) ==
  /\ ch \in [Line -> Seq(Element)]
  /\ LinesSpell(ch, lines, next)
  /\ \A l \in Line : Range(ch[l]) = InLine(l)

\* The line of a key has the element that matches it.
LEMMA MatchPlace ==
  ASSUME HashTypes, KeysInv, NEW ch, Chains(ch), NEW k \in Key, NEW m \in Matching(k)
  PROVE  /\ m \in elements /\ KeyAt(m) = k /\ Matching(k) = {m}
         /\ HashOf[k] \in Line
         /\ \E j \in 1 .. Len(ch[HashOf[k]]) : ch[HashOf[k]][j] = m
<1>1. m \in elements /\ KeyAt(m) = k
  BY DEF Matching
<1>2. Matching(k) = {m}
  BY <1>1 DEF Matching, KeysInv
<1>3. HashOf[k] \in Line
  BY HashAssumption DEF Line
<1>4. m \in Range(ch[HashOf[k]])
  BY <1>1, <1>3 DEF Chains, InLine
<1>5. ch[HashOf[k]] \in Seq(Element)
  BY <1>3 DEF Chains
<1> QED
  BY <1>1, <1>2, <1>3, <1>4, <1>5, RangeOf

\* cntHash_get finds the element that has the key, if there is one.
FoundAs(k) == IF Matching(k) = {} THEN Find(k) = NULL ELSE Find(k) \in Matching(k)

LEMMA FindExact ==
  ASSUME HashInv, NEW k \in Key
  PROVE  FoundAs(k)
<1>1. HashTypes /\ KeysInv
  BY DEF HashInv
<1>2. PICK ch : Chains(ch)
  BY DEF HashInv, LinesInv, Chains
<1>3. PICK l : l = HashOf[k]
  OBVIOUS
<1>4. l \in Line
  BY <1>3, HashAssumption DEF Line
<1>5. PICK s : s = ch[l]
  OBVIOUS
<1>6. Strung(s, lines[l], next) /\ s \in Seq(Element) /\ Range(s) = InLine(l)
  BY <1>2, <1>4, <1>5 DEF Chains, LinesSpell
<1>7. PICK found : found = Matching(k) \cup {NULL}
  OBVIOUS
<1>8. Find(k) = (CHOOSE w : w = SearchBody(found, next, w))[lines[l]]
  BY <1>3, <1>7 DEF Find, SearchBody, Pointer
<1>9. Len(s) \in Nat /\ \A i \in 1 .. Len(s) : s[i] # NULL
  BY <1>6, StrungEntries
<1>10. CASE Matching(k) = {}
  <2> DEFINE w0 == [e \in Pointer |-> NULL]
  <2>1. found = {NULL}
    BY <1>7, <1>10
  <2>2. \A e \in Pointer : w0[e] = IF e \in found THEN e ELSE w0[next[e]]
    BY <1>1, <2>1 DEF Pointer, HashTypes
  <2>3. w0 = SearchBody(found, next, w0)
    BY <2>2 DEF SearchBody
  <2> HIDE DEF w0
  <2>4. PICK w : w = SearchBody(found, next, w) /\ Find(k) = w[lines[l]]
    BY <1>8, <2>3
  <2>5. /\ Len(s) + 1 \in 1 .. Len(s) + 1 /\ EntryOf(NULL, s, Len(s) + 1) = NULL
        /\ \A i \in 1 .. (Len(s) + 1) - 1 : s[i] \notin found
    BY <1>9, <2>1 DEF EntryOf
  <2>6. w[lines[l]] = EntryOf(NULL, s, Len(s) + 1)
    <3>1. StopsAt(s, found, Len(s) + 1) /\ NULL \in found
      BY <2>1, <2>5 DEF StopsAt
    <3> QED
      BY <1>6, <2>4, <3>1, SearchEnds
  <2> QED
    BY <1>10, <2>4, <2>5, <2>6 DEF FoundAs
<1>11. ASSUME NEW m \in Matching(k) PROVE Find(k) = m
  <2>1. Matching(k) = {m} /\ \E j \in 1 .. Len(s) : s[j] = m
    BY <1>1, <1>2, <1>3, <1>5, MatchPlace
  <2>2. PICK j \in 1 .. Len(s) : s[j] = m
    BY <2>1
  <2>3. found = {s[j], NULL}
    BY <1>7, <2>1, <2>2
  <2>4. \A e \in Element : e \notin Range(s) => next[e] \notin Range(s)
    <3> SUFFICES ASSUME NEW e \in Element, e \notin Range(s), next[e] \in Range(s)
                 PROVE  FALSE
      OBVIOUS
    <3>1. next[e] \in Element /\ next[e] # NULL /\ next[e] \in elements
          /\ HashOf[KeyAt(next[e])] = l
      BY <1>1, <1>6, HashAssumption DEF InLine, HashTypes
    <3>2. e \in elements
      BY <1>1, <3>1 DEF KeysInv
    <3>3. PICK h : h = HashOf[KeyAt(e)]
      OBVIOUS
    <3>4. KeyAt(e) \in Key
      BY <1>1, <3>2 DEF KeysInv, HashTypes, KeyAt
    <3>5. h \in Line /\ h # l
      BY <1>6, <3>2, <3>3, <3>4, HashAssumption DEF Line, InLine
    <3>6. e \in Range(ch[h]) /\ Strung(ch[h], lines[h], next) /\ ch[h] \in Seq(Element)
      BY <1>2, <3>2, <3>3, <3>5 DEF Chains, LinesSpell, InLine
    <3>7. PICK i \in 1 .. Len(ch[h]) : ch[h][i] = e
      BY <3>6, RangeOf
    <3>8. next[e] = EntryOf(NULL, ch[h], i + 1)
      BY <3>6, <3>7, StrungEntries
    <3>9. next[e] \in Range(ch[h])
      BY <3>1, <3>6, <3>8, RangeOf DEF EntryOf
    <3>10. next[e] \in InLine(h)
      BY <1>2, <3>5, <3>9 DEF Chains
    <3> QED
      BY <3>1, <3>5, <3>10 DEF InLine
  <2>5. next \in [Element -> Pointer]
    BY <1>1 DEF HashTypes
  <2>6. \E w : w = SearchBody({s[j], NULL}, next, w)
    BY <1>6, <2>2, <2>4, <2>5, SearchExists
  <2>7. PICK w : w = SearchBody(found, next, w) /\ Find(k) = w[lines[l]]
    BY <1>8, <2>3, <2>6
  <2>8. /\ j \in 1 .. Len(s) + 1 /\ EntryOf(NULL, s, j) = s[j]
        /\ \A i \in 1 .. j - 1 : i \in 1 .. Len(s) /\ i # j
    BY <1>9 DEF EntryOf
  <2>9. \A i \in 1 .. j - 1 : s[i] \notin found
    BY <1>6, <1>9, <2>3, <2>8 DEF Strung, NoRepeat
  <2>10. w[lines[l]] = EntryOf(NULL, s, j)
    <3>1. StopsAt(s, found, j) /\ NULL \in found
      BY <2>3, <2>8, <2>9 DEF StopsAt
    <3> QED
      BY <1>6, <2>7, <3>1, SearchEnds
  <2> QED
    BY <2>2, <2>7, <2>8, <2>10
<1> QED
  BY <1>10, <1>11 DEF FoundAs

\* Counting down a line.
LEMMA NthExact ==
  ASSUME NEW ch, Chains(ch), NEW l \in Line, NEW n \in Nat
  PROVE  Nth(l, n) = EntryOf(NULL, ch[l], n + 1)
<1>1. Strung(ch[l], lines[l], next)
  BY DEF Chains, LinesSpell
<1>2. /\ ch[l] \in Seq(Element) /\ lines[l] = EntryOf(NULL, ch[l], 1) /\ NULL \notin Element
      /\ \A j \in 1 .. Len(ch[l]) : next[ch[l][j]] = EntryOf(NULL, ch[l], j + 1)
  BY <1>1, StrungEntries, HashAssumption
<1>3. Nth(l, n) = (CHOOSE f : f = LinkWalk(NULL, next, lines[l], n, f))[n]
  BY DEF Nth, LinkWalk
<1>4. PICK s, p, nx : s = ch[l] /\ p = lines[l] /\ nx = next
  OBVIOUS
<1>5. /\ s \in Seq(Element) /\ p = EntryOf(NULL, s, 1) /\ NULL \notin Element
      /\ \A j \in 1 .. Len(s) : nx[s[j]] = EntryOf(NULL, s, j + 1)
  BY <1>2, <1>4
<1>6. (CHOOSE f : f = LinkWalk(NULL, nx, p, n, f))[n] = EntryOf(NULL, s, n + 1)
  BY <1>5, LinkWalkEntry
<1> QED
  BY <1>3, <1>4, <1>6

LEMMA DepthExact ==
  ASSUME HashTypes, NEW ch, Chains(ch), NEW l \in Line, NEW found, NEW j, StopsAt(ch[l], found, j)
  PROVE  Depth(l, found) = j - 1 /\ Nth(l, Depth(l, found)) = EntryOf(NULL, ch[l], j)
<1>1. PICK s : s = ch[l]
  OBVIOUS
<1>2. /\ Strung(s, lines[l], next) /\ Range(s) = InLine(l) /\ s \in Seq(Element) /\ NoRepeat(s)
      /\ Len(s) \in Nat /\ \A i \in 1 .. Len(s) : s[i] # NULL
  BY <1>1, StrungEntries DEF Chains, LinesSpell
<1>3. PICK c : c = Cardinality(elements)
  OBVIOUS
<1>4. c \in Nat /\ Len(s) =< c
  <2>1. Range(s) \subseteq elements /\ IsFiniteSet(elements)
    BY <1>2 DEF InLine, HashTypes
  <2>2. Cardinality(Range(s)) = Len(s)
    BY <1>2, NoRepeatCardinality
  <2> QED
    BY <1>3, <2>1, <2>2, FS_Subset, FS_CardinalityType
<1>5. \A n \in Nat : Nth(l, n) = EntryOf(NULL, s, n + 1)
  BY <1>1, NthExact
<1> DEFINE Stop(n) == /\ Nth(l, n) \in found \cup {NULL}
                      /\ \A m \in 0 .. n - 1 : Nth(l, m) \notin found \cup {NULL}
<1>6. /\ j \in 1 .. Len(s) + 1 /\ j - 1 \in 0 .. c /\ (j - 1) + 1 = j
      /\ EntryOf(NULL, s, j) \in found \cup {NULL}
      /\ \A i \in 1 .. j - 1 : s[i] \notin found
  BY <1>1, <1>2, <1>4 DEF StopsAt
<1>7. Stop(j - 1)
  <2>1. Nth(l, j - 1) = EntryOf(NULL, s, j)
    BY <1>5, <1>6
  <2>2. ASSUME NEW m \in 0 .. (j - 1) - 1 PROVE Nth(l, m) \notin found \cup {NULL}
    <3>1. m \in Nat /\ m + 1 \in 1 .. Len(s) /\ m + 1 \in 1 .. j - 1
      BY <1>2, <1>6
    <3>2. Nth(l, m) = s[m + 1]
      BY <1>5, <3>1 DEF EntryOf
    <3> QED
      BY <1>2, <1>6, <3>1, <3>2
  <2> QED
    BY <1>6, <2>1, <2>2
<1>8. ASSUME NEW n \in 0 .. c, Stop(n) PROVE n = j - 1
  <2>1. ~(n < j - 1)
    <3> SUFFICES ASSUME n < j - 1 PROVE FALSE
      OBVIOUS
    <3>1. n \in 0 .. (j - 1) - 1
      BY <1>6
    <3> QED
      BY <1>7, <1>8, <3>1
  <2>2. ~(j - 1 < n)
    <3> SUFFICES ASSUME j - 1 < n PROVE FALSE
      OBVIOUS
    <3>1. j - 1 \in 0 .. n - 1
      BY <1>6
    <3> QED
      BY <1>7, <1>8, <3>1
  <2> QED
    BY <1>6, <2>1, <2>2
<1>9. Depth(l, found) = CHOOSE n \in 0 .. c : Stop(n)
  BY <1>3 DEF Depth
<1> HIDE DEF Stop
<1>10. Depth(l, found) = j - 1
  BY <1>6, <1>7, <1>8, <1>9
<1>11. Nth(l, j - 1) = EntryOf(NULL, s, j)
  BY <1>5, <1>6
<1> QED
  BY <1>1, <1>10, <1>11

-----------------------------------------------------------------------------
(***************************************************************************)
(* What linking and unlinking do to the lines.                             *)
(***************************************************************************)
LEMMA StrungBeside ==
  ASSUME NEW s, NEW f, NEW nx, Strung(s, f, nx), NEW nx2, \A x \in Range(s) : nx2[x] = nx[x]
  PROVE  Strung(s, f, nx2)
BY StrungEntries DEF Strung

\* The links after n is linked behind the last entry of s.
Lengthened(s, f, nx, n, f2, nx2) ==
  /\ f2 = IF Len(s) = 0 THEN n ELSE f
  /\ nx2[n] = NULL
  /\ \A x \in Element : x # n => nx2[x] = IF Len(s) # 0 /\ x = s[Len(s)] THEN n ELSE nx[x]

LEMMA StrungAppended ==
  ASSUME NEW s, NEW f, NEW nx, Strung(s, f, nx), NEW n \in Element, n \notin Range(s),
         NEW f2, NEW nx2, Lengthened(s, f, nx, n, f2, nx2)
  PROVE  Strung(Append(s, n), f2, nx2) /\ Range(Append(s, n)) = Range(s) \cup {n}
<1>1. /\ s \in Seq(Element) /\ Len(s) \in Nat /\ NoRepeat(s) /\ f = EntryOf(NULL, s, 1)
      /\ \A i \in 1 .. Len(s) : /\ s[i] \in Element /\ s[i] # n
                                /\ nx[s[i]] = EntryOf(NULL, s, i + 1)
  BY StrungEntries
<1>2. PICK r : r = Append(s, n)
  OBVIOUS
<1>3. /\ r \in Seq(Element) /\ Len(r) = Len(s) + 1 /\ r[Len(s) + 1] = n
      /\ \A i \in 1 .. Len(s) : r[i] = s[i]
  BY <1>1, <1>2
<1>4. NoRepeat(r) /\ Range(r) = Range(s) \cup {n}
  BY <1>1, <1>2, AppendExact
<1>5. f2 = EntryOf(NULL, r, 1)
  <2>1. CASE Len(s) = 0
    BY <1>3, <2>1 DEF Lengthened, EntryOf
  <2>2. CASE Len(s) # 0
    <3>1. 1 \in 1 .. Len(s) /\ 1 \in 1 .. Len(r)
      BY <1>1, <1>3, <2>2
    <3> QED
      BY <1>1, <1>3, <2>2, <3>1 DEF Lengthened, EntryOf
  <2> QED
    BY <2>1, <2>2
<1>6. ASSUME NEW i \in 1 .. Len(r) PROVE nx2[r[i]] = EntryOf(NULL, r, i + 1)
  <2>1. CASE i = Len(s) + 1
    BY <1>1, <1>3, <2>1 DEF Lengthened, EntryOf
  <2>2. CASE i # Len(s) + 1
    <3>1. i \in 1 .. Len(s) /\ i + 1 \in 1 .. Len(r) /\ Len(s) # 0 /\ Len(s) \in 1 .. Len(s)
      BY <1>1, <1>3, <2>2
    <3>2. r[i] = s[i] /\ s[i] # n /\ s[i] \in Element /\ EntryOf(NULL, r, i + 1) = r[i + 1]
      BY <1>1, <1>3, <3>1 DEF EntryOf
    <3>3. nx2[r[i]] = IF s[i] = s[Len(s)] THEN n ELSE nx[s[i]]
      BY <3>1, <3>2 DEF Lengthened
    <3>4. CASE i = Len(s)
      BY <1>3, <3>2, <3>3, <3>4
    <3>5. CASE i # Len(s)
      <4>1. s[i] # s[Len(s)] /\ i + 1 \in 1 .. Len(s)
        BY <1>1, <3>1, <3>5 DEF NoRepeat
      <4>2. nx[s[i]] = s[i + 1] /\ r[i + 1] = s[i + 1]
        BY <1>1, <1>3, <3>1, <4>1 DEF EntryOf
      <4> QED
        BY <3>2, <3>3, <4>1, <4>2
    <3> QED
      BY <3>4, <3>5
  <2> QED
    BY <2>1, <2>2
<1> QED
  BY <1>2, <1>3, <1>4, <1>5, <1>6 DEF Strung

\* The links after the i-th entry of s is unlinked.
Shortened(s, f, nx, i, f2, nx2) ==
  /\ f2 = IF i = 1 THEN nx[s[i]] ELSE f
  /\ \A x \in Element : x # s[i] => nx2[x] = IF i # 1 /\ x = s[i - 1] THEN nx[s[i]] ELSE nx[x]

LEMMA StrungRemoved ==
  ASSUME NEW s, NEW f, NEW nx, Strung(s, f, nx), NEW i \in 1 .. Len(s),
         NEW f2, NEW nx2, Shortened(s, f, nx, i, f2, nx2)
  PROVE  Strung(RemoveAt(s, i), f2, nx2) /\ Range(RemoveAt(s, i)) = Range(s) \ {s[i]}
<1>1. /\ s \in Seq(Element) /\ Len(s) \in Nat /\ NoRepeat(s) /\ f = EntryOf(NULL, s, 1)
      /\ \A j \in 1 .. Len(s) : /\ s[j] \in Element
                                /\ nx[s[j]] = EntryOf(NULL, s, j + 1)
  BY StrungEntries
<1>2. PICK r : r = RemoveAt(s, i)
  OBVIOUS
<1>3. /\ r \in Seq(Element) /\ Len(r) = Len(s) - 1
      /\ \A j \in 1 .. Len(s) - 1 : r[j] = IF j < i THEN s[j] ELSE s[j + 1]
  <2>1. r \in Seq(Element) /\ Len(r) = Len(s) - 1 /\ RemovedAt(s, Len(s), i, r)
    BY <1>1, <1>2, RemoveAtExact
  <2> QED
    BY <2>1 DEF RemovedAt
<1>4. NoRepeat(r) /\ Range(r) = Range(s) \ {s[i]}
  BY <1>1, <1>2, RemoveOld
<1>5. \A j \in Int : j >= i => EntryOf(NULL, r, j) = EntryOf(NULL, s, j + 1)
  BY <1>1, <1>3 DEF EntryOf
<1>6. \A j \in Int : j < i => EntryOf(NULL, r, j) = EntryOf(NULL, s, j)
  BY <1>1, <1>3 DEF EntryOf
<1>7. f2 = EntryOf(NULL, r, 1)
  <2>1. CASE i = 1
    BY <1>1, <1>5, <2>1 DEF Shortened
  <2>2. CASE i # 1
    BY <1>1, <1>6, <2>2 DEF Shortened
  <2> QED
    BY <2>1, <2>2
<1>8. ASSUME NEW j \in 1 .. Len(r) PROVE nx2[r[j]] = EntryOf(NULL, r, j + 1)
  <2>1. CASE j >= i
    <3>1. j + 1 \in 1 .. Len(s) /\ j + 1 # i /\ r[j] = s[j + 1] /\ j \in 1 .. Len(s) - 1
      BY <1>1, <1>3, <2>1
    <3>2. s[j + 1] # s[i] /\ (i # 1 => s[j + 1] # s[i - 1])
      <4>1. i # 1 => i - 1 \in 1 .. Len(s) /\ i - 1 # j + 1
        BY <1>1, <2>1, <3>1
      <4> QED
        BY <1>1, <3>1, <4>1 DEF NoRepeat
    <3>3. nx2[r[j]] = nx[s[j + 1]]
      BY <1>1, <3>1, <3>2 DEF Shortened
    <3>4. nx[s[j + 1]] = EntryOf(NULL, s, (j + 1) + 1)
      BY <1>1, <3>1
    <3>5. EntryOf(NULL, r, j + 1) = EntryOf(NULL, s, (j + 1) + 1)
      <4>1. j + 1 \in Int /\ j + 1 >= i
        BY <2>1
      <4> QED
        BY <1>5, <4>1
    <3> QED
      BY <3>3, <3>4, <3>5
  <2>2. CASE j < i
    <3>1. j \in 1 .. Len(s) /\ j # i /\ r[j] = s[j] /\ s[j] # s[i]
      BY <1>1, <1>3, <2>2 DEF NoRepeat
    <3>2. CASE j = i - 1
      <4>1. nx2[r[j]] = nx[s[i]] /\ nx[s[i]] = EntryOf(NULL, s, i + 1)
        BY <1>1, <3>1, <3>2 DEF Shortened
      <4>2. EntryOf(NULL, r, i) = EntryOf(NULL, s, i + 1) /\ j + 1 = i
        BY <1>5, <3>2
      <4> QED
        BY <4>1, <4>2
    <3>3. CASE j # i - 1
      <4>1. i # 1 => s[j] # s[i - 1]
        <5>1. i # 1 => i - 1 \in 1 .. Len(s)
          BY <1>1
        <5> QED
          BY <1>1, <3>1, <3>3, <5>1 DEF NoRepeat
      <4>2. nx2[r[j]] = nx[s[j]] /\ nx[s[j]] = EntryOf(NULL, s, j + 1)
        BY <1>1, <3>1, <4>1 DEF Shortened
      <4>3. j + 1 \in Int /\ j + 1 < i
        BY <2>2, <3>3
      <4> QED
        BY <1>6, <4>2, <4>3
    <3> QED
      BY <3>2, <3>3
  <2>3. j >= i \/ j < i
    OBVIOUS
  <2> QED
    BY <2>1, <2>2, <2>3
<1> QED
  BY <1>2, <1>3, <1>4, <1>7, <1>8 DEF Strung

\* Link, field by field.
Linked(l, d, p, e, q) ==
  /\ lines' \in [Line -> Pointer] /\ next' \in [Element -> Pointer]
  /\ \A m \in Line : lines'[m] = IF m = l /\ d = 0 THEN p ELSE lines[m]
  /\ \A x \in Element : next'[x] = IF x = e THEN q
                                   ELSE IF d # 0 /\ x = Nth(l, d - 1) THEN p ELSE next[x]

Linkable(l, d, p, e, q) ==
  /\ l \in Line /\ p \in Pointer /\ e \in Element /\ q \in Pointer
  /\ d # 0 => Nth(l, d - 1) \in Element

LEMMA LinkEffect ==
  ASSUME HashTypes, NEW l, NEW d, NEW p, NEW e, NEW q,
         Linkable(l, d, p, e, q), Link(l, d, p, e, q)
  PROVE  Linked(l, d, p, e, q)
<1>0. /\ l \in Line /\ p \in Pointer /\ e \in Element /\ q \in Pointer
      /\ d # 0 => Nth(l, d - 1) \in Element
  BY DEF Linkable
<1>1. lines \in [Line -> Pointer] /\ next \in [Element -> Pointer]
  BY DEF HashTypes
<1>2. CASE d = 0
  <2>1. lines' = [lines EXCEPT ![l] = p] /\ next' = [next EXCEPT ![e] = q]
    BY <1>2 DEF Link
  <2> QED
    BY <1>0, <1>1, <1>2, <2>1 DEF Linked
<1>3. CASE d # 0
  <2>1. PICK b \in Element : b = Nth(l, d - 1)
    BY <1>0, <1>3
  <2>2. next' = [next EXCEPT ![b] = p, ![e] = q] /\ lines' = lines
    BY <1>3, <2>1 DEF Link
  <2> QED
    BY <1>0, <1>1, <1>3, <2>1, <2>2 DEF Linked
<1> QED
  BY <1>2, <1>3

\* When one line becomes s2 and the others are left alone.
LEMMA LinesChanged ==
  ASSUME NEW ch, Chains(ch), NEW l \in Line, NEW s2 \in Seq(Element),
         Strung(s2, lines'[l], next'), Range(s2) = InLine(l)',
         \A m \in Line : m # l => /\ lines'[m] = lines[m] /\ InLine(m)' = InLine(m)
                                  /\ \A x \in InLine(m) : next'[x] = next[x]
  PROVE  LinesInv'
<1>1. PICK c2 : c2 = [ch EXCEPT ![l] = s2]
  OBVIOUS
<1>2. /\ c2 \in [Line -> Seq(Element)] /\ c2[l] = s2
      /\ \A m \in Line : m # l => c2[m] = ch[m]
  BY <1>1 DEF Chains
<1>3. ASSUME NEW m \in Line
      PROVE  Strung(c2[m], lines'[m], next') /\ Range(c2[m]) = InLine(m)'
  <2>1. CASE m = l
    BY <1>2, <2>1
  <2>2. CASE m # l
    <3>1. /\ Strung(ch[m], lines[m], next) /\ Range(ch[m]) = InLine(m)
      BY DEF Chains, LinesSpell
    <3>2. \A x \in Range(ch[m]) : next'[x] = next[x]
      BY <2>2, <3>1
    <3>3. Strung(ch[m], lines[m], next')
      BY <3>1, <3>2, StrungBeside
    <3> QED
      BY <1>2, <2>2, <3>1, <3>3
  <2> QED
    BY <2>1, <2>2
<1> QED
  BY <1>2, <1>3 DEF LinesInv, LinesSpell

-----------------------------------------------------------------------------
(***************************************************************************)
(* What the operations do to the elements, their keys and their values.    *)
(***************************************************************************)
SameOn(S) == \A x \in S : KeyAt(x)' = KeyAt(x) /\ value'[x] = value[x]

Kept == elements' = elements /\ SameOn(elements)

Updated(e) ==
  /\ e \in elements /\ elements' = elements
  /\ KeyAt(e)' = KeyAt(e) /\ value'[e] \in Value
  /\ SameOn(elements \ {e})

Gained(k, n) ==
  /\ n \in Element \ elements /\ elements' = elements \cup {n}
  /\ Matching(k) = {} /\ KeyAt(n)' = k /\ value'[n] \in Value
  /\ SameOn(elements)

Lost(e) == e \in elements /\ elements' = elements \ {e} /\ SameOn(elements \ {e})

HashStep ==
  \/ Kept \/ elements' = {}
  \/ \E e \in Element : Updated(e) \/ Lost(e) \/ \E k \in Key : Gained(k, e)

\* When no element, link or key changes.
LEMMA LinesKept ==
  ASSUME HashInv, UNCHANGED <<elements, lines, next>>,
         \A x \in elements : KeyAt(x)' = KeyAt(x)
  PROVE  LinesInv'
<1>1. PICK ch \in [Line -> Seq(Element)] :
        LinesSpell(ch, lines, next) /\ \A l \in Line : Range(ch[l]) = InLine(l)
  BY DEF HashInv, LinesInv
<1>2. \A l \in Line : InLine(l)' = InLine(l)
  BY DEF InLine
<1>3. LinesSpell(ch, lines', next') /\ \A l \in Line : Range(ch[l]) = InLine(l)'
  BY <1>1, <1>2
<1> QED
  BY <1>3 DEF LinesInv

\* The key of e has come to be at place s, and nothing else happens but to the
\* value of e: an update and cntHash_move_key.
Repoint(e, s) ==
  /\ e \in elements /\ s \in Place /\ content[s] = KeyAt(e)
  /\ place' = [place EXCEPT ![e] = s]
  /\ lent' = [lent EXCEPT ![KeyAt(e)] = s]
  /\ value' \in [Element -> Value \cup {NULL}] /\ value'[e] \in Value
  /\ \A x \in Element : x # e => value'[x] = value[x]
  /\ UNCHANGED <<elements, lines, next, content>>

LEMMA RepointKeeps ==
  ASSUME HashInv, NEW e, NEW s, Repoint(e, s)
  PROVE  HashInv' /\ Updated(e)
<1>1. /\ HashTypes /\ KeysInv /\ e \in elements /\ e \in Element /\ s \in Place
      /\ elements \subseteq Element
  BY DEF HashInv, HashTypes, Repoint
<1>2. \A x \in elements : place'[x] = IF x = e THEN s ELSE place[x]
  BY <1>1 DEF Repoint, HashTypes
<1>3. \A x \in elements : KeyAt(x)' = KeyAt(x)
  BY <1>1, <1>2 DEF Repoint, KeyAt
<1>4. \A x \in elements : KeyAt(x) \in Key /\ place[x] \in Place
  BY <1>1 DEF KeysInv, HashTypes, KeyAt
<1>5. \A k \in Key : lent'[k] = IF k = KeyAt(e) THEN s ELSE lent[k]
  BY <1>1 DEF Repoint, HashTypes
<1>6. HashTypes'
  <2>1. /\ elements' = elements /\ lines' = lines /\ next' = next /\ content' = content
        /\ value' \in [Element -> Value \cup {NULL}]
        /\ place' \in [Element -> Place \cup {NULL}]
        /\ lent' \in [Key -> Place \cup {NULL}]
    BY <1>1 DEF Repoint, HashTypes
  <2> QED
    BY <1>1, <2>1 DEF HashTypes
<1>7. KeysInv'
  <2>1. ASSUME NEW x \in elements
        PROVE  place'[x] \in Place /\ value'[x] \in Value /\ lent'[KeyAt(x)'] = place'[x]
    <3>1. x \in Element /\ value[x] \in Value /\ lent[KeyAt(x)] = place[x]
      BY <1>1 DEF KeysInv
    <3>2. KeyAt(x) = KeyAt(e) <=> x = e
      BY <1>1 DEF KeysInv
    <3>3. value'[x] \in Value
      BY <3>1 DEF Repoint
    <3> QED
      BY <1>1, <1>2, <1>3, <1>4, <1>5, <3>1, <3>2, <3>3
  <2>2. \A d, x \in elements : KeyAt(d)' = KeyAt(x)' => d = x
    BY <1>1, <1>3 DEF KeysInv
  <2>3. elements' = elements /\ next' = next
    BY DEF Repoint
  <2> QED
    BY <1>1, <2>1, <2>2, <2>3 DEF KeysInv
<1>8. LinesInv'
  <2>1. UNCHANGED <<elements, lines, next>>
    BY DEF Repoint
  <2> QED
    BY <1>3, <2>1, LinesKept
<1>9. Updated(e)
  BY <1>1, <1>3 DEF Updated, SameOn, Repoint
<1> QED
  BY <1>6, <1>7, <1>8, <1>9 DEF HashInv

\* The client's writes do not reach a key that is in use.
LEMMA ScribbleKeeps ==
  ASSUME HashInv, NEW s \in Place, NEW k \in Key, Scribble(s, k)
  PROVE  HashInv' /\ Kept
<1>1. HashTypes /\ KeysInv /\ UNCHANGED <<elements, lines, next, place, value, lent>>
  BY DEF HashInv, Scribble
<1>2. \A x \in elements : x \in Element /\ KeyAt(x) \in Key /\ place[x] \in Place
  BY <1>1 DEF KeysInv, HashTypes, KeyAt
<1>3. content' = [content EXCEPT ![s] = k] /\ s \notin {lent[j] : j \in DOMAIN lent}
  BY DEF Scribble, Range
<1>4. ASSUME NEW x \in elements PROVE KeyAt(x)' = KeyAt(x)
  <2>1. lent[KeyAt(x)] = place[x] /\ KeyAt(x) \in DOMAIN lent
    BY <1>1, <1>2 DEF KeysInv, HashTypes
  <2>2. place[x] # s
    BY <1>3, <2>1
  <2>3. content'[place[x]] = content[place[x]]
    BY <1>1, <1>2, <1>3, <2>2 DEF HashTypes
  <2> QED
    BY <1>1, <2>3 DEF KeyAt
<1>5. HashTypes'
  BY <1>1, <1>3 DEF HashTypes
<1>6. KeysInv'
  BY <1>1, <1>4 DEF KeysInv
<1>7. LinesInv'
  BY <1>1, <1>4, LinesKept
<1> QED
  BY <1>1, <1>4, <1>5, <1>6, <1>7 DEF HashInv, Kept, SameOn

LEMMA ClearKeeps ==
  ASSUME Clear, HashTypes
  PROVE  HashInv' /\ elements' = {}
<1>1. /\ elements' = {} /\ lines' = [l \in Line |-> NULL]
      /\ next' = [e \in Element |-> NULL] /\ place' = [e \in Element |-> NULL]
      /\ value' = [e \in Element |-> NULL] /\ lent' = [k \in Key |-> NULL]
      /\ content' = content
  BY DEF Clear
<1>2. HashTypes'
  BY <1>1, FS_EmptySet DEF HashTypes, Pointer
<1>3. KeysInv'
  BY <1>1 DEF KeysInv
<1>4. PICK ch : ch = [l \in Line |-> <<>>]
  OBVIOUS
<1>5. /\ ch \in [Line -> Seq(Element)] /\ \A l \in Line : ch[l] = <<>>
  BY <1>4
<1>6. Strung(<<>>, NULL, next')
  BY DEF Strung, NoRepeat, EntryOf
<1>7. LinesSpell(ch, lines', next')
  BY <1>1, <1>5, <1>6 DEF LinesSpell
<1>8. Range(<<>>) = {}
  BY DEF Range
<1>9. \A l \in Line : Range(ch[l]) = InLine(l)'
  BY <1>1, <1>5, <1>8 DEF InLine
<1> QED
  BY <1>1, <1>2, <1>3, <1>5, <1>7, <1>9 DEF HashInv, LinesInv

\* A new element for the key at s goes behind the others of the key's line.
Extend(k, n, s, w) ==
  /\ k = content[s] /\ Matching(k) = {} /\ n \in Element \ elements
  /\ elements' = elements \cup {n}
  /\ Link(HashOf[k], Depth(HashOf[k], Matching(k)), n, n, NULL)
  /\ value' = [value EXCEPT ![n] = w]
  /\ place' = [place EXCEPT ![n] = s]
  /\ lent' = [lent EXCEPT ![k] = s]
  /\ content' = content

LEMMA ExtendKeeps ==
  ASSUME HashInv, NEW s \in Place, NEW w \in Value, NEW k, NEW n, Extend(k, n, s, w)
  PROVE  HashInv' /\ k \in Key /\ Gained(k, n)
<1>1. HashTypes /\ KeysInv /\ n \in Element /\ n \notin elements /\ elements \subseteq Element
  BY DEF HashInv, HashTypes, Extend
<1>2. PICK ch : Chains(ch)
  BY DEF HashInv, LinesInv, Chains
<1>3. k = content[s] /\ k \in Key /\ HashOf[k] \in Line
  BY <1>1, HashAssumption DEF Extend, HashTypes, Line
<1>4. PICK l : l = HashOf[k]
  OBVIOUS
<1>5. PICK t : t = ch[l]
  OBVIOUS
<1>6. /\ l \in Line /\ Strung(t, lines[l], next) /\ Range(t) = InLine(l)
      /\ t \in Seq(Element) /\ Len(t) \in Nat
      /\ \A i \in 1 .. Len(t) : t[i] \in Element /\ t[i] # NULL
  <2>1. l \in Line /\ Strung(t, lines[l], next) /\ Range(t) = InLine(l)
    BY <1>2, <1>3, <1>4, <1>5 DEF Chains, LinesSpell
  <2> QED
    BY <2>1, StrungEntries
<1>7. PICK d : d = Depth(l, {})
  OBVIOUS
<1>8. d = Len(t)
  <2>1. Len(t) + 1 \in 1 .. Len(t) + 1 /\ EntryOf(NULL, t, Len(t) + 1) = NULL
    BY <1>6 DEF EntryOf
  <2>2. StopsAt(ch[l], {}, Len(t) + 1)
    BY <1>5, <2>1 DEF StopsAt
  <2>3. d = (Len(t) + 1) - 1
    BY <1>1, <1>2, <1>6, <1>7, <2>2, DepthExact
  <2> QED
    BY <1>6, <2>3
<1>9. d # 0 => d - 1 \in Nat /\ Nth(l, d - 1) = t[Len(t)] /\ t[Len(t)] \in Element
  <2>1. d # 0 => d - 1 \in Nat /\ (d - 1) + 1 = Len(t) /\ Len(t) \in 1 .. Len(t)
    BY <1>6, <1>8
  <2>2. d # 0 => Nth(l, d - 1) = EntryOf(NULL, ch[l], (d - 1) + 1)
    BY <1>2, <1>6, <2>1, NthExact
  <2> QED
    BY <1>5, <1>6, <2>1, <2>2 DEF EntryOf
<1>10. Link(l, d, n, n, NULL)
  BY <1>4, <1>7 DEF Extend
<1>11. /\ lines' \in [Line -> Pointer] /\ next' \in [Element -> Pointer]
       /\ \A m \in Line : lines'[m] = IF m = l /\ d = 0 THEN n ELSE lines[m]
       /\ \A x \in Element : next'[x] = IF x = n THEN NULL
                                        ELSE IF d # 0 /\ x = Nth(l, d - 1) THEN n ELSE next[x]
  <2>1. Linkable(l, d, n, n, NULL)
    BY <1>1, <1>6, <1>9 DEF Linkable, Pointer
  <2>2. Linked(l, d, n, n, NULL)
    BY <1>1, <1>10, <2>1, LinkEffect
  <2> QED
    BY <2>2 DEF Linked
<1>12. Lengthened(t, lines[l], next, n, lines'[l], next')
  BY <1>1, <1>6, <1>8, <1>9, <1>11 DEF Lengthened
<1>13. /\ elements' = elements \cup {n} /\ content' = content
       /\ \A x \in Element : /\ value'[x] = IF x = n THEN w ELSE value[x]
                             /\ place'[x] = IF x = n THEN s ELSE place[x]
       /\ \A j \in Key : lent'[j] = IF j = k THEN s ELSE lent[j]
  BY <1>1 DEF Extend, HashTypes
<1>14. \A x \in elements : x # n /\ x \in Element /\ KeyAt(x) \in Key /\ KeyAt(x) # k
  <2>1. \A x \in elements : x # n /\ x \in Element /\ KeyAt(x) \in Key
    BY <1>1 DEF KeysInv, HashTypes, KeyAt
  <2>2. \A x \in elements : KeyAt(x) # k
    BY DEF Extend, Matching
  <2> QED
    BY <2>1, <2>2
<1>15. \A x \in elements : KeyAt(x)' = KeyAt(x) /\ value'[x] = value[x]
  BY <1>13, <1>14 DEF KeyAt
<1>16. KeyAt(n)' = k /\ value'[n] = w /\ place'[n] = s
  BY <1>1, <1>3, <1>13 DEF KeyAt
<1>17. HashTypes'
  <2>1. elements' \subseteq Element /\ IsFiniteSet(elements')
    BY <1>1, <1>13, FS_AddElement DEF HashTypes
  <2>2. /\ place' \in [Element -> Place \cup {NULL}]
        /\ value' \in [Element -> Value \cup {NULL}]
        /\ lent' \in [Key -> Place \cup {NULL}] /\ content' \in [Place -> Key]
    BY <1>1 DEF Extend, HashTypes
  <2> QED
    BY <1>11, <2>1, <2>2 DEF HashTypes
<1>18. KeysInv'
  <2>1. ASSUME NEW x \in elements'
        PROVE  place'[x] \in Place /\ value'[x] \in Value /\ lent'[KeyAt(x)'] = place'[x]
    <3>1. CASE x = n
      BY <1>3, <1>13, <1>16, <3>1
    <3>2. CASE x # n
      <4>1. x \in elements
        BY <1>13, <3>2
      <4>2. place[x] \in Place /\ value[x] \in Value /\ lent[KeyAt(x)] = place[x]
        BY <1>1, <4>1 DEF KeysInv
      <4> QED
        BY <1>13, <1>14, <1>15, <4>1, <4>2
    <3> QED
      BY <3>1, <3>2
  <2>2. \A x, y \in elements' : KeyAt(x)' = KeyAt(y)' => x = y
    BY <1>1, <1>13, <1>14, <1>15, <1>16 DEF KeysInv
  <2>3. ASSUME NEW x \in Element \ elements' PROVE next'[x] = NULL
    <3>1. x # n /\ x \notin elements /\ next[x] = NULL
      BY <1>1, <1>13 DEF KeysInv
    <3>2. ~(d # 0 /\ x = Nth(l, d - 1))
      <4>1. d # 0 => t[Len(t)] \in Range(t)
        BY <1>6, <1>8, RangeOf
      <4> QED
        BY <1>6, <1>9, <3>1, <4>1 DEF InLine
    <3> QED
      BY <1>11, <3>1, <3>2
  <2> QED
    BY <2>1, <2>2, <2>3 DEF KeysInv
<1>19. LinesInv'
  <2>1. n \notin Range(t)
    BY <1>1, <1>6 DEF InLine
  <2>2. Strung(Append(t, n), lines'[l], next') /\ Range(Append(t, n)) = Range(t) \cup {n}
    BY <1>1, <1>6, <1>12, <2>1, StrungAppended
  <2>3. InLine(l)' = InLine(l) \cup {n}
    BY <1>4, <1>13, <1>14, <1>15, <1>16 DEF InLine
  <2>4. ASSUME NEW m \in Line, m # l
        PROVE  /\ lines'[m] = lines[m] /\ InLine(m)' = InLine(m)
               /\ \A x \in InLine(m) : next'[x] = next[x]
    <3>1. lines'[m] = lines[m]
      BY <1>11, <2>4
    <3>2. InLine(m)' = InLine(m)
      BY <1>4, <1>13, <1>14, <1>15, <1>16, <2>4 DEF InLine
    <3>3. ASSUME NEW x \in InLine(m) PROVE next'[x] = next[x]
      <4>1. x \in elements /\ x \notin InLine(l)
        BY <2>4, <3>3 DEF InLine
      <4>2. x # n /\ x \in Element
        BY <1>14, <4>1
      <4>3. ~(d # 0 /\ x = Nth(l, d - 1))
        <5>1. d # 0 => t[Len(t)] \in Range(t)
          BY <1>6, <1>8, RangeOf
        <5> QED
          BY <1>6, <1>9, <4>1, <5>1
      <4> QED
        BY <1>11, <4>2, <4>3
    <3> QED
      BY <3>1, <3>2, <3>3
  <2>5. Append(t, n) \in Seq(Element)
    BY <1>1, <1>6
  <2>6. PICK t2 : t2 = Append(t, n)
    OBVIOUS
  <2>7. t2 \in Seq(Element) /\ Strung(t2, lines'[l], next') /\ Range(t2) = InLine(l)'
    BY <1>6, <2>2, <2>3, <2>5, <2>6
  <2> QED
    BY <1>2, <1>6, <2>4, <2>7, LinesChanged
<1>20. Gained(k, n)
  BY <1>1, <1>13, <1>15, <1>16 DEF Gained, SameOn, Extend
<1> QED
  BY <1>3, <1>17, <1>18, <1>19, <1>20 DEF HashInv

\* The i-th of a line is unlinked and freed.
LEMMA RemoveKeeps ==
  ASSUME HashInv, NEW ch, Chains(ch), NEW l \in Line, NEW i \in 1 .. Len(ch[l]),
         NEW e, e = ch[l][i], RemoveFrom(l, i - 1, e)
  PROVE  HashInv' /\ Lost(e)
<1>1. HashTypes /\ KeysInv /\ elements \subseteq Element
  BY DEF HashInv, HashTypes
<1>2. PICK t : t = ch[l]
  OBVIOUS
<1>3. /\ Strung(t, lines[l], next) /\ Range(t) = InLine(l)
      /\ t \in Seq(Element) /\ Len(t) \in Nat
      /\ \A j \in 1 .. Len(t) : t[j] \in Element /\ t[j] # NULL /\ t[j] \in Range(t)
  <2>1. Strung(t, lines[l], next) /\ Range(t) = InLine(l)
    BY <1>2 DEF Chains, LinesSpell
  <2> QED
    BY <2>1, StrungEntries
<1>4. e = t[i] /\ e \in elements /\ e \in Element /\ HashOf[KeyAt(e)] = l /\ i \in 1 .. Len(t)
  BY <1>1, <1>2, <1>3 DEF InLine
<1>5. KeyAt(e) \in Key
  BY <1>1, <1>4 DEF KeysInv, HashTypes, KeyAt
<1>6. i - 1 # 0 => /\ i # 1 /\ i - 1 \in 1 .. Len(t) /\ (i - 1) - 1 \in Nat
                   /\ Nth(l, (i - 1) - 1) = t[i - 1]
  <2>1. i - 1 # 0 => /\ i # 1 /\ i - 1 \in 1 .. Len(t) /\ (i - 1) - 1 \in Nat
                     /\ ((i - 1) - 1) + 1 = i - 1
    BY <1>3, <1>4
  <2>2. i - 1 # 0 => Nth(l, (i - 1) - 1) = EntryOf(NULL, ch[l], ((i - 1) - 1) + 1)
    BY <2>1, NthExact
  <2> QED
    BY <1>2, <2>1, <2>2 DEF EntryOf
<1>7. i - 1 = 0 <=> i = 1
  BY <1>4
<1>8. /\ lines' \in [Line -> Pointer] /\ next' \in [Element -> Pointer]
      /\ \A m \in Line : lines'[m] = IF m = l /\ i - 1 = 0 THEN next[e] ELSE lines[m]
      /\ \A x \in Element : next'[x] = IF x = e THEN NULL
                            ELSE IF i - 1 # 0 /\ x = Nth(l, (i - 1) - 1) THEN next[e] ELSE next[x]
  <2>1. /\ next[e] \in Pointer /\ NULL \in Pointer
        /\ (i - 1 # 0 => Nth(l, (i - 1) - 1) \in Element)
    BY <1>1, <1>3, <1>4, <1>6 DEF Pointer, HashTypes
  <2>2. Link(l, i - 1, next[e], e, NULL)
    BY DEF RemoveFrom
  <2>3. Linkable(l, i - 1, next[e], e, NULL)
    BY <1>4, <2>1 DEF Linkable
  <2>4. Linked(l, i - 1, next[e], e, NULL)
    BY <1>1, <2>2, <2>3, LinkEffect
  <2> QED
    BY <2>4 DEF Linked
<1>9. Shortened(t, lines[l], next, i, lines'[l], next')
  BY <1>4, <1>6, <1>7, <1>8 DEF Shortened
<1>10. /\ elements' = elements \ {e} /\ content' = content
       /\ \A x \in Element : x # e => value'[x] = value[x] /\ place'[x] = place[x]
       /\ \A j \in Key : j # KeyAt(e) => lent'[j] = lent[j]
  BY <1>1 DEF RemoveFrom, HashTypes
<1>11. \A x \in elements' : /\ x # e /\ x \in elements /\ x \in Element
                            /\ KeyAt(x) \in Key /\ KeyAt(x) # KeyAt(e)
  BY <1>1, <1>4, <1>10 DEF KeysInv, HashTypes, KeyAt
<1>12. \A x \in elements' : KeyAt(x)' = KeyAt(x) /\ value'[x] = value[x] /\ place'[x] = place[x]
  BY <1>10, <1>11 DEF KeyAt
<1>13. HashTypes'
  <2>1. elements' \subseteq Element /\ IsFiniteSet(elements')
    BY <1>1, <1>10, FS_Subset DEF HashTypes
  <2>2. /\ place' \in [Element -> Place \cup {NULL}]
        /\ value' \in [Element -> Value \cup {NULL}]
        /\ lent' \in [Key -> Place \cup {NULL}] /\ content' \in [Place -> Key]
    BY <1>1 DEF RemoveFrom, HashTypes
  <2> QED
    BY <1>8, <2>1, <2>2 DEF HashTypes
<1>14. KeysInv'
  <2>1. ASSUME NEW x \in elements'
        PROVE  place'[x] \in Place /\ value'[x] \in Value /\ lent'[KeyAt(x)'] = place'[x]
    <3>1. place[x] \in Place /\ value[x] \in Value /\ lent[KeyAt(x)] = place[x]
      BY <1>1, <1>11 DEF KeysInv
    <3> QED
      BY <1>10, <1>11, <1>12, <3>1
  <2>2. \A x, y \in elements' : KeyAt(x)' = KeyAt(y)' => x = y
    BY <1>1, <1>11, <1>12 DEF KeysInv
  <2>3. ASSUME NEW x \in Element \ elements' PROVE next'[x] = NULL
    <3>1. CASE x = e
      BY <1>8, <3>1
    <3>2. CASE x # e
      <4>1. x \notin elements /\ next[x] = NULL
        BY <1>1, <1>10, <3>2 DEF KeysInv
      <4>2. ~(i - 1 # 0 /\ x = Nth(l, (i - 1) - 1))
        BY <1>3, <1>6, <4>1 DEF InLine
      <4> QED
        BY <1>8, <3>2, <4>1, <4>2
    <3> QED
      BY <3>1, <3>2
  <2> QED
    BY <2>1, <2>2, <2>3 DEF KeysInv
<1>15. LinesInv'
  <2>1. PICK t2 : t2 = RemoveAt(t, i)
    OBVIOUS
  <2>2. Strung(t2, lines'[l], next') /\ Range(t2) = Range(t) \ {t[i]}
    BY <1>3, <1>4, <1>9, <2>1, StrungRemoved
  <2>3. InLine(l)' = InLine(l) \ {e}
    BY <1>10, <1>11, <1>12 DEF InLine
  <2>4. ASSUME NEW m \in Line, m # l
        PROVE  /\ lines'[m] = lines[m] /\ InLine(m)' = InLine(m)
               /\ \A x \in InLine(m) : next'[x] = next[x]
    <3>1. lines'[m] = lines[m]
      BY <1>8, <2>4
    <3>2. InLine(m)' = InLine(m)
      BY <1>4, <1>10, <1>11, <1>12, <2>4 DEF InLine
    <3>3. ASSUME NEW x \in InLine(m) PROVE next'[x] = next[x]
      <4>1. x \in elements /\ x \in Element /\ x \notin InLine(l)
        BY <1>1, <2>4, <3>3 DEF InLine
      <4>2. x # e /\ ~(i - 1 # 0 /\ x = Nth(l, (i - 1) - 1))
        BY <1>3, <1>4, <1>6, <4>1
      <4> QED
        BY <1>8, <4>1, <4>2
    <3> QED
      BY <3>1, <3>2, <3>3
  <2>5. t2 \in Seq(Element) /\ Range(t2) = InLine(l)'
    BY <1>3, <1>4, <2>2, <2>3 DEF Strung
  <2> QED
    BY <2>2, <2>4, <2>5, LinesChanged
<1>16. Lost(e)
  <2>1. elements \ {e} = elements'
    BY <1>10
  <2> QED
    BY <1>4, <1>12, <2>1 DEF Lost, SameOn
<1> QED
  BY <1>13, <1>14, <1>15, <1>16 DEF HashInv

\* Where the walk down its line for a key, or for an element, stops.
AtEntry(ch, l, found, j) ==
  /\ found = {ch[l][j]} /\ Depth(l, found) = j - 1
  /\ Nth(l, Depth(l, found)) = ch[l][j]

LEMMA DepthOfEntry ==
  ASSUME HashTypes, NEW ch, Chains(ch), NEW l \in Line, NEW j \in 1 .. Len(ch[l])
  PROVE  AtEntry(ch, l, {ch[l][j]}, j)
<1>1. PICK s : s = ch[l]
  OBVIOUS
<1>2. s \in Seq(Element) /\ Len(s) \in Nat /\ NoRepeat(s)
  BY <1>1, StrungEntries DEF Chains, LinesSpell
<1>3. j \in 1 .. Len(s) + 1 /\ EntryOf(NULL, s, j) = s[j]
  BY <1>1, <1>2 DEF EntryOf
<1>4. \A i \in 1 .. j - 1 : s[i] \notin {s[j]}
  BY <1>1, <1>2 DEF NoRepeat
<1>5. StopsAt(s, {s[j]}, j)
  BY <1>3, <1>4 DEF StopsAt
<1>6. PICK found : found = {s[j]}
  OBVIOUS
<1>7. StopsAt(ch[l], found, j)
  BY <1>1, <1>5, <1>6
<1>8. Depth(l, found) = j - 1 /\ Nth(l, Depth(l, found)) = EntryOf(NULL, ch[l], j)
  BY <1>7, DepthExact
<1> QED
  BY <1>1, <1>3, <1>6, <1>8 DEF AtEntry

LEMMA DepthOfNone ==
  ASSUME HashTypes, NEW ch, Chains(ch), NEW l \in Line
  PROVE  Nth(l, Depth(l, {})) = NULL
<1>1. ch[l] \in Seq(Element)
  BY DEF Chains
<1>2. PICK j : j = Len(ch[l]) + 1
  OBVIOUS
<1>3. j \in 1 .. Len(ch[l]) + 1 /\ EntryOf(NULL, ch[l], j) = NULL
  BY <1>1, <1>2 DEF EntryOf
<1>4. PICK found : found = {}
  OBVIOUS
<1>5. StopsAt(ch[l], found, j)
  BY <1>3, <1>4 DEF StopsAt
<1>6. Nth(l, Depth(l, found)) = EntryOf(NULL, ch[l], j)
  BY <1>5, DepthExact
<1> QED
  BY <1>3, <1>4, <1>6

\* cntHash_put gives an element a new value, or the hash a new element.
LEMMA PutKeeps ==
  ASSUME HashInv, NEW s \in Place, NEW w \in Value, Put(s, w)
  PROVE  HashInv' /\ HashStep
<1>1. HashTypes /\ KeysInv /\ elements \subseteq Element
  BY DEF HashInv, HashTypes
<1>2. PICK ch : Chains(ch)
  BY DEF HashInv, LinesInv, Chains
<1>3. PICK k : k = content[s]
  OBVIOUS
<1>4. PICK l : l = HashOf[k]
  OBVIOUS
<1>5. k \in Key /\ l \in Line
  BY <1>1, <1>3, <1>4, HashAssumption DEF HashTypes, Line
<1>6. PICK d : d = Depth(l, Matching(k))
  OBVIOUS
<1>7. /\ lent' = [lent EXCEPT ![k] = s] /\ content' = content
      /\ \/ /\ Nth(l, d) # NULL
            /\ value' = [value EXCEPT ![Nth(l, d)] = w]
            /\ place' = [place EXCEPT ![Nth(l, d)] = s]
            /\ UNCHANGED <<elements, lines, next>>
         \/ /\ Nth(l, d) = NULL
            /\ \E n \in Element \ elements :
                 /\ elements' = elements \cup {n}
                 /\ Link(l, d, n, n, NULL)
                 /\ value' = [value EXCEPT ![n] = w]
                 /\ place' = [place EXCEPT ![n] = s]
  BY <1>3, <1>4, <1>6 DEF Put, PlaceAfterUpdate
<1>8. CASE Matching(k) = {}
  <2>1. Nth(l, d) = NULL
    BY <1>1, <1>2, <1>5, <1>6, <1>8, DepthOfNone
  <2>2. PICK n \in Element \ elements :
          /\ elements' = elements \cup {n}
          /\ Link(l, d, n, n, NULL)
          /\ value' = [value EXCEPT ![n] = w]
          /\ place' = [place EXCEPT ![n] = s]
    BY <1>7, <2>1
  <2>3. Extend(k, n, s, w)
    BY <1>3, <1>4, <1>6, <1>7, <1>8, <2>2 DEF Extend
  <2>4. HashInv' /\ Gained(k, n)
    BY <2>3, ExtendKeeps
  <2> QED
    BY <1>5, <2>4 DEF HashStep
<1>9. ASSUME NEW m \in Matching(k) PROVE HashInv' /\ HashStep
  <2>1. m \in elements /\ KeyAt(m) = k /\ Matching(k) = {m} /\ \E j \in 1 .. Len(ch[l]) : ch[l][j] = m
    BY <1>1, <1>2, <1>4, <1>5, MatchPlace
  <2>2. PICK j \in 1 .. Len(ch[l]) : ch[l][j] = m
    BY <2>1
  <2>3. AtEntry(ch, l, {ch[l][j]}, j)
    BY <1>1, <1>2, <1>5, DepthOfEntry
  <2>4. Nth(l, d) = m
    BY <1>6, <2>1, <2>2, <2>3 DEF AtEntry
  <2>5. m # NULL /\ m \in Element
    BY <1>1, <2>1, HashAssumption
  <2>6. /\ value' = [value EXCEPT ![m] = w] /\ place' = [place EXCEPT ![m] = s]
        /\ UNCHANGED <<elements, lines, next>>
    BY <1>7, <2>4, <2>5
  <2>7. /\ value' \in [Element -> Value \cup {NULL}] /\ value'[m] \in Value
        /\ \A x \in Element : x # m => value'[x] = value[x]
    BY <1>1, <2>5, <2>6 DEF HashTypes
  <2>8. Repoint(m, s)
    BY <1>3, <1>7, <2>1, <2>6, <2>7 DEF Repoint
  <2>9. HashInv' /\ Updated(m)
    BY <2>8, RepointKeeps
  <2> QED
    BY <2>5, <2>9 DEF HashStep
<1> QED
  BY <1>8, <1>9

LEMMA MoveKeyKeeps ==
  ASSUME HashInv, NEW e \in elements, NEW s \in Place, MoveKey(e, s)
  PROVE  HashInv' /\ HashStep
<1>1. HashTypes /\ KeysInv /\ e \in Element
  BY DEF HashInv, HashTypes
<1>2. Repoint(e, s)
  BY <1>1 DEF MoveKey, Repoint, KeysInv, HashTypes
<1>3. HashInv' /\ Updated(e)
  BY <1>2, RepointKeeps
<1> QED
  BY <1>1, <1>3 DEF HashStep

\* Both removals unlink the element they were asked for, which is in its line.
LEMMA RemovalsKeep ==
  ASSUME HashInv, NEW e \in elements, RemoveKey(KeyAt(e)) \/ RemoveByAddress(e)
  PROVE  HashInv' /\ Lost(e)
<1>1. HashTypes /\ KeysInv /\ e \in Element
  BY DEF HashInv, HashTypes
<1>2. PICK ch : Chains(ch)
  BY DEF HashInv, LinesInv, Chains
<1>3. PICK k : k = KeyAt(e)
  OBVIOUS
<1>4. PICK l : l = HashOf[k]
  OBVIOUS
<1>5. k \in Key /\ l \in Line /\ e \in Matching(k)
  BY <1>1, <1>3, <1>4, HashAssumption DEF HashTypes, KeysInv, KeyAt, Matching, Line
<1>6. Matching(k) = {e} /\ \E j \in 1 .. Len(ch[l]) : ch[l][j] = e
  BY <1>1, <1>2, <1>4, <1>5, MatchPlace
<1>7. PICK j \in 1 .. Len(ch[l]) : ch[l][j] = e
  BY <1>6
<1>8. AtEntry(ch, l, {ch[l][j]}, j)
  BY <1>1, <1>2, <1>5, DepthOfEntry
<1>9. Depth(l, {e}) = j - 1
  BY <1>7, <1>8 DEF AtEntry
<1>10. FoundAs(k)
  BY <1>5, FindExact
<1>11. Find(k) = e
  BY <1>6, <1>10 DEF FoundAs
<1>12. RemoveFrom(l, j - 1, e)
  BY <1>3, <1>4, <1>6, <1>9, <1>11 DEF RemoveKey, RemoveByAddress
<1> QED
  BY <1>2, <1>5, <1>7, <1>12, RemoveKeeps

-----------------------------------------------------------------------------
LEMMA HashInvInit == HashInit => HashInv
<1> SUFFICES ASSUME HashInit PROVE HashInv
  OBVIOUS
<1>1. /\ elements = {} /\ lines = [l \in Line |-> NULL]
      /\ next = [e \in Element |-> NULL] /\ place = [e \in Element |-> NULL]
      /\ value = [e \in Element |-> NULL] /\ lent = [k \in Key |-> NULL]
      /\ content \in [Place -> Key]
  BY DEF HashInit
<1>2. HashTypes
  BY <1>1, FS_EmptySet DEF HashTypes, Pointer
<1>3. KeysInv
  BY <1>1 DEF KeysInv
<1>4. PICK ch : ch = [l \in Line |-> <<>>]
  OBVIOUS
<1>5. ch \in [Line -> Seq(Element)] /\ \A l \in Line : ch[l] = <<>>
  BY <1>4
<1>6. Strung(<<>>, NULL, next)
  BY DEF Strung, NoRepeat, EntryOf
<1>7. LinesSpell(ch, lines, next)
  BY <1>1, <1>5, <1>6 DEF LinesSpell
<1>8. Range(<<>>) = {}
  BY DEF Range
<1>9. \A l \in Line : Range(ch[l]) = InLine(l)
  BY <1>1, <1>5, <1>8 DEF InLine
<1> QED
  BY <1>2, <1>3, <1>5, <1>7, <1>9 DEF HashInv, LinesInv

\* When nothing of the hash changes.
LEMMA SameKeeps ==
  ASSUME HashInv, UNCHANGED hashVars
  PROVE  HashInv' /\ HashStep
<1>1. /\ elements' = elements /\ lines' = lines /\ next' = next /\ place' = place
      /\ value' = value /\ content' = content /\ lent' = lent
  BY DEF hashVars
<1>2. HashTypes' /\ KeysInv'
  BY <1>1 DEF HashInv, HashTypes, KeysInv, KeyAt
<1>3. \A x \in elements : KeyAt(x)' = KeyAt(x)
  BY <1>1 DEF KeyAt
<1>4. LinesInv'
  BY <1>1, <1>3, LinesKept
<1> QED
  BY <1>1, <1>2, <1>3, <1>4 DEF HashInv, HashStep, Kept, SameOn

LEMMA HashInvStep ==
  ASSUME HashInv, [CursorNext]_<<hashVars, cursorVars, fetched>>
  PROVE  HashInv' /\ HashStep
<1>1. ASSUME NEW s \in Place, NEW w \in Value, PutAndWalk(s, w)
      PROVE  HashInv' /\ HashStep
  BY <1>1, PutKeeps DEF PutAndWalk
<1>2. ASSUME NEW e \in elements, RemoveAndWalk(e) PROVE HashInv' /\ HashStep
  <2>1. HashInv' /\ Lost(e)
    BY <1>2, RemovalsKeep DEF RemoveAndWalk
  <2>2. e \in Element
    BY DEF HashInv, HashTypes
  <2> QED
    BY <2>1, <2>2 DEF HashStep
<1>3. CASE ClearAndWalk
  BY <1>3, ClearKeeps DEF ClearAndWalk, HashStep, HashInv
<1>4. ASSUME NEW s \in Place, NEW k \in Key, Scribble(s, k) PROVE HashInv' /\ HashStep
  BY <1>4, ScribbleKeeps DEF HashStep
<1>5. ASSUME NEW e \in elements, NEW s \in Place, MoveKey(e, s) PROVE HashInv' /\ HashStep
  BY <1>5, MoveKeyKeeps
<1>6. CASE Reset \/ Each \/ IsLast \/ UNCHANGED <<hashVars, cursorVars, fetched>>
  <2>1. UNCHANGED hashVars
    BY <1>6 DEF Reset, Each, IsLast, Shelf!Start, hashVars
  <2> QED
    BY <2>1, SameKeeps
<1> QED
  BY <1>1, <1>2, <1>3, <1>4, <1>5, <1>6 DEF CursorNext

\* The invariant from which the theorems follow.
THEOREM HashInvariant == CursorSpec => []HashInv
<1>1. CursorInit => HashInv
  BY HashInvInit DEF CursorInit
<1>2. HashInv /\ [CursorNext]_<<hashVars, cursorVars, fetched>> => HashInv'
  BY HashInvStep
<1> QED
  BY <1>1, <1>2, PTL DEF CursorSpec

\* AllFound: every element is found by its own key.
THEOREM HashAllFound == CursorSpec => []AllFound
<1>1. HashInv => AllFound
  <2> SUFFICES ASSUME HashInv, NEW e \in elements PROVE Find(KeyAt(e)) = e
    BY DEF AllFound
  <2>1. HashTypes /\ KeysInv
    BY DEF HashInv
  <2>2. KeyAt(e) \in Key /\ e \in Matching(KeyAt(e)) /\ Matching(KeyAt(e)) = {e}
    BY <2>1 DEF HashTypes, KeysInv, KeyAt, Matching
  <2>3. FoundAs(KeyAt(e))
    BY <2>2, FindExact
  <2> QED
    BY <2>2, <2>3 DEF FoundAs
<1> QED
  BY <1>1, HashInvariant, PTL

-----------------------------------------------------------------------------
(***************************************************************************)
(* The hash is a map.                                                      *)
(***************************************************************************)
Entry == [at : Element, value : Value]

\* What ImplementsMap takes for the map.
Mapping == [k \in Key |-> LET e == Find(k)
                          IN  IF e = NULL THEN NULL ELSE [at |-> e, value |-> value[e]]]

Entries(m) ==
  /\ m \in [Key -> Entry \cup {NULL}]
  /\ \A k \in Key : /\ Matching(k) = {} => m[k] = NULL
                    /\ \A e \in Matching(k) : m[k] = [at |-> e, value |-> value[e]]

LEMMA MappingExact ==
  ASSUME HashInv
  PROVE  Entries(Mapping)
<1>1. HashTypes /\ KeysInv /\ elements \subseteq Element
  BY DEF HashInv, HashTypes
<1>2. ASSUME NEW k \in Key
      PROVE  /\ Matching(k) = {} => Mapping[k] = NULL
             /\ \A e \in Matching(k) : Mapping[k] = [at |-> e, value |-> value[e]]
             /\ Mapping[k] \in Entry \cup {NULL}
  <2>1. Mapping[k] = IF Find(k) = NULL THEN NULL
                     ELSE [at |-> Find(k), value |-> value[Find(k)]]
    BY DEF Mapping
  <2>2. FoundAs(k)
    BY FindExact
  <2>3. CASE Matching(k) = {}
    BY <2>1, <2>2, <2>3 DEF FoundAs
  <2>4. ASSUME NEW e \in Matching(k)
        PROVE  Mapping[k] = [at |-> e, value |-> value[e]] /\ Mapping[k] \in Entry
    <3>1. e \in elements /\ e \in Element /\ Matching(k) = {e}
      BY <1>1 DEF Matching, KeysInv
    <3>2. Find(k) = e /\ e # NULL /\ value[e] \in Value
      BY <1>1, <2>2, <3>1, HashAssumption DEF FoundAs, KeysInv
    <3> QED
      BY <2>1, <3>1, <3>2 DEF Entry
  <2> QED
    BY <2>3, <2>4
<1>3. Mapping = [k \in Key |-> Mapping[k]]
  BY DEF Mapping
<1> HIDE DEF Mapping
<1> QED
  BY <1>2, <1>3 DEF Entries

LEMMA MappingStep ==
  HashTypes /\ KeysInv /\ HashStep /\ Entries(Mapping) /\ Entries(Mapping)'
    => [Map!MapNext]_Mapping
<1> SUFFICES ASSUME HashTypes, KeysInv, HashStep, Entries(Mapping), Entries(Mapping)'
             PROVE  [Map!MapNext]_Mapping
  OBVIOUS
<1>1. PICK m : m = Mapping
  OBVIOUS
<1>2. PICK m2 : m2 = Mapping'
  OBVIOUS
<1>3. /\ m \in [Key -> Entry \cup {NULL}]
      /\ \A k \in Key : /\ Matching(k) = {} => m[k] = NULL
                        /\ \A e \in Matching(k) : m[k] = [at |-> e, value |-> value[e]]
  BY <1>1 DEF Entries
<1>4. /\ m2 \in [Key -> Entry \cup {NULL}]
      /\ \A k \in Key : /\ Matching(k)' = {} => m2[k] = NULL
                        /\ \A e \in Matching(k)' : m2[k] = [at |-> e, value |-> value'[e]]
  BY <1>2 DEF Entries
<1>5. elements \subseteq Element /\ \A e \in elements : KeyAt(e) \in Key /\ e \in Element
  BY DEF HashTypes, KeysInv, KeyAt
<1>6. \A k \in Key : \A e : e \in Matching(k) <=> e \in elements /\ KeyAt(e) = k
  BY DEF Matching
<1>7. \A k \in Key : \A e : e \in Matching(k)' <=> e \in elements' /\ KeyAt(e)' = k
  BY DEF Matching
<1>8. ASSUME NEW k \in Key, m2[k] # m[k], \A j \in Key : j # k => m2[j] = m[j]
      PROVE  m2 = [m EXCEPT ![k] = m2[k]]
  BY <1>3, <1>4, <1>8
<1>9. ASSUME NEW k \in Key, \A e : e \in Matching(k)' <=> e \in Matching(k),
             \A e \in Matching(k) : value'[e] = value[e]
      PROVE  m2[k] = m[k]
  BY <1>3, <1>4, <1>9
<1>10. /\ Map!MapNext = (Map!Forget \/ \E k \in Key : Map!Add(k) \/ Map!Update(k) \/ Map!Drop(k))
       /\ Map!Forget = (m2 = [k \in Key |-> NULL])
  BY <1>2 DEF Map!MapNext, Map!Forget, Mapping
<1>11. /\ Map!Free = Element \ {m[k].at : k \in {j \in Key : m[j] # NULL}}
       /\ \A k \in Key : /\ Map!Drop(k) = (m[k] # NULL /\ m2[k] = NULL /\ m2 = [m EXCEPT ![k] = m2[k]])
                         /\ Map!Update(k) = (/\ m[k] # NULL
                                             /\ m2[k] \in [at : {m[k].at}, value : Value]
                                             /\ m2 = [m EXCEPT ![k] = m2[k]])
                         /\ Map!Add(k) = (/\ m[k] = NULL
                                          /\ m2[k] \in [at : Map!Free, value : Value]
                                          /\ m2 = [m EXCEPT ![k] = m2[k]])
  BY <1>1, <1>2 DEF Map!Free, Map!Drop, Map!Update, Map!Add, Map!Becomes, Mapping
<1>12. \A r : r \in Entry => r # NULL
  BY HashAssumption DEF Entry
<1>13. CASE Kept
  <2>1. \A k \in Key : \A e : e \in Matching(k)' <=> e \in Matching(k)
    BY <1>6, <1>7, <1>13 DEF Kept, SameOn
  <2>2. \A k \in Key : \A e \in Matching(k) : value'[e] = value[e]
    BY <1>6, <1>13 DEF Kept, SameOn
  <2>3. \A k \in Key : m2[k] = m[k]
    BY <1>9, <2>1, <2>2
  <2>4. m2 = m
    BY <1>3, <1>4, <2>3
  <2> QED
    BY <1>1, <1>2, <2>4
<1>14. CASE elements' = {}
  <2>1. \A k \in Key : Matching(k)' = {}
    BY <1>7, <1>14
  <2>2. m2 = [k \in Key |-> NULL]
    BY <1>4, <2>1
  <2> QED
    BY <1>10, <2>2
<1>15. ASSUME NEW e, Updated(e) PROVE Map!MapNext
  <2>1. e \in elements /\ e \in Element /\ elements' = elements /\ KeyAt(e)' = KeyAt(e)
        /\ value'[e] \in Value /\ value[e] \in Value
        /\ \A x \in elements \ {e} : KeyAt(x)' = KeyAt(x) /\ value'[x] = value[x]
    BY <1>5, <1>15 DEF Updated, SameOn, KeysInv
  <2>2. PICK k \in Key : k = KeyAt(e)
    BY <1>5, <2>1
  <2>3. ASSUME NEW j \in Key, j # k PROVE m2[j] = m[j]
    <3>1. \A x : x \in Matching(j)' <=> x \in Matching(j)
      BY <1>6, <1>7, <2>1, <2>2, <2>3
    <3>2. \A x \in Matching(j) : value'[x] = value[x]
      BY <1>6, <2>1, <2>2, <2>3
    <3> QED
      BY <1>9, <3>1, <3>2
  <2>4. m[k] = [at |-> e, value |-> value[e]] /\ m2[k] = [at |-> e, value |-> value'[e]]
    BY <1>3, <1>4, <1>6, <1>7, <2>1, <2>2
  <2>5. m[k] \in Entry /\ m[k].at = e
    BY <2>1, <2>4 DEF Entry
  <2>6. m2[k] \in [at : {m[k].at}, value : Value] /\ m[k] # NULL
    BY <1>12, <2>1, <2>4, <2>5
  <2>7. m2 = [m EXCEPT ![k] = m2[k]]
    BY <1>3, <1>4, <2>3
  <2> QED
    BY <1>10, <1>11, <2>6, <2>7
<1>16. ASSUME NEW e, Lost(e) PROVE Map!MapNext
  <2>1. e \in elements /\ e \in Element /\ elements' = elements \ {e} /\ value[e] \in Value
        /\ \A x \in elements \ {e} : KeyAt(x)' = KeyAt(x) /\ value'[x] = value[x]
    BY <1>5, <1>16 DEF Lost, SameOn, KeysInv
  <2>2. PICK k \in Key : k = KeyAt(e)
    BY <1>5, <2>1
  <2>3. ASSUME NEW j \in Key, j # k PROVE m2[j] = m[j]
    <3>1. \A x : x \in Matching(j)' <=> x \in Matching(j)
      BY <1>6, <1>7, <2>1, <2>2, <2>3
    <3>2. \A x \in Matching(j) : value'[x] = value[x]
      BY <1>6, <2>1, <2>2, <2>3
    <3> QED
      BY <1>9, <3>1, <3>2
  <2>4. m[k] = [at |-> e, value |-> value[e]]
    BY <1>3, <1>6, <2>1, <2>2
  <2>5. m[k] \in Entry /\ m[k] # NULL
    BY <1>12, <2>1, <2>4 DEF Entry
  <2>6. \A x : x \notin Matching(k)'
    <3>1. \A x \in elements : KeyAt(x) = KeyAt(e) => x = e
      BY <2>1 DEF KeysInv
    <3> QED
      BY <1>7, <2>1, <2>2, <3>1
  <2>7. m2[k] = NULL
    BY <1>4, <2>6
  <2>8. m2 = [m EXCEPT ![k] = m2[k]]
    BY <1>3, <1>4, <2>3
  <2> QED
    BY <1>10, <1>11, <2>5, <2>7, <2>8
<1>17. ASSUME NEW k \in Key, NEW n, Gained(k, n) PROVE Map!MapNext
  <2>1. /\ n \in Element /\ n \notin elements /\ elements' = elements \cup {n}
        /\ Matching(k) = {} /\ KeyAt(n)' = k /\ value'[n] \in Value
        /\ \A x \in elements : KeyAt(x)' = KeyAt(x) /\ value'[x] = value[x]
    BY <1>17 DEF Gained, SameOn
  <2>2. ASSUME NEW j \in Key, j # k PROVE m2[j] = m[j]
    <3>1. \A x : x \in Matching(j)' <=> x \in Matching(j)
      BY <1>6, <1>7, <2>1, <2>2
    <3>2. \A x \in Matching(j) : value'[x] = value[x]
      BY <1>6, <2>1
    <3> QED
      BY <1>9, <3>1, <3>2
  <2>3. m[k] = NULL /\ m2[k] = [at |-> n, value |-> value'[n]]
    BY <1>3, <1>4, <1>7, <2>1
  <2>4. ASSUME NEW j \in Key, m[j] # NULL PROVE m[j].at # n
    <3>1. PICK x : x \in Matching(j)
      BY <1>3, <2>4
    <3>2. m[j] = [at |-> x, value |-> value[x]] /\ x \in elements
      BY <1>3, <1>6, <3>1
    <3> QED
      BY <2>1, <3>2
  <2>5. n \in Map!Free
    BY <1>11, <2>1, <2>4
  <2>6. m2[k] \in [at : Map!Free, value : Value]
    BY <2>1, <2>3, <2>5
  <2>7. m2 = [m EXCEPT ![k] = m2[k]]
    BY <1>3, <1>4, <2>2
  <2> QED
    BY <1>10, <1>11, <2>3, <2>6, <2>7
<1> QED
  BY <1>13, <1>14, <1>15, <1>16, <1>17 DEF HashStep

(***************************************************************************)
(* What cntHash_get finds for each key is the map of hash.h: an operation  *)
(* adds, updates or drops one key, or all of them at once, keeps the       *)
(* address of every other value, and a new value has an address of its     *)
(* own.                                                                    *)
(***************************************************************************)
THEOREM HashImplementsMap == CursorSpec => ImplementsMap
<1>1. CursorInit => Map!MapInit
  <2> SUFFICES ASSUME CursorInit PROVE Mapping = [k \in Key |-> NULL]
    BY DEF Map!MapInit, Mapping
  <2>1. HashInv /\ elements = {}
    BY HashInvInit DEF CursorInit, HashInit
  <2>2. Entries(Mapping)
    BY <2>1, MappingExact
  <2>3. \A k \in Key : Mapping[k] = NULL
    BY <2>1, <2>2 DEF Entries, Matching
  <2>4. Mapping = [k \in Key |-> Mapping[k]]
    BY DEF Mapping
  <2> QED
    BY <2>3, <2>4
<1>2. HashInv => HashTypes /\ KeysInv /\ Entries(Mapping)
  BY MappingExact DEF HashInv
<1>3. HashInv /\ [CursorNext]_<<hashVars, cursorVars, fetched>> => HashInv' /\ HashStep
  BY HashInvStep
<1>4. HashTypes /\ KeysInv /\ HashStep /\ Entries(Mapping) /\ Entries(Mapping)'
        => [Map!MapNext]_Mapping
  BY MappingStep
<1>5. [Map!MapNext]_Mapping
        => [Map!MapNext]_[k \in Key |-> LET e == Find(k)
                          IN  IF e = NULL THEN NULL ELSE [at |-> e, value |-> value[e]]]
  BY DEF Mapping
<1> QED
  BY <1>1, <1>2, <1>3, <1>4, <1>5, HashInvariant, PTL DEF CursorSpec, ImplementsMap, Map!MapSpec

-----------------------------------------------------------------------------
(***************************************************************************)
(* The walk of the keys.  An element has one key and no two have the same, *)
(* so a walk that is one of elements is one of keys.                       *)
(***************************************************************************)
Mapped(s, f) == [i \in DOMAIN s |-> f[s[i]]]

OneToOne(f, S) == \A x, y \in S : f[x] = f[y] => x = y

LEMMA MappedExact ==
  ASSUME NEW S, NEW s \in Seq(S), NoRepeat(s), NEW f, OneToOne(f, S)
  PROVE  /\ Len(Mapped(s, f)) = Len(s) /\ NoRepeat(Mapped(s, f))
         /\ Mapped(s, f) \in Seq({f[x] : x \in S})
         /\ \A i \in 1 .. Len(s) : Mapped(s, f)[i] = f[s[i]]
         /\ Range(Mapped(s, f)) = {f[x] : x \in Range(s)}
<1> DEFINE m == Mapped(s, f)
<1>1. Len(s) \in Nat /\ DOMAIN s = 1 .. Len(s) /\ \A i \in 1 .. Len(s) : s[i] \in S
  OBVIOUS
<1>2. m = [i \in 1 .. Len(s) |-> f[s[i]]]
  BY <1>1 DEF Mapped
<1>3. /\ m \in Seq({f[x] : x \in S}) /\ Len(m) = Len(s) /\ DOMAIN m = 1 .. Len(s)
      /\ \A i \in 1 .. Len(s) : m[i] = f[s[i]]
  BY <1>1, <1>2
<1> HIDE DEF m
<1>4. NoRepeat(m)
  BY <1>1, <1>3 DEF NoRepeat, OneToOne
<1>5. Range(m) = {f[x] : x \in Range(s)}
  BY <1>1, <1>3 DEF Range
<1> QED
  BY <1>3, <1>4, <1>5 DEF m

LEMMA MappedRange ==
  ASSUME NEW S, NEW s \in Seq(S), NEW f
  PROVE  Range(Mapped(s, f)) = {f[x] : x \in Range(s)}
BY DEF Range, Mapped

LEMMA MappedSame ==
  ASSUME NEW s, NEW f, NEW g, \A i \in DOMAIN s : g[s[i]] = f[s[i]]
  PROVE  Mapped(s, g) = Mapped(s, f)
BY DEF Mapped

LEMMA MappedAppend ==
  ASSUME NEW S, NEW s \in Seq(S), NEW e \in S, NEW f
  PROVE  Mapped(Append(s, e), f) = Append(Mapped(s, f), f[e])
<1> DEFINE d == Append(s, e)
           m == Mapped(s, f)
           T == {f[x] : x \in S}
<1>1. /\ Len(s) \in Nat /\ DOMAIN s = 1 .. Len(s) /\ \A i \in 1 .. Len(s) : s[i] \in S
      /\ DOMAIN d = 1 .. Len(s) + 1 /\ d[Len(s) + 1] = e
      /\ \A i \in 1 .. Len(s) : d[i] = s[i]
  OBVIOUS
<1>2. m = [i \in 1 .. Len(s) |-> f[s[i]]] /\ Mapped(d, f) = [i \in 1 .. Len(s) + 1 |-> f[d[i]]]
  BY <1>1 DEF Mapped
<1>3. m \in Seq(T) /\ Len(m) = Len(s) /\ \A i \in 1 .. Len(s) : m[i] = f[s[i]]
  BY <1>1, <1>2
<1>4. f[e] \in T
  OBVIOUS
<1> HIDE DEF d, m, T
<1>5. /\ Append(m, f[e]) \in Seq(T) /\ DOMAIN Append(m, f[e]) = 1 .. Len(s) + 1
      /\ Append(m, f[e])[Len(s) + 1] = f[e]
      /\ \A i \in 1 .. Len(s) : Append(m, f[e])[i] = m[i]
  BY <1>1, <1>3, <1>4
<1>6. \A i \in 1 .. Len(s) + 1 : i \in 1 .. Len(s) \/ i = Len(s) + 1
  BY <1>1
<1>7. \A i \in 1 .. Len(s) + 1 : Mapped(d, f)[i] = Append(m, f[e])[i]
  BY <1>1, <1>2, <1>3, <1>5, <1>6
<1>8. DOMAIN Mapped(d, f) = 1 .. Len(s) + 1
  BY <1>2
<1> QED
  BY <1>2, <1>5, <1>7, <1>8 DEF d, m

LEMMA MappedRemove ==
  ASSUME NEW S, NEW s \in Seq(S), NoRepeat(s), NEW f, OneToOne(f, S), NEW e \in S
  PROVE  Mapped(RemoveFirst(s, e), f) = RemoveFirst(Mapped(s, f), f[e])
<1> DEFINE m == Mapped(s, f)
           T == {f[x] : x \in S}
<1>4. /\ Len(m) = Len(s) /\ NoRepeat(m) /\ m \in Seq(T)
      /\ \A i \in 1 .. Len(s) : m[i] = f[s[i]]
  BY MappedExact
<1> HIDE DEF m, T
<1>5. Len(s) \in Nat /\ \A i \in 1 .. Len(s) : s[i] \in S
  OBVIOUS
<1>1. /\ Len(m) = Len(s) /\ NoRepeat(m) /\ m \in Seq(T) /\ Len(s) \in Nat
      /\ \A i \in 1 .. Len(s) : m[i] = f[s[i]] /\ s[i] \in S
  BY <1>4, <1>5
<1>2. CASE \E i \in 1 .. Len(s) : s[i] = e
  <2>1. PICK i \in 1 .. Len(s) : s[i] = e
    BY <1>2
  <2>2. RemoveFirst(s, e) = RemoveAt(s, i) /\ RemoveFirst(m, f[e]) = RemoveAt(m, i)
    BY <1>1, <2>1, RemoveFirstIs
  <2>3. PICK d, n : d = RemoveAt(s, i) /\ n = RemoveAt(m, i)
    OBVIOUS
  <2>4. /\ d \in Seq(S) /\ Len(d) = Len(s) - 1 /\ RemovedAt(s, Len(s), i, d)
        /\ n \in Seq(T) /\ Len(n) = Len(s) - 1 /\ RemovedAt(m, Len(s), i, n)
    BY <1>1, <2>3, RemoveAtExact
  <2>5. \A j \in 1 .. Len(s) - 1 : /\ d[j] = IF j < i THEN s[j] ELSE s[j + 1]
                                   /\ n[j] = IF j < i THEN m[j] ELSE m[j + 1]
                                   /\ j \in 1 .. Len(s) /\ j + 1 \in 1 .. Len(s)
    BY <1>1, <2>4 DEF RemovedAt
  <2>6. \A j \in 1 .. Len(s) - 1 : n[j] = f[d[j]]
    BY <1>1, <2>5
  <2>7. DOMAIN d = 1 .. Len(s) - 1 /\ n = [j \in 1 .. Len(s) - 1 |-> n[j]]
    BY <1>1, <2>4
  <2>8. n = Mapped(d, f)
    BY <2>6, <2>7 DEF Mapped
  <2> QED
    BY <2>2, <2>3, <2>8 DEF m
<1>3. CASE ~ \E i \in 1 .. Len(s) : s[i] = e
  <2>1. ~ \E i \in 1 .. Len(m) : m[i] = f[e]
    BY <1>1, <1>3 DEF OneToOne
  <2> QED
    BY <2>1, <1>3 DEF RemoveFirst, m
<1> QED
  BY <1>2, <1>3

\* The walk is of elements that are there.
WalkSeen == /\ seen \in Seq(Element) /\ NoRepeat(seen) /\ Range(seen) \subseteq elements
            /\ due \subseteq elements

KeysSeen == [i \in DOMAIN seen |-> KeyAt(seen[i])]

\* What becomes of the keys when those of the elements that stay are the same.
KeysStay == \A x \in elements \cap elements' : KeyAt(x)' = KeyAt(x)

LEMMA ShelfOperators ==
  /\ Shelf!Unseen = elements \ Range(seen) /\ Shelf!Unseen' = elements' \ Range(seen')
  /\ \A v : Shelf!RemoveFirst(seen, v) = RemoveFirst(seen, v)
<1>1. Shelf!Unseen = elements \ Range(seen) /\ Shelf!Unseen' = elements' \ Range(seen')
  BY DEF Shelf!Unseen, Shelf!Range, Range
<1>2. ASSUME NEW v PROVE Shelf!RemoveFirst(seen, v) = RemoveFirst(seen, v)
  BY DEF Shelf!RemoveFirst, RemoveFirst, Shelf!RemoveAt, RemoveAt,
         Shelf!SelectInSeq, SelectInSeq, Shelf!Min, Min
<1> QED
  BY <1>1, <1>2

LEMMA KeysOperators ==
  /\ Keys!Unseen = KeysOf(elements) \ Range(KeysSeen)
  /\ Keys!Unseen' = KeysOf(elements)' \ Range(KeysSeen')
  /\ \A k : Keys!RemoveFirst(KeysSeen, k) = RemoveFirst(KeysSeen, k)
<1>1. Keys!Unseen = KeysOf(elements) \ Range(KeysSeen)
  BY DEF Keys!Unseen, Keys!Range, Range, KeysSeen
<1>2. Keys!Unseen' = KeysOf(elements)' \ Range(KeysSeen')
  BY DEF Keys!Unseen, Keys!Range, Range, KeysSeen
<1>3. ASSUME NEW k PROVE Keys!RemoveFirst(KeysSeen, k) = RemoveFirst(KeysSeen, k)
  BY DEF Keys!RemoveFirst, RemoveFirst, Keys!RemoveAt, RemoveAt,
         Keys!SelectInSeq, SelectInSeq, Keys!Min, Min
<1> QED
  BY <1>1, <1>2, <1>3

\* What a step is for the elements, for their keys and for the walk.
Stays == elements' = elements /\ KeysStay

KeyWalkStep ==
  \/ Stays /\ UNCHANGED cursorVars
  \/ \E n \in Element, k \in Key : Gained(k, n) /\ UNCHANGED cursorVars
  \/ \E e \in elements : Lost(e) /\ Shelf!Free
  \/ elements' = {} /\ Shelf!Empty
  \/ Stays /\ (Shelf!Start \/ Shelf!Return \/ Shelf!Finish \/ Shelf!Announce)

LEMMA KeyWalkStepIs ==
  ASSUME HashInv, CursorNext
  PROVE  KeyWalkStep
<1>1. ASSUME elements' = elements, HashStep PROVE KeysStay
  <2>1. ASSUME NEW x \in elements PROVE KeyAt(x)' = KeyAt(x)
    <3>1. CASE Kept
      BY <3>1, <2>1 DEF Kept, SameOn
    <3>2. CASE elements' = {}
      BY <3>2, <2>1, <1>1
    <3>3. ASSUME NEW e \in Element, Updated(e) PROVE KeyAt(x)' = KeyAt(x)
      BY <3>3, <2>1 DEF Updated, SameOn
    <3>4. ASSUME NEW e \in Element, NEW k \in Key PROVE ~Lost(e) /\ ~Gained(k, e)
      BY <1>1 DEF Lost, Gained
    <3>5. \A e \in Element : ~Lost(e)
      BY <1>1 DEF Lost
    <3> QED
      BY <3>1, <3>2, <3>3, <3>4, <3>5, <1>1 DEF HashStep
  <2> QED
    BY <2>1, <1>1 DEF KeysStay
<1>2. ASSUME NEW s \in Place, NEW w \in Value, PutAndWalk(s, w) PROVE KeyWalkStep
  <2>1. HashStep
    BY <1>2, PutKeeps DEF PutAndWalk
  <2>2. CASE UNCHANGED <<elements, cursorVars>>
    BY <1>1, <2>1, <2>2 DEF KeyWalkStep, Stays
  <2>3. CASE Shelf!Insert
    <3>1. PICK h \in Element \ elements : elements' = elements \cup {h}
      BY <2>3 DEF Shelf!Insert
    <3>2. UNCHANGED cursorVars
      BY <2>3 DEF Shelf!Insert, cursorVars
    <3>3. ~Kept /\ elements' # {} /\ \A e \in Element : ~Updated(e) /\ ~Lost(e)
      BY <3>1 DEF Kept, Updated, Lost
    <3>4. \E n \in Element, k \in Key : Gained(k, n)
      BY <2>1, <3>3 DEF HashStep
    <3> QED
      BY <3>2, <3>4 DEF KeyWalkStep
  <2> QED
    BY <1>2, <2>2, <2>3 DEF PutAndWalk
<1>3. ASSUME NEW e \in elements, RemoveAndWalk(e) PROVE KeyWalkStep
  BY <1>3, RemovalsKeep DEF RemoveAndWalk, KeyWalkStep
<1>4. CASE ClearAndWalk
  BY <1>4 DEF ClearAndWalk, Clear, KeyWalkStep
<1>5. ASSUME NEW s \in Place, NEW k \in Key, Scribble(s, k), UNCHANGED cursorVars
      PROVE  KeyWalkStep
  BY <1>5, ScribbleKeeps DEF Kept, SameOn, KeyWalkStep, Stays, KeysStay
<1>6. ASSUME NEW e \in elements, NEW s \in Place, MoveKey(e, s), UNCHANGED cursorVars
      PROVE  KeyWalkStep
  <2>1. HashStep /\ elements' = elements
    BY <1>6, MoveKeyKeeps DEF MoveKey
  <2> QED
    BY <2>1, <1>1, <1>6 DEF KeyWalkStep, Stays
<1>7. CASE Reset \/ Each \/ IsLast
  <2>1. UNCHANGED hashVars
    BY <1>7 DEF Reset, Each, IsLast, Shelf!Start, hashVars
  <2>2. Stays
    BY <2>1 DEF hashVars, Stays, KeysStay, KeyAt
  <2>3. Shelf!Start \/ Shelf!Return \/ Shelf!Finish \/ Shelf!Announce
    BY <1>7 DEF Reset, Each, IsLast
  <2> QED
    BY <2>2, <2>3 DEF KeyWalkStep
<1> QED
  BY <1>2, <1>3, <1>4, <1>5, <1>6, <1>7 DEF CursorNext

LEMMA WalkSeenStep ==
  ASSUME HashInv, WalkSeen, KeyWalkStep
  PROVE  WalkSeen'
<1>0. /\ seen \in Seq(Element) /\ NoRepeat(seen) /\ Range(seen) \subseteq elements
      /\ due \subseteq elements /\ elements \subseteq Element
  BY DEF WalkSeen, HashInv, HashTypes
<1>1. CASE Stays /\ UNCHANGED cursorVars
  BY <1>1 DEF Stays, cursorVars, WalkSeen, NoRepeat, Range
<1>2. CASE \E n \in Element, k \in Key : Gained(k, n) /\ UNCHANGED cursorVars
  <2>1. elements \subseteq elements' /\ UNCHANGED <<due, seen>>
    BY <1>2 DEF Gained, cursorVars
  <2> QED
    BY <2>1, <1>0 DEF WalkSeen, NoRepeat
<1>3. CASE Shelf!Free
  <2>1. PICK e : /\ elements' = elements \ {e} /\ due' = due \ {e}
                 /\ seen' = RemoveFirst(seen, e)
    BY <1>3, ShelfOperators DEF Shelf!Free
  <2>2. /\ RemoveFirst(seen, e) \in Seq(Element) /\ NoRepeat(RemoveFirst(seen, e))
        /\ Range(RemoveFirst(seen, e)) = Range(seen) \ {e}
    BY <1>0, RemoveFirstExact
  <2> QED
    BY <2>1, <2>2, <1>0 DEF WalkSeen
<1>4. CASE Shelf!Empty \/ Shelf!Start
  <2>1. seen' = <<>> /\ due' \subseteq elements'
    BY <1>4 DEF Shelf!Empty, Shelf!Start
  <2> QED
    BY <2>1 DEF WalkSeen, NoRepeat, Range
<1>5. CASE Shelf!Return
  <2>1. PICK e \in elements \ Range(seen) : /\ seen' = Append(seen, e) /\ due' = due \ {e}
                                            /\ elements' = elements
    BY <1>5, ShelfOperators DEF Shelf!Return
  <2>2. e \in Element
    BY <1>0
  <2>3. /\ Append(seen, e) \in Seq(Element) /\ NoRepeat(Append(seen, e))
        /\ Range(Append(seen, e)) = Range(seen) \cup {e}
    BY <2>1, <2>2, <1>0, AppendExact
  <2> QED
    BY <2>1, <2>3, <1>0 DEF WalkSeen
<1>6. CASE Shelf!Finish \/ Shelf!Announce
  BY <1>6 DEF Shelf!Finish, Shelf!Announce, WalkSeen, NoRepeat, Range
<1> QED
  BY <1>1, <1>2, <1>3, <1>4, <1>5, <1>6 DEF KeyWalkStep

\* The variables of the walk of keys, as functions of the keys of the elements.
KeyMap == [x \in Element |-> KeyAt(x)]

LEMMA KeyMapExact ==
  ASSUME HashInv, WalkSeen
  PROVE  /\ OneToOne(KeyMap, elements)
         /\ \A x \in elements : KeyMap[x] = KeyAt(x) /\ KeyMap[x] \in Key /\ x \in Element
         /\ \A S \in SUBSET elements : KeysOf(S) = {KeyMap[x] : x \in S}
         /\ seen \in Seq(elements) /\ KeysSeen = Mapped(seen, KeyMap)
<1>1. /\ elements \subseteq Element /\ content \in [Place -> Key]
      /\ \A e \in elements : place[e] \in Place
      /\ \A d, e \in elements : KeyAt(d) = KeyAt(e) => d = e
  BY DEF HashInv, HashTypes, KeysInv
<1>2. \A x \in elements : KeyMap[x] = KeyAt(x) /\ KeyMap[x] \in Key /\ x \in Element
  BY <1>1 DEF KeyMap, KeyAt
<1>3. /\ seen \in Seq(Element) /\ \A i \in DOMAIN seen : seen[i] \in elements
  BY DEF WalkSeen, Range
<1>4. seen \in Seq(elements)
  BY <1>3
<1>5. KeysSeen = Mapped(seen, KeyMap)
  BY <1>2, <1>3 DEF KeysSeen, Mapped
<1> HIDE DEF KeyMap
<1>6. OneToOne(KeyMap, elements)
  BY <1>1, <1>2 DEF OneToOne
<1>7. ASSUME NEW S \in SUBSET elements PROVE KeysOf(S) = {KeyMap[x] : x \in S}
  BY <1>2 DEF KeysOf
<1> QED
  BY <1>2, <1>4, <1>5, <1>6, <1>7

\* The same sets and sequences, before and after a step, of plain functions.
KeyView(f, S, D, s, KE, KD, KS) ==
  /\ OneToOne(f, S) /\ D \in SUBSET S /\ s \in Seq(S) /\ NoRepeat(s)
  /\ \A x \in S : f[x] \in Key
  /\ KE = {f[x] : x \in S} /\ KD = {f[x] : x \in D} /\ KS = Mapped(s, f)

LEMMA KeyViewExact ==
  ASSUME HashInv, WalkSeen
  PROVE  KeyView(KeyMap, elements, due, seen, KeysOf(elements), KeysOf(due), KeysSeen)
BY KeyMapExact DEF KeyView, WalkSeen

LEMMA KeyViewSame ==
  ASSUME NEW f, NEW g, NEW S, NEW D, NEW s, NEW KE, NEW KD, NEW KS,
         KeyView(f, S, D, s, KE, KD, KS), NEW S2, NEW KE2, NEW KD2, NEW KS2,
         S \subseteq S2, KeyView(g, S2, D, s, KE2, KD2, KS2),
         \A x \in S : g[x] = f[x]
  PROVE  KD2 = KD /\ KS2 = KS
<1>1. /\ D \subseteq S /\ KD = {f[x] : x \in D} /\ KD2 = {g[x] : x \in D}
      /\ KS = Mapped(s, f) /\ KS2 = Mapped(s, g) /\ s \in Seq(S)
  BY DEF KeyView
<1>2. KD2 = KD
  BY <1>1
<1>3. \A i \in DOMAIN s : s[i] \in S
  BY <1>1
<1>4. KS2 = KS
  BY <1>1, <1>3 DEF Mapped
<1> QED
  BY <1>2, <1>4

\* What the walk has not returned, as elements and as keys.
LEMMA KeyUnseen ==
  ASSUME NEW f, NEW S, NEW D, NEW s, NEW KE, NEW KD, NEW KS, KeyView(f, S, D, s, KE, KD, KS)
  PROVE  /\ KE \ Range(KS) = {f[x] : x \in S \ Range(s)}
         /\ D = {} <=> KD = {}
<1>1. /\ OneToOne(f, S) /\ D \subseteq S /\ s \in Seq(S) /\ NoRepeat(s)
      /\ KE = {f[x] : x \in S} /\ KD = {f[x] : x \in D} /\ KS = Mapped(s, f)
  BY DEF KeyView
<1>2. Range(KS) = {f[x] : x \in Range(s)}
  <2>1. Range(Mapped(s, f)) = {f[x] : x \in Range(s)}
    BY <1>1, MappedRange
  <2> QED
    BY <2>1, <1>1
<1>3. Range(s) \subseteq S
  BY <1>1, RangeOf
<1>4. KE \ Range(KS) = {f[x] : x \in S \ Range(s)}
  BY <1>1, <1>2, <1>3 DEF OneToOne
<1>5. D = {} <=> KD = {}
  BY <1>1
<1> QED
  BY <1>4, <1>5

LEMMA KeyWalkingStep ==
  HashInv /\ HashInv' /\ WalkSeen /\ WalkSeen' /\ KeyWalkStep
    => [Keys!WalkNext]_<<KeysOf(elements), walking, KeysOf(due), KeysSeen, more, over>>
<1> SUFFICES ASSUME HashInv, HashInv', WalkSeen, WalkSeen', KeyWalkStep
             PROVE  [Keys!WalkNext]_<<KeysOf(elements), walking, KeysOf(due), KeysSeen, more, over>>
  OBVIOUS
<1>1. PICK f, g, E, E2, D, D2, S, S2 :
        /\ f = KeyMap /\ g = KeyMap' /\ S = KeysSeen /\ S2 = KeysSeen'
        /\ E = KeysOf(elements) /\ E2 = KeysOf(elements)'
        /\ D = KeysOf(due) /\ D2 = KeysOf(due)'
  OBVIOUS
<1>2. KeyView(f, elements, due, seen, E, D, S)
  BY <1>1, KeyViewExact
<1>3. KeyView(g, elements', due', seen', E2, D2, S2)
  <2>1. (HashInv /\ WalkSeen => KeyView(KeyMap, elements, due, seen, KeysOf(elements),
                                        KeysOf(due), KeysSeen))'
    BY KeyViewExact, PTL
  <2> QED
    BY <2>1, <1>1
<1>4. \A x \in elements : f[x] = KeyAt(x) /\ x \in Element
  BY <1>1, KeyMapExact
<1>5. \A x \in elements' : x \in Element => g[x] = KeyAt(x)'
  BY <1>1 DEF KeyMap
<1>6. ASSUME KeysStay PROVE \A x \in elements \cap elements' : g[x] = f[x]
  BY <1>4, <1>5, <1>6 DEF KeysStay
<1>7. /\ Keys!Unseen = E \ Range(S) /\ Keys!Unseen' = E2 \ Range(S2)
      /\ \A k : Keys!RemoveFirst(S, k) = RemoveFirst(S, k)
  BY <1>1, KeysOperators
<1>8. /\ OneToOne(f, elements) /\ due \subseteq elements /\ seen \in Seq(elements)
      /\ NoRepeat(seen) /\ \A x \in elements : f[x] \in Key
      /\ E = {f[x] : x \in elements} /\ D = {f[x] : x \in due} /\ S = Mapped(seen, f)
  BY <1>2 DEF KeyView
<1>9. /\ OneToOne(g, elements') /\ due' \subseteq elements' /\ seen' \in Seq(elements')
      /\ \A x \in elements' : g[x] \in Key
      /\ E2 = {g[x] : x \in elements'} /\ D2 = {g[x] : x \in due'} /\ S2 = Mapped(seen', g)
  BY <1>3 DEF KeyView
<1>10. /\ E \ Range(S) = {f[x] : x \in elements \ Range(seen)} /\ (due = {} <=> D = {})
       /\ E2 \ Range(S2) = {g[x] : x \in elements' \ Range(seen')} /\ (due' = {} <=> D2 = {})
  BY <1>2, <1>3, KeyUnseen
<1>15. \A k \in Key \ E : /\ E2 = E \cup {k} /\ D2 = D /\ S2 = S
                           /\ UNCHANGED <<walking, more, over>>
                           => Keys!Insert
  BY <1>1 DEF Keys!Insert, KeysSeen
<1>16. \A k \in E : /\ E2 = E \ {k} /\ D2 = D \ {k} /\ S2 = RemoveFirst(S, k)
                    /\ over' \in BOOLEAN /\ (over => over') /\ (over' => D2 = {})
                    /\ more' \in BOOLEAN /\ (more => more') /\ (more' => E2 \ Range(S2) # {})
                    /\ ~(more' /\ over')
                    /\ UNCHANGED walking
                    => Keys!Free
  BY <1>1, <1>7 DEF Keys!Free, KeysSeen
<1>17. \A k \in E \ Range(S) : /\ E2 = E /\ S2 = Append(S, k) /\ D2 = D \ {k}
                               /\ walking /\ ~over /\ more' = FALSE
                               /\ UNCHANGED <<walking, over>>
                               => Keys!Return
  BY <1>1, <1>7 DEF Keys!Return, KeysSeen
<1>18. /\ E2 = E /\ D2 = E /\ S2 = <<>> /\ walking' = TRUE /\ more' = FALSE /\ over' = FALSE
       => Keys!Start
  BY <1>1 DEF Keys!Start, KeysSeen
<1>19. /\ E2 = E /\ D2 = D /\ S2 = S /\ E \ Range(S) # {}
       /\ walking /\ ~over /\ more' = TRUE /\ UNCHANGED <<walking, over>>
       => Keys!Announce
  BY <1>1, <1>7 DEF Keys!Announce, KeysSeen
<1>20. /\ E2 = E /\ D2 = D /\ S2 = S /\ D = {}
       /\ walking /\ ~more /\ over' = TRUE /\ UNCHANGED <<walking, more>>
       => Keys!Finish
  BY <1>1 DEF Keys!Finish, KeysSeen
<1>21. ASSUME Stays, due' = due, seen' = seen PROVE E2 = E /\ D2 = D /\ S2 = S
  <2>1. elements' = elements /\ \A x \in elements : g[x] = f[x]
    BY <1>6, <1>21 DEF Stays
  <2>2. E2 = E
    BY <2>1, <1>8, <1>9
  <2>3. KeyView(g, elements', due, seen, E2, D2, S2) /\ elements \subseteq elements'
    BY <2>1, <1>3, <1>21
  <2> QED
    BY <2>1, <2>2, <2>3, <1>2, KeyViewSame
<1>11. CASE Stays /\ UNCHANGED cursorVars
  <2>1. due' = due /\ seen' = seen /\ UNCHANGED <<walking, more, over>>
    BY <1>11 DEF cursorVars
  <2>2. E2 = E /\ D2 = D /\ S2 = S
    BY <2>1, <1>11, <1>21
  <2> QED
    BY <2>1, <2>2, <1>1
<1>12. ASSUME NEW n \in Element, NEW k \in Key, Gained(k, n), UNCHANGED cursorVars
       PROVE  Keys!Insert
  <2>1. /\ n \notin elements /\ elements' = elements \cup {n} /\ Matching(k) = {}
        /\ KeyAt(n)' = k /\ KeysStay /\ UNCHANGED <<walking, due, seen, more, over>>
    BY <1>12 DEF Gained, SameOn, KeysStay, cursorVars
  <2>2. (\A x \in elements : g[x] = f[x]) /\ g[n] = k
    BY <2>1, <1>5, <1>6
  <2>3. k \notin E
    BY <2>1, <1>4, <1>8 DEF Matching
  <2>4. E2 = E \cup {k}
    BY <2>1, <2>2, <1>8, <1>9
  <2>5. D2 = D /\ S2 = S
    <3>1. KeyView(g, elements', due, seen, E2, D2, S2) /\ elements \subseteq elements'
      BY <2>1, <1>3
    <3> QED
      BY <3>1, <2>2, <1>2, KeyViewSame
  <2> QED
    BY <2>1, <2>3, <2>4, <2>5, <1>15
<1>13. ASSUME NEW e \in elements, Lost(e), Shelf!Free PROVE Keys!Free
  <2>1. /\ elements' = elements \ {e} /\ KeysStay /\ UNCHANGED walking
        /\ due' = due \ {e} /\ seen' = RemoveFirst(seen, e)
        /\ over' \in BOOLEAN /\ (over => over') /\ (over' => due' = {})
        /\ more' \in BOOLEAN /\ (more => more') /\ (more' => elements' \ Range(seen') # {})
        /\ ~(more' /\ over')
    <3>1. elements' = elements \ {e} /\ KeysStay
      BY <1>13 DEF Lost, SameOn, KeysStay
    <3>2. PICK d \in elements :
            /\ elements' = elements \ {d} /\ UNCHANGED walking
            /\ due' = due \ {d} /\ seen' = RemoveFirst(seen, d)
            /\ over' \in BOOLEAN /\ (over => over') /\ (over' => due' = {})
            /\ more' \in BOOLEAN /\ (more => more') /\ (more' => elements' \ Range(seen') # {})
            /\ ~(more' /\ over')
      BY <1>13, ShelfOperators DEF Shelf!Free
    <3>3. d = e
      BY <3>1, <3>2
    <3> QED
      BY <3>1, <3>2, <3>3
  <2>2. \A x \in elements \ {e} : g[x] = f[x]
    BY <2>1, <1>6
  <2>3. \A x \in elements \ {e} : f[x] # f[e]
    BY <1>8 DEF OneToOne
  <2>4. E2 = E \ {f[e]} /\ D2 = D \ {f[e]} /\ f[e] \in E
    BY <2>1, <2>2, <2>3, <1>8, <1>9
  <2>5. S2 = RemoveFirst(S, f[e])
    <3>1. Mapped(seen', g) = Mapped(seen', f)
      <4>1. \A i \in DOMAIN seen' : seen'[i] \in elements'
        BY <1>9
      <4>2. \A i \in DOMAIN seen' : g[seen'[i]] = f[seen'[i]]
        BY <4>1, <2>1, <2>2
      <4> QED
        BY <4>2, MappedSame
    <3>2. Mapped(RemoveFirst(seen, e), f) = RemoveFirst(Mapped(seen, f), f[e])
      BY <1>8, MappedRemove
    <3> QED
      BY <3>1, <3>2, <2>1, <1>8, <1>9
  <2>6. (over' => D2 = {}) /\ (more' => E2 \ Range(S2) # {})
    BY <2>1, <1>10
  <2> QED
    BY <2>1, <2>4, <2>5, <2>6, <1>16
<1>14. CASE elements' = {} /\ Shelf!Empty
  <2>1. /\ elements' = {} /\ due' = {} /\ seen' = <<>>
        /\ walking' = FALSE /\ more' = FALSE /\ over' = FALSE
    BY <1>14 DEF Shelf!Empty
  <2>2. E2 = {} /\ D2 = {} /\ S2 = <<>>
    BY <2>1, <1>9 DEF Mapped
  <2> QED
    BY <2>1, <2>2, <1>1 DEF Keys!Empty, Keys!WalkNext
<1>22. CASE Stays /\ Shelf!Start
  <2>1. /\ elements' = elements /\ \A x \in elements : g[x] = f[x]
        /\ due' = elements /\ seen' = <<>>
        /\ walking' = TRUE /\ more' = FALSE /\ over' = FALSE
    BY <1>6, <1>22 DEF Stays, Shelf!Start
  <2>2. E2 = E /\ D2 = E
    BY <2>1, <1>8, <1>9
  <2>3. S2 = <<>>
    BY <2>1, <1>9 DEF Mapped
  <2> QED
    BY <2>1, <2>2, <2>3, <1>18 DEF Keys!WalkNext
<1>23. CASE Stays /\ Shelf!Return
  <2>1. /\ elements' = elements /\ (\A x \in elements : g[x] = f[x])
        /\ walking /\ ~over /\ more' = FALSE /\ UNCHANGED <<walking, over>>
    BY <1>6, <1>23 DEF Stays, Shelf!Return
  <2>2. PICK e \in elements \ Range(seen) : seen' = Append(seen, e) /\ due' = due \ {e}
    BY <1>23, ShelfOperators DEF Shelf!Return
  <2>3. E2 = E /\ D2 = D \ {f[e]}
    BY <2>1, <2>2, <1>8, <1>9 DEF OneToOne
  <2>4. f[e] \in E \ Range(S)
    BY <2>2, <1>10
  <2>5. S2 = Append(S, f[e])
    <3>1. \A i \in DOMAIN seen' : seen'[i] \in elements
      BY <2>1, <1>9
    <3>2. Mapped(seen', g) = Mapped(seen', f)
      BY <3>1, <2>1, MappedSame
    <3>3. Mapped(Append(seen, e), f) = Append(Mapped(seen, f), f[e])
      BY <1>8, <2>2, MappedAppend
    <3> QED
      BY <3>2, <3>3, <2>2, <1>8, <1>9
  <2> QED
    BY <2>1, <2>3, <2>4, <2>5, <1>17 DEF Keys!WalkNext
<1>24. CASE Stays /\ Shelf!Announce
  <2>1. /\ due' = due /\ seen' = seen /\ walking /\ ~over /\ more' = TRUE
        /\ UNCHANGED <<walking, over>> /\ elements \ Range(seen) # {}
    BY <1>24, ShelfOperators DEF Shelf!Announce
  <2>2. E2 = E /\ D2 = D /\ S2 = S
    BY <2>1, <1>21, <1>24
  <2>3. E \ Range(S) # {}
    BY <2>1, <1>10
  <2> QED
    BY <2>1, <2>2, <2>3, <1>19 DEF Keys!WalkNext
<1>25. CASE Stays /\ Shelf!Finish
  <2>1. /\ due' = due /\ seen' = seen /\ walking /\ ~more /\ over' = TRUE
        /\ UNCHANGED <<walking, more>> /\ due = {}
    BY <1>25 DEF Shelf!Finish
  <2>2. E2 = E /\ D2 = D /\ S2 = S
    BY <2>1, <1>21, <1>25
  <2>3. D = {}
    BY <2>1, <1>10
  <2> QED
    BY <2>1, <2>2, <2>3, <1>20 DEF Keys!WalkNext
<1> QED
  BY <1>11, <1>12, <1>13, <1>14, <1>22, <1>23, <1>24, <1>25 DEF KeyWalkStep, Keys!WalkNext

\* A walk returns every key that was in the hash at the reset and has not been
\* removed since, once, whatever is put, updated, moved or removed meanwhile.
THEOREM HashImplementsKeyWalk == CursorSpec => ImplementsKeyWalk
<1>1. CursorInit => WalkSeen /\ Keys!WalkInit
  <2> SUFFICES ASSUME CursorInit PROVE WalkSeen /\ Keys!WalkInit
    OBVIOUS
  <2>1. /\ elements = {} /\ due = {} /\ seen = <<>>
        /\ walking = FALSE /\ more = FALSE /\ over = FALSE
    BY DEF CursorInit, HashInit, Shelf!WalkInit
  <2>2. WalkSeen
    BY <2>1 DEF WalkSeen, NoRepeat, Range
  <2>3. KeysOf(elements) = {} /\ KeysOf(due) = {}
    BY <2>1 DEF KeysOf
  <2>4. [i \in DOMAIN seen |-> KeyAt(seen[i])] = <<>>
    BY <2>1
  <2> QED
    BY <2>1, <2>2, <2>3, <2>4 DEF Keys!WalkInit
<1>2. HashInv /\ WalkSeen /\ [CursorNext]_<<hashVars, cursorVars, fetched>> => WalkSeen'
  <2>1. HashInv /\ WalkSeen /\ CursorNext => WalkSeen'
    BY KeyWalkStepIs, WalkSeenStep
  <2>2. WalkSeen /\ UNCHANGED <<hashVars, cursorVars, fetched>> => WalkSeen'
    BY DEF WalkSeen, hashVars, cursorVars, NoRepeat, Range
  <2> QED
    BY <2>1, <2>2
<1>3. HashInv /\ HashInv' /\ WalkSeen /\ WalkSeen' /\ [CursorNext]_<<hashVars, cursorVars, fetched>>
        => [Keys!WalkNext]_<<KeysOf(elements), walking, KeysOf(due),
                             [i \in DOMAIN seen |-> KeyAt(seen[i])], more, over>>
  <2>1. HashInv /\ HashInv' /\ WalkSeen /\ WalkSeen' /\ CursorNext
          => [Keys!WalkNext]_<<KeysOf(elements), walking, KeysOf(due), KeysSeen, more, over>>
    BY KeyWalkStepIs, KeyWalkingStep
  <2>2. UNCHANGED <<hashVars, cursorVars, fetched>>
          => UNCHANGED <<KeysOf(elements), walking, KeysOf(due), KeysSeen, more, over>>
    BY DEF hashVars, cursorVars, KeysOf, KeyAt, KeysSeen
  <2> QED
    BY <2>1, <2>2 DEF KeysSeen
<1> QED
  BY <1>1, <1>2, <1>3, HashInvariant, PTL
     DEF CursorSpec, ImplementsKeyWalk, Keys!WalkSpec, Keys!walkVars
=============================================================================
