---------------------------- MODULE CommonLemmas ----------------------------
(***************************************************************************)
(* What the proofs of several components need: the least of a set of       *)
(* naturals; what appending to a sequence, inserting and removing do to    *)
(* its entries, its range and to the property of having no entry twice;    *)
(* that functions defined by recursion exist; sums over finite sets; the   *)
(* links of a doubly linked list, and walks that follow links.             *)
(***************************************************************************)
EXTENDS Integers, Sequences, SequencesExt, FiniteSetsExt, SequenceTheorems,
        FunctionTheorems, FiniteSetTheorems, WellFoundedInduction, TLAPS

\* A set of naturals has a least element.
LEMMA LeastNat ==
  ASSUME NEW T, T \subseteq Nat, T # {}
  PROVE  \E n \in T : \A m \in T : n =< m
<1>1. IsWellFoundedOn(OpToRel(<, Nat), Nat)
  BY NatLessThanWellFounded
<1>2. \E n \in T : \A m \in T : ~ (<<m, n>> \in OpToRel(<, Nat))
  BY <1>1, WFMin
<1>3. PICK n \in T : \A m \in T : ~ (<<m, n>> \in OpToRel(<, Nat))
  BY <1>2
<1>4. \A m \in T : ~ (m < n)
  BY <1>3 DEF OpToRel
<1> QED
  BY <1>4

\* Min of the community modules is that least element.
LEMMA MinOfNat ==
  ASSUME NEW T, T \subseteq Nat, T # {}
  PROVE  Min(T) \in T /\ \A m \in T : Min(T) =< m
<1>1. \E n \in T : \A m \in T : n =< m
  BY LeastNat
<1> QED
  BY <1>1 DEF Min

InsertedAt(f, n, i, v, g) ==
  \A j \in 1 .. n + 1 :
    g[j] = IF j < i THEN f[j] ELSE IF j = i THEN v ELSE f[j - 1]

\* What inserting at a place does to a sequence, entry by entry.
LEMMA InsertAtExact ==
  ASSUME NEW S, NEW s \in Seq(S), NEW i \in 1 .. Len(s) + 1, NEW e \in S
  PROVE  /\ InsertAt(s, i, e) \in Seq(S)
         /\ Len(InsertAt(s, i, e)) = Len(s) + 1
         /\ InsertedAt(s, Len(s), i, e, InsertAt(s, i, e))
<1> DEFINE a == SubSeq(s, 1, i - 1)
           b == SubSeq(s, i, Len(s))
<1>0. Len(s) \in Nat /\ \A j \in 1 .. Len(s) : s[j] \in S
  OBVIOUS
<1>1. a \in Seq(S) /\ Len(a) = i - 1 /\ \A j \in 1 .. i - 1 : a[j] = s[j]
  BY <1>0, SubSeqProperties, SMT
<1>2. /\ b \in Seq(S) /\ Len(b) = Len(s) - i + 1
      /\ \A j \in 1 .. Len(s) - i + 1 : b[j] = s[i + j - 1]
  BY <1>0, SubSeqProperties, SMT
<1>3. <<e>> \in Seq(S) /\ Len(<<e>>) = 1 /\ <<e>>[1] = e
  OBVIOUS
<1> HIDE DEF a, b
<1> DEFINE c == a \o <<e>>
<1>4. /\ c \in Seq(S) /\ Len(c) = i
      /\ \A j \in 1 .. i : c[j] = IF j < i THEN s[j] ELSE e
  <2>1. /\ c \in Seq(S) /\ Len(c) = Len(a) + 1
        /\ \A j \in 1 .. Len(a) + 1 : c[j] = IF j =< Len(a) THEN a[j] ELSE <<e>>[j - Len(a)]
    BY <1>1, <1>3, ConcatProperties
  <2> QED
    BY <2>1, <1>1, <1>3
<1> HIDE DEF c
<1>5. /\ c \o b \in Seq(S) /\ Len(c \o b) = Len(c) + Len(b)
      /\ \A j \in 1 .. Len(c) + Len(b) :
           (c \o b)[j] = IF j =< Len(c) THEN c[j] ELSE b[j - Len(c)]
  BY <1>2, <1>4, ConcatProperties
<1>6. InsertAt(s, i, e) = c \o b
  BY DEF InsertAt, a, b, c
<1>7. ASSUME NEW j \in 1 .. Len(s) + 1
      PROVE  (c \o b)[j] = IF j < i THEN s[j] ELSE IF j = i THEN e ELSE s[j - 1]
  <2>1. CASE j =< i
    BY <2>1, <1>4, <1>5, <1>2, <1>0
  <2>2. CASE j > i
    <3>1. j - i \in 1 .. Len(s) - i + 1 /\ i + (j - i) - 1 = j - 1
      BY <2>2, <1>0
    <3>2. b[j - i] = s[j - 1]
      BY <3>1, <1>2
    <3> QED
      BY <2>2, <3>2, <1>4, <1>5, <1>2, <1>0
  <2>3. j =< i \/ j > i
    BY <1>0
  <2> QED
    BY <2>1, <2>2, <2>3
<1> QED
  BY <1>6, <1>7, <1>5, <1>4, <1>2, <1>0 DEF InsertedAt

RemovedAt(f, n, i, g) == \A j \in 1 .. n - 1 : g[j] = IF j < i THEN f[j] ELSE f[j + 1]

\* What removing a place does to a sequence, entry by entry.
LEMMA RemoveAtExact ==
  ASSUME NEW S, NEW s \in Seq(S), NEW i \in 1 .. Len(s)
  PROVE  /\ RemoveAt(s, i) \in Seq(S)
         /\ Len(RemoveAt(s, i)) = Len(s) - 1
         /\ RemovedAt(s, Len(s), i, RemoveAt(s, i))
<1> DEFINE a == SubSeq(s, 1, i - 1)
           b == SubSeq(s, i + 1, Len(s))
<1>0. Len(s) \in Nat /\ \A j \in 1 .. Len(s) : s[j] \in S
  OBVIOUS
<1>1. a \in Seq(S) /\ Len(a) = i - 1 /\ \A j \in 1 .. i - 1 : a[j] = s[j]
  BY <1>0, SubSeqProperties, SMT
<1>2. /\ b \in Seq(S) /\ Len(b) = Len(s) - i
      /\ \A j \in 1 .. Len(s) - i : b[j] = s[i + j]
  BY <1>0, SubSeqProperties, SMT
<1> HIDE DEF a, b
<1> DEFINE c == a \o b
<1>3. /\ c \in Seq(S) /\ Len(c) = Len(a) + Len(b)
      /\ \A j \in 1 .. Len(a) + Len(b) :
           c[j] = IF j =< Len(a) THEN a[j] ELSE b[j - Len(a)]
  BY <1>1, <1>2, ConcatProperties
<1>4. RemoveAt(s, i) = c
  BY DEF RemoveAt, a, b
<1> HIDE DEF c
<1>5. ASSUME NEW j \in 1 .. Len(s) - 1
      PROVE  c[j] = IF j < i THEN s[j] ELSE s[j + 1]
  <2>1. CASE j < i
    <3>1. /\ Len(a) = i - 1 /\ j \in 1 .. Len(a) + Len(b)
          /\ j =< Len(a) /\ j \in 1 .. i - 1
      BY <2>1, <1>0, <1>1, <1>2
    <3>2. c[j] = a[j]
      BY <3>1, <1>3
    <3>3. a[j] = s[j]
      BY <3>1, <1>1
    <3> QED
      BY <2>1, <3>2, <3>3
  <2>2. CASE j >= i
    <3>1. j - (i - 1) \in 1 .. Len(s) - i /\ i + (j - (i - 1)) = j + 1
      BY <2>2, <1>0
    <3>2. b[j - (i - 1)] = s[j + 1]
      BY <3>1, <1>2
    <3>3. c[j] = b[j - (i - 1)]
      <4>1. Len(a) = i - 1 /\ j \in 1 .. Len(a) + Len(b) /\ ~(j =< Len(a))
        BY <2>2, <1>0, <1>1, <1>2
      <4> QED
        BY <4>1, <1>3
    <3> QED
      BY <2>2, <3>2, <3>3
  <2>3. j < i \/ j >= i
    BY <1>0
  <2> QED
    BY <2>1, <2>2, <2>3
<1>6. Len(c) = Len(s) - 1
  BY <1>0, <1>1, <1>2, <1>3
<1>7. RemovedAt(s, Len(s), i, c)
  BY <1>5 DEF RemovedAt
<1> QED
  BY <1>3, <1>4, <1>6, <1>7

-----------------------------------------------------------------------------
NoRepeat(s) == \A j, k \in 1 .. Len(s) : s[j] = s[k] => j = k

\* What the range of a sequence is.
LEMMA RangeOf ==
  ASSUME NEW S, NEW s \in Seq(S)
  PROVE  /\ Len(s) \in Nat /\ DOMAIN s = 1 .. Len(s)
         /\ \A x : x \in Range(s) <=> \E j \in 1 .. Len(s) : s[j] = x
         /\ Range(s) \subseteq S
<1>1. Len(s) \in Nat /\ DOMAIN s = 1 .. Len(s) /\ \A j \in 1 .. Len(s) : s[j] \in S
  OBVIOUS
<1> QED
  BY <1>1 DEF Range

\* A sequence that has no entry twice is as long as its range is large.
LEMMA NoRepeatCardinality ==
  ASSUME NEW S, NEW s \in Seq(S), NoRepeat(s)
  PROVE  IsFiniteSet(Range(s)) /\ Cardinality(Range(s)) = Len(s)
<1>1. /\ Len(s) \in Nat /\ DOMAIN s = 1 .. Len(s)
      /\ \A x : x \in Range(s) <=> \E j \in 1 .. Len(s) : s[j] = x
  BY RangeOf
<1>2. s \in Bijection(1 .. Len(s), Range(s))
  <2>1. s \in [1 .. Len(s) -> Range(s)]
    <3>1. s = [j \in 1 .. Len(s) |-> s[j]]
      OBVIOUS
    <3> QED
      BY <3>1, <1>1
  <2> QED
    BY <2>1, <1>1, Fun_IsBij DEF NoRepeat
<1>3. IsFiniteSet(1 .. Len(s)) /\ Cardinality(1 .. Len(s)) = Len(s)
  BY <1>1, FS_Interval
<1> QED
  BY <1>2, <1>3, FS_Bijection DEF ExistsBijection

\* Inserting what is not in a sequence adds it, and no entry twice.
LEMMA InsertNew ==
  ASSUME NEW S, NEW s \in Seq(S), NEW i \in 1 .. Len(s) + 1,
         NEW e \in S, e \notin Range(s), NoRepeat(s)
  PROVE  /\ NoRepeat(InsertAt(s, i, e))
         /\ Range(InsertAt(s, i, e)) = Range(s) \cup {e}
<1> DEFINE d == InsertAt(s, i, e)
<1>1. d \in Seq(S) /\ Len(d) = Len(s) + 1 /\ InsertedAt(s, Len(s), i, e, d)
  BY InsertAtExact
<1> HIDE DEF d
<1>2. \A j \in 1 .. Len(s) + 1 :
        d[j] = IF j < i THEN s[j] ELSE IF j = i THEN e ELSE s[j - 1]
  BY <1>1 DEF InsertedAt
<1>3. /\ Len(s) \in Nat
      /\ \A x : x \in Range(s) <=> \E j \in 1 .. Len(s) : s[j] = x
      /\ \A x : x \in Range(d) <=> \E j \in 1 .. Len(s) + 1 : d[j] = x
  BY <1>1, RangeOf
<1>4. ASSUME NEW j \in 1 .. Len(s) + 1, NEW k \in 1 .. Len(s) + 1, d[j] = d[k]
      PROVE  j = k
  <2>1. \A m \in 1 .. Len(s) : s[m] # e
    BY <1>3
  <2>2. \A m \in 1 .. Len(s) + 1 : m # i => d[m] # e
    BY <2>1, <1>2, <1>3
  <2>3. d[i] = e
    BY <1>2, <1>3
  <2>4. CASE j # i /\ k # i
    <3> DEFINE at(m) == IF m < i THEN m ELSE m - 1
    <3>1. /\ at(j) \in 1 .. Len(s) /\ at(k) \in 1 .. Len(s)
          /\ d[j] = s[at(j)] /\ d[k] = s[at(k)]
      BY <2>4, <1>2, <1>3
    <3>2. at(j) = at(k)
      BY <3>1, <1>4 DEF NoRepeat
    <3> QED
      BY <3>2, <2>4, <1>3
  <2> QED
    BY <2>2, <2>3, <2>4, <1>4
<1>5. \A x \in Range(d) : x \in Range(s) \cup {e}
  <2> TAKE x \in Range(d)
  <2>1. PICK j \in 1 .. Len(s) + 1 : d[j] = x
    BY <1>3
  <2>2. x = e \/ \E k \in 1 .. Len(s) : s[k] = x
    BY <2>1, <1>2, <1>3
  <2> QED
    BY <2>2, <1>3
<1>6. e \in Range(d)
  BY <1>2, <1>3
<1>7. \A x \in Range(s) : x \in Range(d)
  <2> TAKE x \in Range(s)
  <2>1. PICK j \in 1 .. Len(s) : s[j] = x
    BY <1>3
  <2>2. \E k \in 1 .. Len(s) + 1 : d[k] = x
    <3>1. CASE j < i
      BY <3>1, <2>1, <1>2, <1>3
    <3>2. CASE j >= i
      <4>1. j + 1 \in 1 .. Len(s) + 1 /\ d[j + 1] = s[j]
        BY <3>2, <1>2, <1>3
      <4> QED
        BY <4>1, <2>1
    <3> QED
      BY <3>1, <3>2, <1>3
  <2> QED
    BY <2>2, <1>3
<1> QED
  BY <1>1, <1>4, <1>5, <1>6, <1>7 DEF d, NoRepeat

\* Appending is inserting at the end.
LEMMA AppendExact ==
  ASSUME NEW S, NEW s \in Seq(S), NEW e \in S, e \notin Range(s), NoRepeat(s)
  PROVE  /\ Append(s, e) \in Seq(S) /\ Len(Append(s, e)) = Len(s) + 1
         /\ \A j \in 1 .. Len(s) : Append(s, e)[j] = s[j]
         /\ Append(s, e)[Len(s) + 1] = e
         /\ NoRepeat(Append(s, e))
         /\ Range(Append(s, e)) = Range(s) \cup {e}
<1> DEFINE d == Append(s, e)
<1>1. /\ d \in Seq(S) /\ Len(d) = Len(s) + 1
      /\ \A j \in 1 .. Len(s) : d[j] = s[j]
      /\ d[Len(s) + 1] = e
  OBVIOUS
<1> HIDE DEF d
<1>2. /\ Len(s) \in Nat
      /\ \A x : x \in Range(s) <=> \E j \in 1 .. Len(s) : s[j] = x
      /\ \A x : x \in Range(d) <=> \E j \in 1 .. Len(s) + 1 : d[j] = x
  BY <1>1, RangeOf
<1>3. \A x : x \in Range(d) <=> x \in Range(s) \cup {e}
  BY <1>1, <1>2
<1>4. Range(d) = Range(s) \cup {e}
  BY <1>3
<1>5. NoRepeat(d)
  BY <1>1, <1>2 DEF NoRepeat
<1> QED
  BY <1>1, <1>4, <1>5 DEF d

LEMMA AppendIsInsert ==
  ASSUME NEW S, NEW s \in Seq(S), NEW e \in S
  PROVE  InsertAt(s, Len(s) + 1, e) = Append(s, e)
<1> DEFINE d == InsertAt(s, Len(s) + 1, e)
<1>1. Len(s) \in Nat /\ Len(s) + 1 \in 1 .. Len(s) + 1
  OBVIOUS
<1>2. d \in Seq(S) /\ Len(d) = Len(s) + 1 /\ InsertedAt(s, Len(s), Len(s) + 1, e, d)
  BY <1>1, InsertAtExact
<1> HIDE DEF d
<1>3. /\ Append(s, e) \in Seq(S) /\ Len(Append(s, e)) = Len(s) + 1
      /\ \A j \in 1 .. Len(s) : Append(s, e)[j] = s[j]
      /\ Append(s, e)[Len(s) + 1] = e
  OBVIOUS
<1>4. \A j \in 1 .. Len(s) + 1 : d[j] = Append(s, e)[j]
  BY <1>1, <1>2, <1>3 DEF InsertedAt
<1>5. d = Append(s, e)
  BY <1>2, <1>3, <1>4, SeqEqual
<1> QED
  BY <1>5 DEF d

\* Removing an entry takes it, and no other, out of a sequence.
LEMMA RemoveOld ==
  ASSUME NEW S, NEW s \in Seq(S), NEW i \in 1 .. Len(s), NoRepeat(s)
  PROVE  /\ NoRepeat(RemoveAt(s, i))
         /\ Range(RemoveAt(s, i)) = Range(s) \ {s[i]}
<1> DEFINE d == RemoveAt(s, i)
<1>1. d \in Seq(S) /\ Len(d) = Len(s) - 1 /\ RemovedAt(s, Len(s), i, d)
  BY RemoveAtExact
<1> HIDE DEF d
<1>2. /\ Len(s) \in Nat /\ DOMAIN s = 1 .. Len(s)
      /\ DOMAIN d = 1 .. Len(s) - 1
  BY <1>1
<1>3. \A j \in 1 .. Len(s) - 1 : d[j] = IF j < i THEN s[j] ELSE s[j + 1]
  BY <1>1 DEF RemovedAt
<1>4. \A j, k \in 1 .. Len(s) - 1 : d[j] = d[k] => j = k
  BY <1>2, <1>3 DEF NoRepeat
<1>5. \A x \in Range(d) : x \in Range(s) \ {s[i]}
  <2> TAKE x \in Range(d)
  <2>1. PICK j \in 1 .. Len(s) - 1 : x = d[j]
    BY <1>2 DEF Range
  <2>2. \E k \in 1 .. Len(s) : x = s[k] /\ k # i
    BY <2>1, <1>2, <1>3
  <2> QED
    BY <2>2, <1>2 DEF Range, NoRepeat
<1>6. \A x \in Range(s) \ {s[i]} : x \in Range(d)
  <2> TAKE x \in Range(s) \ {s[i]}
  <2>1. PICK j \in 1 .. Len(s) : x = s[j] /\ j # i
    BY <1>2 DEF Range
  <2>2. CASE j < i
    <3>1. j \in 1 .. Len(s) - 1 /\ d[j] = x
      BY <2>1, <2>2, <1>2, <1>3
    <3> QED
      BY <3>1, <1>2 DEF Range
  <2>3. CASE j > i
    <3>1. j - 1 \in 1 .. Len(s) - 1 /\ d[j - 1] = x
      BY <2>1, <2>3, <1>2, <1>3
    <3> QED
      BY <3>1, <1>2 DEF Range
  <2> QED
    BY <2>1, <2>2, <2>3, <1>2
<1>7. Range(d) = Range(s) \ {s[i]}
  BY <1>5, <1>6
<1> QED
  BY <1>1, <1>2, <1>4, <1>7 DEF d, NoRepeat

\* What RemoveFirst does to a sequence without repetition.
LEMMA RemoveFirstIs ==
  ASSUME NEW S, NEW s \in Seq(S), NoRepeat(s), NEW i \in 1 .. Len(s)
  PROVE  RemoveFirst(s, s[i]) = RemoveAt(s, i)
<1>1. {j \in 1 .. Len(s) : s[j] = s[i]} = {i}
  BY DEF NoRepeat
<1>2. Min({i}) = i
  <2>1. Len(s) \in Nat
    OBVIOUS
  <2> QED
    BY <2>1 DEF Min
<1>3. SelectInSeq(s, LAMBDA v : v = s[i]) = i
  BY <1>1, <1>2 DEF SelectInSeq
<1> QED
  BY <1>3 DEF RemoveFirst

LEMMA RemoveFirstExact ==
  ASSUME NEW S, NEW s \in Seq(S), NoRepeat(s), NEW e
  PROVE  /\ RemoveFirst(s, e) \in Seq(S) /\ NoRepeat(RemoveFirst(s, e))
         /\ Range(RemoveFirst(s, e)) = Range(s) \ {e}
<1>1. CASE e \in Range(s)
  <2>1. PICK i \in 1 .. Len(s) : s[i] = e
    BY <1>1, RangeOf
  <2>2. RemoveFirst(s, e) = RemoveAt(s, i)
    BY <2>1, RemoveFirstIs
  <2> QED
    BY <2>1, <2>2, RemoveAtExact, RemoveOld
<1>2. CASE e \notin Range(s)
  <2>1. ~ \E j \in 1 .. Len(s) : s[j] = e
    BY <1>2, RangeOf
  <2>2. RemoveFirst(s, e) = s
    BY <2>1 DEF RemoveFirst
  <2> QED
    BY <2>2, <1>2
<1> QED
  BY <1>1, <1>2

-----------------------------------------------------------------------------
\* The entries that a sequence begins with.
LEMMA PrefixExact ==
  ASSUME NEW S, NEW s \in Seq(S), NEW n \in 0 .. Len(s)
  PROVE  /\ SubSeq(s, 1, n) \in Seq(S) /\ Len(SubSeq(s, 1, n)) = n
         /\ \A j \in 1 .. n : SubSeq(s, 1, n)[j] = s[j]
<1>1. \A j \in 1 .. n : s[j] \in S
  OBVIOUS
<1>2. /\ SubSeq(s, 1, n) \in Seq(S)
      /\ Len(SubSeq(s, 1, n)) = IF 1 =< n THEN n - 1 + 1 ELSE 0
      /\ \A j \in 1 .. n - 1 + 1 : SubSeq(s, 1, n)[j] = s[1 + j - 1]
  BY <1>1, SubSeqProperties
<1>3. n \in Nat
  OBVIOUS
<1>4. Len(SubSeq(s, 1, n)) = n
  BY <1>2, <1>3
<1>5. \A j \in 1 .. n : SubSeq(s, 1, n)[j] = s[j]
  BY <1>2, <1>3
<1> QED
  BY <1>2, <1>4, <1>5

\* One entry more.
LEMMA PrefixAppended ==
  ASSUME NEW S, NEW s \in Seq(S), NEW t \in Seq(S), NEW n \in 0 .. Len(s), NEW e \in S,
         n + 1 =< Len(t), \A j \in 1 .. n : t[j] = s[j], t[n + 1] = e
  PROVE  SubSeq(t, 1, n + 1) = Append(SubSeq(s, 1, n), e)
<1> DEFINE a == SubSeq(s, 1, n)
           b == SubSeq(t, 1, n + 1)
<1>0. n \in Nat /\ n + 1 \in 0 .. Len(t)
  OBVIOUS
<1>1. a \in Seq(S) /\ Len(a) = n /\ \A j \in 1 .. n : a[j] = s[j]
  BY PrefixExact
<1>2. b \in Seq(S) /\ Len(b) = n + 1 /\ \A j \in 1 .. n + 1 : b[j] = t[j]
  BY <1>0, PrefixExact
<1> HIDE DEF a, b
<1>3. /\ Append(a, e) \in Seq(S) /\ Len(Append(a, e)) = n + 1
      /\ \A j \in 1 .. n : Append(a, e)[j] = a[j]
      /\ Append(a, e)[n + 1] = e
  BY <1>1
<1>4. \A j \in 1 .. n + 1 : b[j] = Append(a, e)[j]
  BY <1>0, <1>1, <1>2, <1>3
<1> QED
  BY <1>2, <1>3, <1>4, SeqEqual DEF a, b

\* One entry less.
LEMMA PrefixShortened ==
  ASSUME NEW S, NEW s \in Seq(S), NEW n \in 1 .. Len(s)
  PROVE  /\ SubSeq(s, 1, n) # <<>>
         /\ SubSeq(s, 1, n - 1) = Front(SubSeq(s, 1, n))
         /\ s[n] = Last(SubSeq(s, 1, n))
<1> DEFINE a == SubSeq(s, 1, n)
           b == SubSeq(s, 1, n - 1)
           c == SubSeq(a, 1, n - 1)
<1>0. n \in Nat /\ n - 1 \in 0 .. Len(s)
  OBVIOUS
<1>1. a \in Seq(S) /\ Len(a) = n /\ \A j \in 1 .. n : a[j] = s[j]
  BY PrefixExact
<1>2. b \in Seq(S) /\ Len(b) = n - 1 /\ \A j \in 1 .. n - 1 : b[j] = s[j]
  BY <1>0, PrefixExact
<1>3. c \in Seq(S) /\ Len(c) = n - 1 /\ \A j \in 1 .. n - 1 : c[j] = a[j]
  <2>1. n - 1 \in 0 .. Len(a)
    BY <1>1
  <2> HIDE DEF a
  <2> QED
    BY <1>1, <2>1, PrefixExact
<1>4. Front(a) = c
  BY <1>1 DEF Front
<1> HIDE DEF a, b, c
<1>5. b = c
  <2>1. \A j \in 1 .. n - 1 : b[j] = c[j]
    BY <1>0, <1>1, <1>2, <1>3
  <2> QED
    BY <1>2, <1>3, <2>1, SeqEqual
<1>6. a # <<>> /\ s[n] = Last(a)
  BY <1>0, <1>1 DEF Last
<1> QED
  BY <1>4, <1>5, <1>6 DEF a, b

\* One entry written, among them or after them.
LEMMA PrefixWritten ==
  ASSUME NEW S, NEW s \in Seq(S), NEW n \in 0 .. Len(s), NEW i \in 1 .. Len(s), NEW e \in S
  PROVE  /\ [s EXCEPT ![i] = e] \in Seq(S) /\ Len([s EXCEPT ![i] = e]) = Len(s)
         /\ \A j \in 1 .. Len(s) : [s EXCEPT ![i] = e][j] = IF j = i THEN e ELSE s[j]
         /\ i =< n => SubSeq([s EXCEPT ![i] = e], 1, n) = [SubSeq(s, 1, n) EXCEPT ![i] = e]
<1> DEFINE t == [s EXCEPT ![i] = e]
           a == SubSeq(s, 1, n)
           b == SubSeq(t, 1, n)
           c == [a EXCEPT ![i] = e]
<1>1. /\ t \in Seq(S) /\ Len(t) = Len(s)
      /\ \A j \in 1 .. Len(s) : t[j] = IF j = i THEN e ELSE s[j]
  BY ExceptSeq
<1> HIDE DEF t
<1>2. a \in Seq(S) /\ Len(a) = n /\ \A j \in 1 .. n : a[j] = s[j]
  BY PrefixExact
<1>3. b \in Seq(S) /\ Len(b) = n /\ \A j \in 1 .. n : b[j] = t[j]
  <2>1. n \in 0 .. Len(t)
    BY <1>1
  <2> QED
    BY <1>1, <2>1, PrefixExact
<1> HIDE DEF a, b
<1>4. ASSUME i =< n PROVE b = c
  <2>1. i \in 1 .. Len(a)
    BY <1>2, <1>4
  <2>2. /\ c \in Seq(S) /\ Len(c) = n
        /\ \A j \in 1 .. n : c[j] = IF j = i THEN e ELSE a[j]
    BY <2>1, <1>2, ExceptSeq
  <2> HIDE DEF c
  <2>3. \A j \in 1 .. n : b[j] = c[j]
    BY <1>1, <1>2, <1>3, <2>2
  <2> QED
    BY <1>3, <2>2, <2>3, SeqEqual
<1> QED
  BY <1>1, <1>4 DEF a, b, c, t

\* Dropping the last entry is removing it.
LEMMA FrontIsRemove ==
  ASSUME NEW S, NEW s \in Seq(S), s # <<>>
  PROVE  Front(s) = RemoveAt(s, Len(s))
<1>1. Len(s) \in Nat /\ Len(s) \in 1 .. Len(s) /\ Len(s) - 1 \in 0 .. Len(s)
  OBVIOUS
<1>2. /\ SubSeq(s, 1, Len(s) - 1) \in Seq(S) /\ Len(SubSeq(s, 1, Len(s) - 1)) = Len(s) - 1
      /\ \A j \in 1 .. Len(s) - 1 : SubSeq(s, 1, Len(s) - 1)[j] = s[j]
  BY <1>1, PrefixExact
<1> DEFINE a == SubSeq(s, 1, Len(s) - 1)
           b == RemoveAt(s, Len(s))
<1>3. b \in Seq(S) /\ Len(b) = Len(s) - 1 /\ RemovedAt(s, Len(s), Len(s), b)
  BY <1>1, RemoveAtExact
<1> HIDE DEF a, b
<1>4. \A j \in 1 .. Len(s) - 1 : b[j] = s[j]
  BY <1>1, <1>3 DEF RemovedAt
<1>5. a \in Seq(S) /\ Len(a) = Len(s) - 1 /\ \A j \in 1 .. Len(s) - 1 : a[j] = s[j]
  BY <1>2 DEF a
<1>6. a = b
  BY <1>3, <1>4, <1>5, SeqEqual
<1> QED
  BY <1>6 DEF Front, a, b

-----------------------------------------------------------------------------
(***************************************************************************)
(* A function defined by recursion, each value from the one before, is     *)
(* what CHOOSE finds for its equation: there is one that satisfies it.     *)
(***************************************************************************)
Iterated(a, step, n, f) == [i \in 0 .. n |-> IF i = 0 THEN a ELSE step[f[i - 1]]]

LEMMA IteratedAt ==
  ASSUME NEW a, NEW step, NEW n, NEW f, f = Iterated(a, step, n, f), NEW i \in 0 .. n
  PROVE  f[i] = IF i = 0 THEN a ELSE step[f[i - 1]]
BY DEF Iterated

LEMMA IterateExists ==
  ASSUME NEW a, NEW step, NEW n \in Nat
  PROVE  \E f : f = Iterated(a, step, n, f)
<1> DEFINE T == {i \in Nat : ~ \E f : f = Iterated(a, step, i, f)}
<1>1. T = {}
  <2> SUFFICES ASSUME T # {} PROVE FALSE
    OBVIOUS
  <2>1. PICK m \in T : \A i \in T : m =< i
    BY LeastNat
  <2>2. m \in Nat /\ ~ \E f : f = Iterated(a, step, m, f)
    OBVIOUS
  <2>3. CASE m = 0
    <3> DEFINE g == [i \in 0 .. 0 |-> a]
    <3>1. g = Iterated(a, step, 0, g)
      BY DEF Iterated
    <3> QED
      BY <2>2, <2>3, <3>1
  <2>4. CASE m # 0
    <3>1. m - 1 \in Nat /\ m - 1 \notin T
      BY <2>1, <2>2, <2>4
    <3>2. PICK f : f = Iterated(a, step, m - 1, f)
      BY <3>1
    <3> DEFINE g == [i \in 0 .. m |-> IF i = m THEN step[f[m - 1]] ELSE f[i]]
    <3>3. ASSUME NEW i \in 0 .. m
          PROVE  g[i] = IF i = 0 THEN a ELSE step[g[i - 1]]
      <4>1. CASE i = m
        <5>1. m - 1 \in 0 .. m /\ m - 1 # m
          BY <2>2, <2>4
        <5>2. g[m - 1] = f[m - 1]
          BY <5>1
        <5>3. g[m] = step[f[m - 1]]
          BY <2>2
        <5> QED
          BY <4>1, <5>2, <5>3, <2>4
      <4>2. CASE i # m /\ i # 0
        <5>1. i \in 0 .. m - 1 /\ i - 1 \in 0 .. m /\ i - 1 # m
          BY <4>2, <2>2
        <5>2. f[i] = step[f[i - 1]]
          BY <5>1, <4>2, <3>2, IteratedAt
        <5>3. g[i] = f[i] /\ g[i - 1] = f[i - 1]
          BY <5>1, <4>2
        <5> QED
          BY <5>2, <5>3, <4>2
      <4>3. CASE i # m /\ i = 0
        <5>1. 0 \in 0 .. m - 1
          BY <4>3, <2>2
        <5>2. f[0] = a
          BY <5>1, <3>2, IteratedAt
        <5> QED
          BY <5>2, <4>3
      <4> QED
        BY <4>1, <4>2, <4>3
    <3>4. g = Iterated(a, step, m, g)
      BY <3>3 DEF Iterated
    <3> QED
      BY <2>2, <3>4
  <2> QED
    BY <2>3, <2>4
<1> QED
  BY <1>1

-----------------------------------------------------------------------------
(***************************************************************************)
(* Sums over finite sets, as MapThenSumSet defines them: by recursion on   *)
(* the set, with CHOOSE for the element to add first.                      *)
(***************************************************************************)
Added(f, s, g) == IF s = {} THEN 0 ELSE LET x == CHOOSE y \in s : TRUE IN f[x] + g[s \ {x}]

Adds(f, S, g) == g = [s \in SUBSET S |-> Added(f, s, g)]

SumOf(f, S) == MapThenSumSet(LAMBDA x : f[x], S)

\* Subsets by their size.
LEMMA SmallerSet ==
  ASSUME NEW S, IsFiniteSet(S), NEW s \in SUBSET S
  PROVE  /\ IsFiniteSet(s) /\ Cardinality(s) \in Nat /\ Cardinality(s) =< Cardinality(S)
         /\ Cardinality(s) = 0 <=> s = {}
         /\ \A x \in s : s \ {x} \in SUBSET S /\ Cardinality(s \ {x}) = Cardinality(s) - 1
<1>1. IsFiniteSet(s) /\ Cardinality(s) =< Cardinality(S)
  BY FS_Subset
<1>2. Cardinality(s) \in Nat
  BY <1>1, FS_CardinalityType
<1>3. Cardinality(s) = 0 <=> s = {}
  BY <1>1, FS_EmptySet
<1>4. \A x \in s : Cardinality(s \ {x}) = Cardinality(s) - 1
  BY <1>1, FS_RemoveElement
<1> QED
  BY <1>1, <1>2, <1>3, <1>4

LEMMA ChosenElement ==
  ASSUME NEW s, s # {}
  PROVE  (CHOOSE y \in s : TRUE) \in s
OBVIOUS

LEMMA AddsExists ==
  ASSUME NEW S, IsFiniteSet(S), NEW f
  PROVE  \E g : Adds(f, S, g)
<1> DEFINE C(n) == {s \in SUBSET S : Cardinality(s) =< n}
           P(n) == \E g : g = [s \in C(n) |-> Added(f, s, g)]
           T == {n \in Nat : ~P(n)}
<1>1. T = {}
  <2> SUFFICES ASSUME T # {} PROVE FALSE
    OBVIOUS
  <2>1. PICK m \in T : \A i \in T : m =< i
    BY LeastNat
  <2>2. m \in Nat /\ ~P(m)
    OBVIOUS
  <2>3. CASE m = 0
    <3> DEFINE g == [s \in C(0) |-> 0]
    <3>1. \A s \in C(0) : s = {}
      BY SmallerSet
    <3>2. \A s \in C(0) : Added(f, s, g) = 0
      BY <3>1 DEF Added
    <3>3. g = [s \in C(0) |-> Added(f, s, g)]
      BY <3>2
    <3> QED
      BY <2>2, <2>3, <3>3
  <2>4. CASE m # 0
    <3>1. m - 1 \in Nat /\ ~(m =< m - 1)
      BY <2>2, <2>4
    <3> HIDE DEF P
    <3>a. P(m - 1)
      BY <3>1, <2>1
    <3> USE DEF P
    <3>2. PICK h : h = [s \in C(m - 1) |-> Added(f, s, h)]
      BY <3>a
    <3> DEFINE g == [s \in C(m) |-> IF Cardinality(s) = m THEN Added(f, s, h) ELSE h[s]]
    <3>3. ASSUME NEW s \in C(m) PROVE g[s] = Added(f, s, g)
      <4>1. s \in SUBSET S /\ Cardinality(s) \in Nat /\ Cardinality(s) =< m
        BY SmallerSet
      <4>2. CASE s = {}
        <5>1. Cardinality(s) = 0 /\ s \in C(m - 1)
          BY <4>1, <4>2, <3>1, SmallerSet
        <5>2. g[s] = h[s]
          BY <5>1, <2>4
        <5>3. h[s] = Added(f, s, h)
          BY <5>1, <3>2
        <5> QED
          BY <5>2, <5>3, <4>2 DEF Added
      <4>3. CASE s # {}
        <5> DEFINE x == CHOOSE y \in s : TRUE
        <5>1. x \in s
          BY <4>3, ChosenElement
        <5> HIDE DEF x
        <5> DEFINE r == s \ {x}
        <5>2. r \in SUBSET S /\ Cardinality(r) = Cardinality(s) - 1
          BY <4>1, <5>1, SmallerSet
        <5> HIDE DEF r
        <5>3. r \in C(m - 1) /\ r \in C(m) /\ Cardinality(r) # m
          BY <5>2, <4>1, <2>2
        <5>4. g[r] = h[r]
          BY <5>3
        <5>5. Added(f, s, g) = f[x] + g[r] /\ Added(f, s, h) = f[x] + h[r]
          BY <4>3 DEF Added, x, r
        <5>6. g[s] = Added(f, s, h)
          <6>1. CASE Cardinality(s) = m
            BY <6>1
          <6>2. CASE Cardinality(s) # m
            <7>1. s \in C(m - 1)
              BY <6>2, <4>1, <2>2
            <7>2. h[s] = Added(f, s, h)
              BY <7>1, <3>2
            <7> QED
              BY <6>2, <7>2
          <6> QED
            BY <6>1, <6>2
        <5> QED
          BY <5>4, <5>5, <5>6
      <4> QED
        BY <4>2, <4>3
    <3>4. g = [s \in C(m) |-> g[s]]
      OBVIOUS
    <3> HIDE DEF g
    <3>5. g = [s \in C(m) |-> Added(f, s, g)]
      BY <3>3, <3>4
    <3> QED
      BY <2>2, <3>5
  <2> QED
    BY <2>3, <2>4
<1>2. Cardinality(S) \in Nat
  BY FS_CardinalityType
<1>3. C(Cardinality(S)) = SUBSET S
  BY SmallerSet
<1>4. P(Cardinality(S))
  BY <1>1, <1>2
<1> HIDE DEF C
<1>5. PICK g : g = [s \in C(Cardinality(S)) |-> Added(f, s, g)]
  BY <1>4
<1>6. g = [s \in SUBSET S |-> Added(f, s, g)]
  BY <1>3, <1>5
<1> QED
  BY <1>6 DEF Adds

LEMMA AddsAt ==
  ASSUME NEW f, NEW S, NEW g, Adds(f, S, g), NEW s \in SUBSET S
  PROVE  g[s] = Added(f, s, g)
BY DEF Adds

\* Two ways to add up the same numbers agree.
LEMMA AddsAgree ==
  ASSUME NEW S, IsFiniteSet(S), NEW f, NEW g, Adds(f, S, g),
         NEW R \in SUBSET S, NEW e, NEW h, Adds(e, R, h), \A x \in R : e[x] = f[x]
  PROVE  \A s \in SUBSET R : h[s] = g[s]
<1> DEFINE T == {n \in Nat : \E s \in SUBSET R : Cardinality(s) = n /\ h[s] # g[s]}
<1>1. T = {}
  <2> SUFFICES ASSUME T # {} PROVE FALSE
    OBVIOUS
  <2>1. PICK m \in T : \A i \in T : m =< i
    BY LeastNat
  <2>2. PICK s \in SUBSET R : Cardinality(s) = m /\ h[s] # g[s]
    OBVIOUS
  <2>3. s \in SUBSET S /\ h[s] = Added(e, s, h) /\ g[s] = Added(f, s, g)
    BY AddsAt
  <2>4. s # {}
    BY <2>2, <2>3 DEF Added
  <2> DEFINE x == CHOOSE y \in s : TRUE
  <2>5. x \in s
    BY <2>4, ChosenElement
  <2>6. h[s] = e[x] + h[s \ {x}] /\ g[s] = f[x] + g[s \ {x}]
    BY <2>3, <2>4 DEF Added
  <2> HIDE DEF x
  <2> DEFINE r == s \ {x}
  <2>7. Cardinality(r) = m - 1 /\ m \in Nat /\ m - 1 \in Nat
    BY <2>2, <2>3, <2>4, <2>5, SmallerSet
  <2>8. r \in SUBSET R
    OBVIOUS
  <2> HIDE DEF r
  <2>9. m - 1 \notin T
    BY <2>1, <2>7
  <2>10. h[r] = g[r]
    BY <2>7, <2>8, <2>9
  <2>12. h[s] = e[x] + h[r] /\ g[s] = f[x] + g[r]
    BY <2>6 DEF r
  <2>11. e[x] = f[x]
    BY <2>5
  <2> QED
    BY <2>2, <2>12, <2>10, <2>11
<1> QED
  <2> SUFFICES ASSUME NEW s \in SUBSET R, h[s] # g[s] PROVE FALSE
    OBVIOUS
  <2>1. s \in SUBSET S
    OBVIOUS
  <2>2. Cardinality(s) \in Nat
    BY <2>1, SmallerSet
  <2> QED
    BY <1>1, <2>2

\* A sum is what any way to add up gives.
LEMMA SumIs ==
  ASSUME NEW S, IsFiniteSet(S), NEW f, NEW g, Adds(f, S, g)
  PROVE  SumOf(f, S) = g[S]
<1>1. SumOf(f, S) = (CHOOSE h : h = [s \in SUBSET S |->
                       IF s = {} THEN 0
                       ELSE LET x == CHOOSE y \in s : TRUE IN f[x] + h[s \ {x}]])[S]
  BY DEF SumOf, MapThenSumSet, MapThenFoldSet
<1>2. SumOf(f, S) = (CHOOSE h : Adds(f, S, h))[S]
  BY <1>1 DEF Adds, Added
<1>3. PICK h : Adds(f, S, h) /\ SumOf(f, S) = h[S]
  BY <1>2
<1>4. \A s \in SUBSET S : h[s] = g[s]
  BY <1>3, AddsAgree
<1> QED
  BY <1>3, <1>4

\* Whichever element is added first.
LEMMA AddsAny ==
  ASSUME NEW S, IsFiniteSet(S), NEW f, \A x \in S : f[x] \in Int, NEW g, Adds(f, S, g)
  PROVE  \A s \in SUBSET S : g[s] \in Int /\ \A x \in s : g[s] = f[x] + g[s \ {x}]
<1> DEFINE Good(s) == g[s] \in Int /\ \A x \in s : g[s] = f[x] + g[s \ {x}]
           T == {n \in Nat : \E s \in SUBSET S : Cardinality(s) = n /\ ~Good(s)}
<1>1. T = {}
  <2> SUFFICES ASSUME T # {} PROVE FALSE
    OBVIOUS
  <2>1. PICK m \in T : \A i \in T : m =< i
    BY LeastNat
  <2>2. PICK s \in SUBSET S : Cardinality(s) = m /\ ~Good(s)
    OBVIOUS
  <2>3. m \in Nat /\ g[s] = Added(f, s, g)
    BY AddsAt
  <2>4. s # {}
    BY <2>2, <2>3 DEF Added
  <2> DEFINE y == CHOOSE z \in s : TRUE
  <2>5. y \in s /\ g[s] = f[y] + g[s \ {y}]
    BY <2>3, <2>4, ChosenElement DEF Added
  <2> HIDE DEF y
  <2>6. ASSUME NEW r \in SUBSET S, Cardinality(r) \in Nat, Cardinality(r) < m PROVE Good(r)
    <3>1. Cardinality(r) \notin T
      BY <2>1, <2>3, <2>6
    <3> QED
      BY <3>1, <2>6
  <2>7. \A x \in s : s \ {x} \in SUBSET S /\ Cardinality(s \ {x}) = m - 1
    BY <2>2, SmallerSet
  <2>8. m # 0
    BY <2>2, <2>4, SmallerSet
  <2>9. \A x \in s : Good(s \ {x})
    <3>1. m - 1 \in Nat /\ m - 1 < m
      BY <2>3, <2>8
    <3> HIDE DEF Good
    <3> QED
      BY <3>1, <2>6, <2>7
  <2>10. g[s] \in Int
    <3>1. g[s \ {y}] \in Int
      BY <2>5, <2>9
    <3>2. f[y] \in Int
      BY <2>5
    <3> HIDE DEF Good
    <3> QED
      BY <3>1, <3>2, <2>5
  <2>11. ASSUME NEW x \in s PROVE g[s] = f[x] + g[s \ {x}]
    <3>1. CASE x = y
      BY <3>1, <2>5
    <3>2. CASE x # y
      <4>1. x \in s \ {y} /\ y \in s \ {x}
        BY <3>2, <2>5
      <4>2. g[s \ {y}] = f[x] + g[(s \ {y}) \ {x}]
        BY <4>1, <2>5, <2>9
      <4>3. g[s \ {x}] = f[y] + g[(s \ {x}) \ {y}]
        BY <4>1, <2>9
      <4>4. (s \ {y}) \ {x} = (s \ {x}) \ {y}
        OBVIOUS
      <4> DEFINE r == (s \ {x}) \ {y}
      <4>5. r \in SUBSET S /\ Cardinality(r) = m - 1 - 1
        <5> DEFINE q == s \ {x}
        <5>1. q \in SUBSET S /\ Cardinality(q) = m - 1 /\ y \in q
          BY <2>7, <4>1
        <5> HIDE DEF q, Good
        <5>2. q \ {y} \in SUBSET S /\ Cardinality(q \ {y}) = m - 1 - 1
          BY <5>1, SmallerSet
        <5> QED
          BY <5>2 DEF q
      <4>6. Cardinality(r) \in Nat /\ Cardinality(r) < m
        BY <4>5, <2>3, SmallerSet
      <4>7. g[r] \in Int
        BY <4>5, <4>6, <2>6
      <4>8. g[s] = f[y] + (f[x] + g[r]) /\ g[s \ {x}] = f[y] + g[r]
        BY <4>2, <4>3, <4>4, <2>5
      <4> HIDE DEF r
      <4>9. f[x] \in Int /\ f[y] \in Int
        BY <2>5
      <4> QED
        BY <4>7, <4>8, <4>9
    <3> QED
      BY <3>1, <3>2
  <2> QED
    BY <2>2, <2>10, <2>11
<1>2. ASSUME NEW s \in SUBSET S PROVE Good(s)
  <2>1. Cardinality(s) \in Nat
    BY SmallerSet
  <2> HIDE DEF Good
  <2> QED
    BY <1>1, <2>1
<1> QED
  BY <1>2

LEMMA SumAt ==
  ASSUME NEW S, IsFiniteSet(S), NEW f, NEW g, Adds(f, S, g), NEW R \in SUBSET S
  PROVE  SumOf(f, R) = g[R]
<1>1. IsFiniteSet(R)
  BY FS_Subset
<1>2. PICK h : Adds(f, R, h)
  BY <1>1, AddsExists
<1>3. SumOf(f, R) = h[R]
  BY <1>1, <1>2, SumIs
<1>4. \A s \in SUBSET R : h[s] = g[s]
  BY <1>2, AddsAgree
<1> QED
  BY <1>3, <1>4

LEMMA SumEmpty ==
  ASSUME NEW f
  PROVE  SumOf(f, {}) = 0
<1>1. IsFiniteSet({})
  BY FS_EmptySet
<1>2. PICK g : Adds(f, {}, g)
  BY <1>1, AddsExists
<1>3. SumOf(f, {}) = g[{}]
  BY <1>1, <1>2, SumIs
<1>4. g[{}] = Added(f, {}, g)
  BY <1>2, AddsAt
<1> QED
  BY <1>3, <1>4 DEF Added

\* One number apart from the rest.
LEMMA SumStep ==
  ASSUME NEW S, IsFiniteSet(S), NEW f, \A x \in S : f[x] \in Int, NEW y \in S
  PROVE  /\ SumOf(f, S) \in Int /\ SumOf(f, S \ {y}) \in Int
         /\ SumOf(f, S) = f[y] + SumOf(f, S \ {y})
<1>1. PICK g : Adds(f, S, g)
  BY AddsExists
<1>2. S \in SUBSET S /\ S \ {y} \in SUBSET S
  OBVIOUS
<1>3. SumOf(f, S) = g[S]
  BY <1>1, <1>2, SumAt
<1>4. SumOf(f, S \ {y}) = g[S \ {y}]
  <2> DEFINE R == S \ {y}
  <2>1. R \in SUBSET S
    OBVIOUS
  <2> HIDE DEF R
  <2>2. SumOf(f, R) = g[R]
    BY <1>1, <2>1, SumAt
  <2> QED
    BY <2>2 DEF R
<1>5. \A s \in SUBSET S : g[s] \in Int /\ \A x \in s : g[s] = f[x] + g[s \ {x}]
  BY <1>1, AddsAny
<1> QED
  BY <1>2, <1>3, <1>4, <1>5

LEMMA SumSame ==
  ASSUME NEW S, IsFiniteSet(S), NEW f, NEW e, \A x \in S : e[x] = f[x]
  PROVE  SumOf(e, S) = SumOf(f, S)
<1>1. PICK g : Adds(f, S, g)
  BY AddsExists
<1>2. PICK h : Adds(e, S, h)
  BY AddsExists
<1>3. SumOf(f, S) = g[S] /\ SumOf(e, S) = h[S]
  BY <1>1, <1>2, SumIs
<1>4. S \in SUBSET S
  OBVIOUS
<1>5. \A s \in SUBSET S : h[s] = g[s]
  BY <1>1, <1>2, <1>4, AddsAgree
<1> QED
  BY <1>3, <1>4, <1>5

LEMMA SumInt ==
  ASSUME NEW S, IsFiniteSet(S), NEW f, \A x \in S : f[x] \in Int
  PROVE  SumOf(f, S) \in Int
<1>1. CASE S = {}
  BY <1>1, SumEmpty
<1>2. CASE S # {}
  <2>1. PICK y \in S : TRUE
    BY <1>2
  <2> QED
    BY <2>1, SumStep
<1> QED
  BY <1>1, <1>2

\* One number changed.
LEMMA SumChanged ==
  ASSUME NEW S, IsFiniteSet(S), NEW f, NEW e, NEW y \in S,
         \A x \in S : f[x] \in Int, \A x \in S \ {y} : e[x] = f[x], e[y] \in Int
  PROVE  SumOf(e, S) = SumOf(f, S) - f[y] + e[y]
<1> DEFINE R == S \ {y}
<1>1. SumOf(f, S) \in Int /\ SumOf(f, R) \in Int /\ SumOf(f, S) = f[y] + SumOf(f, R)
  BY SumStep
<1>2. \A x \in S : e[x] \in Int
  OBVIOUS
<1>3. SumOf(e, S) = e[y] + SumOf(e, R)
  BY <1>2, SumStep
<1>4. IsFiniteSet(R) /\ \A x \in R : e[x] = f[x]
  BY FS_RemoveElement
<1> HIDE DEF R
<1>5. SumOf(e, R) = SumOf(f, R)
  BY <1>4, SumSame
<1>6. f[y] \in Int
  OBVIOUS
<1> QED
  BY <1>1, <1>3, <1>5, <1>6

LEMMA SumWith ==
  ASSUME NEW S, IsFiniteSet(S), NEW f, \A x \in S : f[x] \in Int,
         NEW y, y \notin S, f[y] \in Int
  PROVE  SumOf(f, S \cup {y}) = f[y] + SumOf(f, S)
<1> DEFINE R == S \cup {y}
<1>1. IsFiniteSet(R) /\ y \in R /\ \A x \in R : f[x] \in Int
  BY FS_AddElement
<1>2. R \ {y} = S
  OBVIOUS
<1> HIDE DEF R
<1>3. SumOf(f, R) = f[y] + SumOf(f, R \ {y})
  BY <1>1, SumStep
<1> QED
  BY <1>2, <1>3 DEF R

\* A sum of counts bounds each of them.
LEMMA SumCounts ==
  ASSUME NEW S, IsFiniteSet(S), NEW f, \A x \in S : f[x] \in Nat
  PROVE  SumOf(f, S) \in Nat /\ \A x \in S : f[x] =< SumOf(f, S)
<1> DEFINE T == {n \in Nat : \E s \in SUBSET S : Cardinality(s) = n /\ SumOf(f, s) \notin Nat}
<1>1. T = {}
  <2> SUFFICES ASSUME T # {} PROVE FALSE
    OBVIOUS
  <2>1. PICK m \in T : \A i \in T : m =< i
    BY LeastNat
  <2>2. PICK s \in SUBSET S : Cardinality(s) = m /\ SumOf(f, s) \notin Nat
    OBVIOUS
  <2>3. s # {}
    BY <2>2, SumEmpty
  <2>4. PICK y \in s : TRUE
    BY <2>3
  <2>5. IsFiniteSet(s) /\ \A x \in s : f[x] \in Int
    BY SmallerSet
  <2>6. SumOf(f, s) = f[y] + SumOf(f, s \ {y})
    BY <2>5, SumStep
  <2> DEFINE r == s \ {y}
  <2>7. r \in SUBSET S /\ Cardinality(r) = m - 1 /\ m \in Nat
    BY <2>2, SmallerSet
  <2>8. m # 0
    BY <2>2, <2>3, SmallerSet
  <2> HIDE DEF r
  <2>9. m - 1 \notin T
    BY <2>1, <2>7
  <2>10. SumOf(f, r) \in Nat
    BY <2>7, <2>8, <2>9
  <2>11. f[y] \in Nat /\ SumOf(f, s) = f[y] + SumOf(f, r)
    BY <2>6 DEF r
  <2> QED
    BY <2>2, <2>10, <2>11
<1>2. \A s \in SUBSET S : SumOf(f, s) \in Nat
  <2> SUFFICES ASSUME NEW s \in SUBSET S, SumOf(f, s) \notin Nat PROVE FALSE
    OBVIOUS
  <2>1. Cardinality(s) \in Nat
    BY SmallerSet
  <2> QED
    BY <1>1, <2>1
<1>3. SumOf(f, S) \in Nat
  BY <1>2
<1>4. ASSUME NEW x \in S PROVE f[x] =< SumOf(f, S)
  <2>1. \A z \in S : f[z] \in Int
    OBVIOUS
  <2>2. SumOf(f, S) = f[x] + SumOf(f, S \ {x})
    BY <2>1, SumStep
  <2>3. S \ {x} \in SUBSET S
    OBVIOUS
  <2>4. SumOf(f, S \ {x}) \in Nat
    BY <1>2, <2>3
  <2>5. f[x] \in Nat
    OBVIOUS
  <2> QED
    BY <1>3, <2>2, <2>4, <2>5
<1> QED
  BY <1>3, <1>4

LEMMA SumZero ==
  ASSUME NEW S, IsFiniteSet(S), NEW f, \A x \in S : f[x] = 0
  PROVE  SumOf(f, S) = 0
<1> DEFINE T == {n \in Nat : \E s \in SUBSET S : Cardinality(s) = n /\ SumOf(f, s) # 0}
<1>1. T = {}
  <2> SUFFICES ASSUME T # {} PROVE FALSE
    OBVIOUS
  <2>1. PICK m \in T : \A i \in T : m =< i
    BY LeastNat
  <2>2. PICK s \in SUBSET S : Cardinality(s) = m /\ SumOf(f, s) # 0
    OBVIOUS
  <2>3. s # {}
    BY <2>2, SumEmpty
  <2>4. PICK y \in s : TRUE
    BY <2>3
  <2>5. IsFiniteSet(s) /\ \A x \in s : f[x] \in Int
    BY SmallerSet
  <2>6. SumOf(f, s) = f[y] + SumOf(f, s \ {y})
    BY <2>5, SumStep
  <2> DEFINE r == s \ {y}
  <2>7. r \in SUBSET S /\ Cardinality(r) = m - 1 /\ m \in Nat
    BY <2>2, SmallerSet
  <2>8. m # 0
    BY <2>2, <2>3, SmallerSet
  <2> HIDE DEF r
  <2>9. m - 1 \notin T
    BY <2>1, <2>7
  <2>10. SumOf(f, r) = 0
    BY <2>7, <2>8, <2>9
  <2>11. f[y] = 0 /\ SumOf(f, s) = f[y] + SumOf(f, r)
    BY <2>6 DEF r
  <2> QED
    BY <2>2, <2>10, <2>11
<1>2. Cardinality(S) \in Nat
  BY FS_CardinalityType
<1> QED
  BY <1>1, <1>2

-----------------------------------------------------------------------------
(***************************************************************************)
(* Double links that spell a sequence s of elements of E: f and l are its  *)
(* first and last, nx and pv link each entry to those beside it, and z is  *)
(* what stands for none.                                                   *)
(***************************************************************************)
EntryOf(z, s, i) == IF i \in 1 .. Len(s) THEN s[i] ELSE z

LinkMapOf(E, z, f) == f \in [E -> E \cup {z}]

Spells(E, z, s, f, l, nx, pv) ==
  /\ s \in Seq(E) /\ NoRepeat(s)
  /\ LinkMapOf(E, z, nx) /\ LinkMapOf(E, z, pv)
  /\ f = EntryOf(z, s, 1) /\ l = EntryOf(z, s, Len(s))
  /\ \A i \in 1 .. Len(s) :
       nx[s[i]] = EntryOf(z, s, i + 1) /\ pv[s[i]] = EntryOf(z, s, i - 1)

\* An entry is not z: what is beside the sequence is.
LEMMA EntryOfExact ==
  ASSUME NEW E, NEW z, z \notin E, NEW s \in Seq(E), NEW i \in Int
  PROVE  /\ EntryOf(z, s, i) \in E \cup {z}
         /\ EntryOf(z, s, i) # z <=> i \in 1 .. Len(s)
         /\ i \in 1 .. Len(s) => EntryOf(z, s, i) = s[i] /\ s[i] \in E /\ s[i] # z
<1>1. \A j \in 1 .. Len(s) : s[j] \in E /\ s[j] # z
  OBVIOUS
<1> QED
  BY <1>1 DEF EntryOf

\* Linking n at the end.
LEMMA SpellsPushed ==
  ASSUME NEW E, NEW z, z \notin E,
         NEW s, NEW f, NEW l, NEW nx, NEW pv, Spells(E, z, s, f, l, nx, pv),
         NEW n \in E, n \notin Range(s),
         NEW nx2, LinkMapOf(E, z, nx2), nx2[n] = z,
         \A x \in E : x # n => nx2[x] = IF x = l THEN n ELSE nx[x],
         NEW pv2, LinkMapOf(E, z, pv2),
         \A x \in E : pv2[x] = IF x = n THEN l ELSE pv[x]
  PROVE  Spells(E, z, Append(s, n), IF l = z THEN n ELSE f, n, nx2, pv2)
<1> DEFINE d == Append(s, n)
<1>1. /\ s \in Seq(E) /\ NoRepeat(s) /\ Len(s) \in Nat
      /\ LinkMapOf(E, z, nx) /\ LinkMapOf(E, z, pv)
      /\ f = EntryOf(z, s, 1) /\ l = EntryOf(z, s, Len(s))
      /\ \A i \in 1 .. Len(s) : nx[s[i]] = EntryOf(z, s, i + 1) /\ pv[s[i]] = EntryOf(z, s, i - 1)
  BY DEF Spells
<1>2. /\ d \in Seq(E) /\ Len(d) = Len(s) + 1
      /\ \A j \in 1 .. Len(s) : d[j] = s[j]
      /\ d[Len(s) + 1] = n
      /\ NoRepeat(d)
  BY <1>1, AppendExact
<1> HIDE DEF d
<1>3. l \in E \cup {z} /\ n \in E \cup {z} /\ \A j \in 1 .. Len(s) : s[j] \in E /\ s[j] # n
  BY <1>1, EntryOfExact, RangeOf
<1>4. /\ LinkMapOf(E, z, nx2) /\ nx2[n] = z
      /\ \A x \in E : x # n => nx2[x] = IF x = l THEN n ELSE nx[x]
      /\ LinkMapOf(E, z, pv2) /\ \A x \in E : pv2[x] = IF x = n THEN l ELSE pv[x]
  OBVIOUS
<1>5. /\ \A i \in 0 .. Len(s) : EntryOf(z, d, i) = EntryOf(z, s, i)
      /\ EntryOf(z, d, Len(s) + 1) = n
      /\ EntryOf(z, d, Len(s) + 2) = z
  BY <1>1, <1>2 DEF EntryOf
<1>6. l = z <=> Len(s) = 0
  BY <1>1, EntryOfExact
<1>7. ASSUME NEW i \in 1 .. Len(d)
      PROVE  nx2[d[i]] = EntryOf(z, d, i + 1) /\ pv2[d[i]] = EntryOf(z, d, i - 1)
  <2>1. CASE i = Len(s) + 1
    <3>1. d[i] = n /\ n # l /\ i - 1 = Len(s) /\ i + 1 = Len(s) + 2
      BY <2>1, <1>1, <1>2, <1>3 DEF EntryOf
    <3>2. nx2[n] = z /\ pv2[n] = l
      BY <3>1, <1>4
    <3>3. EntryOf(z, d, Len(s)) = l
      BY <1>1, <1>5
    <3> QED
      BY <3>1, <3>2, <3>3, <1>5
  <2>2. CASE i = Len(s)
    <3>1. d[i] = s[i] /\ l = s[i] /\ s[i] \in E /\ s[i] # n /\ i \in 1 .. Len(s)
      BY <2>2, <1>1, <1>2, <1>3 DEF EntryOf
    <3>2. nx2[s[i]] = n /\ pv2[s[i]] = pv[s[i]]
      BY <3>1, <1>4
    <3>3. pv[s[i]] = EntryOf(z, s, i - 1)
      BY <3>1, <1>1, Zenon
    <3>4. i - 1 \in 0 .. Len(s)
      BY <3>1
    <3> QED
      BY <3>1, <3>2, <3>3, <3>4, <2>2, <1>5
  <2>3. CASE i < Len(s)
    <3>1. /\ d[i] = s[i] /\ s[i] \in E /\ s[i] # n /\ i \in 1 .. Len(s)
          /\ i - 1 \in 0 .. Len(s) /\ i + 1 \in 0 .. Len(s)
      BY <2>3, <1>1, <1>2, <1>3
    <3>2. s[i] # l
      BY <2>3, <1>1 DEF EntryOf, NoRepeat
    <3> QED
      BY <3>1, <3>2, <1>1, <1>4, <1>5
  <2> QED
    BY <2>1, <2>2, <2>3, <1>1, <1>2
<1>8. (IF l = z THEN n ELSE f) = EntryOf(z, d, 1)
  <2>1. CASE Len(s) = 0
    BY <2>1, <1>5, <1>6
  <2>2. CASE Len(s) > 0
    BY <2>2, <1>1, <1>5, <1>6
  <2> QED
    BY <2>1, <2>2, <1>1
<1>9. n = EntryOf(z, d, Len(d))
  BY <1>2, <1>5
<1> QED
  BY <1>2, <1>4, <1>7, <1>8, <1>9 DEF Spells, d

\* Linking n before the i-th element.
LEMMA SpellsInserted ==
  ASSUME NEW E, NEW z, z \notin E,
         NEW s, NEW f, NEW l, NEW nx, NEW pv, Spells(E, z, s, f, l, nx, pv),
         NEW i \in 1 .. Len(s), NEW n \in E, n \notin Range(s),
         NEW nx2, LinkMapOf(E, z, nx2),
         \A x \in E : nx2[x] = IF x = pv[s[i]] THEN n ELSE IF x = n THEN s[i] ELSE nx[x],
         NEW pv2, LinkMapOf(E, z, pv2),
         \A x \in E : pv2[x] = IF x = s[i] THEN n ELSE IF x = n THEN pv[s[i]] ELSE pv[x]
  PROVE  Spells(E, z, InsertAt(s, i, n), IF pv[s[i]] = z THEN n ELSE f, l, nx2, pv2)
<1> DEFINE d == InsertAt(s, i, n)
           e == s[i]
           b == EntryOf(z, s, i - 1)
<1>1. /\ s \in Seq(E) /\ NoRepeat(s) /\ Len(s) \in Nat
      /\ LinkMapOf(E, z, nx) /\ LinkMapOf(E, z, pv)
      /\ f = EntryOf(z, s, 1) /\ l = EntryOf(z, s, Len(s))
      /\ \A j \in 1 .. Len(s) : nx[s[j]] = EntryOf(z, s, j + 1) /\ pv[s[j]] = EntryOf(z, s, j - 1)
  BY DEF Spells
<1>2. /\ d \in Seq(E) /\ Len(d) = Len(s) + 1 /\ NoRepeat(d)
      /\ \A j \in 1 .. Len(s) + 1 : d[j] = IF j < i THEN s[j] ELSE IF j = i THEN n ELSE s[j - 1]
  <2>0. i \in 1 .. Len(s) + 1
    BY <1>1
  <2>1. d \in Seq(E) /\ Len(d) = Len(s) + 1 /\ InsertedAt(s, Len(s), i, n, d)
    BY <2>0, <1>1, InsertAtExact
  <2>2. NoRepeat(d)
    BY <2>0, <1>1, InsertNew
  <2> QED
    BY <2>1, <2>2 DEF InsertedAt
<1> HIDE DEF d
<1>0. Len(s) \in Nat /\ i \in Nat /\ 1 =< i /\ i =< Len(s)
  BY <1>1
<1>3. /\ e \in E /\ b \in E \cup {z} /\ e \in E \cup {z} /\ n \in E \cup {z}
      /\ \A j \in 1 .. Len(s) : s[j] \in E /\ s[j] # n /\ (s[j] = e <=> j = i)
      /\ n # b
      /\ \A j \in 1 .. Len(s) : s[j] = b <=> j = i - 1
      /\ b = z <=> i = 1
  <2>1. \A j \in 1 .. Len(s) : s[j] \in E /\ s[j] # n /\ (s[j] = e <=> j = i)
    BY <1>1, RangeOf DEF NoRepeat
  <2>2. b \in E \cup {z} /\ (b # z <=> i - 1 \in 1 .. Len(s))
    BY <1>1, EntryOfExact
  <2>3. i # 1 => b = s[i - 1] /\ i - 1 \in 1 .. Len(s)
    BY <1>1 DEF EntryOf
  <2>4. i = 1 => b = z
    BY <1>1 DEF EntryOf
  <2>5. \A j \in 1 .. Len(s) : s[j] = b <=> j = i - 1
    <3>1. CASE i = 1
      BY <3>1, <2>1, <2>4
    <3>2. CASE i # 1
      BY <3>2, <2>3, <1>1 DEF NoRepeat
    <3> QED
      BY <3>1, <3>2
  <2>6. n # b
    BY <2>1, <2>3, <2>4
  <2>7. b = z <=> i = 1
    BY <2>2, <2>3, <2>4
  <2> QED
    BY <2>1, <2>2, <2>5, <2>6, <2>7
<1>4. pv[s[i]] = b
  BY <1>1
<1>6. /\ \A x \in E : nx2[x] = IF x = b THEN n ELSE IF x = n THEN e ELSE nx[x]
      /\ \A x \in E : pv2[x] = IF x = e THEN n ELSE IF x = n THEN b ELSE pv[x]
  BY <1>4
<1> HIDE DEF b, e
<1>7. /\ \A j \in 0 .. i - 1 : EntryOf(z, d, j) = EntryOf(z, s, j)
      /\ EntryOf(z, d, i) = n
      /\ \A j \in i .. Len(s) + 1 : EntryOf(z, d, j + 1) = EntryOf(z, s, j)
  <2>1. \A j \in 0 .. i - 1 : EntryOf(z, d, j) = EntryOf(z, s, j)
    BY <1>1, <1>2 DEF EntryOf
  <2>2. EntryOf(z, d, i) = n
    BY <1>1, <1>2 DEF EntryOf
  <2>3. ASSUME NEW j \in i .. Len(s) + 1 PROVE EntryOf(z, d, j + 1) = EntryOf(z, s, j)
    <3>1. CASE j = Len(s) + 1
      BY <3>1, <1>1, <1>2 DEF EntryOf
    <3>2. CASE j # Len(s) + 1
      <4>1. j \in 1 .. Len(s) /\ j + 1 \in 1 .. Len(s) + 1 /\ j + 1 > i /\ j + 1 - 1 = j
        BY <3>2, <1>0
      <4>2. d[j + 1] = s[j]
        BY <4>1, <1>2, <1>1
      <4> QED
        BY <4>1, <4>2, <1>2 DEF EntryOf
    <3> QED
      BY <3>1, <3>2
  <2> QED
    BY <2>1, <2>2, <2>3
<1>8. ASSUME NEW j \in 1 .. Len(d)
      PROVE  nx2[d[j]] = EntryOf(z, d, j + 1) /\ pv2[d[j]] = EntryOf(z, d, j - 1)
  <2>0. j \in 1 .. Len(s) + 1 /\ i \in 1 .. Len(s)
    BY <1>2
  <2>1. CASE j = i
    <3>1. d[j] = n
      BY <2>0, <2>1, <1>2
    <3>2. nx2[n] = e /\ pv2[n] = b
      BY <1>3, <1>6, <2>0 DEF e
    <3>3. EntryOf(z, d, i + 1) = e /\ EntryOf(z, d, i - 1) = b
      <4>1. i \in i .. Len(s) + 1 /\ i - 1 \in 0 .. i - 1
        BY <2>0, <1>1
      <4>2. EntryOf(z, s, i) = s[i]
        BY <2>0 DEF EntryOf
      <4> QED
        BY <4>1, <4>2, <1>7 DEF e, b
    <3> QED
      BY <3>1, <3>2, <3>3, <2>1
  <2>2. CASE j < i
    <3>1. /\ j \in 1 .. Len(s) /\ d[j] = s[j] /\ s[j] \in E /\ s[j] # n
          /\ s[j] # e /\ (s[j] = b <=> j = i - 1)
          /\ j - 1 \in 0 .. i - 1
      BY <2>0, <2>2, <1>1, <1>2, <1>3
    <3>2. pv2[s[j]] = EntryOf(z, s, j - 1)
      BY <3>1, <1>1, <1>6
    <3>3. CASE j = i - 1
      <4>1. nx2[s[j]] = n /\ j + 1 = i
        BY <3>1, <3>3, <1>6, <2>0
      <4> QED
        BY <4>1, <3>1, <3>2, <1>7
    <3>4. CASE j # i - 1
      <4>1. nx2[s[j]] = EntryOf(z, s, j + 1) /\ j + 1 \in 0 .. i - 1
        BY <3>1, <3>4, <1>1, <1>6, <2>0, <2>2
      <4> QED
        BY <4>1, <3>1, <3>2, <1>7
    <3> QED
      BY <3>3, <3>4
  <2>3. CASE j > i
    <3> DEFINE k == j - 1
    <3>0. k \in i .. Len(s) /\ k \in 1 .. Len(s) /\ j = k + 1 /\ k # i - 1
      BY <2>0, <2>3, <1>1
    <3>1. /\ d[j] = s[k] /\ s[k] \in E /\ s[k] # n
          /\ s[k] # b /\ (s[k] = e <=> k = i)
      BY <2>0, <2>3, <3>0, <1>2, <1>3
    <3> HIDE DEF k
    <3>2. nx2[s[k]] = EntryOf(z, s, k + 1)
      BY <3>0, <3>1, <1>1, <1>6
    <3>3. EntryOf(z, d, j + 1) = EntryOf(z, s, k + 1)
      <4>1. k + 1 \in i .. Len(s) + 1
        BY <3>0, <2>0
      <4> QED
        BY <4>1, <3>0, <1>7
    <3>4. CASE k = i
      <4>1. pv2[s[k]] = n /\ j - 1 = i
        BY <3>0, <3>1, <3>4, <1>6, <2>0
      <4> QED
        BY <4>1, <3>1, <3>2, <3>3, <1>7
    <3>5. CASE k # i
      <4>1. pv2[s[k]] = EntryOf(z, s, k - 1)
        BY <3>0, <3>1, <3>5, <1>1, <1>6
      <4>2. k - 1 \in i .. Len(s) + 1 /\ j - 1 = k - 1 + 1
        BY <3>0, <3>5, <2>0
      <4>3. EntryOf(z, d, j - 1) = EntryOf(z, s, k - 1)
        BY <4>2, <1>7
      <4> QED
        BY <4>1, <4>3, <3>1, <3>2, <3>3
    <3> QED
      BY <3>4, <3>5
  <2> QED
    BY <2>0, <2>1, <2>2, <2>3
<1>9. (IF b = z THEN n ELSE f) = EntryOf(z, d, 1) /\ l = EntryOf(z, d, Len(d))
  <2>1. 1 \in 0 .. i - 1 \/ i = 1
    BY <1>1
  <2>2. Len(s) \in i .. Len(s) + 1
    BY <1>1
  <2> QED
    BY <2>1, <2>2, <1>1, <1>2, <1>3, <1>7
<1> QED
  BY <1>2, <1>4, <1>6, <1>8, <1>9 DEF Spells, d, e

\* Unlinking the i-th element, whatever becomes of its own links.
LEMMA SpellsRemoved ==
  ASSUME NEW E, NEW z, z \notin E,
         NEW s, NEW f, NEW l, NEW nx, NEW pv, Spells(E, z, s, f, l, nx, pv),
         NEW i \in 1 .. Len(s),
         NEW nx2, LinkMapOf(E, z, nx2),
         \A x \in E : x # s[i] => nx2[x] = IF x = pv[s[i]] THEN nx[s[i]] ELSE nx[x],
         NEW pv2, LinkMapOf(E, z, pv2),
         \A x \in E : x # s[i] => pv2[x] = IF x = nx[s[i]] THEN pv[s[i]] ELSE pv[x]
  PROVE  Spells(E, z, RemoveAt(s, i),
                IF pv[s[i]] = z THEN nx[s[i]] ELSE f,
                IF nx[s[i]] = z THEN pv[s[i]] ELSE l, nx2, pv2)
<1> DEFINE d == RemoveAt(s, i)
           e == s[i]
           b == EntryOf(z, s, i - 1)
           a == EntryOf(z, s, i + 1)
<1>1. /\ s \in Seq(E) /\ NoRepeat(s) /\ Len(s) \in Nat
      /\ LinkMapOf(E, z, nx) /\ LinkMapOf(E, z, pv)
      /\ f = EntryOf(z, s, 1) /\ l = EntryOf(z, s, Len(s))
      /\ \A j \in 1 .. Len(s) : nx[s[j]] = EntryOf(z, s, j + 1) /\ pv[s[j]] = EntryOf(z, s, j - 1)
  BY DEF Spells
<1>0. Len(s) \in Nat /\ i \in Nat /\ 1 =< i /\ i =< Len(s)
  BY <1>1
<1>2. /\ d \in Seq(E) /\ Len(d) = Len(s) - 1 /\ NoRepeat(d)
      /\ \A j \in 1 .. Len(s) - 1 : d[j] = IF j < i THEN s[j] ELSE s[j + 1]
  <2>1. d \in Seq(E) /\ Len(d) = Len(s) - 1 /\ RemovedAt(s, Len(s), i, d)
    BY <1>1, RemoveAtExact
  <2>2. NoRepeat(d)
    BY <1>1, RemoveOld
  <2> QED
    BY <2>1, <2>2 DEF RemovedAt
<1> HIDE DEF d
<1>3. /\ b \in E \cup {z} /\ a \in E \cup {z}
      /\ \A j \in 1 .. Len(s) : s[j] \in E /\ (s[j] = e <=> j = i)
      /\ \A j \in 1 .. Len(s) : s[j] = b <=> j = i - 1
      /\ \A j \in 1 .. Len(s) : s[j] = a <=> j = i + 1
      /\ b = z <=> i = 1
      /\ a = z <=> i = Len(s)
  <2>1. \A j \in 1 .. Len(s) : s[j] \in E /\ s[j] # z /\ (s[j] = e <=> j = i)
    BY <1>1 DEF NoRepeat
  <2>2. b \in E \cup {z} /\ (b # z <=> i - 1 \in 1 .. Len(s))
    <3>1. i - 1 \in Int /\ s \in Seq(E)
      BY <1>0, <1>1
    <3> QED
      BY <3>1, EntryOfExact
  <2>3. a \in E \cup {z} /\ (a # z <=> i + 1 \in 1 .. Len(s))
    <3>1. i + 1 \in Int /\ s \in Seq(E)
      BY <1>0, <1>1
    <3> QED
      BY <3>1, EntryOfExact
  <2>4. \A j \in 1 .. Len(s) : s[j] = b <=> j = i - 1
    <3>1. CASE i = 1
      BY <3>1, <2>1, <2>2, <1>0
    <3>2. CASE i # 1
      <4>1. i - 1 \in 1 .. Len(s) /\ b = s[i - 1]
        BY <3>2, <1>0 DEF EntryOf
      <4> QED
        BY <4>1, <1>1 DEF NoRepeat
    <3> QED
      BY <3>1, <3>2
  <2>5. \A j \in 1 .. Len(s) : s[j] = a <=> j = i + 1
    <3>1. CASE i = Len(s)
      BY <3>1, <2>1, <2>3, <1>0
    <3>2. CASE i # Len(s)
      <4>1. i + 1 \in 1 .. Len(s) /\ a = s[i + 1]
        BY <3>2, <1>0 DEF EntryOf
      <4> QED
        BY <4>1, <1>1 DEF NoRepeat
    <3> QED
      BY <3>1, <3>2
  <2>6. (b = z <=> i = 1) /\ (a = z <=> i = Len(s))
    BY <2>2, <2>3, <1>0
  <2> QED
    BY <2>1, <2>2, <2>3, <2>4, <2>5, <2>6
<1>4. pv[s[i]] = b /\ nx[s[i]] = a
  BY <1>1
<1>6. /\ \A x \in E : x # e => nx2[x] = IF x = b THEN a ELSE nx[x]
      /\ \A x \in E : x # e => pv2[x] = IF x = a THEN b ELSE pv[x]
  BY <1>4
<1> HIDE DEF b, a, e
<1>7. /\ \A j \in 0 .. i - 1 : EntryOf(z, d, j) = EntryOf(z, s, j)
      /\ \A j \in i .. Len(s) : EntryOf(z, d, j) = EntryOf(z, s, j + 1)
  <2>1. ASSUME NEW j \in 0 .. i - 1 PROVE EntryOf(z, d, j) = EntryOf(z, s, j)
    <3>1. CASE j = 0
      BY <3>1 DEF EntryOf
    <3>2. CASE j # 0
      <4>1. j \in 1 .. Len(s) - 1 /\ j < i /\ j \in 1 .. Len(s)
        BY <3>2, <1>0
      <4> QED
        BY <4>1, <1>2 DEF EntryOf
    <3> QED
      BY <3>1, <3>2
  <2>2. ASSUME NEW j \in i .. Len(s) PROVE EntryOf(z, d, j) = EntryOf(z, s, j + 1)
    <3>1. CASE j = Len(s)
      BY <3>1, <1>0, <1>2 DEF EntryOf
    <3>2. CASE j # Len(s)
      <4>1. j \in 1 .. Len(s) - 1 /\ ~(j < i) /\ j + 1 \in 1 .. Len(s)
        BY <3>2, <1>0
      <4> QED
        BY <4>1, <1>2 DEF EntryOf
    <3> QED
      BY <3>1, <3>2
  <2> QED
    BY <2>1, <2>2
<1>8. ASSUME NEW j \in 1 .. Len(d)
      PROVE  nx2[d[j]] = EntryOf(z, d, j + 1) /\ pv2[d[j]] = EntryOf(z, d, j - 1)
  <2>0. j \in 1 .. Len(s) - 1
    BY <1>2
  <2>1. CASE j < i
    <3>1. /\ j \in 1 .. Len(s) /\ d[j] = s[j] /\ s[j] \in E
          /\ s[j] # e /\ (s[j] = b <=> j = i - 1) /\ s[j] # a
          /\ j - 1 \in 0 .. i - 1
      BY <2>0, <2>1, <1>0, <1>2, <1>3
    <3>2. pv2[s[j]] = EntryOf(z, s, j - 1)
      BY <3>1, <1>1, <1>6
    <3>3. EntryOf(z, d, j - 1) = EntryOf(z, s, j - 1)
      BY <3>1, <1>7
    <3>4. nx2[s[j]] = EntryOf(z, d, j + 1)
      <4>1. CASE j = i - 1
        <5>1. nx2[s[j]] = a
          BY <3>1, <4>1, <1>6
        <5>2. i \in i .. Len(s) /\ j + 1 = i
          BY <4>1, <1>0
        <5> QED
          BY <5>1, <5>2, <1>7 DEF a
      <4>2. CASE j # i - 1
        <5>1. nx2[s[j]] = EntryOf(z, s, j + 1)
          BY <3>1, <4>2, <1>1, <1>6
        <5>2. j + 1 \in 0 .. i - 1
          BY <4>2, <2>0, <2>1, <1>0
        <5> QED
          BY <5>1, <5>2, <1>7
      <4> QED
        BY <4>1, <4>2
    <3> QED
      BY <3>1, <3>2, <3>3, <3>4
  <2>2. CASE j >= i
    <3> DEFINE k == j + 1
    <3>0. k \in 1 .. Len(s) /\ j = k - 1 /\ k # i - 1 /\ k # i /\ k > i
      BY <2>0, <2>2, <1>0
    <3>1. /\ d[j] = s[k] /\ s[k] \in E
          /\ s[k] # b /\ s[k] # e /\ (s[k] = a <=> k = i + 1)
      BY <2>0, <2>2, <3>0, <1>0, <1>2, <1>3
    <3> HIDE DEF k
    <3>2. nx2[s[k]] = EntryOf(z, s, k + 1)
      BY <3>0, <3>1, <1>1, <1>6
    <3>3. EntryOf(z, d, j + 1) = EntryOf(z, s, k + 1)
      <4>1. j + 1 \in i .. Len(s) /\ j + 1 + 1 = k + 1
        BY <2>0, <2>2, <3>0, <1>0
      <4> QED
        BY <4>1, <1>7
    <3>4. pv2[s[k]] = EntryOf(z, d, j - 1)
      <4>1. CASE k = i + 1
        <5>1. pv2[s[k]] = b
          BY <3>1, <4>1, <1>6
        <5>2. i - 1 \in 0 .. i - 1 /\ j - 1 = i - 1
          BY <4>1, <3>0, <1>0
        <5> QED
          BY <5>1, <5>2, <1>7 DEF b
      <4>2. CASE k # i + 1
        <5>1. pv2[s[k]] = EntryOf(z, s, k - 1)
          BY <3>0, <3>1, <4>2, <1>1, <1>6
        <5>2. j - 1 \in i .. Len(s) /\ j - 1 + 1 = k - 1
          BY <4>2, <2>0, <3>0, <1>0
        <5> QED
          BY <5>1, <5>2, <1>7
      <4> QED
        BY <4>1, <4>2
    <3> QED
      BY <3>1, <3>2, <3>3, <3>4
  <2> QED
    BY <2>0, <2>1, <2>2, <1>0
<1>9. (IF b = z THEN a ELSE f) = EntryOf(z, d, 1)
  <2>1. CASE i = 1
    <3>1. 1 \in i .. Len(s)
      BY <2>1, <1>0
    <3>2. EntryOf(z, d, 1) = EntryOf(z, s, 1 + 1)
      BY <3>1, <1>7
    <3> QED
      BY <2>1, <3>2, <1>3 DEF a
  <2>2. CASE i # 1
    <3>1. 1 \in 0 .. i - 1
      BY <2>2, <1>0
    <3> QED
      BY <2>2, <3>1, <1>1, <1>3, <1>7
  <2> QED
    BY <2>1, <2>2
<1>10. (IF a = z THEN b ELSE l) = EntryOf(z, d, Len(d))
  <2>1. CASE i = Len(s)
    <3>1. i - 1 \in 0 .. i - 1 /\ Len(d) = i - 1
      BY <2>1, <1>0, <1>2
    <3> QED
      BY <2>1, <3>1, <1>3, <1>7 DEF b
  <2>2. CASE i # Len(s)
    <3>1. Len(d) \in i .. Len(s) /\ Len(d) + 1 = Len(s)
      BY <2>2, <1>0, <1>2
    <3> QED
      BY <2>2, <3>1, <1>1, <1>3, <1>7
  <2> QED
    BY <2>1, <2>2
<1> QED
  BY <1>2, <1>4, <1>6, <1>8, <1>9, <1>10 DEF Spells, d, e

(***************************************************************************)
(* A walk of n steps along links, from p on: z leads to z.                 *)
(***************************************************************************)
LinkWalk(z, link, p, n, g) ==
  [j \in 0 .. n |-> IF j = 0 THEN p ELSE IF g[j - 1] = z THEN z ELSE link[g[j - 1]]]

\* Any function that satisfies the equation is the one that CHOOSE finds.
LEMMA LinkWalkIs ==
  ASSUME NEW z, NEW link, NEW p, NEW n \in Nat, NEW g, g = LinkWalk(z, link, p, n, g)
  PROVE  (CHOOSE f : f = LinkWalk(z, link, p, n, f)) = g
<1>2. PICK f : f = LinkWalk(z, link, p, n, f) /\
               (CHOOSE h : h = LinkWalk(z, link, p, n, h)) = f
  OBVIOUS
<1>3. ASSUME NEW h, h = LinkWalk(z, link, p, n, h), NEW j \in 0 .. n
      PROVE  h[j] = IF j = 0 THEN p ELSE IF h[j - 1] = z THEN z ELSE link[h[j - 1]]
  BY <1>3 DEF LinkWalk
<1> DEFINE T == {j \in 0 .. n : f[j] # g[j]}
<1>4. T = {}
  <2> SUFFICES ASSUME T # {} PROVE FALSE
    OBVIOUS
  <2>1. T \subseteq Nat
    OBVIOUS
  <2>2. PICK m \in T : \A j \in T : m =< j
    BY <2>1, LeastNat
  <2>3. m \in 0 .. n /\ f[m] # g[m]
    OBVIOUS
  <2>4. m # 0
    BY <2>3, <1>2, <1>3
  <2>5. m - 1 \in 0 .. n /\ m - 1 \notin T
    BY <2>2, <2>3, <2>4
  <2>6. f[m - 1] = g[m - 1]
    BY <2>5
  <2>7. f[m] = g[m]
    <3>1. f[m] = IF f[m - 1] = z THEN z ELSE link[f[m - 1]]
      BY <2>3, <2>4, <1>2, <1>3
    <3>2. g[m] = IF g[m - 1] = z THEN z ELSE link[g[m - 1]]
      BY <2>3, <2>4, <1>3
    <3> QED
      BY <3>1, <3>2, <2>6
  <2> QED
    BY <2>3, <2>7
<1>5. f = [j \in 0 .. n |-> f[j]] /\ g = [j \in 0 .. n |-> g[j]]
  BY <1>2 DEF LinkWalk
<1> QED
  BY <1>2, <1>4, <1>5

LinkWalked(z, link, p, n) == CHOOSE f : f = LinkWalk(z, link, p, n, f)

LinksFrom(E, z, s, link, p) ==
  /\ z \notin E /\ s \in Seq(E) /\ p = EntryOf(z, s, 1)
  /\ \A j \in 1 .. Len(s) : link[s[j]] = EntryOf(z, s, j + 1)

\* Along links that spell s, it meets the entries of s, then z.
LEMMA LinkWalkExact ==
  ASSUME NEW E, NEW z, NEW s, NEW link, NEW p, LinksFrom(E, z, s, link, p),
         NEW n \in Nat, NEW i \in 0 .. n
  PROVE  LinkWalked(z, link, p, n)[i] = EntryOf(z, s, i + 1)
<1>0. /\ z \notin E /\ s \in Seq(E) /\ p = EntryOf(z, s, 1)
      /\ \A j \in 1 .. Len(s) : link[s[j]] = EntryOf(z, s, j + 1)
  BY DEF LinksFrom
<1>1. Len(s) \in Nat /\ \A j \in 1 .. Len(s) : s[j] # z
  BY <1>0
<1>2. PICK g : g = [j \in 0 .. n |-> EntryOf(z, s, j + 1)]
  OBVIOUS
<1>3. ASSUME NEW j \in 0 .. n
      PROVE  g[j] = IF j = 0 THEN p ELSE IF g[j - 1] = z THEN z ELSE link[g[j - 1]]
  <2>1. CASE j = 0
    BY <1>0, <1>1, <1>2, <2>1
  <2>2. CASE j # 0
    <3>1. j - 1 \in 0 .. n /\ (j - 1) + 1 = j /\ j \in Int /\ j # 0
      BY <2>2
    <3>2. g[j - 1] = EntryOf(z, s, j) /\ g[j] = EntryOf(z, s, j + 1)
      BY <1>2, <3>1
    <3>3. CASE j \in 1 .. Len(s)
      <4>1. g[j - 1] = s[j] /\ s[j] # z
        BY <1>1, <3>2, <3>3 DEF EntryOf
      <4> QED
        BY <1>0, <2>2, <3>2, <3>3, <4>1
    <3>4. CASE j \notin 1 .. Len(s)
      <4>1. j + 1 \notin 1 .. Len(s)
        BY <1>1, <3>1, <3>4
      <4> QED
        BY <2>2, <3>2, <3>4, <4>1 DEF EntryOf
    <3> QED
      BY <3>3, <3>4
  <2> QED
    BY <2>1, <2>2
<1>4. g = LinkWalk(z, link, p, n, g)
  BY <1>2, <1>3 DEF LinkWalk
<1>5. (CHOOSE f : f = LinkWalk(z, link, p, n, f)) = g
  BY <1>4, LinkWalkIs
<1>6. g[i] = EntryOf(z, s, i + 1)
  BY <1>2
<1> QED
  BY <1>5, <1>6 DEF LinkWalked

LEMMA LinkWalkEntry ==
  ASSUME NEW E, NEW z, z \notin E, NEW s \in Seq(E), NEW link, NEW p, p = EntryOf(z, s, 1),
         \A j \in 1 .. Len(s) : link[s[j]] = EntryOf(z, s, j + 1),
         NEW n \in Nat
  PROVE  (CHOOSE f : f = LinkWalk(z, link, p, n, f))[n] = EntryOf(z, s, n + 1)
<1>1. n \in 0 .. n /\ LinksFrom(E, z, s, link, p)
  BY DEF LinksFrom
<1>2. LinkWalked(z, link, p, n)[n] = EntryOf(z, s, n + 1)
  BY <1>1, LinkWalkExact
<1> QED
  BY <1>2 DEF LinkWalked
=============================================================================
