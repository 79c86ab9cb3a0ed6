-------------------------------- MODULE Hash --------------------------------
(***************************************************************************)
(* lib/cnt/hash.c: a hash of values by key, with chained elements that     *)
(* live in a shelf (of which ShelfSet says enough).                        *)
(*                                                                         *)
(* The hash does not copy a string or binary key: an element points to the *)
(* place where the client keeps it, and compares what is there.  The       *)
(* client keeps, for every key in the hash, the place it gave last, and    *)
(* writes to the others.  Integer and pointer keys are the case in which   *)
(* nobody writes to a place.  The keys here are binary: string keys differ *)
(* in that cntHash_move_key aborts on them (line 244).                     *)
(***************************************************************************)
EXTENDS Integers, Sequences, FiniteSets, SequencesExt, FiniteSetsExt

CONSTANTS Element,      \* the addresses the shelf may hand out
          Place,        \* where the client keeps its keys
          Key,          \* what a key may be
          Value,
          NULL,
          NbLines,      \* 1 + total/per_line
          HashOf        \* hash_func: key -> 0 .. NbLines - 1

ASSUME HashAssumption ==
  /\ NULL \notin Element \cup Place \cup [at : Element, value : Value]
  /\ NbLines \in Nat \ {0}
  /\ HashOf \in [Key -> 0 .. NbLines - 1]

VARIABLES
  elements,    \* the elements of the shelf that are in use
  lines,       \* the first element of each line, NULL if there is none
  next, place, value,      \* the fields of an element; place is its key
  content,     \* what is at each place
  lent         \* key -> the place the client gave last, NULL if not in the hash

hashVars == <<elements, lines, next, place, value, content, lent>>

Line == 0 .. NbLines - 1

KeyAt(e) == content[place[e]]

-----------------------------------------------------------------------------
\* The element n links down line l; NULL where the line ends before.
Nth(l, n) ==
  LET walk[i \in 0 .. n] == IF i = 0 THEN lines[l]
                            ELSE LET e == walk[i - 1]
                                 IN  IF e = NULL THEN NULL ELSE next[e]
  IN  walk[n]

\* How many elements the walk down line l passes before it comes to one that
\* is in set found, or to the end.
Depth(l, found) ==
  CHOOSE n \in 0 .. Cardinality(elements) :
    /\ Nth(l, n) \in found \cup {NULL}
    /\ \A m \in 0 .. n - 1 : Nth(l, m) \notin found \cup {NULL}

\* Mutant: keys on the same line are taken for equal.
MatchingLine(k) == {e \in elements : HashOf[KeyAt(e)] = HashOf[k]}

\* keys_match
Matching(k) == {e \in elements : KeyAt(e) = k}

\* cntHash_get
Find(k) ==
  LET found == Matching(k) \cup {NULL}
      walk[e \in Element \cup {NULL}] == IF e \in found THEN e ELSE walk[next[e]]
  IN  walk[lines[HashOf[k]]]

-----------------------------------------------------------------------------
HashInit ==
  /\ elements = {}
  /\ lines = [l \in Line |-> NULL]
  /\ next = [e \in Element |-> NULL]
  /\ place = [e \in Element |-> NULL]
  /\ value = [e \in Element |-> NULL]
  /\ content \in [Place -> Key]
  /\ lent = [k \in Key |-> NULL]

\* Mutant: always the head of the line.
LinkFirst(l, d, p, e, q) ==
  lines' = [lines EXCEPT ![l] = p] /\ next' = [next EXCEPT ![e] = q]

\* What d elements of line l come before becomes p; what e comes before, q.
Link(l, d, p, e, q) ==
  IF d = 0
  THEN lines' = [lines EXCEPT ![l] = p] /\ next' = [next EXCEPT ![e] = q]
  ELSE /\ next' = [next EXCEPT ![Nth(l, d - 1)] = p, ![e] = q]
       /\ UNCHANGED lines

\* Mutant: the element keeps pointing to the place of the first put.
PlaceAfterUpdateNot(e, s) == place

PlaceAfterUpdate(e, s) == [place EXCEPT ![e] = s]

\* cntHash_put of the key kept at s: update its value, or add it to its line.
Put(s, w) ==
  LET k == content[s]
      l == HashOf[k]
      d == Depth(l, Matching(k))
      e == Nth(l, d)
  IN  /\ lent' = [lent EXCEPT ![k] = s]
      /\ \/ /\ e # NULL
            /\ value' = [value EXCEPT ![e] = w]
            /\ place' = PlaceAfterUpdate(e, s)
            /\ UNCHANGED <<elements, lines, next>>
         \/ /\ e = NULL
            /\ \E n \in Element \ elements :
                 /\ elements' = elements \cup {n}
                 /\ Link(l, d, n, n, NULL)
                 /\ value' = [value EXCEPT ![n] = w]
                 /\ place' = [place EXCEPT ![n] = s]
      /\ UNCHANGED content

\* Element e, after d others on line l, is unlinked and freed.
RemoveFrom(l, d, e) ==
  /\ Link(l, d, next[e], e, NULL)
  /\ elements' = elements \ {e}
  /\ value' = [value EXCEPT ![e] = NULL]
  /\ place' = [place EXCEPT ![e] = NULL]
  /\ lent' = [lent EXCEPT ![KeyAt(e)] = NULL]
  /\ UNCHANGED content

\* cntHash_remove; if the key is not there nothing changes.
RemoveKey(k) ==
  LET d == Depth(HashOf[k], Matching(k))
  IN  Find(k) # NULL /\ RemoveFrom(HashOf[k], d, Find(k))

\* cntHash_remove_by_address
RemoveByAddress(e) ==
  LET l == HashOf[KeyAt(e)]
      d == Depth(l, {e})
  IN  Nth(l, d) = e /\ RemoveFrom(l, d, e)

\* cntHash_clear; cntHash_del and cntHash_new leave the same.
Clear ==
  /\ elements' = {}
  /\ lines' = [l \in Line |-> NULL]
  /\ next' = [e \in Element |-> NULL]
  /\ place' = [e \in Element |-> NULL]
  /\ value' = [e \in Element |-> NULL]
  /\ lent' = [k \in Key |-> NULL]
  /\ UNCHANGED content

\* cntHash_move_key: the client has copied the key of e to place s.
MoveKey(e, s) ==
  /\ content[s] = KeyAt(e)
  /\ place' = [place EXCEPT ![e] = s]
  /\ lent' = [lent EXCEPT ![KeyAt(e)] = s]
  /\ UNCHANGED <<elements, lines, next, value, content>>

\* The client writes a key at a place that the hash should not be using.
Scribble(s, k) ==
  /\ s \notin Range(lent)
  /\ content' = [content EXCEPT ![s] = k]
  /\ UNCHANGED <<elements, lines, next, place, value, lent>>

-----------------------------------------------------------------------------
\* Every element is found by its own key, so no two have the same, none is in
\* a line that is not its key's and none is cut off from its line.
AllFound == \A e \in elements : Find(KeyAt(e)) = e

\* The hash is a map: put, remove, clear and move_key change it as hash.h
\* says, and the client's writes to its own memory do not.
Map == INSTANCE HashMap WITH Address <- Element, map <-
         [k \in Key |-> LET e == Find(k)
                        IN  IF e = NULL THEN NULL ELSE [at |-> e, value |-> value[e]]]
ImplementsMap == Map!MapSpec
=============================================================================
