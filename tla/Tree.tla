-------------------------------- MODULE Tree --------------------------------
(***************************************************************************)
(* lib/cnt/tree.c and the inline functions of include/libcnt/tree.h: a     *)
(* tree kept as one list.  A node comes right after its father, before the *)
(* sons that were there, and is linked with its brothers; the sons of a    *)
(* node are found from the element after it.                               *)
(*                                                                         *)
(* The list is cntList as ListSeq describes it: nodes stay where they are, *)
(* and the variable list is their order.  The values of the nodes, which   *)
(* the functions only copy, are left out; so is a second new after a del,  *)
(* which starts from the same state.                                       *)
(***************************************************************************)
EXTENDS Integers, Sequences, FiniteSets, SequencesExt, FiniteSetsExt

CONSTANTS Node, NoNode

ASSUME TreeAssumption == NoNode \notin Node /\ Node # {}

VARIABLES
  list,                    \* the nodes in the order of this->list
  father, brother_l, brother_r,
  each_order,
  owed                     \* the nodes of the last reset that each has not returned

treeVars == <<list, father, brother_l, brother_r, each_order, owed>>

NbNodes == Len(list)
Present == Range(list)
Place(n) == CHOOSE i \in 1 .. NbNodes : list[i] = n

\* cntList_next_by_address
After(n) == IF Place(n) = NbNodes THEN NoNode ELSE list[Place(n) + 1]

\* Mutant: whatever comes next is taken for a son.
FirstSonAny(f) == After(f)

\* The first son of f: the element after it, if f is its father.
FirstSon(f) ==
  IF After(f) # NoNode /\ father[After(f)] = f THEN After(f) ELSE NoNode

\* cntTree_get_son, and NoNode beyond the last one, where cntTree_nb_sons stops.
GetSon(f, o) ==
  LET walk[i \in 0 .. o] == IF i = 0 THEN FirstSon(f)
                            ELSE LET son == walk[i - 1]
                                 IN  IF son = NoNode THEN NoNode ELSE brother_r[son]
  IN  walk[o]

NbSons(f) == CHOOSE c \in 0 .. NbNodes :
               /\ GetSon(f, c) = NoNode
               /\ \A i \in 0 .. c - 1 : GetSon(f, i) # NoNode

-----------------------------------------------------------------------------
TreeInit ==
  \E root \in Node :
    /\ list = <<root>>
    /\ father = [n \in Node |-> NoNode]
    /\ brother_l = [n \in Node |-> NoNode]
    /\ brother_r = [n \in Node |-> NoNode]
    /\ each_order = 0
    /\ owed = {root}

RightBrother(son) == son

\* Mutant: the new node goes to the end of the list.
NewPositionLast(f) == NbNodes + 1

NewPosition(f) == Place(f) + 1

\* cntTree_add_node under f
AddNode(f, n) ==
  LET son == FirstSon(f)
  IN  /\ n \notin Present
      /\ list' = InsertAt(list, NewPosition(f), n)
      /\ father' = [father EXCEPT ![n] = f]
      /\ brother_r' = [brother_r EXCEPT ![n] = RightBrother(son)]
      /\ brother_l' = [m \in Node |-> IF m = n THEN NoNode
                                      ELSE IF m = son THEN n ELSE brother_l[m]]
      /\ UNCHANGED <<each_order, owed>>

\* cntTree_reset
TreeReset ==
  /\ each_order' = 0
  /\ owed' = Present
  /\ UNCHANGED <<list, father, brother_l, brother_r>>

\* cntList_get, which returns NULL beyond the end.
InOrder(o) == IF o < NbNodes THEN list[o + 1] ELSE NoNode

\* Mutant: the order is incremented before the element is taken.
EachReturnsLater(o) == InOrder(o + 1)

EachReturns(o) == InOrder(o)

\* cntTree_each; it returns NULL, and changes nothing, at the end.
TreeEach ==
  /\ each_order < NbNodes
  /\ owed' = owed \ {EachReturns(each_order)}
  /\ each_order' = each_order + 1
  /\ UNCHANGED <<list, father, brother_l, brother_r>>

TreeNext ==
  \/ \E f \in Present, n \in Node : AddNode(f, n)
  \/ TreeReset
  \/ TreeEach

TreeSpec == TreeInit /\ [][TreeNext]_treeVars

-----------------------------------------------------------------------------
\* The nodes below n, and n.
Below(n) ==
  LET down[d \in 0 .. NbNodes] ==
        IF d = 0 THEN {n}
        ELSE LET s == down[d - 1] IN s \cup {m \in Present : father[m] \in s}
  IN  down[NbNodes]

\* The list is the tree in prefix order: a node is followed by all that is
\* below it and by nothing else until that ends.  cntTree_add_node keeps it so
\* although it looks at no more than the one element after the father.
PrefixOrder ==
  \A n \in Present :
    {Place(m) : m \in Below(n)} = Place(n) .. Place(n) + Cardinality(Below(n)) - 1

\* A walk misses no node that was there when it began, although it counts
\* positions and cntTree_add_node shifts the nodes after the new one.
WalkMissesNone == \A n \in owed : Place(n) > each_order

\* The sons that cntTree_get_son and cntTree_nb_sons find are those added, the
\* one added last first.
Sons == INSTANCE TreeSons WITH present <- Present,
          sons <- [f \in Node |-> IF f \in Present
                                  THEN [o \in 1 .. NbSons(f) |-> GetSon(f, o - 1)]
                                  ELSE <<>>]
ImplementsTree == Sons!TreeSpec
=============================================================================
