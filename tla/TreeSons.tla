------------------------------ MODULE TreeSons ------------------------------
(***************************************************************************)
(* What include/libcnt/tree.h is for: a tree in which every node has a     *)
(* sequence of sons, and a new son comes first.                            *)
(***************************************************************************)
EXTENDS Sequences

CONSTANT Node

VARIABLES present,      \* the nodes of the tree
          sons          \* node -> its sons, first to last

treeVars == <<present, sons>>

TreeInit == \E n \in Node : present = {n} /\ sons = [m \in Node |-> <<>>]

AddSon == \E f \in present, n \in Node \ present :
            /\ present' = present \cup {n}
            /\ sons' = [sons EXCEPT ![f] = <<n>> \o @]

TreeSpec == TreeInit /\ [][AddSon]_treeVars
=============================================================================
