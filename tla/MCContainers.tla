---------------------------- MODULE MCContainers ----------------------------
(***************************************************************************)
(* A sorted list, a tree, a stack, the pool of vectors or a call of the    *)
(* algebra.  They share no state, so that one run of the sum of their      *)
(* behaviours shows what five would: those that a behaviour does not use   *)
(* stay as they are first made.                                            *)
(* Small instances: of four values of the list two compare equal; a value  *)
(* of the stack has three bytes and an unsigned counts 15, so five fit.    *)
(***************************************************************************)
EXTENDS SList, Tree, Stack, VecPool, MCAlgebra, TLC

MCRank == [v \in 1 .. 4 |-> v \div 2]
AddressSymmetry == Permutations(Element) \cup Permutations(Node)

VARIABLE used           \* the one that the behaviour uses

ContainersInit ==
  /\ used \in {"slist", "tree", "stack", "pool", "algebra"}
  /\ SListInit /\ TreeInit /\ StackInit /\ PoolInit /\ AlgebraInit
  /\ used # "stack" => max_size = 1 /\ entries = CHOOSE b \in Block : TRUE
  /\ used # "algebra" => /\ vec = CHOOSE v \in VecStarts : TRUE
                         /\ mat = CHOOSE m \in MatStarts : TRUE
                         /\ call = CHOOSE c \in Calls : Careful(c)

ContainersNext ==
  /\ UNCHANGED used
  /\ \/ /\ used = "slist" /\ SListNext
        /\ UNCHANGED <<treeVars, stackVars, poolVars, algebraVars>>
     \/ /\ used = "tree" /\ TreeNext
        /\ UNCHANGED <<slistVars, stackVars, poolVars, algebraVars>>
     \/ /\ used = "stack" /\ StackNext
        /\ UNCHANGED <<slistVars, treeVars, poolVars, algebraVars>>
     \/ /\ used = "pool" /\ PoolNext
        /\ UNCHANGED <<slistVars, treeVars, stackVars, algebraVars>>
     \/ /\ used = "algebra" /\ AlgebraNext
        /\ UNCHANGED <<slistVars, treeVars, stackVars, poolVars>>

containersVars == <<slistVars, treeVars, stackVars, poolVars, algebraVars, used>>

ContainersSpec == ContainersInit /\ [][ContainersNext]_containersVars
=============================================================================
