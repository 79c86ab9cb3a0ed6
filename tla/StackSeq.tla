------------------------------ MODULE StackSeq ------------------------------
(***************************************************************************)
(* What include/libcnt/stack.h is for: a stack of values.  The value that  *)
(* a pop returned can be read through its pointer until the next push.     *)
(***************************************************************************)
EXTENDS Naturals, Sequences, SequencesExt

CONSTANTS Datum, NoDatum

VARIABLES stack,      \* bottom to top
          popped      \* the value popped last, NoDatum once it is overwritten

stackVars == <<stack, popped>>

StackInit == stack = <<>> /\ popped = NoDatum

Push == \E v \in Datum : stack' = Append(stack, v) /\ popped' = NoDatum

Pop == stack # <<>> /\ stack' = Front(stack) /\ popped' = Last(stack)

\* The client writes through a pointer to an element.
Write == \E i \in 1 .. Len(stack), v \in Datum :
           stack' = [stack EXCEPT ![i] = v] /\ UNCHANGED popped

Clear == stack' = <<>> /\ popped' \in {popped, NoDatum}

StackNext == Push \/ Pop \/ Write \/ Clear

StackSpec == StackInit /\ [][StackNext]_stackVars
=============================================================================
