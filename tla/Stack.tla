-------------------------------- MODULE Stack --------------------------------
(***************************************************************************)
(* lib/cnt/stack.c: a stack in one block of mem.c, which a push on a full  *)
(* stack doubles and may move.  The sizes are unsigned numbers, of which   *)
(* there are UintSize: both the doubling of line 60 and the product of     *)
(* line 61 may wrap, as may that of line 39, and the code checks neither   *)
(* this nor that a size is 0.  The flag resizeable is stored and never     *)
(* read.                                                                   *)
(*                                                                         *)
(* The client keeps the pointers that push, get and pop return for as long *)
(* as it can: those to elements until the element is popped or a push      *)
(* doubles the stack, that of the last pop until the next push.  A push    *)
(* without a value leaves what is there, which may be any value.           *)
(***************************************************************************)
EXTENDS Integers, Sequences

CONSTANTS Block,          \* where the entries may be
          Datum, NoDatum,
          UintSize,       \* 2^32 in the code
          SizeofValue,
          MaxSizes        \* the sizes that clients ask for, any of an unsigned

ASSUME StackAssumption ==
  /\ UintSize \in Nat \ {0} /\ SizeofValue \in Nat \ {0}
  /\ NoDatum \notin Datum \cup [at : Block, i : Nat]
  /\ MaxSizes \subseteq 0 .. UintSize - 1

VARIABLES
  next, max_size,
  entries,      \* the block
  bytes,        \* what was asked of mem.c for it
  cell,         \* the values in the block, those of popped elements included
  kept,         \* the pointers to elements that the client may use
  popped,       \* the one that the last pop returned, if it may be used
  spilled       \* a push has given out a place that is not in the block

stackVars == <<next, max_size, entries, bytes, cell, kept, popped, spilled>>

Wrap(n) == n % UintSize

\* this->entries + i*this->sizeof_value
Pointer(i) == [at |-> entries, i |-> i]

\* Datum i lies in a block of so many bytes.
Inside(i, size) == (i + 1) * SizeofValue =< size

StackInit ==
  \E n \in MaxSizes, b \in Block :
    /\ next = 0 /\ max_size = n
    /\ entries = b /\ bytes = Wrap(n * SizeofValue)
    /\ cell = <<>> /\ kept = {} /\ popped = NoDatum /\ spilled = FALSE

\* cntStack_del, then cntStack_new with max_size n.
StackRenew(n) ==
  /\ next' = 0 /\ max_size' = n
  /\ entries' \in Block /\ bytes' = Wrap(n * SizeofValue)
  /\ cell' = <<>> /\ kept' = {} /\ popped' = NoDatum
  /\ UNCHANGED spilled

\* Line 66: the value at next becomes v, in the values that the block has.
Store(values, v) ==
  IF next < Len(values) THEN [values EXCEPT ![next + 1] = v] ELSE Append(values, v)

\* What line 66 writes when next is beyond the block is not the stack's: what
\* then happens is not followed.
Spill ==
  /\ spilled' = TRUE
  /\ UNCHANGED <<next, max_size, entries, bytes, cell, kept, popped>>

\* Lines 65-67, with room for the value.
PushInRoom(v) ==
  /\ next' = next + 1
  /\ cell' = Store(cell, v)
  /\ kept' = kept \cup {Pointer(next)}
  /\ popped' = NoDatum
  /\ UNCHANGED <<max_size, entries, bytes, spilled>>

\* Mutant: max_size is not doubled.
GrownNot == max_size

Grown == Wrap(2 * max_size)

SizeGrown == Wrap(Grown * SizeofValue)

\* Lines 60-67: mem_realloc copies what it can to a block that may be another.
PushAndGrow(v) ==
  LET fit == {i \in 1 .. Len(cell) : Inside(i - 1, SizeGrown)}
  IN  /\ max_size' = Grown
      /\ bytes' = SizeGrown
      /\ entries' \in Block
      /\ cell' = Store([i \in fit |-> cell[i]], v)
      /\ next' = next + 1
      /\ kept' = {[at |-> entries', i |-> next]}
      /\ popped' = NoDatum
      /\ UNCHANGED spilled

\* cntStack_push
Push(v) ==
  \/ next # max_size /\ Inside(next, bytes) /\ PushInRoom(v)
  \/ next # max_size /\ ~Inside(next, bytes) /\ Spill
  \/ next = max_size /\ Inside(next, SizeGrown) /\ PushAndGrow(v)
  \/ next = max_size /\ ~Inside(next, SizeGrown) /\ Spill

\* cntStack_pop
Pop ==
  /\ next > 0
  /\ next' = next - 1
  /\ kept' = kept \ {Pointer(next - 1)}
  /\ popped' = Pointer(next - 1)
  /\ UNCHANGED <<max_size, entries, bytes, cell, spilled>>

\* cntStack_clear
StackClear ==
  /\ next' = 0 /\ kept' = {}
  /\ UNCHANGED <<max_size, entries, bytes, cell, popped, spilled>>

\* Mutant: depth 1 is the last element.
DepthFromOne(depth) == next - depth

\* The place of an element in cntStack_get.
Depth(depth) == next - depth - 1

StackGet(depth) ==
  /\ depth < next
  /\ kept' = kept \cup {Pointer(Depth(depth))}
  /\ UNCHANGED <<next, max_size, entries, bytes, cell, popped, spilled>>

\* The client writes v through one of its pointers.
WriteThrough(p, v) ==
  /\ cell' = IF p.at = entries THEN [cell EXCEPT ![p.i + 1] = v] ELSE cell
  /\ UNCHANGED <<next, max_size, entries, bytes, kept, popped, spilled>>

-----------------------------------------------------------------------------
StackNext ==
  /\ ~spilled
  /\ \/ \E v \in Datum : Push(v)
     \/ Pop
     \/ StackClear
     \/ \E depth \in 0 .. next - 1 : StackGet(depth)
     \/ \E p \in kept, v \in Datum : WriteThrough(p, v)
     \/ \E n \in MaxSizes : StackRenew(n)

StackSpec == StackInit /\ [][StackNext]_stackVars

-----------------------------------------------------------------------------
\* The sizes for which the code, which does not look at them, has no room: 0,
\* one that wraps in bytes, and for a full stack one that wraps when doubled.
Misfit ==
  \/ max_size = 0
  \/ max_size * SizeofValue >= UintSize
  \/ next = max_size /\ 2 * max_size * SizeofValue >= UintSize

\* Nothing else makes a push write past the block: of a stack made with any
\* size, also one of a size that wraps, as long as its elements are in what
\* there is.  And the assert of line 58 holds.
InBlock == next =< max_size /\ (spilled => Misfit)

\* Every pointer that the client may use is to an element where it is now:
\* only a push on a full stack moves elements, and get finds the one it should.
PointersHold == \A p \in kept : p.at = entries /\ p.i < next

\* The block is a stack of values, and a popped value can be read until the
\* next push.
Values == INSTANCE StackSeq WITH stack <- SubSeq(cell, 1, next),
            popped <- IF popped = NoDatum THEN NoDatum ELSE cell[popped.i + 1]
ImplementsStack == Values!StackSpec
=============================================================================
