------------------------------- MODULE MemUse -------------------------------
(***************************************************************************)
(* Mem under its clients.  Careful ones keep to what mem.c can bear: no    *)
(* call touches the count of a block that another call is touching, a      *)
(* block is moved only by a thread that alone has a registration of it and *)
(* while no other thread is in a call, and mem_end comes after all blocks  *)
(* are gone.  Sharing ones let threads that each have a registration of a  *)
(* block register and unregister it when they like; moving ones let each   *)
(* thread realloc its own blocks when it likes.                            *)
(***************************************************************************)
EXTENDS Mem

CONSTANT MaxHolds      \* bound: registrations of one block at a time

Working == {t \in Thread : call[t] # Idle}

NoMove == \A t \in Thread : call[t].at # "relink"

Untouched(b) == \A t \in Working : call[t].mem # b

Allocate(t) == \E b \in Block, n \in BlockSizes : Malloc(t, b, n)

Resize(t) == \E b, c \in Block, n \in BlockSizes :
               Total(b) = 1 /\ Realloc(t, b, c, n)

Share(t, b) == Total(b) < MaxHolds /\ \E u \in Thread : Register(t, u, b)

Begin(t) ==
  \/ NoMove /\ Allocate(t)
  \/ NoMove /\ \E b \in Block : Untouched(b) /\ (Unregister(t, b) \/ Share(t, b))
  \/ Working = {} /\ Resize(t)

MemNext ==
  /\ status = "ok"
  /\ \/ \E t \in Thread : Begin(t) \/ Proceed(t)
     \/ Open
     \/ heap = {} /\ End

SharingNext ==
  /\ status = "ok"
  /\ \E t \in Thread : \/ Allocate(t) \/ Proceed(t)
                       \/ \E b \in Block : Unregister(t, b) \/ Share(t, b)

MovingNext ==
  /\ status = "ok"
  /\ \E t \in Thread : Allocate(t) \/ Resize(t) \/ Proceed(t)

\* The system runs every thread: one in a call goes on when it can.  Nothing is
\* assumed of the order in which the mutex is given to those that wait for it.
Fairness == \A t \in Thread : WF_memVars(Proceed(t))

MemSpec == MemInit /\ [][MemNext]_memVars /\ Fairness
SharingSpec == MemInit /\ [][SharingNext]_memVars
MovingSpec == MemInit /\ [][MovingNext]_memVars

-----------------------------------------------------------------------------
\* The marks that mem_realloc and mem_unregister assert of the neighbours of a
\* block (lines 139, 146, 168 and 175), and of the block itself (lines 129, 161
\* and 192), are always there.
MarksHold == status # "assert"

\* The blocks between their linking and their unlinking.
Linked == heap \ {call[t].mem : t \in {u \in Thread : call[u].at \in {"link", "free"}}}

Nth(i) ==
  LET walk[j \in 0 .. i] == IF j = 0 THEN first
                            ELSE IF walk[j - 1] = NULL THEN NULL ELSE next[walk[j - 1]]
  IN  walk[i]

\* The list that all threads link blocks into and out of has every block, and
\* its links back mirror its links forth.
ListExact ==
  NoMove =>
    /\ {Nth(i) : i \in 0 .. Cardinality(Block)} = Linked \cup {NULL}
    /\ \A b \in Linked : /\ prec[b] = NULL <=> b = first
                         /\ next[b] = NULL <=> b = last
                         /\ next[b] # NULL => prec[next[b]] = b
    /\ first = NULL <=> last = NULL

\* used is the size of all blocks, but those whose alloc has linked them and
\* not yet come to the second section that counts them.
UsedExact ==
  NoMove =>
    used + MapThenSumSet(LAMBDA t : IF call[t].at = "count" THEN call[t].n ELSE 0, Thread)
      = MapThenSumSet(LAMBDA b : block_size[b], Linked)

\* "The block won't get freed until we unregister from it" (mem.h:83).
KeptWhileRegistered ==
  \A t \in Thread, b \in Block : holds[t][b] > 0 => b \in heap

\* ref_count is the number of registrations, whenever no call is about it.
CountExact ==
  \A b \in Block : Untouched(b) /\ NoMove => ref_count[b] = Total(b)

\* "When a block is no more registered it is freed at once" (mem.h:77): if the
\* threads come to make no more calls, those under way end and every block
\* that has no registration is freed.
Quiet == <>[][\A t \in Thread : ~Begin(t)]_memVars
FreedAtOnce ==
  Quiet => <>[](\A b \in heap : Total(b) > 0)
=============================================================================
