-------------------------------- MODULE Mem --------------------------------
(***************************************************************************)
(* lib/cnt/mem.c: the allocator under everything, shared by all threads.   *)
(* Every block has a header with its size, a count of the registrations    *)
(* that keep it, and its links in the list of all blocks.                  *)
(*                                                                         *)
(* A step is what a thread does between two points where another thread    *)
(* can get in the way: malloc, realloc and free, which the C library does  *)
(* at once; the load and the store of ++ref_count and --ref_count, which   *)
(* no mutex covers; taking the mutex; and a critical section, whose last   *)
(* act is to release it.                                                   *)
(*                                                                         *)
(* A call that finds no memory returns NULL and changes nothing; it is     *)
(* left out, and so is max_used, which is only logged.                     *)
(***************************************************************************)
EXTENDS Integers, FiniteSets, FiniteSetsExt

CONSTANTS Thread, Block, NULL,
          BlockSizes,    \* the sizes that are asked for
          Debug          \* the build has no NDEBUG

\* There are finitely many threads, and finitely many places in the memory.
ASSUME MemAssumption ==
  /\ NULL \notin Block \cup Thread
  /\ IsFiniteSet(Thread) /\ IsFiniteSet(Block)
  /\ BlockSizes \subseteq Nat
  /\ Debug \in BOOLEAN

VARIABLES
  open,         \* between mem_init and mem_end (the code has size # 0)
  used,
  first, last,
  heap,         \* what malloc has given and free has not taken back
  block_size, ref_count, next, prec,     \* the fields of a header
  mutex,        \* the thread that has it, or NULL
  call,         \* what each thread is doing
  holds,        \* thread -> block -> the registrations that are this thread's
  status        \* "ok", "assert" (an assert failed) or "fault" (NULL was read)

list == <<first, last, next, prec>>
memVars == <<open, used, list, heap, block_size, ref_count, mutex, call, holds, status>>

Idle == [at |-> "idle", mem |-> NULL, ptr |-> NULL, n |-> 0, to |-> NULL]

Sections == {"link", "count", "relink", "unlink"}

Goto(t, step) == call' = [call EXCEPT ![t] = step]
Return(t) == Goto(t, Idle)

\* p->f = q, where p may have been freed: then nothing sees the write.
Write(f, p, q) == IF p \in heap THEN [f EXCEPT ![p] = q] ELSE f

\* assert(p->mark==0x280176)
Marked(p) == p \in heap

Abort(why) ==
  /\ status' = why
  /\ UNCHANGED <<open, used, list, heap, block_size, ref_count, mutex, call, holds>>

-----------------------------------------------------------------------------
MemInit ==
  /\ open = TRUE
  /\ used = 0
  /\ first = NULL /\ last = NULL
  /\ heap = {}
  /\ block_size = [b \in Block |-> 0]
  /\ ref_count = [b \in Block |-> 0]
  /\ next = [b \in Block |-> NULL]
  /\ prec = [b \in Block |-> NULL]
  /\ mutex = NULL
  /\ call = [t \in Thread |-> Idle]
  /\ holds = [t \in Thread |-> [b \in Block |-> 0]]
  /\ status = "ok"

\* mem_init, after a mem_end.
Open ==
  /\ ~open
  /\ open' = TRUE
  /\ used' = 0
  /\ first' = NULL /\ last' = NULL
  /\ UNCHANGED <<heap, block_size, ref_count, next, prec, mutex, call, holds, status>>

\* mem_end, when no thread is in a call.  Line 61 reads through the NULL that
\* ended the loop of lines 57-60.
End ==
  /\ open
  /\ \A t \in Thread : call[t] = Idle
  /\ \/ used # 0 /\ Debug /\ Abort("fault")
     \/ /\ used = 0 \/ ~Debug
        /\ open' = FALSE
        /\ UNCHANGED <<used, list, heap, block_size, ref_count, mutex, call, holds, status>>

-----------------------------------------------------------------------------
\* sys_mutex_blockget
Take(t) ==
  /\ call[t].at \in Sections
  /\ mutex = NULL
  /\ mutex' = t
  /\ UNCHANGED <<open, used, list, heap, block_size, ref_count, call, holds, status>>

\* Thread t is in the critical section of step s, and leaves it.
InSection(t, s) == call[t].at = s /\ mutex = t /\ mutex' = NULL

\* Line 92: malloc has given b, which any freed block may be.
Malloc(t, b, n) ==
  /\ open /\ call[t] = Idle
  /\ b \notin heap
  /\ heap' = heap \cup {b}
  /\ Goto(t, [Idle EXCEPT !.at = "link", !.mem = b, !.n = n])
  /\ UNCHANGED <<open, used, list, block_size, ref_count, mutex, holds, status>>

\* Lines 95-108
Link(t) ==
  LET b == call[t].mem
  IN  /\ InSection(t, "link")
      /\ first' = IF first = NULL THEN b ELSE first
      /\ next' = [Write(next, IF first = NULL THEN NULL ELSE last, b) EXCEPT ![b] = NULL]
      /\ prec' = [prec EXCEPT ![b] = last]
      /\ last' = b
      /\ block_size' = [block_size EXCEPT ![b] = call[t].n]
      /\ ref_count' = [ref_count EXCEPT ![b] = 1]
      /\ Goto(t, [call[t] EXCEPT !.at = "count"])
      /\ UNCHANGED <<open, used, heap, holds, status>>

UsedAfterCount(n) == used + n

\* Lines 113-114; t returns with the block, and one registration of it.
Count(t) ==
  /\ InSection(t, "count")
  /\ used' = UsedAfterCount(call[t].n)
  /\ holds' = [holds EXCEPT ![t][call[t].mem] = 1]
  /\ Return(t)
  /\ UNCHANGED <<open, list, heap, block_size, ref_count, status>>

-----------------------------------------------------------------------------
\* Lines 129-131: realloc leaves b where it is or moves it, header and all, to c.
Realloc(t, b, c, n) ==
  LET Moved(f, none) == IF c = b THEN f ELSE [f EXCEPT ![c] = f[b], ![b] = none]
  IN  /\ open /\ call[t] = Idle
      /\ holds[t][b] > 0
      /\ c = b \/ c \notin heap
      /\ IF Marked(b)
         THEN /\ heap' = (heap \ {b}) \cup {c}
              /\ block_size' = Moved(block_size, 0)
              /\ ref_count' = Moved(ref_count, 0)
              /\ next' = Moved(next, NULL)
              /\ prec' = Moved(prec, NULL)
              /\ holds' = [holds EXCEPT ![t] = Moved(@, 0)]
              /\ Goto(t, [Idle EXCEPT !.at = "relink", !.mem = b, !.ptr = c, !.n = n])
              /\ UNCHANGED <<open, used, first, last, mutex, status>>
         ELSE Abort("assert")

\* Mutant: the block after is not told.
RedirectHalf(p, before, after, nextOf, precOf) ==
  /\ next' = IF p # first THEN [next EXCEPT ![before] = nextOf] ELSE next
  /\ first' = IF p # first THEN first ELSE nextOf
  /\ last' = IF p # last THEN last ELSE precOf
  /\ UNCHANGED prec

\* Lines 137-150 and 165-178: q takes the place of p in what its neighbours
\* before and after link to, and in first and last.
Redirect(p, before, after, nextOf, precOf) ==
  /\ next' = IF p # first THEN [next EXCEPT ![before] = nextOf] ELSE next
  /\ first' = IF p # first THEN first ELSE nextOf
  /\ prec' = IF p # last THEN [prec EXCEPT ![after] = precOf] ELSE prec
  /\ last' = IF p # last THEN last ELSE precOf

\* The marks that the asserts of both sections look at.
NeighboursMarked(p, before, after) ==
  (p # first => Marked(before)) /\ (p # last => Marked(after))

\* Mutant: the old size stays counted.
UsedAfterReallocMore(b, n) == used + n

UsedAfterRealloc(b, n) == used + n - block_size[b]

Relink(t) ==
  LET b == call[t].mem
      c == call[t].ptr
  IN  /\ call[t].at = "relink" /\ mutex = t
      /\ IF NeighboursMarked(b, prec[c], next[c])
         THEN /\ InSection(t, "relink")
              /\ used' = UsedAfterRealloc(c, call[t].n)
              /\ block_size' = [block_size EXCEPT ![c] = call[t].n]
              /\ Redirect(b, prec[c], next[c], c, c)
              /\ Return(t)
              /\ UNCHANGED <<open, heap, ref_count, holds, status>>
         ELSE Abort("assert")

-----------------------------------------------------------------------------
\* Lines 161-163, and line 193: t reads the count of a block that must be marked.
ReadCount(t, b, step) ==
  /\ open /\ call[t] = Idle
  /\ holds[t][b] > 0
  /\ IF Marked(b)
     THEN /\ Goto(t, step)
          /\ UNCHANGED <<open, used, list, heap, block_size, ref_count, mutex, status>>
     ELSE Abort("assert")

Unregister(t, b) ==
  /\ ReadCount(t, b, [Idle EXCEPT !.at = "unref", !.mem = b, !.n = ref_count[b]])
  /\ holds' = [holds EXCEPT ![t][b] = @ - 1]

\* Mutants: the block goes with one registration left, or stays with none.
IsLastEarly(n) == n =< 2
IsLastNever(n) == n = 0

\* 0 == --ref_count, the count having been n
IsLast(n) == n = 1

Unref(t) ==
  LET b == call[t].mem
      n == call[t].n
  IN  /\ call[t].at = "unref"
      /\ ref_count' = Write(ref_count, b, n - 1)
      /\ IF IsLast(n) THEN Goto(t, [Idle EXCEPT !.at = "unlink", !.mem = b])
                      ELSE Return(t)
      /\ UNCHANGED <<open, used, list, heap, block_size, mutex, holds, status>>

\* Lines 165-178
Unlink(t) ==
  LET b == call[t].mem
  IN  /\ call[t].at = "unlink" /\ mutex = t
      /\ IF NeighboursMarked(b, prec[b], next[b])
         THEN /\ InSection(t, "unlink")
              /\ used' = used - block_size[b]
              /\ Redirect(b, prec[b], next[b], next[b], prec[b])
              /\ Goto(t, [call[t] EXCEPT !.at = "free"])
              /\ UNCHANGED <<open, heap, block_size, ref_count, holds, status>>
         ELSE Abort("assert")

\* Line 185: what is read in freed memory is nothing's.
Free(t) ==
  LET b == call[t].mem
  IN  /\ call[t].at = "free"
      /\ heap' = heap \ {b}
      /\ block_size' = [block_size EXCEPT ![b] = 0]
      /\ ref_count' = [ref_count EXCEPT ![b] = 0]
      /\ next' = [next EXCEPT ![b] = NULL]
      /\ prec' = [prec EXCEPT ![b] = NULL]
      /\ Return(t)
      /\ UNCHANGED <<open, used, first, last, mutex, holds, status>>

\* mem_register by t, which has a registration, of one more, which u will have.
Register(t, u, b) ==
  /\ ReadCount(t, b, [Idle EXCEPT !.at = "ref", !.mem = b, !.n = ref_count[b], !.to = u])
  /\ UNCHANGED holds

\* Mutant: the count is stored as it was read.
MoreNot(n) == n

More(n) == n + 1

Ref(t) ==
  LET b == call[t].mem
  IN  /\ call[t].at = "ref"
      /\ ref_count' = Write(ref_count, b, More(call[t].n))
      /\ holds' = [holds EXCEPT ![call[t].to][b] = @ + 1]
      /\ Return(t)
      /\ UNCHANGED <<open, used, list, heap, block_size, mutex, status>>

-----------------------------------------------------------------------------
Total(b) == MapThenSumSet(LAMBDA t : holds[t][b], Thread)

\* The rest of a call, once it has begun.
Proceed(t) ==
  Take(t) \/ Link(t) \/ Count(t) \/ Relink(t) \/ Unref(t) \/ Unlink(t) \/ Free(t) \/ Ref(t)

=============================================================================
