------------------------------ MODULE VecPool ------------------------------
(***************************************************************************)
(* The pool that lib/cnt/vec.c keeps its vectors in: a shelf made by the   *)
(* first Vec_new, and deleted with its last vector or by the handler that  *)
(* is given to atexit each time the pool is made; and the end of the       *)
(* program, where the handlers run, the one registered last first.         *)
(*                                                                         *)
(* The program gives cnt_end to atexit, as checks do (vec_check.c:27), or   *)
(* calls it when it has no vector.  It may give atexit handlers of its own *)
(* that free its vectors.  A pool that is made after such a handler was    *)
(* registered is deleted before that handler runs, as line 54 says; and    *)
(* mem_end must find no pool.                                              *)
(***************************************************************************)
EXTENDS Naturals, Sequences

CONSTANTS Vec,            \* where the shelf may put vectors
          AtexitMax       \* how many handlers atexit takes

VARIABLES
  pool,        \* there is a shelf
  vecs,        \* the vectors in it
  held,        \* those that the program has
  handlers,    \* what atexit was given and has not run, the last one first
  running,     \* "main", "own" or, between two handlers, "exit"
  faulty       \* memory was used that is gone, or mem_end found a block

poolVars == <<pool, vecs, held, handlers, running, faulty>>

PoolInit ==
  /\ pool = FALSE /\ vecs = {} /\ held = {}
  /\ handlers = <<>> /\ running = "main" /\ faulty = FALSE

\* free_vecs_atexit, also when there is no pool.
FreeVecs == pool' = FALSE /\ vecs' = {}

\* Vec_new, which makes the pool if there is none.  When atexit takes no more
\* handlers it deletes the pool at once and fails.
VecNew(v) ==
  /\ v \notin vecs
  /\ IF pool \/ Len(handlers) < AtexitMax
     THEN /\ pool' = TRUE /\ vecs' = vecs \cup {v} /\ held' = held \cup {v}
          /\ handlers' = IF pool THEN handlers ELSE <<"pool">> \o handlers
     ELSE FreeVecs /\ UNCHANGED <<held, handlers>>
  /\ UNCHANGED <<running, faulty>>

\* Mutant: the size is taken before the vector is freed.
EmptyBefore(v) == vecs = {}

\* Line 67
EmptyAfter(v) == vecs \ {v} = {}

\* Vec_del; without a pool it frees from a shelf that is NULL.
VecDel(v) ==
  /\ IF EmptyAfter(v) THEN FreeVecs ELSE vecs' = vecs \ {v} /\ UNCHANGED pool
  /\ held' = held \ {v}
  /\ faulty' = (faulty \/ v \notin vecs)
  /\ UNCHANGED <<handlers, running>>

\* The program gives atexit its own handler, or cnt_end.
Register(h) ==
  /\ Len(handlers) < AtexitMax
  /\ handlers' = <<h>> \o handlers
  /\ UNCHANGED <<pool, vecs, held, running, faulty>>

\* It ends, or its handler does.
Return == running' = "exit" /\ UNCHANGED <<pool, vecs, held, handlers, faulty>>

\* It calls cnt_end and ends.
EndAndReturn ==
  /\ running' = "exit"
  /\ faulty' = (faulty \/ pool)
  /\ UNCHANGED <<pool, vecs, held, handlers>>

\* The next handler runs: free_vecs_atexit, cnt_end or the program's own.
RunHandler ==
  /\ handlers # <<>>
  /\ handlers' = Tail(handlers)
  /\ LET h == Head(handlers)
     IN  /\ IF h = "pool" THEN FreeVecs ELSE UNCHANGED <<pool, vecs>>
         /\ running' = IF h = "own" THEN "own" ELSE "exit"
         /\ faulty' = (faulty \/ (h = "end" /\ pool))
  /\ UNCHANGED held

-----------------------------------------------------------------------------
Has(h) == \E i \in DOMAIN handlers : handlers[i] = h

\* What the program must know of the pool: cnt_end is for atexit when there is
\* none, and once it has a handler of its own it makes none.
Main ==
  \/ \E v \in Vec : (Has("own") => held # {}) /\ VecNew(v)
  \/ \E v \in held : VecDel(v)
  \/ Register("own")
  \/ held = {} /\ ~Has("end") /\ Register("end")
  \/ Return
  \/ held = {} /\ ~Has("end") /\ EndAndReturn

PoolNext ==
  \/ running = "main" /\ Main
  \/ running = "own" /\ \E v \in held : VecDel(v)
  \/ running = "own" /\ held = {} /\ Return
  \/ running = "exit" /\ RunHandler

PoolSpec == PoolInit /\ [][PoolNext]_poolVars

\* The program that gives cnt_end to atexit when it likes.
AnyEndNext ==
  \/ PoolNext
  \/ running = "main" /\ ~Has("end") /\ Register("end")
AnyEndSpec == PoolInit /\ [][AnyEndNext]_poolVars

-----------------------------------------------------------------------------
\* Wherever the program ends, no vector is freed without the pool it came from
\* (line 66), and mem_end finds no block of the pool: cnt_end is "suitable for
\* atexit" (cnt.h:33).
ExitInOrder == ~faulty
=============================================================================
