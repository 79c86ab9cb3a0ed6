-------------------------- MODULE ContainersProof --------------------------
(***************************************************************************)
(* Theorems about the pool of vectors, the stack, the sorted list, the     *)
(* tree and the operations on vectors and matrices, for any values of      *)
(* their constants: the invariants of the run containers, and that the     *)
(* stack implements StackSeq and the tree TreeSons.                        *)
(***************************************************************************)
EXTENDS SList, Tree, Stack, VecPool, Algebra, CommonLemmas

-----------------------------------------------------------------------------
(***************************************************************************)
(* The pool.  PoolInv says in which order the handlers can stand, when the *)
(* program minds the pool as Main says: a handler of the program is after  *)
(* no handler of the pool, so that it finds its vectors; and a pool there  *)
(* is has a handler that runs before any cnt_end.                          *)
(***************************************************************************)
HandlersInOrder ==
  \A i, j \in 1 .. Len(handlers) :
    i < j /\ handlers[j] = "own" => handlers[i] # "pool"

PoolFirst ==
  \E i \in 1 .. Len(handlers) :
    handlers[i] = "pool" /\ \A j \in 1 .. i : handlers[j] # "end"

PoolInv ==
  /\ handlers \in Seq({"pool", "own", "end"})
  /\ HandlersInOrder
  /\ pool = (vecs # {})
  /\ pool => PoolFirst
  /\ running \in {"main", "own"} \/ Has("own") => held = vecs
  /\ faulty = FALSE

\* A handler that is registered is the first; one that runs was the first.
LEMMA HandlersChange ==
  ASSUME NEW S, NEW s \in Seq(S), NEW h \in S
  PROVE  /\ <<h>> \o s \in Seq(S) /\ Len(<<h>> \o s) = Len(s) + 1
         /\ (<<h>> \o s)[1] = h
         /\ \A i \in 1 .. Len(s) : (<<h>> \o s)[i + 1] = s[i]
         /\ s # <<>> => /\ Tail(s) \in Seq(S) /\ Len(Tail(s)) = Len(s) - 1
                        /\ \A i \in 1 .. Len(s) - 1 : Tail(s)[i] = s[i + 1]
                        /\ Head(s) = s[1] /\ Len(s) > 0
<1>1. Len(s) \in Nat /\ <<h>> \in Seq(S) /\ Len(<<h>>) = 1 /\ <<h>>[1] = h
  OBVIOUS
<1>2. /\ <<h>> \o s \in Seq(S) /\ Len(<<h>> \o s) = 1 + Len(s)
      /\ \A i \in 1 .. 1 + Len(s) :
           (<<h>> \o s)[i] = IF i =< 1 THEN <<h>>[i] ELSE s[i - 1]
  BY <1>1, ConcatProperties
<1>3. \A i \in 1 .. Len(s) : (<<h>> \o s)[i + 1] = s[i]
  BY <1>1, <1>2
<1>4. (<<h>> \o s)[1] = h
  BY <1>1, <1>2
<1>5. s # <<>> => /\ Tail(s) \in Seq(S) /\ Len(Tail(s)) = Len(s) - 1
                  /\ \A i \in 1 .. Len(s) - 1 : Tail(s)[i] = s[i + 1]
                  /\ Head(s) = s[1] /\ Len(s) > 0
  OBVIOUS
<1> QED
  BY <1>1, <1>2, <1>3, <1>4, <1>5

\* What Has says, by the entries.
LEMMA HasExact ==
  ASSUME handlers \in Seq({"pool", "own", "end"})
  PROVE  \A h : Has(h) <=> \E i \in 1 .. Len(handlers) : handlers[i] = h
<1>1. DOMAIN handlers = 1 .. Len(handlers)
  OBVIOUS
<1> QED
  BY <1>1 DEF Has

\* The same of the next state.
LEMMA HasNext ==
  ASSUME handlers' \in Seq({"pool", "own", "end"})
  PROVE  \A h : Has(h)' <=> \E i \in 1 .. Len(handlers') : handlers'[i] = h
<1>1. DOMAIN (handlers') = 1 .. Len(handlers')
  OBVIOUS
<1> QED
  BY <1>1 DEF Has

LEMMA PoolInvNew ==
  ASSUME PoolInv, running = "main", Has("own") => held # {}, NEW v \in Vec, VecNew(v)
  PROVE  PoolInv'
<1> USE DEF PoolInv, HandlersInOrder
<1>1. /\ Len(handlers) \in Nat
      /\ \A h : Has(h) <=> \E i \in 1 .. Len(handlers) : handlers[i] = h
  BY HasExact
<1>2. CASE pool
  <2>1. handlers' = handlers /\ pool' = TRUE /\ vecs' = vecs \cup {v}
        /\ held' = held \cup {v} /\ running' = running /\ faulty' = faulty
    BY <1>2 DEF VecNew
  <2>2. PoolFirst' /\ HandlersInOrder'
    BY <1>2, <2>1 DEF PoolFirst
  <2>3. held' = vecs'
    BY <2>1
  <2> QED
    BY <2>1, <2>2, <2>3
<1>3. CASE ~pool /\ Len(handlers) < AtexitMax
  <2>1. handlers' = <<"pool">> \o handlers /\ pool' = TRUE /\ vecs' = vecs \cup {v}
        /\ held' = held \cup {v} /\ running' = running /\ faulty' = faulty
    BY <1>3 DEF VecNew
  <2>2. ~Has("own")
    BY <1>3
  <2>3. /\ handlers' \in Seq({"pool", "own", "end"})
        /\ Len(handlers') = Len(handlers) + 1
        /\ handlers'[1] = "pool"
        /\ \A i \in 1 .. Len(handlers) : handlers'[i + 1] = handlers[i]
    BY <2>1, HandlersChange
  <2>4. \A i \in 1 .. Len(handlers') :
          i = 1 \/ (i - 1 \in 1 .. Len(handlers) /\ handlers'[i] = handlers[i - 1])
    BY <2>3, <1>1
  <2>5. \A i \in 1 .. Len(handlers') : handlers'[i] # "own"
    BY <2>2, <2>3, <2>4, <1>1
  <2>6. PoolFirst'
    <3>1. 1 \in 1 .. Len(handlers') /\ \A j \in 1 .. 1 : handlers'[j] # "end"
      BY <2>3, <1>1
    <3> QED
      BY <2>3, <3>1 DEF PoolFirst
  <2>7. held' = vecs'
    BY <2>1
  <2> QED
    BY <2>1, <2>3, <2>5, <2>6, <2>7
<1>4. CASE ~pool /\ ~(Len(handlers) < AtexitMax)
  <2>1. handlers' = handlers /\ pool' = FALSE /\ vecs' = {}
        /\ held' = held /\ running' = running /\ faulty' = faulty
    BY <1>4 DEF VecNew, FreeVecs
  <2> QED
    BY <2>1, <1>4
<1> QED
  BY <1>2, <1>3, <1>4

LEMMA PoolInvDel ==
  ASSUME PoolInv, NEW v \in held, VecDel(v), running \in {"main", "own"}
  PROVE  PoolInv'
<1> USE DEF PoolInv, HandlersInOrder
<1>1. handlers' = handlers /\ running' = running /\ held' = held \ {v}
      /\ vecs' = vecs \ {v} /\ pool' = (vecs \ {v} # {}) /\ faulty' = FALSE
  BY DEF VecDel, EmptyAfter, FreeVecs
<1>2. PoolFirst' <=> PoolFirst
  BY <1>1 DEF PoolFirst
<1> QED
  BY <1>1, <1>2

\* A handler of the program, or cnt_end while there is no pool.
LEMMA PoolInvRegister ==
  ASSUME PoolInv, running = "main", NEW h \in {"own", "end"}, Register(h),
         h = "end" => held = {}
  PROVE  PoolInv'
<1> USE DEF PoolInv, HandlersInOrder
<1>1. Len(handlers) \in Nat
  OBVIOUS
<1>2. handlers' = <<h>> \o handlers /\ UNCHANGED <<pool, vecs, held, running, faulty>>
  BY DEF Register
<1>3. /\ handlers' \in Seq({"pool", "own", "end"})
      /\ Len(handlers') = Len(handlers) + 1
      /\ handlers'[1] = h
      /\ \A i \in 1 .. Len(handlers) : handlers'[i + 1] = handlers[i]
  <2>1. h \in {"pool", "own", "end"}
    OBVIOUS
  <2> QED
    BY <1>2, <2>1, HandlersChange
<1>4. \A i \in 1 .. Len(handlers') :
        i = 1 \/ (i - 1 \in 1 .. Len(handlers) /\ handlers'[i] = handlers[i - 1])
  BY <1>3, <1>1
<1>5. \A i, j \in 1 .. Len(handlers') :
        i < j /\ handlers'[j] = "own" => handlers'[i] # "pool"
  <2> SUFFICES ASSUME NEW i \in 1 .. Len(handlers'), NEW j \in 1 .. Len(handlers'),
                      i < j, handlers'[j] = "own"
               PROVE  handlers'[i] # "pool"
    OBVIOUS
  <2>1. CASE i = 1
    BY <2>1, <1>3
  <2>2. CASE i # 1
    <3>1. /\ i - 1 \in 1 .. Len(handlers) /\ handlers'[i] = handlers[i - 1]
          /\ j - 1 \in 1 .. Len(handlers) /\ handlers'[j] = handlers[j - 1]
          /\ i - 1 < j - 1
      BY <2>2, <1>4, <1>3, <1>1
    <3> QED
      BY <3>1
  <2> QED
    BY <2>1, <2>2
<1>6. ASSUME pool PROVE h = "own" /\ PoolFirst'
  <2>1. h = "own"
    BY <1>6
  <2>2. PICK i \in 1 .. Len(handlers) :
          handlers[i] = "pool" /\ \A j \in 1 .. i : handlers[j] # "end"
    BY <1>6 DEF PoolFirst
  <2>3. i + 1 \in 1 .. Len(handlers') /\ handlers'[i + 1] = "pool"
    BY <2>2, <1>1, <1>3
  <2>4. \A j \in 1 .. i + 1 : handlers'[j] # "end"
    <3> TAKE j \in 1 .. i + 1
    <3>1. j = 1 \/ (j - 1 \in 1 .. i /\ handlers'[j] = handlers[j - 1])
      BY <1>1, <1>4, <2>3
    <3> QED
      BY <3>1, <2>1, <2>2, <1>3
  <2> QED
    BY <2>1, <2>3, <2>4 DEF PoolFirst
<1> QED
  BY <1>2, <1>3, <1>5, <1>6

LEMMA PoolInvRun == ASSUME PoolInv, running = "exit", RunHandler PROVE PoolInv'
<1> USE DEF PoolInv, HandlersInOrder
<1>1. /\ Len(handlers) \in Nat
      /\ \A h : Has(h) <=> \E i \in 1 .. Len(handlers) : handlers[i] = h
  BY HasExact
<1> DEFINE h == handlers[1]
<1>0. handlers # <<>> /\ handlers' = Tail(handlers) /\ "own" \in {"pool", "own", "end"}
  BY DEF RunHandler
<1>2. /\ Len(handlers) > 0 /\ Head(handlers) = h
      /\ handlers' \in Seq({"pool", "own", "end"})
      /\ Len(handlers') = Len(handlers) - 1
      /\ \A i \in 1 .. Len(handlers) - 1 : handlers'[i] = handlers[i + 1]
      /\ h \in {"pool", "own", "end"}
  <2>1. PICK s : s = handlers
    OBVIOUS
  <2>2. s \in Seq({"pool", "own", "end"}) /\ s # <<>> /\ handlers' = Tail(s)
    BY <1>0, <2>1
  <2>3. /\ Tail(s) \in Seq({"pool", "own", "end"}) /\ Len(Tail(s)) = Len(s) - 1
        /\ \A i \in 1 .. Len(s) - 1 : Tail(s)[i] = s[i + 1]
        /\ Head(s) = s[1] /\ Len(s) > 0
    BY ONLY <1>0, <2>2, HandlersChange
  <2>4. Len(s) \in Nat /\ s[1] \in {"pool", "own", "end"}
    BY ONLY <2>2, <2>3, SMTT(30)
  <2> QED
    BY <2>1, <2>2, <2>3, <2>4
<1>3. /\ IF h = "pool" THEN pool' = FALSE /\ vecs' = {} ELSE UNCHANGED <<pool, vecs>>
      /\ running' = IF h = "own" THEN "own" ELSE "exit"
      /\ faulty' = (faulty \/ (h = "end" /\ pool))
      /\ held' = held
  BY <1>2 DEF RunHandler, FreeVecs
<1>4. \A k : Has(k)' <=> \E i \in 1 .. Len(handlers') : handlers'[i] = k
  BY <1>2, HasNext
<1>5. \A i \in 1 .. Len(handlers') : /\ i + 1 \in 1 .. Len(handlers)
                                     /\ handlers'[i] = handlers[i + 1]
  BY <1>1, <1>2
<1>6. \A k : Has(k)' => Has(k)
  BY <1>1, <1>4, <1>5
<1>7. 1 \in 1 .. Len(handlers) /\ Has(h)
  BY <1>1, <1>2
<1>8. ASSUME NEW i \in 1 .. Len(handlers'), NEW j \in 1 .. Len(handlers'),
             i < j, handlers'[j] = "own"
      PROVE  handlers'[i] # "pool"
  <2>1. /\ i + 1 \in 1 .. Len(handlers) /\ handlers'[i] = handlers[i + 1]
        /\ j + 1 \in 1 .. Len(handlers) /\ handlers'[j] = handlers[j + 1]
        /\ i + 1 < j + 1
    BY <1>5, <1>8
  <2> QED
    BY <2>1, <1>8
\* If the handler that runs is not the pool's, the pool's stays before cnt_end.
<1>9. ASSUME pool, h # "pool" PROVE h # "end" /\ PoolFirst'
  <2>1. PICK i \in 1 .. Len(handlers) :
          handlers[i] = "pool" /\ \A j \in 1 .. i : handlers[j] # "end"
    BY <1>9 DEF PoolFirst
  <2>2. i # 1 /\ h # "end"
    BY <2>1, <1>9
  <2>3. i - 1 \in 1 .. Len(handlers') /\ handlers'[i - 1] = "pool"
    BY <2>1, <2>2, <1>1, <1>2
  <2>4. \A j \in 1 .. i - 1 : handlers'[j] # "end"
    <3> TAKE j \in 1 .. i - 1
    <3>1. j + 1 \in 1 .. i /\ handlers'[j] = handlers[j + 1]
      BY <2>1, <1>1, <1>2
    <3> QED
      BY <3>1, <2>1
  <2> QED
    BY <2>2, <2>3, <2>4 DEF PoolFirst
<1>10. CASE h = "pool"
  <2>1. ~Has("own")'
    <3>1. ASSUME NEW i \in 1 .. Len(handlers') PROVE handlers'[i] # "own"
      <4>1. i + 1 \in 1 .. Len(handlers) /\ handlers'[i] = handlers[i + 1] /\ 1 < i + 1
        BY <1>5
      <4> QED
        BY <4>1, <1>7, <1>10
    <3> QED
      BY <3>1, <1>4
  <2>2. running' = "exit" /\ pool' = FALSE /\ vecs' = {} /\ faulty' = FALSE
    BY <1>10, <1>3
  <2> QED
    BY <2>1, <2>2, <1>2, <1>8
<1>11. CASE h = "own"
  <2>1. held = vecs
    BY <1>7, <1>11
  <2>2. running' = "own" /\ UNCHANGED <<pool, vecs, held>> /\ faulty' = FALSE
    BY <1>11, <1>3
  <2>3. pool => PoolFirst'
    BY <1>9, <1>11
  <2> QED
    BY <2>1, <2>2, <2>3, <1>2, <1>8
<1>12. CASE h = "end"
  <2>1. pool = FALSE
    BY <1>9, <1>12
  <2>2. running' = "exit" /\ UNCHANGED <<pool, vecs, held>> /\ faulty' = FALSE
    BY <2>1, <1>12, <1>3
  <2> QED
    BY <2>1, <2>2, <1>2, <1>6, <1>8
<1> QED
  BY <1>2, <1>10, <1>11, <1>12

LEMMA PoolInvStep == PoolInv /\ [PoolNext]_poolVars => PoolInv'
<1> SUFFICES ASSUME PoolInv, [PoolNext]_poolVars PROVE PoolInv'
  OBVIOUS
<1>1. ASSUME UNCHANGED <<pool, vecs, held, handlers, faulty>>, running' \in {"exit", running}
      PROVE  PoolInv'
  <2>1. /\ \A h : Has(h)' <=> Has(h)
        /\ PoolFirst' <=> PoolFirst
    BY <1>1 DEF Has, PoolFirst
  <2> QED
    BY <1>1, <2>1 DEF PoolInv, HandlersInOrder
<1>2. CASE UNCHANGED poolVars
  BY <1>1, <1>2 DEF poolVars
<1>3. ASSUME running = "main", Main PROVE PoolInv'
  <2>1. ASSUME NEW v \in Vec, Has("own") => held # {}, VecNew(v) PROVE PoolInv'
    BY <2>1, <1>3, PoolInvNew
  <2>2. ASSUME NEW v \in held, VecDel(v) PROVE PoolInv'
    BY <2>2, <1>3, PoolInvDel
  <2>3. CASE Register("own") \/ (held = {} /\ Register("end"))
    BY <2>3, <1>3, PoolInvRegister
  <2>4. CASE Return
    BY <2>4, <1>1 DEF Return
  <2>5. CASE held = {} /\ EndAndReturn
    <3>1. faulty' = faulty
      BY <2>5, <1>3 DEF EndAndReturn, PoolInv
    <3> QED
      BY <3>1, <2>5, <1>1 DEF EndAndReturn
  <2> QED
    BY <1>3, <2>1, <2>2, <2>3, <2>4, <2>5 DEF Main
<1>4. ASSUME running = "own", NEW v \in held, VecDel(v) PROVE PoolInv'
  BY <1>4, PoolInvDel
<1>5. CASE running = "own" /\ held = {} /\ Return
  BY <1>5, <1>1 DEF Return
<1>6. CASE running = "exit" /\ RunHandler
  BY <1>6, PoolInvRun
<1> QED
  BY <1>2, <1>3, <1>4, <1>5, <1>6 DEF PoolNext

\* Of a program that gives cnt_end to atexit while it has no vector, and makes
\* no pool once it has a handler of its own: with any number of pools, vectors
\* and handlers, and wherever it ends, no vector is freed without its pool and
\* mem_end finds none (free_vecs_atexit, vec.c:33).
THEOREM PoolExitInOrder == PoolSpec => []ExitInOrder
<1>1. PoolInit => PoolInv
  <2> SUFFICES ASSUME PoolInit PROVE PoolInv
    OBVIOUS
  <2> USE DEF PoolInit
  <2>1. handlers \in Seq({"pool", "own", "end"}) /\ DOMAIN handlers = {} /\ Len(handlers) = 0
    OBVIOUS
  <2>2. ~Has("own") /\ HandlersInOrder
    BY <2>1 DEF HandlersInOrder, Has
  <2> QED
    BY <2>1, <2>2 DEF PoolInv
<1>2. PoolInv => ExitInOrder
  BY DEF PoolInv, ExitInOrder
<1> QED
  BY <1>1, <1>2, PoolInvStep, PTL DEF PoolSpec

-----------------------------------------------------------------------------
(***************************************************************************)
(* The stack.  StackInv says that the values are in the block, whatever    *)
(* has wrapped, that the pointers of the client are to the block there is: *)
(* to elements, or to the one popped last, which no pointer to an element  *)
(* is to, and that only a misfit made a push write elsewhere.              *)
(***************************************************************************)
SizesInv == max_size \in Nat /\ bytes = Wrap(max_size * SizeofValue)

ValuesInv ==
  /\ next \in Nat /\ next =< Len(cell) /\ Len(cell) =< max_size
  /\ cell \in Seq(Datum) /\ Len(cell) * SizeofValue =< bytes

PointersInv ==
  /\ entries \in Block
  /\ \A p \in kept : \E i \in 0 .. next - 1 : p = Pointer(i)
  /\ popped = NoDatum \/ \E i \in next .. Len(cell) - 1 : popped = Pointer(i)

SpillInv == spilled \in BOOLEAN /\ (spilled => Misfit)

StackInv == SizesInv /\ ValuesInv /\ PointersInv /\ SpillInv

\* A number that an unsigned counts does not wrap, and no other gets larger.
LEMMA WrapExact ==
  ASSUME NEW n \in Nat
  PROVE  /\ Wrap(n) \in Nat /\ Wrap(n) =< n
         /\ n < UintSize => Wrap(n) = n
BY StackAssumption DEF Wrap

\* What writing the value at next does to the values.
LEMMA StoreExact ==
  ASSUME NEW values \in Seq(Datum), next \in Nat, next =< Len(values), NEW v \in Datum
  PROVE  /\ Store(values, v) \in Seq(Datum)
         /\ Len(Store(values, v)) = IF next < Len(values) THEN Len(values) ELSE next + 1
         /\ \A j \in 1 .. next : Store(values, v)[j] = values[j]
         /\ Store(values, v)[next + 1] = v
<1>1. CASE next < Len(values)
  <2>1. Store(values, v) = [values EXCEPT ![next + 1] = v]
    BY <1>1 DEF Store
  <2>2. next + 1 \in 1 .. Len(values)
    BY <1>1
  <2> QED
    BY <2>1, <2>2, <1>1, ExceptSeq
<1>2. CASE next = Len(values)
  <2>1. Store(values, v) = Append(values, v)
    BY <1>2 DEF Store
  <2> QED
    BY <2>1, <1>2
<1> QED
  BY <1>1, <1>2

\* A push with room for the value.
LEMMA StackInvPushInRoom ==
  ASSUME StackInv, ~spilled, next # max_size, Inside(next, bytes), NEW v \in Datum,
         PushInRoom(v)
  PROVE  StackInv' /\ SubSeq(cell', 1, next') = Append(SubSeq(cell, 1, next), v)
<1> USE DEF StackInv, SizesInv, ValuesInv, PointersInv
<1>1. /\ next' = next + 1 /\ cell' = Store(cell, v) /\ popped' = NoDatum
      /\ kept' = kept \cup {Pointer(next)}
      /\ UNCHANGED <<max_size, entries, bytes, spilled>>
  BY DEF PushInRoom
<1>2. /\ cell' \in Seq(Datum)
      /\ Len(cell') = IF next < Len(cell) THEN Len(cell) ELSE next + 1
      /\ \A j \in 1 .. next : cell'[j] = cell[j]
      /\ cell'[next + 1] = v
  BY <1>1, StoreExact
<1>3. SizesInv'
  BY <1>1 DEF Wrap
<1>4. ValuesInv'
  BY <1>1, <1>2 DEF Inside
<1>5. PointersInv' /\ SpillInv'
  BY <1>1 DEF Pointer, SpillInv
<1>6. SubSeq(cell', 1, next') = Append(SubSeq(cell, 1, next), v)
  BY <1>1, <1>2, PrefixAppended
<1> QED
  BY <1>3, <1>4, <1>5, <1>6

\* A push on a full stack, when there is room in the block of the new size.
LEMMA StackInvPushAndGrow ==
  ASSUME StackInv, ~spilled, next = max_size, Inside(next, SizeGrown), NEW v \in Datum,
         PushAndGrow(v)
  PROVE  StackInv' /\ SubSeq(cell', 1, next') = Append(SubSeq(cell, 1, next), v)
<1> USE DEF StackInv, SizesInv, ValuesInv, PointersInv
<1>1. /\ Len(cell) = next /\ SizeofValue \in Nat \ {0}
      /\ Grown \in Nat /\ SizeGrown \in Nat /\ SizeGrown =< Grown * SizeofValue
  <2>1. Len(cell) = next /\ SizeofValue \in Nat \ {0} /\ 2 * max_size \in Nat
    BY StackAssumption
  <2>2. Grown \in Nat
    BY <2>1, WrapExact DEF Grown
  <2>3. Grown * SizeofValue \in Nat
    BY <2>1, <2>2
  <2>4. SizeGrown \in Nat /\ SizeGrown =< Grown * SizeofValue
    BY <2>3, WrapExact DEF SizeGrown
  <2> QED
    BY <2>1, <2>2, <2>4
<1>2. next + 1 =< Grown
  <2>1. (next + 1) * SizeofValue =< Grown * SizeofValue
    BY <1>1 DEF Inside
  <2>2. \A a, b, c \in Nat : c # 0 /\ a * c =< b * c => a =< b
    OBVIOUS
  <2> QED
    BY <1>1, <2>1, <2>2
<1> DEFINE fit == {i \in 1 .. Len(cell) : Inside(i - 1, SizeGrown)}
<1>3. fit = 1 .. Len(cell)
  <2>1. ASSUME NEW i \in 1 .. Len(cell) PROVE Inside(i - 1, SizeGrown)
    <3>1. i \in Nat /\ i =< next + 1
      BY <1>1
    <3>2. i * SizeofValue =< (next + 1) * SizeofValue
      BY <3>1, <1>1
    <3>3. i * SizeofValue \in Nat /\ (next + 1) * SizeofValue \in Nat
      BY <3>1, <1>1
    <3> QED
      BY <3>1, <3>2, <3>3, <1>1 DEF Inside
  <2> QED
    BY <2>1
<1>4. [i \in fit |-> cell[i]] = cell
  <2>1. [i \in 1 .. Len(cell) |-> cell[i]] = cell
    OBVIOUS
  <2> QED
    BY <1>3, <2>1
<1>5. /\ max_size' = Grown /\ bytes' = SizeGrown /\ entries' \in Block
      /\ cell' = Store(cell, v) /\ next' = next + 1 /\ popped' = NoDatum
      /\ kept' = {[at |-> entries', i |-> next]} /\ spilled' = spilled
  BY <1>4 DEF PushAndGrow
<1> HIDE DEF fit
<1>6. /\ cell' \in Seq(Datum) /\ Len(cell') = next + 1
      /\ \A j \in 1 .. next : cell'[j] = cell[j]
      /\ cell'[next + 1] = v
  <2>1. ~(next < Len(cell)) /\ next =< Len(cell)
    BY <1>1
  <2> QED
    BY <1>5, <2>1, StoreExact
<1>7. SizesInv'
  BY <1>1, <1>5 DEF SizeGrown, Wrap
<1>8. ValuesInv'
  BY <1>1, <1>2, <1>5, <1>6 DEF Inside
<1>9. PointersInv' /\ SpillInv'
  BY <1>5 DEF Pointer, SpillInv
<1>10. SubSeq(cell', 1, next') = Append(SubSeq(cell, 1, next), v)
  BY <1>5, <1>6, PrefixAppended
<1> QED
  BY <1>7, <1>8, <1>9, <1>10

\* A push that does not find its place in the block found a misfit.
LEMMA StackInvSpill ==
  ASSUME StackInv, Spill,
         \/ next # max_size /\ ~Inside(next, bytes)
         \/ next = max_size /\ ~Inside(next, SizeGrown)
  PROVE  StackInv' /\ UNCHANGED <<next, cell, popped>>
<1> USE DEF StackInv, SizesInv, ValuesInv
<1>1. spilled' = TRUE /\ UNCHANGED <<next, max_size, entries, bytes, cell, kept, popped>>
  BY DEF Spill
<1>2. SizesInv' /\ ValuesInv' /\ PointersInv'
  BY <1>1 DEF PointersInv, Pointer, Wrap
<1>3. SizeofValue \in Nat \ {0} /\ next \in Nat /\ max_size \in Nat /\ next =< max_size
  BY StackAssumption
<1>4. Misfit
  <2>1. CASE next # max_size /\ ~Inside(next, bytes)
    <3>1. ASSUME max_size * SizeofValue < UintSize PROVE FALSE
      <4>1. max_size * SizeofValue \in Nat
        BY <1>3
      <4>2. bytes = max_size * SizeofValue
        BY <3>1, <4>1, WrapExact
      <4>3. next + 1 =< max_size
        BY <2>1, <1>3
      <4>4. (next + 1) * SizeofValue =< max_size * SizeofValue
        BY <1>3, <4>3
      <4> QED
        BY <2>1, <4>2, <4>4 DEF Inside
    <3>2. max_size * SizeofValue \in Nat /\ UintSize \in Nat
      BY <1>3, StackAssumption
    <3> QED
      BY <3>1, <3>2 DEF Misfit
  <2>2. CASE next = max_size /\ ~Inside(next, SizeGrown)
    <3>1. ASSUME max_size # 0, 2 * max_size * SizeofValue < UintSize PROVE FALSE
      <4>1. /\ 2 * max_size \in Nat /\ 2 * max_size * SizeofValue \in Nat
            /\ 2 * max_size =< 2 * max_size * SizeofValue
        BY <1>3
      <4>2. Grown = 2 * max_size
        <5>1. 2 * max_size < UintSize
          BY ONLY <3>1, <4>1, StackAssumption
        <5> QED
          BY <4>1, <5>1, WrapExact DEF Grown
      <4>3. SizeGrown = 2 * max_size * SizeofValue
        BY <3>1, <4>1, <4>2, WrapExact DEF SizeGrown
      <4>4. next + 1 =< 2 * max_size
        BY <2>2, <3>1, <1>3
      <4>5. (next + 1) * SizeofValue =< 2 * max_size * SizeofValue
        BY <1>3, <4>1, <4>4
      <4> QED
        BY <2>2, <4>3, <4>5 DEF Inside
    <3>2. 2 * max_size * SizeofValue \in Nat /\ UintSize \in Nat
      BY <1>3, StackAssumption
    <3> QED
      BY <2>2, <3>1, <3>2 DEF Misfit
  <2> QED
    BY <2>1, <2>2
<1>5. SpillInv'
  BY <1>1, <1>4 DEF SpillInv, Misfit
<1> QED
  BY <1>1, <1>2, <1>5

\* The value that popped is for StackSeq.
PoppedValue == IF popped = NoDatum THEN NoDatum ELSE cell[popped.i + 1]

\* A pop gives the last of the elements, and their pointers hold.
LEMMA StackInvPop ==
  ASSUME StackInv, ~spilled, Pop
  PROVE  /\ StackInv'
         /\ SubSeq(cell, 1, next) # <<>>
         /\ SubSeq(cell', 1, next') = Front(SubSeq(cell, 1, next))
         /\ PoppedValue' = Last(SubSeq(cell, 1, next))
<1> USE DEF StackInv, SizesInv, ValuesInv
<1>1. /\ next > 0 /\ next' = next - 1 /\ popped' = Pointer(next - 1)
      /\ kept' = kept \ {Pointer(next - 1)}
      /\ UNCHANGED <<max_size, entries, bytes, cell, spilled>>
  BY DEF Pop
<1>2. SizesInv' /\ ValuesInv' /\ SpillInv'
  BY <1>1 DEF SpillInv, Wrap
<1>3. PointersInv'
  <2>1. \A i : Pointer(i)' = Pointer(i)
    BY <1>1 DEF Pointer
  <2>2. \A p \in kept' : \E i \in 0 .. next' - 1 : p = Pointer(i)
    BY <1>1 DEF PointersInv
  <2>3. next - 1 \in next' .. Len(cell') - 1
    BY <1>1
  <2> QED
    BY <1>1, <2>1, <2>2, <2>3 DEF PointersInv
<1>4. PoppedValue' = cell[next]
  <2>1. popped' \in [at : Block, i : Nat] /\ popped'.i = next - 1
    BY <1>1 DEF Pointer, PointersInv
  <2> QED
    BY <1>1, <2>1, StackAssumption DEF PoppedValue
<1>5. next \in 1 .. Len(cell)
  BY <1>1
<1> QED
  BY <1>1, <1>2, <1>3, <1>4, <1>5, PrefixShortened

\* A write through a pointer changes one element, not the popped value.
LEMMA StackInvWrite ==
  ASSUME StackInv, ~spilled, NEW p \in kept, NEW v \in Datum, WriteThrough(p, v)
  PROVE  /\ StackInv'
         /\ \E i \in 1 .. Len(SubSeq(cell, 1, next)) :
              SubSeq(cell', 1, next') = [SubSeq(cell, 1, next) EXCEPT ![i] = v]
         /\ PoppedValue' = PoppedValue
<1> USE DEF StackInv, SizesInv, ValuesInv
<1>1. PICK i \in 0 .. next - 1 : p = Pointer(i)
  BY DEF PointersInv
<1>2. p.at = entries /\ p.i = i
  BY <1>1 DEF Pointer
<1>3. /\ cell' = [cell EXCEPT ![i + 1] = v]
      /\ UNCHANGED <<next, max_size, entries, bytes, kept, popped, spilled>>
  BY <1>2 DEF WriteThrough
<1>4. i + 1 \in 1 .. Len(cell) /\ i + 1 =< next /\ next \in 0 .. Len(cell)
  OBVIOUS
<1>5. /\ cell' \in Seq(Datum) /\ Len(cell') = Len(cell)
      /\ \A j \in 1 .. Len(cell) : cell'[j] = IF j = i + 1 THEN v ELSE cell[j]
      /\ SubSeq(cell', 1, next) = [SubSeq(cell, 1, next) EXCEPT ![i + 1] = v]
  BY <1>3, <1>4, PrefixWritten
<1>6. i + 1 \in 1 .. Len(SubSeq(cell, 1, next))
  BY <1>4, PrefixExact
<1>7. SizesInv' /\ ValuesInv' /\ SpillInv'
  BY <1>3, <1>5 DEF SpillInv, Wrap
<1>8. \A k : Pointer(k)' = Pointer(k)
  BY <1>3 DEF Pointer
<1>9. PointersInv'
  BY <1>3, <1>5, <1>8 DEF PointersInv
<1>10. PoppedValue' = PoppedValue
  <2>1. CASE popped = NoDatum
    BY <2>1, <1>3 DEF PoppedValue
  <2>2. CASE \E k \in next .. Len(cell) - 1 : popped = Pointer(k)
    <3>1. PICK k \in next .. Len(cell) - 1 : popped = Pointer(k)
      BY <2>2
    <3>2. k \in Nat /\ k + 1 \in 1 .. Len(cell) /\ k + 1 # i + 1 /\ popped.i = k
      BY <3>1 DEF Pointer
    <3>3. cell'[k + 1] = cell[k + 1]
      BY <3>2, <1>5
    <3> QED
      BY <3>2, <3>3, <1>3 DEF PoppedValue
  <2> QED
    BY <2>1, <2>2 DEF PointersInv
<1> QED
  BY <1>3, <1>5, <1>6, <1>7, <1>9, <1>10

\* StackInv holds at first, and cntStack_new makes it so again.
LEMMA StackInvRenew ==
  ASSUME NEW n \in MaxSizes, ~spilled, spilled \in BOOLEAN, StackRenew(n)
  PROVE  StackInv' /\ SubSeq(cell', 1, next') = <<>> /\ PoppedValue' = NoDatum
<1>1. n \in Nat /\ n * SizeofValue \in Nat /\ Wrap(n * SizeofValue) \in Nat
  BY StackAssumption, WrapExact
<1>2. /\ next' = 0 /\ max_size' = n /\ entries' \in Block /\ bytes' = Wrap(n * SizeofValue)
      /\ cell' = <<>> /\ kept' = {} /\ popped' = NoDatum /\ spilled' = FALSE
  BY DEF StackRenew
<1>3. SizesInv'
  BY <1>1, <1>2 DEF SizesInv, Wrap
<1>4. ValuesInv' /\ PointersInv' /\ SpillInv'
  <2>1. cell' \in Seq(Datum) /\ Len(cell') = 0 /\ 0 * SizeofValue = 0
    BY <1>2, StackAssumption
  <2>2. ValuesInv'
    BY <1>1, <1>2, <2>1 DEF ValuesInv
  <2>3. PointersInv' /\ SpillInv'
    BY <1>2 DEF PointersInv, SpillInv
  <2> QED
    BY <2>2, <2>3
<1>5. SubSeq(cell', 1, next') = <<>>
  BY <1>2, SubSeqEmpty
<1> QED
  BY <1>2, <1>3, <1>4, <1>5 DEF StackInv, PoppedValue

LEMMA StackInvInit ==
  StackInit => StackInv /\ SubSeq(cell, 1, next) = <<>> /\ PoppedValue = NoDatum
<1> SUFFICES ASSUME StackInit
             PROVE  StackInv /\ SubSeq(cell, 1, next) = <<>> /\ PoppedValue = NoDatum
  OBVIOUS
<1>1. PICK n \in MaxSizes, b \in Block :
        /\ next = 0 /\ max_size = n /\ entries = b /\ bytes = Wrap(n * SizeofValue)
        /\ cell = <<>> /\ kept = {} /\ popped = NoDatum /\ spilled = FALSE
  BY DEF StackInit
<1>2. n \in Nat /\ n * SizeofValue \in Nat /\ Wrap(n * SizeofValue) \in Nat
  BY StackAssumption, WrapExact
<1>3. SizesInv
  BY <1>1, <1>2 DEF SizesInv
<1>4. ValuesInv /\ PointersInv /\ SpillInv
  <2>1. cell \in Seq(Datum) /\ Len(cell) = 0 /\ 0 * SizeofValue = 0
    BY <1>1, StackAssumption
  <2>2. ValuesInv
    BY <1>1, <1>2, <2>1 DEF ValuesInv
  <2>3. PointersInv /\ SpillInv
    BY <1>1 DEF PointersInv, SpillInv
  <2> QED
    BY <2>2, <2>3
<1>5. SubSeq(cell, 1, next) = <<>>
  BY <1>1, SubSeqEmpty
<1> QED
  BY <1>1, <1>3, <1>4, <1>5 DEF StackInv, PoppedValue

\* cntStack_clear and cntStack_get.
LEMMA StackInvOther ==
  ASSUME StackInv, ~spilled, StackClear \/ \E depth \in 0 .. next - 1 : StackGet(depth)
  PROVE  /\ StackInv' /\ PoppedValue' = PoppedValue
         /\ SubSeq(cell', 1, next') \in {<<>>, SubSeq(cell, 1, next)}
<1> USE DEF StackInv, ValuesInv
<1>1. CASE StackClear
  <2>1. /\ next' = 0 /\ kept' = {}
        /\ UNCHANGED <<max_size, entries, bytes, cell, popped, spilled>>
    BY <1>1 DEF StackClear
  <2>2. \A i : Pointer(i)' = [at |-> entries, i |-> i']
    BY <2>1 DEF Pointer
  <2>3. SizesInv' /\ ValuesInv' /\ PointersInv' /\ SpillInv'
    BY <2>1 DEF SizesInv, PointersInv, Pointer, SpillInv, Wrap
  <2>4. SubSeq(cell', 1, next') = <<>>
    BY <2>1, SubSeqEmpty
  <2> QED
    BY <2>1, <2>3, <2>4 DEF PoppedValue
<1>2. ASSUME NEW depth \in 0 .. next - 1, StackGet(depth)
      PROVE  StackInv' /\ PoppedValue' = PoppedValue /\ UNCHANGED <<cell, next>>
  <2>1. /\ kept' = kept \cup {Pointer(Depth(depth))}
        /\ UNCHANGED <<next, max_size, entries, bytes, cell, popped, spilled>>
        /\ Depth(depth) \in 0 .. next - 1
    BY <1>2 DEF StackGet, Depth
  <2>2. SizesInv' /\ ValuesInv' /\ PointersInv' /\ SpillInv'
    BY <2>1 DEF SizesInv, PointersInv, Pointer, SpillInv, Wrap
  <2> QED
    BY <2>1, <2>2 DEF PoppedValue
<1> QED
  BY <1>1, <1>2

\* Every step keeps StackInv, and is a step of StackSeq or none.
LEMMA StackStep ==
  StackInv /\ [StackNext]_stackVars => StackInv' /\ [Values!StackNext]_(Values!stackVars)
<1> SUFFICES ASSUME StackInv, [StackNext]_stackVars
             PROVE  StackInv' /\ [Values!StackNext]_(Values!stackVars)
  OBVIOUS
<1> DEFINE stk == SubSeq(cell, 1, next)
<1>1. /\ Values!StackNext <=> \/ Values!Push \/ Values!Pop \/ Values!Write \/ Values!Clear
      /\ Values!Push <=> \E v \in Datum : stk' = Append(stk, v) /\ PoppedValue' = NoDatum
      /\ Values!Pop <=> stk # <<>> /\ stk' = Front(stk) /\ PoppedValue' = Last(stk)
      /\ Values!Write <=> \E i \in 1 .. Len(stk), v \in Datum :
                             stk' = [stk EXCEPT ![i] = v] /\ PoppedValue' = PoppedValue
      /\ Values!Clear <=> stk' = <<>> /\ PoppedValue' \in {PoppedValue, NoDatum}
      /\ stk' = stk /\ PoppedValue' = PoppedValue => UNCHANGED Values!stackVars
  <2>1. Values!StackNext <=> \/ Values!Push \/ Values!Pop \/ Values!Write \/ Values!Clear
    BY DEF Values!StackNext
  <2>2. Values!Push <=> \E v \in Datum : stk' = Append(stk, v) /\ PoppedValue' = NoDatum
    BY DEF Values!Push, PoppedValue
  <2>3. Values!Pop <=> stk # <<>> /\ stk' = Front(stk) /\ PoppedValue' = Last(stk)
    BY DEF Values!Pop, PoppedValue, Values!Front, Values!Last, Front, Last
  <2>4. Values!Write <=> \E i \in 1 .. Len(stk), v \in Datum :
                           stk' = [stk EXCEPT ![i] = v] /\ PoppedValue' = PoppedValue
    BY DEF Values!Write, PoppedValue
  <2>5. Values!Clear <=> stk' = <<>> /\ PoppedValue' \in {PoppedValue, NoDatum}
    BY DEF Values!Clear, PoppedValue
  <2>6. stk' = stk /\ PoppedValue' = PoppedValue => UNCHANGED Values!stackVars
    BY DEF Values!stackVars, PoppedValue
  <2> QED
    BY <2>1, <2>2, <2>3, <2>4, <2>5, <2>6
<1> HIDE DEF stk
<1>2. CASE UNCHANGED stackVars
  <2>1. StackInv'
    BY <1>2 DEF stackVars, StackInv, SizesInv, ValuesInv, PointersInv, Pointer, SpillInv,
                Misfit, Wrap
  <2>2. stk' = stk /\ PoppedValue' = PoppedValue
    BY <1>2 DEF stackVars, stk, PoppedValue
  <2> QED
    BY <2>1, <2>2, <1>1
<1>0. spilled \in BOOLEAN
  BY DEF StackInv, SpillInv
<1>3. ASSUME ~spilled, NEW v \in Datum, Push(v)
      PROVE  StackInv' /\ (Values!StackNext \/ UNCHANGED Values!stackVars)
  <2>1. popped' = NoDatum => PoppedValue' = NoDatum
    BY DEF PoppedValue
  <2>2. ASSUME next = max_size, Inside(next, SizeGrown), PushAndGrow(v)
        PROVE  StackInv' /\ Values!StackNext
    <3>1. StackInv' /\ stk' = Append(stk, v)
      BY <1>3, <2>2, StackInvPushAndGrow DEF stk
    <3>2. popped' = NoDatum
      BY <2>2 DEF PushAndGrow
    <3> QED
      BY <3>1, <3>2, <2>1, <1>1
  <2>3. ASSUME next # max_size, Inside(next, bytes), PushInRoom(v)
        PROVE  StackInv' /\ Values!StackNext
    <3>1. StackInv' /\ stk' = Append(stk, v)
      BY <1>3, <2>3, StackInvPushInRoom DEF stk
    <3>2. popped' = NoDatum
      BY <2>3 DEF PushInRoom
    <3> QED
      BY <3>1, <3>2, <2>1, <1>1
  <2>4. ASSUME Spill, \/ next # max_size /\ ~Inside(next, bytes)
                      \/ next = max_size /\ ~Inside(next, SizeGrown)
        PROVE  StackInv' /\ UNCHANGED Values!stackVars
    <3>1. StackInv' /\ UNCHANGED <<next, cell, popped>>
      BY <2>4, StackInvSpill
    <3>2. stk' = stk /\ PoppedValue' = PoppedValue
      BY <3>1 DEF stk, PoppedValue
    <3> QED
      BY <3>1, <3>2, <1>1
  <2> QED
    BY <1>3, <2>2, <2>3, <2>4 DEF Push
<1>4. CASE ~spilled /\ Pop
  BY <1>4, <1>1, StackInvPop DEF stk
<1>5. CASE ~spilled /\ (StackClear \/ \E depth \in 0 .. next - 1 : StackGet(depth))
  BY <1>5, <1>1, StackInvOther DEF stk
<1>6. ASSUME ~spilled, NEW p \in kept, NEW v \in Datum, WriteThrough(p, v)
      PROVE  StackInv' /\ Values!StackNext
  BY <1>6, <1>1, StackInvWrite DEF stk
<1>7. ASSUME ~spilled, NEW n \in MaxSizes, StackRenew(n)
      PROVE  StackInv' /\ Values!StackNext
  BY <1>7, <1>0, <1>1, StackInvRenew DEF stk
<1> QED
  BY <1>2, <1>3, <1>4, <1>5, <1>6, <1>7 DEF StackNext

LEMMA StackSafe == StackSpec => []StackInv
<1>1. StackInv /\ [StackNext]_stackVars => StackInv'
  BY StackStep
<1> QED
  BY <1>1, StackInvInit, PTL DEF StackSpec

\* Of a stack made with any size of an unsigned: a push writes past the block
\* only when the size is 0, has wrapped in bytes, or wraps when it is doubled
\* (stack.c:39, 60, 61).
THEOREM StackInBlock == StackSpec => []InBlock
<1>1. StackInv => InBlock
  <2>1. StackInv => next \in Nat /\ max_size \in Nat /\ Len(cell) \in Nat
                    /\ next =< Len(cell) /\ Len(cell) =< max_size
    BY DEF StackInv, ValuesInv, SizesInv
  <2> QED
    BY <2>1 DEF InBlock, StackInv, SpillInv
<1> QED
  BY <1>1, StackSafe, PTL

\* The pointers that push and get returned stay to elements until these are
\* popped or a push doubles the stack (stack.c:61).
THEOREM StackPointersHold == StackSpec => []PointersHold
<1>1. StackInv => PointersHold
  BY DEF StackInv, ValuesInv, PointersInv, PointersHold, Pointer
<1> QED
  BY <1>1, StackSafe, PTL

\* The block and next are a stack of values, as stack.h has it.
THEOREM StackImplementsSeq == StackSpec => ImplementsStack
<1>1. StackInit => Values!StackInit
  BY StackInvInit DEF Values!StackInit, PoppedValue
<1> QED
  BY <1>1, StackStep, StackSafe, PTL DEF StackSpec, ImplementsStack, Values!StackSpec

-----------------------------------------------------------------------------
(***************************************************************************)
(* The sorted list.  SListInv says that every address is there once and    *)
(* that the element being built is the last, with all others sorted.       *)
(***************************************************************************)
Item == [at : Element, value : Value]

RankSorted(s, n) ==
  \A i, m \in 1 .. n : i < m => Rank[s[i].value] =< Rank[s[m].value]

OnceEach(s) == \A i, m \in 1 .. Len(s) : s[i].at = s[m].at => i = m

\* How many items are sorted.
NbSorted == IF tmp = NULL THEN Size ELSE Size - 1

SListInv ==
  /\ items \in Seq(Item) /\ OnceEach(items)
  /\ RankSorted(items, NbSorted)
  /\ tmp # NULL => Size > 0 /\ items[Size].at = tmp

LEMMA RankNat == \A x \in Item : x.at \in Element /\ x.value \in Value /\ Rank[x.value] \in Nat
BY SListAssumption DEF Item

\* Where the loop of cntSList_insert stops.
LEMMA FirstNotLowerExact ==
  ASSUME NEW s \in Seq(Item), NEW w \in Value
  PROVE  /\ FirstNotLower(s, w) \in 1 .. Len(s) + 1
         /\ FirstNotLower(s, w) =< Len(s) => Rank[s[FirstNotLower(s, w)].value] >= Rank[w]
         /\ \A j \in 1 .. Len(s) : j < FirstNotLower(s, w) => Rank[s[j].value] < Rank[w]
<1> DEFINE T == {i \in 1 .. Len(s) : Rank[s[i].value] >= Rank[w]} \cup {Len(s) + 1}
<1>1. /\ Len(s) \in Nat /\ T \subseteq Nat /\ T # {}
      /\ Rank[w] \in Nat /\ \A j \in 1 .. Len(s) : Rank[s[j].value] \in Nat
  BY RankNat, SListAssumption
<1>2. Min(T) \in T /\ \A m \in T : Min(T) =< m
  BY <1>1, MinOfNat
<1>3. FirstNotLower(s, w) = Min(T)
  BY DEF FirstNotLower
<1>4. \A j \in 1 .. Len(s) : j < Min(T) => j \notin T
  BY <1>1, <1>2
<1> HIDE DEF T
<1>5. \A j \in 1 .. Len(s) : j < Min(T) => Rank[s[j].value] < Rank[w]
  BY <1>1, <1>4 DEF T
<1>6. Min(T) \in 1 .. Len(s) + 1 /\ (Min(T) =< Len(s) => Rank[s[Min(T)].value] >= Rank[w])
  BY <1>1, <1>2 DEF T
<1> QED
  BY <1>3, <1>5, <1>6

\* An item inserted where all before are not higher and all after not lower.
LEMMA InsertSorted ==
  ASSUME NEW s \in Seq(Item), RankSorted(s, Len(s)), OnceEach(s),
         NEW x \in Item, \A i \in 1 .. Len(s) : s[i].at # x.at,
         NEW k \in 1 .. Len(s) + 1,
         k =< Len(s) => Rank[s[k].value] >= Rank[x.value],
         \A j \in 1 .. Len(s) : j < k => Rank[s[j].value] < Rank[x.value]
  PROVE  LET d == InsertAt(s, k, x)
         IN  /\ d \in Seq(Item) /\ OnceEach(d) /\ Len(d) = Len(s) + 1
             /\ RankSorted(d, Len(d))
<1> DEFINE d == InsertAt(s, k, x)
<1>1. d \in Seq(Item) /\ Len(d) = Len(s) + 1 /\ InsertedAt(s, Len(s), k, x, d)
  BY InsertAtExact
<1> HIDE DEF d
<1>2. /\ Len(s) \in Nat /\ k \in Nat /\ 1 =< k
      /\ Rank[x.value] \in Nat /\ \A j \in 1 .. Len(s) : Rank[s[j].value] \in Nat
  BY RankNat
<1>3. \A j \in k .. Len(s) : Rank[s[j].value] >= Rank[x.value]
  <2> TAKE j \in k .. Len(s)
  <2>1. CASE j = k
    BY <2>1
  <2>2. CASE j > k
    <3>1. k \in 1 .. Len(s) /\ j \in 1 .. Len(s) /\ k =< Len(s)
      BY <2>2, <1>2
    <3>2. Rank[s[k].value] =< Rank[s[j].value]
      BY <3>1, <2>2 DEF RankSorted
    <3> QED
      BY <3>1, <3>2, <1>2
  <2> QED
    BY <2>1, <2>2
<1>4. \A j \in 1 .. Len(s) + 1 :
        \/ j < k /\ j \in 1 .. Len(s) /\ d[j] = s[j]
        \/ j = k /\ d[j] = x
        \/ j > k /\ j - 1 \in k .. Len(s) /\ j - 1 \in 1 .. Len(s) /\ d[j] = s[j - 1]
  BY <1>1, <1>2 DEF InsertedAt
<1>5. ASSUME NEW i \in 1 .. Len(d), NEW m \in 1 .. Len(d), d[i].at = d[m].at PROVE i = m
  <2>1. i \in 1 .. Len(s) + 1 /\ m \in 1 .. Len(s) + 1
    BY <1>1
  <2> DEFINE from(j) == IF j < k THEN j ELSE j - 1
  <2>2. ASSUME NEW j \in 1 .. Len(s) + 1
        PROVE  j = k \/ (from(j) \in 1 .. Len(s) /\ d[j] = s[from(j)])
    BY <1>4
  <2>3. \A j \in 1 .. Len(s) + 1 : d[j].at = x.at => j = k
    BY <2>2
  <2>4. d[k] = x /\ k \in 1 .. Len(s) + 1
    BY <1>4
  <2>5. CASE i # k /\ m # k
    <3>1. from(i) \in 1 .. Len(s) /\ from(m) \in 1 .. Len(s) /\ s[from(i)].at = s[from(m)].at
      BY <2>1, <2>2, <2>5, <1>5
    <3>2. from(i) = from(m)
      BY <3>1 DEF OnceEach
    <3> QED
      BY <3>2, <2>5, <2>1, <1>2
  <2> QED
    BY <2>1, <2>3, <2>4, <2>5, <1>5
<1>6. ASSUME NEW i \in 1 .. Len(d), NEW m \in 1 .. Len(d), i < m
      PROVE  Rank[d[i].value] =< Rank[d[m].value]
  <2>1. i \in 1 .. Len(s) + 1 /\ m \in 1 .. Len(s) + 1
    BY <1>1
  <2>2. CASE m < k
    <3>1. d[i] = s[i] /\ d[m] = s[m] /\ i \in 1 .. k - 1 /\ m \in 1 .. k - 1
      BY <2>1, <2>2, <1>4, <1>6, <1>2
    <3> QED
      BY <3>1, <2>1, <2>2, <1>6, <1>2, SMTT(30) DEF RankSorted
  <2>3. CASE m = k
    BY <2>1, <2>3, <1>4, <1>6, <1>2
  <2>4. CASE m > k /\ i > k
    <3>1. i - 1 \in 1 .. Len(s) /\ m - 1 \in 1 .. Len(s) /\ i - 1 < m - 1
          /\ d[i] = s[i - 1] /\ d[m] = s[m - 1]
      BY <2>1, <2>4, <1>4, <1>6, <1>2
    <3> QED
      BY <3>1 DEF RankSorted
  <2>5. CASE m > k /\ i = k
    <3>1. m - 1 \in k .. Len(s) /\ d[m] = s[m - 1] /\ d[i] = x
      BY <2>1, <2>5, <1>4
    <3> QED
      BY <3>1, <1>3
  <2>6. CASE m > k /\ i < k
    <3>1. Rank[d[i].value] \in Nat /\ Rank[d[i].value] < Rank[x.value]
      BY <2>1, <2>6, <1>4, <1>2
    <3>2. Rank[d[m].value] \in Nat /\ Rank[d[m].value] >= Rank[x.value]
      BY <2>1, <2>6, <1>4, <1>3, <1>2
    <3> QED
      BY <3>1, <3>2, <1>2
  <2> QED
    BY <2>1, <2>2, <2>3, <2>4, <2>5, <2>6, <1>2
<1> QED
  BY <1>1, <1>5, <1>6 DEF OnceEach, RankSorted, d

\* Removing an item leaves the others as they were.
LEMMA RemoveSorted ==
  ASSUME NEW s \in Seq(Item), OnceEach(s), NEW n \in 0 .. Len(s), RankSorted(s, n),
         NEW k \in 1 .. Len(s)
  PROVE  LET d == RemoveAt(s, k)
         IN  /\ d \in Seq(Item) /\ OnceEach(d) /\ Len(d) = Len(s) - 1
             /\ k =< n => RankSorted(d, n - 1)
             /\ k > n => RankSorted(d, n)
             /\ \A j \in 1 .. Len(s) - 1 : d[j] = IF j < k THEN s[j] ELSE s[j + 1]
             /\ \A j \in 1 .. Len(s) - 1 : d[j].at # s[k].at
<1> DEFINE d == RemoveAt(s, k)
<1>1. d \in Seq(Item) /\ Len(d) = Len(s) - 1 /\ RemovedAt(s, Len(s), k, d)
  BY RemoveAtExact
<1> HIDE DEF d
<1>2. Len(s) \in Nat /\ k \in Nat /\ 1 =< k /\ n \in Nat /\ n =< Len(s)
  OBVIOUS
<1>3. \A j \in 1 .. Len(s) - 1 : d[j] = IF j < k THEN s[j] ELSE s[j + 1]
  BY <1>1 DEF RemovedAt
<1> DEFINE from(j) == IF j < k THEN j ELSE j + 1
<1>4. \A j \in 1 .. Len(s) - 1 : from(j) \in 1 .. Len(s) /\ from(j) # k /\ d[j] = s[from(j)]
  BY <1>2, <1>3
<1>5. \A i, m \in 1 .. Len(s) - 1 : i < m => from(i) < from(m)
  BY <1>2
<1>6. \A i, m \in 1 .. Len(s) - 1 : from(i) = from(m) => i = m
  BY <1>2
<1>7. /\ k =< n => \A j \in 1 .. n - 1 : j \in 1 .. Len(s) - 1 /\ from(j) \in 1 .. n
      /\ k > n => \A j \in 1 .. n : j \in 1 .. Len(s) - 1 /\ from(j) \in 1 .. n
  BY <1>2
<1> HIDE DEF from
<1>8. OnceEach(d)
  BY <1>1, <1>4, <1>6 DEF OnceEach
<1>9. k =< n => RankSorted(d, n - 1)
  BY <1>4, <1>5, <1>7 DEF RankSorted
<1>10. k > n => RankSorted(d, n)
  BY <1>4, <1>5, <1>7 DEF RankSorted
<1>11. \A j \in 1 .. Len(s) - 1 : d[j].at # s[k].at
  BY <1>4 DEF OnceEach
<1> QED
  BY <1>1, <1>3, <1>8, <1>9, <1>10, <1>11 DEF d

\* cntSList_insert of e before its first not lower.
LEMMA SListInvInsert ==
  ASSUME NEW s \in Seq(Item), RankSorted(s, Len(s)), OnceEach(s), tmp' = NULL,
         NEW e \in Element, NEW w \in Value, \A i \in 1 .. Len(s) : s[i].at # e,
         items' = Inserted(s, e, w)
  PROVE  SListInv'
<1> DEFINE x == [at |-> e, value |-> w]
<1>1. x \in Item /\ x.at = e /\ x.value = w
  BY DEF Item
<1>2. items' = InsertAt(s, FirstNotLower(s, w), x)
  BY DEF Inserted
<1> HIDE DEF x
<1> DEFINE k == FirstNotLower(s, w)
<1>3. /\ k \in 1 .. Len(s) + 1
      /\ k =< Len(s) => Rank[s[k].value] >= Rank[x.value]
      /\ \A j \in 1 .. Len(s) : j < k => Rank[s[j].value] < Rank[x.value]
  BY <1>1, FirstNotLowerExact
<1> HIDE DEF k
<1>4. items' = InsertAt(s, k, x)
  BY <1>2 DEF k
<1>5. /\ items' \in Seq(Item) /\ OnceEach(items')
      /\ RankSorted(items', Len(items'))
  BY <1>1, <1>3, <1>4, InsertSorted
<1> QED
  BY <1>5 DEF SListInv, NbSorted, Size, OnceEach, RankSorted

\* Where the loop of cntSList_remove_by_value gives up.
LEMMA FirstHigherExact ==
  ASSUME items \in Seq(Item), NEW w \in Value
  PROVE  /\ FirstHigher(w) \in 1 .. Size + 1
         /\ FirstHigher(w) =< Size => Rank[items[FirstHigher(w)].value] > Rank[w]
<1> DEFINE T == {i \in 1 .. Size : Rank[items[i].value] > Rank[w]} \cup {Size + 1}
<1>1. Size \in Nat /\ T \subseteq Nat /\ T # {}
  BY DEF Size
<1>2. Min(T) \in T
  BY <1>1, MinOfNat
<1>3. FirstHigher(w) = Min(T)
  BY DEF FirstHigher
<1>4. Min(T) \in 1 .. Size + 1 /\ (Min(T) =< Size => Rank[items[Min(T)].value] > Rank[w])
  BY <1>1, <1>2
<1> QED
  BY <1>3, <1>4

\* Where the element being built is.
LEMMA TmpPlace == ASSUME SListInv, tmp # NULL PROVE PositionOf(tmp) = Size
<1>1. Size \in 1 .. Len(items) /\ items[Size].at = tmp
  BY DEF SListInv, Size
<1>2. PositionOf(tmp) \in 1 .. Size /\ items[PositionOf(tmp)].at = tmp
  BY <1>1 DEF PositionOf, Size
<1> QED
  BY <1>1, <1>2 DEF SListInv, OnceEach, Size

\* Removing an item that is not being built.
LEMMA SListInvDelete ==
  ASSUME SListInv, NEW i \in 1 .. Size, items[i].at # tmp, tmp' = tmp, Delete(i)
  PROVE  SListInv'
<1>1. /\ items \in Seq(Item) /\ OnceEach(items) /\ Len(items) \in Nat
      /\ NbSorted \in 0 .. Len(items) /\ RankSorted(items, NbSorted)
      /\ i \in 1 .. Len(items) /\ items' = RemoveAt(items, i)
  BY DEF SListInv, NbSorted, Size, Delete
<1>2. i =< NbSorted
  BY <1>1 DEF SListInv, NbSorted, Size
<1>3. /\ items' \in Seq(Item) /\ OnceEach(items') /\ Len(items') = Len(items) - 1
      /\ RankSorted(items', NbSorted - 1)
      /\ \A j \in 1 .. Len(items) - 1 : items'[j] = IF j < i THEN items[j] ELSE items[j + 1]
  BY <1>1, <1>2, RemoveSorted
<1>4. NbSorted' = NbSorted - 1
  BY <1>3, <1>1 DEF NbSorted, Size
<1>5. tmp # NULL => Len(items') > 0 /\ items'[Len(items')].at = tmp
  BY <1>1, <1>2, <1>3 DEF SListInv, NbSorted, Size
<1>6. RankSorted(items', NbSorted') /\ OnceEach(items')
  BY <1>3, <1>4
<1> QED
  BY <1>3, <1>5, <1>6 DEF SListInv, Size, OnceEach, RankSorted

\* The others, with the element being built out of the list.
LEMMA WithoutTmp ==
  ASSUME SListInv, tmp # NULL
  PROVE  LET s == RemoveAt(items, Size)
         IN  /\ s \in Seq(Item) /\ OnceEach(s) /\ Len(s) = Size - 1
             /\ RankSorted(s, Len(s)) /\ Size \in Nat \ {0}
             /\ \A j \in 1 .. Size - 1 : s[j] = items[j] /\ s[j].at # tmp
<1>1. /\ items \in Seq(Item) /\ OnceEach(items) /\ Len(items) \in Nat /\ Size = Len(items)
      /\ Size - 1 \in 0 .. Len(items) /\ RankSorted(items, Size - 1)
      /\ Size \in 1 .. Len(items) /\ items[Size].at = tmp
  BY DEF SListInv, NbSorted, Size
<1> DEFINE s == RemoveAt(items, Size)
<1>2. /\ s \in Seq(Item) /\ OnceEach(s) /\ Len(s) = Len(items) - 1
      /\ Size > Size - 1 => RankSorted(s, Size - 1)
      /\ \A j \in 1 .. Len(items) - 1 : s[j] = IF j < Size THEN items[j] ELSE items[j + 1]
      /\ \A j \in 1 .. Len(items) - 1 : s[j].at # items[Size].at
  BY <1>1, RemoveSorted
<1> QED
  BY <1>1, <1>2

\* cntSList_tmp_insert.
LEMMA SListInvTmpInsert == ASSUME SListInv, tmp # NULL, TmpInsert PROVE SListInv'
<1> DEFINE s == RemoveAt(items, Size)
           x == items[Size]
           k == TmpDest
<1>1. /\ s \in Seq(Item) /\ OnceEach(s) /\ Len(s) = Size - 1
      /\ RankSorted(s, Len(s)) /\ Size \in Nat \ {0}
      /\ \A j \in 1 .. Size - 1 : s[j] = items[j] /\ s[j].at # tmp
  BY WithoutTmp
<1>2. PositionOf(tmp) = Size /\ tmp' = NULL
  BY TmpPlace DEF TmpInsert
<1>3. /\ x \in Item /\ x.at = tmp /\ items \in Seq(Item) /\ Len(items) = Size
      /\ OnceEach(items)
  BY <1>1 DEF SListInv, Size
<1> HIDE DEF s, x
<1>4. /\ k \in 1 .. Size + 1
      /\ k =< Size => Rank[items[k].value] >= Rank[x.value]
      /\ \A j \in 1 .. Size : j < k => Rank[items[j].value] < Rank[x.value]
  <2>1. k = FirstNotLower(items, x.value) /\ x.value \in Value
    BY <1>2, <1>3, RankNat DEF TmpDest, x
  <2> HIDE DEF k
  <2> QED
    BY <2>1, <1>3, FirstNotLowerExact
<1>5. k \in 1 .. Size
  <2>1. ~(Rank[items[Size].value] < Rank[x.value])
    BY <1>3, RankNat DEF x
  <2> QED
    BY <2>1, <1>1, <1>4
<1> HIDE DEF k
<1>6. CASE k = Size
  <2>1. items' = items
    BY <1>2, <1>3, <1>5, <1>6 DEF TmpInsert, Precede, k
  <2>2. \A i \in 1 .. Size : i < Size => Rank[items[i].value] =< Rank[items[Size].value]
    BY <1>4, <1>6, <1>3, RankNat DEF x
  <2>3. RankSorted(items, Size)
    <3> SUFFICES ASSUME NEW i \in 1 .. Size, NEW m \in 1 .. Size, i < m
                 PROVE  Rank[items[i].value] =< Rank[items[m].value]
      BY DEF RankSorted
    <3>1. CASE m = Size
      BY <3>1, <2>2
    <3>2. CASE m # Size
      <4>1. i \in 1 .. Size - 1 /\ m \in 1 .. Size - 1
        BY <3>2, <1>1
      <4>2. items[i] = s[i] /\ items[m] = s[m]
        BY <4>1, <1>1
      <4> QED
        BY <4>1, <4>2, <1>1 DEF RankSorted
    <3> QED
      BY <3>1, <3>2
  <2> QED
    BY <2>1, <2>3, <1>2, <1>3 DEF SListInv, NbSorted, Size, OnceEach, RankSorted
<1>7. CASE k # Size
  <2>1. items' = InsertAt(s, k, x)
    <3>1. Precede(Size, k)
      BY <1>2, <1>7 DEF TmpInsert, k
    <3>2. ~(Size < k)
      BY <1>1, <1>5
    <3> QED
      BY <3>1, <3>2 DEF Precede, s, x
  <2>2. /\ k \in 1 .. Len(s) + 1
        /\ k =< Len(s) => Rank[s[k].value] >= Rank[x.value]
        /\ \A j \in 1 .. Len(s) : j < k => Rank[s[j].value] < Rank[x.value]
        /\ \A i \in 1 .. Len(s) : s[i].at # x.at
    BY <1>1, <1>3, <1>4, <1>5, <1>7
  <2>3. /\ items' \in Seq(Item) /\ OnceEach(items')
        /\ RankSorted(items', Len(items'))
    BY <1>1, <1>3, <2>1, <2>2, InsertSorted
  <2> QED
    BY <2>3, <1>2 DEF SListInv, NbSorted, Size, OnceEach, RankSorted
<1> QED
  BY <1>6, <1>7

\* Building an element: cntSList_tmp_alloc, the client that writes its value,
\* and cntSList_tmp_free.
LEMMA SListInvTmpAlloc ==
  ASSUME SListInv, tmp = NULL, NEW e \in Element, NEW w \in Value, TmpAlloc(e, w)
  PROVE  SListInv'
<1> DEFINE x == [at |-> e, value |-> w]
<1>1. /\ items \in Seq(Item) /\ OnceEach(items) /\ Len(items) \in Nat
      /\ RankSorted(items, Len(items))
  BY DEF SListInv, NbSorted, Size
<1>2. /\ items' = Append(items, x) /\ tmp' = e /\ e # NULL /\ x \in Item /\ x.at = e
      /\ \A i \in 1 .. Len(items) : items[i].at # e
  BY SListAssumption DEF TmpAlloc, Used, Item
<1> HIDE DEF x
<1>3. /\ items' \in Seq(Item) /\ Len(items') = Len(items) + 1
      /\ \A i \in 1 .. Len(items) : items'[i] = items[i]
      /\ items'[Len(items) + 1] = x
  BY <1>1, <1>2
<1>4. \A i \in 1 .. Len(items) + 1 : i \in 1 .. Len(items) \/ i = Len(items) + 1
  BY <1>1
<1>5. OnceEach(items')
  BY <1>1, <1>2, <1>3, <1>4 DEF OnceEach
<1>6. RankSorted(items', Len(items))
  <2>1. \A j, k \in 1 .. Len(items) : items'[j] = items[j] /\ items'[k] = items[k]
    BY <1>3
  <2> QED
    BY <2>1, <1>1 DEF RankSorted
<1>7. NbSorted' = Len(items)
  BY <1>1, <1>2, <1>3 DEF NbSorted, Size
<1>8. RankSorted(items', NbSorted') /\ Len(items') > 0 /\ items'[Len(items')].at = tmp'
  BY <1>1, <1>2, <1>3, <1>6, <1>7
<1> QED
  BY <1>3, <1>5, <1>8 DEF SListInv, Size, OnceEach, RankSorted

LEMMA SListInvFill ==
  ASSUME SListInv, tmp # NULL, NEW w \in Value, FillTmp(w)
  PROVE  SListInv'
<1>1. /\ items \in Seq(Item) /\ OnceEach(items) /\ Len(items) \in Nat /\ Len(items) > 0
      /\ RankSorted(items, Len(items) - 1) /\ items[Len(items)].at = tmp
  BY DEF SListInv, NbSorted, Size
<1> DEFINE n == Len(items)
           x == [items[n] EXCEPT !.value = w]
<1>2. x \in Item /\ x.at = tmp
  <2>1. items[n] \in Item
    BY <1>1
  <2> QED
    BY <2>1, <1>1 DEF Item
<1>3. items' = [items EXCEPT ![n] = x] /\ tmp' = tmp
  BY TmpPlace DEF FillTmp, Size
<1> HIDE DEF x
<1>4. /\ items' \in Seq(Item) /\ Len(items') = n
      /\ \A j \in 1 .. n : items'[j] = IF j = n THEN x ELSE items[j]
  <2>1. n \in 1 .. Len(items)
    BY <1>1
  <2> QED
    BY <2>1, <1>1, <1>2, <1>3, ExceptSeq
<1>5. \A j \in 1 .. n : items'[j].at = items[j].at
  BY <1>1, <1>2, <1>4
<1>6. OnceEach(items')
  BY <1>1, <1>4, <1>5 DEF OnceEach
<1>7. RankSorted(items', n - 1)
  <2>1. \A j \in 1 .. n - 1 : items'[j] = items[j]
    BY <1>1, <1>4
  <2> QED
    BY <2>1, <1>1 DEF RankSorted
<1>8. NbSorted' = n - 1 /\ items'[n].at = tmp
  BY <1>1, <1>2, <1>3, <1>4 DEF NbSorted, Size
<1>9. RankSorted(items', NbSorted') /\ Len(items') > 0 /\ items'[Len(items')].at = tmp'
  BY <1>1, <1>3, <1>4, <1>7, <1>8
<1> QED
  BY <1>4, <1>6, <1>9 DEF SListInv, Size, OnceEach, RankSorted

LEMMA SListInvTmpFree == ASSUME SListInv, tmp # NULL, TmpFree PROVE SListInv'
<1>1. items' = RemoveAt(items, Size) /\ tmp' = NULL
  BY TmpPlace DEF TmpFree, Delete
<1>2. /\ items' \in Seq(Item) /\ OnceEach(items') /\ RankSorted(items', Len(items'))
  BY <1>1, WithoutTmp
<1> QED
  BY <1>1, <1>2 DEF SListInv, NbSorted, Size, OnceEach, RankSorted

\* cntSList_set: the element leaves its place, then finds the one of its value.
LEMMA SListInvSet ==
  ASSUME SListInv, tmp = NULL, NEW i \in 1 .. Size, NEW e \in Element, NEW w \in Value,
         SetOrder(i, e, w)
  PROVE  SListInv'
<1> DEFINE s == RemoveAt(items, i)
<1>1. /\ items \in Seq(Item) /\ OnceEach(items) /\ Len(items) \in Nat
      /\ Len(items) \in 0 .. Len(items)
      /\ RankSorted(items, Len(items)) /\ i \in 1 .. Len(items) /\ i =< Len(items)
  BY DEF SListInv, NbSorted, Size
<1>2. /\ s \in Seq(Item) /\ OnceEach(s) /\ Len(s) = Len(items) - 1
      /\ RankSorted(s, Len(items) - 1)
      /\ \A j \in 1 .. Len(items) - 1 : s[j] = IF j < i THEN items[j] ELSE items[j + 1]
      /\ \A j \in 1 .. Len(items) - 1 : s[j].at # items[i].at
  BY <1>1, RemoveSorted
<1>3. /\ e \notin Used \/ e = items[i].at
      /\ items' = Inserted(s, e, w) /\ tmp' = NULL
  BY DEF SetOrder
<1> HIDE DEF s
<1>4. \A j \in 1 .. Len(s) : s[j].at # e
  <2> TAKE j \in 1 .. Len(s)
  <2>1. \E m \in 1 .. Len(items) : s[j] = items[m]
    BY <1>1, <1>2
  <2> QED
    BY <2>1, <1>2, <1>3 DEF Used
<1> QED
  BY <1>2, <1>3, <1>4, SListInvInsert

LEMMA SListInvRemoveByValue ==
  ASSUME SListInv, tmp = NULL, NEW w \in Value, RemoveByValue(w)
  PROVE  SListInv'
<1>1. Size \in Nat /\ tmp' = tmp
  BY DEF SListInv, Size, RemoveByValue
<1>2. CASE Met(w) = {}
  BY <1>1, <1>2 DEF RemoveByValue, SListInv, NbSorted, Size, OnceEach, RankSorted
<1>3. CASE Met(w) # {}
  <2>1. FirstHigher(w) \in 1 .. Size + 1
    BY FirstHigherExact DEF SListInv
  <2>2. Met(w) \subseteq 1 .. Size /\ Met(w) \subseteq Nat
    BY <1>1, <2>1 DEF Met
  <2>3. Min(Met(w)) \in 1 .. Size
    BY <1>3, <2>2, MinOfNat
  <2>4. items[Min(Met(w))].at \in Element
    BY <2>3, RankNat DEF SListInv, Size
  <2>5. Delete(Min(Met(w))) /\ items[Min(Met(w))].at # tmp
    BY <1>3, <2>4, SListAssumption DEF RemoveByValue
  <2> QED
    BY <1>1, <2>3, <2>5, SListInvDelete
<1> QED
  BY <1>2, <1>3

LEMMA SListInvStep == SListInv /\ [SListNext]_slistVars => SListInv'
<1> SUFFICES ASSUME SListInv, [SListNext]_slistVars PROVE SListInv'
  OBVIOUS
<1>1. CASE UNCHANGED slistVars
  BY <1>1 DEF slistVars, SListInv, NbSorted, Size, OnceEach, RankSorted
<1>2. ASSUME tmp = NULL, NEW e \in Element, NEW w \in Value, SInsert(e, w) PROVE SListInv'
  <2>1. RankSorted(items, Len(items)) /\ items \in Seq(Item) /\ OnceEach(items)
    BY <1>2 DEF SListInv, NbSorted, Size
  <2>2. /\ tmp' = NULL /\ items' = Inserted(items, e, w)
        /\ \A i \in 1 .. Len(items) : items[i].at # e
    BY <1>2 DEF SInsert, Used
  <2> QED
    BY <2>1, <2>2, SListInvInsert
<1>3. CASE tmp = NULL /\ Plain
  BY <1>2, <1>3, SListInvTmpAlloc, SListInvSet, SListInvRemoveByValue DEF Plain
<1>4. CASE tmp # NULL /\ Building
  BY <1>4, SListInvFill, SListInvTmpFree, SListInvTmpInsert DEF Building
<1>5. ASSUME NEW i \in 1 .. Size, items[i].at # tmp, RemoveOrder(i) PROVE SListInv'
  BY <1>5, SListInvDelete DEF RemoveOrder
<1>6. CASE SClear
  <2>1. items' = <<>> /\ tmp' = NULL
    BY <1>6 DEF SClear, Empty
  <2> QED
    BY <2>1 DEF SListInv, NbSorted, Size, OnceEach, RankSorted
<1> QED
  BY <1>1, <1>3, <1>4, <1>5, <1>6 DEF SListNext

LEMMA SListSafe == SListSpec => []SListInv
<1>1. SListInit => SListInv
  BY DEF SListInit, SListInv, NbSorted, Size, OnceEach, RankSorted
<1> QED
  BY <1>1, SListInvStep, PTL DEF SListSpec

\* The list is sorted but for the element being built, which is the last:
\* cntSList_tmp_insert finds its place by the elements before (slist.c:129).
THEOREM SListSorted == SListSpec => []Sorted
<1>1. SListInv => Sorted
  <2> SUFFICES ASSUME SListInv PROVE Sorted
    OBVIOUS
  <2>1. Size \in Nat /\ Size = Len(items)
    BY DEF SListInv, Size
  <2>2. ASSUME NEW i \in 1 .. Size, NEW m \in 1 .. Size, i < m, items[m].at # tmp
        PROVE  Rank[items[i].value] =< Rank[items[m].value]
    <3>1. i \in 1 .. NbSorted /\ m \in 1 .. NbSorted
      BY <2>1, <2>2 DEF NbSorted, SListInv
    <3> QED
      BY <3>1, <2>2 DEF SListInv, RankSorted
  <2> QED
    BY <2>2 DEF Sorted, SListInv
<1> QED
  BY <1>1, SListSafe, PTL

\* cntSList_remove_by_value, which gives up at the first higher value, meets
\* every element that has the value it looks for (slist.c:102).
THEOREM SListRemovalMeetsAll == SListSpec => []RemovalMeetsAll
<1>1. SListInv => RemovalMeetsAll
  <2> SUFFICES ASSUME SListInv, tmp = NULL, NEW w \in Value
               PROVE  Met(w) = {i \in 1 .. Size : items[i].value = w}
    BY DEF RemovalMeetsAll
  <2>1. /\ items \in Seq(Item) /\ Size \in Nat /\ Size = Len(items)
        /\ RankSorted(items, Size)
    BY DEF SListInv, NbSorted, Size
  <2>2. /\ FirstHigher(w) \in 1 .. Size + 1
        /\ FirstHigher(w) =< Size => Rank[items[FirstHigher(w)].value] > Rank[w]
    BY <2>1, FirstHigherExact
  <2> DEFINE k == FirstHigher(w)
  <2> HIDE DEF k
  <2>3. ASSUME NEW i \in 1 .. Size, items[i].value = w PROVE i < k
    <3>1. CASE k =< i
      <4>1. k \in 1 .. Size /\ Rank[items[k].value] > Rank[w]
        BY <2>1, <2>2, <3>1 DEF k
      <4>2. Rank[items[k].value] =< Rank[items[i].value]
        BY <2>1, <3>1, <4>1, RankNat DEF RankSorted
      <4>3. Rank[items[k].value] \in Nat /\ Rank[w] \in Nat
        BY <2>1, <4>1, RankNat, SListAssumption
      <4> QED
        BY <4>1, <4>2, <4>3, <2>3
    <3> QED
      BY <3>1, <2>1, <2>2 DEF k
  <2> QED
    BY <2>1, <2>2, <2>3 DEF Met, k
<1> QED
  BY <1>1, SListSafe, PTL

-----------------------------------------------------------------------------
(***************************************************************************)
(* The tree.  What cntTree_add_node keeps is said of the places in the     *)
(* list: a node comes after its father, and whatever stands between the    *)
(* two is below the father, as its own father does not stand before that.  *)
(***************************************************************************)
FatherAt(l, f, k, h) == f[l[k]] = l[h]

Nested(l, f) ==
  /\ f[l[1]] = NoNode
  /\ \A k \in 2 .. Len(l) : \E h \in 1 .. k - 1 : FatherAt(l, f, k, h)
  /\ \A i, k, j \in 1 .. Len(l) :
       i < k /\ k < j /\ FatherAt(l, f, j, i) => \E h \in i .. k - 1 : FatherAt(l, f, k, h)

TreeInv ==
  /\ list \in Seq(Node) /\ list # <<>> /\ NoRepeat(list)
  /\ father \in [Node -> Node \cup {NoNode}]
  /\ Nested(list, father)
  /\ each_order \in Nat
  /\ owed \subseteq Range(list)
  /\ \A i \in 1 .. Len(list) : list[i] \in owed => i > each_order

\* The place of a node.
LEMMA PlaceExact ==
  ASSUME list \in Seq(Node), NoRepeat(list)
  PROVE  /\ Len(list) \in Nat
         /\ \A i \in 1 .. Len(list) : Place(list[i]) = i /\ list[i] \in Present
         /\ \A n \in Present : Place(n) \in 1 .. Len(list) /\ list[Place(n)] = n
<1>1. /\ Len(list) \in Nat
      /\ \A x : x \in Present <=> \E j \in 1 .. Len(list) : list[j] = x
  BY RangeOf DEF Present
<1>2. \A n \in Present : Place(n) \in 1 .. Len(list) /\ list[Place(n)] = n
  BY <1>1 DEF Place, NbNodes
<1>3. \A i \in 1 .. Len(list) : Place(list[i]) = i /\ list[i] \in Present
  BY <1>1, <1>2 DEF NoRepeat
<1> QED
  BY <1>1, <1>2, <1>3

\* A node inserted right after its father leaves the tree nested.
LEMMA NestedInserted ==
  ASSUME NEW l \in Seq(Node), NoRepeat(l), NEW f, Nested(l, f), NEW g,
         NEW i \in 1 .. Len(l), NEW n \in Node, n \notin Range(l),
         g[n] = l[i], \A m \in Range(l) : g[m] = f[m]
  PROVE  Nested(InsertAt(l, i + 1, n), g)
<1> DEFINE d == InsertAt(l, i + 1, n)
           Shifted(j) == IF j =< i THEN j ELSE j + 1
<1>0. Len(l) \in Nat /\ i + 1 \in 1 .. Len(l) + 1
  OBVIOUS
<1>1. /\ d \in Seq(Node) /\ Len(d) = Len(l) + 1
      /\ InsertedAt(l, Len(l), i + 1, n, d)
  BY <1>0, InsertAtExact
<1> HIDE DEF d
<1>2. \A j \in 1 .. Len(l) : l[j] \in Range(l)
  BY RangeOf
<1>3. d[i + 1] = n
  BY <1>0, <1>1 DEF InsertedAt
<1>4. ASSUME NEW j \in 1 .. Len(l)
      PROVE  /\ Shifted(j) \in 1 .. Len(d) /\ Shifted(j) # i + 1
             /\ d[Shifted(j)] = l[j] /\ g[d[Shifted(j)]] = f[l[j]]
  <2>1. CASE j =< i
    <3>1. j \in 1 .. Len(l) + 1 /\ j < i + 1 /\ Shifted(j) = j
      BY <2>1, <1>0
    <3>2. d[j] = l[j]
      BY <3>1, <1>1 DEF InsertedAt
    <3> QED
      BY <3>1, <3>2, <1>1, <1>2
  <2>2. CASE ~(j =< i)
    <3>1. j + 1 \in 1 .. Len(l) + 1 /\ j + 1 > i + 1 /\ Shifted(j) = j + 1 /\ j + 1 - 1 = j
      BY <2>2, <1>0
    <3>2. d[j + 1] = l[j]
      BY <3>1, <1>1 DEF InsertedAt
    <3> QED
      BY <3>1, <3>2, <1>1, <1>2
  <2> QED
    BY <2>1, <2>2
<1>5. ASSUME NEW k \in 1 .. Len(d), k # i + 1
      PROVE  \E j \in 1 .. Len(l) : k = Shifted(j)
  <2>1. CASE k =< i
    BY <2>1, <1>0
  <2>2. CASE k > i
    <3>1. k - 1 \in 1 .. Len(l) /\ k = Shifted(k - 1)
      BY <2>2, <1>0, <1>1, <1>5
    <3> QED
      BY <3>1
  <2> QED
    BY <2>1, <2>2, <1>0, <1>1
<1>6. \A j, k \in 1 .. Len(l) : Shifted(j) < Shifted(k) <=> j < k
  BY <1>0
<1>7. Shifted(i) = i /\ Shifted(1) = 1
  BY <1>0
<1>8. \A j \in 1 .. Len(l) : Shifted(j) \in Nat
  BY <1>0
<1>9. \A j \in 1 .. Len(l) : Shifted(j) < i + 1 => j =< i /\ Shifted(j) =< i
  BY <1>0
<1> HIDE DEF Shifted
<1>10. g[d[1]] = NoNode
  <2>1. 1 \in 1 .. Len(l)
    BY <1>0
  <2> QED
    BY <2>1, <1>4, <1>7 DEF Nested
<1>11. FatherAt(d, g, i + 1, i)
  <2>1. d[i] = l[i]
    BY <1>4, <1>7
  <2> QED
    BY <2>1, <1>3 DEF FatherAt
<1>12. ASSUME NEW k \in 2 .. Len(d) PROVE \E h \in 1 .. k - 1 : FatherAt(d, g, k, h)
  <2>1. CASE k = i + 1
    BY <2>1, <1>0, <1>11
  <2>2. CASE k # i + 1
    <3>1. PICK j \in 1 .. Len(l) : k = Shifted(j)
      BY <2>2, <1>0, <1>1, <1>5
    <3>2. j \in 2 .. Len(l)
      BY <3>1, <1>0, <1>7
    <3>3. PICK h \in 1 .. j - 1 : f[l[j]] = l[h]
      BY <3>2 DEF Nested, FatherAt
    <3>4. h \in 1 .. Len(l) /\ h < j
      BY <3>2, <3>3, <1>0
    <3>5. Shifted(h) \in 1 .. k - 1
      BY <3>1, <3>4, <1>0, <1>1, <1>4, <1>6, <1>8
    <3>6. FatherAt(d, g, k, Shifted(h))
      BY <3>1, <3>3, <3>4, <1>4 DEF FatherAt
    <3> QED
      BY <3>5, <3>6
  <2> QED
    BY <2>1, <2>2
<1>13. \A a, b \in 1 .. Len(d) : d[a] = d[b] => a = b
  <2>1. NoRepeat(d)
    BY <1>0, InsertNew DEF d
  <2> QED
    BY <2>1 DEF NoRepeat
<1>14. ASSUME NEW p \in 1 .. Len(d), NEW k \in 1 .. Len(d), NEW q \in 1 .. Len(d),
              p < k, k < q, FatherAt(d, g, q, p)
       PROVE  \E h \in p .. k - 1 : FatherAt(d, g, k, h)
  <2>1. q # i + 1
    <3>1. SUFFICES ASSUME q = i + 1 PROVE FALSE
      OBVIOUS
    <3>2. d[p] = d[i] /\ i \in 1 .. Len(d)
      BY <3>1, <1>0, <1>1, <1>11, <1>14 DEF FatherAt
    <3>3. p = i
      BY <3>2, <1>13
    <3> QED
      BY <3>1, <3>3, <1>0, <1>14
  <2>2. PICK j \in 1 .. Len(l) : q = Shifted(j)
    BY <2>1, <1>5
  <2>3. j # 1
    BY <2>2, <1>0, <1>1, <1>7, <1>14
  <2>4. PICK p0 \in 1 .. j - 1 : f[l[j]] = l[p0]
    BY <2>3, <1>0 DEF Nested, FatherAt
  <2>5. p0 \in 1 .. Len(l)
    BY <2>4, <1>0
  <2>6. p = Shifted(p0)
    <3>1. d[p] = d[Shifted(p0)] /\ Shifted(p0) \in 1 .. Len(d)
      BY <2>2, <2>4, <2>5, <1>4, <1>14 DEF FatherAt
    <3> QED
      BY <3>1, <1>13
  <2>7. CASE k = i + 1
    <3>1. p =< i
      BY <2>5, <2>6, <2>7, <1>9, <1>14
    <3>2. i \in p .. k - 1
      BY <3>1, <2>7, <1>0, <1>1
    <3> QED
      BY <3>2, <2>7, <1>11
  <2>8. CASE k # i + 1
    <3>1. PICK k0 \in 1 .. Len(l) : k = Shifted(k0)
      BY <2>8, <1>5
    <3>2. p0 < k0 /\ k0 < j
      BY <3>1, <2>2, <2>5, <2>6, <1>6, <1>14
    <3>3. PICK h \in p0 .. k0 - 1 : f[l[k0]] = l[h]
      BY <3>2, <2>4, <2>5 DEF Nested, FatherAt
    <3>4. h \in 1 .. Len(l) /\ h < k0 /\ ~(h < p0)
      BY <3>1, <3>3, <2>5, <1>0
    <3>5. Shifted(h) \in p .. k - 1
      <4>1. Shifted(h) < k /\ ~(Shifted(h) < p)
        BY <3>1, <3>4, <2>5, <2>6, <1>6
      <4> QED
        BY <4>1, <3>4, <1>0, <1>1, <1>8
    <3>6. FatherAt(d, g, k, Shifted(h))
      BY <3>1, <3>3, <3>4, <1>4 DEF FatherAt
    <3> QED
      BY <3>5, <3>6
  <2> QED
    BY <2>7, <2>8
<1> QED
  BY <1>10, <1>12, <1>14 DEF Nested, d

LEMMA TreeInvInit == TreeInit => TreeInv
<1> SUFFICES ASSUME TreeInit PROVE TreeInv
  OBVIOUS
<1>1. PICK root \in Node : /\ list = <<root>> /\ father = [n \in Node |-> NoNode]
                           /\ each_order = 0 /\ owed = {root}
  BY DEF TreeInit
<1>2. /\ list \in Seq(Node) /\ Len(list) = 1 /\ list[1] = root /\ list # <<>>
      /\ 1 .. Len(list) = {1} /\ 2 .. Len(list) = {}
  BY <1>1
<1>3. NoRepeat(list) /\ owed \subseteq Range(list)
  BY <1>1, <1>2, RangeOf DEF NoRepeat
<1>4. Nested(list, father)
  <2>1. father[list[1]] = NoNode
    BY <1>1, <1>2
  <2>2. \A i, k \in 1 .. Len(list) : ~(i < k)
    BY <1>2
  <2> QED
    BY <2>1, <2>2, <1>2 DEF Nested
<1>5. father \in [Node -> Node \cup {NoNode}] /\ each_order \in Nat
  BY <1>1
<1>6. \A i \in 1 .. Len(list) : i > each_order
  BY <1>1, <1>2
<1> QED
  BY <1>2, <1>3, <1>4, <1>5, <1>6 DEF TreeInv

LEMMA TreeInvAdd ==
  ASSUME TreeInv, NEW f \in Present, NEW n \in Node, AddNode(f, n)
  PROVE  TreeInv'
<1> DEFINE i == Place(f)
<1>1. /\ list \in Seq(Node) /\ NoRepeat(list) /\ Len(list) \in Nat
      /\ i \in 1 .. Len(list) /\ list[i] = f
  BY PlaceExact DEF TreeInv
<1>2. /\ n \notin Range(list) /\ list' = InsertAt(list, i + 1, n)
      /\ father' = [father EXCEPT ![n] = f]
      /\ each_order' = each_order /\ owed' = owed
  BY DEF AddNode, NewPosition, Present
<1> HIDE DEF i
<1>3. i + 1 \in 1 .. Len(list) + 1
  BY <1>1
<1>4. /\ list' \in Seq(Node) /\ Len(list') = Len(list) + 1
      /\ InsertedAt(list, Len(list), i + 1, n, list')
      /\ NoRepeat(list') /\ Range(list') = Range(list) \cup {n}
  <2> DEFINE d == InsertAt(list, i + 1, n)
  <2>1. d \in Seq(Node) /\ Len(d) = Len(list) + 1 /\ InsertedAt(list, Len(list), i + 1, n, d)
    BY <1>1, <1>3, InsertAtExact
  <2>2. NoRepeat(d) /\ Range(d) = Range(list) \cup {n}
    BY <1>1, <1>2, <1>3, InsertNew
  <2>3. list' = d
    BY <1>2
  <2> HIDE DEF d
  <2> QED
    BY <2>1, <2>2, <2>3
<1>5. father \in [Node -> Node \cup {NoNode}]
  BY DEF TreeInv
<1>6. Range(list) \subseteq Node /\ f \in Range(list)
  BY <1>1, RangeOf DEF Present
<1>7. father' \in [Node -> Node \cup {NoNode}]
  BY <1>2, <1>5, <1>6
<1>8. father'[n] = list[i] /\ \A m \in Range(list) : father'[m] = father[m]
  BY <1>1, <1>2, <1>5, <1>6
<1>9. Nested(list', father')
  <2>1. Nested(list, father)
    BY DEF TreeInv
  <2> DEFINE g == father'
  <2>2. g[n] = list[i] /\ \A m \in Range(list) : g[m] = father[m]
    BY <1>8
  <2> HIDE DEF g
  <2>3. Nested(InsertAt(list, i + 1, n), g)
    BY <2>1, <2>2, <1>1, <1>2, NestedInserted
  <2> QED
    BY <2>3, <1>2 DEF g
<1>10. owed' \subseteq Range(list')
  BY <1>2, <1>4 DEF TreeInv
<1>11. ASSUME NEW j \in 1 .. Len(list'), list'[j] \in owed' PROVE j > each_order'
  <2>1. j # i + 1
    BY <1>1, <1>2, <1>3, <1>4, <1>11 DEF TreeInv, InsertedAt
  <2>2. CASE j < i + 1
    <3>1. j \in 1 .. Len(list) /\ list'[j] = list[j]
      BY <2>2, <1>1, <1>4 DEF InsertedAt
    <3> QED
      BY <3>1, <1>2, <1>11 DEF TreeInv
  <2>3. CASE j > i + 1
    <3>1. j - 1 \in 1 .. Len(list) /\ list'[j] = list[j - 1]
      BY <2>3, <1>1, <1>4 DEF InsertedAt
    <3>2. j - 1 > each_order /\ each_order \in Nat
      BY <3>1, <1>2, <1>11 DEF TreeInv
    <3> QED
      BY <3>1, <3>2, <1>2
  <2> QED
    BY <2>1, <2>2, <2>3, <1>1, <1>4
<1>12. list' # <<>>
  BY <1>1, <1>4
<1> QED
  BY <1>2, <1>4, <1>7, <1>9, <1>10, <1>11, <1>12 DEF TreeInv

LEMMA TreeInvStep == TreeInv /\ [TreeNext]_treeVars => TreeInv'
<1> SUFFICES ASSUME TreeInv, [TreeNext]_treeVars PROVE TreeInv'
  OBVIOUS
<1>1. CASE \E f \in Present, n \in Node : AddNode(f, n)
  BY <1>1, TreeInvAdd
<1>2. CASE TreeReset
  <2>1. each_order' = 0 /\ owed' = Range(list) /\ list' = list /\ father' = father
    BY <1>2 DEF TreeReset, Present
  <2>2. \A i \in 1 .. Len(list) : i > 0
    BY DEF TreeInv
  <2> QED
    BY <2>1, <2>2 DEF TreeInv
<1>3. CASE TreeEach
  <2>1. /\ each_order < Len(list) /\ each_order \in Nat /\ Len(list) \in Nat
        /\ owed' = owed \ {list[each_order + 1]} /\ each_order' = each_order + 1
        /\ list' = list /\ father' = father
    BY <1>3 DEF TreeEach, EachReturns, InOrder, NbNodes, TreeInv
  <2>2. ASSUME NEW i \in 1 .. Len(list), list[i] \in owed' PROVE i > each_order + 1
    <3>1. i > each_order /\ i # each_order + 1
      BY <2>1, <2>2 DEF TreeInv
    <3> QED
      BY <3>1, <2>1
  <2> QED
    BY <2>1, <2>2 DEF TreeInv
<1>4. CASE UNCHANGED treeVars
  BY <1>4 DEF treeVars, TreeInv
<1> QED
  BY <1>1, <1>2, <1>3, <1>4 DEF TreeNext

LEMMA TreeInvariant == TreeSpec => []TreeInv
BY TreeInvInit, TreeInvStep, PTL DEF TreeSpec

(***************************************************************************)
(* Nodes added during a walk by cntTree_each shift others, but only away   *)
(* from the position that the walk has come to: none is missed.            *)
(***************************************************************************)
THEOREM TreeWalkMissesNone == TreeSpec => []WalkMissesNone
<1>1. TreeInv => WalkMissesNone
  BY PlaceExact DEF TreeInv, WalkMissesNone, Present
<1> QED
  BY <1>1, TreeInvariant, PTL

\* Below(n) is what is reached in as many steps as there are nodes.
DownBody(n, f) ==
  [d \in 0 .. NbNodes |->
     IF d = 0 THEN {n} ELSE f[d - 1] \cup {m \in Present : father[m] \in f[d - 1]}]

LEMMA DownAt ==
  ASSUME NEW n, NEW f, f = DownBody(n, f), NEW d \in 0 .. NbNodes
  PROVE  f[d] = IF d = 0 THEN {n} ELSE f[d - 1] \cup {m \in Present : father[m] \in f[d - 1]}
BY DEF DownBody

LEMMA DownExists ==
  ASSUME NbNodes \in Nat, NEW n
  PROVE  \E f : f = DownBody(n, f)
<1> DEFINE S == SUBSET (Present \cup {n})
           step == [s \in S |-> s \cup {m \in Present : father[m] \in s}]
<1>1. PICK f : f = Iterated({n}, step, NbNodes, f)
  BY IterateExists
<1>2. \A s \in S : step[s] \in S /\ step[s] = s \cup {m \in Present : father[m] \in s}
  OBVIOUS
<1>3. {n} \in S
  OBVIOUS
<1> HIDE DEF S, step
<1> DEFINE T == {d \in 0 .. NbNodes : f[d] \notin S}
<1>4. T = {}
  <2> SUFFICES ASSUME T # {} PROVE FALSE
    OBVIOUS
  <2>1. T \subseteq Nat
    OBVIOUS
  <2>2. PICK m \in T : \A i \in T : m =< i
    BY <2>1, LeastNat
  <2>3. m \in 0 .. NbNodes /\ f[m] \notin S
    OBVIOUS
  <2>4. m # 0
    BY <2>3, <1>1, <1>3, IteratedAt
  <2>5. m - 1 \in 0 .. NbNodes /\ m - 1 \notin T
    BY <2>2, <2>3, <2>4
  <2>6. f[m] = step[f[m - 1]] /\ f[m - 1] \in S
    BY <2>3, <2>4, <2>5, <1>1, IteratedAt
  <2> QED
    BY <2>3, <2>6, <1>2
<1>5. ASSUME NEW d \in 0 .. NbNodes
      PROVE  f[d] = IF d = 0 THEN {n}
                    ELSE f[d - 1] \cup {m \in Present : father[m] \in f[d - 1]}
  <2>1. CASE d = 0
    BY <2>1, <1>1, IteratedAt
  <2>2. CASE d # 0
    <3>1. d - 1 \in 0 .. NbNodes
      BY <2>2
    <3> QED
      BY <3>1, <2>2, <1>1, <1>2, <1>4, IteratedAt
  <2> QED
    BY <2>1, <2>2
<1>6. DOMAIN f = 0 .. NbNodes /\ f = [d \in 0 .. NbNodes |-> f[d]]
  BY <1>1 DEF Iterated
<1>7. f = DownBody(n, f)
  BY <1>5, <1>6 DEF DownBody
<1> QED
  BY <1>7

\* The nodes below the one at p, and it, stand together from p on.
LEMMA BelowExact ==
  ASSUME TreeInv, NEW p \in 1 .. Len(list)
  PROVE  \E e \in p .. Len(list) : Below(list[p]) = {list[k] : k \in p .. e}
<1> DEFINE n == list[p]
           Out == {k \in p + 1 .. Len(list) + 1 :
                     k = Len(list) + 1 \/ \E h \in 1 .. p - 1 : FatherAt(list, father, k, h)}
           e == Min(Out) - 1
           X == {list[k] : k \in p .. e}
<1>1. /\ Len(list) \in Nat /\ NbNodes = Len(list) /\ Nested(list, father)
      /\ \A j, k \in 1 .. Len(list) : list[j] = list[k] => j = k
      /\ \A j \in 1 .. Len(list) : list[j] \in Node /\ list[j] \in Present
      /\ \A m \in Present : \E j \in 1 .. Len(list) : list[j] = m
  BY PlaceExact DEF TreeInv, NoRepeat, NbNodes
<1>2. Len(list) + 1 \in Out /\ Out \subseteq Nat
  BY <1>1
<1>3. Min(Out) \in Out /\ \A k \in Out : Min(Out) =< k
  BY <1>2, MinOfNat
<1>4. e \in p .. Len(list) /\ e + 1 \in Out /\ \A k \in Out : e < k
  <2>1. Min(Out) \in p + 1 .. Len(list) + 1
    BY <1>3
  <2>2. e \in p .. Len(list) /\ e + 1 = Min(Out)
    BY <2>1, <1>1
  <2> HIDE DEF e
  <2>3. \A k \in Out : e < k
    <3>1. ASSUME NEW k \in Out PROVE e < k
      <4>1. Min(Out) =< k /\ k \in Nat
        BY <1>2, <1>3
      <4> HIDE DEF Out
      <4> QED
        BY <4>1, <2>2, <1>1
    <3> QED
      BY <3>1
  <2> QED
    BY <2>2, <2>3, <1>3
<1> HIDE DEF e
\* Up to e, a node has its father from p on.
<1>5. ASSUME NEW k \in p + 1 .. e
      PROVE  \E h \in p .. k - 1 : FatherAt(list, father, k, h)
  <2>1. k \in 2 .. Len(list) /\ k \notin Out /\ k \in p + 1 .. Len(list) + 1
    BY <1>1, <1>4
  <2>2. PICK h \in 1 .. k - 1 : FatherAt(list, father, k, h)
    BY <2>1, <1>1 DEF Nested
  <2>3. h \notin 1 .. p - 1
    BY <2>1, <2>2
  <2> QED
    BY <2>1, <2>2, <2>3
\* Beyond e, none has.
<1>6. ASSUME NEW j \in 1 .. Len(list), NEW i \in p .. e, FatherAt(list, father, j, i)
      PROVE  j \in p .. e
  <2>0. i \in 1 .. Len(list)
    BY <1>1, <1>4
  <2>1. j # 1
    BY <1>1, <1>6, <2>0, TreeAssumption DEF Nested, FatherAt
  <2>2. PICK h \in 1 .. j - 1 : FatherAt(list, father, j, h)
    BY <2>1, <1>1 DEF Nested
  <2>3. h = i /\ i < j
    <3>1. h \in 1 .. Len(list) /\ list[h] = list[i]
      BY <2>2, <1>1, <1>6 DEF FatherAt
    <3> QED
      BY <3>1, <2>0, <2>2, <1>1
  <2>4. CASE j > e
    <3>1. e + 1 \in 1 .. Len(list)
      BY <2>4, <1>1, <1>4
    <3>2. PICK g \in 1 .. p - 1 : FatherAt(list, father, e + 1, g)
      BY <3>1, <1>1, <1>4
    <3>3. \E k \in i .. e : FatherAt(list, father, e + 1, k)
      <4>1. CASE j = e + 1
        BY <4>1, <1>6
      <4>2. CASE j > e + 1
        <5>1. i < e + 1 /\ e + 1 < j /\ e + 1 - 1 = e
          BY <4>2, <1>1, <1>4
        <5>2. \E k \in i .. e : FatherAt(list, father, e + 1, k)
          <6>1. \A x, y, z \in 1 .. Len(list) :
                  x < y /\ y < z /\ FatherAt(list, father, z, x)
                    => \E k \in x .. y - 1 : FatherAt(list, father, y, k)
            BY <1>1 DEF Nested
          <6>2. PICK y \in 1 .. Len(list) : y = e + 1
            BY <3>1
          <6>3. i < y /\ y < j /\ y - 1 = e
            BY <5>1, <6>2, <1>4
          <6>4. PICK k \in i .. y - 1 : FatherAt(list, father, y, k)
            BY <6>1, <6>3, <2>0, <1>6
          <6>5. k \in i .. e /\ FatherAt(list, father, e + 1, k)
            BY <6>2, <6>3, <6>4
          <6> QED
            BY <6>5
        <5> QED
          BY <5>2
      <4> QED
        BY <4>1, <4>2, <2>4, <1>1, <1>4
    <3>4. PICK k \in i .. e : FatherAt(list, father, e + 1, k)
      BY <3>3
    <3>5. k \in 1 .. Len(list) /\ g \in 1 .. Len(list) /\ list[k] = list[g]
      BY <3>2, <3>4, <1>1, <1>4 DEF FatherAt
    <3>6. k = g
      BY <3>5, <1>1
    <3> QED
      BY <3>2, <3>4, <3>6, <1>1
  <2> QED
    BY <2>3, <2>4, <1>1, <1>4
<1>7. Below(n) = (CHOOSE f : f = DownBody(n, f))[NbNodes]
  BY DEF Below, DownBody
<1>8. PICK f : f = DownBody(n, f) /\ Below(n) = f[NbNodes]
  BY <1>1, <1>7, DownExists
<1> DEFINE Missing(d) == ~(f[d] \subseteq X /\ \A k \in p .. e : k - p =< d => list[k] \in f[d])
           T == {d \in 0 .. NbNodes : Missing(d)}
<1>9. T = {}
  <2> SUFFICES ASSUME T # {} PROVE FALSE
    OBVIOUS
  <2>1. T \subseteq Nat
    OBVIOUS
  <2> HIDE DEF Missing
  <2>2. PICK d \in T : \A i \in T : d =< i
    BY <2>1, LeastNat
  <2>3. d \in 0 .. NbNodes /\ Missing(d)
    OBVIOUS
  <2>4. CASE d = 0
    <3>0. 0 \in 0 .. NbNodes
      BY <2>3, <2>4
    <3>1. f[0] = {n}
      BY <3>0, <1>8, DownAt
    <3>3. p \in p .. e
      BY <1>1, <1>4
    <3>2. \A k \in p .. e : k - p =< 0 => k = p
      OBVIOUS
    <3> QED
      BY <2>3, <2>4, <3>1, <3>2, <3>3 DEF Missing
  <2>5. CASE d # 0
    <3>1. d - 1 \in 0 .. NbNodes /\ d - 1 \notin T
      BY <2>2, <2>3, <2>5, <1>1
    <3>2. f[d - 1] \subseteq X /\ \A k \in p .. e : k - p =< d - 1 => list[k] \in f[d - 1]
      BY <3>1 DEF Missing
    <3>3. f[d] = f[d - 1] \cup {m \in Present : father[m] \in f[d - 1]}
      <4>1. f[d] = IF d = 0 THEN {n} ELSE f[d - 1] \cup {m \in Present : father[m] \in f[d - 1]}
        <5>1. f = DownBody(n, f) /\ d \in 0 .. NbNodes
          BY <1>8, <2>3
        <5> HIDE DEF n
        <5> QED
          BY ONLY <5>1 DEF DownBody
      <4> QED
        BY <4>1, <2>5
    <3>4. ASSUME NEW m \in Present, father[m] \in f[d - 1] PROVE m \in X
      <4>1. PICK j \in 1 .. Len(list) : list[j] = m
        BY <1>1
      <4>2. PICK i \in p .. e : father[m] = list[i]
        BY <3>2, <3>4
      <4> QED
        BY <4>1, <4>2, <1>6 DEF FatherAt
    <3>5. ASSUME NEW k \in p .. e, k - p =< d PROVE list[k] \in f[d]
      <4>1. CASE k = p
        <5>1. k - p =< d - 1
          BY <4>1, <2>3, <2>5, <1>1
        <5> QED
          BY <5>1, <3>2, <3>3
      <4>2. CASE k # p
        <5>1. PICK h \in p .. k - 1 : FatherAt(list, father, k, h)
          BY <4>2, <1>5
        <5>2. h \in p .. e /\ h - p =< d - 1 /\ k \in 1 .. Len(list)
          BY <5>1, <3>5, <2>3, <1>1, <1>4
        <5>3. father[list[k]] \in f[d - 1]
          BY <5>1, <5>2, <3>2 DEF FatherAt
        <5> QED
          BY <5>2, <5>3, <3>3, <1>1
      <4> QED
        BY <4>1, <4>2
    <3> QED
      BY <2>3, <3>2, <3>3, <3>4, <3>5 DEF Missing
  <2> QED
    BY <2>4, <2>5
<1>10. NbNodes \in 0 .. NbNodes /\ ~Missing(NbNodes)
  BY <1>1, <1>9
<1>11. \A k \in p .. e : k - p =< NbNodes
  BY <1>1, <1>4
<1>12. Below(n) = X
  BY <1>8, <1>10, <1>11
<1> QED
  BY <1>4, <1>12

(***************************************************************************)
(* The list is the tree in prefix order: what is below a node stands right *)
(* after it and together, so that cntTree_add_node, which looks at the one *)
(* element after the father, finds the first son there is.                 *)
(***************************************************************************)
THEOREM TreePrefixOrder == TreeSpec => []PrefixOrder
<1>1. TreeInv => PrefixOrder
  <2> SUFFICES ASSUME TreeInv, NEW n \in Present
               PROVE  {Place(m) : m \in Below(n)} = Place(n) .. Place(n) + Cardinality(Below(n)) - 1
    BY DEF PrefixOrder
  <2> DEFINE p == Place(n)
  <2>1. /\ Len(list) \in Nat /\ p \in 1 .. Len(list) /\ list[p] = n
        /\ \A i \in 1 .. Len(list) : Place(list[i]) = i
    BY PlaceExact DEF TreeInv
  <2> HIDE DEF p
  <2>2. PICK e \in p .. Len(list) : Below(n) = {list[k] : k \in p .. e}
    BY <2>1, BelowExact
  <2>3. \A k \in p .. e : Place(list[k]) = k
    BY <2>1
  <2>4. {Place(m) : m \in Below(n)} = p .. e
    BY <2>2, <2>3
  <2>5. Cardinality(Below(n)) = e - p + 1
    <3> DEFINE g == [k \in p .. e |-> list[k]]
    <3>1. g \in Bijection(p .. e, Below(n))
      <4>1. \A j, k \in p .. e : g[j] = g[k] => j = k
        BY <2>3
      <4>2. g \in [p .. e -> Below(n)] /\ \A m \in Below(n) : \E k \in p .. e : g[k] = m
        BY <2>2
      <4> HIDE DEF g
      <4> QED
        BY <4>1, <4>2, Fun_IsBij
    <3>2. p \in Int /\ e \in Int /\ ~(p > e)
      BY <2>1
    <3>3. IsFiniteSet(p .. e) /\ Cardinality(p .. e) = e - p + 1
      BY <3>2, FS_Interval
    <3> QED
      BY <3>1, <3>3, FS_Bijection DEF ExistsBijection
  <2>6. p + Cardinality(Below(n)) - 1 = e
    BY <2>1, <2>5
  <2> QED
    BY <2>4, <2>6 DEF p
<1> QED
  BY <1>1, TreeInvariant, PTL

(***************************************************************************)
(* The sons.  Brothers(ch) says that ch has for each node the sequence of  *)
(* its sons, the first of which is the one after it in the list, and that  *)
(* the links to the right spell it.                                        *)
(***************************************************************************)
Brothers(ch) ==
  /\ ch \in [Node -> Seq(Node)]
  /\ \A f \in Node : f \notin Present => ch[f] = <<>>
  /\ \A f \in Present : FirstSon(f) = EntryOf(NoNode, ch[f], 1)
  /\ \A f \in Node : NoRepeat(ch[f])
  /\ \A f \in Node : \A i \in 1 .. Len(ch[f]) :
       ch[f][i] \in Present /\ brother_r[ch[f][i]] = EntryOf(NoNode, ch[f], i + 1)

BrothersInv == brother_r \in [Node -> Node \cup {NoNode}] /\ \E ch : Brothers(ch)

\* The first son, by places.
LEMMA FirstSonExact ==
  TreeInv => \A g \in Node : \A i \in Nat :
    i \in 1 .. Len(list) /\ list[i] = g =>
      FirstSon(g) = IF i + 1 =< Len(list) /\ father[list[i + 1]] = g
                    THEN list[i + 1] ELSE NoNode
<1> SUFFICES ASSUME TreeInv, NEW g \in Node, NEW i \in 1 .. Len(list), list[i] = g
             PROVE  FirstSon(g) = IF i + 1 =< Len(list) /\ father[list[i + 1]] = g
                                  THEN list[i + 1] ELSE NoNode
  OBVIOUS
<1>1. /\ Len(list) \in Nat /\ Place(g) = i
      /\ \A j \in 1 .. Len(list) : list[j] \in Node
  BY PlaceExact DEF TreeInv
<1>2. After(g) = IF i = Len(list) THEN NoNode ELSE list[i + 1]
  BY <1>1 DEF After, NbNodes
<1>3. i # Len(list) => i + 1 =< Len(list) /\ list[i + 1] \in Node /\ list[i + 1] # NoNode
  BY <1>1, TreeAssumption
<1>4. i = Len(list) => ~ (i + 1 =< Len(list))
  BY <1>1
<1> QED
  BY <1>2, <1>3, <1>4 DEF FirstSon

LEMMA FirstSonExactNext ==
  (TreeInv => \A g \in Node : \A i \in Nat :
    i \in 1 .. Len(list) /\ list[i] = g =>
      FirstSon(g) = IF i + 1 =< Len(list) /\ father[list[i + 1]] = g
                    THEN list[i + 1] ELSE NoNode)'
BY FirstSonExact, PTL

\* cntTree_get_son finds the sons of each node, and cntTree_nb_sons counts them.
SonsOf == [f \in Node |-> IF f \in Present
                          THEN [o \in 1 .. NbSons(f) |-> GetSon(f, o - 1)]
                          ELSE <<>>]

LEMMA SonsExact == TreeInv => \A ch : Brothers(ch) => SonsOf = ch
<1> SUFFICES ASSUME TreeInv, NEW ch, Brothers(ch) PROVE SonsOf = ch
  OBVIOUS
<1>1. ASSUME NEW f \in Present
      PROVE  [o \in 1 .. NbSons(f) |-> GetSon(f, o - 1)] = ch[f]
  <2> DEFINE s == ch[f]
  <2>1. list \in Seq(Node) /\ NoRepeat(list) /\ f \in Node
    BY RangeOf DEF TreeInv, Present
  <2>2. s \in Seq(Node) /\ NoRepeat(s) /\ Len(s) \in Nat
    BY <2>1 DEF Brothers
  <2>3. /\ FirstSon(f) = EntryOf(NoNode, s, 1)
        /\ \A i \in 1 .. Len(s) : s[i] \in Present /\ brother_r[s[i]] = EntryOf(NoNode, s, i + 1)
    BY <2>1 DEF Brothers
  <2> HIDE DEF s
  <2>4. ASSUME NEW o \in Nat PROVE GetSon(f, o) = EntryOf(NoNode, s, o + 1)
    <3>1. GetSon(f, o) = (CHOOSE w : w = LinkWalk(NoNode, brother_r, FirstSon(f), o, w))[o]
      BY DEF GetSon, LinkWalk
    <3>2. PICK t, p, link : t = s /\ p = FirstSon(f) /\ link = brother_r
      OBVIOUS
    <3>3. /\ t \in Seq(Node) /\ p = EntryOf(NoNode, t, 1) /\ NoNode \notin Node
          /\ \A j \in 1 .. Len(t) : link[t[j]] = EntryOf(NoNode, t, j + 1)
      BY <3>2, <2>2, <2>3, TreeAssumption
    <3>4. (CHOOSE w : w = LinkWalk(NoNode, link, p, o, w))[o] = EntryOf(NoNode, t, o + 1)
      BY <3>3, LinkWalkEntry
    <3> QED
      BY <3>1, <3>2, <3>4
  <2>5. \A o \in Nat : GetSon(f, o) # NoNode <=> o + 1 =< Len(s)
    <3> TAKE o \in Nat
    <3>1. EntryOf(NoNode, s, o + 1) # NoNode <=> o + 1 \in 1 .. Len(s)
      BY <2>2, EntryOfExact, TreeAssumption
    <3>2. o + 1 \in 1 .. Len(s) <=> o + 1 =< Len(s)
      BY <2>2
    <3>3. GetSon(f, o) = EntryOf(NoNode, s, o + 1)
      BY <2>4
    <3> QED
      BY <3>1, <3>2, <3>3
  <2>6. Len(s) =< NbNodes /\ NbNodes \in Nat
    <3>1. IsFiniteSet(Range(list)) /\ Cardinality(Range(list)) = Len(list) /\ Len(list) \in Nat
      BY <2>1, NoRepeatCardinality
    <3>2. IsFiniteSet(Range(s)) /\ Cardinality(Range(s)) = Len(s)
      BY <2>2, NoRepeatCardinality
    <3>3. Range(s) \subseteq Range(list)
      BY <2>2, <2>3, RangeOf DEF Present
    <3>4. Cardinality(Range(s)) =< Cardinality(Range(list))
      BY <3>1, <3>3, FS_Subset
    <3> QED
      BY <3>1, <3>2, <3>4 DEF NbNodes
  <2> DEFINE Stops(c) == GetSon(f, c) = NoNode /\ \A i \in 0 .. c - 1 : GetSon(f, i) # NoNode
  <2>7. Len(s) \in 0 .. NbNodes /\ Stops(Len(s))
    BY <2>2, <2>5, <2>6
  <2>8. ASSUME NEW c \in 0 .. NbNodes, Stops(c) PROVE c = Len(s)
    <3>1. c \in Nat /\ ~ (c + 1 =< Len(s))
      BY <2>5, <2>6, <2>8
    <3>2. c > Len(s) => GetSon(f, Len(s)) # NoNode
      BY <3>1, <2>2, <2>8
    <3>3. GetSon(f, Len(s)) = NoNode
      BY <2>7
    <3> QED
      BY <3>1, <3>2, <3>3, <2>2
  <2>9. NbSons(f) = Len(s)
    <3>1. NbSons(f) = CHOOSE c \in 0 .. NbNodes : Stops(c)
      BY DEF NbSons
    <3> HIDE DEF Stops
    <3> QED
      BY <3>1, <2>7, <2>8
  <2>10. \A o \in 1 .. Len(s) : GetSon(f, o - 1) = s[o]
    <3> TAKE o \in 1 .. Len(s)
    <3>1. o - 1 \in Nat /\ (o - 1) + 1 = o
      BY <2>2
    <3>2. GetSon(f, o - 1) = EntryOf(NoNode, s, o)
      BY <3>1, <2>4
    <3> QED
      BY <3>2 DEF EntryOf
  <2>11. s = [o \in 1 .. Len(s) |-> s[o]]
    BY <2>2
  <2>12. [o \in 1 .. NbSons(f) |-> GetSon(f, o - 1)] = s
    BY <2>9, <2>10, <2>11
  <2> QED
    BY <2>12 DEF s
<1>2. ch = [f \in Node |-> ch[f]] /\ \A f \in Node : f \notin Present => ch[f] = <<>>
  BY DEF Brothers
<1> QED
  BY <1>1, <1>2 DEF SonsOf

LEMMA SonsExactNext == (TreeInv => \A ch : Brothers(ch) => SonsOf = ch)'
BY SonsExact, PTL

\* A node that is added is the first son of its father, and has none.
LEMMA BrothersAdd ==
  ASSUME TreeInv, brother_r \in [Node -> Node \cup {NoNode}], NEW ch, Brothers(ch),
         NEW f \in Present, NEW n \in Node, AddNode(f, n)
  PROVE  /\ brother_r' \in [Node -> Node \cup {NoNode}]
         /\ Present' = Present \cup {n} /\ n \notin Present
         /\ Brothers([ch EXCEPT ![f] = <<n>> \o @])'
<1> DEFINE i == Place(f)
           son == FirstSon(f)
           new == [ch EXCEPT ![f] = <<n>> \o @]
<1>1. /\ list \in Seq(Node) /\ NoRepeat(list) /\ Len(list) \in Nat
      /\ i \in 1 .. Len(list) /\ list[i] = f /\ f \in Node /\ Present \subseteq Node
      /\ \A j \in 1 .. Len(list) : list[j] \in Node /\ list[j] \in Present
      /\ \A m \in Present : \E j \in 1 .. Len(list) : list[j] = m
  BY PlaceExact, RangeOf DEF TreeInv, Present
<1>2. /\ n \notin Present /\ list' = InsertAt(list, i + 1, n)
      /\ father' = [father EXCEPT ![n] = f]
      /\ brother_r' = [brother_r EXCEPT ![n] = son]
  BY DEF AddNode, NewPosition, RightBrother
<1>3. TreeInv'
  BY TreeInvAdd
<1> HIDE DEF i, son
<1>4. i + 1 \in 1 .. Len(list) + 1
  BY <1>1
<1>5. /\ list' \in Seq(Node) /\ Len(list') = Len(list) + 1
      /\ InsertedAt(list, Len(list), i + 1, n, list')
      /\ NoRepeat(list') /\ Range(list') = Range(list) \cup {n}
  <2> DEFINE d == InsertAt(list, i + 1, n)
  <2>1. d \in Seq(Node) /\ Len(d) = Len(list) + 1 /\ InsertedAt(list, Len(list), i + 1, n, d)
    <3>1. list \in Seq(Node)
      BY <1>1
    <3> QED
      BY ONLY <3>1, <1>4, n \in Node, InsertAtExact
  <2>2. NoRepeat(d) /\ Range(d) = Range(list) \cup {n}
    <3>1. n \notin Range(list)
      BY <1>2 DEF Present
    <3> QED
      BY ONLY <3>1, <1>1, <1>4, InsertNew
  <2>3. list' = d
    BY <1>2
  <2> HIDE DEF d
  <2> QED
    BY <2>1, <2>2, <2>3
<1>6. Present' = Present \cup {n}
  BY <1>5 DEF Present
<1>7. son = EntryOf(NoNode, ch[f], 1) /\ son \in Node \cup {NoNode}
  <2>1. ch[f] \in Seq(Node)
    BY <1>1 DEF Brothers
  <2> QED
    BY <2>1, EntryOfExact, TreeAssumption DEF Brothers, son
<1>8. /\ brother_r' \in [Node -> Node \cup {NoNode}]
      /\ brother_r'[n] = son /\ \A m \in Present : brother_r'[m] = brother_r[m]
  BY <1>1, <1>2, <1>7
<1>9. father \in [Node -> Node \cup {NoNode}] /\ father'[n] = f
      /\ \A m \in Present : father'[m] = father[m] /\ father[m] # n
  <2>1. father \in [Node -> Node \cup {NoNode}] /\ Nested(list, father)
    BY DEF TreeInv
  <2>2. ASSUME NEW m \in Present PROVE father[m] # n
    <3>1. PICK j \in 1 .. Len(list) : list[j] = m
      BY <1>1
    <3>2. CASE j = 1
      BY <2>1, <3>1, <3>2, TreeAssumption DEF Nested
    <3>3. CASE j # 1
      <4>1. PICK h \in 1 .. j - 1 : father[list[j]] = list[h]
        BY <2>1, <3>1, <3>3, <1>1 DEF Nested, FatherAt
      <4>2. list[h] \in Present
        BY <4>1, <3>1, <1>1
      <4> QED
        BY <4>1, <4>2, <3>1, <1>2
    <3> QED
      BY <3>2, <3>3
  <2> QED
    BY <2>1, <2>2, <1>1, <1>2
<1>10. /\ new \in [Node -> Seq(Node)] /\ new[f] = <<n>> \o ch[f]
       /\ \A g \in Node : g # f => new[g] = ch[g]
       /\ ch \in [Node -> Seq(Node)]
  <2>1. ch \in [Node -> Seq(Node)]
    BY DEF Brothers
  <2>2. <<n>> \o ch[f] \in Seq(Node)
    BY <2>1, <1>1
  <2> QED
    BY <2>1, <2>2, <1>1
<1> HIDE DEF new
<1>11. /\ Len(new[f]) = Len(ch[f]) + 1 /\ Len(ch[f]) \in Nat /\ new[f][1] = n
       /\ \A j \in 1 .. Len(ch[f]) : new[f][j + 1] = ch[f][j]
       /\ \A j \in 1 .. Len(ch[f]) : ch[f][j] # n
  <2>1. ch[f] \in Seq(Node)
    BY <1>1, <1>10
  <2>2. \A j \in 1 .. Len(ch[f]) : ch[f][j] \in Present
    BY <1>1 DEF Brothers
  <2> QED
    BY <2>1, <2>2, <1>2, <1>10
<1>12. \A g \in Node : g \notin Present' => new[g] = <<>>
  <2>1. \A g \in Node : g \notin Present => ch[g] = <<>>
    BY DEF Brothers
  <2> QED
    BY <2>1, <1>6, <1>10
<1>13. \A g \in Node : NoRepeat(new[g])
  <2>0. \A g \in Node : NoRepeat(ch[g])
    BY DEF Brothers
  <2>1. NoRepeat(new[f])
    <3> SUFFICES ASSUME NEW j \in 1 .. Len(new[f]), NEW k \in 1 .. Len(new[f]),
                        new[f][j] = new[f][k]
                 PROVE  j = k
      BY DEF NoRepeat
    <3>1. \A a \in 1 .. Len(new[f]) : a = 1 \/ (a - 1 \in 1 .. Len(ch[f]) /\ new[f][a] = ch[f][a - 1])
      <4> TAKE a \in 1 .. Len(new[f])
      <4>1. a = 1 \/ (a - 1 \in 1 .. Len(ch[f]) /\ (a - 1) + 1 = a)
        BY <1>11
      <4> QED
        BY <4>1, <1>11
    <3>2. CASE j = 1 \/ k = 1
      BY <3>1, <3>2, <1>11
    <3>3. CASE j # 1 /\ k # 1
      <4>1. /\ j - 1 \in 1 .. Len(ch[f]) /\ k - 1 \in 1 .. Len(ch[f])
            /\ ch[f][j - 1] = ch[f][k - 1]
        BY <3>1, <3>3
      <4>2. j - 1 = k - 1
        BY <4>1, <2>0, <1>1 DEF NoRepeat
      <4> QED
        BY <4>2
    <3> QED
      BY <3>2, <3>3
  <2> QED
    BY <2>0, <2>1, <1>10
<1>14. ASSUME NEW g \in Node, NEW j \in 1 .. Len(new[g])
       PROVE  new[g][j] \in Present' /\ brother_r'[new[g][j]] = EntryOf(NoNode, new[g], j + 1)
  <2>0. \A h \in Node : \A k \in 1 .. Len(ch[h]) :
          ch[h][k] \in Present /\ brother_r[ch[h][k]] = EntryOf(NoNode, ch[h], k + 1)
    BY DEF Brothers
  <2>1. CASE g # f
    <3>1. new[g] = ch[g] /\ j \in 1 .. Len(ch[g])
      BY <2>1, <1>10, <1>14
    <3>2. ch[g][j] \in Present /\ brother_r[ch[g][j]] = EntryOf(NoNode, ch[g], j + 1)
      BY <2>0, <3>1
    <3> QED
      BY <3>1, <3>2, <1>6, <1>8
  <2>2. CASE g = f /\ j = 1
    <3>1. EntryOf(NoNode, new[f], 2) = EntryOf(NoNode, ch[f], 1)
      <4>1. CASE Len(ch[f]) = 0
        BY <4>1, <1>11 DEF EntryOf
      <4>2. CASE Len(ch[f]) > 0
        <5>1. 1 \in 1 .. Len(ch[f]) /\ 2 \in 1 .. Len(new[f]) /\ new[f][2] = ch[f][1]
          BY <4>2, <1>11
        <5> QED
          BY <5>1 DEF EntryOf
      <4> QED
        BY <4>1, <4>2, <1>11
    <3> QED
      BY <3>1, <2>2, <1>6, <1>7, <1>8, <1>11
  <2>3. CASE g = f /\ j # 1
    <3>0. j \in 1 .. Len(ch[f]) + 1
      BY <2>3, <1>11, <1>14
    <3>1. j - 1 \in 1 .. Len(ch[f]) /\ (j - 1) + 1 = j /\ new[f][j] = ch[f][j - 1]
      <4>1. j - 1 \in 1 .. Len(ch[f]) /\ (j - 1) + 1 = j
        BY ONLY <3>0, <2>3, <1>11
      <4>2. new[f][(j - 1) + 1] = ch[f][j - 1]
        BY <4>1, <1>11
      <4> QED
        BY <4>1, <4>2
    <3>2. EntryOf(NoNode, new[f], j + 1) = EntryOf(NoNode, ch[f], j)
      <4>1. CASE j \in 1 .. Len(ch[f])
        <5>1. j + 1 \in 1 .. Len(new[f]) /\ new[f][j + 1] = ch[f][j]
          BY ONLY <4>1, <1>11
        <5> QED
          BY <5>1, <4>1 DEF EntryOf
      <4>2. CASE j \notin 1 .. Len(ch[f])
        <5>1. j + 1 \notin 1 .. Len(new[f])
          BY ONLY <4>2, <3>0, <1>11
        <5> QED
          BY <5>1, <4>2 DEF EntryOf
      <4> QED
        BY <4>1, <4>2
    <3>3. ch[f][j - 1] \in Present /\ brother_r[ch[f][j - 1]] = EntryOf(NoNode, ch[f], j)
      BY <2>0, <3>1, <1>1
    <3> QED
      BY <3>1, <3>2, <3>3, <2>3, <1>6, <1>8
  <2> QED
    BY <2>1, <2>2, <2>3
\* The element after a node is the one it was, but after the father and the new one.
<1>15. ASSUME NEW g \in Present' PROVE FirstSon(g)' = EntryOf(NoNode, new[g], 1)
  <2>0. \A h \in Node : \A k \in Nat :
          k \in 1 .. Len(list') /\ list'[k] = h =>
            FirstSon(h)' = IF k + 1 =< Len(list') /\ father'[list'[k + 1]] = h
                           THEN list'[k + 1] ELSE NoNode
    BY <1>3, FirstSonExactNext
  <2>1. \A h \in Node : \A k \in Nat :
          k \in 1 .. Len(list) /\ list[k] = h =>
            FirstSon(h) = IF k + 1 =< Len(list) /\ father[list[k + 1]] = h
                          THEN list[k + 1] ELSE NoNode
    BY FirstSonExact
  <2>2. \A k \in 1 .. Len(list) + 1 :
          list'[k] = IF k < i + 1 THEN list[k] ELSE IF k = i + 1 THEN n ELSE list[k - 1]
    BY <1>5 DEF InsertedAt
  <2>3. CASE g = f
    <3>1. i \in 1 .. Len(list') /\ i \in Nat /\ list'[i] = f /\ i + 1 =< Len(list') /\ list'[i + 1] = n
      BY <2>2, <1>1, <1>5
    <3>2. FirstSon(f)' = n
      BY <2>0, <3>1, <1>1, <1>9
    <3> QED
      BY <3>2, <2>3, <1>11 DEF EntryOf
  <2>4. CASE g = n
    <3>1. i + 1 \in 1 .. Len(list') /\ i + 1 \in Nat /\ list'[i + 1] = n
      BY <2>2, <1>1, <1>5
    <3>2. i + 2 =< Len(list') => list'[i + 2] \in Present
      <4> HAVE i + 2 =< Len(list')
      <4>1. i + 1 \in 1 .. Len(list) /\ list'[i + 2] = list[i + 1]
        BY <2>2, <1>1, <1>5
      <4> QED
        BY <4>1, <1>1
    <3>3. FirstSon(n)' = NoNode
      <4>1. (i + 1) + 1 = i + 2
        BY <1>1
      <4> QED
        BY <2>0, <3>1, <3>2, <4>1, <1>9
    <3>4. new[n] = <<>>
      BY <1>1, <1>2, <1>10 DEF Brothers
    <3> QED
      BY <3>3, <3>4, <2>4 DEF EntryOf
  <2>5. CASE g # f /\ g # n
    <3>1. PICK k \in 1 .. Len(list) : list[k] = g
      BY <2>5, <1>1, <1>6
    <3>2. k # i /\ g \in Node /\ g \in Present
      BY <2>5, <3>1, <1>1
    <3>3. FirstSon(g)' = FirstSon(g)
      <4>1. FirstSon(g) = IF k + 1 =< Len(list) /\ father[list[k + 1]] = g
                          THEN list[k + 1] ELSE NoNode
        BY <2>1, <3>1, <3>2
      <4>2. CASE k < i
        <5>1. /\ k \in 1 .. Len(list') /\ k \in Nat /\ list'[k] = g
              /\ k + 1 =< Len(list) /\ k + 1 =< Len(list') /\ list'[k + 1] = list[k + 1]
              /\ k + 1 \in 1 .. Len(list)
          BY <2>2, <3>1, <4>2, <1>1, <1>5
        <5>2. father'[list[k + 1]] = father[list[k + 1]]
          BY <5>1, <1>1, <1>9
        <5> QED
          BY <2>0, <3>2, <4>1, <5>1, <5>2
      <4>3. CASE k > i
        <5>1. /\ k + 1 \in 1 .. Len(list') /\ k + 1 \in Nat /\ list'[k + 1] = g
              /\ (k + 1) + 1 =< Len(list') <=> k + 1 =< Len(list)
          BY <2>2, <3>1, <4>3, <1>1, <1>5
        <5>2. CASE k + 1 =< Len(list)
          <6>1. list'[(k + 1) + 1] = list[k + 1] /\ k + 1 \in 1 .. Len(list)
            BY <2>2, <3>1, <4>3, <5>2, <1>1, <1>5
          <6>2. father'[list[k + 1]] = father[list[k + 1]]
            BY <6>1, <1>1, <1>9
          <6> QED
            BY <2>0, <3>2, <4>1, <5>1, <5>2, <6>1, <6>2
        <5>3. CASE ~ (k + 1 =< Len(list))
          BY <2>0, <3>2, <4>1, <5>1, <5>3
        <5> QED
          BY <5>2, <5>3
      <4> QED
        BY <3>1, <3>2, <4>2, <4>3, <1>1
    <3>4. FirstSon(g) = EntryOf(NoNode, ch[g], 1)
      BY <3>2 DEF Brothers
    <3> QED
      BY <3>2, <3>3, <3>4, <2>5, <1>10
  <2> QED
    BY <2>3, <2>4, <2>5
<1>16. Brothers(new)'
  BY <1>10, <1>12, <1>13, <1>14, <1>15 DEF Brothers
<1> QED
  BY <1>2, <1>6, <1>8, <1>16 DEF new

LEMMA BrothersStep ==
  ASSUME TreeInv, BrothersInv, [TreeNext]_treeVars
  PROVE  BrothersInv' /\ [Sons!AddSon]_<<Present, SonsOf>>
<1>1. CASE \E f \in Present, n \in Node : AddNode(f, n)
  <2>1. PICK f \in Present, n \in Node : AddNode(f, n)
    BY <1>1
  <2>2. PICK ch : Brothers(ch)
    BY DEF BrothersInv
  <2> DEFINE new == [ch EXCEPT ![f] = <<n>> \o @]
  <2>3. /\ brother_r' \in [Node -> Node \cup {NoNode}]
        /\ Present' = Present \cup {n} /\ n \notin Present /\ Brothers(new)'
    BY <2>1, <2>2, BrothersAdd DEF BrothersInv
  <2> HIDE DEF new
  <2>4. SonsOf = ch
    BY <2>2, SonsExact
  <2>5. TreeInv'
    BY <2>1, TreeInvAdd
  <2>6. SonsOf' = new
    BY <2>3, <2>5, SonsExactNext
  <2>7. BrothersInv'
    BY <2>3 DEF BrothersInv
  <2>8. Sons!AddSon
    <3>1. SonsOf' = [SonsOf EXCEPT ![f] = <<n>> \o @]
      BY <2>4, <2>6 DEF new
    <3> QED
      BY <2>1, <2>3, <3>1 DEF Sons!AddSon, SonsOf
  <2> QED
    BY <2>7, <2>8
<1>2. CASE list' = list /\ father' = father /\ brother_r' = brother_r
  <2>1. Present' = Present /\ SonsOf' = SonsOf
    BY <1>2 DEF SonsOf, Present, NbSons, GetSon, FirstSon, After, Place, NbNodes
  <2>2. BrothersInv'
    <3>1. PICK ch : Brothers(ch)
      BY DEF BrothersInv
    <3>2. \A f \in Present : FirstSon(f)' = FirstSon(f)
      BY <1>2 DEF FirstSon, After, Place, NbNodes
    <3>3. Brothers(ch)'
      BY <1>2, <2>1, <3>1, <3>2 DEF Brothers
    <3> QED
      BY <1>2, <3>3 DEF BrothersInv
  <2> QED
    BY <2>1, <2>2
<1>3. CASE TreeReset
  BY <1>2, <1>3 DEF TreeReset
<1>4. CASE TreeEach
  BY <1>2, <1>4 DEF TreeEach
<1>5. CASE UNCHANGED treeVars
  BY <1>2, <1>5 DEF treeVars
<1> QED
  BY <1>1, <1>3, <1>4, <1>5 DEF TreeNext

LEMMA BrothersInit == TreeInit => BrothersInv /\ Sons!TreeInit
<1> SUFFICES ASSUME TreeInit PROVE BrothersInv /\ Sons!TreeInit
  OBVIOUS
<1>1. PICK root \in Node : /\ list = <<root>> /\ father = [n \in Node |-> NoNode]
                           /\ brother_r = [n \in Node |-> NoNode]
  BY DEF TreeInit
<1>2. TreeInv
  BY TreeInvInit
<1>3. list \in Seq(Node) /\ Len(list) = 1 /\ list[1] = root /\ Present = {root}
  <2>1. list \in Seq(Node) /\ Len(list) = 1 /\ list[1] = root /\ 1 .. Len(list) = {1}
    BY <1>1
  <2> QED
    BY <2>1, RangeOf DEF Present
<1> DEFINE ch == [n \in Node |-> <<>>]
<1>4. ch \in [Node -> Seq(Node)] /\ \A f \in Node : ch[f] = <<>> /\ Len(ch[f]) = 0
  OBVIOUS
<1>5. FirstSon(root) = NoNode
  <2>1. 1 \in Nat /\ 1 \in 1 .. Len(list) /\ ~ (1 + 1 =< Len(list))
    BY <1>3
  <2> QED
    BY <2>1, <1>2, <1>3, FirstSonExact
<1> HIDE DEF ch
<1>6. \A f \in Node : 1 .. Len(ch[f]) = {} /\ 1 \notin 1 .. Len(ch[f])
  BY <1>4
<1>7. Brothers(ch)
  BY <1>3, <1>4, <1>5, <1>6 DEF Brothers, EntryOf, NoRepeat
<1>8. SonsOf = ch
  BY <1>2, <1>7, SonsExact
<1>9. BrothersInv
  BY <1>1, <1>7 DEF BrothersInv
<1>10. Sons!TreeInit
  BY <1>3, <1>8 DEF Sons!TreeInit, SonsOf, ch
<1> QED
  BY <1>9, <1>10

(***************************************************************************)
(* For each node, cntTree_get_son and cntTree_nb_sons give the sons that   *)
(* were added to it and no others, the one added last first.               *)
(***************************************************************************)
THEOREM TreeImplementsSons == TreeSpec => ImplementsTree
<1>1. TreeInit => TreeInv /\ BrothersInv /\ Sons!TreeInit
  BY TreeInvInit, BrothersInit
<1>2. TreeInv /\ BrothersInv /\ [TreeNext]_treeVars => TreeInv' /\ BrothersInv'
  BY TreeInvStep, BrothersStep
<1>3. TreeInv /\ BrothersInv /\ [TreeNext]_treeVars => [Sons!AddSon]_Sons!treeVars
  BY BrothersStep DEF Sons!treeVars, SonsOf
<1> QED
  BY <1>1, <1>2, <1>3, PTL DEF TreeSpec, ImplementsTree, Sons!TreeSpec

-----------------------------------------------------------------------------
(***************************************************************************)
(* Vectors and matrices.  What a call of a function of vec.c or matrix.c   *)
(* writes, for every number of vectors and matrices, whatever is in them   *)
(* and whichever of them the call is given twice.                          *)
(***************************************************************************)

\* The sums over the coordinates of a vector and over the rows of a matrix.
LEMMA SumNext ==
  ASSUME NEW S, IsFiniteSet(S), NEW f, \A x \in S : f[x] \in Int,
         NEW n \in S, NEW R, R = S \ {n}
  PROVE  SumOf(f, S) = SumOf(f, R) + f[n]
<1>1. /\ SumOf(f, S \ {n}) \in Int /\ f[n] \in Int
      /\ SumOf(f, S) = f[n] + SumOf(f, S \ {n})
  BY SumStep
<1> QED
  BY <1>1

LEMMA FiniteThree ==
  IsFiniteSet({0}) /\ IsFiniteSet({0, 1}) /\ IsFiniteSet({0, 1, 2})
<1>1. IsFiniteSet({0})
  BY FS_Singleton
<1>2. IsFiniteSet({0} \cup {1})
  BY ONLY <1>1, FS_AddElement
<1>3. IsFiniteSet(({0} \cup {1}) \cup {2})
  BY ONLY <1>2, FS_AddElement
<1>4. {0} \cup {1} = {0, 1} /\ ({0} \cup {1}) \cup {2} = {0, 1, 2}
  OBVIOUS
<1> QED
  BY <1>1, <1>2, <1>3, <1>4

LEMMA SumToThree ==
  ASSUME NEW f, \A x \in {0, 1, 2} : f[x] \in Int
  PROVE  SumOf(f, {0, 1, 2}) = f[0] + f[1] + f[2]
<1>1. IsFiniteSet({0}) /\ IsFiniteSet({0, 1}) /\ IsFiniteSet({0, 1, 2})
  BY FiniteThree
<1>2. SumOf(f, {0, 1, 2}) = SumOf(f, {0, 1}) + f[2]
  BY <1>1, {0, 1, 2} \ {2} = {0, 1}, SumNext
<1>3. SumOf(f, {0, 1}) = SumOf(f, {0}) + f[1]
  BY <1>1, {0, 1} \ {1} = {0}, SumNext
<1>4. SumOf(f, {0}) = SumOf(f, {}) + f[0]
  BY <1>1, {0} \ {0} = {}, SumNext
<1>5. SumOf(f, {}) = 0
  BY SumEmpty
<1> QED
  BY <1>2, <1>3, <1>4, <1>5

LEMMA SumToFour ==
  ASSUME NEW f, \A x \in {0, 1, 2, 3} : f[x] \in Int
  PROVE  SumOf(f, {0, 1, 2, 3}) = f[0] + f[1] + f[2] + f[3]
<1>1. IsFiniteSet({0, 1, 2, 3})
  <2>1. IsFiniteSet({0, 1, 2} \cup {3})
    BY FiniteThree, FS_AddElement
  <2>2. {0, 1, 2} \cup {3} = {0, 1, 2, 3}
    OBVIOUS
  <2> QED
    BY <2>1, <2>2
<1>2. SumOf(f, {0, 1, 2, 3}) = SumOf(f, {0, 1, 2}) + f[3]
  BY <1>1, {0, 1, 2, 3} \ {3} = {0, 1, 2}, SumNext
<1>3. SumOf(f, {0, 1, 2}) = f[0] + f[1] + f[2]
  BY SumToThree
<1> QED
  BY <1>2, <1>3

LEMMA SumOfCoord ==
  ASSUME NEW f \in [Coord -> Int]
  PROVE  SumFunction(f) = f[0] + f[1] + f[2]
<1>1. Coord = {0, 1, 2}
  BY DEF Coord
<1>2. SumFunction(f) = SumOf(f, Coord)
  BY DEF SumFunction, SumFunctionOnSet, FoldFunctionOnSet, SumOf, MapThenSumSet
<1> QED
  BY <1>1, <1>2, SumToThree

LEMMA SumOfIndex ==
  ASSUME NEW f \in [Index -> Int]
  PROVE  SumFunction(f) = f[0] + f[1] + f[2] + f[3]
<1>1. Index = {0, 1, 2, 3}
  BY DEF Index
<1>2. SumFunction(f) = SumOf(f, Index)
  BY DEF SumFunction, SumFunctionOnSet, FoldFunctionOnSet, SumOf, MapThenSumSet
<1> QED
  BY <1>1, <1>2, SumToFour

Triple == [Coord -> Int]
Square == [Index -> [Index -> Int]]

\* The sums of the operations, written out.
LEMMA ScalarIs ==
  ASSUME NEW v \in Triple, NEW w \in Triple
  PROVE  Scalar(v, w) = v[0] * w[0] + v[1] * w[1] + v[2] * w[2]
<1> DEFINE f == [i \in Coord |-> v[i] * w[i]]
<1>1. f \in [Coord -> Int]
  BY DEF Triple
<1>2. f[0] = v[0] * w[0] /\ f[1] = v[1] * w[1] /\ f[2] = v[2] * w[2]
  BY DEF Coord
<1> HIDE DEF f
<1>3. SumFunction(f) = f[0] + f[1] + f[2]
  BY <1>1, SumOfCoord
<1> QED
  BY <1>2, <1>3 DEF Scalar, f

LEMMA MulVecIs ==
  ASSUME NEW m \in Square, NEW v \in Triple, NEW lin \in Coord
  PROVE  /\ MulVec(m, v, lin) =
              m[3][lin] + (m[0][lin] * v[0] + m[1][lin] * v[1] + m[2][lin] * v[2])
         /\ MulTVec(m, v, lin) =
              m[lin][3] + (m[lin][0] * v[0] + m[lin][1] * v[1] + m[lin][2] * v[2])
<1> DEFINE f == [k \in Coord |-> m[k][lin] * v[k]]
           g == [k \in Coord |-> m[lin][k] * v[k]]
<1>0. lin \in Index /\ Coord \subseteq Index
  BY DEF Coord, Index
<1>1. f \in [Coord -> Int] /\ g \in [Coord -> Int]
  <2>1. \A k \in Coord : v[k] \in Int /\ m[k][lin] \in Int /\ m[lin][k] \in Int
    BY <1>0 DEF Triple, Square
  <2> QED
    BY <2>1
<1>2. /\ f[0] = m[0][lin] * v[0] /\ f[1] = m[1][lin] * v[1] /\ f[2] = m[2][lin] * v[2]
      /\ g[0] = m[lin][0] * v[0] /\ g[1] = m[lin][1] * v[1] /\ g[2] = m[lin][2] * v[2]
  BY DEF Coord
<1> HIDE DEF f, g
<1>3. SumFunction(f) = f[0] + f[1] + f[2] /\ SumFunction(g) = g[0] + g[1] + g[2]
  BY <1>1, SumOfCoord
<1> QED
  BY <1>2, <1>3 DEF MulVec, MulTVec, f, g

LEMMA MulIs ==
  ASSUME NEW m1 \in Square, NEW m2 \in Square, NEW c \in Index, NEW l \in Index
  PROVE  /\ Mul(m1, m2, c, l) = m1[0][l] * m2[c][0] + m1[1][l] * m2[c][1]
                                  + m1[2][l] * m2[c][2] + m1[3][l] * m2[c][3]
         /\ MulT(m1, m2, c, l) = m1[0][l] * m2[0][c] + m1[1][l] * m2[1][c]
                                   + m1[2][l] * m2[2][c] + m1[3][l] * m2[3][c]
         /\ Tmul(m1, m2, c, l) = m1[l][0] * m2[c][0] + m1[l][1] * m2[c][1]
                                   + m1[l][2] * m2[c][2] + m1[l][3] * m2[c][3]
<1> DEFINE f == [k \in Index |-> m1[k][l] * m2[c][k]]
           g == [k \in Index |-> m1[k][l] * m2[k][c]]
           h == [k \in Index |-> m1[l][k] * m2[c][k]]
<1>1. f \in [Index -> Int] /\ g \in [Index -> Int] /\ h \in [Index -> Int]
  <2>1. \A k \in Index : /\ m1[k][l] \in Int /\ m1[l][k] \in Int
                         /\ m2[c][k] \in Int /\ m2[k][c] \in Int
    BY DEF Square
  <2> QED
    BY <2>1
<1>2. /\ \A k \in Index : f[k] = m1[k][l] * m2[c][k]
      /\ \A k \in Index : g[k] = m1[k][l] * m2[k][c]
      /\ \A k \in Index : h[k] = m1[l][k] * m2[c][k]
  OBVIOUS
<1>3. /\ Mul(m1, m2, c, l) = SumFunction(f) /\ MulT(m1, m2, c, l) = SumFunction(g)
      /\ Tmul(m1, m2, c, l) = SumFunction(h)
  BY DEF Mul, MulT, Tmul
<1> HIDE DEF f, g, h
<1>4. /\ SumFunction(f) = f[0] + f[1] + f[2] + f[3]
      /\ SumFunction(g) = g[0] + g[1] + g[2] + g[3]
      /\ SumFunction(h) = h[0] + h[1] + h[2] + h[3]
  BY <1>1, SumOfIndex
<1>5. 0 \in Index /\ 1 \in Index /\ 2 \in Index /\ 3 \in Index
  BY DEF Index
<1> QED
  BY <1>2, <1>3, <1>4, <1>5

\* The vectors, the matrices and the call have their types, and the client
\* keeps to what the code asks of it.
AlgebraTyped ==
  /\ vec \in [Vector -> Triple] /\ given \in [Vector -> Triple] /\ mat \in [Matrix -> Square]
  /\ call \in Calls /\ Careful(call)

\* The coordinates written are what the given vectors give, and all the others
\* are as given.
VecWritten ==
  call.f \notin MatByMat =>
    /\ done \in 0 .. 3
    /\ \A n \in Vector : n # call.dest => vec[n] = given[n]
    /\ \A i \in Coord :
         vec[call.dest][i] = IF i < done THEN VecResult(given, i) ELSE given[call.dest][i]

\* The entries written are what the operands give.
MatWritten ==
  call.f \in MatByMat =>
    /\ done \in 0 .. 16
    /\ \A c \in Index : \A l \in Index :
         4 * c + l < done => mat[call.dest][c][l] = MatResult(c, l)

AlgebraInv == AlgebraTyped /\ VecWritten /\ MatWritten

OnVectors(c) == c.f \in VecByVec /\ c.dest \in Vector /\ c.a \in Vector /\ c.b \in Vector
OnVector(c) == c.f \in VecByMat /\ c.dest \in Vector /\ c.a \in Matrix /\ c.b \in Vector
OnMatrices(c) == c.f \in MatByMat /\ c.dest \in Matrix /\ c.a \in Matrix /\ c.b \in Matrix

\* What the operands of a call are.
LEMMA CallKinds ==
  ASSUME NEW c \in Calls
  PROVE  /\ c.ratio \in Int
         /\ c.f \in MatByMat => OnMatrices(c)
         /\ c.f \notin MatByMat => OnVectors(c) \/ OnVector(c)
<1>1. \/ c \in [f : VecByVec, dest : Vector, a : Vector, b : Vector, ratio : Ratio]
      \/ c \in [f : VecByMat, dest : Vector, a : Matrix, b : Vector, ratio : Ratio]
      \/ c \in [f : MatByMat, dest : Matrix, a : Matrix, b : Matrix, ratio : Ratio]
  BY DEF Calls
<1>2. Ratio \subseteq Int
  BY AlgebraAssumption
<1>3. CASE c \in [f : VecByVec, dest : Vector, a : Vector, b : Vector, ratio : Ratio]
  BY <1>2, <1>3 DEF VecByVec, MatByMat, OnVectors
<1>4. CASE c \in [f : VecByMat, dest : Vector, a : Matrix, b : Vector, ratio : Ratio]
  BY <1>2, <1>4 DEF VecByMat, MatByMat, OnVector
<1>5. CASE c \in [f : MatByMat, dest : Matrix, a : Matrix, b : Matrix, ratio : Ratio]
  BY <1>2, <1>5 DEF OnMatrices
<1> QED
  BY <1>1, <1>3, <1>4, <1>5

\* A step reads no coordinate that an earlier one wrote, or multiplies it by 0.
LEMMA ReadsGiven ==
  ASSUME AlgebraTyped, VecWritten, call.f \notin MatByMat, done \in Coord
  PROVE  VecResult(vec, done) = VecResult(given, done) /\ VecResult(given, done) \in Int
<1>1. /\ \A n \in Vector : vec[n] \in Triple /\ given[n] \in Triple
      /\ \A m \in Matrix : mat[m] \in Square
      /\ call.ratio \in Int
      /\ OnVectors(call) \/ OnVector(call)
  BY CallKinds DEF AlgebraTyped
<1>2. \A n \in Vector : \A i \in Coord : i >= done => vec[n][i] = given[n][i]
  <2> TAKE n \in Vector
  <2> TAKE i \in Coord
  <2>1. i >= done => ~ (i < done)
    BY DEF Coord
  <2> QED
    BY <2>1 DEF VecWritten
<1>3. \A n \in Vector : n # call.dest => vec[n] = given[n]
  BY DEF VecWritten
<1>4. \A v \in Triple : \A i \in Coord : v[i] \in Int
  BY DEF Triple
<1>5. CASE OnVectors(call)
  <2> DEFINE x == vec[call.a]
             y == vec[call.b]
             u == given[call.a]
             w == given[call.b]
             r == call.ratio
  <2>1. call.f \in VecByVec /\ call.a \in Vector /\ call.b \in Vector
    BY <1>5 DEF OnVectors
  <2>2. x \in Triple /\ y \in Triple /\ u \in Triple /\ w \in Triple /\ r \in Int
    BY <1>1, <2>1
  <2>3. /\ x[done] = u[done] /\ y[done] = w[done]
        /\ u[done] \in Int /\ w[done] \in Int
    <3>1. done >= done
      BY DEF Coord
    <3> QED
      BY <1>2, <1>4, <2>1, <2>2, <3>1
  <2>4. CASE call.f = "product"
    <3>1. x = u /\ y = w
      <4>1. call.dest \notin {call.a, call.b}
        BY <2>4 DEF AlgebraTyped, Careful, Apart
      <4> QED
        BY <1>3, <2>1, <4>1
    <3>2. VecResult(vec, done) = Product(x, y, done) /\ VecResult(given, done) = Product(u, w, done)
      BY <2>4 DEF VecResult
    <3>3. (done + 1) % 3 \in Coord /\ (done + 2) % 3 \in Coord
      BY DEF Coord
    <3> HIDE DEF x, y, u, w
    <3>4. Product(u, w, done) \in Int
      <4> DEFINE j == (done + 1) % 3
                 k == (done + 2) % 3
      <4>1. u[j] \in Int /\ u[k] \in Int /\ w[j] \in Int /\ w[k] \in Int
        BY <1>4, <2>2, <3>3
      <4>2. Product(u, w, done) = u[j] * w[k] - u[k] * w[j]
        BY DEF Product
      <4> HIDE DEF j, k
      <4> QED
        BY <4>1, <4>2
    <3> QED
      BY <3>1, <3>2, <3>4
  <2>5. CASE call.f # "product"
    <3>1. call.f \in {"scale3", "add", "sub", "add3", "sub3", "add_scale", "add_scale3"}
      BY <2>1, <2>5 DEF VecByVec
    <3>2. \/ /\ call.f = "scale3" /\ VecResult(vec, done) = Scale3(x, r, done)
             /\ VecResult(given, done) = Scale3(u, r, done)
          \/ /\ call.f = "add" /\ VecResult(vec, done) = Add(x, y, done)
             /\ VecResult(given, done) = Add(u, w, done)
          \/ /\ call.f = "sub" /\ VecResult(vec, done) = Sub(x, y, done)
             /\ VecResult(given, done) = Sub(u, w, done)
          \/ /\ call.f = "add3" /\ VecResult(vec, done) = Add3(x, y, done)
             /\ VecResult(given, done) = Add3(u, w, done)
          \/ /\ call.f = "sub3" /\ VecResult(vec, done) = Sub3(x, y, done)
             /\ VecResult(given, done) = Sub3(u, w, done)
          \/ /\ call.f = "add_scale" /\ VecResult(vec, done) = AddScale(x, r, y, done)
             /\ VecResult(given, done) = AddScale(u, r, w, done)
          \/ /\ call.f = "add_scale3" /\ VecResult(vec, done) = AddScale3(x, r, y, done)
             /\ VecResult(given, done) = AddScale3(u, r, w, done)
      BY <3>1 DEF VecResult
    <3> HIDE DEF x, y, u, w, r
    <3> QED
      BY <2>2, <2>3, <3>2 DEF Scale3, Add, Sub, Add3, Sub3, AddScale, AddScale3
  <2> QED
    BY <2>4, <2>5
<1>6. CASE OnVector(call)
  <2> DEFINE m == mat[call.a]
             y == vec[call.b]
             w == given[call.b]
  <2>1. call.f \in VecByMat /\ call.a \in Matrix /\ call.b \in Vector
    BY <1>6 DEF OnVector
  <2>2. m \in Square /\ y \in Triple /\ w \in Triple
    BY <1>1, <2>1
  <2>3. \/ /\ call.f = "mul_vec" /\ VecResult(vec, done) = MulVec(m, y, done)
           /\ VecResult(given, done) = MulVec(m, w, done)
        \/ /\ call.f = "mulT_vec" /\ VecResult(vec, done) = MulTVec(m, y, done)
           /\ VecResult(given, done) = MulTVec(m, w, done)
    BY <2>1 DEF VecByMat, VecResult
  <2>4. \A k \in Coord :
          \/ y[k] = w[k]
          \/ call.f = "mul_vec" /\ m[k][done] = 0
          \/ call.f = "mulT_vec" /\ m[done][k] = 0
    <3> SUFFICES ASSUME NEW k \in Coord, y[k] # w[k]
                 PROVE  \/ call.f = "mul_vec" /\ m[k][done] = 0
                        \/ call.f = "mulT_vec" /\ m[done][k] = 0
      OBVIOUS
    <3>1. call.dest = call.b
      BY <1>3, <2>1
    <3>2. ~ (k >= done)
      BY <1>2, <2>1
    <3>3. k \in 0 .. done - 1
      BY <3>2 DEF Coord
    <3>4. InPlace(call)
      BY <2>1, <3>1 DEF AlgebraTyped, Careful
    <3>5. (IF call.f = "mul_vec" THEN m[k][done] ELSE m[done][k]) = 0
      BY <3>3, <3>4 DEF InPlace
    <3> QED
      BY <2>1, <3>5 DEF VecByMat
  <2>5. /\ 0 \in Coord /\ 1 \in Coord /\ 2 \in Coord
        /\ done \in Index /\ 0 \in Index /\ 1 \in Index /\ 2 \in Index /\ 3 \in Index
    BY DEF Coord, Index
  <2> HIDE DEF m, y, w
  <2>6. /\ y[0] \in Int /\ y[1] \in Int /\ y[2] \in Int
        /\ w[0] \in Int /\ w[1] \in Int /\ w[2] \in Int
        /\ \A k \in Index : m[k][done] \in Int /\ m[done][k] \in Int
    BY <1>4, <2>2, <2>5 DEF Square
  <2>7. CASE call.f = "mul_vec"
    <3>1. \A k \in Coord : m[k][done] * y[k] = m[k][done] * w[k]
      <4> TAKE k \in Coord
      <4>1. y[k] = w[k] \/ m[k][done] = 0
        BY <2>4, <2>7
      <4>2. y[k] \in Int /\ w[k] \in Int
        BY <1>4, <2>2
      <4> QED
        BY <4>1, <4>2
    <3>2. MulVec(m, y, done) = MulVec(m, w, done)
      BY <2>2, <2>5, <3>1, MulVecIs
    <3>3. MulVec(m, w, done) \in Int
      <4>1. /\ m[0][done] * w[0] \in Int /\ m[1][done] * w[1] \in Int
            /\ m[2][done] * w[2] \in Int /\ m[3][done] \in Int
        BY <2>5, <2>6
      <4> QED
        BY <2>2, <4>1, MulVecIs
    <3> QED
      BY <2>3, <2>7, <3>2, <3>3
  <2>8. CASE call.f = "mulT_vec"
    <3>1. \A k \in Coord : m[done][k] * y[k] = m[done][k] * w[k]
      <4> TAKE k \in Coord
      <4>1. y[k] = w[k] \/ m[done][k] = 0
        BY <2>4, <2>8
      <4>2. y[k] \in Int /\ w[k] \in Int
        BY <1>4, <2>2
      <4> QED
        BY <4>1, <4>2
    <3>2. MulTVec(m, y, done) = MulTVec(m, w, done)
      BY <2>2, <2>5, <3>1, MulVecIs
    <3>3. MulTVec(m, w, done) \in Int
      <4>1. /\ m[done][0] * w[0] \in Int /\ m[done][1] * w[1] \in Int
            /\ m[done][2] * w[2] \in Int /\ m[done][3] \in Int
        BY <2>5, <2>6
      <4> QED
        BY <2>2, <4>1, MulVecIs
    <3> QED
      BY <2>3, <2>8, <3>2, <3>3
  <2> QED
    BY <2>1, <2>7, <2>8 DEF VecByMat
<1> QED
  BY <1>1, <1>5, <1>6

\* What no step changes keeps the results and the client's care.
LEMMA SameCall ==
  ASSUME AlgebraTyped, UNCHANGED <<given, call>>,
         call.f \notin MatByMat => UNCHANGED mat
  PROVE  /\ Careful(call)'
         /\ call.f \notin MatByMat =>
              \A i \in Coord : VecResult(given, i)' = VecResult(given, i)
<1>1. CASE call.f \in MatByMat
  <2>1. call.f \notin VecByMat
    BY <1>1 DEF MatByMat, VecByMat
  <2> QED
    BY <1>1, <2>1 DEF AlgebraTyped, Careful, Apart
<1>2. CASE call.f \notin MatByMat
  <2>1. mat' = mat
    BY <1>2
  <2> QED
    BY <2>1 DEF AlgebraTyped, Careful, Apart, InPlace, VecResult
<1> QED
  BY <1>1, <1>2

LEMMA VecStepInv ==
  ASSUME AlgebraInv, VecStep
  PROVE  AlgebraInv'
<1>1. AlgebraTyped /\ VecWritten /\ call.f \notin MatByMat /\ done < 3 /\ done \in 0 .. 3
  BY DEF AlgebraInv, VecStep, VecWritten
<1>2. done' = done + 1 /\ UNCHANGED <<given, mat, call>>
  BY DEF VecStep
<1> DEFINE r == VecResult(given, done)
<1>3. r \in Int /\ vec' = [vec EXCEPT ![call.dest][done] = r]
  <2>1. done \in Coord
    BY <1>1 DEF Coord
  <2>2. VecResult(vec, done) = r /\ r \in Int
    BY <1>1, <2>1, ReadsGiven
  <2>3. vec' = [vec EXCEPT ![call.dest][done] = VecResult(vec, done)]
    BY DEF VecStep
  <2> QED
    BY <2>2, <2>3
<1>4. call.dest \in Vector /\ vec \in [Vector -> Triple] /\ done \in Coord
  <2>1. OnVectors(call) \/ OnVector(call)
    BY <1>1, CallKinds DEF AlgebraTyped
  <2> QED
    BY <1>1, <2>1 DEF OnVectors, OnVector, AlgebraTyped, Coord
<1> HIDE DEF r
<1>5. /\ vec' \in [Vector -> Triple]
      /\ \A n \in Vector : n # call.dest => vec'[n] = vec[n]
      /\ \A i \in Coord : vec'[call.dest][i] = IF i = done THEN r ELSE vec[call.dest][i]
  BY <1>3, <1>4 DEF Triple
<1>6. /\ Careful(call)'
      /\ \A i \in Coord : VecResult(given, i)' = VecResult(given, i)
  BY <1>1, <1>2, SameCall
<1>7. AlgebraTyped'
  <2>1. given' = given /\ mat' = mat /\ call' = call
    BY <1>2
  <2> QED
    BY <1>1, <1>5, <1>6, <2>1 DEF AlgebraTyped
<1>8. VecWritten'
  <2>1. call' = call /\ given' = given /\ done' = done + 1 /\ done' \in 0 .. 3
    BY <1>1, <1>2
  <2>2. \A n \in Vector : n # call.dest => vec'[n] = given[n]
    BY <1>1, <1>5 DEF VecWritten
  <2>3. \A i \in Coord :
          vec'[call.dest][i] = IF i < done + 1 THEN VecResult(given, i) ELSE given[call.dest][i]
    <3> TAKE i \in Coord
    <3>1. vec[call.dest][i] = IF i < done THEN VecResult(given, i) ELSE given[call.dest][i]
      BY <1>1 DEF VecWritten
    <3>2. vec'[call.dest][i] = IF i = done THEN r ELSE vec[call.dest][i]
      BY <1>5
    <3>3. i < done + 1 <=> i < done \/ i = done
      BY <1>1 DEF Coord
    <3>4. ~ (done < done)
      BY <1>1
    <3>5. CASE i = done
      BY <3>2, <3>3, <3>5 DEF r
    <3>6. CASE i # done
      BY <3>1, <3>2, <3>3, <3>6
    <3> QED
      BY <3>5, <3>6
  <2> QED
    BY <1>6, <2>1, <2>2, <2>3 DEF VecWritten
<1>9. MatWritten'
  <2>1. call' = call
    BY <1>2
  <2> QED
    BY <1>1, <2>1 DEF MatWritten
<1> QED
  BY <1>7, <1>8, <1>9 DEF AlgebraInv

\* The place of an entry in the order in which the loops write them.
LEMMA EntryPlace ==
  ASSUME NEW k \in 0 .. 15
  PROVE  /\ k \div 4 \in Index /\ k % 4 \in Index
         /\ \A c \in Index : \A l \in Index :
              /\ 4 * c + l < k + 1 <=> 4 * c + l < k \/ (c = k \div 4 /\ l = k % 4)
              /\ c = k \div 4 /\ l = k % 4 => ~ (4 * c + l < k)
<1>1. k \div 4 \in 0 .. 3 /\ k % 4 \in 0 .. 3 /\ k = 4 * (k \div 4) + (k % 4)
  OBVIOUS
<1>2. PICK q \in 0 .. 3 : q = k \div 4
  BY <1>1
<1>3. PICK m \in 0 .. 3 : m = k % 4
  BY <1>1
<1>4. k = 4 * q + m
  BY <1>1, <1>2, <1>3
<1>5. \A c \in 0 .. 3 : \A l \in 0 .. 3 :
        /\ 4 * c + l < k + 1 <=> 4 * c + l < k \/ (c = q /\ l = m)
        /\ c = q /\ l = m => ~ (4 * c + l < k)
  BY ONLY <1>4, k \in 0 .. 15
<1> QED
  BY <1>1, <1>2, <1>3, <1>5 DEF Index

LEMMA MatResultInt ==
  ASSUME AlgebraTyped, call.f \in MatByMat, NEW c \in Index, NEW l \in Index
  PROVE  MatResult(c, l) \in Int
<1> DEFINE m1 == mat[call.a]
           m2 == mat[call.b]
<1>1. OnMatrices(call)
  BY CallKinds DEF AlgebraTyped
<1>2. m1 \in Square /\ m2 \in Square
  BY <1>1 DEF OnMatrices, AlgebraTyped
<1>3. \/ MatResult(c, l) = Mul(m1, m2, c, l)
      \/ MatResult(c, l) = MulT(m1, m2, c, l)
      \/ MatResult(c, l) = Tmul(m1, m2, c, l)
  BY DEF MatByMat, MatResult
<1> HIDE DEF m1, m2
<1>4. /\ \A i \in Index : \A j \in Index : m1[i][j] \in Int /\ m2[i][j] \in Int
      /\ 0 \in Index /\ 1 \in Index /\ 2 \in Index /\ 3 \in Index
  BY <1>2 DEF Square, Index
<1>5. \A i \in Index : \A j \in Index : \A p \in Index : \A q \in Index : m1[i][j] * m2[p][q] \in Int
  BY <1>4
<1>6. Mul(m1, m2, c, l) \in Int
  BY <1>2, <1>4, <1>5, MulIs
<1>7. MulT(m1, m2, c, l) \in Int
  BY <1>2, <1>4, <1>5, MulIs
<1>8. Tmul(m1, m2, c, l) \in Int
  BY <1>2, <1>4, <1>5, MulIs
<1> QED
  BY <1>3, <1>6, <1>7, <1>8

LEMMA MatStepInv ==
  ASSUME AlgebraInv, MatStep
  PROVE  AlgebraInv'
<1>1. AlgebraTyped /\ MatWritten /\ call.f \in MatByMat /\ done < 16 /\ done \in 0 .. 16
  BY DEF AlgebraInv, MatStep, MatWritten
<1>2. done' = done + 1 /\ UNCHANGED <<vec, given, call>>
  BY DEF MatStep
<1>3. PICK col : col = done \div 4
  OBVIOUS
<1>4. PICK lin : lin = done % 4
  OBVIOUS
<1>5. done \in 0 .. 15
  BY <1>1
<1>6. /\ col \in Index /\ lin \in Index
      /\ \A c \in Index : \A l \in Index :
           /\ 4 * c + l < done + 1 <=> 4 * c + l < done \/ (c = col /\ l = lin)
           /\ c = col /\ l = lin => ~ (4 * c + l < done)
  BY <1>3, <1>4, <1>5, EntryPlace
<1>7. PICK r : r = MatResult(col, lin)
  OBVIOUS
<1>8. r \in Int /\ mat' = [mat EXCEPT ![call.dest][col][lin] = r]
  BY <1>1, <1>3, <1>4, <1>6, <1>7, MatResultInt DEF MatStep
<1>9. /\ call.dest \in Matrix /\ call.a \in Matrix /\ call.b \in Matrix
      /\ call.dest # call.a /\ call.dest # call.b
      /\ mat \in [Matrix -> Square]
  <2>1. OnMatrices(call)
    BY <1>1, CallKinds DEF AlgebraTyped
  <2> QED
    BY <1>1, <2>1 DEF OnMatrices, AlgebraTyped, Careful, Apart
<1>10. /\ mat' \in [Matrix -> Square]
       /\ mat'[call.a] = mat[call.a] /\ mat'[call.b] = mat[call.b]
       /\ \A c \in Index : \A l \in Index :
            mat'[call.dest][c][l] = IF c = col /\ l = lin THEN r ELSE mat[call.dest][c][l]
  BY <1>6, <1>8, <1>9 DEF Square
<1>11. \A c \in Index : \A l \in Index : MatResult(c, l)' = MatResult(c, l)
  <2>1. call' = call /\ mat'[call.a] = mat[call.a] /\ mat'[call.b] = mat[call.b]
    BY <1>2, <1>10
  <2> QED
    BY <2>1 DEF MatResult
<1>12. AlgebraTyped'
  <2>1. vec' = vec /\ given' = given /\ call' = call
    BY <1>2
  <2>2. Careful(call)'
    BY <1>1, <1>2, SameCall
  <2> QED
    BY <1>1, <1>10, <2>1, <2>2 DEF AlgebraTyped
<1>13. VecWritten'
  <2>1. call' = call
    BY <1>2
  <2> QED
    BY <1>1, <2>1 DEF VecWritten
<1>14. MatWritten'
  <2>1. call' = call /\ done' = done + 1 /\ done' \in 0 .. 16
    BY <1>2, <1>5
  <2>2. \A c \in Index : \A l \in Index :
          4 * c + l < done + 1 => mat'[call.dest][c][l] = MatResult(c, l)
    <3> TAKE c \in Index
    <3> TAKE l \in Index
    <3>1. 4 * c + l < done => mat[call.dest][c][l] = MatResult(c, l)
      BY <1>1 DEF MatWritten
    <3>2. CASE c = col /\ l = lin
      BY <1>7, <1>10, <3>2
    <3>3. CASE ~ (c = col /\ l = lin)
      BY <1>6, <1>10, <3>1, <3>3
    <3> QED
      BY <3>2, <3>3
  <2> QED
    BY <1>11, <2>1, <2>2 DEF MatWritten
<1> QED
  BY <1>12, <1>13, <1>14 DEF AlgebraInv

\* The inductive invariant: what is written so far is the result, what is not
\* written yet is as given.
LEMMA AlgebraInvariant == AlgebraSpec => []AlgebraInv
<1>1. AlgebraInit => AlgebraInv
  <2> SUFFICES ASSUME AlgebraInit
               PROVE  AlgebraInv
    OBVIOUS
  <2>1. vec \in VecStarts /\ mat \in MatStarts /\ given = vec /\ done = 0
    BY DEF AlgebraInit
  <2>2. AlgebraTyped
    BY <2>1, AlgebraAssumption DEF AlgebraInit, AlgebraTyped, Triple, Square
  <2>3. VecWritten
    BY <2>1 DEF VecWritten, Coord
  <2>4. MatWritten
    <3>1. \A c \in Index : \A l \in Index : ~ (4 * c + l < 0)
      BY DEF Index
    <3> QED
      BY <2>1, <3>1 DEF MatWritten
  <2> QED
    BY <2>2, <2>3, <2>4 DEF AlgebraInv
<1>2. AlgebraInv /\ [AlgebraNext]_algebraVars => AlgebraInv'
  <2> SUFFICES ASSUME AlgebraInv, [AlgebraNext]_algebraVars
               PROVE  AlgebraInv'
    OBVIOUS
  <2>1. CASE VecStep
    BY <2>1, VecStepInv
  <2>2. CASE MatStep
    BY <2>2, MatStepInv
  <2>3. CASE UNCHANGED algebraVars
    BY <2>3 DEF algebraVars, AlgebraInv, AlgebraTyped, VecWritten, MatWritten, Careful,
                Apart, InPlace, VecResult, MatResult
  <2> QED
    BY <2>1, <2>2, <2>3 DEF AlgebraNext
<1> QED
  BY <1>1, <1>2, PTL DEF AlgebraSpec

\* A function on vectors writes what it would write if its operands were
\* copies, also when the destination is one operand, or both.
THEOREM WritesAliasFree == AlgebraSpec => []AliasFree
<1>1. AlgebraInv => AliasFree
  <2> SUFFICES ASSUME AlgebraInv, Returns(VecByVec \cup VecByMat), NEW i \in Coord
               PROVE  vec[call.dest][i] = VecResult(given, i)
    BY DEF AliasFree
  <2>1. call.f \notin MatByMat
    BY DEF Returns, VecByVec, VecByMat, MatByMat
  <2>2. done = 3
    BY <2>1 DEF Returns
  <2>3. i < done
    BY <2>2 DEF Coord
  <2>4. VecWritten
    BY DEF AlgebraInv
  <2> QED
    BY <2>1, <2>3, <2>4 DEF VecWritten
<1> QED
  BY <1>1, AlgebraInvariant, PTL

\* The polynomial identities of the vector product.
LEMMA ProductIdentities ==
  ASSUME NEW v \in Triple, NEW w \in Triple, NEW p \in Triple,
         \A i \in Coord : p[i] = Product(v, w, i)
  PROVE  /\ Scalar(p, v) = 0 /\ Scalar(p, w) = 0
         /\ Norm2(p) = Norm2(v) * Norm2(w) - Scalar(v, w) * Scalar(v, w)
<1>1. /\ v[0] \in Int /\ v[1] \in Int /\ v[2] \in Int
      /\ w[0] \in Int /\ w[1] \in Int /\ w[2] \in Int
  BY DEF Triple, Coord
<1>2. /\ p[0] = v[1] * w[2] - v[2] * w[1]
      /\ p[1] = v[2] * w[0] - v[0] * w[2]
      /\ p[2] = v[0] * w[1] - v[1] * w[0]
  BY DEF Product, Coord
<1>3. /\ Scalar(p, v) = p[0] * v[0] + p[1] * v[1] + p[2] * v[2]
      /\ Scalar(p, w) = p[0] * w[0] + p[1] * w[1] + p[2] * w[2]
      /\ Norm2(p) = p[0] * p[0] + p[1] * p[1] + p[2] * p[2]
      /\ Norm2(v) = v[0] * v[0] + v[1] * v[1] + v[2] * v[2]
      /\ Norm2(w) = w[0] * w[0] + w[1] * w[1] + w[2] * w[2]
      /\ Scalar(v, w) = v[0] * w[0] + v[1] * w[1] + v[2] * w[2]
  BY ScalarIs DEF Norm2
<1> QED
  BY ONLY <1>1, <1>2, <1>3

\* Vec_product gives a vector orthogonal to its operands, as long as it should
\* be, and z for x and y.
THEOREM ProductIsNormal == AlgebraSpec => []ProductNormal
<1>1. AlgebraInv => ProductNormal
  <2> SUFFICES ASSUME AlgebraInv, Returns({"product"})
               PROVE  LET v1 == vec[call.a]
                          v2 == vec[call.b]
                          p == vec[call.dest]
                      IN  /\ Scalar(p, v1) = 0 /\ Scalar(p, v2) = 0
                          /\ Norm2(p) = Norm2(v1) * Norm2(v2) - Scalar(v1, v2) * Scalar(v1, v2)
                          /\ v1 = vec_x /\ v2 = vec_y => p = vec_z
    BY DEF ProductNormal
  <2> DEFINE v1 == vec[call.a]
             v2 == vec[call.b]
             p == vec[call.dest]
  <2>1. call.f = "product" /\ call.f \notin MatByMat /\ done = 3
    BY DEF Returns, MatByMat
  <2>2. AlgebraTyped /\ VecWritten
    BY DEF AlgebraInv
  <2>3. /\ call.dest \in Vector /\ call.a \in Vector /\ call.b \in Vector
        /\ call.dest # call.a /\ call.dest # call.b
    <3>1. call.f \notin VecByMat
      BY <2>1 DEF VecByMat
    <3>2. OnVectors(call) \/ OnVector(call)
      BY <2>1, <2>2, CallKinds DEF AlgebraTyped
    <3> QED
      BY <2>1, <2>2, <3>1, <3>2 DEF OnVectors, OnVector, AlgebraTyped, Careful, Apart
  <2>4. v1 = given[call.a] /\ v2 = given[call.b]
    BY <2>1, <2>2, <2>3 DEF VecWritten
  <2>5. v1 \in Triple /\ v2 \in Triple /\ p \in Triple
    BY <2>2, <2>3 DEF AlgebraTyped
  <2>6. \A i \in Coord : p[i] = Product(v1, v2, i)
    <3> TAKE i \in Coord
    <3>1. i < done
      BY <2>1 DEF Coord
    <3>2. p[i] = VecResult(given, i)
      BY <2>1, <2>2, <3>1 DEF VecWritten
    <3>3. VecResult(given, i) = Product(given[call.a], given[call.b], i)
      BY <2>1 DEF VecResult
    <3> QED
      BY <2>4, <3>2, <3>3
  <2> HIDE DEF v1, v2, p
  <2>7. ASSUME v1 = vec_x, v2 = vec_y
        PROVE  p = vec_z
    <3>1. p[0] = 0 /\ p[1] = 0 /\ p[2] = 1
      BY <2>6, <2>7 DEF Product, Coord, vec_x, vec_y
    <3>2. \A i \in Coord : p[i] = vec_z[i]
      BY <3>1 DEF Coord, vec_z
    <3>3. vec_z = [i \in Coord |-> vec_z[i]] /\ p = [i \in Coord |-> p[i]]
      BY <2>5 DEF Triple, vec_z
    <3> QED
      BY <3>2, <3>3
  <2> QED
    BY <2>5, <2>6, <2>7, ProductIdentities DEF v1, v2, p
<1> QED
  BY <1>1, AlgebraInvariant, PTL

\* A line of a product of matrices, applied to a vector, is that line of the
\* first applied to what the second, an affine one, gives.
LEMMA LineInTurn ==
  ASSUME NEW c \in [Index -> Int], NEW a \in Square, NEW v \in Triple, NEW q, NEW w,
         \A k \in Index : a[k][3] = IF k = 3 THEN 1 ELSE 0,
         \A k \in Index : q[k] = c[0] * a[k][0] + c[1] * a[k][1] + c[2] * a[k][2] + c[3] * a[k][3],
         \A l \in Coord : w[l] = a[3][l] + (a[0][l] * v[0] + a[1][l] * v[1] + a[2][l] * v[2])
  PROVE  q[3] + (q[0] * v[0] + q[1] * v[1] + q[2] * v[2])
           = c[3] + (c[0] * w[0] + c[1] * w[1] + c[2] * w[2])
<1>1. /\ c[0] \in Int /\ c[1] \in Int /\ c[2] \in Int /\ c[3] \in Int
      /\ v[0] \in Int /\ v[1] \in Int /\ v[2] \in Int
  BY DEF Triple, Coord, Index
<1>2. \A k \in {0, 1, 2, 3} : a[k][0] \in Int /\ a[k][1] \in Int /\ a[k][2] \in Int
  <2> TAKE k \in {0, 1, 2, 3}
  <2>1. k \in Index /\ 0 \in Index /\ 1 \in Index /\ 2 \in Index
    BY DEF Index
  <2> QED
    BY <2>1 DEF Square
<1>3. a[0][3] = 0 /\ a[1][3] = 0 /\ a[2][3] = 0 /\ a[3][3] = 1
  BY DEF Index
<1>4. \A k \in {0, 1, 2} : q[k] = c[0] * a[k][0] + c[1] * a[k][1] + c[2] * a[k][2]
  <2> TAKE k \in {0, 1, 2}
  <2>1. q[k] = c[0] * a[k][0] + c[1] * a[k][1] + c[2] * a[k][2] + c[3] * a[k][3] /\ a[k][3] = 0
    BY DEF Index
  <2> QED
    BY <1>1, <1>2, <2>1
<1>5. q[3] = c[0] * a[3][0] + c[1] * a[3][1] + c[2] * a[3][2] + c[3]
  <2>1. q[3] = c[0] * a[3][0] + c[1] * a[3][1] + c[2] * a[3][2] + c[3] * a[3][3] /\ a[3][3] = 1
    BY DEF Index
  <2> QED
    BY <1>1, <1>2, <2>1
<1>6. \A l \in {0, 1, 2} : w[l] = a[3][l] + (a[0][l] * v[0] + a[1][l] * v[1] + a[2][l] * v[2])
  BY DEF Coord
<1> QED
  BY ONLY <1>1, <1>2, <1>4, <1>5, <1>6

Transposed(m) == [c \in Index |-> [l \in Index |-> m[l][c]]]

Times(m, v) == [lin \in Coord |-> MulVec(m, v, lin)]
TimesT(m, v) == [lin \in Coord |-> MulTVec(m, v, lin)]

\* A vector that a matrix gives has three integers.
LEMMA TimesIs ==
  ASSUME NEW m \in Square, NEW v \in Triple
  PROVE  /\ Times(m, v) \in Triple /\ TimesT(m, v) \in Triple
         /\ \A l \in Coord :
              Times(m, v)[l] = m[3][l] + (m[0][l] * v[0] + m[1][l] * v[1] + m[2][l] * v[2])
         /\ \A l \in Coord :
              TimesT(m, v)[l] = m[l][3] + (m[l][0] * v[0] + m[l][1] * v[1] + m[l][2] * v[2])
<1>1. \A l \in Coord :
        /\ Times(m, v)[l] = m[3][l] + (m[0][l] * v[0] + m[1][l] * v[1] + m[2][l] * v[2])
        /\ TimesT(m, v)[l] = m[l][3] + (m[l][0] * v[0] + m[l][1] * v[1] + m[l][2] * v[2])
  BY MulVecIs DEF Times, TimesT
<1>2. \A l \in Coord : Times(m, v)[l] \in Int /\ TimesT(m, v)[l] \in Int
  <2> TAKE l \in Coord
  <2>1. /\ v[0] \in Int /\ v[1] \in Int /\ v[2] \in Int
        /\ m[0][l] \in Int /\ m[1][l] \in Int /\ m[2][l] \in Int /\ m[3][l] \in Int
        /\ m[l][0] \in Int /\ m[l][1] \in Int /\ m[l][2] \in Int /\ m[l][3] \in Int
    BY DEF Triple, Square, Coord, Index
  <2>2. /\ m[0][l] * v[0] \in Int /\ m[1][l] * v[1] \in Int /\ m[2][l] * v[2] \in Int
        /\ m[l][0] * v[0] \in Int /\ m[l][1] * v[1] \in Int /\ m[l][2] * v[2] \in Int
    BY <2>1
  <2> QED
    BY <1>1, <2>1, <2>2
<1>3. Times(m, v) \in Triple /\ TimesT(m, v) \in Triple
  BY <1>2 DEF Times, TimesT, Triple
<1> QED
  BY <1>1, <1>3

\* The three products of matrices, with the operand that is transposed.
LEMMA MulInTurn ==
  ASSUME NEW m1 \in Square, NEW m2 \in Square, NEW p \in Square, NEW v \in Triple,
         \A k \in Index : m2[k][3] = IF k = 3 THEN 1 ELSE 0
  PROVE  /\ (\A c \in Index : \A l \in Index : p[c][l] = Mul(m1, m2, c, l))
              => Times(p, v) = Times(m1, Times(m2, v))
         /\ (\A c \in Index : \A l \in Index : p[c][l] = Tmul(m1, m2, c, l))
              => Times(p, v) = TimesT(m1, Times(m2, v))
<1>0. Coord \subseteq Index
  BY DEF Coord, Index
<1> DEFINE w == Times(m2, v)
<1>1. /\ w \in Triple
      /\ \A l \in Coord : w[l] = m2[3][l] + (m2[0][l] * v[0] + m2[1][l] * v[1] + m2[2][l] * v[2])
  BY TimesIs
<1> HIDE DEF w
<1>2. ASSUME \A c \in Index : \A l \in Index : p[c][l] = Mul(m1, m2, c, l)
      PROVE  Times(p, v) = Times(m1, w)
  <2>1. \A l \in Coord : Times(p, v)[l] = Times(m1, w)[l]
    <3> TAKE l \in Coord
    <3> DEFINE c == [k \in Index |-> m1[k][l]]
               q == [k \in Index |-> p[k][l]]
    <3>1. c \in [Index -> Int]
      BY <1>0 DEF Square
    <3>2. \A k \in Index : c[k] = m1[k][l] /\ q[k] = p[k][l]
      OBVIOUS
    <3>3. 0 \in Index /\ 1 \in Index /\ 2 \in Index /\ 3 \in Index
      BY DEF Index
    <3> HIDE DEF c, q
    <3>4. \A k \in Index :
            q[k] = c[0] * m2[k][0] + c[1] * m2[k][1] + c[2] * m2[k][2] + c[3] * m2[k][3]
      BY <1>0, <1>2, <3>2, <3>3, MulIs
    <3>5. q[3] + (q[0] * v[0] + q[1] * v[1] + q[2] * v[2])
            = c[3] + (c[0] * w[0] + c[1] * w[1] + c[2] * w[2])
      BY <1>1, <3>1, <3>4, LineInTurn
    <3>6. Times(p, v)[l] = p[3][l] + (p[0][l] * v[0] + p[1][l] * v[1] + p[2][l] * v[2])
      BY TimesIs
    <3>7. Times(m1, w)[l] = m1[3][l] + (m1[0][l] * w[0] + m1[1][l] * w[1] + m1[2][l] * w[2])
      BY <1>1, TimesIs
    <3> QED
      BY <3>2, <3>3, <3>5, <3>6, <3>7
  <2> QED
    BY <2>1 DEF Times
<1>3. ASSUME \A c \in Index : \A l \in Index : p[c][l] = Tmul(m1, m2, c, l)
      PROVE  Times(p, v) = TimesT(m1, w)
  <2>1. \A l \in Coord : Times(p, v)[l] = TimesT(m1, w)[l]
    <3> TAKE l \in Coord
    <3> DEFINE c == m1[l]
               q == [k \in Index |-> p[k][l]]
    <3>1. c \in [Index -> Int]
      BY <1>0 DEF Square
    <3>2. \A k \in Index : c[k] = m1[l][k] /\ q[k] = p[k][l]
      OBVIOUS
    <3>3. 0 \in Index /\ 1 \in Index /\ 2 \in Index /\ 3 \in Index
      BY DEF Index
    <3> HIDE DEF c, q
    <3>4. \A k \in Index :
            q[k] = c[0] * m2[k][0] + c[1] * m2[k][1] + c[2] * m2[k][2] + c[3] * m2[k][3]
      BY <1>0, <1>3, <3>2, <3>3, MulIs
    <3>5. q[3] + (q[0] * v[0] + q[1] * v[1] + q[2] * v[2])
            = c[3] + (c[0] * w[0] + c[1] * w[1] + c[2] * w[2])
      BY <1>1, <3>1, <3>4, LineInTurn
    <3>6. Times(p, v)[l] = p[3][l] + (p[0][l] * v[0] + p[1][l] * v[1] + p[2][l] * v[2])
      BY TimesIs
    <3>7. TimesT(m1, w)[l] = m1[l][3] + (m1[l][0] * w[0] + m1[l][1] * w[1] + m1[l][2] * w[2])
      BY <1>1, TimesIs
    <3> QED
      BY <3>2, <3>3, <3>5, <3>6, <3>7
  <2> QED
    BY <2>1 DEF Times, TimesT
<1> QED
  BY <1>2, <1>3 DEF w

LEMMA MulTInTurn ==
  ASSUME NEW m1 \in Square, NEW m2 \in Square, NEW p \in Square, NEW v \in Triple,
         \A k \in Index : m2[3][k] = IF k = 3 THEN 1 ELSE 0,
         \A c \in Index : \A l \in Index : p[c][l] = MulT(m1, m2, c, l)
  PROVE  Times(p, v) = Times(m1, TimesT(m2, v))
<1>0. Coord \subseteq Index /\ 0 \in Index /\ 1 \in Index /\ 2 \in Index /\ 3 \in Index
  BY DEF Coord, Index
<1> DEFINE w == TimesT(m2, v)
           a == Transposed(m2)
<1>1. /\ w \in Triple
      /\ \A l \in Coord : w[l] = m2[l][3] + (m2[l][0] * v[0] + m2[l][1] * v[1] + m2[l][2] * v[2])
  BY TimesIs
<1>2. /\ a \in Square
      /\ \A k \in Index : \A l \in Index : a[k][l] = m2[l][k]
  BY DEF Transposed, Square
<1> HIDE DEF w, a
<1>3. \A k \in Index : a[k][3] = IF k = 3 THEN 1 ELSE 0
  BY <1>0, <1>2
<1>4. \A l \in Coord : w[l] = a[3][l] + (a[0][l] * v[0] + a[1][l] * v[1] + a[2][l] * v[2])
  BY <1>0, <1>1, <1>2
<1>5. \A l \in Coord : Times(p, v)[l] = Times(m1, w)[l]
  <2> TAKE l \in Coord
  <2> DEFINE c == [k \in Index |-> m1[k][l]]
             q == [k \in Index |-> p[k][l]]
  <2>1. c \in [Index -> Int]
    BY <1>0 DEF Square
  <2>2. \A k \in Index : c[k] = m1[k][l] /\ q[k] = p[k][l]
    OBVIOUS
  <2> HIDE DEF c, q
  <2>3. \A k \in Index :
          q[k] = c[0] * a[k][0] + c[1] * a[k][1] + c[2] * a[k][2] + c[3] * a[k][3]
    BY <1>0, <1>2, <2>2, MulIs
  <2>4. q[3] + (q[0] * v[0] + q[1] * v[1] + q[2] * v[2])
          = c[3] + (c[0] * w[0] + c[1] * w[1] + c[2] * w[2])
    BY <1>2, <1>3, <1>4, <2>1, <2>3, LineInTurn
  <2>5. Times(p, v)[l] = p[3][l] + (p[0][l] * v[0] + p[1][l] * v[1] + p[2][l] * v[2])
    BY TimesIs
  <2>6. Times(m1, w)[l] = m1[3][l] + (m1[0][l] * w[0] + m1[1][l] * w[1] + m1[2][l] * w[2])
    BY <1>1, TimesIs
  <2> QED
    BY <1>0, <2>2, <2>4, <2>5, <2>6
<1> QED
  BY <1>5 DEF Times, w

\* The product of two matrices acts as the two do in turn.
THEOREM ProductActsInTurn == AlgebraSpec => []ActsInTurn
<1>1. AlgebraInv => ActsInTurn
  <2> SUFFICES ASSUME AlgebraInv, Returns(MatByMat), NEW v \in {vec[n] : n \in Vector}
               PROVE  LET m1 == mat[call.a]
                          m2 == mat[call.b]
                          affine == \A k \in Index : m2[k][3] = (IF k = 3 THEN 1 ELSE 0)
                          affineT == \A k \in Index : m2[3][k] = (IF k = 3 THEN 1 ELSE 0)
                          p == Times(mat[call.dest], v)
                      IN  /\ call.f = "mul" /\ affine => p = Times(m1, Times(m2, v))
                          /\ call.f = "mulT" /\ affineT => p = Times(m1, TimesT(m2, v))
                          /\ call.f = "Tmul" /\ affine => p = TimesT(m1, Times(m2, v))
    BY DEF ActsInTurn, Times, TimesT
  <2> DEFINE m1 == mat[call.a]
             m2 == mat[call.b]
             m == mat[call.dest]
  <2>1. call.f \in MatByMat /\ done = 16 /\ AlgebraTyped /\ MatWritten
    BY DEF Returns, AlgebraInv
  <2>2. m1 \in Square /\ m2 \in Square /\ m \in Square /\ v \in Triple
    <3>1. OnMatrices(call)
      BY <2>1, CallKinds DEF AlgebraTyped
    <3> QED
      BY <2>1, <3>1 DEF OnMatrices, AlgebraTyped
  <2>3. \A c \in Index : \A l \in Index : m[c][l] = MatResult(c, l)
    <3> TAKE c \in Index
    <3> TAKE l \in Index
    <3>1. 4 * c + l < 16
      BY DEF Index
    <3> QED
      BY <2>1, <3>1 DEF MatWritten
  <2>4. /\ call.f = "mul" => \A c \in Index : \A l \in Index : m[c][l] = Mul(m1, m2, c, l)
        /\ call.f = "mulT" => \A c \in Index : \A l \in Index : m[c][l] = MulT(m1, m2, c, l)
        /\ call.f = "Tmul" => \A c \in Index : \A l \in Index : m[c][l] = Tmul(m1, m2, c, l)
    BY <2>3 DEF MatResult
  <2> HIDE DEF m1, m2, m
  <2>5. ASSUME call.f = "mul", \A k \in Index : m2[k][3] = (IF k = 3 THEN 1 ELSE 0)
        PROVE  Times(m, v) = Times(m1, Times(m2, v))
    BY <2>2, <2>4, <2>5, MulInTurn
  <2>6. ASSUME call.f = "mulT", \A k \in Index : m2[3][k] = (IF k = 3 THEN 1 ELSE 0)
        PROVE  Times(m, v) = Times(m1, TimesT(m2, v))
    BY <2>2, <2>4, <2>6, MulTInTurn
  <2>7. ASSUME call.f = "Tmul", \A k \in Index : m2[k][3] = (IF k = 3 THEN 1 ELSE 0)
        PROVE  Times(m, v) = TimesT(m1, Times(m2, v))
    BY <2>2, <2>4, <2>7, MulInTurn
  <2> QED
    BY <2>5, <2>6, <2>7 DEF m1, m2, m
<1> QED
  BY <1>1, AlgebraInvariant, PTL
=============================================================================
