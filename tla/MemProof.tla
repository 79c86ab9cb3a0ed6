------------------------------ MODULE MemProof ------------------------------
(***************************************************************************)
(* Theorems about Mem under its careful clients, for any threads, blocks   *)
(* and bound on the registrations: the invariants of the run mem.          *)
(*                                                                         *)
(* None of them is inductive: what a step does to a block depends on what  *)
(* the calls that are under way have read of it.  MemInv adds that: what   *)
(* each call may rely on at each of its steps, that no two calls are about *)
(* one block, and what the list looks like while a block that has moved is *)
(* still linked at its old address.                                        *)
(***************************************************************************)
EXTENDS MemUse, CommonLemmas

Pointer == Block \cup {NULL}

Steps == Sections \cup {"idle", "unref", "free", "ref"}

Calls == [at : Steps, mem : Pointer, ptr : Pointer, n : Nat, to : Thread \cup {NULL}]

FieldTypes ==
  /\ open \in BOOLEAN /\ used \in Int /\ heap \subseteq Block
  /\ first \in Pointer /\ last \in Pointer
  /\ LinkMapOf(Block, NULL, next) /\ LinkMapOf(Block, NULL, prec)
  /\ block_size \in [Block -> Nat] /\ ref_count \in [Block -> Nat]
  /\ call \in [Thread -> Calls]
  /\ holds \in [Thread -> [Block -> Nat]]
  /\ status = "ok"

\* The registrations of b when holds is h, and the sizes that are linked and
\* not yet counted.
HeldIn(h, b) == SumOf([t \in Thread |-> h[t][b]], Thread)
Counting(k) == IF k.at = "count" THEN k.n ELSE 0
CountingIn(c) == SumOf([t \in Thread |-> Counting(c[t])], Thread)

\* The blocks of hp that are linked when the calls are c.
LinkedIn(hp, c) == {x \in hp : \A t \in Thread : c[t].at \in {"link", "free"} => c[t].mem # x}

\* What a call k may rely on, of the heap, the counts and the registrations.
CallOk(k, blocks, counts, h) ==
  /\ k.at = "idle" => k = Idle
  /\ k.at # "idle" => k.mem \in Block
  /\ k.at \notin {"idle", "relink"} => k.mem \in blocks
  /\ k.at = "link" => HeldIn(h, k.mem) = 0
  /\ k.at = "count" => counts[k.mem] = 1 /\ HeldIn(h, k.mem) = 0
  /\ k.at = "unref" => k.n = counts[k.mem] /\ k.n = HeldIn(h, k.mem) + 1
  /\ k.at \in {"unlink", "free"} => counts[k.mem] = 0 /\ HeldIn(h, k.mem) = 0
  /\ k.at = "ref" => k.n = counts[k.mem] /\ k.n = HeldIn(h, k.mem) /\ k.to \in Thread
  /\ k.at = "relink" => /\ k.ptr \in blocks /\ (k.mem = k.ptr \/ k.mem \notin blocks)
                        /\ counts[k.mem] = HeldIn(h, k.mem)

CallInv(t) == CallOk(call[t], heap, ref_count, holds)

\* Calls are about different blocks, and one that moves a block is alone.
Apart ==
  \A t, u \in Thread :
    t # u /\ call[t] # Idle /\ call[u] # Idle =>
      call[t].mem # call[u].mem /\ call[t].at # "relink"

\* What is known of a block: that of its count is so when no call is about it.
BlockInv(b) ==
  /\ b \notin heap => HeldIn(holds, b) = 0
  /\ Untouched(b) => ref_count[b] = HeldIn(holds, b)

\* The address at which a block that is now at x is linked, when it has moved
\* from p to q.
Seen(p, q, x) == IF x = q THEN p ELSE x

\* The links spell s, but that those to q still lead to p.
SpellsSeen(s, p, q, f, l, nx, pv) ==
  /\ s \in Seq(Block) /\ NoRepeat(s)
  /\ f = Seen(p, q, EntryOf(NULL, s, 1)) /\ l = Seen(p, q, EntryOf(NULL, s, Len(s)))
  /\ \A i \in 1 .. Len(s) : /\ nx[s[i]] = Seen(p, q, EntryOf(NULL, s, i + 1))
                            /\ pv[s[i]] = Seen(p, q, EntryOf(NULL, s, i - 1))

ChainInv ==
  /\ NoMove => \E s \in Seq(Block) : /\ Range(s) = LinkedIn(heap, call)
                                     /\ Spells(Block, NULL, s, first, last, next, prec)
  /\ \A t \in Thread :
       call[t].at = "relink" =>
         \E s \in Seq(Block) :
           /\ Range(s) = heap
           /\ SpellsSeen(s, call[t].mem, call[t].ptr, first, last, next, prec)

SumInv == used + CountingIn(call) = SumOf(block_size, LinkedIn(heap, call))

ClosedInv == ~open => heap = {} /\ Working = {}

CountInv ==
  /\ FieldTypes /\ Apart /\ ClosedInv
  /\ \A t \in Thread : CallInv(t)
  /\ \A b \in Block : BlockInv(b)

MemInv == CountInv /\ ChainInv /\ SumInv

-----------------------------------------------------------------------------
LEMMA HeldNat ==
  ASSUME NEW h \in [Thread -> [Block -> Nat]], NEW b \in Block
  PROVE  HeldIn(h, b) \in Nat /\ \A t \in Thread : h[t][b] =< HeldIn(h, b)
<1> DEFINE f == [t \in Thread |-> h[t][b]]
<1>1. \A t \in Thread : f[t] \in Nat
  OBVIOUS
<1>2. \A t \in Thread : f[t] = h[t][b]
  OBVIOUS
<1> HIDE DEF f
<1>3. SumOf(f, Thread) \in Nat /\ \A t \in Thread : f[t] =< SumOf(f, Thread)
  BY <1>1, SumCounts, MemAssumption
<1> QED
  BY <1>2, <1>3 DEF HeldIn, f

LEMMA HeldSame ==
  ASSUME NEW h, NEW g, NEW b, \A t \in Thread : g[t][b] = h[t][b]
  PROVE  HeldIn(g, b) = HeldIn(h, b)
<1>1. [t \in Thread |-> g[t][b]] = [t \in Thread |-> h[t][b]]
  OBVIOUS
<1> QED
  BY <1>1 DEF HeldIn

LEMMA HeldChanged ==
  ASSUME NEW h, NEW g, NEW b, NEW t \in Thread,
         \A u \in Thread : h[u][b] \in Nat /\ g[u][b] \in Nat,
         \A u \in Thread \ {t} : g[u][b] = h[u][b]
  PROVE  HeldIn(g, b) = HeldIn(h, b) - h[t][b] + g[t][b]
<1>1. PICK f : f = [u \in Thread |-> h[u][b]]
  OBVIOUS
<1>2. PICK e : e = [u \in Thread |-> g[u][b]]
  OBVIOUS
<1>3. /\ \A u \in Thread : f[u] \in Int
      /\ \A u \in Thread \ {t} : e[u] = f[u]
      /\ e[t] \in Int
  BY <1>1, <1>2
<1>4. SumOf(e, Thread) = SumOf(f, Thread) - f[t] + e[t]
  BY ONLY <1>3, MemAssumption, t \in Thread, SumChanged
<1> QED
  BY <1>1, <1>2, <1>4 DEF HeldIn

\* What the model adds up is what HeldIn does.
LEMMA TotalIsHeld ==
  ASSUME NEW b
  PROVE  Total(b) = HeldIn(holds, b)
<1> DEFINE f == [t \in Thread |-> holds[t][b]]
           B(s, g) == IF s = {} THEN 0
                      ELSE LET x == CHOOSE y \in s : TRUE IN holds[x][b] + g[s \ {x}]
<1>1. Total(b) = (CHOOSE g : g = [s \in SUBSET Thread |-> B(s, g)])[Thread]
  BY DEF Total, MapThenSumSet, MapThenFoldSet
<1>2. ASSUME NEW s \in SUBSET Thread, NEW g PROVE B(s, g) = Added(f, s, g)
  <2>1. CASE s = {}
    BY <2>1 DEF Added
  <2>2. CASE s # {}
    <3>1. (CHOOSE y \in s : TRUE) \in Thread
      BY <2>2, ChosenElement
    <3> QED
      BY <2>2, <3>1 DEF Added
  <2> QED
    BY <2>1, <2>2
<1> HIDE DEF B, f
<1>3. \A g : (g = [s \in SUBSET Thread |-> B(s, g)]) <=> Adds(f, Thread, g)
  BY <1>2 DEF Adds
<1>4. \E g : Adds(f, Thread, g)
  BY AddsExists, MemAssumption
<1>5. PICK g : g = [s \in SUBSET Thread |-> B(s, g)] /\ Total(b) = g[Thread]
  BY <1>1, <1>3, <1>4
<1>6. Total(b) = SumOf(f, Thread)
  BY <1>3, <1>5, SumIs, MemAssumption
<1> QED
  BY <1>6 DEF HeldIn, f

\* A step of t that is about the blocks in D, and about no block that another
\* call is about, keeps what all rely on if it keeps it for t and for D.
LEMMA CountsKept ==
  ASSUME FieldTypes, Apart, \A u \in Thread : CallInv(u), \A b \in Block : BlockInv(b),
         NEW t \in Thread, NEW step \in Calls, call' = [call EXCEPT ![t] = step],
         NEW D \in SUBSET Block,
         \A b \in Block \ D : /\ b \in heap' <=> b \in heap
                              /\ ref_count'[b] = ref_count[b]
                              /\ HeldIn(holds', b) = HeldIn(holds, b),
         \A u \in Thread : u # t /\ call[u] # Idle =>
                             call[u].mem \notin D /\ call[u].at # "relink",
         call[t] # Idle => call[t].mem \in D,
         step # Idle => step.mem \in D,
         step.at = "relink" => \A u \in Thread : u # t => call[u] = Idle,
         CallOk(step, heap', ref_count', holds'),
         \A b \in D : BlockInv(b)'
  PROVE  Apart' /\ (\A u \in Thread : CallInv(u)') /\ (\A b \in Block : BlockInv(b)')
<1>1. /\ call'[t] = step
      /\ \A u \in Thread : u # t => call'[u] = call[u]
  BY DEF FieldTypes
<1>2. Apart'
  BY <1>1 DEF Apart
<1>3. ASSUME NEW u \in Thread PROVE CallInv(u)'
  <2>1. CASE u = t
    BY <2>1, <1>1 DEF CallInv
  <2>2. CASE u # t /\ call[u] = Idle
    BY <2>2, <1>1 DEF CallInv, CallOk, Idle
  <2>3. CASE u # t /\ call[u] # Idle
    <3>1. CallOk(call[u], heap, ref_count, holds) /\ call'[u] = call[u]
      BY <2>3, <1>1 DEF CallInv
    <3>2. call[u].at # "relink" /\ call[u].at # "idle" /\ call[u].mem \in Block \ D
      BY <2>3, <3>1 DEF CallOk
    <3>3. /\ call[u].mem \in heap' <=> call[u].mem \in heap
          /\ ref_count'[call[u].mem] = ref_count[call[u].mem]
          /\ HeldIn(holds', call[u].mem) = HeldIn(holds, call[u].mem)
      BY <3>2
    <3>4. CallOk(call[u], heap', ref_count', holds')
      BY <3>1, <3>2, <3>3 DEF CallOk
    <3> QED
      BY <3>1, <3>4 DEF CallInv
  <2> QED
    BY <2>1, <2>2, <2>3
<1>4. ASSUME NEW b \in Block PROVE BlockInv(b)'
  <2>1. CASE b \in D
    BY <2>1
  <2>2. CASE b \notin D
    <3>1. Untouched(b)' <=> Untouched(b)
      BY <2>2, <1>1 DEF Untouched, Working
    <3>2. BlockInv(b)
      OBVIOUS
    <3> QED
      BY <2>2, <3>1, <3>2 DEF BlockInv
  <2> QED
    BY <2>1, <2>2
<1> QED
  BY <1>2, <1>3, <1>4

-----------------------------------------------------------------------------
(***************************************************************************)
(* The types and the counts, action by action.                             *)
(***************************************************************************)
\* A thread that is in no call is at "idle", and no other is.
LEMMA IdleIsAtIdle ==
  ASSUME CountInv, NEW t \in Thread
  PROVE  call[t] = Idle <=> call[t].at = "idle"
BY DEF CountInv, CallInv, CallOk, Idle

\* Fields that are written have their types, and all others their values.
LEMMA FieldWritten ==
  ASSUME NEW f \in [Block -> Nat], NEW b \in Block, NEW n \in Nat
  PROVE  /\ [f EXCEPT ![b] = n] \in [Block -> Nat]
         /\ \A x \in Block : [f EXCEPT ![b] = n][x] = IF x = b THEN n ELSE f[x]
OBVIOUS

LEMMA LinkWritten ==
  ASSUME NEW f, LinkMapOf(Block, NULL, f), NEW b \in Block, NEW q \in Pointer
  PROVE  /\ LinkMapOf(Block, NULL, [f EXCEPT ![b] = q])
         /\ \A x \in Block : [f EXCEPT ![b] = q][x] = IF x = b THEN q ELSE f[x]
BY DEF LinkMapOf, Pointer

LEMMA CallWith ==
  ASSUME NEW k \in Calls, NEW a \in Steps, NEW r, r = [k EXCEPT !.at = a]
  PROVE  /\ r \in Calls /\ r.at = a
         /\ r.mem = k.mem /\ r.ptr = k.ptr /\ r.n = k.n /\ r.to = k.to
BY DEF Calls

\* A step of t about block b, of which no other call is.
LEMMA BlockKept ==
  ASSUME CountInv, NEW t \in Thread, NEW step \in Calls, call' = [call EXCEPT ![t] = step],
         NEW b \in Block,
         \A x \in Block : x # b => /\ x \in heap' <=> x \in heap
                                   /\ ref_count'[x] = ref_count[x]
                                   /\ HeldIn(holds', x) = HeldIn(holds, x),
         \A u \in Thread : u # t /\ call[u] # Idle =>
                             call[u].mem # b /\ call[u].at # "relink",
         call[t] # Idle => call[t].mem = b,
         step # Idle => step.mem = b,
         step.at # "relink",
         CallOk(step, heap', ref_count', holds'),
         b \notin heap' => HeldIn(holds', b) = 0,
         step = Idle => ref_count'[b] = HeldIn(holds', b)
  PROVE  Apart' /\ (\A u \in Thread : CallInv(u)') /\ (\A x \in Block : BlockInv(x)')
<1>1. FieldTypes /\ Apart /\ (\A u \in Thread : CallInv(u)) /\ (\A x \in Block : BlockInv(x))
  BY DEF CountInv
<1>2. BlockInv(b)'
  <2>1. CASE step = Idle
    BY <2>1 DEF BlockInv
  <2>2. CASE step # Idle
    <3>1. call'[t] # Idle /\ call'[t].mem = b
      BY <1>1, <2>2 DEF FieldTypes
    <3> QED
      BY <3>1 DEF BlockInv, Untouched, Working
  <2> QED
    BY <2>1, <2>2
<1> DEFINE D == {b}
<1>3. /\ \A x \in Block \ D : /\ x \in heap' <=> x \in heap
                              /\ ref_count'[x] = ref_count[x]
                              /\ HeldIn(holds', x) = HeldIn(holds, x)
      /\ \A u \in Thread : u # t /\ call[u] # Idle => call[u].mem \notin D /\ call[u].at # "relink"
      /\ call[t] # Idle => call[t].mem \in D
      /\ step # Idle => step.mem \in D
      /\ \A x \in D : BlockInv(x)'
      /\ D \in SUBSET Block
  BY <1>2
<1> HIDE DEF D
<1> QED
  BY <1>1, <1>3, CountsKept

\* The rest of a call of t, that is about its block.
LEMMA CallKept ==
  ASSUME CountInv, NEW t \in Thread, call[t].at \notin {"idle", "relink"},
         NEW step \in Calls, call' = [call EXCEPT ![t] = step],
         NEW b \in Block, call[t].mem = b,
         \A x \in Block : x # b => /\ x \in heap' <=> x \in heap
                                   /\ ref_count'[x] = ref_count[x]
                                   /\ HeldIn(holds', x) = HeldIn(holds, x),
         step # Idle => step.mem = b,
         step.at # "relink",
         CallOk(step, heap', ref_count', holds'),
         b \notin heap' => HeldIn(holds', b) = 0,
         step = Idle => ref_count'[b] = HeldIn(holds', b)
  PROVE  Apart' /\ (\A u \in Thread : CallInv(u)') /\ (\A x \in Block : BlockInv(x)')
<1>1. Apart /\ CallInv(t)
  BY DEF CountInv
<1>2. call[t] # Idle
  BY DEF Idle
<1>3. \A u \in Thread : u # t /\ call[u] # Idle => call[u].mem # b /\ call[u].at # "relink"
  BY <1>1, <1>2 DEF Apart
<1>4. call[t] # Idle => call[t].mem = b
  OBVIOUS
<1>5. CASE step = Idle
  BY <1>3, <1>4, <1>5, BlockKept, ZenonT(60)
<1>6. CASE step # Idle
  BY <1>3, <1>4, <1>6, BlockKept, ZenonT(60)
<1> QED
  BY <1>5, <1>6

\* A call that t begins, when no other thread moves a block.
LEMMA CallBegun ==
  ASSUME CountInv, NoMove, NEW t \in Thread, call[t] = Idle,
         NEW step \in Calls, call' = [call EXCEPT ![t] = step],
         NEW b \in Block, Untouched(b),
         \A x \in Block : x # b => /\ x \in heap' <=> x \in heap
                                   /\ ref_count'[x] = ref_count[x]
                                   /\ HeldIn(holds', x) = HeldIn(holds, x),
         step # Idle, step.mem = b, step.at # "relink",
         CallOk(step, heap', ref_count', holds'),
         b \notin heap' => HeldIn(holds', b) = 0
  PROVE  Apart' /\ (\A u \in Thread : CallInv(u)') /\ (\A x \in Block : BlockInv(x)')
<1>1. \A u \in Thread : u # t /\ call[u] # Idle => call[u].mem # b /\ call[u].at # "relink"
  BY DEF Untouched, Working, NoMove
<1> QED
  BY <1>1, BlockKept

\* A block that is not allocated is no call's.
LEMMA FreeUntouched ==
  ASSUME CountInv, NoMove, NEW b, b \notin heap
  PROVE  Untouched(b)
<1>1. \A u \in Thread : call[u] # Idle => call[u].mem \in heap
  BY DEF CountInv, CallInv, CallOk, NoMove
<1> QED
  BY <1>1 DEF Untouched, Working

LEMMA TakeCounts ==
  ASSUME CountInv, NEW t \in Thread, Take(t)
  PROVE  CountInv'
<1>1. UNCHANGED <<open, used, first, last, next, prec, heap, block_size, ref_count, call, holds, status>>
  BY DEF Take, list
<1> QED
  BY <1>1 DEF CountInv, FieldTypes, Apart, ClosedInv, CallInv, BlockInv, Untouched, Working

LEMMA MallocCounts ==
  ASSUME CountInv, NEW t \in Thread, NoMove,
         NEW b \in Block, NEW n \in BlockSizes, Malloc(t, b, n)
  PROVE  CountInv'
<1>k. PICK k : k = Idle
  OBVIOUS
<1>0. PICK step : step = [k EXCEPT !.at = "link", !.mem = b, !.n = n]
  OBVIOUS
<1>1. /\ open /\ call[t] = Idle /\ b \notin heap
      /\ heap' = heap \cup {b} /\ call' = [call EXCEPT ![t] = step]
      /\ UNCHANGED <<open, used, first, last, next, prec, block_size, ref_count, holds, status>>
  BY <1>0, <1>k DEF Malloc, Goto, list
<1>2. step = [at |-> "link", mem |-> b, ptr |-> NULL, n |-> n, to |-> NULL]
  BY ONLY <1>0, <1>k DEF Idle
<1>3. step \in Calls /\ step # Idle
  BY <1>2, MemAssumption DEF Calls, Steps, Sections, Pointer, Idle
<1>4. FieldTypes /\ ClosedInv /\ BlockInv(b)
  BY DEF CountInv
<1>5. HeldIn(holds, b) = 0
  BY <1>1, <1>4 DEF BlockInv
<1>6. CallOk(step, heap', ref_count', holds')
  BY <1>1, <1>2, <1>5 DEF CallOk
<1>7. FieldTypes'
  BY <1>1, <1>3, <1>4 DEF FieldTypes
<1>8. Apart' /\ (\A u \in Thread : CallInv(u)') /\ (\A x \in Block : BlockInv(x)')
  <2>1. Untouched(b)
    BY <1>1, FreeUntouched
  <2>2. \A x \in Block : x # b => /\ x \in heap' <=> x \in heap
                                  /\ ref_count'[x] = ref_count[x]
                                  /\ HeldIn(holds', x) = HeldIn(holds, x)
    BY <1>1
  <2>3. b \in heap' /\ step.mem = b /\ step.at # "relink"
    BY <1>1, <1>2
  <2> QED
    BY <1>1, <1>3, <1>6, <2>1, <2>2, <2>3, CallBegun
<1> QED
  BY <1>1, <1>7, <1>8 DEF CountInv, ClosedInv

\* What there is to know of a call under way.
LEMMA CallAt ==
  ASSUME CountInv, NEW t \in Thread, call[t].at # "idle"
  PROVE  /\ call[t] \in Calls /\ call[t] # Idle /\ call[t].mem \in Block /\ open
         /\ CallOk(call[t], heap, ref_count, holds)
<1>1. FieldTypes /\ ClosedInv /\ CallInv(t)
  BY DEF CountInv
<1>2. call[t] # Idle /\ call[t].mem \in Block
  BY <1>1 DEF CallInv, CallOk, Idle
<1> QED
  BY <1>1, <1>2 DEF FieldTypes, ClosedInv, CallInv, Working

LEMMA LinkCounts ==
  ASSUME CountInv, NEW t \in Thread, Link(t)
  PROVE  CountInv'
<1>k. PICK k : k = call[t]
  OBVIOUS
<1>b. PICK b : b = call[t].mem
  OBVIOUS
<1>0. PICK step : step = [k EXCEPT !.at = "count"]
  OBVIOUS
<1>1. /\ call[t].at = "link"
      /\ first' = IF first = NULL THEN b ELSE first
      /\ next' = [Write(next, IF first = NULL THEN NULL ELSE last, b) EXCEPT ![b] = NULL]
      /\ prec' = [prec EXCEPT ![b] = last]
      /\ last' = b
      /\ block_size' = [block_size EXCEPT ![b] = k.n]
      /\ ref_count' = [ref_count EXCEPT ![b] = 1]
      /\ call' = [call EXCEPT ![t] = step]
      /\ UNCHANGED <<open, used, heap, holds, status>>
  BY <1>0, <1>k, <1>b DEF Link, InSection, Goto
<1>2. /\ FieldTypes /\ ClosedInv /\ call[t] \in Calls /\ k \in Calls /\ b \in Block /\ open
      /\ CallOk(call[t], heap, ref_count, holds)
  BY <1>1, <1>b, <1>k, CallAt DEF CountInv
<1>3. /\ step \in Calls /\ step.at = "count" /\ step.mem = b /\ step.n = k.n
      /\ step # Idle
  BY <1>0, <1>2, <1>b, <1>k, CallWith DEF Idle, Steps, Sections
<1>4. b \in heap /\ HeldIn(holds, b) = 0
  BY <1>1, <1>2, <1>b DEF CallOk
<1>5. /\ block_size' \in [Block -> Nat] /\ ref_count' \in [Block -> Nat]
      /\ \A x \in Block : ref_count'[x] = IF x = b THEN 1 ELSE ref_count[x]
  BY <1>1, <1>2, FieldWritten DEF FieldTypes, Calls
<1>6. CallOk(step, heap', ref_count', holds')
  BY <1>1, <1>2, <1>3, <1>4, <1>5 DEF CallOk
<1>7. FieldTypes'
  <2>1. LinkMapOf(Block, NULL, next')
    <3>1. \A p : LinkMapOf(Block, NULL, Write(next, p, b))
      BY <1>2, <1>4 DEF FieldTypes, Write, LinkMapOf
    <3>2. NULL \in Pointer
      BY DEF Pointer
    <3> QED
      BY <1>1, <1>2, <3>1, <3>2, LinkWritten
  <2>2. LinkMapOf(Block, NULL, prec')
    BY <1>1, <1>2, LinkWritten DEF FieldTypes
  <2>3. first' \in Pointer /\ last' \in Pointer
    BY <1>1, <1>2 DEF FieldTypes, Pointer
  <2>4. call' \in [Thread -> Calls]
    BY <1>1, <1>2, <1>3 DEF FieldTypes
  <2> QED
    BY <1>1, <1>2, <1>5, <2>1, <2>2, <2>3, <2>4 DEF FieldTypes
<1>8. Apart' /\ (\A u \in Thread : CallInv(u)') /\ (\A x \in Block : BlockInv(x)')
  <2>1. call[t].at \notin {"idle", "relink"} /\ step.at # "relink" /\ b \in heap'
    BY <1>1, <1>3, <1>4
  <2>2. \A x \in Block : x # b => /\ x \in heap' <=> x \in heap
                                  /\ ref_count'[x] = ref_count[x]
                                  /\ HeldIn(holds', x) = HeldIn(holds, x)
    BY <1>1, <1>5
  <2> QED
    BY <1>1, <1>2, <1>3, <1>6, <1>b, <2>1, <2>2, CallKept
<1> QED
  BY <1>1, <1>2, <1>7, <1>8 DEF CountInv, ClosedInv
LEMMA CountCounts ==
  ASSUME CountInv, NEW t \in Thread, Count(t)
  PROVE  CountInv'
<1>b. PICK b : b = call[t].mem
  OBVIOUS
<1>1. /\ call[t].at = "count"
      /\ used' = used + call[t].n
      /\ holds' = [holds EXCEPT ![t][b] = 1]
      /\ call' = [call EXCEPT ![t] = Idle]
      /\ UNCHANGED <<open, first, last, next, prec, heap, block_size, ref_count, status>>
  BY <1>b DEF Count, InSection, Return, Goto, UsedAfterCount, list
<1>2. /\ FieldTypes /\ ClosedInv /\ call[t] \in Calls /\ b \in Block /\ open
      /\ CallOk(call[t], heap, ref_count, holds)
  BY <1>1, <1>b, CallAt DEF CountInv
<1>3. Idle \in Calls
  BY DEF Idle, Calls, Steps, Pointer
<1>4. /\ holds' \in [Thread -> [Block -> Nat]]
      /\ holds'[t][b] = 1
      /\ \A u \in Thread, x \in Block : (u # t \/ x # b) => holds'[u][x] = holds[u][x]
  BY <1>1, <1>2 DEF FieldTypes
<1>5. b \in heap /\ ref_count[b] = 1 /\ HeldIn(holds, b) = 0
  BY <1>1, <1>2, <1>b DEF CallOk
<1>6. \A x \in Block : x # b => HeldIn(holds', x) = HeldIn(holds, x)
  BY <1>4, HeldSame
<1>7. HeldIn(holds', b) = 1
  <2>1. holds \in [Thread -> [Block -> Nat]]
    BY <1>2 DEF FieldTypes
  <2>2. holds[t][b] = 0
    <3>1. holds[t][b] \in Nat /\ holds[t][b] =< HeldIn(holds, b)
      BY <1>2, <2>1, HeldNat
    <3> QED
      BY <1>5, <3>1
  <2>3. HeldIn(holds', b) = HeldIn(holds, b) - holds[t][b] + holds'[t][b]
    BY <1>2, <1>4, <2>1, HeldChanged
  <2> QED
    BY <1>4, <1>5, <2>2, <2>3
<1>8. FieldTypes'
  <2>1. call[t].n \in Nat
    BY <1>2 DEF Calls
  <2> QED
    BY <1>1, <1>2, <1>3, <1>4, <2>1 DEF FieldTypes
<1>9. Apart' /\ (\A u \in Thread : CallInv(u)') /\ (\A x \in Block : BlockInv(x)')
  <2>1. call[t].at \notin {"idle", "relink"} /\ Idle.at # "relink" /\ b \in heap'
    BY <1>1, <1>5 DEF Idle
  <2>2. \A x \in Block : x # b => /\ x \in heap' <=> x \in heap
                                  /\ ref_count'[x] = ref_count[x]
                                  /\ HeldIn(holds', x) = HeldIn(holds, x)
    BY <1>1, <1>6
  <2>3. CallOk(Idle, heap', ref_count', holds')
    BY DEF CallOk, Idle
  <2>4. ref_count'[b] = HeldIn(holds', b)
    BY <1>1, <1>5, <1>7
  <2> QED
    BY <1>1, <1>2, <1>3, <1>b, <2>1, <2>2, <2>3, <2>4, CallKept
<1> QED
  BY <1>1, <1>2, <1>8, <1>9 DEF CountInv, ClosedInv

\* A registration more or less.
LEMMA HoldWritten ==
  ASSUME FieldTypes, NEW t \in Thread, NEW b \in Block, NEW n \in Nat,
         holds' = [holds EXCEPT ![t][b] = n]
  PROVE  /\ holds' \in [Thread -> [Block -> Nat]]
         /\ \A x \in Block : x # b => HeldIn(holds', x) = HeldIn(holds, x)
         /\ HeldIn(holds', b) = HeldIn(holds, b) - holds[t][b] + n
<1>1. holds \in [Thread -> [Block -> Nat]]
  BY DEF FieldTypes
<1>2. /\ holds' \in [Thread -> [Block -> Nat]]
      /\ holds'[t][b] = n
      /\ \A u \in Thread, x \in Block : (u # t \/ x # b) => holds'[u][x] = holds[u][x]
  BY <1>1
<1>3. ASSUME NEW x \in Block, x # b PROVE HeldIn(holds', x) = HeldIn(holds, x)
  <2>1. \A u \in Thread : holds'[u][x] = holds[u][x]
    BY <1>2, <1>3
  <2> QED
    BY ONLY <2>1, HeldSame
<1>4. HeldIn(holds', b) = HeldIn(holds, b) - holds[t][b] + holds'[t][b]
  <2>1. \A u \in Thread \ {t} : holds'[u][b] = holds[u][b]
    BY <1>2
  <2>2. \A u \in Thread : holds[u][b] \in Nat /\ holds'[u][b] \in Nat
    BY <1>1, <1>2
  <2>3. PICK g : g = holds'
    OBVIOUS
  <2>5. /\ \A u \in Thread \ {t} : g[u][b] = holds[u][b]
        /\ \A u \in Thread : holds[u][b] \in Nat /\ g[u][b] \in Nat
    BY <2>1, <2>2, <2>3
  <2>4. HeldIn(g, b) = HeldIn(holds, b) - holds[t][b] + g[t][b]
    BY ONLY <2>5, t \in Thread, HeldChanged, Z3
  <2> QED
    BY <2>3, <2>4
<1> QED
  BY <1>2, <1>3, <1>4

LEMMA HeldType ==
  ASSUME FieldTypes, NEW t \in Thread, NEW b \in Block
  PROVE  /\ HeldIn(holds, b) \in Nat /\ holds[t][b] \in Nat
         /\ holds[t][b] =< HeldIn(holds, b)
<1>1. holds \in [Thread -> [Block -> Nat]]
  BY DEF FieldTypes
<1> QED
  BY <1>1, HeldNat

\* A block that a thread has a registration of is marked.
LEMMA HeldIsMarked ==
  ASSUME CountInv, NEW t \in Thread, NEW b \in Block, holds[t][b] > 0
  PROVE  b \in heap
BY HeldType DEF CountInv, BlockInv

LEMMA UnregisterCounts ==
  ASSUME CountInv, NoMove, NEW t \in Thread, NEW b \in Block, Untouched(b), Unregister(t, b)
  PROVE  CountInv'
<1>k. PICK k : k = Idle
  OBVIOUS
<1>0. PICK step : step = [k EXCEPT !.at = "unref", !.mem = b, !.n = ref_count[b]]
  OBVIOUS
<1>h. holds[t][b] > 0
  BY DEF Unregister, ReadCount
<1>m. b \in heap
  BY <1>h, HeldIsMarked
<1>1. /\ open /\ call[t] = Idle
      /\ call' = [call EXCEPT ![t] = step]
      /\ holds' = [holds EXCEPT ![t][b] = holds[t][b] - 1]
      /\ UNCHANGED <<open, used, first, last, next, prec, heap, block_size, ref_count, mutex, status>>
  BY <1>0, <1>k, <1>m DEF Unregister, ReadCount, Marked, Goto, list, CountInv, FieldTypes
<1>2. FieldTypes /\ ClosedInv /\ BlockInv(b)
  BY DEF CountInv
<1>3. step = [at |-> "unref", mem |-> b, ptr |-> NULL, n |-> ref_count[b], to |-> NULL]
  BY ONLY <1>0, <1>k DEF Idle
<1>4. ref_count[b] \in Nat
  BY <1>2 DEF FieldTypes
<1>5. step \in Calls /\ step # Idle
  BY <1>3, <1>4 DEF Calls, Steps, Sections, Pointer, Idle
<1>6. holds[t][b] - 1 \in Nat /\ HeldIn(holds, b) \in Nat /\ holds[t][b] \in Nat
  BY <1>h, <1>2, HeldType
<1>7. /\ holds' \in [Thread -> [Block -> Nat]]
      /\ \A x \in Block : x # b => HeldIn(holds', x) = HeldIn(holds, x)
      /\ HeldIn(holds', b) = HeldIn(holds, b) - holds[t][b] + (holds[t][b] - 1)
  <2>1. PICK n : n = holds[t][b] - 1
    OBVIOUS
  <2>2. n \in Nat /\ holds' = [holds EXCEPT ![t][b] = n]
    BY <1>1, <1>6, <2>1
  <2> QED
    BY <1>2, <2>1, <2>2, HoldWritten, ZenonT(60)
<1>8. HeldIn(holds', b) = HeldIn(holds, b) - 1 /\ ref_count[b] = HeldIn(holds, b)
  BY <1>2, <1>6, <1>7 DEF BlockInv
<1>9. CallOk(step, heap', ref_count', holds')
  BY <1>1, <1>3, <1>6, <1>8, <1>m DEF CallOk
<1>10. FieldTypes'
  BY <1>1, <1>2, <1>5, <1>7 DEF FieldTypes
<1>11. Apart' /\ (\A u \in Thread : CallInv(u)') /\ (\A x \in Block : BlockInv(x)')
  <2>1. step.mem = b /\ step.at # "relink" /\ b \in heap'
    BY <1>1, <1>3, <1>m
  <2>2. \A x \in Block : x # b => /\ x \in heap' <=> x \in heap
                                  /\ ref_count'[x] = ref_count[x]
                                  /\ HeldIn(holds', x) = HeldIn(holds, x)
    BY <1>1, <1>7
  <2> QED
    BY <1>1, <1>5, <1>9, <2>1, <2>2, CallBegun
<1> QED
  BY <1>1, <1>2, <1>10, <1>11 DEF CountInv, ClosedInv

LEMMA RegisterCounts ==
  ASSUME CountInv, NoMove, NEW t \in Thread, NEW u \in Thread, NEW b \in Block,
         Untouched(b), Register(t, u, b)
  PROVE  CountInv'
<1>k. PICK k : k = Idle
  OBVIOUS
<1>0. PICK step : step = [k EXCEPT !.at = "ref", !.mem = b, !.n = ref_count[b], !.to = u]
  OBVIOUS
<1>h. holds[t][b] > 0
  BY DEF Register, ReadCount
<1>m. b \in heap
  BY <1>h, HeldIsMarked
<1>1. /\ open /\ call[t] = Idle
      /\ call' = [call EXCEPT ![t] = step]
      /\ UNCHANGED <<open, used, first, last, next, prec, heap, block_size, ref_count, mutex, holds, status>>
  BY <1>0, <1>k, <1>m DEF Register, ReadCount, Marked, Goto, list
<1>2. FieldTypes /\ ClosedInv /\ BlockInv(b)
  BY DEF CountInv
<1>3. step = [at |-> "ref", mem |-> b, ptr |-> NULL, n |-> ref_count[b], to |-> u]
  BY ONLY <1>0, <1>k DEF Idle
<1>4. ref_count[b] \in Nat
  BY <1>2 DEF FieldTypes
<1>5. step \in Calls /\ step # Idle
  BY <1>3, <1>4 DEF Calls, Steps, Sections, Pointer, Idle
<1>6. ref_count[b] = HeldIn(holds, b)
  BY <1>2 DEF BlockInv
<1>7. CallOk(step, heap', ref_count', holds')
  BY <1>1, <1>3, <1>6, <1>m DEF CallOk
<1>8. FieldTypes'
  BY <1>1, <1>2, <1>5 DEF FieldTypes
<1>9. Apart' /\ (\A v \in Thread : CallInv(v)') /\ (\A x \in Block : BlockInv(x)')
  <2>1. step.mem = b /\ step.at # "relink" /\ b \in heap'
    BY <1>1, <1>3, <1>m
  <2>2. \A x \in Block : x # b => /\ x \in heap' <=> x \in heap
                                  /\ ref_count'[x] = ref_count[x]
                                  /\ HeldIn(holds', x) = HeldIn(holds, x)
    BY <1>1
  <2> QED
    BY <1>1, <1>5, <1>7, <2>1, <2>2, CallBegun
<1> QED
  BY <1>1, <1>2, <1>8, <1>9 DEF CountInv, ClosedInv

LEMMA IdleCall == Idle \in Calls /\ Idle.at # "relink" /\ (\A g, c, h : CallOk(Idle, g, c, h))
BY DEF Idle, Calls, Steps, Pointer, CallOk

LEMMA RefCounts ==
  ASSUME CountInv, NEW t \in Thread, Ref(t)
  PROVE  CountInv'
<1>b. PICK b : b = call[t].mem
  OBVIOUS
<1>n. PICK n : n = call[t].n
  OBVIOUS
<1>u. PICK u : u = call[t].to
  OBVIOUS
<1>0. call[t].at = "ref"
  BY DEF Ref
<1>2. /\ FieldTypes /\ ClosedInv /\ call[t] \in Calls /\ b \in Block /\ open
      /\ CallOk(call[t], heap, ref_count, holds)
  BY <1>0, <1>b, CallAt DEF CountInv
<1>3. /\ b \in heap /\ n = ref_count[b] /\ n = HeldIn(holds, b) /\ u \in Thread /\ n \in Nat
  BY <1>0, <1>2, <1>b, <1>n, <1>u DEF CallOk, Calls
<1>1. /\ ref_count' = [ref_count EXCEPT ![b] = n + 1]
      /\ holds' = [holds EXCEPT ![u][b] = holds[u][b] + 1]
      /\ call' = [call EXCEPT ![t] = Idle]
      /\ UNCHANGED <<open, used, first, last, next, prec, heap, block_size, mutex, status>>
  BY <1>2, <1>3, <1>b, <1>n, <1>u DEF Ref, Return, Goto, list, Write, More, FieldTypes
<1>4. holds[u][b] + 1 \in Nat /\ HeldIn(holds, b) \in Nat /\ holds[u][b] \in Nat
  BY <1>2, <1>3, HeldType
<1>7. /\ holds' \in [Thread -> [Block -> Nat]]
      /\ \A x \in Block : x # b => HeldIn(holds', x) = HeldIn(holds, x)
      /\ HeldIn(holds', b) = HeldIn(holds, b) - holds[u][b] + (holds[u][b] + 1)
  <2>1. PICK m : m = holds[u][b] + 1
    OBVIOUS
  <2>2. m \in Nat /\ holds' = [holds EXCEPT ![u][b] = m]
    BY <1>1, <1>4, <2>1
  <2> QED
    BY <1>2, <1>3, <2>1, <2>2, HoldWritten, ZenonT(60)
<1>8. /\ ref_count' \in [Block -> Nat]
      /\ \A x \in Block : ref_count'[x] = IF x = b THEN n + 1 ELSE ref_count[x]
  <2>1. PICK m : m = n + 1
    OBVIOUS
  <2>2. m \in Nat /\ ref_count' = [ref_count EXCEPT ![b] = m] /\ ref_count \in [Block -> Nat]
    BY <1>1, <1>2, <1>3, <2>1 DEF FieldTypes
  <2> QED
    BY <1>2, <2>1, <2>2, FieldWritten
<1>9. ref_count'[b] = HeldIn(holds', b)
  BY <1>2, <1>3, <1>4, <1>7, <1>8
<1>10. FieldTypes'
  BY <1>1, <1>2, <1>7, <1>8, IdleCall DEF FieldTypes
<1>11. Apart' /\ (\A v \in Thread : CallInv(v)') /\ (\A x \in Block : BlockInv(x)')
  <2>1. call[t].at \notin {"idle", "relink"} /\ b \in heap'
    BY <1>0, <1>1, <1>3
  <2>2. \A x \in Block : x # b => /\ x \in heap' <=> x \in heap
                                  /\ ref_count'[x] = ref_count[x]
                                  /\ HeldIn(holds', x) = HeldIn(holds, x)
    BY <1>1, <1>7, <1>8
  <2> QED
    BY <1>1, <1>2, <1>9, <1>b, <2>1, <2>2, IdleCall, CallKept, ZenonT(60)
<1> QED
  BY <1>1, <1>2, <1>10, <1>11 DEF CountInv, ClosedInv

LEMMA UnrefCounts ==
  ASSUME CountInv, NEW t \in Thread, Unref(t)
  PROVE  CountInv'
<1>b. PICK b : b = call[t].mem
  OBVIOUS
<1>n. PICK n : n = call[t].n
  OBVIOUS
<1>k. PICK k : k = Idle
  OBVIOUS
<1>s. PICK step : step = IF n = 1 THEN [k EXCEPT !.at = "unlink", !.mem = b] ELSE Idle
  OBVIOUS
<1>0. call[t].at = "unref"
  BY DEF Unref
<1>2. /\ FieldTypes /\ ClosedInv /\ call[t] \in Calls /\ b \in Block /\ open
      /\ CallOk(call[t], heap, ref_count, holds)
  BY <1>0, <1>b, CallAt DEF CountInv
<1>3. /\ b \in heap /\ n = ref_count[b] /\ n = HeldIn(holds, b) + 1 /\ n \in Nat
      /\ HeldIn(holds, b) \in Nat
  BY <1>0, <1>2, <1>b, <1>n, HeldType DEF CallOk, Calls
<1>1. /\ ref_count' = [ref_count EXCEPT ![b] = n - 1]
      /\ call' = [call EXCEPT ![t] = step]
      /\ UNCHANGED <<open, used, first, last, next, prec, heap, block_size, mutex, holds, status>>
  BY <1>3, <1>b, <1>n, <1>k, <1>s DEF Unref, Return, Goto, list, Write, IsLast
<1>4. CASE n = 1
  <2>1. step = [at |-> "unlink", mem |-> b, ptr |-> NULL, n |-> 0, to |-> NULL]
    <3>1. step = [k EXCEPT !.at = "unlink", !.mem = b]
      BY <1>4, <1>s
    <3> QED
      BY ONLY <3>1, <1>k DEF Idle
  <2>2. step \in Calls /\ step # Idle
    BY <2>1, <1>2 DEF Calls, Steps, Sections, Pointer, Idle
  <2>3. /\ ref_count' \in [Block -> Nat]
        /\ \A x \in Block : ref_count'[x] = IF x = b THEN 0 ELSE ref_count[x]
    BY <1>1, <1>2, <1>4, FieldWritten DEF FieldTypes
  <2>4. CallOk(step, heap', ref_count', holds')
    BY <1>1, <1>2, <1>3, <1>4, <2>1, <2>3 DEF CallOk
  <2>5. FieldTypes'
    BY <1>1, <1>2, <2>2, <2>3 DEF FieldTypes
  <2>6. Apart' /\ (\A u \in Thread : CallInv(u)') /\ (\A x \in Block : BlockInv(x)')
    <3>1. /\ call[t].at \notin {"idle", "relink"} /\ b \in heap'
          /\ step.mem = b /\ step.at # "relink"
      BY <1>0, <1>1, <1>3, <2>1
    <3>2. \A x \in Block : x # b => /\ x \in heap' <=> x \in heap
                                    /\ ref_count'[x] = ref_count[x]
                                    /\ HeldIn(holds', x) = HeldIn(holds, x)
      BY <1>1, <2>3
    <3> QED
      BY <1>1, <1>2, <1>b, <2>2, <2>4, <3>1, <3>2, CallKept
  <2> QED
    BY <1>1, <1>2, <2>5, <2>6 DEF CountInv, ClosedInv
<1>5. CASE n # 1
  <2>1. call' = [call EXCEPT ![t] = Idle]
    BY <1>1, <1>5, <1>s
  <2>3. /\ ref_count' \in [Block -> Nat]
        /\ \A x \in Block : ref_count'[x] = IF x = b THEN n - 1 ELSE ref_count[x]
    <3>1. PICK m : m = n - 1
      OBVIOUS
    <3>2. m \in Nat /\ ref_count' = [ref_count EXCEPT ![b] = m] /\ ref_count \in [Block -> Nat]
      BY <1>1, <1>2, <1>3, <3>1 DEF FieldTypes
    <3> QED
      BY <1>2, <3>1, <3>2, FieldWritten
  <2>4. ref_count'[b] = HeldIn(holds', b)
    BY <1>1, <1>2, <1>3, <2>3
  <2>5. FieldTypes'
    BY <1>1, <1>2, <2>1, <2>3, IdleCall DEF FieldTypes
  <2>6. Apart' /\ (\A u \in Thread : CallInv(u)') /\ (\A x \in Block : BlockInv(x)')
    <3>1. call[t].at \notin {"idle", "relink"} /\ b \in heap'
      BY <1>0, <1>1, <1>3
    <3>2. \A x \in Block : x # b => /\ x \in heap' <=> x \in heap
                                    /\ ref_count'[x] = ref_count[x]
                                    /\ HeldIn(holds', x) = HeldIn(holds, x)
      BY <1>1, <2>3
    <3> QED
      BY <1>2, <1>b, <2>1, <2>4, <3>1, <3>2, IdleCall, CallKept, ZenonT(60)
  <2> QED
    BY <1>1, <1>2, <2>5, <2>6 DEF CountInv, ClosedInv
<1> QED
  BY <1>4, <1>5

\* What Redirect writes are pointers.
LEMMA RedirectTypes ==
  ASSUME FieldTypes, NEW p, NEW before, NEW after,
         p # first => before \in Block, p # last => after \in Block,
         NEW nextOf \in Pointer, NEW precOf \in Pointer,
         Redirect(p, before, after, nextOf, precOf)
  PROVE  /\ first' \in Pointer /\ last' \in Pointer
         /\ LinkMapOf(Block, NULL, next') /\ LinkMapOf(Block, NULL, prec')
<1>1. first' \in Pointer /\ last' \in Pointer
  BY DEF Redirect, FieldTypes
<1>2. LinkMapOf(Block, NULL, next')
  BY LinkWritten DEF Redirect, FieldTypes
<1>3. LinkMapOf(Block, NULL, prec')
  BY LinkWritten DEF Redirect, FieldTypes
<1> QED
  BY <1>1, <1>2, <1>3

LEMMA LinksAreLinks ==
  ASSUME FieldTypes, NEW b \in Block
  PROVE  next[b] \in Pointer /\ prec[b] \in Pointer
BY DEF FieldTypes, LinkMapOf, Pointer

LEMMA UnlinkCounts ==
  ASSUME CountInv, NEW t \in Thread, Unlink(t),
         NeighboursMarked(call[t].mem, prec[call[t].mem], next[call[t].mem])
  PROVE  CountInv'
<1>b. PICK b : b = call[t].mem
  OBVIOUS
<1>k. PICK k : k = call[t]
  OBVIOUS
<1>s. PICK step : step = [k EXCEPT !.at = "free"]
  OBVIOUS
<1>0. call[t].at = "unlink"
  BY DEF Unlink
<1>1. /\ used' = used - block_size[b]
      /\ Redirect(b, prec[b], next[b], next[b], prec[b])
      /\ call' = [call EXCEPT ![t] = step]
      /\ UNCHANGED <<open, heap, block_size, ref_count, holds, status>>
  BY <1>b, <1>k, <1>s DEF Unlink, Goto, InSection
<1>2. /\ FieldTypes /\ ClosedInv /\ call[t] \in Calls /\ k \in Calls /\ b \in Block /\ open
      /\ CallOk(call[t], heap, ref_count, holds)
  BY <1>0, <1>b, <1>k, CallAt DEF CountInv
<1>3. /\ step \in Calls /\ step.at = "free" /\ step.mem = b /\ step # Idle
  BY <1>s, <1>2, <1>b, <1>k, CallWith DEF Idle, Steps, Sections
<1>4. b \in heap /\ HeldIn(holds, b) = 0 /\ ref_count[b] = 0
  BY <1>0, <1>2, <1>b DEF CallOk
<1>5. CallOk(step, heap', ref_count', holds')
  BY <1>1, <1>2, <1>3, <1>4 DEF CallOk
<1>6. FieldTypes'
  <2>1. (b # first => prec[b] \in Block) /\ (b # last => next[b] \in Block)
    BY <1>2, <1>b DEF NeighboursMarked, Marked, FieldTypes
  <2>2. /\ first' \in Pointer /\ last' \in Pointer
        /\ LinkMapOf(Block, NULL, next') /\ LinkMapOf(Block, NULL, prec')
    BY <1>1, <1>2, <2>1, LinksAreLinks, RedirectTypes
  <2>3. block_size[b] \in Nat
    BY <1>2 DEF FieldTypes
  <2> QED
    BY <1>1, <1>2, <1>3, <2>2, <2>3 DEF FieldTypes
<1>7. Apart' /\ (\A u \in Thread : CallInv(u)') /\ (\A x \in Block : BlockInv(x)')
  <2>1. call[t].at \notin {"idle", "relink"} /\ step.at # "relink" /\ b \in heap'
    BY <1>0, <1>1, <1>3, <1>4
  <2>2. \A x \in Block : x # b => /\ x \in heap' <=> x \in heap
                                  /\ ref_count'[x] = ref_count[x]
                                  /\ HeldIn(holds', x) = HeldIn(holds, x)
    BY <1>1
  <2> QED
    BY <1>1, <1>2, <1>3, <1>5, <1>b, <2>1, <2>2, CallKept
<1> QED
  BY <1>1, <1>2, <1>6, <1>7 DEF CountInv, ClosedInv

LEMMA FreeCounts ==
  ASSUME CountInv, NEW t \in Thread, Free(t)
  PROVE  CountInv'
<1>b. PICK b : b = call[t].mem
  OBVIOUS
<1>0. call[t].at = "free"
  BY DEF Free
<1>1. /\ heap' = heap \ {b}
      /\ block_size' = [block_size EXCEPT ![b] = 0]
      /\ ref_count' = [ref_count EXCEPT ![b] = 0]
      /\ next' = [next EXCEPT ![b] = NULL]
      /\ prec' = [prec EXCEPT ![b] = NULL]
      /\ call' = [call EXCEPT ![t] = Idle]
      /\ UNCHANGED <<open, used, first, last, mutex, holds, status>>
  BY <1>b DEF Free, Return, Goto
<1>2. /\ FieldTypes /\ ClosedInv /\ call[t] \in Calls /\ b \in Block /\ open
      /\ CallOk(call[t], heap, ref_count, holds)
  BY <1>0, <1>b, CallAt DEF CountInv
<1>3. HeldIn(holds, b) = 0
  BY <1>0, <1>2, <1>b DEF CallOk
<1>4. /\ block_size' \in [Block -> Nat] /\ ref_count' \in [Block -> Nat]
      /\ \A x \in Block : ref_count'[x] = IF x = b THEN 0 ELSE ref_count[x]
  BY <1>1, <1>2, FieldWritten DEF FieldTypes
<1>5. LinkMapOf(Block, NULL, next') /\ LinkMapOf(Block, NULL, prec')
  BY <1>1, <1>2, LinkWritten DEF FieldTypes, Pointer
<1>6. FieldTypes'
  BY <1>1, <1>2, <1>4, <1>5, IdleCall DEF FieldTypes
<1>7. Apart' /\ (\A u \in Thread : CallInv(u)') /\ (\A x \in Block : BlockInv(x)')
  <2>1. call[t].at \notin {"idle", "relink"}
    BY <1>0
  <2>2. \A x \in Block : x # b => /\ x \in heap' <=> x \in heap
                                  /\ ref_count'[x] = ref_count[x]
                                  /\ HeldIn(holds', x) = HeldIn(holds, x)
    BY <1>1, <1>4
  <2>3. ref_count'[b] = HeldIn(holds', b) /\ HeldIn(holds', b) = 0
    BY <1>1, <1>2, <1>3, <1>4
  <2>4. /\ CountInv /\ call[t].mem = b /\ b \in Block
        /\ call' = [call EXCEPT ![t] = Idle]
    BY <1>1, <1>2, <1>b
  <2>5. CallOk(Idle, heap', ref_count', holds') /\ Idle \in Calls /\ Idle.at # "relink"
    BY IdleCall
  <2> QED
    BY ONLY t \in Thread, <2>1, <2>2, <2>3, <2>4, <2>5, CallKept
<1> QED
  BY <1>1, <1>2, <1>6, <1>7 DEF CountInv, ClosedInv

\* A block that has moved takes its header with it, and its only registration.
LEMMA ReallocCounts ==
  ASSUME CountInv, Working = {}, NEW t \in Thread, NEW b \in Block, NEW c \in Block,
         NEW n \in BlockSizes, HeldIn(holds, b) = 1, Realloc(t, b, c, n)
  PROVE  /\ CountInv'
         /\ holds[t][b] > 0 /\ b \in heap /\ (c = b \/ c \notin heap)
         /\ heap' = (heap \ {b}) \cup {c}
         /\ \A x \in Block : block_size'[x] = IF x = c THEN block_size[b]
                                              ELSE IF x = b THEN 0 ELSE block_size[x]
         /\ \A x \in Block : next'[x] = IF x = c THEN next[b]
                                        ELSE IF x = b THEN NULL ELSE next[x]
         /\ \A x \in Block : prec'[x] = IF x = c THEN prec[b]
                                        ELSE IF x = b THEN NULL ELSE prec[x]
         /\ call'[t].at = "relink" /\ call'[t].mem = b /\ call'[t].ptr = c /\ call'[t].n = n
         /\ \A u \in Thread : u # t => call'[u] = Idle
         /\ UNCHANGED <<open, used, first, last, status>>
<1> DEFINE Moved(f, none) == IF c = b THEN f ELSE [f EXCEPT ![c] = f[b], ![b] = none]
<1>k. PICK k : k = Idle
  OBVIOUS
<1>s. PICK step : step = [k EXCEPT !.at = "relink", !.mem = b, !.ptr = c, !.n = n]
  OBVIOUS
<1>h. holds[t][b] > 0 /\ (c = b \/ c \notin heap)
  BY DEF Realloc
<1>m. b \in heap
  BY <1>h, HeldIsMarked
<1>1. /\ open /\ call[t] = Idle
      /\ heap' = (heap \ {b}) \cup {c}
      /\ block_size' = Moved(block_size, 0)
      /\ ref_count' = Moved(ref_count, 0)
      /\ next' = Moved(next, NULL)
      /\ prec' = Moved(prec, NULL)
      /\ holds' = [holds EXCEPT ![t] = Moved(holds[t], 0)]
      /\ call' = [call EXCEPT ![t] = step]
      /\ UNCHANGED <<open, used, first, last, status>>
  BY <1>k, <1>s, <1>m DEF Realloc, Marked, Goto
<1>2. /\ FieldTypes /\ ClosedInv /\ (\A x \in Block : BlockInv(x)) /\ (\A u \in Thread : CallInv(u))
      /\ Apart
  BY DEF CountInv
<1>3. step = [at |-> "relink", mem |-> b, ptr |-> c, n |-> n, to |-> NULL]
  BY ONLY <1>s, <1>k DEF Idle
<1>4. step \in Calls /\ step # Idle
  BY <1>3, MemAssumption DEF Calls, Steps, Sections, Pointer, Idle
<1>5. ASSUME NEW f \in [Block -> Nat]
      PROVE  /\ Moved(f, 0) \in [Block -> Nat]
             /\ \A x \in Block : Moved(f, 0)[x] = IF x = c THEN f[b] ELSE IF x = b THEN 0 ELSE f[x]
  BY DEF Moved
<1>6. ASSUME NEW f, LinkMapOf(Block, NULL, f)
      PROVE  /\ LinkMapOf(Block, NULL, Moved(f, NULL))
             /\ \A x \in Block : Moved(f, NULL)[x] = IF x = c THEN f[b]
                                                     ELSE IF x = b THEN NULL ELSE f[x]
  BY <1>6 DEF Moved, LinkMapOf
<1> HIDE DEF Moved
<1>7. /\ block_size' \in [Block -> Nat] /\ ref_count' \in [Block -> Nat]
      /\ \A x \in Block : block_size'[x] = IF x = c THEN block_size[b]
                                           ELSE IF x = b THEN 0 ELSE block_size[x]
      /\ \A x \in Block : ref_count'[x] = IF x = c THEN ref_count[b]
                                          ELSE IF x = b THEN 0 ELSE ref_count[x]
  BY <1>1, <1>2, <1>5 DEF FieldTypes
<1>8. /\ LinkMapOf(Block, NULL, next') /\ LinkMapOf(Block, NULL, prec')
      /\ \A x \in Block : next'[x] = IF x = c THEN next[b]
                                     ELSE IF x = b THEN NULL ELSE next[x]
      /\ \A x \in Block : prec'[x] = IF x = c THEN prec[b]
                                     ELSE IF x = b THEN NULL ELSE prec[x]
  BY <1>1, <1>2, <1>6 DEF FieldTypes
<1>9. /\ holds' \in [Thread -> [Block -> Nat]]
      /\ \A x \in Block : holds'[t][x] = IF x = c THEN holds[t][b]
                                         ELSE IF x = b THEN 0 ELSE holds[t][x]
      /\ \A u \in Thread : u # t => holds'[u] = holds[u]
  <2>1. holds[t] \in [Block -> Nat] /\ holds \in [Thread -> [Block -> Nat]]
    BY <1>2 DEF FieldTypes
  <2>2. PICK r : r = Moved(holds[t], 0)
    OBVIOUS
  <2>3. /\ r \in [Block -> Nat]
        /\ \A x \in Block : r[x] = IF x = c THEN holds[t][b] ELSE IF x = b THEN 0 ELSE holds[t][x]
    BY <1>5, <2>1, <2>2
  <2>4. holds' = [holds EXCEPT ![t] = r]
    BY <1>1, <2>2
  <2> QED
    BY <2>1, <2>3, <2>4
<1>10. ASSUME NEW x \in Block
       PROVE  HeldIn(holds', x) = HeldIn(holds, x) - holds[t][x] + holds'[t][x]
  <2>1. PICK g : g = holds'
    OBVIOUS
  <2>2. /\ \A u \in Thread \ {t} : g[u][x] = holds[u][x]
        /\ \A u \in Thread : holds[u][x] \in Nat /\ g[u][x] \in Nat
    BY <1>2, <1>9, <2>1 DEF FieldTypes
  <2>3. HeldIn(g, x) = HeldIn(holds, x) - holds[t][x] + g[t][x]
    BY ONLY <2>2, t \in Thread, HeldChanged, Z3
  <2> QED
    BY <2>1, <2>3
<1>11. \A x \in Block : /\ HeldIn(holds, x) \in Nat /\ holds[t][x] \in Nat
                        /\ holds[t][x] =< HeldIn(holds, x)
  BY <1>2, HeldType
<1>12. holds[t][b] = 1
  BY <1>h, <1>11
<1>13. ASSUME NEW x \in Block
       PROVE  HeldIn(holds', x) = IF x = c THEN 1 ELSE IF x = b THEN 0 ELSE HeldIn(holds, x)
  <2>1. CASE c = b
    BY <2>1, <1>9, <1>10, <1>11
  <2>2. CASE c # b /\ x = c
    <3>1. HeldIn(holds, c) = 0
      BY <2>2, <1>h, <1>2 DEF BlockInv
    <3>2. holds[t][c] = 0
      BY <3>1, <1>11
    <3> QED
      BY <2>2, <3>1, <3>2, <1>9, <1>10, <1>12
  <2>3. CASE c # b /\ x = b
    BY <2>3, <1>9, <1>10, <1>12
  <2>4. CASE x # b /\ x # c
    BY <2>4, <1>9, <1>10, <1>11
  <2> QED
    BY <2>1, <2>2, <2>3, <2>4
<1>14. ref_count[b] = 1
  BY <1>2 DEF BlockInv, Untouched
<1>15. /\ \A u \in Thread : call[u] = Idle
       /\ call'[t] = step
       /\ \A u \in Thread : u # t => call'[u] = Idle
  BY <1>1, <1>2 DEF Working, FieldTypes
<1>16. CallOk(step, heap', ref_count', holds')
  BY <1>1, <1>3, <1>7, <1>13, <1>14 DEF CallOk
<1>17. \A x \in Block : BlockInv(x)'
  <2> SUFFICES ASSUME NEW x \in Block PROVE BlockInv(x)'
    OBVIOUS
  <2>1. x \notin heap' => HeldIn(holds', x) = 0
    BY <1>1, <1>2, <1>13 DEF BlockInv
  <2>2. x = b => ~Untouched(x)'
    BY <1>3, <1>4, <1>15 DEF Untouched, Working
  <2>3. ref_count[x] = HeldIn(holds, x)
    BY <1>2, <1>15 DEF BlockInv, Untouched, Working
  <2>4. x # b => ref_count'[x] = HeldIn(holds', x)
    BY <2>3, <1>7, <1>13, <1>14
  <2> QED
    BY <2>1, <2>2, <2>4 DEF BlockInv
<1>18. \A u \in Thread : CallInv(u)'
  BY <1>15, <1>16, IdleCall DEF CallInv
<1>19. Apart'
  BY <1>15 DEF Apart
<1>20. FieldTypes'
  BY <1>1, <1>2, <1>4, <1>7, <1>8, <1>9 DEF FieldTypes
<1>21. CountInv'
  BY <1>1, <1>17, <1>18, <1>19, <1>20 DEF CountInv, ClosedInv
<1> QED
  BY <1>1, <1>3, <1>7, <1>8, <1>15, <1>21, <1>h, <1>m

LEMMA RelinkCounts ==
  ASSUME CountInv, NEW t \in Thread, Relink(t),
         NeighboursMarked(call[t].mem, prec[call[t].ptr], next[call[t].ptr])
  PROVE  CountInv'
<1>b. PICK b : b = call[t].mem
  OBVIOUS
<1>c. PICK c : c = call[t].ptr
  OBVIOUS
<1>0. call[t].at = "relink"
  BY DEF Relink
<1>1. /\ used' = used + call[t].n - block_size[c]
      /\ block_size' = [block_size EXCEPT ![c] = call[t].n]
      /\ Redirect(b, prec[c], next[c], c, c)
      /\ call' = [call EXCEPT ![t] = Idle]
      /\ UNCHANGED <<open, heap, ref_count, holds, status>>
  BY <1>b, <1>c DEF Relink, Return, Goto, InSection, UsedAfterRealloc
<1>2. /\ FieldTypes /\ ClosedInv /\ call[t] \in Calls /\ b \in Block /\ open
      /\ CallOk(call[t], heap, ref_count, holds) /\ call[t] # Idle
  BY <1>0, <1>b, CallAt DEF CountInv
<1>3. c \in heap /\ c \in Block /\ ref_count[b] = HeldIn(holds, b)
  BY <1>0, <1>2, <1>b, <1>c DEF CallOk, FieldTypes
<1>4. FieldTypes'
  <2>1. (b # first => prec[c] \in Block) /\ (b # last => next[c] \in Block)
    BY <1>2, <1>b, <1>c DEF NeighboursMarked, Marked, FieldTypes
  <2>2. c \in Pointer
    BY <1>3 DEF Pointer
  <2>3. /\ first' \in Pointer /\ last' \in Pointer
        /\ LinkMapOf(Block, NULL, next') /\ LinkMapOf(Block, NULL, prec')
    BY <1>1, <1>2, <2>1, <2>2, RedirectTypes
  <2>4. block_size[c] \in Nat /\ call[t].n \in Nat
    BY <1>2, <1>3 DEF FieldTypes, Calls
  <2>5. block_size' \in [Block -> Nat]
    BY <1>1, <1>2, <1>3, <2>4, FieldWritten DEF FieldTypes
  <2>6. call' \in [Thread -> Calls]
    BY <1>1, <1>2, IdleCall DEF FieldTypes
  <2> QED
    BY <1>1, <1>2, <2>3, <2>4, <2>5, <2>6 DEF FieldTypes
<1>5. \A u \in Thread : call'[u] = Idle
  <2>1. \A u \in Thread : u # t => call[u] = Idle
    BY <1>0, <1>2 DEF CountInv, Apart
  <2> QED
    BY <1>1, <1>2, <2>1 DEF FieldTypes
<1>6. ASSUME NEW x \in Block PROVE BlockInv(x)'
  <2>1. ref_count[x] = HeldIn(holds, x)
    <3>1. x # b => Untouched(x)
      BY <1>0, <1>2, <1>b DEF CountInv, Apart, Untouched, Working
    <3> QED
      BY <1>3, <3>1 DEF CountInv, BlockInv
  <2> QED
    BY <1>1, <2>1 DEF CountInv, BlockInv
<1>7. (\A u \in Thread : CallInv(u)') /\ Apart'
  BY <1>5, IdleCall DEF CallInv, Apart
<1> QED
  BY <1>1, <1>2, <1>4, <1>6, <1>7 DEF CountInv, ClosedInv

LEMMA OpenCounts ==
  ASSUME CountInv, Open
  PROVE  CountInv'
<1>1. /\ open' /\ open' \in BOOLEAN /\ used' = 0 /\ first' = NULL /\ last' = NULL
      /\ UNCHANGED <<heap, block_size, ref_count, next, prec, mutex, call, holds, status>>
  BY DEF Open
<1> QED
  BY <1>1 DEF CountInv, FieldTypes, Apart, ClosedInv, CallInv, BlockInv, Untouched, Working, Pointer

LEMMA EndCounts ==
  ASSUME CountInv, heap = {}, End, used = 0
  PROVE  CountInv'
<1>1. /\ open' = FALSE /\ \A u \in Thread : call[u] = Idle
      /\ UNCHANGED <<used, first, last, next, prec, heap, block_size, ref_count, call, holds, status>>
  BY DEF End, list
<1> QED
  BY <1>1 DEF CountInv, FieldTypes, Apart, ClosedInv, CallInv, BlockInv, Untouched, Working

-----------------------------------------------------------------------------
(***************************************************************************)
(* The list and the sums.                                                  *)
(***************************************************************************)
LEMMA LinkedIsIn == Linked = LinkedIn(heap, call)
BY DEF Linked, LinkedIn

LEMMA LinkedFinite ==
  ASSUME FieldTypes, NEW c
  PROVE  LinkedIn(heap, c) \subseteq Block /\ IsFiniteSet(LinkedIn(heap, c))
<1>1. LinkedIn(heap, c) \subseteq Block
  BY DEF FieldTypes, LinkedIn
<1> QED
  BY <1>1, FS_Subset, MemAssumption

\* One call's part in what is still to be counted.
LEMMA CountingChanged ==
  ASSUME NEW c \in [Thread -> Calls], NEW t \in Thread, NEW step \in Calls,
         NEW d, d = [c EXCEPT ![t] = step]
  PROVE  CountingIn(d) = CountingIn(c) - Counting(c[t]) + Counting(step)
<1>0. \A k \in Calls : Counting(k) \in Int
  BY DEF Counting, Calls
<1>1. PICK f : f = [u \in Thread |-> Counting(c[u])]
  OBVIOUS
<1>2. PICK e : e = [u \in Thread |-> Counting(d[u])]
  OBVIOUS
<1>3. /\ \A u \in Thread : f[u] \in Int
      /\ \A u \in Thread \ {t} : e[u] = f[u]
      /\ e[t] \in Int
      /\ f[t] = Counting(c[t]) /\ e[t] = Counting(step)
  <2>1. d[t] = step /\ \A u \in Thread : u # t => d[u] = c[u]
    OBVIOUS
  <2> QED
    BY <1>0, <1>1, <1>2, <2>1
<1>4. SumOf(e, Thread) = SumOf(f, Thread) - f[t] + e[t]
  BY ONLY <1>3, MemAssumption, t \in Thread, SumChanged, Z3
<1> QED
  BY <1>1, <1>2, <1>3, <1>4 DEF CountingIn

\* What a step of t, about block b, does to the linked blocks.
LEMMA Effect ==
  ASSUME CountInv, NEW t \in Thread, call[t].at # "relink",
         NEW step \in Calls, step.at # "relink", call' = [call EXCEPT ![t] = step],
         NEW b \in Block,
         call[t] # Idle => call[t].mem = b,
         call[t] = Idle => Untouched(b) /\ NoMove,
         step # Idle => step.mem = b,
         \A x \in Block : x # b => (x \in heap' <=> x \in heap)
  PROVE  /\ \A u \in Thread : call[u].at # "relink" /\ call'[u].at # "relink"
         /\ CountingIn(call') = CountingIn(call) - Counting(call[t]) + Counting(step)
         /\ CountingIn(call) \in Int
         /\ \A x \in Block : x # b => (x \in LinkedIn(heap', call') <=> x \in LinkedIn(heap, call))
         /\ b \in LinkedIn(heap, call) <=> b \in heap /\ call[t].at \notin {"link", "free"}
         /\ b \in LinkedIn(heap', call') <=> b \in heap' /\ step.at \notin {"link", "free"}
<1>1. FieldTypes /\ Apart
  BY DEF CountInv
<1>2. call'[t] = step /\ \A u \in Thread : u # t => call'[u] = call[u]
  BY <1>1 DEF FieldTypes
<1>3. \A u \in Thread : u # t /\ call[u] # Idle => call[u].mem # b /\ call[u].at # "relink"
  BY <1>1 DEF Apart, Untouched, Working, NoMove
<1>4. Idle.at = "idle"
  BY DEF Idle
<1>5. \A u \in Thread : call[u].at # "relink" /\ call'[u].at # "relink"
  BY <1>2, <1>3, <1>4
<1>6. CountingIn(call') = CountingIn(call) - Counting(call[t]) + Counting(step)
  BY <1>1, CountingChanged DEF FieldTypes
<1>7. CountingIn(call) \in Int
  <2>1. PICK f : f = [u \in Thread |-> Counting(call[u])]
    OBVIOUS
  <2>2. \A u \in Thread : f[u] \in Int
    BY <1>1, <2>1 DEF FieldTypes, Counting, Calls
  <2>3. SumOf(f, Thread) \in Int
    BY <2>2, SumInt, MemAssumption
  <2> QED
    BY <2>1, <2>3 DEF CountingIn
<1>8. ASSUME NEW x \in Block, x # b
      PROVE  x \in LinkedIn(heap', call') <=> x \in LinkedIn(heap, call)
  <2>1. ASSUME NEW u \in Thread
        PROVE  (call'[u].at \in {"link", "free"} => call'[u].mem # x)
                 <=> (call[u].at \in {"link", "free"} => call[u].mem # x)
    BY <1>2, <1>4, <1>8
  <2> QED
    BY <1>8, <2>1 DEF LinkedIn
<1>9. b \in LinkedIn(heap, call) <=> b \in heap /\ call[t].at \notin {"link", "free"}
  BY <1>3, <1>4 DEF LinkedIn
<1>10. b \in LinkedIn(heap', call') <=> b \in heap' /\ step.at \notin {"link", "free"}
  <2>1. \A u \in Thread : u # t /\ call'[u].at \in {"link", "free"} => call'[u].mem # b
    BY <1>2, <1>3, <1>4
  <2>2. step.at \in {"link", "free"} => step.mem = b
    BY <1>4
  <2> QED
    BY <1>2, <2>1, <2>2 DEF LinkedIn
<1> QED
  BY <1>5, <1>6, <1>7, <1>8, <1>9, <1>10

LEMMA SameBlocks ==
  ASSUME NEW A \in SUBSET Block, NEW B \in SUBSET Block, NEW b,
         \A x \in Block : x # b => (x \in A <=> x \in B), b \in A <=> b \in B
  PROVE  A = B
OBVIOUS

\* A step that leaves the list and the sums alone.
LEMMA RestKept ==
  ASSUME CountInv, ChainInv, SumInv,
         LinkedIn(heap', call') = LinkedIn(heap, call),
         CountingIn(call') = CountingIn(call),
         \A u \in Thread : call[u].at # "relink" /\ call'[u].at # "relink",
         UNCHANGED <<used, first, last, next, prec, block_size>>
  PROVE  ChainInv' /\ SumInv'
<1>1. SumInv'
  BY DEF SumInv
<1>2. NoMove /\ NoMove'
  BY DEF NoMove
<1>3. ChainInv'
  BY <1>2 DEF ChainInv
<1> QED
  BY <1>1, <1>3

LEMMA TakeRest ==
  ASSUME ChainInv, SumInv, NEW t \in Thread, Take(t)
  PROVE  ChainInv' /\ SumInv'
<1>1. UNCHANGED <<used, first, last, next, prec, heap, block_size, call>>
  BY DEF Take, list
<1> QED
  BY <1>1 DEF ChainInv, SumInv, NoMove

LEMMA MallocRest ==
  ASSUME CountInv, ChainInv, SumInv, NEW t \in Thread, NoMove,
         NEW b \in Block, NEW n \in BlockSizes, Malloc(t, b, n)
  PROVE  ChainInv' /\ SumInv'
<1>k. PICK k : k = Idle
  OBVIOUS
<1>0. PICK step : step = [k EXCEPT !.at = "link", !.mem = b, !.n = n]
  OBVIOUS
<1>1. /\ call[t] = Idle /\ b \notin heap
      /\ heap' = heap \cup {b} /\ call' = [call EXCEPT ![t] = step]
      /\ UNCHANGED <<used, first, last, next, prec, block_size>>
  BY <1>0, <1>k DEF Malloc, Goto, list
<1>2. step = [at |-> "link", mem |-> b, ptr |-> NULL, n |-> n, to |-> NULL]
  BY ONLY <1>0, <1>k DEF Idle
<1>3. step \in Calls /\ step # Idle /\ step.mem = b /\ step.at = "link"
  BY <1>2, MemAssumption DEF Calls, Steps, Sections, Pointer, Idle
<1>4. Untouched(b) /\ call[t].at = "idle"
  BY <1>1, FreeUntouched DEF Idle
<1>5. \A x \in Block : x # b => (x \in heap' <=> x \in heap)
  BY <1>1
<1>6. /\ \A u \in Thread : call[u].at # "relink" /\ call'[u].at # "relink"
      /\ CountingIn(call') = CountingIn(call) - Counting(call[t]) + Counting(step)
      /\ CountingIn(call) \in Int
      /\ \A x \in Block : x # b => (x \in LinkedIn(heap', call') <=> x \in LinkedIn(heap, call))
      /\ b \notin LinkedIn(heap, call) /\ b \notin LinkedIn(heap', call')
  <2>1. /\ call[t].at # "relink" /\ step.at # "relink"
        /\ call[t] # Idle => call[t].mem = b
        /\ call[t] = Idle => Untouched(b) /\ NoMove
        /\ step # Idle => step.mem = b
    BY <1>1, <1>3, <1>4
  <2>2. call' = [call EXCEPT ![t] = step]
    BY <1>1
  <2>3. step.at \in {"link", "free"}
    BY <1>3
  <2> QED
    BY <1>1, <1>3, <1>5, <2>1, <2>2, <2>3, Effect
<1>7. Counting(call[t]) = 0 /\ Counting(step) = 0
  BY <1>3, <1>4 DEF Counting
<1>8. LinkedIn(heap', call') \subseteq Block /\ LinkedIn(heap, call) \subseteq Block
  BY <1>1 DEF CountInv, FieldTypes, LinkedIn
<1>9. LinkedIn(heap', call') = LinkedIn(heap, call)
  BY <1>6, <1>8, SameBlocks
<1> QED
  BY <1>1, <1>6, <1>7, <1>9, RestKept

\* A step between two points of a call, or into one or out of one, that is
\* about a block that is linked and stays so.
LEMMA LinkedStepRest ==
  ASSUME CountInv, ChainInv, SumInv, NEW t \in Thread, NEW b \in Block, b \in heap,
         NEW step \in Calls, call' = [call EXCEPT ![t] = step],
         call[t].at \notin {"link", "count", "relink", "free"},
         step.at \notin {"link", "count", "relink", "free"},
         call[t] # Idle => call[t].mem = b,
         call[t] = Idle => Untouched(b) /\ NoMove,
         step # Idle => step.mem = b,
         UNCHANGED <<used, first, last, next, prec, heap, block_size>>
  PROVE  ChainInv' /\ SumInv'
<1>1. /\ \A u \in Thread : call[u].at # "relink" /\ call'[u].at # "relink"
      /\ CountingIn(call') = CountingIn(call) - Counting(call[t]) + Counting(step)
      /\ CountingIn(call) \in Int
      /\ \A x \in Block : x # b => (x \in LinkedIn(heap', call') <=> x \in LinkedIn(heap, call))
      /\ b \in LinkedIn(heap, call) /\ b \in LinkedIn(heap', call')
  <2>1. \A x \in Block : x # b => (x \in heap' <=> x \in heap)
    OBVIOUS
  <2>2. call[t].at # "relink" /\ step.at # "relink" /\ b \in heap'
    OBVIOUS
  <2> QED
    BY <2>1, <2>2, Effect
<1>2. Counting(call[t]) = 0 /\ Counting(step) = 0
  BY DEF Counting
<1>3. LinkedIn(heap', call') \subseteq Block /\ LinkedIn(heap, call) \subseteq Block
  BY DEF CountInv, FieldTypes, LinkedIn
<1>4. LinkedIn(heap', call') = LinkedIn(heap, call)
  BY <1>1, <1>3, SameBlocks
<1> QED
  BY <1>1, <1>2, <1>4, RestKept

LEMMA UnregisterRest ==
  ASSUME CountInv, ChainInv, SumInv, NoMove, NEW t \in Thread, NEW b \in Block,
         Untouched(b), Unregister(t, b)
  PROVE  ChainInv' /\ SumInv'
<1>k. PICK k : k = Idle
  OBVIOUS
<1>0. PICK step : step = [k EXCEPT !.at = "unref", !.mem = b, !.n = ref_count[b]]
  OBVIOUS
<1>m. b \in heap
  BY HeldIsMarked DEF Unregister, ReadCount
<1>1. /\ call[t] = Idle
      /\ call' = [call EXCEPT ![t] = step]
      /\ UNCHANGED <<used, first, last, next, prec, heap, block_size>>
  BY <1>0, <1>k, <1>m DEF Unregister, ReadCount, Marked, Goto, list
<1>2. step = [at |-> "unref", mem |-> b, ptr |-> NULL, n |-> ref_count[b], to |-> NULL]
  BY ONLY <1>0, <1>k DEF Idle
<1>3. ref_count[b] \in Nat
  BY DEF CountInv, FieldTypes
<1>4. /\ step \in Calls /\ step.mem = b /\ step.at \notin {"link", "count", "relink", "free"}
      /\ call[t].at \notin {"link", "count", "relink", "free"}
      /\ call[t] # Idle => call[t].mem = b
      /\ call[t] = Idle => Untouched(b) /\ NoMove
      /\ step # Idle => step.mem = b
  BY <1>1, <1>2, <1>3 DEF Calls, Steps, Sections, Pointer, Idle
<1> QED
  BY <1>1, <1>4, <1>m, LinkedStepRest

LEMMA RegisterRest ==
  ASSUME CountInv, ChainInv, SumInv, NoMove, NEW t \in Thread, NEW u \in Thread, NEW b \in Block,
         Untouched(b), Register(t, u, b)
  PROVE  ChainInv' /\ SumInv'
<1>k. PICK k : k = Idle
  OBVIOUS
<1>0. PICK step : step = [k EXCEPT !.at = "ref", !.mem = b, !.n = ref_count[b], !.to = u]
  OBVIOUS
<1>m. b \in heap
  BY HeldIsMarked DEF Register, ReadCount
<1>1. /\ call[t] = Idle
      /\ call' = [call EXCEPT ![t] = step]
      /\ UNCHANGED <<used, first, last, next, prec, heap, block_size>>
  BY <1>0, <1>k, <1>m DEF Register, ReadCount, Marked, Goto, list
<1>2. step = [at |-> "ref", mem |-> b, ptr |-> NULL, n |-> ref_count[b], to |-> u]
  BY ONLY <1>0, <1>k DEF Idle
<1>3. ref_count[b] \in Nat
  BY DEF CountInv, FieldTypes
<1>4. /\ step \in Calls /\ step.mem = b /\ step.at \notin {"link", "count", "relink", "free"}
      /\ call[t].at \notin {"link", "count", "relink", "free"}
      /\ call[t] # Idle => call[t].mem = b
      /\ call[t] = Idle => Untouched(b) /\ NoMove
      /\ step # Idle => step.mem = b
  BY <1>1, <1>2, <1>3 DEF Calls, Steps, Sections, Pointer, Idle
<1> QED
  BY <1>1, <1>4, <1>m, LinkedStepRest

LEMMA RefRest ==
  ASSUME CountInv, ChainInv, SumInv, NEW t \in Thread, Ref(t)
  PROVE  ChainInv' /\ SumInv'
<1>b. PICK b : b = call[t].mem
  OBVIOUS
<1>0. call[t].at = "ref"
  BY DEF Ref
<1>1. b \in Block /\ CallOk(call[t], heap, ref_count, holds) /\ call[t] # Idle
  BY <1>0, <1>b, CallAt
<1>2. b \in heap
  BY <1>0, <1>1, <1>b DEF CallOk
<1>3. /\ call' = [call EXCEPT ![t] = Idle]
      /\ UNCHANGED <<used, first, last, next, prec, heap, block_size>>
  BY DEF Ref, Return, Goto, list
<1>4. /\ Idle \in Calls /\ Idle.at \notin {"link", "count", "relink", "free"}
      /\ call[t].at \notin {"link", "count", "relink", "free"}
      /\ call[t] # Idle => call[t].mem = b
      /\ call[t] = Idle => Untouched(b) /\ NoMove
  BY <1>0, <1>1, <1>b DEF Idle, Calls, Steps, Pointer
<1> QED
  BY <1>1, <1>2, <1>3, <1>4, LinkedStepRest

LEMMA UnrefRest ==
  ASSUME CountInv, ChainInv, SumInv, NEW t \in Thread, Unref(t)
  PROVE  ChainInv' /\ SumInv'
<1>b. PICK b : b = call[t].mem
  OBVIOUS
<1>n. PICK n : n = call[t].n
  OBVIOUS
<1>k. PICK k : k = Idle
  OBVIOUS
<1>s. PICK step : step = IF n = 1 THEN [k EXCEPT !.at = "unlink", !.mem = b] ELSE Idle
  OBVIOUS
<1>0. call[t].at = "unref"
  BY DEF Unref
<1>1. b \in Block /\ CallOk(call[t], heap, ref_count, holds) /\ call[t] # Idle
  BY <1>0, <1>b, CallAt
<1>2. b \in heap
  BY <1>0, <1>1, <1>b DEF CallOk
<1>3. /\ call' = [call EXCEPT ![t] = step]
      /\ UNCHANGED <<used, first, last, next, prec, heap, block_size>>
  BY <1>b, <1>n, <1>k, <1>s DEF Unref, Return, Goto, list, IsLast
<1>4. /\ step \in Calls /\ step.at \notin {"link", "count", "relink", "free"}
      /\ step # Idle => step.mem = b
  <2>1. CASE n = 1
    <3>1. step = [k EXCEPT !.at = "unlink", !.mem = b]
      BY <2>1, <1>s
    <3>2. step = [at |-> "unlink", mem |-> b, ptr |-> NULL, n |-> 0, to |-> NULL]
      BY ONLY <3>1, <1>k DEF Idle
    <3> QED
      BY <3>2, <1>1 DEF Calls, Steps, Sections, Pointer
  <2>2. CASE n # 1
    BY <2>2, <1>s DEF Idle, Calls, Steps, Pointer
  <2> QED
    BY <2>1, <2>2
<1>5. /\ call[t].at \notin {"link", "count", "relink", "free"}
      /\ call[t] # Idle => call[t].mem = b
      /\ call[t] = Idle => Untouched(b) /\ NoMove
  BY <1>0, <1>1, <1>b
<1> QED
  BY <1>1, <1>2, <1>3, <1>4, <1>5, LinkedStepRest

LEMMA CountRest ==
  ASSUME CountInv, ChainInv, SumInv, NEW t \in Thread, Count(t)
  PROVE  ChainInv' /\ SumInv'
<1>b. PICK b : b = call[t].mem
  OBVIOUS
<1>s. PICK step : step = Idle
  OBVIOUS
<1>1. /\ call[t].at = "count"
      /\ used' = used + call[t].n
      /\ call' = [call EXCEPT ![t] = step]
      /\ UNCHANGED <<first, last, next, prec, heap, block_size>>
  BY <1>s DEF Count, InSection, Return, Goto, UsedAfterCount, list
<1>2. /\ b \in Block /\ CallOk(call[t], heap, ref_count, holds) /\ call[t] # Idle
      /\ call[t] \in Calls
  BY <1>1, <1>b, CallAt
<1>3. b \in heap
  BY <1>1, <1>2, <1>b DEF CallOk
<1>4. /\ \A u \in Thread : call[u].at # "relink" /\ call'[u].at # "relink"
      /\ CountingIn(call') = CountingIn(call) - Counting(call[t]) + Counting(step)
      /\ CountingIn(call) \in Int
      /\ \A x \in Block : x # b => (x \in LinkedIn(heap', call') <=> x \in LinkedIn(heap, call))
      /\ b \in LinkedIn(heap, call) /\ b \in LinkedIn(heap', call')
  <2>1. \A x \in Block : x # b => (x \in heap' <=> x \in heap)
    BY <1>1
  <2>2. /\ call[t].at # "relink" /\ call[t].at \notin {"link", "free"}
        /\ step.at # "relink" /\ step.at \notin {"link", "free"} /\ b \in heap'
        /\ call[t] # Idle => call[t].mem = b
        /\ call[t] = Idle => Untouched(b) /\ NoMove
    BY <1>1, <1>2, <1>3, <1>b, <1>s DEF Idle
  <2>3. call' = [call EXCEPT ![t] = step]
    BY <1>1
  <2>4. step \in Calls /\ (step # Idle => step.mem = b)
    BY <1>s, IdleCall
  <2>5. CountInv /\ t \in Thread /\ b \in Block /\ b \in heap
    BY <1>2, <1>3
  <2>6. /\ \A u \in Thread : call[u].at # "relink" /\ call'[u].at # "relink"
        /\ CountingIn(call') = CountingIn(call) - Counting(call[t]) + Counting(step)
        /\ CountingIn(call) \in Int
        /\ \A x \in Block : x # b => (x \in LinkedIn(heap', call') <=> x \in LinkedIn(heap, call))
        /\ b \in LinkedIn(heap, call) <=> b \in heap /\ call[t].at \notin {"link", "free"}
        /\ b \in LinkedIn(heap', call') <=> b \in heap' /\ step.at \notin {"link", "free"}
    BY ONLY <2>1, <2>2, <2>3, <2>4, <2>5, Effect
  <2> QED
    BY <1>3, <2>2, <2>6
<1>5. Counting(call[t]) = call[t].n /\ Counting(step) = 0 /\ call[t].n \in Int /\ used \in Int
  BY <1>1, <1>2, <1>s DEF Counting, Idle, CountInv, FieldTypes, Calls
<1>6. LinkedIn(heap', call') \subseteq Block /\ LinkedIn(heap, call) \subseteq Block
  BY <1>1 DEF CountInv, FieldTypes, LinkedIn
<1>7. LinkedIn(heap', call') = LinkedIn(heap, call)
  BY <1>4, <1>6, SameBlocks
<1>8. used' + CountingIn(call') = used + CountingIn(call)
  BY <1>1, <1>4, <1>5
<1>9. SumInv'
  BY <1>1, <1>7, <1>8 DEF SumInv
<1>10. NoMove /\ NoMove'
  BY <1>4 DEF NoMove
<1>11. ChainInv'
  BY <1>1, <1>4, <1>7, <1>10 DEF ChainInv
<1> QED
  BY <1>9, <1>11

LEMMA EndRest ==
  ASSUME ChainInv, SumInv, End, used = 0
  PROVE  ChainInv' /\ SumInv'
<1>1. UNCHANGED <<used, first, last, next, prec, heap, block_size, call>>
  BY DEF End, list
<1> QED
  BY <1>1 DEF ChainInv, SumInv, NoMove

\* The empty list, and what is to be counted when there is no call.
LEMMA SpellsNone ==
  ASSUME NEW nx, LinkMapOf(Block, NULL, nx), NEW pv, LinkMapOf(Block, NULL, pv)
  PROVE  /\ <<>> \in Seq(Block) /\ Range(<<>>) = {}
         /\ Spells(Block, NULL, <<>>, NULL, NULL, nx, pv)
<1>1. Range(<<>>) = {}
  BY DEF Range
<1>2. NoRepeat(<<>>)
  BY DEF NoRepeat
<1>3. EntryOf(NULL, <<>>, 1) = NULL /\ EntryOf(NULL, <<>>, Len(<<>>)) = NULL
  BY DEF EntryOf
<1> QED
  BY <1>1, <1>2, <1>3 DEF Spells

LEMMA CountingNone ==
  ASSUME NEW c, \A t \in Thread : Counting(c[t]) = 0
  PROVE  CountingIn(c) = 0
<1>1. PICK f : f = [u \in Thread |-> Counting(c[u])]
  OBVIOUS
<1>2. \A u \in Thread : f[u] = 0
  BY <1>1
<1>3. SumOf(f, Thread) = 0
  BY <1>2, SumZero, MemAssumption
<1> QED
  BY <1>1, <1>3 DEF CountingIn

LEMMA NothingToCount ==
  ASSUME NEW c, \A t \in Thread : c[t] = Idle
  PROVE  LinkedIn({}, c) = {} /\ CountingIn(c) = 0
<1>1. LinkedIn({}, c) = {}
  BY DEF LinkedIn
<1>2. \A t \in Thread : Counting(c[t]) = 0
  BY DEF Idle, Counting
<1>3. CountingIn(c) = 0
  BY <1>2, CountingNone
<1> QED
  BY <1>1, <1>3

LEMMA OpenRest ==
  ASSUME CountInv, Open
  PROVE  ChainInv' /\ SumInv'
<1>1. /\ ~open /\ used' = 0 /\ first' = NULL /\ last' = NULL
      /\ UNCHANGED <<heap, call, next, prec>>
  BY DEF Open
<1>2. heap' = {} /\ \A t \in Thread : call'[t] = Idle
  BY <1>1 DEF CountInv, ClosedInv, Working
<1>3. LinkMapOf(Block, NULL, next') /\ LinkMapOf(Block, NULL, prec')
  BY <1>1 DEF CountInv, FieldTypes
<1>4. LinkedIn(heap', call') = {} /\ CountingIn(call') = 0
  BY <1>2, NothingToCount
<1>5. \A t \in Thread : call'[t].at # "relink"
  BY <1>2 DEF Idle
<1>6. ChainInv'
  BY <1>1, <1>3, <1>4, <1>5, SpellsNone DEF ChainInv
<1>7. SumOf(block_size', {}) = 0
  BY SumEmpty
<1> QED
  BY <1>1, <1>4, <1>6, <1>7 DEF SumInv

\* What stands beside an element of the list.
LEMMA Beside ==
  ASSUME NEW s, NEW f, NEW l, NEW nx, NEW pv, Spells(Block, NULL, s, f, l, nx, pv),
         NEW i \in 1 .. Len(s)
  PROVE  /\ s[i] \in Block
         /\ nx[s[i]] \in Pointer /\ pv[s[i]] \in Pointer
         /\ s[i] = f <=> pv[s[i]] = NULL
         /\ s[i] = l <=> nx[s[i]] = NULL
         /\ pv[s[i]] # NULL => pv[s[i]] \in Range(s) /\ pv[s[i]] # s[i]
         /\ nx[s[i]] # NULL => nx[s[i]] \in Range(s) /\ nx[s[i]] # s[i]
<1>1. /\ s \in Seq(Block) /\ NoRepeat(s) /\ Len(s) \in Nat
      /\ f = EntryOf(NULL, s, 1) /\ l = EntryOf(NULL, s, Len(s))
      /\ nx[s[i]] = EntryOf(NULL, s, i + 1) /\ pv[s[i]] = EntryOf(NULL, s, i - 1)
  BY DEF Spells
<1>2. /\ i \in Nat /\ 1 =< i /\ i =< Len(s)
      /\ 1 \in 1 .. Len(s) /\ Len(s) \in 1 .. Len(s)
  BY <1>1
<1>3. \A j \in 1 .. Len(s) : s[j] \in Block /\ s[j] # NULL /\ s[j] \in Range(s)
  BY <1>1, RangeOf, MemAssumption
<1>4. f = s[1] /\ l = s[Len(s)]
  BY <1>1, <1>2 DEF EntryOf
<1>5. (s[i] = f <=> i = 1) /\ (s[i] = l <=> i = Len(s))
  BY <1>1, <1>2, <1>4 DEF NoRepeat
<1>7. ASSUME i # 1 PROVE pv[s[i]] \in Range(s) /\ pv[s[i]] # NULL /\ pv[s[i]] # s[i] /\ pv[s[i]] \in Block
  <2>1. i - 1 \in 1 .. Len(s) /\ i - 1 # i
    BY <1>2, <1>7
  <2>2. pv[s[i]] = s[i - 1]
    BY <1>1, <2>1 DEF EntryOf
  <2> QED
    BY <1>1, <1>3, <2>1, <2>2 DEF NoRepeat
<1>8. i = Len(s) => nx[s[i]] = NULL
  BY <1>1, <1>2 DEF EntryOf
<1>9. ASSUME i # Len(s) PROVE nx[s[i]] \in Range(s) /\ nx[s[i]] # NULL /\ nx[s[i]] # s[i] /\ nx[s[i]] \in Block
  <2>1. i + 1 \in 1 .. Len(s) /\ i + 1 # i
    BY <1>2, <1>9
  <2>2. nx[s[i]] = s[i + 1]
    BY <1>1, <2>1 DEF EntryOf
  <2> QED
    BY <1>1, <1>3, <2>1, <2>2 DEF NoRepeat
<1>10. i = 1 => pv[s[i]] = NULL
  BY <1>1 DEF EntryOf
<1> QED
  BY <1>3, <1>5, <1>7, <1>8, <1>9, <1>10 DEF Pointer

\* The ends of the list.
LEMMA Ends ==
  ASSUME NEW s, NEW f, NEW l, NEW nx, NEW pv, Spells(Block, NULL, s, f, l, nx, pv)
  PROVE  /\ f = NULL <=> l = NULL
         /\ l # NULL => l \in Range(s)
<1>1. /\ s \in Seq(Block) /\ Len(s) \in Nat
      /\ f = EntryOf(NULL, s, 1) /\ l = EntryOf(NULL, s, Len(s))
  BY DEF Spells
<1>2. \A j \in 1 .. Len(s) : s[j] \in Block /\ s[j] # NULL /\ s[j] \in Range(s)
  BY <1>1, RangeOf, MemAssumption
<1>3. CASE Len(s) = 0
  BY <1>1, <1>3 DEF EntryOf
<1>4. CASE Len(s) # 0
  <2>1. 1 \in 1 .. Len(s) /\ Len(s) \in 1 .. Len(s)
    BY <1>1, <1>4
  <2>2. f = s[1] /\ l = s[Len(s)]
    BY <1>1, <2>1 DEF EntryOf
  <2> QED
    BY <1>2, <2>1, <2>2
<1> QED
  BY <1>3, <1>4

\* A call at a step that links or unlinks: its block, and the others.
LEMMA LinkRest ==
  ASSUME CountInv, ChainInv, SumInv, NEW t \in Thread, Link(t)
  PROVE  ChainInv' /\ SumInv'
<1>k. PICK k : k = call[t]
  OBVIOUS
<1>b. PICK b : b = call[t].mem
  OBVIOUS
<1>0. PICK step : step = [k EXCEPT !.at = "count"]
  OBVIOUS
<1>1. /\ call[t].at = "link"
      /\ first' = IF first = NULL THEN b ELSE first
      /\ next' = [Write(next, IF first = NULL THEN NULL ELSE last, b) EXCEPT ![b] = NULL]
      /\ prec' = [prec EXCEPT ![b] = last]
      /\ last' = b
      /\ block_size' = [block_size EXCEPT ![b] = k.n]
      /\ call' = [call EXCEPT ![t] = step]
      /\ UNCHANGED <<used, heap>>
  BY <1>0, <1>k, <1>b DEF Link, InSection, Goto
<1>2. /\ FieldTypes /\ call[t] \in Calls /\ k \in Calls /\ b \in Block
      /\ CallOk(call[t], heap, ref_count, holds) /\ call[t] # Idle
  BY <1>1, <1>b, <1>k, CallAt DEF CountInv
<1>3. /\ step \in Calls /\ step.at = "count" /\ step.mem = b /\ step.n = k.n
  BY <1>0, <1>2, <1>b, <1>k, CallWith DEF Steps, Sections
<1>4. b \in heap
  BY <1>1, <1>2, <1>b DEF CallOk
<1>5. /\ \A u \in Thread : call[u].at # "relink" /\ call'[u].at # "relink"
      /\ CountingIn(call') = CountingIn(call) - Counting(call[t]) + Counting(step)
      /\ CountingIn(call) \in Int
      /\ \A x \in Block : x # b => (x \in LinkedIn(heap', call') <=> x \in LinkedIn(heap, call))
      /\ b \in LinkedIn(heap, call) <=> b \in heap /\ call[t].at \notin {"link", "free"}
      /\ b \in LinkedIn(heap', call') <=> b \in heap' /\ step.at \notin {"link", "free"}
  <2>1. \A x \in Block : x # b => (x \in heap' <=> x \in heap)
    BY <1>1
  <2>2. /\ call[t].at # "relink" /\ step.at # "relink"
        /\ call[t] # Idle => call[t].mem = b
        /\ call[t] = Idle => Untouched(b) /\ NoMove
        /\ step # Idle => step.mem = b
    BY <1>1, <1>2, <1>3, <1>b
  <2>3. call' = [call EXCEPT ![t] = step]
    BY <1>1
  <2>4. CountInv /\ t \in Thread /\ b \in Block /\ step \in Calls
    BY <1>2, <1>3
  <2> QED
    BY ONLY <2>1, <2>2, <2>3, <2>4, Effect
<1> DEFINE L == LinkedIn(heap, call)
           M == LinkedIn(heap', call')
<1>6. /\ M \subseteq Block /\ L \subseteq Block /\ IsFiniteSet(L)
      /\ L \subseteq heap
  BY <1>1, <1>2, LinkedFinite DEF FieldTypes, LinkedIn
<1>7. b \notin L /\ b \in M /\ \A x \in Block : x # b => (x \in M <=> x \in L)
  BY <1>1, <1>3, <1>4, <1>5
<1> HIDE DEF L, M
<1>8. M = L \cup {b}
  BY <1>2, <1>6, <1>7
<1>9. NoMove /\ NoMove'
  BY <1>5 DEF NoMove
<1>10. PICK s \in Seq(Block) : Range(s) = L /\ Spells(Block, NULL, s, first, last, next, prec)
  BY <1>9 DEF ChainInv, L
<1>11. (first = NULL <=> last = NULL) /\ (last # NULL => last \in L)
  BY <1>10, Ends
<1>12. LinkMapOf(Block, NULL, next') /\ LinkMapOf(Block, NULL, prec')
  BY LinkCounts DEF CountInv, FieldTypes
<1>13. /\ next'[b] = NULL
       /\ \A x \in Block : x # b => next'[x] = IF x = last THEN b ELSE next[x]
  <2>1. /\ Write(next, IF first = NULL THEN NULL ELSE last, b) \in [Block -> Pointer]
        /\ \A x \in Block : Write(next, IF first = NULL THEN NULL ELSE last, b)[x]
                              = IF x = last THEN b ELSE next[x]
    <3>1. NULL \notin Block /\ heap \subseteq Block /\ next \in [Block -> Pointer]
      BY <1>2, MemAssumption DEF FieldTypes, LinkMapOf, Pointer
    <3>2. CASE last = NULL
      BY <3>1, <3>2, <1>11 DEF Write
    <3>3. CASE last # NULL
      BY <3>1, <3>3, <1>2, <1>6, <1>11 DEF Write, Pointer
    <3> QED
      BY <3>2, <3>3
  <2> QED
    BY <1>1, <1>2, <2>1
<1>14. \A x \in Block : prec'[x] = IF x = b THEN last ELSE prec[x]
  BY <1>1, <1>2 DEF FieldTypes, LinkMapOf
<1>15. Spells(Block, NULL, Append(s, b), IF last = NULL THEN b ELSE first, b, next', prec')
  <2>1. b \notin Range(s) /\ NULL \notin Block
    BY <1>7, <1>10, MemAssumption
  <2> QED
    BY <1>2, <1>10, <1>12, <1>13, <1>14, <2>1, SpellsPushed
<1>16. Append(s, b) \in Seq(Block) /\ Range(Append(s, b)) = M
  <2>1. NoRepeat(s) /\ b \notin Range(s)
    BY <1>7, <1>10 DEF Spells
  <2> QED
    BY <1>2, <1>8, <1>10, <2>1, AppendExact
<1>17. Spells(Block, NULL, Append(s, b), first', last', next', prec')
  BY <1>1, <1>11, <1>15
<1>18. ChainInv'
  BY <1>5, <1>9, <1>16, <1>17 DEF ChainInv, M
<1>19. SumOf(block_size', M) = k.n + SumOf(block_size, L)
  <2>1. /\ block_size' \in [Block -> Int] /\ block_size'[b] = k.n /\ k.n \in Int
        /\ \A x \in Block : x # b => block_size'[x] = block_size[x]
    BY <1>1, <1>2 DEF FieldTypes, Calls
  <2>2. /\ \A x \in L : block_size'[x] \in Int
        /\ \A x \in L : block_size'[x] = block_size[x]
    BY <1>6, <1>7, <2>1
  <2>3. SumOf(block_size', L \cup {b}) = block_size'[b] + SumOf(block_size', L)
    BY <1>6, <1>7, <2>1, <2>2, SumWith
  <2>4. SumOf(block_size', L) = SumOf(block_size, L)
    BY <1>6, <2>2, SumSame
  <2> QED
    BY <1>8, <2>1, <2>3, <2>4
<1>20. CountingIn(call') = CountingIn(call) + k.n
  BY <1>1, <1>2, <1>3, <1>5 DEF Counting, Calls
<1>21. used \in Int /\ k.n \in Int
  BY <1>2 DEF FieldTypes, Calls
<1>22. used + CountingIn(call) = SumOf(block_size, L)
  BY DEF SumInv, L
<1>23. SumInv'
  <2>1. used' + CountingIn(call') = SumOf(block_size', M)
    BY <1>1, <1>5, <1>19, <1>20, <1>21, <1>22
  <2> QED
    BY <2>1 DEF SumInv, M
<1> QED
  BY <1>18, <1>23

\* No call moves a block while t is in another call.
LEMMA NoMoveBeside ==
  ASSUME CountInv, NEW t \in Thread, call[t] # Idle, call[t].at # "relink"
  PROVE  NoMove
<1>1. Idle.at # "relink"
  BY DEF Idle
<1> QED
  BY <1>1 DEF CountInv, Apart, NoMove

\* The block that is to be unlinked has its place in the list.
LEMMA UnlinkPlace ==
  ASSUME CountInv, ChainInv, NEW t \in Thread, call[t].at = "unlink"
  PROVE  /\ call[t].mem \in Block /\ call[t].mem \in LinkedIn(heap, call)
         /\ \E s \in Seq(Block) : \E i \in 1 .. Len(s) :
              /\ Range(s) = LinkedIn(heap, call) /\ call[t].mem = s[i]
              /\ Spells(Block, NULL, s, first, last, next, prec)
<1>b. PICK b : b = call[t].mem
  OBVIOUS
<1>1. /\ FieldTypes /\ Apart /\ b \in Block /\ CallOk(call[t], heap, ref_count, holds)
      /\ call[t] # Idle
  BY <1>b, CallAt DEF CountInv
<1>2. b \in heap
  BY <1>1, <1>b DEF CallOk
<1>3. b \in LinkedIn(heap, call)
  <2>1. Idle.at \notin {"link", "free"}
    BY DEF Idle
  <2>2. \A u \in Thread : call[u].at \in {"link", "free"} => u # t /\ call[u] # Idle
    BY <2>1
  <2>3. \A u \in Thread : call[u].at \in {"link", "free"} => call[u].mem # b
    BY <1>1, <1>b, <2>2 DEF Apart
  <2> QED
    BY <1>2, <2>3 DEF LinkedIn
<1>4. NoMove
  BY <1>1, NoMoveBeside
<1>5. PICK s \in Seq(Block) : /\ Range(s) = LinkedIn(heap, call)
                              /\ Spells(Block, NULL, s, first, last, next, prec)
  BY <1>4 DEF ChainInv
<1>6. PICK i \in 1 .. Len(s) : b = s[i]
  BY <1>3, <1>5, RangeOf
<1> QED
  BY <1>1, <1>3, <1>5, <1>6, <1>b

\* The asserts of lines 168 and 175.
LEMMA UnlinkMarks ==
  ASSUME CountInv, ChainInv, NEW t \in Thread, call[t].at = "unlink"
  PROVE  NeighboursMarked(call[t].mem, prec[call[t].mem], next[call[t].mem])
<1>b. PICK b : b = call[t].mem
  OBVIOUS
<1>0. PICK s \in Seq(Block) :
        /\ Range(s) = LinkedIn(heap, call) /\ \E i \in 1 .. Len(s) : b = s[i]
        /\ Spells(Block, NULL, s, first, last, next, prec)
  BY <1>b, UnlinkPlace
<1>1. PICK i \in 1 .. Len(s) : b = s[i]
  BY <1>0
<1>2. /\ s[i] = first <=> prec[s[i]] = NULL
      /\ s[i] = last <=> next[s[i]] = NULL
      /\ prec[s[i]] # NULL => prec[s[i]] \in Range(s)
      /\ next[s[i]] # NULL => next[s[i]] \in Range(s)
  BY <1>0, Beside
<1> QED
  BY <1>0, <1>1, <1>2, <1>b DEF NeighboursMarked, Marked, LinkedIn

LEMMA UnlinkRest ==
  ASSUME CountInv, ChainInv, SumInv, NEW t \in Thread, Unlink(t)
  PROVE  ChainInv' /\ SumInv'
<1>b. PICK b : b = call[t].mem
  OBVIOUS
<1>k. PICK k : k = call[t]
  OBVIOUS
<1>s. PICK step : step = [k EXCEPT !.at = "free"]
  OBVIOUS
<1>0. call[t].at = "unlink"
  BY DEF Unlink
<1>m. NeighboursMarked(call[t].mem, prec[call[t].mem], next[call[t].mem])
  BY <1>0, UnlinkMarks
<1>1. /\ used' = used - block_size[b]
      /\ Redirect(b, prec[b], next[b], next[b], prec[b])
      /\ call' = [call EXCEPT ![t] = step]
      /\ UNCHANGED <<heap, block_size>>
  BY <1>m, <1>b, <1>k, <1>s DEF Unlink, Goto, InSection
<1>2. /\ FieldTypes /\ call[t] \in Calls /\ k \in Calls /\ b \in Block
      /\ CallOk(call[t], heap, ref_count, holds) /\ call[t] # Idle
  BY <1>0, <1>b, <1>k, CallAt DEF CountInv
<1>3. /\ step \in Calls /\ step.at = "free" /\ step.mem = b /\ step # Idle
  BY <1>s, <1>2, <1>b, <1>k, CallWith DEF Idle, Steps, Sections
<1>4. b \in heap
  BY <1>0, <1>2, <1>b DEF CallOk
<1>5. /\ \A u \in Thread : call[u].at # "relink" /\ call'[u].at # "relink"
      /\ CountingIn(call') = CountingIn(call) - Counting(call[t]) + Counting(step)
      /\ CountingIn(call) \in Int
      /\ \A x \in Block : x # b => (x \in LinkedIn(heap', call') <=> x \in LinkedIn(heap, call))
      /\ b \in LinkedIn(heap, call) <=> b \in heap /\ call[t].at \notin {"link", "free"}
      /\ b \in LinkedIn(heap', call') <=> b \in heap' /\ step.at \notin {"link", "free"}
  <2>1. \A x \in Block : x # b => (x \in heap' <=> x \in heap)
    BY <1>1
  <2>2. /\ call[t].at # "relink" /\ step.at # "relink"
        /\ call[t] # Idle => call[t].mem = b
        /\ call[t] = Idle => Untouched(b) /\ NoMove
        /\ step # Idle => step.mem = b
    BY <1>0, <1>2, <1>3, <1>b
  <2>3. call' = [call EXCEPT ![t] = step]
    BY <1>1
  <2>4. CountInv /\ t \in Thread /\ b \in Block /\ step \in Calls
    BY <1>2, <1>3
  <2> QED
    BY ONLY <2>1, <2>2, <2>3, <2>4, Effect
<1> DEFINE L == LinkedIn(heap, call)
           M == LinkedIn(heap', call')
<1>6. /\ M \subseteq Block /\ L \subseteq Block /\ IsFiniteSet(L)
  BY <1>1, <1>2, LinkedFinite DEF FieldTypes, LinkedIn
<1>7. b \in L /\ b \notin M /\ \A x \in Block : x # b => (x \in M <=> x \in L)
  BY <1>0, <1>1, <1>3, <1>4, <1>5
<1> HIDE DEF L, M
<1>8. M = L \ {b}
  BY <1>2, <1>6, <1>7
<1>9. NoMove /\ NoMove'
  BY <1>5 DEF NoMove
<1>p. PICK s \in Seq(Block) :
        /\ Range(s) = L /\ \E i \in 1 .. Len(s) : b = s[i]
        /\ Spells(Block, NULL, s, first, last, next, prec)
  BY <1>0, <1>b, UnlinkPlace DEF L
<1>q. PICK i \in 1 .. Len(s) : b = s[i]
  BY <1>p
<1>10. /\ Range(s) = L /\ b = s[i]
       /\ Spells(Block, NULL, s, first, last, next, prec)
  BY <1>p, <1>q
<1>11. /\ s[i] \in Block
       /\ next[s[i]] \in Pointer /\ prec[s[i]] \in Pointer
       /\ s[i] = first <=> prec[s[i]] = NULL
       /\ s[i] = last <=> next[s[i]] = NULL
       /\ prec[s[i]] # NULL => prec[s[i]] \in Range(s) /\ prec[s[i]] # s[i]
       /\ next[s[i]] # NULL => next[s[i]] \in Range(s) /\ next[s[i]] # s[i]
  BY <1>10, Beside
<1>12. LinkMapOf(Block, NULL, next') /\ LinkMapOf(Block, NULL, prec')
  BY <1>m, UnlinkCounts DEF CountInv, FieldTypes
<1>13. \A x \in Block : x # s[i] => next'[x] = IF x = prec[s[i]] THEN next[s[i]] ELSE next[x]
  BY <1>1, <1>2, <1>6, <1>10, <1>11, MemAssumption DEF Redirect, FieldTypes, LinkMapOf
<1>14. \A x \in Block : x # s[i] => prec'[x] = IF x = next[s[i]] THEN prec[s[i]] ELSE prec[x]
  BY <1>1, <1>2, <1>6, <1>10, <1>11, MemAssumption DEF Redirect, FieldTypes, LinkMapOf
<1>15. Spells(Block, NULL, RemoveAt(s, i), IF prec[s[i]] = NULL THEN next[s[i]] ELSE first,
              IF next[s[i]] = NULL THEN prec[s[i]] ELSE last, next', prec')
  BY <1>10, <1>12, <1>13, <1>14, MemAssumption, SpellsRemoved
<1>16. /\ first' = IF prec[s[i]] = NULL THEN next[s[i]] ELSE first
       /\ last' = IF next[s[i]] = NULL THEN prec[s[i]] ELSE last
  BY <1>1, <1>10, <1>11 DEF Redirect
<1>17. RemoveAt(s, i) \in Seq(Block) /\ Range(RemoveAt(s, i)) = M
  <2>1. NoRepeat(s)
    BY <1>10 DEF Spells
  <2>2. RemoveAt(s, i) \in Seq(Block)
    BY <1>10, RemoveAtExact
  <2>3. Range(RemoveAt(s, i)) = Range(s) \ {s[i]}
    BY <1>10, <2>1, RemoveOld
  <2> QED
    BY <1>8, <1>10, <2>2, <2>3
<1>18. ChainInv'
  <2>1. Spells(Block, NULL, RemoveAt(s, i), first', last', next', prec')
    BY <1>15, <1>16
  <2> QED
    BY <1>5, <1>17, <2>1 DEF ChainInv, M
<1>19. SumOf(block_size, L) = block_size[b] + SumOf(block_size, M) /\ SumOf(block_size, M) \in Int
  <2>1. \A x \in L : block_size[x] \in Int
    BY <1>2, <1>6 DEF FieldTypes
  <2> QED
    BY <1>6, <1>7, <1>8, <2>1, SumStep
<1>20. Counting(call[t]) = 0 /\ Counting(step) = 0
  BY <1>0, <1>3 DEF Counting
<1>21. used \in Int /\ block_size[b] \in Int
  BY <1>2 DEF FieldTypes
<1>22. used + CountingIn(call) = SumOf(block_size, L)
  BY DEF SumInv, L
<1>23. SumInv'
  <2>1. used' + CountingIn(call') = SumOf(block_size', M)
    BY <1>1, <1>5, <1>19, <1>20, <1>21, <1>22
  <2> QED
    BY <2>1 DEF SumInv, M
<1> QED
  BY <1>18, <1>23

\* What is written in a block that is not linked is no part of the list.
LEMMA SpellsBeside ==
  ASSUME NEW s, NEW f, NEW l, NEW nx, NEW pv, Spells(Block, NULL, s, f, l, nx, pv),
         NEW nx2, LinkMapOf(Block, NULL, nx2), \A x \in Range(s) : nx2[x] = nx[x],
         NEW pv2, LinkMapOf(Block, NULL, pv2), \A x \in Range(s) : pv2[x] = pv[x]
  PROVE  Spells(Block, NULL, s, f, l, nx2, pv2)
<1>1. \A i \in 1 .. Len(s) : s[i] \in Range(s)
  BY RangeOf DEF Spells
<1> QED
  BY <1>1 DEF Spells

LEMMA FreeRest ==
  ASSUME CountInv, ChainInv, SumInv, NEW t \in Thread, Free(t)
  PROVE  ChainInv' /\ SumInv'
<1>b. PICK b : b = call[t].mem
  OBVIOUS
<1>s. PICK step : step = Idle
  OBVIOUS
<1>0. call[t].at = "free"
  BY DEF Free
<1>1. /\ heap' = heap \ {b}
      /\ block_size' = [block_size EXCEPT ![b] = 0]
      /\ next' = [next EXCEPT ![b] = NULL]
      /\ prec' = [prec EXCEPT ![b] = NULL]
      /\ call' = [call EXCEPT ![t] = step]
      /\ UNCHANGED <<used, first, last>>
  BY <1>b, <1>s DEF Free, Return, Goto
<1>2. /\ FieldTypes /\ call[t] \in Calls /\ b \in Block /\ call[t] # Idle
  BY <1>0, <1>b, CallAt DEF CountInv
<1>3. step \in Calls /\ step.at = "idle"
  BY <1>s, IdleCall DEF Idle
<1>5. /\ \A u \in Thread : call[u].at # "relink" /\ call'[u].at # "relink"
      /\ CountingIn(call') = CountingIn(call) - Counting(call[t]) + Counting(step)
      /\ CountingIn(call) \in Int
      /\ \A x \in Block : x # b => (x \in LinkedIn(heap', call') <=> x \in LinkedIn(heap, call))
      /\ b \in LinkedIn(heap, call) <=> b \in heap /\ call[t].at \notin {"link", "free"}
      /\ b \in LinkedIn(heap', call') <=> b \in heap' /\ step.at \notin {"link", "free"}
  <2>1. \A x \in Block : x # b => (x \in heap' <=> x \in heap)
    BY <1>1
  <2>2. /\ call[t].at # "relink" /\ step.at # "relink"
        /\ call[t] # Idle => call[t].mem = b
        /\ call[t] = Idle => Untouched(b) /\ NoMove
        /\ step # Idle => step.mem = b
    BY <1>0, <1>2, <1>3, <1>b, <1>s
  <2>3. call' = [call EXCEPT ![t] = step]
    BY <1>1
  <2>4. CountInv /\ t \in Thread /\ b \in Block /\ step \in Calls
    BY <1>2, <1>3
  <2> QED
    BY ONLY <2>1, <2>2, <2>3, <2>4, Effect
<1>6. LinkedIn(heap', call') \subseteq Block /\ LinkedIn(heap, call) \subseteq Block
  BY <1>1, <1>2 DEF FieldTypes, LinkedIn
<1>7. b \notin LinkedIn(heap, call) /\ b \notin LinkedIn(heap', call')
  BY <1>0, <1>1, <1>5
<1>8. LinkedIn(heap', call') = LinkedIn(heap, call)
  BY <1>5, <1>6, <1>7, SameBlocks
<1>9. NoMove /\ NoMove'
  BY <1>5 DEF NoMove
<1>10. PICK s \in Seq(Block) : /\ Range(s) = LinkedIn(heap, call)
                               /\ Spells(Block, NULL, s, first, last, next, prec)
  BY <1>9 DEF ChainInv
<1>11. LinkMapOf(Block, NULL, next') /\ LinkMapOf(Block, NULL, prec')
  BY FreeCounts DEF CountInv, FieldTypes
<1>12. \A x \in Range(s) : next'[x] = next[x] /\ prec'[x] = prec[x]
  BY <1>1, <1>2, <1>6, <1>7, <1>10 DEF FieldTypes, LinkMapOf
<1>13. Spells(Block, NULL, s, first', last', next', prec')
  <2>1. PICK nx2 : nx2 = next'
    OBVIOUS
  <2>2. PICK pv2 : pv2 = prec'
    OBVIOUS
  <2>3. /\ Spells(Block, NULL, s, first, last, next, prec)
        /\ LinkMapOf(Block, NULL, nx2) /\ (\A x \in Range(s) : nx2[x] = next[x])
        /\ LinkMapOf(Block, NULL, pv2) /\ (\A x \in Range(s) : pv2[x] = prec[x])
    BY <1>10, <1>11, <1>12, <2>1, <2>2
  <2>4. Spells(Block, NULL, s, first, last, nx2, pv2)
    BY ONLY <2>3, SpellsBeside
  <2> QED
    BY <1>1, <2>1, <2>2, <2>4
<1>14. ChainInv'
  BY <1>5, <1>8, <1>10, <1>13 DEF ChainInv
<1>15. SumOf(block_size', LinkedIn(heap, call)) = SumOf(block_size, LinkedIn(heap, call))
  <2>1. PICK L : L = LinkedIn(heap, call)
    OBVIOUS
  <2>2. IsFiniteSet(L) /\ \A x \in L : block_size'[x] = block_size[x]
    BY <1>1, <1>2, <1>6, <1>7, <2>1, LinkedFinite DEF FieldTypes
  <2>3. SumOf(block_size', L) = SumOf(block_size, L)
    BY <2>2, SumSame
  <2> QED
    BY <2>1, <2>3
<1>16. Counting(call[t]) = 0 /\ Counting(step) = 0
  BY <1>0, <1>3 DEF Counting
<1>17. SumInv'
  <2>1. used + CountingIn(call) = SumOf(block_size, LinkedIn(heap, call))
    BY DEF SumInv
  <2>2. CountingIn(call') = CountingIn(call)
    BY <1>5, <1>16
  <2>3. used' + CountingIn(call') = SumOf(block_size', LinkedIn(heap', call'))
    BY <1>1, <1>8, <1>15, <2>1, <2>2
  <2> QED
    BY <2>3 DEF SumInv
<1> QED
  BY <1>14, <1>17

\* Where b stands in a sequence, c: no other entry moves.
Replaced(s, i, c, r) ==
  /\ r \in Seq(Block) /\ Len(r) = Len(s) /\ NoRepeat(r)
  /\ \A j \in 1 .. Len(s) : r[j] = IF j = i THEN c ELSE s[j]
  /\ Range(r) = (Range(s) \ {s[i]}) \cup {c}

LEMMA ReplaceExact ==
  ASSUME NEW s \in Seq(Block), NoRepeat(s), NEW i \in 1 .. Len(s),
         NEW c \in Block, c = s[i] \/ c \notin Range(s)
  PROVE  \E r : Replaced(s, i, c, r)
<1>1. Len(s) \in Nat /\ \A j \in 1 .. Len(s) : s[j] \in Block /\ s[j] \in Range(s)
  BY RangeOf
<1>2. PICK r : r = [j \in 1 .. Len(s) |-> IF j = i THEN c ELSE s[j]]
  OBVIOUS
<1>3. /\ r \in Seq(Block) /\ Len(r) = Len(s)
      /\ \A j \in 1 .. Len(s) : r[j] = IF j = i THEN c ELSE s[j]
  BY <1>1, <1>2
<1>4. NoRepeat(r)
  BY <1>1, <1>3 DEF NoRepeat
<1>5. ASSUME NEW x PROVE x \in Range(r) <=> x \in (Range(s) \ {s[i]}) \cup {c}
  <2>1. x \in Range(r) <=> \E j \in 1 .. Len(s) : x = r[j]
    BY <1>3, RangeOf
  <2>2. x \in Range(s) <=> \E j \in 1 .. Len(s) : x = s[j]
    BY RangeOf
  <2>3. CASE x = c
    BY <1>3, <2>1, <2>3
  <2>4. CASE x # c
    BY <1>1, <1>3, <2>1, <2>2, <2>4 DEF NoRepeat
  <2> QED
    BY <2>3, <2>4
<1>6. Range(r) = (Range(s) \ {s[i]}) \cup {c}
  BY <1>5
<1> QED
  BY <1>3, <1>4, <1>6 DEF Replaced

\* A field of the headers, when the header of b has moved to c.
FieldMoved(f, none, b, c, e) ==
  \A x \in Block : e[x] = IF x = c THEN f[b] ELSE IF x = b THEN none ELSE f[x]

\* A block that moves from b to c leaves the list as it was, but that what led
\* to it does not know.
LEMMA MovedSeen ==
  ASSUME NEW s, NEW f, NEW l, NEW nx, NEW pv, Spells(Block, NULL, s, f, l, nx, pv),
         NEW i \in 1 .. Len(s), NEW c \in Block, c = s[i] \/ c \notin Range(s),
         NEW nx2, FieldMoved(nx, NULL, s[i], c, nx2),
         NEW pv2, FieldMoved(pv, NULL, s[i], c, pv2)
  PROVE  \E r : /\ Range(r) = (Range(s) \ {s[i]}) \cup {c}
                /\ SpellsSeen(r, s[i], c, f, l, nx2, pv2)
<1>1. /\ s \in Seq(Block) /\ NoRepeat(s) /\ Len(s) \in Nat
      /\ f = EntryOf(NULL, s, 1) /\ l = EntryOf(NULL, s, Len(s))
      /\ \A j \in 1 .. Len(s) :
           nx[s[j]] = EntryOf(NULL, s, j + 1) /\ pv[s[j]] = EntryOf(NULL, s, j - 1)
  BY DEF Spells
<1>r. PICK r : Replaced(s, i, c, r)
  BY <1>1, ReplaceExact
<1>2. /\ r \in Seq(Block) /\ Len(r) = Len(s) /\ NoRepeat(r)
      /\ \A j \in 1 .. Len(s) : r[j] = IF j = i THEN c ELSE s[j]
      /\ Range(r) = (Range(s) \ {s[i]}) \cup {c}
  BY <1>r DEF Replaced
<1>3. \A j \in 1 .. Len(s) : s[j] \in Block /\ s[j] \in Range(s) /\ s[j] # NULL
  BY <1>1, RangeOf, MemAssumption
<1>4. \A j \in Int : EntryOf(NULL, s, j) = Seen(s[i], c, EntryOf(NULL, r, j))
  <2> TAKE j \in Int
  <2>1. CASE j \in 1 .. Len(s)
    BY <1>1, <1>2, <1>3, <2>1 DEF EntryOf, Seen
  <2>2. CASE j \notin 1 .. Len(s)
    BY <1>2, <2>2, MemAssumption DEF EntryOf, Seen
  <2> QED
    BY <2>1, <2>2
<1>5. ASSUME NEW j \in 1 .. Len(r)
      PROVE  /\ nx2[r[j]] = Seen(s[i], c, EntryOf(NULL, r, j + 1))
             /\ pv2[r[j]] = Seen(s[i], c, EntryOf(NULL, r, j - 1))
  <2>1. nx2[r[j]] = nx[s[j]] /\ pv2[r[j]] = pv[s[j]]
    BY <1>1, <1>2, <1>3, SMTT(30) DEF NoRepeat, FieldMoved
  <2>2. j + 1 \in Int /\ j - 1 \in Int /\ j \in 1 .. Len(s)
    BY <1>2
  <2> QED
    BY <1>1, <1>4, <2>1, <2>2
<1>6. f = Seen(s[i], c, EntryOf(NULL, r, 1)) /\ l = Seen(s[i], c, EntryOf(NULL, r, Len(r)))
  BY <1>1, <1>2, <1>4
<1>7. SpellsSeen(r, s[i], c, f, l, nx2, pv2)
  BY <1>2, <1>5, <1>6 DEF SpellsSeen
<1> QED
  BY <1>2, <1>7

\* What adding up the sizes gives when the size of b is found at c.
LEMMA SumMoved ==
  ASSUME NEW H \in SUBSET Block, NEW b \in H, NEW c \in Block, c = b \/ c \notin H,
         NEW f, \A x \in Block : f[x] \in Int,
         NEW e, FieldMoved(f, 0, b, c, e)
  PROVE  SumOf(e, (H \ {b}) \cup {c}) = SumOf(f, H)
<1>1. PICK K : K = H \ {b}
  OBVIOUS
<1>2. IsFiniteSet(H) /\ IsFiniteSet(K) /\ K \subseteq Block /\ c \notin K /\ b \notin K
  BY <1>1, FS_Subset, MemAssumption
<1>3. SumOf(f, H) = f[b] + SumOf(f, K)
  BY <1>1, <1>2, SumStep
<1>4. \A x \in K : e[x] = f[x] /\ e[x] \in Int
  BY <1>2 DEF FieldMoved
<1>5. SumOf(e, K) = SumOf(f, K)
  BY <1>2, <1>4, SumSame
<1>6. e[c] = f[b] /\ e[c] \in Int
  BY DEF FieldMoved
<1>7. SumOf(e, K \cup {c}) = e[c] + SumOf(e, K)
  BY <1>2, <1>4, <1>6, SumWith
<1> QED
  BY <1>1, <1>3, <1>5, <1>6, <1>7

\* Between two states in which no call is about a block that is not linked.
LEMMA AllLinked ==
  ASSUME NEW hp, NEW c, \A t \in Thread : c[t].at \notin {"link", "free"}
  PROVE  LinkedIn(hp, c) = hp
BY DEF LinkedIn

LEMMA ReallocRest ==
  ASSUME CountInv, ChainInv, SumInv, Working = {}, NEW t \in Thread,
         NEW b \in Block, NEW c \in Block, NEW n \in BlockSizes,
         HeldIn(holds, b) = 1, Realloc(t, b, c, n)
  PROVE  ChainInv' /\ SumInv'
<1>1. /\ b \in heap /\ (c = b \/ c \notin heap)
      /\ heap' = (heap \ {b}) \cup {c}
      /\ \A x \in Block : block_size'[x] = IF x = c THEN block_size[b]
                                           ELSE IF x = b THEN 0 ELSE block_size[x]
      /\ \A x \in Block : next'[x] = IF x = c THEN next[b]
                                     ELSE IF x = b THEN NULL ELSE next[x]
      /\ \A x \in Block : prec'[x] = IF x = c THEN prec[b]
                                     ELSE IF x = b THEN NULL ELSE prec[x]
      /\ call'[t].at = "relink" /\ call'[t].mem = b /\ call'[t].ptr = c
      /\ \A u \in Thread : u # t => call'[u] = Idle
      /\ UNCHANGED <<used, first, last>>
  BY ReallocCounts
<1>2. FieldTypes
  BY DEF CountInv
<1>3. \A u \in Thread : call[u] = Idle
  BY DEF Working
<1>4. Idle.at = "idle"
  BY DEF Idle
<1>5. /\ LinkedIn(heap, call) = heap /\ LinkedIn(heap', call') = heap'
      /\ NoMove
  <2>1. \A u \in Thread : call[u].at \notin {"link", "free"} /\ call[u].at # "relink"
    BY <1>3, <1>4
  <2>2. \A u \in Thread : call'[u].at \notin {"link", "free"}
    BY <1>1, <1>4
  <2> QED
    BY <2>1, <2>2, AllLinked DEF NoMove
<1>6. PICK s \in Seq(Block) : Range(s) = heap /\ Spells(Block, NULL, s, first, last, next, prec)
  BY <1>5 DEF ChainInv
<1>7. PICK i \in 1 .. Len(s) : b = s[i]
  BY <1>1, <1>6, RangeOf
<1>8. PICK r : /\ Range(r) = (heap \ {b}) \cup {c}
               /\ SpellsSeen(r, b, c, first, last, next', prec')
  <2>1. PICK nx2 : nx2 = next'
    OBVIOUS
  <2>2. PICK pv2 : pv2 = prec'
    OBVIOUS
  <2>3. /\ Spells(Block, NULL, s, first, last, next, prec)
        /\ c = s[i] \/ c \notin Range(s)
        /\ FieldMoved(next, NULL, s[i], c, nx2) /\ FieldMoved(prec, NULL, s[i], c, pv2)
    BY <1>1, <1>6, <1>7, <2>1, <2>2 DEF FieldMoved
  <2>4. \E r : /\ Range(r) = (Range(s) \ {s[i]}) \cup {c}
               /\ SpellsSeen(r, s[i], c, first, last, nx2, pv2)
    BY ONLY <2>3, i \in 1 .. Len(s), c \in Block, MovedSeen
  <2> QED
    BY <1>6, <1>7, <2>1, <2>2, <2>4
<1>9. ChainInv'
  <2>1. ~NoMove'
    BY <1>1 DEF NoMove
  <2>2. \A u \in Thread : call'[u].at = "relink" => u = t
    BY <1>1, <1>4
  <2>3. SpellsSeen(r, call'[t].mem, call'[t].ptr, first', last', next', prec') /\ Range(r) = heap'
    BY <1>1, <1>8
  <2>4. r \in Seq(Block)
    BY <1>8 DEF SpellsSeen
  <2> QED
    BY <2>1, <2>2, <2>3, <2>4 DEF ChainInv
<1>10. CountingIn(call) = 0 /\ CountingIn(call') = 0
  <2>1. \A u \in Thread : Counting(call[u]) = 0 /\ Counting(call'[u]) = 0
    BY <1>1, <1>3, <1>4 DEF Counting
  <2> QED
    BY <2>1, CountingNone
<1>11. SumOf(block_size', heap') = SumOf(block_size, heap)
  <2>1. PICK e : e = block_size'
    OBVIOUS
  <2>2. /\ \A x \in Block : block_size[x] \in Int
        /\ FieldMoved(block_size, 0, b, c, e)
        /\ heap \in SUBSET Block /\ b \in heap /\ c \in Block /\ (c = b \/ c \notin heap)
    BY <1>1, <1>2, <2>1, SMTT(30) DEF FieldTypes, FieldMoved
  <2>3. SumOf(e, (heap \ {b}) \cup {c}) = SumOf(block_size, heap)
    BY ONLY <2>2, SumMoved
  <2> QED
    BY <1>1, <2>1, <2>3
<1>12. SumInv'
  BY <1>1, <1>5, <1>10, <1>11 DEF SumInv
<1> QED
  BY <1>9, <1>12

\* What is beside a block that has moved, at i, and where it shows.
SeenSides(s, i, b, f, l, nx, pv) ==
  /\ \A j \in 1 .. Len(s) : s[j] \in Block /\ s[j] \in Range(s) /\ s[j] # NULL
  /\ b = f <=> i = 1
  /\ b = l <=> i = Len(s)
  /\ i # 1 => /\ i - 1 \in 1 .. Len(s) /\ pv[s[i]] = s[i - 1] /\ f = s[1]
  /\ i # Len(s) => /\ i + 1 \in 1 .. Len(s) /\ nx[s[i]] = s[i + 1] /\ l = s[Len(s)]

LEMMA SeenBeside ==
  ASSUME NEW s, NEW f, NEW l, NEW nx, NEW pv, NEW i \in 1 .. Len(s),
         NEW b \in Block, b = s[i] \/ b \notin Range(s),
         SpellsSeen(s, b, s[i], f, l, nx, pv)
  PROVE  SeenSides(s, i, b, f, l, nx, pv)
<1>1. /\ s \in Seq(Block) /\ NoRepeat(s) /\ Len(s) \in Nat
      /\ f = Seen(b, s[i], EntryOf(NULL, s, 1)) /\ l = Seen(b, s[i], EntryOf(NULL, s, Len(s)))
      /\ nx[s[i]] = Seen(b, s[i], EntryOf(NULL, s, i + 1))
      /\ pv[s[i]] = Seen(b, s[i], EntryOf(NULL, s, i - 1))
  BY DEF SpellsSeen
<1>2. \A j \in 1 .. Len(s) : s[j] \in Block /\ s[j] \in Range(s) /\ s[j] # NULL
  BY <1>1, RangeOf, MemAssumption
<1>3. ASSUME NEW j \in 1 .. Len(s)
      PROVE  /\ b = Seen(b, s[i], EntryOf(NULL, s, j)) <=> i = j
             /\ i # j => Seen(b, s[i], EntryOf(NULL, s, j)) = s[j]
  <2>1. EntryOf(NULL, s, j) = s[j]
    BY DEF EntryOf
  <2>2. s[j] = s[i] <=> i = j
    BY <1>1 DEF NoRepeat
  <2>3. i # j => s[j] # b
    BY <1>2, <2>2
  <2> QED
    BY <2>1, <2>2, <2>3 DEF Seen
<1>4. 1 \in 1 .. Len(s) /\ Len(s) \in 1 .. Len(s)
  BY <1>1
<1>5. (b = f <=> i = 1) /\ (b = l <=> i = Len(s))
      /\ (i # 1 => f = s[1]) /\ (i # Len(s) => l = s[Len(s)])
  BY <1>1, <1>3, <1>4
<1>6. i # 1 => i - 1 \in 1 .. Len(s) /\ pv[s[i]] = s[i - 1]
  <2>1. i # 1 => i - 1 \in 1 .. Len(s) /\ i # i - 1
    BY <1>1
  <2> QED
    BY <1>1, <1>3, <2>1
<1>7. i # Len(s) => i + 1 \in 1 .. Len(s) /\ nx[s[i]] = s[i + 1]
  <2>1. i # Len(s) => i + 1 \in 1 .. Len(s) /\ i # i + 1
    BY <1>1
  <2> QED
    BY <1>1, <1>3, <2>1
<1> QED
  BY <1>2, <1>5, <1>6, <1>7 DEF SeenSides

\* What is beside a block that has moved from b to c is told.
Repaired(b, c, f, l, nx, pv, f2, l2, nx2, pv2) ==
  /\ LinkMapOf(Block, NULL, nx2) /\ LinkMapOf(Block, NULL, pv2)
  /\ \A x \in Block : nx2[x] = IF b # f /\ x = pv[c] THEN c ELSE nx[x]
  /\ \A x \in Block : pv2[x] = IF b # l /\ x = nx[c] THEN c ELSE pv[x]
  /\ f2 = IF b # f THEN f ELSE c
  /\ l2 = IF b # l THEN l ELSE c

\* Then the list is whole again.
LEMMA SeenRepaired ==
  ASSUME NEW s, NEW f, NEW l, NEW nx, NEW pv, NEW i \in 1 .. Len(s),
         NEW b \in Block, b = s[i] \/ b \notin Range(s),
         SpellsSeen(s, b, s[i], f, l, nx, pv),
         NEW f2, NEW l2, NEW nx2, NEW pv2, Repaired(b, s[i], f, l, nx, pv, f2, l2, nx2, pv2)
  PROVE  Spells(Block, NULL, s, f2, l2, nx2, pv2)
<1>1. /\ s \in Seq(Block) /\ NoRepeat(s) /\ Len(s) \in Nat
      /\ \A j \in 1 .. Len(s) : /\ nx[s[j]] = Seen(b, s[i], EntryOf(NULL, s, j + 1))
                                /\ pv[s[j]] = Seen(b, s[i], EntryOf(NULL, s, j - 1))
  BY DEF SpellsSeen
<1>2. /\ \A j \in 1 .. Len(s) : s[j] \in Block /\ s[j] \in Range(s) /\ s[j] # NULL
      /\ b = f <=> i = 1
      /\ b = l <=> i = Len(s)
      /\ i # 1 => /\ i - 1 \in 1 .. Len(s) /\ pv[s[i]] = s[i - 1] /\ f = s[1]
      /\ i # Len(s) => /\ i + 1 \in 1 .. Len(s) /\ nx[s[i]] = s[i + 1] /\ l = s[Len(s)]
  <2>1. SeenSides(s, i, b, f, l, nx, pv)
    BY SeenBeside
  <2> QED
    BY ONLY <2>1 DEF SeenSides
<1>t. /\ \A x \in Block : nx2[x] = IF b # f /\ x = pv[s[i]] THEN s[i] ELSE nx[x]
      /\ \A x \in Block : pv2[x] = IF b # l /\ x = nx[s[i]] THEN s[i] ELSE pv[x]
      /\ f2 = IF b # f THEN f ELSE s[i]
      /\ l2 = IF b # l THEN l ELSE s[i]
      /\ LinkMapOf(Block, NULL, nx2) /\ LinkMapOf(Block, NULL, pv2)
  BY DEF Repaired
<1>3. ASSUME NEW j \in Int, j # i
      PROVE  Seen(b, s[i], EntryOf(NULL, s, j)) = EntryOf(NULL, s, j)
  <2>1. EntryOf(NULL, s, j) # s[i]
    BY <1>1, <1>2, <1>3 DEF EntryOf, NoRepeat
  <2> QED
    BY <2>1 DEF Seen
<1>4. EntryOf(NULL, s, i) = s[i]
  BY DEF EntryOf
<1>5. ASSUME NEW j \in 1 .. Len(s)
      PROVE  nx2[s[j]] = EntryOf(NULL, s, j + 1)
  <2>1. CASE j + 1 = i
    <3>1. i # 1 /\ j = i - 1
      BY <2>1
    <3>2. nx2[s[j]] = s[i]
      BY <1>2, <1>t, <3>1
    <3> QED
      BY <1>4, <2>1, <3>2
  <2>2. CASE j + 1 # i
    <3>0. j + 1 \in Int
      OBVIOUS
    <3>1. nx[s[j]] = EntryOf(NULL, s, j + 1)
      BY <1>1, <1>3, <2>2, <3>0
    <3>2. ~(b # f /\ s[j] = pv[s[i]])
      BY <1>1, <1>2, <2>2 DEF NoRepeat
    <3> QED
      BY <1>2, <1>t, <3>1, <3>2
  <2> QED
    BY <2>1, <2>2
<1>6. ASSUME NEW j \in 1 .. Len(s)
      PROVE  pv2[s[j]] = EntryOf(NULL, s, j - 1)
  <2>1. CASE j - 1 = i
    <3>1. i # Len(s) /\ j = i + 1
      BY <1>1, <2>1
    <3>2. pv2[s[j]] = s[i]
      BY <1>2, <1>t, <3>1
    <3> QED
      BY <1>4, <2>1, <3>2
  <2>2. CASE j - 1 # i
    <3>0. j - 1 \in Int
      OBVIOUS
    <3>1. pv[s[j]] = EntryOf(NULL, s, j - 1)
      BY <1>1, <1>3, <2>2, <3>0
    <3>2. ~(b # l /\ s[j] = nx[s[i]])
      BY <1>1, <1>2, <2>2 DEF NoRepeat
    <3> QED
      BY <1>2, <1>t, <3>1, <3>2
  <2> QED
    BY <2>1, <2>2
<1>7. f2 = EntryOf(NULL, s, 1) /\ l2 = EntryOf(NULL, s, Len(s))
  <2>1. 1 \in 1 .. Len(s) /\ Len(s) \in 1 .. Len(s)
    BY <1>1
  <2> QED
    BY <1>2, <1>t, <2>1 DEF EntryOf
<1> QED
  BY <1>1, <1>5, <1>6, <1>7, <1>t DEF Spells

\* The block that has moved has its place in the list.
LEMMA RelinkPlace ==
  ASSUME CountInv, ChainInv, NEW t \in Thread, call[t].at = "relink"
  PROVE  /\ call[t].mem \in Block /\ call[t].ptr \in heap
         /\ call[t].mem = call[t].ptr \/ call[t].mem \notin heap
         /\ \E s \in Seq(Block) : \E i \in 1 .. Len(s) :
              /\ Range(s) = heap /\ call[t].ptr = s[i]
              /\ SpellsSeen(s, call[t].mem, s[i], first, last, next, prec)
<1>1. /\ FieldTypes /\ CallOk(call[t], heap, ref_count, holds) /\ call[t].mem \in Block
  BY CallAt DEF CountInv
<1>2. call[t].ptr \in heap /\ (call[t].mem = call[t].ptr \/ call[t].mem \notin heap)
  BY <1>1 DEF CallOk
<1>3. PICK s \in Seq(Block) :
        /\ Range(s) = heap
        /\ SpellsSeen(s, call[t].mem, call[t].ptr, first, last, next, prec)
  BY DEF ChainInv
<1>4. PICK i \in 1 .. Len(s) : call[t].ptr = s[i]
  BY <1>2, <1>3, RangeOf
<1> QED
  BY <1>1, <1>2, <1>3, <1>4

\* The asserts of lines 139 and 146.
LEMMA RelinkMarks ==
  ASSUME CountInv, ChainInv, NEW t \in Thread, call[t].at = "relink"
  PROVE  NeighboursMarked(call[t].mem, prec[call[t].ptr], next[call[t].ptr])
<1>b. PICK b : b = call[t].mem
  OBVIOUS
<1>0. PICK s \in Seq(Block) : \E i \in 1 .. Len(s) :
        /\ Range(s) = heap /\ call[t].ptr = s[i]
        /\ SpellsSeen(s, b, s[i], first, last, next, prec)
  BY <1>b, RelinkPlace
<1>1. PICK i \in 1 .. Len(s) :
        /\ Range(s) = heap /\ call[t].ptr = s[i]
        /\ SpellsSeen(s, b, s[i], first, last, next, prec)
  BY <1>0
<1>2. b \in Block /\ (b = s[i] \/ b \notin Range(s))
  BY <1>1, <1>b, RelinkPlace
<1>3. SeenSides(s, i, b, first, last, next, prec)
  BY <1>1, <1>2, SeenBeside
<1> QED
  BY <1>1, <1>3, <1>b DEF NeighboursMarked, Marked, SeenSides

LEMMA RelinkRest ==
  ASSUME CountInv, ChainInv, SumInv, NEW t \in Thread, Relink(t)
  PROVE  ChainInv' /\ SumInv'
<1>b. PICK b : b = call[t].mem
  OBVIOUS
<1>c. PICK c : c = call[t].ptr
  OBVIOUS
<1>n. PICK n : n = call[t].n
  OBVIOUS
<1>0. call[t].at = "relink"
  BY DEF Relink
<1>m. NeighboursMarked(call[t].mem, prec[call[t].ptr], next[call[t].ptr])
  BY <1>0, RelinkMarks
<1>1. /\ used' = used + n - block_size[c]
      /\ block_size' = [block_size EXCEPT ![c] = n]
      /\ Redirect(b, prec[c], next[c], c, c)
      /\ call' = [call EXCEPT ![t] = Idle]
      /\ UNCHANGED heap
  BY <1>m, <1>b, <1>c, <1>n DEF Relink, Return, Goto, InSection, UsedAfterRealloc
<1>2. /\ FieldTypes /\ call[t] \in Calls /\ n \in Int /\ call[t] # Idle
  BY <1>0, <1>n, CallAt DEF CountInv, Calls
<1>3. /\ b \in Block /\ c \in heap /\ c \in Block /\ (b = c \/ b \notin heap)
  BY <1>0, <1>2, <1>b, <1>c, RelinkPlace DEF FieldTypes
<1>4. \A u \in Thread : u # t => call[u] = Idle
  BY <1>0, <1>2 DEF CountInv, Apart
<1>5. \A u \in Thread : call'[u] = Idle
  BY <1>1, <1>2, <1>4 DEF FieldTypes
<1>6. LinkedIn(heap, call) = heap /\ LinkedIn(heap', call') = heap
  <2>1. \A u \in Thread : call[u].at \notin {"link", "free"} /\ call'[u].at \notin {"link", "free"}
    BY <1>0, <1>4, <1>5 DEF Idle
  <2> QED
    BY <1>1, <2>1, AllLinked
<1>7. CountingIn(call) = 0 /\ CountingIn(call') = 0
  <2>1. \A u \in Thread : Counting(call[u]) = 0 /\ Counting(call'[u]) = 0
    BY <1>0, <1>4, <1>5 DEF Counting, Idle
  <2> QED
    BY <2>1, CountingNone
<1>8. SumOf(block_size', heap) = SumOf(block_size, heap) - block_size[c] + n
  <2>1. PICK e : e = block_size'
    OBVIOUS
  <2>2. /\ \A x \in heap : block_size[x] \in Int
        /\ \A x \in heap \ {c} : e[x] = block_size[x]
        /\ e[c] = n /\ e[c] \in Int /\ IsFiniteSet(heap)
    BY <1>1, <1>2, <1>3, <2>1, FS_Subset, MemAssumption DEF FieldTypes
  <2>3. SumOf(e, heap) = SumOf(block_size, heap) - block_size[c] + e[c]
    BY ONLY <2>2, <1>3, SumChanged, Z3
  <2> QED
    BY <2>1, <2>2, <2>3
<1>9. SumInv'
  <2>1. used + 0 = SumOf(block_size, heap) /\ used \in Int /\ block_size[c] \in Int
    BY <1>2, <1>3, <1>6, <1>7 DEF SumInv, FieldTypes
  <2>2. used' + 0 = SumOf(block_size', heap)
    BY <1>1, <1>2, <1>8, <2>1
  <2> QED
    BY <1>6, <1>7, <2>2 DEF SumInv
<1>10. PICK s \in Seq(Block) : \E i \in 1 .. Len(s) :
         /\ Range(s) = heap /\ c = s[i]
         /\ SpellsSeen(s, b, s[i], first, last, next, prec)
  BY <1>0, <1>b, <1>c, RelinkPlace
<1>11. PICK i \in 1 .. Len(s) :
         /\ Range(s) = heap /\ c = s[i]
         /\ SpellsSeen(s, b, s[i], first, last, next, prec)
  BY <1>10
<1>12. LinkMapOf(Block, NULL, next') /\ LinkMapOf(Block, NULL, prec')
  BY <1>m, RelinkCounts DEF CountInv, FieldTypes
<1>13. Repaired(b, s[i], first, last, next, prec, first', last', next', prec')
  BY <1>1, <1>2, <1>11, <1>12 DEF Redirect, FieldTypes, LinkMapOf, Repaired
<1>14. Spells(Block, NULL, s, first', last', next', prec')
  <2>1. b = s[i] \/ b \notin Range(s)
    BY <1>3, <1>11
  <2> QED
    BY <1>3, <1>11, <1>13, <2>1, SeenRepaired
<1>15. ChainInv'
  <2>1. \A u \in Thread : call'[u].at # "relink"
    BY <1>5 DEF Idle
  <2> QED
    BY <1>1, <1>6, <1>11, <1>14, <2>1 DEF ChainInv
<1> QED
  BY <1>9, <1>15

-----------------------------------------------------------------------------
(***************************************************************************)
(* The invariant, from the first state and through every step.             *)
(***************************************************************************)
LEMMA MemInvInit ==
  ASSUME MemInit
  PROVE  MemInv
<1>1. /\ open = TRUE /\ used = 0 /\ first = NULL /\ last = NULL /\ heap = {}
      /\ block_size = [b \in Block |-> 0] /\ ref_count = [b \in Block |-> 0]
      /\ next = [b \in Block |-> NULL] /\ prec = [b \in Block |-> NULL]
      /\ call = [t \in Thread |-> Idle]
      /\ holds = [t \in Thread |-> [b \in Block |-> 0]] /\ status = "ok"
  BY DEF MemInit
<1>2. LinkMapOf(Block, NULL, next) /\ LinkMapOf(Block, NULL, prec)
  BY <1>1 DEF LinkMapOf
<1>3. call \in [Thread -> Calls]
  BY <1>1, IdleCall
<1>4. FieldTypes
  BY <1>1, <1>2, <1>3 DEF FieldTypes, Pointer
<1>5. \A t \in Thread : call[t] = Idle
  BY <1>1
<1>6. ASSUME NEW b \in Block PROVE HeldIn(holds, b) = 0
  <2>1. PICK f : f = [t \in Thread |-> holds[t][b]]
    OBVIOUS
  <2>2. \A t \in Thread : f[t] = 0
    BY <1>1, <2>1
  <2>3. SumOf(f, Thread) = 0
    BY <2>2, SumZero, MemAssumption
  <2> QED
    BY <2>1, <2>3 DEF HeldIn
<1>7. \A b \in Block : BlockInv(b)
  BY <1>1, <1>6 DEF BlockInv
<1>8. Apart /\ ClosedInv /\ \A t \in Thread : CallInv(t)
  BY <1>1, <1>5, IdleCall DEF Apart, ClosedInv, CallInv
<1>9. LinkedIn(heap, call) = {} /\ CountingIn(call) = 0
  BY <1>1, <1>5, NothingToCount
<1>10. ChainInv
  <2>1. \A t \in Thread : call[t].at # "relink"
    BY <1>5 DEF Idle
  <2> QED
    BY <1>1, <1>2, <1>9, <2>1, SpellsNone DEF ChainInv
<1>11. SumInv
  <2>1. SumOf(block_size, {}) = 0
    BY SumEmpty
  <2> QED
    BY <1>1, <1>9, <2>1 DEF SumInv
<1> QED
  BY <1>4, <1>7, <1>8, <1>10, <1>11 DEF MemInv, CountInv

LEMMA ProceedKept ==
  ASSUME CountInv, ChainInv, SumInv, NEW t \in Thread, Proceed(t)
  PROVE  CountInv' /\ ChainInv' /\ SumInv'
<1>1. CASE Take(t)
  BY <1>1, TakeCounts, TakeRest
<1>2. CASE Link(t)
  BY <1>2, LinkCounts, LinkRest
<1>3. CASE Count(t)
  BY <1>3, CountCounts, CountRest
<1>4. CASE Relink(t)
  <2>1. call[t].at = "relink"
    BY <1>4 DEF Relink
  <2>2. NeighboursMarked(call[t].mem, prec[call[t].ptr], next[call[t].ptr])
    BY <2>1, RelinkMarks
  <2> QED
    BY <1>4, <2>2, RelinkCounts, RelinkRest
<1>5. CASE Unref(t)
  BY <1>5, UnrefCounts, UnrefRest
<1>6. CASE Unlink(t)
  <2>1. call[t].at = "unlink"
    BY <1>6 DEF Unlink
  <2>2. NeighboursMarked(call[t].mem, prec[call[t].mem], next[call[t].mem])
    BY <2>1, UnlinkMarks
  <2> QED
    BY <1>6, <2>2, UnlinkCounts, UnlinkRest
<1>7. CASE Free(t)
  BY <1>7, FreeCounts, FreeRest
<1>8. CASE Ref(t)
  BY <1>8, RefCounts, RefRest
<1> QED
  BY <1>1, <1>2, <1>3, <1>4, <1>5, <1>6, <1>7, <1>8 DEF Proceed

LEMMA BeginKept ==
  ASSUME CountInv, ChainInv, SumInv, NEW t \in Thread, Begin(t)
  PROVE  CountInv' /\ ChainInv' /\ SumInv'
<1>1. CASE NoMove /\ Allocate(t)
  <2>1. PICK b \in Block, n \in BlockSizes : Malloc(t, b, n)
    BY <1>1 DEF Allocate
  <2> QED
    BY <1>1, <2>1, MallocCounts, MallocRest
<1>2. CASE NoMove /\ \E b \in Block : Untouched(b) /\ Unregister(t, b)
  <2>1. PICK b \in Block : Untouched(b) /\ Unregister(t, b)
    BY <1>2
  <2> QED
    BY <1>2, <2>1, UnregisterCounts, UnregisterRest
<1>3. CASE NoMove /\ \E b \in Block : Untouched(b) /\ Share(t, b)
  <2>1. PICK b \in Block : Untouched(b) /\ Share(t, b)
    BY <1>3
  <2>2. PICK u \in Thread : Register(t, u, b)
    BY <2>1 DEF Share
  <2> QED
    BY <1>3, <2>1, <2>2, RegisterCounts, RegisterRest
<1>4. CASE Working = {} /\ Resize(t)
  <2>1. PICK b \in Block, c \in Block, n \in BlockSizes : Total(b) = 1 /\ Realloc(t, b, c, n)
    BY <1>4 DEF Resize
  <2>2. HeldIn(holds, b) = 1
    BY <2>1, TotalIsHeld
  <2> QED
    BY <1>4, <2>1, <2>2, ReallocCounts, ReallocRest
<1> QED
  BY <1>1, <1>2, <1>3, <1>4 DEF Begin

\* mem_end finds nothing used when no block is left, so does not fault.
LEMMA EndKept ==
  ASSUME CountInv, ChainInv, SumInv, heap = {}, End
  PROVE  CountInv' /\ ChainInv' /\ SumInv'
<1>1. \A t \in Thread : call[t] = Idle
  BY DEF End
<1>2. LinkedIn(heap, call) = {} /\ CountingIn(call) = 0
  BY <1>1, NothingToCount
<1>3. SumOf(block_size, {}) = 0
  BY SumEmpty
<1>4. used \in Int
  BY DEF CountInv, FieldTypes
<1>5. used = 0
  BY <1>2, <1>3, <1>4 DEF SumInv
<1> QED
  BY <1>5, EndCounts, EndRest

LEMMA MemInvStep ==
  ASSUME MemInv, [MemNext]_memVars
  PROVE  MemInv'
<1>0. CountInv /\ ChainInv /\ SumInv
  BY DEF MemInv
<1>1. CASE \E t \in Thread : Begin(t)
  BY <1>0, <1>1, BeginKept DEF MemInv
<1>2. CASE \E t \in Thread : Proceed(t)
  BY <1>0, <1>2, ProceedKept DEF MemInv
<1>3. CASE Open
  BY <1>0, <1>3, OpenCounts, OpenRest DEF MemInv
<1>4. CASE heap = {} /\ End
  BY <1>0, <1>4, EndKept DEF MemInv
<1>5. CASE UNCHANGED memVars
  <2>1. UNCHANGED <<open, used, first, last, next, prec, heap, block_size, ref_count, call, holds, status>>
    BY <1>5 DEF memVars, list
  <2>2. CountInv'
    BY <1>0, <2>1 DEF CountInv, FieldTypes, Apart, ClosedInv, CallInv, BlockInv, Untouched, Working
  <2>3. ChainInv' /\ SumInv'
    BY <1>0, <2>1 DEF ChainInv, SumInv, NoMove
  <2> QED
    BY <2>2, <2>3 DEF MemInv
<1> QED
  BY <1>1, <1>2, <1>3, <1>4, <1>5 DEF MemNext

\* What the calls of careful clients rely on holds in every state.
THEOREM MemInvariant == MemSpec => []MemInv
<1>1. MemInit => MemInv
  BY MemInvInit
<1>2. MemInv /\ [MemNext]_memVars => MemInv'
  BY MemInvStep
<1> QED
  BY <1>1, <1>2, PTL DEF MemSpec

-----------------------------------------------------------------------------
(***************************************************************************)
(* How the properties of the run read the list and the sums.               *)
(***************************************************************************)
\* What the model adds up is what CountingIn does.
LEMMA CountingIsIn ==
  MapThenSumSet(LAMBDA t : IF call[t].at = "count" THEN call[t].n ELSE 0, Thread)
    = CountingIn(call)
<1> DEFINE f == [t \in Thread |-> Counting(call[t])]
           B(s, g) == IF s = {} THEN 0
                      ELSE LET x == CHOOSE y \in s : TRUE
                           IN (IF call[x].at = "count" THEN call[x].n ELSE 0) + g[s \ {x}]
           M == MapThenSumSet(LAMBDA t : IF call[t].at = "count" THEN call[t].n ELSE 0, Thread)
<1>1. M = (CHOOSE g : g = [s \in SUBSET Thread |-> B(s, g)])[Thread]
  BY DEF MapThenSumSet, MapThenFoldSet
<1>2. ASSUME NEW s \in SUBSET Thread, NEW g PROVE B(s, g) = Added(f, s, g)
  <2>1. CASE s = {}
    BY <2>1 DEF Added
  <2>2. CASE s # {}
    <3>1. (CHOOSE y \in s : TRUE) \in Thread
      BY <2>2, ChosenElement
    <3> QED
      BY <2>2, <3>1 DEF Added, Counting
  <2> QED
    BY <2>1, <2>2
<1> HIDE DEF B, f, M
<1>3. \A g : (g = [s \in SUBSET Thread |-> B(s, g)]) <=> Adds(f, Thread, g)
  BY <1>2 DEF Adds
<1>4. \E g : Adds(f, Thread, g)
  BY AddsExists, MemAssumption
<1>5. PICK g : g = [s \in SUBSET Thread |-> B(s, g)] /\ M = g[Thread]
  BY <1>1, <1>3, <1>4
<1>6. M = SumOf(f, Thread)
  BY <1>3, <1>5, SumIs, MemAssumption
<1> QED
  BY <1>6 DEF CountingIn, f, M

\* Nth meets the entries of the list, then NULL.
LEMMA NthEntry ==
  ASSUME NEW s, Spells(Block, NULL, s, first, last, next, prec), NEW n \in Nat
  PROVE  Nth(n) = EntryOf(NULL, s, n + 1)
<1>1. /\ s \in Seq(Block) /\ first = EntryOf(NULL, s, 1)
      /\ \A j \in 1 .. Len(s) : next[s[j]] = EntryOf(NULL, s, j + 1)
      /\ NULL \notin Block
  BY MemAssumption DEF Spells
<1>2. Nth(n) = (CHOOSE f : f = LinkWalk(NULL, next, first, n, f))[n]
  BY DEF Nth, LinkWalk
<1> QED
  BY <1>1, <1>2, LinkWalkEntry

LEMMA NthAll ==
  ASSUME NEW s, Spells(Block, NULL, s, first, last, next, prec)
  PROVE  {Nth(i) : i \in 0 .. Cardinality(Block)} = Range(s) \cup {NULL}
<1>1. s \in Seq(Block) /\ NoRepeat(s) /\ Len(s) \in Nat
  BY DEF Spells
<1>2. Cardinality(Range(s)) = Len(s) /\ Range(s) \subseteq Block
  BY <1>1, NoRepeatCardinality, RangeOf
<1>3. Cardinality(Block) \in Nat /\ Len(s) =< Cardinality(Block)
  BY <1>2, FS_Subset, FS_CardinalityType, MemAssumption
<1>4. \A i \in 0 .. Cardinality(Block) : Nth(i) = EntryOf(NULL, s, i + 1)
  BY <1>3, NthEntry
<1>5. \A x : x \in Range(s) <=> \E j \in 1 .. Len(s) : s[j] = x
  BY <1>1, RangeOf
<1>6. ASSUME NEW i \in 0 .. Cardinality(Block) PROVE Nth(i) \in Range(s) \cup {NULL}
  BY <1>4, <1>5 DEF EntryOf
<1>7. ASSUME NEW x \in Range(s) \cup {NULL} PROVE \E i \in 0 .. Cardinality(Block) : Nth(i) = x
  <2>1. CASE x = NULL
    <3>1. Len(s) \in 0 .. Cardinality(Block) /\ Len(s) + 1 \notin 1 .. Len(s)
      BY <1>1, <1>3
    <3>2. Nth(Len(s)) = NULL
      BY <1>4, <3>1 DEF EntryOf
    <3> QED
      BY <2>1, <3>1, <3>2
  <2>2. CASE x \in Range(s)
    <3>1. PICK j \in 1 .. Len(s) : s[j] = x
      BY <1>5, <2>2
    <3>2. j - 1 \in 0 .. Cardinality(Block) /\ (j - 1) + 1 = j
      BY <1>1, <1>3
    <3>3. Nth(j - 1) = EntryOf(NULL, s, j)
      BY <1>4, <3>2
    <3>4. Nth(j - 1) = x
      BY <3>1, <3>3 DEF EntryOf
    <3> QED
      BY <3>2, <3>4
  <2> QED
    BY <2>1, <2>2
<1> QED
  BY <1>6, <1>7

-----------------------------------------------------------------------------
(***************************************************************************)
(* What the run mem checks.                                                *)
(***************************************************************************)
\* A block is not freed while anyone has a registration of it (mem.h:83).
THEOREM MemKeptWhileRegistered == MemSpec => []KeptWhileRegistered
<1>1. MemInv => KeptWhileRegistered
  BY HeldIsMarked DEF MemInv, KeptWhileRegistered
<1> QED
  BY <1>1, MemInvariant, PTL

\* The count of a block that no call is about is that of its registrations.
THEOREM MemCountExact == MemSpec => []CountExact
<1>1. ASSUME MemInv PROVE CountExact
  <2>1. ASSUME NEW b \in Block, Untouched(b) PROVE ref_count[b] = Total(b)
    BY <1>1, <2>1, TotalIsHeld DEF MemInv, CountInv, BlockInv
  <2> QED
    BY <2>1 DEF CountExact
<1> QED
  BY <1>1, MemInvariant, PTL

\* No assert of mem.c fails: the blocks that an unlinking or a relinking finds
\* beside its own are blocks, and so is the one that a call is given.
THEOREM MemMarksHold == MemSpec => []MarksHold
<1>1. MemInv => MarksHold
  BY DEF MemInv, CountInv, FieldTypes, MarksHold
<1> QED
  BY <1>1, MemInvariant, PTL

\* used is the size of the linked blocks, but those not counted yet.
THEOREM MemUsedExact == MemSpec => []UsedExact
<1>1. ASSUME MemInv PROVE UsedExact
  <2>1. MapThenSumSet(LAMBDA t : IF call[t].at = "count" THEN call[t].n ELSE 0, Thread)
          = CountingIn(call)
    BY CountingIsIn
  <2>2. MapThenSumSet(LAMBDA b : block_size[b], Linked) = SumOf(block_size, Linked)
    BY DEF SumOf
  <2>3. used + CountingIn(call) = SumOf(block_size, Linked)
    BY <1>1, LinkedIsIn DEF MemInv, SumInv
  <2> QED
    BY <2>1, <2>2, <2>3 DEF UsedExact
<1> QED
  BY <1>1, MemInvariant, PTL

\* The links of mem.c spell exactly the linked blocks, both ways.
THEOREM MemListExact == MemSpec => []ListExact
<1>1. ASSUME MemInv, NoMove PROVE ListExact
  <2>1. PICK s \in Seq(Block) : /\ Range(s) = Linked
                                /\ Spells(Block, NULL, s, first, last, next, prec)
    BY <1>1, LinkedIsIn DEF MemInv, ChainInv
  <2>2. {Nth(i) : i \in 0 .. Cardinality(Block)} = Linked \cup {NULL}
    BY <2>1, NthAll
  <2>3. ASSUME NEW b \in Linked
        PROVE  /\ prec[b] = NULL <=> b = first
               /\ next[b] = NULL <=> b = last
               /\ next[b] # NULL => prec[next[b]] = b
    <3>1. PICK i \in 1 .. Len(s) : b = s[i]
      BY <2>1, RangeOf
    <3>2. /\ s[i] = first <=> prec[s[i]] = NULL
          /\ s[i] = last <=> next[s[i]] = NULL
      BY <2>1, Beside
    <3>3. next[s[i]] # NULL => prec[next[s[i]]] = s[i]
      <4>1. /\ Len(s) \in Nat /\ next[s[i]] = EntryOf(NULL, s, i + 1)
            /\ \A j \in 1 .. Len(s) : prec[s[j]] = EntryOf(NULL, s, j - 1)
        BY <2>1 DEF Spells
      <4>2. CASE i = Len(s)
        BY <4>1, <4>2 DEF EntryOf
      <4>3. CASE i # Len(s)
        <5>1. i + 1 \in 1 .. Len(s) /\ (i + 1) - 1 = i
          BY <4>1, <4>3
        <5>2. next[s[i]] = s[i + 1] /\ prec[s[i + 1]] = EntryOf(NULL, s, i)
          BY <4>1, <5>1 DEF EntryOf
        <5> QED
          BY <5>2 DEF EntryOf
      <4> QED
        BY <4>2, <4>3
    <3> QED
      BY <3>1, <3>2, <3>3
  <2>4. first = NULL <=> last = NULL
    BY <2>1, Ends
  <2> QED
    BY <2>2, <2>3, <2>4 DEF ListExact
<1>2. MemInv => ListExact
  BY <1>1 DEF ListExact
<1> QED
  BY <1>2, MemInvariant, PTL

-----------------------------------------------------------------------------
(***************************************************************************)
(* No block is forgotten: one that nobody has a registration of is still   *)
(* in the hands of a call, which will hand it over or free it.             *)
(***************************************************************************)
About(b) == \E t \in Thread : call[t].at \notin {"idle", "relink"} /\ call[t].mem = b

HeldInv == \A b \in heap : About(b) \/ HeldIn(holds, b) > 0

\* A step that takes no call from its block, and no registration.
LEMMA HeldUnmoved ==
  ASSUME HeldInv, heap' = heap, holds' = holds, \A b \in Block : About(b) => About(b)',
         heap \subseteq Block
  PROVE  HeldInv'
BY DEF HeldInv

\* A step of t about block b.
LEMMA HeldKept ==
  ASSUME HeldInv, NEW t \in Thread, NEW b \in Block, heap' \subseteq Block,
         \A x \in Block : x # b /\ x \in heap' => /\ x \in heap
                                                  /\ HeldIn(holds', x) = HeldIn(holds, x),
         \A u \in Thread : u # t => call'[u] = call[u],
         call[t].at \notin {"idle", "relink"} => call[t].mem = b,
         b \in heap' => \/ call'[t].at \notin {"idle", "relink"} /\ call'[t].mem = b
                        \/ HeldIn(holds', b) > 0
  PROVE  HeldInv'
<1>1. ASSUME NEW x \in heap' PROVE About(x)' \/ HeldIn(holds', x) > 0
  <2>1. CASE x = b
    BY <1>1, <2>1 DEF About
  <2>2. CASE x # b
    <3>1. x \in heap /\ HeldIn(holds', x) = HeldIn(holds, x)
      BY <1>1, <2>2
    <3>2. About(x) => About(x)'
      BY <2>2 DEF About
    <3> QED
      BY <3>1, <3>2 DEF HeldInv
  <2> QED
    BY <2>1, <2>2
<1> QED
  BY <1>1 DEF HeldInv

LEMMA MallocHeld ==
  ASSUME CountInv, HeldInv, NEW t \in Thread, NEW b \in Block, NEW n \in BlockSizes, Malloc(t, b, n)
  PROVE  HeldInv'
<1>k. PICK k : k = Idle
  OBVIOUS
<1>s. PICK step : step = [k EXCEPT !.at = "link", !.mem = b, !.n = n]
  OBVIOUS
<1>1. /\ call[t] = Idle /\ heap' = heap \cup {b} /\ holds' = holds
      /\ call' = [call EXCEPT ![t] = step]
  BY <1>k, <1>s DEF Malloc, Goto
<1>2. step.at = "link" /\ step.mem = b
  BY ONLY <1>s, <1>k DEF Idle
<1>3. call \in [Thread -> Calls] /\ heap \subseteq Block
  BY DEF CountInv, FieldTypes
<1> QED
  BY <1>1, <1>2, <1>3, HeldKept DEF Idle

LEMMA RegistrarHeld ==
  ASSUME CountInv, HeldInv, NEW t \in Thread, NEW b \in Block,
         Unregister(t, b) \/ \E u \in Thread : Register(t, u, b)
  PROVE  HeldInv'
<1>k. PICK k : k = Idle
  OBVIOUS
<1>f. FieldTypes /\ call \in [Thread -> Calls] /\ heap \subseteq Block
  BY DEF CountInv, FieldTypes
<1>1. CASE Unregister(t, b)
  <2>0. PICK step : step = [k EXCEPT !.at = "unref", !.mem = b, !.n = ref_count[b]]
    OBVIOUS
  <2>h. holds[t][b] > 0
    BY <1>1 DEF Unregister, ReadCount
  <2>m. b \in heap
    BY <2>h, HeldIsMarked
  <2>1. /\ call[t] = Idle /\ call' = [call EXCEPT ![t] = step] /\ heap' = heap
        /\ holds' = [holds EXCEPT ![t][b] = holds[t][b] - 1]
    BY <1>1, <1>f, <1>k, <2>0, <2>m DEF Unregister, ReadCount, Marked, Goto, FieldTypes
  <2>2. step.at = "unref" /\ step.mem = b
    BY ONLY <2>0, <1>k DEF Idle
  <2>3. PICK n : n = holds[t][b] - 1
    OBVIOUS
  <2>4. n \in Nat /\ holds' = [holds EXCEPT ![t][b] = n]
    BY <1>f, <2>h, <2>1, <2>3, HeldType
  <2>5. \A x \in Block : x # b => HeldIn(holds', x) = HeldIn(holds, x)
    BY <1>f, <2>4, HoldWritten, ZenonT(60)
  <2>6. /\ call[t].at = "idle" /\ call'[t] = step
        /\ \A u \in Thread : u # t => call'[u] = call[u]
    BY <1>f, <2>1 DEF Idle
  <2> QED
    BY <1>f, <2>1, <2>2, <2>5, <2>6, HeldKept
<1>2. CASE \E u \in Thread : Register(t, u, b)
  <2>0. PICK u \in Thread : Register(t, u, b)
    BY <1>2
  <2>s. PICK step : step = [k EXCEPT !.at = "ref", !.mem = b, !.n = ref_count[b], !.to = u]
    OBVIOUS
  <2>m. b \in heap
    BY <2>0, HeldIsMarked DEF Register, ReadCount
  <2>1. /\ call[t] = Idle /\ call' = [call EXCEPT ![t] = step] /\ heap' = heap /\ holds' = holds
    BY <1>k, <2>0, <2>s, <2>m DEF Register, ReadCount, Marked, Goto
  <2>2. step.at = "ref" /\ step.mem = b
    BY ONLY <2>s, <1>k DEF Idle
  <2> QED
    BY <1>f, <2>1, <2>2, HeldKept DEF Idle
<1> QED
  BY <1>1, <1>2

\* The registration that the thread has moves with the block.
LEMMA ReallocHeld ==
  ASSUME CountInv, CountInv', HeldInv, Working = {}, NEW t \in Thread, NEW b \in Block,
         NEW c \in Block, NEW n \in BlockSizes, Realloc(t, b, c, n)
  PROVE  HeldInv'
<1>h. holds[t][b] > 0
  BY DEF Realloc
<1>m. b \in heap
  BY <1>h, HeldIsMarked
<1>1. /\ heap' = (heap \ {b}) \cup {c}
      /\ holds' = [holds EXCEPT ![t] = IF c = b THEN holds[t]
                                       ELSE [holds[t] EXCEPT ![c] = holds[t][b], ![b] = 0]]
  BY <1>m DEF Realloc, Marked
<1>2. /\ holds \in [Thread -> [Block -> Nat]] /\ heap \subseteq Block
      /\ holds' \in [Thread -> [Block -> Nat]] /\ heap' \subseteq Block
  BY DEF CountInv, FieldTypes
<1>3. holds'[t][c] = holds[t][b]
  BY <1>1, <1>2
<1>4. HeldIn(holds', c) > 0
  <2>1. PICK g : g = holds'
    OBVIOUS
  <2>2. HeldIn(g, c) \in Nat /\ g[t][c] =< HeldIn(g, c) /\ g[t][c] \in Nat
    BY <1>2, <2>1, HeldNat
  <2> QED
    BY <1>h, <1>3, <2>1, <2>2
<1>5. ASSUME NEW x \in heap', x # c PROVE HeldIn(holds', x) > 0
  <2>1. x \in heap /\ x \in Block /\ x # b
    BY <1>1, <1>2, <1>5
  <2>2. \A u \in Thread : holds'[u][x] = holds[u][x]
    BY <1>1, <1>2, <1>5, <2>1
  <2>3. HeldIn(holds', x) = HeldIn(holds, x)
    BY ONLY <2>2, HeldSame
  <2>4. ~About(x)
    BY DEF About, Working, Idle
  <2> QED
    BY <2>1, <2>3, <2>4 DEF HeldInv
<1> QED
  BY <1>4, <1>5 DEF HeldInv

\* t returns with the block, and a registration of it.
LEMMA CountHeld ==
  ASSUME CountInv, CountInv', HeldInv, NEW t \in Thread, Count(t) \/ Ref(t)
  PROVE  HeldInv'
<1>b. PICK b : b = call[t].mem
  OBVIOUS
<1>0. call[t].at \in {"count", "ref"}
  BY DEF Count, Ref, InSection
<1>f. /\ FieldTypes /\ call \in [Thread -> Calls] /\ heap \subseteq Block
      /\ holds \in [Thread -> [Block -> Nat]] /\ holds' \in [Thread -> [Block -> Nat]]
  BY DEF CountInv, FieldTypes
<1>2. b \in Block /\ CallOk(call[t], heap, ref_count, holds)
  BY <1>0, <1>b, CallAt
<1>1. /\ heap' = heap /\ call' = [call EXCEPT ![t] = Idle]
      /\ \E u \in Thread, n \in Nat : n > 0 /\ holds' = [holds EXCEPT ![u][b] = n]
  <2>1. CASE Count(t)
    <3>1. /\ heap' = heap /\ call' = [call EXCEPT ![t] = Idle]
          /\ holds' = [holds EXCEPT ![t][b] = 1]
      BY <1>b, <2>1 DEF Count, Return, Goto
    <3>2. 1 \in Nat /\ 1 > 0
      OBVIOUS
    <3> QED
      BY <3>1, <3>2
  <2>2. CASE Ref(t)
    <3>1. call[t].to \in Thread
      BY <1>2, <2>2 DEF CallOk, Ref
    <3>2. holds' = [holds EXCEPT ![call[t].to][b] = holds[call[t].to][b] + 1]
      BY <1>b, <1>f, <1>2, <2>2, <3>1 DEF Ref
    <3>3. holds[call[t].to][b] + 1 \in Nat /\ holds[call[t].to][b] + 1 > 0
      BY <1>f, <1>2, <3>1
    <3>4. heap' = heap /\ call' = [call EXCEPT ![t] = Idle]
      BY <2>2 DEF Ref, Return, Goto
    <3> QED
      BY <3>1, <3>2, <3>3, <3>4
  <2> QED
    BY <2>1, <2>2
<1>3. PICK u \in Thread, n \in Nat : n > 0 /\ holds' = [holds EXCEPT ![u][b] = n]
  BY <1>1
<1>4. \A x \in Block : x # b => HeldIn(holds', x) = HeldIn(holds, x)
  BY <1>f, <1>2, <1>3, HoldWritten, ZenonT(60)
<1>5. HeldIn(holds', b) > 0
  <2>1. PICK g : g = holds'
    OBVIOUS
  <2>2. HeldIn(g, b) \in Nat /\ g[u][b] =< HeldIn(g, b)
    BY <1>f, <1>2, <2>1, HeldNat
  <2>3. g[u][b] = n
    BY <1>f, <1>2, <1>3, <2>1
  <2> QED
    BY <1>3, <2>1, <2>2, <2>3
<1>6. /\ \A v \in Thread : v # t => call'[v] = call[v]
      /\ heap' = heap /\ call[t].mem = b
  BY <1>b, <1>f, <1>1
<1> QED
  BY <1>f, <1>2, <1>4, <1>5, <1>6, HeldKept

\* t goes on to free the block unless other registrations are left.
LEMMA UnrefHeld ==
  ASSUME CountInv, HeldInv, NEW t \in Thread, Unref(t)
  PROVE  HeldInv'
<1>b. PICK b : b = call[t].mem
  OBVIOUS
<1>k. PICK k : k = Idle
  OBVIOUS
<1>s. PICK step : step = IF call[t].n = 1 THEN [k EXCEPT !.at = "unlink", !.mem = b] ELSE Idle
  OBVIOUS
<1>0. call[t].at = "unref"
  BY DEF Unref
<1>f. FieldTypes /\ call \in [Thread -> Calls] /\ heap \subseteq Block
  BY DEF CountInv, FieldTypes
<1>2. b \in Block /\ CallOk(call[t], heap, ref_count, holds)
  BY <1>0, <1>b, CallAt
<1>3. call[t].n = HeldIn(holds, b) + 1 /\ HeldIn(holds, b) \in Nat
  BY <1>0, <1>b, <1>f, <1>2, HeldType DEF CallOk
<1>1. heap' = heap /\ holds' = holds /\ call' = [call EXCEPT ![t] = step]
  BY <1>b, <1>k, <1>s DEF Unref, Return, Goto, IsLast
<1>4. CASE call[t].n = 1
  <2>1. step = [k EXCEPT !.at = "unlink", !.mem = b]
    BY <1>4, <1>s
  <2>2. step.at = "unlink" /\ step.mem = b
    BY ONLY <2>1, <1>k DEF Idle
  <2> QED
    BY <1>b, <1>f, <1>1, <1>2, <2>2, HeldKept
<1>5. CASE call[t].n # 1
  <2>1. HeldIn(holds', b) > 0
    BY <1>1, <1>3, <1>5
  <2> QED
    BY <1>b, <1>f, <1>1, <1>2, <2>1, HeldKept
<1> QED
  BY <1>4, <1>5

LEMMA FreeHeld ==
  ASSUME CountInv, HeldInv, NEW t \in Thread, Free(t)
  PROVE  HeldInv'
<1>b. PICK b : b = call[t].mem
  OBVIOUS
<1>1. /\ call[t].at = "free" /\ heap' = heap \ {b} /\ holds' = holds
      /\ call' = [call EXCEPT ![t] = Idle]
  BY <1>b DEF Free, Return, Goto
<1>2. call \in [Thread -> Calls] /\ heap \subseteq Block /\ b \in Block
  BY <1>1, <1>b, CallAt DEF CountInv, FieldTypes
<1> QED
  BY <1>b, <1>1, <1>2, HeldKept

\* A step within a call that leaves it with its block.
LEMMA LinkHeld ==
  ASSUME CountInv, HeldInv, NEW t \in Thread,
         Take(t) \/ Link(t) \/ Relink(t) \/ Unlink(t), status' = "ok"
  PROVE  HeldInv'
<1>f. call \in [Thread -> Calls] /\ heap \subseteq Block
  BY DEF CountInv, FieldTypes
<1>1. CASE Take(t)
  BY <1>f, <1>1, HeldUnmoved DEF Take, About
<1>2. CASE Relink(t)
  <2>1. /\ call[t].at = "relink" /\ heap' = heap /\ holds' = holds
        /\ call' = [call EXCEPT ![t] = Idle]
    BY <1>2 DEF Relink, InSection, Return, Goto, Abort
  <2> QED
    BY <1>f, <2>1, HeldUnmoved DEF About
<1>3. CASE Link(t) \/ Unlink(t)
  <2>1. PICK a \in {"count", "free"} : call' = [call EXCEPT ![t] = [call[t] EXCEPT !.at = a]]
    BY <1>3 DEF Link, Unlink, InSection, Goto, Abort
  <2>2. /\ call[t].at \in {"link", "unlink"} /\ heap' = heap /\ holds' = holds
    BY <1>3 DEF Link, Unlink, InSection, Abort
  <2>3. PICK r : r = [call[t] EXCEPT !.at = a]
    OBVIOUS
  <2>4. r.at = a /\ r.mem = call[t].mem
    BY <1>f, <2>3 DEF Calls
  <2>5. call' = [call EXCEPT ![t] = r]
    BY <2>1, <2>3
  <2> QED
    BY <1>f, <2>2, <2>4, <2>5, HeldUnmoved DEF About
<1> QED
  BY <1>1, <1>2, <1>3

LEMMA HeldInvStep ==
  ASSUME MemInv, MemInv', HeldInv, [MemNext]_memVars
  PROVE  HeldInv'
<1>0. CountInv /\ CountInv' /\ heap \subseteq Block /\ status' = "ok"
  BY DEF MemInv, CountInv, FieldTypes
<1>1. CASE \E t \in Thread : Begin(t)
  <2>1. PICK t \in Thread : Begin(t)
    BY <1>1
  <2>2. CASE Allocate(t)
    BY <1>0, <2>2, MallocHeld DEF Allocate
  <2>3. CASE \E b \in Block : Unregister(t, b) \/ Share(t, b)
    BY <1>0, <2>3, RegistrarHeld DEF Share
  <2>4. CASE Working = {} /\ Resize(t)
    BY <1>0, <2>4, ReallocHeld DEF Resize
  <2> QED
    BY <2>1, <2>2, <2>3, <2>4 DEF Begin
<1>2. CASE \E t \in Thread : Proceed(t)
  BY <1>0, <1>2, LinkHeld, CountHeld, UnrefHeld, FreeHeld DEF Proceed
<1>3. CASE Open \/ (heap = {} /\ End) \/ UNCHANGED memVars
  <2>1. UNCHANGED <<heap, call, holds>>
    BY <1>0, <1>3 DEF Open, End, Abort, memVars
  <2> QED
    BY <1>0, <2>1, HeldUnmoved DEF About
<1> QED
  BY <1>1, <1>2, <1>3 DEF MemNext

\* The part of FreedAtOnce that every state shows: a block of which nobody has
\* a registration is one that a call is about, so that when no thread is in a
\* call there is none.
THEOREM MemNoneForgotten == MemSpec => [](Working = {} => \A b \in heap : Total(b) > 0)
<1>1. MemInit => MemInv /\ HeldInv
  BY MemInvInit DEF MemInit, HeldInv
<1>2. MemInv /\ HeldInv /\ [MemNext]_memVars => MemInv' /\ HeldInv'
  BY MemInvStep, HeldInvStep
<1>3. MemInv /\ HeldInv => (Working = {} => \A b \in heap : Total(b) > 0)
  <2>1. ASSUME HeldInv, Working = {}, NEW b \in heap PROVE Total(b) > 0
    <3>1. ~About(b)
      BY <2>1 DEF About, Working, Idle
    <3> QED
      BY <2>1, <3>1, TotalIsHeld DEF HeldInv
  <2> QED
    BY <2>1
<1> QED
  BY <1>1, <1>2, <1>3, PTL DEF MemSpec
=============================================================================
