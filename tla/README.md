# TLA+ models of libcnt

libcnt is a small C library of containers (shelf, list, sorted list, hash,
tree, stack), with the allocator they share, a UDP layer built from them, two
fixed-size algebra helpers and a variadic-argument builder. This directory
holds TLA+ modules translated from its source, the TLC configurations that
check them on small instances, and TLAPS proofs of the properties that matter
most, for every value of the constants.

## 1. The system

| Component | Source | State | Operations | Interacts with |
|---|---|---|---|---|
| shelf | `lib/cnt/shelf.c` | a chain of memory zones, a sorted free list in each, two levels of counters, one cursor of four pointers | new, del, clear, alloc, put, free, size, reset, each, islast | mem (zones); used by every container below |
| list | `lib/cnt/list.c` | double links between shelf elements, first and last, the element accessed last and its index | new, del, push, pop, get, set, alloc/insert by index or address, remove by index, value, element or address, next/prev, relink, clear, size | shelf; used by slist and tree |
| slist | `lib/cnt/slist.c` | a list kept sorted by a comparison function | set, insert, remove, tmp_alloc/tmp_free/tmp_insert | list (relink) |
| hash | `lib/cnt/hash.c` | lines of (key, value) pairs in shelf elements | new, put, get, remove (by key, by address), clear, reset/each/islast, move_key | shelf; used by udp |
| tree | `lib/cnt/tree.c`, `tree.h` | nodes in prefix order in one list, with links to father and brothers, a walk by position | new, add_node, nb_sons, get_son, each | list |
| stack | `lib/cnt/stack.c` | one block that doubles, the number of entries and its room; pointers into it on the client's side | new, push, pop, clear, get, size | mem (realloc) |
| mem | `lib/cnt/mem.c` | the list of registered blocks, bytes used, one mutex; a reference count in each block | init, end, alloc, realloc, register, unregister, consumption | used by everything, from several threads |
| udp | `lib/cnt/sys/udp.c` | a hash of links by peer address, with a count of references and a queue of datagrams each, in a shelf of buffers | init, end, socket construct/bind/del, link construct/del, sendto, receive, get_datagrams, shift_datagrams | hash, shelf |
| vec | `lib/cnt/vec.c` | a pool of vectors in a shelf, made and deleted on demand, and its handlers at exit | new, del, sums, scalings, products | shelf, `atexit`, mem (`cnt_end`) |
| matrix | `lib/cnt/matrix.c` | none | three products of matrices, two with a vector | vec |
| av_list | `lib/av_list` | a growing vector of argument words | start, arg, call | mem-independent realloc, assembler |
| log, thread, mutex, time, net | `lib/cnt/log.c`, `lib/cnt/sys` | a few statics | wrappers of the C library | used by mem and udp |

Only `mem` is written for several threads; `shelf.h` says of its cursor that it
is not thread safe, and every other container is sequential code whose
difficulty is in long sequences of legal calls that leave pointers, caches and
counters out of step.

What makes each component correct:

* shelf: no element is handed out twice or lost; free lists stay sorted and
  inside their zone; counters are exact; a walk returns each element once
  whatever is freed under it.
* list: the links, the ends and the cached position always describe the same
  sequence, and the operations are the sequence operations they name.
* mem: a block lives exactly as long as it has a registered user, in every
  interleaving of the threads; the list of blocks and the byte count agree.
* slist: sorted after every operation. hash: a partial function of keys.
  tree: the list is a prefix order of one tree. stack: a stack of values, in
  its block, and pointers into it that hold as long as a client may think. udp:
  a datagram is delivered to the link of its sender.
* vec: the pool outlives its vectors and not `mem_end`, wherever a program ends
  that gives `cnt_end` to `atexit` while it has no vector. The operations of vec and matrix give what they should, also where the
  result replaces an operand.

## 2. The modules

| Module | What it is |
|---|---|
| `Shelf` | `shelf.c` in full: zones, free lists, counters, cursor |
| `ShelfSet` | what the shelf promises of allocation: a set of elements |
| `ShelfWalk` | what the cursor promises: a walk over a changing set |
| `ShelfCursor` | `Shelf` under a client that respects what the cursor can bear, with a history of the walk |
| `CommonLemmas` | lemmas that several proofs cite: sequences, recursive functions, sums over finite sets, doubly linked lists |
| `ShelfProof`, `CursorProof` | theorems about `Shelf` and about `ShelfCursor` |
| `ListProof` | theorems about `List` |
| `HashProof` | theorems about `Hash` and `HashCursor` |
| `MemProof` | theorems about `MemUse` under careful clients |
| `ContainersProof` | theorems about `VecPool`, `Stack`, `SList`, `Tree` and `Algebra` |
| `UdpProof` | theorems about `Udp` |
| `List` | `list.c`: links in both directions, ends, the cached position |
| `ListSeq` | what `list.h` promises: a sequence of addresses with values |
| `SList` | `slist.c` over `ListSeq` |
| `Tree` | `tree.c` and the inline functions of `tree.h`, over a list that is a sequence |
| `TreeSons` | what a tree is: a sequence of sons for every node |
| `Hash` | `hash.c` but its cursor, and the client's memory in which it keeps the keys |
| `HashCursor` | `Hash` composed with `ShelfWalk`: `hash.c` with its cursor |
| `HashMap` | what `hash.h` promises: a map from keys to values with an address |
| `Udp` | `udp.c` over `Hash` (by `INSTANCE`), and the client's addresses |
| `UdpQueues` | what it is for: a queue of datagrams for each peer |
| `Mem` | `mem.c`, step by step as other threads can see it |
| `MemUse` | `Mem` under clients: careful ones, ones that move blocks, ones that share them |
| `Stack` | `stack.c`: the block, the widths of its sizes, the pointers of the client |
| `StackSeq` | what `stack.h` promises: a stack of values |
| `VecPool` | the pool of `vec.c`, and the end of the program |
| `Algebra` | the operations of `vec.c` and `matrix.c`, coordinate by coordinate |
| `MCAlgebra` | vectors and matrices for `Algebra` |
| `MCContainers` | `SList`, `Tree`, `Stack`, `VecPool` and `MCAlgebra` side by side, for one run |
| `MCList`, `MCHash`, ... | instances of the other modules for TLC: keys, ranks, symmetry |

The shelf is modelled with its pointers once; the containers on top use what
`ShelfSet` says of it (any unused address may be handed out next, a freed one
included), which is proved of `Shelf`. In the same way `SList` and `Tree` use
`ListSeq`, and `Udp` uses `Hash` itself. The cursor of a hash is that of its
shelf; `HashCursor` takes it from `ShelfWalk`, which is proved of
`ShelfCursor`, with the same demands on the client.

### State and actions

* `Shelf`. `chain` is the list of `memzone`s; `zone[s]` has the fields of the
  one whose data start at address `s`; `total_used` is `nb_used_elements`;
  `cur` has `each_mz`, `each_next_free`, `each_last` and `each_next`. An
  address is a number, so the code's comparisons of pointers are comparisons
  of numbers. `status` becomes `"assert"` when an assert fails and `"wild"`
  when freed memory is read. `held` is the client's side. One action per
  function of `shelf.h`; `AllocInZone` and `AllocNewZone` are the two cases of
  `cntShelf_alloc`, and `LeaveElement`, `InsertionPoint`, `CursorAfterFree`
  and `Unlinks` are the four parts of `cntShelf_free`.
* `List`. `elements`, `first`, `last`, `next`, `previous`, `value` are the
  structures; `cached` is the pair that `order_to_index` keeps; `order` is a
  history of the list that should be. `Lookup` is `order_to_index` with its
  three ways.
* `SList`. `items` is the sequence; `tmp` is the element between
  `cntSList_tmp_alloc` and `cntSList_tmp_insert`; `Rank` stands for the
  comparison function, under which different values may be equal.
* `Tree`. `list` is the order of the nodes; `father`, `brother_l`,
  `brother_r` their links; `owed` is a history of the walk.
* `Hash`. `lines` and `next` chain the elements; `place[e]` is the pointer
  that is the key of `e`, and `content` is what the client has there; `lent`
  records which place the client gave last for each key, and so must keep.
  The client writes to all others (`Scribble`).
* `HashCursor`. Each action is one of `Hash` together with what it makes the
  shelf's walk do: `PutAndWalk` adds an element to the walk or updates one,
  `RemoveAndWalk` takes one out of it. `fetched` says that an element may have
  been fetched ahead, in which case the client removes only what was returned.
* `Stack`. `cell` has the values in the block, also those of popped elements;
  `bytes` is what was asked of `mem.c`, computed as the code does, modulo
  `UintSize`; `kept` and `popped` are the pointers that the client may use.
  `PushAndGrow` is `mem_realloc`: it copies what fits and picks any block, the
  old one included. `WriteThrough` is the client. The sizes asked for are any
  of an unsigned, and the code checks none. `Spill` is the push whose place is
  not in the block; the model stops there, as what it overwrites is not the
  stack's.
* `VecPool`. `handlers` is what `atexit` has, the last one first; `running`
  says whether the program, its own handler or the C library runs; `faulty`
  records a free without a pool, or a `mem_end` with the pool there.
  `Vec_new` fails when `atexit` takes no more. The program registers handlers
  when it likes, with two guards in `Main`: `cnt_end` while it has no vector,
  and once it has a handler of its own that frees vectors it makes no pool, as
  that handler would run when the pool is gone. `AnyEndSpec` is without the
  first.
* `Algebra`. `call` is one call, of any operation with any operands that the
  code and its asserts allow; each `VecStep` or `MatStep` writes one
  coordinate from what is there at that time, so that an operand which is the
  destination is read half written, as in the code. `given` keeps copies.
* `Udp`. The variables of `Hash`, the fields of a link, the buffers.
  `Arrive` is `udp_socket_receive` up to the return of `recvfrom`, which has
  written the address of the sender into the variable `from` of the call;
  `Dispatch` is the rest. `ReuseFrame` says that the memory of `from` is
  anybody's once the call has returned.
* `Mem`. The list of blocks, `used`, the fields of a header, the mutex, and
  for each thread the call it is in. A step ends where another thread can get
  in: at `malloc`, `realloc`, `free`, at the load and at the store of
  `ref_count` (no mutex covers them), at taking the mutex and at releasing it.

## 3. What is checked

Every property that is checked has a mutant beside the definition it mutates
(`UnlinksEarly` before `Unlinks`, and so on): a plausible slip in the code that
the property finds.

| Run | Shows |
|---|---|
| `shelf_alloc` | `AnySpec`: a client that does anything, double frees and frees of any stale address included. Zones, free lists and counters stay exact and the shelf is a set (`ImplementsSet`) |
| `shelf_cursor` | `CursorSpec`: a walk with allocs and frees under it returns every element that stays once (`ImplementsWalk`), because the cursor's three pointers stay exact |
| `shelf_prefetch` | **finding**: the same with a client that may free the element fetched ahead, which the next `each` then returns |
| `list` | links, ends, cache and all three ways of looking up agree with the sequence, and removal by value removes the first match |
| `mem` | two careful threads: list, total and counts are exact in every interleaving, no block goes while registered, and all others go in the end |
| `mem_moving` | **finding**: two threads, one of which reallocs: an assert on the mark of a neighbour fails |
| `mem_sharing` | **finding**: two threads that each hold a registration change the count at once: a block is freed under a holder |
| `hash` | the lines are a map from keys to values whatever the client writes at the places it need not keep (`ImplementsMap`), and a walk returns each key that stays once, whatever is put, updated, moved or removed under it (`ImplementsKeyWalk`) |
| `containers` | five parts in one run, as they share no state. Sorted list: sorted at all times but for the element being built, and removal by value meets all that it should. Tree: prefix order, sons (`ImplementsTree`), and a walk that misses nothing when nodes are added under it. Stack, made with any size: a push writes past the block only if the size is 0, has wrapped or wraps when doubled (`InBlock`), pointers hold, values are a stack (`ImplementsStack`). Vectors: none is freed after its pool, and the pool is gone before `mem_end`, if `cnt_end` is given to `atexit` while there is no vector (`ExitInOrder`). Algebra: results are those of copies of the operands (`AliasFree`), a vector product is normal to its operands (`ProductNormal`), a product of matrices acts as the two in turn (`ActsInTurn`) |
| `exit_order` | **finding**: the pool of a program that gives `cnt_end` to `atexit` after its first `Vec_new` is there when `mem_end` runs |
| `udp` | datagrams from peers the client has made a link to: one queue each, in order, none leaked |
| `udp_stray` | **finding**: datagrams from others are queued with the wrong peer |

### Bounds, and why they are enough

* Shelf: three slots, the first zone between the other two, so zones are
  linked with and against address order; one or two elements in the first
  zone, growing by half each time to three zones of three sizes. `Stride`
  bounds the size of a zone. The cursor runs hold at most `MaxHeld` elements.
* List: five elements; with them a lookup has elements at both ends, in the
  middle and between, and `CacheBeyond` = 1 stands for the 5 of line 104, so
  the cached way is taken in a list this short. Two values make matches and
  mismatches.
* Hash: four keys, three on one line (head, middle and end of a line), three
  elements and three places: a full line, and one key that takes an element
  over. Udp: three peers, two on one line, two links, three buffers, at most
  `MaxRefs` = 3 references to a link.
* SList: four values, two of which compare equal; five elements. Tree: five
  nodes, enough for brothers of fathers at two levels.
* Stack: an unsigned has four bits (`UintSize` = 16) and a value three bytes, so
  that stacks of one and two values double up to four, and wrap on the next
  doubling; one of seven has wrapped when it is made, to room for one; one of
  none has no room at all. Two blocks, so that a growing stack stays or moves.
* VecPool: three vectors; `AtexitMax` = 5 handlers in any order that `Main`
  allows, `cnt_end` among them or not (POSIX guarantees 32): enough for pools
  to be made again, with handlers between them, and to fail. The finding needs
  two handlers.
* Algebra: three vectors and three matrices, of two sets of starting values in
  general position, every choice of operands among them. A call is linear in
  each operand, so what goes wrong on reading a coordinate too late goes wrong
  on these; it is a check on samples all the same.
* Mem: two threads, three blocks (a block between two others), two sizes, at
  most `MaxHolds` = 2 registrations of a block.

### Fairness

Only `Mem` needs any: weak fairness of each thread's `Proceed`, the rest of a
call it has begun. The system runs every thread; nothing is assumed of the
order in which a mutex is given to those waiting, so a thread may starve while
others keep calling. `FreedAtOnce` is therefore conditional: if the threads
come to make no more calls (`Quiet`), those under way end and no block without
a registration is left. The containers are sequential and promise no progress
of their own.

### Findings

* `shelf.c:165`: the element that `islast`, or the free of the last one
  returned, has fetched ahead is in `each_next` and in `each_last` at once, so
  freeing it takes the branch that does nothing, and `each` returns it after.
* `mem.c:131`: `mem_realloc` moves the block before it takes the mutex.
* `mem.c:163`: the counts of references are changed outside the mutex.
* `udp.c:184`: the key of a link made by `udp_socket_receive` points into the
  frame of that call.
* `vec.c:54`: the first `Vec_new` gives `atexit` the handler that deletes the
  pool. A `cnt_end` that is given to `atexit` later, which `cnt.h:33` calls
  suitable without a word on when, runs before it, and `mem_end` finds the
  pool; in a build with asserts `mem.c:61` then reads through NULL.

Four more were found by reading, and no run asks a question about them:
`list.c:337` writes through a NULL `previous` when an element is relinked to the
head (so `cntSList_tmp_insert` of a lowest value crashes), which `Relink` has as
a fault and `ListNext` no client for; `hash.c:244` aborts on the string keys
that `hash.h:70` allows; in `udp.c`, line 170 expects `select` to return
`EINTR`, which it never does, and line 174 takes the -1 of a failing `recvfrom`
for a length; a receive of the model succeeds. That `stack.c:60` doubles a size
of zero to zero, and one of `2^31` too, is in `Stack`: such a stack reaches
`Spill`, which `InBlock` allows for these sizes alone. No doc says what a size
may be.

## 4. What is proved

Every property that a passing run checks is a theorem for every value of the
constants, but for the one that is liveness, `FreedAtOnce`; a run shows each of
them on a small instance.

| Module | Theorems | Assumed |
|---|---|---|
| `ShelfProof` | types, `HeldExact`, `FreeListsSorted`, `SizeExact`, `ChainExact`, `NoEmptyZone` and `ImplementsSet`, of the client that does anything | `ShelfAssumption`: slots are positive addresses at least `Stride` apart and the first zone fits in one, that is, memory areas do not overlap |
| `CursorProof` | `PrefetchIsLast` of any client; `NoFault`, `NextFreeExact` and `ImplementsWalk` under a walk, and `ReturnsElement`, which no run checks, as `ImplementsWalk` says more | the same |
| `ListProof` | `LinksExact`, `CacheExact`, `LookupExact`, `RemovesFirstMatch`, `ImplementsSeq` | `ListAssumption`: NULL is no element |
| `HashProof` | `AllFound`, `ImplementsMap`, `ImplementsKeyWalk` | `HashAssumption`: NULL is no element, place or entry; a line or more; `HashOf` gives a line |
| `MemProof` | `KeptWhileRegistered`, `CountExact`, `MarksHold`, `UsedExact`, `ListExact` of careful clients, and `MemNoneForgotten`, the part of `FreedAtOnce` that is safety | `MemAssumption`: finitely many threads and blocks, sizes are naturals |
| `ContainersProof` | `ExitInOrder`; `InBlock`, `PointersHold`, `ImplementsStack`; `Sorted`, `RemovalMeetsAll`; `WalkMissesNone`, `PrefixOrder`, `ImplementsTree`; `AliasFree`, `ProductNormal`, `ActsInTurn` | `StackAssumption`: the sizes asked for are those of an unsigned; `SListAssumption`, `TreeAssumption`: NULL is no element, ranks are naturals, there is a root; `AlgebraAssumption`: coordinates are integers |
| `UdpProof` | `QueuesExact`, `KeptWhileHeld`, `FromSender` and `ImplementsQueues`, where datagrams come from peers that have a link | `UdpAssumption`: the frame of a call is no place of the client; finitely many datagrams; NULL is no link, place, entry, datagram or queue record; a line or more; `HashOf` gives a line |

No assumption speaks of what a call does. Clients are those of the
specifications named in the runs, and what one does not do is in the guards of
its actions. Some of these guards the code asks for, in an assert or a comment;
others are the model's own, and a theorem says nothing of a program that does
what they exclude:

* `CarefulFree` (`ShelfCursor`): no free after `clear` or `new` with a cursor
  left over from a walk. Nothing in `shelf.h` asks for it, and a hash that is
  cleared in the middle of a walk and used again does it. `FreeUnfetched`, and
  `HashCursor` with it: no free of the element fetched ahead (run
  `shelf_prefetch`).
* `Begin` (`MemUse`): a block is moved while no other thread is in a call, and
  its count is changed by one call at a time. The runs `mem_moving` and
  `mem_sharing` show what happens otherwise.
* `SListNext`: while an element is being built, no insert and no removal by
  value, which would compare with it.
* `ListNext`, `SListNext`: no relink to the head.
* `Main` (`VecPool`): when `cnt_end` may be given to `atexit` (run
  `exit_order`), and no new pool after a handler of the program.
* `Careful` (`Algebra`): products of matrices have another destination. Only
  that of vectors has an assert for it.
* `UdpNext`: no second link for an address in use, and datagrams from peers
  with a link only (run `udp_stray`).

Hardly any of the properties is inductive. What each invariant adds, and why:

* `ShelfInv`. That a free list is sorted does not say that a counter of one
  means one element in use, and `HeldExact` needs both. It has, for each slot,
  `ZoneOK` (types, a sorted free list inside the zone, used + free = size), for
  the chain that it has each slot with a zone once, the first zone first, and
  for the client that `held` is what the zones have in use, a finite set whose
  size is the counter. Inserting at the place of lines 183-184 keeps a list
  sorted and adds one element (`InsertionPointExact`); a sorted list has as many
  elements as entries, by which counters become cardinalities
  (`SortedCardinality`); zones do not overlap (`SpansDisjoint`), so a change in
  one is the change of the whole (`UpdateZone`). The cursor enters with its type
  only, which is why these theorems hold of a client that misuses it.
* `WalkInv`. `CursorOk` says that the cursor stands on a zone of the chain, its
  `each_next_free` on the first free element above it, and what was fetched is
  in use; `Ahead` is the set of elements in use that the cursor has not passed.
  `SkipExact` and `TakeCursor` say, of the functions, that the skipping of free
  elements and of zones finds the first element ahead and takes exactly that
  one. `WalkInv` then says that what the client is still owed is ahead and what
  it has seen is not; and `CountsAdd`, that the counters of the zones add up to
  that of the shelf, which is what the asserts of `all_memzone_del` and of
  `cntShelf_free` come to. The refinement maps the walk of `ShelfWalk` to what
  was seen and is owed.
* `ListInv`: the links spell `order`, the cached position is that of the cached
  element, and elements not in use have no link. An operation by index is right
  because the cache is, and leaves a right cache because the links are.
* `HashInv`: each line spells a sequence of exactly the elements whose key
  belongs to it, no two elements have one key, and the place of a key is the one
  the client gave last. `ImplementsMap` and `AllFound` follow from how far the
  loops of `hash.c` get down that sequence. For `ImplementsKeyWalk`
  (`WalkSeen`, `KeyView`): as no two elements have one key, looking at keys for
  elements commutes with what a walk does to the sequence of elements returned.
* `MemInv`: what a step does to a block depends on what the calls under way have
  read. It says of each call what it may rely on at each step (`CallInv`), of
  each block who is about it (`BlockInv`), that no two calls are about one block
  (`Apart`), what the links look like while a block that has moved is still
  linked at its old address (`ChainInv`), and what the total is short of
  (`SumInv`).
* `PoolInv`: the order in which the handlers at exit can stand: none of the pool
  before one of the program's own (`HandlersInOrder`), and one of the pool
  before any `cnt_end` as long as there is a pool (`PoolFirst`). `StackInv`: the
  values are in the block there is, whatever has wrapped; every pointer of the
  client is to it; and a push that left it found a size that is 0, has wrapped
  or wraps (`Misfit`).
  `SListInv`: the list is sorted but for the element being built, which is last.
  `TreeInv`: each node but the root comes after its father, with only
  descendants of that father between (`Nested`); nodes owed to a walk are ahead
  of its position. `Brothers` adds what the links to the right spell: for each
  node the sequence of its sons, of which the first is the element after it, and
  a node that is added goes to the front of it.
* `AlgebraInv`: the coordinates written so far are the results, and all others
  are as given; a coordinate written is not read again, or is multiplied by 0
  (`ReadsGiven`). The rest is polynomial identities (`ProductIdentities`,
  `LineInTurn`).

* `UdpInv`: the links are a hash of which the theorems of `HashProof` speak
  (by `INSTANCE`), and no key of one is in the frame of a call (`LinksInv`); a
  link is there while the client has a reference to it, and counts them
  (`RefsExact`); a datagram being received is in no queue (`Receiving`); and the
  links from each `first_datagram` on spell disjoint sequences that end at
  `last_datagram` and have between them all buffers but that one (`QueuesOk`).
  The refinement reads off these sequences, peer by peer, the queues of
  `UdpQueues`. No datagram comes from a peer without a link, which is what
  `StrayNext` has and the run `udp_stray` refutes.
* `HeldInv`, beside `MemInv`: each block has a registration or is that of a call
  under way, which will return with it or free it. An unregistration that leaves
  no registration has read the count that says so, as `CallInv` has it.

Only model-checked:

* `FreedAtOnce`: liveness under fairness is out of the prover's reach. That no
  block is left without a registration once the threads are in no call is
  proved (`MemNoneForgotten`); that the calls end is not.
* The findings, which are counterexamples.

The models are written to be proved about: where the code loops until a
condition holds they have the place where the loop stops (`CHOOSE` with the
condition) and no recursive operator; sums are the folds of the community
modules, whose recursion the lemmas of `CommonLemmas` unroll (`SumStep`).

## 5. What is not modelled

* Failure of `malloc` anywhere: the code returns NULL and changes nothing.
* `max_used` and the printing functions of `mem.c`; logging.
* Sockets in `udp.c`, which are file descriptors in a shelf; its statistics,
  which nothing reads, and with them `sendto`; the failure of `recvfrom`; a link
  in memory of the client.
* What happens to a stack after a push past its block (`Spill`). The flag
  `resizeable` is stored and never read.
* What a program reads or writes through a pointer that a growing push made
  stale.
* `Vec_norm`, `Vec_normalize` and `Vec_dist`, which have a square root in them,
  and the rounding of doubles.
* The sum that `hash_func` computes: `HashOf` is any function to the lines.
* `av_list`: its list has no caller but its check, and the call is machine
  code. `log`, `thread`, `net`, `time`: wrappers without state that another
  part depends on.

## 6. Plan

Modules: the sockets of `Udp` and the failure of `recvfrom`; `AvList`, a list
that `realloc` moves under its owner.
