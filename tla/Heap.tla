-------------------------------- MODULE Heap --------------------------------
(***************************************************************************)
(* The kernel heap (src/memory/alloc.cpp).  Small requests come from pages *)
(* cut into cells of one size, big ones from runs of pages of their own;   *)
(* free big blocks stand in a skip list by size.  Every call holds         *)
(* mem_lock from its first statement to its last and is one step.          *)
(*                                                                         *)
(* Addresses are numbers.  A page is known by its index; the heap starts   *)
(* at page 1.  A cell stack is the sequence of its addresses, top first,   *)
(* and the list of the pages of a bin the sequence of their indices.       *)
(* What blocks hold is not modelled: calloc is malloc of the product.      *)
(* prev, next and klmalloc_newest_big of big blocks are only written.      *)
(***************************************************************************)
EXTENDS Integers, SequencesExt

CONSTANTS
  PAGE_SIZE, NUM_BINS, SMALLEST_BIN_LOG, SKIP_MAX_LEVEL,
  Header, BigHeader,     \* sizeof the two headers
  MaxPages,              \* bound: the pages sbrk has to give
  MaxLive,               \* bound: the blocks in use at a time
  Sizes, Resizes,        \* the sizes asked of malloc, valloc; of realloc
  Nil                    \* no page

ASSUME HeapAssumption ==
  /\ {PAGE_SIZE, NUM_BINS, Header, BigHeader, MaxPages, MaxLive} \subseteq Nat \ {0}
  /\ {SMALLEST_BIN_LOG, SKIP_MAX_LEVEL} \subseteq Nat
  /\ Header < BigHeader /\ BigHeader < PAGE_SIZE
  /\ Sizes \subseteq Nat \ {0} /\ Resizes \subseteq Nat
  /\ Nil \notin Nat

(* A cell of the largest bin fits into a page behind the bigger header; the *)
(* sizes are those whose bits klmalloc_bin_size counts below 2^30; and what *)
(* is left of a page, the least a big block holds, is no number of a bin.  *)
ASSUME SizeAssumption ==
  /\ 1 < NUM_BINS /\ SMALLEST_BIN_LOG + NUM_BINS <= 30
  /\ \A b \in 0 .. NUM_BINS - 2 : 2 ^ (SMALLEST_BIN_LOG + b) <= PAGE_SIZE - BigHeader
  /\ NUM_BINS < PAGE_SIZE - BigHeader
  /\ \A n \in Sizes \cup Resizes : n + PAGE_SIZE < 2 ^ 30

VARIABLES
  heap,           \* the state of the allocator, a record
  live,           \* the blocks in use, with the size asked for
  held            \* mem_lock is held by a call that never ends

vars == <<heap, live, held>>

Pages == 1 .. MaxPages
Levels == 0 .. SKIP_MAX_LEVEL
BIG_BIN == NUM_BINS - 1
List == 0                    \* klmalloc_big_bins.head
Address(p) == p * PAGE_SIZE
PageOf(a) == a \div PAGE_SIZE

-----------------------------------------------------------------------------
(* klmalloc_adjust_bin *)
AdjustBin(bin) == IF bin <= SMALLEST_BIN_LOG THEN 0
                  ELSE LET b == bin - (SMALLEST_BIN_LOG + 1)
                       IN IF b > BIG_BIN THEN BIG_BIN ELSE b

(* klmalloc_bin_size: the bits of n, one more unless n is a power of two. *)
BinSize(n) == LET bits == CHOOSE k \in 1 .. 30 : 2 ^ (k - 1) <= n /\ n < 2 ^ k
              IN AdjustBin(IF n = 2 ^ (bits - 1) THEN bits ELSE bits + 1)

CellSize(b) == 2 ^ (SMALLEST_BIN_LOG + b)

(* Mutation: the cell at the end of the page is made as well. *)
FreshCellsOneMore(p, b) ==
  [i \in 1 .. (PAGE_SIZE - Header) \div CellSize(b) + 1 |->
     Address(p) + Header + (i - 1) * CellSize(b)]

(* The stack of a new page. *)
FreshCells(p, b) ==
  [i \in 1 .. (PAGE_SIZE - Header) \div CellSize(b) |->
     Address(p) + Header + (i - 1) * CellSize(b)]

-----------------------------------------------------------------------------
(* The walk along one level, as far as the sizes are smaller than s. *)
Walk(h, from, i, s) ==
  LET walk[n \in Pages \cup {List}] ==
        LET next == h.forward[n][i]
        IN IF next # Nil /\ h.bucket[next] < s THEN walk[next] ELSE n
  IN walk[from]

(* update[]: where the walk of each level ends, from the top level down. *)
Update(h, s) ==
  LET update[i \in 0 .. h.level] ==
        Walk(h, IF i = h.level THEN List ELSE update[i + 1], i, s)
  IN update

(* Mutation: the first block is taken. *)
FindBestFirst(h, n) == h.forward[List][0]

(* klmalloc_skip_list_findbest *)
FindBest(h, n) == h.forward[Update(h, n)[0]][0]

(* Mutation: the level of the list is not raised. *)
InsertLow(h, v, top) ==
  LET update == Update(h, h.bucket[v])
      At(i) == IF i <= h.level THEN update[i] ELSE List
  IN [h EXCEPT !.forward = [n \in Pages \cup {List} |-> [i \in Levels |->
        IF i > top THEN h.forward[n][i]
        ELSE IF n = v THEN h.forward[At(i)][i]
        ELSE IF n = At(i) THEN v ELSE h.forward[n][i]]]]

(* klmalloc_skip_list_insert; top is klmalloc_random_level. *)
Insert(h, v, top) ==
  LET update == Update(h, h.bucket[v])
      At(i) == IF i <= h.level THEN update[i] ELSE List
  IN IF FindBest(h, h.bucket[v]) = v THEN h
     ELSE [h EXCEPT
            !.level = IF top > @ THEN top ELSE @,
            !.forward = [n \in Pages \cup {List} |-> [i \in Levels |->
               IF i > top THEN h.forward[n][i]
               ELSE IF n = v THEN h.forward[At(i)][i]
               ELSE IF n = At(i) THEN v ELSE h.forward[n][i]]]]

(* The last loop of klmalloc_skip_list_delete. *)
LevelOf(forward, level) ==
  CHOOSE l \in 0 .. level :
    /\ l = 0 \/ forward[List][l] # Nil
    /\ \A i \in l + 1 .. level : forward[List][i] = Nil

(* klmalloc_skip_list_delete: it unlinks v from the levels below the first *)
(* on which update[] does not lead to it.                                  *)
Delete(h, v) ==
  LET update == Update(h, h.bucket[v])
      Found(i) == \A j \in 0 .. i : h.forward[update[j]][j] = v
      forward == [n \in Pages \cup {List} |-> [i \in Levels |->
                    IF i <= h.level /\ n = update[i] /\ Found(i)
                    THEN h.forward[v][i] ELSE h.forward[n][i]]]
  IN [h EXCEPT !.forward = forward, !.level = LevelOf(forward, @)]

-----------------------------------------------------------------------------
(* A field of the header of page p, if there is such a page. *)
Put(field, p, x) == [q \in Pages |-> IF q = p THEN x ELSE field[q]]

(* klmalloc of a small size: the first page of the bin, a new one if none;  *)
(* klmalloc_stack_pop; klmalloc_list_decouple when that was the last cell. *)
MallocSmall(h, b) ==
  LET new == h.bins[b] = <<>>
      p == IF new THEN h.brk + 1 ELSE Head(h.bins[b])
      stack == IF new THEN FreshCells(p, b) ELSE h.cells[p]
      list == IF new THEN <<p>> ELSE h.bins[b]
  IN [ptr |-> Head(stack),
      heap |-> [h EXCEPT !.brk = IF new THEN p ELSE @,
                         !.bucket = Put(@, p, b),
                         !.cells = Put(@, p, Tail(stack)),
                         !.bins[b] = IF Tail(stack) = <<>> THEN Tail(list) ELSE list]]

(* klmalloc of a big size: the best free block, else new pages. *)
MallocBig(h, n) ==
  LET best == FindBest(h, n)
      pages == (n + BigHeader) \div PAGE_SIZE + 1
      p == h.brk + 1
  IN IF best # Nil
     THEN [ptr |-> Head(h.cells[best]),
           heap |-> [Delete(h, best) EXCEPT !.cells[best] = Tail(@)]]
     ELSE [ptr |-> Address(p) + BigHeader,
           heap |-> [h EXCEPT !.brk = @ + pages,
                              !.bucket = Put(@, p, Address(pages) - BigHeader)]]

(* klmalloc *)
Kmalloc(h, n) == IF BinSize(n) < BIG_BIN THEN MallocSmall(h, BinSize(n))
                                         ELSE MallocBig(h, n)

(* Mutation: the page is put on the list whatever its stack holds. *)
KfreeListsAlways(h, ptr, top) ==
  LET p == PageOf(ptr)
      b == h.bucket[p]
  IN IF b > NUM_BINS
     THEN Insert([h EXCEPT !.cells[p] = <<Address(p) + BigHeader>> \o @], p, top)
     ELSE [h EXCEPT !.bins[b] = <<p>> \o @, !.cells[p] = <<ptr>> \o @]

(* The rest of klfree; a page without bin_magic is left alone. *)
KfreeAt(h, a, top) ==
  LET p == PageOf(a)
      b == h.bucket[p]
  IN IF b = Nil THEN h
     ELSE IF b > NUM_BINS
     THEN Insert([h EXCEPT !.cells[p] = <<Address(p) + BigHeader>> \o @], p, top)
     ELSE [h EXCEPT !.bins[b] = IF h.cells[p] = <<>> THEN <<p>> \o @ ELSE @,
                    !.cells[p] = <<a>> \o @]

(* Mutation: the header of a valloc block is looked for in its own page. *)
KfreeUnaligned(h, ptr, top) == KfreeAt(h, ptr, top)

(* klfree: the header of a page-aligned (valloc) block is one page before. *)
Kfree(h, ptr, top) ==
  KfreeAt(h, IF ptr % PAGE_SIZE = 0 THEN ptr - 1 ELSE ptr, top)

(* klvalloc: the size it asks for, and the address it makes of the block. *)
ValSize(n) == n + PAGE_SIZE - BigHeader

(* klrealloc: what the block of a pointer can hold. *)
Room(h, ptr) == LET b == h.bucket[PageOf(ptr)]
                IN IF b < BIG_BIN THEN CellSize(b) ELSE b

-----------------------------------------------------------------------------
(* heap_install; the pages of sbrk are zeroed *)
Init == /\ heap = [brk |-> 0, level |-> 0,
                   bucket |-> [p \in Pages |-> Nil],
                   cells |-> [p \in Pages |-> <<>>],
                   bins |-> [b \in 0 .. BIG_BIN - 1 |-> <<>>],
                   forward |-> [n \in Pages \cup {List} |-> [i \in Levels |-> Nil]]]
        /\ live = {}
        /\ held = FALSE

(* The result of a call; sbrk has the pages. *)
Returns(h, blocks) == /\ h.brk <= MaxPages
                      /\ heap' = h
                      /\ live' = blocks
                      /\ UNCHANGED held

Block(ptr, n) == [ptr |-> ptr, size |-> n]

(* malloc, calloc *)
Malloc(n) == /\ ~held /\ Cardinality(live) < MaxLive
             /\ LET r == Kmalloc(heap, n)
                IN Returns(r.heap, live \cup {Block(r.ptr, n)})

(* valloc *)
Valloc(n) == /\ ~held /\ Cardinality(live) < MaxLive
             /\ LET r == Kmalloc(heap, ValSize(n))
                IN Returns(r.heap,
                           live \cup {Block(r.ptr + PAGE_SIZE - BigHeader, n)})

(* free *)
Free(b, top) == /\ ~held
                /\ Returns(Kfree(heap, b.ptr, top), live \ {b})

(* realloc of a block malloc gave, within its block or into a new one. *)
Realloc(b, n, top) ==
  /\ ~held /\ n > 0 /\ b.ptr % PAGE_SIZE # 0
  /\ IF Room(heap, b.ptr) >= n
     THEN Returns(heap, (live \ {b}) \cup {Block(b.ptr, n)})
     ELSE LET r == Kmalloc(heap, n)
          IN Returns(Kfree(r.heap, b.ptr, top),
                     (live \ {b}) \cup {Block(r.ptr, n)})

(* klrealloc to size 0 calls free, which spins on the mem_lock realloc holds. *)
ReallocZero(b) == /\ ~held
                  /\ held' = TRUE
                  /\ UNCHANGED <<heap, live>>

Next == \/ \E n \in Sizes : Malloc(n) \/ Valloc(n)
        \/ \E b \in live :
             \/ \E top \in Levels :
                  Free(b, top) \/ \E n \in Resizes : Realloc(b, n, top)
             \/ 0 \in Resizes /\ ReallocZero(b)

Spec == Init /\ [][Next]_vars

-----------------------------------------------------------------------------

TypeOK ==
  /\ heap.brk \in 0 .. MaxPages /\ heap.level \in Levels
  /\ heap.bucket \in [Pages -> Nat \cup {Nil}]
  /\ heap.cells \in [Pages -> Seq(Nat)]
  /\ heap.bins \in [0 .. BIG_BIN - 1 -> Seq(Pages)]
  /\ heap.forward \in [Pages \cup {List} -> [Levels -> Pages \cup {Nil}]]
  /\ live \subseteq [ptr : Nat, size : Nat]
  /\ held \in BOOLEAN

Headed == {p \in Pages : heap.bucket[p] # Nil}
Big == {p \in Headed : heap.bucket[p] > NUM_BINS}
LiveOn(p) == {b \in live : PageOf(b.ptr) = p \/ b.ptr = Address(p + 1)}

(* The bytes of the heap that somebody relies on: the blocks in use, the   *)
(* headers, and the link words on the cell stacks.                         *)
Ranges == live
          \cup {Block(Address(p), IF p \in Big THEN BigHeader ELSE Header) : p \in Headed}
          \cup {Block(c, 2 ^ SMALLEST_BIN_LOG) : c \in UNION {ToSet(heap.cells[p]) : p \in Pages}}

(* No sequence of malloc, valloc, realloc and free gives out bytes twice,  *)
(* bytes of a header, of a free cell or beyond the end of the heap.        *)
NoOverlap ==
  /\ \A a, b \in Ranges : a # b => a.ptr + a.size <= b.ptr \/ b.ptr + b.size <= a.ptr
  /\ \A a \in Ranges : a.ptr + a.size <= Address(heap.brk + 1)

(* No cell is lost: each one is in use or once on the stack of its page,   *)
(* however often pages fill up and come back.                              *)
CellsAccounted ==
  \A p \in Headed :
    LET free == ToSet(heap.cells[p])
        used == {b.ptr : b \in LiveOn(p)}
    IN /\ IsInjective(heap.cells[p])
       /\ IF p \in Big THEN Cardinality(free) + Cardinality(used) = 1
          ELSE /\ free \cap used = {}
               /\ free \cup used = ToSet(FreshCells(p, heap.bucket[p]))

(* klmalloc_list_decouple relies on it: a page is on the list of its bin   *)
(* exactly while it has a free cell, and is on it once.                    *)
PagesListed ==
  \A b \in 0 .. BIG_BIN - 1 :
    /\ IsInjective(heap.bins[b])
    /\ ToSet(heap.bins[b]) =
         {p \in Headed : heap.bucket[p] = b /\ heap.cells[p] # <<>>}

(* Where the k-th step along a level leads; List to begin with, and Nil    *)
(* behind its end.  MaxPages + 1 steps are past the end of a sound list.   *)
Along(i) ==
  LET along[k \in 0 .. MaxPages + 1] ==
        IF k = 0 THEN List
        ELSE IF along[k - 1] = Nil THEN Nil ELSE heap.forward[along[k - 1]][i]
  IN along

(* The blocks on a level of the skip list, in its order. *)
Chain(i) ==
  LET reached == {k \in 1 .. MaxPages + 1 : Along(i)[k] # Nil}
  IN [k \in 1 .. Cardinality(reached) |-> Along(i)[k]]

(* The blocks of one level are among those of the other, in their order. *)
Within(upper, lower) ==
  /\ ToSet(upper) \subseteq ToSet(lower)
  /\ \A c, d \in DOMAIN upper, a, b \in DOMAIN lower :
       c < d /\ upper[c] = lower[a] /\ upper[d] = lower[b] => a < b

FreeBig == {p \in Big : heap.cells[p] # <<>>}

(* Inserting and deleting with whatever levels the random numbers give     *)
(* keeps the skip list a skip list of exactly the free big blocks: in the  *)
(* order of the sizes, each level within the one below, none above level.  *)
SkipListSound ==
  /\ IsInjective(Chain(0)) /\ ToSet(Chain(0)) = FreeBig
  /\ \A i \in 1 .. Len(Chain(0)) - 1 :
       heap.bucket[Chain(0)[i]] <= heap.bucket[Chain(0)[i + 1]]
  /\ \A i \in 1 .. heap.level : Within(Chain(i), Chain(i - 1))
  /\ \A i \in heap.level + 1 .. SKIP_MAX_LEVEL : Chain(i) = <<>>

(* What klmalloc was asked for, for a block. *)
Asked(b) == IF b.ptr % PAGE_SIZE = 0 THEN ValSize(b.size) ELSE b.size

(* A big request takes the smallest free block that holds it, and pages    *)
(* only when none does: the heap does not grow for want of a look.         *)
BestFit ==
  [][\A b \in live' \ live : heap' # heap /\ BinSize(Asked(b)) = BIG_BIN =>
       LET fit == {p \in FreeBig : heap.bucket[p] >= Asked(b)}
           p == PageOf(IF b.ptr % PAGE_SIZE = 0 THEN b.ptr - 1 ELSE b.ptr)
       IN IF fit = {} THEN p = heap.brk + 1
          ELSE p \in fit /\ \A q \in fit : heap.bucket[p] <= heap.bucket[q]]_vars
=============================================================================
