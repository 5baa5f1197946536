-------------------------------- MODULE Heap --------------------------------
(***************************************************************************)
(* mem::malloc, the kernel heap on top of the page allocator.  A request   *)
(* of at most MAX_BLKSIZE bytes goes to the descriptor of its size, which  *)
(* carves pages into blocks (an arena); a larger one goes to Palloc.  Each *)
(* descriptor is a Mutex<_, Intr>, so that a small request is one step;    *)
(* the two statistics of a large request are counted with it.              *)
(* Sizes are parameters: the proportions are the code's, scaled down.      *)
(***************************************************************************)
EXTENDS BuddyAllocator

CONSTANTS
    PG_SIZE,      \* bytes of a page
    ArenaSize,    \* size_of::<Arena>()
    DescSize,     \* size_of::<Desc>()
    MinBlock,     \* the smallest block_size
    Layouts,      \* the requests: [size, align]
    MaxBlocks     \* bound: the small blocks handed out at a time

MAX_BLKSIZE == PG_SIZE \div 4

BlockSizes == {Pow2[k] : k \in 0..PG_SIZE} \cap MinBlock..MAX_BLKSIZE

VARIABLES
    descs,          \* Heap::descs: [free_list, allocated, free, total] by block_size
    arenas,         \* the pages that are arenas, with their [desc, free_cnt]
    spilled_alloc,  \* Heap::spilled_alloc
    spilled_total,  \* Heap::spilled_total
    blocks          \* the blocks handed out: [ptr, layout]

heapVars == <<descs, arenas, spilled_alloc, spilled_total, blocks>>
hvars    == <<buddyVars, heapVars>>

HeapInit ==
    /\ BuddyInit
    /\ descs = [b \in BlockSizes |-> [free_list |-> <<>>, allocated |-> 0, free |-> 0, total |-> 0]]
    /\ arenas = <<>>
    /\ spilled_alloc = 0
    /\ spilled_total = 0
    /\ blocks = {}

-----------------------------------------------------------------------------
RoundUp(n, align) == ((n + align - 1) \div align) * align

(* Mutant: the room of the header is forgotten.                            *)
BlocksPerArena_whole(b) == PG_SIZE \div b

(* Desc::new: the room is computed from the size of the descriptor...      *)
BlocksPerArena(b) == (PG_SIZE - RoundUp(DescSize, b)) \div b

(* Mutant: the first block follows the header at once.                     *)
get_block_packed(page, b, idx) == page * PG_SIZE + ArenaSize + idx * b

(* ...but the blocks start after the header of the arena, which is smaller. *)
get_block(page, b, idx) == page * PG_SIZE + RoundUp(ArenaSize, b) + idx * b

(* max(size.next_power_of_two(), align), at least the smallest block.      *)
SizeOf(l)  == Max({Pow2[OrderOf(l.size)], l.align})
ClassOf(l) == Max({SizeOf(l), MinBlock})
PagesOf(l) == (l.size + PG_SIZE - 1) \div PG_SIZE

PageOf(ptr) == ptr \div PG_SIZE

Small(l) == SizeOf(l) <= MAX_BLKSIZE

(* Pages and alignments are powers of two, an arena has room for a block   *)
(* of its size, and Requests are what the heap asks Palloc for.            *)
ASSUME HeapAssumption ==
    /\ PG_SIZE \in Nat /\ \E k \in 0..PG_SIZE : PG_SIZE = Pow2[k]
    /\ ArenaSize \in Nat /\ DescSize \in Nat /\ ArenaSize <= DescSize
    /\ MinBlock \in BlockSizes /\ MaxBlocks \in Nat
    /\ \A b \in BlockSizes : RoundUp(DescSize, b) + b <= PG_SIZE
    /\ \A l \in Layouts :
          /\ l.size \in Nat \ {0}
          /\ l.align \in 1..PG_SIZE /\ \E k \in 0..PG_SIZE : l.align = Pow2[k]
          /\ ~Small(l) => PagesOf(l) \in Requests
    /\ 1 \in Requests

(* The end of Desc::alloc: take the head of list, in the arenas ar.        *)
TakeBlock(l, list, ar, fr, tot) ==
    LET b   == ClassOf(l)
        ptr == Head(list)
    IN  /\ descs' = [descs EXCEPT ![b] = [free_list |-> Tail(list),
                        allocated |-> @.allocated + b, free |-> fr - b, total |-> tot]]
        /\ arenas' = [ar EXCEPT ![PageOf(ptr)].free_cnt = @ - 1]
        /\ blocks' = blocks \cup {[ptr |-> ptr, layout |-> l]}
        /\ UNCHANGED <<spilled_alloc, spilled_total>>

(* Desc::alloc from the free list.                                         *)
AllocBlock(l) ==
    /\ Small(l) /\ refused = {}
    /\ LET d == descs[ClassOf(l)]
       IN  d.free_list # <<>> /\ TakeBlock(l, d.free_list, arenas, d.free, d.total)
    /\ UNCHANGED buddyVars

(* Desc::alloc when the list is empty: a page becomes an arena.            *)
AllocArena(l) ==
    /\ Small(l)
    /\ descs[ClassOf(l)].free_list = <<>>
    /\ Alloc(1)
    /\ LET b    == ClassOf(l)
           page == Granted(1)
           cnt  == BlocksPerArena(b)
           new  == [i \in 1..cnt |-> get_block(page, b, cnt - i)]
           ar   == [p \in DOMAIN arenas \cup {page} |->
                      IF p = page THEN [desc |-> b, free_cnt |-> cnt] ELSE arenas[p]]
       IN  TakeBlock(l, new, ar, descs[b].free + b * cnt, descs[b].total + PG_SIZE)

(* Heap::alloc of a large request.                                         *)
AllocSpill(l) ==
    /\ ~Small(l)
    /\ Alloc(PagesOf(l))
    /\ spilled_alloc' = spilled_alloc + SizeOf(l)
    /\ spilled_total' = spilled_total + PagesOf(l)
    /\ blocks' = blocks \cup {[ptr |-> Granted(PagesOf(l)) * PG_SIZE, layout |-> l]}
    /\ UNCHANGED <<descs, arenas>>

(* The page allocator has nothing left and panics.                         *)
AllocPanics(l) ==
    /\ Small(l) => descs[ClassOf(l)].free_list = <<>>
    /\ AllocFails(IF Small(l) THEN 1 ELSE PagesOf(l))
    /\ UNCHANGED heapVars

(* Desc::dealloc.  The page of the block stays an arena.                   *)
FreeBlock(x) ==
    /\ Small(x.layout) /\ refused = {}
    /\ LET b == ClassOf(x.layout)
       IN  descs' = [descs EXCEPT ![b] = [free_list |-> Push(@.free_list, x.ptr),
                        allocated |-> @.allocated - b, free |-> @.free + b, total |-> @.total]]
    /\ arenas' = [arenas EXCEPT ![PageOf(x.ptr)].free_cnt = @ + 1]
    /\ blocks' = blocks \ {x}
    /\ UNCHANGED <<buddyVars, spilled_alloc, spilled_total>>

(* Mutant: the pages are computed from the rounded size.                   *)
FreeSpill_rounded(x) ==
    /\ ~Small(x.layout)
    /\ Dealloc([ptr |-> PageOf(x.ptr), n |-> (SizeOf(x.layout) + PG_SIZE - 1) \div PG_SIZE])
    /\ spilled_alloc' = spilled_alloc - SizeOf(x.layout)
    /\ spilled_total' = spilled_total - PagesOf(x.layout)
    /\ blocks' = blocks \ {x}
    /\ UNCHANGED <<descs, arenas>>

(* Heap::dealloc of a large block.                                         *)
FreeSpill(x) ==
    /\ ~Small(x.layout)
    /\ Dealloc([ptr |-> PageOf(x.ptr), n |-> PagesOf(x.layout)])
    /\ spilled_alloc' = spilled_alloc - SizeOf(x.layout)
    /\ spilled_total' = spilled_total - PagesOf(x.layout)
    /\ blocks' = blocks \ {x}
    /\ UNCHANGED <<descs, arenas>>

HeapNext ==
    \/ \E l \in Layouts :
         \/ /\ Small(l) => Cardinality({x \in blocks : Small(x.layout)}) < MaxBlocks
            /\ AllocBlock(l) \/ AllocArena(l) \/ AllocPanics(l)
         \/ AllocSpill(l)
    \/ \E x \in blocks : FreeBlock(x) \/ FreeSpill(x)
    \/ refused # {} /\ UNCHANGED hvars

HeapSpec == HeapInit /\ [][HeapNext]_hvars

-----------------------------------------------------------------------------
(* The bytes a block owns: its whole block, or all its pages.              *)
Bytes(x) ==
    x.ptr .. (x.ptr - 1 + IF Small(x.layout) THEN ClassOf(x.layout)
                          ELSE Pow2[OrderOf(PagesOf(x.layout))] * PG_SIZE)

Header(page) == (page * PG_SIZE) .. (page * PG_SIZE + ArenaSize - 1)

(* What the heap hands out is large enough, aligned as asked for, and      *)
(* overlaps neither another block, nor the header of an arena, nor a block *)
(* that is on a free list.                                                 *)
BlocksSafe ==
    \A x \in blocks :
        /\ x.ptr % x.layout.align = 0
        /\ Cardinality(Bytes(x)) >= x.layout.size
        /\ \A y \in blocks \ {x} : Bytes(x) \cap Bytes(y) = {}
        /\ \A p \in DOMAIN arenas : Bytes(x) \cap Header(p) = {}
        /\ \A b \in BlockSizes : \A q \in ToSet(descs[b].free_list) :
             Bytes(x) \cap (q .. (q + b - 1)) = {}

(* The blocks of a descriptor lie in arenas of that descriptor: what       *)
(* Arena::from_block asserts of every pointer it is given (the magic, the  *)
(* descriptor, the alignment) holds.                                       *)
FromBlockHolds ==
    LET InArena(q, b) == /\ PageOf(q) \in DOMAIN arenas
                         /\ arenas[PageOf(q)].desc = b
                         /\ q % b = 0
                         /\ PageOf(q + b - 1) = PageOf(q)
    IN  /\ \A b \in BlockSizes : \A q \in ToSet(descs[b].free_list) : InArena(q, b)
        /\ \A x \in blocks : Small(x.layout) => InArena(x.ptr, ClassOf(x.layout))

(* The heap keeps to the page allocator's contract: whatever it does to    *)
(* Palloc is a call that BuddyAllocator knows, and a block of pages goes   *)
(* back once, with the number of pages it was asked for.                   *)
UsesPalloc == BuddySpec
=============================================================================
