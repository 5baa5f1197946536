--------------------------- MODULE BuddyAllocator ---------------------------
(***************************************************************************)
(* mem::palloc::BuddyAllocator, the page allocator of the kernel (Palloc)  *)
(* and of user memory (UserPool).  Both are a Mutex<_, Intr>: a call is    *)
(* one step.  A page is its number, an address divided by PG_SIZE.         *)
(***************************************************************************)
EXTENDS Integers, Sequences, FiniteSets, SequencesExt, FiniteSetsExt

(* 1 << o                                                                  *)
Pow2[o \in Nat] == IF o = 0 THEN 1 ELSE 2 * Pow2[o - 1]

CONSTANTS
    MAX_ORDER,  \* the largest block has 1 << MAX_ORDER pages
    Start, End, \* the pages Start..End-1 are given to insert_range
    Requests    \* the numbers of pages that are asked for

ASSUME BuddyAssumption ==
    /\ MAX_ORDER \in Nat
    /\ Start \in Nat \ {0} /\ End \in Nat /\ Start < End
    /\ Requests \subseteq Nat

Order == 0..MAX_ORDER

VARIABLES
    free_lists,  \* BuddyAllocator::free_lists, the head of each list first
    allocated,   \* BuddyAllocator::allocated
    live,        \* the blocks handed out: [ptr, n], as alloc was asked for them
    refused      \* {}, or the request that alloc has panicked at

buddyVars == <<free_lists, allocated, live, refused>>

-----------------------------------------------------------------------------
(* n.next_power_of_two().trailing_zeros(), for n pages.                    *)
OrderOf(n) == CHOOSE o \in 0..n : Pow2[o] >= n /\ (o = 0 \/ Pow2[o - 1] < n)

Aligned(p, o) == p % Pow2[o] = 0

(* curr_ptr ^ (1 << order): the other half of the block of order o + 1.    *)
Buddy(p, o) == IF Aligned(p, o + 1) THEN p + Pow2[o] ELSE p - Pow2[o]

AlignDown(p, o) == p - (p % Pow2[o])

(* InMemList: push at the head, and ListNode::pop of the entry found.      *)
Push(list, p)   == <<p>> \o list
Unlink(list, p) == RemoveAt(list, CHOOSE i \in DOMAIN list : list[i] = p)

(* The order insert_range chooses at p: as far as alignment, the pages     *)
(* that are left and MAX_ORDER allow.                                      *)
InsertOrder(p) == Max({o \in Order : Aligned(p, o) /\ p + Pow2[o] <= End})

(* insert_range walks upwards and pushes at the head: of what it pushes    *)
(* from p on, p comes last in its list.                                    *)
InsertFrom[p \in Start..End] ==
    IF p = End THEN [o \in Order |-> <<>>]
    ELSE LET order == InsertOrder(p)
             rest  == InsertFrom[p + Pow2[order]]
         IN  [rest EXCEPT ![order] = Append(rest[order], p)]

insert_range == InsertFrom[Start]

BuddyInit ==
    /\ free_lists = insert_range
    /\ allocated = 0
    /\ live = {}
    /\ refused = {}

-----------------------------------------------------------------------------

(* Mutant: the list of the order itself is skipped.                        *)
Usable_larger(n) == {i \in (OrderOf(n) + 1)..MAX_ORDER : free_lists[i] # <<>>}

(* The first list, from the order of the request on, that is not empty.    *)
Usable(n) == {i \in OrderOf(n)..MAX_ORDER : free_lists[i] # <<>>}

Granted(n) == Head(free_lists[Min(Usable(n))])

(* Mutant: the lower half is kept and handed out too.                      *)
alloc_lower(n) ==
    LET order == OrderOf(n)
        i     == Min(Usable(n))
        block == Granted(n)
    IN  /\ free_lists' = [k \in Order |->
             CASE k = i               -> Tail(free_lists[k])
               [] order <= k /\ k < i -> Push(free_lists[k], block)
               [] OTHER               -> free_lists[k]]
        /\ allocated' = allocated + Pow2[order]
        /\ live' = live \cup {[ptr |-> block, n |-> n]}

(* Its head is split down to the order of the request.  At each order the  *)
(* upper half stays, and the lower half is split on, or returned.          *)
alloc(n) ==
    LET order == OrderOf(n)
        i     == Min(Usable(n))
        block == Granted(n)
    IN  /\ free_lists' = [k \in Order |->
             CASE k = i               -> Tail(free_lists[k])
               [] order <= k /\ k < i -> Push(free_lists[k], block + Pow2[k])
               [] OTHER               -> free_lists[k]]
        /\ allocated' = allocated + Pow2[order]
        /\ live' = live \cup {[ptr |-> block, n |-> n]}

(* Mutant: dealloc merges at most once.                                    *)
MergedOrder_once(ptr, order) ==
    IF order < MAX_ORDER /\ Buddy(ptr, order) \in ToSet(free_lists[order])
    THEN order + 1 ELSE order

(* The order up to which dealloc merges: at each order below it the buddy  *)
(* is free, and min(curr_ptr, buddy) is the block aligned down.            *)
MergedOrder(ptr, order) ==
    Min({m \in order..MAX_ORDER :
           m = MAX_ORDER \/ Buddy(AlignDown(ptr, m), m) \notin ToSet(free_lists[m])})

dealloc(ptr, n) ==
    LET order == OrderOf(n)
        m     == MergedOrder(ptr, order)
        Without(k) == Unlink(free_lists[k], Buddy(AlignDown(ptr, k), k))
    IN  /\ free_lists' = [k \in Order |->
             CASE order <= k /\ k < m -> Without(k)
               [] k = m               -> Push(free_lists[k], AlignDown(ptr, m))
               [] OTHER               -> free_lists[k]]
        /\ allocated' = allocated - Pow2[order]
        /\ live' = live \ {[ptr |-> ptr, n |-> n]}

-----------------------------------------------------------------------------
Alloc(n) ==
    /\ refused = {}
    /\ n <= Pow2[MAX_ORDER]
    /\ Usable(n) # {}
    /\ alloc(n)
    /\ UNCHANGED refused

(* alloc finds no list to take from: "memory is exhausted".                *)
AllocFails(n) ==
    /\ refused = {}
    /\ n <= Pow2[MAX_ORDER]
    /\ Usable(n) = {}
    /\ refused' = {n}
    /\ UNCHANGED <<free_lists, allocated, live>>

(* A block is given back with the size it was asked for.                   *)
Dealloc(b) ==
    /\ refused = {}
    /\ dealloc(b.ptr, b.n)
    /\ UNCHANGED refused

BuddyNext ==
    \/ \E n \in Requests : Alloc(n) \/ AllocFails(n)
    \/ \E b \in live : Dealloc(b)
    \/ refused # {} /\ UNCHANGED buddyVars

BuddySpec == BuddyInit /\ [][BuddyNext]_buddyVars

-----------------------------------------------------------------------------
(* Blocks as [ptr, order]: those on the lists and those handed out.        *)
FreeBlocks == UNION {{[ptr |-> p, order |-> o] : p \in ToSet(free_lists[o])} : o \in Order}

LiveBlocks == {[ptr |-> b.ptr, order |-> OrderOf(b.n)] : b \in live}

Pages(b) == b.ptr .. (b.ptr + Pow2[b.order] - 1)

(* Every page of the range is in exactly one block, on a free list or      *)
(* handed out, and every block is aligned to its size: nothing is handed   *)
(* out twice, lost, or made up by splitting and merging.  The counter      *)
(* allocated is the pages handed out, each block rounded up.               *)
PagesPartitioned ==
    /\ \A o \in Order : IsInjective(free_lists[o])
    /\ \A b \in FreeBlocks \cup LiveBlocks : Aligned(b.ptr, b.order)
    /\ \A p \in Start..(End - 1) :
         Cardinality({b \in FreeBlocks : p \in Pages(b)})
           + Cardinality({b \in live : p \in Pages([ptr |-> b.ptr, order |-> OrderOf(b.n)])}) = 1
    /\ \A b \in FreeBlocks \cup LiveBlocks : Pages(b) \subseteq Start..(End - 1)
    /\ allocated = MapThenSumSet(LAMBDA b : Pow2[OrderOf(b.n)], live)

(* dealloc merges as far as it can: below MAX_ORDER no block and its buddy *)
(* are both on a list, whatever the order of the calls; and when all is    *)
(* given back the lists hold the blocks of insert_range again, so that no  *)
(* sequence of calls wears the allocator out.                              *)
FullyMerged ==
    /\ \A o \in 0..(MAX_ORDER - 1) : \A p \in ToSet(free_lists[o]) :
          Buddy(p, o) \notin ToSet(free_lists[o])
    /\ live = {} => \A o \in Order : ToSet(free_lists[o]) = ToSet(insert_range[o])

(* alloc panics with "memory is exhausted" only if no aligned run of free  *)
(* pages is left of the size of that very request, rounded up: never       *)
(* because free pages are on the wrong list, or not merged.                *)
RefusesOnlyWhenFull ==
    \A n \in refused : \A p \in Start..End :
        Aligned(p, OrderOf(n)) /\ p + Pow2[OrderOf(n)] <= End =>
            \E b \in LiveBlocks : Pages(b) \cap (p..(p + Pow2[OrderOf(n)] - 1)) # {}
=============================================================================
