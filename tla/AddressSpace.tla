---------------------------- MODULE AddressSpace ----------------------------
(***************************************************************************)
(* Page tables and the life of an address space: execute() clones the      *)
(* kernel's table and loads a program into it, the process runs on it, and *)
(* the drop of its Thread destroys it.  Who drops the last Arc may be the  *)
(* manager, in schedule_tail, or the thread that called execute(); or      *)
(* nobody, if Manager::all has got one after the thread's death.           *)
(*                                                                         *)
(* A table is a page of PX entries; there are three levels, as in Sv39.  A *)
(* virtual page is the triple of its indices <<px(2), px(1), px(0)>>.      *)
(* Palloc and UserPool hand out any free page (BuddyAllocator is about     *)
(* which); a pool that is exhausted stops the kernel.                      *)
(***************************************************************************)
EXTENDS Integers, FiniteSets, FiniteSetsExt, Sequences

CONSTANTS
    Proc,           \* user processes; a slot may be used again
    Loader,         \* kernel threads, without a table of their own
    NoThread, NoTable,
    NoEntry,        \* an entry without the flag V
    PX,             \* the indices of a table
    KernelPages,    \* the virtual pages of the kernel
    Images,         \* programs: the virtual pages of their segments, in order
    StackPage,      \* the virtual page below init_sp
    KPages, UPages  \* the pages of Palloc and of UserPool

VARIABLES
    tables,     \* the pages that are page tables, with their entries
    upages,     \* the allocated pages of UserPool
    kroot,      \* KernelPgTable
    cur, satp,  \* the running thread and its table
    tail,       \* schedule_tail: [prev, step], prev is the thread switched from
    phase,      \* of each process
    root,       \* its PageTable
    todo,       \* the pages execute() has yet to load
    loader,     \* the thread that executes it, while that holds an Arc of it
    all,        \* Manager::all: the processes it has an Arc of
    due,        \* register() has queued them, and has yet to push them to all
    late,       \* history: they have died before that
    panic       \* a pool was exhausted

tableVars == <<tables, upages>>
hartVars  == <<cur, satp, tail>>
procVars  == <<phase, root, todo, loader>>
allVars   == <<all, due, late>>
vars == <<tableVars, kroot, hartVars, procVars, allVars, panic>>

Thread == Proc \cup Loader
Empty == [i \in PX |-> NoEntry]
Va == PX \X PX \X PX
Entry == [pa : Nat, leaf : BOOLEAN, global : BOOLEAN]

(* The pages of a program differ from each other and from the stack, and   *)
(* the kernel, which lies in the upper half, has root entries of its own.  *)
ASSUME SpaceAssumption ==
    /\ Proc \cap Loader = {} /\ NoThread \notin Thread
    /\ KPages \subseteq Nat /\ UPages \subseteq Nat /\ IsFiniteSet(KPages)
    /\ NoTable \notin KPages /\ NoEntry \notin Entry
    /\ KernelPages \subseteq Va /\ StackPage \in Va /\ Images \subseteq Seq(Va)
    /\ \A img \in Images : \A i \in 1..Len(img) :
           /\ img[i] # StackPage
           /\ \A j \in 1..Len(img) : img[i] = img[j] => i = j
           /\ \A va \in KernelPages : img[i][1] # va[1]
    /\ \A va \in KernelPages : StackPage[1] # va[1]

-----------------------------------------------------------------------------
(* PageTable::new: kalloc of one page, cleared.                            *)
Fresh(ts) == Min(KPages \ DOMAIN ts)

WithTable(ts, n, entries) == [t \in DOMAIN ts \cup {n} |-> IF t = n THEN entries ELSE ts[t]]

(* walk_or_create of entry i of table t.                                   *)
WalkOrCreate(ts, t, i, g) ==
    IF ts[t][i] # NoEntry THEN ts
    ELSE WithTable([ts EXCEPT ![t][i] = [pa |-> Fresh(ts), leaf |-> FALSE, global |-> g]],
                   Fresh(ts), Empty)

(* map() of one page.                                                      *)
Map(ts, r, va, pa, g) ==
    LET ts1 == WalkOrCreate(ts, r, va[1], g)
        l1  == ts1[r][va[1]].pa
        ts2 == WalkOrCreate(ts1, l1, va[2], g)
        l0  == ts2[l1][va[2]].pa
    IN  [ts2 EXCEPT ![l0][va[3]] = [pa |-> pa, leaf |-> TRUE, global |-> g]]

(* How many tables map() has to make.                                      *)
Missing(ts, r, va) ==
    IF ts[r][va[1]] = NoEntry THEN 2
    ELSE IF ts[ts[r][va[1]].pa][va[2]] = NoEntry THEN 1 ELSE 0

(* The entries of a table that destroy() follows.                          *)
Owned(ts, t) == {e \in {ts[t][i] : i \in PX} \ {NoEntry} : ~e.global}

Subtables(ts, S) == UNION {{e.pa : e \in {d \in Owned(ts, t) : ~d.leaf}} : t \in S}
Leaves(ts, S) == UNION {{e.pa : e \in {d \in Owned(ts, t) : d.leaf}} : t \in S}

(* destroy() frees these tables, and these pages to UserPool.              *)
TreeOf(ts, r) ==
    LET l1 == Subtables(ts, {r})
    IN  {r} \cup l1 \cup Subtables(ts, l1)
PagesOf(ts, r) == Leaves(ts, TreeOf(ts, r))

Destroy(r) ==
    /\ tables' = [t \in DOMAIN tables \ TreeOf(tables, r) |-> tables[t]]
    /\ upages' = upages \ PagesOf(tables, r)

-----------------------------------------------------------------------------
(* KernelPgTable::init_inner: kernel pages are global.                     *)
KernelTables ==
    LET r == Min(KPages)
    IN  FoldSet(LAMBDA va, ts : Map(ts, r, va, va, TRUE), [t \in {r} |-> Empty], KernelPages)

(* Memory is large enough for it: what init_inner builds are three levels  *)
(* of tables, and each kernel page is found in them.                       *)
ASSUME KernelAssumption ==
    LET ts == KernelTables
        r  == Min(KPages)
        Below(S) == UNION {{ts[t][i].pa : i \in {j \in PX : ts[t][j] # NoEntry}} : t \in S}
        L1 == Below({r})
        L0 == Below(L1)
    IN  /\ ts = [t \in {r} \cup L1 \cup L0 |-> ts[t]] /\ DOMAIN ts \subseteq KPages
        /\ r \notin L1 \cup L0 /\ L1 \cap L0 = {}
        /\ \A t \in DOMAIN ts :
             /\ ts[t] = [i \in PX |-> ts[t][i]]
             /\ \A i \in PX : ts[t][i] # NoEntry => ts[t][i].global /\ (ts[t][i].leaf <=> t \in L0)
        /\ \A i \in PX : ts[r][i] # NoEntry => \E va \in KernelPages : va[1] = i
        /\ \A va \in KernelPages : \E t \in L1, u \in L0 :
             /\ ts[r][va[1]] # NoEntry /\ ts[r][va[1]].pa = t
             /\ ts[t][va[2]] # NoEntry /\ ts[t][va[2]].pa = u
             /\ ts[u][va[3]] # NoEntry /\ ts[u][va[3]].pa = va

Init ==
    /\ tables = KernelTables
    /\ upages = {}
    /\ kroot = Min(KPages) /\ satp = kroot
    /\ cur \in Loader
    /\ tail = [prev |-> NoThread, step |-> "none"]
    /\ phase = [p \in Proc |-> "none"]
    /\ root = [p \in Proc |-> NoTable]
    /\ todo = [p \in Proc |-> <<>>]
    /\ loader = [p \in Proc |-> NoThread]
    /\ all = {} /\ due = {} /\ late = {}
    /\ panic = FALSE

(* A thread goes on outside schedule().                                    *)
Running(t) == ~panic /\ tail.step = "none" /\ cur = t

Exhausted == panic' = TRUE /\ UNCHANGED <<tableVars, kroot, hartVars, procVars, allVars>>

-----------------------------------------------------------------------------
(* execute(): KernelPgTable::clone copies the root table.                  *)
Clone(p, img) ==
    /\ phase[p] = "none" /\ Running(cur) /\ cur \in Loader
    /\ \A q \in Proc : loader[q] # cur
    /\ IF KPages \subseteq DOMAIN tables THEN Exhausted
       ELSE /\ tables' = WithTable(tables, Fresh(tables), tables[kroot])
            /\ root' = [root EXCEPT ![p] = Fresh(tables)]
            /\ phase' = [phase EXCEPT ![p] = "cloned"]
            /\ todo' = [todo EXCEPT ![p] = img]
            /\ loader' = [loader EXCEPT ![p] = cur]
            /\ UNCHANGED <<upages, kroot, hartVars, allVars, panic>>

(* load_elf finds an error before it maps anything.                        *)
LoadFails(p) ==
    /\ phase[p] = "cloned" /\ Running(loader[p])
    /\ Destroy(root[p])
    /\ phase' = [phase EXCEPT ![p] = "none"]
    /\ root' = [root EXCEPT ![p] = NoTable]
    /\ todo' = [todo EXCEPT ![p] = <<>>]
    /\ loader' = [loader EXCEPT ![p] = NoThread]
    /\ UNCHANGED <<kroot, hartVars, allVars, panic>>

(* alloc_pages and map of one page at va.                                  *)
Install(p, va) ==
    LET pa == Min(UPages \ upages)
    IN  /\ upages' = upages \cup {pa}
        /\ tables' = Map(tables, root[p], va, pa, FALSE)

Room(p, va) ==
    /\ ~ (UPages \subseteq upages)
    /\ Cardinality(KPages \ DOMAIN tables) >= Missing(tables, root[p], va)

(* load_segment, a page at a time; then init_user_stack and deny_write.    *)
LoadPage(p) ==
    /\ phase[p] \in {"cloned", "loading"} /\ Running(loader[p])
    /\ todo[p] # <<>>
    /\ IF ~Room(p, Head(todo[p])) THEN Exhausted
       ELSE /\ Install(p, Head(todo[p]))
            /\ todo' = [todo EXCEPT ![p] = Tail(@)]
            /\ phase' = [phase EXCEPT ![p] = "loading"]
            /\ UNCHANGED <<kroot, hartVars, root, loader, allVars, panic>>

InitUserStack(p) ==
    /\ phase[p] \in {"cloned", "loading"} /\ Running(loader[p])
    /\ todo[p] = <<>>
    /\ IF ~Room(p, StackPage) THEN Exhausted
       ELSE /\ Install(p, StackPage)
            /\ phase' = [phase EXCEPT ![p] = "built"]
            /\ UNCHANGED <<kroot, hartVars, root, todo, loader, allVars, panic>>

(* Manager::register, called by Builder::spawn, takes two locks: with the  *)
(* first the process may run.  schedule() follows.                         *)
Register(p) ==
    /\ phase[p] = "built" /\ Running(loader[p])
    /\ phase' = [phase EXCEPT ![p] = "ready"]
    /\ due' = due \cup {p}
    /\ UNCHANGED <<tableVars, kroot, hartVars, root, todo, loader, all, late, panic>>

(* Under the second it is stored in all, even if it is dead by then.       *)
Push(p) ==
    /\ p \in due /\ Running(loader[p])
    /\ all' = all \cup {p}
    /\ due' = due \ {p}
    /\ UNCHANGED <<tableVars, kroot, hartVars, procVars, late, panic>>

(* Drop for Thread.                                                        *)
DropThread(p) ==
    /\ Destroy(root[p])
    /\ root' = [root EXCEPT ![p] = NoTable]
    /\ phase' = [phase EXCEPT ![p] = "none"]

(* The Arc that spawn() returns is dropped when the caller goes on.        *)
DropArc(p) ==
    /\ phase[p] \in {"ready", "dying", "released"} /\ p \notin due /\ Running(loader[p])
    /\ loader' = [loader EXCEPT ![p] = NoThread]
    /\ IF phase[p] = "released" /\ p \notin all THEN DropThread(p)
       ELSE UNCHANGED <<tableVars, phase, root>>
    /\ UNCHANGED <<kroot, hartVars, todo, allVars, panic>>

-----------------------------------------------------------------------------
(* exit() of a process, by its own will or after a fault.                  *)
Exit(p) ==
    /\ phase[p] = "ready" /\ Running(p)
    /\ phase' = [phase EXCEPT ![p] = "dying"]
    /\ UNCHANGED <<tableVars, kroot, hartVars, root, todo, loader, allVars, panic>>

(* schedule(), by a trap or a call; a dying thread does nothing else.      *)
Switch(u) ==
    /\ Running(cur) /\ u # cur
    /\ u \in Proc => phase[u] = "ready"
    /\ cur' = u
    /\ tail' = [prev |-> cur, step |-> "activate"]
    /\ UNCHANGED <<tableVars, kroot, satp, procVars, allVars, panic>>

TableOf(t) == IF t \in Proc THEN root[t] ELSE kroot

(* Mutant: the table of the previous thread is kept for a kernel thread.   *)
TailActivate_lazy ==
    /\ ~panic /\ tail.step = "activate"
    /\ satp' = IF cur \in Proc THEN root[cur] ELSE satp
    /\ tail' = [tail EXCEPT !.step = "drop"]
    /\ UNCHANGED <<tableVars, kroot, cur, procVars, allVars, panic>>

(* schedule_tail(previous), on the stack of the new thread.  Its table is  *)
(* activated before previous, its parameter, is dropped.                   *)
TailActivate ==
    /\ ~panic /\ tail.step = "activate"
    /\ satp' = TableOf(cur)
    /\ tail' = [tail EXCEPT !.step = "drop"]
    /\ UNCHANGED <<tableVars, kroot, cur, procVars, allVars, panic>>

(* Mutant: all keeps its Arc.                                              *)
TailDrop_kept ==
    /\ ~panic /\ tail.step = "drop"
    /\ tail' = [prev |-> NoThread, step |-> "none"]
    /\ LET p == tail.prev
       IN  IF p \in Proc /\ phase[p] = "dying"
           THEN /\ phase' = [phase EXCEPT ![p] = "released"]
                /\ late' = late \cup ({p} \cap due)
                /\ UNCHANGED <<tableVars, root>>
           ELSE UNCHANGED <<tableVars, phase, root, late>>
    /\ UNCHANGED <<kroot, cur, satp, todo, loader, all, due, panic>>

(* A dying thread is taken out of all, if it is there, and then dropped.   *)
TailDrop ==
    /\ ~panic /\ tail.step = "drop"
    /\ tail' = [prev |-> NoThread, step |-> "none"]
    /\ LET p == tail.prev
       IN  IF p \in Proc /\ phase[p] = "dying"
           THEN /\ all' = all \ {p}
                /\ late' = late \cup ({p} \cap due)
                /\ IF loader[p] = NoThread THEN DropThread(p)
                   ELSE phase' = [phase EXCEPT ![p] = "released"] /\ UNCHANGED <<tableVars, root>>
           ELSE UNCHANGED <<tableVars, phase, root, all, late>>
    /\ UNCHANGED <<kroot, cur, satp, todo, loader, due, panic>>

Halted == panic /\ UNCHANGED vars

-----------------------------------------------------------------------------
Execute(p) ==
    \/ \E img \in Images : Clone(p, img)
    \/ LoadFails(p) \/ LoadPage(p) \/ InitUserStack(p) \/ Register(p) \/ Push(p) \/ DropArc(p)

Next ==
    \/ \E p \in Proc : Execute(p) \/ Exit(p)
    \/ \E u \in Thread : Switch(u)
    \/ TailActivate \/ TailDrop \/ Halted

Spec == Init /\ [][Next]_vars

-----------------------------------------------------------------------------
(* The processes that have an address space.                               *)
Alive == {p \in Proc : phase[p] # "none"}

(* walk(): the tables that the hart reaches from r, kernel tables included. *)
Reached(r) ==
    LET next(S) == UNION {{tables[t][i].pa : i \in {j \in PX : tables[t][j] # NoEntry /\ ~tables[t][j].leaf}}
                             : t \in S \cap DOMAIN tables}
    IN  {r} \cup next({r}) \cup next(next({r}))

(* What get_pte finds for a kernel page in the table at r.                 *)
Sees(r, va) == tables[tables[tables[r][va[1]].pa][va[2]].pa][va[3]]

(* Nothing that is in use has been freed, and no two spaces own the same   *)
(* page: the effective table, those of all processes and all they reach    *)
(* are allocated, the kernel is mapped in each of them, and the pages that *)
(* destroy() would free are the space's own.                               *)
SpacesSound ==
    LET roots == {kroot, satp} \cup {root[p] : p \in Alive}
    IN  /\ \A r \in roots : Reached(r) \subseteq DOMAIN tables
        /\ \A r \in roots : \A va \in KernelPages : Sees(r, va).pa = va
        /\ \A p \in Alive : PagesOf(tables, root[p]) \subseteq upages
        /\ \A p \in Alive : TreeOf(tables, root[p]) \cap Reached(kroot) = {}
        /\ \A p, q \in Alive : p # q =>
               /\ TreeOf(tables, root[p]) \cap TreeOf(tables, root[q]) = {}
               /\ PagesOf(tables, root[p]) \cap PagesOf(tables, root[q]) = {}

(* Nothing is lost but for one race: each allocated page belongs to the    *)
(* kernel's table or to a process that has not been dropped; and a process *)
(* is dropped when it is dead and its loader has let go of it, unless it   *)
(* died before register() had come to push it to Manager::all.  That one   *)
(* stays in all, with its table and its pages.                             *)
NothingLeaks ==
    /\ DOMAIN tables = Reached(kroot) \cup UNION {TreeOf(tables, root[p]) : p \in Alive}
    /\ upages = UNION {PagesOf(tables, root[p]) : p \in Alive}
    /\ \A p \in Proc : phase[p] = "released" /\ loader[p] = NoThread => p \in late \cap all
=============================================================================
