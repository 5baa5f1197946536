------------------------- MODULE AddressSpaceProofs -------------------------
(***************************************************************************)
(* Proofs about address spaces, for any number of processes, programs and  *)
(* pages.  The invariant gives every page table an owner, the kernel or a  *)
(* process, and a level; destroy() frees what its process owns.            *)
(***************************************************************************)
EXTENDS AddressSpace, FiniteSetTheorems, WellFoundedInduction, TLAPS

(* The owner of the kernel's tables, the root of them, and the entries of  *)
(* a root that lead to the kernel.                                         *)
Kern  == NoThread
KRoot == Min(KPages)
KTop  == {va[1] : va \in KernelPages}

(* Entry i of table t leads to n.                                          *)
Leads(ts, t, i, n) == ts[t][i] # NoEntry /\ ts[t][i].pa = n

(* map() has made an entry for va in the space at r.                       *)
Mapped(ts, r, va) ==
    \E m, n \in DOMAIN ts :
        Leads(ts, r, va[1], m) /\ Leads(ts, m, va[2], n) /\ ts[n][va[3]] # NoEntry

-----------------------------------------------------------------------------
TablesOK(ts, own, lvl) ==
    /\ DOMAIN ts \subseteq KPages
    /\ ts = [t \in DOMAIN ts |-> ts[t]]
    /\ \A t \in DOMAIN ts : ts[t] = [i \in PX |-> ts[t][i]]
    /\ own \in [KPages -> Proc \cup {Kern}]
    /\ lvl \in [KPages -> 0..2]

(* Leaves are at level 0; an entry above leads one level down, to a table  *)
(* of the same owner or, from a root or in the kernel, of the kernel.      *)
EntryOK(e, t, ts, own, lvl) ==
    /\ e.leaf <=> lvl[t] = 0
    /\ ~e.leaf => /\ e.pa \in DOMAIN ts /\ lvl[e.pa] = lvl[t] - 1
                  /\ e.global => own[e.pa] = Kern
                  /\ ~e.global => own[e.pa] = own[t]
    /\ own[t] = Kern => e.global
    /\ e.global => own[t] = Kern \/ lvl[t] = 2

Levelled(ts, own, lvl) ==
    \A t \in DOMAIN ts, i \in PX : ts[t][i] # NoEntry => EntryOK(ts[t][i], t, ts, own, lvl)

(* Entries of processes lead to different tables and to different pages.   *)
Distinct(ts) ==
    \A t, s \in DOMAIN ts, i, j \in PX :
        /\ ts[t][i] # NoEntry /\ ts[s][j] # NoEntry
        /\ ~ts[t][i].global /\ ~ts[s][j].global
        /\ ts[t][i].leaf <=> ts[s][j].leaf
        /\ ts[t][i].pa = ts[s][j].pa
        => t = s /\ i = j

(* A table that is no root is found from a table of its owner.             *)
Found(ts, own, lvl) ==
    \A t \in DOMAIN ts : lvl[t] # 2 =>
        \E s \in DOMAIN ts, i \in PX : own[s] = own[t] /\ ts[s][i] # NoEntry /\ ~ts[s][i].leaf /\ ts[s][i].pa = t

(* The pages of UserPool that are in use are those that processes map.     *)
PagesUsed(ts, up) ==
    /\ up \subseteq UPages
    /\ \A u \in up : \E t \in DOMAIN ts, i \in PX :
          ts[t][i] # NoEntry /\ ~ts[t][i].global /\ ts[t][i].leaf /\ ts[t][i].pa = u
    /\ \A t \in DOMAIN ts, i \in PX :
          ts[t][i] # NoEntry /\ ~ts[t][i].global /\ ts[t][i].leaf => ts[t][i].pa \in up

(* The roots are those of the kernel and of the processes in al.           *)
Rooted(ts, al, rt, own, lvl) ==
    /\ al \subseteq Proc
    /\ KRoot \in DOMAIN ts /\ own[KRoot] = Kern /\ lvl[KRoot] = 2
    /\ \A p \in al : rt[p] \in DOMAIN ts /\ own[rt[p]] = p /\ lvl[rt[p]] = 2
    /\ \A t \in DOMAIN ts : own[t] = Kern \/ own[t] \in al
    /\ \A t \in DOMAIN ts : lvl[t] = 2 /\ own[t] = Kern => t = KRoot
    /\ \A t \in DOMAIN ts : lvl[t] = 2 /\ own[t] \in al => t = rt[own[t]]

(* The kernel is mapped in all of them, and nothing else is shared.        *)
KernelMapped(ts, al, rt) ==
    /\ \A va \in KernelPages : \E m, n \in DOMAIN ts :
          Leads(ts, KRoot, va[1], m) /\ Leads(ts, m, va[2], n) /\ Leads(ts, n, va[3], va)
    /\ \A i \in PX : ts[KRoot][i] # NoEntry => i \in KTop
    /\ \A p \in al, i \in PX :
          /\ i \in KTop => ts[rt[p]][i] = ts[KRoot][i]
          /\ i \notin KTop /\ ts[rt[p]][i] # NoEntry => ~ts[rt[p]][i].global

Sound(ts, up, al, rt, own, lvl) ==
    /\ TablesOK(ts, own, lvl) /\ Levelled(ts, own, lvl)
    /\ Distinct(ts) /\ Found(ts, own, lvl) /\ PagesUsed(ts, up)
    /\ Rooted(ts, al, rt, own, lvl) /\ KernelMapped(ts, al, rt)

(* What execute() has yet to load is not mapped yet.                       *)
UserVa == {va \in Va : va[1] \notin KTop}

LoadOK(p) ==
    /\ todo[p] \in Seq(UserVa)
    /\ \A i \in 1..Len(todo[p]) :
          /\ todo[p][i] # StackPage /\ ~Mapped(tables, root[p], todo[p][i])
          /\ \A j \in 1..Len(todo[p]) : todo[p][i] = todo[p][j] => i = j
    /\ ~Mapped(tables, root[p], StackPage)

(* A process is known to its loader until that drops its Arc, and the      *)
(* manager runs it until schedule_tail drops its own.                      *)
ProcOK(p) ==
    /\ phase[p] \in {"none", "cloned", "loading", "built", "ready", "dying", "released"}
    /\ loader[p] \in Loader \cup {NoThread}
    /\ phase[p] \in {"cloned", "loading", "built"} => loader[p] \in Loader
    /\ phase[p] \in {"cloned", "loading"} => LoadOK(p)
    /\ phase[p] = "dying" => IF tail.step = "none" THEN cur = p ELSE tail.prev = p

HartOK ==
    /\ cur \in Thread
    /\ cur \in Proc => phase[cur] \in {"ready", "dying"}
    /\ tail.step \in {"none", "activate", "drop"}
    /\ tail.step # "none" => /\ tail.prev \in Thread /\ tail.prev # cur
                             /\ tail.prev \in Proc => phase[tail.prev] \in {"ready", "dying"}
                             /\ cur \in Proc => phase[cur] = "ready"
    /\ satp = IF tail.step = "activate" THEN TableOf(tail.prev) ELSE TableOf(cur)

Typed ==
    /\ kroot = KRoot /\ panic \in BOOLEAN
    /\ root = [p \in Proc |-> root[p]] /\ phase = [p \in Proc |-> phase[p]]
    /\ todo = [p \in Proc |-> todo[p]] /\ loader = [p \in Proc |-> loader[p]]

(* Some owners and levels of the tables make them sound.                   *)
Sorted(ts, up, al, rt) == \E own, lvl : Sound(ts, up, al, rt, own, lvl)

(* Manager::all has the processes that live and that register() has pushed *)
(* there, and the late ones; of a dead process that nobody executes any    *)
(* more, only its late entry in all is left.                               *)
ListOK(p) ==
    /\ p \in due \cup all \cup late => phase[p] \in {"ready", "dying", "released"}
    /\ p \in due => loader[p] \in Loader
    /\ p \in late => phase[p] = "released"
    /\ phase[p] \in {"ready", "dying"} => (p \in due <=> p \notin all)
    /\ phase[p] = "released" => /\ p \in late => (p \in due <=> p \notin all)
                                /\ p \notin late => p \notin due \cup all /\ loader[p] \in Loader

ListInv == \A p \in Proc : ListOK(p)

SpaceInv ==
    /\ Typed /\ HartOK
    /\ \A p \in Proc : ProcOK(p)
    /\ Sorted(tables, upages, Alive, root)

-----------------------------------------------------------------------------
(* Some relation on the natural numbers orders them well.                  *)
LEMMA NatWellFounded ==
    \E R : IsWellFoundedOn(R, Nat) /\ \A x, y \in Nat : y < x => <<y, x>> \in R
  <1> DEFINE R == OpToRel(<, Nat)
  <1>1. IsWellFoundedOn(R, Nat)
    BY NatLessThanWellFounded
  <1>2. \A x, y \in Nat : y < x => <<y, x>> \in R
    BY DEF OpToRel
  <1> HIDE DEF R
  <1> QED
    BY <1>1, <1>2, Zenon

(* The least of a set of pages is one of them.                             *)
LEMMA MinIsMember ==
    ASSUME NEW S, S \subseteq Nat, S # {}
    PROVE  Min(S) \in S
  <1>1. PICK R : IsWellFoundedOn(R, Nat) /\ \A x, y \in Nat : y < x => <<y, x>> \in R
    BY NatWellFounded
  <1>2. \E x \in S : \A y \in S : ~(<<y, x>> \in R)
    BY <1>1, WFMin
  <1>3. \A x, y \in S : y < x => <<y, x>> \in R
    BY <1>1, Zenon
  <1>4. \E x \in S : \A y \in S : ~(y < x)
    BY <1>2, <1>3, Zenon
  <1>5. \E x \in S : \A y \in S : x <= y
    BY <1>4, SMT
  <1>6. Min(S) = CHOOSE x \in S : \A y \in S : x <= y
    BY DEF Min
  <1> QED
    BY <1>5, <1>6

(* kalloc of a page that is free.                                          *)
LEMMA FreshPage ==
    ASSUME NEW ts, ~(KPages \subseteq DOMAIN ts)
    PROVE  Fresh(ts) \in KPages /\ Fresh(ts) \notin DOMAIN ts
  <1>1. KPages \ DOMAIN ts \subseteq Nat /\ KPages \ DOMAIN ts # {}
    BY SpaceAssumption
  <1>2. Min(KPages \ DOMAIN ts) \in KPages \ DOMAIN ts
    BY <1>1, MinIsMember
  <1> QED
    BY <1>2 DEF Fresh

(* The kernel's tables at boot are its own, on three levels.               *)
LEMMA BootSound ==
    \E own, lvl : \A rt : Sound(KernelTables, {}, {}, rt, own, lvl)
  <1> DEFINE ts == KernelTables
             r  == KRoot
             Below(S) == UNION {{ts[t][i].pa : i \in {j \in PX : ts[t][j] # NoEntry}} : t \in S}
             L1 == Below({r})
             L0 == Below(L1)
             own == [t \in KPages |-> Kern]
             lvl == [t \in KPages |-> IF t = r THEN 2 ELSE IF t \in L1 THEN 1 ELSE 0]
  <1>1. /\ ts = [t \in {r} \cup L1 \cup L0 |-> ts[t]] /\ DOMAIN ts \subseteq KPages
        /\ r \notin L1 \cup L0 /\ L1 \cap L0 = {}
        /\ \A t \in DOMAIN ts :
             /\ ts[t] = [i \in PX |-> ts[t][i]]
             /\ \A i \in PX : ts[t][i] # NoEntry => ts[t][i].global /\ (ts[t][i].leaf <=> t \in L0)
        /\ \A i \in PX : ts[r][i] # NoEntry => \E va \in KernelPages : va[1] = i
        /\ \A va \in KernelPages : \E t \in L1, u \in L0 :
             /\ ts[r][va[1]] # NoEntry /\ ts[r][va[1]].pa = t
             /\ ts[t][va[2]] # NoEntry /\ ts[t][va[2]].pa = u
             /\ ts[u][va[3]] # NoEntry /\ ts[u][va[3]].pa = va
    BY KernelAssumption DEF KRoot
  <1>2. /\ \A n \in L1 : \E i \in PX : ts[r][i] # NoEntry /\ ts[r][i].pa = n
        /\ \A i \in PX : ts[r][i] # NoEntry => ts[r][i].pa \in L1
        /\ \A n \in L0 : \E t \in L1, i \in PX : ts[t][i] # NoEntry /\ ts[t][i].pa = n
        /\ \A t \in L1, i \in PX : ts[t][i] # NoEntry => ts[t][i].pa \in L0
    OBVIOUS
  <1> HIDE DEF ts, r, L1, L0
  <1>3. DOMAIN ts = {r} \cup L1 \cup L0
    BY <1>1
  <1>4. \A t \in DOMAIN ts : own[t] = Kern /\ lvl[t] = IF t = r THEN 2 ELSE IF t \in L1 THEN 1 ELSE 0
    BY <1>1
  <1>5. own \in [KPages -> Proc \cup {Kern}] /\ lvl \in [KPages -> 0..2]
    OBVIOUS
  <1> HIDE DEF own, lvl
  <1>6. TablesOK(ts, own, lvl)
    <2>1. ts = [t \in DOMAIN ts |-> ts[t]]
      BY <1>1, <1>3, Zenon
    <2> QED
      BY <1>1, <1>5, <2>1 DEF TablesOK
  <1>7. Levelled(ts, own, lvl)
    <2> SUFFICES ASSUME NEW t \in DOMAIN ts, NEW i \in PX, ts[t][i] # NoEntry
                 PROVE  EntryOK(ts[t][i], t, ts, own, lvl)
      BY DEF Levelled
    <2>1. ts[t][i].global /\ (ts[t][i].leaf <=> t \in L0)
      BY <1>1
    <2>2. own[t] = Kern /\ (t \in L0 <=> lvl[t] = 0)
      BY <1>1, <1>3, <1>4
    <2>3. CASE t = r
      <3>1. ts[t][i].pa \in L1 /\ t \notin L0
        BY <1>1, <1>2, <2>3
      <3>2. lvl[t] = 2 /\ lvl[ts[t][i].pa] = 1 /\ own[ts[t][i].pa] = Kern
        BY <1>1, <1>3, <1>4, <2>3, <3>1
      <3> QED
        BY <1>3, <2>1, <2>2, <3>1, <3>2 DEF EntryOK
    <2>4. CASE t \in L1
      <3>1. ts[t][i].pa \in L0 /\ t \notin L0
        BY <1>1, <1>2, <2>4
      <3>2. lvl[t] = 1 /\ lvl[ts[t][i].pa] = 0 /\ own[ts[t][i].pa] = Kern
        BY <1>1, <1>3, <1>4, <2>4, <3>1
      <3> QED
        BY <1>3, <2>1, <2>2, <3>1, <3>2 DEF EntryOK
    <2>5. CASE t \in L0
      BY <2>1, <2>2, <2>5 DEF EntryOK
    <2> QED
      BY <1>3, <2>3, <2>4, <2>5
  <1>8. Distinct(ts)
    BY <1>1 DEF Distinct
  <1>9. Found(ts, own, lvl)
    <2> SUFFICES ASSUME NEW t \in DOMAIN ts, lvl[t] # 2
                 PROVE  \E s \in DOMAIN ts, i \in PX :
                          own[s] = own[t] /\ ts[s][i] # NoEntry /\ ~ts[s][i].leaf /\ ts[s][i].pa = t
      BY DEF Found
    <2>1. \A s \in DOMAIN ts : own[s] = own[t]
      BY <1>4
    <2>2. t \in L1 \/ t \in L0
      BY <1>3, <1>4
    <2>3. CASE t \in L1
      <3>1. PICK i \in PX : ts[r][i] # NoEntry /\ ts[r][i].pa = t
        BY <1>2, <2>3
      <3> QED
        BY <1>1, <1>3, <2>1, <3>1
    <2>4. CASE t \in L0
      <3>1. PICK s \in L1, i \in PX : ts[s][i] # NoEntry /\ ts[s][i].pa = t
        BY <1>2, <2>4
      <3>2. s \in DOMAIN ts /\ s \notin L0
        BY <1>1, <1>3
      <3> QED
        BY <1>1, <2>1, <3>1, <3>2
    <2> QED
      BY <2>2, <2>3, <2>4
  <1>10. PagesUsed(ts, {})
    BY <1>1 DEF PagesUsed
  <1>11. ASSUME NEW rt
         PROVE  Rooted(ts, {}, rt, own, lvl) /\ KernelMapped(ts, {}, rt)
    <2>1. Rooted(ts, {}, rt, own, lvl)
      BY <1>3, <1>4 DEF Rooted, r
    <2>2. KernelMapped(ts, {}, rt)
      BY <1>1, <1>3 DEF KernelMapped, Leads, KTop, r
    <2> QED
      BY <2>1, <2>2
  <1> QED
    BY <1>6, <1>7, <1>8, <1>9, <1>10, <1>11 DEF Sound, ts

-----------------------------------------------------------------------------
(* The tables that destroy() reaches from the root of a process are those  *)
(* that it owns.                                                           *)
LEMMA TreeOwned ==
    ASSUME NEW ts, NEW up, NEW al, NEW rt, NEW own, NEW lvl, Sound(ts, up, al, rt, own, lvl),
           NEW p \in al
    PROVE  TreeOf(ts, rt[p]) = {t \in DOMAIN ts : own[t] = p}
  <1> DEFINE r == rt[p]
             l1 == Subtables(ts, {r})
             l0 == Subtables(ts, l1)
  <1>1. p \in Proc /\ p # Kern
    BY SpaceAssumption DEF Sound, Rooted, Kern, Thread
  <1>2. r \in DOMAIN ts /\ own[r] = p /\ lvl[r] = 2
    BY DEF Sound, Rooted
  <1>3. \A S : \A n \in Subtables(ts, S) : \E t \in S, i \in PX :
          ts[t][i] # NoEntry /\ ~ts[t][i].global /\ ~ts[t][i].leaf /\ ts[t][i].pa = n
    BY DEF Subtables, Owned
  <1>4. \A S : \A t \in S, i \in PX :
          ts[t][i] # NoEntry /\ ~ts[t][i].global /\ ~ts[t][i].leaf => ts[t][i].pa \in Subtables(ts, S)
    BY DEF Subtables, Owned
  <1>5. \A S : (\A t \in S : t \in DOMAIN ts /\ own[t] = p)
               => \A n \in Subtables(ts, S) : n \in DOMAIN ts /\ own[n] = p
    BY <1>3 DEF Sound, Levelled, EntryOK
  <1>6. \A t \in l1 : t \in DOMAIN ts /\ own[t] = p
    BY <1>2, <1>5
  <1>7. \A t \in l0 : t \in DOMAIN ts /\ own[t] = p
    BY <1>5, <1>6
  <1>8. ASSUME NEW t \in DOMAIN ts, own[t] = p, lvl[t] # 2
        PROVE  \E s \in DOMAIN ts, i \in PX :
                 /\ own[s] = p /\ lvl[s] = lvl[t] + 1
                 /\ ts[s][i] # NoEntry /\ ~ts[s][i].global /\ ~ts[s][i].leaf /\ ts[s][i].pa = t
    <2>1. PICK s \in DOMAIN ts, i \in PX :
             own[s] = own[t] /\ ts[s][i] # NoEntry /\ ~ts[s][i].leaf /\ ts[s][i].pa = t
      BY <1>8 DEF Sound, Found
    <2>2. EntryOK(ts[s][i], s, ts, own, lvl)
      BY <2>1 DEF Sound, Levelled
    <2>3. ~ts[s][i].global
      BY <1>1, <1>8, <2>1, <2>2 DEF EntryOK
    <2>4. lvl[t] \in 0..2 /\ lvl[s] \in 0..2
      BY DEF Sound, TablesOK
    <2>5. lvl[s] = lvl[t] + 1
      BY <2>1, <2>2, <2>4 DEF EntryOK
    <2> QED
      BY <1>8, <2>1, <2>3, <2>5
  <1>9. \A t \in DOMAIN ts : own[t] = p /\ lvl[t] = 2 => t = r
    BY DEF Sound, Rooted
  <1>10. \A t \in DOMAIN ts : own[t] = p /\ lvl[t] = 1 => t \in l1
    <2> SUFFICES ASSUME NEW t \in DOMAIN ts, own[t] = p, lvl[t] = 1 PROVE t \in l1
      OBVIOUS
    <2>1. PICK s \in DOMAIN ts, i \in PX :
             /\ own[s] = p /\ lvl[s] = 2
             /\ ts[s][i] # NoEntry /\ ~ts[s][i].global /\ ~ts[s][i].leaf /\ ts[s][i].pa = t
      BY <1>8
    <2>2. s \in {r}
      BY <1>9, <2>1
    <2> QED
      BY <1>4, <2>1, <2>2
  <1>11. \A t \in DOMAIN ts : own[t] = p /\ lvl[t] = 0 => t \in l0
    <2> SUFFICES ASSUME NEW t \in DOMAIN ts, own[t] = p, lvl[t] = 0 PROVE t \in l0
      OBVIOUS
    <2>1. PICK s \in DOMAIN ts, i \in PX :
             /\ own[s] = p /\ lvl[s] = 1
             /\ ts[s][i] # NoEntry /\ ~ts[s][i].global /\ ~ts[s][i].leaf /\ ts[s][i].pa = t
      BY <1>8
    <2>2. s \in l1
      BY <1>10, <2>1
    <2> HIDE DEF l1
    <2> QED
      BY <1>4, <2>1, <2>2
  <1>12. \A t \in DOMAIN ts : lvl[t] = 0 \/ lvl[t] = 1 \/ lvl[t] = 2
    BY DEF Sound, TablesOK
  <1>13. TreeOf(ts, r) = {r} \cup l1 \cup l0
    BY DEF TreeOf
  <1> HIDE DEF l1, l0, r
  <1>14. TreeOf(ts, r) = {t \in DOMAIN ts : own[t] = p}
    BY <1>2, <1>6, <1>7, <1>9, <1>10, <1>11, <1>12, <1>13
  <1> QED
    BY <1>14 DEF r

(* The pages that destroy() gives back to UserPool are those that tables   *)
(* of the process map.                                                     *)
LEMMA PagesOwned ==
    ASSUME NEW ts, NEW up, NEW al, NEW rt, NEW own, NEW lvl, Sound(ts, up, al, rt, own, lvl),
           NEW p \in al, NEW u
    PROVE  u \in PagesOf(ts, rt[p]) <=>
             \E t \in DOMAIN ts, i \in PX :
                /\ own[t] = p /\ ts[t][i] # NoEntry /\ ~ts[t][i].global /\ ts[t][i].leaf
                /\ ts[t][i].pa = u
  <1>1. PICK T : T = TreeOf(ts, rt[p])
    OBVIOUS
  <1>2. T = {t \in DOMAIN ts : own[t] = p}
    BY <1>1, TreeOwned
  <1>3. u \in Leaves(ts, T) <=>
          \E t \in T, i \in PX : /\ ts[t][i] # NoEntry /\ ~ts[t][i].global /\ ts[t][i].leaf
                                 /\ ts[t][i].pa = u
    BY DEF Leaves, Owned
  <1> QED
    BY <1>1, <1>2, <1>3 DEF PagesOf

-----------------------------------------------------------------------------
(* KernelPgTable::clone: a copy of the kernel's root for a new process.    *)
LEMMA CloneSound ==
    ASSUME NEW ts, NEW up, NEW al, NEW rt, NEW own, NEW lvl, Sound(ts, up, al, rt, own, lvl),
           NEW p \in Proc \ al, NEW n \in KPages, n \notin DOMAIN ts,
           NEW rn, rn[p] = n, \A q \in al : rn[q] = rt[q]
    PROVE  \E o, l : Sound(WithTable(ts, n, ts[KRoot]), up, al \cup {p}, rn, o, l)
  <1> DEFINE new == WithTable(ts, n, ts[KRoot])
             o == [t \in KPages |-> IF t = n THEN p ELSE own[t]]
             l == [t \in KPages |-> IF t = n THEN 2 ELSE lvl[t]]
  <1>1. /\ DOMAIN new = DOMAIN ts \cup {n}
        /\ new[n] = ts[KRoot]
        /\ \A t \in DOMAIN ts : t # n /\ new[t] = ts[t]
        /\ new = [t \in DOMAIN new |-> new[t]]
    BY DEF WithTable
  <1>2. DOMAIN ts \subseteq KPages /\ own \in [KPages -> Proc \cup {Kern}] /\ lvl \in [KPages -> 0..2]
    BY DEF Sound, TablesOK
  <1>3. /\ o \in [KPages -> Proc \cup {Kern}] /\ l \in [KPages -> 0..2]
        /\ o[n] = p /\ l[n] = 2
        /\ \A t \in DOMAIN ts : o[t] = own[t] /\ l[t] = lvl[t]
    <2>1. o \in [KPages -> Proc \cup {Kern}]
      BY <1>2
    <2>2. l \in [KPages -> 0..2]
      BY <1>2
    <2> QED
      BY <1>1, <1>2, <2>1, <2>2
  <1>4. KRoot \in DOMAIN ts /\ own[KRoot] = Kern /\ lvl[KRoot] = 2
    BY DEF Sound, Rooted
  <1>5. \A i \in PX : ts[KRoot][i] # NoEntry =>
          /\ ts[KRoot][i].global /\ ~ts[KRoot][i].leaf
          /\ ts[KRoot][i].pa \in DOMAIN ts /\ lvl[ts[KRoot][i].pa] = 1 /\ own[ts[KRoot][i].pa] = Kern
    BY <1>4 DEF Sound, Levelled, EntryOK
  <1>6. p # Kern
    BY SpaceAssumption DEF Kern, Thread
  <1> HIDE DEF new, o, l
  <1>7. TablesOK(new, o, l)
    BY <1>1, <1>2, <1>3, <1>4 DEF Sound, TablesOK
  <1>8. Levelled(new, o, l)
    <2> SUFFICES ASSUME NEW t \in DOMAIN new, NEW i \in PX, new[t][i] # NoEntry
                 PROVE  EntryOK(new[t][i], t, new, o, l)
      BY DEF Levelled
    <2>1. CASE t = n
      BY <1>1, <1>3, <1>5, <1>6, <2>1 DEF EntryOK
    <2>2. CASE t # n
      <3>1. t \in DOMAIN ts /\ new[t][i] = ts[t][i]
        BY <1>1, <2>2
      <3>2. EntryOK(ts[t][i], t, ts, own, lvl)
        BY <3>1 DEF Sound, Levelled
      <3> QED
        BY <1>1, <1>3, <3>1, <3>2 DEF EntryOK
    <2> QED
      BY <2>1, <2>2
  <1>9. \A t \in DOMAIN new, i \in PX : new[t][i] # NoEntry /\ ~new[t][i].global
          => t \in DOMAIN ts /\ new[t][i] = ts[t][i]
    BY <1>1, <1>5
  <1>10. Distinct(new)
    BY <1>9 DEF Sound, Distinct
  <1>11. Found(new, o, l)
    <2> SUFFICES ASSUME NEW t \in DOMAIN new, l[t] # 2
                 PROVE  \E s \in DOMAIN new, i \in PX :
                          o[s] = o[t] /\ new[s][i] # NoEntry /\ ~new[s][i].leaf /\ new[s][i].pa = t
      BY DEF Found
    <2>1. t \in DOMAIN ts /\ lvl[t] # 2
      BY <1>1, <1>3
    <2>2. PICK s \in DOMAIN ts, i \in PX :
             own[s] = own[t] /\ ts[s][i] # NoEntry /\ ~ts[s][i].leaf /\ ts[s][i].pa = t
      BY <2>1 DEF Sound, Found
    <2> QED
      BY <1>1, <1>3, <2>1, <2>2
  <1>12. PagesUsed(new, up)
    <2>1. ASSUME NEW u \in up
          PROVE  \E t \in DOMAIN new, i \in PX :
                   new[t][i] # NoEntry /\ ~new[t][i].global /\ new[t][i].leaf /\ new[t][i].pa = u
      <3>1. PICK t \in DOMAIN ts, i \in PX :
               ts[t][i] # NoEntry /\ ~ts[t][i].global /\ ts[t][i].leaf /\ ts[t][i].pa = u
        BY DEF Sound, PagesUsed
      <3> QED
        BY <1>1, <3>1
    <2> QED
      BY <1>9, <2>1 DEF Sound, PagesUsed
  <1>13. Rooted(new, al \cup {p}, rn, o, l)
    <2>1. \A q \in al : rn[q] \in DOMAIN ts /\ own[rn[q]] = q /\ lvl[rn[q]] = 2
      BY DEF Sound, Rooted
    <2>2. al \cup {p} \subseteq Proc /\ KRoot \in DOMAIN new /\ o[KRoot] = Kern /\ l[KRoot] = 2
      BY <1>1, <1>3, <1>4 DEF Sound, Rooted
    <2>3. \A q \in al \cup {p} : rn[q] \in DOMAIN new /\ o[rn[q]] = q /\ l[rn[q]] = 2
      BY <1>1, <1>3, <2>1
    <2>4. \A t \in DOMAIN new : o[t] = Kern \/ o[t] \in al \cup {p}
      BY <1>1, <1>3 DEF Sound, Rooted
    <2>5. \A t \in DOMAIN new : l[t] = 2 /\ o[t] = Kern => t = KRoot
      BY <1>1, <1>3, <1>6 DEF Sound, Rooted
    <2>6. \A t \in DOMAIN new : l[t] = 2 /\ o[t] \in al \cup {p} => t = rn[o[t]]
      <3> SUFFICES ASSUME NEW t \in DOMAIN new, l[t] = 2, o[t] \in al \cup {p} PROVE t = rn[o[t]]
        OBVIOUS
      <3>1. CASE t = n
        BY <1>3, <3>1
      <3>2. CASE t # n
        <4>1. t \in DOMAIN ts /\ own[t] = o[t] /\ lvl[t] = 2
          BY <1>1, <1>3, <3>2
        <4>2. own[t] = Kern \/ own[t] \in al
          BY <4>1 DEF Sound, Rooted
        <4>3. own[t] \in al
          BY <4>1, <4>2, SpaceAssumption DEF Kern, Thread, Sound, Rooted
        <4> QED
          BY <4>1, <4>3 DEF Sound, Rooted
      <3> QED
        BY <3>1, <3>2
    <2> QED
      BY <2>2, <2>3, <2>4, <2>5, <2>6 DEF Rooted
  <1>14. KernelMapped(new, al \cup {p}, rn)
    <2>1. ASSUME NEW va \in KernelPages
          PROVE  \E m, k \in DOMAIN new : Leads(new, KRoot, va[1], m) /\ Leads(new, m, va[2], k)
                                          /\ Leads(new, k, va[3], va)
      <3>1. PICK m \in DOMAIN ts, k \in DOMAIN ts :
               Leads(ts, KRoot, va[1], m) /\ Leads(ts, m, va[2], k) /\ Leads(ts, k, va[3], va)
        BY DEF Sound, KernelMapped
      <3> QED
        BY <1>1, <1>4, <3>1 DEF Leads
    <2>2. \A i \in PX : new[KRoot][i] # NoEntry => i \in KTop
      BY <1>1, <1>4 DEF Sound, KernelMapped
    <2>3. \A q \in al \cup {p}, i \in PX :
            /\ i \in KTop => new[rn[q]][i] = new[KRoot][i]
            /\ i \notin KTop /\ new[rn[q]][i] # NoEntry => ~new[rn[q]][i].global
      <3> SUFFICES ASSUME NEW q \in al \cup {p}, NEW i \in PX
                   PROVE  /\ i \in KTop => new[rn[q]][i] = new[KRoot][i]
                          /\ i \notin KTop /\ new[rn[q]][i] # NoEntry => ~new[rn[q]][i].global
        OBVIOUS
      <3>1. CASE q = p
        BY <1>1, <1>4, <2>2, <3>1
      <3>2. CASE q \in al
        <4>1. rn[q] = rt[q] /\ rt[q] \in DOMAIN ts
          BY <3>2 DEF Sound, Rooted
        <4> QED
          BY <1>1, <1>4, <3>2, <4>1 DEF Sound, KernelMapped
      <3> QED
        BY <3>1, <3>2
    <2> QED
      BY <2>1, <2>2, <2>3 DEF KernelMapped
  <1>15. Sound(new, up, al \cup {p}, rn, o, l)
    BY <1>7, <1>8, <1>10, <1>11, <1>12, <1>13, <1>14 DEF Sound
  <1> QED
    BY <1>15 DEF new

(* destroy: what a process owns is freed, and nothing else.                *)
LEMMA DestroySound ==
    ASSUME NEW ts, NEW up, NEW al, NEW rt, NEW own, NEW lvl, Sound(ts, up, al, rt, own, lvl),
           NEW p \in al, NEW rn, \A q \in al \ {p} : rn[q] = rt[q]
    PROVE  Sound([t \in DOMAIN ts \ TreeOf(ts, rt[p]) |-> ts[t]], up \ PagesOf(ts, rt[p]),
                 al \ {p}, rn, own, lvl)
  <1> DEFINE new == [t \in DOMAIN ts \ TreeOf(ts, rt[p]) |-> ts[t]]
             less == up \ PagesOf(ts, rt[p])
  <1>1. /\ \A t : t \in DOMAIN new <=> t \in DOMAIN ts /\ own[t] # p
        /\ \A t \in DOMAIN new : new[t] = ts[t]
        /\ new = [t \in DOMAIN new |-> new[t]]
    BY TreeOwned
  <1>2. \A u : u \in less <=> u \in up /\ ~ \E t \in DOMAIN ts, i \in PX :
                /\ own[t] = p /\ ts[t][i] # NoEntry /\ ~ts[t][i].global /\ ts[t][i].leaf
                /\ ts[t][i].pa = u
    BY PagesOwned
  <1>3. p # Kern
    BY SpaceAssumption DEF Sound, Rooted, Kern, Thread
  <1> HIDE DEF new, less
  <1>4. TablesOK(new, own, lvl)
    BY <1>1 DEF Sound, TablesOK
  <1>5. Levelled(new, own, lvl)
    <2> SUFFICES ASSUME NEW t \in DOMAIN new, NEW i \in PX, new[t][i] # NoEntry
                 PROVE  EntryOK(new[t][i], t, new, own, lvl)
      BY DEF Levelled
    <2>1. t \in DOMAIN ts /\ own[t] # p /\ new[t][i] = ts[t][i]
      BY <1>1
    <2>2. EntryOK(ts[t][i], t, ts, own, lvl)
      BY <2>1 DEF Sound, Levelled
    <2>3. ~ts[t][i].leaf => own[ts[t][i].pa] # p
      BY <1>3, <2>1, <2>2 DEF EntryOK
    <2> QED
      BY <1>1, <2>1, <2>2, <2>3 DEF EntryOK
  <1>6. Distinct(new)
    BY <1>1 DEF Sound, Distinct
  <1>7. Found(new, own, lvl)
    <2> SUFFICES ASSUME NEW t \in DOMAIN new, lvl[t] # 2
                 PROVE  \E s \in DOMAIN new, i \in PX :
                          own[s] = own[t] /\ new[s][i] # NoEntry /\ ~new[s][i].leaf /\ new[s][i].pa = t
      BY DEF Found
    <2>1. PICK s \in DOMAIN ts, i \in PX :
             own[s] = own[t] /\ ts[s][i] # NoEntry /\ ~ts[s][i].leaf /\ ts[s][i].pa = t
      BY <1>1 DEF Sound, Found
    <2> QED
      BY <1>1, <2>1
  <1>8. PagesUsed(new, less)
    <2>1. ASSUME NEW u \in less
          PROVE  \E t \in DOMAIN new, i \in PX :
                   new[t][i] # NoEntry /\ ~new[t][i].global /\ new[t][i].leaf /\ new[t][i].pa = u
      <3>1. PICK t \in DOMAIN ts, i \in PX :
               ts[t][i] # NoEntry /\ ~ts[t][i].global /\ ts[t][i].leaf /\ ts[t][i].pa = u
        BY <1>2 DEF Sound, PagesUsed
      <3>2. own[t] # p
        BY <1>2, <3>1
      <3> QED
        BY <1>1, <3>1, <3>2
    <2>2. ASSUME NEW t \in DOMAIN new, NEW i \in PX,
                 new[t][i] # NoEntry, ~new[t][i].global, new[t][i].leaf
          PROVE  new[t][i].pa \in less
      <3>1. t \in DOMAIN ts /\ own[t] # p /\ new[t][i] = ts[t][i]
        BY <1>1
      <3>2. ts[t][i].pa \in up
        BY <2>2, <3>1 DEF Sound, PagesUsed
      <3>3. ASSUME NEW s \in DOMAIN ts, NEW j \in PX, own[s] = p, ts[s][j] # NoEntry,
                   ~ts[s][j].global, ts[s][j].leaf, ts[s][j].pa = ts[t][i].pa
            PROVE  FALSE
        <4>1. t = s
          BY <2>2, <3>1, <3>3 DEF Sound, Distinct
        <4> QED
          BY <3>1, <3>3, <4>1
      <3> QED
        BY <1>2, <3>1, <3>2, <3>3
    <2>3. less \subseteq UPages
      BY <1>2 DEF Sound, PagesUsed
    <2> QED
      BY <2>1, <2>2, <2>3 DEF PagesUsed
  <1>9. Rooted(new, al \ {p}, rn, own, lvl)
    BY <1>1, <1>3 DEF Sound, Rooted
  <1>10. KernelMapped(new, al \ {p}, rn)
    <2>1. KRoot \in DOMAIN new /\ new[KRoot] = ts[KRoot]
      BY <1>1, <1>3 DEF Sound, Rooted
    <2>2. ASSUME NEW va \in KernelPages
          PROVE  \E m, k \in DOMAIN new : Leads(new, KRoot, va[1], m) /\ Leads(new, m, va[2], k)
                                          /\ Leads(new, k, va[3], va)
      <3>1. PICK m \in DOMAIN ts, k \in DOMAIN ts :
               Leads(ts, KRoot, va[1], m) /\ Leads(ts, m, va[2], k) /\ Leads(ts, k, va[3], va)
        BY DEF Sound, KernelMapped
      <3>2. va[1] \in PX /\ va[2] \in PX /\ va[3] \in PX
        BY SpaceAssumption DEF Va
      <3>3. EntryOK(ts[KRoot][va[1]], KRoot, ts, own, lvl) /\ lvl[KRoot] = 2 /\ own[KRoot] = Kern
        BY <3>1, <3>2 DEF Leads, Sound, Levelled, Rooted
      <3>4. own[m] = Kern /\ lvl[m] = 1
        BY <3>1, <3>3 DEF EntryOK, Leads
      <3>5. EntryOK(ts[m][va[2]], m, ts, own, lvl)
        BY <3>1, <3>2 DEF Leads, Sound, Levelled
      <3>6. own[k] = Kern
        BY <3>1, <3>4, <3>5 DEF EntryOK, Leads
      <3>7. m \in DOMAIN new /\ k \in DOMAIN new
        BY <1>1, <1>3, <3>4, <3>6
      <3> QED
        BY <1>1, <2>1, <3>1, <3>7 DEF Leads
    <2>3. \A q \in al \ {p} : rn[q] \in DOMAIN new /\ new[rn[q]] = ts[rt[q]]
      BY <1>1 DEF Sound, Rooted
    <2> QED
      BY <2>1, <2>2, <2>3 DEF Sound, KernelMapped
  <1>11. Sound(new, less, al \ {p}, rn, own, lvl)
    BY <1>4, <1>5, <1>6, <1>7, <1>8, <1>9, <1>10 DEF Sound
  <1> QED
    BY <1>11 DEF new, less

(* From entry i of table t, which p owns, walk_or_create gets to table n.  *)
Walked(ts, up, al, rt, lvl, p, t, i, new, o, l, n) ==
    /\ new = WalkOrCreate(ts, t, i, FALSE)
    /\ Sound(new, up, al, rt, o, l)
    /\ n \in DOMAIN new /\ n = new[t][i].pa /\ o[n] = p /\ l[n] = lvl[t] - 1
    /\ DOMAIN new = DOMAIN ts \cup {n}
    /\ new[t][i] # NoEntry /\ ~new[t][i].global /\ ~new[t][i].leaf
    /\ \A s \in DOMAIN ts, j \in PX : ts[s][j] # NoEntry => new[s][j] = ts[s][j]
    /\ \A q \in al, va \in Va : Mapped(new, rt[q], va) => Mapped(ts, rt[q], va)
    /\ ts[t][i] # NoEntry => new = ts

(* walk_or_create, for a process: a table it finds or makes one level down *)
(* is the process's own, and no virtual page is mapped by it.              *)
LEMMA WalkSound ==
    ASSUME NEW ts, NEW up, NEW al, NEW rt, NEW own, NEW lvl, Sound(ts, up, al, rt, own, lvl),
           NEW p \in al, NEW t \in DOMAIN ts, own[t] = p, lvl[t] # 0,
           NEW i \in PX, lvl[t] = 2 => i \notin KTop,
           ts[t][i] = NoEntry => ~(KPages \subseteq DOMAIN ts)
    PROVE  \E new, o, l, n : Walked(ts, up, al, rt, lvl, p, t, i, new, o, l, n)
  <1>1. p # Kern /\ p \in Proc
    BY SpaceAssumption DEF Sound, Rooted, Kern, Thread
  <1>2. /\ DOMAIN ts \subseteq KPages /\ own \in [KPages -> Proc \cup {Kern}] /\ lvl \in [KPages -> 0..2]
        /\ ts = [s \in DOMAIN ts |-> ts[s]]
        /\ \A s \in DOMAIN ts : ts[s] = [j \in PX |-> ts[s][j]]
    BY DEF Sound, TablesOK
  <1>3. CASE ts[t][i] # NoEntry
    <2>1. WalkOrCreate(ts, t, i, FALSE) = ts
      BY <1>3 DEF WalkOrCreate
    <2>2. EntryOK(ts[t][i], t, ts, own, lvl)
      BY <1>3 DEF Sound, Levelled
    <2>3. ~ts[t][i].global
      <3>1. CASE lvl[t] = 2
        <4>1. t = rt[p]
          BY <3>1 DEF Sound, Rooted
        <4> QED
          BY <1>3, <3>1, <4>1 DEF Sound, KernelMapped
      <3>2. CASE lvl[t] # 2
        BY <1>1, <2>2, <3>2 DEF EntryOK
      <3> QED
        BY <3>1, <3>2
    <2>4. /\ ~ts[t][i].leaf /\ ts[t][i].pa \in DOMAIN ts
          /\ own[ts[t][i].pa] = p /\ lvl[ts[t][i].pa] = lvl[t] - 1
      BY <2>2, <2>3 DEF EntryOK
    <2>5. DOMAIN ts = DOMAIN ts \cup {ts[t][i].pa}
      BY <2>4
    <2>6. Walked(ts, up, al, rt, lvl, p, t, i, ts, own, lvl, ts[t][i].pa)
      BY <1>3, <2>1, <2>3, <2>4, <2>5 DEF Walked
    <2> QED
      BY <2>6
  <1>4. CASE ts[t][i] = NoEntry
    <2>1. PICK n : n = Fresh(ts) /\ n \in KPages /\ n \notin DOMAIN ts
      BY <1>4, FreshPage
    <2>2. PICK e : e = [pa |-> n, leaf |-> FALSE, global |-> FALSE]
      OBVIOUS
    <2>3. e.pa = n /\ ~e.leaf /\ ~e.global /\ e # NoEntry
      <3>1. e \in Entry
        BY <2>1, <2>2, SpaceAssumption DEF Entry
      <3>2. e # NoEntry
        BY <3>1, SpaceAssumption
      <3> QED
        BY <2>2, <3>2
    <2> DEFINE new == WalkOrCreate(ts, t, i, FALSE)
               o == [s \in KPages |-> IF s = n THEN p ELSE own[s]]
               l == [s \in KPages |-> IF s = n THEN lvl[t] - 1 ELSE lvl[s]]
    <2>4. new = WithTable([ts EXCEPT ![t][i] = e], n, Empty)
      BY <1>4, <2>1, <2>2 DEF WalkOrCreate
    <2>5. PICK mid : mid = [ts EXCEPT ![t][i] = e]
      OBVIOUS
    <2>6. /\ DOMAIN mid = DOMAIN ts
          /\ \A s \in DOMAIN ts : s # t => mid[s] = ts[s]
          /\ mid[t] = [ts[t] EXCEPT ![i] = e]
      BY <1>2, <2>5
    <2>7. /\ mid[t] = [j \in PX |-> mid[t][j]]
          /\ \A j \in PX : mid[t][j] = IF j = i THEN e ELSE ts[t][j]
      <3>1. PICK f : f = ts[t]
        OBVIOUS
      <3>2. f = [j \in PX |-> f[j]]
        BY <1>2, <3>1
      <3>3. PICK g : g = [f EXCEPT ![i] = e]
        OBVIOUS
      <3>4. g = [j \in PX |-> g[j]] /\ \A j \in PX : g[j] = IF j = i THEN e ELSE f[j]
        BY <3>2, <3>3
      <3> QED
        BY <2>6, <3>1, <3>3, <3>4
    <2>8. /\ DOMAIN new = DOMAIN ts \cup {n} /\ new = [s \in DOMAIN new |-> new[s]]
          /\ new[n] = Empty
          /\ \A s \in DOMAIN ts : s # n /\ new[s] = mid[s]
      BY <2>1, <2>4, <2>5, <2>6 DEF WithTable
    <2>9. /\ \A j \in PX : new[n][j] = NoEntry
          /\ new[n] = [j \in PX |-> new[n][j]]
      BY <2>8 DEF Empty
    <2> HIDE DEF new
    <2>10. \A s \in DOMAIN ts, j \in PX : new[s][j] = IF s = t /\ j = i THEN e ELSE ts[s][j]
      BY <2>6, <2>7, <2>8
    <2>11. lvl[t] \in 1..2
      BY <1>2
    <2>12. /\ o \in [KPages -> Proc \cup {Kern}] /\ l \in [KPages -> 0..2]
           /\ o[n] = p /\ l[n] = lvl[t] - 1
           /\ \A s \in DOMAIN ts : o[s] = own[s] /\ l[s] = lvl[s]
      <3>1. o \in [KPages -> Proc \cup {Kern}]
        BY <1>1, <1>2
      <3>2. l \in [KPages -> 0..2]
        <4>1. lvl[t] - 1 \in 0..2
          BY <2>11
        <4> QED
          BY <1>2, <4>1
      <3> QED
        BY <1>2, <2>1, <3>1, <3>2
    <2> HIDE DEF o, l
    <2>13. TablesOK(new, o, l)
      <3>1. \A s \in DOMAIN new : new[s] = [j \in PX |-> new[s][j]]
        <4> SUFFICES ASSUME NEW s \in DOMAIN new PROVE new[s] = [j \in PX |-> new[s][j]]
          OBVIOUS
        <4>1. CASE s = n
          BY <2>9, <4>1
        <4>2. CASE s = t
          BY <2>7, <2>8, <4>2
        <4>3. CASE s # n /\ s # t
          BY <1>2, <2>6, <2>8, <4>3
        <4> QED
          BY <4>1, <4>2, <4>3
      <3> QED
        BY <1>2, <2>1, <2>8, <2>12, <3>1 DEF TablesOK
    <2>14. Levelled(new, o, l)
      <3> SUFFICES ASSUME NEW s \in DOMAIN new, NEW j \in PX, new[s][j] # NoEntry
                   PROVE  EntryOK(new[s][j], s, new, o, l)
        BY DEF Levelled
      <3>1. s \in DOMAIN ts
        BY <2>8, <2>9
      <3>2. CASE s = t /\ j = i
        BY <1>1, <2>3, <2>8, <2>10, <2>11, <2>12, <3>1, <3>2 DEF EntryOK
      <3>3. CASE ~(s = t /\ j = i)
        <4>1. new[s][j] = ts[s][j]
          BY <2>10, <3>1, <3>3
        <4>2. EntryOK(ts[s][j], s, ts, own, lvl)
          BY <3>1, <4>1 DEF Sound, Levelled
        <4> QED
          BY <2>8, <2>12, <3>1, <4>1, <4>2 DEF EntryOK
      <3> QED
        BY <3>2, <3>3
    <2>15. \A s \in DOMAIN ts, j \in PX : ts[s][j] # NoEntry /\ ~ts[s][j].leaf => ts[s][j].pa # n
      BY <2>1 DEF Sound, Levelled, EntryOK
    <2>16. Distinct(new)
      <3> SUFFICES ASSUME NEW s \in DOMAIN new, NEW u \in DOMAIN new, NEW j \in PX, NEW k \in PX,
                          new[s][j] # NoEntry, new[u][k] # NoEntry,
                          ~new[s][j].global, ~new[u][k].global,
                          new[s][j].leaf <=> new[u][k].leaf, new[s][j].pa = new[u][k].pa
                   PROVE  s = u /\ j = k
        BY DEF Distinct
      <3>1. s \in DOMAIN ts /\ u \in DOMAIN ts
        BY <2>8, <2>9
      <3>2. CASE s = t /\ j = i
        BY <2>3, <2>10, <2>15, <3>1, <3>2
      <3>3. CASE u = t /\ k = i
        BY <2>3, <2>10, <2>15, <3>1, <3>3
      <3>4. CASE ~(s = t /\ j = i) /\ ~(u = t /\ k = i)
        <4>1. new[s][j] = ts[s][j] /\ new[u][k] = ts[u][k]
          BY <2>10, <3>1, <3>4
        <4> QED
          BY <3>1, <4>1 DEF Sound, Distinct
      <3> QED
        BY <3>2, <3>3, <3>4
    <2>17. Found(new, o, l)
      <3> SUFFICES ASSUME NEW s \in DOMAIN new, l[s] # 2
                   PROVE  \E u \in DOMAIN new, j \in PX :
                            o[u] = o[s] /\ new[u][j] # NoEntry /\ ~new[u][j].leaf /\ new[u][j].pa = s
        BY DEF Found
      <3>1. CASE s = n
        BY <2>3, <2>8, <2>10, <2>12, <3>1
      <3>2. CASE s # n
        <4>1. s \in DOMAIN ts /\ lvl[s] # 2
          BY <2>8, <2>12, <3>2
        <4>2. PICK u \in DOMAIN ts, j \in PX :
                 own[u] = own[s] /\ ts[u][j] # NoEntry /\ ~ts[u][j].leaf /\ ts[u][j].pa = s
          BY <4>1 DEF Sound, Found
        <4>3. new[u][j] = ts[u][j]
          BY <1>4, <2>10, <4>2
        <4> QED
          BY <2>8, <2>12, <4>1, <4>2, <4>3
      <3> QED
        BY <3>1, <3>2
    <2>18. PagesUsed(new, up)
      <3>1. ASSUME NEW u \in up
            PROVE  \E s \in DOMAIN new, j \in PX :
                     new[s][j] # NoEntry /\ ~new[s][j].global /\ new[s][j].leaf /\ new[s][j].pa = u
        <4>1. PICK s \in DOMAIN ts, j \in PX :
                 ts[s][j] # NoEntry /\ ~ts[s][j].global /\ ts[s][j].leaf /\ ts[s][j].pa = u
          BY DEF Sound, PagesUsed
        <4>2. new[s][j] = ts[s][j]
          BY <1>4, <2>10, <4>1
        <4> QED
          BY <2>8, <4>1, <4>2
      <3>2. \A s \in DOMAIN new, j \in PX : new[s][j] # NoEntry /\ new[s][j].leaf
              => s \in DOMAIN ts /\ new[s][j] = ts[s][j]
        BY <2>3, <2>8, <2>9, <2>10
      <3> QED
        BY <3>1, <3>2 DEF Sound, PagesUsed
    <2>19. Rooted(new, al, rt, o, l)
      <3>1. l[n] # 2 /\ o[n] \in al
        BY <2>11, <2>12
      <3> QED
        BY <2>8, <2>12, <3>1 DEF Sound, Rooted
    <2>20. KernelMapped(new, al, rt)
      <3>1. KRoot \in DOMAIN ts /\ KRoot # t
        BY <1>1 DEF Sound, Rooted
      <3>2. ASSUME NEW va \in KernelPages
            PROVE  \E m, k \in DOMAIN new : Leads(new, KRoot, va[1], m) /\ Leads(new, m, va[2], k)
                                            /\ Leads(new, k, va[3], va)
        <4>1. PICK m \in DOMAIN ts, k \in DOMAIN ts :
                 Leads(ts, KRoot, va[1], m) /\ Leads(ts, m, va[2], k) /\ Leads(ts, k, va[3], va)
          BY DEF Sound, KernelMapped
        <4>2. va[1] \in PX /\ va[2] \in PX /\ va[3] \in PX
          BY SpaceAssumption DEF Va
        <4>3. \A s \in DOMAIN ts, j \in PX : ts[s][j] # NoEntry => new[s][j] = ts[s][j]
          BY <1>4, <2>10
        <4> QED
          BY <2>8, <3>1, <4>1, <4>2, <4>3 DEF Leads
      <3>3. \A j \in PX : new[KRoot][j] = ts[KRoot][j]
        BY <2>10, <3>1
      <3>4. ASSUME NEW q \in al, NEW j \in PX
            PROVE  /\ j \in KTop => new[rt[q]][j] = new[KRoot][j]
                   /\ j \notin KTop /\ new[rt[q]][j] # NoEntry => ~new[rt[q]][j].global
        <4>1. rt[q] \in DOMAIN ts /\ lvl[rt[q]] = 2
          BY DEF Sound, Rooted
        <4>2. CASE rt[q] = t /\ j = i
          BY <2>3, <2>10, <4>1, <4>2
        <4>3. CASE ~(rt[q] = t /\ j = i)
          BY <2>10, <3>3, <4>1, <4>3 DEF Sound, KernelMapped
        <4> QED
          BY <4>2, <4>3
      <3> QED
        BY <3>2, <3>3, <3>4 DEF Sound, KernelMapped
    <2>21. Sound(new, up, al, rt, o, l)
      BY <2>13, <2>14, <2>16, <2>17, <2>18, <2>19, <2>20 DEF Sound
    <2>22. ASSUME NEW q \in al, NEW va \in Va, Mapped(new, rt[q], va)
           PROVE  Mapped(ts, rt[q], va)
      <3>1. PICK m \in DOMAIN new, k \in DOMAIN new :
               Leads(new, rt[q], va[1], m) /\ Leads(new, m, va[2], k) /\ new[k][va[3]] # NoEntry
        BY <2>22 DEF Mapped
      <3>2. va[1] \in PX /\ va[2] \in PX /\ va[3] \in PX
        BY DEF Va
      <3>3. rt[q] \in DOMAIN ts
        BY DEF Sound, Rooted
      <3>4. m # n /\ k # n
        BY <2>9, <3>1, <3>2 DEF Leads
      <3>5. m \in DOMAIN ts /\ k \in DOMAIN ts
        BY <2>8, <3>4
      <3>6. Leads(ts, rt[q], va[1], m)
        BY <2>3, <2>10, <3>1, <3>2, <3>3, <3>4 DEF Leads
      <3>7. Leads(ts, m, va[2], k)
        BY <2>3, <2>10, <3>1, <3>2, <3>4, <3>5 DEF Leads
      <3>8. ts[k][va[3]] # NoEntry
        <4>1. lvl[m] = lvl[rt[q]] - 1 /\ lvl[rt[q]] = 2
          <5>1. EntryOK(ts[rt[q]][va[1]], rt[q], ts, own, lvl) /\ lvl[rt[q]] = 2
            BY <3>2, <3>3, <3>6 DEF Leads, Sound, Levelled, Rooted
          <5> QED
            BY <3>6, <5>1 DEF EntryOK, Leads
        <4>2. EntryOK(ts[m][va[2]], m, ts, own, lvl)
          BY <3>2, <3>5, <3>7 DEF Leads, Sound, Levelled
        <4>3. lvl[k] = 0
          BY <3>7, <4>1, <4>2 DEF EntryOK, Leads
        <4> QED
          BY <2>10, <3>1, <3>2, <3>5, <4>3
      <3> QED
        BY <3>5, <3>6, <3>7, <3>8 DEF Mapped
    <2>23. \A s \in DOMAIN ts, j \in PX : ts[s][j] # NoEntry => new[s][j] = ts[s][j]
      BY <1>4, <2>10
    <2>24. new[t][i] = e
      BY <2>10
    <2>25. n \in DOMAIN new /\ n = new[t][i].pa /\ o[n] = p /\ l[n] = lvl[t] - 1
      BY <2>3, <2>8, <2>12, <2>24
    <2>26. new[t][i] # NoEntry /\ ~new[t][i].global /\ ~new[t][i].leaf
      BY <2>3, <2>24
    <2>27. new = WalkOrCreate(ts, t, i, FALSE)
      BY DEF new
    <2>28. DOMAIN new = DOMAIN ts \cup {n}
      BY <2>8
    <2>29. Walked(ts, up, al, rt, lvl, p, t, i, new, o, l, n)
      BY <1>4, <2>21, <2>22, <2>23, <2>25, <2>26, <2>27, <2>28 DEF Walked
    <2> QED
      BY <2>29
  <1> QED
    BY <1>3, <1>4

(* map() stores the entry for page pa in a table of level 0.               *)
Stored(ts, t, i, pa) == [ts EXCEPT ![t][i] = [pa |-> pa, leaf |-> TRUE, global |-> FALSE]]

StoredSound(ts, up, al, rt, own, lvl, t, i, new) ==
    /\ Sound(new, up, al, rt, own, lvl)
    /\ DOMAIN new = DOMAIN ts
    /\ \A s \in DOMAIN ts, j \in PX : ~(s = t /\ j = i) => new[s][j] = ts[s][j]

(* The page is the process's own, and nothing else changes.                *)
LEMMA LeafSound ==
    ASSUME NEW ts, NEW up, NEW al, NEW rt, NEW own, NEW lvl, Sound(ts, up, al, rt, own, lvl),
           NEW p \in al, NEW t \in DOMAIN ts, own[t] = p, lvl[t] = 0,
           NEW i \in PX, ts[t][i] = NoEntry,
           NEW u \in UPages, u \notin up,
           NEW new, new = Stored(ts, t, i, u)
    PROVE  StoredSound(ts, up \cup {u}, al, rt, own, lvl, t, i, new)
  <1>1. p # Kern /\ p \in Proc
    BY SpaceAssumption DEF Sound, Rooted, Kern, Thread
  <1>2. /\ DOMAIN ts \subseteq KPages /\ own \in [KPages -> Proc \cup {Kern}] /\ lvl \in [KPages -> 0..2]
        /\ ts = [s \in DOMAIN ts |-> ts[s]]
        /\ \A s \in DOMAIN ts : ts[s] = [j \in PX |-> ts[s][j]]
    BY DEF Sound, TablesOK
  <1>3. PICK e : e = [pa |-> u, leaf |-> TRUE, global |-> FALSE]
    OBVIOUS
  <1>4. e.pa = u /\ e.leaf /\ ~e.global /\ e # NoEntry
    <2>1. e \in Entry
      BY <1>3, SpaceAssumption DEF Entry
    <2>2. e # NoEntry
      BY <2>1, SpaceAssumption
    <2> QED
      BY <1>3, <2>2
  <1>5. new = [ts EXCEPT ![t][i] = e]
    BY <1>3 DEF Stored
  <1>6. /\ DOMAIN new = DOMAIN ts /\ new = [s \in DOMAIN new |-> new[s]]
        /\ \A s \in DOMAIN ts : s # t => new[s] = ts[s]
        /\ new[t] = [ts[t] EXCEPT ![i] = e]
    BY <1>2, <1>5
  <1>7. /\ new[t] = [j \in PX |-> new[t][j]]
        /\ \A j \in PX : new[t][j] = IF j = i THEN e ELSE ts[t][j]
    <2>1. PICK f : f = ts[t]
      OBVIOUS
    <2>2. f = [j \in PX |-> f[j]]
      BY <1>2, <2>1
    <2>3. PICK g : g = [f EXCEPT ![i] = e]
      OBVIOUS
    <2>4. g = [j \in PX |-> g[j]] /\ \A j \in PX : g[j] = IF j = i THEN e ELSE f[j]
      BY <2>2, <2>3
    <2> QED
      BY <1>6, <2>1, <2>3, <2>4
  <1>8. \A s \in DOMAIN ts, j \in PX : new[s][j] = IF s = t /\ j = i THEN e ELSE ts[s][j]
    BY <1>6, <1>7
  <1>9. TablesOK(new, own, lvl)
    <2>1. ASSUME NEW s \in DOMAIN new
          PROVE  new[s] = [j \in PX |-> new[s][j]]
      <3>1. CASE s = t
        BY <1>7, <3>1, Zenon
      <3>2. CASE s # t
        BY <1>2, <1>6, <3>2
      <3> QED
        BY <3>1, <3>2
    <2> QED
      BY <1>2, <1>6, <2>1 DEF TablesOK
  <1>10. Levelled(new, own, lvl)
    <2> SUFFICES ASSUME NEW s \in DOMAIN new, NEW j \in PX, new[s][j] # NoEntry
                 PROVE  EntryOK(new[s][j], s, new, own, lvl)
      BY DEF Levelled
    <2>1. CASE s = t /\ j = i
      BY <1>1, <1>4, <1>8, <2>1 DEF EntryOK
    <2>2. CASE ~(s = t /\ j = i)
      <3>1. s \in DOMAIN ts /\ new[s][j] = ts[s][j]
        BY <1>6, <1>8, <2>2
      <3>2. EntryOK(ts[s][j], s, ts, own, lvl)
        BY <3>1 DEF Sound, Levelled
      <3> QED
        BY <1>6, <3>1, <3>2 DEF EntryOK
    <2> QED
      BY <2>1, <2>2
  <1>11. \A s \in DOMAIN ts, j \in PX :
           ts[s][j] # NoEntry /\ ~ts[s][j].global /\ ts[s][j].leaf => ts[s][j].pa # u
    BY DEF Sound, PagesUsed
  <1>12. Distinct(new)
    <2> SUFFICES ASSUME NEW s \in DOMAIN new, NEW v \in DOMAIN new, NEW j \in PX, NEW k \in PX,
                        new[s][j] # NoEntry, new[v][k] # NoEntry,
                        ~new[s][j].global, ~new[v][k].global,
                        new[s][j].leaf <=> new[v][k].leaf, new[s][j].pa = new[v][k].pa
                 PROVE  s = v /\ j = k
      BY DEF Distinct
    <2>1. s \in DOMAIN ts /\ v \in DOMAIN ts
      BY <1>6
    <2>2. CASE s = t /\ j = i
      BY <1>4, <1>8, <1>11, <2>1, <2>2
    <2>3. CASE v = t /\ k = i
      BY <1>4, <1>8, <1>11, <2>1, <2>3
    <2>4. CASE ~(s = t /\ j = i) /\ ~(v = t /\ k = i)
      <3>1. new[s][j] = ts[s][j] /\ new[v][k] = ts[v][k]
        BY <1>8, <2>1, <2>4
      <3> QED
        BY <2>1, <3>1 DEF Sound, Distinct
    <2> QED
      BY <2>2, <2>3, <2>4
  <1>13. \A s \in DOMAIN ts, j \in PX : ts[s][j] # NoEntry => new[s][j] = ts[s][j]
    BY <1>8
  <1>14. Found(new, own, lvl)
    <2> SUFFICES ASSUME NEW s \in DOMAIN new, lvl[s] # 2
                 PROVE  \E v \in DOMAIN new, j \in PX :
                          own[v] = own[s] /\ new[v][j] # NoEntry /\ ~new[v][j].leaf /\ new[v][j].pa = s
      BY DEF Found
    <2>1. PICK v \in DOMAIN ts, j \in PX :
             own[v] = own[s] /\ ts[v][j] # NoEntry /\ ~ts[v][j].leaf /\ ts[v][j].pa = s
      BY <1>6 DEF Sound, Found
    <2> QED
      BY <1>6, <1>13, <2>1
  <1>15. PagesUsed(new, up \cup {u})
    <2>1. ASSUME NEW x \in up \cup {u}
          PROVE  \E s \in DOMAIN new, j \in PX :
                   new[s][j] # NoEntry /\ ~new[s][j].global /\ new[s][j].leaf /\ new[s][j].pa = x
      <3>1. CASE x = u
        <4>1. t \in DOMAIN new /\ new[t][i] = e
          BY <1>6, <1>8
        <4> QED
          BY <1>4, <3>1, <4>1
      <3>2. CASE x \in up
        <4>1. PICK s \in DOMAIN ts, j \in PX :
                 ts[s][j] # NoEntry /\ ~ts[s][j].global /\ ts[s][j].leaf /\ ts[s][j].pa = x
          BY <3>2 DEF Sound, PagesUsed
        <4> QED
          BY <1>6, <1>13, <4>1
      <3> QED
        BY <3>1, <3>2
    <2>2. ASSUME NEW s \in DOMAIN new, NEW j \in PX,
                 new[s][j] # NoEntry, ~new[s][j].global, new[s][j].leaf
          PROVE  new[s][j].pa \in up \cup {u}
      <3>1. CASE s = t /\ j = i
        BY <1>4, <1>8, <3>1
      <3>2. CASE ~(s = t /\ j = i)
        <4>1. s \in DOMAIN ts /\ new[s][j] = ts[s][j]
          BY <1>6, <1>8, <3>2
        <4> QED
          BY <2>2, <4>1 DEF Sound, PagesUsed
      <3> QED
        BY <3>1, <3>2
    <2>3. up \cup {u} \subseteq UPages
      BY DEF Sound, PagesUsed
    <2> QED
      BY <2>1, <2>2, <2>3 DEF PagesUsed
  <1>16. Rooted(new, al, rt, own, lvl)
    BY <1>6 DEF Sound, Rooted
  <1>17. KernelMapped(new, al, rt)
    <2>1. KRoot \in DOMAIN ts /\ KRoot # t
      BY <1>1 DEF Sound, Rooted
    <2>2. ASSUME NEW va \in KernelPages
          PROVE  \E m, k \in DOMAIN new : Leads(new, KRoot, va[1], m) /\ Leads(new, m, va[2], k)
                                          /\ Leads(new, k, va[3], va)
      <3>1. PICK m \in DOMAIN ts, k \in DOMAIN ts :
               Leads(ts, KRoot, va[1], m) /\ Leads(ts, m, va[2], k) /\ Leads(ts, k, va[3], va)
        BY DEF Sound, KernelMapped
      <3>2. va[1] \in PX /\ va[2] \in PX /\ va[3] \in PX
        BY SpaceAssumption DEF Va
      <3> QED
        BY <1>6, <1>13, <2>1, <3>1, <3>2 DEF Leads
    <2>3. new[KRoot] = ts[KRoot]
      BY <1>6, <2>1
    <2>4. \A q \in al : rt[q] \in DOMAIN ts /\ rt[q] # t /\ new[rt[q]] = ts[rt[q]]
      BY <1>6 DEF Sound, Rooted
    <2>5. \A j \in PX : new[KRoot][j] # NoEntry => j \in KTop
      BY <2>3 DEF Sound, KernelMapped
    <2>6. \A q \in al, j \in PX :
            /\ j \in KTop => new[rt[q]][j] = new[KRoot][j]
            /\ j \notin KTop /\ new[rt[q]][j] # NoEntry => ~new[rt[q]][j].global
      <3>1. \A q \in al, j \in PX :
              /\ j \in KTop => ts[rt[q]][j] = ts[KRoot][j]
              /\ j \notin KTop /\ ts[rt[q]][j] # NoEntry => ~ts[rt[q]][j].global
        BY DEF Sound, KernelMapped
      <3> SUFFICES ASSUME NEW q \in al, NEW j \in PX
                   PROVE  /\ j \in KTop => new[rt[q]][j] = new[KRoot][j]
                          /\ j \notin KTop /\ new[rt[q]][j] # NoEntry => ~new[rt[q]][j].global
        OBVIOUS
      <3>2. new[rt[q]][j] = ts[rt[q]][j] /\ new[KRoot][j] = ts[KRoot][j]
        BY <2>3, <2>4, Zenon
      <3> QED
        BY <3>1, <3>2, Zenon
    <2> QED
      BY <2>2, <2>5, <2>6 DEF KernelMapped
  <1>18. Sound(new, up \cup {u}, al, rt, own, lvl)
    BY <1>9, <1>10, <1>12, <1>14, <1>15, <1>16, <1>17 DEF Sound
  <1> QED
    BY <1>6, <1>8, <1>18 DEF StoredSound

(* Between ts and new, nothing is mapped but va, in the space of p.        *)
MapsOnly(ts, new, al, rt, p, va) ==
    \A q \in al, vb \in Va :
        Mapped(new, rt[q], vb) => Mapped(ts, rt[q], vb) \/ (q = p /\ vb = va)

(* map() of a user page that is not mapped yet: the space maps it, and no  *)
(* other page and no other space changes.                                  *)
LEMMA MapSound ==
    ASSUME NEW ts, NEW up, NEW al, NEW rt, NEW own, NEW lvl, Sound(ts, up, al, rt, own, lvl),
           NEW p \in al, NEW va \in UserVa, ~Mapped(ts, rt[p], va),
           Cardinality(KPages \ DOMAIN ts) >= Missing(ts, rt[p], va),
           NEW u \in UPages, u \notin up,
           NEW new, new = Map(ts, rt[p], va, u, FALSE)
    PROVE  Sorted(new, up \cup {u}, al, rt) /\ MapsOnly(ts, new, al, rt, p, va)
  <1>1. PICK r : r = rt[p]
    OBVIOUS
  <1>2. r \in DOMAIN ts /\ own[r] = p /\ lvl[r] = 2
    BY <1>1 DEF Sound, Rooted
  <1>3. va \in Va /\ va[1] \in PX /\ va[2] \in PX /\ va[3] \in PX /\ va[1] \notin KTop
    BY DEF UserVa, Va
  <1>4. PICK S : S = KPages \ DOMAIN ts
    OBVIOUS
  <1>5. IsFiniteSet(S)
    BY <1>4, SpaceAssumption, FS_Subset
  <1>6. ts[r][va[1]] = NoEntry => \A m : ~(S \subseteq {m})
    <2> SUFFICES ASSUME ts[r][va[1]] = NoEntry, NEW m, S \subseteq {m} PROVE FALSE
      OBVIOUS
    <2>1. Cardinality(S) >= 2
      BY <1>1, <1>4 DEF Missing
    <2>2. IsFiniteSet({m}) /\ Cardinality({m}) = 1
      BY FS_Singleton
    <2>3. Cardinality(S) <= Cardinality({m}) /\ Cardinality(S) \in Nat
      BY <1>5, <2>2, FS_Subset, FS_CardinalityType
    <2> QED
      BY <2>1, <2>2, <2>3
  <1>7. ts[r][va[1]] = NoEntry => ~(KPages \subseteq DOMAIN ts)
    BY <1>4, <1>6
  <1>8. PICK ts1, o1, l1, m : Walked(ts, up, al, rt, lvl, p, r, va[1], ts1, o1, l1, m)
    BY <1>2, <1>3, <1>7, WalkSound
  <1>9. /\ ts1 = WalkOrCreate(ts, r, va[1], FALSE)
        /\ Sound(ts1, up, al, rt, o1, l1)
        /\ m \in DOMAIN ts1 /\ m = ts1[r][va[1]].pa /\ o1[m] = p /\ l1[m] = lvl[r] - 1
        /\ DOMAIN ts1 = DOMAIN ts \cup {m}
        /\ ts1[r][va[1]] # NoEntry /\ ~ts1[r][va[1]].global /\ ~ts1[r][va[1]].leaf
        /\ \A q \in al, vb \in Va : Mapped(ts1, rt[q], vb) => Mapped(ts, rt[q], vb)
        /\ ts[r][va[1]] # NoEntry => ts1 = ts
    BY <1>8, Zenon DEF Walked
  <1>10. l1[m] = 1
    BY <1>2, <1>9
  <1>11. ts1[m][va[2]] = NoEntry => ~(KPages \subseteq DOMAIN ts1)
    <2> SUFFICES ASSUME ts1[m][va[2]] = NoEntry, KPages \subseteq DOMAIN ts1 PROVE FALSE
      OBVIOUS
    <2>1. CASE ts[r][va[1]] = NoEntry
      BY <1>4, <1>6, <1>9, <2>1
    <2>2. CASE ts[r][va[1]] # NoEntry
      <3>1. ts1 = ts /\ S = {}
        BY <1>4, <1>9, <2>2
      <3>2. Cardinality(S) >= 1
        BY <1>1, <1>4, <1>9, <2>2, <3>1 DEF Missing
      <3> QED
        BY <3>1, <3>2, FS_EmptySet
    <2> QED
      BY <2>1, <2>2
  <1>12. PICK ts2, o2, l2, n : Walked(ts1, up, al, rt, l1, p, m, va[2], ts2, o2, l2, n)
    <2>1. l1[m] # 0 /\ (l1[m] = 2 => va[2] \notin KTop)
      BY <1>10
    <2> QED
      BY <1>3, <1>9, <1>11, <2>1, WalkSound
  <1>13. /\ ts2 = WalkOrCreate(ts1, m, va[2], FALSE)
         /\ Sound(ts2, up, al, rt, o2, l2)
         /\ n \in DOMAIN ts2 /\ n = ts2[m][va[2]].pa /\ o2[n] = p /\ l2[n] = l1[m] - 1
         /\ DOMAIN ts2 = DOMAIN ts1 \cup {n}
         /\ ts2[m][va[2]] # NoEntry /\ ~ts2[m][va[2]].global /\ ~ts2[m][va[2]].leaf
         /\ \A s \in DOMAIN ts1, j \in PX : ts1[s][j] # NoEntry => ts2[s][j] = ts1[s][j]
         /\ \A q \in al, vb \in Va : Mapped(ts2, rt[q], vb) => Mapped(ts1, rt[q], vb)
    BY <1>12, Zenon DEF Walked
  <1>14. l2[n] = 0
    BY <1>10, <1>13
  <1>15. /\ r \in DOMAIN ts2 /\ m \in DOMAIN ts2
         /\ ts2[r][va[1]] # NoEntry /\ ~ts2[r][va[1]].global /\ ~ts2[r][va[1]].leaf
         /\ ts2[r][va[1]].pa = m
    <2>1. ts2[r][va[1]] = ts1[r][va[1]]
      <3>1. r \in DOMAIN ts1
        BY <1>2, <1>9
      <3>2. \A s \in DOMAIN ts1, j \in PX : ts1[s][j] # NoEntry => ts2[s][j] = ts1[s][j]
        BY <1>13, Zenon
      <3> QED
        BY <1>3, <1>9, <3>1, <3>2, Zenon
    <2>2. r \in DOMAIN ts2 /\ m \in DOMAIN ts2
      BY <1>2, <1>9, <1>13
    <2> QED
      BY <1>9, <2>1, <2>2, Zenon
  <1>16. ts2[n][va[3]] = NoEntry
    <2> SUFFICES ASSUME ts2[n][va[3]] # NoEntry PROVE FALSE
      OBVIOUS
    <2>1. Mapped(ts2, r, va)
      BY <1>13, <1>15 DEF Mapped, Leads
    <2> QED
      BY <1>1, <1>3, <1>9, <1>13, <2>1
  <1>17. new = [ts2 EXCEPT ![n][va[3]] = [pa |-> u, leaf |-> TRUE, global |-> FALSE]]
    <2>1. new = LET t1 == WalkOrCreate(ts, r, va[1], FALSE)
                    k1 == t1[r][va[1]].pa
                    t2 == WalkOrCreate(t1, k1, va[2], FALSE)
                    k0 == t2[k1][va[2]].pa
                IN  [t2 EXCEPT ![k0][va[3]] = [pa |-> u, leaf |-> TRUE, global |-> FALSE]]
      BY <1>1, Zenon DEF Map
    <2>2. WalkOrCreate(ts, r, va[1], FALSE) = ts1 /\ ts1[r][va[1]].pa = m
      BY <1>9
    <2>3. WalkOrCreate(ts1, m, va[2], FALSE) = ts2 /\ ts2[m][va[2]].pa = n
      BY <1>13
    <2> QED
      BY <2>1, <2>2, <2>3, Zenon
  <1>18. /\ Sound(new, up \cup {u}, al, rt, o2, l2)
         /\ DOMAIN new = DOMAIN ts2
         /\ \A s \in DOMAIN ts2, j \in PX : ~(s = n /\ j = va[3]) => new[s][j] = ts2[s][j]
    <2>1. /\ Sound(ts2, up, al, rt, o2, l2) /\ n \in DOMAIN ts2 /\ o2[n] = p
      BY <1>13, Zenon
    <2>2. PICK i : i = va[3]
      OBVIOUS
    <2>3. i \in PX /\ ts2[n][i] = NoEntry
      BY <1>3, <1>16, <2>2
    <2>4. new = Stored(ts2, n, i, u)
      BY <1>17, <2>2, Zenon DEF Stored
    <2>5. StoredSound(ts2, up \cup {u}, al, rt, o2, l2, n, i, new)
      BY <1>14, <2>1, <2>3, <2>4, LeafSound
    <2> QED
      BY <2>2, <2>5, Zenon DEF StoredSound
  <1>19. ASSUME NEW q \in al, NEW vb \in Va, Mapped(new, rt[q], vb)
         PROVE  Mapped(ts, rt[q], vb) \/ (q = p /\ vb = va)
    <2>1. PICK a \in DOMAIN new, b \in DOMAIN new :
             Leads(new, rt[q], vb[1], a) /\ Leads(new, a, vb[2], b) /\ new[b][vb[3]] # NoEntry
      BY <1>19 DEF Mapped
    <2>2. vb[1] \in PX /\ vb[2] \in PX /\ vb[3] \in PX
      BY DEF Va
    <2>3. rt[q] \in DOMAIN ts2 /\ l2[rt[q]] = 2 /\ o2[rt[q]] = q
      BY <1>13 DEF Sound, Rooted
    <2>4. rt[q] # n
      BY <1>14, <2>3
    <2>5. Leads(ts2, rt[q], vb[1], a) /\ a \in DOMAIN ts2 /\ b \in DOMAIN ts2
      BY <1>18, <2>1, <2>2, <2>3, <2>4 DEF Leads
    <2>6. EntryOK(ts2[rt[q]][vb[1]], rt[q], ts2, o2, l2)
      BY <1>13, <2>2, <2>3, <2>5 DEF Leads, Sound, Levelled
    <2>7. l2[a] = 1 /\ ~ts2[rt[q]][vb[1]].leaf
      BY <2>3, <2>5, <2>6 DEF EntryOK, Leads
    <2>8. a # n
      BY <1>14, <2>7
    <2>9. Leads(ts2, a, vb[2], b)
      BY <1>18, <2>1, <2>2, <2>5, <2>8 DEF Leads
    <2>10. EntryOK(ts2[a][vb[2]], a, ts2, o2, l2)
      BY <1>13, <2>2, <2>5, <2>9 DEF Leads, Sound, Levelled
    <2>11. ~ts2[a][vb[2]].leaf
      BY <2>7, <2>10 DEF EntryOK
    <2>12. CASE b = n /\ vb[3] = va[3]
      <3>1. p # Kern
        BY SpaceAssumption DEF Sound, Rooted, Kern, Thread
      <3>2. ~ts2[a][vb[2]].global
        BY <1>13, <2>9, <2>10, <2>11, <2>12, <3>1 DEF EntryOK, Leads
      <3>3. a = m /\ vb[2] = va[2]
        <4>1. ts2[a][vb[2]] # NoEntry /\ ts2[a][vb[2]].pa = ts2[m][va[2]].pa
          BY <1>13, <2>9, <2>12 DEF Leads
        <4>2. Distinct(ts2)
          BY <1>13 DEF Sound
        <4> QED
          <5>1. ts2[m][va[2]] # NoEntry /\ ~ts2[m][va[2]].global /\ ~ts2[m][va[2]].leaf
            BY <1>13, Zenon
          <5>2. a \in DOMAIN ts2 /\ m \in DOMAIN ts2 /\ va[2] \in PX /\ vb[2] \in PX
            BY <1>3, <1>15, <2>2, <2>5, Zenon
          <5> QED
            BY <2>11, <3>2, <4>1, <4>2, <5>1, <5>2 DEF Distinct
      <3>4. o2[m] = p
        BY <1>13, <1>15, <2>10, <2>11, <3>2, <3>3 DEF EntryOK
      <3>5. ~ts2[rt[q]][vb[1]].global
        BY <2>5, <2>6, <2>7, <3>1, <3>3, <3>4 DEF EntryOK, Leads
      <3>6. rt[q] = r /\ vb[1] = va[1]
        <4>1. ts2[rt[q]][vb[1]] # NoEntry /\ ts2[rt[q]][vb[1]].pa = ts2[r][va[1]].pa
          BY <1>15, <2>5, <3>3 DEF Leads
        <4>2. Distinct(ts2)
          BY <1>13 DEF Sound
        <4> QED
          BY <1>3, <1>15, <2>2, <2>3, <2>7, <3>5, <4>1, <4>2 DEF Distinct
      <3>7. o2[r] = p
        BY <1>1, <1>13 DEF Sound, Rooted
      <3>8. q = p
        BY <2>3, <3>6, <3>7
      <3>9. va = <<va[1], va[2], va[3]>> /\ vb = <<vb[1], vb[2], vb[3]>>
        BY <1>3 DEF Va
      <3> QED
        BY <2>12, <3>3, <3>6, <3>8, <3>9
    <2>13. CASE ~(b = n /\ vb[3] = va[3])
      <3>1. ts2[b][vb[3]] # NoEntry
        BY <1>18, <2>1, <2>2, <2>5, <2>13
      <3>2. Mapped(ts2, rt[q], vb)
        BY <2>5, <2>9, <3>1 DEF Mapped
      <3> QED
        BY <1>9, <1>13, <3>2
    <2> QED
      BY <2>12, <2>13
  <1> QED
    BY <1>18, <1>19 DEF Sorted, MapsOnly

(* A clone maps no user page, and nothing changes in the other spaces.     *)
LEMMA CloneMaps ==
    ASSUME NEW ts, NEW up, NEW al, NEW rt, NEW own, NEW lvl, Sound(ts, up, al, rt, own, lvl),
           NEW n, n \notin DOMAIN ts, NEW new, new = WithTable(ts, n, ts[KRoot])
    PROVE  /\ \A va \in UserVa : ~Mapped(new, n, va)
           /\ \A q \in al, va \in Va : Mapped(new, rt[q], va) => Mapped(ts, rt[q], va)
  <1>1. /\ \A t : t \in DOMAIN new <=> t \in DOMAIN ts \/ t = n
        /\ \A t \in DOMAIN ts : new[t] = ts[t]
        /\ new[n] = ts[KRoot]
    BY DEF WithTable
  <1>2. ASSUME NEW va \in UserVa, Mapped(new, n, va)
        PROVE  FALSE
    <2>1. new[n][va[1]] # NoEntry
      BY <1>2 DEF Mapped, Leads
    <2>2. va[1] \in PX /\ va[1] \notin KTop
      BY DEF UserVa, Va
    <2> QED
      BY <1>1, <2>1, <2>2 DEF Sound, KernelMapped
  <1>3. ASSUME NEW q \in al, NEW va \in Va, Mapped(new, rt[q], va)
        PROVE  Mapped(ts, rt[q], va)
    <2>1. PICK a \in DOMAIN new, b \in DOMAIN new :
             Leads(new, rt[q], va[1], a) /\ Leads(new, a, va[2], b) /\ new[b][va[3]] # NoEntry
      BY <1>3 DEF Mapped
    <2>2. va[1] \in PX /\ va[2] \in PX
      BY DEF Va
    <2>3. rt[q] \in DOMAIN ts /\ lvl[rt[q]] = 2
      BY DEF Sound, Rooted
    <2>4. Leads(ts, rt[q], va[1], a)
      BY <1>1, <2>1, <2>3 DEF Leads
    <2>5. EntryOK(ts[rt[q]][va[1]], rt[q], ts, own, lvl)
      BY <2>2, <2>3, <2>4 DEF Leads, Sound, Levelled
    <2>6. a \in DOMAIN ts /\ lvl[a] = 1
      BY <2>3, <2>4, <2>5 DEF EntryOK, Leads
    <2>7. Leads(ts, a, va[2], b)
      BY <1>1, <2>1, <2>6 DEF Leads
    <2>8. EntryOK(ts[a][va[2]], a, ts, own, lvl)
      BY <2>2, <2>6, <2>7 DEF Leads, Sound, Levelled
    <2>9. b \in DOMAIN ts
      BY <2>6, <2>7, <2>8 DEF EntryOK, Leads
    <2> QED
      BY <1>1, <2>1, <2>4, <2>6, <2>7, <2>9 DEF Mapped
  <1> QED
    BY <1>2, <1>3

(* destroy() of one space maps nothing in another.                         *)
LEMMA DestroyMaps ==
    ASSUME NEW ts, NEW up, NEW al, NEW rt, NEW own, NEW lvl, Sound(ts, up, al, rt, own, lvl),
           NEW p \in al, NEW q \in al, q # p, NEW va \in Va,
           NEW new, new = [t \in DOMAIN ts \ TreeOf(ts, rt[p]) |-> ts[t]], Mapped(new, rt[q], va)
    PROVE  Mapped(ts, rt[q], va)
  <1>1. /\ \A t : t \in DOMAIN new <=> t \in DOMAIN ts /\ own[t] # p
        /\ \A t \in DOMAIN new : new[t] = ts[t]
    BY TreeOwned
  <1>2. rt[q] \in DOMAIN new
    BY <1>1 DEF Sound, Rooted
  <1> QED
    BY <1>1, <1>2 DEF Mapped, Leads

-----------------------------------------------------------------------------
(* What a step leaves alone.                                               *)
LEMMA Unmoved ==
    ASSUME SpaceInv, UNCHANGED <<tableVars, kroot, hartVars, procVars>>, panic' \in BOOLEAN
    PROVE  SpaceInv'
  <1>1. /\ tables' = tables /\ upages' = upages /\ kroot' = kroot /\ cur' = cur /\ satp' = satp
        /\ tail' = tail /\ phase' = phase /\ root' = root /\ todo' = todo /\ loader' = loader
    BY DEF tableVars, hartVars, procVars
  <1>2. Typed'
    BY <1>1 DEF SpaceInv, Typed
  <1>3. HartOK'
    BY <1>1 DEF SpaceInv, HartOK, TableOf
  <1>4. \A p \in Proc : ProcOK(p)'
    BY <1>1 DEF SpaceInv, ProcOK, LoadOK
  <1>5. Sorted(tables, upages, Alive, root)'
    BY <1>1 DEF SpaceInv, Alive
  <1> QED
    BY <1>2, <1>3, <1>4, <1>5 DEF SpaceInv

(* A process that a step is not about, in whose space nothing is mapped.   *)
LEMMA OthersKept ==
    ASSUME SpaceInv, NEW q \in Proc,
           phase'[q] = phase[q], loader'[q] = loader[q], todo'[q] = todo[q], root'[q] = root[q],
           q \in Alive => \A va \in Va : Mapped(tables', root[q], va) => Mapped(tables, root[q], va),
           phase[q] = "dying" => cur' = cur /\ tail' = tail
    PROVE  ProcOK(q)'
  <1>1. ProcOK(q)
    BY DEF SpaceInv
  <1>2. ASSUME phase[q] \in {"cloned", "loading"} PROVE LoadOK(q)'
    <2>1. LoadOK(q)
      BY <1>1, <1>2 DEF ProcOK
    <2>2. \A va \in Va : Mapped(tables', root[q], va) => Mapped(tables, root[q], va)
      BY <1>2 DEF Alive
    <2>3. StackPage \in Va
      BY SpaceAssumption
    <2>4. todo[q] \in Seq(UserVa)
      BY <2>1 DEF LoadOK
    <2>5. \A i \in 1..Len(todo[q]) : todo[q][i] \in Va
      BY <2>4 DEF UserVa
    <2>6. ~Mapped(tables', root'[q], StackPage)
      BY <2>1, <2>2, <2>3 DEF LoadOK
    <2>7. \A i \in 1..Len(todo[q]) : ~Mapped(tables', root'[q], todo[q][i])
      BY <2>1, <2>2, <2>5 DEF LoadOK
    <2> QED
      BY <2>1, <2>6, <2>7 DEF LoadOK
  <1>3. phase'[q] \in {"cloned", "loading"} => LoadOK(q)'
    BY <1>2
  <1>4. phase'[q] = "dying" => IF tail'.step = "none" THEN cur' = q ELSE tail'.prev = q
    BY <1>1 DEF ProcOK
  <1> QED
    BY <1>1, <1>3, <1>4 DEF ProcOK

(* A function with one value changed, as the steps change phase and root.  *)
LEMMA OneChanged ==
    ASSUME NEW f, f = [q \in Proc |-> f[q]], NEW p \in Proc, NEW x, NEW g, g = [f EXCEPT ![p] = x]
    PROVE  /\ g = [q \in Proc |-> g[q]] /\ g[p] = x
           /\ \A q \in Proc : q # p => g[q] = f[q]
  OBVIOUS

-----------------------------------------------------------------------------
LEMMA InitKeeps ==
    Init => SpaceInv
  <1> SUFFICES ASSUME Init PROVE SpaceInv
    OBVIOUS
  <1>1. Typed
    BY DEF Init, Typed, KRoot
  <1>2. cur \in Loader /\ cur \notin Proc
    BY SpaceAssumption DEF Init
  <1>3. HartOK
    BY <1>2 DEF Init, HartOK, Thread, TableOf
  <1>4. \A p \in Proc : ProcOK(p)
    BY DEF Init, ProcOK
  <1>5. Alive = {}
    BY DEF Init, Alive
  <1>6. tables = KernelTables /\ upages = {}
    BY DEF Init
  <1>7. Sorted(tables, upages, Alive, root)
    BY <1>5, <1>6, BootSound DEF Sorted
  <1> QED
    BY <1>1, <1>3, <1>4, <1>7 DEF SpaceInv

LEMMA CloneKeeps ==
    ASSUME SpaceInv, NEW p \in Proc, NEW img \in Images, Clone(p, img)
    PROVE  SpaceInv'
  <1>1. CASE KPages \subseteq DOMAIN tables
    BY <1>1, Unmoved DEF Clone, Exhausted
  <1>2. CASE ~(KPages \subseteq DOMAIN tables)
    <2>1. PICK n : n = Fresh(tables) /\ n \in KPages /\ n \notin DOMAIN tables
      BY <1>2, FreshPage
    <2>2. /\ phase[p] = "none" /\ Running(cur) /\ cur \in Loader
          /\ tables' = WithTable(tables, n, tables[KRoot])
          /\ root' = [root EXCEPT ![p] = n] /\ phase' = [phase EXCEPT ![p] = "cloned"]
          /\ todo' = [todo EXCEPT ![p] = img] /\ loader' = [loader EXCEPT ![p] = cur]
          /\ upages' = upages /\ kroot' = kroot /\ cur' = cur /\ satp' = satp /\ tail' = tail
          /\ panic' = panic
      BY <1>2, <2>1 DEF Clone, hartVars, SpaceInv, Typed
    <2>3. cur \notin Proc /\ tail.step = "none"
      BY <2>2, SpaceAssumption DEF Running
    <2>4. /\ root' = [q \in Proc |-> root'[q]] /\ root'[p] = n
          /\ \A q \in Proc : q # p => root'[q] = root[q]
      BY <2>2, OneChanged DEF SpaceInv, Typed
    <2>5. /\ phase' = [q \in Proc |-> phase'[q]] /\ phase'[p] = "cloned"
          /\ \A q \in Proc : q # p => phase'[q] = phase[q]
      BY <2>2, OneChanged DEF SpaceInv, Typed
    <2>6. /\ todo' = [q \in Proc |-> todo'[q]] /\ todo'[p] = img
          /\ \A q \in Proc : q # p => todo'[q] = todo[q]
      BY <2>2, OneChanged DEF SpaceInv, Typed
    <2>7. /\ loader' = [q \in Proc |-> loader'[q]] /\ loader'[p] = cur
          /\ \A q \in Proc : q # p => loader'[q] = loader[q]
      BY <2>2, OneChanged DEF SpaceInv, Typed
    <2>8. PICK own, lvl : Sound(tables, upages, Alive, root, own, lvl)
      BY DEF SpaceInv, Sorted
    <2>9. p \notin Alive /\ Alive' = Alive \cup {p}
      BY <2>2, <2>5 DEF Alive
    <2>10. \A q \in Alive : q \in Proc /\ q # p /\ root'[q] = root[q]
      BY <2>4, <2>9 DEF Alive
    <2>11. Sorted(tables', upages', Alive', root')
      <3>1. \E o, l : Sound(WithTable(tables, n, tables[KRoot]), upages, Alive \cup {p}, root', o, l)
        BY <2>1, <2>4, <2>8, <2>9, <2>10, CloneSound
      <3> QED
        BY <2>2, <2>9, <3>1 DEF Sorted
    <2>12. /\ \A va \in UserVa : ~Mapped(tables', n, va)
           /\ \A q \in Alive, va \in Va : Mapped(tables', root[q], va) => Mapped(tables, root[q], va)
      BY <2>1, <2>2, <2>8, CloneMaps
    <2>13. Typed'
      BY <2>2, <2>4, <2>5, <2>6, <2>7 DEF SpaceInv, Typed
    <2>14. HartOK'
      BY <2>2, <2>3 DEF SpaceInv, HartOK, TableOf
    <2>15. ProcOK(p)'
      <3>1. /\ img \in Seq(Va) /\ StackPage \in Va /\ \A va \in KernelPages : StackPage[1] # va[1]
            /\ \A i \in 1..Len(img) :
                 /\ img[i] # StackPage
                 /\ \A j \in 1..Len(img) : img[i] = img[j] => i = j
                 /\ \A va \in KernelPages : img[i][1] # va[1]
        BY SpaceAssumption
      <3>2. StackPage \in UserVa
        BY <3>1 DEF UserVa, KTop
      <3>3. \A i \in 1..Len(img) : img[i] \in UserVa
        BY <3>1 DEF UserVa, KTop
      <3>4. img \in Seq(UserVa)
        BY <3>1, <3>3
      <3>5. LoadOK(p)'
        BY <2>4, <2>6, <2>12, <3>1, <3>2, <3>3, <3>4 DEF LoadOK
      <3> QED
        BY <2>2, <2>5, <2>7, <3>5 DEF ProcOK
    <2>16. ASSUME NEW q \in Proc, q # p PROVE ProcOK(q)'
      BY <2>2, <2>4, <2>5, <2>6, <2>7, <2>12, <2>16, OthersKept
    <2> QED
      BY <2>11, <2>13, <2>14, <2>15, <2>16 DEF SpaceInv
  <1> QED
    BY <1>1, <1>2

(* A process without its space: destroy() keeps the others as they are.    *)
LEMMA DestroyKept ==
    ASSUME SpaceInv, NEW p \in Alive, Destroy(root[p]),
           NEW rn, \A q \in Alive \ {p} : rn[q] = root[q]
    PROVE  /\ Sorted(tables', upages', Alive \ {p}, rn)
           /\ \A q \in Alive \ {p}, va \in Va :
                 Mapped(tables', root[q], va) => Mapped(tables, root[q], va)
  <1>1. PICK own, lvl : Sound(tables, upages, Alive, root, own, lvl)
    BY DEF SpaceInv, Sorted
  <1>2. /\ tables' = [t \in DOMAIN tables \ TreeOf(tables, root[p]) |-> tables[t]]
        /\ upages' = upages \ PagesOf(tables, root[p])
    BY DEF Destroy
  <1>3. Sound([t \in DOMAIN tables \ TreeOf(tables, root[p]) |-> tables[t]],
              upages \ PagesOf(tables, root[p]), Alive \ {p}, rn, own, lvl)
    BY <1>1, DestroySound
  <1>4. Sorted(tables', upages', Alive \ {p}, rn)
    BY <1>2, <1>3, Zenon DEF Sorted
  <1>5. ASSUME NEW q \in Alive \ {p}, NEW va \in Va, Mapped(tables', root[q], va)
        PROVE  Mapped(tables, root[q], va)
    BY <1>1, <1>2, <1>5, DestroyMaps
  <1> QED
    BY <1>4, <1>5

LEMMA LoadFailsKeeps ==
    ASSUME SpaceInv, NEW p \in Proc, LoadFails(p)
    PROVE  SpaceInv'
  <1>1. /\ phase[p] = "cloned" /\ Running(loader[p]) /\ Destroy(root[p])
        /\ root' = [root EXCEPT ![p] = NoTable] /\ phase' = [phase EXCEPT ![p] = "none"]
        /\ todo' = [todo EXCEPT ![p] = <<>>] /\ loader' = [loader EXCEPT ![p] = NoThread]
        /\ kroot' = kroot /\ cur' = cur /\ satp' = satp /\ tail' = tail /\ panic' = panic
    BY DEF LoadFails, hartVars
  <1>2. cur \in Loader /\ tail.step = "none" /\ cur \notin Proc
    BY <1>1, SpaceAssumption DEF SpaceInv, ProcOK, Running
  <1>3. /\ root' = [q \in Proc |-> root'[q]] /\ root'[p] = NoTable
        /\ \A q \in Proc : q # p => root'[q] = root[q]
    BY <1>1, OneChanged DEF SpaceInv, Typed
  <1>4. /\ phase' = [q \in Proc |-> phase'[q]] /\ phase'[p] = "none"
        /\ \A q \in Proc : q # p => phase'[q] = phase[q]
    BY <1>1, OneChanged DEF SpaceInv, Typed
  <1>5. /\ todo' = [q \in Proc |-> todo'[q]] /\ todo'[p] = <<>>
        /\ \A q \in Proc : q # p => todo'[q] = todo[q]
    BY <1>1, OneChanged DEF SpaceInv, Typed
  <1>6. /\ loader' = [q \in Proc |-> loader'[q]] /\ loader'[p] = NoThread
        /\ \A q \in Proc : q # p => loader'[q] = loader[q]
    BY <1>1, OneChanged DEF SpaceInv, Typed
  <1>7. p \in Alive /\ Alive' = Alive \ {p}
    BY <1>1, <1>4 DEF Alive
  <1>8. \A q \in Alive \ {p} : root'[q] = root[q]
    BY <1>3 DEF Alive
  <1>9. /\ Sorted(tables', upages', Alive', root')
        /\ \A q \in Alive \ {p}, va \in Va :
              Mapped(tables', root[q], va) => Mapped(tables, root[q], va)
    BY <1>1, <1>7, <1>8, DestroyKept
  <1>10. Typed'
    BY <1>1, <1>3, <1>4, <1>5, <1>6 DEF SpaceInv, Typed
  <1>11. HartOK'
    BY <1>1, <1>2 DEF SpaceInv, HartOK, TableOf
  <1>12. ProcOK(p)'
    BY <1>4, <1>6 DEF ProcOK
  <1>13. ASSUME NEW q \in Proc, q # p PROVE ProcOK(q)'
    BY <1>1, <1>3, <1>4, <1>5, <1>6, <1>9, <1>13, OthersKept
  <1> QED
    BY <1>9, <1>10, <1>11, <1>12, <1>13 DEF SpaceInv

(* The step of execute() that installs a page the space does not have yet. *)
LEMMA InstallKept ==
    ASSUME SpaceInv, NEW p \in Alive, NEW va \in UserVa, ~Mapped(tables, root[p], va),
           Room(p, va), Install(p, va)
    PROVE  /\ Sorted(tables', upages', Alive, root)
           /\ \A q \in Alive, vb \in Va :
                 Mapped(tables', root[q], vb) => Mapped(tables, root[q], vb) \/ (q = p /\ vb = va)
  <1>1. PICK own, lvl : Sound(tables, upages, Alive, root, own, lvl)
    BY DEF SpaceInv, Sorted
  <1>2. PICK u : u = Min(UPages \ upages)
    OBVIOUS
  <1>3. u \in UPages /\ u \notin upages
    <2>1. UPages \ upages \subseteq Nat /\ UPages \ upages # {}
      BY SpaceAssumption DEF Room
    <2> QED
      BY <1>2, <2>1, MinIsMember
  <1>4. upages' = upages \cup {u} /\ tables' = Map(tables, root[p], va, u, FALSE)
    BY <1>2 DEF Install
  <1>5. Cardinality(KPages \ DOMAIN tables) >= Missing(tables, root[p], va)
    BY DEF Room
  <1>6. Sorted(tables', upages \cup {u}, Alive, root) /\ MapsOnly(tables, tables', Alive, root, p, va)
    BY <1>1, <1>3, <1>4, <1>5, MapSound
  <1> QED
    BY <1>4, <1>6 DEF MapsOnly

LEMMA LoadPageKeeps ==
    ASSUME SpaceInv, NEW p \in Proc, LoadPage(p)
    PROVE  SpaceInv'
  <1>1. CASE ~Room(p, Head(todo[p]))
    BY <1>1, Unmoved DEF LoadPage, Exhausted
  <1>2. CASE Room(p, Head(todo[p]))
    <2>1. /\ phase[p] \in {"cloned", "loading"} /\ Running(loader[p]) /\ todo[p] # <<>>
          /\ Install(p, Head(todo[p]))
          /\ todo' = [todo EXCEPT ![p] = Tail(todo[p])] /\ phase' = [phase EXCEPT ![p] = "loading"]
          /\ kroot' = kroot /\ cur' = cur /\ satp' = satp /\ tail' = tail /\ panic' = panic
          /\ root' = root /\ loader' = loader
      BY <1>2 DEF LoadPage, hartVars
    <2>2. ProcOK(p) /\ LoadOK(p)
      BY <2>1 DEF SpaceInv, ProcOK
    <2>3. cur \in Loader /\ tail.step = "none" /\ cur \notin Proc
      BY <2>1, <2>2, SpaceAssumption DEF ProcOK, Running
    <2>4. /\ phase' = [q \in Proc |-> phase'[q]] /\ phase'[p] = "loading"
          /\ \A q \in Proc : q # p => phase'[q] = phase[q]
      BY <2>1, OneChanged DEF SpaceInv, Typed
    <2>5. /\ todo' = [q \in Proc |-> todo'[q]] /\ todo'[p] = Tail(todo[p])
          /\ \A q \in Proc : q # p => todo'[q] = todo[q]
      BY <2>1, OneChanged DEF SpaceInv, Typed
    <2>6. PICK s : s = todo[p]
      OBVIOUS
    <2>7. /\ s \in Seq(UserVa) /\ s # <<>>
          /\ \A i \in 1..Len(s) : /\ s[i] # StackPage /\ ~Mapped(tables, root[p], s[i])
                                  /\ \A j \in 1..Len(s) : s[i] = s[j] => i = j
          /\ ~Mapped(tables, root[p], StackPage)
      BY <2>1, <2>2, <2>6 DEF LoadOK
    <2>8. PICK va : va = Head(s)
      OBVIOUS
    <2>9. /\ 1 \in 1..Len(s) /\ va = s[1] /\ va \in UserVa
      BY <2>7, <2>8
    <2>10. /\ Tail(s) \in Seq(UserVa) /\ Len(Tail(s)) = Len(s) - 1
           /\ \A i \in 1..Len(Tail(s)) : i + 1 \in 1..Len(s) /\ Tail(s)[i] = s[i + 1]
      BY <2>7
    <2>11. p \in Alive /\ Alive' = Alive
      BY <2>1, <2>4 DEF Alive
    <2>12. /\ Sorted(tables', upages', Alive, root)
           /\ \A q \in Alive, vb \in Va :
                 Mapped(tables', root[q], vb) => Mapped(tables, root[q], vb) \/ (q = p /\ vb = va)
      BY <1>2, <2>1, <2>6, <2>7, <2>8, <2>9, <2>11, InstallKept
    <2>13. Typed'
      BY <2>1, <2>4, <2>5 DEF SpaceInv, Typed
    <2>14. HartOK'
      BY <2>1, <2>3 DEF SpaceInv, HartOK, TableOf
    <2>15. ProcOK(p)'
      <3>1. ASSUME NEW i \in 1..Len(Tail(s))
            PROVE  /\ Tail(s)[i] # StackPage /\ ~Mapped(tables', root[p], Tail(s)[i])
                   /\ \A j \in 1..Len(Tail(s)) : Tail(s)[i] = Tail(s)[j] => i = j
        <4>1. i + 1 \in 1..Len(s) /\ i + 1 # 1 /\ Tail(s)[i] = s[i + 1]
          BY <2>10
        <4>2. s[i + 1] # va /\ s[i + 1] # StackPage /\ ~Mapped(tables, root[p], s[i + 1])
          BY <2>7, <2>9, <4>1
        <4>3. s[i + 1] \in Va
          BY <2>7, <4>1 DEF UserVa
        <4>4. ~Mapped(tables', root[p], s[i + 1])
          BY <2>11, <2>12, <4>2, <4>3
        <4>5. ASSUME NEW j \in 1..Len(Tail(s)), Tail(s)[i] = Tail(s)[j] PROVE i = j
          <5>1. j + 1 \in 1..Len(s) /\ s[i + 1] = s[j + 1]
            BY <2>10, <4>1, <4>5
          <5>2. i + 1 = j + 1
            BY <2>7, <4>1, <5>1
          <5> QED
            BY <5>2
        <4> QED
          BY <4>1, <4>2, <4>4, <4>5
      <3>2. ~Mapped(tables', root[p], StackPage)
        BY <2>7, <2>9, <2>11, <2>12, SpaceAssumption
      <3>3. LoadOK(p)'
        BY <2>1, <2>5, <2>6, <2>10, <3>1, <3>2 DEF LoadOK
      <3> QED
        BY <2>1, <2>2, <2>3, <2>4, <3>3 DEF ProcOK, Running
    <2>16. ASSUME NEW q \in Proc, q # p PROVE ProcOK(q)'
      <3>1. q \in Alive => \A vb \in Va : Mapped(tables', root[q], vb) => Mapped(tables, root[q], vb)
        BY <2>12, <2>16
      <3> QED
        BY <2>1, <2>4, <2>5, <2>16, <3>1, OthersKept
    <2>17. Sorted(tables', upages', Alive', root')
      BY <2>1, <2>11, <2>12
    <2> QED
      BY <2>13, <2>14, <2>15, <2>16, <2>17 DEF SpaceInv
  <1> QED
    BY <1>1, <1>2

LEMMA InitUserStackKeeps ==
    ASSUME SpaceInv, NEW p \in Proc, InitUserStack(p)
    PROVE  SpaceInv'
  <1>1. CASE ~Room(p, StackPage)
    BY <1>1, Unmoved DEF InitUserStack, Exhausted
  <1>2. CASE Room(p, StackPage)
    <2>1. /\ phase[p] \in {"cloned", "loading"} /\ Running(loader[p])
          /\ Install(p, StackPage) /\ phase' = [phase EXCEPT ![p] = "built"]
          /\ kroot' = kroot /\ cur' = cur /\ satp' = satp /\ tail' = tail /\ panic' = panic
          /\ root' = root /\ loader' = loader /\ todo' = todo
      BY <1>2 DEF InitUserStack, hartVars
    <2>2. ProcOK(p) /\ LoadOK(p)
      BY <2>1 DEF SpaceInv, ProcOK
    <2>3. cur \in Loader /\ tail.step = "none" /\ cur \notin Proc
      BY <2>1, <2>2, SpaceAssumption DEF ProcOK, Running
    <2>4. /\ phase' = [q \in Proc |-> phase'[q]] /\ phase'[p] = "built"
          /\ \A q \in Proc : q # p => phase'[q] = phase[q]
      BY <2>1, OneChanged DEF SpaceInv, Typed
    <2>5. StackPage \in UserVa /\ ~Mapped(tables, root[p], StackPage)
      BY <2>2, SpaceAssumption DEF LoadOK, UserVa, KTop
    <2>6. p \in Alive /\ Alive' = Alive
      BY <2>1, <2>4 DEF Alive
    <2>7. /\ Sorted(tables', upages', Alive, root)
          /\ \A q \in Alive, vb \in Va :
                Mapped(tables', root[q], vb) => Mapped(tables, root[q], vb) \/ (q = p /\ vb = StackPage)
      BY <1>2, <2>1, <2>5, <2>6, InstallKept
    <2>8. Typed'
      BY <2>1, <2>4 DEF SpaceInv, Typed
    <2>9. HartOK'
      BY <2>1, <2>3 DEF SpaceInv, HartOK, TableOf
    <2>10. ProcOK(p)'
      BY <2>1, <2>2, <2>4 DEF ProcOK
    <2>11. ASSUME NEW q \in Proc, q # p PROVE ProcOK(q)'
      <3>1. q \in Alive => \A vb \in Va : Mapped(tables', root[q], vb) => Mapped(tables, root[q], vb)
        BY <2>7, <2>11
      <3> QED
        BY <2>1, <2>4, <2>11, <3>1, OthersKept
    <2>12. Sorted(tables', upages', Alive', root')
      BY <2>1, <2>6, <2>7
    <2> QED
      BY <2>8, <2>9, <2>10, <2>11, <2>12 DEF SpaceInv
  <1> QED
    BY <1>1, <1>2

(* A step that changes no table and nobody's root.                         *)
LEMMA TablesKept ==
    ASSUME SpaceInv, tables' = tables, upages' = upages, root' = root, Alive' = Alive
    PROVE  Sorted(tables', upages', Alive', root')
  BY DEF SpaceInv

LEMMA RegisterKeeps ==
    ASSUME SpaceInv, NEW p \in Proc, Register(p)
    PROVE  SpaceInv'
  <1>1. /\ phase[p] = "built" /\ Running(loader[p]) /\ phase' = [phase EXCEPT ![p] = "ready"]
        /\ tables' = tables /\ upages' = upages /\ kroot' = kroot /\ cur' = cur /\ satp' = satp
        /\ tail' = tail /\ root' = root /\ todo' = todo /\ loader' = loader /\ panic' = panic
    BY DEF Register, hartVars, tableVars
  <1>2. cur \in Loader /\ tail.step = "none" /\ cur \notin Proc
    BY <1>1, SpaceAssumption DEF SpaceInv, ProcOK, Running
  <1>3. /\ phase' = [q \in Proc |-> phase'[q]] /\ phase'[p] = "ready"
        /\ \A q \in Proc : q # p => phase'[q] = phase[q]
    BY <1>1, OneChanged DEF SpaceInv, Typed
  <1>4. Alive' = Alive
    BY <1>1, <1>3 DEF Alive
  <1>5. Typed'
    BY <1>1, <1>3 DEF SpaceInv, Typed
  <1>6. HartOK'
    BY <1>1, <1>2 DEF SpaceInv, HartOK, TableOf
  <1>7. ProcOK(p)'
    BY <1>1, <1>3 DEF SpaceInv, ProcOK
  <1>8. ASSUME NEW q \in Proc, q # p PROVE ProcOK(q)'
    BY <1>1, <1>3, <1>8, OthersKept
  <1> QED
    BY <1>1, <1>4, <1>5, <1>6, <1>7, <1>8, TablesKept DEF SpaceInv

LEMMA PushKeeps ==
    ASSUME SpaceInv, NEW p \in Proc, Push(p)
    PROVE  SpaceInv'
  <1>1. UNCHANGED <<tableVars, kroot, hartVars, procVars>> /\ panic' \in BOOLEAN
    BY DEF Push, SpaceInv, Typed
  <1> QED
    BY <1>1, Unmoved

LEMMA DropArcKeeps ==
    ASSUME SpaceInv, NEW p \in Proc, DropArc(p)
    PROVE  SpaceInv'
  <1>1. /\ phase[p] \in {"ready", "dying", "released"} /\ Running(loader[p])
        /\ loader' = [loader EXCEPT ![p] = NoThread]
        /\ kroot' = kroot /\ cur' = cur /\ satp' = satp /\ tail' = tail /\ todo' = todo
        /\ panic' = panic
    BY DEF DropArc, hartVars
  <1>2. cur \in Loader /\ tail.step = "none" /\ cur \notin Proc
    BY <1>1, SpaceAssumption DEF SpaceInv, ProcOK, HartOK, Running
  <1>3. /\ loader' = [q \in Proc |-> loader'[q]] /\ loader'[p] = NoThread
        /\ \A q \in Proc : q # p => loader'[q] = loader[q]
    BY <1>1, OneChanged DEF SpaceInv, Typed
  <1>4. CASE phase[p] = "released" /\ p \notin all
    <2>1. /\ Destroy(root[p])
          /\ root' = [root EXCEPT ![p] = NoTable] /\ phase' = [phase EXCEPT ![p] = "none"]
      BY <1>4 DEF DropArc, DropThread
    <2>2. /\ root' = [q \in Proc |-> root'[q]] /\ root'[p] = NoTable
          /\ \A q \in Proc : q # p => root'[q] = root[q]
      BY <2>1, OneChanged DEF SpaceInv, Typed
    <2>3. /\ phase' = [q \in Proc |-> phase'[q]] /\ phase'[p] = "none"
          /\ \A q \in Proc : q # p => phase'[q] = phase[q]
      BY <2>1, OneChanged DEF SpaceInv, Typed
    <2>4. p \in Alive /\ Alive' = Alive \ {p}
      BY <1>4, <2>3 DEF Alive
    <2>5. \A q \in Alive \ {p} : root'[q] = root[q]
      BY <2>2 DEF Alive
    <2>6. /\ Sorted(tables', upages', Alive', root')
          /\ \A q \in Alive \ {p}, va \in Va :
                Mapped(tables', root[q], va) => Mapped(tables, root[q], va)
      BY <2>1, <2>4, <2>5, DestroyKept
    <2>7. Typed'
      BY <1>1, <1>3, <2>2, <2>3 DEF SpaceInv, Typed
    <2>8. HartOK'
      BY <1>1, <1>2 DEF SpaceInv, HartOK, TableOf
    <2>9. ProcOK(p)'
      BY <1>3, <2>3 DEF ProcOK
    <2>10. ASSUME NEW q \in Proc, q # p PROVE ProcOK(q)'
      BY <1>1, <1>3, <2>2, <2>3, <2>6, <2>10, OthersKept
    <2> QED
      BY <2>6, <2>7, <2>8, <2>9, <2>10 DEF SpaceInv
  <1>5. CASE ~(phase[p] = "released" /\ p \notin all)
    <2>1. tables' = tables /\ upages' = upages /\ phase' = phase /\ root' = root
      BY <1>5 DEF DropArc, tableVars
    <2>2. Alive' = Alive
      BY <2>1 DEF Alive
    <2>3. Typed'
      BY <1>1, <1>3, <2>1 DEF SpaceInv, Typed
    <2>4. HartOK'
      BY <1>1, <1>2, <2>1 DEF SpaceInv, HartOK, TableOf
    <2>5. ProcOK(p)'
      BY <1>1, <1>3, <1>5, <2>1 DEF SpaceInv, ProcOK
    <2>6. ASSUME NEW q \in Proc, q # p PROVE ProcOK(q)'
      BY <1>1, <1>3, <2>1, <2>6, OthersKept
    <2> QED
      BY <2>1, <2>2, <2>3, <2>4, <2>5, <2>6, TablesKept DEF SpaceInv
  <1> QED
    BY <1>4, <1>5

LEMMA ExitKeeps ==
    ASSUME SpaceInv, NEW p \in Proc, Exit(p)
    PROVE  SpaceInv'
  <1>1. /\ phase[p] = "ready" /\ Running(p) /\ phase' = [phase EXCEPT ![p] = "dying"]
        /\ tables' = tables /\ upages' = upages /\ kroot' = kroot /\ cur' = cur /\ satp' = satp
        /\ tail' = tail /\ root' = root /\ todo' = todo /\ loader' = loader /\ panic' = panic
    BY DEF Exit, hartVars, tableVars
  <1>2. cur = p /\ tail.step = "none"
    BY <1>1 DEF Running
  <1>3. /\ phase' = [q \in Proc |-> phase'[q]] /\ phase'[p] = "dying"
        /\ \A q \in Proc : q # p => phase'[q] = phase[q]
    BY <1>1, OneChanged DEF SpaceInv, Typed
  <1>4. Alive' = Alive
    BY <1>1, <1>3 DEF Alive
  <1>5. Typed'
    BY <1>1, <1>3 DEF SpaceInv, Typed
  <1>6. HartOK'
    BY <1>1, <1>2, <1>3 DEF SpaceInv, HartOK, TableOf
  <1>7. ProcOK(p)'
    BY <1>1, <1>2, <1>3 DEF SpaceInv, ProcOK
  <1>8. ASSUME NEW q \in Proc, q # p PROVE ProcOK(q)'
    BY <1>1, <1>3, <1>8, OthersKept
  <1> QED
    BY <1>1, <1>4, <1>5, <1>6, <1>7, <1>8, TablesKept DEF SpaceInv

LEMMA SwitchKeeps ==
    ASSUME SpaceInv, NEW u \in Thread, Switch(u)
    PROVE  SpaceInv'
  <1>1. /\ Running(cur) /\ u # cur /\ (u \in Proc => phase[u] = "ready") /\ cur' = u
        /\ tail' = [prev |-> cur, step |-> "activate"]
        /\ tables' = tables /\ upages' = upages /\ kroot' = kroot /\ satp' = satp
        /\ phase' = phase /\ root' = root /\ todo' = todo /\ loader' = loader /\ panic' = panic
    BY DEF Switch, tableVars, procVars
  <1>2. tail.step = "none" /\ tail'.prev = cur /\ tail'.step = "activate"
    BY <1>1 DEF Running
  <1>3. Alive' = Alive
    BY <1>1 DEF Alive
  <1>4. Typed'
    BY <1>1 DEF SpaceInv, Typed
  <1>5. HartOK'
    BY <1>1, <1>2 DEF SpaceInv, HartOK, TableOf
  <1>6. ASSUME NEW q \in Proc PROVE ProcOK(q)'
    BY <1>1, <1>2 DEF SpaceInv, ProcOK, LoadOK
  <1> QED
    BY <1>1, <1>3, <1>4, <1>5, <1>6, TablesKept DEF SpaceInv

LEMMA TailActivateKeeps ==
    ASSUME SpaceInv, TailActivate
    PROVE  SpaceInv'
  <1>1. /\ tail.step = "activate" /\ satp' = TableOf(cur) /\ tail' = [tail EXCEPT !.step = "drop"]
        /\ tables' = tables /\ upages' = upages /\ kroot' = kroot /\ cur' = cur
        /\ phase' = phase /\ root' = root /\ todo' = todo /\ loader' = loader /\ panic' = panic
    BY DEF TailActivate, tableVars, procVars
  <1>2. tail'.prev = tail.prev /\ tail'.step = "drop"
    BY <1>1
  <1>3. Alive' = Alive
    BY <1>1 DEF Alive
  <1>4. Typed'
    BY <1>1 DEF SpaceInv, Typed
  <1>5. HartOK'
    BY <1>1, <1>2 DEF SpaceInv, HartOK, TableOf
  <1>6. ASSUME NEW q \in Proc PROVE ProcOK(q)'
    BY <1>1, <1>2 DEF SpaceInv, ProcOK, LoadOK
  <1> QED
    BY <1>1, <1>3, <1>4, <1>5, <1>6, TablesKept DEF SpaceInv

LEMMA TailDropKeeps ==
    ASSUME SpaceInv, TailDrop
    PROVE  SpaceInv'
  <1>1. PICK p : p = tail.prev
    OBVIOUS
  <1>2. /\ tail.step = "drop" /\ tail' = [prev |-> NoThread, step |-> "none"]
        /\ kroot' = kroot /\ cur' = cur /\ satp' = satp /\ todo' = todo /\ loader' = loader
        /\ panic' = panic
    BY DEF TailDrop
  <1>3. tail'.step = "none" /\ p # cur /\ satp = TableOf(cur)
    BY <1>1, <1>2 DEF SpaceInv, HartOK
  <1>4. \A q \in Proc : phase[q] = "dying" => q = p
    BY <1>1, <1>2 DEF SpaceInv, ProcOK
  <1>5. CASE p \in Proc /\ phase[p] = "dying" /\ loader[p] = NoThread
    <2>1. /\ Destroy(root[p])
          /\ root' = [root EXCEPT ![p] = NoTable] /\ phase' = [phase EXCEPT ![p] = "none"]
      BY <1>1, <1>5 DEF TailDrop, DropThread
    <2>2. /\ root' = [q \in Proc |-> root'[q]] /\ root'[p] = NoTable
          /\ \A q \in Proc : q # p => root'[q] = root[q]
      BY <1>5, <2>1, OneChanged DEF SpaceInv, Typed
    <2>3. /\ phase' = [q \in Proc |-> phase'[q]] /\ phase'[p] = "none"
          /\ \A q \in Proc : q # p => phase'[q] = phase[q]
      BY <1>5, <2>1, OneChanged DEF SpaceInv, Typed
    <2>4. p \in Alive /\ Alive' = Alive \ {p}
      BY <1>5, <2>3 DEF Alive
    <2>5. \A q \in Alive \ {p} : root'[q] = root[q]
      BY <2>2 DEF Alive
    <2>6. /\ Sorted(tables', upages', Alive', root')
          /\ \A q \in Alive \ {p}, va \in Va :
                Mapped(tables', root[q], va) => Mapped(tables, root[q], va)
      BY <2>1, <2>4, <2>5, DestroyKept
    <2>7. Typed'
      BY <1>2, <2>2, <2>3 DEF SpaceInv, Typed
    <2>8. HartOK'
      BY <1>2, <1>3, <2>2, <2>3 DEF SpaceInv, HartOK, TableOf
    <2>9. ProcOK(p)'
      BY <1>2, <1>5, <2>3 DEF SpaceInv, ProcOK
    <2>10. ASSUME NEW q \in Proc, q # p PROVE ProcOK(q)'
      BY <1>2, <1>4, <2>2, <2>3, <2>6, <2>10, OthersKept
    <2> QED
      BY <2>6, <2>7, <2>8, <2>9, <2>10 DEF SpaceInv
  <1>6. CASE p \in Proc /\ phase[p] = "dying" /\ loader[p] # NoThread
    <2>1. phase' = [phase EXCEPT ![p] = "released"] /\ tables' = tables /\ upages' = upages /\ root' = root
      BY <1>1, <1>6 DEF TailDrop, tableVars
    <2>2. /\ phase' = [q \in Proc |-> phase'[q]] /\ phase'[p] = "released"
          /\ \A q \in Proc : q # p => phase'[q] = phase[q]
      BY <1>6, <2>1, OneChanged DEF SpaceInv, Typed
    <2>3. Alive' = Alive
      BY <1>6, <2>2 DEF Alive
    <2>4. Typed'
      BY <1>2, <2>1, <2>2 DEF SpaceInv, Typed
    <2>5. HartOK'
      BY <1>2, <1>3, <2>1, <2>2 DEF SpaceInv, HartOK, TableOf
    <2>6. ProcOK(p)'
      BY <1>2, <1>6, <2>2 DEF SpaceInv, ProcOK
    <2>7. ASSUME NEW q \in Proc, q # p PROVE ProcOK(q)'
      BY <1>2, <1>4, <2>1, <2>2, <2>7, OthersKept
    <2> QED
      BY <2>1, <2>3, <2>4, <2>5, <2>6, <2>7, TablesKept DEF SpaceInv
  <1>7. CASE ~(p \in Proc /\ phase[p] = "dying")
    <2>1. phase' = phase /\ tables' = tables /\ upages' = upages /\ root' = root
      BY <1>1, <1>7 DEF TailDrop, tableVars
    <2>2. Alive' = Alive
      BY <2>1 DEF Alive
    <2>3. Typed'
      BY <1>2, <2>1 DEF SpaceInv, Typed
    <2>4. HartOK'
      BY <1>2, <1>3, <2>1 DEF SpaceInv, HartOK, TableOf
    <2>5. ASSUME NEW q \in Proc PROVE ProcOK(q)'
      BY <1>2, <1>4, <1>7, <2>1, <2>5, OthersKept
    <2> QED
      BY <2>1, <2>2, <2>3, <2>4, <2>5, TablesKept DEF SpaceInv
  <1> QED
    BY <1>5, <1>6, <1>7

-----------------------------------------------------------------------------
(* Every page table has one owner, the kernel or a process whose Thread is *)
(* not dropped, and the level that its entries are used at; what execute() *)
(* has yet to load is not mapped; and the hart's table is the one of the   *)
(* thread it runs or, until schedule_tail activates it, of the previous.   *)
THEOREM SpaceInvariant ==
    Spec => []SpaceInv
  <1>1. Init => SpaceInv
    BY InitKeeps
  <1>2. SpaceInv /\ [Next]_vars => SpaceInv'
    <2> SUFFICES ASSUME SpaceInv, [Next]_vars PROVE SpaceInv'
      OBVIOUS
    <2>1. CASE UNCHANGED vars
      BY <2>1, Unmoved DEF vars, SpaceInv, Typed
    <2>2. ASSUME NEW p \in Proc, Execute(p) PROVE SpaceInv'
      BY <2>2, CloneKeeps, LoadFailsKeeps, LoadPageKeeps, InitUserStackKeeps, RegisterKeeps, DropArcKeeps,
         PushKeeps DEF Execute
    <2>3. ASSUME NEW p \in Proc, Exit(p) PROVE SpaceInv'
      BY <2>3, ExitKeeps
    <2>4. ASSUME NEW u \in Thread, Switch(u) PROVE SpaceInv'
      BY <2>4, SwitchKeeps
    <2>5. CASE TailActivate
      BY <2>5, TailActivateKeeps
    <2>6. CASE TailDrop
      BY <2>6, TailDropKeeps
    <2>7. CASE Halted
      BY <2>1, <2>7 DEF Halted
    <2> QED
      BY <2>1, <2>2, <2>3, <2>4, <2>5, <2>6, <2>7 DEF Next
  <1> QED
    BY <1>1, <1>2, PTL DEF Spec

-----------------------------------------------------------------------------
(* The tables that one level of walk() leads to from those of S.           *)
Down(S) == UNION {{tables[t][i].pa : i \in {j \in PX : tables[t][j] # NoEntry /\ ~tables[t][j].leaf}}
                      : t \in S \cap DOMAIN tables}

(* walk() from a root stays in allocated tables, and from the kernel's it  *)
(* reaches the kernel's tables and no others.                              *)
LEMMA ReachedOwned ==
    ASSUME NEW own, NEW lvl, Sound(tables, upages, Alive, root, own, lvl)
    PROVE  /\ \A r \in DOMAIN tables : Reached(r) \subseteq DOMAIN tables
           /\ Reached(KRoot) = {t \in DOMAIN tables : own[t] = Kern}
  <1>1. \A r : Reached(r) = {r} \cup Down({r}) \cup Down(Down({r}))
    BY DEF Reached, Down
  <1>2. \A S : \A n \in Down(S) : \E t \in S \cap DOMAIN tables, i \in PX :
          tables[t][i] # NoEntry /\ ~tables[t][i].leaf /\ tables[t][i].pa = n
    BY DEF Down
  <1>3. \A S : \A t \in S \cap DOMAIN tables, i \in PX :
          tables[t][i] # NoEntry /\ ~tables[t][i].leaf => tables[t][i].pa \in Down(S)
    BY DEF Down
  <1>4. Levelled(tables, own, lvl)
    BY DEF Sound
  <1>5. \A S : \A n \in Down(S) : n \in DOMAIN tables
    BY <1>2, <1>4 DEF Levelled, EntryOK
  <1>6. \A r \in DOMAIN tables : Reached(r) \subseteq DOMAIN tables
    BY <1>1, <1>5
  <1>7. \A S : (\A t \in S : own[t] = Kern) => \A n \in Down(S) : own[n] = Kern
    BY <1>2, <1>4 DEF Levelled, EntryOK
  <1>8. KRoot \in DOMAIN tables /\ own[KRoot] = Kern
    BY DEF Sound, Rooted
  <1>9. PICK l1 : l1 = Down({KRoot})
    OBVIOUS
  <1>10. \A t \in l1 : own[t] = Kern
    BY <1>7, <1>8, <1>9
  <1>11. \A t \in Down(l1) : own[t] = Kern
    BY <1>7, <1>10
  <1>12. \A t \in DOMAIN tables : own[t] = Kern /\ lvl[t] = 2 => t = KRoot
    BY DEF Sound, Rooted
  <1>13. ASSUME NEW t \in DOMAIN tables, own[t] = Kern, lvl[t] # 2
         PROVE  \E s \in DOMAIN tables, i \in PX :
                  /\ own[s] = Kern /\ lvl[s] = lvl[t] + 1
                  /\ tables[s][i] # NoEntry /\ ~tables[s][i].leaf /\ tables[s][i].pa = t
    <2>1. PICK s \in DOMAIN tables, i \in PX :
             own[s] = own[t] /\ tables[s][i] # NoEntry /\ ~tables[s][i].leaf /\ tables[s][i].pa = t
      BY <1>13 DEF Sound, Found
    <2>2. EntryOK(tables[s][i], s, tables, own, lvl)
      BY <1>4, <2>1 DEF Levelled
    <2>3. lvl[t] \in 0..2 /\ lvl[s] \in 0..2
      BY DEF Sound, TablesOK
    <2>4. lvl[s] = lvl[t] + 1
      BY <2>1, <2>2, <2>3 DEF EntryOK
    <2> QED
      BY <1>13, <2>1, <2>4
  <1>14. ASSUME NEW t \in DOMAIN tables, own[t] = Kern, lvl[t] = 1
         PROVE  t \in l1
    <2>1. PICK s \in DOMAIN tables, i \in PX :
             /\ own[s] = Kern /\ lvl[s] = 2
             /\ tables[s][i] # NoEntry /\ ~tables[s][i].leaf /\ tables[s][i].pa = t
      BY <1>13, <1>14
    <2>2. s \in {KRoot}
      BY <1>12, <2>1
    <2> QED
      BY <1>3, <1>9, <2>1, <2>2
  <1>15. ASSUME NEW t \in DOMAIN tables, own[t] = Kern, lvl[t] = 0
         PROVE  t \in Down(l1)
    <2>1. PICK s \in DOMAIN tables, i \in PX :
             /\ own[s] = Kern /\ lvl[s] = 1
             /\ tables[s][i] # NoEntry /\ ~tables[s][i].leaf /\ tables[s][i].pa = t
      BY <1>13, <1>15
    <2>2. s \in l1
      BY <1>14, <2>1
    <2> QED
      BY <1>3, <2>1, <2>2
  <1>16. \A t \in DOMAIN tables : lvl[t] = 0 \/ lvl[t] = 1 \/ lvl[t] = 2
    BY DEF Sound, TablesOK
  <1>17. Reached(KRoot) = {KRoot} \cup l1 \cup Down(l1)
    BY <1>1, <1>9
  <1>18. Reached(KRoot) = {t \in DOMAIN tables : own[t] = Kern}
    <2>1. ASSUME NEW t \in Reached(KRoot) PROVE t \in DOMAIN tables /\ own[t] = Kern
      BY <1>6, <1>8, <1>10, <1>11, <1>17, <2>1
    <2>2. ASSUME NEW t \in DOMAIN tables, own[t] = Kern PROVE t \in Reached(KRoot)
      BY <1>12, <1>14, <1>15, <1>16, <1>17, <2>2
    <2> QED
      BY <2>1, <2>2
  <1> QED
    BY <1>6, <1>18

(* A root in use is the kernel's or that of a process with a space.        *)
LEMMA RootsInUse ==
    ASSUME SpaceInv, NEW r \in {kroot, satp} \cup {root[p] : p \in Alive}
    PROVE  r = KRoot \/ \E p \in Alive : r = root[p]
  <1>1. \A t \in Thread : (t \in Proc => phase[t] \in {"ready", "dying"})
                          => TableOf(t) = KRoot \/ \E p \in Alive : TableOf(t) = root[p]
    BY DEF TableOf, Alive, SpaceInv, Typed
  <1>2. satp = KRoot \/ \E p \in Alive : satp = root[p]
    BY <1>1 DEF SpaceInv, HartOK
  <1> QED
    BY <1>2 DEF SpaceInv, Typed

(* Nothing that is in use has been freed: the effective page table, those  *)
(* of all processes and the tables they lead to are allocated, the kernel  *)
(* is mapped in each of them, and what destroy() would free of one space   *)
(* is neither the kernel's nor another's - for any programs and any order  *)
(* of execute(), exit(), schedule() and the drops of the last Arc.         *)
THEOREM SpacesAreSound ==
    Spec => []SpacesSound
  <1>1. SpaceInv => SpacesSound
    <2> SUFFICES ASSUME SpaceInv PROVE SpacesSound
      OBVIOUS
    <2> DEFINE roots == {kroot, satp} \cup {root[p] : p \in Alive}
    <2>1. PICK own, lvl : Sound(tables, upages, Alive, root, own, lvl)
      BY DEF SpaceInv, Sorted
    <2>2. \A r \in roots : r = KRoot \/ \E p \in Alive : r = root[p]
      BY RootsInUse
    <2>3. KRoot \in DOMAIN tables /\ \A p \in Alive : p \in Proc /\ root[p] \in DOMAIN tables
      BY <2>1 DEF Sound, Rooted
    <2> HIDE DEF roots
    <2>4. \A r \in roots : Reached(r) \subseteq DOMAIN tables
      BY <2>1, <2>2, <2>3, ReachedOwned
    <2>5. ASSUME NEW r \in roots, NEW va \in KernelPages PROVE Sees(r, va).pa = va
      <3>1. PICK m \in DOMAIN tables, n \in DOMAIN tables :
               Leads(tables, KRoot, va[1], m) /\ Leads(tables, m, va[2], n) /\ Leads(tables, n, va[3], va)
        BY <2>1 DEF Sound, KernelMapped
      <3>2. va[1] \in PX /\ va[1] \in KTop
        BY SpaceAssumption DEF Va, KTop
      <3>3. tables[r][va[1]] = tables[KRoot][va[1]]
        BY <2>1, <2>2, <3>2 DEF Sound, KernelMapped
      <3> QED
        BY <3>1, <3>3 DEF Sees, Leads
    <2>6. \A p \in Alive : TreeOf(tables, root[p]) = {t \in DOMAIN tables : own[t] = p}
      BY <2>1, TreeOwned
    <2>7. \A p \in Alive : \A u : u \in PagesOf(tables, root[p]) <=>
             \E t \in DOMAIN tables, i \in PX :
                /\ own[t] = p /\ tables[t][i] # NoEntry /\ ~tables[t][i].global /\ tables[t][i].leaf
                /\ tables[t][i].pa = u
      BY <2>1, PagesOwned
    <2>8. \A p \in Alive : PagesOf(tables, root[p]) \subseteq upages
      <3>1. \A t \in DOMAIN tables, i \in PX :
              tables[t][i] # NoEntry /\ ~tables[t][i].global /\ tables[t][i].leaf => tables[t][i].pa \in upages
        BY <2>1 DEF Sound, PagesUsed
      <3> QED
        BY <2>7, <3>1
    <2>9. kroot = KRoot /\ Reached(KRoot) = {t \in DOMAIN tables : own[t] = Kern}
      BY <2>1, ReachedOwned DEF SpaceInv, Typed
    <2>10. \A p \in Alive : p # Kern
      BY <2>3, SpaceAssumption DEF Kern, Thread
    <2>11. \A p \in Alive : TreeOf(tables, root[p]) \cap Reached(kroot) = {}
      BY <2>6, <2>9, <2>10
    <2>12. ASSUME NEW p \in Alive, NEW q \in Alive, p # q
           PROVE  /\ TreeOf(tables, root[p]) \cap TreeOf(tables, root[q]) = {}
                  /\ PagesOf(tables, root[p]) \cap PagesOf(tables, root[q]) = {}
      <3>1. TreeOf(tables, root[p]) \cap TreeOf(tables, root[q]) = {}
        BY <2>6, <2>12
      <3>2. ASSUME NEW u, u \in PagesOf(tables, root[p]), u \in PagesOf(tables, root[q]) PROVE FALSE
        <4>1. PICK t \in DOMAIN tables, i \in PX :
                 /\ own[t] = p /\ tables[t][i] # NoEntry /\ ~tables[t][i].global /\ tables[t][i].leaf
                 /\ tables[t][i].pa = u
          BY <2>7, <3>2
        <4>2. PICK s \in DOMAIN tables, j \in PX :
                 /\ own[s] = q /\ tables[s][j] # NoEntry /\ ~tables[s][j].global /\ tables[s][j].leaf
                 /\ tables[s][j].pa = u
          BY <2>7, <3>2
        <4>3. t = s
          BY <2>1, <4>1, <4>2 DEF Sound, Distinct
        <4> QED
          BY <2>12, <4>1, <4>2, <4>3
      <3> QED
        BY <3>1, <3>2
    <2> QED
      BY <2>4, <2>5, <2>8, <2>11, <2>12 DEF SpacesSound, roots
  <1> QED
    BY <1>1, SpaceInvariant, PTL

LEMMA ListInit == Init => ListInv
  BY DEF Init, ListInv, ListOK

(* Only register(), the loader's last Arc and the drop of a dying thread   *)
(* change what becomes of a process in Manager::all.                       *)
LEMMA ListStep ==
    ASSUME SpaceInv, ListInv, [Next]_vars
    PROVE  ListInv'
  <1>1. Typed
    BY DEF SpaceInv
  <1>2. CASE UNCHANGED vars
    BY <1>2 DEF vars, procVars, allVars, ListInv, ListOK
  <1>3. ASSUME NEW p \in Proc, NEW img \in Images, Clone(p, img) PROVE ListInv'
    <2>1. CASE Exhausted
      BY <2>1 DEF Exhausted, procVars, allVars, ListInv, ListOK
    <2>2. CASE ~Exhausted
      <3>1. /\ phase[p] = "none" /\ phase' = [phase EXCEPT ![p] = "cloned"]
            /\ loader' = [loader EXCEPT ![p] = cur] /\ UNCHANGED <<all, due, late>>
        BY <1>3, <2>2 DEF Clone, allVars
      <3> QED
        BY <1>1, <3>1 DEF Typed, ListInv, ListOK
    <2> QED
      BY <2>1, <2>2
  <1>4. ASSUME NEW p \in Proc, LoadFails(p) PROVE ListInv'
    <2>1. /\ phase[p] = "cloned" /\ phase' = [phase EXCEPT ![p] = "none"]
          /\ loader' = [loader EXCEPT ![p] = NoThread] /\ UNCHANGED <<all, due, late>>
      BY <1>4 DEF LoadFails, allVars
    <2> QED
      BY <1>1, <2>1 DEF Typed, ListInv, ListOK
  <1>5. ASSUME NEW p \in Proc, LoadPage(p) \/ InitUserStack(p) PROVE ListInv'
    <2>1. CASE Exhausted
      BY <2>1 DEF Exhausted, procVars, allVars, ListInv, ListOK
    <2>2. CASE ~Exhausted
      <3>1. /\ phase[p] \in {"cloned", "loading"} /\ loader' = loader /\ UNCHANGED <<all, due, late>>
            /\ \E x \in {"loading", "built"} : phase' = [phase EXCEPT ![p] = x]
        BY <1>5, <2>2 DEF LoadPage, InitUserStack, allVars
      <3> QED
        BY <1>1, <3>1 DEF Typed, ListInv, ListOK
    <2> QED
      BY <2>1, <2>2
  <1>6. ASSUME NEW p \in Proc, Register(p) PROVE ListInv'
    <2>1. /\ phase[p] = "built" /\ phase' = [phase EXCEPT ![p] = "ready"]
          /\ due' = due \cup {p} /\ UNCHANGED <<loader, all, late>>
      BY <1>6 DEF Register
    <2>2. loader[p] \in Loader
      BY <2>1 DEF SpaceInv, ProcOK
    <2> QED
      BY <1>1, <2>1, <2>2 DEF Typed, ListInv, ListOK
  <1>7. ASSUME NEW p \in Proc, Push(p) PROVE ListInv'
    BY <1>7 DEF Push, procVars, ListInv, ListOK
  <1>8. ASSUME NEW p \in Proc, DropArc(p) PROVE ListInv'
    <2>1. /\ p \notin due /\ loader' = [loader EXCEPT ![p] = NoThread] /\ UNCHANGED <<all, due, late>>
      BY <1>8 DEF DropArc, allVars
    <2>2. CASE phase[p] = "released" /\ p \notin all
      <3>1. phase' = [phase EXCEPT ![p] = "none"]
        BY <1>8, <2>2 DEF DropArc, DropThread
      <3>2. p \notin late
        <4>1. ListOK(p)
          BY DEF ListInv
        <4>2. p \in late => (p \in due <=> p \notin all)
          BY <2>2, <4>1 DEF ListOK
        <4> QED
          BY <2>1, <2>2, <4>2, Zenon
      <3>3. ASSUME NEW q \in Proc PROVE ListOK(q)'
        <4>1. CASE q = p
          BY <1>1, <2>1, <2>2, <3>1, <3>2, <4>1 DEF Typed, ListInv, ListOK
        <4>2. CASE q # p
          BY <1>1, <2>1, <3>1, <4>2 DEF Typed, ListInv, ListOK
        <4> QED
          BY <4>1, <4>2
      <3> QED
        BY <3>3 DEF ListInv
    <2>3. CASE ~(phase[p] = "released" /\ p \notin all)
      <3>1. phase' = phase
        BY <1>8, <2>3 DEF DropArc
      <3> QED
        BY <1>1, <2>1, <2>3, <3>1 DEF Typed, ListInv, ListOK
    <2> QED
      BY <2>2, <2>3
  <1>9. ASSUME NEW p \in Proc, Exit(p) PROVE ListInv'
    <2>1. phase[p] = "ready" /\ phase' = [phase EXCEPT ![p] = "dying"] /\ UNCHANGED <<loader, all, due, late>>
      BY <1>9 DEF Exit, allVars
    <2> QED
      BY <1>1, <2>1 DEF Typed, ListInv, ListOK
  <1>10. CASE (\E u \in Thread : Switch(u)) \/ TailActivate
    BY <1>10 DEF Switch, TailActivate, procVars, allVars, ListInv, ListOK
  <1>11. CASE TailDrop
    <2>1. PICK p : p = tail.prev
      OBVIOUS
    <2>2. loader' = loader /\ due' = due
      BY <1>11 DEF TailDrop
    <2>3. CASE p \in Proc /\ phase[p] = "dying"
      <3>1. all' = all \ {p} /\ late' = late \cup ({p} \cap due)
        BY <1>11, <2>1, <2>3 DEF TailDrop
      <3>2. CASE loader[p] = NoThread
        <4>1. phase' = [phase EXCEPT ![p] = "none"]
          BY <1>11, <2>1, <2>3, <3>2 DEF TailDrop, DropThread
        <4>2. p \notin due /\ p \notin late
          BY <2>3, <3>2, SpaceAssumption DEF ListInv, ListOK, Thread
        <4> QED
          BY <1>1, <2>2, <2>3, <3>1, <4>1, <4>2 DEF Typed, ListInv, ListOK
      <3>3. CASE loader[p] # NoThread
        <4>1. phase' = [phase EXCEPT ![p] = "released"]
          BY <1>11, <2>1, <2>3, <3>3 DEF TailDrop
        <4>2. loader[p] \in Loader
          BY <2>3, <3>3 DEF SpaceInv, ProcOK
        <4> QED
          BY <1>1, <2>2, <2>3, <3>1, <4>1, <4>2 DEF Typed, ListInv, ListOK
      <3> QED
        BY <3>2, <3>3
    <2>4. CASE ~(p \in Proc /\ phase[p] = "dying")
      <3>1. UNCHANGED <<phase, all, late>>
        BY <1>11, <2>1, <2>4 DEF TailDrop
      <3> QED
        BY <2>2, <3>1 DEF ListInv, ListOK
    <2> QED
      BY <2>3, <2>4
  <1>12. CASE Halted
    BY <1>2, <1>12 DEF Halted
  <1> QED
    BY <1>2, <1>3, <1>4, <1>5, <1>6, <1>7, <1>8, <1>9, <1>10, <1>11, <1>12 DEF Next, Execute

(* Nothing is lost but for one race: every allocated table is reached from *)
(* the kernel's root or freed by the destroy() of a process that has not   *)
(* been dropped, and so is every page of UserPool, also when load_elf      *)
(* fails; and whether schedule_tail or the thread that executed drops the  *)
(* last Arc, a dead process is dropped, unless it died between the two     *)
(* locks of register(), which then pushes it to Manager::all.              *)
THEOREM NoPageIsLost ==
    Spec => []NothingLeaks
  <1>1. SpaceInv /\ ListInv => NothingLeaks
    <2> SUFFICES ASSUME SpaceInv, ListInv PROVE NothingLeaks
      OBVIOUS
    <2>1. PICK own, lvl : Sound(tables, upages, Alive, root, own, lvl)
      BY DEF SpaceInv, Sorted
    <2>2. \A p \in Alive : TreeOf(tables, root[p]) = {t \in DOMAIN tables : own[t] = p}
      BY <2>1, TreeOwned
    <2>3. \A p \in Alive : \A u : u \in PagesOf(tables, root[p]) <=>
             \E t \in DOMAIN tables, i \in PX :
                /\ own[t] = p /\ tables[t][i] # NoEntry /\ ~tables[t][i].global /\ tables[t][i].leaf
                /\ tables[t][i].pa = u
      BY <2>1, PagesOwned
    <2>4. kroot = KRoot /\ Reached(KRoot) = {t \in DOMAIN tables : own[t] = Kern}
      BY <2>1, ReachedOwned DEF SpaceInv, Typed
    <2>5. \A t \in DOMAIN tables : own[t] = Kern \/ own[t] \in Alive
      BY <2>1 DEF Sound, Rooted
    <2>6. DOMAIN tables = Reached(kroot) \cup UNION {TreeOf(tables, root[p]) : p \in Alive}
      <3>1. \A t \in DOMAIN tables : t \in Reached(kroot) \/ \E p \in Alive : t \in TreeOf(tables, root[p])
        BY <2>2, <2>4, <2>5
      <3>2. \A p \in Alive : TreeOf(tables, root[p]) \subseteq DOMAIN tables
        BY <2>2
      <3>3. Reached(kroot) \subseteq DOMAIN tables
        BY <2>4
      <3> QED
        BY <3>1, <3>2, <3>3
    <2>7. ASSUME NEW u \in upages PROVE \E p \in Alive : u \in PagesOf(tables, root[p])
      <3>1. PICK t \in DOMAIN tables, i \in PX :
               tables[t][i] # NoEntry /\ ~tables[t][i].global /\ tables[t][i].leaf /\ tables[t][i].pa = u
        BY <2>1 DEF Sound, PagesUsed
      <3>2. own[t] # Kern
        BY <2>1, <3>1 DEF Sound, Levelled, EntryOK
      <3>3. own[t] \in Alive
        BY <2>5, <3>2
      <3> QED
        BY <2>3, <3>1, <3>3
    <2>8. \A p \in Alive : PagesOf(tables, root[p]) \subseteq upages
      <3>1. \A t \in DOMAIN tables, i \in PX :
              tables[t][i] # NoEntry /\ ~tables[t][i].global /\ tables[t][i].leaf => tables[t][i].pa \in upages
        BY <2>1 DEF Sound, PagesUsed
      <3> QED
        BY <2>3, <3>1
    <2>9. upages = UNION {PagesOf(tables, root[p]) : p \in Alive}
      BY <2>7, <2>8
    <2>10. ASSUME NEW p \in Proc, phase[p] = "released", loader[p] = NoThread PROVE p \in late \cap all
      <3>1. loader[p] \notin Loader
        BY <2>10, SpaceAssumption DEF Thread
      <3>2. p \in late /\ p \notin due
        BY <2>1, <2>10, <3>1 DEF ListInv, ListOK
      <3>3. p \in due <=> p \notin all
        BY <2>1, <2>10, <3>2 DEF ListInv, ListOK
      <3> QED
        BY <3>2, <3>3, Zenon
    <2> QED
      BY <2>6, <2>9, <2>10 DEF NothingLeaks
  <1> QED
    BY <1>1, SpaceInvariant, ListInit, ListStep, PTL DEF Spec
=============================================================================
