---------------------------- MODULE DiskFsProofs ----------------------------
(***************************************************************************)
(* Proofs about the disk file system, for any disk, any number of threads  *)
(* and files and any lengths.  The invariant gives every sector that is    *)
(* not free one use and one owner: the inode of a file, its content, or    *)
(* the call that has taken it or is about to free it.                      *)
(***************************************************************************)
EXTENDS DiskFs, FiniteSetTheorems, WellFoundedInduction, TLAPS

(* Where a thread has an Arc of its own, besides the one of its File.      *)
Holding  == {"c_trunc", "c_insert", "o_insert", "drop"}
Held(p)  == pc[p] \in Holding

(* In close().                                                             *)
Closing(p) == pc[p] \in {"close", "erase"}

(* In create() or open().                                                  *)
Fileless == {"c_find", "c_get", "c_trunc", "c_alloc", "c_inode", "c_insert",
             "o_find", "o_get", "o_read", "o_insert"}

Label == Holding \cup Fileless \cup {"run", "r_entry", "r_tag", "close", "erase"}

Arg == [name : Name \cup {Nobody}, inum : Sector, ino : InodeId \cup {Nobody}]

FsTypes ==
    /\ bits \in SUBSET Sector /\ Reserved \subseteq bits
    /\ disk \in [Sector -> {Data} \cup DiskInode]
    /\ dir \in [1..DirSize -> [name : Name \cup {Nobody}, inum : Sector]]
    /\ inodes \in [InodeId -> {Nobody} \cup Inode]
    /\ table \in [Sector -> InodeId \cup {Nobody}]
    /\ files \in [Proc -> InodeId \cup {Nobody}]
    /\ arg \in [Proc -> Arg]
    /\ pc \in [Proc -> Label]
    /\ alive \in SUBSET Sector

(* The table has the Inodes that are open, each at its sector.             *)
TableSound ==
    \A s \in Sector : table[s] # Nobody =>
        table[s] \in Live /\ inodes[table[s]].refs > 0 /\ inodes[table[s]].sector = s

(* Who has an Arc has an Inode.                                            *)
HoldersSound ==
    \A p \in Proc :
        /\ files[p] # Nobody => files[p] \in Live
        /\ Held(p) => arg[p].ino \in Live
        /\ pc[p] \in {"c_insert", "o_insert"} => inodes[arg[p].ino].sector = arg[p].inum
        /\ pc[p] \in Fileless => files[p] = Nobody

FileOf(o) == {p \in Proc : files[p] = o}
HeldBy(o) == {p \in Proc : Held(p) /\ arg[p].ino = o}

(* The strong count of an Inode is the number of its Arcs.                 *)
RefsExact ==
    \A o \in Live : inodes[o].refs = Cardinality(FileOf(o)) + Cardinality(HeldBy(o))

(* One thread closes an Inode, and nobody refers to it.                    *)
ClosersSound ==
    \A p \in Proc : Closing(p) =>
        /\ arg[p].ino \in Live /\ inodes[arg[p].ino].refs = 0
        /\ pc[p] = "erase" => inodes[arg[p].ino].removed /\ inodes[arg[p].ino].shrink = 0
        /\ \A q \in Proc : Closing(q) /\ arg[q].ino = arg[p].ino => q = p

(* The Inode that a file has in memory: an open or a removed one.          *)
Serving(o) == o \in Live /\ (inodes[o].refs > 0 \/ inodes[o].removed)

(* A file has one such Inode, which is as on the disk.                     *)
InodesSound ==
    /\ \A o \in InodeId : Serving(o) =>
          /\ inodes[o].sector \in alive
          /\ disk[inodes[o].sector] = [start |-> inodes[o].start, len |-> inodes[o].len]
    /\ \A o, r \in InodeId :
          Serving(o) /\ Serving(r) /\ inodes[o].sector = inodes[r].sector => o = r
    /\ \A i \in alive : disk[i] # Data

Named == \A i \in 1..DirSize : dir[i].name # Nobody => dir[i].inum \in alive

(* The sectors that a call has taken for an inode, or is about to free.    *)
Pending(p) ==
    LET i == inodes[arg[p].ino]
    IN  IF pc[p] = "c_inode" THEN {arg[p].inum}
        ELSE IF pc[p] = "close" THEN Run(i.start + bytes_to_sectors(i.len), TailSectors(i))
        ELSE {}

(* The sectors of an open Inode, and those the disk knows of.              *)
Occupied(o) == Run(inodes[o].start, bytes_to_sectors(inodes[o].len + inodes[o].shrink))
Stored(i)   == Run(disk[i].start, bytes_to_sectors(disk[i].len))

OwnedBy(S, use, own, u, w) == \A s \in S : use[s] = u /\ own[s] = w

(* Every sector has one use and one owner.                                 *)
Owners(use, own) ==
    /\ \A s \in Nat : use[s] # "none" => s \in bits /\ s \notin Reserved
    /\ \A i \in alive : use[i] = "inode" /\ own[i] = i
    /\ \A i \in alive : OwnedBy(Stored(i), use, own, "data", i)
    /\ \A o \in InodeId : o \in Live /\ inodes[o].refs > 0 =>
          OwnedBy(Occupied(o), use, own, "data", inodes[o].sector)
    /\ \A p \in Proc : OwnedBy(Pending(p), use, own, "call", p)

SectorsOwned == \E use, own : Owners(use, own)

(* The inductive invariant, as long as no lookup and no free map has been  *)
(* stale.                                                                  *)
Sound ==
    /\ FsTypes /\ TableSound /\ HoldersSound /\ RefsExact /\ ClosersSound
    /\ InodesSound /\ Named /\ SectorsOwned

FsInv == ~stale => Sound /\ saved \in SUBSET Sector

-----------------------------------------------------------------------------
(* Sectors that hold so many bytes.                                        *)
LEMMA SectorsNat ==
    ASSUME NEW a \in Nat
    PROVE  bytes_to_sectors(a) \in Nat
  BY DiskFsAssumption DEF bytes_to_sectors

LEMMA SectorsMono ==
    ASSUME NEW a \in Nat, NEW b \in Nat, a <= b
    PROVE  bytes_to_sectors(a) <= bytes_to_sectors(b)
  BY DiskFsAssumption DEF bytes_to_sectors

LEMMA SectorsOfNothing == bytes_to_sectors(0) = 0
  <1>1. \A x \in Nat, q \in Int : SECTOR_SIZE * q <= x /\ x < SECTOR_SIZE * q + SECTOR_SIZE
                                    => x \div SECTOR_SIZE = q
    BY DiskFsAssumption
  <1> QED
    BY <1>1, DiskFsAssumption DEF bytes_to_sectors

LEMMA SectorsOfSome ==
    ASSUME NEW a \in Nat, a > 0
    PROVE  bytes_to_sectors(a) > 0
  BY DiskFsAssumption DEF bytes_to_sectors

(* The whole sectors of the slack are within what the file takes.          *)
LEMMA SectorsTail ==
    ASSUME NEW a \in Nat, NEW b \in Nat
    PROVE  /\ b \div SECTOR_SIZE \in Nat
           /\ bytes_to_sectors(a) + b \div SECTOR_SIZE <= bytes_to_sectors(a + b)
  BY DiskFsAssumption DEF bytes_to_sectors

-----------------------------------------------------------------------------
(* Some relation on the natural numbers orders them well.                  *)
LEMMA NatWellFounded ==
    \E R : IsWellFoundedOn(R, Nat) /\ \A x, y \in Nat : y < x => <<y, x>> \in R
  <1> DEFINE R == OpToRel(<, Nat)
  <1>1. IsWellFoundedOn(R, Nat)
    BY NatLessThanWellFounded
  <1>2. \A x, y \in Nat : y < x => <<y, x>> \in R
    BY DEF OpToRel
  <1> HIDE DEF R
  <1> QED
    BY <1>1, <1>2, Zenon

(* The least of a set of numbers is one of them.                           *)
LEMMA MinIsMember ==
    ASSUME NEW S, S \subseteq Nat, S # {}
    PROVE  Min(S) \in S /\ \A y \in S : Min(S) <= y
  <1>1. PICK R : IsWellFoundedOn(R, Nat) /\ \A x, y \in Nat : y < x => <<y, x>> \in R
    BY NatWellFounded
  <1>2. \E x \in S : \A y \in S : ~(<<y, x>> \in R)
    BY <1>1, WFMin
  <1>3. \A x, y \in S : y < x => <<y, x>> \in R
    BY <1>1, Zenon
  <1>4. \E x \in S : \A y \in S : ~(y < x)
    BY <1>2, <1>3, Zenon
  <1>5. \E x \in S : \A y \in S : x <= y
    BY <1>4, SMT
  <1>6. Min(S) = CHOOSE x \in S : \A y \in S : x <= y
    BY DEF Min
  <1> QED
    BY <1>5, <1>6

(* What alloc finds was free, and is taken.                                *)
LEMMA AllocFinds ==
    ASSUME NEW b \in SUBSET Sector, NEW c \in Nat, c > 0, alloc(b, c).res = "ok"
    PROVE  /\ alloc(b, c).start \in Nat
           /\ Run(alloc(b, c).start, c) \subseteq Sector
           /\ Run(alloc(b, c).start, c) \cap b = {}
           /\ alloc(b, c).bits = b \cup Run(alloc(b, c).start, c)
  <1> DEFINE P == Places(b, c)
  <1>1. P \subseteq Nat
    BY DiskSizeAssumption DEF Places
  <1>2. P # {}
    BY DEF alloc
  <1>3. Min(P) \in P
    BY <1>1, <1>2, MinIsMember
  <1>4. Min(P) \in Nat /\ Min(P) <= DiskSize - c - 1 /\ Run(Min(P), c) \cap b = {}
    BY <1>3, DiskSizeAssumption DEF Places
  <1>5. alloc(b, c) = [res |-> "ok", start |-> Min(P), bits |-> b \cup Run(Min(P), c)]
    BY <1>2 DEF alloc
  <1>6. Run(Min(P), c) \subseteq Sector
    BY <1>4, DiskSizeAssumption DEF Run, Sector
  <1> HIDE DEF P
  <1> QED
    BY <1>4, <1>5, <1>6

LEMMA AllocFails ==
    ASSUME NEW b, NEW c \in Nat, c > 0
    PROVE  /\ alloc(b, c).res \in {"ok", "err"}
           /\ alloc(b, c).res = "err" => alloc(b, c).bits = b
  BY DEF alloc

(* Growth in place takes what was free.                                    *)
LEMMA InPlaceGrows ==
    ASSUME NEW b \in SUBSET Sector, NEW a \in Nat, NEW c \in Nat
    PROVE  /\ in_place_alloc(b, a, c).res \in {"ok", "err", "panic"}
           /\ in_place_alloc(b, a, c).res = "ok" =>
                 /\ in_place_alloc(b, a, c).bits = b \cup Run(a, c)
                 /\ Run(a, c) \cap b = {}
                 /\ Run(a, c) \subseteq Sector
  BY DiskSizeAssumption DEF in_place_alloc, Run, Sector

(* dealloc frees none but these sectors.                                   *)
LEMMA DeallocFrees ==
    ASSUME NEW b, NEW a, NEW c
    PROVE  dealloc(b, a, c) \subseteq b /\ b \ Run(a, c) \subseteq dealloc(b, a, c)
  BY DEF dealloc

(* It frees them all, if they are all taken.                               *)
LEMMA DeallocFreesAll ==
    ASSUME NEW b, NEW a \in Nat, NEW c \in Nat, Run(a, c) \subseteq b
    PROVE  dealloc(b, a, c) \cap Run(a, c) = {}
  BY DEF dealloc, Run

(* First fit in a map that is taken at the beginning only.                 *)
LEMMA AllocNext ==
    ASSUME NEW k \in Nat, NEW c \in Nat, k + 1 + c < DiskSize
    PROVE  alloc(0..k, c).bits = 0..(k + c)
  <1>1. CASE c = 0
    BY <1>1 DEF alloc
  <1>2. CASE c > 0
    <2> DEFINE P == Places(0..k, c)
    <2>1. P \subseteq Nat
      BY DiskSizeAssumption DEF Places
    <2>2. k + 1 \in P
      BY <1>2, DiskSizeAssumption DEF Places, Run
    <2>3. \A x \in P : x > k
      BY <1>2, DiskSizeAssumption DEF Places, Run
    <2>4. Min(P) \in P /\ Min(P) <= k + 1
      BY <2>1, <2>2, MinIsMember
    <2>5. Min(P) = k + 1
      BY <2>1, <2>3, <2>4
    <2>6. alloc(0..k, c).bits = (0..k) \cup Run(k + 1, c)
      BY <1>2, <2>2, <2>5 DEF alloc
    <2>7. \A x : x \in (0..k) \cup Run(k + 1, c) <=> x \in 0..(k + c)
      BY <1>2 DEF Run
    <2> QED
      BY <2>6, <2>7
  <1> QED
    BY <1>1, <1>2

LEMMA FormattedIsReserved == Formatted = Reserved
  <1>1. {FREE_MAP_SECTOR, ROOT_DIR_SECTOR} = 0..1
    BY DEF FREE_MAP_SECTOR, ROOT_DIR_SECTOR
  <1>2. MapLen \in Nat /\ RootLen \in Nat /\ DiskSize \in Nat /\ 2 + MapLen + RootLen < DiskSize
    BY DiskFsAssumption, DiskSizeAssumption
  <1>3. alloc(0..1, MapLen).bits = 0..(1 + MapLen)
    <2>1. 1 \in Nat /\ 1 + 1 + MapLen < DiskSize
      BY <1>2
    <2> QED
      BY <1>2, <2>1, AllocNext
  <1>4. alloc(0..(1 + MapLen), RootLen).bits = 0..(1 + MapLen + RootLen)
    BY <1>2, AllocNext
  <1> QED
    BY <1>1, <1>3, <1>4 DEF Formatted, Reserved

-----------------------------------------------------------------------------
(* What one thread does to the calls and the Files: it goes to l with the  *)
(* local values a, and has the File of f.                                  *)
Moved(p, l, a, f) ==
    /\ pc' \in [Proc -> Label] /\ arg' \in [Proc -> Arg]
    /\ files' \in [Proc -> InodeId \cup {Nobody}]
    /\ pc'[p] = l /\ arg'[p] = a /\ files'[p] = f
    /\ \A q \in Proc : q # p => pc'[q] = pc[q] /\ arg'[q] = arg[q] /\ files'[q] = files[q]

One(b) == IF b THEN 1 ELSE 0

LEMMA GotoMoves ==
    ASSUME FsTypes, NEW p \in Proc, NEW l \in Label, NEW a \in Arg, Goto(p, l, a),
           NEW f \in InodeId \cup {Nobody}, files' = [files EXCEPT ![p] = f]
    PROVE  Moved(p, l, a, f)
  BY DEF FsTypes, Goto, Moved

LEMMA GotoKeepsFile ==
    ASSUME FsTypes, NEW p \in Proc, NEW l \in Label, NEW a \in Arg, Goto(p, l, a),
           NEW f, f = files[p], files' = files
    PROVE  Moved(p, l, a, f)
  BY DEF FsTypes, Goto, Moved

(* Adding or taking away one element.                                      *)
LEMMA CountOne ==
    ASSUME NEW S, NEW T, IsFiniteSet(S), NEW p, \A q : q # p => (q \in T <=> q \in S)
    PROVE  /\ IsFiniteSet(T) /\ Cardinality(S) \in Nat /\ Cardinality(T) \in Nat
           /\ Cardinality(T) = Cardinality(S) - One(p \in S) + One(p \in T)
  <1>1. Cardinality(S) \in Nat
    BY FS_CardinalityType
  <1>2. CASE (p \in S) <=> (p \in T)
    <2>1. \A q : q \in T <=> q \in S
      BY <1>2, Zenon
    <2>2. T = S
      BY <2>1
    <2> QED
      BY <1>1, <1>2, <2>2 DEF One
  <1>3. CASE p \in T /\ p \notin S
    <2>1. T = S \cup {p}
      BY <1>3
    <2>2. IsFiniteSet(S \cup {p}) /\ Cardinality(S \cup {p}) = Cardinality(S) + 1
      BY <1>3, FS_AddElement, Zenon
    <2> QED
      BY <1>1, <1>3, <2>1, <2>2 DEF One
  <1>4. CASE p \in S /\ p \notin T
    <2>1. T = S \ {p}
      BY <1>4
    <2>2. IsFiniteSet(S \ {p}) /\ Cardinality(S \ {p}) = Cardinality(S) - 1
      BY <1>4, FS_RemoveElement, Zenon
    <2>3. Cardinality(S \ {p}) \in Nat
      BY <2>2, FS_CardinalityType
    <2> QED
      BY <1>1, <1>4, <2>1, <2>2, <2>3 DEF One
  <1> QED
    BY <1>2, <1>3, <1>4

LEMMA ArcsFinite ==
    ASSUME NEW r
    PROVE  IsFiniteSet(FileOf(r)) /\ IsFiniteSet(HeldBy(r))
  <1>1. FileOf(r) \subseteq Proc /\ HeldBy(r) \subseteq Proc
    BY DEF FileOf, HeldBy
  <1> QED
    BY <1>1, DiskFsAssumption, FS_Subset

(* How the number of Arcs of r changes.                                    *)
LEMMA ArcsCounted ==
    ASSUME NEW p \in Proc, NEW l, NEW a, NEW f, Moved(p, l, a, f), NEW r
    PROVE  /\ Cardinality(FileOf(r)) \in Nat /\ Cardinality(HeldBy(r)) \in Nat
           /\ Cardinality(FileOf(r))' = Cardinality(FileOf(r)) - One(files[p] = r) + One(f = r)
           /\ Cardinality(HeldBy(r))' =
                Cardinality(HeldBy(r)) - One(Held(p) /\ arg[p].ino = r) + One(l \in Holding /\ a.ino = r)
  <1>1. IsFiniteSet(FileOf(r)) /\ IsFiniteSet(HeldBy(r))
    BY ArcsFinite
  <1>2. \A q : q # p => (q \in FileOf(r)' <=> q \in FileOf(r))
    BY DEF FileOf, Moved
  <1>3. \A q : q # p => (q \in HeldBy(r)' <=> q \in HeldBy(r))
    BY DEF HeldBy, Held, Moved
  <1>4. (p \in FileOf(r) <=> files[p] = r) /\ (p \in FileOf(r)' <=> f = r)
    BY DEF FileOf, Moved
  <1>5. (p \in HeldBy(r) <=> Held(p) /\ arg[p].ino = r) /\ (p \in HeldBy(r)' <=> l \in Holding /\ a.ino = r)
    BY DEF HeldBy, Held, Moved
  <1>6. /\ Cardinality(FileOf(r)) \in Nat
        /\ Cardinality(FileOf(r)') = Cardinality(FileOf(r)) - One(p \in FileOf(r)) + One(p \in FileOf(r)')
    BY <1>1, <1>2, CountOne
  <1>7. /\ Cardinality(HeldBy(r)) \in Nat
        /\ Cardinality(HeldBy(r)') = Cardinality(HeldBy(r)) - One(p \in HeldBy(r)) + One(p \in HeldBy(r)')
    BY <1>1, <1>3, CountOne
  <1>8. One(p \in FileOf(r)) = One(files[p] = r) /\ One(p \in FileOf(r)') = One(f = r)
    BY <1>4 DEF One
  <1>9. /\ One(p \in HeldBy(r)) = One(Held(p) /\ arg[p].ino = r)
        /\ One(p \in HeldBy(r)') = One(l \in Holding /\ a.ino = r)
    BY <1>5 DEF One
  <1> QED
    BY <1>6, <1>7, <1>8, <1>9

-----------------------------------------------------------------------------
(* What an Inode is counted up or down by: the Arcs the thread gets and    *)
(* gives up.                                                               *)
Balanced(p, l, a, f) ==
    \A r \in InodeId : r \in Live' =>
        inodes'[r].refs = (IF r \in Live THEN inodes[r].refs ELSE 0)
                            - One(files[p] = r) - One(Held(p) /\ arg[p].ino = r)
                            + One(f = r) + One(l \in Holding /\ a.ino = r)

(* The open Inodes stay in memory, open or not.                            *)
InodesKept ==
    \A r \in InodeId : r \in Live /\ inodes[r].refs > 0 =>
        r \in Live' /\ inodes'[r].sector = inodes[r].sector

(* Who has an Arc keeps the Inode open.                                    *)
LEMMA ArcKeepsOpen ==
    ASSUME FsTypes, HoldersSound, RefsExact, NEW p \in Proc
    PROVE  /\ files[p] # Nobody => files[p] \in Live /\ inodes[files[p]].refs > 0
           /\ Held(p) => arg[p].ino \in Live /\ inodes[arg[p].ino].refs > 0
  <1>1. ASSUME NEW r, r \in Live, p \in FileOf(r) \/ p \in HeldBy(r)
        PROVE  inodes[r].refs > 0
    <2>1. IsFiniteSet(FileOf(r)) /\ IsFiniteSet(HeldBy(r))
      BY ArcsFinite
    <2>2. /\ Cardinality(FileOf(r)) \in Nat /\ (Cardinality(FileOf(r)) = 0 <=> FileOf(r) = {})
          /\ Cardinality(HeldBy(r)) \in Nat /\ (Cardinality(HeldBy(r)) = 0 <=> HeldBy(r) = {})
      BY <2>1, FS_CardinalityType, FS_EmptySet
    <2>3. inodes[r].refs = Cardinality(FileOf(r)) + Cardinality(HeldBy(r))
      BY <1>1 DEF RefsExact
    <2>4. Cardinality(FileOf(r)) > 0 \/ Cardinality(HeldBy(r)) > 0
      BY <1>1, <2>2
    <2> QED
      BY <2>2, <2>3, <2>4
  <1>2. ASSUME files[p] # Nobody
        PROVE  files[p] \in Live /\ inodes[files[p]].refs > 0
    <2>1. files[p] \in Live
      BY <1>2 DEF HoldersSound
    <2>2. p \in FileOf(files[p])
      BY DEF FileOf
    <2> QED
      BY <1>1, <2>1, <2>2
  <1>3. ASSUME Held(p)
        PROVE  arg[p].ino \in Live /\ inodes[arg[p].ino].refs > 0
    <2>1. arg[p].ino \in Live
      BY <1>3 DEF HoldersSound
    <2>2. p \in HeldBy(arg[p].ino)
      BY <1>3 DEF HeldBy
    <2> QED
      BY <1>1, <2>1, <2>2
  <1> QED
    BY <1>2, <1>3

(* Nobody has an Arc of an Inode that is not there.                        *)
LEMMA NoArcs ==
    ASSUME HoldersSound, NEW r \in InodeId, r \notin Live
    PROVE  Cardinality(FileOf(r)) = 0 /\ Cardinality(HeldBy(r)) = 0
  <1>1. r # Nobody
    BY NothingAssumption
  <1>2. FileOf(r) = {} /\ HeldBy(r) = {}
    BY <1>1 DEF HoldersSound, FileOf, HeldBy
  <1> QED
    BY <1>2, FS_EmptySet

LEMMA RefsKept ==
    ASSUME FsTypes, HoldersSound, RefsExact,
           NEW p \in Proc, NEW l, NEW a, NEW f, Moved(p, l, a, f), Balanced(p, l, a, f)
    PROVE  RefsExact'
  <1> SUFFICES ASSUME NEW r \in InodeId, r \in Live'
               PROVE  inodes'[r].refs = Cardinality(FileOf(r))' + Cardinality(HeldBy(r))'
    BY DEF RefsExact, Live
  <1>1. /\ Cardinality(FileOf(r)) \in Nat /\ Cardinality(HeldBy(r)) \in Nat
        /\ Cardinality(FileOf(r))' = Cardinality(FileOf(r)) - One(files[p] = r) + One(f = r)
        /\ Cardinality(HeldBy(r))' =
             Cardinality(HeldBy(r)) - One(Held(p) /\ arg[p].ino = r) + One(l \in Holding /\ a.ino = r)
    BY ArcsCounted
  <1>2. Cardinality(FileOf(r)) + Cardinality(HeldBy(r)) = IF r \in Live THEN inodes[r].refs ELSE 0
    BY <1>1, NoArcs DEF RefsExact
  <1>3. inodes'[r].refs = (IF r \in Live THEN inodes[r].refs ELSE 0)
                            - One(files[p] = r) - One(Held(p) /\ arg[p].ino = r)
                            + One(f = r) + One(l \in Holding /\ a.ino = r)
    BY DEF Balanced
  <1>4. /\ One(files[p] = r) \in Nat /\ One(Held(p) /\ arg[p].ino = r) \in Nat
        /\ One(f = r) \in Nat /\ One(l \in Holding /\ a.ino = r) \in Nat
    BY DEF One
  <1> QED
    BY <1>1, <1>2, <1>3, <1>4

LEMMA HoldersKept ==
    ASSUME FsTypes, HoldersSound, RefsExact, InodesKept,
           NEW p \in Proc, NEW l, NEW a, NEW f, Moved(p, l, a, f),
           f # Nobody => f \in Live', l \in Holding => a.ino \in Live',
           l \in {"c_insert", "o_insert"} => inodes'[a.ino].sector = a.inum,
           l \in Fileless => f = Nobody
    PROVE  HoldersSound'
  <1> SUFFICES ASSUME NEW q \in Proc
               PROVE  /\ files'[q] # Nobody => files'[q] \in Live'
                      /\ pc'[q] \in Holding => arg'[q].ino \in Live'
                      /\ pc'[q] \in {"c_insert", "o_insert"} =>
                            inodes'[arg'[q].ino].sector = arg'[q].inum
                      /\ pc'[q] \in Fileless => files'[q] = Nobody
    BY DEF HoldersSound, Held
  <1>1. CASE q = p
    BY <1>1 DEF Moved
  <1>2. CASE q # p
    <2>1. pc'[q] = pc[q] /\ arg'[q] = arg[q] /\ files'[q] = files[q]
      BY <1>2 DEF Moved
    <2>2. /\ files[q] # Nobody => files[q] \in Live /\ inodes[files[q]].refs > 0
          /\ Held(q) => arg[q].ino \in Live /\ inodes[arg[q].ino].refs > 0
      BY ArcKeepsOpen
    <2>3. Live \subseteq InodeId
      BY DEF Live
    <2>4. /\ files[q] # Nobody => files[q] \in Live'
          /\ Held(q) => arg[q].ino \in Live' /\ inodes'[arg[q].ino].sector = inodes[arg[q].ino].sector
      BY <2>2, <2>3 DEF InodesKept
    <2>5. pc[q] \in {"c_insert", "o_insert"} => Held(q) /\ inodes[arg[q].ino].sector = arg[q].inum
      BY DEF HoldersSound, Held, Holding
    <2>6. pc[q] \in Fileless => files[q] = Nobody
      BY DEF HoldersSound
    <2> QED
      BY <2>1, <2>4, <2>5, <2>6 DEF Held
  <1> QED
    BY <1>1, <1>2

(* The Inodes that the others are closing stay as they are.                *)
ClosedKept(p) ==
    \A q \in Proc : q # p /\ Closing(q) => inodes'[arg[q].ino] = inodes[arg[q].ino]

LEMMA ClosersKept ==
    ASSUME FsTypes, ClosersSound, NEW p \in Proc, NEW l, NEW a, NEW f, Moved(p, l, a, f),
           ClosedKept(p),
           l \in {"close", "erase"} =>
              /\ a.ino \in Live' /\ inodes'[a.ino].refs = 0
              /\ l = "erase" => inodes'[a.ino].removed /\ inodes'[a.ino].shrink = 0
              /\ \A q \in Proc : q # p /\ Closing(q) => arg[q].ino # a.ino
    PROVE  ClosersSound'
  <1>1. ASSUME NEW q \in Proc, Closing(q)', q # p
        PROVE  /\ Closing(q) /\ pc'[q] = pc[q] /\ arg'[q] = arg[q]
               /\ arg[q].ino \in Live /\ inodes'[arg[q].ino] = inodes[arg[q].ino]
               /\ arg[q].ino \in Live'
    <2>1. Closing(q) /\ pc'[q] = pc[q] /\ arg'[q] = arg[q]
      BY <1>1 DEF Moved, Closing
    <2>2. arg[q].ino \in Live /\ inodes'[arg[q].ino] = inodes[arg[q].ino]
      BY <1>1, <2>1 DEF ClosersSound, ClosedKept
    <2> QED
      BY <2>1, <2>2 DEF Live
  <1>2. Closing(p)' => l \in {"close", "erase"}
    BY DEF Closing, Moved
  <1>3. ASSUME NEW q \in Proc, Closing(q)'
        PROVE  /\ arg'[q].ino \in Live' /\ inodes'[arg'[q].ino].refs = 0
               /\ pc'[q] = "erase" => inodes'[arg'[q].ino].removed /\ inodes'[arg'[q].ino].shrink = 0
    <2>1. CASE q = p
      BY <1>2, <1>3, <2>1 DEF Moved
    <2>2. CASE q # p
      BY <1>1, <1>3, <2>2 DEF ClosersSound
    <2> QED
      BY <2>1, <2>2
  <1>4. ASSUME NEW q \in Proc, NEW r \in Proc, Closing(q)', Closing(r)', arg'[r].ino = arg'[q].ino
        PROVE  r = q
    <2>1. CASE q # p /\ r # p
      <3>1. Closing(q) /\ arg'[q] = arg[q] /\ Closing(r) /\ arg'[r] = arg[r]
        BY <1>1, <1>4, <2>1
      <3> QED
        BY <3>1, <1>4 DEF ClosersSound
    <2>2. CASE q # p /\ r = p
      BY <1>1, <1>2, <1>4, <2>2 DEF Moved
    <2>3. CASE q = p /\ r # p
      BY <1>1, <1>2, <1>4, <2>3 DEF Moved
    <2> QED
      BY <2>1, <2>2, <2>3
  <1> QED
    BY <1>3, <1>4 DEF ClosersSound

LEMMA TableKept ==
    ASSUME FsTypes, TableSound, table' = table,
           \A r \in InodeId : r \in Live /\ inodes[r].refs > 0 =>
              r \in Live' /\ inodes'[r].sector = inodes[r].sector /\ inodes'[r].refs > 0
    PROVE  TableSound'
  <1>1. \A s \in Sector : table[s] # Nobody => table[s] \in InodeId
    BY DEF FsTypes
  <1> QED
    BY <1>1 DEF TableSound

-----------------------------------------------------------------------------
(* The sectors of an Inode i.                                              *)
Area(i) == Run(i.start, bytes_to_sectors(i.len + i.shrink))

(* Inode i becomes j, with the map b and the disk d: what is new was free, *)
(* no sector of another file is freed or written, and the inode is on the  *)
(* disk.                                                                   *)
Rewritten(i, j, b, d) ==
    /\ j \in Inode /\ j.sector = i.sector
    /\ b \in SUBSET Sector
    /\ \A s \in bits : s \notin Area(i) => s \in b
    /\ \A s \in Area(j) : s \in b /\ (s \in Area(i) \/ s \notin bits)
    /\ d \in [Sector -> {Data} \cup DiskInode]
    /\ d[i.sector] = [start |-> j.start, len |-> j.len]
    /\ \A s \in bits : s \notin Area(i) /\ s # i.sector => d[s] = disk[s]

LEMMA AreaHoldsFile ==
    ASSUME NEW i \in Inode
    PROVE  Run(i.start, bytes_to_sectors(i.len)) \subseteq Area(i)
  <1>1. i.start \in Nat /\ i.len \in Nat /\ i.shrink \in Nat
    BY DEF Inode
  <1>2. /\ bytes_to_sectors(i.len) \in Nat /\ bytes_to_sectors(i.len + i.shrink) \in Nat
        /\ bytes_to_sectors(i.len) <= bytes_to_sectors(i.len + i.shrink)
    BY <1>1, SectorsNat, SectorsMono
  <1> QED
    BY <1>1, <1>2 DEF Area, Run

LEMMA AreaNat ==
    ASSUME NEW i \in Inode
    PROVE  Area(i) \subseteq Nat
  <1>1. i.start \in Nat /\ i.len \in Nat /\ i.shrink \in Nat
    BY DEF Inode
  <1>2. bytes_to_sectors(i.len + i.shrink) \in Nat
    BY <1>1, SectorsNat
  <1> QED
    BY <1>1, <1>2 DEF Area, Run

LEMMA LiveTyped ==
    ASSUME FsTypes, NEW o, o \in Live
    PROVE  o \in InodeId /\ inodes[o] \in Inode /\ inodes[o].refs \in Nat /\ inodes[o].sector \in Sector
  <1>1. o \in InodeId /\ inodes[o] \in Inode
    BY DEF FsTypes, Live
  <1> QED
    BY <1>1 DEF Inode

LEMMA PendingNat ==
    ASSUME FsTypes, ClosersSound, NEW q \in Proc
    PROVE  Pending(q) \subseteq Nat
  <1>1. CASE pc[q] = "close"
    <2>1. arg[q].ino \in Live
      BY <1>1 DEF ClosersSound, Closing
    <2>2. PICK i : i = inodes[arg[q].ino]
      OBVIOUS
    <2>3. i.start \in Nat /\ i.len \in Nat /\ i.shrink \in Nat
      BY <2>1, <2>2, LiveTyped DEF Inode
    <2>4. bytes_to_sectors(i.len) \in Nat /\ TailSectors(i) \in Nat
      BY <2>3, SectorsNat, SectorsTail DEF TailSectors
    <2>5. Pending(q) = Run(i.start + bytes_to_sectors(i.len), TailSectors(i))
      BY <1>1, <2>2 DEF Pending
    <2> QED
      BY <2>3, <2>4, <2>5 DEF Run
  <1>2. CASE pc[q] = "c_inode"
    BY <1>2, DiskSizeAssumption DEF Pending, FsTypes, Arg, Sector
  <1>3. CASE pc[q] \notin {"close", "c_inode"}
    BY <1>3 DEF Pending
  <1> QED
    BY <1>1, <1>2, <1>3

LEMMA RewriteKeeps ==
    ASSUME FsTypes, ClosersSound, InodesSound, SectorsOwned,
           NEW o \in InodeId, o \in Live, inodes[o].refs > 0,
           NEW j, j.refs > 0, Rewritten(inodes[o], j, bits', disk'),
           inodes' = [inodes EXCEPT ![o] = j], alive' = alive,
           \A q \in Proc : \A s \in Pending(q)' : s \in Pending(q)
    PROVE  InodesSound' /\ SectorsOwned' /\ Reserved \subseteq bits'
  <1>1. PICK use, own : Owners(use, own)
    BY DEF SectorsOwned
  <1>2. PICK i : i = inodes[o]
    OBVIOUS
  <1>3. PICK X : X = Area(i)
    OBVIOUS
  <1>4. PICK Y : Y = Area(j)
    OBVIOUS
  <1>5. i \in Inode /\ i.sector \in Sector /\ i.refs > 0
    BY <1>2, LiveTyped
  <1>6. j \in Inode /\ j.sector = i.sector /\ j # Nobody
    BY <1>2, NothingAssumption DEF Rewritten
  <1>7. X \subseteq Nat /\ Y \subseteq Nat
    BY <1>3, <1>4, <1>5, <1>6, AreaNat
  <1>8. bits' \in SUBSET Sector /\ disk' \in [Sector -> {Data} \cup DiskInode]
    BY DEF Rewritten
  <1>9. /\ \A s \in bits : s \notin X => s \in bits'
        /\ \A s \in Y : s \in bits' /\ (s \in X \/ s \notin bits)
        /\ disk'[i.sector] = [start |-> j.start, len |-> j.len]
        /\ \A s \in bits : s \notin X /\ s # i.sector => disk'[s] = disk[s]
    BY <1>2, <1>3, <1>4 DEF Rewritten
  <1>10. \A r \in InodeId : inodes'[r] = IF r = o THEN j ELSE inodes[r]
    BY DEF FsTypes
  <1>11. \A r \in InodeId : (r \in Live' <=> r \in Live)
    BY <1>6, <1>10 DEF Live
  <1>12. Serving(o) /\ i.sector \in alive
    BY <1>2, <1>5 DEF InodesSound, Serving
  <1>13. \A s \in X : use[s] = "data" /\ own[s] = i.sector
    BY <1>1, <1>2, <1>3, <1>5 DEF Owners, OwnedBy, Area, Occupied
  <1>14. \A s \in Nat : use[s] # "none" => s \in bits /\ s \notin Reserved
    BY <1>1 DEF Owners
  <1>15. \A k \in alive : use[k] = "inode" /\ own[k] = k /\ k \in bits /\ k \notin X /\ k \notin Y /\ k \in Sector
    <2>1. \A k \in alive : use[k] = "inode" /\ own[k] = k /\ k \in Nat /\ k \in Sector
      BY <1>1, DiskSizeAssumption DEF Owners, FsTypes, Sector
    <2>2. \A k \in alive : k \in bits /\ k \notin X
      BY <2>1, <1>13, <1>14
    <2> QED
      BY <2>1, <2>2, <1>9
  <1>16. \A k \in alive : k # i.sector => disk'[k] = disk[k]
    BY <1>9, <1>15
  <1>17. \A r \in InodeId : r # o /\ Serving(r) => inodes[r].sector # i.sector
    BY <1>2, <1>12 DEF InodesSound
  <1>18. \A r \in InodeId : r # o => (Serving(r)' <=> Serving(r))
    BY <1>10, <1>11 DEF Serving
  <1>19. InodesSound'
    <2>1. ASSUME NEW r \in InodeId, Serving(r)'
          PROVE  /\ inodes'[r].sector \in alive'
                 /\ disk'[inodes'[r].sector] = [start |-> inodes'[r].start, len |-> inodes'[r].len]
      <3>1. CASE r = o
        BY <3>1, <1>6, <1>9, <1>10, <1>12
      <3>2. CASE r # o
        <4>1. Serving(r) /\ inodes'[r] = inodes[r]
          BY <2>1, <3>2, <1>10, <1>18
        <4>2. /\ inodes[r].sector \in alive
              /\ disk[inodes[r].sector] = [start |-> inodes[r].start, len |-> inodes[r].len]
          BY <4>1 DEF InodesSound
        <4>3. disk'[inodes[r].sector] = disk[inodes[r].sector]
          BY <4>1, <4>2, <3>2, <1>16, <1>17
        <4> QED
          BY <4>1, <4>2, <4>3
      <3> QED
        BY <3>1, <3>2
    <2>2. ASSUME NEW r \in InodeId, NEW t \in InodeId, Serving(r)', Serving(t)',
                 inodes'[r].sector = inodes'[t].sector
          PROVE  r = t
      BY <2>2, <1>6, <1>10, <1>17, <1>18 DEF InodesSound
    <2>3. \A k \in alive' : disk'[k] # Data
      <3>1. [start |-> j.start, len |-> j.len] \in DiskInode
        BY <1>6 DEF Inode, DiskInode
      <3> QED
        BY <3>1, <1>9, <1>16, NothingAssumption DEF InodesSound
    <2> QED
      BY <2>1, <2>2, <2>3 DEF InodesSound
  <1>20. Reserved \subseteq bits'
    <2>1. \A s \in X : s \notin Reserved
      BY <1>7, <1>13, <1>14
    <2> QED
      BY <2>1, <1>9 DEF FsTypes
  <1> DEFINE use2 == [s \in Nat |-> IF s \in Y THEN "data" ELSE IF s \in X THEN "none" ELSE use[s]]
             own2 == [s \in Nat |-> IF s \in Y THEN i.sector ELSE own[s]]
  <1>21. \A s \in Nat : use2[s] = IF s \in Y THEN "data" ELSE IF s \in X THEN "none" ELSE use[s]
    OBVIOUS
  <1>22. \A s \in Nat : own2[s] = IF s \in Y THEN i.sector ELSE own[s]
    OBVIOUS
  <1> HIDE DEF use2, own2
  <1>23. \A s \in Nat : use[s] # "none" /\ ~(use[s] = "data" /\ own[s] = i.sector) =>
                           use2[s] = use[s] /\ own2[s] = own[s]
    BY <1>9, <1>13, <1>14, <1>21, <1>22
  <1>24. \A s \in Y : use2[s] = "data" /\ own2[s] = i.sector
    BY <1>7, <1>21, <1>22
  <1>25. \A s \in Nat : use2[s] # "none" => s \in bits' /\ s \notin Reserved
    BY <1>9, <1>13, <1>14, <1>21 DEF FsTypes
  <1>26. \A k \in alive' : use2[k] = "inode" /\ own2[k] = k
    BY <1>15, <1>23, DiskSizeAssumption DEF Sector
  <1>27. ASSUME NEW k \in alive', NEW s \in Stored(k)'
         PROVE  use2[s] = "data" /\ own2[s] = k
    <2>1. CASE k = i.sector
      <3>1. Stored(k)' = Run(j.start, bytes_to_sectors(j.len))
        BY <2>1, <1>9 DEF Stored
      <3>2. s \in Y
        BY <3>1, <1>4, <1>6, AreaHoldsFile
      <3> QED
        BY <2>1, <3>2, <1>24
    <2>2. CASE k # i.sector
      <3>1. disk'[k] = disk[k]
        BY <2>2, <1>16
      <3>2. s \in Stored(k)
        BY <3>1 DEF Stored
      <3>3. use[s] = "data" /\ own[s] = k
        BY <3>2, <1>1 DEF Owners, OwnedBy
      <3>4. disk[k] \in DiskInode
        BY <1>15 DEF FsTypes, InodesSound
      <3>5. disk[k].start \in Nat /\ bytes_to_sectors(disk[k].len) \in Nat
        BY <3>4, SectorsNat DEF DiskInode
      <3>6. s \in Nat
        BY <3>2, <3>5 DEF Stored, Run
      <3> QED
        BY <2>2, <3>3, <3>6, <1>23
    <2> QED
      BY <2>1, <2>2
  <1>28. ASSUME NEW r \in InodeId, r \in Live', inodes'[r].refs > 0, NEW s \in Occupied(r)'
         PROVE  use2[s] = "data" /\ own2[s] = inodes'[r].sector
    <2>1. CASE r = o
      <3>1. Occupied(r)' = Y
        BY <2>1, <1>4, <1>10 DEF Occupied, Area
      <3> QED
        BY <2>1, <3>1, <1>6, <1>10, <1>24
    <2>2. CASE r # o
      <3>1. inodes'[r] = inodes[r] /\ r \in Live
        BY <2>2, <1>10, <1>11, <1>28
      <3>2. s \in Occupied(r)
        BY <3>1 DEF Occupied
      <3>3. use[s] = "data" /\ own[s] = inodes[r].sector
        BY <3>1, <3>2, <1>1, <1>28 DEF Owners, OwnedBy
      <3>4. Serving(r)
        BY <3>1, <1>28 DEF Serving
      <3>5. inodes[r].sector # i.sector
        BY <2>2, <3>4, <1>17
      <3>6. s \in Nat
        BY <3>1, <3>2, LiveTyped, AreaNat DEF Area, Occupied
      <3> QED
        BY <3>1, <3>3, <3>5, <3>6, <1>23
    <2> QED
      BY <2>1, <2>2
  <1>29. ASSUME NEW q \in Proc, NEW s \in Pending(q)'
         PROVE  use2[s] = "call" /\ own2[s] = q
    <2>1. s \in Pending(q)
      BY <1>29
    <2>2. use[s] = "call" /\ own[s] = q
      BY <2>1, <1>1 DEF Owners, OwnedBy
    <2>3. s \in Nat
      BY <2>1, PendingNat
    <2> QED
      BY <2>2, <2>3, <1>23
  <1>30. Owners(use2, own2)'
    BY <1>25, <1>26, <1>27, <1>28, <1>29 DEF Owners, OwnedBy
  <1> QED
    BY <1>19, <1>20, <1>30 DEF SectorsOwned

-----------------------------------------------------------------------------
LEMMA FlushWrites ==
    ASSUME NEW d \in [Sector -> {Data} \cup DiskInode], NEW j \in Inode
    PROVE  /\ Flushed(d, j) \in [Sector -> {Data} \cup DiskInode]
           /\ Flushed(d, j)[j.sector] = [start |-> j.start, len |-> j.len]
           /\ \A s \in Sector : s # j.sector => Flushed(d, j)[s] = d[s]
  <1>1. j.sector \in Sector /\ [start |-> j.start, len |-> j.len] \in DiskInode
    BY DEF Inode, DiskInode
  <1>2. Flushed(d, j) = [d EXCEPT ![j.sector] = [start |-> j.start, len |-> j.len]]
    BY DEF Flushed
  <1> QED
    BY <1>1, <1>2

(* An Inode that may be resized: its sectors are taken, its own one is not *)
(* among them, and it is on the disk.                                      *)
Resizable(i) ==
    /\ i \in Inode
    /\ Area(i) \subseteq bits /\ i.sector \in bits /\ i.sector \notin Area(i)
    /\ disk[i.sector] = [start |-> i.start, len |-> i.len]

(* Inode i becomes j, with the map b: what it had and does not have now is *)
(* free.                                                                   *)
Trimmed(i, j, b) == \A s \in b : s \in Area(j) \/ (s \in bits /\ s \notin Area(i))

(* What a resize does whatever becomes of it.                              *)
Resized(i, r) ==
    /\ Rewritten(i, r.inode, r.bits, r.disk) /\ Trimmed(i, r.inode, r.bits)
    /\ r.inode.refs = i.refs /\ r.inode.removed = i.removed
    /\ r.res \in {"ok", "err", "panic"}
    /\ r = Outcome(r.res, r.inode, r.bits, r.disk)

(* Nothing has changed.                                                    *)
LEMMA KeptIsResized ==
    ASSUME FsTypes, NEW i, Resizable(i), NEW res \in {"ok", "err", "panic"}
    PROVE  Resized(i, Outcome(res, i, bits, disk))
  BY DEF FsTypes, Resizable, Resized, Outcome, Rewritten, Trimmed

LEMMA WithinIsResized ==
    ASSUME FsTypes, NEW i, Resizable(i), NEW n \in Nat, n <= i.len + i.shrink
    PROVE  Resized(i, ResizeWithin(i, n)) /\ ResizeWithin(i, n).inode.len = n
  <1>1. PICK j : j = [i EXCEPT !.len = n, !.shrink = i.len + i.shrink - n]
    OBVIOUS
  <1>2. i \in Inode /\ i.len \in Nat /\ i.shrink \in Nat
    BY DEF Resizable, Inode
  <1>3. /\ j \in Inode /\ j.sector = i.sector /\ j.start = i.start /\ j.len = n
        /\ j.shrink = i.len + i.shrink - n /\ j.refs = i.refs /\ j.removed = i.removed
    <2>1. PICK k : k = i.len + i.shrink - n
      OBVIOUS
    <2>2. k \in Nat
      BY <1>2, <2>1
    <2>3. j = [i EXCEPT !.len = n, !.shrink = k]
      BY <1>1, <2>1, Zenon
    <2>4. /\ j \in Inode /\ j.sector = i.sector /\ j.start = i.start /\ j.len = n
          /\ j.shrink = k /\ j.refs = i.refs /\ j.removed = i.removed
      BY <1>2, <2>2, <2>3 DEF Inode
    <2> QED
      BY <2>1, <2>4
  <1>4. Area(j) = Area(i)
    <2>1. j.len + j.shrink = i.len + i.shrink
      BY <1>2, <1>3
    <2> QED
      BY <1>3, <2>1 DEF Area
  <1>5. PICK d : d = Flushed(disk, j)
    OBVIOUS
  <1>6. /\ d \in [Sector -> {Data} \cup DiskInode]
        /\ d[i.sector] = [start |-> j.start, len |-> j.len]
        /\ \A s \in Sector : s # i.sector => d[s] = disk[s]
    BY <1>3, <1>5, FlushWrites DEF FsTypes
  <1>7. ResizeWithin(i, n) = Outcome("ok", j, bits, d)
    BY <1>1, <1>5 DEF ResizeWithin
  <1>8. Rewritten(i, j, bits, d)
    BY <1>3, <1>4, <1>6 DEF Rewritten, Resizable, FsTypes
  <1>9. Trimmed(i, j, bits)
    BY <1>4 DEF Trimmed
  <1> QED
    BY <1>3, <1>7, <1>8, <1>9 DEF Resized, Outcome

(* Growth into the sectors that follow.                                    *)
Grown(i, n, have, more, b, j) ==
    /\ n > i.len + i.shrink
    /\ have = bytes_to_sectors(i.len + i.shrink)
    /\ more = Run(i.start + have, bytes_to_sectors(n) - have)
    /\ b = bits \cup more /\ more \cap bits = {} /\ more \subseteq Sector
    /\ j = [i EXCEPT !.len = n, !.shrink = 0]

LEMMA GrownIsResized ==
    ASSUME FsTypes, NEW i, Resizable(i), NEW n \in Nat,
           NEW have, NEW more, NEW b, NEW j, Grown(i, n, have, more, b, j)
    PROVE  Resized(i, Outcome("ok", j, b, Flushed(disk, j))) /\ j.len = n
  <1>1. /\ n > i.len + i.shrink
        /\ have = bytes_to_sectors(i.len + i.shrink)
        /\ more = Run(i.start + have, bytes_to_sectors(n) - have)
        /\ b = bits \cup more /\ more \cap bits = {} /\ more \subseteq Sector
        /\ j = [i EXCEPT !.len = n, !.shrink = 0]
    BY DEF Grown
  <1>2. i \in Inode /\ i.len \in Nat /\ i.shrink \in Nat /\ i.start \in Nat
    BY DEF Resizable, Inode
  <1>3. /\ j \in Inode /\ j.sector = i.sector /\ j.start = i.start /\ j.len = n
        /\ j.shrink = 0 /\ j.refs = i.refs /\ j.removed = i.removed
    BY <1>1, <1>2 DEF Inode
  <1>4. have \in Nat /\ bytes_to_sectors(n) \in Nat /\ have <= bytes_to_sectors(n)
    BY <1>1, <1>2, SectorsNat, SectorsMono
  <1>5. Area(j) = Run(i.start, bytes_to_sectors(n))
    <2>1. j.len + j.shrink = n
      BY <1>3
    <2> QED
      BY <1>3, <2>1 DEF Area
  <1>6. \A s \in Area(j) : s \in Area(i) \/ s \in more
    <2>1. ASSUME NEW x \in Nat, NEW c \in Nat, NEW t \in Nat, c <= t, NEW s \in Run(x, t)
          PROVE  s \in Run(x, c) \/ s \in Run(x + c, t - c)
      BY <2>1 DEF Run
    <2>2. Area(i) = Run(i.start, have)
      BY <1>1 DEF Area
    <2> QED
      BY <1>1, <1>2, <1>4, <1>5, <2>1, <2>2
  <1>7. PICK d : d = Flushed(disk, j)
    OBVIOUS
  <1>8. /\ d \in [Sector -> {Data} \cup DiskInode]
        /\ d[i.sector] = [start |-> j.start, len |-> j.len]
        /\ \A s \in Sector : s # i.sector => d[s] = disk[s]
    <2>1. disk \in [Sector -> {Data} \cup DiskInode]
      BY DEF FsTypes
    <2>2. /\ Flushed(disk, j) \in [Sector -> {Data} \cup DiskInode]
          /\ Flushed(disk, j)[j.sector] = [start |-> j.start, len |-> j.len]
          /\ \A s \in Sector : s # j.sector => Flushed(disk, j)[s] = disk[s]
      BY <1>3, <2>1, FlushWrites, Zenon
    <2>3. j.sector = i.sector
      BY <1>3
    <2> QED
      BY <1>7, <2>2, <2>3, Zenon
  <1>9. \A s \in Area(j) : s \in b /\ (s \in Area(i) \/ s \notin bits)
    BY <1>1, <1>6 DEF Resizable
  <1>10. Rewritten(i, j, b, d)
    BY <1>1, <1>3, <1>8, <1>9 DEF Rewritten, Resizable, FsTypes
  <1>11. Trimmed(i, j, b)
    <2>1. ASSUME NEW x \in Nat, NEW c \in Nat, NEW t \in Nat, c <= t
          PROVE  Run(x, c) \subseteq Run(x, t) /\ Run(x + c, t - c) \subseteq Run(x, t)
      BY <2>1 DEF Run
    <2>2. Area(i) = Run(i.start, have)
      BY <1>1 DEF Area
    <2>3. Area(i) \subseteq Area(j) /\ more \subseteq Area(j)
      BY <1>1, <1>2, <1>4, <1>5, <2>1, <2>2
    <2> QED
      BY <1>1, <2>3 DEF Trimmed
  <1> QED
    BY <1>3, <1>7, <1>10, <1>11 DEF Resized, Outcome

LEMMA MoveIsResized ==
    ASSUME FsTypes, NEW i, Resizable(i), NEW n \in Nat, n > i.len + i.shrink
    PROVE  /\ Resized(i, ResizeMove(i, n))
           /\ ResizeMove(i, n).res = "ok" => ResizeMove(i, n).inode.len = n
  <1>1. i \in Inode /\ i.len \in Nat /\ i.shrink \in Nat /\ i.start \in Nat
    BY DEF Resizable, Inode
  <1>2. PICK have : have = bytes_to_sectors(i.len + i.shrink)
    OBVIOUS
  <1>3. PICK need : need = bytes_to_sectors(n)
    OBVIOUS
  <1>4. have \in Nat /\ need \in Nat /\ have <= need /\ need > 0
    BY <1>1, <1>2, <1>3, SectorsNat, SectorsMono, SectorsOfSome
  <1>5. PICK m : m = alloc(bits, need)
    OBVIOUS
  <1>6. PICK j : j = [i EXCEPT !.start = m.start, !.len = n, !.shrink = 0]
    OBVIOUS
  <1>7. PICK c : c = [s \in Sector |-> IF s \in Run(m.start, have)
                                       THEN disk[i.start + (s - m.start)] ELSE disk[s]]
    OBVIOUS
  <1>8. ResizeMove(i, n) =
           IF m.res = "err" THEN Outcome("err", i, bits, disk)
           ELSE Outcome("ok", j, dealloc(m.bits, i.start, have), Flushed(c, j))
    BY <1>2, <1>3, <1>5, <1>6, <1>7 DEF ResizeMove
  <1>9. CASE m.res = "err"
    <2>1. ResizeMove(i, n) = Outcome("err", i, bits, disk)
      BY <1>8, <1>9
    <2>2. Resized(i, Outcome("err", i, bits, disk))
      BY KeptIsResized
    <2> QED
      BY <2>1, <2>2 DEF Outcome
  <1>10. CASE m.res # "err"
    <2>1. m.res = "ok"
      BY <1>4, <1>5, <1>10, AllocFails
    <2>2. PICK new : new = Run(m.start, need)
      OBVIOUS
    <2>3. m.start \in Nat /\ new \subseteq Sector /\ new \cap bits = {} /\ m.bits = bits \cup new
      <3>1. bits \in SUBSET Sector
        BY DEF FsTypes
      <3> QED
        BY <3>1, <2>1, <2>2, <1>4, <1>5, AllocFinds
    <2>4. /\ j \in Inode /\ j.sector = i.sector /\ j.start = m.start /\ j.len = n
          /\ j.shrink = 0 /\ j.refs = i.refs /\ j.removed = i.removed
      BY <2>3, <1>1, <1>6 DEF Inode
    <2>5. Area(j) = new
      <3>1. j.len + j.shrink = n
        BY <2>4
      <3> QED
        BY <3>1, <2>2, <2>4, <1>3 DEF Area
    <2>6. PICK b : b = dealloc(m.bits, i.start, have)
      OBVIOUS
    <2>7. b \subseteq bits \cup new /\ \A s \in bits \cup new : s \notin Area(i) => s \in b
      BY <2>3, <2>6, <1>2, DeallocFrees DEF Area
    <2>8. new \cap Area(i) = {}
      BY <2>3 DEF Resizable
    <2>9. \A s \in Sector : s \in Run(m.start, have) => s \in new /\ i.start + (s - m.start) \in Area(i)
      <3>1. Area(i) = i.start..(i.start + have - 1)
        BY <1>2 DEF Area, Run
      <3>2. ASSUME NEW x \in Nat, NEW y \in Nat, NEW s \in y..(y + have - 1)
            PROVE  s \in y..(y + need - 1) /\ x + (s - y) \in x..(x + have - 1)
        BY <1>4
      <3> QED
        BY <3>1, <3>2, <2>2, <2>3, <1>1 DEF Run
    <2>10. \A s \in Area(i) : s \in Sector
      BY DEF Resizable, FsTypes
    <2>11. c \in [Sector -> {Data} \cup DiskInode]
      BY <2>9, <2>10, <1>7 DEF FsTypes
    <2>12. \A s \in bits : c[s] = disk[s]
      BY <2>3, <2>9, <1>7 DEF FsTypes
    <2>13. PICK d : d = Flushed(c, j)
      OBVIOUS
    <2>14. /\ d \in [Sector -> {Data} \cup DiskInode]
           /\ d[i.sector] = [start |-> j.start, len |-> j.len]
           /\ \A s \in Sector : s # i.sector => d[s] = c[s]
      BY <2>4, <2>11, <2>13, FlushWrites
    <2>15. \A s \in bits : s # i.sector => d[s] = disk[s]
      BY <2>12, <2>14 DEF FsTypes
    <2>16. b \in SUBSET Sector
      BY <2>3, <2>7 DEF FsTypes
    <2>17. \A s \in Area(j) : s \in b /\ s \notin bits
      BY <2>3, <2>5, <2>7, <2>8
    <2>18. Rewritten(i, j, b, d)
      BY <2>4, <2>7, <2>14, <2>15, <2>16, <2>17 DEF Rewritten
    <2>19. ResizeMove(i, n) = Outcome("ok", j, b, d)
      BY <2>1, <2>6, <2>13, <1>8
    <2>20. \A s \in b : s \notin Area(i)
      <3>1. Area(i) = Run(i.start, have) /\ Area(i) \subseteq m.bits
        BY <2>3, <1>2 DEF Area, Resizable
      <3> QED
        BY <3>1, <2>6, <1>1, <1>4, DeallocFreesAll
    <2>21. Trimmed(i, j, b)
      BY <2>5, <2>7, <2>20 DEF Trimmed
    <2> QED
      BY <2>4, <2>18, <2>19, <2>21 DEF Resized, Outcome
  <1> QED
    BY <1>9, <1>10

(* resize_inner, whichever way it goes.                                    *)
LEMMA ResizeIsResized ==
    ASSUME FsTypes, NEW i, Resizable(i), NEW n \in Nat
    PROVE  /\ Resized(i, resize_inner(i, n))
           /\ resize_inner(i, n).res = "ok" => resize_inner(i, n).inode.len = n
  <1>1. i \in Inode /\ i.len \in Nat /\ i.shrink \in Nat /\ i.start \in Nat
    BY DEF Resizable, Inode
  <1>2. PICK have : have = bytes_to_sectors(i.len + i.shrink)
    OBVIOUS
  <1>3. PICK more : more = bytes_to_sectors(n) - have
    OBVIOUS
  <1>4. PICK g : g = in_place_alloc(bits, i.start + have, more)
    OBVIOUS
  <1>5. PICK j : j = [i EXCEPT !.len = n, !.shrink = 0]
    OBVIOUS
  <1>6. resize_inner(i, n) =
           IF n = i.len THEN Outcome("ok", i, bits, disk)
           ELSE IF n <= i.len + i.shrink THEN ResizeWithin(i, n)
           ELSE CASE g.res = "ok"    -> Outcome("ok", j, g.bits, Flushed(disk, j))
                  [] g.res = "err"   -> ResizeMove(i, n)
                  [] g.res = "panic" -> Outcome("panic", i, bits, disk)
    BY <1>2, <1>3, <1>4, <1>5 DEF resize_inner
  <1>7. CASE n = i.len
    <2>1. resize_inner(i, n) = Outcome("ok", i, bits, disk)
      BY <1>6, <1>7
    <2>2. Resized(i, Outcome("ok", i, bits, disk))
      BY KeptIsResized
    <2> QED
      BY <2>1, <2>2, <1>7 DEF Outcome
  <1>8. CASE n # i.len /\ n <= i.len + i.shrink
    <2>1. resize_inner(i, n) = ResizeWithin(i, n)
      BY <1>6, <1>8
    <2> QED
      BY <2>1, <1>8, WithinIsResized
  <1>9. CASE n # i.len /\ n > i.len + i.shrink
    <2>1. have \in Nat /\ more \in Nat
      BY <1>1, <1>2, <1>3, <1>9, SectorsNat, SectorsMono
    <2>2. bits \in SUBSET Sector
      BY DEF FsTypes
    <2>3. PICK e : e = i.start + have
      OBVIOUS
    <2>31. e \in Nat
      BY <1>1, <2>1, <2>3
    <2>4. /\ g.res \in {"ok", "err", "panic"}
          /\ g.res = "ok" => /\ g.bits = bits \cup Run(i.start + have, more)
                             /\ Run(i.start + have, more) \cap bits = {}
                             /\ Run(i.start + have, more) \subseteq Sector
      <3>1. g = in_place_alloc(bits, e, more)
        BY <1>4, <2>3
      <3>2. /\ g.res \in {"ok", "err", "panic"}
            /\ g.res = "ok" => g.bits = bits \cup Run(e, more) /\ Run(e, more) \cap bits = {} /\ Run(e, more) \subseteq Sector
        BY <3>1, <2>1, <2>2, <2>31, InPlaceGrows
      <3> QED
        BY <3>2, <2>3
    <2>5. CASE g.res = "ok"
      <3>1. resize_inner(i, n) = Outcome("ok", j, g.bits, Flushed(disk, j))
        BY <1>1, <1>6, <1>9, <2>5
      <3>2. Resized(i, Outcome("ok", j, g.bits, Flushed(disk, j))) /\ j.len = n
        <4>1. PICK w : w = Run(i.start + have, bytes_to_sectors(n) - have)
          OBVIOUS
        <4>2. g.bits = bits \cup w /\ w \cap bits = {} /\ w \subseteq Sector
          BY <1>3, <2>4, <2>5, <4>1
        <4>3. n > i.len + i.shrink
          BY <1>9
        <4>4. PICK b : b = g.bits
          OBVIOUS
        <4>5. b = bits \cup w /\ w \cap bits = {} /\ w \subseteq Sector
          BY <4>2, <4>4
        <4>6. Grown(i, n, have, w, b, j)
          BY <1>2, <1>5, <4>1, <4>3, <4>5, Zenon DEF Grown
        <4>7. Resized(i, Outcome("ok", j, b, Flushed(disk, j))) /\ j.len = n
          BY <4>6, GrownIsResized
        <4> QED
          BY <4>4, <4>7
      <3> QED
        BY <3>1, <3>2 DEF Outcome
    <2>6. CASE g.res = "err"
      <3>1. resize_inner(i, n) = ResizeMove(i, n)
        BY <1>1, <1>6, <1>9, <2>6
      <3> QED
        BY <3>1, <1>9, MoveIsResized
    <2>7. CASE g.res = "panic"
      <3>1. resize_inner(i, n) = Outcome("panic", i, bits, disk)
        BY <1>1, <1>6, <1>9, <2>7
      <3>2. Resized(i, Outcome("panic", i, bits, disk))
        BY KeptIsResized
      <3> QED
        BY <3>1, <3>2 DEF Outcome
    <2> QED
      BY <2>4, <2>5, <2>6, <2>7
  <1> QED
    BY <1>1, <1>7, <1>8, <1>9

LEMMA OpenIsResizable ==
    ASSUME FsTypes, InodesSound, SectorsOwned, NEW o, o \in Live, inodes[o].refs > 0
    PROVE  Resizable(inodes[o])
  <1>1. PICK use, own : Owners(use, own)
    BY DEF SectorsOwned
  <1>2. o \in InodeId /\ inodes[o] \in Inode /\ inodes[o].sector \in Sector
    BY LiveTyped
  <1>3. Serving(o)
    BY DEF Serving
  <1>4. inodes[o].sector \in alive /\ disk[inodes[o].sector] = [start |-> inodes[o].start, len |-> inodes[o].len]
    BY <1>2, <1>3 DEF InodesSound
  <1>5. use[inodes[o].sector] = "inode" /\ inodes[o].sector \in bits
    BY <1>1, <1>2, <1>4, DiskSizeAssumption DEF Owners, Sector
  <1>6. \A s \in Area(inodes[o]) : use[s] = "data"
    BY <1>1, <1>2 DEF Owners, OwnedBy, Area, Occupied
  <1>7. Area(inodes[o]) \subseteq bits
    BY <1>1, <1>2, <1>6, AreaNat DEF Owners
  <1> QED
    BY <1>2, <1>4, <1>5, <1>6, <1>7 DEF Resizable

-----------------------------------------------------------------------------
LEMMA PendingKept ==
    ASSUME ClosersSound, NEW p \in Proc, NEW l, NEW a, NEW f, Moved(p, l, a, f),
           l \notin {"close", "c_inode"}, ClosedKept(p)
    PROVE  \A q \in Proc : \A s \in Pending(q)' : s \in Pending(q)
  <1> SUFFICES ASSUME NEW q \in Proc, NEW s \in Pending(q)'
               PROVE  s \in Pending(q)
    OBVIOUS
  <1>1. CASE q = p
    BY <1>1 DEF Pending, Moved
  <1>2. CASE q # p
    <2>1. pc'[q] = pc[q] /\ arg'[q] = arg[q]
      BY <1>2 DEF Moved
    <2>2. pc[q] = "close" => inodes'[arg[q].ino] = inodes[arg[q].ino]
      BY <1>2 DEF ClosedKept, Closing
    <2> QED
      BY <2>1, <2>2 DEF Pending
  <1> QED
    BY <1>1, <1>2

(* A step of a call that leaves the map, the disk and the Inodes alone.    *)
LEMMA CallSound ==
    ASSUME Sound, NEW p \in Proc, NEW l, NEW a, NEW f, Moved(p, l, a, f),
           UNCHANGED <<bits, disk, inodes, alive>>, Balanced(p, l, a, f),
           dir' \in [1..DirSize -> [name : Name \cup {Nobody}, inum : Sector]], Named',
           table' \in [Sector -> InodeId \cup {Nobody}], TableSound',
           l \notin {"close", "erase", "c_inode", "c_insert", "o_insert"},
           f # Nobody => f \in Live, l \in Holding => a.ino \in Live,
           l \in Fileless => f = Nobody
    PROVE  Sound'
  <1>1. /\ FsTypes /\ TableSound /\ HoldersSound /\ RefsExact /\ ClosersSound
        /\ InodesSound /\ SectorsOwned
    BY DEF Sound
  <1>2. Live' = Live
    BY DEF Live
  <1>3. FsTypes'
    BY <1>1 DEF FsTypes, Moved
  <1>4. InodesKept /\ ClosedKept(p)
    BY <1>2 DEF InodesKept, ClosedKept
  <1>5. RefsExact'
    BY <1>1, RefsKept
  <1>6. HoldersSound'
    BY <1>1, <1>2, <1>4, HoldersKept
  <1>7. ClosersSound'
    BY <1>1, <1>4, ClosersKept
  <1>8. InodesSound'
    BY <1>1, <1>2 DEF InodesSound, Serving
  <1>9. \A q \in Proc : \A s \in Pending(q)' : s \in Pending(q)
    BY <1>1, <1>4, PendingKept
  <1>10. PICK use, own : Owners(use, own)
    BY <1>1 DEF SectorsOwned
  <1>11. Owners(use, own)'
    BY <1>2, <1>9, <1>10 DEF Owners, OwnedBy, Stored, Occupied
  <1>12. SectorsOwned'
    BY <1>11 DEF SectorsOwned
  <1> QED
    BY <1>3, <1>5, <1>6, <1>7, <1>8, <1>12 DEF Sound

(* A step of a call that counts an open Inode or resizes it.               *)
LEMMA RewriteSound ==
    ASSUME Sound, NEW p \in Proc, NEW l, NEW a, NEW f, Moved(p, l, a, f),
           NEW o \in InodeId, o \in Live, inodes[o].refs > 0,
           NEW j, j.refs > 0, Rewritten(inodes[o], j, bits', disk'),
           inodes' = [inodes EXCEPT ![o] = j], alive' = alive, table' = table, dir' = dir,
           Balanced(p, l, a, f),
           l \notin {"close", "erase", "c_inode", "c_insert", "o_insert"},
           f # Nobody => f \in Live, l \in Holding => a.ino \in Live,
           l \in Fileless => f = Nobody
    PROVE  Sound'
  <1>1. /\ FsTypes /\ TableSound /\ HoldersSound /\ RefsExact /\ ClosersSound
        /\ InodesSound /\ SectorsOwned /\ Named
    BY DEF Sound
  <1>2. \A r \in InodeId : inodes'[r] = IF r = o THEN j ELSE inodes[r]
    BY <1>1 DEF FsTypes
  <1>3. j \in Inode /\ j.sector = inodes[o].sector /\ j # Nobody
    BY NothingAssumption DEF Rewritten
  <1>4. Live' = Live
    BY <1>2, <1>3 DEF Live
  <1>5. \A r \in InodeId : r \in Live /\ inodes[r].refs > 0 =>
           r \in Live' /\ inodes'[r].sector = inodes[r].sector /\ inodes'[r].refs > 0
    BY <1>2, <1>3, <1>4
  <1>6. InodesKept
    BY <1>5 DEF InodesKept
  <1>7. ClosedKept(p)
    <2>1. \A q \in Proc : Closing(q) => arg[q].ino \in Live /\ inodes[arg[q].ino].refs = 0
      BY <1>1 DEF ClosersSound
    <2>2. \A q \in Proc : Closing(q) => arg[q].ino \in InodeId /\ arg[q].ino # o
      BY <2>1 DEF Live
    <2> QED
      BY <1>2, <2>2 DEF ClosedKept
  <1>8. \A q \in Proc : \A s \in Pending(q)' : s \in Pending(q)
    BY <1>1, <1>7, PendingKept
  <1>9. InodesSound' /\ SectorsOwned' /\ Reserved \subseteq bits'
    BY <1>1, <1>8, RewriteKeeps
  <1>10. bits' \in SUBSET Sector /\ disk' \in [Sector -> {Data} \cup DiskInode]
    BY DEF Rewritten
  <1>11. inodes' \in [InodeId -> {Nobody} \cup Inode]
    BY <1>1, <1>3 DEF FsTypes
  <1>12. FsTypes'
    BY <1>1, <1>9, <1>10, <1>11 DEF FsTypes, Moved, Reserved
  <1>13. RefsExact'
    BY <1>1, RefsKept
  <1>14. HoldersSound'
    BY <1>1, <1>4, <1>6, HoldersKept
  <1>15. ClosersSound'
    BY <1>1, <1>7, ClosersKept
  <1>16. TableSound'
    BY <1>1, <1>5, TableKept
  <1>17. Named'
    BY <1>1 DEF Named
  <1> QED
    BY <1>9, <1>12, <1>13, <1>14, <1>15, <1>16, <1>17 DEF Sound

Enters(n, j) == n \in InodeId /\ n \notin Live /\ j \in Inode /\ inodes' = [inodes EXCEPT ![n] = j]

(* Inode n is new: what is true of the others stays.                       *)
LEMMA NewKeeps ==
    ASSUME FsTypes, HoldersSound, ClosersSound, NEW n, NEW j, Enters(n, j), NEW p \in Proc
    PROVE  /\ \A r \in InodeId : inodes'[r] = IF r = n THEN j ELSE inodes[r]
           /\ \A r \in InodeId : (r \in Live' <=> r \in Live \/ r = n)
           /\ inodes' \in [InodeId -> {Nobody} \cup Inode]
           /\ InodesKept /\ ClosedKept(p)
           /\ files[p] # n
  <1> USE DEF Enters
  <1>1. \A r \in InodeId : inodes'[r] = IF r = n THEN j ELSE inodes[r]
    BY DEF FsTypes
  <1>2. j # Nobody /\ n # Nobody
    BY NothingAssumption
  <1>3. \A r \in InodeId : (r \in Live' <=> r \in Live \/ r = n)
    BY <1>1, <1>2 DEF Live
  <1>4. inodes' \in [InodeId -> {Nobody} \cup Inode]
    BY DEF FsTypes
  <1>5. InodesKept
    BY <1>1, <1>3 DEF InodesKept
  <1>6. ClosedKept(p)
    <2>1. \A q \in Proc : Closing(q) => arg[q].ino \in Live
      BY DEF ClosersSound
    <2>2. \A q \in Proc : Closing(q) => arg[q].ino \in InodeId /\ arg[q].ino # n
      BY <2>1 DEF Live
    <2> QED
      BY <1>1, <2>2 DEF ClosedKept
  <1>7. files[p] # n
    BY <1>2 DEF HoldersSound
  <1> QED
    BY <1>1, <1>3, <1>4, <1>5, <1>6, <1>7

(* The Arc of a new Inode is its only one.                                 *)
LEMMA NewBalanced ==
    ASSUME FsTypes, HoldersSound, ClosersSound, NEW n \in InodeId, n \notin Live,
           NEW j \in Inode, j.refs = 1, inodes' = [inodes EXCEPT ![n] = j],
           NEW p \in Proc, ~Held(p), NEW l, l \in Holding, NEW a, a.ino = n,
           NEW f, f = files[p]
    PROVE  Balanced(p, l, a, f)
  <1>1. /\ \A r \in InodeId : inodes'[r] = IF r = n THEN j ELSE inodes[r]
        /\ \A r \in InodeId : (r \in Live' <=> r \in Live \/ r = n)
        /\ files[p] # n
    <2>1. Enters(n, j)
      BY DEF Enters
    <2> QED
      BY <2>1, NewKeeps
  <1> SUFFICES ASSUME NEW r \in InodeId, r \in Live'
               PROVE  inodes'[r].refs = (IF r \in Live THEN inodes[r].refs ELSE 0)
                            - One(files[p] = r) - One(Held(p) /\ arg[p].ino = r)
                            + One(f = r) + One(l \in Holding /\ a.ino = r)
    BY DEF Balanced
  <1>2. One(Held(p) /\ arg[p].ino = r) = 0
    BY DEF One
  <1>3. CASE r = n
    <2>1. One(files[p] = r) = 0 /\ One(f = r) = 0 /\ One(l \in Holding /\ a.ino = r) = 1
      BY <1>1, <1>3 DEF One
    <2> QED
      BY <1>1, <1>2, <1>3, <2>1
  <1>4. CASE r # n
    <2>1. One(files[p] = r) = One(f = r) /\ One(f = r) \in Nat /\ One(l \in Holding /\ a.ino = r) = 0
      BY <1>4 DEF One
    <2>2. r \in Live /\ inodes'[r] = inodes[r] /\ inodes[r].refs \in Nat
      BY <1>1, <1>4, LiveTyped
    <2> QED
      BY <1>2, <2>1, <2>2
  <1> QED
    BY <1>3, <1>4

(* Inode::open of a file that has no Inode in memory.                      *)
Reopened(p, l, a, f, n, inum, j) ==
    /\ Moved(p, l, a, f) /\ f = files[p] /\ ~Held(p)
    /\ l \in {"c_trunc", "o_insert", "drop"} /\ (l # "drop" => f = Nobody)
    /\ n \in InodeId /\ n \notin Live /\ a.ino = n
    /\ inum \in Sector /\ ~Stale(inum) /\ a.inum = inum
    /\ j \in Inode /\ j.sector = inum /\ j.start = disk[inum].start /\ j.len = disk[inum].len
    /\ j.shrink = 0 /\ j.refs = 1 /\ inodes' = [inodes EXCEPT ![n] = j]
    /\ UNCHANGED <<bits, disk, dir, table, alive>>

LEMMA OpenedSound ==
    ASSUME Sound, NEW p \in Proc, NEW l, NEW a, NEW f, NEW n, NEW inum, NEW j,
           Reopened(p, l, a, f, n, inum, j)
    PROVE  Sound'
  <1>0. /\ Moved(p, l, a, f) /\ f = files[p] /\ ~Held(p)
        /\ l \in {"c_trunc", "o_insert", "drop"} /\ (l # "drop" => f = Nobody)
        /\ n \in InodeId /\ n \notin Live /\ a.ino = n
        /\ inum \in Sector /\ ~Stale(inum) /\ a.inum = inum
        /\ j \in Inode /\ j.sector = inum /\ j.start = disk[inum].start /\ j.len = disk[inum].len
        /\ j.shrink = 0 /\ j.refs = 1 /\ inodes' = [inodes EXCEPT ![n] = j]
        /\ UNCHANGED <<bits, disk, dir, table, alive>>
    BY DEF Reopened
  <1> USE <1>0
  <1>1. /\ FsTypes /\ TableSound /\ HoldersSound /\ RefsExact /\ ClosersSound
        /\ InodesSound /\ SectorsOwned /\ Named
    BY DEF Sound
  <1>2. /\ \A r \in InodeId : inodes'[r] = IF r = n THEN j ELSE inodes[r]
        /\ \A r \in InodeId : (r \in Live' <=> r \in Live \/ r = n)
        /\ inodes' \in [InodeId -> {Nobody} \cup Inode]
        /\ InodesKept /\ ClosedKept(p)
    <2>1. Enters(n, j)
      BY DEF Enters
    <2> QED
      BY <1>1, <2>1, NewKeeps
  <1>3. l \in Holding /\ l \notin {"close", "erase", "c_inode", "c_insert"}
    BY DEF Holding
  <1>4. FsTypes'
    BY <1>1, <1>2 DEF FsTypes, Moved
  <1>5. Balanced(p, l, a, f)
    BY <1>1, <1>3, NewBalanced
  <1>6. RefsExact'
    BY <1>1, <1>5, RefsKept
  <1>7. HoldersSound'
    <2>1. f # Nobody => f \in Live'
      BY <1>1, <1>2 DEF HoldersSound, Live
    <2>2. a.ino \in Live' /\ inodes'[a.ino].sector = a.inum
      BY <1>2
    <2>3. l \in Fileless => f = Nobody
      BY DEF Fileless
    <2> QED
      BY <1>1, <1>2, <2>1, <2>2, <2>3, HoldersKept
  <1>8. ClosersSound'
    BY <1>1, <1>2, <1>3, ClosersKept
  <1>9. TableSound'
    BY <1>1, <1>2, TableKept
  <1>10. Named'
    BY <1>1 DEF Named
  <1>11. inum \in alive /\ \A r \in InodeId : Serving(r) => inodes[r].sector # inum
    BY DEF Stale, OpenInodes, Serving
  <1>12. disk[inum] = [start |-> j.start, len |-> j.len]
    BY <1>1, <1>11 DEF FsTypes, InodesSound, DiskInode
  <1>13. \A r \in InodeId : r # n => (Serving(r)' <=> Serving(r)) /\ inodes'[r] = inodes[r]
    BY <1>2 DEF Serving
  <1>14. InodesSound'
    <2>1. ASSUME NEW r \in InodeId, Serving(r)'
          PROVE  /\ inodes'[r].sector \in alive'
                 /\ disk'[inodes'[r].sector] = [start |-> inodes'[r].start, len |-> inodes'[r].len]
      <3>1. CASE r = n
        BY <3>1, <1>2, <1>11, <1>12
      <3>2. CASE r # n
        BY <2>1, <3>2, <1>1, <1>13 DEF InodesSound
      <3> QED
        BY <3>1, <3>2
    <2>2. ASSUME NEW r \in InodeId, NEW t \in InodeId, Serving(r)', Serving(t)',
                 inodes'[r].sector = inodes'[t].sector
          PROVE  r = t
      <3>1. CASE r = n \/ t = n
        BY <2>2, <3>1, <1>2, <1>11, <1>13
      <3>2. CASE r # n /\ t # n
        BY <2>2, <3>2, <1>1, <1>13 DEF InodesSound
      <3> QED
        BY <3>1, <3>2
    <2>3. \A k \in alive' : disk'[k] # Data
      BY <1>1 DEF InodesSound
    <2> QED
      BY <2>1, <2>2, <2>3 DEF InodesSound
  <1>15. \A q \in Proc : \A s \in Pending(q)' : s \in Pending(q)
    BY <1>1, <1>2, <1>3, PendingKept
  <1>16. PICK use, own : Owners(use, own)
    BY <1>1 DEF SectorsOwned
  <1>17. Occupied(n)' = Stored(inum)
    <2>1. inodes'[n] = j /\ j.len + j.shrink = j.len
      BY <1>2 DEF Inode
    <2> QED
      BY <2>1, <1>12 DEF Occupied, Stored
  <1>18. ASSUME NEW r \in InodeId, r \in Live', inodes'[r].refs > 0
         PROVE  OwnedBy(Occupied(r)', use, own, "data", inodes'[r].sector)
    <2>1. CASE r = n
      BY <2>1, <1>2, <1>11, <1>16, <1>17 DEF Owners
    <2>2. CASE r # n
      <3>1. r \in Live /\ inodes'[r] = inodes[r] /\ Occupied(r)' = Occupied(r)
        BY <2>2, <1>2, <1>18 DEF Occupied
      <3> QED
        BY <3>1, <1>16, <1>18 DEF Owners
    <2> QED
      BY <2>1, <2>2
  <1>19. \A k \in alive' : OwnedBy(Stored(k)', use, own, "data", k)
    BY <1>16 DEF Owners, Stored
  <1>20. \A q \in Proc : OwnedBy(Pending(q)', use, own, "call", q)
    BY <1>15, <1>16 DEF Owners, OwnedBy
  <1>21. Owners(use, own)'
    BY <1>16, <1>18, <1>19, <1>20 DEF Owners, OwnedBy
  <1> QED
    BY <1>4, <1>6, <1>7, <1>8, <1>9, <1>10, <1>14, <1>21 DEF Sound, SectorsOwned

-----------------------------------------------------------------------------
(* A lookup finds an entry of the directory.                               *)
LEMMA LookupTyped ==
    ASSUME FsTypes, NEW n, Matches(n) # {}
    PROVE  Min(Matches(n)) \in 1..DirSize /\ dir[Min(Matches(n))].name = n /\ path2inum(n) \in Sector
  <1>1. Matches(n) \subseteq 1..DirSize
    BY DEF Matches, FsTypes
  <1>2. Matches(n) \subseteq Nat
    BY <1>1, DiskFsAssumption
  <1>3. Min(Matches(n)) \in Matches(n)
    BY <1>2, MinIsMember
  <1> QED
    BY <1>1, <1>3 DEF Matches, path2inum, FsTypes

LEMMA RoomForNew ==
    ASSUME Room
    PROVE  NewInode \in InodeId /\ NewInode \notin Live
  <1>1. InodeId \ Live \subseteq Nat
    BY DiskFsAssumption DEF InodeId
  <1>2. NewInode \in InodeId \ Live
    BY <1>1, MinIsMember DEF Room, NewInode
  <1> QED
    BY <1>2

(* A step that neither gets nor gives up an Arc.                           *)
LEMMA PlainSound ==
    ASSUME Sound, NEW p \in Proc, NEW l \in Label, NEW a \in Arg, Goto(p, l, a),
           UNCHANGED <<bits, disk, memVars, alive>>,
           dir' \in [1..DirSize -> [name : Name \cup {Nobody}, inum : Sector]], Named',
           l \notin {"close", "erase", "c_inode", "c_insert", "o_insert"},
           \/ ~Held(p) /\ l \notin Holding
           \/ Held(p) /\ l = "drop" /\ a.ino = arg[p].ino,
           l \in Fileless => files[p] = Nobody
    PROVE  Sound'
  <1>1. FsTypes /\ HoldersSound /\ TableSound
    BY DEF Sound
  <1>2. /\ files' = files /\ inodes' = inodes /\ table' = table
        /\ UNCHANGED <<bits, disk, inodes, alive>>
    BY DEF memVars
  <1>3. PICK f : f = files[p]
    OBVIOUS
  <1>4. Moved(p, l, a, f)
    BY <1>1, <1>2, <1>3, GotoKeepsFile
  <1>5. Live' = Live
    BY <1>2 DEF Live
  <1>6. l = "drop" => l \in Holding
    BY DEF Holding
  <1>7. \A r : One(Held(p) /\ arg[p].ino = r) = One(l \in Holding /\ a.ino = r)
    BY <1>6 DEF One
  <1>8. \A r : One(files[p] = r) = One(f = r) /\ One(f = r) \in Nat /\ One(l \in Holding /\ a.ino = r) \in Nat
    BY <1>3 DEF One
  <1>9. \A r \in InodeId : r \in Live => inodes[r].refs \in Nat
    BY <1>1, LiveTyped
  <1>10. Balanced(p, l, a, f)
    <2> SUFFICES ASSUME NEW r \in InodeId, r \in Live'
                 PROVE  inodes'[r].refs = (IF r \in Live THEN inodes[r].refs ELSE 0)
                              - One(files[p] = r) - One(Held(p) /\ arg[p].ino = r)
                              + One(f = r) + One(l \in Holding /\ a.ino = r)
      BY DEF Balanced
    <2>1. r \in Live /\ inodes'[r] = inodes[r] /\ inodes[r].refs \in Nat
      BY <1>2, <1>5, <1>9
    <2>2. /\ One(Held(p) /\ arg[p].ino = r) = One(l \in Holding /\ a.ino = r)
          /\ One(files[p] = r) = One(f = r) /\ One(f = r) \in Nat
          /\ One(l \in Holding /\ a.ino = r) \in Nat
      BY <1>7, <1>8
    <2> HIDE DEF One
    <2> QED
      BY <2>1, <2>2
  <1>11. TableSound' /\ table' \in [Sector -> InodeId \cup {Nobody}]
    BY <1>1, <1>2, <1>5 DEF TableSound, FsTypes
  <1>12. f # Nobody => f \in Live
    BY <1>1, <1>3 DEF HoldersSound
  <1>13. l \in Holding => a.ino \in Live
    BY <1>1, <1>6 DEF HoldersSound
  <1>14. l \in Fileless => f = Nobody
    BY <1>3
  <1> QED
    BY <1>2, <1>4, <1>10, <1>11, <1>12, <1>13, <1>14, CallSound

LEMMA NamedKept ==
    ASSUME Sound, dir' = dir, alive' = alive
    PROVE  /\ dir' \in [1..DirSize -> [name : Name \cup {Nobody}, inum : Sector]]
           /\ Named'
  BY DEF Sound, Named, FsTypes

LEMMA NoCallTyped == NoCall \in Arg
  <1>1. 0 \in Sector
    BY DiskFsAssumption, DiskSizeAssumption DEF Sector
  <1> QED
    BY <1>1 DEF NoCall, Arg

LEMMA CreateLookKeeps ==
    ASSUME Sound, NEW p \in Proc, NEW n \in Name, CreateLook(p, n)
    PROVE  Sound'
  <1>1. PICK l : l = IF Matches(n) # {} THEN "c_find" ELSE "c_alloc"
    OBVIOUS
  <1>2. PICK a : a = [NoCall EXCEPT !.name = n]
    OBVIOUS
  <1>3. a \in Arg
    BY <1>2, NoCallTyped DEF Arg
  <1>4. Goto(p, l, a) /\ UNCHANGED <<bits, disk, memVars, alive>> /\ dir' = dir /\ alive' = alive
    BY <1>1, <1>2 DEF CreateLook, diskVars
  <1>5. l \in Label /\ l \in {"c_find", "c_alloc"}
    BY <1>1 DEF Label, Fileless
  <1>6. ~Held(p) /\ files[p] = Nobody
    BY DEF CreateLook, Begin, At, Held, Holding
  <1>7. l \notin Holding /\ l \notin {"close", "erase", "c_inode", "c_insert", "o_insert"}
    BY <1>5 DEF Holding
  <1> QED
    BY <1>3, <1>4, <1>5, <1>6, <1>7, NamedKept, PlainSound

LEMMA OpenLookKeeps ==
    ASSUME Sound, NEW p \in Proc, NEW n \in Name, OpenLook(p, n)
    PROVE  Sound'
  <1>1. PICK a : a = [NoCall EXCEPT !.name = n]
    OBVIOUS
  <1>2. a \in Arg
    BY <1>1, NoCallTyped DEF Arg
  <1>3. Goto(p, "o_find", a) /\ UNCHANGED <<bits, disk, memVars, alive>> /\ dir' = dir /\ alive' = alive
    BY <1>1 DEF OpenLook, diskVars
  <1>4. ~Held(p) /\ files[p] = Nobody
    BY DEF OpenLook, Begin, At, Held, Holding
  <1>5. "o_find" \notin Holding
    BY DEF Holding
  <1>6. PICK l : l = "o_find"
    OBVIOUS
  <1>7. l \in Label
    BY <1>6 DEF Label, Fileless
  <1> QED
    BY <1>2, <1>3, <1>4, <1>5, <1>6, <1>7, NamedKept, PlainSound

LEMMA RemoveFindKeeps ==
    ASSUME Sound, NEW p \in Proc, NEW n \in Name, RemoveFind(p, n)
    PROVE  Sound'
  <1>1. PICK a : a = [NoCall EXCEPT !.inum = path2inum(n)]
    OBVIOUS
  <1>2. path2inum(n) \in Sector
    BY LookupTyped DEF RemoveFind, Sound
  <1>3. a \in Arg
    BY <1>1, <1>2, NoCallTyped DEF Arg
  <1>4. Goto(p, "r_entry", a) /\ UNCHANGED <<bits, disk, memVars, alive>> /\ dir' = dir /\ alive' = alive
    BY <1>1 DEF RemoveFind, diskVars
  <1>5. ~Held(p)
    BY DEF RemoveFind, Begin, At, Held, Holding
  <1>6. "r_entry" \notin Holding /\ "r_entry" \notin Fileless
    BY DEF Holding, Fileless
  <1>7. PICK l : l = "r_entry"
    OBVIOUS
  <1>8. l \in Label
    BY <1>7 DEF Label
  <1> QED
    BY <1>3, <1>4, <1>5, <1>6, <1>7, <1>8, NamedKept, PlainSound

LEMMA UnmovedSound ==
    ASSUME Sound, UNCHANGED <<diskVars, memVars, callVars, alive>>
    PROVE  Sound'
  <1>1. /\ bits' = bits /\ disk' = disk /\ dir' = dir /\ inodes' = inodes /\ table' = table
        /\ files' = files /\ pc' = pc /\ arg' = arg /\ alive' = alive
    BY DEF diskVars, memVars, callVars
  <1>2. FsTypes'
    BY <1>1 DEF Sound, FsTypes
  <1>3. TableSound' /\ HoldersSound' /\ ClosersSound' /\ Named'
    BY <1>1 DEF Sound, TableSound, HoldersSound, ClosersSound, Named, Live, Held, Closing
  <1>4. RefsExact' = RefsExact
    BY <1>1 DEF RefsExact, FileOf, HeldBy, Live, Held
  <1>5. InodesSound'
    BY <1>1 DEF Sound, InodesSound, Serving, Live
  <1>6. PICK use, own : Owners(use, own)
    BY DEF Sound, SectorsOwned
  <1>7. Owners(use, own)'
    BY <1>1, <1>6 DEF Owners, OwnedBy, Stored, Occupied, Pending, Live
  <1> QED
    BY <1>2, <1>3, <1>4, <1>5, <1>7 DEF Sound, SectorsOwned

LEMMA FindKeeps ==
    ASSUME Sound, NEW p \in Proc,
           \/ Find(p, "c_find", "c_get")
           \/ Find(p, "o_find", "o_get")
    PROVE  Sound'
  <1>1. /\ UNCHANGED <<bits, disk, memVars, alive>> /\ dir' = dir /\ alive' = alive
        /\ UNCHANGED <<diskVars, memVars>>
    BY DEF Find, diskVars
  <1>2. CASE Matches(arg[p].name) = {}
    <2>1. UNCHANGED callVars
      BY <1>2 DEF Find
    <2> QED
      BY <1>1, <2>1, UnmovedSound
  <1>3. CASE Matches(arg[p].name) # {}
    <2>1. PICK a : a = [arg[p] EXCEPT !.inum = path2inum(arg[p].name)]
      OBVIOUS
    <2>2. path2inum(arg[p].name) \in Sector
      BY <1>3, LookupTyped DEF Sound
    <2>3. a \in Arg
      BY <2>1, <2>2 DEF Sound, FsTypes, Arg
    <2>4. pc[p] \in {"c_find", "o_find"} /\ (Goto(p, "c_get", a) \/ Goto(p, "o_get", a))
      BY <1>3, <2>1 DEF Find, At
    <2>5. PICK l \in {"c_get", "o_get"} : Goto(p, l, a)
      BY <2>4
    <2>6. /\ l \in Label /\ l \notin Holding
          /\ l \notin {"close", "erase", "c_inode", "c_insert", "o_insert"}
      BY <2>5 DEF Label, Holding, Fileless
    <2>7. ~Held(p) /\ files[p] = Nobody
      BY <2>4 DEF Held, Holding, Sound, HoldersSound, Fileless
    <2> QED
      BY <1>1, <2>3, <2>5, <2>6, <2>7, NamedKept, PlainSound
  <1> QED
    BY <1>2, <1>3

(* The Arcs of one Inode only are counted.                                 *)
LEMMA OneBalanced ==
    ASSUME FsTypes, NEW p \in Proc, NEW l, NEW a, NEW f, NEW o \in InodeId, o \in Live, NEW j,
           Live' = Live, \A r \in InodeId : inodes'[r] = IF r = o THEN j ELSE inodes[r],
           j.refs = inodes[o].refs - One(files[p] = o) - One(Held(p) /\ arg[p].ino = o)
                                   + One(f = o) + One(l \in Holding /\ a.ino = o),
           \A r \in InodeId : r # o =>
              /\ files[p] = r <=> f = r
              /\ Held(p) /\ arg[p].ino = r <=> l \in Holding /\ a.ino = r
    PROVE  Balanced(p, l, a, f)
  <1> SUFFICES ASSUME NEW r \in InodeId, r \in Live'
               PROVE  inodes'[r].refs = (IF r \in Live THEN inodes[r].refs ELSE 0)
                            - One(files[p] = r) - One(Held(p) /\ arg[p].ino = r)
                            + One(f = r) + One(l \in Holding /\ a.ino = r)
    BY DEF Balanced
  <1>1. CASE r = o
    BY <1>1
  <1>2. CASE r # o
    <2>1. r \in Live /\ inodes'[r] = inodes[r] /\ inodes[r].refs \in Nat
      BY <1>2, LiveTyped
    <2>2. /\ One(Held(p) /\ arg[p].ino = r) = One(l \in Holding /\ a.ino = r)
          /\ One(files[p] = r) = One(f = r) /\ One(f = r) \in Nat
          /\ One(l \in Holding /\ a.ino = r) \in Nat
      BY <1>2 DEF One
    <2> QED
      BY <2>1, <2>2
  <1> QED
    BY <1>1, <1>2

(* Only the count of an Inode changes, or that it is removed.              *)
LEMMA CountedIsRewritten ==
    ASSUME FsTypes, InodesSound, SectorsOwned, NEW o, o \in Live, inodes[o].refs > 0,
           NEW j \in Inode, j.sector = inodes[o].sector, j.start = inodes[o].start,
           j.len = inodes[o].len, j.shrink = inodes[o].shrink,
           bits' = bits, disk' = disk
    PROVE  Rewritten(inodes[o], j, bits', disk')
  <1>1. Resizable(inodes[o])
    BY OpenIsResizable
  <1>2. Area(j) = Area(inodes[o])
    BY DEF Area
  <1> QED
    BY <1>1, <1>2 DEF Rewritten, Resizable, FsTypes

(* A thread gets another Arc of an open Inode: of its own, or of its File. *)
Taken(p, l, a, f, o, j) ==
    /\ Moved(p, l, a, f) /\ ~Held(p) /\ o \in Live /\ inodes[o].refs > 0
    /\ j \in Inode /\ j.sector = inodes[o].sector /\ j.start = inodes[o].start
    /\ j.len = inodes[o].len /\ j.shrink = inodes[o].shrink /\ j.refs = inodes[o].refs + 1
    /\ inodes' = [inodes EXCEPT ![o] = j]
    /\ UNCHANGED <<bits, disk, dir, table, alive>>
    /\ \/ l \in {"c_trunc", "drop"} /\ a.ino = o /\ f = files[p]
       \/ l = "run" /\ files[p] = Nobody /\ f = o
    /\ l = "c_trunc" => f = Nobody

LEMMA TakenSound ==
    ASSUME Sound, NEW p \in Proc, NEW l, NEW a, NEW f, NEW o, NEW j, Taken(p, l, a, f, o, j)
    PROVE  Sound'
  <1>0. /\ Moved(p, l, a, f) /\ ~Held(p) /\ o \in Live /\ inodes[o].refs > 0
        /\ j \in Inode /\ j.sector = inodes[o].sector /\ j.start = inodes[o].start
        /\ j.len = inodes[o].len /\ j.shrink = inodes[o].shrink /\ j.refs = inodes[o].refs + 1
        /\ inodes' = [inodes EXCEPT ![o] = j]
        /\ UNCHANGED <<bits, disk, dir, table, alive>>
        /\ \/ l \in {"c_trunc", "drop"} /\ a.ino = o /\ f = files[p]
           \/ l = "run" /\ files[p] = Nobody /\ f = o
        /\ l = "c_trunc" => f = Nobody
    BY DEF Taken
  <1> USE <1>0
  <1>1. FsTypes /\ InodesSound /\ SectorsOwned /\ HoldersSound
    BY DEF Sound
  <1>2. o \in InodeId /\ o # Nobody /\ inodes[o].refs \in Nat
    BY <1>1, LiveTyped, NothingAssumption
  <1>3. Rewritten(inodes[o], j, bits', disk')
    BY <1>1, CountedIsRewritten
  <1>4. \A r \in InodeId : inodes'[r] = IF r = o THEN j ELSE inodes[r]
    BY <1>1 DEF FsTypes
  <1>5. j # Nobody
    BY NothingAssumption
  <1>6. Live' = Live
    BY <1>4, <1>5 DEF Live
  <1>7. l \notin {"close", "erase", "c_inode", "c_insert", "o_insert"}
    OBVIOUS
  <1>8. /\ l \in Holding <=> l # "run"
        /\ l \in Fileless => l = "c_trunc"
    BY DEF Holding, Fileless
  <1>9. j.refs = inodes[o].refs - One(files[p] = o) - One(Held(p) /\ arg[p].ino = o)
                                   + One(f = o) + One(l \in Holding /\ a.ino = o)
    <2>1. One(Held(p) /\ arg[p].ino = o) = 0
      BY DEF One
    <2>2. CASE l = "run"
      <3>1. One(files[p] = o) = 0 /\ One(f = o) = 1 /\ One(l \in Holding /\ a.ino = o) = 0
        BY <1>2, <1>8, <2>2 DEF One
      <3> QED
        BY <1>2, <2>1, <3>1
    <2>3. CASE l # "run"
      <3>1. One(files[p] = o) = One(f = o) /\ One(f = o) \in Nat /\ One(l \in Holding /\ a.ino = o) = 1
        BY <1>8, <2>3 DEF One
      <3> QED
        BY <1>2, <2>1, <3>1
    <2> QED
      BY <2>2, <2>3
  <1>10. \A r \in InodeId : r # o =>
              /\ files[p] = r <=> f = r
              /\ Held(p) /\ arg[p].ino = r <=> l \in Holding /\ a.ino = r
    BY <1>8, NothingAssumption
  <1>11. Balanced(p, l, a, f)
    BY <1>1, <1>2, <1>4, <1>6, <1>9, <1>10, OneBalanced
  <1>12. f # Nobody => f \in Live
    BY <1>1 DEF HoldersSound
  <1>13. l \in Holding => a.ino \in Live
    BY <1>8
  <1>14. j.refs > 0
    BY <1>2
  <1> QED
    BY <1>2, <1>3, <1>7, <1>8, <1>11, <1>12, <1>13, <1>14, RewriteSound

-----------------------------------------------------------------------------
(* The Inode that the table has.                                           *)
LEMMA TableGives ==
    ASSUME Sound, NEW s \in Sector, table[s] # Nobody
    PROVE  table[s] \in Live /\ inodes[table[s]].refs > 0 /\ inodes[table[s]].sector = s
  BY DEF Sound, TableSound

(* One more reference.                                                     *)
LEMMA CountedUp ==
    ASSUME FsTypes, NEW o, o \in Live, NEW rm \in BOOLEAN
    PROVE  \E j \in Inode :
              /\ j = [[inodes[o] EXCEPT !.refs = inodes[o].refs + 1] EXCEPT !.removed = rm]
              /\ j.sector = inodes[o].sector /\ j.start = inodes[o].start
              /\ j.len = inodes[o].len /\ j.shrink = inodes[o].shrink
              /\ j.refs = inodes[o].refs + 1
  <1>1. inodes[o] \in Inode
    BY LiveTyped
  <1>2. PICK i \in Inode : i = inodes[o]
    BY <1>1
  <1>3. PICK k : k = i.refs + 1
    OBVIOUS
  <1>4. k \in Nat
    BY <1>3 DEF Inode
  <1>5. PICK j1 : j1 = [i EXCEPT !.refs = k]
    OBVIOUS
  <1>6. /\ j1 \in Inode /\ j1.sector = i.sector /\ j1.start = i.start /\ j1.len = i.len
        /\ j1.shrink = i.shrink /\ j1.refs = k
    BY <1>4, <1>5 DEF Inode
  <1>7. PICK j : j = [j1 EXCEPT !.removed = rm]
    OBVIOUS
  <1>8. /\ j \in Inode /\ j.sector = i.sector /\ j.start = i.start /\ j.len = i.len
        /\ j.shrink = i.shrink /\ j.refs = k
    BY <1>6, <1>7 DEF Inode
  <1>9. j = [[inodes[o] EXCEPT !.refs = inodes[o].refs + 1] EXCEPT !.removed = rm]
    BY <1>2, <1>3, <1>5, <1>7, Zenon
  <1>10. j.refs = inodes[o].refs + 1
    BY <1>2, <1>3, <1>8
  <1> QED
    BY <1>2, <1>8, <1>9, <1>10, Zenon

LEMMA ReferencedUp ==
    ASSUME FsTypes, NEW o, o \in Live
    PROVE  \E j \in Inode :
              /\ j = [inodes[o] EXCEPT !.refs = inodes[o].refs + 1]
              /\ j.sector = inodes[o].sector /\ j.start = inodes[o].start
              /\ j.len = inodes[o].len /\ j.shrink = inodes[o].shrink
              /\ j.refs = inodes[o].refs + 1
  <1>1. inodes[o] \in Inode
    BY LiveTyped
  <1>2. PICK i \in Inode : i = inodes[o]
    BY <1>1
  <1>3. PICK k : k = i.refs + 1
    OBVIOUS
  <1>4. k \in Nat
    BY <1>3 DEF Inode
  <1>5. PICK j : j = [i EXCEPT !.refs = k]
    OBVIOUS
  <1>6. /\ j \in Inode /\ j.sector = i.sector /\ j.start = i.start /\ j.len = i.len
        /\ j.shrink = i.shrink /\ j.refs = k
    BY <1>4, <1>5 DEF Inode
  <1>7. j = [inodes[o] EXCEPT !.refs = inodes[o].refs + 1]
    BY <1>2, <1>3, <1>5, Zenon
  <1>8. j.refs = inodes[o].refs + 1
    BY <1>2, <1>3, <1>6
  <1> QED
    BY <1>2, <1>6, <1>7, <1>8, Zenon

LEMMA OpenedTyped ==
    ASSUME FsTypes, NEW i \in Sector, disk[i] # Data
    PROVE  /\ Opened(i) \in Inode /\ Opened(i).sector = i
           /\ Opened(i).start = disk[i].start /\ Opened(i).len = disk[i].len
           /\ Opened(i).shrink = 0 /\ Opened(i).refs = 1
  <1>1. disk[i] \in DiskInode
    BY DEF FsTypes
  <1>2. disk[i].start \in Nat /\ disk[i].len \in Nat
    BY <1>1 DEF DiskInode
  <1> QED
    BY <1>2 DEF Opened, Inode

(* A call that neither gets nor gives up an Arc goes on or returns.        *)
Idles(p) ==
    \E l \in Label, a \in Arg :
        /\ Goto(p, l, a) /\ UNCHANGED <<bits, disk, dir, memVars, alive>>
        /\ ~Held(p) /\ l \notin Holding /\ l \notin {"close", "erase", "c_inode"}
        /\ l \in Fileless => files[p] = Nobody

(* A call gets the Inode of a file from the table, or opens it, or fails   *)
(* or has yet to open it.                                                  *)
Gets(p, inum) ==
    \/ \E l, a, f, o, j : Taken(p, l, a, f, o, j) /\ inodes[o].sector = inum
    \/ \E l, a, f, n, j : Reopened(p, l, a, f, n, inum, j)
    \/ Idles(p) /\ (pc[p] = "r_tag" => ~Opens(inum))

LEMMA GetsSound ==
    ASSUME Sound, NEW p \in Proc, NEW inum, Gets(p, inum)
    PROVE  Sound'
  <1>1. CASE \E l, a, f, o, j : Taken(p, l, a, f, o, j)
    BY <1>1, TakenSound
  <1>2. CASE \E l, a, f, n, j : Reopened(p, l, a, f, n, inum, j)
    BY <1>2, OpenedSound
  <1>3. CASE Idles(p)
    <2>1. PICK l \in Label, a \in Arg :
              /\ Goto(p, l, a) /\ UNCHANGED <<bits, disk, dir, memVars, alive>>
              /\ ~Held(p) /\ l \notin Holding /\ l \notin {"close", "erase", "c_inode"}
              /\ l \in Fileless => files[p] = Nobody
      BY <1>3 DEF Idles
    <2>2. /\ UNCHANGED <<bits, disk, memVars, alive>> /\ dir' = dir /\ alive' = alive
          /\ l \notin {"close", "erase", "c_inode", "c_insert", "o_insert"}
      BY <2>1 DEF Holding
    <2> QED
      BY <2>1, <2>2, NamedKept, PlainSound
  <1> QED
    BY <1>1, <1>2, <1>3 DEF Gets

LEMMA CreateGetGets ==
    ASSUME Sound, NEW p \in Proc, CreateGet(p), ~stale'
    PROVE  Gets(p, arg[p].inum)
  <1>1. FsTypes
    BY DEF Sound
  <1>2. PICK inum : inum = arg[p].inum
    OBVIOUS
  <1>3. inum \in Sector /\ arg[p] \in Arg
    BY <1>1, <1>2 DEF FsTypes, Arg
  <1>4. pc[p] = "c_get" /\ files[p] = Nobody /\ ~Held(p)
    BY DEF CreateGet, At, Sound, HoldersSound, Fileless, Held, Holding
  <1>5. UNCHANGED <<bits, disk, dir, table, files, alive>>
    BY DEF CreateGet, diskVars
  <1>6. PICK f : f = files[p]
    OBVIOUS
  <1>7. "c_trunc" \in Label /\ "run" \in Label
    BY DEF Label, Holding
  <1>8. CASE table[inum] # Nobody
    <2>1. PICK o : o = table[inum]
      OBVIOUS
    <2>2. o \in Live /\ inodes[o].refs > 0 /\ inodes[o].sector = inum
      BY <1>3, <1>8, <2>1, TableGives
    <2>3. /\ inodes' = [inodes EXCEPT ![o] = [inodes[o] EXCEPT !.refs = inodes[o].refs + 1]]
          /\ Goto(p, "c_trunc", [arg[p] EXCEPT !.ino = o])
      BY <1>2, <1>8, <2>1 DEF CreateGet
    <2>4. PICK j \in Inode :
              /\ j = [inodes[o] EXCEPT !.refs = inodes[o].refs + 1]
              /\ j.sector = inodes[o].sector /\ j.start = inodes[o].start
              /\ j.len = inodes[o].len /\ j.shrink = inodes[o].shrink
              /\ j.refs = inodes[o].refs + 1
      BY <1>1, <2>2, ReferencedUp
    <2>5. inodes' = [inodes EXCEPT ![o] = j]
      BY <2>3, <2>4, Zenon
    <2>6. PICK a : a = [arg[p] EXCEPT !.ino = o]
      OBVIOUS
    <2>7. a \in Arg /\ a.ino = o
      BY <1>3, <2>2, <2>6 DEF Arg, Live
    <2>8. Moved(p, "c_trunc", a, f)
      BY <1>1, <1>5, <1>6, <1>7, <2>3, <2>6, <2>7, GotoKeepsFile
    <2>9. Taken(p, "c_trunc", a, f, o, j)
      BY <1>4, <1>5, <1>6, <2>2, <2>4, <2>5, <2>7, <2>8 DEF Taken
    <2> QED
      BY <1>2, <2>2, <2>9 DEF Gets
  <1>9. CASE table[inum] = Nobody /\ Opens(inum)
    <2>1. /\ Room /\ inodes' = [inodes EXCEPT ![NewInode] = Opened(inum)]
          /\ Goto(p, "c_trunc", [arg[p] EXCEPT !.ino = NewInode])
          /\ ~Stale(inum)
      BY <1>2, <1>9 DEF CreateGet
    <2>2. PICK n : n = NewInode
      OBVIOUS
    <2>3. n \in InodeId /\ n \notin Live
      BY <2>1, <2>2, RoomForNew
    <2>4. PICK j : j = Opened(inum)
      OBVIOUS
    <2>5. /\ j \in Inode /\ j.sector = inum /\ j.start = disk[inum].start /\ j.len = disk[inum].len
          /\ j.shrink = 0 /\ j.refs = 1
      BY <1>1, <1>3, <1>9, <2>4, OpenedTyped DEF Opens
    <2>6. inodes' = [inodes EXCEPT ![n] = j]
      BY <2>1, <2>2, <2>4
    <2>7. PICK a : a = [arg[p] EXCEPT !.ino = n]
      OBVIOUS
    <2>8. a \in Arg /\ a.ino = n /\ a.inum = inum
      BY <1>2, <1>3, <2>3, <2>7 DEF Arg
    <2>9. Goto(p, "c_trunc", a)
      BY <2>1, <2>2, <2>7
    <2>10. Moved(p, "c_trunc", a, f)
      BY <1>1, <1>5, <1>6, <1>7, <2>8, <2>9, GotoKeepsFile
    <2>11. Reopened(p, "c_trunc", a, f, n, inum, j)
      BY <1>3, <1>4, <1>5, <1>6, <2>1, <2>3, <2>5, <2>6, <2>8, <2>10 DEF Reopened
    <2> QED
      BY <1>2, <2>11 DEF Gets
  <1>10. CASE table[inum] = Nobody /\ ~Opens(inum)
    <2>1. Goto(p, "run", NoCall) /\ inodes' = inodes
      BY <1>2, <1>10 DEF CreateGet, Return
    <2>2. UNCHANGED <<bits, disk, memVars, alive>>
      BY <1>5, <2>1 DEF memVars
    <2>3. "run" \notin Holding /\ "run" \notin Fileless
      BY DEF Holding, Fileless
    <2> QED
      BY <1>2, <1>10, <1>4, <1>5, <1>7, <2>1, <2>2, <2>3, NoCallTyped DEF Gets, Idles
  <1> QED
    BY <1>8, <1>9, <1>10

LEMMA OpenGetGets ==
    ASSUME Sound, NEW p \in Proc, OpenGet(p)
    PROVE  Gets(p, arg[p].inum)
  <1>1. FsTypes
    BY DEF Sound
  <1>2. PICK inum : inum = arg[p].inum
    OBVIOUS
  <1>3. inum \in Sector /\ arg[p] \in Arg
    BY <1>1, <1>2 DEF FsTypes, Arg
  <1>4. pc[p] = "o_get" /\ files[p] = Nobody /\ ~Held(p)
    BY DEF OpenGet, At, Sound, HoldersSound, Fileless, Held, Holding
  <1>5. UNCHANGED <<bits, disk, dir, table, alive>>
    BY DEF OpenGet, diskVars
  <1>6. "o_read" \in Label /\ "run" \in Label
    BY DEF Label, Fileless
  <1>7. CASE table[inum] # Nobody
    <2>1. PICK o : o = table[inum]
      OBVIOUS
    <2>2. o \in Live /\ inodes[o].refs > 0 /\ inodes[o].sector = inum
      BY <1>3, <1>7, <2>1, TableGives
    <2>3. /\ inodes' = [inodes EXCEPT ![o] = [inodes[o] EXCEPT !.refs = inodes[o].refs + 1]]
          /\ files' = [files EXCEPT ![p] = o]
          /\ Goto(p, "run", NoCall)
      BY <1>2, <1>7, <2>1 DEF OpenGet, Return
    <2>4. PICK j \in Inode :
              /\ j = [inodes[o] EXCEPT !.refs = inodes[o].refs + 1]
              /\ j.sector = inodes[o].sector /\ j.start = inodes[o].start
              /\ j.len = inodes[o].len /\ j.shrink = inodes[o].shrink
              /\ j.refs = inodes[o].refs + 1
      BY <1>1, <2>2, ReferencedUp
    <2>5. inodes' = [inodes EXCEPT ![o] = j]
      BY <2>3, <2>4, Zenon
    <2>6. o \in InodeId
      BY <2>2 DEF Live
    <2>7. Moved(p, "run", NoCall, o)
      BY <1>1, <1>6, <2>3, <2>6, NoCallTyped, GotoMoves
    <2>8. Taken(p, "run", NoCall, o, o, j)
      BY <1>4, <1>5, <2>2, <2>4, <2>5, <2>7 DEF Taken
    <2> QED
      BY <1>2, <2>2, <2>8 DEF Gets
  <1>8. CASE table[inum] = Nobody
    <2>1. PICK a : a = arg[p]
      OBVIOUS
    <2>2. Goto(p, "o_read", a) /\ inodes' = inodes /\ files' = files
      BY <1>2, <1>8, <2>1 DEF OpenGet
    <2>3. UNCHANGED <<bits, disk, memVars, alive>>
      BY <1>5, <2>2 DEF memVars
    <2>4. "o_read" \notin Holding
      BY DEF Holding
    <2> QED
      BY <1>2, <1>8, <1>3, <1>4, <1>5, <1>6, <2>1, <2>2, <2>3, <2>4 DEF Gets, Idles
  <1> QED
    BY <1>7, <1>8

LEMMA OpenReadGets ==
    ASSUME Sound, NEW p \in Proc, OpenRead(p), ~stale'
    PROVE  Gets(p, arg[p].inum)
  <1>1. FsTypes
    BY DEF Sound
  <1>2. PICK inum : inum = arg[p].inum
    OBVIOUS
  <1>3. inum \in Sector /\ arg[p] \in Arg
    BY <1>1, <1>2 DEF FsTypes, Arg
  <1>4. pc[p] = "o_read" /\ files[p] = Nobody /\ ~Held(p)
    BY DEF OpenRead, At, Sound, HoldersSound, Fileless, Held, Holding
  <1>5. UNCHANGED <<bits, disk, dir, table, files, alive>>
    BY DEF OpenRead, diskVars
  <1>6. "o_insert" \in Label /\ "run" \in Label
    BY DEF Label, Holding
  <1>7. CASE Opens(inum)
    <2>1. /\ Room /\ inodes' = [inodes EXCEPT ![NewInode] = Opened(inum)]
          /\ Goto(p, "o_insert", [arg[p] EXCEPT !.ino = NewInode])
          /\ ~Stale(inum)
      BY <1>2, <1>7 DEF OpenRead
    <2>2. PICK n : n = NewInode
      OBVIOUS
    <2>3. n \in InodeId /\ n \notin Live
      BY <2>1, <2>2, RoomForNew
    <2>4. PICK j : j = Opened(inum)
      OBVIOUS
    <2>5. /\ j \in Inode /\ j.sector = inum /\ j.start = disk[inum].start /\ j.len = disk[inum].len
          /\ j.shrink = 0 /\ j.refs = 1
      BY <1>1, <1>3, <1>7, <2>4, OpenedTyped DEF Opens
    <2>6. inodes' = [inodes EXCEPT ![n] = j]
      BY <2>1, <2>2, <2>4
    <2>7. PICK a : a = [arg[p] EXCEPT !.ino = n]
      OBVIOUS
    <2>8. a \in Arg /\ a.ino = n /\ a.inum = inum
      BY <1>2, <1>3, <2>3, <2>7 DEF Arg
    <2>9. Goto(p, "o_insert", a)
      BY <2>1, <2>2, <2>7
    <2>10. PICK f : f = files[p]
      OBVIOUS
    <2>11. Moved(p, "o_insert", a, f)
      BY <1>1, <1>5, <1>6, <2>8, <2>9, <2>10, GotoKeepsFile
    <2>12. Reopened(p, "o_insert", a, f, n, inum, j)
      BY <1>3, <1>4, <1>5, <2>1, <2>3, <2>5, <2>6, <2>8, <2>10, <2>11 DEF Reopened
    <2> QED
      BY <1>2, <2>12 DEF Gets
  <1>8. CASE ~Opens(inum)
    <2>1. Goto(p, "run", NoCall) /\ inodes' = inodes
      BY <1>2, <1>8 DEF OpenRead, Return
    <2>2. UNCHANGED <<bits, disk, memVars, alive>>
      BY <1>5, <2>1 DEF memVars
    <2>3. "run" \notin Holding /\ "run" \notin Fileless
      BY DEF Holding, Fileless
    <2> QED
      BY <1>2, <1>8, <1>4, <1>5, <1>6, <2>1, <2>2, <2>3, NoCallTyped DEF Gets, Idles
  <1> QED
    BY <1>7, <1>8

(* The entries that are left are those of other inodes.                    *)
LEMMA InvalidatedEntries ==
    ASSUME FsTypes, NEW i
    PROVE  /\ Invalidated(dir, i) \in [1..DirSize -> [name : Name \cup {Nobody}, inum : Sector]]
           /\ \A e \in 1..DirSize : Invalidated(dir, i)[e].name # Nobody =>
                 /\ dir[e].name # Nobody /\ dir[e].inum # i
                 /\ Invalidated(dir, i)[e].inum = dir[e].inum
  <1>1. dir \in [1..DirSize -> [name : Name \cup {Nobody}, inum : Sector]]
    BY DEF FsTypes
  <1>2. ASSUME NEW e \in 1..DirSize
        PROVE  /\ Invalidated(dir, i)[e] \in [name : Name \cup {Nobody}, inum : Sector]
               /\ Invalidated(dir, i)[e].name # Nobody =>
                 /\ dir[e].name # Nobody /\ dir[e].inum # i
                 /\ Invalidated(dir, i)[e].inum = dir[e].inum
    <2>1. CASE dir[e].inum = i
      <3>1. Invalidated(dir, i)[e] = [dir[e] EXCEPT !.name = Nobody]
        BY <1>1, <2>1 DEF Invalidated
      <3> QED
        BY <1>1, <3>1
    <2>2. CASE dir[e].inum # i
      <3>1. Invalidated(dir, i)[e] = dir[e]
        BY <1>1, <2>2 DEF Invalidated
      <3> QED
        BY <1>1, <2>2, <3>1
    <2> QED
      BY <2>1, <2>2
  <1>3. Invalidated(dir, i) = [e \in 1..DirSize |-> Invalidated(dir, i)[e]]
    BY <1>1 DEF Invalidated
  <1> QED
    BY <1>2, <1>3

LEMMA RemoveEntryKeeps ==
    ASSUME Sound, NEW p \in Proc, RemoveEntry(p)
    PROVE  Sound'
  <1>1. FsTypes /\ Named
    BY DEF Sound
  <1>2. PICK a : a = arg[p]
    OBVIOUS
  <1>3. a \in Arg
    BY <1>1, <1>2 DEF FsTypes
  <1>4. /\ Goto(p, "r_tag", a) /\ UNCHANGED <<bits, disk, memVars, alive>>
        /\ dir' = Invalidated(dir, a.inum)
    BY <1>2 DEF RemoveEntry, histVars
  <1>5. dir' \in [1..DirSize -> [name : Name \cup {Nobody}, inum : Sector]]
    BY <1>1, <1>4, InvalidatedEntries
  <1>6. Named'
    BY <1>1, <1>4, InvalidatedEntries DEF Named
  <1>7. ~Held(p)
    BY DEF RemoveEntry, At, Held, Holding
  <1>8. "r_tag" \in Label /\ "r_tag" \notin Holding /\ "r_tag" \notin Fileless
    BY DEF Label, Holding, Fileless
  <1> QED
    BY <1>3, <1>4, <1>5, <1>6, <1>7, <1>8, PlainSound

LEMMA RemoveTagGets ==
    ASSUME Sound, NEW p \in Proc, RemoveTag(p), ~stale'
    PROVE  Gets(p, arg[p].inum)
  <1>1. FsTypes
    BY DEF Sound
  <1>2. PICK inum : inum = arg[p].inum
    OBVIOUS
  <1>3. inum \in Sector /\ arg[p] \in Arg
    BY <1>1, <1>2 DEF FsTypes, Arg
  <1>4. pc[p] = "r_tag" /\ ~Held(p)
    BY DEF RemoveTag, At, Held, Holding
  <1>5. UNCHANGED <<bits, disk, dir, table, files, alive>>
    BY DEF RemoveTag, diskVars
  <1>6. PICK f : f = files[p]
    OBVIOUS
  <1>7. "drop" \in Label /\ "run" \in Label
    BY DEF Label, Holding
  <1>8. CASE table[inum] # Nobody
    <2>1. PICK o : o = table[inum]
      OBVIOUS
    <2>2. o \in Live /\ inodes[o].refs > 0 /\ inodes[o].sector = inum
      BY <1>3, <1>8, <2>1, TableGives
    <2>3. PICK j1 : j1 = [inodes[o] EXCEPT !.refs = inodes[o].refs + 1]
      OBVIOUS
    <2>4. PICK g : g = [inodes EXCEPT ![o] = j1]
      OBVIOUS
    <2>5. /\ inodes' = [g EXCEPT ![o] = [g[o] EXCEPT !.removed = TRUE]]
          /\ Goto(p, "drop", [arg[p] EXCEPT !.ino = o])
      BY <1>2, <1>8, <2>1, <2>3, <2>4, Zenon DEF RemoveTag
    <2>6. PICK j \in Inode :
              /\ j = [[inodes[o] EXCEPT !.refs = inodes[o].refs + 1] EXCEPT !.removed = TRUE]
              /\ j.sector = inodes[o].sector /\ j.start = inodes[o].start
              /\ j.len = inodes[o].len /\ j.shrink = inodes[o].shrink
              /\ j.refs = inodes[o].refs + 1
      BY <1>1, <2>2, CountedUp
    <2>7. j = [j1 EXCEPT !.removed = TRUE]
      BY <2>3, <2>6, Zenon
    <2>8. o \in DOMAIN inodes
      BY <1>1, <2>2 DEF FsTypes, Live
    <2>9. g[o] = j1
      BY <2>4, <2>8, Zenon
    <2>10. inodes' = [g EXCEPT ![o] = j]
      BY <2>5, <2>7, <2>9, Zenon
    <2>11. inodes' = [inodes EXCEPT ![o] = j]
      BY <2>4, <2>10
    <2>12. PICK a : a = [arg[p] EXCEPT !.ino = o]
      OBVIOUS
    <2>13. a \in Arg /\ a.ino = o
      BY <1>3, <2>2, <2>12 DEF Arg, Live
    <2>14. Moved(p, "drop", a, f)
      BY <1>1, <1>5, <1>6, <1>7, <2>5, <2>12, <2>13, GotoKeepsFile
    <2>15. Taken(p, "drop", a, f, o, j)
      BY <1>4, <1>5, <1>6, <2>2, <2>6, <2>11, <2>13, <2>14 DEF Taken
    <2> QED
      BY <1>2, <2>2, <2>15 DEF Gets
  <1>9. CASE table[inum] = Nobody /\ Opens(inum)
    <2>1. /\ Room /\ inodes' = [inodes EXCEPT ![NewInode] = [Opened(inum) EXCEPT !.removed = TRUE]]
          /\ Goto(p, "drop", [arg[p] EXCEPT !.ino = NewInode])
          /\ ~Stale(inum)
      BY <1>2, <1>9 DEF RemoveTag
    <2>2. PICK n : n = NewInode
      OBVIOUS
    <2>3. n \in InodeId /\ n \notin Live
      BY <2>1, <2>2, RoomForNew
    <2>4. PICK i : i = Opened(inum)
      OBVIOUS
    <2>5. /\ i \in Inode /\ i.sector = inum /\ i.start = disk[inum].start /\ i.len = disk[inum].len
          /\ i.shrink = 0 /\ i.refs = 1
      BY <1>1, <1>3, <1>9, <2>4, OpenedTyped DEF Opens
    <2>6. PICK j : j = [i EXCEPT !.removed = TRUE]
      OBVIOUS
    <2>7. /\ j \in Inode /\ j.sector = inum /\ j.start = disk[inum].start /\ j.len = disk[inum].len
          /\ j.shrink = 0 /\ j.refs = 1
      BY <2>5, <2>6 DEF Inode
    <2>8. inodes' = [inodes EXCEPT ![n] = j]
      BY <2>1, <2>2, <2>4, <2>6
    <2>9. PICK a : a = [arg[p] EXCEPT !.ino = n]
      OBVIOUS
    <2>10. a \in Arg /\ a.ino = n /\ a.inum = inum
      BY <1>2, <1>3, <2>3, <2>9 DEF Arg
    <2>11. Goto(p, "drop", a)
      BY <2>1, <2>2, <2>9
    <2>12. Moved(p, "drop", a, f)
      BY <1>1, <1>5, <1>6, <1>7, <2>10, <2>11, GotoKeepsFile
    <2>13. Reopened(p, "drop", a, f, n, inum, j)
      BY <1>3, <1>4, <1>5, <1>6, <2>1, <2>3, <2>7, <2>8, <2>10, <2>12 DEF Reopened
    <2> QED
      BY <1>2, <2>13 DEF Gets
  <1>10. CASE table[inum] = Nobody /\ ~Opens(inum)
    <2>1. Goto(p, "run", NoCall) /\ inodes' = inodes
      BY <1>2, <1>10 DEF RemoveTag, Return
    <2>2. UNCHANGED <<bits, disk, memVars, alive>>
      BY <1>5, <2>1 DEF memVars
    <2>3. "run" \notin Holding /\ "run" \notin Fileless
      BY DEF Holding, Fileless
    <2> QED
      BY <1>2, <1>10, <1>4, <1>5, <1>7, <2>1, <2>2, <2>3, NoCallTyped DEF Gets, Idles
  <1> QED
    BY <1>8, <1>9, <1>10

-----------------------------------------------------------------------------
(* An Arc changes hands: that of the call becomes that of the File, or the *)
(* other way round.                                                        *)
Handed(p, l, a, f, o) ==
    /\ Moved(p, l, a, f) /\ o \in Live /\ l \in {"run", "drop"}
    /\ \/ Held(p) /\ arg[p].ino = o /\ files[p] = Nobody /\ f = o /\ l = "run"
       \/ ~Held(p) /\ files[p] = o /\ f = Nobody /\ l = "drop" /\ a.ino = o

LEMMA HandedBalanced ==
    ASSUME FsTypes, NEW p \in Proc, NEW l, NEW a, NEW f, NEW o, Handed(p, l, a, f, o),
           NEW j, j.refs = inodes[o].refs, Live' = Live,
           \A r \in InodeId : inodes'[r] = IF r = o THEN j ELSE inodes[r]
    PROVE  Balanced(p, l, a, f)
  <1>1. o \in InodeId /\ o \in Live /\ o # Nobody /\ inodes[o].refs \in Nat
    BY LiveTyped, NothingAssumption DEF Handed
  <1>2. (l \in Holding <=> l # "run") /\ l \in {"run", "drop"}
    BY DEF Handed, Holding
  <1>3. j.refs = inodes[o].refs - One(files[p] = o) - One(Held(p) /\ arg[p].ino = o)
                                   + One(f = o) + One(l \in Holding /\ a.ino = o)
    <2>1. CASE l = "run"
      <3>1. /\ One(files[p] = o) = 0 /\ One(Held(p) /\ arg[p].ino = o) = 1
            /\ One(f = o) = 1 /\ One(l \in Holding /\ a.ino = o) = 0
        BY <1>1, <1>2, <2>1 DEF Handed, One
      <3> QED
        BY <1>1, <3>1
    <2>2. CASE l = "drop"
      <3>1. /\ One(files[p] = o) = 1 /\ One(Held(p) /\ arg[p].ino = o) = 0
            /\ One(f = o) = 0 /\ One(l \in Holding /\ a.ino = o) = 1
        BY <1>1, <1>2, <2>2 DEF Handed, One
      <3> QED
        BY <1>1, <3>1
    <2> QED
      BY <1>2, <2>1, <2>2
  <1>4. \A r \in InodeId : r # o =>
              /\ files[p] = r <=> f = r
              /\ Held(p) /\ arg[p].ino = r <=> l \in Holding /\ a.ino = r
    BY <1>2, NothingAssumption DEF Handed
  <1> QED
    BY <1>1, <1>3, <1>4, OneBalanced

LEMMA HandedSound ==
    ASSUME Sound, NEW p \in Proc, NEW l, NEW a, NEW f, NEW o, Handed(p, l, a, f, o),
           UNCHANGED <<bits, disk, inodes, alive>>,
           dir' \in [1..DirSize -> [name : Name \cup {Nobody}, inum : Sector]], Named',
           table' \in [Sector -> InodeId \cup {Nobody}], TableSound'
    PROVE  Sound'
  <1>1. FsTypes /\ Live' = Live
    BY DEF Sound, Live
  <1>2. PICK j : j = inodes[o]
    OBVIOUS
  <1>3. j.refs = inodes[o].refs /\ \A r \in InodeId : inodes'[r] = IF r = o THEN j ELSE inodes[r]
    BY <1>2
  <1>4. Balanced(p, l, a, f)
    BY <1>1, <1>3, HandedBalanced
  <1>5. /\ Moved(p, l, a, f) /\ l \notin {"close", "erase", "c_inode", "c_insert", "o_insert"}
        /\ (f # Nobody => f \in Live) /\ (l \in Holding => a.ino \in Live)
        /\ (l \in Fileless => f = Nobody)
    BY DEF Handed, Holding, Fileless
  <1> QED
    BY <1>4, <1>5, CallSound

LEMMA FileDropKeeps ==
    ASSUME Sound, NEW p \in Proc, FileDrop(p)
    PROVE  Sound'
  <1>1. FsTypes /\ HoldersSound /\ TableSound
    BY DEF Sound
  <1>2. PICK o : o = files[p]
    OBVIOUS
  <1>3. o \in Live /\ o \in InodeId
    BY <1>1, <1>2 DEF FileDrop, HoldersSound, Live
  <1>4. PICK a : a = [NoCall EXCEPT !.ino = o]
    OBVIOUS
  <1>5. a \in Arg /\ a.ino = o
    BY <1>3, <1>4, NoCallTyped DEF Arg
  <1>6. /\ Goto(p, "drop", a) /\ files' = [files EXCEPT ![p] = Nobody] /\ ~Held(p)
        /\ UNCHANGED <<bits, disk, inodes, alive>> /\ dir' = dir /\ table' = table /\ alive' = alive
    BY <1>2, <1>4 DEF FileDrop, At, Held, Holding, diskVars, histVars
  <1>7. "drop" \in Label
    BY DEF Label, Holding
  <1>8. Moved(p, "drop", a, Nobody)
    BY <1>1, <1>5, <1>6, <1>7, GotoMoves
  <1>9. Handed(p, "drop", a, Nobody, o)
    BY <1>2, <1>3, <1>5, <1>6, <1>8 DEF Handed
  <1>10. table' \in [Sector -> InodeId \cup {Nobody}] /\ TableSound'
    BY <1>1, <1>6 DEF FsTypes, TableSound, Live
  <1> QED
    BY <1>6, <1>9, <1>10, NamedKept, HandedSound

LEMMA OpenInsertKeeps ==
    ASSUME Sound, NEW p \in Proc, OpenInsert(p)
    PROVE  Sound'
  <1>1. FsTypes /\ HoldersSound /\ TableSound /\ RefsExact
    BY DEF Sound
  <1>2. PICK o : o = arg[p].ino
    OBVIOUS
  <1>3. pc[p] = "o_insert" /\ Held(p) /\ files[p] = Nobody
    BY <1>1 DEF OpenInsert, At, Held, Holding, HoldersSound, Fileless
  <1>4. o \in Live /\ o \in InodeId /\ inodes[o].refs > 0
    BY <1>1, <1>2, <1>3, ArcKeepsOpen DEF Live
  <1>5. inodes[o].sector = arg[p].inum /\ arg[p].inum \in Sector
    BY <1>1, <1>2, <1>3 DEF HoldersSound, FsTypes, Arg
  <1>6. /\ Goto(p, "run", NoCall) /\ files' = [files EXCEPT ![p] = o]
        /\ UNCHANGED <<bits, disk, inodes, alive>> /\ dir' = dir /\ alive' = alive
        /\ table' = [table EXCEPT ![arg[p].inum] = o]
    BY <1>2 DEF OpenInsert, Return, diskVars
  <1>7. "run" \in Label
    BY DEF Label
  <1>8. Moved(p, "run", NoCall, o)
    BY <1>1, <1>4, <1>6, <1>7, NoCallTyped, GotoMoves
  <1>9. Handed(p, "run", NoCall, o, o)
    BY <1>2, <1>3, <1>4, <1>8 DEF Handed
  <1>10. table' \in [Sector -> InodeId \cup {Nobody}]
    BY <1>1, <1>4, <1>6 DEF FsTypes
  <1>11. TableSound'
    <2>1. \A s \in Sector : table'[s] = IF s = arg[p].inum THEN o ELSE table[s]
      BY <1>1, <1>6 DEF FsTypes
    <2>2. Live' = Live /\ inodes' = inodes
      BY <1>6 DEF Live
    <2> QED
      BY <1>1, <1>4, <1>5, <2>1, <2>2 DEF TableSound
  <1> QED
    BY <1>6, <1>9, <1>10, <1>11, NamedKept, HandedSound

LEMMA CreateInsertKeeps ==
    ASSUME Sound, NEW p \in Proc, CreateInsert(p)
    PROVE  Sound'
  <1>1. FsTypes /\ HoldersSound /\ TableSound /\ RefsExact /\ InodesSound /\ Named
    BY DEF Sound
  <1>2. PICK o : o = arg[p].ino
    OBVIOUS
  <1>3. pc[p] = "c_insert" /\ Held(p) /\ files[p] = Nobody
    BY <1>1 DEF CreateInsert, At, Held, Holding, HoldersSound, Fileless
  <1>4. o \in Live /\ o \in InodeId /\ inodes[o].refs > 0
    BY <1>1, <1>2, <1>3, ArcKeepsOpen DEF Live
  <1>5. inodes[o].sector = arg[p].inum /\ arg[p] \in Arg
    BY <1>1, <1>2, <1>3 DEF HoldersSound, FsTypes
  <1>6. arg[p].inum \in alive /\ arg[p].inum \in Sector /\ arg[p].name \in Name \cup {Nobody}
    BY <1>1, <1>4, <1>5 DEF InodesSound, Serving, Arg
  <1>7. UNCHANGED <<bits, disk, inodes, alive>> /\ table' = table /\ alive' = alive
    BY DEF CreateInsert
  <1>8. CASE Matches(Nobody) # {}
    <2>1. /\ Goto(p, "run", NoCall) /\ files' = [files EXCEPT ![p] = o]
          /\ dir' = [dir EXCEPT ![first_invalid] = [name |-> arg[p].name, inum |-> arg[p].inum]]
      BY <1>2, <1>8 DEF CreateInsert, Return, Inserted
    <2>2. first_invalid \in 1..DirSize
      BY <1>1, <1>8, LookupTyped DEF first_invalid
    <2>3. PICK e : e = [name |-> arg[p].name, inum |-> arg[p].inum]
      OBVIOUS
    <2>4. e \in [name : Name \cup {Nobody}, inum : Sector] /\ e.inum \in alive
      BY <1>6, <2>3
    <2>5. dir' = [dir EXCEPT ![first_invalid] = e]
      BY <2>1, <2>3
    <2>6. dir' \in [1..DirSize -> [name : Name \cup {Nobody}, inum : Sector]]
      BY <1>1, <2>2, <2>4, <2>5 DEF FsTypes
    <2>7. \A k \in 1..DirSize : dir'[k] = IF k = first_invalid THEN e ELSE dir[k]
      BY <1>1, <2>5 DEF FsTypes
    <2>8. Named'
      BY <1>1, <1>7, <2>4, <2>7 DEF Named
    <2>9. "run" \in Label
      BY DEF Label
    <2>10. Moved(p, "run", NoCall, o)
      BY <1>1, <1>4, <2>1, <2>9, NoCallTyped, GotoMoves
    <2>11. Handed(p, "run", NoCall, o, o)
      BY <1>2, <1>3, <1>4, <2>10 DEF Handed
    <2>12. table' \in [Sector -> InodeId \cup {Nobody}] /\ TableSound'
      BY <1>1, <1>7 DEF FsTypes, TableSound, Live
    <2> QED
      BY <1>7, <2>6, <2>8, <2>11, <2>12, HandedSound
  <1>9. CASE Matches(Nobody) = {}
    <2>1. PICK a : a = arg[p]
      OBVIOUS
    <2>2. Goto(p, "drop", a) /\ dir' = dir /\ files' = files
      BY <1>9, <2>1 DEF CreateInsert
    <2>3. UNCHANGED <<bits, disk, memVars, alive>>
      BY <1>7, <2>2 DEF memVars
    <2>4. "drop" \in Label /\ "drop" \notin Fileless
      BY DEF Label, Holding, Fileless
    <2> QED
      BY <1>3, <1>5, <1>7, <2>1, <2>2, <2>3, <2>4, NamedKept, PlainSound
  <1> QED
    BY <1>8, <1>9

-----------------------------------------------------------------------------
(* A resize of the Inode o by a thread that keeps its File, or gets it.    *)
Resizes(p, l, a, f, o, r) ==
    /\ o \in Live /\ inodes[o].refs > 0 /\ Resized(inodes[o], r) /\ Store(o, r)
    /\ UNCHANGED <<dir, table, alive>> /\ pc[p] \in {"run", "c_trunc"}
    /\ \/ Handed(p, l, a, f, o)
       \/ Moved(p, l, a, f) /\ l = "run" /\ pc[p] = "run" /\ f = files[p]

LEMMA ResizesSound ==
    ASSUME Sound, NEW p \in Proc, NEW l, NEW a, NEW f, NEW o, NEW r, Resizes(p, l, a, f, o, r)
    PROVE  Sound'
  <1>1. FsTypes /\ HoldersSound
    BY DEF Sound
  <1>2. o \in InodeId /\ o \in Live /\ inodes[o].refs \in Nat /\ inodes[o].refs > 0
    BY <1>1, LiveTyped DEF Resizes
  <1>3. PICK j : j = r.inode
    OBVIOUS
  <1>4. inodes' = [inodes EXCEPT ![o] = j] /\ bits' = r.bits /\ disk' = r.disk
    BY <1>3 DEF Resizes, Store
  <1>5. Rewritten(inodes[o], j, bits', disk') /\ j.refs = inodes[o].refs
    BY <1>3, <1>4 DEF Resizes, Resized
  <1>6. j # Nobody
    BY <1>5, NothingAssumption DEF Rewritten
  <1>7. \A k \in InodeId : inodes'[k] = IF k = o THEN j ELSE inodes[k]
    BY <1>1, <1>4 DEF FsTypes
  <1>8. Live' = Live
    BY <1>2, <1>6, <1>7 DEF Live
  <1>9. Moved(p, l, a, f) /\ alive' = alive /\ table' = table /\ dir' = dir
    BY DEF Resizes, Handed
  <1>10. CASE Handed(p, l, a, f, o)
    <2>1. Balanced(p, l, a, f)
      BY <1>1, <1>5, <1>7, <1>8, <1>10, HandedBalanced
    <2>2. /\ l \notin {"close", "erase", "c_inode", "c_insert", "o_insert"}
          /\ (f # Nobody => f \in Live) /\ (l \in Holding => a.ino \in Live)
          /\ (l \in Fileless => f = Nobody)
      BY <1>10 DEF Handed, Holding, Fileless
    <2> QED
      BY <1>2, <1>4, <1>5, <1>9, <2>1, <2>2, RewriteSound
  <1>11. CASE l = "run" /\ pc[p] = "run" /\ f = files[p]
    <2>1. ~Held(p) /\ l \notin Holding /\ l \notin Fileless
      BY <1>11 DEF Held, Holding, Fileless
    <2>2. /\ One(Held(p) /\ arg[p].ino = o) = 0 /\ One(l \in Holding /\ a.ino = o) = 0
          /\ One(files[p] = o) = One(f = o) /\ One(f = o) \in Nat
      BY <1>11, <2>1 DEF One
    <2>3. j.refs = inodes[o].refs - One(files[p] = o) - One(Held(p) /\ arg[p].ino = o)
                                   + One(f = o) + One(l \in Holding /\ a.ino = o)
      BY <1>2, <1>5, <2>2
    <2>4. \A k \in InodeId : k # o =>
              /\ files[p] = k <=> f = k
              /\ Held(p) /\ arg[p].ino = k <=> l \in Holding /\ a.ino = k
      BY <1>11, <2>1
    <2>5. Balanced(p, l, a, f)
      BY <1>1, <1>2, <1>7, <1>8, <2>3, <2>4, OneBalanced
    <2>6. f # Nobody => f \in Live
      BY <1>1, <1>11 DEF HoldersSound
    <2> QED
      BY <1>2, <1>4, <1>5, <1>9, <1>11, <2>1, <2>5, <2>6, RewriteSound
  <1> QED
    BY <1>10, <1>11 DEF Resizes

LEMMA CreateTruncResizes ==
    ASSUME Sound, NEW p \in Proc, CreateTrunc(p)
    PROVE  \E l, a, f, o, r : Resizes(p, l, a, f, o, r)
  <1>1. FsTypes /\ HoldersSound /\ RefsExact /\ InodesSound /\ SectorsOwned
    BY DEF Sound
  <1>2. PICK o : o = arg[p].ino
    OBVIOUS
  <1>3. Held(p) /\ files[p] = Nobody
    BY <1>1 DEF CreateTrunc, At, Held, Holding, HoldersSound, Fileless
  <1>4. o \in Live /\ o \in InodeId /\ inodes[o].refs > 0
    BY <1>1, <1>2, <1>3, ArcKeepsOpen DEF Live
  <1>5. PICK r : r = resize_inner(inodes[o], 0)
    OBVIOUS
  <1>6. PICK i : i = inodes[o]
    OBVIOUS
  <1>7. Resizable(i)
    BY <1>1, <1>4, <1>6, OpenIsResizable
  <1>8. Resized(i, resize_inner(i, 0))
    BY <1>1, <1>7, ResizeIsResized
  <1>9. Resized(inodes[o], r)
    BY <1>5, <1>6, <1>8
  <1>10. /\ Store(o, r) /\ files' = [files EXCEPT ![p] = o] /\ Goto(p, "run", NoCall)
         /\ UNCHANGED <<dir, table, alive>>
    BY <1>2, <1>5 DEF CreateTrunc, Return
  <1>11. "run" \in Label
    BY DEF Label
  <1>12. Moved(p, "run", NoCall, o)
    BY <1>1, <1>4, <1>10, <1>11, NoCallTyped, GotoMoves
  <1>13. Handed(p, "run", NoCall, o, o)
    BY <1>2, <1>3, <1>4, <1>12 DEF Handed
  <1>14. Resizes(p, "run", NoCall, o, o, r)
    BY <1>4, <1>9, <1>10, <1>13 DEF Resizes, CreateTrunc, At
  <1> QED
    BY <1>14

(* A thread at work on its File.                                           *)
LEMMA StayMoves ==
    ASSUME FsTypes, NEW p \in Proc, UNCHANGED callVars, files' = files
    PROVE  Moved(p, pc[p], arg[p], files[p])
  BY DEF FsTypes, Moved, callVars

LEMMA SetLenResizes ==
    ASSUME Sound, NEW p \in Proc, NEW n \in Lens, SetLen(p, n)
    PROVE  \E l, a, f, o, r : Resizes(p, l, a, f, o, r)
  <1>1. FsTypes /\ HoldersSound /\ RefsExact /\ InodesSound /\ SectorsOwned
    BY DEF Sound
  <1>2. PICK o : o = files[p]
    OBVIOUS
  <1>3. PICK a : a = arg[p]
    OBVIOUS
  <1>4. o \in Live /\ inodes[o].refs > 0
    BY <1>1, <1>2, ArcKeepsOpen DEF SetLen
  <1>5. PICK i : i = inodes[o]
    OBVIOUS
  <1>6. Resizable(i)
    BY <1>1, <1>4, <1>5, OpenIsResizable
  <1>7. n \in Nat
    BY DiskFsAssumption
  <1>8. PICK r : r = resize_inner(i, n)
    OBVIOUS
  <1>9. Resized(inodes[o], r)
    BY <1>1, <1>5, <1>6, <1>7, <1>8, ResizeIsResized
  <1>10. /\ Store(o, r) /\ files' = files /\ UNCHANGED callVars /\ pc[p] = "run"
         /\ UNCHANGED <<dir, table, alive>>
    BY <1>2, <1>5, <1>8 DEF SetLen, Begin, At
  <1>11. Moved(p, "run", a, o)
    BY <1>1, <1>2, <1>3, <1>10, StayMoves
  <1>12. Resizes(p, "run", a, o, o, r)
    BY <1>2, <1>4, <1>9, <1>10, <1>11 DEF Resizes
  <1> QED
    BY <1>12

(* The bytes are written within the sectors of the file.                   *)
LEMMA WrittenIsResized ==
    ASSUME FsTypes, NEW i, Resizable(i), NEW r, Resized(i, r), NEW end \in Nat,
           end <= r.inode.len, NEW d,
           d = [s \in Sector |-> IF s \in Run(r.inode.start, bytes_to_sectors(end))
                                 THEN Data ELSE r.disk[s]],
           NEW w, w = Outcome(r.res, r.inode, r.bits, d)
    PROVE  Resized(i, w)
  <1>1. PICK j : j = r.inode
    OBVIOUS
  <1>2. Rewritten(i, j, r.bits, r.disk) /\ j \in Inode
    BY <1>1 DEF Resized, Rewritten
  <1>3. j.start \in Nat /\ j.len \in Nat /\ j.shrink \in Nat
    BY <1>2 DEF Inode
  <1>4. end <= j.len + j.shrink
    BY <1>1, <1>3
  <1>5. PICK all : all = bytes_to_sectors(j.len + j.shrink)
    OBVIOUS
  <1>6. PICK some : some = bytes_to_sectors(end)
    OBVIOUS
  <1>7. all \in Nat /\ some \in Nat /\ some <= all
    BY <1>3, <1>4, <1>5, <1>6, SectorsNat, SectorsMono
  <1>8. \A s \in Run(j.start, some) : s \in Area(j)
    BY <1>3, <1>5, <1>7 DEF Area, Run
  <1>9. d = [s \in Sector |-> IF s \in Run(j.start, some) THEN Data ELSE r.disk[s]]
    BY <1>1, <1>6
  <1>10. /\ r.disk \in [Sector -> {Data} \cup DiskInode] /\ j.sector = i.sector
         /\ r.disk[i.sector] = [start |-> j.start, len |-> j.len]
         /\ \A s \in bits : s \notin Area(i) /\ s # i.sector => r.disk[s] = disk[s]
         /\ \A s \in Area(j) : s \in Area(i) \/ s \notin bits
    BY <1>2 DEF Rewritten
  <1>11. /\ d \in [Sector -> {Data} \cup DiskInode]
         /\ \A s \in Sector : s \notin Area(j) => d[s] = r.disk[s]
    BY <1>8, <1>9, <1>10
  <1>12. i.sector \in bits /\ i.sector \notin Area(i) /\ bits \subseteq Sector
    BY DEF Resizable, FsTypes
  <1>13. \A s \in bits : s \notin Area(i) => s \notin Area(j)
    BY <1>10
  <1>14. d[i.sector] = [start |-> j.start, len |-> j.len]
    BY <1>10, <1>11, <1>12, <1>13
  <1>15. \A s \in bits : s \notin Area(i) /\ s # i.sector => d[s] = disk[s]
    BY <1>10, <1>11, <1>12, <1>13
  <1>16. Rewritten(i, j, r.bits, d)
    BY <1>2, <1>11, <1>14, <1>15 DEF Rewritten
  <1>17. w.inode = j /\ w.bits = r.bits /\ w.disk = d /\ w.res = r.res
    BY <1>1 DEF Outcome
  <1>18. w = Outcome(w.res, w.inode, w.bits, w.disk)
    BY <1>1, <1>17
  <1>19. Trimmed(i, j, r.bits)
    BY <1>1 DEF Resized
  <1> QED
    BY <1>1, <1>16, <1>17, <1>18, <1>19 DEF Resized

LEMMA WriteAtResizes ==
    ASSUME Sound, NEW p \in Proc, NEW end \in Lens, WriteAt(p, end)
    PROVE  \E l, a, f, o, r : Resizes(p, l, a, f, o, r)
  <1>1. FsTypes /\ HoldersSound /\ RefsExact /\ InodesSound /\ SectorsOwned
    BY DEF Sound
  <1>2. PICK o : o = files[p]
    OBVIOUS
  <1>3. PICK a : a = arg[p]
    OBVIOUS
  <1>4. o \in Live /\ inodes[o].refs > 0
    BY <1>1, <1>2, ArcKeepsOpen DEF WriteAt
  <1>5. PICK i : i = inodes[o]
    OBVIOUS
  <1>6. Resizable(i) /\ i.len \in Nat
    BY <1>1, <1>4, <1>5, OpenIsResizable DEF Resizable, Inode
  <1>7. end \in Nat
    BY DiskFsAssumption
  <1>8. PICK r : r = IF i.len < end THEN resize_inner(i, end) ELSE Outcome("ok", i, bits, disk)
    OBVIOUS
  <1>9. Resized(i, r) /\ (r.res = "ok" => end <= r.inode.len)
    <2>1. CASE i.len < end
      <3>1. Resized(i, r) /\ (r.res = "ok" => r.inode.len = end)
        BY <1>1, <1>6, <1>7, <1>8, <2>1, ResizeIsResized
      <3> QED
        BY <3>1, <1>7
    <2>2. CASE ~(i.len < end)
      <3>1. r = Outcome("ok", i, bits, disk)
        BY <1>8, <2>2
      <3>2. Resized(i, Outcome("ok", i, bits, disk))
        BY <1>1, <1>6, KeptIsResized
      <3>3. r.inode = i
        BY <3>1 DEF Outcome
      <3> QED
        BY <1>6, <1>7, <2>2, <3>1, <3>2, <3>3
    <2> QED
      BY <2>1, <2>2
  <1>10. PICK d : d = [s \in Sector |-> IF s \in Run(r.inode.start, bytes_to_sectors(end))
                                        THEN Data ELSE r.disk[s]]
    OBVIOUS
  <1>11. PICK w : w = IF r.res = "ok" THEN [r EXCEPT !.disk = d] ELSE r
    OBVIOUS
  <1>12. Resized(i, w)
    <2>1. CASE r.res = "ok"
      <3>1. PICK b, m, k, c : r = [res |-> b, inode |-> m, bits |-> k, disk |-> c]
        BY <1>9 DEF Resized, Outcome
      <3>2. w = [r EXCEPT !.disk = d]
        BY <1>11, <2>1
      <3>3. w = Outcome(r.res, r.inode, r.bits, d)
        BY <3>1, <3>2 DEF Outcome
      <3> QED
        BY <1>1, <1>6, <1>7, <1>9, <1>10, <2>1, <3>3, WrittenIsResized
    <2>2. CASE r.res # "ok"
      BY <1>9, <1>11, <2>2
    <2> QED
      BY <2>1, <2>2
  <1>13. Resized(inodes[o], w)
    BY <1>5, <1>12
  <1>14. /\ Store(o, w) /\ files' = files /\ UNCHANGED callVars /\ pc[p] = "run"
         /\ UNCHANGED <<dir, table, alive>>
    BY <1>2, <1>5, <1>8, <1>10, <1>11 DEF WriteAt, Begin, At
  <1>15. Moved(p, "run", a, o)
    BY <1>1, <1>2, <1>3, <1>14, StayMoves
  <1>16. Resizes(p, "run", a, o, o, w)
    BY <1>2, <1>4, <1>13, <1>14, <1>15 DEF Resizes
  <1> QED
    BY <1>16

-----------------------------------------------------------------------------
(* The sectors of G get another use.                                       *)
Reused(use, own, G, u, w, use2, own2) ==
    /\ \A s \in Nat : s \in G => use2[s] = u /\ own2[s] = w
    /\ \A s \in Nat : s \notin G => use2[s] = use[s] /\ own2[s] = own[s]

LEMMA Reuse ==
    ASSUME NEW use, NEW own, NEW G, NEW u, NEW w
    PROVE  \E use2, own2 : Reused(use, own, G, u, w, use2, own2)
  <1> DEFINE x == [s \in Nat |-> IF s \in G THEN u ELSE use[s]]
             y == [s \in Nat |-> IF s \in G THEN w ELSE own[s]]
  <1>1. /\ \A s \in Nat : s \in G => x[s] = u /\ y[s] = w
        /\ \A s \in Nat : s \notin G => x[s] = use[s] /\ y[s] = own[s]
    OBVIOUS
  <1> HIDE DEF x, y
  <1>2. Reused(use, own, G, u, w, x, y)
    BY <1>1 DEF Reused
  <1> QED
    BY <1>2

(* Every claim is on sectors of the disk, which are taken.                 *)
LEMMA ClaimsNat ==
    ASSUME FsTypes, ClosersSound, InodesSound
    PROVE  /\ \A i \in alive : i \in Nat /\ i \in Sector /\ Stored(i) \subseteq Nat
           /\ \A o \in InodeId : o \in Live => Occupied(o) \subseteq Nat
           /\ \A q \in Proc : Pending(q) \subseteq Nat
  <1>1. ASSUME NEW i \in alive
        PROVE  i \in Nat /\ i \in Sector /\ Stored(i) \subseteq Nat
    <2>1. i \in Nat /\ i \in Sector
      BY DiskSizeAssumption DEF FsTypes, Sector
    <2>2. disk[i] \in DiskInode
      BY <2>1 DEF FsTypes, InodesSound
    <2>3. disk[i].start \in Nat /\ bytes_to_sectors(disk[i].len) \in Nat
      BY <2>2, SectorsNat DEF DiskInode
    <2> QED
      BY <2>1, <2>3 DEF Stored, Run
  <1>2. ASSUME NEW o \in InodeId, o \in Live
        PROVE  Occupied(o) \subseteq Nat
    BY <1>2, LiveTyped, AreaNat DEF Area, Occupied
  <1> QED
    BY <1>1, <1>2, PendingNat

(* A thread without Arcs of its own stays without.                         *)
LEMMA StillBalanced ==
    ASSUME FsTypes, NEW p \in Proc, NEW l, NEW a, NEW f, f = files[p],
           ~Held(p), l \notin Holding,
           \A r \in InodeId : r \in Live' => r \in Live /\ inodes'[r].refs = inodes[r].refs
    PROVE  Balanced(p, l, a, f)
  <1> SUFFICES ASSUME NEW r \in InodeId, r \in Live'
               PROVE  inodes'[r].refs = (IF r \in Live THEN inodes[r].refs ELSE 0)
                            - One(files[p] = r) - One(Held(p) /\ arg[p].ino = r)
                            + One(f = r) + One(l \in Holding /\ a.ino = r)
    BY DEF Balanced
  <1>1. r \in Live /\ inodes'[r].refs = inodes[r].refs /\ inodes[r].refs \in Nat
    BY LiveTyped
  <1>2. /\ One(files[p] = r) = One(f = r) /\ One(f = r) \in Nat
        /\ One(Held(p) /\ arg[p].ino = r) = 0 /\ One(l \in Holding /\ a.ino = r) = 0
    BY DEF One
  <1> QED
    BY <1>1, <1>2

LEMMA CreateAllocKeeps ==
    ASSUME Sound, NEW p \in Proc, CreateAlloc(p)
    PROVE  Sound'
  <1>1. /\ FsTypes /\ TableSound /\ HoldersSound /\ RefsExact /\ ClosersSound
        /\ InodesSound /\ SectorsOwned /\ Named
    BY DEF Sound
  <1>2. pc[p] = "c_alloc" /\ files[p] = Nobody /\ ~Held(p)
    BY <1>1 DEF CreateAlloc, At, HoldersSound, Fileless, Held, Holding
  <1>3. /\ disk' = disk /\ dir' = dir /\ inodes' = inodes /\ table' = table /\ files' = files
        /\ alive' = alive /\ UNCHANGED memVars
    BY DEF CreateAlloc, memVars
  <1>4. PICK g : g = alloc(bits, 1)
    OBVIOUS
  <1>5. g.res \in {"ok", "err"} /\ (g.res = "err" => g.bits = bits)
    BY <1>4, AllocFails
  <1>6. bits' = g.bits
    BY <1>4 DEF CreateAlloc
  <1>7. CASE g.res = "err"
    <2>1. Goto(p, "run", NoCall)
      BY <1>4, <1>7 DEF CreateAlloc, Return
    <2>2. UNCHANGED <<bits, disk, memVars, alive>>
      BY <1>3, <1>5, <1>6, <1>7
    <2>3. "run" \in Label /\ "run" \notin Holding /\ "run" \notin Fileless
      BY DEF Label, Holding, Fileless
    <2> QED
      BY <1>2, <1>3, <2>1, <2>2, <2>3, NoCallTyped, NamedKept, PlainSound
  <1>8. CASE g.res = "ok"
    <2>1. PICK n : n = g.start
      OBVIOUS
    <2>2. n \in Nat /\ n \in Sector /\ n \notin bits /\ bits' = bits \cup {n}
      <3>1. bits \in SUBSET Sector
        BY <1>1 DEF FsTypes
      <3>2. /\ n \in Nat /\ Run(n, 1) \subseteq Sector /\ Run(n, 1) \cap bits = {}
            /\ g.bits = bits \cup Run(n, 1)
        <4>1. alloc(bits, 1).res = "ok" /\ 1 \in Nat /\ 1 > 0
          BY <1>4, <1>8
        <4>2. /\ alloc(bits, 1).start \in Nat
              /\ Run(alloc(bits, 1).start, 1) \subseteq Sector
              /\ Run(alloc(bits, 1).start, 1) \cap bits = {}
              /\ alloc(bits, 1).bits = bits \cup Run(alloc(bits, 1).start, 1)
          BY <3>1, <4>1, AllocFinds, Zenon
        <4> QED
          BY <1>4, <2>1, <4>2
      <3>3. Run(n, 1) = {n}
        BY <3>2 DEF Run
      <3> QED
        BY <1>6, <3>2, <3>3
    <2>3. PICK a : a = [arg[p] EXCEPT !.inum = n]
      OBVIOUS
    <2>4. a \in Arg /\ a.inum = n
      BY <1>1, <2>2, <2>3 DEF FsTypes, Arg
    <2>5. PICK f : f = files[p]
      OBVIOUS
    <2>6. PICK l : l = "c_inode"
      OBVIOUS
    <2>7. l \in Label /\ l \notin Holding /\ l \notin {"c_insert", "o_insert", "close", "erase"}
      BY <2>6 DEF Label, Holding, Fileless
    <2>8. Goto(p, l, a)
      BY <1>4, <1>8, <2>1, <2>3, <2>6 DEF CreateAlloc
    <2>9. Moved(p, l, a, f)
      BY <1>1, <1>3, <2>4, <2>5, <2>7, <2>8, GotoKeepsFile
    <2>10. Live' = Live
      BY <1>3 DEF Live
    <2>11. InodesKept /\ ClosedKept(p)
      BY <1>3, <2>10 DEF InodesKept, ClosedKept
    <2>12. FsTypes'
      BY <1>1, <1>3, <2>2, <2>9 DEF FsTypes, Moved
    <2>13. TableSound' /\ Named' /\ InodesSound'
      BY <1>1, <1>3, <2>10 DEF TableSound, Named, InodesSound, Serving
    <2>14. Balanced(p, l, a, f)
      BY <1>1, <1>2, <1>3, <2>5, <2>7, <2>10, StillBalanced
    <2>15. RefsExact'
      BY <1>1, <2>9, <2>14, RefsKept
    <2>16. HoldersSound'
      BY <1>1, <1>2, <2>5, <2>7, <2>9, <2>11, HoldersKept
    <2>17. ClosersSound'
      BY <1>1, <2>7, <2>9, <2>11, ClosersKept
    <2>18. PICK use, own : Owners(use, own)
      BY <1>1 DEF SectorsOwned
    <2>s. PICK use2, own2 : Reused(use, own, {n}, "call", p, use2, own2)
      BY Reuse
    <2>19. /\ \A s \in Nat : s \in {n} => use2[s] = "call" /\ own2[s] = p
           /\ \A s \in Nat : s \notin {n} => use2[s] = use[s] /\ own2[s] = own[s]
      BY <2>s DEF Reused
    <2>20. use[n] = "none" /\ n \notin Reserved
      BY <1>1, <2>2, <2>18 DEF Owners, FsTypes
    <2>21. \A s \in Nat : use[s] # "none" => use2[s] = use[s] /\ own2[s] = own[s]
      BY <2>19, <2>20
    <2>22. \A s \in Nat : use2[s] # "none" => s \in bits' /\ s \notin Reserved
      BY <2>2, <2>18, <2>19, <2>20 DEF Owners
    <2>23. /\ \A i \in alive : i \in Nat /\ Stored(i) \subseteq Nat
           /\ \A o \in InodeId : o \in Live => Occupied(o) \subseteq Nat
           /\ \A q \in Proc : Pending(q) \subseteq Nat
      BY <1>1, ClaimsNat
    <2>24. \A i \in alive' : use2[i] = "inode" /\ own2[i] = i
      BY <1>3, <2>18, <2>21, <2>23 DEF Owners
    <2>25. \A i \in alive' : OwnedBy(Stored(i)', use2, own2, "data", i)
      BY <1>3, <2>18, <2>21, <2>23 DEF Owners, OwnedBy, Stored
    <2>26. ASSUME NEW o \in InodeId, o \in Live', inodes'[o].refs > 0
           PROVE  OwnedBy(Occupied(o)', use2, own2, "data", inodes'[o].sector)
      <3>1. Occupied(o)' = Occupied(o) /\ inodes'[o] = inodes[o] /\ o \in Live
        BY <1>3, <2>10, <2>26 DEF Occupied
      <3> QED
        BY <2>18, <2>21, <2>23, <2>26, <3>1 DEF Owners, OwnedBy
    <2>27. ASSUME NEW q \in Proc
           PROVE  OwnedBy(Pending(q)', use2, own2, "call", q)
      <3>1. CASE q = p
        <4>1. Pending(q)' = {n}
          BY <2>4, <2>6, <2>9, <3>1 DEF Pending, Moved
        <4> QED
          BY <2>2, <2>19, <3>1, <4>1 DEF OwnedBy
      <3>2. CASE q # p
        <4>1. Pending(q)' = Pending(q)
          BY <1>3, <2>9, <3>2 DEF Pending, Moved
        <4> QED
          BY <2>18, <2>21, <2>23, <4>1 DEF Owners, OwnedBy
      <3> QED
        BY <3>1, <3>2
    <2>28. Owners(use2, own2)'
      BY <2>22, <2>24, <2>25, <2>26, <2>27 DEF Owners
    <2> QED
      BY <2>12, <2>13, <2>15, <2>16, <2>17, <2>28 DEF Sound, SectorsOwned
  <1> QED
    BY <1>5, <1>7, <1>8

LEMMA CreateInodeKeeps ==
    ASSUME Sound, NEW p \in Proc, CreateInode(p)
    PROVE  Sound'
  <1>1. /\ FsTypes /\ TableSound /\ HoldersSound /\ RefsExact /\ ClosersSound
        /\ InodesSound /\ SectorsOwned /\ Named
    BY DEF Sound
  <1>2. pc[p] = "c_inode" /\ files[p] = Nobody /\ ~Held(p)
    BY <1>1 DEF CreateInode, At, HoldersSound, Fileless, Held, Holding
  <1>3. PICK inum : inum = arg[p].inum
    OBVIOUS
  <1>4. inum \in Sector /\ inum \in Nat /\ arg[p] \in Arg
    BY <1>1, <1>3, DiskSizeAssumption DEF FsTypes, Arg, Sector
  <1>5. PICK n : n = NewInode
    OBVIOUS
  <1>6. n \in InodeId /\ n \notin Live
    BY <1>5, RoomForNew DEF CreateInode
  <1>7. PICK j : j = Created(inum)
    OBVIOUS
  <1>8. /\ j \in Inode /\ j.sector = inum /\ j.start = 0 /\ j.len = 0 /\ j.shrink = 0
        /\ j.removed = FALSE /\ j.refs = 1
    BY <1>4, <1>7 DEF Created, Inode
  <1>9. PICK a : a = [arg[p] EXCEPT !.ino = n]
    OBVIOUS
  <1>10. a \in Arg /\ a.ino = n /\ a.inum = inum
    BY <1>3, <1>4, <1>6, <1>9 DEF Arg
  <1>11. /\ disk' = Flushed(disk, j) /\ inodes' = [inodes EXCEPT ![n] = j]
         /\ table' = [table EXCEPT ![inum] = n] /\ alive' = alive \cup {inum}
         /\ bits' = bits /\ dir' = dir /\ files' = files
    BY <1>3, <1>5, <1>7 DEF CreateInode
  <1>12. PICK l : l = "c_insert"
    OBVIOUS
  <1>13. Goto(p, l, a)
    BY <1>3, <1>5, <1>9, <1>12 DEF CreateInode
  <1>14. l \in Label /\ l \in Holding /\ l \notin {"c_inode", "close", "erase"}
    BY <1>12 DEF Label, Holding
  <1>15. PICK f : f = files[p]
    OBVIOUS
  <1>16. Moved(p, l, a, f)
    BY <1>1, <1>10, <1>11, <1>13, <1>14, <1>15, GotoKeepsFile
  <1>17. /\ \A r \in InodeId : inodes'[r] = IF r = n THEN j ELSE inodes[r]
         /\ \A r \in InodeId : (r \in Live' <=> r \in Live \/ r = n)
         /\ inodes' \in [InodeId -> {Nobody} \cup Inode]
         /\ InodesKept /\ ClosedKept(p)
    <2>1. Enters(n, j)
      BY <1>6, <1>8, <1>11 DEF Enters
    <2> QED
      BY <1>1, <2>1, NewKeeps
  <1>18. /\ disk' \in [Sector -> {Data} \cup DiskInode]
         /\ disk'[inum] = [start |-> 0, len |-> 0]
         /\ \A s \in Sector : s # inum => disk'[s] = disk[s]
    <2>1. disk \in [Sector -> {Data} \cup DiskInode]
      BY <1>1 DEF FsTypes
    <2> QED
      BY <1>8, <1>11, <2>1, FlushWrites
  <1>19. FsTypes'
    <2>1. table' \in [Sector -> InodeId \cup {Nobody}] /\ alive' \in SUBSET Sector
      BY <1>1, <1>4, <1>6, <1>11 DEF FsTypes
    <2> QED
      BY <1>1, <1>11, <1>16, <1>17, <1>18, <2>1 DEF FsTypes, Moved
  <1>20. RefsExact'
    <2>1. Balanced(p, l, a, f)
      BY <1>1, <1>2, <1>6, <1>8, <1>10, <1>11, <1>14, <1>15, NewBalanced
    <2> QED
      BY <1>1, <1>16, <2>1, RefsKept
  <1>21. HoldersSound'
    <2>1. a.ino \in Live' /\ inodes'[a.ino].sector = a.inum
      BY <1>6, <1>8, <1>10, <1>17
    <2> QED
      BY <1>1, <1>2, <1>15, <1>16, <1>17, <2>1, HoldersKept
  <1>22. ClosersSound'
    BY <1>1, <1>14, <1>16, <1>17, ClosersKept
  <1>23. Named'
    BY <1>1, <1>11 DEF Named
  <1>24. TableSound'
    <2> SUFFICES ASSUME NEW s \in Sector, table'[s] # Nobody
                 PROVE  table'[s] \in Live' /\ inodes'[table'[s]].refs > 0 /\ inodes'[table'[s]].sector = s
      BY DEF TableSound
    <2>1. CASE s = inum
      <3>1. table'[s] = n
        BY <1>1, <1>11, <2>1 DEF FsTypes
      <3> QED
        BY <1>6, <1>8, <1>17, <2>1, <3>1
    <2>2. CASE s # inum
      <3>1. table'[s] = table[s]
        BY <1>1, <1>11, <2>2 DEF FsTypes
      <3>2. table[s] \in Live /\ inodes[table[s]].refs > 0 /\ inodes[table[s]].sector = s
        BY <1>1, <3>1 DEF TableSound
      <3>3. table[s] \in InodeId /\ table[s] # n
        BY <1>6, <3>2 DEF Live
      <3> QED
        BY <1>17, <3>1, <3>2, <3>3
    <2> QED
      BY <2>1, <2>2
  <1>25. PICK use, own : Owners(use, own)
    BY <1>1 DEF SectorsOwned
  <1>26. use[inum] = "call" /\ own[inum] = p
    <2>1. inum \in Pending(p)
      BY <1>2, <1>3 DEF Pending
    <2> QED
      BY <1>25, <2>1 DEF Owners, OwnedBy
  <1>27. inum \notin alive
    BY <1>25, <1>26 DEF Owners
  <1>28. \A r \in InodeId : r # n => (Serving(r)' <=> Serving(r)) /\ inodes'[r] = inodes[r]
    BY <1>17 DEF Serving
  <1>29. InodesSound'
    <2>1. ASSUME NEW r \in InodeId, Serving(r)'
          PROVE  /\ inodes'[r].sector \in alive'
                 /\ disk'[inodes'[r].sector] = [start |-> inodes'[r].start, len |-> inodes'[r].len]
      <3>1. CASE r = n
        BY <3>1, <1>8, <1>11, <1>17, <1>18
      <3>2. CASE r # n
        <4>1. /\ Serving(r) /\ inodes'[r] = inodes[r] /\ inodes[r].sector \in alive
              /\ disk[inodes[r].sector] = [start |-> inodes[r].start, len |-> inodes[r].len]
          BY <2>1, <3>2, <1>1, <1>28 DEF InodesSound
        <4>2. inodes[r].sector \in Sector /\ inodes[r].sector # inum
          BY <1>1, <1>27, <4>1 DEF FsTypes
        <4> QED
          BY <1>11, <1>18, <4>1, <4>2
      <3> QED
        BY <3>1, <3>2
    <2>2. ASSUME NEW r \in InodeId, NEW t \in InodeId, Serving(r)', Serving(t)',
                 inodes'[r].sector = inodes'[t].sector
          PROVE  r = t
      <3>1. \A k \in InodeId : k # n /\ Serving(k)' => inodes'[k].sector # inum
        <4> SUFFICES ASSUME NEW k \in InodeId, k # n, Serving(k)'
                     PROVE  inodes'[k].sector # inum
          OBVIOUS
        <4>1. Serving(k) /\ inodes'[k] = inodes[k]
          BY <1>28
        <4>2. inodes[k].sector \in alive
          BY <1>1, <4>1 DEF InodesSound
        <4> QED
          BY <1>27, <4>1, <4>2
      <3>2. inodes'[n].sector = inum
        BY <1>6, <1>8, <1>17
      <3>3. CASE r = n \/ t = n
        BY <2>2, <3>1, <3>2, <3>3
      <3>4. CASE r # n /\ t # n
        BY <2>2, <3>4, <1>1, <1>28 DEF InodesSound
      <3> QED
        BY <3>3, <3>4
    <2>3. ASSUME NEW k \in alive'
          PROVE  disk'[k] # Data
      <3>1. CASE k = inum
        <4>1. [start |-> 0, len |-> 0] \in DiskInode
          BY DEF DiskInode
        <4> QED
          BY <3>1, <1>18, <4>1, NothingAssumption
      <3>2. CASE k # inum
        BY <2>3, <3>2, <1>1, <1>11, <1>18 DEF InodesSound, FsTypes
      <3> QED
        BY <3>1, <3>2
    <2> QED
      BY <2>1, <2>2, <2>3 DEF InodesSound
  <1>s. PICK use2, own2 : Reused(use, own, {inum}, "inode", inum, use2, own2)
    BY Reuse
  <1>30. /\ \A s \in Nat : s \in {inum} => use2[s] = "inode" /\ own2[s] = inum
         /\ \A s \in Nat : s \notin {inum} => use2[s] = use[s] /\ own2[s] = own[s]
    BY <1>s DEF Reused
  <1>31. /\ \A i \in alive : i \in Nat /\ i \in Sector /\ Stored(i) \subseteq Nat
         /\ \A o \in InodeId : o \in Live => Occupied(o) \subseteq Nat
         /\ \A q \in Proc : Pending(q) \subseteq Nat
    BY <1>1, ClaimsNat
  <1>32. \A s \in Nat : ~(use[s] = "call" /\ own[s] = p) => use2[s] = use[s] /\ own2[s] = own[s]
    BY <1>26, <1>30
  <1>33. \A s \in Nat : use2[s] # "none" => s \in bits' /\ s \notin Reserved
    BY <1>4, <1>11, <1>25, <1>26, <1>30 DEF Owners
  <1>34. \A i \in alive' : use2[i] = "inode" /\ own2[i] = i
    BY <1>4, <1>11, <1>25, <1>30, <1>31 DEF Owners
  <1>35. Run(0, 0) = {} /\ bytes_to_sectors(0) = 0
    BY SectorsOfNothing DEF Run
  <1>36. ASSUME NEW i \in alive'
         PROVE  OwnedBy(Stored(i)', use2, own2, "data", i)
    <2>1. CASE i = inum
      <3>1. Stored(i)' = {}
        BY <1>18, <1>35, <2>1 DEF Stored
      <3> QED
        BY <3>1 DEF OwnedBy
    <2>2. CASE i # inum
      <3>1. i \in alive /\ Stored(i)' = Stored(i)
        BY <1>11, <1>18, <1>31, <1>36, <2>2 DEF Stored
      <3> QED
        BY <1>25, <1>31, <1>32, <3>1 DEF Owners, OwnedBy
    <2> QED
      BY <2>1, <2>2
  <1>37. ASSUME NEW o \in InodeId, o \in Live', inodes'[o].refs > 0
         PROVE  OwnedBy(Occupied(o)', use2, own2, "data", inodes'[o].sector)
    <2>1. CASE o = n
      <3>1. inodes'[o] = j /\ j.len + j.shrink = 0
        BY <1>8, <1>17, <2>1
      <3>2. Occupied(o)' = {}
        BY <1>8, <1>35, <3>1 DEF Occupied
      <3> QED
        BY <3>2 DEF OwnedBy
    <2>2. CASE o # n
      <3>1. Occupied(o)' = Occupied(o) /\ inodes'[o] = inodes[o] /\ o \in Live
        BY <1>17, <1>37, <2>2 DEF Occupied
      <3> QED
        BY <1>25, <1>31, <1>32, <1>37, <3>1 DEF Owners, OwnedBy
    <2> QED
      BY <2>1, <2>2
  <1>38. ASSUME NEW q \in Proc
         PROVE  OwnedBy(Pending(q)', use2, own2, "call", q)
    <2>1. CASE q = p
      <3>1. Pending(q)' = {}
        BY <1>12, <1>16, <2>1 DEF Pending, Moved
      <3> QED
        BY <3>1 DEF OwnedBy
    <2>2. CASE q # p
      <3>1. \A s \in Pending(q)' : s \in Pending(q)
        BY <1>1, <1>14, <1>16, <1>17, PendingKept
      <3>2. OwnedBy(Pending(q), use, own, "call", q)
        BY <1>25 DEF Owners
      <3> QED
        BY <1>31, <1>32, <2>2, <3>1, <3>2 DEF OwnedBy
    <2> QED
      BY <2>1, <2>2
  <1>39. Owners(use2, own2)'
    BY <1>33, <1>34, <1>36, <1>37, <1>38 DEF Owners
  <1> QED
    BY <1>19, <1>20, <1>21, <1>22, <1>23, <1>24, <1>29, <1>39 DEF Sound, SectorsOwned

-----------------------------------------------------------------------------
(* An Arc is dropped and others are left.                                  *)
LEMMA DropSome ==
    ASSUME Sound, NEW p \in Proc, ArcDrop(p), inodes[arg[p].ino].refs # 1
    PROVE  Sound'
  <1>1. FsTypes /\ HoldersSound /\ RefsExact /\ InodesSound /\ SectorsOwned
    BY DEF Sound
  <1>2. PICK o : o = arg[p].ino
    OBVIOUS
  <1>3. Held(p) /\ pc[p] = "drop"
    BY DEF ArcDrop, At, Held, Holding
  <1>4. o \in Live /\ inodes[o].refs > 0 /\ o \in InodeId /\ inodes[o] \in Inode /\ inodes[o].refs \in Nat
    BY <1>1, <1>2, <1>3, ArcKeepsOpen, LiveTyped
  <1>5. PICK k : k = inodes[o].refs - 1
    OBVIOUS
  <1>6. k \in Nat /\ k > 0
    BY <1>2, <1>4, <1>5
  <1>7. PICK i \in Inode : i = inodes[o]
    BY <1>4
  <1>8. PICK j : j = [i EXCEPT !.refs = k]
    OBVIOUS
  <1>9. /\ j \in Inode /\ j.sector = inodes[o].sector /\ j.start = inodes[o].start
        /\ j.len = inodes[o].len /\ j.shrink = inodes[o].shrink /\ j.refs = k
    BY <1>6, <1>7, <1>8 DEF Inode
  <1>10. /\ inodes' = [inodes EXCEPT ![o] = [inodes[o] EXCEPT !.refs = inodes[o].refs - 1]]
         /\ Goto(p, "run", NoCall) /\ table' = table
         /\ bits' = bits /\ disk' = disk /\ dir' = dir /\ files' = files /\ alive' = alive
    BY <1>2 DEF ArcDrop, Return, diskVars, histVars
  <1>11. inodes' = [inodes EXCEPT ![o] = j]
    BY <1>5, <1>7, <1>8, <1>10, Zenon
  <1>12. Rewritten(inodes[o], j, bits', disk')
    BY <1>1, <1>4, <1>9, <1>10, CountedIsRewritten
  <1>13. PICK f : f = files[p]
    OBVIOUS
  <1>14. PICK l : l = "run"
    OBVIOUS
  <1>15. /\ l \in Label /\ l \notin Holding /\ l \notin Fileless
         /\ l \notin {"close", "erase", "c_inode", "c_insert", "o_insert"}
    BY <1>14 DEF Label, Holding, Fileless
  <1>16. Goto(p, l, NoCall)
    BY <1>10, <1>14
  <1>17. Moved(p, l, NoCall, f)
    BY <1>1, <1>10, <1>13, <1>15, <1>16, NoCallTyped, GotoKeepsFile
  <1>18. \A r \in InodeId : inodes'[r] = IF r = o THEN j ELSE inodes[r]
    BY <1>1, <1>11 DEF FsTypes
  <1>19. j # Nobody
    BY <1>9, NothingAssumption
  <1>20. Live' = Live
    BY <1>4, <1>18, <1>19 DEF Live
  <1>21. j.refs = inodes[o].refs - One(files[p] = o) - One(Held(p) /\ arg[p].ino = o)
                                   + One(f = o) + One(l \in Holding /\ NoCall.ino = o)
    <2>1. /\ One(files[p] = o) = One(f = o) /\ One(f = o) \in Nat
          /\ One(Held(p) /\ arg[p].ino = o) = 1 /\ One(l \in Holding /\ NoCall.ino = o) = 0
      BY <1>2, <1>3, <1>13, <1>15 DEF One
    <2> QED
      BY <1>4, <1>5, <1>9, <2>1
  <1>22. \A r \in InodeId : r # o =>
              /\ files[p] = r <=> f = r
              /\ Held(p) /\ arg[p].ino = r <=> l \in Holding /\ NoCall.ino = r
    BY <1>2, <1>13, <1>15
  <1>23. Balanced(p, l, NoCall, f)
    BY <1>1, <1>4, <1>18, <1>20, <1>21, <1>22, OneBalanced
  <1>24. (f # Nobody => f \in Live) /\ j.refs > 0
    BY <1>1, <1>6, <1>9, <1>13 DEF HoldersSound
  <1> QED
    BY <1>4, <1>10, <1>11, <1>12, <1>15, <1>17, <1>23, <1>24, RewriteSound

(* The slack behind a file is among its sectors, and not of its content.   *)
Slack(i) == Run(i.start + bytes_to_sectors(i.len), TailSectors(i))

LEMMA SlackInArea ==
    ASSUME NEW i \in Inode
    PROVE  /\ Slack(i) \subseteq Area(i)
           /\ Slack(i) \cap Run(i.start, bytes_to_sectors(i.len)) = {}
  <1>1. i.start \in Nat /\ i.len \in Nat /\ i.shrink \in Nat
    BY DEF Inode
  <1>2. PICK t : t = i.shrink \div SECTOR_SIZE
    OBVIOUS
  <1>3. PICK c : c = bytes_to_sectors(i.len)
    OBVIOUS
  <1>4. PICK all : all = bytes_to_sectors(i.len + i.shrink)
    OBVIOUS
  <1>5. t \in Nat /\ c \in Nat /\ all \in Nat /\ c + t <= all
    <2>1. /\ i.shrink \div SECTOR_SIZE \in Nat
          /\ bytes_to_sectors(i.len) + i.shrink \div SECTOR_SIZE <= bytes_to_sectors(i.len + i.shrink)
      BY <1>1, SectorsTail
    <2>2. i.len + i.shrink \in Nat
      BY <1>1
    <2>3. bytes_to_sectors(i.len) \in Nat /\ bytes_to_sectors(i.len + i.shrink) \in Nat
      BY <1>1, <2>2, SectorsNat
    <2> QED
      BY <1>2, <1>3, <1>4, <2>1, <2>3, Zenon
  <1>6. Slack(i) = Run(i.start + c, t) /\ Area(i) = Run(i.start, all)
    BY <1>2, <1>3, <1>4 DEF Slack, TailSectors, Area
  <1>7. Run(i.start + c, t) \subseteq Run(i.start, all) /\ Run(i.start + c, t) \cap Run(i.start, c) = {}
    BY <1>1, <1>5 DEF Run
  <1> QED
    BY <1>3, <1>6, <1>7

(* The last Arc is dropped.                                                *)
LEMMA DropLast ==
    ASSUME Sound, NEW p \in Proc, ArcDrop(p), inodes[arg[p].ino].refs = 1
    PROVE  Sound'
  <1>1. /\ FsTypes /\ TableSound /\ HoldersSound /\ RefsExact /\ ClosersSound
        /\ InodesSound /\ SectorsOwned /\ Named
    BY DEF Sound
  <1>2. PICK o : o = arg[p].ino
    OBVIOUS
  <1>3. Held(p) /\ pc[p] = "drop"
    BY DEF ArcDrop, At, Held, Holding
  <1>4. o \in Live /\ inodes[o].refs = 1 /\ o \in InodeId /\ inodes[o] \in Inode
    BY <1>1, <1>2, <1>3, ArcKeepsOpen, LiveTyped
  <1>5. PICK i \in Inode : i = inodes[o]
    BY <1>4
  <1>6. PICK j : j = [i EXCEPT !.refs = 0]
    OBVIOUS
  <1>7. /\ j \in Inode /\ j.sector = i.sector /\ j.start = i.start /\ j.len = i.len
        /\ j.shrink = i.shrink /\ j.removed = i.removed /\ j.refs = 0 /\ j # Nobody
    BY <1>5, <1>6, NothingAssumption DEF Inode
  <1>8. PICK a : a = arg[p]
    OBVIOUS
  <1>9. a \in Arg /\ a.ino = o
    BY <1>1, <1>2, <1>8 DEF FsTypes
  <1>10. /\ inodes' = [inodes EXCEPT ![o] = [inodes[o] EXCEPT !.refs = inodes[o].refs - 1]]
         /\ Goto(p, "close", a)
         /\ table' = [s \in Sector |-> IF table[s] = o THEN Nobody ELSE table[s]]
         /\ bits' = bits /\ disk' = disk /\ dir' = dir /\ files' = files /\ alive' = alive
    BY <1>2, <1>8 DEF ArcDrop, diskVars, histVars
  <1>11. inodes' = [inodes EXCEPT ![o] = j]
    <2>1. inodes[o].refs - 1 = 0
      BY <1>4
    <2>2. [inodes[o] EXCEPT !.refs = inodes[o].refs - 1] = j
      BY <1>5, <1>6, <2>1, Zenon
    <2> QED
      BY <1>10, <2>2, Zenon
  <1>12. \A r \in InodeId : inodes'[r] = IF r = o THEN j ELSE inodes[r]
    BY <1>1, <1>11 DEF FsTypes
  <1>13. Live' = Live
    BY <1>4, <1>7, <1>12 DEF Live
  <1>14. PICK f : f = files[p]
    OBVIOUS
  <1>15. PICK l : l = "close"
    OBVIOUS
  <1>16. l \in Label /\ l \notin Holding /\ l \notin Fileless
    BY <1>15 DEF Label, Holding, Fileless
  <1>17. Goto(p, l, a)
    BY <1>10, <1>15
  <1>18. Moved(p, l, a, f)
    BY <1>1, <1>9, <1>10, <1>14, <1>16, <1>17, GotoKeepsFile
  <1>19. InodesKept
    BY <1>5, <1>7, <1>12, <1>13 DEF InodesKept
  <1>20. \A q \in Proc : Closing(q) => arg[q].ino \in InodeId /\ arg[q].ino # o
    <2>1. \A q \in Proc : Closing(q) => arg[q].ino \in Live /\ inodes[arg[q].ino].refs = 0
      BY <1>1 DEF ClosersSound
    <2> QED
      BY <1>4, <2>1 DEF Live
  <1>21. ClosedKept(p)
    BY <1>12, <1>20 DEF ClosedKept
  <1>22. Balanced(p, l, a, f)
    <2>1. j.refs = inodes[o].refs - One(files[p] = o) - One(Held(p) /\ arg[p].ino = o)
                                   + One(f = o) + One(l \in Holding /\ a.ino = o)
      <3>1. /\ One(files[p] = o) = One(f = o) /\ One(f = o) \in Nat
            /\ One(Held(p) /\ arg[p].ino = o) = 1 /\ One(l \in Holding /\ a.ino = o) = 0
        BY <1>2, <1>3, <1>14, <1>16 DEF One
      <3> QED
        BY <1>4, <1>7, <3>1
    <2>2. \A r \in InodeId : r # o =>
              /\ files[p] = r <=> f = r
              /\ Held(p) /\ arg[p].ino = r <=> l \in Holding /\ a.ino = r
      BY <1>2, <1>14, <1>16
    <2> QED
      BY <1>1, <1>4, <1>12, <1>13, <2>1, <2>2, OneBalanced
  <1>23. FsTypes'
    <2>1. table' \in [Sector -> InodeId \cup {Nobody}]
      BY <1>1, <1>10 DEF FsTypes
    <2>2. inodes' \in [InodeId -> {Nobody} \cup Inode]
      BY <1>1, <1>7, <1>11 DEF FsTypes
    <2> QED
      BY <1>1, <1>10, <1>18, <2>1, <2>2 DEF FsTypes, Moved
  <1>24. RefsExact'
    BY <1>1, <1>18, <1>22, RefsKept
  <1>25. HoldersSound'
    <2>1. f # Nobody => f \in Live'
      BY <1>1, <1>13, <1>14 DEF HoldersSound
    <2>2. l \notin {"c_insert", "o_insert"}
      BY <1>15
    <2> QED
      BY <1>1, <1>16, <1>18, <1>19, <2>1, <2>2, HoldersKept
  <1>26. ClosersSound'
    <2>1. /\ a.ino \in Live' /\ inodes'[a.ino].refs = 0 /\ l # "erase"
          /\ \A q \in Proc : q # p /\ Closing(q) => arg[q].ino # a.ino
      BY <1>4, <1>7, <1>9, <1>12, <1>13, <1>15, <1>20
    <2> QED
      BY <1>1, <1>18, <1>21, <2>1, ClosersKept
  <1>27. Named'
    BY <1>1, <1>10 DEF Named
  <1>28. TableSound'
    <2> SUFFICES ASSUME NEW s \in Sector, table'[s] # Nobody
                 PROVE  table'[s] \in Live' /\ inodes'[table'[s]].refs > 0 /\ inodes'[table'[s]].sector = s
      BY DEF TableSound
    <2>1. table'[s] = table[s] /\ table[s] # o
      BY <1>10
    <2>2. table[s] \in Live /\ inodes[table[s]].refs > 0 /\ inodes[table[s]].sector = s
      BY <1>1, <2>1 DEF TableSound
    <2>3. table[s] \in InodeId
      BY <2>2 DEF Live
    <2> QED
      BY <1>12, <1>13, <2>1, <2>2, <2>3
  <1>29. \A r \in InodeId : /\ Serving(r)' => Serving(r)
                            /\ inodes'[r].sector = inodes[r].sector
                            /\ inodes'[r].start = inodes[r].start /\ inodes'[r].len = inodes[r].len
    BY <1>4, <1>5, <1>7, <1>12, <1>13 DEF Serving
  <1>30. InodesSound'
    BY <1>1, <1>10, <1>29 DEF InodesSound
  <1>31. PICK use, own : Owners(use, own)
    BY <1>1 DEF SectorsOwned
  <1>32. /\ \A k \in alive : k \in Nat /\ k \in Sector /\ Stored(k) \subseteq Nat
         /\ \A r \in InodeId : r \in Live => Occupied(r) \subseteq Nat
         /\ \A q \in Proc : Pending(q) \subseteq Nat
    BY <1>1, ClaimsNat
  <1>33. PICK G : G = Slack(i)
    OBVIOUS
  <1>34. \A s \in G : use[s] = "data" /\ own[s] = i.sector /\ s \in Nat
    <2>1. G \subseteq Occupied(o) /\ Occupied(o) = Area(i)
      BY <1>5, <1>33, SlackInArea DEF Occupied, Area
    <2> QED
      BY <1>4, <1>5, <1>31, <1>32, <2>1 DEF Owners, OwnedBy
  <1>35. PICK use2, own2 : Reused(use, own, G, "call", p, use2, own2)
    BY Reuse
  <1>36. /\ \A s \in Nat : s \in G => use2[s] = "call" /\ own2[s] = p
         /\ \A s \in Nat : s \notin G => use2[s] = use[s] /\ own2[s] = own[s]
    BY <1>35 DEF Reused
  <1>37. \A s \in Nat : ~(use[s] = "data" /\ own[s] = i.sector) => use2[s] = use[s] /\ own2[s] = own[s]
    BY <1>34, <1>36
  <1>38. \A s \in Nat : use2[s] # "none" => s \in bits' /\ s \notin Reserved
    BY <1>10, <1>31, <1>34, <1>36 DEF Owners
  <1>39. \A k \in alive' : use2[k] = "inode" /\ own2[k] = k
    BY <1>10, <1>31, <1>32, <1>37 DEF Owners
  <1>40. Serving(o) /\ i.sector \in alive /\ disk[i.sector] = [start |-> i.start, len |-> i.len]
    BY <1>1, <1>4, <1>5 DEF Serving, InodesSound
  <1>41. ASSUME NEW k \in alive'
         PROVE  OwnedBy(Stored(k)', use2, own2, "data", k)
    <2>1. Stored(k)' = Stored(k) /\ k \in alive
      BY <1>10, <1>41 DEF Stored
    <2>2. OwnedBy(Stored(k), use, own, "data", k) /\ Stored(k) \subseteq Nat
      BY <1>31, <1>32, <2>1 DEF Owners
    <2>3. CASE k = i.sector
      <3>1. Stored(k) = Run(i.start, bytes_to_sectors(i.len))
        BY <1>40, <2>3 DEF Stored
      <3>2. \A s \in Stored(k) : s \notin G
        BY <1>5, <1>33, <3>1, SlackInArea
      <3> QED
        BY <1>36, <2>1, <2>2, <3>2 DEF OwnedBy
    <2>4. CASE k # i.sector
      BY <1>37, <2>1, <2>2, <2>4 DEF OwnedBy
    <2> QED
      BY <2>3, <2>4
  <1>42. ASSUME NEW r \in InodeId, r \in Live', inodes'[r].refs > 0
         PROVE  OwnedBy(Occupied(r)', use2, own2, "data", inodes'[r].sector)
    <2>1. r # o
      BY <1>7, <1>12, <1>42
    <2>2. Occupied(r)' = Occupied(r) /\ inodes'[r] = inodes[r] /\ r \in Live
      BY <1>12, <1>13, <1>42, <2>1 DEF Occupied
    <2>3. Serving(r) /\ inodes[r].sector # i.sector
      <3>1. Serving(r)
        BY <1>42, <2>2 DEF Serving
      <3> QED
        BY <1>1, <1>4, <1>5, <1>40, <2>1, <3>1 DEF InodesSound
    <2> QED
      BY <1>31, <1>32, <1>37, <1>42, <2>2, <2>3 DEF Owners, OwnedBy
  <1>43. ASSUME NEW q \in Proc
         PROVE  OwnedBy(Pending(q)', use2, own2, "call", q)
    <2>1. CASE q = p
      <3>1. Pending(q)' = Run(j.start + bytes_to_sectors(j.len), TailSectors(j))
        BY <1>4, <1>9, <1>12, <1>15, <1>18, <2>1 DEF Pending, Moved
      <3>2. Pending(q)' = G
        BY <1>7, <1>33, <3>1 DEF Slack, TailSectors
      <3> QED
        BY <1>34, <1>36, <2>1, <3>2 DEF OwnedBy
    <2>2. CASE q # p
      <3>1. pc'[q] = pc[q] /\ arg'[q] = arg[q]
        BY <1>18, <2>2 DEF Moved
      <3>2. pc[q] = "close" => inodes'[arg[q].ino] = inodes[arg[q].ino]
        BY <1>21, <2>2 DEF ClosedKept, Closing
      <3>3. \A s \in Pending(q)' : s \in Pending(q)
        BY <3>1, <3>2 DEF Pending
      <3>4. OwnedBy(Pending(q), use, own, "call", q)
        BY <1>31 DEF Owners
      <3> QED
        BY <1>32, <1>37, <3>3, <3>4 DEF OwnedBy
    <2> QED
      BY <2>1, <2>2
  <1>44. Owners(use2, own2)'
    BY <1>38, <1>39, <1>41, <1>42, <1>43 DEF Owners
  <1> QED
    BY <1>23, <1>24, <1>25, <1>26, <1>27, <1>28, <1>30, <1>44 DEF Sound, SectorsOwned

-----------------------------------------------------------------------------
(* What is left of an Inode when it has been closed: nothing, or a removed *)
(* one that is still to be erased.                                         *)
Remains(o, l, a, j) ==
    \/ j = Nobody /\ l = "run"
    \/ /\ j \in Inode /\ j.refs = 0 /\ j.removed /\ j.shrink = 0
       /\ j.sector = inodes[o].sector /\ j.start = inodes[o].start /\ j.len = inodes[o].len
       /\ inodes[o].removed /\ alive' = alive
       /\ l = "erase" /\ a.ino = o

(* Thread p, which is closing o, frees the sectors G, which are of nothing *)
(* that stays.                                                             *)
Released(p, l, a, o, j, G, use, own) ==
    /\ Closing(p) /\ o = arg[p].ino /\ a \in Arg /\ Goto(p, l, a)
    /\ inodes' = [inodes EXCEPT ![o] = j] /\ Remains(o, l, a, j)
    /\ disk' = disk /\ table' = table /\ files' = files
    /\ dir' \in [1..DirSize -> [name : Name \cup {Nobody}, inum : Sector]] /\ Named'
    /\ alive' \subseteq alive
    /\ \A r \in InodeId : r # o /\ Serving(r) => inodes[r].sector \in alive'
    /\ bits' \subseteq bits /\ bits \ G \subseteq bits'
    /\ Owners(use, own)
    /\ \A s \in G : s \notin Reserved /\ s \notin alive'
    /\ \A k \in alive' : \A s \in Stored(k) : s \notin G
    /\ \A r \in InodeId : r \in Live /\ inodes[r].refs > 0 => \A s \in Occupied(r) : s \notin G
    /\ \A q \in Proc : q # p => \A s \in Pending(q) : s \notin G

LEMMA ReleasedSound ==
    ASSUME Sound, NEW p \in Proc, NEW l, NEW a, NEW o, NEW j, NEW G, NEW use, NEW own,
           Released(p, l, a, o, j, G, use, own)
    PROVE  Sound'
  <1>1. /\ FsTypes /\ TableSound /\ HoldersSound /\ RefsExact /\ ClosersSound
        /\ InodesSound /\ SectorsOwned /\ Named
    BY DEF Sound
  <1>2. Closing(p) /\ o = arg[p].ino /\ a \in Arg /\ Goto(p, l, a)
    BY DEF Released
  <1>3. /\ inodes' = [inodes EXCEPT ![o] = j] /\ Remains(o, l, a, j)
        /\ disk' = disk /\ table' = table /\ files' = files /\ alive' \subseteq alive
    BY DEF Released
  <1>4. o \in Live /\ o \in InodeId /\ inodes[o] \in Inode /\ inodes[o].refs = 0
    <2>1. o \in Live /\ inodes[o].refs = 0
      BY <1>1, <1>2 DEF ClosersSound
    <2> QED
      BY <1>1, <2>1, LiveTyped
  <1>5. ~Held(p) /\ l \in Label /\ l \notin Holding /\ l \notin Fileless /\ l \in {"run", "erase"}
    BY <1>2, <1>3 DEF Closing, Held, Holding, Label, Fileless, Remains
  <1>6. j = Nobody \/ (j \in Inode /\ j # Nobody)
    <2>1. Nobody \notin Inode
      BY NothingAssumption
    <2>2. j = Nobody \/ j \in Inode
      BY <1>3, Zenon DEF Remains
    <2> QED
      BY <2>1, <2>2, Zenon
  <1>7. \A r \in InodeId : inodes'[r] = IF r = o THEN j ELSE inodes[r]
    BY <1>1, <1>3 DEF FsTypes
  <1>8. \A r \in InodeId : (r \in Live' <=> IF r = o THEN j # Nobody ELSE r \in Live)
    BY <1>7 DEF Live
  <1>9. PICK f : f = files[p]
    OBVIOUS
  <1>10. Moved(p, l, a, f)
    BY <1>1, <1>2, <1>3, <1>5, <1>9, GotoKeepsFile
  <1>11. InodesKept
    <2>1. \A r \in InodeId : r \in Live /\ inodes[r].refs > 0 => r # o
      BY <1>4
    <2> QED
      BY <1>7, <1>8, <2>1 DEF InodesKept
  <1>12. \A q \in Proc : q # p /\ Closing(q) => arg[q].ino \in InodeId /\ arg[q].ino # o
    BY <1>1, <1>2 DEF ClosersSound, Live
  <1>13. ClosedKept(p)
    BY <1>7, <1>12 DEF ClosedKept
  <1>14. FsTypes'
    <2>1. inodes' \in [InodeId -> {Nobody} \cup Inode]
      BY <1>1, <1>3, <1>6 DEF FsTypes
    <2>2. bits' \in SUBSET Sector /\ Reserved \subseteq bits'
      <3>1. \A s \in Reserved : s \in bits /\ s \notin G
        BY <1>1 DEF FsTypes, Released
      <3> QED
        BY <1>1, <3>1 DEF FsTypes, Released
    <2>3. dir' \in [1..DirSize -> [name : Name \cup {Nobody}, inum : Sector]]
      BY DEF Released
    <2> QED
      BY <1>1, <1>3, <1>10, <2>1, <2>2, <2>3 DEF FsTypes, Moved
  <1>15. TableSound'
    <2>1. \A r \in InodeId : r \in Live /\ inodes[r].refs > 0 => r # o
      BY <1>4
    <2> QED
      BY <1>1, <1>3, <1>7, <1>8, <2>1, TableKept
  <1>16. RefsExact'
    <2>1. \A r \in InodeId : r \in Live' => r \in Live /\ inodes'[r].refs = inodes[r].refs
      BY <1>3, <1>4, <1>7, <1>8 DEF Remains
    <2>2. Balanced(p, l, a, f)
      BY <1>1, <1>5, <1>9, <2>1, StillBalanced
    <2> QED
      BY <1>1, <1>10, <2>2, RefsKept
  <1>17. HoldersSound'
    <2>1. f # Nobody => f \in Live'
      <3>1. f # Nobody => f \in Live /\ inodes[f].refs > 0
        BY <1>1, <1>9, ArcKeepsOpen
      <3>2. f # Nobody => f \in InodeId /\ f # o
        BY <1>4, <3>1 DEF Live
      <3> QED
        BY <1>8, <3>1, <3>2
    <2>2. l \notin {"c_insert", "o_insert"}
      BY <1>5
    <2> QED
      BY <1>1, <1>5, <1>10, <1>11, <2>1, <2>2, HoldersKept
  <1>18. ClosersSound'
    <2>1. l \in {"close", "erase"} =>
              /\ a.ino \in Live' /\ inodes'[a.ino].refs = 0
              /\ l = "erase" => inodes'[a.ino].removed /\ inodes'[a.ino].shrink = 0
              /\ \A q \in Proc : q # p /\ Closing(q) => arg[q].ino # a.ino
      BY <1>3, <1>4, <1>6, <1>7, <1>8, <1>12, NothingAssumption DEF Remains
    <2> QED
      BY <1>1, <1>10, <1>13, <2>1, ClosersKept
  <1>19. \A r \in InodeId : Serving(r)' =>
            /\ Serving(r) /\ inodes'[r].sector = inodes[r].sector
            /\ inodes'[r].start = inodes[r].start /\ inodes'[r].len = inodes[r].len
            /\ inodes[r].sector \in alive'
    <2> SUFFICES ASSUME NEW r \in InodeId, Serving(r)'
                 PROVE  /\ Serving(r) /\ inodes'[r].sector = inodes[r].sector
                        /\ inodes'[r].start = inodes[r].start /\ inodes'[r].len = inodes[r].len
                        /\ inodes[r].sector \in alive'
      OBVIOUS
    <2>1. CASE r = o
      <3>1. j # Nobody
        BY <1>8, <2>1 DEF Serving
      <3>2. /\ j.sector = inodes[o].sector /\ j.start = inodes[o].start /\ j.len = inodes[o].len
            /\ inodes[o].removed /\ alive' = alive
        BY <1>3, <3>1 DEF Remains
      <3>3. Serving(o)
        BY <1>4, <3>2 DEF Serving
      <3>4. inodes[o].sector \in alive
        BY <1>1, <1>4, <3>3 DEF InodesSound
      <3> QED
        BY <1>7, <2>1, <3>2, <3>3, <3>4
    <2>2. CASE r # o
      <3>1. Serving(r) /\ inodes'[r] = inodes[r]
        BY <1>7, <1>8, <2>2 DEF Serving
      <3> QED
        BY <2>2, <3>1 DEF Released
    <2> QED
      BY <2>1, <2>2
  <1>20. InodesSound'
    BY <1>1, <1>3, <1>19 DEF InodesSound
  <1>21. Owners(use, own)
    BY DEF Released
  <1>22. /\ \A k \in alive : k \in Nat /\ k \in Sector /\ Stored(k) \subseteq Nat
         /\ \A r \in InodeId : r \in Live => Occupied(r) \subseteq Nat
         /\ \A q \in Proc : Pending(q) \subseteq Nat
    BY <1>1, ClaimsNat
  <1>23. PICK use2, own2 : Reused(use, own, G, "none", p, use2, own2)
    BY Reuse
  <1>24. /\ \A s \in Nat : s \in G => use2[s] = "none"
         /\ \A s \in Nat : s \notin G => use2[s] = use[s] /\ own2[s] = own[s]
    BY <1>23 DEF Reused
  <1>25. \A s \in Nat : use2[s] # "none" => s \in bits' /\ s \notin Reserved
    <2>1. \A s \in Nat : use2[s] # "none" => s \notin G /\ s \in bits /\ s \notin Reserved
      BY <1>21, <1>24 DEF Owners
    <2> QED
      BY <2>1 DEF Released
  <1>26. \A k \in alive' : use2[k] = "inode" /\ own2[k] = k
    <2>1. \A k \in alive' : k \in alive /\ k \in Nat /\ k \notin G
      BY <1>3, <1>22 DEF Released
    <2> QED
      BY <1>21, <1>24, <2>1 DEF Owners
  <1>27. ASSUME NEW k \in alive'
         PROVE  OwnedBy(Stored(k)', use2, own2, "data", k)
    <2>1. k \in alive /\ Stored(k)' = Stored(k)
      BY <1>3, <1>27 DEF Stored
    <2>2. \A s \in Stored(k) : s \in Nat /\ s \notin G /\ use[s] = "data" /\ own[s] = k
      BY <1>21, <1>22, <1>27, <2>1 DEF Owners, OwnedBy, Released
    <2> QED
      BY <1>24, <2>1, <2>2 DEF OwnedBy
  <1>28. ASSUME NEW r \in InodeId, r \in Live', inodes'[r].refs > 0
         PROVE  OwnedBy(Occupied(r)', use2, own2, "data", inodes'[r].sector)
    <2>1. r # o
      <3>1. r = o => j # Nobody /\ j.refs > 0
        BY <1>7, <1>8, <1>28
      <3>2. j # Nobody => j.refs = 0
        BY <1>3 DEF Remains
      <3> QED
        BY <3>1, <3>2
    <2>2. Occupied(r)' = Occupied(r) /\ inodes'[r] = inodes[r] /\ r \in Live /\ inodes[r].refs > 0
      BY <1>7, <1>8, <1>28, <2>1 DEF Occupied
    <2>3. \A s \in Occupied(r) : s \in Nat /\ s \notin G /\ use[s] = "data" /\ own[s] = inodes[r].sector
      BY <1>21, <1>22, <2>2 DEF Owners, OwnedBy, Released
    <2> QED
      BY <1>24, <2>2, <2>3 DEF OwnedBy
  <1>29. ASSUME NEW q \in Proc
         PROVE  OwnedBy(Pending(q)', use2, own2, "call", q)
    <2>1. CASE q = p
      <3>1. Pending(q)' = {}
        BY <1>5, <1>10, <2>1 DEF Pending, Moved
      <3> QED
        BY <3>1 DEF OwnedBy
    <2>2. CASE q # p
      <3>1. l \notin {"close", "c_inode"}
        BY <1>5
      <3>2. \A s \in Pending(q)' : s \in Pending(q)
        BY <1>1, <1>10, <1>13, <3>1, PendingKept
      <3>3. \A s \in Pending(q) : s \in Nat /\ s \notin G /\ use[s] = "call" /\ own[s] = q
        BY <1>21, <1>22, <2>2 DEF Owners, OwnedBy, Released
      <3> QED
        BY <1>24, <3>2, <3>3 DEF OwnedBy
    <2> QED
      BY <2>1, <2>2
  <1>30. Owners(use2, own2)'
    BY <1>25, <1>26, <1>27, <1>28, <1>29 DEF Owners
  <1>31. Named'
    BY DEF Released
  <1> QED
    BY <1>14, <1>15, <1>16, <1>17, <1>18, <1>20, <1>30, <1>31 DEF Sound, SectorsOwned

LEMMA InodeCloseKeeps ==
    ASSUME Sound, NEW p \in Proc, InodeClose(p)
    PROVE  Sound'
  <1>1. /\ FsTypes /\ ClosersSound /\ InodesSound /\ SectorsOwned /\ Named
    BY DEF Sound
  <1>2. PICK o : o = arg[p].ino
    OBVIOUS
  <1>3. pc[p] = "close" /\ Closing(p)
    BY DEF InodeClose, At, Closing
  <1>4. o \in Live /\ o \in InodeId /\ inodes[o] \in Inode
    <2>1. o \in Live
      BY <1>1, <1>2, <1>3 DEF ClosersSound
    <2> QED
      BY <1>1, <2>1, LiveTyped
  <1>5. PICK i \in Inode : i = inodes[o]
    BY <1>4
  <1>6. PICK G : G = Slack(i)
    OBVIOUS
  <1>7. Pending(p) = G
    BY <1>2, <1>3, <1>5, <1>6 DEF Pending, Slack
  <1>8. /\ bits' \subseteq bits /\ bits \ G \subseteq bits'
    BY <1>2, <1>5, <1>6, DeallocFrees DEF InodeClose, Slack
  <1>9. PICK use, own : Owners(use, own)
    BY <1>1 DEF SectorsOwned
  <1>10. /\ \A k \in alive : k \in Nat /\ k \in Sector /\ Stored(k) \subseteq Nat
         /\ \A r \in InodeId : r \in Live => Occupied(r) \subseteq Nat
         /\ \A q \in Proc : Pending(q) \subseteq Nat
    BY <1>1, ClaimsNat
  <1>11. \A s \in G : s \in Nat /\ use[s] = "call" /\ own[s] = p
    BY <1>7, <1>9, <1>10 DEF Owners, OwnedBy
  <1>12. /\ disk' = disk /\ dir' = dir /\ table' = table /\ files' = files /\ alive' = alive
    BY DEF InodeClose, histVars
  <1>13. /\ \A s \in G : s \notin Reserved /\ s \notin alive'
         /\ \A k \in alive' : \A s \in Stored(k) : s \notin G
         /\ \A r \in InodeId : r \in Live /\ inodes[r].refs > 0 => \A s \in Occupied(r) : s \notin G
         /\ \A q \in Proc : q # p => \A s \in Pending(q) : s \notin G
    <2>1. \A s \in G : s \notin Reserved /\ s \notin alive'
      BY <1>9, <1>11, <1>12 DEF Owners
    <2>2. \A k \in alive' : \A s \in Stored(k) : s \notin G
      BY <1>9, <1>11, <1>12 DEF Owners, OwnedBy
    <2>3. \A r \in InodeId : r \in Live /\ inodes[r].refs > 0 => \A s \in Occupied(r) : s \notin G
      BY <1>9, <1>11 DEF Owners, OwnedBy
    <2>4. \A q \in Proc : q # p => \A s \in Pending(q) : s \notin G
      BY <1>9, <1>11 DEF Owners, OwnedBy
    <2> QED
      BY <2>1, <2>2, <2>3, <2>4
  <1>14. \A r \in InodeId : r # o /\ Serving(r) => inodes[r].sector \in alive'
    BY <1>1, <1>12 DEF InodesSound
  <1>15. /\ dir' \in [1..DirSize -> [name : Name \cup {Nobody}, inum : Sector]] /\ Named'
         /\ alive' \subseteq alive
    BY <1>12, NamedKept
  <1>16. ASSUME NEW l, NEW a \in Arg, NEW j, Goto(p, l, a), inodes' = [inodes EXCEPT ![o] = j],
                Remains(o, l, a, j)
         PROVE  Sound'
    <2>1. Released(p, l, a, o, j, G, use, own)
      BY <1>2, <1>3, <1>8, <1>9, <1>12, <1>13, <1>14, <1>15, <1>16 DEF Released
    <2> QED
      BY <2>1, ReleasedSound
  <1>17. CASE i.removed
    <2>1. PICK a : a = arg[p]
      OBVIOUS
    <2>2. PICK j : j = [i EXCEPT !.shrink = 0]
      OBVIOUS
    <2>3. a \in Arg /\ a.ino = o
      BY <1>1, <1>2, <2>1 DEF FsTypes
    <2>4. /\ Goto(p, "erase", a)
          /\ inodes' = [inodes EXCEPT ![o] = [inodes[o] EXCEPT !.shrink = 0]]
      BY <1>2, <1>5, <1>17, <2>1 DEF InodeClose
    <2>5. inodes' = [inodes EXCEPT ![o] = j]
      BY <1>5, <2>2, <2>4, Zenon
    <2>6. inodes[o].refs = 0
      BY <1>1, <1>2, <1>3 DEF ClosersSound
    <2>7. /\ j \in Inode /\ j.refs = 0 /\ j.removed /\ j.shrink = 0
          /\ j.sector = i.sector /\ j.start = i.start /\ j.len = i.len
      BY <1>5, <1>17, <2>2, <2>6 DEF Inode
    <2>8. Remains(o, "erase", a, j)
      BY <1>5, <1>12, <1>17, <2>3, <2>7 DEF Remains
    <2> QED
      BY <1>16, <2>3, <2>4, <2>5, <2>8
  <1>18. CASE ~i.removed
    <2>1. Goto(p, "run", NoCall) /\ inodes' = [inodes EXCEPT ![o] = Nobody]
      BY <1>2, <1>5, <1>18 DEF InodeClose, Return
    <2>2. Remains(o, "run", NoCall, Nobody)
      BY DEF Remains
    <2> QED
      BY <1>16, <2>1, <2>2, NoCallTyped
  <1> QED
    BY <1>17, <1>18

(* A removed Inode that has been closed has no other for its file.         *)
LEMMA InodeEraseKeeps ==
    ASSUME Sound, NEW p \in Proc, InodeErase(p)
    PROVE  Sound'
  <1>1. /\ FsTypes /\ ClosersSound /\ InodesSound /\ SectorsOwned /\ Named
    BY DEF Sound
  <1>2. PICK o : o = arg[p].ino
    OBVIOUS
  <1>3. pc[p] = "erase" /\ Closing(p)
    BY DEF InodeErase, At, Closing
  <1>4. o \in Live /\ o \in InodeId /\ inodes[o] \in Inode /\ inodes[o].refs = 0 /\ Serving(o)
    <2>1. o \in Live /\ inodes[o].removed /\ inodes[o].refs = 0
      BY <1>1, <1>2, <1>3 DEF ClosersSound
    <2> QED
      BY <1>1, <2>1, LiveTyped DEF Serving
  <1>5. PICK i \in Inode : i = inodes[o]
    BY <1>4
  <1>6. PICK k : k = i.sector
    OBVIOUS
  <1>7. k \in alive /\ Stored(k) = Run(i.start, bytes_to_sectors(i.len))
    <2>1. k \in alive /\ disk[k] = [start |-> i.start, len |-> i.len]
      BY <1>1, <1>4, <1>5, <1>6 DEF InodesSound
    <2> QED
      BY <2>1 DEF Stored
  <1>8. \A r \in InodeId : r # o /\ Serving(r) => inodes[r].sector # k
    BY <1>1, <1>4, <1>5, <1>6 DEF InodesSound
  <1>9. PICK G : G = Stored(k) \cup {k}
    OBVIOUS
  <1>10. /\ \A h \in alive : h \in Nat /\ h \in Sector /\ Stored(h) \subseteq Nat
         /\ \A r \in InodeId : r \in Live => Occupied(r) \subseteq Nat
         /\ \A q \in Proc : Pending(q) \subseteq Nat
    BY <1>1, ClaimsNat
  <1>11. /\ bits' = dealloc(dealloc(bits, i.start, bytes_to_sectors(i.len)), k, 1)
         /\ dir' = Invalidated(dir, k) /\ alive' = alive \ {k}
         /\ inodes' = [inodes EXCEPT ![o] = Nobody] /\ Goto(p, "run", NoCall)
         /\ disk' = disk /\ table' = table /\ files' = files
    BY <1>2, <1>5, <1>6 DEF InodeErase, Return
  <1>12. /\ bits' \subseteq bits /\ bits \ G \subseteq bits'
    <2>1. PICK b : b = dealloc(bits, i.start, bytes_to_sectors(i.len))
      OBVIOUS
    <2>2. b \subseteq bits /\ bits \ Stored(k) \subseteq b
      BY <1>7, <2>1, DeallocFrees
    <2>3. bits' \subseteq b /\ b \ Run(k, 1) \subseteq bits'
      BY <1>11, <2>1, DeallocFrees
    <2>4. Run(k, 1) = {k}
      BY <1>7, <1>10 DEF Run
    <2> QED
      BY <1>9, <2>2, <2>3, <2>4
  <1>13. PICK use, own : Owners(use, own)
    BY <1>1 DEF SectorsOwned
  <1>14. \A s \in G : /\ s \in Nat /\ own[s] = k
                      /\ use[s] = "data" \/ (use[s] = "inode" /\ s = k)
    BY <1>7, <1>9, <1>10, <1>13 DEF Owners, OwnedBy
  <1>15. /\ \A s \in G : s \notin Reserved /\ s \notin alive'
         /\ \A h \in alive' : \A s \in Stored(h) : s \notin G
         /\ \A r \in InodeId : r \in Live /\ inodes[r].refs > 0 => \A s \in Occupied(r) : s \notin G
         /\ \A q \in Proc : q # p => \A s \in Pending(q) : s \notin G
    <2>1. \A s \in G : s \notin Reserved /\ s \notin alive'
      BY <1>11, <1>13, <1>14 DEF Owners
    <2>2. \A h \in alive' : \A s \in Stored(h) : s \notin G
      BY <1>11, <1>13, <1>14 DEF Owners, OwnedBy
    <2>3. \A r \in InodeId : r \in Live /\ inodes[r].refs > 0 =>
             r # o /\ Serving(r) /\ inodes[r].sector # k
      BY <1>4, <1>8 DEF Serving
    <2>4. \A r \in InodeId : r \in Live /\ inodes[r].refs > 0 => \A s \in Occupied(r) : s \notin G
      BY <1>13, <1>14, <2>3 DEF Owners, OwnedBy
    <2>5. \A q \in Proc : q # p => \A s \in Pending(q) : s \notin G
      BY <1>13, <1>14 DEF Owners, OwnedBy
    <2> QED
      BY <2>1, <2>2, <2>4, <2>5
  <1>16. \A r \in InodeId : r # o /\ Serving(r) => inodes[r].sector \in alive'
    BY <1>1, <1>8, <1>11 DEF InodesSound
  <1>17. /\ dir' \in [1..DirSize -> [name : Name \cup {Nobody}, inum : Sector]] /\ Named'
         /\ alive' \subseteq alive
    <2>1. /\ dir' \in [1..DirSize -> [name : Name \cup {Nobody}, inum : Sector]]
          /\ \A e \in 1..DirSize : dir'[e].name # Nobody =>
                dir[e].name # Nobody /\ dir[e].inum # k /\ dir'[e].inum = dir[e].inum
      BY <1>1, <1>11, InvalidatedEntries
    <2> QED
      BY <1>1, <1>11, <2>1 DEF Named
  <1>18. Remains(o, "run", NoCall, Nobody)
    BY DEF Remains
  <1>19. Released(p, "run", NoCall, o, Nobody, G, use, own)
    BY <1>2, <1>3, <1>11, <1>12, <1>13, <1>15, <1>16, <1>17, <1>18, NoCallTyped DEF Released
  <1> QED
    BY <1>19, ReleasedSound

(* The Files, the Inodes and the calls are gone, and what is on the disk   *)
(* stays.  The map that is mounted has all the sectors that were taken.    *)
LEMMA ResetKeeps ==
    ASSUME Sound, saved \in SUBSET Sector, Reset, ~stale'
    PROVE  Sound'
  <1>1. /\ FsTypes /\ InodesSound /\ SectorsOwned /\ Named
    BY DEF Sound
  <1>2. /\ bits' = saved /\ disk' = disk /\ dir' = dir /\ alive' = alive
        /\ bits \subseteq bits'
        /\ arg' = [p \in Proc |-> NoCall]
        /\ inodes' = [o \in InodeId |-> Nobody] /\ table' = [s \in Sector |-> Nobody]
        /\ files' = [p \in Proc |-> Nobody] /\ pc' = [p \in Proc |-> "run"]
    BY DEF Reset
  <1>3. Live' = {}
    BY <1>2 DEF Live
  <1>4. FsTypes'
    <2>1. "run" \in Label /\ NoCall \in Arg
      BY NoCallTyped DEF Label
    <2> QED
      BY <1>1, <1>2, <2>1 DEF FsTypes
  <1>5. TableSound' /\ RefsExact' /\ Named'
    BY <1>1, <1>2, <1>3 DEF TableSound, RefsExact, Named
  <1>6. HoldersSound' /\ ClosersSound'
    BY <1>2 DEF HoldersSound, ClosersSound, Held, Holding, Closing, Fileless
  <1>7. InodesSound'
    BY <1>1, <1>2, <1>3 DEF InodesSound, Serving
  <1>8. PICK use, own : Owners(use, own)
    BY <1>1 DEF SectorsOwned
  <1>9. \A i \in alive' : Stored(i)' = Stored(i)
    BY <1>2 DEF Stored
  <1>10. \A p \in Proc : Pending(p)' = {}
    BY <1>2 DEF Pending
  <1>11. Owners(use, own)'
    <2>1. \A i \in alive' : OwnedBy(Stored(i)', use, own, "data", i)
      BY <1>2, <1>8, <1>9 DEF Owners
    <2>2. \A p \in Proc : OwnedBy(Pending(p)', use, own, "call", p)
      BY <1>10 DEF OwnedBy
    <2>3. /\ \A s \in Nat : use[s] # "none" => s \in bits' /\ s \notin Reserved
          /\ \A i \in alive' : use[i] = "inode" /\ own[i] = i
      BY <1>2, <1>8 DEF Owners
    <2> QED
      BY <1>3, <2>1, <2>2, <2>3 DEF Owners
  <1> QED
    BY <1>4, <1>5, <1>6, <1>7, <1>11 DEF Sound, SectorsOwned

LEMMA InitSound ==
    ASSUME Init
    PROVE  Sound
  <1>1. Live = {}
    BY DEF Init, Live
  <1>2. Formatted \subseteq Sector /\ Formatted = Reserved
    <2>1. MapLen \in Nat /\ RootLen \in Nat /\ DiskSize \in Nat /\ 2 + MapLen + RootLen < DiskSize
      BY DiskFsAssumption, DiskSizeAssumption
    <2>2. Reserved \subseteq Sector
      BY <2>1 DEF Reserved, Sector
    <2> QED
      BY <2>2, FormattedIsReserved
  <1>3. 0 \in Sector /\ NoCall \in Arg
    BY NoCallTyped, DiskFsAssumption, DiskSizeAssumption DEF Sector
  <1>4. FsTypes
    <2>1. NoEntry \in [name : Name \cup {Nobody}, inum : Sector]
      BY <1>3 DEF NoEntry
    <2>2. "run" \in Label
      BY DEF Label
    <2> QED
      BY <1>2, <1>3, <2>1, <2>2 DEF Init, FsTypes
  <1>5. TableSound /\ RefsExact /\ HoldersSound /\ ClosersSound
    BY <1>1 DEF Init, TableSound, RefsExact, HoldersSound, ClosersSound, Held, Holding, Closing, Fileless
  <1>6. InodesSound
    BY <1>1 DEF Init, InodesSound, Serving
  <1>7. Named
    BY DEF Init, Named, NoEntry
  <1>8. SectorsOwned
    <2>1. PICK use : use = [s \in Nat |-> "none"]
      OBVIOUS
    <2>2. \A s \in Nat : use[s] = "none"
      BY <2>1
    <2>3. alive = {} /\ \A p \in Proc : Pending(p) = {}
      BY DEF Init, Pending
    <2>4. Owners(use, use)
      BY <1>1, <2>2, <2>3 DEF Owners, OwnedBy
    <2> QED
      BY <2>4 DEF SectorsOwned
  <1> QED
    BY <1>4, <1>5, <1>6, <1>7, <1>8 DEF Sound

-----------------------------------------------------------------------------
LEMMA CallKeeps ==
    ASSUME Sound, NEW p \in Proc, CallStep(p), ~stale'
    PROVE  Sound'
  <1>1. CASE \E n \in Name : CreateLook(p, n) \/ OpenLook(p, n) \/ RemoveFind(p, n)
    BY <1>1, CreateLookKeeps, OpenLookKeeps, RemoveFindKeeps
  <1>2. CASE CreateFind(p) \/ OpenFind(p)
    BY <1>2, FindKeeps DEF CreateFind, OpenFind
  <1>3. CASE CreateGet(p) \/ OpenRead(p) \/ RemoveTag(p)
    BY <1>3, CreateGetGets, OpenReadGets, RemoveTagGets, GetsSound
  <1>4. CASE CreateTrunc(p) \/ CreateAlloc(p) \/ CreateInode(p) \/ CreateInsert(p)
    BY <1>4, CreateTruncResizes, ResizesSound, CreateAllocKeeps, CreateInodeKeeps, CreateInsertKeeps
  <1>5. CASE OpenGet(p) \/ OpenInsert(p) \/ RemoveEntry(p) \/ FileDrop(p)
    BY <1>5, OpenGetGets, GetsSound, OpenInsertKeeps, RemoveEntryKeeps, FileDropKeeps
  <1>6. CASE ArcDrop(p)
    BY <1>6, DropSome, DropLast
  <1>7. CASE InodeClose(p) \/ InodeErase(p)
    BY <1>7, InodeCloseKeeps, InodeEraseKeeps
  <1>8. CASE \E n \in Lens : WriteAt(p, n) \/ SetLen(p, n)
    BY <1>8, WriteAtResizes, SetLenResizes, ResizesSound
  <1> QED
    BY <1>1, <1>2, <1>3, <1>4, <1>5, <1>6, <1>7, <1>8 DEF CallStep

(* A lookup that has gone stale stays on record.                           *)
LEMMA StaleStays ==
    ASSUME [Next]_vars, ~stale'
    PROVE  ~stale
  <1>1. CASE UNCHANGED vars
    BY <1>1 DEF vars, histVars
  <1>2. CASE Unmount \/ Reset \/ Rest
    BY <1>2 DEF Unmount, Reset, Rest, vars, histVars
  <1>3. ASSUME NEW p \in Proc, CallStep(p)
        PROVE  ~stale
    <2>1. CASE \E n \in Name : CreateLook(p, n) \/ OpenLook(p, n) \/ RemoveFind(p, n)
      BY <2>1 DEF CreateLook, OpenLook, RemoveFind
    <2>2. CASE CreateFind(p) \/ OpenFind(p)
      BY <2>2 DEF CreateFind, OpenFind, Find
    <2>3. CASE CreateGet(p) \/ OpenRead(p) \/ RemoveTag(p)
      BY <2>3 DEF CreateGet, OpenRead, RemoveTag
    <2>4. CASE CreateTrunc(p) \/ CreateAlloc(p) \/ CreateInode(p) \/ CreateInsert(p)
      BY <2>4 DEF CreateTrunc, CreateAlloc, CreateInode, CreateInsert
    <2>5. CASE OpenGet(p) \/ OpenInsert(p) \/ RemoveEntry(p) \/ FileDrop(p)
      BY <2>5 DEF OpenGet, OpenInsert, RemoveEntry, FileDrop, histVars
    <2>6. CASE ArcDrop(p) \/ InodeClose(p) \/ InodeErase(p)
      BY <2>6 DEF ArcDrop, InodeClose, InodeErase, histVars
    <2>7. CASE \E n \in Lens : WriteAt(p, n) \/ SetLen(p, n)
      BY <2>7 DEF WriteAt, SetLen
    <2> QED
      BY <1>3, <2>1, <2>2, <2>3, <2>4, <2>5, <2>6, <2>7 DEF CallStep
  <1> QED
    BY <1>1, <1>2, <1>3 DEF Next

(* Only unmount() writes the free map, and only a reset mounts it.         *)
LEMMA CallsSaveNothing ==
    ASSUME NEW p \in Proc, CallStep(p)
    PROVE  saved' = saved /\ boots' = boots
  BY DEF CallStep, CreateLook, OpenLook, RemoveFind, CreateFind, OpenFind, Find,
         CreateGet, OpenRead, RemoveTag, CreateTrunc, CreateAlloc, CreateInode,
         CreateInsert, OpenGet, OpenInsert, RemoveEntry, FileDrop, ArcDrop,
         InodeClose, InodeErase, WriteAt, SetLen, histVars, bootVars

(* As long as no Inode::open is given a file that is open or removed, and  *)
(* no free map is mounted that lacks sectors taken since it was written,   *)
(* the strong count of every Inode is the number of its Arcs, a file has   *)
(* one Inode in memory, and every sector that is in use has one owner.     *)
THEOREM FsInvariant == Spec => []FsInv
  <1>1. Init => FsInv
    BY InitSound DEF FsInv, Init
  <1>2. FsInv /\ [Next]_vars => FsInv'
    <2> SUFFICES ASSUME FsInv, [Next]_vars, ~stale'
                 PROVE  Sound' /\ saved' \in SUBSET Sector
      BY DEF FsInv
    <2>1. ~stale /\ Sound /\ saved \in SUBSET Sector
      BY StaleStays DEF FsInv
    <2>2. CASE UNCHANGED vars \/ Rest
      <3>1. UNCHANGED vars
        BY <2>2 DEF Rest
      <3>2. UNCHANGED <<diskVars, memVars, callVars, alive>> /\ saved' = saved
        BY <3>1 DEF vars, histVars, bootVars
      <3> QED
        BY <2>1, <3>2, UnmovedSound
    <2>3. CASE Unmount
      <3>1. UNCHANGED <<diskVars, memVars, callVars, alive>> /\ saved' = bits
        BY <2>3 DEF Unmount
      <3>2. bits \in SUBSET Sector
        BY <2>1 DEF Sound, FsTypes
      <3> QED
        BY <2>1, <3>1, <3>2, UnmovedSound
    <2>4. CASE Reset
      BY <2>1, <2>4, ResetKeeps DEF Reset
    <2>5. CASE \E p \in Proc : CallStep(p)
      BY <2>1, <2>5, CallKeeps, CallsSaveNothing
    <2> QED
      BY <2>2, <2>3, <2>4, <2>5 DEF Next
  <1> QED
    BY <1>1, <1>2, PTL DEF Spec

(* What a file takes is its own.                                           *)
LEMMA ExtentOwned ==
    ASSUME Sound, NEW use, NEW own, Owners(use, own), NEW i \in alive
    PROVE  \A s \in Extent(i) : s \in Nat /\ use[s] = "data" /\ own[s] = i
  <1>1. FsTypes /\ ClosersSound /\ InodesSound
    BY DEF Sound
  <1>2. /\ \A k \in alive : k \in Nat /\ k \in Sector /\ Stored(k) \subseteq Nat
        /\ \A r \in InodeId : r \in Live => Occupied(r) \subseteq Nat
    BY <1>1, ClaimsNat
  <1>3. CASE OpenInodes(i) = {}
    <2>1. Extent(i) = Stored(i)
      BY <1>3 DEF Extent, Stored
    <2> QED
      BY <1>2, <2>1 DEF Owners, OwnedBy
  <1>4. CASE OpenInodes(i) # {}
    <2>1. PICK o : o = Min(OpenInodes(i))
      OBVIOUS
    <2>2. OpenInodes(i) \subseteq Nat
      BY DiskFsAssumption DEF OpenInodes, Live, InodeId
    <2>3. o \in OpenInodes(i)
      BY <1>4, <2>1, <2>2, MinIsMember
    <2>4. o \in InodeId /\ o \in Live /\ inodes[o].refs > 0 /\ inodes[o].sector = i
      BY <2>3 DEF OpenInodes, Live
    <2>5. Extent(i) = Occupied(o)
      BY <1>4, <2>1 DEF Extent, Occupied
    <2> QED
      BY <1>2, <2>4, <2>5 DEF Owners, OwnedBy
  <1> QED
    BY <1>3, <1>4

(* No two files share a sector, and their sectors are taken in the free    *)
(* map, whatever the interleaving of create, write, resize, close and      *)
(* remove, and across resets with unmount() or without, unless a lookup    *)
(* has gone stale or a sector was taken between unmount() and the reset.   *)
THEOREM FilesAreDisjoint == Spec => []SectorsDisjoint
  <1>1. FsInv => SectorsDisjoint
    <2> SUFFICES ASSUME Sound, NEW i \in alive
                 PROVE  /\ Sectors(i) \subseteq bits \ Reserved
                        /\ i \notin Extent(i)
                        /\ \A j \in alive \ {i} : Sectors(i) \cap Sectors(j) = {}
      BY DEF FsInv, SectorsDisjoint
    <2>1. PICK use, own : Owners(use, own)
      BY DEF Sound, SectorsOwned
    <2>2. \A k \in alive : \A s \in Sectors(k) :
             /\ s \in Nat /\ own[s] = k
             /\ use[s] = "data" \/ (use[s] = "inode" /\ s = k)
      <3> SUFFICES ASSUME NEW k \in alive, NEW s \in Sectors(k)
                   PROVE  /\ s \in Nat /\ own[s] = k
                          /\ use[s] = "data" \/ (use[s] = "inode" /\ s = k)
        OBVIOUS
      <3>1. \A t \in Extent(k) : t \in Nat /\ use[t] = "data" /\ own[t] = k
        BY <2>1, ExtentOwned
      <3>2. k \in Nat /\ use[k] = "inode" /\ own[k] = k
        BY <2>1, ClaimsNat DEF Sound, Owners
      <3> QED
        BY <3>1, <3>2 DEF Sectors
    <2>3. Sectors(i) \subseteq bits \ Reserved
      BY <2>1, <2>2 DEF Owners
    <2>4. i \notin Extent(i)
      <3>1. \A t \in Extent(i) : use[t] = "data"
        BY <2>1, ExtentOwned
      <3>2. use[i] = "inode"
        BY <2>1 DEF Owners
      <3> QED
        BY <3>1, <3>2
    <2>5. \A j \in alive \ {i} : Sectors(i) \cap Sectors(j) = {}
      BY <2>2
    <2> QED
      BY <2>3, <2>4, <2>5
  <1> QED
    BY <1>1, FsInvariant, PTL

(* Neither the remove() of an open file nor the close() that comes later   *)
(* leaves an entry of the root directory behind that names no file.        *)
THEOREM EntriesNameFiles == Spec => []DirSound
  <1>1. FsInv => DirSound
    <2>1. Sound => DOMAIN dir = 1..DirSize
      BY DEF Sound, FsTypes
    <2> QED
      BY <2>1 DEF FsInv, Sound, Named, DirSound
  <1> QED
    BY <1>1, FsInvariant, PTL

(* The place and the length that an open Inode gives a file are those that *)
(* its sector on the disk gives: every write_at, set_len and truncation    *)
(* flushes them.                                                           *)
THEOREM InodesAreFlushed == Spec => []MemoryMatchesDisk
  <1>1. FsInv => MemoryMatchesDisk
    <2> SUFFICES ASSUME Sound, NEW i \in alive, NEW o \in OpenInodes(i)
                 PROVE  disk[i] = [start |-> inodes[o].start, len |-> inodes[o].len]
      BY DEF FsInv, MemoryMatchesDisk
    <2>1. o \in InodeId /\ Serving(o) /\ inodes[o].sector = i
      BY DEF OpenInodes, Live, Serving
    <2> QED
      BY <2>1 DEF Sound, InodesSound
  <1> QED
    BY <1>1, FsInvariant, PTL

(* The file of a File has not been erased, even if it has been removed.    *)
THEOREM OpenFilesLive == Spec => []FilesAlive
  <1>1. FsInv => FilesAlive
    <2> SUFFICES ASSUME Sound, NEW p \in Proc, files[p] # Nobody
                 PROVE  files[p] \in Live /\ inodes[files[p]].sector \in alive
      BY DEF FsInv, FilesAlive
    <2>1. files[p] \in Live /\ inodes[files[p]].refs > 0
      BY ArcKeepsOpen DEF Sound
    <2>2. files[p] \in InodeId /\ Serving(files[p])
      BY <2>1 DEF Live, Serving
    <2> QED
      BY <2>1, <2>2 DEF Sound, InodesSound
  <1> QED
    BY <1>1, FsInvariant, PTL

-----------------------------------------------------------------------------
(* Who accounts for a sector: an entry of the root directory or a remove() *)
(* for a file, a create() for an inode to be, an Inode for its sectors.    *)
Wanted(i) ==
    \/ \E e \in DOMAIN dir : dir[e].name # Nobody /\ dir[e].inum = i
    \/ \E q \in Proc : pc[q] = "r_tag" /\ arg[q].inum = i

Creates(s) == \E q \in Proc : pc[q] = "c_inode" /\ arg[q].inum = s
OfFile(s)  == \E i \in alive : Wanted(i) /\ (s = i \/ s \in Stored(i))
OfInode(s) == \E o \in Live : s \in Answers(inodes[o])

Accounted(s) == s \in Reserved \/ Creates(s) \/ OfFile(s) \/ OfInode(s)

LEMMA LostMeans ==
    ASSUME NEW s
    PROVE  /\ s \in Lost <=> s \in bits /\ ~Accounted(s)
           /\ s \in Lost' <=> s \in bits' /\ ~Accounted(s)'
  <1>1. s \in Lost <=> s \in bits /\ ~Accounted(s)
    <2> DEFINE named    == {dir[e].inum : e \in {d \in DOMAIN dir : dir[d].name # Nobody}}
               removing == {arg[p].inum : p \in {q \in Proc : pc[q] = "r_tag"}}
               creating == {arg[p].inum : p \in {q \in Proc : pc[q] = "c_inode"}}
               ofFile(i) == {i} \cup Run(disk[i].start, bytes_to_sectors(disk[i].len))
               filed  == UNION {ofFile(i) : i \in (named \cup removing) \cap alive}
               opened == UNION {Answers(inodes[o]) : o \in Live}
    <2>1. Lost = bits \ (Reserved \cup creating \cup filed \cup opened)
      BY DEF Lost
    <2>2. \A i : i \in named \cup removing <=> Wanted(i)
      BY DEF Wanted
    <2>3. \A i : s \in ofFile(i) <=> s = i \/ s \in Stored(i)
      BY DEF Stored
    <2>4. s \in filed <=> OfFile(s)
      <3> HIDE DEF named, removing, ofFile
      <3> QED
        BY <2>2, <2>3 DEF OfFile
    <2>5. s \in creating <=> Creates(s)
      BY DEF Creates
    <2>6. s \in opened <=> OfInode(s)
      BY DEF OfInode
    <2> HIDE DEF creating, filed, opened
    <2> QED
      BY <2>1, <2>4, <2>5, <2>6 DEF Accounted
  <1>2. s \in Lost' <=> s \in bits' /\ ~Accounted(s)'
    <2> DEFINE named    == {dir'[e].inum : e \in {d \in DOMAIN dir' : dir'[d].name # Nobody}}
               removing == {arg'[p].inum : p \in {q \in Proc : pc'[q] = "r_tag"}}
               creating == {arg'[p].inum : p \in {q \in Proc : pc'[q] = "c_inode"}}
               ofFile(i) == {i} \cup Run(disk'[i].start, bytes_to_sectors(disk'[i].len))
               filed  == UNION {ofFile(i) : i \in (named \cup removing) \cap alive'}
               opened == UNION {Answers(inodes'[o]) : o \in Live'}
    <2>1. Lost' = bits' \ (Reserved \cup creating \cup filed \cup opened)
      BY DEF Lost
    <2>2. \A i : i \in named \cup removing <=> Wanted(i)'
      BY DEF Wanted
    <2>3. \A i : s \in ofFile(i) <=> s = i \/ s \in Stored(i)'
      BY DEF Stored
    <2>4. s \in filed <=> OfFile(s)'
      <3> HIDE DEF named, removing, ofFile
      <3> QED
        BY <2>2, <2>3 DEF OfFile
    <2>5. s \in creating <=> Creates(s)'
      BY DEF Creates
    <2>6. s \in opened <=> OfInode(s)'
      BY DEF OfInode
    <2> HIDE DEF creating, filed, opened
    <2> QED
      BY <2>1, <2>4, <2>5, <2>6 DEF Accounted
  <1> QED
    BY <1>1, <1>2

(* Of the calls only that of p has moved.                                  *)
OthersWait(p) == \A q \in Proc : q # p => pc'[q] = pc[q] /\ arg'[q] = arg[q]

LEMMA GotoLeavesOthers ==
    ASSUME FsTypes, NEW p, NEW l, NEW a, Goto(p, l, a)
    PROVE  OthersWait(p)
  BY DEF FsTypes, Goto, OthersWait

(* No Inode answers for less.                                              *)
InodesAnswer == \A o \in Live : o \in Live' /\ Answers(inodes[o]) \subseteq Answers(inodes'[o])

(* Somebody accounts for a whole file.                                     *)
Served(i) ==
    \/ Wanted(i)
    \/ \E o \in Live : ({i} \cup Stored(i)) \subseteq Answers(inodes[o])

(* A step that frees and takes nothing.                                    *)
LEMMA QuietLosesNothing ==
    ASSUME NEW p \in Proc, OthersWait(p), pc[p] # "c_inode",
           bits' = bits, disk' = disk, alive' = alive, InodesAnswer,
           \A i \in alive : Wanted(i) => Served(i)'
    PROVE  Lost' \subseteq Lost
  <1> SUFFICES ASSUME NEW s \in Lost', s \notin Lost PROVE FALSE
    OBVIOUS
  <1>1. s \in bits /\ ~Accounted(s)'
    BY LostMeans
  <1>2. Accounted(s)
    BY <1>1, LostMeans
  <1>3. Creates(s) => Creates(s)'
    BY DEF Creates, OthersWait
  <1>4. ASSUME OfFile(s)
        PROVE  OfFile(s)' \/ OfInode(s)'
    <2>1. PICK i \in alive : Wanted(i) /\ (s = i \/ s \in Stored(i))
      BY <1>4 DEF OfFile
    <2>2. Stored(i)' = Stored(i)
      BY DEF Stored
    <2>3. CASE Wanted(i)'
      BY <2>1, <2>2, <2>3 DEF OfFile
    <2>4. CASE ~Wanted(i)'
      <3>1. PICK o \in Live' : ({i} \cup Stored(i)') \subseteq Answers(inodes'[o])
        BY <2>1, <2>4 DEF Served
      <3> QED
        BY <2>1, <2>2, <3>1 DEF OfInode
    <2> QED
      BY <2>3, <2>4
  <1>5. OfInode(s) => OfInode(s)'
    BY DEF OfInode, InodesAnswer
  <1> QED
    BY <1>1, <1>2, <1>3, <1>4, <1>5 DEF Accounted

(* The entries stay, and the call is no remove() that has made one invalid.*)
LEMMA StillWanted ==
    ASSUME NEW p \in Proc, OthersWait(p), pc[p] # "r_tag", dir' = dir
    PROVE  \A i : Wanted(i) => Wanted(i)'
  BY DEF Wanted, OthersWait

LEMMA SameAnswer ==
    ASSUME inodes' = inodes
    PROVE  InodesAnswer
  BY DEF InodesAnswer, Live

(* The sectors behind the content of an Inode.                             *)
Behind(i) ==
    Run(i.start + bytes_to_sectors(i.len),
        bytes_to_sectors(i.len + i.shrink) - bytes_to_sectors(i.len))

LEMMA AnswersAre ==
    ASSUME NEW i \in Inode
    PROVE  /\ i.refs > 0 \/ i.removed => Answers(i) = {i.sector} \cup Area(i)
           /\ ~(i.refs > 0 \/ i.removed) => Answers(i) = Behind(i)
           /\ Behind(i) \subseteq Area(i)
           /\ Area(i) = Run(i.start, bytes_to_sectors(i.len)) \cup Behind(i)
  <1>1. i.start \in Nat /\ i.len \in Nat /\ i.shrink \in Nat
    BY DEF Inode
  <1>2. PICK c : c = bytes_to_sectors(i.len)
    OBVIOUS
  <1>3. PICK all : all = bytes_to_sectors(i.len + i.shrink)
    OBVIOUS
  <1>4. c \in Nat /\ all \in Nat /\ c <= all
    BY <1>1, <1>2, <1>3, SectorsNat, SectorsMono
  <1>5. \A s : s \in Run(i.start, all) <=> s \in Run(i.start, c) \cup Run(i.start + c, all - c)
    BY <1>1, <1>4 DEF Run
  <1>6. Run(i.start, all) = Run(i.start, c) \cup Run(i.start + c, all - c)
    BY <1>5
  <1>7. Behind(i) = Run(i.start + c, all - c) /\ Area(i) = Run(i.start, all)
    BY <1>2, <1>3 DEF Behind, Area
  <1>8. Area(i) = Run(i.start, bytes_to_sectors(i.len)) \cup Behind(i)
    BY <1>2, <1>6, <1>7
  <1>9. Answers(i) = IF i.refs > 0 \/ i.removed
                     THEN {i.sector} \cup Run(i.start, bytes_to_sectors(i.len)) \cup Behind(i) ELSE Behind(i)
    BY DEF Answers, Behind
  <1> QED
    BY <1>8, <1>9

(* One Inode becomes j, or is new.                                         *)
LEMMA OneInodeAnswers ==
    ASSUME FsTypes, NEW o \in InodeId, NEW j, j # Nobody, inodes' = [inodes EXCEPT ![o] = j],
           o \in Live => Answers(inodes[o]) \subseteq Answers(j)
    PROVE  InodesAnswer
  <1>1. \A k \in InodeId : inodes'[k] = IF k = o THEN j ELSE inodes[k]
    BY DEF FsTypes
  <1> QED
    BY <1>1 DEF InodesAnswer, Live

LEMMA AnswersGrow ==
    ASSUME NEW i \in Inode, NEW j \in Inode, j.sector = i.sector, j.start = i.start,
           j.len = i.len, j.shrink = i.shrink,
           i.refs > 0 \/ i.removed => j.refs > 0 \/ j.removed
    PROVE  Answers(i) \subseteq Answers(j)
  <1>1. Area(j) = Area(i) /\ Behind(j) = Behind(i)
    BY DEF Area, Behind
  <1>2. /\ i.refs > 0 \/ i.removed => Answers(i) = {i.sector} \cup Area(i)
        /\ ~(i.refs > 0 \/ i.removed) => Answers(i) = Behind(i)
        /\ Behind(i) \subseteq Area(i)
    BY AnswersAre
  <1>3. /\ j.refs > 0 \/ j.removed => Answers(j) = {j.sector} \cup Area(j)
        /\ ~(j.refs > 0 \/ j.removed) => Answers(j) = Behind(j)
    BY AnswersAre
  <1> QED
    BY <1>1, <1>2, <1>3

(* An open Inode answers for its file.                                     *)
LEMMA OpenAnswers ==
    ASSUME NEW i \in Inode, i.refs > 0 \/ i.removed, NEW k, i.sector = k,
           disk[k].start = i.start, disk[k].len = i.len
    PROVE  ({k} \cup Stored(k)) \subseteq Answers(i)
  <1>1. Stored(k) = Run(i.start, bytes_to_sectors(i.len))
    BY DEF Stored
  <1>2. Stored(k) \subseteq Area(i)
    BY <1>1, AreaHoldsFile
  <1>3. Answers(i) = {i.sector} \cup Area(i)
    BY AnswersAre
  <1> QED
    BY <1>2, <1>3

LEMMA GetsLosesNothing ==
    ASSUME Sound, NEW p \in Proc, Gets(p, arg[p].inum), pc[p] # "c_inode"
    PROVE  Lost' \subseteq Lost
  <1>1. FsTypes /\ InodesSound
    BY DEF Sound
  <1>2. PICK inum : inum = arg[p].inum
    OBVIOUS
  <1>3. ASSUME OthersWait(p), dir' = dir, alive' = alive, inum \in alive => Served(inum)'
        PROVE  \A i \in alive : Wanted(i) => Served(i)'
    BY <1>2, <1>3 DEF Served, Wanted, OthersWait
  <1>4. CASE \E l, a, f, o, j : Taken(p, l, a, f, o, j) /\ inodes[o].sector = inum
    <2>1. PICK l, a, f, o, j : Taken(p, l, a, f, o, j) /\ inodes[o].sector = inum
      BY <1>4
    <2>2. /\ OthersWait(p) /\ o \in Live /\ inodes[o].refs > 0
          /\ j \in Inode /\ j.sector = inodes[o].sector /\ j.start = inodes[o].start
          /\ j.len = inodes[o].len /\ j.shrink = inodes[o].shrink /\ j.refs = inodes[o].refs + 1
          /\ inodes' = [inodes EXCEPT ![o] = j]
          /\ bits' = bits /\ disk' = disk /\ dir' = dir /\ alive' = alive
      BY <2>1 DEF Taken, Moved, OthersWait
    <2>3. o \in InodeId /\ inodes[o] \in Inode /\ inodes[o].refs \in Nat /\ j.refs > 0 /\ j # Nobody
      BY <1>1, <2>2, LiveTyped, NothingAssumption
    <2>4. Answers(inodes[o]) \subseteq Answers(j)
      BY <2>2, <2>3, AnswersGrow
    <2>5. InodesAnswer
      BY <1>1, <2>2, <2>3, <2>4, OneInodeAnswers
    <2>6. Serving(o)
      BY <2>2 DEF Serving
    <2>7. disk[inum] = [start |-> j.start, len |-> j.len]
      BY <1>1, <2>1, <2>2, <2>3, <2>6 DEF InodesSound
    <2>8. ({inum} \cup Stored(inum)) \subseteq Answers(j)
      BY <2>1, <2>2, <2>3, <2>7, OpenAnswers
    <2>9. inodes'[o] = j /\ o \in Live' /\ Stored(inum)' = Stored(inum)
      BY <1>1, <2>2, <2>3 DEF FsTypes, Live, Stored
    <2>10. Served(inum)'
      BY <2>8, <2>9 DEF Served
    <2> QED
      BY <1>3, <2>2, <2>5, <2>10, QuietLosesNothing
  <1>5. CASE \E l, a, f, n, j : Reopened(p, l, a, f, n, inum, j)
    <2>1. PICK l, a, f, n, j : Reopened(p, l, a, f, n, inum, j)
      BY <1>5
    <2>2. /\ OthersWait(p) /\ n \in InodeId /\ n \notin Live
          /\ j \in Inode /\ j.sector = inum /\ j.start = disk[inum].start
          /\ j.len = disk[inum].len /\ j.shrink = 0 /\ j.refs = 1
          /\ inodes' = [inodes EXCEPT ![n] = j]
          /\ bits' = bits /\ disk' = disk /\ dir' = dir /\ alive' = alive
      BY <2>1 DEF Reopened, Moved, OthersWait
    <2>3. j # Nobody /\ j.refs > 0
      BY <2>2, NothingAssumption
    <2>4. InodesAnswer
      BY <1>1, <2>2, <2>3, OneInodeAnswers
    <2>5. ({inum} \cup Stored(inum)) \subseteq Answers(j)
      BY <2>2, <2>3, OpenAnswers
    <2>6. inodes'[n] = j /\ n \in Live' /\ Stored(inum)' = Stored(inum)
      BY <1>1, <2>2, <2>3 DEF FsTypes, Live, Stored
    <2>7. Served(inum)'
      BY <2>5, <2>6 DEF Served
    <2> QED
      BY <1>3, <2>2, <2>4, <2>7, QuietLosesNothing
  <1>6. CASE Idles(p) /\ (pc[p] = "r_tag" => ~Opens(inum))
    <2>1. PICK l \in Label, a \in Arg :
              Goto(p, l, a) /\ UNCHANGED <<bits, disk, dir, memVars, alive>>
      BY <1>6 DEF Idles
    <2>2. /\ OthersWait(p) /\ bits' = bits /\ disk' = disk /\ dir' = dir /\ alive' = alive
          /\ InodesAnswer
      BY <1>1, <2>1, GotoLeavesOthers, SameAnswer DEF memVars
    <2>3. pc[p] = "r_tag" => inum \notin alive
      BY <1>1, <1>6 DEF InodesSound, Opens
    <2>4. \A i \in alive : Wanted(i) => Wanted(i)'
      BY <1>2, <2>2, <2>3 DEF Wanted, OthersWait
    <2> QED
      BY <2>2, <2>4, QuietLosesNothing DEF Served
  <1> QED
    BY <1>2, <1>4, <1>5, <1>6 DEF Gets

(* A step of a call that leaves the disk and the Inodes alone.             *)
LEMMA CallLosesNothing ==
    ASSUME FsTypes, NEW p \in Proc, OthersWait(p), pc[p] \notin {"c_inode", "r_tag"},
           bits' = bits, disk' = disk, alive' = alive, inodes' = inodes, dir' = dir
    PROVE  Lost' \subseteq Lost
  <1>1. InodesAnswer
    BY SameAnswer
  <1>2. \A i : Wanted(i) => Wanted(i)'
    BY StillWanted
  <1> QED
    BY <1>1, <1>2, QuietLosesNothing DEF Served

LEMMA LooksLoseNothing ==
    ASSUME FsTypes, NEW p \in Proc, NEW n \in Name,
           CreateLook(p, n) \/ OpenLook(p, n) \/ RemoveFind(p, n)
    PROVE  Lost' \subseteq Lost
  <1>1. /\ bits' = bits /\ disk' = disk /\ alive' = alive /\ inodes' = inodes /\ dir' = dir
        /\ pc[p] \notin {"c_inode", "r_tag"}
    BY DEF CreateLook, OpenLook, RemoveFind, Begin, At, diskVars, memVars
  <1>2. PICK l, a : Goto(p, l, a)
    BY DEF CreateLook, OpenLook, RemoveFind
  <1> QED
    BY <1>1, <1>2, GotoLeavesOthers, CallLosesNothing

LEMMA FindLosesNothing ==
    ASSUME FsTypes, NEW p \in Proc, CreateFind(p) \/ OpenFind(p)
    PROVE  Lost' \subseteq Lost
  <1>1. /\ bits' = bits /\ disk' = disk /\ alive' = alive /\ inodes' = inodes /\ dir' = dir
        /\ pc[p] \notin {"c_inode", "r_tag"}
    BY DEF CreateFind, OpenFind, Find, At, diskVars, memVars
  <1>2. CASE Matches(arg[p].name) = {}
    <2>1. pc' = pc /\ arg' = arg
      BY <1>2 DEF CreateFind, OpenFind, Find, callVars
    <2> QED
      BY <1>1, <2>1, CallLosesNothing DEF OthersWait
  <1>3. CASE Matches(arg[p].name) # {}
    <2>1. PICK l, a : Goto(p, l, a)
      BY <1>3 DEF CreateFind, OpenFind, Find
    <2> QED
      BY <1>1, <2>1, GotoLeavesOthers, CallLosesNothing
  <1> QED
    BY <1>2, <1>3

LEMMA HandingLosesNothing ==
    ASSUME FsTypes, NEW p \in Proc, OpenInsert(p) \/ FileDrop(p)
    PROVE  Lost' \subseteq Lost
  <1>1. /\ bits' = bits /\ disk' = disk /\ alive' = alive /\ inodes' = inodes /\ dir' = dir
        /\ pc[p] \notin {"c_inode", "r_tag"}
    BY DEF OpenInsert, FileDrop, At, diskVars, histVars
  <1>2. PICK l, a : Goto(p, l, a)
    BY DEF OpenInsert, FileDrop, Return
  <1> QED
    BY <1>1, <1>2, GotoLeavesOthers, CallLosesNothing

(* The new entry takes the place of an invalid one.                        *)
LEMMA CreateInsertLosesNothing ==
    ASSUME FsTypes, NEW p \in Proc, CreateInsert(p)
    PROVE  Lost' \subseteq Lost
  <1>1. /\ bits' = bits /\ disk' = disk /\ alive' = alive /\ inodes' = inodes
        /\ pc[p] = "c_insert"
    BY DEF CreateInsert, At
  <1>2. CASE Matches(Nobody) # {}
    <2>1. PICK e : e = [name |-> arg[p].name, inum |-> arg[p].inum]
      OBVIOUS
    <2>2. Goto(p, "run", NoCall) /\ dir' = [dir EXCEPT ![first_invalid] = e]
      BY <1>2, <2>1 DEF CreateInsert, Return, Inserted
    <2>3. first_invalid \in 1..DirSize /\ dir[first_invalid].name = Nobody
      BY <1>2, LookupTyped DEF first_invalid
    <2>4. /\ DOMAIN dir' = DOMAIN dir
          /\ \A k \in DOMAIN dir : dir[k].name # Nobody => dir'[k] = dir[k]
      BY <2>2, <2>3
    <2>5. OthersWait(p)
      BY <2>2, GotoLeavesOthers
    <2>6. \A i : Wanted(i) => Wanted(i)'
      BY <1>1, <2>4, <2>5 DEF Wanted, OthersWait
    <2> QED
      BY <1>1, <2>5, <2>6, SameAnswer, QuietLosesNothing DEF Served
  <1>3. CASE Matches(Nobody) = {}
    <2>1. Goto(p, "drop", arg[p]) /\ dir' = dir
      BY <1>3 DEF CreateInsert
    <2> QED
      BY <1>1, <2>1, GotoLeavesOthers, CallLosesNothing
  <1> QED
    BY <1>2, <1>3

(* The entries of other files stay.                                        *)
LEMMA OtherEntriesStay ==
    ASSUME FsTypes, NEW k, dir' = Invalidated(dir, k)
    PROVE  /\ DOMAIN dir' = DOMAIN dir
           /\ \A e \in DOMAIN dir : dir[e].inum # k => dir'[e] = dir[e]
  BY DEF Invalidated

(* The file whose entries are made invalid is about to be tagged.          *)
LEMMA RemoveEntryLosesNothing ==
    ASSUME FsTypes, NEW p \in Proc, RemoveEntry(p)
    PROVE  Lost' \subseteq Lost
  <1>1. /\ bits' = bits /\ disk' = disk /\ alive' = alive /\ inodes' = inodes
        /\ pc[p] = "r_entry" /\ dir' = Invalidated(dir, arg[p].inum)
    BY DEF RemoveEntry, At, memVars, histVars
  <1>2. PICK a : a = arg[p]
    OBVIOUS
  <1>3. Goto(p, "r_tag", a)
    BY <1>2 DEF RemoveEntry
  <1>4. OthersWait(p) /\ pc'[p] = "r_tag" /\ arg'[p] = a
    BY <1>3, GotoLeavesOthers DEF Goto, FsTypes
  <1>5. \A e \in DOMAIN dir : e \in DOMAIN dir' /\ (dir[e].inum # a.inum => dir'[e] = dir[e])
    BY <1>1, <1>2, OtherEntriesStay
  <1>6. \A i : Wanted(i) => Wanted(i)'
    <2> SUFFICES ASSUME NEW i, Wanted(i), i # a.inum PROVE Wanted(i)'
      BY <1>4 DEF Wanted
    <2> QED
      BY <1>1, <1>4, <1>5 DEF Wanted, OthersWait
  <1> QED
    BY <1>1, <1>4, <1>6, SameAnswer, QuietLosesNothing DEF Served

LEMMA DropSomeLosesNothing ==
    ASSUME Sound, NEW p \in Proc, ArcDrop(p), inodes[arg[p].ino].refs # 1
    PROVE  Lost' \subseteq Lost
  <1>1. FsTypes /\ HoldersSound /\ RefsExact
    BY DEF Sound
  <1>2. PICK o : o = arg[p].ino
    OBVIOUS
  <1>3. Held(p) /\ pc[p] = "drop"
    BY DEF ArcDrop, At, Held, Holding
  <1>4. o \in Live /\ inodes[o].refs > 0 /\ o \in InodeId /\ inodes[o] \in Inode /\ inodes[o].refs \in Nat
    BY <1>1, <1>2, <1>3, ArcKeepsOpen, LiveTyped
  <1>5. PICK k : k = inodes[o].refs - 1
    OBVIOUS
  <1>6. k \in Nat /\ k > 0
    BY <1>2, <1>4, <1>5
  <1>7. PICK i \in Inode : i = inodes[o]
    BY <1>4
  <1>8. PICK j : j = [i EXCEPT !.refs = k]
    OBVIOUS
  <1>9. /\ j \in Inode /\ j.sector = i.sector /\ j.start = i.start
        /\ j.len = i.len /\ j.shrink = i.shrink /\ j.refs > 0 /\ j # Nobody
    BY <1>6, <1>7, <1>8, NothingAssumption DEF Inode
  <1>10. /\ inodes' = [inodes EXCEPT ![o] = [inodes[o] EXCEPT !.refs = inodes[o].refs - 1]]
         /\ Goto(p, "run", NoCall)
         /\ bits' = bits /\ disk' = disk /\ dir' = dir /\ alive' = alive
    BY <1>2 DEF ArcDrop, Return, diskVars, histVars
  <1>11. inodes' = [inodes EXCEPT ![o] = j]
    BY <1>5, <1>7, <1>8, <1>10, Zenon
  <1>12. Answers(inodes[o]) \subseteq Answers(j)
    BY <1>7, <1>9, AnswersGrow
  <1>13. InodesAnswer
    BY <1>1, <1>4, <1>9, <1>11, <1>12, OneInodeAnswers
  <1>14. OthersWait(p)
    BY <1>1, <1>10, GotoLeavesOthers
  <1>15. \A h : Wanted(h) => Wanted(h)'
    BY <1>3, <1>10, <1>14, StillWanted
  <1> QED
    BY <1>3, <1>10, <1>13, <1>14, <1>15, QuietLosesNothing DEF Served

(* What a resize gives up is freed, and what it takes is the Inode's.      *)
LEMMA ResizesLosesNothing ==
    ASSUME Sound, NEW p \in Proc, NEW l, NEW a, NEW f, NEW o, NEW r, Resizes(p, l, a, f, o, r)
    PROVE  Lost' \subseteq Lost
  <1>1. FsTypes /\ InodesSound /\ SectorsOwned
    BY DEF Sound
  <1>2. o \in InodeId /\ o \in Live /\ inodes[o].refs > 0 /\ inodes[o] \in Inode
    BY <1>1, LiveTyped DEF Resizes
  <1>3. PICK i \in Inode : i = inodes[o]
    BY <1>2
  <1>4. PICK j : j = r.inode
    OBVIOUS
  <1>5. inodes' = [inodes EXCEPT ![o] = j] /\ bits' = r.bits /\ disk' = r.disk
    BY <1>4 DEF Resizes, Store
  <1>6. Rewritten(i, j, bits', disk') /\ Trimmed(i, j, bits') /\ j.refs = i.refs
    BY <1>3, <1>4, <1>5 DEF Resizes, Resized
  <1>7. j \in Inode /\ j # Nobody /\ j.sector = i.sector
    BY <1>6, NothingAssumption DEF Rewritten
  <1>8. \A h \in InodeId : inodes'[h] = IF h = o THEN j ELSE inodes[h]
    BY <1>1, <1>5 DEF FsTypes
  <1>9. Live' = Live
    BY <1>2, <1>7, <1>8 DEF Live
  <1>10. /\ Answers(i) = {i.sector} \cup Area(i)
         /\ Answers(j) = {i.sector} \cup Area(j)
    BY <1>2, <1>3, <1>6, <1>7, AnswersAre
  <1>11. OthersWait(p) /\ dir' = dir /\ alive' = alive
    BY DEF Resizes, Handed, Moved, OthersWait
  <1>12. pc[p] \notin {"c_inode", "r_tag"}
    BY DEF Resizes
  <1> SUFFICES ASSUME NEW s \in Lost', s \notin Lost PROVE FALSE
    OBVIOUS
  <1>13. s \in bits' /\ ~Accounted(s)'
    BY LostMeans
  <1>14. s \notin Answers(j)
    BY <1>2, <1>8, <1>9, <1>13 DEF Accounted, OfInode
  <1>15. s \in bits /\ s \notin Area(i) /\ s # i.sector
    BY <1>6, <1>10, <1>13, <1>14 DEF Trimmed
  <1>16. Accounted(s)
    BY <1>15, LostMeans
  <1>17. Creates(s) => Creates(s)'
    BY <1>11, <1>12 DEF Creates, OthersWait
  <1>18. OfInode(s) => OfInode(s)'
    BY <1>3, <1>8, <1>9, <1>10, <1>15 DEF OfInode, Live
  <1>19. ASSUME OfFile(s)
         PROVE  OfFile(s)'
    <2>1. PICK k \in alive : Wanted(k) /\ (s = k \/ s \in Stored(k))
      BY <1>19 DEF OfFile
    <2>2. Wanted(k)'
      BY <1>11, <1>12, <2>1 DEF Wanted, OthersWait
    <2>3. CASE k = i.sector
      <3>1. Serving(o)
        BY <1>2 DEF Serving
      <3>2. disk[k] = [start |-> i.start, len |-> i.len]
        BY <1>1, <1>2, <1>3, <2>3, <3>1 DEF InodesSound
      <3>3. Stored(k) \subseteq Area(i)
        BY <3>2, AreaHoldsFile DEF Stored
      <3> QED
        BY <1>15, <2>1, <2>3, <3>3
    <2>4. CASE k # i.sector
      <3>1. PICK use, own : Owners(use, own)
        BY <1>1 DEF SectorsOwned
      <3>2. k \in Nat /\ use[k] = "inode" /\ k \in bits
        BY <1>1, <3>1, DiskSizeAssumption DEF Owners, FsTypes, Sector
      <3>3. \A t \in Area(i) : use[t] = "data"
        BY <1>2, <1>3, <3>1 DEF Owners, OwnedBy, Area, Occupied
      <3>4. disk'[k] = disk[k]
        BY <1>6, <2>4, <3>2, <3>3 DEF Rewritten
      <3>5. Stored(k)' = Stored(k)
        BY <3>4 DEF Stored
      <3> QED
        BY <1>11, <2>1, <2>2, <3>5 DEF OfFile
    <2> QED
      BY <2>3, <2>4
  <1> QED
    BY <1>13, <1>16, <1>17, <1>18, <1>19 DEF Accounted

(* The sector of the inode to be is that of the call.                      *)
LEMMA CreateAllocLosesNothing ==
    ASSUME Sound, NEW p \in Proc, CreateAlloc(p)
    PROVE  Lost' \subseteq Lost
  <1>1. FsTypes
    BY DEF Sound
  <1>2. pc[p] = "c_alloc" /\ disk' = disk /\ dir' = dir /\ inodes' = inodes /\ alive' = alive
    BY DEF CreateAlloc, At, memVars
  <1>3. PICK g : g = alloc(bits, 1)
    OBVIOUS
  <1>4. g.res \in {"ok", "err"} /\ (g.res = "err" => g.bits = bits)
    BY <1>3, AllocFails
  <1>5. bits' = g.bits
    BY <1>3 DEF CreateAlloc
  <1>6. CASE g.res = "err"
    <2>1. Goto(p, "run", NoCall)
      BY <1>3, <1>6 DEF CreateAlloc, Return
    <2> QED
      BY <1>1, <1>2, <1>4, <1>5, <1>6, <2>1, GotoLeavesOthers, CallLosesNothing
  <1>7. CASE g.res = "ok"
    <2>1. PICK n : n = g.start
      OBVIOUS
    <2>2. bits' = bits \cup {n}
      <3>1. bits \in SUBSET Sector
        BY <1>1 DEF FsTypes
      <3>2. alloc(bits, 1).res = "ok" /\ 1 \in Nat /\ 1 > 0
        BY <1>3, <1>7
      <3>3. /\ alloc(bits, 1).start \in Nat
            /\ alloc(bits, 1).bits = bits \cup Run(alloc(bits, 1).start, 1)
        BY <3>1, <3>2, AllocFinds, Zenon
      <3>4. n \in Nat /\ g.bits = bits \cup Run(n, 1)
        BY <1>3, <2>1, <3>3
      <3>5. Run(n, 1) = {n}
        BY <3>4 DEF Run
      <3> QED
        BY <1>5, <3>4, <3>5
    <2>3. PICK a : a = [arg[p] EXCEPT !.inum = n]
      OBVIOUS
    <2>4. a.inum = n
      BY <1>1, <2>3 DEF FsTypes, Arg
    <2>5. Goto(p, "c_inode", a)
      BY <1>3, <1>7, <2>1, <2>3 DEF CreateAlloc
    <2>6. OthersWait(p) /\ pc'[p] = "c_inode" /\ arg'[p] = a
      BY <1>1, <2>5, GotoLeavesOthers DEF Goto, FsTypes
    <2>7. InodesAnswer /\ \A i : Wanted(i) => Wanted(i)'
      BY <1>2, <2>6, SameAnswer, StillWanted
    <2> SUFFICES ASSUME NEW s \in Lost', s \notin Lost PROVE FALSE
      OBVIOUS
    <2>8. s \in bits' /\ ~Accounted(s)'
      BY LostMeans
    <2>9. Creates(n)'
      BY <2>4, <2>6 DEF Creates
    <2>10. s \in bits /\ Accounted(s)
      BY <2>2, <2>8, <2>9, LostMeans DEF Accounted
    <2>11. Creates(s) => Creates(s)'
      BY <1>2, <2>6 DEF Creates, OthersWait
    <2>12. OfFile(s) => OfFile(s)'
      BY <1>2, <2>7 DEF OfFile, Stored
    <2>13. OfInode(s) => OfInode(s)'
      BY <2>7 DEF OfInode, InodesAnswer
    <2> QED
      BY <2>8, <2>10, <2>11, <2>12, <2>13 DEF Accounted
  <1> QED
    BY <1>4, <1>6, <1>7

LEMMA CreateInodeLosesNothing ==
    ASSUME Sound, NEW p \in Proc, CreateInode(p)
    PROVE  Lost' \subseteq Lost
  <1>1. FsTypes /\ SectorsOwned
    BY DEF Sound
  <1>2. PICK inum : inum = arg[p].inum
    OBVIOUS
  <1>3. pc[p] = "c_inode" /\ inum \in Sector /\ inum \in Nat /\ arg[p] \in Arg
    BY <1>1, <1>2, DiskSizeAssumption DEF CreateInode, At, FsTypes, Arg, Sector
  <1>4. PICK n : n = NewInode
    OBVIOUS
  <1>5. n \in InodeId /\ n \notin Live
    BY <1>4, RoomForNew DEF CreateInode
  <1>6. PICK j : j = Created(inum)
    OBVIOUS
  <1>7. j \in Inode /\ j.sector = inum /\ j.refs = 1 /\ j # Nobody
    <2>1. j \in Inode /\ j.sector = inum /\ j.refs = 1
      BY <1>3, <1>6 DEF Created, Inode
    <2> QED
      BY <2>1, NothingAssumption
  <1>8. /\ disk' = Flushed(disk, j) /\ inodes' = [inodes EXCEPT ![n] = j]
        /\ alive' = alive \cup {inum} /\ bits' = bits /\ dir' = dir
    BY <1>2, <1>4, <1>6 DEF CreateInode
  <1>9. PICK a : a = [arg[p] EXCEPT !.ino = n]
    OBVIOUS
  <1>10. Goto(p, "c_insert", a)
    BY <1>4, <1>9 DEF CreateInode
  <1>11. OthersWait(p)
    BY <1>1, <1>10, GotoLeavesOthers
  <1>12. InodesAnswer
    BY <1>1, <1>5, <1>7, <1>8, OneInodeAnswers
  <1>13. \A i : Wanted(i) => Wanted(i)'
    BY <1>3, <1>8, <1>11, StillWanted
  <1>14. OfInode(inum)'
    <2>1. inodes'[n] = j /\ n \in Live'
      BY <1>1, <1>5, <1>7, <1>8 DEF FsTypes, Live
    <2>2. inum \in Answers(j)
      BY <1>7, AnswersAre
    <2> QED
      BY <2>1, <2>2 DEF OfInode
  <1>15. \A k \in alive : Stored(k)' = Stored(k)
    <2>1. PICK use, own : Owners(use, own)
      BY <1>1 DEF SectorsOwned
    <2>2. use[inum] = "call"
      BY <1>2, <1>3, <2>1 DEF Owners, OwnedBy, Pending
    <2>3. \A k \in alive : k # inum /\ k \in Sector
      BY <1>1, <2>1, <2>2 DEF Owners, FsTypes
    <2>4. disk \in [Sector -> {Data} \cup DiskInode]
      BY <1>1 DEF FsTypes
    <2>5. \A k \in Sector : k # inum => disk'[k] = disk[k]
      BY <1>7, <1>8, <2>4, FlushWrites
    <2> QED
      BY <2>3, <2>5 DEF Stored
  <1> SUFFICES ASSUME NEW s \in Lost', s \notin Lost PROVE FALSE
    OBVIOUS
  <1>16. s \in bits /\ ~Accounted(s)'
    BY <1>8, LostMeans
  <1>17. Accounted(s) /\ s # inum
    BY <1>14, <1>16, LostMeans DEF Accounted
  <1>18. Creates(s) => Creates(s)'
    BY <1>2, <1>11, <1>17 DEF Creates, OthersWait
  <1>19. OfFile(s) => OfFile(s)'
    BY <1>8, <1>13, <1>15 DEF OfFile
  <1>20. OfInode(s) => OfInode(s)'
    BY <1>12 DEF OfInode, InodesAnswer
  <1> QED
    BY <1>16, <1>17, <1>18, <1>19, <1>20 DEF Accounted

-----------------------------------------------------------------------------
(* The two ways to lose a sector: what close() rounds down, and a file     *)
(* without an entry whose last Arc is dropped.                             *)
Rounded(p, i, s) ==
    /\ pc[p] = "close" /\ pc'[p] # "close"
    /\ i.shrink % SECTOR_SIZE # 0
    /\ s = i.start + bytes_to_sectors(i.len + i.shrink) - 1

Nameless(p, i, s) ==
    /\ pc[p] = "drop" /\ pc'[p] = "close"
    /\ ~i.removed /\ \A e \in DOMAIN dir : dir[e].inum = i.sector => dir[e].name = Nobody
    /\ s \in {i.sector} \cup Run(i.start, bytes_to_sectors(i.len))

LosesFew ==
    \A s \in Lost' \ Lost : \E p \in Proc :
        Rounded(p, inodes[arg[p].ino], s) \/ Nameless(p, inodes[arg[p].ino], s)

(* With the last Arc the Inode leaves the file to the disk, unless that    *)
(* was removed.                                                            *)
LEMMA DropLastLoses ==
    ASSUME Sound, NEW p \in Proc, ArcDrop(p), inodes[arg[p].ino].refs = 1,
           NEW s \in Lost' \ Lost
    PROVE  Nameless(p, inodes[arg[p].ino], s)
  <1>1. FsTypes /\ HoldersSound /\ RefsExact /\ InodesSound
    BY DEF Sound
  <1>2. PICK o : o = arg[p].ino
    OBVIOUS
  <1>3. Held(p) /\ pc[p] = "drop"
    BY DEF ArcDrop, At, Held, Holding
  <1>4. o \in Live /\ inodes[o].refs = 1 /\ o \in InodeId /\ inodes[o] \in Inode
    BY <1>1, <1>2, <1>3, ArcKeepsOpen, LiveTyped
  <1>5. PICK i \in Inode : i = inodes[o]
    BY <1>4
  <1>6. PICK j : j = [i EXCEPT !.refs = 0]
    OBVIOUS
  <1>7. /\ j \in Inode /\ j.sector = i.sector /\ j.start = i.start /\ j.len = i.len
        /\ j.shrink = i.shrink /\ j.removed = i.removed /\ j.refs = 0
    BY <1>5, <1>6 DEF Inode
  <1>8. j # Nobody
    BY <1>7, NothingAssumption
  <1>9. /\ inodes' = [inodes EXCEPT ![o] = [inodes[o] EXCEPT !.refs = inodes[o].refs - 1]]
        /\ Goto(p, "close", arg[p])
        /\ bits' = bits /\ disk' = disk /\ dir' = dir /\ alive' = alive
    BY <1>2 DEF ArcDrop, diskVars, histVars
  <1>10. inodes[o].refs - 1 = 0
    BY <1>4
  <1>11. inodes' = [inodes EXCEPT ![o] = j]
    BY <1>5, <1>6, <1>9, <1>10, Zenon
  <1>12. OthersWait(p) /\ pc'[p] = "close"
    BY <1>1, <1>9, GotoLeavesOthers DEF Goto, FsTypes
  <1>13. \A h : Wanted(h) => Wanted(h)'
    BY <1>3, <1>9, <1>12, StillWanted
  <1>14. s \in bits /\ ~Accounted(s)' /\ Accounted(s)
    BY <1>9, LostMeans
  <1>15. Creates(s) => Creates(s)'
    BY <1>3, <1>12 DEF Creates, OthersWait
  <1>16. OfFile(s) => OfFile(s)'
    BY <1>9, <1>13 DEF OfFile, Stored
  <1>17. OfInode(s) /\ ~OfInode(s)' /\ ~OfFile(s)'
    BY <1>14, <1>15, <1>16 DEF Accounted
  <1>18. \A h \in InodeId : inodes'[h] = IF h = o THEN j ELSE inodes[h]
    BY <1>1, <1>11 DEF FsTypes
  <1>19. s \in Answers(i) /\ s \notin Answers(j)
    BY <1>4, <1>5, <1>8, <1>17, <1>18 DEF OfInode, Live
  <1>20. ~i.removed /\ s \in {i.sector} \cup Run(i.start, bytes_to_sectors(i.len))
    <2>1. /\ Area(j) = Area(i) /\ Behind(j) = Behind(i)
      BY <1>7 DEF Area, Behind
    <2>2. /\ Answers(i) = {i.sector} \cup Area(i)
          /\ Area(i) = Run(i.start, bytes_to_sectors(i.len)) \cup Behind(i)
      BY <1>4, <1>5, AnswersAre
    <2>3. IF i.removed THEN Answers(j) = {j.sector} \cup Area(j) ELSE Answers(j) = Behind(j)
      BY <1>7, AnswersAre
    <2> QED
      BY <1>7, <1>19, <2>1, <2>2, <2>3
  <1>21. ASSUME NEW e \in DOMAIN dir, dir[e].inum = i.sector, dir[e].name # Nobody
         PROVE  FALSE
    <2>1. Serving(o)
      BY <1>4 DEF Serving
    <2>2. i.sector \in alive /\ disk[i.sector] = [start |-> i.start, len |-> i.len]
      BY <1>1, <1>4, <1>5, <2>1 DEF InodesSound
    <2>3. s = i.sector \/ s \in Stored(i.sector)
      BY <1>20, <2>2 DEF Stored
    <2>4. OfFile(s)
      BY <1>21, <2>2, <2>3 DEF OfFile, Wanted
    <2> QED
      BY <1>16, <1>17, <2>4
  <1> QED
    BY <1>2, <1>3, <1>5, <1>12, <1>20, <1>21 DEF Nameless

(* Rounding down leaves one sector of the slack, and none if it is whole.  *)
LEMMA SectorsSlack ==
    ASSUME NEW a \in Nat, NEW b \in Nat, NEW t, t = b \div SECTOR_SIZE
    PROVE  /\ bytes_to_sectors(a + b) <= bytes_to_sectors(a) + t + 1
           /\ b % SECTOR_SIZE = 0 => bytes_to_sectors(a + b) = bytes_to_sectors(a) + t
  <1>1. PICK z \in Nat \ {0} : z = SECTOR_SIZE
    BY DiskFsAssumption
  <1>2. t \in Nat /\ b % z \in 0..(z - 1) /\ b = z * t + (b % z)
    BY <1>1
  <1>3. PICK x : x = (a + z - 1) \div z
    OBVIOUS
  <1>4. x \in Nat /\ z * x <= a + z - 1 /\ a + z - 1 < z * x + z
    BY <1>1, <1>3
  <1>5. PICK y : y = (a + b + z - 1) \div z
    OBVIOUS
  <1>6. y \in Nat /\ z * y <= a + b + z - 1 /\ a + b + z - 1 < z * y + z
    BY <1>1, <1>5
  <1>7. y <= x + t + 1
    BY <1>1, <1>2, <1>4, <1>6
  <1>8. b % z = 0 => y = x + t
    BY <1>1, <1>2, <1>4, <1>6
  <1> QED
    BY <1>1, <1>3, <1>5, <1>7, <1>8 DEF bytes_to_sectors

LEMMA BehindNotSlack ==
    ASSUME NEW i \in Inode, NEW s \in Behind(i), s \notin Slack(i)
    PROVE  /\ i.shrink % SECTOR_SIZE # 0
           /\ s = i.start + bytes_to_sectors(i.len + i.shrink) - 1
  <1>1. i.start \in Nat /\ i.len \in Nat /\ i.shrink \in Nat
    BY DEF Inode
  <1>2. PICK t : t = i.shrink \div SECTOR_SIZE
    OBVIOUS
  <1>3. PICK c : c = bytes_to_sectors(i.len)
    OBVIOUS
  <1>4. PICK all : all = bytes_to_sectors(i.len + i.shrink)
    OBVIOUS
  <1>5. t \in Nat /\ c \in Nat /\ all \in Nat
    <2>1. i.shrink \div SECTOR_SIZE \in Nat
      BY <1>1, SectorsTail
    <2>2. i.len + i.shrink \in Nat
      BY <1>1
    <2> QED
      BY <1>1, <1>2, <1>3, <1>4, <2>1, <2>2, SectorsNat
  <1>6. all <= c + t + 1 /\ (i.shrink % SECTOR_SIZE = 0 => all = c + t)
    BY <1>1, <1>2, <1>3, <1>4, SectorsSlack
  <1>7. s \in Run(i.start + c, all - c) /\ s \notin Run(i.start + c, t)
    BY <1>2, <1>3, <1>4 DEF Behind, Slack, TailSectors
  <1>8. s = i.start + all - 1 /\ all # c + t
    BY <1>1, <1>5, <1>6, <1>7 DEF Run
  <1> QED
    BY <1>4, <1>6, <1>8

(* close() frees the slack but for what it rounds down.                    *)
LEMMA InodeCloseLoses ==
    ASSUME Sound, NEW p \in Proc, InodeClose(p), NEW s \in Lost' \ Lost
    PROVE  Rounded(p, inodes[arg[p].ino], s)
  <1>1. FsTypes /\ ClosersSound /\ SectorsOwned
    BY DEF Sound
  <1>2. PICK o : o = arg[p].ino
    OBVIOUS
  <1>3. pc[p] = "close" /\ Closing(p)
    BY DEF InodeClose, At, Closing
  <1>4. o \in Live /\ o \in InodeId /\ inodes[o] \in Inode /\ inodes[o].refs = 0
    <2>1. o \in Live /\ inodes[o].refs = 0
      BY <1>1, <1>2, <1>3 DEF ClosersSound
    <2> QED
      BY <1>1, <2>1, LiveTyped
  <1>5. PICK i \in Inode : i = inodes[o]
    BY <1>4
  <1>6. bits' \subseteq bits /\ bits' \cap Slack(i) = {}
    <2>1. PICK n : n = i.start + bytes_to_sectors(i.len)
      OBVIOUS
    <2>2. PICK c : c = TailSectors(i)
      OBVIOUS
    <2>3. i.start \in Nat /\ i.len \in Nat /\ i.shrink \in Nat
      BY DEF Inode
    <2>4. n \in Nat /\ c \in Nat
      <3>1. bytes_to_sectors(i.len) \in Nat /\ i.shrink \div SECTOR_SIZE \in Nat
        BY <2>3, SectorsNat, SectorsTail
      <3> QED
        BY <2>1, <2>2, <2>3, <3>1 DEF TailSectors
    <2>5. Slack(i) = Run(n, c) /\ bits' = dealloc(bits, n, c)
      BY <1>2, <1>5, <2>1, <2>2 DEF Slack, InodeClose
    <2>6. Pending(p) = Slack(i)
      BY <1>2, <1>3, <1>5 DEF Pending, Slack
    <2>7. PICK use, own : Owners(use, own)
      BY <1>1 DEF SectorsOwned
    <2>8. \A t \in Slack(i) : t \in Nat /\ use[t] = "call"
      BY <1>1, <2>6, <2>7, PendingNat DEF Owners, OwnedBy
    <2>9. Run(n, c) \subseteq bits
      BY <2>5, <2>7, <2>8 DEF Owners
    <2> QED
      BY <2>4, <2>5, <2>9, DeallocFrees, DeallocFreesAll
  <1>7. disk' = disk /\ dir' = dir /\ alive' = alive
    BY DEF InodeClose, histVars
  <1>8. PICK l, a : Goto(p, l, a) /\ l \in {"erase", "run"}
    BY DEF InodeClose, Return
  <1>9. OthersWait(p) /\ pc'[p] # "close"
    BY <1>1, <1>8, GotoLeavesOthers DEF Goto, FsTypes
  <1>10. \A h : Wanted(h) => Wanted(h)'
    BY <1>3, <1>7, <1>9, StillWanted
  <1>11. s \in bits' /\ s \in bits /\ ~Accounted(s)' /\ Accounted(s)
    BY <1>6, LostMeans
  <1>12. Creates(s) => Creates(s)'
    BY <1>3, <1>9 DEF Creates, OthersWait
  <1>13. OfFile(s) => OfFile(s)'
    BY <1>7, <1>10 DEF OfFile, Stored
  <1>14. OfInode(s) /\ ~OfInode(s)'
    BY <1>11, <1>12, <1>13 DEF Accounted
  <1>15. /\ i.removed => Answers(i) = {i.sector} \cup Area(i)
         /\ ~i.removed => Answers(i) = Behind(i)
         /\ Area(i) = Run(i.start, bytes_to_sectors(i.len)) \cup Behind(i)
    BY <1>4, <1>5, AnswersAre
  <1>16. s \in Behind(i)
    <2>1. CASE i.removed
      <3>1. PICK j : j = [i EXCEPT !.shrink = 0]
        OBVIOUS
      <3>2. inodes' = [inodes EXCEPT ![o] = [inodes[o] EXCEPT !.shrink = 0]]
        BY <1>2, <1>5, <2>1 DEF InodeClose
      <3>3. inodes' = [inodes EXCEPT ![o] = j]
        BY <1>5, <3>1, <3>2, Zenon
      <3>4. j \in Inode /\ j.sector = i.sector /\ j.start = i.start /\ j.len = i.len /\ j.removed
        BY <2>1, <3>1 DEF Inode
      <3>5. j # Nobody
        BY <3>4, NothingAssumption
      <3>6. \A h \in InodeId : inodes'[h] = IF h = o THEN j ELSE inodes[h]
        BY <1>1, <3>3 DEF FsTypes
      <3>7. s \in Answers(i) /\ s \notin Answers(j)
        BY <1>4, <1>5, <1>14, <3>5, <3>6 DEF OfInode, Live
      <3>8. Answers(j) = {j.sector} \cup Area(j)
        BY <3>4, AnswersAre
      <3>9. Run(j.start, bytes_to_sectors(j.len)) \subseteq Area(j)
        BY <3>4, AreaHoldsFile
      <3> QED
        BY <1>15, <2>1, <3>4, <3>7, <3>8, <3>9
    <2>2. CASE ~i.removed
      <3>1. inodes' = [inodes EXCEPT ![o] = Nobody]
        BY <1>2, <1>5, <2>2 DEF InodeClose
      <3>2. \A h \in InodeId : h # o => inodes'[h] = inodes[h]
        BY <1>1, <3>1 DEF FsTypes
      <3>3. s \in Answers(i)
        BY <1>5, <1>14, <3>2 DEF OfInode, Live
      <3> QED
        BY <1>15, <2>2, <3>3
    <2> QED
      BY <2>1, <2>2
  <1>17. s \notin Slack(i)
    BY <1>6, <1>11
  <1>18. i.shrink % SECTOR_SIZE # 0 /\ s = i.start + bytes_to_sectors(i.len + i.shrink) - 1
    BY <1>16, <1>17, BehindNotSlack
  <1> QED
    BY <1>2, <1>3, <1>5, <1>9, <1>18 DEF Rounded

(* A file that is erased is freed as a whole.                              *)
LEMMA InodeEraseLosesNothing ==
    ASSUME Sound, NEW p \in Proc, InodeErase(p)
    PROVE  Lost' \subseteq Lost
  <1>1. FsTypes /\ ClosersSound /\ InodesSound /\ SectorsOwned
    BY DEF Sound
  <1>2. PICK o : o = arg[p].ino
    OBVIOUS
  <1>3. pc[p] = "erase" /\ Closing(p)
    BY DEF InodeErase, At, Closing
  <1>4. /\ o \in Live /\ o \in InodeId /\ inodes[o] \in Inode /\ Serving(o)
        /\ inodes[o].removed /\ inodes[o].shrink = 0
    <2>1. o \in Live /\ inodes[o].removed /\ inodes[o].shrink = 0
      BY <1>1, <1>2, <1>3 DEF ClosersSound
    <2> QED
      BY <1>1, <2>1, LiveTyped DEF Serving
  <1>5. PICK i \in Inode : i = inodes[o]
    BY <1>4
  <1>6. PICK k : k = i.sector
    OBVIOUS
  <1>7. PICK n : n = i.start
    OBVIOUS
  <1>8. PICK c : c = bytes_to_sectors(i.len)
    OBVIOUS
  <1>9. n \in Nat /\ c \in Nat /\ i.len \in Nat /\ i.len + i.shrink = i.len
    BY <1>4, <1>5, <1>7, <1>8, SectorsNat DEF Inode
  <1>10. k \in alive /\ Stored(k) = Run(n, c)
    <2>1. k \in alive /\ disk[k] = [start |-> i.start, len |-> i.len]
      BY <1>1, <1>4, <1>5, <1>6 DEF InodesSound
    <2> QED
      BY <1>7, <1>8, <2>1 DEF Stored
  <1>11. Answers(i) = {k} \cup Stored(k)
    <2>1. Area(i) = Run(n, c)
      BY <1>7, <1>8, <1>9 DEF Area
    <2> QED
      BY <1>4, <1>5, <1>6, <1>10, <2>1, AnswersAre
  <1>12. /\ bits' = dealloc(dealloc(bits, n, c), k, 1)
         /\ dir' = Invalidated(dir, k) /\ alive' = alive \ {k} /\ disk' = disk
         /\ inodes' = [inodes EXCEPT ![o] = Nobody] /\ Goto(p, "run", NoCall)
    BY <1>2, <1>5, <1>6, <1>7, <1>8 DEF InodeErase, Return
  <1>13. bits' \subseteq bits /\ k \notin bits' /\ bits' \cap Stored(k) = {}
    <2>1. PICK use, own : Owners(use, own)
      BY <1>1 DEF SectorsOwned
    <2>2. k \in Nat /\ Run(n, c) \subseteq Nat
      BY <1>1, <1>9, <1>10, DiskSizeAssumption DEF FsTypes, Sector, Run
    <2>3. k \in bits /\ use[k] = "inode" /\ \A t \in Run(n, c) : t \in bits /\ use[t] = "data"
      BY <1>10, <2>1, <2>2 DEF Owners, OwnedBy
    <2>4. PICK b : b = dealloc(bits, n, c)
      OBVIOUS
    <2>5. b \subseteq bits /\ bits \ Run(n, c) \subseteq b /\ b \cap Run(n, c) = {}
      BY <1>9, <2>3, <2>4, DeallocFrees, DeallocFreesAll
    <2>6. Run(k, 1) = {k}
      BY <2>2 DEF Run
    <2>7. Run(k, 1) \subseteq b /\ 1 \in Nat
      BY <2>3, <2>5, <2>6
    <2>8. bits' = dealloc(b, k, 1)
      BY <1>12, <2>4
    <2>9. bits' \subseteq b /\ bits' \cap Run(k, 1) = {}
      BY <2>2, <2>7, <2>8, DeallocFrees, DeallocFreesAll
    <2> QED
      BY <1>10, <2>5, <2>6, <2>9
  <1>14. OthersWait(p)
    BY <1>1, <1>12, GotoLeavesOthers
  <1>15. \A h : h # k /\ Wanted(h) => Wanted(h)'
    <2>1. \A e \in DOMAIN dir : e \in DOMAIN dir' /\ (dir[e].inum # k => dir'[e] = dir[e])
      BY <1>1, <1>12, OtherEntriesStay
    <2> QED
      BY <1>3, <1>14, <2>1 DEF Wanted, OthersWait
  <1> SUFFICES ASSUME NEW s \in Lost', s \notin Lost PROVE FALSE
    OBVIOUS
  <1>16. s \in bits' /\ s \in bits /\ ~Accounted(s)' /\ Accounted(s)
    BY <1>13, LostMeans
  <1>17. s # k /\ s \notin Stored(k)
    BY <1>13, <1>16
  <1>18. Creates(s) => Creates(s)'
    BY <1>3, <1>14 DEF Creates, OthersWait
  <1>19. OfFile(s) => OfFile(s)'
    BY <1>12, <1>15, <1>17 DEF OfFile, Stored
  <1>20. OfInode(s) => OfInode(s)'
    <2>1. \A h \in InodeId : h # o => inodes'[h] = inodes[h]
      BY <1>1, <1>12 DEF FsTypes
    <2> QED
      BY <1>5, <1>11, <1>17, <2>1 DEF OfInode, Live
  <1> QED
    BY <1>16, <1>18, <1>19, <1>20 DEF Accounted

LEMMA CallLoses ==
    ASSUME Sound, NEW p \in Proc, CallStep(p), ~stale'
    PROVE  LosesFew
  <1>1. FsTypes
    BY DEF Sound
  <1>2. ASSUME Lost' \subseteq Lost PROVE LosesFew
    BY <1>2 DEF LosesFew
  <1>3. CASE \E n \in Name : CreateLook(p, n) \/ OpenLook(p, n) \/ RemoveFind(p, n)
    BY <1>1, <1>2, <1>3, LooksLoseNothing
  <1>4. CASE CreateFind(p) \/ OpenFind(p)
    BY <1>1, <1>2, <1>4, FindLosesNothing
  <1>5. CASE CreateGet(p) \/ OpenRead(p) \/ RemoveTag(p) \/ OpenGet(p)
    <2>1. Gets(p, arg[p].inum)
      BY <1>5, CreateGetGets, OpenReadGets, RemoveTagGets, OpenGetGets
    <2>2. pc[p] # "c_inode"
      BY <1>5 DEF CreateGet, OpenRead, RemoveTag, OpenGet, At
    <2> QED
      BY <1>2, <2>1, <2>2, GetsLosesNothing
  <1>6. CASE CreateTrunc(p) \/ \E n \in Lens : WriteAt(p, n) \/ SetLen(p, n)
    BY <1>2, <1>6, CreateTruncResizes, WriteAtResizes, SetLenResizes, ResizesLosesNothing
  <1>7. CASE CreateAlloc(p) \/ CreateInode(p) \/ CreateInsert(p)
    BY <1>1, <1>2, <1>7, CreateAllocLosesNothing, CreateInodeLosesNothing, CreateInsertLosesNothing
  <1>8. CASE OpenInsert(p) \/ FileDrop(p) \/ RemoveEntry(p)
    BY <1>1, <1>2, <1>8, HandingLosesNothing, RemoveEntryLosesNothing
  <1>9. CASE ArcDrop(p)
    <2>1. CASE inodes[arg[p].ino].refs = 1
      BY <1>9, <2>1, DropLastLoses DEF LosesFew
    <2>2. CASE inodes[arg[p].ino].refs # 1
      BY <1>2, <1>9, <2>2, DropSomeLosesNothing
    <2> QED
      BY <2>1, <2>2
  <1>10. CASE InodeClose(p)
    BY <1>10, InodeCloseLoses DEF LosesFew
  <1>11. CASE InodeErase(p)
    BY <1>2, <1>11, InodeEraseLosesNothing
  <1> QED
    BY <1>3, <1>4, <1>5, <1>6, <1>7, <1>8, <1>9, <1>10, <1>11 DEF CallStep

LEMMA BootsCounted == Spec => [](boots \in Nat)
  <1>1. Init => boots \in Nat
    BY DEF Init
  <1>2. boots \in Nat /\ [Next]_vars => (boots \in Nat)'
    <2> SUFFICES ASSUME boots \in Nat, [Next]_vars
                 PROVE  boots' = boots \/ boots' = boots + 1
      OBVIOUS
    <2>1. CASE UNCHANGED vars \/ Rest \/ Unmount \/ Reset
      BY <2>1 DEF vars, histVars, bootVars, Rest, Unmount, Reset
    <2>2. ASSUME NEW p \in Proc, CallStep(p)
          PROVE  boots' = boots
      BY <2>2, CallsSaveNothing
    <2> QED
      BY <2>1, <2>2 DEF Next
  <1> QED
    BY <1>1, <1>2, PTL DEF Spec

(* Short of a reset, and as long as no lookup has gone stale, no step of   *)
(* any thread leaves a sector taken in the free map that no entry, no call *)
(* and no Inode accounts for, with two exceptions: the last sector of the  *)
(* slack that close() rounds down, and the file for which create() found   *)
(* no entry, when its last Arc is dropped.                                 *)
THEOREM SectorsStayAccounted == Spec => SectorsAccounted
  <1>1. FsInv /\ boots \in Nat /\ [Next]_vars =>
            [~stale' /\ boots' = boots =>
                 \A s \in Lost' \ Lost : \E p \in Proc :
                     LET i == inodes[arg[p].ino]
                     IN  \/ /\ pc[p] = "close" /\ pc'[p] # "close"
                            /\ i.shrink % SECTOR_SIZE # 0
                            /\ s = i.start + bytes_to_sectors(i.len + i.shrink) - 1
                         \/ /\ pc[p] = "drop" /\ pc'[p] = "close"
                            /\ ~i.removed /\ \A e \in DOMAIN dir :
                                                 dir[e].inum = i.sector => dir[e].name = Nobody
                            /\ s \in {i.sector} \cup Run(i.start, bytes_to_sectors(i.len))]_vars
    <2> SUFFICES ASSUME FsInv, boots \in Nat, Next, ~UNCHANGED vars, ~stale', boots' = boots
                 PROVE  LosesFew
      BY DEF LosesFew, Rounded, Nameless
    <2>1. Sound
      BY StaleStays DEF FsInv
    <2>2. CASE \E p \in Proc : CallStep(p)
      BY <2>1, <2>2, CallLoses
    <2>3. CASE Unmount
      <3>1. UNCHANGED <<diskVars, memVars, callVars, alive>>
        BY <2>3 DEF Unmount
      <3>2. Lost' = Lost
        BY <3>1 DEF Lost, Answers, Live, diskVars, memVars, callVars
      <3> QED
        BY <3>2 DEF LosesFew
    <2>4. CASE Reset
      BY <2>4 DEF Reset
    <2>5. CASE Rest
      BY <2>5 DEF Rest
    <2> QED
      BY <2>2, <2>3, <2>4, <2>5 DEF Next
  <1> QED
    BY <1>1, FsInvariant, BootsCounted, PTL DEF Spec, SectorsAccounted
=============================================================================
