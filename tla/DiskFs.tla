------------------------------- MODULE DiskFs -------------------------------
(***************************************************************************)
(* The disk file system: DISKFS with its free map, its root directory and  *)
(* its table of open inodes, the inodes, and the File that holds one.      *)
(*                                                                         *)
(* A Mutex keeps other threads out (see SleepLocks); a step is what a      *)
(* thread does from taking a lock to giving it back.  Where a thread takes *)
(* a lock while it holds another, the outer one is held across the steps   *)
(* if another thread can get between: that is the case for the root        *)
(* directory and the inode table in remove().  A sector is read or written *)
(* in one step.                                                            *)
(***************************************************************************)
EXTENDS FreeMap

CONSTANTS
    Proc,           \* threads
    Name,           \* paths
    Nobody,         \* no thread, no inode, no name
    Data,           \* what a sector holds that does not hold an inode
    SECTOR_SIZE,
    MapLen,         \* length of the bitmap, in sectors
    RootLen,        \* ROOT_DIR_SECTOR_LEN
    DirSize,        \* entries in the root directory
    Lens,           \* bound: the lengths files are written or set to
    MaxInodes,      \* bound: Inode objects in memory
    MaxCalls,       \* bound: calls, of all threads together
    MaxBoots        \* bound: resets, each with the mount that follows

(* Formatting a disk that cannot hold the map and the root directory       *)
(* stops the kernel.                                                       *)
ASSUME DiskFsAssumption ==
    /\ SECTOR_SIZE \in Nat \ {0}
    /\ {MapLen, RootLen, DirSize, MaxInodes, MaxCalls, MaxBoots} \subseteq Nat
    /\ 2 + MapLen + RootLen < DiskSize
    /\ Lens \subseteq Nat
    /\ IsFiniteSet(Proc)

FREE_MAP_SECTOR == 0
ROOT_DIR_SECTOR == 1

bytes_to_sectors(bytes) == (bytes + SECTOR_SIZE - 1) \div SECTOR_SIZE

VARIABLES
    bits,       \* DiskFs::free_map
    disk,       \* what the sectors hold: a DiskInode [start, len], or Data
    dir,        \* DiskFs::root_dir: its entries; an invalid one has no name
    inodes,     \* the Inodes in memory, with the strong count of their Arc
    table,      \* DiskFs::inode_table; a Weak that has lost its Inode is Nobody
    files,      \* the Inode of the File a thread has
    root, tbl,  \* the holders of the locks of root_dir and inode_table
    pc, arg,    \* where a thread is in a call, and its local values
    alive,      \* history: the files that have been created and not erased
    stale,      \* history: Inode::open was given a file that was open or removed,
                \* or the free map that was mounted lacked sectors taken since
    calls,      \* history: the calls that have begun
    saved,      \* the free map on disk
    unmounted,  \* main has called unmount()
    boots,      \* history: the times the disk has been mounted again
    panic       \* "none", the assertion that stopped the kernel, or "torn"

diskVars == <<bits, disk, dir>>
memVars  == <<inodes, table, files>>
lockVars == <<root, tbl>>
callVars == <<pc, arg>>
bootVars == <<saved, unmounted, boots>>
histVars == <<alive, stale, calls, bootVars, panic>>
vars     == <<diskVars, memVars, lockVars, callVars, histVars>>

Sector    == 0..(DiskSize - 1)
InodeId   == 1..MaxInodes
DiskInode == [start : Nat, len : Nat]
Inode     == [sector : Sector, start : Nat, len : Nat, shrink : Nat,
              removed : BOOLEAN, refs : Nat]

(* The values that stand for nothing are none of the others.               *)
ASSUME NothingAssumption ==
    /\ Nobody \notin InodeId \cup Inode \cup Proc \cup Name
    /\ Data \notin DiskInode

NoCall  == [name |-> Nobody, inum |-> 0, ino |-> Nobody]
NoEntry == [name |-> Nobody, inum |-> 0]

(* FreeMap::new_format and the sectors of the root directory.              *)
Formatted ==
    LET map == alloc({FREE_MAP_SECTOR, ROOT_DIR_SECTOR}, MapLen)
    IN  alloc(map.bits, RootLen).bits

(* DiskFs::mount of a blank disk, which formats it.  new_format writes the *)
(* inode of the free map, not the map: the disk has an empty one.  The     *)
(* inodes of the free map and the root directory are never opened by name. *)
Init ==
    /\ bits = Formatted
    /\ disk = [s \in Sector |-> Data]
    /\ dir = [i \in 1..DirSize |-> NoEntry]
    /\ inodes = [o \in InodeId |-> Nobody]
    /\ table = [s \in Sector |-> Nobody]
    /\ files = [p \in Proc |-> Nobody]
    /\ root = Nobody /\ tbl = Nobody
    /\ pc = [p \in Proc |-> "run"]
    /\ arg = [p \in Proc |-> NoCall]
    /\ alive = {} /\ stale = FALSE
    /\ calls = 0
    /\ saved = {} /\ unmounted = FALSE
    /\ boots = 0
    /\ panic = "none"

-----------------------------------------------------------------------------
Live == {o \in InodeId : inodes[o] # Nobody}

(* The Inode that the next Arc::from makes, within the bound.              *)
Room     == InodeId \ Live # {}
NewInode == Min(InodeId \ Live)

At(p, l) == panic = "none" /\ pc[p] = l

(* A call begins: a thread has at most one File.                           *)
Begin(p) ==
    /\ At(p, "run") /\ calls < MaxCalls
    /\ calls' = calls + 1

Goto(p, l, a) == pc' = [pc EXCEPT ![p] = l] /\ arg' = [arg EXCEPT ![p] = a]
Return(p)     == Goto(p, "run", NoCall)

(* RootDir::path2inum: the first entry of that name.                       *)
Matches(n)   == {i \in DOMAIN dir : dir[i].name = n}
path2inum(n) == dir[Min(Matches(n))].inum

(* Mutant: only the first entry is compared.                               *)
Invalidated_first(d, inum) ==
    [i \in DOMAIN d |-> IF i = 1 /\ d[i].inum = inum THEN [d[i] EXCEPT !.name = Nobody] ELSE d[i]]

(* RootDir::remove: every entry of the inode loses its name.               *)
Invalidated(d, inum) ==
    [i \in DOMAIN d |-> IF d[i].inum = inum THEN [d[i] EXCEPT !.name = Nobody] ELSE d[i]]

(* RootDir::first_invalid and RootDir::insert.                             *)
first_invalid == Min(Matches(Nobody))
Inserted(n, inum) == [dir EXCEPT ![first_invalid] = [name |-> n, inum |-> inum]]

(* Inode::create makes an empty file, whose content is nowhere.            *)
Created(inum) == [sector |-> inum, start |-> 0, len |-> 0, shrink |-> 0,
                  removed |-> FALSE, refs |-> 1]

(* Inode::open fails if the sector does not hold an inode.                 *)
Opens(inum) == disk[inum] # Data

Opened(inum) == [sector |-> inum, start |-> disk[inum].start, len |-> disk[inum].len,
                 shrink |-> 0, removed |-> FALSE, refs |-> 1]

(* The Inodes of a sector that some Arc still refers to.                   *)
OpenInodes(inum) == {o \in Live : inodes[o].sector = inum /\ inodes[o].refs > 0}

(* Is this file open already, or removed?                                  *)
Stale(inum) ==
    \/ inum \notin alive
    \/ OpenInodes(inum) # {}
    \/ \E o \in Live : inodes[o].sector = inum /\ inodes[o].removed

-----------------------------------------------------------------------------
(* The DiskInode of i is written to its sector.                            *)
Flushed(d, i) == [d EXCEPT ![i.sector] = [start |-> i.start, len |-> i.len]]

Outcome(r, i, b, d) == [res |-> r, inode |-> i, bits |-> b, disk |-> d]

(* Mutant: the new length is not flushed.                                  *)
ResizeWithin_unflushed(i, newlen) ==
    Outcome("ok", [i EXCEPT !.len = newlen, !.shrink = i.len + i.shrink - newlen], bits, disk)

(* A lazy shrink, or growth into what an earlier one has left.             *)
ResizeWithin(i, newlen) ==
    LET fit == [i EXCEPT !.len = newlen, !.shrink = i.len + i.shrink - newlen]
    IN  Outcome("ok", fit, bits, Flushed(disk, fit))

(* Mutant: the old sectors are not freed.                                  *)
ResizeMove_kept(i, newlen) ==
    LET have   == bytes_to_sectors(i.len + i.shrink)
        moved  == alloc(bits, bytes_to_sectors(newlen))
        there  == [i EXCEPT !.start = moved.start, !.len = newlen, !.shrink = 0]
        copied == [s \in Sector |-> IF s \in Run(moved.start, have)
                                    THEN disk[i.start + (s - moved.start)] ELSE disk[s]]
    IN  IF moved.res = "err" THEN Outcome("err", i, bits, disk)
        ELSE Outcome("ok", there, moved.bits, Flushed(copied, there))

(* The file is copied to another place, and its old sectors are freed.     *)
ResizeMove(i, newlen) ==
    LET have   == bytes_to_sectors(i.len + i.shrink)
        moved  == alloc(bits, bytes_to_sectors(newlen))
        there  == [i EXCEPT !.start = moved.start, !.len = newlen, !.shrink = 0]
        copied == [s \in Sector |-> IF s \in Run(moved.start, have)
                                    THEN disk[i.start + (s - moved.start)] ELSE disk[s]]
    IN  IF moved.res = "err" THEN Outcome("err", i, bits, disk)
        ELSE Outcome("ok", there, dealloc(moved.bits, i.start, have), Flushed(copied, there))

(* Inode::resize_inner, under the locks of the inode and the free map.     *)
resize_inner(i, newlen) ==
    LET oldlen == i.len + i.shrink
        have   == bytes_to_sectors(oldlen)
        grown  == in_place_alloc(bits, i.start + have, bytes_to_sectors(newlen) - have)
        larger == [i EXCEPT !.len = newlen, !.shrink = 0]
    IN  IF newlen = i.len THEN Outcome("ok", i, bits, disk)
        ELSE IF newlen <= oldlen THEN ResizeWithin(i, newlen)
        ELSE CASE grown.res = "ok"    -> Outcome("ok", larger, grown.bits, Flushed(disk, larger))
               [] grown.res = "err"   -> ResizeMove(i, newlen)
               [] grown.res = "panic" -> Outcome("panic", i, bits, disk)

(* The outcome r of a resize is stored in inode o; a failed assertion      *)
(* stops the kernel.                                                       *)
Store(o, r) ==
    /\ inodes' = [inodes EXCEPT ![o] = r.inode]
    /\ bits' = r.bits
    /\ disk' = r.disk
    /\ panic' = IF r.res = "panic" THEN "past_end" ELSE panic

-----------------------------------------------------------------------------
(* DiskFs::create.  The path is looked up twice.                           *)
CreateLook(p, n) ==
    /\ Begin(p) /\ files[p] = Nobody
    /\ root = Nobody
    /\ Goto(p, IF Matches(n) # {} THEN "c_find" ELSE "c_alloc", [NoCall EXCEPT !.name = n])
    /\ UNCHANGED <<diskVars, memVars, lockVars, alive, stale, bootVars, panic>>

(* The unwrap() of the second lookup, in create() and in open().           *)
Find(p, l, k) ==
    /\ At(p, l) /\ root = Nobody
    /\ IF Matches(arg[p].name) = {}
       THEN panic' = "unwrap_path" /\ UNCHANGED callVars
       ELSE Goto(p, k, [arg[p] EXCEPT !.inum = path2inum(arg[p].name)]) /\ UNCHANGED panic
    /\ UNCHANGED <<diskVars, memVars, lockVars, alive, stale, calls, bootVars>>

CreateFind(p) == Find(p, "c_find", "c_get")

(* The Inode is taken from the table, or opened, but not entered there.    *)
CreateGet(p) ==
    /\ At(p, "c_get") /\ tbl = Nobody
    /\ LET inum == arg[p].inum
           o    == table[inum]
       IN  \/ /\ o # Nobody
              /\ inodes' = [inodes EXCEPT ![o].refs = @ + 1]
              /\ Goto(p, "c_trunc", [arg[p] EXCEPT !.ino = o])
              /\ UNCHANGED stale
           \/ /\ o = Nobody /\ Opens(inum) /\ Room
              /\ inodes' = [inodes EXCEPT ![NewInode] = Opened(inum)]
              /\ Goto(p, "c_trunc", [arg[p] EXCEPT !.ino = NewInode])
              /\ stale' = (stale \/ Stale(inum))
           \/ /\ o = Nobody /\ ~Opens(inum)
              /\ Return(p)
              /\ UNCHANGED <<inodes, stale>>
    /\ UNCHANGED <<diskVars, table, files, lockVars, alive, calls, bootVars, panic>>

(* An existing file is truncated.                                          *)
CreateTrunc(p) ==
    /\ At(p, "c_trunc")
    /\ Store(arg[p].ino, resize_inner(inodes[arg[p].ino], 0))
    /\ files' = [files EXCEPT ![p] = arg[p].ino]
    /\ Return(p)
    /\ UNCHANGED <<dir, table, lockVars, alive, stale, calls, bootVars>>

(* A new file: one sector for the inode, and none for its content.         *)
CreateAlloc(p) ==
    /\ At(p, "c_alloc")
    /\ LET got == alloc(bits, 1)
       IN  /\ bits' = got.bits
           /\ IF got.res = "ok" THEN Goto(p, "c_inode", [arg[p] EXCEPT !.inum = got.start])
              ELSE Return(p)
    /\ UNCHANGED <<disk, dir, memVars, lockVars, alive, stale, calls, bootVars, panic>>

(* Inode::create, and the entry in the table.                              *)
CreateInode(p) ==
    /\ At(p, "c_inode") /\ tbl = Nobody /\ Room
    /\ disk' = Flushed(disk, Created(arg[p].inum))
    /\ inodes' = [inodes EXCEPT ![NewInode] = Created(arg[p].inum)]
    /\ table' = [table EXCEPT ![arg[p].inum] = NewInode]
    /\ alive' = alive \cup {arg[p].inum}
    /\ Goto(p, "c_insert", [arg[p] EXCEPT !.ino = NewInode])
    /\ UNCHANGED <<bits, dir, files, lockVars, stale, calls, bootVars, panic>>

(* RootDir::insert at the first invalid entry.  If there is none, create() *)
(* fails and drops the Inode; its sector stays taken.                      *)
CreateInsert(p) ==
    /\ At(p, "c_insert") /\ root = Nobody
    /\ IF Matches(Nobody) # {}
       THEN /\ dir' = Inserted(arg[p].name, arg[p].inum)
            /\ files' = [files EXCEPT ![p] = arg[p].ino]
            /\ Return(p)
       ELSE Goto(p, "drop", arg[p]) /\ UNCHANGED <<dir, files>>
    /\ UNCHANGED <<bits, disk, inodes, table, lockVars, alive, stale, calls, bootVars, panic>>

-----------------------------------------------------------------------------
(* DiskFs::open: two lookups, then the table, then the disk, then the      *)
(* table again, under a lock each.                                         *)
OpenLook(p, n) ==
    /\ Begin(p) /\ files[p] = Nobody
    /\ root = Nobody /\ Matches(n) # {}
    /\ Goto(p, "o_find", [NoCall EXCEPT !.name = n])
    /\ UNCHANGED <<diskVars, memVars, lockVars, alive, stale, bootVars, panic>>

OpenFind(p) == Find(p, "o_find", "o_get")

OpenGet(p) ==
    /\ At(p, "o_get") /\ tbl = Nobody
    /\ LET o == table[arg[p].inum]
       IN  IF o # Nobody
           THEN /\ inodes' = [inodes EXCEPT ![o].refs = @ + 1]
                /\ files' = [files EXCEPT ![p] = o]
                /\ Return(p)
           ELSE Goto(p, "o_read", arg[p]) /\ UNCHANGED <<inodes, files>>
    /\ UNCHANGED <<diskVars, table, lockVars, alive, stale, calls, bootVars, panic>>

OpenRead(p) ==
    /\ At(p, "o_read")
    /\ IF Opens(arg[p].inum)
       THEN /\ Room
            /\ inodes' = [inodes EXCEPT ![NewInode] = Opened(arg[p].inum)]
            /\ stale' = (stale \/ Stale(arg[p].inum))
            /\ Goto(p, "o_insert", [arg[p] EXCEPT !.ino = NewInode])
       ELSE Return(p) /\ UNCHANGED <<inodes, stale>>
    /\ UNCHANGED <<diskVars, table, files, lockVars, alive, calls, bootVars, panic>>

OpenInsert(p) ==
    /\ At(p, "o_insert") /\ tbl = Nobody
    /\ table' = [table EXCEPT ![arg[p].inum] = arg[p].ino]
    /\ files' = [files EXCEPT ![p] = arg[p].ino]
    /\ Return(p)
    /\ UNCHANGED <<diskVars, inodes, lockVars, alive, stale, calls, bootVars, panic>>

-----------------------------------------------------------------------------
(* DiskFs::remove.  The lock of the root directory is taken a second time  *)
(* and held to the end, the Inode that remove() drops included; so is the  *)
(* lock of the table, if the Inode is found there.                         *)
RemoveFind(p, n) ==
    /\ Begin(p)
    /\ root = Nobody /\ Matches(n) # {}
    /\ Goto(p, "r_entry", [NoCall EXCEPT !.inum = path2inum(n)])
    /\ UNCHANGED <<diskVars, memVars, lockVars, alive, stale, bootVars, panic>>

RemoveEntry(p) ==
    /\ At(p, "r_entry") /\ root = Nobody
    /\ root' = p
    /\ dir' = Invalidated(dir, arg[p].inum)
    /\ Goto(p, "r_tag", arg[p])
    /\ UNCHANGED <<bits, disk, memVars, tbl, histVars>>

RemoveTag(p) ==
    /\ At(p, "r_tag") /\ tbl = Nobody
    /\ LET inum == arg[p].inum
           o    == table[inum]
       IN  \/ /\ o # Nobody
              /\ tbl' = p
              /\ inodes' = [inodes EXCEPT ![o].refs = @ + 1, ![o].removed = TRUE]
              /\ Goto(p, "drop", [arg[p] EXCEPT !.ino = o])
              /\ UNCHANGED <<root, stale>>
           \/ /\ o = Nobody /\ Opens(inum) /\ Room
              /\ inodes' = [inodes EXCEPT ![NewInode] = [Opened(inum) EXCEPT !.removed = TRUE]]
              /\ stale' = (stale \/ Stale(inum))
              /\ Goto(p, "drop", [arg[p] EXCEPT !.ino = NewInode])
              /\ UNCHANGED lockVars
           \/ /\ o = Nobody /\ ~Opens(inum)
              /\ root' = Nobody
              /\ Return(p)
              /\ UNCHANGED <<inodes, tbl, stale>>
    /\ UNCHANGED <<diskVars, table, files, alive, calls, bootVars, panic>>

-----------------------------------------------------------------------------
(* What a thread holds when a call ends.                                   *)
Unlock(p) == root' = (IF root = p THEN Nobody ELSE root) /\ tbl' = (IF tbl = p THEN Nobody ELSE tbl)

(* A File is dropped.                                                      *)
FileDrop(p) ==
    /\ At(p, "run") /\ files[p] # Nobody
    /\ files' = [files EXCEPT ![p] = Nobody]
    /\ Goto(p, "drop", [NoCall EXCEPT !.ino = files[p]])
    /\ UNCHANGED <<diskVars, inodes, table, lockVars, histVars>>

(* Mutant: the Inode is dropped with the first Arc.                        *)
ArcDrop_first(p) ==
    /\ At(p, "drop")
    /\ inodes' = [inodes EXCEPT ![arg[p].ino].refs = 0]
    /\ table' = [s \in Sector |-> IF table[s] = arg[p].ino THEN Nobody ELSE table[s]]
    /\ Goto(p, "close", arg[p])
    /\ UNCHANGED <<diskVars, files, lockVars, histVars>>

(* An Arc is dropped; with the last one the Weak in the table is lost, and *)
(* Inode::drop calls close().                                              *)
ArcDrop(p) ==
    /\ At(p, "drop")
    /\ LET o == arg[p].ino
       IN  /\ inodes' = [inodes EXCEPT ![o].refs = @ - 1]
           /\ IF inodes[o].refs = 1
              THEN /\ table' = [s \in Sector |-> IF table[s] = o THEN Nobody ELSE table[s]]
                   /\ Goto(p, "close", arg[p])
                   /\ UNCHANGED lockVars
              ELSE Return(p) /\ Unlock(p) /\ UNCHANGED table
    /\ UNCHANGED <<diskVars, files, histVars>>

(* Mutant: the number of sectors is rounded up.                            *)
TailSectors_up(i) == bytes_to_sectors(i.shrink)

(* The whole sectors that a lazy shrink has left, as close() counts them.  *)
TailSectors(i) == i.shrink \div SECTOR_SIZE

(* Inode::close: the sectors behind the end of the file are freed.         *)
InodeClose(p) ==
    /\ At(p, "close")
    /\ LET i == inodes[arg[p].ino]
       IN  /\ bits' = dealloc(bits, i.start + bytes_to_sectors(i.len), TailSectors(i))
           /\ IF i.removed
              THEN /\ inodes' = [inodes EXCEPT ![arg[p].ino].shrink = 0]
                   /\ Goto(p, "erase", arg[p])
                   /\ UNCHANGED lockVars
              ELSE /\ inodes' = [inodes EXCEPT ![arg[p].ino] = Nobody]
                   /\ Return(p) /\ Unlock(p)
    /\ UNCHANGED <<disk, dir, table, files, histVars>>

(* close() of a removed inode takes the lock of the root directory.        *)
InodeErase(p) ==
    /\ At(p, "erase") /\ root = Nobody
    /\ LET i == inodes[arg[p].ino]
       IN  /\ dir' = Invalidated(dir, i.sector)
           /\ bits' = dealloc(dealloc(bits, i.start, bytes_to_sectors(i.len)), i.sector, 1)
           /\ alive' = alive \ {i.sector}
    /\ inodes' = [inodes EXCEPT ![arg[p].ino] = Nobody]
    /\ Return(p)
    /\ UNCHANGED <<disk, table, files, lockVars, stale, calls, bootVars, panic>>

-----------------------------------------------------------------------------
(* Inode::write_at of a buffer that ends at `end`, from the beginning.     *)
WriteAt(p, end) ==
    /\ Begin(p) /\ files[p] # Nobody
    /\ LET i == inodes[files[p]]
           r == IF i.len < end THEN resize_inner(i, end) ELSE Outcome("ok", i, bits, disk)
           written == [s \in Sector |-> IF s \in Run(r.inode.start, bytes_to_sectors(end))
                                        THEN Data ELSE r.disk[s]]
       IN  Store(files[p], IF r.res = "ok" THEN [r EXCEPT !.disk = written] ELSE r)
    /\ UNCHANGED <<dir, table, files, lockVars, callVars, alive, stale, bootVars>>

(* File::set_len.                                                          *)
SetLen(p, newlen) ==
    /\ Begin(p) /\ files[p] # Nobody
    /\ Store(files[p], resize_inner(inodes[files[p]], newlen))
    /\ UNCHANGED <<dir, table, files, lockVars, callVars, alive, stale, bootVars>>

(* The end of main: unmount() writes the free map.  Other threads may be   *)
(* anywhere, and go on until the machine is reset.                         *)
Unmount ==
    /\ panic = "none" /\ ~unmounted /\ boots < MaxBoots
    /\ saved' = bits
    /\ unmounted' = TRUE
    /\ UNCHANGED <<diskVars, memVars, lockVars, callVars, alive, stale, calls, boots, panic>>

(* The machine is reset: after unmount(), or by the panic handler, which   *)
(* does not call it, at whatever point of the calls some part of the       *)
(* kernel has panicked.  Then the disk is mounted with the map it has.  If *)
(* that lacks sectors that were taken since it was written, files, inodes  *)
(* and even the directory may be handed out again: the model ends there.   *)
Reset ==
    /\ panic # "torn" /\ boots < MaxBoots
    /\ bits' = saved
    /\ stale' = (stale \/ ~(bits \subseteq saved))
    /\ inodes' = [o \in InodeId |-> Nobody]
    /\ table' = [s \in Sector |-> Nobody]
    /\ files' = [p \in Proc |-> Nobody]
    /\ root' = Nobody /\ tbl' = Nobody
    /\ pc' = [p \in Proc |-> "run"] /\ arg' = [p \in Proc |-> NoCall]
    /\ unmounted' = FALSE
    /\ boots' = boots + 1
    /\ panic' = IF bits \subseteq saved THEN "none" ELSE "torn"
    /\ UNCHANGED <<disk, dir, alive, calls, saved>>

(* The kernel has stopped, the calls have all been made, or a thread       *)
(* waits for the lock of the root directory, which it has itself.          *)
Rest ==
    /\ \/ panic # "none"
       \/ calls = MaxCalls /\ \A p \in Proc : pc[p] = "run" /\ files[p] = Nobody
       \/ \E p \in Proc : pc[p] = "erase" /\ root = p
    /\ UNCHANGED vars

CallStep(p) ==
    \/ \E n \in Name : CreateLook(p, n) \/ OpenLook(p, n) \/ RemoveFind(p, n)
    \/ CreateFind(p) \/ CreateGet(p) \/ CreateTrunc(p)
    \/ CreateAlloc(p) \/ CreateInode(p) \/ CreateInsert(p)
    \/ OpenFind(p) \/ OpenGet(p) \/ OpenRead(p) \/ OpenInsert(p)
    \/ RemoveEntry(p) \/ RemoveTag(p)
    \/ FileDrop(p) \/ ArcDrop(p) \/ InodeClose(p) \/ InodeErase(p)
    \/ \E n \in Lens : WriteAt(p, n) \/ SetLen(p, n)

Next == (\E p \in Proc : CallStep(p)) \/ Unmount \/ Reset \/ Rest

Spec == Init /\ [][Next]_vars

-----------------------------------------------------------------------------
(* The sectors that formatting takes: two inodes, the map and the root     *)
(* directory.                                                              *)
Reserved == 0..(1 + MapLen + RootLen)

(* The sectors of a file: by its Inode if it is open, else by the disk.    *)
Extent(i) ==
    LET open == OpenInodes(i)
    IN  IF open # {}
        THEN LET o == inodes[Min(open)] IN Run(o.start, bytes_to_sectors(o.len + o.shrink))
        ELSE Run(disk[i].start, bytes_to_sectors(disk[i].len))

Sectors(i) == {i} \cup Extent(i)

(* Whatever the interleaving of create, write, resize, close and remove,   *)
(* and across resets, with unmount() or without, no two files share a      *)
(* sector, an inode is not part of its own content, and every sector of a  *)
(* file is taken in the free map: as long as Inode::open was never given a *)
(* file that was open already, or has been removed, and no reset came      *)
(* between the taking of a sector and the next unmount().                  *)
SectorsDisjoint ==
    ~stale =>
        \A i \in alive :
            /\ Sectors(i) \subseteq bits \ Reserved
            /\ i \notin Extent(i)
            /\ \A j \in alive \ {i} : Sectors(i) \cap Sectors(j) = {}

(* Under the same condition every valid entry of the root directory names  *)
(* a file: neither the remove() of an open file nor the close() that comes *)
(* later leaves an entry behind.                                           *)
DirSound ==
    ~stale => \A i \in DOMAIN dir : dir[i].name # Nobody => dir[i].inum \in alive

(* The inode in memory is the one on disk: who opens the file after a      *)
(* reset finds the length and the place it had.                            *)
MemoryMatchesDisk ==
    ~stale => \A i \in alive : \A o \in OpenInodes(i) :
        disk[i] = [start |-> inodes[o].start, len |-> inodes[o].len]

(* A removed file lives on while a File refers to it.                      *)
FilesAlive ==
    ~stale => \A p \in Proc :
        files[p] # Nobody => files[p] \in Live /\ inodes[files[p]].sector \in alive

(* The sectors that an Inode answers for.  One that is only to be closed   *)
(* has left the file itself to the disk, unless that was removed.          *)
Answers(o) ==
    LET end  == bytes_to_sectors(o.len)
        tail == Run(o.start + end, bytes_to_sectors(o.len + o.shrink) - end)
    IN  IF o.refs > 0 \/ o.removed THEN {o.sector} \cup Run(o.start, end) \cup tail ELSE tail

(* The sectors that are taken and that nobody accounts for: no entry of    *)
(* the root directory, no create() or remove() that is under way, and no   *)
(* Inode.                                                                  *)
Lost ==
    LET named    == {dir[e].inum : e \in {d \in DOMAIN dir : dir[d].name # Nobody}}
        removing == {arg[p].inum : p \in {q \in Proc : pc[q] = "r_tag"}}
        creating == {arg[p].inum : p \in {q \in Proc : pc[q] = "c_inode"}}
        ofFile(i) == {i} \cup Run(disk[i].start, bytes_to_sectors(disk[i].len))
    IN  bits \ (Reserved \cup creating
                  \cup (UNION {ofFile(i) : i \in (named \cup removing) \cap alive})
                  \cup (UNION {Answers(inodes[o]) : o \in Live}))

(* Short of a reset, sectors are lost in two ways only: when an Inode is   *)
(* closed, the last sector of the slack that a lazy shrink has left, if    *)
(* that is no whole number of sectors and close() rounds it down; and when *)
(* the last Arc is dropped, the file itself, if it has not been removed    *)
(* and has no entry, because create() found the directory full.            *)
SectorsAccounted ==
    [][~stale' /\ boots' = boots =>
           \A s \in Lost' \ Lost : \E p \in Proc :
               LET i == inodes[arg[p].ino]
               IN  \/ /\ pc[p] = "close" /\ pc'[p] # "close"
                      /\ i.shrink % SECTOR_SIZE # 0
                      /\ s = i.start + bytes_to_sectors(i.len + i.shrink) - 1
                   \/ /\ pc[p] = "drop" /\ pc'[p] = "close"
                      /\ ~i.removed /\ \A e \in DOMAIN dir :
                                           dir[e].inum = i.sector => dir[e].name = Nobody
                      /\ s \in {i.sector} \cup Run(i.start, bytes_to_sectors(i.len))]_vars
=============================================================================
