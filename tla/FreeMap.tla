------------------------------- MODULE FreeMap -------------------------------
(***************************************************************************)
(* fs::disk::free_map::FreeMap: the bitmap of disk sectors, as the set of  *)
(* the sectors whose bit is set.                                           *)
(***************************************************************************)
EXTENDS Integers, FiniteSetsExt

CONSTANT DiskSize    \* FreeMap::size, in sectors

ASSUME DiskSizeAssumption == DiskSize \in Nat

Run(start, cnt) == start..(start + cnt - 1)

(* Where alloc looks: the loop over 0..size-cnt leaves out the last place. *)
Places(bits, cnt) == {i \in 0..(DiskSize - cnt - 1) : Run(i, cnt) \cap bits = {}}

(* First fit.  No sectors are found at sector 0.                           *)
alloc(bits, cnt) ==
    IF cnt = 0 THEN [res |-> "ok", start |-> 0, bits |-> bits]
    ELSE IF Places(bits, cnt) = {} THEN [res |-> "err", start |-> 0, bits |-> bits]
    ELSE LET i == Min(Places(bits, cnt))
         IN  [res |-> "ok", start |-> i, bits |-> bits \cup Run(i, cnt)]

(* The test of a sector past the end of the disk is an assertion; a sector *)
(* in use before it ends the loop first.                                   *)
in_place_alloc(bits, start, cnt) ==
    IF Run(start, cnt) \cap bits # {} THEN [res |-> "err", bits |-> bits]
    ELSE IF cnt > 0 /\ start + cnt > DiskSize THEN [res |-> "panic", bits |-> bits]
    ELSE [res |-> "ok", bits |-> bits \cup Run(start, cnt)]

(* Frees up to the first sector whose bit is clear.                        *)
dealloc(bits, sector, cnt) ==
    bits \ {i \in Run(sector, cnt) : sector..i \subseteq bits}
=============================================================================
