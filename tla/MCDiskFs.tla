------------------------------ MODULE MCDiskFs ------------------------------
(* The disk file system on a disk of a few sectors of two bytes.           *)
EXTENDS DiskFs, TLC

Symmetry == Permutations(Proc) \cup Permutations(Name)
=============================================================================
