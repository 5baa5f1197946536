------------------------------ MODULE MCVirtio ------------------------------
(* The driver for TLC: client 0 reads, the others write.                   *)
EXTENDS Virtio

ReaderWriters == [c \in Client |-> {r \in Request : r.type = "In" <=> c = 0}]
=============================================================================
