------------------------------- MODULE MCHeap -------------------------------
(* The heap on a handful of pages of 16 bytes: blocks of 2 and 4 bytes,    *)
(* and requests of one, two and three pages.                               *)
EXTENDS Heap

SomeLayouts ==
    {[size |-> 1, align |-> 1], [size |-> 2, align |-> 4], [size |-> 5, align |-> 1],
     [size |-> 32, align |-> 1], [size |-> 40, align |-> 16]}
=============================================================================
