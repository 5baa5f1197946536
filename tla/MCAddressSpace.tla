--------------------------- MODULE MCAddressSpace ---------------------------
(* Address spaces for TLC: tables of two entries, the lower half the       *)
(* user's.                                                                 *)
EXTENDS AddressSpace, TLC

UpperHalf == {<<1, 0, 0>>, <<1, 1, 0>>}

(* A program of one segment of two pages, and one of two segments.         *)
TwoPrograms == {<<<<0, 0, 0>>, <<0, 0, 1>>>>, <<<<0, 0, 0>>, <<0, 1, 0>>>>}

TopPage == <<0, 1, 1>>

Loaders == Permutations(Loader) \cup Permutations(Proc)
=============================================================================
