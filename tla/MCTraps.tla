------------------------------- MODULE MCTraps -------------------------------
(* Traps for TLC.                                                          *)
EXTENDS Traps, TLC

Processes == Permutations(User)
==============================================================================
