-------------------------------- MODULE Fcfs --------------------------------
(***************************************************************************)
(* scheduler::fcfs::Fcfs: one deque, pushed at the front, popped at the    *)
(* back, whatever the priorities and whether or not the current thread     *)
(* could go on.                                                            *)
(***************************************************************************)
EXTENDS Integers, Sequences, SequencesExt

CONSTANTS Thread, NoThread

Default == <<>>

members(q) == ToSet(q)

(* Mutant: pushed at the end where schedule pops.                          *)
register_back(q, t) == q \o <<t>>

register(q, t) == <<t>> \o q

schedule(q) ==
    IF q = <<>> THEN [next |-> NoThread, queue |-> q]
                ELSE [next |-> Last(q), queue |-> Front(q)]

(* The schedulers that hold no thread twice.                               *)
Queues == UNION {SetToSeqs(T) : T \in SUBSET Thread}
=============================================================================
