------------------------- MODULE PriorityScheduler -------------------------
(***************************************************************************)
(* scheduler::priority::PriorityScheduler: one deque of threads for each   *)
(* priority.  A deque is a sequence whose first element is its front, the  *)
(* end where register pushes; schedule pops at the back.                   *)
(***************************************************************************)
EXTENDS Integers, Sequences, SequencesExt, Deques

CONSTANTS Thread, NoThread, MaxPrio

(* The priorities, each with its deque.                                    *)
Level == 0..MaxPrio

Default == [p \in Level |-> <<>>]

members(q) == UNION {ToSet(q[p]) : p \in Level}

(* Mutant: pushed at the end where schedule pops.                          *)
register_back(q, t, pr) == [q EXCEPT ![pr[t]] = @ \o <<t>>]

register(q, t, pr) == [q EXCEPT ![pr[t]] = <<t>> \o @]

(* One turn of update_priority's loop: the threads of deque i whose        *)
(* priority is no longer i go to the back of the deque of their priority.  *)
Rebucket(q, i, pr) ==
    IF q[i] = <<>> THEN q
    ELSE [p \in Level |-> LET moved == Retain(q[i], {t \in ToSet(q[i]) : pr[t] = p})
                          IN  IF p = i THEN moved ELSE q[p] \o moved]

(* Mutant: the deques are not brought up to date.                          *)
update_priority_skipped(q, pr) == q

update_priority(q, pr) ==
    LET turn[i \in Level] == Rebucket(IF i = 0 THEN q ELSE turn[i - 1], i, pr)
    IN  turn[MaxPrio]

(* The last thread of the highest deque in use, unless the current thread  *)
(* runs and has a higher priority.                                         *)
schedule(q, pr, cur, st) ==
    LET u    == update_priority(q, pr)
        used == {p \in Level : u[p] # <<>>}
        top  == Max(used)
    IN  IF used = {} \/ (st = "Running" /\ pr[Last(u[top])] < pr[cur])
        THEN [next |-> NoThread, queue |-> u]
        ELSE [next |-> Last(u[top]), queue |-> [u EXCEPT ![top] = Front(@)]]

(* The schedulers that hold no thread twice.                               *)
Queues ==
    LET Line(S) == UNION {SetToSeqs(T) : T \in SUBSET S}
    IN  {q \in [Level -> Line(Thread)] :
            \A p, r \in Level : p # r => ToSet(q[p]) \cap ToSet(q[r]) = {}}
=============================================================================
