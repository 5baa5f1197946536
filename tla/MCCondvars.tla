----------------------------- MODULE MCCondvars -----------------------------
(* A condition variable under the priority scheduler, for TLC.             *)
EXTENDS Condvars

PS == INSTANCE PriorityScheduler

PSRegister(q, t, pr) == PS!register(q, t, pr)
PSSchedule(q, pr, cur, st) == PS!schedule(q, pr, cur, st)
PSMembers(q) == PS!members(q)
PSEmpty == PS!Default

Semas == Thread \cup {Lock}
Unlocked == [s \in Semas |-> IF s = Lock THEN 1 ELSE 0]

(* The threads that are spawned wait; the initial thread only notifies.    *)
OnceEach == [t \in Thread |-> IF t \in {Initial, Idle} THEN 0 ELSE 1]

Spawn12 == [t \in Thread |-> {1, 2}]

(* Threads that are spawned are interchangeable.                           *)
Spawned == Permutations(Thread \ {Initial, Idle})
=============================================================================
