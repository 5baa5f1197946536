------------------------- MODULE MCThreadsPriority -------------------------
(* Threads under the priority scheduler, for TLC.                          *)
EXTENDS Threads, TLC

PS == INSTANCE PriorityScheduler

PSRegister(q, t, pr) == PS!register(q, t, pr)
PSSchedule(q, pr, cur, st) == PS!schedule(q, pr, cur, st)
PSMembers(q) == PS!members(q)
PSQueue == PS!Queues
PSEmpty == PS!Default

(* Threads that are spawned are interchangeable.                           *)
Spawned == Permutations(Thread \ {Initial, Idle})

Spawn1  == [t \in Thread |-> {1}]
Spawn12 == [t \in Thread |-> {1, 2}]
SpawnAny == [t \in Thread |-> Prio]
=============================================================================
