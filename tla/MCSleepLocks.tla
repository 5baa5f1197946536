---------------------------- MODULE MCSleepLocks ----------------------------
(* Sleep locks under the priority scheduler, for TLC.                      *)
EXTENDS SleepLocks

PS == INSTANCE PriorityScheduler

PSRegister(q, t, pr) == PS!register(q, t, pr)
PSSchedule(q, pr, cur, st) == PS!schedule(q, pr, cur, st)
PSMembers(q) == PS!members(q)
PSQueue == PS!Queues
PSEmpty == PS!Default

Unlocked == [l \in Sema |-> 1]

CONSTANTS init, idle, a, b

AllUse == [t \in Thread |-> Sema]

(* The chain: the initial thread contends for the first lock, b for the    *)
(* second, and a for both; a may hold one while it waits for the other.    *)
ChainUse == [t \in Thread |-> CASE t = init -> {1} [] t = b -> {2} [] OTHER -> Sema]

(* How often each thread takes a lock.                                     *)
TwiceInit == [t \in Thread |-> IF t = init THEN 2 ELSE 1]
TwiceA    == [t \in Thread |-> IF t = a THEN 2 ELSE 1]

Spawn23 == [t \in Thread |-> {2, 3}]

(* The one in the middle of the chain comes first: what b finds to pass on *)
(* from a to the initial thread may be more than b has itself.             *)
ChainSpawn == [t \in Thread |-> IF t = a THEN {3} ELSE {2}]

Spawned == Permutations(Thread \ {Initial, Idle})
=============================================================================
