------------------------- MODULE MCContractFcfs ----------------------------
(* The first-come scheduler against the contract, and the manager on it.   *)
EXTENDS SchedulerContract

FS == INSTANCE Fcfs

FSRegister(q, t, pr) == FS!register(q, t)
FSSchedule(q, pr, cur, st) == FS!schedule(q)
FSMembers(q) == FS!members(q)
FSQueue == FS!Queues
FSEmpty == FS!Default

Spawn1  == [t \in Thread |-> {1}]
Spawn12 == [t \in Thread |-> {1, 2}]
SpawnAny == [t \in Thread |-> Prio]
=============================================================================
