------------------------- MODULE SchedulerContract -------------------------
(***************************************************************************)
(* What Manager needs from an implementation of the trait Schedule: a      *)
(* thread is never lost or duplicated, and None is only returned when the  *)
(* current thread can go on or nobody is queued.  The proofs about the     *)
(* manager rest on it; ThreadsProofs proves it of Fcfs and                 *)
(* PriorityScheduler, and TLC evaluates it for them.                       *)
(***************************************************************************)
EXTENDS Threads

(* Q holds the values of a scheduler, empty is its default, and the others *)
(* are its operations.                                                     *)
KeepsContract(Q, empty, Mem(_), Reg(_, _, _), Sch(_, _, _, _)) ==
    /\ empty \in Q /\ Mem(empty) = {}
    /\ \A q \in Q, pr \in [Thread -> Prio] :
         /\ Mem(q) \subseteq Thread
         /\ \A t \in Thread \ Mem(q) :
              /\ Reg(q, t, pr) \in Q
              /\ Mem(Reg(q, t, pr)) = Mem(q) \cup {t}
         /\ \A cur \in Thread, st \in Status :
              LET r == Sch(q, pr, cur, st) IN
              /\ r.queue \in Q
              /\ r.next = NoThread =>
                   /\ Mem(r.queue) = Mem(q)
                   /\ st = "Running" \/ Mem(q) = {}
              /\ r.next # NoThread =>
                   /\ r.next \in Mem(q)
                   /\ Mem(r.queue) = Mem(q) \ {r.next}

ASSUME Contract == KeepsContract(Queue, EmptyQueue, Members, Register, Schedule)

(* What the priority scheduler promises beyond that: nobody in the queue   *)
(* comes before the thread that will run next, and a running thread is     *)
(* left only for one of at least its own priority.  Fcfs does not promise  *)
(* it.                                                                     *)
ServesHighest(Q, Mem(_), Sch(_, _, _, _)) ==
    \A q \in Q, pr \in [Thread -> Prio], cur \in Thread, st \in Status :
        LET r == Sch(q, pr, cur, st) IN
        /\ r.next = NoThread => \A t \in Mem(q) : pr[t] <= pr[cur]
        /\ r.next # NoThread =>
             /\ \A t \in Mem(q) : pr[t] <= pr[r.next]
             /\ st = "Running" => pr[cur] <= pr[r.next]

HighestFirst == ServesHighest(Queue, Members, Schedule)

-----------------------------------------------------------------------------
(* The manager on a scheduler that keeps the contract.                     *)
ReadyIn(st) == {t \in Thread : st[t] = "Ready"}

(* What a call of schedule() with the statuses st relies on.               *)
Schedulable(st) ==
    /\ current \in Thread /\ prio \in [Thread -> Prio] /\ all \subseteq Thread
    /\ st \in [Thread -> Status]
    /\ rq \in Queue /\ Members(rq) = ReadyIn(st)
    /\ st[current] \in {"Running", "Blocked", "Dying"}
    /\ \A t \in Thread \ {current} : st[t] # "Running"
    /\ st[Idle] \in {"Ready", "Running"}

(* The local value of a thread fits the place it is at.                    *)
ArgOK ==
    /\ arg = [t \in Thread |-> arg[t]]
    /\ \A t \in Thread :
        /\ pc[t] = "spawn_all" => arg[t] \in Thread
        /\ pc[t] \in {"setprio_sched", "setprio_done"} => arg[t] \in Prio

IdleRuns == pc[Idle] = "run"

(* The inductive invariant: types, a manager that is fit for a call of     *)
(* schedule() between any two steps, and no failed assertion of the        *)
(* manager, unless a tick has woken the thread it interrupted.             *)
ThreadInv ==
    ~selfWoken => /\ ThreadTypeOK
                  /\ Schedulable(status)
                  /\ ArgOK
                  /\ IdleRuns
                  /\ panic \notin {"no_ready", "next_not_ready", "tail_ready"}
=============================================================================
