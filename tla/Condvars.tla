------------------------------ MODULE Condvars ------------------------------
(***************************************************************************)
(* sync::Condvar with the Mutex its users hold.  Each call of wait() makes *)
(* a semaphore of its own; a thread is in one wait() at a time, so that    *)
(* the semaphore is named after the thread.  The mutex is a Sleep lock cut *)
(* down to its semaphore: what it does with priorities is in SleepLocks.   *)
(*                                                                         *)
(* wait() and the notifications run with interrupts on, except for the     *)
(* down() and up() they call.  notify_all() holds a borrow of the list     *)
(* through all its calls of up(), and up() may switch threads.             *)
(***************************************************************************)
EXTENDS Semaphores

CONSTANTS
    Lock,      \* the mutex, by the name of its semaphore
    MaxWaits   \* bound: how often each thread calls wait()

ASSUME CondvarAssumption ==
    /\ Lock \notin Thread
    /\ Sema = Thread \cup {Lock}
    /\ InitValue = [s \in Sema |-> IF s = Lock THEN 1 ELSE 0]
    /\ MaxWaits \in [Thread -> Nat]

VARIABLES
    cv,       \* Condvar: the semaphores of the waiting threads, its front first
    guard,    \* the thread that has the MutexGuard
    waits     \* history: the calls of wait()

condVars == <<cv, guard, waits>>
cvars    == <<vars, condVars>>

CondInit ==
    /\ Init
    /\ cv = <<>>
    /\ guard = NoThread
    /\ waits = [t \in Thread |-> 0]

Local(x) == arg' = [arg EXCEPT ![current] = x]

(* Semaphore::up in the middle of a function: on to label k, through a     *)
(* call of schedule() at label l if the woken thread preempts.             *)
UpThen(s, l, k) ==
    /\ UpFree(s) \/ UpWake(s)
    /\ Goto(IF UpPreempts(s) THEN l ELSE k)
    /\ UNCHANGED <<prioVars, timerVars, trapVars>>

-----------------------------------------------------------------------------
(* Mutex::lock, and the acquire() that ends wait(): down() on the mutex.   *)
AtLock ==
    \/ (Calls /\ guard # current)
    \/ At("wait_acquire")
    \/ At("down_loop") /\ arg[current] = Lock

LockTake ==
    /\ AtLock
    /\ DownTake(Lock)
    /\ guard' = current
    /\ Goto("run") /\ Local(NoArg)
    /\ UNCHANGED <<prioVars, timerVars, resched, cv, waits>>

LockBlock ==
    /\ AtLock
    /\ DownBlock(Lock)
    /\ Goto("down_loop") /\ Local(Lock)
    /\ UNCHANGED <<prioVars, timerVars, resched, condVars>>

(* Dropping the guard.  release() ends with a schedule() of its own.       *)
Unlock ==
    /\ Calls /\ guard = current
    /\ UpThen(Lock, "up_sched", "rel_sched")
    /\ guard' = NoThread
    /\ UNCHANGED <<arg, cv, waits>>

UnlockUpSchedule == UpScheduleThen("up_sched", "rel_sched") /\ UNCHANGED condVars
UnlockSchedule   == ScheduleThen("rel_sched", "run") /\ UNCHANGED <<semaVars, condVars>>

-----------------------------------------------------------------------------
(* Is the list borrowed by a notify_all() that is under way?               *)
Borrowed == \E t \in Thread : pc[t] \in {"all_up", "all_sched"}

(* Condvar::wait: a new semaphore at the front of the list.                *)
WaitPush ==
    /\ Calls /\ guard = current
    /\ waits[current] < MaxWaits[current]
    /\ waits' = [waits EXCEPT ![current] = @ + 1]
    /\ cv' = <<current>> \o cv
    /\ panic' = IF Borrowed THEN "borrow" ELSE panic
    /\ Goto("wait_release")
    /\ UNCHANGED <<current, status, rq, all, arg, prioVars, timerVars, trapVars, semaVars,
                   guard>>

WaitRelease ==
    /\ At("wait_release")
    /\ UpThen(Lock, "wait_up_sched", "wait_sched")
    /\ guard' = NoThread
    /\ UNCHANGED <<arg, cv, waits>>

WaitUpSchedule == UpScheduleThen("wait_up_sched", "wait_sched") /\ UNCHANGED condVars
WaitSchedule   == ScheduleThen("wait_sched", "wait_down") /\ UNCHANGED <<semaVars, condVars>>

AtWait == At("wait_down") \/ (At("down_loop") /\ arg[current] = current)

WaitTake ==
    /\ AtWait
    /\ DownTake(current)
    /\ Goto("wait_acquire") /\ Local(NoArg)
    /\ UNCHANGED <<prioVars, timerVars, resched, condVars>>

WaitBlock ==
    /\ AtWait
    /\ DownBlock(current)
    /\ Goto("down_loop") /\ Local(current)
    /\ UNCHANGED <<prioVars, timerVars, resched, condVars>>

-----------------------------------------------------------------------------
(* The priority that get_maxpriority reports for a waiter's semaphore: 0   *)
(* as long as the waiter has not got to down().                            *)
SeenPrio(t) == IF waiters[t] = <<>> THEN 0 ELSE prio[t]

(* Condvar::notify_one chooses the last of the highest, removes it from    *)
(* the list and then calls up().                                           *)
Chosen ==
    CHOOSE i \in DOMAIN cv :
        \A j \in DOMAIN cv :
            \/ SeenPrio(cv[j]) < SeenPrio(cv[i])
            \/ SeenPrio(cv[j]) = SeenPrio(cv[i]) /\ j <= i

NotifyOneRemove ==
    /\ Calls /\ guard = current
    /\ cv # <<>>
    /\ cv' = RemoveAt(cv, Chosen)
    /\ Local(cv[Chosen])
    /\ panic' = IF Borrowed THEN "borrow" ELSE panic
    /\ Goto("notify_up")
    /\ UNCHANGED <<current, status, rq, all, prioVars, timerVars, trapVars, semaVars,
                   guard, waits>>

NotifyOneUp ==
    /\ At("notify_up")
    /\ UpThen(arg[current], "notify_sched", "run")
    /\ Local(NoArg)
    /\ UNCHANGED condVars

NotifySchedule == UpScheduleThen("notify_sched", "run") /\ UNCHANGED condVars

(* Mutant: notify_all() without the mutex.                                 *)
NotifyAllBegin_unlocked ==
    /\ Calls
    /\ Local(1)
    /\ Goto("all_up")
    /\ UNCHANGED <<managerVars, prioVars, timerVars, trapVars, semaVars, condVars>>

(* Condvar::notify_all: up() for each semaphore of the list, then clear.   *)
NotifyAllBegin ==
    /\ Calls /\ guard = current
    /\ Local(1)
    /\ Goto("all_up")
    /\ UNCHANGED <<managerVars, prioVars, timerVars, trapVars, semaVars, condVars>>

NotifyAllUp ==
    /\ At("all_up")
    /\ arg[current] <= Len(cv)
    /\ UpThen(cv[arg[current]], "all_sched", "all_up")
    /\ Local(arg[current] + 1)
    /\ UNCHANGED condVars

NotifyAllSchedule == UpScheduleThen("all_sched", "all_up") /\ UNCHANGED condVars

(* Mutant: the list is not cleared.                                        *)
NotifyAllClear_kept ==
    /\ At("all_up")
    /\ arg[current] > Len(cv)
    /\ Local(NoArg)
    /\ Goto("run")
    /\ UNCHANGED <<managerVars, prioVars, timerVars, trapVars, semaVars, condVars>>

NotifyAllClear ==
    /\ At("all_up")
    /\ arg[current] > Len(cv)
    /\ cv' = <<>>
    /\ Local(NoArg)
    /\ Goto("run")
    /\ UNCHANGED <<managerVars, prioVars, timerVars, trapVars, semaVars, guard, waits>>

-----------------------------------------------------------------------------
CondStep ==
    \/ LockTake \/ LockBlock \/ Unlock \/ UnlockUpSchedule \/ UnlockSchedule
    \/ WaitPush \/ WaitRelease \/ WaitUpSchedule \/ WaitSchedule \/ WaitTake \/ WaitBlock
    \/ NotifyOneRemove \/ NotifyOneUp \/ NotifySchedule
    \/ NotifyAllBegin \/ NotifyAllUp \/ NotifyAllSchedule \/ NotifyAllClear

(* A thread drops its guard before it exits.  Sleeping is left to Threads. *)
OtherStep ==
    /\ \/ Yield \/ SpawnRegister \/ SetPriorityStore
       \/ ExitMark /\ guard # current
       \/ KernelStep \/ TimerInterrupt \/ TrapStep \/ Halted
    /\ UNCHANGED <<semaVars, condVars>>

CondNext == CondStep \/ OtherStep

CondSpec == CondInit /\ [][CondNext]_cvars

-----------------------------------------------------------------------------
(* t is in wait(), and has not got past the down() on its semaphore.       *)
Waiting(t) ==
    \/ pc[t] \in {"wait_release", "wait_up_sched", "wait_sched", "wait_down"}
    \/ pc[t] = "down_loop" /\ arg[t] = t

(* A notify_all() that is under way has called up() for this waiter.       *)
PassedByAll(t) ==
    \E n \in Thread : /\ pc[n] \in {"all_up", "all_sched"}
                      /\ \E i \in DOMAIN cv : cv[i] = t /\ i < arg[n]

(* A notify_one() has taken this waiter off the list and will call up().   *)
OwedUp(t) == \E n \in Thread : pc[n] = "notify_up" /\ arg[n] = t

(* A notification is neither lost nor given twice, wherever in wait() the  *)
(* waiter is and whoever runs between the steps of the notifier: a waiting *)
(* thread has the unit of its semaphore exactly when it has left the list  *)
(* or a notify_all() has passed it, and nobody still owes it one.          *)
NotifyExactlyOnce ==
    panic = "none" =>
        \A t \in Thread :
            LET notified == (t \notin ToSet(cv) /\ ~OwedUp(t)) \/ PassedByAll(t)
            IN  IF Waiting(t) THEN value[t] = (IF notified THEN 1 ELSE 0)
                ELSE value[t] = 0 /\ ~OwedUp(t) /\ (t \in ToSet(cv) => PassedByAll(t))

(* No caller that holds the mutex finds the list borrowed by a             *)
(* notify_all() whose calls of up() have switched threads, and no          *)
(* assertion of up(), wake_up() or the manager fails; wait() gives the     *)
(* mutex back and takes it again without a second owner slipping in.       *)
CondvarSafe ==
    /\ panic = "none"
    /\ value[Lock] = (IF guard = NoThread THEN 1 ELSE 0)
=============================================================================
