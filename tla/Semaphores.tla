----------------------------- MODULE Semaphores -----------------------------
(***************************************************************************)
(* sync::Semaphore on top of the kernel threads.  down() and up() run with *)
(* interrupts off; down() gives up the processor inside that stretch, and  *)
(* up() restores its caller's interrupts before it calls schedule().  The  *)
(* callers have interrupts on or off: where schedule_tail drops the last   *)
(* Arc of a dead process, its File is closed under a lock with interrupts  *)
(* off.                                                                    *)
(*                                                                         *)
(* DownTake, DownBlock, UpFree and UpWake say what a call does to the      *)
(* semaphore and the threads; the caller's pc and local value are left to  *)
(* the actions, because locks and condition variables call down() and up() *)
(* from places of their own.                                               *)
(***************************************************************************)
EXTENDS Threads, Sequences, SequencesExt

CONSTANTS
    Sema,       \* the semaphores
    InitValue,  \* the argument of Semaphore::new
    MaxValue    \* bound: up() is not called beyond this value

ASSUME SemaAssumption == InitValue \in [Sema -> Nat] /\ MaxValue \in Nat

VARIABLES
    value,      \* Semaphore::value
    waiters,    \* Semaphore::waiters, its front first
    old,        \* the interrupt bit that the thread's call of down() or up() has saved
    level       \* history: the interrupt bit that the thread's own code has chosen

semaVars == <<value, waiters, old, level>>
vars     == <<threadVars, semaVars>>

Init ==
    /\ ThreadInit
    /\ value = InitValue
    /\ waiters = [s \in Sema |-> <<>>]
    /\ old = [t \in Thread |-> TRUE]
    /\ level = [t \in Thread |-> TRUE]

-----------------------------------------------------------------------------

(* What down() saved when it was entered: a thread in the loop has entered *)
(* it before.                                                              *)
Saved == IF pc[current] = "down_loop" THEN old[current] ELSE intr[current]

(* Mutant: down() does not count its caller.                               *)
DownTake_uncounted(s) ==
    /\ value[s] > 0
    /\ old' = [old EXCEPT ![current] = Saved]
    /\ intr' = [intr EXCEPT ![current] = Saved]
    /\ UNCHANGED <<value, waiters, level, managerVars>>

(* One turn of down()'s loop on a free semaphore: it leaves the loop and   *)
(* restores the interrupts that it found.                                  *)
DownTake(s) ==
    /\ value[s] > 0
    /\ value' = [value EXCEPT ![s] = @ - 1]
    /\ old' = [old EXCEPT ![current] = Saved]
    /\ intr' = [intr EXCEPT ![current] = Saved]
    /\ UNCHANGED <<waiters, level, managerVars>>

(* Mutant: down() turns interrupts off and saves them in every turn.       *)
DownBlock_resaves(s) ==
    /\ value[s] = 0
    /\ waiters' = [waiters EXCEPT ![s] = <<current>> \o @]
    /\ old' = [old EXCEPT ![current] = intr[current]]
    /\ intr' = [intr EXCEPT ![current] = FALSE]
    /\ schedule([status EXCEPT ![current] = "Blocked"])
    /\ UNCHANGED <<value, level>>

(* One turn of down()'s loop on a taken semaphore: push_front and block(). *)
(* The thread will find itself in the loop again, with interrupts off.     *)
DownBlock(s) ==
    /\ value[s] = 0
    /\ waiters' = [waiters EXCEPT ![s] = <<current>> \o @]
    /\ old' = [old EXCEPT ![current] = Saved]
    /\ intr' = [intr EXCEPT ![current] = FALSE]
    /\ schedule([status EXCEPT ![current] = "Blocked"])
    /\ UNCHANGED <<value, level>>

(* get_maxpriority: among the waiters of the highest priority the one that *)
(* has waited longest, which is the last.                                  *)
get_maxpriority(s) ==
    CHOOSE i \in DOMAIN waiters[s] :
        \A j \in DOMAIN waiters[s] :
            \/ prio[waiters[s][j]] < prio[waiters[s][i]]
            \/ prio[waiters[s][j]] = prio[waiters[s][i]] /\ j <= i

(* Mutant: up() does not look for waiters.                                 *)
UpFree_always(s) ==
    /\ value[s] < MaxValue
    /\ value' = [value EXCEPT ![s] = @ + 1]
    /\ old' = [old EXCEPT ![current] = intr[current]]
    /\ UNCHANGED <<waiters, level, managerVars>>

(* up() when nobody waits.  The caller's interrupts are off only inside    *)
(* this step.                                                              *)
UpFree(s) ==
    /\ waiters[s] = <<>>
    /\ value[s] < MaxValue
    /\ value' = [value EXCEPT ![s] = @ + 1]
    /\ old' = [old EXCEPT ![current] = intr[current]]
    /\ UNCHANGED <<waiters, level, managerVars>>

(* Mutant: the woken waiter stays on the list.                             *)
UpWake_kept(s) ==
    /\ waiters[s] # <<>> /\ value[s] = 0
    /\ value' = [value EXCEPT ![s] = 1]
    /\ wake_up(waiters[s][get_maxpriority(s)])
    /\ old' = [old EXCEPT ![current] = intr[current]]
    /\ UNCHANGED <<waiters, level>>

(* up() when somebody waits, up to the decision to call schedule().        *)
UpWake(s) ==
    /\ waiters[s] # <<>>
    /\ old' = [old EXCEPT ![current] = intr[current]]
    /\ IF value[s] = 0
       THEN /\ value' = [value EXCEPT ![s] = 1]
            /\ waiters' = [waiters EXCEPT ![s] = RemoveAt(@, get_maxpriority(s))]
            /\ wake_up(waiters[s][get_maxpriority(s)])
       ELSE /\ panic' = "sema_count"
            /\ UNCHANGED <<value, waiters, current, status, rq, all>>
    /\ UNCHANGED level

(* The comparison in up(): does the woken waiter preempt its waker?        *)
UpPreempts(s) ==
    waiters[s] # <<>> /\ prio[current] < prio[waiters[s][get_maxpriority(s)]]

(* The call of schedule() in up(), with the caller's interrupts, and the   *)
(* second set(old) once it has returned.                                   *)
UpScheduleThen(l, k) ==
    /\ At(l)
    /\ Goto(k)
    /\ schedule(status)
    /\ intr' = [intr EXCEPT ![current] = old[current]]
    /\ UNCHANGED <<semaVars, arg, prioVars, timerVars, resched>>

-----------------------------------------------------------------------------
(* The thread's own code turns interrupts off and on again, around calls   *)
(* of down(), up() and schedule() or around none.                          *)
Mask ==
    /\ Calls /\ intr[current]
    /\ intr' = [intr EXCEPT ![current] = FALSE]
    /\ level' = [level EXCEPT ![current] = FALSE]
    /\ UNCHANGED <<managerVars, prioVars, localVars, timerVars, resched, value, waiters, old>>

Unmask ==
    /\ Calls /\ ~intr[current]
    /\ intr' = [intr EXCEPT ![current] = TRUE]
    /\ level' = [level EXCEPT ![current] = TRUE]
    /\ UNCHANGED <<managerVars, prioVars, localVars, timerVars, resched, value, waiters, old>>

DownFree(s) ==
    /\ Calls
    /\ DownTake(s)
    /\ UNCHANGED <<localVars, prioVars, timerVars, resched>>

DownWait(s) ==
    /\ Calls
    /\ DownBlock(s)
    /\ Goto("down_loop") /\ arg' = [arg EXCEPT ![current] = s]
    /\ UNCHANGED <<prioVars, timerVars, resched>>

(* A woken thread is in down()'s loop: it may find that another thread has *)
(* taken the semaphore since up() woke it.                                 *)
DownRetryTake ==
    /\ At("down_loop")
    /\ DownTake(arg[current])
    /\ Goto("run") /\ arg' = [arg EXCEPT ![current] = NoArg]
    /\ UNCHANGED <<prioVars, timerVars, resched>>

DownRetryBlock ==
    /\ At("down_loop")
    /\ DownBlock(arg[current])
    /\ UNCHANGED <<localVars, prioVars, timerVars, resched>>

Up(s) ==
    /\ Calls
    /\ UpFree(s) \/ UpWake(s)
    /\ Goto(IF UpPreempts(s) THEN "up_sched" ELSE "run")
    /\ UNCHANGED <<arg, prioVars, timerVars, trapVars>>

UpSchedule == UpScheduleThen("up_sched", "run")

-----------------------------------------------------------------------------
SemaStep ==
    \/ \E s \in Sema : DownFree(s) \/ DownWait(s) \/ Up(s)
    \/ DownRetryTake \/ DownRetryBlock \/ UpSchedule \/ Mask \/ Unmask

Next == SemaStep \/ (ThreadNext /\ UNCHANGED semaVars)

Spec == Init /\ [][Next]_vars

-----------------------------------------------------------------------------
(* A thread that up() has taken off the waiters and that is still on its   *)
(* way through down()'s loop.                                              *)
OnItsWay(t, s) ==
    pc[t] = "down_loop" /\ arg[t] = s /\ t \notin ToSet(waiters[s])

(* No wake-up is lost: threads wait only at a semaphore whose value is 0,  *)
(* or whose one unit already has a woken thread coming for it.             *)
NoLostWakeup ==
    \A s \in Sema : waiters[s] # <<>> =>
        \/ value[s] = 0
        \/ value[s] = 1 /\ \E t \in Thread : OnItsWay(t, s)

(* A thread waits at most once, and exactly the threads that wait in       *)
(* down()'s loop are Blocked there: up() never passes wake_up a thread     *)
(* that it would reject.                                                   *)
WaitersBlocked ==
    /\ \A s \in Sema : IsInjective(waiters[s])
    /\ \A s \in Sema, t \in Thread :
         t \in ToSet(waiters[s]) <=>
             pc[t] = "down_loop" /\ arg[t] = s /\ status[t] = "Blocked"

(* Outside down()'s loop and tick() a thread runs with the interrupts that *)
(* its own code has chosen: what down() and up() saved comes back on every *)
(* path, however often the thread was woken in vain and whoever ran, with  *)
(* interrupts on or off, in between.                                       *)
InterruptsRestored ==
    \A t \in Thread :
        intr[t] <=> level[t] /\ pc[t] # "down_loop" /\ ~(ticking /\ t = current)
=============================================================================
