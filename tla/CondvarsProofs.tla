--------------------------- MODULE CondvarsProofs ---------------------------
(***************************************************************************)
(* Proofs about Condvars, for every scheduler that keeps the contract, any *)
(* set of threads and priorities, and any bounds.                          *)
(***************************************************************************)
EXTENDS Condvars, ThreadsProofs

(* The places in notify_all(), and all those where a thread that has       *)
(* called the condition variable still has the guard.                      *)
InAll   == {"all_up", "all_sched"}
Guarded == InAll \cup {"wait_release", "notify_up", "notify_sched"}

(* The list holds nobody twice, and the locals of the notifiers fit it.    *)
CondTypeOK ==
    /\ cv \in Seq(Thread) /\ IsInjective(cv)
    /\ guard \in Thread \cup {NoThread}
    /\ \A t \in Thread :
         /\ pc[t] = "down_loop" => arg[t] \in {t, Lock}
         /\ pc[t] = "notify_up" => arg[t] \in Thread \ ToSet(cv)
         /\ pc[t] \in InAll => arg[t] \in 1..(Len(cv) + 1)

(* Who is in the middle of a call that needs the mutex has it.             *)
GuardKept == \A t \in Thread : pc[t] \in Guarded => guard = t

(* The unit of t's own semaphore is where the notifications say.           *)
Notified(t) == (t \notin ToSet(cv) /\ ~OwedUp(t)) \/ PassedByAll(t)
OnceFor(t) ==
    IF Waiting(t) THEN value[t] = (IF Notified(t) THEN 1 ELSE 0)
    ELSE value[t] = 0 /\ ~OwedUp(t) /\ (t \in ToSet(cv) => PassedByAll(t))

CondRest ==
    /\ ~selfWoken /\ sleepq = {}
    /\ CondTypeOK
    /\ GuardKept
    /\ CondvarSafe
    /\ \A t \in Thread : OnceFor(t)

(* The inductive invariant: nobody sleeps, the threads and the semaphores  *)
(* are in order, a notifier keeps the guard through all its calls of up(), *)
(* and each waiter has been notified once, or not yet.                     *)
CondInv == ThreadInv /\ SleepInv /\ SemaInv /\ CondRest

-----------------------------------------------------------------------------
(* What the invariant says of a thread that goes on from a place in the    *)
(* kernel, or that calls it.                                               *)
LEMMA CallerTypes ==
    ASSUME CondInv, NEW l, At(l), l # "run" \/ current # Idle
    PROVE  /\ current \in Thread /\ current # Idle /\ current # NoThread /\ current # Lock
           /\ ~ticking /\ panic = "none" /\ pc[current] = l
           /\ pc \in [Thread -> Label] /\ arg = [t \in Thread |-> arg[t]]
           /\ prio \in [Thread -> Prio] /\ ~selfWoken
  BY ThreadAssumption, CondvarAssumption
  DEF CondInv, CondRest, ThreadInv, ThreadTypeOK, ArgOK, IdleRuns, At

(* The semaphores are those of the threads and the one of the mutex.       *)
LEMMA CondSemas ==
    /\ Lock \in Sema /\ Thread \subseteq Sema /\ Lock \notin Thread
    /\ \A s \in Sema : s # Lock => s \in Thread
  BY CondvarAssumption

LEMMA CondValues ==
    ASSUME CondInv
    PROVE  /\ value \in [Sema -> Nat]
           /\ value[Lock] = IF guard = NoThread THEN 1 ELSE 0
           /\ panic = "none" /\ ~selfWoken /\ sleepq = {}
  BY DEF CondInv, CondRest, SemaInv, SemaTypeOK, CondvarSafe

(* As long as nobody is in the middle of a notification, nobody is owed an *)
(* up() and no notify_all() has passed anybody.                            *)
LEMMA NobodyNotifies ==
    ASSUME \A t \in Thread : pc[t] \notin Guarded
    PROVE  /\ \A t \in Thread : ~OwedUp(t) /\ ~PassedByAll(t)
           /\ ~Borrowed
  BY DEF Guarded, InAll, OwedUp, PassedByAll, Borrowed

(* What is so when the mutex is free, or when its owner runs elsewhere.    *)
LEMMA NobodyGuarded ==
    ASSUME CondInv, \/ guard = NoThread
                    \/ guard = current /\ pc[current] \notin Guarded
    PROVE  \A t \in Thread : pc[t] \notin Guarded
  BY ThreadAssumption DEF CondInv, CondRest, GuardKept

(* A thread for which nothing changes.                                     *)
LEMMA OnceKept ==
    ASSUME NEW t \in Thread, OnceFor(t), value'[t] = value[t],
           Waiting(t)' <=> Waiting(t), OwedUp(t)' <=> OwedUp(t),
           PassedByAll(t)' <=> PassedByAll(t), t \in ToSet(cv') <=> t \in ToSet(cv)
    PROVE  OnceFor(t)'
  BY DEF OnceFor, Notified

(* A step that changes neither the list, the guard nor a semaphore's       *)
(* value, and no thread's part in a notification.                          *)
LEMMA QuietKeeps ==
    ASSUME CondInv, ThreadInv', SleepInv', SemaInv', ~selfWoken', sleepq' = {}, panic' = "none",
           UNCHANGED <<cv, guard, value>>,
           \A t \in Thread :
             /\ pc'[t] = "down_loop" => arg'[t] \in {t, Lock}
             /\ pc'[t] \in Guarded => pc[t] \in Guarded
             /\ pc'[t] = "notify_up" <=> pc[t] = "notify_up"
             /\ pc'[t] \in InAll <=> pc[t] \in InAll
             /\ pc[t] \in InAll \cup {"notify_up"} => arg'[t] = arg[t]
             /\ Waiting(t)' <=> Waiting(t)
    PROVE  CondInv'
  <1>1. CondRest
    BY DEF CondInv
  <1>2. CondTypeOK'
    BY <1>1 DEF CondRest, CondTypeOK
  <1>3. GuardKept'
    BY <1>1 DEF CondRest, GuardKept
  <1>4. CondvarSafe'
    BY <1>1 DEF CondRest, CondvarSafe
  <1>5. \A t \in Thread : OwedUp(t)' <=> OwedUp(t)
    BY DEF OwedUp
  <1>6. \A t \in Thread : PassedByAll(t)' <=> PassedByAll(t)
    BY DEF PassedByAll, InAll
  <1>7. \A t \in Thread : OnceFor(t)'
    BY <1>1, <1>5, <1>6, OnceKept DEF CondRest
  <1> QED
    BY <1>2, <1>3, <1>4, <1>7 DEF CondInv, CondRest

(* The calls of schedule() in unlock, wait() and the notifications.        *)
LEMMA CondScheduleKeeps ==
    ASSUME CondInv, NEW l \in Plain, NEW k \in Plain, ScheduleThen(l, k),
           UNCHANGED <<semaVars, condVars>>,
           \/ l = "up_sched" /\ k = "rel_sched"
           \/ l = "rel_sched" /\ k = "run"
           \/ l = "wait_up_sched" /\ k = "wait_sched"
           \/ l = "wait_sched" /\ k = "wait_down"
           \/ l = "notify_sched" /\ k = "run"
           \/ l = "all_sched" /\ k = "all_up"
    PROVE  CondInv'
  <1>1. At(l) /\ l \notin {"run", "sleep_mark", "sleep_sched", "down_loop"} /\ k \notin Saving
    BY DEF ScheduleThen, Saving
  <1>2. current \in Thread /\ pc[current] = l /\ pc \in [Thread -> Label] /\ ~selfWoken
    BY <1>1, CallerTypes
  <1>3. ThreadInv' /\ SleepInv' /\ SemaInv' /\ panic' = "none"
    BY <1>1, <1>2, ScheduleThenKeepsAll DEF CondInv
  <1>4. /\ UNCHANGED <<arg, sleepq, selfWoken, value, cv, guard>>
        /\ \A t \in Thread : pc'[t] = IF t = current THEN k ELSE pc[t]
    BY <1>2 DEF ScheduleThen, Goto, timerVars, semaVars, condVars
  <1>5. \A t \in Thread :
             /\ pc'[t] = "down_loop" => arg'[t] \in {t, Lock}
             /\ pc'[t] \in Guarded => pc[t] \in Guarded
             /\ pc'[t] = "notify_up" <=> pc[t] = "notify_up"
             /\ pc'[t] \in InAll <=> pc[t] \in InAll
             /\ pc[t] \in InAll \cup {"notify_up"} => arg'[t] = arg[t]
             /\ Waiting(t)' <=> Waiting(t)
    <2>1. /\ k \in Guarded => l \in Guarded
          /\ l \in InAll <=> k \in InAll
          /\ l # "notify_up" /\ k # "notify_up"
      BY DEF Guarded, InAll
    <2>2. \A t \in Thread : pc[t] = "down_loop" => arg[t] \in {t, Lock}
      BY DEF CondInv, CondRest, CondTypeOK
    <2>3. \A t \in Thread : Waiting(t)' <=> Waiting(t)
      BY <1>2, <1>4 DEF Waiting
    <2> QED
      BY <1>2, <1>4, <2>1, <2>2, <2>3 DEF Guarded, InAll
  <1> QED
    BY <1>2, <1>3, <1>4, <1>5, QuietKeeps DEF CondInv, CondRest

(* The steps of the threads outside the mutex and the condition variable.  *)
LEMMA OtherStepKeeps ==
    ASSUME CondInv, OtherStep \/ UNCHANGED cvars PROVE CondInv'
  <1>1. /\ ThreadNext \/ UNCHANGED threadVars
        /\ UNCHANGED semaVars
        /\ UNCHANGED <<value, cv, guard>>
    <2>1. CASE OtherStep
      BY <2>1 DEF OtherStep, ThreadNext, CallStep, semaVars, condVars
    <2>2. CASE UNCHANGED cvars
      BY <2>2 DEF cvars, vars, semaVars, condVars
    <2> QED
      BY <2>1, <2>2
  <1>2. ThreadInv /\ SleepInv /\ SemaInv /\ ~selfWoken /\ sleepq = {} /\ panic = "none"
    BY DEF CondInv, CondRest, CondvarSafe
  <1>3. ~SleepPush
    <2>1. sleepq' = sleepq \/ TrapStep
      BY DEF OtherStep, SpawnRegister, SetPriorityStore, ExitMark, Yield, KernelStep, SpawnAll,
             SpawnSchedule, ExitSchedule, SetPrioritySchedule, SetPriorityDone, SleepMark,
             SleepSchedule, ScheduleThen, TimerInterrupt, Halted, timerVars, threadVars, cvars, vars
    <2>2. ~(SleepPush /\ TrapStep)
      <3>1. SleepPush => ~ticking /\ resched[current] = 0
        BY DEF SleepPush, Calls, At
      <3> QED
        BY <3>1 DEF TrapStep, TickWake, TickDone, TrapSchedule
    <2>3. SleepPush => sleepq' # {}
      BY DEF SleepPush
    <2> QED
      BY <1>2, <2>1, <2>2, <2>3
  <1>4. /\ ~selfWoken' /\ sleepq' = {} /\ panic' = "none"
        /\ \A t \in Thread : \/ pc'[t] = pc[t] /\ arg'[t] = arg[t]
                             \/ {pc[t], pc'[t]} \subseteq OwnLabels
    BY <1>1, <1>2, <1>3, ThreadStepsSpareCallers
  <1>5. ThreadInv' /\ SleepInv' /\ SemaInv'
    BY <1>1, <1>2, ThreadNextKeeps, SleepersKept, ThreadStepsKeepSema
  <1>6. \A t \in Thread : Waiting(t)' <=> Waiting(t)
    BY <1>4 DEF Waiting, OwnLabels
  <1>7. \A t \in Thread : pc[t] = "down_loop" => arg[t] \in {t, Lock}
    BY DEF CondInv, CondRest, CondTypeOK
  <1>8. OwnLabels \cap (Guarded \cup {"down_loop"}) = {} /\ InAll \cup {"notify_up"} \subseteq Guarded
    BY DEF OwnLabels, Guarded, InAll
  <1> QED
    BY <1>1, <1>4, <1>5, <1>6, <1>7, <1>8, QuietKeeps

-----------------------------------------------------------------------------
(* Mutex::lock.                                                            *)
LEMMA AtLockTypes ==
    ASSUME CondInv, AtLock
    PROVE  /\ Caller(Lock) /\ current \in Thread /\ current # Lock /\ current # NoThread
           /\ pc \in [Thread -> Label] /\ arg = [t \in Thread |-> arg[t]]
           /\ pc[current] \notin Guarded /\ ~Waiting(current)
  <1>1. PICK l \in {"run", "wait_acquire", "down_loop"} :
          At(l) /\ (l = "run" => current # Idle) /\ (l = "down_loop" => arg[current] = Lock)
    BY DEF AtLock, Calls
  <1>2. /\ current \in Thread /\ current # Idle /\ current # Lock /\ current # NoThread
        /\ ~ticking /\ pc[current] = l
        /\ pc \in [Thread -> Label] /\ arg = [t \in Thread |-> arg[t]] /\ ~selfWoken
    BY <1>1, CallerTypes
  <1> QED
    BY <1>1, <1>2 DEF Caller, Guarded, InAll, Waiting

LEMMA LockTakeKeeps == ASSUME CondInv, LockTake PROVE CondInv'
  <1>1. /\ Caller(Lock) /\ current \in Thread /\ current # Lock /\ current # NoThread
        /\ pc \in [Thread -> Label] /\ arg = [t \in Thread |-> arg[t]]
        /\ pc[current] \notin Guarded /\ ~Waiting(current)
    BY AtLockTypes DEF LockTake
  <1>2. /\ DownTake(Lock) /\ Goto("run") /\ arg' = [arg EXCEPT ![current] = NoArg]
        /\ UNCHANGED <<prioVars, timerVars, resched>> /\ guard' = current /\ cv' = cv
    BY DEF LockTake, Local
  <1>3. CondRest
    BY DEF CondInv
  <1>4. ThreadInv' /\ SleepInv' /\ SemaInv'
    <2>1. "run" \in Plain /\ "run" \notin Saving
      BY DEF Plain, Label, Saving
    <2> QED
      BY <1>1, <1>2, <2>1, CondSemas, TakeKeeps DEF CondInv
  <1>5. /\ value' = [value EXCEPT ![Lock] = @ - 1] /\ value[Lock] > 0 /\ panic' = panic
        /\ UNCHANGED <<sleepq, selfWoken>>
    BY <1>2 DEF DownTake, managerVars, timerVars
  <1>6. value'[Lock] = 0 /\ guard = NoThread /\ \A t \in Thread : value'[t] = value[t]
    BY <1>5, CondValues, CondSemas
  <1>7. \A t \in Thread : /\ pc'[t] = IF t = current THEN "run" ELSE pc[t]
                          /\ t # current => arg'[t] = arg[t]
    BY <1>1, <1>2 DEF Goto
  <1>8. \A t \in Thread : pc[t] \notin Guarded /\ pc'[t] \notin Guarded
    BY <1>6, <1>7, NobodyGuarded DEF Guarded, InAll
  <1>9. \A t \in Thread : ~OwedUp(t) /\ ~PassedByAll(t) /\ ~OwedUp(t)' /\ ~PassedByAll(t)'
    BY <1>8 DEF Guarded, InAll, OwedUp, PassedByAll
  <1>10. \A t \in Thread : Waiting(t)' <=> Waiting(t)
    BY <1>1, <1>7 DEF Waiting
  <1>11. \A t \in Thread : OnceFor(t)'
    BY <1>2, <1>3, <1>6, <1>9, <1>10, OnceKept DEF CondRest
  <1>12. CondTypeOK'
    BY <1>1, <1>2, <1>3, <1>7, <1>8 DEF CondRest, CondTypeOK, Guarded, InAll
  <1>13. GuardKept' /\ CondvarSafe'
    BY <1>1, <1>2, <1>3, <1>5, <1>6, <1>8 DEF CondRest, GuardKept, CondvarSafe
  <1> QED
    BY <1>3, <1>4, <1>5, <1>11, <1>12, <1>13 DEF CondInv, CondRest

LEMMA LockBlockKeeps == ASSUME CondInv, LockBlock PROVE CondInv'
  <1>1. /\ Caller(Lock) /\ current \in Thread /\ current # Lock
        /\ pc \in [Thread -> Label] /\ arg = [t \in Thread |-> arg[t]]
        /\ pc[current] \notin Guarded /\ ~Waiting(current)
    BY AtLockTypes DEF LockBlock
  <1>2. /\ DownBlock(Lock) /\ Goto("down_loop") /\ arg' = [arg EXCEPT ![current] = Lock]
        /\ UNCHANGED <<prioVars, timerVars, resched>>
        /\ UNCHANGED <<cv, guard, value, sleepq, selfWoken>>
    BY DEF LockBlock, Local, DownBlock, condVars, timerVars
  <1>3. ThreadInv' /\ SleepInv' /\ SemaInv'
    BY <1>1, <1>2, CondSemas, BlockKeeps DEF CondInv
  <1>4. panic' = "none"
    <2>1. Schedulable(status) /\ current # Idle
      BY <1>1, StepTypes DEF CondInv, Caller
    <2>2. Schedulable([status EXCEPT ![current] = "Blocked"])
      BY <2>1, MarkKeeps
    <2> QED
      BY <1>2, <2>2, ScheduleKeeps DEF DownBlock
  <1>5. \A t \in Thread : /\ pc'[t] = IF t = current THEN "down_loop" ELSE pc[t]
                          /\ arg'[t] = IF t = current THEN Lock ELSE arg[t]
    BY <1>1, <1>2 DEF Goto
  <1>6. \A t \in Thread : Waiting(t)' <=> Waiting(t)
    BY <1>1, <1>5 DEF Waiting
  <1>7. \A t \in Thread : pc[t] = "down_loop" => arg[t] \in {t, Lock}
    BY DEF CondInv, CondRest, CondTypeOK
  <1>8. "down_loop" \notin Guarded /\ InAll \cup {"notify_up"} \subseteq Guarded
    BY DEF Guarded, InAll
  <1> QED
    BY <1>1, <1>2, <1>3, <1>4, <1>5, <1>6, <1>7, <1>8, CondValues, QuietKeeps

(* The guard is dropped: by unlock, or by wait() once it is on the list.   *)
LEMMA DropKeeps ==
    ASSUME CondInv, NEW j \in {"run", "wait_release"}, At(j), j = "run" => current # Idle,
           guard = current, UpFree(Lock) \/ UpWake(Lock),
           NEW k \in {"up_sched", "rel_sched", "wait_up_sched", "wait_sched"}, Goto(k),
           j = "run" <=> k \in {"up_sched", "rel_sched"},
           UNCHANGED <<prioVars, timerVars, trapVars>>, guard' = NoThread, arg' = arg, cv' = cv
    PROVE  CondInv'
  <1>1. /\ current \in Thread /\ current # Idle /\ ~ticking /\ panic = "none" /\ pc[current] = j
        /\ current # NoThread
        /\ pc \in [Thread -> Label] /\ arg = [t \in Thread |-> arg[t]] /\ ~selfWoken
    BY CallerTypes
  <1>2. CondRest
    BY DEF CondInv
  <1>3. value[Lock] = 0
    BY <1>1, CondValues
  <1>4. Caller(Lock) /\ pc[current] # "down_loop" /\ k \in Plain /\ k # "down_loop"
    BY <1>1 DEF Caller, Plain, Label
  <1>5. arg' = [arg EXCEPT ![current] = arg[current]]
    BY <1>1
  <1>6. ThreadInv' /\ SleepInv' /\ SemaInv' /\ panic' = "none"
    BY <1>1, <1>3, <1>4, <1>5, CondSemas, UpKeeps DEF CondInv
  <1>7. value' = [value EXCEPT ![Lock] = 1]
    BY <1>3 DEF UpFree, UpWake
  <1>8. value'[Lock] = 1 /\ \A t \in Thread : value'[t] = value[t]
    BY <1>7, CondValues, CondSemas
  <1>9. \A t \in Thread : pc'[t] = IF t = current THEN k ELSE pc[t]
    BY <1>1 DEF Goto
  <1>10. \A t \in Thread : t # current => pc[t] \notin Guarded
    BY <1>2 DEF CondRest, GuardKept
  <1>11. \A t \in Thread : pc'[t] \notin Guarded
    BY <1>9, <1>10 DEF Guarded, InAll
  <1>12. \A t \in Thread : ~OwedUp(t) /\ ~PassedByAll(t) /\ ~OwedUp(t)' /\ ~PassedByAll(t)'
    BY <1>1, <1>10, <1>11 DEF Guarded, InAll, OwedUp, PassedByAll
  <1>13. \A t \in Thread : Waiting(t)' <=> Waiting(t)
    BY <1>1, <1>9 DEF Waiting
  <1>14. \A t \in Thread : OnceFor(t)'
    BY <1>2, <1>8, <1>12, <1>13, OnceKept DEF CondRest
  <1>15. CondTypeOK'
    BY <1>2, <1>9, <1>11 DEF CondRest, CondTypeOK, Guarded, InAll
  <1>16. GuardKept' /\ CondvarSafe'
    BY <1>6, <1>8, <1>11 DEF GuardKept, CondvarSafe
  <1> QED
    BY <1>2, <1>6, <1>14, <1>15, <1>16 DEF CondInv, CondRest, timerVars

LEMMA UnlockKeeps == ASSUME CondInv, Unlock PROVE CondInv'
  <1>1. PICK k \in {"up_sched", "rel_sched"} : Goto(k)
    BY DEF Unlock, UpThen
  <1>2. At("run") /\ current # Idle /\ guard = current /\ (UpFree(Lock) \/ UpWake(Lock))
        /\ UNCHANGED <<prioVars, timerVars, trapVars>> /\ guard' = NoThread
        /\ arg' = arg /\ cv' = cv
    BY DEF Unlock, UpThen, Calls
  <1> QED
    BY <1>1, <1>2, DropKeeps

LEMMA WaitReleaseKeeps == ASSUME CondInv, WaitRelease PROVE CondInv'
  <1>1. PICK k \in {"wait_up_sched", "wait_sched"} : Goto(k)
    BY DEF WaitRelease, UpThen
  <1>2. At("wait_release") /\ (UpFree(Lock) \/ UpWake(Lock))
        /\ UNCHANGED <<prioVars, timerVars, trapVars>> /\ guard' = NoThread
        /\ arg' = arg /\ cv' = cv
    BY DEF WaitRelease, UpThen
  <1>3. current \in Thread /\ pc[current] = "wait_release"
    BY <1>2, CallerTypes
  <1>4. guard = current
    BY <1>3 DEF CondInv, CondRest, GuardKept, Guarded
  <1> QED
    BY <1>1, <1>2, <1>4, DropKeeps

-----------------------------------------------------------------------------
(* Condvar::wait.  A thread that calls it is not on the list, and nobody   *)
(* is notifying.                                                           *)
LEMMA WaitPushKeeps == ASSUME CondInv, WaitPush PROVE CondInv'
  <1>1. At("run") /\ current # Idle /\ guard = current
    BY DEF WaitPush, Calls
  <1>2. /\ current \in Thread /\ ~ticking /\ panic = "none" /\ pc[current] = "run"
        /\ pc \in [Thread -> Label] /\ arg = [t \in Thread |-> arg[t]] /\ ~selfWoken
        /\ prio \in [Thread -> Prio]
    BY <1>1, CallerTypes
  <1>3. CondRest
    BY DEF CondInv
  <1>4. /\ \A t \in Thread : pc[t] \notin Guarded /\ ~OwedUp(t) /\ ~PassedByAll(t)
        /\ ~Borrowed
    BY <1>1, <1>2, NobodyGuarded, NobodyNotifies DEF Guarded, InAll
  <1>5. /\ Goto("wait_release") /\ cv' = <<current>> \o cv /\ panic' = "none"
        /\ UNCHANGED <<current, status, rq, all, arg, prio, priority_setted, timerVars, trapVars,
                       semaVars, guard>>
    BY <1>2, <1>4 DEF WaitPush, prioVars
  <1>6. arg' = [arg EXCEPT ![current] = arg[current]]
    BY <1>2, <1>5
  <1>7. ThreadInv' /\ SleepInv' /\ SemaInv'
    <2>1. "wait_release" \in Plain /\ "wait_release" \notin Saving
          /\ panic' \in Panic \ {"no_ready", "next_not_ready", "tail_ready"}
      BY <1>5 DEF Plain, Label, Saving, Panic
    <2> QED
      BY <1>1, <1>2, <1>5, <1>6, <2>1, MoveKeeps DEF CondInv
  <1>8. ~Waiting(current) /\ OnceFor(current)
    BY <1>2, <1>3 DEF Waiting, CondRest
  <1>9. value[current] = 0 /\ current \notin ToSet(cv)
    BY <1>2, <1>4, <1>8 DEF OnceFor
  <1>10. /\ cv' \in Seq(Thread) /\ IsInjective(cv') /\ ToSet(cv') = ToSet(cv) \cup {current}
    BY <1>2, <1>3, <1>5, <1>9, PushFrontProperties DEF CondRest, CondTypeOK
  <1>11. /\ \A t \in Thread : pc'[t] = IF t = current THEN "wait_release" ELSE pc[t]
         /\ value' = value
    BY <1>2, <1>5 DEF Goto, semaVars
  <1>12. \A t \in Thread : pc'[t] \notin InAll \cup {"notify_up"}
    BY <1>4, <1>11 DEF Guarded, InAll
  <1>13. \A t \in Thread : ~OwedUp(t)' /\ ~PassedByAll(t)'
    BY <1>12 DEF InAll, OwedUp, PassedByAll
  <1>14. \A t \in Thread : OnceFor(t)'
    <2> SUFFICES ASSUME NEW t \in Thread PROVE OnceFor(t)'
      OBVIOUS
    <2>1. CASE t = current
      <3>1. Waiting(t)' /\ t \in ToSet(cv') /\ value'[t] = 0
        BY <1>9, <1>10, <1>11, <2>1 DEF Waiting
      <3> QED
        BY <1>13, <3>1 DEF OnceFor, Notified
    <2>2. CASE t # current
      <3>1. /\ Waiting(t)' <=> Waiting(t)
            /\ t \in ToSet(cv') <=> t \in ToSet(cv)
        BY <1>5, <1>10, <1>11, <2>2 DEF Waiting
      <3> QED
        BY <1>3, <1>4, <1>11, <1>13, <3>1, OnceKept DEF CondRest
    <2> QED
      BY <2>1, <2>2
  <1>15. CondTypeOK'
    BY <1>3, <1>5, <1>10, <1>11, <1>12 DEF CondRest, CondTypeOK
  <1>16. GuardKept' /\ CondvarSafe'
    BY <1>1, <1>3, <1>4, <1>5, <1>11 DEF CondRest, GuardKept, CondvarSafe
  <1> QED
    BY <1>3, <1>5, <1>7, <1>14, <1>15, <1>16 DEF CondInv, CondRest, timerVars

LEMMA AtWaitTypes ==
    ASSUME CondInv, AtWait
    PROVE  /\ Caller(current) /\ current \in Thread /\ current # Lock
           /\ pc \in [Thread -> Label] /\ arg = [t \in Thread |-> arg[t]]
           /\ pc[current] \notin Guarded /\ Waiting(current)
  <1>1. PICK l \in {"wait_down", "down_loop"} :
          At(l) /\ (l = "down_loop" => arg[current] = current)
    BY DEF AtWait
  <1>2. /\ current \in Thread /\ current # Idle /\ current # Lock /\ ~ticking /\ pc[current] = l
        /\ pc \in [Thread -> Label] /\ arg = [t \in Thread |-> arg[t]] /\ ~selfWoken
    BY <1>1, CallerTypes
  <1> QED
    BY <1>1, <1>2 DEF Caller, Guarded, InAll, Waiting

(* A notified waiter takes its unit, and nobody owes it another.           *)
LEMMA WaitTakeKeeps == ASSUME CondInv, WaitTake PROVE CondInv'
  <1>1. /\ Caller(current) /\ current \in Thread /\ current # Lock
        /\ pc \in [Thread -> Label] /\ arg = [t \in Thread |-> arg[t]]
        /\ pc[current] \notin Guarded /\ Waiting(current)
    BY AtWaitTypes DEF WaitTake
  <1>2. PICK c \in Thread : c = current
    BY <1>1
  <1>3. /\ DownTake(c) /\ Goto("wait_acquire") /\ arg' = [arg EXCEPT ![current] = NoArg]
        /\ UNCHANGED <<prioVars, timerVars, resched>> /\ UNCHANGED <<guard, cv>>
    BY <1>2 DEF WaitTake, Local, condVars
  <1>4. CondRest
    BY DEF CondInv
  <1>5. ThreadInv' /\ SleepInv' /\ SemaInv'
    <2>1. "wait_acquire" \in Plain /\ "wait_acquire" \notin Saving
          /\ Caller(c) /\ c \in Sema
      BY <1>1, <1>2, CondSemas DEF Plain, Label, Saving
    <2> QED
      BY <1>3, <2>1, TakeKeeps DEF CondInv
  <1>6. /\ value' = [value EXCEPT ![c] = @ - 1] /\ value[c] > 0 /\ panic' = panic
        /\ UNCHANGED <<sleepq, selfWoken>>
    BY <1>3 DEF DownTake, managerVars, timerVars
  <1>7. OnceFor(c) /\ Waiting(c)
    BY <1>1, <1>2, <1>4 DEF CondRest
  <1>8. value[c] = 1 /\ Notified(c)
    BY <1>6, <1>7, CondSemas, CondValues DEF OnceFor
  <1>9. value'[c] = 0 /\ value'[Lock] = value[Lock] /\ \A t \in Thread : t # c => value'[t] = value[t]
    BY <1>1, <1>2, <1>6, <1>8, CondSemas, CondValues
  <1>10. \A t \in Thread : /\ pc'[t] = IF t = c THEN "wait_acquire" ELSE pc[t]
                           /\ t # c => arg'[t] = arg[t]
    BY <1>1, <1>2, <1>3 DEF Goto
  <1>11. \A t \in Thread : /\ pc'[t] \in Guarded => pc'[t] = pc[t] /\ arg'[t] = arg[t]
                           /\ pc[t] \in Guarded => pc'[t] = pc[t] /\ arg'[t] = arg[t]
    BY <1>1, <1>2, <1>10 DEF Guarded, InAll
  <1>12. \A t \in Thread : OwedUp(t)' <=> OwedUp(t)
    BY <1>11 DEF OwedUp, Guarded
  <1>13. \A t \in Thread : PassedByAll(t)' <=> PassedByAll(t)
    BY <1>3, <1>11 DEF PassedByAll, Guarded, InAll
  <1>14. ~OwedUp(c) /\ (c \in ToSet(cv) => PassedByAll(c))
    <2>1. OwedUp(c) => c \notin ToSet(cv)
      BY <1>4 DEF CondRest, CondTypeOK, OwedUp
    <2>2. PassedByAll(c) => c \in ToSet(cv)
      BY DEF PassedByAll, ToSet
    <2> QED
      BY <1>8, <2>1, <2>2 DEF Notified
  <1>15. \A t \in Thread : OnceFor(t)'
    <2> SUFFICES ASSUME NEW t \in Thread PROVE OnceFor(t)'
      OBVIOUS
    <2>1. CASE t = c
      <3>1. ~Waiting(c)'
        BY <1>10 DEF Waiting
      <3> QED
        BY <1>3, <1>9, <1>12, <1>13, <1>14, <2>1, <3>1 DEF OnceFor
    <2>2. CASE t # c
      <3>1. Waiting(t)' <=> Waiting(t)
        BY <1>10, <2>2 DEF Waiting
      <3> QED
        BY <1>3, <1>4, <1>9, <1>12, <1>13, <2>2, <3>1, OnceKept DEF CondRest
    <2> QED
      BY <2>1, <2>2
  <1>16. CondTypeOK'
    <2>1. \A t \in Thread : pc'[t] = "down_loop" => arg'[t] \in {t, Lock}
      BY <1>4, <1>10 DEF CondRest, CondTypeOK
    <2> QED
      BY <1>3, <1>4, <1>11, <2>1 DEF CondRest, CondTypeOK, Guarded
  <1>17. GuardKept' /\ CondvarSafe'
    BY <1>3, <1>4, <1>6, <1>9, <1>11 DEF CondRest, GuardKept, CondvarSafe
  <1> QED
    BY <1>4, <1>5, <1>6, <1>15, <1>16, <1>17 DEF CondInv, CondRest

LEMMA WaitBlockKeeps == ASSUME CondInv, WaitBlock PROVE CondInv'
  <1>1. /\ Caller(current) /\ current \in Thread /\ current # Lock
        /\ pc \in [Thread -> Label] /\ arg = [t \in Thread |-> arg[t]]
        /\ pc[current] \notin Guarded /\ Waiting(current)
    BY AtWaitTypes DEF WaitBlock
  <1>2. PICK c \in Thread : c = current
    BY <1>1
  <1>3. /\ DownBlock(c) /\ Goto("down_loop") /\ arg' = [arg EXCEPT ![current] = c]
        /\ UNCHANGED <<prioVars, timerVars, resched>>
        /\ UNCHANGED <<cv, guard, value, sleepq, selfWoken>>
    BY <1>2 DEF WaitBlock, Local, DownBlock, condVars, timerVars
  <1>4. ThreadInv' /\ SleepInv' /\ SemaInv'
    <2>1. Caller(c) /\ c \in Sema
      BY <1>1, <1>2, CondSemas
    <2> QED
      BY <1>3, <2>1, BlockKeeps DEF CondInv
  <1>5. panic' = "none"
    <2>1. Schedulable(status) /\ current # Idle
      BY <1>1, StepTypes DEF CondInv, Caller
    <2>2. Schedulable([status EXCEPT ![current] = "Blocked"])
      BY <2>1, MarkKeeps
    <2> QED
      BY <1>3, <2>2, ScheduleKeeps DEF DownBlock
  <1>6. \A t \in Thread : /\ pc'[t] = IF t = c THEN "down_loop" ELSE pc[t]
                          /\ arg'[t] = IF t = c THEN c ELSE arg[t]
    BY <1>1, <1>2, <1>3 DEF Goto
  <1>7. \A t \in Thread : Waiting(t)' <=> Waiting(t)
    BY <1>1, <1>2, <1>6 DEF Waiting
  <1>8. \A t \in Thread : pc[t] = "down_loop" => arg[t] \in {t, Lock}
    BY DEF CondInv, CondRest, CondTypeOK
  <1>9. "down_loop" \notin Guarded /\ InAll \cup {"notify_up"} \subseteq Guarded
    BY DEF Guarded, InAll
  <1> QED
    BY <1>1, <1>2, <1>3, <1>4, <1>5, <1>6, <1>7, <1>8, <1>9, CondValues, QuietKeeps

-----------------------------------------------------------------------------
(* notify_one() finds a waiter in a list that is not empty.                *)
LEMMA ChosenFound ==
    ASSUME cv \in Seq(Thread), cv # <<>>, prio \in [Thread -> Prio]
    PROVE  Chosen \in 1..Len(cv)
  <1>1. PICK w : w = cv
    OBVIOUS
  <1>2. PICK n \in Nat \ {0} : n = Len(w) /\ DOMAIN w = 1..n /\ \A j \in 1..n : w[j] \in Thread
    BY <1>1, LenProperties, EmptySeq, ElementOfSeq
  <1> DEFINE f == [j \in 1..n |-> SeenPrio(w[j])]
  <1>3. f \in [1..n -> Prio]
    BY <1>2, ThreadAssumption DEF SeenPrio, Prio
  <1>4. PICK i \in 1..n : \A j \in 1..n : f[j] < f[i] \/ (f[j] = f[i] /\ j <= i)
    <2> HIDE DEF f
    <2> QED
      BY <1>3, LastOfHighest
  <1>5. \E m \in DOMAIN w : \A j \in DOMAIN w :
           \/ SeenPrio(w[j]) < SeenPrio(w[m])
           \/ SeenPrio(w[j]) = SeenPrio(w[m]) /\ j <= m
    BY <1>2, <1>4
  <1>6. Chosen \in DOMAIN cv
    BY <1>1, <1>5 DEF Chosen
  <1> QED
    BY <1>1, <1>2, <1>6

(* A thread that has the guard and is about to notify.                     *)
LEMMA NotifierTypes ==
    ASSUME CondInv, Calls, guard = current
    PROVE  /\ current \in Thread /\ ~ticking /\ panic = "none" /\ pc[current] = "run"
           /\ pc \in [Thread -> Label] /\ arg = [t \in Thread |-> arg[t]] /\ ~selfWoken
           /\ prio \in [Thread -> Prio] /\ current # Idle
           /\ ~Borrowed
           /\ \A t \in Thread : pc[t] \notin Guarded /\ ~OwedUp(t) /\ ~PassedByAll(t)
  <1>1. At("run") /\ current # Idle
    BY DEF Calls
  <1>2. /\ current \in Thread /\ ~ticking /\ panic = "none" /\ pc[current] = "run"
        /\ pc \in [Thread -> Label] /\ arg = [t \in Thread |-> arg[t]] /\ ~selfWoken
        /\ prio \in [Thread -> Prio]
    BY <1>1, CallerTypes
  <1>3. pc[current] \notin Guarded
    BY <1>2 DEF Guarded, InAll
  <1>4. \A t \in Thread : pc[t] \notin Guarded
    BY <1>3, NobodyGuarded
  <1> QED
    BY <1>1, <1>2, <1>4, NobodyNotifies

(* notify_one() takes a waiter off the list, and owes it an up().          *)
LEMMA NotifyOneRemoveKeeps == ASSUME CondInv, NotifyOneRemove PROVE CondInv'
  <1>1. /\ current \in Thread /\ ~ticking /\ panic = "none" /\ pc[current] = "run"
        /\ pc \in [Thread -> Label] /\ arg = [t \in Thread |-> arg[t]] /\ ~selfWoken
        /\ prio \in [Thread -> Prio] /\ current # Idle
        /\ ~Borrowed
        /\ \A t \in Thread : pc[t] \notin Guarded /\ ~OwedUp(t) /\ ~PassedByAll(t)
    BY NotifierTypes DEF NotifyOneRemove
  <1>2. CondRest
    BY DEF CondInv
  <1>3. cv \in Seq(Thread) /\ IsInjective(cv) /\ cv # <<>>
    BY <1>2 DEF CondRest, CondTypeOK, NotifyOneRemove
  <1>4. PICK i \in 1..Len(cv) : i = Chosen
    BY <1>1, <1>3, ChosenFound
  <1>5. PICK u \in Thread : u = cv[i] /\ u \in ToSet(cv)
    <2>1. i \in DOMAIN cv /\ cv[i] \in Thread
      BY <1>3, <1>4, LenProperties, ElementOfSeq
    <2> QED
      BY <2>1 DEF ToSet
  <1>6. PICK c \in Thread : c = current
    BY <1>1
  <1>7. /\ Goto("notify_up") /\ cv' = RemoveAt(cv, i) /\ panic' = "none" /\ guard = current
        /\ arg' = [arg EXCEPT ![current] = u]
        /\ UNCHANGED <<current, status, rq, all, prio, priority_setted, timerVars, trapVars,
                       semaVars, guard>>
    BY <1>1, <1>4, <1>5 DEF NotifyOneRemove, Local, prioVars
  <1>8. ThreadInv' /\ SleepInv' /\ SemaInv'
    <2>1. "notify_up" \in Plain /\ "notify_up" \notin Saving
          /\ panic' \in Panic \ {"no_ready", "next_not_ready", "tail_ready"}
      BY <1>7 DEF Plain, Label, Saving, Panic
    <2> QED
      BY <1>1, <1>7, <2>1, MoveKeeps DEF CondInv
  <1>9. cv' \in Seq(Thread) /\ IsInjective(cv') /\ ToSet(cv') = ToSet(cv) \ {u}
    BY <1>3, <1>4, <1>5, <1>7, RemoveAtProperties
  <1>10. /\ \A t \in Thread : /\ pc'[t] = IF t = c THEN "notify_up" ELSE pc[t]
                              /\ arg'[t] = IF t = c THEN u ELSE arg[t]
         /\ value' = value
    BY <1>1, <1>6, <1>7 DEF Goto, semaVars
  <1>11. Waiting(u) /\ value[u] = 0
    BY <1>1, <1>2, <1>5 DEF CondRest, OnceFor, Notified
  <1>12. \A t \in Thread : ~PassedByAll(t)' /\ (OwedUp(t)' <=> t = u)
    BY <1>1, <1>10 DEF PassedByAll, OwedUp, Guarded, InAll
  <1>13. \A t \in Thread : Waiting(t)' <=> Waiting(t)
    BY <1>1, <1>6, <1>10 DEF Waiting
  <1>14. \A t \in Thread : OnceFor(t)'
    <2> SUFFICES ASSUME NEW t \in Thread PROVE OnceFor(t)'
      OBVIOUS
    <2>1. CASE t = u
      <3>1. Waiting(t)' /\ value'[t] = 0 /\ OwedUp(t)' /\ ~PassedByAll(t)'
        BY <1>10, <1>11, <1>12, <1>13, <2>1
      <3> QED
        BY <3>1 DEF OnceFor, Notified
    <2>2. CASE t # u
      BY <1>1, <1>2, <1>9, <1>10, <1>12, <1>13, <2>2, OnceKept DEF CondRest
    <2> QED
      BY <2>1, <2>2
  <1>15. CondTypeOK'
    <2>1. \A t \in Thread : /\ pc'[t] = "down_loop" => arg'[t] \in {t, Lock}
                            /\ pc'[t] = "notify_up" => arg'[t] \in Thread \ ToSet(cv')
                            /\ pc'[t] \notin InAll
      BY <1>1, <1>2, <1>9, <1>10 DEF CondRest, CondTypeOK, Guarded, InAll
    <2> QED
      BY <1>2, <1>7, <1>9, <2>1 DEF CondRest, CondTypeOK
  <1>16. GuardKept' /\ CondvarSafe'
    BY <1>1, <1>2, <1>6, <1>7, <1>10 DEF CondRest, GuardKept, CondvarSafe
  <1> QED
    BY <1>2, <1>7, <1>8, <1>14, <1>15, <1>16 DEF CondInv, CondRest, timerVars

(* It gives the up() it owes to a thread that still waits for it.          *)
LEMMA NotifyOneUpKeeps == ASSUME CondInv, NotifyOneUp PROVE CondInv'
  <1>1. At("notify_up") /\ UNCHANGED <<cv, guard>>
    BY DEF NotifyOneUp, condVars
  <1>2. /\ current \in Thread /\ current # Idle /\ ~ticking /\ panic = "none"
        /\ pc[current] = "notify_up"
        /\ pc \in [Thread -> Label] /\ arg = [t \in Thread |-> arg[t]] /\ ~selfWoken
    BY <1>1, CallerTypes
  <1>3. CondRest
    BY DEF CondInv
  <1>4. PICK c \in Thread : c = current
    BY <1>2
  <1>5. PICK u \in Thread : u = arg[c] /\ u \notin ToSet(cv)
    BY <1>2, <1>3, <1>4 DEF CondRest, CondTypeOK
  <1>6. PICK k \in {"notify_sched", "run"} : Goto(k)
    BY DEF NotifyOneUp, UpThen
  <1>7. /\ UpFree(u) \/ UpWake(u)
        /\ arg' = [arg EXCEPT ![current] = NoArg]
        /\ UNCHANGED <<prioVars, timerVars, trapVars>>
    BY <1>4, <1>5 DEF NotifyOneUp, UpThen, Local
  <1>8. \A t \in Thread : t # c => pc[t] \notin Guarded
    BY <1>2, <1>3, <1>4 DEF CondRest, GuardKept, Guarded
  <1>9. \A t \in Thread : ~PassedByAll(t) /\ (OwedUp(t) <=> t = u)
    BY <1>2, <1>4, <1>5, <1>8 DEF PassedByAll, OwedUp, Guarded, InAll
  <1>10. Waiting(u) /\ value[u] = 0
    BY <1>3, <1>9 DEF CondRest, OnceFor, Notified
  <1>11. ThreadInv' /\ SleepInv' /\ SemaInv' /\ panic' = "none"
    <2>1. Caller(u) /\ k \in Plain /\ k # "down_loop" /\ pc[current] # "down_loop" /\ u \in Sema
      BY <1>2, CondSemas DEF Caller, Plain, Label
    <2> QED
      BY <1>2, <1>6, <1>7, <1>10, <2>1, UpKeeps DEF CondInv
  <1>12. value' = [value EXCEPT ![u] = 1]
    BY <1>7, <1>10 DEF UpFree, UpWake
  <1>13. value'[u] = 1 /\ value'[Lock] = value[Lock] /\ \A t \in Thread : t # u => value'[t] = value[t]
    BY <1>12, CondValues, CondSemas
  <1>14. \A t \in Thread : /\ pc'[t] = IF t = c THEN k ELSE pc[t]
                           /\ t # c => arg'[t] = arg[t]
    BY <1>2, <1>4, <1>6, <1>7 DEF Goto
  <1>15. \A t \in Thread : pc'[t] \notin InAll \cup {"notify_up"}
    BY <1>8, <1>14 DEF Guarded, InAll
  <1>16. \A t \in Thread : ~PassedByAll(t)' /\ ~OwedUp(t)'
    BY <1>15 DEF PassedByAll, OwedUp, InAll
  <1>17. \A t \in Thread : Waiting(t)' <=> Waiting(t)
    BY <1>2, <1>4, <1>14 DEF Waiting
  <1>18. \A t \in Thread : OnceFor(t)'
    <2> SUFFICES ASSUME NEW t \in Thread PROVE OnceFor(t)'
      OBVIOUS
    <2>1. CASE t = u
      <3>1. Waiting(t)' /\ value'[t] = 1 /\ ~OwedUp(t)' /\ t \notin ToSet(cv')
        BY <1>1, <1>5, <1>10, <1>13, <1>16, <1>17, <2>1
      <3> QED
        BY <3>1 DEF OnceFor, Notified
    <2>2. CASE t # u
      BY <1>1, <1>3, <1>9, <1>13, <1>16, <1>17, <2>2, OnceKept DEF CondRest
    <2> QED
      BY <2>1, <2>2
  <1>19. CondTypeOK'
    <2>1. \A t \in Thread : pc'[t] = "down_loop" => arg'[t] \in {t, Lock}
      BY <1>3, <1>14 DEF CondRest, CondTypeOK
    <2> QED
      BY <1>1, <1>3, <1>15, <2>1 DEF CondRest, CondTypeOK
  <1>20. GuardKept'
    <2>1. guard = c
      BY <1>2, <1>3, <1>4 DEF CondRest, GuardKept, Guarded
    <2> QED
      BY <1>1, <1>8, <1>14, <2>1 DEF GuardKept
  <1>21. CondvarSafe'
    BY <1>1, <1>11, <1>13, CondValues DEF CondvarSafe
  <1> QED
    BY <1>3, <1>7, <1>11, <1>18, <1>19, <1>20, <1>21 DEF CondInv, CondRest, timerVars

-----------------------------------------------------------------------------
(* notify_all() starts at the front of the list, and has passed nobody.    *)
LEMMA NotifyAllBeginKeeps == ASSUME CondInv, NotifyAllBegin PROVE CondInv'
  <1>1. /\ current \in Thread /\ ~ticking /\ panic = "none" /\ pc[current] = "run"
        /\ pc \in [Thread -> Label] /\ arg = [t \in Thread |-> arg[t]] /\ ~selfWoken
        /\ prio \in [Thread -> Prio] /\ current # Idle
        /\ \A t \in Thread : pc[t] \notin Guarded /\ ~OwedUp(t) /\ ~PassedByAll(t)
    BY NotifierTypes DEF NotifyAllBegin
  <1>2. CondRest
    BY DEF CondInv
  <1>3. PICK c \in Thread : c = current
    BY <1>1
  <1>4. /\ Goto("all_up") /\ arg' = [arg EXCEPT ![current] = 1] /\ guard = current
        /\ UNCHANGED <<current, status, rq, all, panic, prio, priority_setted, timerVars, trapVars,
                       semaVars, cv, guard>>
    BY DEF NotifyAllBegin, Local, managerVars, prioVars, condVars
  <1>5. ThreadInv' /\ SleepInv' /\ SemaInv'
    <2>1. "all_up" \in Plain /\ "all_up" \notin Saving
          /\ panic' \in Panic \ {"no_ready", "next_not_ready", "tail_ready"}
      BY <1>1, <1>4 DEF Plain, Label, Saving, Panic
    <2> QED
      BY <1>1, <1>4, <2>1, MoveKeeps DEF CondInv
  <1>6. /\ \A t \in Thread : /\ pc'[t] = IF t = c THEN "all_up" ELSE pc[t]
                             /\ arg'[t] = IF t = c THEN 1 ELSE arg[t]
        /\ value' = value
    BY <1>1, <1>3, <1>4 DEF Goto, semaVars
  <1>7. cv \in Seq(Thread) /\ Len(cv) \in Nat /\ DOMAIN cv = 1..Len(cv)
    BY <1>2, LenProperties DEF CondRest, CondTypeOK
  <1>8. \A t \in Thread : ~PassedByAll(t)' /\ ~OwedUp(t)'
    BY <1>1, <1>4, <1>6, <1>7 DEF PassedByAll, OwedUp, Guarded, InAll
  <1>9. \A t \in Thread : Waiting(t)' <=> Waiting(t)
    BY <1>1, <1>3, <1>6 DEF Waiting
  <1>10. \A t \in Thread : OnceFor(t)'
    BY <1>1, <1>2, <1>4, <1>6, <1>8, <1>9, OnceKept DEF CondRest
  <1>11. CondTypeOK'
    <2>1. \A t \in Thread : /\ pc'[t] = "down_loop" => arg'[t] \in {t, Lock}
                            /\ pc'[t] # "notify_up"
                            /\ pc'[t] \in InAll => arg'[t] \in 1..(Len(cv) + 1)
      BY <1>1, <1>2, <1>6, <1>7 DEF CondRest, CondTypeOK, Guarded, InAll
    <2> QED
      BY <1>2, <1>4, <2>1 DEF CondRest, CondTypeOK
  <1>12. GuardKept' /\ CondvarSafe'
    BY <1>1, <1>2, <1>3, <1>4, <1>6 DEF CondRest, GuardKept, CondvarSafe
  <1> QED
    BY <1>2, <1>4, <1>5, <1>10, <1>11, <1>12 DEF CondInv, CondRest, timerVars

(* The only thread in notify_all() is the current one, which has the       *)
(* guard; it has passed exactly the entries before its place in the list.  *)
LEMMA AllTypes ==
    ASSUME CondInv, At("all_up")
    PROVE  /\ current \in Thread /\ current # Idle /\ ~ticking /\ panic = "none"
           /\ pc[current] = "all_up" /\ guard = current
           /\ pc \in [Thread -> Label] /\ arg = [t \in Thread |-> arg[t]] /\ ~selfWoken
           /\ cv \in Seq(Thread) /\ Len(cv) \in Nat /\ DOMAIN cv = 1..Len(cv)
           /\ arg[current] \in 1..(Len(cv) + 1)
           /\ \A t \in Thread : t # current => pc[t] \notin Guarded
           /\ \A t \in Thread : /\ ~OwedUp(t)
                                /\ PassedByAll(t) <=> \E i \in DOMAIN cv : cv[i] = t /\ i < arg[current]
  <1>1. /\ current \in Thread /\ current # Idle /\ ~ticking /\ panic = "none"
        /\ pc[current] = "all_up"
        /\ pc \in [Thread -> Label] /\ arg = [t \in Thread |-> arg[t]] /\ ~selfWoken
    BY CallerTypes
  <1>2. CondTypeOK /\ GuardKept
    BY DEF CondInv, CondRest
  <1>3. /\ cv \in Seq(Thread) /\ Len(cv) \in Nat /\ DOMAIN cv = 1..Len(cv)
        /\ arg[current] \in 1..(Len(cv) + 1)
    BY <1>1, <1>2, LenProperties DEF CondTypeOK, InAll
  <1>4. guard = current /\ \A t \in Thread : t # current => pc[t] \notin Guarded
    BY <1>1, <1>2 DEF GuardKept, Guarded, InAll
  <1>5. \A t \in Thread : ~OwedUp(t)
    BY <1>1, <1>4 DEF OwedUp, Guarded
  <1>6. \A t \in Thread : PassedByAll(t) <=> \E i \in DOMAIN cv : cv[i] = t /\ i < arg[current]
    BY <1>1, <1>4 DEF PassedByAll, Guarded, InAll
  <1> QED
    BY <1>1, <1>3, <1>4, <1>5, <1>6

(* notify_all() calls up() for the next waiter, which it has not passed.   *)
LEMMA NotifyAllUpKeeps == ASSUME CondInv, NotifyAllUp PROVE CondInv'
  <1>1. At("all_up") /\ arg[current] <= Len(cv) /\ UNCHANGED <<cv, guard>>
    BY DEF NotifyAllUp, condVars
  <1>2. /\ current \in Thread /\ current # Idle /\ ~ticking /\ panic = "none"
        /\ pc[current] = "all_up" /\ guard = current
        /\ pc \in [Thread -> Label] /\ arg = [t \in Thread |-> arg[t]] /\ ~selfWoken
        /\ cv \in Seq(Thread) /\ Len(cv) \in Nat /\ DOMAIN cv = 1..Len(cv)
        /\ arg[current] \in 1..(Len(cv) + 1)
        /\ \A t \in Thread : t # current => pc[t] \notin Guarded
        /\ \A t \in Thread : /\ ~OwedUp(t)
                             /\ PassedByAll(t) <=> \E i \in DOMAIN cv : cv[i] = t /\ i < arg[current]
    BY <1>1, AllTypes
  <1>3. CondRest
    BY DEF CondInv
  <1>4. PICK c \in Thread : c = current
    BY <1>2
  <1>5. PICK n \in 1..Len(cv) : n = arg[c]
    BY <1>1, <1>2, <1>4
  <1>6. PICK u \in Thread : u = cv[n] /\ u \in ToSet(cv)
    <2>1. n \in DOMAIN cv /\ cv[n] \in Thread
      BY <1>2, <1>5, ElementOfSeq
    <2> QED
      BY <2>1 DEF ToSet
  <1>7. PICK k \in InAll : Goto(k)
    BY DEF NotifyAllUp, UpThen, InAll
  <1>8. /\ UpFree(u) \/ UpWake(u)
        /\ arg' = [arg EXCEPT ![current] = n + 1]
        /\ UNCHANGED <<prioVars, timerVars, trapVars>>
    BY <1>4, <1>5, <1>6 DEF NotifyAllUp, UpThen, Local
  <1>9. \A i \in 1..Len(cv) : cv[i] = u <=> i = n
    BY <1>2, <1>3, <1>5, <1>6 DEF CondRest, CondTypeOK, IsInjective
  <1>10. ~PassedByAll(u)
    BY <1>2, <1>4, <1>5, <1>9
  <1>11. Waiting(u) /\ value[u] = 0
    BY <1>2, <1>3, <1>6, <1>10 DEF CondRest, OnceFor, Notified
  <1>12. ThreadInv' /\ SleepInv' /\ SemaInv' /\ panic' = "none"
    <2>1. Caller(u) /\ k \in Plain /\ k # "down_loop" /\ pc[current] # "down_loop" /\ u \in Sema
      BY <1>2, CondSemas DEF Caller, Plain, Label, InAll
    <2> QED
      BY <1>2, <1>7, <1>8, <1>11, <2>1, UpKeeps DEF CondInv
  <1>13. value' = [value EXCEPT ![u] = 1]
    BY <1>8, <1>11 DEF UpFree, UpWake
  <1>14. value'[u] = 1 /\ value'[Lock] = value[Lock] /\ \A t \in Thread : t # u => value'[t] = value[t]
    BY <1>13, CondValues, CondSemas
  <1>15. \A t \in Thread : /\ pc'[t] = IF t = c THEN k ELSE pc[t]
                           /\ arg'[t] = IF t = c THEN n + 1 ELSE arg[t]
    BY <1>2, <1>4, <1>7, <1>8 DEF Goto
  <1>16. \A t \in Thread : /\ t # c => pc'[t] \notin Guarded
                           /\ pc'[t] # "notify_up"
                           /\ pc'[t] \in InAll <=> t = c
    BY <1>2, <1>4, <1>15 DEF Guarded, InAll
  <1>17. \A t \in Thread : ~OwedUp(t)'
    BY <1>16 DEF OwedUp
  <1>18. \A t \in Thread : PassedByAll(t)' <=> \E i \in 1..Len(cv) : cv[i] = t /\ i < n + 1
    BY <1>1, <1>2, <1>15, <1>16 DEF PassedByAll, InAll
  <1>19. PassedByAll(u)' /\ \A t \in Thread : t # u => (PassedByAll(t)' <=> PassedByAll(t))
    <2>1. PassedByAll(u)'
      BY <1>5, <1>6, <1>18
    <2>2. \A t \in Thread : t # u =>
            ((\E i \in 1..Len(cv) : cv[i] = t /\ i < n + 1) <=> (\E i \in 1..Len(cv) : cv[i] = t /\ i < n))
      BY <1>5, <1>6
    <2> QED
      BY <1>2, <1>4, <1>5, <1>18, <2>1, <2>2
  <1>20. \A t \in Thread : Waiting(t)' <=> Waiting(t)
    BY <1>2, <1>4, <1>15 DEF Waiting, InAll
  <1>21. \A t \in Thread : OnceFor(t)'
    <2> SUFFICES ASSUME NEW t \in Thread PROVE OnceFor(t)'
      OBVIOUS
    <2>1. CASE t = u
      <3>1. Waiting(t)' /\ value'[t] = 1 /\ PassedByAll(t)'
        BY <1>11, <1>14, <1>19, <1>20, <2>1
      <3> QED
        BY <3>1 DEF OnceFor, Notified
    <2>2. CASE t # u
      BY <1>1, <1>2, <1>3, <1>14, <1>17, <1>19, <1>20, <2>2, OnceKept DEF CondRest
    <2> QED
      BY <2>1, <2>2
  <1>22. CondTypeOK'
    <2>1. \A t \in Thread : /\ pc'[t] = "down_loop" => arg'[t] \in {t, Lock}
                            /\ pc'[t] \in InAll => arg'[t] \in 1..(Len(cv) + 1)
      BY <1>2, <1>3, <1>5, <1>15, <1>16 DEF CondRest, CondTypeOK, InAll
    <2> QED
      BY <1>1, <1>3, <1>16, <2>1 DEF CondRest, CondTypeOK
  <1>23. GuardKept'
    BY <1>1, <1>2, <1>4, <1>16 DEF GuardKept
  <1>24. CondvarSafe'
    BY <1>1, <1>12, <1>14, CondValues DEF CondvarSafe
  <1> QED
    BY <1>3, <1>8, <1>12, <1>21, <1>22, <1>23, <1>24 DEF CondInv, CondRest, timerVars

(* At the end of the list everybody on it has been passed.                 *)
LEMMA NotifyAllClearKeeps == ASSUME CondInv, NotifyAllClear PROVE CondInv'
  <1>1. At("all_up") /\ arg[current] > Len(cv)
    BY DEF NotifyAllClear
  <1>2. /\ current \in Thread /\ current # Idle /\ ~ticking /\ panic = "none"
        /\ pc[current] = "all_up" /\ guard = current
        /\ pc \in [Thread -> Label] /\ arg = [t \in Thread |-> arg[t]] /\ ~selfWoken
        /\ cv \in Seq(Thread) /\ Len(cv) \in Nat /\ DOMAIN cv = 1..Len(cv)
        /\ arg[current] \in 1..(Len(cv) + 1)
        /\ \A t \in Thread : t # current => pc[t] \notin Guarded
        /\ \A t \in Thread : /\ ~OwedUp(t)
                             /\ PassedByAll(t) <=> \E i \in DOMAIN cv : cv[i] = t /\ i < arg[current]
    BY <1>1, AllTypes
  <1>3. CondRest /\ prio \in [Thread -> Prio]
    BY <1>1, CallerTypes DEF CondInv
  <1>4. PICK c \in Thread : c = current
    BY <1>2
  <1>5. /\ Goto("run") /\ arg' = [arg EXCEPT ![current] = NoArg] /\ cv' = <<>>
        /\ UNCHANGED <<current, status, rq, all, panic, prio, priority_setted, timerVars, trapVars,
                       semaVars, guard>>
    BY DEF NotifyAllClear, Local, managerVars, prioVars
  <1>6. ThreadInv' /\ SleepInv' /\ SemaInv'
    <2>1. "run" \in Plain /\ "run" \notin Saving
          /\ panic' \in Panic \ {"no_ready", "next_not_ready", "tail_ready"}
      BY <1>2, <1>5 DEF Plain, Label, Saving, Panic
    <2> QED
      BY <1>2, <1>3, <1>5, <2>1, MoveKeeps DEF CondInv
  <1>7. \A t \in Thread : t \in ToSet(cv) <=> PassedByAll(t)
    <2>1. \A i \in DOMAIN cv : i < arg[current]
      BY <1>1, <1>2
    <2> QED
      BY <1>2, <2>1 DEF ToSet
  <1>8. cv' \in Seq(Thread) /\ IsInjective(cv') /\ ToSet(cv') = {}
    BY <1>5 DEF IsInjective, ToSet
  <1>9. /\ \A t \in Thread : /\ pc'[t] = IF t = c THEN "run" ELSE pc[t]
                             /\ t # c => arg'[t] = arg[t]
        /\ value' = value
    BY <1>2, <1>4, <1>5 DEF Goto, semaVars
  <1>10. \A t \in Thread : pc'[t] \notin Guarded
    BY <1>2, <1>4, <1>9 DEF Guarded, InAll
  <1>11. \A t \in Thread : ~PassedByAll(t)' /\ ~OwedUp(t)'
    BY <1>10 DEF PassedByAll, OwedUp, Guarded, InAll
  <1>12. \A t \in Thread : Waiting(t)' <=> Waiting(t)
    BY <1>2, <1>4, <1>9 DEF Waiting
  <1>13. \A t \in Thread : OnceFor(t)'
    <2> SUFFICES ASSUME NEW t \in Thread PROVE OnceFor(t)'
      OBVIOUS
    <2>1. OnceFor(t) /\ Notified(t) /\ Notified(t)'
      BY <1>2, <1>3, <1>7, <1>8, <1>11 DEF CondRest, Notified
    <2>2. t \notin ToSet(cv')
      BY <1>8
    <2> QED
      BY <1>9, <1>11, <1>12, <2>1, <2>2 DEF OnceFor
  <1>14. CondTypeOK'
    <2>1. \A t \in Thread : pc'[t] = "down_loop" => arg'[t] \in {t, Lock}
      BY <1>3, <1>9 DEF CondRest, CondTypeOK
    <2> QED
      BY <1>3, <1>5, <1>8, <1>10, <2>1 DEF CondRest, CondTypeOK, Guarded
  <1>15. GuardKept' /\ CondvarSafe'
    BY <1>3, <1>5, <1>9, <1>10 DEF CondRest, GuardKept, CondvarSafe
  <1> QED
    BY <1>3, <1>5, <1>6, <1>13, <1>14, <1>15 DEF CondInv, CondRest, timerVars

-----------------------------------------------------------------------------
(* Nobody waits, the mutex is free, and each wait() has a new semaphore.   *)
LEMMA CondInitEstablishes == CondInit => CondInv
  <1> SUFFICES ASSUME CondInit PROVE CondInv
    OBVIOUS
  <1>1. ThreadInv /\ SleepInv /\ SemaInv
    BY SemaInitEstablishes DEF CondInit
  <1>2. /\ cv = <<>> /\ guard = NoThread /\ value = InitValue /\ ~selfWoken /\ sleepq = {}
        /\ pc = [t \in Thread |-> "run"] /\ panic = "none"
    BY DEF CondInit, Init, ThreadInit
  <1>3. cv \in Seq(Thread) /\ IsInjective(cv) /\ ToSet(cv) = {}
    BY <1>2 DEF IsInjective, ToSet
  <1>4. \A t \in Thread : pc[t] = "run" /\ pc[t] \notin Guarded /\ ~Waiting(t)
    BY <1>2 DEF Guarded, InAll, Waiting
  <1>5. value[Lock] = 1 /\ \A t \in Thread : value[t] = 0
    BY <1>2, CondvarAssumption
  <1>6. CondTypeOK /\ GuardKept
    BY <1>2, <1>3, <1>4 DEF CondTypeOK, GuardKept, InAll
  <1>7. \A t \in Thread : OnceFor(t)
    BY <1>3, <1>4, <1>5, NobodyNotifies DEF OnceFor
  <1> QED
    BY <1>1, <1>2, <1>5, <1>6, <1>7 DEF CondInv, CondRest, CondvarSafe

(* Every step keeps the invariant.                                         *)
LEMMA CondNextKeeps == CondInv /\ [CondNext]_cvars => CondInv'
  <1> SUFFICES ASSUME CondInv, [CondNext]_cvars PROVE CondInv'
    OBVIOUS
  <1>1. CASE OtherStep \/ UNCHANGED cvars
    BY <1>1, OtherStepKeeps
  <1>2. CASE LockTake \/ LockBlock \/ Unlock
    BY <1>2, LockTakeKeeps, LockBlockKeeps, UnlockKeeps
  <1>3. CASE WaitPush \/ WaitRelease \/ WaitTake \/ WaitBlock
    BY <1>3, WaitPushKeeps, WaitReleaseKeeps, WaitTakeKeeps, WaitBlockKeeps
  <1>4. CASE NotifyOneRemove \/ NotifyOneUp
    BY <1>4, NotifyOneRemoveKeeps, NotifyOneUpKeeps
  <1>5. CASE NotifyAllBegin \/ NotifyAllUp \/ NotifyAllClear
    BY <1>5, NotifyAllBeginKeeps, NotifyAllUpKeeps, NotifyAllClearKeeps
  <1>6. CASE \/ UnlockUpSchedule \/ UnlockSchedule \/ WaitUpSchedule \/ WaitSchedule
             \/ NotifySchedule \/ NotifyAllSchedule
    <2>1. {"up_sched", "rel_sched", "run", "wait_up_sched", "wait_sched", "wait_down",
           "notify_sched", "all_sched", "all_up"} \subseteq Plain
      BY DEF Plain, Label
    <2>2. CASE UnlockSchedule \/ WaitSchedule
      BY <2>1, <2>2, CondScheduleKeeps DEF UnlockSchedule, WaitSchedule
    <2>3. CASE UnlockUpSchedule \/ WaitUpSchedule \/ NotifySchedule \/ NotifyAllSchedule
      <3>1. PICK l \in Plain, k \in Plain :
              /\ UpScheduleThen(l, k) /\ UNCHANGED condVars
              /\ \/ l = "up_sched" /\ k = "rel_sched"
                 \/ l = "wait_up_sched" /\ k = "wait_sched"
                 \/ l = "notify_sched" /\ k = "run"
                 \/ l = "all_sched" /\ k = "all_up"
        BY <2>1, <2>3 DEF UnlockUpSchedule, WaitUpSchedule, NotifySchedule, NotifyAllSchedule
      <3>2. l \in Saving /\ l # "down_loop"
        BY <3>1 DEF Saving
      <3>3. ScheduleThen(l, k) /\ UNCHANGED <<semaVars, condVars>>
        <4>1. ThreadInv /\ SemaInv /\ ~selfWoken
          BY DEF CondInv, CondRest
        <4> QED
          BY <3>1, <3>2, <4>1, UpScheduleRestores
      <3> QED
        BY <3>1, <3>3, CondScheduleKeeps
    <2> QED
      BY <1>6, <2>2, <2>3
  <1> QED
    BY <1>1, <1>2, <1>3, <1>4, <1>5, <1>6 DEF CondNext, CondStep

(* Condvar and Mutex: in every reachable state the threads, the semaphores *)
(* and the list of the condition variable are in order.                    *)
THEOREM CondInvariant == CondSpec => []CondInv
  BY CondInitEstablishes, CondNextKeeps, PTL DEF CondSpec

(* Condvar::wait, notify_one and notify_all: a notification is neither     *)
(* lost nor given twice, wherever in wait() the waiter is and whoever runs *)
(* between the steps of the notifier.                                      *)
THEOREM NotifiedOnce == CondSpec => []NotifyExactlyOnce
  <1>1. CondInv => NotifyExactlyOnce
    BY DEF CondInv, CondRest, OnceFor, Notified, NotifyExactlyOnce
  <1> QED
    BY <1>1, CondInvariant, PTL

(* Condvar and Mutex: no caller finds the list borrowed by a notify_all()  *)
(* that has switched threads, no assertion fails, and the mutex has one    *)
(* owner or none.                                                          *)
THEOREM CondvarsSafe == CondSpec => []CondvarSafe
  <1>1. CondInv => CondvarSafe
    BY DEF CondInv, CondRest
  <1> QED
    BY <1>1, CondInvariant, PTL
=============================================================================
