------------------------------ MODULE Threads ------------------------------
(***************************************************************************)
(* Kernel threads of Tacos on one hart: the thread manager, the life cycle *)
(* of a thread, the sleep queue and the timer trap that preempts.          *)
(*                                                                         *)
(* Only the current thread executes.  A step is a stretch of code that     *)
(* runs with supervisor interrupts off, or a stretch between two such      *)
(* stretches: the timer trap may be taken between two steps whenever the   *)
(* current thread has interrupts on, and nowhere else.  A call of          *)
(* Manager::schedule is one step, because it runs with interrupts off up   *)
(* to the end of schedule_tail on the next thread's stack; the suspended   *)
(* thread goes on from pc when it is chosen again.                         *)
(*                                                                         *)
(* The scheduler is a parameter, as the trait Schedule is in the code:     *)
(* Register, Schedule, Members and EmptyQueue stand for an implementation  *)
(* of the trait; module SchedulerContract says what the manager needs.     *)
(***************************************************************************)
EXTENDS Integers, FiniteSets

CONSTANTS
    Thread,         \* identities of threads, those not yet spawned included
    Initial, Idle,  \* the thread that boots the kernel, and the idle thread
    NoThread,       \* Option::None for a thread
    NoArg,          \* no local value
    MaxPrio,        \* PRI_MAX
    DefaultPrio,    \* PRI_DEFAULT
    SpawnPrios,     \* the priorities each thread may be spawned with
    SetPrios,       \* the arguments set_priority() is called with
    SleepTicks,     \* the arguments sleep() is called with
    MaxTicks,       \* bound: the clock saturates here
    MaxNest,        \* bound: timer traps nested on one stack
    Queue,          \* the values of a scheduler
    EmptyQueue,     \* Scheduler::default()
    Members(_),     \* the set of threads a scheduler holds
    Register(_, _, _),    \* (queue, thread, priorities): the new queue
    Schedule(_, _, _, _)  \* (queue, priorities, current, its status):
                          \* [next, queue]

Prio == 0..MaxPrio

ASSUME ThreadAssumption ==
    /\ {Initial, Idle} \subseteq Thread
    /\ Initial # Idle
    /\ NoThread \notin Thread
    /\ MaxPrio \in Nat /\ DefaultPrio \in Prio
    /\ SpawnPrios \in [Thread -> SUBSET Prio] /\ SetPrios \subseteq Prio
    /\ SleepTicks \subseteq Int
    /\ MaxTicks \in Nat
    /\ MaxNest \in Nat \ {0}

Status == {"None", "Ready", "Running", "Blocked", "Dying"}

(* The places where a thread can be interrupted or switched out, the ones  *)
(* in the modules that extend this one included: "run" is the thread's own *)
(* code.                                                                   *)
Label == {"run", "spawn_all", "spawn_sched", "exit_sched", "exited",
          "setprio_sched", "setprio_done", "sleep_mark", "sleep_sched",
          "down_loop", "up_sched",
          "acq_test", "acq_read", "acq_clone", "acq_compare", "acq_donate", "acq_record",
          "acq_record2", "acq_sched", "acq_next", "acq_down", "acq_hold", "acq_store",
          "rel_assert", "rel_find", "rel_forget", "rel_donner", "rel_mine", "rel_theirs",
          "rel_final", "rel_store", "rel_setted", "rel_take", "rel_clear", "rel_up", "rel_sched",
          "wait_release", "wait_up_sched", "wait_sched", "wait_down", "wait_acquire",
          "notify_up", "notify_sched", "all_up", "all_sched"}

(* "none", and the assertions that can stop the kernel.                    *)
Panic == {"none", "no_ready", "next_not_ready", "tail_ready", "wake_up",
          "sema_count", "unwrap_holder", "holder_assert", "borrow"}

VARIABLES
    current,    \* Manager::current
    status,     \* Thread::status; "None" before the thread is built
    rq,         \* Manager::scheduler
    all,        \* Manager::all
    prio,       \* Thread::priority
    priority_setted,  \* Thread::priority_setted
    ticks,      \* timer::TICKS
    sleepq,     \* SLEEP_QUEUE
    pc, arg,    \* where a thread is in the kernel's code, and its local value
    intr,       \* the SIE bit the thread runs with, saved while it is switched out
    ticking,    \* the current thread is in a timer trap, inside tick()
    resched,    \* timer traps on a thread's stack that have still to call schedule()
    selfWoken,  \* history: some tick woke the thread it interrupted
    panic       \* "none", or the assertion that stopped the kernel

managerVars == <<current, status, rq, all, panic>>
prioVars    == <<prio, priority_setted>>
localVars   == <<pc, arg>>
timerVars   == <<ticks, sleepq, ticking, selfWoken>>
trapVars    == <<intr, resched>>
threadVars  == <<managerVars, prioVars, localVars, timerVars, trapVars>>

(* Manager::get creates the initial thread, running, and registers Idle.   *)
ThreadInit ==
    /\ current = Initial
    /\ status = [t \in Thread |-> CASE t = Initial -> "Running"
                                    [] t = Idle    -> "Ready"
                                    [] OTHER       -> "None"]
    /\ prio = [t \in Thread |-> IF t = Initial THEN DefaultPrio ELSE 0]
    /\ rq = Register(EmptyQueue, Idle, prio)
    /\ all = {Initial, Idle}
    /\ priority_setted = [t \in Thread |-> NoArg]
    /\ ticks = 0
    /\ sleepq = {}
    /\ pc = [t \in Thread |-> "run"]
    /\ arg = [t \in Thread |-> NoArg]
    /\ intr = [t \in Thread |-> TRUE]
    /\ ticking = FALSE
    /\ resched = [t \in Thread |-> 0]
    /\ selfWoken = FALSE
    /\ panic = "none"

-----------------------------------------------------------------------------
(* The current thread goes on from label l of its own code: no timer trap  *)
(* is left on its stack above it.                                          *)
At(l) ==
    /\ panic = "none"
    /\ ~ticking
    /\ resched[current] = 0
    /\ pc[current] = l

Goto(l) == pc' = [pc EXCEPT ![current] = l]

(* A thread that may call the kernel: Idle only ever yields.               *)
Calls == At("run") /\ current # Idle

(* The assertions of Manager::schedule and the match of schedule_tail.     *)
(* next is marked Running before the status of previous is read.           *)
SchedulePanic(st, next) ==
    CASE next = NoThread /\ st[current] # "Running"  -> "no_ready"
      [] next # NoThread /\ st[next] # "Ready"       -> "next_not_ready"
      [] next \notin {NoThread, current} /\ st[current] = "Ready" -> "tail_ready"
      [] OTHER -> "none"

(* Mutant: the previous thread is not put back on the queue.               *)
schedule_tail_unqueued(st, q) ==
    /\ all' = IF st[current] = "Dying" THEN all \ {current} ELSE all
    /\ status' = IF st[current] = "Running" THEN [st EXCEPT ![current] = "Ready"] ELSE st
    /\ rq' = q

(* Mutant: the previous thread is queued, but stays Running.               *)
schedule_tail_unmarked(st, q) ==
    /\ all' = IF st[current] = "Dying" THEN all \ {current} ELSE all
    /\ status' = st
    /\ rq' = IF st[current] = "Running" THEN Register(q, current, prio) ELSE q

(* schedule_tail: what happens to the previous thread, once next runs.     *)
schedule_tail(st, q) ==
    /\ all' = IF st[current] = "Dying" THEN all \ {current} ELSE all
    /\ status' = IF st[current] = "Running" THEN [st EXCEPT ![current] = "Ready"] ELSE st
    /\ rq' = IF st[current] = "Running" THEN Register(q, current, prio) ELSE q

(* Manager::schedule with the statuses st that its caller has just set.    *)
schedule(st) ==
    LET choice == Schedule(rq, prio, current, st[current])
        next   == choice.next
    IN  /\ panic' = SchedulePanic(st, next)
        /\ IF panic' # "none" THEN UNCHANGED <<current, status, rq, all>>
           ELSE IF next = NoThread
           THEN /\ status' = st /\ rq' = choice.queue
                /\ UNCHANGED <<current, all>>
           ELSE /\ current' = next
                /\ schedule_tail([st EXCEPT ![next] = "Running"], choice.queue)

(* Mutant: the woken thread is queued, but not marked Ready.               *)
wake_up_unmarked(t) ==
    /\ rq' = Register(rq, t, prio)
    /\ UNCHANGED <<current, status, all, panic>>

(* Mutant: the woken thread is marked Ready, but not queued.               *)
wake_up_unqueued(t) ==
    /\ status' = [status EXCEPT ![t] = "Ready"]
    /\ UNCHANGED <<current, rq, all, panic>>

(* thread::wake_up of a thread that the caller has found to be waiting.    *)
wake_up(t) ==
    IF status[t] = "Blocked"
    THEN /\ status' = [status EXCEPT ![t] = "Ready"]
         /\ rq' = Register(rq, t, prio)
         /\ UNCHANGED <<current, all, panic>>
    ELSE /\ panic' = "wake_up"
         /\ UNCHANGED <<current, status, rq, all>>

-----------------------------------------------------------------------------
(* thread::schedule called by a thread, and the loop of Idle.              *)
Yield ==
    /\ At("run")
    /\ schedule(status)
    /\ UNCHANGED <<prioVars, localVars, timerVars, trapVars>>

(* Builder::spawn.  Manager::register takes two locks one after the other, *)
(* and then the new thread gets its chance to run.                         *)
SpawnRegister ==
    /\ Calls
    /\ \E t \in Thread : \E p \in SpawnPrios[t] :
         /\ status[t] = "None"
         /\ status' = [status EXCEPT ![t] = "Ready"]
         /\ prio' = [prio EXCEPT ![t] = p]
         /\ rq' = Register(rq, t, prio')
         /\ arg' = [arg EXCEPT ![current] = t]
    /\ Goto("spawn_all")
    /\ UNCHANGED <<current, all, panic, priority_setted, timerVars, trapVars>>

(* Mutant: register forgets Manager::all.                                  *)
SpawnAll_skipped ==
    /\ At("spawn_all")
    /\ Goto("spawn_sched")
    /\ arg' = [arg EXCEPT ![current] = NoArg]
    /\ UNCHANGED <<managerVars, prioVars, timerVars, trapVars>>

SpawnAll ==
    /\ At("spawn_all")
    /\ all' = all \cup {arg[current]}
    /\ Goto("spawn_sched")
    /\ arg' = [arg EXCEPT ![current] = NoArg]
    /\ UNCHANGED <<current, status, rq, panic, prioVars, timerVars, trapVars>>

(* The calls of schedule() that end spawn() and sleep(), and the one in    *)
(* set_priority().                                                         *)
ScheduleThen(l, k) ==
    /\ At(l)
    /\ Goto(k)
    /\ schedule(status)
    /\ UNCHANGED <<arg, prioVars, timerVars, trapVars>>

SpawnSchedule == ScheduleThen("spawn_sched", "run")

(* thread::exit.  The initial thread never returns from main: it shuts the *)
(* machine down.                                                           *)
ExitMark ==
    /\ Calls /\ current # Initial
    /\ status' = [status EXCEPT ![current] = "Dying"]
    /\ Goto("exit_sched")
    /\ UNCHANGED <<current, rq, all, panic, arg, prioVars, timerVars, trapVars>>

ExitSchedule == ScheduleThen("exit_sched", "exited")

(* Mutant: set_priority does not call schedule().                          *)
SetPriorityStore_stays ==
    /\ Calls
    /\ \E p \in SetPrios : /\ prio' = [prio EXCEPT ![current] = p]
                           /\ arg' = [arg EXCEPT ![current] = p]
    /\ Goto("setprio_done")
    /\ UNCHANGED <<managerVars, priority_setted, timerVars, trapVars>>

(* thread::set_priority.                                                   *)
SetPriorityStore ==
    /\ Calls
    /\ \E p \in SetPrios : /\ prio' = [prio EXCEPT ![current] = p]
                           /\ arg' = [arg EXCEPT ![current] = p]
    /\ Goto("setprio_sched")
    /\ UNCHANGED <<managerVars, priority_setted, timerVars, trapVars>>

SetPrioritySchedule == ScheduleThen("setprio_sched", "setprio_done")

SetPriorityDone ==
    /\ At("setprio_done")
    /\ priority_setted' = [priority_setted EXCEPT ![current] = arg[current]]
    /\ arg' = [arg EXCEPT ![current] = NoArg]
    /\ Goto("run")
    /\ UNCHANGED <<managerVars, prio, timerVars, trapVars>>

(* thread::sleep.  The entry is pushed with interrupts off; they are on    *)
(* again before block() marks the thread, and before it calls schedule().  *)
(* sleep(n) with n <= 0 returns at once.                                   *)
SleepPush ==
    /\ Calls
    /\ \E n \in SleepTicks :
         /\ n > 0 /\ ticks + n <= MaxTicks
         /\ sleepq' = sleepq \cup {[ticks |-> ticks + n, thread |-> current]}
    /\ Goto("sleep_mark")
    /\ UNCHANGED <<managerVars, arg, prioVars, ticks, ticking, selfWoken, trapVars>>

(* Mutant: sleep() yields instead of blocking.                             *)
SleepMark_yields ==
    /\ At("sleep_mark")
    /\ Goto("sleep_sched")
    /\ UNCHANGED <<managerVars, arg, prioVars, timerVars, trapVars>>

SleepMark ==
    /\ At("sleep_mark")
    /\ status' = [status EXCEPT ![current] = "Blocked"]
    /\ Goto("sleep_sched")
    /\ UNCHANGED <<current, rq, all, panic, arg, prioVars, timerVars, trapVars>>

SleepSchedule == ScheduleThen("sleep_sched", "run")

-----------------------------------------------------------------------------
(* The timer trap.  The hart turns interrupts off on entry; tick() wakes   *)
(* the sleepers that are due; the handler turns interrupts on and calls    *)
(* schedule() on the stack of the interrupted thread.                      *)
TimerInterrupt ==
    /\ panic = "none"
    /\ intr[current] /\ ~ticking
    /\ resched[current] < MaxNest
    /\ ticks' = IF ticks < MaxTicks THEN ticks + 1 ELSE ticks
    /\ ticking' = TRUE
    /\ intr' = [intr EXCEPT ![current] = FALSE]
    /\ UNCHANGED <<managerVars, prioVars, localVars, sleepq, selfWoken, resched>>

(* Mutant: SleepData ordered without Reverse.                              *)
Peek_latest == {e \in sleepq : \A f \in sleepq : e.ticks >= f.ticks}

(* The entries BinaryHeap::peek may return: SleepData is ordered by        *)
(* Reverse(ticks), so the maximum of the heap is the earliest wake time.   *)
Peek == {e \in sleepq : \A f \in sleepq : e.ticks <= f.ticks}

TickWake ==
    /\ panic = "none" /\ ticking
    /\ \E e \in Peek :
         /\ ticks >= e.ticks
         /\ sleepq' = sleepq \ {e}
         /\ selfWoken' = (selfWoken \/ (e.thread = current /\ status[current] = "Blocked"))
         /\ wake_up(e.thread)
    /\ UNCHANGED <<prioVars, localVars, ticks, ticking, trapVars>>

TickDone ==
    /\ panic = "none" /\ ticking
    /\ \A e \in Peek : ticks < e.ticks
    /\ ticking' = FALSE
    /\ intr' = [intr EXCEPT ![current] = TRUE]
    /\ resched' = [resched EXCEPT ![current] = @ + 1]
    /\ UNCHANGED <<managerVars, prioVars, localVars, ticks, sleepq, selfWoken>>

TrapSchedule ==
    /\ panic = "none" /\ ~ticking
    /\ resched[current] > 0
    /\ resched' = [resched EXCEPT ![current] = @ - 1]
    /\ schedule(status)
    /\ UNCHANGED <<prioVars, localVars, timerVars, intr>>

(* A panic shuts the machine down.                                         *)
Halted == panic # "none" /\ UNCHANGED threadVars

-----------------------------------------------------------------------------
(* What a thread calls, and how it goes on inside the calls.               *)
CallStep == Yield \/ SpawnRegister \/ ExitMark \/ SetPriorityStore \/ SleepPush

KernelStep ==
    \/ SpawnAll \/ SpawnSchedule \/ ExitSchedule
    \/ SetPrioritySchedule \/ SetPriorityDone
    \/ SleepMark \/ SleepSchedule

TrapStep == TickWake \/ TickDone \/ TrapSchedule

ThreadNext == CallStep \/ KernelStep \/ TimerInterrupt \/ TrapStep \/ Halted

ThreadSpec == ThreadInit /\ [][ThreadNext]_threadVars

(* The timer re-arms itself and its interrupt stays pending until it is    *)
(* taken, so that it is taken if interrupts are on again and again; a trap *)
(* handler that has been entered runs on.  Nothing is assumed of the       *)
(* threads themselves: they may compute for ever.                          *)
TrapFairness == SF_threadVars(TimerInterrupt) /\ WF_threadVars(TrapStep)

FairThreadSpec == ThreadSpec /\ TrapFairness

-----------------------------------------------------------------------------
(* Every variable has its type.  What rq is, ReadyExact says.              *)
ThreadTypeOK ==
    /\ current \in Thread
    /\ status \in [Thread -> Status]
    /\ all \subseteq Thread
    /\ prio \in [Thread -> Prio]
    /\ priority_setted \in [Thread -> Prio \cup {NoArg}]
    /\ ticks \in 0..MaxTicks
    /\ sleepq \subseteq [ticks : Int, thread : Thread]
    /\ pc \in [Thread -> Label]
    /\ intr \in [Thread -> BOOLEAN]
    /\ ticking \in BOOLEAN
    /\ resched \in [Thread -> Nat]
    /\ selfWoken \in BOOLEAN
    /\ panic \in Panic

(* As long as no tick has woken the very thread it interrupted, the run    *)
(* queue holds exactly the Ready threads, each once, so that no runnable   *)
(* thread is forgotten and none is run twice (Manager::schedule,           *)
(* schedule_tail, wake_up and register together).                          *)
ReadyExact ==
    ~selfWoken => rq \in Queue /\ Members(rq) = {t \in Thread : status[t] = "Ready"}

(* Under the same condition the current thread is the only one that runs   *)
(* or is about to block or die, and it is not queued.                      *)
OneRunner ==
    ~selfWoken =>
        /\ status[current] \in {"Running", "Blocked", "Dying"}
        /\ \A t \in Thread \ {current} : status[t] # "Running"

(* The assertions of Manager::schedule ("no thread is ready", next is      *)
(* Ready) and the unreachable!() of schedule_tail can only fail after a    *)
(* tick has woken the thread it interrupted: the window that sleep() opens *)
(* between marking the thread and switching away is the only one.          *)
ManagerSafe == ~selfWoken => panic \notin {"no_ready", "next_not_ready", "tail_ready"}

(* The labels from which a thread goes straight on to schedule().          *)
BeforeSchedule == {"spawn_all", "spawn_sched", "exit_sched", "setprio_sched",
                   "sleep_sched", "up_sched"}

HighestRunsExcept(labels) ==
    \/ panic # "none" \/ ticking \/ resched[current] > 0 \/ pc[current] \in labels
    \/ \A t \in Thread : status[t] = "Ready" => prio[t] <= prio[current]

(* With the priority scheduler, a Ready thread of higher priority than the *)
(* current one is only kept waiting while the current thread is on its way *)
(* to a call of schedule() (spawn, exit, set_priority, sleep, up, tick).   *)
HighestPriorityRuns == HighestRunsExcept(BeforeSchedule)

(* Outside tick() no sleeper is overdue, whatever order the entries were   *)
(* pushed in: tick() pops the heap until its earliest entry lies ahead.    *)
NoOversleep == panic = "none" /\ ~ticking => \A e \in sleepq : e.ticks > ticks

(* sleep() does not return while its entry is queued: a thread with an     *)
(* entry is still inside sleep(), or is Blocked.                           *)
SleepersStayBlocked ==
    \A e \in sleepq :
        \/ pc[e.thread] \in {"sleep_mark", "sleep_sched"}
        \/ status[e.thread] = "Blocked"

(* Manager::all holds every live thread, except one whose spawner is       *)
(* between the two halves of Manager::register.                            *)
AllCoversLive ==
    \A t \in Thread :
        status[t] \in {"Ready", "Running", "Blocked"} =>
            t \in all \/ \E s \in Thread : pc[s] = "spawn_all" /\ arg[s] = t

(* Fcfs starves nobody: a Ready thread becomes the current one, even if    *)
(* the others never yield, because the timer trap calls schedule().        *)
ReadyRuns ==
    \A t \in Thread : status[t] = "Ready" ~> current = t \/ panic # "none"

(* A thread of the highest priority that is Ready becomes the current one: *)
(* the deque of a priority is served round robin.                          *)
TopReadyRuns ==
    \A t \in Thread :
        status[t] = "Ready" /\ prio[t] = MaxPrio ~> current = t \/ panic # "none"

(* A thread that sleeps runs again, unless the kernel has stopped.         *)
SleeperRuns ==
    \A t \in Thread :
        (\E e \in sleepq : e.thread = t)
            ~> \/ current = t /\ \A e \in sleepq : e.thread # t
               \/ panic # "none"
=============================================================================
