----------------------------- MODULE SleepLocks -----------------------------
(***************************************************************************)
(* sync::Sleep, the lock behind sync::Mutex, with priority donation.       *)
(* Every semaphore is here the inner semaphore of one lock, and its name   *)
(* is the lock's id, a number that grows with the order of creation.       *)
(*                                                                         *)
(* acquire() and release() run with interrupts on, except for the calls    *)
(* they make: another thread may run between any two of the steps below.   *)
(* The RefCell of the holder is borrowed for the length of an expression,  *)
(* which is two steps: in between the borrow is held with interrupts on,   *)
(* twice across thread::current(), and the thread may be preempted.        *)
(***************************************************************************)
EXTENDS Semaphores, Deques

CONSTANTS
    Uses,        \* the locks that the code of each thread takes
    MaxAcquires, \* bound: how often each thread calls acquire()
    Setters      \* bound: the threads that call set_priority(), once each

ASSUME LockAssumption ==
    /\ Sema \subseteq Nat
    /\ \A l \in Sema : InitValue[l] = 1
    /\ Uses \in [Thread -> SUBSET Sema]
    /\ MaxAcquires \in [Thread -> Nat]
    /\ Setters \subseteq Thread

VARIABLES
    holder,       \* Sleep::holder
    guards,       \* the locks for which a thread has a MutexGuard
    donationq,    \* Thread::donationq
    stored_prev,  \* Thread::stored_prev
    todo,         \* find_and_donate's stack: the pairs (donner, acceptor) to visit
    dd,           \* the DonationData in hand: current_dd, or release's ret
    final,        \* release's final_priority
    acquires,     \* history: the calls of acquire()
    base          \* history: the priority a thread was built with or has set

donationVars == <<donationq, stored_prev, base>>
lockLocals   == <<todo, dd, final>>
lockVars     == <<holder, guards, donationVars, lockLocals, acquires>>
lvars        == <<vars, lockVars>>

NoLock == 1000    \* 0xFFFFFFFF: larger than every lock's id

LockInit ==
    /\ Init
    /\ holder = [l \in Sema |-> NoThread]
    /\ guards = [t \in Thread |-> {}]
    /\ donationq = [t \in Thread |-> <<>>]
    /\ stored_prev = [t \in Thread |-> [lock |-> NoLock, prev |-> 0]]
    /\ todo = [t \in Thread |-> <<>>]
    /\ dd = [t \in Thread |-> NoArg]
    /\ final = [t \in Thread |-> 0]
    /\ acquires = [t \in Thread |-> 0]
    /\ base = prio

Local(x) == arg' = [arg EXCEPT ![current] = x]

-----------------------------------------------------------------------------
(* The places inside an expression with a Ref, or a RefMut, of the holder. *)
Reading == {"acq_test", "rel_assert"}
Writing == {"acq_clone", "acq_store", "rel_clear"}

Borrowed(l, places) == \E t \in Thread : pc[t] \in places /\ arg[t] = l

(* RefCell::borrow and borrow_mut, called on the way to place k: they      *)
(* panic if another thread has been preempted inside such an expression.   *)
Borrow(l, places, k) ==
    /\ panic' = IF Borrowed(l, places) THEN "borrow" ELSE panic
    /\ Goto(k) /\ Local(l)
    /\ UNCHANGED <<current, status, rq, all, prioVars, timerVars, trapVars, semaVars>>

borrow(l, k)     == Borrow(l, Writing, k)
borrow_mut(l, k) == Borrow(l, Reading \cup Writing, k)

-----------------------------------------------------------------------------
(* Sleep::acquire.  A thread does not lock what it has locked already.     *)
AcquireCheck(l) ==
    /\ Calls
    /\ l \in Uses[current] \ guards[current]
    /\ acquires[current] < MaxAcquires[current]
    /\ acquires' = [acquires EXCEPT ![current] = @ + 1]
    /\ borrow(l, "acq_test")
    /\ UNCHANGED <<holder, guards, donationVars, lockLocals>>

AcquireTest ==
    /\ At("acq_test")
    /\ Goto(IF holder[arg[current]] = NoThread THEN "acq_down" ELSE "acq_read")
    /\ UNCHANGED <<managerVars, arg, prioVars, timerVars, trapVars, semaVars, lockVars>>

(* The holder is read a second time, and unwrapped.                        *)
AcquireBorrow ==
    /\ At("acq_read")
    /\ borrow_mut(arg[current], "acq_clone")
    /\ UNCHANGED lockVars

AcquireRead ==
    /\ At("acq_clone")
    /\ IF holder[arg[current]] = NoThread
       THEN /\ panic' = "unwrap_holder"
            /\ UNCHANGED <<current, status, rq, all, pc, todo>>
       ELSE /\ todo' = [todo EXCEPT ![current] =
                          <<[donner |-> current, acceptor |-> holder[arg[current]]]>>]
            /\ Goto("acq_compare")
            /\ UNCHANGED managerVars
    /\ UNCHANGED <<arg, prioVars, timerVars, trapVars, semaVars, holder, guards, donationVars, dd, final, acquires>>

(* donation_wrapped: is a donation needed?  The record is made of the two  *)
(* priorities as they are now.                                             *)
AcquireCompare ==
    /\ At("acq_compare")
    /\ LET d == Head(todo[current]).donner
           h == Head(todo[current]).acceptor
       IN  IF prio[d] > prio[h]
           THEN /\ dd' = [dd EXCEPT ![current] =
                             [donner |-> d, acceptor |-> h,
                              donner_priority |-> prio[d], prev_priority |-> prio[h],
                              is_donner |-> TRUE, lockid |-> arg[current]]]
                /\ Goto("acq_donate")
           ELSE Goto("acq_next") /\ UNCHANGED dd
    /\ UNCHANGED <<managerVars, arg, prioVars, timerVars, trapVars, semaVars,
                   holder, guards, donationVars, todo, final, acquires>>

(* donate: the donner's priority is read again.                            *)
AcquireDonate ==
    /\ At("acq_donate")
    /\ prio' = [prio EXCEPT ![dd[current].acceptor] = prio[dd[current].donner]]
    /\ Goto("acq_record")
    /\ UNCHANGED <<managerVars, arg, priority_setted, timerVars, trapVars, semaVars, lockVars>>

(* add_donation, first at the donner, then at the acceptor.                *)
AddDonation(t, r) == donationq' = [donationq EXCEPT ![t] = Append(@, r)]

AcquireRecord ==
    /\ At("acq_record")
    /\ AddDonation(dd[current].donner, dd[current])
    /\ Goto("acq_record2")
    /\ UNCHANGED <<managerVars, arg, prioVars, timerVars, trapVars, semaVars,
                   holder, guards, stored_prev, base, lockLocals, acquires>>

AcquireRecord2 ==
    /\ At("acq_record2")
    /\ AddDonation(dd[current].acceptor, [dd[current] EXCEPT !.is_donner = FALSE])
    /\ dd' = [dd EXCEPT ![current] = NoArg]
    /\ Goto("acq_sched")
    /\ UNCHANGED <<managerVars, arg, prioVars, timerVars, trapVars, semaVars,
                   holder, guards, stored_prev, base, todo, final, acquires>>

AcquireSchedule == ScheduleThen("acq_sched", "acq_next") /\ UNCHANGED <<semaVars, lockVars>>

(* find_and_donate(acceptor, lock): the acceptor's own donations over other *)
(* locks are visited next, and then what is left of the callers' lists.    *)
AcquireNext ==
    /\ At("acq_next")
    /\ LET h    == Head(todo[current]).acceptor
           mine == Retain(donationq[h], {r \in ToSet(donationq[h]) :
                                             r.is_donner /\ r.lockid # arg[current]})
       IN  todo' = [todo EXCEPT ![current] =
                      [i \in DOMAIN mine |-> [donner |-> h, acceptor |-> mine[i].acceptor]]
                        \o Tail(@)]
    /\ Goto(IF todo'[current] = <<>> THEN "acq_down" ELSE "acq_compare")
    /\ UNCHANGED <<managerVars, arg, prioVars, timerVars, trapVars, semaVars,
                   holder, guards, donationVars, dd, final, acquires>>

AcquireTake ==
    /\ At("acq_down") \/ At("down_loop")
    /\ DownTake(arg[current])
    /\ Goto("acq_hold")
    /\ UNCHANGED <<arg, prioVars, timerVars, resched, lockVars>>

AcquireBlock ==
    /\ At("acq_down") \/ At("down_loop")
    /\ DownBlock(arg[current])
    /\ Goto("down_loop")
    /\ UNCHANGED <<arg, prioVars, timerVars, resched, lockVars>>

(* replace(thread::current()), which evaluates current() with the RefMut.  *)
AcquireHoldBorrow ==
    /\ At("acq_hold")
    /\ borrow_mut(arg[current], "acq_store")
    /\ UNCHANGED lockVars

(* Mutant: acquire() does not record the holder.                           *)
AcquireHold_unrecorded ==
    /\ At("acq_store")
    /\ guards' = [guards EXCEPT ![current] = @ \cup {arg[current]}]
    /\ Goto("run") /\ Local(NoArg)
    /\ UNCHANGED <<managerVars, prioVars, timerVars, trapVars, semaVars, holder, donationVars,
                   lockLocals, acquires>>

AcquireHold ==
    /\ At("acq_store")
    /\ holder' = [holder EXCEPT ![arg[current]] = current]
    /\ guards' = [guards EXCEPT ![current] = @ \cup {arg[current]}]
    /\ Goto("run") /\ Local(NoArg)
    /\ UNCHANGED <<managerVars, prioVars, timerVars, trapVars, semaVars, donationVars, lockLocals, acquires>>

-----------------------------------------------------------------------------
(* Sleep::release, called when the guard is dropped: the assertion on the  *)
(* holder evaluates thread::current() with the Ref.                        *)
ReleaseCheck(l) ==
    /\ Calls
    /\ l \in guards[current]
    /\ guards' = [guards EXCEPT ![current] = @ \ {l}]
    /\ borrow(l, "rel_assert")
    /\ UNCHANGED <<holder, donationVars, lockLocals, acquires>>

ReleaseAssert ==
    /\ At("rel_assert")
    /\ panic' = IF holder[arg[current]] = current THEN "none" ELSE "holder_assert"
    /\ Goto("rel_find")
    /\ UNCHANGED <<current, status, rq, all, arg, prioVars, timerVars, trapVars, semaVars, lockVars>>

(* delete_donation on the caller's own records of the lock: it looks for   *)
(* the first under one lock of donationq, and drops them under another.    *)
ReleaseFind ==
    /\ At("rel_find")
    /\ LET mine == Retain(donationq[current],
                          {r \in ToSet(donationq[current]) : r.lockid = arg[current]})
       IN  dd' = [dd EXCEPT ![current] = IF mine = <<>> THEN NoArg ELSE mine[1]]
    /\ Goto("rel_forget")
    /\ UNCHANGED <<managerVars, arg, prioVars, timerVars, trapVars, semaVars,
                   holder, guards, donationVars, todo, final, acquires>>

(* donationq.lock().retain(..) of thread t: the records in drop go.        *)
Drop(t, drop) ==
    /\ donationq' = [donationq EXCEPT ![t] = Retain(@, ToSet(@) \ drop)]
    /\ UNCHANGED <<managerVars, arg, prioVars, timerVars, trapVars, semaVars,
                   holder, guards, stored_prev, base, lockLocals, acquires>>

ReleaseForget ==
    /\ At("rel_forget")
    /\ Drop(current, {r \in ToSet(donationq[current]) : r.lockid = arg[current]})
    /\ Goto(IF dd[current] = NoArg THEN "rel_setted" ELSE "rel_donner")

(* The donner of the record found, whatever its is_donner says, forgets    *)
(* the lock too, and then all that is between those two threads is         *)
(* forgotten, first here and then there.                                   *)
ReleaseForgetDonner ==
    /\ At("rel_donner")
    /\ LET d == dd[current].donner
       IN  Drop(d, {r \in ToSet(donationq[d]) : r.lockid = arg[current]})
    /\ Goto("rel_mine")

ReleaseForgetMine ==
    /\ At("rel_mine")
    /\ Drop(current, {r \in ToSet(donationq[current]) : r.donner = dd[current].donner})
    /\ Goto("rel_theirs")

ReleaseForgetTheirs ==
    /\ At("rel_theirs")
    /\ LET d == dd[current].donner
       IN  Drop(d, {r \in ToSet(donationq[d]) : r.acceptor = current})
    /\ Goto("rel_final")

(* The priority to return to: the one before the donation for the oldest   *)
(* lock released so far, unless a donation recorded here is higher.        *)
ReleaseFinal ==
    /\ At("rel_final")
    /\ stored_prev' = [stored_prev EXCEPT ![current] =
           IF @.lock > arg[current]
           THEN [lock |-> arg[current], prev |-> dd[current].prev_priority] ELSE @]
    /\ final' = [final EXCEPT ![current] = Max({stored_prev'[current].prev} \cup
                    {r.donner_priority : r \in ToSet(donationq[current])})]
    /\ dd' = [dd EXCEPT ![current] = NoArg]
    /\ Goto("rel_store")
    /\ UNCHANGED <<managerVars, arg, prioVars, timerVars, trapVars, semaVars,
                   holder, guards, donationq, base, todo, acquires>>

ReleaseStore ==
    /\ At("rel_store")
    /\ prio' = [prio EXCEPT ![current] = final[current]]
    /\ final' = [final EXCEPT ![current] = 0]
    /\ Goto("rel_setted")
    /\ UNCHANGED <<managerVars, arg, priority_setted, timerVars, trapVars, semaVars,
                   holder, guards, donationVars, todo, dd, acquires>>

ReleaseSetted ==
    /\ At("rel_setted")
    /\ prio' = IF priority_setted[current] = NoArg THEN prio
               ELSE [prio EXCEPT ![current] = priority_setted[current]]
    /\ Goto("rel_take")
    /\ UNCHANGED <<managerVars, arg, priority_setted, timerVars, trapVars, semaVars, lockVars>>

ReleaseTakeBorrow ==
    /\ At("rel_take")
    /\ borrow_mut(arg[current], "rel_clear")
    /\ UNCHANGED lockVars

(* take().unwrap().                                                        *)
ReleaseTake ==
    /\ At("rel_clear")
    /\ panic' = IF holder[arg[current]] = NoThread THEN "holder_assert" ELSE "none"
    /\ holder' = [holder EXCEPT ![arg[current]] = NoThread]
    /\ Goto("rel_up")
    /\ UNCHANGED <<current, status, rq, all, arg, prioVars, timerVars, trapVars, semaVars, guards,
                   donationVars, lockLocals, acquires>>

ReleaseUp ==
    /\ At("rel_up")
    /\ UpFree(arg[current]) \/ UpWake(arg[current])
    /\ Goto(IF UpPreempts(arg[current]) THEN "up_sched" ELSE "rel_sched")
    /\ Local(NoArg)
    /\ UNCHANGED <<prioVars, timerVars, trapVars, lockVars>>

ReleaseUpSchedule == UpScheduleThen("up_sched", "rel_sched") /\ UNCHANGED lockVars

ReleaseSchedule == ScheduleThen("rel_sched", "run") /\ UNCHANGED <<semaVars, lockVars>>

-----------------------------------------------------------------------------
LockStep ==
    \/ \E l \in Sema : AcquireCheck(l) \/ ReleaseCheck(l)
    \/ AcquireTest \/ AcquireBorrow \/ AcquireRead
    \/ AcquireCompare \/ AcquireDonate \/ AcquireRecord \/ AcquireRecord2
    \/ AcquireSchedule \/ AcquireNext
    \/ AcquireTake \/ AcquireBlock \/ AcquireHoldBorrow \/ AcquireHold
    \/ ReleaseAssert \/ ReleaseFind \/ ReleaseForget
    \/ ReleaseForgetDonner \/ ReleaseForgetMine \/ ReleaseForgetTheirs
    \/ ReleaseFinal \/ ReleaseStore \/ ReleaseSetted \/ ReleaseTakeBorrow \/ ReleaseTake
    \/ ReleaseUp \/ ReleaseUpSchedule \/ ReleaseSchedule

(* Spawning and set_priority() give a thread a priority of its own; a      *)
(* thread drops its guards before it exits.  Sleeping is left to Threads.  *)
OtherStep ==
    /\ \/ SpawnRegister /\ base' = [base EXCEPT ![arg'[current]] = prio'[arg'[current]]]
       \/ current \in Setters /\ priority_setted[current] = NoArg
          /\ SetPriorityStore /\ base' = [base EXCEPT ![current] = prio'[current]]
       \/ ExitMark /\ guards[current] = {} /\ UNCHANGED base
       \/ (Yield \/ KernelStep) /\ UNCHANGED base
       \/ (TimerInterrupt \/ TrapStep \/ Halted) /\ UNCHANGED base
    /\ UNCHANGED <<semaVars, holder, guards, donationq, stored_prev, lockLocals, acquires>>

LockNext == LockStep \/ OtherStep

LockSpec == LockInit /\ [][LockNext]_lvars

-----------------------------------------------------------------------------
(* The threads that have taken lock l and not given it back: from the end  *)
(* of down() in acquire() to the call of up() in release().                *)
Owners(l) ==
    {t \in Thread : \/ l \in guards[t]
                    \/ /\ pc[t] \in {"acq_hold", "acq_store",
                                     "rel_assert", "rel_find", "rel_forget", "rel_donner",
                                     "rel_mine", "rel_theirs", "rel_final", "rel_store",
                                     "rel_setted", "rel_take", "rel_clear", "rel_up"}
                       /\ arg[t] = l}

(* A lock has at most one owner, and none exactly when its semaphore has   *)
(* its unit: no interleaving of acquire(), release() and the timer trap    *)
(* lets two threads in, and none loses the unit.  The holder, to whom      *)
(* acquire() donates, is the thread that has the guard.                    *)
MutualExclusion ==
    panic = "none" => \A l \in Sema :
        /\ value[l] + Cardinality(Owners(l)) = 1
        /\ \A t \in Thread : l \in guards[t] => holder[l] = t

(* Donations change the priorities of queued threads; still no Ready       *)
(* thread of higher priority waits, except for a thread that is on its way *)
(* to schedule(): acquire() is once it has donated, since it may pass on   *)
(* more than its own priority, from a Blocked thread of the chain to one   *)
(* whose priority has been set since; release() is once it has lowered its *)
(* priority.                                                               *)
DonationPreempts ==
    HighestRunsExcept(BeforeSchedule \cup
        {"acq_record", "acq_record2", "acq_sched",
         "rel_setted", "rel_take", "rel_clear", "rel_up", "rel_sched"})

(* Of all that acquire(), release() and what they call may panic on (the   *)
(* caller of release() is the holder, a semaphore with waiters is at 0,    *)
(* wake_up() is given a Blocked thread, the manager's own assertions),     *)
(* only two things can fail, both on the cell of the holder: the unwrap in *)
(* acquire(), when the lock is released between the test and the unwrap,   *)
(* and a borrow, when a thread was preempted inside an expression that     *)
(* borrows it.  No thread waits for anything with a cell borrowed: the one *)
(* in the way can go on.                                                   *)
OnlyHolderPanics ==
    /\ panic \in {"none", "unwrap_holder", "borrow"}
    /\ panic = "unwrap_holder" => pc[current] = "acq_clone" /\ holder[arg[current]] = NoThread
    /\ panic = "borrow" =>
         \E t \in Thread \ {current} :
             /\ pc[t] \in Reading \cup Writing /\ arg[t] = arg[current]
             /\ status[t] # "Blocked"

(* test/schedule/donation/chain.rs: "Thread {} should finish with priority *)
(* {}": when every thread has released its locks and none is acquiring     *)
(* one, every thread has its own priority again.                           *)
PriorityRestored ==
    (panic = "none" /\ \A t \in Thread : guards[t] = {} /\ pc[t] \in {"run", "exited"})
        => prio = base
=============================================================================
