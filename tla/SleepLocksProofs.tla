-------------------------- MODULE SleepLocksProofs --------------------------
(***************************************************************************)
(* Proofs about SleepLocks, for every scheduler that keeps the contract,   *)
(* any set of threads, locks and priorities, and any bounds.               *)
(***************************************************************************)
EXTENDS SleepLocks, ThreadsProofs, FiniteSetTheorems

(* Thread::donationq holds records of this type.                           *)
Donation ==
    [donner : Thread, acceptor : Thread, donner_priority : Prio, prev_priority : Prio,
     is_donner : BOOLEAN, lockid : Sema]

Visit == [donner : Thread, acceptor : Thread]

(* The places in acquire() before down() returns, and those where the      *)
(* thread has the unit of the lock it is about, but no guard.              *)
Wanting ==
    {"acq_test", "acq_read", "acq_clone", "acq_compare", "acq_donate", "acq_record", "acq_record2",
     "acq_sched", "acq_next", "acq_down", "down_loop"}
Having ==
    {"acq_hold", "acq_store", "rel_assert", "rel_find", "rel_forget", "rel_donner", "rel_mine",
     "rel_theirs", "rel_final", "rel_store", "rel_setted", "rel_take", "rel_clear", "rel_up"}

(* Of the latter, those in release() before the holder is cleared.         *)
Giving ==
    {"rel_assert", "rel_find", "rel_forget", "rel_donner", "rel_mine", "rel_theirs",
     "rel_final", "rel_store", "rel_setted", "rel_take", "rel_clear"}

(* The places where find_and_donate has a pair to visit, and those where a *)
(* DonationData is in hand.                                                *)
Visiting ==
    {"acq_compare", "acq_donate", "acq_record", "acq_record2", "acq_sched", "acq_next"}
InHand ==
    {"acq_donate", "acq_record", "acq_record2", "rel_donner", "rel_mine", "rel_theirs",
     "rel_final"}

LockTypeOK ==
    /\ holder \in [Sema -> Thread \cup {NoThread}]
    /\ guards \in [Thread -> SUBSET Sema]
    /\ donationq \in [Thread -> Seq(Donation)]
    /\ stored_prev \in [Thread -> [lock : Nat, prev : Prio]]
    /\ todo \in [Thread -> Seq(Visit)]
    /\ dd \in [Thread -> Donation \cup {NoArg}]
    /\ final \in [Thread -> Prio]

(* The locals of a thread fit the place it is at.                          *)
LocalsOK ==
    \A t \in Thread :
        /\ pc[t] \in Wanting \cup Having => arg[t] \in Sema \ guards[t]
        /\ pc[t] \in Visiting => todo[t] # <<>>
        /\ pc[t] \in InHand => dd[t] \in Donation

(* The unit of a lock is in its semaphore, or one thread has it.           *)
OneUnit(l) ==
    \/ value[l] = 1 /\ Owners(l) = {}
    \/ value[l] = 0 /\ \E t \in Thread : Owners(l) = {t}

(* The holder is the thread that has the guard, or that has just dropped   *)
(* it and is in release().                                                 *)
HolderKnown ==
    \A t \in Thread, l \in Sema :
        l \in guards[t] \/ (pc[t] \in Giving /\ arg[t] = l) => holder[l] = t

(* A thread that has a cell borrowed waits for nothing.                    *)
BorrowersAwake == \A t \in Thread : pc[t] \in Reading \cup Writing => status[t] # "Blocked"

(* The inductive invariant: nobody sleeps, the threads and the semaphores  *)
(* are in order, the records and the locals have their types, each lock    *)
(* has its unit once, and the holder and the borrows are as above.         *)
LockInv ==
    /\ ~selfWoken /\ sleepq = {}
    /\ ThreadInv /\ SleepInv /\ SemaInv
    /\ LockTypeOK
    /\ LocalsOK
    /\ \A l \in Sema : OneUnit(l)
    /\ HolderKnown
    /\ BorrowersAwake
    /\ OnlyHolderPanics

-----------------------------------------------------------------------------
(* The largest of some priorities is one of them.                          *)
LEMMA MaxIsPrio ==
    ASSUME NEW S, S \subseteq Prio, S # {}
    PROVE  Max(S) \in Prio
  <1> DEFINE gaps == {MaxPrio - x : x \in S}
  <1>1. \A x \in S : x \in Int /\ 0 <= x /\ x <= MaxPrio
    BY ThreadAssumption DEF Prio
  <1>2. gaps \subseteq Nat /\ gaps # {}
    BY <1>1, ThreadAssumption
  <1>3. \E g \in gaps : \A h \in gaps : g <= h
    <2> HIDE DEF gaps
    <2> QED
      BY <1>2, LeastNatural
  <1>4. PICK x \in S : \A h \in gaps : MaxPrio - x <= h
    BY <1>3
  <1>5. \A y \in S : MaxPrio - x <= MaxPrio - y
    BY <1>4
  <1>6. \A y \in S : x >= y
    BY <1>1, <1>5, ThreadAssumption
  <1>7. Max(S) \in S
    BY <1>6 DEF Max
  <1> QED
    BY <1>7

-----------------------------------------------------------------------------
(* What the invariant says of a thread that goes on from a place in the    *)
(* kernel, or that calls it.                                               *)
LEMMA RunnerTypes ==
    ASSUME LockInv, NEW l, At(l), l # "run" \/ current # Idle
    PROVE  /\ current \in Thread /\ current # Idle /\ current # NoThread
           /\ ~ticking /\ panic = "none" /\ pc[current] = l
           /\ pc \in [Thread -> Label] /\ arg = [t \in Thread |-> arg[t]]
           /\ prio \in [Thread -> Prio] /\ priority_setted \in [Thread -> Prio \cup {NoArg}]
           /\ ~selfWoken
  BY ThreadAssumption DEF LockInv, ThreadInv, ThreadTypeOK, ArgOK, IdleRuns, At

(* A lock whose owners stay the same keeps its unit.                       *)
LEMMA UnitKept ==
    ASSUME NEW s \in Sema, OneUnit(s), Owners(s)' = Owners(s), value'[s] = value[s]
    PROVE  OneUnit(s)'
  BY DEF OneUnit

(* A step of a thread in acquire() or release() that calls neither down(), *)
(* up() nor schedule().                                                    *)
LEMMA LockMoveKeeps ==
    ASSUME LockInv, NEW l, At(l), l # "run" \/ current # Idle,
           l \notin {"sleep_mark", "sleep_sched", "down_loop"},
           NEW k \in Plain, k \notin Saving, Goto(k), NEW x, Local(x),
           prio' \in [Thread -> Prio], priority_setted' = priority_setted,
           panic' # "none" => OnlyHolderPanics',
           UNCHANGED <<current, status, rq, all, timerVars, trapVars, semaVars>>,
           LockTypeOK',
           \A t \in Thread : t # current =>
               guards'[t] = guards[t] /\ todo'[t] = todo[t] /\ dd'[t] = dd[t],
           k \in Wanting \cup Having => x \in Sema \ guards'[current],
           k \in Visiting => todo'[current] # <<>>,
           k \in InHand => dd'[current] \in Donation,
           \A s \in Sema : Owners(s)' = Owners(s),
           HolderKnown'
    PROVE  LockInv'
  <1>1. /\ current \in Thread /\ current # Idle /\ ~ticking /\ pc[current] = l
        /\ pc \in [Thread -> Label] /\ arg = [t \in Thread |-> arg[t]] /\ ~selfWoken
    BY RunnerTypes
  <1>2. ThreadInv /\ SleepInv /\ SemaInv /\ LocalsOK /\ sleepq = {} /\ \A s \in Sema : OneUnit(s)
    BY DEF LockInv
  <1>3. OnlyHolderPanics' /\ panic' \in Panic \ {"no_ready", "next_not_ready", "tail_ready"}
    BY DEF Panic, OnlyHolderPanics
  <1>4. ThreadInv' /\ SleepInv' /\ SemaInv'
    BY <1>1, <1>2, <1>3, MoveKeeps DEF Local
  <1>5. ~selfWoken' /\ sleepq' = {}
    BY <1>1, <1>2 DEF timerVars
  <1>6. \A t \in Thread : /\ pc'[t] = IF t = current THEN k ELSE pc[t]
                          /\ arg'[t] = IF t = current THEN x ELSE arg[t]
    BY <1>1 DEF Goto, Local
  <1>7. LocalsOK'
    BY <1>2, <1>6 DEF LocalsOK
  <1>8. value' = value
    BY DEF semaVars
  <1>9. \A s \in Sema : OneUnit(s)'
    BY <1>2, <1>8, UnitKept
  <1>10. BorrowersAwake'
    <2>1. status[current] # "Blocked"
      BY <1>1, <1>2 DEF SleepInv
    <2> QED
      BY <1>6, <2>1 DEF LockInv, BorrowersAwake
  <1> QED
    BY <1>3, <1>4, <1>5, <1>7, <1>9, <1>10 DEF LockInv

(* Such a step that leaves the holders, the guards and the thread's part   *)
(* in the lock alone.                                                      *)
LEMMA QuietMoveKeeps ==
    ASSUME LockInv, NEW l, At(l), l # "run" \/ current # Idle,
           l \notin {"sleep_mark", "sleep_sched", "down_loop"},
           NEW k \in Plain, k \notin Saving, Goto(k), NEW x, Local(x),
           prio' \in [Thread -> Prio], priority_setted' = priority_setted,
           panic' # "none" => OnlyHolderPanics',
           UNCHANGED <<current, status, rq, all, timerVars, trapVars, semaVars>>,
           UNCHANGED <<holder, guards>>,
           LockTypeOK',
           \A t \in Thread : t # current => todo'[t] = todo[t] /\ dd'[t] = dd[t],
           l \in Having <=> k \in Having,
           k \in Giving => l \in Giving,
           k \in Wanting => x \in Sema \ guards[current],
           k \in Having => x = arg[current],
           k \in Visiting => todo'[current] # <<>>,
           k \in InHand => dd'[current] \in Donation
    PROVE  LockInv'
  <1>1. /\ current \in Thread /\ pc[current] = l
        /\ pc \in [Thread -> Label] /\ arg = [t \in Thread |-> arg[t]]
    BY RunnerTypes
  <1>2. \A t \in Thread : /\ pc'[t] = IF t = current THEN k ELSE pc[t]
                          /\ arg'[t] = IF t = current THEN x ELSE arg[t]
    BY <1>1 DEF Goto, Local
  <1>3. \A s \in Sema : Owners(s)' = Owners(s)
    BY <1>1, <1>2 DEF Owners, Having
  <1>4. HolderKnown'
    <2>1. k \in Giving => l \in Giving /\ x = arg[current]
      BY DEF Giving, Having
    <2> QED
      BY <1>1, <1>2, <2>1 DEF LockInv, HolderKnown
  <1>5. k \in Having => x \in Sema \ guards[current]
    BY <1>1 DEF LockInv, LocalsOK
  <1> QED
    BY <1>3, <1>4, <1>5, LockMoveKeeps

(* A thread whose local value stays the same.                              *)
LEMMA ArgStays ==
    ASSUME LockInv, NEW l, At(l), l # "run" \/ current # Idle, arg' = arg
    PROVE  Local(arg[current])
  BY RunnerTypes DEF Local

(* A borrow fails only on the cell that another thread, preempted, has     *)
(* borrowed.                                                               *)
LEMMA BorrowFails ==
    ASSUME LockInv, NEW c, At(c), c # "run" \/ current # Idle, c \notin Reading \cup Writing,
           NEW l, NEW places, places \subseteq Reading \cup Writing, NEW k, Borrow(l, places, k)
    PROVE  OnlyHolderPanics'
  <1>1. /\ current \in Thread /\ panic = "none" /\ pc[current] = c
        /\ pc \in [Thread -> Label] /\ arg = [t \in Thread |-> arg[t]]
    BY RunnerTypes
  <1>2. /\ UNCHANGED <<current, status>> /\ Goto(k) /\ Local(l)
        /\ panic' = IF Borrowed(l, places) THEN "borrow" ELSE "none"
    BY <1>1 DEF Borrow
  <1>3. \A t \in Thread : /\ pc'[t] = IF t = current THEN k ELSE pc[t]
                          /\ arg'[t] = IF t = current THEN l ELSE arg[t]
    BY <1>1, <1>2 DEF Goto, Local
  <1>4. ASSUME Borrowed(l, places)
        PROVE  \E t \in Thread \ {current} :
                   /\ pc'[t] \in Reading \cup Writing /\ arg'[t] = arg'[current]
                   /\ status'[t] # "Blocked"
    <2>1. PICK t \in Thread : pc[t] \in places /\ arg[t] = l
      BY <1>4 DEF Borrowed
    <2>2. t # current /\ pc[t] \in Reading \cup Writing
      BY <1>1, <2>1
    <2>3. status[t] # "Blocked"
      BY <2>2 DEF LockInv, BorrowersAwake
    <2>4. pc'[t] = pc[t] /\ arg'[t] = l /\ arg'[current] = l /\ status'[t] = status[t]
      BY <1>1, <1>2, <1>3, <2>1, <2>2
    <2> QED
      BY <2>2, <2>3, <2>4
  <1>5. CASE Borrowed(l, places)
    <2>1. panic' = "borrow" /\ current' = current
      BY <1>2, <1>5
    <2> QED
      BY <1>4, <1>5, <2>1 DEF OnlyHolderPanics
  <1>6. CASE ~Borrowed(l, places)
    <2>1. panic' = "none"
      BY <1>2, <1>6
    <2> QED
      BY <2>1 DEF OnlyHolderPanics
  <1> QED
    BY <1>5, <1>6

(* The borrows inside acquire() and release(): no more happens.            *)
LEMMA QuietBorrowKeeps ==
    ASSUME LockInv, NEW c, At(c), NEW k, borrow_mut(arg[current], k), UNCHANGED lockVars,
           \/ c = "acq_read" /\ k = "acq_clone"
           \/ c = "acq_hold" /\ k = "acq_store"
           \/ c = "rel_take" /\ k = "rel_clear"
    PROVE  LockInv'
  <1>1. c \notin Reading \cup Writing /\ c # "run"
    BY DEF Reading, Writing
  <1>2. /\ current \in Thread /\ prio \in [Thread -> Prio] /\ pc[current] = c
    BY <1>1, RunnerTypes
  <1>3. OnlyHolderPanics'
    BY <1>1, BorrowFails DEF borrow_mut
  <1>4. /\ Goto(k) /\ Local(arg[current])
        /\ UNCHANGED <<current, status, rq, all, prio, priority_setted, timerVars, trapVars,
                       semaVars, holder, guards, donationq, stored_prev, todo, dd, final>>
    BY DEF borrow_mut, Borrow, prioVars, lockVars, donationVars, lockLocals
  <1>5. LockTypeOK'
    BY <1>4 DEF LockInv, LockTypeOK
  <1>6. /\ k \in Plain /\ k \notin Saving /\ k \notin Visiting \cup InHand
        /\ c \notin {"sleep_mark", "sleep_sched", "down_loop"}
        /\ c \in Having <=> k \in Having
        /\ k \in Giving => c \in Giving
        /\ k \in Wanting => c \in Wanting
    BY DEF Plain, Label, Saving, Visiting, InHand, Having, Giving, Wanting
  <1>7. k \in Wanting => arg[current] \in Sema \ guards[current]
    BY <1>2, <1>6 DEF LockInv, LocalsOK
  <1> QED
    BY <1>1, <1>2, <1>3, <1>4, <1>5, <1>6, <1>7, QuietMoveKeeps

(* acquire() up to down(): checking the holder, donating to it and, along  *)
(* its records, to the holders it waits for.                               *)
LEMMA AcquireCheckKeeps ==
    ASSUME LockInv, NEW l \in Sema, AcquireCheck(l) PROVE LockInv'
  <1>1. At("run") /\ current # Idle
    BY DEF AcquireCheck, Calls
  <1>2. current \in Thread /\ panic = "none" /\ prio \in [Thread -> Prio]
    BY <1>1, RunnerTypes
  <1>3. LockTypeOK'
    BY DEF AcquireCheck, LockInv, LockTypeOK, donationVars, lockLocals
  <1>4. /\ Local(l) /\ l \in Sema \ guards[current] /\ Goto("acq_test")
        /\ UNCHANGED <<current, status, rq, all, prio, priority_setted, timerVars, trapVars,
                       semaVars, holder, guards, todo, dd>>
    BY DEF AcquireCheck, borrow, Borrow, prioVars, lockLocals
  <1>5. OnlyHolderPanics'
    <2>1. "run" \notin Reading \cup Writing
      BY DEF Reading, Writing
    <2> QED
      BY <1>1, <2>1, BorrowFails DEF AcquireCheck, borrow
  <1> QED
    BY <1>1, <1>2, <1>3, <1>4, <1>5, QuietMoveKeeps
    DEF Plain, Label, Wanting, Having, Visiting, InHand, Giving, Saving

LEMMA AcquireTestKeeps == ASSUME LockInv, AcquireTest PROVE LockInv'
  <1>1. At("acq_test")
    BY DEF AcquireTest
  <1>2. /\ current \in Thread /\ panic = "none" /\ prio \in [Thread -> Prio]
        /\ pc[current] = "acq_test"
    BY <1>1, RunnerTypes
  <1>3. Local(arg[current])
    BY <1>1, ArgStays DEF AcquireTest
  <1>4. LockTypeOK' /\ arg[current] \in Sema \ guards[current]
    BY <1>2 DEF AcquireTest, LockInv, LockTypeOK, LocalsOK, Wanting, lockVars, donationVars,
                lockLocals
  <1>5. PICK k \in {"acq_down", "acq_read"} : Goto(k)
    BY DEF AcquireTest
  <1> QED
    BY <1>1, <1>2, <1>3, <1>4, <1>5, QuietMoveKeeps
    DEF AcquireTest, managerVars, prioVars, lockVars, lockLocals, Plain, Label, Wanting, Having,
        Visiting, InHand, Giving, Saving

LEMMA AcquireReadKeeps == ASSUME LockInv, AcquireRead PROVE LockInv'
  <1>1. At("acq_clone")
    BY DEF AcquireRead
  <1>2. /\ current \in Thread /\ panic = "none" /\ prio \in [Thread -> Prio]
        /\ pc[current] = "acq_clone" /\ pc \in [Thread -> Label]
    BY <1>1, RunnerTypes
  <1>3. Local(arg[current])
    BY <1>1, ArgStays DEF AcquireRead
  <1>4. arg[current] \in Sema \ guards[current]
    BY <1>2 DEF LockInv, LocalsOK, Wanting
  <1>5. LockTypeOK
    BY DEF LockInv
  <1>6. CASE holder[arg[current]] = NoThread
    <2>1. Goto("acq_clone") /\ UNCHANGED todo /\ panic' = "unwrap_holder"
      BY <1>2, <1>6 DEF AcquireRead, Goto
    <2>2. LockTypeOK'
      BY <1>5, <2>1 DEF AcquireRead, LockTypeOK, donationVars
    <2>3. UNCHANGED <<current, status, rq, all, prio, priority_setted, timerVars, trapVars, semaVars,
                     holder, guards, dd>>
      BY <1>6 DEF AcquireRead, prioVars
    <2>4. OnlyHolderPanics'
      <3>1. arg' = arg /\ pc' = pc /\ holder' = holder /\ current' = current
        BY <1>6 DEF AcquireRead
      <3> QED
        BY <1>2, <1>6, <2>1, <3>1 DEF OnlyHolderPanics
    <2> QED
      BY <1>1, <1>2, <1>3, <1>4, <2>1, <2>2, <2>3, <2>4, QuietMoveKeeps
      DEF Plain, Label, Wanting, Having, Visiting, InHand, Giving, Saving
  <1>7. CASE holder[arg[current]] # NoThread
    <2> DEFINE v == [donner |-> current, acceptor |-> holder[arg[current]]]
    <2>1. /\ Goto("acq_compare") /\ todo' = [todo EXCEPT ![current] = <<v>>]
          /\ UNCHANGED managerVars
      BY <1>7 DEF AcquireRead
    <2>2. v \in Visit
      BY <1>2, <1>4, <1>5, <1>7 DEF LockTypeOK, Visit
    <2> HIDE DEF v
    <2>3. todo' \in [Thread -> Seq(Visit)] /\ todo'[current] # <<>>
      <3>1. <<v>> \in Seq(Visit) /\ <<v>> # <<>>
        BY <2>2
      <3> QED
        BY <1>2, <1>5, <2>1, <3>1 DEF LockTypeOK
    <2>4. LockTypeOK'
      BY <1>5, <2>3 DEF AcquireRead, LockTypeOK, donationVars
    <2>5. \A t \in Thread : t # current => todo'[t] = todo[t]
      BY <1>5, <2>1 DEF LockTypeOK
    <2>6. panic' = "none" /\ UNCHANGED <<current, status, rq, all, prio, priority_setted, timerVars, trapVars, semaVars,
                     holder, guards, dd>>
      BY <1>2, <2>1 DEF AcquireRead, managerVars, prioVars
    <2>7. Goto("acq_compare")
      BY <2>1
    <2>8. /\ "acq_compare" \in Plain /\ "acq_compare" \notin Having \cup InHand \cup Giving \cup Saving
          /\ "acq_clone" \notin Having \cup {"sleep_mark", "sleep_sched", "down_loop"}
      BY DEF Plain, Label, Having, InHand, Giving, Saving
    <2> QED
      BY <1>1, <1>2, <1>3, <1>4, <2>3, <2>4, <2>5, <2>6, <2>7, <2>8, QuietMoveKeeps
  <1> QED
    BY <1>6, <1>7

LEMMA AcquireCompareKeeps == ASSUME LockInv, AcquireCompare PROVE LockInv'
  <1>1. At("acq_compare")
    BY DEF AcquireCompare
  <1>2. /\ current \in Thread /\ panic = "none" /\ prio \in [Thread -> Prio]
        /\ pc[current] = "acq_compare"
    BY <1>1, RunnerTypes
  <1>3. Local(arg[current])
    BY <1>1, ArgStays DEF AcquireCompare
  <1>4. LockTypeOK /\ arg[current] \in Sema \ guards[current] /\ todo[current] # <<>>
    BY <1>2 DEF LockInv, LocalsOK, Wanting, Visiting
  <1>5. PICK v \in Visit : v = Head(todo[current])
    <2>1. todo[current] \in Seq(Visit)
      BY <1>2, <1>4 DEF LockTypeOK
    <2> QED
      BY <1>4, <2>1, HeadTailProperties
  <1>6. v.donner \in Thread /\ v.acceptor \in Thread
    BY DEF Visit
  <1>7. CASE prio[v.donner] > prio[v.acceptor]
    <2> DEFINE r == [donner |-> v.donner, acceptor |-> v.acceptor,
                     donner_priority |-> prio[v.donner], prev_priority |-> prio[v.acceptor],
                     is_donner |-> TRUE, lockid |-> arg[current]]
    <2>1. Goto("acq_donate") /\ dd' = [dd EXCEPT ![current] = r]
      BY <1>5, <1>7 DEF AcquireCompare
    <2>2. r \in Donation
      BY <1>2, <1>4, <1>6 DEF Donation
    <2> HIDE DEF r
    <2>3. /\ dd' \in [Thread -> Donation \cup {NoArg}] /\ dd'[current] \in Donation
          /\ \A t \in Thread : t # current => dd'[t] = dd[t]
      BY <1>2, <1>4, <2>1, <2>2 DEF LockTypeOK
    <2>4. LockTypeOK'
      BY <1>4, <2>3 DEF AcquireCompare, LockTypeOK, donationVars
    <2> QED
      BY <1>1, <1>2, <1>3, <1>4, <2>1, <2>3, <2>4, QuietMoveKeeps
      DEF AcquireCompare, managerVars, prioVars, Plain, Label, Wanting, Having, Visiting, InHand,
          Giving, Saving
  <1>8. CASE ~(prio[v.donner] > prio[v.acceptor])
    <2>1. Goto("acq_next") /\ UNCHANGED dd
      BY <1>5, <1>8 DEF AcquireCompare
    <2>2. LockTypeOK'
      BY <1>4, <2>1 DEF AcquireCompare, LockTypeOK, donationVars
    <2> QED
      BY <1>1, <1>2, <1>3, <1>4, <2>1, <2>2, QuietMoveKeeps
      DEF AcquireCompare, managerVars, prioVars, Plain, Label, Wanting, Having, Visiting,
          InHand, Giving, Saving
  <1> QED
    BY <1>7, <1>8

LEMMA AcquireDonateKeeps == ASSUME LockInv, AcquireDonate PROVE LockInv'
  <1>1. At("acq_donate")
    BY DEF AcquireDonate
  <1>2. /\ current \in Thread /\ panic = "none" /\ prio \in [Thread -> Prio]
        /\ pc[current] = "acq_donate"
    BY <1>1, RunnerTypes
  <1>3. Local(arg[current])
    BY <1>1, ArgStays DEF AcquireDonate
  <1>4. /\ LockTypeOK /\ arg[current] \in Sema \ guards[current] /\ todo[current] # <<>>
        /\ dd[current] \in Donation
    BY <1>2 DEF LockInv, LocalsOK, Wanting, Visiting, InHand
  <1>5. prio' \in [Thread -> Prio]
    BY <1>2, <1>4 DEF AcquireDonate, Donation
  <1>6. LockTypeOK'
    BY <1>4 DEF AcquireDonate, LockTypeOK, lockVars, donationVars, lockLocals
  <1> QED
    BY <1>1, <1>2, <1>3, <1>4, <1>5, <1>6, QuietMoveKeeps
    DEF AcquireDonate, managerVars, lockVars, lockLocals, Plain, Label, Wanting, Having,
        Visiting, InHand, Giving, Saving

(* add_donation at thread t.                                               *)
LEMMA AddDonationType ==
    ASSUME LockTypeOK, NEW t \in Thread, NEW r \in Donation, AddDonation(t, r)
    PROVE  donationq' \in [Thread -> Seq(Donation)]
  <1>1. Append(donationq[t], r) \in Seq(Donation)
    BY AppendProperties DEF LockTypeOK
  <1> QED
    BY <1>1 DEF AddDonation, LockTypeOK

LEMMA AcquireRecordKeeps == ASSUME LockInv, AcquireRecord PROVE LockInv'
  <1>1. At("acq_record")
    BY DEF AcquireRecord
  <1>2. /\ current \in Thread /\ panic = "none" /\ prio \in [Thread -> Prio]
        /\ pc[current] = "acq_record"
    BY <1>1, RunnerTypes
  <1>3. Local(arg[current])
    BY <1>1, ArgStays DEF AcquireRecord
  <1>4. /\ LockTypeOK /\ arg[current] \in Sema \ guards[current] /\ todo[current] # <<>>
        /\ dd[current] \in Donation
    BY <1>2 DEF LockInv, LocalsOK, Wanting, Visiting, InHand
  <1>5. donationq' \in [Thread -> Seq(Donation)]
    BY <1>4, AddDonationType DEF AcquireRecord, Donation
  <1>6. LockTypeOK'
    BY <1>4, <1>5 DEF AcquireRecord, LockTypeOK, lockLocals
  <1> QED
    BY <1>1, <1>2, <1>3, <1>4, <1>6, QuietMoveKeeps
    DEF AcquireRecord, managerVars, prioVars, lockLocals, Plain, Label, Wanting, Having,
        Visiting, InHand, Giving, Saving

LEMMA AcquireRecord2Keeps == ASSUME LockInv, AcquireRecord2 PROVE LockInv'
  <1>1. At("acq_record2")
    BY DEF AcquireRecord2
  <1>2. /\ current \in Thread /\ panic = "none" /\ prio \in [Thread -> Prio]
        /\ pc[current] = "acq_record2"
    BY <1>1, RunnerTypes
  <1>3. Local(arg[current])
    BY <1>1, ArgStays DEF AcquireRecord2
  <1>4. /\ LockTypeOK /\ arg[current] \in Sema \ guards[current] /\ todo[current] # <<>>
        /\ dd[current] \in Donation
    BY <1>2 DEF LockInv, LocalsOK, Wanting, Visiting, InHand
  <1>5. /\ [dd[current] EXCEPT !.is_donner = FALSE] \in Donation
        /\ dd[current].acceptor \in Thread
    BY <1>4 DEF Donation
  <1>6. donationq' \in [Thread -> Seq(Donation)]
    BY <1>4, <1>5, AddDonationType DEF AcquireRecord2
  <1>7. /\ dd' \in [Thread -> Donation \cup {NoArg}]
        /\ \A t \in Thread : t # current => dd'[t] = dd[t]
    BY <1>2, <1>4 DEF AcquireRecord2, LockTypeOK
  <1>8. LockTypeOK'
    BY <1>4, <1>6, <1>7 DEF AcquireRecord2, LockTypeOK
  <1> QED
    BY <1>1, <1>2, <1>3, <1>4, <1>7, <1>8, QuietMoveKeeps
    DEF AcquireRecord2, managerVars, prioVars, Plain, Label, Wanting, Having,
        Visiting, InHand, Giving, Saving

LEMMA AcquireNextKeeps == ASSUME LockInv, AcquireNext PROVE LockInv'
  <1>1. At("acq_next")
    BY DEF AcquireNext
  <1>2. /\ current \in Thread /\ panic = "none" /\ prio \in [Thread -> Prio]
        /\ pc[current] = "acq_next"
    BY <1>1, RunnerTypes
  <1>3. Local(arg[current])
    BY <1>1, ArgStays DEF AcquireNext
  <1>4. LockTypeOK /\ arg[current] \in Sema \ guards[current] /\ todo[current] # <<>>
    BY <1>2 DEF LockInv, LocalsOK, Wanting, Visiting
  <1>5. todo[current] \in Seq(Visit) /\ Head(todo[current]) \in Visit
        /\ Tail(todo[current]) \in Seq(Visit)
    <2>1. todo[current] \in Seq(Visit)
      BY <1>2, <1>4 DEF LockTypeOK
    <2> QED
      BY <1>4, <2>1, HeadTailProperties
  <1> DEFINE h    == Head(todo[current]).acceptor
             mine == Retain(donationq[h], {r \in ToSet(donationq[h]) :
                                             r.is_donner /\ r.lockid # arg[current]})
             more == [i \in DOMAIN mine |-> [donner |-> h, acceptor |-> mine[i].acceptor]]
  <1>6. h \in Thread /\ donationq[h] \in Seq(Donation)
    BY <1>4, <1>5 DEF Visit, LockTypeOK
  <1>7. mine \in Seq(Donation)
    BY <1>6, RetainType
  <1>8. more \in Seq(Visit)
    <2> HIDE DEF mine, h
    <2>1. PICK n \in Nat : DOMAIN mine = 1..n /\ \A i \in 1..n : mine[i] \in Donation
      BY <1>7, LenProperties, ElementOfSeq
    <2>2. \A i \in 1..n : [donner |-> h, acceptor |-> mine[i].acceptor] \in Visit
      BY <1>6, <2>1 DEF Donation, Visit
    <2> QED
      BY <2>1, <2>2
  <1>9. todo' = [todo EXCEPT ![current] = more \o Tail(@)]
    BY DEF AcquireNext
  <1>10. more \o Tail(todo[current]) \in Seq(Visit)
    BY <1>5, <1>8, ConcatProperties
  <1> HIDE DEF h, mine, more
  <1>11. /\ todo' \in [Thread -> Seq(Visit)]
         /\ \A t \in Thread : t # current => todo'[t] = todo[t]
    BY <1>2, <1>4, <1>9, <1>10 DEF LockTypeOK
  <1>12. LockTypeOK'
    BY <1>4, <1>11 DEF AcquireNext, LockTypeOK, donationVars
  <1>13. PICK k \in {"acq_down", "acq_compare"} :
            Goto(k) /\ (k = "acq_compare" => todo'[current] # <<>>)
    BY DEF AcquireNext
  <1>14. panic' = "none" /\ UNCHANGED <<current, status, rq, all, prio, priority_setted, timerVars, trapVars, semaVars,
                   holder, guards, dd>>
    BY <1>2 DEF AcquireNext, managerVars, prioVars
  <1>15. /\ k \in Plain /\ k \notin Saving /\ k \notin Having \cup InHand \cup Giving
         /\ k \in Visiting => k = "acq_compare"
         /\ "acq_next" \notin Having \cup {"sleep_mark", "sleep_sched", "down_loop"}
    BY DEF Plain, Label, Having, Visiting, InHand, Giving, Saving
  <1> QED
    BY <1>1, <1>2, <1>3, <1>4, <1>11, <1>12, <1>13, <1>14, <1>15, QuietMoveKeeps

-----------------------------------------------------------------------------
(* The only thread that a taken lock may have among its owners.            *)
LEMMA OwnerAlone ==
    ASSUME NEW s \in Sema, OneUnit(s), NEW t \in Owners(s)
    PROVE  value[s] = 0 /\ Owners(s) = {t}
  BY DEF OneUnit

(* acquire() records the holder once down() has returned.                  *)
LEMMA AcquireHoldKeeps == ASSUME LockInv, AcquireHold PROVE LockInv'
  <1>1. At("acq_store")
    BY DEF AcquireHold
  <1>2. /\ current \in Thread /\ panic = "none" /\ prio \in [Thread -> Prio]
        /\ pc[current] = "acq_store" /\ pc \in [Thread -> Label]
        /\ arg = [t \in Thread |-> arg[t]]
    BY <1>1, RunnerTypes
  <1>3. LockTypeOK /\ HolderKnown /\ \A r \in Sema : OneUnit(r)
    BY DEF LockInv
  <1>4. PICK s \in Sema : s = arg[current] /\ s \notin guards[current]
    BY <1>2 DEF LockInv, LocalsOK, Having
  <1>5. /\ holder' = [holder EXCEPT ![s] = current]
        /\ guards' = [guards EXCEPT ![current] = @ \cup {s}]
        /\ Goto("run") /\ Local(NoArg)
        /\ panic' = "none"
        /\ UNCHANGED <<current, status, rq, all, prio, priority_setted, timerVars, trapVars,
                       semaVars, donationq, stored_prev, todo, dd, final>>
    BY <1>2, <1>4 DEF AcquireHold, managerVars, prioVars, donationVars, lockLocals
  <1>6. \A t \in Thread : guards'[t] = IF t = current THEN guards[t] \cup {s} ELSE guards[t]
    BY <1>3, <1>5 DEF LockTypeOK
  <1>7. \A r \in Sema : holder'[r] = IF r = s THEN current ELSE holder[r]
    BY <1>3, <1>5 DEF LockTypeOK
  <1>8. LockTypeOK'
    BY <1>2, <1>3, <1>5 DEF LockTypeOK
  <1>9. \A t \in Thread : /\ pc'[t] = IF t = current THEN "run" ELSE pc[t]
                          /\ arg'[t] = IF t = current THEN NoArg ELSE arg[t]
    BY <1>2, <1>5 DEF Goto, Local
  <1>10. \A r \in Sema : Owners(r)' = Owners(r)
    BY <1>2, <1>4, <1>6, <1>9 DEF Owners
  <1>11. Owners(s) = {current}
    BY <1>2, <1>3, <1>4, OwnerAlone DEF Owners
  <1>12. HolderKnown'
    <2> SUFFICES ASSUME NEW t \in Thread, NEW r \in Sema,
                        r \in guards'[t] \/ (pc'[t] \in Giving /\ arg'[t] = r)
                 PROVE  holder'[r] = t
      BY DEF HolderKnown
    <2>1. CASE t = current
      <3>1. r \in guards[t] \/ r = s
        BY <1>6, <1>9, <2>1 DEF Giving
      <3> QED
        BY <1>3, <1>7, <2>1, <3>1 DEF HolderKnown
    <2>2. CASE t # current
      <3>1. r \in guards[t] \/ (pc[t] \in Giving /\ arg[t] = r)
        BY <1>6, <1>9, <2>2
      <3>2. t \in Owners(r)
        BY <3>1 DEF Owners, Giving
      <3>3. r # s
        BY <1>11, <2>2, <3>2
      <3> QED
        BY <1>3, <1>7, <3>1, <3>3 DEF HolderKnown
    <2> QED
      BY <2>1, <2>2
  <1>13. /\ "run" \in Plain /\ "run" \notin Wanting \cup Having \cup Visiting \cup InHand
         /\ "run" \notin Saving
         /\ "acq_store" \notin {"sleep_mark", "sleep_sched", "down_loop"}
    BY DEF Plain, Label, Wanting, Having, Visiting, InHand, Saving
  <1>14. \A t \in Thread : t # current =>
            guards'[t] = guards[t] /\ todo'[t] = todo[t] /\ dd'[t] = dd[t]
    BY <1>5, <1>6
  <1>15. Goto("run") /\ Local(NoArg) /\ panic' = "none"
         /\ prio' \in [Thread -> Prio]
         /\ UNCHANGED <<current, status, rq, all, priority_setted, timerVars, trapVars, semaVars>>
    BY <1>2, <1>5
  <1> QED
    BY <1>1, <1>8, <1>10, <1>12, <1>13, <1>14, <1>15, LockMoveKeeps

(* release() is called: the guard goes, and the holder stays.              *)
LEMMA ReleaseCheckKeeps ==
    ASSUME LockInv, NEW s \in Sema, ReleaseCheck(s) PROVE LockInv'
  <1>1. At("run") /\ current # Idle
    BY DEF ReleaseCheck, Calls
  <1>2. /\ current \in Thread /\ panic = "none" /\ prio \in [Thread -> Prio]
        /\ pc[current] = "run" /\ pc \in [Thread -> Label]
        /\ arg = [t \in Thread |-> arg[t]]
    BY <1>1, RunnerTypes
  <1>3. LockTypeOK /\ HolderKnown
    BY DEF LockInv
  <1>4. /\ s \in guards[current]
        /\ guards' = [guards EXCEPT ![current] = @ \ {s}]
        /\ Local(s) /\ Goto("rel_assert") /\ prio' = prio
        /\ UNCHANGED <<current, status, rq, all, priority_setted, timerVars, trapVars,
                       semaVars, holder, donationq, stored_prev, todo, dd, final>>
    BY DEF ReleaseCheck, borrow, Borrow, prioVars, donationVars, lockLocals
  <1>5. OnlyHolderPanics'
    <2>1. "run" \notin Reading \cup Writing
      BY DEF Reading, Writing
    <2> QED
      BY <1>1, <2>1, BorrowFails DEF ReleaseCheck, borrow
  <1>6. \A t \in Thread : guards'[t] = IF t = current THEN guards[t] \ {s} ELSE guards[t]
    BY <1>3, <1>4 DEF LockTypeOK
  <1>7. guards' \in [Thread -> SUBSET Sema]
    BY <1>2, <1>3, <1>4 DEF LockTypeOK
  <1>8. LockTypeOK'
    BY <1>3, <1>4, <1>7 DEF LockTypeOK
  <1>9. \A t \in Thread : /\ pc'[t] = IF t = current THEN "rel_assert" ELSE pc[t]
                          /\ arg'[t] = IF t = current THEN s ELSE arg[t]
    BY <1>2, <1>4 DEF Goto, Local
  <1>10. \A r \in Sema : Owners(r)' = Owners(r)
    BY <1>2, <1>4, <1>6, <1>9 DEF Owners
  <1>11. HolderKnown'
    <2> SUFFICES ASSUME NEW t \in Thread, NEW r \in Sema,
                        r \in guards'[t] \/ (pc'[t] \in Giving /\ arg'[t] = r)
                 PROVE  holder[r] = t
      BY <1>4 DEF HolderKnown
    <2>1. r \in guards[t] \/ (pc[t] \in Giving /\ arg[t] = r)
      BY <1>4, <1>6, <1>9
    <2> QED
      BY <1>3, <2>1 DEF HolderKnown
  <1>12. s \in Sema \ guards'[current]
    BY <1>2, <1>6
  <1>13. \A t \in Thread : t # current =>
            guards'[t] = guards[t] /\ todo'[t] = todo[t] /\ dd'[t] = dd[t]
    BY <1>4, <1>6
  <1>14. /\ "rel_assert" \in Plain /\ "rel_assert" \notin Visiting \cup InHand
         /\ "rel_assert" \notin Saving
    BY DEF Plain, Label, Visiting, InHand, Saving
  <1> QED
    BY <1>1, <1>2, <1>4, <1>5, <1>8, <1>10, <1>11, <1>12, <1>13, <1>14, LockMoveKeeps

(* The assertion of release() holds.                                       *)
LEMMA ReleaseAssertKeeps == ASSUME LockInv, ReleaseAssert PROVE LockInv'
  <1>1. At("rel_assert")
    BY DEF ReleaseAssert
  <1>2. /\ current \in Thread /\ prio \in [Thread -> Prio] /\ pc[current] = "rel_assert"
    BY <1>1, RunnerTypes
  <1>3. Local(arg[current])
    BY <1>1, ArgStays DEF ReleaseAssert
  <1>4. holder[arg[current]] = current
    <2>1. arg[current] \in Sema
      BY <1>2 DEF LockInv, LocalsOK, Having
    <2> QED
      BY <1>2, <2>1 DEF LockInv, HolderKnown, Giving
  <1>5. /\ panic' = "none" /\ Goto("rel_find")
        /\ UNCHANGED <<current, status, rq, all, prio, priority_setted, timerVars, trapVars,
                       semaVars, holder, guards, donationq, stored_prev, todo, dd, final>>
    BY <1>4 DEF ReleaseAssert, prioVars, lockVars, donationVars, lockLocals
  <1>6. LockTypeOK'
    BY <1>5 DEF LockInv, LockTypeOK
  <1> QED
    BY <1>1, <1>2, <1>3, <1>5, <1>6, QuietMoveKeeps
    DEF Plain, Label, Wanting, Having, Visiting, InHand, Giving, Saving

(* delete_donation: the first record that is found is one of the caller's. *)
LEMMA ReleaseFindKeeps == ASSUME LockInv, ReleaseFind PROVE LockInv'
  <1>1. At("rel_find")
    BY DEF ReleaseFind
  <1>2. /\ current \in Thread /\ panic = "none" /\ prio \in [Thread -> Prio]
        /\ pc[current] = "rel_find"
    BY <1>1, RunnerTypes
  <1>3. Local(arg[current])
    BY <1>1, ArgStays DEF ReleaseFind
  <1>4. LockTypeOK
    BY DEF LockInv
  <1> DEFINE mine == Retain(donationq[current],
                            {r \in ToSet(donationq[current]) : r.lockid = arg[current]})
  <1>5. dd' = [dd EXCEPT ![current] = IF mine = <<>> THEN NoArg ELSE mine[1]]
    BY DEF ReleaseFind
  <1>6. mine \in Seq(Donation)
    BY <1>2, <1>4, RetainType DEF LockTypeOK
  <1> HIDE DEF mine
  <1>7. mine # <<>> => mine[1] \in Donation
    <2>1. mine # <<>> => 1 \in 1..Len(mine)
      BY <1>6, LenProperties, EmptySeq
    <2> QED
      BY <1>6, <2>1, ElementOfSeq
  <1>8. /\ dd' \in [Thread -> Donation \cup {NoArg}]
        /\ \A t \in Thread : t # current => dd'[t] = dd[t]
    BY <1>2, <1>4, <1>5, <1>7 DEF LockTypeOK
  <1>9. LockTypeOK'
    BY <1>4, <1>8 DEF ReleaseFind, LockTypeOK, donationVars
  <1>10. /\ Goto("rel_forget") /\ panic' = "none"
         /\ UNCHANGED <<current, status, rq, all, prio, priority_setted, timerVars, trapVars,
                        semaVars, holder, guards, todo>>
    BY <1>2 DEF ReleaseFind, managerVars, prioVars
  <1> QED
    BY <1>1, <1>2, <1>3, <1>8, <1>9, <1>10, QuietMoveKeeps
    DEF Plain, Label, Wanting, Having, Visiting, InHand, Giving, Saving

(* The four steps of release() that drop records, the caller's own or the  *)
(* donner's.                                                               *)
LEMMA DropKeeps ==
    ASSUME LockInv, NEW l, At(l), NEW t \in Thread, NEW drop, Drop(t, drop), NEW k, Goto(k),
           \/ l = "rel_forget" /\ k = "rel_setted"
           \/ l = "rel_forget" /\ k = "rel_donner" /\ dd[current] \in Donation
           \/ l = "rel_donner" /\ k = "rel_mine"
           \/ l = "rel_mine" /\ k = "rel_theirs"
           \/ l = "rel_theirs" /\ k = "rel_final"
    PROVE  LockInv'
  <1>1. /\ l \in Having /\ k \in Having /\ l \in Giving
        /\ l \notin {"run", "sleep_mark", "sleep_sched", "down_loop"}
        /\ k \in Plain /\ k \notin Saving /\ k \notin Wanting \cup Visiting
        /\ k \in InHand => l \in InHand \/ dd[current] \in Donation
    BY DEF Having, Giving, Plain, Label, Saving, Wanting, Visiting, InHand
  <1>2. /\ current \in Thread /\ panic = "none" /\ prio \in [Thread -> Prio] /\ pc[current] = l
    BY <1>1, RunnerTypes
  <1>3. Local(arg[current])
    BY <1>1, ArgStays DEF Drop
  <1>4. LockTypeOK
    BY DEF LockInv
  <1>5. k \in InHand => dd[current] \in Donation
    BY <1>1, <1>2 DEF LockInv, LocalsOK
  <1> DEFINE left == Retain(donationq[t], ToSet(donationq[t]) \ drop)
  <1>6. donationq' = [donationq EXCEPT ![t] = left]
    BY DEF Drop
  <1>7. left \in Seq(Donation)
    BY <1>4, RetainType DEF LockTypeOK
  <1> HIDE DEF left
  <1>8. donationq' \in [Thread -> Seq(Donation)]
    BY <1>4, <1>6, <1>7 DEF LockTypeOK
  <1>9. LockTypeOK'
    BY <1>4, <1>8 DEF Drop, LockTypeOK, lockLocals
  <1>10. /\ panic' = "none"
         /\ UNCHANGED <<current, status, rq, all, prio, priority_setted, timerVars, trapVars,
                        semaVars, holder, guards, todo, dd>>
    BY <1>2 DEF Drop, managerVars, prioVars, lockLocals
  <1> QED
    BY <1>1, <1>2, <1>3, <1>5, <1>9, <1>10, QuietMoveKeeps

LEMMA ReleaseForgetKeeps ==
    ASSUME LockInv,
           ReleaseForget \/ ReleaseForgetDonner \/ ReleaseForgetMine \/ ReleaseForgetTheirs
    PROVE  LockInv'
  <1>1. PICK l \in {"rel_forget", "rel_donner", "rel_mine", "rel_theirs"} : At(l)
    BY DEF ReleaseForget, ReleaseForgetDonner, ReleaseForgetMine, ReleaseForgetTheirs
  <1>2. current \in Thread /\ pc[current] = l
    BY <1>1, RunnerTypes
  <1>3. /\ dd[current] \in Donation \cup {NoArg}
        /\ l # "rel_forget" => dd[current].donner \in Thread
    BY <1>2 DEF LockInv, LockTypeOK, LocalsOK, InHand, Donation
  <1>4. CASE ReleaseForget
    <2>1. /\ At("rel_forget") /\ Goto(IF dd[current] = NoArg THEN "rel_setted" ELSE "rel_donner")
          /\ Drop(current, {r \in ToSet(donationq[current]) : r.lockid = arg[current]})
      BY <1>4 DEF ReleaseForget
    <2>2. CASE dd[current] = NoArg
      BY <1>2, <2>1, <2>2, DropKeeps
    <2>3. CASE dd[current] # NoArg
      BY <1>2, <1>3, <2>1, <2>3, DropKeeps
    <2> QED
      BY <2>2, <2>3
  <1>5. CASE ReleaseForgetDonner
    <2>1. At("rel_donner") /\ l = "rel_donner"
      BY <1>2, <1>5 DEF ReleaseForgetDonner, At
    <2> QED
      BY <1>3, <1>5, <2>1, DropKeeps DEF ReleaseForgetDonner
  <1>6. CASE ReleaseForgetMine
    BY <1>2, <1>6, DropKeeps DEF ReleaseForgetMine
  <1>7. CASE ReleaseForgetTheirs
    <2>1. At("rel_theirs") /\ l = "rel_theirs"
      BY <1>2, <1>7 DEF ReleaseForgetTheirs, At
    <2> QED
      BY <1>3, <1>7, <2>1, DropKeeps DEF ReleaseForgetTheirs
  <1> QED
    BY <1>4, <1>5, <1>6, <1>7

(* release() up to the call of up(): the priority to return to, and the    *)
(* holder.                                                                 *)
LEMMA ReleaseFinalKeeps == ASSUME LockInv, ReleaseFinal PROVE LockInv'
  <1>1. At("rel_final")
    BY DEF ReleaseFinal
  <1>2. /\ current \in Thread /\ panic = "none" /\ prio \in [Thread -> Prio]
        /\ pc[current] = "rel_final"
    BY <1>1, RunnerTypes
  <1>3. Local(arg[current])
    BY <1>1, ArgStays DEF ReleaseFinal
  <1>4. LockTypeOK /\ dd[current] \in Donation /\ arg[current] \in Nat
    BY <1>2, LockAssumption DEF LockInv, LocalsOK, InHand, Having
  <1>5. PICK p : /\ p \in [lock : Nat, prev : Prio]
                 /\ stored_prev' = [stored_prev EXCEPT ![current] = p]
    <2>1. stored_prev[current] \in [lock : Nat, prev : Prio]
      BY <1>2, <1>4 DEF LockTypeOK
    <2>2. [lock |-> arg[current], prev |-> dd[current].prev_priority] \in [lock : Nat, prev : Prio]
      BY <1>4 DEF Donation
    <2> QED
      BY <2>1, <2>2 DEF ReleaseFinal
  <1>6. stored_prev' \in [Thread -> [lock : Nat, prev : Prio]] /\ stored_prev'[current] = p
    BY <1>2, <1>4, <1>5 DEF LockTypeOK
  <1> DEFINE offers == {stored_prev'[current].prev} \cup
                       {r.donner_priority : r \in ToSet(donationq[current])}
  <1>7. offers \subseteq Prio /\ offers # {}
    <2>1. \A r \in ToSet(donationq[current]) : r \in Donation
      <3>1. donationq[current] \in Seq(Donation)
        BY <1>2, <1>4 DEF LockTypeOK
      <3>2. DOMAIN donationq[current] = 1..Len(donationq[current])
        BY <3>1, LenProperties
      <3> QED
        BY <3>1, <3>2, ElementOfSeq DEF ToSet
    <2>2. p.prev \in Prio
      BY <1>5
    <2> QED
      BY <1>6, <2>1, <2>2 DEF Donation
  <1>8. Max(offers) \in Prio
    <2> HIDE DEF offers
    <2> QED
      BY <1>7, MaxIsPrio
  <1>9. final' = [final EXCEPT ![current] = Max(offers)]
    BY DEF ReleaseFinal
  <1> HIDE DEF offers
  <1>10. final' \in [Thread -> Prio]
    BY <1>2, <1>4, <1>8, <1>9 DEF LockTypeOK
  <1>11. /\ dd' \in [Thread -> Donation \cup {NoArg}]
         /\ \A t \in Thread : t # current => dd'[t] = dd[t]
    BY <1>2, <1>4 DEF ReleaseFinal, LockTypeOK
  <1>12. LockTypeOK'
    BY <1>4, <1>6, <1>10, <1>11 DEF ReleaseFinal, LockTypeOK
  <1>13. /\ Goto("rel_store") /\ panic' = "none"
         /\ UNCHANGED <<current, status, rq, all, prio, priority_setted, timerVars, trapVars,
                        semaVars, holder, guards, todo>>
    BY <1>2 DEF ReleaseFinal, managerVars, prioVars
  <1> QED
    BY <1>1, <1>2, <1>3, <1>11, <1>12, <1>13, QuietMoveKeeps
    DEF Plain, Label, Wanting, Having, Visiting, InHand, Giving, Saving

LEMMA ReleaseStoreKeeps == ASSUME LockInv, ReleaseStore PROVE LockInv'
  <1>1. At("rel_store")
    BY DEF ReleaseStore
  <1>2. /\ current \in Thread /\ panic = "none" /\ prio \in [Thread -> Prio]
        /\ pc[current] = "rel_store"
    BY <1>1, RunnerTypes
  <1>3. Local(arg[current])
    BY <1>1, ArgStays DEF ReleaseStore
  <1>4. LockTypeOK
    BY DEF LockInv
  <1>5. prio' \in [Thread -> Prio] /\ final' \in [Thread -> Prio]
    <2>1. final[current] \in Prio /\ 0 \in Prio
      BY <1>2, <1>4, ThreadAssumption DEF LockTypeOK, Prio
    <2> QED
      BY <1>2, <1>4, <2>1 DEF ReleaseStore, LockTypeOK
  <1>6. LockTypeOK'
    BY <1>4, <1>5 DEF ReleaseStore, LockTypeOK, donationVars
  <1>7. /\ Goto("rel_setted") /\ panic' = "none"
        /\ UNCHANGED <<current, status, rq, all, priority_setted, timerVars, trapVars,
                       semaVars, holder, guards, todo, dd>>
    BY <1>2 DEF ReleaseStore, managerVars
  <1> QED
    BY <1>1, <1>3, <1>5, <1>6, <1>7, QuietMoveKeeps
    DEF Plain, Label, Wanting, Having, Visiting, InHand, Giving, Saving

LEMMA ReleaseSettedKeeps == ASSUME LockInv, ReleaseSetted PROVE LockInv'
  <1>1. At("rel_setted")
    BY DEF ReleaseSetted
  <1>2. /\ current \in Thread /\ panic = "none" /\ prio \in [Thread -> Prio]
        /\ pc[current] = "rel_setted" /\ priority_setted \in [Thread -> Prio \cup {NoArg}]
    BY <1>1, RunnerTypes
  <1>3. Local(arg[current])
    BY <1>1, ArgStays DEF ReleaseSetted
  <1>4. prio' \in [Thread -> Prio]
    BY <1>2 DEF ReleaseSetted
  <1>5. LockTypeOK'
    BY DEF ReleaseSetted, LockInv, LockTypeOK, lockVars, donationVars, lockLocals
  <1>6. /\ Goto("rel_take") /\ panic' = "none"
        /\ UNCHANGED <<current, status, rq, all, priority_setted, timerVars, trapVars,
                       semaVars, holder, guards, todo, dd>>
    BY <1>2 DEF ReleaseSetted, managerVars, lockVars, lockLocals
  <1> QED
    BY <1>1, <1>3, <1>4, <1>5, <1>6, QuietMoveKeeps
    DEF Plain, Label, Wanting, Having, Visiting, InHand, Giving, Saving

(* The holder is taken away while the caller still owns the lock: nobody   *)
(* has a guard for it.                                                     *)
LEMMA ReleaseTakeKeeps == ASSUME LockInv, ReleaseTake PROVE LockInv'
  <1>1. At("rel_clear")
    BY DEF ReleaseTake
  <1>2. /\ current \in Thread /\ panic = "none" /\ prio \in [Thread -> Prio]
        /\ pc[current] = "rel_clear" /\ pc \in [Thread -> Label]
        /\ arg = [t \in Thread |-> arg[t]] /\ current # NoThread
    BY <1>1, RunnerTypes
  <1>3. LockTypeOK /\ HolderKnown /\ \A r \in Sema : OneUnit(r)
    BY DEF LockInv
  <1>4. PICK s \in Sema : s = arg[current] /\ s \notin guards[current]
    BY <1>2 DEF LockInv, LocalsOK, Having
  <1>5. Local(s)
    BY <1>1, <1>4, ArgStays DEF ReleaseTake
  <1>6. /\ holder' = [holder EXCEPT ![s] = NoThread] /\ Goto("rel_up")
        /\ panic' = "none" /\ prio' = prio
        /\ UNCHANGED <<current, status, rq, all, priority_setted, timerVars, trapVars, semaVars,
                       guards, donationq, stored_prev, todo, dd, final>>
    <2>1. holder[s] = current
      BY <1>2, <1>3, <1>4 DEF HolderKnown, Giving
    <2> QED
      BY <1>2, <1>4, <2>1 DEF ReleaseTake, prioVars, donationVars, lockLocals
  <1>7. \A r \in Sema : holder'[r] = IF r = s THEN NoThread ELSE holder[r]
    BY <1>3, <1>6 DEF LockTypeOK
  <1>8. LockTypeOK'
    BY <1>3, <1>6 DEF LockTypeOK
  <1>9. \A t \in Thread : /\ pc'[t] = IF t = current THEN "rel_up" ELSE pc[t]
                          /\ arg'[t] = IF t = current THEN s ELSE arg[t]
    BY <1>2, <1>5, <1>6 DEF Goto, Local
  <1>10. \A r \in Sema : Owners(r)' = Owners(r)
    BY <1>2, <1>4, <1>6, <1>9 DEF Owners
  <1>11. Owners(s) = {current}
    BY <1>2, <1>3, <1>4, OwnerAlone DEF Owners
  <1>12. HolderKnown'
    <2> SUFFICES ASSUME NEW t \in Thread, NEW r \in Sema,
                        r \in guards'[t] \/ (pc'[t] \in Giving /\ arg'[t] = r)
                 PROVE  holder'[r] = t
      BY DEF HolderKnown
    <2>1. r \in guards[t] \/ (pc[t] \in Giving /\ arg[t] = r /\ t # current)
      BY <1>6, <1>9 DEF Giving
    <2>2. t \in Owners(r)
      BY <2>1 DEF Owners, Giving
    <2>3. r # s
      BY <1>4, <1>11, <2>1, <2>2
    <2> QED
      BY <1>3, <1>7, <2>1, <2>3 DEF HolderKnown
  <1>13. /\ "rel_up" \in Plain /\ "rel_up" \notin Visiting \cup InHand \cup Saving
         /\ "rel_clear" \notin {"sleep_mark", "sleep_sched", "down_loop"}
    BY DEF Plain, Label, Visiting, InHand, Saving
  <1>14. s \in Sema \ guards'[current]
    BY <1>4, <1>6
  <1> QED
    BY <1>1, <1>2, <1>5, <1>6, <1>8, <1>10, <1>12, <1>13, <1>14, LockMoveKeeps

-----------------------------------------------------------------------------
(* The calls of schedule() in acquire() and release().                     *)
LEMMA LockScheduleKeeps ==
    ASSUME LockInv, NEW l \in Plain, NEW k \in Plain, ScheduleThen(l, k),
           UNCHANGED <<semaVars, lockVars>>,
           \/ l = "acq_sched" /\ k = "acq_next"
           \/ l = "up_sched" /\ k = "rel_sched"
           \/ l = "rel_sched" /\ k = "run"
    PROVE  LockInv'
  <1>1. At(l) /\ l \notin {"run", "sleep_mark", "sleep_sched", "down_loop"} /\ k \notin Saving
    BY DEF ScheduleThen, Saving
  <1>2. /\ current \in Thread /\ pc[current] = l /\ pc \in [Thread -> Label] /\ ~selfWoken
    BY <1>1, RunnerTypes
  <1>3. ThreadInv' /\ SleepInv' /\ SemaInv' /\ panic' = "none"
    BY <1>1, <1>2, ScheduleThenKeepsAll DEF LockInv
  <1>4. /\ UNCHANGED <<arg, sleepq, selfWoken, value, holder, guards, donationq, stored_prev,
                       todo, dd, final>>
        /\ \A t \in Thread : pc'[t] = IF t = current THEN k ELSE pc[t]
    BY <1>2 DEF ScheduleThen, Goto, timerVars, semaVars, lockVars, donationVars, lockLocals
  <1>5. LockTypeOK' /\ HolderKnown'
    BY <1>4 DEF LockInv, LockTypeOK, HolderKnown, Giving
  <1>6. /\ l \in Having <=> k \in Having
        /\ k \in Wanting \cup Having => l \in Wanting \cup Having
        /\ k \in Visiting => l \in Visiting
        /\ k \notin InHand
    BY DEF Wanting, Having, Visiting, InHand
  <1>7. LocalsOK'
    BY <1>2, <1>4, <1>6 DEF LockInv, LocalsOK
  <1>8. \A s \in Sema : Owners(s)' = Owners(s)
    BY <1>2, <1>4, <1>6 DEF Owners, Having
  <1>9. \A s \in Sema : OneUnit(s)'
    BY <1>4, <1>8, UnitKept DEF LockInv
  <1>10. BorrowersAwake'
    <2>1. \A t \in Thread : status'[t] = "Blocked" <=> status[t] = "Blocked"
      BY <1>2, ScheduleKeeps, StepTypes DEF ScheduleThen, LockInv
    <2> QED
      BY <1>4, <2>1 DEF LockInv, BorrowersAwake, Reading, Writing
  <1> QED
    BY <1>2, <1>3, <1>4, <1>5, <1>7, <1>9, <1>10 DEF LockInv, OnlyHolderPanics

(* acquire() calls down(), or goes on in its loop: the thread that takes   *)
(* the unit is the lock's only owner.                                      *)
LEMMA AcquireDownTypes ==
    ASSUME LockInv, At("acq_down") \/ At("down_loop"), arg' = arg
    PROVE  /\ arg[current] \in Sema \ guards[current] /\ Caller(arg[current])
           /\ current \in Thread /\ pc \in [Thread -> Label] /\ panic = "none"
           /\ pc[current] \in {"acq_down", "down_loop"}
           /\ arg' = [arg EXCEPT ![current] = arg[current]]
  <1>1. PICK l \in {"acq_down", "down_loop"} : At(l)
    OBVIOUS
  <1>2. /\ current \in Thread /\ current # Idle /\ ~ticking /\ panic = "none" /\ pc[current] = l
        /\ pc \in [Thread -> Label] /\ arg = [t \in Thread |-> arg[t]] /\ ~selfWoken
    BY <1>1, RunnerTypes
  <1>3. arg[current] \in Sema \ guards[current]
    BY <1>2 DEF LockInv, LocalsOK, Wanting
  <1> QED
    BY <1>2, <1>3 DEF Caller

LEMMA AcquireTakeKeeps == ASSUME LockInv, AcquireTake PROVE LockInv'
  <1>1. /\ At("acq_down") \/ At("down_loop")
        /\ DownTake(arg[current]) /\ Goto("acq_hold") /\ arg' = arg
        /\ UNCHANGED <<prioVars, timerVars, resched>>
        /\ UNCHANGED <<sleepq, selfWoken, holder, guards, donationq, stored_prev, todo, dd, final>>
    BY DEF AcquireTake, timerVars, lockVars, donationVars, lockLocals
  <1>2. PICK s \in Sema : s = arg[current] /\ s \notin guards[current]
    BY <1>1, AcquireDownTypes
  <1>3. /\ Caller(s) /\ current \in Thread /\ pc \in [Thread -> Label] /\ panic = "none"
        /\ pc[current] \in {"acq_down", "down_loop"}
        /\ arg' = [arg EXCEPT ![current] = s]
    BY <1>1, <1>2, AcquireDownTypes
  <1>4. ThreadInv' /\ SleepInv' /\ SemaInv'
    <2>1. "acq_hold" \in Plain /\ "acq_hold" \notin Saving
      BY DEF Plain, Label, Saving
    <2> QED
      BY <1>1, <1>2, <1>3, <2>1, TakeKeeps DEF LockInv
  <1>5. /\ value[s] > 0 /\ value' = [value EXCEPT ![s] = @ - 1] /\ panic' = "none"
    BY <1>1, <1>2, <1>3 DEF DownTake, managerVars
  <1>6. value \in [Sema -> Nat]
    BY DEF LockInv, SemaInv, SemaTypeOK
  <1>7. \A t \in Thread : pc'[t] = IF t = current THEN "acq_hold" ELSE pc[t]
    BY <1>1, <1>3 DEF Goto
  <1>8. LockTypeOK' /\ HolderKnown'
    BY <1>1, <1>7 DEF LockInv, LockTypeOK, HolderKnown, Giving
  <1>9. LocalsOK'
    BY <1>1, <1>2, <1>7 DEF LockInv, LocalsOK, Wanting, Having, Visiting, InHand
  <1>10. \A r \in Sema : r # s => Owners(r)' = Owners(r)
    BY <1>1, <1>2, <1>3, <1>7 DEF Owners
  <1>11. Owners(s)' = Owners(s) \cup {current}
    BY <1>1, <1>2, <1>3, <1>7 DEF Owners
  <1>12. value[s] = 1 /\ Owners(s) = {}
    BY <1>5 DEF LockInv, OneUnit
  <1>13. \A r \in Sema : OneUnit(r)'
    <2> SUFFICES ASSUME NEW r \in Sema PROVE OneUnit(r)'
      OBVIOUS
    <2>1. CASE r = s
      BY <1>3, <1>5, <1>6, <1>11, <1>12, <2>1 DEF OneUnit
    <2>2. CASE r # s
      BY <1>5, <1>6, <1>10, <2>2, UnitKept DEF LockInv
    <2> QED
      BY <2>1, <2>2
  <1>14. BorrowersAwake'
    BY <1>1, <1>7 DEF LockInv, BorrowersAwake, Reading, Writing, DownTake, managerVars
  <1> QED
    BY <1>1, <1>3, <1>4, <1>5, <1>8, <1>9, <1>13, <1>14 DEF LockInv, Caller, OnlyHolderPanics

LEMMA AcquireBlockKeeps == ASSUME LockInv, AcquireBlock PROVE LockInv'
  <1>1. /\ At("acq_down") \/ At("down_loop")
        /\ DownBlock(arg[current]) /\ Goto("down_loop") /\ arg' = arg
        /\ UNCHANGED <<prioVars, timerVars, resched>>
        /\ UNCHANGED <<sleepq, selfWoken, holder, guards, donationq, stored_prev, todo, dd, final>>
    BY DEF AcquireBlock, timerVars, lockVars, donationVars, lockLocals
  <1>2. PICK s \in Sema : s = arg[current] /\ s \notin guards[current]
    BY <1>1, AcquireDownTypes
  <1>3. /\ Caller(s) /\ current \in Thread /\ pc \in [Thread -> Label] /\ panic = "none"
        /\ pc[current] \in {"acq_down", "down_loop"}
        /\ arg' = [arg EXCEPT ![current] = s]
    BY <1>1, <1>2, AcquireDownTypes
  <1>4. ThreadInv' /\ SleepInv' /\ SemaInv'
    BY <1>1, <1>2, <1>3, BlockKeeps DEF LockInv
  <1>5. /\ panic' = "none"
        /\ \A t \in Thread : t # current => (status'[t] = "Blocked" <=> status[t] = "Blocked")
    <2>1. Schedulable(status) /\ current # Idle
      BY <1>3, StepTypes DEF LockInv, Caller
    <2>2. PICK st : st = [status EXCEPT ![current] = "Blocked"]
      OBVIOUS
    <2>3. Schedulable(st) /\ schedule(st)
      BY <1>1, <2>1, <2>2, MarkKeeps DEF DownBlock
    <2>4. \A t \in Thread : status'[t] = "Blocked" <=> st[t] = "Blocked"
      BY <2>3, ScheduleKeeps
    <2>5. \A t \in Thread : t # current => st[t] = status[t]
      BY <2>2, <1>3, StepTypes DEF LockInv
    <2> QED
      BY <2>3, <2>4, <2>5, ScheduleKeeps
  <1>6. \A t \in Thread : pc'[t] = IF t = current THEN "down_loop" ELSE pc[t]
    BY <1>1, <1>3 DEF Goto
  <1>7. LockTypeOK' /\ HolderKnown'
    BY <1>1, <1>6 DEF LockInv, LockTypeOK, HolderKnown, Giving
  <1>8. LocalsOK'
    BY <1>1, <1>2, <1>6 DEF LockInv, LocalsOK, Wanting, Having, Visiting, InHand
  <1>9. \A r \in Sema : Owners(r)' = Owners(r)
    BY <1>1, <1>3, <1>6 DEF Owners
  <1>10. \A r \in Sema : OneUnit(r)'
    BY <1>1, <1>9, UnitKept DEF LockInv, DownBlock
  <1>11. BorrowersAwake'
    BY <1>5, <1>6 DEF LockInv, BorrowersAwake, Reading, Writing
  <1> QED
    BY <1>1, <1>3, <1>4, <1>5, <1>7, <1>8, <1>10, <1>11 DEF LockInv, Caller, OnlyHolderPanics

(* release() calls up(): the unit goes back to the semaphore.              *)
LEMMA ReleaseUpKeeps == ASSUME LockInv, ReleaseUp PROVE LockInv'
  <1>1. At("rel_up")
    BY DEF ReleaseUp
  <1>2. /\ current \in Thread /\ current # Idle /\ ~ticking /\ panic = "none"
        /\ pc[current] = "rel_up" /\ pc \in [Thread -> Label]
        /\ arg = [t \in Thread |-> arg[t]] /\ ~selfWoken
    BY <1>1, RunnerTypes
  <1>3. PICK s \in Sema : s = arg[current] /\ s \notin guards[current]
    BY <1>2 DEF LockInv, LocalsOK, Having
  <1>4. PICK k \in {"up_sched", "rel_sched"} : Goto(k)
    BY DEF ReleaseUp
  <1>5. /\ UpFree(s) \/ UpWake(s)
        /\ arg' = [arg EXCEPT ![current] = NoArg]
        /\ UNCHANGED <<prioVars, timerVars, trapVars>>
        /\ UNCHANGED <<sleepq, selfWoken, holder, guards, donationq, stored_prev, todo, dd, final>>
    BY <1>3 DEF ReleaseUp, Local, timerVars, lockVars, donationVars, lockLocals
  <1>6. Caller(s) /\ pc[current] # "down_loop" /\ k \in Plain /\ k # "down_loop"
    BY <1>2, <1>3 DEF Caller, Plain, Label
  <1>7. Owners(s) = {current} /\ value[s] = 0
    BY <1>2, <1>3, OwnerAlone DEF LockInv, Owners
  <1>8. ThreadInv' /\ SleepInv' /\ SemaInv' /\ panic' = "none"
    BY <1>2, <1>4, <1>5, <1>6, <1>7, UpKeeps DEF LockInv
  <1>9. value' = [value EXCEPT ![s] = 1]
    BY <1>5, <1>7 DEF UpFree, UpWake
  <1>10. value \in [Sema -> Nat]
    BY <1>2 DEF LockInv, SemaInv, SemaTypeOK
  <1>11. \A t \in Thread : /\ pc'[t] = IF t = current THEN k ELSE pc[t]
                           /\ arg'[t] = IF t = current THEN NoArg ELSE arg[t]
    BY <1>2, <1>4, <1>5 DEF Goto
  <1>12. LockTypeOK' /\ HolderKnown'
    <2>1. LockTypeOK'
      BY <1>5 DEF LockInv, LockTypeOK
    <2>2. \A t \in Thread : pc'[t] \in Giving => pc'[t] = pc[t] /\ arg'[t] = arg[t]
      BY <1>11 DEF Giving
    <2>3. HolderKnown'
      BY <1>5, <2>2 DEF LockInv, HolderKnown
    <2> QED
      BY <2>1, <2>3
  <1>13. LocalsOK'
    BY <1>5, <1>11 DEF LockInv, LocalsOK, Wanting, Having, Visiting, InHand
  <1>14. \A r \in Sema : r # s => Owners(r)' = Owners(r)
    BY <1>2, <1>3, <1>5, <1>11 DEF Owners
  <1>15. Owners(s)' = Owners(s) \ {current}
    BY <1>2, <1>3, <1>5, <1>11 DEF Owners
  <1>16. \A r \in Sema : OneUnit(r)'
    <2> SUFFICES ASSUME NEW r \in Sema PROVE OneUnit(r)'
      OBVIOUS
    <2>1. CASE r = s
      <3>1. value'[s] = 1 /\ Owners(s)' = {}
        BY <1>7, <1>9, <1>10, <1>15
      <3> QED
        BY <2>1, <3>1 DEF OneUnit
    <2>2. CASE r # s
      BY <1>9, <1>10, <1>14, <2>2, UnitKept DEF LockInv
    <2> QED
      BY <2>1, <2>2
  <1>17. BorrowersAwake'
    <2>1. \A t \in Thread : status'[t] = "Blocked" => status[t] = "Blocked"
      <3>1. status \in [Thread -> Status]
        BY <1>2, StepTypes DEF LockInv
      <3> QED
        BY <1>5, <3>1 DEF UpFree, UpWake, wake_up, managerVars
    <2> QED
      BY <1>11, <2>1 DEF LockInv, BorrowersAwake, Reading, Writing
  <1> QED
    BY <1>2, <1>5, <1>8, <1>12, <1>13, <1>16, <1>17 DEF LockInv, OnlyHolderPanics

-----------------------------------------------------------------------------
(* The steps of the threads outside acquire() and release().               *)
LEMMA OtherStepKeeps ==
    ASSUME LockInv, OtherStep \/ UNCHANGED lvars PROVE LockInv'
  <1>1. /\ ThreadNext \/ UNCHANGED threadVars
        /\ UNCHANGED semaVars
        /\ UNCHANGED <<value, holder, guards, donationq, stored_prev, todo, dd, final>>
    <2>1. CASE OtherStep
      <3>1. ThreadNext
        BY <2>1 DEF OtherStep, ThreadNext, CallStep, KernelStep, TrapStep
      <3>2. /\ UNCHANGED semaVars
            /\ UNCHANGED <<value, holder, guards, donationq, stored_prev, todo, dd, final>>
        BY <2>1 DEF OtherStep, semaVars, lockLocals
      <3> QED
        BY <3>1, <3>2
    <2>2. CASE UNCHANGED lvars
      BY <2>2 DEF lvars, vars, semaVars, lockVars, donationVars, lockLocals
    <2> QED
      BY <2>1, <2>2
  <1>2. ~SleepPush
    <2>1. sleepq' = sleepq \/ TrapStep
      BY DEF OtherStep, SpawnRegister, SetPriorityStore, ExitMark, Yield, KernelStep, SpawnAll,
             SpawnSchedule, ExitSchedule, SetPrioritySchedule, SetPriorityDone, SleepMark,
             SleepSchedule, ScheduleThen, TimerInterrupt, Halted, timerVars, threadVars, lvars, vars
    <2>2. ~(SleepPush /\ TrapStep)
      <3>1. SleepPush => ~ticking /\ resched[current] = 0
        BY DEF SleepPush, Calls, At
      <3> QED
        BY <3>1 DEF TrapStep, TickWake, TickDone, TrapSchedule
    <2>3. SleepPush => sleepq' # {} 
      BY DEF SleepPush
    <2> QED
      BY <2>1, <2>2, <2>3 DEF LockInv
  <1>3. /\ ~selfWoken' /\ sleepq' = {} /\ panic' \in {panic, "none"}
        /\ \A t \in Thread : \/ pc'[t] = pc[t] /\ arg'[t] = arg[t]
                             \/ {pc[t], pc'[t]} \cap (Wanting \cup Having) = {}
        /\ \A t \in Thread : status'[t] = "Blocked" =>
                             status[t] = "Blocked" \/ pc[t] = "sleep_mark"
    <2>1. OwnLabels \cap (Wanting \cup Having) = {}
      BY DEF OwnLabels, Wanting, Having
    <2>2. /\ ~selfWoken' /\ sleepq' = {} /\ panic' \in {panic, "none"}
          /\ \A t \in Thread : \/ pc'[t] = pc[t] /\ arg'[t] = arg[t]
                               \/ {pc[t], pc'[t]} \subseteq OwnLabels
          /\ \A t \in Thread : status'[t] = "Blocked" =>
                               status[t] = "Blocked" \/ pc[t] = "sleep_mark"
      BY <1>1, <1>2, ThreadStepsSpareCallers DEF LockInv
    <2> QED
      BY <2>1, <2>2
  <1>4. ThreadInv' /\ SleepInv' /\ SemaInv'
    BY <1>1, ThreadNextKeeps, SleepersKept, ThreadStepsKeepSema DEF LockInv
  <1>5. LockTypeOK' /\ HolderKnown'
    <2>1. Giving \subseteq Having
      BY DEF Giving, Having
    <2> QED
      BY <1>1, <1>3, <2>1 DEF LockInv, LockTypeOK, HolderKnown
  <1>6. Visiting \cup InHand \subseteq Wanting \cup Having
    BY DEF Wanting, Having, Visiting, InHand
  <1>7. LocalsOK'
    BY <1>1, <1>3, <1>6 DEF LockInv, LocalsOK
  <1>8. \A s \in Sema : Owners(s)' = Owners(s)
    BY <1>1, <1>3 DEF Owners, Having
  <1>9. \A s \in Sema : OneUnit(s)'
    BY <1>1, <1>8, UnitKept DEF LockInv
  <1>10. BorrowersAwake'
    <2>1. /\ Reading \cup Writing \subseteq Wanting \cup Having
          /\ "sleep_mark" \notin Reading \cup Writing
      BY DEF Reading, Writing, Wanting, Having
    <2> QED
      BY <1>3, <2>1 DEF LockInv, BorrowersAwake
  <1>11. OnlyHolderPanics'
    <2>1. CASE panic' = "none"
      BY <2>1 DEF OnlyHolderPanics
    <2>2. CASE panic' # "none"
      <3>1. panic # "none"
        BY <1>3, <2>2
      <3>2. UNCHANGED <<panic, pc, arg, status, current, holder>>
        <4>1. UNCHANGED threadVars
          BY <1>1, <3>1 DEF ThreadNext, CallStep, KernelStep, TrapStep, Yield, SpawnRegister,
             ExitMark, SetPriorityStore, SleepPush, SpawnAll, SpawnSchedule, ExitSchedule,
             SetPrioritySchedule, SetPriorityDone, SleepMark, SleepSchedule, ScheduleThen,
             TimerInterrupt, TickWake, TickDone, TrapSchedule, Halted, Calls, At
        <4> QED
          BY <1>1, <4>1 DEF threadVars, managerVars, localVars
      <3> QED
        BY <3>2 DEF LockInv, OnlyHolderPanics
    <2> QED
      BY <2>1, <2>2
  <1> QED
    BY <1>3, <1>4, <1>5, <1>7, <1>9, <1>10, <1>11 DEF LockInv

-----------------------------------------------------------------------------
(* Initially every lock is free.                                           *)
LEMMA LockInitEstablishes == LockInit => LockInv
  <1> SUFFICES ASSUME LockInit PROVE LockInv
    OBVIOUS
  <1>1. ThreadInv /\ SleepInv /\ SemaInv
    BY SemaInitEstablishes DEF LockInit
  <1>2. /\ ~selfWoken /\ sleepq = {} /\ panic = "none" /\ value = InitValue
        /\ pc = [t \in Thread |-> "run"]
    BY DEF LockInit, Init, ThreadInit
  <1>3. LockTypeOK
    <2>1. 0 \in Prio /\ NoLock \in Nat
      BY ThreadAssumption DEF Prio, NoLock
    <2> QED
      BY <2>1 DEF LockInit, LockTypeOK
  <1>4. guards = [t \in Thread |-> {}]
    BY DEF LockInit
  <1>5. LocalsOK /\ HolderKnown /\ BorrowersAwake
    BY <1>2, <1>4 DEF LocalsOK, HolderKnown, BorrowersAwake, Wanting, Having, Visiting, InHand,
                      Giving, Reading, Writing
  <1>6. \A s \in Sema : OneUnit(s)
    BY <1>2, <1>4, LockAssumption DEF OneUnit, Owners
  <1> QED
    BY <1>1, <1>2, <1>3, <1>5, <1>6 DEF LockInv, OnlyHolderPanics

(* Every step of acquire(), release() and of the threads around them keeps *)
(* the invariant.                                                          *)
LEMMA LockNextKeeps == LockInv /\ [LockNext]_lvars => LockInv'
  <1> SUFFICES ASSUME LockInv, [LockNext]_lvars PROVE LockInv'
    OBVIOUS
  <1>1. CASE OtherStep \/ UNCHANGED lvars
    BY <1>1, OtherStepKeeps
  <1>2. CASE \E s \in Sema : AcquireCheck(s) \/ ReleaseCheck(s)
    BY <1>2, AcquireCheckKeeps, ReleaseCheckKeeps
  <1>3. CASE AcquireBorrow \/ AcquireHoldBorrow \/ ReleaseTakeBorrow
    BY <1>3, QuietBorrowKeeps DEF AcquireBorrow, AcquireHoldBorrow, ReleaseTakeBorrow
  <1>4. CASE \/ AcquireTest \/ AcquireRead \/ AcquireCompare \/ AcquireDonate \/ AcquireRecord
             \/ AcquireRecord2 \/ AcquireNext \/ AcquireTake \/ AcquireBlock \/ AcquireHold
    BY <1>4, AcquireTestKeeps, AcquireReadKeeps, AcquireCompareKeeps, AcquireDonateKeeps,
       AcquireRecordKeeps, AcquireRecord2Keeps, AcquireNextKeeps, AcquireTakeKeeps,
       AcquireBlockKeeps, AcquireHoldKeeps
  <1>5. CASE \/ ReleaseAssert \/ ReleaseFind \/ ReleaseForget \/ ReleaseForgetDonner
             \/ ReleaseForgetMine \/ ReleaseForgetTheirs \/ ReleaseFinal \/ ReleaseStore
             \/ ReleaseSetted \/ ReleaseTake \/ ReleaseUp
    BY <1>5, ReleaseAssertKeeps, ReleaseFindKeeps, ReleaseForgetKeeps, ReleaseFinalKeeps,
       ReleaseStoreKeeps, ReleaseSettedKeeps, ReleaseTakeKeeps, ReleaseUpKeeps
  <1>6. CASE AcquireSchedule \/ ReleaseUpSchedule \/ ReleaseSchedule
    <2>1. {"acq_sched", "acq_next", "up_sched", "rel_sched", "run"} \subseteq Plain
      BY DEF Plain, Label
    <2>2. ReleaseUpSchedule => ScheduleThen("up_sched", "rel_sched") /\ UNCHANGED <<semaVars, lockVars>>
      BY UpScheduleRestores DEF ReleaseUpSchedule, LockInv, Saving
    <2> QED
      BY <1>6, <2>1, <2>2, LockScheduleKeeps DEF AcquireSchedule, ReleaseSchedule
  <1> QED
    BY <1>1, <1>2, <1>3, <1>4, <1>5, <1>6 DEF LockNext, LockStep

(* Sleep::acquire and Sleep::release under every interleaving with the     *)
(* timer trap, spawning, exiting and set_priority(): each lock has its     *)
(* unit once, and the locals and records of the donations are sound.       *)
THEOREM LockInvariant == LockSpec => []LockInv
  BY LockInitEstablishes, LockNextKeeps, PTL DEF LockSpec

(* Sleep::acquire and Sleep::release: a lock has at most one owner, its    *)
(* unit is never lost, and the recorded holder is the thread that has the  *)
(* guard, for any number of threads, locks and priorities.                 *)
THEOREM LocksExclude == LockSpec => []MutualExclusion
  <1>1. LockInv => MutualExclusion
    <2> SUFFICES ASSUME LockInv, NEW s \in Sema
                 PROVE  /\ value[s] + Cardinality(Owners(s)) = 1
                        /\ \A t \in Thread : s \in guards[t] => holder[s] = t
      BY DEF MutualExclusion
    <2>1. OneUnit(s) /\ HolderKnown
      BY DEF LockInv
    <2>2. value[s] + Cardinality(Owners(s)) = 1
      <3>1. Cardinality({}) = 0 /\ \A t \in Thread : Cardinality({t}) = 1
        BY FS_EmptySet, FS_Singleton
      <3> QED
        BY <2>1, <3>1 DEF OneUnit
    <2> QED
      BY <2>1, <2>2 DEF HolderKnown
  <1> QED
    BY <1>1, LockInvariant, PTL

(* Sleep::acquire and Sleep::release: of all the assertions, unwraps and   *)
(* borrows in what they call, only two can fail, the unwrap of the holder  *)
(* in acquire() and a borrow of the holder's cell, and each only as        *)
(* OnlyHolderPanics says: after a release since the test, and while        *)
(* another thread, preempted and not waiting, has the cell borrowed.       *)
THEOREM OnlyHolderFails == LockSpec => []OnlyHolderPanics
  <1>1. LockInv => OnlyHolderPanics
    BY DEF LockInv
  <1> QED
    BY <1>1, LockInvariant, PTL

-----------------------------------------------------------------------------
(* Outside these places, acquire() and release() change neither who runs   *)
(* nor anybody's priority.                                                 *)
Preempting ==
    BeforeSchedule \cup {"acq_record", "acq_record2", "acq_sched",
                         "rel_setted", "rel_take", "rel_clear", "rel_up", "rel_sched"}

(* A step of acquire() or release() ends in schedule(), in a panic, at a   *)
(* place from which the thread goes straight on to schedule(), or leaves   *)
(* the threads and their priorities as they were.                          *)
LEMMA LockStepPreempts ==
    ASSUME HighestFirst, LockInv, LockStep, DonationPreempts
    PROVE  DonationPreempts'
  <1>1. /\ ThreadInv /\ ~selfWoken /\ current \in Thread /\ pc \in [Thread -> Label]
        /\ Schedulable(status)
    BY DEF LockInv, ThreadInv, ThreadTypeOK
  <1>2. TopRuns' => DonationPreempts'
    BY DEF TopRuns, DonationPreempts, HighestRunsExcept
  <1>3. CASE AcquireSchedule \/ ReleaseUpSchedule \/ ReleaseSchedule
    <2>1. schedule(status) /\ prio' = prio
      BY <1>3 DEF AcquireSchedule, ReleaseUpSchedule, ReleaseSchedule, ScheduleThen,
                  UpScheduleThen, prioVars
    <2> QED
      BY <1>1, <1>2, <2>1, SchedulePicksTop
  <1>4. CASE AcquireBlock
    <2>1. At("acq_down") \/ At("down_loop")
      BY <1>4 DEF AcquireBlock
    <2>2. current # Idle
      BY <2>1, RunnerTypes
    <2>3. Schedulable([status EXCEPT ![current] = "Blocked"])
      BY <1>1, <2>2, MarkKeeps
    <2>4. schedule([status EXCEPT ![current] = "Blocked"]) /\ prio' = prio
      BY <1>4 DEF AcquireBlock, DownBlock, prioVars
    <2> QED
      BY <1>2, <2>3, <2>4, SchedulePicksTop
  <1>5. CASE \/ AcquireDonate \/ AcquireRecord \/ AcquireRecord2
             \/ ReleaseStore \/ ReleaseSetted \/ ReleaseTakeBorrow \/ ReleaseTake
    <2>1. /\ current' = current
          /\ pc'[current] \in {"acq_record", "acq_record2", "acq_sched",
                              "rel_setted", "rel_take", "rel_clear", "rel_up"}
      BY <1>1, <1>5 DEF AcquireDonate, AcquireRecord, AcquireRecord2, ReleaseStore, ReleaseSetted,
                        ReleaseTakeBorrow, borrow_mut, Borrow, ReleaseTake, Goto, managerVars
    <2> QED
      BY <2>1 DEF DonationPreempts, HighestRunsExcept
  <1>6. CASE ReleaseUp
    <2>1. current' = current
      BY <1>6 DEF ReleaseUp, UpFree, UpWake, wake_up, managerVars
    <2>2. pc'[current] \in {"up_sched", "rel_sched"}
      BY <1>1, <1>6 DEF ReleaseUp, Goto
    <2> QED
      BY <2>1, <2>2 DEF DonationPreempts, HighestRunsExcept, BeforeSchedule
  <1>7. CASE \/ \E l \in Sema : AcquireCheck(l) \/ ReleaseCheck(l)
             \/ AcquireTest \/ AcquireBorrow \/ AcquireRead \/ AcquireCompare \/ AcquireNext
             \/ AcquireTake \/ AcquireHoldBorrow \/ AcquireHold
             \/ ReleaseAssert \/ ReleaseFind \/ ReleaseForget
             \/ ReleaseForgetDonner \/ ReleaseForgetMine \/ ReleaseForgetTheirs \/ ReleaseFinal
    <2>1. UNCHANGED <<current, status, prio>>
      BY <1>7 DEF AcquireCheck, ReleaseCheck, AcquireTest, AcquireBorrow, AcquireRead,
                  AcquireCompare, AcquireNext, AcquireTake, AcquireHoldBorrow, AcquireHold,
                  ReleaseAssert, ReleaseFind, ReleaseForget, ReleaseForgetDonner,
                  ReleaseForgetMine, ReleaseForgetTheirs, ReleaseFinal, borrow, borrow_mut,
                  Borrow, Drop, DownTake, managerVars, prioVars
    <2>2. \E l \in {"run", "acq_test", "acq_read", "acq_clone", "acq_compare", "acq_next",
                    "acq_down", "down_loop", "acq_hold", "acq_store", "rel_assert", "rel_find",
                    "rel_forget", "rel_donner", "rel_mine", "rel_theirs", "rel_final"} : At(l)
      BY <1>7 DEF AcquireCheck, ReleaseCheck, AcquireTest, AcquireBorrow, AcquireRead,
                  AcquireCompare, AcquireNext, AcquireTake, AcquireHoldBorrow, AcquireHold,
                  ReleaseAssert, ReleaseFind, ReleaseForget, ReleaseForgetDonner,
                  ReleaseForgetMine, ReleaseForgetTheirs, ReleaseFinal, Calls
    <2>3. ~(resched[current] > 0)
      BY <2>2 DEF At
    <2>4. TopRuns
      BY <2>2, <2>3 DEF At, DonationPreempts, HighestRunsExcept, BeforeSchedule, TopRuns
    <2> QED
      BY <1>2, <2>1, <2>4 DEF TopRuns
  <1> QED
    BY <1>3, <1>4, <1>5, <1>6, <1>7 DEF LockStep

(* Sleep::acquire, Sleep::release and what runs beside them: with a        *)
(* scheduler that serves the highest priority first, and whatever the      *)
(* donations do to the priorities of queued threads, a Ready thread of     *)
(* higher priority than the current one waits only while the current one   *)
(* is on its way to schedule().                                            *)
THEOREM DonationsPreempt == HighestFirst => (LockSpec => []DonationPreempts)
  <1> SUFFICES ASSUME HighestFirst PROVE LockSpec => []DonationPreempts
    OBVIOUS
  <1>1. LockInit => DonationPreempts
    <2> SUFFICES ASSUME LockInit PROVE TopRuns
      BY DEF TopRuns, DonationPreempts, HighestRunsExcept
    <2> QED
      BY ThreadAssumption DEF LockInit, Init, ThreadInit, TopRuns, Prio
  <1>2. LockInv /\ DonationPreempts /\ [LockNext]_lvars => DonationPreempts'
    <2> SUFFICES ASSUME LockInv, DonationPreempts, [LockNext]_lvars PROVE DonationPreempts'
      OBVIOUS
    <2>1. CASE LockStep
      BY <2>1, LockStepPreempts
    <2>2. CASE OtherStep \/ UNCHANGED lvars
      <3>1. [ThreadNext]_threadVars
        BY <2>2 DEF OtherStep, ThreadNext, CallStep, KernelStep, TrapStep, lvars, vars
      <3>2. ThreadInv /\ ~selfWoken'
        BY <2>2, OtherStepKeeps DEF LockInv
      <3>3. DonationPreempts = HighestRunsExcept(Preempting)
        BY DEF DonationPreempts, Preempting
      <3>4. /\ BeforeSchedule \subseteq Preempting
            /\ "run" \notin Preempting /\ "setprio_done" \notin Preempting
        BY DEF Preempting, BeforeSchedule
      <3>5. HighestRunsExcept(Preempting)'
        BY <3>1, <3>2, <3>3, <3>4, HighestKept
      <3> QED
        BY <3>5 DEF DonationPreempts, Preempting
    <2> QED
      BY <2>1, <2>2 DEF LockNext
  <1> QED
    BY <1>1, <1>2, LockInvariant, PTL DEF LockSpec
=============================================================================
