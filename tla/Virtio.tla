------------------------------- MODULE Virtio -------------------------------
(***************************************************************************)
(* The virtio block driver: threads that read and write sectors, the       *)
(* device, the PLIC and the external interrupt, with the Lazy cell that    *)
(* holds the driver.                                                       *)
(*                                                                         *)
(* One thread runs at a time.  Which one the scheduler chooses is left     *)
(* open, and so is whether up() finds the woken thread to be of higher     *)
(* priority than the interrupted one.  The Mutex around the driver is      *)
(* taken to exclude, which SleepLocks is about.                            *)
(*                                                                         *)
(* A thread has two interrupt bits.  off is the level of                   *)
(* sbi::interrupt::set, which every thread saves and restores for itself;  *)
(* sie is sstatus.SIE, of which the hart has one: a trap clears it, sret   *)
(* and the timer trap set it, and a switch of threads does not touch it.   *)
(***************************************************************************)
EXTENDS Integers, FiniteSets

CONSTANTS
    Thread,         \* the threads, the idle thread among them
    Client,         \* those that use the disk
    NoThread,       \* Option::None for a thread
    NoLevel,        \* Option::None in an Intr lock
    None,           \* no request, or nothing in a buffer
    Sector, Value,
    Asks,           \* the requests each client makes
    QUEUE_SIZE,
    IdxMod          \* 2^16: the ring indices are u16

Request == [type : {"In"}, sector : Sector]
               \cup [type : {"Out"}, sector : Sector, data : Value]

ASSUME VirtioAssumption ==
    /\ Client \subseteq Thread
    /\ NoThread \notin Thread
    /\ NoLevel \notin BOOLEAN
    /\ Asks \in [Client -> SUBSET Request]
    /\ QUEUE_SIZE \in Nat \ {0}
    /\ IdxMod \in Nat \ {0, 1} /\ IdxMod % QUEUE_SIZE = 0

VARIABLES
    cur,                    \* the running thread
    pc, off, trap,          \* of each thread; trap is the trap frame on its stack
    sie,                    \* sstatus.SIE
    once, level, taken,     \* the Lazy: its state, its Intr lock, its closure
    holder,                 \* of the Mutex around the driver
    value, waiters,         \* USED_RING_NOTIFICATION
    desc, status,           \* the descriptor chain: whose request, its status byte
    avail, used, usedLen,   \* avail.idx, used.idx, the lengths in the used ring
    live, seen, notified,   \* the device: DRIVER_OK, avail entries served, doorbell
    isr,                    \* INTERRUPT_STATUS
    pending, claimed,       \* the PLIC, for VIRTIO0_ID
    disk, req, buf,         \* sectors, requests, the callers' buffers
    panic                   \* "none", or the assertion that stopped the kernel

hartVars   == <<cur, trap, sie>>
onceVars   == <<once, level, taken>>
lockVars   == <<holder>>
semaVars   == <<value, waiters>>
ringVars   == <<desc, status, avail, used, usedLen>>
deviceVars == <<live, seen, notified, isr>>
plicVars   == <<pending, claimed>>
dataVars   == <<disk, req, buf>>
vars == <<hartVars, pc, off, onceVars, lockVars, semaVars, ringVars, deviceVars,
          plicVars, dataVars, panic>>

Init ==
    /\ cur \in Thread
    /\ pc = [t \in Thread |-> "run"]
    /\ off = [t \in Thread |-> FALSE]
    /\ trap = [t \in Thread |-> "none"]
    /\ sie = TRUE
    /\ once = "InComplete" /\ level = NoLevel /\ taken = FALSE
    /\ holder = NoThread
    /\ value = 0 /\ waiters = {}
    /\ desc = NoThread /\ status = "ok"
    /\ avail = 0 /\ used = 0 /\ usedLen = [i \in 0..QUEUE_SIZE - 1 |-> 0]
    /\ live = FALSE /\ seen = 0 /\ notified = FALSE /\ isr = FALSE
    /\ pending = FALSE /\ claimed = FALSE
    /\ disk \in [Sector -> Value]
    /\ req = [c \in Client |-> None] /\ buf = [c \in Client |-> None]
    /\ panic = "none"

-----------------------------------------------------------------------------
(* The running thread goes on from label l, outside any trap.              *)
At(l) == panic = "none" /\ trap[cur] = "none" /\ pc[cur] = l

Goto(l) == pc' = [pc EXCEPT ![cur] = l]

Stop(p) ==
    /\ panic' = p
    /\ UNCHANGED <<hartVars, pc, off, onceVars, lockVars, semaVars, ringVars,
                   deviceVars, plicVars, dataVars>>

(* After the step t is blocked neither in down() nor by the Mutex.         *)
Ready(t) ==
    \/ trap[t] # "none"
    \/ t \notin waiters' /\ (pc'[t] = "lock" => holder' = NoThread)

(* schedule() chooses u, on top of the trap frame that the running thread  *)
(* has.  A thread that was switched out by a timer trap returns from the   *)
(* trap, and sret sets sie.                                                *)
Switch(u, frame) ==
    LET frames == [trap EXCEPT ![cur] = frame]
    IN  /\ cur' = u
        /\ trap' = [frames EXCEPT ![u] = IF @ = "timer" THEN "none" ELSE @]
        /\ sie' = (sie \/ frames[u] = "timer")

(* schedule() of a thread that could go on, and of one that is blocked.    *)
Yields(frame) == \E u \in Thread : (u = cur \/ Ready(u)) /\ Switch(u, frame)
Blocks == \E u \in Thread \ {cur} : Ready(u) /\ Switch(u, "none")

(* A thread outside the driver gives up the processor.                     *)
Yield ==
    /\ At("run")
    /\ UNCHANGED <<pc, off, onceVars, lockVars, semaVars, ringVars, deviceVars,
                   plicVars, dataVars, panic>>
    /\ Yields("none")

(* Interrupts are taken when both bits allow it.  Bound: one trap frame on *)
(* each stack.                                                             *)
Interruptible == panic = "none" /\ sie /\ ~off[cur] /\ trap[cur] = "none"

TimerTrap ==
    /\ Interruptible
    /\ UNCHANGED <<pc, off, onceVars, lockVars, semaVars, ringVars, deviceVars,
                   plicVars, dataVars, panic>>
    /\ Yields("timer")

-----------------------------------------------------------------------------
(* Mutant: a closure that is taken counts as complete.                     *)
CallTaken ==
    /\ At("run") /\ cur \in Client
    /\ \E r \in Asks[cur] : req' = [req EXCEPT ![cur] = r]
    /\ Goto(IF taken THEN "lock" ELSE "once_check")
    /\ UNCHANGED <<hartVars, off, onceVars, lockVars, semaVars, ringVars, deviceVars,
                   plicVars, disk, buf, panic>>

(* Virtio::get(): Lazy::get, OnceCell::get_or_init, Once::call_once.       *)
Call ==
    /\ At("run") /\ cur \in Client
    /\ \E r \in Asks[cur] : req' = [req EXCEPT ![cur] = r]
    /\ Goto(IF once = "Complete" THEN "lock" ELSE "once_check")
    /\ UNCHANGED <<hartVars, off, onceVars, lockVars, semaVars, ringVars, deviceVars,
                   plicVars, disk, buf, panic>>

(* Intr::acquire looks at the lock with interrupts off, restores them, and *)
(* turns them off again to take it.                                        *)
OnceCheck ==
    /\ At("once_check")
    /\ IF level # NoLevel THEN Stop("held")
       ELSE /\ Goto("once_take")
            /\ UNCHANGED <<hartVars, off, onceVars, lockVars, semaVars, ringVars,
                           deviceVars, plicVars, dataVars, panic>>

OnceTake ==
    /\ At("once_take")
    /\ level' = ~off[cur]
    /\ off' = [off EXCEPT ![cur] = TRUE]
    /\ Goto(IF once = "InComplete" THEN "once_init" ELSE "once_done")
    /\ UNCHANGED <<hartVars, once, taken, lockVars, semaVars, ringVars, deviceVars,
                   plicVars, dataVars, panic>>

(* Virtio::init, called with a lock on the new Mutex; releasing that lock  *)
(* calls schedule().                                                       *)
OnceInit ==
    /\ At("once_init")
    /\ IF taken THEN Stop("taken")
       ELSE /\ taken' = TRUE
            /\ live' = TRUE
            /\ Goto("once_done")
            /\ UNCHANGED <<off, once, level, lockVars, semaVars, ringVars, seen, notified,
                           isr, plicVars, dataVars, panic>>
            /\ Yields("none")

OnceDone ==
    /\ At("once_done")
    /\ IF level = NoLevel THEN Stop("release")
       ELSE /\ once' = "Complete"
            /\ off' = [off EXCEPT ![cur] = ~level]
            /\ level' = NoLevel
            /\ Goto("lock")
            /\ UNCHANGED <<hartVars, taken, lockVars, semaVars, ringVars, deviceVars,
                           plicVars, dataVars, panic>>

-----------------------------------------------------------------------------
(* read_sector() and write_sector().                                       *)
Lock ==
    /\ At("lock") /\ holder = NoThread
    /\ holder' = cur
    /\ Goto("fill")
    /\ UNCHANGED <<hartVars, off, onceVars, semaVars, ringVars, deviceVars, plicVars,
                   dataVars, panic>>

LockBlock ==
    /\ At("lock") /\ holder # NoThread
    /\ UNCHANGED <<pc, off, onceVars, lockVars, semaVars, ringVars, deviceVars, plicVars,
                   dataVars, panic>>
    /\ Blocks

(* The three descriptors, and a fresh status byte.                         *)
Fill ==
    /\ At("fill")
    /\ desc' = cur
    /\ status' = "fresh"
    /\ Goto("publish")
    /\ UNCHANGED <<hartVars, off, onceVars, lockVars, semaVars, avail, used, usedLen,
                   deviceVars, plicVars, dataVars, panic>>

(* supply_buffer().  Every slot of the available ring names descriptor 0.  *)
Publish ==
    /\ At("publish")
    /\ avail' = (avail + 1) % IdxMod
    /\ Goto("notify")
    /\ UNCHANGED <<hartVars, off, onceVars, lockVars, semaVars, desc, status, used,
                   usedLen, deviceVars, plicVars, dataVars, panic>>

Notify ==
    /\ At("notify")
    /\ notified' = TRUE
    /\ Goto("down")
    /\ UNCHANGED <<hartVars, off, onceVars, lockVars, semaVars, ringVars, live, seen, isr,
                   plicVars, dataVars, panic>>

(* USED_RING_NOTIFICATION.down(), one turn of its loop.                    *)
DownTake ==
    /\ At("down") /\ value > 0
    /\ value' = value - 1
    /\ Goto("check")
    /\ UNCHANGED <<hartVars, off, onceVars, lockVars, waiters, ringVars, deviceVars,
                   plicVars, dataVars, panic>>

DownBlock ==
    /\ At("down") /\ value = 0
    /\ waiters' = waiters \cup {cur}
    /\ UNCHANGED <<pc, off, onceVars, lockVars, value, ringVars, deviceVars, plicVars,
                   dataVars, panic>>
    /\ Blocks

(* The lengths the driver asserts, and the ones the device reports.        *)
UsedLen(r) == IF r.type = "In" THEN 513 ELSE 1

(* Mutant: the slot that the device fills next.                            *)
LastUsedNext == used % QUEUE_SIZE

(* The slot that holds the last entry of the used ring.                    *)
LastUsed == ((used + IdxMod - 1) % IdxMod) % QUEUE_SIZE

(* Mutant: the status byte is not looked at.                               *)
CheckNoStatus ==
    /\ At("check")
    /\ IF usedLen[LastUsed] # UsedLen(req[cur]) THEN Stop("len")
       ELSE /\ isr' = FALSE
            /\ Goto("unlock")
            /\ UNCHANGED <<hartVars, off, onceVars, lockVars, semaVars, ringVars, live,
                           seen, notified, plicVars, dataVars, panic>>

(* Mutant: INTERRUPT_ACK is not written.                                   *)
CheckNoAck ==
    /\ At("check")
    /\ IF status # "ok" THEN Stop("status")
       ELSE IF usedLen[LastUsed] # UsedLen(req[cur]) THEN Stop("len")
       ELSE /\ Goto("unlock")
            /\ UNCHANGED <<hartVars, off, onceVars, lockVars, semaVars, ringVars,
                           deviceVars, plicVars, dataVars, panic>>

Check ==
    /\ At("check")
    /\ IF status # "ok" THEN Stop("status")
       ELSE IF usedLen[LastUsed] # UsedLen(req[cur]) THEN Stop("len")
       ELSE /\ isr' = FALSE
            /\ Goto("unlock")
            /\ UNCHANGED <<hartVars, off, onceVars, lockVars, semaVars, ringVars, live,
                           seen, notified, plicVars, dataVars, panic>>

(* The guard goes, and Sleep::release calls schedule().  The request and   *)
(* the buffer were the caller's.                                           *)
Unlock ==
    /\ At("unlock")
    /\ holder' = NoThread
    /\ Goto("run")
    /\ req' = [req EXCEPT ![cur] = None] /\ buf' = [buf EXCEPT ![cur] = None]
    /\ UNCHANGED <<off, onceVars, semaVars, ringVars, deviceVars, plicVars, disk, panic>>
    /\ Yields("none")

-----------------------------------------------------------------------------
(* The device.  It may look at the available ring by itself, and does when *)
(* it is notified.  It reports a used entry and raises its interrupt.      *)
Report(len) ==
    /\ usedLen' = [usedLen EXCEPT ![used % QUEUE_SIZE] = len]
    /\ used' = (used + 1) % IdxMod
    /\ seen' = (seen + 1) % IdxMod
    /\ notified' = FALSE
    /\ isr' = TRUE
    /\ pending' = TRUE

DeviceServe ==
    /\ panic = "none" /\ live /\ seen # avail
    /\ LET r == req[desc]
       IN  /\ IF r.type = "In"
              THEN buf' = [buf EXCEPT ![desc] = disk[r.sector]] /\ UNCHANGED disk
              ELSE disk' = [disk EXCEPT ![r.sector] = r.data] /\ UNCHANGED buf
           /\ Report(UsedLen(r))
    /\ status' = "ok"
    /\ UNCHANGED <<hartVars, pc, off, onceVars, lockVars, semaVars, desc, avail, live,
                   claimed, req, panic>>

(* It may fail any request.                                                *)
DeviceFail ==
    /\ panic = "none" /\ live /\ seen # avail
    /\ Report(1)
    /\ status' = "ioerr"
    /\ UNCHANGED <<hartVars, pc, off, onceVars, lockVars, semaVars, desc, avail, live,
                   claimed, dataVars, panic>>

-----------------------------------------------------------------------------
(* Mutant: the completion is written as soon as the interrupt is claimed.  *)
ExternalTrapEarly ==
    /\ Interruptible /\ pending /\ ~claimed
    /\ pending' = FALSE /\ claimed' = FALSE
    /\ trap' = [trap EXCEPT ![cur] = "up"]
    /\ sie' = FALSE
    /\ UNCHANGED <<cur, pc, off, onceVars, lockVars, semaVars, ringVars, deviceVars,
                   dataVars, panic>>

(* The external interrupt, on the stack of whatever thread runs: the trap  *)
(* clears sie, and the handler never sets it.  plic::read_claim.           *)
ExternalTrap ==
    /\ Interruptible /\ pending /\ ~claimed
    /\ pending' = FALSE /\ claimed' = TRUE
    /\ trap' = [trap EXCEPT ![cur] = "up"]
    /\ sie' = FALSE
    /\ UNCHANGED <<cur, pc, off, onceVars, lockVars, semaVars, ringVars, deviceVars,
                   dataVars, panic>>

(* virtio::handle_interrupt.  When somebody waits, up() may switch to a    *)
(* thread of higher priority, with the handler left on this stack.         *)
ExternalUp ==
    /\ panic = "none" /\ trap[cur] = "up"
    /\ IF ~isr THEN Stop("isr")
       ELSE IF waiters # {} /\ value # 0 THEN Stop("count")
       ELSE /\ value' = value + 1
            /\ UNCHANGED <<pc, off, onceVars, lockVars, ringVars, deviceVars, plicVars,
                           dataVars, panic>>
            /\ \/ /\ waiters = {} /\ UNCHANGED waiters
                  /\ Switch(cur, "complete")
               \/ \E w \in waiters :
                    /\ waiters' = waiters \ {w}
                    /\ Yields("complete")

(* Mutant: the completion is not written.                                  *)
ExternalCompleteNever ==
    /\ panic = "none" /\ trap[cur] = "complete"
    /\ trap' = [trap EXCEPT ![cur] = "none"]
    /\ sie' = TRUE
    /\ UNCHANGED <<cur, pc, off, onceVars, lockVars, semaVars, ringVars, deviceVars,
                   plicVars, dataVars, panic>>

(* plic::write_completion, and the return from the trap.                   *)
ExternalComplete ==
    /\ panic = "none" /\ trap[cur] = "complete"
    /\ claimed' = FALSE
    /\ trap' = [trap EXCEPT ![cur] = "none"]
    /\ sie' = TRUE
    /\ UNCHANGED <<cur, pc, off, onceVars, lockVars, semaVars, ringVars, deviceVars,
                   pending, dataVars, panic>>

(* A panic shuts the machine down.                                         *)
Halted == panic # "none" /\ UNCHANGED vars

-----------------------------------------------------------------------------
OnceStep == OnceCheck \/ OnceTake \/ OnceInit \/ OnceDone
DriverStep == Lock \/ LockBlock \/ Fill \/ Publish \/ Notify \/ DownTake \/ DownBlock
                  \/ Check \/ Unlock
ThreadStep == Yield \/ Call \/ OnceStep \/ DriverStep
HandlerStep == ExternalUp \/ ExternalComplete
DeviceStep == DeviceServe \/ DeviceFail

Next == ThreadStep \/ TimerTrap \/ ExternalTrap \/ HandlerStep \/ DeviceStep \/ Halted

Spec == Init /\ [][Next]_vars

(* A thread in the driver that runs again and again gets on with its call; *)
(* the processor does not stop in the code of the kernel; the device       *)
(* serves what it was notified of; a pending interrupt is taken if that is *)
(* possible again and again.  Nothing is asked of a thread outside the     *)
(* driver, which may compute for ever, nor of the scheduler.               *)
Fairness ==
    /\ \A t \in Client : SF_vars(cur = t /\ DriverStep)
    /\ WF_vars(OnceStep \/ DriverStep \/ HandlerStep)
    /\ WF_vars(notified /\ DeviceStep)
    /\ SF_vars(ExternalTrap)

FairSpec == Spec /\ Fairness

-----------------------------------------------------------------------------
(* A request leaves nothing behind: when nobody holds the driver, the      *)
(* semaphore is at 0, no interrupt is raised, pending or about to be       *)
(* passed on, and the device has seen all of the ring.  Anything left over *)
(* would wake the next caller before its own request is served.            *)
QuietWhenFree ==
    panic = "none" /\ holder = NoThread =>
        /\ value = 0 /\ waiters = {} /\ ~isr /\ ~pending
        /\ \A t \in Thread : trap[t] # "up"
        /\ seen = avail /\ used = avail

(* Of the driver's assertions only the one on the status byte can fail,    *)
(* and only because the device has reported an error: the length is that   *)
(* of the caller's own request, an interrupt always finds INTERRUPT_STATUS *)
(* set, and up() never finds a waiter at a positive value.                 *)
DriverAssertions ==
    /\ panic \notin {"len", "isr", "count"}
    /\ panic = "status" => status = "ioerr"

(* Lazy runs its closure once and shows the driver to nobody before that;  *)
(* it stops the kernel only if a second thread comes while the first one   *)
(* has been switched out inside the closure, with the Intr lock taken.     *)
LazyOnce ==
    /\ \A t \in Thread : pc[t] \in {"lock", "fill", "publish", "notify", "down"} =>
           live /\ once = "Complete"
    /\ panic \in {"held", "taken"} =>
           \E t \in Thread \ {cur} : pc[t] = "once_done" /\ once = "InComplete"
    /\ panic # "release"

(* Interrupts are shut out by sstatus.SIE only while a claimed interrupt   *)
(* has not been completed; but then whatever thread up() has switched to   *)
(* runs without preemption, and the next request cannot be answered before *)
(* the interrupted thread has run again.                                   *)
MaskedUntilCompletion ==
    /\ ~sie => claimed
    /\ claimed <=> \E t \in Thread : trap[t] \in {"up", "complete"}

(* The calls of read_sector() and write_sector() are atomic: the driver    *)
(* with its device, interrupt handler and rings implements SectorDisk.     *)
Phase == [c \in Client |->
             CASE pc[c] = "run" -> "idle"
               [] pc[c] \in {"publish", "notify", "down", "check", "unlock"} /\ status = "ok" -> "done"
               [] OTHER -> "called"]

Atomic == INSTANCE SectorDisk WITH phase <- Phase

AtomicSectors == Atomic!Spec

(* t could go on, but another thread runs: t has yet to write the          *)
(* completion, or has the driver and does not wait for its device.         *)
PassedOver(t) ==
    /\ cur # t
    /\ trap[t] = "complete" \/ (holder = t /\ t \notin waiters)

(* A thread that has got the driver's lock has its request answered and    *)
(* gives the lock back, unless the kernel stops, or the thread itself or   *)
(* the one that has yet to write the completion is passed over for ever.   *)
(* No wake-up, interrupt or completion is lost.  A thread is passed over   *)
(* if another one computes on with sie clear, while the interrupted thread *)
(* has the completion to write, or if its priority is too low.  (The lock  *)
(* itself passes to whoever comes first, so a thread may wait for it for   *)
(* ever.)                                                                  *)
RequestsReturn ==
    \/ \E t \in Thread : <>[]PassedOver(t)
    \/ \A c \in Client : pc[c] = "fill" ~> pc[c] = "run" \/ panic # "none"
=============================================================================
