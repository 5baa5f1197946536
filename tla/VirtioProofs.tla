---------------------------- MODULE VirtioProofs ----------------------------
(***************************************************************************)
(* Proofs about the virtio driver, for any set of threads, clients and     *)
(* sectors and any size of the rings.                                      *)
(***************************************************************************)
EXTENDS Virtio, TLAPS

Labels == {"run", "once_check", "once_take", "once_init", "once_done", "lock", "fill",
           "publish", "notify", "down", "check", "unlock"}
Inside == {"fill", "publish", "notify", "down", "check", "unlock"}

(* The type invariant.                                                     *)
TypeInv ==
    /\ cur \in Thread
    /\ pc \in [Thread -> Labels]
    /\ off \in [Thread -> BOOLEAN]
    /\ trap \in [Thread -> {"none", "timer", "up", "complete"}]
    /\ sie \in BOOLEAN
    /\ once \in {"InComplete", "Complete"}
    /\ level \in BOOLEAN \cup {NoLevel}
    /\ taken \in BOOLEAN
    /\ holder \in Client \cup {NoThread}
    /\ value \in Nat /\ waiters \subseteq Thread
    /\ desc \in Client \cup {NoThread} /\ status \in {"fresh", "ok", "ioerr"}
    /\ avail \in 0..IdxMod - 1 /\ used \in 0..IdxMod - 1 /\ seen \in 0..IdxMod - 1
    /\ usedLen \in [0..QUEUE_SIZE - 1 -> Nat]
    /\ live \in BOOLEAN /\ notified \in BOOLEAN /\ isr \in BOOLEAN
    /\ pending \in BOOLEAN /\ claimed \in BOOLEAN
    /\ req \in [Client -> Request \cup {None}]
    /\ panic \in {"none", "held", "taken", "release", "status", "len", "isr", "count"}
    /\ \A t \in Thread : pc[t] # "run" => t \in Client

(* The Lazy.  Only the running thread is inside call_once(), except for    *)
(* the one that was switched out by Virtio::init, with the lock taken.     *)
OnceInv ==
    /\ once = "Complete" => taken
    /\ taken => live
    /\ level # NoLevel => \E t \in Thread : pc[t] \in {"once_init", "once_done"}
    /\ taken /\ once = "InComplete" => \E t \in Thread : pc[t] = "once_done"
    /\ \A t \in Thread :
        /\ pc[t] = "once_init" =>
               t = cur /\ off[t] /\ trap[t] = "none" /\ level # NoLevel /\ once = "InComplete"
        /\ pc[t] = "once_done" =>
               /\ off[t] /\ level # NoLevel /\ taken
               /\ once = "Complete" => t = cur /\ trap[t] = "none"
               /\ \A u \in Thread : pc[u] = "once_done" => u = t
        /\ pc[t] \in Inside \cup {"lock"} => once = "Complete"

(* At most one thread has the handler on its stack, and it has the claim.  *)
Handles(t) == trap[t] \in {"up", "complete"}
HandlerInv ==
    /\ claimed <=> \E t \in Thread : Handles(t)
    /\ \A t, u \in Thread : Handles(t) /\ Handles(u) => t = u
    /\ ~sie => claimed

(* Where the answer to the holder's request is.                            *)
Passing == \E t \in Thread : trap[t] = "up"
Caught == seen = avail /\ used = avail
Quiet == Caught /\ ~isr /\ ~pending /\ ~Passing /\ value = 0
Posted ==
    /\ used = seen /\ avail = (seen + 1) % IdxMod /\ status = "fresh"
    /\ ~isr /\ ~pending /\ ~Passing /\ value = 0
Answered ==
    /\ Caught /\ isr /\ status # "fresh"
    /\ status = "ok" => usedLen[LastUsed] = UsedLen(req[desc])
Reported == Answered /\ pending /\ ~Passing /\ value = 0
Claimed == Answered /\ ~pending /\ Passing /\ value = 0
Raised == Answered /\ ~pending /\ ~Passing /\ value = 1 /\ waiters = {}
Served == Answered /\ ~pending /\ ~Passing /\ value = 0

RequestInv ==
    /\ \A t \in Thread : pc[t] \in Inside <=> t = holder
    /\ holder = NoThread => Quiet
    /\ \A t \in Thread :
        /\ pc[t] = "fill" => Quiet
        /\ pc[t] = "publish" => desc = t /\ Quiet /\ status = "fresh"
        /\ pc[t] \in {"notify", "down"} =>
               desc = t /\ (Posted \/ Reported \/ Claimed \/ Raised)
        /\ pc[t] = "check" => desc = t /\ Served
        /\ pc[t] = "unlock" => desc = t /\ Quiet /\ status = "ok"
    /\ \A t \in waiters : pc[t] = "down"

VirtioInv == TypeInv /\ OnceInv /\ HandlerInv /\ RequestInv /\ DriverAssertions /\ LazyOnce
-----------------------------------------------------------------------------
(* The remainders that the ring indices need.                              *)
LEMMA ModSmall == \A m \in Nat \ {0} : \A a \in 0..m - 1 : a % m = a
  OBVIOUS

(* A remainder is below its modulus.                                       *)
LEMMA ModRange == \A m \in Nat \ {0} : \A a \in Nat : a % m \in 0..m - 1
  OBVIOUS

(* An index that is moved on changes, also when it wraps around.           *)
LEMMA IndexMoves == \A i \in 0..IdxMod - 1 : (i + 1) % IdxMod # i
  <1> SUFFICES ASSUME NEW i \in 0..IdxMod - 1
               PROVE  (i + 1) % IdxMod # i
    OBVIOUS
  <1>1. CASE i + 1 = IdxMod
    BY <1>1, VirtioAssumption
  <1>2. CASE i + 1 < IdxMod
    BY <1>2, ModSmall, VirtioAssumption
  <1> QED
    BY <1>1, <1>2, VirtioAssumption

(* LastUsed is the slot of the entry that was reported last, also when     *)
(* used.idx wraps around.                                                  *)
LEMMA IndexReturns ==
    \A i \in 0..IdxMod - 1 : (((i + 1) % IdxMod) + IdxMod - 1) % IdxMod = i
  <1> SUFFICES ASSUME NEW i \in 0..IdxMod - 1
               PROVE  (((i + 1) % IdxMod) + IdxMod - 1) % IdxMod = i
    OBVIOUS
  <1>1. CASE i + 1 = IdxMod
    <2>1. (i + 1) % IdxMod = 0
      BY <1>1, VirtioAssumption
    <2> QED
      BY <1>1, <2>1, ModSmall, VirtioAssumption
  <1>2. CASE i + 1 < IdxMod
    <2>1. (i + 1) % IdxMod = i + 1
      BY <1>2, ModSmall, VirtioAssumption
    <2>2. (i + IdxMod) % IdxMod = i
      BY VirtioAssumption
    <2> QED
      BY <2>1, <2>2, VirtioAssumption
  <1> QED
    BY <1>1, <1>2, VirtioAssumption

-----------------------------------------------------------------------------
(* What schedule() does to the trap frames and to sie: a timer frame may   *)
(* be gone, and the running thread's frame is the one it was called with.  *)
LEMMA SwitchEffect ==
    ASSUME TypeInv,
           NEW u \in Thread, NEW frame \in {"none", "timer", "complete"},
           Switch(u, frame)
    PROVE  /\ cur' = u
           /\ trap' \in [Thread -> {"none", "timer", "up", "complete"}]
           /\ sie' \in BOOLEAN /\ (sie => sie')
           /\ \A t \in Thread \ {cur} : /\ trap'[t] = "up" <=> trap[t] = "up"
                                        /\ trap'[t] = "complete" <=> trap[t] = "complete"
                                        /\ trap[t] = "none" => trap'[t] = "none"
           /\ trap'[cur] # "up"
           /\ trap'[cur] = "complete" <=> frame = "complete"
           /\ frame = "none" => trap'[cur] = "none"
  <1> USE DEF TypeInv
  <1>1. sie' \in BOOLEAN /\ (sie => sie')
    BY DEF Switch
  <1> QED
    BY <1>1 DEF Switch

(* The steps that schedule() ends, and what they leave to it.              *)
LEMMA YieldsEffect ==
    ASSUME TypeInv,
           NEW frame \in {"none", "timer", "complete"},
           Yields(frame) \/ (frame = "none" /\ Blocks)
    PROVE  \E u \in Thread : Switch(u, frame)
  BY DEF Yields, Blocks

(* A client may go to any label.                                           *)
LEMMA GotoType ==
    ASSUME TypeInv, cur \in Client, NEW l \in Labels, Goto(l)
    PROVE  /\ pc' \in [Thread -> Labels]
           /\ \A t \in Thread : pc'[t] # "run" => t \in Client
  BY VirtioAssumption DEF TypeInv, Goto

(* A thread inside a call is a client.                                     *)
LEMMA CallerIsClient ==
    ASSUME TypeInv, pc[cur] # "run"
    PROVE  cur \in Client
  BY DEF TypeInv

(* Every step preserves the types.                                         *)
LEMMA TypeKeeps == TypeInv /\ [Next]_vars => TypeInv'
  <1> SUFFICES ASSUME TypeInv, [Next]_vars
               PROVE  TypeInv'
    OBVIOUS
  <1> USE VirtioAssumption DEF hartVars, onceVars, lockVars, semaVars, ringVars,
          deviceVars, plicVars, dataVars, At
  <1>1. ASSUME NEW p \in {"held", "taken", "release", "status", "len", "isr", "count"},
               Stop(p)
        PROVE  TypeInv'
    BY <1>1 DEF TypeInv, Stop
  <1>2. ASSUME Yield \/ TimerTrap \/ LockBlock
        PROVE  TypeInv'
    <2>1. PICK u \in Thread, frame \in {"none", "timer"} : Switch(u, frame)
      BY <1>2, YieldsEffect DEF Yield, TimerTrap, LockBlock
    <2>2. UNCHANGED <<pc, off, onceVars, lockVars, semaVars, ringVars, deviceVars,
                      plicVars, dataVars, panic>>
      BY <1>2 DEF Yield, TimerTrap, LockBlock
    <2> QED
      BY <2>1, <2>2, SwitchEffect DEF TypeInv
  <1>3. ASSUME Call
        PROVE  TypeInv'
    <2>1. req' \in [Client -> Request \cup {None}]
      BY <1>3 DEF Call, TypeInv
    <2> QED
      BY <1>3, <2>1, GotoType DEF Call, TypeInv, Labels
  <1>4. ASSUME OnceCheck
        PROVE  TypeInv'
    <2>1. CASE level # NoLevel
      BY <1>1, <1>4, <2>1 DEF OnceCheck
    <2>2. CASE level = NoLevel
      <3>1. cur \in Client /\ Goto("once_take")
        BY <1>4, <2>2, CallerIsClient DEF OnceCheck
      <3> QED
        BY <1>4, <2>2, <3>1, GotoType DEF OnceCheck, TypeInv, Labels
    <2> QED
      BY <2>1, <2>2
  <1>5. ASSUME OnceTake
        PROVE  TypeInv'
    <2>1. off' \in [Thread -> BOOLEAN] /\ level' \in BOOLEAN
      BY <1>5 DEF OnceTake, TypeInv
    <2> QED
      BY <1>5, <2>1, GotoType, CallerIsClient DEF OnceTake, TypeInv, Labels
  <1>6. ASSUME OnceInit
        PROVE  TypeInv'
    <2>1. CASE taken
      BY <1>1, <1>6, <2>1 DEF OnceInit
    <2>2. CASE ~taken
      <3>1. PICK u \in Thread : Switch(u, "none")
        BY <1>6, <2>2, YieldsEffect DEF OnceInit
      <3>2. /\ pc' \in [Thread -> Labels]
            /\ \A t \in Thread : pc'[t] # "run" => t \in Client
        BY <1>6, <2>2, GotoType, CallerIsClient DEF OnceInit, Labels
      <3> QED
        BY <1>6, <2>2, <3>1, <3>2, SwitchEffect DEF OnceInit, TypeInv
    <2> QED
      BY <2>1, <2>2
  <1>7. ASSUME OnceDone
        PROVE  TypeInv'
    <2>1. CASE level = NoLevel
      BY <1>1, <1>7, <2>1 DEF OnceDone
    <2>2. CASE level # NoLevel
      <3>1. off' \in [Thread -> BOOLEAN]
        BY <1>7, <2>2 DEF OnceDone, TypeInv
      <3> QED
        BY <1>7, <2>2, <3>1, GotoType, CallerIsClient DEF OnceDone, TypeInv, Labels
    <2> QED
      BY <2>1, <2>2
  <1>8. ASSUME Lock \/ Fill \/ Notify \/ DownTake
        PROVE  TypeInv'
    <2>1. cur \in Client
      BY <1>8, CallerIsClient DEF Lock, Fill, Notify, DownTake
    <2>2. CASE Lock
      BY <2>1, <2>2, GotoType DEF Lock, TypeInv, Labels
    <2>3. CASE Fill
      BY <2>1, <2>3, GotoType DEF Fill, TypeInv, Labels
    <2>4. CASE Notify
      BY <2>1, <2>4, GotoType DEF Notify, TypeInv, Labels
    <2>5. CASE DownTake
      BY <2>1, <2>5, GotoType DEF DownTake, TypeInv, Labels
    <2> QED
      BY <1>8, <2>2, <2>3, <2>4, <2>5
  <1>9. ASSUME Publish
        PROVE  TypeInv'
    <2>1. avail' \in 0..IdxMod - 1
      BY <1>9, ModRange DEF Publish, TypeInv
    <2> QED
      BY <1>9, <2>1, GotoType, CallerIsClient DEF Publish, TypeInv, Labels
  <1>10. ASSUME DownBlock
         PROVE  TypeInv'
    <2>1. PICK u \in Thread : Switch(u, "none")
      BY <1>10, YieldsEffect DEF DownBlock
    <2> QED
      BY <1>10, <2>1, SwitchEffect DEF TypeInv, DownBlock
  <1>11. ASSUME Check
         PROVE  TypeInv'
    <2>1. CASE Stop("status") \/ Stop("len")
      BY <1>1, <2>1
    <2>2. CASE Goto("unlock") /\ isr' = FALSE
               /\ UNCHANGED <<hartVars, off, onceVars, lockVars, semaVars, ringVars, live,
                               seen, notified, plicVars, dataVars, panic>>
      <3>1. cur \in Client
        BY <1>11, CallerIsClient DEF Check
      <3>2. /\ pc' \in [Thread -> Labels]
            /\ \A t \in Thread : pc'[t] # "run" => t \in Client
        BY <2>2, <3>1, GotoType DEF Labels
      <3>3. isr' \in BOOLEAN
        BY <2>2
      <3>4. UNCHANGED <<hartVars, off, onceVars, lockVars, semaVars, ringVars, live, seen,
                        notified, plicVars, dataVars, panic>>
        BY <2>2
      <3> QED
        BY <3>2, <3>3, <3>4 DEF TypeInv
    <2> QED
      BY <1>11, <2>1, <2>2 DEF Check
  <1>12. ASSUME Unlock
         PROVE  TypeInv'
    <2>1. PICK u \in Thread : Switch(u, "none")
      BY <1>12, YieldsEffect DEF Unlock
    <2> QED
      BY <1>12, <2>1, SwitchEffect, GotoType, CallerIsClient DEF TypeInv, Unlock, Labels
  <1>13. ASSUME NEW len \in Nat, Report(len)
         PROVE  /\ usedLen' \in [0..QUEUE_SIZE - 1 -> Nat]
                /\ used' \in 0..IdxMod - 1 /\ seen' \in 0..IdxMod - 1
    <2>1. used + 1 \in Nat /\ seen + 1 \in Nat
      BY DEF TypeInv
    <2>2. used' \in 0..IdxMod - 1 /\ seen' \in 0..IdxMod - 1
      BY <1>13, <2>1, ModRange DEF Report
    <2>3. usedLen' \in [0..QUEUE_SIZE - 1 -> Nat]
      BY <1>13 DEF Report, TypeInv
    <2> QED
      BY <2>2, <2>3
  <1>14. ASSUME DeviceStep
         PROVE  TypeInv'
    <2>1. PICK len \in Nat : Report(len)
      BY <1>14 DEF DeviceStep, DeviceServe, DeviceFail, UsedLen
    <2> QED
      BY <1>13, <1>14, <2>1 DEF DeviceStep, DeviceServe, DeviceFail, Report, TypeInv
  <1>15. ASSUME ExternalTrap \/ ExternalComplete
         PROVE  TypeInv'
    <2>1. trap' \in [Thread -> {"none", "timer", "up", "complete"}]
      BY <1>15 DEF ExternalTrap, ExternalComplete, TypeInv
    <2>2. UNCHANGED <<cur, pc, off, onceVars, lockVars, semaVars, ringVars, deviceVars,
                      dataVars, panic>>
      BY <1>15 DEF ExternalTrap, ExternalComplete
    <2>3. sie' \in BOOLEAN /\ pending' \in BOOLEAN /\ claimed' \in BOOLEAN
      BY <1>15 DEF ExternalTrap, ExternalComplete, TypeInv
    <2> QED
      BY <2>1, <2>2, <2>3 DEF TypeInv
  <1>16. ASSUME ExternalUp
         PROVE  TypeInv'
    <2>1. CASE ~isr \/ (waiters # {} /\ value # 0)
      BY <1>1, <1>16, <2>1 DEF ExternalUp
    <2>2. CASE isr /\ ~(waiters # {} /\ value # 0)
      <3>1. PICK u \in Thread : Switch(u, "complete")
        BY <1>16, <2>2, YieldsEffect DEF ExternalUp, TypeInv
      <3>2. value' \in Nat /\ waiters' \subseteq Thread
        <4>1. value' = value + 1
          BY <1>16, <2>2 DEF ExternalUp
        <4>2. waiters' = waiters \/ \E w \in waiters : waiters' = waiters \ {w}
          BY <1>16, <2>2 DEF ExternalUp
        <4> QED
          BY <4>1, <4>2 DEF TypeInv
      <3>3. UNCHANGED <<pc, off, onceVars, lockVars, ringVars, deviceVars, plicVars,
                        dataVars, panic>>
        BY <1>16, <2>2 DEF ExternalUp
      <3> QED
        BY <3>1, <3>2, <3>3, SwitchEffect DEF TypeInv
    <2> QED
      BY <2>1, <2>2
  <1>17. CASE UNCHANGED vars
    BY <1>17 DEF vars, TypeInv
  <1> QED
    BY <1>2, <1>3, <1>4, <1>5, <1>6, <1>7, <1>8, <1>9, <1>10, <1>11, <1>12, <1>14,
       <1>15, <1>16, <1>17
    DEF Next, ThreadStep, OnceStep, DriverStep, HandlerStep, Halted

-----------------------------------------------------------------------------
(* The steps that move the hart to another thread, from outside any trap.  *)
Switching == trap[cur] = "none"
                 /\ \E u \in Thread, frame \in {"none", "timer"} : Switch(u, frame)

(* Such a step leaves every handler where it is.                           *)
LEMMA SwitchingEffect ==
    ASSUME TypeInv, Switching
    PROVE  /\ \A t \in Thread : /\ trap'[t] = "up" <=> trap[t] = "up"
                                /\ trap'[t] = "complete" <=> trap[t] = "complete"
           /\ sie => sie'
  <1>1. PICK u \in Thread, frame \in {"none", "timer"} : Switch(u, frame)
    BY DEF Switching
  <1> QED
    BY <1>1, SwitchEffect DEF Switching

(* What a step of the interrupt handler's up() does when it does not stop. *)
Upping ==
    /\ trap[cur] = "up" /\ isr /\ (waiters # {} => value = 0)
    /\ value' = value + 1
    /\ \E w : waiters' = waiters \ {w}
    /\ waiters # {} => waiters' # waiters
    /\ \E u \in Thread : Switch(u, "complete")

(* ExternalUp stops, or goes on.                                           *)
LEMMA ExternalUpEffect ==
    ASSUME TypeInv, ExternalUp
    PROVE  \/ Stop("isr") /\ ~isr
           \/ Stop("count") /\ waiters # {} /\ value # 0
           \/ /\ Upping
              /\ UNCHANGED <<pc, off, onceVars, lockVars, ringVars, deviceVars, plicVars,
                             dataVars, panic>>
  <1>1. CASE ~isr \/ (waiters # {} /\ value # 0)
    BY <1>1 DEF ExternalUp
  <1>2. CASE isr /\ ~(waiters # {} /\ value # 0)
    <2>1. PICK u \in Thread : Switch(u, "complete")
      BY <1>2, YieldsEffect DEF ExternalUp, TypeInv
    <2>2. value' = value + 1
      BY <1>2 DEF ExternalUp
    <2>3. (\E w : waiters' = waiters \ {w}) /\ (waiters # {} => waiters' # waiters)
      BY <1>2 DEF ExternalUp, semaVars
    <2>4. UNCHANGED <<pc, off, onceVars, lockVars, ringVars, deviceVars, plicVars,
                      dataVars, panic>>
      BY <1>2 DEF ExternalUp
    <2> QED
      BY <1>2, <2>1, <2>2, <2>3, <2>4 DEF Upping, ExternalUp
  <1> QED
    BY <1>1, <1>2

(* How a step may touch the hart and the claim.                            *)
LEMMA HartSteps ==
    ASSUME TypeInv, [Next]_vars
    PROVE  \/ UNCHANGED <<cur, trap, sie, claimed>>
           \/ Switching /\ UNCHANGED claimed
           \/ Upping /\ UNCHANGED claimed
           \/ ExternalTrap
           \/ ExternalComplete
  <1> USE DEF hartVars, plicVars
  <1>1. ASSUME Yield \/ TimerTrap \/ LockBlock \/ DownBlock \/ Unlock
        PROVE  Switching /\ UNCHANGED claimed
    <2>1. \E u \in Thread, frame \in {"none", "timer"} : Switch(u, frame)
      BY <1>1, YieldsEffect DEF Yield, TimerTrap, LockBlock, DownBlock, Unlock
    <2> QED
      BY <1>1, <2>1
      DEF Switching, Yield, TimerTrap, LockBlock, DownBlock, Unlock, At, Interruptible
  <1>2. ASSUME OnceInit
        PROVE  UNCHANGED <<cur, trap, sie, claimed>> \/ (Switching /\ UNCHANGED claimed)
    <2>1. CASE taken
      BY <1>2, <2>1 DEF OnceInit, Stop
    <2>2. CASE ~taken
      <3>1. \E u \in Thread, frame \in {"none", "timer"} : Switch(u, frame)
        BY <1>2, <2>2, YieldsEffect DEF OnceInit
      <3> QED
        BY <1>2, <2>2, <3>1 DEF Switching, OnceInit, At
    <2> QED
      BY <2>1, <2>2
  <1>3. ASSUME Call \/ OnceCheck \/ OnceTake \/ OnceDone \/ Lock \/ Fill \/ Publish
                    \/ Notify \/ DownTake \/ Check \/ DeviceStep \/ UNCHANGED vars
        PROVE  UNCHANGED <<cur, trap, sie, claimed>>
    BY <1>3 DEF Call, OnceCheck, OnceTake, OnceDone, Lock, Fill, Publish, Notify, DownTake,
                Check, DeviceStep, DeviceServe, DeviceFail, Stop, vars
  <1>4. ASSUME ExternalUp
        PROVE  UNCHANGED <<cur, trap, sie, claimed>> \/ (Upping /\ UNCHANGED claimed)
    BY <1>4, ExternalUpEffect DEF Stop
  <1> QED
    BY <1>1, <1>2, <1>3, <1>4
    DEF Next, ThreadStep, OnceStep, DriverStep, HandlerStep, Halted

(* Every step preserves HandlerInv.                                        *)
LEMMA HandlerKeeps == TypeInv /\ HandlerInv /\ [Next]_vars => HandlerInv'
  <1> SUFFICES ASSUME TypeInv, HandlerInv, [Next]_vars
               PROVE  HandlerInv'
    OBVIOUS
  <1>1. CASE UNCHANGED <<cur, trap, sie, claimed>>
    BY <1>1 DEF HandlerInv, Handles
  <1>2. CASE Switching /\ UNCHANGED claimed
    BY <1>2, SwitchingEffect DEF HandlerInv, Handles
  <1>3. CASE Upping /\ UNCHANGED claimed
    <2>1. PICK u \in Thread : Switch(u, "complete")
      BY <1>3 DEF Upping
    <2>2. \A t \in Thread : Handles(t)' <=> Handles(t)
      BY <1>3, <2>1, SwitchEffect DEF Handles, Upping
    <2>3. sie => sie'
      BY <2>1, SwitchEffect
    <2> QED
      BY <1>3, <2>2, <2>3 DEF HandlerInv
  <1>4. CASE ExternalTrap
    <2>1. \A t \in Thread : Handles(t)' <=> t = cur
      BY <1>4 DEF ExternalTrap, Interruptible, HandlerInv, Handles, TypeInv
    <2>2. claimed'
      BY <1>4 DEF ExternalTrap
    <2> QED
      BY <2>1, <2>2 DEF HandlerInv, TypeInv
  <1>5. CASE ExternalComplete
    <2>1. \A t \in Thread : ~Handles(t)'
      BY <1>5 DEF ExternalComplete, HandlerInv, Handles, TypeInv
    <2>2. ~claimed' /\ sie'
      BY <1>5 DEF ExternalComplete
    <2> QED
      BY <2>1, <2>2 DEF HandlerInv
  <1> QED
    BY <1>1, <1>2, <1>3, <1>4, <1>5, HartSteps

-----------------------------------------------------------------------------
(* The hart does not leave a thread that is in once_init, or in once_done  *)
(* with the driver complete, except by that thread's own steps.            *)
LEMMA OnceStays ==
    ASSUME TypeInv, OnceInv, [Next]_vars,
           pc[cur] = "once_done" => once = "Complete",
           pc[cur] \in {"once_init", "once_done"}, ~OnceInit
    PROVE  UNCHANGED <<cur, trap>>
  <1>1. off[cur] /\ trap[cur] = "none"
    BY DEF OnceInv, TypeInv
  <1>2. ~(Yield \/ Call \/ OnceCheck \/ OnceTake \/ DriverStep)
    BY DEF Yield, Call, OnceCheck, OnceTake, DriverStep, Lock, LockBlock, Fill, Publish,
           Notify, DownTake, DownBlock, Check, Unlock, At
  <1>3. ~(TimerTrap \/ ExternalTrap \/ HandlerStep)
    BY <1>1 DEF TimerTrap, ExternalTrap, HandlerStep, ExternalUp, ExternalComplete,
                Interruptible
  <1>4. OnceDone \/ DeviceStep \/ UNCHANGED vars
    BY <1>2, <1>3 DEF Next, ThreadStep, OnceStep, Halted
  <1> QED
    BY <1>4 DEF OnceDone, DeviceStep, DeviceServe, DeviceFail, Stop, vars, hartVars

(* Every step preserves OnceInv.                                           *)
LEMMA OnceKeeps == TypeInv /\ OnceInv /\ [Next]_vars => OnceInv'
  <1> SUFFICES ASSUME TypeInv, OnceInv, [Next]_vars
               PROVE  OnceInv'
    OBVIOUS
  <1> USE DEF hartVars, onceVars, lockVars, semaVars, ringVars, deviceVars, plicVars,
              dataVars
  <1>1. ASSUME UNCHANGED <<pc, off, onceVars, live>>, ~OnceInit
        PROVE  OnceInv'
    <2>1. ASSUME NEW t \in Thread,
                 \/ pc[t] = "once_init"
                 \/ pc[t] = "once_done" /\ once = "Complete"
          PROVE  t = cur' /\ trap'[t] = "none"
      BY <1>1, <2>1, OnceStays DEF OnceInv
    <2> QED
      BY <1>1, <2>1 DEF OnceInv
  <1>2. ASSUME UNCHANGED <<off, onceVars, live>>, UNCHANGED hartVars,
               NEW l \in Labels \ {"once_init", "once_done"}, Goto(l),
               pc[cur] \notin {"once_init", "once_done"},
               l \in Inside \cup {"lock"} =>
                   pc[cur] \in Inside \cup {"lock"} \/ once = "Complete"
        PROVE  OnceInv'
    <2>1. \A t \in Thread : pc'[t] = IF t = cur THEN l ELSE pc[t]
      BY <1>2 DEF Goto, TypeInv
    <2> QED
      BY <1>2, <2>1 DEF OnceInv, Inside
  <1>3. ASSUME Stop(panic')
        PROVE  OnceInv'
    BY <1>3 DEF Stop, OnceInv
  <1>4. ASSUME OnceTake
        PROVE  OnceInv'
    <2> USE DEF OnceTake, At
    <2>1. level' # NoLevel
      BY <1>4, VirtioAssumption DEF TypeInv
    <2>2. \A t \in Thread : pc'[t] = IF t # cur THEN pc[t]
                                     ELSE IF once = "InComplete" THEN "once_init" ELSE "once_done"
      BY <1>4 DEF Goto, TypeInv
    <2>3. off'[cur] /\ \A t \in Thread \ {cur} : off'[t] = off[t]
      BY <1>4 DEF TypeInv
    <2>4. UNCHANGED <<cur, trap, once, taken, live>> /\ trap[cur] = "none"
      BY <1>4
    <2> QED
      BY <1>4, <2>1, <2>2, <2>3, <2>4 DEF OnceInv, TypeInv, Inside
  <1>5. ASSUME OnceInit
        PROVE  OnceInv'
    <2>1. CASE taken
      BY <1>3, <1>5, <2>1 DEF OnceInit, Stop
    <2>2. CASE ~taken
      <3>1. \A t \in Thread : pc'[t] = IF t = cur THEN "once_done" ELSE pc[t]
        BY <1>5, <2>2 DEF OnceInit, Goto, TypeInv
      <3>2. taken' /\ live' /\ UNCHANGED <<once, level, off>> /\ pc[cur] = "once_init"
        BY <1>5, <2>2 DEF OnceInit, At
      <3> QED
        BY <2>2, <3>1, <3>2 DEF OnceInv, TypeInv, Inside
    <2> QED
      BY <2>1, <2>2
  <1>6. ASSUME OnceDone
        PROVE  OnceInv'
    <2>1. level # NoLevel
      BY <1>6 DEF OnceDone, OnceInv, At, TypeInv
    <2>2. \A t \in Thread : pc'[t] = IF t = cur THEN "lock" ELSE pc[t]
      BY <1>6, <2>1 DEF OnceDone, Goto, TypeInv
    <2>3. /\ level' = NoLevel /\ once' = "Complete" /\ taken' = taken /\ live' = live
          /\ pc[cur] = "once_done"
      BY <1>6, <2>1 DEF OnceDone, At
    <2> QED
      BY <2>2, <2>3 DEF OnceInv, TypeInv, Inside
  <1>7. CASE UNCHANGED vars \/ Yield \/ TimerTrap \/ LockBlock \/ DownBlock \/ ExternalTrap
             \/ ExternalComplete \/ DeviceStep
    <2>1. UNCHANGED <<pc, off, onceVars, live>>
      BY <1>7 DEF vars, Yield, TimerTrap, LockBlock, DownBlock, ExternalTrap,
                  ExternalComplete, DeviceStep, DeviceServe, DeviceFail
    <2> QED
      BY <1>1, <1>5, <2>1
  <1>8. CASE ExternalUp
    BY <1>1, <1>5, <1>8 DEF ExternalUp, Stop
  <1>9. CASE Call
    BY <1>2, <1>9 DEF Call, At, Labels, Inside
  <1>10. CASE OnceCheck
    BY <1>2, <1>3, <1>10 DEF OnceCheck, At, Labels, Inside, Stop
  <1>11. CASE Lock \/ Fill \/ Publish \/ Notify \/ DownTake
    BY <1>2, <1>11 DEF Lock, Fill, Publish, Notify, DownTake, At, Labels, Inside
  <1>12. CASE Check
    BY <1>2, <1>3, <1>12 DEF Check, At, Labels, Inside, Stop
  <1>13. CASE Unlock
    <2>1. \A t \in Thread : pc'[t] = IF t = cur THEN "run" ELSE pc[t]
      BY <1>13 DEF Unlock, Goto, TypeInv
    <2>2. UNCHANGED <<off, onceVars, live>> /\ pc[cur] = "unlock"
      BY <1>13 DEF Unlock, At
    <2> QED
      BY <2>1, <2>2 DEF OnceInv, TypeInv, Inside
  <1> QED
    BY <1>4, <1>5, <1>6, <1>7, <1>8, <1>9, <1>10, <1>11, <1>12, <1>13
    DEF Next, ThreadStep, OnceStep, DriverStep, HandlerStep, Halted

-----------------------------------------------------------------------------
answerVars == <<holder, value, waiters, desc, status, avail, used, usedLen, seen, isr,
                pending>>

(* What the caller's answer rests on is not disturbed by a step that moves *)
(* only threads outside the driver.                                        *)
LEMMA RequestFrame ==
    ASSUME TypeInv, RequestInv, UNCHANGED answerVars, Passing' <=> Passing,
           \A t \in Thread : pc[t] \in Inside \/ pc'[t] \in Inside => pc'[t] = pc[t],
           \A t \in Client : pc[t] \in Inside => req'[t] = req[t]
    PROVE  RequestInv'
  <1>1. Caught' <=> Caught
    BY DEF Caught, answerVars
  <1>2. (Quiet' <=> Quiet) /\ (Posted' <=> Posted)
    BY <1>1 DEF Quiet, Posted, answerVars
  <1>3. ASSUME NEW t \in Thread, desc = t, pc[t] \in Inside
        PROVE  /\ Answered => Answered'
               /\ Reported => Reported'
               /\ Claimed => Claimed'
               /\ Raised => Raised'
               /\ Served => Served'
    <2>1. req'[desc'] = req[desc]
      BY <1>3 DEF answerVars, TypeInv, Inside
    <2>2. Answered => Answered'
      BY <1>1, <2>1 DEF Answered, LastUsed, answerVars
    <2> QED
      BY <2>2 DEF Reported, Claimed, Raised, Served, answerVars
  <1>4. \A t \in Thread : pc'[t] \in Inside <=> t = holder'
    BY DEF RequestInv, answerVars
  <1>5. \A t \in waiters' : pc'[t] = "down"
    BY DEF RequestInv, answerVars, Inside, TypeInv
  <1>6. ASSUME NEW t \in Thread, pc'[t] \in Inside
        PROVE  pc'[t] = pc[t]
    BY <1>6
  <1> QED
    BY <1>2, <1>3, <1>4, <1>5, <1>6 DEF RequestInv, answerVars, Inside

(* A step that leaves the frames alone, or switches, passes nothing on.    *)
LEMMA PassingKept ==
    ASSUME TypeInv, UNCHANGED trap \/ Switching
    PROVE  Passing' <=> Passing
  <1>1. \A t \in Thread : trap'[t] = "up" <=> trap[t] = "up"
    BY SwitchingEffect
  <1> QED
    BY <1>1 DEF Passing

(* The steps by which a call goes on inside the driver.                    *)
LEMMA DriverKeeps ==
    ASSUME TypeInv, RequestInv, Passing' <=> Passing,
           Lock \/ Fill \/ Publish \/ Notify \/ DownTake \/ DownBlock \/ Unlock
    PROVE  RequestInv'
  <1> USE DEF hartVars, onceVars, lockVars, semaVars, ringVars, deviceVars, plicVars,
              dataVars, At
  <1>0. cur \in Client /\ cur # NoThread /\ NoThread \notin Thread
    BY VirtioAssumption, CallerIsClient
    DEF TypeInv, Lock, Fill, Publish, Notify, DownTake, DownBlock, Unlock
  <1>1. ASSUME NEW l \in Labels, Goto(l)
        PROVE  \A t \in Thread : pc'[t] = IF t = cur THEN l ELSE pc[t]
    BY <1>1 DEF Goto, TypeInv
  <1>2. CASE Lock
    <2>1. Quiet' /\ UNCHANGED <<waiters, desc, status>> /\ holder' = cur
      BY <1>2 DEF Lock, Quiet, Caught, RequestInv
    <2>2. \A t \in Thread : pc'[t] = IF t = cur THEN "fill" ELSE pc[t]
      BY <1>1, <1>2 DEF Lock, Labels
    <2> QED
      BY <1>0, <1>2, <2>1, <2>2 DEF Lock, RequestInv, Inside, TypeInv
  <1>3. CASE Fill
    <2>1. Quiet' /\ UNCHANGED <<waiters, holder>> /\ desc' = cur /\ status' = "fresh"
      BY <1>3 DEF Fill, Quiet, Caught, RequestInv, TypeInv
    <2>2. \A t \in Thread : pc'[t] = IF t = cur THEN "publish" ELSE pc[t]
      BY <1>1, <1>3 DEF Fill, Labels
    <2> QED
      BY <1>0, <1>3, <2>1, <2>2 DEF Fill, RequestInv, Inside, TypeInv
  <1>4. CASE Publish
    <2>1. Posted' /\ UNCHANGED <<waiters, holder>> /\ desc' = cur
      BY <1>4 DEF Publish, Quiet, Caught, Posted, RequestInv, TypeInv
    <2>2. \A t \in Thread : pc'[t] = IF t = cur THEN "notify" ELSE pc[t]
      BY <1>1, <1>4 DEF Publish, Labels
    <2> QED
      BY <1>0, <1>4, <2>1, <2>2 DEF Publish, RequestInv, Inside, TypeInv
  <1>5. CASE Notify
    <2>1. UNCHANGED answerVars /\ UNCHANGED req
      BY <1>5 DEF Notify, answerVars
    <2>2. \A t \in Thread : pc'[t] = IF t = cur THEN "down" ELSE pc[t]
      BY <1>1, <1>5 DEF Notify, Labels
    <2>3. desc' = cur /\ (Posted' \/ Reported' \/ Claimed' \/ Raised')
      BY <1>5, <2>1 DEF Notify, answerVars, RequestInv, Posted, Reported, Claimed, Raised,
                        Answered, Caught, LastUsed, TypeInv
    <2> QED
      BY <1>0, <1>5, <2>1, <2>2, <2>3 DEF Notify, answerVars, RequestInv, Inside, TypeInv
  <1>6. CASE DownTake
    <2>1. desc = cur /\ Raised
      BY <1>6 DEF DownTake, RequestInv, TypeInv, Posted, Reported, Claimed
    <2>2. desc' = cur /\ Served' /\ waiters' = {} /\ holder' = holder
      BY <1>6, <2>1 DEF DownTake, Raised, Served, Answered, Caught, LastUsed
    <2>3. \A t \in Thread : pc'[t] = IF t = cur THEN "check" ELSE pc[t]
      BY <1>1, <1>6 DEF DownTake, Labels
    <2> QED
      BY <1>0, <1>6, <2>2, <2>3 DEF DownTake, RequestInv, Inside, TypeInv
  <1>7. CASE DownBlock
    <2>1. UNCHANGED <<pc, req, holder, value, desc, status, avail, used, usedLen, seen, isr, pending>>
      BY <1>7 DEF DownBlock
    <2>2. desc = cur /\ (Posted \/ Reported \/ Claimed)
      BY <1>7 DEF DownBlock, RequestInv, Raised, TypeInv
    <2>3. desc' = cur /\ (Posted' \/ Reported' \/ Claimed')
      BY <2>1, <2>2 DEF Posted, Reported, Claimed, Answered, Caught, LastUsed
    <2>4. \A t \in waiters' : pc'[t] = "down"
      BY <1>7, <2>1 DEF DownBlock, RequestInv
    <2> QED
      BY <1>0, <1>7, <2>1, <2>3, <2>4 DEF DownBlock, RequestInv, Inside, TypeInv
  <1>8. CASE Unlock
    <2>1. Quiet' /\ UNCHANGED waiters /\ holder' = NoThread
      BY <1>8 DEF Unlock, Quiet, Caught, RequestInv, TypeInv
    <2>2. \A t \in Thread : pc'[t] = IF t = cur THEN "run" ELSE pc[t]
      BY <1>1, <1>8 DEF Unlock, Labels
    <2> QED
      BY <1>0, <1>8, <2>1, <2>2 DEF Unlock, RequestInv, Inside, TypeInv
  <1> QED
    BY <1>2, <1>3, <1>4, <1>5, <1>6, <1>7, <1>8

(* Who holds the driver, and what stage its request can be in.             *)
LEMMA HolderStage ==
    ASSUME TypeInv, RequestInv, holder # NoThread
    PROVE  /\ holder \in Client /\ holder \in Thread
           /\ pc[holder] \in Inside
           /\ Quiet \/ pc[holder] \in {"notify", "down", "check"}
  BY VirtioAssumption DEF TypeInv, RequestInv, Inside

(* Check stops only at an error that the device has reported; otherwise it *)
(* acknowledges the interrupt and leaves nothing behind.                   *)
LEMMA CheckEffect ==
    ASSUME TypeInv, RequestInv, Check
    PROVE  \/ Stop("status") /\ status = "ioerr"
           \/ /\ status = "ok" /\ isr' = FALSE /\ Goto("unlock")
              /\ UNCHANGED <<hartVars, off, onceVars, lockVars, semaVars, ringVars, live, seen,
                             notified, plicVars, dataVars, panic>>
  <1>1. cur \in Thread /\ pc[cur] = "check"
    BY DEF TypeInv, Check, At
  <1>2. desc = cur /\ Served
    BY <1>1 DEF RequestInv
  <1>3. status = "ok" => usedLen[LastUsed] = UsedLen(req[cur])
    BY <1>2 DEF Served, Answered
  <1>4. status \in {"ok", "ioerr"}
    BY <1>2 DEF Served, Answered, TypeInv
  <1> QED
    BY <1>3, <1>4 DEF Check

(* The device reports the one request that is posted.                      *)
LEMMA DeviceReports ==
    ASSUME TypeInv, RequestInv, DeviceStep
    PROVE  /\ holder \in Client /\ desc = holder /\ pc[holder] \in {"notify", "down"}
           /\ Posted /\ seen' = avail /\ used' = avail
  <1>1. seen # avail
    BY DEF DeviceStep, DeviceServe, DeviceFail
  <1>2. ~Caught
    BY <1>1 DEF Caught
  <1>3. holder # NoThread
    BY <1>2 DEF RequestInv, Quiet
  <1>4. holder \in Client /\ desc = holder /\ pc[holder] \in {"notify", "down"} /\ Posted
    BY <1>2, <1>3, HolderStage
    DEF RequestInv, Quiet, Reported, Claimed, Raised, Served, Answered
  <1>5. seen' = avail /\ used' = avail
    BY <1>4 DEF DeviceStep, DeviceServe, DeviceFail, Report, Posted
  <1> QED
    BY <1>4, <1>5

(* A step of the device leaves a report of its own request.                *)
LEMMA DeviceKeeps ==
    ASSUME TypeInv, RequestInv, DeviceStep
    PROVE  RequestInv'
  <1> USE DEF hartVars, onceVars, lockVars, semaVars, ringVars, deviceVars, plicVars,
              dataVars
  <1>1. /\ holder \in Client /\ desc = holder /\ pc[holder] \in {"notify", "down"}
        /\ Posted /\ seen' = avail /\ used' = avail
    BY DeviceReports
  <1>2. UNCHANGED <<pc, trap, holder, value, waiters, desc, avail, req>>
    BY DEF DeviceStep, DeviceServe, DeviceFail
  <1>3. PICK len \in {1, 513} : Report(len) /\ (status' = "ok" => len = UsedLen(req[desc]))
                                            /\ status' \in {"ok", "ioerr"}
    BY DEF DeviceStep, DeviceServe, DeviceFail, UsedLen
  <1>4. LastUsed' = used % QUEUE_SIZE
    BY <1>3, IndexReturns DEF LastUsed, Report, TypeInv
  <1>5. usedLen'[LastUsed'] = len
    <2>1. used % QUEUE_SIZE \in 0..QUEUE_SIZE - 1
      BY ModRange, VirtioAssumption DEF TypeInv
    <2> QED
      BY <1>3, <1>4, <2>1 DEF Report, TypeInv
  <1>6. isr' /\ pending'
    BY <1>3 DEF Report
  <1>7. Answered'
    BY <1>1, <1>2, <1>3, <1>5, <1>6 DEF Answered, Caught, UsedLen
  <1>8. Reported'
    BY <1>1, <1>2, <1>6, <1>7 DEF Reported, Posted, Passing
  <1> QED
    BY <1>1, <1>2, <1>8, VirtioAssumption DEF RequestInv, Inside, TypeInv

(* An interrupt is taken when a report is out, and passed on once: up()    *)
(* finds INTERRUPT_STATUS set and the semaphore at 0.                      *)
LEMMA TrapKeeps ==
    ASSUME TypeInv, RequestInv, HandlerInv, ExternalTrap
    PROVE  RequestInv'
  <1> USE DEF hartVars, onceVars, lockVars, semaVars, ringVars, deviceVars, plicVars,
              dataVars
  <1>1. pending /\ ~pending' /\ trap'[cur] = "up"
    BY DEF ExternalTrap, TypeInv
  <1>2. UNCHANGED <<pc, holder, value, waiters, desc, status, avail, used, usedLen, seen, isr,
                    req>>
    BY DEF ExternalTrap
  <1>3. holder # NoThread
    BY <1>1 DEF RequestInv, Quiet
  <1>4. /\ holder \in Client /\ desc = holder /\ pc[holder] \in {"notify", "down"}
        /\ Reported
    BY <1>1, <1>3, HolderStage DEF RequestInv, Quiet, Posted, Claimed, Raised, Served
  <1>5. Passing'
    BY <1>1 DEF Passing, TypeInv
  <1>6. Claimed'
    BY <1>1, <1>2, <1>4, <1>5 DEF Reported, Claimed, Answered, Caught, LastUsed
  <1> QED
    BY <1>2, <1>4, <1>6, VirtioAssumption DEF RequestInv, Inside, TypeInv

(* A thread with the handler before up() on its stack shows that the claim *)
(* has not been passed on.                                                 *)
LEMMA UpStage ==
    ASSUME TypeInv, RequestInv, trap[cur] = "up"
    PROVE  /\ holder \in Client /\ desc = holder /\ pc[holder] \in {"notify", "down"}
           /\ Claimed
  <1>1. Passing
    BY DEF Passing, TypeInv
  <1>2. holder # NoThread
    BY <1>1 DEF RequestInv, Quiet
  <1> QED
    BY <1>1, <1>2, HolderStage DEF RequestInv, Quiet, Posted, Reported, Raised, Served

(* up() passes the interrupt on to the caller that waits, or will.         *)
LEMMA UpKeeps ==
    ASSUME TypeInv, RequestInv, HandlerInv, Upping,
           UNCHANGED <<pc, off, onceVars, lockVars, ringVars, deviceVars, plicVars, dataVars,
                       panic>>
    PROVE  RequestInv'
  <1> USE DEF onceVars, lockVars, ringVars, deviceVars, plicVars, dataVars
  <1>1. /\ holder \in Client /\ desc = holder /\ pc[holder] \in {"notify", "down"}
        /\ Claimed
    BY UpStage DEF Upping
  <1>2. value' = 1
    BY <1>1 DEF Upping, Claimed
  <1>3. waiters' = {}
    <2>1. \A t \in waiters : t = holder
      BY DEF RequestInv, Inside, TypeInv
    <2> QED
      BY <2>1 DEF Upping
  <1>4. ~Passing'
    <2>1. PICK u \in Thread : Switch(u, "complete")
      BY DEF Upping
    <2>2. \A t \in Thread \ {cur} : trap[t] # "up"
      BY DEF HandlerInv, Handles, Upping, TypeInv
    <2> QED
      BY <2>1, <2>2, SwitchEffect DEF Passing
  <1>5. Raised'
    BY <1>1, <1>2, <1>3, <1>4 DEF Claimed, Raised, Answered, Caught, LastUsed
  <1> QED
    BY <1>1, <1>3, <1>5, VirtioAssumption DEF RequestInv, Inside, TypeInv

(* Every step preserves RequestInv.                                        *)
LEMMA RequestKeeps == TypeInv /\ HandlerInv /\ RequestInv /\ [Next]_vars => RequestInv'
  <1> SUFFICES ASSUME TypeInv, HandlerInv, RequestInv, [Next]_vars
               PROVE  RequestInv'
    OBVIOUS
  <1> USE DEF hartVars, onceVars, lockVars, semaVars, ringVars, deviceVars, plicVars,
              dataVars
  <1>1. ASSUME NEW p, Stop(p)
        PROVE  RequestInv'
    BY <1>1, RequestFrame, PassingKept DEF Stop, answerVars
  <1>2. ASSUME Lock \/ Fill \/ Publish \/ Notify \/ DownTake \/ DownBlock \/ Unlock
        PROVE  RequestInv'
    <2>1. UNCHANGED trap \/ Switching
      <3>1. CASE Lock \/ Fill \/ Publish \/ Notify \/ DownTake
        BY <3>1 DEF Lock, Fill, Publish, Notify, DownTake
      <3>2. CASE DownBlock \/ Unlock
        <4>1. PICK u \in Thread : Switch(u, "none")
          BY <3>2, YieldsEffect DEF DownBlock, Unlock
        <4> QED
          BY <3>2, <4>1 DEF DownBlock, Unlock, At, Switching
      <3> QED
        BY <1>2, <3>1, <3>2
    <2> QED
      BY <1>2, <2>1, DriverKeeps, PassingKept
  <1>3. ASSUME Yield \/ TimerTrap \/ LockBlock
        PROVE  RequestInv'
    <2>1. PICK u \in Thread, frame \in {"none", "timer"} : Switch(u, frame)
      BY <1>3, YieldsEffect DEF Yield, TimerTrap, LockBlock
    <2>2. Switching
      BY <1>3, <2>1 DEF Yield, TimerTrap, LockBlock, At, Interruptible, Switching
    <2>3. UNCHANGED answerVars /\ UNCHANGED <<pc, req>>
      BY <1>3 DEF Yield, TimerTrap, LockBlock, answerVars
    <2> QED
      BY <2>2, <2>3, RequestFrame, PassingKept
  <1>4. ASSUME Call
        PROVE  RequestInv'
    <2>1. UNCHANGED answerVars /\ UNCHANGED trap /\ pc[cur] = "run"
      BY <1>4 DEF Call, answerVars, At
    <2>2. \A t \in Thread \ {cur} : pc'[t] = pc[t]
      BY <1>4 DEF Call, Goto, TypeInv
    <2>3. pc'[cur] \notin Inside
      BY <1>4 DEF Call, Goto, TypeInv, Inside
    <2>4. \A t \in Client \ {cur} : req'[t] = req[t]
      BY <1>4 DEF Call, TypeInv
    <2> QED
      BY <2>1, <2>2, <2>3, <2>4, RequestFrame, PassingKept DEF Inside
  <1>5. ASSUME NEW l \in Labels \ Inside, Goto(l), pc[cur] \notin Inside,
               UNCHANGED answerVars, UNCHANGED <<req, trap>> \/ (UNCHANGED req /\ Switching)
        PROVE  RequestInv'
    <2>1. \A t \in Thread : pc'[t] = IF t = cur THEN l ELSE pc[t]
      BY <1>5 DEF Goto, TypeInv
    <2> QED
      BY <1>5, <2>1, RequestFrame, PassingKept
  <1>6. ASSUME OnceCheck \/ OnceTake \/ OnceDone
        PROVE  RequestInv'
    BY <1>1, <1>5, <1>6
    DEF OnceCheck, OnceTake, OnceDone, At, answerVars, Labels, Inside
  <1>7. ASSUME OnceInit
        PROVE  RequestInv'
    <2>1. CASE taken
      BY <1>1, <1>7, <2>1 DEF OnceInit
    <2>2. CASE ~taken
      <3>1. PICK u \in Thread : Switch(u, "none")
        BY <1>7, <2>2, YieldsEffect DEF OnceInit
      <3>2. Switching
        BY <1>7, <3>1 DEF Switching, OnceInit, At
      <3> QED
        BY <1>5, <1>7, <2>2, <3>2 DEF OnceInit, At, answerVars, Labels, Inside
    <2> QED
      BY <2>1, <2>2
  <1>8. ASSUME Check
        PROVE  RequestInv'
    <2>1. CASE Stop("status")
      BY <1>1, <2>1
    <2>2. CASE /\ status = "ok" /\ isr' = FALSE /\ Goto("unlock")
               /\ UNCHANGED <<hartVars, off, onceVars, lockVars, semaVars, ringVars, live,
                              seen, notified, plicVars, dataVars, panic>>
      <3>1. pc[cur] = "check" /\ cur \in Thread
        BY <1>8 DEF Check, At, TypeInv
      <3>2. desc = cur /\ Served
        BY <3>1 DEF RequestInv
      <3>3. Quiet' /\ desc' = cur /\ status' = "ok" /\ UNCHANGED <<holder, waiters>>
        BY <2>2, <3>2 DEF Served, Answered, Quiet, Caught, Passing
      <3>4. \A t \in Thread : pc'[t] = IF t = cur THEN "unlock" ELSE pc[t]
        BY <2>2 DEF Goto, TypeInv
      <3> QED
        BY <3>1, <3>3, <3>4, VirtioAssumption DEF RequestInv, Inside, TypeInv
    <2> QED
      BY <1>8, <2>1, <2>2, CheckEffect
  <1>9. ASSUME ExternalComplete
        PROVE  RequestInv'
    <2>1. \A t \in Thread : trap'[t] = "up" <=> trap[t] = "up"
      BY <1>9 DEF ExternalComplete, TypeInv
    <2>2. Passing' <=> Passing
      BY <2>1 DEF Passing
    <2> QED
      BY <1>9, <2>2, RequestFrame DEF ExternalComplete, answerVars
  <1>10. ASSUME ExternalUp
         PROVE  RequestInv'
    BY <1>1, <1>10, ExternalUpEffect, UpKeeps
  <1>11. CASE UNCHANGED vars
    BY <1>11, RequestFrame, PassingKept DEF vars, answerVars
  <1> QED
    BY <1>2, <1>3, <1>4, <1>6, <1>7, <1>8, <1>9, <1>10, <1>11, DeviceKeeps, TrapKeeps
    DEF Next, ThreadStep, OnceStep, DriverStep, HandlerStep, Halted

-----------------------------------------------------------------------------
(* How the kernel may stop.                                                *)
LEMMA Stops ==
    ASSUME TypeInv, RequestInv, OnceInv, [Next]_vars
    PROVE  \/ panic = "none" /\ panic' = "none"
           \/ UNCHANGED vars
           \/ Stop("held") /\ pc[cur] = "once_check" /\ level # NoLevel
           \/ Stop("taken") /\ pc[cur] = "once_init" /\ taken
           \/ Stop("status") /\ status = "ioerr"
  <1> USE DEF At
  <1>1. CASE Yield \/ Call \/ OnceTake \/ Lock \/ LockBlock \/ Fill \/ Publish \/ Notify
             \/ DownTake \/ DownBlock \/ Unlock
    BY <1>1 DEF Yield, Call, OnceTake, Lock, LockBlock, Fill, Publish, Notify, DownTake,
                DownBlock, Unlock
  <1>2. CASE OnceCheck \/ OnceInit
    BY <1>2 DEF OnceCheck, OnceInit
  <1>3. CASE OnceDone
    <2>1. level # NoLevel
      BY <1>3 DEF OnceDone, OnceInv, TypeInv
    <2> QED
      BY <1>3, <2>1 DEF OnceDone
  <1>4. CASE Check
    <2>1. panic = "none"
      BY <1>4 DEF Check
    <2> QED
      BY <1>4, <2>1, CheckEffect
  <1>5. CASE TimerTrap \/ ExternalTrap \/ ExternalComplete \/ DeviceStep
    BY <1>5 DEF TimerTrap, ExternalTrap, ExternalComplete, DeviceStep, DeviceServe,
                DeviceFail, Interruptible
  <1>6. CASE ExternalUp
    <2>1. panic = "none" /\ trap[cur] = "up"
      BY <1>6 DEF ExternalUp
    <2>2. isr /\ value = 0
      BY <2>1, UpStage DEF Claimed, Answered
    <2> QED
      BY <1>6, <2>1, <2>2, ExternalUpEffect
  <1> QED
    BY <1>1, <1>2, <1>3, <1>4, <1>5, <1>6
    DEF Next, ThreadStep, OnceStep, DriverStep, HandlerStep, Halted

(* Every step preserves what is said of panics.                            *)
LEMMA PanicKeeps ==
    ASSUME VirtioInv, [Next]_vars, OnceInv'
    PROVE  DriverAssertions' /\ LazyOnce'
  <1> USE DEF VirtioInv
  <1>1. \A t \in Thread : pc'[t] \in {"lock", "fill", "publish", "notify", "down"} =>
            live' /\ once' = "Complete"
    BY DEF OnceInv, Inside
  <1>2. CASE panic = "none" /\ panic' = "none"
    BY <1>1, <1>2 DEF DriverAssertions, LazyOnce
  <1>3. CASE UNCHANGED vars
    BY <1>1, <1>3 DEF DriverAssertions, LazyOnce, vars, hartVars, onceVars, ringVars
  <1>4. CASE Stop("held") /\ pc[cur] = "once_check" /\ level # NoLevel
    <2>1. PICK t \in Thread : pc[t] \in {"once_init", "once_done"}
      BY <1>4 DEF OnceInv
    <2>2. pc[t] = "once_done" /\ t # cur /\ once = "InComplete"
      BY <1>4, <2>1 DEF OnceInv, TypeInv
    <2>3. panic' = "held" /\ UNCHANGED <<cur, pc, once>>
      BY <1>4 DEF Stop, hartVars, onceVars
    <2> QED
      BY <1>1, <2>2, <2>3 DEF DriverAssertions, LazyOnce
  <1>5. CASE Stop("taken") /\ pc[cur] = "once_init" /\ taken
    <2>1. once = "InComplete"
      BY <1>5 DEF OnceInv, TypeInv
    <2>2. PICK t \in Thread : pc[t] = "once_done"
      BY <1>5, <2>1 DEF OnceInv
    <2>3. panic' = "taken" /\ UNCHANGED <<cur, pc, once>>
      BY <1>5 DEF Stop, hartVars, onceVars
    <2> QED
      BY <1>1, <1>5, <2>1, <2>2, <2>3 DEF DriverAssertions, LazyOnce
  <1>6. CASE Stop("status") /\ status = "ioerr"
    BY <1>1, <1>6 DEF Stop, DriverAssertions, LazyOnce, ringVars
  <1> QED
    BY <1>2, <1>3, <1>4, <1>5, <1>6, Stops

(* The invariant holds at first.                                           *)
LEMMA InitHolds == Init => VirtioInv
  <1> SUFFICES ASSUME Init
               PROVE  VirtioInv
    OBVIOUS
  <1> USE VirtioAssumption DEF Init
  <1>1. TypeInv
    <2>1. /\ avail \in 0..IdxMod - 1 /\ used \in 0..IdxMod - 1 /\ seen \in 0..IdxMod - 1
          /\ usedLen \in [0..QUEUE_SIZE - 1 -> Nat]
      OBVIOUS
    <2>2. /\ pc \in [Thread -> Labels] /\ off \in [Thread -> BOOLEAN]
          /\ trap \in [Thread -> {"none", "timer", "up", "complete"}]
          /\ req \in [Client -> Request \cup {None}]
          /\ \A t \in Thread : pc[t] # "run" => t \in Client
      BY DEF Labels
    <2>3. /\ sie \in BOOLEAN /\ taken \in BOOLEAN /\ live \in BOOLEAN /\ notified \in BOOLEAN
          /\ isr \in BOOLEAN /\ pending \in BOOLEAN /\ claimed \in BOOLEAN
      OBVIOUS
    <2> QED
      BY <2>1, <2>2, <2>3 DEF TypeInv
  <1>2. OnceInv /\ HandlerInv
    BY DEF OnceInv, HandlerInv, Handles, Inside
  <1>3. RequestInv
    BY DEF RequestInv, Quiet, Caught, Passing, Inside
  <1>4. DriverAssertions /\ LazyOnce
    BY DEF DriverAssertions, LazyOnce
  <1> QED
    BY <1>1, <1>2, <1>3, <1>4 DEF VirtioInv

(* VirtioInv is an inductive invariant of the driver with its Lazy cell,   *)
(* device, interrupt controller and handler.                               *)
THEOREM VirtioInvariant == Spec => []VirtioInv
  <1>1. VirtioInv /\ [Next]_vars => VirtioInv'
    BY TypeKeeps, HandlerKeeps, OnceKeeps, RequestKeeps, PanicKeeps DEF VirtioInv
  <1> QED
    BY InitHolds, <1>1, PTL DEF Spec

(* Of the driver's assertions only the one on the status byte can fail,    *)
(* and only after an error of the device.                                  *)
THEOREM AssertionsHold == Spec => []DriverAssertions
  <1>1. VirtioInv => DriverAssertions
    BY DEF VirtioInv
  <1> QED
    BY <1>1, VirtioInvariant, PTL

(* Lazy runs its closure once, shows the driver to nobody before that, and *)
(* stops the kernel only when a thread was switched out inside it.         *)
THEOREM LazyRunsOnce == Spec => []LazyOnce
  <1>1. VirtioInv => LazyOnce
    BY DEF VirtioInv
  <1> QED
    BY <1>1, VirtioInvariant, PTL

(* When nobody holds the driver no interrupt, no permit of the semaphore   *)
(* and no entry of the rings is left over from an earlier request.         *)
THEOREM NothingLeftOver == Spec => []QuietWhenFree
  <1>1. VirtioInv => QuietWhenFree
    <2> SUFFICES ASSUME VirtioInv, holder = NoThread
                 PROVE  /\ value = 0 /\ waiters = {} /\ ~isr /\ ~pending
                        /\ \A t \in Thread : trap[t] # "up"
                        /\ seen = avail /\ used = avail
      BY DEF QuietWhenFree
    <2>1. Quiet
      BY DEF VirtioInv, RequestInv
    <2>2. waiters = {}
      BY VirtioAssumption DEF VirtioInv, RequestInv, TypeInv, Inside
    <2> QED
      BY <2>1, <2>2 DEF Quiet, Caught, Passing
  <1> QED
    BY <1>1, VirtioInvariant, PTL

(* sstatus.SIE is off only while a claimed interrupt is not completed, and *)
(* an interrupt is claimed just as long as a handler is on some stack.     *)
THEOREM MaskedOnlyWhileClaimed == Spec => []MaskedUntilCompletion
  <1>1. VirtioInv => MaskedUntilCompletion
    BY DEF VirtioInv, HandlerInv, Handles, MaskedUntilCompletion
  <1> QED
    BY <1>1, VirtioInvariant, PTL

-----------------------------------------------------------------------------
(* The phases of a call, label by label.                                   *)
Posting == {"publish", "notify", "down", "check", "unlock"}

(* What Phase says of a client, in this state and in the next.             *)
LEMMA PhaseValue ==
    ASSUME NEW c \in Client
    PROVE  /\ pc[c] = "run" => Phase[c] = "idle"
           /\ pc[c] \in Posting /\ status = "ok" => Phase[c] = "done"
           /\ pc[c] # "run" /\ ~(pc[c] \in Posting /\ status = "ok") => Phase[c] = "called"
           /\ pc'[c] = "run" => Phase'[c] = "idle"
           /\ pc'[c] \in Posting /\ status' = "ok" => Phase'[c] = "done"
           /\ pc'[c] # "run" /\ ~(pc'[c] \in Posting /\ status' = "ok") =>
                  Phase'[c] = "called"
  BY DEF Phase, Posting

(* A step that moves nobody in or out of a phase is a stutter of the       *)
(* sector disk if it leaves the data alone.                                *)
LEMMA PhaseKept ==
    ASSUME UNCHANGED dataVars, \A c \in Client : Phase'[c] = Phase[c]
    PROVE  UNCHANGED Atomic!absVars
  <1>1. Phase' = Phase
    BY DEF Phase
  <1> QED
    BY <1>1 DEF dataVars, Atomic!absVars

(* One client moves from a phase to the next.                              *)
LEMMA PhaseMoves ==
    ASSUME NEW c \in Client, NEW p, Phase'[c] = p,
           \A d \in Client \ {c} : Phase'[d] = Phase[d]
    PROVE  Phase' = [Phase EXCEPT ![c] = p]
  BY DEF Phase

(* The first state is one of the sector disk.                              *)
LEMMA AtomicInit == Init => Atomic!Init
  <1> SUFFICES ASSUME Init
               PROVE  Atomic!Init
    OBVIOUS
  <1>1. Phase = [c \in Client |-> "idle"]
    BY VirtioAssumption DEF Init, Phase
  <1> QED
    BY <1>1 DEF Init, Atomic!Init

(* Every step of the driver, the handler or the device is a step of the    *)
(* sector disk or a stutter: Call invokes, DeviceServe performs, Unlock    *)
(* responds.                                                               *)
LEMMA AtomicStep ==
    ASSUME VirtioInv, [Next]_vars
    PROVE  [Atomic!Next]_(Atomic!absVars)
  <1> USE VirtioAssumption
          DEF VirtioInv, hartVars, onceVars, lockVars, semaVars, ringVars, deviceVars,
              plicVars, dataVars
  <1>1. ASSUME UNCHANGED <<pc, status, disk, req, buf>>
        PROVE  UNCHANGED Atomic!absVars
    <2>1. \A c \in Client : Phase'[c] = Phase[c]
      BY <1>1 DEF Phase
    <2> QED
      BY <1>1, <2>1, PhaseKept
  <1>2. ASSUME NEW l \in Labels, Goto(l), UNCHANGED <<status, disk, req, buf>>,
               pc[cur] # "run", l # "run", pc[cur] \in Posting <=> l \in Posting
        PROVE  UNCHANGED Atomic!absVars
    <2>1. \A t \in Thread : pc'[t] = IF t = cur THEN l ELSE pc[t]
      BY <1>2 DEF Goto, TypeInv
    <2>2. \A c \in Client : Phase'[c] = Phase[c]
      BY <1>2, <2>1, PhaseValue DEF TypeInv
    <2> QED
      BY <1>2, <2>2, PhaseKept
  <1>3. CASE Call
    <2>1. cur \in Client /\ pc[cur] = "run" /\ UNCHANGED <<disk, buf, status>>
      BY <1>3 DEF Call, At
    <2>2. PICK l \in {"lock", "once_check"} : Goto(l)
      BY <1>3 DEF Call
    <2>3. \A t \in Thread : pc'[t] = IF t = cur THEN l ELSE pc[t]
      BY <2>2 DEF Goto, TypeInv
    <2>4. Phase[cur] = "idle" /\ Phase'[cur] = "called"
      BY <2>1, <2>3, PhaseValue DEF TypeInv, Posting
    <2>5. \A d \in Client \ {cur} : Phase'[d] = Phase[d]
      BY <2>1, <2>3 DEF Phase
    <2>6. Phase' = [Phase EXCEPT ![cur] = "called"]
      BY <2>1, <2>4, <2>5, PhaseMoves
    <2>7. \E r \in Request : req' = [req EXCEPT ![cur] = r]
      BY <1>3, <2>1 DEF Call
    <2> QED
      BY <2>1, <2>4, <2>6, <2>7 DEF Atomic!Next, Atomic!Invoke
  <1>4. CASE Unlock
    <2>1. cur \in Client /\ pc[cur] = "unlock" /\ UNCHANGED <<disk, status>>
      BY <1>4, CallerIsClient DEF Unlock, At
    <2>2. status = "ok"
      BY <2>1 DEF RequestInv, TypeInv
    <2>3. \A t \in Thread : pc'[t] = IF t = cur THEN "run" ELSE pc[t]
      BY <1>4 DEF Unlock, Goto, TypeInv
    <2>4. Phase[cur] = "done" /\ Phase'[cur] = "idle"
      BY <2>1, <2>2, <2>3, PhaseValue DEF TypeInv, Posting
    <2>5. \A d \in Client \ {cur} : Phase'[d] = Phase[d]
      BY <2>1, <2>3 DEF Phase
    <2>6. Phase' = [Phase EXCEPT ![cur] = "idle"]
      BY <2>1, <2>4, <2>5, PhaseMoves
    <2> QED
      BY <1>4, <2>1, <2>4, <2>6 DEF Unlock, Atomic!Next, Atomic!Respond
  <1>5. CASE Fill
    <2>1. /\ \A t \in Thread : pc'[t] = IF t = cur THEN "publish" ELSE pc[t]
          /\ pc[cur] = "fill" /\ status' = "fresh" /\ UNCHANGED dataVars
      BY <1>5 DEF Fill, Goto, At, TypeInv
    <2>2. \A t \in Thread \ {cur} : pc[t] \notin Inside
      BY <2>1 DEF RequestInv, TypeInv, Inside
    <2>3. \A c \in Client : Phase'[c] = Phase[c]
      BY <2>1, <2>2, PhaseValue DEF Inside, Posting
    <2> QED
      BY <2>1, <2>3, PhaseKept
  <1>6. ASSUME DeviceStep
        PROVE  /\ desc \in Client /\ pc[desc] \in Posting /\ status = "fresh"
               /\ UNCHANGED <<pc, req>>
               /\ \A d \in Client \ {desc} : Phase'[d] = Phase[d]
    <2>1. holder \in Client /\ desc = holder /\ pc[desc] \in Posting /\ status = "fresh"
      BY <1>6, DeviceReports DEF Posted, Posting
    <2>2. UNCHANGED <<pc, req>>
      BY <1>6 DEF DeviceStep, DeviceServe, DeviceFail
    <2>3. \A d \in Client \ {desc} : pc[d] \notin Posting
      BY <2>1 DEF RequestInv, Inside, Posting
    <2>4. \A d \in Client \ {desc} : Phase'[d] = Phase[d]
      BY <2>2, <2>3, PhaseValue
    <2> QED
      BY <2>1, <2>2, <2>4
  <1>7. CASE DeviceFail
    <2>1. status' = "ioerr" /\ UNCHANGED dataVars
      BY <1>7 DEF DeviceFail
    <2>2. Phase'[desc] = Phase[desc]
      BY <1>6, <1>7, <2>1, PhaseValue DEF DeviceStep, Posting
    <2> QED
      BY <1>6, <1>7, <2>1, <2>2, PhaseKept DEF DeviceStep
  <1>8. CASE DeviceServe
    <2>1. status' = "ok"
      BY <1>8 DEF DeviceServe
    <2>2. desc \in Client /\ Phase[desc] = "called" /\ Phase'[desc] = "done"
      BY <1>6, <1>8, <2>1, PhaseValue DEF DeviceStep, Posting
    <2>3. Phase' = [Phase EXCEPT ![desc] = "done"]
      BY <1>6, <1>8, <2>2, PhaseMoves DEF DeviceStep
    <2> QED
      BY <1>8, <2>2, <2>3 DEF DeviceServe, Atomic!Next, Atomic!Perform
  <1>9. CASE OnceCheck \/ OnceTake \/ OnceInit \/ OnceDone \/ Lock \/ Publish
              \/ Notify \/ DownTake
    BY <1>1, <1>2, <1>9 DEF OnceCheck, OnceTake, OnceInit, OnceDone, Lock, Publish, Notify,
                             DownTake, At, Stop, Labels, Posting
  <1>10. CASE Check
    BY <1>1, <1>2, <1>10, CheckEffect DEF Check, At, Stop, Labels, Posting
  <1>11. CASE Yield \/ TimerTrap \/ LockBlock \/ DownBlock \/ ExternalTrap \/ ExternalUp
              \/ ExternalComplete \/ UNCHANGED vars
    BY <1>1, <1>11 DEF Yield, TimerTrap, LockBlock, DownBlock, ExternalTrap, ExternalUp,
                       ExternalComplete, Stop, vars
  <1> QED
    BY <1>3, <1>4, <1>5, <1>7, <1>8, <1>9, <1>10, <1>11
    DEF Next, ThreadStep, OnceStep, DriverStep, HandlerStep, DeviceStep, Halted

(* read_sector() and write_sector() are atomic: the driver with its Lazy   *)
(* cell, rings, device and interrupts implements SectorDisk.               *)
THEOREM SectorsAtomic == Spec => AtomicSectors
  <1>1. VirtioInv /\ [Next]_vars => [Atomic!Next]_(Atomic!absVars)
    BY AtomicStep
  <1> QED
    BY <1>1, AtomicInit, VirtioInvariant, PTL DEF Spec, AtomicSectors, Atomic!Spec
=============================================================================
