----------------------------- MODULE TrapsProofs -----------------------------
(***************************************************************************)
(* Proofs about trap.rs, for any threads and any depth of nested traps.    *)
(***************************************************************************)
EXTENDS Traps, SequenceTheorems, TLAPS

InUser  == {"user", "astray"}
Handled == {"timer", "schedule", "external", "ecall", "fault", "dying", "exit"}
Leaving == {"exit_sepc", "exit_sscratch", "exit_stvec", "exit_swap"}
Labels  == InUser \cup Handled \cup Leaving \cup {"start", "kernel", "exit_sret", "dead"}

Stack == [stack : {"kernel", "user"}, of : Thread]
Place == [thread : Thread, at : Labels]
Frame == [sie : BOOLEAN, spie : BOOLEAN, spp : {"U", "S"},
          sepc : Place, x2 : Stack \cup {NoAddr},
          on : Stack \cup {NoAddr}, exit : {"u", "k"}]

(* The type invariant.                                                     *)
TypeInv ==
    /\ cur \in Thread
    /\ mode \in {"U", "S"}
    /\ pc \in [Thread -> Labels]
    /\ sp \in [Thread -> Stack \cup {NoAddr}]
    /\ frames \in [Thread -> Seq(Frame)]
    /\ sie \in BOOLEAN /\ spie \in BOOLEAN /\ spp \in {"U", "S"}
    /\ sepc \in Place \cup {NoAddr}
    /\ sscratch \in Stack \cup {NoAddr}
    /\ stvec \in {"entry_u", "entry_k"}
    /\ ran \subseteq User

-----------------------------------------------------------------------------
(* The frame by which thread t goes to user mode.                          *)
Home(t, f) ==
    /\ t \in User /\ f.exit = "u" /\ f.spp = "U" /\ f.on = KStack(t)
    /\ f.sepc.thread = t /\ f.sepc.at \in InUser
    /\ f.sepc.at = "user" => f.x2 = UStack(t)
    /\ f.sie \/ t \in ran => f.sepc.at = "user"
    /\ f.sie => t \notin ran

(* t is on its first way to user mode, which may be interrupted, with the  *)
(* frame of start() the only one on its stack but for those of the         *)
(* interrupts.                                                             *)
Fresh(t) ==
    /\ t \in User \ ran /\ Len(frames[t]) > 0
    /\ Home(t, frames[t][1]) /\ frames[t][1].sepc.at = "user"

(* Thread t may be interrupted at label l on top of i frames.              *)
Fits(t, l, i) ==
    /\ l = "start" => i = 0 /\ t \in User \ ran
    /\ l = "kernel" => i = 0
    /\ l \in Handled => i > 0
    /\ l \in Leaving => i = 1 /\ Fresh(t)
    /\ l = "exit_sret" => i = 0 /\ t \in User \ ran
    /\ l \in InUser => i = 0 /\ t \in User
    /\ l = "astray" => t \notin ran

(* The kernel's stack pointer on top of i frames.                          *)
Below(t, i) == IF i = 0 THEN KStack(t) ELSE frames[t][i].on

(* Frame i of t was pushed by an interrupt of the kernel.                  *)
Nested(t, i) ==
    LET f == frames[t][i]
        l == f.sepc.at
    IN  /\ f.spp = "S" /\ ~f.sie /\ f.spie /\ f.sepc.thread = t
        /\ l \notin InUser \cup {"dead"}
        /\ Fits(t, l, i - 1)
        /\ l \in {"exit_swap", "exit_sret"} <=> f.exit = "u"
        /\ f.exit = "k" => f.on = Below(t, i - 1)
        /\ l = "exit_swap" => f.x2 = KStack(t)
        /\ l = "exit_sret" => f.on = KStack(t)

FramesInv == \A t \in Thread : \A i \in 1..Len(frames[t]) :
                 (i = 1 /\ Home(t, frames[t][1])) \/ Nested(t, i)

(* The label and the stack pointer of t agree with its frames.             *)
Placed(t) ==
    /\ pc[t] \notin Leaving \cup {"exit_sret"} => Fits(t, pc[t], Len(frames[t]))
    /\ pc[t] \notin InUser \cup {"exit_sret", "dead"} => sp[t] = Below(t, Len(frames[t]))

ThreadsInv == \A t \in Thread :
    Placed(t) /\ (t # cur => pc[t] \in {"start", "kernel", "exit", "dead"})

HartInv ==
    /\ pc[cur] # "dead"
    /\ mode = "U" <=> pc[cur] \in InUser
    /\ stvec = "entry_u" <=> pc[cur] \in InUser \cup {"exit_swap", "exit_sret"}

(* trap_exit_u.  While interrupts are on, it is the first way of a process *)
(* to user mode; what an interrupt has clobbered is not its user address.  *)
Clobbered == sie /\ sepc.at # "user"
LeavingInv ==
    pc[cur] \in Leaving =>
        /\ Len(frames[cur]) > 0
        /\ Top.exit = "u" /\ spp = Top.spp
        /\ sie => Fits(cur, pc[cur], Len(frames[cur]))
        /\ ~sie => spie = Top.spie
        /\ pc[cur] # "exit_sepc" =>
               sepc \in Place /\ sepc.thread = cur /\ (sepc = Top.sepc \/ Clobbered)
        /\ pc[cur] \in {"exit_stvec", "exit_swap"} => sscratch = Top.x2 \/ Clobbered

SretInv ==
    pc[cur] = "exit_sret" =>
        /\ cur \in User /\ sepc \in Place /\ sepc.thread = cur
        /\ cur \in ran => spp = "U" /\ sepc.at = "user"
        /\ sie => spp = "U" /\ cur \notin ran
        /\ spp = "U" => /\ frames[cur] = <<>> /\ sscratch = KStack(cur)
                        /\ sepc.at = "user" => sp[cur] = UStack(cur)
        /\ spp = "S" => /\ spie
                        /\ \/ /\ sepc.at = "exit_swap" /\ Len(frames[cur]) = 1 /\ Fresh(cur)
                              /\ sp[cur] = KStack(cur)
                           \/ /\ sepc.at = "exit_sret" /\ frames[cur] = <<>>
                              /\ sscratch = KStack(cur)

TrapInv == TypeInv /\ FramesInv /\ ThreadsInv /\ HartInv /\ LeavingInv /\ SretInv
               /\ UserContext /\ OwnStack

-----------------------------------------------------------------------------
(* What a push does to a stack of frames.                                  *)
LEMMA PushEffect ==
    ASSUME NEW s \in Seq(Frame), NEW f \in Frame
    PROVE  /\ Append(s, f) \in Seq(Frame)
           /\ Len(s) \in Nat /\ Len(Append(s, f)) = Len(s) + 1
           /\ Append(s, f)[Len(s) + 1] = f
           /\ \A i \in 1..Len(s) : Append(s, f)[i] = s[i]
  OBVIOUS

(* What a pop does to it.                                                  *)
LEMMA PopEffect ==
    ASSUME NEW s \in Seq(Frame), Len(s) > 0
    PROVE  /\ SubSeq(s, 1, Len(s) - 1) \in Seq(Frame)
           /\ Len(s) \in Nat /\ Len(SubSeq(s, 1, Len(s) - 1)) = Len(s) - 1
           /\ \A i \in 1..Len(s) - 1 : SubSeq(s, 1, Len(s) - 1)[i] = s[i]
           /\ Len(s) = 1 => SubSeq(s, 1, Len(s) - 1) = <<>>
  <1>1. \A i \in 1..Len(s) - 1 : s[i] \in Frame
    OBVIOUS
  <1>2. Len(s) - 1 \in Int /\ 1 \in Int /\ Len(s) \in Nat
    OBVIOUS
  <1>3. ASSUME NEW n \in Int, n = Len(s) - 1, NEW r, r = SubSeq(s, 1, n)
        PROVE  /\ r \in Seq(Frame) /\ Len(r) = n
               /\ \A i \in 1..n : r[i] = s[i]
               /\ n = 0 => r = <<>>
    <2>1. /\ r \in Seq(Frame) /\ Len(r) = IF 1 <= n THEN n - 1 + 1 ELSE 0
          /\ \A i \in 1..n - 1 + 1 : r[i] = s[1 + i - 1]
      BY <1>1, <1>3, SubSeqProperties
    <2>2. \A i \in 1..n : i \in 1..n - 1 + 1 /\ 1 + i - 1 = i
      BY <1>3
    <2>3. \A i \in 1..n : r[i] = s[i]
      BY <2>1, <2>2
    <2>4. n = 0 => r = <<>>
      BY <2>1
    <2> QED
      BY <1>2, <1>3, <2>1, <2>3, <2>4
  <1>4. PICK n \in Int : n = Len(s) - 1
    BY <1>2
  <1>5. PICK r : r = SubSeq(s, 1, n)
    OBVIOUS
  <1>6. /\ r \in Seq(Frame) /\ Len(r) = n
        /\ \A i \in 1..n : r[i] = s[i]
        /\ n = 0 => r = <<>>
    BY <1>3, <1>4, <1>5
  <1>7. SubSeq(s, 1, Len(s) - 1) = r
    BY <1>4, <1>5
  <1> QED
    BY <1>2, <1>4, <1>6, <1>7

(* A stack without frames.                                                 *)
LEMMA NoFrames == \A s \in Seq(Frame) : Len(s) = 0 <=> s = <<>>
  OBVIOUS

(* The top of a stack that is not empty is a frame.                        *)
LEMMA TopIsFrame ==
    ASSUME TypeInv, Len(frames[cur]) > 0
    PROVE  Top \in Frame
  BY DEF TypeInv, Top

-----------------------------------------------------------------------------
(* The frames of a thread that has not moved mean what they meant.         *)
LEMMA Unmoved ==
    ASSUME NEW t \in Thread, frames'[t] = frames[t], t \in ran' <=> t \in ran
    PROVE  /\ Fresh(t)' <=> Fresh(t)
           /\ \A f : Home(t, f)' <=> Home(t, f)
           /\ \A l, i : Fits(t, l, i)' <=> Fits(t, l, i)
           /\ \A i : Below(t, i)' = Below(t, i)
           /\ \A i : Nested(t, i)' <=> Nested(t, i)
  <1>1. \A f : Home(t, f)' <=> Home(t, f)
    BY DEF Home
  <1>2. Fresh(t)' <=> Fresh(t)
    BY <1>1 DEF Fresh
  <1>3. \A l, i : Fits(t, l, i)' <=> Fits(t, l, i)
    BY <1>2 DEF Fits
  <1>4. \A i : Below(t, i)' = Below(t, i)
    BY DEF Below
  <1>5. ASSUME NEW i
        PROVE  Nested(t, i)' <=> Nested(t, i)
    BY <1>3, <1>4 DEF Nested
  <1> QED
    BY <1>1, <1>2, <1>3, <1>4, <1>5

(* The frames that two successive stacks of a thread share mean the same   *)
(* in both.                                                                *)
LEMMA Shared ==
    ASSUME TypeInv, TypeInv', NEW t \in Thread, NEW n \in Nat,
           n <= Len(frames[t]), n <= Len(frames'[t]),
           \A i \in 1..n : frames'[t][i] = frames[t][i], ran' = ran
    PROVE  /\ n > 0 /\ Fresh(t) => Fresh(t)'
           /\ \A f : Home(t, f)' <=> Home(t, f)
           /\ \A l : \A i \in 0..n : Fits(t, l, i) => Fits(t, l, i)'
           /\ \A i \in 0..n : Below(t, i)' = Below(t, i)
           /\ \A i \in 1..n : Nested(t, i) => Nested(t, i)'
  <1>1. \A f : Home(t, f)' <=> Home(t, f)
    BY DEF Home
  <1>2. n > 0 /\ Fresh(t) => Fresh(t)'
    BY <1>1 DEF Fresh, TypeInv
  <1>3. \A l : \A i \in 0..n : Fits(t, l, i) => Fits(t, l, i)'
    BY <1>2 DEF Fits
  <1>4. \A i \in 0..n : Below(t, i)' = Below(t, i)
    BY DEF Below
  <1>5. ASSUME NEW i \in 1..n, Nested(t, i)
        PROVE  Nested(t, i)'
    <2>1. i - 1 \in 0..n /\ frames'[t][i] = frames[t][i]
      OBVIOUS
    <2> QED
      BY <1>3, <1>4, <1>5, <2>1 DEF Nested
  <1> QED
    BY <1>1, <1>2, <1>3, <1>4, <1>5

(* The top frame is the way to user mode, or an interrupt's.               *)
LEMMA TopKind ==
    ASSUME TypeInv, FramesInv, Len(frames[cur]) > 0
    PROVE  \/ Len(frames[cur]) = 1 /\ Home(cur, Top)
           \/ Nested(cur, Len(frames[cur])) /\ Top.spp = "S"
  <1>1. cur \in Thread /\ Len(frames[cur]) \in Nat
    BY DEF TypeInv
  <1>2. Len(frames[cur]) \in 1..Len(frames[cur])
    BY <1>1
  <1>3. \/ Len(frames[cur]) = 1 /\ Home(cur, frames[cur][1])
        \/ Nested(cur, Len(frames[cur]))
    BY <1>1, <1>2 DEF FramesInv
  <1>4. Nested(cur, Len(frames[cur])) => Top.spp = "S"
    BY DEF Nested, Top
  <1> QED
    BY <1>3, <1>4 DEF Top

(* Every step preserves the types.                                         *)
LEMMA TypeKeeps == TypeInv /\ FramesInv /\ LeavingInv /\ ThreadsInv /\ SretInv /\ [Next]_vars
                       => TypeInv'
  <1> SUFFICES ASSUME TypeInv, FramesInv, LeavingInv, ThreadsInv, SretInv, [Next]_vars
               PROVE  TypeInv'
    OBVIOUS
  <1> USE DEF csrs, status, At
  <1>1. ASSUME NEW l \in Labels, Goto(l)
        PROVE  pc' \in [Thread -> Labels]
    BY <1>1 DEF Goto, TypeInv
  <1>2. ASSUME pc[cur] = "exit" \/ pc[cur] \in Leaving
        PROVE  Len(frames[cur]) > 0 /\ Top \in Frame
    BY <1>2, TopIsFrame DEF ThreadsInv, Placed, Fits, LeavingInv, TypeInv, Handled, Leaving
  <1>3. KStack(cur) \in Stack /\ UStack(cur) \in Stack
    BY DEF TypeInv, KStack, UStack, Stack
  <1>4. \A l \in Labels : Loc(cur, l) \in Place
    BY DEF TypeInv, Loc, Place
  <1>5. CASE Start
    <2> DEFINE f == [sie |-> sie, spie |-> spie, spp |-> "U", sepc |-> Loc(cur, "user"),
                     x2 |-> UStack(cur), on |-> sp[cur], exit |-> "u"]
    <2>1. f \in Frame
      BY <1>3, <1>4 DEF Frame, TypeInv, Labels, InUser
    <2>2. Append(frames[cur], f) \in Seq(Frame)
      BY <2>1, PushEffect DEF TypeInv
    <2>3. frames' = [frames EXCEPT ![cur] = Append(frames[cur], f)]
      BY <1>5 DEF Start
    <2> HIDE DEF f
    <2>4. frames' \in [Thread -> Seq(Frame)]
      BY <2>2, <2>3 DEF TypeInv
    <2>5. pc' \in [Thread -> Labels]
      BY <1>1, <1>5 DEF Start, Labels, Handled
    <2> QED
      BY <1>5, <2>4, <2>5 DEF Start, TypeInv
  <1>6. CASE Yield
    BY <1>6 DEF Yield, Switches, TypeInv
  <1>7. ASSUME NEW k \in {"timer", "external", "ecall", "fault"}, Enter(k)
        PROVE  TypeInv'
    <2>1. EntryStack \in Stack \cup {NoAddr}
      BY DEF EntryStack, TypeInv
    <2>2. Loc(cur, pc[cur]) \in Place
      BY <1>4 DEF TypeInv
    <2>3. SavedFrame \in Frame
      BY <2>1, <2>2 DEF SavedFrame, Frame, TypeInv
    <2>4. Append(frames[cur], SavedFrame) \in Seq(Frame)
      BY <2>3, PushEffect DEF TypeInv
    <2>5. frames' \in [Thread -> Seq(Frame)]
      BY <1>7, <2>4 DEF Enter, TrapEntry, TypeInv
    <2>6. pc' \in [Thread -> Labels]
      BY <1>1, <1>7 DEF Enter, TrapEntry, Labels, Handled
    <2>7. sp' \in [Thread -> Stack \cup {NoAddr}] /\ sscratch' \in Stack \cup {NoAddr}
      BY <1>7, <2>1 DEF Enter, TrapEntry, TypeInv
    <2>8. /\ sie' \in BOOLEAN /\ spie' \in BOOLEAN /\ spp' \in {"U", "S"} /\ mode' \in {"U", "S"}
          /\ UNCHANGED <<cur, ran>> /\ stvec' = "entry_k" /\ sepc' = Loc(cur, pc[cur])
      BY <1>7 DEF Enter, TrapEntry, TypeInv
    <2> QED
      BY <2>2, <2>5, <2>6, <2>7, <2>8 DEF TypeInv
  <1>8. CASE Handler
    <2>1. pc' \in [Thread -> Labels]
      BY <1>1, <1>8 DEF Handler, TimerSie, TimerSchedule, ExternalHandler, EcallHandler,
                        FaultHandler, Die, Labels, Handled
    <2>2. cur' \in Thread /\ sie' \in BOOLEAN
      BY <1>8 DEF Handler, TimerSie, TimerSchedule, ExternalHandler, EcallHandler,
                  FaultHandler, Die, Switches, TypeInv
    <2>3. UNCHANGED <<mode, sp, frames, spie, spp, sepc, sscratch, stvec, ran>>
      BY <1>8 DEF Handler, TimerSie, TimerSchedule, ExternalHandler, EcallHandler,
                  FaultHandler, Die
    <2> QED
      BY <2>1, <2>2, <2>3 DEF TypeInv
  <1>9. ASSUME Pop, Len(frames[cur]) > 0
        PROVE  frames' \in [Thread -> Seq(Frame)]
    <2>1. SubSeq(frames[cur], 1, Len(frames[cur]) - 1) \in Seq(Frame)
      BY <1>9, PopEffect DEF TypeInv
    <2> QED
      BY <1>9, <2>1 DEF Pop, TypeInv
  <1>10. ASSUME NEW to \in {"U", "S"}, NEW ie \in BOOLEAN, NEW at \in Place,
                Sret(to, ie, at), to = "U" => cur \in User
         PROVE  /\ mode' \in {"U", "S"} /\ sie' \in BOOLEAN /\ spie' \in BOOLEAN
                /\ spp' \in {"U", "S"} /\ pc' \in [Thread -> Labels] /\ ran' \subseteq User
    <2>1. pc' \in [Thread -> Labels]
      BY <1>1, <1>10 DEF Sret, Place, Labels, InUser
    <2> QED
      BY <1>10, <2>1 DEF Sret, TypeInv
  <1>11. CASE ExitStatus \/ ExitSepc \/ ExitSscratch \/ ExitStvec
    <2>1. Top \in Frame
      BY <1>2, <1>11 DEF ExitStatus, ExitSepc, ExitSscratch, ExitStvec, Leaving
    <2>2. pc' \in [Thread -> Labels]
      BY <1>1, <1>11
      DEF ExitStatus, ExitSepc, ExitSscratch, ExitStvec, Labels, Leaving
    <2> QED
      BY <1>11, <2>1, <2>2
      DEF ExitStatus, ExitSepc, ExitSscratch, ExitStvec, TypeInv, Frame
  <1>12. CASE ExitSwap
    <2>1. Len(frames[cur]) > 0
      BY <1>2, <1>12 DEF ExitSwap, Leaving
    <2>2. frames' \in [Thread -> Seq(Frame)]
      BY <1>9, <1>12, <2>1 DEF ExitSwap
    <2>3. pc' \in [Thread -> Labels]
      BY <1>1, <1>12 DEF ExitSwap, Labels
    <2> QED
      BY <1>12, <2>2, <2>3 DEF ExitSwap, TypeInv
  <1>13. CASE ExitSret
    <2>1. sepc \in Place /\ cur \in User
      BY <1>13 DEF ExitSret, SretInv
    <2>2. /\ mode' \in {"U", "S"} /\ sie' \in BOOLEAN /\ spie' \in BOOLEAN
          /\ spp' \in {"U", "S"} /\ pc' \in [Thread -> Labels] /\ ran' \subseteq User
      BY <1>10, <1>13, <2>1 DEF ExitSret, TypeInv
    <2> QED
      BY <1>13, <2>2 DEF ExitSret, TypeInv
  <1>14. CASE ExitK
    <2>1. Len(frames[cur]) > 0 /\ Top \in Frame
      BY <1>2, <1>14 DEF ExitK
    <2>2. frames' \in [Thread -> Seq(Frame)]
      BY <1>9, <1>14, <2>1 DEF ExitK
    <2>3. Top.spp = "S" /\ Top.spie \in BOOLEAN /\ Top.sepc \in Place
      BY <1>14, <2>1, TopKind DEF Frame, Home, ExitK
    <2>4. /\ mode' \in {"U", "S"} /\ sie' \in BOOLEAN /\ spie' \in BOOLEAN
          /\ spp' \in {"U", "S"} /\ pc' \in [Thread -> Labels] /\ ran' \subseteq User
      BY <1>10, <1>14, <2>3 DEF ExitK
    <2> QED
      BY <1>14, <2>2, <2>3, <2>4 DEF ExitK, TypeInv
  <1>15. CASE UNCHANGED vars
    BY <1>15 DEF vars, TypeInv
  <1> QED
    BY <1>5, <1>6, <1>7, <1>8, <1>11, <1>12, <1>13, <1>14, <1>15
    DEF Next, Trap, TimerTrap, ExternalTrap, Ecall, Fault, Exit

-----------------------------------------------------------------------------
(* FramesInv and OwnStack are about the frames only.                       *)
LEMMA FramesKept ==
    ASSUME TypeInv, FramesInv, OwnStack, UNCHANGED <<frames, ran>>
    PROVE  FramesInv' /\ OwnStack'
  <1>1. FramesInv'
    BY Unmoved DEF FramesInv
  <1> QED
    BY <1>1 DEF OwnStack

(* A thread that the step leaves alone stays in its place.                 *)
LEMMA PlacedKept ==
    ASSUME NEW t \in Thread, Placed(t), frames'[t] = frames[t], t \in ran' <=> t \in ran,
           pc'[t] = pc[t], sp'[t] = sp[t]
    PROVE  Placed(t)'
  <1>1. \A l, i : Fits(t, l, i)' <=> Fits(t, l, i)
    BY Unmoved
  <1>2. \A i : Below(t, i)' = Below(t, i)
    BY Unmoved
  <1> QED
    BY <1>1, <1>2 DEF Placed

(* What a thread has to show to be in its place after a step.              *)
LEMMA PlacedAt ==
    ASSUME NEW t \in Thread, NEW l, NEW n, pc'[t] = l, Len(frames'[t]) = n,
           l \notin Leaving \cup {"exit_sret"} => Fits(t, l, n)',
           l \notin InUser \cup {"exit_sret", "dead"} => sp'[t] = Below(t, n)'
    PROVE  Placed(t)'
  BY DEF Placed

(* Nobody is about to leave the kernel, and the hart is in it.             *)
LEMMA Inland ==
    ASSUME pc[cur]' \notin InUser \cup Leaving \cup {"exit_sret", "dead"},
           mode' = "S", stvec' = "entry_k"
    PROVE  HartInv' /\ LeavingInv' /\ SretInv' /\ UserContext'
  BY DEF HartInv, LeavingInv, SretInv, UserContext, Leaving

(* The steps of trap_handler, and schedule() in the kernel.                *)
LEMMA HandlersKeep ==
    ASSUME TrapInv, TypeInv', Yield \/ Handler
    PROVE  TrapInv'
  <1> USE DEF TrapInv, csrs, status, At
  <1>1. UNCHANGED <<mode, sp, frames, stvec, ran>>
    BY DEF Yield, Handler, TimerSie, TimerSchedule, ExternalHandler, EcallHandler,
           FaultHandler, Die
  <1>2. pc[cur] \in Handled \cup {"kernel"}
    BY DEF Yield, Handler, TimerSie, TimerSchedule, ExternalHandler, EcallHandler,
           FaultHandler, Die, Handled
  <1>3. PICK l \in Handled \cup {"kernel", "dead"} :
            /\ pc' = [pc EXCEPT ![cur] = l]
            /\ l = "kernel" <=> pc[cur] = "kernel"
            /\ \/ cur' = cur /\ l # "dead"
               \/ l \in {"kernel", "exit", "dead"} /\ cur' # cur /\ pc[cur'] # "dead"
    <2>1. CASE Yield
      <3>1. pc' = [pc EXCEPT ![cur] = "kernel"] /\ pc[cur] = "kernel"
        BY <2>1 DEF Yield, TypeInv
      <3> QED
        BY <2>1, <3>1 DEF Yield, Switches
    <2>2. CASE TimerSie \/ EcallHandler \/ FaultHandler
      BY <2>2 DEF TimerSie, EcallHandler, FaultHandler, Goto, Handled
    <2>3. CASE TimerSchedule \/ ExternalHandler
      BY <2>3 DEF TimerSchedule, ExternalHandler, Goto, Handled, Switches
    <2>4. CASE Die
      BY <2>4 DEF Die, Goto
    <2> QED
      BY <2>1, <2>2, <2>3, <2>4 DEF Handler
  <1>4. \A t \in Thread : pc'[t] = IF t = cur THEN l ELSE pc[t]
    BY <1>3 DEF TypeInv
  <1>5. FramesInv' /\ OwnStack'
    BY <1>1, FramesKept
  <1>6. cur \in Thread /\ cur' \in Thread
    BY DEF TypeInv
  <1>7. Placed(cur) /\ sp[cur] = Below(cur, Len(frames[cur]))
    BY <1>2, <1>6 DEF ThreadsInv, Placed, Handled, InUser
  <1>8. ASSUME NEW t \in Thread, t = cur
        PROVE  Placed(t)'
    <2>1. Fits(t, l, Len(frames[t]))
      BY <1>2, <1>3, <1>7, <1>8 DEF Placed, Fits, Handled, Leaving, InUser
    <2>2. (\A k, i : Fits(t, k, i)' <=> Fits(t, k, i)) /\ \A i : Below(t, i)' = Below(t, i)
      BY <1>1, Unmoved
    <2> QED
      BY <1>1, <1>4, <1>7, <1>8, <2>1, <2>2, PlacedAt
  <1>9. ASSUME NEW t \in Thread, t # cur
        PROVE  Placed(t)' /\ pc[t] \in {"start", "kernel", "exit", "dead"}
    BY <1>1, <1>4, <1>9, PlacedKept DEF ThreadsInv
  <1>10. ThreadsInv'
    BY <1>3, <1>4, <1>8, <1>9 DEF ThreadsInv
  <1>11. pc'[cur'] \notin InUser \cup Leaving \cup {"exit_sret", "dead"}
    <2>1. CASE cur' = cur
      BY <1>3, <1>4, <1>6, <2>1 DEF InUser, Leaving, Handled
    <2>2. CASE cur' # cur
      BY <1>3, <1>4, <1>6, <1>9, <2>2 DEF InUser, Leaving
    <2> QED
      BY <2>1, <2>2
  <1>12. mode' = "S" /\ stvec' = "entry_k"
    BY <1>1, <1>2 DEF HartInv, TypeInv, InUser, Handled
  <1> QED
    BY <1>5, <1>10, <1>11, <1>12, Inland

(* Both kinds of frame belong to their thread.                             *)
LEMMA TopIsOwn ==
    ASSUME TypeInv, FramesInv, Len(frames[cur]) > 0
    PROVE  /\ Top \in Frame /\ Top.sepc \in Place /\ Top.sepc.thread = cur
           /\ Top.sie => Top.spp = "U" /\ Len(frames[cur]) = 1 /\ Fresh(cur)
  <1>1. Top \in Frame /\ Top.sepc \in Place
    BY TopIsFrame DEF Frame
  <1>2. CASE Len(frames[cur]) = 1 /\ Home(cur, Top)
    <2>1. Top = frames[cur][1]
      BY <1>2 DEF Top
    <2> QED
      BY <1>1, <1>2, <2>1 DEF Home, Fresh
  <1>3. CASE Nested(cur, Len(frames[cur]))
    BY <1>1, <1>3 DEF Nested, Top
  <1> QED
    BY <1>2, <1>3, TopKind

(* trap_exit_u up to the csrw of stvec.                                    *)
LEMMA LeavingKeeps ==
    ASSUME TrapInv, TypeInv', ExitStatus \/ ExitSepc \/ ExitSscratch \/ ExitStvec
    PROVE  TrapInv'
  <1> USE DEF TrapInv, csrs, status, At
  <1>1. UNCHANGED <<cur, mode, sp, frames, ran>>
    BY DEF ExitStatus, ExitSepc, ExitSscratch, ExitStvec
  <1>2. PICK l \in Leaving : Goto(l)
    BY DEF ExitStatus, ExitSepc, ExitSscratch, ExitStvec, Leaving
  <1>3. \A t \in Thread : pc'[t] = IF t = cur THEN l ELSE pc[t]
    BY <1>2 DEF Goto, TypeInv
  <1>4. cur \in Thread /\ pc[cur] \in Leaving \cup {"exit"} /\ pc[cur] # "exit_swap"
    BY DEF ExitStatus, ExitSepc, ExitSscratch, ExitStvec, Leaving, TypeInv
  <1>5. Len(frames[cur]) > 0
    BY <1>4 DEF LeavingInv, ThreadsInv, Placed, Fits, Leaving, Handled
  <1>6. FramesInv' /\ OwnStack'
    BY <1>1, FramesKept
  <1>7. ASSUME NEW t \in Thread, t = cur
        PROVE  Placed(t)'
    <2>1. \A i : Below(t, i)' = Below(t, i)
      BY <1>1, Unmoved
    <2>2. sp[t] = Below(t, Len(frames[t]))
      BY <1>4, <1>7 DEF ThreadsInv, Placed, Leaving, InUser
    <2> QED
      BY <1>1, <1>3, <1>7, <2>1, <2>2, PlacedAt
  <1>8. ThreadsInv'
    <2>1. ASSUME NEW t \in Thread, t # cur
          PROVE  Placed(t)'
      BY <1>1, <1>3, <2>1, PlacedKept DEF ThreadsInv
    <2> QED
      BY <1>1, <1>3, <1>7, <2>1 DEF ThreadsInv
  <1>9. mode' = "S" /\ pc'[cur'] = l /\ l \notin InUser \cup {"exit_sret"}
    BY <1>1, <1>2, <1>3, <1>4 DEF HartInv, TypeInv, InUser, Leaving
  <1>10. SretInv' /\ UserContext'
    BY <1>9 DEF SretInv, UserContext
  <1>11. HartInv'
    <2>1. stvec = "entry_k"
      BY <1>4 DEF HartInv, TypeInv, InUser, Leaving
    <2>2. stvec' = "entry_u" <=> l = "exit_swap"
      BY <1>3, <1>4, <1>9, <2>1
      DEF ExitStatus, ExitSepc, ExitSscratch, ExitStvec, Goto, TypeInv
    <2> QED
      BY <1>9, <2>2 DEF HartInv, InUser, Leaving
  <1>12. Top' = Top /\ Top.exit = "u" /\ Top.sepc \in Place /\ Top.sepc.thread = cur
    BY <1>1, <1>4, <1>5, TopIsOwn DEF Top, LeavingInv, ExitStatus, ExitSepc, ExitSscratch,
                                      ExitStvec
  <1>13. LeavingInv'
    <2>1. ASSUME NEW t \in Thread, t = cur,
                 sie' => Len(frames[t]) = 1 /\ Fresh(t)
          PROVE  sie' => Fits(cur, pc[cur], Len(frames[cur]))'
      <3>1. Fresh(t)' <=> Fresh(t)
        BY <1>1, Unmoved
      <3> QED
        BY <1>1, <1>2, <1>9, <2>1, <3>1 DEF Fits, Leaving, Handled, InUser
    <2>2. CASE ExitStatus
      <3>1. l = "exit_sepc" /\ sie' = Top.sie /\ spie' = Top.spie /\ spp' = Top.spp
        BY <1>4, <1>9, <2>2, <1>3 DEF ExitStatus, Goto, TypeInv
      <3>2. sie' => Len(frames[cur]) = 1 /\ Fresh(cur)
        BY <1>5, <3>1, TopIsOwn
      <3>3. sie' => Fits(cur, pc[cur], Len(frames[cur]))'
        BY <1>4, <2>1, <3>2
      <3> QED
        BY <1>1, <1>5, <1>9, <1>12, <3>1, <3>3 DEF LeavingInv
    <2>3. ASSUME pc[cur] \in Leaving, UNCHANGED <<sie, spie, spp>>
          PROVE  /\ spp' = Top.spp /\ (~sie' => spie' = Top.spie)
                 /\ sie' => Fits(cur, pc[cur], Len(frames[cur]))'
      <3>1. sie => Len(frames[cur]) = 1 /\ Fresh(cur)
        BY <2>3 DEF LeavingInv, Fits
      <3> QED
        BY <1>4, <2>1, <2>3, <3>1 DEF LeavingInv
    <2>4. CASE ExitSepc
      <3>1. l = "exit_sscratch" /\ sepc' = Top.sepc /\ pc[cur] \in Leaving
            /\ UNCHANGED <<sie, spie, spp>>
        BY <1>4, <1>9, <2>4, <1>3 DEF ExitSepc, Goto, TypeInv, Leaving
      <3> QED
        BY <1>1, <1>5, <1>9, <1>12, <2>3, <3>1 DEF LeavingInv
    <2>5. CASE ExitSscratch
      <3>1. l = "exit_stvec" /\ sscratch' = Top.x2 /\ pc[cur] = "exit_sscratch"
            /\ UNCHANGED <<sie, spie, spp, sepc>>
        BY <1>4, <1>9, <2>5, <1>3 DEF ExitSscratch, Goto, TypeInv
      <3> QED
        BY <1>1, <1>5, <1>9, <1>12, <2>3, <3>1 DEF LeavingInv, Leaving, Clobbered
    <2>6. CASE ExitStvec
      <3>1. l = "exit_swap" /\ pc[cur] = "exit_stvec"
            /\ UNCHANGED <<sie, spie, spp, sepc, sscratch>>
        BY <1>4, <1>9, <2>6, <1>3 DEF ExitStvec, Goto, TypeInv
      <3> QED
        BY <1>1, <1>5, <1>9, <1>12, <2>3, <3>1 DEF LeavingInv, Leaving, Clobbered
    <2> QED
      BY <2>2, <2>4, <2>5, <2>6
  <1> QED
    BY <1>6, <1>8, <1>10, <1>11, <1>13

(* The frame f on top of n others, pushed by an interrupt of the kernel.   *)
NestedTop(t, n, f) ==
    /\ f.spp = "S" /\ ~f.sie /\ f.spie /\ f.sepc = Loc(t, f.sepc.at)
    /\ f.sepc.at \notin InUser \cup {"dead"}
    /\ Fits(t, f.sepc.at, n)
    /\ f.sepc.at \in {"exit_swap", "exit_sret"} <=> f.exit = "u"
    /\ f.exit = "k" => f.on = Below(t, n)
    /\ f.sepc.at = "exit_swap" => f.x2 = KStack(t)
    /\ f.sepc.at = "exit_sret" => f.on = KStack(t)

(* A push of such a frame, or of the way to user mode on an empty stack.   *)
LEMMA PushKeeps ==
    ASSUME TrapInv, TypeInv', NEW t \in Thread, t = cur, NEW n, n = Len(frames[t]),
           NEW f \in Frame, frames' = [frames EXCEPT ![t] = Append(frames[t], f)],
           UNCHANGED ran, (n = 0 /\ Home(t, f)) \/ NestedTop(t, n, f)
    PROVE  /\ FramesInv' /\ OwnStack'
           /\ n \in Nat /\ Len(frames'[t]) = n + 1 /\ Below(t, n + 1)' = f.on
           /\ \A u \in Thread \ {t} : frames'[u] = frames[u]
  <1> USE DEF TrapInv
  <1>1. /\ n \in Nat /\ Len(frames'[t]) = n + 1 /\ frames'[t][n + 1] = f
        /\ \A i \in 1..n : frames'[t][i] = frames[t][i]
    BY PushEffect DEF TypeInv
  <1>2. \A u \in Thread \ {t} : frames'[u] = frames[u]
    BY DEF TypeInv
  <1>3. Below(t, n + 1)' = f.on
    BY <1>1 DEF Below
  <1>4. /\ \A l : \A i \in 0..n : Fits(t, l, i) => Fits(t, l, i)'
        /\ \A i \in 0..n : Below(t, i)' = Below(t, i)
        /\ \A i \in 1..n : Nested(t, i) => Nested(t, i)'
        /\ \A g : Home(t, g)' <=> Home(t, g)
    BY <1>1, Shared
  <1>5. ASSUME NEW i \in 1..n
        PROVE  (i = 1 /\ Home(t, frames[t][1])') \/ Nested(t, i)'
    BY <1>1, <1>4, <1>5 DEF FramesInv
  <1>6. ((n + 1 = 1) /\ Home(t, frames[t][1])') \/ Nested(t, n + 1)'
    <2>1. CASE n = 0 /\ Home(t, f)
      BY <1>1, <1>4, <2>1
    <2>2. CASE NestedTop(t, n, f)
      <3>1. n + 1 - 1 = n /\ n \in 0..n
        BY <1>1
      <3>2. f.sepc.thread = t
        BY <2>2 DEF NestedTop, Loc
      <3> QED
        BY <1>1, <1>4, <2>2, <3>1, <3>2 DEF Nested, NestedTop
    <2> QED
      BY <2>1, <2>2
  <1>7. FramesInv'
    <2>1. ASSUME NEW u \in Thread, u # t
          PROVE  \A i \in 1..Len(frames'[u]) :
                     (i = 1 /\ Home(u, frames[u][1])') \/ Nested(u, i)'
      BY <1>2, <2>1, Unmoved DEF FramesInv
    <2>2. \A i \in 1..n + 1 : i \in 1..n \/ i = n + 1
      BY <1>1
    <2> QED
      BY <1>1, <1>5, <1>6, <2>1, <2>2 DEF FramesInv
  <1>8. OwnStack'
    <2>1. ASSUME NEW u \in Thread, u # t, NEW i \in 1..Len(frames'[u])
          PROVE  \/ frames'[u][i].on = KStack(u)
                 \/ /\ u \in User \ ran'
                    /\ \E j \in 1..i : frames'[u][j].sepc = Loc(u, "exit_swap")
      BY <1>2, <2>1 DEF OwnStack
    <2>2. ASSUME NEW i \in 1..n
          PROVE  \/ frames'[t][i].on = KStack(t)
                 \/ /\ t \in User \ ran'
                    /\ \E j \in 1..i : frames'[t][j].sepc = Loc(t, "exit_swap")
      BY <1>1, <2>2 DEF OwnStack
    <2>3. \/ f.on = KStack(t)
          \/ /\ t \in User \ ran'
             /\ \E j \in 1..n + 1 : frames'[t][j].sepc = Loc(t, "exit_swap")
      <3>1. CASE n = 0 /\ Home(t, f)
        BY <3>1 DEF Home
      <3>2. CASE NestedTop(t, n, f) /\ f.exit = "k"
        <4>1. CASE n = 0
          BY <3>2, <4>1 DEF NestedTop, Below
        <4>2. CASE n > 0
          <5>1. f.on = frames[t][n].on /\ n \in 1..n
            BY <1>1, <3>2, <4>2 DEF NestedTop, Below
          <5> QED
            BY <1>1, <2>2, <5>1
        <4> QED
          BY <1>1, <4>1, <4>2
      <3>3. CASE NestedTop(t, n, f) /\ f.exit # "k"
        <4>1. \/ f.on = KStack(t)
              \/ f.sepc = Loc(t, "exit_swap") /\ Fits(t, "exit_swap", n)
          BY <3>3 DEF NestedTop, Frame
        <4>2. Fits(t, "exit_swap", n) => t \in User \ ran
          BY DEF Fits, Fresh, Leaving
        <4>3. n + 1 \in 1..n + 1
          BY <1>1
        <4> QED
          BY <1>1, <4>1, <4>2, <4>3
      <3> QED
        BY <3>1, <3>2, <3>3
    <2>4. \A i \in 1..n + 1 : i \in 1..n \/ i = n + 1
      BY <1>1
    <2> QED
      BY <1>1, <2>1, <2>2, <2>3, <2>4 DEF OwnStack
  <1> QED
    BY <1>1, <1>2, <1>3, <1>7, <1>8

(* After a push the running thread is at a label of the handler.           *)
LEMMA PushedPlaces ==
    ASSUME TrapInv, TypeInv', NEW t \in Thread, t = cur, cur' = cur, NEW n \in Nat,
           Len(frames'[t]) = n + 1, \A u \in Thread \ {t} : frames'[u] = frames[u],
           UNCHANGED ran, NEW l \in Handled, Goto(l), sp'[t] = Below(t, n + 1)',
           \A u \in Thread \ {t} : sp'[u] = sp[u], mode' = "S", stvec' = "entry_k"
    PROVE  ThreadsInv' /\ HartInv' /\ LeavingInv' /\ SretInv' /\ UserContext'
  <1> USE DEF TrapInv
  <1>1. \A u \in Thread : pc'[u] = IF u = t THEN l ELSE pc[u]
    BY DEF Goto, TypeInv
  <1>2. Placed(t)'
    <2>1. Fits(t, l, n + 1)'
      BY DEF Fits, Handled, Leaving, InUser
    <2> QED
      BY <1>1, <2>1, PlacedAt
  <1>3. ASSUME NEW u \in Thread, u # t
        PROVE  Placed(u)'
    BY <1>1, <1>3, PlacedKept DEF ThreadsInv
  <1>4. ThreadsInv'
    BY <1>1, <1>2, <1>3 DEF ThreadsInv
  <1>5. pc'[cur'] \notin InUser \cup Leaving \cup {"exit_sret", "dead"}
    BY <1>1 DEF InUser, Leaving, Handled
  <1> QED
    BY <1>4, <1>5, Inland

(* userproc::start.                                                        *)
LEMMA StartKeeps ==
    ASSUME TrapInv, TypeInv', Start
    PROVE  TrapInv'
  <1> USE DEF TrapInv, At
  <1> DEFINE f == [sie |-> sie, spie |-> spie, spp |-> "U", sepc |-> Loc(cur, "user"),
                   x2 |-> UStack(cur), on |-> sp[cur], exit |-> "u"]
  <1>1. PICK t \in Thread : t = cur
    BY DEF TypeInv
  <1>2. PICK n : n = Len(frames[t])
    OBVIOUS
  <1>3. pc[t] = "start" /\ UNCHANGED <<cur, mode, sp, stvec, ran>>
    BY <1>1 DEF Start
  <1>4. n = 0 /\ t \in User \ ran /\ sp[t] = KStack(t)
    BY <1>1, <1>2, <1>3 DEF ThreadsInv, Placed, Fits, Below, Leaving, InUser
  <1>5. f \in Frame
    BY <1>1 DEF Frame, Place, Loc, Stack, UStack, TypeInv, Labels, InUser
  <1>6. Home(t, f)
    BY <1>1, <1>4 DEF Home, Loc, InUser
  <1>7. frames' = [frames EXCEPT ![t] = Append(frames[t], f)] /\ Goto("exit")
    BY <1>1 DEF Start
  <1>8. f.on = sp[t]
    BY <1>1
  <1> HIDE DEF f
  <1>9. /\ FramesInv' /\ OwnStack'
        /\ n \in Nat /\ Len(frames'[t]) = n + 1 /\ Below(t, n + 1)' = f.on
        /\ \A u \in Thread \ {t} : frames'[u] = frames[u]
    BY <1>1, <1>2, <1>3, <1>4, <1>5, <1>6, <1>7, PushKeeps
  <1>10. mode = "S" /\ stvec = "entry_k"
    BY <1>1, <1>3 DEF HartInv, TypeInv, InUser
  <1>11. "exit" \in Handled
    BY DEF Handled
  <1> QED
    BY <1>1, <1>3, <1>7, <1>8, <1>9, <1>10, <1>11, PushedPlaces

(* The frame that the entry code saves.                                    *)
LEMMA EntryFrame ==
    ASSUME TrapInv, NEW t \in Thread, t = cur, mode = "U" \/ sie
    PROVE  \/ Len(frames[t]) = 0 /\ Home(t, SavedFrame)
           \/ NestedTop(t, Len(frames[t]), SavedFrame)
  <1> USE DEF TrapInv, SavedFrame, EntryStack, Loc
  <1>1. CASE mode = "U"
    <2>1. pc[t] \in InUser /\ stvec = "entry_u" /\ sscratch = KStack(t) /\ frames[t] = <<>>
      BY <1>1 DEF HartInv, UserContext
    <2>2. Fits(t, pc[t], Len(frames[t]))
      BY <2>1 DEF ThreadsInv, Placed, InUser, Leaving
    <2>3. t \in User /\ (t \in ran => pc[t] = "user")
      BY <2>1, <2>2 DEF Fits, InUser
    <2>4. pc[t] = "user" => sp[t] = UStack(t)
      BY <1>1 DEF UserContext
    <2>5. Home(t, SavedFrame)
      BY <1>1, <2>1, <2>3, <2>4 DEF Home
    <2> QED
      BY <2>1, <2>5
  <1>2. CASE mode = "S" /\ sie
    <2>1. pc[t] \notin InUser \cup {"dead"}
      BY <1>2 DEF HartInv
    <2>2. stvec = "entry_u" <=> pc[t] \in {"exit_swap", "exit_sret"}
      BY <2>1 DEF HartInv
    <2>3. CASE pc[t] = "exit_swap"
      <3>1. Fits(t, pc[t], Len(frames[t]))
        BY <1>2, <2>3 DEF LeavingInv, Leaving
      <3>2. Len(frames[t]) = 1 /\ Home(t, frames[t][1])
        BY <2>3, <3>1 DEF Fits, Fresh, Leaving
      <3>3. sp[t] = KStack(t)
        BY <2>3, <3>2 DEF ThreadsInv, Placed, Below, Home, InUser
      <3> QED
        BY <1>2, <2>1, <2>2, <2>3, <3>1, <3>3 DEF NestedTop
    <2>4. CASE pc[t] = "exit_sret"
      <3>1. frames[t] = <<>> /\ sscratch = KStack(t) /\ t \in User \ ran
        BY <1>2, <2>4 DEF SretInv
      <3>2. Fits(t, pc[t], Len(frames[t]))
        BY <2>4, <3>1 DEF Fits, Handled, Leaving, InUser
      <3> QED
        BY <1>2, <2>1, <2>2, <2>4, <3>1, <3>2 DEF NestedTop
    <2>5. CASE pc[t] \notin {"exit_swap", "exit_sret"}
      <3>1. Fits(t, pc[t], Len(frames[t]))
        <4>1. CASE pc[t] \in Leaving
          BY <1>2, <4>1 DEF LeavingInv
        <4>2. CASE pc[t] \notin Leaving
          BY <2>5, <4>2 DEF ThreadsInv, Placed
        <4> QED
          BY <4>1, <4>2
      <3>2. sp[t] = Below(t, Len(frames[t]))
        BY <2>1, <2>5 DEF ThreadsInv, Placed
      <3> QED
        BY <1>2, <2>1, <2>2, <2>5, <3>1, <3>2 DEF NestedTop
    <2> QED
      BY <2>3, <2>4, <2>5
  <1> QED
    BY <1>1, <1>2 DEF TypeInv

(* A trap is taken.                                                        *)
LEMMA EntryKeeps ==
    ASSUME TrapInv, TypeInv', Trap
    PROVE  TrapInv'
  <1> USE DEF TrapInv, At
  <1>1. PICK k \in {"timer", "external", "ecall", "fault"} : Enter(k)
    BY DEF Trap, TimerTrap, ExternalTrap, Ecall, Fault
  <1>2. mode = "U" \/ sie
    BY DEF Trap, TimerTrap, ExternalTrap, Ecall, Fault, Interruptible, HartInv, InUser
  <1>3. PICK t \in Thread : t = cur
    BY DEF TypeInv
  <1>4. PICK n : n = Len(frames[t])
    OBVIOUS
  <1>5. (n = 0 /\ Home(t, SavedFrame)) \/ NestedTop(t, n, SavedFrame)
    BY <1>2, <1>3, <1>4, EntryFrame
  <1>6. SavedFrame \in Frame
    <2>1. EntryStack \in Stack \cup {NoAddr}
      BY DEF EntryStack, TypeInv
    <2>2. Loc(cur, pc[cur]) \in Place
      BY DEF TypeInv, Loc, Place
    <2> QED
      BY <2>1, <2>2 DEF SavedFrame, Frame, TypeInv
  <1>7. /\ frames' = [frames EXCEPT ![t] = Append(frames[t], SavedFrame)]
        /\ sp' = [sp EXCEPT ![t] = EntryStack]
        /\ UNCHANGED <<cur, ran>> /\ mode' = "S" /\ stvec' = "entry_k" /\ Goto(k)
    BY <1>1, <1>3 DEF Enter, TrapEntry
  <1>8. PICK f \in Frame : f = SavedFrame /\ f.on = EntryStack
    BY <1>6 DEF SavedFrame
  <1>9. /\ FramesInv' /\ OwnStack'
        /\ n \in Nat /\ Len(frames'[t]) = n + 1 /\ Below(t, n + 1)' = f.on
        /\ \A u \in Thread \ {t} : frames'[u] = frames[u]
    BY <1>3, <1>4, <1>5, <1>7, <1>8, PushKeeps
  <1>10. sp'[t] = f.on /\ \A u \in Thread \ {t} : sp'[u] = sp[u]
    BY <1>7, <1>8 DEF TypeInv
  <1>11. k \in Handled
    BY DEF Handled
  <1> QED
    BY <1>3, <1>7, <1>9, <1>10, <1>11, PushedPlaces

-----------------------------------------------------------------------------
(* The top frame is popped.                                                *)
LEMMA PopKeeps ==
    ASSUME TrapInv, TypeInv', NEW t \in Thread, t = cur, NEW n, n = Len(frames[t]), n > 0,
           Pop, UNCHANGED ran
    PROVE  /\ FramesInv' /\ OwnStack'
           /\ n - 1 \in Nat /\ Len(frames'[t]) = n - 1
           /\ \A i \in 1..n - 1 : frames'[t][i] = frames[t][i]
           /\ n = 1 => frames'[t] = <<>>
           /\ n > 1 /\ Fresh(t) => Fresh(t)'
           /\ \A l : Fits(t, l, n - 1) => Fits(t, l, n - 1)'
           /\ Below(t, n - 1)' = Below(t, n - 1)
           /\ \A u \in Thread \ {t} : frames'[u] = frames[u]
  <1> USE DEF TrapInv
  <1>0. n \in Nat /\ frames[t] \in Seq(Frame)
    BY DEF TypeInv
  <1>1. PICK m \in Nat : n = m + 1
    <2>1. n - 1 \in Nat /\ n = n - 1 + 1
      BY <1>0
    <2> QED
      BY <2>1
  <1>2. frames'[t] = SubSeq(frames[t], 1, Len(frames[t]) - 1)
    BY DEF Pop, TypeInv
  <1>3. /\ Len(frames'[t]) = m /\ Len(frames[t]) = m + 1 /\ (m = 0 => frames'[t] = <<>>)
        /\ \A i \in 1..m : frames'[t][i] = frames[t][i]
    <2>1. Len(frames[t]) > 0 /\ Len(frames[t]) - 1 = m
      BY <1>0, <1>1
    <2>2. PICK r : r = SubSeq(frames[t], 1, Len(frames[t]) - 1)
      OBVIOUS
    <2>3. /\ Len(r) = Len(frames[t]) - 1 /\ (Len(frames[t]) = 1 => r = <<>>)
          /\ \A i \in 1..Len(frames[t]) - 1 : r[i] = frames[t][i]
      BY <1>0, <2>1, <2>2, PopEffect
    <2> QED
      BY <1>0, <1>1, <1>2, <2>1, <2>2, <2>3
  <1>4. \A u \in Thread \ {t} : frames'[u] = frames[u]
    BY DEF Pop, TypeInv
  <1>5. /\ m > 0 /\ Fresh(t) => Fresh(t)'
        /\ \A l : \A i \in 0..m : Fits(t, l, i) => Fits(t, l, i)'
        /\ \A i \in 0..m : Below(t, i)' = Below(t, i)
        /\ \A i \in 1..m : Nested(t, i) => Nested(t, i)'
        /\ \A g : Home(t, g)' <=> Home(t, g)
    BY <1>3, Shared
  <1>6. FramesInv'
    <2>1. ASSUME NEW u \in Thread, u # t
          PROVE  \A i \in 1..Len(frames'[u]) :
                     (i = 1 /\ Home(u, frames[u][1])') \/ Nested(u, i)'
      BY <1>4, <2>1, Unmoved DEF FramesInv
    <2>2. ASSUME NEW i \in 1..m
          PROVE  (i = 1 /\ Home(t, frames[t][1])') \/ Nested(t, i)'
      <3>1. (i = 1 /\ Home(t, frames[t][1])) \/ Nested(t, i)
        BY <1>3 DEF FramesInv
      <3> QED
        BY <1>3, <1>5, <3>1
    <2> QED
      BY <1>3, <2>1, <2>2 DEF FramesInv
  <1>7. OwnStack'
    <2>1. ASSUME NEW u \in Thread, u # t, NEW i \in 1..Len(frames'[u])
          PROVE  \/ frames'[u][i].on = KStack(u)
                 \/ /\ u \in User \ ran'
                    /\ \E j \in 1..i : frames'[u][j].sepc = Loc(u, "exit_swap")
      BY <1>4, <2>1 DEF OwnStack
    <2>2. ASSUME NEW i \in 1..m
          PROVE  \/ frames'[t][i].on = KStack(t)
                 \/ /\ t \in User \ ran'
                    /\ \E j \in 1..i : frames'[t][j].sepc = Loc(t, "exit_swap")
      BY <1>3, <2>2 DEF OwnStack
    <2> QED
      BY <1>3, <2>1, <2>2 DEF OwnStack
  <1>8. n - 1 = m /\ m \in 0..m
    BY <1>1
  <1> QED
    BY <1>1, <1>3, <1>4, <1>5, <1>6, <1>7, <1>8

(* trap_exit_k.                                                            *)
LEMMA ExitKKeeps ==
    ASSUME TrapInv, TypeInv', ExitK
    PROVE  TrapInv'
  <1> USE DEF TrapInv, At
  <1>1. PICK t \in Thread : t = cur
    BY DEF TypeInv
  <1>2. PICK n : n = Len(frames[t])
    OBVIOUS
  <1>3. n \in Nat /\ n > 0 /\ sp[t] = Below(t, n)
    <2>1. n \in Nat /\ pc[t] = "exit" /\ Placed(t)
      BY <1>1, <1>2 DEF ExitK, ThreadsInv, TypeInv
    <2> QED
      BY <1>2, <2>1 DEF Placed, Fits, Handled, Leaving, InUser
  <1>4. Nested(t, n) /\ Top = frames[t][n] /\ Top.exit = "k"
    BY <1>1, <1>2, <1>3, TopKind DEF ExitK, Home, Top
  <1>5. PICK l \in Labels : l = Top.sepc.at
    BY <1>1, <1>2, <1>3, TopIsOwn DEF Place
  <1>6. /\ Top.spp = "S" /\ Top.spie /\ Top.sepc.thread = t
        /\ l \notin InUser \cup {"dead", "exit_swap", "exit_sret"}
        /\ Fits(t, l, n - 1) /\ Below(t, n) = Below(t, n - 1)
    <2>1. Below(t, n) = Top.on
      BY <1>3, <1>4 DEF Below
    <2> QED
      BY <1>4, <1>5, <2>1 DEF Nested
  <1>7. /\ mode' = "S" /\ sie' /\ spp' = "U" /\ Goto(l) /\ UNCHANGED <<cur, sp, ran>> /\ Pop
        /\ stvec' = "entry_k" /\ sepc' = Top.sepc
    <2>1. Sret("S", Top.spie, Top.sepc)
      BY <1>6 DEF ExitK
    <2>2. Goto(l)
      BY <1>1, <1>5, <1>6, <2>1 DEF Sret, InUser
    <2> QED
      BY <1>6, <2>1, <2>2 DEF Sret, ExitK
  <1>8. /\ FramesInv' /\ OwnStack'
        /\ n - 1 \in Nat /\ Len(frames'[t]) = n - 1
        /\ \A i \in 1..n - 1 : frames'[t][i] = frames[t][i]
        /\ n > 1 /\ Fresh(t) => Fresh(t)'
        /\ \A k : Fits(t, k, n - 1) => Fits(t, k, n - 1)'
        /\ Below(t, n - 1)' = Below(t, n - 1)
        /\ \A u \in Thread \ {t} : frames'[u] = frames[u]
    BY <1>1, <1>2, <1>3, <1>7, PopKeeps
  <1>9. \A u \in Thread : pc'[u] = IF u = t THEN l ELSE pc[u]
    BY <1>1, <1>7 DEF Goto, TypeInv
  <1>10. Placed(t)'
    BY <1>3, <1>6, <1>7, <1>8, <1>9, PlacedAt
  <1>11. ThreadsInv'
    <2>1. ASSUME NEW u \in Thread, u # t
          PROVE  Placed(u)'
      BY <1>7, <1>8, <1>9, <2>1, PlacedKept DEF ThreadsInv
    <2> QED
      BY <1>1, <1>7, <1>9, <1>10, <2>1 DEF ThreadsInv
  <1>12. pc'[cur'] = l
    BY <1>1, <1>7, <1>9
  <1>13. HartInv' /\ SretInv' /\ UserContext'
    BY <1>6, <1>7, <1>12 DEF HartInv, SretInv, UserContext
  <1>14. LeavingInv'
    <2> SUFFICES ASSUME l \in Leaving
                 PROVE  LeavingInv'
      BY <1>12 DEF LeavingInv
    <2>1. n - 1 = 1 /\ Fresh(t)
      BY <1>6 DEF Fits
    <2>2. Top' = frames[t][1] /\ Len(frames'[cur']) = 1
      BY <1>1, <1>3, <1>7, <1>8, <2>1 DEF Top
    <2>3. Top'.exit = "u" /\ Top'.spp = "U"
      BY <2>1, <2>2 DEF Fresh, Home
    <2>4. Fits(cur, pc[cur], Len(frames[cur]))'
      <3>1. Fits(t, l, n - 1)' /\ Len(frames'[t]) = n - 1
        BY <1>6, <1>8
      <3> QED
        BY <1>1, <1>7, <1>12, <3>1
    <2>5. sepc' \in Place /\ sepc'.thread = cur' /\ sepc'.at = l
      BY <1>1, <1>2, <1>3, <1>5, <1>6, <1>7, TopIsOwn
    <2>6. Clobbered'
      BY <1>6, <1>7, <2>5 DEF Clobbered, InUser
    <2> QED
      BY <1>7, <2>2, <2>3, <2>4, <2>5, <2>6 DEF LeavingInv
  <1> QED
    BY <1>8, <1>11, <1>13, <1>14

(* The end of trap_exit_u: sp and sscratch are exchanged.                  *)
LEMMA ExitSwapKeeps ==
    ASSUME TrapInv, TypeInv', ExitSwap
    PROVE  TrapInv'
  <1> USE DEF TrapInv, At, status
  <1>1. PICK t \in Thread : t = cur
    BY DEF TypeInv
  <1>2. PICK n : n = Len(frames[t])
    OBVIOUS
  <1>3. pc[t] = "exit_swap" /\ pc[t] \in Leaving
    BY <1>1 DEF ExitSwap, Leaving
  <1>4. n \in Nat /\ n > 0 /\ sp[t] = Below(t, n) /\ Top.exit = "u" /\ spp = Top.spp
    <2>1. n \in Nat /\ Placed(t)
      BY <1>1, <1>2 DEF ThreadsInv, TypeInv
    <2> QED
      BY <1>1, <1>2, <1>3, <2>1 DEF Placed, LeavingInv, InUser
  <1>5. /\ sepc \in Place /\ sepc.thread = t
        /\ sie => Fits(t, "exit_swap", n)
        /\ ~sie => spie = Top.spie
        /\ (sepc = Top.sepc /\ sscratch = Top.x2) \/ Clobbered
    BY <1>1, <1>2, <1>3 DEF LeavingInv
  <1>6. /\ Pop /\ sp'[t] = sscratch /\ sscratch' = sp[t] /\ Goto("exit_sret")
        /\ \A u \in Thread \ {t} : sp'[u] = sp[u]
        /\ UNCHANGED <<cur, mode, sie, spie, spp, sepc, stvec, ran>>
    BY <1>1 DEF ExitSwap, TypeInv
  <1>7. /\ FramesInv' /\ OwnStack'
        /\ n - 1 \in Nat /\ Len(frames'[t]) = n - 1
        /\ n = 1 => frames'[t] = <<>>
        /\ n > 1 /\ Fresh(t) => Fresh(t)'
        /\ \A u \in Thread \ {t} : frames'[u] = frames[u]
    BY <1>1, <1>2, <1>4, <1>6, PopKeeps
  <1>8. \A u \in Thread : pc'[u] = IF u = t THEN "exit_sret" ELSE pc[u]
    BY <1>1, <1>6 DEF Goto, TypeInv
  <1>9. ThreadsInv'
    <2>1. ASSUME NEW u \in Thread, u # t
          PROVE  Placed(u)'
      BY <1>6, <1>7, <1>8, <2>1, PlacedKept DEF ThreadsInv
    <2>2. Placed(t)'
      BY <1>8, PlacedAt
    <2> QED
      BY <1>1, <1>6, <1>8, <2>1, <2>2 DEF ThreadsInv
  <1>10. pc'[cur'] = "exit_sret"
    BY <1>1, <1>6, <1>8
  <1>11. mode = "S" /\ stvec = "entry_u"
    BY <1>1, <1>3 DEF HartInv, TypeInv, InUser
  <1>12. HartInv' /\ LeavingInv' /\ UserContext'
    BY <1>6, <1>10, <1>11 DEF HartInv, LeavingInv, UserContext, InUser, Leaving
  <1>13. Fits(t, "exit_swap", n) => n = 1 /\ Fresh(t)
    BY DEF Fits, Leaving
  <1>14. Below(t, n) = Top.on
    BY <1>1, <1>2, <1>4 DEF Below, Top
  <1>15. CASE n = 1 /\ Home(t, Top)
    <2>1. t \in User /\ spp = "U" /\ Top.on = KStack(t)
      BY <1>4, <1>15 DEF Home
    <2>2. sie => t \notin ran
      BY <1>5, <1>13 DEF Fresh
    <2>3. t \in ran => sepc.at = "user"
      BY <1>5, <1>15, <2>2 DEF Home, Clobbered
    <2>4. sepc.at = "user" => sscratch = UStack(t)
      BY <1>5, <1>15 DEF Home, Clobbered
    <2>5. SretInv'
      BY <1>1, <1>4, <1>5, <1>6, <1>7, <1>14, <1>15, <2>1, <2>2, <2>3, <2>4 DEF SretInv
    <2> QED
      BY <1>7, <1>9, <1>12, <2>5
  <1>16. CASE Nested(t, n) /\ Top.spp = "S"
    <2>1. ~sie
      <3>1. SUFFICES ASSUME sie
                     PROVE  FALSE
        OBVIOUS
      <3>2. n = 1 /\ Home(t, frames[t][1])
        BY <1>5, <1>13, <3>1 DEF Fresh
      <3> QED
        BY <1>1, <1>2, <1>16, <3>2 DEF Home, Top
    <2>2. sepc = Top.sepc /\ sscratch = Top.x2 /\ spie = Top.spie
      BY <1>5, <2>1 DEF Clobbered
    <2>3. /\ Top.spie /\ Top.sepc.at \in {"exit_swap", "exit_sret"}
          /\ Fits(t, Top.sepc.at, n - 1)
          /\ Top.sepc.at = "exit_swap" => Top.x2 = KStack(t)
          /\ Top.sepc.at = "exit_sret" => Top.on = KStack(t)
      BY <1>1, <1>2, <1>4, <1>16 DEF Nested, Top
    <2>4. /\ t \in User \ ran
          /\ Top.sepc.at = "exit_swap" => n - 1 = 1 /\ Fresh(t)
          /\ Top.sepc.at = "exit_sret" => n - 1 = 0
      BY <2>3 DEF Fits, Fresh, Leaving
    <2>5. CASE sepc.at = "exit_swap"
      <3>1. Len(frames'[t]) = 1 /\ Fresh(t)' /\ sp'[t] = KStack(t)
        BY <1>4, <1>6, <1>7, <2>2, <2>3, <2>4, <2>5
      <3>2. Fresh(cur)'
        BY <1>1, <1>6, <3>1
      <3>3. SretInv'
        BY <1>1, <1>4, <1>5, <1>6, <1>16, <2>1, <2>2, <2>3, <2>4, <2>5, <3>1, <3>2 DEF SretInv
      <3> QED
        BY <1>7, <1>9, <1>12, <3>3
    <2>6. CASE sepc.at = "exit_sret"
      <3>1. frames'[t] = <<>> /\ sscratch' = KStack(t)
        BY <1>4, <1>6, <1>7, <1>14, <2>2, <2>3, <2>4, <2>6
      <3>2. SretInv'
        BY <1>1, <1>4, <1>5, <1>6, <1>16, <2>1, <2>2, <2>3, <2>4, <2>6, <3>1 DEF SretInv
      <3> QED
        BY <1>7, <1>9, <1>12, <3>2
    <2> QED
      BY <2>2, <2>3, <2>5, <2>6
  <1> QED
    BY <1>1, <1>2, <1>4, <1>15, <1>16, TopKind

(* sret: into user mode, or back to where trap_exit_u was interrupted.     *)
LEMMA ExitSretKeeps ==
    ASSUME TrapInv, TypeInv', ExitSret
    PROVE  TrapInv'
  <1> USE DEF TrapInv, At
  <1>1. PICK t \in Thread : t = cur
    BY DEF TypeInv
  <1>2. pc[t] = "exit_sret" /\ UNCHANGED <<cur, sp, frames, sepc, sscratch, stvec>>
    BY <1>1 DEF ExitSret
  <1>3. /\ t \in User /\ sepc \in Place /\ sepc.thread = t
        /\ t \in ran => spp = "U" /\ sepc.at = "user"
        /\ spp = "U" => /\ frames[t] = <<>> /\ sscratch = KStack(t)
                        /\ sepc.at = "user" => sp[t] = UStack(t)
        /\ spp = "S" => /\ spie
                        /\ \/ /\ sepc.at = "exit_swap" /\ Len(frames[t]) = 1 /\ Fresh(t)
                              /\ sp[t] = KStack(t)
                           \/ /\ sepc.at = "exit_sret" /\ frames[t] = <<>>
                              /\ sscratch = KStack(t)
    BY <1>1, <1>2 DEF SretInv
  <1>4. stvec = "entry_u"
    BY <1>1, <1>2 DEF HartInv
  <1>5. PICK l \in Labels : l = sepc.at
    BY <1>3 DEF Place
  <1>6. sepc = Loc(t, l)
    BY <1>3, <1>5 DEF Place, Loc
  <1>7. mode' = spp /\ sie' = spie /\ spp' = "U" /\ Sret(spp, spie, sepc)
    BY DEF ExitSret, Sret
  <1>8. ASSUME NEW k, Goto(k), \A u \in Thread \ {t} : u \in ran' <=> u \in ran, Placed(t)'
        PROVE  pc'[cur'] = k /\ ThreadsInv'
    <2>1. \A u \in Thread : pc'[u] = IF u = t THEN k ELSE pc[u]
      BY <1>1, <1>8 DEF Goto, TypeInv
    <2>2. ASSUME NEW u \in Thread, u # t
          PROVE  Placed(u)'
      BY <1>2, <1>8, <2>1, <2>2, PlacedKept DEF ThreadsInv
    <2> QED
      BY <1>1, <1>2, <1>8, <2>1, <2>2 DEF ThreadsInv
  <1>9. CASE spp = "U"
    <2>1. PICK k \in InUser : Goto(k) /\ (k = "user" <=> l = "user")
      BY <1>1, <1>3, <1>5, <1>7, <1>9 DEF Sret, InUser
    <2>2. ran' = IF l = "user" THEN ran \cup {t} ELSE ran
      BY <1>1, <1>6, <1>7, <1>9 DEF Sret, Loc
    <2>3. \A u \in Thread \ {t} : u \in ran' <=> u \in ran
      BY <2>2
    <2>4. k = "astray" => t \notin ran'
      BY <1>3, <1>5, <2>1, <2>2
    <2>5. pc'[t] = k /\ frames'[t] = <<>> /\ Len(frames'[t]) = 0
      BY <1>1, <1>2, <1>3, <1>9, <2>1 DEF Goto, TypeInv
    <2>6. Placed(t)'
      <3>1. Fits(t, k, 0)'
        BY <1>3, <2>1, <2>4 DEF Fits, InUser, Handled, Leaving
      <3> QED
        BY <2>1, <2>5, <3>1, PlacedAt
    <2>7. pc'[cur'] = k /\ ThreadsInv'
      BY <1>8, <2>1, <2>3, <2>6
    <2>8. HartInv' /\ LeavingInv' /\ SretInv' /\ UserContext'
      <3>1. k \notin Leaving \cup {"exit_sret", "dead"} /\ k \in InUser
        BY <2>1 DEF InUser, Leaving
      <3>2. HartInv' /\ LeavingInv' /\ SretInv'
        BY <1>2, <1>4, <1>7, <1>9, <2>7, <3>1 DEF HartInv, LeavingInv, SretInv
      <3>3. UserContext'
        BY <1>1, <1>2, <1>3, <1>4, <1>5, <1>9, <2>1, <2>5, <2>7 DEF UserContext
      <3> QED
        BY <3>2, <3>3
    <2>9. FramesInv'
      <3>1. ASSUME NEW u \in Thread, u # t
            PROVE  \A i \in 1..Len(frames'[u]) :
                       (i = 1 /\ Home(u, frames[u][1])') \/ Nested(u, i)'
        BY <1>2, <2>3, <3>1, Unmoved DEF FramesInv
      <3> QED
        BY <2>5, <3>1 DEF FramesInv
    <2>10. OwnStack'
      <3>1. ASSUME NEW u \in Thread, u # t, NEW i \in 1..Len(frames'[u])
            PROVE  \/ frames'[u][i].on = KStack(u)
                   \/ /\ u \in User \ ran'
                      /\ \E j \in 1..i : frames'[u][j].sepc = Loc(u, "exit_swap")
        BY <1>2, <2>3, <3>1 DEF OwnStack
      <3> QED
        BY <2>5, <3>1 DEF OwnStack
    <2> QED
      BY <2>7, <2>8, <2>9, <2>10
  <1>10. CASE spp = "S"
    <2>1. Goto(l) /\ UNCHANGED ran /\ l \in {"exit_swap", "exit_sret"} /\ sie'
      BY <1>1, <1>3, <1>5, <1>7, <1>10 DEF Sret, InUser
    <2>2. FramesInv' /\ OwnStack'
      BY <1>2, <2>1, FramesKept
    <2>3. pc'[t] = l
      BY <1>1, <2>1 DEF Goto, TypeInv
    <2>4. (\A i : Below(t, i)' = Below(t, i)) /\ (Fresh(t)' <=> Fresh(t))
      BY <1>2, <2>1, Unmoved
    <2>5. Placed(t)'
      <3>1. CASE l = "exit_sret"
        BY <2>3, <3>1, PlacedAt
      <3>2. CASE l = "exit_swap"
        <4>1. sp[t] = Below(t, 1) /\ Len(frames[t]) = 1
          BY <1>3, <1>5, <1>10, <3>2 DEF Fresh, Home, Below
        <4> QED
          BY <1>2, <2>3, <2>4, <3>2, <4>1, PlacedAt DEF Leaving
      <3> QED
        BY <2>1, <3>1, <3>2
    <2>6. pc'[cur'] = l /\ ThreadsInv'
      BY <1>8, <2>1, <2>5
    <2>7. HartInv' /\ UserContext'
      BY <1>2, <1>4, <1>7, <1>10, <2>1, <2>6 DEF HartInv, UserContext, InUser
    <2>8. SretInv'
      BY <1>1, <1>2, <1>3, <1>5, <1>7, <1>10, <2>1, <2>6 DEF SretInv
    <2>9. LeavingInv'
      <3> SUFFICES ASSUME l = "exit_swap"
                   PROVE  LeavingInv'
        BY <2>1, <2>6 DEF LeavingInv, Leaving
      <3>1. Len(frames[t]) = 1 /\ Fresh(t)
        BY <1>3, <1>5, <1>10
      <3>2. Top' = frames[t][1] /\ Len(frames'[cur']) = 1
        BY <1>1, <1>2, <3>1 DEF Top
      <3>3. Top'.exit = "u" /\ Top'.spp = "U"
        BY <3>1, <3>2 DEF Fresh, Home
      <3>4. Fresh(cur)'
        BY <1>1, <1>2, <2>4, <3>1
      <3>5. Fits(cur, pc[cur], Len(frames[cur]))'
        BY <2>6, <3>2, <3>4 DEF Fits, Leaving, Handled, InUser
      <3>6. sepc' \in Place /\ sepc'.thread = cur' /\ Clobbered'
        BY <1>1, <1>2, <1>3, <1>5, <2>1 DEF Clobbered
      <3> QED
        BY <1>7, <2>1, <3>2, <3>3, <3>5, <3>6 DEF LeavingInv
    <2> QED
      BY <2>2, <2>6, <2>7, <2>8, <2>9
  <1> QED
    BY <1>9, <1>10 DEF TypeInv

-----------------------------------------------------------------------------
(* The invariant holds at first.                                           *)
LEMMA InitHolds == Init => TrapInv
  <1> SUFFICES ASSUME Init
               PROVE  TrapInv
    OBVIOUS
  <1> USE TrapsAssumption DEF Init
  <1>1. TypeInv
    <2>1. \A t \in Thread : KStack(t) \in Stack
      BY DEF KStack, Stack
    <2>2. sp \in [Thread -> Stack \cup {NoAddr}] /\ pc \in [Thread -> Labels]
      BY <2>1 DEF Labels
    <2>3. frames \in [Thread -> Seq(Frame)]
      OBVIOUS
    <2>4. cur \in Thread /\ sie \in BOOLEAN /\ spie \in BOOLEAN
      BY DEF Thread
    <2> QED
      BY <2>2, <2>3, <2>4 DEF TypeInv
  <1>2. \A t \in Thread : Len(frames[t]) = 0
    OBVIOUS
  <1>3. FramesInv /\ OwnStack
    BY <1>2 DEF FramesInv, OwnStack
  <1>4. cur \in Thread /\ pc[cur] = "kernel"
    BY DEF Thread
  <1>5. ThreadsInv
    BY <1>2 DEF ThreadsInv, Placed, Fits, Below, InUser, Handled, Leaving
  <1>6. HartInv /\ LeavingInv /\ SretInv /\ UserContext
    BY <1>4 DEF HartInv, LeavingInv, SretInv, UserContext, InUser, Leaving
  <1> QED
    BY <1>1, <1>3, <1>5, <1>6 DEF TrapInv

(* TrapInv is an inductive invariant of the way into the kernel and back.  *)
THEOREM TrapInvariant == Spec => []TrapInv
  <1>1. TrapInv /\ [Next]_vars => TrapInv'
    <2> SUFFICES ASSUME TrapInv, [Next]_vars
                 PROVE  TrapInv'
      OBVIOUS
    <2>1. TypeInv'
      BY TypeKeeps DEF TrapInv
    <2>2. CASE UNCHANGED vars
      <3>1. UNCHANGED <<cur, mode, pc, sp, frames, sie, spie, spp, sepc, sscratch, stvec, ran>>
        BY <2>2 DEF vars, csrs, status
      <3>2. FramesInv' /\ OwnStack'
        BY <3>1, FramesKept DEF TrapInv
      <3>3. \A t \in Thread : Placed(t)'
        BY <3>1, PlacedKept DEF TrapInv, ThreadsInv
      <3>4. ThreadsInv'
        BY <3>1, <3>3 DEF TrapInv, ThreadsInv
      <3>5. (Fresh(cur)' <=> Fresh(cur))
            /\ (Fits(cur, pc[cur], Len(frames[cur]))' <=> Fits(cur, pc[cur], Len(frames[cur])))
        BY <3>1 DEF Fits, Fresh, Home
      <3>6. HartInv' /\ LeavingInv' /\ SretInv' /\ UserContext'
        BY <3>1, <3>5
        DEF TrapInv, HartInv, LeavingInv, SretInv, UserContext, Clobbered, Top
      <3> QED
        BY <2>1, <3>2, <3>4, <3>6 DEF TrapInv
    <2> QED
      BY <2>1, <2>2, HandlersKeep, LeavingKeeps, StartKeeps, EntryKeeps, ExitKKeeps,
         ExitSwapKeeps, ExitSretKeeps
      DEF Next, Exit
  <1> QED
    BY InitHolds, <1>1, PTL DEF Spec

(* In user mode the CSRs are set up for the next trap of the process that  *)
(* runs.                                                                   *)
THEOREM UserModeReady == Spec => []UserContext
  <1>1. TrapInv => UserContext
    BY DEF TrapInv
  <1> QED
    BY <1>1, TrapInvariant, PTL

(* A process that has got to its user code comes back to it from every     *)
(* trap.                                                                   *)
THEOREM AlwaysHome == Spec => []ReturnsHome
  <1>1. TrapInv => ReturnsHome
    <2> SUFFICES ASSUME TrapInv, NEW t \in Thread, pc[t] = "astray"
                 PROVE  t \in User \ ran /\ (cur = t => mode = "U")
      BY DEF ReturnsHome
    <2>1. Fits(t, "astray", Len(frames[t]))
      BY DEF TrapInv, ThreadsInv, Placed, Leaving
    <2> QED
      BY <2>1 DEF TrapInv, HartInv, Fits, InUser
  <1> QED
    BY <1>1, TrapInvariant, PTL

(* A trap is handled on the kernel stack of the thread that it interrupts, *)
(* but for the first way of a process to user mode.                        *)
THEOREM StacksOwned == Spec => []OwnStack
  <1>1. TrapInv => OwnStack
    BY DEF TrapInv
  <1> QED
    BY <1>1, TrapInvariant, PTL
==============================================================================
