-------------------------------- MODULE Traps --------------------------------
(***************************************************************************)
(* trap.rs: how a hart gets into the kernel and back.  pc and sp are what  *)
(* a thread has in its registers; switch saves and loads them.  The CSRs   *)
(* are the hart's own, and a switch of threads leaves them alone.          *)
(*                                                                         *)
(* trap_entry_u, trap_entry_k and the begin of trap_handler run with       *)
(* interrupts masked, and so does trap_exit_k from its first csrw: each is *)
(* one step.  trap_exit_u is taken apart, since the frame that start()     *)
(* makes lets interrupts in.  Interrupts that sbi::interrupt::set shuts    *)
(* out are not: a thread in the kernel may be interrupted anywhere.        *)
(***************************************************************************)
EXTENDS Integers, Sequences

CONSTANTS
    Kernel,     \* the threads without a user process, the idle thread among them
    User,       \* the threads that run a user process
    NoAddr,     \* what a register holds before it is first written
    MaxFrames   \* bound: the frames on the stack of a thread

Thread == Kernel \cup User

ASSUME TrapsAssumption ==
    /\ Kernel # {} /\ Kernel \cap User = {}
    /\ MaxFrames \in Nat \ {0}

VARIABLES
    cur,                    \* the running thread
    mode,                   \* of the hart: "U" or "S"
    pc, sp,                 \* of each thread
    frames,                 \* of each thread: the Frames on its stack, the last on top
    sie, spie, spp,         \* sstatus
    sepc, sscratch, stvec,
    ran                     \* history: the processes that have got to their user code

status == <<sie, spie, spp>>
csrs   == <<status, sepc, sscratch, stvec>>
vars   == <<cur, mode, pc, sp, frames, csrs, ran>>

(* The two stacks of a thread.                                             *)
KStack(t) == [stack |-> "kernel", of |-> t]
UStack(t) == [stack |-> "user", of |-> t]

(* sepc: where which thread goes on.                                       *)
Loc(t, l) == [thread |-> t, at |-> l]

Init ==
    /\ cur \in Kernel
    /\ mode = "S"
    /\ pc = [t \in Thread |-> IF t \in User THEN "start" ELSE "kernel"]
    /\ sp = [t \in Thread |-> KStack(t)]
    /\ frames = [t \in Thread |-> <<>>]
    /\ sie = TRUE /\ spie = FALSE /\ spp = "U"
    /\ sepc = NoAddr /\ sscratch = NoAddr /\ stvec = "entry_k"
    /\ ran = {}

-----------------------------------------------------------------------------
At(l) == pc[cur] = l
Goto(l) == pc' = [pc EXCEPT ![cur] = l]
Top == frames[cur][Len(frames[cur])]

(* schedule() of a thread that could go on; switch has the registers only. *)
Switches == cur' \in {t \in Thread : pc[t] # "dead"}

(* userproc::start.  The frame gets sstatus as it is, SIE included.        *)
Start ==
    /\ At("start")
    /\ spp' = "U"
    /\ frames' = [frames EXCEPT ![cur] = Append(@,
           [sie |-> sie, spie |-> spie, spp |-> "U", sepc |-> Loc(cur, "user"),
            x2 |-> UStack(cur), on |-> sp[cur], exit |-> "u"])]
    /\ Goto("exit")
    /\ UNCHANGED <<cur, mode, sp, sie, spie, sepc, sscratch, stvec, ran>>

(* A thread in the kernel calls schedule().                                *)
Yield ==
    /\ At("kernel")
    /\ Switches
    /\ UNCHANGED <<mode, pc, sp, frames, csrs, ran>>

-----------------------------------------------------------------------------
(* The stack that the entry code goes on with: trap_entry_u exchanges sp   *)
(* and sscratch, trap_entry_k stays where it is.                           *)
EntryStack == IF stvec = "entry_u" THEN sscratch ELSE sp[cur]

(* The Frame that it stores there; trap_entry_k leaves x2 out.  exit is    *)
(* the label behind the call of trap_handler.                              *)
SavedFrame ==
    [sie |-> FALSE, spie |-> sie, spp |-> mode, sepc |-> Loc(cur, pc[cur]),
     x2 |-> IF stvec = "entry_u" THEN sp[cur] ELSE NoAddr, on |-> EntryStack,
     exit |-> IF stvec = "entry_u" THEN "u" ELSE "k"]

(* The hart takes a trap, and the entry code runs.                         *)
TrapEntry(kind) ==
    /\ Len(frames[cur]) < MaxFrames
    /\ frames' = [frames EXCEPT ![cur] = Append(@, SavedFrame)]
    /\ sp' = [sp EXCEPT ![cur] = EntryStack]
    /\ sscratch' = IF stvec = "entry_u" THEN sp[cur] ELSE sscratch
    /\ mode' = "S" /\ spp' = mode
    /\ spie' = sie /\ sie' = FALSE
    /\ sepc' = Loc(cur, pc[cur])
    /\ Goto(kind)
    /\ UNCHANGED <<cur, ran>>

(* Mutant: trap_handler does not set stvec for the kernel.                 *)
Enter_no_strap(kind) == TrapEntry(kind) /\ UNCHANGED stvec

(* trap_handler begins with set_strap_entry.                               *)
Enter(kind) == TrapEntry(kind) /\ stvec' = "entry_k"

Interruptible == mode = "U" \/ sie

TimerTrap == Interruptible /\ Enter("timer")
ExternalTrap == Interruptible /\ Enter("external")
Ecall == At("user") /\ Enter("ecall")

(* User code may fault; code at a kernel address can do nothing else in    *)
(* user mode.                                                              *)
Fault == mode = "U" /\ Enter("fault")

-----------------------------------------------------------------------------
(* trap_handler.  A timer trap sets SIE and calls schedule().              *)
TimerSie ==
    /\ At("timer")
    /\ sie' = TRUE
    /\ Goto("schedule")
    /\ UNCHANGED <<cur, mode, sp, frames, spie, spp, sepc, sscratch, stvec, ran>>

TimerSchedule ==
    /\ At("schedule")
    /\ Goto("exit")
    /\ Switches
    /\ UNCHANGED <<mode, sp, frames, csrs, ran>>

(* An external interrupt leaves SIE alone, though up() may switch threads. *)
ExternalHandler ==
    /\ At("external")
    /\ Goto("exit")
    /\ Switches
    /\ UNCHANGED <<mode, sp, frames, csrs, ran>>

(* sepc is moved past the ecall, which is another place in user code.      *)
EcallHandler ==
    /\ At("ecall")
    /\ sie' = TRUE
    /\ Goto("exit")
    /\ UNCHANGED <<cur, mode, sp, frames, spie, spp, sepc, sscratch, stvec, ran>>

(* pagefault::handler of a fault in user mode, then userproc::exit.        *)
FaultHandler ==
    /\ At("fault") /\ Top.spp = "U"
    /\ sie' = TRUE
    /\ Goto("dying")
    /\ UNCHANGED <<cur, mode, sp, frames, spie, spp, sepc, sscratch, stvec, ran>>

Die ==
    /\ At("dying")
    /\ Goto("dead")
    /\ cur' \in {t \in Thread \ {cur} : pc[t] # "dead"}
    /\ UNCHANGED <<mode, sp, frames, csrs, ran>>

-----------------------------------------------------------------------------
(* sret, with sstatus and sepc as given.  A thread goes astray that comes  *)
(* to user mode at a kernel address, and one that goes on in the kernel    *)
(* where another one stopped.                                              *)
Sret(to, ie, at) ==
    /\ mode' = to
    /\ sie' = ie /\ spie' = TRUE /\ spp' = "U"
    /\ Goto(IF at.thread = cur /\ (to = "U" <=> at.at \in {"user", "astray"})
            THEN at.at ELSE "astray")
    /\ ran' = IF to = "U" /\ at = Loc(cur, "user") THEN ran \cup {cur} ELSE ran

Pop == frames' = [frames EXCEPT ![cur] = SubSeq(@, 1, Len(@) - 1)]

ExitK ==
    /\ At("exit") /\ Top.exit = "k"
    /\ sepc' = Top.sepc
    /\ stvec' = "entry_k"
    /\ Pop
    /\ Sret(Top.spp, Top.spie, Top.sepc)
    /\ UNCHANGED <<cur, sp, sscratch>>

(* Mutant: sstatus is left as the handler has it.                          *)
ExitStatus_kept ==
    /\ At("exit") /\ Top.exit = "u"
    /\ Goto("exit_sepc")
    /\ UNCHANGED <<cur, mode, sp, frames, status, sepc, sscratch, stvec, ran>>

(* trap_exit_u, one csrw after the other.                                  *)
ExitStatus ==
    /\ At("exit") /\ Top.exit = "u"
    /\ sie' = Top.sie /\ spie' = Top.spie /\ spp' = Top.spp
    /\ Goto("exit_sepc")
    /\ UNCHANGED <<cur, mode, sp, frames, sepc, sscratch, stvec, ran>>

ExitSepc ==
    /\ At("exit_sepc")
    /\ sepc' = Top.sepc
    /\ Goto("exit_sscratch")
    /\ UNCHANGED <<cur, mode, sp, frames, status, sscratch, stvec, ran>>

ExitSscratch ==
    /\ At("exit_sscratch")
    /\ sscratch' = Top.x2
    /\ Goto("exit_stvec")
    /\ UNCHANGED <<cur, mode, sp, frames, status, sepc, stvec, ran>>

ExitStvec ==
    /\ At("exit_stvec")
    /\ stvec' = "entry_u"
    /\ Goto("exit_swap")
    /\ UNCHANGED <<cur, mode, sp, frames, status, sepc, sscratch, ran>>

(* Mutant: sp is loaded, and sscratch is not given the kernel stack.       *)
ExitSwap_load ==
    /\ At("exit_swap")
    /\ Pop
    /\ sp' = [sp EXCEPT ![cur] = sscratch]
    /\ Goto("exit_sret")
    /\ UNCHANGED <<cur, mode, status, sepc, sscratch, stvec, ran>>

(* The other registers are loaded, the frame is popped, sp and sscratch    *)
(* are exchanged.                                                          *)
ExitSwap ==
    /\ At("exit_swap")
    /\ Pop
    /\ sp' = [sp EXCEPT ![cur] = sscratch]
    /\ sscratch' = sp[cur]
    /\ Goto("exit_sret")
    /\ UNCHANGED <<cur, mode, status, sepc, stvec, ran>>

ExitSret ==
    /\ At("exit_sret")
    /\ Sret(spp, spie, sepc)
    /\ UNCHANGED <<cur, sp, frames, sepc, sscratch, stvec>>

-----------------------------------------------------------------------------
Trap == TimerTrap \/ ExternalTrap \/ Ecall \/ Fault
Handler == TimerSie \/ TimerSchedule \/ ExternalHandler \/ EcallHandler \/ FaultHandler \/ Die
Exit == ExitK \/ ExitStatus \/ ExitSepc \/ ExitSscratch \/ ExitStvec \/ ExitSwap \/ ExitSret

Next == Start \/ Yield \/ Trap \/ Handler \/ Exit

Spec == Init /\ [][Next]_vars

-----------------------------------------------------------------------------
(* User mode: the hart is set up for the next trap of the running process. *)
(* trap_entry_u will find the process's own, empty kernel stack, and its   *)
(* user code has its user stack.                                           *)
UserContext ==
    mode = "U" =>
        /\ stvec = "entry_u" /\ sscratch = KStack(cur)
        /\ frames[cur] = <<>>
        /\ pc[cur] = "user" => sp[cur] = UStack(cur)

(* A process that has once got to its user code always comes back to it    *)
(* from a trap, whatever the other threads do with the CSRs meanwhile.     *)
ReturnsHome ==
    \A t \in Thread : pc[t] = "astray" => t \in User \ ran /\ (cur = t => mode = "U")

(* Every trap is handled on the kernel stack of the thread that it         *)
(* interrupts.  The exception is a process on its first way to user mode,  *)
(* interrupted between the csrw of stvec and the exchange of sp: that      *)
(* frame, and those above it, are wherever sscratch points.                *)
OwnStack ==
    \A t \in Thread : \A i \in 1..Len(frames[t]) :
        \/ frames[t][i].on = KStack(t)
        \/ /\ t \in User \ ran
           /\ \E j \in 1..i : frames[t][j].sepc = Loc(t, "exit_swap")
==============================================================================
