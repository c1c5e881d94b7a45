---------------------------- MODULE VirtualHarts ----------------------------
(***************************************************************************)
(* What the kernel promises to a user program: a hart of its own.          *)
(*                                                                         *)
(* Every live task has a private program counter, stack pointer, register  *)
(* file and memory.  Nothing but the task's own instructions and system    *)
(* calls changes them; there is no scheduler, no trap frame, no page       *)
(* table and no timer here.  A system call is one step that moves the      *)
(* program counter past the ecall and, for some calls, writes a0.  fork    *)
(* makes a second hart that differs from the first only in a0.             *)
(*                                                                         *)
(* There is one exception, because the kernel has it: the character that a *)
(* read stores may land in the memory of any hart (StrayRead), or in the   *)
(* kernel itself (Overwrite), and then nothing is promised any more.       *)
(*                                                                         *)
(* Module Kernel implements this specification (its property               *)
(* ImplementsVirtualHarts) by multiplexing the tasks on one hart.          *)
(***************************************************************************)
EXTENDS Integers

CONSTANTS
    Task,            \* task numbers
    Pc,              \* 0 .. n: indices of user instructions
    UserSp,          \* values of a user stack pointer
    Reg,             \* general registers, "a0" among them
    UserVal,         \* values a user instruction puts in a register or in memory
    BOOT_ENTRY,      \* first instruction of the boot program
    ENTRY,           \* first instruction of the program that execve loads
    USER_STACK_TOP,  \* the stack pointer of a fresh program
    IMAGE_WORD       \* memory of a fresh program

VARIABLES
    vcpu,   \* a function from the live tasks to their private harts
    intact  \* no store of the kernel has hit the kernel itself

vars == <<vcpu, intact>>

Live == DOMAIN vcpu

VHart(pc, sp, regs, mem) == [pc |-> pc, sp |-> sp, regs |-> regs, mem |-> mem]

ClearRegs == [r \in Reg |-> 0]

Fresh(pc, mem) == VHart(pc, USER_STACK_TOP, ClearRegs, mem)

\* The boot program of task 0 is the only one to begin with.
Init == vcpu = [t \in {0} |-> Fresh(BOOT_ENTRY, 0)] /\ intact = TRUE

Become(t, h) == vcpu' = [vcpu EXCEPT ![t] = h]

\* h with v in register r.
WithReg(h, r, v) == [h EXCEPT !.regs = [h.regs EXCEPT ![r] = v]]

\* h after a system call that returns v in a0.
Returned(h, v) == [WithReg(h, "a0", v) EXCEPT !.pc = h.pc + 1]

Instruction(t) ==
    \/ \E p \in Pc : Become(t, [vcpu[t] EXCEPT !.pc = p])
    \/ \E s \in UserSp : Become(t, [vcpu[t] EXCEPT !.sp = s])
    \/ \E r \in Reg, v \in UserVal : Become(t, WithReg(vcpu[t], r, v))
    \/ \E v \in UserVal : Become(t, [vcpu[t] EXCEPT !.mem = v])

MayCall(t) == vcpu[t].pc + 1 \in Pc

\* write, sched_yield, a failed execve, an unknown system call number
Call(t) == MayCall(t) /\ Become(t, [vcpu[t] EXCEPT !.pc = @ + 1])

Read(t) == MayCall(t) /\ \E n \in {-1, 1} : Become(t, Returned(vcpu[t], n))

\* A read that answers 1 and puts the character where it may not belong.
StrayRead(t) ==
    /\ MayCall(t)
    /\ \E u \in Live, v \in UserVal :
          vcpu' = [vcpu EXCEPT ![t] = Returned(vcpu[t], 1), ![u].mem = v]

\* A read that writes over the kernel.
Overwrite(t) == MayCall(t) /\ ~intact'

Clone(t) ==
    /\ MayCall(t)
    /\ IF Live = Task
         THEN Become(t, Returned(vcpu[t], -1))
         ELSE \E child \in Task \ Live :
                vcpu' = [u \in Live \cup {child} |->
                            CASE u = child -> Returned(vcpu[t], 0)
                              [] u = t     -> Returned(vcpu[t], child)
                              [] OTHER     -> vcpu[u]]

Exit(t) == vcpu' = [u \in Live \ {t} |-> vcpu[u]]

Execve(t) == Become(t, Fresh(ENTRY, IMAGE_WORD))

Step(t) ==
    \/ Instruction(t) \/ Call(t) \/ Read(t) \/ StrayRead(t)
    \/ Clone(t) \/ Exit(t) \/ Execve(t)

Next ==
    \/ intact /\ intact' /\ \E t \in Live : Step(t)
    \/ intact /\ \E t \in Live : Overwrite(t)
    \/ ~intact /\ ~intact'

Spec == Init /\ [][Next]_vars
=============================================================================
