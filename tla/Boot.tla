-------------------------------- MODULE Boot --------------------------------
(***************************************************************************)
(* From reset to user mode: kernel/boot.S, os_main of kernel/main.c, the   *)
(* functions os_main calls and the first trap_return, over the state of    *)
(* module Kernel, whose initial state is what boot has to arrive at.       *)
(*                                                                         *)
(* All harts leave reset at _start at the same time.  The RAM may hold     *)
(* anything then; .data is part of the loaded image, .bss is not.          *)
(* timer_init enables machine mode interrupts (timer.c:42), and they stay  *)
(* enabled until the mret of the first trap_return; every later one runs   *)
(* with them off, because a trap turns them off.                           *)
(***************************************************************************)
EXTENDS Kernel, Sequences

CONSTANTS
    Harts,
    BOOT_STACK,  \* the top of `stacks` of boot.S
    WILD,        \* a pointer to no page
    KERNEL_PGD   \* root_page_table, which mmu_init builds

ASSUME BootAssumption == 0 \in Harts /\ WILD \notin Pgds

VARIABLES
    at,          \* where each hart is
    mtvec,
    pmp_open,    \* PMP entry 0 gives user mode all addresses
    mtie,        \* mie.MTIE
    mstatus_mie  \* mstatus.MIE, which counts in machine mode

bootVars == <<vars, at, mtvec, pmp_open, mtie, mstatus_mie>>
csrs     == <<mtvec, pmp_open, mtie, mstatus_mie>>

\* A context in a .bss that is not cleared yet.
GarbageContext == [ra |-> "none", sp |-> NULL, satp |-> WILD]

BootInit ==
    /\ at = [h \in Harts |-> "_start"]
    /\ task_states = [t \in Task |-> TASK_DEAD]
    /\ current_task \in Task
    /\ tasks \in {[t \in Task |-> c] : c \in {NullContext, GarbageContext}}
    /\ frame \in {[t \in Task |-> f] : f \in {NullFrame, FreshFrame(0)}}
    /\ free_pgds \in {{}, {WILD}}
    /\ mem \in [Pgds -> {0, IMAGE_WORD}]
    /\ kepc = [t \in Task |-> 0]
    /\ phase = "boot" /\ cause = "timer" /\ pc = 0
    /\ sp = NULL /\ regs = [r \in Reg |-> CLOBBERED]
    /\ mscratch = NULL /\ satp = NULL
    /\ mtvec = NULL /\ pmp_open = FALSE /\ mtie = FALSE /\ mstatus_mie = FALSE
    /\ mtip = FALSE /\ rx = NULL

\* A timer interrupt that hart 0 takes before its next instruction.
Pending == phase \in {"boot", "trap_return"} /\ mtip /\ mtie /\ mstatus_mie

\* Mutants: the timer is started first; the kernel's page table is built
\* before there are pages.
BugOrder ==
    <<"os_main", "mmu_init", "timer_mie", "timer_mstatus", "pmp", "mtvec",
      "task_init", "satp", "task_wrapper", "trap_return">>
BugOrderOfPages ==
    <<"mmu_init", "os_main", "pmp", "mtvec", "task_init", "timer_mie",
      "timer_mstatus", "satp", "task_wrapper", "trap_return">>

\* The statements of os_main in their order; timer_init is two of them.
Order ==
    <<"os_main", "mmu_init", "pmp", "mtvec", "task_init", "timer_mie",
      "timer_mstatus", "satp", "task_wrapper", "trap_return">>

-----------------------------------------------------------------------------
(***************************************************************************)
(* boot.S                                                                  *)
(***************************************************************************)

\* Mutants: no hart is parked; the branch is the wrong way round.
BugBoots(h) == TRUE
BugBootsOthers(h) == h # 0

\* The hart that goes on; the others wait in `park` for ever.
Boots(h) == h = 0

Start(h) ==
    /\ at[h] = "_start"
    /\ at' = [at EXCEPT ![h] = IF Boots(h) THEN "clear_bss" ELSE "park"]
    /\ UNCHANGED <<vars, csrs>>

\* The loop over .bss, then the stack.  task_states is in .data.
ClearBss(h) ==
    /\ at[h] = "clear_bss"
    /\ current_task' = 0
    /\ tasks' = [t \in Task |-> NullContext]
    /\ frame' = [t \in Task |-> NullFrame]
    /\ free_pgds' = {}
    /\ sp' = IF h = 0 THEN BOOT_STACK ELSE sp
    /\ at' = [at EXCEPT ![h] = Order[1]]
    /\ UNCHANGED <<task_states, kepc, mem, phase, cause, pc, regs, mscratch, satp,
                   devVars, csrs>>

-----------------------------------------------------------------------------
(***************************************************************************)
(* os_main                                                                 *)
(***************************************************************************)

\* Hart 0 executes the statement of os_main with this label.
Statement(label) ==
    /\ phase = "boot" /\ ~Pending
    /\ \E k \in 1 .. Len(Order) - 1 :
          at[0] = label /\ Order[k] = label /\ at' = [at EXCEPT ![0] = Order[k + 1]]

\* page_init puts every page in front of what free_list is.
PageInit ==
    /\ Statement("os_main")
    /\ free_pgds' = free_pgds \cup Pgds
    /\ UNCHANGED <<taskVars, mem, hartVars, devVars, csrs>>

\* mmu_init builds the kernel's page table of free pages; alloc_page would
\* spin without any.  Its satp does not count in machine mode.
MmuInit ==
    /\ Statement("mmu_init")
    /\ free_pgds # {}
    /\ satp' = KERNEL_PGD
    /\ UNCHANGED <<taskVars, memVars, phase, cause, pc, sp, regs, mscratch, devVars, csrs>>

OpenPmp ==
    /\ Statement("pmp")
    /\ pmp_open' = TRUE
    /\ UNCHANGED <<vars, mtvec, mtie, mstatus_mie>>

SetVector ==
    /\ Statement("mtvec")
    /\ mtvec' = "trap_vector"
    /\ UNCHANGED <<vars, pmp_open, mtie, mstatus_mie>>

\* task_init(0, task_shell); alloc_page zeroes what it returns.
TaskInit ==
    /\ Statement("task_init")
    /\ \E pgd \in free_pgds :
        /\ free_pgds' = free_pgds \ {pgd}
        /\ mem' = [p \in Pgds |-> IF p = pgd THEN 0 ELSE mem[p]]
        /\ frame' = [frame EXCEPT ![0] = FreshFrame(BOOT_ENTRY)]
        /\ tasks' = [tasks EXCEPT ![0] = FreshContext(0, pgd)]
        /\ task_states' = [task_states EXCEPT ![0] = TASK_READY]
    /\ UNCHANGED <<current_task, kepc, hartVars, devVars, csrs>>

\* timer_init sets mtimecmp one second ahead, which takes the interrupt back.
TimerMie ==
    /\ Statement("timer_mie")
    /\ mtip' = FALSE
    /\ mtie' = TRUE
    /\ UNCHANGED <<taskVars, memVars, hartVars, rx, mtvec, pmp_open, mstatus_mie>>

TimerMstatus ==
    /\ Statement("timer_mstatus")
    /\ mstatus_mie' = TRUE
    /\ UNCHANGED <<vars, mtvec, pmp_open, mtie>>

SetSatp ==
    /\ Statement("satp")
    /\ satp' = tasks[0].satp
    /\ UNCHANGED <<taskVars, memVars, phase, cause, pc, sp, regs, mscratch, devVars, csrs>>

TaskWrapper ==
    /\ Statement("task_wrapper")
    /\ task_states' = [task_states EXCEPT ![current_task] = TASK_RUNNING]
    /\ sp' = tasks[current_task].sp
    /\ phase' = "trap_return"
    /\ UNCHANGED <<current_task, tasks, frame, kepc, memVars, cause, pc, regs, mscratch,
                   satp, devVars, csrs>>

\* The second that timer_init asks for is over before boot is.
EarlyTick ==
    /\ phase \in {"boot", "trap_return"} /\ mtie
    /\ mtip' = TRUE
    /\ UNCHANGED <<taskVars, memVars, hartVars, rx, at, csrs>>

(***************************************************************************)
(* A trap from machine mode.  trap_vector takes for a kernel stack what is *)
(* in mscratch: zero, or from trap.S:65 on the user's sp.  There is no RAM *)
(* below either physical address, so the frame and the return addresses    *)
(* pushed there are lost or the push faults, and the fault that ends this  *)
(* is a panic.  After trap.S:104 it is the kernel stack, but trap_return   *)
(* then goes back to the mret in user mode, which is a panic too.          *)
(***************************************************************************)
BootTrap ==
    /\ Pending
    /\ phase' = "stuck"
    /\ UNCHANGED <<taskVars, memVars, cause, pc, sp, regs, mscratch, satp, devVars, at, csrs>>

\* The first trap_return, up to the mret.
FirstReturn ==
    /\ ~Pending
    /\ TrapReturn
    /\ UNCHANGED <<at, csrs>>

OsMain ==
    \/ PageInit \/ MmuInit \/ OpenPmp \/ SetVector \/ TaskInit
    \/ TimerMie \/ TimerMstatus \/ SetSatp \/ TaskWrapper

BootNext ==
    \/ \E h \in Harts : Start(h) \/ ClearBss(h)
    \/ OsMain
    \/ EarlyTick
    \/ BootTrap
    \/ FirstReturn

\* Hart 0 goes on.
BootSpec ==
    /\ BootInit /\ [][BootNext]_bootVars
    /\ WF_bootVars(Start(0) \/ ClearBss(0) \/ OsMain \/ BootTrap \/ FirstReturn)

-----------------------------------------------------------------------------
(***************************************************************************)
(* Boot hands over to the kernel in the initial state of module Kernel,    *)
(* with the hart set up for user mode (main.c:22-44), whatever RAM held at *)
(* reset and however late the other harts come, unless the first tick is   *)
(* there already.  What a free page holds does not matter: alloc_page      *)
(* zeroes it.                                                              *)
(***************************************************************************)
K == INSTANCE Kernel WITH
        mem <- [p \in Pgds |-> IF p \in free_pgds THEN 0 ELSE mem[p]]

BootsToKernel ==
    phase = "trap_return" /\ ~mtip =>
        K!Init /\ pmp_open /\ mtvec = "trap_vector" /\ mtie

(***************************************************************************)
(* An interrupt never comes before there is a vector and a task it could   *)
(* belong to (main.c:31-34).                                               *)
(***************************************************************************)
InterruptFindsVector ==
    Pending => mtvec = "trap_vector" /\ tasks[current_task].satp \in Pgds

(***************************************************************************)
(* Boot ends: hart 0 comes to user mode, or a tick comes too early.  It    *)
(* would not if mmu_init ran before page_init has put any page on the free *)
(* list (main.c:25-26, page.c:60-66).                                      *)
(***************************************************************************)
BootEnds == <>(phase \in {"user", "stuck"})
=============================================================================
