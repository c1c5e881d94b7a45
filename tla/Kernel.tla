------------------------------- MODULE Kernel -------------------------------
(***************************************************************************)
(* The running kernel: trap entry and return (kernel/trap.S), the trap and *)
(* system call dispatcher (kernel/trap_handler.c), the task life cycle     *)
(* (kernel/task.c), exec (kernel/exec.c), the context switch               *)
(* (kernel/switch.S) and the scheduler (module Sched), on the one hart     *)
(* that boot.S lets run.                                                   *)
(*                                                                         *)
(* The hart runs user instructions with interrupts on and the kernel with  *)
(* interrupts off, so the kernel is entered only by a trap from user mode  *)
(* and left only by trap_return.  What can go wrong is therefore the       *)
(* bookkeeping: which stack mscratch points at, which frame a register     *)
(* comes back from, which page table satp holds, who owns which of them    *)
(* while tasks are forked, replaced by exec, suspended inside a handler    *)
(* and reclaimed.                                                          *)
(*                                                                         *)
(* Abstractions.  A page table with all the pages it maps is one value of  *)
(* Pgds, and mem[p] is one word that stands for the user memory behind it. *)
(* All general registers but a0 behave alike, so Reg needs few names.      *)
(* An address on a kernel stack is <<task, frames>>: the stack of `task`   *)
(* with that many trap frames pushed.  Program counters count              *)
(* instructions, so epc + 4 is epc + 1 here.                               *)
(***************************************************************************)
EXTENDS Sched

CONSTANTS
    Pgds,            \* top-level page tables there is memory for
    MaxPc,           \* bound: user programs have instructions 0 .. MaxPc
    UserSp,          \* values a user program gives its stack pointer
    Reg,             \* general registers, "a0" among them
    UserVal,         \* values a user program gives a register or its memory
    Keys,            \* characters that can arrive at the UART, '\r' read as '\n'
    BOOT_ENTRY,      \* task_shell of kernel/main.c
    ENTRY,           \* e_entry of the embedded ELF image
    USER_STACK_TOP,
    IMAGE_WORD,      \* the memory of a freshly loaded image
    CLOBBERED,       \* a register after kernel code has used it
    NULL             \* a zeroed pointer

Pc == 0 .. MaxPc

ASSUME KernelAssumption ==
    /\ Pgds # {} /\ NULL \notin Pgds
    /\ MaxPc \in Nat
    /\ BOOT_ENTRY \in Pc /\ ENTRY \in Pc
    /\ USER_STACK_TOP \in UserSp
    /\ "a0" \in Reg
    /\ UserVal \subseteq Int /\ 0 \in UserVal /\ IMAGE_WORD \in UserVal
    /\ Keys \subseteq UserVal

VARIABLES
    \* kernel/task.c
    task_states,   \* task_states[]
    current_task,  \* current_task
    tasks,         \* tasks[]: the saved kernel contexts (struct context)
    frame,         \* the trap frame at the top of each kernel stack
    kepc,          \* on each kernel stack: the epc argument of trap_handler,
                   \* then the value it returns
    \* kernel/page.c and the page tables
    free_pgds,     \* page tables whose pages are on the free list
    mem,           \* the user memory behind each page table
    \* the hart
    phase,         \* the code it is running
    cause,         \* mcause and, for a system call, its number
    pc,            \* the user program counter; mepc while in the kernel
    sp,
    regs,          \* the other general registers
    mscratch,
    satp,
    \* devices
    mtip,          \* the CLINT asserts the timer interrupt
    rx             \* the UART receive register, NULL when no character waits

taskVars == <<task_states, current_task, tasks, frame, kepc>>
memVars  == <<free_pgds, mem>>
hartVars == <<phase, cause, pc, sp, regs, mscratch, satp>>
devVars  == <<mtip, rx>>
vars     == <<taskVars, memVars, hartVars, devVars>>

\* "bad_read": a read whose arguments do_sys_read refuses on entry.
Causes == {"timer", "read", "bad_read", "write", "sched_yield", "exit", "clone",
           "execve", "unimplemented", "fault"}

Syscalls == Causes \ {"timer", "fault"}

\* "user": a user instruction is next.  "handler": trap_handler was called.
\* "trap_handler", "do_sys_yield": task_yield has returned to this function.
\* "epilogue": trap_handler returned.  "trap_return": the label is next.
\* "halted": the wfi loop of task_yield.  "stuck": one of the while (1) loops.
\* "overwritten": a store has hit the kernel's own memory; the model ends.
Phases == {"user", "handler", "trap_handler", "do_sys_yield", "epilogue",
           "trap_return", "halted", "stuck", "overwritten"}

Val == UserVal \cup Task \cup {-1, 1}

Frame     == [epc : Pc, user_sp : UserSp, regs : [Reg -> Val]]
NullFrame == [epc |-> 0, user_sp |-> NULL, regs |-> [r \in Reg |-> 0]]

KernelSp == Task \X {0, 1}

\* An empty kernel stack, and one that holds the frame of a trap.
StackTop(id)      == <<id, 0>>
TaskTrapFrame(id) == <<id, 1>>

-----------------------------------------------------------------------------
(***************************************************************************)
(* Frames and contexts.                                                    *)
(***************************************************************************)

ClearRegs == [r \in Reg |-> 0]

\* Mutant: a general register is missing from the frame.
BugSavedFrame == [epc |-> pc, user_sp |-> sp, regs |-> ClearRegs]

\* What trap_vector stores of the interrupted program.
SavedFrame == [epc |-> pc, user_sp |-> sp, regs |-> regs]

\* Mutant: sp is not moved past the frame.
BugPopped(kernel_sp) == kernel_sp

\* What trap_return leaves of the stack sp after it has popped the frame.
Popped(kernel_sp) == <<kernel_sp[1], kernel_sp[2] - 1>>

\* task_fork: the frame of the child of the program whose frame is tf.
ChildFrame(tf, epc) == [tf EXCEPT !.epc = epc + 1, !.regs["a0"] = 0]

\* trapframe_clear, then epc and user_sp: the frame of a fresh program.
FreshFrame(entry) ==
    [epc |-> entry, user_sp |-> USER_STACK_TOP, regs |-> ClearRegs]

\* Mutant: the child keeps the parent's frame (context_copy alone).
BugFreshContext(id, pgd) ==
    [ra |-> "trap_return", sp |-> TaskTrapFrame(current_task), satp |-> pgd]

\* bind_task_frame and bind_task_page_table: a context that enters user mode
\* through trap_return.
FreshContext(id, pgd) ==
    [ra |-> "trap_return", sp |-> TaskTrapFrame(id), satp |-> pgd]

\* The context that switch_to saves inside task_yield.  The calls between
\* switch_to and the caller of task_yield only return, so ra is that caller.
SavedContext(caller) == [ra |-> caller, sp |-> sp, satp |-> satp]

NullContext == [ra |-> "none", sp |-> NULL, satp |-> NULL]

-----------------------------------------------------------------------------
(***************************************************************************)
(* The state that os_main leaves when task_wrapper jumps to trap_return:   *)
(* task 0 runs task_shell, the other slots are dead, mscratch has its      *)
(* reset value.  Module Boot is about the way here, and about a timer tick *)
(* that comes before the hart has left machine mode for the first time.    *)
(***************************************************************************)
Init ==
    \E p \in Pgds :
        /\ task_states = [t \in Task |-> IF t = 0 THEN TASK_RUNNING ELSE TASK_DEAD]
        /\ current_task = 0
        /\ tasks = [t \in Task |-> IF t = 0 THEN FreshContext(0, p) ELSE NullContext]
        /\ frame = [t \in Task |-> IF t = 0 THEN FreshFrame(BOOT_ENTRY) ELSE NullFrame]
        /\ kepc = [t \in Task |-> 0]
        /\ free_pgds = Pgds \ {p}
        /\ mem = [q \in Pgds |-> 0]
        /\ phase = "trap_return"
        /\ cause = "timer"
        /\ pc = 0
        /\ sp = TaskTrapFrame(0)
        /\ regs = [r \in Reg |-> CLOBBERED]
        /\ mscratch = NULL
        /\ satp = p
        /\ mtip = FALSE
        /\ rx = NULL

-----------------------------------------------------------------------------
(***************************************************************************)
(* User mode.  An instruction jumps, moves sp, writes a register, or       *)
(* stores through the page table that satp holds.                          *)
(***************************************************************************)
UserInstruction ==
    /\ phase = "user"
    /\ \/ pc' \in Pc /\ UNCHANGED <<sp, regs, mem>>
       \/ sp' \in UserSp /\ UNCHANGED <<pc, regs, mem>>
       \/ /\ \E r \in Reg, v \in UserVal : regs' = [regs EXCEPT ![r] = v]
          /\ UNCHANGED <<pc, sp, mem>>
       \/ /\ \E v \in UserVal : mem' = [mem EXCEPT ![satp] = v]
          /\ UNCHANGED <<pc, sp, regs>>
    /\ UNCHANGED <<taskVars, free_pgds, phase, cause, mscratch, satp, devVars>>

(***************************************************************************)
(* trap_vector: sp and mscratch change places, the frame is pushed on the  *)
(* stack that mscratch pointed at, and trap_handler is called.  A timer    *)
(* trap needs the interrupt; an ecall is never the last instruction of the *)
(* bounded program.                                                        *)
(***************************************************************************)
TrapEntry(c) ==
    /\ phase = "user"
    /\ c = "timer" => mtip
    /\ c \in Syscalls => pc < MaxPc
    /\ sp' = <<mscratch[1], mscratch[2] + 1>>
    /\ mscratch' = sp
    /\ frame' = [frame EXCEPT ![mscratch[1]] = SavedFrame]
    /\ kepc' = [kepc EXCEPT ![mscratch[1]] = pc]
    /\ regs' = [r \in Reg |-> CLOBBERED]
    /\ cause' = c
    /\ phase' = "handler"
    /\ UNCHANGED <<task_states, current_task, tasks, memVars, pc, satp, devVars>>

-----------------------------------------------------------------------------
(***************************************************************************)
(* Pieces of handlers.  `me` is the task whose kernel stack the handler    *)
(* runs on; the trapframe argument tf of the code is frame[me].            *)
(***************************************************************************)
me == sp[1]

Handling(c) == phase = "handler" /\ cause = c

\* trap_handler returns v to trap_vector.
ReturnFromHandler(v) ==
    /\ kepc' = [kepc EXCEPT ![me] = v]
    /\ phase' = "epilogue"

SetA0(v) == frame' = [frame EXCEPT ![me].regs["a0"] = v]

\* What a handler leaves alone: without task_yield it also leaves switchVars.
handlerVars == <<cause, pc, regs, mscratch>>
switchVars  == <<task_states, current_task, tasks, sp, satp>>

StopIn(end) ==
    /\ phase' = end
    /\ UNCHANGED <<switchVars, handlerVars, frame, kepc, memVars>>

\* alloc_page found the free list empty, or a panic: while (1).
GetStuck == StopIn("stuck")

\* Mutant: the address space is not reclaimed.
BugFreeUserPageTable(pgd) == free_pgds

\* free_user_page_table: everything the page table reaches is free again.
FreeUserPageTable(pgd) == free_pgds \cup {pgd}

\* Mutant: satp keeps the page table of the previous task.
BugNextSatp(next) == satp

\* The page table that switch_to installs.
NextSatp(next) == tasks[next].satp

(***************************************************************************)
(* switch_to: save ra, sp and satp of the current task, load those of the  *)
(* next.  A context saved inside task_yield returns to the caller of that  *)
(* task_yield; a fresh one goes straight to trap_return.  mscratch is not  *)
(* part of the context.                                                    *)
(***************************************************************************)
SwitchTo(next, caller) ==
    /\ tasks' = [tasks EXCEPT ![current_task] = SavedContext(caller)]
    /\ satp' = NextSatp(next)
    /\ sp' = tasks[next].sp
    /\ phase' = tasks[next].ra

(***************************************************************************)
(* task_yield, called by `caller` with the task table `states`: halt when  *)
(* nothing is runnable, return when the current task is the only runnable  *)
(* one, otherwise sched_prepare_switch and switch_to.                      *)
(***************************************************************************)
TaskYield(states, caller) ==
    LET next == SchedPickNext(states, current_task) IN
    \/ /\ next = -1
       /\ phase' = "halted"
       /\ task_states' = states
       /\ UNCHANGED <<current_task, tasks, sp, satp>>
    \/ /\ next = current_task
       /\ phase' = caller
       /\ task_states' = states
       /\ UNCHANGED <<current_task, tasks, sp, satp>>
    \/ /\ next \notin {-1, current_task}
       /\ task_states' = SchedPrepareSwitch(states, current_task, next)
       /\ current_task' = next
       /\ SwitchTo(next, caller)

-----------------------------------------------------------------------------
(***************************************************************************)
(* The handlers.                                                           *)
(***************************************************************************)

\* timer_load_next moves mtimecmp past mtime, which clears the interrupt.
\* Then task_yield.
Timer ==
    /\ Handling("timer")
    /\ mtip' = FALSE
    /\ TaskYield(task_states, "trap_handler")
    /\ UNCHANGED <<handlerVars, frame, kepc, memVars, rx>>

\* trap_handler after that task_yield: return epc.
TimerReturns ==
    /\ phase = "trap_handler"
    /\ ReturnFromHandler(kepc[me])
    /\ UNCHANGED <<switchVars, handlerVars, frame, memVars, devVars>>

\* do_sys_write, and a system call number without a handler: epc + 4.
DoSysWrite ==
    /\ Handling("write") \/ Handling("unimplemented")
    /\ ReturnFromHandler(kepc[me] + 1)
    /\ UNCHANGED <<switchVars, handlerVars, frame, memVars, devVars>>

\* do_sys_read with a file descriptor, buffer or count it refuses.
DoSysReadRefused ==
    /\ Handling("bad_read")
    /\ SetA0(-1)
    /\ ReturnFromHandler(kepc[me] + 1)
    /\ UNCHANGED <<switchVars, handlerVars, memVars, devVars>>

\* A byte of the user memory behind some page table, or none of any: buf is
\* a physical address here, whoever the page belongs to.
StoreAtPhysical(ch) ==
    \/ UNCHANGED mem
    \/ \E p \in Pgds : mem' = [mem EXCEPT ![p] = ch]

(***************************************************************************)
(* do_sys_read of a character: uart_getc polls until one has arrived, with *)
(* interrupts off.  buf is any value the program put in a1, except 0, and  *)
(* buf[i] = ch is a store in machine mode, where the hart does not         *)
(* translate addresses: it goes to the physical address buf.  That may be  *)
(* no memory at all, when the store is lost or faults (the nested trap     *)
(* never ends); user memory of any task, or free; or the kernel's own      *)
(* memory or a device (code, trap frames, contexts, the task table, page   *)
(* tables, the free list, the CLINT), after which nothing can be said: the *)
(* model ends in the phase "overwritten".                                  *)
(***************************************************************************)
DoSysRead(ch) ==
    /\ Handling("read")
    /\ rx = ch
    /\ rx' = NULL
    /\ UNCHANGED <<mtip, free_pgds>>
    /\ \/ /\ StoreAtPhysical(ch)
          /\ SetA0(1)
          /\ ReturnFromHandler(kepc[me] + 1)
          /\ UNCHANGED <<switchVars, handlerVars>>
       \/ GetStuck
       \/ StopIn("overwritten")

\* do_sys_yield: task_yield.
DoSysYield ==
    /\ Handling("sched_yield")
    /\ TaskYield(task_states, "do_sys_yield")
    /\ UNCHANGED <<handlerVars, frame, kepc, memVars, devVars>>

\* Mutant: the return address is read again after the switch, from mepc.
BugYieldReturns ==
    /\ phase = "do_sys_yield"
    /\ ReturnFromHandler(pc + 1)
    /\ UNCHANGED <<switchVars, handlerVars, frame, memVars, devVars>>

\* do_sys_yield after that task_yield, whoever ran in between: epc + 4.
YieldReturns ==
    /\ phase = "do_sys_yield"
    /\ ReturnFromHandler(kepc[me] + 1)
    /\ UNCHANGED <<switchVars, handlerVars, frame, memVars, devVars>>

\* do_sys_exit, task_exit: free the address space, mark the slot dead and
\* yield for good.
DoSysExit ==
    /\ Handling("exit")
    /\ free_pgds' = FreeUserPageTable(tasks[current_task].satp)
    /\ TaskYield([task_states EXCEPT ![current_task] = TASK_DEAD], "task_exit")
    /\ UNCHANGED <<handlerVars, frame, kepc, mem, devVars>>

(***************************************************************************)
(* do_sys_clone, task_fork.  The child gets the lowest dead slot, a copy   *)
(* of the parent's memory and of its frame; the parent's a0 is the child's *)
(* number, -1 when the table is full.  Running out of pages is not an      *)
(* error return: alloc_page never comes back.  The -1 after the copy, for  *)
(* a parent without a stack page (task.c:186), is not taken by any caller: *)
(* every address space is built with its stack mapped (module Memory has   *)
(* the branch).                                                            *)
(***************************************************************************)
DoSysClone ==
    LET child == AllocTaskSlot(task_states) IN
    /\ Handling("clone")
    /\ child # -1
    /\ \E child_pgd \in free_pgds :
         /\ free_pgds' = free_pgds \ {child_pgd}
         /\ mem' = [mem EXCEPT ![child_pgd] = mem[tasks[current_task].satp]]
         /\ tasks' = [tasks EXCEPT ![child] = FreshContext(child, child_pgd)]
    /\ frame' = [frame EXCEPT ![child] = ChildFrame(frame[me], kepc[me]),
                              ![me].regs["a0"] = child]
    /\ task_states' = [task_states EXCEPT ![child] = TASK_READY]
    /\ ReturnFromHandler(kepc[me] + 1)
    /\ UNCHANGED <<handlerVars, current_task, sp, satp, devVars>>

DoSysCloneFull ==
    /\ Handling("clone")
    /\ AllocTaskSlot(task_states) = -1
    /\ SetA0(-1)
    /\ ReturnFromHandler(kepc[me] + 1)
    /\ UNCHANGED <<switchVars, handlerVars, memVars, devVars>>

(***************************************************************************)
(* do_sys_execve, task_exec: build the new address space, clear the frame, *)
(* install the new page table, then free the old one.  An image that       *)
(* validate_exec_image rejects leaves everything to the caller; its verdict*)
(* is left open here and is what module ExecImage is about.                *)
(***************************************************************************)
DoSysExecve ==
    /\ Handling("execve")
    /\ \E new_pgd \in free_pgds :
         /\ free_pgds' = FreeUserPageTable(tasks[current_task].satp) \ {new_pgd}
         /\ mem' = [mem EXCEPT ![new_pgd] = IMAGE_WORD]
         /\ tasks' = [tasks EXCEPT ![current_task].satp = new_pgd]
         /\ satp' = new_pgd
    /\ frame' = [frame EXCEPT ![me] = FreshFrame(ENTRY)]
    /\ ReturnFromHandler(ENTRY)
    /\ UNCHANGED <<handlerVars, task_states, current_task, sp, devVars>>

DoSysExecveRejected ==
    /\ Handling("execve")
    /\ ReturnFromHandler(kepc[me] + 1)
    /\ UNCHANGED <<switchVars, handlerVars, frame, memVars, devVars>>

\* fork or exec needs a page and the free list is empty.
OutOfMemory ==
    /\ \/ Handling("clone") /\ AllocTaskSlot(task_states) # -1
       \/ Handling("execve")
    /\ free_pgds = {}
    /\ GetStuck
    /\ UNCHANGED devVars

\* A page fault or an unknown exception: the kernel prints and spins.
Panic == Handling("fault") /\ GetStuck /\ UNCHANGED devVars

-----------------------------------------------------------------------------
(***************************************************************************)
(* trap_vector after the call of trap_handler, and trap_return.            *)
(***************************************************************************)
Epilogue ==
    /\ phase = "epilogue"
    /\ frame' = [frame EXCEPT ![me].epc = kepc[me]]
    /\ phase' = "trap_return"
    /\ UNCHANGED <<switchVars, handlerVars, kepc, memVars, devVars>>

TrapReturn ==
    /\ phase = "trap_return"
    /\ pc' = frame[me].epc
    /\ regs' = frame[me].regs
    /\ sp' = frame[me].user_sp
    /\ mscratch' = Popped(sp)
    /\ phase' = "user"
    /\ UNCHANGED <<taskVars, memVars, cause, satp, devVars>>

-----------------------------------------------------------------------------
(***************************************************************************)
(* The devices: a second passes, a character arrives.                      *)
(***************************************************************************)
Tick ==
    /\ ~mtip
    /\ mtip' = TRUE
    /\ UNCHANGED <<taskVars, memVars, hartVars, rx>>

KeyArrives(ch) ==
    /\ rx = NULL
    /\ rx' = ch
    /\ UNCHANGED <<taskVars, memVars, hartVars, mtip>>

Handler ==
    \/ Timer \/ DoSysWrite \/ DoSysReadRefused \/ \E ch \in Keys : DoSysRead(ch)
    \/ TimerReturns \/ DoSysYield \/ YieldReturns \/ DoSysExit
    \/ DoSysClone \/ DoSysCloneFull \/ DoSysExecve \/ DoSysExecveRejected
    \/ OutOfMemory \/ Panic

Next ==
    \/ UserInstruction
    \/ \E c \in Causes : TrapEntry(c)
    \/ Handler
    \/ Epilogue
    \/ TrapReturn
    \/ Tick
    \/ \E ch \in Keys : KeyArrives(ch)

Spec == Init /\ [][Next]_vars

-----------------------------------------------------------------------------
(***************************************************************************)
(* Fairness.  Kernel code runs with interrupts off and nothing else on the *)
(* hart, so its steps are taken; mtime advances; a pending timer interrupt *)
(* is taken in bounded time once the hart is in user mode with it enabled. *)
(* That a waiting read is eventually answered is an assumption on the      *)
(* person at the keyboard, kept apart.                                     *)
(***************************************************************************)
KernelFairness ==
    /\ WF_vars(Handler)
    /\ WF_vars(Epilogue)
    /\ WF_vars(TrapReturn)
    /\ WF_vars(Tick)
    /\ SF_vars(TrapEntry("timer"))

KeysKeepComing == WF_vars(\E ch \in Keys : KeyArrives(ch))

FairSpec == Spec /\ KernelFairness /\ KeysKeepComing

-----------------------------------------------------------------------------
(***************************************************************************)
(* Type invariant.  The types depend on the phase: sp, mscratch and the    *)
(* registers change roles at the boundary between user and kernel code, a  *)
(* live task always has a complete frame and context to come back with,    *)
(* and nothing sleeps, because task_sleep has no caller in this kernel.    *)
(***************************************************************************)
Callers == {"trap_handler", "do_sys_yield", "task_exit"}

Context == [ra : {"trap_return"} \cup Callers, sp : KernelSp, satp : Pgds]

LiveTasks == {t \in Task : task_states[t] # TASK_DEAD}

\* do_sys_yield of t has still to return epc + 4.
InYield(t) ==
    IF t = current_task THEN phase = "do_sys_yield" ELSE tasks[t].ra = "do_sys_yield"

TypeOK ==
    /\ task_states \in [Task -> TaskState \ {TASK_SLEEPING}]
    /\ current_task \in Task
    /\ tasks \in [Task -> Context \cup {NullContext}]
    /\ frame \in [Task -> Frame \cup {NullFrame}]
    /\ \A t \in LiveTasks : tasks[t] \in Context /\ frame[t] \in Frame
    /\ kepc \in [Task -> Pc]
    /\ free_pgds \in SUBSET Pgds
    /\ mem \in [Pgds -> UserVal]
    /\ phase \in Phases
    /\ cause \in Causes
    /\ phase = "handler" /\ cause \in Syscalls => kepc[current_task] < MaxPc
    /\ \A t \in LiveTasks : InYield(t) => kepc[t] < MaxPc
    /\ pc \in Pc
    /\ IF phase = "user"
         THEN sp \in UserSp /\ mscratch \in KernelSp /\ regs \in [Reg -> Val]
         ELSE sp \in KernelSp /\ mscratch \in UserSp \cup {NULL}
              /\ regs = [r \in Reg |-> CLOBBERED]
    /\ satp \in Pgds
    /\ mtip \in BOOLEAN
    /\ rx \in Keys \cup {NULL}

(***************************************************************************)
(* The task table agrees with the hart: the current task, and no other, is *)
(* marked running, until the machine halts.  task_states and current_task  *)
(* are updated by fork, exit and every switch (task.c, sched.c).           *)
(***************************************************************************)
CurrentIsRunning ==
    \A t \in Task : task_states[t] = TASK_RUNNING <=> t = current_task /\ phase # "halted"

(***************************************************************************)
(* Every task runs its traps on its own kernel stack, which is empty while *)
(* the task is in user mode, and a task that is not running has one frame  *)
(* on its stack and a context that points at it.  mscratch is the only     *)
(* link from user mode back to the kernel stack (trap.S:10 and 103-104)    *)
(* and is not part of the saved context (switch.S).                        *)
(***************************************************************************)
OwnKernelStack ==
    /\ phase = "user" => mscratch = StackTop(current_task)
    /\ phase # "user" => sp = TaskTrapFrame(current_task)
    /\ \A t \in LiveTasks \ {current_task} :
          /\ tasks[t].sp = TaskTrapFrame(t)
          /\ tasks[t].ra \in {"trap_return", "trap_handler", "do_sys_yield"}

(***************************************************************************)
(* Page tables are neither shared, nor used after they are freed, nor      *)
(* lost: the live tasks own one each, the free list has all the others,    *)
(* and satp is the one of the running task.  fork, exec and exit allocate  *)
(* and free them (task.c:136 and 182, exec.c:139 and 183).                 *)
(***************************************************************************)
AddressSpacesOwned ==
    /\ free_pgds = Pgds \ {tasks[t].satp : t \in LiveTasks}
    /\ \A t, u \in LiveTasks : tasks[t].satp = tasks[u].satp => t = u
    /\ phase # "halted" => satp = tasks[current_task].satp

(***************************************************************************)
(* With room for one address space more than there are task slots, fork    *)
(* and exec never find the free list empty (exec needs the extra one: it   *)
(* builds the new address space before it frees the old).  A kernel that   *)
(* lost a page table on some path would run out in the end and spin in     *)
(* alloc_page (page.c:65).                                                 *)
(***************************************************************************)
NeverOutOfMemory ==
    \/ Handling("clone") /\ AllocTaskSlot(task_states) # -1
    \/ Handling("execve")
    => free_pgds # {}

(***************************************************************************)
(* The machine halts (task.c:151-156) only when every task has exited, as  *)
(* the message says, and then all page tables have been reclaimed.         *)
(***************************************************************************)
HaltsEmpty == phase = "halted" => LiveTasks = {} /\ free_pgds = Pgds

(***************************************************************************)
(* Round robin: whenever the hart goes from one task to another, every     *)
(* task that was left waiting has come strictly nearer, in the order the   *)
(* scheduler searches (sched.c:7-18).  So a ready task is passed over at   *)
(* most MAX_TASKS - 2 times, whoever forks and exits meanwhile.            *)
(***************************************************************************)
NoOvertaking ==
    [][\A t \in Task :
          /\ current_task' # current_task
          /\ task_states[t] = TASK_READY
          /\ task_states'[t] = TASK_READY
          => Dist(current_task', t) < Dist(current_task, t)]_vars

(***************************************************************************)
(* A ready task eventually runs, unless the kernel spins for good or has   *)
(* been written over: the timer takes the hart from a task that never      *)
(* yields, and a read that waits with interrupts off (trap_handler.c:32)   *)
(* gives it back when a character comes.                                   *)
(***************************************************************************)
ReadyTaskRuns ==
    \A t \in Task :
        task_states[t] = TASK_READY ~>
            task_states[t] = TASK_RUNNING \/ phase \in {"stuck", "overwritten"}

(***************************************************************************)
(* What sys_read says it does: the character is read into the buffer.      *)
(* Here: after a read of ch the caller's memory holds ch.                  *)
(***************************************************************************)
ReadFillsBuffer ==
    [][\A ch \in Keys : DoSysRead(ch) /\ phase' = "epilogue" => mem'[satp] = ch]_vars

-----------------------------------------------------------------------------
(***************************************************************************)
(* The kernel implements private harts.  The private hart of the running   *)
(* task is the real one while it is in user mode; otherwise it is what the *)
(* trap frame will restore, with the program counter the pending handler   *)
(* was given and, from its end on, the one it returns.                     *)
(***************************************************************************)
InUserMode(t) == t = current_task /\ phase = "user"

\* The frame already holds the pc of its task: no handler of it is pending.
FrameIsFinal(t) ==
    IF t = current_task THEN phase = "trap_return" ELSE tasks[t].ra = "trap_return"

PrivateHart(t) ==
    [pc   |-> IF InUserMode(t) THEN pc
              ELSE IF FrameIsFinal(t) THEN frame[t].epc ELSE kepc[t],
     sp   |-> IF InUserMode(t) THEN sp ELSE frame[t].user_sp,
     regs |-> IF InUserMode(t) THEN regs ELSE frame[t].regs,
     mem  |-> mem[IF t = current_task THEN satp ELSE tasks[t].satp]]

\* The private harts of all tasks, the value that the abstract specification
\* sees for vcpu.
harts == [t \in LiveTasks |-> PrivateHart(t)]

(***************************************************************************)
(* Traps are invisible.  Entering one, a timer interrupt or sched_yield    *)
(* with the switch it makes, the end of a handler and trap_return leave    *)
(* all private harts as they were: what trap.S saves and switch.S          *)
(* exchanges comes back complete, however long other tasks run in between. *)
(***************************************************************************)
TrapsInvisible ==
    [][ \/ phase = "user" /\ phase' # "user"
        \/ phase = "handler" /\ cause \in {"timer", "sched_yield"}
        \/ phase \in {"trap_handler", "epilogue", "trap_return"}
        => harts' = harts]_vars

VH == INSTANCE VirtualHarts WITH
         vcpu <- [t \in LiveTasks |-> PrivateHart(t)],
         intact <- phase # "overwritten"

(***************************************************************************)
(* The hart of each program is its own: registers, stack pointer and       *)
(* program counter of a task change only by what that task itself does,    *)
(* through every interleaving of timer interrupts, yields, forks, execs    *)
(* and exits.  So does its memory, but for the one store the kernel makes  *)
(* for sys_read (trap_handler.c:37): each read may change the memory of    *)
(* one program, its caller's or not, or write over the kernel, and from    *)
(* there on nothing is claimed.                                            *)
(***************************************************************************)
ImplementsVirtualHarts == VH!Spec
=============================================================================
