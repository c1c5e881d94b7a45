---------------------------- MODULE KernelProofs ----------------------------
(***************************************************************************)
(* Theorems about modules Kernel and Boot, for any number of harts, tasks, *)
(* page tables, registers and values: the invariants of Kernel, the        *)
(* refinement of module VirtualHarts, and the way from reset to Kernel.    *)
(***************************************************************************)
EXTENDS Boot, SchedProofs, FiniteSetTheorems

(***************************************************************************)
(* The inductive invariant.  No conjunct is inductive without the others:  *)
(* trap entry finds the right stack only because mscratch points at it,    *)
(* the switch finds a stack pointer there only because suspended tasks     *)
(* keep one, and exit frees the right page table only because satp and the *)
(* context of the running task agree.                                      *)
(***************************************************************************)
IInv ==
    /\ TypeOK
    /\ CurrentIsRunning
    /\ OwnKernelStack
    /\ AddressSpacesOwned

-----------------------------------------------------------------------------
(***************************************************************************)
(* The three ways through task_yield: `last` is the state of the current   *)
(* task when it is called, running from the timer and sched_yield, dead    *)
(* from exit.  Only an exit can halt the machine, and then every slot is   *)
(* dead; otherwise the hart stays, or goes to the nearest ready task.      *)
(***************************************************************************)
LEMMA TaskYieldCases ==
    ASSUME TypeOK, CurrentIsRunning, phase # "halted",
           NEW last \in {TASK_RUNNING, TASK_DEAD}, NEW caller,
           TaskYield([task_states EXCEPT ![current_task] = last], caller)
    PROVE  \/ /\ last = TASK_DEAD
              /\ phase' = "halted"
              /\ task_states' = [task_states EXCEPT ![current_task] = TASK_DEAD]
              /\ \A t \in Task : task_states'[t] = TASK_DEAD
              /\ UNCHANGED <<current_task, tasks, sp, satp>>
           \/ /\ last = TASK_RUNNING
              /\ phase' = caller
              /\ UNCHANGED <<task_states, current_task, tasks, sp, satp>>
           \/ \E next \in Task \ {current_task} :
              /\ task_states[next] = TASK_READY
              /\ \A t \in Task : task_states[t] = TASK_READY =>
                    Dist(current_task, next) <= Dist(current_task, t)
              /\ task_states' =
                    [task_states EXCEPT
                        ![current_task] = IF last = TASK_DEAD THEN TASK_DEAD
                                                              ELSE TASK_READY,
                        ![next] = TASK_RUNNING]
              /\ current_task' = next
              /\ SwitchTo(next, caller)
<1> DEFINE states == [task_states EXCEPT ![current_task] = last]
           next   == SchedPickNext(states, current_task)
<1>1. /\ task_states \in [Task -> {TASK_READY, TASK_RUNNING, TASK_DEAD}]
      /\ current_task \in Task
      /\ task_states[current_task] = TASK_RUNNING
      /\ \A t \in Task \ {current_task} : task_states[t] # TASK_RUNNING
  BY DEF TypeOK, CurrentIsRunning, TaskState, TASK_READY, TASK_RUNNING, TASK_SLEEPING, TASK_DEAD
<1>2. \/ /\ next = -1
         /\ \A t \in Task : ~TaskIsRunnable(states, t)
      \/ /\ next \in Task
         /\ TaskIsRunnable(states, next)
         /\ \A t \in Task : TaskIsRunnable(states, t) =>
               Dist(current_task, next) <= Dist(current_task, t)
  BY <1>1, SchedPickNextNearest
<1>3. -1 \notin Task
  BY MaxTasksAssumption DEF Task
<1>4. /\ next = -1 => /\ phase' = "halted"
                      /\ task_states' = states
                      /\ UNCHANGED <<current_task, tasks, sp, satp>>
      /\ next = current_task =>
                      /\ phase' = caller
                      /\ task_states' = states
                      /\ UNCHANGED <<current_task, tasks, sp, satp>>
      /\ next \notin {-1, current_task} =>
                      /\ task_states' = SchedPrepareSwitch(states, current_task, next)
                      /\ current_task' = next
                      /\ SwitchTo(next, caller)
  BY <1>1, <1>3 DEF TaskYield
<1> HIDE DEF next
<1>5. CASE next = -1
  <2>1. \A t \in Task : states[t] = TASK_DEAD
    BY <1>1, <1>2, <1>3, <1>5
       DEF TaskIsRunnable, TASK_READY, TASK_RUNNING, TASK_DEAD
  <2> QED
    BY <1>1, <1>4, <1>5, <2>1 DEF TASK_RUNNING, TASK_DEAD
<1>6. CASE next = current_task
  <2>1. last = TASK_RUNNING
    BY <1>1, <1>2, <1>3, <1>6
       DEF TaskIsRunnable, TASK_READY, TASK_RUNNING, TASK_DEAD
  <2>2. states = task_states
    BY <1>1, <2>1
  <2> QED
    BY <1>4, <1>6, <2>1, <2>2
<1>7. CASE next \notin {-1, current_task}
  <2>1. next \in Task \ {current_task} /\ task_states[next] = TASK_READY
    BY <1>1, <1>2, <1>7
       DEF TaskIsRunnable, TASK_READY, TASK_RUNNING, TASK_DEAD
  <2>2. \A t \in Task : task_states[t] = TASK_READY =>
            Dist(current_task, next) <= Dist(current_task, t)
    BY <1>1, <1>2, <1>7
       DEF TaskIsRunnable, TASK_READY, TASK_RUNNING, TASK_DEAD
  <2>3. task_states' =
            [task_states EXCEPT
                ![current_task] = IF last = TASK_DEAD THEN TASK_DEAD ELSE TASK_READY,
                ![next] = TASK_RUNNING]
    BY <1>1, <1>4, <1>7, <2>1
       DEF SchedPrepareSwitch, TASK_READY, TASK_RUNNING, TASK_DEAD
  <2> QED
    BY <1>4, <1>7, <2>1, <2>2, <2>3
<1> QED
  BY <1>2, <1>5, <1>6, <1>7

-----------------------------------------------------------------------------
(***************************************************************************)
(* Frames stay frames when system calls write their results.               *)
(***************************************************************************)
LEMMA FrameResults ==
    ASSUME NEW f \in Frame
    PROVE  /\ \A v \in Val : [f EXCEPT !.regs["a0"] = v] \in Frame
           /\ \A e \in Pc : e < MaxPc => ChildFrame(f, e) \in Frame
           /\ \A e \in Pc : [f EXCEPT !.epc = e] \in Frame
<1>1. ASSUME NEW v \in Val
      PROVE  [f EXCEPT !.regs["a0"] = v] \in Frame
  <2>1. [f.regs EXCEPT !["a0"] = v] \in [Reg -> Val]
    BY DEF Frame
  <2> QED
    BY <2>1 DEF Frame
<1>2. ASSUME NEW e \in Pc
      PROVE  [f EXCEPT !.epc = e] \in Frame
  BY DEF Frame
<1>3. ASSUME NEW e \in Pc, e < MaxPc
      PROVE  ChildFrame(f, e) \in Frame
  <2>1. e + 1 \in Pc /\ 0 \in Val
    BY <1>3, KernelAssumption DEF Pc, Val
  <2>2. [f.regs EXCEPT !["a0"] = 0] \in [Reg -> Val]
    BY <2>1 DEF Frame
  <2> QED
    BY <2>1, <2>2 DEF Frame, ChildFrame
<1> QED
  BY <1>1, <1>2, <1>3

(***************************************************************************)
(* What every handler may rely on: it runs on the stack of the current     *)
(* task, whose frame and context are complete and whose page table satp    *)
(* holds.                                                                  *)
(***************************************************************************)
LEMMA KernelFacts ==
    ASSUME IInv, phase \notin {"user", "halted"}
    PROVE  /\ me = current_task /\ me \in Task /\ me \in LiveTasks
           /\ sp = TaskTrapFrame(me)
           /\ task_states[me] = TASK_RUNNING
           /\ frame[me] \in Frame
           /\ tasks[me] \in Context
           /\ tasks[me].satp = satp
           /\ kepc[me] \in Pc
           /\ \/ phase = "handler" /\ cause \in Syscalls
              \/ phase = "do_sys_yield"
              => kepc[me] < MaxPc /\ kepc[me] + 1 \in Pc
  BY KernelAssumption
     DEF IInv, InYield, TypeOK, CurrentIsRunning, OwnKernelStack, AddressSpacesOwned,
         LiveTasks, TaskTrapFrame, TASK_RUNNING, TASK_DEAD, me, Pc


(***************************************************************************)
(* The same for the frames in the table.                                   *)
(***************************************************************************)
LEMMA SetA0Frames ==
    ASSUME IInv, phase = "handler", NEW v \in Val, SetA0(v)
    PROVE  /\ frame' \in [Task -> Frame \cup {NullFrame}]
           /\ \A t \in LiveTasks : frame'[t] \in Frame
<1>1. frame' = [frame EXCEPT ![me] = [frame[me] EXCEPT !.regs["a0"] = v]]
  BY DEF SetA0
<1>2. [frame[me] EXCEPT !.regs["a0"] = v] \in Frame
  BY KernelFacts, FrameResults
<1>3. frame \in [Task -> Frame \cup {NullFrame}] /\ me \in Task
  BY KernelFacts DEF IInv, TypeOK
<1> QED
  BY <1>1, <1>2, <1>3 DEF IInv, TypeOK, LiveTasks

(***************************************************************************)
(* task_yield keeps the invariant.  When a task exits, its page table has  *)
(* just been freed; the context switch_to leaves in its slot still names   *)
(* that page table, but the slot is dead.                                  *)
(***************************************************************************)
LEMMA TaskYieldInv ==
    ASSUME IInv, phase = "handler",
           NEW last \in {TASK_RUNNING, TASK_DEAD}, NEW caller \in Callers,
           TaskYield([task_states EXCEPT ![current_task] = last], caller),
           caller = "task_exit" <=> last = TASK_DEAD,
           caller = "do_sys_yield" => kepc[current_task] < MaxPc,
           free_pgds' = IF last = TASK_DEAD
                          THEN FreeUserPageTable(tasks[current_task].satp)
                          ELSE free_pgds,
           mtip' \in BOOLEAN,
           UNCHANGED <<handlerVars, frame, kepc, mem, rx>>
    PROVE  IInv'
<1>1. /\ sp = TaskTrapFrame(current_task) /\ sp \in KernelSp
      /\ current_task \in Task /\ current_task \in LiveTasks
      /\ task_states[current_task] = TASK_RUNNING
      /\ tasks[current_task].satp = satp /\ satp \in Pgds
  BY KernelFacts DEF IInv, TypeOK
<1>2. SavedContext(caller) \in Context /\ SavedContext(caller).satp = satp
      /\ SavedContext(caller).sp = sp /\ SavedContext(caller).ra = caller
  BY <1>1 DEF SavedContext, Context
<1>3. CASE /\ last = TASK_DEAD
           /\ phase' = "halted"
           /\ task_states' = [task_states EXCEPT ![current_task] = TASK_DEAD]
           /\ \A t \in Task : task_states'[t] = TASK_DEAD
           /\ UNCHANGED <<current_task, tasks, sp, satp>>
  <2>1. TypeOK'
    BY <1>1, <1>3
       DEF IInv, TypeOK, LiveTasks, Phases, TaskState, TASK_SLEEPING, TASK_DEAD, handlerVars,
           FreeUserPageTable
  <2>2. CurrentIsRunning'
    BY <1>3 DEF CurrentIsRunning, TASK_RUNNING, TASK_DEAD
  <2>3. LiveTasks = {current_task}
    BY <1>1, <1>3 DEF LiveTasks, IInv, TypeOK
  <2>4. LiveTasks' = {}
    BY <1>3 DEF LiveTasks
  <2>5. OwnKernelStack'
    BY <1>1, <1>3, <2>4 DEF OwnKernelStack, TaskTrapFrame
  <2>6. AddressSpacesOwned'
    BY <1>1, <1>3, <2>3, <2>4 DEF IInv, AddressSpacesOwned, FreeUserPageTable
  <2> QED
    BY <2>1, <2>2, <2>5, <2>6 DEF IInv
<1>4. CASE /\ last = TASK_RUNNING
           /\ phase' = caller
           /\ UNCHANGED <<task_states, current_task, tasks, sp, satp>>
  <2>1. free_pgds' = free_pgds /\ caller \in {"trap_handler", "do_sys_yield"}
    BY <1>4 DEF TASK_RUNNING, TASK_DEAD, Callers
  <2>2. TypeOK'
    BY <1>4, <2>1 DEF IInv, TypeOK, InYield, LiveTasks, Phases, handlerVars
  <2>3. CurrentIsRunning' /\ OwnKernelStack' /\ AddressSpacesOwned'
    BY <1>4, <2>1
       DEF IInv, CurrentIsRunning, OwnKernelStack, AddressSpacesOwned, LiveTasks, TaskTrapFrame
  <2> QED
    BY <2>2, <2>3 DEF IInv
<1>5. ASSUME NEW next \in Task \ {current_task},
             task_states[next] = TASK_READY,
             task_states' = [task_states EXCEPT
                                ![current_task] = IF last = TASK_DEAD THEN TASK_DEAD
                                                                      ELSE TASK_READY,
                                ![next] = TASK_RUNNING],
             current_task' = next,
             SwitchTo(next, caller)
      PROVE  IInv'
  <2>1. /\ next \in LiveTasks /\ tasks[next] \in Context
        /\ tasks[next].sp = TaskTrapFrame(next)
        /\ tasks[next].sp \in KernelSp /\ tasks[next].satp \in Pgds
    BY <1>5 DEF IInv, TypeOK, OwnKernelStack, LiveTasks, Context, TASK_READY, TASK_DEAD
  <2>2. /\ tasks' = [tasks EXCEPT ![current_task] = SavedContext(caller)]
        /\ satp' = tasks[next].satp
        /\ sp' = tasks[next].sp
        /\ phase' = tasks[next].ra
        /\ phase' \in {"trap_return", "trap_handler", "do_sys_yield"}
    BY <1>5, <2>1 DEF SwitchTo, NextSatp, IInv, OwnKernelStack
  <2>3. LiveTasks' = IF last = TASK_DEAD THEN LiveTasks \ {current_task} ELSE LiveTasks
    BY <1>1, <1>5, <2>1 DEF LiveTasks, IInv, TypeOK, TASK_READY, TASK_RUNNING, TASK_DEAD
  <2>4. \A t \in Task : tasks'[t] = IF t = current_task THEN SavedContext(caller) ELSE tasks[t]
    BY <1>1, <2>2 DEF IInv, TypeOK
  <2>5. \A t \in Task : tasks'[t].satp = tasks[t].satp
    BY <1>1, <1>2, <2>4
  <2>6. TypeOK'
    <3>1. tasks' \in [Task -> Context \cup {NullContext}]
      BY <1>1, <1>2, <2>2 DEF IInv, TypeOK
    <3>2. task_states' \in [Task -> TaskState \ {TASK_SLEEPING}]
      BY <1>1, <1>5
         DEF IInv, TypeOK, TaskState, TASK_READY, TASK_RUNNING, TASK_SLEEPING, TASK_DEAD
    <3>3. \A t \in LiveTasks' : tasks'[t] \in Context /\ frame'[t] \in Frame
      BY <1>1, <1>2, <2>1, <2>3, <2>4 DEF IInv, TypeOK, LiveTasks
    <3>4. \A t \in LiveTasks' : InYield(t)' => kepc'[t] < MaxPc
      <4> TAKE t \in LiveTasks'
      <4>1. t \in LiveTasks /\ t \in Task /\ kepc'[t] = kepc[t]
        BY <1>1, <2>3 DEF LiveTasks
      <4>2. CASE t = next
        BY <1>5, <2>1, <2>2, <4>1, <4>2 DEF InYield, IInv, TypeOK
      <4>3. CASE t = current_task
        BY <1>2, <1>5, <2>4, <4>1, <4>3 DEF InYield
      <4>4. CASE t \notin {next, current_task}
        BY <1>5, <2>4, <4>1, <4>4 DEF InYield, IInv, TypeOK
      <4> QED
        BY <4>2, <4>3, <4>4
    <3> QED
      BY <1>1, <1>5, <2>1, <2>2, <3>1, <3>2, <3>3, <3>4
         DEF IInv, TypeOK, Phases, handlerVars, FreeUserPageTable
  <2>7. CurrentIsRunning'
    BY <1>1, <1>5, <2>2
       DEF IInv, TypeOK, CurrentIsRunning, TASK_READY, TASK_RUNNING, TASK_DEAD
  <2>8. OwnKernelStack'
    <3>1. /\ phase' # "user"
          /\ sp' = TaskTrapFrame(current_task')
      BY <1>5, <2>1, <2>2
    <3>2. ASSUME NEW t \in LiveTasks', t # next
          PROVE  /\ tasks'[t].sp = TaskTrapFrame(t)
                 /\ tasks'[t].ra \in {"trap_return", "trap_handler", "do_sys_yield"}
      <4>1. t \in LiveTasks /\ t \in Task
        BY <2>3, <3>2 DEF LiveTasks
      <4>2. CASE t = current_task
        <5>1. last # TASK_DEAD
          BY <2>3, <3>2, <4>2
        <5> QED
          BY <1>1, <1>2, <2>4, <4>1, <4>2, <5>1 DEF Callers
      <4>3. CASE t # current_task
        BY <2>4, <4>1, <4>3 DEF IInv, OwnKernelStack
      <4> QED
        BY <4>2, <4>3
    <3> QED
      BY <1>5, <3>1, <3>2 DEF OwnKernelStack, TaskTrapFrame
  <2>9. AddressSpacesOwned'
    <3>1. {tasks'[t].satp : t \in LiveTasks'} = {tasks[t].satp : t \in LiveTasks'}
      BY <2>5 DEF LiveTasks
    <3>2. free_pgds' = Pgds \ {tasks'[t].satp : t \in LiveTasks'}
      BY <1>1, <2>3, <3>1 DEF IInv, AddressSpacesOwned, FreeUserPageTable
    <3>3. \A t, u \in LiveTasks' : tasks'[t].satp = tasks'[u].satp => t = u
      BY <1>1, <2>3, <2>5 DEF IInv, AddressSpacesOwned, LiveTasks
    <3> QED
      BY <1>1, <1>5, <2>2, <2>5, <3>2, <3>3 DEF AddressSpacesOwned
  <2> QED
    BY <2>6, <2>7, <2>8, <2>9 DEF IInv
<1> QED
  <2>1. TypeOK /\ CurrentIsRunning /\ phase # "halted"
    BY DEF IInv
  <2> QED
    BY <1>3, <1>4, <1>5, <2>1, TaskYieldCases

-----------------------------------------------------------------------------
(***************************************************************************)
(* The state that os_main leaves satisfies the invariant.                  *)
(***************************************************************************)
LEMMA InitInv ==
    ASSUME Init
    PROVE  IInv
<1> USE KernelAssumption, MaxTasksAssumption
<1>1. PICK p \in Pgds : Init!(p)
  BY DEF Init
<1>2. 0 \in Task
  BY DEF Task
<1>3. LiveTasks = {0} /\ tasks[0] = FreshContext(0, p)
  BY <1>1, <1>2 DEF LiveTasks, TASK_RUNNING, TASK_DEAD
<1>4. TypeOK
  <2>1. FreshFrame(BOOT_ENTRY) \in Frame /\ 0 \in Pc
    BY DEF FreshFrame, ClearRegs, Frame, Val, Pc
  <2>2. FreshContext(0, p) \in Context /\ TaskTrapFrame(0) \in KernelSp
    BY <1>1, <1>2 DEF FreshContext, Context, TaskTrapFrame, KernelSp
  <2> QED
    BY <1>1, <1>2, <1>3, <2>1, <2>2
       DEF TypeOK, InYield, TaskState, Phases, Causes, TASK_RUNNING, TASK_SLEEPING, TASK_DEAD
<1>5. CurrentIsRunning
  BY <1>1, <1>2 DEF CurrentIsRunning, TASK_RUNNING, TASK_DEAD
<1>6. OwnKernelStack
  BY <1>1, <1>3 DEF OwnKernelStack
<1>7. AddressSpacesOwned
  BY <1>1, <1>3 DEF AddressSpacesOwned, FreshContext
<1> QED
  BY <1>4, <1>5, <1>6, <1>7 DEF IInv

(***************************************************************************)
(* Every step keeps the invariant.                                         *)
(***************************************************************************)
LEMMA NextInv ==
    ASSUME IInv, [Next]_vars
    PROVE  IInv'
<1> USE KernelAssumption, MaxTasksAssumption
<1> USE DEF taskVars, memVars, hartVars, devVars, handlerVars, switchVars,
            Handling, ReturnFromHandler, LiveTasks, InYield, StopIn
<1>1. CASE UserInstruction
  <2>1. TypeOK'
    BY <1>1 DEF IInv, UserInstruction, TypeOK, Val
  <2>2. CurrentIsRunning' /\ OwnKernelStack' /\ AddressSpacesOwned'
    BY <1>1 DEF IInv, UserInstruction, CurrentIsRunning, OwnKernelStack,
                AddressSpacesOwned, LiveTasks, StackTop, TaskTrapFrame
  <2> QED
    BY <2>1, <2>2 DEF IInv
<1>2. CASE \E c \in Causes : TrapEntry(c)
  <2>1. TypeOK'
    BY <1>2 DEF IInv, TrapEntry, SavedFrame, TypeOK, Frame, KernelSp, Phases,
                OwnKernelStack, StackTop, Pc
  <2>2. OwnKernelStack'
    BY <1>2 DEF IInv, TrapEntry, OwnKernelStack, LiveTasks, StackTop, TaskTrapFrame
  <2>3. CurrentIsRunning' /\ AddressSpacesOwned'
    BY <1>2 DEF IInv, TrapEntry, CurrentIsRunning, AddressSpacesOwned, LiveTasks
  <2> QED
    BY <2>1, <2>2, <2>3 DEF IInv
<1>3. CASE Timer
  <2>1. [task_states EXCEPT ![current_task] = TASK_RUNNING] = task_states
    BY <1>3, KernelFacts DEF Timer, IInv, TypeOK
  <2>2. TaskYield([task_states EXCEPT ![current_task] = TASK_RUNNING], "trap_handler")
    BY <1>3, <2>1 DEF Timer
  <2>3. "trap_handler" \in Callers /\ TASK_RUNNING # TASK_DEAD
    BY DEF Callers, TASK_RUNNING, TASK_DEAD
  <2>4. /\ phase = "handler" /\ mtip' \in BOOLEAN /\ free_pgds' = free_pgds
        /\ UNCHANGED <<handlerVars, frame, kepc, mem, rx>>
    BY <1>3 DEF Timer
  <2> QED
    BY <2>2, <2>3, <2>4, TaskYieldInv
<1>4. CASE DoSysWrite
  <2>1. TypeOK'
    BY <1>4, KernelFacts DEF IInv, DoSysWrite, TypeOK, Phases, Causes, Syscalls
  <2>2. CurrentIsRunning' /\ OwnKernelStack' /\ AddressSpacesOwned'
    BY <1>4 DEF IInv, DoSysWrite, CurrentIsRunning, OwnKernelStack,
                AddressSpacesOwned, LiveTasks, StackTop, TaskTrapFrame
  <2> QED
    BY <2>1, <2>2 DEF IInv
<1>5. CASE DoSysReadRefused
  <2>1. /\ frame' \in [Task -> Frame \cup {NullFrame}]
        /\ \A t \in LiveTasks : frame'[t] \in Frame
    <3>1. -1 \in Val
      BY DEF Val
    <3> QED
      BY <1>5, <3>1, SetA0Frames DEF DoSysReadRefused
  <2>2. TypeOK'
    BY <1>5, <2>1, KernelFacts DEF IInv, DoSysReadRefused, TypeOK, Phases, Causes, Syscalls
  <2>3. CurrentIsRunning' /\ OwnKernelStack' /\ AddressSpacesOwned'
    BY <1>5 DEF IInv, DoSysReadRefused, CurrentIsRunning, OwnKernelStack,
                AddressSpacesOwned, LiveTasks, StackTop, TaskTrapFrame
  <2> QED
    BY <2>2, <2>3 DEF IInv
<1>6. CASE \E ch \in Keys : DoSysRead(ch)
  <2>1. PICK ch \in Keys : DoSysRead(ch)
    BY <1>6
  <2>2. /\ frame' \in [Task -> Frame \cup {NullFrame}]
        /\ \A t \in LiveTasks : frame'[t] \in Frame
    <3>1. 1 \in Val
      BY DEF Val
    <3>2. CASE SetA0(1)
      BY <2>1, <3>1, <3>2, SetA0Frames DEF DoSysRead
    <3>3. CASE GetStuck \/ StopIn("overwritten")
      BY <3>3 DEF GetStuck, IInv, TypeOK
    <3> QED
      BY <2>1, <3>2, <3>3 DEF DoSysRead
  <2>3. mem' \in [Pgds -> UserVal]
    <3>1. ch \in UserVal /\ mem \in [Pgds -> UserVal]
      BY DEF IInv, TypeOK
    <3>2. CASE StoreAtPhysical(ch)
      BY <3>1, <3>2 DEF StoreAtPhysical
    <3>3. CASE GetStuck \/ StopIn("overwritten")
      BY <3>1, <3>3 DEF GetStuck
    <3> QED
      BY <2>1, <3>2, <3>3 DEF DoSysRead
  <2>4. /\ phase = "handler" /\ cause \in Syscalls
        /\ phase' \in {"epilogue", "stuck", "overwritten"}
        /\ kepc' \in {kepc, [kepc EXCEPT ![me] = kepc[me] + 1]}
        /\ rx' = NULL
        /\ UNCHANGED <<switchVars, handlerVars, free_pgds, mtip>>
    BY <2>1 DEF DoSysRead, GetStuck, Syscalls, Causes
  <2>5. TypeOK'
    BY <2>2, <2>3, <2>4, KernelFacts DEF IInv, TypeOK, Phases
  <2>6. CurrentIsRunning' /\ OwnKernelStack' /\ AddressSpacesOwned'
    BY <2>4 DEF IInv, CurrentIsRunning, OwnKernelStack, AddressSpacesOwned, StackTop,
                TaskTrapFrame
  <2> QED
    BY <2>5, <2>6 DEF IInv
<1>7. CASE DoSysYield
  <2>1. [task_states EXCEPT ![current_task] = TASK_RUNNING] = task_states
    BY <1>7, KernelFacts DEF DoSysYield, IInv, TypeOK
  <2>2. TaskYield([task_states EXCEPT ![current_task] = TASK_RUNNING], "do_sys_yield")
    BY <1>7, <2>1 DEF DoSysYield
  <2>3. "do_sys_yield" \in Callers /\ TASK_RUNNING # TASK_DEAD
    BY DEF Callers, TASK_RUNNING, TASK_DEAD
  <2>4. /\ phase = "handler" /\ mtip' \in BOOLEAN /\ free_pgds' = free_pgds
        /\ UNCHANGED <<handlerVars, frame, kepc, mem, rx>>
    BY <1>7 DEF DoSysYield, IInv, TypeOK
  <2>5. kepc[current_task] < MaxPc
    BY <1>7, KernelFacts DEF DoSysYield, Syscalls, Causes
  <2> QED
    BY <2>2, <2>3, <2>4, <2>5, TaskYieldInv
<1>8. CASE DoSysExit
  <2>1. "task_exit" \in Callers
    BY DEF Callers
  <2>2. /\ phase = "handler" /\ mtip' \in BOOLEAN
        /\ free_pgds' = FreeUserPageTable(tasks[current_task].satp)
        /\ TaskYield([task_states EXCEPT ![current_task] = TASK_DEAD], "task_exit")
        /\ UNCHANGED <<handlerVars, frame, kepc, mem, rx>>
    BY <1>8 DEF DoSysExit, IInv, TypeOK
  <2> QED
    BY <2>1, <2>2, TaskYieldInv
<1>9. CASE DoSysClone
  <2> DEFINE child == AllocTaskSlot(task_states)
  <2>1. child \in Task /\ task_states[child] = TASK_DEAD
    BY <1>9, AllocTaskSlotDead DEF DoSysClone
  <2>2. PICK child_pgd \in free_pgds :
           /\ free_pgds' = free_pgds \ {child_pgd}
           /\ mem' = [mem EXCEPT ![child_pgd] = mem[tasks[current_task].satp]]
           /\ tasks' = [tasks EXCEPT ![child] = FreshContext(child, child_pgd)]
    BY <1>9 DEF DoSysClone
  <2>3. /\ phase = "handler" /\ cause = "clone"
        /\ frame' = [frame EXCEPT
                        ![child] = ChildFrame(frame[me], kepc[me]),
                        ![me] = [frame[me] EXCEPT !.regs["a0"] = child]]
        /\ task_states' = [task_states EXCEPT ![child] = TASK_READY]
        /\ kepc' = [kepc EXCEPT ![me] = kepc[me] + 1]
        /\ phase' = "epilogue"
        /\ UNCHANGED <<handlerVars, current_task, sp, satp, devVars>>
    <3>1. frame \in [Task -> Frame \cup {NullFrame}] /\ me \in Task /\ me # child
      BY <1>9, <2>1, KernelFacts
         DEF DoSysClone, IInv, TypeOK, TASK_RUNNING, TASK_DEAD
    <3> QED
      BY <1>9, <2>1, <3>1 DEF DoSysClone
  <2> HIDE DEF child
  <2>4. /\ child \notin LiveTasks /\ child # me /\ child # current_task
        /\ LiveTasks' = LiveTasks \cup {child}
    BY <2>1, <2>3, KernelFacts
       DEF IInv, TypeOK, LiveTasks, TASK_READY, TASK_RUNNING, TASK_DEAD
  <2>5. FreshContext(child, child_pgd) \in Context
    BY <2>1, <2>2 DEF FreshContext, Context, TaskTrapFrame, KernelSp, IInv, TypeOK
  <2>6. TypeOK'
    <3>1. ChildFrame(frame[me], kepc[me]) \in Frame
      BY <2>3, KernelFacts, FrameResults DEF Causes, Syscalls
    <3>2. [frame[me] EXCEPT !.regs["a0"] = child] \in Frame
      BY <2>1, <2>3, KernelFacts, FrameResults DEF Val
    <3>3. frame' \in [Task -> Frame \cup {NullFrame}]
      BY <2>1, <2>3, <3>1, <3>2, KernelFacts DEF IInv, TypeOK
    <3>4. mem' \in [Pgds -> UserVal]
      BY <2>2, <2>3, KernelFacts DEF IInv, TypeOK
    <3>5. \A t \in LiveTasks' : tasks'[t] \in Context /\ frame'[t] \in Frame
      BY <2>1, <2>2, <2>3, <2>5, <3>1, <3>2, KernelFacts DEF IInv, TypeOK
    <3>6. tasks' \in [Task -> Context \cup {NullContext}]
      BY <2>1, <2>2, <2>5 DEF IInv, TypeOK
    <3>7. task_states' \in [Task -> TaskState \ {TASK_SLEEPING}]
      BY <2>1, <2>3 DEF IInv, TypeOK, TaskState, TASK_READY, TASK_SLEEPING
    <3>8. kepc' \in [Task -> Pc]
      BY <2>3, KernelFacts DEF IInv, TypeOK, Causes, Syscalls
    <3>9. ASSUME NEW t \in LiveTasks'
          PROVE  InYield(t)' => kepc'[t] < MaxPc
      <4>1. CASE t = child
        BY <2>1, <2>2, <2>3, <2>4, <4>1 DEF IInv, TypeOK, FreshContext
      <4>2. CASE t # child
        <5>1. t \in LiveTasks /\ tasks'[t] = tasks[t]
          BY <2>2, <2>4, <4>2, <3>9 DEF IInv, TypeOK
        <5>2. t # current_task => kepc'[t] = kepc[t]
          BY <2>3, KernelFacts, <5>1 DEF IInv, TypeOK
        <5> QED
          BY <2>3, <5>1, <5>2 DEF IInv, TypeOK
      <4> QED
        BY <4>1, <4>2
    <3> HIDE DEF InYield
    <3> QED
      BY <2>2, <2>3, <3>3, <3>4, <3>5, <3>6, <3>7, <3>8, <3>9 DEF IInv, TypeOK, Phases
  <2>7. CurrentIsRunning'
    BY <2>1, <2>3, <2>4
       DEF IInv, TypeOK, CurrentIsRunning, TASK_READY, TASK_RUNNING, TASK_DEAD
  <2>8. OwnKernelStack'
    BY <2>1, <2>2, <2>3, <2>4
       DEF IInv, TypeOK, OwnKernelStack, FreshContext, TaskTrapFrame, LiveTasks
  <2>9. AddressSpacesOwned'
    <3>1. \A t \in LiveTasks' :
             tasks'[t].satp = IF t = child THEN child_pgd ELSE tasks[t].satp
      BY <2>1, <2>2, <2>4 DEF IInv, TypeOK, FreshContext, LiveTasks
    <3>2. \A t \in LiveTasks : tasks[t].satp # child_pgd
      BY <2>2 DEF IInv, AddressSpacesOwned
    <3>3. {tasks'[t].satp : t \in LiveTasks'} =
             {tasks[t].satp : t \in LiveTasks} \cup {child_pgd}
      BY <2>4, <3>1
    <3>4. free_pgds' = Pgds \ {tasks'[t].satp : t \in LiveTasks'}
      BY <2>2, <3>3 DEF IInv, AddressSpacesOwned
    <3>5. \A t, u \in LiveTasks' : tasks'[t].satp = tasks'[u].satp => t = u
      BY <2>4, <3>1, <3>2 DEF IInv, AddressSpacesOwned
    <3>6. satp' = tasks'[current_task'].satp
      BY <2>2, <2>3, <2>4, KernelFacts DEF IInv, TypeOK
    <3> QED
      BY <3>4, <3>5, <3>6 DEF AddressSpacesOwned
  <2> QED
    BY <2>6, <2>7, <2>8, <2>9 DEF IInv
<1>10. CASE DoSysCloneFull
  <2>1. /\ frame' \in [Task -> Frame \cup {NullFrame}]
        /\ \A t \in LiveTasks : frame'[t] \in Frame
    <3>1. -1 \in Val
      BY DEF Val
    <3> QED
      BY <1>10, <3>1, SetA0Frames DEF DoSysCloneFull
  <2>2. TypeOK'
    BY <1>10, <2>1, KernelFacts DEF IInv, DoSysCloneFull, TypeOK, Phases, Causes, Syscalls
  <2>3. CurrentIsRunning' /\ OwnKernelStack' /\ AddressSpacesOwned'
    BY <1>10 DEF IInv, DoSysCloneFull, CurrentIsRunning, OwnKernelStack,
                 AddressSpacesOwned, LiveTasks, StackTop, TaskTrapFrame
  <2> QED
    BY <2>2, <2>3 DEF IInv
<1>11. CASE DoSysExecve
  <2>1. FreshFrame(ENTRY) \in Frame
    BY DEF FreshFrame, Frame, ClearRegs, Val
  <2>2. /\ frame' \in [Task -> Frame \cup {NullFrame}]
        /\ \A t \in LiveTasks' : frame'[t] \in Frame
    BY <1>11, <2>1, KernelFacts DEF IInv, TypeOK, DoSysExecve
  <2>3. TypeOK'
    BY <1>11, <2>2, KernelFacts
       DEF IInv, DoSysExecve, FreeUserPageTable, TypeOK, Context, Phases, Causes, Syscalls
  <2>4. CurrentIsRunning'
    BY <1>11 DEF IInv, DoSysExecve, CurrentIsRunning
  <2>5. OwnKernelStack'
    BY <1>11, KernelFacts
       DEF IInv, DoSysExecve, TypeOK, OwnKernelStack, TaskTrapFrame, LiveTasks
  <2>6. AddressSpacesOwned'
    BY <1>11, KernelFacts
       DEF IInv, DoSysExecve, FreeUserPageTable, TypeOK, Context, AddressSpacesOwned, LiveTasks
  <2> QED
    BY <2>3, <2>4, <2>5, <2>6 DEF IInv
<1>12. CASE DoSysExecveRejected
  <2>1. TypeOK'
    BY <1>12, KernelFacts DEF IInv, DoSysExecveRejected, TypeOK, Phases, Causes, Syscalls
  <2>2. CurrentIsRunning' /\ OwnKernelStack' /\ AddressSpacesOwned'
    BY <1>12 DEF IInv, DoSysExecveRejected, CurrentIsRunning, OwnKernelStack,
                 AddressSpacesOwned, LiveTasks, StackTop, TaskTrapFrame
  <2> QED
    BY <2>1, <2>2 DEF IInv
<1>13. CASE OutOfMemory \/ Panic
  <2>1. phase = "handler" /\ GetStuck /\ UNCHANGED devVars
    BY <1>13 DEF OutOfMemory, Panic
  <2>2. TypeOK'
    BY <2>1 DEF IInv, GetStuck, TypeOK, Phases
  <2>3. CurrentIsRunning' /\ OwnKernelStack' /\ AddressSpacesOwned'
    BY <2>1 DEF IInv, GetStuck, CurrentIsRunning, OwnKernelStack,
                AddressSpacesOwned, LiveTasks, StackTop, TaskTrapFrame
  <2> QED
    BY <2>2, <2>3 DEF IInv
<1>14. CASE Epilogue
  <2>1. /\ frame' \in [Task -> Frame \cup {NullFrame}]
        /\ \A t \in LiveTasks : frame'[t] \in Frame
    BY <1>14, KernelFacts, FrameResults DEF Epilogue, IInv, TypeOK
  <2>2. TypeOK'
    BY <1>14, <2>1 DEF IInv, Epilogue, TypeOK, Phases
  <2>3. CurrentIsRunning' /\ OwnKernelStack' /\ AddressSpacesOwned'
    BY <1>14 DEF IInv, Epilogue, CurrentIsRunning, OwnKernelStack,
                 AddressSpacesOwned, LiveTasks, StackTop, TaskTrapFrame
  <2> QED
    BY <2>2, <2>3 DEF IInv
<1>15. CASE TrapReturn
  <2>1. TypeOK'
    BY <1>15, KernelFacts
       DEF IInv, TrapReturn, Popped, TypeOK, Frame, KernelSp, Phases, TaskTrapFrame
  <2>2. OwnKernelStack'
    BY <1>15, KernelFacts
       DEF IInv, TrapReturn, Popped, OwnKernelStack, LiveTasks, StackTop, TaskTrapFrame
  <2>3. CurrentIsRunning' /\ AddressSpacesOwned'
    BY <1>15 DEF IInv, TrapReturn, CurrentIsRunning, AddressSpacesOwned, LiveTasks
  <2> QED
    BY <2>1, <2>2, <2>3 DEF IInv
<1>16. CASE TimerReturns \/ YieldReturns
  <2>1. /\ phase \in {"trap_handler", "do_sys_yield"} /\ phase' = "epilogue"
        /\ UNCHANGED <<switchVars, handlerVars, frame, memVars, devVars>>
    BY <1>16 DEF TimerReturns, YieldReturns
  <2>2. kepc' \in [Task -> Pc] /\ \A t \in Task \ {current_task} : kepc'[t] = kepc[t]
    BY <1>16, KernelFacts DEF TimerReturns, YieldReturns, IInv, TypeOK
  <2>3. TypeOK'
    BY <2>1, <2>2 DEF IInv, TypeOK, Phases
  <2>4. CurrentIsRunning' /\ OwnKernelStack' /\ AddressSpacesOwned'
    BY <2>1 DEF IInv, CurrentIsRunning, OwnKernelStack, AddressSpacesOwned, StackTop,
                TaskTrapFrame
  <2> QED
    BY <2>3, <2>4 DEF IInv
<1>17. CASE Tick \/ (\E ch \in Keys : KeyArrives(ch)) \/ UNCHANGED vars
  <2>1. /\ UNCHANGED <<taskVars, memVars, hartVars>>
        /\ mtip' \in BOOLEAN /\ rx' \in Keys \cup {NULL}
    BY <1>17 DEF Tick, KeyArrives, vars, IInv, TypeOK
  <2>2. TypeOK'
    BY <2>1 DEF IInv, TypeOK
  <2>3. CurrentIsRunning' /\ OwnKernelStack' /\ AddressSpacesOwned'
    BY <2>1 DEF IInv, CurrentIsRunning, OwnKernelStack, AddressSpacesOwned,
                LiveTasks, StackTop, TaskTrapFrame
  <2> QED
    BY <2>2, <2>3 DEF IInv
<1> QED
  BY <1>1, <1>2, <1>3, <1>4, <1>5, <1>6, <1>7, <1>8, <1>9, <1>10, <1>11, <1>12,
     <1>13, <1>14, <1>15, <1>16, <1>17
     DEF Next, Handler

-----------------------------------------------------------------------------
(***************************************************************************)
(* The invariant holds in every reachable state: the hart, the task table, *)
(* the kernel stacks and the page tables stay in step through every        *)
(* interleaving of traps, switches, forks, execs and exits.                *)
(***************************************************************************)
THEOREM Invariance == Spec => []IInv
<1>1. Init => IInv
  BY InitInv
<1>2. IInv /\ [Next]_vars => IInv'
  BY NextInv
<1> QED
  BY <1>1, <1>2, PTL DEF Spec

(***************************************************************************)
(* Type correctness.                                                       *)
(***************************************************************************)
THEOREM TypeCorrect == Spec => []TypeOK
<1>1. IInv => TypeOK
  BY DEF IInv
<1> QED
  BY <1>1, Invariance, PTL

(***************************************************************************)
(* Exactly the current task is marked running until the machine halts.     *)
(***************************************************************************)
THEOREM OneTaskRuns == Spec => []CurrentIsRunning
<1>1. IInv => CurrentIsRunning
  BY DEF IInv
<1> QED
  BY <1>1, Invariance, PTL

(***************************************************************************)
(* No task's trap is ever taken on another task's kernel stack.            *)
(***************************************************************************)
THEOREM KernelStacksPrivate == Spec => []OwnKernelStack
<1>1. IInv => OwnKernelStack
  BY DEF IInv
<1> QED
  BY <1>1, Invariance, PTL

(***************************************************************************)
(* No page table is shared, lost, or used after it was freed.              *)
(***************************************************************************)
THEOREM NoSharingNoLeak == Spec => []AddressSpacesOwned
<1>1. IInv => AddressSpacesOwned
  BY DEF IInv
<1> QED
  BY <1>1, Invariance, PTL

-----------------------------------------------------------------------------
(***************************************************************************)
(* Every step either passes through task_yield or keeps the current task,  *)
(* and only task_yield halts the machine.                                  *)
(***************************************************************************)
LEMMA StepCases ==
    ASSUME [Next]_vars
    PROVE  \/ /\ phase = "handler"
              /\ \/ Timer \/ DoSysYield
                 \/ DoSysExit
           \/ /\ current_task' = current_task
              /\ phase' = "halted" =>
                    UNCHANGED <<phase, task_states, free_pgds>>
<1> USE DEF taskVars, memVars, hartVars, handlerVars, switchVars, Handling, ReturnFromHandler
<1>1. CASE Timer \/ DoSysYield \/ DoSysExit
  BY <1>1 DEF Timer, DoSysYield, DoSysExit
<1>2. CASE \/ UserInstruction \/ (\E c \in Causes : TrapEntry(c))
           \/ TimerReturns \/ YieldReturns \/ Epilogue \/ TrapReturn
  BY <1>2 DEF UserInstruction, TrapEntry, TimerReturns, YieldReturns, Epilogue, TrapReturn
<1>3. CASE DoSysWrite \/ DoSysReadRefused \/ (\E ch \in Keys : DoSysRead(ch))
  BY <1>3 DEF DoSysWrite, DoSysReadRefused, DoSysRead, GetStuck, StopIn
<1>4. CASE DoSysClone \/ DoSysCloneFull \/ DoSysExecve \/ DoSysExecveRejected
  BY <1>4 DEF DoSysClone, DoSysCloneFull, DoSysExecve, DoSysExecveRejected
<1>5. CASE OutOfMemory \/ Panic
  BY <1>5 DEF OutOfMemory, Panic, GetStuck, StopIn
<1>6. CASE Tick \/ (\E ch \in Keys : KeyArrives(ch)) \/ UNCHANGED vars
  BY <1>6 DEF Tick, KeyArrives, vars
<1> QED
  BY <1>1, <1>2, <1>3, <1>4, <1>5, <1>6 DEF Next, Handler

(***************************************************************************)
(* What the steps through task_yield do to the task table.                 *)
(***************************************************************************)
LEMMA YieldSteps ==
    ASSUME IInv, phase = "handler", Timer \/ DoSysYield \/ DoSysExit
    PROVE  \/ \A t \in Task : task_states'[t] = TASK_DEAD
           \/ phase' # "halted" /\ current_task' = current_task
           \/ /\ phase' # "halted"
              /\ current_task' \in Task \ {current_task}
              /\ task_states'[current_task'] = TASK_RUNNING
              /\ \A t \in Task : task_states[t] = TASK_READY =>
                    Dist(current_task, current_task') <= Dist(current_task, t)
<1>1. PICK last \in {TASK_RUNNING, TASK_DEAD}, caller \in Callers :
         TaskYield([task_states EXCEPT ![current_task] = last], caller)
  <2>1. [task_states EXCEPT ![current_task] = TASK_RUNNING] = task_states
    BY KernelFacts DEF IInv, TypeOK
  <2> QED
    BY <2>1 DEF Timer, DoSysYield, DoSysExit, Callers
<1>2. TypeOK /\ CurrentIsRunning /\ phase # "halted" /\ caller # "halted"
  BY DEF IInv, Callers
<1>3. ASSUME NEW next \in Task \ {current_task},
             task_states[next] = TASK_READY,
             \A t \in Task : task_states[t] = TASK_READY =>
                Dist(current_task, next) <= Dist(current_task, t),
             task_states' = [task_states EXCEPT
                                ![current_task] = IF last = TASK_DEAD THEN TASK_DEAD
                                                                      ELSE TASK_READY,
                                ![next] = TASK_RUNNING],
             current_task' = next,
             SwitchTo(next, caller)
      PROVE  /\ phase' # "halted"
             /\ current_task' \in Task \ {current_task}
             /\ task_states'[current_task'] = TASK_RUNNING
             /\ \A t \in Task : task_states[t] = TASK_READY =>
                   Dist(current_task, current_task') <= Dist(current_task, t)
  <2>1. tasks[next].ra # "halted"
    BY <1>3 DEF IInv, OwnKernelStack, LiveTasks, TASK_READY, TASK_DEAD
  <2> QED
    BY <1>2, <1>3, <2>1 DEF SwitchTo, TypeOK
<1> QED
  BY <1>1, <1>2, <1>3, TaskYieldCases

(***************************************************************************)
(* The machine halts only when every task has exited, and then every page  *)
(* table is on the free list again.                                        *)
(***************************************************************************)
THEOREM HaltReclaimsEverything == Spec => []HaltsEmpty
<1>1. Init => HaltsEmpty
  BY DEF Init, HaltsEmpty
<1>2. IInv /\ HaltsEmpty /\ [Next]_vars => HaltsEmpty'
  <2> SUFFICES ASSUME IInv, HaltsEmpty, [Next]_vars, phase' = "halted"
               PROVE  (LiveTasks = {} /\ free_pgds = Pgds)'
    BY DEF HaltsEmpty
  <2>1. CASE UNCHANGED <<phase, task_states, free_pgds>>
    BY <2>1 DEF HaltsEmpty, LiveTasks
  <2>2. CASE phase = "handler" /\ (Timer \/ DoSysYield \/ DoSysExit)
    <3>1. \/ \A t \in Task : task_states'[t] = TASK_DEAD
          \/ current_task' = current_task /\ phase' # "halted"
      BY <2>2, YieldSteps
    <3>2. LiveTasks' = {}
      BY <3>1 DEF LiveTasks
    <3>3. AddressSpacesOwned'
      BY NextInv DEF IInv
    <3> QED
      BY <3>2, <3>3 DEF AddressSpacesOwned
  <2> QED
    BY <2>1, <2>2, StepCases
<1> QED
  BY <1>1, <1>2, Invariance, PTL DEF Spec

(***************************************************************************)
(* Round robin.  A task that stays ready while the hart is handed over     *)
(* comes strictly nearer, so it waits for at most MAX_TASKS - 1 switches.  *)
(***************************************************************************)
THEOREM RoundRobin == Spec => NoOvertaking
<1> DEFINE Nearer == \A t \in Task :
                        /\ current_task' # current_task
                        /\ task_states[t] = TASK_READY
                        /\ task_states'[t] = TASK_READY
                        => Dist(current_task', t) < Dist(current_task, t)
<1>1. IInv /\ [Next]_vars => [Nearer]_vars
  <2> SUFFICES ASSUME IInv, [Next]_vars, current_task' # current_task,
                      NEW t \in Task,
                      task_states[t] = TASK_READY, task_states'[t] = TASK_READY
               PROVE  Dist(current_task', t) < Dist(current_task, t)
    OBVIOUS
  <2>1. /\ current_task' \in Task /\ current_task \in Task
        /\ task_states'[current_task'] = TASK_RUNNING
        /\ Dist(current_task, current_task') <= Dist(current_task, t)
    BY StepCases, YieldSteps DEF TASK_READY, TASK_DEAD, IInv, TypeOK
  <2>2. t # current_task'
    BY <2>1 DEF TASK_READY, TASK_RUNNING
  <2> QED
    BY <2>1, <2>2, NearestComesNearer
<1> QED
  BY <1>1, Invariance, PTL DEF Spec, NoOvertaking

(***************************************************************************)
(* fork and exec never find the free list empty when there is room for one *)
(* page table more than there are task slots: a kernel that lost a page    *)
(* table on any path would.                                                *)
(***************************************************************************)
THEOREM MemorySuffices ==
    ASSUME IsFiniteSet(Pgds), Cardinality(Pgds) > MAX_TASKS
    PROVE  Spec => []NeverOutOfMemory
<1>1. IInv => NeverOutOfMemory
  <2> SUFFICES ASSUME IInv, free_pgds = {}
               PROVE  FALSE
    BY DEF NeverOutOfMemory
  <2> DEFINE owned == [t \in LiveTasks |-> tasks[t].satp]
  <2>1. \A t \in LiveTasks : tasks[t].satp \in Pgds
    BY DEF IInv, TypeOK, LiveTasks, Context
  <2>2. owned \in Surjection(LiveTasks, Pgds)
    BY <2>1 DEF IInv, AddressSpacesOwned, Surjection
  <2>3. IsFiniteSet(Task) /\ Cardinality(Task) = MAX_TASKS
    BY FS_Interval, MaxTasksAssumption DEF Task
  <2>4. IsFiniteSet(LiveTasks) /\ Cardinality(LiveTasks) <= MAX_TASKS
    BY <2>3, FS_Subset DEF LiveTasks
  <2>5. Cardinality(Pgds) <= Cardinality(LiveTasks)
    BY <2>2, <2>4, FS_Surjection
  <2>6. Cardinality(Pgds) \in Nat /\ Cardinality(LiveTasks) \in Nat
    BY <2>4, FS_CardinalityType
  <2> QED
    BY <2>4, <2>5, <2>6, MaxTasksAssumption
<1> QED
  BY <1>1, Invariance, PTL

-----------------------------------------------------------------------------
(***************************************************************************)
(* Module Kernel implements module VirtualHarts, for any number of tasks,  *)
(* page tables, registers and values: the kernel gives every task a        *)
(* private hart.                                                           *)
(***************************************************************************)

(***************************************************************************)
(* The private hart of the current task in each phase.                     *)
(***************************************************************************)
LEMMA CurrentHart ==
    PrivateHart(current_task) =
       [pc   |-> IF phase = "user" THEN pc
                 ELSE IF phase = "trap_return" THEN frame[current_task].epc
                 ELSE kepc[current_task],
        sp   |-> IF phase = "user" THEN sp ELSE frame[current_task].user_sp,
        regs |-> IF phase = "user" THEN regs ELSE frame[current_task].regs,
        mem  |-> mem[satp]]
  BY DEF PrivateHart, InUserMode, FrameIsFinal

(***************************************************************************)
(* The private hart of a task that waits.                                  *)
(***************************************************************************)
LEMMA WaitingHart ==
    ASSUME NEW t \in Task, t # current_task
    PROVE  PrivateHart(t) =
              [pc   |-> IF tasks[t].ra = "trap_return" THEN frame[t].epc ELSE kepc[t],
               sp   |-> frame[t].user_sp,
               regs |-> frame[t].regs,
               mem  |-> mem[tasks[t].satp]]
  BY DEF PrivateHart, InUserMode, FrameIsFinal

(***************************************************************************)
(* A step that leaves the task table and everything of the waiting tasks   *)
(* alone changes the private hart of the current task only.                *)
(***************************************************************************)
LEMMA OnlyCurrentMoves ==
    ASSUME IInv, phase # "halted", NEW h,
           UNCHANGED <<current_task, task_states>>,
           \A t \in LiveTasks \ {current_task} :
              /\ tasks'[t] = tasks[t]
              /\ frame'[t] = frame[t]
              /\ kepc'[t] = kepc[t]
              /\ mem'[tasks[t].satp] = mem[tasks[t].satp],
           PrivateHart(current_task)' = h
    PROVE  VH!Become(current_task, h)
<1>1. current_task \in LiveTasks /\ LiveTasks \subseteq Task /\ LiveTasks' = LiveTasks
  BY DEF IInv, TypeOK, CurrentIsRunning, LiveTasks, TASK_RUNNING, TASK_DEAD
<1>2. ASSUME NEW t \in LiveTasks, t # current_task
      PROVE  PrivateHart(t)' = PrivateHart(t)
  <2>1. t \in Task /\ t # current_task'
    BY <1>1, <1>2
  <2>2. PrivateHart(t)' =
           [pc   |-> IF tasks'[t].ra = "trap_return" THEN frame'[t].epc ELSE kepc'[t],
            sp   |-> frame'[t].user_sp,
            regs |-> frame'[t].regs,
            mem  |-> mem'[tasks'[t].satp]]
    BY <2>1 DEF PrivateHart, InUserMode, FrameIsFinal
  <2> QED
    BY <1>2, <2>1, <2>2, WaitingHart
<1>3. harts' = [harts EXCEPT ![current_task] = h]
  BY <1>1, <1>2 DEF harts
<1> QED
  BY <1>3 DEF VH!Become, harts

(***************************************************************************)
(* The same when the private hart of the current task stays as it is.      *)
(***************************************************************************)
LEMMA NothingMoves ==
    ASSUME IInv, phase # "halted",
           UNCHANGED <<current_task, task_states>>,
           \A t \in LiveTasks \ {current_task} :
              /\ tasks'[t] = tasks[t]
              /\ frame'[t] = frame[t]
              /\ kepc'[t] = kepc[t]
              /\ mem'[tasks[t].satp] = mem[tasks[t].satp],
           PrivateHart(current_task)' = PrivateHart(current_task)
    PROVE  harts' = harts
<1>1. VH!Become(current_task, PrivateHart(current_task))
  BY OnlyCurrentMoves
<1>2. current_task \in LiveTasks
  BY DEF IInv, TypeOK, CurrentIsRunning, LiveTasks, TASK_RUNNING, TASK_DEAD
<1> QED
  BY <1>1, <1>2 DEF VH!Become, harts

(***************************************************************************)
(* The current task is live, and no other live task uses its page table.   *)
(***************************************************************************)
LEMMA CurrentAlone ==
    ASSUME IInv, phase # "halted"
    PROVE  /\ current_task \in LiveTasks
           /\ harts[current_task] = PrivateHart(current_task)
           /\ VH!Live = LiveTasks
           /\ satp \in Pgds /\ tasks[current_task].satp = satp
           /\ \A t \in LiveTasks \ {current_task} :
                 t \in Task /\ tasks[t].satp \in Pgds /\ tasks[t].satp # satp
<1>1. current_task \in LiveTasks
  BY DEF IInv, TypeOK, CurrentIsRunning, LiveTasks, TASK_RUNNING, TASK_DEAD
<1> QED
  BY <1>1 DEF harts, VH!Live, IInv, TypeOK, Context, AddressSpacesOwned, LiveTasks

(***************************************************************************)
(* A user instruction acts on the private hart as it does on the real one. *)
(***************************************************************************)
LEMMA UserInstructionRefines ==
    ASSUME IInv, UserInstruction
    PROVE  \E t \in VH!Live : VH!Instruction(t)
<1> DEFINE hart == PrivateHart(current_task)
<1>1. phase = "user" /\ phase' = "user" /\ phase # "halted"
  BY DEF UserInstruction
<1>2. hart = [pc |-> pc, sp |-> sp, regs |-> regs, mem |-> mem[satp]]
  BY <1>1, CurrentHart
<1>3. PrivateHart(current_task)' =
         [pc |-> pc', sp |-> sp', regs |-> regs', mem |-> mem'[satp]]
  BY <1>1 DEF PrivateHart, InUserMode, UserInstruction, taskVars
<1>4. /\ UNCHANGED <<current_task, task_states, tasks, frame, kepc, satp>>
      /\ \A t \in LiveTasks \ {current_task} : mem'[tasks[t].satp] = mem[tasks[t].satp]
  BY <1>1, CurrentAlone DEF UserInstruction, taskVars, IInv, TypeOK
<1>5. VH!Become(current_task, PrivateHart(current_task)')
  BY <1>1, <1>4, OnlyCurrentMoves
<1> HIDE DEF hart
<1>6. \/ \E p \in Pc : PrivateHart(current_task)' = [hart EXCEPT !.pc = p]
      \/ \E s \in UserSp : PrivateHart(current_task)' = [hart EXCEPT !.sp = s]
      \/ \E r \in Reg, v \in UserVal : PrivateHart(current_task)' = VH!WithReg(hart, r, v)
      \/ \E v \in UserVal : PrivateHart(current_task)' = [hart EXCEPT !.mem = v]
  <2>1. CASE pc' \in Pc /\ UNCHANGED <<sp, regs, mem>>
    BY <1>2, <1>3, <2>1
  <2>2. CASE sp' \in UserSp /\ UNCHANGED <<pc, regs, mem>>
    BY <1>2, <1>3, <2>2
  <2>3. CASE /\ \E r \in Reg, v \in UserVal : regs' = [regs EXCEPT ![r] = v]
             /\ UNCHANGED <<pc, sp, mem>>
    BY <1>2, <1>3, <2>3 DEF VH!WithReg
  <2>4. CASE /\ \E v \in UserVal : mem' = [mem EXCEPT ![satp] = v]
             /\ UNCHANGED <<pc, sp, regs>>
    <3>1. mem \in [Pgds -> UserVal] /\ satp \in Pgds
      BY DEF IInv, TypeOK
    <3> QED
      BY <1>2, <1>3, <2>4, <3>1
  <2> QED
    BY <2>1, <2>2, <2>3, <2>4 DEF UserInstruction
<1>7. harts[current_task] = hart /\ current_task \in VH!Live
  BY <1>1, CurrentAlone DEF hart
<1>8. ASSUME NEW p \in Pc, PrivateHart(current_task)' = [hart EXCEPT !.pc = p]
      PROVE  VH!Instruction(current_task)
  BY <1>5, <1>7, <1>8 DEF VH!Instruction, harts
<1>9. ASSUME NEW s \in UserSp, PrivateHart(current_task)' = [hart EXCEPT !.sp = s]
      PROVE  VH!Instruction(current_task)
  BY <1>5, <1>7, <1>9 DEF VH!Instruction, harts
<1>10. ASSUME NEW r \in Reg, NEW v \in UserVal,
              PrivateHart(current_task)' = VH!WithReg(hart, r, v)
       PROVE  VH!Instruction(current_task)
  BY <1>5, <1>7, <1>10 DEF VH!Instruction, harts
<1>11. ASSUME NEW v \in UserVal, PrivateHart(current_task)' = [hart EXCEPT !.mem = v]
       PROVE  VH!Instruction(current_task)
  BY <1>5, <1>7, <1>11 DEF VH!Instruction, harts
<1> QED
  BY <1>6, <1>7, <1>8, <1>9, <1>10, <1>11

(***************************************************************************)
(* The private hart of a task inside a handler.                            *)
(***************************************************************************)
LEMMA HandlerHart ==
    ASSUME IInv, phase \in {"handler", "trap_handler", "do_sys_yield"}
    PROVE  /\ harts[current_task] =
                 [pc   |-> kepc[me],
                  sp   |-> frame[me].user_sp,
                  regs |-> frame[me].regs,
                  mem  |-> mem[satp]]
           /\ \/ phase = "handler" /\ cause \in Syscalls
              \/ phase = "do_sys_yield"
              => VH!MayCall(current_task)
<1>1. harts[current_task] = PrivateHart(current_task)
  BY CurrentAlone
<1>2. harts[current_task] =
         [pc   |-> kepc[me],
          sp   |-> frame[me].user_sp,
          regs |-> frame[me].regs,
          mem  |-> mem[satp]]
  BY <1>1, CurrentHart, KernelFacts
<1>3. \/ phase = "handler" /\ cause \in Syscalls
      \/ phase = "do_sys_yield"
      => harts[current_task].pc + 1 \in Pc
  BY <1>2, KernelFacts
<1> QED
  BY <1>2, <1>3 DEF VH!MayCall, harts

(***************************************************************************)
(* A private hart after a system call, field by field.                     *)
(***************************************************************************)
LEMMA ReturnedHart ==
    ASSUME NEW p, NEW s, NEW r, NEW m, NEW v,
           NEW h, h = [pc |-> p, sp |-> s, regs |-> r, mem |-> m]
    PROVE  VH!Returned(h, v) =
              [pc |-> p + 1, sp |-> s, regs |-> [r EXCEPT !["a0"] = v], mem |-> m]
<1>1. VH!WithReg(h, "a0", v) =
         [pc |-> p, sp |-> s, regs |-> [r EXCEPT !["a0"] = v], mem |-> m]
  BY DEF VH!WithReg
<1> QED
  BY <1>1 DEF VH!Returned

(***************************************************************************)
(* A handler that returns epc + 4 and may have set a0.                     *)
(***************************************************************************)
LEMMA ReturnRefines ==
    ASSUME IInv, (phase = "handler" /\ cause \in Syscalls) \/ phase = "do_sys_yield",
           NEW result \in Val, NEW writes \in BOOLEAN,
           IF writes THEN SetA0(result) ELSE frame' = frame,
           ReturnFromHandler(kepc[me] + 1),
           UNCHANGED <<switchVars, memVars>>
    PROVE  /\ ~writes => VH!Call(current_task)
           /\ writes => /\ VH!MayCall(current_task)
                        /\ VH!Become(current_task, VH!Returned(harts[current_task], result))
<1> DEFINE moved == [pc   |-> kepc[me] + 1,
                     sp   |-> frame[me].user_sp,
                     regs |-> IF writes THEN [frame[me].regs EXCEPT !["a0"] = result]
                                        ELSE frame[me].regs,
                     mem  |-> mem[satp]]
<1>1. /\ me = current_task /\ me \in Task
      /\ kepc \in [Task -> Pc] /\ frame \in [Task -> Frame \cup {NullFrame}]
      /\ frame[me] \in Frame
  BY KernelFacts DEF IInv, TypeOK
<1>2. PrivateHart(current_task)' = moved
  <2>1. PrivateHart(current_task)' =
           [pc |-> kepc'[me], sp |-> frame'[me].user_sp, regs |-> frame'[me].regs, mem |-> mem'[satp]]
    BY <1>1 DEF PrivateHart, InUserMode, FrameIsFinal, ReturnFromHandler, switchVars
  <2>2. kepc'[me] = kepc[me] + 1 /\ mem' = mem
    BY <1>1 DEF ReturnFromHandler, memVars
  <2>3. /\ frame'[me].user_sp = frame[me].user_sp
        /\ frame'[me].regs = moved.regs
    BY <1>1 DEF SetA0, Frame
  <2> QED
    BY <2>1, <2>2, <2>3
<1>3. \A t \in LiveTasks \ {current_task} :
         /\ tasks'[t] = tasks[t]
         /\ frame'[t] = frame[t]
         /\ kepc'[t] = kepc[t]
         /\ mem'[tasks[t].satp] = mem[tasks[t].satp]
  BY <1>1 DEF SetA0, ReturnFromHandler, switchVars, memVars, LiveTasks
<1> HIDE DEF moved
<1>4. VH!Become(current_task, moved)
  BY <1>2, <1>3, OnlyCurrentMoves DEF switchVars
<1>5. CASE ~writes
  <2>1. moved = [harts[current_task] EXCEPT !.pc = @ + 1]
    BY <1>5, HandlerHart DEF moved
  <2> QED
    BY <1>4, <1>5, <2>1, HandlerHart DEF VH!Call, harts
<1>6. CASE writes
  <2>1. moved = VH!Returned(harts[current_task], result)
    BY <1>6, HandlerHart, ReturnedHart DEF moved
  <2> QED
    BY <1>4, <1>6, <2>1, HandlerHart
<1> QED
  BY <1>5, <1>6

(***************************************************************************)
(* A read that returns: the caller moves on with 1 in a0, and at most one  *)
(* private hart has the character in its memory.                           *)
(***************************************************************************)
LEMMA ReadRefines ==
    ASSUME IInv, NEW ch \in Keys, DoSysRead(ch), phase' = "epilogue"
    PROVE  VH!Read(current_task) \/ VH!StrayRead(current_task)
<1>0. PICK c \in Task : c = current_task
  BY DEF IInv, TypeOK
<1> DEFINE moved(m) == [pc   |-> kepc[c] + 1,
                        sp   |-> frame[c].user_sp,
                        regs |-> [frame[c].regs EXCEPT !["a0"] = 1],
                        mem  |-> m]
<1>1. /\ phase = "handler" /\ cause \in Syscalls
      /\ StoreAtPhysical(ch) /\ SetA0(1) /\ kepc' = [kepc EXCEPT ![c] = kepc[c] + 1]
      /\ UNCHANGED switchVars
  <2>1. phase = "handler"
    BY DEF DoSysRead, Handling
  <2> QED
    BY <1>0, <2>1, KernelFacts
       DEF DoSysRead, GetStuck, StopIn, ReturnFromHandler, Handling, Syscalls, Causes
<1>2. /\ c = me /\ c = current_task /\ c \in LiveTasks /\ c \in Task
      /\ tasks[c].satp = satp
      /\ kepc \in [Task -> Pc] /\ frame \in [Task -> Frame \cup {NullFrame}]
      /\ frame[c] \in Frame /\ mem \in [Pgds -> UserVal] /\ ch \in UserVal
      /\ LiveTasks' = LiveTasks
  BY <1>0, <1>1, KernelFacts, KernelAssumption DEF IInv, TypeOK, LiveTasks, switchVars
<1>3. harts[c] = [pc   |-> kepc[c],
                   sp   |-> frame[c].user_sp,
                   regs |-> frame[c].regs,
                   mem  |-> mem[satp]]
  BY <1>1, <1>2, HandlerHart
<1>4. VH!Returned(harts[c], 1) = moved(mem[satp]) /\ VH!MayCall(c)
  BY <1>1, <1>2, <1>3, ReturnedHart, HandlerHart
<1>5. PrivateHart(c)' = moved(mem'[satp])
  <2>1. PrivateHart(c)' =
           [pc |-> kepc'[c], sp |-> frame'[c].user_sp, regs |-> frame'[c].regs, mem |-> mem'[satp]]
    BY <1>1, <1>2 DEF PrivateHart, InUserMode, FrameIsFinal, switchVars
  <2>2. frame'[c].user_sp = frame[c].user_sp /\ frame'[c].regs = moved(0).regs
    BY <1>1, <1>2 DEF SetA0, Frame
  <2> QED
    BY <1>1, <1>2, <2>1, <2>2
<1> HIDE DEF moved
<1>6. ASSUME NEW t \in LiveTasks, t # c
      PROVE  PrivateHart(t)' = [harts[t] EXCEPT !.mem = mem'[tasks[t].satp]]
  <2>1. t \in Task /\ t # current_task /\ t # current_task'
    BY <1>1, <1>2, <1>6 DEF LiveTasks, switchVars
  <2>2. harts[t] =
           [pc   |-> IF tasks[t].ra = "trap_return" THEN frame[t].epc ELSE kepc[t],
            sp   |-> frame[t].user_sp,
            regs |-> frame[t].regs,
            mem  |-> mem[tasks[t].satp]]
    BY <2>1, <1>6, WaitingHart DEF harts
  <2>3. PrivateHart(t)' =
           [pc   |-> IF tasks'[t].ra = "trap_return" THEN frame'[t].epc ELSE kepc'[t],
            sp   |-> frame'[t].user_sp,
            regs |-> frame'[t].regs,
            mem  |-> mem'[tasks'[t].satp]]
    BY <2>1 DEF PrivateHart, InUserMode, FrameIsFinal
  <2>4. tasks'[t] = tasks[t] /\ frame'[t] = frame[t] /\ kepc'[t] = kepc[t]
    BY <1>1, <1>2, <1>6, <2>1 DEF SetA0, switchVars
  <2> QED
    BY <2>2, <2>3, <2>4
<1>7. CASE \A t \in LiveTasks : mem'[tasks[t].satp] = mem[tasks[t].satp]
  <2>1. \A t \in LiveTasks : t # c => PrivateHart(t)' = harts[t]
    <3> SUFFICES ASSUME NEW t \in LiveTasks, t # c
                 PROVE  PrivateHart(t)' = harts[t]
      OBVIOUS
    <3>1. harts[t].mem = mem[tasks[t].satp]
      BY <1>2, WaitingHart DEF harts, LiveTasks
    <3> QED
      BY <1>6, <1>7, <3>1 DEF harts, PrivateHart
  <2>2. PrivateHart(c)' = VH!Returned(harts[c], 1)
    BY <1>2, <1>4, <1>5, <1>7
  <2>3. harts' = [harts EXCEPT ![c] = VH!Returned(harts[c], 1)]
    BY <1>2, <2>1, <2>2 DEF harts
  <2>4. VH!Read(c)
    BY <1>4, <2>3 DEF VH!Read, VH!Become, harts
  <2> QED
    BY <1>2, <2>4
<1>8. ASSUME NEW u \in LiveTasks, mem' = [mem EXCEPT ![tasks[u].satp] = ch]
      PROVE  VH!StrayRead(c)
  <2>1. /\ \A t \in LiveTasks : tasks[t].satp \in Pgds
        /\ \A t \in LiveTasks : tasks[t].satp = tasks[u].satp => t = u
    BY DEF IInv, TypeOK, AddressSpacesOwned, LiveTasks, Context
  <2>2. \A t \in LiveTasks :
           mem'[tasks[t].satp] = IF t = u THEN ch ELSE mem[tasks[t].satp]
    BY <1>2, <1>8, <2>1
  <2>3. PrivateHart(c)' = IF c = u THEN [VH!Returned(harts[c], 1) EXCEPT !.mem = ch]
                                     ELSE VH!Returned(harts[c], 1)
    BY <1>2, <1>4, <1>5, <2>2 DEF moved
  <2>4. ASSUME NEW t \in LiveTasks, t # c
        PROVE  PrivateHart(t)' = IF t = u THEN [harts[t] EXCEPT !.mem = ch] ELSE harts[t]
    <3>1. harts[t].mem = mem[tasks[t].satp]
      BY <1>2, <2>4, WaitingHart DEF harts, LiveTasks
    <3> QED
      BY <1>6, <2>2, <2>4, <3>1 DEF harts, PrivateHart
  <2>5. harts' = [harts EXCEPT ![c] = VH!Returned(harts[c], 1), ![u].mem = ch]
    BY <1>2, <2>3, <2>4 DEF harts
  <2>6. VH!Live = LiveTasks
    BY DEF VH!Live
  <2> QED
    BY <1>2, <1>4, <2>5, <2>6 DEF VH!StrayRead, harts
<1>9. CASE \E u \in LiveTasks : mem' = [mem EXCEPT ![tasks[u].satp] = ch]
  BY <1>2, <1>8, <1>9
<1>10. CASE \A p \in Pgds : mem' = [mem EXCEPT ![p] = ch] => \A u \in LiveTasks : tasks[u].satp # p
  <2>1. \A t \in LiveTasks : tasks[t].satp \in Pgds
    BY DEF IInv, TypeOK, LiveTasks, Context
  <2>2. \A t \in LiveTasks : mem'[tasks[t].satp] = mem[tasks[t].satp]
    BY <1>1, <1>2, <1>10, <2>1 DEF StoreAtPhysical
  <2> QED
    BY <1>2, <1>7, <2>2
<1> QED
  BY <1>9, <1>10

(***************************************************************************)
(* fork: a second private hart appears, a copy of the first but for a0.    *)
(***************************************************************************)
LEMMA CloneRefines ==
    ASSUME IInv, DoSysClone
    PROVE  VH!Clone(current_task)
<1> DEFINE h == harts[current_task]
<1> USE DEF handlerVars, devVars, Handling, ReturnFromHandler
<1>1. PICK child \in Task : child = AllocTaskSlot(task_states) /\ task_states[child] = TASK_DEAD
  BY AllocTaskSlotDead DEF DoSysClone
<1>2. PICK child_pgd \in free_pgds :
         /\ free_pgds' = free_pgds \ {child_pgd}
         /\ mem' = [mem EXCEPT ![child_pgd] = mem[tasks[current_task].satp]]
         /\ tasks' = [tasks EXCEPT ![child] = FreshContext(child, child_pgd)]
  BY <1>1 DEF DoSysClone
<1>3. phase = "handler" /\ cause \in Syscalls
  BY DEF DoSysClone, Causes, Syscalls
<1>4. /\ me = current_task /\ me \in Task /\ me \in LiveTasks
      /\ child \notin LiveTasks /\ child # me
      /\ frame \in [Task -> Frame \cup {NullFrame}] /\ frame[me] \in Frame
      /\ kepc \in [Task -> Pc] /\ tasks \in [Task -> Context \cup {NullContext}]
      /\ task_states \in [Task -> TaskState] /\ mem \in [Pgds -> UserVal]
      /\ child_pgd \in Pgds
  BY <1>1, <1>2, <1>3, KernelFacts DEF IInv, TypeOK, LiveTasks
<1>5. /\ frame' = [frame EXCEPT
                      ![child] = ChildFrame(frame[me], kepc[me]),
                      ![me] = [frame[me] EXCEPT !.regs["a0"] = child]]
      /\ task_states' = [task_states EXCEPT ![child] = TASK_READY]
      /\ kepc' = [kepc EXCEPT ![me] = kepc[me] + 1]
      /\ phase' = "epilogue"
      /\ UNCHANGED <<current_task, satp>>
  BY <1>1, <1>4 DEF DoSysClone
<1>6. h = [pc |-> kepc[me], sp |-> frame[me].user_sp, regs |-> frame[me].regs, mem |-> mem[satp]]
  BY <1>3, HandlerHart
<1>7. LiveTasks' = LiveTasks \cup {child}
  BY <1>1, <1>4, <1>5 DEF LiveTasks, TASK_READY, TASK_DEAD
<1> HIDE DEF h
<1>8. /\ \A t \in LiveTasks : tasks[t].satp # child_pgd
      /\ tasks[current_task].satp = satp /\ satp # child_pgd
  BY <1>2, <1>3, <1>4, CurrentAlone DEF IInv, AddressSpacesOwned
<1>9. PrivateHart(current_task)' = VH!Returned(h, child)
  <2>1. PrivateHart(current_task)' =
           [pc |-> kepc'[me], sp |-> frame'[me].user_sp, regs |-> frame'[me].regs, mem |-> mem'[satp]]
    BY <1>4, <1>5 DEF PrivateHart, InUserMode, FrameIsFinal
  <2>2. /\ kepc'[me] = kepc[me] + 1
        /\ frame'[me].user_sp = frame[me].user_sp
        /\ frame'[me].regs = [frame[me].regs EXCEPT !["a0"] = child]
        /\ mem'[satp] = mem[satp]
    BY <1>2, <1>4, <1>5, <1>8 DEF Frame
  <2> QED
    BY <1>6, <2>1, <2>2, ReturnedHart
<1>10. PrivateHart(child)' = VH!Returned(h, 0)
  <2>1. tasks'[child] = FreshContext(child, child_pgd)
    BY <1>1, <1>2, <1>4
  <2>2. PrivateHart(child)' =
           [pc |-> frame'[child].epc, sp |-> frame'[child].user_sp,
            regs |-> frame'[child].regs, mem |-> mem'[child_pgd]]
    BY <1>4, <1>5, <2>1 DEF PrivateHart, InUserMode, FrameIsFinal, FreshContext
  <2>3. frame'[child] = ChildFrame(frame[me], kepc[me])
    BY <1>1, <1>4, <1>5
  <2>4. /\ ChildFrame(frame[me], kepc[me]).epc = kepc[me] + 1
        /\ ChildFrame(frame[me], kepc[me]).user_sp = frame[me].user_sp
        /\ ChildFrame(frame[me], kepc[me]).regs = [frame[me].regs EXCEPT !["a0"] = 0]
    BY <1>4 DEF ChildFrame, Frame
  <2>5. mem'[child_pgd] = mem[satp]
    BY <1>2, <1>4, <1>8
  <2> QED
    BY <1>6, <2>2, <2>3, <2>4, <2>5, ReturnedHart
<1>11. ASSUME NEW t \in LiveTasks, t # current_task
       PROVE  PrivateHart(t)' = harts[t]
  <2>1. t \in Task /\ t # child /\ t # current_task'
    BY <1>4, <1>5, <1>11 DEF LiveTasks
  <2>2. /\ tasks'[t] = tasks[t] /\ frame'[t] = frame[t] /\ kepc'[t] = kepc[t]
        /\ mem'[tasks[t].satp] = mem[tasks[t].satp]
    <3>1. tasks[t].satp \in Pgds
      BY <1>3, <1>11, CurrentAlone
    <3> QED
      BY <1>2, <1>4, <1>5, <1>8, <1>11, <2>1, <3>1
  <2>3. PrivateHart(t)' =
           [pc   |-> IF tasks'[t].ra = "trap_return" THEN frame'[t].epc ELSE kepc'[t],
            sp   |-> frame'[t].user_sp,
            regs |-> frame'[t].regs,
            mem  |-> mem'[tasks'[t].satp]]
    BY <2>1 DEF PrivateHart, InUserMode, FrameIsFinal
  <2>4. harts[t] = PrivateHart(t)
    BY DEF harts
  <2> QED
    BY <1>11, <2>1, <2>2, <2>3, <2>4, WaitingHart
<1>12. harts' = [u \in LiveTasks \cup {child} |->
                    CASE u = child        -> VH!Returned(h, 0)
                      [] u = current_task -> VH!Returned(h, child)
                      [] OTHER            -> harts[u]]
  <2>1. ASSUME NEW u \in LiveTasks \cup {child}
        PROVE  PrivateHart(u)' = CASE u = child        -> VH!Returned(h, 0)
                                   [] u = current_task -> VH!Returned(h, child)
                                   [] OTHER            -> harts[u]
    <3>1. CASE u = child
      BY <1>4, <1>10, <3>1
    <3>2. CASE u = current_task
      BY <1>4, <1>5, <1>9, <3>2
    <3>3. CASE u \notin {child, current_task}
      BY <1>11, <2>1, <3>3
    <3> QED
      BY <3>1, <3>2, <3>3
  <2> QED
    BY <1>7, <2>1 DEF harts
<1>13. VH!Live = LiveTasks /\ VH!MayCall(current_task) /\ child \in Task \ LiveTasks
  BY <1>1, <1>3, <1>4, CurrentAlone, HandlerHart
<1>14. VH!Live # Task
  BY <1>13
<1> QED
  BY <1>12, <1>13, <1>14 DEF VH!Clone, harts, h

(***************************************************************************)
(* exec: the current task starts afresh; the others do not notice that a   *)
(* page table was taken and another one freed.                             *)
(***************************************************************************)
LEMMA ExecveRefines ==
    ASSUME IInv, DoSysExecve
    PROVE  VH!Execve(current_task)
<1> USE DEF handlerVars, devVars, Handling, ReturnFromHandler
<1>1. phase = "handler" /\ phase # "halted"
  BY DEF DoSysExecve
<1>2. PICK new_pgd \in free_pgds :
         /\ mem' = [mem EXCEPT ![new_pgd] = IMAGE_WORD]
         /\ tasks' = [tasks EXCEPT ![current_task].satp = new_pgd]
         /\ satp' = new_pgd
  BY DEF DoSysExecve
<1>3. /\ frame' = [frame EXCEPT ![me] = FreshFrame(ENTRY)]
      /\ kepc' = [kepc EXCEPT ![me] = ENTRY]
      /\ phase' = "epilogue"
      /\ UNCHANGED <<task_states, current_task>>
  BY DEF DoSysExecve
<1>4. /\ me = current_task /\ me \in Task /\ new_pgd \in Pgds
      /\ frame \in [Task -> Frame \cup {NullFrame}] /\ kepc \in [Task -> Pc]
      /\ tasks \in [Task -> Context \cup {NullContext}] /\ mem \in [Pgds -> UserVal]
  BY <1>1, KernelFacts DEF IInv, TypeOK
<1>5. PrivateHart(current_task)' = VH!Fresh(ENTRY, IMAGE_WORD)
  <2>1. PrivateHart(current_task)' =
           [pc |-> kepc'[me], sp |-> frame'[me].user_sp, regs |-> frame'[me].regs, mem |-> mem'[new_pgd]]
    BY <1>2, <1>3, <1>4 DEF PrivateHart, InUserMode, FrameIsFinal
  <2>2. kepc'[me] = ENTRY /\ frame'[me] = FreshFrame(ENTRY) /\ mem'[new_pgd] = IMAGE_WORD
    BY <1>2, <1>3, <1>4
  <2> QED
    BY <2>1, <2>2 DEF FreshFrame, ClearRegs, VH!Fresh, VH!VHart, VH!ClearRegs
<1>6. \A t \in LiveTasks \ {current_task} :
         /\ tasks'[t] = tasks[t]
         /\ frame'[t] = frame[t]
         /\ kepc'[t] = kepc[t]
         /\ mem'[tasks[t].satp] = mem[tasks[t].satp]
  <2>1. \A t \in LiveTasks : tasks[t].satp # new_pgd
    BY DEF IInv, AddressSpacesOwned
  <2>2. \A t \in LiveTasks \ {current_task} : t \in Task /\ tasks[t].satp \in Pgds
    BY <1>1, CurrentAlone
  <2> QED
    BY <1>2, <1>3, <1>4, <2>1, <2>2
<1>7. VH!Become(current_task, VH!Fresh(ENTRY, IMAGE_WORD))
  BY <1>1, <1>3, <1>5, <1>6, OnlyCurrentMoves
<1> QED
  BY <1>7 DEF VH!Execve

(***************************************************************************)
(* task_yield: the private hart of every other task survives the switch,   *)
(* the one that is switched to included, and that of the current task is   *)
(* as it was when it calls, or disappears when it exits.                   *)
(***************************************************************************)
LEMMA YieldRefines ==
    ASSUME IInv, phase = "handler",
           NEW last \in {TASK_RUNNING, TASK_DEAD},
           NEW caller \in Callers,
           TaskYield([task_states EXCEPT ![current_task] = last], caller),
           UNCHANGED <<frame, kepc, mem>>
    PROVE  /\ last = TASK_RUNNING => harts' = harts
           /\ last = TASK_DEAD => VH!Exit(current_task)
<1>1. PICK c \in Task : c = current_task
  BY DEF IInv, TypeOK
<1>2. /\ me = c /\ c \in LiveTasks /\ LiveTasks \subseteq Task
      /\ kepc \in [Task -> Pc] /\ tasks \in [Task -> Context \cup {NullContext}]
      /\ task_states \in [Task -> TaskState]
      /\ tasks[c].satp = satp
  BY <1>1, KernelFacts DEF IInv, TypeOK, LiveTasks
<1>3. harts[c] = [pc   |-> kepc[c],
                  sp   |-> frame[c].user_sp,
                  regs |-> frame[c].regs,
                  mem  |-> mem[satp]]
  BY <1>1, <1>2, HandlerHart
<1>4. \A t \in LiveTasks \ {c} :
         harts[t] = [pc   |-> IF tasks[t].ra = "trap_return" THEN frame[t].epc ELSE kepc[t],
                     sp   |-> frame[t].user_sp,
                     regs |-> frame[t].regs,
                     mem  |-> mem[tasks[t].satp]]
  BY <1>1, <1>2, WaitingHart DEF harts
<1>5. caller # "trap_return" /\ caller # "user"
  BY DEF Callers
<1>6. CASE /\ last = TASK_DEAD
           /\ \A t \in Task : task_states'[t] = TASK_DEAD
           /\ task_states' = [task_states EXCEPT ![current_task] = TASK_DEAD]
  <2>1. LiveTasks' = {} /\ LiveTasks = {c}
    BY <1>1, <1>2, <1>6 DEF LiveTasks
  <2>2. harts' = [t \in {} |-> harts[t]]
    BY <2>1 DEF harts
  <2>3. VH!Live \ {current_task} = {}
    BY <1>1, <2>1 DEF VH!Live
  <2> QED
    BY <1>6, <2>2, <2>3 DEF VH!Exit, harts, TASK_RUNNING, TASK_DEAD
<1>7. CASE /\ last = TASK_RUNNING
           /\ phase' = caller
           /\ UNCHANGED <<task_states, current_task, tasks, sp, satp>>
  <2>1. PrivateHart(current_task)' = PrivateHart(current_task)
    BY <1>5, <1>7 DEF PrivateHart, InUserMode, FrameIsFinal
  <2> QED
    BY <1>7, <2>1, NothingMoves DEF TASK_RUNNING, TASK_DEAD
<1>8. ASSUME NEW next \in Task \ {current_task},
             task_states[next] = TASK_READY,
             task_states' = [task_states EXCEPT
                                ![current_task] = IF last = TASK_DEAD THEN TASK_DEAD
                                                                      ELSE TASK_READY,
                                ![next] = TASK_RUNNING],
             current_task' = next,
             SwitchTo(next, caller)
      PROVE  /\ last = TASK_RUNNING => harts' = harts
             /\ last = TASK_DEAD => VH!Exit(current_task)
  <2>1. /\ tasks' = [tasks EXCEPT ![c] = SavedContext(caller)]
        /\ satp' = tasks[next].satp
        /\ phase' = tasks[next].ra /\ phase' # "user"
    <3>1. next \in LiveTasks \ {current_task}
      BY <1>8 DEF LiveTasks, TASK_READY, TASK_DEAD
    <3> QED
      BY <1>1, <1>8, <3>1 DEF SwitchTo, NextSatp, IInv, OwnKernelStack
  <2>2. LiveTasks' = IF last = TASK_DEAD THEN LiveTasks \ {c} ELSE LiveTasks
    BY <1>1, <1>2, <1>8 DEF LiveTasks, TASK_READY, TASK_RUNNING, TASK_DEAD
  <2>3. PrivateHart(c)' = harts[c]
    <3>1. PrivateHart(c)' =
             [pc   |-> IF tasks'[c].ra = "trap_return" THEN frame'[c].epc ELSE kepc'[c],
              sp   |-> frame'[c].user_sp,
              regs |-> frame'[c].regs,
              mem  |-> mem'[tasks'[c].satp]]
      BY <1>1, <1>8 DEF PrivateHart, InUserMode, FrameIsFinal
    <3>2. tasks'[c].ra # "trap_return" /\ tasks'[c].satp = satp
      BY <1>2, <1>5, <2>1 DEF SavedContext
    <3> QED
      BY <1>3, <3>1, <3>2
  <2>4. PrivateHart(next)' = harts[next]
    <3>1. next \in LiveTasks \ {c}
      BY <1>1, <1>8 DEF LiveTasks, TASK_READY, TASK_DEAD
    <3>2. PrivateHart(next)' =
             [pc   |-> IF tasks[next].ra = "trap_return" THEN frame'[next].epc
                                                         ELSE kepc'[next],
              sp   |-> frame'[next].user_sp,
              regs |-> frame'[next].regs,
              mem  |-> mem'[satp']]
      BY <1>8, <2>1 DEF PrivateHart, InUserMode, FrameIsFinal
    <3> QED
      BY <1>4, <2>1, <3>1, <3>2
  <2>5. ASSUME NEW t \in LiveTasks, t \notin {c, next}
        PROVE  PrivateHart(t)' = harts[t]
    <3>1. PrivateHart(t)' =
             [pc   |-> IF tasks'[t].ra = "trap_return" THEN frame'[t].epc ELSE kepc'[t],
              sp   |-> frame'[t].user_sp,
              regs |-> frame'[t].regs,
              mem  |-> mem'[tasks'[t].satp]]
      BY <1>8, <2>5 DEF PrivateHart, InUserMode, FrameIsFinal
    <3>2. tasks'[t] = tasks[t]
      BY <1>2, <2>1, <2>5
    <3> QED
      BY <1>4, <2>5, <3>1, <3>2
  <2>6. \A t \in LiveTasks : PrivateHart(t)' = harts[t]
    BY <1>1, <2>3, <2>4, <2>5
  <2>7. CASE last = TASK_RUNNING
    <3>1. harts' = harts
      BY <2>2, <2>6, <2>7 DEF harts, TASK_RUNNING, TASK_DEAD
    <3> QED
      BY <2>7, <3>1 DEF TASK_RUNNING, TASK_DEAD
  <2>8. CASE last = TASK_DEAD
    <3>1. harts' = [t \in LiveTasks \ {c} |-> harts[t]]
      BY <2>2, <2>6, <2>8 DEF harts
    <3>2. VH!Live = LiveTasks
      BY DEF VH!Live
    <3> QED
      BY <1>1, <2>8, <3>1, <3>2 DEF VH!Exit, harts, TASK_RUNNING, TASK_DEAD
  <2> QED
    BY <2>7, <2>8
<1> QED
  <2>1. TypeOK /\ CurrentIsRunning /\ phase # "halted"
    BY DEF IInv
  <2> QED
    BY <1>6, <1>7, <1>8, <2>1, TaskYieldCases

(***************************************************************************)
(* task_yield does not write over the kernel.                              *)
(***************************************************************************)
LEMMA YieldStaysIntact ==
    ASSUME IInv, phase = "handler", Timer \/ DoSysYield \/ DoSysExit
    PROVE  phase' # "overwritten"
<1>1. PICK last \in {TASK_RUNNING, TASK_DEAD}, caller \in Callers :
         TaskYield([task_states EXCEPT ![current_task] = last], caller)
  <2>1. [task_states EXCEPT ![current_task] = TASK_RUNNING] = task_states
    BY KernelFacts DEF IInv, TypeOK
  <2> QED
    BY <2>1 DEF Timer, DoSysYield, DoSysExit, Callers
<1>2. TypeOK /\ CurrentIsRunning /\ phase # "halted" /\ caller # "overwritten"
  BY DEF IInv, Callers
<1>3. ASSUME NEW next \in Task \ {current_task}, task_states[next] = TASK_READY,
             SwitchTo(next, caller)
      PROVE  phase' # "overwritten"
  <2>1. next \in LiveTasks \ {current_task}
    BY <1>3 DEF LiveTasks, TASK_READY, TASK_DEAD
  <2> QED
    BY <1>3, <2>1 DEF SwitchTo, IInv, OwnKernelStack
<1> QED
  BY <1>1, <1>2, <1>3, TaskYieldCases

(***************************************************************************)
(* What a program must not notice: the entry of a trap, a timer interrupt  *)
(* or sched_yield with the switch it makes, the return from a handler, the *)
(* devices, and a kernel that gets stuck.                                  *)
(***************************************************************************)
LEMMA TransparentSteps ==
    ASSUME IInv,
           \/ (\E c \in Causes : TrapEntry(c)) \/ Timer \/ TimerReturns \/ DoSysYield
           \/ OutOfMemory \/ Panic \/ Epilogue \/ TrapReturn
           \/ Tick \/ (\E ch \in Keys : KeyArrives(ch)) \/ UNCHANGED vars
    PROVE  harts' = harts
<1> USE DEF taskVars, memVars, hartVars, devVars, handlerVars, switchVars, Handling
<1>1. CASE \E c \in Causes : TrapEntry(c)
  <2>1. /\ phase = "user" /\ mscratch = StackTop(current_task)
        /\ UNCHANGED <<task_states, current_task, tasks, mem, satp>>
        /\ frame' = [frame EXCEPT ![current_task] = SavedFrame]
        /\ kepc' = [kepc EXCEPT ![current_task] = pc]
        /\ phase' = "handler"
    <3>1. phase = "user" /\ mscratch = <<current_task, 0>>
      BY <1>1 DEF TrapEntry, IInv, OwnKernelStack, StackTop
    <3>2. mscratch[1] = current_task
      BY <3>1
    <3> QED
      BY <1>1, <3>1, <3>2 DEF TrapEntry, StackTop
  <2>2. /\ frame \in [Task -> Frame \cup {NullFrame}] /\ kepc \in [Task -> Pc]
        /\ current_task \in Task
    BY DEF IInv, TypeOK
  <2>3. PrivateHart(current_task)' = PrivateHart(current_task)
    BY <2>1, <2>2 DEF PrivateHart, InUserMode, FrameIsFinal, SavedFrame
  <2>4. \A t \in LiveTasks \ {current_task} : frame'[t] = frame[t] /\ kepc'[t] = kepc[t]
    BY <2>1, <2>2 DEF LiveTasks
  <2> QED
    BY <2>1, <2>3, <2>4, NothingMoves
<1>2. CASE Timer \/ DoSysYield
  <2>1. [task_states EXCEPT ![current_task] = TASK_RUNNING] = task_states
    BY <1>2, KernelFacts DEF Timer, DoSysYield, IInv, TypeOK
  <2>2. PICK caller \in Callers :
           TaskYield([task_states EXCEPT ![current_task] = TASK_RUNNING], caller)
    BY <1>2, <2>1 DEF Timer, DoSysYield, Callers
  <2>3. phase = "handler" /\ UNCHANGED <<frame, kepc, mem>>
    BY <1>2 DEF Timer, DoSysYield
  <2> QED
    BY <2>2, <2>3, YieldRefines
<1>3. CASE OutOfMemory \/ Panic
  <2>1. phase = "handler" /\ GetStuck
    BY <1>3 DEF OutOfMemory, Panic
  <2>2. PrivateHart(current_task)' = PrivateHart(current_task)
    BY <2>1 DEF GetStuck, StopIn, PrivateHart, InUserMode, FrameIsFinal
  <2> QED
    BY <2>1, <2>2, NothingMoves DEF GetStuck, StopIn
<1>4. CASE Epilogue
  <2>1. /\ phase = "epilogue" /\ me = current_task /\ me \in Task
        /\ frame \in [Task -> Frame \cup {NullFrame}] /\ frame[me] \in Frame
        /\ frame' = [frame EXCEPT ![me] = [frame[me] EXCEPT !.epc = kepc[me]]]
        /\ phase' = "trap_return"
        /\ UNCHANGED <<task_states, current_task, tasks, kepc, mem, satp>>
    BY <1>4, KernelFacts DEF Epilogue, IInv, TypeOK
  <2>2. /\ frame'[me].epc = kepc[me]
        /\ frame'[me].user_sp = frame[me].user_sp
        /\ frame'[me].regs = frame[me].regs
    BY <2>1 DEF Frame
  <2>3. PrivateHart(current_task)' = PrivateHart(current_task)
    BY <2>1, <2>2 DEF PrivateHart, InUserMode, FrameIsFinal
  <2>4. \A t \in LiveTasks \ {current_task} : frame'[t] = frame[t]
    BY <2>1 DEF LiveTasks
  <2> QED
    BY <2>1, <2>3, <2>4, NothingMoves
<1>5. CASE TrapReturn
  <2>1. /\ phase = "trap_return" /\ phase' = "user" /\ me = current_task
        /\ pc' = frame[me].epc /\ regs' = frame[me].regs /\ sp' = frame[me].user_sp
        /\ UNCHANGED <<task_states, current_task, tasks, frame, kepc, mem, satp>>
    BY <1>5, KernelFacts DEF TrapReturn
  <2>2. PrivateHart(current_task)' = PrivateHart(current_task)
    BY <2>1 DEF PrivateHart, InUserMode, FrameIsFinal
  <2> QED
    BY <2>1, <2>2, NothingMoves
<1>6. CASE Tick \/ (\E ch \in Keys : KeyArrives(ch)) \/ UNCHANGED vars
  BY <1>6 DEF Tick, KeyArrives, vars, harts, LiveTasks, PrivateHart, InUserMode, FrameIsFinal
<1>7. CASE TimerReturns
  <2>1. /\ phase = "trap_handler" /\ phase' = "epilogue"
        /\ kepc' = [kepc EXCEPT ![me] = kepc[me]] /\ kepc \in [Task -> Pc]
        /\ UNCHANGED <<task_states, current_task, tasks, frame, mem, satp>>
    BY <1>7 DEF TimerReturns, ReturnFromHandler, IInv, TypeOK
  <2>2. kepc' = kepc
    BY <2>1
  <2>3. PrivateHart(current_task)' = PrivateHart(current_task)
    BY <2>1, <2>2 DEF PrivateHart, InUserMode, FrameIsFinal
  <2> QED
    BY <2>1, <2>2, <2>3, NothingMoves
<1> QED
  BY <1>1, <1>2, <1>3, <1>4, <1>5, <1>6, <1>7

(***************************************************************************)
(* Every step of the kernel is a step of one private hart or none, or the  *)
(* store of a read that hits the kernel.                                   *)
(***************************************************************************)
LEMMA StepRefines ==
    ASSUME IInv, [Next]_vars
    PROVE  \/ phase' # "overwritten" /\ (\E t \in VH!Live : VH!Step(t))
           \/ phase # "overwritten" /\ (\E t \in VH!Live : VH!MayCall(t))
              /\ phase' = "overwritten"
           \/ harts' = harts /\ (phase' = "overwritten" <=> phase = "overwritten")
<1> USE DEF taskVars, memVars, hartVars, devVars, handlerVars, switchVars, Handling
<1>1. CASE UserInstruction
  BY <1>1, UserInstructionRefines DEF VH!Step, UserInstruction
<1>2. CASE DoSysWrite \/ DoSysExecveRejected \/ YieldReturns
  <2>1. /\ (phase = "handler" /\ cause \in Syscalls) \/ phase = "do_sys_yield"
        /\ 0 \in Val
        /\ frame' = frame /\ ReturnFromHandler(kepc[me] + 1)
        /\ UNCHANGED <<switchVars, memVars>>
    BY <1>2, KernelAssumption
       DEF DoSysWrite, DoSysExecveRejected, YieldReturns, Syscalls, Causes, Val
  <2>2. VH!Call(current_task)
    BY <2>1, ReturnRefines
  <2>3. phase' = "epilogue" /\ phase # "halted"
    BY <2>1 DEF ReturnFromHandler
  <2> QED
    BY <2>2, <2>3, CurrentAlone DEF VH!Step
<1>3. CASE DoSysReadRefused
  <2>1. /\ phase = "handler" /\ cause \in Syscalls
        /\ SetA0(-1) /\ ReturnFromHandler(kepc[me] + 1)
        /\ UNCHANGED <<switchVars, memVars>> /\ -1 \in Val
    BY <1>3 DEF DoSysReadRefused, Syscalls, Causes, Val
  <2>2. /\ VH!MayCall(current_task)
        /\ VH!Become(current_task, VH!Returned(harts[current_task], -1))
    BY <2>1, ReturnRefines
  <2>3. VH!Read(current_task)
    BY <2>2 DEF VH!Read, harts
  <2> QED
    BY <2>1, <2>3, CurrentAlone DEF VH!Step, ReturnFromHandler
<1>4. CASE \E ch \in Keys : DoSysRead(ch)
  <2>1. PICK ch \in Keys : DoSysRead(ch)
    BY <1>4
  <2>2. phase = "handler" /\ cause \in Syscalls /\ phase' \in {"epilogue", "stuck", "overwritten"}
    BY <2>1 DEF DoSysRead, GetStuck, StopIn, ReturnFromHandler, Syscalls, Causes
  <2>3. CASE phase' = "epilogue"
    <3>1. VH!Read(current_task) \/ VH!StrayRead(current_task)
      BY <2>1, <2>3, ReadRefines
    <3> QED
      BY <2>2, <2>3, <3>1, CurrentAlone DEF VH!Step
  <2>4. CASE phase' = "stuck"
    <3>1. GetStuck
      BY <2>1, <2>4 DEF DoSysRead, ReturnFromHandler, StopIn
    <3>2. PrivateHart(current_task)' = PrivateHart(current_task)
      BY <2>2, <3>1 DEF GetStuck, StopIn, PrivateHart, InUserMode, FrameIsFinal
    <3>3. harts' = harts
      BY <2>2, <3>1, <3>2, NothingMoves DEF GetStuck, StopIn
    <3> QED
      BY <2>2, <2>4, <3>3
  <2>5. CASE phase' = "overwritten"
    BY <2>2, <2>5, HandlerHart, CurrentAlone
  <2> QED
    BY <2>2, <2>3, <2>4, <2>5
<1>5. CASE DoSysExit
  <2>1. /\ phase = "handler" /\ "task_exit" \in Callers
        /\ TaskYield([task_states EXCEPT ![current_task] = TASK_DEAD], "task_exit")
        /\ UNCHANGED <<frame, kepc, mem>>
    BY <1>5 DEF DoSysExit, Callers
  <2>2. VH!Exit(current_task)
    BY <2>1, YieldRefines
  <2>3. phase' # "overwritten"
    BY <1>5, <2>1, YieldStaysIntact
  <2> QED
    BY <2>1, <2>2, <2>3, CurrentAlone DEF VH!Step
<1>6. CASE DoSysClone
  BY <1>6, CloneRefines, CurrentAlone DEF VH!Step, DoSysClone, ReturnFromHandler
<1>7. CASE DoSysCloneFull
  <2>1. /\ phase = "handler" /\ cause \in Syscalls
        /\ SetA0(-1) /\ ReturnFromHandler(kepc[me] + 1)
        /\ UNCHANGED <<switchVars, memVars>> /\ -1 \in Val
    BY <1>7 DEF DoSysCloneFull, Syscalls, Causes, Val
  <2>2. /\ VH!MayCall(current_task)
        /\ VH!Become(current_task, VH!Returned(harts[current_task], -1))
    BY <2>1, ReturnRefines
  <2>3. VH!Live = Task
    <3>1. -1 \notin Task
      BY MaxTasksAssumption DEF Task
    <3>2. \A t \in Task : task_states[t] # TASK_DEAD
      BY <1>7, <3>1, AllocTaskSlotDead DEF DoSysCloneFull
    <3> QED
      BY <3>2 DEF VH!Live, LiveTasks
  <2>4. VH!Clone(current_task)
    BY <2>2, <2>3 DEF VH!Clone, harts
  <2> QED
    BY <2>1, <2>4, CurrentAlone DEF VH!Step, ReturnFromHandler
<1>8. CASE DoSysExecve
  BY <1>8, ExecveRefines, CurrentAlone DEF VH!Step, DoSysExecve, ReturnFromHandler
<1>9. CASE \/ (\E c \in Causes : TrapEntry(c)) \/ Timer \/ TimerReturns \/ DoSysYield
           \/ OutOfMemory \/ Panic \/ Epilogue \/ TrapReturn
           \/ Tick \/ (\E ch \in Keys : KeyArrives(ch)) \/ UNCHANGED vars
  <2>1. harts' = harts
    BY <1>9, TransparentSteps
  <2>2. CASE Timer \/ DoSysYield
    BY <2>1, <2>2, YieldStaysIntact DEF Timer, DoSysYield
  <2>3. CASE ~(Timer \/ DoSysYield)
    BY <1>9, <2>1, <2>3
       DEF TrapEntry, TimerReturns, ReturnFromHandler, OutOfMemory, Panic, GetStuck, StopIn,
           Epilogue, TrapReturn, Tick, KeyArrives, vars
  <2> QED
    BY <2>2, <2>3
<1> QED
  BY <1>1, <1>2, <1>3, <1>4, <1>5, <1>6, <1>7, <1>8, <1>9 DEF Next, Handler

(***************************************************************************)
(* Traps are invisible: entering one, a timer interrupt with the switch it *)
(* makes, and the way back through trap_return leave every register, stack *)
(* pointer, program counter and memory of every program as they were.      *)
(***************************************************************************)
THEOREM TrapsUnseen == Spec => TrapsInvisible
<1> DEFINE Trap == \/ phase = "user" /\ phase' # "user"
                   \/ phase = "handler" /\ cause \in {"timer", "sched_yield"}
                   \/ phase \in {"trap_handler", "epilogue", "trap_return"}
<1>1. IInv /\ [Next]_vars => [Trap => harts' = harts]_vars
  <2> SUFFICES ASSUME IInv, [Next]_vars, Trap
               PROVE  harts' = harts
    OBVIOUS
  <2>1. ~UserInstruction
    BY DEF UserInstruction, hartVars
  <2>2. /\ ~DoSysWrite /\ ~DoSysReadRefused /\ ~(\E ch \in Keys : DoSysRead(ch))
        /\ ~YieldReturns /\ ~DoSysExit /\ ~DoSysClone /\ ~DoSysCloneFull
        /\ ~DoSysExecve /\ ~DoSysExecveRejected
    BY DEF Handling, DoSysWrite, DoSysReadRefused, DoSysRead, YieldReturns, DoSysExit,
           DoSysClone, DoSysCloneFull, DoSysExecve, DoSysExecveRejected
  <2> QED
    BY <2>1, <2>2, TransparentSteps DEF Next, Handler
<1> QED
  BY <1>1, Invariance, PTL DEF Spec, TrapsInvisible

(***************************************************************************)
(* A kernel that has been written over stays so.                           *)
(***************************************************************************)
LEMMA OverwrittenStays ==
    ASSUME [Next]_vars, phase = "overwritten"
    PROVE  phase' = "overwritten"
  BY DEF Next, Handler, Handling, UserInstruction, TrapEntry, Timer, TimerReturns, DoSysWrite,
         DoSysReadRefused, DoSysRead, DoSysYield, YieldReturns, DoSysExit, DoSysClone,
         DoSysCloneFull, DoSysExecve, DoSysExecveRejected, OutOfMemory, Panic, Epilogue,
         TrapReturn, Tick, KeyArrives, vars, hartVars

(***************************************************************************)
(* The kernel implements private harts: whatever the timer and the other   *)
(* programs do, registers, stack pointer and program counter of a program  *)
(* are its own, and so is its memory but for the character that each       *)
(* sys_read stores at an untranslated address, which may hit the memory of *)
(* any program or, ending the promise, the kernel (trap_handler.c:37).     *)
(***************************************************************************)
THEOREM PrivateHarts == Spec => ImplementsVirtualHarts
<1>1. Init => VH!Init
  <2> SUFFICES ASSUME Init
               PROVE  VH!Init
    OBVIOUS
  <2>1. PICK p \in Pgds : Init!(p)
    BY DEF Init
  <2>2. 0 \in Task
    BY MaxTasksAssumption DEF Task
  <2>3. LiveTasks = {0}
    BY <2>1, <2>2 DEF LiveTasks, TASK_RUNNING, TASK_DEAD
  <2>4. PrivateHart(0) = VH!Fresh(BOOT_ENTRY, 0)
    BY <2>1, <2>2 DEF PrivateHart, InUserMode, FrameIsFinal, FreshFrame, ClearRegs,
                      VH!Fresh, VH!VHart, VH!ClearRegs
  <2> QED
    BY <2>1, <2>3, <2>4 DEF VH!Init
<1>2. IInv /\ [Next]_vars => [VH!Next]_(VH!vars)
  <2> SUFFICES ASSUME IInv, [Next]_vars
               PROVE  VH!Next \/ UNCHANGED VH!vars
    OBVIOUS
  <2>1. CASE phase' # "overwritten" /\ (\E t \in VH!Live : VH!Step(t))
    <3>1. phase # "overwritten"
      BY <2>1, OverwrittenStays
    <3> QED
      BY <2>1, <3>1 DEF VH!Next
  <2>2. CASE phase # "overwritten" /\ (\E t \in VH!Live : VH!MayCall(t)) /\ phase' = "overwritten"
    BY <2>2 DEF VH!Next, VH!Overwrite
  <2>3. CASE harts' = harts /\ (phase' = "overwritten" <=> phase = "overwritten")
    BY <2>3 DEF VH!vars, harts
  <2> QED
    BY <2>1, <2>2, <2>3, StepRefines
<1> QED
  BY <1>1, <1>2, Invariance, PTL DEF Spec, ImplementsVirtualHarts, VH!Spec

-----------------------------------------------------------------------------
(***************************************************************************)
(* Boot arrives at the initial state of module Kernel, for any number of   *)
(* harts, tasks and page tables: the theorems above hold of the machine    *)
(* from its first trap_return on.                                          *)
(***************************************************************************)

\* Hart 0 has not called task_init yet, and has.
Early == {"os_main", "mmu_init", "pmp", "mtvec", "task_init"}
Late  == {"timer_mie", "timer_mstatus", "satp", "task_wrapper", "trap_return"}

\* What neither boot.S nor os_main touches.
Untouched ==
    /\ kepc = [t \in Task |-> 0]
    /\ cause = "timer"
    /\ rx = NULL

\* What the first trap_return loads.
NotLoaded ==
    phase # "user" =>
        /\ pc = 0
        /\ regs = [r \in Reg |-> CLOBBERED]
        /\ mscratch = NULL

HartsPlaced ==
    /\ at \in [Harts -> {"_start", "clear_bss", "park"} \cup Early \cup Late]
    /\ at[0] # "park"
    /\ \A h \in Harts \ {0} : at[h] \in {"_start", "park"}

NoTaskYet ==
    at[0] \notin Late => task_states = [t \in Task |-> TASK_DEAD]

BssIsClear ==
    at[0] \in Early =>
        /\ current_task = 0
        /\ tasks = [t \in Task |-> NullContext]
        /\ frame = [t \in Task |-> NullFrame]
        /\ free_pgds = IF at[0] = "os_main" THEN {} ELSE Pgds

\* Task 0 is set up with the page table p.
Ready(p) ==
    /\ current_task = 0
    /\ task_states = [t \in Task |->
          IF t = 0 THEN IF at[0] = "trap_return" THEN TASK_RUNNING ELSE TASK_READY
          ELSE TASK_DEAD]
    /\ tasks = [t \in Task |-> IF t = 0 THEN FreshContext(0, p) ELSE NullContext]
    /\ frame = [t \in Task |-> IF t = 0 THEN FreshFrame(BOOT_ENTRY) ELSE NullFrame]
    /\ free_pgds = Pgds \ {p}
    /\ mem[p] = 0
    /\ at[0] \in {"task_wrapper", "trap_return"} => satp = p

TaskIsReady == at[0] \in Late => \E p \in Pgds : Ready(p)

CsrsAreSet ==
    /\ at[0] \in {"mtvec", "task_init"} \cup Late => pmp_open
    /\ at[0] \in {"task_init"} \cup Late => mtvec = "trap_vector"
    /\ at[0] \in Late \ {"timer_mie"} => mtie
    /\ at[0] \in Late \ {"timer_mie", "timer_mstatus"} <=> mstatus_mie = TRUE

HandedOver ==
    /\ phase \in {"boot", "trap_return", "stuck", "user"}
    /\ phase \in {"trap_return", "user"} => at[0] = "trap_return"
    /\ at[0] = "trap_return" => phase # "boot"
    /\ phase = "trap_return" => sp = TaskTrapFrame(0)

(***************************************************************************)
(* The inductive invariant: what is true at each statement of the boot     *)
(* path.  The other harts never get past _start, or they would clear what  *)
(* hart 0 has built.                                                       *)
(***************************************************************************)
BootIInv ==
    /\ Untouched /\ NotLoaded /\ HartsPlaced /\ NoTaskYet /\ BssIsClear /\ TaskIsReady
    /\ CsrsAreSet /\ HandedOver
    /\ mtip \in BOOLEAN /\ mstatus_mie \in BOOLEAN

-----------------------------------------------------------------------------
(***************************************************************************)
(* The statement after each statement of os_main.                          *)
(***************************************************************************)
LEMMA OrderSteps ==
    ASSUME NEW label, Statement(label)
    PROVE  /\ phase = "boot" /\ ~Pending /\ at[0] = label
           /\ label = "os_main"       => at' = [at EXCEPT ![0] = "mmu_init"]
           /\ label = "mmu_init"      => at' = [at EXCEPT ![0] = "pmp"]
           /\ label = "pmp"           => at' = [at EXCEPT ![0] = "mtvec"]
           /\ label = "mtvec"         => at' = [at EXCEPT ![0] = "task_init"]
           /\ label = "task_init"     => at' = [at EXCEPT ![0] = "timer_mie"]
           /\ label = "timer_mie"     => at' = [at EXCEPT ![0] = "timer_mstatus"]
           /\ label = "timer_mstatus" => at' = [at EXCEPT ![0] = "satp"]
           /\ label = "satp"          => at' = [at EXCEPT ![0] = "task_wrapper"]
           /\ label = "task_wrapper"  => at' = [at EXCEPT ![0] = "trap_return"]
<1>1. 1 .. Len(Order) - 1 = {1, 2, 3, 4, 5, 6, 7, 8, 9}
  BY DEF Order
<1>2. /\ Order[1] = "os_main" /\ Order[2] = "mmu_init" /\ Order[3] = "pmp"
      /\ Order[4] = "mtvec" /\ Order[5] = "task_init" /\ Order[6] = "timer_mie"
      /\ Order[7] = "timer_mstatus" /\ Order[8] = "satp" /\ Order[9] = "task_wrapper"
      /\ Order[10] = "trap_return"
  BY DEF Order
<1>3. PICK k \in 1 .. Len(Order) - 1 :
         at[0] = label /\ Order[k] = label /\ at' = [at EXCEPT ![0] = Order[k + 1]]
  BY DEF Statement
<1>4. k = 1 => label = "os_main" /\ at' = [at EXCEPT ![0] = "mmu_init"]
  <2>1. k = 1 => k + 1 = 2
    OBVIOUS
  <2> QED
    BY <1>2, <1>3, <2>1, Zenon
<1>5. k = 2 => label = "mmu_init" /\ at' = [at EXCEPT ![0] = "pmp"]
  <2>1. k = 2 => k + 1 = 3
    OBVIOUS
  <2> QED
    BY <1>2, <1>3, <2>1, Zenon
<1>6. k = 3 => label = "pmp" /\ at' = [at EXCEPT ![0] = "mtvec"]
  <2>1. k = 3 => k + 1 = 4
    OBVIOUS
  <2> QED
    BY <1>2, <1>3, <2>1, Zenon
<1>7. k = 4 => label = "mtvec" /\ at' = [at EXCEPT ![0] = "task_init"]
  <2>1. k = 4 => k + 1 = 5
    OBVIOUS
  <2> QED
    BY <1>2, <1>3, <2>1, Zenon
<1>8. k = 5 => label = "task_init" /\ at' = [at EXCEPT ![0] = "timer_mie"]
  <2>1. k = 5 => k + 1 = 6
    OBVIOUS
  <2> QED
    BY <1>2, <1>3, <2>1, Zenon
<1>9. k = 6 => label = "timer_mie" /\ at' = [at EXCEPT ![0] = "timer_mstatus"]
  <2>1. k = 6 => k + 1 = 7
    OBVIOUS
  <2> QED
    BY <1>2, <1>3, <2>1, Zenon
<1>10. k = 7 => label = "timer_mstatus" /\ at' = [at EXCEPT ![0] = "satp"]
  <2>1. k = 7 => k + 1 = 8
    OBVIOUS
  <2> QED
    BY <1>2, <1>3, <2>1, Zenon
<1>11. k = 8 => label = "satp" /\ at' = [at EXCEPT ![0] = "task_wrapper"]
  <2>1. k = 8 => k + 1 = 9
    OBVIOUS
  <2> QED
    BY <1>2, <1>3, <2>1, Zenon
<1>12. k = 9 => label = "task_wrapper" /\ at' = [at EXCEPT ![0] = "trap_return"]
  <2>1. k = 9 => k + 1 = 10
    OBVIOUS
  <2> QED
    BY <1>2, <1>3, <2>1, Zenon
<1>13. phase = "boot" /\ ~Pending
  BY DEF Statement
<1>14. k \in {1, 2, 3, 4, 5, 6, 7, 8, 9}
  BY <1>1
<1> QED
  BY <1>3, <1>4, <1>5, <1>6, <1>7, <1>8, <1>9, <1>10, <1>11, <1>12, <1>13, <1>14

LEMMA BootInitIInv == BootInit => BootIInv
  BY BootAssumption
     DEF BootInit, BootIInv, Untouched, NotLoaded, HartsPlaced, NoTaskYet, BssIsClear,
         TaskIsReady, CsrsAreSet, HandedOver, Early, Late

LEMMA BootStep == BootIInv /\ [BootNext]_bootVars => BootIInv'
<1> SUFFICES ASSUME BootIInv, [BootNext]_bootVars
             PROVE  BootIInv'
  OBVIOUS
<1> USE BootAssumption
    DEF BootIInv, Untouched, NotLoaded, HartsPlaced, NoTaskYet, BssIsClear, TaskIsReady,
        CsrsAreSet, HandedOver, Early, Late, taskVars, memVars, devVars, csrs
<1>1. ASSUME NEW h \in Harts, Start(h)
      PROVE  BootIInv'
  BY <1>1 DEF Start, Boots, Ready, vars, hartVars
<1>2. ASSUME NEW h \in Harts, ClearBss(h)
      PROVE  BootIInv'
  BY <1>2 DEF ClearBss, Order
<1>3. CASE PageInit
  BY <1>3, OrderSteps DEF PageInit, hartVars
<1>4. CASE MmuInit
  BY <1>4, OrderSteps DEF MmuInit
<1>5. CASE OpenPmp
  BY <1>5, OrderSteps DEF OpenPmp, vars, hartVars
<1>6. CASE SetVector
  BY <1>6, OrderSteps DEF SetVector, vars, hartVars
<1>7. CASE TaskInit
  <2>1. phase = "boot" /\ at[0] = "task_init" /\ at' = [at EXCEPT ![0] = "timer_mie"]
    BY <1>7, OrderSteps DEF TaskInit
  <2> 0 \in Task
    BY MaxTasksAssumption DEF Task
  <2>2. PICK p \in free_pgds :
           /\ free_pgds' = free_pgds \ {p}
           /\ mem' = [q \in Pgds |-> IF q = p THEN 0 ELSE mem[q]]
           /\ frame' = [frame EXCEPT ![0] = FreshFrame(BOOT_ENTRY)]
           /\ tasks' = [tasks EXCEPT ![0] = FreshContext(0, p)]
           /\ task_states' = [task_states EXCEPT ![0] = TASK_READY]
    BY <1>7 DEF TaskInit
  <2>3. /\ free_pgds = Pgds
        /\ current_task = 0 /\ current_task' = 0
        /\ task_states = [t \in Task |-> TASK_DEAD]
        /\ tasks = [t \in Task |-> NullContext]
        /\ frame = [t \in Task |-> NullFrame]
    BY <1>7, <2>1 DEF TaskInit
  <2>4. Ready(p)'
    <3>1. p \in Pgds /\ mem'[p] = 0 /\ free_pgds' = Pgds \ {p}
      BY <2>2, <2>3
    <3>2. tasks' = [t \in Task |-> IF t = 0 THEN FreshContext(0, p) ELSE NullContext]
      BY <2>2, <2>3
    <3>3. frame' = [t \in Task |-> IF t = 0 THEN FreshFrame(BOOT_ENTRY) ELSE NullFrame]
      BY <2>2, <2>3
    <3>4. phase' = "boot" /\ at'[0] = "timer_mie"
      BY <1>7, <2>1 DEF TaskInit, hartVars
    <3>5. task_states' = [t \in Task |-> IF t = 0 THEN TASK_READY ELSE TASK_DEAD]
      BY <2>2, <2>3
    <3> QED
      BY <2>3, <3>1, <3>2, <3>3, <3>4, <3>5 DEF Ready, FreshContext, FreshFrame
  <2> QED
    BY <1>7, <2>1, <2>2, <2>3, <2>4 DEF TaskInit, hartVars
<1>8. CASE TimerMie
  <2>1. phase = "boot" /\ at[0] = "timer_mie" /\ at' = [at EXCEPT ![0] = "timer_mstatus"]
    BY <1>8, OrderSteps DEF TimerMie
  <2>2. PICK p \in Pgds : Ready(p)
    BY <2>1
  <2>3. Ready(p)'
    BY <1>8, <2>1, <2>2 DEF TimerMie, Ready, FreshContext, FreshFrame, hartVars
  <2> QED
    BY <1>8, <2>1, <2>3 DEF TimerMie, hartVars
<1>9. CASE TimerMstatus
  BY <1>9, OrderSteps DEF TimerMstatus, Ready, vars, hartVars
<1>10. CASE SetSatp
  <2>1. phase = "boot" /\ at[0] = "satp" /\ at' = [at EXCEPT ![0] = "task_wrapper"]
    BY <1>10, OrderSteps DEF SetSatp
  <2>2. PICK p \in Pgds : Ready(p)
    BY <2>1
  <2>3. tasks[0].satp = p
    BY <2>2, MaxTasksAssumption DEF Ready, FreshContext, Task
  <2>4. Ready(p)'
    BY <1>10, <2>1, <2>2, <2>3 DEF SetSatp, Ready, FreshContext, FreshFrame
  <2> QED
    BY <1>10, <2>1, <2>4 DEF SetSatp
<1>11. CASE TaskWrapper
  <2>1. /\ phase = "boot" /\ ~Pending
        /\ at[0] = "task_wrapper" /\ at' = [at EXCEPT ![0] = "trap_return"]
    BY <1>11, OrderSteps DEF TaskWrapper
  <2>2. PICK p \in Pgds : Ready(p)
    BY <2>1
  <2>3. tasks[0].sp = TaskTrapFrame(0)
    BY <2>2, MaxTasksAssumption DEF Ready, FreshContext, Task
  <2>4. Ready(p)'
    BY <1>11, <2>1, <2>2 DEF TaskWrapper, Ready, FreshContext, FreshFrame
  <2> QED
    BY <1>11, <2>1, <2>2, <2>3, <2>4 DEF TaskWrapper, Ready
<1>12. CASE EarlyTick
  BY <1>12 DEF EarlyTick, Ready, hartVars
<1>13. CASE BootTrap
  BY <1>13 DEF BootTrap, Pending, Ready
<1>14. CASE FirstReturn
  <2>1. /\ phase = "trap_return" /\ phase' = "user" /\ at' = at
        /\ UNCHANGED <<taskVars, memVars, cause, satp, devVars, csrs>>
    BY <1>14 DEF FirstReturn, TrapReturn
  <2>2. PICK p \in Pgds : Ready(p)
    BY <2>1
  <2>3. Ready(p)'
    BY <2>1, <2>2 DEF Ready, FreshContext, FreshFrame
  <2> QED
    BY <2>1, <2>3
<1>15. CASE UNCHANGED bootVars
  BY <1>15 DEF bootVars, vars, hartVars, Ready
<1> QED
  BY <1>1, <1>2, <1>3, <1>4, <1>5, <1>6, <1>7, <1>8, <1>9, <1>10, <1>11, <1>12, <1>13,
     <1>14, <1>15
     DEF BootNext, OsMain

LEMMA BootInvariance == BootSpec => []BootIInv
  BY BootInitIInv, BootStep, PTL DEF BootSpec

(***************************************************************************)
(* Boot hands over in the initial state of module Kernel.                  *)
(***************************************************************************)
THEOREM BootReachesKernel == BootSpec => []BootsToKernel
<1>1. BootIInv => BootsToKernel
  <2> SUFFICES ASSUME BootIInv, phase = "trap_return", ~mtip
               PROVE  K!Init /\ pmp_open /\ mtvec = "trap_vector" /\ mtie
    BY DEF BootsToKernel
  <2>1. at[0] = "trap_return" /\ pmp_open /\ mtvec = "trap_vector" /\ mtie
    BY DEF BootIInv, HandedOver, CsrsAreSet, Late
  <2>2. K!Init
    <3>1. PICK p \in Pgds : Ready(p)
      BY <2>1 DEF BootIInv, TaskIsReady, Late
    <3>2. [q \in Pgds |-> IF q \in free_pgds THEN 0 ELSE mem[q]] = [q \in Pgds |-> 0]
      BY <3>1 DEF Ready
    <3>3. K!FreshContext(0, p) = FreshContext(0, p) /\ K!FreshFrame(BOOT_ENTRY) = FreshFrame(BOOT_ENTRY)
      BY DEF K!FreshContext, FreshContext, K!FreshFrame, FreshFrame, K!TaskTrapFrame, TaskTrapFrame,
             K!ClearRegs, ClearRegs
    <3> QED
      BY <2>1, <3>1, <3>2, <3>3
         DEF BootIInv, Untouched, NotLoaded, HandedOver, Ready, K!Init, K!TaskTrapFrame, TaskTrapFrame,
             K!NullContext, NullContext, K!NullFrame, NullFrame, K!Task, Task,
             K!TASK_RUNNING, TASK_RUNNING, K!TASK_DEAD, TASK_DEAD
  <2> QED
    BY <2>1, <2>2
<1> QED
  BY <1>1, BootInvariance, PTL

(***************************************************************************)
(* No interrupt is taken before there is a vector and a task.              *)
(***************************************************************************)
THEOREM InterruptsComeLate == BootSpec => []InterruptFindsVector
<1>1. BootIInv => InterruptFindsVector
  <2> SUFFICES ASSUME BootIInv, Pending
               PROVE  mtvec = "trap_vector" /\ tasks[current_task].satp \in Pgds
    BY DEF InterruptFindsVector
  <2>1. at[0] \in Late
    BY DEF BootIInv, CsrsAreSet, Pending
  <2>2. PICK p \in Pgds : Ready(p)
    BY <2>1 DEF BootIInv, TaskIsReady
  <2> QED
    BY <2>1, <2>2, MaxTasksAssumption
       DEF BootIInv, CsrsAreSet, Late, Ready, FreshContext, Task
<1> QED
  BY <1>1, BootInvariance, PTL
=============================================================================
