------------------------------- MODULE Sched -------------------------------
(***************************************************************************)
(* The task table and the round-robin scheduler: kernel/sched.h,           *)
(* kernel/sched.c and alloc_task_slot of kernel/task.c.  These are         *)
(* operators on a table `states` (task_states[] in the code), so that the  *)
(* kernel of module Kernel and later modules can share them.               *)
(***************************************************************************)
EXTENDS Integers

CONSTANT MAX_TASKS

ASSUME MaxTasksAssumption == MAX_TASKS \in Nat \ {0}

Task == 0 .. MAX_TASKS - 1

TASK_READY    == "ready"
TASK_RUNNING  == "running"
TASK_SLEEPING == "sleeping"
TASK_DEAD     == "dead"

TaskState == {TASK_READY, TASK_RUNNING, TASK_SLEEPING, TASK_DEAD}

(***************************************************************************)
(* An element of a set of integers below all the others.                   *)
(***************************************************************************)
Least(S) == CHOOSE i \in S : \A j \in S : i <= j

\* Mutant: the running task does not count as runnable.
BugTaskIsRunnable(states, id) == states[id] = TASK_READY

\* task_is_runnable
TaskIsRunnable(states, id) == states[id] \in {TASK_READY, TASK_RUNNING}

\* Mutant: the search starts at the current slot instead of the next one.
BugProbe(current, i) == (current + i - 1) % MAX_TASKS

\* Mutant: the search always starts at slot 0.
BugProbeFromZero(current, i) == i % MAX_TASKS

\* The slot that iteration i (counting from 1) of sched_pick_next looks at.
Probe(current, i) == (current + i) % MAX_TASKS

(***************************************************************************)
(* sched_pick_next: the first runnable slot after `current`, going round   *)
(* the table and trying `current` itself last; -1 when there is none.      *)
(***************************************************************************)
SchedPickNext(states, current) ==
    LET hits == {i \in 1 .. MAX_TASKS : TaskIsRunnable(states, Probe(current, i))}
    IN  IF hits = {} THEN -1 ELSE Probe(current, Least(hits))

\* Mutant: the previous task stays marked as running.
BugSchedPrepareSwitch(states, prev, next) ==
    [states EXCEPT ![next] = TASK_RUNNING]

(***************************************************************************)
(* sched_prepare_switch: a task that was running becomes ready (a dead or  *)
(* sleeping one stays as it is) and `next` becomes the running one.        *)
(***************************************************************************)
SchedPrepareSwitch(states, prev, next) ==
    [states EXCEPT
        ![prev] = IF @ = TASK_RUNNING THEN TASK_READY ELSE @,
        ![next] = TASK_RUNNING]

DeadSlots(states) == {i \in Task : states[i] = TASK_DEAD}

(***************************************************************************)
(* alloc_task_slot: the lowest dead slot, -1 when the table is full.       *)
(***************************************************************************)
AllocTaskSlot(states) ==
    IF DeadSlots(states) = {} THEN -1 ELSE Least(DeadSlots(states))

-----------------------------------------------------------------------------
(***************************************************************************)
(* How many iterations of the scheduler's search separate slot `to` from   *)
(* slot `from`: 1 for the next slot, MAX_TASKS for `from` itself.          *)
(***************************************************************************)
Dist(from, to) == IF to > from THEN to - from ELSE to - from + MAX_TASKS
=============================================================================
