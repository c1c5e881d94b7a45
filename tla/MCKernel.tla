------------------------------ MODULE MCKernel ------------------------------
(***************************************************************************)
(* Module Kernel for TLC.                                                  *)
(***************************************************************************)
EXTENDS Kernel, TLC

\* Page tables are interchangeable (not used with liveness properties).
PgdSymmetry == Permutations(Pgds)

(***************************************************************************)
(* States are the same for TLC when they differ only in what no step reads *)
(* before it is written again, and no property after it was written: the   *)
(* frame and the return value that a program in user mode has popped or a  *)
(* dead task has left, the memory behind free page tables, and the cause   *)
(* of a trap that has been dispatched (not used with liveness properties   *)
(* either).                                                                *)
(***************************************************************************)
OnStack(t, value) ==
    IF InUserMode(t) \/ task_states[t] = TASK_DEAD THEN NULL ELSE value

View ==
    <<task_states, current_task, tasks,
      [t \in Task |-> OnStack(t, frame[t])], [t \in Task |-> OnStack(t, kepc[t])],
      free_pgds, [p \in Pgds |-> IF p \in free_pgds THEN NULL ELSE mem[p]],
      phase, IF phase = "handler" THEN cause ELSE NULL,
      pc, sp, regs, mscratch, satp, devVars>>
=============================================================================
