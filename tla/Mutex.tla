------------------------------- MODULE Mutex -------------------------------
(***************************************************************************)
(* The sleeping mutex: kernel/mutex.c over kernel/spinlock.c, task_sleep   *)
(* and task_wakeup of kernel/task.c and the scheduler of module Sched.     *)
(*                                                                         *)
(* A task calls mutex_lock and mutex_unlock from kernel code, one          *)
(* statement of theirs is one step, and only the current task takes steps. *)
(* Outside these calls a task may be in user mode, where the timer can     *)
(* take the hart, or in any handler.  Nothing in the repository calls the  *)
(* mutex yet, so the callers are modelled as freely as they can be.        *)
(***************************************************************************)
EXTENDS Sched

CONSTANT Mutexes

ASSUME MutexAssumption == Mutexes # {}

VARIABLES
    preemptible,  \* whether the calls are made with interrupts on, so that the
                  \* timer can take the hart inside them; never by the handlers
                  \* of this kernel
    task_states, current_task, halted,
    locked, owner_id, guard,  \* mutex_t, of each mutex
    pc,    \* the statement each task is at
    arg,   \* the mutex of its call
    held,  \* the mutexes it has locked and not begun to unlock
    slot   \* i of its mutex_unlock, 0 outside the loop

schedVars == <<preemptible, task_states, current_task, halted>>
mutexVars == <<locked, owner_id, guard>>
callVars  == <<pc, arg, held, slot>>
vars      == <<schedVars, mutexVars, callVars>>

\* mutex_lock goes from "lock" to "test", and from there to "take", "taken" and
\* out, or to "busy", "sleep" and back; mutex_unlock is "unlock", "clear" and the
\* loop over the slots, "slots" and "wake".  A task that is "gone" has exited, or
\* never was.
Labels == {"outside", "lock", "test", "take", "taken", "busy", "sleep",
           "unlock", "clear", "slots", "wake", "gone"}

\* A mutex that stands for no call, for the tasks that are in none.
NoCall == CHOOSE m \in Mutexes : TRUE

me == current_task
my == arg[current_task]

At(label) == ~halted /\ pc[me] = label

GoTo(label) == pc' = [pc EXCEPT ![me] = label]

\* mutex_init of every mutex; task 0 runs, the other slots are dead.
Init ==
    /\ preemptible \in BOOLEAN
    /\ task_states = [t \in Task |-> IF t = 0 THEN TASK_RUNNING ELSE TASK_DEAD]
    /\ current_task = 0
    /\ halted = FALSE
    /\ locked = [m \in Mutexes |-> 0]
    /\ owner_id = [m \in Mutexes |-> -1]
    /\ guard = [m \in Mutexes |-> 0]
    /\ pc = [t \in Task |-> IF t = 0 THEN "outside" ELSE "gone"]
    /\ arg = [t \in Task |-> NoCall]
    /\ held = [t \in Task |-> {}]
    /\ slot = [t \in Task |-> 0]

-----------------------------------------------------------------------------
(***************************************************************************)
(* Tasks and the hart.                                                     *)
(***************************************************************************)

\* Mutant: -1 is taken for the number of a task.
BugTaskYield(states) ==
    LET next == SchedPickNext(states, me) IN
    /\ halted' = (next = -1)
    /\ current_task' = next
    /\ task_states' = IF next \in {-1, me} THEN states
                      ELSE SchedPrepareSwitch(states, me, next)
    /\ UNCHANGED preemptible

\* task_yield with the task table `states`.
TaskYield(states) ==
    LET next == SchedPickNext(states, me) IN
    /\ halted' = (next = -1)
    /\ current_task' = IF next = -1 THEN me ELSE next
    /\ task_states' = IF next \in {-1, me} THEN states
                      ELSE SchedPrepareSwitch(states, me, next)
    /\ UNCHANGED preemptible

\* The timer, or a call of sched_yield.  task_exit runs with interrupts off: a
\* task that has exited and is woken nevertheless keeps the hart (task.c:144).
Preempt ==
    /\ ~halted
    /\ At("outside") \/ (preemptible /\ ~At("gone"))
    /\ TaskYield(task_states)
    /\ UNCHANGED <<mutexVars, callVars>>

\* task_fork: a child that has called nothing yet.
Fork ==
    LET child == AllocTaskSlot(task_states) IN
    /\ At("outside")
    /\ child # -1
    /\ task_states' = [task_states EXCEPT ![child] = TASK_READY]
    /\ pc' = [pc EXCEPT ![child] = "outside"]
    /\ UNCHANGED <<preemptible, current_task, halted, mutexVars, arg, held, slot>>

\* task_exit: the mutexes the task holds stay locked.
Exit ==
    /\ At("outside")
    /\ TaskYield([task_states EXCEPT ![me] = TASK_DEAD])
    /\ GoTo("gone")
    /\ held' = [held EXCEPT ![me] = {}]
    /\ UNCHANGED <<mutexVars, arg, slot>>

-----------------------------------------------------------------------------
(***************************************************************************)
(* mutex_lock.  A call of spin_lock that finds the guard taken changes     *)
(* nothing and tries again, so it is a step only when it succeeds.         *)
(***************************************************************************)

\* Mutant: the old value of the guard is not looked at.
BugSpinLock == guard' = [guard EXCEPT ![my] = 1]

SpinLock == guard[my] = 0 /\ guard' = [guard EXCEPT ![my] = 1]

SpinUnlock == guard' = [guard EXCEPT ![my] = 0]

CallLock(m) ==
    /\ At("outside")
    /\ GoTo("lock")
    /\ arg' = [arg EXCEPT ![me] = m]
    /\ UNCHANGED <<schedVars, mutexVars, held, slot>>

LockGuard ==
    /\ At("lock")
    /\ SpinLock
    /\ GoTo("test")
    /\ UNCHANGED <<schedVars, locked, owner_id, arg, held, slot>>

FindFree ==
    /\ At("test")
    /\ locked[my] = 0
    /\ GoTo("take")
    /\ UNCHANGED <<schedVars, mutexVars, arg, held, slot>>

Take ==
    /\ At("take")
    /\ locked' = [locked EXCEPT ![my] = 1]
    /\ owner_id' = [owner_id EXCEPT ![my] = me]
    /\ GoTo("taken")
    /\ UNCHANGED <<schedVars, guard, arg, held, slot>>

\* Mutant: the lock is taken although it is busy (`if` for `while`).
BugFindBusy ==
    /\ At("test")
    /\ locked[my] # 0
    /\ GoTo("take")
    /\ UNCHANGED <<schedVars, mutexVars, arg, held, slot>>

FindBusy ==
    /\ At("test")
    /\ locked[my] # 0
    /\ GoTo("busy")
    /\ UNCHANGED <<schedVars, mutexVars, arg, held, slot>>

ReturnLocked ==
    /\ At("taken")
    /\ SpinUnlock
    /\ GoTo("outside")
    /\ held' = [held EXCEPT ![me] = @ \cup {my}]
    /\ arg' = [arg EXCEPT ![me] = NoCall]
    /\ UNCHANGED <<schedVars, locked, owner_id, slot>>

\* Mutant: the guard is kept while the task sleeps.
BugReleaseBusy ==
    /\ At("busy")
    /\ GoTo("sleep")
    /\ UNCHANGED <<schedVars, mutexVars, arg, held, slot>>

ReleaseBusy ==
    /\ At("busy")
    /\ SpinUnlock
    /\ GoTo("sleep")
    /\ UNCHANGED <<schedVars, locked, owner_id, arg, held, slot>>

\* task_sleep; the task goes on with the next round of the loop.
TaskSleep ==
    /\ At("sleep")
    /\ TaskYield([task_states EXCEPT ![me] = TASK_SLEEPING])
    /\ GoTo("lock")
    /\ UNCHANGED <<mutexVars, arg, held, slot>>

-----------------------------------------------------------------------------
(***************************************************************************)
(* mutex_unlock.  It does not look at owner_id: callers unlock only what   *)
(* they hold.                                                              *)
(***************************************************************************)

CallUnlock(m) ==
    /\ At("outside")
    /\ m \in held[me]
    /\ GoTo("unlock")
    /\ arg' = [arg EXCEPT ![me] = m]
    /\ held' = [held EXCEPT ![me] = @ \ {m}]
    /\ UNCHANGED <<schedVars, mutexVars, slot>>

UnlockGuard ==
    /\ At("unlock")
    /\ SpinLock
    /\ GoTo("clear")
    /\ UNCHANGED <<schedVars, locked, owner_id, arg, held, slot>>

ClearLock ==
    /\ At("clear")
    /\ locked' = [locked EXCEPT ![my] = 0]
    /\ owner_id' = [owner_id EXCEPT ![my] = -1]
    /\ GoTo("slots")
    /\ UNCHANGED <<schedVars, guard, arg, held, slot>>

\* The loop over the slots, at a slot whose task does not sleep, and at one whose
\* task does.
PassSlot ==
    /\ At("slots")
    /\ slot[me] < MAX_TASKS
    /\ task_states[slot[me]] # TASK_SLEEPING
    /\ slot' = [slot EXCEPT ![me] = @ + 1]
    /\ UNCHANGED <<schedVars, mutexVars, pc, arg, held>>

\* Mutant: every task is woken.
BugFindSleeper ==
    /\ At("slots")
    /\ slot[me] < MAX_TASKS
    /\ GoTo("wake")
    /\ UNCHANGED <<schedVars, mutexVars, arg, held, slot>>

FindSleeper ==
    /\ At("slots")
    /\ slot[me] < MAX_TASKS
    /\ task_states[slot[me]] = TASK_SLEEPING
    /\ GoTo("wake")
    /\ UNCHANGED <<schedVars, mutexVars, arg, held, slot>>

\* Mutant: only the first sleeping task is woken, and it may wait for another
\* mutex.
BugAfterWake == MAX_TASKS

\* Where the loop goes on after a wakeup.
AfterWake == slot[me] + 1

\* task_wakeup, which does not look at the state the task is in by now: in a
\* preempted kernel it may have exited.
WakeSleeper ==
    /\ At("wake")
    /\ task_states' = [task_states EXCEPT ![slot[me]] = TASK_READY]
    /\ slot' = [slot EXCEPT ![me] = AfterWake]
    /\ GoTo("slots")
    /\ UNCHANGED <<preemptible, current_task, halted, mutexVars, arg, held>>

ReturnUnlocked ==
    /\ At("slots")
    /\ slot[me] = MAX_TASKS
    /\ SpinUnlock
    /\ slot' = [slot EXCEPT ![me] = 0]
    /\ GoTo("outside")
    /\ arg' = [arg EXCEPT ![me] = NoCall]
    /\ UNCHANGED <<schedVars, locked, owner_id, held>>

-----------------------------------------------------------------------------
\* The statements of mutex_lock and mutex_unlock.
Statement ==
    \/ LockGuard \/ FindFree \/ Take \/ FindBusy \/ ReturnLocked \/ ReleaseBusy \/ TaskSleep
    \/ UnlockGuard \/ ClearLock \/ PassSlot \/ FindSleeper \/ WakeSleeper \/ ReturnUnlocked

Next ==
    \/ Preempt \/ Fork \/ Exit
    \/ \E m \in Mutexes : CallLock(m) \/ CallUnlock(m)
    \/ Statement

Spec == Init /\ [][Next]_vars

(***************************************************************************)
(* Fairness.  Kernel code goes on; the timer takes the hart from a task    *)
(* again and again; and, an assumption on the callers, a holder that runs  *)
(* again and again unlocks in the end.                                     *)
(***************************************************************************)
HoldersUnlock ==
    \A t \in Task : SF_vars(current_task = t /\ \E m \in Mutexes : CallUnlock(m))

FairSpec == Spec /\ WF_vars(Statement) /\ SF_vars(Preempt) /\ HoldersUnlock


-----------------------------------------------------------------------------
\* Every variable has its type (mutex.c:6-10, sched.h:4-12).
TypeOK ==
    /\ preemptible \in BOOLEAN
    /\ task_states \in [Task -> TaskState]
    /\ current_task \in Task
    /\ halted \in BOOLEAN
    /\ locked \in [Mutexes -> {0, 1}]
    /\ owner_id \in [Mutexes -> Task \cup {-1}]
    /\ guard \in [Mutexes -> {0, 1}]
    /\ pc \in [Task -> Labels]
    /\ arg \in [Task -> Mutexes]
    /\ held \in [Task -> SUBSET Mutexes]
    /\ slot \in [Task -> 0 .. MAX_TASKS]
    /\ \A t \in Task : pc[t] = "wake" => slot[t] \in Task

(***************************************************************************)
(* Mutual exclusion: a mutex whose mutex_lock has returned (mutex.c:32) is *)
(* held by nobody else, and its owner_id says who has it, through spurious *)
(* wakeups, slots that are reused and holders that exit.                   *)
(***************************************************************************)
MutualExclusion ==
    /\ \A t, u \in Task : t # u => held[t] \cap held[u] = {}
    /\ \A t \in Task : \A m \in held[t] : locked[m] = 1 /\ owner_id[m] = t

-----------------------------------------------------------------------------
(***************************************************************************)
(* Who holds a mutex.  Between the call of mutex_unlock and the clearing   *)
(* of the lock word it is already free for its user; one whose lock word   *)
(* is set with nobody to clear it has lost its holder.                     *)
(***************************************************************************)
ClearedBy(m) == {t \in Task : arg[t] = m /\ pc[t] \in {"taken", "unlock", "clear"}}

Holder(m) ==
    IF \E t \in Task : m \in held[t] THEN CHOOSE t \in Task : m \in held[t]
    ELSE IF locked[m] = 1 /\ ClearedBy(m) = {} THEN -2 ELSE -1

L == INSTANCE Locks WITH Users <- Task, Free <- -1, Orphaned <- -2,
                         holder <- [m \in Mutexes |-> Holder(m)]

(***************************************************************************)
(* To its users a mutex is a lock with one holder: it is taken only when   *)
(* it is free, released only by its holder, and lost with it, whatever the *)
(* guards, the retries and the scheduler do in between.                    *)
(***************************************************************************)
ImplementsLocks == L!Spec

(***************************************************************************)
(* No lost wakeup: in a kernel that is not preempted, a task asleep in     *)
(* mutex_lock (mutex.c:39) waits for a mutex that is locked, or the loop   *)
(* of an unlock has yet to come to its slot (mutex.c:50-54).  The test of  *)
(* `locked` and task_sleep are not one critical section, so this depends   *)
(* on interrupts being off.                                                *)
(***************************************************************************)
NoLostWakeup ==
    ~preemptible =>
        \A t \in Task :
            task_states[t] = TASK_SLEEPING =>
                \/ locked[arg[t]] = 1
                \/ (At("slots") \/ At("wake")) /\ slot[me] <= t

(***************************************************************************)
(* In a kernel that is not preempted a task that has exited never becomes  *)
(* runnable again.  task_wakeup does not look at what it wakes (task.c:169)*)
(* and mutex_unlock has looked a statement earlier (mutex.c:51).           *)
(***************************************************************************)
ExitedStayDead ==
    ~preemptible => \A t \in Task : pc[t] = "gone" => task_states[t] = TASK_DEAD

(***************************************************************************)
(* In a kernel that is not preempted spin_lock never finds its guard       *)
(* taken: with interrupts off it would spin for ever (spinlock.c:15).      *)
(***************************************************************************)
GuardNeverContended ==
    ~preemptible /\ (At("lock") \/ At("unlock")) => guard[my] = 0

(***************************************************************************)
(* A task that sleeps in mutex_lock is woken (mutex.c:39), in a kernel     *)
(* that is not preempted and if nobody exits with a mutex or locks two at  *)
(* a time.  Without that the sleepers may sleep for ever, and task_yield   *)
(* halts the machine when the other tasks have exited (task.c:151).        *)
(***************************************************************************)
Orderly ==
    /\ \A m \in Mutexes : Holder(m) # -2
    /\ \A t \in Task : pc[t] \in {"lock", "test", "busy", "sleep"} => held[t] = {}

SleeperWakes ==
    [](~preemptible /\ Orderly) =>
        \A t \in Task : task_states[t] = TASK_SLEEPING ~> task_states[t] # TASK_SLEEPING

=============================================================================
