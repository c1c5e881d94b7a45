---------------------------- MODULE MutexProofs ----------------------------
(***************************************************************************)
(* Theorems about module Mutex, for any number of tasks and of mutexes.    *)
(***************************************************************************)
EXTENDS Mutex, SchedProofs

\* The labels at which a task has the guard of its mutex.
Guarding == {"test", "take", "taken", "busy", "clear", "slots", "wake"}

\* The labels at which a task has its mutex without holding it for its user.
Clearing == {"taken", "unlock", "clear"}

Owns(t, m) == m \in held[t] \/ (pc[t] \in Clearing /\ arg[t] = m)

\* One task at a time is between spin_lock and spin_unlock of a guard.
GuardsExclude ==
    \A t \in Task : pc[t] \in Guarding =>
        /\ guard[arg[t]] = 1
        /\ \A u \in Task \ {t} : pc[u] \in Guarding => arg[u] # arg[t]

TakesFree == \A t \in Task : pc[t] = "take" => locked[arg[t]] = 0

OwnersRecorded ==
    \A t \in Task, m \in Mutexes : Owns(t, m) => locked[m] = 1 /\ owner_id[m] = t

OwnedOnce == \A t \in Task : pc[t] \in Clearing => arg[t] \notin held[t]

DeadAreGone == \A t \in Task : task_states[t] = TASK_DEAD => pc[t] = "gone"

(***************************************************************************)
(* The inductive invariant.  That a mutex has one owner depends on the     *)
(* test and the assignment of `locked` being under one guard, and on the   *)
(* owner being recorded from there until the mutex is cleared.             *)
(***************************************************************************)
IInv ==
    TypeOK /\ GuardsExclude /\ TakesFree /\ OwnersRecorded /\ OwnedOnce /\ DeadAreGone

-----------------------------------------------------------------------------
(***************************************************************************)
(* What task_yield does: it halts when nothing is runnable; otherwise it   *)
(* goes to a runnable task, or goes on.                                    *)
(***************************************************************************)
LEMMA TaskYieldCases ==
    ASSUME current_task \in Task, NEW states \in [Task -> TaskState], TaskYield(states)
    PROVE  /\ task_states' \in [Task -> TaskState]
           /\ current_task' \in Task
           /\ halted' \in BOOLEAN
           /\ ~halted' => TaskIsRunnable(task_states', current_task')
           /\ \A t \in Task : task_states'[t] = TASK_SLEEPING => states[t] = TASK_SLEEPING
           /\ \A t \in Task : task_states'[t] = TASK_DEAD <=> states[t] = TASK_DEAD
           /\ preemptible' = preemptible
<1> DEFINE next == SchedPickNext(states, current_task)
<1>1. \/ next = -1
      \/ next \in Task /\ TaskIsRunnable(states, next)
  BY SchedPickNextNearest
<1>2. -1 \notin Task
  BY MaxTasksAssumption DEF Task
<1>3. /\ halted' = (next = -1)
      /\ current_task' = IF next = -1 THEN current_task ELSE next
      /\ task_states' = IF next \in {-1, current_task} THEN states
                        ELSE SchedPrepareSwitch(states, current_task, next)
      /\ preemptible' = preemptible
  BY DEF TaskYield, me
<1> HIDE DEF next
<1>4. CASE next = -1
  BY <1>3, <1>4
<1>5. CASE next \in Task /\ TaskIsRunnable(states, next)
  <2>1. CASE next = current_task
    BY <1>2, <1>3, <1>5, <2>1
  <2>2. CASE next # current_task
    <3>1. task_states' = SchedPrepareSwitch(states, current_task, next) /\ current_task' = next
      BY <1>2, <1>3, <1>5, <2>2
    <3> QED
      BY <1>2, <1>3, <1>5, <3>1
         DEF SchedPrepareSwitch, TaskIsRunnable, TaskState,
             TASK_READY, TASK_RUNNING, TASK_SLEEPING, TASK_DEAD
  <2> QED
    BY <2>1, <2>2
<1> QED
  BY <1>1, <1>4, <1>5

(***************************************************************************)
(* The actions that only move the hart or the states of tasks.             *)
(***************************************************************************)
LEMMA SchedTypes ==
    ASSUME TypeOK, NEW last \in TaskState
    PROVE  /\ TaskYield(task_states) \/ TaskYield([task_states EXCEPT ![me] = last]) =>
                /\ task_states' \in [Task -> TaskState]
                /\ current_task' \in Task
                /\ halted' \in BOOLEAN
                /\ preemptible' = preemptible
           /\ Fork => task_states' \in [Task -> TaskState]
           /\ WakeSleeper => task_states' \in [Task -> TaskState]
<1>1. [task_states EXCEPT ![me] = last] \in [Task -> TaskState]
  BY DEF TypeOK
<1>2. TASK_READY \in TaskState
  BY DEF TaskState
<1>3. WakeSleeper => task_states' \in [Task -> TaskState]
  BY <1>2 DEF TypeOK, WakeSleeper
<1>4. Fork => task_states' \in [Task -> TaskState]
  BY <1>2 DEF TypeOK, Fork
<1>5. current_task \in Task /\ task_states \in [Task -> TaskState]
  BY DEF TypeOK
<1> QED
  BY <1>1, <1>3, <1>4, <1>5, TaskYieldCases

\* The mutex that stands for no call is a mutex.
LEMMA NoCallIsMutex == NoCall \in Mutexes
  BY MutexAssumption DEF NoCall

(***************************************************************************)
(* Every action preserves the types.                                       *)
(***************************************************************************)
LEMMA TypeStep == TypeOK /\ [Next]_vars => TypeOK'
<1> SUFFICES ASSUME TypeOK, [Next]_vars
             PROVE  TypeOK'
  OBVIOUS
<1>1. TASK_DEAD \in TaskState /\ TASK_SLEEPING \in TaskState
  BY DEF TaskState
<1>2. CASE Preempt
  BY <1>1, <1>2, SchedTypes DEF Preempt, TypeOK, mutexVars, callVars
<1>3. CASE Fork
  BY <1>1, <1>3, SchedTypes DEF Fork, Labels, TypeOK, mutexVars
<1>4. CASE Exit
  BY <1>1, <1>4, SchedTypes DEF Exit, GoTo, Labels, TypeOK, mutexVars, me
<1>5. ASSUME NEW m \in Mutexes, CallLock(m) \/ CallUnlock(m)
      PROVE  TypeOK'
  BY <1>5 DEF CallLock, CallUnlock, GoTo, Labels, TypeOK, schedVars, mutexVars, me
<1>6. CASE LockGuard \/ UnlockGuard
  BY <1>6 DEF LockGuard, UnlockGuard, SpinLock, GoTo, Labels, TypeOK, schedVars, me, my
<1>7. CASE FindFree \/ FindBusy
  BY <1>7 DEF FindFree, FindBusy, GoTo, Labels, TypeOK, schedVars, mutexVars, me, my
<1>8. CASE Take \/ ClearLock
  BY <1>8 DEF Take, ClearLock, GoTo, Labels, TypeOK, schedVars, me, my
<1>9. CASE ReturnLocked \/ ReleaseBusy \/ ReturnUnlocked
  BY <1>9, MaxTasksAssumption, NoCallIsMutex
     DEF ReturnLocked, ReleaseBusy, ReturnUnlocked, SpinUnlock, GoTo, Labels, TypeOK,
         schedVars, me, my
<1>10. CASE TaskSleep
  BY <1>1, <1>10, SchedTypes DEF TaskSleep, GoTo, Labels, TypeOK, mutexVars, me
<1>11. CASE PassSlot
  <2>1. /\ slot' = [slot EXCEPT ![me] = slot[me] + 1] /\ me \in Task
        /\ slot[me] < MAX_TASKS /\ slot \in [Task -> 0 .. MAX_TASKS]
        /\ pc[me] = "slots"
    BY <1>11 DEF PassSlot, At, TypeOK, me
  <2>2. slot' \in [Task -> 0 .. MAX_TASKS]
    BY <2>1, MaxTasksAssumption
  <2> QED
    BY <1>11, <2>1, <2>2 DEF PassSlot, TypeOK, schedVars, mutexVars
<1>12. CASE FindSleeper
  <2>1. slot[me] \in Task
    BY <1>12, MaxTasksAssumption DEF FindSleeper, TypeOK, Task, me
  <2> QED
    BY <1>12, <2>1 DEF FindSleeper, GoTo, Labels, TypeOK, schedVars, mutexVars, me
<1>13. CASE WakeSleeper
  <2>1. /\ slot' = [slot EXCEPT ![me] = slot[me] + 1] /\ me \in Task
        /\ slot[me] \in Task /\ slot \in [Task -> 0 .. MAX_TASKS]
    BY <1>13 DEF WakeSleeper, AfterWake, At, TypeOK, me
  <2>2. slot' \in [Task -> 0 .. MAX_TASKS]
    BY <2>1, MaxTasksAssumption DEF Task
  <2> QED
    BY <1>13, <2>1, <2>2, SchedTypes DEF WakeSleeper, GoTo, Labels, TypeOK, mutexVars, me
<1>14. CASE UNCHANGED vars
  BY <1>14 DEF vars, schedVars, mutexVars, callVars, TypeOK
<1> QED
  BY <1>2, <1>3, <1>4, <1>5, <1>6, <1>7, <1>8, <1>9, <1>10, <1>11, <1>12, <1>13, <1>14
     DEF Next, Statement

-----------------------------------------------------------------------------
Owners == GuardsExclude /\ TakesFree /\ OwnersRecorded /\ OwnedOnce

(***************************************************************************)
(* Every action preserves that a mutex has one owner.                      *)
(***************************************************************************)
LEMMA OwnersStep == IInv /\ [Next]_vars => Owners'
<1> SUFFICES ASSUME IInv, [Next]_vars
             PROVE  Owners'
  OBVIOUS
<1> USE DEF IInv, Owners, GuardsExclude, TakesFree, OwnersRecorded, OwnedOnce, Owns, Guarding,
            Clearing
<1>1. /\ me \in Task /\ arg \in [Task -> Mutexes] /\ pc \in [Task -> Labels]
      /\ held \in [Task -> SUBSET Mutexes]
      /\ guard \in [Mutexes -> {0, 1}] /\ locked \in [Mutexes -> {0, 1}]
      /\ owner_id \in [Mutexes -> Task \cup {-1}]
      /\ -1 \notin Task
  BY MaxTasksAssumption DEF TypeOK, me, Task
<1>2. CASE Preempt \/ UNCHANGED vars
  BY <1>1, <1>2 DEF Preempt, vars, schedVars, mutexVars, callVars
<1>3. CASE Fork
  BY <1>1, <1>3 DEF Fork, mutexVars
<1>4. CASE Exit
  BY <1>1, <1>4 DEF Exit, At, GoTo, mutexVars
<1>5. ASSUME NEW m \in Mutexes, CallLock(m)
      PROVE  Owners'
  BY <1>1, <1>5 DEF CallLock, At, GoTo, schedVars, mutexVars
<1>6. ASSUME NEW m \in Mutexes, CallUnlock(m)
      PROVE  Owners'
  BY <1>1, <1>6 DEF CallUnlock, At, GoTo, schedVars, mutexVars
<1>7. CASE LockGuard
  BY <1>1, <1>7 DEF LockGuard, SpinLock, At, GoTo, my, me, schedVars
<1>8. CASE UnlockGuard
  BY <1>1, <1>8 DEF UnlockGuard, SpinLock, At, GoTo, my, me, schedVars
<1>9. CASE FindFree
  BY <1>1, <1>9 DEF FindFree, At, GoTo, my, me, schedVars, mutexVars
<1>10. CASE FindBusy
  BY <1>1, <1>10 DEF FindBusy, At, GoTo, my, me, schedVars, mutexVars
<1>11. CASE Take
  BY <1>1, <1>11 DEF Take, At, GoTo, my, me, schedVars
<1>12. CASE ReturnLocked
  BY <1>1, <1>12 DEF ReturnLocked, SpinUnlock, At, GoTo, my, me, schedVars
<1>13. CASE ReleaseBusy
  BY <1>1, <1>13 DEF ReleaseBusy, SpinUnlock, At, GoTo, my, me, schedVars
<1>14. CASE ReturnUnlocked
  BY <1>1, <1>14 DEF ReturnUnlocked, SpinUnlock, At, GoTo, my, me, schedVars
<1>15. CASE TaskSleep
  BY <1>1, <1>15 DEF TaskSleep, At, GoTo, my, me, mutexVars
<1>16. CASE ClearLock
  BY <1>1, <1>16 DEF ClearLock, At, GoTo, my, me, schedVars
<1>17. CASE PassSlot \/ FindSleeper \/ WakeSleeper
  BY <1>1, <1>17 DEF PassSlot, FindSleeper, WakeSleeper, At, GoTo, my, me, schedVars, mutexVars
<1> QED
  BY <1>2, <1>3, <1>4, <1>5, <1>6, <1>7, <1>8, <1>9, <1>10, <1>11, <1>12, <1>13, <1>14,
     <1>15, <1>16, <1>17 DEF Next, Statement

(***************************************************************************)
(* A slot whose task is dead holds a task that is gone.                    *)
(***************************************************************************)
LEMMA DeadStep == IInv /\ [Next]_vars => DeadAreGone'
<1> SUFFICES ASSUME IInv, [Next]_vars
             PROVE  DeadAreGone'
  OBVIOUS
<1> USE DEF IInv, DeadAreGone
<1>1. /\ me \in Task /\ pc \in [Task -> Labels] /\ task_states \in [Task -> TaskState]
      /\ TASK_DEAD \in TaskState /\ TASK_SLEEPING \in TaskState
      /\ TASK_DEAD # TASK_SLEEPING /\ TASK_DEAD # TASK_READY
  BY DEF TypeOK, me, TaskState, TASK_DEAD, TASK_SLEEPING, TASK_READY
<1>2. ASSUME NEW states \in [Task -> TaskState], TaskYield(states)
      PROVE  \A t \in Task : task_states'[t] = TASK_DEAD <=> states[t] = TASK_DEAD
  BY <1>1, <1>2, TaskYieldCases DEF me
<1>3. CASE Preempt
  BY <1>1, <1>2, <1>3 DEF Preempt, callVars
<1>4. CASE Exit
  BY <1>1, <1>2, <1>4 DEF Exit, GoTo
<1>5. CASE TaskSleep
  <2>1. pc[me] = "sleep" /\ TaskYield([task_states EXCEPT ![me] = TASK_SLEEPING])
    BY <1>5 DEF TaskSleep, At
  <2> QED
    BY <1>1, <1>2, <1>5, <2>1 DEF TaskSleep, GoTo
<1>6. CASE Fork
  BY <1>1, <1>6 DEF Fork
<1>7. CASE WakeSleeper
  BY <1>1, <1>7 DEF WakeSleeper, At, GoTo
<1>8. ASSUME NEW m \in Mutexes, CallLock(m) \/ CallUnlock(m)
      PROVE  DeadAreGone'
  BY <1>1, <1>8 DEF CallLock, CallUnlock, At, GoTo, schedVars
<1>9. CASE Statement /\ ~TaskSleep /\ ~WakeSleeper
  BY <1>1, <1>9
     DEF Statement, LockGuard, FindFree, Take, FindBusy, ReturnLocked, ReleaseBusy, UnlockGuard,
         ClearLock, PassSlot, FindSleeper, ReturnUnlocked, At, GoTo, schedVars
<1>10. CASE UNCHANGED vars
  BY <1>10 DEF vars, schedVars, callVars
<1> QED
  BY <1>3, <1>4, <1>5, <1>6, <1>7, <1>8, <1>9, <1>10 DEF Next

(***************************************************************************)
(* The initial state.                                                      *)
(***************************************************************************)
LEMMA InitIInv == Init => IInv
<1> SUFFICES ASSUME Init PROVE IInv
  OBVIOUS
<1>1. 0 \in Task /\ -1 \notin Task
  BY MaxTasksAssumption DEF Task
<1>2. NoCall \in Mutexes /\ arg = [t \in Task |-> NoCall]
  BY NoCallIsMutex DEF Init
<1>3. TypeOK
  <2>1. slot \in [Task -> 0 .. MAX_TASKS]
    BY MaxTasksAssumption DEF Init
  <2>2. pc \in [Task -> Labels] /\ \A t \in Task : pc[t] # "wake"
    BY DEF Init, Labels
  <2> QED
    BY <1>1, <1>2, <2>1, <2>2 DEF Init, TypeOK, TaskState
<1> QED
  BY <1>1, <1>3
     DEF Init, IInv, GuardsExclude, TakesFree, OwnersRecorded, OwnedOnce, DeadAreGone, Owns,
         Guarding, Clearing, TASK_DEAD, TASK_RUNNING

\* The inductive invariant holds throughout.
LEMMA Invariance == Spec => []IInv
<1>1. IInv /\ [Next]_vars => IInv'
  BY TypeStep, OwnersStep, DeadStep DEF IInv, Owners
<1> QED
  BY <1>1, InitIInv, PTL DEF Spec

(***************************************************************************)
(* The variables of the mutex and of the tasks that use it keep their      *)
(* types.                                                                  *)
(***************************************************************************)
THEOREM TypeCorrect == Spec => []TypeOK
<1>1. IInv => TypeOK
  BY DEF IInv
<1> QED
  BY <1>1, Invariance, PTL

(***************************************************************************)
(* A mutex never has two holders, also in a kernel that the timer can      *)
(* preempt anywhere.                                                       *)
(***************************************************************************)
THEOREM MutexExcludes == Spec => []MutualExclusion
<1>1. IInv => MutualExclusion
  BY DEF IInv, TypeOK, OwnersRecorded, Owns, MutualExclusion
<1> QED
  BY <1>1, Invariance, PTL

-----------------------------------------------------------------------------
(***************************************************************************)
(* The invariant of a kernel that is not preempted: only the current task  *)
(* is inside the mutex, so what it has tested still holds when it sleeps.  *)
(***************************************************************************)
OthersOutside == \A t \in Task \ {me} : pc[t] \in {"outside", "lock", "gone"}

SleepersRetry == \A t \in Task : task_states[t] = TASK_SLEEPING => pc[t] = "lock"

CurrentAwake == ~halted => task_states[me] # TASK_SLEEPING

BusyIsLocked == pc[me] \in {"busy", "sleep"} => locked[my] = 1

GuardIsMine == \A m \in Mutexes : guard[m] = 1 => pc[me] \in Guarding /\ my = m

SleepersWait ==
    \A t \in Task :
        task_states[t] = TASK_SLEEPING =>
            \/ locked[arg[t]] = 1
            \/ (At("slots") \/ At("wake")) /\ slot[me] <= t

GoneAreDead == \A t \in Task : pc[t] = "gone" => task_states[t] = TASK_DEAD

WakesSleeper == At("wake") => task_states[slot[me]] = TASK_SLEEPING

SlotsFromZero == \A t \in Task : pc[t] \notin {"slots", "wake"} => slot[t] = 0

Quiet ==
    /\ OthersOutside /\ SleepersRetry /\ CurrentAwake /\ BusyIsLocked /\ GuardIsMine
    /\ SleepersWait /\ GoneAreDead /\ WakesSleeper /\ SlotsFromZero

QuietIInv == TypeOK /\ (~preemptible => Quiet)

(***************************************************************************)
(* Every action preserves it when the timer does not interrupt the mutex.  *)
(***************************************************************************)
LEMMA QuietStep == TypeOK /\ ~preemptible /\ Quiet /\ [Next]_vars => Quiet'
<1> SUFFICES ASSUME TypeOK, ~preemptible, Quiet, [Next]_vars
             PROVE  Quiet'
  OBVIOUS
<1>1. TypeOK'
  BY TypeStep
<1>2. /\ current_task \in Task /\ arg \in [Task -> Mutexes] /\ pc \in [Task -> Labels]
      /\ guard \in [Mutexes -> {0, 1}] /\ locked \in [Mutexes -> {0, 1}]
      /\ task_states \in [Task -> TaskState] /\ slot \in [Task -> 0 .. MAX_TASKS]
      /\ \A t \in Task : pc[t] = "wake" => slot[t] \in Task
      /\ current_task' \in Task
      /\ Task \subseteq 0 .. MAX_TASKS - 1 /\ MAX_TASKS \in Nat
  BY <1>1, MaxTasksAssumption DEF TypeOK, Task
<1> USE DEF Quiet, OthersOutside, SleepersRetry, CurrentAwake, BusyIsLocked, GuardIsMine,
            SleepersWait, GoneAreDead, WakesSleeper, SlotsFromZero, Guarding, At, GoTo, me, my
<1>3. ASSUME NEW states \in [Task -> TaskState], TaskYield(states)
      PROVE  /\ ~halted' => task_states'[current_task'] # TASK_SLEEPING
             /\ \A t \in Task : task_states'[t] = TASK_SLEEPING => states[t] = TASK_SLEEPING
             /\ \A t \in Task : states[t] = TASK_DEAD => task_states'[t] = TASK_DEAD
  BY <1>2, <1>3, TaskYieldCases
     DEF TaskIsRunnable, TASK_READY, TASK_RUNNING, TASK_SLEEPING
<1>4. CASE Preempt
  <2>1. pc[current_task] = "outside" /\ TaskYield(task_states)
    BY <1>4 DEF Preempt
  <2> QED
    BY <1>1, <1>2, <1>3, <1>4, <2>1 DEF Preempt, mutexVars, callVars
<1>5. CASE Exit
  <2>1. TASK_DEAD \in TaskState /\ TASK_DEAD # TASK_SLEEPING
    BY DEF TaskState, TASK_DEAD, TASK_SLEEPING
  <2> DEFINE states == [task_states EXCEPT ![current_task] = TASK_DEAD]
  <2>2. /\ states \in [Task -> TaskState] /\ TaskYield(states)
        /\ \A t \in Task : states[t] = TASK_SLEEPING => task_states[t] = TASK_SLEEPING
        /\ \A t \in Task : task_states[t] = TASK_DEAD => states[t] = TASK_DEAD
        /\ states[current_task] = TASK_DEAD
    BY <1>2, <1>5, <2>1 DEF Exit
  <2> HIDE DEF states
  <2>3. /\ pc[current_task] = "outside" /\ pc' = [pc EXCEPT ![current_task] = "gone"]
        /\ UNCHANGED <<mutexVars, arg, slot>>
    BY <1>5 DEF Exit
  <2>4. GoneAreDead'
    BY <1>2, <1>3, <2>2, <2>3
  <2>5. SleepersRetry' /\ SleepersWait' /\ CurrentAwake'
    BY <1>2, <1>3, <2>1, <2>2, <2>3 DEF mutexVars
  <2>6. /\ OthersOutside' /\ BusyIsLocked' /\ GuardIsMine'
        /\ WakesSleeper' /\ SlotsFromZero'
    BY <1>2, <2>3 DEF mutexVars
  <2> QED
    BY <2>4, <2>5, <2>6
<1>6. CASE TaskSleep
  <2>1. TASK_SLEEPING \in TaskState
    BY DEF TaskState
  <2> DEFINE states == [task_states EXCEPT ![current_task] = TASK_SLEEPING]
  <2>2. /\ states \in [Task -> TaskState] /\ TaskYield(states)
        /\ \A t \in Task \ {current_task} :
              /\ states[t] = TASK_SLEEPING => task_states[t] = TASK_SLEEPING
              /\ task_states[t] = TASK_DEAD => states[t] = TASK_DEAD
    BY <1>2, <1>6, <2>1 DEF TaskSleep
  <2> HIDE DEF states
  <2>3. /\ pc[current_task] = "sleep" /\ pc' = [pc EXCEPT ![current_task] = "lock"]
        /\ locked[arg[current_task]] = 1
        /\ UNCHANGED <<mutexVars, arg, slot>>
    BY <1>6 DEF TaskSleep
  <2>4. GoneAreDead'
    BY <1>2, <1>3, <2>2, <2>3
  <2>5. SleepersRetry' /\ SleepersWait' /\ CurrentAwake'
    BY <1>2, <1>3, <2>2, <2>3 DEF mutexVars
  <2>6. /\ OthersOutside' /\ BusyIsLocked' /\ GuardIsMine'
        /\ WakesSleeper' /\ SlotsFromZero'
    BY <1>2, <2>3 DEF mutexVars
  <2> QED
    BY <2>4, <2>5, <2>6
<1>7. CASE Fork
  BY <1>1, <1>2, <1>7 DEF Fork, mutexVars, TASK_READY, TASK_SLEEPING, TASK_DEAD
<1>8. ASSUME NEW m \in Mutexes, CallLock(m) \/ CallUnlock(m)
      PROVE  Quiet'
  BY <1>1, <1>2, <1>8 DEF CallLock, CallUnlock, schedVars, mutexVars
<1>9. CASE LockGuard \/ UnlockGuard
  BY <1>1, <1>2, <1>9 DEF LockGuard, UnlockGuard, SpinLock, schedVars
<1>10. CASE FindFree \/ FindBusy
  BY <1>1, <1>2, <1>10 DEF FindFree, FindBusy, schedVars, mutexVars
<1>11. CASE Take \/ ClearLock
  BY <1>1, <1>2, <1>11 DEF Take, ClearLock, schedVars
<1>12. CASE ReturnLocked \/ ReleaseBusy \/ ReturnUnlocked
  BY <1>1, <1>2, <1>12 DEF ReturnLocked, ReleaseBusy, ReturnUnlocked, SpinUnlock, schedVars
<1>13. CASE WakeSleeper
  <2>1. /\ pc[current_task] = "wake" /\ slot[current_task] \in Task
        /\ task_states' = [task_states EXCEPT ![slot[current_task]] = TASK_READY]
        /\ slot' = [slot EXCEPT ![current_task] = slot[current_task] + 1]
        /\ pc' = [pc EXCEPT ![current_task] = "slots"]
        /\ UNCHANGED <<current_task, halted, mutexVars, arg>>
    BY <1>2, <1>13 DEF WakeSleeper, AfterWake
  <2>2. TASK_READY # TASK_SLEEPING /\ TASK_DEAD # TASK_SLEEPING
    BY DEF TASK_READY, TASK_SLEEPING, TASK_DEAD
  <2>3. task_states[slot[current_task]] = TASK_SLEEPING
    BY <1>13, <2>1 DEF WakeSleeper
  <2>4. SleepersWait'
    BY <1>2, <2>1, <2>2 DEF mutexVars
  <2>5. GoneAreDead'
    BY <1>2, <2>1, <2>2, <2>3
  <2> QED
    BY <1>1, <1>2, <2>1, <2>2, <2>4, <2>5 DEF mutexVars
<1>14. CASE PassSlot
  BY <1>1, <1>2, <1>14 DEF PassSlot, schedVars, mutexVars
<1>15. CASE FindSleeper
  BY <1>1, <1>2, <1>15 DEF FindSleeper, schedVars, mutexVars
<1>16. CASE UNCHANGED vars
  BY <1>1, <1>2, <1>16 DEF vars, schedVars, mutexVars, callVars
<1> QED
  BY <1>4, <1>5, <1>6, <1>7, <1>8, <1>9, <1>10, <1>11, <1>12, <1>13, <1>14, <1>15, <1>16
     DEF Next, Statement

(***************************************************************************)
(* Whether the calls can be preempted never changes.                       *)
(***************************************************************************)
LEMMA PreemptibleKept == TypeOK /\ [Next]_vars => preemptible' = preemptible
<1> SUFFICES ASSUME TypeOK, [Next]_vars
             PROVE  preemptible' = preemptible
  OBVIOUS
<1>1. TASK_DEAD \in TaskState /\ TASK_SLEEPING \in TaskState
  BY DEF TaskState
<1>2. CASE Preempt \/ Exit \/ TaskSleep
  BY <1>1, <1>2, SchedTypes DEF Preempt, Exit, TaskSleep, me
<1>3. CASE Fork \/ WakeSleeper \/ UNCHANGED vars
  BY <1>3 DEF Fork, WakeSleeper, vars, schedVars
<1>4. ASSUME NEW m \in Mutexes, CallLock(m) \/ CallUnlock(m)
      PROVE  preemptible' = preemptible
  BY <1>4 DEF CallLock, CallUnlock, schedVars
<1>5. CASE Statement /\ ~TaskSleep /\ ~WakeSleeper
  BY <1>5 DEF Statement, LockGuard, FindFree, Take, FindBusy, ReturnLocked, ReleaseBusy,
              UnlockGuard, ClearLock, PassSlot, FindSleeper, ReturnUnlocked, schedVars
<1> QED
  BY <1>2, <1>3, <1>4, <1>5 DEF Next

(***************************************************************************)
(* The invariant of a kernel that is not preempted holds in every run of   *)
(* one.                                                                    *)
(***************************************************************************)
LEMMA QuietInvariance == Spec => []QuietIInv
<1>1. Init => QuietIInv
  <2>1. 0 \in Task
    BY MaxTasksAssumption DEF Task
  <2>2. Init => TypeOK
    BY InitIInv DEF IInv
  <2>3. Init => \A t \in Task : task_states[t] # TASK_SLEEPING
    BY DEF Init, TASK_RUNNING, TASK_SLEEPING, TASK_DEAD
  <2> QED
    BY <2>1, <2>2, <2>3
       DEF Init, QuietIInv, Quiet, OthersOutside, SleepersRetry, CurrentAwake, BusyIsLocked,
           GuardIsMine, SleepersWait, GoneAreDead, WakesSleeper, SlotsFromZero, At, me
<1>2. QuietIInv /\ [Next]_vars => QuietIInv'
  BY TypeStep, QuietStep, PreemptibleKept DEF QuietIInv
<1> QED
  BY <1>1, <1>2, PTL DEF Spec

(***************************************************************************)
(* In a kernel whose handlers run with interrupts off, as this one's do,   *)
(* no wakeup is lost: who sleeps in mutex_lock waits for a locked mutex.   *)
(***************************************************************************)
THEOREM NoWakeupIsLost == Spec => []NoLostWakeup
<1>1. QuietIInv => NoLostWakeup
  BY DEF QuietIInv, Quiet, SleepersWait, NoLostWakeup
<1> QED
  BY <1>1, QuietInvariance, PTL

(***************************************************************************)
(* In such a kernel no unlock makes a task runnable that has exited.       *)
(***************************************************************************)
THEOREM ExitIsFinal == Spec => []ExitedStayDead
<1>1. QuietIInv => ExitedStayDead
  BY DEF QuietIInv, Quiet, GoneAreDead, ExitedStayDead
<1> QED
  BY <1>1, QuietInvariance, PTL

(***************************************************************************)
(* In such a kernel spin_lock takes its guard at the first try.            *)
(***************************************************************************)
THEOREM NoSpinning == Spec => []GuardNeverContended
<1>1. QuietIInv => GuardNeverContended
  BY DEF QuietIInv, Quiet, TypeOK, GuardIsMine, GuardNeverContended, Guarding, At, me, my
<1> QED
  BY <1>1, QuietInvariance, PTL

-----------------------------------------------------------------------------
\* A mutex that is locked with nobody to clear it.
Stranded(m) ==
    locked[m] = 1 /\ \A t \in Task : ~(arg[t] = m /\ pc[t] \in Clearing)

\* The holder that the refinement mapping gives a mutex.
HolderOk ==
    \A m \in Mutexes :
        /\ \A t \in Task : m \in held[t] => Holder(m) = t
        /\ (\A t \in Task : m \notin held[t]) =>
              Holder(m) = IF Stranded(m) THEN -2 ELSE -1

(***************************************************************************)
(* The mapping is well defined: there is one task to choose.               *)
(***************************************************************************)
LEMMA HolderIs == IInv => HolderOk
<1> SUFFICES ASSUME IInv, NEW m \in Mutexes
             PROVE  /\ \A t \in Task : m \in held[t] => Holder(m) = t
                    /\ (\A t \in Task : m \notin held[t]) =>
                          Holder(m) = IF Stranded(m) THEN -2 ELSE -1
  BY DEF HolderOk
<1>1. ASSUME NEW t \in Task, m \in held[t]
      PROVE  Holder(m) = t
  <2>1. \A u \in Task : m \in held[u] => u = t
    BY <1>1 DEF IInv, OwnersRecorded, Owns
  <2> QED
    BY <1>1, <2>1 DEF Holder
<1>2. Stranded(m) <=> locked[m] = 1 /\ ClearedBy(m) = {}
  BY DEF Stranded, ClearedBy, Clearing
<1>3. ASSUME \A t \in Task : m \notin held[t]
      PROVE  Holder(m) = IF locked[m] = 1 /\ ClearedBy(m) = {} THEN -2 ELSE -1
  BY <1>3 DEF Holder
<1> QED
  BY <1>1, <1>2, <1>3

(***************************************************************************)
(* A mutex has the same holder after a step after which the same tasks     *)
(* hold it, and it is stranded if and only if it was before.               *)
(***************************************************************************)
LEMMA HolderKept ==
    ASSUME IInv, IInv', NEW m \in Mutexes,
           \A t \in Task : m \in held'[t] <=> m \in held[t],
           Stranded(m)' <=> Stranded(m)
    PROVE  Holder(m)' = Holder(m)
<1>1. HolderOk /\ HolderOk'
  BY HolderIs, PTL
<1> QED
  BY <1>1 DEF HolderOk

(***************************************************************************)
(* Every step is one of the locks' or changes no holder.                   *)
(***************************************************************************)
LEMMA StepImplements ==
    IInv /\ IInv' /\ [Next]_vars => [L!Next]_[m \in Mutexes |-> Holder(m)]
<1> SUFFICES ASSUME IInv, IInv', [Next]_vars
             PROVE  L!Next \/ \A m \in Mutexes : Holder(m)' = Holder(m)
  OBVIOUS
<1>1. HolderOk /\ HolderOk'
  BY HolderIs, PTL
<1>2. /\ me \in Task /\ arg \in [Task -> Mutexes] /\ pc \in [Task -> Labels]
      /\ held \in [Task -> SUBSET Mutexes]
      /\ locked \in [Mutexes -> {0, 1}]
      /\ my \in Mutexes
  BY DEF IInv, TypeOK, me, my
<1> PICK mine \in Mutexes : mine = my
  BY <1>2
<1> USE DEF Stranded, Clearing
<1>3. ASSUME UNCHANGED held, \A m \in Mutexes : Stranded(m)' <=> Stranded(m)
      PROVE  \A m \in Mutexes : Holder(m)' = Holder(m)
  <2> SUFFICES ASSUME NEW m \in Mutexes
               PROVE  Holder(m)' = Holder(m)
    OBVIOUS
  <2>1. \A t \in Task : m \in held'[t] <=> m \in held[t]
    BY <1>3
  <2>2. Stranded(m)' <=> Stranded(m)
    BY <1>3
  <2> QED
    BY <2>1, <2>2, HolderKept
<1>4. CASE Preempt \/ UNCHANGED vars
  BY <1>3, <1>4 DEF Preempt, vars, schedVars, mutexVars, callVars
<1>5. CASE Fork
  <2>1. PICK child \in Task : pc[child] = "gone" /\ pc' = [pc EXCEPT ![child] = "outside"]
    <3>1. /\ AllocTaskSlot(task_states) # -1
          /\ pc' = [pc EXCEPT ![AllocTaskSlot(task_states)] = "outside"]
      BY <1>5 DEF Fork
    <3>2. /\ AllocTaskSlot(task_states) \in Task
          /\ task_states[AllocTaskSlot(task_states)] = TASK_DEAD
      BY <3>1, AllocTaskSlotDead
    <3> QED
      BY <3>1, <3>2 DEF IInv, DeadAreGone
  <2> QED
    BY <1>2, <1>3, <1>5, <2>1 DEF Fork, mutexVars
<1>6. CASE LockGuard \/ UnlockGuard \/ FindFree \/ FindBusy \/ ReleaseBusy \/ ReturnUnlocked
           \/ TaskSleep \/ PassSlot \/ FindSleeper \/ WakeSleeper \/ \E m \in Mutexes : CallLock(m)
  BY <1>2, <1>3, <1>6
     DEF LockGuard, UnlockGuard, FindFree, FindBusy, ReleaseBusy, ReturnUnlocked,
         TaskSleep, PassSlot, FindSleeper, WakeSleeper, CallLock, At, GoTo, schedVars, mutexVars, me
<1>7. CASE Take
  <2>1. ~Stranded(mine) /\ ~Stranded(mine)'
    BY <1>2, <1>7 DEF IInv, TakesFree, Take, At, GoTo, my, me, schedVars
  <2>2. \A m \in Mutexes \ {mine} : Stranded(m)' <=> Stranded(m)
    BY <1>2, <1>7 DEF Take, At, GoTo, my, me, schedVars
  <2> QED
    BY <1>3, <1>7, <2>1, <2>2 DEF Take
<1>8. CASE ClearLock
  <2>1. ~Stranded(mine) /\ ~Stranded(mine)'
    BY <1>2, <1>8 DEF ClearLock, At, GoTo, my, me, schedVars
  <2>2. \A m \in Mutexes \ {mine} : Stranded(m)' <=> Stranded(m)
    BY <1>2, <1>8 DEF ClearLock, At, GoTo, my, me, schedVars
  <2> QED
    BY <1>3, <1>8, <2>1, <2>2 DEF ClearLock
<1>9. CASE ReturnLocked
  <2>1. Owns(me, mine)
    BY <1>9 DEF ReturnLocked, At, Owns, my, me
  <2>2. \A t \in Task : mine \notin held[t]
    BY <1>2, <1>9, <2>1
       DEF IInv, OwnersRecorded, OwnedOnce, Owns, ReturnLocked, At, my, me
  <2>3. Holder(mine) = -1
    BY <1>1, <1>2, <1>9, <2>2 DEF HolderOk, ReturnLocked, At, my, me
  <2>4. Holder(mine)' = me
    BY <1>1, <1>2, <1>9 DEF HolderOk, ReturnLocked, my, me, schedVars
  <2>5. ASSUME NEW m \in Mutexes \ {mine}
        PROVE  Holder(m)' = Holder(m)
    <3>1. Stranded(m)' <=> Stranded(m)
      BY <1>2, <1>9 DEF ReturnLocked, At, GoTo, my, me, schedVars
    <3> QED
      BY <1>2, <1>9, <3>1, HolderKept DEF ReturnLocked
  <2>6. L!Acquire(me, mine)
    BY <1>2, <2>3, <2>4, <2>5 DEF L!Acquire
  <2> QED
    BY <1>2, <2>6 DEF L!Next
<1>10. ASSUME NEW n \in Mutexes, CallUnlock(n)
      PROVE  L!Next
  <2>1. Holder(n) = me
    BY <1>1, <1>2, <1>10 DEF HolderOk, CallUnlock, me
  <2>2. \A t \in Task : n \notin held'[t]
    BY <1>2, <1>10 DEF IInv, OwnersRecorded, Owns, CallUnlock, me
  <2>3. ~Stranded(n)'
    BY <1>2, <1>10 DEF CallUnlock, GoTo, me
  <2>4. Holder(n)' = -1
    BY <1>1, <2>2, <2>3 DEF HolderOk
  <2>5. ASSUME NEW m \in Mutexes \ {n}
        PROVE  Holder(m)' = Holder(m)
    <3>1. Stranded(m)' <=> Stranded(m)
      BY <1>2, <1>10 DEF CallUnlock, At, GoTo, me, mutexVars
    <3> QED
      BY <1>2, <1>10, <3>1, HolderKept DEF CallUnlock
  <2>6. L!Release(me, n)
    BY <2>1, <2>4, <2>5 DEF L!Release
  <2> QED
    BY <1>2, <2>6 DEF L!Next
<1>11. CASE Exit
  <2>1. ASSUME NEW m \in Mutexes
        PROVE  Holder(m)' = IF Holder(m) = me THEN -2 ELSE Holder(m)
    <3>1. Stranded(m)' <=> Stranded(m)
      BY <1>2, <1>11 DEF Exit, At, GoTo, mutexVars
    <3>2. CASE m \in held[me]
      <4>1. Stranded(m)
        BY <1>2, <1>11, <3>2 DEF IInv, OwnersRecorded, Owns, Exit, At, me
      <4>2. \A t \in Task : m \notin held'[t]
        BY <1>2, <1>11, <3>2 DEF IInv, OwnersRecorded, Owns, Exit
      <4> QED
        BY <1>1, <1>2, <3>1, <3>2, <4>1, <4>2 DEF HolderOk
    <3>3. CASE m \notin held[me]
      <4>1. Holder(m) # me
        <5>1. -1 \notin Task /\ -2 \notin Task
          BY MaxTasksAssumption DEF Task
        <5> QED
          BY <1>1, <1>2, <3>3, <5>1 DEF HolderOk
      <4>2. Holder(m)' = Holder(m)
        BY <1>2, <1>11, <3>1, <3>3, HolderKept DEF Exit
      <4> QED
        BY <4>1, <4>2
    <3> QED
      BY <3>2, <3>3
  <2>2. L!End(me)
    BY <2>1 DEF L!End
  <2> QED
    BY <1>2, <2>2 DEF L!Next
<1> QED
  BY <1>4, <1>5, <1>6, <1>7, <1>8, <1>9, <1>10, <1>11 DEF Next, Statement

(***************************************************************************)
(* The mutex implements the locks of module Locks, with any number of      *)
(* tasks and mutexes, also in a kernel that is preempted anywhere.         *)
(***************************************************************************)
THEOREM MutexImplementsLocks == Spec => ImplementsLocks
<1>1. Init => L!Init
  <2> SUFFICES ASSUME Init, NEW m \in Mutexes
               PROVE  Holder(m) = -1
    BY DEF L!Init
  <2> QED
    BY DEF Init, Holder
<1> QED
  BY <1>1, StepImplements, Invariance, PTL DEF Spec, L!Spec, ImplementsLocks
=============================================================================
