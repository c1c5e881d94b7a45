---------------------------- MODULE SchedProofs ----------------------------
(***************************************************************************)
(* Lemmas about the operators of module Sched: what sched_pick_next and    *)
(* alloc_task_slot return, for a task table of any size.                   *)
(***************************************************************************)
EXTENDS Sched, WellFoundedInduction, TLAPS

(***************************************************************************)
(* A non-empty set of naturals has a least element, so Least names it.     *)
(***************************************************************************)
LEMMA LeastIsLeast ==
    ASSUME NEW S, S \subseteq Nat, S # {}
    PROVE  /\ Least(S) \in S
           /\ \A j \in S : Least(S) <= j
<1> DEFINE Below == OpToRel(<, Nat)
<1>1. \A i, j \in Nat : i < j => <<i, j>> \in Below
  BY DEF OpToRel
<1>2. IsWellFoundedOn(Below, Nat)
  BY NatLessThanWellFounded
<1> HIDE DEF Below
<1>3. PICK i \in S : \A j \in S : ~(<<j, i>> \in Below)
  BY <1>2, WFMin
<1>4. \A j \in S : ~(j < i)
  BY <1>1, <1>3
<1>5. \A j \in S : i <= j
  BY <1>4
<1> QED
  BY <1>5 DEF Least

(***************************************************************************)
(* The scheduler's walk round the table (sched.c:11): slot `to` is looked  *)
(* at in iteration Dist(from, to), and in no other.                        *)
(***************************************************************************)
LEMMA ProbeDist ==
    ASSUME NEW from \in Task
    PROVE  /\ \A i \in 1 .. MAX_TASKS :
                Probe(from, i) \in Task /\ Dist(from, Probe(from, i)) = i
           /\ \A to \in Task :
                Dist(from, to) \in 1 .. MAX_TASKS /\ Probe(from, Dist(from, to)) = to
<1>1. ASSUME NEW i \in 1 .. MAX_TASKS
      PROVE  Probe(from, i) = IF from + i < MAX_TASKS THEN from + i
                                                      ELSE from + i - MAX_TASKS
  BY MaxTasksAssumption DEF Task, Probe
<1>2. ASSUME NEW to \in Task
      PROVE  Dist(from, to) \in 1 .. MAX_TASKS
  BY MaxTasksAssumption DEF Task, Dist
<1>3. ASSUME NEW i \in 1 .. MAX_TASKS
      PROVE  Probe(from, i) \in Task /\ Dist(from, Probe(from, i)) = i
  BY <1>1, MaxTasksAssumption DEF Task, Dist
<1>4. ASSUME NEW to \in Task
      PROVE  Probe(from, Dist(from, to)) = to
  BY <1>1, <1>2, MaxTasksAssumption DEF Task, Dist
<1> QED
  BY <1>2, <1>3, <1>4

(***************************************************************************)
(* sched_pick_next returns -1 exactly when nothing is runnable, otherwise  *)
(* the runnable slot that comes first after `current`.                     *)
(***************************************************************************)
THEOREM SchedPickNextNearest ==
    ASSUME NEW states, NEW current \in Task
    PROVE  LET next == SchedPickNext(states, current)
           IN  \/ /\ next = -1
                  /\ \A t \in Task : ~TaskIsRunnable(states, t)
               \/ /\ next \in Task
                  /\ TaskIsRunnable(states, next)
                  /\ \A t \in Task : TaskIsRunnable(states, t) =>
                        Dist(current, next) <= Dist(current, t)
<1> DEFINE hits == {i \in 1 .. MAX_TASKS : TaskIsRunnable(states, Probe(current, i))}
<1>1. \A t \in Task : TaskIsRunnable(states, t) => Dist(current, t) \in hits
  BY ProbeDist
<1>2. CASE hits = {}
  <2>1. \A t \in Task : ~TaskIsRunnable(states, t)
    BY <1>1, <1>2
  <2> QED
    BY <1>2, <2>1 DEF SchedPickNext
<1>3. CASE hits # {}
  <2>1. Least(hits) \in hits /\ \A j \in hits : Least(hits) <= j
    <3>1. hits \subseteq Nat
      BY MaxTasksAssumption
    <3> QED
      BY <1>3, <3>1, LeastIsLeast
  <2>2. SchedPickNext(states, current) = Probe(current, Least(hits))
    BY <1>3 DEF SchedPickNext
  <2>3. Dist(current, Probe(current, Least(hits))) = Least(hits)
    BY <2>1, ProbeDist
  <2>4. Probe(current, Least(hits)) \in Task
    BY <2>1, ProbeDist
  <2>5. TaskIsRunnable(states, Probe(current, Least(hits)))
    BY <2>1
  <2> HIDE DEF hits
  <2> QED
    BY <1>1, <2>1, <2>2, <2>3, <2>4, <2>5
<1> QED
  BY <1>2, <1>3

(***************************************************************************)
(* Going to the nearest runnable slot brings every other runnable slot     *)
(* nearer: the arithmetic behind round robin.                              *)
(***************************************************************************)
LEMMA NearestComesNearer ==
    ASSUME NEW from \in Task, NEW next \in Task, NEW t \in Task,
           t # next, Dist(from, next) <= Dist(from, t)
    PROVE  Dist(next, t) < Dist(from, t)
  BY MaxTasksAssumption DEF Task, Dist

(***************************************************************************)
(* alloc_task_slot returns -1 exactly when the table is full, otherwise a  *)
(* dead slot.                                                              *)
(***************************************************************************)
LEMMA AllocTaskSlotDead ==
    ASSUME NEW states
    PROVE  LET slot == AllocTaskSlot(states)
           IN  \/ slot = -1 /\ \A t \in Task : states[t] # TASK_DEAD
               \/ slot \in Task /\ states[slot] = TASK_DEAD
<1>1. CASE DeadSlots(states) = {}
  BY <1>1 DEF AllocTaskSlot, DeadSlots
<1>2. CASE DeadSlots(states) # {}
  <2>1. DeadSlots(states) \subseteq Nat
    BY MaxTasksAssumption DEF DeadSlots, Task
  <2>2. Least(DeadSlots(states)) \in DeadSlots(states)
    BY <1>2, <2>1, LeastIsLeast
  <2> QED
    BY <1>2, <2>2 DEF AllocTaskSlot, DeadSlots
<1> QED
  BY <1>1, <1>2
=============================================================================
