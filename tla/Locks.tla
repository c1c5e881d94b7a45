------------------------------- MODULE Locks -------------------------------
(***************************************************************************)
(* What the mutex of kernel/mutex.c promises its users: locks with one     *)
(* holder at a time.  A holder that ends leaves its locks orphaned.        *)
(***************************************************************************)
CONSTANTS Mutexes, Users,
    Free, Orphaned  \* no users

VARIABLE holder  \* of each mutex: a user, Free or Orphaned

Init == holder = [m \in Mutexes |-> Free]

Acquire(t, m) == holder[m] = Free /\ holder' = [holder EXCEPT ![m] = t]

Release(t, m) == holder[m] = t /\ holder' = [holder EXCEPT ![m] = Free]

End(t) ==
    holder' = [m \in Mutexes |-> IF holder[m] = t THEN Orphaned ELSE holder[m]]

Next ==
    \E t \in Users :
        \/ End(t)
        \/ \E m \in Mutexes : Acquire(t, m) \/ Release(t, m)

Spec == Init /\ [][Next]_holder
=============================================================================
