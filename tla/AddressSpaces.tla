---------------------------- MODULE AddressSpaces ----------------------------
(***************************************************************************)
(* What memory looks like to the programs: every task has an address space *)
(* of its own, a partial function from virtual pages to what the page      *)
(* holds and what the program may do with it.  fork copies it, exec        *)
(* replaces it, exit removes it, and a store changes one word of the       *)
(* storing task's and nothing else.  That page tables, data and the list   *)
(* of free pages share one physical memory does not show.                  *)
(***************************************************************************)
CONSTANTS
    Task,        \* task slots
    Values,      \* what a program stores
    NoSpace,     \* the address space of a dead slot
    BootSpace,   \* the address space of the first program
    ImageSpace   \* the address space of a freshly loaded image

VARIABLE space

Live == {t \in Task : space[t] # NoSpace}

Init == space = [t \in Task |-> IF t = 0 THEN BootSpace ELSE NoSpace]

\* What a page may look like after a program has stored to one of its words.
Stored(page) ==
    {[page EXCEPT !.words[i] = <<v, {}>>] : i \in DOMAIN page.words, v \in Values}

Writable(t) == {va \in DOMAIN space[t] : "W" \in space[t][va].flags}

Store(t, va) ==
    \E page \in Stored(space[t][va]) : space' = [space EXCEPT ![t][va] = page]

Fork(t, child) ==
    /\ space[child] = NoSpace
    /\ space' = [space EXCEPT ![child] = space[t]]

Exec(t) == space' = [space EXCEPT ![t] = ImageSpace]

Exit(t) == space' = [space EXCEPT ![t] = NoSpace]

Next ==
    \E t \in Live :
        \/ Exec(t)
        \/ Exit(t)
        \/ \E child \in Task : Fork(t, child)
        \/ \E va \in Writable(t) : Store(t, va)

Spec == Init /\ [][Next]_space
=============================================================================
