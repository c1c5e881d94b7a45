------------------------------ MODULE MCMemory ------------------------------
(***************************************************************************)
(* Module Memory with pages of eight words, laid out like the real address *)
(* space: the image at the bottom, then CLINT and UART, the user pages in  *)
(* the second eighth, RAM in the third.                                    *)
(***************************************************************************)
EXTENDS Memory

Page(words) == [i \in Slots |-> <<words + i, {}>>]

\* The embedded image has one segment, text and constants together.
OneSegment == <<[va |-> 4, flags |-> {"R", "X", "U", "V"}, words |-> Page(300)]>>

\* An image larger than the boot program, in two tables of the lowest level: it
\* takes more pages than the program it replaces gives back.
LargeImage ==
    [i \in 1 .. 6 |->
        [va    |-> IF i <= 4 THEN 3 + i ELSE 11 + i,
         flags |-> IF i <= 4 THEN {"R", "X", "U", "V"} ELSE {"R", "W", "U", "V"},
         words |-> IF i <= 5 THEN Page(300 + 10 * i) ELSE ZeroPage]]
=============================================================================
