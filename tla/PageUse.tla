------------------------------ MODULE PageUse ------------------------------
(***************************************************************************)
(* What the memory of module PageTables means: which use the allocator's   *)
(* pages are put to, written down page by page.  The code keeps no such    *)
(* record; here it is an auxiliary function `use`, and Heap(m, use, n)     *)
(* says that the words in memory agree with it everywhere.  A page is      *)
(*   FREE    on the list of free pages, as its slot-th page from the end,  *)
(*   LIMBO   allocated, but not yet put into a page table, or              *)
(*   a node of a tree of page tables: a top-level table (lv 3), a table of *)
(*           the next levels (2, 1) or a page of data (0).                 *)
(* A node records its tree, named after its top-level table, the table (up)*)
(* and slot that point to it, and the number that the slots on the way to  *)
(* it spell (pos): what the virtual pages below it begin with.             *)
(***************************************************************************)
EXTENDS PageTables

FREE  == -1
LIMBO == -2

Use == [lv : -2 .. 3, tree : Int, up : Int, slot : Int, pos : Int]

Limbo == [lv |-> LIMBO, tree |-> 0, up |-> 0, slot |-> 0, pos |-> 0]
Top(p) == [lv |-> 3, tree |-> p, up |-> 0, slot |-> 0, pos |-> 0]
OnList(k) == [lv |-> FREE, tree |-> 0, up |-> 0, slot |-> k, pos |-> 0]

\* The number spelled by one more slot.
Spell(pos, i) == pos * ENTRIES + i

\* The use of a node below slot i of table p.
Below(use, p, i) ==
    [lv |-> use[p].lv - 1, tree |-> use[p].tree, up |-> p, slot |-> i,
     pos |-> Spell(use[p].pos, i)]

\* The target of entry i of table m.ram[p].
Target(m, p, i) == PteToPa(m.ram[p][i])

\* The pages of the kernel image.
ImageFrames == RamStart .. KernelEnd - 1

Mem == [ram       : [RamPages -> [Slots -> Word]],
        free_list : ManagedPages \cup {0},
        stuck     : BOOLEAN]

\* n pages are free, and the list visits them in the order n, n - 1, ..., 1.
FreeListOK(m, use, n) ==
    /\ n \in Nat
    /\ \A p \in ManagedPages : use[p].lv = FREE =>
          /\ use[p].slot \in 1 .. n
          /\ use[p].slot = 1 => Target(m, p, 0) = 0
          /\ use[p].slot # 1 =>
                /\ Target(m, p, 0) \in ManagedPages
                /\ use[Target(m, p, 0)].lv = FREE
                /\ use[Target(m, p, 0)].slot = use[p].slot - 1
    /\ \A p, q \in ManagedPages :
          use[p].lv = FREE /\ use[q].lv = FREE /\ use[p].slot = use[q].slot => p = q
    /\ n = 0 => m.free_list = 0
    /\ n # 0 => /\ m.free_list \in ManagedPages
                /\ use[m.free_list].lv = FREE
                /\ use[m.free_list].slot = n

\* A page is where an entry says it is.
IsBelow(use, q, p, i) == q \in ManagedPages /\ use[q] = Below(use, p, i)

\* A valid entry above the last level points to a table of the next.  One of
\* the last level of a task's tree is a readable leaf, and refers to a page of
\* data of that tree or to a page of the kernel image that it cannot write.
EntryOK(m, use, p, i) ==
    LET pte == m.ram[p][i]
        q   == PteToPa(pte)
    IN  /\ use[p].lv > 1 => Flags(pte) = {"V"} /\ IsBelow(use, q, p, i)
        /\ use[p].lv = 1 /\ use[p].tree # root_page_table =>
              /\ {"R", "A", "D"} \subseteq Flags(pte)
              /\ \/ IsBelow(use, q, p, i)
                 \/ q \in ImageFrames /\ ~({"U", "W"} \subseteq Flags(pte))

EntriesOK(m, use) ==
    \A p \in ManagedPages : use[p].lv > 0 =>
        \A i \in Slots : Valid(m.ram[p][i]) => EntryOK(m, use, p, i)

\* A node hangs below one entry, which points to it.  The kernel's own tree has
\* no page of data.
ParentOK(m, use, q) ==
    LET p == use[q].up
        i == use[q].slot
    IN  /\ p \in ManagedPages /\ i \in Slots
        /\ use[p].lv = use[q].lv + 1 /\ use[p].tree = use[q].tree
        /\ Valid(m.ram[p][i]) /\ Target(m, p, i) = q
        /\ use[q].lv = 0 => use[q].tree # root_page_table

ParentsOK(m, use) == \A q \in ManagedPages : use[q].lv \in 0 .. 2 => ParentOK(m, use, q)

TopsOK(use) == \A p \in ManagedPages : use[p].lv = 3 => use[p].tree = p /\ use[p].pos = 0

Heap(m, use, n) ==
    /\ m \in Mem
    /\ m.stuck => m.free_list = 0
    /\ use \in [ManagedPages -> Use]
    /\ FreeListOK(m, use, n)
    /\ EntriesOK(m, use)
    /\ ParentsOK(m, use)
    /\ TopsOK(use)
=============================================================================
