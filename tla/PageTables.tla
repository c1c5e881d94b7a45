----------------------------- MODULE PageTables -----------------------------
(***************************************************************************)
(* Physical memory, the page allocator (kernel/page.c) and the three-level *)
(* Sv39 page tables that the kernel builds in it (kernel/mmu.c).           *)
(*                                                                         *)
(* These are operators on a memory m, a record of                          *)
(*   ram        the pages from RamStart to RamEnd - 1, ENTRIES words each, *)
(*   free_list  the head of the list of free pages, 0 when it is empty,    *)
(*   stuck      whether alloc_page has found the list empty and spins.     *)
(* Nothing is written once m is stuck.                                     *)
(*                                                                         *)
(* Addresses, physical and virtual, are page numbers.  The list of free    *)
(* pages is threaded through the pages themselves (word 0), a page table   *)
(* is a page like any other, and a freed page keeps its words until it is  *)
(* allocated again: that is where this code could go wrong.                *)
(***************************************************************************)
EXTENDS Integers, FiniteSets, Sequences

CONSTANTS
    ENTRIES,     \* words in a page and entries in a page table (512)
    RamStart,    \* the first page of RAM, where the kernel image lies
    KernelEnd,   \* the first page after the kernel image
    RamEnd,      \* the page after the last page of RAM
    ClintStart,  \* the first page of the CLINT
    ClintEnd,    \* the page after its last
    Uart         \* the page of the UART

ASSUME PageTablesAssumption ==
    /\ ENTRIES \in Nat \ {0}
    /\ RamStart \in Nat \ {0} /\ KernelEnd \in Nat /\ RamEnd \in Nat
    /\ RamStart < KernelEnd /\ KernelEnd < RamEnd
    /\ RamEnd <= ENTRIES * ENTRIES * ENTRIES
    /\ {ClintStart, ClintEnd, Uart} \subseteq 1 .. RamStart - 1 /\ ClintStart < ClintEnd

Slots == 0 .. ENTRIES - 1

RamPages == RamStart .. RamEnd - 1

\* The pages that page_init hands to the allocator.
ManagedPages == KernelEnd .. RamEnd - 1

\* A word is a page number or another value, and the low bits that make it a
\* page table entry.  A plain value has none of them.
PteFlags      == {"V", "R", "W", "X", "U", "A", "D"}
Plain(v)      == <<v, {}>>
PaToPte(pa, flags) == <<pa, flags>>
PteToPa(word) == word[1]
Flags(word)   == word[2]
Valid(word)   == "V" \in Flags(word)
Word          == Int \X SUBSET PteFlags

ZeroPage == [i \in Slots |-> Plain(0)]

SetWord(m, page, i, word) ==
    IF m.stuck THEN m ELSE [m EXCEPT !.ram[page][i] = word]

\* for (k = 0; k < n; k++) from the memory base.  A machine that is stuck in
\* one round does not come to the next.
Loop(Round(_, _), base, n) ==
    LET acc[k \in 0 .. n] ==
          IF k = 0 THEN base
          ELSE LET last == acc[k - 1]
               IN  IF last.stuck THEN last ELSE Round(last, k - 1)
    IN  acc[n]

-----------------------------------------------------------------------------
(***************************************************************************)
(* kernel/page.c                                                           *)
(***************************************************************************)

\* alloc_page: unlink the head of the list and zero it.  The page returned is
\* m.free_list.
AllocPage(m) ==
    IF m.free_list = 0
    THEN [m EXCEPT !.stuck = TRUE]
    ELSE [m EXCEPT !.free_list = PteToPa(m.ram[m.free_list][0]),
                   !.ram[m.free_list] = ZeroPage]

\* free_page: push a page on the list; a null pointer is ignored.
FreePage(m, page) ==
    IF m.stuck \/ page = 0
    THEN m
    ELSE [m EXCEPT !.free_list = page, !.ram[page][0] = Plain(m.free_list)]

\* Mutant: kernel_end is rounded down instead of up.
BugPageInit(m) ==
    Loop(LAMBDA acc, k : FreePage(acc, KernelEnd - 1 + k), m, RamEnd - KernelEnd + 1)

\* page_init: push every page after the kernel, in ascending order.
PageInit(m) ==
    Loop(LAMBDA acc, k : FreePage(acc, KernelEnd + k), m, RamEnd - KernelEnd)

\* The pages that get_free_page_count visits: node[k] is the k-th one, 0 after
\* the last.
FreeListNodes(m) ==
    LET node[k \in 0 .. RamEnd - KernelEnd] ==
          IF k = 0 THEN m.free_list
          ELSE LET last == node[k - 1]
               IN  IF last = 0 THEN 0 ELSE PteToPa(m.ram[last][0])
    IN  node

-----------------------------------------------------------------------------
(***************************************************************************)
(* walk_pte and map_page.  A walk is a memory and the table it is at.      *)
(***************************************************************************)

\* The pages below one entry of a table of a level.
Reach(level) == IF level = 0 THEN 1
                ELSE IF level = 1 THEN ENTRIES ELSE ENTRIES * ENTRIES

\* get_vpn
Vpn(va, level) == (va \div Reach(level)) % ENTRIES

\* Mutant: the pointer to a new table is given the permissions of a leaf.
BugDescend(walk, i) ==
    LET pte  == walk.m.ram[walk.table][i]
        page == walk.m.free_list
    IN  IF walk.m.stuck THEN walk
        ELSE IF Valid(pte) THEN [walk EXCEPT !.table = PteToPa(pte)]
        ELSE [m |-> SetWord(AllocPage(walk.m), walk.table, i,
                            PaToPte(page, {"V", "R", "W", "U"})),
              table |-> page]

\* One level of walk_pte with create: follow entry i, adding a table if there
\* is none.
Descend(walk, i) ==
    LET pte  == walk.m.ram[walk.table][i]
        page == walk.m.free_list
    IN  IF walk.m.stuck THEN walk
        ELSE IF Valid(pte) THEN [walk EXCEPT !.table = PteToPa(pte)]
        ELSE [m |-> SetWord(AllocPage(walk.m), walk.table, i, PaToPte(page, {"V"})),
              table |-> page]

\* map_page
MapPage(m, pgd, va, pa, flags) ==
    LET top  == [m |-> m, table |-> pgd]
        leaf == Descend(Descend(top, Vpn(va, 2)), Vpn(va, 1))
    IN  IF m.stuck THEN m
        ELSE SetWord(leaf.m, leaf.table, Vpn(va, 0), PaToPte(pa, flags \cup {"A", "D"}))

\* map_range of kernel/task.c and the loops of mmu_init: pages first .. last
\* at their own addresses.
MapRange(m, pgd, first, last, flags) ==
    Loop(LAMBDA acc, k : MapPage(acc, pgd, first + k, first + k, flags),
         m, last - first + 1)

\* walk_pte without create: the leaf entry of va, an invalid one where a table
\* is missing (the code returns a null pointer, and treats both alike).
LeafPte(m, pgd, va) ==
    LET pte2 == m.ram[pgd][Vpn(va, 2)] IN
    IF ~Valid(pte2) THEN Plain(0)
    ELSE LET pte1 == m.ram[PteToPa(pte2)][Vpn(va, 1)] IN
         IF ~Valid(pte1) THEN Plain(0)
         ELSE m.ram[PteToPa(pte1)][Vpn(va, 0)]

\* root_page_table: the first page that the allocator ever gives away.
root_page_table == RamEnd - 1

\* mmu_init: the kernel's own page table.
MmuInit(m) ==
    LET root  == m.free_list
        clint == MapRange(AllocPage(m), root, ClintStart, ClintEnd - 1, {"R", "W", "V"})
        uart  == MapPage(clint, root, Uart, Uart, {"R", "W", "V"})
    IN  MapRange(uart, root, RamStart, RamEnd - 1, {"R", "W", "X", "V"})

-----------------------------------------------------------------------------
(***************************************************************************)
(* free_user_page_table, innermost loop first.                             *)
(***************************************************************************)

\* A leaf inside the kernel image (text and rodata of the boot task) stays.
FreeLeaf(m, pte) ==
    IF Valid(pte) /\ PteToPa(pte) >= KernelEnd
    THEN FreePage(m, PteToPa(pte)) ELSE m

FreeLeafTable(m, table) ==
    FreePage(Loop(LAMBDA acc, k : FreeLeaf(acc, acc.ram[table][k]), m, ENTRIES),
             table)

\* Mutant: the middle table itself is forgotten.
BugFreePmd(m, pmd) ==
    LET FreeEntry(acc, j) ==
          IF Valid(acc.ram[pmd][j])
          THEN FreeLeafTable(acc, PteToPa(acc.ram[pmd][j])) ELSE acc
    IN  Loop(FreeEntry, m, ENTRIES)

FreePmd(m, pmd) ==
    LET FreeEntry(acc, j) ==
          IF Valid(acc.ram[pmd][j])
          THEN FreeLeafTable(acc, PteToPa(acc.ram[pmd][j])) ELSE acc
    IN  FreePage(Loop(FreeEntry, m, ENTRIES), pmd)

\* Entries of pgd equal to the kernel's are shared with it and stay.
FreeUserPageTable(m, root, pgd) ==
    LET FreeEntry(acc, i) ==
          IF acc.ram[pgd][i] # acc.ram[root][i] /\ Valid(acc.ram[pgd][i])
          THEN FreePmd(acc, PteToPa(acc.ram[pgd][i])) ELSE acc
    IN  FreePage(Loop(FreeEntry, m, ENTRIES), pgd)

-----------------------------------------------------------------------------
(***************************************************************************)
(* copy_user_page_table, innermost loop first.  Each piece fills entry i   *)
(* of the table dst from the entry pte of the parent's table; the copied   *)
(* table is m.free_list of the memory it starts from.                      *)
(***************************************************************************)

\* A new page below entry i of dst, with the permissions of pte.
NewBelow(m, dst, i, pte) ==
    SetWord(AllocPage(m), dst, i, PaToPte(m.free_list, Flags(pte)))

\* Mutant: the loop over the bytes ends one early.
BugCopyData(m, from, to) ==
    IF m.stuck THEN m
    ELSE [m EXCEPT !.ram[to] = [m.ram[from] EXCEPT ![ENTRIES - 1] = Plain(0)]]

CopyData(m, from, to) == IF m.stuck THEN m ELSE [m EXCEPT !.ram[to] = m.ram[from]]

\* Mutant: the child shares the parent's page.
BugCopyLeaf(m, dst, k, pte) ==
    IF Valid(pte) THEN SetWord(m, dst, k, pte) ELSE m

CopyLeaf(m, dst, k, pte) ==
    IF Valid(pte)
    THEN CopyData(NewBelow(m, dst, k, pte), PteToPa(pte), m.free_list) ELSE m

CopyLeafTable(m, dst, j, pte) ==
    IF Valid(pte)
    THEN Loop(LAMBDA acc, k : CopyLeaf(acc, m.free_list, k, acc.ram[PteToPa(pte)][k]),
              NewBelow(m, dst, j, pte), ENTRIES)
    ELSE m

CopyPmd(m, dst, i, pte) ==
    IF Valid(pte)
    THEN Loop(LAMBDA acc, j : CopyLeafTable(acc, m.free_list, j,
                                            acc.ram[PteToPa(pte)][j]),
              NewBelow(m, dst, i, pte), ENTRIES)
    ELSE m

CopyUserPageTable(m, root, src) ==
    LET CopyEntry(acc, i) ==
          IF acc.ram[src][i] = acc.ram[root][i]
          THEN SetWord(acc, m.free_list, i, acc.ram[src][i])
          ELSE CopyPmd(acc, m.free_list, i, acc.ram[src][i])
    IN  Loop(CopyEntry, AllocPage(m), ENTRIES)

-----------------------------------------------------------------------------
(***************************************************************************)
(* What a page table means.                                                *)
(***************************************************************************)

ValidSlots(m, table) == {i \in Slots : Valid(m.ram[table][i])}

\* The tables and the leaf entries below pgd, each with the path of slots that
\* leads to it.
Pmds(m, pgd) == {<<i, PteToPa(m.ram[pgd][i])>> : i \in ValidSlots(m, pgd)}

LeafTables(m, pgd) ==
    UNION {{<<p[1], j, PteToPa(m.ram[p[2]][j])>> : j \in ValidSlots(m, p[2])} :
           p \in Pmds(m, pgd)}

Leaves(m, pgd) ==
    UNION {{<<t[1], t[2], k, m.ram[t[3]][k]>> : k \in ValidSlots(m, t[3])} :
           t \in LeafTables(m, pgd)}

\* The virtual pages that pgd maps.
Mapped(m, pgd) ==
    {(l[1] * ENTRIES + l[2]) * ENTRIES + l[3] : l \in Leaves(m, pgd)}

\* How many tables there are below the top of a tree that maps the virtual pages
\* A and nothing else, if none of them is empty.
TablesFor(A) ==
    Cardinality({v \div Reach(2) : v \in A}) + Cardinality({v \div Reach(1) : v \in A})

\* The virtual pages of the kernel's own page table.
KernelVas == ClintStart .. ClintEnd - 1 \cup {Uart} \cup RamPages

\* The hardware reads the tree as the kernel does: an entry above the last
\* level is a pointer, one in the last level a readable leaf.
WellFormed(m, pgd) ==
    /\ \A i \in ValidSlots(m, pgd) : Flags(m.ram[pgd][i]) = {"V"}
    /\ \A p \in Pmds(m, pgd) :
          \A j \in ValidSlots(m, p[2]) : Flags(m.ram[p[2]][j]) = {"V"}
    /\ \A l \in Leaves(m, pgd) : {"R", "A", "D"} \subseteq Flags(l[4])
=============================================================================
