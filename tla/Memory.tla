------------------------------- MODULE Memory -------------------------------
(***************************************************************************)
(* The memory of the tasks: what task_init, task_fork, task_exec and       *)
(* task_exit do to the page tables, to the pages behind them and to the    *)
(* list of free pages (module PageTables), and stores by user programs     *)
(* through their page tables.                                              *)
(*                                                                         *)
(* Handlers run with interrupts off, so each is one step.  Which of the    *)
(* live tasks runs next is the business of module Kernel: here any of them *)
(* may.  Registers, frames and the text of messages are left out.          *)
(***************************************************************************)
EXTENDS PageTables, Sched

CONSTANTS
    TextStart, TextEnd,      \* pages of the kernel's .text, mapped for boot
    RodataStart, RodataEnd,  \* pages of its .rodata
    KERNEL_WORD,             \* what those pages hold
    USER_RW_PAGE_VA, USER_STACK_PAGE_VA, USER_RO_PAGE_VA,
    Image,       \* the pages that the ELF image's segments cover: a sequence
                 \* of records va, flags and words
    Values,      \* bound: what a program stores
    StoreSlots,  \* bound: the words of a page it stores to
    MaxCalls     \* bound: how many fork, exec and exit calls are made

UserPages == {USER_RW_PAGE_VA, USER_STACK_PAGE_VA, USER_RO_PAGE_VA}

ImagePages == {Image[i].va : i \in DOMAIN Image}

\* The virtual pages of the boot program, and of a loaded image.
BootVas  == TextStart .. TextEnd - 1 \cup RodataStart .. RodataEnd - 1 \cup UserPages
ImageVas == ImagePages \cup {USER_STACK_PAGE_VA}

\* The linker script orders the sections, user_layout.h the pages, and
\* validate_exec_image keeps the image off the latter and off the guard page;
\* the segments of the embedded image are readable.
ASSUME MemoryAssumption ==
    /\ {TextStart, TextEnd, RodataStart, RodataEnd} \subseteq Nat
    /\ RamStart <= TextStart /\ TextStart < TextEnd
    /\ TextEnd <= RodataStart /\ RodataStart < RodataEnd /\ RodataEnd <= KernelEnd
    /\ UserPages \cup ImagePages \subseteq 0 .. RamStart - 1
    /\ USER_RW_PAGE_VA # USER_STACK_PAGE_VA /\ USER_RW_PAGE_VA # USER_RO_PAGE_VA
    /\ USER_STACK_PAGE_VA # USER_RO_PAGE_VA
    /\ Image \in Seq([va : Nat, flags : SUBSET PteFlags, words : [Slots -> Word]])
    /\ ImagePages \cap (UserPages \cup {USER_STACK_PAGE_VA - 1}) = {}
    /\ \A i, j \in DOMAIN Image : Image[i].va = Image[j].va => i = j
    /\ \A i \in DOMAIN Image : {"R", "U", "V"} \subseteq Image[i].flags
    /\ KERNEL_WORD \in Int /\ Values \subseteq Int \ {0}
    /\ StoreSlots \subseteq Slots /\ MaxCalls \in Nat

VARIABLES
    m,            \* physical memory and the allocator
    task_states,
    satp,         \* tasks[].satp, the top-level page table of each slot
    calls         \* how many calls have been made

vars == <<m, task_states, satp, calls>>

-----------------------------------------------------------------------------
(***************************************************************************)
(* Building an address space.                                              *)
(***************************************************************************)

\* alloc_page, then map_page of the new page.
MapNewPage(mem, pgd, va, flags) == MapPage(AllocPage(mem), pgd, va, mem.free_list, flags)

\* map_user_stack.  The page below stays unmapped as a guard.
MapUserStack(mem, pgd, stack) ==
    MapPage(mem, pgd, USER_STACK_PAGE_VA, stack, {"R", "W", "U", "V"})

\* Mutant: .text and .rodata are mapped in one go, writable.
BugInitUserAddressSpace(mem, pgd, stack) ==
    LET image == MapRange(mem, pgd, TextStart, RodataEnd - 1, {"R", "W", "X", "U", "V"})
        rw    == MapNewPage(MapUserStack(image, pgd, stack), pgd,
                            USER_RW_PAGE_VA, {"R", "W", "U", "V"})
    IN  MapNewPage(rw, pgd, USER_RO_PAGE_VA, {"R", "U", "V"})

\* init_user_address_space
InitUserAddressSpace(mem, pgd, stack) ==
    LET text   == MapRange(mem, pgd, TextStart, TextEnd - 1, {"R", "X", "U", "V"})
        rodata == MapRange(text, pgd, RodataStart, RodataEnd - 1, {"R", "U", "V"})
        rw     == MapNewPage(MapUserStack(rodata, pgd, stack), pgd,
                             USER_RW_PAGE_VA, {"R", "W", "U", "V"})
    IN  MapNewPage(rw, pgd, USER_RO_PAGE_VA, {"R", "U", "V"})

\* task_init: the page table is mem.free_list.
TaskInit(mem) ==
    LET pgd   == mem.free_list
        stack == AllocPage(mem).free_list
    IN  InitUserAddressSpace(AllocPage(AllocPage(mem)), pgd, stack)

\* The loading loop of task_exec, one page of the image.
LoadPage(mem, pgd, page) ==
    LET filled == IF mem.free_list = 0 THEN AllocPage(mem)
                  ELSE [AllocPage(mem) EXCEPT !.ram[mem.free_list] = page.words]
    IN  MapPage(filled, pgd, page.va, mem.free_list, page.flags)

\* task_exec up to the installation of the new page table, mem.free_list.
LoadImage(mem) ==
    LET pgd   == mem.free_list
        stack == AllocPage(mem).free_list
    IN  Loop(LAMBDA acc, k : LoadPage(acc, pgd, Image[k + 1]),
             MapUserStack(AllocPage(AllocPage(mem)), pgd, stack), Len(Image))

-----------------------------------------------------------------------------
(***************************************************************************)
(* os_main: page_init, mmu_init, task_init(0, task_shell).  RAM holds      *)
(* nothing of interest before, except the kernel image.  A machine without *)
(* the memory for this comes to no task.                                   *)
(***************************************************************************)
Booted ==
    LET ram == [p \in RamPages |-> IF p < KernelEnd
                                   THEN [i \in Slots |-> Plain(KERNEL_WORD)]
                                   ELSE ZeroPage]
    IN  MmuInit(PageInit([ram |-> ram, free_list |-> 0, stuck |-> FALSE]))

Init ==
    /\ m = TaskInit(Booted)
    /\ satp = [t \in Task |-> IF t = 0 /\ ~m.stuck THEN Booted.free_list ELSE 0]
    /\ task_states = [t \in Task |-> IF t = 0 /\ ~m.stuck THEN TASK_READY ELSE TASK_DEAD]
    /\ calls = 0

Live == {t \in Task : task_states[t] # TASK_DEAD}

\* A store that the hart lets a user program make: through a leaf with U and W.
Store(t, va, i, v) ==
    LET pte == LeafPte(m, satp[t], va) IN
    /\ {"V", "U", "W"} \subseteq Flags(pte)
    /\ m' = SetWord(m, PteToPa(pte), i, Plain(v))
    /\ UNCHANGED <<task_states, satp, calls>>

\* Each call is one of at most MaxCalls.
Call ==
    /\ calls < MaxCalls
    /\ calls' = calls + 1

(***************************************************************************)
(* task_fork: a full table refuses the call; a copy without a stack page   *)
(* would refuse it too, after the copying.  A machine that ran out of      *)
(* memory during the copying changes no task.                              *)
(***************************************************************************)
Fork(t) ==
    LET child  == AllocTaskSlot(task_states)
        copied == CopyUserPageTable(m, root_page_table, satp[t])
        pgd    == m.free_list
    IN  /\ Call
        /\ child # -1
        /\ m' = copied
        /\ IF ~copied.stuck /\ Valid(LeafPte(copied, pgd, USER_STACK_PAGE_VA))
           THEN /\ satp' = [satp EXCEPT ![child] = pgd]
                /\ task_states' = [task_states EXCEPT ![child] = TASK_READY]
           ELSE UNCHANGED <<satp, task_states>>

\* Mutant: the old page table is not reclaimed when the image replaces it.
BugExec(t) ==
    LET loaded == LoadImage(m) IN
    /\ Call
    /\ m' = loaded
    /\ satp' = IF loaded.stuck THEN satp ELSE [satp EXCEPT ![t] = m.free_list]
    /\ UNCHANGED task_states

\* Mutant: the old page table is freed to make room for the new one.
BugExecFreesFirst(t) ==
    LET freed  == FreeUserPageTable(m, root_page_table, satp[t])
        loaded == LoadImage(freed)
    IN  /\ Call
        /\ m' = loaded
        /\ satp' = IF loaded.stuck THEN satp ELSE [satp EXCEPT ![t] = freed.free_list]
        /\ UNCHANGED task_states

\* task_exec of a valid image: load it, install it, free the old page table.
Exec(t) ==
    LET loaded == LoadImage(m) IN
    /\ Call
    /\ m' = FreeUserPageTable(loaded, root_page_table, satp[t])
    /\ satp' = IF loaded.stuck THEN satp ELSE [satp EXCEPT ![t] = m.free_list]
    /\ UNCHANGED task_states

\* task_exit.  The dead slot keeps its stale satp.
Exit(t) ==
    /\ Call
    /\ m' = FreeUserPageTable(m, root_page_table, satp[t])
    /\ task_states' = [task_states EXCEPT ![t] = TASK_DEAD]
    /\ UNCHANGED satp

Next ==
    /\ ~m.stuck
    /\ \E t \in Live :
        \/ \E va \in Mapped(m, satp[t]), i \in StoreSlots, v \in Values :
             Store(t, va, i, v)
        \/ Fork(t)
        \/ Exec(t)
        \/ Exit(t)

Spec == Init /\ [][Next]_vars

-----------------------------------------------------------------------------
(***************************************************************************)
(* What is where.                                                          *)
(***************************************************************************)

\* Every reference to a page of the allocator from the page table of a live
\* task, as a path and the page at its end: the table itself, the tables below
\* it, and the leaves that are not part of the kernel image.
TableReferences(t) ==
    {<<<<>>, satp[t]>>}
    \cup {<<<<p[1]>>, p[2]>> : p \in Pmds(m, satp[t])}
    \cup {<<<<l[1], l[2]>>, l[3]>> : l \in LeafTables(m, satp[t])}

DataReferences(t) ==
    {r \in {<<<<l[1], l[2], l[3]>>, PteToPa(l[4])>> : l \in Leaves(m, satp[t])} :
        r[2] >= KernelEnd}

TablePages(t) == {r[2] : r \in TableReferences(t)}
DataPages(t)  == {r[2] : r \in DataReferences(t)}
TaskPages(t)  == TablePages(t) \cup DataPages(t)

\* The tables of the kernel's own page table.
KernelTables ==
    {root_page_table} \cup {p[2] : p \in Pmds(m, root_page_table)}
                      \cup {t[3] : t \in LeafTables(m, root_page_table)}

FreePages == {FreeListNodes(m)[k] : k \in 0 .. RamEnd - KernelEnd} \ {0}

-----------------------------------------------------------------------------
(***************************************************************************)
(* Properties.                                                             *)
(***************************************************************************)

\* Memory is made of words, and a live slot's satp is a page the allocator
\* gave away, the top of a tree of page tables that the hardware reads as the
\* kernel does (page.c, mmu.h).
TypeOK ==
    /\ DOMAIN m = {"ram", "free_list", "stuck"}
    /\ DOMAIN m.ram = RamPages
    /\ \A p \in RamPages :
          /\ DOMAIN m.ram[p] = Slots
          /\ \A i \in Slots : m.ram[p][i][1] \in Int /\ Flags(m.ram[p][i]) \subseteq PteFlags
    /\ m.free_list \in ManagedPages \cup {0}
    /\ m.stuck \in BOOLEAN
    /\ task_states \in [Task -> {TASK_READY, TASK_DEAD}]
    /\ satp \in [Task -> ManagedPages \cup {0}]
    /\ calls \in 0 .. MaxCalls
    /\ \A t \in Live : WellFormed(m, satp[t])

\* No page has two uses, in any state: no two places of page tables refer to
\* the same page, and none of these pages is on the free list or belongs to
\* the kernel's page table (free_user_page_table frees every page once,
\* copy_user_page_table shares none, map_page never overwrites a live entry).
NoPageSharedOrFreeInUse ==
    /\ \A t \in Live :
        /\ \A r, s \in TableReferences(t) \cup DataReferences(t) : r[2] = s[2] => r = s
        /\ TaskPages(t) \cap (FreePages \cup KernelTables) = {}
    /\ \A t, u \in Live : t # u => TaskPages(t) \cap TaskPages(u) = {}
    /\ FreePages \cap KernelTables = {}

\* While the machine works, every page the allocator manages is on the free
\* list or in use: whatever calls are made in whatever order, none is lost, so
\* exit and exec recover all that fork and exec took (the "Recovered %d pages"
\* of task_exit, task.c:142).
NoPageLost ==
    ~m.stuck =>
        ManagedPages = FreePages \cup KernelTables \cup UNION {TaskPages(t) : t \in Live}

\* A list of free pages ends: following it never comes back to a page.  A page
\* freed twice would make a cycle, and alloc_page hand it out for ever.
FreeListEnds ==
    /\ FreeListNodes(m)[RamEnd - KernelEnd] = 0
    /\ FreePages \subseteq ManagedPages

\* The pages of a tree that maps A, if every leaf has a page of its own: the top,
\* the tables below it and the leaves.
PagesFor(A) == 1 + TablesFor(A) + Cardinality(A)

\* Memory for the kernel's own tables, for a program in every slot, and for one
\* more image: task_exec builds the new tree before it frees the old one.
EnoughMemory ==
    \A A \in {BootVas, ImageVas} :
        1 + TablesFor(KernelVas) + MAX_TASKS * PagesFor(A) + PagesFor(ImageVas)
            <= Cardinality(ManagedPages)

\* Memory of that size is enough for ever: alloc_page never finds the list empty
\* (page.c:63), whatever is called in whatever order and however often slots are
\* reused.
NeverStuck == EnoughMemory => ~m.stuck

\* A program can write no page of the kernel image and no page table, not even
\* of its own: everything it has write access to is a page of data that is its
\* own.  The kernel maps .text and .rodata of its image for the boot program
\* without PTE_W (task.c:54-55).  The store that do_sys_read makes in machine mode
\* (trap_handler.c:37) passes no page table and is in module Kernel.
WritesOnlyOwnData ==
    \A t \in Live : \A l \in Leaves(m, satp[t]) :
        {"U", "W"} \subseteq Flags(l[4]) =>
            PteToPa(l[4]) \in DataPages(t) \ TablePages(t)

-----------------------------------------------------------------------------
(***************************************************************************)
(* Refinement: to the programs this is one address space per task.         *)
(***************************************************************************)

ViewOf(flags, words) == [flags |-> flags, words |-> words]

AddressSpace(t) ==
    [va \in {v \in Mapped(m, satp[t]) : "U" \in Flags(LeafPte(m, satp[t], v))} |->
        LET pte == LeafPte(m, satp[t], va) IN
        ViewOf(Flags(pte), m.ram[PteToPa(pte)])]

KernelView(flags) ==
    ViewOf(flags \cup {"U", "V", "A", "D"}, [i \in Slots |-> Plain(KERNEL_WORD)])
FreshView(flags) == ViewOf(flags \cup {"U", "V", "A", "D"}, ZeroPage)

\* The boot program sees the kernel's text and constants and three pages of
\* its own.
BootSpace ==
    [va \in BootVas |->
        IF va \in TextStart .. TextEnd - 1 THEN KernelView({"R", "X"})
        ELSE IF va \in RodataStart .. RodataEnd - 1 THEN KernelView({"R"})
        ELSE IF va = USER_RO_PAGE_VA THEN FreshView({"R"})
        ELSE FreshView({"R", "W"})]

\* A loaded image sees its own pages and a zeroed stack.
ImageSpace ==
    [va \in ImageVas |->
        IF va = USER_STACK_PAGE_VA THEN FreshView({"R", "W"})
        ELSE LET i == CHOOSE j \in DOMAIN Image : Image[j].va = va
             IN  ViewOf(Image[i].flags \cup {"A", "D"}, Image[i].words)]

NoSpace == [va \in {} |-> 0]

Abstract == INSTANCE AddressSpaces WITH
    space <- [t \in Task |-> IF t \in Live THEN AddressSpace(t) ELSE NoSpace]

\* Every task has an address space of its own that only its own stores, exec
\* and exit change and that fork copies (mmu.c, task.c, exec.c): no step of one
\* task shows in the memory of another, new pages hold nothing of old ones, and
\* a machine that runs out of memory part of the way shows nothing at all.
ImplementsAddressSpaces == Abstract!Spec
=============================================================================
