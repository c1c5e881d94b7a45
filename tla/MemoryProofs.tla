---------------------------- MODULE MemoryProofs ----------------------------
(***************************************************************************)
(* Theorems about module Memory, for every number of tasks, page size,     *)
(* memory, layout and image: every page has one use, none is lost, the     *)
(* free list ends, programs write nothing but data of their own, and each  *)
(* of them sees an address space of its own (module AddressSpaces).        *)
(*                                                                         *)
(* None of this is inductive by itself.  The invariant says that there is  *)
(* an account of the use of every page (module PageUse) which agrees with  *)
(* the words in memory, and that the live tasks have the trees in it.      *)
(***************************************************************************)
EXTENDS Memory, SchedProofs, PageTableProofs, FiniteSetTheorems

(***************************************************************************)
(* Where the linker script and user_layout.h put the pages: the kernel's   *)
(* text and constants are pages of its image, and apart, and every page    *)
(* that a task maps has a virtual page number of three slots.              *)
(***************************************************************************)
LEMMA LayoutFacts ==
    /\ TextStart \in Nat /\ TextEnd - 1 \in Nat /\ TextStart <= TextEnd - 1
    /\ RodataStart \in Nat /\ RodataEnd - 1 \in Nat /\ RodataStart <= RodataEnd - 1
    /\ \A v \in TextStart .. TextEnd - 1 : v \in ImageFrames
    /\ \A v \in RodataStart .. RodataEnd - 1 :
          v \in ImageFrames /\ v \notin TextStart .. TextEnd - 1
    /\ \A v \in UserPages \cup ImagePages :
          v \in VirtualPages /\ v \notin TextStart .. TextEnd - 1
                             /\ v \notin RodataStart .. RodataEnd - 1
<1>1. RamStart \in Nat /\ KernelEnd \in Nat /\ RamEnd \in Nat /\ RamStart < RamEnd
  BY PageTablesAssumption
<1>2. TextStart \in Int /\ TextEnd \in Int /\ RodataStart \in Int /\ RodataEnd \in Int
  BY MemoryAssumption
<1>3. /\ RamStart <= TextStart /\ TextStart < TextEnd
      /\ TextEnd <= RodataStart /\ RodataStart < RodataEnd /\ RodataEnd <= KernelEnd
  BY MemoryAssumption
<1>4. ASSUME NEW v \in UserPages \cup ImagePages
      PROVE  v \in VirtualPages /\ v \in Int /\ v < RamStart
  <2>1. v \in 0 .. RamStart - 1
    BY MemoryAssumption
  <2> QED
    BY <1>1, <2>1, PageTablesAssumption DEF VirtualPages
<1> QED
  BY <1>1, <1>2, <1>3, <1>4 DEF ImageFrames

(***************************************************************************)
(* The address spaces of the boot program and of a loaded image, page by   *)
(* page, as map_page is asked for them.                                    *)
(***************************************************************************)
KernelPage == [i \in Slots |-> Plain(KERNEL_WORD)]

LEMMA BootSpaceIs ==
    /\ DOMAIN BootSpace =
          TextStart .. TextEnd - 1 \cup RodataStart .. RodataEnd - 1 \cup UserPages
    /\ \A v \in TextStart .. TextEnd - 1 :
          BootSpace[v] = ViewOf({"R", "X", "U", "V"} \cup {"A", "D"}, KernelPage)
    /\ \A v \in RodataStart .. RodataEnd - 1 :
          BootSpace[v] = ViewOf({"R", "U", "V"} \cup {"A", "D"}, KernelPage)
    /\ \A v \in {USER_STACK_PAGE_VA, USER_RW_PAGE_VA} :
          BootSpace[v] = ViewOf({"R", "W", "U", "V"} \cup {"A", "D"}, ZeroPage)
    /\ BootSpace[USER_RO_PAGE_VA] = ViewOf({"R", "U", "V"} \cup {"A", "D"}, ZeroPage)
<1> DEFINE T == TextStart .. TextEnd - 1
           R == RodataStart .. RodataEnd - 1
<1>1. /\ {"R", "X"} \cup {"U", "V", "A", "D"} = {"R", "X", "U", "V"} \cup {"A", "D"}
      /\ {"R"} \cup {"U", "V", "A", "D"} = {"R", "U", "V"} \cup {"A", "D"}
      /\ {"R", "W"} \cup {"U", "V", "A", "D"} = {"R", "W", "U", "V"} \cup {"A", "D"}
  OBVIOUS
<1>2. /\ \A v \in R : v \notin T
      /\ \A v \in UserPages : v \notin T /\ v \notin R
  BY LayoutFacts
<1>3. UserPages = {USER_RW_PAGE_VA, USER_STACK_PAGE_VA, USER_RO_PAGE_VA}
      /\ USER_RW_PAGE_VA # USER_RO_PAGE_VA /\ USER_STACK_PAGE_VA # USER_RO_PAGE_VA
  BY MemoryAssumption DEF UserPages
<1> HIDE DEF T, R
<1>4. BootSpace = [va \in T \cup R \cup UserPages |->
          IF va \in T THEN KernelView({"R", "X"})
          ELSE IF va \in R THEN KernelView({"R"})
          ELSE IF va = USER_RO_PAGE_VA THEN FreshView({"R"})
          ELSE FreshView({"R", "W"})]
  BY DEF BootSpace, BootVas, T, R
<1>5. \A v \in T : BootSpace[v] = KernelView({"R", "X"})
  BY <1>4
<1>6. \A v \in R : BootSpace[v] = KernelView({"R"})
  BY <1>2, <1>4
<1>7. /\ \A v \in {USER_STACK_PAGE_VA, USER_RW_PAGE_VA} : BootSpace[v] = FreshView({"R", "W"})
      /\ BootSpace[USER_RO_PAGE_VA] = FreshView({"R"})
  BY <1>2, <1>3, <1>4
<1>8. DOMAIN BootSpace = T \cup R \cup UserPages
  BY <1>4
<1> QED
  BY <1>1, <1>5, <1>6, <1>7, <1>8 DEF KernelView, FreshView, KernelPage, T, R

\* Each page of the image is a page of it.
LEMMA ImageIs ==
    ASSUME NEW i \in DOMAIN Image
    PROVE  /\ Image[i].words \in [Slots -> Word]
           /\ Image[i].flags \in SUBSET PteFlags /\ {"R", "U", "V"} \subseteq Image[i].flags
           /\ Image[i].va \in ImagePages /\ Image[i].va \in VirtualPages
           /\ Image[i].va # USER_STACK_PAGE_VA
<1> DEFINE Page == [va : Nat, flags : SUBSET PteFlags, words : [Slots -> Word]]
<1>1. Image \in Seq(Page)
  BY MemoryAssumption
<1> HIDE DEF Page
<1>2. Image[i] \in Page
  BY <1>1
<1>3. Image[i].va \in ImagePages
  BY DEF ImagePages
<1>4. Image[i].va # USER_STACK_PAGE_VA
  BY <1>3, MemoryAssumption DEF UserPages
<1>5. {"R", "U", "V"} \subseteq Image[i].flags
  BY MemoryAssumption
<1>6. Image[i].va \in VirtualPages
  BY <1>3, LayoutFacts
<1> QED
  BY <1>2, <1>3, <1>4, <1>5, <1>6 DEF Page

\* The address space of a loaded image.
LEMMA ImageSpaceIs ==
    /\ DOMAIN ImageSpace = ImagePages \cup {USER_STACK_PAGE_VA}
    /\ ImageSpace[USER_STACK_PAGE_VA] =
          ViewOf({"R", "W", "U", "V"} \cup {"A", "D"}, ZeroPage)
    /\ \A i \in DOMAIN Image :
          ImageSpace[Image[i].va] = ViewOf(Image[i].flags \cup {"A", "D"}, Image[i].words)
<1> DEFINE At(va) == CHOOSE j \in DOMAIN Image : Image[j].va = va
<1>1. ImageSpace = [va \in ImagePages \cup {USER_STACK_PAGE_VA} |->
          IF va = USER_STACK_PAGE_VA THEN FreshView({"R", "W"})
          ELSE ViewOf(Image[At(va)].flags \cup {"A", "D"}, Image[At(va)].words)]
  BY DEF ImageSpace, ImageVas
<1>2. ASSUME NEW i \in DOMAIN Image
      PROVE  At(Image[i].va) = i
  <2>1. At(Image[i].va) \in DOMAIN Image /\ Image[At(Image[i].va)].va = Image[i].va
    OBVIOUS
  <2> HIDE DEF At
  <2> QED
    BY <2>1, MemoryAssumption
<1> HIDE DEF At
<1>3. ASSUME NEW i \in DOMAIN Image
      PROVE  ImageSpace[Image[i].va] = ViewOf(Image[i].flags \cup {"A", "D"}, Image[i].words)
  BY <1>1, <1>2, ImageIs
<1>4. {"R", "W"} \cup {"U", "V", "A", "D"} = {"R", "W", "U", "V"} \cup {"A", "D"}
  OBVIOUS
<1>5. ImageSpace[USER_STACK_PAGE_VA] = FreshView({"R", "W"})
  BY <1>1
<1> QED
  BY <1>1, <1>3, <1>4, <1>5 DEF FreshView

\* The virtual pages of the two.
LEMMA SpaceVas == DOMAIN BootSpace = BootVas /\ DOMAIN ImageSpace = ImageVas
BY BootSpaceIs, ImageSpaceIs DEF BootVas, ImageVas

\* Either consists of user pages of three slots, the stack among them.
LEMMA SpacesMade ==
    ASSUME NEW f \in {BootSpace, ImageSpace}
    PROVE  /\ USER_STACK_PAGE_VA \in DOMAIN f
           /\ \A v \in DOMAIN f : v \in VirtualPages /\ "U" \in f[v].flags
<1>1. ASSUME NEW v \in DOMAIN BootSpace
      PROVE  v \in VirtualPages /\ "U" \in BootSpace[v].flags
  <2>1. v \in ImageFrames => v \in VirtualPages
    BY PageTablesAssumption DEF VirtualPages, ImageFrames
  <2>2. v \in VirtualPages
    BY <2>1, BootSpaceIs, LayoutFacts
  <2>3. \/ v \in TextStart .. TextEnd - 1
        \/ v \in RodataStart .. RodataEnd - 1
        \/ v \in {USER_STACK_PAGE_VA, USER_RW_PAGE_VA}
        \/ v = USER_RO_PAGE_VA
    BY BootSpaceIs DEF UserPages
  <2> QED
    BY <2>2, <2>3, BootSpaceIs DEF ViewOf
<1>2. ASSUME NEW v \in DOMAIN ImageSpace
      PROVE  v \in VirtualPages /\ "U" \in ImageSpace[v].flags
  <2>1. v = USER_STACK_PAGE_VA \/ \E i \in DOMAIN Image : v = Image[i].va
    BY ImageSpaceIs DEF ImagePages
  <2>2. CASE v = USER_STACK_PAGE_VA
    BY <2>2, ImageSpaceIs, LayoutFacts DEF ViewOf, UserPages
  <2>3. CASE \E i \in DOMAIN Image : v = Image[i].va
    <3>1. PICK i \in DOMAIN Image : v = Image[i].va
      BY <2>3
    <3>2. ImageSpace[v] = ViewOf(Image[i].flags \cup {"A", "D"}, Image[i].words)
      BY <3>1, ImageSpaceIs
    <3>3. ImageSpace[v].flags = Image[i].flags \cup {"A", "D"}
      BY <3>2 DEF ViewOf
    <3> QED
      BY <3>1, <3>3, ImageIs
  <2> QED
    BY <2>1, <2>2, <2>3
<1> QED
  BY <1>1, <1>2, BootSpaceIs, ImageSpaceIs DEF UserPages

(***************************************************************************)
(* What a page table shows of a memory: a view of each virtual page.       *)
(***************************************************************************)
View(mem, g, v) ==
    LET pte == LeafPte(mem, g, v) IN ViewOf(Flags(pte), mem.ram[PteToPa(pte)])

\* The data of tree g, and the kernel image, are as they were.
DataKept(mem, use, m2, g) ==
    /\ \A p \in ManagedPages : use[p].lv = 0 /\ use[p].tree = g => m2.ram[p] = mem.ram[p]
    /\ \A p \in ImageFrames : m2.ram[p] = mem.ram[p]

(***************************************************************************)
(* A leaf of a task's page table refers to a page of data of that tree, or *)
(* to a page of the kernel image that user programs cannot write.          *)
(***************************************************************************)
LEMMA LeafTarget ==
    ASSUME NEW mem, NEW use, NEW n, Heap(mem, use, n), NEW g \in ManagedPages, use[g].lv = 3,
           g # root_page_table, NEW v \in VirtualPages, Valid(LeafPte(mem, g, v))
    PROVE  LET pte == LeafPte(mem, g, v)
               q   == PteToPa(pte)
           IN  \/ q \in ManagedPages /\ use[q].lv = 0 /\ use[q].tree = g
               \/ q \in ImageFrames /\ ~({"U", "W"} \subseteq Flags(pte))
<1> DEFINE t == Low(mem, g, v)
           i == Vpn(v, 0)
<1>1. HasLow(mem, g, v)
  BY LeafPteIs DEF Plain, Valid, Flags
<1>2. LeafPte(mem, g, v) = mem.ram[t][i]
  BY <1>1, LeafPteIs
<1>3. t \in ManagedPages /\ use[t].lv = 1 /\ use[t].tree = g
  BY <1>1, WalkFacts
<1>4. i \in Slots
  BY VpnFacts
<1> HIDE DEF t, i
<1>5. EntryOK(mem, use, t, i)
  BY <1>2, <1>3, <1>4 DEF Heap, EntriesOK
<1> QED
  BY <1>2, <1>3, <1>5 DEF EntryOK, IsBelow, Below

\* A page shows the same as long as its leaf and the data are the same.
LEMMA ViewKept ==
    ASSUME NEW mem, NEW use, NEW n, Heap(mem, use, n), NEW g \in ManagedPages, use[g].lv = 3,
           g # root_page_table, NEW m2, DataKept(mem, use, m2, g),
           NEW v \in VirtualPages, Valid(LeafPte(mem, g, v)),
           LeafPte(m2, g, v) = LeafPte(mem, g, v)
    PROVE  View(m2, g, v) = View(mem, g, v)
<1> DEFINE q == PteToPa(LeafPte(mem, g, v))
<1>1. \/ q \in ManagedPages /\ use[q].lv = 0 /\ use[q].tree = g
      \/ q \in ImageFrames
  BY LeafTarget
<1>2. m2.ram[q] = mem.ram[q]
  <2> HIDE DEF q
  <2> QED
    BY <1>1 DEF DataKept
<1> QED
  BY <1>2 DEF View

(***************************************************************************)
(* A page table g being built, as it looks: the pages S that are not       *)
(* mapped yet hold the words w, and the virtual pages A show what the      *)
(* function f says.                                                        *)
(***************************************************************************)
Shows(mem, g, S, w, A, f) ==
    ~mem.stuck => /\ \A p \in S : mem.ram[p] = w
                  /\ \A v \in VirtualPages : v \in A => View(mem, g, v) = f[v]

Make(m0, use0, n0, mem, use, n, g, S, w, A, f, c) ==
    /\ Build(m0, use0, n0, mem, use, n, g, S, A, c)
    /\ Shows(mem, g, S, w, A, f)

\* Nothing that it shows is disturbed by a change of other pages.
LEMMA ViewsKept ==
    ASSUME NEW m0, NEW use0, NEW n0, NEW mem, NEW use, NEW n, NEW g, NEW S, NEW w, NEW A, NEW f,
           NEW c,
           use0[root_page_table].lv = 3,
           Make(m0, use0, n0, mem, use, n, g, S, w, A, f, c), ~mem.stuck,
           NEW m2, DataKept(mem, use, m2, g),
           NEW v \in VirtualPages, v \in A, LeafPte(m2, g, v) = LeafPte(mem, g, v)
    PROVE  View(m2, g, v) = f[v]
<1>1. Heap(mem, use, n) /\ Working(m0, use0, mem, use, g, S, A)
  BY DEF Make, Build
<1>2. g \in ManagedPages /\ use[g].lv = 3 /\ g # root_page_table /\ Valid(LeafPte(mem, g, v))
  BY <1>1 DEF Working, Mappings, FREE
<1>3. View(m2, g, v) = View(mem, g, v)
  BY <1>1, <1>2, ViewKept
<1> QED
  BY <1>3 DEF Make, Shows

\* alloc_page of the new top table.
LEMMA MakeStart ==
    ASSUME NEW mem, NEW use, NEW n, Heap(mem, use, n), ~mem.stuck, NEW f
    PROVE  \E u1, n1 : Make(mem, use, n, AllocPage(mem), u1, n1, mem.free_list, {}, ZeroPage, {},
                            f, 1)
<1>1. PICK u1, n1 : Build(mem, use, n, AllocPage(mem), u1, n1, mem.free_list, {}, {}, 1)
  BY BuildStart
<1>2. Shows(AllocPage(mem), mem.free_list, {}, ZeroPage, {}, f)
  BY DEF Shows
<1> QED
  BY <1>1, <1>2 DEF Make

\* alloc_page of a page that is not mapped yet: it is zeroed.
LEMMA MakeAlloc ==
    ASSUME NEW m0, NEW use0, NEW n0 \in Nat, NEW mem, NEW use, NEW n, NEW g, NEW A, NEW f, NEW c,
           use0[root_page_table].lv = 3,
           Make(m0, use0, n0, mem, use, n, g, {}, ZeroPage, A, f, c)
    PROVE  \E u1, n1 : Make(m0, use0, n0, AllocPage(mem), u1, n1, g, {mem.free_list}, ZeroPage, A,
                            f, c + 1)
<1> DEFINE m1 == AllocPage(mem)
           h  == mem.free_list
<1>1. Build(m0, use0, n0, mem, use, n, g, {}, A, c) /\ Heap(mem, use, n)
  BY DEF Make, Build
<1>2. PICK u1, n1 : Build(m0, use0, n0, m1, u1, n1, g, {h}, A, c + 1)
  BY <1>1, BuildAlloc
<1>3. Shows(m1, g, {h}, ZeroPage, A, f)
  <2> SUFFICES ASSUME ~m1.stuck
               PROVE  /\ m1.ram[h] = ZeroPage
                      /\ \A v \in VirtualPages : v \in A => View(m1, g, v) = f[v]
    BY DEF Shows
  <2>1. ~mem.stuck /\ h # 0
    BY <1>1, HeapOutOfMemory DEF Heap
  <2>2. /\ h \in ManagedPages /\ use[h].lv = FREE /\ m1.ram[h] = ZeroPage
        /\ \A q \in RamPages \ {h} : m1.ram[q] = mem.ram[q]
    BY <1>1, <2>1, HeapAlloc
  <2> HIDE DEF m1, h
  <2>3. DataKept(mem, use, m1, g)
    BY <2>2, PageFacts DEF DataKept, FREE
  <2>4. g \in ManagedPages /\ use[g].lv = 3
    BY <1>1, <2>1 DEF Build, Working
  <2>5. \A p \in TablesOf(use, g) : m1.ram[p] = mem.ram[p]
    BY <2>2, PageFacts DEF TablesOf, FREE
  <2>6. \A v \in VirtualPages : LeafPte(m1, g, v) = LeafPte(mem, g, v)
    BY <1>1, <2>4, <2>5, TreeLeaves
  <2>7. \A v \in VirtualPages : v \in A => View(m1, g, v) = f[v]
    BY <2>1, <2>3, <2>6, ViewsKept
  <2> QED
    BY <2>2, <2>7
<1> QED
  BY <1>2, <1>3 DEF Make

\* The bytes of the image are written to a page before it is mapped.
LEMMA MakeFill ==
    ASSUME NEW m0, NEW use0, NEW n0, NEW mem, NEW use, NEW n, NEW g, NEW p, NEW A, NEW f, NEW c,
           use0[root_page_table].lv = 3,
           Make(m0, use0, n0, mem, use, n, g, {p}, ZeroPage, A, f, c), ~mem.stuck,
           NEW words \in [Slots -> Word]
    PROVE  Make(m0, use0, n0, [mem EXCEPT !.ram[p] = words], use, n, g, {p}, words, A, f, c)
<1> DEFINE m2 == [mem EXCEPT !.ram[p] = words]
<1>1. Build(m0, use0, n0, mem, use, n, g, {p}, A, c) /\ Heap(mem, use, n)
  BY DEF Make, Build
<1>2. Build(m0, use0, n0, m2, use, n, g, {p}, A, c)
  BY <1>1, BuildFill
<1>3. /\ p \in ManagedPages /\ use[p].lv = LIMBO /\ p \in RamPages
      /\ g \in ManagedPages /\ use[g].lv = 3
  BY <1>1, PageFacts DEF Build, Working
<1>4. m2.ram[p] = words /\ \A q \in RamPages \ {p} : m2.ram[q] = mem.ram[q]
  BY <1>1, <1>3 DEF Heap, Mem
<1> HIDE DEF m2
<1>5. DataKept(mem, use, m2, g)
  BY <1>3, <1>4, PageFacts DEF DataKept, LIMBO
<1>6. \A q \in TablesOf(use, g) : m2.ram[q] = mem.ram[q]
  BY <1>3, <1>4, PageFacts DEF TablesOf, LIMBO
<1>7. \A v \in VirtualPages : LeafPte(m2, g, v) = LeafPte(mem, g, v)
  BY <1>1, <1>3, <1>6, TreeLeaves
<1>8. \A v \in VirtualPages : v \in A => View(m2, g, v) = f[v]
  BY <1>5, <1>7, ViewsKept
<1>9. Shows(m2, g, {p}, words, A, f)
  BY <1>4, <1>8 DEF Shows
<1> QED
  BY <1>2, <1>9 DEF Make, m2

\* map_page of the page that was allocated for it.
LEMMA MakeMapNew ==
    ASSUME NEW m0, NEW use0, NEW n0, Heap(m0, use0, n0), use0[root_page_table].lv = 3,
           NEW mem, NEW use, NEW n, NEW g, NEW p, NEW w, NEW A, NEW f, NEW c,
           Make(m0, use0, n0, mem, use, n, g, {p}, w, A, f, c),
           NEW va \in VirtualPages, va \notin A,
           NEW flags \in SUBSET PteFlags, {"R", "V"} \subseteq flags,
           f[va] = ViewOf(flags \cup {"A", "D"}, w)
    PROVE  \E use2, n2 : Make(m0, use0, n0, MapPage(mem, g, va, p, flags), use2, n2, g, {},
                              ZeroPage, A \cup {va}, f, c)
<1> DEFINE m2 == MapPage(mem, g, va, p, flags)
<1>1. Build(m0, use0, n0, mem, use, n, g, {p}, A, c) /\ Heap(mem, use, n)
  BY DEF Make, Build
<1>2. PICK use2, n2 : Build(m0, use0, n0, m2, use2, n2, g, {}, A \cup {va}, c)
  BY <1>1, BuildMapNew
<1>3. Shows(m2, g, {}, ZeroPage, A \cup {va}, f)
  <2>1. CASE mem.stuck
    <3>1. m2 = mem
      BY <2>1, MapPageStuck
    <3> QED
      BY <2>1, <3>1 DEF Shows
  <2>2. CASE ~mem.stuck
    <3>1. Working(m0, use0, mem, use, g, {p}, A)
      BY <1>1, <2>2 DEF Build
    <3>2. /\ g \in ManagedPages /\ use[g].lv = 3 /\ g # root_page_table
          /\ p \in ManagedPages /\ use[p].lv = LIMBO /\ p \in Int
      BY <3>1, PageFacts DEF Working, FREE
    <3>3. MayMap(mem, use, g, va, p, flags)
      BY <3>1, <3>2 DEF MayMap, Working, Mappings
    <3>4. PICK u2, k2 : MapPageDone(mem, use, n, m2, u2, k2, g, va, p, flags)
      BY <1>1, <2>2, <3>2, <3>3, MapPageHeap
    <3> HIDE DEF m2
    <3> SUFFICES ASSUME ~m2.stuck
                 PROVE  \A v \in VirtualPages : v \in A \cup {va} => View(m2, g, v) = f[v]
      BY DEF Shows
    <3>5. /\ Ext(mem, use, m2, u2, TablesOf(use, g), {p})
          /\ LeafPte(m2, g, va) = PaToPte(p, flags \cup {"A", "D"})
          /\ OtherLeaves(mem, use, m2, g, va)
      BY <3>2, <3>4 DEF MapPageDone
    <3>6. \A q \in RamPages : q \in TablesOf(use, g) \/ (q \in ManagedPages /\ use[q].lv = FREE)
                              \/ m2.ram[q] = mem.ram[q]
      BY <3>5 DEF Ext
    <3>7. DataKept(mem, use, m2, g)
      BY <3>6, PageFacts DEF DataKept, TablesOf, FREE
    <3>8. m2.ram[p] = w
      <4>1. m2.ram[p] = mem.ram[p]
        BY <3>2, <3>6, PageFacts DEF TablesOf, FREE, LIMBO
      <4> QED
        BY <2>2, <4>1 DEF Make, Shows
    <3>9. ASSUME NEW v \in VirtualPages, v \in A
          PROVE  View(m2, g, v) = f[v]
      <4>1. LeafPte(m2, g, v) = LeafPte(mem, g, v)
        BY <3>2, <3>5, <3>9 DEF OtherLeaves
      <4> QED
        BY <2>2, <3>7, <3>9, <4>1, ViewsKept
    <3>10. View(m2, g, va) = f[va]
      BY <3>5, <3>8 DEF View, PaToPte, Flags, PteToPa
    <3> QED
      BY <3>9, <3>10
  <2> QED
    BY <2>1, <2>2
<1> QED
  BY <1>2, <1>3 DEF Make

\* map_range of pages of the kernel image, which are never the allocator's.
LEMMA MakeMapImage ==
    ASSUME NEW m0, NEW use0, NEW n0, Heap(m0, use0, n0), use0[root_page_table].lv = 3,
           NEW mem, NEW use, NEW n, NEW g, NEW S, NEW w, NEW A, NEW f, NEW c,
           Make(m0, use0, n0, mem, use, n, g, S, w, A, f, c),
           NEW first \in Nat, NEW last \in Nat, first <= last,
           \A v \in first .. last : v \in ImageFrames /\ v \notin A,
           NEW flags \in SUBSET PteFlags, {"R", "V"} \subseteq flags, "W" \notin flags,
           \A v \in first .. last : f[v] = ViewOf(flags \cup {"A", "D"}, m0.ram[v])
    PROVE  \E use2, n2 : Make(m0, use0, n0, MapRange(mem, g, first, last, flags), use2, n2, g, S, w,
                              A \cup (first .. last), f, c)
<1> DEFINE m2 == MapRange(mem, g, first, last, flags)
           B  == A \cup (first .. last)
<1>1. Build(m0, use0, n0, mem, use, n, g, S, A, c) /\ Heap(mem, use, n) /\ Grown(m0, use0, mem, use)
  BY DEF Make, Build
<1>2. PICK use2, n2 : Build(m0, use0, n0, m2, use2, n2, g, S, B, c)
  BY <1>1, BuildMapImage
<1>3. Shows(m2, g, S, w, B, f)
  <2>1. CASE mem.stuck
    <3>1. m2 = mem
      BY <2>1, MapRangeStuck
    <3> QED
      BY <2>1, <3>1 DEF Shows
  <2>2. CASE ~mem.stuck
    <3>1. Working(m0, use0, mem, use, g, S, A)
      BY <1>1, <2>2 DEF Build
    <3>2. g \in ManagedPages /\ use[g].lv = 3 /\ g # root_page_table
      BY <3>1 DEF Working, FREE
    <3>3. MayMapRange(mem, use, g, first, last, flags)
      <4> SUFFICES ASSUME NEW v \in first .. last
                   PROVE  MayMap(mem, use, g, v, v, flags) /\ v \in ImageFrames
        BY DEF MayMapRange
      <4>1. v \in ImageFrames /\ v \notin A /\ v \in Int
        OBVIOUS
      <4>2. v \in VirtualPages
        BY <4>1, PageTablesAssumption DEF VirtualPages, ImageFrames
      <4> QED
        BY <3>1, <4>1, <4>2 DEF MayMap, Working, Mappings
    <3>4. PICK u2, k2 : RangeDone(mem, use, n, m2, u2, k2, g, first, last - first + 1, flags)
      BY <1>1, <2>2, <3>2, <3>3, MapRangeHeap
    <3> HIDE DEF m2
    <3> SUFFICES ASSUME ~m2.stuck
                 PROVE  /\ \A p \in S : m2.ram[p] = w
                        /\ \A v \in VirtualPages : v \in B => View(m2, g, v) = f[v]
      BY DEF Shows
    <3>5. first .. first + (last - first + 1) - 1 = first .. last
      OBVIOUS
    <3>6. /\ Ext(mem, use, m2, u2, TablesOf(use, g), {})
          /\ \A v \in VirtualPages : v \notin first .. last =>
                LeafPte(m2, g, v) = LeafPte(mem, g, v)
          /\ \A v \in first .. last : LeafPte(m2, g, v) = PaToPte(v, flags \cup {"A", "D"})
      BY <3>2, <3>4, <3>5 DEF RangeDone
    <3>7. \A q \in RamPages : q \in TablesOf(use, g) \/ (q \in ManagedPages /\ use[q].lv = FREE)
                              \/ m2.ram[q] = mem.ram[q]
      BY <3>6 DEF Ext
    <3>8. DataKept(mem, use, m2, g)
      BY <3>7, PageFacts DEF DataKept, TablesOf, FREE
    <3>9. ASSUME NEW p \in S
          PROVE  m2.ram[p] = w
      <4>1. p \in ManagedPages /\ use[p].lv = LIMBO
        BY <3>1 DEF Working
      <4>2. m2.ram[p] = mem.ram[p]
        BY <3>7, <4>1, PageFacts DEF TablesOf, FREE, LIMBO
      <4> QED
        BY <2>2, <4>2 DEF Make, Shows
    <3>10. ASSUME NEW v \in VirtualPages, v \in B
           PROVE  View(m2, g, v) = f[v]
      <4>1. CASE v \in first .. last
        <5>1. m2.ram[v] = m0.ram[v]
          <6>1. v \in ImageFrames /\ v \in RamPages /\ v \notin ManagedPages
            BY <4>1, PageFacts
          <6> QED
            BY <1>1, <3>8, <6>1 DEF Grown, DataKept
        <5>2. f[v] = ViewOf(flags \cup {"A", "D"}, m0.ram[v])
          BY <4>1
        <5>3. LeafPte(m2, g, v) = PaToPte(v, flags \cup {"A", "D"})
          BY <3>6, <4>1
        <5> QED
          BY <5>1, <5>2, <5>3 DEF View, PaToPte, Flags, PteToPa
      <4>2. CASE v \notin first .. last
        <5>1. LeafPte(m2, g, v) = LeafPte(mem, g, v) /\ v \in A
          BY <3>6, <3>10, <4>2
        <5> QED
          BY <2>2, <3>8, <5>1, ViewsKept
      <4> QED
        BY <4>1, <4>2
    <3> QED
      BY <3>9, <3>10
  <2> QED
    BY <2>1, <2>2
<1> QED
  BY <1>2, <1>3 DEF Make

(***************************************************************************)
(* alloc_page and map_page of a fresh page.                                *)
(***************************************************************************)
LEMMA MapNewPageMakes ==
    ASSUME NEW m0, NEW use0, NEW n0, Heap(m0, use0, n0), use0[root_page_table].lv = 3,
           NEW mem, NEW use, NEW n, NEW g, NEW A, NEW f, NEW c,
           Make(m0, use0, n0, mem, use, n, g, {}, ZeroPage, A, f, c),
           NEW va \in VirtualPages, va \notin A,
           NEW flags \in SUBSET PteFlags, {"R", "V"} \subseteq flags,
           f[va] = ViewOf(flags \cup {"A", "D"}, ZeroPage)
    PROVE  \E u2, n2 : Make(m0, use0, n0, MapNewPage(mem, g, va, flags), u2, n2, g, {}, ZeroPage,
                            A \cup {va}, f, c + 1)
<1>0. n0 \in Nat
  BY DEF Heap, FreeListOK
<1>1. PICK u1, n1 : Make(m0, use0, n0, AllocPage(mem), u1, n1, g, {mem.free_list}, ZeroPage, A, f,
                         c + 1)
  BY <1>0, MakeAlloc
<1>2. \E u2, n2 : Make(m0, use0, n0, MapPage(AllocPage(mem), g, va, mem.free_list, flags),
                       u2, n2, g, {}, ZeroPage, A \cup {va}, f, c + 1)
  BY <1>1, MakeMapNew
<1> QED
  BY <1>2 DEF MapNewPage

(***************************************************************************)
(* A new page table g that shows the address space f, with all its pages   *)
(* taken from the free list of m0.                                         *)
(***************************************************************************)
NewSpace(m0, use0, n0, m2, use2, n2, g, f, c) ==
    Make(m0, use0, n0, m2, use2, n2, g, {}, ZeroPage, DOMAIN f, f, c)

(***************************************************************************)
(* task_init (task.c:112) builds the address space of the boot program; on *)
(* a machine that is stuck it does nothing.                                *)
(***************************************************************************)
LEMMA TaskInitStuck ==
    ASSUME NEW mem \in Mem, mem.stuck, mem.free_list = 0
    PROVE  TaskInit(mem) = mem
<1>1. AllocPage(mem) = mem
  BY AllocPageStuck
<1>2. MapRange(mem, mem.free_list, TextStart, TextEnd - 1, {"R", "X", "U", "V"}) = mem
  BY LayoutFacts, MapRangeStuck
<1>3. MapRange(mem, mem.free_list, RodataStart, RodataEnd - 1, {"R", "U", "V"}) = mem
  BY LayoutFacts, MapRangeStuck
<1>4. /\ MapUserStack(mem, mem.free_list, mem.free_list) = mem
      /\ MapNewPage(mem, mem.free_list, USER_RW_PAGE_VA, {"R", "W", "U", "V"}) = mem
      /\ MapNewPage(mem, mem.free_list, USER_RO_PAGE_VA, {"R", "U", "V"}) = mem
  BY <1>1, MapPageStuck DEF MapUserStack, MapNewPage
<1> QED
  BY <1>1, <1>2, <1>3, <1>4 DEF TaskInit, InitUserAddressSpace

\* task_init builds a new address space.
LEMMA TaskInitMakes ==
    ASSUME NEW mem, NEW use, NEW n, Heap(mem, use, n), ~mem.stuck, use[root_page_table].lv = 3,
           \A p \in ImageFrames : mem.ram[p] = KernelPage
    PROVE  \E u2, n2 : NewSpace(mem, use, n, TaskInit(mem), u2, n2, mem.free_list, BootSpace, 4)
<1> DEFINE RX  == {"R", "X", "U", "V"}
           RO  == {"R", "U", "V"}
           RW  == {"R", "W", "U", "V"}
           f   == BootSpace
           g   == mem.free_list
           s   == AllocPage(mem).free_list
           m2  == AllocPage(AllocPage(mem))
           m3  == MapRange(m2, g, TextStart, TextEnd - 1, RX)
           m4  == MapRange(m3, g, RodataStart, RodataEnd - 1, RO)
           m5  == MapPage(m4, g, USER_STACK_PAGE_VA, s, RW)
           m6  == MapNewPage(m5, g, USER_RW_PAGE_VA, RW)
           m7  == MapNewPage(m6, g, USER_RO_PAGE_VA, RO)
           A3  == {} \cup (TextStart .. TextEnd - 1)
           A4  == A3 \cup (RodataStart .. RodataEnd - 1)
           A5  == A4 \cup {USER_STACK_PAGE_VA}
           A6  == A5 \cup {USER_RW_PAGE_VA}
           A7  == A6 \cup {USER_RO_PAGE_VA}
<1>1. TaskInit(mem) = m7
  BY DEF TaskInit, InitUserAddressSpace, MapUserStack
<1>2. /\ RX \in SUBSET PteFlags /\ {"R", "V"} \subseteq RX
      /\ RO \in SUBSET PteFlags /\ {"R", "V"} \subseteq RO
      /\ RW \in SUBSET PteFlags /\ {"R", "V"} \subseteq RW
      /\ "W" \notin RX /\ "W" \notin RO
  BY DEF PteFlags
<1>3. /\ \A v \in TextStart .. TextEnd - 1 : v \in ImageFrames /\ v \notin {}
      /\ \A v \in RodataStart .. RodataEnd - 1 : v \in ImageFrames /\ v \notin A3
      /\ USER_STACK_PAGE_VA \in VirtualPages /\ USER_STACK_PAGE_VA \notin A4
      /\ USER_RW_PAGE_VA \in VirtualPages /\ USER_RW_PAGE_VA \notin A5
      /\ USER_RO_PAGE_VA \in VirtualPages /\ USER_RO_PAGE_VA \notin A6
  BY LayoutFacts, MemoryAssumption DEF UserPages
<1>4. PICK u1, n1 : Make(mem, use, n, AllocPage(mem), u1, n1, g, {}, ZeroPage, {}, f, 1)
  BY MakeStart
<1>5. n \in Nat
  BY DEF Heap, FreeListOK
<1>6. PICK u2, n2 : Make(mem, use, n, m2, u2, n2, g, {s}, ZeroPage, {}, f, 1 + 1)
  BY <1>4, <1>5, MakeAlloc
<1>7. /\ \A v \in TextStart .. TextEnd - 1 :
            f[v] = ViewOf(RX \cup {"A", "D"}, mem.ram[v])
      /\ \A v \in RodataStart .. RodataEnd - 1 :
            f[v] = ViewOf(RO \cup {"A", "D"}, mem.ram[v])
      /\ f[USER_STACK_PAGE_VA] = ViewOf(RW \cup {"A", "D"}, ZeroPage)
      /\ f[USER_RW_PAGE_VA] = ViewOf(RW \cup {"A", "D"}, ZeroPage)
      /\ f[USER_RO_PAGE_VA] = ViewOf(RO \cup {"A", "D"}, ZeroPage)
  BY BootSpaceIs, LayoutFacts
<1>8. DOMAIN f = A7
  BY BootSpaceIs DEF UserPages
<1> HIDE DEF f, g, s, m2, RX, RO, RW
<1>9. PICK u3, n3 : Make(mem, use, n, m3, u3, n3, g, {s}, ZeroPage, A3, f, 1 + 1)
  <2>1. RX \in SUBSET PteFlags /\ {"R", "V"} \subseteq RX /\ "W" \notin RX
    BY <1>2
  <2>2. \A v \in TextStart .. TextEnd - 1 : v \in ImageFrames /\ v \notin {}
    BY <1>3
  <2>3. \A v \in TextStart .. TextEnd - 1 : f[v] = ViewOf(RX \cup {"A", "D"}, mem.ram[v])
    BY <1>7
  <2>4. TextStart \in Nat /\ TextEnd - 1 \in Nat /\ TextStart <= TextEnd - 1
    BY LayoutFacts
  <2> QED
    BY <1>6, <2>1, <2>2, <2>3, <2>4, MakeMapImage
<1> HIDE DEF m3, A3
<1>10. PICK u4, n4 : Make(mem, use, n, m4, u4, n4, g, {s}, ZeroPage, A4, f, 1 + 1)
  <2>1. RO \in SUBSET PteFlags /\ {"R", "V"} \subseteq RO /\ "W" \notin RO
    BY <1>2
  <2>2. \A v \in RodataStart .. RodataEnd - 1 : v \in ImageFrames /\ v \notin A3
    BY <1>3
  <2>3. \A v \in RodataStart .. RodataEnd - 1 : f[v] = ViewOf(RO \cup {"A", "D"}, mem.ram[v])
    BY <1>7
  <2>4. RodataStart \in Nat /\ RodataEnd - 1 \in Nat /\ RodataStart <= RodataEnd - 1
    BY LayoutFacts
  <2> QED
    BY <1>9, <2>1, <2>2, <2>3, <2>4, MakeMapImage
<1> HIDE DEF m4, A4
<1>11. PICK u5, n5 : Make(mem, use, n, m5, u5, n5, g, {}, ZeroPage, A5, f, 1 + 1)
  <2>1. RW \in SUBSET PteFlags /\ {"R", "V"} \subseteq RW
    BY <1>2
  <2>2. USER_STACK_PAGE_VA \in VirtualPages /\ USER_STACK_PAGE_VA \notin A4
    BY <1>3
  <2>3. f[USER_STACK_PAGE_VA] = ViewOf(RW \cup {"A", "D"}, ZeroPage)
    BY <1>7
  <2> QED
    BY <1>10, <2>1, <2>2, <2>3, MakeMapNew
<1> HIDE DEF m5, A5
<1>12. PICK u6, n6 : Make(mem, use, n, m6, u6, n6, g, {}, ZeroPage, A6, f, 1 + 1 + 1)
  <2>1. RW \in SUBSET PteFlags /\ {"R", "V"} \subseteq RW
    BY <1>2
  <2>2. USER_RW_PAGE_VA \in VirtualPages /\ USER_RW_PAGE_VA \notin A5
    BY <1>3
  <2>3. f[USER_RW_PAGE_VA] = ViewOf(RW \cup {"A", "D"}, ZeroPage)
    BY <1>7
  <2> QED
    BY <1>11, <2>1, <2>2, <2>3, MapNewPageMakes
<1> HIDE DEF m6, A6
<1>13. PICK u7, n7 : Make(mem, use, n, m7, u7, n7, g, {}, ZeroPage, A7, f, 1 + 1 + 1 + 1)
  <2>1. RO \in SUBSET PteFlags /\ {"R", "V"} \subseteq RO
    BY <1>2
  <2>2. USER_RO_PAGE_VA \in VirtualPages /\ USER_RO_PAGE_VA \notin A6
    BY <1>3
  <2>3. f[USER_RO_PAGE_VA] = ViewOf(RO \cup {"A", "D"}, ZeroPage)
    BY <1>7
  <2> QED
    BY <1>12, <2>1, <2>2, <2>3, MapNewPageMakes
<1> HIDE DEF m7
<1> HIDE DEF A7
<1>14. NewSpace(mem, use, n, m7, u7, n7, g, f, 4)
  <2>1. 1 + 1 + 1 + 1 = 4
    OBVIOUS
  <2> QED
    BY <1>8, <1>13, <2>1 DEF NewSpace
<1> QED
  BY <1>1, <1>14 DEF f, g

(***************************************************************************)
(* The rounds of the loading loop of task_exec (exec.c:148).               *)
(***************************************************************************)
LEMMA LoadImageRun ==
    ASSUME NEW mem
    PROVE  \E acc : /\ acc[0] = MapUserStack(AllocPage(AllocPage(mem)), mem.free_list, AllocPage(mem).free_list)
                    /\ \A k \in 0 .. Len(Image) - 1 :
                          acc[k + 1] = IF acc[k].stuck THEN acc[k]
                                       ELSE LoadPage(acc[k], mem.free_list, Image[k + 1])
                    /\ LoadImage(mem) = acc[Len(Image)]
<1> DEFINE N == Len(Image)
           Round(x, k) == IF x.stuck THEN x
                          ELSE LoadPage(x, mem.free_list, Image[k + 1])
           IsRun(g, j) == g = [k \in 0 .. j |-> IF k = 0 THEN MapUserStack(AllocPage(AllocPage(mem)), mem.free_list, AllocPage(mem).free_list) ELSE Round(g[k - 1], k - 1)]
           Reached == {j \in 0 .. N : \E g : IsRun(g, j)}
<1>0. N \in Nat
  BY MemoryAssumption
<1> HIDE DEF N, Round
<1>1. 0 \in Reached
  <2> DEFINE g == [k \in 0 .. 0 |-> MapUserStack(AllocPage(AllocPage(mem)), mem.free_list, AllocPage(mem).free_list)]
  <2>1. IsRun(g, 0)
    OBVIOUS
  <2> HIDE DEF g, IsRun
  <2> QED
    BY <1>0, <2>1
<1>2. ASSUME NEW j \in 0 .. N - 1, j \in Reached
      PROVE  j + 1 \in Reached
  <2> HIDE DEF IsRun
  <2>1. PICK g : IsRun(g, j)
    BY <1>2
  <2> DEFINE h == [k \in 0 .. j + 1 |-> IF k <= j THEN g[k] ELSE Round(g[j], j)]
  <2>2. IsRun(h, j + 1)
    BY <1>0, <2>1 DEF IsRun
  <2> HIDE DEF h
  <2> QED
    BY <1>0, <2>2
<1>3. \E g : IsRun(g, N)
  <2>1. \A j \in 0 .. N : j \in Reached
    <3> HIDE DEF Reached
    <3> QED
      BY <1>0, <1>1, <1>2, Induct
  <2> HIDE DEF IsRun
  <2> QED
    BY <1>0, <2>1
<1> DEFINE acc == CHOOSE g : IsRun(g, N)
<1>4. IsRun(acc, N)
  <2> HIDE DEF IsRun
  <2> QED
    BY <1>3
<1>5. LoadImage(mem) = acc[N]
  BY DEF Loop, Round, N, LoadImage
<1> HIDE DEF acc
<1>6. acc[0] = MapUserStack(AllocPage(AllocPage(mem)), mem.free_list, AllocPage(mem).free_list) /\ \A k \in 0 .. N - 1 : acc[k + 1] = Round(acc[k], k)
  BY <1>0, <1>4
<1> HIDE DEF IsRun, Reached
<1> QED
  BY <1>5, <1>6 DEF Round, N

(***************************************************************************)
(* One page of the image, and all of them (task_exec, exec.c:148).         *)
(***************************************************************************)
LEMMA LoadPageMakes ==
    ASSUME NEW m0, NEW use0, NEW n0, Heap(m0, use0, n0), use0[root_page_table].lv = 3,
           NEW mem, NEW use, NEW n, NEW g, NEW A, NEW f, NEW c,
           Make(m0, use0, n0, mem, use, n, g, {}, ZeroPage, A, f, c), ~mem.stuck,
           NEW page, page.words \in [Slots -> Word],
           page.va \in VirtualPages, page.va \notin A,
           page.flags \in SUBSET PteFlags, {"R", "V"} \subseteq page.flags,
           f[page.va] = ViewOf(page.flags \cup {"A", "D"}, page.words)
    PROVE  \E u2, n2 : Make(m0, use0, n0, LoadPage(mem, g, page), u2, n2, g, {}, ZeroPage,
                            A \cup {page.va}, f, c + 1)
<1> DEFINE h      == mem.free_list
           m1     == AllocPage(mem)
           filled == IF h = 0 THEN m1 ELSE [m1 EXCEPT !.ram[h] = page.words]
<1>0. n0 \in Nat
  BY DEF Heap, FreeListOK
<1>1. PICK u1, n1 : Make(m0, use0, n0, m1, u1, n1, g, {h}, ZeroPage, A, f, c + 1)
  BY <1>0, MakeAlloc
<1>2. mem \in Mem
  BY DEF Make, Build, Heap
<1>3. LoadPage(mem, g, page) = MapPage(filled, g, page.va, h, page.flags)
  BY DEF LoadPage
<1>4. \E w : /\ Make(m0, use0, n0, filled, u1, n1, g, {h}, w, A, f, c + 1)
             /\ ~filled.stuck => w = page.words
  <2>1. CASE h = 0
    <3>1. filled = m1 /\ m1.stuck
      BY <1>2, <2>1, AllocPageStuck
    <3> QED
      BY <1>1, <3>1
  <2>2. CASE h # 0
    <3>1. ~m1.stuck
      BY <1>2, <2>2 DEF AllocPage, Mem
    <3>2. filled = [m1 EXCEPT !.ram[h] = page.words]
      BY <2>2
    <3> HIDE DEF h, m1
    <3>3. Make(m0, use0, n0, [m1 EXCEPT !.ram[h] = page.words], u1, n1, g, {h}, page.words, A, f,
               c + 1)
      BY <1>1, <3>1, MakeFill
    <3> HIDE DEF filled
    <3> QED
      BY <3>2, <3>3
  <2> QED
    BY <2>1, <2>2
<1> HIDE DEF filled, h, m1
<1>5. PICK w : /\ Make(m0, use0, n0, filled, u1, n1, g, {h}, w, A, f, c + 1)
               /\ ~filled.stuck => w = page.words
  BY <1>4
<1>6. Make(m0, use0, n0, filled, u1, n1, g, {h}, page.words, A, f, c + 1)
  BY <1>5 DEF Make, Shows
<1>7. \E u2, n2 : Make(m0, use0, n0, MapPage(filled, g, page.va, h, page.flags), u2, n2, g, {},
                       ZeroPage, A \cup {page.va}, f, c + 1)
  BY <1>6, MakeMapNew
<1> QED
  BY <1>3, <1>7

\* task_exec builds a new address space.
LEMMA LoadImageMakes ==
    ASSUME NEW mem, NEW use, NEW n, Heap(mem, use, n), ~mem.stuck, use[root_page_table].lv = 3
    PROVE  \E u2, n2 : NewSpace(mem, use, n, LoadImage(mem), u2, n2, mem.free_list, ImageSpace,
                                2 + Len(Image))
<1> DEFINE f     == ImageSpace
           g     == mem.free_list
           s     == AllocPage(mem).free_list
           m2    == AllocPage(AllocPage(mem))
           m3    == MapUserStack(m2, g, s)
           N     == Len(Image)
           A(k)  == {USER_STACK_PAGE_VA} \cup {Image[i].va : i \in 1 .. k}
<1>0. N \in Nat /\ DOMAIN Image = 1 .. N
  BY MemoryAssumption
<1>1. PICK acc : /\ acc[0] = m3
                 /\ \A k \in 0 .. N - 1 :
                       acc[k + 1] = IF acc[k].stuck THEN acc[k]
                                    ELSE LoadPage(acc[k], g, Image[k + 1])
                 /\ LoadImage(mem) = acc[N]
  BY LoadImageRun
<1>2. ASSUME NEW k \in 0 .. N - 1
      PROVE  /\ Image[k + 1].words \in [Slots -> Word]
             /\ Image[k + 1].va \in VirtualPages
             /\ Image[k + 1].flags \in SUBSET PteFlags /\ {"R", "V"} \subseteq Image[k + 1].flags
             /\ Image[k + 1].va \notin A(k)
             /\ A(k + 1) = A(k) \cup {Image[k + 1].va}
             /\ f[Image[k + 1].va] = ViewOf(Image[k + 1].flags \cup {"A", "D"}, Image[k + 1].words)
  <2>1. k + 1 \in DOMAIN Image /\ k + 1 \notin 1 .. k /\ 1 .. k + 1 = (1 .. k) \cup {k + 1}
    BY <1>0
  <2>2. /\ Image[k + 1].words \in [Slots -> Word] /\ Image[k + 1].va \in VirtualPages
        /\ Image[k + 1].flags \in SUBSET PteFlags /\ {"R", "U", "V"} \subseteq Image[k + 1].flags
        /\ Image[k + 1].va # USER_STACK_PAGE_VA
        /\ f[Image[k + 1].va] = ViewOf(Image[k + 1].flags \cup {"A", "D"}, Image[k + 1].words)
    BY <2>1, ImageIs, ImageSpaceIs
  <2>3. \A i \in 1 .. k : Image[i].va # Image[k + 1].va
    <3>1. \A i \in 1 .. k : i \in DOMAIN Image /\ i # k + 1
      BY <1>0
    <3> QED
      BY <2>1, <3>1, MemoryAssumption
  <2>4. A(k + 1) = A(k) \cup {Image[k + 1].va}
    BY <2>1
  <2> QED
    BY <2>2, <2>3, <2>4
<1>3. /\ f[USER_STACK_PAGE_VA] = ViewOf({"R", "W", "U", "V"} \cup {"A", "D"}, ZeroPage)
      /\ DOMAIN f = A(N)
  BY <1>0, ImageSpaceIs DEF ImagePages
<1>4. n \in Nat
  BY DEF Heap, FreeListOK
<1> HIDE DEF N, f
<1>5. PICK u0, n0 : Make(mem, use, n, m3, u0, n0, g, {}, ZeroPage, A(0), f, 2)
  <2>1. PICK u1, n1 : Make(mem, use, n, AllocPage(mem), u1, n1, g, {}, ZeroPage, {}, f, 1)
    BY MakeStart
  <2>2. PICK u2, n2 : Make(mem, use, n, m2, u2, n2, g, {s}, ZeroPage, {}, f, 1 + 1)
    BY <1>4, <2>1, MakeAlloc
  <2>3. /\ {"R", "W", "U", "V"} \in SUBSET PteFlags /\ {"R", "V"} \subseteq {"R", "W", "U", "V"}
        /\ USER_STACK_PAGE_VA \in VirtualPages /\ USER_STACK_PAGE_VA \notin {}
    BY LayoutFacts DEF PteFlags, UserPages
  <2> HIDE DEF g, s, m2, A
  <2>4. PICK u3, n3 : Make(mem, use, n, MapPage(m2, g, USER_STACK_PAGE_VA, s, {"R", "W", "U", "V"}),
                           u3, n3, g, {}, ZeroPage, {} \cup {USER_STACK_PAGE_VA}, f, 1 + 1)
    BY <1>3, <2>2, <2>3, MakeMapNew
  <2>5. A(0) = {} \cup {USER_STACK_PAGE_VA} /\ 1 + 1 = 2
    BY DEF A
  <2> QED
    BY <2>4, <2>5 DEF MapUserStack
<1> HIDE DEF m3, g, A
<1> DEFINE S == {k \in 0 .. N : \E u2, n2 :
                    Make(mem, use, n, acc[k], u2, n2, g, {}, ZeroPage, A(k), f, 2 + k)}
<1>6. 0 \in S
  BY <1>0, <1>1, <1>5
<1>7. ASSUME NEW k \in 0 .. N - 1, k \in S
      PROVE  k + 1 \in S
  <2>1. PICK u2, n2 : Make(mem, use, n, acc[k], u2, n2, g, {}, ZeroPage, A(k), f, 2 + k)
    BY <1>7
  <2>2. \E u3, n3 : Make(mem, use, n, acc[k + 1], u3, n3, g, {}, ZeroPage, A(k + 1), f, 2 + (k + 1))
    <3>1. CASE acc[k].stuck
      <4>1. acc[k + 1] = acc[k]
        BY <1>1, <3>1
      <4>2. Make(mem, use, n, acc[k], u2, n2, g, {}, ZeroPage, A(k + 1), f, 2 + (k + 1))
        <5> DEFINE B == A(k + 1)
                   b == 2 + k
                   d == 2 + (k + 1)
        <5>1. A(k) \subseteq B
          BY <1>2
        <5>2. b \in Nat /\ d \in Nat /\ b <= d /\ n \in Nat
          BY <1>0, <1>4
        <5>3. Make(mem, use, n, acc[k], u2, n2, g, {}, ZeroPage, A(k), f, b)
          BY <2>1
        <5>4. B \in SUBSET VirtualPages
          BY <1>2, <5>3 DEF Make, Build, Cost
        <5> HIDE DEF B, b, d, S
        <5>5. Cost(use, n, acc[k], u2, n2, g, B, d)
          BY <3>1, <5>1, <5>3, <5>4, <5>2, CostStuck DEF Make, Build
        <5>6. Make(mem, use, n, acc[k], u2, n2, g, {}, ZeroPage, B, f, d)
          BY <3>1, <5>3, <5>5 DEF Make, Build, Shows
        <5> QED
          BY <5>6 DEF B, d
      <4> QED
        BY <4>1, <4>2
    <3>2. CASE ~acc[k].stuck
      <4>1. acc[k + 1] = LoadPage(acc[k], g, Image[k + 1])
        BY <1>1, <3>2
      <4>2. \E u3, n3 : Make(mem, use, n, LoadPage(acc[k], g, Image[k + 1]), u3, n3, g, {},
                             ZeroPage, A(k) \cup {Image[k + 1].va}, f, 2 + (k + 1))
        <5> DEFINE b    == 2 + k
                   page == Image[k + 1]
                   X    == acc[k]
        <5>1. b + 1 = 2 + (k + 1)
          OBVIOUS
        <5>2. /\ Make(mem, use, n, X, u2, n2, g, {}, ZeroPage, A(k), f, b) /\ ~X.stuck
              /\ page.words \in [Slots -> Word] /\ page.va \in VirtualPages
              /\ page.flags \in SUBSET PteFlags /\ {"R", "V"} \subseteq page.flags
              /\ page.va \notin A(k)
              /\ f[page.va] = ViewOf(page.flags \cup {"A", "D"}, page.words)
          BY <1>2, <2>1, <3>2
        <5> HIDE DEF S, b, page, X
        <5>3. \E u3, n3 : Make(mem, use, n, LoadPage(X, g, page), u3, n3, g, {}, ZeroPage,
                               A(k) \cup {page.va}, f, b + 1)
          BY <5>2, LoadPageMakes
        <5> QED
          BY <5>1, <5>3 DEF X, page
      <4>3. A(k + 1) = A(k) \cup {Image[k + 1].va}
        BY <1>2
      <4> QED
        BY <4>1, <4>2, <4>3
    <3> QED
      BY <3>1, <3>2
  <2> QED
    BY <1>0, <2>2 DEF N
<1>8. N \in S
  <2> HIDE DEF S
  <2>1. \A k \in 0 .. N : k \in S
    BY <1>0, <1>6, <1>7, Induct
  <2> QED
    BY <1>0, <2>1
<1>9. PICK u2, n2 : Make(mem, use, n, acc[N], u2, n2, g, {}, ZeroPage, A(N), f, 2 + N)
  BY <1>8
<1>10. NewSpace(mem, use, n, acc[N], u2, n2, g, f, 2 + N)
  BY <1>9, <1>3 DEF NewSpace
<1> QED
  BY <1>1, <1>10 DEF f, g, N

(***************************************************************************)
(* The inductive invariant.  Accounts(mem, states, pts, use, n): `use`     *)
(* tells the use of every page, the page tables of the live tasks are tops *)
(* of trees of their own, apart from the kernel's, and while the machine   *)
(* works no page is out of account, every live task has a stack, and every *)
(* tree has the shape of the program it was built for.                     *)
(***************************************************************************)
OwnTrees(states, pts, use) ==
    /\ use[root_page_table].lv = 3
    /\ \A t \in Task : states[t] # TASK_DEAD =>
          pts[t] \in ManagedPages /\ pts[t] # root_page_table /\ use[pts[t]].lv = 3
    /\ \A t, u \in Task :
          states[t] # TASK_DEAD /\ states[u] # TASK_DEAD /\ pts[t] = pts[u] => t = u

NothingElse(states, pts, use) ==
    \A p \in ManagedPages :
        /\ use[p].lv # LIMBO
        /\ use[p].lv = 3 => \/ p = root_page_table
                            \/ \E t \in Task : states[t] # TASK_DEAD /\ pts[t] = p

Stacks(mem, states, pts) ==
    \A t \in Task : states[t] # TASK_DEAD => Valid(LeafPte(mem, pts[t], USER_STACK_PAGE_VA))

\* A tree has no table outside of what it takes to map A, and no leaf outside of A.
NodesIn(use, g, A) ==
    \A q \in ManagedPages : use[q].lv \in 0 .. 2 /\ use[q].tree = g =>
        use[q].pos \in Prefixes(A, use[q].lv)

LeavesIn(mem, g, A) == \A v \in VirtualPages : Valid(LeafPte(mem, g, v)) => v \in A

Shapes(mem, states, pts, use) ==
    /\ NodesIn(use, root_page_table, KernelVas)
    /\ \A t \in Task : states[t] # TASK_DEAD =>
          \E A \in {BootVas, ImageVas} : NodesIn(use, pts[t], A) /\ LeavesIn(mem, pts[t], A)

Accounts(mem, states, pts, use, n) ==
    /\ Heap(mem, use, n)
    /\ OwnTrees(states, pts, use)
    /\ ~mem.stuck => /\ NothingElse(states, pts, use) /\ Stacks(mem, states, pts)
                     /\ Shapes(mem, states, pts, use)

TablesOK ==
    /\ task_states \in [Task -> {TASK_READY, TASK_DEAD}]
    /\ satp \in [Task -> ManagedPages \cup {0}]
    /\ calls \in 0 .. MaxCalls

IInv == TablesOK /\ \E use, n : Accounts(m, task_states, satp, use, n)

(***************************************************************************)
(* The pages that a page table lets programs see, and what is there.  They *)
(* are the same as long as the tables and the data of the tree are, and    *)
(* the kernel image.                                                       *)
(***************************************************************************)
SeenPages(mem, g) == {v \in VirtualPages : {"U", "V"} \subseteq Flags(LeafPte(mem, g, v))}
Space(mem, g) == [v \in SeenPages(mem, g) |-> View(mem, g, v)]

TreeKept(mem, use, m2, g) ==
    /\ \A p \in ManagedPages : use[p].lv \in 0 .. 3 /\ use[p].tree = g => m2.ram[p] = mem.ram[p]
    /\ \A p \in ImageFrames : m2.ram[p] = mem.ram[p]

LEMMA SpaceStays ==
    ASSUME NEW mem, NEW use, NEW n, Heap(mem, use, n), NEW g \in ManagedPages, use[g].lv = 3,
           g # root_page_table, NEW m2, TreeKept(mem, use, m2, g)
    PROVE  Space(m2, g) = Space(mem, g)
<1>1. \A p \in ManagedPages : use[p].lv \in Int /\ use[p].lv <= 3
  BY DEF Heap, Use
<1>2. DataKept(mem, use, m2, g)
  BY DEF TreeKept, DataKept
<1>3. \A p \in TablesOf(use, g) : m2.ram[p] = mem.ram[p]
  BY <1>1 DEF TreeKept, TablesOf
<1>4. \A v \in VirtualPages : LeafPte(m2, g, v) = LeafPte(mem, g, v)
  BY <1>3, TreeLeaves
<1>5. SeenPages(m2, g) = SeenPages(mem, g)
  BY <1>4 DEF SeenPages
<1>6. ASSUME NEW v \in SeenPages(mem, g)
      PROVE  View(m2, g, v) = View(mem, g, v)
  <2>1. v \in VirtualPages /\ Valid(LeafPte(mem, g, v))
    BY DEF SeenPages, Valid
  <2> QED
    BY <1>2, <1>4, <2>1, ViewKept
<1> QED
  BY <1>5, <1>6 DEF Space

\* So it is where no page that was in use has changed.
LEMMA SpacesStay ==
    ASSUME NEW mem, NEW use, NEW n, Heap(mem, use, n), NEW m2,
           \A p \in RamPages : (p \in ManagedPages /\ use[p].lv = FREE) \/ m2.ram[p] = mem.ram[p],
           NEW g \in ManagedPages, use[g].lv = 3, g # root_page_table
    PROVE  Space(m2, g) = Space(mem, g)
<1>1. TreeKept(mem, use, m2, g)
  BY PageFacts DEF TreeKept, FREE
<1> QED
  BY <1>1, SpaceStays

(***************************************************************************)
(* What a new page table g for the virtual pages A adds: the trees that    *)
(* were there stay, and g is the only new one.                             *)
(***************************************************************************)
Grew(m0, use0, m2, use2, n2, g, A) ==
    /\ Heap(m2, use2, n2)
    /\ Placed(use0, use2, g, A)
    /\ \A p \in ManagedPages : use0[p].lv # FREE => use2[p] = use0[p]
    /\ \A q \in ManagedPages, v \in VirtualPages :
          use0[q].lv = 3 => LeafPte(m2, q, v) = LeafPte(m0, q, v)
    /\ \A q \in ManagedPages :
          use0[q].lv = 3 /\ q # root_page_table => Space(m2, q) = Space(m0, q)
    /\ ~m2.stuck => /\ g \in ManagedPages /\ use0[g].lv = FREE /\ use2[g].lv = 3
                    /\ \A p \in ManagedPages : use0[p].lv = FREE =>
                          use2[p].lv # LIMBO /\ (use2[p].lv = 3 => p = g)

(***************************************************************************)
(* Where no page that was in use has changed, no tree has.                 *)
(***************************************************************************)
LEMMA TreesUnchanged ==
    ASSUME NEW m0, NEW use0, NEW n0, Heap(m0, use0, n0), NEW m2,
           \A p \in RamPages : (p \in ManagedPages /\ use0[p].lv = FREE) \/ m2.ram[p] = m0.ram[p],
           NEW g \in ManagedPages, use0[g].lv = 3, NEW v \in VirtualPages
    PROVE  LeafPte(m2, g, v) = LeafPte(m0, g, v)
<1>1. \A p \in TablesOf(use0, g) : m2.ram[p] = m0.ram[p]
  BY PageFacts DEF TablesOf, FREE
<1> QED
  BY <1>1, TreeLeaves

\* An address space that was built, in these words.
LEMMA NewSpaceGrew ==
    ASSUME NEW m0, NEW use0, NEW n0, Heap(m0, use0, n0),
           NEW m2, NEW use2, NEW n2, NEW g, NEW f, NEW c,
           NewSpace(m0, use0, n0, m2, use2, n2, g, f, c), f \in {BootSpace, ImageSpace}
    PROVE  /\ Grew(m0, use0, m2, use2, n2, g, DOMAIN f)
           /\ ~m2.stuck => /\ Valid(LeafPte(m2, g, USER_STACK_PAGE_VA))
                           /\ LeavesIn(m2, g, DOMAIN f)
                           /\ Space(m2, g) = f
<1> DEFINE A == DOMAIN f
<1>1. Build(m0, use0, n0, m2, use2, n2, g, {}, A, c) /\ Shows(m2, g, {}, ZeroPage, A, f)
  BY DEF NewSpace, Make
<1>2. Heap(m2, use2, n2) /\ Grown(m0, use0, m2, use2) /\ Placed(use0, use2, g, A)
  BY <1>1 DEF Build, Cost
<1>3. \A q \in ManagedPages, v \in VirtualPages :
          use0[q].lv = 3 => LeafPte(m2, q, v) = LeafPte(m0, q, v)
  <2>1. \A p \in RamPages : (p \in ManagedPages /\ use0[p].lv = FREE) \/ m2.ram[p] = m0.ram[p]
    BY <1>2 DEF Grown
  <2> QED
    BY <2>1, TreesUnchanged
<1>4. \A q \in ManagedPages : use0[q].lv = 3 /\ q # root_page_table => Space(m2, q) = Space(m0, q)
  <2>1. \A p \in RamPages : (p \in ManagedPages /\ use0[p].lv = FREE) \/ m2.ram[p] = m0.ram[p]
    BY <1>2 DEF Grown
  <2> QED
    BY <2>1, SpacesStay
<1>5. ~m2.stuck => Working(m0, use0, m2, use2, g, {}, A)
  BY <1>1 DEF Build
<1>6. USER_STACK_PAGE_VA \in A /\ \A v \in A : v \in VirtualPages /\ "U" \in f[v].flags
  BY SpacesMade
<1>7. f = [v \in A |-> f[v]]
  BY DEF BootSpace, ImageSpace
<1> HIDE DEF A
<1>8. ASSUME ~m2.stuck
      PROVE  /\ Valid(LeafPte(m2, g, USER_STACK_PAGE_VA)) /\ LeavesIn(m2, g, A)
             /\ Space(m2, g) = f
  <2>1. Mappings(m2, g, A)
    BY <1>5, <1>8 DEF Working
  <2>2. \A v \in VirtualPages : v \in A => View(m2, g, v) = f[v]
    BY <1>1, <1>8 DEF Shows
  <2>3. \A v \in VirtualPages : Flags(LeafPte(m2, g, v)) = View(m2, g, v).flags
    BY DEF View, ViewOf
  <2>4. SeenPages(m2, g) = A
    BY <1>6, <2>1, <2>2, <2>3 DEF SeenPages, Mappings, Valid
  <2>5. Space(m2, g) = [v \in A |-> f[v]]
    BY <1>6, <2>2, <2>4 DEF Space
  <2> QED
    BY <1>6, <1>7, <2>1, <2>5 DEF Mappings, LeavesIn
<1>9. Grew(m0, use0, m2, use2, n2, g, A)
  BY <1>2, <1>3, <1>4, <1>5 DEF Grew, Grown, Working
<1> QED
  BY <1>8, <1>9 DEF A

\* An address space that was copied, in these words.
LEMMA CopyGrew ==
    ASSUME NEW m0, NEW use0, NEW n0, Heap(m0, use0, n0),
           NEW m2, NEW use2, NEW n2, NEW src, NEW A, CopyUserDone(m0, use0, m2, use2, n2, src, A)
    PROVE  Grew(m0, use0, m2, use2, n2, m0.free_list, A)
<1> DEFINE h == m0.free_list
<1>1. /\ Heap(m2, use2, n2) /\ Ext(m0, use0, m2, use2, {}, {h}) /\ Placed(use0, use2, h, A)
      /\ ~m2.stuck => h \in ManagedPages /\ use0[h].lv = FREE /\ use2[h] = Top(h)
  BY DEF CopyUserDone
<1>2. h \in ManagedPages => use0[h].lv = FREE
  BY PageFacts DEF Heap, FreeListOK
<1> HIDE DEF h
<1>3. \A p \in ManagedPages : use0[p].lv # FREE => use2[p] = use0[p]
  BY <1>1, <1>2 DEF Ext
<1>4. \A q \in ManagedPages, v \in VirtualPages :
          use0[q].lv = 3 => LeafPte(m2, q, v) = LeafPte(m0, q, v)
  <2>1. \A p \in RamPages : (p \in ManagedPages /\ use0[p].lv = FREE) \/ m2.ram[p] = m0.ram[p]
    BY <1>1 DEF Ext
  <2> QED
    BY <2>1, TreesUnchanged
<1>5. \A q \in ManagedPages : use0[q].lv = 3 /\ q # root_page_table => Space(m2, q) = Space(m0, q)
  <2>1. \A p \in RamPages : (p \in ManagedPages /\ use0[p].lv = FREE) \/ m2.ram[p] = m0.ram[p]
    BY <1>1 DEF Ext
  <2> QED
    BY <2>1, SpacesStay
<1>6. ASSUME ~m2.stuck, NEW p \in ManagedPages, use0[p].lv = FREE
      PROVE  use2[p].lv # LIMBO /\ (use2[p].lv = 3 => p = h)
  <2>1. CASE p = h
    BY <1>1, <1>6, <2>1 DEF Top, LIMBO
  <2>2. CASE p # h
    BY <1>1, <1>6, <2>2 DEF Ext, LIMBO, FREE
  <2> QED
    BY <2>1, <2>2
<1>7. ~m2.stuck => use2[h].lv = 3
  BY <1>1 DEF Top
<1>8. Grew(m0, use0, m2, use2, n2, h, A)
  BY <1>1, <1>3, <1>4, <1>6, <1>7, <1>5 DEF Grew
<1> QED
  BY <1>8 DEF h

(***************************************************************************)
(* What free_user_page_table of x takes away: that tree, and nothing else. *)
(***************************************************************************)
Shrank(m0, use0, m2, use2, n2, x) ==
    /\ Heap(m2, use2, n2) /\ ~m2.stuck
    /\ \A p \in ManagedPages : use0[p].lv = 3 /\ p # x =>
          use2[p] = use0[p] /\ \A v \in VirtualPages : LeafPte(m2, p, v) = LeafPte(m0, p, v)
    /\ \A p \in ManagedPages :
          use0[p].lv = 3 /\ p # x /\ p # root_page_table => Space(m2, p) = Space(m0, p)
    /\ \A p \in ManagedPages : /\ use2[p].lv = 3 => use0[p].lv = 3 /\ p # x
                               /\ use2[p].lv = LIMBO => use0[p].lv = LIMBO
                               /\ use2[p].lv \in 0 .. 2 => use2[p] = use0[p]

\* An address space that was freed, in these words.
LEMMA FreeShrank ==
    ASSUME NEW m0, NEW use0, NEW n0, Heap(m0, use0, n0), ~m0.stuck,
           use0[root_page_table].lv = 3,
           NEW x \in ManagedPages, use0[x].lv = 3, x # root_page_table
    PROVE  \E use2, n2 : Shrank(m0, use0, FreeUserPageTable(m0, root_page_table, x), use2, n2, x)
<1> DEFINE m2 == FreeUserPageTable(m0, root_page_table, x)
<1>1. PICK use2, n2 : Heap(m2, use2, n2) /\ FreedTo(m0, use0, m2, TreePages(use0, x), use2, n2)
  BY FreeUserHeap
<1> HIDE DEF m2
<1>2. TopsOK(use0)
  BY DEF Heap
<1>3. x \in TreePages(use0, x)
  BY <1>2 DEF TreePages, TopsOK
<1>4. ASSUME NEW p \in ManagedPages, use0[p].lv = 3, p # x
      PROVE  use2[p] = use0[p] /\ \A v \in VirtualPages : LeafPte(m2, p, v) = LeafPte(m0, p, v)
  <2>1. use0[p].tree = p
    BY <1>2, <1>4 DEF TopsOK
  <2>2. p \notin TreePages(use0, x)
    BY <1>4, <2>1 DEF TreePages
  <2>3. \A q \in TablesOf(use0, p) : m2.ram[q] = m0.ram[q]
    BY <1>1, <1>4, PageFacts DEF TablesOf, TreePages, FreedTo
  <2>4. use2[p] = use0[p]
    BY <1>1, <2>2 DEF FreedTo
  <2>5. \A v \in VirtualPages : LeafPte(m2, p, v) = LeafPte(m0, p, v)
    BY <1>4, <2>3, TreeLeaves
  <2> QED
    BY <2>4, <2>5
<1>5. ASSUME NEW p \in ManagedPages
      PROVE  /\ use2[p].lv = 3 => use0[p].lv = 3 /\ p # x
             /\ use2[p].lv = LIMBO => use0[p].lv = LIMBO
             /\ use2[p].lv \in 0 .. 2 => use2[p] = use0[p]
  BY <1>1, <1>3 DEF FreedTo, FREE, LIMBO
<1>6. ~m2.stuck
  BY <1>1 DEF FreedTo
<1>7. ASSUME NEW p \in ManagedPages, use0[p].lv = 3, p # x, p # root_page_table
      PROVE  Space(m2, p) = Space(m0, p)
  <2>1. \A q \in RamPages : q \notin TreePages(use0, x) => m2.ram[q] = m0.ram[q]
    BY <1>1 DEF FreedTo
  <2>2. TreeKept(m0, use0, m2, p)
    BY <1>7, <2>1, PageFacts DEF TreeKept, TreePages
  <2> QED
    BY <1>7, <2>2, SpaceStays
<1>8. Shrank(m0, use0, m2, use2, n2, x)
  BY <1>1, <1>4, <1>5, <1>6, <1>7 DEF Shrank
<1> QED
  BY <1>8 DEF m2

(***************************************************************************)
(* Neither moves a node of a tree that stays.                              *)
(***************************************************************************)
LEMMA TreeTop ==
    ASSUME NEW mem, NEW use, NEW n, Heap(mem, use, n), NEW q \in ManagedPages, use[q].lv \in 0 .. 2
    PROVE  use[q].tree \in ManagedPages /\ use[use[q].tree].lv = 3
<1>1. ASSUME NEW p \in ManagedPages, use[p].lv \in 0 .. 2
      PROVE  /\ use[p].up \in ManagedPages /\ use[use[p].up].lv = use[p].lv + 1
             /\ use[use[p].up].tree = use[p].tree
  BY <1>1 DEF Heap, ParentsOK, ParentOK
<1>2. ASSUME NEW p \in ManagedPages, use[p].lv = 3
      PROVE  use[p].tree = p
  BY <1>2 DEF Heap, TopsOK
<1>3. ASSUME NEW p \in ManagedPages, use[p].lv = 2
      PROVE  use[p].tree \in ManagedPages /\ use[use[p].tree].lv = 3
  BY <1>1, <1>2, <1>3
<1>4. ASSUME NEW p \in ManagedPages, use[p].lv = 1
      PROVE  use[p].tree \in ManagedPages /\ use[use[p].tree].lv = 3
  BY <1>1, <1>3, <1>4
<1>5. CASE use[q].lv = 0
  BY <1>1, <1>4, <1>5
<1> QED
  BY <1>3, <1>4, <1>5

\* The nodes of the new tree are where its virtual pages belong.
LEMMA GrewNodes ==
    ASSUME NEW m0, NEW use0, NEW n0, Heap(m0, use0, n0),
           NEW m2, NEW use2, NEW n2, NEW g, NEW A, Grew(m0, use0, m2, use2, n2, g, A), ~m2.stuck
    PROVE  /\ NodesIn(use2, g, A)
           /\ \A x, B : x # g /\ NodesIn(use0, x, B) => NodesIn(use2, x, B)
<1>1. g \in ManagedPages /\ use0[g].lv = FREE /\ Placed(use0, use2, g, A)
  BY DEF Grew
<1>2. ASSUME NEW q \in ManagedPages, use2[q].lv \in 0 .. 2, use2[q].tree = g
      PROVE  use2[q].pos \in Prefixes(A, use2[q].lv)
  <2>1. CASE use2[q] = use0[q]
    <3>1. use0[g].lv = 3
      BY <1>2, <2>1, TreeTop
    <3> QED
      BY <1>1, <3>1 DEF FREE
  <2> QED
    BY <1>1, <1>2, <2>1 DEF Placed
<1> QED
  BY <1>1, <1>2 DEF NodesIn, Placed

\* Those of the trees that stay are where they were.
LEMMA ShrankNodes ==
    ASSUME NEW m0, NEW use0, NEW m2, NEW use2, NEW n2, NEW x, Shrank(m0, use0, m2, use2, n2, x)
    PROVE  \A y, B : NodesIn(use0, y, B) => NodesIn(use2, y, B)
BY DEF Shrank, NodesIn

(***************************************************************************)
(* The accounts after a new page table: a machine that ran out of memory   *)
(* changes no task, otherwise slot c gets the table.                       *)
(***************************************************************************)
LEMMA AccountsStuck ==
    ASSUME NEW mem, NEW states, NEW pts, NEW use, NEW n, Accounts(mem, states, pts, use, n),
           NEW m2, NEW use2, NEW n2, NEW g, NEW A, Grew(mem, use, m2, use2, n2, g, A), m2.stuck
    PROVE  Accounts(m2, states, pts, use2, n2)
<1>1. OwnTrees(states, pts, use) /\ Heap(m2, use2, n2)
  BY DEF Accounts, Grew
<1>2. \A p \in ManagedPages : use[p].lv = 3 => use2[p].lv = 3
  BY DEF Grew, FREE
<1>3. OwnTrees(states, pts, use2)
  BY <1>1, <1>2, PageFacts DEF OwnTrees
<1> QED
  BY <1>1, <1>3 DEF Accounts

\* A dead slot comes to life with the new table.
LEMMA AccountsFork ==
    ASSUME NEW mem, NEW states, NEW pts, NEW use, NEW n, Accounts(mem, states, pts, use, n),
           states \in [Task -> {TASK_READY, TASK_DEAD}], pts \in [Task -> ManagedPages \cup {0}],
           ~mem.stuck,
           NEW m2, NEW use2, NEW n2, NEW g, NEW A, A \in {BootVas, ImageVas},
           Grew(mem, use, m2, use2, n2, g, A), ~m2.stuck,
           Valid(LeafPte(m2, g, USER_STACK_PAGE_VA)), LeavesIn(m2, g, A),
           NEW c \in Task, states[c] = TASK_DEAD
    PROVE  Accounts(m2, [states EXCEPT ![c] = TASK_READY], [pts EXCEPT ![c] = g], use2, n2)
<1> DEFINE states2 == [states EXCEPT ![c] = TASK_READY]
           pts2    == [pts EXCEPT ![c] = g]
<1>1. /\ Heap(m2, use2, n2)
      /\ OwnTrees(states, pts, use) /\ NothingElse(states, pts, use) /\ Stacks(mem, states, pts)
      /\ Shapes(mem, states, pts, use)
  BY DEF Accounts, Grew
<1>2. /\ g \in ManagedPages /\ use[g].lv = FREE /\ use2[g].lv = 3
      /\ \A p \in ManagedPages : use[p].lv # FREE => use2[p] = use[p]
      /\ \A p \in ManagedPages : use[p].lv = FREE =>
            use2[p].lv # LIMBO /\ (use2[p].lv = 3 => p = g)
  BY DEF Grew
<1>3. \A t \in Task : /\ states2[t] = IF t = c THEN TASK_READY ELSE states[t]
                      /\ pts2[t] = IF t = c THEN g ELSE pts[t]
  OBVIOUS
<1>4. TASK_READY # TASK_DEAD
  BY DEF TASK_READY, TASK_DEAD
<1> HIDE DEF states2, pts2
<1>5. \A p \in ManagedPages : use[p].lv = 3 => use2[p].lv = 3 /\ p # g
  BY <1>2 DEF FREE
<1>6. OwnTrees(states2, pts2, use2)
  <2>1. use2[root_page_table].lv = 3 /\ g # root_page_table
    BY <1>1, <1>5, PageFacts DEF OwnTrees
  <2>2. \A t \in Task : states2[t] # TASK_DEAD =>
          pts2[t] \in ManagedPages /\ pts2[t] # root_page_table /\ use2[pts2[t]].lv = 3
    BY <1>1, <1>2, <1>3, <1>5, <2>1 DEF OwnTrees
  <2>3. \A t, u \in Task :
          states2[t] # TASK_DEAD /\ states2[u] # TASK_DEAD /\ pts2[t] = pts2[u] => t = u
    BY <1>1, <1>3, <1>5 DEF OwnTrees
  <2> QED
    BY <2>1, <2>2, <2>3 DEF OwnTrees
<1>7. NothingElse(states2, pts2, use2)
  <2> SUFFICES ASSUME NEW p \in ManagedPages
               PROVE  /\ use2[p].lv # LIMBO
                      /\ use2[p].lv = 3 =>
                            \/ p = root_page_table
                            \/ \E t \in Task : states2[t] # TASK_DEAD /\ pts2[t] = p
    BY DEF NothingElse
  <2>1. CASE use[p].lv = FREE
    BY <1>2, <1>3, <1>4, <2>1
  <2>2. CASE use[p].lv # FREE
    <3>1. use2[p] = use[p]
      BY <1>2, <2>2
    <3>2. use[p].lv # LIMBO
      BY <1>1 DEF NothingElse
    <3>3. ASSUME use[p].lv = 3, p # root_page_table
          PROVE  \E t \in Task : states2[t] # TASK_DEAD /\ pts2[t] = p
      <4>1. PICK t \in Task : states[t] # TASK_DEAD /\ pts[t] = p
        BY <1>1, <3>3 DEF NothingElse
      <4>2. t # c
        BY <4>1
      <4> QED
        BY <1>3, <4>1, <4>2
    <3> QED
      BY <3>1, <3>2, <3>3
  <2> QED
    BY <2>1, <2>2
<1>8. Stacks(m2, states2, pts2)
  <2> SUFFICES ASSUME NEW t \in Task, states2[t] # TASK_DEAD
               PROVE  Valid(LeafPte(m2, pts2[t], USER_STACK_PAGE_VA))
    BY DEF Stacks
  <2>1. CASE t = c
    BY <1>3, <2>1
  <2>2. CASE t # c
    <3>1. states[t] # TASK_DEAD /\ pts2[t] = pts[t]
      BY <1>3, <2>2
    <3>2. pts[t] \in ManagedPages /\ use[pts[t]].lv = 3
      BY <1>1, <3>1 DEF OwnTrees
    <3>3. USER_STACK_PAGE_VA \in VirtualPages
      BY LayoutFacts DEF UserPages
    <3>4. LeafPte(m2, pts[t], USER_STACK_PAGE_VA) = LeafPte(mem, pts[t], USER_STACK_PAGE_VA)
      BY <3>2, <3>3 DEF Grew
    <3> QED
      BY <1>1, <3>1, <3>4 DEF Stacks
  <2> QED
    BY <2>1, <2>2
<1>9. Shapes(m2, states2, pts2, use2)
  <2>1. /\ NodesIn(use2, g, A)
        /\ \A x, B : x # g /\ NodesIn(use, x, B) => NodesIn(use2, x, B)
    BY GrewNodes DEF Accounts
  <2>2. NodesIn(use2, root_page_table, KernelVas)
    <3>1. root_page_table # g
      BY <1>1, <1>5, PageFacts DEF OwnTrees
    <3> QED
      BY <1>1, <2>1, <3>1 DEF Shapes
  <2>3. ASSUME NEW t \in Task, states2[t] # TASK_DEAD
        PROVE  \E B \in {BootVas, ImageVas} : NodesIn(use2, pts2[t], B) /\ LeavesIn(m2, pts2[t], B)
    <3>1. CASE t = c
      BY <1>3, <2>1, <3>1
    <3>2. CASE t # c
      <4>1. states[t] # TASK_DEAD /\ pts2[t] = pts[t]
        BY <1>3, <2>3, <3>2
      <4>2. pts[t] \in ManagedPages /\ use[pts[t]].lv = 3 /\ pts[t] # g
        BY <1>1, <1>5, <4>1 DEF OwnTrees
      <4>3. PICK B \in {BootVas, ImageVas} : NodesIn(use, pts[t], B) /\ LeavesIn(mem, pts[t], B)
        BY <1>1, <4>1 DEF Shapes
      <4>4. LeavesIn(m2, pts[t], B)
        BY <4>2, <4>3 DEF Grew, LeavesIn
      <4> QED
        BY <2>1, <4>1, <4>2, <4>3, <4>4
    <3> QED
      BY <3>1, <3>2
  <2> QED
    BY <2>2, <2>3 DEF Shapes
<1>10. Accounts(m2, states2, pts2, use2, n2)
  BY <1>1, <1>6, <1>7, <1>8, <1>9 DEF Accounts
<1> QED
  BY <1>10 DEF states2, pts2

(***************************************************************************)
(* The accounts after the tree of a task was freed: the task is dead.      *)
(***************************************************************************)
LEMMA AccountsExit ==
    ASSUME NEW mem, NEW states, NEW pts, NEW use, NEW n, Accounts(mem, states, pts, use, n),
           states \in [Task -> {TASK_READY, TASK_DEAD}], ~mem.stuck,
           NEW c \in Task, states[c] # TASK_DEAD,
           NEW m2, NEW use2, NEW n2, Shrank(mem, use, m2, use2, n2, pts[c])
    PROVE  Accounts(m2, [states EXCEPT ![c] = TASK_DEAD], pts, use2, n2)
<1> DEFINE states2 == [states EXCEPT ![c] = TASK_DEAD]
<1>1. /\ Heap(m2, use2, n2)
      /\ OwnTrees(states, pts, use) /\ NothingElse(states, pts, use) /\ Stacks(mem, states, pts)
      /\ Shapes(mem, states, pts, use)
  BY DEF Accounts, Shrank
<1>2. \A p \in ManagedPages : use[p].lv = 3 /\ p # pts[c] =>
          use2[p] = use[p] /\ \A v \in VirtualPages : LeafPte(m2, p, v) = LeafPte(mem, p, v)
  BY DEF Shrank
<1>3. \A t \in Task : states2[t] # TASK_DEAD <=> t # c /\ states[t] # TASK_DEAD
  OBVIOUS
<1> HIDE DEF states2
<1>4. \A t \in Task : states2[t] # TASK_DEAD =>
          /\ pts[t] \in ManagedPages /\ pts[t] # root_page_table
          /\ use[pts[t]].lv = 3 /\ pts[t] # pts[c]
  BY <1>1, <1>3 DEF OwnTrees
<1>5. OwnTrees(states2, pts, use2)
  <2>1. use2[root_page_table].lv = 3
    BY <1>1, <1>2, PageFacts DEF OwnTrees
  <2>2. \A t \in Task : states2[t] # TASK_DEAD => use2[pts[t]].lv = 3
    BY <1>2, <1>4
  <2> QED
    BY <1>1, <1>3, <1>4, <2>1, <2>2 DEF OwnTrees
<1>6. NothingElse(states2, pts, use2)
  <2> SUFFICES ASSUME NEW p \in ManagedPages
               PROVE  /\ use2[p].lv # LIMBO
                      /\ use2[p].lv = 3 =>
                            \/ p = root_page_table
                            \/ \E t \in Task : states2[t] # TASK_DEAD /\ pts[t] = p
    BY DEF NothingElse
  <2>1. /\ use2[p].lv = 3 => use[p].lv = 3 /\ p # pts[c]
        /\ use2[p].lv = LIMBO => use[p].lv = LIMBO
    BY DEF Shrank
  <2> QED
    BY <1>1, <1>3, <2>1 DEF NothingElse
<1>7. Stacks(m2, states2, pts)
  <2> SUFFICES ASSUME NEW t \in Task, states2[t] # TASK_DEAD
               PROVE  Valid(LeafPte(m2, pts[t], USER_STACK_PAGE_VA))
    BY DEF Stacks
  <2>1. USER_STACK_PAGE_VA \in VirtualPages
    BY LayoutFacts DEF UserPages
  <2>2. LeafPte(m2, pts[t], USER_STACK_PAGE_VA) = LeafPte(mem, pts[t], USER_STACK_PAGE_VA)
    BY <1>2, <1>4, <2>1
  <2> QED
    BY <1>1, <1>3, <2>2 DEF Stacks
<1>8. Shapes(m2, states2, pts, use2)
  <2>1. \A x, B : NodesIn(use, x, B) => NodesIn(use2, x, B)
    BY ShrankNodes
  <2>2. NodesIn(use2, root_page_table, KernelVas)
    BY <1>1, <2>1 DEF Shapes
  <2>3. ASSUME NEW t \in Task, states2[t] # TASK_DEAD
        PROVE  \E B \in {BootVas, ImageVas} : NodesIn(use2, pts[t], B) /\ LeavesIn(m2, pts[t], B)
    <3>1. PICK B \in {BootVas, ImageVas} : NodesIn(use, pts[t], B) /\ LeavesIn(mem, pts[t], B)
      BY <1>1, <1>3, <2>3 DEF Shapes
    <3>2. LeavesIn(m2, pts[t], B)
      BY <1>2, <1>4, <2>3, <3>1 DEF LeavesIn
    <3> QED
      BY <2>1, <3>1, <3>2
  <2> QED
    BY <2>2, <2>3 DEF Shapes
<1>9. Accounts(m2, states2, pts, use2, n2)
  BY <1>1, <1>5, <1>6, <1>7, <1>8 DEF Accounts
<1> QED
  BY <1>9 DEF states2

(***************************************************************************)
(* The accounts after an image has replaced a program: slot c gets the new *)
(* table g, and its old tree is freed.                                     *)
(***************************************************************************)
LEMMA AccountsExec ==
    ASSUME NEW mem, NEW states, NEW pts, NEW use, NEW n, Accounts(mem, states, pts, use, n),
           pts \in [Task -> ManagedPages \cup {0}], ~mem.stuck,
           NEW c \in Task, states[c] # TASK_DEAD,
           NEW m1, NEW use1, NEW n1, NEW g, NEW A, A \in {BootVas, ImageVas},
           Grew(mem, use, m1, use1, n1, g, A), ~m1.stuck,
           Valid(LeafPte(m1, g, USER_STACK_PAGE_VA)), LeavesIn(m1, g, A),
           NEW m2, NEW use2, NEW n2, Shrank(m1, use1, m2, use2, n2, pts[c])
    PROVE  Accounts(m2, states, [pts EXCEPT ![c] = g], use2, n2)
<1> DEFINE pts2 == [pts EXCEPT ![c] = g]
<1>1. /\ Heap(m2, use2, n2)
      /\ OwnTrees(states, pts, use) /\ NothingElse(states, pts, use) /\ Stacks(mem, states, pts)
      /\ Shapes(mem, states, pts, use)
  BY DEF Accounts, Shrank
<1>2. /\ g \in ManagedPages /\ use[g].lv = FREE /\ use1[g].lv = 3
      /\ \A p \in ManagedPages : use[p].lv # FREE => use1[p] = use[p]
      /\ \A p \in ManagedPages : use[p].lv = FREE =>
            use1[p].lv # LIMBO /\ (use1[p].lv = 3 => p = g)
      /\ \A q \in ManagedPages, v \in VirtualPages :
            use[q].lv = 3 => LeafPte(m1, q, v) = LeafPte(mem, q, v)
  BY DEF Grew
<1>3. \A t \in Task : pts2[t] = IF t = c THEN g ELSE pts[t]
  OBVIOUS
<1> HIDE DEF pts2
<1>4. \A p \in ManagedPages : use[p].lv = 3 => use1[p].lv = 3 /\ p # g
  BY <1>2 DEF FREE
<1>5. \A p \in ManagedPages : use1[p].lv = 3 /\ p # pts[c] =>
          use2[p] = use1[p] /\ \A v \in VirtualPages : LeafPte(m2, p, v) = LeafPte(m1, p, v)
  BY DEF Shrank
<1>6. g # pts[c] /\ use[pts[c]].lv = 3 /\ pts[c] # root_page_table /\ pts[c] \in ManagedPages
  BY <1>1, <1>4 DEF OwnTrees
<1>7. \A t \in Task : states[t] # TASK_DEAD =>
          /\ pts2[t] \in ManagedPages /\ pts2[t] # root_page_table
          /\ use1[pts2[t]].lv = 3 /\ pts2[t] # pts[c]
  <2> SUFFICES ASSUME NEW t \in Task, states[t] # TASK_DEAD
               PROVE  /\ pts2[t] \in ManagedPages /\ pts2[t] # root_page_table
                      /\ use1[pts2[t]].lv = 3 /\ pts2[t] # pts[c]
    OBVIOUS
  <2>1. CASE t = c
    <3>1. g # root_page_table
      BY <1>1, <1>4, PageFacts DEF OwnTrees
    <3> QED
      BY <1>2, <1>3, <1>6, <2>1, <3>1
  <2>2. CASE t # c
    BY <1>1, <1>3, <1>4, <2>2 DEF OwnTrees
  <2> QED
    BY <2>1, <2>2
<1>8. OwnTrees(states, pts2, use2)
  <2>1. use2[root_page_table].lv = 3
    BY <1>1, <1>4, <1>5, <1>6, PageFacts DEF OwnTrees
  <2>2. \A t \in Task : states[t] # TASK_DEAD => use2[pts2[t]].lv = 3
    BY <1>5, <1>7
  <2>3. \A t, u \in Task :
          states[t] # TASK_DEAD /\ states[u] # TASK_DEAD /\ pts2[t] = pts2[u] => t = u
    BY <1>1, <1>3, <1>4 DEF OwnTrees
  <2> QED
    BY <1>7, <2>1, <2>2, <2>3 DEF OwnTrees
<1>9. NothingElse(states, pts2, use2)
  <2> SUFFICES ASSUME NEW p \in ManagedPages
               PROVE  /\ use2[p].lv # LIMBO
                      /\ use2[p].lv = 3 =>
                            \/ p = root_page_table
                            \/ \E t \in Task : states[t] # TASK_DEAD /\ pts2[t] = p
    BY DEF NothingElse
  <2>1. /\ use2[p].lv = 3 => use1[p].lv = 3 /\ p # pts[c]
        /\ use2[p].lv = LIMBO => use1[p].lv = LIMBO
    BY DEF Shrank
  <2>2. CASE use[p].lv = FREE
    BY <1>2, <1>3, <2>1, <2>2
  <2>3. CASE use[p].lv # FREE
    <3>1. use1[p] = use[p] /\ use[p].lv # LIMBO
      BY <1>1, <1>2, <2>3 DEF NothingElse
    <3>2. ASSUME use[p].lv = 3, p # root_page_table, p # pts[c]
          PROVE  \E t \in Task : states[t] # TASK_DEAD /\ pts2[t] = p
      <4>1. PICK t \in Task : states[t] # TASK_DEAD /\ pts[t] = p
        BY <1>1, <3>2 DEF NothingElse
      <4> QED
        BY <1>3, <3>2, <4>1
    <3> QED
      BY <2>1, <3>1, <3>2
  <2> QED
    BY <2>2, <2>3
<1>10. Stacks(m2, states, pts2)
  <2> SUFFICES ASSUME NEW t \in Task, states[t] # TASK_DEAD
               PROVE  Valid(LeafPte(m2, pts2[t], USER_STACK_PAGE_VA))
    BY DEF Stacks
  <2>1. USER_STACK_PAGE_VA \in VirtualPages
    BY LayoutFacts DEF UserPages
  <2>2. LeafPte(m2, pts2[t], USER_STACK_PAGE_VA) = LeafPte(m1, pts2[t], USER_STACK_PAGE_VA)
    BY <1>5, <1>7, <2>1
  <2>3. CASE t = c
    BY <1>3, <2>2, <2>3
  <2>4. CASE t # c
    <3>1. LeafPte(m1, pts[t], USER_STACK_PAGE_VA) = LeafPte(mem, pts[t], USER_STACK_PAGE_VA)
      BY <1>1, <1>2, <2>1 DEF OwnTrees
    <3> QED
      BY <1>1, <1>3, <2>2, <2>4, <3>1 DEF Stacks
  <2> QED
    BY <2>3, <2>4
<1>11. Shapes(m2, states, pts2, use2)
  <2>1. /\ NodesIn(use1, g, A)
        /\ \A x, B : x # g /\ NodesIn(use, x, B) => NodesIn(use1, x, B)
    BY GrewNodes DEF Accounts
  <2>2. \A x, B : NodesIn(use1, x, B) => NodesIn(use2, x, B)
    BY ShrankNodes
  <2>3. NodesIn(use2, root_page_table, KernelVas)
    <3>1. root_page_table # g
      BY <1>1, <1>4, PageFacts DEF OwnTrees
    <3> QED
      BY <1>1, <2>1, <2>2, <3>1 DEF Shapes
  <2>4. ASSUME NEW t \in Task, states[t] # TASK_DEAD
        PROVE  \E B \in {BootVas, ImageVas} : NodesIn(use2, pts2[t], B) /\ LeavesIn(m2, pts2[t], B)
    <3>1. \E B \in {BootVas, ImageVas} : NodesIn(use1, pts2[t], B) /\ LeavesIn(m1, pts2[t], B)
      <4>1. CASE t = c
        BY <1>3, <2>1, <4>1
      <4>2. CASE t # c
        <5>1. pts2[t] = pts[t]
          BY <1>3, <4>2
        <5>2. pts[t] \in ManagedPages /\ use[pts[t]].lv = 3 /\ pts[t] # g
          BY <1>1, <1>4, <2>4 DEF OwnTrees
        <5>3. PICK B \in {BootVas, ImageVas} : NodesIn(use, pts[t], B) /\ LeavesIn(mem, pts[t], B)
          BY <1>1, <2>4 DEF Shapes
        <5>4. LeavesIn(m1, pts[t], B)
          BY <1>2, <5>2, <5>3 DEF LeavesIn
        <5> QED
          BY <2>1, <5>1, <5>2, <5>3, <5>4
      <4> QED
        BY <4>1, <4>2
    <3>2. PICK B \in {BootVas, ImageVas} : NodesIn(use1, pts2[t], B) /\ LeavesIn(m1, pts2[t], B)
      BY <3>1
    <3>3. LeavesIn(m2, pts2[t], B)
      BY <1>5, <1>7, <2>4, <3>2 DEF LeavesIn
    <3> QED
      BY <2>2, <3>2, <3>3
  <2> QED
    BY <2>3, <2>4 DEF Shapes
<1>12. Accounts(m2, states, pts2, use2, n2)
  BY <1>1, <1>8, <1>9, <1>10, <1>11 DEF Accounts
<1> QED
  BY <1>12 DEF pts2

(***************************************************************************)
(* The memory that os_main hands to task_init: the kernel's page table,    *)
(* and the other pages on the free list.                                   *)
(***************************************************************************)
LEMMA BootedMaps ==
    /\ \E mem, use0, n0, use, n :
          /\ Heap(mem, use0, n0) /\ \A p \in ManagedPages : use0[p].lv = FREE
          /\ RootMaps(use0, n0, Booted, use, n, KernelVas)
    /\ \A p \in ImageFrames : Booted.ram[p] = KernelPage
<1> DEFINE ram == [p \in RamPages |-> IF p < KernelEnd
                                      THEN [i \in Slots |-> Plain(KERNEL_WORD)]
                                      ELSE ZeroPage]
           mem == [ram |-> ram, free_list |-> 0, stuck |-> FALSE]
<1>1. [i \in Slots |-> Plain(KERNEL_WORD)] \in [Slots -> Word]
  BY MemoryAssumption DEF Plain, Word
<1>2. mem \in Mem /\ mem.free_list = 0 /\ ~mem.stuck
  BY <1>1, ZeroPageFacts DEF Mem
<1>3. Booted = MmuInit(PageInit(mem))
  BY DEF Booted
<1>4. \A p \in ImageFrames : mem.ram[p] = KernelPage
  <2>1. \A p \in ImageFrames : p \in RamPages /\ p < KernelEnd
    BY PageFacts, PageTablesAssumption DEF ImageFrames
  <2> QED
    BY <2>1 DEF KernelPage
<1> HIDE DEF ram, mem
<1>5. PICK use, n : /\ Heap(PageInit(mem), use, n) /\ ~PageInit(mem).stuck
                    /\ \A p \in ManagedPages : use[p].lv = FREE
                    /\ PageInit(mem).free_list = root_page_table
                    /\ ImageKept(mem, PageInit(mem))
  BY <1>2, PageInitHeap
<1>6. /\ ImageKept(PageInit(mem), MmuInit(PageInit(mem)))
      /\ \E use2, n2 : RootMaps(use, n, MmuInit(PageInit(mem)), use2, n2, KernelVas)
  BY <1>5, MmuInitHeap
<1> QED
  BY <1>3, <1>4, <1>5, <1>6 DEF ImageKept

\* Every node of that page table is where a page of the kernel belongs.
LEMMA BootedRoot ==
    /\ \E use, n : RootOnly(Booted, use, n) /\ NodesIn(use, root_page_table, KernelVas)
    /\ \A p \in ImageFrames : Booted.ram[p] = KernelPage
<1>1. PICK use0, n0, use, n : /\ \A p \in ManagedPages : use0[p].lv = FREE
                              /\ RootMaps(use0, n0, Booted, use, n, KernelVas)
  BY BootedMaps
<1>2. RootOnly(Booted, use, n) /\ Placed(use0, use, root_page_table, KernelVas)
  BY <1>1 DEF RootMaps, Cost
<1>3. NodesIn(use, root_page_table, KernelVas)
  BY <1>1, <1>2 DEF Placed, NodesIn, FREE
<1> QED
  BY <1>2, <1>3, BootedMaps

\* The accounts are right when os_main has made the first task.
LEMMA InitAccounts == Init => IInv
<1> SUFFICES ASSUME Init PROVE IInv
  OBVIOUS
<1> DEFINE g      == Booted.free_list
           states == [t \in Task |-> TASK_DEAD]
           pts    == [t \in Task |-> 0]
<1>1. PICK use, n : RootOnly(Booted, use, n) /\ NodesIn(use, root_page_table, KernelVas)
  BY BootedRoot
<1>2. /\ Heap(Booted, use, n) /\ use[root_page_table].lv = 3 /\ Booted \in Mem
      /\ Booted.stuck => Booted.free_list = 0
  BY <1>1 DEF RootOnly, Heap
<1>3. 0 \in Task
  BY MaxTasksAssumption DEF Task
<1>4. states \in [Task -> {TASK_READY, TASK_DEAD}] /\ pts \in [Task -> ManagedPages \cup {0}]
  OBVIOUS
<1>5. Accounts(Booted, states, pts, use, n)
  BY <1>1 DEF Accounts, RootOnly, OwnTrees, NothingElse, Stacks, Shapes
<1>6. m = TaskInit(Booted) /\ calls = 0
  BY DEF Init
<1>7. /\ task_states = IF m.stuck THEN states ELSE [states EXCEPT ![0] = TASK_READY]
      /\ satp = IF m.stuck THEN pts ELSE [pts EXCEPT ![0] = g]
  BY <1>3 DEF Init
<1>8. states[0] = TASK_DEAD
  BY <1>3
<1>9. 0 \in 0 .. MaxCalls
  BY MemoryAssumption
<1>10. g \in ManagedPages \cup {0}
  BY <1>2 DEF Mem
<1>11. TablesOK
  BY <1>3, <1>4, <1>6, <1>7, <1>9, <1>10 DEF TablesOK
<1> HIDE DEF states, pts, g
<1>12. \E use2, n2 : Accounts(m, task_states, satp, use2, n2)
  <2>1. CASE Booted.stuck
    <3>1. m = Booted
      BY <1>2, <1>6, <2>1, TaskInitStuck
    <3> QED
      BY <1>5, <1>7, <2>1, <3>1
  <2>2. CASE ~Booted.stuck
    <3>1. PICK use2, n2 : NewSpace(Booted, use, n, m, use2, n2, g, BootSpace, 4)
      BY <1>2, <1>6, <2>2, BootedRoot, TaskInitMakes DEF g
    <3>2. /\ Grew(Booted, use, m, use2, n2, g, BootVas)
          /\ ~m.stuck => Valid(LeafPte(m, g, USER_STACK_PAGE_VA)) /\ LeavesIn(m, g, BootVas)
      BY <1>2, <3>1, NewSpaceGrew, SpaceVas
    <3>3. CASE m.stuck
      <4>1. Accounts(m, states, pts, use2, n2)
        BY <1>5, <3>2, <3>3, AccountsStuck
      <4> QED
        BY <1>7, <3>3, <4>1
    <3>4. CASE ~m.stuck
      <4>1. Accounts(m, [states EXCEPT ![0] = TASK_READY], [pts EXCEPT ![0] = g], use2, n2)
        BY <1>3, <1>4, <1>5, <1>8, <2>2, <3>2, <3>4, AccountsFork
      <4> QED
        BY <1>7, <3>4, <4>1
    <3> QED
      BY <3>3, <3>4
  <2> QED
    BY <2>1, <2>2
<1> QED
  BY <1>11, <1>12 DEF IInv

(***************************************************************************)
(* Three slots make a virtual page number, and get_vpn gives them back.    *)
(***************************************************************************)
VpnOf(i, j, k) == (i * ENTRIES + j) * ENTRIES + k

\* get_vpn undoes it.
LEMMA VpnOfSlots ==
    ASSUME NEW i \in Slots, NEW j \in Slots, NEW k \in Slots
    PROVE  LET v == VpnOf(i, j, k) IN
           v \in VirtualPages /\ Vpn(v, 2) = i /\ Vpn(v, 1) = j /\ Vpn(v, 0) = k
<1> DEFINE e == ENTRIES
           b == i * e + j
           v == b * e + k
           s == e * e
<1>1. e \in Nat /\ s \in Nat /\ i \in 0 .. e - 1 /\ j \in 0 .. e - 1 /\ k \in 0 .. e - 1
  BY PageTablesAssumption DEF Slots
<1>2. b \in 0 .. s - 1
  <2>1. i * e <= (e - 1) * e /\ i * e \in Nat
    BY <1>1
  <2>2. (e - 1) * e = s - e
    BY <1>1
  <2> QED
    BY <1>1, <2>1, <2>2
<1> HIDE DEF b
<1>3. v \in 0 .. s * e - 1
  <2> HIDE DEF s
  <2>1. b * e <= (s - 1) * e /\ b * e \in Nat
    BY <1>1, <1>2
  <2>2. (s - 1) * e = s * e - e /\ s * e \in Nat
    BY <1>1
  <2> QED
    BY <1>1, <2>1, <2>2
<1>4. v \in VirtualPages
  BY <1>3 DEF VirtualPages
<1> HIDE DEF s
<1> DEFINE i2 == Vpn(v, 2)
           j2 == Vpn(v, 1)
           k2 == Vpn(v, 0)
           b2 == i2 * e + j2
<1>5. i2 \in Slots /\ j2 \in Slots /\ k2 \in Slots /\ v = b2 * e + k2
  BY <1>4, VpnFacts
<1> HIDE DEF i2, j2, k2
<1>6. /\ i2 \in 0 .. e - 1 /\ j2 \in 0 .. e - 1 /\ k2 \in 0 .. e - 1
      /\ i2 \in Nat /\ i \in Nat /\ b2 \in Nat /\ b \in Nat
  BY <1>1, <1>2, <1>5 DEF Slots
<1>7. b2 = b /\ k2 = k
  <2>1. b2 * e + k2 = b * e + k
    BY <1>5
  <2> HIDE DEF b2, e, v
  <2> QED
    BY <1>1, <1>6, <2>1, QuotientUnique
<1>8. i2 = i /\ j2 = j
  <2>1. i2 * e + j2 = i * e + j
    BY <1>7 DEF b
  <2> HIDE DEF e
  <2> QED
    BY <1>1, <1>6, <2>1, QuotientUnique
<1>9. VpnOf(i, j, k) = v
  BY DEF VpnOf, b
<1> HIDE DEF v
<1> QED
  BY <1>4, <1>7, <1>8, <1>9 DEF i2, j2, k2

(***************************************************************************)
(* The virtual pages that a page table maps are those whose walk ends at a *)
(* valid leaf.                                                             *)
(***************************************************************************)
PathOf(mem, g, i, j, k) ==
    LET t2 == PteToPa(mem.ram[g][i])
        t1 == PteToPa(mem.ram[t2][j])
    IN  Valid(mem.ram[g][i]) /\ Valid(mem.ram[t2][j]) /\ Valid(mem.ram[t1][k])

\* walk_pte finds a leaf for a virtual page when its three slots are a path.
LEMMA PathOfLeaf ==
    ASSUME NEW mem, NEW g, NEW v
    PROVE  Valid(LeafPte(mem, g, v)) <=> PathOf(mem, g, Vpn(v, 2), Vpn(v, 1), Vpn(v, 0))
<1>1. ~Valid(Plain(0))
  BY DEF Valid, Flags, Plain
<1> QED
  BY <1>1 DEF LeafPte, PathOf

\* Mapped lists the ends of such paths.
LEMMA MappedPath ==
    ASSUME NEW mem, NEW g, NEW va
    PROVE  va \in Mapped(mem, g) <=>
              \E i, j, k \in Slots : va = VpnOf(i, j, k) /\ PathOf(mem, g, i, j, k)
<1>1. ASSUME va \in Mapped(mem, g)
      PROVE  \E i, j, k \in Slots : va = VpnOf(i, j, k) /\ PathOf(mem, g, i, j, k)
  <2>1. PICK l \in Leaves(mem, g) : va = VpnOf(l[1], l[2], l[3])
    BY <1>1 DEF Mapped, VpnOf
  <2>2. PICK t \in LeafTables(mem, g) :
            \E k \in ValidSlots(mem, t[3]) : l = <<t[1], t[2], k, mem.ram[t[3]][k]>>
    BY DEF Leaves
  <2>3. PICK p \in Pmds(mem, g) :
            \E j \in ValidSlots(mem, p[2]) : t = <<p[1], j, PteToPa(mem.ram[p[2]][j])>>
    BY DEF LeafTables
  <2>4. PICK i \in ValidSlots(mem, g) : p = <<i, PteToPa(mem.ram[g][i])>>
    BY DEF Pmds
  <2>5. PICK j \in ValidSlots(mem, p[2]) : t = <<p[1], j, PteToPa(mem.ram[p[2]][j])>>
    BY <2>3
  <2>6. PICK k \in ValidSlots(mem, t[3]) : l = <<t[1], t[2], k, mem.ram[t[3]][k]>>
    BY <2>2
  <2>7. p[1] = i /\ p[2] = PteToPa(mem.ram[g][i])
    BY <2>4
  <2>8. t[1] = i /\ t[2] = j /\ t[3] = PteToPa(mem.ram[p[2]][j])
    BY <2>5, <2>7
  <2>9. l[1] = i /\ l[2] = j /\ l[3] = k
    BY <2>6, <2>8
  <2>10. i \in Slots /\ j \in Slots /\ k \in Slots /\ PathOf(mem, g, i, j, k)
    BY <2>7, <2>8 DEF ValidSlots, PathOf
  <2> QED
    BY <2>1, <2>9, <2>10
<1>2. ASSUME NEW i \in Slots, NEW j \in Slots, NEW k \in Slots,
             va = VpnOf(i, j, k), PathOf(mem, g, i, j, k)
      PROVE  va \in Mapped(mem, g)
  <2> DEFINE t2 == PteToPa(mem.ram[g][i])
             t1 == PteToPa(mem.ram[t2][j])
             p  == <<i, t2>>
             t  == <<i, j, t1>>
             l  == <<i, j, k, mem.ram[t1][k]>>
  <2>1. i \in ValidSlots(mem, g) /\ j \in ValidSlots(mem, t2) /\ k \in ValidSlots(mem, t1)
    BY <1>2 DEF PathOf, ValidSlots
  <2>2. p \in Pmds(mem, g)
    BY <2>1 DEF Pmds
  <2>3. p[1] = i /\ p[2] = t2 /\ t[1] = i /\ t[2] = j /\ t[3] = t1
        /\ l[1] = i /\ l[2] = j /\ l[3] = k
    OBVIOUS
  <2>4. t = <<p[1], j, PteToPa(mem.ram[p[2]][j])>> /\ l = <<t[1], t[2], k, mem.ram[t[3]][k]>>
    BY <2>3
  <2> HIDE DEF p, t, l, t1, t2
  <2>5. t \in LeafTables(mem, g)
    BY <2>1, <2>2, <2>3, <2>4 DEF LeafTables
  <2>6. l \in Leaves(mem, g)
    BY <2>1, <2>3, <2>4, <2>5 DEF Leaves
  <2> QED
    BY <1>2, <2>3, <2>6 DEF Mapped, VpnOf
<1> QED
  BY <1>1, <1>2

\* A virtual page is mapped when its leaf is valid.
LEMMA MappedIs ==
    ASSUME NEW mem, NEW g, NEW va
    PROVE  va \in Mapped(mem, g) <=> va \in VirtualPages /\ Valid(LeafPte(mem, g, va))
<1>1. ASSUME va \in Mapped(mem, g)
      PROVE  va \in VirtualPages /\ Valid(LeafPte(mem, g, va))
  <2>1. PICK i \in Slots, j \in Slots, k \in Slots :
            va = VpnOf(i, j, k) /\ PathOf(mem, g, i, j, k)
    BY <1>1, MappedPath
  <2> QED
    BY <2>1, VpnOfSlots, PathOfLeaf
<1>2. ASSUME va \in VirtualPages, Valid(LeafPte(mem, g, va))
      PROVE  va \in Mapped(mem, g)
  <2>1. /\ Vpn(va, 0) \in Slots /\ Vpn(va, 1) \in Slots /\ Vpn(va, 2) \in Slots
        /\ va = VpnOf(Vpn(va, 2), Vpn(va, 1), Vpn(va, 0))
    BY <1>2, VpnFacts DEF VpnOf
  <2>2. PathOf(mem, g, Vpn(va, 2), Vpn(va, 1), Vpn(va, 0))
    BY <1>2, PathOfLeaf
  <2> QED
    BY <2>1, <2>2, MappedPath
<1> QED
  BY <1>1, <1>2

(***************************************************************************)
(* The entries of a tree of that shape are where it has nodes or leaves.   *)
(***************************************************************************)
LEMMA ShapeCovered ==
    ASSUME NEW mem, NEW use, NEW n, Heap(mem, use, n), NEW g \in ManagedPages, use[g].lv = 3,
           NEW A \in SUBSET VirtualPages, NodesIn(use, g, A), LeavesIn(mem, g, A)
    PROVE  Covered(mem, use, g, A)
<1> SUFFICES ASSUME NEW p \in TablesOf(use, g), NEW k \in Slots, Valid(mem.ram[p][k])
             PROVE  Belongs(use, p, k, A)
  BY DEF Covered
<1>1. p \in ManagedPages /\ use[p].lv \in {1, 2, 3} /\ use[p].tree = g
  BY DEF TablesOf, Heap, Use
<1>2. ASSUME NEW x \in ManagedPages, use[x].lv \in {2, 3}, NEW i \in Slots, Valid(mem.ram[x][i])
      PROVE  IsBelow(use, PteToPa(mem.ram[x][i]), x, i)
  BY <1>2 DEF Heap, EntriesOK, EntryOK
<1>3. CASE use[p].lv \in {2, 3}
  <2> DEFINE q == PteToPa(mem.ram[p][k])
  <2>1. q \in ManagedPages /\ use[q] = Below(use, p, k)
    BY <1>1, <1>2, <1>3 DEF IsBelow
  <2> HIDE DEF q
  <2>2. /\ use[q].lv = use[p].lv - 1 /\ use[q].tree = g
        /\ use[q].pos = Spell(use[p].pos, k)
    BY <1>1, <2>1 DEF Below
  <2>3. use[q].lv \in 0 .. 2
    BY <1>3, <2>2
  <2> QED
    BY <2>1, <2>2, <2>3 DEF NodesIn, Belongs
<1>4. CASE use[p].lv = 1
  <2> DEFINE p2 == use[p].up
             j  == use[p].slot
             i  == use[p2].slot
             v  == VpnOf(i, j, k)
  <2>1. ASSUME NEW x \in ManagedPages, use[x].lv \in {1, 2}
        PROVE  /\ use[x].up \in ManagedPages /\ use[x].slot \in Slots
               /\ use[use[x].up].lv = use[x].lv + 1 /\ use[use[x].up].tree = use[x].tree
               /\ Valid(mem.ram[use[x].up][use[x].slot])
               /\ PteToPa(mem.ram[use[x].up][use[x].slot]) = x
    BY <2>1 DEF Heap, ParentsOK, ParentOK, Target
  <2>2. /\ p2 \in ManagedPages /\ j \in Slots /\ use[p2].lv = 2 /\ use[p2].tree = g
        /\ Valid(mem.ram[p2][j]) /\ PteToPa(mem.ram[p2][j]) = p
    BY <1>1, <1>4, <2>1
  <2> HIDE DEF p2, j
  <2>3. /\ i \in Slots /\ use[p2].up = g
        /\ Valid(mem.ram[g][i]) /\ PteToPa(mem.ram[g][i]) = p2
    <3>1. /\ use[p2].up \in ManagedPages /\ i \in Slots
          /\ use[use[p2].up].lv = 3 /\ use[use[p2].up].tree = g
          /\ Valid(mem.ram[use[p2].up][i]) /\ PteToPa(mem.ram[use[p2].up][i]) = p2
      BY <2>1, <2>2
    <3>2. use[p2].up = g
      BY <3>1 DEF Heap, TopsOK
    <3> QED
      BY <3>1, <3>2
  <2> HIDE DEF i
  <2>4. use[p2].pos = Spell(0, i) /\ use[p].pos = Spell(use[p2].pos, j)
    <3>1. use[p2] = Below(use, g, i) /\ use[p] = Below(use, p2, j)
      BY <1>2, <2>2, <2>3 DEF IsBelow
    <3>2. use[g].pos = 0
      BY DEF Heap, TopsOK
    <3> QED
      BY <3>1, <3>2 DEF Below
  <2>5. v \in VirtualPages /\ Vpn(v, 2) = i /\ Vpn(v, 1) = j /\ Vpn(v, 0) = k
    BY <2>2, <2>3, VpnOfSlots
  <2>6. v = Spell(use[p].pos, k)
    BY <2>2, <2>3, <2>4, PageTablesAssumption DEF VpnOf, Spell, Slots
  <2> HIDE DEF v
  <2>7. Valid(LeafPte(mem, g, v))
    BY <2>2, <2>3, <2>5, PathOfLeaf DEF PathOf
  <2>8. v \in A /\ Prefix(v, 0) = v
    BY <2>5, <2>7, VpnSpells DEF LeavesIn
  <2> QED
    BY <1>4, <2>6, <2>8 DEF Belongs, Prefixes
<1> QED
  BY <1>1, <1>3, <1>4

\* So the tree of a live task can be copied.
LEMMA TaskCovered ==
    ASSUME NEW mem, NEW states, NEW pts, NEW use, NEW n, Accounts(mem, states, pts, use, n),
           ~mem.stuck, NEW t \in Task, states[t] # TASK_DEAD
    PROVE  \E A \in {BootVas, ImageVas} : Covered(mem, use, pts[t], A) /\ LeavesIn(mem, pts[t], A)
<1>1. /\ Heap(mem, use, n) /\ OwnTrees(states, pts, use) /\ Shapes(mem, states, pts, use)
  BY DEF Accounts
<1>2. pts[t] \in ManagedPages /\ use[pts[t]].lv = 3
  BY <1>1 DEF OwnTrees
<1>3. PICK A \in {BootVas, ImageVas} : NodesIn(use, pts[t], A) /\ LeavesIn(mem, pts[t], A)
  BY <1>1 DEF Shapes
<1>4. A \in SUBSET VirtualPages
  BY SpaceVas, SpacesMade
<1> QED
  BY <1>1, <1>2, <1>3, <1>4, ShapeCovered

(***************************************************************************)
(* Every step keeps the accounts, one lemma for each action.  A store goes *)
(* to a page of data, so it moves nothing.                                 *)
(***************************************************************************)
LEMMA StoreStep ==
    ASSUME IInv, ~m.stuck, NEW t \in Live, NEW va \in Mapped(m, satp[t]),
           NEW i \in StoreSlots, NEW v \in Values, Store(t, va, i, v)
    PROVE  IInv'
<1> DEFINE pte == LeafPte(m, satp[t], va)
           p   == PteToPa(pte)
<1>1. PICK use, n : Accounts(m, task_states, satp, use, n)
  BY DEF IInv
<1>2. TablesOK /\ t \in Task /\ task_states[t] # TASK_DEAD
  BY DEF IInv, Live
<1>3. /\ Heap(m, use, n) /\ OwnTrees(task_states, satp, use)
      /\ NothingElse(task_states, satp, use) /\ Stacks(m, task_states, satp)
      /\ Shapes(m, task_states, satp, use)
  BY <1>1 DEF Accounts
<1>4. {"V", "U", "W"} \subseteq Flags(pte) /\ m' = SetWord(m, p, i, Plain(v))
      /\ UNCHANGED <<task_states, satp, calls>>
  BY DEF Store
<1>5. satp[t] \in ManagedPages /\ satp[t] # root_page_table /\ use[satp[t]].lv = 3
  BY <1>2, <1>3 DEF OwnTrees
<1>6. p \in ManagedPages /\ use[p].lv = 0
  <2>1. va \in VirtualPages
    BY MappedIs
  <2>2. Valid(pte)
    BY <1>4 DEF Valid
  <2>3. \/ p \in ManagedPages /\ use[p].lv = 0 /\ use[p].tree = satp[t]
        \/ p \in ImageFrames /\ ~({"U", "W"} \subseteq Flags(pte))
    BY <1>3, <1>5, <2>1, <2>2, LeafTarget
  <2> QED
    BY <1>4, <2>3
<1>7. i \in Slots /\ Plain(v) \in Word
  BY MemoryAssumption DEF Plain, Word
<1> HIDE DEF p, pte
<1>8. /\ m' \in Mem /\ m'.free_list = m.free_list /\ ~m'.stuck
      /\ \A q \in RamPages \ {p} : m'.ram[q] = m.ram[q]
  <2>1. m \in Mem /\ p \in RamPages
    BY <1>3, <1>6, PageFacts DEF Heap
  <2> QED
    BY <1>4, <1>7, <2>1, SetWordFacts
<1>9. Heap(m', use, n)
  <2>1. use[p].lv \in {LIMBO, 0}
    BY <1>6
  <2>2. m'.stuck = m.stuck
    BY <1>3, <1>8 DEF Heap, Mem
  <2> DEFINE m2 == m'
  <2>3. /\ m2 \in Mem /\ m2.free_list = m.free_list /\ m2.stuck = m.stuck
        /\ \A q \in RamPages \ {p} : m2.ram[q] = m.ram[q]
    BY <1>8, <2>2
  <2> HIDE DEF m2
  <2>4. Heap(m2, use, n)
    BY <1>3, <1>6, <2>1, <2>3, HeapWrite
  <2> QED
    BY <2>4 DEF m2
<1>10. ASSUME NEW u \in Task, task_states[u] # TASK_DEAD, NEW w \in VirtualPages
       PROVE  LeafPte(m', satp[u], w) = LeafPte(m, satp[u], w)
  <2>1. satp[u] \in ManagedPages /\ use[satp[u]].lv = 3
    BY <1>3, <1>10 DEF OwnTrees
  <2>2. \A q \in TablesOf(use, satp[u]) : m'.ram[q] = m.ram[q]
    BY <1>6, <1>8, PageFacts DEF TablesOf
  <2> QED
    BY <1>3, <2>1, <2>2, TreeLeaves
<1>11. Stacks(m', task_states, satp)
  <2>1. USER_STACK_PAGE_VA \in VirtualPages
    BY LayoutFacts DEF UserPages
  <2> QED
    BY <1>3, <1>10, <2>1 DEF Stacks
<1>12. Shapes(m', task_states, satp, use)
  <2>1. ASSUME NEW u \in Task, task_states[u] # TASK_DEAD, NEW A, LeavesIn(m, satp[u], A)
        PROVE  LeavesIn(m', satp[u], A)
    BY <1>10, <2>1 DEF LeavesIn
  <2> QED
    BY <1>3, <2>1 DEF Shapes
<1>13. Accounts(m', task_states, satp, use, n)
  BY <1>3, <1>9, <1>11, <1>12 DEF Accounts
<1>14. Accounts(m', task_states', satp', use, n) /\ TablesOK'
  BY <1>2, <1>4, <1>13 DEF TablesOK
<1> QED
  BY <1>14 DEF IInv

\* The bound on the number of calls.
LEMMA CallCounts ==
    ASSUME calls \in 0 .. MaxCalls, Call
    PROVE  calls' \in 0 .. MaxCalls
BY MemoryAssumption DEF Call

\* task_fork copies a tree, and a copy has a stack because its original does.
LEMMA ForkStep ==
    ASSUME IInv, ~m.stuck, NEW t \in Live, Fork(t)
    PROVE  IInv'
<1> DEFINE c   == AllocTaskSlot(task_states)
           pgd == m.free_list
<1>1. PICK use, n : Accounts(m, task_states, satp, use, n)
  BY DEF IInv
<1>2. TablesOK /\ t \in Task /\ task_states[t] # TASK_DEAD
  BY DEF IInv, Live
<1>3. Heap(m, use, n) /\ use[root_page_table].lv = 3 /\ TaskTable(use, satp[t], 3)
      /\ Stacks(m, task_states, satp)
  <2>1. satp[t] \in ManagedPages /\ satp[t] # root_page_table /\ use[satp[t]].lv = 3
    BY <1>1, <1>2 DEF Accounts, OwnTrees
  <2>2. use[satp[t]].tree = satp[t]
    BY <1>1, <2>1 DEF Accounts, Heap, TopsOK
  <2> QED
    BY <1>1, <2>1, <2>2 DEF Accounts, OwnTrees, TaskTable
<1>4. c # -1 /\ m' = CopyUserPageTable(m, root_page_table, satp[t])
      /\ IF ~m'.stuck /\ Valid(LeafPte(m', pgd, USER_STACK_PAGE_VA))
         THEN /\ satp' = [satp EXCEPT ![c] = pgd]
              /\ task_states' = [task_states EXCEPT ![c] = TASK_READY]
         ELSE UNCHANGED <<satp, task_states>>
  BY DEF Fork
<1>5. calls' \in 0 .. MaxCalls
  BY <1>2, CallCounts DEF Fork, TablesOK
<1>6. c \in Task /\ task_states[c] = TASK_DEAD
  BY <1>4, AllocTaskSlotDead
<1>7. PICK A \in {BootVas, ImageVas} : Covered(m, use, satp[t], A) /\ LeavesIn(m, satp[t], A)
  BY <1>1, <1>2, TaskCovered
<1>8. PICK use2, n2 : CopyUserDone(m, use, m', use2, n2, satp[t], A)
  BY <1>3, <1>4, <1>7, CopyUserHeap
<1> HIDE DEF c
<1>9. Grew(m, use, m', use2, n2, pgd, A)
  BY <1>3, <1>8, CopyGrew
<1>10. CASE m'.stuck
  <2>1. Accounts(m', task_states, satp, use2, n2)
    BY <1>1, <1>9, <1>10, AccountsStuck
  <2>2. Accounts(m', task_states', satp', use2, n2) /\ TablesOK'
    BY <1>2, <1>4, <1>5, <1>10, <2>1 DEF TablesOK
  <2> QED
    BY <2>2 DEF IInv
<1>11. CASE ~m'.stuck
  <2>1. Valid(LeafPte(m, satp[t], USER_STACK_PAGE_VA))
    BY <1>2, <1>3 DEF Stacks
  <2>2. USER_STACK_PAGE_VA \in VirtualPages
    BY LayoutFacts DEF UserPages
  <2>3. SameTree(m, satp[t], m', pgd) /\ pgd \in ManagedPages
    BY <1>8, <1>11 DEF CopyUserDone
  <2>4. Valid(LeafPte(m', pgd, USER_STACK_PAGE_VA))
    BY <2>1, <2>2, <2>3, SameTreeLeaf DEF SameLeaf
  <2>5. LeavesIn(m', pgd, A)
    BY <1>7, <2>3, SameTreeLeaf DEF SameLeaf, LeavesIn
  <2>6. satp' = [satp EXCEPT ![c] = pgd] /\ task_states' = [task_states EXCEPT ![c] = TASK_READY]
    BY <1>4, <1>11, <2>4
  <2>7. task_states \in [Task -> {TASK_READY, TASK_DEAD}] /\ satp \in [Task -> ManagedPages \cup {0}]
    BY <1>2 DEF TablesOK
  <2> DEFINE m2 == m'
  <2> HIDE DEF pgd
  <2>8. /\ Accounts(m, task_states, satp, use, n) /\ ~m.stuck
        /\ Grew(m, use, m2, use2, n2, pgd, A) /\ ~m2.stuck
        /\ Valid(LeafPte(m2, pgd, USER_STACK_PAGE_VA)) /\ LeavesIn(m2, pgd, A)
        /\ A \in {BootVas, ImageVas}
    BY <1>1, <1>9, <1>11, <2>4, <2>5
  <2> HIDE DEF m2
  <2>9. Accounts(m2, [task_states EXCEPT ![c] = TASK_READY], [satp EXCEPT ![c] = pgd], use2, n2)
    <3>1. CASE A = BootVas
      BY <1>6, <2>7, <2>8, <3>1, AccountsFork
    <3>2. CASE A = ImageVas
      BY <1>6, <2>7, <2>8, <3>2, AccountsFork
    <3> QED
      BY <2>8, <3>1, <3>2
  <2>10. Accounts(m', task_states', satp', use2, n2)
    BY <2>6, <2>9 DEF m2
  <2>11. TablesOK'
    BY <1>5, <1>6, <2>3, <2>6, <2>7 DEF TablesOK
  <2> QED
    BY <2>10, <2>11 DEF IInv
<1> QED
  BY <1>10, <1>11

\* task_exec builds a tree and frees the old one; stuck on the way, it changes no task.
LEMMA ExecStep ==
    ASSUME IInv, ~m.stuck, NEW t \in Live, Exec(t)
    PROVE  IInv'
<1> DEFINE m1 == LoadImage(m)
           g  == m.free_list
<1>1. PICK use, n : Accounts(m, task_states, satp, use, n)
  BY DEF IInv
<1>2. TablesOK /\ t \in Task /\ task_states[t] # TASK_DEAD
  BY DEF IInv, Live
<1>3. Heap(m, use, n) /\ OwnTrees(task_states, satp, use)
  BY <1>1 DEF Accounts
<1>4. /\ m' = FreeUserPageTable(m1, root_page_table, satp[t])
      /\ satp' = IF m1.stuck THEN satp ELSE [satp EXCEPT ![t] = g]
      /\ task_states' = task_states
  BY DEF Exec
<1>5. calls' \in 0 .. MaxCalls
  BY <1>2, CallCounts DEF Exec, TablesOK
<1>6. PICK use1, n1 : NewSpace(m, use, n, m1, use1, n1, g, ImageSpace, 2 + Len(Image))
  BY <1>3, LoadImageMakes DEF OwnTrees
<1> HIDE DEF m1, g
<1>7. /\ Grew(m, use, m1, use1, n1, g, ImageVas)
      /\ ~m1.stuck => Valid(LeafPte(m1, g, USER_STACK_PAGE_VA)) /\ LeavesIn(m1, g, ImageVas)
  BY <1>3, <1>6, NewSpaceGrew, SpaceVas
<1>8. task_states \in [Task -> {TASK_READY, TASK_DEAD}] /\ satp \in [Task -> ManagedPages \cup {0}]
  BY <1>2 DEF TablesOK
<1>9. CASE m1.stuck
  <2>1. m' = m1
    BY <1>4, <1>9, FreeUserStuck
  <2>2. Accounts(m1, task_states, satp, use1, n1)
    BY <1>1, <1>7, <1>9, AccountsStuck
  <2>3. Accounts(m', task_states', satp', use1, n1) /\ TablesOK'
    BY <1>4, <1>5, <1>8, <1>9, <2>1, <2>2 DEF TablesOK
  <2> QED
    BY <2>3 DEF IInv
<1>10. CASE ~m1.stuck
  <2>1. /\ Heap(m1, use1, n1) /\ g \in ManagedPages
        /\ \A p \in ManagedPages : use[p].lv # FREE => use1[p] = use[p]
    BY <1>7, <1>10 DEF Grew
  <2>2. /\ satp[t] \in ManagedPages /\ satp[t] # root_page_table /\ use[satp[t]].lv = 3
        /\ use[root_page_table].lv = 3
    BY <1>2, <1>3 DEF OwnTrees
  <2>3. use1[satp[t]].lv = 3 /\ use1[root_page_table].lv = 3
    BY <2>1, <2>2, PageFacts DEF FREE
  <2>4. PICK use2, n2 : Shrank(m1, use1, m', use2, n2, satp[t])
    BY <1>4, <1>10, <2>1, <2>2, <2>3, FreeShrank
  <2>5. Accounts(m', task_states, [satp EXCEPT ![t] = g], use2, n2)
    BY <1>1, <1>2, <1>7, <1>8, <1>10, <2>4, AccountsExec
  <2>6. Accounts(m', task_states', satp', use2, n2)
    BY <1>4, <1>10, <2>5
  <2>7. TablesOK'
    BY <1>4, <1>5, <1>8, <1>10, <2>1 DEF TablesOK
  <2> QED
    BY <2>6, <2>7 DEF IInv
<1> QED
  BY <1>9, <1>10

\* task_exit frees the tree of the task that dies.
LEMMA ExitStep ==
    ASSUME IInv, ~m.stuck, NEW t \in Live, Exit(t)
    PROVE  IInv'
<1>1. PICK use, n : Accounts(m, task_states, satp, use, n)
  BY DEF IInv
<1>2. TablesOK /\ t \in Task /\ task_states[t] # TASK_DEAD
  BY DEF IInv, Live
<1>3. /\ m' = FreeUserPageTable(m, root_page_table, satp[t])
      /\ task_states' = [task_states EXCEPT ![t] = TASK_DEAD]
      /\ satp' = satp
  BY DEF Exit
<1>4. calls' \in 0 .. MaxCalls
  BY <1>2, CallCounts DEF Exit, TablesOK
<1>5. /\ Heap(m, use, n) /\ use[root_page_table].lv = 3
      /\ satp[t] \in ManagedPages /\ satp[t] # root_page_table /\ use[satp[t]].lv = 3
  BY <1>1, <1>2 DEF Accounts, OwnTrees
<1>6. task_states \in [Task -> {TASK_READY, TASK_DEAD}] /\ satp \in [Task -> ManagedPages \cup {0}]
  BY <1>2 DEF TablesOK
<1>7. PICK use2, n2 : Shrank(m, use, m', use2, n2, satp[t])
  BY <1>3, <1>5, FreeShrank
<1>8. Accounts(m', [task_states EXCEPT ![t] = TASK_DEAD], satp, use2, n2)
  BY <1>1, <1>2, <1>6, <1>7, AccountsExit
<1>9. Accounts(m', task_states', satp', use2, n2)
  BY <1>3, <1>8
<1>10. TablesOK'
  BY <1>3, <1>4, <1>6 DEF TablesOK
<1> QED
  BY <1>9, <1>10 DEF IInv

(***************************************************************************)
(* The invariant is inductive.                                             *)
(***************************************************************************)
THEOREM IInvInvariant == Spec => []IInv
<1>1. Init => IInv
  BY InitAccounts
<1>2. IInv /\ [Next]_vars => IInv'
  <2> SUFFICES ASSUME IInv, [Next]_vars
               PROVE  IInv'
    OBVIOUS
  <2>1. CASE Next
    <3>1. ~m.stuck
      BY <2>1 DEF Next
    <3>2. PICK t \in Live :
             \/ \E va \in Mapped(m, satp[t]), i \in StoreSlots, v \in Values : Store(t, va, i, v)
             \/ Fork(t) \/ Exec(t) \/ Exit(t)
      BY <2>1 DEF Next
    <3>3. CASE \E va \in Mapped(m, satp[t]), i \in StoreSlots, v \in Values : Store(t, va, i, v)
      BY <3>1, <3>3, StoreStep
    <3>4. CASE Fork(t)
      BY <3>1, <3>4, ForkStep
    <3>5. CASE Exec(t)
      BY <3>1, <3>5, ExecStep
    <3>6. CASE Exit(t)
      BY <3>1, <3>6, ExitStep
    <3> QED
      BY <3>2, <3>3, <3>4, <3>5, <3>6
  <2>2. CASE UNCHANGED vars
    BY <2>2 DEF vars, IInv, TablesOK
  <2> QED
    BY <2>1, <2>2
<1> QED
  BY <1>1, <1>2, PTL DEF Spec

(***************************************************************************)
(* What the definitions of module PageTables find in a tree is what `use`  *)
(* says of its pages, and the other way round.                             *)
(***************************************************************************)
LEMMA PmdIs ==
    ASSUME NEW mem, NEW use, NEW n, Heap(mem, use, n), NEW g \in ManagedPages, use[g].lv = 3,
           NEW p \in Pmds(mem, g)
    PROVE  /\ p = <<p[1], p[2]>> /\ p[1] \in Slots /\ p[2] \in ManagedPages
           /\ use[p[2]].lv = 2 /\ use[p[2]].tree = g
           /\ use[p[2]].up = g /\ use[p[2]].slot = p[1]
           /\ Flags(mem.ram[g][p[1]]) = {"V"}
<1>1. PICK i \in Slots : p = <<i, PteToPa(mem.ram[g][i])>> /\ Valid(mem.ram[g][i])
  BY DEF Pmds, ValidSlots
<1>2. p[1] = i /\ p[2] = PteToPa(mem.ram[g][i])
  BY <1>1
<1>3. use[g].tree = g
  BY DEF Heap, TopsOK
<1>4. Flags(mem.ram[g][i]) = {"V"} /\ IsBelow(use, p[2], g, i)
  BY <1>1, <1>2 DEF Heap, EntriesOK, EntryOK
<1> QED
  BY <1>1, <1>2, <1>3, <1>4 DEF IsBelow, Below

\* The tables of the last level.
LEMMA LeafTableIs ==
    ASSUME NEW mem, NEW use, NEW n, Heap(mem, use, n), NEW g \in ManagedPages, use[g].lv = 3,
           NEW l \in LeafTables(mem, g)
    PROVE  /\ l = <<l[1], l[2], l[3]>> /\ l[3] \in ManagedPages
           /\ use[l[3]].lv = 1 /\ use[l[3]].tree = g /\ use[l[3]].slot = l[2]
           /\ use[use[l[3]].up].slot = l[1]
<1>1. PICK p \in Pmds(mem, g) : \E j \in Slots :
         l = <<p[1], j, PteToPa(mem.ram[p[2]][j])>> /\ Valid(mem.ram[p[2]][j])
  BY DEF LeafTables, ValidSlots
<1>2. PICK j \in Slots : l = <<p[1], j, PteToPa(mem.ram[p[2]][j])>> /\ Valid(mem.ram[p[2]][j])
  BY <1>1
<1>3. l[1] = p[1] /\ l[2] = j /\ l[3] = PteToPa(mem.ram[p[2]][j])
  BY <1>2
<1>4. p[2] \in ManagedPages /\ use[p[2]].lv = 2 /\ use[p[2]].tree = g /\ use[p[2]].slot = p[1]
  BY PmdIs
<1>5. IsBelow(use, l[3], p[2], j)
  BY <1>2, <1>3, <1>4 DEF Heap, EntriesOK, EntryOK
<1> QED
  BY <1>2, <1>3, <1>4, <1>5 DEF IsBelow, Below

LeafOf(mem, use, g, l, q) ==
    /\ l = <<l[1], l[2], l[3], l[4]>> /\ l[3] \in Slots
    /\ q \in ManagedPages /\ use[q].lv = 1 /\ use[q].tree = g /\ use[q].slot = l[2]
    /\ use[use[q].up].slot = l[1]
    /\ l[4] = mem.ram[q][l[3]] /\ Valid(l[4])

\* The leaves.
LEMMA LeafIs ==
    ASSUME NEW mem, NEW use, NEW n, Heap(mem, use, n), NEW g \in ManagedPages, use[g].lv = 3,
           NEW l \in Leaves(mem, g)
    PROVE  \E q : LeafOf(mem, use, g, l, q)
<1>1. PICK t \in LeafTables(mem, g) : \E k \in Slots :
         l = <<t[1], t[2], k, mem.ram[t[3]][k]>> /\ Valid(mem.ram[t[3]][k])
  BY DEF Leaves, ValidSlots
<1>2. PICK k \in Slots : l = <<t[1], t[2], k, mem.ram[t[3]][k]>> /\ Valid(mem.ram[t[3]][k])
  BY <1>1
<1>3. l[1] = t[1] /\ l[2] = t[2] /\ l[3] = k /\ l[4] = mem.ram[t[3]][k]
  BY <1>2
<1>4. /\ t[3] \in ManagedPages /\ use[t[3]].lv = 1 /\ use[t[3]].tree = g
      /\ use[t[3]].slot = t[2] /\ use[use[t[3]].up].slot = t[1]
  BY LeafTableIs
<1>5. l = <<l[1], l[2], l[3], l[4]>>
  BY <1>2, <1>3
<1> QED
  BY <1>2, <1>3, <1>4, <1>5 DEF LeafOf

\* Every middle table is found.
LEMMA PmdThere ==
    ASSUME NEW mem, NEW use, NEW n, Heap(mem, use, n),
           NEW q \in ManagedPages, use[q].lv = 2
    PROVE  /\ use[use[q].tree].lv = 3 /\ use[q].tree \in ManagedPages
           /\ <<use[q].slot, q>> \in Pmds(mem, use[q].tree)
<1> DEFINE p == use[q].up
           i == use[q].slot
<1>1. /\ p \in ManagedPages /\ i \in Slots /\ use[p].lv = 3 /\ use[p].tree = use[q].tree
      /\ Valid(mem.ram[p][i]) /\ PteToPa(mem.ram[p][i]) = q
  BY DEF Heap, ParentsOK, ParentOK, Target
<1>2. p = use[q].tree
  BY <1>1 DEF Heap, TopsOK
<1> HIDE DEF p, i
<1>3. i \in ValidSlots(mem, p)
  BY <1>1 DEF ValidSlots
<1>4. <<i, q>> \in Pmds(mem, p)
  BY <1>1, <1>3 DEF Pmds
<1>5. i = use[q].slot
  BY DEF i
<1> QED
  BY <1>1, <1>2, <1>4, <1>5

\* Every last table is found.
LEMMA LeafTableThere ==
    ASSUME NEW mem, NEW use, NEW n, Heap(mem, use, n),
           NEW q \in ManagedPages, use[q].lv = 1
    PROVE  /\ use[use[q].tree].lv = 3 /\ use[q].tree \in ManagedPages
           /\ <<use[use[q].up].slot, use[q].slot, q>> \in LeafTables(mem, use[q].tree)
<1> DEFINE p == use[q].up
           j == use[q].slot
           g == use[q].tree
<1>1. /\ p \in ManagedPages /\ j \in Slots /\ use[p].lv = 2 /\ use[p].tree = g
      /\ Valid(mem.ram[p][j]) /\ PteToPa(mem.ram[p][j]) = q
  BY DEF Heap, ParentsOK, ParentOK, Target
<1> HIDE DEF p, j, g
<1>2. use[g].lv = 3 /\ g \in ManagedPages /\ <<use[p].slot, p>> \in Pmds(mem, g)
  BY <1>1, PmdThere
<1>3. j \in ValidSlots(mem, p)
  BY <1>1 DEF ValidSlots
<1>4. <<use[p].slot, j, q>> \in LeafTables(mem, g)
  <2> DEFINE x == <<use[p].slot, p>>
  <2>1. x[1] = use[p].slot /\ x[2] = p /\ x \in Pmds(mem, g)
    BY <1>2
  <2> HIDE DEF x
  <2>2. <<x[1], j, PteToPa(mem.ram[x[2]][j])>> \in LeafTables(mem, g)
    BY <1>3, <2>1 DEF LeafTables
  <2> QED
    BY <1>1, <2>1, <2>2
<1> QED
  BY <1>2, <1>4 DEF p, j, g

\* Every page of data is found.
LEMMA LeafThere ==
    ASSUME NEW mem, NEW use, NEW n, Heap(mem, use, n),
           NEW q \in ManagedPages, use[q].lv = 0
    PROVE  /\ use[use[q].tree].lv = 3 /\ use[q].tree \in ManagedPages
           /\ use[q].tree # root_page_table
           /\ \E l \in Leaves(mem, use[q].tree) : PteToPa(l[4]) = q
<1> DEFINE p == use[q].up
           k == use[q].slot
           g == use[q].tree
<1>1. /\ p \in ManagedPages /\ k \in Slots /\ use[p].lv = 1 /\ use[p].tree = g
      /\ Valid(mem.ram[p][k]) /\ PteToPa(mem.ram[p][k]) = q /\ g # root_page_table
  BY DEF Heap, ParentsOK, ParentOK, Target
<1> HIDE DEF p, k, g
<1> DEFINE x == <<use[use[p].up].slot, use[p].slot, p>>
<1>2. use[g].lv = 3 /\ g \in ManagedPages /\ x \in LeafTables(mem, g)
  BY <1>1, LeafTableThere
<1>3. x[3] = p /\ k \in ValidSlots(mem, p)
  BY <1>1 DEF ValidSlots
<1> HIDE DEF x
<1> DEFINE l == <<x[1], x[2], k, mem.ram[x[3]][k]>>
<1>4. l \in Leaves(mem, g)
  BY <1>2, <1>3 DEF Leaves
<1>5. PteToPa(l[4]) = q
  BY <1>1, <1>3
<1> HIDE DEF l
<1> QED
  BY <1>1, <1>2, <1>4, <1>5 DEF g

(***************************************************************************)
(* The rounds of get_free_page_count (page.c:82), and where they stop.     *)
(***************************************************************************)
LEMMA FreeListRun ==
    ASSUME NEW mem
    PROVE  /\ FreeListNodes(mem)[0] = mem.free_list
           /\ \A k \in 0 .. RamEnd - KernelEnd - 1 :
                 FreeListNodes(mem)[k + 1] =
                    IF FreeListNodes(mem)[k] = 0 THEN 0
                    ELSE PteToPa(mem.ram[FreeListNodes(mem)[k]][0])
<1> DEFINE N == RamEnd - KernelEnd
           Round(x) == IF x = 0 THEN 0 ELSE PteToPa(mem.ram[x][0])
           IsRun(g, j) == g = [k \in 0 .. j |-> IF k = 0 THEN mem.free_list ELSE Round(g[k - 1])]
           Reached == {j \in 0 .. N : \E g : IsRun(g, j)}
<1>0. N \in Nat
  BY PageTablesAssumption
<1> HIDE DEF N, Round
<1>1. 0 \in Reached
  <2> DEFINE g == [k \in 0 .. 0 |-> mem.free_list]
  <2>1. IsRun(g, 0)
    OBVIOUS
  <2> HIDE DEF g, IsRun
  <2> QED
    BY <1>0, <2>1
<1>2. ASSUME NEW j \in 0 .. N - 1, j \in Reached
      PROVE  j + 1 \in Reached
  <2> HIDE DEF IsRun
  <2>1. PICK g : IsRun(g, j)
    BY <1>2
  <2> DEFINE h == [k \in 0 .. j + 1 |-> IF k <= j THEN g[k] ELSE Round(g[j])]
  <2>2. IsRun(h, j + 1)
    BY <1>0, <2>1 DEF IsRun
  <2> HIDE DEF h
  <2> QED
    BY <1>0, <2>2
<1>3. \E g : IsRun(g, N)
  <2>1. \A j \in 0 .. N : j \in Reached
    <3> HIDE DEF Reached
    <3> QED
      BY <1>0, <1>1, <1>2, Induct
  <2> HIDE DEF IsRun
  <2> QED
    BY <1>0, <2>1
<1> DEFINE acc == CHOOSE g : IsRun(g, N)
<1>4. IsRun(acc, N)
  <2> HIDE DEF IsRun
  <2> QED
    BY <1>3
<1>5. FreeListNodes(mem) = acc
  BY DEF Round, N, FreeListNodes
<1> HIDE DEF acc
<1>6. acc[0] = mem.free_list /\ \A k \in 0 .. N - 1 : acc[k + 1] = Round(acc[k])
  BY <1>0, <1>4
<1> HIDE DEF IsRun, Reached
<1> QED
  BY <1>5, <1>6 DEF Round, N

(***************************************************************************)
(* The k-th page visited is the one in place n - k of the list.            *)
(***************************************************************************)
NodeOK(use, n, k, p) ==
    IF k < n THEN p \in ManagedPages /\ use[p].lv = FREE /\ use[p].slot = n - k ELSE p = 0

\* get_free_page_count visits the list in order.
LEMMA FreeNodes ==
    ASSUME NEW mem, NEW use, NEW n, FreeListOK(mem, use, n)
    PROVE  \A k \in 0 .. RamEnd - KernelEnd : NodeOK(use, n, k, FreeListNodes(mem)[k])
<1> DEFINE N == RamEnd - KernelEnd
           node == FreeListNodes(mem)
           S == {k \in 0 .. N : NodeOK(use, n, k, node[k])}
<1>0. N \in Nat /\ n \in Nat
  BY PageTablesAssumption DEF FreeListOK
<1>1. /\ node[0] = mem.free_list
      /\ \A k \in 0 .. N - 1 :
            node[k + 1] = IF node[k] = 0 THEN 0 ELSE PteToPa(mem.ram[node[k]][0])
  BY FreeListRun
<1> HIDE DEF N, node
<1>2. 0 \in S
  BY <1>0, <1>1 DEF FreeListOK, NodeOK
<1>3. ASSUME NEW k \in 0 .. N - 1, k \in S
      PROVE  k + 1 \in S
  <2>1. NodeOK(use, n, k, node[k])
    BY <1>3
  <2>2. NodeOK(use, n, k + 1, node[k + 1])
    <3>1. CASE k >= n
      BY <1>0, <1>1, <2>1, <3>1 DEF NodeOK
    <3>2. CASE k < n
      <4> DEFINE p == node[k]
      <4>1. p \in ManagedPages /\ use[p].lv = FREE /\ use[p].slot = n - k /\ p # 0
        BY <2>1, <3>2, PageFacts DEF NodeOK
      <4>2. node[k + 1] = Target(mem, p, 0)
        BY <1>1, <4>1 DEF Target
      <4> HIDE DEF p
      <4>3. CASE use[p].slot = 1
        <5>1. node[k + 1] = 0
          BY <4>1, <4>2, <4>3 DEF FreeListOK
        <5> QED
          BY <1>0, <4>1, <4>3, <5>1 DEF NodeOK
      <4>4. CASE use[p].slot # 1
        <5>1. /\ node[k + 1] \in ManagedPages /\ use[node[k + 1]].lv = FREE
              /\ use[node[k + 1]].slot = (n - k) - 1
          BY <4>1, <4>2, <4>4 DEF FreeListOK
        <5>2. (n - k) - 1 = n - (k + 1) /\ k + 1 < n
          BY <1>0, <3>2, <4>1, <4>4
        <5> QED
          BY <5>1, <5>2 DEF NodeOK
      <4> QED
        BY <4>3, <4>4
    <3> QED
      BY <1>0, <3>1, <3>2
  <2> QED
    BY <1>0, <2>2
<1>4. \A k \in 0 .. N : k \in S
  <2> HIDE DEF S
  <2> QED
    BY <1>0, <1>2, <1>3, Induct
<1> QED
  BY <1>4 DEF N, node

(***************************************************************************)
(* A list of free pages is no longer than there are pages.                 *)
(***************************************************************************)
LEMMA FreeListShort ==
    ASSUME NEW mem, NEW use, NEW n, FreeListOK(mem, use, n)
    PROVE  n <= RamEnd - KernelEnd
<1> DEFINE N == RamEnd - KernelEnd
           node == FreeListNodes(mem)
<1>0. N \in Nat /\ n \in Nat /\ KernelEnd \in Int /\ RamEnd \in Int
  BY PageTablesAssumption DEF FreeListOK
<1>1. SUFFICES ASSUME n > N PROVE FALSE
  BY <1>0
<1>2. \A k \in 0 .. N : node[k] \in ManagedPages /\ use[node[k]].slot = n - k
  BY <1>0, <1>1, FreeNodes DEF NodeOK
<1> HIDE DEF node
<1> DEFINE f == [k \in 0 .. N |-> node[k]]
<1>3. IsFiniteSet(ManagedPages) /\ Cardinality(ManagedPages) = N
  <2>1. /\ IsFiniteSet(KernelEnd .. RamEnd - 1)
        /\ Cardinality(KernelEnd .. RamEnd - 1) =
              IF KernelEnd > RamEnd - 1 THEN 0 ELSE RamEnd - 1 - KernelEnd + 1
    BY <1>0, FS_Interval
  <2>2. KernelEnd < RamEnd
    BY PageTablesAssumption
  <2> QED
    BY <1>0, <2>1, <2>2 DEF ManagedPages
<1>4. IsFiniteSet(0 .. N) /\ Cardinality(0 .. N) = N + 1
  BY <1>0, FS_Interval
<1>5. f \in [0 .. N -> ManagedPages]
  BY <1>2
<1>6. \A j, k \in 0 .. N : f[j] = f[k] => j = k
  BY <1>0, <1>2
<1> QED
  <2> HIDE DEF f, N
  <2>1. Cardinality(ManagedPages) < Cardinality(0 .. N)
    BY <1>0, <1>3, <1>4 DEF N
  <2>2. \E x, y \in 0 .. N : x # y /\ f[x] = f[y]
    BY <1>3, <1>4, <1>5, <2>1, FS_PigeonHole
  <2> QED
    BY <1>6, <2>2

(***************************************************************************)
(* The path of slots that leads to a page of a tree.  Each reference of a  *)
(* live task is the path to its page, and each page of its tree has one.   *)
(***************************************************************************)
PathTo(use, q) ==
    IF use[q].lv = 3 THEN <<>>
    ELSE IF use[q].lv = 2 THEN <<use[q].slot>>
    ELSE IF use[q].lv = 1 THEN <<use[use[q].up].slot, use[q].slot>>
    ELSE <<use[use[use[q].up].up].slot, use[use[q].up].slot, use[q].slot>>

IsRef(use, g, lv, r) ==
    /\ r[2] \in ManagedPages /\ use[r[2]].lv = lv /\ use[r[2]].tree = g
    /\ r = <<PathTo(use, r[2]), r[2]>>

\* The references to tables.
LEMMA TableRefs ==
    ASSUME NEW use, NEW n, Accounts(m, task_states, satp, use, n),
           NEW t \in Live, NEW r \in TableReferences(t)
    PROVE  \E lv \in {1, 2, 3} : IsRef(use, satp[t], lv, r)
<1> DEFINE g == satp[t]
<1>1. Heap(m, use, n) /\ g \in ManagedPages /\ use[g].lv = 3 /\ use[g].tree = g
  BY DEF Accounts, OwnTrees, Live, Heap, TopsOK
<1> HIDE DEF g
<1>2. CASE r = <<<<>>, g>>
  <2>1. r[2] = g
    BY <1>2
  <2> QED
    BY <1>1, <1>2, <2>1 DEF IsRef, PathTo, g
<1>3. ASSUME NEW p \in Pmds(m, g), r = <<<<p[1]>>, p[2]>>
      PROVE  IsRef(use, g, 2, r)
  <2>1. r[2] = p[2]
    BY <1>3
  <2>2. p[2] \in ManagedPages /\ use[p[2]].lv = 2 /\ use[p[2]].tree = g /\ use[p[2]].slot = p[1]
    BY <1>1, PmdIs
  <2> QED
    BY <1>3, <2>1, <2>2 DEF IsRef, PathTo
<1>4. ASSUME NEW l \in LeafTables(m, g), r = <<<<l[1], l[2]>>, l[3]>>
      PROVE  IsRef(use, g, 1, r)
  <2>1. r[2] = l[3]
    BY <1>4
  <2>2. /\ l[3] \in ManagedPages /\ use[l[3]].lv = 1 /\ use[l[3]].tree = g
        /\ use[l[3]].slot = l[2] /\ use[use[l[3]].up].slot = l[1]
    BY <1>1, LeafTableIs
  <2> QED
    BY <1>4, <2>1, <2>2 DEF IsRef, PathTo
<1>5. \/ r = <<<<>>, g>>
      \/ \E p \in Pmds(m, g) : r = <<<<p[1]>>, p[2]>>
      \/ \E l \in LeafTables(m, g) : r = <<<<l[1], l[2]>>, l[3]>>
  BY DEF TableReferences, g
<1> QED
  BY <1>2, <1>3, <1>4, <1>5 DEF g

(***************************************************************************)
(* A leaf of a live task: the page of data it refers to is below it.       *)
(***************************************************************************)
LEMMA LeafData ==
    ASSUME NEW use, NEW n, Accounts(m, task_states, satp, use, n),
           NEW t \in Live, NEW l \in Leaves(m, satp[t])
    PROVE  LET q == PteToPa(l[4]) IN
           /\ {"R", "A", "D"} \subseteq Flags(l[4])
           /\ \/ q < KernelEnd /\ ~({"U", "W"} \subseteq Flags(l[4]))
              \/ q >= KernelEnd /\ IsRef(use, satp[t], 0, <<<<l[1], l[2], l[3]>>, q>>)
<1> DEFINE g == satp[t]
           q == PteToPa(l[4])
           r == <<<<l[1], l[2], l[3]>>, q>>
<1>1. Heap(m, use, n) /\ g \in ManagedPages /\ use[g].lv = 3 /\ g # root_page_table
  BY DEF Accounts, OwnTrees, Live
<1>2. PICK p : LeafOf(m, use, g, l, p)
  BY <1>1, LeafIs
<1>3. /\ l[3] \in Slots /\ p \in ManagedPages /\ use[p].lv = 1 /\ use[p].tree = g
      /\ use[p].slot = l[2] /\ use[use[p].up].slot = l[1]
      /\ l[4] = m.ram[p][l[3]] /\ Valid(l[4])
  BY <1>2 DEF LeafOf
<1>4. EntryOK(m, use, p, l[3])
  BY <1>1, <1>3 DEF Heap, EntriesOK
<1>5. /\ {"R", "A", "D"} \subseteq Flags(l[4])
      /\ IsBelow(use, q, p, l[3]) \/ (q \in ImageFrames /\ ~({"U", "W"} \subseteq Flags(l[4])))
  BY <1>1, <1>3, <1>4 DEF EntryOK
<1>6. CASE q \in ImageFrames /\ ~({"U", "W"} \subseteq Flags(l[4]))
  BY <1>5, <1>6, PageFacts
<1>7. CASE IsBelow(use, q, p, l[3])
  <2>1. /\ q \in ManagedPages /\ use[q].lv = 0 /\ use[q].tree = g
        /\ use[q].up = p /\ use[q].slot = l[3]
    BY <1>3, <1>7 DEF IsBelow, Below
  <2>2. PathTo(use, q) = <<l[1], l[2], l[3]>>
    BY <1>3, <2>1 DEF PathTo
  <2> HIDE DEF q, g
  <2>3. r[2] = q /\ r = <<<<l[1], l[2], l[3]>>, q>>
    OBVIOUS
  <2> HIDE DEF r
  <2>4. IsRef(use, g, 0, r)
    BY <2>1, <2>2, <2>3 DEF IsRef
  <2>5. q >= KernelEnd
    BY <2>1, PageFacts
  <2> QED
    BY <1>5, <2>4, <2>5 DEF r, q, g
<1> QED
  BY <1>5, <1>6, <1>7

\* The references to data.
LEMMA DataRefs ==
    ASSUME NEW use, NEW n, Accounts(m, task_states, satp, use, n),
           NEW t \in Live, NEW r \in DataReferences(t)
    PROVE  IsRef(use, satp[t], 0, r)
<1>1. PICK l \in Leaves(m, satp[t]) : r = <<<<l[1], l[2], l[3]>>, PteToPa(l[4])>>
  BY DEF DataReferences
<1>2. r[2] = PteToPa(l[4]) /\ r[2] >= KernelEnd
  BY <1>1 DEF DataReferences
<1> DEFINE q == PteToPa(l[4])
<1>3. \/ q < KernelEnd
      \/ IsRef(use, satp[t], 0, <<<<l[1], l[2], l[3]>>, q>>)
  BY LeafData
<1>4. q \in Int
  <2>1. Heap(m, use, n) /\ satp[t] \in ManagedPages /\ use[satp[t]].lv = 3
    BY DEF Accounts, OwnTrees, Live
  <2>2. PICK p : LeafOf(m, use, satp[t], l, p)
    BY <2>1, LeafIs
  <2>3. l[4] \in Word
    BY <2>1, <2>2, PageFacts DEF LeafOf, Heap, Mem
  <2> QED
    BY <2>3, WordFacts
<1> HIDE DEF q
<1>5. ~(q < KernelEnd)
  BY <1>2, <1>4, PageTablesAssumption DEF q
<1> QED
  BY <1>1, <1>3, <1>5 DEF q

\* The pages of a live task are those of its tree, all of them.
LEMMA TaskPagesAre ==
    ASSUME NEW use, NEW n, Accounts(m, task_states, satp, use, n), NEW t \in Live
    PROVE  TaskPages(t) = {q \in ManagedPages : use[q].lv >= 0 /\ use[q].tree = satp[t]}
<1>1. /\ Heap(m, use, n) /\ satp[t] \in ManagedPages /\ use[satp[t]].lv = 3
      /\ satp[t] # root_page_table /\ TopsOK(use) /\ use \in [ManagedPages -> Use]
  BY DEF Accounts, OwnTrees, Live, Heap
<1>2. ASSUME NEW q \in TaskPages(t)
      PROVE  q \in ManagedPages /\ use[q].lv >= 0 /\ use[q].tree = satp[t]
  <2>1. PICK r \in TableReferences(t) \cup DataReferences(t) : q = r[2]
    BY DEF TaskPages, TablePages, DataPages
  <2>2. \E lv \in {0, 1, 2, 3} : IsRef(use, satp[t], lv, r)
    BY TableRefs, DataRefs
  <2> QED
    BY <2>1, <2>2 DEF IsRef
<1>3. ASSUME NEW q \in ManagedPages, use[q].lv >= 0, use[q].tree = satp[t]
      PROVE  q \in TaskPages(t)
  <2>1. use[q].lv \in {0, 1, 2, 3}
    BY <1>1, <1>3 DEF Use
  <2>2. CASE use[q].lv = 3
    <3>1. q = satp[t]
      BY <1>1, <1>3, <2>2 DEF TopsOK
    <3>2. <<<<>>, q>> \in TableReferences(t)
      BY <3>1 DEF TableReferences
    <3>3. <<<<>>, q>>[2] = q
      OBVIOUS
    <3> QED
      BY <3>2, <3>3 DEF TaskPages, TablePages
  <2>3. CASE use[q].lv = 2
    <3> DEFINE p == <<use[q].slot, q>>
               r == <<<<p[1]>>, p[2]>>
    <3>1. p \in Pmds(m, satp[t])
      BY <1>1, <1>3, <2>3, PmdThere
    <3>2. r \in TableReferences(t)
      BY <3>1 DEF TableReferences
    <3>3. r[2] = q
      OBVIOUS
    <3> HIDE DEF r
    <3> QED
      BY <3>2, <3>3 DEF TaskPages, TablePages
  <2>4. CASE use[q].lv = 1
    <3> DEFINE l == <<use[use[q].up].slot, use[q].slot, q>>
               r == <<<<l[1], l[2]>>, l[3]>>
    <3>1. l \in LeafTables(m, satp[t])
      BY <1>1, <1>3, <2>4, LeafTableThere
    <3>2. r \in TableReferences(t)
      BY <3>1 DEF TableReferences
    <3>3. r[2] = q
      OBVIOUS
    <3> HIDE DEF r
    <3> QED
      BY <3>2, <3>3 DEF TaskPages, TablePages
  <2>5. CASE use[q].lv = 0
    <3>1. PICK l \in Leaves(m, satp[t]) : PteToPa(l[4]) = q
      BY <1>1, <1>3, <2>5, LeafThere
    <3> DEFINE r == <<<<l[1], l[2], l[3]>>, PteToPa(l[4])>>
    <3>2. r[2] = q /\ q >= KernelEnd
      BY <3>1, PageFacts
    <3>3. r \in DataReferences(t)
      BY <3>2 DEF DataReferences
    <3> HIDE DEF r
    <3> QED
      BY <3>2, <3>3 DEF TaskPages, DataPages
  <2> QED
    BY <2>1, <2>2, <2>3, <2>4, <2>5
<1> QED
  BY <1>2, <1>3

\* The pages of the kernel's tree are all tables.
LEMMA KernelTablesAre ==
    ASSUME NEW use, NEW n, Accounts(m, task_states, satp, use, n)
    PROVE  KernelTables = {q \in ManagedPages : use[q].lv >= 0 /\ use[q].tree = root_page_table}
<1> DEFINE g == root_page_table
<1>1. /\ Heap(m, use, n) /\ g \in ManagedPages /\ use[g].lv = 3 /\ use[g].tree = g
      /\ TopsOK(use) /\ use \in [ManagedPages -> Use]
  BY PageFacts DEF Accounts, OwnTrees, Heap, TopsOK
<1> HIDE DEF g
<1>2. ASSUME NEW q \in KernelTables
      PROVE  q \in ManagedPages /\ use[q].lv >= 0 /\ use[q].tree = g
  <2>1. CASE q = g
    BY <1>1, <2>1
  <2>2. CASE \E p \in Pmds(m, g) : q = p[2]
    BY <1>1, <2>2, PmdIs
  <2>3. CASE \E l \in LeafTables(m, g) : q = l[3]
    BY <1>1, <2>3, LeafTableIs
  <2> QED
    BY <2>1, <2>2, <2>3 DEF KernelTables, g
<1>3. ASSUME NEW q \in ManagedPages, use[q].lv >= 0, use[q].tree = g
      PROVE  q \in KernelTables
  <2>1. use[q].lv \in {0, 1, 2, 3}
    BY <1>1, <1>3 DEF Use
  <2>2. CASE use[q].lv = 3
    BY <1>1, <1>3, <2>2 DEF TopsOK, KernelTables, g
  <2>3. CASE use[q].lv = 2
    <3> DEFINE p == <<use[q].slot, q>>
    <3>1. p \in Pmds(m, g) /\ p[2] = q
      BY <1>1, <1>3, <2>3, PmdThere
    <3> HIDE DEF p
    <3> QED
      BY <3>1 DEF KernelTables, g
  <2>4. CASE use[q].lv = 1
    <3> DEFINE l == <<use[use[q].up].slot, use[q].slot, q>>
    <3>1. l \in LeafTables(m, g) /\ l[3] = q
      BY <1>1, <1>3, <2>4, LeafTableThere
    <3> HIDE DEF l
    <3> QED
      BY <3>1 DEF KernelTables, g
  <2>5. use[q].lv # 0
    BY <1>1, <1>3, LeafThere DEF g
  <2> QED
    BY <2>1, <2>2, <2>3, <2>4, <2>5
<1> QED
  BY <1>2, <1>3 DEF g

\* The pages on the list are the free ones, all of them.
LEMMA FreePagesAre ==
    ASSUME NEW use, NEW n, Accounts(m, task_states, satp, use, n)
    PROVE  FreePages = {q \in ManagedPages : use[q].lv = FREE}
<1> DEFINE N == RamEnd - KernelEnd
<1>1. FreeListOK(m, use, n) /\ n \in Nat /\ N \in Nat
  BY PageTablesAssumption DEF Accounts, Heap, FreeListOK
<1>2. n <= N
  BY <1>1, FreeListShort
<1>3. \A k \in 0 .. N : NodeOK(use, n, k, FreeListNodes(m)[k])
  BY <1>1, FreeNodes
<1>4. FreePages = {FreeListNodes(m)[k] : k \in 0 .. N} \ {0}
  BY DEF FreePages
<1> HIDE DEF N
<1>5. ASSUME NEW q \in FreePages
      PROVE  q \in ManagedPages /\ use[q].lv = FREE
  <2>1. PICK k \in 0 .. N : q = FreeListNodes(m)[k] /\ q # 0
    BY <1>4
  <2> QED
    BY <1>3, <2>1 DEF NodeOK
<1>6. ASSUME NEW q \in ManagedPages, use[q].lv = FREE
      PROVE  q \in FreePages
  <2> DEFINE k == n - use[q].slot
  <2>1. use[q].slot \in 1 .. n
    BY <1>1, <1>6 DEF FreeListOK
  <2>2. k \in 0 .. N /\ k < n /\ n - k = use[q].slot
    BY <1>1, <1>2, <2>1
  <2> HIDE DEF k
  <2> DEFINE p == FreeListNodes(m)[k]
  <2>3. NodeOK(use, n, k, p)
    BY <1>3, <2>2
  <2>4. p \in FreePages \/ p = 0
    BY <1>4, <2>2
  <2> HIDE DEF p
  <2>5. p \in ManagedPages /\ use[p].lv = FREE /\ use[p].slot = use[q].slot
    BY <2>2, <2>3 DEF NodeOK
  <2>6. p = q
    BY <1>1, <1>6, <2>5 DEF FreeListOK
  <2> QED
    BY <2>4, <2>5, <2>6, PageFacts
<1> QED
  BY <1>5, <1>6

(***************************************************************************)
(* A task's tree is one that the hardware can read.                        *)
(***************************************************************************)
LEMMA TreeWellFormed ==
    ASSUME NEW use, NEW n, Accounts(m, task_states, satp, use, n), NEW t \in Live
    PROVE  WellFormed(m, satp[t])
<1> DEFINE g == satp[t]
<1>1. Heap(m, use, n) /\ g \in ManagedPages /\ use[g].lv = 3
  BY DEF Accounts, OwnTrees, Live
<1>2. EntriesOK(m, use)
  BY <1>1 DEF Heap
<1> HIDE DEF g
<1>3. \A i \in ValidSlots(m, g) : Flags(m.ram[g][i]) = {"V"}
  BY <1>1, <1>2 DEF EntriesOK, EntryOK, ValidSlots
<1>4. ASSUME NEW p \in Pmds(m, g), NEW j \in ValidSlots(m, p[2])
      PROVE  Flags(m.ram[p[2]][j]) = {"V"}
  <2>1. p[2] \in ManagedPages /\ use[p[2]].lv = 2
    BY <1>1, PmdIs
  <2> DEFINE q == p[2]
  <2>2. j \in Slots /\ Valid(m.ram[q][j])
    BY DEF ValidSlots
  <2> HIDE DEF q
  <2>3. EntryOK(m, use, q, j) /\ use[q].lv > 1
    BY <1>2, <2>1, <2>2 DEF EntriesOK, q
  <2>4. Flags(m.ram[q][j]) = {"V"}
    BY <2>3 DEF EntryOK
  <2> QED
    BY <2>4 DEF q
<1>5. \A l \in Leaves(m, g) : {"R", "A", "D"} \subseteq Flags(l[4])
  BY LeafData DEF g
<1> QED
  BY <1>3, <1>4, <1>5 DEF WellFormed, g

(***************************************************************************)
(* Memory is made of words, and the page table of every live task is a     *)
(* page that the allocator gave away and a tree that the hardware reads as *)
(* the kernel does, in every reachable state of every machine.             *)
(***************************************************************************)
THEOREM MemoryTypeOK == Spec => []TypeOK
<1>1. IInv => TypeOK
  <2> SUFFICES ASSUME IInv PROVE TypeOK
    OBVIOUS
  <2>1. PICK use, n : Accounts(m, task_states, satp, use, n)
    BY DEF IInv
  <2>2. m \in Mem
    BY <2>1 DEF Accounts, Heap
  <2>3. DOMAIN m = {"ram", "free_list", "stuck"} /\ DOMAIN m.ram = RamPages
    BY <2>2 DEF Mem
  <2>4. ASSUME NEW p \in RamPages
        PROVE  /\ DOMAIN m.ram[p] = Slots
               /\ \A i \in Slots : m.ram[p][i][1] \in Int /\ Flags(m.ram[p][i]) \subseteq PteFlags
    <3>1. m.ram[p] \in [Slots -> Word]
      BY <2>2 DEF Mem
    <3>2. \A i \in Slots : m.ram[p][i] \in Word
      BY <3>1
    <3> QED
      BY <3>1, <3>2, WordFacts DEF PteToPa
  <2>5. m.free_list \in ManagedPages \cup {0} /\ m.stuck \in BOOLEAN
    BY <2>2 DEF Mem
  <2>6. \A t \in Live : WellFormed(m, satp[t])
    BY <2>1, TreeWellFormed
  <2> QED
    BY <2>3, <2>4, <2>5, <2>6 DEF TypeOK, IInv, TablesOK
<1> QED
  BY <1>1, IInvInvariant, PTL

(***************************************************************************)
(* No page ever has two uses: neither fork, exec nor exit, in any order    *)
(* and however often the table slots are reused, makes two page tables     *)
(* refer to one page or frees a page that is in use (mmu.c:110, 152).      *)
(***************************************************************************)
THEOREM NoPageIsShared == Spec => []NoPageSharedOrFreeInUse
<1>1. IInv => NoPageSharedOrFreeInUse
  <2> SUFFICES ASSUME IInv PROVE NoPageSharedOrFreeInUse
    OBVIOUS
  <2>1. PICK use, n : Accounts(m, task_states, satp, use, n)
    BY DEF IInv
  <2>2. /\ \A t \in Live : satp[t] # root_page_table
        /\ \A t, u \in Live : t # u => satp[t] # satp[u]
    BY <2>1 DEF Accounts, OwnTrees, Live
  <2>3. ASSUME NEW t \in Live,
               NEW r \in TableReferences(t) \cup DataReferences(t),
               NEW s \in TableReferences(t) \cup DataReferences(t), r[2] = s[2]
        PROVE  r = s
    <3>1. \E lv \in {0, 1, 2, 3} : IsRef(use, satp[t], lv, r)
      BY <2>1, TableRefs, DataRefs
    <3>2. \E lv \in {0, 1, 2, 3} : IsRef(use, satp[t], lv, s)
      BY <2>1, TableRefs, DataRefs
    <3> QED
      BY <2>3, <3>1, <3>2 DEF IsRef
  <2>4. \A t \in Live :
           TaskPages(t) = {q \in ManagedPages : use[q].lv >= 0 /\ use[q].tree = satp[t]}
    BY <2>1, TaskPagesAre
  <2>5. KernelTables = {q \in ManagedPages : use[q].lv >= 0 /\ use[q].tree = root_page_table}
    BY <2>1, KernelTablesAre
  <2>6. FreePages = {q \in ManagedPages : use[q].lv = FREE}
    BY <2>1, FreePagesAre
  <2>7. \A t \in Live : TaskPages(t) \cap (FreePages \cup KernelTables) = {}
    BY <2>2, <2>4, <2>5, <2>6 DEF FREE
  <2>8. \A t, u \in Live : t # u => TaskPages(t) \cap TaskPages(u) = {}
    BY <2>2, <2>4
  <2>9. FreePages \cap KernelTables = {}
    BY <2>5, <2>6 DEF FREE
  <2> QED
    BY <2>3, <2>7, <2>8, <2>9 DEF NoPageSharedOrFreeInUse
<1> QED
  BY <1>1, IInvInvariant, PTL

(***************************************************************************)
(* No page is ever lost while the machine works: all that fork and exec    *)
(* took, exec and exit give back, so the free list and the page tables     *)
(* together hold every page (task.c:142 reports the pages recovered).      *)
(***************************************************************************)
THEOREM NoPageIsLost == Spec => []NoPageLost
<1>1. IInv => NoPageLost
  <2> SUFFICES ASSUME IInv, ~m.stuck
               PROVE  ManagedPages =
                        FreePages \cup KernelTables \cup UNION {TaskPages(t) : t \in Live}
    BY DEF NoPageLost
  <2>1. PICK use, n : Accounts(m, task_states, satp, use, n)
    BY DEF IInv
  <2>2. /\ NothingElse(task_states, satp, use)
        /\ Heap(m, use, n) /\ use \in [ManagedPages -> Use] /\ TopsOK(use)
    BY <2>1 DEF Accounts, Heap
  <2>3. \A t \in Live :
           TaskPages(t) = {q \in ManagedPages : use[q].lv >= 0 /\ use[q].tree = satp[t]}
    BY <2>1, TaskPagesAre
  <2>4. KernelTables = {q \in ManagedPages : use[q].lv >= 0 /\ use[q].tree = root_page_table}
    BY <2>1, KernelTablesAre
  <2>5. FreePages = {q \in ManagedPages : use[q].lv = FREE}
    BY <2>1, FreePagesAre
  <2>6. ASSUME NEW q \in ManagedPages
        PROVE  q \in FreePages \cup KernelTables \cup UNION {TaskPages(t) : t \in Live}
    <3>1. use[q].lv \in {FREE, 0, 1, 2, 3}
      <4>1. use[q].lv \in -2 .. 3 /\ use[q].lv # LIMBO
        BY <2>2 DEF Use, NothingElse
      <4> QED
        BY <4>1 DEF FREE, LIMBO
    <3>2. CASE use[q].lv = FREE
      BY <2>5, <3>2
    <3>3. CASE use[q].lv \in {0, 1, 2, 3}
      <4>1. use[q].tree \in ManagedPages /\ use[use[q].tree].lv = 3
        <5>1. CASE use[q].lv = 3
          BY <2>2, <5>1 DEF TopsOK
        <5>2. CASE use[q].lv = 2
          BY <2>2, <5>2, PmdThere
        <5>3. CASE use[q].lv = 1
          BY <2>2, <5>3, LeafTableThere
        <5>4. CASE use[q].lv = 0
          BY <2>2, <5>4, LeafThere
        <5> QED
          BY <3>3, <5>1, <5>2, <5>3, <5>4
      <4>2. CASE use[q].tree = root_page_table
        BY <2>4, <3>3, <4>2
      <4>3. CASE use[q].tree # root_page_table
        <5>1. PICK t \in Task : task_states[t] # TASK_DEAD /\ satp[t] = use[q].tree
          BY <2>2, <4>1, <4>3 DEF NothingElse
        <5>2. t \in Live
          BY <5>1 DEF Live
        <5>3. q \in TaskPages(t)
          BY <2>3, <3>3, <5>1, <5>2
        <5> QED
          BY <5>2, <5>3
      <4> QED
        BY <4>2, <4>3
    <3> QED
      BY <3>1, <3>2, <3>3
  <2>7. \A t \in Live : TaskPages(t) \subseteq ManagedPages
    BY <2>3
  <2>8. FreePages \cup KernelTables \subseteq ManagedPages
    BY <2>4, <2>5
  <2> QED
    BY <2>6, <2>7, <2>8
<1> QED
  BY <1>1, IInvInvariant, PTL

(***************************************************************************)
(* The list of free pages ends, after no more pages than there are, so     *)
(* get_free_page_count (page.c:82) returns and alloc_page never hands out  *)
(* one page for ever.                                                      *)
(***************************************************************************)
THEOREM TheFreeListEnds == Spec => []FreeListEnds
<1>1. IInv => FreeListEnds
  <2> SUFFICES ASSUME IInv PROVE FreeListEnds
    OBVIOUS
  <2>1. PICK use, n : Accounts(m, task_states, satp, use, n)
    BY DEF IInv
  <2> DEFINE N == RamEnd - KernelEnd
  <2>2. FreeListOK(m, use, n) /\ n \in Nat /\ N \in Nat
    BY <2>1, PageTablesAssumption DEF Accounts, Heap, FreeListOK
  <2>3. n <= N
    BY <2>2, FreeListShort
  <2>4. NodeOK(use, n, N, FreeListNodes(m)[N])
    BY <2>2, FreeNodes
  <2>5. FreeListNodes(m)[N] = 0
    BY <2>2, <2>3, <2>4 DEF NodeOK
  <2>6. FreePages \subseteq ManagedPages
    BY <2>1, FreePagesAre
  <2> QED
    BY <2>5, <2>6 DEF FreeListEnds
<1> QED
  BY <1>1, IInvInvariant, PTL

(***************************************************************************)
(* A program can write nothing but pages of data of its own: no page table *)
(* and no page of the kernel image, whose text and constants the boot      *)
(* program maps without PTE_W (task.c:54-55).                              *)
(***************************************************************************)
THEOREM ProgramsWriteOwnData == Spec => []WritesOnlyOwnData
<1>1. IInv => WritesOnlyOwnData
  <2> SUFFICES ASSUME IInv, NEW t \in Live, NEW l \in Leaves(m, satp[t]),
                      {"U", "W"} \subseteq Flags(l[4])
               PROVE  PteToPa(l[4]) \in DataPages(t) \ TablePages(t)
    BY DEF WritesOnlyOwnData
  <2>1. PICK use, n : Accounts(m, task_states, satp, use, n)
    BY DEF IInv
  <2> DEFINE q == PteToPa(l[4])
             r == <<<<l[1], l[2], l[3]>>, q>>
  <2>2. q >= KernelEnd /\ IsRef(use, satp[t], 0, r)
    BY <2>1, LeafData
  <2>3. r[2] = q
    OBVIOUS
  <2>4. r \in DataReferences(t)
    BY <2>2, <2>3 DEF DataReferences
  <2> HIDE DEF r
  <2>5. q \in DataPages(t) /\ use[q].lv = 0
    BY <2>2, <2>3, <2>4 DEF DataPages, IsRef
  <2>6. ASSUME NEW s \in TableReferences(t), s[2] = q
        PROVE  FALSE
    <3>1. \E lv \in {1, 2, 3} : IsRef(use, satp[t], lv, s)
      BY <2>1, TableRefs
    <3> QED
      BY <2>5, <2>6, <3>1 DEF IsRef
  <2> QED
    BY <2>5, <2>6 DEF TablePages
<1> QED
  BY <1>1, IInvInvariant, PTL

(***************************************************************************)
(* Memory is enough.  Sets with at most k members.                         *)
(***************************************************************************)
AtMost(S, k) == IsFiniteSet(S) /\ Cardinality(S) <= k

\* A part of such a set is one.
LEMMA AtMostSubset ==
    ASSUME NEW S, NEW k \in Nat, AtMost(S, k), NEW T, T \subseteq S
    PROVE  AtMost(T, k)
<1>1. IsFiniteSet(T) /\ Cardinality(T) <= Cardinality(S)
  BY FS_Subset DEF AtMost
<1>2. Cardinality(T) \in Nat /\ Cardinality(S) \in Nat /\ Cardinality(S) <= k
  BY <1>1, FS_CardinalityType DEF AtMost
<1> QED
  BY <1>1, <1>2 DEF AtMost

\* Two such sets together.
LEMMA AtMostUnion ==
    ASSUME NEW S, NEW j \in Nat, AtMost(S, j), NEW T, NEW k \in Nat, AtMost(T, k)
    PROVE  AtMost(S \cup T, j + k)
<1>1. /\ IsFiniteSet(S \cup T)
      /\ Cardinality(S \cup T) = Cardinality(S) + Cardinality(T) - Cardinality(S \cap T)
  BY FS_Union DEF AtMost
<1>2. IsFiniteSet(S \cap T)
  BY FS_Intersection DEF AtMost
<1>3. Cardinality(S) \in Nat /\ Cardinality(T) \in Nat /\ Cardinality(S \cap T) \in Nat
  BY <1>2, FS_CardinalityType DEF AtMost
<1>4. Cardinality(S) <= j /\ Cardinality(T) <= k
  BY DEF AtMost
<1>5. Cardinality(S \cup T) <= j + k
  BY <1>1, <1>3, <1>4
<1> QED
  BY <1>1, <1>5 DEF AtMost

\* A set whose members are told apart by what f makes of them.
LEMMA AtMostInjection ==
    ASSUME NEW S, NEW T, IsFiniteSet(T), NEW f \in [S -> T], \A x, y \in S : f[x] = f[y] => x = y
    PROVE  AtMost(S, Cardinality(T))
<1>1. f \in Injection(S, T)
  BY DEF Injection, IsInjective
<1> QED
  BY <1>1, FS_Injection DEF AtMost

\* N sets of at most P members.
LEMMA AtMostAll ==
    ASSUME NEW N \in Nat, NEW P \in Nat, NEW F, \A t \in 0 .. N - 1 : AtMost(F[t], P)
    PROVE  AtMost(UNION {F[t] : t \in 0 .. N - 1}, N * P)
<1> DEFINE U(k) == UNION {F[t] : t \in 0 .. k - 1}
           S == {k \in 0 .. N : AtMost(U(k), k * P)}
<1>1. 0 \in S
  <2>1. U(0) = {}
    OBVIOUS
  <2>2. IsFiniteSet({}) /\ Cardinality({}) = 0 /\ 0 * P = 0
    BY FS_EmptySet
  <2>3. AtMost(U(0), 0 * P)
    BY <2>1, <2>2 DEF AtMost
  <2> QED
    BY <2>3
<1>2. ASSUME NEW k \in 0 .. N - 1, k \in S
      PROVE  k + 1 \in S
  <2>1. U(k + 1) = U(k) \cup F[k]
    <3>1. \A t : t \in 0 .. (k + 1) - 1 <=> t \in 0 .. k - 1 \/ t = k
      OBVIOUS
    <3> QED
      BY <3>1
  <2>2. AtMost(U(k), k * P) /\ AtMost(F[k], P) /\ k \in Nat
    BY <1>2
  <2>3. k * P \in Nat /\ (k + 1) * P = k * P + P
    BY <2>2
  <2> DEFINE V == U(k)
             W == F[k]
             kP == k * P
  <2>4. AtMost(V, kP) /\ AtMost(W, P) /\ kP \in Nat /\ (k + 1) * P = kP + P
    BY <2>2, <2>3
  <2> HIDE DEF V, W, kP
  <2>5. AtMost(V \cup W, kP + P)
    BY <2>4, AtMostUnion
  <2>6. AtMost(U(k + 1), (k + 1) * P)
    BY <2>1, <2>4, <2>5 DEF V, W
  <2> QED
    BY <1>2, <2>6
<1>3. \A k \in 0 .. N : k \in S
  <2> HIDE DEF S
  <2> QED
    BY <1>1, <1>2, Induct
<1>4. N \in S
  <2> HIDE DEF S
  <2> QED
    BY <1>3
<1> QED
  BY <1>4

\* The pages that the allocator manages.
LEMMA ManagedFinite == IsFiniteSet(ManagedPages) /\ Cardinality(ManagedPages) \in Nat
<1>1. IsFiniteSet(ManagedPages)
  BY PageTablesAssumption, FS_Interval DEF ManagedPages
<1> QED
  BY <1>1, FS_CardinalityType

(***************************************************************************)
(* The size of a tree, level by level: no two of its nodes are at the same *)
(* place, and each is where a virtual page belongs.                        *)
(***************************************************************************)
LEMMA NodePlace ==
    ASSUME NEW mem, NEW use, NEW n, Heap(mem, use, n), NEW q \in ManagedPages, use[q].lv \in 0 .. 2
    PROVE  LET p == use[q].up IN
           /\ p \in ManagedPages /\ use[q].slot \in Slots
           /\ use[p].lv = use[q].lv + 1 /\ use[p].tree = use[q].tree
           /\ Target(mem, p, use[q].slot) = q
           /\ use[q].pos = Spell(use[p].pos, use[q].slot)
<1> DEFINE p == use[q].up
           i == use[q].slot
<1>1. ParentOK(mem, use, q)
  BY DEF Heap, ParentsOK
<1>2. /\ p \in ManagedPages /\ i \in Slots
      /\ use[p].lv = use[q].lv + 1 /\ use[p].tree = use[q].tree
      /\ Valid(mem.ram[p][i]) /\ Target(mem, p, i) = q
      /\ use[q].lv = 0 => use[q].tree # root_page_table
  BY <1>1 DEF ParentOK
<1>3. use[p].lv > 0 /\ (use[q].lv = 0 => use[p].lv = 1) /\ (use[q].lv # 0 => use[p].lv > 1)
  BY <1>2
<1>4. EntryOK(mem, use, p, i)
  BY <1>2, <1>3 DEF Heap, EntriesOK
<1>5. q \notin ImageFrames
  BY PageFacts
<1>6. IsBelow(use, q, p, i)
  BY <1>2, <1>3, <1>4, <1>5 DEF EntryOK, Target
<1>7. use[q].pos = Spell(use[p].pos, i)
  BY <1>6 DEF IsBelow, Below
<1> QED
  BY <1>2, <1>7

\* Places are numbers.
LEMMA PlaceNat ==
    ASSUME NEW A \in SUBSET VirtualPages, NEW lv \in 0 .. 2, NEW x \in Prefixes(A, lv)
    PROVE  x \in Nat
<1>1. PICK v \in A : x = Prefix(v, lv)
  BY DEF Prefixes
<1>2. v \in VirtualPages /\ v \in Nat
  BY DEF VirtualPages
<1>3. ENTRIES \in Nat \ {0} /\ Reach(lv) \in Nat \ {0}
  <2>1. ENTRIES \in Nat \ {0} /\ ENTRIES * ENTRIES \in Nat \ {0}
    BY PageTablesAssumption
  <2> QED
    BY <2>1 DEF Reach
<1> QED
  BY <1>1, <1>2, <1>3, DivRange DEF Prefix

\* Where the tables above are told apart by their places, so are the nodes below.
LEMMA PlacesBelow ==
    ASSUME NEW mem, NEW use, NEW n, Heap(mem, use, n),
           NEW p \in ManagedPages, NEW q \in ManagedPages,
           use[p].lv \in 0 .. 2, use[q].lv \in 0 .. 2, use[p].pos = use[q].pos,
           use[use[p].up].pos \in Nat, use[use[q].up].pos \in Nat,
           use[use[p].up].pos = use[use[q].up].pos => use[p].up = use[q].up
    PROVE  p = q
<1> DEFINE a == use[use[p].up].pos
           b == use[use[q].up].pos
<1>1. /\ use[p].pos = Spell(a, use[p].slot) /\ use[q].pos = Spell(b, use[q].slot)
      /\ use[p].slot \in Slots /\ use[q].slot \in Slots
      /\ Target(mem, use[p].up, use[p].slot) = p /\ Target(mem, use[q].up, use[q].slot) = q
  BY NodePlace
<1>2. a \in Nat /\ b \in Nat /\ (a = b => use[p].up = use[q].up)
  OBVIOUS
<1> HIDE DEF a, b
<1>3. Spell(a, use[p].slot) = Spell(b, use[q].slot)
  BY <1>1
<1>4. a = b /\ use[p].slot = use[q].slot
  BY <1>1, <1>2, <1>3, SpellUnique
<1> QED
  BY <1>1, <1>2, <1>4

\* From the top down, no two nodes of one level are at the same place.
LEMMA PlacesDiffer ==
    ASSUME NEW mem, NEW use, NEW n, Heap(mem, use, n), NEW g,
           NEW A \in SUBSET VirtualPages, NodesIn(use, g, A), NEW lv \in 0 .. 2,
           NEW p \in ManagedPages, use[p].lv = lv, use[p].tree = g,
           NEW q \in ManagedPages, use[q].lv = lv, use[q].tree = g, use[p].pos = use[q].pos
    PROVE  p = q
<1>1. ASSUME NEW r \in ManagedPages, use[r].lv \in 0 .. 2, use[r].tree = g
      PROVE  /\ use[r].up \in ManagedPages /\ use[use[r].up].lv = use[r].lv + 1
             /\ use[use[r].up].tree = g
  BY <1>1, NodePlace
<1>2. ASSUME NEW r \in ManagedPages, use[r].lv = 3, use[r].tree = g
      PROVE  r = g /\ use[r].pos = 0
  BY <1>2 DEF Heap, TopsOK
<1>3. ASSUME NEW r \in ManagedPages, use[r].lv \in 1 .. 2, use[r].tree = g
      PROVE  use[r].pos \in Nat
  <2>1. use[r].pos \in Prefixes(A, use[r].lv) /\ use[r].lv \in 0 .. 2
    BY <1>3 DEF NodesIn
  <2> DEFINE l == use[r].lv
             x == use[r].pos
  <2>2. l \in 0 .. 2 /\ x \in Prefixes(A, l)
    BY <2>1
  <2> HIDE DEF l, x
  <2>3. x \in Nat
    BY <2>2, PlaceNat
  <2> QED
    BY <2>3 DEF x
<1>4. ASSUME NEW r \in ManagedPages, use[r].lv = 2, use[r].tree = g,
             NEW s \in ManagedPages, use[s].lv = 2, use[s].tree = g, use[r].pos = use[s].pos
      PROVE  r = s
  <2>1. use[r].up = g /\ use[s].up = g /\ use[g].pos = 0
    BY <1>1, <1>2, <1>4
  <2> QED
    BY <1>4, <2>1, PlacesBelow
<1>5. ASSUME NEW r \in ManagedPages, use[r].lv = 1, use[r].tree = g,
             NEW s \in ManagedPages, use[s].lv = 1, use[s].tree = g, use[r].pos = use[s].pos
      PROVE  r = s
  <2>1. /\ use[r].up \in ManagedPages /\ use[use[r].up].lv = 2 /\ use[use[r].up].tree = g
        /\ use[s].up \in ManagedPages /\ use[use[s].up].lv = 2 /\ use[use[s].up].tree = g
    BY <1>1, <1>5
  <2>2. use[use[r].up].pos \in Nat /\ use[use[s].up].pos \in Nat
    BY <1>3, <2>1
  <2>3. use[use[r].up].pos = use[use[s].up].pos => use[r].up = use[s].up
    BY <1>4, <2>1
  <2> QED
    BY <1>5, <2>2, <2>3, PlacesBelow
<1>6. CASE lv = 0
  <2>1. /\ use[p].up \in ManagedPages /\ use[use[p].up].lv = 1 /\ use[use[p].up].tree = g
        /\ use[q].up \in ManagedPages /\ use[use[q].up].lv = 1 /\ use[use[q].up].tree = g
    BY <1>1, <1>6
  <2>2. use[use[p].up].pos \in Nat /\ use[use[q].up].pos \in Nat
    BY <1>3, <2>1
  <2>3. use[use[p].up].pos = use[use[q].up].pos => use[p].up = use[q].up
    BY <1>5, <2>1
  <2> QED
    BY <1>6, <2>2, <2>3, PlacesBelow
<1> QED
  BY <1>4, <1>5, <1>6

Level(use, g, lv) == {q \in ManagedPages : use[q].lv = lv /\ use[q].tree = g}

\* So a level has no more nodes than there are places for them.
LEMMA LevelSize ==
    ASSUME NEW mem, NEW use, NEW n, Heap(mem, use, n), NEW g,
           NEW A \in SUBSET VirtualPages, NodesIn(use, g, A), NEW lv \in 0 .. 2
    PROVE  AtMost(Level(use, g, lv), Cardinality(Prefixes(A, lv)))
<1> DEFINE S == Level(use, g, lv)
           T == Prefixes(A, lv)
           f == [q \in S |-> use[q].pos]
<1>1. IsFiniteSet(T)
  BY PrefixesFinite
<1>2. f \in [S -> T]
  BY DEF NodesIn, Level
<1>3. \A x, y \in S : f[x] = f[y] => x = y
  <2> SUFFICES ASSUME NEW x \in S, NEW y \in S, f[x] = f[y]
               PROVE  x = y
    OBVIOUS
  <2>1. /\ x \in ManagedPages /\ use[x].lv = lv /\ use[x].tree = g
        /\ y \in ManagedPages /\ use[y].lv = lv /\ use[y].tree = g /\ use[x].pos = use[y].pos
    BY DEF Level
  <2> QED
    BY <2>1, PlacesDiffer
<1> HIDE DEF S, T, f
<1>4. AtMost(S, Cardinality(T))
  BY <1>1, <1>2, <1>3, AtMostInjection
<1> QED
  BY <1>4 DEF S, T

\* The pages of a tree: its top, the tables below it and the pages of data.
TreeOf(use, g) == {q \in ManagedPages : q = g \/ (use[q].lv \in 0 .. 2 /\ use[q].tree = g)}

\* A tree for the virtual pages A has no more pages than A needs; the kernel's
\* has no pages of data.
LEMMA TreeSize ==
    ASSUME NEW mem, NEW use, NEW n, Heap(mem, use, n), NEW g,
           NEW A \in SUBSET VirtualPages, NodesIn(use, g, A)
    PROVE  /\ PagesFor(A) \in Nat /\ 1 + TablesFor(A) \in Nat
           /\ AtMost(TreeOf(use, g), PagesFor(A))
           /\ AtMost(TreeOf(use, root_page_table), 1 + TablesFor(A)) \/ g # root_page_table
<1> DEFINE c0 == Cardinality(A)
           c1 == Cardinality(Prefixes(A, 1))
           c2 == Cardinality(Prefixes(A, 2))
           L(lv) == Level(use, g, lv)
<1>1. c0 \in Nat /\ c1 \in Nat /\ c2 \in Nat /\ TablesFor(A) = c2 + c1
  BY PrefixesFinite, FS_CardinalityType, TablesForIs
<1>2. Prefixes(A, 0) = A
  <2>1. \A v \in A : Prefix(v, 0) = v
    BY VpnSpells
  <2> QED
    BY <2>1 DEF Prefixes
<1>3. AtMost(L(0), c0) /\ AtMost(L(1), c1) /\ AtMost(L(2), c2)
  <2>1. AtMost(L(0), Cardinality(Prefixes(A, 0))) /\ AtMost(L(1), c1) /\ AtMost(L(2), c2)
    BY LevelSize
  <2> QED
    BY <1>2, <2>1
<1>4. AtMost({g}, 1)
  <2>1. IsFiniteSet({g}) /\ Cardinality({g}) = 1
    BY FS_Singleton
  <2> QED
    BY <2>1 DEF AtMost
<1>5. TreeOf(use, g) \subseteq (({g} \cup L(2)) \cup L(1)) \cup L(0)
  BY DEF TreeOf, Level
<1>6. g = root_page_table => L(0) = {}
  <2>1. \A q \in ManagedPages : use[q].lv = 0 => use[q].tree # root_page_table
    BY DEF Heap, ParentsOK, ParentOK
  <2> QED
    BY <2>1 DEF Level
<1> DEFINE S0 == L(0)
           S1 == L(1)
           S2 == L(2)
<1>7. /\ AtMost(S0, c0) /\ AtMost(S1, c1) /\ AtMost(S2, c2)
      /\ TreeOf(use, g) \subseteq (({g} \cup S2) \cup S1) \cup S0
      /\ g = root_page_table => TreeOf(use, g) \subseteq ({g} \cup S2) \cup S1
  BY <1>3, <1>5, <1>6
<1>8. PagesFor(A) = ((1 + c2) + c1) + c0 /\ 1 + TablesFor(A) = (1 + c2) + c1
  BY <1>1 DEF PagesFor
<1> HIDE DEF S0, S1, S2, c0, c1, c2
<1>9. AtMost({g} \cup S2, 1 + c2) /\ 1 + c2 \in Nat
  BY <1>1, <1>4, <1>7, AtMostUnion
<1> DEFINE d2 == 1 + c2
           d1 == d2 + c1
           d0 == d1 + c0
<1>10. AtMost({g} \cup S2, d2) /\ d2 \in Nat /\ d1 \in Nat /\ d0 \in Nat
  BY <1>1, <1>9
<1>11. AtMost(({g} \cup S2) \cup S1, d1)
  <2> HIDE DEF d2
  <2> QED
    BY <1>1, <1>7, <1>10, AtMostUnion
<1>12. AtMost((({g} \cup S2) \cup S1) \cup S0, d0)
  <2> HIDE DEF d1
  <2> QED
    BY <1>1, <1>7, <1>10, <1>11, AtMostUnion
<1>13. PagesFor(A) = d0 /\ 1 + TablesFor(A) = d1
  BY <1>8
<1> HIDE DEF d0, d1
<1>14. AtMost(TreeOf(use, g), d0)
  BY <1>7, <1>10, <1>12, AtMostSubset
<1>15. g = root_page_table => AtMost(TreeOf(use, g), d1)
  BY <1>7, <1>10, <1>11, AtMostSubset
<1> QED
  BY <1>10, <1>13, <1>14, <1>15

\* The free pages are told apart by their places on the list.
FreeIn(use) == {p \in ManagedPages : use[p].lv = FREE}

\* They are no more than the list is long.
LEMMA FreeSize ==
    ASSUME NEW mem, NEW use, NEW n, Heap(mem, use, n)
    PROVE  n \in Nat /\ AtMost(FreeIn(use), n)
<1> DEFINE S == FreeIn(use)
           f == [p \in S |-> use[p].slot]
<1>1. n \in Nat /\ IsFiniteSet(1 .. n) /\ Cardinality(1 .. n) = n
  <2>1. n \in Nat
    BY DEF Heap, FreeListOK
  <2>2. IsFiniteSet(1 .. n) /\ Cardinality(1 .. n) = IF 1 > n THEN 0 ELSE n - 1 + 1
    BY <2>1, FS_Interval
  <2> QED
    BY <2>1, <2>2
<1>2. f \in [S -> 1 .. n] /\ \A x, y \in S : f[x] = f[y] => x = y
  BY DEF Heap, FreeListOK, FreeIn
<1> DEFINE T == 1 .. n
<1>3. IsFiniteSet(T) /\ f \in [S -> T] /\ Cardinality(T) = n
  BY <1>1, <1>2
<1> HIDE DEF S, f, T
<1>4. AtMost(S, Cardinality(T))
  BY <1>2, <1>3, AtMostInjection
<1> QED
  BY <1>1, <1>3, <1>4 DEF S

\* The kernel maps virtual pages of three slots.
LEMMA KernelVirtual == KernelVas \in SUBSET VirtualPages
BY BootedMaps DEF RootMaps, Cost

(***************************************************************************)
(* How many pages there are: those of the kernel's tree, at most P for     *)
(* every slot of the task table, and the free ones, which are at most k    *)
(* more, or take the place of a program in a dead slot.                    *)
(***************************************************************************)
LEMMA PagesCounted ==
    ASSUME NEW mem, NEW states, NEW pts, NEW use, NEW n, Accounts(mem, states, pts, use, n),
           ~mem.stuck, NEW P \in Nat, PagesFor(BootVas) <= P, PagesFor(ImageVas) <= P,
           NEW X, NEW k \in Nat, AtMost(X, k), NEW Z, AtMost(Z, P),
           \/ FreeIn(use) \subseteq X
           \/ FreeIn(use) \subseteq Z /\ \E c \in Task : states[c] = TASK_DEAD
    PROVE  Cardinality(ManagedPages) <= k + (1 + TablesFor(KernelVas)) + MAX_TASKS * P
<1> DEFINE F == [t \in Task |-> IF states[t] # TASK_DEAD THEN TreeOf(use, pts[t]) ELSE Z]
           R == TreeOf(use, root_page_table)
           K == 1 + TablesFor(KernelVas)
<1>1. /\ Heap(mem, use, n) /\ NothingElse(states, pts, use) /\ Shapes(mem, states, pts, use)
      /\ KernelVas \in SUBSET VirtualPages /\ BootVas \in SUBSET VirtualPages
      /\ ImageVas \in SUBSET VirtualPages
  BY SpacesMade, SpaceVas, KernelVirtual DEF Accounts
<1>2. AtMost(R, K) /\ K \in Nat
  BY <1>1, TreeSize DEF Shapes
<1>3. \A t \in Task : AtMost(F[t], P)
  <2> SUFFICES ASSUME NEW t \in Task, states[t] # TASK_DEAD PROVE AtMost(TreeOf(use, pts[t]), P)
    OBVIOUS
  <2>1. PICK A \in {BootVas, ImageVas} : NodesIn(use, pts[t], A)
    BY <1>1 DEF Shapes
  <2>2. A \in SUBSET VirtualPages /\ PagesFor(A) <= P
    BY <1>1, <2>1
  <2>3. AtMost(TreeOf(use, pts[t]), PagesFor(A)) /\ PagesFor(A) \in Nat
    BY <1>1, <2>1, <2>2, TreeSize
  <2>4. Cardinality(TreeOf(use, pts[t])) \in Nat
    BY <2>3, FS_CardinalityType DEF AtMost
  <2> QED
    BY <2>2, <2>3, <2>4 DEF AtMost
<1>4. MAX_TASKS \in Nat /\ Task = 0 .. MAX_TASKS - 1
  BY MaxTasksAssumption DEF Task
<1> DEFINE W == UNION {F[t] : t \in Task}
<1>5. ManagedPages \subseteq (X \cup R) \cup W
  <2> SUFFICES ASSUME NEW p \in ManagedPages PROVE p \in (X \cup R) \cup W
    OBVIOUS
  <2>1. use[p].lv \in {FREE, 0, 1, 2, 3}
    <3>1. use[p].lv \in -2 .. 3 /\ use[p].lv # LIMBO
      BY <1>1 DEF Heap, Use, NothingElse
    <3> QED
      BY <3>1 DEF FREE, LIMBO
  <2>2. CASE use[p].lv = FREE
    <3>1. p \in FreeIn(use)
      BY <2>2 DEF FreeIn
    <3>2. CASE FreeIn(use) \subseteq X
      BY <3>1, <3>2
    <3>3. CASE FreeIn(use) \subseteq Z /\ \E c \in Task : states[c] = TASK_DEAD
      <4>1. PICK c \in Task : states[c] = TASK_DEAD
        BY <3>3
      <4>2. p \in F[c]
        BY <3>1, <3>3, <4>1
      <4> QED
        BY <4>1, <4>2
    <3> QED
      BY <3>2, <3>3
  <2>3. CASE use[p].lv \in 0 .. 3
    <3>1. p \in TreeOf(use, use[p].tree)
      <4>1. use[p].lv = 3 => use[p].tree = p
        BY <1>1 DEF Heap, TopsOK
      <4> QED
        BY <2>3, <4>1 DEF TreeOf
    <3>2. use[p].tree \in ManagedPages /\ use[use[p].tree].lv = 3
      <4>1. CASE use[p].lv = 3
        BY <1>1, <4>1 DEF Heap, TopsOK
      <4>2. CASE use[p].lv \in 0 .. 2
        BY <1>1, <4>2, TreeTop
      <4> QED
        BY <2>3, <4>1, <4>2
    <3>3. CASE use[p].tree = root_page_table
      BY <3>1, <3>3
    <3>4. CASE use[p].tree # root_page_table
      <4>1. PICK t \in Task : states[t] # TASK_DEAD /\ pts[t] = use[p].tree
        BY <1>1, <3>2, <3>4 DEF NothingElse
      <4>2. p \in F[t]
        BY <3>1, <4>1
      <4> QED
        BY <4>1, <4>2
    <3> QED
      BY <3>3, <3>4
  <2> QED
    BY <2>1, <2>2, <2>3
<1> HIDE DEF F, R, K, W
<1>6. AtMost(W, MAX_TASKS * P) /\ MAX_TASKS * P \in Nat
  <2>1. AtMost(UNION {F[t] : t \in 0 .. MAX_TASKS - 1}, MAX_TASKS * P)
    BY <1>3, <1>4, AtMostAll
  <2>2. MAX_TASKS * P \in Nat
    BY <1>4
  <2> QED
    BY <1>4, <2>1, <2>2 DEF W
<1>7. AtMost(X \cup R, k + K) /\ k + K \in Nat
  BY <1>2, AtMostUnion
<1> DEFINE a == k + K
           b == MAX_TASKS * P
<1>8. AtMost(X \cup R, a) /\ a \in Nat /\ AtMost(W, b) /\ b \in Nat
  BY <1>6, <1>7
<1> HIDE DEF a, b
<1>9. AtMost((X \cup R) \cup W, a + b) /\ a + b \in Nat
  BY <1>8, AtMostUnion
<1>10. AtMost(ManagedPages, a + b)
  <2> DEFINE d == a + b
             S == (X \cup R) \cup W
  <2>1. AtMost(S, d) /\ d \in Nat /\ ManagedPages \subseteq S
    BY <1>5, <1>9
  <2> HIDE DEF d, S
  <2>2. AtMost(ManagedPages, d)
    BY <2>1, AtMostSubset
  <2> QED
    BY <2>2 DEF d
<1> QED
  BY <1>10 DEF AtMost, a, b, K

(***************************************************************************)
(* What task_init and task_exec take from the list is what the program     *)
(* they build needs.                                                       *)
(***************************************************************************)
LEMMA ProgramsNeed ==
    /\ TablesFor(BootVas) \in Nat /\ PagesFor(BootVas) \in Nat
    /\ TablesFor(BootVas) + 4 <= PagesFor(BootVas)
    /\ TablesFor(ImageVas) \in Nat /\ PagesFor(ImageVas) \in Nat
    /\ TablesFor(ImageVas) + (2 + Len(Image)) <= PagesFor(ImageVas)
    /\ TablesFor(KernelVas) \in Nat
<1>1. BootVas \in SUBSET VirtualPages /\ ImageVas \in SUBSET VirtualPages
  BY SpacesMade, SpaceVas
<1>2. /\ IsFiniteSet(BootVas) /\ Cardinality(BootVas) \in Nat
      /\ IsFiniteSet(ImageVas) /\ Cardinality(ImageVas) \in Nat
      /\ TablesFor(BootVas) \in Nat /\ TablesFor(ImageVas) \in Nat /\ TablesFor(KernelVas) \in Nat
  BY <1>1, KernelVirtual, PrefixesFinite, FS_CardinalityType, TablesForIs
<1>3. 3 <= Cardinality(BootVas)
  <2> DEFINE a == USER_RW_PAGE_VA
             b == USER_STACK_PAGE_VA
             c == USER_RO_PAGE_VA
  <2>1. a # b /\ c \notin {a} \cup {b} /\ b \notin {a}
    BY MemoryAssumption
  <2>2. IsFiniteSet({a}) /\ Cardinality({a}) = 1
    BY FS_Singleton
  <2>3. IsFiniteSet({a} \cup {b}) /\ Cardinality({a} \cup {b}) = 1 + 1
    BY <2>1, <2>2, FS_AddElement
  <2>4. Cardinality(({a} \cup {b}) \cup {c}) = (1 + 1) + 1
    BY <2>1, <2>3, FS_AddElement
  <2>5. ({a} \cup {b}) \cup {c} \in SUBSET BootVas
    BY DEF BootVas, UserPages
  <2>6. Cardinality(({a} \cup {b}) \cup {c}) <= Cardinality(BootVas)
    BY <1>2, <2>5, FS_Subset
  <2> QED
    BY <2>4, <2>6
<1>4. 1 + Len(Image) <= Cardinality(ImageVas) /\ Len(Image) \in Nat
  <2> DEFINE I == 1 .. Len(Image)
             f == [i \in I |-> Image[i].va]
  <2>1. Len(Image) \in Nat /\ DOMAIN Image = I
    BY MemoryAssumption
  <2>2. IsFiniteSet(I) /\ Cardinality(I) = Len(Image)
    <3>1. IsFiniteSet(I) /\ Cardinality(I) = IF 1 > Len(Image) THEN 0 ELSE Len(Image) - 1 + 1
      BY <2>1, FS_Interval
    <3> QED
      BY <2>1, <3>1
  <2>3. ImageVas = ImagePages \cup {USER_STACK_PAGE_VA} /\ USER_STACK_PAGE_VA \notin ImagePages
    BY MemoryAssumption DEF ImageVas, UserPages
  <2>4. IsFiniteSet(ImagePages) /\ Cardinality(ImagePages) \in Nat
    BY <1>2, <2>3, FS_Subset, FS_CardinalityType
  <2>5. Cardinality(ImageVas) = Cardinality(ImagePages) + 1
    BY <2>3, <2>4, FS_AddElement
  <2>6. f \in [I -> ImagePages] /\ \A x, y \in I : f[x] = f[y] => x = y
    BY <2>1, MemoryAssumption DEF ImagePages
  <2> HIDE DEF f, I
  <2>7. AtMost(I, Cardinality(ImagePages))
    BY <2>4, <2>6, AtMostInjection
  <2> QED
    BY <2>1, <2>2, <2>4, <2>5, <2>7 DEF AtMost
<1> QED
  BY <1>2, <1>3, <1>4 DEF PagesFor

\* P pages for a program in each slot, the larger of the two.
Suffices(P) ==
    /\ P \in Nat /\ PagesFor(BootVas) <= P /\ PagesFor(ImageVas) <= P
    /\ (1 + TablesFor(KernelVas)) + MAX_TASKS * P + PagesFor(ImageVas) <= Cardinality(ManagedPages)

\* There is such a number when the memory is as large as EnoughMemory says.
LEMMA ProgramsFit ==
    ASSUME EnoughMemory
    PROVE  \E P : Suffices(P)
<1> DEFINE a == PagesFor(BootVas)
           b == PagesFor(ImageVas)
           T == 1 + TablesFor(KernelVas)
           M == Cardinality(ManagedPages)
<1>1. a \in Nat /\ b \in Nat
  BY ProgramsNeed
<1>2. T + MAX_TASKS * a + b <= M /\ T + MAX_TASKS * b + b <= M
  BY DEF EnoughMemory
<1>3. CASE a <= b
  <2>1. b <= b
    BY <1>1
  <2> QED
    BY <1>1, <1>2, <1>3, <2>1 DEF Suffices
<1>4. CASE b <= a
  <2>1. a <= a
    BY <1>1
  <2> QED
    BY <1>1, <1>2, <1>4, <2>1 DEF Suffices
<1> QED
  BY <1>1, <1>3, <1>4

(***************************************************************************)
(* No action comes to an empty list.  Booting: page_init has put all pages *)
(* on the list, mmu_init takes the kernel's tables and task_init the first *)
(* program.                                                                *)
(***************************************************************************)
LEMMA InitNotStuck ==
    ASSUME Init, EnoughMemory
    PROVE  ~m.stuck
<1> DEFINE T == 1 + TablesFor(KernelVas)
           M == Cardinality(ManagedPages)
           b == PagesFor(ImageVas)
<1>1. PICK P : Suffices(P)
  BY ProgramsFit
<1>2. /\ P \in Nat /\ PagesFor(BootVas) <= P /\ M \in Nat /\ T \in Nat /\ b \in Nat
      /\ T + MAX_TASKS * P + b <= M
  BY <1>1, ProgramsNeed, ManagedFinite DEF Suffices
<1>3. MAX_TASKS * P \in Nat /\ P <= MAX_TASKS * P
  <2>1. PICK k \in Nat : MAX_TASKS = k + 1
    <3>1. MAX_TASKS - 1 \in Nat /\ MAX_TASKS = (MAX_TASKS - 1) + 1
      BY MaxTasksAssumption
    <3> QED
      BY <3>1
  <2>2. k * P \in Nat /\ (k + 1) * P = k * P + P
    BY <1>2
  <2> QED
    BY <1>2, <2>1, <2>2
<1>4. PICK mem, use0, n0, use, n : /\ Heap(mem, use0, n0)
                                   /\ \A p \in ManagedPages : use0[p].lv = FREE
                                   /\ RootMaps(use0, n0, Booted, use, n, KernelVas)
  BY BootedMaps
<1>5. n0 \in Nat /\ M <= n0
  <2>1. n0 \in Nat /\ AtMost(FreeIn(use0), n0)
    BY <1>4, FreeSize
  <2>2. FreeIn(use0) = ManagedPages
    BY <1>4 DEF FreeIn
  <2> QED
    BY <2>1, <2>2 DEF AtMost
<1>6. /\ Heap(Booted, use, n) /\ use[root_page_table].lv = 3 /\ n \in Nat
      /\ Ledger(Booted, n0, n, KernelVas, 1)
  BY <1>4 DEF RootMaps, RootOnly, Cost, Heap, FreeListOK
<1>7. T = TablesFor(KernelVas) + 1 /\ TablesFor(KernelVas) \in Nat
  BY ProgramsNeed
<1> DEFINE s == TablesFor(KernelVas) + 1
           w == MAX_TASKS * P
<1>8. s \in Nat /\ w \in Nat /\ s + w + b <= M /\ P <= w
  BY <1>2, <1>3, <1>7
<1>9. IF Booted.stuck THEN n0 < s ELSE n0 <= n + TablesFor(KernelVas) + 1
  BY <1>6 DEF Ledger
<1>10. IF Booted.stuck THEN n0 < s ELSE n0 <= n + s
  BY <1>6, <1>7, <1>9
<1> HIDE DEF M, s, w, T, b
<1>11. ~Booted.stuck /\ P <= n
  BY <1>2, <1>5, <1>6, <1>8, <1>10
<1>12. m = TaskInit(Booted)
  BY DEF Init
<1>13. PICK use2, n2 : NewSpace(Booted, use, n, m, use2, n2, Booted.free_list, BootSpace, 4)
  BY <1>6, <1>11, <1>12, BootedRoot, TaskInitMakes
<1>14. Ledger(m, n, n2, BootVas, 4)
  BY <1>13, SpaceVas DEF NewSpace, Make, Build, Cost
<1>15. ~(n < TablesFor(BootVas) + 4)
  BY <1>2, <1>6, <1>11, ProgramsNeed
<1> QED
  BY <1>14, <1>15 DEF Ledger

\* A copy that finds the list empty has given every page that was free to the
\* child, so these were no more than a program takes, and there is a dead slot.
LEMMA ForkNotStuck ==
    ASSUME IInv, EnoughMemory, ~m.stuck, NEW t \in Live, Fork(t)
    PROVE  ~m'.stuck
<1> DEFINE c == AllocTaskSlot(task_states)
           h == m.free_list
<1>1. PICK use, n : Accounts(m, task_states, satp, use, n)
  BY DEF IInv
<1>2. t \in Task /\ task_states[t] # TASK_DEAD
  BY DEF Live
<1>3. Heap(m, use, n) /\ use[root_page_table].lv = 3 /\ TaskTable(use, satp[t], 3)
  <2>1. satp[t] \in ManagedPages /\ satp[t] # root_page_table /\ use[satp[t]].lv = 3
    BY <1>1, <1>2 DEF Accounts, OwnTrees
  <2>2. use[satp[t]].tree = satp[t]
    BY <1>1, <2>1 DEF Accounts, Heap, TopsOK
  <2> QED
    BY <1>1, <2>1, <2>2 DEF Accounts, OwnTrees, TaskTable
<1>4. c # -1 /\ m' = CopyUserPageTable(m, root_page_table, satp[t])
  BY DEF Fork
<1>5. c \in Task /\ task_states[c] = TASK_DEAD
  BY <1>4, AllocTaskSlotDead
<1> HIDE DEF c
<1>6. PICK A \in {BootVas, ImageVas} : Covered(m, use, satp[t], A)
  BY <1>1, <1>2, TaskCovered
<1>7. PICK use2, n2 : CopyUserDone(m, use, m', use2, n2, satp[t], A)
  BY <1>3, <1>4, <1>6, CopyUserHeap
<1>8. PICK P : Suffices(P)
  BY ProgramsFit
<1> DEFINE m2 == m'
<1>9. /\ Heap(m2, use2, n2) /\ Ext(m, use, m2, use2, {}, {h}) /\ Placed(use, use2, h, A)
  BY <1>7 DEF CopyUserDone
<1> HIDE DEF m2
<1> SUFFICES ASSUME m2.stuck
             PROVE  FALSE
  BY DEF m2
<1>10. \A p \in ManagedPages : use2[p].lv # FREE
  <2>1. n2 = 0
    BY <1>9, PageFacts DEF Heap, FreeListOK
  <2>2. 1 .. n2 = {}
    BY <2>1
  <2> QED
    BY <1>9, <2>2 DEF Heap, FreeListOK
<1>11. FreeIn(use) = {} \/ (h \in ManagedPages /\ use[h].lv = FREE)
  <2>1. n = 0 => 1 .. n = {}
    OBVIOUS
  <2> QED
    BY <1>3, <2>1 DEF Heap, FreeListOK, FreeIn
<1>12. AtMost(FreeIn(use), P)
  <2>1. CASE FreeIn(use) = {}
    <3>1. IsFiniteSet({}) /\ Cardinality({}) = 0
      BY FS_EmptySet
    <3>2. P \in Nat
      BY <1>8 DEF Suffices
    <3> QED
      BY <2>1, <3>1, <3>2 DEF AtMost
  <2>2. CASE h \in ManagedPages /\ use[h].lv = FREE
    <3>1. NodesIn(use2, h, A)
      <4> SUFFICES ASSUME NEW q \in ManagedPages, use2[q].lv \in 0 .. 2, use2[q].tree = h
                   PROVE  use2[q].pos \in Prefixes(A, use2[q].lv)
        BY DEF NodesIn
      <4>1. CASE use2[q] = use[q]
        <5>1. use[h].lv = 3
          BY <1>3, <4>1, TreeTop
        <5> QED
          BY <2>2, <5>1 DEF FREE
      <4> QED
        BY <1>9, <4>1 DEF Placed
    <3>2. FreeIn(use) \subseteq TreeOf(use2, h)
      <4> SUFFICES ASSUME NEW p \in ManagedPages, use[p].lv = FREE, p # h
                   PROVE  use2[p].lv \in 0 .. 2 /\ use2[p].tree = h
        BY DEF FreeIn, TreeOf
      <4>1. use2[p].lv \in {0, 1, 2}
        BY <1>9, <1>10 DEF Ext
      <4>2. use2[p] # use[p]
        BY <1>10
      <4> QED
        BY <1>9, <4>1, <4>2 DEF Placed
    <3>3. A \in SUBSET VirtualPages /\ PagesFor(A) <= P /\ P \in Nat
      BY <1>6, <1>8, SpacesMade, SpaceVas DEF Suffices
    <3>4. AtMost(TreeOf(use2, h), PagesFor(A)) /\ PagesFor(A) \in Nat
      BY <1>9, <3>1, <3>3, TreeSize
    <3>5. AtMost(FreeIn(use), PagesFor(A))
      BY <3>2, <3>4, AtMostSubset
    <3>6. Cardinality(FreeIn(use)) \in Nat
      BY <3>5, FS_CardinalityType DEF AtMost
    <3> QED
      BY <3>3, <3>4, <3>5, <3>6 DEF AtMost
  <2> QED
    BY <1>11, <2>1, <2>2
<1>13. AtMost({}, 0)
  <2>1. IsFiniteSet({}) /\ Cardinality({}) = 0
    BY FS_EmptySet
  <2> QED
    BY <2>1 DEF AtMost
<1>14. Cardinality(ManagedPages) <= 0 + (1 + TablesFor(KernelVas)) + MAX_TASKS * P
  <2>1. P \in Nat /\ PagesFor(BootVas) <= P /\ PagesFor(ImageVas) <= P
    BY <1>8 DEF Suffices
  <2> DEFINE X == {}
             Z == FreeIn(use)
             k == 0
  <2>2. AtMost(X, k) /\ AtMost(Z, P) /\ k \in Nat /\ FreeIn(use) \subseteq Z
    BY <1>12, <1>13
  <2> HIDE DEF X, Z, k
  <2>3. Cardinality(ManagedPages) <= k + (1 + TablesFor(KernelVas)) + MAX_TASKS * P
    BY <1>1, <1>5, <2>1, <2>2, PagesCounted
  <2> QED
    BY <2>3 DEF k
<1>15. /\ (1 + TablesFor(KernelVas)) + MAX_TASKS * P + PagesFor(ImageVas)
             <= Cardinality(ManagedPages)
       /\ P \in Nat /\ Cardinality(ManagedPages) \in Nat
  BY <1>8, ManagedFinite DEF Suffices
<1>16. PagesFor(ImageVas) \in Nat /\ 2 <= PagesFor(ImageVas) /\ TablesFor(KernelVas) \in Nat
  <2>1. Len(Image) \in Nat
    BY MemoryAssumption
  <2> QED
    BY <2>1, ProgramsNeed
<1> QED
  <2> DEFINE w == MAX_TASKS * P
  <2>1. w \in Nat
    BY <1>15, MaxTasksAssumption
  <2>2. /\ Cardinality(ManagedPages) <= 0 + (1 + TablesFor(KernelVas)) + w
        /\ (1 + TablesFor(KernelVas)) + w + PagesFor(ImageVas) <= Cardinality(ManagedPages)
    BY <1>14, <1>15
  <2> HIDE DEF w
  <2> QED
    BY <1>15, <1>16, <2>1, <2>2

\* An image is loaded into what the programs and the kernel leave free.
LEMMA ExecNotStuck ==
    ASSUME IInv, EnoughMemory, ~m.stuck, NEW t \in Live, Exec(t)
    PROVE  ~m'.stuck
<1> DEFINE m1 == LoadImage(m)
           g  == m.free_list
           M  == Cardinality(ManagedPages)
           T  == 1 + TablesFor(KernelVas)
           b  == PagesFor(ImageVas)
<1>1. PICK use, n : Accounts(m, task_states, satp, use, n)
  BY DEF IInv
<1>2. t \in Task /\ task_states[t] # TASK_DEAD
  BY DEF Live
<1>3. Heap(m, use, n) /\ OwnTrees(task_states, satp, use)
  BY <1>1 DEF Accounts
<1>4. m' = FreeUserPageTable(m1, root_page_table, satp[t])
  BY DEF Exec
<1>5. PICK P : Suffices(P)
  BY ProgramsFit
<1>6. /\ P \in Nat /\ M \in Nat /\ T \in Nat /\ b \in Nat
      /\ PagesFor(BootVas) <= P /\ b <= P /\ T + MAX_TASKS * P + b <= M
  BY <1>5, ProgramsNeed, ManagedFinite DEF Suffices
<1>7. n \in Nat /\ M <= n + T + MAX_TASKS * P
  <2>1. n \in Nat /\ AtMost(FreeIn(use), n)
    BY <1>3, FreeSize
  <2> DEFINE X == FreeIn(use)
             Z == {}
  <2>2. AtMost(X, n) /\ AtMost(Z, P) /\ FreeIn(use) \subseteq X
    <3>1. IsFiniteSet({}) /\ Cardinality({}) = 0
      BY FS_EmptySet
    <3> QED
      BY <1>6, <2>1, <3>1 DEF AtMost
  <2> HIDE DEF X, Z
  <2> QED
    BY <1>1, <1>6, <2>1, <2>2, PagesCounted
<1>8. b <= n
  <2> DEFINE w == MAX_TASKS * P
  <2>1. w \in Nat /\ M <= n + T + w /\ T + w + b <= M
    BY <1>6, <1>7, MaxTasksAssumption
  <2> HIDE DEF M, T, b, w
  <2> QED
    BY <1>6, <1>7, <2>1
<1>9. PICK use1, n1 : NewSpace(m, use, n, m1, use1, n1, g, ImageSpace, 2 + Len(Image))
  BY <1>3, LoadImageMakes DEF OwnTrees
<1> HIDE DEF m1, g
<1>10. Ledger(m1, n, n1, ImageVas, 2 + Len(Image))
  BY <1>9, SpaceVas DEF NewSpace, Make, Build, Cost
<1>11. ~m1.stuck
  <2>1. Len(Image) \in Nat
    BY MemoryAssumption
  <2>2. ~(n < TablesFor(ImageVas) + (2 + Len(Image)))
    BY <1>7, <1>8, <2>1, ProgramsNeed
  <2> QED
    BY <1>10, <2>2 DEF Ledger
<1>12. /\ Heap(m1, use1, n1)
       /\ \A p \in ManagedPages : use[p].lv # FREE => use1[p] = use[p]
  BY <1>3, <1>9, NewSpaceGrew DEF Grew
<1>13. /\ satp[t] \in ManagedPages /\ satp[t] # root_page_table /\ use[satp[t]].lv = 3
       /\ use[root_page_table].lv = 3
  BY <1>2, <1>3 DEF OwnTrees
<1>14. use1[satp[t]].lv = 3 /\ use1[root_page_table].lv = 3
  BY <1>12, <1>13, PageFacts DEF FREE
<1>15. \E use2, n2 : Shrank(m1, use1, m', use2, n2, satp[t])
  BY <1>4, <1>11, <1>12, <1>13, <1>14, FreeShrank
<1> QED
  BY <1>15 DEF Shrank

\* Freeing takes no page.
LEMMA ExitNotStuck ==
    ASSUME IInv, ~m.stuck, NEW t \in Live, Exit(t)
    PROVE  ~m'.stuck
<1>1. PICK use, n : Accounts(m, task_states, satp, use, n)
  BY DEF IInv
<1>2. /\ Heap(m, use, n) /\ use[root_page_table].lv = 3
      /\ satp[t] \in ManagedPages /\ satp[t] # root_page_table /\ use[satp[t]].lv = 3
  BY <1>1 DEF Accounts, OwnTrees, Live
<1>3. \E use2, n2 : Shrank(m, use, m', use2, n2, satp[t])
  BY <1>2, FreeShrank DEF Exit
<1> QED
  BY <1>3 DEF Shrank

\* A store allocates nothing.
LEMMA StoreNotStuck ==
    ASSUME ~m.stuck, NEW t, NEW va, NEW i, NEW v, Store(t, va, i, v)
    PROVE  ~m'.stuck
BY DEF Store, SetWord

(***************************************************************************)
(* Memory for the kernel's tables, for a program in every slot and for one *)
(* image more is enough for ever: alloc_page (page.c:63) never comes to an *)
(* empty list, whatever is called in whatever order.  The last part is for *)
(* task_exec, which holds the old program while it loads the new one.      *)
(***************************************************************************)
THEOREM MemoryIsEnough == Spec => []NeverStuck
<1>1. Init => NeverStuck
  BY InitNotStuck DEF NeverStuck
<1>2. IInv /\ NeverStuck /\ [Next]_vars => NeverStuck'
  <2> SUFFICES ASSUME IInv, NeverStuck, [Next]_vars, EnoughMemory
               PROVE  ~m'.stuck
    BY DEF NeverStuck, EnoughMemory
  <2>1. ~m.stuck
    BY DEF NeverStuck
  <2>2. CASE Next
    <3>1. PICK t \in Live :
             \/ \E va \in Mapped(m, satp[t]), i \in StoreSlots, v \in Values : Store(t, va, i, v)
             \/ Fork(t) \/ Exec(t) \/ Exit(t)
      BY <2>2 DEF Next
    <3> QED
      BY <2>1, <3>1, StoreNotStuck, ForkNotStuck, ExecNotStuck, ExitNotStuck
  <2>3. CASE UNCHANGED vars
    BY <2>1, <2>3 DEF vars
  <2> QED
    BY <2>2, <2>3
<1> QED
  BY <1>1, <1>2, IInvInvariant, PTL DEF Spec

(***************************************************************************)
(* The address spaces of the tasks, in these words.                        *)
(***************************************************************************)
LEMMA SpaceIs ==
    ASSUME NEW mem, NEW g
    PROVE  [va \in {v \in Mapped(mem, g) : "U" \in Flags(LeafPte(mem, g, v))} |->
               LET pte == LeafPte(mem, g, va) IN ViewOf(Flags(pte), mem.ram[PteToPa(pte)])]
             = Space(mem, g)
<1>1. {v \in Mapped(mem, g) : "U" \in Flags(LeafPte(mem, g, v))} = SeenPages(mem, g)
  BY MappedIs DEF SeenPages, Valid
<1> QED
  BY <1>1 DEF Space, View

Spaces(mem, states, pts) ==
    [t \in Task |-> IF states[t] # TASK_DEAD THEN Space(mem, pts[t]) ELSE NoSpace]

ShownSpaces == [t \in Task |-> IF t \in Live THEN AddressSpace(t) ELSE NoSpace]

\* The refinement mapping, before and after a step.
LEMMA ShownSpacesAre ==
    /\ ShownSpaces = Spaces(m, task_states, satp)
    /\ ShownSpaces' = Spaces(m', task_states', satp')
<1>1. ASSUME NEW t \in Task
      PROVE  AddressSpace(t) = Space(m, satp[t]) /\ AddressSpace(t)' = Space(m', satp'[t])
  <2>1. AddressSpace(t) = Space(m, satp[t])
    BY SpaceIs DEF AddressSpace
  <2>2. AddressSpace(t)' = Space(m', satp'[t])
    BY SpaceIs DEF AddressSpace
  <2> QED
    BY <2>1, <2>2
<1>2. \A t \in Task : t \in Live <=> task_states[t] # TASK_DEAD
  BY DEF Live
<1>3. \A t \in Task : t \in Live' <=> task_states'[t] # TASK_DEAD
  BY DEF Live
<1>4. ShownSpaces = Spaces(m, task_states, satp)
  BY <1>1, <1>2 DEF ShownSpaces, Spaces
<1>5. ShownSpaces' = Spaces(m', task_states', satp')
  BY <1>1, <1>3 DEF ShownSpaces, Spaces
<1> QED
  BY <1>4, <1>5

(***************************************************************************)
(* A page of data is seen at one virtual page of its tree, so a store      *)
(* there shows at one place.                                               *)
(***************************************************************************)
LEMMA DataSlot ==
    ASSUME NEW mem, NEW use, NEW n, Heap(mem, use, n), NEW g \in ManagedPages, use[g].lv = 3,
           g # root_page_table, NEW v \in VirtualPages, Valid(LeafPte(mem, g, v)),
           PteToPa(LeafPte(mem, g, v)) \in ManagedPages
    PROVE  LET q == PteToPa(LeafPte(mem, g, v)) IN
           HasLow(mem, g, v) /\ use[q].up = Low(mem, g, v) /\ use[q].slot = Vpn(v, 0)
<1> DEFINE t == Low(mem, g, v)
           i == Vpn(v, 0)
           q == PteToPa(LeafPte(mem, g, v))
<1>1. HasLow(mem, g, v)
  BY LeafPteIs DEF Plain, Valid, Flags
<1>2. LeafPte(mem, g, v) = mem.ram[t][i]
  BY <1>1, LeafPteIs
<1>3. t \in ManagedPages /\ use[t].lv = 1 /\ use[t].tree = g
  BY <1>1, WalkFacts
<1>4. i \in Slots
  BY VpnFacts
<1>5. q \notin ImageFrames
  BY PageFacts
<1> HIDE DEF t, i
<1>6. EntryOK(mem, use, t, i)
  BY <1>2, <1>3, <1>4 DEF Heap, EntriesOK
<1>7. IsBelow(use, q, t, i)
  BY <1>2, <1>3, <1>5, <1>6 DEF EntryOK
<1> QED
  BY <1>1, <1>7 DEF IsBelow, Below, t, i

\* A store changes one word of one page of the storing program, and no other program's.
LEMMA StoreSpaces ==
    ASSUME NEW mem, NEW use, NEW n, Heap(mem, use, n), ~mem.stuck,
           NEW g \in ManagedPages, use[g].lv = 3, g # root_page_table,
           NEW va \in VirtualPages, {"V", "U", "W"} \subseteq Flags(LeafPte(mem, g, va)),
           NEW i \in Slots, NEW w \in Word
    PROVE  LET m2 == SetWord(mem, PteToPa(LeafPte(mem, g, va)), i, w) IN
           /\ va \in DOMAIN Space(mem, g)
           /\ Space(mem, g)[va].flags = Flags(LeafPte(mem, g, va))
           /\ i \in DOMAIN Space(mem, g)[va].words
           /\ Space(m2, g) = [Space(mem, g) EXCEPT ![va] = [@ EXCEPT !.words[i] = w]]
           /\ \A q \in ManagedPages :
                 use[q].lv = 3 /\ q # root_page_table /\ q # g => Space(m2, q) = Space(mem, q)
<1> DEFINE pte == LeafPte(mem, g, va)
           p   == PteToPa(pte)
           m2  == SetWord(mem, p, i, w)
           S   == Space(mem, g)
<1>1. Valid(pte) /\ {"U", "V"} \subseteq Flags(pte) /\ {"U", "W"} \subseteq Flags(pte)
  BY DEF Valid
<1>2. p \in ManagedPages /\ use[p].lv = 0 /\ use[p].tree = g
  BY <1>1, LeafTarget
<1>3. HasLow(mem, g, va) /\ use[p].up = Low(mem, g, va) /\ use[p].slot = Vpn(va, 0)
  BY <1>1, <1>2, DataSlot
<1>4. mem \in Mem /\ p \in RamPages
  BY <1>2, PageFacts DEF Heap
<1>5. va \in SeenPages(mem, g) /\ S[va] = ViewOf(Flags(pte), mem.ram[p])
  <2>1. va \in SeenPages(mem, g)
    BY <1>1 DEF SeenPages
  <2> QED
    BY <2>1 DEF Space, View
<1>6. S[va].flags = Flags(pte) /\ S[va].words = mem.ram[p] /\ va \in DOMAIN S
  BY <1>5 DEF ViewOf, Space
<1>7. DOMAIN mem.ram[p] = Slots
  BY <1>4 DEF Mem
<1>8. /\ m2.ram[p] = [mem.ram[p] EXCEPT ![i] = w]
      /\ \A q \in RamPages \ {p} : m2.ram[q] = mem.ram[q]
  <2>1. m2.ram = [mem.ram EXCEPT ![p][i] = w]
    BY <1>4 DEF SetWord, Mem
  <2> QED
    BY <1>4, <2>1 DEF Mem
<1> HIDE DEF p, pte, m2
<1>9. ASSUME NEW q \in ManagedPages, use[q].lv = 3, q # root_page_table, q # g
      PROVE  Space(m2, q) = Space(mem, q)
  <2>1. TreeKept(mem, use, m2, q)
    BY <1>2, <1>8, <1>9, PageFacts DEF TreeKept
  <2> QED
    BY <1>9, <2>1, SpaceStays
<1>10. \A v \in VirtualPages : LeafPte(m2, g, v) = LeafPte(mem, g, v)
  <2>1. \A q \in TablesOf(use, g) : m2.ram[q] = mem.ram[q]
    BY <1>2, <1>8, PageFacts DEF TablesOf
  <2> QED
    BY <2>1, TreeLeaves
<1>11. SeenPages(m2, g) = SeenPages(mem, g)
  BY <1>10 DEF SeenPages
<1>12. ASSUME NEW v \in SeenPages(mem, g), v # va
       PROVE  View(m2, g, v) = View(mem, g, v)
  <2> DEFINE q == PteToPa(LeafPte(mem, g, v))
  <2>1. v \in VirtualPages /\ Valid(LeafPte(mem, g, v))
    BY DEF SeenPages, Valid
  <2>2. (q \in ManagedPages /\ use[q].lv = 0) \/ q \in ImageFrames
    BY <2>1, LeafTarget
  <2>3. q # p
    <3> SUFFICES ASSUME q = p PROVE FALSE
      OBVIOUS
    <3>1. HasLow(mem, g, v) /\ use[q].up = Low(mem, g, v) /\ use[q].slot = Vpn(v, 0)
      BY <1>2, <2>1, DataSlot
    <3>2. Low(mem, g, v) = Low(mem, g, va) /\ Vpn(v, 0) = Vpn(va, 0)
      BY <1>3, <3>1
    <3> QED
      BY <1>3, <1>12, <2>1, <3>1, <3>2, LowInjective
  <2>4. m2.ram[q] = mem.ram[q]
    BY <1>8, <2>2, <2>3, PageFacts
  <2> QED
    BY <1>10, <2>1, <2>4 DEF View
<1>13. View(m2, g, va) = [S[va] EXCEPT !.words[i] = w]
  <2>1. View(m2, g, va) = ViewOf(Flags(pte), m2.ram[p])
    BY <1>10 DEF View, pte, p
  <2> QED
    BY <1>5, <1>8, <2>1 DEF ViewOf
<1>14. Space(m2, g) = [S EXCEPT ![va] = [@ EXCEPT !.words[i] = w]]
  <2>1. S = [v \in SeenPages(mem, g) |-> View(mem, g, v)]
    BY DEF Space
  <2>2. Space(m2, g) = [v \in SeenPages(mem, g) |-> View(m2, g, v)]
    BY <1>11 DEF Space
  <2> HIDE DEF S
  <2>3. [S EXCEPT ![va] = [@ EXCEPT !.words[i] = w]]
          = [v \in SeenPages(mem, g) |-> IF v = va THEN [S[va] EXCEPT !.words[i] = w] ELSE S[v]]
    BY <2>1
  <2>4. \A v \in SeenPages(mem, g) :
           View(m2, g, v) = IF v = va THEN [S[va] EXCEPT !.words[i] = w] ELSE S[v]
    BY <1>12, <1>13, <2>1
  <2> QED
    BY <2>2, <2>3, <2>4
<1> QED
  BY <1>6, <1>7, <1>9, <1>14 DEF m2, p, pte

(***************************************************************************)
(* What each action does to the address spaces: a store of a program to    *)
(* its own, and the calls.                                                 *)
(***************************************************************************)
LEMMA StoreShows ==
    ASSUME IInv, ~m.stuck, NEW t \in Live, NEW va \in Mapped(m, satp[t]),
           NEW i \in StoreSlots, NEW v \in Values, Store(t, va, i, v)
    PROVE  LET S == Spaces(m, task_states, satp) IN
           /\ va \in DOMAIN S[t] /\ "W" \in S[t][va].flags /\ i \in DOMAIN S[t][va].words
           /\ Spaces(m', task_states', satp')
                = [S EXCEPT ![t] = [S[t] EXCEPT ![va] = [@ EXCEPT !.words[i] = <<v, {}>>]]]
           /\ task_states' = task_states
<1> DEFINE S   == Spaces(m, task_states, satp)
           pte == LeafPte(m, satp[t], va)
           w   == Plain(v)
           m2  == SetWord(m, PteToPa(pte), i, w)
<1>1. PICK use, n : Accounts(m, task_states, satp, use, n)
  BY DEF IInv
<1>2. t \in Task /\ task_states[t] # TASK_DEAD
  BY DEF Live
<1>3. Heap(m, use, n) /\ OwnTrees(task_states, satp, use)
  BY <1>1 DEF Accounts
<1>4. {"V", "U", "W"} \subseteq Flags(pte) /\ m' = m2 /\ task_states' = task_states /\ satp' = satp
  BY DEF Store
<1>5. satp[t] \in ManagedPages /\ satp[t] # root_page_table /\ use[satp[t]].lv = 3
  BY <1>2, <1>3 DEF OwnTrees
<1>6. va \in VirtualPages /\ i \in Slots /\ w \in Word /\ w = <<v, {}>>
  BY MappedIs, MemoryAssumption DEF Plain, Word
<1> HIDE DEF w
<1>7. /\ va \in DOMAIN Space(m, satp[t])
      /\ Space(m, satp[t])[va].flags = Flags(pte)
      /\ i \in DOMAIN Space(m, satp[t])[va].words
      /\ Space(m2, satp[t]) = [Space(m, satp[t]) EXCEPT ![va] = [@ EXCEPT !.words[i] = w]]
      /\ \A q \in ManagedPages :
            use[q].lv = 3 /\ q # root_page_table /\ q # satp[t] => Space(m2, q) = Space(m, q)
  <2> DEFINE g == satp[t]
  <2>1. g \in ManagedPages /\ g # root_page_table /\ use[g].lv = 3 /\ Heap(m, use, n)
    BY <1>3, <1>5
  <2>2. {"V", "U", "W"} \subseteq Flags(LeafPte(m, g, va))
    BY <1>4
  <2>3. va \in VirtualPages /\ i \in Slots /\ w \in Word
    BY <1>6
  <2> HIDE DEF g
  <2>4. LET x2 == SetWord(m, PteToPa(LeafPte(m, g, va)), i, w) IN
        /\ va \in DOMAIN Space(m, g)
        /\ Space(m, g)[va].flags = Flags(LeafPte(m, g, va))
        /\ i \in DOMAIN Space(m, g)[va].words
        /\ Space(x2, g) = [Space(m, g) EXCEPT ![va] = [@ EXCEPT !.words[i] = w]]
        /\ \A q \in ManagedPages :
              use[q].lv = 3 /\ q # root_page_table /\ q # g => Space(x2, q) = Space(m, q)
    BY <2>1, <2>2, <2>3, StoreSpaces
  <2> QED
    BY <2>4 DEF g
<1> HIDE DEF pte, m2
<1>8. S[t] = Space(m, satp[t])
  BY <1>2 DEF Spaces
<1>9. \A u \in Task : task_states[u] # TASK_DEAD /\ u # t => Space(m2, satp[u]) = Space(m, satp[u])
  BY <1>2, <1>3, <1>7 DEF OwnTrees
<1>10. Spaces(m2, task_states, satp) = [S EXCEPT ![t] = Space(m2, satp[t])]
  BY <1>2, <1>9 DEF Spaces
<1> HIDE DEF S
<1> QED
  BY <1>4, <1>6, <1>7, <1>8, <1>10 DEF S

\* task_fork gives a dead slot a copy, or shows nothing: the machine got stuck.
LEMMA ForkShows ==
    ASSUME IInv, ~m.stuck, NEW t \in Live, Fork(t)
    PROVE  LET S  == Spaces(m, task_states, satp)
               S2 == Spaces(m', task_states', satp')
           IN  \/ S2 = S /\ task_states' = task_states
               \/ \E c \in Task : /\ task_states[c] = TASK_DEAD /\ S2 = [S EXCEPT ![c] = S[t]]
                                  /\ task_states' = [task_states EXCEPT ![c] = TASK_READY]
<1> DEFINE c   == AllocTaskSlot(task_states)
           pgd == m.free_list
           m2  == m'
           S   == Spaces(m, task_states, satp)
<1>1. PICK use, n : Accounts(m, task_states, satp, use, n)
  BY DEF IInv
<1>2. TablesOK /\ t \in Task /\ task_states[t] # TASK_DEAD
  BY DEF IInv, Live
<1>3. /\ Heap(m, use, n) /\ use[root_page_table].lv = 3 /\ TaskTable(use, satp[t], 3)
      /\ OwnTrees(task_states, satp, use) /\ Stacks(m, task_states, satp)
  <2>1. satp[t] \in ManagedPages /\ satp[t] # root_page_table /\ use[satp[t]].lv = 3
    BY <1>1, <1>2 DEF Accounts, OwnTrees
  <2>2. use[satp[t]].tree = satp[t]
    BY <1>1, <2>1 DEF Accounts, Heap, TopsOK
  <2> QED
    BY <1>1, <2>1, <2>2 DEF Accounts, OwnTrees, TaskTable
<1>4. c # -1 /\ m2 = CopyUserPageTable(m, root_page_table, satp[t])
      /\ IF ~m2.stuck /\ Valid(LeafPte(m2, pgd, USER_STACK_PAGE_VA))
         THEN /\ satp' = [satp EXCEPT ![c] = pgd]
              /\ task_states' = [task_states EXCEPT ![c] = TASK_READY]
         ELSE satp' = satp /\ task_states' = task_states
  BY DEF Fork
<1>5. c \in Task /\ task_states[c] = TASK_DEAD
  BY <1>4, AllocTaskSlotDead
<1> HIDE DEF m2
<1>6. PICK A \in {BootVas, ImageVas} : Covered(m, use, satp[t], A) /\ LeavesIn(m, satp[t], A)
  BY <1>1, <1>2, TaskCovered
<1>7. PICK use2, n2 : CopyUserDone(m, use, m2, use2, n2, satp[t], A)
  BY <1>3, <1>4, <1>6, CopyUserHeap
<1> HIDE DEF c
<1>8. Grew(m, use, m2, use2, n2, pgd, A)
  BY <1>3, <1>7, CopyGrew
<1>9. \A u \in Task : task_states[u] # TASK_DEAD => Space(m2, satp[u]) = Space(m, satp[u])
  BY <1>3, <1>8 DEF Grew, OwnTrees
<1>10. Spaces(m2, task_states, satp) = S
  BY <1>9 DEF Spaces
<1>11. CASE ~(~m2.stuck /\ Valid(LeafPte(m2, pgd, USER_STACK_PAGE_VA)))
  BY <1>4, <1>10, <1>11 DEF m2
<1>12. CASE ~m2.stuck /\ Valid(LeafPte(m2, pgd, USER_STACK_PAGE_VA))
  <2>1. SameTree(m, satp[t], m2, pgd)
    BY <1>7, <1>12 DEF CopyUserDone
  <2>2. \A v \in VirtualPages : SameLeaf(m, LeafPte(m, satp[t], v), m2, LeafPte(m2, pgd, v))
    BY <2>1, SameTreeLeaf
  <2>3. SeenPages(m2, pgd) = SeenPages(m, satp[t])
    BY <2>2 DEF SeenPages, SameLeaf, Valid
  <2>4. \A v \in SeenPages(m, satp[t]) : View(m2, pgd, v) = View(m, satp[t], v)
    BY <2>2 DEF SeenPages, SameLeaf, Valid, View
  <2>5. Space(m2, pgd) = Space(m, satp[t])
    BY <2>3, <2>4 DEF Space
  <2>6. satp' = [satp EXCEPT ![c] = pgd] /\ task_states' = [task_states EXCEPT ![c] = TASK_READY]
    BY <1>4, <1>12
  <2>7. \A u \in Task : /\ task_states'[u] = IF u = c THEN TASK_READY ELSE task_states[u]
                        /\ satp'[u] = IF u = c THEN pgd ELSE satp[u]
    BY <1>2, <2>6 DEF TablesOK
  <2>8. TASK_READY # TASK_DEAD
    BY DEF TASK_READY, TASK_DEAD
  <2>9. S[t] = Space(m, satp[t])
    BY <1>2 DEF Spaces
  <2>10. Spaces(m2, task_states', satp') = [S EXCEPT ![c] = S[t]]
    <3> DEFINE T2(u) == IF task_states'[u] # TASK_DEAD THEN Space(m2, satp'[u]) ELSE NoSpace
               T1(u) == IF task_states[u] # TASK_DEAD THEN Space(m, satp[u]) ELSE NoSpace
    <3>1. S = [u \in Task |-> T1(u)] /\ Spaces(m2, task_states', satp') = [u \in Task |-> T2(u)]
      BY DEF Spaces
    <3>2. T2(c) = S[t]
      BY <1>5, <2>5, <2>7, <2>8, <2>9
    <3>3. \A u \in Task : u # c => T2(u) = T1(u)
      BY <1>9, <2>7
    <3> HIDE DEF S, T1, T2
    <3> QED
      BY <1>5, <3>1, <3>2, <3>3
  <2> QED
    BY <1>5, <2>6, <2>10 DEF m2
<1> QED
  BY <1>11, <1>12

\* task_exec replaces one address space by the image, or shows nothing.
LEMMA ExecShows ==
    ASSUME IInv, ~m.stuck, NEW t \in Live, Exec(t)
    PROVE  LET S  == Spaces(m, task_states, satp)
               S2 == Spaces(m', task_states', satp')
           IN  task_states' = task_states /\ (S2 = S \/ S2 = [S EXCEPT ![t] = ImageSpace])
<1> DEFINE m1 == LoadImage(m)
           g  == m.free_list
           m2 == m'
           S  == Spaces(m, task_states, satp)
<1>1. PICK use, n : Accounts(m, task_states, satp, use, n)
  BY DEF IInv
<1>2. TablesOK /\ t \in Task /\ task_states[t] # TASK_DEAD
  BY DEF IInv, Live
<1>3. Heap(m, use, n) /\ OwnTrees(task_states, satp, use)
  BY <1>1 DEF Accounts
<1>4. /\ m2 = FreeUserPageTable(m1, root_page_table, satp[t])
      /\ satp' = IF m1.stuck THEN satp ELSE [satp EXCEPT ![t] = g]
      /\ task_states' = task_states
  BY DEF Exec
<1>5. PICK use1, n1 : NewSpace(m, use, n, m1, use1, n1, g, ImageSpace, 2 + Len(Image))
  BY <1>3, LoadImageMakes DEF OwnTrees
<1> HIDE DEF m1, g, m2
<1>6. /\ Grew(m, use, m1, use1, n1, g, DOMAIN ImageSpace)
      /\ ~m1.stuck => Space(m1, g) = ImageSpace
  BY <1>3, <1>5, NewSpaceGrew
<1>7. \A u \in Task : task_states[u] # TASK_DEAD => Space(m1, satp[u]) = Space(m, satp[u])
  BY <1>3, <1>6 DEF Grew, OwnTrees
<1>8. CASE m1.stuck
  <2>1. m2 = m1
    BY <1>4, <1>8, FreeUserStuck
  <2>2. Spaces(m1, task_states, satp) = S
    BY <1>7 DEF Spaces
  <2> QED
    BY <1>4, <1>8, <2>1, <2>2 DEF m2
<1>9. CASE ~m1.stuck
  <2>1. /\ Heap(m1, use1, n1) /\ g \in ManagedPages /\ use[g].lv = FREE /\ use1[g].lv = 3
        /\ \A p \in ManagedPages : use[p].lv # FREE => use1[p] = use[p]
    BY <1>6, <1>9 DEF Grew
  <2>2. /\ satp[t] \in ManagedPages /\ satp[t] # root_page_table /\ use[satp[t]].lv = 3
        /\ use[root_page_table].lv = 3
    BY <1>2, <1>3 DEF OwnTrees
  <2>3. /\ use1[satp[t]].lv = 3 /\ use1[root_page_table].lv = 3
        /\ g # root_page_table /\ g # satp[t]
    BY <2>1, <2>2, PageFacts DEF FREE
  <2>4. PICK use2, n2 : Shrank(m1, use1, m2, use2, n2, satp[t])
    BY <1>4, <1>9, <2>1, <2>2, <2>3, FreeShrank
  <2>5. \A p \in ManagedPages :
           use1[p].lv = 3 /\ p # satp[t] /\ p # root_page_table => Space(m2, p) = Space(m1, p)
    BY <2>4 DEF Shrank
  <2>6. Space(m2, g) = ImageSpace
    BY <1>6, <1>9, <2>1, <2>3, <2>5
  <2>7. ASSUME NEW u \in Task, task_states[u] # TASK_DEAD, u # t
        PROVE  Space(m2, satp[u]) = Space(m, satp[u])
    <3>1. satp[u] \in ManagedPages /\ satp[u] # root_page_table /\ use[satp[u]].lv = 3
          /\ satp[u] # satp[t]
      BY <1>2, <1>3, <2>7 DEF OwnTrees
    <3>2. use1[satp[u]].lv = 3
      BY <2>1, <3>1 DEF FREE
    <3> QED
      BY <1>7, <2>5, <2>7, <3>1, <3>2
  <2>8. \A u \in Task : satp'[u] = IF u = t THEN g ELSE satp[u]
    BY <1>2, <1>4, <1>9 DEF TablesOK
  <2>9. Spaces(m2, task_states, satp') = [S EXCEPT ![t] = ImageSpace]
    BY <1>2, <2>6, <2>7, <2>8 DEF Spaces
  <2> QED
    BY <1>4, <2>9 DEF m2
<1> QED
  BY <1>8, <1>9

\* task_exit removes one address space.
LEMMA ExitShows ==
    ASSUME IInv, ~m.stuck, NEW t \in Live, Exit(t)
    PROVE  LET S == Spaces(m, task_states, satp) IN
           /\ Spaces(m', task_states', satp') = [S EXCEPT ![t] = NoSpace]
           /\ task_states' = [task_states EXCEPT ![t] = TASK_DEAD]
<1> DEFINE m2 == m'
           S  == Spaces(m, task_states, satp)
<1>1. PICK use, n : Accounts(m, task_states, satp, use, n)
  BY DEF IInv
<1>2. TablesOK /\ t \in Task /\ task_states[t] # TASK_DEAD
  BY DEF IInv, Live
<1>3. /\ m2 = FreeUserPageTable(m, root_page_table, satp[t])
      /\ task_states' = [task_states EXCEPT ![t] = TASK_DEAD]
      /\ satp' = satp
  BY DEF Exit
<1>4. /\ Heap(m, use, n) /\ use[root_page_table].lv = 3 /\ OwnTrees(task_states, satp, use)
      /\ satp[t] \in ManagedPages /\ satp[t] # root_page_table /\ use[satp[t]].lv = 3
  BY <1>1, <1>2 DEF Accounts, OwnTrees
<1> HIDE DEF m2
<1>5. PICK use2, n2 : Shrank(m, use, m2, use2, n2, satp[t])
  BY <1>3, <1>4, FreeShrank
<1>6. \A u \in Task :
         task_states[u] # TASK_DEAD /\ u # t => Space(m2, satp[u]) = Space(m, satp[u])
  BY <1>2, <1>4, <1>5 DEF Shrank, OwnTrees
<1>7. \A u \in Task : task_states'[u] = IF u = t THEN TASK_DEAD ELSE task_states[u]
  BY <1>2, <1>3 DEF TablesOK
<1>8. Spaces(m2, task_states', satp) = [S EXCEPT ![t] = NoSpace]
  BY <1>2, <1>6, <1>7 DEF Spaces
<1> QED
  BY <1>3, <1>8 DEF m2

(***************************************************************************)
(* A slot shows an address space as long as it is live.                    *)
(***************************************************************************)
LiveShows == \A t \in Live : ShownSpaces[t] # NoSpace

\* Neither program starts with no memory at all.
LEMMA NotEmpty == BootSpace # NoSpace /\ ImageSpace # NoSpace
<1>1. DOMAIN NoSpace = {}
  BY DEF NoSpace
<1> QED
  BY <1>1, BootSpaceIs, ImageSpaceIs DEF UserPages

\* The first program sees what it should, on a machine with memory for it.
LEMMA InitShows ==
    ASSUME Init, ~m.stuck
    PROVE  Abstract!Init /\ LiveShows
<1> DEFINE g == Booted.free_list
<1>1. PICK use, n : RootOnly(Booted, use, n)
  BY BootedRoot
<1>2. /\ Heap(Booted, use, n) /\ use[root_page_table].lv = 3 /\ Booted \in Mem
      /\ Booted.stuck => Booted.free_list = 0
  BY <1>1 DEF RootOnly, Heap
<1>3. 0 \in Task /\ TASK_READY # TASK_DEAD
  BY MaxTasksAssumption DEF Task, TASK_READY, TASK_DEAD
<1>4. /\ m = TaskInit(Booted)
      /\ satp = [t \in Task |-> IF t = 0 THEN g ELSE 0]
      /\ task_states = [t \in Task |-> IF t = 0 THEN TASK_READY ELSE TASK_DEAD]
  BY DEF Init
<1>5. ~Booted.stuck
  BY <1>2, <1>4, TaskInitStuck
<1>6. PICK use2, n2 : NewSpace(Booted, use, n, m, use2, n2, g, BootSpace, 4)
  BY <1>2, <1>4, <1>5, BootedRoot, TaskInitMakes
<1> HIDE DEF g
<1>7. Space(m, g) = BootSpace
  BY <1>2, <1>6, NewSpaceGrew
<1>8. Spaces(m, task_states, satp) = [t \in Task |-> IF t = 0 THEN BootSpace ELSE NoSpace]
  BY <1>3, <1>4, <1>7 DEF Spaces
<1>9. ShownSpaces = [t \in Task |-> IF t = 0 THEN BootSpace ELSE NoSpace]
  BY <1>8, ShownSpacesAre
<1>10. LiveShows
  BY <1>3, <1>4, <1>9, NotEmpty DEF LiveShows, Live
<1>11. Abstract!Init
  BY <1>9 DEF Abstract!Init, ShownSpaces
<1> QED
  BY <1>10, <1>11

\* Every step is a step of the address spaces, or they stay.
LEMMA StepShows ==
    ASSUME IInv, LiveShows, [Next]_vars
    PROVE  [Abstract!Next]_ShownSpaces /\ LiveShows'
<1> DEFINE S  == ShownSpaces
           S2 == ShownSpaces'
<1>1. S = Spaces(m, task_states, satp) /\ S2 = Spaces(m', task_states', satp')
  BY ShownSpacesAre
<1>2. \A u \in Task : u \in Live <=> task_states[u] # TASK_DEAD
  BY DEF Live
<1>3. \A u \in Task : u \in Live' <=> task_states'[u] # TASK_DEAD
  BY DEF Live
<1>4. \A u \in Task : task_states[u] = TASK_DEAD => S[u] = NoSpace
  BY <1>1 DEF Spaces
<1>5. \A u \in Task : task_states[u] # TASK_DEAD => S[u] # NoSpace
  BY <1>2 DEF LiveShows
<1>6. DOMAIN S = Task
  BY DEF ShownSpaces
<1>7. Abstract!Live = Live
  BY <1>2, <1>4, <1>5 DEF Abstract!Live, ShownSpaces, Live
<1>8. SUFFICES /\ S2 = S \/ Abstract!Next
               /\ \A u \in Task : task_states'[u] # TASK_DEAD => S2[u] # NoSpace
  BY <1>3 DEF LiveShows, Live
<1>9. CASE Next
  <2>1. ~m.stuck
    BY <1>9 DEF Next
  <2>2. PICK t \in Live :
           \/ \E va \in Mapped(m, satp[t]), i \in StoreSlots, v \in Values : Store(t, va, i, v)
           \/ Fork(t) \/ Exec(t) \/ Exit(t)
    BY <1>9 DEF Next
  <2>3. t \in Task /\ t \in Abstract!Live /\ S[t] # NoSpace
    BY <1>2, <1>5, <1>7 DEF Live
  <2>4. CASE \E va \in Mapped(m, satp[t]), i \in StoreSlots, v \in Values : Store(t, va, i, v)
    <3>1. PICK va \in Mapped(m, satp[t]), i \in StoreSlots, v \in Values : Store(t, va, i, v)
      BY <2>4
    <3> DEFINE page == [S[t][va] EXCEPT !.words[i] = <<v, {}>>]
               new  == [S[t] EXCEPT ![va] = page]
    <3>2. /\ va \in DOMAIN S[t] /\ "W" \in S[t][va].flags /\ i \in DOMAIN S[t][va].words
          /\ S2 = [S EXCEPT ![t] = new] /\ task_states' = task_states
      BY <1>1, <2>1, <3>1, StoreShows
    <3>3. va \in Abstract!Writable(t)
      BY <3>2 DEF Abstract!Writable, ShownSpaces
    <3>4. page \in Abstract!Stored(S[t][va])
      <4> DEFINE old == S[t][va]
      <4>1. i \in DOMAIN old.words
        BY <3>2
      <4> HIDE DEF old
      <4>2. [old EXCEPT !.words[i] = <<v, {}>>] \in Abstract!Stored(old)
        <5> DEFINE f(j, x) == [old EXCEPT !.words[j] = <<x, {}>>]
        <5>1. Abstract!Stored(old) = {f(j, x) : j \in DOMAIN old.words, x \in Values}
          BY DEF Abstract!Stored
        <5>2. v \in Values
          BY <3>1
        <5> HIDE DEF f
        <5>3. f(i, v) \in Abstract!Stored(old)
          BY <4>1, <5>1, <5>2
        <5> QED
          BY <5>3 DEF f
      <4> QED
        BY <4>2 DEF old
    <3>5. new # NoSpace
      BY <3>2 DEF NoSpace
    <3>6. Abstract!Store(t, va)
      <4> HIDE DEF page
      <4>1. S2 = [S EXCEPT ![t][va] = page]
        BY <2>3, <3>2, <1>6
      <4> QED
        BY <3>4, <4>1 DEF Abstract!Store, ShownSpaces
    <3>7. Abstract!Next
      BY <2>3, <3>3, <3>6 DEF Abstract!Next
    <3> HIDE DEF new, S, S2
    <3>8. \A u \in Task : task_states'[u] # TASK_DEAD => S2[u] # NoSpace
      BY <1>5, <1>6, <3>2, <3>5
    <3> QED
      BY <3>7, <3>8
  <2>5. CASE Fork(t)
    <3>1. \/ S2 = S /\ task_states' = task_states
          \/ \E c \in Task : /\ task_states[c] = TASK_DEAD /\ S2 = [S EXCEPT ![c] = S[t]]
                             /\ task_states' = [task_states EXCEPT ![c] = TASK_READY]
      BY <1>1, <2>1, <2>5, ForkShows
    <3>2. CASE S2 = S /\ task_states' = task_states
      BY <1>5, <3>2
    <3>3. CASE \E c \in Task : /\ task_states[c] = TASK_DEAD /\ S2 = [S EXCEPT ![c] = S[t]]
                               /\ task_states' = [task_states EXCEPT ![c] = TASK_READY]
      <4>1. PICK c \in Task : /\ task_states[c] = TASK_DEAD /\ S2 = [S EXCEPT ![c] = S[t]]
                              /\ task_states' = [task_states EXCEPT ![c] = TASK_READY]
        BY <3>3
      <4>2. S[c] = NoSpace
        BY <1>4, <4>1
      <4>3. Abstract!Fork(t, c)
        BY <4>1, <4>2 DEF Abstract!Fork, ShownSpaces
      <4>4. Abstract!Next
        BY <2>3, <4>3 DEF Abstract!Next
      <4> HIDE DEF S, S2
      <4>5. \A u \in Task : task_states'[u] # TASK_DEAD => S2[u] # NoSpace
        BY <1>5, <1>6, <2>3, <4>1 DEF IInv, TablesOK
      <4> QED
        BY <4>4, <4>5
    <3> QED
      BY <3>1, <3>2, <3>3
  <2>6. CASE Exec(t)
    <3>1. task_states' = task_states /\ (S2 = S \/ S2 = [S EXCEPT ![t] = ImageSpace])
      BY <1>1, <2>1, <2>6, ExecShows
    <3>2. CASE S2 = S
      BY <1>5, <3>1, <3>2
    <3>3. CASE S2 = [S EXCEPT ![t] = ImageSpace]
      <4>1. Abstract!Exec(t)
        BY <3>3 DEF Abstract!Exec, ShownSpaces
      <4>2. Abstract!Next
        BY <2>3, <4>1 DEF Abstract!Next
      <4> HIDE DEF S, S2
      <4>3. \A u \in Task : task_states'[u] # TASK_DEAD => S2[u] # NoSpace
        BY <1>5, <1>6, <3>1, <3>3, NotEmpty
      <4> QED
        BY <4>2, <4>3
    <3> QED
      BY <3>1, <3>2, <3>3
  <2>7. CASE Exit(t)
    <3>1. S2 = [S EXCEPT ![t] = NoSpace] /\ task_states' = [task_states EXCEPT ![t] = TASK_DEAD]
      BY <1>1, <2>1, <2>7, ExitShows
    <3>2. Abstract!Exit(t)
      BY <3>1 DEF Abstract!Exit, ShownSpaces
    <3>3. Abstract!Next
      BY <2>3, <3>2 DEF Abstract!Next
    <3> HIDE DEF S, S2
    <3>4. \A u \in Task : task_states'[u] # TASK_DEAD => S2[u] # NoSpace
      BY <1>5, <1>6, <2>3, <3>1 DEF IInv, TablesOK
    <3> QED
      BY <3>3, <3>4
  <2> QED
    BY <2>2, <2>4, <2>5, <2>6, <2>7
<1>10. CASE UNCHANGED vars
  <2>1. m' = m /\ task_states' = task_states /\ satp' = satp
    BY <1>10 DEF vars
  <2>2. S2 = S
    BY <1>1, <2>1
  <2> HIDE DEF S, S2
  <2> QED
    BY <1>5, <2>1, <2>2
<1> QED
  BY <1>9, <1>10

(***************************************************************************)
(* Programs have address spaces of their own: on a machine with the memory *)
(* to boot, everything that page tables, shared frames and the free list   *)
(* do to the memory of the programs is what fork, exec, exit and their own *)
(* stores may do to separate address spaces.  This holds for a machine     *)
(* that runs out of memory, too.                                           *)
(***************************************************************************)
THEOREM PrivateAddressSpaces == ~m.stuck /\ Spec => ImplementsAddressSpaces
<1>1. ~m.stuck /\ Init => Abstract!Init /\ LiveShows
  BY InitShows
<1>2. IInv /\ LiveShows /\ [Next]_vars => [Abstract!Next]_ShownSpaces /\ LiveShows'
  BY StepShows
<1>3. IInv /\ LiveShows /\ [Next]_vars =>
          [Abstract!Next]_([t \in Task |-> IF t \in Live THEN AddressSpace(t) ELSE NoSpace])
  BY <1>2 DEF ShownSpaces
<1> QED
  BY <1>1, <1>2, <1>3, IInvInvariant, PTL DEF Spec, ImplementsAddressSpaces, Abstract!Spec
=============================================================================
