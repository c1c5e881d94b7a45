--------------------------- MODULE PageTableProofs ---------------------------
(***************************************************************************)
(* What the operators of module PageTables do to a memory whose pages have *)
(* the uses that module PageUse describes: each of alloc_page, free_page,  *)
(* map_page, copy_user_page_table and free_user_page_table takes a memory  *)
(* with Heap to a memory with Heap, for any page size and any memory.      *)
(*                                                                         *)
(*   Words and pages     what one alloc_page, free_page or write changes   *)
(*   Mapping             walks with three slots, map_page, map_range       *)
(*   Freeing             free_user_page_table returns its tree, no more    *)
(*   Copying             copy_user_page_table makes an equal tree          *)
(*   Building            page_init, mmu_init, and new page tables          *)
(***************************************************************************)
EXTENDS PageUse, FiniteSetTheorems, TLAPS

-----------------------------------------------------------------------------
(***************************************************************************)
(* Words and pages.                                                        *)
(***************************************************************************)

(***************************************************************************)
(* Arithmetic of the constants, for leaves that need no more of them.      *)
(***************************************************************************)
LEMMA PageFacts ==
    /\ 0 \in Slots /\ \A i \in Slots : i \in Int
    /\ \A p \in ManagedPages : p \in Int /\ p \in RamPages /\ p >= KernelEnd /\ p \notin ImageFrames
    /\ \A p \in RamPages : p \in Int /\ p > 0
    /\ \A p \in ImageFrames : p \in RamPages /\ p < KernelEnd
    /\ 0 \notin ManagedPages /\ 0 \notin ImageFrames
    /\ root_page_table \in ManagedPages
BY PageTablesAssumption DEF Slots, RamPages, ManagedPages, ImageFrames, root_page_table

\* A zeroed page is a page of words, and maps nothing.
LEMMA ZeroPageFacts ==
    /\ ZeroPage \in [Slots -> Word]
    /\ \A i \in Slots : ~Valid(ZeroPage[i])
BY DEF Plain, Word, ZeroPage, Valid, Flags

\* Slots spell numbers.
LEMMA SpellInt == ASSUME NEW a \in Int, NEW i \in Int PROVE Spell(a, i) \in Int
<1>1. ENTRIES \in Int
  BY PageTablesAssumption
<1> QED
  BY <1>1 DEF Spell

\* What the parts of a word are.
LEMMA WordFacts ==
    ASSUME NEW w \in Word
    PROVE  PteToPa(w) \in Int /\ Flags(w) \subseteq PteFlags
BY DEF Word, PteToPa, Flags

(***************************************************************************)
(* What the elementary operations do, word by word.                        *)
(***************************************************************************)
LEMMA SetWordFacts ==
    ASSUME NEW m \in Mem, ~m.stuck, NEW p \in RamPages, NEW i \in Slots, NEW w \in Word
    PROVE  LET m2 == SetWord(m, p, i, w) IN
           /\ m2 \in Mem /\ m2.free_list = m.free_list /\ ~m2.stuck
           /\ m2.ram[p][i] = w
           /\ \A j \in Slots \ {i} : m2.ram[p][j] = m.ram[p][j]
           /\ \A q \in RamPages \ {p} : m2.ram[q] = m.ram[q]
<1> DEFINE m2 == SetWord(m, p, i, w)
<1>1. m2 = [m EXCEPT !.ram[p][i] = w]
  BY DEF SetWord
<1>2. m2.ram = [m.ram EXCEPT ![p][i] = w] /\ m2.free_list = m.free_list /\ m2.stuck = m.stuck
  BY <1>1 DEF Mem
<1>3. m2.ram \in [RamPages -> [Slots -> Word]]
  BY <1>2 DEF Mem
<1>4. m2 \in Mem
  BY <1>1, <1>3 DEF Mem
<1> QED
  BY <1>2, <1>4 DEF Mem

\* alloc_page unlinks the head of the list, zeroes it and changes no other page.
LEMMA AllocPageFacts ==
    ASSUME NEW m \in Mem, ~m.stuck, m.free_list # 0,
           PteToPa(m.ram[m.free_list][0]) \in ManagedPages \cup {0}
    PROVE  LET m2 == AllocPage(m) IN
           /\ m2 \in Mem /\ m2.free_list = PteToPa(m.ram[m.free_list][0]) /\ ~m2.stuck
           /\ m2.ram[m.free_list] = ZeroPage
           /\ \A q \in RamPages \ {m.free_list} : m2.ram[q] = m.ram[q]
<1> DEFINE m2 == AllocPage(m)
<1>1. m2 = [m EXCEPT !.free_list = PteToPa(m.ram[m.free_list][0]),
                     !.ram[m.free_list] = ZeroPage]
  BY DEF AllocPage
<1>2. /\ m2.ram = [m.ram EXCEPT ![m.free_list] = ZeroPage]
      /\ m2.free_list = PteToPa(m.ram[m.free_list][0]) /\ m2.stuck = m.stuck
  BY <1>1 DEF Mem
<1>3. m2.ram \in [RamPages -> [Slots -> Word]]
  BY <1>2, ZeroPageFacts DEF Mem
<1>4. m2 \in Mem
  BY <1>1, <1>3 DEF Mem
<1> QED
  BY <1>2, <1>4, PageFacts DEF Mem

\* alloc_page of an empty list spins and changes nothing.
LEMMA AllocPageStuck ==
    ASSUME NEW m \in Mem, m.free_list = 0
    PROVE  LET m2 == AllocPage(m) IN
           /\ m2 \in Mem /\ m2.free_list = 0 /\ m2.stuck /\ m2.ram = m.ram
           /\ m.stuck => m2 = m
BY DEF AllocPage, Mem

\* free_page puts the page at the head, linked to the old head.
LEMMA FreePageFacts ==
    ASSUME NEW m \in Mem, ~m.stuck, NEW p \in ManagedPages
    PROVE  LET m2 == FreePage(m, p) IN
           /\ m2 \in Mem /\ m2.free_list = p /\ ~m2.stuck
           /\ PteToPa(m2.ram[p][0]) = m.free_list
           /\ \A q \in RamPages \ {p} : m2.ram[q] = m.ram[q]
<1> DEFINE m2 == FreePage(m, p)
<1>1. m2 = [m EXCEPT !.free_list = p, !.ram[p][0] = Plain(m.free_list)]
  BY PageFacts DEF FreePage
<1>2. /\ m2.ram = [m.ram EXCEPT ![p][0] = Plain(m.free_list)]
      /\ m2.free_list = p /\ m2.stuck = m.stuck
  BY <1>1 DEF Mem
<1>3. Plain(m.free_list) \in Word
  <2>1. m.free_list \in ManagedPages \cup {0}
    BY DEF Mem
  <2>2. \A q \in ManagedPages : q \in Int
    BY PageTablesAssumption DEF ManagedPages
  <2>3. m.free_list \in Int
    BY <2>1, <2>2
  <2> QED
    BY <2>3 DEF Plain, Word
<1>4. m2.ram \in [RamPages -> [Slots -> Word]]
  BY <1>2, <1>3, PageFacts DEF Mem
<1>5. m2 \in Mem
  BY <1>1, <1>4 DEF Mem
<1> QED
  BY <1>2, <1>5, PageFacts DEF Mem, Plain, PteToPa

\* The copying loop of copy_user_page_table changes the destination only.
LEMMA CopyDataFacts ==
    ASSUME NEW m \in Mem, ~m.stuck, NEW from \in RamPages, NEW to \in RamPages
    PROVE  LET m2 == CopyData(m, from, to) IN
           /\ m2 \in Mem /\ m2.free_list = m.free_list /\ ~m2.stuck
           /\ m2.ram[to] = m.ram[from]
           /\ \A q \in RamPages \ {to} : m2.ram[q] = m.ram[q]
<1> DEFINE m2 == CopyData(m, from, to)
<1>1. m2 = [m EXCEPT !.ram[to] = m.ram[from]]
  BY DEF CopyData
<1>2. /\ m2.ram = [m.ram EXCEPT ![to] = m.ram[from]]
      /\ m2.free_list = m.free_list /\ m2.stuck = m.stuck
  BY <1>1 DEF Mem
<1>3. m2.ram \in [RamPages -> [Slots -> Word]]
  BY <1>2 DEF Mem
<1>4. m2 \in Mem
  BY <1>1, <1>3 DEF Mem
<1> QED
  BY <1>2, <1>4 DEF Mem

(***************************************************************************)
(* Trees that are left alone stay as they are, and whole trees may go.     *)
(***************************************************************************)
TreesStay(m, use, m2, use2, G) ==
    \A p \in ManagedPages :
       \/ /\ use[p].lv >= 0 /\ use[p].tree \notin G /\ use2[p] = use[p]
          /\ use[p].lv > 0 => m2.ram[p] = m.ram[p]
       \/ (use[p].lv < 0 \/ use[p].tree \in G) /\ use2[p].lv < 0

\* Trees that stay are trees in the new memory too.
LEMMA TreesKept ==
    ASSUME NEW m, NEW use \in [ManagedPages -> Use], NEW m2,
           NEW use2 \in [ManagedPages -> Use], NEW G,
           EntriesOK(m, use), ParentsOK(m, use), TopsOK(use),
           TreesStay(m, use, m2, use2, G)
    PROVE  EntriesOK(m2, use2) /\ ParentsOK(m2, use2) /\ TopsOK(use2)
<1> USE DEF TreesStay
<1>0. \A p \in ManagedPages : use[p].lv \in -2 .. 3 /\ use[p].tree \in Int /\ use2[p].lv \in -2 .. 3
  BY DEF Use
<1>1. EntriesOK(m2, use2)
  <2> SUFFICES ASSUME NEW p \in ManagedPages, use2[p].lv > 0,
                      NEW i \in Slots, Valid(m2.ram[p][i])
               PROVE  EntryOK(m2, use2, p, i)
    BY DEF EntriesOK
  <2>1. use[p].lv > 0 /\ use[p].tree \notin G /\ use2[p] = use[p] /\ m2.ram[p] = m.ram[p]
    BY <1>0
  <2>2. EntryOK(m, use, p, i)
    BY <2>1 DEF EntriesOK
  <2>3. ASSUME NEW q, IsBelow(use, q, p, i)
        PROVE  IsBelow(use2, q, p, i)
    BY <1>0, <2>1, <2>3 DEF IsBelow, Below
  <2> QED
    BY <2>1, <2>2, <2>3 DEF EntryOK
<1>2. ParentsOK(m2, use2)
  <2> SUFFICES ASSUME NEW q \in ManagedPages, use2[q].lv \in 0 .. 2
               PROVE  ParentOK(m2, use2, q)
    BY DEF ParentsOK
  <2>1. use[q].lv \in 0 .. 2 /\ use[q].tree \notin G /\ use2[q] = use[q]
    BY <1>0
  <2>2. ParentOK(m, use, q)
    BY <2>1 DEF ParentsOK
  <2>3. use2[use[q].up] = use[use[q].up] /\ m2.ram[use[q].up] = m.ram[use[q].up]
    BY <1>0, <2>1, <2>2 DEF ParentOK
  <2> QED
    BY <2>1, <2>2, <2>3 DEF ParentOK, Target
<1>3. TopsOK(use2)
  BY <1>0 DEF TopsOK
<1> QED
  BY <1>1, <1>2, <1>3

(***************************************************************************)
(* alloc_page takes the page at the head of the list (page.c:50).          *)
(***************************************************************************)
LEMMA HeapAlloc ==
    ASSUME NEW m, NEW use, NEW n, Heap(m, use, n), ~m.stuck, m.free_list # 0
    PROVE  LET h    == m.free_list
               m2   == AllocPage(m)
               use2 == [use EXCEPT ![h] = Limbo]
           IN  /\ h \in ManagedPages /\ use[h].lv = FREE
               /\ Heap(m2, use2, n - 1) /\ ~m2.stuck
               /\ m2.ram[h] = ZeroPage
               /\ \A q \in RamPages \ {h} : m2.ram[q] = m.ram[q]
<1> DEFINE h    == m.free_list
           m2   == AllocPage(m)
           use2 == [use EXCEPT ![h] = Limbo]
<1>1. /\ m \in Mem /\ use \in [ManagedPages -> Use] /\ FreeListOK(m, use, n) /\ n \in Nat
      /\ EntriesOK(m, use) /\ ParentsOK(m, use) /\ TopsOK(use)
  BY DEF Heap, FreeListOK
<1>2. n # 0 /\ h \in ManagedPages /\ use[h].lv = FREE /\ use[h].slot = n
  BY <1>1 DEF FreeListOK
<1>3. /\ Target(m, h, 0) = 0 /\ n = 1
      \/ /\ Target(m, h, 0) \in ManagedPages /\ n # 1
         /\ use[Target(m, h, 0)].lv = FREE /\ use[Target(m, h, 0)].slot = n - 1
  BY <1>1, <1>2 DEF FreeListOK
<1>4. /\ m2 \in Mem /\ m2.free_list = Target(m, h, 0) /\ ~m2.stuck
      /\ m2.ram[h] = ZeroPage
      /\ \A q \in RamPages \ {h} : m2.ram[q] = m.ram[q]
  BY <1>1, <1>3, AllocPageFacts DEF Target
<1>5. /\ use2 \in [ManagedPages -> Use] /\ use2[h] = Limbo
      /\ \A p \in ManagedPages \ {h} : use2[p] = use[p] /\ m2.ram[p] = m.ram[p]
  BY <1>1, <1>2, <1>4, PageFacts DEF Use, Limbo, LIMBO
<1> HIDE DEF h, m2, use2
<1>6. FreeListOK(m2, use2, n - 1)
  <2>1. \A p \in ManagedPages : use2[p].lv = FREE =>
            p # h /\ use2[p] = use[p] /\ Target(m2, p, 0) = Target(m, p, 0)
    BY <1>5 DEF Limbo, LIMBO, FREE, Target
  <2>2. ASSUME NEW p \in ManagedPages, use2[p].lv = FREE
        PROVE  use[p].slot \in 1 .. n - 1
    <3>1. use[p].slot \in 1 .. n /\ use[p].slot # n
      BY <1>1, <1>2, <2>1, <2>2 DEF FreeListOK
    <3> QED
      BY <1>1, <3>1
  <2>3. ASSUME NEW p \in ManagedPages, use[p].lv = FREE, use[p].slot # n
        PROVE  use2[p] = use[p]
    BY <1>2, <1>5, <2>3
  <2>4. ASSUME NEW p \in ManagedPages, use2[p].lv = FREE, use2[p].slot # 1
        PROVE  /\ Target(m2, p, 0) \in ManagedPages
               /\ use2[Target(m2, p, 0)].lv = FREE
               /\ use2[Target(m2, p, 0)].slot = use2[p].slot - 1
    <3>1. /\ Target(m, p, 0) \in ManagedPages
          /\ use[Target(m, p, 0)].lv = FREE
          /\ use[Target(m, p, 0)].slot = use[p].slot - 1
      BY <1>1, <2>1, <2>4 DEF FreeListOK
    <3>2. use[p].slot - 1 # n
      BY <1>1, <2>2, <2>4
    <3> QED
      BY <2>1, <2>3, <2>4, <3>1, <3>2
  <2>5. ASSUME NEW p \in ManagedPages, use2[p].lv = FREE
        PROVE  use2[p].slot \in 1 .. n - 1 /\ (use2[p].slot = 1 => Target(m2, p, 0) = 0)
    BY <1>1, <2>1, <2>2, <2>5 DEF FreeListOK
  <2>6. ASSUME NEW p \in ManagedPages, NEW q \in ManagedPages,
               use2[p].lv = FREE, use2[q].lv = FREE, use2[p].slot = use2[q].slot
        PROVE  p = q
    BY <1>1, <2>1, <2>6 DEF FreeListOK
  <2>7. /\ n - 1 \in Nat
        /\ n - 1 = 0 => m2.free_list = 0
        /\ n - 1 # 0 => /\ m2.free_list \in ManagedPages
                        /\ use2[m2.free_list].lv = FREE
                        /\ use2[m2.free_list].slot = n - 1
    BY <1>1, <1>2, <1>3, <1>4, <2>3
  <2> QED
    BY <2>4, <2>5, <2>6, <2>7 DEF FreeListOK
<1>7. EntriesOK(m2, use2) /\ ParentsOK(m2, use2) /\ TopsOK(use2)
  <2>1. TreesStay(m, use, m2, use2, {})
    <3> SUFFICES ASSUME NEW p \in ManagedPages
                 PROVE  \/ /\ use[p].lv >= 0 /\ use2[p] = use[p] /\ m2.ram[p] = m.ram[p]
                        \/ use[p].lv < 0 /\ use2[p].lv < 0
      BY DEF TreesStay
    <3>1. CASE p = h
      BY <1>2, <1>5, <3>1 DEF Limbo, LIMBO, FREE
    <3>2. CASE p # h
      BY <1>1, <1>5, <3>2 DEF Use
    <3> QED
      BY <3>1, <3>2
  <2> QED
    BY <1>1, <1>5, <2>1, TreesKept
<1> QED
  BY <1>2, <1>4, <1>5, <1>6, <1>7 DEF Heap, h, m2, use2

(***************************************************************************)
(* The list of free pages depends on the words of those pages alone.       *)
(***************************************************************************)
ListStays(m, use, m2, use2) ==
    /\ m2.free_list = m.free_list
    /\ \A p \in ManagedPages :
          /\ use2[p].lv = FREE <=> use[p].lv = FREE
          /\ use[p].lv = FREE => use2[p] = use[p] /\ m2.ram[p] = m.ram[p]

\* A list whose pages and head stay is a list in the new memory too.
LEMMA ListKept ==
    ASSUME NEW m, NEW use, NEW n, NEW m2, NEW use2,
           FreeListOK(m, use, n), ListStays(m, use, m2, use2)
    PROVE  FreeListOK(m2, use2, n)
BY DEF FreeListOK, ListStays, Target

(***************************************************************************)
(* free_page pushes a page that is not on the list (page.c:74).            *)
(***************************************************************************)
PushDone(m, use, n, h, m2, use2) ==
    /\ m2 \in Mem /\ ~m2.stuck /\ use2 \in [ManagedPages -> Use]
    /\ FreeListOK(m2, use2, n + 1)
    /\ use2[h] = OnList(n + 1)
    /\ \A q \in ManagedPages \ {h} : use2[q] = use[q]
    /\ \A q \in RamPages \ {h} : m2.ram[q] = m.ram[q]

\* free_page makes the list longer by the page freed.
LEMMA ListPush ==
    ASSUME NEW m \in Mem, ~m.stuck, NEW use \in [ManagedPages -> Use], NEW n,
           FreeListOK(m, use, n), NEW h \in ManagedPages, use[h].lv # FREE
    PROVE  \E use2 : PushDone(m, use, n, h, FreePage(m, h), use2)
<1> DEFINE m2   == FreePage(m, h)
           use2 == [use EXCEPT ![h] = OnList(n + 1)]
<1>1. /\ m2 \in Mem /\ m2.free_list = h /\ ~m2.stuck
      /\ Target(m2, h, 0) = m.free_list
      /\ \A q \in RamPages \ {h} : m2.ram[q] = m.ram[q]
  BY FreePageFacts DEF Target
<1>2. n \in Nat
  BY DEF FreeListOK
<1>3. OnList(n + 1) \in Use
  BY <1>2 DEF OnList, Use, FREE
<1>4. /\ use2 \in [ManagedPages -> Use] /\ use2[h] = OnList(n + 1)
      /\ \A q \in ManagedPages \ {h} : use2[q] = use[q] /\ m2.ram[q] = m.ram[q]
  BY <1>1, <1>3, PageFacts
<1> HIDE DEF m2, use2
<1>5. /\ use2[h].lv = FREE /\ use2[h].slot = n + 1
      /\ \A q \in ManagedPages \ {h} : use2[q] = use[q] /\ Target(m2, q, 0) = Target(m, q, 0)
  BY <1>4 DEF OnList, Target
<1>6. ASSUME NEW p \in ManagedPages, use2[p].lv = FREE, p # h
      PROVE  /\ use2[p].slot \in 1 .. n
             /\ use2[p].slot = 1 => Target(m2, p, 0) = 0
             /\ use2[p].slot # 1 =>
                   /\ Target(m2, p, 0) \in ManagedPages
                   /\ use2[Target(m2, p, 0)].lv = FREE
                   /\ use2[Target(m2, p, 0)].slot = use2[p].slot - 1
  BY <1>5, <1>6 DEF FreeListOK
<1>7. /\ n + 1 = 1 => Target(m2, h, 0) = 0
      /\ n + 1 # 1 => /\ Target(m2, h, 0) \in ManagedPages
                      /\ use2[Target(m2, h, 0)].lv = FREE
                      /\ use2[Target(m2, h, 0)].slot = n
  BY <1>1, <1>2, <1>5 DEF FreeListOK
<1>8. FreeListOK(m2, use2, n + 1)
  <2>1. ASSUME NEW p \in ManagedPages, use2[p].lv = FREE
        PROVE  /\ use2[p].slot \in 1 .. n + 1
               /\ use2[p].slot = 1 => Target(m2, p, 0) = 0
               /\ use2[p].slot # 1 =>
                     /\ Target(m2, p, 0) \in ManagedPages
                     /\ use2[Target(m2, p, 0)].lv = FREE
                     /\ use2[Target(m2, p, 0)].slot = use2[p].slot - 1
    <3>1. CASE p = h
      BY <1>2, <1>5, <1>7, <3>1
    <3>2. CASE p # h
      BY <1>2, <1>6, <2>1, <3>2
    <3> QED
      BY <3>1, <3>2
  <2>2. ASSUME NEW p \in ManagedPages, NEW q \in ManagedPages,
               use2[p].lv = FREE, use2[q].lv = FREE, use2[p].slot = use2[q].slot
        PROVE  p = q
    <3>1. CASE p # h /\ q # h
      BY <1>5, <2>2, <3>1 DEF FreeListOK
    <3>2. \A r \in ManagedPages \ {h} : use2[r].lv = FREE => use2[r].slot # n + 1
      BY <1>2, <1>6
    <3> QED
      BY <1>5, <2>2, <3>1, <3>2
  <2> QED
    BY <1>1, <1>2, <1>5, <2>1, <2>2 DEF FreeListOK
<1>9. PushDone(m, use, n, h, m2, use2)
  BY <1>1, <1>4, <1>8 DEF PushDone
<1> QED
  BY <1>9 DEF m2

(***************************************************************************)
(* A word written outside the tables and the list matters to neither.      *)
(***************************************************************************)
LEMMA HeapWrite ==
    ASSUME NEW m, NEW use, NEW n, Heap(m, use, n), NEW m2 \in Mem,
           m2.free_list = m.free_list, m2.stuck = m.stuck,
           NEW p \in ManagedPages, use[p].lv \in {LIMBO, 0},
           \A q \in RamPages \ {p} : m2.ram[q] = m.ram[q]
    PROVE  Heap(m2, use, n)
<1>1. TreesStay(m, use, m2, use, {})
  BY PageFacts DEF TreesStay, Heap, Use, LIMBO
<1>2. ListStays(m, use, m2, use)
  BY PageFacts DEF ListStays, FREE, LIMBO
<1> QED
  BY <1>1, <1>2, TreesKept, ListKept DEF Heap

(***************************************************************************)
(* An allocated page becomes the top of a tree.                            *)
(***************************************************************************)
LEMMA HeapTop ==
    ASSUME NEW m, NEW use, NEW n, Heap(m, use, n),
           NEW h \in ManagedPages, use[h].lv = LIMBO, m.ram[h] = ZeroPage
    PROVE  Heap(m, [use EXCEPT ![h] = Top(h)], n)
<1> DEFINE use2 == [use EXCEPT ![h] = Top(h)]
<1>1. /\ use2 \in [ManagedPages -> Use] /\ use2[h] = Top(h)
      /\ \A q \in ManagedPages \ {h} : use2[q] = use[q]
  BY PageFacts DEF Heap, Use, Top
<1> HIDE DEF use2
<1>2. ListStays(m, use, m, use2)
  BY <1>1 DEF ListStays, Top, FREE, LIMBO
<1>3. EntriesOK(m, use2)
  <2> SUFFICES ASSUME NEW p \in ManagedPages, use2[p].lv > 0,
                      NEW i \in Slots, Valid(m.ram[p][i])
               PROVE  EntryOK(m, use2, p, i)
    BY DEF EntriesOK
  <2>1. p # h /\ use2[p] = use[p]
    BY <1>1, ZeroPageFacts
  <2>2. EntryOK(m, use, p, i)
    BY <2>1 DEF Heap, EntriesOK
  <2>3. ASSUME NEW q, use[p].lv > 0, IsBelow(use, q, p, i)
        PROVE  IsBelow(use2, q, p, i)
    <3>1. use[q].lv # LIMBO
      BY <2>3 DEF IsBelow, Below, LIMBO, Heap, Use
    <3> QED
      BY <1>1, <2>1, <2>3, <3>1 DEF IsBelow, Below
  <2> QED
    BY <2>1, <2>2, <2>3 DEF EntryOK, Heap, Use
<1>4. ParentsOK(m, use2)
  <2> SUFFICES ASSUME NEW q \in ManagedPages, use2[q].lv \in 0 .. 2
               PROVE  ParentOK(m, use2, q)
    BY DEF ParentsOK
  <2>1. use2[q] = use[q]
    BY <1>1 DEF Top
  <2>2. ParentOK(m, use, q)
    BY <2>1 DEF Heap, ParentsOK
  <2>3. use[q].up # h
    BY <2>1, <2>2 DEF ParentOK, LIMBO
  <2> QED
    BY <1>1, <2>1, <2>2, <2>3 DEF ParentOK
<1>5. TopsOK(use2)
  BY <1>1 DEF TopsOK, Heap, Top
<1> QED
  BY <1>1, <1>2, <1>3, <1>4, <1>5, ListKept DEF Heap, use2

(***************************************************************************)
(* A word written into a table.  It overwrites no reference to a page, and *)
(* is a good entry or none.                                                *)
(***************************************************************************)
LEMMA HeapEntry ==
    ASSUME NEW m, NEW use, NEW n, Heap(m, use, n), ~m.stuck,
           NEW p \in ManagedPages, NEW i \in Slots, NEW w \in Word, use[p].lv > 0,
           ~Valid(m.ram[p][i]) \/ (use[p].lv = 1 /\ use[p].tree = root_page_table),
           ~Valid(w) \/ EntryOK(SetWord(m, p, i, w), use, p, i)
    PROVE  LET m2 == SetWord(m, p, i, w) IN
           /\ Heap(m2, use, n) /\ ~m2.stuck
           /\ m2.ram[p][i] = w
           /\ \A j \in Slots \ {i} : m2.ram[p][j] = m.ram[p][j]
           /\ \A q \in RamPages \ {p} : m2.ram[q] = m.ram[q]
<1> DEFINE m2 == SetWord(m, p, i, w)
<1>1. /\ m2 \in Mem /\ m2.free_list = m.free_list /\ ~m2.stuck
      /\ m2.ram[p][i] = w
      /\ \A j \in Slots \ {i} : m2.ram[p][j] = m.ram[p][j]
      /\ \A q \in RamPages \ {p} : m2.ram[q] = m.ram[q]
  BY SetWordFacts, PageFacts DEF Heap
<1>2. ~Valid(w) \/ EntryOK(m2, use, p, i)
  OBVIOUS
<1> HIDE DEF m2
<1>3. ListStays(m, use, m2, use)
  BY <1>1, PageFacts DEF ListStays, FREE
<1>4. EntriesOK(m2, use)
  <2> SUFFICES ASSUME NEW q \in ManagedPages, use[q].lv > 0,
                      NEW j \in Slots, Valid(m2.ram[q][j])
               PROVE  EntryOK(m2, use, q, j)
    BY DEF EntriesOK
  <2>1. CASE q = p /\ j = i
    BY <1>1, <1>2, <2>1
  <2>2. CASE ~(q = p /\ j = i)
    <3>1. m2.ram[q][j] = m.ram[q][j]
      BY <1>1, <2>2, PageFacts
    <3>2. EntryOK(m, use, q, j)
      BY <3>1 DEF Heap, EntriesOK
    <3> QED
      BY <3>1, <3>2 DEF EntryOK
  <2> QED
    BY <2>1, <2>2
<1>5. ParentsOK(m2, use)
  <2> SUFFICES ASSUME NEW q \in ManagedPages, use[q].lv \in 0 .. 2
               PROVE  ParentOK(m2, use, q)
    BY DEF ParentsOK
  <2>1. ParentOK(m, use, q)
    BY DEF Heap, ParentsOK
  <2>2. ~(use[q].up = p /\ use[q].slot = i)
    BY <2>1 DEF ParentOK, Heap, Use
  <2>3. m2.ram[use[q].up][use[q].slot] = m.ram[use[q].up][use[q].slot]
    BY <1>1, <2>1, <2>2, PageFacts DEF ParentOK
  <2> QED
    BY <2>1, <2>3 DEF ParentOK, Target
<1>6. Heap(m2, use, n)
  BY <1>1, <1>3, <1>4, <1>5, ListKept DEF Heap
<1> QED
  BY <1>1, <1>6 DEF m2

(***************************************************************************)
(* A page put below a free slot of a table: an empty table below a higher  *)
(* level, a page of data below the last.                                   *)
(***************************************************************************)
LEMMA HeapLink ==
    ASSUME NEW m, NEW use, NEW n, Heap(m, use, n), ~m.stuck,
           NEW p \in ManagedPages, NEW i \in Slots, use[p].lv > 0, ~Valid(m.ram[p][i]),
           NEW h \in ManagedPages, use[h].lv = LIMBO,
           NEW flags \in SUBSET PteFlags, "V" \in flags,
           use[p].lv > 1 => flags = {"V"} /\ m.ram[h] = ZeroPage,
           use[p].lv = 1 => use[p].tree # root_page_table /\ {"R", "A", "D"} \subseteq flags
    PROVE  LET m2   == SetWord(m, p, i, PaToPte(h, flags))
               use2 == [use EXCEPT ![h] = Below(use, p, i)]
           IN  /\ Heap(m2, use2, n) /\ ~m2.stuck
               /\ m2.ram[p][i] = PaToPte(h, flags)
               /\ \A j \in Slots \ {i} : m2.ram[p][j] = m.ram[p][j]
               /\ \A q \in RamPages \ {p} : m2.ram[q] = m.ram[q]
<1> DEFINE w    == PaToPte(h, flags)
           m2   == SetWord(m, p, i, w)
           use2 == [use EXCEPT ![h] = Below(use, p, i)]
<1>0. w \in Word /\ Flags(w) = flags /\ PteToPa(w) = h /\ Valid(w)
  BY PageFacts DEF Word, PaToPte, Flags, PteToPa, Valid
<1> HIDE DEF w
<1>1. /\ m2 \in Mem /\ m2.free_list = m.free_list /\ ~m2.stuck
      /\ m2.ram[p][i] = w
      /\ \A j \in Slots \ {i} : m2.ram[p][j] = m.ram[p][j]
      /\ \A q \in RamPages \ {p} : m2.ram[q] = m.ram[q]
  <2>1. m \in Mem /\ p \in RamPages
    BY PageFacts DEF Heap
  <2> QED
    BY <1>0, <2>1, SetWordFacts
<1>2. Below(use, p, i) \in Use
  <2>1. use[p] \in Use /\ p \in Int /\ i \in Int
    BY PageFacts DEF Heap
  <2>2. use[p].pos \in Int
    BY <2>1 DEF Use
  <2>3. Spell(use[p].pos, i) \in Int
    BY <2>1, <2>2, SpellInt
  <2> QED
    BY <2>1, <2>3 DEF Below, Use
<1>3. /\ use2 \in [ManagedPages -> Use] /\ use2[h] = Below(use, p, i)
      /\ \A q \in ManagedPages \ {h} : use2[q] = use[q]
      /\ p # h
  BY <1>2 DEF Heap, LIMBO
<1> HIDE DEF m2, use2
<1>4. ListStays(m, use, m2, use2)
  <2>1. use2[h].lv >= 0
    BY <1>3 DEF Below, Heap, Use
  <2> QED
    BY <1>1, <1>3, <2>1, PageFacts DEF ListStays, FREE, LIMBO
<1>5. EntriesOK(m2, use2)
  <2> SUFFICES ASSUME NEW q \in ManagedPages, use2[q].lv > 0,
                      NEW j \in Slots, Valid(m2.ram[q][j])
               PROVE  EntryOK(m2, use2, q, j)
    BY DEF EntriesOK
  <2>1. CASE q = p /\ j = i
    <3>1. IsBelow(use2, h, p, i)
      BY <1>3 DEF IsBelow, Below
    <3> QED
      BY <1>0, <1>1, <1>3, <2>1, <3>1 DEF EntryOK
  <2>2. CASE q = h
    <3>1. use[p].lv > 1
      BY <1>3, <2>2 DEF Below, Heap, Use
    <3> QED
      BY <1>1, <1>3, <2>2, <3>1, PageFacts, ZeroPageFacts
  <2>3. CASE ~(q = p /\ j = i) /\ q # h
    <3>1. m2.ram[q][j] = m.ram[q][j] /\ use2[q] = use[q]
      BY <1>1, <1>3, <2>3, PageFacts
    <3>2. EntryOK(m, use, q, j)
      BY <3>1 DEF Heap, EntriesOK
    <3>3. ASSUME NEW r, IsBelow(use, r, q, j)
          PROVE  IsBelow(use2, r, q, j)
      <4>1. r # h
        BY <3>1, <3>3 DEF IsBelow, Below, LIMBO, Heap, Use
      <4> QED
        BY <1>3, <3>1, <3>3, <4>1 DEF IsBelow, Below
    <3> QED
      BY <3>1, <3>2, <3>3 DEF EntryOK
  <2> QED
    BY <2>1, <2>2, <2>3
<1>6. ParentsOK(m2, use2)
  <2> SUFFICES ASSUME NEW q \in ManagedPages, use2[q].lv \in 0 .. 2
               PROVE  ParentOK(m2, use2, q)
    BY DEF ParentsOK
  <2>1. CASE q = h
    BY <1>0, <1>1, <1>3, <2>1, PageFacts DEF ParentOK, Below, Target, Heap, Use
  <2>2. CASE q # h
    <3>1. use2[q] = use[q]
      BY <1>3, <2>2
    <3>2. ParentOK(m, use, q)
      BY <3>1 DEF Heap, ParentsOK
    <3>3. ~(use[q].up = p /\ use[q].slot = i) /\ use[q].up # h
      BY <3>1, <3>2 DEF ParentOK, LIMBO
    <3>4. m2.ram[use[q].up][use[q].slot] = m.ram[use[q].up][use[q].slot]
      BY <1>1, <3>2, <3>3, PageFacts DEF ParentOK
    <3> QED
      BY <1>3, <3>1, <3>2, <3>3, <3>4 DEF ParentOK, Target
  <2> QED
    BY <2>1, <2>2
<1>7. TopsOK(use2)
  <2>1. use2[h].lv # 3
    BY <1>3 DEF Below, Heap, Use
  <2> QED
    BY <1>3, <2>1 DEF TopsOK, Heap
<1>8. Heap(m2, use2, n)
  BY <1>1, <1>3, <1>4, <1>5, <1>6, <1>7, ListKept DEF Heap
<1> QED
  BY <1>1, <1>8 DEF m2, use2, w

-----------------------------------------------------------------------------
(***************************************************************************)
(* Mapping.                                                                *)
(***************************************************************************)

(***************************************************************************)
(* Virtual page numbers and the three slots that a walk takes.             *)
(***************************************************************************)
VirtualPages == 0 .. ENTRIES * ENTRIES * ENTRIES - 1

\* Quotient and remainder.
LEMMA DivRange ==
    ASSUME NEW a \in Nat, NEW b \in Nat \ {0}
    PROVE  /\ a \div b \in Nat /\ a % b \in 0 .. b - 1
           /\ a = b * (a \div b) + (a % b)
OBVIOUS

\* Quotient and remainder are unique.
LEMMA QuotientUnique ==
    ASSUME NEW e \in Nat, NEW x \in Nat, NEW y \in Nat, NEW j \in 0 .. e - 1, NEW k \in 0 .. e - 1,
           x * e + j = y * e + k
    PROVE  x = y /\ j = k
<1>1. ~(x < y)
  <2> SUFFICES ASSUME x + 1 <= y PROVE FALSE
    OBVIOUS
  <2>1. (x + 1) * e <= y * e /\ (x + 1) * e = x * e + e /\ x * e \in Nat /\ y * e \in Nat
    OBVIOUS
  <2> QED
    BY <2>1
<1>2. ~(y < x)
  <2> SUFFICES ASSUME y + 1 <= x PROVE FALSE
    OBVIOUS
  <2>1. (y + 1) * e <= x * e /\ (y + 1) * e = y * e + e /\ x * e \in Nat /\ y * e \in Nat
    OBVIOUS
  <2> QED
    BY <2>1
<1>3. x = y
  BY <1>1, <1>2
<1>4. x * e \in Nat
  OBVIOUS
<1> QED
  BY <1>3, <1>4

\* get_vpn: the three slots of a virtual page number are its digits.
LEMMA VpnFacts ==
    ASSUME NEW v \in VirtualPages
    PROVE  /\ Vpn(v, 0) \in Slots /\ Vpn(v, 1) \in Slots /\ Vpn(v, 2) \in Slots
           /\ v = (Vpn(v, 2) * ENTRIES + Vpn(v, 1)) * ENTRIES + Vpn(v, 0)
<1> DEFINE E == ENTRIES
           a == v \div E
           b == v \div (E * E)
<1>1. E \in Nat \ {0} /\ v \in Nat /\ v < E * E * E
  BY PageTablesAssumption DEF VirtualPages
<1>2. E * E \in Nat \ {0}
  BY <1>1
<1>3. Vpn(v, 0) = v % E /\ Vpn(v, 1) = a % E /\ Vpn(v, 2) = b % E
  BY <1>1 DEF Vpn, Reach
<1> HIDE DEF E
<1>4. a \in Nat /\ v % E \in 0 .. E - 1 /\ v = E * a + (v % E)
  BY <1>1, DivRange
<1>5. b \in Nat /\ v % (E * E) \in 0 .. E * E - 1 /\ v = (E * E) * b + (v % (E * E))
  BY <1>1, <1>2, DivRange
<1> HIDE DEF a, b
<1>6. a % E \in 0 .. E - 1 /\ b % E \in 0 .. E - 1
  BY <1>1, <1>4, <1>5, DivRange
<1>7. b < E
  <2> SUFFICES ASSUME b >= E PROVE FALSE
    BY <1>1, <1>5
  <2>1. (E * E) * b >= (E * E) * E
    BY <1>1, <1>2, <1>5
  <2> QED
    BY <1>1, <1>2, <1>5, <2>1
<1>8. b % E = b
  BY <1>1, <1>5, <1>7
<1>9. a \div E = b
  <2> DEFINE c == a \div E
             r == a % E
  <2>1. c \in Nat /\ r \in 0 .. E - 1 /\ a = E * c + r
    BY <1>1, <1>4, DivRange
  <2> HIDE DEF c, r
  <2>2. v = (E * E) * c + (E * r + (v % E))
    BY <1>1, <1>4, <2>1
  <2>3. E * r + (v % E) \in 0 .. E * E - 1
    <3>1. E * r <= E * (E - 1) /\ E * r >= 0
      BY <1>1, <2>1
    <3> QED
      BY <1>1, <1>4, <2>1, <3>1
  <2>4. c = b
    <3> DEFINE F == E * E
               x == E * r + (v % E)
               y == v % F
    <3>1. F \in Nat \ {0} /\ x \in 0 .. F - 1 /\ y \in 0 .. F - 1 /\ F * c + x = F * b + y
      BY <1>2, <1>5, <2>2, <2>3
    <3> HIDE DEF F, x, y
    <3>2. ~(c < b)
      <4> SUFFICES ASSUME c + 1 <= b PROVE FALSE
        BY <1>5, <2>1
      <4>1. F * (c + 1) <= F * b
        BY <1>5, <2>1, <3>1
      <4> QED
        BY <1>5, <2>1, <3>1, <4>1
    <3>3. ~(b < c)
      <4> SUFFICES ASSUME b + 1 <= c PROVE FALSE
        BY <1>5, <2>1
      <4>1. F * (b + 1) <= F * c
        BY <1>5, <2>1, <3>1
      <4> QED
        BY <1>5, <2>1, <3>1, <4>1
    <3> QED
      BY <1>5, <2>1, <3>2, <3>3
  <2> QED
    BY <2>4 DEF c
<1>10. a = E * b + (a % E)
  BY <1>1, <1>4, <1>9, DivRange
<1> QED
  BY <1>1, <1>3, <1>4, <1>5, <1>6, <1>8, <1>10 DEF Slots, E

\* Different virtual pages have different slots.
LEMMA VpnInjective ==
    ASSUME NEW v \in VirtualPages, NEW w \in VirtualPages,
           Vpn(v, 0) = Vpn(w, 0), Vpn(v, 1) = Vpn(w, 1), Vpn(v, 2) = Vpn(w, 2)
    PROVE  v = w
BY VpnFacts

(***************************************************************************)
(* Where a virtual page belongs in a tree: the number that its slots spell *)
(* down to a level.                                                        *)
(***************************************************************************)
Prefix(v, lv) == v \div Reach(lv)

\* The last of these numbers is the virtual page itself.
LEMMA VpnSpells ==
    ASSUME NEW v \in VirtualPages
    PROVE  /\ Prefix(v, 2) = Spell(0, Vpn(v, 2))
           /\ Prefix(v, 1) = Spell(Prefix(v, 2), Vpn(v, 1))
           /\ Prefix(v, 0) = Spell(Prefix(v, 1), Vpn(v, 0))
           /\ Prefix(v, 0) = v
<1> DEFINE E  == ENTRIES
           i0 == Vpn(v, 0)
           i1 == Vpn(v, 1)
           i2 == Vpn(v, 2)
           a  == v \div E
           b  == v \div (E * E)
<1>1. E \in Nat \ {0} /\ v \in Nat /\ E * E \in Nat \ {0}
  BY PageTablesAssumption DEF VirtualPages
<1>2. /\ i0 \in 0 .. E - 1 /\ i1 \in 0 .. E - 1 /\ i2 \in 0 .. E - 1
      /\ v = (i2 * E + i1) * E + i0
  BY VpnFacts DEF Slots
<1>3. Prefix(v, 0) = v \div 1 /\ Prefix(v, 1) = a /\ Prefix(v, 2) = b
  BY DEF Prefix, Reach
<1>4. v \div 1 = v
  BY <1>1
<1> HIDE DEF E, i0, i1, i2
<1>5. /\ a \in Nat /\ v % E \in 0 .. E - 1 /\ v = E * a + (v % E)
      /\ b \in Nat /\ v % (E * E) \in 0 .. E * E - 1 /\ v = (E * E) * b + (v % (E * E))
  BY <1>1, DivRange
<1> HIDE DEF a, b
<1>6. a = i2 * E + i1
  <2> DEFINE x == i2 * E + i1
             r == v % E
  <2>1. x \in Nat /\ a * E + r = x * E + i0
    BY <1>1, <1>2, <1>5
  <2>2. r \in 0 .. E - 1 /\ E \in Nat
    BY <1>1, <1>5
  <2> HIDE DEF x, r
  <2>3. a = x
    BY <1>2, <1>5, <2>1, <2>2, QuotientUnique
  <2> QED
    BY <2>3 DEF x
<1>7. b = i2
  <2> DEFINE F == E * E
             y == i1 * E + i0
             r == v % F
  <2>1. y \in 0 .. F - 1
    <3>1. i1 * E <= (E - 1) * E /\ i1 * E \in Nat /\ (E - 1) * E = E * E - E
      BY <1>1, <1>2
    <3> QED
      BY <1>1, <1>2, <3>1
  <2>2. b * F + r = i2 * F + y
    <3>1. (i2 * E + i1) * E = i2 * (E * E) + i1 * E
      BY <1>1, <1>2
    <3>2. (E * E) * b = b * (E * E)
      BY <1>1, <1>5
    <3> QED
      BY <1>1, <1>2, <1>5, <3>1, <3>2
  <2>3. F \in Nat /\ r \in 0 .. F - 1 /\ b \in Nat /\ i2 \in Nat
    BY <1>1, <1>2, <1>5
  <2> HIDE DEF F, y, r
  <2> QED
    BY <2>1, <2>2, <2>3, QuotientUnique
<1>8. /\ Spell(0, i2) = i2 /\ Spell(b, i1) = i2 * E + i1
      /\ Spell(a, i0) = (i2 * E + i1) * E + i0
  BY <1>1, <1>2, <1>6, <1>7 DEF Spell, E
<1> QED
  BY <1>2, <1>3, <1>4, <1>6, <1>7, <1>8 DEF i0, i1, i2

(***************************************************************************)
(* What a walk or a copy adds to tree g: nodes where virtual pages of A    *)
(* belong.                                                                 *)
(***************************************************************************)
Prefixes(A, lv) == {Prefix(v, lv) : v \in A}

Placed(use, use2, g, A) ==
    \A q \in ManagedPages : use2[q].lv \in 0 .. 2 =>
        \/ use2[q] = use[q]
        \/ use2[q].tree = g /\ use2[q].pos \in Prefixes(A, use2[q].lv)

\* Nothing is added where nothing changes.
LEMMA PlacedSame ==
    ASSUME NEW use, NEW g, NEW A
    PROVE  Placed(use, use, g, A)
BY DEF Placed

\* What is added in two steps is added.
LEMMA PlacedTrans ==
    ASSUME NEW use, NEW use2, NEW use3, NEW g, NEW A,
           Placed(use, use2, g, A), Placed(use2, use3, g, A)
    PROVE  Placed(use, use3, g, A)
BY DEF Placed

\* More virtual pages have more places.
LEMMA PlacedMore ==
    ASSUME NEW use, NEW use2, NEW g, NEW A, NEW B, Placed(use, use2, g, A), A \subseteq B
    PROVE  Placed(use, use2, g, B)
BY DEF Placed, Prefixes

(***************************************************************************)
(* A memory that has grown: what was in use stays as it was, apart from    *)
(* the words of the pages X and the uses of the pages Y, and the pages     *)
(* that left the list are now tables and data.                             *)
(***************************************************************************)
Ext(m, use, m2, use2, X, Y) ==
    /\ \A p \in ManagedPages : use[p].lv # FREE =>
          use2[p].lv # FREE /\ (p \notin Y => use2[p] = use[p])
    /\ \A p \in ManagedPages : use[p].lv = FREE /\ p \notin Y => use2[p].lv \in {FREE, 0, 1, 2}
    /\ \A p \in RamPages :
          p \in X \/ (p \in ManagedPages /\ use[p].lv = FREE) \/ m2.ram[p] = m.ram[p]

\* A memory that grows twice has grown.
LEMMA ExtTrans ==
    ASSUME NEW m, NEW use, NEW m2, NEW use2, NEW m3, NEW use3, NEW X, NEW Y, NEW X2, NEW Y2,
           Ext(m, use, m2, use2, X, Y), Ext(m2, use2, m3, use3, X2, Y2),
           \A p \in X2 : p \in X \/ (p \in ManagedPages /\ use[p].lv = FREE),
           \A p \in Y2 \cap ManagedPages : p \in Y
    PROVE  Ext(m, use, m3, use3, X, Y)
<1>1. ASSUME NEW p \in ManagedPages, use[p].lv # FREE
      PROVE  use3[p].lv # FREE /\ (p \notin Y => use3[p] = use[p])
  BY <1>1 DEF Ext
<1>2. ASSUME NEW p \in ManagedPages, use[p].lv = FREE, p \notin Y
      PROVE  use3[p].lv \in {FREE, 0, 1, 2}
  BY <1>2 DEF Ext, FREE
<1>3. ASSUME NEW p \in RamPages, p \notin X, ~(p \in ManagedPages /\ use[p].lv = FREE)
      PROVE  m3.ram[p] = m.ram[p]
  <2>1. m2.ram[p] = m.ram[p] /\ p \notin X2
    BY <1>3 DEF Ext
  <2>2. ~(p \in ManagedPages /\ use2[p].lv = FREE)
    BY <1>3 DEF Ext
  <2> QED
    BY <2>1, <2>2 DEF Ext
<1> QED
  BY <1>1, <1>2, <1>3 DEF Ext

\* A memory that stays as it is has grown.
LEMMA ExtSame ==
    ASSUME NEW m, NEW use, NEW X, NEW Y
    PROVE  Ext(m, use, m, use, X, Y)
BY DEF Ext

(***************************************************************************)
(* A new page below a free slot of a table: alloc_page and the entry that  *)
(* points to it.                                                           *)
(***************************************************************************)
LEMMA HeapNew ==
    ASSUME NEW m, NEW use, NEW n, Heap(m, use, n), ~m.stuck, m.free_list # 0,
           NEW p \in ManagedPages, NEW i \in Slots, use[p].lv > 0, ~Valid(m.ram[p][i]),
           NEW flags \in SUBSET PteFlags, "V" \in flags,
           use[p].lv > 1 => flags = {"V"},
           use[p].lv = 1 => use[p].tree # root_page_table /\ {"R", "A", "D"} \subseteq flags
    PROVE  LET h    == m.free_list
               m2   == SetWord(AllocPage(m), p, i, PaToPte(h, flags))
               use2 == [use EXCEPT ![h] = Below(use, p, i)]
           IN  /\ h \in ManagedPages /\ use[h].lv = FREE /\ h # p
               /\ Heap(m2, use2, n - 1) /\ ~m2.stuck
               /\ m2.ram[h] = ZeroPage
               /\ m2.ram[p][i] = PaToPte(h, flags)
               /\ \A j \in Slots \ {i} : m2.ram[p][j] = m.ram[p][j]
               /\ \A q \in RamPages \ {p, h} : m2.ram[q] = m.ram[q]
<1> DEFINE h    == m.free_list
           m1   == AllocPage(m)
           use1 == [use EXCEPT ![h] = Limbo]
           m2   == SetWord(m1, p, i, PaToPte(h, flags))
           use2 == [use EXCEPT ![h] = Below(use, p, i)]
<1>1. /\ h \in ManagedPages /\ use[h].lv = FREE
      /\ Heap(m1, use1, n - 1) /\ ~m1.stuck
      /\ m1.ram[h] = ZeroPage
      /\ \A q \in RamPages \ {h} : m1.ram[q] = m.ram[q]
  BY HeapAlloc
<1>2. use \in [ManagedPages -> Use]
  BY DEF Heap
<1>3. p # h
  BY <1>1 DEF FREE
<1>4. use1[h] = Limbo /\ use1[p] = use[p] /\ Below(use1, p, i) = Below(use, p, i)
  BY <1>1, <1>2, <1>3 DEF Below
<1>5. m1.ram[p] = m.ram[p]
  BY <1>1, <1>3, PageFacts
<1>6. use2 = [use1 EXCEPT ![h] = Below(use1, p, i)]
  BY <1>1, <1>2, <1>4
<1> HIDE DEF m1, use1, use2, h
<1>7. /\ Heap(m2, use2, n - 1) /\ ~m2.stuck
      /\ m2.ram[p][i] = PaToPte(h, flags)
      /\ \A j \in Slots \ {i} : m2.ram[p][j] = m1.ram[p][j]
      /\ \A q \in RamPages \ {p} : m2.ram[q] = m1.ram[q]
  <2>1. use1[h].lv = LIMBO
    BY <1>4 DEF Limbo
  <2>2. /\ use1[p].lv > 0 /\ ~Valid(m1.ram[p][i])
        /\ use1[p].lv > 1 => flags = {"V"} /\ m1.ram[h] = ZeroPage
        /\ use1[p].lv = 1 => use1[p].tree # root_page_table /\ {"R", "A", "D"} \subseteq flags
    BY <1>1, <1>4, <1>5
  <2> DEFINE use3 == [use1 EXCEPT ![h] = Below(use1, p, i)]
  <2>3. /\ Heap(m2, use3, n - 1) /\ ~m2.stuck
        /\ m2.ram[p][i] = PaToPte(h, flags)
        /\ \A j \in Slots \ {i} : m2.ram[p][j] = m1.ram[p][j]
        /\ \A q \in RamPages \ {p} : m2.ram[q] = m1.ram[q]
    BY <1>1, <2>1, <2>2, HeapLink
  <2> QED
    BY <1>6, <2>3
<1> HIDE DEF m2
<1>8. /\ m2.ram[h] = ZeroPage
      /\ \A j \in Slots \ {i} : m2.ram[p][j] = m.ram[p][j]
      /\ \A q \in RamPages \ {p, h} : m2.ram[q] = m.ram[q]
  BY <1>1, <1>3, <1>5, <1>7, PageFacts
<1> QED
  BY <1>1, <1>3, <1>7, <1>8 DEF m2, use2, h, m1

(***************************************************************************)
(* The walk for a virtual page: the tables it passes, if they are there.   *)
(***************************************************************************)
Mid(m, g, v)    == Target(m, g, Vpn(v, 2))
HasMid(m, g, v) == Valid(m.ram[g][Vpn(v, 2)])
Low(m, g, v)    == Target(m, Mid(m, g, v), Vpn(v, 1))
HasLow(m, g, v) == HasMid(m, g, v) /\ Valid(m.ram[Mid(m, g, v)][Vpn(v, 1)])

\* walk_pte without create, in these words.
LEMMA LeafPteIs ==
    ASSUME NEW m, NEW g, NEW v
    PROVE  /\ HasLow(m, g, v) => LeafPte(m, g, v) = m.ram[Low(m, g, v)][Vpn(v, 0)]
           /\ ~HasLow(m, g, v) => LeafPte(m, g, v) = Plain(0)
BY DEF LeafPte, HasLow, HasMid, Low, Mid, Target

\* The tables that a walk comes through are of the tree it starts from.
LEMMA WalkFacts ==
    ASSUME NEW m, NEW use, NEW n, Heap(m, use, n),
           NEW g \in ManagedPages, use[g].lv = 3, NEW v \in VirtualPages
    PROVE  /\ HasMid(m, g, v) => /\ Mid(m, g, v) \in ManagedPages
                                 /\ use[Mid(m, g, v)].lv = 2
                                 /\ use[Mid(m, g, v)].tree = g
                                 /\ use[Mid(m, g, v)].up = g
                                 /\ use[Mid(m, g, v)].slot = Vpn(v, 2)
           /\ HasLow(m, g, v) => /\ Low(m, g, v) \in ManagedPages
                                 /\ use[Low(m, g, v)].lv = 1
                                 /\ use[Low(m, g, v)].tree = g
                                 /\ use[Low(m, g, v)].up = Mid(m, g, v)
                                 /\ use[Low(m, g, v)].slot = Vpn(v, 1)
<1>1. /\ EntriesOK(m, use) /\ use[g].tree = g
      /\ Vpn(v, 1) \in Slots /\ Vpn(v, 2) \in Slots
  BY VpnFacts DEF Heap, TopsOK
<1>2. ASSUME HasMid(m, g, v)
      PROVE  IsBelow(use, Mid(m, g, v), g, Vpn(v, 2))
  BY <1>1, <1>2 DEF EntriesOK, EntryOK, HasMid, Mid, Target
<1>3. ASSUME HasLow(m, g, v)
      PROVE  IsBelow(use, Low(m, g, v), Mid(m, g, v), Vpn(v, 1))
  <2>1. Mid(m, g, v) \in ManagedPages /\ use[Mid(m, g, v)].lv = 2
    BY <1>2, <1>3 DEF HasLow, IsBelow, Below
  <2> QED
    BY <1>1, <1>3, <2>1 DEF EntriesOK, EntryOK, HasLow, Low, Target
<1> QED
  BY <1>1, <1>2, <1>3 DEF IsBelow, Below, HasLow

\* They are where their virtual page belongs.
LEMMA WalkPlaces ==
    ASSUME NEW m, NEW use, NEW n, Heap(m, use, n),
           NEW g \in ManagedPages, use[g].lv = 3, NEW v \in VirtualPages
    PROVE  /\ HasMid(m, g, v) => use[Mid(m, g, v)].pos = Prefix(v, 2)
           /\ HasLow(m, g, v) => use[Low(m, g, v)].pos = Prefix(v, 1)
<1>1. /\ EntriesOK(m, use) /\ use[g].pos = 0
      /\ Vpn(v, 1) \in Slots /\ Vpn(v, 2) \in Slots
  BY VpnFacts DEF Heap, TopsOK
<1>2. ASSUME HasMid(m, g, v)
      PROVE  use[Mid(m, g, v)].pos = Prefix(v, 2)
  <2>1. IsBelow(use, Mid(m, g, v), g, Vpn(v, 2))
    BY <1>1, <1>2 DEF EntriesOK, EntryOK, HasMid, Mid, Target
  <2> QED
    BY <1>1, <2>1, VpnSpells DEF IsBelow, Below
<1>3. ASSUME HasLow(m, g, v)
      PROVE  use[Low(m, g, v)].pos = Prefix(v, 1)
  <2>1. HasMid(m, g, v) /\ Mid(m, g, v) \in ManagedPages /\ use[Mid(m, g, v)].lv = 2
    BY <1>3, WalkFacts DEF HasLow
  <2>2. IsBelow(use, Low(m, g, v), Mid(m, g, v), Vpn(v, 1))
    BY <1>1, <1>3, <2>1 DEF EntriesOK, EntryOK, HasLow, Low, Target
  <2> QED
    BY <1>2, <2>1, <2>2, VpnSpells DEF IsBelow, Below
<1> QED
  BY <1>2, <1>3

(***************************************************************************)
(* An empty table below a free slot is not seen by any walk.               *)
(***************************************************************************)
LEMMA NewTableLeaves ==
    ASSUME NEW m, NEW use, NEW n, Heap(m, use, n), NEW m2,
           NEW p \in ManagedPages, NEW i \in Slots, use[p].lv > 1, ~Valid(m.ram[p][i]),
           NEW h \in ManagedPages, use[h].lv = FREE,
           m2.ram[h] = ZeroPage, m2.ram[p][i] = PaToPte(h, {"V"}),
           \A j \in Slots \ {i} : m2.ram[p][j] = m.ram[p][j],
           \A q \in RamPages \ {p, h} : m2.ram[q] = m.ram[q],
           NEW g \in ManagedPages, use[g].lv = 3, NEW v \in VirtualPages
    PROVE  LeafPte(m2, g, v) = LeafPte(m, g, v)
<1> DEFINE i0 == Vpn(v, 0)
           i1 == Vpn(v, 1)
           i2 == Vpn(v, 2)
<1>1. i0 \in Slots /\ i1 \in Slots /\ i2 \in Slots
  BY VpnFacts
<1>2. \A q \in ManagedPages : use[q].lv > 0 =>
          q # h /\ \A j \in Slots : ~(q = p /\ j = i) => m2.ram[q][j] = m.ram[q][j]
  BY PageFacts DEF FREE
<1>3. Target(m2, p, i) = h /\ ZeroPage[i0] = Plain(0) /\ ~Valid(ZeroPage[i1])
  BY <1>1, ZeroPageFacts DEF Target, PaToPte, PteToPa, ZeroPage
<1>4. CASE ~HasMid(m, g, v)
  <2>1. CASE g = p /\ i2 = i
    <3>1. Mid(m2, g, v) = h
      BY <1>3, <2>1 DEF Mid
    <3>2. ~HasLow(m2, g, v)
      BY <1>3, <3>1 DEF HasLow
    <3> QED
      BY <1>4, <3>2, LeafPteIs DEF HasLow
  <2>2. CASE ~(g = p /\ i2 = i)
    <3>1. ~HasMid(m2, g, v)
      BY <1>1, <1>2, <1>4, <2>2 DEF HasMid
    <3> QED
      BY <1>4, <3>1, LeafPteIs DEF HasLow
  <2> QED
    BY <2>1, <2>2
<1>5. CASE HasMid(m, g, v)
  <2> DEFINE t == Mid(m, g, v)
  <2>1. m2.ram[g][i2] = m.ram[g][i2]
    BY <1>1, <1>2, <1>5 DEF HasMid
  <2>2. HasMid(m2, g, v) /\ Mid(m2, g, v) = t
    BY <1>5, <2>1 DEF HasMid, Mid, Target
  <2>3. t \in ManagedPages /\ use[t].lv = 2
    BY <1>5, WalkFacts
  <2> HIDE DEF t
  <2>4. CASE HasLow(m, g, v)
    <3>1. Valid(m.ram[t][i1])
      BY <2>4 DEF HasLow, t
    <3>2. m2.ram[t][i1] = m.ram[t][i1]
      BY <1>1, <1>2, <2>3, <3>1
    <3>3. HasLow(m2, g, v) /\ Low(m2, g, v) = Low(m, g, v)
      BY <2>2, <3>1, <3>2 DEF HasLow, Low, Target, t
    <3>4. m2.ram[Low(m, g, v)][i0] = m.ram[Low(m, g, v)][i0]
      <4>1. Low(m, g, v) \in ManagedPages /\ use[Low(m, g, v)].lv = 1
        BY <2>4, WalkFacts
      <4> QED
        BY <1>1, <1>2, <4>1
    <3> QED
      BY <2>4, <3>3, <3>4, LeafPteIs
  <2>5. CASE ~HasLow(m, g, v)
    <3>1. ~Valid(m.ram[t][i1])
      BY <1>5, <2>5 DEF HasLow, t
    <3>2. CASE t = p /\ i1 = i
      <4>1. HasLow(m2, g, v) => Low(m2, g, v) = h
        BY <1>3, <2>2, <3>2 DEF Low
      <4> QED
        BY <1>3, <2>5, <4>1, LeafPteIs
    <3>3. CASE ~(t = p /\ i1 = i)
      <4>1. m2.ram[t][i1] = m.ram[t][i1]
        BY <1>1, <1>2, <2>3, <3>3
      <4>2. ~HasLow(m2, g, v)
        BY <2>2, <3>1, <4>1 DEF HasLow
      <4> QED
        BY <2>5, <4>2, LeafPteIs
    <3> QED
      BY <3>2, <3>3
  <2> QED
    BY <2>4, <2>5
<1> QED
  BY <1>4, <1>5

\* An alloc_page that fails keeps the heap: only the machine stands still.
LEMMA HeapOutOfMemory ==
    ASSUME NEW m, NEW use, NEW n, Heap(m, use, n), m.free_list = 0
    PROVE  LET m2 == AllocPage(m) IN
           Heap(m2, use, n) /\ m2.stuck /\ m2.ram = m.ram /\ m2.free_list = 0
<1> DEFINE m2 == AllocPage(m)
<1>1. /\ m \in Mem /\ use \in [ManagedPages -> Use] /\ FreeListOK(m, use, n)
      /\ EntriesOK(m, use) /\ ParentsOK(m, use) /\ TopsOK(use)
  BY DEF Heap
<1>2. m2 \in Mem /\ m2.free_list = 0 /\ m2.stuck /\ m2.ram = m.ram
  BY <1>1, AllocPageStuck
<1> HIDE DEF m2
<1>3. ListStays(m, use, m2, use)
  BY <1>2 DEF ListStays
<1>4. EntriesOK(m2, use) /\ ParentsOK(m2, use)
  <2>1. ASSUME NEW p \in ManagedPages, use[p].lv > 0, NEW i \in Slots, Valid(m2.ram[p][i])
        PROVE  EntryOK(m2, use, p, i)
    <3>1. EntryOK(m, use, p, i)
      BY <1>1, <1>2, <2>1 DEF EntriesOK
    <3> QED
      BY <1>2, <3>1 DEF EntryOK
  <2>2. ASSUME NEW q \in ManagedPages, use[q].lv \in 0 .. 2
        PROVE  ParentOK(m2, use, q)
    <3>1. ParentOK(m, use, q)
      BY <1>1, <2>2 DEF ParentsOK
    <3> QED
      BY <1>2, <3>1 DEF ParentOK, Target
  <2> QED
    BY <2>1, <2>2 DEF EntriesOK, ParentsOK
<1> QED
  BY <1>1, <1>2, <1>3, <1>4, ListKept DEF Heap, m2

(***************************************************************************)
(* One level of walk_pte with create (mmu.c:41): the table below entry i   *)
(* of p, whether it was there or is new.  No walk sees the difference.     *)
(***************************************************************************)
SameLeaves(m, use, m2) ==
    \A g \in ManagedPages, v \in VirtualPages :
        use[g].lv = 3 => LeafPte(m2, g, v) = LeafPte(m, g, v)

\* What an operation takes from a list of n pages that needs k of them.
Takes(m2, n, n2, k) == IF m2.stuck THEN n < k ELSE n2 = n - k

\* Nothing happens when the table is there; otherwise one page is taken, for an
\* empty table below entry i.
OneTable(m, use, n, p, i, m2, q, use2, n2) ==
    /\ \A r \in ManagedPages : use2[r] = use[r] \/ use2[r] = Below(use, p, i)
    /\ IF Valid(m.ram[p][i]) THEN m2 = m /\ n2 = n
       ELSE Takes(m2, n, n2, 1) /\ (~m2.stuck => m2.ram[q] = ZeroPage)

DescendDone(m, use, n, p, i, m2, q, use2, n2) ==
    /\ Descend([m |-> m, table |-> p], i) = [m |-> m2, table |-> q]
    /\ Heap(m2, use2, n2)
    /\ Ext(m, use, m2, use2, {p}, {})
    /\ SameLeaves(m, use, m2)
    /\ OneTable(m, use, n, p, i, m2, q, use2, n2)
    /\ ~m2.stuck => /\ Valid(m2.ram[p][i]) /\ Target(m2, p, i) = q
                    /\ q \in ManagedPages /\ use2[q] = Below(use, p, i)

\* Following or adding one table keeps the heap, and every leaf.
LEMMA DescendHeap ==
    ASSUME NEW m, NEW use, NEW n, Heap(m, use, n), ~m.stuck,
           NEW p \in ManagedPages, use[p].lv > 1, NEW i \in Slots
    PROVE  \E m2, q, use2, n2 : DescendDone(m, use, n, p, i, m2, q, use2, n2)
<1> DEFINE walk == [m |-> m, table |-> p]
<1>1. CASE Valid(m.ram[p][i])
  <2> DEFINE q == Target(m, p, i)
  <2>1. Descend(walk, i) = [m |-> m, table |-> q]
    BY <1>1 DEF Descend, Target
  <2>2. q \in ManagedPages /\ use[q] = Below(use, p, i)
    <3>1. use[p].lv > 0 /\ EntriesOK(m, use)
      BY DEF Heap, Use
    <3> QED
      BY <1>1, <3>1 DEF EntriesOK, EntryOK, IsBelow, Target
  <2>3. Ext(m, use, m, use, {p}, {}) /\ SameLeaves(m, use, m)
    BY ExtSame DEF SameLeaves
  <2> HIDE DEF q, walk
  <2>4. OneTable(m, use, n, p, i, m, q, use, n)
    BY <1>1 DEF OneTable
  <2> QED
    BY <1>1, <2>1, <2>2, <2>3, <2>4 DEF walk, q, DescendDone
<1>2. CASE ~Valid(m.ram[p][i]) /\ m.free_list # 0
  <2> DEFINE h    == m.free_list
             w    == PaToPte(h, {"V"})
             m2   == SetWord(AllocPage(m), p, i, w)
             use2 == [use EXCEPT ![h] = Below(use, p, i)]
  <2>1. Descend(walk, i) = [m |-> m2, table |-> h]
    BY <1>2 DEF Descend
  <2>2. /\ h \in ManagedPages /\ use[h].lv = FREE /\ h # p
        /\ Heap(m2, use2, n - 1) /\ ~m2.stuck
        /\ m2.ram[h] = ZeroPage
        /\ m2.ram[p][i] = w
        /\ \A j \in Slots \ {i} : m2.ram[p][j] = m.ram[p][j]
        /\ \A q \in RamPages \ {p, h} : m2.ram[q] = m.ram[q]
    <3>1. {"V"} \in SUBSET PteFlags /\ "V" \in {"V"}
      BY DEF PteFlags
    <3>2. ~(use[p].lv = 1)
      BY DEF Heap, Use
    <3> DEFINE flags == {"V"}
    <3>3. flags \in SUBSET PteFlags /\ "V" \in flags /\ (use[p].lv > 1 => flags = {"V"})
      BY <3>1
    <3>4. use[p].lv > 0
      BY DEF Heap, Use
    <3> HIDE DEF flags
    <3>5. /\ h \in ManagedPages /\ use[h].lv = FREE /\ h # p
          /\ Heap(SetWord(AllocPage(m), p, i, PaToPte(h, flags)), use2, n - 1)
          /\ ~SetWord(AllocPage(m), p, i, PaToPte(h, flags)).stuck
          /\ SetWord(AllocPage(m), p, i, PaToPte(h, flags)).ram[h] = ZeroPage
          /\ SetWord(AllocPage(m), p, i, PaToPte(h, flags)).ram[p][i] = PaToPte(h, flags)
          /\ \A j \in Slots \ {i} :
                SetWord(AllocPage(m), p, i, PaToPte(h, flags)).ram[p][j] = m.ram[p][j]
          /\ \A q \in RamPages \ {p, h} :
                SetWord(AllocPage(m), p, i, PaToPte(h, flags)).ram[q] = m.ram[q]
      BY <1>2, <3>2, <3>3, <3>4, HeapNew
    <3> QED
      BY <3>5 DEF flags
  <2> HIDE DEF m2, w, h, walk
  <2>3. use2[h] = Below(use, p, i) /\ \A q \in ManagedPages \ {h} : use2[q] = use[q]
    BY <2>2 DEF Heap
  <2> HIDE DEF use2
  <2>4. Ext(m, use, m2, use2, {p}, {})
    <3>1. use2[h].lv \in {1, 2}
      BY <2>3 DEF Below, Heap, Use
    <3> QED
      BY <2>2, <2>3, <3>1, PageFacts DEF Ext
  <2>5. SameLeaves(m, use, m2)
    BY <1>2, <2>2, NewTableLeaves DEF SameLeaves, w
  <2>6. Valid(m2.ram[p][i]) /\ Target(m2, p, i) = h
    BY <2>2 DEF w, Valid, Target, PaToPte, PteToPa, Flags
  <2>7. OneTable(m, use, n, p, i, m2, h, use2, n - 1)
    BY <1>2, <2>2, <2>3 DEF OneTable, Takes
  <2> QED
    BY <2>1, <2>2, <2>3, <2>4, <2>5, <2>6, <2>7 DEF walk, DescendDone
<1>3. CASE ~Valid(m.ram[p][i]) /\ m.free_list = 0
  <2> DEFINE m2 == AllocPage(m)
  <2>1. Heap(m2, use, n) /\ m2.stuck /\ m2.ram = m.ram
    BY <1>3, HeapOutOfMemory
  <2>2. Descend(walk, i) = [m |-> m2, table |-> m.free_list]
    BY <1>3, <2>1 DEF Descend, SetWord
  <2> HIDE DEF m2, walk
  <2>3. Ext(m, use, m2, use, {p}, {}) /\ SameLeaves(m, use, m2)
    <3>1. Ext(m, use, m2, use, {p}, {})
      BY <2>1 DEF Ext
    <3>2. SameLeaves(m, use, m2)
      BY <2>1 DEF SameLeaves, LeafPte
    <3> QED
      BY <3>1, <3>2
  <2>4. OneTable(m, use, n, p, i, m2, m.free_list, use, n)
    <3>1. n = 0
      BY <1>3, PageFacts DEF Heap, FreeListOK
    <3> QED
      BY <1>3, <2>1, <3>1 DEF OneTable, Takes
  <2> QED
    BY <2>1, <2>2, <2>3, <2>4 DEF walk, DescendDone
<1> QED
  BY <1>1, <1>2, <1>3

(***************************************************************************)
(* A walk to an entry of a table of the last level starts at one page      *)
(* table, for one virtual page; a word written there is seen by it alone.  *)
(***************************************************************************)
LEMMA LowInjective ==
    ASSUME NEW m, NEW use, NEW n, Heap(m, use, n),
           NEW g \in ManagedPages, use[g].lv = 3, NEW v \in VirtualPages, HasLow(m, g, v),
           NEW g2 \in ManagedPages, use[g2].lv = 3, NEW v2 \in VirtualPages, HasLow(m, g2, v2),
           Low(m, g, v) = Low(m, g2, v2), Vpn(v, 0) = Vpn(v2, 0)
    PROVE  g = g2 /\ v = v2
<1>1. HasMid(m, g, v) /\ HasMid(m, g2, v2)
  BY DEF HasLow
<1>2. Vpn(v, 1) = Vpn(v2, 1) /\ Mid(m, g, v) = Mid(m, g2, v2)
  BY WalkFacts
<1>3. Vpn(v, 2) = Vpn(v2, 2) /\ g = g2
  BY <1>1, <1>2, WalkFacts
<1> QED
  BY <1>2, <1>3, VpnInjective

\* A write to one slot of a last table changes the leaf of one page, if any.
LEMMA LeafWrite ==
    ASSUME NEW m, NEW use, NEW n, Heap(m, use, n), NEW m2,
           NEW t \in ManagedPages, use[t].lv = 1, NEW i \in Slots,
           \A j \in Slots \ {i} : m2.ram[t][j] = m.ram[t][j],
           \A q \in RamPages \ {t} : m2.ram[q] = m.ram[q],
           NEW g \in ManagedPages, use[g].lv = 3, NEW v \in VirtualPages
    PROVE  /\ HasLow(m2, g, v) <=> HasLow(m, g, v)
           /\ HasLow(m, g, v) => Low(m2, g, v) = Low(m, g, v)
           /\ ~(HasLow(m, g, v) /\ Low(m, g, v) = t /\ Vpn(v, 0) = i) =>
                 LeafPte(m2, g, v) = LeafPte(m, g, v)
<1>1. m2.ram[g] = m.ram[g]
  BY PageFacts
<1>2. /\ HasMid(m2, g, v) <=> HasMid(m, g, v)
      /\ Mid(m2, g, v) = Mid(m, g, v)
  BY <1>1 DEF HasMid, Mid, Target
<1>3. HasMid(m, g, v) => m2.ram[Mid(m, g, v)] = m.ram[Mid(m, g, v)]
  BY WalkFacts, PageFacts
<1>4. /\ HasLow(m2, g, v) <=> HasLow(m, g, v)
      /\ HasLow(m, g, v) => Low(m2, g, v) = Low(m, g, v)
  BY <1>2, <1>3 DEF HasLow, Low, Target
<1>5. ASSUME HasLow(m, g, v), ~(Low(m, g, v) = t /\ Vpn(v, 0) = i)
      PROVE  LeafPte(m2, g, v) = LeafPte(m, g, v)
  <2>1. Low(m, g, v) \in ManagedPages /\ Vpn(v, 0) \in Slots
    BY <1>5, WalkFacts, VpnFacts
  <2>2. m2.ram[Low(m, g, v)][Vpn(v, 0)] = m.ram[Low(m, g, v)][Vpn(v, 0)]
    BY <1>5, <2>1, PageFacts
  <2> QED
    BY <1>4, <1>5, <2>2, LeafPteIs
<1>6. ASSUME ~HasLow(m, g, v)
      PROVE  LeafPte(m2, g, v) = LeafPte(m, g, v)
  BY <1>4, <1>6, LeafPteIs
<1> QED
  BY <1>4, <1>5, <1>6

(***************************************************************************)
(* map_page (mmu.c:66).  The kernel's own table may map anything; that of  *)
(* a task maps, where nothing is mapped yet, a page just allocated, which  *)
(* becomes data of its tree, or a page of the kernel image, not writable   *)
(* by the program.  It is seen by no other walk.                           *)
(***************************************************************************)
MayMap(m, use, g, va, pa, flags) ==
    /\ va \in VirtualPages /\ pa \in Int
    /\ flags \in SUBSET PteFlags /\ "V" \in flags
    /\ \/ g = root_page_table
       \/ /\ ~Valid(LeafPte(m, g, va)) /\ "R" \in flags
          /\ \/ pa \in ManagedPages /\ use[pa].lv = LIMBO
             \/ pa \in ImageFrames /\ ~({"U", "W"} \subseteq flags)

TablesOf(use, g) == {p \in ManagedPages : use[p].lv > 0 /\ use[p].tree = g}

OtherLeaves(m, use, m2, g, va) ==
    \A g2 \in ManagedPages, v \in VirtualPages :
        use[g2].lv = 3 /\ ~(g2 = g /\ v = va) => LeafPte(m2, g2, v) = LeafPte(m, g2, v)

\* The tables that are missing on the way to the leaf of v.
Missing(m, g, v) == IF HasLow(m, g, v) THEN 0 ELSE IF HasMid(m, g, v) THEN 1 ELSE 2

MapPageDone(m, use, n, m2, use2, n2, g, va, pa, flags) ==
    /\ Heap(m2, use2, n2)
    /\ Placed(use, use2, g, {va})
    /\ Takes(m2, n, n2, Missing(m, g, va))
    /\ Ext(m, use, m2, use2, TablesOf(use, g), IF g = root_page_table THEN {} ELSE {pa})
    /\ g # root_page_table /\ pa \in ManagedPages => use2[pa].lv \in {LIMBO, 0}
    /\ OtherLeaves(m, use, m2, g, va)
    /\ ~m2.stuck => /\ LeafPte(m2, g, va) = PaToPte(pa, flags \cup {"A", "D"})
                    /\ g # root_page_table /\ pa \in ManagedPages => use2[pa].lv = 0

\* The last step of map_page, when the tables are there.
LEMMA MapLeaf ==
    ASSUME NEW m, NEW use, NEW n, Heap(m, use, n), ~m.stuck,
           NEW g \in ManagedPages, use[g].lv = 3, NEW va, NEW pa, NEW flags,
           MayMap(m, use, g, va, pa, flags), HasLow(m, g, va)
    PROVE  LET m2 == SetWord(m, Low(m, g, va), Vpn(va, 0), PaToPte(pa, flags \cup {"A", "D"}))
           IN  \E use2, n2 : MapPageDone(m, use, n, m2, use2, n2, g, va, pa, flags)
<1> DEFINE t    == Low(m, g, va)
           i    == Vpn(va, 0)
           all  == flags \cup {"A", "D"}
           w    == PaToPte(pa, all)
           m2   == SetWord(m, t, i, w)
<1>1. /\ va \in VirtualPages /\ pa \in Int /\ i \in Slots
      /\ all \in SUBSET PteFlags /\ "V" \in all /\ {"A", "D"} \subseteq all
      /\ {"U", "W"} \subseteq all => {"U", "W"} \subseteq flags
      /\ "R" \in flags => {"R", "A", "D"} \subseteq all
  BY VpnFacts DEF MayMap, PteFlags
<1>2. /\ t \in ManagedPages /\ use[t].lv = 1 /\ use[t].tree = g
      /\ m \in Mem /\ use \in [ManagedPages -> Use] /\ t \in RamPages
  BY <1>1, WalkFacts, PageFacts DEF Heap
<1>3. LeafPte(m, g, va) = m.ram[t][i]
  BY LeafPteIs
<1> HIDE DEF t, i, all
<1>4. w \in Word /\ Flags(w) = all /\ PteToPa(w) = pa /\ Valid(w)
  BY <1>1 DEF Word, PaToPte, Flags, PteToPa, Valid
<1>5. g # root_page_table => ~Valid(m.ram[t][i]) /\ "R" \in flags
  BY <1>3 DEF MayMap
<1> HIDE DEF w
<1>6. ASSUME NEW use2, Heap(m2, use2, n),
             use2 = use \/ (g # root_page_table /\ pa \in ManagedPages /\ use[pa].lv = LIMBO
                              /\ use2 = [use EXCEPT ![pa] = Below(use, t, i)]),
             g = root_page_table \/ pa \notin ManagedPages => use2 = use,
             use2 = use => g = root_page_table \/ pa \notin ManagedPages,
             m2.ram[t][i] = w,
             \A j \in Slots \ {i} : m2.ram[t][j] = m.ram[t][j],
             \A q \in RamPages \ {t} : m2.ram[q] = m.ram[q]
      PROVE  MapPageDone(m, use, n, m2, use2, n, g, va, pa, flags)
  <2>0. ~m2.stuck
    BY <1>1, <1>2, <1>4, SetWordFacts
  <2> HIDE DEF m2
  <2>1. t \in TablesOf(use, g)
    BY <1>2 DEF TablesOf
  <2>2. use2 # use => use2[pa].lv = 0 /\ \A q \in ManagedPages \ {pa} : use2[q] = use[q]
    BY <1>2, <1>6 DEF Below
  <2>3. Ext(m, use, m2, use2, TablesOf(use, g), IF g = root_page_table THEN {} ELSE {pa})
    <3>1. CASE use2 = use
      BY <1>6, <2>1, <3>1 DEF Ext
    <3>2. CASE use2 # use
      BY <1>6, <2>1, <2>2, <3>2 DEF Ext, LIMBO, FREE
    <3> QED
      BY <3>1, <3>2
  <2>4. OtherLeaves(m, use, m2, g, va)
    <3> SUFFICES ASSUME NEW g2 \in ManagedPages, NEW v \in VirtualPages,
                        use[g2].lv = 3, ~(g2 = g /\ v = va)
                 PROVE  LeafPte(m2, g2, v) = LeafPte(m, g2, v)
      BY DEF OtherLeaves
    <3>1. ~(HasLow(m, g2, v) /\ Low(m, g2, v) = t /\ Vpn(v, 0) = i)
      BY <1>1, LowInjective DEF t, i
    <3> QED
      BY <1>1, <1>2, <1>6, <3>1, LeafWrite
  <2>5. LeafPte(m2, g, va) = w
    <3>1. HasLow(m2, g, va) /\ Low(m2, g, va) = t
      BY <1>1, <1>2, <1>6, LeafWrite DEF t
    <3> QED
      BY <1>6, <3>1, LeafPteIs DEF i
  <2>6. Placed(use, use2, g, {va})
    <3>1. Spell(use[t].pos, i) = Prefix(va, 0)
      BY <1>1, WalkPlaces, VpnSpells DEF t, i
    <3>2. use2 # use => use2[pa] = Below(use, t, i)
      BY <1>2, <1>6
    <3> QED
      BY <1>2, <2>2, <3>1, <3>2 DEF Placed, Prefixes, Below
  <2>7. Takes(m2, n, n, Missing(m, g, va))
    BY <2>0 DEF Takes, Missing, Heap, FreeListOK
  <2> QED
    BY <1>6, <2>2, <2>3, <2>4, <2>5, <2>6, <2>7 DEF MapPageDone, w, all
<1>7. CASE g = root_page_table
  <2>1. EntryOK(m2, use, t, i)
    BY <1>2, <1>7 DEF EntryOK
  <2>2. /\ Heap(m2, use, n) /\ m2.ram[t][i] = w
        /\ \A j \in Slots \ {i} : m2.ram[t][j] = m.ram[t][j]
        /\ \A q \in RamPages \ {t} : m2.ram[q] = m.ram[q]
    BY <1>1, <1>2, <1>4, <1>7, <2>1, HeapEntry
  <2> HIDE DEF m2
  <2> QED
    BY <1>6, <1>7, <2>2 DEF m2, w, t, i, all
<1>8. CASE g # root_page_table /\ pa \in ManagedPages
  <2> DEFINE use2 == [use EXCEPT ![pa] = Below(use, t, i)]
  <2>1. use[pa].lv = LIMBO
    BY <1>8, PageFacts DEF MayMap
  <2>2. /\ Heap(m2, use2, n) /\ m2.ram[t][i] = w
        /\ \A j \in Slots \ {i} : m2.ram[t][j] = m.ram[t][j]
        /\ \A q \in RamPages \ {t} : m2.ram[q] = m.ram[q]
    <3>1. /\ use[t].lv > 0 /\ ~Valid(m.ram[t][i])
          /\ use[t].lv > 1 => all = {"V"} /\ m.ram[pa] = ZeroPage
          /\ use[t].lv = 1 => use[t].tree # root_page_table /\ {"R", "A", "D"} \subseteq all
      BY <1>1, <1>2, <1>5, <1>8
    <3>2. LET m3 == SetWord(m, t, i, PaToPte(pa, all)) IN
          /\ Heap(m3, use2, n) /\ m3.ram[t][i] = PaToPte(pa, all)
          /\ \A j \in Slots \ {i} : m3.ram[t][j] = m.ram[t][j]
          /\ \A q \in RamPages \ {t} : m3.ram[q] = m.ram[q]
      <4>1. all \in SUBSET PteFlags /\ "V" \in all /\ i \in Slots
        BY <1>1
      <4>2. t \in ManagedPages /\ pa \in ManagedPages
        BY <1>2, <1>8
      <4> QED
        BY <2>1, <3>1, <4>1, <4>2, HeapLink
    <3> QED
      BY <3>2 DEF w
  <2>3. use2 # use
    <3>1. use2[pa].lv = 0
      BY <1>2, <1>8 DEF Below
    <3> QED
      BY <2>1, <3>1 DEF LIMBO
  <2> HIDE DEF m2, use2
  <2>4. MapPageDone(m, use, n, m2, use2, n, g, va, pa, flags)
    BY <1>6, <1>8, <2>1, <2>2, <2>3 DEF use2
  <2> QED
    BY <2>4 DEF m2, w, t, i, all
<1>9. CASE g # root_page_table /\ pa \notin ManagedPages
  <2>1. pa \in ImageFrames /\ ~({"U", "W"} \subseteq flags)
    BY <1>9 DEF MayMap
  <2>2. m2.ram[t][i] = w
    BY <1>1, <1>2, <1>4, SetWordFacts
  <2>3. EntryOK(m2, use, t, i)
    BY <1>1, <1>2, <1>4, <1>5, <1>9, <2>1, <2>2 DEF EntryOK
  <2>4. /\ Heap(m2, use, n)
        /\ \A j \in Slots \ {i} : m2.ram[t][j] = m.ram[t][j]
        /\ \A q \in RamPages \ {t} : m2.ram[q] = m.ram[q]
    BY <1>1, <1>2, <1>4, <1>5, <1>9, <2>3, HeapEntry
  <2> HIDE DEF m2
  <2>5. MapPageDone(m, use, n, m2, use, n, g, va, pa, flags)
    BY <1>6, <1>9, <2>2, <2>4
  <2> QED
    BY <2>5 DEF m2, w, t, i, all
<1> QED
  BY <1>7, <1>8, <1>9

\* More pages may be said to have changed than did.
LEMMA ExtWeaken ==
    ASSUME NEW m, NEW use, NEW m2, NEW use2, NEW X, NEW Y, NEW X2, NEW Y2,
           Ext(m, use, m2, use2, X, Y),
           \A p \in X : p \in X2 \/ (p \in ManagedPages /\ use[p].lv = FREE),
           \A p \in Y : p \in Y2
    PROVE  Ext(m, use, m2, use2, X2, Y2)
BY DEF Ext

\* Leaves that stay twice have stayed.
LEMMA SameLeavesTrans ==
    ASSUME NEW m, NEW use, NEW m2, NEW use2, NEW m3, NEW X,
           Ext(m, use, m2, use2, X, {}), SameLeaves(m, use, m2), SameLeaves(m2, use2, m3)
    PROVE  SameLeaves(m, use, m3)
BY DEF Ext, SameLeaves, FREE

\* map_page maps its page, keeps the heap and changes no other leaf.
LEMMA MapPageHeap ==
    ASSUME NEW m, NEW use, NEW n, Heap(m, use, n), ~m.stuck,
           NEW g \in ManagedPages, use[g].lv = 3, NEW va, NEW pa, NEW flags,
           MayMap(m, use, g, va, pa, flags)
    PROVE  \E use2, n2 :
              MapPageDone(m, use, n, MapPage(m, g, va, pa, flags), use2, n2, g, va, pa, flags)
<1> DEFINE i2   == Vpn(va, 2)
           i1   == Vpn(va, 1)
           Y    == IF g = root_page_table THEN {} ELSE {pa}
           walk == Descend(Descend([m |-> m, table |-> g], i2), i1)
           m2   == MapPage(m, g, va, pa, flags)
<1>1. /\ va \in VirtualPages /\ i1 \in Slots /\ i2 \in Slots
      /\ g # root_page_table /\ pa \in ManagedPages => use[pa].lv = LIMBO
  BY VpnFacts, PageFacts DEF MayMap
<1>2. m2 = SetWord(walk.m, walk.table, Vpn(va, 0), PaToPte(pa, flags \cup {"A", "D"}))
  BY DEF MapPage
<1>3. use[g].lv > 1 /\ use[g].tree = g /\ g \in TablesOf(use, g)
  BY DEF Heap, TopsOK, TablesOf
<1>4. ASSUME NEW m1, NEW use1, NEW n1, m1.stuck, Heap(m1, use1, n1),
             Ext(m, use, m1, use1, TablesOf(use, g), {}), SameLeaves(m, use, m1),
             Placed(use, use1, g, {va}), n < Missing(m, g, va)
      PROVE  MapPageDone(m, use, n, m1, use1, n1, g, va, pa, flags)
  <2>1. Ext(m, use, m1, use1, TablesOf(use, g), Y)
    BY <1>4, ExtWeaken
  <2>2. g # root_page_table /\ pa \in ManagedPages => use1[pa].lv = LIMBO
    BY <1>1, <1>4 DEF Ext, LIMBO, FREE
  <2>3. OtherLeaves(m, use, m1, g, va)
    BY <1>4 DEF OtherLeaves, SameLeaves
  <2>4. Takes(m1, n, n1, Missing(m, g, va))
    BY <1>4 DEF Takes
  <2> QED
    BY <1>4, <2>1, <2>2, <2>3, <2>4 DEF MapPageDone
<1>5. PICK ma, qa, ua, na : DescendDone(m, use, n, g, i2, ma, qa, ua, na)
  BY <1>1, <1>3, DescendHeap
<1> USE DEF DescendDone
<1>6. /\ use[g].pos = 0 /\ n \in Nat
      /\ Spell(0, i2) = Prefix(va, 2) /\ Spell(Prefix(va, 2), i1) = Prefix(va, 1)
  BY <1>1, <1>3, VpnSpells DEF Heap, TopsOK, FreeListOK
<1>7. Placed(use, ua, g, {va})
  <2>1. \A r \in ManagedPages : ua[r] = use[r] \/ ua[r] = Below(use, g, i2)
    BY <1>5 DEF OneTable
  <2>2. /\ Below(use, g, i2).lv = 2 /\ Below(use, g, i2).tree = g
        /\ Below(use, g, i2).pos = Prefix(va, 2)
    BY <1>3, <1>6 DEF Below
  <2>3. Prefix(va, 2) \in Prefixes({va}, 2)
    BY DEF Prefixes
  <2> QED
    BY <2>1, <2>2, <2>3 DEF Placed
<1>8. IF HasMid(m, g, va) THEN ma = m /\ na = n
      ELSE Takes(ma, n, na, 1) /\ (~ma.stuck => ma.ram[qa] = ZeroPage)
  BY <1>5 DEF OneTable, HasMid
<1>9. Ext(m, use, ma, ua, TablesOf(use, g), {})
  BY <1>3, <1>5, ExtWeaken
<1>10. CASE ma.stuck
  <2>1. walk = [m |-> ma, table |-> qa]
    BY <1>5, <1>10 DEF Descend
  <2> HIDE DEF walk
  <2>2. m2 = ma
    BY <1>2, <1>10, <2>1 DEF SetWord
  <2>3. n < Missing(m, g, va)
    BY <1>10, <1>6, <1>8 DEF Takes, Missing, HasLow
  <2> QED
    BY <1>4, <1>5, <1>9, <1>10, <1>7, <2>2, <2>3
<1>11. CASE ~ma.stuck
  <2>1. /\ Valid(ma.ram[g][i2]) /\ Target(ma, g, i2) = qa /\ qa \in ManagedPages
        /\ ua[qa].lv = 2 /\ ua[qa].tree = g /\ ua[g] = use[g]
    BY <1>3, <1>5, <1>11 DEF Below, Ext, FREE
  <2>2. PICK mb, qb, ub, nb : DescendDone(ma, ua, na, qa, i1, mb, qb, ub, nb)
    <3>1. Heap(ma, ua, na) /\ ua[qa].lv > 1
      BY <1>5, <2>1
    <3> HIDE DEF DescendDone
    <3> QED
      BY <1>1, <1>11, <2>1, <3>1, DescendHeap
  <2>3. walk = [m |-> mb, table |-> qb]
    BY <1>5, <2>2
  <2> HIDE DEF walk
  <2>4. qa \in TablesOf(use, g) \/ (qa \in ManagedPages /\ use[qa].lv = FREE)
    BY <2>1, <1>5 DEF TablesOf, Ext
  <2>5. Ext(m, use, mb, ub, TablesOf(use, g), {})
    BY <1>9, <2>2, <2>4, ExtTrans
  <2>6. SameLeaves(m, use, mb)
    BY <1>5, <2>2, SameLeavesTrans
  <2>7. Placed(use, ub, g, {va})
    <3>1. \A r \in ManagedPages : ub[r] = ua[r] \/ ub[r] = Below(ua, qa, i1)
      BY <2>2 DEF OneTable
    <3>2. ua[qa].pos = Prefix(va, 2)
      BY <1>5, <1>11, <1>6 DEF Below
    <3>3. /\ Below(ua, qa, i1).lv = 1 /\ Below(ua, qa, i1).tree = g
          /\ Below(ua, qa, i1).pos = Prefix(va, 1)
      BY <1>6, <2>1, <3>2 DEF Below
    <3>4. Prefix(va, 1) \in Prefixes({va}, 1)
      BY DEF Prefixes
    <3>5. Placed(ua, ub, g, {va})
      BY <3>1, <3>3, <3>4 DEF Placed
    <3> QED
      BY <1>7, <3>5, PlacedTrans
  <2>8. Takes(mb, n, nb, Missing(m, g, va)) /\ (mb.stuck => n < Missing(m, g, va))
    <3>1. IF Valid(ma.ram[qa][i1]) THEN mb = ma /\ nb = na ELSE Takes(mb, na, nb, 1)
      BY <2>2 DEF OneTable
    <3>2. CASE HasMid(m, g, va)
      <4>1. ma = m /\ na = n /\ (Valid(m.ram[qa][i1]) <=> HasLow(m, g, va))
        BY <1>8, <2>1, <3>2 DEF HasLow, Mid
      <4> QED
        BY <1>11, <1>6, <3>1, <3>2, <4>1 DEF Takes, Missing
    <3>3. CASE ~HasMid(m, g, va)
      <4>1. na = n - 1 /\ ~Valid(ma.ram[qa][i1])
        BY <1>1, <1>11, <1>8, <3>3, ZeroPageFacts DEF Takes
      <4>2. Missing(m, g, va) = 2
        BY <3>3 DEF Missing, HasLow
      <4> QED
        BY <1>6, <3>1, <4>1, <4>2 DEF Takes
    <3> QED
      BY <3>2, <3>3
  <2>9. CASE mb.stuck
    <3>1. m2 = mb
      BY <1>2, <2>3, <2>9 DEF SetWord
    <3> QED
      BY <1>4, <2>2, <2>5, <2>6, <2>9, <2>7, <2>8, <3>1
  <2>10. CASE ~mb.stuck
    <3>1. ub[g] = use[g]
      BY <1>3, <2>5 DEF Ext, FREE
    <3>2. HasLow(mb, g, va) /\ Low(mb, g, va) = qb
      <4>1. mb.ram[g] = ma.ram[g]
        BY <1>3, <2>1, <2>2, PageFacts DEF Ext, FREE
      <4>2. HasMid(mb, g, va) /\ Mid(mb, g, va) = qa
        BY <2>1, <4>1 DEF HasMid, Mid, Target
      <4> QED
        BY <2>2, <2>10, <4>2 DEF HasLow, Low
    <3>3. MayMap(mb, ub, g, va, pa, flags)
      <4>1. LeafPte(mb, g, va) = LeafPte(m, g, va)
        BY <1>1, <2>6 DEF SameLeaves
      <4>2. pa \in ManagedPages /\ use[pa].lv = LIMBO => ub[pa] = use[pa]
        BY <2>5 DEF Ext, LIMBO, FREE
      <4> QED
        BY <4>1, <4>2 DEF MayMap
    <3>4. PICK use2, n2 : MapPageDone(mb, ub, nb, m2, use2, n2, g, va, pa, flags)
      BY <1>2, <2>2, <2>3, <2>10, <3>1, <3>2, <3>3, MapLeaf
    <3>5. \A p \in TablesOf(ub, g) :
              p \in TablesOf(use, g) \/ (p \in ManagedPages /\ use[p].lv = FREE)
      BY <2>5 DEF TablesOf, Ext
    <3>6. Ext(m, use, m2, use2, TablesOf(use, g), Y)
      <4>1. Ext(m, use, mb, ub, TablesOf(use, g), Y)
        BY <2>5, ExtWeaken
      <4>2. Ext(mb, ub, m2, use2, TablesOf(ub, g), Y)
        BY <3>4 DEF MapPageDone
      <4> QED
        BY <3>5, <4>1, <4>2, ExtTrans
    <3>7. OtherLeaves(m, use, m2, g, va)
      <4> SUFFICES ASSUME NEW g2 \in ManagedPages, NEW v \in VirtualPages,
                          use[g2].lv = 3, ~(g2 = g /\ v = va)
                   PROVE  LeafPte(m2, g2, v) = LeafPte(m, g2, v)
        BY DEF OtherLeaves
      <4>1. ub[g2].lv = 3
        BY <2>5 DEF Ext, FREE
      <4>2. LeafPte(m2, g2, v) = LeafPte(mb, g2, v)
        BY <3>4, <4>1 DEF MapPageDone, OtherLeaves
      <4> QED
        BY <2>6, <4>2 DEF SameLeaves
    <3>8. Placed(use, use2, g, {va})
      BY <2>7, <3>4, PlacedTrans DEF MapPageDone
    <3>9. Takes(m2, n, n2, Missing(m, g, va))
      <4>1. Missing(mb, g, va) = 0
        BY <3>2 DEF Missing
      <4>2. Takes(m2, nb, n2, 0)
        BY <3>4, <4>1 DEF MapPageDone
      <4>3. nb \in Nat
        BY <2>2 DEF Heap, FreeListOK
      <4>4. ~m2.stuck /\ n2 = nb
        BY <4>2, <4>3 DEF Takes
      <4> QED
        BY <2>10, <2>8, <4>4 DEF Takes
    <3> QED
      BY <3>4, <3>6, <3>7, <3>8, <3>9 DEF MapPageDone
  <2> QED
    BY <2>9, <2>10
<1> QED
  BY <1>10, <1>11

(***************************************************************************)
(* How many tables the virtual pages A need, and the free pages that it    *)
(* takes to map more of them: those that lie where A has no table yet.     *)
(***************************************************************************)
LEMMA PrefixesFinite ==
    ASSUME NEW A \in SUBSET VirtualPages, NEW lv
    PROVE  IsFiniteSet(A) /\ IsFiniteSet(Prefixes(A, lv))
<1>1. IsFiniteSet(VirtualPages)
  BY PageTablesAssumption, FS_Interval DEF VirtualPages
<1>2. IsFiniteSet(A)
  BY <1>1, FS_Subset
<1> DEFINE f == [v \in A |-> Prefix(v, lv)]
<1>3. f \in Surjection(A, Prefixes(A, lv))
  BY DEF Surjection, Prefixes
<1> HIDE DEF f
<1> QED
  BY <1>2, <1>3, FS_Surjection

\* The tables of both levels below the top.
LEMMA TablesForIs ==
    ASSUME NEW A \in SUBSET VirtualPages
    PROVE  /\ Cardinality(Prefixes(A, 1)) \in Nat /\ Cardinality(Prefixes(A, 2)) \in Nat
           /\ TablesFor(A) = Cardinality(Prefixes(A, 2)) + Cardinality(Prefixes(A, 1))
           /\ TablesFor(A) \in Nat
<1>1. Cardinality(Prefixes(A, 1)) \in Nat /\ Cardinality(Prefixes(A, 2)) \in Nat
  BY PrefixesFinite, FS_CardinalityType
<1>2. TablesFor(A) = Cardinality(Prefixes(A, 2)) + Cardinality(Prefixes(A, 1))
  BY DEF TablesFor, Prefixes, Prefix
<1> QED
  BY <1>1, <1>2

\* More pages need more tables.
LEMMA TablesForMore ==
    ASSUME NEW A \in SUBSET VirtualPages, NEW B \in SUBSET VirtualPages, A \subseteq B
    PROVE  TablesFor(A) <= TablesFor(B)
<1>1. ASSUME NEW lv PROVE Cardinality(Prefixes(A, lv)) <= Cardinality(Prefixes(B, lv))
  <2>1. Prefixes(A, lv) \in SUBSET Prefixes(B, lv)
    BY DEF Prefixes
  <2> QED
    BY <2>1, PrefixesFinite, FS_Subset
<1>2. /\ Cardinality(Prefixes(A, 1)) <= Cardinality(Prefixes(B, 1))
      /\ Cardinality(Prefixes(A, 2)) <= Cardinality(Prefixes(B, 2))
  BY <1>1
<1> QED
  BY <1>2, TablesForIs

\* One page more needs a table more at each level where it is the first.
LEMMA TablesForOne ==
    ASSUME NEW A \in SUBSET VirtualPages, NEW va \in VirtualPages
    PROVE  TablesFor(A \cup {va}) =
              TablesFor(A) + (IF Prefix(va, 2) \in Prefixes(A, 2) THEN 0 ELSE 1)
                           + (IF Prefix(va, 1) \in Prefixes(A, 1) THEN 0 ELSE 1)
<1> DEFINE B == A \cup {va}
<1>1. B \in SUBSET VirtualPages
  OBVIOUS
<1>2. ASSUME NEW lv
      PROVE  Cardinality(Prefixes(B, lv)) = IF Prefix(va, lv) \in Prefixes(A, lv)
                                            THEN Cardinality(Prefixes(A, lv))
                                            ELSE Cardinality(Prefixes(A, lv)) + 1
  <2>1. Prefixes(B, lv) = Prefixes(A, lv) \cup {Prefix(va, lv)}
    BY DEF Prefixes
  <2> QED
    BY <2>1, PrefixesFinite, FS_AddElement
<1> HIDE DEF B
<1>3. /\ Cardinality(Prefixes(B, 1)) = IF Prefix(va, 1) \in Prefixes(A, 1)
                                       THEN Cardinality(Prefixes(A, 1))
                                       ELSE Cardinality(Prefixes(A, 1)) + 1
      /\ Cardinality(Prefixes(B, 2)) = IF Prefix(va, 2) \in Prefixes(A, 2)
                                       THEN Cardinality(Prefixes(A, 2))
                                       ELSE Cardinality(Prefixes(A, 2)) + 1
  BY <1>2
<1>4. TablesFor(B) = Cardinality(Prefixes(B, 2)) + Cardinality(Prefixes(B, 1))
  BY <1>1, TablesForIs
<1> QED
  BY <1>3, <1>4, TablesForIs DEF B

\* Slots can be read back from what they spell.
LEMMA SpellUnique ==
    ASSUME NEW a \in Nat, NEW b \in Nat, NEW i \in Slots, NEW j \in Slots,
           Spell(a, i) = Spell(b, j)
    PROVE  a = b /\ i = j
<1>1. ENTRIES \in Nat /\ a * ENTRIES + i = b * ENTRIES + j
  BY PageTablesAssumption DEF Spell
<1> QED
  BY <1>1, QuotientUnique DEF Slots

\* Virtual pages that belong at the same place share the slots above it.
LEMMA PrefixSlots ==
    ASSUME NEW v \in VirtualPages, NEW w \in VirtualPages
    PROVE  /\ Prefix(v, 2) = Prefix(w, 2) => Vpn(v, 2) = Vpn(w, 2)
           /\ Prefix(v, 1) = Prefix(w, 1) => Vpn(v, 2) = Vpn(w, 2) /\ Vpn(v, 1) = Vpn(w, 1)
<1>1. /\ Vpn(v, 1) \in Slots /\ Vpn(v, 2) \in Slots
      /\ Vpn(w, 1) \in Slots /\ Vpn(w, 2) \in Slots
  BY VpnFacts
<1>2. /\ Prefix(v, 2) = Spell(0, Vpn(v, 2)) /\ Prefix(w, 2) = Spell(0, Vpn(w, 2))
      /\ Prefix(v, 1) = Spell(Prefix(v, 2), Vpn(v, 1))
      /\ Prefix(w, 1) = Spell(Prefix(w, 2), Vpn(w, 1))
  BY VpnSpells
<1>3. Prefix(v, 2) = Prefix(w, 2) => Vpn(v, 2) = Vpn(w, 2)
  BY <1>1, <1>2, SpellUnique
<1>4. Prefix(v, 2) \in Nat /\ Prefix(w, 2) \in Nat
  <2>1. \A i \in Slots : Spell(0, i) \in Nat
    BY PageTablesAssumption DEF Spell, Slots
  <2> QED
    BY <1>1, <1>2, <2>1
<1>5. Prefix(v, 1) = Prefix(w, 1) => Prefix(v, 2) = Prefix(w, 2) /\ Vpn(v, 1) = Vpn(w, 1)
  BY <1>1, <1>2, <1>4, SpellUnique
<1> QED
  BY <1>3, <1>5

\* Whatever is mapped already, mapping B takes the tables that B adds to it.
Uses(m, n, m2, n2, g, B) ==
    \A A \in SUBSET VirtualPages :
        (\A v \in A : Valid(LeafPte(m, g, v))) =>
            IF m2.stuck THEN n + TablesFor(A) < TablesFor(A \cup B)
            ELSE n + TablesFor(A) <= n2 + TablesFor(A \cup B)

\* map_page takes a page for each table that it finds missing.
LEMMA MapPageUses ==
    ASSUME NEW m, NEW use, NEW n, Heap(m, use, n), NEW g, NEW m2, NEW use2, NEW n2,
           NEW va \in VirtualPages, NEW pa, NEW flags,
           MapPageDone(m, use, n, m2, use2, n2, g, va, pa, flags)
    PROVE  Uses(m, n, m2, n2, g, {va})
<1>1. SUFFICES ASSUME NEW A \in SUBSET VirtualPages, \A v \in A : Valid(LeafPte(m, g, v))
               PROVE  IF m2.stuck THEN n + TablesFor(A) < TablesFor(A \cup {va})
                      ELSE n + TablesFor(A) <= n2 + TablesFor(A \cup {va})
  BY DEF Uses
<1>2. \A v \in A : HasLow(m, g, v)
  BY <1>1, LeafPteIs DEF Valid, Plain, Flags
<1>3. Prefix(va, 1) \in Prefixes(A, 1) => HasLow(m, g, va)
  BY <1>2, PrefixSlots DEF Prefixes, HasLow, HasMid, Mid
<1>4. Prefix(va, 2) \in Prefixes(A, 2) => HasMid(m, g, va)
  BY <1>2, PrefixSlots DEF Prefixes, HasLow, HasMid
<1>5. HasLow(m, g, va) => HasMid(m, g, va)
  BY DEF HasLow
<1>6. n \in Nat /\ n2 \in Nat /\ Takes(m2, n, n2, Missing(m, g, va))
  BY DEF MapPageDone, Heap, FreeListOK
<1>7. TablesFor(A) \in Nat
  BY TablesForIs
<1>8. TablesFor(A) + Missing(m, g, va) <= TablesFor(A \cup {va}) /\ Missing(m, g, va) \in 0 .. 2
  BY <1>3, <1>4, <1>5, <1>7, TablesForOne DEF Missing
<1>9. TablesFor(A \cup {va}) \in Nat
  BY TablesForIs
<1> QED
  BY <1>6, <1>7, <1>8, <1>9 DEF Takes

\* Mapping in two rounds.
LEMMA UsesTrans ==
    ASSUME NEW m, NEW n \in Nat, NEW m1, NEW n1 \in Nat, NEW m2, NEW n2 \in Nat, NEW g,
           NEW B1 \in SUBSET VirtualPages, NEW B2 \in SUBSET VirtualPages,
           Uses(m, n, m1, n1, g, B1), ~m1.stuck, Uses(m1, n1, m2, n2, g, B2),
           \A v \in VirtualPages : Valid(LeafPte(m, g, v)) \/ v \in B1 => Valid(LeafPte(m1, g, v))
    PROVE  Uses(m, n, m2, n2, g, B1 \cup B2)
<1>1. SUFFICES ASSUME NEW A \in SUBSET VirtualPages, \A v \in A : Valid(LeafPte(m, g, v))
               PROVE  LET C == A \cup (B1 \cup B2) IN
                      IF m2.stuck THEN n + TablesFor(A) < TablesFor(C)
                      ELSE n + TablesFor(A) <= n2 + TablesFor(C)
  BY DEF Uses
<1> DEFINE A1 == A \cup B1
           C  == A \cup (B1 \cup B2)
<1>2. A1 \in SUBSET VirtualPages /\ A1 \cup B2 = C /\ C \in SUBSET VirtualPages
  OBVIOUS
<1>3. n + TablesFor(A) <= n1 + TablesFor(A1)
  BY <1>1 DEF Uses
<1>4. \A v \in A1 : Valid(LeafPte(m1, g, v))
  BY <1>1
<1> HIDE DEF A1, C
<1>5. IF m2.stuck THEN n1 + TablesFor(A1) < TablesFor(C)
      ELSE n1 + TablesFor(A1) <= n2 + TablesFor(C)
  BY <1>2, <1>4 DEF Uses
<1>6. TablesFor(A) \in Nat /\ TablesFor(A1) \in Nat /\ TablesFor(C) \in Nat
  BY <1>2, TablesForIs
<1> QED
  BY <1>3, <1>5, <1>6 DEF C

\* A machine that is stuck would have needed yet more pages for more.
LEMMA UsesStuck ==
    ASSUME NEW m, NEW n \in Nat, NEW m2, NEW n2, NEW g, m2.stuck,
           NEW B1 \in SUBSET VirtualPages, NEW B2 \in SUBSET VirtualPages, B1 \subseteq B2,
           Uses(m, n, m2, n2, g, B1)
    PROVE  Uses(m, n, m2, n2, g, B2)
<1>1. SUFFICES ASSUME NEW A \in SUBSET VirtualPages, \A v \in A : Valid(LeafPte(m, g, v))
               PROVE  n + TablesFor(A) < TablesFor(A \cup B2)
  BY DEF Uses
<1>2. n + TablesFor(A) < TablesFor(A \cup B1)
  BY <1>1 DEF Uses
<1>3. TablesFor(A \cup B1) <= TablesFor(A \cup B2)
  BY TablesForMore
<1>4. /\ TablesFor(A) \in Nat /\ TablesFor(A \cup B1) \in Nat /\ TablesFor(A \cup B2) \in Nat
  BY TablesForIs
<1> QED
  BY <1>2, <1>3, <1>4

(***************************************************************************)
(* What mapping the virtual pages B adds to tree g, and what it takes.     *)
(***************************************************************************)
Adds(m, use, n, m2, use2, n2, g, B) ==
    Placed(use, use2, g, B) /\ Uses(m, n, m2, n2, g, B)

\* Mapping nothing takes nothing.
LEMMA AddsSame ==
    ASSUME NEW m, ~m.stuck, NEW use, NEW n \in Nat, NEW g
    PROVE  Adds(m, use, n, m, use, n, g, {})
<1>1. ASSUME NEW A \in SUBSET VirtualPages
      PROVE  n + TablesFor(A) <= n + TablesFor(A \cup {})
  <2>1. A \cup {} = A /\ TablesFor(A) \in Nat
    BY TablesForIs
  <2> QED
    BY <2>1
<1>2. Uses(m, n, m, n, g, {})
  BY <1>1 DEF Uses
<1> QED
  BY <1>2, PlacedSame DEF Adds

\* Mapping more virtual pages after others.
LEMMA AddsTrans ==
    ASSUME NEW m, NEW use, NEW n \in Nat, NEW m1, NEW use1, NEW n1 \in Nat,
           NEW m2, NEW use2, NEW n2 \in Nat, NEW g,
           NEW B1 \in SUBSET VirtualPages, NEW B2 \in SUBSET VirtualPages,
           Adds(m, use, n, m1, use1, n1, g, B1), ~m1.stuck,
           Adds(m1, use1, n1, m2, use2, n2, g, B2),
           \A v \in VirtualPages : Valid(LeafPte(m, g, v)) \/ v \in B1 => Valid(LeafPte(m1, g, v))
    PROVE  Adds(m, use, n, m2, use2, n2, g, B1 \cup B2)
<1>1. Uses(m, n, m2, n2, g, B1 \cup B2)
  BY UsesTrans DEF Adds
<1>2. Placed(use, use1, g, B1 \cup B2) /\ Placed(use1, use2, g, B1 \cup B2)
  BY PlacedMore DEF Adds
<1> QED
  BY <1>1, <1>2, PlacedTrans DEF Adds

\* A machine that is stuck lacked pages for these, and so for more.
LEMMA AddsStuck ==
    ASSUME NEW m, NEW use, NEW n \in Nat, NEW m2, NEW use2, NEW n2, NEW g, m2.stuck,
           NEW B1 \in SUBSET VirtualPages, NEW B2 \in SUBSET VirtualPages, B1 \subseteq B2,
           Adds(m, use, n, m2, use2, n2, g, B1)
    PROVE  Adds(m, use, n, m2, use2, n2, g, B2)
BY PlacedMore, UsesStuck DEF Adds

(***************************************************************************)
(* Induction up to a bound: a set with 0 and with the successors of its    *)
(* members holds every number up to n.                                     *)
(***************************************************************************)
LEMMA Induct ==
    ASSUME NEW n \in Nat, NEW S, 0 \in S,
           \A k \in 0 .. n - 1 : k \in S => k + 1 \in S
    PROVE  \A k \in 0 .. n : k \in S
<1> DEFINE Less == OpToRel(<, Nat)
           Left == {k \in 0 .. n : k \notin S}
<1>1. SUFFICES ASSUME Left # {} PROVE FALSE
  OBVIOUS
<1>2. Left \subseteq Nat
  OBVIOUS
<1>3. \A i, j \in Nat : i < j => <<i, j>> \in Less
  BY DEF OpToRel
<1>4. IsWellFoundedOn(Less, Nat)
  BY NatLessThanWellFounded
<1>5. PICK k \in Left : \A j \in Left : ~(<<j, k>> \in Less)
  <2> HIDE DEF Less, Left
  <2> QED
    BY <1>1, <1>2, <1>4, WFMin
<1> HIDE DEF Less
<1>6. k \in Nat /\ k # 0 /\ k \in 0 .. n /\ k \notin S
  OBVIOUS
<1>7. k - 1 \in S
  <2>1. k - 1 \in 0 .. n - 1 /\ k - 1 \in 0 .. n /\ k - 1 \in Nat /\ k - 1 < k
    BY <1>6
  <2> QED
    BY <1>3, <1>5, <1>6, <2>1
<1>8. (k - 1) + 1 \in S
  BY <1>6, <1>7
<1> QED
  BY <1>6, <1>8

(***************************************************************************)
(* The rounds of map_range: acc[k] is the memory after k of them.          *)
(***************************************************************************)
LEMMA MapRangeRun ==
    ASSUME NEW m, NEW pgd, NEW first, NEW last, NEW flags,
           last - first + 1 \in Nat
    PROVE  \E acc : /\ acc[0] = m
                    /\ \A k \in 0 .. (last - first + 1) - 1 :
                          acc[k + 1] = IF acc[k].stuck THEN acc[k]
                                       ELSE MapPage(acc[k], pgd, first + k, first + k, flags)
                    /\ MapRange(m, pgd, first, last, flags) = acc[(last - first + 1)]
<1> DEFINE N == (last - first + 1)
           Round(x, k) == IF x.stuck THEN x
                          ELSE MapPage(x, pgd, first + k, first + k, flags)
           IsRun(g, j) == g = [k \in 0 .. j |-> IF k = 0 THEN m ELSE Round(g[k - 1], k - 1)]
           Reached == {j \in 0 .. N : \E g : IsRun(g, j)}
<1>0. N \in Nat
  BY PageTablesAssumption
<1> HIDE DEF N, Round
<1>1. 0 \in Reached
  <2> DEFINE g == [k \in 0 .. 0 |-> m]
  <2>1. IsRun(g, 0)
    OBVIOUS
  <2> HIDE DEF g, IsRun
  <2> QED
    BY <1>0, <2>1
<1>2. ASSUME NEW j \in 0 .. N - 1, j \in Reached
      PROVE  j + 1 \in Reached
  <2> HIDE DEF IsRun
  <2>1. PICK g : IsRun(g, j)
    BY <1>2
  <2> DEFINE h == [k \in 0 .. j + 1 |-> IF k <= j THEN g[k] ELSE Round(g[j], j)]
  <2>2. IsRun(h, j + 1)
    BY <1>0, <2>1 DEF IsRun
  <2> HIDE DEF h
  <2> QED
    BY <1>0, <2>2
<1>3. \E g : IsRun(g, N)
  <2>1. \A j \in 0 .. N : j \in Reached
    <3> HIDE DEF Reached
    <3> QED
      BY <1>0, <1>1, <1>2, Induct
  <2> HIDE DEF IsRun
  <2> QED
    BY <1>0, <2>1
<1> DEFINE acc == CHOOSE g : IsRun(g, N)
<1>4. IsRun(acc, N)
  <2> HIDE DEF IsRun
  <2> QED
    BY <1>3
<1>5. MapRange(m, pgd, first, last, flags) = acc[N]
  BY DEF Loop, Round, N, MapRange
<1> HIDE DEF acc
<1>6. acc[0] = m /\ \A k \in 0 .. N - 1 : acc[k + 1] = Round(acc[k], k)
  BY <1>0, <1>4
<1> HIDE DEF IsRun, Reached
<1> QED
  BY <1>5, <1>6 DEF Round, N

(***************************************************************************)
(* map_range maps its pages, as map_page does each of them.                *)
(***************************************************************************)
RangeDone(m, use, n, m2, use2, n2, g, first, k, flags) ==
    /\ Heap(m2, use2, n2)
    /\ Adds(m, use, n, m2, use2, n2, g, first .. first + k - 1)
    /\ Ext(m, use, m2, use2, TablesOf(use, g), {})
    /\ \A g2 \in ManagedPages, v \in VirtualPages :
          use[g2].lv = 3 /\ ~(g2 = g /\ v \in first .. first + k - 1) =>
              LeafPte(m2, g2, v) = LeafPte(m, g2, v)
    /\ ~m2.stuck => \A v \in first .. first + k - 1 :
          LeafPte(m2, g, v) = PaToPte(v, flags \cup {"A", "D"})

MayMapRange(m, use, g, first, last, flags) ==
    /\ first \in Nat /\ last \in Nat /\ first <= last
    /\ \A v \in first .. last : /\ MayMap(m, use, g, v, v, flags)
                                /\ g = root_page_table \/ v \in ImageFrames

\* map_range maps its pages, keeps the heap and changes no other leaf.
LEMMA MapRangeHeap ==
    ASSUME NEW m, NEW use, NEW n, Heap(m, use, n), ~m.stuck,
           NEW g \in ManagedPages, use[g].lv = 3, NEW first, NEW last, NEW flags,
           MayMapRange(m, use, g, first, last, flags)
    PROVE  \E use2, n2 : RangeDone(m, use, n, MapRange(m, g, first, last, flags), use2, n2,
                                   g, first, last - first + 1, flags)
<1> DEFINE N == last - first + 1
<1>1. N \in Nat /\ first \in Nat /\ last \in Nat /\ last = first + N - 1
  BY DEF MayMapRange
<1> HIDE DEF N
<1>2. PICK acc : /\ acc[0] = m
                 /\ \A k \in 0 .. N - 1 :
                       acc[k + 1] = IF acc[k].stuck THEN acc[k]
                                    ELSE MapPage(acc[k], g, first + k, first + k, flags)
                 /\ MapRange(m, g, first, last, flags) = acc[N]
  BY <1>1, MapRangeRun DEF N
<1> DEFINE Done(k) == \E use2, n2 : RangeDone(m, use, n, acc[k], use2, n2, g, first, k, flags)
           S == {k \in 0 .. N : Done(k)}
<1>3. 0 \in S
  <2>1. first .. first + 0 - 1 = {} /\ n \in Nat
    BY <1>1 DEF Heap, FreeListOK
  <2>2. Adds(m, use, n, acc[0], use, n, g, first .. first + 0 - 1)
    BY <1>2, <2>1, AddsSame
  <2>3. RangeDone(m, use, n, acc[0], use, n, g, first, 0, flags)
    BY <1>1, <1>2, <2>2, ExtSame DEF RangeDone
  <2> QED
    BY <1>1, <2>3
<1>4. first .. last \in SUBSET VirtualPages /\ "V" \in flags /\ n \in Nat
  BY <1>1 DEF MayMapRange, MayMap, Heap, FreeListOK
<1>5. ASSUME NEW k \in 0 .. N - 1, k \in S
      PROVE  k + 1 \in S
  <2>1. PICK uk, nk : RangeDone(m, use, n, acc[k], uk, nk, g, first, k, flags)
    BY <1>5
  <2>2. /\ first .. first + k - 1 \subseteq first .. first + (k + 1) - 1
        /\ first .. first + (k + 1) - 1 \in SUBSET VirtualPages
        /\ first .. first + k - 1 \in SUBSET VirtualPages
    <3>1. first + (k + 1) - 1 <= last /\ first + k - 1 <= last
      BY <1>1
    <3> QED
      BY <1>1, <1>4, <3>1
  <2>3. Adds(m, use, n, acc[k], uk, nk, g, first .. first + k - 1) /\ nk \in Nat
    BY <2>1 DEF RangeDone, Heap, FreeListOK
  <2>4. CASE acc[k].stuck
    <3>1. acc[k + 1] = acc[k]
      BY <1>2, <2>4
    <3>2. \A v : v \in first .. first + k - 1 => v \in first .. first + (k + 1) - 1
      BY <1>1
    <3>3. Adds(m, use, n, acc[k], uk, nk, g, first .. first + (k + 1) - 1)
      BY <1>4, <2>4, <2>2, <2>3, AddsStuck
    <3>4. RangeDone(m, use, n, acc[k + 1], uk, nk, g, first, k + 1, flags)
      BY <2>1, <2>4, <3>1, <3>2, <3>3 DEF RangeDone
    <3> QED
      BY <1>1, <3>4
  <2>5. CASE ~acc[k].stuck
    <3> DEFINE v0 == first + k
    <3>1. /\ v0 \in first .. last /\ v0 \notin first .. first + k - 1
          /\ \A v \in Int : v \in first .. first + (k + 1) - 1 <=>
                               v \in first .. first + k - 1 \/ v = v0
          /\ \A v \in VirtualPages : v \in Int
      BY <1>1 DEF VirtualPages
    <3>2. acc[k + 1] = MapPage(acc[k], g, v0, v0, flags)
      BY <1>2, <2>5
    <3> HIDE DEF v0
    <3>3. /\ MayMap(m, use, g, v0, v0, flags) /\ v0 \in VirtualPages
          /\ g = root_page_table \/ v0 \in ImageFrames
      BY <3>1 DEF MayMapRange, MayMap
    <3>4. LeafPte(acc[k], g, v0) = LeafPte(m, g, v0)
      BY <2>1, <3>1, <3>3 DEF RangeDone
    <3>5. uk[g] = use[g] /\ Heap(acc[k], uk, nk)
      BY <2>1 DEF RangeDone, Ext, FREE
    <3>6. MayMap(acc[k], uk, g, v0, v0, flags)
      BY <3>3, <3>4, PageFacts DEF MayMap
    <3>7. PICK u2, n2 : MapPageDone(acc[k], uk, nk, acc[k + 1], u2, n2, g, v0, v0, flags)
      BY <2>5, <3>2, <3>5, <3>6, MapPageHeap
    <3>8. Ext(m, use, acc[k + 1], u2, TablesOf(use, g), {})
      <4>1. Ext(m, use, acc[k], uk, TablesOf(use, g), {})
        BY <2>1 DEF RangeDone
      <4>2. \A p \in TablesOf(uk, g) :
              p \in TablesOf(use, g) \/ (p \in ManagedPages /\ use[p].lv = FREE)
        BY <4>1 DEF TablesOf, Ext
      <4> DEFINE Y == IF g = root_page_table THEN {} ELSE {v0}
      <4>3. Ext(acc[k], uk, acc[k + 1], u2, TablesOf(uk, g), Y)
        BY <3>7 DEF MapPageDone
      <4>4. \A p \in Y \cap ManagedPages : p \in {}
        BY <3>3, PageFacts
      <4> HIDE DEF Y
      <4> QED
        BY <4>1, <4>2, <4>3, <4>4, ExtTrans
    <3>9. ASSUME NEW g2 \in ManagedPages, NEW v \in VirtualPages,
                 use[g2].lv = 3, ~(g2 = g /\ v \in first .. first + (k + 1) - 1)
          PROVE  LeafPte(acc[k + 1], g2, v) = LeafPte(m, g2, v)
      <4>1. LeafPte(acc[k], g2, v) = LeafPte(m, g2, v)
        BY <2>1, <3>1, <3>9 DEF RangeDone
      <4>2. uk[g2].lv = 3
        BY <2>1, <3>9 DEF RangeDone, Ext, FREE
      <4> QED
        BY <3>1, <3>7, <3>9, <4>1, <4>2 DEF MapPageDone, OtherLeaves
    <3>10. ASSUME ~acc[k + 1].stuck, NEW v \in first .. first + (k + 1) - 1
           PROVE  LeafPte(acc[k + 1], g, v) = PaToPte(v, flags \cup {"A", "D"})
      <4>1. CASE v = v0
        <5>1. ~acc[k + 1].stuck
          BY <3>10
        <5>2. LeafPte(acc[k + 1], g, v0) = PaToPte(v0, flags \cup {"A", "D"})
          BY <3>7, <5>1 DEF MapPageDone
        <5> QED
          BY <4>1, <5>2
      <4>2. CASE v # v0
        <5>1. v \in first .. first + k - 1 /\ v \in first .. last
          BY <1>1, <3>1, <4>2
        <5>2. v \in VirtualPages
          BY <5>1 DEF MayMapRange, MayMap
        <5>3. LeafPte(acc[k + 1], g, v) = LeafPte(acc[k], g, v)
          BY <3>5, <3>7, <4>2, <5>2 DEF MapPageDone, OtherLeaves
        <5> QED
          BY <2>1, <2>5, <5>1, <5>3 DEF RangeDone
      <4> QED
        BY <4>1, <4>2
    <3>11. Adds(m, use, n, acc[k + 1], u2, n2, g, first .. first + (k + 1) - 1)
      <4>1. Adds(acc[k], uk, nk, acc[k + 1], u2, n2, g, {v0}) /\ n2 \in Nat
        BY <3>3, <3>5, <3>7, MapPageUses DEF Adds, MapPageDone, Heap, FreeListOK
      <4>2. first .. first + (k + 1) - 1 = first .. first + k - 1 \cup {v0}
        BY <1>1, <3>1
      <4>3. ASSUME NEW v \in VirtualPages, Valid(LeafPte(m, g, v)) \/ v \in first .. first + k - 1
            PROVE  Valid(LeafPte(acc[k], g, v))
        <5>1. CASE v \in first .. first + k - 1
          <6>1. LeafPte(acc[k], g, v) = PaToPte(v, flags \cup {"A", "D"})
            BY <2>1, <2>5, <5>1 DEF RangeDone
          <6> QED
            BY <1>4, <6>1 DEF PaToPte, Valid, Flags
        <5>2. CASE v \notin first .. first + k - 1
          <6>1. LeafPte(acc[k], g, v) = LeafPte(m, g, v)
            BY <2>1, <5>2 DEF RangeDone
          <6> QED
            BY <4>3, <5>2, <6>1
        <5> QED
          BY <5>1, <5>2
      <4> DEFINE B  == first .. first + k - 1
                 mk == acc[k]
                 m2 == acc[k + 1]
      <4>4. /\ B \in SUBSET VirtualPages /\ {v0} \in SUBSET VirtualPages /\ ~mk.stuck
            /\ n \in Nat /\ nk \in Nat /\ n2 \in Nat
            /\ Adds(m, use, n, mk, uk, nk, g, B) /\ Adds(mk, uk, nk, m2, u2, n2, g, {v0})
            /\ \A v \in VirtualPages : Valid(LeafPte(m, g, v)) \/ v \in B => Valid(LeafPte(mk, g, v))
        BY <1>4, <2>5, <2>2, <2>3, <3>3, <4>1, <4>3
      <4> HIDE DEF B, mk, m2
      <4>5. Adds(m, use, n, m2, u2, n2, g, B \cup {v0})
        BY <4>4, AddsTrans
      <4> QED
        BY <4>2, <4>5 DEF B, m2
    <3>12. RangeDone(m, use, n, acc[k + 1], u2, n2, g, first, k + 1, flags)
      BY <3>7, <3>8, <3>9, <3>10, <3>11 DEF RangeDone, MapPageDone
    <3> QED
      BY <1>1, <3>12
  <2> QED
    BY <2>4, <2>5
<1>6. N \in S
  <2> HIDE DEF S
  <2> QED
    BY <1>1, <1>3, <1>5, Induct
<1> QED
  BY <1>2, <1>6 DEF N

-----------------------------------------------------------------------------
(***************************************************************************)
(* Freeing.                                                                *)
(***************************************************************************)

(***************************************************************************)
(* The rounds of the loops of free_user_page_table, innermost loop first.  *)
(***************************************************************************)
LEMMA FreeLeafTableRun ==
    ASSUME NEW m, NEW t
    PROVE  \E acc : /\ acc[0] = m
                    /\ \A k \in 0 .. ENTRIES - 1 :
                          acc[k + 1] = IF acc[k].stuck THEN acc[k]
                                       ELSE FreeLeaf(acc[k], acc[k].ram[t][k])
                    /\ FreeLeafTable(m, t) = FreePage(acc[ENTRIES], t)
<1> DEFINE N == ENTRIES
           Round(x, k) == IF x.stuck THEN x
                          ELSE FreeLeaf(x, x.ram[t][k])
           IsRun(g, j) == g = [k \in 0 .. j |-> IF k = 0 THEN m ELSE Round(g[k - 1], k - 1)]
           Reached == {j \in 0 .. N : \E g : IsRun(g, j)}
<1>0. N \in Nat
  BY PageTablesAssumption
<1> HIDE DEF N, Round
<1>1. 0 \in Reached
  <2> DEFINE g == [k \in 0 .. 0 |-> m]
  <2>1. IsRun(g, 0)
    OBVIOUS
  <2> HIDE DEF g, IsRun
  <2> QED
    BY <1>0, <2>1
<1>2. ASSUME NEW j \in 0 .. N - 1, j \in Reached
      PROVE  j + 1 \in Reached
  <2> HIDE DEF IsRun
  <2>1. PICK g : IsRun(g, j)
    BY <1>2
  <2> DEFINE h == [k \in 0 .. j + 1 |-> IF k <= j THEN g[k] ELSE Round(g[j], j)]
  <2>2. IsRun(h, j + 1)
    BY <1>0, <2>1 DEF IsRun
  <2> HIDE DEF h
  <2> QED
    BY <1>0, <2>2
<1>3. \E g : IsRun(g, N)
  <2>1. \A j \in 0 .. N : j \in Reached
    <3> HIDE DEF Reached
    <3> QED
      BY <1>0, <1>1, <1>2, Induct
  <2> HIDE DEF IsRun
  <2> QED
    BY <1>0, <2>1
<1> DEFINE acc == CHOOSE g : IsRun(g, N)
<1>4. IsRun(acc, N)
  <2> HIDE DEF IsRun
  <2> QED
    BY <1>3
<1>5. FreeLeafTable(m, t) = FreePage(acc[N], t)
  BY DEF Loop, Round, N, FreeLeafTable
<1> HIDE DEF acc
<1>6. acc[0] = m /\ \A k \in 0 .. N - 1 : acc[k + 1] = Round(acc[k], k)
  BY <1>0, <1>4
<1> HIDE DEF IsRun, Reached
<1> QED
  BY <1>5, <1>6 DEF Round, N

(***************************************************************************)
(* The loop over a table of the middle level.                              *)
(***************************************************************************)
LEMMA FreePmdRun ==
    ASSUME NEW m, NEW t
    PROVE  \E acc : /\ acc[0] = m
                    /\ \A k \in 0 .. ENTRIES - 1 :
                          acc[k + 1] = IF acc[k].stuck THEN acc[k]
                                       ELSE IF Valid(acc[k].ram[t][k]) THEN FreeLeafTable(acc[k], PteToPa(acc[k].ram[t][k])) ELSE acc[k]
                    /\ FreePmd(m, t) = FreePage(acc[ENTRIES], t)
<1> DEFINE N == ENTRIES
           Round(x, k) == IF x.stuck THEN x
                          ELSE IF Valid(x.ram[t][k]) THEN FreeLeafTable(x, PteToPa(x.ram[t][k])) ELSE x
           IsRun(g, j) == g = [k \in 0 .. j |-> IF k = 0 THEN m ELSE Round(g[k - 1], k - 1)]
           Reached == {j \in 0 .. N : \E g : IsRun(g, j)}
<1>0. N \in Nat
  BY PageTablesAssumption
<1> HIDE DEF N, Round
<1>1. 0 \in Reached
  <2> DEFINE g == [k \in 0 .. 0 |-> m]
  <2>1. IsRun(g, 0)
    OBVIOUS
  <2> HIDE DEF g, IsRun
  <2> QED
    BY <1>0, <2>1
<1>2. ASSUME NEW j \in 0 .. N - 1, j \in Reached
      PROVE  j + 1 \in Reached
  <2> HIDE DEF IsRun
  <2>1. PICK g : IsRun(g, j)
    BY <1>2
  <2> DEFINE h == [k \in 0 .. j + 1 |-> IF k <= j THEN g[k] ELSE Round(g[j], j)]
  <2>2. IsRun(h, j + 1)
    BY <1>0, <2>1 DEF IsRun
  <2> HIDE DEF h
  <2> QED
    BY <1>0, <2>2
<1>3. \E g : IsRun(g, N)
  <2>1. \A j \in 0 .. N : j \in Reached
    <3> HIDE DEF Reached
    <3> QED
      BY <1>0, <1>1, <1>2, Induct
  <2> HIDE DEF IsRun
  <2> QED
    BY <1>0, <2>1
<1> DEFINE acc == CHOOSE g : IsRun(g, N)
<1>4. IsRun(acc, N)
  <2> HIDE DEF IsRun
  <2> QED
    BY <1>3
<1>5. FreePmd(m, t) = FreePage(acc[N], t)
  BY DEF Loop, Round, N, FreePmd
<1> HIDE DEF acc
<1>6. acc[0] = m /\ \A k \in 0 .. N - 1 : acc[k + 1] = Round(acc[k], k)
  BY <1>0, <1>4
<1> HIDE DEF IsRun, Reached
<1> QED
  BY <1>5, <1>6 DEF Round, N

(***************************************************************************)
(* The loop over a top-level table.                                        *)
(***************************************************************************)
LEMMA FreeUserRun ==
    ASSUME NEW m, NEW r, NEW t
    PROVE  \E acc : /\ acc[0] = m
                    /\ \A k \in 0 .. ENTRIES - 1 :
                          acc[k + 1] = IF acc[k].stuck THEN acc[k]
                                       ELSE IF acc[k].ram[t][k] # acc[k].ram[r][k] /\ Valid(acc[k].ram[t][k])
                          THEN FreePmd(acc[k], PteToPa(acc[k].ram[t][k])) ELSE acc[k]
                    /\ FreeUserPageTable(m, r, t) = FreePage(acc[ENTRIES], t)
<1> DEFINE N == ENTRIES
           Round(x, k) == IF x.stuck THEN x
                          ELSE IF x.ram[t][k] # x.ram[r][k] /\ Valid(x.ram[t][k])
                          THEN FreePmd(x, PteToPa(x.ram[t][k])) ELSE x
           IsRun(g, j) == g = [k \in 0 .. j |-> IF k = 0 THEN m ELSE Round(g[k - 1], k - 1)]
           Reached == {j \in 0 .. N : \E g : IsRun(g, j)}
<1>0. N \in Nat
  BY PageTablesAssumption
<1> HIDE DEF N, Round
<1>1. 0 \in Reached
  <2> DEFINE g == [k \in 0 .. 0 |-> m]
  <2>1. IsRun(g, 0)
    OBVIOUS
  <2> HIDE DEF g, IsRun
  <2> QED
    BY <1>0, <2>1
<1>2. ASSUME NEW j \in 0 .. N - 1, j \in Reached
      PROVE  j + 1 \in Reached
  <2> HIDE DEF IsRun
  <2>1. PICK g : IsRun(g, j)
    BY <1>2
  <2> DEFINE h == [k \in 0 .. j + 1 |-> IF k <= j THEN g[k] ELSE Round(g[j], j)]
  <2>2. IsRun(h, j + 1)
    BY <1>0, <2>1 DEF IsRun
  <2> HIDE DEF h
  <2> QED
    BY <1>0, <2>2
<1>3. \E g : IsRun(g, N)
  <2>1. \A j \in 0 .. N : j \in Reached
    <3> HIDE DEF Reached
    <3> QED
      BY <1>0, <1>1, <1>2, Induct
  <2> HIDE DEF IsRun
  <2> QED
    BY <1>0, <2>1
<1> DEFINE acc == CHOOSE g : IsRun(g, N)
<1>4. IsRun(acc, N)
  <2> HIDE DEF IsRun
  <2> QED
    BY <1>3
<1>5. FreeUserPageTable(m, r, t) = FreePage(acc[N], t)
  BY DEF Loop, Round, N, FreeUserPageTable
<1> HIDE DEF acc
<1>6. acc[0] = m /\ \A k \in 0 .. N - 1 : acc[k + 1] = Round(acc[k], k)
  BY <1>0, <1>4
<1> HIDE DEF IsRun, Reached
<1> QED
  BY <1>5, <1>6 DEF Round, N

(***************************************************************************)
(* The pages F of memory m have been pushed on the list, and nothing else  *)
(* has changed.                                                            *)
(***************************************************************************)
FreedTo(m, use, m2, F, use2, n2) ==
    /\ m2 \in Mem /\ ~m2.stuck
    /\ use2 \in [ManagedPages -> Use] /\ FreeListOK(m2, use2, n2)
    /\ \A p \in ManagedPages : IF p \in F THEN use2[p].lv = FREE ELSE use2[p] = use[p]
    /\ \A p \in RamPages : p \notin F => m2.ram[p] = m.ram[p]

Freed(m, use, m2, F) == \E use2, n2 : FreedTo(m, use, m2, F, use2, n2)

\* One more free_page.
LEMMA FreedMore ==
    ASSUME NEW m, NEW use, NEW m2, NEW F, Freed(m, use, m2, F),
           NEW h \in ManagedPages, h \notin F, use[h].lv # FREE
    PROVE  Freed(m, use, FreePage(m2, h), F \cup {h})
<1>1. PICK u, n : FreedTo(m, use, m2, F, u, n)
  BY DEF Freed
<1> DEFINE m3 == FreePage(m2, h)
<1>2. m2 \in Mem /\ ~m2.stuck /\ u \in [ManagedPages -> Use] /\ FreeListOK(m2, u, n)
  BY <1>1 DEF FreedTo
<1>3. u[h].lv # FREE
  BY <1>1 DEF FreedTo
<1>4. PICK u3 : PushDone(m2, u, n, h, m3, u3)
  BY <1>2, <1>3, ListPush
<1> HIDE DEF m3
<1>5. u3[h].lv = FREE
  BY <1>4 DEF PushDone, OnList
<1>6. FreedTo(m, use, m3, F \cup {h}, u3, n + 1)
  BY <1>1, <1>4, <1>5 DEF FreedTo, PushDone
<1> QED
  BY <1>6 DEF Freed, m3

(***************************************************************************)
(* The pages of a tree, by the table they hang from: the page of a node's  *)
(* table of the last level and that of the middle level.                   *)
(***************************************************************************)
LowOf(use, q) == IF use[q].lv = 0 THEN use[q].up ELSE q
MidOf(use, q) == IF use[q].lv < 2 THEN use[LowOf(use, q)].up ELSE q

LeafTo(use, t, k) == {q \in ManagedPages : use[q].lv = 0 /\ use[q].up = t /\ use[q].slot < k}

PmdTo(use, t, k) ==
    {q \in ManagedPages : /\ use[q].lv \in {0, 1} /\ MidOf(use, q) = t
                          /\ use[LowOf(use, q)].slot < k}

TopTo(use, t, k) ==
    {q \in ManagedPages : /\ use[q].lv \in 0 .. 2 /\ use[q].tree = t
                          /\ use[MidOf(use, q)].slot < k}

BelowLow(use, t) == {q \in ManagedPages : use[q].lv \in {0, 1} /\ LowOf(use, q) = t}
BelowMid(use, t) == {q \in ManagedPages : use[q].lv \in 0 .. 2 /\ MidOf(use, q) = t}
TreePages(use, t) == {q \in ManagedPages : use[q].lv >= 0 /\ use[q].tree = t}

\* A page of a tree hangs below a table of the same tree, up to the top.
LEMMA PathFacts ==
    ASSUME NEW m, NEW use, NEW n, Heap(m, use, n), NEW q \in ManagedPages, use[q].lv \in 0 .. 2
    PROVE  /\ use[q].slot \in Slots /\ use[q].up \in ManagedPages
           /\ use[q].lv < 2 => /\ LowOf(use, q) \in ManagedPages /\ use[LowOf(use, q)].lv = 1
                               /\ use[LowOf(use, q)].tree = use[q].tree
                               /\ use[LowOf(use, q)].slot \in Slots
           /\ MidOf(use, q) \in ManagedPages /\ use[MidOf(use, q)].lv = 2
           /\ use[MidOf(use, q)].tree = use[q].tree
           /\ use[MidOf(use, q)].slot \in Slots
           /\ use[MidOf(use, q)].up = use[q].tree
<1>1. \A r \in ManagedPages : use[r].lv \in 0 .. 2 => ParentOK(m, use, r)
  BY DEF Heap, ParentsOK
<1>2. use[q].lv < 2 => /\ LowOf(use, q) \in ManagedPages /\ use[LowOf(use, q)].lv = 1
                       /\ use[LowOf(use, q)].tree = use[q].tree
                       /\ use[LowOf(use, q)].slot \in Slots
  BY <1>1 DEF LowOf, ParentOK
<1>3. /\ MidOf(use, q) \in ManagedPages /\ use[MidOf(use, q)].lv = 2
      /\ use[MidOf(use, q)].tree = use[q].tree
  <2>1. CASE use[q].lv < 2
    BY <1>1, <1>2, <2>1 DEF MidOf, ParentOK
  <2>2. CASE ~(use[q].lv < 2)
    BY <2>2 DEF MidOf
  <2> QED
    BY <2>1, <2>2
<1>4. ParentOK(m, use, MidOf(use, q)) /\ ParentOK(m, use, q)
  BY <1>1, <1>3
<1>5. /\ use[MidOf(use, q)].slot \in Slots /\ use[use[MidOf(use, q)].up].lv = 3
      /\ use[use[MidOf(use, q)].up].tree = use[q].tree /\ use[MidOf(use, q)].up \in ManagedPages
  BY <1>3, <1>4 DEF ParentOK
<1>6. use[MidOf(use, q)].up = use[q].tree
  BY <1>5 DEF Heap, TopsOK
<1> QED
  BY <1>2, <1>3, <1>4, <1>5, <1>6 DEF ParentOK

(***************************************************************************)
(* A node is where its parent's entry says it is.                          *)
(***************************************************************************)
LEMMA EntryPage ==
    ASSUME NEW m, NEW use, NEW n, Heap(m, use, n),
           NEW t \in ManagedPages, use[t].lv > 0, NEW k \in Slots
    PROVE  /\ \A q \in ManagedPages : use[q].lv \in 0 .. 2 /\ use[q].up = t /\ use[q].slot = k =>
                 Valid(m.ram[t][k]) /\ Target(m, t, k) = q
           /\ Valid(m.ram[t][k]) /\ (use[t].lv > 1 \/ use[t].tree # root_page_table) =>
                 \/ /\ Target(m, t, k) \in ManagedPages
                    /\ use[Target(m, t, k)] = Below(use, t, k)
                 \/ use[t].lv = 1 /\ Target(m, t, k) \in ImageFrames
<1>1. EntriesOK(m, use) /\ ParentsOK(m, use) /\ use[t].lv \in 1 .. 3
  BY DEF Heap, Use
<1> QED
  BY <1>1 DEF EntriesOK, EntryOK, ParentsOK, ParentOK, Target, IsBelow

\* The innermost loop frees a last table and its data.
LEMMA FreeLeafTableFreed ==
    ASSUME NEW m, NEW use, NEW n, Heap(m, use, n),
           NEW t \in ManagedPages, use[t].lv = 1, use[t].tree # root_page_table,
           NEW m1, NEW F, Freed(m, use, m1, F), F \cap BelowLow(use, t) = {}
    PROVE  Freed(m, use, FreeLeafTable(m1, t), F \cup BelowLow(use, t))
<1>0. ENTRIES \in Nat /\ 0 .. ENTRIES - 1 = Slots
  BY PageTablesAssumption DEF Slots
<1>1. PICK acc : /\ acc[0] = m1
                 /\ \A k \in 0 .. ENTRIES - 1 :
                       acc[k + 1] = IF acc[k].stuck THEN acc[k]
                                    ELSE FreeLeaf(acc[k], acc[k].ram[t][k])
                 /\ FreeLeafTable(m1, t) = FreePage(acc[ENTRIES], t)
  BY FreeLeafTableRun
<1> DEFINE Fk(k) == F \cup LeafTo(use, t, k)
           S == {k \in 0 .. ENTRIES : Freed(m, use, acc[k], Fk(k))}
<1>2. \A q \in ManagedPages : use[q].lv = 0 => use[q].slot \in Slots
  BY PathFacts
<1>3. \A k : LeafTo(use, t, k) \subseteq BelowLow(use, t) \ {t} /\ t \in BelowLow(use, t)
  BY DEF LeafTo, BelowLow, LowOf
<1>4. 0 \in S
  <2>1. LeafTo(use, t, 0) = {}
    BY <1>2 DEF LeafTo, Slots
  <2>2. Freed(m, use, acc[0], Fk(0))
    BY <1>1, <2>1
  <2> HIDE DEF Fk
  <2> QED
    BY <1>0, <2>2
<1>5. ASSUME NEW k \in 0 .. ENTRIES - 1, k \in S
      PROVE  k + 1 \in S
  <2>1. Freed(m, use, acc[k], Fk(k)) /\ k \in Slots
    BY <1>0, <1>5
  <2>2. t \notin Fk(k) /\ t \in RamPages
    BY <1>3, PageFacts
  <2>3. acc[k].ram[t] = m.ram[t] /\ ~acc[k].stuck
    BY <2>1, <2>2 DEF Freed, FreedTo
  <2> DEFINE pte == m.ram[t][k]
             q   == Target(m, t, k)
  <2>4. acc[k + 1] = IF Valid(pte) /\ q >= KernelEnd THEN FreePage(acc[k], q) ELSE acc[k]
    BY <1>1, <2>3 DEF FreeLeaf, Target
  <2>5. \A r \in ManagedPages : use[r].lv = 0 =>
            (use[r].slot < k + 1 <=> use[r].slot < k \/ use[r].slot = k)
    BY <1>0, <1>2 DEF Slots
  <2>6. \A r \in ManagedPages : use[r].lv = 0 /\ use[r].up = t /\ use[r].slot = k =>
            Valid(pte) /\ q = r
    BY <2>1, EntryPage
  <2>7. Valid(pte) => \/ q \in ManagedPages /\ use[q] = Below(use, t, k)
                      \/ q \in ImageFrames
    BY <2>1, EntryPage
  <2> HIDE DEF q, pte
  <2>8. CASE Valid(pte) /\ q >= KernelEnd
    <3>1. /\ q \in ManagedPages /\ use[q].lv = 0 /\ use[q].up = t /\ use[q].slot = k
      BY <2>7, <2>8, PageFacts, PageTablesAssumption DEF Below
    <3>2. Fk(k + 1) = Fk(k) \cup {q}
      BY <2>5, <2>6, <3>1 DEF LeafTo
    <3>3. q \notin Fk(k)
      BY <1>0, <3>1 DEF LeafTo, BelowLow, LowOf
    <3>4. use[q].lv # FREE
      BY <3>1 DEF FREE
    <3>5. Freed(m, use, FreePage(acc[k], q), Fk(k) \cup {q})
      <4> HIDE DEF Fk
      <4> QED
        BY <2>1, <3>1, <3>3, <3>4, FreedMore
    <3>6. Freed(m, use, acc[k + 1], Fk(k + 1))
      BY <2>4, <2>8, <3>2, <3>5
    <3> QED
      BY <1>0, <3>6
  <2>9. CASE ~(Valid(pte) /\ q >= KernelEnd)
    <3>1. Fk(k + 1) = Fk(k)
      BY <2>5, <2>6, <2>9, PageFacts DEF LeafTo
    <3>2. Freed(m, use, acc[k + 1], Fk(k + 1))
      BY <2>1, <2>4, <2>9, <3>1
    <3> QED
      BY <1>0, <3>2
  <2> QED
    BY <2>8, <2>9
<1>6. ENTRIES \in S
  <2> HIDE DEF S
  <2> QED
    BY <1>0, <1>4, <1>5, Induct
<1>7. Fk(ENTRIES) \cup {t} = F \cup BelowLow(use, t) /\ t \notin Fk(ENTRIES)
  BY <1>0, <1>2, <1>3 DEF LeafTo, BelowLow, LowOf, Slots
<1>8. use[t].lv # FREE
  BY DEF FREE
<1>9. Freed(m, use, acc[ENTRIES], Fk(ENTRIES))
  BY <1>6
<1>10. Freed(m, use, FreePage(acc[ENTRIES], t), Fk(ENTRIES) \cup {t})
  <2> HIDE DEF Fk, S
  <2> QED
    BY <1>7, <1>8, <1>9, FreedMore
<1> QED
  BY <1>1, <1>7, <1>10

\* The middle loop frees a middle table and all below it.
LEMMA FreePmdFreed ==
    ASSUME NEW m, NEW use, NEW n, Heap(m, use, n),
           NEW t \in ManagedPages, use[t].lv = 2, use[t].tree # root_page_table,
           NEW m1, NEW F, Freed(m, use, m1, F), F \cap BelowMid(use, t) = {}
    PROVE  Freed(m, use, FreePmd(m1, t), F \cup BelowMid(use, t))
<1>0. ENTRIES \in Nat /\ 0 .. ENTRIES - 1 = Slots
  BY PageTablesAssumption DEF Slots
<1>1. PICK acc : /\ acc[0] = m1
                 /\ \A k \in 0 .. ENTRIES - 1 :
                       acc[k + 1] = IF acc[k].stuck THEN acc[k]
                                    ELSE IF Valid(acc[k].ram[t][k])
                                         THEN FreeLeafTable(acc[k], PteToPa(acc[k].ram[t][k]))
                                         ELSE acc[k]
                 /\ FreePmd(m1, t) = FreePage(acc[ENTRIES], t)
  BY FreePmdRun
<1> DEFINE Fk(k) == F \cup PmdTo(use, t, k)
           S == {k \in 0 .. ENTRIES : Freed(m, use, acc[k], Fk(k))}
<1>2. \A q \in ManagedPages : use[q].lv \in {0, 1} =>
          /\ LowOf(use, q) \in ManagedPages /\ use[LowOf(use, q)].lv = 1
          /\ use[LowOf(use, q)].slot \in Slots
          /\ use[LowOf(use, q)].up = MidOf(use, q)
  BY PathFacts DEF MidOf
<1>3. \A k : PmdTo(use, t, k) \subseteq BelowMid(use, t) \ {t} /\ t \in BelowMid(use, t)
  BY DEF PmdTo, BelowMid, MidOf
<1>4. 0 \in S
  <2>1. PmdTo(use, t, 0) = {}
    BY <1>2 DEF PmdTo, Slots
  <2>2. Freed(m, use, acc[0], Fk(0))
    BY <1>1, <2>1
  <2> HIDE DEF Fk
  <2> QED
    BY <1>0, <2>2
<1>5. ASSUME NEW k \in 0 .. ENTRIES - 1, k \in S
      PROVE  k + 1 \in S
  <2>1. Freed(m, use, acc[k], Fk(k)) /\ k \in Slots
    BY <1>0, <1>5
  <2>2. t \notin Fk(k) /\ t \in RamPages
    BY <1>3, PageFacts
  <2>3. acc[k].ram[t] = m.ram[t] /\ ~acc[k].stuck
    BY <2>1, <2>2 DEF Freed, FreedTo
  <2> DEFINE pte == m.ram[t][k]
             q   == Target(m, t, k)
  <2>4. acc[k + 1] = IF Valid(pte) THEN FreeLeafTable(acc[k], q) ELSE acc[k]
    BY <1>1, <2>3 DEF Target
  <2>5. \A r \in ManagedPages : use[r].lv \in {0, 1} =>
            (use[LowOf(use, r)].slot < k + 1 <=>
                use[LowOf(use, r)].slot < k \/ use[LowOf(use, r)].slot = k)
    BY <1>0, <1>2 DEF Slots
  <2>6. \A r \in ManagedPages : use[r].lv = 1 /\ use[r].up = t /\ use[r].slot = k =>
            Valid(pte) /\ q = r
    BY <2>1, EntryPage
  <2>7. Valid(pte) => q \in ManagedPages /\ use[q] = Below(use, t, k)
    BY <2>1, EntryPage
  <2> HIDE DEF q, pte
  <2>8. CASE Valid(pte)
    <3>1. /\ q \in ManagedPages /\ use[q].lv = 1 /\ use[q].up = t /\ use[q].slot = k
          /\ use[q].tree # root_page_table
      BY <2>7, <2>8 DEF Below
    <3>2. \A r \in ManagedPages : use[r].lv \in {0, 1} =>
              (MidOf(use, r) = t /\ use[LowOf(use, r)].slot = k <=> LowOf(use, r) = q)
      BY <1>2, <2>6, <3>1
    <3>3. Fk(k + 1) = Fk(k) \cup BelowLow(use, q)
      BY <2>5, <3>2 DEF PmdTo, BelowLow
    <3>4. Fk(k) \cap BelowLow(use, q) = {}
      <4>1. BelowLow(use, q) \subseteq BelowMid(use, t)
        BY <3>2 DEF BelowLow, BelowMid
      <4>2. PmdTo(use, t, k) \cap BelowLow(use, q) = {}
        BY <1>0, <3>1 DEF PmdTo, BelowLow
      <4> QED
        BY <4>1, <4>2
    <3>5. Freed(m, use, FreeLeafTable(acc[k], q), Fk(k) \cup BelowLow(use, q))
      <4> HIDE DEF Fk
      <4> QED
        BY <2>1, <3>1, <3>4, FreeLeafTableFreed
    <3>6. Freed(m, use, acc[k + 1], Fk(k + 1))
      BY <2>4, <2>8, <3>3, <3>5
    <3> QED
      BY <1>0, <3>6
  <2>9. CASE ~Valid(pte)
    <3>1. Fk(k + 1) = Fk(k)
      BY <1>2, <2>5, <2>6, <2>9 DEF PmdTo
    <3>2. Freed(m, use, acc[k + 1], Fk(k + 1))
      BY <2>1, <2>4, <2>9, <3>1
    <3> QED
      BY <1>0, <3>2
  <2> QED
    BY <2>8, <2>9
<1>6. ENTRIES \in S
  <2> HIDE DEF S
  <2> QED
    BY <1>0, <1>4, <1>5, Induct
<1>7. Fk(ENTRIES) \cup {t} = F \cup BelowMid(use, t) /\ t \notin Fk(ENTRIES)
  <2>1. \A q \in BelowMid(use, t) : q # t => q \in PmdTo(use, t, ENTRIES)
    BY <1>0, <1>2 DEF PmdTo, BelowMid, MidOf, Slots
  <2> QED
    BY <1>3, <2>1
<1>8. use[t].lv # FREE
  BY DEF FREE
<1>9. Freed(m, use, acc[ENTRIES], Fk(ENTRIES))
  BY <1>6
<1>10. Freed(m, use, FreePage(acc[ENTRIES], t), Fk(ENTRIES) \cup {t})
  <2> HIDE DEF Fk, S
  <2> QED
    BY <1>7, <1>8, <1>9, FreedMore
<1> QED
  BY <1>1, <1>7, <1>10

(***************************************************************************)
(* free_user_page_table (mmu.c:132) frees each page of the tree, once, and *)
(* no other.                                                               *)
(***************************************************************************)
LEMMA FreeUserFreed ==
    ASSUME NEW m, NEW use, NEW n, Heap(m, use, n), ~m.stuck,
           use[root_page_table].lv = 3,
           NEW t \in ManagedPages, use[t].lv = 3, t # root_page_table
    PROVE  Freed(m, use, FreeUserPageTable(m, root_page_table, t), TreePages(use, t))
<1> DEFINE root == root_page_table
<1>0. ENTRIES \in Nat /\ 0 .. ENTRIES - 1 = Slots
  BY PageTablesAssumption DEF Slots
<1>1. PICK acc : /\ acc[0] = m
                 /\ \A k \in 0 .. ENTRIES - 1 :
                       acc[k + 1] = IF acc[k].stuck THEN acc[k]
                                    ELSE IF /\ acc[k].ram[t][k] # acc[k].ram[root][k]
                                            /\ Valid(acc[k].ram[t][k])
                                         THEN FreePmd(acc[k], PteToPa(acc[k].ram[t][k]))
                                         ELSE acc[k]
                 /\ FreeUserPageTable(m, root, t) = FreePage(acc[ENTRIES], t)
  BY FreeUserRun
<1> DEFINE Fk(k) == TopTo(use, t, k)
           S == {k \in 0 .. ENTRIES : Freed(m, use, acc[k], Fk(k))}
<1>2. \A q \in ManagedPages : use[q].lv \in 0 .. 2 =>
          /\ MidOf(use, q) \in ManagedPages /\ use[MidOf(use, q)].lv = 2
          /\ use[MidOf(use, q)].slot \in Slots
          /\ use[MidOf(use, q)].up = use[q].tree
          /\ use[MidOf(use, q)].tree = use[q].tree
  BY PathFacts
<1>3. /\ use[t].tree = t /\ use[root].tree = root /\ root \in ManagedPages
      /\ \A q \in ManagedPages : use[q].lv = 3 => use[q].tree = q
  BY PageFacts DEF Heap, TopsOK
<1>4. 0 \in S
  <2>1. TopTo(use, t, 0) = {}
    BY <1>2 DEF TopTo, Slots
  <2>2. FreedTo(m, use, m, {}, use, n)
    BY DEF FreedTo, Heap
  <2>3. Freed(m, use, acc[0], Fk(0))
    BY <1>1, <2>1, <2>2 DEF Freed
  <2> HIDE DEF Fk
  <2> QED
    BY <1>0, <2>3
<1>5. ASSUME NEW k \in 0 .. ENTRIES - 1, k \in S
      PROVE  k + 1 \in S
  <2>1. Freed(m, use, acc[k], Fk(k)) /\ k \in Slots
    BY <1>0, <1>5
  <2>2. t \notin Fk(k) /\ t \in RamPages /\ root \notin Fk(k) /\ root \in RamPages
    BY <1>3, PageFacts DEF TopTo
  <2>3. acc[k].ram[t] = m.ram[t] /\ acc[k].ram[root] = m.ram[root] /\ ~acc[k].stuck
    BY <2>1, <2>2 DEF Freed, FreedTo
  <2> DEFINE pte == m.ram[t][k]
             q   == Target(m, t, k)
  <2>4. acc[k + 1] = IF pte # m.ram[root][k] /\ Valid(pte) THEN FreePmd(acc[k], q) ELSE acc[k]
    BY <1>1, <2>3 DEF Target
  <2>5. \A r \in ManagedPages : use[r].lv \in 0 .. 2 =>
            (use[MidOf(use, r)].slot < k + 1 <=>
                use[MidOf(use, r)].slot < k \/ use[MidOf(use, r)].slot = k)
    BY <1>0, <1>2 DEF Slots
  <2>6. \A r \in ManagedPages : use[r].lv = 2 /\ use[r].up = t /\ use[r].slot = k =>
            Valid(pte) /\ q = r
    BY <2>1, EntryPage
  <2>7. Valid(pte) => q \in ManagedPages /\ use[q] = Below(use, t, k)
    BY <2>1, EntryPage
  <2>8. Valid(pte) => pte # m.ram[root][k]
    <3>1. Valid(m.ram[root][k]) => use[Target(m, root, k)] = Below(use, root, k)
      BY <1>3, <2>1, EntryPage, PageFacts DEF ImageFrames
    <3>2. Below(use, root, k).up # Below(use, t, k).up
      BY DEF Below
    <3> QED
      BY <2>7, <3>1, <3>2 DEF Target
  <2> HIDE DEF q, pte
  <2>9. CASE Valid(pte)
    <3>1. /\ q \in ManagedPages /\ use[q].lv = 2 /\ use[q].up = t /\ use[q].slot = k
          /\ use[q].tree = t
      BY <1>3, <2>7, <2>9 DEF Below
    <3>2. \A r \in ManagedPages : use[r].lv \in 0 .. 2 =>
              (use[r].tree = t /\ use[MidOf(use, r)].slot = k <=> MidOf(use, r) = q)
      BY <1>2, <2>6, <3>1
    <3>3. Fk(k + 1) = Fk(k) \cup BelowMid(use, q)
      BY <2>5, <3>2 DEF TopTo, BelowMid
    <3>4. Fk(k) \cap BelowMid(use, q) = {}
      BY <1>0, <3>1 DEF TopTo, BelowMid
    <3>5. Freed(m, use, FreePmd(acc[k], q), Fk(k) \cup BelowMid(use, q))
      <4> HIDE DEF Fk
      <4> QED
        BY <2>1, <3>1, <3>4, FreePmdFreed
    <3>6. Freed(m, use, acc[k + 1], Fk(k + 1))
      BY <2>4, <2>8, <2>9, <3>3, <3>5
    <3> QED
      BY <1>0, <3>6
  <2>10. CASE ~Valid(pte)
    <3>1. Fk(k + 1) = Fk(k)
      BY <1>2, <2>5, <2>6, <2>10 DEF TopTo
    <3>2. Freed(m, use, acc[k + 1], Fk(k + 1))
      BY <2>1, <2>4, <2>10, <3>1
    <3> QED
      BY <1>0, <3>2
  <2> QED
    BY <2>9, <2>10
<1>6. ENTRIES \in S
  <2> HIDE DEF S
  <2> QED
    BY <1>0, <1>4, <1>5, Induct
<1>7. Fk(ENTRIES) \cup {t} = TreePages(use, t) /\ t \notin Fk(ENTRIES)
  <2>1. \A q \in ManagedPages : use[q].lv >= 0 => use[q].lv \in 0 .. 2 \/ use[q].lv = 3
    BY DEF Heap, Use
  <2>2. \A q \in TreePages(use, t) : q # t => q \in Fk(ENTRIES)
    BY <1>0, <1>2, <1>3, <2>1 DEF TreePages, TopTo, Slots
  <2>3. Fk(ENTRIES) \subseteq TreePages(use, t) \ {t} /\ t \in TreePages(use, t)
    BY <1>3 DEF TreePages, TopTo
  <2> QED
    BY <2>2, <2>3
<1>8. use[t].lv # FREE
  BY DEF FREE
<1>9. Freed(m, use, acc[ENTRIES], Fk(ENTRIES))
  BY <1>6
<1>10. Freed(m, use, FreePage(acc[ENTRIES], t), Fk(ENTRIES) \cup {t})
  <2> HIDE DEF Fk, S
  <2> QED
    BY <1>7, <1>8, <1>9, FreedMore
<1> QED
  BY <1>1, <1>7, <1>10

\* After free_user_page_table the heap is one without that tree.
LEMMA FreeUserHeap ==
    ASSUME NEW m, NEW use, NEW n, Heap(m, use, n), ~m.stuck,
           use[root_page_table].lv = 3,
           NEW t \in ManagedPages, use[t].lv = 3, t # root_page_table
    PROVE  LET m2 == FreeUserPageTable(m, root_page_table, t) IN
           \E use2, n2 : /\ Heap(m2, use2, n2)
                         /\ FreedTo(m, use, m2, TreePages(use, t), use2, n2)
<1> DEFINE m2 == FreeUserPageTable(m, root_page_table, t)
<1>1. PICK use2, n2 : FreedTo(m, use, m2, TreePages(use, t), use2, n2)
  BY FreeUserFreed DEF Freed
<1> HIDE DEF m2
<1>2. TreesStay(m, use, m2, use2, {t})
  <2> SUFFICES ASSUME NEW p \in ManagedPages
               PROVE  \/ /\ use[p].lv >= 0 /\ use[p].tree \notin {t} /\ use2[p] = use[p]
                         /\ use[p].lv > 0 => m2.ram[p] = m.ram[p]
                      \/ (use[p].lv < 0 \/ use[p].tree \in {t}) /\ use2[p].lv < 0
    BY DEF TreesStay
  <2>1. CASE p \in TreePages(use, t)
    BY <1>1, <2>1 DEF FreedTo, TreePages, FREE
  <2>2. CASE p \notin TreePages(use, t)
    <3>1. use2[p] = use[p] /\ m2.ram[p] = m.ram[p] /\ use[p].lv \in -2 .. 3
      BY <1>1, <2>2, PageFacts DEF FreedTo, Heap, Use
    <3> QED
      BY <2>2, <3>1 DEF TreePages
  <2> QED
    BY <2>1, <2>2
<1>3. EntriesOK(m2, use2) /\ ParentsOK(m2, use2) /\ TopsOK(use2)
  <2>1. use \in [ManagedPages -> Use] /\ use2 \in [ManagedPages -> Use]
    BY <1>1 DEF FreedTo, Heap
  <2>2. EntriesOK(m, use) /\ ParentsOK(m, use) /\ TopsOK(use)
    BY DEF Heap
  <2> QED
    BY <1>2, <2>1, <2>2, TreesKept
<1>4. Heap(m2, use2, n2)
  BY <1>1, <1>3 DEF Heap, FreedTo
<1> QED
  BY <1>1, <1>4 DEF m2

(***************************************************************************)
(* A machine that is stuck frees nothing.                                  *)
(***************************************************************************)
LEMMA FreeUserStuck ==
    ASSUME NEW m, m.stuck, NEW r, NEW t
    PROVE  FreeUserPageTable(m, r, t) = m
<1>0. ENTRIES \in Nat
  BY PageTablesAssumption
<1>1. PICK acc : /\ acc[0] = m
                 /\ \A k \in 0 .. ENTRIES - 1 :
                       acc[k + 1] = IF acc[k].stuck THEN acc[k]
                                    ELSE IF acc[k].ram[t][k] # acc[k].ram[r][k] /\ Valid(acc[k].ram[t][k])
                                         THEN FreePmd(acc[k], PteToPa(acc[k].ram[t][k]))
                                         ELSE acc[k]
                 /\ FreeUserPageTable(m, r, t) = FreePage(acc[ENTRIES], t)
  BY FreeUserRun
<1> DEFINE S == {k \in 0 .. ENTRIES : acc[k] = m}
<1>2. 0 \in S
  BY <1>0, <1>1
<1>3. ASSUME NEW k \in 0 .. ENTRIES - 1, k \in S
      PROVE  k + 1 \in S
  BY <1>0, <1>1, <1>3
<1>4. ENTRIES \in S
  <2> HIDE DEF S
  <2> QED
    BY <1>0, <1>2, <1>3, Induct
<1> QED
  BY <1>1, <1>4 DEF FreePage

(***************************************************************************)
(* A walk through a tree whose tables are untouched ends where it did.     *)
(***************************************************************************)
LEMMA TreeLeaves ==
    ASSUME NEW m, NEW use, NEW n, Heap(m, use, n), NEW m2,
           NEW g \in ManagedPages, use[g].lv = 3,
           \A p \in TablesOf(use, g) : m2.ram[p] = m.ram[p],
           NEW v \in VirtualPages
    PROVE  LeafPte(m2, g, v) = LeafPte(m, g, v)
<1>1. g \in TablesOf(use, g)
  BY DEF TablesOf, Heap, TopsOK
<1>2. HasMid(m, g, v) => Mid(m, g, v) \in TablesOf(use, g)
  BY WalkFacts DEF TablesOf
<1>3. HasLow(m, g, v) => Low(m, g, v) \in TablesOf(use, g)
  BY WalkFacts DEF TablesOf
<1> QED
  BY <1>1, <1>2, <1>3 DEF LeafPte, HasMid, HasLow, Mid, Low, Target

-----------------------------------------------------------------------------
(***************************************************************************)
(* Copying.                                                                *)
(***************************************************************************)

(***************************************************************************)
(* The rounds of the loops of copy_user_page_table, innermost loop first.  *)
(***************************************************************************)
LEMMA CopyLeafTableRun ==
    ASSUME NEW m, NEW dst, NEW slot, NEW pte,
           Valid(pte)
    PROVE  \E acc : /\ acc[0] = NewBelow(m, dst, slot, pte)
                    /\ \A k \in 0 .. ENTRIES - 1 :
                          acc[k + 1] = IF acc[k].stuck THEN acc[k]
                                       ELSE CopyLeaf(acc[k], m.free_list, k, acc[k].ram[PteToPa(pte)][k])
                    /\ CopyLeafTable(m, dst, slot, pte) = acc[ENTRIES]
<1> DEFINE N == ENTRIES
           Round(x, k) == IF x.stuck THEN x
                          ELSE CopyLeaf(x, m.free_list, k, x.ram[PteToPa(pte)][k])
           IsRun(g, j) == g = [k \in 0 .. j |-> IF k = 0 THEN NewBelow(m, dst, slot, pte) ELSE Round(g[k - 1], k - 1)]
           Reached == {j \in 0 .. N : \E g : IsRun(g, j)}
<1>0. N \in Nat
  BY PageTablesAssumption
<1> HIDE DEF N, Round
<1>1. 0 \in Reached
  <2> DEFINE g == [k \in 0 .. 0 |-> NewBelow(m, dst, slot, pte)]
  <2>1. IsRun(g, 0)
    OBVIOUS
  <2> HIDE DEF g, IsRun
  <2> QED
    BY <1>0, <2>1
<1>2. ASSUME NEW j \in 0 .. N - 1, j \in Reached
      PROVE  j + 1 \in Reached
  <2> HIDE DEF IsRun
  <2>1. PICK g : IsRun(g, j)
    BY <1>2
  <2> DEFINE h == [k \in 0 .. j + 1 |-> IF k <= j THEN g[k] ELSE Round(g[j], j)]
  <2>2. IsRun(h, j + 1)
    BY <1>0, <2>1 DEF IsRun
  <2> HIDE DEF h
  <2> QED
    BY <1>0, <2>2
<1>3. \E g : IsRun(g, N)
  <2>1. \A j \in 0 .. N : j \in Reached
    <3> HIDE DEF Reached
    <3> QED
      BY <1>0, <1>1, <1>2, Induct
  <2> HIDE DEF IsRun
  <2> QED
    BY <1>0, <2>1
<1> DEFINE acc == CHOOSE g : IsRun(g, N)
<1>4. IsRun(acc, N)
  <2> HIDE DEF IsRun
  <2> QED
    BY <1>3
<1>5. CopyLeafTable(m, dst, slot, pte) = acc[N]
  BY DEF Loop, Round, N, CopyLeafTable
<1> HIDE DEF acc
<1>6. acc[0] = NewBelow(m, dst, slot, pte) /\ \A k \in 0 .. N - 1 : acc[k + 1] = Round(acc[k], k)
  BY <1>0, <1>4
<1> HIDE DEF IsRun, Reached
<1> QED
  BY <1>5, <1>6 DEF Round, N

(***************************************************************************)
(* The loop over a table of the middle level.                              *)
(***************************************************************************)
LEMMA CopyPmdRun ==
    ASSUME NEW m, NEW dst, NEW slot, NEW pte,
           Valid(pte)
    PROVE  \E acc : /\ acc[0] = NewBelow(m, dst, slot, pte)
                    /\ \A k \in 0 .. ENTRIES - 1 :
                          acc[k + 1] = IF acc[k].stuck THEN acc[k]
                                       ELSE CopyLeafTable(acc[k], m.free_list, k, acc[k].ram[PteToPa(pte)][k])
                    /\ CopyPmd(m, dst, slot, pte) = acc[ENTRIES]
<1> DEFINE N == ENTRIES
           Round(x, k) == IF x.stuck THEN x
                          ELSE CopyLeafTable(x, m.free_list, k, x.ram[PteToPa(pte)][k])
           IsRun(g, j) == g = [k \in 0 .. j |-> IF k = 0 THEN NewBelow(m, dst, slot, pte) ELSE Round(g[k - 1], k - 1)]
           Reached == {j \in 0 .. N : \E g : IsRun(g, j)}
<1>0. N \in Nat
  BY PageTablesAssumption
<1> HIDE DEF N, Round
<1>1. 0 \in Reached
  <2> DEFINE g == [k \in 0 .. 0 |-> NewBelow(m, dst, slot, pte)]
  <2>1. IsRun(g, 0)
    OBVIOUS
  <2> HIDE DEF g, IsRun
  <2> QED
    BY <1>0, <2>1
<1>2. ASSUME NEW j \in 0 .. N - 1, j \in Reached
      PROVE  j + 1 \in Reached
  <2> HIDE DEF IsRun
  <2>1. PICK g : IsRun(g, j)
    BY <1>2
  <2> DEFINE h == [k \in 0 .. j + 1 |-> IF k <= j THEN g[k] ELSE Round(g[j], j)]
  <2>2. IsRun(h, j + 1)
    BY <1>0, <2>1 DEF IsRun
  <2> HIDE DEF h
  <2> QED
    BY <1>0, <2>2
<1>3. \E g : IsRun(g, N)
  <2>1. \A j \in 0 .. N : j \in Reached
    <3> HIDE DEF Reached
    <3> QED
      BY <1>0, <1>1, <1>2, Induct
  <2> HIDE DEF IsRun
  <2> QED
    BY <1>0, <2>1
<1> DEFINE acc == CHOOSE g : IsRun(g, N)
<1>4. IsRun(acc, N)
  <2> HIDE DEF IsRun
  <2> QED
    BY <1>3
<1>5. CopyPmd(m, dst, slot, pte) = acc[N]
  BY DEF Loop, Round, N, CopyPmd
<1> HIDE DEF acc
<1>6. acc[0] = NewBelow(m, dst, slot, pte) /\ \A k \in 0 .. N - 1 : acc[k + 1] = Round(acc[k], k)
  BY <1>0, <1>4
<1> HIDE DEF IsRun, Reached
<1> QED
  BY <1>5, <1>6 DEF Round, N

(***************************************************************************)
(* The loop over a top-level table.                                        *)
(***************************************************************************)
LEMMA CopyUserRun ==
    ASSUME NEW m, NEW r, NEW src
    PROVE  \E acc : /\ acc[0] = AllocPage(m)
                    /\ \A k \in 0 .. ENTRIES - 1 :
                          acc[k + 1] = IF acc[k].stuck THEN acc[k]
                                       ELSE IF acc[k].ram[src][k] = acc[k].ram[r][k]
                          THEN SetWord(acc[k], m.free_list, k, acc[k].ram[src][k])
                          ELSE CopyPmd(acc[k], m.free_list, k, acc[k].ram[src][k])
                    /\ CopyUserPageTable(m, r, src) = acc[ENTRIES]
<1> DEFINE N == ENTRIES
           Round(x, k) == IF x.stuck THEN x
                          ELSE IF x.ram[src][k] = x.ram[r][k]
                          THEN SetWord(x, m.free_list, k, x.ram[src][k])
                          ELSE CopyPmd(x, m.free_list, k, x.ram[src][k])
           IsRun(g, j) == g = [k \in 0 .. j |-> IF k = 0 THEN AllocPage(m) ELSE Round(g[k - 1], k - 1)]
           Reached == {j \in 0 .. N : \E g : IsRun(g, j)}
<1>0. N \in Nat
  BY PageTablesAssumption
<1> HIDE DEF N, Round
<1>1. 0 \in Reached
  <2> DEFINE g == [k \in 0 .. 0 |-> AllocPage(m)]
  <2>1. IsRun(g, 0)
    OBVIOUS
  <2> HIDE DEF g, IsRun
  <2> QED
    BY <1>0, <2>1
<1>2. ASSUME NEW j \in 0 .. N - 1, j \in Reached
      PROVE  j + 1 \in Reached
  <2> HIDE DEF IsRun
  <2>1. PICK g : IsRun(g, j)
    BY <1>2
  <2> DEFINE h == [k \in 0 .. j + 1 |-> IF k <= j THEN g[k] ELSE Round(g[j], j)]
  <2>2. IsRun(h, j + 1)
    BY <1>0, <2>1 DEF IsRun
  <2> HIDE DEF h
  <2> QED
    BY <1>0, <2>2
<1>3. \E g : IsRun(g, N)
  <2>1. \A j \in 0 .. N : j \in Reached
    <3> HIDE DEF Reached
    <3> QED
      BY <1>0, <1>1, <1>2, Induct
  <2> HIDE DEF IsRun
  <2> QED
    BY <1>0, <2>1
<1> DEFINE acc == CHOOSE g : IsRun(g, N)
<1>4. IsRun(acc, N)
  <2> HIDE DEF IsRun
  <2> QED
    BY <1>3
<1>5. CopyUserPageTable(m, r, src) = acc[N]
  BY DEF Loop, Round, N, CopyUserPageTable
<1> HIDE DEF acc
<1>6. acc[0] = AllocPage(m) /\ \A k \in 0 .. N - 1 : acc[k + 1] = Round(acc[k], k)
  BY <1>0, <1>4
<1> HIDE DEF IsRun, Reached
<1> QED
  BY <1>5, <1>6 DEF Round, N

(***************************************************************************)
(* What a copied entry has in common with the original, level by level:    *)
(* the leaves have the same permissions and pages with the same words.     *)
(***************************************************************************)
SameLeaf(m, w, m2, w2) ==
    /\ Valid(w2) <=> Valid(w)
    /\ Valid(w) => Flags(w2) = Flags(w) /\ m2.ram[PteToPa(w2)] = m.ram[PteToPa(w)]

SameTable(m, w, m2, w2) ==
    /\ Valid(w2) <=> Valid(w)
    /\ Valid(w) => \A k \in Slots :
          SameLeaf(m, m.ram[PteToPa(w)][k], m2, m2.ram[PteToPa(w2)][k])

SamePmd(m, w, m2, w2) ==
    /\ Valid(w2) <=> Valid(w)
    /\ Valid(w) => \A k \in Slots :
          SameTable(m, m.ram[PteToPa(w)][k], m2, m2.ram[PteToPa(w2)][k])

SameTree(m, g, m2, g2) == \A i \in Slots : SamePmd(m, m.ram[g][i], m2, m2.ram[g2][i])

\* Walks of equal trees find equal leaves.
LEMMA SameTreeLeaf ==
    ASSUME NEW m, NEW g, NEW m2, NEW g2, SameTree(m, g, m2, g2), NEW v \in VirtualPages
    PROVE  SameLeaf(m, LeafPte(m, g, v), m2, LeafPte(m2, g2, v))
<1>1. Vpn(v, 0) \in Slots /\ Vpn(v, 1) \in Slots /\ Vpn(v, 2) \in Slots
  BY VpnFacts
<1>2. SamePmd(m, m.ram[g][Vpn(v, 2)], m2, m2.ram[g2][Vpn(v, 2)])
  BY <1>1 DEF SameTree
<1>3. ~Valid(Plain(0))
  BY DEF Valid, Flags, Plain
<1> QED
  BY <1>1, <1>2, <1>3 DEF SamePmd, SameTable, SameLeaf, LeafPte

(***************************************************************************)
(* Entries of the tables of a task's tree.                                 *)
(***************************************************************************)
TaskTable(use, t, lv) ==
    t \in ManagedPages /\ use[t].lv = lv /\ use[t].tree # root_page_table

LeafRef(use, w) ==
    Valid(w) => /\ {"R", "A", "D"} \subseteq Flags(w)
                /\ PteToPa(w) \in RamPages
                /\ PteToPa(w) \in ManagedPages => use[PteToPa(w)].lv = 0

TableRef(use, w, lv) == Valid(w) => Flags(w) = {"V"} /\ TaskTable(use, PteToPa(w), lv)

\* The entries of the tables of a task are pointers and readable leaves.
LEMMA TaskEntries ==
    ASSUME NEW m, NEW use, NEW n, Heap(m, use, n), NEW t, NEW k \in Slots
    PROVE  /\ TaskTable(use, t, 1) => LeafRef(use, m.ram[t][k])
           /\ TaskTable(use, t, 2) => TableRef(use, m.ram[t][k], 1)
           /\ TaskTable(use, t, 3) => TableRef(use, m.ram[t][k], 2)
           /\ TaskTable(use, t, 2) \/ TaskTable(use, t, 3) =>
                 (Valid(m.ram[t][k]) => use[Target(m, t, k)].tree = use[t].tree)
           /\ t \in ManagedPages => m.ram[t][k] \in Word
<1> DEFINE w == m.ram[t][k]
           q == Target(m, t, k)
<1>1. ASSUME t \in ManagedPages, use[t].lv > 0, Valid(w)
      PROVE  EntryOK(m, use, t, k)
  BY <1>1 DEF Heap, EntriesOK
<1>2. ASSUME TaskTable(use, t, 1), Valid(w)
      PROVE  LeafRef(use, w)
  <2>1. EntryOK(m, use, t, k) /\ use[t].lv = 1 /\ use[t].tree # root_page_table
    BY <1>1, <1>2 DEF TaskTable
  <2>2. {"R", "A", "D"} \subseteq Flags(w) /\ (IsBelow(use, PteToPa(w), t, k) \/ PteToPa(w) \in ImageFrames)
    BY <2>1 DEF EntryOK
  <2>3. IsBelow(use, PteToPa(w), t, k) => PteToPa(w) \in ManagedPages /\ use[PteToPa(w)].lv = 0
    BY <2>1 DEF IsBelow, Below
  <2> HIDE DEF w
  <2> QED
    BY <2>2, <2>3, PageFacts DEF LeafRef
<1>3. ASSUME NEW lv \in {2, 3}, TaskTable(use, t, lv), Valid(w)
      PROVE  TableRef(use, w, lv - 1) /\ use[q].tree = use[t].tree
  <2>1. EntryOK(m, use, t, k) /\ use[t].lv = lv /\ use[t].tree # root_page_table
    BY <1>1, <1>3 DEF TaskTable
  <2>2. Flags(w) = {"V"} /\ IsBelow(use, q, t, k)
    BY <2>1 DEF EntryOK, Target
  <2>3. q \in ManagedPages /\ use[q].lv = lv - 1 /\ use[q].tree = use[t].tree
    BY <2>1, <2>2 DEF IsBelow, Below
  <2> QED
    BY <2>1, <2>2, <2>3 DEF TableRef, TaskTable, Target
<1>4. t \in ManagedPages => w \in Word
  BY PageFacts DEF Heap, Mem
<1>5. ~Valid(w) => LeafRef(use, w) /\ TableRef(use, w, 1) /\ TableRef(use, w, 2)
  BY DEF LeafRef, TableRef
<1> HIDE DEF w, q
<1>6. TaskTable(use, t, 2) /\ Valid(w) => TableRef(use, w, 1) /\ use[q].tree = use[t].tree
  BY <1>3
<1>7. TaskTable(use, t, 3) /\ Valid(w) => TableRef(use, w, 2) /\ use[q].tree = use[t].tree
  BY <1>3
<1> QED
  BY <1>2, <1>4, <1>5, <1>6, <1>7 DEF w, q

(***************************************************************************)
(* What was copied stays so while the tables above it are written, and     *)
(* what is copied may be looked up in an earlier memory.                   *)
(***************************************************************************)
LEMMA SameLeafLater ==
    ASSUME NEW m, NEW w, NEW m2, NEW use2, NEW w2, NEW m3, NEW use3, NEW X,
           Ext(m2, use2, m3, use3, X, {}), LeafRef(use2, w2),
           \A p \in X : p \in ManagedPages /\ use2[p].lv > 0,
           SameLeaf(m, w, m2, w2)
    PROVE  SameLeaf(m, w, m3, w2)
BY DEF SameLeaf, LeafRef, Ext, FREE

\* A copied table stays a copy while the memory grows.
LEMMA SameTableLater ==
    ASSUME NEW m, NEW w, NEW m2, NEW use2, NEW n2, Heap(m2, use2, n2),
           NEW w2, NEW m3, NEW use3, NEW X,
           Ext(m2, use2, m3, use3, X, {}), TableRef(use2, w2, 1),
           \A p \in X : p \in ManagedPages /\ use2[p].lv > 1,
           SameTable(m, w, m2, w2)
    PROVE  SameTable(m, w, m3, w2)
<1> SUFFICES ASSUME Valid(w), NEW k \in Slots
             PROVE  SameLeaf(m, m.ram[PteToPa(w)][k], m3, m3.ram[PteToPa(w2)][k])
  BY DEF SameTable
<1> DEFINE t == PteToPa(w2)
<1>1. TaskTable(use2, t, 1)
  BY DEF SameTable, TableRef
<1>2. m3.ram[t] = m2.ram[t]
  BY <1>1, PageFacts DEF TaskTable, Ext, FREE
<1>3. LeafRef(use2, m2.ram[t][k])
  BY <1>1, TaskEntries
<1>4. SameLeaf(m, m.ram[PteToPa(w)][k], m2, m2.ram[t][k])
  BY DEF SameTable
<1>5. \A p \in X : p \in ManagedPages /\ use2[p].lv > 0
  BY DEF Heap, Use
<1> HIDE DEF t
<1>6. SameLeaf(m, m.ram[PteToPa(w)][k], m3, m2.ram[t][k])
  BY <1>3, <1>4, <1>5, SameLeafLater
<1> QED
  BY <1>2, <1>6 DEF t

\* A copied middle table stays a copy while the memory grows.
LEMMA SamePmdLater ==
    ASSUME NEW m, NEW w, NEW m2, NEW use2, NEW n2, Heap(m2, use2, n2),
           NEW w2, NEW m3, NEW use3, NEW X,
           Ext(m2, use2, m3, use3, X, {}), TableRef(use2, w2, 2),
           \A p \in X : p \in ManagedPages /\ use2[p].lv > 2,
           SamePmd(m, w, m2, w2)
    PROVE  SamePmd(m, w, m3, w2)
<1> SUFFICES ASSUME Valid(w), NEW k \in Slots
             PROVE  SameTable(m, m.ram[PteToPa(w)][k], m3, m3.ram[PteToPa(w2)][k])
  BY DEF SamePmd
<1> DEFINE t == PteToPa(w2)
<1>1. TaskTable(use2, t, 2)
  BY DEF SamePmd, TableRef
<1>2. m3.ram[t] = m2.ram[t]
  BY <1>1, PageFacts DEF TaskTable, Ext, FREE
<1>3. TableRef(use2, m2.ram[t][k], 1)
  BY <1>1, TaskEntries
<1>4. SameTable(m, m.ram[PteToPa(w)][k], m2, m2.ram[t][k])
  BY DEF SamePmd
<1>5. \A p \in X : p \in ManagedPages /\ use2[p].lv > 1
  BY DEF Heap, Use
<1> HIDE DEF t
<1>6. SameTable(m, m.ram[PteToPa(w)][k], m3, m2.ram[t][k])
  BY <1>3, <1>4, <1>5, SameTableLater
<1> QED
  BY <1>2, <1>6 DEF t

\* The pages X are not of the tree g, and no data.
Apart(use, X, g) == \A p \in X : p \in ManagedPages /\ use[p].lv > 0 /\ use[p].tree # g

\* What was copied later is a copy of the leaf as it was before.
LEMMA SameLeafEarlier ==
    ASSUME NEW m, NEW use, NEW w, NEW m2, NEW use2, NEW m3, NEW w3, NEW X, NEW g,
           Ext(m, use, m2, use2, X, {}), LeafRef(use, w), Apart(use, X, g),
           SameLeaf(m2, w, m3, w3)
    PROVE  SameLeaf(m, w, m3, w3)
BY DEF SameLeaf, LeafRef, Ext, FREE, Apart

\* The same for a table.
LEMMA SameTableEarlier ==
    ASSUME NEW m, NEW use, NEW n, Heap(m, use, n),
           NEW w, NEW m2, NEW use2, NEW m3, NEW w3, NEW X, NEW g,
           Ext(m, use, m2, use2, X, {}), TableRef(use, w, 1), Apart(use, X, g),
           Valid(w) => use[PteToPa(w)].tree = g,
           SameTable(m2, w, m3, w3)
    PROVE  SameTable(m, w, m3, w3)
<1> SUFFICES ASSUME Valid(w), NEW k \in Slots
             PROVE  SameLeaf(m, m.ram[PteToPa(w)][k], m3, m3.ram[PteToPa(w3)][k])
  BY DEF SameTable
<1> DEFINE t == PteToPa(w)
<1>1. TaskTable(use, t, 1) /\ use[t].tree = g
  BY DEF TableRef
<1>2. m2.ram[t] = m.ram[t]
  BY <1>1, PageFacts DEF TaskTable, Ext, FREE, Apart
<1>3. LeafRef(use, m.ram[t][k])
  BY <1>1, TaskEntries
<1>4. SameLeaf(m2, m.ram[t][k], m3, m3.ram[PteToPa(w3)][k])
  BY <1>2 DEF SameTable
<1> HIDE DEF t
<1>5. SameLeaf(m, m.ram[t][k], m3, m3.ram[PteToPa(w3)][k])
  BY <1>3, <1>4, SameLeafEarlier
<1> QED
  BY <1>5 DEF t

\* The same for a middle table.
LEMMA SamePmdEarlier ==
    ASSUME NEW m, NEW use, NEW n, Heap(m, use, n),
           NEW w, NEW m2, NEW use2, NEW m3, NEW w3, NEW X, NEW g,
           Ext(m, use, m2, use2, X, {}), TableRef(use, w, 2), Apart(use, X, g),
           Valid(w) => use[PteToPa(w)].tree = g,
           SamePmd(m2, w, m3, w3)
    PROVE  SamePmd(m, w, m3, w3)
<1> SUFFICES ASSUME Valid(w), NEW k \in Slots
             PROVE  SameTable(m, m.ram[PteToPa(w)][k], m3, m3.ram[PteToPa(w3)][k])
  BY DEF SamePmd
<1> DEFINE t  == PteToPa(w)
           w1 == m.ram[t][k]
<1>1. TaskTable(use, t, 2) /\ use[t].tree = g
  BY DEF TableRef
<1>2. m2.ram[t] = m.ram[t]
  BY <1>1, PageFacts DEF TaskTable, Ext, FREE, Apart
<1>3. TableRef(use, w1, 1)
  BY <1>1, TaskEntries
<1>4. SameTable(m2, w1, m3, m3.ram[PteToPa(w3)][k])
  BY <1>2 DEF SamePmd
<1>5. Valid(w1) => use[PteToPa(w1)].tree = g
  BY <1>1, TaskEntries DEF Target
<1> HIDE DEF t, w1
<1>6. SameTable(m, w1, m3, m3.ram[PteToPa(w3)][k])
  BY <1>3, <1>4, <1>5, SameTableEarlier
<1> QED
  BY <1>6 DEF t, w1

(***************************************************************************)
(* The tables of tree s map virtual pages of A alone: that is where their  *)
(* valid entries belong.                                                   *)
(***************************************************************************)
Belongs(use, d, k, A) == Spell(use[d].pos, k) \in Prefixes(A, use[d].lv - 1)

Covered(m, use, s, A) ==
    \A t \in TablesOf(use, s), k \in Slots : Valid(m.ram[t][k]) => Belongs(use, t, k, A)

\* They do so while another tree grows.
LEMMA CoveredLater ==
    ASSUME NEW m, NEW use, NEW s, NEW A, Covered(m, use, s, A),
           NEW m2, NEW use2, NEW X, Ext(m, use, m2, use2, X, {}), Apart(use, X, s),
           use2 \in [ManagedPages -> Use], NEW c, NEW B, Placed(use, use2, c, B), c # s
    PROVE  Covered(m2, use2, s, A)
<1> SUFFICES ASSUME NEW t \in TablesOf(use2, s), NEW k \in Slots, Valid(m2.ram[t][k])
             PROVE  Belongs(use2, t, k, A)
  BY DEF Covered
<1>1. t \in ManagedPages /\ use2[t].lv \in {1, 2, 3} /\ use2[t].tree = s
  BY DEF TablesOf, Heap, Use
<1>2. use2[t] = use[t]
  <2>1. CASE use2[t].lv = 3
    BY <1>1, <2>1 DEF Ext, FREE
  <2>2. CASE use2[t].lv # 3
    BY <1>1, <2>2 DEF Placed
  <2> QED
    BY <2>1, <2>2
<1>3. m2.ram[t] = m.ram[t]
  BY <1>1, <1>2, PageFacts DEF Ext, Apart, FREE
<1> QED
  BY <1>1, <1>2, <1>3 DEF Covered, Belongs, TablesOf

\* A node that is new, if any, is below slot k of d.
OneNode(use, use1, d, k) ==
    \A q \in ManagedPages : use1[q] = use[q] \/ use1[q] = Below(use, d, k)

\* It is where a virtual page of A belongs.
LEMMA OneNodePlaced ==
    ASSUME NEW use, NEW use1, NEW d, NEW k, OneNode(use, use1, d, k), NEW A, Belongs(use, d, k, A)
    PROVE  Placed(use, use1, use[d].tree, A)
BY DEF OneNode, Below, Belongs, Placed

(***************************************************************************)
(* A new page below entry k of the table d of the copy.                    *)
(***************************************************************************)
NewDone(m, use, m1, use1, n1, d, k, flags) ==
    /\ Heap(m1, use1, n1)
    /\ Ext(m, use, m1, use1, {d}, {})
    /\ OneNode(use, use1, d, k)
    /\ m.free_list = 0 => m1.stuck
    /\ m.free_list # 0 =>
          /\ ~m1.stuck
          /\ m.free_list \in ManagedPages /\ use[m.free_list].lv = FREE
          /\ use1[m.free_list] = Below(use, d, k) /\ use1[d] = use[d]
          /\ m1.ram[m.free_list] = ZeroPage
          /\ m1.ram[d][k] = PaToPte(m.free_list, flags)
          /\ \A j \in Slots \ {k} : m1.ram[d][j] = m.ram[d][j]

\* The new page is linked below entry k of d, or there is none.
LEMMA NewBelowHeap ==
    ASSUME NEW m, NEW use, NEW n, Heap(m, use, n), ~m.stuck,
           NEW d \in ManagedPages, use[d].lv > 0, NEW k \in Slots, ~Valid(m.ram[d][k]),
           NEW pte, Flags(pte) \in SUBSET PteFlags, Valid(pte),
           use[d].lv > 1 => Flags(pte) = {"V"},
           use[d].lv = 1 => use[d].tree # root_page_table /\ {"R", "A", "D"} \subseteq Flags(pte)
    PROVE  \E use1, n1 : NewDone(m, use, NewBelow(m, d, k, pte), use1, n1, d, k, Flags(pte))
<1> DEFINE h  == m.free_list
           fl == Flags(pte)
           m1 == SetWord(AllocPage(m), d, k, PaToPte(h, fl))
           u1 == [use EXCEPT ![h] = Below(use, d, k)]
<1>1. NewBelow(m, d, k, pte) = m1 /\ fl \in SUBSET PteFlags /\ "V" \in fl
  BY DEF NewBelow, Valid
<1>2. CASE h = 0
  <2>1. m1 = AllocPage(m)
    BY <1>2, HeapOutOfMemory DEF SetWord
  <2>2. Heap(m1, use, n) /\ m1.stuck /\ m1.ram = m.ram
    BY <1>2, <2>1, HeapOutOfMemory
  <2> HIDE DEF m1
  <2>3. NewDone(m, use, m1, use, n, d, k, Flags(pte))
    BY <1>2, <2>2 DEF NewDone, Ext, OneNode
  <2> QED
    BY <1>1, <2>3
<1>3. CASE h # 0
  <2> HIDE DEF fl
  <2>1. /\ use[d].lv > 1 => fl = {"V"}
        /\ use[d].lv = 1 => use[d].tree # root_page_table /\ {"R", "A", "D"} \subseteq fl
    BY DEF fl
  <2>2. /\ h \in ManagedPages /\ use[h].lv = FREE /\ h # d
        /\ Heap(m1, u1, n - 1) /\ ~m1.stuck
        /\ m1.ram[h] = ZeroPage
        /\ m1.ram[d][k] = PaToPte(h, fl)
        /\ \A j \in Slots \ {k} : m1.ram[d][j] = m.ram[d][j]
        /\ \A q \in RamPages \ {d, h} : m1.ram[q] = m.ram[q]
    BY <1>1, <1>3, <2>1, HeapNew
  <2>3. u1[h] = Below(use, d, k) /\ \A q \in ManagedPages \ {h} : u1[q] = use[q]
    BY <2>2 DEF Heap
  <2> HIDE DEF m1, u1
  <2>4. u1[h].lv \in {0, 1, 2}
    BY <2>3 DEF Below, Heap, Use
  <2>5. Ext(m, use, m1, u1, {d}, {})
    BY <2>2, <2>3, <2>4 DEF Ext, FREE
  <2>6. NewDone(m, use, m1, u1, n - 1, d, k, fl)
    BY <1>3, <2>2, <2>3, <2>5 DEF NewDone, OneNode
  <2> QED
    BY <1>1, <2>6 DEF fl
<1> QED
  BY <1>2, <1>3

(***************************************************************************)
(* One leaf (mmu.c:177).                                                   *)
(***************************************************************************)
CopyLeafDone(m, use, m2, use2, n2, d, k, pte, c, A) ==
    /\ Heap(m2, use2, n2)
    /\ Ext(m, use, m2, use2, {d}, {})
    /\ Placed(use, use2, c, A)
    /\ ~m2.stuck => /\ \A j \in Slots \ {k} : m2.ram[d][j] = m.ram[d][j]
                    /\ SameLeaf(m, pte, m2, m2.ram[d][k])

\* Copying one leaf copies its page.
LEMMA CopyLeafHeap ==
    ASSUME NEW m, NEW use, NEW n, Heap(m, use, n), ~m.stuck,
           NEW d, TaskTable(use, d, 1), NEW k \in Slots, ~Valid(m.ram[d][k]),
           NEW pte, Flags(pte) \in SUBSET PteFlags, LeafRef(use, pte),
           NEW c, use[d].tree = c, NEW A, Valid(pte) => Belongs(use, d, k, A)
    PROVE  \E use2, n2 : CopyLeafDone(m, use, CopyLeaf(m, d, k, pte), use2, n2, d, k, pte, c, A)
<1> DEFINE m1 == NewBelow(m, d, k, pte)
           h  == m.free_list
           q  == PteToPa(pte)
           m2 == CopyLeaf(m, d, k, pte)
<1>1. CASE ~Valid(pte)
  <2>1. m2 = m
    BY <1>1 DEF CopyLeaf
  <2>2. CopyLeafDone(m, use, m, use, n, d, k, pte, c, A)
    BY <1>1, ExtSame, PlacedSame DEF CopyLeafDone, SameLeaf
  <2> QED
    BY <2>1, <2>2
<1>2. CASE Valid(pte)
  <2>1. m2 = CopyData(m1, q, h)
    BY <1>2 DEF CopyLeaf
  <2>2. PICK u1, n1 : NewDone(m, use, m1, u1, n1, d, k, Flags(pte))
    <3>1. /\ use[d].lv > 1 => Flags(pte) = {"V"}
          /\ use[d].lv = 1 => use[d].tree # root_page_table /\ {"R", "A", "D"} \subseteq Flags(pte)
          /\ d \in ManagedPages /\ use[d].lv > 0
      BY <1>2 DEF TaskTable, LeafRef
    <3> QED
      BY <1>2, <3>1, NewBelowHeap
  <2> HIDE DEF m1
  <2>3. Heap(m1, u1, n1) /\ Ext(m, use, m1, u1, {d}, {}) /\ Placed(use, u1, c, A)
    BY <1>2, <2>2, OneNodePlaced DEF NewDone
  <2>4. CASE m1.stuck
    <3>1. m2 = m1
      BY <2>1, <2>4 DEF CopyData
    <3>2. CopyLeafDone(m, use, m1, u1, n1, d, k, pte, c, A)
      BY <2>3, <2>4 DEF CopyLeafDone
    <3> QED
      BY <3>1, <3>2
  <2>5. CASE ~m1.stuck
    <3>1. /\ h \in ManagedPages /\ use[h].lv = FREE /\ u1[h] = Below(use, d, k)
          /\ m1.ram[d][k] = PaToPte(h, Flags(pte))
          /\ \A j \in Slots \ {k} : m1.ram[d][j] = m.ram[d][j]
      BY <2>2, <2>5 DEF NewDone
    <3>2. q \in RamPages /\ (q \in ManagedPages => use[q].lv = 0) /\ d \in RamPages /\ d \in ManagedPages
      BY <1>2, PageFacts DEF LeafRef, TaskTable
    <3>3. q # d /\ q # h /\ d # h
      BY <3>1, <3>2 DEF TaskTable, FREE
    <3>4. u1[h].lv = 0
      BY <3>1 DEF Below, TaskTable
    <3> HIDE DEF h, q, m2
    <3>5. /\ m2 \in Mem /\ m2.free_list = m1.free_list /\ ~m2.stuck
          /\ m2.ram[h] = m1.ram[q]
          /\ \A p \in RamPages \ {h} : m2.ram[p] = m1.ram[p]
      <4>1. m1 \in Mem /\ h \in RamPages
        BY <2>3, <3>1, PageFacts DEF Heap
      <4> QED
        BY <2>1, <2>5, <3>2, <4>1, CopyDataFacts
    <3>6. Heap(m2, u1, n1)
      <4>1. m2.stuck = m1.stuck
        BY <2>3, <2>5, <3>5 DEF Heap, Mem
      <4>2. u1[h].lv \in {LIMBO, 0}
        BY <3>4
      <4> QED
        BY <2>3, <3>1, <3>5, <4>1, <4>2, HeapWrite
    <3>7. Ext(m, use, m2, u1, {d}, {})
      BY <2>3, <3>1, <3>5 DEF Ext
    <3>8. m1.ram[q] = m.ram[q]
      BY <2>3, <3>2, <3>3 DEF Ext, FREE
    <3>9. m2.ram[d] = m1.ram[d]
      BY <3>2, <3>3, <3>5
    <3>10. SameLeaf(m, pte, m2, m2.ram[d][k])
      BY <1>2, <3>1, <3>5, <3>8, <3>9 DEF SameLeaf, PaToPte, PteToPa, Flags, Valid, q
    <3>11. CopyLeafDone(m, use, m2, u1, n1, d, k, pte, c, A)
      BY <2>3, <3>1, <3>6, <3>7, <3>9, <3>10 DEF CopyLeafDone
    <3> QED
      BY <3>11 DEF m2
  <2> QED
    BY <2>4, <2>5
<1> QED
  BY <1>1, <1>2


(***************************************************************************)
(* A table of the last level (mmu.c:176): the entries below k of its copy  *)
(* d are copies of those of t, the others are still free.                  *)
(***************************************************************************)
LeafRound(m, use, m2, use2, n2, t, d, k, c, A) ==
    /\ Heap(m2, use2, n2)
    /\ Ext(m, use, m2, use2, {d}, {})
    /\ Placed(use, use2, c, A)
    /\ ~m2.stuck =>
          /\ ~m.stuck
          /\ \A j \in Slots : IF j < k THEN SameLeaf(m, m.ram[t][j], m2, m2.ram[d][j])
                              ELSE ~Valid(m2.ram[d][j])

\* One round of the innermost loop.
LEMMA LeafStep ==
    ASSUME NEW m1, NEW u1, NEW n1, Heap(m1, u1, n1),
           NEW t, TaskTable(u1, t, 1), NEW e, TaskTable(u1, e, 1),
           u1[t].tree # u1[e].tree,
           u1[t].pos = u1[e].pos, NEW c, u1[e].tree = c, NEW A, Covered(m1, u1, u1[t].tree, A),
           NEW a, NEW ua, NEW na, NEW k \in Slots, ~a.stuck,
           LeafRound(m1, u1, a, ua, na, t, e, k, c, A)
    PROVE  \E ub, nb : LeafRound(m1, u1, CopyLeaf(a, e, k, a.ram[t][k]), ub, nb, t, e, k + 1, c, A)
<1> DEFINE w == m1.ram[t][k]
           b == CopyLeaf(a, e, k, w)
<1>1. /\ Heap(a, ua, na) /\ Ext(m1, u1, a, ua, {e}, {}) /\ ~Valid(a.ram[e][k])
      /\ Placed(u1, ua, c, A)
  BY DEF LeafRound, Slots
<1>2. t \in ManagedPages /\ e \in ManagedPages /\ t # e /\ u1[t].lv = 1 /\ u1[e].lv = 1
  BY DEF TaskTable
<1>3. ua[t] = u1[t] /\ ua[e] = u1[e] /\ a.ram[t] = m1.ram[t]
  BY <1>1, <1>2, PageFacts DEF Ext, FREE
<1>4. LeafRef(u1, w) /\ LeafRef(ua, w) 
  <2>1. LeafRef(u1, w)
    BY <1>2, TaskEntries
  <2>2. LeafRef(ua, w)
    BY <1>1, <2>1 DEF LeafRef, Ext, FREE
  <2> QED
    BY <2>1, <2>2
<1>5. TaskTable(ua, e, 1)
  BY <1>3 DEF TaskTable
<1>6. w \in Word /\ Flags(w) \in SUBSET PteFlags
  BY <1>2, TaskEntries, WordFacts
<1>7. Valid(w) => Belongs(ua, e, k, A)
  BY <1>2, <1>3 DEF Covered, TablesOf, Belongs, w
<1>8. PICK ub, nb : CopyLeafDone(a, ua, b, ub, nb, e, k, w, c, A)
  <2>1. ua[e].tree = c
    BY <1>3
  <2> HIDE DEF w, b
  <2>2. PICK ub, nb : CopyLeafDone(a, ua, CopyLeaf(a, e, k, w), ub, nb, e, k, w, c, A)
    BY <1>1, <1>4, <1>5, <1>6, <1>7, <2>1, CopyLeafHeap
  <2> QED
    BY <2>2 DEF b
<1> HIDE DEF b
<1>9. /\ Heap(b, ub, nb) /\ Ext(a, ua, b, ub, {e}, {})
      /\ ~b.stuck => /\ \A j \in Slots \ {k} : b.ram[e][j] = a.ram[e][j]
                     /\ SameLeaf(a, w, b, b.ram[e][k])
  BY <1>8 DEF CopyLeafDone
<1>10. Ext(m1, u1, b, ub, {e}, {}) /\ Placed(u1, ub, c, A)
  <2>1. Placed(ua, ub, c, A)
    BY <1>8 DEF CopyLeafDone
  <2> QED
    BY <1>1, <1>9, <2>1, ExtTrans, PlacedTrans
<1>11. ASSUME NEW j \in Slots, j < k, ~b.stuck
       PROVE  SameLeaf(m1, m1.ram[t][j], b, b.ram[e][j])
  <2>1. SameLeaf(m1, m1.ram[t][j], a, a.ram[e][j]) /\ b.ram[e][j] = a.ram[e][j]
    BY <1>9, <1>11 DEF LeafRound, Slots
  <2> DEFINE w2 == a.ram[e][j]
             w1 == m1.ram[t][j]
  <2>2. LeafRef(ua, w2) /\ \A p \in {e} : p \in ManagedPages /\ ua[p].lv > 1 - 1
    BY <1>1, <1>2, <1>3, <1>5, TaskEntries
  <2>3. SameLeaf(m1, w1, a, w2) /\ b.ram[e][j] = w2
    BY <2>1
  <2> HIDE DEF w2, w1
  <2>4. SameLeaf(m1, w1, b, w2)
    BY <1>1, <1>9, <2>2, <2>3, SameLeafLater
  <2> QED
    BY <2>3, <2>4 DEF w1
<1>12. ASSUME ~b.stuck
       PROVE  SameLeaf(m1, w, b, b.ram[e][k])
  <2>1. SameLeaf(a, w, b, b.ram[e][k])
    BY <1>9, <1>12
  <2> DEFINE g == u1[t].tree
  <2>2. Apart(u1, {e}, g) 
    BY <1>2, <1>4 DEF Apart
  <2> HIDE DEF g
  <2> QED
    BY <1>1, <1>4, <2>1, <2>2, SameLeafEarlier
<1>13. ASSUME NEW j \in Slots, ~(j < k), j # k, ~b.stuck
       PROVE  ~Valid(b.ram[e][j])
  BY <1>9, <1>13 DEF LeafRound
<1>14. LeafRound(m1, u1, b, ub, nb, t, e, k + 1, c, A)
  <2>1. \A j \in Slots : j < k + 1 => j < k \/ j = k
    BY PageFacts DEF Slots
  <2>2. \A j \in Slots : ~(j < k + 1) => ~(j < k) /\ j # k
    BY PageFacts
  <2> QED
    BY <1>9, <1>10, <1>11, <1>12, <1>13, <2>1, <2>2 DEF LeafRound, w
<1> QED
  BY <1>3, <1>14 DEF b, w

\* The table that entry pte points to is one of tree s, and is to be copied to
\* the same place of another tree.
CopiesAt(use, d, i, pte, s, A) ==
    Valid(pte) => /\ use[PteToPa(pte)].tree = s
                  /\ use[PteToPa(pte)].pos = Spell(use[d].pos, i)
                  /\ Belongs(use, d, i, A)

CopyLeafTableDone(m, use, m2, use2, n2, d, i, pte, c, A) ==
    /\ Heap(m2, use2, n2)
    /\ Ext(m, use, m2, use2, {d}, {})
    /\ Placed(use, use2, c, A)
    /\ ~m2.stuck => /\ \A j \in Slots \ {i} : m2.ram[d][j] = m.ram[d][j]
                    /\ SameTable(m, pte, m2, m2.ram[d][i])

\* Copying a last table copies every leaf of it.
LEMMA CopyLeafTableHeap ==
    ASSUME NEW m, NEW use, NEW n, Heap(m, use, n), ~m.stuck,
           NEW d, TaskTable(use, d, 2), NEW i \in Slots, ~Valid(m.ram[d][i]),
           NEW pte, TableRef(use, pte, 1),
           NEW c, use[d].tree = c, NEW A, NEW s, s # c, Covered(m, use, s, A),
           CopiesAt(use, d, i, pte, s, A)
    PROVE  \E use2, n2 :
              CopyLeafTableDone(m, use, CopyLeafTable(m, d, i, pte), use2, n2, d, i, pte, c, A)
<1>0. ENTRIES \in Nat /\ 0 .. ENTRIES - 1 = Slots
  BY PageTablesAssumption DEF Slots
<1>1. CASE ~Valid(pte)
  <2>1. CopyLeafTable(m, d, i, pte) = m
    BY <1>1 DEF CopyLeafTable
  <2>2. CopyLeafTableDone(m, use, m, use, n, d, i, pte, c, A)
    BY <1>1, ExtSame, PlacedSame DEF CopyLeafTableDone, SameTable
  <2> QED
    BY <2>1, <2>2
<1>2. CASE Valid(pte)
  <2> DEFINE t == PteToPa(pte)
             e == m.free_list
  <2>1. PICK acc : /\ acc[0] = NewBelow(m, d, i, pte)
                   /\ \A k \in 0 .. ENTRIES - 1 :
                         acc[k + 1] = IF acc[k].stuck THEN acc[k]
                                      ELSE CopyLeaf(acc[k], e, k, acc[k].ram[t][k])
                   /\ CopyLeafTable(m, d, i, pte) = acc[ENTRIES]
    BY <1>2, CopyLeafTableRun
  <2> DEFINE m1 == acc[0]
  <2>2. /\ Flags(pte) = {"V"} /\ TaskTable(use, t, 1) /\ use[t].tree # use[d].tree
        /\ d \in ManagedPages /\ use[d].lv = 2 /\ use[d].tree # root_page_table
    BY <1>2 DEF TableRef, TaskTable, CopiesAt
  <2>3. use[t].tree = s /\ use[t].pos = Spell(use[d].pos, i) /\ Belongs(use, d, i, A)
    BY <1>2 DEF CopiesAt
  <2>4. PICK u1, n1 : NewDone(m, use, m1, u1, n1, d, i, Flags(pte))
    <3> HIDE DEF t, e, m1
    <3>1. /\ Flags(pte) \in SUBSET PteFlags /\ use[d].lv > 0
          /\ use[d].lv > 1 => Flags(pte) = {"V"}
          /\ use[d].lv = 1 => use[d].tree # root_page_table /\ {"R", "A", "D"} \subseteq Flags(pte)
      BY <2>2 DEF PteFlags
    <3>2. PICK u1, n1 : NewDone(m, use, NewBelow(m, d, i, pte), u1, n1, d, i, Flags(pte))
      BY <1>2, <2>2, <3>1, NewBelowHeap
    <3> QED
      BY <2>1, <3>2 DEF m1
  <2> HIDE DEF t, e
  <2>5. Heap(m1, u1, n1) /\ Ext(m, use, m1, u1, {d}, {})
    BY <2>4 DEF NewDone
  <2>6. ~m1.stuck => /\ e \in ManagedPages /\ use[e].lv = FREE /\ u1[e] = Below(use, d, i)
                     /\ m1.ram[e] = ZeroPage /\ m1.ram[d][i] = PaToPte(e, {"V"})
                     /\ \A j \in Slots \ {i} : m1.ram[d][j] = m.ram[d][j]
    BY <2>2, <2>4 DEF NewDone, e
  <2>7. TaskTable(u1, t, 1) /\ u1[t] = use[t]
    BY <2>2, <2>5 DEF TaskTable, Ext, FREE
  <2>8. Placed(use, u1, c, A) /\ Covered(m1, u1, u1[t].tree, A)
    <3>1. Placed(use, u1, c, A)
      BY <2>4, <2>3, OneNodePlaced DEF NewDone
    <3>2. Apart(use, {d}, s) /\ u1 \in [ManagedPages -> Use]
      BY <2>2, <2>5, <2>3 DEF Apart, Heap
    <3>3. Covered(m1, u1, s, A)
      BY <2>5, <3>1, <3>2, CoveredLater
    <3> QED
      BY <2>7, <2>3, <3>1, <3>3
  <2>9. ~m1.stuck => TaskTable(u1, e, 1) /\ u1[t].tree # u1[e].tree
    BY <2>2, <2>6, <2>7 DEF TaskTable, Below
  <2> DEFINE S == {k \in 0 .. ENTRIES :
                        \E u2, n2 : LeafRound(m1, u1, acc[k], u2, n2, t, e, k, c, A)}
  <2>10. 0 \in S
    <3>1. ASSUME ~m1.stuck, NEW j \in Slots
          PROVE  ~(j < 0) /\ ~Valid(m1.ram[e][j])
      <4> HIDE DEF m1
      <4>1. m1.ram[e] = ZeroPage
        BY <2>6, <3>1
      <4>2. ~Valid(ZeroPage[j])
        BY ZeroPageFacts
      <4>3. ~(j < 0)
        BY <1>0
      <4> QED
        BY <4>1, <4>2, <4>3
    <3>2. Ext(m1, u1, m1, u1, {e}, {})
      BY ExtSame
    <3>3. LeafRound(m1, u1, m1, u1, n1, t, e, 0, c, A)
      <4> HIDE DEF m1
      <4> QED
        BY <2>5, <3>1, <3>2, PlacedSame DEF LeafRound
    <3> QED
      BY <1>0, <3>3
  <2>11. ASSUME NEW k \in 0 .. ENTRIES - 1, k \in S
         PROVE  k + 1 \in S
    <3>1. PICK ua, na : LeafRound(m1, u1, acc[k], ua, na, t, e, k, c, A)
      BY <2>11
    <3>2. CASE acc[k].stuck
      <4>1. acc[k + 1] = acc[k]
        BY <2>1, <3>2
      <4>2. LeafRound(m1, u1, acc[k + 1], ua, na, t, e, k + 1, c, A)
        BY <3>1, <3>2, <4>1 DEF LeafRound
      <4> QED
        BY <1>0, <4>2
    <3>3. CASE ~acc[k].stuck
      <4>1. ~m1.stuck
        BY <3>1, <3>3 DEF LeafRound
      <4>2. acc[k + 1] = CopyLeaf(acc[k], e, k, acc[k].ram[t][k])
        BY <2>1, <3>3
      <4>3. k \in Slots /\ TaskTable(u1, e, 1) /\ u1[t].tree # u1[e].tree
        BY <1>0, <2>9, <4>1
      <4> HIDE DEF m1
      <4>4. u1[e].tree = c /\ u1[t].pos = u1[e].pos
        BY <2>6, <2>7, <2>3, <4>1 DEF Below
      <4>5. PICK ub, nb : LeafRound(m1, u1, acc[k + 1], ub, nb, t, e, k + 1, c, A)
        BY <2>5, <2>7, <2>8, <3>1, <3>3, <4>2, <4>3, <4>4, LeafStep
      <4> QED
        BY <1>0, <4>5
    <3> QED
      BY <3>2, <3>3
  <2>12. ENTRIES \in S
    <3> HIDE DEF S
    <3> QED
      BY <1>0, <2>10, <2>11, Induct
  <2> DEFINE m2 == acc[ENTRIES]
  <2>13. PICK u2, n2 : LeafRound(m1, u1, m2, u2, n2, t, e, ENTRIES, c, A)
    BY <2>12
  <2> HIDE DEF m1, m2, S
  <2>14. Heap(m2, u2, n2) /\ Ext(m1, u1, m2, u2, {e}, {})
    BY <2>13 DEF LeafRound
  <2>15. Ext(m, use, m2, u2, {d}, {})
    <3>1. CASE e = 0
      <4>1. Ext(m1, u1, m2, u2, {}, {})
        BY <2>14, <3>1, PageFacts DEF Ext
      <4> QED
        BY <2>5, <4>1, ExtTrans
    <3>2. CASE e # 0
      <4>1. e \in ManagedPages /\ use[e].lv = FREE
        BY <2>4, <3>2 DEF NewDone, e
      <4> QED
        BY <2>5, <2>14, <4>1, ExtTrans
    <3> QED
      BY <3>1, <3>2
  <2>16. ASSUME ~m2.stuck
         PROVE  /\ \A j \in Slots \ {i} : m2.ram[d][j] = m.ram[d][j]
                /\ SameTable(m, pte, m2, m2.ram[d][i])
    <3>1. ~m1.stuck /\ \A j \in Slots : SameLeaf(m1, m1.ram[t][j], m2, m2.ram[e][j])
      BY <1>0, <2>13, <2>16 DEF LeafRound, Slots
    <3>2. m2.ram[d] = m1.ram[d]
      <4>1. d # e /\ u1[d] = use[d]
        BY <2>2, <2>4, <2>6, <3>1 DEF FREE, Ext, NewDone
      <4> QED
        BY <2>2, <2>14, <4>1, PageFacts DEF Ext, FREE
    <3>3. /\ m2.ram[d][i] = PaToPte(e, {"V"})
          /\ \A j \in Slots \ {i} : m2.ram[d][j] = m.ram[d][j]
      BY <2>6, <3>1, <3>2
    <3>4. Valid(m2.ram[d][i]) /\ PteToPa(m2.ram[d][i]) = e
      BY <3>3 DEF Valid, Flags, PaToPte, PteToPa
    <3> DEFINE w2 == m2.ram[d][i]
               g == use[t].tree
    <3>5. SameTable(m1, pte, m2, w2)
      BY <1>2, <3>1, <3>4 DEF SameTable, t
    <3>6. Apart(use, {d}, g) /\ (Valid(pte) => use[PteToPa(pte)].tree = g)
      BY <2>2 DEF Apart, t
    <3> HIDE DEF w2, g
    <3>7. SameTable(m, pte, m2, w2)
      BY <2>5, <3>5, <3>6, SameTableEarlier
    <3> QED
      BY <3>3, <3>7 DEF w2
  <2>17. Placed(use, u2, c, A)
    BY <2>13, <2>8, PlacedTrans DEF LeafRound
  <2>18. CopyLeafTableDone(m, use, m2, u2, n2, d, i, pte, c, A)
    BY <2>14, <2>15, <2>16, <2>17 DEF CopyLeafTableDone
  <2> QED
    BY <2>1, <2>18 DEF m2
<1> QED
  BY <1>1, <1>2

(***************************************************************************)
(* A table of the middle level (mmu.c:170).                                *)
(***************************************************************************)
TableRound(m, use, m2, use2, n2, t, d, k, c, A) ==
    /\ Heap(m2, use2, n2)
    /\ Ext(m, use, m2, use2, {d}, {})
    /\ Placed(use, use2, c, A)
    /\ ~m2.stuck =>
          /\ ~m.stuck
          /\ \A j \in Slots : IF j < k THEN SameTable(m, m.ram[t][j], m2, m2.ram[d][j])
                              ELSE ~Valid(m2.ram[d][j])

\* One round of the middle loop.
LEMMA TableStep ==
    ASSUME NEW m1, NEW u1, NEW n1, Heap(m1, u1, n1),
           NEW t, TaskTable(u1, t, 2), NEW e, TaskTable(u1, e, 2),
           u1[t].tree # u1[e].tree,
           u1[t].pos = u1[e].pos, NEW c, u1[e].tree = c, NEW A, Covered(m1, u1, u1[t].tree, A),
           NEW a, NEW ua, NEW na, NEW k \in Slots, ~a.stuck,
           TableRound(m1, u1, a, ua, na, t, e, k, c, A)
    PROVE  \E ub, nb :
              TableRound(m1, u1, CopyLeafTable(a, e, k, a.ram[t][k]), ub, nb, t, e, k + 1, c, A)
<1> DEFINE w == m1.ram[t][k]
           b == CopyLeafTable(a, e, k, w)
<1>1. /\ Heap(a, ua, na) /\ Ext(m1, u1, a, ua, {e}, {}) /\ ~Valid(a.ram[e][k])
      /\ Placed(u1, ua, c, A)
  BY DEF TableRound, Slots
<1>2. t \in ManagedPages /\ e \in ManagedPages /\ t # e /\ u1[t].lv = 2 /\ u1[e].lv = 2
  BY DEF TaskTable
<1>3. ua[t] = u1[t] /\ ua[e] = u1[e] /\ a.ram[t] = m1.ram[t]
  BY <1>1, <1>2, PageFacts DEF Ext, FREE
<1>4. TableRef(u1, w, 1) /\ TableRef(ua, w, 1) /\ (Valid(w) => u1[PteToPa(w)].tree = u1[t].tree /\ ua[PteToPa(w)].tree # ua[e].tree)
  <2>1. TableRef(u1, w, 1) /\ (Valid(w) => u1[PteToPa(w)].tree = u1[t].tree)
    BY <1>2, TaskEntries DEF Target
  <2>2. Valid(w) => ua[PteToPa(w)] = u1[PteToPa(w)]
    BY <1>1, <2>1 DEF TableRef, TaskTable, Ext, FREE
  <2>3. TableRef(ua, w, 1)
    BY <2>1, <2>2 DEF TableRef, TaskTable
  <2> QED
    BY <1>3, <2>1, <2>2, <2>3
<1>5. TaskTable(ua, e, 2)
  BY <1>3 DEF TaskTable
<1>6. w \in Word /\ Flags(w) \in SUBSET PteFlags
  BY <1>2, TaskEntries, WordFacts
<1>7. Covered(a, ua, u1[t].tree, A) /\ ua[e].tree = c
  <2>1. ua \in [ManagedPages -> Use]
    BY <1>1 DEF Heap
  <2>2. Apart(u1, {e}, u1[t].tree)
    BY <1>2 DEF Apart
  <2> QED
    BY <1>1, <1>3, <2>1, <2>2, CoveredLater
<1>8. CopiesAt(ua, e, k, w, u1[t].tree, A)
  <2> SUFFICES ASSUME Valid(w)
               PROVE  /\ ua[PteToPa(w)].tree = u1[t].tree
                      /\ ua[PteToPa(w)].pos = Spell(ua[e].pos, k)
                      /\ Belongs(ua, e, k, A)
    BY DEF CopiesAt
  <2>1. u1[PteToPa(w)] = Below(u1, t, k)
    BY <1>2 DEF Heap, EntriesOK, EntryOK, IsBelow
  <2>2. ua[PteToPa(w)] = u1[PteToPa(w)]
    BY <1>1, <1>4 DEF TableRef, TaskTable, Ext, FREE
  <2>3. Belongs(u1, t, k, A)
    BY <1>2 DEF Covered, TablesOf
  <2> QED
    BY <1>2, <1>3, <2>1, <2>2, <2>3 DEF Below, Belongs
<1> HIDE DEF w
<1>9. PICK ub, nb : CopyLeafTableDone(a, ua, b, ub, nb, e, k, w, c, A)
  <2> DEFINE s == u1[t].tree
  <2>1. s # c /\ Covered(a, ua, s, A) /\ CopiesAt(ua, e, k, w, s, A) /\ ua[e].tree = c
    BY <1>7, <1>8
  <2> HIDE DEF s, b
  <2>2. PICK ub, nb : CopyLeafTableDone(a, ua, CopyLeafTable(a, e, k, w), ub, nb, e, k, w, c, A)
    BY <1>1, <1>4, <1>5, <1>6, <2>1, CopyLeafTableHeap
  <2> QED
    BY <2>2 DEF b
<1> HIDE DEF b
<1>10. /\ Heap(b, ub, nb) /\ Ext(a, ua, b, ub, {e}, {})
       /\ ~b.stuck => /\ \A j \in Slots \ {k} : b.ram[e][j] = a.ram[e][j]
                      /\ SameTable(a, w, b, b.ram[e][k])
  BY <1>9 DEF CopyLeafTableDone
<1>11. Ext(m1, u1, b, ub, {e}, {}) /\ Placed(u1, ub, c, A)
  <2>1. Placed(ua, ub, c, A)
    BY <1>9 DEF CopyLeafTableDone
  <2> QED
    BY <1>1, <1>10, <2>1, ExtTrans, PlacedTrans
<1>12. ASSUME NEW j \in Slots, j < k, ~b.stuck
       PROVE  SameTable(m1, m1.ram[t][j], b, b.ram[e][j])
  <2>1. SameTable(m1, m1.ram[t][j], a, a.ram[e][j]) /\ b.ram[e][j] = a.ram[e][j]
    BY <1>10, <1>12 DEF TableRound, Slots
  <2> DEFINE w2 == a.ram[e][j]
             w1 == m1.ram[t][j]
  <2>2. TableRef(ua, w2, 1) /\ \A p \in {e} : p \in ManagedPages /\ ua[p].lv > 2 - 1
    BY <1>1, <1>2, <1>3, <1>5, TaskEntries
  <2>3. SameTable(m1, w1, a, w2) /\ b.ram[e][j] = w2
    BY <2>1
  <2> HIDE DEF w2, w1
  <2>4. SameTable(m1, w1, b, w2)
    BY <1>1, <1>10, <2>2, <2>3, SameTableLater
  <2> QED
    BY <2>3, <2>4 DEF w1
<1>13. ASSUME ~b.stuck
       PROVE  SameTable(m1, w, b, b.ram[e][k])
  <2>1. SameTable(a, w, b, b.ram[e][k])
    BY <1>10, <1>13
  <2> DEFINE g == u1[t].tree
  <2>2. Apart(u1, {e}, g) /\ (Valid(w) => u1[PteToPa(w)].tree = g)
    BY <1>2, <1>4 DEF Apart
  <2> HIDE DEF g
  <2> QED
    BY <1>1, <1>4, <2>1, <2>2, SameTableEarlier
<1>14. ASSUME NEW j \in Slots, ~(j < k), j # k, ~b.stuck
       PROVE  ~Valid(b.ram[e][j])
  BY <1>10, <1>14 DEF TableRound
<1>15. TableRound(m1, u1, b, ub, nb, t, e, k + 1, c, A)
  <2>1. \A j \in Slots : j < k + 1 => j < k \/ j = k
    BY PageFacts DEF Slots
  <2>2. \A j \in Slots : ~(j < k + 1) => ~(j < k) /\ j # k
    BY PageFacts
  <2> QED
    BY <1>10, <1>11, <1>12, <1>13, <1>14, <2>1, <2>2 DEF TableRound, w
<1> QED
  BY <1>3, <1>15 DEF b, w

CopyPmdDone(m, use, m2, use2, n2, d, i, pte, c, A) ==
    /\ Heap(m2, use2, n2)
    /\ Ext(m, use, m2, use2, {d}, {})
    /\ Placed(use, use2, c, A)
    /\ ~m2.stuck => /\ \A j \in Slots \ {i} : m2.ram[d][j] = m.ram[d][j]
                    /\ SamePmd(m, pte, m2, m2.ram[d][i])

\* Copying a middle table copies everything below it.
LEMMA CopyPmdHeap ==
    ASSUME NEW m, NEW use, NEW n, Heap(m, use, n), ~m.stuck,
           NEW d, TaskTable(use, d, 3), NEW i \in Slots, ~Valid(m.ram[d][i]),
           NEW pte, TableRef(use, pte, 2),
           NEW c, use[d].tree = c, NEW A, NEW s, s # c, Covered(m, use, s, A),
           CopiesAt(use, d, i, pte, s, A)
    PROVE  \E use2, n2 : CopyPmdDone(m, use, CopyPmd(m, d, i, pte), use2, n2, d, i, pte, c, A)
<1>0. ENTRIES \in Nat /\ 0 .. ENTRIES - 1 = Slots
  BY PageTablesAssumption DEF Slots
<1>1. CASE ~Valid(pte)
  <2>1. CopyPmd(m, d, i, pte) = m
    BY <1>1 DEF CopyPmd
  <2>2. CopyPmdDone(m, use, m, use, n, d, i, pte, c, A)
    BY <1>1, ExtSame, PlacedSame DEF CopyPmdDone, SamePmd
  <2> QED
    BY <2>1, <2>2
<1>2. CASE Valid(pte)
  <2> DEFINE t == PteToPa(pte)
             e == m.free_list
  <2>1. PICK acc : /\ acc[0] = NewBelow(m, d, i, pte)
                   /\ \A k \in 0 .. ENTRIES - 1 :
                         acc[k + 1] = IF acc[k].stuck THEN acc[k]
                                      ELSE CopyLeafTable(acc[k], e, k, acc[k].ram[t][k])
                   /\ CopyPmd(m, d, i, pte) = acc[ENTRIES]
    BY <1>2, CopyPmdRun
  <2> DEFINE m1 == acc[0]
  <2>2. /\ Flags(pte) = {"V"} /\ TaskTable(use, t, 2) /\ use[t].tree # use[d].tree
        /\ d \in ManagedPages /\ use[d].lv = 3 /\ use[d].tree # root_page_table
    BY <1>2 DEF TableRef, TaskTable, CopiesAt
  <2>3. use[t].tree = s /\ use[t].pos = Spell(use[d].pos, i) /\ Belongs(use, d, i, A)
    BY <1>2 DEF CopiesAt
  <2>4. PICK u1, n1 : NewDone(m, use, m1, u1, n1, d, i, Flags(pte))
    <3> HIDE DEF t, e, m1
    <3>1. /\ Flags(pte) \in SUBSET PteFlags /\ use[d].lv > 0
          /\ use[d].lv > 1 => Flags(pte) = {"V"}
          /\ use[d].lv = 1 => use[d].tree # root_page_table /\ {"R", "A", "D"} \subseteq Flags(pte)
      BY <2>2 DEF PteFlags
    <3>2. PICK u1, n1 : NewDone(m, use, NewBelow(m, d, i, pte), u1, n1, d, i, Flags(pte))
      BY <1>2, <2>2, <3>1, NewBelowHeap
    <3> QED
      BY <2>1, <3>2 DEF m1
  <2> HIDE DEF t, e
  <2>5. Heap(m1, u1, n1) /\ Ext(m, use, m1, u1, {d}, {})
    BY <2>4 DEF NewDone
  <2>6. ~m1.stuck => /\ e \in ManagedPages /\ use[e].lv = FREE /\ u1[e] = Below(use, d, i)
                     /\ m1.ram[e] = ZeroPage /\ m1.ram[d][i] = PaToPte(e, {"V"})
                     /\ \A j \in Slots \ {i} : m1.ram[d][j] = m.ram[d][j]
    BY <2>2, <2>4 DEF NewDone, e
  <2>7. TaskTable(u1, t, 2) /\ u1[t] = use[t]
    BY <2>2, <2>5 DEF TaskTable, Ext, FREE
  <2>8. Placed(use, u1, c, A) /\ Covered(m1, u1, u1[t].tree, A)
    <3>1. Placed(use, u1, c, A)
      BY <2>4, <2>3, OneNodePlaced DEF NewDone
    <3>2. Apart(use, {d}, s) /\ u1 \in [ManagedPages -> Use]
      BY <2>2, <2>5, <2>3 DEF Apart, Heap
    <3>3. Covered(m1, u1, s, A)
      BY <2>5, <3>1, <3>2, CoveredLater
    <3> QED
      BY <2>7, <2>3, <3>1, <3>3
  <2>9. ~m1.stuck => TaskTable(u1, e, 2) /\ u1[t].tree # u1[e].tree
    BY <2>2, <2>6, <2>7 DEF TaskTable, Below
  <2> DEFINE S == {k \in 0 .. ENTRIES :
                        \E u2, n2 : TableRound(m1, u1, acc[k], u2, n2, t, e, k, c, A)}
  <2>10. 0 \in S
    <3>1. ASSUME ~m1.stuck, NEW j \in Slots
          PROVE  ~(j < 0) /\ ~Valid(m1.ram[e][j])
      <4> HIDE DEF m1
      <4>1. m1.ram[e] = ZeroPage
        BY <2>6, <3>1
      <4>2. ~Valid(ZeroPage[j])
        BY ZeroPageFacts
      <4>3. ~(j < 0)
        BY <1>0
      <4> QED
        BY <4>1, <4>2, <4>3
    <3>2. Ext(m1, u1, m1, u1, {e}, {})
      BY ExtSame
    <3>3. TableRound(m1, u1, m1, u1, n1, t, e, 0, c, A)
      <4> HIDE DEF m1
      <4> QED
        BY <2>5, <3>1, <3>2, PlacedSame DEF TableRound
    <3> QED
      BY <1>0, <3>3
  <2>11. ASSUME NEW k \in 0 .. ENTRIES - 1, k \in S
         PROVE  k + 1 \in S
    <3>1. PICK ua, na : TableRound(m1, u1, acc[k], ua, na, t, e, k, c, A)
      BY <2>11
    <3>2. CASE acc[k].stuck
      <4>1. acc[k + 1] = acc[k]
        BY <2>1, <3>2
      <4>2. TableRound(m1, u1, acc[k + 1], ua, na, t, e, k + 1, c, A)
        BY <3>1, <3>2, <4>1 DEF TableRound
      <4> QED
        BY <1>0, <4>2
    <3>3. CASE ~acc[k].stuck
      <4>1. ~m1.stuck
        BY <3>1, <3>3 DEF TableRound
      <4>2. acc[k + 1] = CopyLeafTable(acc[k], e, k, acc[k].ram[t][k])
        BY <2>1, <3>3
      <4>3. k \in Slots /\ TaskTable(u1, e, 2) /\ u1[t].tree # u1[e].tree
        BY <1>0, <2>9, <4>1
      <4> HIDE DEF m1
      <4>4. u1[e].tree = c /\ u1[t].pos = u1[e].pos
        BY <2>6, <2>7, <2>3, <4>1 DEF Below
      <4>5. PICK ub, nb : TableRound(m1, u1, acc[k + 1], ub, nb, t, e, k + 1, c, A)
        BY <2>5, <2>7, <2>8, <3>1, <3>3, <4>2, <4>3, <4>4, TableStep
      <4> QED
        BY <1>0, <4>5
    <3> QED
      BY <3>2, <3>3
  <2>12. ENTRIES \in S
    <3> HIDE DEF S
    <3> QED
      BY <1>0, <2>10, <2>11, Induct
  <2> DEFINE m2 == acc[ENTRIES]
  <2>13. PICK u2, n2 : TableRound(m1, u1, m2, u2, n2, t, e, ENTRIES, c, A)
    BY <2>12
  <2> HIDE DEF m1, m2, S
  <2>14. Heap(m2, u2, n2) /\ Ext(m1, u1, m2, u2, {e}, {})
    BY <2>13 DEF TableRound
  <2>15. Ext(m, use, m2, u2, {d}, {})
    <3>1. CASE e = 0
      <4>1. Ext(m1, u1, m2, u2, {}, {})
        BY <2>14, <3>1, PageFacts DEF Ext
      <4> QED
        BY <2>5, <4>1, ExtTrans
    <3>2. CASE e # 0
      <4>1. e \in ManagedPages /\ use[e].lv = FREE
        BY <2>4, <3>2 DEF NewDone, e
      <4> QED
        BY <2>5, <2>14, <4>1, ExtTrans
    <3> QED
      BY <3>1, <3>2
  <2>16. ASSUME ~m2.stuck
         PROVE  /\ \A j \in Slots \ {i} : m2.ram[d][j] = m.ram[d][j]
                /\ SamePmd(m, pte, m2, m2.ram[d][i])
    <3>1. ~m1.stuck /\ \A j \in Slots : SameTable(m1, m1.ram[t][j], m2, m2.ram[e][j])
      BY <1>0, <2>13, <2>16 DEF TableRound, Slots
    <3>2. m2.ram[d] = m1.ram[d]
      <4>1. d # e /\ u1[d] = use[d]
        BY <2>2, <2>4, <2>6, <3>1 DEF FREE, Ext, NewDone
      <4> QED
        BY <2>2, <2>14, <4>1, PageFacts DEF Ext, FREE
    <3>3. /\ m2.ram[d][i] = PaToPte(e, {"V"})
          /\ \A j \in Slots \ {i} : m2.ram[d][j] = m.ram[d][j]
      BY <2>6, <3>1, <3>2
    <3>4. Valid(m2.ram[d][i]) /\ PteToPa(m2.ram[d][i]) = e
      BY <3>3 DEF Valid, Flags, PaToPte, PteToPa
    <3> DEFINE w2 == m2.ram[d][i]
               g == use[t].tree
    <3>5. SamePmd(m1, pte, m2, w2)
      BY <1>2, <3>1, <3>4 DEF SamePmd, t
    <3>6. Apart(use, {d}, g) /\ (Valid(pte) => use[PteToPa(pte)].tree = g)
      BY <2>2 DEF Apart, t
    <3> HIDE DEF w2, g
    <3>7. SamePmd(m, pte, m2, w2)
      BY <2>5, <3>5, <3>6, SamePmdEarlier
    <3> QED
      BY <3>3, <3>7 DEF w2
  <2>17. Placed(use, u2, c, A)
    BY <2>13, <2>8, PlacedTrans DEF TableRound
  <2>18. CopyPmdDone(m, use, m2, u2, n2, d, i, pte, c, A)
    BY <2>14, <2>15, <2>16, <2>17 DEF CopyPmdDone
  <2> QED
    BY <2>1, <2>18 DEF m2
<1> QED
  BY <1>1, <1>2

(***************************************************************************)
(* One entry of the top-level table.  What it shares with the kernel's own *)
(* table is no valid entry.                                                *)
(***************************************************************************)
TopEntry(m, d, i, pte) ==
    IF pte = m.ram[root_page_table][i] THEN SetWord(m, d, i, pte) ELSE CopyPmd(m, d, i, pte)

\* Copying one entry of the top table copies everything below it.
LEMMA TopEntryHeap ==
    ASSUME NEW m, NEW use, NEW n, Heap(m, use, n), ~m.stuck, use[root_page_table].lv = 3,
           NEW d, TaskTable(use, d, 3), NEW i \in Slots, ~Valid(m.ram[d][i]),
           NEW pte \in Word, TableRef(use, pte, 2),
           NEW c, use[d].tree = c, NEW A, NEW s, s # c, Covered(m, use, s, A),
           CopiesAt(use, d, i, pte, s, A)
    PROVE  \E use2, n2 : CopyPmdDone(m, use, TopEntry(m, d, i, pte), use2, n2, d, i, pte, c, A)
<1>1. CASE pte = m.ram[root_page_table][i]
  <2> DEFINE m2 == SetWord(m, d, i, pte)
  <2>1. TopEntry(m, d, i, pte) = m2
    BY <1>1 DEF TopEntry
  <2>2. ~Valid(pte)
    <3> SUFFICES ASSUME Valid(pte) PROVE FALSE
      OBVIOUS
    <3>1. use[PteToPa(pte)].tree # root_page_table
      BY DEF TableRef, TaskTable
    <3>2. use[root_page_table].tree = root_page_table
      BY PageFacts DEF Heap, TopsOK
    <3>3. use[PteToPa(pte)] = Below(use, root_page_table, i)
      BY <1>1, EntryPage, PageFacts DEF Target
    <3> QED
      BY <3>1, <3>2, <3>3 DEF Below
  <2>3. /\ Heap(m2, use, n) /\ ~m2.stuck
        /\ m2.ram[d][i] = pte
        /\ \A j \in Slots \ {i} : m2.ram[d][j] = m.ram[d][j]
        /\ \A q \in RamPages \ {d} : m2.ram[q] = m.ram[q]
    <3>1. d \in ManagedPages /\ use[d].lv > 0
      BY DEF TaskTable
    <3> QED
      BY <2>2, <3>1, HeapEntry
  <2> HIDE DEF m2
  <2>4. CopyPmdDone(m, use, m2, use, n, d, i, pte, c, A)
    BY <2>2, <2>3, PlacedSame DEF CopyPmdDone, Ext, SamePmd
  <2> QED
    BY <2>1, <2>4
<1>2. CASE pte # m.ram[root_page_table][i]
  <2>1. TopEntry(m, d, i, pte) = CopyPmd(m, d, i, pte)
    BY <1>2 DEF TopEntry
  <2>2. PICK use2, n2 : CopyPmdDone(m, use, CopyPmd(m, d, i, pte), use2, n2, d, i, pte, c, A)
    BY CopyPmdHeap
  <2> QED
    BY <2>1, <2>2
<1> QED
  BY <1>1, <1>2

(***************************************************************************)
(* The top-level table (mmu.c:157).                                        *)
(***************************************************************************)
PmdRound(m, use, m2, use2, n2, t, d, k, c, A) ==
    /\ Heap(m2, use2, n2)
    /\ Ext(m, use, m2, use2, {d}, {})
    /\ Placed(use, use2, c, A)
    /\ ~m2.stuck =>
          /\ ~m.stuck
          /\ \A j \in Slots : IF j < k THEN SamePmd(m, m.ram[t][j], m2, m2.ram[d][j])
                              ELSE ~Valid(m2.ram[d][j])

\* One round of the outer loop.
LEMMA PmdStep ==
    ASSUME NEW m1, NEW u1, NEW n1, Heap(m1, u1, n1),
           NEW t, TaskTable(u1, t, 3), NEW e, TaskTable(u1, e, 3),
           u1[t].tree # u1[e].tree, u1[root_page_table].lv = 3,
           u1[t].pos = u1[e].pos, NEW c, u1[e].tree = c, NEW A, Covered(m1, u1, u1[t].tree, A),
           NEW a, NEW ua, NEW na, NEW k \in Slots, ~a.stuck,
           PmdRound(m1, u1, a, ua, na, t, e, k, c, A)
    PROVE  \E ub, nb : PmdRound(m1, u1, TopEntry(a, e, k, a.ram[t][k]), ub, nb, t, e, k + 1, c, A)
<1> DEFINE w == m1.ram[t][k]
           b == TopEntry(a, e, k, w)
<1>1. /\ Heap(a, ua, na) /\ Ext(m1, u1, a, ua, {e}, {}) /\ ~Valid(a.ram[e][k])
      /\ Placed(u1, ua, c, A)
  BY DEF PmdRound, Slots
<1>2. t \in ManagedPages /\ e \in ManagedPages /\ t # e /\ u1[t].lv = 3 /\ u1[e].lv = 3
  BY DEF TaskTable
<1>3. ua[t] = u1[t] /\ ua[e] = u1[e] /\ a.ram[t] = m1.ram[t]
  BY <1>1, <1>2, PageFacts DEF Ext, FREE
<1>4. TableRef(u1, w, 2) /\ TableRef(ua, w, 2) /\ (Valid(w) => u1[PteToPa(w)].tree = u1[t].tree /\ ua[PteToPa(w)].tree # ua[e].tree) /\ ua[root_page_table].lv = 3
  <2>1. TableRef(u1, w, 2) /\ (Valid(w) => u1[PteToPa(w)].tree = u1[t].tree)
    BY <1>2, TaskEntries DEF Target
  <2>2. Valid(w) => ua[PteToPa(w)] = u1[PteToPa(w)]
    BY <1>1, <2>1 DEF TableRef, TaskTable, Ext, FREE
  <2>3. TableRef(ua, w, 2)
    BY <2>1, <2>2 DEF TableRef, TaskTable
  <2>4. ua[root_page_table].lv = 3
    BY <1>1, PageFacts DEF Ext, FREE
  <2> QED
    BY <1>3, <2>1, <2>2, <2>3, <2>4
<1>5. TaskTable(ua, e, 3)
  BY <1>3 DEF TaskTable
<1>6. w \in Word /\ Flags(w) \in SUBSET PteFlags
  BY <1>2, TaskEntries, WordFacts
<1>7. Covered(a, ua, u1[t].tree, A) /\ ua[e].tree = c
  <2>1. ua \in [ManagedPages -> Use]
    BY <1>1 DEF Heap
  <2>2. Apart(u1, {e}, u1[t].tree)
    BY <1>2 DEF Apart
  <2> QED
    BY <1>1, <1>3, <2>1, <2>2, CoveredLater
<1>8. CopiesAt(ua, e, k, w, u1[t].tree, A)
  <2> SUFFICES ASSUME Valid(w)
               PROVE  /\ ua[PteToPa(w)].tree = u1[t].tree
                      /\ ua[PteToPa(w)].pos = Spell(ua[e].pos, k)
                      /\ Belongs(ua, e, k, A)
    BY DEF CopiesAt
  <2>1. u1[PteToPa(w)] = Below(u1, t, k)
    BY <1>2 DEF Heap, EntriesOK, EntryOK, IsBelow
  <2>2. ua[PteToPa(w)] = u1[PteToPa(w)]
    BY <1>1, <1>4 DEF TableRef, TaskTable, Ext, FREE
  <2>3. Belongs(u1, t, k, A)
    BY <1>2 DEF Covered, TablesOf
  <2> QED
    BY <1>2, <1>3, <2>1, <2>2, <2>3 DEF Below, Belongs
<1> HIDE DEF w
<1>9. PICK ub, nb : CopyPmdDone(a, ua, b, ub, nb, e, k, w, c, A)
  <2> DEFINE s == u1[t].tree
  <2>1. s # c /\ Covered(a, ua, s, A) /\ CopiesAt(ua, e, k, w, s, A) /\ ua[e].tree = c
    BY <1>7, <1>8
  <2> HIDE DEF s, b
  <2>2. PICK ub, nb : CopyPmdDone(a, ua, TopEntry(a, e, k, w), ub, nb, e, k, w, c, A)
    BY <1>1, <1>4, <1>5, <1>6, <2>1, TopEntryHeap
  <2> QED
    BY <2>2 DEF b
<1> HIDE DEF b
<1>10. /\ Heap(b, ub, nb) /\ Ext(a, ua, b, ub, {e}, {})
       /\ ~b.stuck => /\ \A j \in Slots \ {k} : b.ram[e][j] = a.ram[e][j]
                      /\ SamePmd(a, w, b, b.ram[e][k])
  BY <1>9 DEF CopyPmdDone
<1>11. Ext(m1, u1, b, ub, {e}, {}) /\ Placed(u1, ub, c, A)
  <2>1. Placed(ua, ub, c, A)
    BY <1>9 DEF CopyPmdDone
  <2> QED
    BY <1>1, <1>10, <2>1, ExtTrans, PlacedTrans
<1>12. ASSUME NEW j \in Slots, j < k, ~b.stuck
       PROVE  SamePmd(m1, m1.ram[t][j], b, b.ram[e][j])
  <2>1. SamePmd(m1, m1.ram[t][j], a, a.ram[e][j]) /\ b.ram[e][j] = a.ram[e][j]
    BY <1>10, <1>12 DEF PmdRound, Slots
  <2> DEFINE w2 == a.ram[e][j]
             w1 == m1.ram[t][j]
  <2>2. TableRef(ua, w2, 2) /\ \A p \in {e} : p \in ManagedPages /\ ua[p].lv > 3 - 1
    BY <1>1, <1>2, <1>3, <1>5, TaskEntries
  <2>3. SamePmd(m1, w1, a, w2) /\ b.ram[e][j] = w2
    BY <2>1
  <2> HIDE DEF w2, w1
  <2>4. SamePmd(m1, w1, b, w2)
    BY <1>1, <1>10, <2>2, <2>3, SamePmdLater
  <2> QED
    BY <2>3, <2>4 DEF w1
<1>13. ASSUME ~b.stuck
       PROVE  SamePmd(m1, w, b, b.ram[e][k])
  <2>1. SamePmd(a, w, b, b.ram[e][k])
    BY <1>10, <1>13
  <2> DEFINE g == u1[t].tree
  <2>2. Apart(u1, {e}, g) /\ (Valid(w) => u1[PteToPa(w)].tree = g)
    BY <1>2, <1>4 DEF Apart
  <2> HIDE DEF g
  <2> QED
    BY <1>1, <1>4, <2>1, <2>2, SamePmdEarlier
<1>14. ASSUME NEW j \in Slots, ~(j < k), j # k, ~b.stuck
       PROVE  ~Valid(b.ram[e][j])
  BY <1>10, <1>14 DEF PmdRound
<1>15. PmdRound(m1, u1, b, ub, nb, t, e, k + 1, c, A)
  <2>1. \A j \in Slots : j < k + 1 => j < k \/ j = k
    BY PageFacts DEF Slots
  <2>2. \A j \in Slots : ~(j < k + 1) => ~(j < k) /\ j # k
    BY PageFacts
  <2> QED
    BY <1>10, <1>11, <1>12, <1>13, <1>14, <2>1, <2>2 DEF PmdRound, w
<1> QED
  BY <1>3, <1>15 DEF b, w

(***************************************************************************)
(* copy_user_page_table (mmu.c:152) makes a tree of its own with the same  *)
(* leaves, and touches nothing else.                                       *)
(***************************************************************************)
CopyUserDone(m, use, m2, use2, n2, src, A) ==
    /\ Heap(m2, use2, n2)
    /\ Ext(m, use, m2, use2, {}, {m.free_list})
    /\ Placed(use, use2, m.free_list, A)
    /\ ~m2.stuck => /\ m.free_list \in ManagedPages /\ use[m.free_list].lv = FREE
                    /\ use2[m.free_list] = Top(m.free_list)
                    /\ SameTree(m, src, m2, m.free_list)

\* alloc_page of a page that is no node of a tree below the top.
OnePage(use, n, m1, u1, n1) ==
    /\ Takes(m1, n, n1, 1)
    /\ \A q \in ManagedPages : u1[q] = use[q] \/ u1[q].lv \notin 0 .. 2

\* It fails when there is none.
LEMMA NoPage ==
    ASSUME NEW m, NEW use, NEW n, Heap(m, use, n), m.free_list = 0, NEW m1, m1.stuck
    PROVE  OnePage(use, n, m1, use, n)
<1>1. n = 0
  BY PageFacts DEF Heap, FreeListOK
<1> QED
  BY <1>1 DEF OnePage, Takes

\* The new top table, zeroed, or a machine that is stuck.
LEMMA TopPage ==
    ASSUME NEW m, NEW use, NEW n, Heap(m, use, n), ~m.stuck
    PROVE  \E u1, n1 :
              LET m1 == AllocPage(m)
                  h  == m.free_list
              IN  /\ Heap(m1, u1, n1)
                  /\ Ext(m, use, m1, u1, {}, {h})
                  /\ Ext(m, use, m1, use, {}, {})
                  /\ ~m1.stuck => /\ h \in ManagedPages /\ use[h].lv = FREE
                                  /\ u1[h] = Top(h) /\ m1.ram[h] = ZeroPage
                  /\ h = 0 \/ (h \in ManagedPages /\ use[h].lv = FREE)
                  /\ OnePage(use, n, m1, u1, n1)
<1> DEFINE m1 == AllocPage(m)
           h  == m.free_list
<1>1. CASE h = 0
  <2>1. Heap(m1, use, n) /\ m1.stuck /\ m1.ram = m.ram
    BY <1>1, HeapOutOfMemory
  <2> HIDE DEF m1
  <2>2. Ext(m, use, m1, use, {}, {h}) /\ Ext(m, use, m1, use, {}, {})
    BY <2>1 DEF Ext
  <2>3. OnePage(use, n, m1, use, n)
    BY <1>1, <2>1, NoPage
  <2> QED
    BY <1>1, <2>1, <2>2, <2>3 DEF m1
<1>2. CASE h # 0
  <2> DEFINE ua == [use EXCEPT ![h] = Limbo]
             ub == [ua EXCEPT ![h] = Top(h)]
  <2>1. /\ h \in ManagedPages /\ use[h].lv = FREE
        /\ Heap(m1, ua, n - 1) /\ ~m1.stuck
        /\ m1.ram[h] = ZeroPage
        /\ \A q \in RamPages \ {h} : m1.ram[q] = m.ram[q]
    BY <1>2, HeapAlloc
  <2>2. ua[h].lv = LIMBO
    BY <2>1 DEF Heap, Limbo
  <2>3. ub[h] = Top(h) /\ \A q \in ManagedPages \ {h} : ub[q] = use[q]
    BY <2>1 DEF Heap
  <2> HIDE DEF m1, ua, h
  <2>4. Heap(m1, ub, n - 1)
    BY <2>1, <2>2, HeapTop
  <2> HIDE DEF ub
  <2>5. Ext(m, use, m1, ub, {}, {h}) /\ Ext(m, use, m1, use, {}, {})
    BY <2>1, <2>3 DEF Ext, Top, FREE
  <2>6. OnePage(use, n, m1, ub, n - 1)
    BY <2>1, <2>3 DEF OnePage, Takes, Top
  <2> QED
    BY <2>1, <2>3, <2>4, <2>5, <2>6 DEF m1, h
<1> QED
  BY <1>1, <1>2

\* copy_user_page_table makes an equal tree, or stops part of the way.
LEMMA CopyUserHeap ==
    ASSUME NEW m, NEW use, NEW n, Heap(m, use, n), ~m.stuck, use[root_page_table].lv = 3,
           NEW src, TaskTable(use, src, 3), NEW A, Covered(m, use, src, A)
    PROVE  \E use2, n2 :
              CopyUserDone(m, use, CopyUserPageTable(m, root_page_table, src), use2, n2, src, A)
<1> DEFINE h == m.free_list
           r == root_page_table
<1>0. ENTRIES \in Nat /\ 0 .. ENTRIES - 1 = Slots
  BY PageTablesAssumption DEF Slots
<1>1. PICK acc : /\ acc[0] = AllocPage(m)
                 /\ \A k \in 0 .. ENTRIES - 1 :
                       acc[k + 1] = IF acc[k].stuck THEN acc[k]
                                    ELSE IF acc[k].ram[src][k] = acc[k].ram[r][k]
                                         THEN SetWord(acc[k], h, k, acc[k].ram[src][k])
                                         ELSE CopyPmd(acc[k], h, k, acc[k].ram[src][k])
                 /\ CopyUserPageTable(m, r, src) = acc[ENTRIES]
  BY CopyUserRun
<1>2. \A k \in 0 .. ENTRIES - 1 :
         acc[k + 1] = IF acc[k].stuck THEN acc[k]
                      ELSE TopEntry(acc[k], h, k, acc[k].ram[src][k])
  BY <1>1 DEF TopEntry
<1> DEFINE m1 == acc[0]
<1>3. PICK u1, n1 : /\ Heap(m1, u1, n1)
                    /\ Ext(m, use, m1, u1, {}, {h})
                    /\ Ext(m, use, m1, use, {}, {})
                    /\ ~m1.stuck => /\ h \in ManagedPages /\ use[h].lv = FREE
                                    /\ u1[h] = Top(h) /\ m1.ram[h] = ZeroPage
                    /\ h = 0 \/ (h \in ManagedPages /\ use[h].lv = FREE)
                    /\ OnePage(use, n, m1, u1, n1)
  BY <1>1, TopPage
<1> HIDE DEF h
<1>4. src \in ManagedPages /\ use[src].lv = 3 /\ use[src].tree = src /\ src # r
  BY DEF TaskTable, Heap, TopsOK
<1>5. src # h /\ r # h
  BY <1>3, <1>4, PageFacts DEF FREE
<1>6. u1[src] = use[src] /\ u1[r] = use[r] /\ TaskTable(u1, src, 3)
  BY <1>3, <1>4, <1>5, PageFacts DEF Ext, FREE, TaskTable
<1>7. ~m1.stuck => /\ TaskTable(u1, h, 3) /\ u1[src].tree # u1[h].tree
                   /\ u1[h].tree = h /\ u1[h].pos = u1[src].pos
  <2>1. u1[src].pos = 0
    BY <1>4, <1>6 DEF Heap, TopsOK
  <2> QED
    BY <1>3, <1>4, <1>5, <1>6, <2>1 DEF TaskTable, Top
<1>8. Placed(use, u1, h, A) /\ Covered(m1, u1, u1[src].tree, A)
  <2>1. Placed(use, u1, h, A)
    BY <1>3 DEF OnePage, Placed
  <2> HIDE DEF m1
  <2>2. ASSUME NEW t \in TablesOf(u1, src), NEW k \in Slots, Valid(m1.ram[t][k])
        PROVE  Belongs(u1, t, k, A)
    <3>1. t \in ManagedPages /\ u1[t].lv \in {1, 2, 3} /\ u1[t].tree = src
      BY <1>3, <2>2 DEF TablesOf, Heap, Use
    <3>2. u1[t] = use[t] /\ t # h
      <4>1. t # h
        <5>1. SUFFICES ASSUME t = h PROVE FALSE
          OBVIOUS
        <5>2. use[h].lv = FREE
          BY <1>3, <3>1, <5>1, PageFacts
        <5>3. u1[h].lv = 3
          BY <1>3, <3>1, <5>1, <5>2 DEF OnePage, FREE
        <5>4. u1[h].tree = h
          BY <1>3, <3>1, <5>1, <5>3 DEF Heap, TopsOK
        <5> QED
          BY <1>5, <3>1, <5>1, <5>4
      <4>2. CASE use[t].lv = FREE
        BY <1>3, <3>1, <4>1, <4>2 DEF OnePage, Ext, FREE
      <4>3. CASE use[t].lv # FREE
        BY <1>3, <3>1, <4>1, <4>3 DEF Ext
      <4> QED
        BY <4>1, <4>2, <4>3
    <3>3. m1.ram[t] = m.ram[t]
      BY <1>3, <3>1, <3>2, PageFacts DEF Ext, FREE
    <3> QED
      BY <2>2, <3>1, <3>2, <3>3 DEF Covered, Belongs, TablesOf
  <2>3. Covered(m1, u1, src, A)
    BY <2>2 DEF Covered
  <2> QED
    BY <1>4, <1>6, <2>1, <2>3
<1> DEFINE S == {k \in 0 .. ENTRIES : \E u2, n2 : PmdRound(m1, u1, acc[k], u2, n2, src, h, k, h, A)}
<1>9. 0 \in S
  <2>1. ASSUME ~m1.stuck, NEW j \in Slots
        PROVE  ~(j < 0) /\ ~Valid(m1.ram[h][j])
    <3> HIDE DEF m1
    <3>1. m1.ram[h] = ZeroPage
      BY <1>3, <2>1
    <3>2. ~Valid(ZeroPage[j])
      BY ZeroPageFacts
    <3>3. ~(j < 0)
      BY <1>0
    <3> QED
      BY <3>1, <3>2, <3>3
  <2>2. Ext(m1, u1, m1, u1, {h}, {})
    BY ExtSame
  <2>3. PmdRound(m1, u1, m1, u1, n1, src, h, 0, h, A)
    <3> HIDE DEF m1
    <3> QED
      BY <1>3, <2>1, <2>2, PlacedSame DEF PmdRound
  <2> QED
    BY <1>0, <2>3
<1>10. ASSUME NEW k \in 0 .. ENTRIES - 1, k \in S
       PROVE  k + 1 \in S
  <2>1. PICK ua, na : PmdRound(m1, u1, acc[k], ua, na, src, h, k, h, A)
    BY <1>10
  <2>2. CASE acc[k].stuck
    <3>1. acc[k + 1] = acc[k]
      BY <1>1, <2>2
    <3>2. PmdRound(m1, u1, acc[k + 1], ua, na, src, h, k + 1, h, A)
      BY <2>1, <2>2, <3>1 DEF PmdRound
    <3> QED
      BY <1>0, <3>2
  <2>3. CASE ~acc[k].stuck
    <3>1. ~m1.stuck
      BY <2>1, <2>3 DEF PmdRound
    <3>2. acc[k + 1] = TopEntry(acc[k], h, k, acc[k].ram[src][k])
      BY <1>2, <2>3
    <3>3. /\ k \in Slots /\ TaskTable(u1, h, 3) /\ u1[src].tree # u1[h].tree /\ u1[r].lv = 3
          /\ u1[h].tree = h /\ u1[src].pos = u1[h].pos
      BY <1>0, <1>6, <1>7, <3>1
    <3> HIDE DEF m1
    <3>4. PICK ub, nb : PmdRound(m1, u1, acc[k + 1], ub, nb, src, h, k + 1, h, A)
      BY <1>3, <1>6, <1>8, <2>1, <2>3, <3>2, <3>3, PmdStep
    <3> QED
      BY <1>0, <3>4
  <2> QED
    BY <2>2, <2>3
<1>11. ENTRIES \in S
  <2> HIDE DEF S
  <2> QED
    BY <1>0, <1>9, <1>10, Induct
<1> DEFINE m2 == acc[ENTRIES]
<1>12. PICK u2, n2 : PmdRound(m1, u1, m2, u2, n2, src, h, ENTRIES, h, A)
  BY <1>11
<1> HIDE DEF m1, m2, S
<1>13. Heap(m2, u2, n2) /\ Ext(m1, u1, m2, u2, {h}, {})
  BY <1>12 DEF PmdRound
<1>14. Ext(m, use, m2, u2, {}, {h})
  <2>1. CASE h = 0
    <3>1. Ext(m1, u1, m2, u2, {}, {})
      BY <1>13, <2>1, PageFacts DEF Ext
    <3> QED
      BY <1>3, <3>1, ExtTrans
  <2>2. CASE h # 0
    <3>1. h \in ManagedPages /\ use[h].lv = FREE
      BY <1>3, <2>2
    <3> QED
      BY <1>3, <1>13, <3>1, ExtTrans
  <2> QED
    BY <2>1, <2>2
<1>15. ASSUME ~m2.stuck
       PROVE  /\ h \in ManagedPages /\ use[h].lv = FREE
              /\ u2[h] = Top(h)
              /\ SameTree(m, src, m2, h)
  <2>1. ~m1.stuck /\ \A j \in Slots : SamePmd(m1, m1.ram[src][j], m2, m2.ram[h][j])
    BY <1>0, <1>12, <1>15 DEF PmdRound, Slots
  <2>2. h \in ManagedPages /\ use[h].lv = FREE /\ u2[h] = Top(h)
    BY <1>3, <1>13, <2>1 DEF Ext, Top, FREE
  <2>3. m1.ram[src] = m.ram[src]
    BY <1>3, <1>4, PageFacts DEF Ext, FREE
  <2>4. ASSUME NEW j \in Slots
        PROVE  SamePmd(m, m.ram[src][j], m2, m2.ram[h][j])
    <3> DEFINE w  == m.ram[src][j]
               w2 == m2.ram[h][j]
    <3>1. SamePmd(m1, w, m2, w2)
      BY <2>1, <2>3
    <3>2. TableRef(use, w, 2) /\ (Valid(w) => use[PteToPa(w)].tree = src)
      BY <1>4, TaskEntries DEF Target
    <3>3. Apart(use, {}, src)
      BY DEF Apart
    <3> HIDE DEF w, w2
    <3>4. SamePmd(m, w, m2, w2)
      BY <1>3, <3>1, <3>2, <3>3, SamePmdEarlier
    <3> QED
      BY <3>4 DEF w, w2
  <2> QED
    BY <2>2, <2>4 DEF SameTree
<1>16. Placed(use, u2, h, A)
  BY <1>12, <1>8, PlacedTrans DEF PmdRound
<1>17. CopyUserDone(m, use, m2, u2, n2, src, A)
  BY <1>13, <1>14, <1>15, <1>16 DEF CopyUserDone, h
<1> QED
  BY <1>1, <1>17 DEF m2

-----------------------------------------------------------------------------
(***************************************************************************)
(* Building.                                                               *)
(***************************************************************************)

(***************************************************************************)
(* The rounds of page_init.                                                *)
(***************************************************************************)
LEMMA PageInitRun ==
    ASSUME NEW m
    PROVE  \E acc : /\ acc[0] = m
                    /\ \A k \in 0 .. (RamEnd - KernelEnd) - 1 :
                          acc[k + 1] = IF acc[k].stuck THEN acc[k]
                                       ELSE FreePage(acc[k], KernelEnd + k)
                    /\ PageInit(m) = acc[(RamEnd - KernelEnd)]
<1> DEFINE N == (RamEnd - KernelEnd)
           Round(x, k) == IF x.stuck THEN x
                          ELSE FreePage(x, KernelEnd + k)
           IsRun(g, j) == g = [k \in 0 .. j |-> IF k = 0 THEN m ELSE Round(g[k - 1], k - 1)]
           Reached == {j \in 0 .. N : \E g : IsRun(g, j)}
<1>0. N \in Nat
  BY PageTablesAssumption
<1> HIDE DEF N, Round
<1>1. 0 \in Reached
  <2> DEFINE g == [k \in 0 .. 0 |-> m]
  <2>1. IsRun(g, 0)
    OBVIOUS
  <2> HIDE DEF g, IsRun
  <2> QED
    BY <1>0, <2>1
<1>2. ASSUME NEW j \in 0 .. N - 1, j \in Reached
      PROVE  j + 1 \in Reached
  <2> HIDE DEF IsRun
  <2>1. PICK g : IsRun(g, j)
    BY <1>2
  <2> DEFINE h == [k \in 0 .. j + 1 |-> IF k <= j THEN g[k] ELSE Round(g[j], j)]
  <2>2. IsRun(h, j + 1)
    BY <1>0, <2>1 DEF IsRun
  <2> HIDE DEF h
  <2> QED
    BY <1>0, <2>2
<1>3. \E g : IsRun(g, N)
  <2>1. \A j \in 0 .. N : j \in Reached
    <3> HIDE DEF Reached
    <3> QED
      BY <1>0, <1>1, <1>2, Induct
  <2> HIDE DEF IsRun
  <2> QED
    BY <1>0, <2>1
<1> DEFINE acc == CHOOSE g : IsRun(g, N)
<1>4. IsRun(acc, N)
  <2> HIDE DEF IsRun
  <2> QED
    BY <1>3
<1>5. PageInit(m) = acc[N]
  BY DEF Loop, Round, N, PageInit
<1> HIDE DEF acc
<1>6. acc[0] = m /\ \A k \in 0 .. N - 1 : acc[k + 1] = Round(acc[k], k)
  BY <1>0, <1>4
<1> HIDE DEF IsRun, Reached
<1> QED
  BY <1>5, <1>6 DEF Round, N

(***************************************************************************)
(* page_init (page.c:25): all pages after the kernel are on the list, the  *)
(* last one at its head.                                                   *)
(***************************************************************************)
InitTo(m, use, k) ==
    /\ m \in Mem /\ ~m.stuck
    /\ use \in [ManagedPages -> Use] /\ FreeListOK(m, use, k)
    /\ \A p \in ManagedPages : use[p] = IF p < KernelEnd + k THEN OnList(p - KernelEnd + 1)
                                        ELSE Limbo

\* One round of page_init.
LEMMA InitStep ==
    ASSUME NEW m, NEW use, NEW k \in 0 .. RamEnd - KernelEnd - 1, InitTo(m, use, k)
    PROVE  \E use2 : InitTo(FreePage(m, KernelEnd + k), use2, k + 1)
<1> DEFINE h  == KernelEnd + k
           m2 == FreePage(m, h)
<1>1. KernelEnd \in Int /\ RamEnd \in Int /\ k \in Int /\ h \in Int
  BY PageTablesAssumption
<1>2. h \in ManagedPages
  BY <1>1 DEF ManagedPages
<1>3. use[h] = Limbo
  BY <1>1, <1>2 DEF InitTo
<1>4. use[h].lv # FREE
  BY <1>3 DEF Limbo, LIMBO, FREE
<1>5. m \in Mem /\ ~m.stuck /\ use \in [ManagedPages -> Use] /\ FreeListOK(m, use, k)
  BY DEF InitTo
<1>6. h - KernelEnd + 1 = k + 1 /\ \A p \in ManagedPages : p \in Int /\ (p < KernelEnd + (k + 1) <=> p < h \/ p = h)
  BY <1>1, PageFacts
<1>7. ~(h < h) /\ h < KernelEnd + (k + 1)
  BY <1>1
<1>8. \A p \in ManagedPages : p < h <=> p < KernelEnd + k
  OBVIOUS
<1> HIDE DEF h
<1>9. PICK use2 : PushDone(m, use, k, h, m2, use2)
  BY <1>2, <1>4, <1>5, ListPush
<1> HIDE DEF m2
<1>10. ASSUME NEW p \in ManagedPages
       PROVE  use2[p] = IF p < KernelEnd + (k + 1) THEN OnList(p - KernelEnd + 1) ELSE Limbo
  <2>1. CASE p = h
    BY <1>6, <1>7, <1>9, <2>1 DEF PushDone
  <2>2. CASE p # h
    <3>1. use2[p] = use[p]
      BY <1>9, <2>2 DEF PushDone
    <3>2. use[p] = IF p < h THEN OnList(p - KernelEnd + 1) ELSE Limbo
      BY <1>8 DEF InitTo
    <3> QED
      BY <1>6, <2>2, <3>1, <3>2
  <2> QED
    BY <2>1, <2>2
<1>11. InitTo(m2, use2, k + 1)
  BY <1>9, <1>10 DEF InitTo, PushDone
<1> QED
  BY <1>11 DEF m2, h

\* The pages of the kernel image hold what they held.
ImageKept(m, m2) == \A p \in ImageFrames : m2.ram[p] = m.ram[p]

\* After page_init the heap is a list of all pages.
LEMMA PageInitHeap ==
    ASSUME NEW m \in Mem, ~m.stuck, m.free_list = 0
    PROVE  LET m2 == PageInit(m) IN
           \E use, n : /\ Heap(m2, use, n) /\ ~m2.stuck
                       /\ \A p \in ManagedPages : use[p].lv = FREE
                       /\ m2.free_list = root_page_table
                       /\ ImageKept(m, m2)
<1> DEFINE N == RamEnd - KernelEnd
           m2 == PageInit(m)
<1>0. N \in Nat /\ N # 0 /\ KernelEnd \in Int /\ RamEnd \in Int
  BY PageTablesAssumption
<1>1. PICK acc : /\ acc[0] = m
                 /\ \A k \in 0 .. N - 1 :
                       acc[k + 1] = IF acc[k].stuck THEN acc[k]
                                    ELSE FreePage(acc[k], KernelEnd + k)
                 /\ m2 = acc[N]
  BY PageInitRun
<1> DEFINE S == {k \in 0 .. N : ImageKept(m, acc[k]) /\ \E use : InitTo(acc[k], use, k)}
<1>2. 0 \in S
  <2> DEFINE u0 == [p \in ManagedPages |-> Limbo]
  <2>1. u0 \in [ManagedPages -> Use] /\ \A p \in ManagedPages : u0[p] = Limbo
    BY DEF Limbo, LIMBO, Use
  <2>2. \A p \in ManagedPages : ~(p < KernelEnd + 0)
    BY <1>0 DEF ManagedPages
  <2> HIDE DEF u0
  <2>3. FreeListOK(m, u0, 0)
    BY <2>1 DEF FreeListOK, Limbo, LIMBO, FREE
  <2>4. InitTo(acc[0], u0, 0)
    BY <1>1, <2>1, <2>2, <2>3 DEF InitTo
  <2>5. ImageKept(m, acc[0])
    BY <1>1 DEF ImageKept
  <2> QED
    BY <1>0, <2>4, <2>5
<1>3. ASSUME NEW k \in 0 .. N - 1, k \in S
      PROVE  k + 1 \in S
  <2>1. PICK use : InitTo(acc[k], use, k) /\ ImageKept(m, acc[k])
    BY <1>3
  <2>2. acc[k + 1] = FreePage(acc[k], KernelEnd + k)
    BY <1>1, <2>1 DEF InitTo
  <2>3. k \in 0 .. RamEnd - KernelEnd - 1
    OBVIOUS
  <2>4. \E use2 : InitTo(acc[k + 1], use2, k + 1)
    <3> HIDE DEF N, S
    <3> QED
      BY <2>1, <2>2, <2>3, InitStep
  <2>5. ImageKept(m, acc[k + 1])
    <3>1. KernelEnd + k \in ManagedPages /\ acc[k] \in Mem /\ ~acc[k].stuck
      BY <1>0, <2>1 DEF ManagedPages, InitTo
    <3>2. \A q \in RamPages \ {KernelEnd + k} : acc[k + 1].ram[q] = acc[k].ram[q]
      BY <2>2, <3>1, FreePageFacts
    <3> QED
      BY <2>1, <3>1, <3>2, PageFacts DEF ImageKept
  <2> QED
    BY <1>0, <2>4, <2>5
<1>4. N \in S
  <2> HIDE DEF S, N
  <2> QED
    BY <1>0, <1>2, <1>3, Induct
<1>5. PICK use : InitTo(m2, use, N) /\ ImageKept(m, m2)
  BY <1>1, <1>4
<1>6. \A p \in ManagedPages : p \in Int /\ p < KernelEnd + N
  BY <1>0 DEF ManagedPages
<1>7. \A p \in ManagedPages : use[p] = OnList(p - KernelEnd + 1)
  BY <1>5, <1>6 DEF InitTo
<1> HIDE DEF m2
<1>8. ASSUME NEW p \in ManagedPages
      PROVE  use[p].lv = FREE /\ use[p].slot = p - KernelEnd + 1
  <2>1. use[p] = OnList(p - KernelEnd + 1)
    BY <1>7
  <2>2. \A x \in Int : OnList(x).lv = FREE /\ OnList(x).slot = x
    BY DEF OnList
  <2>3. p - KernelEnd + 1 \in Int
    BY <1>0, <1>6
  <2> QED
    BY <2>1, <2>2, <2>3
<1>9. m2.free_list = root_page_table
  <2>1. m2.free_list \in ManagedPages /\ use[m2.free_list].slot = N
    BY <1>0, <1>5 DEF InitTo, FreeListOK
  <2> QED
    BY <1>0, <1>6, <1>8, <2>1 DEF root_page_table
<1>10. EntriesOK(m2, use) /\ ParentsOK(m2, use) /\ TopsOK(use)
  BY <1>8 DEF EntriesOK, ParentsOK, TopsOK, FREE
<1>11. Heap(m2, use, N)
  BY <1>5, <1>10 DEF Heap, InitTo
<1> QED
  BY <1>5, <1>8, <1>9, <1>11 DEF InitTo, m2

(***************************************************************************)
(* A machine that is stuck maps nothing.                                   *)
(***************************************************************************)
LEMMA MapPageStuck ==
    ASSUME NEW m, m.stuck, NEW g, NEW va, NEW pa, NEW flags
    PROVE  MapPage(m, g, va, pa, flags) = m
BY DEF MapPage

\* The same for map_range.
LEMMA MapRangeStuck ==
    ASSUME NEW m, m.stuck, NEW g, NEW first \in Nat, NEW last \in Nat, first <= last, NEW flags
    PROVE  MapRange(m, g, first, last, flags) = m
<1> DEFINE N == last - first + 1
<1>0. N \in Nat
  OBVIOUS
<1>1. PICK acc : /\ acc[0] = m
                 /\ \A k \in 0 .. N - 1 :
                       acc[k + 1] = IF acc[k].stuck THEN acc[k]
                                    ELSE MapPage(acc[k], g, first + k, first + k, flags)
                 /\ MapRange(m, g, first, last, flags) = acc[N]
  BY <1>0, MapRangeRun
<1> HIDE DEF N
<1> DEFINE S == {k \in 0 .. N : acc[k] = m}
<1>2. 0 \in S
  BY <1>0, <1>1
<1>3. ASSUME NEW k \in 0 .. N - 1, k \in S
      PROVE  k + 1 \in S
  BY <1>0, <1>1, <1>3
<1>4. N \in S
  <2> HIDE DEF S
  <2> QED
    BY <1>0, <1>2, <1>3, Induct
<1> QED
  BY <1>1, <1>4 DEF N

(***************************************************************************)
(* The cost of a new page table g, since the memory had the uses use0 and  *)
(* n0 free pages: its nodes are where the virtual pages A belong, and it   *)
(* has taken one page for each table that A needs and c more.              *)
(***************************************************************************)
Ledger(m, n0, n, A, c) ==
    IF m.stuck THEN n0 < TablesFor(A) + c ELSE n0 <= n + TablesFor(A) + c

Cost(use0, n0, m, use, n, g, A, c) ==
    /\ A \in SUBSET VirtualPages /\ c \in Nat
    /\ Placed(use0, use, g, A)
    /\ Ledger(m, n0, n, A, c)

\* A new top table costs one page.
LEMMA CostStart ==
    ASSUME NEW use, NEW n \in Nat, NEW m1, NEW u1, NEW n1 \in Nat, NEW g,
           OnePage(use, n, m1, u1, n1)
    PROVE  Cost(use, n, m1, u1, n1, g, {}, 1)
<1>1. Placed(use, u1, g, {})
  BY DEF OnePage, Placed
<1>2. TablesFor({}) \in Nat /\ {} \in SUBSET VirtualPages
  BY TablesForIs
<1>3. Ledger(m1, n, n1, {}, 1)
  BY <1>2 DEF Ledger, OnePage, Takes
<1> QED
  BY <1>1, <1>2, <1>3 DEF Cost

\* One page more that is no table.
LEMMA CostOne ==
    ASSUME NEW use0, NEW n0 \in Nat, NEW m, NEW use, NEW n \in Nat, NEW g, NEW A, NEW c,
           Cost(use0, n0, m, use, n, g, A, c), ~m.stuck,
           NEW m1, NEW u1, NEW n1 \in Nat, OnePage(use, n, m1, u1, n1)
    PROVE  Cost(use0, n0, m1, u1, n1, g, A, c + 1)
<1>1. Placed(use, u1, g, A)
  BY DEF OnePage, Placed
<1>2. Placed(use0, u1, g, A)
  BY <1>1, PlacedTrans DEF Cost
<1>3. TablesFor(A) \in Nat /\ c \in Nat /\ c + 1 \in Nat
  BY TablesForIs DEF Cost
<1>4. Ledger(m1, n0, n1, A, c + 1)
  BY <1>3 DEF Ledger, Cost, OnePage, Takes
<1> QED
  BY <1>2, <1>3, <1>4 DEF Cost

\* Mapping more virtual pages costs the tables that they need.
LEMMA CostAdds ==
    ASSUME NEW use0, NEW n0 \in Nat, NEW m, NEW use, NEW n \in Nat, NEW g, NEW A, NEW c,
           Cost(use0, n0, m, use, n, g, A, c), ~m.stuck,
           NEW m2, NEW use2, NEW n2 \in Nat, NEW B \in SUBSET VirtualPages,
           Adds(m, use, n, m2, use2, n2, g, B), \A v \in A : Valid(LeafPte(m, g, v))
    PROVE  Cost(use0, n0, m2, use2, n2, g, A \cup B, c)
<1>1. Placed(use0, use, g, A \cup B) /\ Placed(use, use2, g, A \cup B)
  BY PlacedMore DEF Cost, Adds
<1>2. Placed(use0, use2, g, A \cup B)
  BY <1>1, PlacedTrans
<1>3. A \in SUBSET VirtualPages /\ A \cup B \in SUBSET VirtualPages /\ c \in Nat
  BY DEF Cost
<1>4. IF m2.stuck THEN n + TablesFor(A) < TablesFor(A \cup B)
      ELSE n + TablesFor(A) <= n2 + TablesFor(A \cup B)
  BY <1>3 DEF Adds, Uses
<1>5. n0 <= n + TablesFor(A) + c
  BY DEF Cost, Ledger
<1>6. TablesFor(A) \in Nat /\ TablesFor(A \cup B) \in Nat
  BY <1>3, TablesForIs
<1>7. Ledger(m2, n0, n2, A \cup B, c)
  BY <1>3, <1>4, <1>5, <1>6 DEF Ledger
<1> QED
  BY <1>2, <1>3, <1>7 DEF Cost

\* A machine that is stuck would have needed yet more for more.
LEMMA CostStuck ==
    ASSUME NEW use0, NEW n0 \in Nat, NEW m, NEW use, NEW n, NEW g, NEW A, NEW c,
           Cost(use0, n0, m, use, n, g, A, c), m.stuck,
           NEW m2, m2.stuck, NEW n2, NEW B \in SUBSET VirtualPages, A \subseteq B,
           NEW d \in Nat, c <= d
    PROVE  Cost(use0, n0, m2, use, n2, g, B, d)
<1>1. Placed(use0, use, g, B)
  BY PlacedMore DEF Cost
<1>2. A \in SUBSET VirtualPages /\ c \in Nat /\ n0 < TablesFor(A) + c
  BY DEF Cost, Ledger
<1>3. TablesFor(A) <= TablesFor(B) /\ TablesFor(A) \in Nat /\ TablesFor(B) \in Nat
  BY <1>2, TablesForMore, TablesForIs
<1>4. Ledger(m2, n0, n2, B, d)
  BY <1>2, <1>3 DEF Ledger
<1> QED
  BY <1>1, <1>4 DEF Cost

(***************************************************************************)
(* The kernel's own page table, mmu_init (mmu.c:73).  Its tree is all that *)
(* is in use afterwards.                                                   *)
(***************************************************************************)
RootOnly(m, use, n) ==
    /\ Heap(m, use, n)
    /\ use[root_page_table].lv = 3
    /\ \A p \in ManagedPages : use[p].lv # LIMBO /\ (use[p].lv = 3 => p = root_page_table)

\* It stays the only tree while the memory grows by its tables.
LEMMA RootOnlyExt ==
    ASSUME NEW m, NEW use, NEW n, RootOnly(m, use, n), NEW m2, NEW use2, NEW n2, NEW X,
           Heap(m2, use2, n2), Ext(m, use, m2, use2, X, {})
    PROVE  RootOnly(m2, use2, n2)
<1>1. use2[root_page_table].lv = 3
  BY PageFacts DEF RootOnly, Ext, FREE
<1>2. ASSUME NEW p \in ManagedPages
      PROVE  use2[p].lv # LIMBO /\ (use2[p].lv = 3 => p = root_page_table)
  <2>1. CASE use[p].lv = FREE
    BY <2>1 DEF Ext, FREE, LIMBO
  <2>2. CASE use[p].lv # FREE
    BY <2>2 DEF Ext, RootOnly
  <2> QED
    BY <2>1, <2>2
<1> QED
  BY <1>1, <1>2 DEF RootOnly

\* It maps the virtual pages A, at the cost of their tables and itself.
RootMaps(use0, n0, m, use, n, A) ==
    /\ RootOnly(m, use, n)
    /\ Cost(use0, n0, m, use, n, root_page_table, A, 1)
    /\ ~m.stuck => \A v \in A : Valid(LeafPte(m, root_page_table, v))

\* A machine that is stuck maps no more.
LEMMA RootStuck ==
    ASSUME NEW use0, NEW n0 \in Nat, NEW m, NEW use, NEW n, NEW A,
           RootMaps(use0, n0, m, use, n, A), m.stuck, NEW B \in SUBSET VirtualPages
    PROVE  RootMaps(use0, n0, m, use, n, A \cup B)
<1>1. A \in SUBSET VirtualPages /\ Cost(use0, n0, m, use, n, root_page_table, A, 1)
  BY DEF RootMaps, Cost
<1>2. Cost(use0, n0, m, use, n, root_page_table, A \cup B, 1)
  BY <1>1, CostStuck
<1> QED
  BY <1>2 DEF RootMaps

\* One that is not has mapped what it was asked to.
LEMMA RootAdds ==
    ASSUME NEW use0, NEW n0 \in Nat, NEW m, NEW use, NEW n, NEW A,
           RootMaps(use0, n0, m, use, n, A), ~m.stuck,
           NEW B \in SUBSET VirtualPages, NEW m2, NEW use2, NEW n2, NEW X,
           Heap(m2, use2, n2), Ext(m, use, m2, use2, X, {}),
           Adds(m, use, n, m2, use2, n2, root_page_table, B),
           ~m2.stuck => \A v \in VirtualPages :
               Valid(LeafPte(m, root_page_table, v)) \/ v \in B =>
                   Valid(LeafPte(m2, root_page_table, v))
    PROVE  RootMaps(use0, n0, m2, use2, n2, A \cup B)
<1>1. RootOnly(m2, use2, n2)
  BY RootOnlyExt DEF RootMaps
<1>2. n \in Nat /\ n2 \in Nat /\ A \in SUBSET VirtualPages
  BY DEF RootMaps, RootOnly, Cost, Heap, FreeListOK
<1>3. \A v \in A : Valid(LeafPte(m, root_page_table, v))
  BY DEF RootMaps
<1>4. Cost(use0, n0, m2, use2, n2, root_page_table, A \cup B, 1)
  BY <1>2, <1>3, CostAdds DEF RootMaps
<1>5. ~m2.stuck => \A v \in A \cup B : Valid(LeafPte(m2, root_page_table, v))
  BY <1>2, <1>3
<1> QED
  BY <1>1, <1>4, <1>5 DEF RootMaps

\* map_range for the kernel's own table.
LEMMA RootRange ==
    ASSUME NEW use0, NEW n0 \in Nat, NEW m, NEW use, NEW n, NEW A,
           RootMaps(use0, n0, m, use, n, A),
           NEW first \in Nat, NEW last \in Nat, first <= last, last < RamEnd,
           NEW flags \in SUBSET PteFlags, "V" \in flags
    PROVE  LET m2 == MapRange(m, root_page_table, first, last, flags) IN
           /\ ImageKept(m, m2)
           /\ \E use2, n2 : RootMaps(use0, n0, m2, use2, n2, A \cup (first .. last))
<1>1. \A v \in first .. last : v \in Int /\ v \in VirtualPages
  BY PageTablesAssumption DEF VirtualPages
<1>2. CASE m.stuck
  <2>1. MapRange(m, root_page_table, first, last, flags) = m
    BY <1>2, MapRangeStuck
  <2>2. first .. last \in SUBSET VirtualPages
    BY <1>1
  <2>3. RootMaps(use0, n0, m, use, n, A \cup (first .. last))
    BY <1>2, <2>2, RootStuck
  <2> QED
    BY <2>1, <2>3 DEF ImageKept
<1>3. CASE ~m.stuck
  <2> DEFINE m2 == MapRange(m, root_page_table, first, last, flags)
             B  == first .. last
  <2>1. first .. first + (last - first + 1) - 1 = B
    OBVIOUS
  <2>2. MayMapRange(m, use, root_page_table, first, last, flags)
    BY <1>1 DEF MayMapRange, MayMap
  <2>3. Heap(m, use, n) /\ use[root_page_table].lv = 3 /\ root_page_table \in ManagedPages
    BY PageFacts DEF RootMaps, RootOnly
  <2>4. PICK use2, n2 : RangeDone(m, use, n, m2, use2, n2, root_page_table,
                                  first, last - first + 1, flags)
    BY <1>3, <2>2, <2>3, MapRangeHeap
  <2> HIDE DEF m2, B
  <2>5. /\ Heap(m2, use2, n2) /\ Ext(m, use, m2, use2, TablesOf(use, root_page_table), {})
        /\ Adds(m, use, n, m2, use2, n2, root_page_table, B)
    BY <2>1, <2>4 DEF RangeDone
  <2>6. ASSUME ~m2.stuck, NEW v \in VirtualPages, Valid(LeafPte(m, root_page_table, v)) \/ v \in B
        PROVE  Valid(LeafPte(m2, root_page_table, v))
    <3>1. CASE v \in B
      <4>1. LeafPte(m2, root_page_table, v) = PaToPte(v, flags \cup {"A", "D"})
        BY <2>1, <2>4, <2>6, <3>1 DEF RangeDone
      <4> QED
        BY <4>1 DEF PaToPte, Valid, Flags
    <3>2. CASE v \notin B
      <4>1. LeafPte(m2, root_page_table, v) = LeafPte(m, root_page_table, v)
        BY <2>1, <2>3, <2>4, <3>2 DEF RangeDone
      <4> QED
        BY <2>6, <3>2, <4>1
    <3> QED
      BY <3>1, <3>2
  <2>7. B \in SUBSET VirtualPages
    BY <1>1 DEF B
  <2>8. RootMaps(use0, n0, m2, use2, n2, A \cup B)
    BY <1>3, <2>5, <2>6, <2>7, RootAdds
  <2>9. ImageKept(m, m2)
    BY <2>5, PageFacts DEF Ext, TablesOf, ImageKept
  <2> QED
    BY <2>8, <2>9 DEF m2, B
<1> QED
  BY <1>2, <1>3

\* map_page for the kernel's own table.
LEMMA RootMap ==
    ASSUME NEW use0, NEW n0 \in Nat, NEW m, NEW use, NEW n, NEW A,
           RootMaps(use0, n0, m, use, n, A),
           NEW va \in Nat, va < RamEnd, NEW flags \in SUBSET PteFlags, "V" \in flags
    PROVE  LET m2 == MapPage(m, root_page_table, va, va, flags) IN
           /\ ImageKept(m, m2)
           /\ \E use2, n2 : RootMaps(use0, n0, m2, use2, n2, A \cup {va})
<1>1. va \in Int /\ va \in VirtualPages
  BY PageTablesAssumption DEF VirtualPages
<1>2. CASE m.stuck
  <2>1. MapPage(m, root_page_table, va, va, flags) = m
    BY <1>2, MapPageStuck
  <2>2. {va} \in SUBSET VirtualPages
    BY <1>1
  <2>3. RootMaps(use0, n0, m, use, n, A \cup {va})
    BY <1>2, <2>2, RootStuck
  <2> QED
    BY <2>1, <2>3 DEF ImageKept
<1>3. CASE ~m.stuck
  <2> DEFINE m2 == MapPage(m, root_page_table, va, va, flags)
  <2>1. MayMap(m, use, root_page_table, va, va, flags)
    BY <1>1 DEF MayMap
  <2>2. Heap(m, use, n) /\ use[root_page_table].lv = 3 /\ root_page_table \in ManagedPages
    BY PageFacts DEF RootMaps, RootOnly
  <2>3. PICK use2, n2 : MapPageDone(m, use, n, m2, use2, n2, root_page_table, va, va, flags)
    BY <1>3, <2>1, <2>2, MapPageHeap
  <2> HIDE DEF m2
  <2>4. /\ Heap(m2, use2, n2) /\ Ext(m, use, m2, use2, TablesOf(use, root_page_table), {})
        /\ Adds(m, use, n, m2, use2, n2, root_page_table, {va})
    BY <1>1, <2>2, <2>3, MapPageUses DEF MapPageDone, Adds
  <2>5. ASSUME ~m2.stuck, NEW v \in VirtualPages, Valid(LeafPte(m, root_page_table, v)) \/ v \in {va}
        PROVE  Valid(LeafPte(m2, root_page_table, v))
    <3>1. CASE v = va
      BY <2>3, <2>5, <3>1 DEF MapPageDone, PaToPte, Valid, Flags
    <3>2. CASE v # va
      BY <2>2, <2>3, <2>5, <3>2 DEF MapPageDone, OtherLeaves
    <3> QED
      BY <3>1, <3>2
  <2>6. {va} \in SUBSET VirtualPages
    BY <1>1
  <2>7. RootMaps(use0, n0, m2, use2, n2, A \cup {va})
    BY <1>3, <2>4, <2>5, <2>6, RootAdds
  <2>8. ImageKept(m, m2)
    BY <2>4, PageFacts DEF Ext, TablesOf, ImageKept
  <2> QED
    BY <2>7, <2>8 DEF m2
<1> QED
  BY <1>2, <1>3

\* mmu_init builds the kernel's own tree and nothing else.
LEMMA MmuInitHeap ==
    ASSUME NEW m, NEW use, NEW n, Heap(m, use, n), ~m.stuck, m.free_list = root_page_table,
           \A p \in ManagedPages : use[p].lv = FREE
    PROVE  LET m2 == MmuInit(m) IN
           ImageKept(m, m2) /\ \E use2, n2 : RootMaps(use, n, m2, use2, n2, KernelVas)
<1> DEFINE r  == root_page_table
           m1 == AllocPage(m)
           m2 == MapRange(m1, r, ClintStart, ClintEnd - 1, {"R", "W", "V"})
           m3 == MapPage(m2, r, Uart, Uart, {"R", "W", "V"})
           m4 == MapRange(m3, r, RamStart, RamEnd - 1, {"R", "W", "X", "V"})
           A2 == {} \cup (ClintStart .. ClintEnd - 1)
           A3 == A2 \cup {Uart}
           A4 == A3 \cup (RamStart .. RamEnd - 1)
<1>1. MmuInit(m) = m4 /\ A4 = KernelVas
  BY DEF MmuInit, KernelVas, RamPages
<1>2. r \in ManagedPages /\ r # 0 /\ n \in Nat
  BY PageFacts DEF Heap, FreeListOK
<1>3. ImageKept(m, m1) /\ \E u1, n1 : RootMaps(use, n, m1, u1, n1, {})
  <2>1. PICK u1, n1 : /\ Heap(m1, u1, n1)
                      /\ Ext(m, use, m1, u1, {}, {r})
                      /\ ~m1.stuck => u1[r] = Top(r)
                      /\ OnePage(use, n, m1, u1, n1)
    BY TopPage
  <2>2. ~m1.stuck
    BY <1>2, HeapAlloc
  <2>3. u1[r].lv = 3
    BY <2>1, <2>2 DEF Top
  <2>4. \A p \in ManagedPages : u1[p].lv # LIMBO /\ (u1[p].lv = 3 => p = r)
    BY <2>1, <2>3 DEF Ext, FREE, LIMBO
  <2>5. ImageKept(m, m1)
    BY <1>2, <2>1, PageFacts DEF Ext, ImageKept
  <2> HIDE DEF m1
  <2>6. n1 \in Nat
    BY <2>1 DEF Heap, FreeListOK
  <2>7. Cost(use, n, m1, u1, n1, r, {}, 1)
    BY <1>2, <2>1, <2>6, CostStart
  <2> QED
    BY <2>1, <2>3, <2>4, <2>5, <2>7 DEF RootOnly, RootMaps
<1>4. /\ ClintStart \in Nat /\ ClintEnd - 1 \in Nat /\ ClintStart <= ClintEnd - 1
      /\ ClintEnd - 1 < RamEnd /\ Uart \in Nat /\ Uart < RamEnd
      /\ RamStart \in Nat /\ RamEnd - 1 \in Nat /\ RamStart <= RamEnd - 1 /\ RamEnd - 1 < RamEnd
  BY PageTablesAssumption
<1>5. /\ {"R", "W", "V"} \in SUBSET PteFlags /\ "V" \in {"R", "W", "V"}
      /\ {"R", "W", "X", "V"} \in SUBSET PteFlags /\ "V" \in {"R", "W", "X", "V"}
  BY DEF PteFlags
<1> HIDE DEF m1
<1>6. ImageKept(m1, m2) /\ \E u2, n2 : RootMaps(use, n, m2, u2, n2, A2)
  BY <1>2, <1>3, <1>4, <1>5, RootRange
<1> HIDE DEF m2, A2
<1>7. ImageKept(m2, m3) /\ \E u3, n3 : RootMaps(use, n, m3, u3, n3, A3)
  BY <1>2, <1>4, <1>5, <1>6, RootMap
<1> HIDE DEF m3, A3
<1>8. ImageKept(m3, m4) /\ \E u4, n4 : RootMaps(use, n, m4, u4, n4, A4)
  BY <1>2, <1>4, <1>5, <1>7, RootRange
<1> HIDE DEF m4, A4
<1>9. ImageKept(m, m4)
  BY <1>3, <1>6, <1>7, <1>8 DEF ImageKept
<1> QED
  BY <1>1, <1>8, <1>9

(***************************************************************************)
(* A page table being built.  Since the start (m0, use0), only free pages  *)
(* have changed: g is the new table, the pages S are allocated but not     *)
(* mapped yet, and g maps the virtual pages A.  It has cost c pages beside *)
(* the tables below it.                                                    *)
(***************************************************************************)
Grown(m0, use0, m, use) ==
    /\ \A p \in ManagedPages : use0[p].lv # FREE => use[p] = use0[p]
    /\ \A p \in RamPages : (p \in ManagedPages /\ use0[p].lv = FREE) \/ m.ram[p] = m0.ram[p]

Mappings(m, g, A) == \A v \in VirtualPages : Valid(LeafPte(m, g, v)) <=> v \in A

Working(m0, use0, m, use, g, S, A) ==
    /\ g \in ManagedPages /\ use0[g].lv = FREE /\ use[g].lv = 3
    /\ \A p \in ManagedPages : use0[p].lv = FREE =>
          (use[p].lv = LIMBO => p \in S) /\ (use[p].lv = 3 => p = g)
    /\ \A p \in S : p \in ManagedPages /\ use0[p].lv = FREE /\ use[p].lv = LIMBO
    /\ Mappings(m, g, A)

Build(m0, use0, n0, m, use, n, g, S, A, c) ==
    /\ Heap(m, use, n)
    /\ Grown(m0, use0, m, use)
    /\ Cost(use0, n0, m, use, n, g, A, c)
    /\ ~m.stuck => Working(m0, use0, m, use, g, S, A)

\* A memory that has grown since the start and grows further.
LEMMA GrownMore ==
    ASSUME NEW m0, NEW use0, NEW m, NEW use, NEW m2, NEW use2, NEW X, NEW Y,
           Grown(m0, use0, m, use), Ext(m, use, m2, use2, X, Y),
           \A p \in X \cup Y : p \in ManagedPages => use0[p].lv = FREE,
           \A p \in X : p \in ManagedPages
    PROVE  Grown(m0, use0, m2, use2)
BY DEF Grown, Ext

\* alloc_page of the new top table.
LEMMA BuildStart ==
    ASSUME NEW m, NEW use, NEW n, Heap(m, use, n), ~m.stuck
    PROVE  \E u1, n1 : Build(m, use, n, AllocPage(m), u1, n1, m.free_list, {}, {}, 1)
<1> DEFINE m1 == AllocPage(m)
           h  == m.free_list
<1>1. PICK u1, n1 : /\ Heap(m1, u1, n1)
                    /\ Ext(m, use, m1, u1, {}, {h})
                    /\ ~m1.stuck => /\ h \in ManagedPages /\ use[h].lv = FREE
                                    /\ u1[h] = Top(h) /\ m1.ram[h] = ZeroPage
                    /\ h = 0 \/ (h \in ManagedPages /\ use[h].lv = FREE)
                    /\ OnePage(use, n, m1, u1, n1)
  BY TopPage
<1> HIDE DEF m1, h
<1>2. Grown(m, use, m1, u1)
  BY <1>1, PageFacts DEF Grown, Ext
<1>3. ASSUME ~m1.stuck
      PROVE  Working(m, use, m1, u1, h, {}, {})
  <2>1. h \in ManagedPages /\ use[h].lv = FREE /\ u1[h].lv = 3 /\ m1.ram[h] = ZeroPage
    BY <1>1, <1>3 DEF Top
  <2>2. ASSUME NEW p \in ManagedPages, use[p].lv = FREE
        PROVE  u1[p].lv # LIMBO /\ (u1[p].lv = 3 => p = h)
    <3>1. CASE p = h
      BY <2>1, <3>1 DEF LIMBO
    <3>2. CASE p # h
      BY <1>1, <2>2, <3>2 DEF Ext, LIMBO, FREE
    <3> QED
      BY <3>1, <3>2
  <2>3. Mappings(m1, h, {})
    <3> SUFFICES ASSUME NEW v \in VirtualPages
                 PROVE  ~Valid(LeafPte(m1, h, v))
      BY DEF Mappings
    <3>1. ~Valid(m1.ram[h][Vpn(v, 2)])
      BY <2>1, VpnFacts, ZeroPageFacts
    <3> QED
      BY <3>1 DEF LeafPte, Plain, Valid, Flags
  <2> QED
    BY <2>1, <2>2, <2>3 DEF Working
<1>4. Cost(use, n, m1, u1, n1, h, {}, 1)
  <2>1. n \in Nat /\ n1 \in Nat
    BY <1>1 DEF Heap, FreeListOK
  <2> QED
    BY <1>1, <2>1, CostStart
<1>5. Build(m, use, n, m1, u1, n1, h, {}, {}, 1)
  BY <1>1, <1>2, <1>3, <1>4 DEF Build
<1> QED
  BY <1>5 DEF m1, h

\* alloc_page of a page that is not mapped yet.
LEMMA BuildAlloc ==
    ASSUME NEW m0, NEW use0, NEW n0 \in Nat, NEW m, NEW use, NEW n, NEW g, NEW A, NEW c,
           Build(m0, use0, n0, m, use, n, g, {}, A, c)
    PROVE  \E u1, n1 : Build(m0, use0, n0, AllocPage(m), u1, n1, g, {m.free_list}, A, c + 1)
<1> DEFINE m1 == AllocPage(m)
           h  == m.free_list
<1>1. /\ Heap(m, use, n) /\ Grown(m0, use0, m, use) /\ n \in Nat
      /\ Cost(use0, n0, m, use, n, g, A, c)
  BY DEF Build, Heap, FreeListOK
<1>2. CASE h = 0
  <2>1. Heap(m1, use, n) /\ m1.stuck /\ m1.ram = m.ram
    BY <1>1, <1>2, HeapOutOfMemory
  <2> HIDE DEF m1
  <2>2. Cost(use0, n0, m1, use, n, g, A, c + 1)
    <3>1. CASE m.stuck
      <4>1. A \in SUBSET VirtualPages /\ c + 1 \in Nat /\ c <= c + 1
        BY <1>1 DEF Cost
      <4> QED
        BY <1>1, <2>1, <3>1, <4>1, CostStuck
    <3>2. CASE ~m.stuck
      <4>1. OnePage(use, n, m1, use, n)
        BY <1>1, <1>2, <2>1, NoPage
      <4> QED
        BY <1>1, <3>2, <4>1, CostOne
    <3> QED
      BY <3>1, <3>2
  <2>3. Build(m0, use0, n0, m1, use, n, g, {h}, A, c + 1)
    BY <1>1, <2>1, <2>2 DEF Build, Grown
  <2> QED
    BY <2>3 DEF m1
<1>3. CASE h # 0
  <2> DEFINE u1 == [use EXCEPT ![h] = Limbo]
  <2>1. ~m.stuck
    BY <1>1, <1>3 DEF Heap
  <2>2. /\ h \in ManagedPages /\ use[h].lv = FREE
        /\ Heap(m1, u1, n - 1) /\ ~m1.stuck
        /\ m1.ram[h] = ZeroPage
        /\ \A q \in RamPages \ {h} : m1.ram[q] = m.ram[q]
    BY <1>1, <1>3, <2>1, HeapAlloc
  <2>3. u1[h] = Limbo /\ \A q \in ManagedPages \ {h} : u1[q] = use[q]
    BY <2>2 DEF Heap
  <2>4. Working(m0, use0, m, use, g, {}, A)
    BY <2>1 DEF Build
  <2> HIDE DEF m1, u1, h
  <2>5. use0[h].lv = FREE
    BY <1>1, <2>2 DEF Grown
  <2>6. Grown(m0, use0, m1, u1)
    BY <1>1, <2>2, <2>3, <2>5 DEF Grown
  <2>7. Mappings(m1, g, A)
    <3> SUFFICES ASSUME NEW v \in VirtualPages
                 PROVE  LeafPte(m1, g, v) = LeafPte(m, g, v)
      BY <2>4 DEF Working, Mappings
    <3>1. \A p \in TablesOf(use, g) : m1.ram[p] = m.ram[p]
      BY <2>2, PageFacts DEF TablesOf, FREE
    <3>2. g \in ManagedPages /\ use[g].lv = 3
      BY <2>4 DEF Working
    <3> QED
      BY <1>1, <3>1, <3>2, TreeLeaves
  <2>8. Working(m0, use0, m1, u1, g, {h}, A)
    <3>1. g \in ManagedPages /\ use0[g].lv = FREE /\ u1[g].lv = 3
      BY <2>2, <2>3, <2>4 DEF Working, FREE
    <3>2. \A p \in ManagedPages : use0[p].lv = FREE =>
              (u1[p].lv = LIMBO => p \in {h}) /\ (u1[p].lv = 3 => p = g)
      BY <2>3, <2>4 DEF Working, Limbo, LIMBO
    <3> QED
      BY <2>2, <2>3, <2>5, <2>7, <3>1, <3>2 DEF Working, Limbo
  <2>9. Cost(use0, n0, m1, u1, n - 1, g, A, c + 1)
    <3>1. OnePage(use, n, m1, u1, n - 1)
      BY <2>2, <2>3 DEF OnePage, Takes, Limbo, LIMBO
    <3>2. n - 1 \in Nat
      BY <2>2 DEF Heap, FreeListOK
    <3> QED
      BY <1>1, <2>1, <3>1, <3>2, CostOne
  <2>10. Build(m0, use0, n0, m1, u1, n - 1, g, {h}, A, c + 1)
    BY <2>2, <2>6, <2>8, <2>9 DEF Build
  <2> QED
    BY <2>10 DEF m1, h
<1> QED
  BY <1>2, <1>3

\* The bytes of the image are written to a page before it is mapped.
LEMMA BuildFill ==
    ASSUME NEW m0, NEW use0, NEW n0, NEW m, NEW use, NEW n, NEW g, NEW p, NEW A, NEW c,
           Build(m0, use0, n0, m, use, n, g, {p}, A, c), ~m.stuck, NEW words \in [Slots -> Word]
    PROVE  Build(m0, use0, n0, [m EXCEPT !.ram[p] = words], use, n, g, {p}, A, c)
<1> DEFINE m2 == [m EXCEPT !.ram[p] = words]
<1>1. Heap(m, use, n) /\ Grown(m0, use0, m, use) /\ Working(m0, use0, m, use, g, {p}, A)
  BY DEF Build
<1>2. p \in ManagedPages /\ use0[p].lv = FREE /\ use[p].lv = LIMBO /\ p \in RamPages
  BY <1>1, PageFacts DEF Working
<1>3. /\ m2 \in Mem /\ m2.free_list = m.free_list /\ m2.stuck = m.stuck
      /\ \A q \in RamPages \ {p} : m2.ram[q] = m.ram[q]
  <2>1. m \in Mem
    BY <1>1 DEF Heap
  <2>2. m2.ram = [m.ram EXCEPT ![p] = words] /\ m2.free_list = m.free_list /\ m2.stuck = m.stuck
    BY <2>1 DEF Mem
  <2>3. m2.ram \in [RamPages -> [Slots -> Word]]
    BY <2>1, <2>2 DEF Mem
  <2>4. m2 \in Mem
    BY <2>1, <2>3 DEF Mem
  <2> QED
    BY <2>1, <2>2, <2>4 DEF Mem
<1> HIDE DEF m2
<1>4. Heap(m2, use, n)
  <2>1. use[p].lv \in {LIMBO, 0}
    BY <1>2
  <2> QED
    BY <1>1, <1>2, <1>3, <2>1, HeapWrite
<1>5. Grown(m0, use0, m2, use)
  BY <1>1, <1>2, <1>3 DEF Grown
<1>6. Mappings(m2, g, A)
  <2> SUFFICES ASSUME NEW v \in VirtualPages
               PROVE  LeafPte(m2, g, v) = LeafPte(m, g, v)
    BY <1>1 DEF Working, Mappings
  <2>1. \A q \in TablesOf(use, g) : m2.ram[q] = m.ram[q]
    BY <1>2, <1>3, PageFacts DEF TablesOf, LIMBO
  <2>2. g \in ManagedPages /\ use[g].lv = 3
    BY <1>1 DEF Working
  <2> QED
    BY <1>1, <2>1, <2>2, TreeLeaves
<1>7. Cost(use0, n0, m2, use, n, g, A, c)
  BY <1>3 DEF Build, Cost, Ledger
<1> QED
  BY <1>1, <1>4, <1>5, <1>6, <1>7 DEF Build, Working, m2

(***************************************************************************)
(* The tables of a new tree were free before.                              *)
(***************************************************************************)
LEMMA NewTables ==
    ASSUME NEW m0, NEW use0, NEW n0, Heap(m0, use0, n0),
           NEW m, NEW use, Grown(m0, use0, m, use), NEW g, use0[g].lv = FREE
    PROVE  \A p \in TablesOf(use, g) : use0[p].lv = FREE
<1> SUFFICES ASSUME NEW p \in TablesOf(use, g), use0[p].lv # FREE
             PROVE  FALSE
  OBVIOUS
<1>1. p \in ManagedPages /\ use0[p].lv > 0 /\ use0[p].tree = g
  BY DEF Grown, TablesOf
<1>2. use0[p].lv \in 1 .. 3
  BY <1>1 DEF Heap, Use
<1>3. CASE use0[p].lv = 3
  BY <1>1, <1>3 DEF Heap, TopsOK, FREE
<1>4. CASE use0[p].lv # 3
  <2>1. use0[p].lv \in 0 .. 2
    BY <1>2, <1>4
  <2>2. MidOf(use0, p) \in ManagedPages /\ use0[MidOf(use0, p)].lv = 2 /\ use0[MidOf(use0, p)].up = g
    BY <1>1, <2>1, PathFacts
  <2>3. use0[g].lv = 3
    BY <2>2 DEF Heap, ParentsOK, ParentOK
  <2> QED
    BY <2>3 DEF FREE
<1> QED
  BY <1>3, <1>4

\* map_page of the page that was allocated for it.
LEMMA BuildMapNew ==
    ASSUME NEW m0, NEW use0, NEW n0, Heap(m0, use0, n0), use0[root_page_table].lv = 3,
           NEW m, NEW use, NEW n, NEW g, NEW p, NEW A, NEW c,
           Build(m0, use0, n0, m, use, n, g, {p}, A, c),
           NEW va \in VirtualPages, va \notin A,
           NEW flags \in SUBSET PteFlags, {"R", "V"} \subseteq flags
    PROVE  \E use2, n2 : Build(m0, use0, n0, MapPage(m, g, va, p, flags), use2, n2, g, {},
                               A \cup {va}, c)
<1> DEFINE m2 == MapPage(m, g, va, p, flags)
<1>1. /\ Heap(m, use, n) /\ Grown(m0, use0, m, use) /\ n \in Nat /\ n0 \in Nat
      /\ Cost(use0, n0, m, use, n, g, A, c) /\ A \in SUBSET VirtualPages /\ c \in Nat
  BY DEF Build, Heap, FreeListOK, Cost
<1>2. CASE m.stuck
  <2>1. m2 = m
    BY <1>2, MapPageStuck
  <2>2. Cost(use0, n0, m, use, n, g, A \cup {va}, c)
    BY <1>1, <1>2, CostStuck
  <2>3. Build(m0, use0, n0, m, use, n, g, {}, A \cup {va}, c)
    BY <1>1, <1>2, <2>2 DEF Build
  <2> QED
    BY <2>1, <2>3
<1>3. CASE ~m.stuck
  <2>1. Working(m0, use0, m, use, g, {p}, A)
    BY <1>3 DEF Build
  <2>2. /\ g \in ManagedPages /\ use0[g].lv = FREE /\ use[g].lv = 3 /\ g # root_page_table
        /\ p \in ManagedPages /\ use0[p].lv = FREE /\ use[p].lv = LIMBO /\ p \in Int
    BY <2>1, PageFacts DEF Working, FREE
  <2>3. MayMap(m, use, g, va, p, flags)
    BY <2>1, <2>2 DEF MayMap, Working, Mappings
  <2>4. PICK use2, n2 : MapPageDone(m, use, n, m2, use2, n2, g, va, p, flags)
    BY <1>1, <1>3, <2>2, <2>3, MapPageHeap
  <2> HIDE DEF m2
  <2>5. Heap(m2, use2, n2) /\ Ext(m, use, m2, use2, TablesOf(use, g), {p})
    BY <2>2, <2>4 DEF MapPageDone
  <2>6. Grown(m0, use0, m2, use2)
    <3>1. \A q \in TablesOf(use, g) \cup {p} : q \in ManagedPages => use0[q].lv = FREE
      BY <1>1, <2>2, NewTables
    <3>2. \A q \in TablesOf(use, g) : q \in ManagedPages
      BY DEF TablesOf
    <3> QED
      BY <1>1, <2>5, <3>1, <3>2, GrownMore
  <2>7. ASSUME ~m2.stuck
        PROVE  Working(m0, use0, m2, use2, g, {}, A \cup {va})
    <3>1. /\ use2[p].lv = 0 /\ LeafPte(m2, g, va) = PaToPte(p, flags \cup {"A", "D"})
          /\ OtherLeaves(m, use, m2, g, va)
      BY <2>2, <2>4, <2>7 DEF MapPageDone
    <3>2. use2[g].lv = 3
      BY <2>2, <2>5 DEF Ext, FREE, LIMBO
    <3>3. ASSUME NEW q \in ManagedPages, use0[q].lv = FREE
          PROVE  use2[q].lv # LIMBO /\ (use2[q].lv = 3 => q = g)
      <4>1. CASE q = p
        BY <3>1, <4>1 DEF LIMBO
      <4>2. CASE q # p /\ use[q].lv = FREE
        BY <2>5, <4>2 DEF Ext, FREE, LIMBO
      <4>3. CASE q # p /\ use[q].lv # FREE
        BY <2>1, <2>5, <3>3, <4>3 DEF Ext, Working
      <4> QED
        BY <4>1, <4>2, <4>3
    <3>4. Mappings(m2, g, A \cup {va})
      <4> SUFFICES ASSUME NEW v \in VirtualPages
                   PROVE  Valid(LeafPte(m2, g, v)) <=> v \in A \cup {va}
        BY DEF Mappings
      <4>1. CASE v = va
        BY <3>1, <4>1 DEF Valid, Flags, PaToPte
      <4>2. CASE v # va
        <5>1. LeafPte(m2, g, v) = LeafPte(m, g, v)
          BY <2>2, <3>1, <4>2 DEF OtherLeaves
        <5> QED
          BY <2>1, <4>2, <5>1 DEF Working, Mappings
      <4> QED
        BY <4>1, <4>2
    <3> QED
      BY <2>2, <3>2, <3>3, <3>4 DEF Working
  <2>8. Cost(use0, n0, m2, use2, n2, g, A \cup {va}, c)
    <3>1. n2 \in Nat /\ Adds(m, use, n, m2, use2, n2, g, {va})
      BY <1>1, <2>4, <2>5, MapPageUses DEF MapPageDone, Adds, Heap, FreeListOK
    <3>2. \A v \in A : Valid(LeafPte(m, g, v))
      BY <1>1, <2>1 DEF Working, Mappings
    <3>3. {va} \in SUBSET VirtualPages
      OBVIOUS
    <3> QED
      BY <1>1, <1>3, <3>1, <3>2, <3>3, CostAdds
  <2>9. Build(m0, use0, n0, m2, use2, n2, g, {}, A \cup {va}, c)
    BY <2>5, <2>6, <2>7, <2>8 DEF Build
  <2> QED
    BY <2>9 DEF m2
<1> QED
  BY <1>2, <1>3

\* map_range of pages of the kernel image, which are never the allocator's.
LEMMA BuildMapImage ==
    ASSUME NEW m0, NEW use0, NEW n0, Heap(m0, use0, n0), use0[root_page_table].lv = 3,
           NEW m, NEW use, NEW n, NEW g, NEW S, NEW A, NEW c,
           Build(m0, use0, n0, m, use, n, g, S, A, c),
           NEW first \in Nat, NEW last \in Nat, first <= last,
           \A v \in first .. last : v \in ImageFrames /\ v \notin A,
           NEW flags \in SUBSET PteFlags, {"R", "V"} \subseteq flags, "W" \notin flags
    PROVE  \E use2, n2 : Build(m0, use0, n0, MapRange(m, g, first, last, flags), use2, n2, g, S,
                               A \cup (first .. last), c)
<1> DEFINE m2 == MapRange(m, g, first, last, flags)
           B  == A \cup (first .. last)
<1>1. /\ Heap(m, use, n) /\ Grown(m0, use0, m, use) /\ n \in Nat /\ n0 \in Nat
      /\ Cost(use0, n0, m, use, n, g, A, c) /\ A \in SUBSET VirtualPages /\ c \in Nat
  BY DEF Build, Heap, FreeListOK, Cost
<1>2. first .. last \in SUBSET VirtualPages /\ B \in SUBSET VirtualPages /\ A \subseteq B
  BY <1>1, PageTablesAssumption DEF VirtualPages, ImageFrames
<1>3. CASE m.stuck
  <2>1. m2 = m
    BY <1>3, MapRangeStuck
  <2>2. Cost(use0, n0, m, use, n, g, B, c)
    BY <1>1, <1>3, <1>2, CostStuck
  <2>3. Build(m0, use0, n0, m, use, n, g, S, B, c)
    BY <1>1, <1>3, <2>2 DEF Build
  <2> QED
    BY <2>1, <2>3
<1>4. CASE ~m.stuck
  <2>1. Working(m0, use0, m, use, g, S, A)
    BY <1>4 DEF Build
  <2>2. /\ g \in ManagedPages /\ use0[g].lv = FREE /\ use[g].lv = 3 /\ g # root_page_table
    BY <2>1, PageFacts DEF Working, FREE
  <2>3. MayMapRange(m, use, g, first, last, flags)
    <3> SUFFICES ASSUME NEW v \in first .. last
                 PROVE  MayMap(m, use, g, v, v, flags) /\ v \in ImageFrames
      BY DEF MayMapRange
    <3>1. v \in ImageFrames /\ v \notin A /\ v \in Int
      OBVIOUS
    <3>2. v \in VirtualPages
      BY <3>1, PageTablesAssumption DEF VirtualPages, ImageFrames
    <3> QED
      BY <2>1, <3>1, <3>2 DEF MayMap, Working, Mappings
  <2>4. PICK use2, n2 : RangeDone(m, use, n, m2, use2, n2, g, first, last - first + 1, flags)
    BY <1>1, <1>4, <2>2, <2>3, MapRangeHeap
  <2> HIDE DEF m2
  <2>5. Heap(m2, use2, n2) /\ Ext(m, use, m2, use2, TablesOf(use, g), {})
    BY <2>4 DEF RangeDone
  <2>6. Grown(m0, use0, m2, use2)
    <3>1. \A q \in TablesOf(use, g) \cup {} : q \in ManagedPages => use0[q].lv = FREE
      BY <1>1, <2>2, NewTables
    <3>2. \A q \in TablesOf(use, g) : q \in ManagedPages
      BY DEF TablesOf
    <3> QED
      BY <1>1, <2>5, <3>1, <3>2, GrownMore
  <2>7. ASSUME ~m2.stuck
        PROVE  Working(m0, use0, m2, use2, g, S, B)
    <3>1. first .. first + (last - first + 1) - 1 = first .. last
      OBVIOUS
    <3>2. use2[g].lv = 3
      BY <2>2, <2>5 DEF Ext, FREE
    <3>3. ASSUME NEW q \in ManagedPages, use0[q].lv = FREE
          PROVE  (use2[q].lv = LIMBO => q \in S) /\ (use2[q].lv = 3 => q = g)
      <4>1. CASE use[q].lv = FREE
        BY <2>5, <4>1 DEF Ext, FREE, LIMBO
      <4>2. CASE use[q].lv # FREE
        BY <2>1, <2>5, <3>3, <4>2 DEF Ext, Working
      <4> QED
        BY <4>1, <4>2
    <3>4. \A q \in S : q \in ManagedPages /\ use0[q].lv = FREE /\ use2[q].lv = LIMBO
      BY <2>1, <2>5 DEF Ext, Working, FREE, LIMBO
    <3>5. Mappings(m2, g, B)
      <4> SUFFICES ASSUME NEW v \in VirtualPages
                   PROVE  Valid(LeafPte(m2, g, v)) <=> v \in B
        BY DEF Mappings
      <4>1. CASE v \in first .. last
        <5>1. LeafPte(m2, g, v) = PaToPte(v, flags \cup {"A", "D"})
          BY <2>4, <2>7, <3>1, <4>1 DEF RangeDone
        <5> QED
          BY <4>1, <5>1 DEF Valid, Flags, PaToPte
      <4>2. CASE v \notin first .. last
        <5>1. LeafPte(m2, g, v) = LeafPte(m, g, v)
          BY <2>2, <2>4, <3>1, <4>2 DEF RangeDone
        <5> QED
          BY <2>1, <4>2, <5>1 DEF Working, Mappings
      <4> QED
        BY <4>1, <4>2
    <3> HIDE DEF B
    <3> QED
      BY <2>2, <3>2, <3>3, <3>4, <3>5 DEF Working
  <2>8. Cost(use0, n0, m2, use2, n2, g, B, c)
    <3>1. first .. first + (last - first + 1) - 1 = first .. last
      OBVIOUS
    <3>2. n2 \in Nat /\ Adds(m, use, n, m2, use2, n2, g, first .. last)
      BY <2>4, <2>5, <3>1 DEF RangeDone, Heap, FreeListOK
    <3>3. \A v \in A : Valid(LeafPte(m, g, v))
      BY <1>1, <2>1 DEF Working, Mappings
    <3> QED
      BY <1>1, <1>4, <1>2, <3>2, <3>3, CostAdds
  <2>9. Build(m0, use0, n0, m2, use2, n2, g, S, B, c)
    BY <2>5, <2>6, <2>7, <2>8 DEF Build
  <2> QED
    BY <2>9 DEF m2
<1> QED
  BY <1>3, <1>4
=============================================================================
