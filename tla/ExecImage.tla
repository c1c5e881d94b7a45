----------------------------- MODULE ExecImage -----------------------------
(***************************************************************************)
(* task_exec of kernel/exec.c as far as it looks at the ELF image:         *)
(* validate_exec_image and the loop that cuts the segments into pages and  *)
(* copies them.  Addresses and sizes are unsigned words that wrap around,  *)
(* as uint64_t does.  The page tables below and the switch to the new      *)
(* program are the subject of modules PageTables, Memory and Kernel.       *)
(*                                                                         *)
(* Abstractions.  A byte of memory is the offset of the byte of the file   *)
(* that was copied there, or ZERO.  Program headers are given beside the   *)
(* file they are part of.                                                  *)
(***************************************************************************)
EXTENDS Integers, Sequences

CONSTANTS
    WORD,           \* 2^64: what words are counted modulo
    PAGE_SIZE,
    SV_SIZE,        \* 2^39: the size of the virtual address space
    PHDR_SIZE,      \* sizeof(Elf64_Phdr)
    EHDR_SIZE,      \* sizeof(Elf64_Ehdr)
    app_elf_len,
    USER_RW_PAGE_VA, USER_STACK_TOP, USER_RO_PAGE_VA,
    Images          \* the images to try: records of magic and e_phentsize,
                    \* e_phoff, e_entry and the sequence phdr

ASSUME ExecImageAssumption ==
    /\ {WORD, PAGE_SIZE, SV_SIZE, PHDR_SIZE, EHDR_SIZE} \subseteq Nat \ {0}
    /\ WORD % SV_SIZE = 0 /\ SV_SIZE % (2 * PAGE_SIZE) = 0
    /\ app_elf_len \in 0 .. WORD - 1
    /\ \A va \in {USER_RW_PAGE_VA, USER_STACK_TOP, USER_RO_PAGE_VA} :
          va \in PAGE_SIZE * 2 .. SV_SIZE \div 2 - PAGE_SIZE /\ va % PAGE_SIZE = 0

\* Fields are words; what they say is left open, but that e_phnum has 16 bits
\* and that an alignment, if there is one, is a power of two.
ASSUME ImagesAssumption ==
    \A im \in Images :
        /\ {im.e_phoff, im.e_entry} \subseteq 0 .. WORD - 1
        /\ im.phdr \in Seq([p_type : Nat, p_flags : SUBSET {"R", "W", "X"},
                            p_offset : 0 .. WORD - 1, p_vaddr : 0 .. WORD - 1,
                            p_filesz : 0 .. WORD - 1, p_memsz : 0 .. WORD - 1,
                            p_align : 0 .. WORD - 1])
        /\ Len(im.phdr) * PHDR_SIZE < WORD
        /\ \A k \in DOMAIN im.phdr :
              im.phdr[k].p_align = 0 \/ WORD % im.phdr[k].p_align = 0

VARIABLES
    image,
    pc,        \* the part of task_exec that is next
    i,         \* the loop index, from 1
    entry_ok,
    page,      \* the loop index of the inner loading loop
    space      \* what the new page table maps: by page number, the permissions
               \* and the bytes

vars == <<image, pc, i, entry_ok, page, space>>

ZERO == -1

Word == 0 .. WORD - 1

Add(a, b) == (a + b) % WORD
Sub(a, b) == (a - b) % WORD

RoundDown(a) == a - (a % PAGE_SIZE)

\* (a + 0xFFF) & ~0xFFF, in words.
RoundUp(a) == RoundDown(Add(a, PAGE_SIZE - 1))

\* Mutant: the upper bits are not masked.
BugPageIndex(va) == va \div PAGE_SIZE

\* The entry of the page tables that get_vpn finds for an address.
PageIndex(va) == (va % SV_SIZE) \div PAGE_SIZE

RangesOverlap(start_a, end_a, start_b, end_b) == start_a < end_b /\ start_b < end_a

-----------------------------------------------------------------------------
(***************************************************************************)
(* validate_exec_image                                                     *)
(***************************************************************************)

\* Mutant: an end that wraps around is not noticed.
BugInFile(offset, size) == Add(offset, size) <= app_elf_len

\* The test for the header table and for the bytes of a segment: they lie in
\* the file, and the sum did not wrap around.
InFile(offset, size) ==
    /\ Add(offset, size) <= app_elf_len
    /\ Add(offset, size) >= offset

HeaderOk ==
    /\ image.magic
    /\ app_elf_len >= EHDR_SIZE
    /\ image.e_phentsize = PHDR_SIZE
    /\ InFile(image.e_phoff, Len(image.phdr) * PHDR_SIZE)

Loadable(ph) == ph.p_type = 1

SegEnd(ph) == Add(ph.p_vaddr, ph.p_memsz)

\* Mutant: the guard page below the stack is not reserved.
BugOverlapsReserved(ph) ==
    \/ RangesOverlap(ph.p_vaddr, SegEnd(ph), USER_STACK_TOP - PAGE_SIZE, USER_STACK_TOP)
    \/ RangesOverlap(ph.p_vaddr, SegEnd(ph), USER_RW_PAGE_VA, USER_RW_PAGE_VA + PAGE_SIZE)
    \/ RangesOverlap(ph.p_vaddr, SegEnd(ph), USER_RO_PAGE_VA, USER_RO_PAGE_VA + PAGE_SIZE)

OverlapsReserved(ph) ==
    \/ RangesOverlap(ph.p_vaddr, SegEnd(ph), USER_STACK_TOP - 2 * PAGE_SIZE, USER_STACK_TOP)
    \/ RangesOverlap(ph.p_vaddr, SegEnd(ph), USER_RW_PAGE_VA, USER_RW_PAGE_VA + PAGE_SIZE)
    \/ RangesOverlap(ph.p_vaddr, SegEnd(ph), USER_RO_PAGE_VA, USER_RO_PAGE_VA + PAGE_SIZE)

\* Mutant: the ends are compared byte by byte, not page by page.
BugSharePage(ph, other) ==
    RangesOverlap(ph.p_vaddr, SegEnd(ph), other.p_vaddr, SegEnd(other))

SharePage(ph, other) ==
    RangesOverlap(RoundDown(ph.p_vaddr), RoundUp(SegEnd(ph)),
                  RoundDown(other.p_vaddr), RoundUp(SegEnd(other)))

\* The checks of one iteration, for an alignment that is a power of two.
SegmentOk(k) ==
    LET ph == image.phdr[k] IN
    /\ ph.p_filesz <= ph.p_memsz
    /\ InFile(ph.p_offset, ph.p_filesz)
    /\ ph.p_align # 0 => Sub(ph.p_vaddr, ph.p_offset) % ph.p_align = 0
    /\ SegEnd(ph) >= ph.p_vaddr
    /\ ~OverlapsReserved(ph)
    /\ \A j \in k + 1 .. Len(image.phdr) :
          Loadable(image.phdr[j]) => ~SharePage(ph, image.phdr[j])

HasEntry(ph) == image.e_entry >= ph.p_vaddr /\ image.e_entry < SegEnd(ph)

Init ==
    /\ image \in Images
    /\ pc = "header" /\ i = 1 /\ entry_ok = FALSE /\ page = 0
    /\ space = [p \in {} |-> 0]

CheckHeader ==
    /\ pc = "header"
    /\ pc' = IF HeaderOk THEN "segment" ELSE "rejected"
    /\ UNCHANGED <<image, i, entry_ok, page, space>>

CheckSegment ==
    /\ pc = "segment" /\ i <= Len(image.phdr)
    /\ LET ph == image.phdr[i] IN
       IF Loadable(ph) /\ ~SegmentOk(i)
       THEN pc' = "rejected" /\ UNCHANGED <<i, entry_ok>>
       ELSE /\ pc' = pc /\ i' = i + 1
            /\ entry_ok' = (entry_ok \/ (Loadable(ph) /\ HasEntry(ph)))
    /\ UNCHANGED <<image, page, space>>

BlankPage == [b \in 0 .. PAGE_SIZE - 1 |-> ZERO]

\* The end of the loop; then the new page table gets the stack.
CheckEntry ==
    /\ pc = "segment" /\ i > Len(image.phdr)
    /\ i' = 1
    /\ IF entry_ok
       THEN /\ pc' = "load"
            /\ space' = [p \in {PageIndex(USER_STACK_TOP - PAGE_SIZE)} |->
                            [flags |-> {"R", "W"}, bytes |-> BlankPage]]
       ELSE pc' = "rejected" /\ UNCHANGED space
    /\ UNCHANGED <<image, entry_ok, page>>

-----------------------------------------------------------------------------
(***************************************************************************)
(* The loading loop of task_exec.                                          *)
(***************************************************************************)

phdr == image.phdr[i]

CopyStart == IF page > phdr.p_vaddr THEN page ELSE phdr.p_vaddr

FileEnd == Add(phdr.p_vaddr, phdr.p_filesz)

CopyEnd == IF Add(page, PAGE_SIZE) < FileEnd THEN Add(page, PAGE_SIZE) ELSE FileEnd

\* Mutant: every page is filled from the start of the segment.
BugSrcOffset == phdr.p_offset

SrcOffset == Add(phdr.p_offset, Sub(CopyStart, phdr.p_vaddr))

\* A zeroed page into which the bytes from CopyStart to CopyEnd are copied.
FilledPage ==
    LET first == CopyStart % PAGE_SIZE IN
    [b \in 0 .. PAGE_SIZE - 1 |->
        IF CopyStart < CopyEnd /\ b \in first .. first + CopyEnd - CopyStart - 1
        THEN SrcOffset + b - first ELSE ZERO]

LoadSegment ==
    /\ pc = "load" /\ i <= Len(image.phdr)
    /\ IF Loadable(phdr)
       THEN pc' = "page" /\ page' = RoundDown(phdr.p_vaddr) /\ i' = i
       ELSE i' = i + 1 /\ UNCHANGED <<pc, page>>
    /\ UNCHANGED <<image, entry_ok, space>>

\* Mutant: the last address is compared, which is the last word of all when
\* the end has wrapped around.
BugMorePages == page <= Sub(RoundUp(SegEnd(phdr)), 1)

MorePages == page < RoundUp(SegEnd(phdr))

LoadPage ==
    /\ pc = "page" /\ MorePages
    /\ space' = [p \in DOMAIN space \cup {PageIndex(page)} |->
                    IF p = PageIndex(page)
                    THEN [flags |-> phdr.p_flags, bytes |-> FilledPage]
                    ELSE space[p]]
    /\ page' = Add(page, PAGE_SIZE)
    /\ UNCHANGED <<image, pc, i, entry_ok>>

EndSegment ==
    /\ pc = "page" /\ ~MorePages
    /\ pc' = "load" /\ i' = i + 1
    /\ UNCHANGED <<image, entry_ok, page, space>>

Finish ==
    /\ pc = "load" /\ i > Len(image.phdr)
    /\ pc' = "done"
    /\ UNCHANGED <<image, i, entry_ok, page, space>>

Next ==
    \/ CheckHeader \/ CheckSegment \/ CheckEntry
    \/ LoadSegment \/ LoadPage \/ EndSegment \/ Finish

Spec == Init /\ [][Next]_vars

\* Nothing else runs while a handler does.
FairSpec == Spec /\ WF_vars(Next)

-----------------------------------------------------------------------------
(***************************************************************************)
(* What an image means: plain numbers and sets, no words that wrap.        *)
(***************************************************************************)

Segments == {k \in DOMAIN image.phdr : Loadable(image.phdr[k])}

Addresses(k) ==
    LET ph == image.phdr[k] IN ph.p_vaddr .. ph.p_vaddr + ph.p_memsz - 1

PagesOf(addresses) == {va \div PAGE_SIZE : va \in addresses}

ReservedPages ==
    PagesOf({USER_RW_PAGE_VA, USER_RO_PAGE_VA,
             USER_STACK_TOP - 1, USER_STACK_TOP - PAGE_SIZE - 1})

StackPage == (USER_STACK_TOP - 1) \div PAGE_SIZE

\* The user half of the address space, where app.ld puts the program.
InUserHalf ==
    \A k \in Segments : image.phdr[k].p_vaddr + image.phdr[k].p_memsz <= SV_SIZE \div 2

\* Validation does not say what it thinks of a segment without memory.
NoEmptySegment == \A k \in Segments : image.phdr[k].p_memsz > 0

WellFormed ==
    /\ image.magic /\ image.e_phentsize = PHDR_SIZE /\ EHDR_SIZE <= app_elf_len
    /\ image.e_phoff + Len(image.phdr) * PHDR_SIZE <= app_elf_len
    /\ \A k \in Segments :
        LET ph == image.phdr[k] IN
        /\ ph.p_filesz <= ph.p_memsz
        /\ ph.p_offset + ph.p_filesz <= app_elf_len
        /\ ph.p_align = 0 \/ (ph.p_vaddr - ph.p_offset) % ph.p_align = 0
        /\ PagesOf(Addresses(k)) \cap ReservedPages = {}
        /\ \A l \in Segments \ {k} :
              PagesOf(Addresses(k)) \cap PagesOf(Addresses(l)) = {}
    /\ \E k \in Segments : image.e_entry \in Addresses(k)

\* The byte that belongs at an address: the file's, or zero.
Expected(va) ==
    LET from == {k \in Segments : va \in image.phdr[k].p_vaddr ..
                                   image.phdr[k].p_vaddr + image.phdr[k].p_filesz - 1}
    IN  IF from = {} THEN ZERO
        ELSE LET ph == image.phdr[CHOOSE k \in from : TRUE]
             IN  ph.p_offset + va - ph.p_vaddr

ExpectedPage(p) ==
    [flags |-> IF p = StackPage THEN {"R", "W"}
               ELSE image.phdr[CHOOSE k \in Segments : p \in PagesOf(Addresses(k))].p_flags,
     bytes |-> [b \in 0 .. PAGE_SIZE - 1 |-> Expected(p * PAGE_SIZE + b)]]

Accepted == pc \in {"load", "page", "done"}

-----------------------------------------------------------------------------
\* Every variable has its type; a loop index that wrapped is still a word.
TypeOK ==
    /\ pc \in {"header", "segment", "load", "page", "done", "rejected"}
    /\ i \in 1 .. Len(image.phdr) + 1
    /\ entry_ok \in BOOLEAN
    /\ page \in Word
    /\ \A p \in DOMAIN space :
          /\ p \in 0 .. SV_SIZE \div PAGE_SIZE - 1
          /\ DOMAIN space[p].bytes = 0 .. PAGE_SIZE - 1

(***************************************************************************)
(* The checks of validate_exec_image, made with words that wrap (exec.c:   *)
(* 48-110), accept exactly the images that are well formed in plain        *)
(* arithmetic, as long as segments have some memory and keep to the user   *)
(* half.  This is what module Memory assumes of an image.                  *)
(***************************************************************************)
VerdictIsRight ==
    InUserHalf /\ NoEmptySegment =>
        (Accepted => WellFormed) /\ (pc = "rejected" => ~WellFormed)

(***************************************************************************)
(* The copying loop reads inside the file and writes inside the page it    *)
(* has allocated (exec.c:164-169), for every image that is accepted.       *)
(***************************************************************************)
CopyStaysInBounds ==
    pc = "page" /\ MorePages /\ CopyStart < CopyEnd =>
        /\ (CopyStart % PAGE_SIZE) + CopyEnd - CopyStart <= PAGE_SIZE
        /\ SrcOffset + CopyEnd - CopyStart <= app_elf_len

(***************************************************************************)
(* The program gets its stack and the pages of its segments, no others,    *)
(* and every byte of them is the file's or zero (exec.c:141-173).          *)
(***************************************************************************)
LoadedExactly ==
    pc = "done" /\ InUserHalf /\ NoEmptySegment =>
        /\ DOMAIN space = {StackPage} \cup UNION {PagesOf(Addresses(k)) : k \in Segments}
        /\ \A p \in DOMAIN space : space[p] = ExpectedPage(p)

(***************************************************************************)
(* map_page never overwrites an entry (mmu.c:68): the page below it would  *)
(* be lost.                                                                *)
(***************************************************************************)
NoPageMappedTwice ==
    [][InUserHalf => \A p \in DOMAIN space : space'[p] = space[p]]_vars

(***************************************************************************)
(* exec ends for every image, with a loop index that wraps around          *)
(* (exec.c:153): it runs with interrupts off.                              *)
(***************************************************************************)
ExecEnds == <>(pc \in {"rejected", "done"})

(***************************************************************************)
(* What the rejection "Entry point is not inside a loadable segment"       *)
(* (exec.c:114) is for: a program that is started has its first            *)
(* instruction mapped, at an address that the hardware translates.         *)
(***************************************************************************)
EntryIsMapped ==
    pc = "done" =>
        /\ image.e_entry < SV_SIZE \div 2 \/ image.e_entry >= WORD - SV_SIZE \div 2
        /\ PageIndex(image.e_entry) \in DOMAIN space
=============================================================================
