---------------------------- MODULE MCExecImage ----------------------------
(***************************************************************************)
(* Module ExecImage with words of 7 bits, pages of 4 bytes and a virtual   *)
(* address space of 64 bytes, whose user half has the image at the bottom, *)
(* then the read-write page, the guard page, the stack and the read-only   *)
(* page.  The images have two program headers with fields at the           *)
(* boundaries of pages, of the reserved pages, of the file and of words.   *)
(***************************************************************************)
EXTENDS ExecImage

Ph(type, flags, offset, vaddr, filesz, memsz, align) ==
    [p_type |-> type, p_flags |-> flags, p_offset |-> offset, p_vaddr |-> vaddr,
     p_filesz |-> filesz, p_memsz |-> memsz, p_align |-> align]

FirstHeaders ==
    {Ph(1, {"R", "X"}, o, v, f, s, a) :
        o \in {0, 3, 126}, v \in {1, 4, 10, 15, 24, 84, 85, 124},
        f \in {0, 2, 4}, s \in {0, 1, 3, 6, 120}, a \in {0, 4}}

SecondHeaders ==
    {Ph(1, {"R", "W"}, 1, v, f, s, 1) :
        v \in {0, 5, 12, 16, 25, 127}, f \in {0, 3}, s \in {2, 4}}
    \cup {Ph(4, {}, 0, 0, 5, 2, 0)}

ImageWith(magic, phentsize, phoff, entry, headers) ==
    [magic |-> magic, e_phentsize |-> phentsize, e_phoff |-> phoff,
     e_entry |-> entry, phdr |-> headers]

Good == <<Ph(1, {"R", "X"}, 2, 1, 4, 6, 1), Ph(4, {}, 0, 0, 5, 2, 0)>>

BoundaryImages ==
    {ImageWith(TRUE, 2, 1, e, <<a, b>>) :
        e \in {1, 5, 25, 125}, a \in FirstHeaders, b \in SecondHeaders}
    \cup {ImageWith(m, s, o, 1, Good) :
        m \in BOOLEAN, s \in {1, 2}, o \in {1, 2, 3, 124, 126}}
=============================================================================
