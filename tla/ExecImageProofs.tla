-------------------------- MODULE ExecImageProofs --------------------------
(***************************************************************************)
(* Theorems about module ExecImage, for every width of words, every page   *)
(* size, every file length and every image.                                *)
(***************************************************************************)
EXTENDS ExecImage, TLAPS

\* A remainder is determined by the multiple below it.
LEMMA Remainder ==
    ASSUME NEW n \in Nat \ {0}, NEW q \in Int, NEW r \in 0 .. n - 1
    PROVE  (q * n + r) % n = r /\ (q * n + r) \div n = q
<1> DEFINE x == q * n + r
           d == x \div n
           m == x % n
<1>1. x \in Int /\ d \in Int /\ m \in 0 .. n - 1 /\ x = n * d + m
  OBVIOUS
<1>2. n * (q - d) = m - r
  BY <1>1
<1>3. CASE q - d >= 1
  BY <1>1, <1>2, <1>3
<1>4. CASE q - d <= -1
  BY <1>1, <1>2, <1>4
<1>5. CASE q = d
  BY <1>1, <1>2, <1>5
<1> QED
  BY <1>1, <1>3, <1>4, <1>5

\* The same of a number that lies above a multiple.
LEMMA RemainderAbove ==
    ASSUME NEW n \in Nat \ {0}, NEW q \in Int, NEW x \in Int,
           q * n <= x, x < q * n + n
    PROVE  x % n = x - q * n
<1> DEFINE r == x - q * n
<1>1. r \in 0 .. n - 1 /\ x = q * n + r
  OBVIOUS
<1> HIDE DEF r
<1>2. (q * n + r) % n = r
  BY <1>1, Remainder
<1>3. x % n = r
  BY <1>1, <1>2
<1> QED
  BY <1>3 DEF r

\* The address space is made of pages, and words of address spaces.
LEMMA Sizes ==
    /\ WORD \in Nat \ {0} /\ PAGE_SIZE \in Nat \ {0} /\ SV_SIZE \in Nat \ {0}
    /\ \E q \in Nat : SV_SIZE = q * PAGE_SIZE
    /\ \E q \in Nat : WORD = q * PAGE_SIZE
    /\ {PHDR_SIZE, EHDR_SIZE} \subseteq Nat \ {0} /\ app_elf_len \in Nat
<1>1. /\ WORD \in Nat \ {0} /\ PAGE_SIZE \in Nat \ {0} /\ SV_SIZE \in Nat \ {0}
      /\ {PHDR_SIZE, EHDR_SIZE} \subseteq Nat \ {0} /\ app_elf_len \in Nat
      /\ WORD % SV_SIZE = 0 /\ SV_SIZE % (2 * PAGE_SIZE) = 0
  BY ExecImageAssumption
<1> DEFINE p == 2 * PAGE_SIZE
           s == SV_SIZE \div p
           w == WORD \div SV_SIZE
<1>2. s \in Nat /\ SV_SIZE = s * p
  BY <1>1
<1>3. w \in Nat /\ WORD = w * SV_SIZE
  BY <1>1
<1>4. 2 * s \in Nat /\ SV_SIZE = (2 * s) * PAGE_SIZE
  BY <1>1, <1>2
<1>5. w * (2 * s) \in Nat /\ WORD = (w * (2 * s)) * PAGE_SIZE
  BY <1>1, <1>3, <1>4
<1> HIDE DEF s, w
<1> QED
  BY <1>1, <1>4, <1>5

\* The sum of two words, with and without a carry out of the word.
LEMMA AddIs ==
    ASSUME NEW a \in Word, NEW b \in 0 .. WORD
    PROVE  /\ Add(a, b) \in Word
           /\ Add(a, b) = IF a + b < WORD THEN a + b ELSE a + b - WORD
<1>1. WORD \in Nat \ {0} /\ a \in 0 .. WORD - 1 /\ b \in 0 .. WORD
  BY Sizes DEF Word
<1>2. CASE a + b < WORD
  <2>1. (a + b) % WORD = a + b - 0 * WORD
    <3>1. 0 * WORD <= a + b /\ a + b < 0 * WORD + WORD /\ a + b \in Int
      BY <1>1, <1>2
    <3> QED
      BY <1>1, <3>1, RemainderAbove
  <2> QED
    BY <1>1, <1>2, <2>1 DEF Add, Word
<1>3. CASE a + b >= WORD
  <2>1. (a + b) % WORD = a + b - 1 * WORD
    <3>1. 1 * WORD <= a + b /\ a + b < 1 * WORD + WORD /\ a + b \in Int
      BY <1>1, <1>3
    <3> QED
      BY <1>1, <3>1, RemainderAbove
  <2> QED
    BY <1>1, <1>3, <2>1 DEF Add, Word
<1> QED
  BY <1>1, <1>2, <1>3

\* The difference of two words when it is not negative.
LEMMA SubIs ==
    ASSUME NEW a \in Word, NEW b \in Word, b <= a
    PROVE  Sub(a, b) = a - b
<1>1. WORD \in Nat \ {0} /\ a \in 0 .. WORD - 1 /\ b \in 0 .. WORD - 1
  BY Sizes DEF Word
<1>2. (a - b) % WORD = a - b - 0 * WORD
  <2>1. 0 * WORD <= a - b /\ a - b < 0 * WORD + WORD /\ a - b \in Int
    BY <1>1
  <2> QED
    BY <1>1, <2>1, RemainderAbove
<1> QED
  BY <1>1, <1>2 DEF Sub

Aligned(a) == \E q \in Nat : a = q * PAGE_SIZE

\* The start of the page of an address.
LEMMA RoundDownIs ==
    ASSUME NEW a \in Word
    PROVE  RoundDown(a) \in Word /\ RoundDown(a) <= a /\ Aligned(RoundDown(a))
<1>1. PAGE_SIZE \in Nat \ {0} /\ WORD \in Nat /\ a \in 0 .. WORD - 1
  BY Sizes DEF Word
<1> DEFINE d == a \div PAGE_SIZE
           m == a % PAGE_SIZE
<1>2. d \in Int /\ m \in 0 .. PAGE_SIZE - 1 /\ a = d * PAGE_SIZE + m
  BY <1>1
<1>3. d >= 0
  <2>1. CASE d <= -1
    BY <1>1, <1>2, <2>1
  <2> QED
    BY <1>2, <2>1
<1>4. RoundDown(a) = d * PAGE_SIZE
  BY <1>1, <1>2 DEF RoundDown
<1>5. d * PAGE_SIZE >= 0
  BY <1>1, <1>2, <1>3
<1> HIDE DEF d, m
<1> QED
  BY <1>1, <1>2, <1>3, <1>4, <1>5 DEF Word, Aligned

\* A page ends at the end of all words or before it.
LEMMA PageFits ==
    ASSUME NEW a \in Word, Aligned(a)
    PROVE  /\ a + PAGE_SIZE <= WORD
           /\ Aligned(Add(a, PAGE_SIZE))
           /\ \A b \in a .. a + PAGE_SIZE - 1 : b % PAGE_SIZE = b - a
<1>1. PAGE_SIZE \in Nat \ {0} /\ WORD \in Nat \ {0} /\ a \in 0 .. WORD - 1
  BY Sizes DEF Word
<1>2. PICK q \in Nat : a = q * PAGE_SIZE
  BY DEF Aligned
<1>3. PICK w \in Nat : WORD = w * PAGE_SIZE
  BY Sizes
<1>4. q + 1 <= w
  <2>1. CASE q >= w
    BY <1>1, <1>2, <1>3, <2>1
  <2> QED
    BY <2>1
<1>5. a + PAGE_SIZE <= WORD
  <2>1. w * PAGE_SIZE = (q + 1) * PAGE_SIZE + (w - q - 1) * PAGE_SIZE
    BY <1>1
  <2>2. (w - q - 1) * PAGE_SIZE >= 0
    BY <1>1, <1>4
  <2>3. (q + 1) * PAGE_SIZE = a + PAGE_SIZE
    BY <1>1, <1>2
  <2> QED
    BY <1>1, <1>3, <2>1, <2>2, <2>3
<1>6. Aligned(Add(a, PAGE_SIZE))
  <2>1. Add(a, PAGE_SIZE) = IF a + PAGE_SIZE < WORD THEN a + PAGE_SIZE ELSE a + PAGE_SIZE - WORD
    BY <1>1, <1>5, AddIs
  <2>2. CASE a + PAGE_SIZE < WORD
    <3>1. q + 1 \in Nat /\ a + PAGE_SIZE = (q + 1) * PAGE_SIZE
      BY <1>1, <1>2
    <3> QED
      BY <2>1, <2>2, <3>1 DEF Aligned
  <2>3. CASE a + PAGE_SIZE = WORD
    <3>1. Add(a, PAGE_SIZE) = 0 * PAGE_SIZE
      BY <1>1, <2>1, <2>3
    <3> QED
      BY <3>1 DEF Aligned
  <2> QED
    BY <1>1, <1>5, <2>2, <2>3
<1>7. ASSUME NEW b \in a .. a + PAGE_SIZE - 1
      PROVE  b % PAGE_SIZE = b - a
  <2>1. q * PAGE_SIZE <= b /\ b < q * PAGE_SIZE + PAGE_SIZE /\ b \in Int
    BY <1>1, <1>2
  <2>2. b % PAGE_SIZE = b - q * PAGE_SIZE
    BY <1>1, <2>1, RemainderAbove
  <2> QED
    BY <1>2, <2>2
<1> QED
  BY <1>5, <1>6, <1>7

\* The entry of an address is one of the page tables'.
LEMMA PageIndexIs ==
    ASSUME NEW va \in Int
    PROVE  PageIndex(va) \in 0 .. SV_SIZE \div PAGE_SIZE - 1
<1>1. PAGE_SIZE \in Nat \ {0} /\ SV_SIZE \in Nat \ {0}
  BY Sizes
<1>2. PICK q \in Nat : SV_SIZE = q * PAGE_SIZE
  BY Sizes
<1>3. SV_SIZE \div PAGE_SIZE = q
  <2>1. (q * PAGE_SIZE + 0) \div PAGE_SIZE = q
    BY <1>1, Remainder
  <2> QED
    BY <1>1, <1>2, <2>1
<1> DEFINE r == va % SV_SIZE
           d == r \div PAGE_SIZE
           m == r % PAGE_SIZE
<1>4. r \in 0 .. SV_SIZE - 1
  BY <1>1
<1> HIDE DEF r
<1>5. d \in Int /\ m \in 0 .. PAGE_SIZE - 1 /\ r = d * PAGE_SIZE + m
  BY <1>1, <1>4
<1>6. d >= 0
  <2>1. CASE d <= -1
    BY <1>1, <1>4, <1>5, <2>1
  <2> QED
    BY <1>5, <2>1
<1>7. d <= q - 1
  <2>1. CASE d >= q
    BY <1>1, <1>2, <1>4, <1>5, <2>1
  <2> QED
    BY <1>5, <2>1
<1>8. PageIndex(va) = d
  BY DEF PageIndex, r
<1> HIDE DEF d
<1> QED
  BY <1>3, <1>5, <1>6, <1>7, <1>8

-----------------------------------------------------------------------------
\* Validation has passed the segment.
Checked(k) == Loadable(image.phdr[k]) => SegmentOk(k)

(***************************************************************************)
(* The inductive invariant.  The copy stays inside the file because the    *)
(* segments before i have been checked, and stays checked because the      *)
(* image does not change; it stays inside its page because the loop index  *)
(* is the start of a page, also after it has wrapped around.               *)
(***************************************************************************)
IInv ==
    /\ TypeOK
    /\ image \in Images
    /\ pc = "header" => i = 1
    /\ pc = "segment" => \A k \in 1 .. i - 1 : Checked(k)
    /\ Accepted => \A k \in DOMAIN image.phdr : Checked(k)
    /\ pc = "page" => /\ i \in DOMAIN image.phdr /\ Loadable(phdr)
                      /\ Aligned(page)

\* The fields of a program header are words.
LEMMA FieldsAreWords ==
    ASSUME image \in Images
    PROVE  /\ Len(image.phdr) \in Nat /\ DOMAIN image.phdr = 1 .. Len(image.phdr)
           /\ \A k \in DOMAIN image.phdr :
                 LET ph == image.phdr[k] IN
                 {ph.p_offset, ph.p_vaddr, ph.p_filesz, ph.p_memsz, ph.p_align} \subseteq Word
<1> DEFINE Header == [p_type : Nat, p_flags : SUBSET {"R", "W", "X"},
                      p_offset : 0 .. WORD - 1, p_vaddr : 0 .. WORD - 1,
                      p_filesz : 0 .. WORD - 1, p_memsz : 0 .. WORD - 1,
                      p_align : 0 .. WORD - 1]
<1>1. image.phdr \in Seq(Header)
  BY ImagesAssumption
<1>2. \A ph \in Header :
         {ph.p_offset, ph.p_vaddr, ph.p_filesz, ph.p_memsz, ph.p_align} \subseteq Word
  BY DEF Word
<1> HIDE DEF Header
<1> QED
  BY <1>1, <1>2

\* Words are integers from 0 on.
LEMMA WordsAre == 0 \in Word /\ Word \subseteq Nat
  BY Sizes DEF Word

\* The file is untouched, nothing has been validated.
LEMMA InitIInv == Init => IInv
<1> SUFFICES ASSUME Init PROVE IInv
  OBVIOUS
<1>1. TypeOK
  <2>1. i \in 1 .. Len(image.phdr) + 1
    BY FieldsAreWords DEF Init
  <2>2. DOMAIN space = {} /\ page \in Word
    BY WordsAre DEF Init
  <2> QED
    BY <2>1, <2>2 DEF Init, TypeOK
<1> QED
  BY <1>1 DEF Init, IInv, Accepted

\* Validation: a segment is passed only when it has been checked.
LEMMA ValidationSteps ==
    IInv /\ (CheckHeader \/ CheckSegment \/ CheckEntry) => IInv'
<1>1. ASSUME IInv, CheckHeader PROVE IInv'
  <2>1. TypeOK' /\ image' \in Images
    BY <1>1 DEF IInv, CheckHeader, TypeOK
  <2>2. i' = 1 /\ pc' \in {"segment", "rejected"}
    BY <1>1 DEF IInv, CheckHeader
  <2> QED
    BY <2>1, <2>2 DEF IInv, Accepted
<1>2. ASSUME IInv, CheckSegment PROVE IInv'
  <2>1. TypeOK'
    <3>1. i \in 1 .. Len(image.phdr) + 1 /\ i <= Len(image.phdr) /\ Len(image.phdr) \in Nat
      BY <1>2, FieldsAreWords DEF IInv, CheckSegment, TypeOK
    <3>2. i' \in {i, i + 1} /\ pc' \in {"segment", "rejected"}
      BY <1>2 DEF CheckSegment
    <3>3. entry_ok' \in BOOLEAN
      BY <1>2, Zenon DEF IInv, CheckSegment, TypeOK
    <3>4. image' = image /\ page' = page /\ space' = space
      BY <1>2 DEF CheckSegment
    <3>5. i' \in 1 .. Len(image'.phdr) + 1
      BY <3>1, <3>2, <3>4
    <3> QED
      BY <1>2, <3>2, <3>3, <3>4, <3>5 DEF IInv, TypeOK
  <2>2. pc' = "segment" => Checked(i)
    BY <1>2 DEF CheckSegment, Checked
  <2>3. pc' = "segment" => \A k \in 1 .. i' - 1 : Checked(k)'
    <3> SUFFICES ASSUME pc' = "segment", NEW k \in 1 .. i' - 1 PROVE Checked(k)'
      OBVIOUS
    <3>1. k \in 1 .. i - 1 \/ k = i
      BY <1>2, FieldsAreWords DEF IInv, TypeOK, CheckSegment
    <3>2. Checked(k)
      BY <1>2, <2>2, <3>1 DEF IInv, CheckSegment
    <3> QED
      BY <1>2, <3>2 DEF Checked, SegmentOk, CheckSegment
  <2> QED
    BY <1>2, <2>1, <2>3 DEF IInv, CheckSegment, Accepted
<1>3. ASSUME IInv, CheckEntry PROVE IInv'
  <2>1. TypeOK'
    <3>1. PageIndex(USER_STACK_TOP - PAGE_SIZE) \in 0 .. SV_SIZE \div PAGE_SIZE - 1
      BY PageIndexIs, ExecImageAssumption
    <3> QED
      BY <1>3, <3>1, FieldsAreWords DEF IInv, CheckEntry, TypeOK, BlankPage
  <2>2. \A k \in DOMAIN image.phdr : Checked(k)
    BY <1>3, FieldsAreWords DEF IInv, CheckEntry, TypeOK
  <2>3. \A k \in DOMAIN image.phdr : Checked(k)'
    BY <1>3, <2>2 DEF Checked, SegmentOk, CheckEntry
  <2> QED
    BY <1>3, <2>1, <2>3 DEF IInv, CheckEntry
<1> QED
  BY <1>1, <1>2, <1>3

\* Loading: the image stays as it was validated, the loop index aligned.
LEMMA LoadingSteps ==
    IInv /\ (LoadSegment \/ LoadPage \/ EndSegment \/ Finish) => IInv'
<1> SUFFICES ASSUME IInv, LoadSegment \/ LoadPage \/ EndSegment \/ Finish
             PROVE  IInv'
  OBVIOUS
<1>1. image' = image /\ Accepted
  BY DEF Accepted, LoadSegment, LoadPage, EndSegment, Finish
<1>2. \A k \in DOMAIN image'.phdr : Checked(k)'
  BY <1>1 DEF IInv, Checked, SegmentOk
<1>3. pc' \notin {"header", "segment"}
  BY DEF LoadSegment, LoadPage, EndSegment, Finish, IInv
<1>4. CASE LoadSegment
  <2>1. i \in DOMAIN image.phdr
    BY <1>4, FieldsAreWords DEF LoadSegment, IInv, TypeOK
  <2>2. phdr.p_vaddr \in Word
    BY <2>1, FieldsAreWords DEF IInv, phdr
  <2>3. RoundDown(phdr.p_vaddr) \in Word /\ Aligned(RoundDown(phdr.p_vaddr))
    BY <2>2, RoundDownIs
  <2>4. TypeOK'
    BY <1>4, <2>3, FieldsAreWords DEF IInv, LoadSegment, TypeOK
  <2>5. pc' = "page" => i' = i /\ Loadable(phdr) /\ page' = RoundDown(phdr.p_vaddr)
    BY <1>4 DEF LoadSegment
  <2>6. pc' = "page" => i' \in DOMAIN image'.phdr /\ Loadable(phdr)' /\ Aligned(page')
    BY <1>1, <2>1, <2>3, <2>5 DEF phdr, Loadable
  <2> QED
    BY <1>1, <1>2, <1>3, <2>4, <2>6 DEF IInv, Aligned
<1>5. CASE LoadPage
  <2>1. page \in Word /\ Aligned(page)
    BY <1>5 DEF LoadPage, IInv, TypeOK
  <2>2. page' \in Word /\ Aligned(page')
    <3>1. PAGE_SIZE \in 0 .. WORD
      BY <2>1, PageFits, Sizes, WordsAre
    <3> QED
      BY <1>5, <2>1, <3>1, AddIs, PageFits DEF LoadPage
  <2>3. PageIndex(page) \in 0 .. SV_SIZE \div PAGE_SIZE - 1
    BY <2>1, WordsAre, PageIndexIs
  <2>4. TypeOK'
    BY <1>5, <2>2, <2>3 DEF IInv, LoadPage, TypeOK, FilledPage
  <2>5. pc' = "page" => i' \in DOMAIN image'.phdr /\ Loadable(phdr)'
    BY <1>5 DEF LoadPage, IInv, phdr
  <2> QED
    BY <1>1, <1>2, <1>3, <2>2, <2>4, <2>5 DEF IInv, Aligned
<1>6. CASE EndSegment \/ Finish
  BY <1>1, <1>2, <1>6, FieldsAreWords DEF EndSegment, Finish, IInv, TypeOK
<1> QED
  BY <1>4, <1>5, <1>6

\* The invariant holds in every reachable state.
LEMMA Invariance == Spec => []IInv
<1>1. IInv /\ [Next]_vars => IInv'
  <2>1. IInv /\ UNCHANGED vars => IInv'
    BY DEF vars, IInv, TypeOK, Accepted, Checked, SegmentOk, phdr
  <2> QED
    BY <2>1, ValidationSteps, LoadingSteps DEF Next
<1> QED
  BY <1>1, InitIInv, PTL DEF Spec

(***************************************************************************)
(* Every variable keeps its type: the pages that are mapped are entries of *)
(* the page tables, and the loop index is a word.                          *)
(***************************************************************************)
THEOREM TypeCorrect == Spec => []TypeOK
<1>1. IInv => TypeOK
  BY DEF IInv
<1> QED
  BY <1>1, Invariance, PTL

(***************************************************************************)
(* The copy of a page's bytes stays inside the file and inside the page.   *)
(***************************************************************************)
THEOREM CopiesInBounds == Spec => []CopyStaysInBounds
<1>1. ASSUME IInv, pc = "page", CopyStart < CopyEnd
      PROVE  /\ (CopyStart % PAGE_SIZE) + CopyEnd - CopyStart <= PAGE_SIZE
             /\ SrcOffset + CopyEnd - CopyStart <= app_elf_len
  <2> DEFINE va   == phdr.p_vaddr
             size == phdr.p_filesz
             from == phdr.p_offset
           top  == phdr.p_memsz
  <2>1. /\ va \in Word /\ size \in Word /\ from \in Word /\ top \in Word
        /\ page \in Word /\ Aligned(page)
        /\ size <= top /\ InFile(from, size) /\ Add(va, top) >= va
    BY <1>1, FieldsAreWords DEF IInv, Accepted, Checked, SegmentOk, phdr, TypeOK, SegEnd
  <2>2. /\ WORD \in Nat /\ PAGE_SIZE \in Nat \ {0} /\ app_elf_len \in Nat
        /\ Word = 0 .. WORD - 1 /\ Word \subseteq 0 .. WORD
    BY Sizes DEF Word
  <2>3. FileEnd = Add(va, size)
    BY DEF FileEnd
  <2> HIDE DEF va, size, from, top
  <2>4. FileEnd = va + size
    <3>1. Add(va, top) = IF va + top < WORD THEN va + top ELSE va + top - WORD
      BY <2>1, <2>2, AddIs
    <3>2. Add(va, size) = IF va + size < WORD THEN va + size ELSE va + size - WORD
      BY <2>1, <2>2, AddIs
    <3> QED
      BY <2>1, <2>2, <2>3, <3>1, <3>2
  <2>5. from + size <= app_elf_len /\ from + size < WORD
    <3>1. Add(from, size) = IF from + size < WORD THEN from + size ELSE from + size - WORD
      BY <2>1, <2>2, AddIs
    <3> QED
      BY <2>1, <2>2, <3>1 DEF InFile
  <2>6. /\ page + PAGE_SIZE <= WORD
        /\ \A b \in page .. page + PAGE_SIZE - 1 : b % PAGE_SIZE = b - page
    BY <2>1, PageFits
  <2>7. Add(page, PAGE_SIZE) = IF page + PAGE_SIZE < WORD THEN page + PAGE_SIZE
                               ELSE page + PAGE_SIZE - WORD
    <3>1. PAGE_SIZE \in 0 .. WORD
      BY <2>1, <2>2, <2>6
    <3> QED
      BY <2>1, <3>1, AddIs
  <2>8. /\ CopyStart \in Word /\ CopyStart >= page /\ CopyStart >= va
        /\ CopyEnd <= va + size /\ CopyEnd <= page + PAGE_SIZE /\ CopyEnd \in Nat
    <3>1. CopyStart = IF page > va THEN page ELSE va
      BY DEF CopyStart, va
    <3>2. CopyEnd = IF Add(page, PAGE_SIZE) < va + size THEN Add(page, PAGE_SIZE) ELSE va + size
      BY <2>4 DEF CopyEnd
    <3> QED
      BY <2>1, <2>2, <2>6, <2>7, <3>1, <3>2
  <2>9. CopyStart % PAGE_SIZE = CopyStart - page
    <3>1. CopyStart \in page .. page + PAGE_SIZE - 1
      BY <1>1, <2>1, <2>2, <2>8
    <3> QED
      BY <2>6, <3>1
  <2>10. Sub(CopyStart, va) = CopyStart - va
    BY <2>1, <2>8, SubIs
  <2>11. SrcOffset = from + (CopyStart - va)
    <3>1. /\ CopyStart - va \in 0 .. WORD
          /\ from + (CopyStart - va) < WORD
      BY <1>1, <2>1, <2>2, <2>5, <2>8
    <3>2. SrcOffset = Add(from, CopyStart - va)
      BY <2>10 DEF SrcOffset, from, va
    <3> QED
      BY <2>1, <3>1, <3>2, AddIs
  <2> QED
    BY <1>1, <2>1, <2>2, <2>5, <2>8, <2>9, <2>11
<1>2. IInv => CopyStaysInBounds
  BY <1>1 DEF CopyStaysInBounds
<1> QED
  BY <1>2, Invariance, PTL

-----------------------------------------------------------------------------
(***************************************************************************)
(* No entry of the page tables is written twice.                           *)
(***************************************************************************)

\* Segment k brings the page that starts at a.
Covers(k, a) ==
    LET ph == image.phdr[k] IN RoundDown(ph.p_vaddr) <= a /\ a < RoundUp(SegEnd(ph))

\* What is mapped, by the start of the page: the stack, the pages of the
\* segments that are done and those of the present one below the loop index.
Placed(a) ==
    \/ a = USER_STACK_TOP - PAGE_SIZE
    \/ \E k \in Segments : k < i /\ Covers(k, a)
    \/ pc = "page" /\ a < page /\ Covers(i, a)

(***************************************************************************)
(* The page tables hold what has been placed.  What comes next has not     *)
(* been: it belongs to another segment, and validation compared them page  *)
(* by page, or it lies at the loop index, which moves upwards.             *)
(***************************************************************************)
LayoutIInv ==
    /\ IInv
    /\ pc \in {"header", "segment"} => DOMAIN space = {}
    /\ InUserHalf => \A p \in DOMAIN space : Placed(p * PAGE_SIZE)
    /\ InUserHalf /\ pc = "page" => RoundDown(phdr.p_vaddr) <= page

\* Two starts of pages, one above the other, are a page apart.
LEMMA PagesApart ==
    ASSUME NEW a \in Nat, NEW b \in Nat, Aligned(a), Aligned(b), a < b
    PROVE  a + PAGE_SIZE <= b
<1>1. PICK q \in Nat : a = q * PAGE_SIZE
  BY DEF Aligned
<1>2. PICK r \in Nat : b = r * PAGE_SIZE
  BY DEF Aligned
<1>3. PAGE_SIZE \in Nat \ {0}
  BY Sizes
<1>4. q < r
  <2>1. CASE r <= q
    <3>1. q * PAGE_SIZE = r * PAGE_SIZE + (q - r) * PAGE_SIZE /\ (q - r) * PAGE_SIZE >= 0
      BY <1>3, <2>1
    <3> QED
      BY <1>1, <1>2, <1>3, <3>1
  <2> QED
    BY <2>1
<1>5. /\ r * PAGE_SIZE = q * PAGE_SIZE + PAGE_SIZE + (r - q - 1) * PAGE_SIZE
      /\ (r - q - 1) * PAGE_SIZE >= 0
  BY <1>3, <1>4
<1> QED
  BY <1>1, <1>2, <1>3, <1>5

\* The half of the address space is pages, and half a word at most.
LEMMA HalfIs ==
    /\ SV_SIZE \div 2 \in Nat /\ Aligned(SV_SIZE \div 2)
    /\ SV_SIZE \div 2 + PAGE_SIZE <= SV_SIZE /\ SV_SIZE <= WORD
<1>1. /\ WORD \in Nat \ {0} /\ PAGE_SIZE \in Nat \ {0} /\ SV_SIZE \in Nat \ {0}
      /\ WORD % SV_SIZE = 0 /\ SV_SIZE % (2 * PAGE_SIZE) = 0
  BY ExecImageAssumption
<1> DEFINE p == 2 * PAGE_SIZE
           s == SV_SIZE \div p
           w == WORD \div SV_SIZE
<1>2. s \in Nat /\ SV_SIZE = s * p
  BY <1>1
<1>3. w \in Nat /\ WORD = w * SV_SIZE
  BY <1>1
<1> HIDE DEF s, w
<1>4. s >= 1 /\ w >= 1
  BY <1>1, <1>2, <1>3
<1>5. SV_SIZE = 2 * (s * PAGE_SIZE) /\ s * PAGE_SIZE \in Nat
  BY <1>1, <1>2
<1>6. SV_SIZE \div 2 = s * PAGE_SIZE
  BY <1>5
<1>7. s * PAGE_SIZE = PAGE_SIZE + (s - 1) * PAGE_SIZE /\ (s - 1) * PAGE_SIZE >= 0
  BY <1>1, <1>2, <1>4
<1>8. WORD = SV_SIZE + (w - 1) * SV_SIZE /\ (w - 1) * SV_SIZE >= 0
  BY <1>1, <1>3, <1>4
<1>9. Aligned(SV_SIZE \div 2)
  BY <1>2, <1>6 DEF Aligned
<1>10. SV_SIZE <= WORD
  BY <1>1, <1>3, <1>8
<1> DEFINE h == s * PAGE_SIZE
           t == (s - 1) * PAGE_SIZE
<1>11. h \in Nat /\ h = PAGE_SIZE + t /\ t >= 0 /\ t \in Int /\ SV_SIZE = 2 * h
       /\ SV_SIZE \div 2 = h
  BY <1>1, <1>2, <1>5, <1>6, <1>7
<1> HIDE DEF h, t
<1>12. SV_SIZE \div 2 \in Nat /\ SV_SIZE \div 2 + PAGE_SIZE <= SV_SIZE
  BY <1>1, <1>11
<1> QED
  BY <1>9, <1>10, <1>12

\* The entry of the start of a page, in the address space, stands for it.
LEMMA PageIndexOf ==
    ASSUME NEW a \in 0 .. SV_SIZE - 1, Aligned(a)
    PROVE  PageIndex(a) \in Nat /\ PageIndex(a) * PAGE_SIZE = a
<1>1. PAGE_SIZE \in Nat \ {0} /\ SV_SIZE \in Nat \ {0} /\ a \in Nat
  BY Sizes
<1>2. PICK q \in Nat : a = q * PAGE_SIZE
  BY DEF Aligned
<1>3. a % SV_SIZE = a
  <2>1. 0 * SV_SIZE <= a /\ a < 0 * SV_SIZE + SV_SIZE
    BY <1>1
  <2>2. a % SV_SIZE = a - 0 * SV_SIZE
    BY <1>1, <2>1, RemainderAbove
  <2> QED
    BY <1>1, <2>2
<1>4. (q * PAGE_SIZE + 0) \div PAGE_SIZE = q
  BY <1>1, Remainder
<1>5. PageIndex(a) = q
  BY <1>1, <1>2, <1>3, <1>4 DEF PageIndex
<1> QED
  BY <1>2, <1>5

(***************************************************************************)
(* Rounding up does not wrap in the user half: it gives the next start of  *)
(* a page, and a page that starts below it starts below the address.       *)
(***************************************************************************)
LEMMA RoundUpIs ==
    ASSUME NEW e \in 0 .. SV_SIZE \div 2
    PROVE  /\ RoundUp(e) \in Nat /\ e <= RoundUp(e) /\ RoundUp(e) <= SV_SIZE \div 2
           /\ \A a \in Nat : Aligned(a) /\ a < RoundUp(e) => a < e
<1>1. /\ PAGE_SIZE \in Nat \ {0} /\ WORD \in Nat \ {0} /\ SV_SIZE \in Nat
      /\ SV_SIZE \div 2 \in Nat /\ e \in 0 .. SV_SIZE \div 2
      /\ SV_SIZE \div 2 + PAGE_SIZE <= SV_SIZE /\ SV_SIZE <= WORD
  BY Sizes, HalfIs
<1> DEFINE x == e + PAGE_SIZE - 1
           d == RoundDown(x)
<1>2. x \in Word /\ e \in Word /\ PAGE_SIZE - 1 \in 0 .. WORD
  BY <1>1 DEF Word
<1>3. RoundUp(e) = d
  <2>1. Add(e, PAGE_SIZE - 1) = IF e + (PAGE_SIZE - 1) < WORD THEN e + (PAGE_SIZE - 1)
                                ELSE e + (PAGE_SIZE - 1) - WORD
    BY <1>2, AddIs
  <2>2. Add(e, PAGE_SIZE - 1) = x
    BY <1>1, <2>1
  <2> QED
    BY <2>2 DEF RoundUp
<1>4. d \in Word /\ d <= x /\ Aligned(d)
  BY <1>2, RoundDownIs
<1>5. x - d < PAGE_SIZE
  BY <1>1 DEF RoundDown
<1> HIDE DEF d
<1>6. d \in Nat /\ e <= d
  BY <1>1, <1>4, <1>5 DEF Word
<1>7. d <= SV_SIZE \div 2
  <2>1. CASE SV_SIZE \div 2 < d
    <3>1. SV_SIZE \div 2 + PAGE_SIZE <= d
      BY <1>1, <1>4, <1>6, <2>1, HalfIs, PagesApart
    <3> QED
      BY <1>1, <1>4, <1>6, <3>1
  <2> QED
    BY <1>1, <1>6, <2>1
<1>8. ASSUME NEW a \in Nat, Aligned(a), a < d
      PROVE  a < e
  <2>1. a + PAGE_SIZE <= d
    BY <1>4, <1>6, <1>8, PagesApart
  <2> QED
    BY <1>1, <1>4, <1>6, <2>1
<1> QED
  BY <1>3, <1>6, <1>7, <1>8

(***************************************************************************)
(* What validation says of a segment in the user half: its pages are       *)
(* neither the stack nor pages of another segment.                         *)
(***************************************************************************)
LEMMA PagesDiffer ==
    ASSUME IInv, Accepted, InUserHalf, NEW k \in Segments,
           NEW a \in Nat, Aligned(a), Covers(k, a)
    PROVE  /\ a < SV_SIZE \div 2
           /\ a # USER_STACK_TOP - PAGE_SIZE
           /\ \A l \in Segments : l < k => ~Covers(l, a)
<1> DEFINE va(m) == image.phdr[m].p_vaddr
           end(m) == SegEnd(image.phdr[m])
<1>1. ASSUME NEW m \in Segments
      PROVE  /\ va(m) \in Word /\ end(m) \in 0 .. SV_SIZE \div 2
             /\ va(m) \in Nat /\ end(m) \in Nat
             /\ RoundDown(va(m)) <= va(m) /\ RoundDown(va(m)) \in Nat
             /\ RoundUp(end(m)) \in Nat /\ RoundUp(end(m)) <= SV_SIZE \div 2
             /\ \A b \in Nat : Aligned(b) /\ b < RoundUp(end(m)) => b < end(m)
  <2> DEFINE size == image.phdr[m].p_memsz
  <2>1. va(m) \in Word /\ size \in Word /\ va(m) + size <= SV_SIZE \div 2
    BY FieldsAreWords DEF IInv, Segments, InUserHalf
  <2>2. end(m) = Add(va(m), size)
    BY DEF SegEnd
  <2> HIDE DEF va, end, size
  <2>3. /\ WORD \in Nat /\ Word = 0 .. WORD - 1 /\ SV_SIZE \in Nat /\ PAGE_SIZE \in Nat \ {0}
        /\ SV_SIZE \div 2 \in Nat /\ SV_SIZE \div 2 + PAGE_SIZE <= SV_SIZE /\ SV_SIZE <= WORD
    BY Sizes, HalfIs DEF Word
  <2>4. end(m) = va(m) + size
    <3>1. Add(va(m), size) = IF va(m) + size < WORD THEN va(m) + size ELSE va(m) + size - WORD
      <4>1. size \in 0 .. WORD
        BY <2>1, <2>3
      <4> QED
        BY <2>1, <4>1, AddIs
    <3> QED
      BY <2>1, <2>2, <2>3, <3>1
  <2>5. end(m) \in 0 .. SV_SIZE \div 2
    BY <2>1, <2>3, <2>4
  <2>6. RoundDown(va(m)) \in Word /\ RoundDown(va(m)) <= va(m)
    BY <2>1, RoundDownIs
  <2>7. va(m) \in Nat /\ end(m) \in Nat /\ RoundDown(va(m)) \in Nat
    BY <2>1, <2>3, <2>5, <2>6
  <2> QED
    BY <2>1, <2>5, <2>6, <2>7, RoundUpIs
<1>2. SegmentOk(k) /\ \A l \in Segments : l < k => SegmentOk(l)
  BY DEF IInv, Segments, Checked
<1>3. RoundDown(va(k)) <= a /\ a < RoundUp(end(k))
  BY DEF Covers
<1>4. a < SV_SIZE \div 2
  <2>1. RoundUp(end(k)) \in Nat /\ RoundUp(end(k)) <= SV_SIZE \div 2 /\ SV_SIZE \div 2 \in Nat
    BY <1>1, HalfIs
  <2> HIDE DEF va, end
  <2> QED
    BY <1>3, <2>1
<1>5. ASSUME a = USER_STACK_TOP - PAGE_SIZE PROVE FALSE
  <2>1. ~RangesOverlap(va(k), end(k), USER_STACK_TOP - 2 * PAGE_SIZE, USER_STACK_TOP)
    BY <1>2 DEF SegmentOk, OverlapsReserved
  <2>2. USER_STACK_TOP \in Nat /\ PAGE_SIZE \in Nat \ {0}
    BY Sizes, ExecImageAssumption
  <2>3. va(k) < a + PAGE_SIZE
    <3>1. va(k) - RoundDown(va(k)) < PAGE_SIZE
      BY <1>1, <2>2 DEF RoundDown, Word
    <3>2. va(k) \in Nat /\ RoundDown(va(k)) \in Nat
      BY <1>1, WordsAre
    <3> HIDE DEF va, end
    <3> QED
      BY <1>3, <2>2, <3>1, <3>2
  <2>4. a < end(k) /\ end(k) \in Nat /\ va(k) \in Nat
    BY <1>1, <1>3
  <2> HIDE DEF va, end
  <2> QED
    BY <1>5, <2>1, <2>2, <2>3, <2>4 DEF RangesOverlap
<1>6. ASSUME NEW l \in Segments, l < k, Covers(l, a) PROVE FALSE
  <2>1. k \in l + 1 .. Len(image.phdr) /\ Loadable(image.phdr[k])
    BY <1>6, FieldsAreWords DEF IInv, Segments
  <2>2. ~SharePage(image.phdr[l], image.phdr[k])
    BY <1>2, <1>6, <2>1 DEF SegmentOk
  <2>3. ~RangesOverlap(RoundDown(va(l)), RoundUp(end(l)), RoundDown(va(k)), RoundUp(end(k)))
    BY <2>2 DEF SharePage
  <2>4. RoundDown(va(l)) <= a /\ a < RoundUp(end(l))
    BY <1>6 DEF Covers
  <2>5. /\ RoundDown(va(l)) \in Nat /\ RoundUp(end(l)) \in Nat
        /\ RoundDown(va(k)) \in Nat /\ RoundUp(end(k)) \in Nat
    BY <1>1, <1>6
  <2> HIDE DEF va, end
  <2> QED
    BY <1>3, <2>3, <2>4, <2>5 DEF RangesOverlap
<1> QED
  BY <1>4, <1>5, <1>6

\* The page below the top of the stack is a page of the address space.
LEMMA StackIs ==
    /\ USER_STACK_TOP - PAGE_SIZE \in 0 .. SV_SIZE - 1
    /\ Aligned(USER_STACK_TOP - PAGE_SIZE)
<1>1. /\ PAGE_SIZE \in Nat \ {0} /\ SV_SIZE \in Nat \ {0}
      /\ SV_SIZE \div 2 \in Nat /\ SV_SIZE \div 2 + PAGE_SIZE <= SV_SIZE
  BY Sizes, HalfIs
<1>2. /\ USER_STACK_TOP \in PAGE_SIZE * 2 .. SV_SIZE \div 2 - PAGE_SIZE
      /\ USER_STACK_TOP % PAGE_SIZE = 0
  BY ExecImageAssumption
<1>3. USER_STACK_TOP - PAGE_SIZE \in 0 .. SV_SIZE - 1
  BY <1>1, <1>2
<1> DEFINE q == USER_STACK_TOP \div PAGE_SIZE
<1>4. q \in Int /\ USER_STACK_TOP = q * PAGE_SIZE
  BY <1>1, <1>2
<1> HIDE DEF q
<1>5. q >= 1
  <2>1. CASE q <= 0
    BY <1>1, <1>2, <1>4, <2>1
  <2> QED
    BY <1>4, <2>1
<1>6. q - 1 \in Nat /\ USER_STACK_TOP - PAGE_SIZE = (q - 1) * PAGE_SIZE
  BY <1>1, <1>4, <1>5
<1> QED
  BY <1>3, <1>6 DEF Aligned

\* At first nothing is mapped.
LEMMA InitLayout == Init => LayoutIInv
<1> SUFFICES ASSUME Init PROVE LayoutIInv
  OBVIOUS
<1>1. DOMAIN space = {} /\ pc = "header"
  BY DEF Init
<1> QED
  BY <1>1, InitIInv DEF LayoutIInv

\* Validation leaves a new page table with the stack in it.
LEMMA LayoutOfValidation ==
    LayoutIInv /\ (CheckHeader \/ CheckSegment \/ CheckEntry) => LayoutIInv'
<1> SUFFICES ASSUME LayoutIInv, CheckHeader \/ CheckSegment \/ CheckEntry
             PROVE  LayoutIInv'
  OBVIOUS
<1>1. IInv' /\ DOMAIN space = {} /\ pc' # "page"
  BY ValidationSteps DEF LayoutIInv, CheckHeader, CheckSegment, CheckEntry
<1>2. CASE space' = space
  BY <1>1, <1>2 DEF LayoutIInv
<1>3. CASE CheckEntry /\ space' # space
  <2>1. pc' = "load" /\ DOMAIN space' = {PageIndex(USER_STACK_TOP - PAGE_SIZE)}
    BY <1>3 DEF CheckEntry
  <2>2. /\ USER_STACK_TOP - PAGE_SIZE \in 0 .. SV_SIZE - 1
        /\ Aligned(USER_STACK_TOP - PAGE_SIZE)
    BY StackIs
  <2>3. \A p \in DOMAIN space' : p * PAGE_SIZE = USER_STACK_TOP - PAGE_SIZE
    BY <2>1, <2>2, PageIndexOf
  <2> QED
    BY <1>1, <2>1, <2>3 DEF LayoutIInv, Placed
<1> QED
  BY <1>2, <1>3 DEF CheckHeader, CheckSegment

\* The loop index is at a page of the segment that is not mapped yet.
LEMMA NextPage ==
    ASSUME LayoutIInv, InUserHalf, LoadPage
    PROVE  /\ i \in Segments /\ Covers(i, page) /\ page \in Nat
           /\ PageIndex(page) \in Nat /\ PageIndex(page) * PAGE_SIZE = page
           /\ PageIndex(page) \notin DOMAIN space
           /\ page' = page + PAGE_SIZE
<1>1. /\ i \in Segments /\ page \in Word /\ Aligned(page) /\ page < RoundUp(SegEnd(phdr))
      /\ IInv /\ Accepted
  BY DEF LayoutIInv, IInv, LoadPage, MorePages, Segments, phdr, Accepted, TypeOK
<1>2. Covers(i, page)
  BY <1>1 DEF LayoutIInv, Covers, phdr, LoadPage
<1>3. /\ SV_SIZE \div 2 \in Nat /\ SV_SIZE \div 2 + PAGE_SIZE <= SV_SIZE /\ SV_SIZE <= WORD
      /\ PAGE_SIZE \in Nat \ {0} /\ SV_SIZE \in Nat /\ WORD \in Nat /\ page \in Nat
  BY <1>1, Sizes, HalfIs, WordsAre
<1>4. /\ page < SV_SIZE \div 2 /\ page # USER_STACK_TOP - PAGE_SIZE
      /\ \A l \in Segments : l < i => ~Covers(l, page)
  BY <1>1, <1>2, <1>3, PagesDiffer
<1>5. page \in 0 .. SV_SIZE - 1
  BY <1>3, <1>4
<1>6. PageIndex(page) \in Nat /\ PageIndex(page) * PAGE_SIZE = page
  BY <1>1, <1>5, PageIndexOf
<1>7. ~Placed(page)
  BY <1>3, <1>4 DEF Placed
<1>8. PageIndex(page) \notin DOMAIN space
  BY <1>6, <1>7 DEF LayoutIInv
<1>9. page' = page + PAGE_SIZE
  <2>1. page + PAGE_SIZE < WORD /\ PAGE_SIZE \in 0 .. WORD
    BY <1>3, <1>4
  <2>2. Add(page, PAGE_SIZE) = page + PAGE_SIZE
    BY <1>1, <2>1, AddIs
  <2> QED
    BY <2>2 DEF LoadPage
<1> QED
  BY <1>1, <1>2, <1>3, <1>6, <1>8, <1>9

\* Every page that is loaded has its place.
LEMMA LayoutOfLoading ==
    LayoutIInv /\ (LoadSegment \/ LoadPage \/ EndSegment \/ Finish) => LayoutIInv'
<1> SUFFICES ASSUME LayoutIInv, LoadSegment \/ LoadPage \/ EndSegment \/ Finish
             PROVE  LayoutIInv'
  OBVIOUS
<1>1. /\ IInv /\ IInv' /\ image' = image
      /\ pc \in {"load", "page"} /\ pc' \notin {"header", "segment"}
  BY LoadingSteps DEF LayoutIInv, LoadSegment, LoadPage, EndSegment, Finish
<1>2. InUserHalf' = InUserHalf /\ Segments' = Segments
  BY <1>1 DEF InUserHalf, Segments
<1>3. \A k, a : Covers(k, a)' <=> Covers(k, a)
  BY <1>1 DEF Covers
<1>4. i \in Nat
  BY <1>1, FieldsAreWords DEF IInv, TypeOK
<1> SUFFICES ASSUME InUserHalf
             PROVE  /\ \A p \in DOMAIN space' : Placed(p * PAGE_SIZE)'
                    /\ pc' = "page" => RoundDown(phdr.p_vaddr)' <= page'
  BY <1>1, <1>2 DEF LayoutIInv
<1>5. CASE LoadSegment
  <2>1. ASSUME NEW p \in DOMAIN space' PROVE Placed(p * PAGE_SIZE)'
    <3>1. Placed(p * PAGE_SIZE) /\ pc = "load" /\ i' \in {i, i + 1}
      BY <1>5 DEF LayoutIInv, LoadSegment
    <3> DEFINE a == p * PAGE_SIZE
    <3>2. CASE a = USER_STACK_TOP - PAGE_SIZE
      BY <3>2 DEF Placed
    <3>3. CASE \E k \in Segments : k < i /\ Covers(k, a)
      <4>1. PICK k \in Segments : k < i /\ Covers(k, a)
        BY <3>3
      <4>2. k < i'
        BY <1>1, <1>4, <3>1, <4>1, FieldsAreWords DEF IInv, Segments
      <4>3. k \in Segments' /\ Covers(k, a)'
        BY <1>1, <1>2, <4>1 DEF Covers
      <4> QED
        BY <4>2, <4>3 DEF Placed
    <3> QED
      BY <3>1, <3>2, <3>3 DEF Placed
  <2>2. pc' = "page" => RoundDown(phdr.p_vaddr)' <= page'
    <3> SUFFICES ASSUME pc' = "page" PROVE RoundDown(phdr.p_vaddr)' <= page'
      OBVIOUS
    <3>1. page' = RoundDown(phdr.p_vaddr) /\ i' = i /\ image' = image
      BY <1>5 DEF LoadSegment
    <3>2. RoundDown(phdr.p_vaddr)' = page'
      BY <3>1 DEF phdr, RoundDown
    <3>3. page' \in Nat
      BY <1>1, WordsAre DEF IInv, TypeOK
    <3> QED
      BY <3>2, <3>3
  <2> QED
    BY <2>1, <2>2
<1>6. CASE LoadPage
  <2>1. /\ i \in Segments /\ Covers(i, page) /\ page \in Nat
        /\ PageIndex(page) \in Nat /\ PageIndex(page) * PAGE_SIZE = page
        /\ page' = page + PAGE_SIZE /\ PAGE_SIZE \in Nat \ {0}
    BY <1>6, NextPage, Sizes
  <2>2. /\ DOMAIN space' = DOMAIN space \cup {PageIndex(page)}
        /\ i' = i /\ pc' = pc /\ pc = "page"
    BY <1>6 DEF LoadPage
  <2>3. ASSUME NEW p \in DOMAIN space' PROVE Placed(p * PAGE_SIZE)'
    <3>1. CASE p = PageIndex(page)
      <4>1. p * PAGE_SIZE = page /\ page < page'
        BY <2>1, <3>1
      <4> QED
        BY <1>3, <2>1, <2>2, <4>1 DEF Placed
    <3>2. CASE p \in DOMAIN space
      <4>1. p \in Nat /\ p * PAGE_SIZE \in Nat
        <5>1. p \in 0 .. SV_SIZE \div PAGE_SIZE - 1
          BY <1>1, <3>2 DEF IInv, TypeOK
        <5> QED
          BY <2>1, <5>1
      <4>2. Placed(p * PAGE_SIZE)
        BY <3>2 DEF LayoutIInv
      <4> DEFINE a == p * PAGE_SIZE
      <4>3. a < page => a < page'
        BY <2>1, <4>1
      <4> HIDE DEF a
      <4>4. Placed(a)'
        BY <1>2, <1>3, <2>2, <4>2, <4>3 DEF Placed, a
      <4> QED
        BY <4>4 DEF a
    <3> QED
      BY <2>2, <3>1, <3>2
  <2>4. RoundDown(phdr.p_vaddr)' <= page'
    <3>1. RoundDown(phdr.p_vaddr) <= page
      BY <2>2 DEF LayoutIInv
    <3>2. RoundDown(phdr.p_vaddr)' = RoundDown(phdr.p_vaddr)
      BY <1>1, <2>2 DEF phdr, RoundDown
    <3>3. RoundDown(phdr.p_vaddr) \in Nat
      BY <1>1, <2>1, FieldsAreWords, RoundDownIs, WordsAre DEF IInv, Segments, phdr
    <3> QED
      BY <2>1, <3>1, <3>2, <3>3
  <2> QED
    BY <2>3, <2>4
<1>7. CASE EndSegment \/ Finish
  <2>1. space' = space /\ pc' # "page"
    BY <1>7 DEF EndSegment, Finish
  <2>2. ASSUME NEW p \in DOMAIN space' PROVE Placed(p * PAGE_SIZE)'
    <3>1. Placed(p * PAGE_SIZE) /\ i' \in {i, i + 1} /\ (pc = "page" => i' = i + 1)
      BY <1>7, <2>1 DEF LayoutIInv, EndSegment, Finish
    <3>2. pc = "page" => i \in Segments
      BY <1>1 DEF IInv, Segments, phdr
    <3> DEFINE a == p * PAGE_SIZE
    <3>3. CASE a = USER_STACK_TOP - PAGE_SIZE
      BY <3>3 DEF Placed
    <3>4. ASSUME NEW k \in Segments, k < i', Covers(k, a)
          PROVE  Placed(a)'
      <4>1. k \in Segments' /\ Covers(k, a)'
        BY <1>1, <1>2, <3>4 DEF Covers
      <4> QED
        BY <3>4, <4>1 DEF Placed
    <3>5. CASE \E k \in Segments : k < i /\ Covers(k, a)
      <4>1. PICK k \in Segments : k < i /\ Covers(k, a)
        BY <3>5
      <4>2. k < i'
        BY <1>1, <1>4, <3>1, <4>1, FieldsAreWords DEF IInv, Segments
      <4> QED
        BY <3>4, <4>1, <4>2
    <3>6. CASE pc = "page" /\ Covers(i, a)
      BY <1>4, <3>1, <3>2, <3>4, <3>6
    <3> QED
      BY <3>1, <3>3, <3>5, <3>6 DEF Placed
  <2> QED
    BY <2>1, <2>2
<1> QED
  BY <1>5, <1>6, <1>7

\* What is mapped has its place, in every reachable state.
LEMMA LayoutInvariance == Spec => []LayoutIInv
<1>1. LayoutIInv /\ [Next]_vars => LayoutIInv'
  <2>1. LayoutIInv /\ UNCHANGED vars => LayoutIInv'
    BY DEF vars, LayoutIInv, Placed, Covers, InUserHalf, Segments, IInv, TypeOK,
           Accepted, Checked, SegmentOk, phdr
  <2> QED
    BY <2>1, LayoutOfValidation, LayoutOfLoading DEF Next
<1> QED
  BY <1>1, InitLayout, PTL DEF Spec

(***************************************************************************)
(* The loading loop never overwrites an entry of the page tables, so no    *)
(* page below one is lost, as long as the segments are in the user half.   *)
(***************************************************************************)
THEOREM EntriesWrittenOnce == Spec => NoPageMappedTwice
<1>1. ASSUME LayoutIInv, Next, InUserHalf, NEW p \in DOMAIN space
      PROVE  space'[p] = space[p]
  <2>1. CASE LoadPage
    <3>1. p # PageIndex(page)
      BY <1>1, <2>1, NextPage
    <3> QED
      BY <2>1, <3>1 DEF LoadPage
  <2>2. CASE CheckEntry
    BY <1>1, <2>2 DEF LayoutIInv, CheckEntry
  <2>3. CASE CheckHeader \/ CheckSegment \/ LoadSegment \/ EndSegment \/ Finish
    BY <2>3 DEF CheckHeader, CheckSegment, LoadSegment, EndSegment, Finish
  <2> QED
    BY <1>1, <2>1, <2>2, <2>3 DEF Next
<1>2. LayoutIInv /\ [Next]_vars =>
        [InUserHalf => \A p \in DOMAIN space : space'[p] = space[p]]_vars
  BY <1>1
<1> QED
  BY <1>2, LayoutInvariance, PTL DEF Spec, NoPageMappedTwice

-----------------------------------------------------------------------------
(***************************************************************************)
(* What validation decides is what the image means.                        *)
(***************************************************************************)

\* The checks of validate_exec_image, taken together.
Passes ==
    /\ HeaderOk
    /\ \A k \in Segments : SegmentOk(k)
    /\ \E k \in Segments : HasEntry(image.phdr[k])

(***************************************************************************)
(* What the position in validate_exec_image says of the checks.            *)
(***************************************************************************)
VerdictIInv ==
    /\ IInv
    /\ pc = "header" => ~entry_ok
    /\ pc = "segment" =>
          /\ HeaderOk
          /\ entry_ok <=> \E k \in Segments : k < i /\ HasEntry(image.phdr[k])
    /\ Accepted => Passes
    /\ pc = "rejected" => ~Passes

\* The loop stops at the first check that fails.
LEMMA VerdictOfValidation ==
    VerdictIInv /\ (CheckHeader \/ CheckSegment \/ CheckEntry) => VerdictIInv'
<1> SUFFICES ASSUME VerdictIInv, CheckHeader \/ CheckSegment \/ CheckEntry
             PROVE  VerdictIInv'
  OBVIOUS
<1>1. IInv /\ IInv' /\ image' = image /\ i \in Nat
  BY ValidationSteps, FieldsAreWords DEF VerdictIInv, IInv, TypeOK,
     CheckHeader, CheckSegment, CheckEntry
<1>2. /\ Segments' = Segments /\ HeaderOk' = HeaderOk /\ Passes' = Passes
      /\ \A k \in Segments : HasEntry(image.phdr[k])' = HasEntry(image.phdr[k])
      /\ Segments \subseteq Nat
      /\ \A k \in Segments : k \in 1 .. Len(image.phdr) /\ Loadable(image.phdr[k])
  BY <1>1, FieldsAreWords DEF Segments, HeaderOk, Passes, SegmentOk, HasEntry, IInv
<1>3. CASE CheckHeader
  <2>1. i' = 1 /\ entry_ok' = entry_ok /\ pc' = IF HeaderOk THEN "segment" ELSE "rejected"
    BY <1>1, <1>3 DEF CheckHeader, IInv
  <2>2. ~entry_ok
    BY <1>3 DEF CheckHeader, VerdictIInv
  <2>3. ~HeaderOk => ~Passes
    BY DEF Passes
  <2> QED
    BY <1>1, <1>2, <2>1, <2>2, <2>3 DEF VerdictIInv, Accepted
<1>4. CASE CheckSegment /\ pc' = "rejected"
  <2>1. i \in Segments /\ ~SegmentOk(i)
    <3>1. i \in DOMAIN image.phdr
      BY <1>1, <1>4, FieldsAreWords DEF CheckSegment, IInv, TypeOK
    <3> QED
      BY <1>4, <3>1 DEF CheckSegment, Segments
  <2>2. ~Passes
    BY <2>1 DEF Passes
  <2> QED
    BY <1>1, <1>2, <1>4, <2>2 DEF VerdictIInv, Accepted
<1>5. CASE CheckSegment /\ pc' # "rejected"
  <2>1. /\ pc = "segment" /\ pc' = "segment" /\ i' = i + 1 /\ i \in DOMAIN image.phdr
        /\ entry_ok' <=> entry_ok \/ (Loadable(image.phdr[i]) /\ HasEntry(image.phdr[i]))
    BY <1>1, <1>5, FieldsAreWords DEF CheckSegment, IInv, TypeOK
  <2>2. entry_ok' <=> \E k \in Segments : k < i + 1 /\ HasEntry(image.phdr[k])
    <3>1. entry_ok <=> \E k \in Segments : k < i /\ HasEntry(image.phdr[k])
      BY <2>1 DEF VerdictIInv
    <3>2. \A k \in Segments : k < i + 1 <=> k < i \/ k = i
      <4>1. \A k \in Nat : k < i + 1 <=> k < i \/ k = i
        BY <1>1
      <4> QED
        BY <1>2, <4>1
    <3>3. Loadable(image.phdr[i]) <=> i \in Segments
      BY <2>1 DEF Segments
    <3> QED
      BY <2>1, <3>1, <3>2, <3>3
  <2> QED
    BY <1>1, <1>2, <2>1, <2>2 DEF VerdictIInv, Accepted
<1>6. CASE CheckEntry
  <2>1. /\ pc = "segment" /\ i > Len(image.phdr) /\ HeaderOk
        /\ pc' = IF entry_ok THEN "load" ELSE "rejected"
        /\ entry_ok <=> \E k \in Segments : k < i /\ HasEntry(image.phdr[k])
    BY <1>6 DEF CheckEntry, VerdictIInv
  <2>2. \A k \in Segments : SegmentOk(k)
    <3>1. \A k \in Segments : k \in 1 .. i - 1
      BY <1>1, <1>2, <2>1
    <3> QED
      BY <1>1, <1>2, <2>1, <3>1 DEF IInv, Checked
  <2>3. \A k \in Segments : k < i
    BY <1>1, <1>2, <2>1, FieldsAreWords DEF IInv
  <2>4. entry_ok <=> Passes
    BY <2>1, <2>2, <2>3 DEF Passes
  <2> QED
    BY <1>1, <1>2, <2>1, <2>4 DEF VerdictIInv, Accepted
<1> QED
  BY <1>3, <1>4, <1>5, <1>6

\* The verdict is in every reachable state that of the checks.
LEMMA VerdictInvariance == Spec => []VerdictIInv
<1>1. Init => VerdictIInv
  <2> SUFFICES ASSUME Init PROVE VerdictIInv
    OBVIOUS
  <2>1. pc = "header" /\ ~entry_ok
    BY DEF Init
  <2> QED
    BY <2>1, InitIInv DEF VerdictIInv, Accepted
<1>2. ASSUME VerdictIInv, LoadSegment \/ LoadPage \/ EndSegment \/ Finish
      PROVE  VerdictIInv'
  <2>1. IInv' /\ image' = image /\ Accepted /\ pc' \notin {"header", "segment", "rejected"}
    BY <1>2, LoadingSteps DEF VerdictIInv, LoadSegment, LoadPage, EndSegment, Finish, Accepted
  <2>2. Passes' = Passes
    BY <2>1 DEF Passes, Segments, HeaderOk, SegmentOk, HasEntry
  <2> QED
    BY <1>2, <2>1, <2>2 DEF VerdictIInv
<1>3. ASSUME VerdictIInv, UNCHANGED vars PROVE VerdictIInv'
  <2>1. IInv'
    BY <1>3 DEF VerdictIInv, vars, IInv, TypeOK, Accepted, Checked, SegmentOk, phdr
  <2>2. /\ Passes' = Passes /\ HeaderOk' = HeaderOk /\ Accepted' = Accepted
        /\ pc' = pc /\ i' = i /\ entry_ok' = entry_ok /\ image' = image
    BY <1>3 DEF vars, Passes, Segments, HeaderOk, SegmentOk, HasEntry, Accepted
  <2>3. (\E k \in Segments : k < i /\ HasEntry(image.phdr[k]))' =
        (\E k \in Segments : k < i /\ HasEntry(image.phdr[k]))
    BY <2>2 DEF Segments, HasEntry
  <2> QED
    BY <1>3, <2>1, <2>2, <2>3 DEF VerdictIInv
<1> QED
  BY <1>1, <1>2, <1>3, VerdictOfValidation, PTL DEF Spec, Next

\* The page number of an address.
LEMMA PageNumber ==
    ASSUME NEW va \in Nat
    PROVE  /\ va \div PAGE_SIZE \in Nat
           /\ \A q \in Nat : q = va \div PAGE_SIZE <=>
                                q * PAGE_SIZE <= va /\ va < q * PAGE_SIZE + PAGE_SIZE
<1>1. PAGE_SIZE \in Nat \ {0}
  BY Sizes
<1> DEFINE d == va \div PAGE_SIZE
           m == va % PAGE_SIZE
<1>2. d \in Int /\ m \in 0 .. PAGE_SIZE - 1 /\ va = d * PAGE_SIZE + m
  BY <1>1
<1>3. d >= 0
  <2>1. CASE d <= -1
    BY <1>1, <1>2, <2>1
  <2> QED
    BY <1>2, <2>1
<1>4. ASSUME NEW q \in Nat, q * PAGE_SIZE <= va, va < q * PAGE_SIZE + PAGE_SIZE
      PROVE  q = d
  <2> DEFINE x == va - q * PAGE_SIZE
  <2>1. x \in 0 .. PAGE_SIZE - 1 /\ va = q * PAGE_SIZE + x
    BY <1>1, <1>4
  <2> HIDE DEF x
  <2>2. (q * PAGE_SIZE + x) \div PAGE_SIZE = q
    BY <1>1, <2>1, Remainder
  <2> QED
    BY <2>1, <2>2
<1>5. d * PAGE_SIZE <= va /\ va < d * PAGE_SIZE + PAGE_SIZE
  BY <1>1, <1>2
<1> QED
  BY <1>2, <1>3, <1>4, <1>5

\* The pages of an interval of addresses.
LEMMA InPages ==
    ASSUME NEW x \in Nat, NEW y \in Nat, x < y
    PROVE  /\ PagesOf(x .. y - 1) \subseteq Nat
           /\ \A q \in Nat : q \in PagesOf(x .. y - 1) <=>
                                x < q * PAGE_SIZE + PAGE_SIZE /\ q * PAGE_SIZE < y
<1>1. PAGE_SIZE \in Nat \ {0}
  BY Sizes
<1>2. PagesOf(x .. y - 1) \subseteq Nat
  BY PageNumber DEF PagesOf
<1>3. ASSUME NEW q \in Nat, q \in PagesOf(x .. y - 1)
      PROVE  x < q * PAGE_SIZE + PAGE_SIZE /\ q * PAGE_SIZE < y
  <2>1. PICK va \in x .. y - 1 : q = va \div PAGE_SIZE
    BY <1>3 DEF PagesOf
  <2>2. q * PAGE_SIZE <= va /\ va < q * PAGE_SIZE + PAGE_SIZE
    BY <2>1, PageNumber
  <2> DEFINE s == q * PAGE_SIZE
  <2>3. s \in Int
    BY <1>1
  <2> HIDE DEF s
  <2>4. x < s + PAGE_SIZE /\ s < y
    BY <1>1, <2>1, <2>2, <2>3 DEF s
  <2> QED
    BY <2>4 DEF s
<1>4. ASSUME NEW q \in Nat, x < q * PAGE_SIZE + PAGE_SIZE, q * PAGE_SIZE < y
      PROVE  q \in PagesOf(x .. y - 1)
  <2> DEFINE s  == q * PAGE_SIZE
             va == IF x < s THEN s ELSE x
  <2>1. s \in Nat
    BY <1>1
  <2>2. x < s + PAGE_SIZE /\ s < y
    BY <1>4
  <2> HIDE DEF s
  <2>3. va \in x .. y - 1 /\ s <= va /\ va < s + PAGE_SIZE /\ va \in Nat
    BY <1>1, <2>1, <2>2
  <2> HIDE DEF va
  <2>4. q = va \div PAGE_SIZE
    BY <2>3, PageNumber DEF s
  <2> QED
    BY <2>3, <2>4 DEF PagesOf
<1> QED
  BY <1>2, <1>3, <1>4

\* A segment in the user half ends where it says, and has some address.
LEMMA SegmentIs ==
    ASSUME image \in Images, InUserHalf, NoEmptySegment, NEW k \in Segments
    PROVE  LET ph == image.phdr[k] IN
           /\ k \in 1 .. Len(image.phdr) /\ Loadable(ph)
           /\ {ph.p_vaddr, ph.p_memsz, ph.p_filesz, ph.p_offset} \subseteq Word
           /\ ph.p_vaddr \in Nat /\ SegEnd(ph) \in 0 .. SV_SIZE \div 2 /\ SegEnd(ph) \in Nat
           /\ ph.p_vaddr < SegEnd(ph)
           /\ Addresses(k) = ph.p_vaddr .. SegEnd(ph) - 1
<1> DEFINE ph   == image.phdr[k]
           va   == ph.p_vaddr
           size == ph.p_memsz
           e    == va + size
<1>1. /\ k \in 1 .. Len(image.phdr) /\ Loadable(ph)
      /\ {va, size, ph.p_filesz, ph.p_offset} \subseteq Word
      /\ va + size <= SV_SIZE \div 2 /\ size > 0
  BY FieldsAreWords DEF Segments, InUserHalf, NoEmptySegment
<1>2. SegEnd(ph) = Add(va, size) /\ Addresses(k) = va .. e - 1
  <2>1. va \in Int /\ size \in Int
    <3> HIDE DEF va, size, ph
    <3>1. va \in Word /\ size \in Word
      BY <1>1
    <3> QED
      BY <3>1, WordsAre
  <2>2. Addresses(k) = va .. e - 1
    BY <2>1 DEF Addresses
  <2> QED
    BY <2>2 DEF SegEnd
<1> HIDE DEF va, size
<1>3. /\ WORD \in Nat /\ Word = 0 .. WORD - 1 /\ SV_SIZE \in Nat /\ PAGE_SIZE \in Nat \ {0}
      /\ SV_SIZE \div 2 \in Nat /\ SV_SIZE \div 2 + PAGE_SIZE <= SV_SIZE /\ SV_SIZE <= WORD
  BY Sizes, HalfIs DEF Word
<1>4. va \in Word /\ size \in Word /\ size \in 0 .. WORD
  BY <1>1, <1>3
<1>5. Add(va, size) = IF va + size < WORD THEN va + size ELSE va + size - WORD
  BY <1>4, AddIs
<1>6. Add(va, size) = va + size /\ va + size \in 0 .. SV_SIZE \div 2 /\ va \in Nat
      /\ va < va + size /\ va + size \in Nat
  BY <1>1, <1>3, <1>4, <1>5
<1>7. /\ SegEnd(ph) \in 0 .. SV_SIZE \div 2 /\ SegEnd(ph) \in Nat /\ va < SegEnd(ph)
      /\ Addresses(k) = va .. SegEnd(ph) - 1
  <2>1. SegEnd(ph) = e
    BY <1>2, <1>6
  <2>2. e \in 0 .. SV_SIZE \div 2 /\ e \in Nat /\ va < e
    BY <1>6
  <2>3. Addresses(k) = va .. e - 1
    BY <1>2
  <2> HIDE DEF e, ph
  <2> QED
    BY <2>1, <2>2, <2>3
<1> QED
  BY <1>1, <1>6, <1>7 DEF va, size

(***************************************************************************)
(* The three ranges that are reserved are four pages: the comparison of    *)
(* ranges says of a segment whether it has one of them.                    *)
(***************************************************************************)
LEMMA OverlapIs ==
    ASSUME image \in Images, InUserHalf, NoEmptySegment, NEW k \in Segments
    PROVE  OverlapsReserved(image.phdr[k]) <=>
              PagesOf(Addresses(k)) \cap ReservedPages # {}
<1> DEFINE x     == image.phdr[k].p_vaddr
           y     == SegEnd(image.phdr[k])
           pages == PagesOf(Addresses(k))
<1>1. /\ x \in Nat /\ y \in Nat /\ x < y /\ Addresses(k) = x .. y - 1
  BY SegmentIs
<1>2. OverlapsReserved(image.phdr[k]) <=>
         \/ RangesOverlap(x, y, USER_STACK_TOP - 2 * PAGE_SIZE, USER_STACK_TOP)
         \/ RangesOverlap(x, y, USER_RW_PAGE_VA, USER_RW_PAGE_VA + PAGE_SIZE)
         \/ RangesOverlap(x, y, USER_RO_PAGE_VA, USER_RO_PAGE_VA + PAGE_SIZE)
  BY DEF OverlapsReserved
<1> HIDE DEF x, y
<1>3. \A q \in Nat : q \in pages <=> x < q * PAGE_SIZE + PAGE_SIZE /\ q * PAGE_SIZE < y
  BY <1>1, InPages
<1> HIDE DEF pages
<1>4. PAGE_SIZE \in Nat \ {0} /\ SV_SIZE \div 2 \in Nat
  BY Sizes, HalfIs
<1>5. ASSUME NEW va \in {USER_RW_PAGE_VA, USER_RO_PAGE_VA}
      PROVE  va \div PAGE_SIZE \in pages <=> RangesOverlap(x, y, va, va + PAGE_SIZE)
  <2>1. va \in PAGE_SIZE * 2 .. SV_SIZE \div 2 - PAGE_SIZE /\ va % PAGE_SIZE = 0
    BY <1>5, ExecImageAssumption
  <2>2. va \in Nat
    BY <1>4, <2>1
  <2>3. va \div PAGE_SIZE \in Nat
    BY <2>2, PageNumber
  <2>4. va = (va \div PAGE_SIZE) * PAGE_SIZE
    BY <1>4, <2>1, <2>2
  <2> QED
    BY <1>3, <2>3, <2>4 DEF RangesOverlap
<1>6. /\ USER_STACK_TOP \in PAGE_SIZE * 2 .. SV_SIZE \div 2 - PAGE_SIZE
      /\ USER_STACK_TOP % PAGE_SIZE = 0
  BY ExecImageAssumption
<1> DEFINE t == USER_STACK_TOP \div PAGE_SIZE
<1>7. t \in Int /\ USER_STACK_TOP = t * PAGE_SIZE /\ USER_STACK_TOP \in Nat
  BY <1>4, <1>6
<1> HIDE DEF t
<1>8. t >= 2
  <2>1. CASE t <= 1
    <3>1. t * PAGE_SIZE <= PAGE_SIZE
      <4>1. (1 - t) * PAGE_SIZE >= 0 /\ t * PAGE_SIZE = PAGE_SIZE - (1 - t) * PAGE_SIZE
        BY <1>4, <1>7, <2>1
      <4> QED
        BY <1>4, <1>7, <4>1
    <3> QED
      BY <1>4, <1>6, <1>7, <3>1
  <2> QED
    BY <1>7, <2>1
<1>9. /\ t - 1 \in Nat /\ (t - 1) * PAGE_SIZE = USER_STACK_TOP - PAGE_SIZE
      /\ t - 2 \in Nat /\ (t - 2) * PAGE_SIZE = USER_STACK_TOP - 2 * PAGE_SIZE
  BY <1>4, <1>7, <1>8
<1>10. /\ (USER_STACK_TOP - 1) \div PAGE_SIZE = t - 1
       /\ (USER_STACK_TOP - PAGE_SIZE - 1) \div PAGE_SIZE = t - 2
  <2>1. USER_STACK_TOP - 1 \in Nat /\ USER_STACK_TOP - PAGE_SIZE - 1 \in Nat
    BY <1>4, <1>6
  <2>2. /\ (t - 1) * PAGE_SIZE <= USER_STACK_TOP - 1
        /\ USER_STACK_TOP - 1 < (t - 1) * PAGE_SIZE + PAGE_SIZE
        /\ (t - 2) * PAGE_SIZE <= USER_STACK_TOP - PAGE_SIZE - 1
        /\ USER_STACK_TOP - PAGE_SIZE - 1 < (t - 2) * PAGE_SIZE + PAGE_SIZE
    BY <1>4, <1>7, <1>9
  <2> QED
    BY <1>9, <2>1, <2>2, PageNumber
<1>11. RangesOverlap(x, y, USER_STACK_TOP - 2 * PAGE_SIZE, USER_STACK_TOP) <=>
          t - 1 \in pages \/ t - 2 \in pages
  <2>1. /\ t - 1 \in pages <=> x < USER_STACK_TOP /\ USER_STACK_TOP - PAGE_SIZE < y
        /\ t - 2 \in pages <=> x < USER_STACK_TOP - PAGE_SIZE
                               /\ USER_STACK_TOP - 2 * PAGE_SIZE < y
    BY <1>3, <1>4, <1>7, <1>9
  <2> QED
    BY <1>1, <1>4, <1>7, <2>1 DEF RangesOverlap
<1>12. ReservedPages = {USER_RW_PAGE_VA \div PAGE_SIZE, USER_RO_PAGE_VA \div PAGE_SIZE,
                        t - 1, t - 2}
  BY <1>10 DEF ReservedPages, PagesOf
<1> QED
  BY <1>2, <1>5, <1>11, <1>12 DEF pages

(***************************************************************************)
(* The rounded ranges of two segments overlap when they have a page in     *)
(* common.                                                                 *)
(***************************************************************************)
LEMMA ShareIs ==
    ASSUME image \in Images, InUserHalf, NoEmptySegment,
           NEW k \in Segments, NEW l \in Segments
    PROVE  SharePage(image.phdr[k], image.phdr[l]) <=>
              PagesOf(Addresses(k)) \cap PagesOf(Addresses(l)) # {}
<1> DEFINE x(m)     == image.phdr[m].p_vaddr
           y(m)     == SegEnd(image.phdr[m])
           lower(m) == RoundDown(x(m))
           upper(m) == RoundUp(y(m))
           pages(m) == PagesOf(Addresses(m))
<1>1. ASSUME NEW m \in Segments
      PROVE  /\ lower(m) \in Nat /\ Aligned(lower(m)) /\ upper(m) \in Nat
             /\ lower(m) < y(m) /\ y(m) <= upper(m) /\ y(m) \in Nat /\ x(m) \in Nat
             /\ lower(m) <= x(m) /\ x(m) < lower(m) + PAGE_SIZE
             /\ \A a \in Nat : Aligned(a) /\ a < upper(m) => a < y(m)
             /\ pages(m) \subseteq Nat
             /\ \A q \in Nat : q \in pages(m) <=>
                    x(m) < q * PAGE_SIZE + PAGE_SIZE /\ q * PAGE_SIZE < y(m)
  <2>1. /\ x(m) \in Word /\ x(m) \in Nat /\ y(m) \in Nat /\ x(m) < y(m)
        /\ y(m) \in 0 .. SV_SIZE \div 2 /\ Addresses(m) = x(m) .. y(m) - 1
    BY <1>1, SegmentIs
  <2>2. lower(m) \in Word /\ lower(m) <= x(m) /\ Aligned(lower(m)) /\ lower(m) \in Nat
    BY <2>1, RoundDownIs, WordsAre
  <2>3. x(m) < lower(m) + PAGE_SIZE
    <3>1. x(m) % PAGE_SIZE \in 0 .. PAGE_SIZE - 1 /\ PAGE_SIZE \in Nat
      BY <2>1, Sizes
    <3>2. lower(m) = x(m) - (x(m) % PAGE_SIZE)
      BY DEF RoundDown
    <3> HIDE DEF x, lower
    <3> QED
      BY <2>1, <3>1, <3>2
  <2>4. /\ upper(m) \in Nat /\ y(m) <= upper(m)
        /\ \A a \in Nat : Aligned(a) /\ a < upper(m) => a < y(m)
    BY <2>1, RoundUpIs
  <2>5. /\ pages(m) \subseteq Nat
        /\ \A q \in Nat : q \in pages(m) <=>
               x(m) < q * PAGE_SIZE + PAGE_SIZE /\ q * PAGE_SIZE < y(m)
    BY <2>1, InPages
  <2>6. lower(m) < y(m)
    BY <2>1, <2>2
  <2> QED
    BY <2>1, <2>2, <2>3, <2>4, <2>5, <2>6
<1>2. SharePage(image.phdr[k], image.phdr[l]) <=> lower(k) < upper(l) /\ lower(l) < upper(k)
  BY DEF SharePage, RangesOverlap
<1>3. PAGE_SIZE \in Nat \ {0}
  BY Sizes
<1> HIDE DEF x, y, lower, upper, pages
<1>4. ASSUME NEW q \in pages(k) \cap pages(l)
      PROVE  lower(k) < upper(l) /\ lower(l) < upper(k)
  <2> DEFINE s == q * PAGE_SIZE
  <2>1. q \in Nat /\ s \in Nat
    BY <1>1, <1>3
  <2>2. /\ x(k) < s + PAGE_SIZE /\ s < y(k)
        /\ x(l) < s + PAGE_SIZE /\ s < y(l)
    BY <1>1, <2>1
  <2>3. Aligned(s)
    BY <2>1 DEF Aligned
  <2> HIDE DEF s
  <2>4. ASSUME NEW m \in {k, l} PROVE lower(m) <= s
    <3>1. CASE s < lower(m)
      <4>1. s + PAGE_SIZE <= lower(m)
        BY <1>1, <2>1, <2>3, <3>1, PagesApart
      <4> QED
        BY <1>1, <1>3, <2>1, <2>2, <4>1
    <3> QED
      BY <1>1, <2>1, <3>1
  <2> QED
    BY <1>1, <2>1, <2>2, <2>4
<1>5. ASSUME lower(k) < upper(l), lower(l) < upper(k)
      PROVE  pages(k) \cap pages(l) # {}
  <2> DEFINE s == IF lower(k) < lower(l) THEN lower(l) ELSE lower(k)
  <2>1. s \in Nat /\ Aligned(s) /\ lower(k) <= s /\ lower(l) <= s
    BY <1>1
  <2>2. s < upper(k) /\ s < upper(l)
    <3>1. lower(k) < upper(k) /\ lower(l) < upper(l)
      BY <1>1
    <3> QED
      BY <1>5, <3>1
  <2> HIDE DEF s
  <2>3. s < y(k) /\ s < y(l)
    BY <1>1, <2>1, <2>2
  <2>4. x(k) < s + PAGE_SIZE /\ x(l) < s + PAGE_SIZE
    BY <1>1, <1>3, <2>1
  <2>5. PICK q \in Nat : s = q * PAGE_SIZE
    BY <2>1 DEF Aligned
  <2>6. q \in pages(k) /\ q \in pages(l)
    BY <1>1, <2>3, <2>4, <2>5
  <2> QED
    BY <2>6
<1> QED
  BY <1>2, <1>4, <1>5 DEF pages

\* A sum that wraps around is smaller than what was added to, so the test
\* for the file is that of plain numbers.
LEMMA InFileIs ==
    ASSUME NEW offset \in Word, NEW size \in Word
    PROVE  InFile(offset, size) <=> offset + size <= app_elf_len
<1>1. /\ WORD \in Nat /\ app_elf_len \in 0 .. WORD - 1
      /\ offset \in 0 .. WORD - 1 /\ size \in 0 .. WORD - 1
  BY Sizes, ExecImageAssumption DEF Word
<1>2. Add(offset, size) = IF offset + size < WORD THEN offset + size ELSE offset + size - WORD
  BY <1>1, AddIs
<1> QED
  BY <1>1, <1>2 DEF InFile

\* A difference that wraps around has the same remainder for an alignment.
LEMMA AlignIs ==
    ASSUME NEW a \in Word, NEW b \in Word, NEW n \in Nat \ {0}, WORD % n = 0
    PROVE  Sub(a, b) % n = (a - b) % n
<1>1. WORD \in Nat \ {0} /\ a \in Nat /\ b \in Nat
  BY Sizes, WordsAre
<1> DEFINE c == WORD \div n
           x == a - b
           q == x \div WORD
           r == x % WORD
           d == r \div n
           m == r % n
<1>2. c \in Int /\ WORD = c * n
  BY <1>1
<1>3. WORD \in Nat \ {0} /\ x \in Int
  BY <1>1
<1> HIDE DEF c, x
<1>4. q \in Int /\ r \in 0 .. WORD - 1 /\ x = q * WORD + r
  BY <1>3
<1>5. Sub(a, b) = r
  BY DEF Sub, x
<1> HIDE DEF q, r
<1>6. d \in Int /\ m \in 0 .. n - 1 /\ r = d * n + m
  BY <1>1, <1>4
<1> HIDE DEF d, m
<1>7. q * c + d \in Int /\ x = (q * c + d) * n + m
  BY <1>1, <1>2, <1>4, <1>6
<1>8. x % n = m
  <2>1. ((q * c + d) * n + m) % n = m
    BY <1>6, <1>7, Remainder
  <2> QED
    BY <1>7, <2>1
<1>9. r % n = m
  <2>1. (d * n + m) % n = m
    BY <1>6, Remainder
  <2> QED
    BY <1>6, <2>1
<1> QED
  BY <1>5, <1>8, <1>9 DEF x

\* What an image that is well formed says of one segment.
SegmentFormed(k) ==
    LET ph == image.phdr[k] IN
    /\ ph.p_filesz <= ph.p_memsz
    /\ ph.p_offset + ph.p_filesz <= app_elf_len
    /\ ph.p_align = 0 \/ (ph.p_vaddr - ph.p_offset) % ph.p_align = 0
    /\ PagesOf(Addresses(k)) \cap ReservedPages = {}

(***************************************************************************)
(* One iteration of the loop of validate_exec_image, for a segment in the  *)
(* user half that is not empty.                                            *)
(***************************************************************************)
LEMMA SegmentOkIs ==
    ASSUME image \in Images, InUserHalf, NoEmptySegment, NEW k \in Segments
    PROVE  SegmentOk(k) <=>
              /\ SegmentFormed(k)
              /\ \A l \in Segments : k < l =>
                    PagesOf(Addresses(k)) \cap PagesOf(Addresses(l)) = {}
<1> DEFINE ph == image.phdr[k]
<1>1. /\ ph.p_filesz \in Word /\ ph.p_offset \in Word /\ ph.p_vaddr \in Word
      /\ ph.p_vaddr \in Nat /\ SegEnd(ph) \in Nat /\ ph.p_vaddr < SegEnd(ph)
  BY SegmentIs
<1>2. InFile(ph.p_offset, ph.p_filesz) <=> ph.p_offset + ph.p_filesz <= app_elf_len
  BY <1>1, InFileIs
<1>3. (ph.p_align # 0 => Sub(ph.p_vaddr, ph.p_offset) % ph.p_align = 0) <=>
         ph.p_align = 0 \/ (ph.p_vaddr - ph.p_offset) % ph.p_align = 0
  <2>1. /\ ph.p_align \in Nat
        /\ ph.p_align = 0 \/ WORD % ph.p_align = 0
    <3>1. k \in DOMAIN image.phdr /\ ph.p_align \in Word
      BY FieldsAreWords DEF Segments
    <3>2. \A m \in DOMAIN image.phdr : image.phdr[m].p_align = 0 \/ WORD % image.phdr[m].p_align = 0
      BY ImagesAssumption
    <3> QED
      BY <3>1, <3>2, WordsAre
  <2>2. CASE ph.p_align = 0
    BY <2>2
  <2>3. CASE ph.p_align # 0
    <3>1. Sub(ph.p_vaddr, ph.p_offset) % ph.p_align = (ph.p_vaddr - ph.p_offset) % ph.p_align
      BY <1>1, <2>1, <2>3, AlignIs
    <3> QED
      BY <2>3, <3>1
  <2> QED
    BY <2>2, <2>3
<1>4. SegEnd(ph) >= ph.p_vaddr
  BY <1>1
<1>5. ~OverlapsReserved(ph) <=> PagesOf(Addresses(k)) \cap ReservedPages = {}
  BY OverlapIs
<1>6. (\A j \in k + 1 .. Len(image.phdr) :
          Loadable(image.phdr[j]) => ~SharePage(ph, image.phdr[j])) <=>
      (\A l \in Segments : k < l => PagesOf(Addresses(k)) \cap PagesOf(Addresses(l)) = {})
  <2>1. \A j : j \in k + 1 .. Len(image.phdr) /\ Loadable(image.phdr[j]) <=>
                  j \in Segments /\ k < j
    BY FieldsAreWords DEF Segments
  <2>2. \A l \in Segments : SharePage(ph, image.phdr[l]) <=>
                               PagesOf(Addresses(k)) \cap PagesOf(Addresses(l)) # {}
    BY ShareIs
  <2> QED
    BY <2>1, <2>2
<1>7. SegmentOk(k) <=>
         /\ ph.p_filesz <= ph.p_memsz
         /\ InFile(ph.p_offset, ph.p_filesz)
         /\ ph.p_align # 0 => Sub(ph.p_vaddr, ph.p_offset) % ph.p_align = 0
         /\ SegEnd(ph) >= ph.p_vaddr
         /\ ~OverlapsReserved(ph)
         /\ \A j \in k + 1 .. Len(image.phdr) :
               Loadable(image.phdr[j]) => ~SharePage(ph, image.phdr[j])
  BY DEF SegmentOk
<1>8. SegmentFormed(k) <=>
         /\ ph.p_filesz <= ph.p_memsz
         /\ ph.p_offset + ph.p_filesz <= app_elf_len
         /\ ph.p_align = 0 \/ (ph.p_vaddr - ph.p_offset) % ph.p_align = 0
         /\ PagesOf(Addresses(k)) \cap ReservedPages = {}
  BY DEF SegmentFormed
<1> HIDE DEF ph
<1> QED
  BY <1>2, <1>3, <1>4, <1>5, <1>6, <1>7, <1>8

\* The header, with a table that lies in the file.
LEMMA HeaderIs ==
    ASSUME image \in Images
    PROVE  HeaderOk <=>
              /\ image.magic /\ image.e_phentsize = PHDR_SIZE /\ EHDR_SIZE <= app_elf_len
              /\ image.e_phoff + Len(image.phdr) * PHDR_SIZE <= app_elf_len
<1>1. /\ image.e_phoff \in Word /\ Len(image.phdr) * PHDR_SIZE < WORD
      /\ Len(image.phdr) \in Nat /\ PHDR_SIZE \in Nat /\ EHDR_SIZE \in Nat /\ app_elf_len \in Nat
  BY ImagesAssumption, FieldsAreWords, Sizes DEF Word
<1> DEFINE n == Len(image.phdr) * PHDR_SIZE
<1>2. n \in Word
  BY <1>1, Sizes DEF Word
<1> HIDE DEF n
<1>3. InFile(image.e_phoff, n) <=> image.e_phoff + n <= app_elf_len
  BY <1>1, <1>2, InFileIs
<1> QED
  BY <1>1, <1>3 DEF HeaderOk, n

(***************************************************************************)
(* Validation and the meaning of the image agree.                          *)
(***************************************************************************)
LEMMA PassesIs ==
    ASSUME image \in Images, InUserHalf, NoEmptySegment
    PROVE  Passes <=> WellFormed
<1> DEFINE common(k, l) == PagesOf(Addresses(k)) \cap PagesOf(Addresses(l))
<1>1. \A k \in Segments : HasEntry(image.phdr[k]) <=> image.e_entry \in Addresses(k)
  <2> SUFFICES ASSUME NEW k \in Segments
               PROVE  HasEntry(image.phdr[k]) <=> image.e_entry \in Addresses(k)
    OBVIOUS
  <2> DEFINE x == image.phdr[k].p_vaddr
             y == SegEnd(image.phdr[k])
  <2>1. x \in Nat /\ y \in Nat /\ Addresses(k) = x .. y - 1
    BY SegmentIs
  <2>2. image.e_entry \in Nat
    BY ImagesAssumption
  <2>3. HasEntry(image.phdr[k]) <=> image.e_entry >= x /\ image.e_entry < y
    BY DEF HasEntry
  <2> HIDE DEF x, y
  <2> QED
    BY <2>1, <2>2, <2>3
<1>2. (\A k \in Segments : SegmentOk(k)) <=>
         /\ \A k \in Segments : SegmentFormed(k)
         /\ \A k \in Segments : \A l \in Segments : k < l => common(k, l) = {}
  BY SegmentOkIs
<1>3. (\A k \in Segments : \A l \in Segments : k < l => common(k, l) = {}) <=>
         \A k \in Segments : \A l \in Segments \ {k} : common(k, l) = {}
  <2>1. Segments \subseteq Nat
    BY FieldsAreWords DEF Segments
  <2>2. \A k, l : common(k, l) = common(l, k)
    OBVIOUS
  <2>3. \A k \in Segments : \A l \in Segments : (k # l <=> k < l \/ l < k)
    BY <2>1
  <2> HIDE DEF common
  <2> QED
    BY <2>2, <2>3
<1>4. WellFormed <=>
         /\ HeaderOk
         /\ \A k \in Segments : SegmentFormed(k)
         /\ \A k \in Segments : \A l \in Segments \ {k} : common(k, l) = {}
         /\ \E k \in Segments : image.e_entry \in Addresses(k)
  BY HeaderIs DEF WellFormed, SegmentFormed
<1> QED
  BY <1>1, <1>2, <1>3, <1>4 DEF Passes

(***************************************************************************)
(* Validation, with words that wrap around, accepts exactly the images     *)
(* that are well formed in plain arithmetic.                               *)
(***************************************************************************)
THEOREM ValidationIsRight == Spec => []VerdictIsRight
<1>1. ASSUME VerdictIInv PROVE VerdictIsRight
  <2>1. /\ Accepted => Passes
        /\ pc = "rejected" => ~Passes
        /\ image \in Images
    BY <1>1 DEF VerdictIInv, IInv
  <2> QED
    BY <2>1, PassesIs DEF VerdictIsRight
<1> QED
  BY <1>1, VerdictInvariance, PTL

-----------------------------------------------------------------------------
(***************************************************************************)
(* What is loaded is what the image says.                                  *)
(***************************************************************************)

\* The pages that validation compares are the pages of the addresses.
LEMMA CoversIs ==
    ASSUME image \in Images, InUserHalf, NoEmptySegment, NEW k \in Segments, NEW q \in Nat
    PROVE  Covers(k, q * PAGE_SIZE) <=> q \in PagesOf(Addresses(k))
<1> DEFINE x == image.phdr[k].p_vaddr
           y == SegEnd(image.phdr[k])
           a == q * PAGE_SIZE
           d == RoundDown(x)
           u == RoundUp(y)
<1>1. /\ x \in Word /\ x \in Nat /\ y \in 0 .. SV_SIZE \div 2 /\ y \in Nat /\ x < y
      /\ Addresses(k) = x .. y - 1
  BY SegmentIs
<1>2. Covers(k, a) <=> d <= a /\ a < u
  BY DEF Covers
<1> HIDE DEF x, y
<1>3. q \in PagesOf(Addresses(k)) <=> x < a + PAGE_SIZE /\ a < y
  BY <1>1, InPages
<1>4. PAGE_SIZE \in Nat \ {0} /\ a \in Nat /\ Aligned(a)
  <2>1. PAGE_SIZE \in Nat \ {0}
    BY Sizes
  <2>2. a \in Nat
    BY <2>1
  <2> QED
    BY <2>1, <2>2 DEF Aligned
<1>5. d \in Nat /\ d <= x /\ Aligned(d) /\ x - d < PAGE_SIZE
  <2>1. d \in Word /\ d <= x /\ Aligned(d)
    BY <1>1, RoundDownIs
  <2>2. x - d < PAGE_SIZE
    BY <1>1, <1>4 DEF RoundDown
  <2> QED
    BY <2>1, <2>2, WordsAre
<1>6. u \in Nat /\ y <= u /\ (a < u => a < y)
  BY <1>1, <1>4, RoundUpIs
<1>7. a < d => a + PAGE_SIZE <= d
  BY <1>4, <1>5, PagesApart
<1> HIDE DEF a, d, u
<1> QED
  BY <1>1, <1>2, <1>3, <1>4, <1>5, <1>6, <1>7 DEF a

\* The stack's page, by number and by address.
LEMMA StackPageIs ==
    /\ StackPage \in Nat /\ StackPage * PAGE_SIZE = USER_STACK_TOP - PAGE_SIZE
    /\ StackPage = PageIndex(USER_STACK_TOP - PAGE_SIZE) /\ StackPage \in ReservedPages
    /\ \A q \in Nat : q * PAGE_SIZE = USER_STACK_TOP - PAGE_SIZE => q = StackPage
<1> DEFINE a == USER_STACK_TOP - PAGE_SIZE
           q == PageIndex(a)
<1>1. a \in 0 .. SV_SIZE - 1 /\ Aligned(a) /\ USER_STACK_TOP \in Nat
      /\ PAGE_SIZE \in Nat \ {0} /\ SV_SIZE \in Nat
  BY StackIs, Sizes, ExecImageAssumption
<1>2. q \in Nat /\ q * PAGE_SIZE = a
  BY <1>1, PageIndexOf
<1> HIDE DEF q
<1>3. USER_STACK_TOP - 1 \in Nat /\ a <= USER_STACK_TOP - 1 /\ USER_STACK_TOP - 1 < a + PAGE_SIZE
  BY <1>1
<1>4. q = (USER_STACK_TOP - 1) \div PAGE_SIZE
  BY <1>2, <1>3, PageNumber
<1>5. StackPage = q
  BY <1>4 DEF StackPage
<1>6. StackPage \in ReservedPages
  BY DEF StackPage, ReservedPages, PagesOf
<1>7. ASSUME NEW r \in Nat, r * PAGE_SIZE = a PROVE r = q
  <2>1. r * PAGE_SIZE <= USER_STACK_TOP - 1 /\ USER_STACK_TOP - 1 < r * PAGE_SIZE + PAGE_SIZE
    BY <1>3, <1>7
  <2>2. r = (USER_STACK_TOP - 1) \div PAGE_SIZE
    BY <1>3, <2>1, PageNumber
  <2> QED
    BY <1>4, <2>2
<1> QED
  BY <1>2, <1>5, <1>6, <1>7 DEF q

(***************************************************************************)
(* A byte of a page that the file provides belongs to a segment that has   *)
(* the page.                                                               *)
(***************************************************************************)
LEMMA BytesAreIn ==
    ASSUME image \in Images, InUserHalf, NoEmptySegment, WellFormed,
           NEW q \in Nat, NEW b \in 0 .. PAGE_SIZE - 1, NEW k \in Segments,
           q * PAGE_SIZE + b \in image.phdr[k].p_vaddr ..
                                 image.phdr[k].p_vaddr + image.phdr[k].p_filesz - 1
    PROVE  q \in PagesOf(Addresses(k))
<1> DEFINE ph == image.phdr[k]
           va == q * PAGE_SIZE + b
<1>1. PAGE_SIZE \in Nat \ {0} /\ q * PAGE_SIZE \in Nat /\ va \in Nat
  BY Sizes
<1>2. /\ ph.p_vaddr \in Nat /\ ph.p_filesz \in Nat /\ ph.p_memsz \in Nat
      /\ ph.p_filesz <= ph.p_memsz
  <2>1. {ph.p_vaddr, ph.p_memsz, ph.p_filesz} \subseteq Word
    BY SegmentIs
  <2> QED
    BY <2>1, WordsAre DEF WellFormed
<1>3. va \in Addresses(k)
  <2> DEFINE x == ph.p_vaddr
             f == ph.p_filesz
             s == ph.p_memsz
  <2>1. va \in x .. x + f - 1 /\ Addresses(k) = x .. x + s - 1
        /\ x \in Nat /\ f \in Nat /\ s \in Nat /\ f <= s
    BY <1>2 DEF Addresses
  <2> HIDE DEF x, f, s, va
  <2> QED
    BY <2>1
<1>4. q = va \div PAGE_SIZE
  <2>1. q * PAGE_SIZE <= va /\ va < q * PAGE_SIZE + PAGE_SIZE
    BY <1>1
  <2> QED
    BY <1>1, <2>1, PageNumber
<1> QED
  BY <1>3, <1>4 DEF PagesOf

\* The stack begins with zeros: no segment has bytes there.
LEMMA StackIsBlank ==
    ASSUME image \in Images, InUserHalf, NoEmptySegment, WellFormed
    PROVE  ExpectedPage(StackPage) = [flags |-> {"R", "W"}, bytes |-> BlankPage]
<1>1. ASSUME NEW b \in 0 .. PAGE_SIZE - 1
      PROVE  Expected(StackPage * PAGE_SIZE + b) = ZERO
  <2>1. ASSUME NEW k \in Segments,
               StackPage * PAGE_SIZE + b \in
                   image.phdr[k].p_vaddr .. image.phdr[k].p_vaddr + image.phdr[k].p_filesz - 1
        PROVE  FALSE
    <3>1. StackPage \in PagesOf(Addresses(k))
      BY <2>1, StackPageIs, BytesAreIn
    <3>2. PagesOf(Addresses(k)) \cap ReservedPages = {}
      BY DEF WellFormed
    <3> QED
      BY <3>1, <3>2, StackPageIs
  <2> QED
    BY <2>1 DEF Expected
<1>2. [b \in 0 .. PAGE_SIZE - 1 |-> Expected(StackPage * PAGE_SIZE + b)] = BlankPage
  BY <1>1 DEF BlankPage
<1> QED
  BY <1>2 DEF ExpectedPage

(***************************************************************************)
(* The page that is filled at the loop index is the one that belongs       *)
(* there: what the copy leaves out is what the segment does not have in    *)
(* the file, and no other segment has bytes in the page.                   *)
(***************************************************************************)
LEMMA FilledIsExpected ==
    ASSUME LayoutIInv, InUserHalf, NoEmptySegment, WellFormed, LoadPage
    PROVE  ExpectedPage(PageIndex(page)) = [flags |-> phdr.p_flags, bytes |-> FilledPage]
<1> DEFINE q     == PageIndex(page)
           va    == phdr.p_vaddr
           size  == phdr.p_filesz
           from  == phdr.p_offset
           first == CopyStart % PAGE_SIZE
<1>1. /\ i \in Segments /\ Covers(i, page) /\ page \in Nat /\ q \in Nat
      /\ q * PAGE_SIZE = page /\ page' = page + PAGE_SIZE
  BY NextPage
<1>2. IInv /\ image \in Images /\ page \in Word /\ Aligned(page) /\ Accepted
  BY DEF LayoutIInv, IInv, TypeOK, LoadPage, Accepted
<1>3. /\ va \in Word /\ size \in Word /\ from \in Word
      /\ va \in Nat /\ size \in Nat /\ from \in Nat
  BY <1>1, <1>2, SegmentIs, WordsAre DEF phdr
<1>4. /\ PAGE_SIZE \in Nat \ {0} /\ WORD \in Nat /\ Word = 0 .. WORD - 1
      /\ app_elf_len \in Nat /\ app_elf_len < WORD /\ page + PAGE_SIZE <= WORD
  BY <1>2, Sizes, PageFits, ExecImageAssumption DEF Word
<1>5. q \in PagesOf(Addresses(i)) /\ \A k \in Segments : q \in PagesOf(Addresses(k)) => k = i
  BY <1>1, <1>2, CoversIs DEF WellFormed
<1>6. q # StackPage
  <2>1. PagesOf(Addresses(i)) \cap ReservedPages = {}
    BY <1>1 DEF WellFormed
  <2> QED
    BY <1>5, <2>1, StackPageIs
<1>7. ExpectedPage(q).flags = phdr.p_flags
  <2>1. (CHOOSE k \in Segments : q \in PagesOf(Addresses(k))) = i
    BY <1>1, <1>5
  <2> QED
    BY <1>6, <2>1 DEF ExpectedPage, phdr
<1>8. va + size < WORD /\ from + size <= app_elf_len /\ va < page + PAGE_SIZE
  <2>1. /\ size <= phdr.p_memsz /\ from + size <= app_elf_len
        /\ va + phdr.p_memsz <= SV_SIZE \div 2 /\ phdr.p_memsz \in Word
    BY <1>1, <1>2, SegmentIs DEF WellFormed, InUserHalf, phdr
  <2>2. /\ SV_SIZE \div 2 \in Nat /\ SV_SIZE \in Nat /\ SV_SIZE <= WORD
        /\ SV_SIZE \div 2 + PAGE_SIZE <= SV_SIZE
    BY HalfIs, Sizes
  <2>3. RoundDown(va) <= page /\ RoundDown(va) \in Nat /\ va - RoundDown(va) < PAGE_SIZE
    <3>1. RoundDown(va) <= page
      BY <1>1 DEF Covers, phdr
    <3>2. RoundDown(va) \in Word
      BY <1>3, RoundDownIs
    <3>3. va - RoundDown(va) < PAGE_SIZE
      BY <1>3, <1>4 DEF RoundDown
    <3> QED
      BY <3>1, <3>2, <3>3, WordsAre
  <2> HIDE DEF va, size, from
  <2> QED
    BY <1>1, <1>3, <1>4, <2>1, <2>2, <2>3, WordsAre
<1> HIDE DEF q, first
<1>9. /\ CopyStart \in Nat /\ CopyStart = IF page > va THEN page ELSE va
      /\ CopyStart \in page .. page + PAGE_SIZE - 1 /\ first = CopyStart - page
  <2>1. CopyStart = IF page > va THEN page ELSE va
    BY DEF CopyStart
  <2> HIDE DEF va
  <2>2. CopyStart \in Nat /\ CopyStart \in page .. page + PAGE_SIZE - 1
    BY <1>1, <1>3, <1>4, <1>8, <2>1
  <2>3. first = CopyStart - page
    BY <1>2, <2>2, PageFits DEF first
  <2> QED
    BY <2>1, <2>2, <2>3
<1>10. /\ CopyEnd \in Nat
       /\ CopyEnd = IF page + PAGE_SIZE < va + size THEN page + PAGE_SIZE ELSE va + size
  <2>1. FileEnd = va + size
    <3>1. FileEnd = Add(va, size)
      BY DEF FileEnd
    <3> HIDE DEF va, size
    <3>2. size \in 0 .. WORD
      BY <1>3, <1>4
    <3>3. Add(va, size) = IF va + size < WORD THEN va + size ELSE va + size - WORD
      BY <1>3, <3>2, AddIs
    <3> QED
      BY <1>8, <3>1, <3>3
  <2>2. Add(page, PAGE_SIZE) = page + PAGE_SIZE
    BY <1>1 DEF LoadPage
  <2>3. CopyEnd = IF page + PAGE_SIZE < va + size THEN page + PAGE_SIZE ELSE va + size
    BY <2>1, <2>2 DEF CopyEnd
  <2> HIDE DEF va, size
  <2> QED
    BY <1>1, <1>3, <1>4, <2>3
<1>11. CopyStart < CopyEnd => SrcOffset = from + (CopyStart - va)
  <2> SUFFICES ASSUME CopyStart < CopyEnd PROVE SrcOffset = from + (CopyStart - va)
    OBVIOUS
  <2>1. SrcOffset = Add(from, Sub(CopyStart, va))
    BY DEF SrcOffset
  <2> HIDE DEF va, size, from
  <2>2. CopyStart \in Word /\ va <= CopyStart /\ CopyStart - va < size
    BY <1>1, <1>3, <1>4, <1>8, <1>9, <1>10
  <2>3. Sub(CopyStart, va) = CopyStart - va
    BY <1>3, <2>2, SubIs
  <2> DEFINE n == CopyStart - va
  <2>4. n \in 0 .. WORD /\ from + n < WORD
    BY <1>3, <1>4, <1>8, <1>9, <2>2
  <2> HIDE DEF n
  <2>5. Add(from, n) = from + n
    <3>1. Add(from, n) = IF from + n < WORD THEN from + n ELSE from + n - WORD
      BY <1>3, <2>4, AddIs
    <3> QED
      BY <2>4, <3>1
  <2> QED
    BY <2>1, <2>3, <2>5 DEF n
<1>12. ASSUME NEW b \in 0 .. PAGE_SIZE - 1
       PROVE  Expected(q * PAGE_SIZE + b) = FilledPage[b]
  <2> DEFINE byte == page + b
             in   == {k \in Segments : byte \in image.phdr[k].p_vaddr ..
                                     image.phdr[k].p_vaddr + image.phdr[k].p_filesz - 1}
  <2>1. in \subseteq {i}
    BY <1>1, <1>2, <1>5, BytesAreIn
  <2>2. i \in in <=> va <= byte /\ byte < va + size
    <3>1. i \in in <=> byte \in va .. va + size - 1
      BY <1>1 DEF phdr
    <3> HIDE DEF va, size
    <3> QED
      BY <1>1, <1>3, <1>4, <3>1
  <2>3. Expected(byte) = IF va <= byte /\ byte < va + size THEN from + byte - va ELSE ZERO
    <3>1. Expected(byte) = IF in = {} THEN ZERO
                           ELSE image.phdr[CHOOSE k \in in : TRUE].p_offset + byte
                                - image.phdr[CHOOSE k \in in : TRUE].p_vaddr
      BY DEF Expected
    <3>2. i \in in => (CHOOSE k \in in : TRUE) = i
      <4> HIDE DEF in
      <4> QED
        BY <2>1
    <3>3. i \in in <=> in # {}
      <4> HIDE DEF in
      <4> QED
        BY <2>1
    <3> HIDE DEF in
    <3> QED
      BY <2>2, <3>1, <3>2, <3>3 DEF phdr
  <2>4. FilledPage[b] = IF CopyStart < CopyEnd /\ b \in first .. first + CopyEnd - CopyStart - 1
                        THEN SrcOffset + b - first ELSE ZERO
    BY DEF FilledPage, first
  <2>5. (CopyStart < CopyEnd /\ b \in first .. first + CopyEnd - CopyStart - 1)
           <=> va <= byte /\ byte < va + size
    <3> HIDE DEF va, size
    <3> QED
      BY <1>1, <1>3, <1>4, <1>9, <1>10
  <2>6. CopyStart < CopyEnd => SrcOffset + b - first = from + byte - va
    <3> HIDE DEF va, size, from
    <3> QED
      BY <1>1, <1>3, <1>4, <1>9, <1>11
  <2> HIDE DEF va, size, from, byte
  <2>7. Expected(byte) = FilledPage[b]
    BY <2>3, <2>4, <2>5, <2>6
  <2> QED
    BY <1>1, <2>7 DEF byte
<1>13. ExpectedPage(q).bytes = FilledPage
  BY <1>12 DEF ExpectedPage, FilledPage
<1>14. ExpectedPage(q) = [flags |-> ExpectedPage(q).flags, bytes |-> ExpectedPage(q).bytes]
  BY DEF ExpectedPage
<1> QED
  BY <1>7, <1>13, <1>14 DEF q

\* What has been placed is mapped, and filled as the image says.
Loaded ==
    /\ \A q \in Nat : Placed(q * PAGE_SIZE) => q \in DOMAIN space
    /\ \A p \in DOMAIN space : space[p] = ExpectedPage(p)

(***************************************************************************)
(* The converse of LayoutIInv, and what the pages hold.  It is inductive   *)
(* together with LayoutIInv and VerdictIInv.                               *)
(***************************************************************************)
LoadIInv ==
    /\ pc = "done" => i > Len(image.phdr)
    /\ InUserHalf /\ NoEmptySegment /\ Accepted => Loaded

\* The new page table has the stack in it, and the stack is blank.
LEMMA LoadOfValidation ==
    ASSUME LayoutIInv, VerdictIInv, VerdictIInv', LoadIInv,
           CheckHeader \/ CheckSegment \/ CheckEntry
    PROVE  LoadIInv'
<1>1. /\ image' = image /\ image \in Images /\ pc' # "done"
      /\ pc' \in {"segment", "load", "rejected"}
  BY DEF LayoutIInv, IInv, CheckHeader, CheckSegment, CheckEntry
<1> SUFFICES ASSUME InUserHalf, NoEmptySegment, pc' = "load"
             PROVE  Loaded'
  BY <1>1 DEF LoadIInv, Accepted, InUserHalf, NoEmptySegment, Segments
<1>2. /\ space' = [p \in {StackPage} |-> [flags |-> {"R", "W"}, bytes |-> BlankPage]]
      /\ i' = 1
  BY StackPageIs DEF CheckHeader, CheckSegment, CheckEntry
<1>3. WellFormed
  <2>1. Passes'
    BY DEF VerdictIInv, Accepted
  <2>2. Passes
    BY <1>1, <2>1 DEF Passes, HeaderOk, SegmentOk, HasEntry, Segments
  <2> QED
    BY <1>1, <2>2, PassesIs
<1>4. \A p : ExpectedPage(p)' = ExpectedPage(p)
  BY <1>1 DEF ExpectedPage, Expected, Segments, Addresses
<1>5. \A p \in DOMAIN space' : space'[p] = ExpectedPage(p)'
  BY <1>1, <1>2, <1>3, <1>4, StackIsBlank
<1>6. ASSUME NEW q \in Nat, Placed(q * PAGE_SIZE)' PROVE q \in DOMAIN space'
  <2>1. \A k \in Segments' : ~(k < i')
    BY <1>1, <1>2, FieldsAreWords DEF Segments
  <2>2. q * PAGE_SIZE = USER_STACK_TOP - PAGE_SIZE
    BY <1>6, <2>1 DEF Placed
  <2> QED
    BY <1>2, <2>2, StackPageIs
<1> QED
  BY <1>5, <1>6 DEF Loaded

\* The loading loop: the page at the loop index becomes what it should be.
LEMMA LoadOfLoading ==
    ASSUME LayoutIInv, VerdictIInv, LoadIInv,
           LoadSegment \/ LoadPage \/ EndSegment \/ Finish
    PROVE  LoadIInv'
<1>1. /\ image' = image /\ image \in Images /\ IInv /\ Accepted /\ Passes
      /\ pc \in {"load", "page"} /\ i \in Nat /\ Len(image.phdr) \in Nat
      /\ DOMAIN image.phdr = 1 .. Len(image.phdr)
  BY FieldsAreWords DEF LayoutIInv, VerdictIInv, IInv, TypeOK, Accepted,
                        LoadSegment, LoadPage, EndSegment, Finish
<1>2. pc' = "done" => i' > Len(image'.phdr)
  BY <1>1 DEF LoadSegment, LoadPage, EndSegment, Finish
<1> SUFFICES ASSUME InUserHalf, NoEmptySegment
             PROVE  Loaded'
  BY <1>1, <1>2 DEF LoadIInv, InUserHalf, NoEmptySegment, Segments
<1>3. WellFormed /\ Loaded
  BY <1>1, PassesIs DEF LoadIInv
<1>4. Segments' = Segments /\ Segments \subseteq Nat
      /\ \A p : ExpectedPage(p)' = ExpectedPage(p)
  BY <1>1 DEF ExpectedPage, Expected, Segments, Addresses
<1>5. \A k, a : Covers(k, a)' <=> Covers(k, a)
  BY <1>1 DEF Covers
<1>6. CASE LoadSegment
  <2>1. space' = space
    BY <1>6 DEF LoadSegment
  <2>2. ASSUME NEW q \in Nat, Placed(q * PAGE_SIZE)' PROVE Placed(q * PAGE_SIZE)
    <3> DEFINE a == q * PAGE_SIZE
    <3>1. CASE a = USER_STACK_TOP - PAGE_SIZE
      BY <3>1 DEF Placed
    <3>2. CASE \E k \in Segments : k < i' /\ Covers(k, a)
      <4>1. PICK k \in Segments : k < i' /\ Covers(k, a)
        BY <3>2
      <4>2. i' = i \/ (i' = i + 1 /\ ~Loadable(phdr))
        BY <1>6 DEF LoadSegment
      <4>3. k < i
        BY <1>1, <1>4, <4>1, <4>2 DEF Segments, phdr
      <4> QED
        BY <4>1, <4>3 DEF Placed
    <3>3. CASE pc' = "page" /\ a < page' /\ Covers(i', a)
      <4>1. i' = i /\ i \in Segments /\ page' = RoundDown(image.phdr[i].p_vaddr)
        BY <1>1, <1>6, <3>3 DEF LoadSegment, Segments, phdr, IInv, TypeOK
      <4>2. RoundDown(image.phdr[i].p_vaddr) <= a
        BY <3>3, <4>1 DEF Covers
      <4>3. a \in Nat /\ page' \in Nat
        <5>1. PAGE_SIZE \in Nat
          BY Sizes
        <5>2. image.phdr[i].p_vaddr \in Word
          BY <1>1, <4>1, SegmentIs
        <5>3. page' \in Word
          BY <4>1, <5>2, RoundDownIs
        <5> QED
          BY <5>1, <5>3, WordsAre
      <4> HIDE DEF a
      <4> QED
        BY <3>3, <4>1, <4>2, <4>3
    <3> QED
      BY <1>4, <1>5, <2>2, <3>1, <3>2, <3>3 DEF Placed
  <2> QED
    BY <1>3, <1>4, <2>1, <2>2 DEF Loaded
<1>7. CASE LoadPage
  <2> DEFINE n == PageIndex(page)
  <2>1. /\ i \in Segments /\ Covers(i, page) /\ page \in Nat
        /\ n \in Nat /\ n * PAGE_SIZE = page
        /\ page' = page + PAGE_SIZE /\ PAGE_SIZE \in Nat \ {0} /\ Aligned(page)
    BY <1>7, NextPage, Sizes DEF LayoutIInv, IInv, LoadPage
  <2>2. /\ DOMAIN space' = DOMAIN space \cup {n}
        /\ space'[n] = [flags |-> phdr.p_flags, bytes |-> FilledPage]
        /\ \A p \in DOMAIN space : p # n => space'[p] = space[p]
        /\ i' = i /\ pc' = pc /\ pc = "page"
    BY <1>7 DEF LoadPage
  <2>3. space'[n] = ExpectedPage(n)
    BY <1>1, <1>3, <1>7, <2>2, FilledIsExpected
  <2>4. \A p \in DOMAIN space' : space'[p] = ExpectedPage(p)'
    <3> HIDE DEF n
    <3> QED
      BY <1>3, <1>4, <2>2, <2>3 DEF Loaded
  <2>5. ASSUME NEW q \in Nat, Placed(q * PAGE_SIZE)', q # n PROVE Placed(q * PAGE_SIZE)
    <3> DEFINE a == q * PAGE_SIZE
    <3>1. a \in Nat /\ Aligned(a)
      BY <2>1 DEF Aligned
    <3>2. a # page
      <4>1. CASE q < n
        <5>1. n * PAGE_SIZE = a + (n - q) * PAGE_SIZE /\ (n - q) * PAGE_SIZE > 0
          BY <2>1, <4>1
        <5> QED
          BY <2>1, <3>1, <5>1
      <4>2. CASE n < q
        <5>1. a = n * PAGE_SIZE + (q - n) * PAGE_SIZE /\ (q - n) * PAGE_SIZE > 0
          BY <2>1, <4>2
        <5> QED
          BY <2>1, <3>1, <5>1
      <4> HIDE DEF n
      <4> QED
        BY <2>1, <2>5, <4>1, <4>2
    <3>3. a < page' => a < page
      <4> HIDE DEF a
      <4>1. page < a => page + PAGE_SIZE <= a
        BY <2>1, <3>1, PagesApart
      <4> QED
        BY <2>1, <3>1, <3>2, <4>1
    <3> HIDE DEF a
    <3>4. Placed(a)
      BY <1>4, <1>5, <2>2, <2>5, <3>3 DEF Placed, a
    <3> QED
      BY <3>4 DEF a
  <2> HIDE DEF n
  <2>6. \A q \in Nat : Placed(q * PAGE_SIZE)' => q \in DOMAIN space'
    BY <1>3, <2>2, <2>5 DEF Loaded
  <2> QED
    BY <2>4, <2>6 DEF Loaded
<1>8. CASE EndSegment \/ Finish
  <2>1. space' = space /\ pc' # "page"
    BY <1>8 DEF EndSegment, Finish
  <2>2. ASSUME NEW q \in Nat, Placed(q * PAGE_SIZE)' PROVE Placed(q * PAGE_SIZE)
    <3> DEFINE a == q * PAGE_SIZE
    <3>1. CASE a = USER_STACK_TOP - PAGE_SIZE
      BY <3>1 DEF Placed
    <3>2. CASE \E k \in Segments : k < i' /\ Covers(k, a)
      <4>1. PICK k \in Segments : k < i' /\ Covers(k, a)
        BY <3>2
      <4>2. i' = i \/ (i' = i + 1 /\ pc = "page" /\ ~MorePages)
        BY <1>8 DEF EndSegment, Finish
      <4>3. CASE k < i
        BY <4>1, <4>3 DEF Placed
      <4>4. CASE pc = "page" /\ ~MorePages /\ k = i
        <5>1. a < RoundUp(SegEnd(phdr)) /\ ~(page < RoundUp(SegEnd(phdr)))
          BY <4>1, <4>4 DEF Covers, MorePages, phdr
        <5>2. SegEnd(phdr) \in 0 .. SV_SIZE \div 2
          BY <1>1, <4>1, <4>4, SegmentIs DEF phdr
        <5>3. RoundUp(SegEnd(phdr)) \in Nat /\ page \in Nat /\ a \in Nat
          BY <1>1, <5>2, RoundUpIs, WordsAre, Sizes DEF IInv, TypeOK
        <5> HIDE DEF a
        <5>4. a < page
          BY <5>1, <5>3
        <5> QED
          BY <4>1, <4>4, <5>4 DEF Placed, a
      <4> QED
        BY <1>1, <1>4, <4>1, <4>2, <4>3, <4>4
    <3> QED
      BY <1>4, <1>5, <2>1, <2>2, <3>1, <3>2 DEF Placed
  <2> QED
    BY <1>3, <1>4, <2>1, <2>2 DEF Loaded
<1> QED
  BY <1>6, <1>7, <1>8

(***************************************************************************)
(* A program that is started has its stack and the pages of its segments,  *)
(* no others, and every byte of them is the file's or zero.                *)
(***************************************************************************)
THEOREM ProgramIsLoaded == Spec => []LoadedExactly
<1>1. Init => LoadIInv
  BY DEF Init, LoadIInv, Accepted
<1>2. LayoutIInv /\ VerdictIInv /\ VerdictIInv' /\ LoadIInv /\ [Next]_vars => LoadIInv'
  <2>1. LoadIInv /\ UNCHANGED vars => LoadIInv'
    <3> SUFFICES ASSUME LoadIInv, UNCHANGED vars PROVE LoadIInv'
      OBVIOUS
    <3>1. image' = image /\ pc' = pc /\ i' = i /\ page' = page /\ space' = space
      BY DEF vars
    <3>2. Segments' = Segments /\ \A k, a : Covers(k, a)' <=> Covers(k, a)
      BY <3>1 DEF Segments, Covers
    <3>3. /\ InUserHalf' = InUserHalf /\ NoEmptySegment' = NoEmptySegment
          /\ Accepted' = Accepted
      BY <3>1, <3>2 DEF InUserHalf, NoEmptySegment, Accepted
    <3>4. \A p : ExpectedPage(p)' = ExpectedPage(p)
      BY <3>1, <3>2 DEF ExpectedPage, Expected, Addresses
    <3>5. \A a : Placed(a)' <=> Placed(a)
      BY <3>1, <3>2 DEF Placed
    <3>6. Loaded' <=> Loaded
      BY <3>1, <3>4, <3>5 DEF Loaded
    <3> QED
      BY <3>1, <3>3, <3>6 DEF LoadIInv
  <2> QED
    BY <2>1, LoadOfValidation, LoadOfLoading DEF Next
<1>3. ASSUME LayoutIInv, LoadIInv, pc = "done", InUserHalf, NoEmptySegment
      PROVE  /\ DOMAIN space = {StackPage} \cup UNION {PagesOf(Addresses(k)) : k \in Segments}
             /\ \A p \in DOMAIN space : space[p] = ExpectedPage(p)
  <2>1. /\ Loaded /\ image \in Images /\ IInv /\ i \in Nat
        /\ \A k \in Segments : k < i
    <3>1. /\ Loaded /\ image \in Images /\ IInv /\ i \in Nat /\ i > Len(image.phdr)
      BY <1>3, FieldsAreWords DEF LoadIInv, LayoutIInv, IInv, TypeOK, Accepted
    <3> QED
      BY <3>1, FieldsAreWords DEF Segments
  <2>2. ASSUME NEW p \in DOMAIN space
        PROVE  p = StackPage \/ \E k \in Segments : p \in PagesOf(Addresses(k))
    <3>1. p \in Nat
      <4>1. p \in 0 .. SV_SIZE \div PAGE_SIZE - 1
        BY <2>1, <2>2 DEF IInv, TypeOK
      <4> QED
        BY <4>1
    <3>2. Placed(p * PAGE_SIZE)
      BY <1>3, <2>2 DEF LayoutIInv
    <3>3. CASE p * PAGE_SIZE = USER_STACK_TOP - PAGE_SIZE
      BY <3>1, <3>3, StackPageIs
    <3>4. CASE \E k \in Segments : Covers(k, p * PAGE_SIZE)
      BY <1>3, <2>1, <3>1, <3>4, CoversIs
    <3> QED
      BY <1>3, <3>2, <3>3, <3>4 DEF Placed
  <2>3. StackPage \in DOMAIN space
    BY <2>1, StackPageIs DEF Loaded, Placed
  <2>4. ASSUME NEW k \in Segments, NEW p \in PagesOf(Addresses(k))
        PROVE  p \in DOMAIN space
    <3>1. p \in Nat
      BY <1>3, <2>1, SegmentIs, InPages
    <3>2. Covers(k, p * PAGE_SIZE)
      BY <1>3, <2>1, <3>1, CoversIs
    <3>3. Placed(p * PAGE_SIZE)
      BY <2>1, <3>2 DEF Placed
    <3> QED
      BY <2>1, <3>1, <3>3 DEF Loaded
  <2> QED
    BY <2>1, <2>2, <2>3, <2>4 DEF Loaded
<1>4. LayoutIInv /\ LoadIInv => LoadedExactly
  BY <1>3 DEF LoadedExactly
<1> QED
  BY <1>1, <1>2, <1>4, LayoutInvariance, VerdictInvariance, PTL DEF Spec
=============================================================================
