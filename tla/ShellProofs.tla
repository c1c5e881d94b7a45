---------------------------- MODULE ShellProofs ----------------------------
(***************************************************************************)
(* Theorems about module Shell, for every size of the buffer, every        *)
(* alphabet and every spelling of the commands.                            *)
(***************************************************************************)
EXTENDS Shell, SequenceTheorems, WellFoundedInduction, TLAPS

\* The buffer begins with the line.
BufferHoldsLine ==
    /\ line \in Seq(Printable)
    /\ len = Len(line)
    /\ \A k \in 0 .. len - 1 : buf[k] = line[k + 1]

\* The line that is to be executed is terminated.
Terminates == pc = "command" => buf[len] = NUL

\* Between the line and the next prompt nothing is on the screen.
Blank ==
    pc # "read" => cursor = 0 /\ \A c \in Index : cells[c] = " "

(***************************************************************************)
(* The inductive invariant.  Screen and buffer agree because each agrees   *)
(* with the line; that the rest of an earlier line is not part of the      *)
(* command depends on the terminator being stored behind the line.         *)
(***************************************************************************)
IInv == TypeOK /\ BufferHoldsLine /\ Terminates /\ Blank /\ ScreenShowsLine

\* No character that can be typed is a terminator or a control key.
LEMMA Characters ==
    /\ NUL \notin Printable
    /\ Printable \cap {"NL", "CR", "BS", "DEL", "other"} = {}
    /\ " " \notin Letters
  BY ShellAssumption DEF Printable, NUL

\* The buffer has a first cell.
LEMMA Sizes == INPUT_MAX \in Nat /\ INPUT_MAX > 0 /\ 0 \in Index
<1>1. INPUT_MAX \in Nat \ {0}
  BY ShellAssumption
<1> QED
  BY <1>1 DEF Index

\* The empty line is a line.
LEMMA NothingTyped == <<>> \in Seq(Printable) /\ Len(<<>>) = 0
  BY EmptySeq

\* At the first prompt the invariant holds, whatever the stack held.
LEMMA InitIInv == Init => IInv
<1> SUFFICES ASSUME Init PROVE IInv
  OBVIOUS
<1>1. /\ line \in Seq(Printable) /\ Len(line) = 0 /\ len = 0
      /\ 0 \in Index
  BY Sizes, NothingTyped DEF Init
<1>2. TypeOK
  BY <1>1 DEF Init, TypeOK
<1>3. BufferHoldsLine
  BY <1>1 DEF BufferHoldsLine
<1>4. ScreenShowsLine
  <2> SUFFICES ASSUME NEW c \in Index
               PROVE  cells[c] = IF c < Len(line) THEN line[c + 1] ELSE " "
    BY <1>1 DEF Init, ScreenShowsLine
  <2>1. ~(c < Len(line))
    BY <1>1, Sizes DEF Index
  <2> QED
    BY <2>1 DEF Init
<1> QED
  BY <1>2, <1>3, <1>4 DEF Init, IInv, Terminates, Blank

\* The newline stores the terminator behind the line.
LEMMA EnterStep == IInv /\ pc = "read" /\ Enter => IInv'
<1> SUFFICES ASSUME IInv, pc = "read", Enter
             PROVE  IInv'
  OBVIOUS
<1>1. /\ buf' = [buf EXCEPT ![len] = NUL] /\ len' = len /\ line' = line
      /\ len \in Index /\ buf \in [Index -> Printable \cup {NUL}]
      /\ 0 \in Index
  BY Sizes DEF Enter, Terminated, IInv, TypeOK, Index
<1>2. TypeOK'
  BY <1>1 DEF Enter, TypeOK
<1>3. BufferHoldsLine'
  BY <1>1 DEF IInv, BufferHoldsLine, Index
<1>4. Terminates'
  BY <1>1 DEF Terminates
<1> QED
  BY <1>2, <1>3, <1>4 DEF Enter, IInv, Blank, ScreenShowsLine

\* A printable character is stored and shown, or, in a full buffer, neither.
LEMMA TypeCharStep ==
    ASSUME IInv, pc = "read", NEW ch \in Printable, Type(ch)
    PROVE  IInv'
<1>0. INPUT_MAX \in Nat /\ len \in 0 .. INPUT_MAX - 1
  BY Sizes DEF IInv, TypeOK, Index
<1>1. /\ line \in Seq(Printable) /\ len = Len(line) /\ cursor = len
      /\ len \in Index /\ INPUT_MAX \in Nat
      /\ buf \in [Index -> Printable \cup {NUL}]
      /\ pc' = "read"
  BY Sizes DEF IInv, TypeOK, BufferHoldsLine, ScreenShowsLine, Type
<1>2. CASE HasRoom
  <2>1. /\ len' = len + 1 /\ cursor' = cursor + 1
        /\ buf' = [buf EXCEPT ![len] = ch]
        /\ cells' = [cells EXCEPT ![len] = ch]
        /\ len + 1 \in Index
    BY <1>1, <1>2 DEF Type, HasRoom, Index
  <2>2. /\ line' \in Seq(Printable) /\ Len(line') = len + 1
        /\ \A i \in 1 .. len : line'[i] = line[i]
        /\ line'[len + 1] = ch
    <3>1. line' = Append(line, ch)
      BY <1>1, <1>2 DEF Type, HasRoom, Index
    <3> QED
      BY <1>1, <3>1, AppendProperties
  <2>3. TypeOK'
    BY <1>1, <2>1 DEF IInv, TypeOK
  <2>4. BufferHoldsLine'
    <3> SUFFICES ASSUME NEW k \in 0 .. len
                 PROVE  buf'[k] = line'[k + 1]
      BY <1>1, <2>1, <2>2 DEF BufferHoldsLine, Index
    <3>1. CASE k = len
      BY <1>1, <2>1, <2>2, <3>1
    <3>2. CASE k # len
      <4>1. k \in 0 .. len - 1 /\ k + 1 \in 1 .. len /\ k \in Index
        BY <1>1, <3>2 DEF Index
      <4>2. buf[k] = line[k + 1]
        BY <4>1 DEF IInv, BufferHoldsLine
      <4>3. line'[k + 1] = line[k + 1]
        BY <2>2, <4>1
      <4> QED
        BY <1>1, <2>1, <3>2, <4>1, <4>2, <4>3
    <3> QED
      BY <3>1, <3>2
  <2>5. ScreenShowsLine'
    <3> SUFFICES ASSUME NEW c \in Index
                 PROVE  cells'[c] = IF c < len + 1 THEN line'[c + 1] ELSE " "
      BY <1>1, <2>1, <2>2 DEF ScreenShowsLine
    <3>1. cells[c] = IF c < len THEN line[c + 1] ELSE " "
      BY <1>1 DEF IInv, ScreenShowsLine
    <3>2. CASE c < len
      <4>1. c + 1 \in 1 .. len
        BY <1>1, <3>2 DEF Index
      <4>2. line'[c + 1] = line[c + 1]
        BY <2>2, <4>1
      <4>3. cells'[c] = cells[c] /\ c < len + 1
        BY <1>1, <2>1, <3>2 DEF Index, IInv, TypeOK
      <4> QED
        BY <3>1, <3>2, <4>2, <4>3
    <3>3. CASE c = len
      <4>1. cells'[c] = ch /\ c < len + 1
        BY <1>0, <1>1, <2>1, <3>3 DEF IInv, TypeOK
      <4> QED
        BY <2>2, <3>3, <4>1
    <3>4. CASE c > len
      <4>1. ~(c < len) /\ ~(c < len + 1) /\ c # len
        BY <1>1, <3>4 DEF Index
      <4> QED
        BY <2>1, <3>1, <4>1 DEF IInv, TypeOK
    <3>5. c < len \/ c = len \/ c > len
      BY <1>0 DEF Index
    <3> QED
      BY <1>0, <3>2, <3>3, <3>4, <3>5
  <2> QED
    BY <1>1, <2>3, <2>4, <2>5 DEF IInv, Terminates, Blank
<1>3. CASE ~HasRoom
  <2>1. UNCHANGED <<pc, buf, len, cells, cursor, line>>
    BY <1>1, <1>3 DEF Type, HasRoom, Index
  <2> QED
    BY <2>1 DEF IInv, TypeOK, BufferHoldsLine, Terminates, Blank, ScreenShowsLine
<1> QED
  BY <1>2, <1>3

\* Backspace takes the last character from the line and from the screen.
LEMMA EraseStep ==
    ASSUME IInv, pc = "read", Erase
    PROVE  IInv'
<1>0. INPUT_MAX \in Nat /\ len \in 0 .. INPUT_MAX - 1
  BY Sizes DEF IInv, TypeOK, Index
<1>1. /\ line \in Seq(Printable) /\ len = Len(line) /\ cursor = len
      /\ len \in Index /\ INPUT_MAX \in Nat
      /\ pc' = "read" /\ buf' = buf
  BY Sizes DEF IInv, TypeOK, BufferHoldsLine, ScreenShowsLine, Erase
<1>2. CASE len > 0
  <2>1. /\ len' = len - 1 /\ cursor' = cursor - 1
        /\ cells' = [cells EXCEPT ![len - 1] = " "]
        /\ len - 1 \in Index
    <3>1. len - 1 \in Index
      BY <1>0, <1>2 DEF Index
    <3> QED
      BY <1>1, <1>2, <3>1 DEF Erase, RubOut
  <2>2. \A i \in 1 .. len - 1 : line[i] \in Printable
    BY <1>1
  <2>3. /\ line' \in Seq(Printable) /\ Len(line') = len - 1
        /\ \A i \in 1 .. len - 1 : line'[i] = line[i]
    <3>1. line' = SubSeq(line, 1, len - 1) /\ len - 1 \in Nat
      BY <1>1, <1>2, NothingTyped DEF Erase, Index
    <3> QED
      BY <2>2, <3>1, SubSeqProperties
  <2>4. TypeOK'
    BY <1>1, <2>1 DEF IInv, TypeOK
  <2>5. BufferHoldsLine'
    <3> SUFFICES ASSUME NEW k \in 0 .. len - 2
                 PROVE  buf[k] = line'[k + 1]
      <4>1. len - 1 - 1 = len - 2
        BY <1>0
      <4> QED
        BY <1>1, <2>1, <2>3, <4>1 DEF BufferHoldsLine
    <3>1. k \in 0 .. len - 1 /\ k + 1 \in 1 .. len - 1
      BY <1>1 DEF Index
    <3> QED
      BY <2>3, <3>1 DEF IInv, BufferHoldsLine
  <2>6. ScreenShowsLine'
    <3> SUFFICES ASSUME NEW c \in Index
                 PROVE  cells'[c] = IF c < len - 1 THEN line'[c + 1] ELSE " "
      BY <1>1, <2>1, <2>3 DEF ScreenShowsLine
    <3>1. cells[c] = IF c < len THEN line[c + 1] ELSE " "
      BY <1>1 DEF IInv, ScreenShowsLine
    <3>2. CASE c < len - 1
      <4>1. c + 1 \in 1 .. len - 1 /\ c < len /\ c # len - 1
        BY <1>1, <3>2 DEF Index
      <4>2. line'[c + 1] = line[c + 1]
        BY <2>3, <4>1
      <4> QED
        BY <2>1, <3>1, <3>2, <4>1, <4>2 DEF IInv, TypeOK
    <3>3. CASE c = len - 1
      <4>1. cells'[c] = " " /\ ~(c < len - 1)
        <5>1. ~(c < len - 1)
          BY <1>0, <3>3
        <5>2. cells' = [cells EXCEPT ![c] = " "] /\ c \in DOMAIN cells
          BY <2>1, <3>3 DEF IInv, TypeOK
        <5> QED
          BY <5>1, <5>2
      <4> QED
        BY <4>1
    <3>4. CASE c > len - 1
      <4>1. ~(c < len) /\ ~(c < len - 1) /\ c # len - 1
        BY <1>1, <3>4 DEF Index
      <4> QED
        BY <2>1, <3>1, <4>1 DEF IInv, TypeOK
    <3>5. c < len - 1 \/ c = len - 1 \/ c > len - 1
      BY <1>0 DEF Index
    <3> QED
      BY <1>0, <3>2, <3>3, <3>4, <3>5
  <2> QED
    BY <1>1, <2>4, <2>5, <2>6 DEF IInv, Terminates, Blank
<1>3. CASE ~(len > 0)
  <2>1. line = <<>> /\ UNCHANGED <<line, len, cells, cursor>>
    BY <1>1, <1>3 DEF Erase, Index
  <2> QED
    BY <1>1, <2>1
       DEF Index, IInv, TypeOK, BufferHoldsLine, Terminates, Blank, ScreenShowsLine
<1> QED
  BY <1>2, <1>3

\* A command leaves an empty line at a new prompt.
LEMMA RunStep == IInv /\ RunCommand => IInv'
<1> SUFFICES ASSUME IInv, RunCommand PROVE IInv'
  OBVIOUS
<1>1. /\ pc' \in {"read", "exited"}
      /\ UNCHANGED <<buf, cells, cursor>>
      /\ cursor = 0 /\ \A c \in Index : cells[c] = " "
  BY DEF RunCommand, IInv, Blank
<1>2. len' = 0 /\ line' \in Seq(Printable) /\ Len(line') = 0
  BY NothingTyped DEF RunCommand
<1>3. TypeOK'
  BY <1>1, <1>2, Sizes DEF IInv, TypeOK
<1>4. ScreenShowsLine'
  <2> SUFFICES ASSUME NEW c \in Index
               PROVE  cells'[c] = IF c < Len(line') THEN line'[c + 1] ELSE " "
    BY <1>1, <1>2 DEF ScreenShowsLine
  <2>1. ~(c < Len(line'))
    BY <1>2, Sizes DEF Index
  <2> QED
    BY <1>1, <2>1
<1>5. BufferHoldsLine'
  BY <1>2 DEF BufferHoldsLine
<1> QED
  BY <1>1, <1>3, <1>4, <1>5 DEF IInv, Terminates, Blank

\* The invariant holds in every reachable state.
LEMMA Invariance == Spec => []IInv
<1>1. IInv /\ [Next]_vars => IInv'
  <2> SUFFICES ASSUME IInv, [Next]_vars PROVE IInv'
    OBVIOUS
  <2>1. ASSUME NEW key \in Keys, Read(key)
        PROVE  IInv'
    <3>1. pc = "read"
      BY <2>1 DEF Read
    <3>2. \/ Enter
          \/ Erase
          \/ \E ch \in Printable : Type(ch)
          \/ UNCHANGED <<pc, buf, len, cells, cursor, line>>
      BY <2>1, Characters DEF Read, Delivered, Keys
    <3>3. CASE UNCHANGED <<pc, buf, len, cells, cursor, line>>
      BY <3>3 DEF IInv, TypeOK, BufferHoldsLine, Terminates, Blank, ScreenShowsLine
    <3> QED
      BY <3>1, <3>2, <3>3, EnterStep, EraseStep, TypeCharStep
  <2>2. CASE UNCHANGED vars
    BY <2>2 DEF vars, IInv, TypeOK, BufferHoldsLine, Terminates, Blank, ScreenShowsLine
  <2> QED
    BY <2>1, <2>2, RunStep DEF Next
<1> QED
  BY <1>1, InitIInv, PTL DEF Spec

(***************************************************************************)
(* The index and the cursor stay inside the buffer and the line of the     *)
(* terminal.                                                               *)
(***************************************************************************)
THEOREM TypeCorrect == Spec => []TypeOK
<1>1. IInv => TypeOK
  BY DEF IInv
<1> QED
  BY <1>1, Invariance, PTL

(***************************************************************************)
(* The screen shows the line that is being typed, after any sequence of    *)
(* keys and commands.                                                      *)
(***************************************************************************)
THEOREM ScreenIsTrue == Spec => []ScreenShowsLine
<1>1. IInv => ScreenShowsLine
  BY DEF IInv
<1> QED
  BY <1>1, Invariance, PTL

-----------------------------------------------------------------------------
(***************************************************************************)
(* Strings in the buffer.                                                  *)
(***************************************************************************)

\* The loop that looks for a character stops at the first, wherever that is.
LEMMA FirstInIs ==
    ASSUME NEW S, NEW from \in Nat, INPUT_MAX \in Nat, NEW r \in from .. INPUT_MAX,
           r = INPUT_MAX \/ buf[r] \in S,
           \A j \in from .. r - 1 : buf[j] \notin S
    PROVE  FirstIn(S, from) = r
<1> DEFINE Is(k) == /\ k = INPUT_MAX \/ buf[k] \in S
                    /\ \A j \in from .. k - 1 : buf[j] \notin S
<1>1. Is(r)
  OBVIOUS
<1>2. ASSUME NEW k \in from .. INPUT_MAX, Is(k)
      PROVE  k = r
  <2>1. ~(k < r)
    BY <1>2
  <2>2. ~(r < k)
    BY <1>2
  <2> QED
    BY <2>1, <2>2
<1>3. FirstIn(S, from) = CHOOSE k \in from .. INPUT_MAX : Is(k)
  BY DEF FirstIn
<1> HIDE DEF Is
<1> QED
  BY <1>1, <1>2, <1>3

(***************************************************************************)
(* Behind Enter a search for the terminator ends where the line does, from *)
(* every position of the line.                                             *)
(***************************************************************************)
LEMMA EndOfLine ==
    ASSUME IInv, pc = "command", NEW a \in 0 .. len
    PROVE  FirstIn({NUL}, a) = len
<1>1. /\ len \in Index /\ INPUT_MAX \in Nat /\ line \in Seq(Printable) /\ len = Len(line)
      /\ \A j \in 0 .. len - 1 : buf[j] = line[j + 1]
      /\ buf[len] = NUL
  BY Sizes DEF IInv, TypeOK, BufferHoldsLine, Terminates
<1>2. \A j \in 0 .. len - 1 : buf[j] \notin {NUL}
  <2> SUFFICES ASSUME NEW j \in 0 .. len - 1 PROVE line[j + 1] # NUL
    BY <1>1
  <2>1. j + 1 \in 1 .. Len(line)
    BY <1>1 DEF Index
  <2>2. line[j + 1] \in Printable
    BY <1>1, <2>1, ElementOfSeq
  <2> QED
    BY <2>2, Characters
<1>3. /\ a \in Nat /\ len \in a .. INPUT_MAX
      /\ len = INPUT_MAX \/ buf[len] \in {NUL}
      /\ \A j \in a .. len - 1 : buf[j] \notin {NUL}
  BY <1>1, <1>2 DEF Index
<1> QED
  BY <1>1, <1>3, FirstInIs

(***************************************************************************)
(* No command reads past the buffer: the string functions of app.c all     *)
(* stop at the terminator that shell_read_line stored.                     *)
(***************************************************************************)
THEOREM CommandsTerminated == Spec => []LineIsTerminated
<1>1. IInv => LineIsTerminated
  <2>1. IInv => 0 \in 0 .. len
    BY DEF IInv, TypeOK, Index
  <2> QED
    BY <2>1, EndOfLine DEF LineIsTerminated
<1> QED
  BY <1>1, Invariance, PTL
-----------------------------------------------------------------------------
(***************************************************************************)
(* What run_command makes of the buffer, and what the line means.          *)
(***************************************************************************)

\* The line from position a on; the string that begins there.
Rest(a) == SubSeq(line, a + 1, len)

\* What the rest of a line consists of.
LEMMA RestProperties ==
    ASSUME IInv, NEW a \in 0 .. len
    PROVE  /\ Rest(a) \in Seq(Printable) /\ Len(Rest(a)) = len - a
           /\ \A k \in 1 .. len - a :
                 Rest(a)[k] = line[a + k] /\ Rest(a)[k] = buf[a + k - 1]
<1>1. /\ line \in Seq(Printable) /\ len = Len(line) /\ len \in Nat
      /\ \A k \in 0 .. len - 1 : buf[k] = line[k + 1]
  BY Sizes DEF IInv, TypeOK, BufferHoldsLine, Index
<1>2. \A i \in a + 1 .. len : line[i] \in Printable
  <2> SUFFICES ASSUME NEW i \in a + 1 .. len PROVE line[i] \in Printable
    OBVIOUS
  <2>1. i \in 1 .. Len(line)
    BY <1>1
  <2> QED
    BY <1>1, <2>1, ElementOfSeq
<1>3. /\ Rest(a) \in Seq(Printable)
      /\ Len(Rest(a)) = IF a + 1 <= len THEN len - (a + 1) + 1 ELSE 0
      /\ \A k \in 1 .. len - (a + 1) + 1 : Rest(a)[k] = line[a + 1 + k - 1]
  <2>1. a + 1 \in Int /\ len \in Int
    BY <1>1
  <2> QED
    BY <1>2, <2>1, SubSeqProperties DEF Rest
<1>4. Len(Rest(a)) = len - a
  BY <1>1, <1>3
<1>5. ASSUME NEW k \in 1 .. len - a
      PROVE  Rest(a)[k] = line[a + k] /\ Rest(a)[k] = buf[a + k - 1]
  <2>1. /\ k \in 1 .. len - (a + 1) + 1 /\ a + 1 + k - 1 = a + k
        /\ a + k - 1 \in 0 .. len - 1 /\ a + k - 1 + 1 = a + k
    BY <1>1
  <2>2. Rest(a)[k] = line[a + k]
    BY <1>3, <2>1
  <2>3. buf[a + k - 1] = line[a + k]
    BY <1>1, <2>1
  <2> QED
    BY <2>2, <2>3
<1> QED
  BY <1>3, <1>4, <1>5

(***************************************************************************)
(* The string that begins at a position of the buffer is the rest of the   *)
(* line.                                                                   *)
(***************************************************************************)
LEMMA StrIs ==
    ASSUME IInv, pc = "command", NEW a \in 0 .. len
    PROVE  Str(a) = Rest(a)
<1>1. FirstIn({NUL}, a) = len /\ len \in Nat
  BY EndOfLine, Sizes DEF IInv, TypeOK, Index
<1>2. Str(a) = [k \in 1 .. len - a |-> buf[a + k - 1]]
  BY <1>1 DEF Str
<1>3. /\ Rest(a) = [k \in 1 .. len - a |-> Rest(a)[k]]
  <2>1. Rest(a) \in Seq(Printable) /\ Len(Rest(a)) = len - a
    BY RestProperties
  <2> QED
    BY <2>1, LenProperties
<1>4. \A k \in 1 .. len - a : Rest(a)[k] = buf[a + k - 1]
  BY RestProperties
<1> QED
  BY <1>2, <1>3, <1>4

\* The position of the first character that is no space.
IsFirst(s, k) ==
    /\ k = Len(s) + 1 \/ s[k] # " "
    /\ \A j \in 1 .. k - 1 : s[j] = " "

\* Some character is the first that is not a space, or there is none.
LEMMA FirstExists ==
    ASSUME NEW s \in Seq(Printable)
    PROVE  \E k \in 1 .. Len(s) + 1 : IsFirst(s, k)
<1> DEFINE Below == OpToRel(<, Nat)
           Stops == {k \in 1 .. Len(s) + 1 : k = Len(s) + 1 \/ s[k] # " "}
<1>1. Len(s) \in Nat
  BY LenProperties
<1>2. Stops \subseteq Nat /\ Stops # {}
  <2>1. Len(s) + 1 \in Stops
    BY <1>1
  <2>2. 1 .. Len(s) + 1 \subseteq Nat
    BY <1>1
  <2>3. Stops \subseteq 1 .. Len(s) + 1
    OBVIOUS
  <2> HIDE DEF Stops
  <2> QED
    BY <2>1, <2>2, <2>3
<1>3. \A i, j \in Nat : i < j => <<i, j>> \in Below
  BY DEF OpToRel
<1>4. IsWellFoundedOn(Below, Nat)
  BY NatLessThanWellFounded
<1>5. PICK k \in Stops : \A j \in Stops : ~(<<j, k>> \in Below)
  <2> HIDE DEF Below, Stops
  <2> QED
    BY <1>2, <1>4, WFMin
<1>6. ASSUME NEW j \in 1 .. k - 1
      PROVE  s[j] = " "
  <2>0. k \in 1 .. Len(s) + 1
    OBVIOUS
  <2>1. j \in Nat /\ k \in Nat /\ j < k /\ j \in 1 .. Len(s) + 1
    <3> HIDE DEF Below, Stops
    <3> QED
      BY <1>1, <1>6, <2>0
  <2>2. j \notin Stops
    BY <1>3, <1>5, <2>1
  <2> QED
    BY <2>1, <2>2
<1> QED
  BY <1>5, <1>6 DEF IsFirst

\* Stripped drops exactly the leading spaces.
LEMMA StrippedIs ==
    ASSUME NEW s \in Seq(Printable), NEW k \in 1 .. Len(s) + 1, IsFirst(s, k)
    PROVE  Stripped(s) = SubSeq(s, k, Len(s))
<1>1. Len(s) \in Nat
  BY LenProperties
<1>2. ASSUME NEW l \in 1 .. Len(s) + 1, IsFirst(s, l)
      PROVE  l = k
  <2>1. ASSUME l < k PROVE FALSE
    <3>1. l \in 1 .. k - 1 /\ l # Len(s) + 1
      BY <1>1, <2>1
    <3> QED
      BY <1>2, <3>1 DEF IsFirst
  <2>2. ASSUME k < l PROVE FALSE
    <3>1. k \in 1 .. l - 1 /\ k # Len(s) + 1
      BY <1>1, <2>2
    <3> QED
      BY <1>2, <3>1 DEF IsFirst
  <2> QED
    BY <1>1, <2>1, <2>2
<1>3. k = CHOOSE l \in 1 .. Len(s) + 1 : IsFirst(s, l)
  BY <1>2
<1> QED
  BY <1>3 DEF Stripped, IsFirst

(***************************************************************************)
(* skip_spaces finds in the buffer what Stripped says of the line.         *)
(***************************************************************************)
LEMMA SkipIsStripped ==
    ASSUME IInv, pc = "command", NEW a \in 0 .. len
    PROVE  /\ SkipSpaces(a) \in a .. len
           /\ Rest(SkipSpaces(a)) = Stripped(Rest(a))
<1>1. PICK k \in 1 .. Len(Rest(a)) + 1 : IsFirst(Rest(a), k)
  BY RestProperties, FirstExists
<1>2. /\ Rest(a) \in Seq(Printable) /\ Len(Rest(a)) = len - a
      /\ \A j \in 1 .. len - a : Rest(a)[j] = buf[a + j - 1] /\ Rest(a)[j] \in Printable
  BY RestProperties, ElementOfSeq
<1>3. len \in Nat /\ INPUT_MAX \in Nat /\ len < INPUT_MAX /\ buf[len] = NUL
  BY Sizes DEF IInv, TypeOK, Terminates, Index
<1> DEFINE r == a + k - 1
<1>4. r \in a .. len /\ r \in a .. INPUT_MAX /\ a \in Nat
  BY <1>2, <1>3
<1>5. buf[r] \in Letters \cup {NUL}
  <2>1. CASE k = len - a + 1
    BY <1>3, <2>1
  <2>2. CASE k # len - a + 1
    <3>1. k \in 1 .. len - a /\ k # Len(Rest(a)) + 1
      BY <1>2, <1>3, <2>2
    <3>2. Rest(a)[k] # " "
      BY <1>1, <3>1 DEF IsFirst
    <3> QED
      BY <1>2, <3>1, <3>2 DEF Printable
  <2> QED
    BY <2>1, <2>2
<1>6. ASSUME NEW j \in a .. r - 1 PROVE buf[j] \notin Letters \cup {NUL}
  <2>1. /\ j - a + 1 \in 1 .. k - 1 /\ j - a + 1 \in 1 .. len - a
        /\ a + (j - a + 1) - 1 = j
    BY <1>2, <1>3
  <2>2. Rest(a)[j - a + 1] = " "
    BY <1>1, <2>1 DEF IsFirst
  <2>3. buf[j] = " "
    BY <1>2, <2>1, <2>2
  <2> QED
    BY <2>3, Characters DEF NUL
<1>7. SkipSpaces(a) = r
  <2> HIDE DEF r
  <2> QED
    BY <1>3, <1>4, <1>5, <1>6, FirstInIs DEF SkipSpaces
<1>8. Stripped(Rest(a)) = SubSeq(Rest(a), k, len - a)
  BY <1>1, <1>2, StrippedIs
<1>9. SubSeq(Rest(a), k, len - a) = Rest(r)
  <2>1. /\ k \in Int /\ len - a \in Int
        /\ \A i \in k .. len - a : Rest(a)[i] \in Printable
    BY <1>2, <1>3
  <2>2. /\ SubSeq(Rest(a), k, len - a) \in Seq(Printable)
        /\ Len(SubSeq(Rest(a), k, len - a)) = IF k <= len - a THEN len - a - k + 1 ELSE 0
        /\ \A i \in 1 .. len - a - k + 1 : SubSeq(Rest(a), k, len - a)[i] = Rest(a)[k + i - 1]
    BY <2>1, SubSeqProperties
  <2>3. /\ Rest(r) \in Seq(Printable) /\ Len(Rest(r)) = len - r
        /\ \A i \in 1 .. len - r : Rest(r)[i] = line[r + i]
    BY <1>4, RestProperties
  <2>4. Len(SubSeq(Rest(a), k, len - a)) = len - r
    BY <1>2, <1>3, <2>2
  <2>5. ASSUME NEW i \in 1 .. len - r
        PROVE  SubSeq(Rest(a), k, len - a)[i] = Rest(r)[i]
    <3>1. /\ i \in 1 .. len - a - k + 1 /\ k + i - 1 \in 1 .. len - a
          /\ a + (k + i - 1) = r + i
      BY <1>2, <1>3
    <3>2. Rest(a)[k + i - 1] = line[r + i]
      BY <3>1, RestProperties
    <3> QED
      BY <2>2, <2>3, <3>1, <3>2
  <2> HIDE DEF r
  <2> QED
    BY <2>2, <2>3, <2>4, <2>5, SeqEqual
<1> QED
  BY <1>4, <1>7, <1>8, <1>9

\* The commands are sequences of letters, so they begin with no space.
LEMMA Spellings ==
    /\ \A name \in Builtins :
          Spelling[name] \in Seq(Letters) /\ Len(Spelling[name]) \in Nat \ {0}
    /\ \A a, b \in Builtins : Spelling[a] = Spelling[b] => a = b
    /\ {"help", "echo", "clear", "yield", "about", "exit"} = Builtins
<1>1. \A name \in Builtins : Spelling[name] \in Seq(Letters) /\ Spelling[name] # <<>>
  BY ShellAssumption
<1>2. \A name \in Builtins : Len(Spelling[name]) \in Nat \ {0}
  BY <1>1, EmptySeq
<1> QED
  BY <1>1, <1>2, ShellAssumption

(***************************************************************************)
(* str_starts_with finds what is a prefix of the rest of the line; it      *)
(* cannot match beyond the terminator.                                     *)
(***************************************************************************)
LEMMA StartsWithIs ==
    ASSUME IInv, pc = "command", NEW a \in 0 .. len, NEW name \in Builtins
    PROVE  /\ StrStartsWith(a, name) => Len(Spelling[name]) <= len - a
           /\ StrStartsWith(a, name) <=>
                 Prefix(Rest(a), Len(Spelling[name])) = Spelling[name]
<1> DEFINE w == Spelling[name]
           n == Len(w)
<1>1. /\ len \in Nat /\ INPUT_MAX \in Nat /\ len < INPUT_MAX /\ buf[len] = NUL /\ a \in Nat
  BY Sizes DEF IInv, TypeOK, Terminates, Index
<1>2. w \in Seq(Letters) /\ n \in Nat \ {0} /\ \A k \in 1 .. n : w[k] \in Letters
  BY Spellings, ElementOfSeq
<1>3. /\ Rest(a) \in Seq(Printable) /\ Len(Rest(a)) = len - a
      /\ \A k \in 1 .. len - a : Rest(a)[k] = buf[a + k - 1] /\ Rest(a)[k] \in Printable
  BY RestProperties, ElementOfSeq
<1>4. StrStartsWith(a, name) <=>
        \A k \in 1 .. n : a + k - 1 \in Index /\ buf[a + k - 1] = w[k]
  BY DEF StrStartsWith
<1>5. Letters \subseteq Printable /\ NUL \notin Letters
  BY Characters DEF Printable
<1> HIDE DEF w, n
<1>6. ASSUME StrStartsWith(a, name), n > len - a
      PROVE  FALSE
  <2>1. len - a + 1 \in 1 .. n /\ a + (len - a + 1) - 1 = len
    BY <1>1, <1>2, <1>6
  <2>2. buf[len] = w[len - a + 1]
    BY <1>4, <1>6, <2>1
  <2> QED
    BY <1>1, <1>2, <1>5, <2>1, <2>2
<1> DEFINE p == Prefix(Rest(a), n)
<1>7. CASE n <= len - a
  <2>1. p = SubSeq(Rest(a), 1, n)
    <3>1. CASE n < len - a
      BY <1>3, <3>1 DEF Prefix
    <3>2. CASE ~(n < len - a)
      <4>1. n = len - a
        BY <1>1, <1>2, <1>7, <3>2
      <4> QED
        BY <1>3, <3>2, <4>1 DEF Prefix
    <3> QED
      BY <3>1, <3>2
  <2>2. p \in Seq(Printable) /\ Len(p) = n /\ \A k \in 1 .. n : p[k] = Rest(a)[k]
    <3>1. \A i \in 1 .. n : Rest(a)[i] \in Printable
      BY <1>1, <1>2, <1>3, <1>7
    <3>2. /\ SubSeq(Rest(a), 1, n) \in Seq(Printable)
          /\ Len(SubSeq(Rest(a), 1, n)) = IF 1 <= n THEN n - 1 + 1 ELSE 0
          /\ \A i \in 1 .. n - 1 + 1 : SubSeq(Rest(a), 1, n)[i] = Rest(a)[1 + i - 1]
      BY <1>2, <3>1, SubSeqProperties
    <3>3. /\ n - 1 + 1 = n /\ 1 <= n
          /\ \A i \in 1 .. n : 1 + i - 1 = i
      BY <1>2
    <3> HIDE DEF p
    <3> QED
      BY <2>1, <3>2, <3>3
  <2>3. \A k \in 1 .. n : k \in 1 .. len - a /\ a + k - 1 \in Index
    BY <1>1, <1>2, <1>7 DEF Index
  <2>4. \A k \in 1 .. n : p[k] = buf[a + k - 1]
    <3> HIDE DEF p
    <3> QED
      BY <1>3, <2>2, <2>3
  <2>5. StrStartsWith(a, name) <=> \A k \in 1 .. n : p[k] = w[k]
    <3> HIDE DEF p
    <3> QED
      BY <1>4, <2>3, <2>4
  <2>6. (\A k \in 1 .. n : p[k] = w[k]) <=> p = w
    <3>1. w \in Seq(Printable)
      BY <1>2, <1>5, SeqMonotonic
    <3> HIDE DEF p
    <3>2. ASSUME \A k \in 1 .. n : p[k] = w[k]
          PROVE  p = w
      BY <2>2, <3>1, <3>2, SeqEqual DEF n
    <3> QED
      BY <3>2
  <2> QED
    BY <1>7, <2>5, <2>6 DEF w, n
<1>8. CASE n > len - a
  <2>1. p = SubSeq(Rest(a), 1, len - a)
    <3>1. ~(n < len - a)
      BY <1>1, <1>2, <1>8
    <3> QED
      BY <1>3, <3>1 DEF Prefix
  <2>2. Len(p) = len - a
    <3>1. \A i \in 1 .. len - a : Rest(a)[i] \in Printable
      BY <1>3
    <3>2. Len(SubSeq(Rest(a), 1, len - a)) = IF 1 <= len - a THEN len - a - 1 + 1 ELSE 0
      <4>1. len - a \in Int
        BY <1>1
      <4> QED
        BY <3>1, <4>1, SubSeqProperties
    <3>3. len - a \in Nat
      BY <1>1
    <3> HIDE DEF p
    <3> QED
      BY <2>1, <3>2, <3>3
  <2>3. p # w
    <3>1. len - a # n
      BY <1>1, <1>2, <1>8
    <3> HIDE DEF p
    <3> QED
      BY <2>2, <3>1 DEF n
  <2> QED
    BY <1>6, <1>8, <2>3 DEF w, n
<1> QED
  <2>1. n <= len - a \/ n > len - a
    BY <1>1, <1>2
  <2> QED
    BY <1>7, <1>8, <2>1

(***************************************************************************)
(* No other command begins as echo does, so the order of the tests in      *)
(* run_command does not matter.                                            *)
(***************************************************************************)
LEMMA EchoIsOnlyEcho ==
    ASSUME NEW words \in Seq(Printable), NEW name \in Builtins \ {"echo"},
           words = Spelling[name]
    PROVE  Prefix(words, Len(Spelling["echo"])) # Spelling["echo"]
<1> DEFINE e == Spelling["echo"]
           n == Len(e)
           p == Prefix(words, n)
<1>1. Len(words) \in Nat /\ n \in Nat /\ \A k \in 1 .. Len(words) : words[k] \in Printable
  BY LenProperties, Spellings, ElementOfSeq
<1>2. \/ Len(words) < n
      \/ \E k \in 1 .. n : words[k] # e[k]
  BY ShellAssumption
<1> HIDE DEF e, n
<1>3. CASE Len(words) < n
  <2>1. ~(n < Len(words))
    BY <1>1, <1>3
  <2>2. p = SubSeq(words, 1, Len(words))
    BY <2>1 DEF Prefix
  <2>3. Len(SubSeq(words, 1, Len(words))) =
          IF 1 <= Len(words) THEN Len(words) - 1 + 1 ELSE 0
    BY <1>1, SubSeqProperties
  <2>4. Len(p) # n
    <3> HIDE DEF p
    <3> QED
      BY <1>1, <1>3, <2>2, <2>3
  <2> QED
    BY <2>4 DEF e, n
<1>4. CASE ~(Len(words) < n)
  <2>1. PICK k \in 1 .. n : words[k] # e[k]
    BY <1>2, <1>4
  <2>2. p = SubSeq(words, 1, n)
    <3>1. CASE n < Len(words)
      BY <3>1 DEF Prefix
    <3>2. CASE ~(n < Len(words))
      <4>1. n = Len(words)
        BY <1>1, <1>4, <3>2
      <4> QED
        BY <3>2, <4>1 DEF Prefix
    <3> QED
      BY <3>1, <3>2
  <2>3. \A i \in 1 .. n : words[i] \in Printable
    BY <1>1, <1>4
  <2>4. \A i \in 1 .. n - 1 + 1 : SubSeq(words, 1, n)[i] = words[1 + i - 1]
    BY <1>1, <2>3, SubSeqProperties
  <2>5. k \in 1 .. n - 1 + 1 /\ 1 + k - 1 = k
    BY <1>1
  <2>6. p[k] = words[k]
    <3> HIDE DEF p
    <3> QED
      BY <2>2, <2>4, <2>5
  <2> QED
    BY <2>1, <2>6 DEF e, n
<1> QED
  BY <1>3, <1>4

\* The rest of a rest.
LEMMA RestOfRest ==
    ASSUME IInv, NEW a \in 0 .. len, NEW n \in 0 .. len - a
    PROVE  Rest(a + n) = SubSeq(Rest(a), n + 1, Len(Rest(a)))
<1>1. /\ len \in Nat /\ a + n \in 0 .. len
      /\ len - a \in Nat /\ n + 1 \in Int
  BY Sizes DEF IInv, TypeOK, Index
<1>2. /\ Rest(a) \in Seq(Printable) /\ Len(Rest(a)) = len - a
      /\ \A k \in 1 .. len - a : Rest(a)[k] = line[a + k] /\ Rest(a)[k] \in Printable
  BY RestProperties, ElementOfSeq
<1>3. /\ Rest(a + n) \in Seq(Printable) /\ Len(Rest(a + n)) = len - (a + n)
      /\ \A k \in 1 .. len - (a + n) : Rest(a + n)[k] = line[a + n + k]
  BY <1>1, RestProperties
<1> DEFINE t == SubSeq(Rest(a), n + 1, len - a)
<1>4. /\ t \in Seq(Printable)
      /\ Len(t) = IF n + 1 <= len - a THEN len - a - (n + 1) + 1 ELSE 0
      /\ \A i \in 1 .. len - a - (n + 1) + 1 : t[i] = Rest(a)[n + 1 + i - 1]
  <2>1. \A i \in n + 1 .. len - a : Rest(a)[i] \in Printable
    BY <1>1, <1>2
  <2> QED
    BY <1>1, <2>1, SubSeqProperties
<1> HIDE DEF t
<1>5. Len(t) = Len(Rest(a + n))
  BY <1>1, <1>3, <1>4
<1>6. ASSUME NEW i \in 1 .. len - (a + n)
      PROVE  Rest(a + n)[i] = t[i]
  <2>1. /\ i \in 1 .. len - a - (n + 1) + 1 /\ n + 1 + i - 1 \in 1 .. len - a
        /\ a + (n + 1 + i - 1) = a + n + i
    BY <1>1
  <2>2. t[i] = line[a + (n + 1 + i - 1)]
    BY <1>2, <1>4, <2>1
  <2> QED
    BY <1>3, <2>1, <2>2
<1> QED
  BY <1>2, <1>3, <1>4, <1>5, <1>6, SeqEqual DEF t

(***************************************************************************)
(* run_command takes the buffer for what the line means.                   *)
(***************************************************************************)
LEMMA RecognisedIsMeaning ==
    ASSUME IInv, pc = "command"
    PROVE  Recognised(SkipSpaces(0)) = Meaning(line)
<1> DEFINE a == SkipSpaces(0)
           words == Stripped(line)
<1>1. len \in Nat /\ 0 \in 0 .. len /\ len = Len(line) /\ line \in Seq(Printable)
  BY Sizes DEF IInv, TypeOK, BufferHoldsLine, Index
<1>2. Rest(0) = line
  <2>1. /\ Rest(0) \in Seq(Printable) /\ Len(Rest(0)) = len - 0
        /\ \A k \in 1 .. len - 0 : Rest(0)[k] = line[0 + k]
    BY <1>1, RestProperties
  <2>2. /\ Len(Rest(0)) = Len(line)
        /\ \A k \in 1 .. Len(Rest(0)) : Rest(0)[k] = line[k]
    BY <1>1, <2>1
  <2> QED
    BY <1>1, <2>1, <2>2, SeqEqual
<1>3. a \in 0 .. len /\ Rest(a) = words
  BY <1>1, <1>2, SkipIsStripped
<1> HIDE DEF a
<1>4. /\ words \in Seq(Printable) /\ Len(words) = len - a
      /\ \A k \in 1 .. len - a : words[k] = buf[a + k - 1] /\ words[k] \in Printable
  BY <1>3, RestProperties, ElementOfSeq
<1>5. Str(a) = words
  BY <1>3, StrIs
<1>6. buf[a] = NUL <=> words = <<>>
  <2>1. CASE a = len
    <3>1. Len(words) = 0
      BY <1>1, <1>4, <2>1
    <3>2. words = <<>>
      BY <1>4, <3>1, EmptySeq
    <3> QED
      BY <2>1, <3>2 DEF IInv, Terminates
  <2>2. CASE a # len
    <3>1. 1 \in 1 .. len - a /\ a + 1 - 1 = a /\ Len(words) # 0
      BY <1>1, <1>3, <1>4, <2>2
    <3>2. words[1] = buf[a] /\ words[1] \in Printable
      BY <1>4, <3>1
    <3>3. words # <<>>
      BY <3>1, EmptySeq
    <3> QED
      BY <3>2, <3>3, Characters
  <2> QED
    BY <2>1, <2>2
<1>7. \A name \in Builtins : StrEq(a, name) <=> words = Spelling[name]
  BY <1>5 DEF StrEq
<1> DEFINE e == Spelling["echo"]
           n == Len(e)
           isEcho == Prefix(words, n) = e
<1>8. /\ StrStartsWith(a, "echo") <=> isEcho
      /\ isEcho => n \in 0 .. len - a
  <2>1. "echo" \in Builtins
    BY Spellings
  <2>2. n \in Nat
    BY <2>1, Spellings
  <2>3. /\ StrStartsWith(a, "echo") => n <= len - a
        /\ StrStartsWith(a, "echo") <=> isEcho
    BY <1>3, <2>1, StartsWithIs
  <2> HIDE DEF n, isEcho
  <2> QED
    BY <1>1, <1>3, <2>2, <2>3
<1>9. ASSUME isEcho
      PROVE  Str(SkipSpaces(a + n)) = Stripped(SubSeq(words, n + 1, Len(words)))
  <2> HIDE DEF n
  <2>1. n \in 0 .. len - a /\ a + n \in 0 .. len
    BY <1>1, <1>3, <1>8, <1>9
  <2>2. SkipSpaces(a + n) \in 0 .. len /\ Rest(SkipSpaces(a + n)) = Stripped(Rest(a + n))
    <3>1. SkipSpaces(a + n) \in a + n .. len
      BY <2>1, SkipIsStripped
    <3> QED
      BY <1>1, <1>3, <2>1, <3>1, SkipIsStripped
  <2>3. Str(SkipSpaces(a + n)) = Stripped(Rest(a + n))
    BY <2>2, StrIs
  <2> QED
    BY <1>3, <2>1, <2>3, RestOfRest
<1> DEFINE same == {name \in Builtins \ {"echo"} : Spelling[name] = words}
<1>10. /\ \A x, y \in same : x = y
       /\ \A x \in same : x \in Builtins /\ x # "echo" /\ Spelling[x] = words
       /\ same # {} => ~isEcho /\ words # <<>>
  <2>1. \A x, y \in same : x = y
    BY Spellings
  <2>2. ASSUME NEW x \in same PROVE ~isEcho /\ words # <<>>
    <3>1. ~isEcho
      BY <1>4, <2>2, EchoIsOnlyEcho
    <3>2. words # <<>>
      BY ShellAssumption
    <3> QED
      BY <3>1, <3>2
  <2> QED
    BY <2>1, <2>2
<1>11. Meaning(line) =
         IF words = <<>> THEN NOTHING
         ELSE IF same # {} THEN [command |-> CHOOSE name \in same : TRUE, text |-> <<>>]
         ELSE IF isEcho
              THEN [command |-> "echo", text |-> Stripped(SubSeq(words, n + 1, Len(words)))]
         ELSE [command |-> "unknown", text |-> words]
  <2>1. words = <<>> => ~isEcho
    <3>1. words = <<>> => Prefix(words, n) = <<>>
      BY DEF Prefix
    <3>2. e # <<>>
      BY Spellings, ShellAssumption
    <3> QED
      BY <3>1, <3>2
  <2>2. Meaning(line) =
          CASE words = <<>> -> NOTHING
            [] same # {} -> [command |-> CHOOSE name \in same : TRUE, text |-> <<>>]
            [] isEcho -> [command |-> "echo",
                          text |-> Stripped(SubSeq(words, n + 1, Len(words)))]
            [] OTHER -> [command |-> "unknown", text |-> words]
    BY DEF Meaning
  <2> HIDE DEF same, isEcho, words, n, e
  <2>3. CASE words = <<>>
    BY <1>10, <2>1, <2>2, <2>3
  <2>4. CASE words # <<>> /\ same # {}
    BY <1>10, <2>2, <2>4
  <2>5. CASE words # <<>> /\ same = {} /\ isEcho
    BY <2>2, <2>5
  <2>6. CASE words # <<>> /\ same = {} /\ ~isEcho
    BY <2>2, <2>6
  <2> QED
    BY <2>3, <2>4, <2>5, <2>6
<1>12. Recognised(a) =
         IF words = <<>> THEN NOTHING
         ELSE IF "help" \in same THEN [command |-> "help", text |-> <<>>]
         ELSE IF isEcho
              THEN [command |-> "echo", text |-> Stripped(SubSeq(words, n + 1, Len(words)))]
         ELSE IF \E name \in {"clear", "yield", "about", "exit"} : name \in same
              THEN [command |-> CHOOSE name \in Builtins : StrEq(a, name), text |-> <<>>]
         ELSE [command |-> "unknown", text |-> words]
  <2>1. \A name \in Builtins \ {"echo"} : StrEq(a, name) <=> name \in same
    BY <1>7
  <2>2. {"help", "clear", "yield", "about", "exit"} \subseteq Builtins \ {"echo"}
    BY Spellings
  <2> HIDE DEF same, isEcho, words
  <2> QED
    BY <1>5, <1>6, <1>8, <1>9, <2>1, <2>2 DEF Recognised
<1>13. ASSUME NEW x \in same
       PROVE  /\ x = CHOOSE name \in same : TRUE
              /\ ~isEcho => x = CHOOSE name \in Builtins : StrEq(a, name)
  <2>1. x = CHOOSE name \in same : TRUE
    BY <1>10
  <2>2. \A name \in Builtins : StrEq(a, name) => name = x
    BY <1>7, <1>10, Spellings
  <2>3. x \in Builtins /\ StrEq(a, x)
    BY <1>7, <1>10
  <2> QED
    BY <2>1, <2>2, <2>3
<1>14. Recognised(a) = Meaning(line)
  <2>1. \A x \in same : x \in {"help", "clear", "yield", "about", "exit"}
    BY <1>10, Spellings
  <2> HIDE DEF same, isEcho, words
  <2>2. CASE same = {}
    BY <1>11, <1>12, <2>2
  <2>3. CASE same # {}
    <3>1. PICK x \in same : TRUE
      BY <2>3
    <3>2. Meaning(line) = [command |-> x, text |-> <<>>]
      BY <1>10, <1>11, <1>13, <2>3, <3>1
    <3>3. CASE x = "help"
      BY <1>10, <1>12, <2>3, <3>1, <3>2, <3>3
    <3>4. CASE x # "help"
      <4>1. "help" \notin same
        BY <1>10, <3>1, <3>4
      <4>2. \E name \in {"clear", "yield", "about", "exit"} : name \in same
        BY <2>1, <3>1, <3>4
      <4> QED
        BY <1>10, <1>12, <1>13, <2>3, <3>1, <3>2, <4>1, <4>2
    <3> QED
      BY <3>3, <3>4
  <2> QED
    BY <2>2, <2>3
<1> QED
  BY <1>14 DEF a

(***************************************************************************)
(* The command that runs is the line that was typed, whatever the buffer   *)
(* still holds of earlier lines.                                           *)
(***************************************************************************)
THEOREM CommandsAreLines == Spec => CommandIsLine
<1>1. IInv /\ [Next]_vars => [pc = "command" => did' = Meaning(line)]_vars
  <2> SUFFICES ASSUME IInv, pc = "command", Next
               PROVE  did' = Meaning(line)
    OBVIOUS
  <2>1. RunCommand
    BY DEF Next, Read
  <2> QED
    BY <2>1, RecognisedIsMeaning DEF RunCommand
<1> QED
  BY <1>1, Invariance, PTL DEF Spec, CommandIsLine
=============================================================================
