------------------------------- MODULE Shell -------------------------------
(***************************************************************************)
(* The user shell: the line editor and the command dispatch of user/app.c, *)
(* the terminal it writes to, and the keys that do_sys_read and uart_getc  *)
(* of the kernel hand it.                                                  *)
(*                                                                         *)
(* sys_read is taken to deliver the key, as the shell does; module Kernel  *)
(* says what it really delivers.  Strings are arrays of characters that    *)
(* end with NUL.  The terminal shows one line after the prompt, of which   *)
(* the cells right of the cursor count as well.                            *)
(***************************************************************************)
EXTENDS Integers, Sequences

CONSTANTS
    INPUT_MAX,
    Letters,      \* printable characters other than the space
    Builtins,     \* the names of the commands
    Spelling      \* how each of them is typed

Printable == Letters \cup {" "}

\* No command is empty, no two are typed alike, and none begins as echo does.
ASSUME ShellAssumption ==
    /\ INPUT_MAX \in Nat \ {0}
    /\ Letters \cap {" ", "NUL", "NL", "CR", "BS", "DEL", "other"} = {}
    /\ Builtins = {"help", "echo", "clear", "yield", "about", "exit"}
    /\ Spelling \in [Builtins -> Seq(Letters)]
    /\ \A a \in Builtins : Spelling[a] # <<>>
    /\ \A a, b \in Builtins : a # b => Spelling[a] # Spelling[b]
    /\ \A a \in Builtins \ {"echo"} :
          \/ Len(Spelling[a]) < Len(Spelling["echo"])
          \/ \E k \in 1 .. Len(Spelling["echo"]) : Spelling[a][k] # Spelling["echo"][k]

VARIABLES
    pc,      \* "read": in shell_read_line; "command": in run_command; "exited"
    buf, len,
    cells,   \* the terminal: the characters after the prompt
    cursor,  \* and the column that is next
    line,    \* history: the line as the user means it
    did      \* history: what the last command was taken for, until the next key

vars == <<pc, buf, len, cells, cursor, line, did>>

Index   == 0 .. INPUT_MAX - 1
NUL     == "NUL"
Keys    == Printable \cup {"CR", "NL", "BS", "DEL", "other"}
NOTHING == [command |-> "nothing", text |-> <<>>]

Init ==
    /\ pc = "read"
    /\ buf \in [Index -> Printable \cup {NUL}]
    /\ len = 0
    /\ cells = [c \in Index |-> " "] /\ cursor = 0
    /\ line = <<>>
    /\ did = NOTHING

-----------------------------------------------------------------------------
(***************************************************************************)
(* shell_read_line, one round of its loop.                                 *)
(***************************************************************************)

\* do_sys_read: a carriage return arrives as a newline.
Delivered(key) == IF key = "CR" THEN "NL" ELSE key

\* Mutant: no room is kept for the terminator.
BugHasRoom == len < INPUT_MAX

HasRoom == len + 1 < INPUT_MAX

\* Mutant: the cursor goes back, the character stays.
BugRubOut == cells

\* Backspace, space, backspace on the terminal.
RubOut == [cells EXCEPT ![cursor - 1] = " "]

\* Mutant: the line is not terminated.
BugTerminated == buf

Terminated == [buf EXCEPT ![len] = NUL]

Enter ==
    /\ pc' = "command"
    /\ buf' = Terminated
    /\ cells' = [c \in Index |-> " "] /\ cursor' = 0
    /\ UNCHANGED <<len, line>>

Erase ==
    /\ IF len > 0
       THEN len' = len - 1 /\ cells' = RubOut /\ cursor' = cursor - 1
       ELSE UNCHANGED <<len, cells, cursor>>
    /\ line' = IF line = <<>> THEN line ELSE SubSeq(line, 1, Len(line) - 1)
    /\ UNCHANGED <<pc, buf>>

Type(ch) ==
    /\ IF HasRoom
       THEN /\ buf' = [buf EXCEPT ![len] = ch] /\ len' = len + 1
            /\ cells' = [cells EXCEPT ![cursor] = ch] /\ cursor' = cursor + 1
       ELSE UNCHANGED <<buf, len, cells, cursor>>
    /\ line' = IF Len(line) < INPUT_MAX - 1 THEN Append(line, ch) ELSE line
    /\ UNCHANGED pc

Read(key) ==
    LET ch == Delivered(key) IN
    /\ pc = "read"
    /\ did' = NOTHING
    /\ CASE ch = "NL"            -> Enter
         [] ch \in {"BS", "DEL"} -> Erase
         [] ch \in Printable     -> Type(ch)
         [] OTHER                -> UNCHANGED <<pc, buf, len, cells, cursor, line>>

-----------------------------------------------------------------------------
(***************************************************************************)
(* run_command                                                             *)
(***************************************************************************)

\* The first index from `from` on whose character is in S, INPUT_MAX when
\* there is none.
FirstIn(S, from) ==
    CHOOSE k \in from .. INPUT_MAX :
        /\ k = INPUT_MAX \/ buf[k] \in S
        /\ \A j \in from .. k - 1 : buf[j] \notin S

SkipSpaces(from) == FirstIn(Letters \cup {NUL}, from)

\* The string that starts at `from`.
Str(from) ==
    [k \in 1 .. FirstIn({NUL}, from) - from |-> buf[from + k - 1]]

StrEq(from, name) == Str(from) = Spelling[name]

\* Mutant: only the first character is compared.
BugStrStartsWith(from, name) == buf[from] = Spelling[name][1]

StrStartsWith(from, name) ==
    \A k \in 1 .. Len(Spelling[name]) :
        from + k - 1 \in Index /\ buf[from + k - 1] = Spelling[name][k]

Recognised(from) ==
    IF buf[from] = NUL THEN NOTHING
    ELSE IF StrEq(from, "help") THEN [command |-> "help", text |-> <<>>]
    ELSE IF StrStartsWith(from, "echo")
         THEN [command |-> "echo", text |-> Str(SkipSpaces(from + Len(Spelling["echo"])))]
    ELSE IF \E name \in {"clear", "yield", "about", "exit"} : StrEq(from, name)
         THEN [command |-> CHOOSE name \in Builtins : StrEq(from, name), text |-> <<>>]
    ELSE [command |-> "unknown", text |-> Str(from)]

\* The command, and the next prompt.
RunCommand ==
    /\ pc = "command"
    /\ did' = Recognised(SkipSpaces(0))
    /\ pc' = IF did'.command = "exit" THEN "exited" ELSE "read"
    /\ len' = 0 /\ line' = <<>>
    /\ UNCHANGED <<buf, cells, cursor>>

Next == RunCommand \/ \E key \in Keys : Read(key)

Spec == Init /\ [][Next]_vars

-----------------------------------------------------------------------------
\* What a line means, said of sequences.
Stripped(s) ==
    LET first == CHOOSE k \in 1 .. Len(s) + 1 :
                    /\ k = Len(s) + 1 \/ s[k] # " "
                    /\ \A j \in 1 .. k - 1 : s[j] = " "
    IN  SubSeq(s, first, Len(s))

Prefix(s, n) == SubSeq(s, 1, IF n < Len(s) THEN n ELSE Len(s))

Meaning(s) ==
    LET words == Stripped(s)
        echo  == Spelling["echo"]
        same  == {name \in Builtins \ {"echo"} : Spelling[name] = words}
    IN  CASE words = <<>> -> NOTHING
          [] same # {} -> [command |-> CHOOSE name \in same : TRUE, text |-> <<>>]
          [] Prefix(words, Len(echo)) = echo ->
                [command |-> "echo",
                 text |-> Stripped(SubSeq(words, Len(echo) + 1, Len(words)))]
          [] OTHER -> [command |-> "unknown", text |-> words]

\* Every variable has its type; `len` indexes the buffer, so that storing the
\* terminator there stays inside it (app.c:117, 133).
TypeOK ==
    /\ pc \in {"read", "command", "exited"}
    /\ buf \in [Index -> Printable \cup {NUL}]
    /\ len \in Index
    /\ DOMAIN cells = Index
    /\ cursor \in Index

(***************************************************************************)
(* What is on the screen after the prompt is the line, and nothing of what *)
(* was erased; the prompt is never rubbed out (app.c:121-136).             *)
(***************************************************************************)
ScreenShowsLine ==
    pc = "read" =>
        /\ cursor = Len(line)
        /\ \A c \in Index :
              cells[c] = IF c < Len(line) THEN line[c + 1] ELSE " "

(***************************************************************************)
(* A command is what the user typed and did not erase, however long the    *)
(* earlier lines were whose characters are still in the buffer             *)
(* (app.c:115-119, 147-191).                                               *)
(***************************************************************************)
CommandIsLine == [][pc = "command" => did' = Meaning(line)]_vars

(***************************************************************************)
(* No command reads past the buffer: the line it gets is terminated        *)
(* (app.c:117).                                                            *)
(***************************************************************************)
LineIsTerminated == pc = "command" => FirstIn({NUL}, 0) = len
=============================================================================
