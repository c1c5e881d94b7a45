------------------------------- MODULE Printf -------------------------------
(***************************************************************************)
(* The kernel's printf (kernel/printf.c) on the polled UART                *)
(* (kernel/uart.c): the format loop, print_num, and a transmitter that     *)
(* loses what it holds when it is written to again too early.              *)
(*                                                                         *)
(* An int is an integer, an unsigned long a natural number below LONG; a   *)
(* char is a string of one character.                                      *)
(***************************************************************************)
EXTENDS Integers, Sequences, SequencesExt

CONSTANTS
    LONG,        \* 2^64
    Char,        \* the characters
    Calls        \* the calls to try: records of fmt and args

EMPTY == "empty"
NUL   == "NUL"

ASSUME PrintfAssumption ==
    /\ LONG \in Nat \ {0} /\ LONG % 2 = 0
    /\ {EMPTY, NUL} \cap Char = {}
    /\ {"0", "1", "2", "3", "4", "5", "6", "7", "8", "9",
        "a", "b", "c", "d", "e", "f", "-", "%"} \subseteq Char

Conversions == {"d", "x", "s", "c"}

\* What va_arg takes for a conversion; an int becomes a long.
Argument(conv) ==
    CASE conv = "d" -> -(LONG \div 2) .. LONG \div 2 - 1
      [] conv = "x" -> 0 .. LONG - 1
      [] conv = "s" -> Seq(Char)
      [] conv = "c" -> Char

\* From a position of the format and an argument on: a character follows every
\* '%', and every conversion has its argument.
Fits(fmt, args) ==
    LET fits[p \in 1 .. Len(fmt) + 2] ==
          [a \in Nat |->
             \/ p > Len(fmt)
             \/ fmt[p] # "%" /\ fits[p + 1][a]
             \/ /\ fmt[p] = "%" /\ p < Len(fmt)
                /\ fmt[p + 1] \notin Conversions /\ fits[p + 2][a]
             \/ /\ fmt[p] = "%" /\ p < Len(fmt) /\ fmt[p + 1] \in Conversions
                /\ a \in DOMAIN args /\ args[a] \in Argument(fmt[p + 1])
                /\ fits[p + 2][a + 1]]
    IN  fits

ASSUME CallsAssumption ==
    \A c \in Calls : c.fmt \in Seq(Char) /\ Fits(c.fmt, c.args)[1][1]

VARIABLES
    call,
    pc,      \* "scan": in the loop of printf; "digits": in the first loop of
             \* print_num; "returned"
    pos,     \* the character of the format that is next, from 1
    arg,     \* the argument that va_arg returns next
    num, base, buf,
    todo,    \* the characters to pass to uart_putc before going on
    thr,     \* the transmit holding register, EMPTY when LSR says so
    wire     \* history: what went out

vars == <<call, pc, pos, arg, num, base, buf, todo, thr, wire>>

\* `digits` of print_num.
Digit(n) == <<"0", "1", "2", "3", "4", "5", "6", "7", "8", "9",
              "a", "b", "c", "d", "e", "f">>[n + 1]

Init ==
    /\ call \in Calls
    /\ pc = "scan" /\ pos = 1 /\ arg = 1
    /\ num = 0 /\ base = 10 /\ buf = <<>>
    /\ todo = <<>> /\ thr = EMPTY /\ wire = <<>>

-----------------------------------------------------------------------------
(***************************************************************************)
(* uart.c and the device                                                   *)
(***************************************************************************)

\* Mutants: the register is not polled; the wrong bit of LSR is.
BugLsrEmpty == TRUE
BugLsrReady == FALSE

LsrEmpty == thr = EMPTY

\* uart_putc of the first of the characters to put.
UartPutc ==
    /\ todo # <<>>
    /\ LsrEmpty
    /\ thr' = Head(todo)
    /\ todo' = Tail(todo)
    /\ UNCHANGED <<call, pc, pos, arg, num, base, buf, wire>>

Transmit ==
    /\ thr # EMPTY
    /\ wire' = Append(wire, thr)
    /\ thr' = EMPTY
    /\ UNCHANGED <<call, pc, pos, arg, num, base, buf, todo>>

-----------------------------------------------------------------------------
(***************************************************************************)
(* printf and print_num                                                    *)
(***************************************************************************)

\* The character of the format at position p, with the terminator behind it.
At(p) == IF p <= Len(call.fmt) THEN call.fmt[p] ELSE NUL

\* The beginning of print_num for the number n, an unsigned long.
PrintNum(n, b, sign) ==
    LET negative == sign /\ n >= LONG \div 2
        abs      == IF negative THEN -n % LONG ELSE n
    IN  /\ todo' = (IF negative THEN <<"-">> ELSE <<>>) \o (IF abs = 0 THEN <<Digit(0)>> ELSE <<>>)
        /\ pc' = IF abs = 0 THEN "scan" ELSE "digits"
        /\ num' = abs /\ base' = b /\ buf' = <<>>

Put(chars) == todo' = chars /\ UNCHANGED <<pc, num, base, buf>>

\* One round of the loop of printf.
Scan ==
    LET c     == At(pos)
        conv  == At(pos + 1)
        value == call.args[arg]
    IN
    /\ pc = "scan" /\ todo = <<>>
    /\ c # NUL
    /\ pos' = pos + IF c = "%" THEN 2 ELSE 1
    /\ arg' = arg + IF c = "%" /\ conv \in Conversions THEN 1 ELSE 0
    /\ CASE c # "%"    -> Put(<<c>>)
         [] c = "%" /\ conv = "d" -> PrintNum(value % LONG, 10, TRUE)
         [] c = "%" /\ conv = "x" -> PrintNum(value, 16, FALSE)
         [] c = "%" /\ conv = "s" -> Put(value)
         [] c = "%" /\ conv = "c" -> Put(<<value>>)
         [] c = "%" /\ conv = "%" -> Put(<<"%">>)
         [] OTHER                 -> Put(<<"%", conv>>)
    /\ UNCHANGED <<call, thr, wire>>

Return ==
    /\ pc = "scan" /\ todo = <<>>
    /\ At(pos) = NUL
    /\ pc' = "returned"
    /\ UNCHANGED <<call, pos, arg, num, base, buf, todo, thr, wire>>

\* The loop that divides, after the sign was put.
Divide ==
    /\ pc = "digits" /\ todo = <<>>
    /\ num > 0
    /\ buf' = Append(buf, Digit(num % base))
    /\ num' = num \div base
    /\ UNCHANGED <<call, pc, pos, arg, base, todo, thr, wire>>

\* The loop that prints backwards.
PrintDigits ==
    /\ pc = "digits" /\ todo = <<>>
    /\ num = 0
    /\ todo' = Reverse(buf)
    /\ pc' = "scan"
    /\ UNCHANGED <<call, pos, arg, num, base, buf, thr, wire>>

Software == Scan \/ Return \/ Divide \/ PrintDigits \/ UartPutc

Next == Software \/ Transmit

\* The hart goes on, and the device sends what it holds.
Spec == Init /\ [][Next]_vars /\ WF_vars(Software) /\ WF_vars(Transmit)

-----------------------------------------------------------------------------
(***************************************************************************)
(* What a call should print.                                               *)
(***************************************************************************)

\* The powers of b.
Powers(b) ==
    LET power[l \in 0 .. LONG] == IF l = 0 THEN 1 ELSE b * power[l - 1] IN power

\* The numeral of n: its digits by their weights, without leading zeros.
Numeral(n, b) ==
    LET length == CHOOSE l \in 1 .. LONG :
                     n < Powers(b)[l] /\ (l = 1 \/ n >= Powers(b)[l - 1])
    IN  [k \in 1 .. length |-> Digit((n \div Powers(b)[length - k]) % b)]

Shown(conv, value) ==
    CASE conv = "d" -> IF value < 0 THEN <<"-">> \o Numeral(-value, 10)
                       ELSE Numeral(value, 10)
      [] conv = "x" -> Numeral(value, 16)
      [] conv = "s" -> value
      [] conv = "c" -> <<value>>

\* What the format prints from a position on, with the arguments from a on.
TextFrom(fmt, args) ==
    LET text[p \in 1 .. Len(fmt) + 2] ==
          [a \in Nat |->
             IF p > Len(fmt) THEN <<>>
             ELSE IF fmt[p] # "%" THEN <<fmt[p]>> \o text[p + 1][a]
             ELSE IF fmt[p + 1] \in Conversions
                  THEN Shown(fmt[p + 1], args[a]) \o text[p + 2][a + 1]
             ELSE (IF fmt[p + 1] = "%" THEN <<"%">> ELSE <<"%", fmt[p + 1]>>)
                     \o text[p + 2][a]]
    IN  text

Text(fmt, args) == TextFrom(fmt, args)[1][1]

(***************************************************************************)
(* What goes out is the beginning of the text of the call, in order and    *)
(* without gaps, and all of it when printf has returned and the register   *)
(* is empty (printf.c:47-83, uart.c:36-45).                                *)
(***************************************************************************)
WireShowsText ==
    LET text == Text(call.fmt, call.args) IN
    /\ IsPrefix(wire, text)
    /\ pc = "returned" /\ thr = EMPTY => wire = text

(***************************************************************************)
(* printf returns, and the whole text is sent: polling ends because the    *)
(* transmitter does its part (uart.c:39).                                  *)
(***************************************************************************)
AllIsSent == <>(pc = "returned" /\ wire = Text(call.fmt, call.args))
=============================================================================
