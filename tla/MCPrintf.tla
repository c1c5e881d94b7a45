------------------------------ MODULE MCPrintf ------------------------------
(***************************************************************************)
(* Module Printf with an int of 8 bits and a long of 16, both with their   *)
(* extreme values, and formats of the shapes that the kernel uses.         *)
(***************************************************************************)
EXTENDS Printf

Chars ==
    {"0", "1", "2", "3", "4", "5", "6", "7", "8", "9", "a", "b", "c", "d", "e", "f",
     "-", "%", " ", "q", "s", "u", "v", "x", "z"}

Ints == {-128, -127, -10, -1, 0, 1, 9, 10, 100, 127}
Longs == {0, 9, 10, 15, 16, 255, 256, 4096, 65535}

Call(fmt, args) == [fmt |-> fmt, args |-> args]

KernelCalls ==
    {Call(<<"a", "%", "d", " ", "0", "x", "%", "x", "b">>, <<n, x>>) : n \in Ints, x \in Longs}
    \cup {Call(<<"%", "s", "%", "c", "%", "d">>, <<s, "c", n>>) :
            s \in {<<>>, <<"u", "v">>}, n \in {-128, 0, 7}}
    \cup {Call(<<"%", "%", "%", "q", "z">>, <<>>), Call(<<>>, <<>>)}
=============================================================================
