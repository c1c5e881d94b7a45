------------------------------ MODULE MCShell ------------------------------
(***************************************************************************)
(* Module Shell with short command names over two letters.                 *)
(***************************************************************************)
EXTENDS Shell

BuiltinNames == {"help", "echo", "clear", "yield", "about", "exit"}

ShortSpelling ==
    [help  |-> <<"a", "a">>, echo  |-> <<"b", "a">>, clear |-> <<"a", "b">>,
     yield |-> <<"b", "b">>, about |-> <<"a">>,      exit  |-> <<"a", "b", "a">>]
=============================================================================
