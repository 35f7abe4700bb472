------------------------------- MODULE MCShell -------------------------------
(***************************************************************************)
(* All lines of up to MaxTokens tokens, and some longer ones that set up   *)
(* more processes; a second line is typed while the first one's background *)
(* processes may run.                                                      *)
(***************************************************************************)
EXTENDS Shell

CONSTANT MaxTokens

Tokens == Words \cup Symbols
Short == [n \in 1 .. MaxTokens + 1 |-> [1 .. n - 1 -> Tokens]]
Long == {<<"x", "|", "y", "|", "x">>, <<"(", "x", ";", "y", ")", "|", "y">>,
         <<"x", "|", "(", "y", "&", ";", "x", ")">>, <<"x", "&", ";", "y", "|", "x">>,
         <<"(", "x", ">", "y", ")", "<", "x">>, <<"x", "|", "y", "&", "&", ";", "x">>,
         <<"(", "x", "|", "y", ";", "x", ")", "&">>}
MCLines == <<Short \o <<Long, {<<"cd">>}>>, <<{<<"x", "|", "y">>}>>>>
=============================================================================
