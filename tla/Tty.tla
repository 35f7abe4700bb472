--------------------------------- MODULE Tty ---------------------------------
(***************************************************************************)
(* What the console promises to its readers: characters are edited on the  *)
(* line being typed, finished lines are read in order, and each character  *)
(* is read once; together they are at most Size characters.                *)
(***************************************************************************)
EXTENDS Naturals, Sequences, SequencesExt

CONSTANTS Chars, Size, Ends

VARIABLES
    ready,    \* characters of finished lines
    line      \* the line being typed

ttyVars == <<ready, line>>

TtyInit == ready = <<>> /\ line = <<>>

Type(c) ==
    /\ Len(ready) + Len(line) < Size
    /\ IF c \in Ends \/ Len(ready) + Len(line) + 1 = Size
       THEN ready' = ready \o Append(line, c) /\ line' = <<>>
       ELSE line' = Append(line, c) /\ UNCHANGED ready

Erase == line # <<>> /\ line' = Front(line) /\ UNCHANGED ready
KillLine == line' = <<>> /\ UNCHANGED ready
Take == ready # <<>> /\ ready' = Tail(ready) /\ UNCHANGED line

TtySpec == TtyInit /\ [][(\E c \in Chars : Type(c)) \/ Erase \/ KillLine \/ Take]_ttyVars
=============================================================================
