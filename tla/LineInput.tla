------------------------------ MODULE LineInput ------------------------------
(***************************************************************************)
(* What the console promises those who type and those who read: the line   *)
(* being typed can be edited until it is ended, or until the console is    *)
(* full; from then on its characters are read once, in the order typed.    *)
(***************************************************************************)
EXTENDS Naturals, Sequences

CONSTANTS Size,      \* characters the console can hold
          Chars,     \* characters that are kept
          LineEnds   \* those of them that end a line

VARIABLES line,      \* the line being edited
          ready      \* ended lines that no one has read yet

LineInit == line = <<>> /\ ready = <<>>

Type(c) ==
  LET typed == Append(line, c)
      full == Len(ready) + Len(typed) = Size
  IN /\ Len(ready) + Len(line) < Size
     /\ line' = IF c \in LineEnds \/ full THEN <<>> ELSE typed
     /\ ready' = IF c \in LineEnds \/ full THEN ready \o typed ELSE ready

Erase ==
  /\ line # <<>>
  /\ line' = SubSeq(line, 1, Len(line) - 1)
  /\ UNCHANGED ready

KillLine == line' = <<>> /\ UNCHANGED ready

Take ==
  /\ ready # <<>>
  /\ ready' = Tail(ready)
  /\ UNCHANGED line

LineNext == (\E c \in Chars : Type(c)) \/ Erase \/ KillLine \/ Take

LineSpec == LineInit /\ [][LineNext]_<<line, ready>>
=============================================================================
