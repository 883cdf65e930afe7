----------------------------- MODULE RingScreen -----------------------------
(***************************************************************************)
(* What the terminal of kernel.c promises its callers: the text screen is  *)
(* a ring of VGA_WIDTH * VGA_HEIGHT cells with one write position.  A      *)
(* printable character goes into the cell at the position, which moves on  *)
(* by one; a newline moves the position to the start of the next line; a   *)
(* backspace moves it back by one, stopping at the first cell, and blanks  *)
(* the cell it reaches.                                                    *)
(***************************************************************************)
EXTENDS Naturals

CONSTANTS VGA_WIDTH, VGA_HEIGHT, Ink

VARIABLES pos, cells

NL == "NL"
BS == "BS"
Blank == " "

Size == VGA_WIDTH * VGA_HEIGHT
Cells == 0 .. Size - 1
LineStarts == {k * VGA_WIDTH : k \in 0 .. VGA_HEIGHT - 1}

Init ==
  /\ pos = 0
  /\ cells = [i \in Cells |-> Blank]

Clear ==
  /\ pos' = 0
  /\ cells' = [i \in Cells |-> Blank]

Write(c) ==
  /\ pos' = IF pos + 1 = Size THEN 0 ELSE pos + 1
  /\ cells' = [cells EXCEPT ![pos] = c]

\* The position goes to the only line start within one line's reach ahead, or
\* to the top when no line starts ahead of it.
NewLine ==
  /\ pos' \in LineStarts
  /\ \/ pos < pos' /\ pos' <= pos + VGA_WIDTH
     \/ pos' = 0 /\ Size <= pos + VGA_WIDTH
  /\ UNCHANGED cells

Erase ==
  /\ pos' = IF pos = 0 THEN 0 ELSE pos - 1
  /\ cells' = [cells EXCEPT ![pos'] = Blank]

Next ==
  \/ Clear
  \/ \E c \in Ink : Write(c)
  \/ NewLine
  \/ Erase

Spec == Init /\ [][Next]_<<pos, cells>>
=============================================================================
