------------------------------- MODULE Screen -------------------------------
(***************************************************************************)
(* The VGA text terminal of kernel.c: terminal_row, terminal_column and    *)
(* the cells of terminal_buffer.  Every writer of the kernel (the prompt,  *)
(* the line reader, the editor, printk) goes through terminal_putchar, so  *)
(* the effects are operators on a screen record [row, col, cells] that the *)
(* other modules compose; this module is also a specification of its own,  *)
(* a terminal driven by arbitrary characters.                              *)
(*                                                                         *)
(* Indices are size_t and wrap at SIZE_T.  A write outside the visible     *)
(* page lands elsewhere in the VGA window and shows nothing: it is dropped.*)
(* Colour is one constant attribute (terminal_setcolor is never called)    *)
(* and is left out.                                                        *)
(***************************************************************************)
EXTENDS Integers, SequencesExt

CONSTANTS
  VGA_WIDTH,     \* columns
  VGA_HEIGHT,    \* rows
  SIZE_T,        \* number of values of a size_t
  Ink            \* characters other than newline and backspace

ASSUME SizeAssumption ==
  /\ VGA_WIDTH \in Nat \ {0}
  /\ VGA_HEIGHT \in Nat \ {0}
  /\ SIZE_T \in Nat
  /\ VGA_WIDTH * VGA_HEIGHT < SIZE_T
  /\ VGA_WIDTH < SIZE_T
  /\ VGA_HEIGHT < SIZE_T

ASSUME InkAssumption ==
  /\ " " \in Ink
  /\ {"NL", "BS"} \cap Ink = {}

VARIABLES terminal_row, terminal_column, terminal_buffer

screenVars == <<terminal_row, terminal_column, terminal_buffer>>

NL == "NL"
BS == "BS"
Blank == " "
Chars == Ink \cup {NL, BS}
Cells == 0 .. VGA_WIDTH * VGA_HEIGHT - 1

\* Screen records with the cursor on the screen.
OnScreen == [row : 0 .. VGA_HEIGHT - 1, col : 0 .. VGA_WIDTH - 1, cells : [Cells -> Ink]]

inc(n) == (n + 1) % SIZE_T

(***************************************************************************)
(* Operators on a screen record s                                          *)
(***************************************************************************)
terminal_initialize ==
  [row |-> 0, col |-> 0, cells |-> [i \in Cells |-> Blank]]

terminal_putentryat(s, c, x, y) ==
  LET index == (y * VGA_WIDTH + x) % SIZE_T
  IN IF index \in Cells THEN [s EXCEPT !.cells[index] = c] ELSE s

\* Variant: the wrap to the top row forgotten.
nextRowNoWrap(row) == inc(row)

\* Row after a line is finished: only the last row of the screen wraps.
nextRow(row) == IF inc(row) = VGA_HEIGHT THEN 0 ELSE inc(row)

putNewline(s) == [s EXCEPT !.col = 0, !.row = nextRow(s.row)]

backOne(s) ==
  IF s.col > 0 THEN [s EXCEPT !.col = s.col - 1]
  ELSE IF s.row > 0 THEN [s EXCEPT !.row = s.row - 1, !.col = VGA_WIDTH - 1]
  ELSE s

\* Variant: the cell is blanked before the cursor moves.
putBackspaceEarly(s) ==
  backOne(terminal_putentryat(s, Blank, s.col, s.row))

putBackspace(s) ==
  LET b == backOne(s) IN terminal_putentryat(b, Blank, b.col, b.row)

putInk(s, c) ==
  LET w == terminal_putentryat(s, c, s.col, s.row)
  IN IF inc(s.col) = VGA_WIDTH
       THEN [w EXCEPT !.col = 0, !.row = nextRow(s.row)]
       ELSE [w EXCEPT !.col = inc(s.col)]

terminal_putchar(s, c) ==
  IF c = NL THEN putNewline(s)
  ELSE IF c = BS THEN putBackspace(s)
  ELSE putInk(s, c)

terminal_write(s, data) == FoldLeft(terminal_putchar, s, data)

\* The terminal's variables as a record, and the assignment of a record to them.
screen == [row |-> terminal_row, col |-> terminal_column, cells |-> terminal_buffer]

Show(s) ==
  /\ terminal_row' = s.row
  /\ terminal_column' = s.col
  /\ terminal_buffer' = s.cells

(***************************************************************************)
(* The terminal on its own                                                 *)
(***************************************************************************)
ScreenInit ==
  /\ terminal_row = 0
  /\ terminal_column = 0
  /\ terminal_buffer = [i \in Cells |-> Blank]

Initialize == Show(terminal_initialize)
PutChar(c) == Show(terminal_putchar(screen, c))

ScreenNext ==
  \/ Initialize
  \/ \E c \in Chars : PutChar(c)

ScreenSpec == ScreenInit /\ [][ScreenNext]_screenVars

ScreenTypeOK ==
  /\ terminal_row \in 0 .. SIZE_T - 1
  /\ terminal_column \in 0 .. SIZE_T - 1
  /\ terminal_buffer \in [Cells -> Ink]

(***************************************************************************)
(* The wrap tests of terminal_putchar are equalities, so a cursor that     *)
(* ever left the screen would never come back: whatever is printed, the    *)
(* cursor stays on the screen (kernel.c:83-109).                           *)
(***************************************************************************)
CursorOnScreen ==
  /\ terminal_row < VGA_HEIGHT
  /\ terminal_column < VGA_WIDTH

(***************************************************************************)
(* The terminal implements the ring of cells of RingScreen, with the       *)
(* position row * VGA_WIDTH + column: no character is lost, none is put in *)
(* two cells, and an erase touches the last written cell only.             *)
(***************************************************************************)
Position == terminal_row * VGA_WIDTH + terminal_column

Ring == INSTANCE RingScreen WITH pos <- Position, cells <- terminal_buffer

ImplementsRing == Ring!Spec
=============================================================================
