------------------------------- MODULE Editor -------------------------------
(***************************************************************************)
(* The program editor of kernel.c: editor_handle_input takes one key per   *)
(* call and changes the text, the cursor and the screen.  One action is    *)
(* one branch of that handler.                                             *)
(*                                                                         *)
(* The handler reads and writes its shift state through a pointer it never *)
(* sets; the build makes it address 0, the byte the prompt uses as well,   *)
(* so both share the variable shift.  The text array is not bounded: a     *)
(* store past its end hits the editor's own position, after which nothing  *)
(* is known ("corrupt").                                                   *)
(***************************************************************************)
EXTENDS Screen, Keyboard, FiniteSets

CONSTANTS
  EDITOR_BUFFER_SIZE,
  KEYS,           \* keys that are pressed in the editor
  ExitText        \* a message of the console, as a sequence of characters

ASSUME EditorAssumption ==
  /\ EDITOR_BUFFER_SIZE \in Nat \ {0} /\ EDITOR_BUFFER_SIZE < SIZE_T
  /\ KEYS \subseteq keyboard_read_key
  /\ NUL \in Ink
  /\ ExitText \in Seq(Chars)

VARIABLES
  buffer, position, cursor_x, cursor_y,   \* the fields of the editor state
  mode,                                   \* "edit" while editor.is_active
  ctrl, shift, current_layout,
  ran,                                    \* history: the last program executed, and the text then
  drawn                                   \* history: the last redraw since "edit" had room for the text

textVars == <<buffer, position, cursor_x, cursor_y>>
editorVars == <<textVars, mode, ctrl, shift, current_layout, ran, drawn, screenVars>>

\* Variant: the cursor kept in a signed number.
decSigned(n) == n - 1

dec(n) == (n - 1) % SIZE_T

\* The C string at the start of the text.  A full buffer is ended by the low
\* byte of position, which is then zero.
CText(b) ==
  LET n == CHOOSE k \in 0 .. EDITOR_BUFFER_SIZE :
             /\ \A i \in 0 .. k - 1 : b[i] # NUL
             /\ k = EDITOR_BUFFER_SIZE \/ b[k] = NUL
  IN [i \in 1 .. n |-> b[i - 1]]

Text == [i \in 1 .. position |-> buffer[i - 1]]

EditorInit ==
  /\ buffer = [i \in 0 .. EDITOR_BUFFER_SIZE - 1 |-> NUL]
  /\ position = 0 /\ cursor_x = 0 /\ cursor_y = 0
  /\ ctrl = FALSE
  /\ shift \in BOOLEAN
  /\ current_layout = "US"
  /\ ran = <<>>
  /\ drawn = FALSE

\* Column of slot p in the text b: the distance to the newline before it.
ColumnOf(b, p) ==
  Cardinality({i \in 0 .. p - 1 : \A j \in i .. p - 1 : b[j] # NL})

\* Where the end of the text is: the number of its newlines, the length of
\* its last line.
EndRow == Cardinality({i \in 1 .. position : Text[i] = NL})
EndColumn == ColumnOf(buffer, position)

\* The text leaves a cell of the screen for the cursor.
Fits == EndRow * VGA_WIDTH + EndColumn < VGA_WIDTH * VGA_HEIGHT

\* The full redraw at the end of the handler, from the new text and cursor.
Redraw ==
  /\ Show([terminal_write(terminal_initialize, CText(buffer')) EXCEPT
             !.row = cursor_y', !.col = cursor_x'])
  /\ drawn' = Fits'

Pressed(keys) == mode = "edit" /\ keys \cap KEYS # {}

CtrlKey ==
  /\ Pressed({"ctrl"})
  /\ ctrl' = TRUE
  /\ shift' = FALSE
  /\ UNCHANGED <<textVars, mode, current_layout, ran, drawn, screenVars>>

ShiftKey ==
  /\ Pressed(ShiftKeys)
  /\ shift' = TRUE
  /\ ctrl' = FALSE
  /\ UNCHANGED <<textVars, mode, current_layout, ran>>
  /\ Redraw

\* editor_buffer and editor_buffer_pos, what execute_buffer and run work on,
\* are zero at load and have no writer: the program they hold is empty.
editor_buffer == <<>>
editor_buffer_pos == 0

\* Variant: leaving the editor does not clear the Ctrl state.
LeaveCtrlSet(execute) ==
  /\ mode' = "prompt"
  /\ shift' = FALSE
  /\ ran' = IF execute THEN <<editor_buffer, Text>> ELSE ran
  /\ Show(terminal_write(screen, ExitText))
  /\ drawn' = FALSE
  /\ UNCHANGED <<textVars, current_layout, ctrl>>

\* Ctrl+Q and Ctrl+R: back to the prompt, after execute_buffer for Ctrl+R.
Leave(execute) ==
  /\ mode' = "prompt"
  /\ ctrl' = FALSE
  /\ shift' = FALSE
  /\ ran' = IF execute THEN <<editor_buffer, Text>> ELSE ran
  /\ Show(terminal_write(screen, ExitText))
  /\ drawn' = FALSE
  /\ UNCHANGED <<textVars, current_layout>>

\* A key other than Ctrl and Shift while Ctrl is set, Enter and Backspace included.
CtrlCombo ==
  /\ mode = "edit" /\ ctrl
  /\ \E key \in KEYS \ {"none", "ctrl", "lshift", "rshift"} :
       \E c \in Lookup(current_layout, shift, key) \cap Chars :
         \/ c \in {"q", "r"} /\ Leave(c = "r")
         \/ /\ c \notin {"q", "r"}
            /\ ctrl' = FALSE
            /\ UNCHANGED <<textVars, mode, shift, current_layout, ran>>
            /\ Redraw

\* A store past the end of the text.
Overflow ==
  /\ mode' = "corrupt"
  /\ UNCHANGED <<textVars, ctrl, shift, current_layout, ran, drawn, screenVars>>

Store(c) ==
  /\ buffer' = [buffer EXCEPT ![position] = c]
  /\ position' = position + 1
  /\ shift' = FALSE
  /\ UNCHANGED <<mode, ctrl, current_layout, ran>>

HasRoom == position < EDITOR_BUFFER_SIZE

EnterKey ==
  /\ Pressed({"enter"}) /\ ~ctrl
  /\ IF ~HasRoom THEN Overflow
     ELSE /\ Store(NL)
          /\ cursor_x' = 0
          /\ cursor_y' = inc(cursor_y)
          /\ Redraw

CharacterKey ==
  /\ mode = "edit" /\ ~ctrl
  /\ \E key \in KEYS \ {"none", "enter", "bksp", "ctrl", "lshift", "rshift", "high"} :
       \E c \in Lookup(current_layout, shift, key) \cap Chars :
         IF ~HasRoom THEN Overflow
         ELSE /\ Store(c)
              /\ cursor_x' = inc(cursor_x)
              /\ cursor_y' = cursor_y
              /\ Redraw

\* A code above 127 matches no branch: only the redraw is left.
HighKey ==
  /\ Pressed({"high"}) /\ ~ctrl
  /\ UNCHANGED <<textVars, mode, ctrl, shift, current_layout, ran>>
  /\ Redraw

\* Cursor after the character at slot p was taken out of b.  The slot is
\* cleared before it is tested for a newline, so the first case never applies.
EraseCursor(b, p) ==
  IF b[p] = NL
    THEN cursor_y' = dec(cursor_y) /\ cursor_x' = ColumnOf(b, p)
    ELSE cursor_y' = cursor_y /\ cursor_x' = dec(cursor_x)

EraseEcho == Show(terminal_write(screen, <<BS, Blank, BS>>))

\* Variant: the erased slot keeps its character.
BackspaceKeyStale ==
  /\ Pressed({"bksp"}) /\ ~ctrl
  /\ shift' = FALSE
  /\ IF position > 0
       THEN /\ position' = position - 1
            /\ EraseCursor(buffer, position - 1)
            /\ EraseEcho
       ELSE UNCHANGED <<position, cursor_x, cursor_y, screenVars>>
  /\ UNCHANGED <<buffer, mode, ctrl, current_layout, ran, drawn>>

\* Variant: one backspace too many in the echo.
BackspaceKeyTwice ==
  /\ Pressed({"bksp"}) /\ ~ctrl
  /\ shift' = FALSE
  /\ IF position > 0
       THEN /\ position' = position - 1
            /\ buffer' = [buffer EXCEPT ![position - 1] = NUL]
            /\ EraseCursor(buffer', position - 1)
            /\ Show(terminal_write(screen, <<BS, Blank, BS, BS>>))
       ELSE UNCHANGED <<textVars, screenVars>>
  /\ UNCHANGED <<mode, ctrl, current_layout, ran, drawn>>

BackspaceKey ==
  /\ Pressed({"bksp"}) /\ ~ctrl
  /\ shift' = FALSE
  /\ IF position > 0
       THEN /\ position' = position - 1
            /\ buffer' = [buffer EXCEPT ![position - 1] = NUL]
            /\ EraseCursor(buffer', position - 1)
            /\ EraseEcho
       ELSE UNCHANGED <<textVars, screenVars>>
  /\ UNCHANGED <<mode, ctrl, current_layout, ran, drawn>>

editor_handle_input ==
  CtrlKey \/ ShiftKey \/ CtrlCombo \/ EnterKey \/ CharacterKey \/ HighKey \/ BackspaceKey
=============================================================================
