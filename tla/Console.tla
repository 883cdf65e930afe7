------------------------------ MODULE Console -------------------------------
(***************************************************************************)
(* The kernel's main loop, terminal_prompt, at the grain of one command    *)
(* line per step (LineInput has the keys), composed with the editor, which *)
(* takes over the keyboard between "edit" and Ctrl+Q or Ctrl+R.            *)
(*                                                                         *)
(* A command can be given only if its characters can be typed under the    *)
(* current keyboard layout.                                                *)
(***************************************************************************)
EXTENDS Editor

LayoutName ==
  [US |-> {"e", "n", "_", "u", "s"}, DE |-> {"d", "e", "_"}, FR |-> {"f", "r", "_"},
   ES |-> {"e", "s", "_"}, RU |-> {"r", "u", "_"}]

CanType(chars) == chars \subseteq Typable(current_layout)

\* The line is entered and the command prints.
Prints ==
  /\ mode = "prompt"
  /\ Show(terminal_write(screen, ExitText))
  /\ drawn' = FALSE
  /\ UNCHANGED <<textVars, ctrl>>

\* Enter clears the shift state.
AtPrompt == Prints /\ shift' = FALSE

ConsoleInit ==
  LET s == terminal_write(terminal_initialize, ExitText)
  IN /\ EditorInit
     /\ mode = "prompt"
     /\ terminal_row = s.row /\ terminal_column = s.col /\ terminal_buffer = s.cells

\* An empty or unknown line, help and getkey: something is printed.
TextCommand ==
  /\ AtPrompt
  /\ UNCHANGED <<mode, current_layout, ran>>

ChangeLayout(layout) ==
  /\ CanType({"c", "l", " "} \cup LayoutName[layout])
  /\ AtPrompt
  /\ current_layout' = layout
  /\ UNCHANGED <<mode, ran>>

Edit ==
  /\ CanType({"e", "d", "i", "t"})
  /\ AtPrompt
  /\ mode' = "edit"
  /\ UNCHANGED <<current_layout, ran>>

Run ==
  /\ CanType({"r", "u", "n"})
  /\ AtPrompt
  /\ ran' = IF editor_buffer_pos > 0 THEN <<editor_buffer, Text>> ELSE ran
  /\ UNCHANGED <<mode, current_layout>>

\* lsdisks enumerates the PCI devices, which may never end (see PciScan), and
\* copies devices to address 0 when it gets no memory (see Disks).
ListDisks ==
  /\ CanType({"l", "s", "d", "i", "k"})
  /\ Prints
  /\ shift' \in BOOLEAN
  /\ mode' \in {"prompt", "hung"}
  /\ UNCHANGED <<current_layout, ran>>

\* reboot and shutdown both try to power off and then leave the prompt for
\* good; enabling ACPI may wait forever.
PowerOff ==
  /\ CanType({"r", "e", "b", "o", "t"}) \/ CanType({"s", "h", "u", "t", "d", "o", "w", "n"})
  /\ AtPrompt
  /\ mode' \in {"halted", "hung"}
  /\ UNCHANGED <<current_layout, ran>>

ConsoleNext ==
  \/ editor_handle_input
  \/ TextCommand \/ Edit \/ Run \/ ListDisks \/ PowerOff
  \/ \E layout \in LAYOUTS : ChangeLayout(layout)

ConsoleSpec == ConsoleInit /\ [][ConsoleNext]_editorVars

ConsoleTypeOK ==
  /\ mode \in {"prompt", "edit", "halted", "hung", "corrupt"}
  /\ buffer \in [0 .. EDITOR_BUFFER_SIZE - 1 -> Chars]
  /\ position \in 0 .. EDITOR_BUFFER_SIZE
  /\ cursor_x \in 0 .. SIZE_T - 1 /\ cursor_y \in 0 .. SIZE_T - 1
  /\ ctrl \in BOOLEAN /\ shift \in BOOLEAN
  /\ current_layout \in LAYOUTS

(***************************************************************************)
(* No stale Ctrl: the static flag ctrl is set in the editor only, so the   *)
(* first key of a later session is never taken for a Ctrl combination      *)
(* (kernel.c:321-355).                                                     *)
(***************************************************************************)
CtrlOnlyInEditor == ctrl => mode \in {"edit", "corrupt"}

(***************************************************************************)
(* Behind the text the buffer is all zero, so a redraw shows nothing that  *)
(* was erased, in this session of the editor or an earlier one             *)
(* (kernel.c:365-370, 404-410).                                            *)
(***************************************************************************)
NothingBehindText ==
  \A i \in position .. EDITOR_BUFFER_SIZE - 1 : buffer[i] = NUL

(***************************************************************************)
(* Whoever got into the editor can get out of it: the layout, which cannot *)
(* change inside, has a key for the q of Ctrl+Q (kernel.c:331-345, the     *)
(* layout tables).                                                         *)
(***************************************************************************)
EditorCanExit ==
  mode = "edit" => \E key \in PlainKeys : us_ascii_to_layout(current_layout, key) = "q"

\* Texts the screen shows with every line in its own row, but for the last,
\* which may go on in the rows below: no NUL, and a line with a newline is
\* shorter than a row (the newline of a full one gives an empty row).
Showable ==
  /\ \A i \in 1 .. position : Text[i] # NUL
  /\ \A i \in 0 .. position - 1 : buffer[i] = NL => ColumnOf(buffer, i) < VGA_WIDTH
  /\ Fits

(***************************************************************************)
(* The screen shows the text: once the editor has drawn it with room to    *)
(* spare, and as long as the cursor is at the end of the text (it is not   *)
(* any more when a newline was erased), the cells and the place of the     *)
(* cursor are what writing the text onto an empty screen gives, after the  *)
(* full redraws as well as after the erasing in place of Backspace, also   *)
(* over the end of a row and in the last one (kernel.c:384-410).           *)
(***************************************************************************)
ScreenShowsText ==
  mode = "edit" /\ drawn /\ Showable /\ cursor_y = EndRow /\ cursor_x = EndColumn =>
    LET written == terminal_write(terminal_initialize, Text)
    IN /\ terminal_buffer = written.cells
       /\ Position = written.row * VGA_WIDTH + written.col

(***************************************************************************)
(* Contradicted by the code.  "run" is to "Execute the current program"    *)
(* (kernel.c:510): what runs is the text of the editor.                    *)
(***************************************************************************)
RunRunsText == ran # <<>> => ran[1] = ran[2]
=============================================================================
