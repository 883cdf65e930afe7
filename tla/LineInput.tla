----------------------------- MODULE LineInput ------------------------------
(***************************************************************************)
(* The command line of the prompt: terminal_input collects keys into the   *)
(* command array and echoes them, split_command cuts the finished line     *)
(* into arguments with strtok, and terminal_prompt answers it.  One action *)
(* is one key, one call of strtok, or one command.                         *)
(*                                                                         *)
(* Not every command comes back to the prompt: reboot and shutdown leave   *)
(* the loop ("halted") or wait for the power to go off ("hung"), lsdisks   *)
(* may enumerate for ever ("hung"), and the editor need not be left        *)
(* ("edit").                                                               *)
(*                                                                         *)
(* Neither array is bounded by the code.  A store past its end destroys    *)
(* unrelated memory, after which nothing is known: the phases              *)
(* "line_overrun" and "args_overrun" have no successor.                    *)
(***************************************************************************)
EXTENDS Screen, Keyboard

CONSTANTS
  CMD_SIZE,     \* sizeof command (256 in the code)
  MAX_ARGS,     \* length of args (10 in the code)
  KEYS,         \* keys that are pressed
  LAYOUT_RANGE, \* layouts in use
  JUNK,         \* content of the uninitialised array
  Banner,       \* "Terminal ready. ..." as a sequence of characters
  Prompt,       \* the "\n>>> " of the code
  Replies,      \* what commands may print, and the editor may show
  Spelling      \* how the commands are spelled that need not come back to the prompt

ASSUME LineAssumption ==
  /\ CMD_SIZE \in Nat \ {0}
  /\ MAX_ARGS \in Nat \ {0}
  /\ KEYS \subseteq keyboard_read_key
  /\ LAYOUT_RANGE \subseteq LAYOUTS
  /\ NUL \in Ink /\ JUNK \notin Chars
  /\ Banner \in Seq(Chars) /\ Prompt \in Seq(Chars)
  /\ Replies \subseteq Seq(Chars)
  /\ Spelling \in [{"edit", "lsdisks", "reboot", "shutdown"} -> Seq(Chars)]

VARIABLES
  command, buffer_index,   \* the line
  shift,                   \* *shift: the byte at address 0, whatever it holds at boot
  current_layout,
  phase,                   \* where terminal_prompt is
  saved_token, args,       \* strtok's saved pointer; the arguments, as indices of command
  typed,                   \* history: the characters typed and not erased
  home, plain              \* history: position after the prompt; the echo has kept to one run of cells

lineVars == <<command, buffer_index, shift, current_layout, phase, saved_token, args,
              typed, home, plain, screenVars>>

NoToken == -1
Slots == 0 .. CMD_SIZE - 1

(***************************************************************************)
(* C strings inside command                                                *)
(***************************************************************************)
\* First slot at or after p that holds a character of C.
FirstIn(p, C) == CHOOSE q \in Slots :
  q >= p /\ command[q] \in C /\ \A r \in p .. q - 1 : command[r] \notin C

CStr(p) == [i \in 1 .. FirstIn(p, {NUL}) - p |-> command[p + i - 1]]

NotSpace == (Chars \cup {JUNK}) \ {" "}

\* What a call of strtok leaves: the token from start to end, if there is one.
TokenAt(start, end, none) ==
  IF command[start] = NUL
    THEN [token |-> NoToken, saved |-> none, command |-> command]
  ELSE IF command[end] = NUL
    THEN [token |-> start, saved |-> NoToken, command |-> command]
  ELSE [token |-> start, saved |-> end + 1, command |-> [command EXCEPT ![end] = NUL]]

\* Variant: leading delimiters not skipped.
strtokNoSkip(str) == TokenAt(str, FirstIn(str, {" ", NUL}), NoToken)

\* Variant: the saved pointer not cleared when no token is left.
strtokKeeps(str) ==
  LET start == FirstIn(str, NotSpace)
  IN TokenAt(start, FirstIn(start, {" ", NUL}), str)

\* One call of strtok with the delimiter " ", starting at str.
strtok(str) ==
  LET start == FirstIn(str, NotSpace)       \* strspn: skip leading delimiters
      end == FirstIn(start, {" ", NUL})     \* strpbrk: end of the token
  IN TokenAt(start, end, NoToken)

(***************************************************************************)
(* Actions                                                                 *)
(***************************************************************************)
LineInit ==
  LET s == terminal_write(terminal_write(terminal_initialize, Banner), Prompt)
  IN /\ terminal_row = s.row /\ terminal_column = s.col /\ terminal_buffer = s.cells
     /\ home = s.row * VGA_WIDTH + s.col
     /\ command = [i \in Slots |-> JUNK]
     /\ buffer_index = 0
     /\ shift \in BOOLEAN
     /\ current_layout = "US"
     /\ phase = "input"
     /\ saved_token = NoToken
     /\ args = <<>>
     /\ typed = <<>>
     /\ plain = TRUE

Overrun(where) ==
  /\ phase' = where
  /\ UNCHANGED <<command, buffer_index, shift, current_layout, saved_token, args,
                 typed, home, plain, screenVars>>

Enter ==
  /\ phase = "input" /\ "enter" \in KEYS
  /\ IF buffer_index \notin Slots THEN Overrun("line_overrun")
     ELSE /\ command' = [command EXCEPT ![buffer_index] = NUL]
          /\ shift' = FALSE
          /\ phase' = "split"
          /\ UNCHANGED <<buffer_index, current_layout, saved_token, args, typed, home, plain, screenVars>>

EraseLast ==
  /\ buffer_index' = buffer_index - 1
  /\ typed' = SubSeq(typed, 1, Len(typed) - 1)

\* Variant: Backspace without its test for an empty line.
BackspaceUnguarded ==
  /\ phase = "input" /\ "bksp" \in KEYS
  /\ shift' = FALSE
  /\ EraseLast
  /\ Show(terminal_putchar(screen, BS))
  /\ UNCHANGED <<command, current_layout, phase, saved_token, args, home, plain>>

\* Variant: Backspace without its echo.
BackspaceSilent ==
  /\ phase = "input" /\ "bksp" \in KEYS
  /\ shift' = FALSE
  /\ IF buffer_index > 0 THEN EraseLast ELSE UNCHANGED <<buffer_index, typed>>
  /\ UNCHANGED <<command, current_layout, phase, saved_token, args, home, plain, screenVars>>

Backspace ==
  /\ phase = "input" /\ "bksp" \in KEYS
  /\ shift' = FALSE
  /\ IF buffer_index > 0
       THEN EraseLast /\ Show(terminal_putchar(screen, BS))
       ELSE UNCHANGED <<buffer_index, typed, screenVars>>
  /\ UNCHANGED <<command, current_layout, phase, saved_token, args, home, plain>>

EscapeOrCtrl ==
  /\ phase = "input" /\ KEYS \cap {"esc", "ctrl"} # {}
  /\ shift' = FALSE
  /\ UNCHANGED <<command, buffer_index, current_layout, phase, saved_token, args,
                 typed, home, plain, screenVars>>

ShiftKey ==
  /\ phase = "input" /\ KEYS \cap ShiftKeys # {}
  /\ shift' = TRUE
  /\ UNCHANGED <<command, buffer_index, current_layout, phase, saved_token, args,
                 typed, home, plain, screenVars>>

StoreAndEcho(c) ==
  /\ command' = [command EXCEPT ![buffer_index] = c]
  /\ buffer_index' = buffer_index + 1
  /\ Show(terminal_putchar(screen, c))
  /\ shift' = FALSE
  /\ typed' = Append(typed, c)
  /\ plain' = (plain /\ c \in Ink /\ Position + 1 < VGA_WIDTH * VGA_HEIGHT)
  /\ UNCHANGED <<current_layout, phase, saved_token, args, home>>

Character ==
  /\ phase = "input"
  /\ \E key \in KEYS \ {"none", "enter", "bksp", "esc", "ctrl", "lshift", "rshift"} :
       \E c \in Lookup(current_layout, shift, key) \cap Chars :
         IF buffer_index \in Slots THEN StoreAndEcho(c) ELSE Overrun("line_overrun")

\* One round of split_command's loop: the first call starts at the line, the
\* later ones where the previous call stopped.
Split ==
  /\ phase = "split"
  /\ LET t == IF args = <<>> THEN strtok(0)
              ELSE IF saved_token = NoToken
                THEN [token |-> NoToken, saved |-> NoToken, command |-> command]
              ELSE strtok(saved_token)
     IN IF t.token # NoToken /\ Len(args) = MAX_ARGS THEN Overrun("args_overrun")
        ELSE /\ command' = t.command
             /\ saved_token' = t.saved
             /\ args' = IF t.token = NoToken THEN args ELSE Append(args, t.token)
             /\ phase' = IF t.token = NoToken THEN "run" ELSE "split"
             /\ UNCHANGED <<buffer_index, shift, current_layout, typed, home, plain, screenVars>>

(***************************************************************************)
(* The commands                                                            *)
(***************************************************************************)
NextPrompt(s) ==
  LET p == terminal_write(s, Prompt)
  IN /\ Show(p)
     /\ home' = p.row * VGA_WIDTH + p.col
     /\ plain' = (p \in OnScreen)
     /\ buffer_index' = 0
     /\ args' = <<>>
     /\ typed' = <<>>
     /\ phase' = "input"
     /\ UNCHANGED <<command, saved_token>>

\* The screens a command may leave; an unknown command is answered with the C
\* string left in command.
Printed == {terminal_write(screen, reply) : reply \in Replies \cup {CStr(0)}}

\* strcmp with the first argument.
Runs(names) ==
  phase = "run" /\ args # <<>> /\ \E name \in names : CStr(args[1]) = Spelling[name]

\* The loop of the prompt is left, or not left again.
StopIn(where) ==
  /\ \E s \in Printed : Show(s)
  /\ phase' = where
  /\ UNCHANGED <<command, buffer_index, shift, current_layout, saved_token, args,
                 typed, home, plain>>

AnswerEmpty ==
  /\ phase = "run" /\ args = <<>>
  /\ NextPrompt(screen)
  /\ UNCHANGED <<shift, current_layout>>

\* help, cl, getkey, run (whose program is always empty) and unknown commands;
\* cl may change the layout.
AnswerCommand ==
  /\ phase = "run" /\ args # <<>> /\ ~Runs(DOMAIN Spelling)
  /\ \E s \in Printed : NextPrompt(s)
  /\ current_layout' \in {current_layout} \cup LAYOUT_RANGE
  /\ UNCHANGED shift

\* The byte at address 0 may change when the list of devices gets no memory
\* (see Disks); without a device the enumeration never ends (see PciScan).
ListDisks ==
  /\ Runs({"lsdisks"})
  /\ \/ /\ \E s \in Printed : NextPrompt(s)
        /\ shift' \in BOOLEAN
        /\ UNCHANGED current_layout
     \/ StopIn("hung")

\* Variant: the loop is not left.
PowerOffContinues ==
  /\ Runs({"reboot", "shutdown"})
  /\ \E s \in Printed : NextPrompt(s)
  /\ UNCHANGED <<shift, current_layout>>

\* Both try to power off, which may sleep for ever (see Acpi), and break.
PowerOff == Runs({"reboot", "shutdown"}) /\ (StopIn("halted") \/ StopIn("hung"))

StartEditor == Runs({"edit"}) /\ StopIn("edit")

\* The screens the editor may leave: its redraws set the cursor from its own,
\* which may be off the screen (see Editor).
EditorScreens ==
  {screen} \cup
  {[terminal_write(terminal_initialize, text) EXCEPT !.row = y, !.col = x] :
     text \in Replies, y \in 0 .. SIZE_T - 1, x \in 0 .. SIZE_T - 1}

LeaveEditor ==
  /\ phase = "edit"
  /\ \E s \in EditorScreens : \E text \in Replies : NextPrompt(terminal_write(s, text))
  /\ shift' = FALSE
  /\ UNCHANGED current_layout

Answer == AnswerEmpty \/ AnswerCommand \/ ListDisks \/ PowerOff \/ StartEditor

KeyStep == Enter \/ Backspace \/ EscapeOrCtrl \/ ShiftKey \/ Character

LineNext == KeyStep \/ Split \/ Answer \/ LeaveEditor

\* The kernel is one sequential program: a line that was entered is processed.
\* Nobody has to press a key, so the editor may be open for ever.
LineSpec == LineInit /\ [][LineNext]_lineVars /\ WF_lineVars(Split \/ Answer)

(***************************************************************************)
(* Properties                                                              *)
(***************************************************************************)
LineTypeOK ==
  /\ command \in [Slots -> Chars \cup {JUNK}]
  /\ buffer_index \in 0 .. CMD_SIZE
  /\ shift \in BOOLEAN
  /\ current_layout \in LAYOUTS
  /\ phase \in {"input", "split", "run", "edit", "halted", "hung", "line_overrun", "args_overrun"}
  /\ saved_token \in {NoToken} \cup Slots
  /\ Len(args) <= MAX_ARGS /\ \A i \in DOMAIN args : args[i] \in Slots

\* The places of a line that belong to words: no space, and no NUL up to there.
Inked(line) == {i \in DOMAIN line : line[i] # " " /\ \A j \in 1 .. i : line[j] # NUL}

\* Where the words of a line begin and end: its longest runs of such places.
Words(line) ==
  LET ink == Inked(line)
  IN {w \in ink \X ink : /\ w[1] <= w[2] /\ w[1] .. w[2] \subseteq ink
                         /\ w[1] - 1 \notin ink /\ w[2] + 1 \notin ink}

\* Where the C string at slot p begins and ends, as places of the line.
Word(p) == <<p + 1, FirstIn(p, {NUL})>>

(***************************************************************************)
(* When a command is about to run, its arguments are exactly the words the *)
(* user typed and did not erase, in order: nothing left in the array from  *)
(* an earlier, longer line, nothing uninitialised and nothing erased gets  *)
(* into them (kernel.c:156-202, 469-479, system.c:134-202).                *)
(***************************************************************************)
ArgsAreWords ==
  phase = "run" =>
    /\ {Word(args[i]) : i \in DOMAIN args} = Words(typed)
    /\ \A i \in DOMAIN args : CStr(args[i]) = SubSeq(typed, Word(args[i])[1], Word(args[i])[2])
    /\ \A i, j \in DOMAIN args : i < j => args[i] < args[j]

(***************************************************************************)
(* While a line is cut up strtok stays inside it: a call resumes one place *)
(* behind the delimiter it replaced, and with blanks at the end of the     *)
(* line neither it nor an argument steps over the terminating NUL into     *)
(* what earlier lines left (system.c:185-199).                             *)
(***************************************************************************)
SplitStaysInLine ==
  /\ phase = "split" => /\ saved_token <= buffer_index
                        /\ \A i \in DOMAIN args : args[i] < buffer_index
                        /\ command[buffer_index] = NUL
  /\ phase \in {"input", "run"} => saved_token = NoToken

(***************************************************************************)
(* What the user sees is what the line holds: as long as the echo has kept *)
(* to one run of cells (the prompt is on the screen, no character of the   *)
(* line was echoed as a newline or a backspace or in the last cell), the   *)
(* cells from the prompt to the cursor are the characters of the line      *)
(* (kernel.c:165-196).                                                     *)
(***************************************************************************)
EchoMatchesLine ==
  phase = "input" /\ plain =>
    /\ Position = home + buffer_index
    /\ \A i \in 0 .. buffer_index - 1 : terminal_buffer[home + i] = command[i]

(***************************************************************************)
(* Backspace cannot erase the prompt: while the echo has kept to one run   *)
(* of cells, no key changes what is on the screen before the line, except  *)
(* a key whose character is itself a backspace.  Once the echo has wrapped *)
(* to the top (kernel.c:104-106) or moved the cursor, earlier output is    *)
(* overwritten (kernel.c:156-202).                                         *)
(***************************************************************************)
PromptKept ==
  [][phase = "input" /\ phase' = "input" /\ plain /\ typed' # Append(typed, BS) =>
       \A i \in 0 .. home - 1 : terminal_buffer'[i] = terminal_buffer[i]]_lineVars

\* The first word of the line, as the user typed it.
FirstWord ==
  IF Words(typed) = {} THEN <<>>
  ELSE LET w == CHOOSE w \in Words(typed) : \A v \in Words(typed) : w[1] <= v[1]
       IN SubSeq(typed, w[1], w[2])

(***************************************************************************)
(* A line that was entered is answered and the prompt comes back, unless   *)
(* it has more words than args has room for (kernel.c:473-476) or its      *)
(* command is edit, lsdisks, reboot or shutdown.  After reboot and         *)
(* shutdown no prompt follows: the loop is left, or the power-off waits    *)
(* for ever (kernel.c:558-583).                                            *)
(***************************************************************************)
LineIsAnswered ==
  /\ (phase = "split" /\ \A name \in DOMAIN Spelling : FirstWord # Spelling[name])
       ~> phase \in {"input", "args_overrun"}
  /\ (phase = "split" /\ FirstWord \in {Spelling["reboot"], Spelling["shutdown"]})
       ~> [](phase \in {"halted", "hung", "args_overrun"})
=============================================================================
