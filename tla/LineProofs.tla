----------------------------- MODULE LineProofs -----------------------------
(***************************************************************************)
(* Proofs about the command line, for every size of the screen, the line   *)
(* and the argument array, every set of keys and every text that commands  *)
(* print: strtok stays inside the line, what is on the screen is what is   *)
(* in the line, and the arguments are the words that were typed.           *)
(***************************************************************************)
EXTENDS LineInput, ScreenProofs

(***************************************************************************)
(* The inductive invariant.  While keys are read the line has no junk      *)
(* before buffer_index; while it is cut up it ends with a NUL there, which *)
(* no call of strtok moves or passes.                                      *)
(***************************************************************************)
LineOpen == phase = "input" => args = <<>> /\ saved_token = NoToken

LineClosed ==
  phase \in {"split", "run"} =>
    /\ buffer_index \in Slots /\ command[buffer_index] = NUL
    /\ saved_token <= buffer_index
    /\ \A i \in DOMAIN args : args[i] < buffer_index

LineFilled ==
  phase \in {"input", "split", "run"} =>
    \A i \in Slots : i < buffer_index => command[i] \in Chars

TypeInv ==
  /\ command \in [Slots -> Chars \cup {JUNK}]
  /\ buffer_index \in 0 .. CMD_SIZE
  /\ shift \in BOOLEAN
  /\ current_layout \in LAYOUTS
  /\ phase \in {"input", "split", "run", "edit", "halted", "hung", "line_overrun", "args_overrun"}
  /\ saved_token \in {NoToken} \cup Slots
  /\ args \in Seq(Slots) /\ Len(args) <= MAX_ARGS

SplitInv ==
  /\ TypeInv
  /\ LineOpen /\ LineClosed /\ LineFilled
  /\ phase \in {"run", "edit"} => saved_token = NoToken

EchoInv ==
  /\ phase = "input" /\ plain => screen \in OnScreen /\ home \in Nat
  /\ EchoMatchesLine

LineInv == SplitInv /\ EchoInv

----------------------------------------------------------------------------
(* Constants *)

LEMMA LineSizes == CMD_SIZE \in Nat /\ CMD_SIZE > 0 /\ MAX_ARGS \in Nat /\ MAX_ARGS > 0
BY LineAssumption

LEMMA LineNumbers == NUL \in Chars /\ NUL # " " /\ NoToken \notin Slots
BY LineAssumption DEF Chars, NUL, NoToken, Slots

LEMMA SlotIs ==
  /\ CMD_SIZE \in Nat
  /\ \A k \in Slots : k \in Nat /\ k < CMD_SIZE
  /\ \A k \in Nat : k < CMD_SIZE => k \in Slots
<1>1. CMD_SIZE \in Nat
  BY LineAssumption
<1> QED BY <1>1 DEF Slots

----------------------------------------------------------------------------
(* strtok *)

\* The search finds the first slot that holds a character of C, if one does.
LEMMA FirstInSound ==
  ASSUME NEW p \in Slots, NEW C, NEW last \in Slots, p <= last, command[last] \in C
  PROVE  /\ FirstIn(p, C) \in p .. last
         /\ command[FirstIn(p, C)] \in C
         /\ \A r \in p .. FirstIn(p, C) - 1 : command[r] \notin C
<1> DEFINE Hits == {q \in p .. last : command[q] \in C}
           Is(q) == q >= p /\ command[q] \in C /\ \A r \in p .. q - 1 : command[r] \notin C
<1>1. p \in Nat /\ last \in Nat /\ last \in Hits /\ Hits \in SUBSET Nat
  BY DEF Slots
<1>2. PICK m \in Hits : \A k \in Hits : m <= k
  BY <1>1, LeastElement
<1>3. m \in Slots /\ Is(m) /\ m <= last
  <2>1. m \in p .. last /\ command[m] \in C
    OBVIOUS
  <2>2. m \in Slots
    BY <1>1, <2>1, SlotIs
  <2>3. ASSUME NEW r \in p .. m - 1, command[r] \in C
        PROVE  FALSE
    <3>1. r \in Hits /\ r < m
      BY <1>1, <2>1, <2>3
    <3> QED BY <1>1, <1>2, <2>1, <3>1
  <2> QED BY <1>1, <2>1, <2>2, <2>3
<1>4. FirstIn(p, C) = CHOOSE q \in Slots : Is(q)
  BY DEF FirstIn
<1>5. FirstIn(p, C) \in Slots /\ Is(FirstIn(p, C))
  <2> HIDE DEF Is
  <2> QED BY <1>3, <1>4
<1>6. FirstIn(p, C) <= last
  BY <1>1, <1>5 DEF Slots
<1> QED BY <1>5, <1>6 DEF Slots

\* A call of strtok that starts inside the line leaves its token, its saved
\* pointer and the end of the line inside it (system.c:134-202).
LEMMA StrtokSound ==
  ASSUME command \in [Slots -> Chars \cup {JUNK}],
         NEW last \in Slots, command[last] = NUL,
         NEW str \in Slots, str <= last
  PROVE  LET t == strtok(str)
         IN /\ t.command \in [Slots -> Chars \cup {JUNK}]
            /\ t.command[last] = NUL
            /\ \A i \in Slots : command[i] \in Chars => t.command[i] \in Chars
            /\ t.saved \in {NoToken} \cup Slots /\ t.saved <= last
            /\ t.token \in {NoToken} \cup Slots /\ t.token < last
            /\ t.token = NoToken => t.saved = NoToken
<1> DEFINE start == FirstIn(str, NotSpace)
           end == FirstIn(start, {" ", NUL})
<1>1. NUL \in NotSpace
  BY LineNumbers DEF NotSpace
<1>2. start \in Slots /\ start \in str .. last
  <2>1. start \in str .. last
    BY <1>1, FirstInSound
  <2> QED BY <2>1, SlotIs
<1>3. end \in Slots /\ end \in start .. last
  <2>1. start <= last /\ command[last] \in {" ", NUL}
    BY <1>2, SlotIs
  <2>2. end \in start .. last
    BY <1>2, <2>1, FirstInSound
  <2> HIDE DEF start, end
  <2> QED BY <1>2, <2>2, SlotIs
<1> HIDE DEF start, end
<1>4. strtok(str) = TokenAt(start, end, NoToken)
  BY DEF strtok, start, end
<1>5. NoToken < last /\ NoToken <= last
  BY SlotIs DEF NoToken
<1>6. CASE command[start] = NUL
  <2>1. strtok(str) = [token |-> NoToken, saved |-> NoToken, command |-> command]
    BY <1>4, <1>6 DEF TokenAt
  <2> QED BY <1>5, <2>1
<1>7. CASE command[start] # NUL /\ command[end] = NUL
  <2>1. start < last
    BY <1>2, <1>7, SlotIs
  <2>2. strtok(str) = [token |-> start, saved |-> NoToken, command |-> command]
    BY <1>4, <1>7 DEF TokenAt
  <2> QED BY <1>2, <1>5, <2>1, <2>2
<1>8. CASE command[start] # NUL /\ command[end] # NUL
  <2>1. start < last /\ end < last /\ end + 1 \in Slots /\ end + 1 <= last
    BY <1>2, <1>3, <1>8, SlotIs
  <2>2. strtok(str) = [token |-> start, saved |-> end + 1, command |-> [command EXCEPT ![end] = NUL]]
    BY <1>4, <1>8 DEF TokenAt
  <2>3. [command EXCEPT ![end] = NUL] \in [Slots -> Chars \cup {JUNK}]
    BY LineNumbers
  <2>4. \A i \in Slots : [command EXCEPT ![end] = NUL][i] = IF i = end THEN NUL ELSE command[i]
    OBVIOUS
  <2>5. strtok(str).command[last] = NUL
    BY <2>1, <2>2, <2>4
  <2>6. \A i \in Slots : command[i] \in Chars => strtok(str).command[i] \in Chars
    <3>1. NUL \in Chars
      BY LineNumbers
    <3> QED BY <2>2, <2>4, <3>1
  <2>7. start # NoToken /\ start < last /\ start \in Slots
    BY <1>2, <2>1, LineNumbers
  <2> QED BY <2>1, <2>2, <2>3, <2>5, <2>6, <2>7
<1> QED BY <1>6, <1>7, <1>8

----------------------------------------------------------------------------
(* The line: every step keeps SplitInv *)

LEMMA KeyKeepsSplitInv ==
  ASSUME SplitInv, KeyStep
  PROVE  SplitInv'
<1> USE DEF SplitInv, TypeInv, LineOpen, LineClosed, LineFilled
<1>0. phase = "input" /\ phase # "split" /\ phase # "run"
  BY DEF KeyStep, Enter, Backspace, EscapeOrCtrl, ShiftKey, Character
<1>1. ASSUME NEW where \in {"line_overrun", "args_overrun"}, Overrun(where)
      PROVE  SplitInv'
  BY <1>1 DEF Overrun
<1>2. CASE Enter
  <2>1. CASE buffer_index \in Slots
    <3>1. /\ command' = [command EXCEPT ![buffer_index] = NUL] /\ phase' = "split" /\ shift' = FALSE
          /\ UNCHANGED <<buffer_index, current_layout, saved_token, args>>
      BY <1>2, <2>1 DEF Enter
    <3>2. command' \in [Slots -> Chars \cup {JUNK}] /\ command'[buffer_index] = NUL
      BY <2>1, <3>1, LineNumbers
    <3>3. \A k \in Slots : k < buffer_index => command'[k] \in Chars
      <4> SUFFICES ASSUME NEW k \in Slots, k < buffer_index PROVE command'[k] \in Chars
        OBVIOUS
      <4>1. k # buffer_index
        BY <2>1, SlotIs
      <4> QED BY <1>0, <3>1, <4>1
    <3>4. saved_token' <= buffer_index' /\ args' = <<>>
      BY <1>0, <2>1, <3>1, SlotIs DEF NoToken
    <3>5. LineClosed' /\ LineFilled' /\ LineOpen'
      BY <2>1, <3>1, <3>2, <3>3, <3>4
    <3>6. TypeInv'
      BY <3>1, <3>2
    <3> QED BY <3>1, <3>5, <3>6
  <2>2. CASE buffer_index \notin Slots
    BY <1>1, <1>2, <2>2 DEF Enter
  <2> QED BY <2>1, <2>2
<1>3. CASE Backspace
  <2>1. UNCHANGED <<command, current_layout, phase, saved_token, args>> /\ shift' = FALSE
        /\ buffer_index' \in {buffer_index, buffer_index - 1}
        /\ (buffer_index' = buffer_index - 1 => buffer_index > 0)
    BY <1>3, LineSizes DEF Backspace, EraseLast
  <2>2. buffer_index' \in 0 .. CMD_SIZE /\ buffer_index' <= buffer_index
    BY <2>1, LineSizes
  <2>3. \A k \in Slots : k < buffer_index' => command'[k] \in Chars
    BY <1>0, <2>1, <2>2, SlotIs
  <2> QED BY <1>0, <2>1, <2>2, <2>3
<1>4. CASE EscapeOrCtrl \/ ShiftKey
  BY <1>4 DEF EscapeOrCtrl, ShiftKey
<1>5. CASE Character
  <2>1. PICK c \in Chars : IF buffer_index \in Slots THEN StoreAndEcho(c) ELSE Overrun("line_overrun")
    BY <1>5 DEF Character
  <2>2. CASE buffer_index \in Slots
    <3>1. /\ command' = [command EXCEPT ![buffer_index] = c] /\ buffer_index' = buffer_index + 1
          /\ shift' = FALSE /\ UNCHANGED <<current_layout, phase, saved_token, args>>
      BY <2>1, <2>2 DEF StoreAndEcho
    <3>2. command' \in [Slots -> Chars \cup {JUNK}]
      BY <3>1
    <3>3. buffer_index' \in 0 .. CMD_SIZE
      BY <2>2, <3>1, SlotIs
    <3>4. \A k \in Slots : k < buffer_index' => command'[k] \in Chars
      <4> SUFFICES ASSUME NEW k \in Slots, k < buffer_index + 1 PROVE command'[k] \in Chars
        BY <3>1
      <4>1. CASE k = buffer_index
        BY <3>1, <4>1
      <4>2. CASE k # buffer_index
        <5>1. k < buffer_index
          BY <2>2, <4>2, SlotIs
        <5> QED BY <1>0, <3>1, <4>2, <5>1
      <4> QED BY <4>1, <4>2
    <3> QED BY <1>0, <3>1, <3>2, <3>3, <3>4
  <2>3. CASE buffer_index \notin Slots
    BY <1>1, <2>1, <2>3
  <2> QED BY <2>2, <2>3
<1> QED BY <1>2, <1>3, <1>4, <1>5 DEF KeyStep

\* One call of strtok: the next word, or the end of the line.
LEMMA SplitKeepsSplitInv ==
  ASSUME SplitInv, Split
  PROVE  SplitInv'
<1>1. /\ phase = "split" /\ buffer_index \in Slots /\ command[buffer_index] = NUL
      /\ saved_token <= buffer_index /\ saved_token \in {NoToken} \cup Slots
      /\ command \in [Slots -> Chars \cup {JUNK}]
      /\ args \in Seq(Slots) /\ Len(args) <= MAX_ARGS
      /\ \A k \in DOMAIN args : args[k] < buffer_index
      /\ \A k \in Slots : k < buffer_index => command[k] \in Chars
  BY DEF Split, SplitInv, TypeInv, LineClosed, LineFilled
<1> DEFINE t == IF args = <<>> THEN strtok(0)
                ELSE IF saved_token = NoToken
                  THEN [token |-> NoToken, saved |-> NoToken, command |-> command]
                ELSE strtok(saved_token)
<1>2. /\ t.command \in [Slots -> Chars \cup {JUNK}]
      /\ t.command[buffer_index] = NUL
      /\ \A k \in Slots : command[k] \in Chars => t.command[k] \in Chars
      /\ t.saved \in {NoToken} \cup Slots /\ t.saved <= buffer_index
      /\ t.token \in {NoToken} \cup Slots /\ t.token < buffer_index
      /\ t.token = NoToken => t.saved = NoToken
  <2>1. CASE args = <<>>
    <3>1. 0 \in Slots /\ 0 <= buffer_index
      BY <1>1, SlotIs
    <3> QED BY <1>1, <2>1, <3>1, StrtokSound
  <2>2. CASE args # <<>> /\ saved_token = NoToken
    <3>1. NoToken <= buffer_index /\ NoToken < buffer_index
      BY <1>1, SlotIs DEF NoToken
    <3> QED BY <1>1, <2>2, <3>1
  <2>3. CASE args # <<>> /\ saved_token # NoToken
    BY <1>1, <2>3, StrtokSound
  <2> QED BY <2>1, <2>2, <2>3
<1>3. \/ Overrun("args_overrun")
      \/ /\ t.token = NoToken \/ Len(args) # MAX_ARGS
         /\ command' = t.command /\ saved_token' = t.saved
         /\ args' = IF t.token = NoToken THEN args ELSE Append(args, t.token)
         /\ phase' = IF t.token = NoToken THEN "run" ELSE "split"
         /\ UNCHANGED <<buffer_index, shift, current_layout>>
  BY Zenon DEF Split
<1> HIDE DEF t
<1>4. CASE Overrun("args_overrun")
  BY <1>4 DEF Overrun, SplitInv, TypeInv, LineOpen, LineClosed, LineFilled
<1>5. CASE ~Overrun("args_overrun")
  <2>1. /\ args' \in Seq(Slots) /\ Len(args') <= MAX_ARGS
        /\ \A k \in DOMAIN args' : args'[k] < buffer_index
    <3>1. CASE t.token = NoToken
      BY <1>1, <1>3, <1>5, <3>1
    <3>2. CASE t.token # NoToken
      <4>1. args' = Append(args, t.token) /\ t.token \in Slots /\ Len(args) # MAX_ARGS
        BY <1>2, <1>3, <1>5, <3>2
      <4>2. /\ Len(args') = Len(args) + 1 /\ Len(args) \in Nat
            /\ \A k \in 1 .. Len(args) : args'[k] = args[k]
            /\ args'[Len(args) + 1] = t.token /\ args' \in Seq(Slots)
        BY <1>1, <4>1
      <4>3. \A k \in DOMAIN args' : args'[k] < buffer_index
        <5> SUFFICES ASSUME NEW k \in 1 .. Len(args) + 1 PROVE args'[k] < buffer_index
          BY <4>2
        <5>1. CASE k \in 1 .. Len(args)
          BY <1>1, <4>2, <5>1
        <5>2. CASE k = Len(args) + 1
          BY <1>2, <4>2, <5>2
        <5> QED BY <4>2, <5>1, <5>2
      <4>4. Len(args') <= MAX_ARGS
        BY <1>1, <4>1, <4>2, LineSizes
      <4> QED BY <4>2, <4>3, <4>4
    <3> QED BY <3>1, <3>2
  <2>2. /\ command' \in [Slots -> Chars \cup {JUNK}] /\ command'[buffer_index'] = NUL
        /\ saved_token' \in {NoToken} \cup Slots /\ saved_token' <= buffer_index'
        /\ phase' \in {"run", "split"} /\ buffer_index' = buffer_index
        /\ phase' = "run" => saved_token' = NoToken
    BY <1>2, <1>3, <1>5
  <2>3. \A k \in Slots : k < buffer_index' => command'[k] \in Chars
    BY <1>1, <1>2, <1>3, <1>5
  <2>4. shift' \in BOOLEAN /\ current_layout' \in LAYOUTS /\ buffer_index' \in 0 .. CMD_SIZE
    BY <1>3, <1>5 DEF SplitInv, TypeInv
  <2> QED BY <1>1, <2>1, <2>2, <2>3, <2>4 DEF SplitInv, TypeInv, LineOpen, LineClosed, LineFilled
<1> QED BY <1>4, <1>5

LEMMA PromptKeepsSplitInv ==
  ASSUME SplitInv, phase \in {"run", "edit"}, NEW s, NextPrompt(s),
         shift' \in BOOLEAN, current_layout' \in LAYOUTS
  PROVE  SplitInv'
<1>1. buffer_index' = 0 /\ args' = <<>> /\ phase' = "input" /\ UNCHANGED <<command, saved_token>>
  BY DEF NextPrompt
<1>2. 0 \in 0 .. CMD_SIZE /\ <<>> \in Seq(Slots) /\ Len(<<>>) <= MAX_ARGS
  BY LineSizes
<1>3. \A k \in Slots : ~(k < 0)
  BY SlotIs
<1> QED BY <1>1, <1>2, <1>3 DEF SplitInv, TypeInv, LineOpen, LineClosed, LineFilled

LEMMA StopKeepsSplitInv ==
  ASSUME SplitInv, phase = "run", NEW where \in {"edit", "halted", "hung"}, StopIn(where)
  PROVE  SplitInv'
<1>1. /\ phase' = where
      /\ UNCHANGED <<command, buffer_index, shift, current_layout, saved_token, args>>
  BY DEF StopIn
<1> QED BY <1>1 DEF SplitInv, TypeInv, LineOpen, LineClosed, LineFilled

\* What a command or the editor leads to: a prompt, or no more lines.
LEMMA AnswerLeads ==
  ASSUME SplitInv, Answer \/ LeaveEditor
  PROVE  \/ /\ phase \in {"run", "edit"} /\ shift' \in BOOLEAN /\ current_layout' \in LAYOUTS
            /\ \E s : NextPrompt(s)
         \/ phase = "run" /\ \E where \in {"edit", "halted", "hung"} : StopIn(where)
<1>1. shift \in BOOLEAN /\ current_layout \in LAYOUTS /\ LAYOUT_RANGE \subseteq LAYOUTS
  BY LineAssumption DEF SplitInv, TypeInv
<1>2. CASE AnswerEmpty \/ LeaveEditor
  BY <1>1, <1>2 DEF AnswerEmpty, LeaveEditor
<1>3. CASE AnswerCommand
  BY <1>1, <1>3 DEF AnswerCommand
<1>4. CASE ListDisks \/ PowerOff \/ StartEditor
  BY <1>1, <1>4 DEF ListDisks, PowerOff, StartEditor, Runs
<1> QED BY <1>2, <1>3, <1>4 DEF Answer

LEMMA AnswerKeepsSplitInv ==
  ASSUME SplitInv, Answer \/ LeaveEditor
  PROVE  SplitInv'
BY AnswerLeads, PromptKeepsSplitInv, StopKeepsSplitInv

----------------------------------------------------------------------------
(* The screen: every step keeps EchoInv *)

LEMMA PositionNat ==
  ASSUME NEW s \in OnScreen
  PROVE  PositionOf(s) \in Nat
<1>1. s.row \in Nat /\ s.col \in Nat /\ VGA_WIDTH \in Nat
  BY SizeAssumption DEF OnScreen
<1> QED BY <1>1 DEF PositionOf

LEMMA ShownPosition ==
  ASSUME NEW s \in OnScreen, Show(s)
  PROVE  screen' \in OnScreen /\ Position' = PositionOf(s) /\ terminal_buffer' = s.cells
BY DEF Show, screen, Position, PositionOf, OnScreen

LEMMA ScreenPosition ==
  /\ Position = PositionOf(screen) /\ terminal_buffer = screen.cells
  /\ terminal_row = screen.row /\ terminal_column = screen.col
BY DEF screen, Position, PositionOf

\* The line begins where the prompt ends.
LEMMA AtPrompt ==
  ASSUME NEW s, NextPrompt(s)
  PROVE  EchoInv'
<1> DEFINE p == terminal_write(s, Prompt)
<1>1. Show(p) /\ home' = PositionOf(p) /\ buffer_index' = 0 /\ plain' = (p \in OnScreen)
  BY DEF NextPrompt, PositionOf
<1> HIDE DEF p
<1> SUFFICES ASSUME plain' PROVE EchoInv'
  BY DEF EchoInv, EchoMatchesLine
<1>2. home' \in Nat /\ Position' = home' /\ screen' \in OnScreen
  BY <1>1, PositionNat, ShownPosition
<1>3. Position' = home' + buffer_index'
  BY <1>1, <1>2
<1>4. \A k \in 0 .. buffer_index' - 1 : FALSE
  BY <1>1
<1> QED BY <1>2, <1>3, <1>4 DEF EchoInv, EchoMatchesLine

\* Backspace takes the character and its echo away (kernel.c:166-171).
LEMMA BackspaceEcho ==
  ASSUME LineInv, Backspace
  PROVE  /\ EchoInv'
         /\ plain => \A k \in 0 .. home - 1 : terminal_buffer'[k] = terminal_buffer[k]
<1> SUFFICES ASSUME plain
             PROVE  EchoInv' /\ \A k \in 0 .. home - 1 : terminal_buffer'[k] = terminal_buffer[k]
  BY DEF Backspace, EchoInv, EchoMatchesLine
<1>1. phase = "input" /\ buffer_index \in Nat /\ home \in Nat /\ screen \in OnScreen
      /\ UNCHANGED <<command, phase, home, plain>>
  BY LineSizes DEF Backspace, LineInv, SplitInv, TypeInv, EchoInv
<1>2. CASE buffer_index > 0
  <2> DEFINE s == putBackspace(screen)
  <2>1. buffer_index' = buffer_index - 1 /\ Show(s)
    BY <1>2 DEF Backspace, EraseLast, terminal_putchar, NL, BS
  <2>2. s \in OnScreen
    BY <1>1, BackspaceStep
  <2>3. screen' \in OnScreen /\ Position' = PositionOf(s) /\ terminal_buffer' = s.cells
    BY <2>1, <2>2, ShownPosition
  <2>4. ASSUME plain
        PROVE  /\ Position = home + buffer_index /\ PositionOf(s) = Position - 1
               /\ s.cells = [terminal_buffer EXCEPT ![Position - 1] = Blank]
               /\ \A k \in 0 .. buffer_index - 1 : terminal_buffer[home + k] = command[k]
    <3>1. Position = home + buffer_index
          /\ \A k \in 0 .. buffer_index - 1 : terminal_buffer[home + k] = command[k]
      BY <1>1, <2>4 DEF LineInv, EchoInv, EchoMatchesLine
    <3>2. PositionOf(screen) # 0
      BY <1>1, <1>2, <3>1, ScreenPosition
    <3> QED BY <1>1, <3>1, <3>2, BackspaceStep, ScreenPosition
  <2> HIDE DEF s
  <2>5. ASSUME plain
        PROVE  /\ Position' = home' + buffer_index'
               /\ \A k \in 0 .. buffer_index' - 1 : terminal_buffer'[home' + k] = command'[k]
               /\ \A k \in 0 .. home - 1 : terminal_buffer'[k] = terminal_buffer[k]
    <3>1. /\ Position = home + buffer_index /\ PositionOf(s) = Position - 1
          /\ s.cells = [terminal_buffer EXCEPT ![Position - 1] = Blank]
          /\ \A k \in 0 .. buffer_index - 1 : terminal_buffer[home + k] = command[k]
      BY <2>4, <2>5
    <3>2. \A k : k # Position - 1 => terminal_buffer'[k] = terminal_buffer[k]
      <4>1. terminal_buffer' = [terminal_buffer EXCEPT ![Position - 1] = Blank]
        BY <2>3, <3>1
      <4>2. DOMAIN terminal_buffer' = DOMAIN terminal_buffer
        BY <4>1
      <4> QED BY <4>1, <4>2
    <3>3. \A k \in 0 .. buffer_index - 2 : terminal_buffer'[home + k] = terminal_buffer[home + k]
      BY <1>1, <3>1, <3>2
    <3>4. \A k \in 0 .. home - 1 : terminal_buffer'[k] = terminal_buffer[k]
      BY <1>1, <1>2, <3>1, <3>2
    <3>5. Position' = home + (buffer_index - 1)
      BY <1>1, <2>3, <3>1
    <3> QED BY <1>1, <2>1, <3>1, <3>3, <3>4, <3>5
  <2> QED BY <1>1, <2>3, <2>5 DEF EchoInv, EchoMatchesLine
<1>3. CASE ~(buffer_index > 0)
  <2>1. UNCHANGED <<buffer_index, terminal_row, terminal_column, terminal_buffer>>
    BY <1>3 DEF Backspace, screenVars
  <2> QED BY <1>1, <2>1 DEF LineInv, EchoInv, EchoMatchesLine, screen, Position
<1> QED BY <1>2, <1>3

\* A character is stored and shown at the same place of the line, and unless
\* it is a backspace it changes nothing before the line.
LEMMA CharacterEcho ==
  ASSUME LineInv, phase = "input", buffer_index \in Slots, NEW c \in Chars, StoreAndEcho(c)
  PROVE  /\ EchoInv'
         /\ plain /\ c # BS => \A k \in 0 .. home - 1 : terminal_buffer'[k] = terminal_buffer[k]
<1> DEFINE s == terminal_putchar(screen, c)
<1> SUFFICES ASSUME plain
             PROVE  /\ EchoInv'
                    /\ c # BS => \A k \in 0 .. home - 1 : terminal_buffer'[k] = terminal_buffer[k]
  <2>1. plain' => plain
    BY DEF StoreAndEcho
  <2> QED BY <2>1 DEF EchoInv, EchoMatchesLine
<1>1. /\ buffer_index \in Nat /\ home \in Nat /\ screen \in OnScreen /\ Show(s)
      /\ UNCHANGED <<phase, home>> /\ buffer_index' = buffer_index + 1
      /\ command \in [Slots -> Chars \cup {JUNK}]
      /\ command' = [command EXCEPT ![buffer_index] = c]
      /\ plain' = (plain /\ c \in Ink /\ Position + 1 < VGA_WIDTH * VGA_HEIGHT)
  BY SlotIs DEF StoreAndEcho, LineInv, SplitInv, TypeInv, EchoInv
<1>2. s \in OnScreen
  BY <1>1, PutCharOnScreen
<1>3. screen' \in OnScreen /\ Position' = PositionOf(s) /\ terminal_buffer' = s.cells
  BY <1>1, <1>2, ShownPosition
<1>4. ASSUME plain'
      PROVE  /\ Position' = home' + buffer_index'
             /\ \A k \in 0 .. buffer_index' - 1 : terminal_buffer'[home' + k] = command'[k]
  <2>1. plain /\ c \in Ink /\ Position + 1 < VGA_WIDTH * VGA_HEIGHT
    BY <1>1, <1>4
  <2>2. Position = home + buffer_index
        /\ \A k \in 0 .. buffer_index - 1 : terminal_buffer[home + k] = command[k]
    BY <2>1 DEF LineInv, EchoInv, EchoMatchesLine
  <2>3. c # NL /\ c # BS
    BY <2>1, InkAssumption DEF NL, BS
  <2>4. s = putInk(screen, c)
    BY <2>3 DEF terminal_putchar
  <2>5. Position + 1 # VGA_WIDTH * VGA_HEIGHT
    BY <1>1, <2>1, <2>2, SizeAssumption
  <2>6. PositionOf(s) = Position + 1 /\ s.cells = [terminal_buffer EXCEPT ![Position] = c]
    <3>1. PositionOf(screen) + 1 # VGA_WIDTH * VGA_HEIGHT
      BY <2>5, ScreenPosition
    <3>2. PositionOf(putInk(screen, c)) = PositionOf(screen) + 1
          /\ putInk(screen, c).cells = [screen.cells EXCEPT ![PositionOf(screen)] = c]
      BY <1>1, <2>1, <3>1, InkStep
    <3> QED BY <2>4, <3>2, ScreenPosition
  <2> HIDE DEF s
  <2>7. terminal_buffer' = [terminal_buffer EXCEPT ![home + buffer_index] = c]
        /\ Position' = home + buffer_index + 1
    BY <1>3, <2>2, <2>6
  <2>8. home + buffer_index \in DOMAIN terminal_buffer
    <3>1. PositionOf(screen) \in Cells /\ DOMAIN screen.cells = Cells
      BY <1>1, <2>1, PutEntryAtCursor DEF OnScreen
    <3> QED BY <2>2, <3>1, ScreenPosition
  <2>9. /\ terminal_buffer'[home + buffer_index] = c
        /\ \A k \in Int : k # home + buffer_index => terminal_buffer'[k] = terminal_buffer[k]
    BY <2>7, <2>8
  <2>10. command'[buffer_index] = c /\ \A k \in Slots : k # buffer_index => command'[k] = command[k]
    BY <1>1
  <2>11. ASSUME NEW k \in 0 .. buffer_index
         PROVE  terminal_buffer'[home + k] = command'[k]
    <3>1. CASE k = buffer_index
      BY <2>9, <2>10, <3>1
    <3>2. CASE k # buffer_index
      <4>1. k \in 0 .. buffer_index - 1 /\ k \in Slots /\ home + k # home + buffer_index /\ home + k \in Int
        BY <1>1, <3>2, SlotIs
      <4> QED BY <2>2, <2>9, <2>10, <3>2, <4>1
    <3> QED BY <3>1, <3>2
  <2> QED BY <1>1, <2>7, <2>9, <2>11
<1>5. ASSUME c # BS
      PROVE  \A k \in 0 .. home - 1 : terminal_buffer'[k] = terminal_buffer[k]
  <2>1. CASE c = NL
    <3>1. s = putNewline(screen)
      BY <2>1 DEF terminal_putchar
    <3>2. s.cells = screen.cells
      BY <1>1, <3>1, NewlineStep
    <3> QED BY <1>3, <3>2, ScreenPosition
  <2>2. CASE c # NL
    <3>1. c \in Ink /\ s = putInk(screen, c)
      BY <1>5, <2>2 DEF terminal_putchar, Chars
    <3>2. s.cells = [screen.cells EXCEPT ![PositionOf(screen)] = c]
      BY <1>1, <3>1, InkStep
    <3> HIDE DEF s
    <3>3. terminal_buffer' = [terminal_buffer EXCEPT ![Position] = c]
      BY <1>3, <3>2, ScreenPosition
    <3>4. Position = home + buffer_index
      BY DEF LineInv, EchoInv, EchoMatchesLine
    <3> SUFFICES ASSUME NEW k \in 0 .. home - 1 PROVE terminal_buffer'[k] = terminal_buffer[k]
      OBVIOUS
    <3>5. k # Position
      BY <1>1, <3>4
    <3>6. k \in DOMAIN terminal_buffer
      <4>1. PositionOf(screen) \in Cells /\ DOMAIN screen.cells = Cells
        BY <1>1, <3>1, PutEntryAtCursor DEF OnScreen
      <4>2. k \in 0 .. Position /\ Position \in Cells /\ DOMAIN terminal_buffer = Cells
        BY <1>1, <3>4, <4>1, ScreenPosition
      <4>3. VGA_WIDTH * VGA_HEIGHT \in Nat
        BY SizeAssumption
      <4> QED BY <4>2, <4>3 DEF Cells
    <3> QED BY <3>3, <3>5, <3>6
  <2> QED BY <2>1, <2>2
<1> QED BY <1>1, <1>3, <1>4, <1>5 DEF EchoInv, EchoMatchesLine

LEMMA KeyKeepsEcho ==
  ASSUME LineInv, KeyStep
  PROVE  /\ EchoInv'
         /\ phase' = "input" /\ plain /\ typed' # Append(typed, BS)
              => \A k \in 0 .. home - 1 : terminal_buffer'[k] = terminal_buffer[k]
<1>1. ASSUME UNCHANGED <<home, plain, screenVars>>,
             phase' # "input" \/ UNCHANGED <<phase, command, buffer_index>>
      PROVE  /\ EchoInv'
             /\ \A k \in 0 .. home - 1 : terminal_buffer'[k] = terminal_buffer[k]
  BY <1>1 DEF LineInv, EchoInv, EchoMatchesLine, screenVars, screen, Position
<1>2. ASSUME NEW where \in {"line_overrun", "args_overrun"}, Overrun(where)
      PROVE  phase' # "input" /\ UNCHANGED <<home, plain, screenVars>>
  BY <1>2 DEF Overrun
<1>3. CASE Enter
  BY <1>1, <1>2, <1>3 DEF Enter
<1>4. CASE EscapeOrCtrl \/ ShiftKey
  BY <1>1, <1>4 DEF EscapeOrCtrl, ShiftKey
<1>5. CASE Character
  <2>1. PICK c \in Chars : IF buffer_index \in Slots THEN StoreAndEcho(c) ELSE Overrun("line_overrun")
    BY <1>5 DEF Character
  <2>2. phase = "input"
    BY <1>5 DEF Character
  <2>3. CASE buffer_index \in Slots
    <3>1. StoreAndEcho(c) /\ typed' = Append(typed, c)
      BY <2>1, <2>3 DEF StoreAndEcho
    <3> QED BY <2>2, <2>3, <3>1, CharacterEcho
  <2>4. CASE buffer_index \notin Slots
    BY <1>1, <1>2, <2>1, <2>4
  <2> QED BY <2>3, <2>4
<1> QED BY <1>3, <1>4, <1>5, BackspaceEcho DEF KeyStep

LEMMA AnswerKeepsEcho ==
  ASSUME LineInv, Answer \/ LeaveEditor
  PROVE  EchoInv'
<1>1. CASE \E s : NextPrompt(s)
  BY <1>1, AtPrompt
<1>2. CASE \E where \in {"edit", "halted", "hung"} : StopIn(where)
  BY <1>2 DEF StopIn, EchoInv, EchoMatchesLine
<1> QED BY <1>1, <1>2, AnswerLeads DEF LineInv

----------------------------------------------------------------------------
(* The arguments are the words of the line *)

(***************************************************************************)
(* What strtok has yet to see starts at Rest: it is the line as it was     *)
(* typed, and every word that begins before it is an argument by now, with *)
(* its characters in place and a NUL behind them.                          *)
(***************************************************************************)
Rest == IF phase = "split" /\ args = <<>> THEN 0
        ELSE IF saved_token = NoToken THEN buffer_index + 1
        ELSE saved_token

TypedInv ==
  phase \in {"input", "split", "run"} => typed \in Seq(Chars) /\ Len(typed) = buffer_index

Untouched(p) == \A r \in Slots : p <= r /\ r < buffer_index => command[r] = typed[r + 1]

AtGap(p) ==
  p <= buffer_index => p \notin Inked(typed) /\ \A j \in 1 .. p : typed[j] # NUL

WordsFound(p) == \A w \in Words(typed) : w[1] <= p => \E k \in DOMAIN args : args[k] = w[1] - 1

\* A word from slot a up to the NUL at slot e.
CutOut(a, e) ==
  /\ <<a + 1, e>> \in Words(typed)
  /\ e \in Slots /\ e <= buffer_index /\ command[e] = NUL
  /\ \A r \in Slots : a <= r /\ r < e => command[r] = typed[r + 1]

ArgsCut(p) ==
  /\ \A k \in DOMAIN args : \E e \in Slots : e < p /\ CutOut(args[k], e)
  /\ \A j, k \in DOMAIN args : j < k => args[j] < args[k]

WordsInv ==
  /\ TypedInv
  /\ phase = "input" => Untouched(0)
  /\ phase \in {"split", "run"} =>
       Untouched(Rest) /\ AtGap(Rest) /\ WordsFound(Rest) /\ ArgsCut(Rest)

\* A call of strtok that starts at a gap cuts out the next word, if there is one.
LEMMA NextWord ==
  ASSUME command \in [Slots -> Chars \cup {JUNK}], TypedInv, phase = "split",
         buffer_index \in Slots, command[buffer_index] = NUL,
         NEW p \in Slots, p <= buffer_index, Untouched(p), AtGap(p)
  PROVE  LET t == strtok(p)
             Later(q) == \E w \in Words(typed) : w[1] > q
         IN \/ /\ t = [token |-> NoToken, saved |-> NoToken, command |-> command]
               /\ ~Later(p)
            \/ \E s, e \in Slots :
                 /\ p <= s /\ s < e /\ e <= buffer_index
                 /\ t.token = s /\ <<s + 1, e>> \in Words(typed)
                 /\ \A r \in Slots : r # e => t.command[r] = command[r]
                 /\ t.command[e] = NUL
                 /\ \A w \in Words(typed) : w[1] > p => w[1] = s + 1 \/ w[1] > e + 1
                 /\ \/ t.saved = NoToken /\ ~Later(e + 1)
                    \/ t.saved = e + 1 /\ e < buffer_index /\ AtGap(e + 1)
<1> DEFINE start == FirstIn(p, NotSpace)
           end == FirstIn(start, {" ", NUL})
           ink == Inked(typed)
           L == buffer_index
<1>1. L \in Nat /\ L < CMD_SIZE /\ CMD_SIZE \in Nat /\ p \in Nat /\ p <= L
  BY SlotIs
<1>a. DOMAIN typed = 1 .. L /\ \A j \in 1 .. L : typed[j] \in Chars
  BY <1>1 DEF TypedInv
<1> HIDE DEF L
<1>2. NUL \in NotSpace /\ NUL # " " /\ NUL \in Chars /\ \A c \in Chars : c \notin NotSpace => c = " "
  BY LineNumbers DEF NotSpace
<1>3. start \in p .. L /\ command[start] \in NotSpace /\ \A r \in p .. start - 1 : command[r] \notin NotSpace
  BY <1>1, <1>2, FirstInSound DEF L
<1> HIDE DEF start
<1>4. start \in Slots /\ start \in Nat /\ p <= start /\ start <= L
  BY <1>1, <1>3, SlotIs
<1>5. end \in start .. L /\ command[end] \in {" ", NUL} /\ \A r \in start .. end - 1 : command[r] \notin {" ", NUL}
  BY <1>4, FirstInSound DEF L
<1> HIDE DEF end
<1>6. end \in Slots /\ end \in Nat /\ start <= end /\ end <= L
  <2>1. end \in start .. L
    BY <1>5
  <2> QED BY <1>1, <1>4, <2>1, SlotIs
<1>7. \A r \in Nat : p <= r /\ r < L => command[r] = typed[r + 1]
  BY <1>1, SlotIs DEF Untouched, L
<1>8. strtok(p) = TokenAt(start, end, NoToken)
  BY DEF strtok, start, end
<1>9. \A j \in 1 .. L : j \in ink <=> (typed[j] # " " /\ \A k \in 1 .. j : typed[k] # NUL)
  BY <1>a DEF Inked
<1>b. \A j \in ink : j \in 1 .. L
  BY <1>a DEF Inked
<1>c. \A j \in ink : j \in Nat /\ 1 <= j /\ j <= L
  BY <1>1, <1>b
<1>10. /\ \A j \in ink : typed[j] # " "
       /\ \A j \in ink : \A k \in 1 .. j : typed[k] # NUL
  BY DEF Inked
<1>11. p \notin ink /\ \A j \in 1 .. p : typed[j] # NUL
  BY <1>1 DEF AtGap, ink, L
<1>12. \A w \in Words(typed) :
         /\ w = <<w[1], w[2]>> /\ w[1] \in ink /\ w[2] \in ink /\ w[1] <= w[2]
         /\ w[1] - 1 \notin ink /\ w[2] + 1 \notin ink /\ w[1] .. w[2] \subseteq ink
  BY DEF Words
<1> HIDE DEF ink
<1>13. \A j \in 1 .. L : p < j /\ j <= start => typed[j] = " "
  <2> SUFFICES ASSUME NEW j \in 1 .. L, p < j, j <= start PROVE typed[j] = " "
    OBVIOUS
  <2>1. j - 1 \in p .. start - 1 /\ j - 1 \in Nat /\ j - 1 < L /\ (j - 1) + 1 = j
    BY <1>1, <1>4
  <2>2. command[j - 1] \notin NotSpace /\ command[j - 1] = typed[j]
    BY <1>3, <1>7, <2>1
  <2> QED BY <1>a, <1>2, <2>2
<1>14. \A j \in 1 .. start : typed[j] # NUL
  <2> SUFFICES ASSUME NEW j \in 1 .. start PROVE typed[j] # NUL
    OBVIOUS
  <2>1. j \in 1 .. L /\ j <= start /\ (j \in 1 .. p \/ p < j)
    BY <1>1, <1>4
  <2> QED BY <1>2, <1>4, <1>11, <1>13, <2>1
<1>15. \A j \in ink : j > p => j > start
  <2> SUFFICES ASSUME NEW j \in ink, j > p PROVE j > start
    OBVIOUS
  <2>1. j \in Nat /\ p < j
    BY <1>1, <1>c
  <2>2. ~(j <= start)
    BY <1>b, <1>10, <1>13, <2>1
  <2> QED BY <1>4, <2>1, <2>2
<1>16. CASE command[start] = NUL
  <2>1. strtok(p) = [token |-> NoToken, saved |-> NoToken, command |-> command]
    BY <1>8, <1>16 DEF TokenAt
  <2>2. \A j \in ink : ~(j > p)
    <3> SUFFICES ASSUME NEW j \in ink, j > p PROVE FALSE
      OBVIOUS
    <3>1. j \in 1 .. L /\ j > start
      BY <1>b, <1>c, <1>10, <1>15
    <3>2. start < L /\ start + 1 \in 1 .. j
      BY <1>1, <1>4, <3>1
    <3>3. command[start] = typed[start + 1]
      BY <1>4, <1>7, <3>2
    <3> QED BY <1>b, <1>c, <1>10, <1>16, <3>2, <3>3
  <2> QED BY <1>12, <2>1, <2>2
<1>17. CASE command[start] # NUL
  <2>1. start < end /\ start < L
    <3>1. command[start] # " " /\ command[L] = NUL
      BY <1>3 DEF NotSpace, L
    <3>2. start # end /\ start # L
      BY <1>5, <1>17, <3>1
    <3> QED BY <1>1, <1>4, <1>6, <3>2
  <2>2. \A j \in start + 1 .. end : typed[j] # NUL /\ typed[j] # " "
    <3> SUFFICES ASSUME NEW j \in start + 1 .. end PROVE typed[j] # NUL /\ typed[j] # " "
      OBVIOUS
    <3>1. j - 1 \in start .. end - 1 /\ j - 1 \in Nat /\ p <= j - 1 /\ j - 1 < L /\ (j - 1) + 1 = j
      BY <1>1, <1>4, <1>6
    <3> QED BY <1>5, <1>7, <3>1
  <2>3. \A j \in 1 .. end : typed[j] # NUL
    <3> SUFFICES ASSUME NEW j \in 1 .. end PROVE typed[j] # NUL
      OBVIOUS
    <3>1. j \in 1 .. start \/ j \in start + 1 .. end
      BY <1>4, <1>6
    <3> QED BY <1>14, <2>2, <3>1
  <2>4. start + 1 .. end \subseteq ink
    <3> SUFFICES ASSUME NEW j \in start + 1 .. end PROVE j \in ink
      OBVIOUS
    <3>1. j \in 1 .. L /\ \A k \in 1 .. j : k \in 1 .. end
      BY <1>1, <1>4, <1>6
    <3> QED BY <1>9, <2>2, <2>3, <3>1
  <2>5. start \notin ink
    <3>1. CASE start = p
      BY <1>11, <3>1
    <3>2. CASE start # p
      <4>1. start \in 1 .. L /\ p < start /\ start <= start
        BY <1>1, <1>4, <3>2
      <4>2. typed[start] = " "
        BY <1>13, <4>1
      <4> QED BY <1>10, <4>2
    <3> QED BY <3>1, <3>2
  <2>6. end + 1 \notin ink /\ (end < L => typed[end + 1] = command[end])
    <3>1. CASE end < L
      <4>1. command[end] = typed[end + 1] /\ end + 1 \in 1 .. end + 1
        BY <1>4, <1>6, <1>7, <3>1
      <4> QED BY <1>5, <1>b, <1>c, <1>10, <4>1
    <3>2. CASE end = L
      <4>1. ~(end < L) /\ ~(end + 1 <= L)
        BY <1>1, <3>2
      <4> QED BY <1>c, <4>1
    <3> QED BY <1>1, <1>6, <3>1, <3>2
  <2>7. <<start + 1, end>> \in Words(typed)
    <3>1. start + 1 \in ink /\ end \in ink /\ start + 1 <= end /\ (start + 1) - 1 = start
      BY <1>4, <1>6, <2>1, <2>4
    <3> QED BY <2>4, <2>5, <2>6, <3>1 DEF Words, ink
  <2>8. \A w \in Words(typed) : w[1] > p => w[1] = start + 1 \/ w[1] > end + 1
    <3> SUFFICES ASSUME NEW w \in Words(typed), w[1] > p, w[1] # start + 1
                 PROVE  w[1] > end + 1
      OBVIOUS
    <3>1. w[1] \in ink /\ w[1] - 1 \notin ink /\ w[1] \in 1 .. L
      BY <1>b, <1>c, <1>10, <1>12
    <3>2. w[1] > start + 1
      BY <1>4, <1>15, <3>1
    <3>3. w[1] # end + 1
      BY <2>6, <3>1
    <3>4. ~(w[1] <= end)
      <4>1. w[1] <= end => w[1] - 1 \in start + 1 .. end
        BY <1>4, <1>6, <3>1, <3>2
      <4> QED BY <2>4, <3>1, <4>1
    <3> QED BY <1>6, <3>1, <3>3, <3>4
  <2>9. CASE command[end] = NUL
    <3>1. strtok(p) = [token |-> start, saved |-> NoToken, command |-> command]
      BY <1>8, <1>17, <2>9 DEF TokenAt
    <3>2. \A j \in ink : ~(j > end + 1)
      <4> SUFFICES ASSUME NEW j \in ink, j > end + 1 PROVE FALSE
        OBVIOUS
      <4>1. j \in Nat /\ j <= L
        BY <1>c
      <4>2. end < L /\ end + 1 \in 1 .. j
        BY <1>1, <1>6, <4>1
      <4> QED BY <1>10, <2>6, <2>9, <4>2
    <3>3. ~\E w \in Words(typed) : w[1] > end + 1
      BY <1>12, <3>2
    <3> QED BY <1>4, <1>6, <2>1, <2>7, <2>8, <2>9, <3>1, <3>3 DEF L
  <2>10. CASE command[end] # NUL
    <3>1. strtok(p) = [token |-> start, saved |-> end + 1, command |-> [command EXCEPT ![end] = NUL]]
      BY <1>8, <1>17, <2>10 DEF TokenAt
    <3>2. end < L
      <4>1. end # L
        BY <2>10 DEF L
      <4> QED BY <1>1, <1>6, <4>1
    <3>3. \A j \in 1 .. end + 1 : typed[j] # NUL
      <4>1. typed[end + 1] # NUL
        BY <2>6, <2>10, <3>2
      <4>2. \A j \in 1 .. end + 1 : j = end + 1 \/ j \in 1 .. end
        BY <1>6
      <4> QED BY <2>3, <4>1, <4>2
    <3>4. AtGap(end + 1)
      BY <2>6, <3>3 DEF AtGap, ink, L
    <3>5. [command EXCEPT ![end] = NUL][end] = NUL
          /\ \A r \in Slots : r # end => [command EXCEPT ![end] = NUL][r] = command[r]
      BY <1>6
    <3>6. /\ strtok(p).token = start /\ strtok(p).saved = end + 1
          /\ strtok(p).command[end] = NUL
          /\ \A r \in Slots : r # end => strtok(p).command[r] = command[r]
      BY <3>1, <3>5
    <3>7. start \in Slots /\ end \in Slots /\ p <= start /\ start < end /\ end <= L
      BY <1>4, <1>6, <2>1
    <3> HIDE DEF start, end, L
    <3> QED BY <2>7, <2>8, <3>2, <3>4, <3>6, <3>7 DEF L
  <2> QED BY <2>9, <2>10
<1> QED BY <1>16, <1>17

LEMMA WordPlace ==
  ASSUME TypedInv, phase \in {"input", "split", "run"}, NEW w \in Words(typed)
  PROVE  /\ w[1] \in Nat /\ w[2] \in Nat /\ 1 <= w[1] /\ w[1] <= w[2] /\ w[2] <= buffer_index
         /\ w[1] .. w[2] \subseteq Inked(typed)
         /\ w[2] + 1 \notin Inked(typed)
<1>1. w[1] \in Inked(typed) /\ w[2] \in Inked(typed) /\ w[1] <= w[2]
      /\ w[1] .. w[2] \subseteq Inked(typed) /\ w[2] + 1 \notin Inked(typed)
  BY DEF Words
<1>2. \A j \in Inked(typed) : j \in 1 .. Len(typed)
  <2>1. DOMAIN typed = 1 .. Len(typed)
    BY DEF TypedInv
  <2> QED BY <2>1 DEF Inked
<1>3. Len(typed) = buffer_index /\ Len(typed) \in Nat
  BY DEF TypedInv
<1> QED BY <1>1, <1>2, <1>3

\* Keys fill and shorten the line; Enter leaves all of it to strtok.
LEMMA KeyKeepsWords ==
  ASSUME SplitInv, WordsInv, KeyStep
  PROVE  WordsInv'
<1>0. /\ phase = "input" /\ args = <<>> /\ buffer_index \in Nat /\ buffer_index <= CMD_SIZE
      /\ command \in [Slots -> Chars \cup {JUNK}] /\ CMD_SIZE \in Nat
  BY LineSizes DEF KeyStep, Enter, Backspace, EscapeOrCtrl, ShiftKey, Character, SplitInv, TypeInv, LineOpen
<1>1. /\ typed \in Seq(Chars) /\ Len(typed) = buffer_index
      /\ \A r \in Slots : r < buffer_index => command[r] = typed[r + 1]
  <2>1. typed \in Seq(Chars) /\ Len(typed) = buffer_index /\ Untouched(0)
    BY <1>0 DEF WordsInv, TypedInv
  <2>2. \A r \in Slots : 0 <= r
    BY SlotIs
  <2> QED BY <2>1, <2>2 DEF Untouched
<1>2. ASSUME phase' \in {"line_overrun", "args_overrun"}
      PROVE  WordsInv'
  BY <1>2 DEF WordsInv, TypedInv
<1>3. ASSUME NEW where \in {"line_overrun", "args_overrun"}, Overrun(where)
      PROVE  WordsInv'
  BY <1>2, <1>3 DEF Overrun
<1>4. ASSUME phase' = "input", typed' \in Seq(Chars), Len(typed') = buffer_index',
             \A r \in Slots : r < buffer_index' => command'[r] = typed'[r + 1]
      PROVE  WordsInv'
  BY <1>4 DEF WordsInv, TypedInv, Untouched
<1>5. CASE Enter
  <2>1. CASE buffer_index \in Slots
    <3>1. /\ command' = [command EXCEPT ![buffer_index] = NUL] /\ phase' = "split"
          /\ UNCHANGED <<buffer_index, args, typed>>
      BY <1>5, <2>1 DEF Enter
    <3>2. Rest' = 0
      BY <1>0, <3>1 DEF Rest
    <3>3. \A r \in Slots : r < buffer_index' => command'[r] = typed'[r + 1]
      <4> SUFFICES ASSUME NEW r \in Slots, r < buffer_index PROVE command'[r] = typed[r + 1]
        BY <3>1
      <4>1. r # buffer_index
        BY <2>1, SlotIs
      <4> QED BY <1>0, <1>1, <3>1, <4>1
    <3>4. 0 \notin Inked(typed)
      BY <1>1 DEF Inked
    <3>5. TypedInv
      BY <1>1 DEF TypedInv
    <3>6. \A w \in Words(typed) : ~(w[1] <= 0)
      BY <1>0, <3>5, WordPlace
    <3>7. DOMAIN args' = {} /\ \A j \in 1 .. 0 : FALSE
      BY <1>0, <3>1
    <3>8. TypedInv'
      BY <1>1, <3>1 DEF TypedInv
    <3>9. phase' # "input"
      BY <3>1
    <3> QED BY <3>1, <3>2, <3>3, <3>4, <3>6, <3>7, <3>8, <3>9
            DEF WordsInv, Untouched, AtGap, WordsFound, ArgsCut
  <2>2. CASE buffer_index \notin Slots
    BY <1>3, <1>5, <2>2 DEF Enter
  <2> QED BY <2>1, <2>2
<1>6. CASE Backspace
  <2>1. CASE buffer_index > 0
    <3>1. /\ buffer_index' = buffer_index - 1 /\ typed' = SubSeq(typed, 1, Len(typed) - 1)
          /\ UNCHANGED <<command, phase>>
      BY <1>6, <2>1 DEF Backspace, EraseLast
    <3>2. /\ typed' \in Seq(Chars) /\ Len(typed') = buffer_index - 1
          /\ \A j \in 1 .. buffer_index - 1 : typed'[j] = typed[j]
      BY <1>0, <1>1, <2>1, <3>1
    <3>3. \A r \in Slots : r < buffer_index' => command'[r] = typed'[r + 1]
      <4> SUFFICES ASSUME NEW r \in Slots, r < buffer_index - 1 PROVE command[r] = typed'[r + 1]
        BY <3>1
      <4>1. r + 1 \in 1 .. buffer_index - 1 /\ r < buffer_index
        BY <1>0, SlotIs
      <4> QED BY <1>1, <3>2, <4>1
    <3> QED BY <1>0, <1>4, <3>1, <3>2, <3>3
  <2>2. CASE ~(buffer_index > 0)
    BY <1>0, <1>1, <1>4, <1>6, <2>2 DEF Backspace
  <2> QED BY <2>1, <2>2
<1>7. CASE EscapeOrCtrl \/ ShiftKey
  BY <1>0, <1>1, <1>4, <1>7 DEF EscapeOrCtrl, ShiftKey
<1>8. CASE Character
  <2>1. PICK c \in Chars : IF buffer_index \in Slots THEN StoreAndEcho(c) ELSE Overrun("line_overrun")
    BY <1>8 DEF Character
  <2>2. CASE buffer_index \in Slots
    <3>1. /\ command' = [command EXCEPT ![buffer_index] = c] /\ buffer_index' = buffer_index + 1
          /\ typed' = Append(typed, c) /\ UNCHANGED phase
      BY <2>1, <2>2 DEF StoreAndEcho
    <3>2. /\ typed' \in Seq(Chars) /\ Len(typed') = buffer_index + 1 /\ typed'[buffer_index + 1] = c
          /\ \A j \in 1 .. buffer_index : typed'[j] = typed[j]
      BY <1>0, <1>1, <3>1
    <3>3. \A r \in Slots : r < buffer_index' => command'[r] = typed'[r + 1]
      <4> SUFFICES ASSUME NEW r \in Slots, r < buffer_index + 1 PROVE command'[r] = typed'[r + 1]
        BY <3>1
      <4>1. CASE r = buffer_index
        BY <1>0, <2>2, <3>1, <3>2, <4>1
      <4>2. CASE r # buffer_index
        <5>1. r + 1 \in 1 .. buffer_index /\ r < buffer_index
          BY <1>0, <4>2, SlotIs
        <5> QED BY <1>0, <1>1, <3>1, <3>2, <4>2, <5>1
      <4> QED BY <4>1, <4>2
    <3> QED BY <1>0, <1>4, <3>1, <3>2, <3>3
  <2>3. CASE buffer_index \notin Slots
    BY <1>3, <2>1, <2>3
  <2> QED BY <2>2, <2>3
<1> QED BY <1>5, <1>6, <1>7, <1>8 DEF KeyStep

\* Each call of strtok moves Rest past one more word.
LEMMA SplitKeepsWords ==
  ASSUME SplitInv, WordsInv, Split
  PROVE  WordsInv'
<1> DEFINE L == buffer_index
           t == IF args = <<>> THEN strtok(0)
                ELSE IF saved_token = NoToken
                  THEN [token |-> NoToken, saved |-> NoToken, command |-> command]
                ELSE strtok(saved_token)
<1>1. /\ phase = "split" /\ L \in Slots /\ command[L] = NUL
      /\ saved_token <= L /\ saved_token \in {NoToken} \cup Slots
      /\ command \in [Slots -> Chars \cup {JUNK}]
      /\ args \in Seq(Slots) /\ Len(args) \in Nat /\ DOMAIN args = 1 .. Len(args)
      /\ L \in Nat /\ 0 \in Slots
  BY SlotIs DEF Split, SplitInv, TypeInv, LineClosed
<1>2. PICK p : p = Rest
  OBVIOUS
<1>3. TypedInv /\ Untouched(p) /\ AtGap(p) /\ WordsFound(p) /\ ArgsCut(p)
  BY <1>1, <1>2 DEF WordsInv
<1>4. \/ Overrun("args_overrun")
      \/ /\ command' = t.command /\ saved_token' = t.saved
         /\ args' = IF t.token = NoToken THEN args ELSE Append(args, t.token)
         /\ phase' = IF t.token = NoToken THEN "run" ELSE "split"
         /\ UNCHANGED <<buffer_index, typed>>
  BY Zenon DEF Split
<1>5. CASE Overrun("args_overrun")
  BY <1>5 DEF Overrun, WordsInv, TypedInv
<1>6. \A w \in Words(typed) : w[1] \in Nat /\ 1 <= w[1] /\ w[1] <= w[2] /\ w[2] <= L
  BY <1>1, <1>3, WordPlace
\* What is left to show, in terms of the line as it was typed.
<1>7. ASSUME NEW q, Rest' = q, phase' \in {"split", "run"}, UNCHANGED <<buffer_index, typed>>,
             \A r \in Slots : q <= r /\ r < L => command'[r] = typed[r + 1],
             AtGap(q),
             \A w \in Words(typed) : w[1] <= q => \E k \in DOMAIN args' : args'[k] = w[1] - 1,
             \A k \in DOMAIN args' : \E e \in Slots :
               /\ e < q /\ <<args'[k] + 1, e>> \in Words(typed) /\ e <= L /\ command'[e] = NUL
               /\ \A r \in Slots : args'[k] <= r /\ r < e => command'[r] = typed[r + 1],
             \A j, k \in DOMAIN args' : j < k => args'[j] < args'[k]
      PROVE  WordsInv'
  <2>1. TypedInv' /\ phase' # "input"
    BY <1>1, <1>3, <1>7 DEF TypedInv
  <2>2. Untouched(Rest)' /\ AtGap(Rest)'
    BY <1>7 DEF Untouched, AtGap
  <2>3. WordsFound(Rest)'
    BY <1>7 DEF WordsFound
  <2>4. ArgsCut(Rest)'
    BY <1>7 DEF ArgsCut, CutOut
  <2> QED BY <2>1, <2>2, <2>3, <2>4 DEF WordsInv
\* When no token is left every word has been found.
<1>8. ASSUME ~Overrun("args_overrun"), t.token = NoToken, t.saved = NoToken, t.command = command,
             \A w \in Words(typed) : w[1] <= p
      PROVE  WordsInv'
  <2>1. /\ UNCHANGED <<command, args, buffer_index, typed>> /\ saved_token' = NoToken /\ phase' = "run"
    BY <1>4, <1>8
  <2>2. Rest' = L + 1
    BY <2>1 DEF Rest
  <2>3. \A r \in Slots : ~(L + 1 <= r /\ r < L)
    BY <1>1, SlotIs
  <2>4. AtGap(L + 1)
    BY <1>1 DEF AtGap
  <2>5. \A w \in Words(typed) : \E k \in DOMAIN args : args[k] = w[1] - 1
    BY <1>3, <1>8 DEF WordsFound
  <2>6. \A k \in DOMAIN args : \E e \in Slots :
               /\ e < L + 1 /\ <<args[k] + 1, e>> \in Words(typed) /\ e <= L /\ command[e] = NUL
               /\ \A r \in Slots : args[k] <= r /\ r < e => command[r] = typed[r + 1]
    <3>1. \A e \in Slots : e <= L => e < L + 1
      BY <1>1, SlotIs
    <3> QED BY <1>3, <3>1 DEF ArgsCut, CutOut
  <2>7. \A j, k \in DOMAIN args : j < k => args[j] < args[k]
    BY <1>3 DEF ArgsCut
  <2> QED BY <1>7, <2>1, <2>2, <2>3, <2>4, <2>5, <2>6, <2>7
<1>9. CASE args # <<>> /\ saved_token = NoToken
  <2>1. p = L + 1
    BY <1>2, <1>9 DEF Rest
  <2>2. t = [token |-> NoToken, saved |-> NoToken, command |-> command]
    BY <1>9
  <2>3. \A w \in Words(typed) : w[1] <= p
    BY <1>1, <1>6, <2>1, WordPlace, <1>3
  <2> QED BY <1>5, <1>8, <2>2, <2>3
<1>10. CASE ~(args # <<>> /\ saved_token = NoToken) /\ ~Overrun("args_overrun")
  <2>1. t = strtok(p) /\ p \in Slots /\ p <= L
    BY <1>1, <1>2, <1>10 DEF Rest
  <2> HIDE DEF t
  <2>2. p \in Nat
    BY <2>1, SlotIs
  <2>3. CASE /\ strtok(p) = [token |-> NoToken, saved |-> NoToken, command |-> command]
             /\ ~\E w \in Words(typed) : w[1] > p
    <3>1. \A w \in Words(typed) : w[1] <= p
      BY <1>6, <2>2, <2>3
    <3>2. t.token = NoToken /\ t.saved = NoToken /\ t.command = command
      BY <2>1, <2>3
    <3> QED BY <1>8, <1>10, <3>1, <3>2 DEF t
  <2>4. ASSUME NEW s \in Slots, NEW e \in Slots,
               p <= s, s < e, e <= L,
               t.token = s, <<s + 1, e>> \in Words(typed),
               \A r \in Slots : r # e => t.command[r] = command[r],
               t.command[e] = NUL,
               \A w \in Words(typed) : w[1] > p => w[1] = s + 1 \/ w[1] > e + 1,
               \/ t.saved = NoToken /\ ~\E w \in Words(typed) : w[1] > e + 1
               \/ t.saved = e + 1 /\ e < L /\ AtGap(e + 1)
        PROVE  WordsInv'
    <3>1. s \in Nat /\ e \in Nat /\ s # NoToken /\ e + 1 # NoToken
      <4>1. s \in Nat /\ e \in Nat
        BY SlotIs
      <4> QED BY <4>1 DEF NoToken
    <3>2. /\ command' = t.command /\ saved_token' = t.saved /\ args' = Append(args, s)
          /\ phase' = "split" /\ UNCHANGED <<buffer_index, typed>>
      BY <1>4, <1>10, <2>4, <3>1 DEF t
    <3>3. /\ args' # <<>> /\ DOMAIN args' = 1 .. Len(args) + 1 /\ args'[Len(args) + 1] = s
          /\ \A k \in 1 .. Len(args) : args'[k] = args[k]
      BY <1>1, <3>2
    <3>4. PICK q : q = IF t.saved = NoToken THEN L + 1 ELSE e + 1
      OBVIOUS
    <3>5. /\ Rest' = q /\ q \in {L + 1, e + 1} /\ AtGap(q) /\ e < q
          /\ \A w \in Words(typed) : w[1] <= q => ~(w[1] > e + 1)
      <4>1. CASE t.saved = NoToken
        <5>1. Rest' = L + 1 /\ q = L + 1
          BY <3>2, <3>3, <3>4, <4>1 DEF Rest
        <5>2. AtGap(L + 1) /\ e < L + 1
          BY <1>1, <2>4, <3>1 DEF AtGap
        <5> QED BY <2>4, <3>1, <4>1, <5>1, <5>2
      <4>2. CASE t.saved # NoToken
        <5>1. t.saved = e + 1 /\ AtGap(e + 1)
          BY <2>4, <4>2
        <5>2. Rest' = e + 1 /\ q = e + 1
          BY <3>2, <3>3, <3>4, <4>2, <5>1 DEF Rest
        <5> QED BY <1>6, <3>1, <5>1, <5>2
      <4> QED BY <4>1, <4>2
    <3>6. \A r \in Slots : q <= r /\ r < L => command'[r] = typed[r + 1]
      <4> SUFFICES ASSUME NEW r \in Slots, q <= r, r < L PROVE command'[r] = typed[r + 1]
        OBVIOUS
      <4>1. p <= r /\ r # e
        BY <1>1, <2>2, <2>4, <3>1, <3>5, SlotIs
      <4> QED BY <1>3, <2>4, <3>2, <4>1 DEF Untouched
    <3>7. \A w \in Words(typed) : w[1] <= q => \E k \in DOMAIN args' : args'[k] = w[1] - 1
      <4> SUFFICES ASSUME NEW w \in Words(typed), w[1] <= q
                   PROVE  \E k \in DOMAIN args' : args'[k] = w[1] - 1
        OBVIOUS
      <4>1. CASE w[1] <= p
        <5>1. PICK k \in DOMAIN args : args[k] = w[1] - 1
          BY <1>3, <4>1 DEF WordsFound
        <5>2. k \in 1 .. Len(args) /\ k \in DOMAIN args'
          BY <1>1, <3>3
        <5> QED BY <3>3, <5>1, <5>2
      <4>2. CASE ~(w[1] <= p)
        <5>1. w[1] > p
          BY <1>6, <2>2, <4>2
        <5>2. w[1] = s + 1
          BY <2>4, <3>5, <5>1
        <5>3. Len(args) + 1 \in DOMAIN args' /\ s = w[1] - 1
          BY <1>1, <3>1, <3>3, <5>2
        <5> QED BY <3>3, <5>3
      <4> QED BY <4>1, <4>2
    <3>8. \A k \in 1 .. Len(args) : \E f \in Slots :
            /\ f < p /\ args[k] < f /\ <<args[k] + 1, f>> \in Words(typed) /\ f <= L
            /\ command[f] = NUL
            /\ \A r \in Slots : args[k] <= r /\ r < f => command[r] = typed[r + 1]
      <4> SUFFICES ASSUME NEW k \in 1 .. Len(args)
                   PROVE  \E f \in Slots :
                            /\ f < p /\ args[k] < f /\ <<args[k] + 1, f>> \in Words(typed) /\ f <= L
                            /\ command[f] = NUL
                            /\ \A r \in Slots : args[k] <= r /\ r < f => command[r] = typed[r + 1]
        OBVIOUS
      <4>1. PICK f \in Slots : f < p /\ CutOut(args[k], f)
        BY <1>1, <1>3 DEF ArgsCut
      <4>2. args[k] \in Nat /\ f \in Nat
        <5>1. args[k] \in Slots
          BY <1>1
        <5> QED BY <5>1, SlotIs
      <4>3. <<args[k] + 1, f>> \in Words(typed)
        BY <4>1 DEF CutOut
      <4>4. args[k] < f
        <5>1. args[k] + 1 <= f
          BY <1>6, <4>3
        <5> QED BY <4>2, <5>1
      <4> QED BY <4>1, <4>3, <4>4 DEF CutOut
    <3>9. \A k \in DOMAIN args' : \E f \in Slots :
               /\ f < q /\ <<args'[k] + 1, f>> \in Words(typed) /\ f <= L /\ command'[f] = NUL
               /\ \A r \in Slots : args'[k] <= r /\ r < f => command'[r] = typed[r + 1]
      <4> SUFFICES ASSUME NEW k \in 1 .. Len(args) + 1
                   PROVE  \E f \in Slots :
                            /\ f < q /\ <<args'[k] + 1, f>> \in Words(typed) /\ f <= L /\ command'[f] = NUL
                            /\ \A r \in Slots : args'[k] <= r /\ r < f => command'[r] = typed[r + 1]
        BY <3>3
      <4>1. CASE k \in 1 .. Len(args)
        <5>1. PICK f \in Slots :
                /\ f < p /\ args[k] < f /\ <<args[k] + 1, f>> \in Words(typed) /\ f <= L
                /\ command[f] = NUL
                /\ \A r \in Slots : args[k] <= r /\ r < f => command[r] = typed[r + 1]
          BY <3>8, <4>1
        <5>2. f # e /\ f < q /\ \A r \in Slots : r < f => r # e
          <6>1. f \in Nat /\ f < p /\ p <= s /\ s < e /\ e < q
            BY <2>4, <3>5, <5>1, SlotIs
          <6>2. q \in Nat
            BY <1>1, <3>1, <3>5
          <6> QED BY <2>2, <3>1, <6>1, <6>2, SlotIs
        <5>3. args'[k] = args[k] /\ \A r \in Slots : r # e => command'[r] = command[r]
          BY <2>4, <3>2, <3>3, <4>1
        <5> QED BY <5>1, <5>2, <5>3
      <4>2. CASE k = Len(args) + 1
        <5>1. args'[k] = s
          BY <3>3, <4>2
        <5>2. \A r \in Slots : s <= r /\ r < e => command'[r] = typed[r + 1]
          <6> SUFFICES ASSUME NEW r \in Slots, s <= r, r < e PROVE command'[r] = typed[r + 1]
            OBVIOUS
          <6>1. p <= r /\ r < L /\ r # e
            BY <1>1, <2>2, <2>4, <3>1, SlotIs
          <6> QED BY <1>3, <2>4, <3>2, <6>1 DEF Untouched
        <5> QED BY <2>4, <3>2, <3>5, <5>1, <5>2
      <4>3. k \in 1 .. Len(args) \/ k = Len(args) + 1
        BY <1>1
      <4> QED BY <4>1, <4>2, <4>3
    <3>10. \A j, k \in DOMAIN args' : j < k => args'[j] < args'[k]
      <4> SUFFICES ASSUME NEW j \in 1 .. Len(args) + 1, NEW k \in 1 .. Len(args) + 1, j < k
                   PROVE  args'[j] < args'[k]
        BY <3>3
      <4>1. j \in 1 .. Len(args) /\ args'[j] = args[j]
        BY <1>1, <3>3
      <4>2. CASE k \in 1 .. Len(args)
        BY <1>1, <1>3, <3>3, <4>1, <4>2 DEF ArgsCut
      <4>3. CASE k = Len(args) + 1
        <5>1. PICK f \in Slots : f < p /\ args[j] < f
          BY <3>8, <4>1
        <5>2. args[j] \in Nat /\ f \in Nat
          <6>1. args[j] \in Slots
            BY <1>1, <4>1
          <6> QED BY <6>1, SlotIs
        <5>3. args[j] < s
          BY <2>2, <2>4, <3>1, <5>1, <5>2
        <5> QED BY <3>3, <4>1, <4>3, <5>3
      <4> QED BY <1>1, <4>2, <4>3
    <3> QED BY <1>7, <3>2, <3>5, <3>6, <3>7, <3>9, <3>10
  <2>5. LET Later(r) == \E w \in Words(typed) : w[1] > r
        IN \/ /\ t = [token |-> NoToken, saved |-> NoToken, command |-> command]
              /\ ~Later(p)
           \/ \E s, e \in Slots :
                 /\ p <= s /\ s < e /\ e <= L
                 /\ t.token = s /\ <<s + 1, e>> \in Words(typed)
                 /\ \A r \in Slots : r # e => t.command[r] = command[r]
                 /\ t.command[e] = NUL
                 /\ \A w \in Words(typed) : w[1] > p => w[1] = s + 1 \/ w[1] > e + 1
                 /\ \/ t.saved = NoToken /\ ~Later(e + 1)
                    \/ t.saved = e + 1 /\ e < L /\ AtGap(e + 1)
    BY <1>1, <1>3, <2>1, NextWord
  <2> QED BY <2>1, <2>3, <2>4, <2>5
<1> QED BY <1>5, <1>9, <1>10

\* With the line cut up, the arguments are its words.
LEMMA WordsAreArgs ==
  ASSUME SplitInv, WordsInv
  PROVE  ArgsAreWords
<1> SUFFICES ASSUME phase = "run" PROVE ArgsAreWords
  BY DEF ArgsAreWords
<1> DEFINE L == buffer_index
<1>1. /\ L \in Nat /\ L \in Slots /\ saved_token = NoToken /\ args \in Seq(Slots)
      /\ DOMAIN args = 1 .. Len(args)
  BY SlotIs DEF SplitInv, TypeInv, LineClosed
<1>2. Rest = L + 1
  BY <1>1 DEF Rest
<1>3. TypedInv /\ WordsFound(L + 1) /\ ArgsCut(L + 1)
  BY <1>2 DEF WordsInv
<1>4. typed \in Seq(Chars) /\ Len(typed) = L
  BY <1>3 DEF TypedInv
<1>5. ASSUME NEW k \in DOMAIN args
      PROVE  /\ Word(args[k]) \in Words(typed)
             /\ CStr(args[k]) = SubSeq(typed, Word(args[k])[1], Word(args[k])[2])
  <2> DEFINE a == args[k]
  <2>1. PICK e \in Slots : CutOut(a, e)
    BY <1>3 DEF ArgsCut
  <2>2. a \in Slots /\ a \in Nat /\ e \in Nat
    <3>1. a \in Slots
      BY <1>1
    <3> QED BY <3>1, SlotIs
  <2> HIDE DEF a
  <2>3. /\ <<a + 1, e>> \in Words(typed) /\ e <= L /\ command[e] = NUL
        /\ \A r \in Slots : a <= r /\ r < e => command[r] = typed[r + 1]
    BY <2>1 DEF CutOut
  <2>4. a + 1 <= e /\ \A j \in a + 1 .. e : j \in Inked(typed)
    BY <1>3, <2>3, WordPlace
  <2>5. a < e
    BY <2>2, <2>4
  <2>6. \A r \in a .. e - 1 : command[r] # NUL /\ command[r] = typed[r + 1]
    <3> SUFFICES ASSUME NEW r \in a .. e - 1 PROVE command[r] # NUL /\ command[r] = typed[r + 1]
      OBVIOUS
    <3>1. r \in Slots /\ a <= r /\ r < e /\ r + 1 \in a + 1 .. e
      BY <2>2, SlotIs
    <3>2. typed[r + 1] # NUL
      <4>1. r + 1 \in 1 .. r + 1
        BY <2>2
      <4> QED BY <2>4, <3>1, <4>1 DEF Inked
    <3> QED BY <2>3, <3>1, <3>2
  <2>7. FirstIn(a, {NUL}) = e
    <3>1. FirstIn(a, {NUL}) \in a .. e /\ command[FirstIn(a, {NUL})] = NUL
      BY <2>2, <2>3, <2>5, FirstInSound
    <3> QED BY <2>2, <2>5, <2>6, <3>1
  <2>8. Word(a) = <<a + 1, e>>
    BY <2>7 DEF Word
  <2>9. CStr(a) = SubSeq(typed, a + 1, e)
    <3>1. CStr(a) = [i \in 1 .. e - a |-> command[a + i - 1]]
      BY <2>7 DEF CStr
    <3>2. SubSeq(typed, a + 1, e) = [i \in 1 .. e - (a + 1) + 1 |-> typed[(a + 1) + i - 1]]
      BY <1>4, <2>2, <2>3, <2>5
    <3>3. e - (a + 1) + 1 = e - a
      BY <2>2
    <3>4. \A i \in 1 .. e - a : command[a + i - 1] = typed[(a + 1) + i - 1]
      <4> SUFFICES ASSUME NEW i \in 1 .. e - a PROVE command[a + i - 1] = typed[(a + 1) + i - 1]
        OBVIOUS
      <4>1. a + i - 1 \in a .. e - 1 /\ (a + i - 1) + 1 = (a + 1) + i - 1
        BY <2>2
      <4> QED BY <2>6, <4>1
    <3> QED BY <3>1, <3>2, <3>3, <3>4
  <2>10. Word(a) \in Words(typed) /\ CStr(a) = SubSeq(typed, Word(a)[1], Word(a)[2])
    <3>1. Word(a)[1] = a + 1 /\ Word(a)[2] = e
      BY <2>8
    <3> QED BY <2>3, <2>8, <2>9, <3>1
  <2> QED BY <2>10 DEF a
<1>6. ASSUME NEW w \in Words(typed)
      PROVE  \E k \in DOMAIN args : w = Word(args[k])
  <2>1. /\ w[1] \in Nat /\ w[2] \in Nat /\ w[1] <= w[2] /\ w[2] <= L
        /\ w[1] .. w[2] \subseteq Inked(typed) /\ w[2] + 1 \notin Inked(typed)
    BY <1>3, WordPlace
  <2>2. PICK k \in DOMAIN args : args[k] = w[1] - 1
    BY <1>1, <1>3, <2>1 DEF WordsFound
  <2> DEFINE v == Word(args[k])
  <2>3. v \in Words(typed)
    BY <1>5
  <2>4. v[1] = w[1]
    BY <2>1, <2>2 DEF Word
  <2> HIDE DEF v
  <2>5. /\ v[2] \in Nat /\ v[1] <= v[2]
        /\ v[1] .. v[2] \subseteq Inked(typed) /\ v[2] + 1 \notin Inked(typed)
    BY <1>3, <2>3, WordPlace
  <2>6. v[2] = w[2]
    <3>1. ~(v[2] < w[2])
      <4>1. v[2] < w[2] => v[2] + 1 \in w[1] .. w[2]
        BY <2>1, <2>4, <2>5
      <4> QED BY <2>1, <2>5, <4>1
    <3>2. ~(w[2] < v[2])
      <4>1. w[2] < v[2] => w[2] + 1 \in v[1] .. v[2]
        BY <2>1, <2>4, <2>5
      <4> QED BY <2>1, <2>5, <4>1
    <3> QED BY <2>1, <2>5, <3>1, <3>2
  <2>7. w = <<w[1], w[2]>> /\ v = <<v[1], v[2]>>
    BY <2>3 DEF Words
  <2> QED BY <2>4, <2>6, <2>7 DEF v
<1>7. \A j, k \in DOMAIN args : j < k => args[j] < args[k]
  BY <1>3 DEF ArgsCut
<1> QED BY <1>5, <1>6, <1>7 DEF ArgsAreWords

----------------------------------------------------------------------------
(* The theorems *)

LEMMA LineInitInv == LineInit => LineInv
<1> SUFFICES ASSUME LineInit PROVE LineInv
  OBVIOUS
<1>1. SplitInv
  <2>1. command \in [Slots -> Chars \cup {JUNK}] /\ buffer_index \in 0 .. CMD_SIZE /\ buffer_index = 0
    BY LineSizes DEF LineInit
  <2>2. args \in Seq(Slots) /\ Len(args) <= MAX_ARGS /\ args = <<>>
    BY LineSizes DEF LineInit
  <2>3. \A k \in Slots : ~(k < 0)
    BY SlotIs
  <2> QED BY <2>1, <2>2, <2>3
          DEF LineInit, SplitInv, TypeInv, LineOpen, LineClosed, LineFilled, LAYOUTS
<1>2. EchoInv
  <2> DEFINE s == terminal_write(terminal_write(terminal_initialize, Banner), Prompt)
  <2>1. s \in OnScreen
    BY BlankScreen, WriteOnScreen, LineAssumption
  <2>2. /\ terminal_row = s.row /\ terminal_column = s.col /\ terminal_buffer = s.cells
        /\ home = s.row * VGA_WIDTH + s.col /\ buffer_index = 0
    BY DEF LineInit
  <2> HIDE DEF s
  <2>3. screen \in OnScreen
    BY <2>1, <2>2 DEF screen, OnScreen
  <2>4. home = PositionOf(s) /\ home \in Nat /\ Position = home
    BY <2>1, <2>2, PositionNat DEF PositionOf, Position
  <2>5. Position = home + buffer_index /\ \A k \in 0 .. buffer_index - 1 : FALSE
    BY <2>2, <2>4
  <2> QED BY <2>3, <2>4, <2>5 DEF EchoInv, EchoMatchesLine
<1> QED BY <1>1, <1>2 DEF LineInv

LEMMA LineStep == LineInv /\ [LineNext]_lineVars => LineInv'
<1> SUFFICES ASSUME LineInv, [LineNext]_lineVars PROVE LineInv'
  OBVIOUS
<1>1. SplitInv
  BY DEF LineInv
<1>2. CASE KeyStep
  BY <1>1, <1>2, KeyKeepsSplitInv, KeyKeepsEcho DEF LineInv
<1>3. CASE Split
  <2>1. phase' # "input"
    BY <1>3, Zenon DEF Split, Overrun
  <2> QED BY <1>1, <1>3, <2>1, SplitKeepsSplitInv DEF LineInv, EchoInv, EchoMatchesLine
<1>4. CASE Answer \/ LeaveEditor
  BY <1>1, <1>4, AnswerKeepsSplitInv, AnswerKeepsEcho DEF LineInv
<1>5. CASE UNCHANGED lineVars
  BY <1>5 DEF lineVars, LineInv, SplitInv, TypeInv, LineOpen, LineClosed, LineFilled,
              EchoInv, EchoMatchesLine, screenVars, screen, Position
<1> QED BY <1>2, <1>3, <1>4, <1>5 DEF LineNext

THEOREM LineInvariant == LineSpec => []LineInv
BY LineInitInv, LineStep, PTL DEF LineSpec

(***************************************************************************)
(* The state of the prompt keeps its types: a store past the line or its   *)
(* arguments is an overrun (kernel.c:156-202, 469-479).                    *)
(***************************************************************************)
THEOREM LineKeepsTypes == LineSpec => []LineTypeOK
<1>1. LineInv => LineTypeOK
  <2> SUFFICES ASSUME LineInv PROVE \A k \in DOMAIN args : args[k] \in Slots
    BY DEF LineInv, SplitInv, TypeInv, LineTypeOK
  <2>1. args \in Seq(Slots)
    BY DEF LineInv, SplitInv, TypeInv
  <2> QED BY <2>1
<1> QED BY <1>1, LineInvariant, PTL

(***************************************************************************)
(* strtok never leaves the line: with blanks at its end neither the        *)
(* pointer it resumes at nor an argument steps over the NUL                *)
(* (system.c:185-199).                                                     *)
(***************************************************************************)
THEOREM SplitStays == LineSpec => []SplitStaysInLine
<1>1. LineInv => SplitStaysInLine
  BY DEF LineInv, SplitInv, LineOpen, LineClosed, SplitStaysInLine
<1> QED BY <1>1, LineInvariant, PTL

(***************************************************************************)
(* Whatever was typed and corrected, on this line and on earlier ones, a   *)
(* command gets exactly the words of its line: the places, the characters  *)
(* and the order (kernel.c:156-202, 469-479, system.c:134-202).            *)
(***************************************************************************)
THEOREM ArgsAreTheWords == LineSpec => []ArgsAreWords
<1>1. LineInit => WordsInv
  <2> SUFFICES ASSUME LineInit PROVE WordsInv
    OBVIOUS
  <2>1. phase = "input" /\ buffer_index = 0 /\ typed = <<>>
    BY DEF LineInit
  <2>2. \A r \in Slots : ~(r < 0)
    BY SlotIs
  <2> QED BY <2>1, <2>2 DEF WordsInv, TypedInv, Untouched
<1>2. LineInv /\ WordsInv /\ [LineNext]_lineVars => WordsInv'
  <2> SUFFICES ASSUME LineInv, WordsInv, [LineNext]_lineVars PROVE WordsInv'
    OBVIOUS
  <2>1. SplitInv
    BY DEF LineInv
  <2>2. CASE KeyStep
    BY <2>1, <2>2, KeyKeepsWords
  <2>3. CASE Split
    BY <2>1, <2>3, SplitKeepsWords
  <2>4. CASE Answer \/ LeaveEditor
    <3>1. CASE \E s : NextPrompt(s)
      <4>1. phase' = "input" /\ buffer_index' = 0 /\ typed' = <<>>
        BY <3>1 DEF NextPrompt
      <4>2. \A r \in Slots : ~(r < 0)
        BY SlotIs
      <4> QED BY <4>1, <4>2 DEF WordsInv, TypedInv, Untouched
    <3>2. CASE \E where \in {"edit", "halted", "hung"} : StopIn(where)
      BY <3>2 DEF StopIn, WordsInv, TypedInv
    <3> QED BY <2>1, <2>4, <3>1, <3>2, AnswerLeads
  <2>5. CASE UNCHANGED lineVars
    <3>1. UNCHANGED <<command, buffer_index, phase, saved_token, args, typed>>
      BY <2>5 DEF lineVars
    <3>2. TypedInv' /\ (phase = "input" => Untouched(0))'
      BY <3>1 DEF WordsInv, TypedInv, Untouched
    <3>3. Rest' = Rest
      BY <3>1 DEF Rest
    <3>4. (phase \in {"split", "run"} =>
             Untouched(Rest) /\ AtGap(Rest) /\ WordsFound(Rest) /\ ArgsCut(Rest))'
      BY <3>1, <3>3 DEF WordsInv, Untouched, AtGap, WordsFound, ArgsCut, CutOut
    <3> QED BY <3>2, <3>4 DEF WordsInv
  <2> QED BY <2>2, <2>3, <2>4, <2>5 DEF LineNext
<1>3. LineInv /\ WordsInv => ArgsAreWords
  BY WordsAreArgs DEF LineInv
<1> QED BY <1>1, <1>2, <1>3, LineInvariant, PTL DEF LineSpec

(***************************************************************************)
(* The echo on the screen is the line that was typed, as long as it keeps  *)
(* to one run of cells (kernel.c:165-196).                                 *)
(***************************************************************************)
THEOREM EchoIsLine == LineSpec => []EchoMatchesLine
<1>1. LineInv => EchoMatchesLine
  BY DEF LineInv, EchoInv
<1> QED BY <1>1, LineInvariant, PTL

(***************************************************************************)
(* While the echo keeps to one run of cells, no key other than one that is *)
(* echoed as a backspace changes the prompt or anything before it, the     *)
(* character in the last cell and an echoed newline included               *)
(* (kernel.c:156-202).                                                     *)
(***************************************************************************)
THEOREM PromptStays == LineSpec => PromptKept
<1>1. LineInv /\ [LineNext]_lineVars
        => [phase = "input" /\ phase' = "input" /\ plain /\ typed' # Append(typed, BS) =>
              \A i \in 0 .. home - 1 : terminal_buffer'[i] = terminal_buffer[i]]_lineVars
  <2> SUFFICES ASSUME LineInv, LineNext, phase = "input", phase' = "input", plain,
                      typed' # Append(typed, BS)
               PROVE  \A i \in 0 .. home - 1 : terminal_buffer'[i] = terminal_buffer[i]
    OBVIOUS
  <2>1. CASE KeyStep
    BY <2>1, KeyKeepsEcho
  <2>2. CASE Split \/ Answer \/ LeaveEditor
    <3>1. phase # "input"
      BY <2>2, AnswerLeads DEF Split, LineInv
    <3> QED BY <3>1
  <2> QED BY <2>1, <2>2 DEF LineNext
<1> QED BY <1>1, LineInvariant, PTL DEF LineSpec, PromptKept
=============================================================================
