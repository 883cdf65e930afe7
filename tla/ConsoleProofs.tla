---------------------------- MODULE ConsoleProofs ---------------------------
(***************************************************************************)
(* Proofs about the console and its editor, for every size of the screen   *)
(* and of the text, every character set and every set of keys.             *)
(***************************************************************************)
EXTENDS Console, ScreenProofs, FiniteSetTheorems

Slots == 0 .. EDITOR_BUFFER_SIZE - 1

----------------------------------------------------------------------------
(* Numbers and characters *)

LEMMA Constants ==
  /\ EDITOR_BUFFER_SIZE \in Nat \ {0} /\ SIZE_T \in Nat \ {0}
  /\ NUL \in Ink /\ NUL # NL
<1>1. EDITOR_BUFFER_SIZE \in Nat \ {0} /\ NUL \in Ink
  BY EditorAssumption
<1>2. SIZE_T \in Nat \ {0}
  BY SizeAssumption
<1>3. NL \notin Ink
  BY InkAssumption DEF NL
<1> QED BY <1>1, <1>2, <1>3

LEMMA CounterStep ==
  ASSUME NEW n \in 0 .. SIZE_T - 1
  PROVE  inc(n) \in 0 .. SIZE_T - 1 /\ dec(n) \in 0 .. SIZE_T - 1
<1>1. \A k \in Int, m \in Nat \ {0} : k % m \in 0 .. m - 1
  OBVIOUS
<1> QED BY <1>1, Constants DEF inc, dec

\* No counter of the editor runs over in one step, but for the wrap at its ends.
LEMMA CounterIs ==
  ASSUME NEW n \in 0 .. SIZE_T - 1
  PROVE  /\ inc(n) = IF n + 1 = SIZE_T THEN 0 ELSE n + 1
         /\ dec(n) = IF n = 0 THEN SIZE_T - 1 ELSE n - 1
<1>1. \A k, m \in Nat : k < m => k % m = k
  BY ModSmall
<1>2. \A m \in Nat \ {0} : m % m = 0
  OBVIOUS
<1>3. \A m \in Nat \ {0} : (-1) % m = m - 1
  OBVIOUS
<1>4. SIZE_T \in Nat \ {0} /\ SIZE_T \in Nat /\ n \in Nat /\ n < SIZE_T
  BY Constants
<1>5. inc(n) = IF n + 1 = SIZE_T THEN 0 ELSE n + 1
  <2>1. CASE n + 1 = SIZE_T
    BY <1>2, <1>4, <2>1 DEF inc
  <2>2. CASE n + 1 # SIZE_T
    <3>1. n + 1 \in Nat /\ n + 1 < SIZE_T
      BY <1>4, <2>2
    <3> QED BY <1>1, <1>4, <2>2, <3>1 DEF inc
  <2> QED BY <2>1, <2>2
<1>6. dec(n) = IF n = 0 THEN SIZE_T - 1 ELSE n - 1
  <2>1. CASE n = 0
    <3>1. n - 1 = -1
      BY <2>1
    <3>2. (-1) % SIZE_T = SIZE_T - 1
      BY <1>3, <1>4
    <3> QED BY <2>1, <3>1, <3>2 DEF dec
  <2>2. CASE n # 0
    <3>1. n - 1 \in Nat /\ n - 1 < SIZE_T
      BY <1>4, <2>2
    <3> QED BY <1>1, <1>4, <2>2, <3>1 DEF dec
  <2> QED BY <2>1, <2>2
<1> QED BY <1>5, <1>6

----------------------------------------------------------------------------
(* The layout tables *)

\* A table has an entry for the keys of its pairs only.
LEMMA TableDomain ==
  ASSUME NEW entries
  PROVE  DOMAIN Table(entries) = {e[1] : e \in entries}
BY DEF Table

\* A table gives the characters of its pairs only.
LEMMA TableValues ==
  ASSUME NEW entries, NEW key \in DOMAIN Table(entries)
  PROVE  \E e \in entries : Table(entries)[key] = e[2]
<1>1. PICK e \in entries : e[1] = key
  BY DEF Table
<1>2. (CHOOSE f \in entries : f[1] = key) \in entries
  BY <1>1
<1> QED BY <1>2 DEF Table

\* The pairs of the shifted rows and the labels, with the characters that the
\* solver has no name for as parameters.
USPairs(space, comma, underscore, left, right) ==
  {<<"1", "!">>, <<"2", "@">>, <<"3", "#">>, <<"4", "$">>, <<"5", "%">>,
   <<"6", "^">>, <<"7", "&">>, <<"8", "*">>, <<"9", "(">>, <<"0", ")">>,
   <<"-", underscore>>, <<"=", "+">>, <<"[", left>>, <<"]", right>>, <<"SEMICOLON", ":">>,
   <<"'", "DQUOTE">>, <<"BACKTICK", "~">>, <<"BACKSLASH", "|">>, <<comma, "<">>,
   <<".", ">">>, <<"/", "?">>, <<space, space>>,
   <<"q", "Q">>, <<"w", "W">>, <<"e", "E">>, <<"r", "R">>, <<"t", "T">>, <<"y", "Y">>,
   <<"u", "U">>, <<"i", "I">>, <<"o", "O">>, <<"p", "P">>, <<"a", "A">>, <<"s", "S">>,
   <<"d", "D">>, <<"f", "F">>, <<"g", "G">>, <<"h", "H">>, <<"j", "J">>, <<"k", "K">>,
   <<"l", "L">>, <<"z", "Z">>, <<"x", "X">>, <<"c", "C">>, <<"v", "V">>, <<"b", "B">>,
   <<"n", "N">>, <<"m", "M">>}

Labels(space, comma) ==
  {"1", "2", "3", "4", "5", "6", "7", "8", "9", "0", "-", "=", "q", "w", "e", "r",
   "t", "y", "u", "i", "o", "p", "[", "]", "a", "s", "d", "f", "g", "h", "j", "k",
   "l", "SEMICOLON", "'", "BACKTICK", "BACKSLASH", "z", "x", "c", "v", "b", "n", "m", comma, ".", "/", space}

GermanPairs(comma, underscore) ==
  {<<"2", "DQUOTE">>, <<"3", "xA7">>, <<"6", "&">>, <<"7", "/">>, <<"8", "(">>,
   <<"9", ")">>, <<"0", "=">>, <<"-", "?">>, <<"=", "BACKTICK">>, <<"y", "Z">>,
   <<"[", "x9C">>, <<"]", "*">>, <<"SEMICOLON", "x96">>, <<"'", "x84">>,
   <<"BACKTICK", "xB0">>, <<"BACKSLASH", "'">>, <<"z", "Y">>, <<comma, "SEMICOLON">>,
   <<".", ":">>, <<"/", underscore>>}

LEMMA PairsAreInk ==
  ASSUME NEW space, NEW comma, NEW underscore, NEW left, NEW right,
         space # "NL", comma # "NL", underscore # "NL", left # "NL", right # "NL",
         space # "BS", comma # "BS", underscore # "BS", left # "BS", right # "BS"
  PROVE  /\ \A e \in USPairs(space, comma, underscore, left, right) : e[2] \notin {"NL", "BS"}
         /\ \A e \in GermanPairs(comma, underscore) : e[2] \notin {"NL", "BS"}
         /\ \A key \in Labels(space, comma) : key \notin {"NL", "BS"}
<1>1. \A e \in USPairs(space, comma, underscore, left, right) : e[2] \notin {"NL", "BS"}
  BY DEF USPairs
<1>2. \A e \in GermanPairs(comma, underscore) : e[2] \notin {"NL", "BS"}
  BY DEF GermanPairs
<1>3. \A key \in Labels(space, comma) : key \notin {"NL", "BS"}
  BY DEF Labels
<1> QED BY <1>1, <1>2, <1>3

LEMMA LabelsHavePairs ==
  ASSUME NEW space, NEW comma, NEW underscore, NEW left, NEW right
  PROVE  Labels(space, comma) \subseteq {e[1] : e \in USPairs(space, comma, underscore, left, right)}
BY DEF Labels, USPairs

LEMMA TablesAreInk ==
  /\ \A key \in PlainKeys : key \notin {NL, BS}
  /\ \A key \in PlainKeys : USShifted[key] \notin {NL, BS}
  /\ \A key \in DOMAIN GermanPlain : GermanPlain[key] \notin {NL, BS}
  /\ \A key \in DOMAIN GermanShifted : GermanShifted[key] \notin {NL, BS}
<1> DEFINE US == USPairs(" ", ",", "_", "{", "}")
           DE == GermanPairs(",", "_")
<1>1. /\ " " # "NL" /\ "," # "NL" /\ "_" # "NL" /\ "{" # "NL" /\ "}" # "NL"
      /\ " " # "BS" /\ "," # "BS" /\ "_" # "BS" /\ "{" # "BS" /\ "}" # "BS"
  BY Zenon
<1>3. /\ \A e \in US : e[2] \notin {"NL", "BS"}
      /\ \A e \in DE : e[2] \notin {"NL", "BS"}
      /\ \A key \in Labels(" ", ",") : key \notin {"NL", "BS"}
  <2>1. \A e \in US : e[2] \notin {"NL", "BS"}
    BY <1>1, PairsAreInk, Zenon
  <2>2. \A e \in DE : e[2] \notin {"NL", "BS"}
    BY <1>1, PairsAreInk, Zenon
  <2>3. \A key \in Labels(" ", ",") : key \notin {"NL", "BS"}
    BY <1>1, PairsAreInk, Zenon
  <2> HIDE DEF US, DE
  <2> QED BY <2>1, <2>2, <2>3, Zenon
<1>4. Labels(" ", ",") \subseteq {e[1] : e \in US}
  BY LabelsHavePairs, Zenon
<1>5. PlainKeys = Labels(" ", ",") /\ USShifted = Table(US) /\ GermanShifted = Table(DE)
  BY Zenon DEF PlainKeys, Labels, USShifted, USPairs, GermanShifted, GermanPairs
<1> HIDE DEF US, DE
<1>6. \A key \in PlainKeys : key \notin {NL, BS}
  BY <1>3, <1>5, Zenon DEF NL, BS
<1>7. \A key \in PlainKeys : USShifted[key] \notin {NL, BS}
  <2> SUFFICES ASSUME NEW key \in PlainKeys PROVE USShifted[key] \notin {NL, BS}
    OBVIOUS
  <2>1. key \in DOMAIN Table(US)
    BY <1>4, <1>5, TableDomain, Zenon
  <2>2. PICK e \in US : Table(US)[key] = e[2]
    BY <2>1, TableValues, Zenon
  <2> QED BY <1>3, <1>5, <2>2, Zenon DEF NL, BS
<1>8. \A key \in DOMAIN GermanShifted : GermanShifted[key] \notin {NL, BS}
  <2> SUFFICES ASSUME NEW key \in DOMAIN Table(DE) PROVE Table(DE)[key] \notin {NL, BS}
    BY <1>5
  <2>1. PICK e \in DE : Table(DE)[key] = e[2]
    BY TableValues, Zenon
  <2> QED BY <1>3, <2>1, Zenon DEF NL, BS
<1>9. \A key \in DOMAIN GermanPlain : GermanPlain[key] \notin {NL, BS}
  <2> DEFINE Moved ==
        {<<"-", "x9F">>, <<"=", "xB4">>, <<"y", "z">>, <<"[", "xBC">>, <<"]", "+">>,
         <<"SEMICOLON", "xB6">>, <<"'", "xA4">>, <<"BACKTICK", "^">>, <<"BACKSLASH", "#">>,
         <<"z", "y">>, <<"/", "-">>}
  <2>1. \A e \in Moved : e[2] \notin {NL, BS}
    <3> SUFFICES ASSUME NEW e \in Moved PROVE e[2] \notin {NL, BS}
      OBVIOUS
    <3>1. e[2] \in {"x9F", "xB4", "z", "xBC", "+", "xB6", "xA4", "^", "#", "y", "-"}
      OBVIOUS
    <3> HIDE DEF Moved
    <3> QED BY <3>1 DEF NL, BS
  <2>2. GermanPlain = Table(Moved)
    BY Zenon DEF GermanPlain
  <2> HIDE DEF Moved
  <2> SUFFICES ASSUME NEW key \in DOMAIN Table(Moved) PROVE Table(Moved)[key] \notin {NL, BS}
    BY <2>2, Zenon
  <2>3. PICK e \in Moved : Table(Moved)[key] = e[2]
    BY TableValues, Zenon
  <2> QED BY <2>1, <2>3, Zenon
<1> QED BY <1>6, <1>7, <1>8, <1>9

\* Every key with a label gives one visible character, or NUL.
LEMMA TypedIsInk ==
  ASSUME NEW layout, NEW shifted \in BOOLEAN, NEW key, key # "high",
         NEW c \in Lookup(layout, shifted, key) \cap Chars
  PROVE  c \in Ink
<1>1. c = IF shifted THEN shifted_layout(layout, key) ELSE us_ascii_to_layout(layout, key)
  BY Zenon DEF Lookup
<1>2. NUL # NL /\ NUL # BS
  BY DEF NUL, NL, BS
<1>3. us_ascii_to_layout(layout, key) \notin {NL, BS}
  BY <1>2, TablesAreInk DEF us_ascii_to_layout
<1>4. shifted_layout(layout, key) \notin {NL, BS}
  BY <1>2, TablesAreInk DEF shifted_layout
<1> QED BY <1>1, <1>3, <1>4 DEF Chars

\* The German layout leaves the key of the q alone.
LEMMA QKey == \A layout \in {"US", "DE"} : us_ascii_to_layout(layout, "q") = "q"
<1>1. "q" \in PlainKeys
  BY DEF PlainKeys
<1>2. "q" \notin DOMAIN GermanPlain
  <2> DEFINE Moved ==
        {<<"-", "x9F">>, <<"=", "xB4">>, <<"y", "z">>, <<"[", "xBC">>, <<"]", "+">>,
         <<"SEMICOLON", "xB6">>, <<"'", "xA4">>, <<"BACKTICK", "^">>, <<"BACKSLASH", "#">>,
         <<"z", "y">>, <<"/", "-">>}
  <2>1. \A e \in Moved : e[1] # "q"
    OBVIOUS
  <2>2. GermanPlain = Table(Moved)
    BY Zenon DEF GermanPlain
  <2> HIDE DEF Moved
  <2>3. DOMAIN Table(Moved) = {e[1] : e \in Moved}
    BY TableDomain, Zenon
  <2> QED BY <2>1, <2>2, <2>3, Zenon
<1> QED BY <1>1, <1>2 DEF us_ascii_to_layout

\* Under the other layouts no key has a character.
LEMMA OthersHaveNoKeys ==
  ASSUME NEW layout \in LAYOUTS, layout \notin {"US", "DE"}
  PROVE  "e" \notin Typable(layout)
<1>1. \A k \in PlainKeys : us_ascii_to_layout(layout, k) = NUL /\ shifted_layout(layout, k) = NUL
  BY DEF us_ascii_to_layout, shifted_layout
<1> QED BY <1>1 DEF Typable, NUL

----------------------------------------------------------------------------
(* The invariant *)

(***************************************************************************)
(* EditorCanExit alone is not inductive: it looks at one key of the        *)
(* current layout, and nothing of it is known where "edit" is typed.  The  *)
(* layouts under which "edit" can be typed are the two that are filled in. *)
(***************************************************************************)
EditorLayout == mode = "edit" => current_layout \in {"US", "DE"}

ConsoleInv == ConsoleTypeOK /\ CtrlOnlyInEditor /\ NothingBehindText /\ EditorLayout

\* What every action but the stores and the erasing leaves alone.
TextSound ==
  /\ buffer \in [Slots -> Chars]
  /\ position \in 0 .. EDITOR_BUFFER_SIZE
  /\ cursor_x \in 0 .. SIZE_T - 1 /\ cursor_y \in 0 .. SIZE_T - 1
  /\ NothingBehindText

ModeSound ==
  /\ mode \in {"prompt", "edit", "halted", "hung", "corrupt"}
  /\ ctrl \in BOOLEAN /\ shift \in BOOLEAN
  /\ current_layout \in LAYOUTS
  /\ CtrlOnlyInEditor
  /\ EditorLayout

LEMMA InvParts == ConsoleInv <=> TextSound /\ ModeSound
BY DEF ConsoleInv, ConsoleTypeOK, TextSound, ModeSound, Slots

LEMMA InvPartsNext == ConsoleInv' <=> TextSound' /\ ModeSound'
BY DEF ConsoleInv, ConsoleTypeOK, TextSound, ModeSound, Slots

LEMMA TextStays ==
  ASSUME TextSound, UNCHANGED textVars
  PROVE  TextSound'
BY DEF TextSound, textVars, NothingBehindText

\* A character goes into the first slot behind the text (kernel.c:360, 400).
LEMMA StoreStep ==
  ASSUME TextSound, HasRoom, NEW c \in Chars, Store(c),
         cursor_x' \in 0 .. SIZE_T - 1, cursor_y' \in 0 .. SIZE_T - 1
  PROVE  TextSound'
<1>1. position \in Slots /\ position' \in 0 .. EDITOR_BUFFER_SIZE
  BY Constants DEF TextSound, HasRoom, Store, Slots
<1>2. buffer' \in [Slots -> Chars]
  BY <1>1 DEF TextSound, Store
<1>3. NothingBehindText'
  <2> SUFFICES ASSUME NEW i \in position' .. EDITOR_BUFFER_SIZE - 1
               PROVE  buffer'[i] = NUL
    BY DEF NothingBehindText
  <2>1. i \in Slots /\ i # position /\ i \in position .. EDITOR_BUFFER_SIZE - 1
    BY <1>1, Constants DEF Store, Slots
  <2>2. buffer'[i] = buffer[i]
    BY <2>1 DEF Store, TextSound
  <2> QED BY <2>1, <2>2 DEF TextSound, NothingBehindText
<1> QED BY <1>1, <1>2, <1>3 DEF TextSound

\* The last slot of the text is cleared (kernel.c:367-382).  It is compared
\* with the newline after that, so the column is what moves.
LEMMA EraseStep ==
  ASSUME TextSound, BackspaceKey
  PROVE  TextSound'
<1>1. CASE position > 0
  <2> DEFINE p == position - 1
  <2>1. p \in Slots /\ position' = p /\ p \in 0 .. EDITOR_BUFFER_SIZE
    BY <1>1, Constants DEF TextSound, BackspaceKey, Slots
  <2>2. buffer' = [buffer EXCEPT ![p] = NUL] /\ EraseCursor(buffer', p)
    BY <1>1 DEF BackspaceKey
  <2>3. buffer' \in [Slots -> Chars]
    BY <2>1, <2>2, Constants DEF TextSound, Chars
  <2>4. buffer'[p] = NUL
    BY <2>1, <2>2 DEF TextSound
  <2>5. cursor_y' = cursor_y /\ cursor_x' = dec(cursor_x)
    BY <2>2, <2>4, Constants DEF EraseCursor
  <2>6. cursor_x' \in 0 .. SIZE_T - 1 /\ cursor_y' \in 0 .. SIZE_T - 1
    BY <2>5, CounterStep DEF TextSound
  <2>7. NothingBehindText'
    <3> SUFFICES ASSUME NEW i \in p .. EDITOR_BUFFER_SIZE - 1
                 PROVE  buffer'[i] = NUL
      BY <2>1 DEF NothingBehindText
    <3>1. CASE i = p
      BY <3>1, <2>4
    <3>2. CASE i # p
      <4>1. i \in Slots /\ i \in position .. EDITOR_BUFFER_SIZE - 1
        BY <3>2, <2>1, Constants DEF Slots, TextSound
      <4>2. buffer'[i] = buffer[i]
        BY <3>2, <4>1, <2>2 DEF TextSound
      <4> QED BY <4>1, <4>2 DEF TextSound, NothingBehindText
    <3> QED BY <3>1, <3>2
  <2> QED BY <2>1, <2>3, <2>6, <2>7 DEF TextSound
<1>2. CASE ~(position > 0)
  BY <1>2, TextStays DEF BackspaceKey
<1> QED BY <1>1, <1>2

LEMMA ConsoleInitInv == ConsoleInit => ConsoleInv
<1> SUFFICES ASSUME ConsoleInit PROVE TextSound /\ ModeSound
  BY InvParts
<1>1. TextSound
  <2>1. buffer \in [Slots -> Chars] /\ \A i \in Slots : buffer[i] = NUL
    BY Constants DEF ConsoleInit, EditorInit, Slots, Chars
  <2> QED BY <2>1, Constants DEF ConsoleInit, EditorInit, TextSound, NothingBehindText, Slots
<1>2. ModeSound
  BY DEF ConsoleInit, EditorInit, ModeSound, CtrlOnlyInEditor, EditorLayout, LAYOUTS
<1> QED BY <1>1, <1>2

----------------------------------------------------------------------------
(* The steps *)

LEMMA ConsoleStep ==
  ASSUME ConsoleInv, [ConsoleNext]_editorVars
  PROVE  ConsoleInv'
<1> USE InvParts, InvPartsNext
<1>1. TextSound /\ ModeSound
  OBVIOUS
<1>2. ASSUME editor_handle_input
      PROVE  TextSound' /\ ModeSound'
  <2>1. CASE CtrlKey
    BY <1>1, <2>1, TextStays DEF CtrlKey, Pressed, ModeSound, CtrlOnlyInEditor, EditorLayout
  <2>2. CASE ShiftKey
    BY <1>1, <2>2, TextStays DEF ShiftKey, Pressed, ModeSound, CtrlOnlyInEditor, EditorLayout
  <2>3. CASE CtrlCombo
    <3>1. ASSUME NEW execute, Leave(execute)
          PROVE  TextSound' /\ ModeSound'
      BY <1>1, <3>1, TextStays DEF Leave, textVars, ModeSound, CtrlOnlyInEditor, EditorLayout
    <3>2. ASSUME ctrl' = FALSE, UNCHANGED <<textVars, mode, shift, current_layout, ran>>
          PROVE  TextSound' /\ ModeSound'
      BY <1>1, <3>2, TextStays DEF ModeSound, CtrlOnlyInEditor, EditorLayout
    <3> QED BY <2>3, <3>1, <3>2 DEF CtrlCombo
  <2>4. ASSUME Overflow, mode = "edit"
        PROVE  TextSound' /\ ModeSound'
    BY <1>1, <2>4, TextStays DEF Overflow, ModeSound, CtrlOnlyInEditor, EditorLayout
  <2>5. ASSUME NEW c, Store(c)
        PROVE  ModeSound'
    BY <1>1, <2>5 DEF Store, ModeSound, CtrlOnlyInEditor, EditorLayout
  <2>6. CASE EnterKey
    <3>1. CASE HasRoom
      <4>1. Store(NL) /\ cursor_x' = 0 /\ cursor_y' = inc(cursor_y)
        BY <2>6, <3>1 DEF EnterKey
      <4>2. cursor_x' \in 0 .. SIZE_T - 1 /\ cursor_y' \in 0 .. SIZE_T - 1
        BY <1>1, <4>1, CounterStep, Constants DEF TextSound
      <4>3. NL \in Chars
        BY DEF Chars
      <4> QED BY <1>1, <2>5, <3>1, <4>1, <4>2, <4>3, StoreStep
    <3>2. CASE ~HasRoom
      BY <2>4, <2>6, <3>2 DEF EnterKey, Pressed
    <3> QED BY <3>1, <3>2
  <2>7. CASE CharacterKey
    <3>1. PICK c \in Chars :
            IF ~HasRoom THEN Overflow
            ELSE Store(c) /\ cursor_x' = inc(cursor_x) /\ cursor_y' = cursor_y
      BY <2>7 DEF CharacterKey
    <3>2. CASE HasRoom
      <4>1. Store(c) /\ cursor_x' = inc(cursor_x) /\ cursor_y' = cursor_y
        BY <3>1, <3>2
      <4>2. cursor_x' \in 0 .. SIZE_T - 1 /\ cursor_y' \in 0 .. SIZE_T - 1
        BY <1>1, <4>1, CounterStep DEF TextSound
      <4> QED BY <1>1, <2>5, <3>2, <4>1, <4>2, StoreStep
    <3>3. CASE ~HasRoom
      BY <2>4, <2>7, <3>1, <3>3 DEF CharacterKey
    <3> QED BY <3>2, <3>3
  <2>8. CASE HighKey
    BY <1>1, <2>8, TextStays DEF HighKey, ModeSound, CtrlOnlyInEditor, EditorLayout
  <2>9. CASE BackspaceKey
    <3>1. ModeSound'
      BY <1>1, <2>9 DEF BackspaceKey, ModeSound, CtrlOnlyInEditor, EditorLayout
    <3> QED BY <1>1, <2>9, <3>1, EraseStep
  <2> QED BY <1>2, <2>1, <2>2, <2>3, <2>6, <2>7, <2>8, <2>9 DEF editor_handle_input
<1>3. CASE TextCommand
  BY <1>1, <1>3, TextStays DEF TextCommand, AtPrompt, Prints, ModeSound, CtrlOnlyInEditor, EditorLayout
<1>4. ASSUME NEW layout \in LAYOUTS, ChangeLayout(layout)
      PROVE  TextSound' /\ ModeSound'
  BY <1>1, <1>4, TextStays DEF ChangeLayout, AtPrompt, Prints, ModeSound, CtrlOnlyInEditor, EditorLayout
<1>5. CASE Edit
  <2>1. current_layout \in {"US", "DE"}
    BY <1>1, <1>5, OthersHaveNoKeys DEF Edit, CanType, ModeSound
  <2> QED BY <1>1, <1>5, <2>1, TextStays
          DEF Edit, AtPrompt, Prints, ModeSound, CtrlOnlyInEditor, EditorLayout
<1>6. CASE Run
  BY <1>1, <1>6, TextStays DEF Run, AtPrompt, Prints, ModeSound, CtrlOnlyInEditor, EditorLayout
<1>7. CASE ListDisks
  BY <1>1, <1>7, TextStays DEF ListDisks, Prints, ModeSound, CtrlOnlyInEditor, EditorLayout
<1>8. CASE PowerOff
  BY <1>1, <1>8, TextStays DEF PowerOff, AtPrompt, Prints, ModeSound, CtrlOnlyInEditor, EditorLayout
<1>9. CASE UNCHANGED editorVars
  BY <1>1, <1>9, TextStays DEF editorVars, ModeSound, CtrlOnlyInEditor, EditorLayout
<1> QED BY <1>2, <1>3, <1>4, <1>5, <1>6, <1>7, <1>8, <1>9 DEF ConsoleNext

THEOREM ConsoleInvariant == ConsoleSpec => []ConsoleInv
<1>1. ConsoleInv /\ [ConsoleNext]_editorVars => ConsoleInv'
  BY ConsoleStep
<1> QED BY ConsoleInitInv, <1>1, PTL DEF ConsoleSpec

(***************************************************************************)
(* The editor's state keeps its types whatever is typed: a store past the  *)
(* end of the text is the only way out, and the cursor's column never      *)
(* leaves size_t (kernel.c:357-402).                                       *)
(***************************************************************************)
THEOREM ConsoleKeepsTypes == ConsoleSpec => []ConsoleTypeOK
<1>1. ConsoleInv => ConsoleTypeOK
  BY DEF ConsoleInv
<1> QED BY <1>1, ConsoleInvariant, PTL

(***************************************************************************)
(* No session of the editor begins with Ctrl held from an earlier one      *)
(* (kernel.c:321-355).                                                     *)
(***************************************************************************)
THEOREM NoStaleCtrl == ConsoleSpec => []CtrlOnlyInEditor
<1>1. ConsoleInv => CtrlOnlyInEditor
  BY DEF ConsoleInv
<1> QED BY <1>1, ConsoleInvariant, PTL

(***************************************************************************)
(* Nothing that was erased stays behind the text (kernel.c:365-370).       *)
(***************************************************************************)
THEOREM ErasedIsGone == ConsoleSpec => []NothingBehindText
<1>1. ConsoleInv => NothingBehindText
  BY DEF ConsoleInv
<1> QED BY <1>1, ConsoleInvariant, PTL

(***************************************************************************)
(* Whoever could type "edit" can type the q of Ctrl+Q                      *)
(* (kernel.c:331-345, keyboard_layouts.h).                                 *)
(***************************************************************************)
THEOREM EditorHasAnExit == ConsoleSpec => []EditorCanExit
<1>1. ConsoleInv => EditorCanExit
  <2> SUFFICES ASSUME current_layout \in {"US", "DE"}
               PROVE  \E key \in PlainKeys : us_ascii_to_layout(current_layout, key) = "q"
    BY DEF ConsoleInv, EditorLayout, EditorCanExit
  <2>1. "q" \in PlainKeys
    BY DEF PlainKeys
  <2> QED BY <2>1, QKey
<1> QED BY <1>1, ConsoleInvariant, PTL

----------------------------------------------------------------------------
(* Rows and columns of a text *)

Letters == Ink \cup {NL}

RowOf(b, p) == Cardinality({i \in 1 .. p : b[i - 1] = NL})

\* One slot more (kernel.c:358-401).
LEMMA OneMore ==
  ASSUME NEW b, NEW p \in Nat
  PROVE  /\ b[p] = NL => ColumnOf(b, p + 1) = 0 /\ RowOf(b, p + 1) = RowOf(b, p) + 1
         /\ b[p] # NL => ColumnOf(b, p + 1) = ColumnOf(b, p) + 1 /\ RowOf(b, p + 1) = RowOf(b, p)
<1> DEFINE Line(n) == {i \in 0 .. n - 1 : \A j \in i .. n - 1 : b[j] # NL}
           Ends(n) == {i \in 1 .. n : b[i - 1] = NL}
<1>1. IsFiniteSet(Line(p)) /\ IsFiniteSet(Ends(p))
  <2>1. IsFiniteSet(0 .. p - 1) /\ IsFiniteSet(1 .. p)
    BY FS_Interval
  <2>2. Line(p) \subseteq 0 .. p - 1 /\ Ends(p) \subseteq 1 .. p
    OBVIOUS
  <2> QED BY <2>1, <2>2, FS_Subset
<1>2. ColumnOf(b, p) = Cardinality(Line(p)) /\ ColumnOf(b, p + 1) = Cardinality(Line(p + 1))
  BY DEF ColumnOf
<1>3. RowOf(b, p) = Cardinality(Ends(p)) /\ RowOf(b, p + 1) = Cardinality(Ends(p + 1))
  BY DEF RowOf
<1>4. ASSUME b[p] = NL
      PROVE  Line(p + 1) = {} /\ Ends(p + 1) = Ends(p) \cup {p + 1} /\ p + 1 \notin Ends(p)
  <2>1. \A i \in 0 .. p : p \in i .. p
    OBVIOUS
  <2>2. Line(p + 1) = {}
    BY <1>4, <2>1
  <2>3. Ends(p + 1) = Ends(p) \cup {p + 1} /\ p + 1 \notin Ends(p)
    BY <1>4
  <2> QED BY <2>2, <2>3
<1>5. ASSUME b[p] # NL
      PROVE  Line(p + 1) = Line(p) \cup {p} /\ p \notin Line(p) /\ Ends(p + 1) = Ends(p)
  <2>1. Ends(p + 1) = Ends(p)
    <3>1. (p + 1) - 1 = p
      OBVIOUS
    <3>2. \A i \in 1 .. p + 1 : i = p + 1 \/ i \in 1 .. p
      OBVIOUS
    <3>3. \A i \in 1 .. p : i \in 1 .. p + 1
      OBVIOUS
    <3> QED BY <1>5, <3>1, <3>2, <3>3
  <2>2. ASSUME NEW i \in 0 .. p - 1
        PROVE  (\A j \in i .. p : b[j] # NL) <=> (\A j \in i .. p - 1 : b[j] # NL)
    <3>1. \A j \in i .. p : j = p \/ j \in i .. p - 1
      OBVIOUS
    <3>2. \A j \in i .. p - 1 : j \in i .. p
      OBVIOUS
    <3> QED BY <1>5, <3>1, <3>2
  <2>3. Line(p + 1) = {i \in 0 .. p : \A j \in i .. p : b[j] # NL}
    OBVIOUS
  <2>4. p \in Line(p + 1)
    <3>1. \A j \in p .. p : j = p
      OBVIOUS
    <3> QED BY <1>5, <2>3, <3>1
  <2>5. \A i \in 0 .. p : i = p \/ i \in 0 .. p - 1
    OBVIOUS
  <2>6. \A i \in 0 .. p - 1 : i \in 0 .. p
    OBVIOUS
  <2>7. Line(p + 1) \subseteq Line(p) \cup {p}
    BY <2>2, <2>3, <2>5
  <2>8. Line(p) \subseteq Line(p + 1)
    BY <2>2, <2>3, <2>6
  <2>9. p \notin Line(p)
    OBVIOUS
  <2> QED BY <2>1, <2>4, <2>7, <2>8, <2>9
<1> HIDE DEF Line, Ends
<1>6. CASE b[p] = NL
  <2>1. Cardinality(Ends(p) \cup {p + 1}) = Cardinality(Ends(p)) + 1
    BY <1>1, <1>4, <1>6, FS_AddElement
  <2>2. Cardinality(Line(p + 1)) = 0
    BY <1>4, <1>6, FS_EmptySet
  <2> QED BY <1>2, <1>3, <1>4, <1>6, <2>1, <2>2
<1>7. CASE b[p] # NL
  <2>1. Cardinality(Line(p) \cup {p}) = Cardinality(Line(p)) + 1
    BY <1>1, <1>5, <1>7, FS_AddElement
  <2> QED BY <1>2, <1>3, <1>5, <1>7, <2>1
<1> QED BY <1>6, <1>7

LEMMA NoneYet == ASSUME NEW b PROVE ColumnOf(b, 0) = 0 /\ RowOf(b, 0) = 0
<1>1. 0 .. 0 - 1 = {} /\ 1 .. 0 = {}
  OBVIOUS
<1>2. {i \in 0 .. 0 - 1 : \A j \in i .. 0 - 1 : b[j] # NL} = {} /\ {i \in 1 .. 0 : b[i - 1] = NL} = {}
  BY <1>1
<1> QED BY <1>2, FS_EmptySet DEF ColumnOf, RowOf

LEMMA PlaceNat ==
  ASSUME NEW b, NEW p \in Nat
  PROVE  ColumnOf(b, p) \in Nat /\ ColumnOf(b, p) <= p /\ RowOf(b, p) \in Nat
<1> DEFINE Line == {i \in 0 .. p - 1 : \A j \in i .. p - 1 : b[j] # NL}
           Ends == {i \in 1 .. p : b[i - 1] = NL}
<1>1. /\ IsFiniteSet(0 .. p - 1) /\ IsFiniteSet(1 .. p)
      /\ Cardinality(0 .. p - 1) = p
  BY FS_Interval
<1>2. Line \in SUBSET (0 .. p - 1) /\ Ends \in SUBSET (1 .. p)
  OBVIOUS
<1> HIDE DEF Line, Ends
<1>3. IsFiniteSet(Line) /\ IsFiniteSet(Ends) /\ Cardinality(Line) <= p
  BY <1>1, <1>2, FS_Subset
<1>4. Cardinality(Line) \in Nat /\ Cardinality(Ends) \in Nat
  BY <1>3, FS_CardinalityType
<1>5. ColumnOf(b, p) = Cardinality(Line) /\ RowOf(b, p) = Cardinality(Ends)
  BY DEF ColumnOf, RowOf, Line, Ends
<1> QED BY <1>3, <1>4, <1>5

\* Rows and columns depend on the text before them.
LEMMA PlaceSame ==
  ASSUME NEW b, NEW c, NEW p \in Nat, \A i \in 0 .. p - 1 : c[i] = b[i]
  PROVE  ColumnOf(c, p) = ColumnOf(b, p) /\ RowOf(c, p) = RowOf(b, p)
<1>1. {i \in 0 .. p - 1 : \A j \in i .. p - 1 : c[j] # NL} = {i \in 0 .. p - 1 : \A j \in i .. p - 1 : b[j] # NL}
  <2>1. \A i \in 0 .. p - 1 : \A j \in i .. p - 1 : j \in 0 .. p - 1
    OBVIOUS
  <2> QED BY <2>1
<1>2. {i \in 1 .. p : c[i - 1] = NL} = {i \in 1 .. p : b[i - 1] = NL}
  <2>1. \A i \in 1 .. p : i - 1 \in 0 .. p - 1
    OBVIOUS
  <2> QED BY <2>1
<1> QED BY <1>1, <1>2 DEF ColumnOf, RowOf

\* With no newline in between the row is the same and the column grows.
LEMMA SameLine ==
  ASSUME NEW b, NEW p \in Nat, NEW n \in Nat, p <= n, \A i \in p .. n - 1 : b[i] # NL
  PROVE  RowOf(b, n) = RowOf(b, p) /\ ColumnOf(b, n) = ColumnOf(b, p) + (n - p)
<1> DEFINE Off == {k \in Nat : p <= k /\ k <= n /\
                     ~(RowOf(b, k) = RowOf(b, p) /\ ColumnOf(b, k) = ColumnOf(b, p) + (k - p))}
<1>1. Off = {}
  <2> SUFFICES ASSUME Off # {} PROVE FALSE
    OBVIOUS
  <2>1. Off \in SUBSET Nat
    OBVIOUS
  <2>2. PICK k \in Off : \A j \in Off : k <= j
    BY <2>1, LeastElement
  <2>3. ColumnOf(b, p) \in Nat
    BY PlaceNat
  <2>4. k # p
    BY <2>2, <2>3
  <2>5. k - 1 \in Nat /\ p <= k - 1 /\ k - 1 \in p .. n - 1 /\ (k - 1) + 1 = k /\ k - 1 <= n
    BY <2>2, <2>4
  <2>6. k - 1 \notin Off
    BY <2>2
  <2>7. RowOf(b, k - 1) = RowOf(b, p) /\ ColumnOf(b, k - 1) = ColumnOf(b, p) + ((k - 1) - p)
    BY <2>5, <2>6
  <2>8. RowOf(b, k) = RowOf(b, k - 1) /\ ColumnOf(b, k) = ColumnOf(b, k - 1) + 1
    BY <2>5, OneMore
  <2>9. ColumnOf(b, p) + ((k - 1) - p) + 1 = ColumnOf(b, p) + (k - p)
    BY <2>2, <2>3
  <2> QED BY <2>2, <2>7, <2>8, <2>9
<1>2. n \notin Off
  BY <1>1
<1> QED BY <1>2

----------------------------------------------------------------------------
(* The screen a text gives *)

Upto(b, p) == [i \in 1 .. p |-> b[i - 1]]

Written(b, p) == terminal_write(terminal_initialize, Upto(b, p))

LEMMA WrittenStep ==
  ASSUME NEW b \in [Slots -> Letters], NEW p \in Nat, p < EDITOR_BUFFER_SIZE
  PROVE  Written(b, p + 1) = terminal_putchar(Written(b, p), b[p])
<1>1. \A i \in 1 .. p + 1 : b[i - 1] \in Chars
  <2> SUFFICES ASSUME NEW i \in 1 .. p + 1 PROVE b[i - 1] \in Chars
    OBVIOUS
  <2>1. i - 1 \in Slots
    BY Constants DEF Slots
  <2> QED BY <2>1 DEF Letters, Chars
<1> DEFINE d == Upto(b, p)
           e == Upto(b, p + 1)
<1>2. d \in Seq(Chars) /\ Len(d) = p /\ \A i \in 1 .. p : d[i] = b[i - 1]
  BY <1>1 DEF Upto
<1>3. e \in Seq(Chars) /\ Len(e) = p + 1 /\ \A i \in 1 .. p + 1 : e[i] = b[i - 1]
  BY <1>1 DEF Upto
<1> HIDE DEF d, e
<1>4. \A i \in 1 .. Len(d) : e[i] = d[i]
  BY <1>2, <1>3
<1>5. e[Len(e)] = b[p]
  BY <1>3
<1>6. terminal_write(terminal_initialize, e) = terminal_putchar(terminal_write(terminal_initialize, d), e[Len(e)])
  BY <1>2, <1>3, <1>4, WriteStep
<1> QED BY <1>5, <1>6 DEF Written, d, e

LEMMA WrittenNone == ASSUME NEW b PROVE Written(b, 0) = terminal_initialize
<1>1. Upto(b, 0) \in Seq(Chars) /\ Len(Upto(b, 0)) = 0
  BY DEF Upto
<1> QED BY <1>1, WriteEmpty DEF Written

LEMMA WrittenOnScreen ==
  ASSUME NEW b \in [Slots -> Letters], NEW p \in Nat, p <= EDITOR_BUFFER_SIZE
  PROVE  Written(b, p) \in OnScreen
<1>1. \A i \in 1 .. p : b[i - 1] \in Chars
  <2> SUFFICES ASSUME NEW i \in 1 .. p PROVE b[i - 1] \in Chars
    OBVIOUS
  <2>1. i - 1 \in Slots
    BY Constants DEF Slots
  <2> QED BY <2>1 DEF Letters, Chars
<1>2. Upto(b, p) \in Seq(Chars)
  BY <1>1 DEF Upto
<1> QED BY <1>2, BlankScreen, WriteOnScreen DEF Written

\* Where the text up to slot p ends on the screen.
EndOf(b, p) == RowOf(b, p) * VGA_WIDTH + ColumnOf(b, p)

\* The texts of Showable.
ShownUpto(b, p) ==
  /\ \A i \in 0 .. p - 1 : b[i] # NUL
  /\ \A i \in 0 .. p - 1 : b[i] = NL => ColumnOf(b, i) < VGA_WIDTH
  /\ EndOf(b, p) < VGA_WIDTH * VGA_HEIGHT

LEMMA Screens == VGA_WIDTH \in Nat \ {0} /\ VGA_HEIGHT \in Nat \ {0} /\ SIZE_T \in Nat
                 /\ VGA_WIDTH * VGA_HEIGHT \in Nat /\ VGA_WIDTH * VGA_HEIGHT < SIZE_T
                 /\ VGA_WIDTH < SIZE_T /\ VGA_HEIGHT < SIZE_T
<1>1. \A v, w \in Nat : v * w \in Nat
  OBVIOUS
<1> QED BY <1>1, SizeAssumption

LEMMA IncIs == \A n \in Nat : n + 1 < SIZE_T => inc(n) = n + 1
<1> SUFFICES ASSUME NEW n \in Nat, n + 1 < SIZE_T PROVE (n + 1) % SIZE_T = n + 1
  BY DEF inc
<1> QED BY ModSmall, Screens

\* One slot more moves the end of the text to the next row or the next cell.
LEMMA EndStep ==
  ASSUME NEW b, NEW p \in Nat
  PROVE  /\ EndOf(b, p) \in Nat
         /\ b[p] = NL => EndOf(b, p + 1) = (EndOf(b, p) - ColumnOf(b, p)) + VGA_WIDTH
         /\ b[p] # NL => EndOf(b, p + 1) = EndOf(b, p) + 1
<1>1. RowOf(b, p) \in Nat /\ ColumnOf(b, p) \in Nat
  BY PlaceNat
<1>2. \A m, w \in Nat : m * w \in Nat /\ (m + 1) * w = m * w + w
  OBVIOUS
<1>3. PICK k \in Nat : k = RowOf(b, p) * VGA_WIDTH /\ (RowOf(b, p) + 1) * VGA_WIDTH = k + VGA_WIDTH
  BY <1>1, <1>2, Screens
<1>4. EndOf(b, p) = k + ColumnOf(b, p)
  BY <1>3 DEF EndOf
<1>5. b[p] = NL => EndOf(b, p + 1) = k + VGA_WIDTH
  BY <1>3, OneMore, Screens DEF EndOf
<1>6. b[p] # NL => EndOf(b, p + 1) = k + (ColumnOf(b, p) + 1)
  BY <1>3, OneMore DEF EndOf
<1> QED BY <1>1, <1>3, <1>4, <1>5, <1>6, Screens

\* What comes before a text the screen can show is one too.
LEMMA ShownBefore ==
  ASSUME NEW b, NEW p \in Nat, NEW n \in Nat, n <= p, ShownUpto(b, p)
  PROVE  ShownUpto(b, n)
<1> DEFINE Off == {k \in Nat : n <= k /\ k <= p /\ ~(EndOf(b, n) <= EndOf(b, k))}
<1>1. Off = {}
  <2> SUFFICES ASSUME Off # {} PROVE FALSE
    OBVIOUS
  <2>1. Off \in SUBSET Nat
    OBVIOUS
  <2>2. PICK k \in Off : \A j \in Off : k <= j
    BY <2>1, LeastElement
  <2>3. k # n
    BY <2>2, EndStep
  <2>4. k - 1 \in Nat /\ n <= k - 1 /\ k - 1 <= p /\ k - 1 \in 0 .. p - 1 /\ (k - 1) + 1 = k
    BY <2>2, <2>3
  <2>5. EndOf(b, n) <= EndOf(b, k - 1)
    BY <2>2, <2>4
  <2>6. EndOf(b, k - 1) <= EndOf(b, k)
    <3>1. EndOf(b, k - 1) \in Nat /\ ColumnOf(b, k - 1) \in Nat
      BY <2>4, EndStep, PlaceNat
    <3>2. /\ b[k - 1] = NL => EndOf(b, k) = (EndOf(b, k - 1) - ColumnOf(b, k - 1)) + VGA_WIDTH
          /\ b[k - 1] # NL => EndOf(b, k) = EndOf(b, k - 1) + 1
      BY <2>4, EndStep
    <3>3. b[k - 1] = NL => ColumnOf(b, k - 1) < VGA_WIDTH
      BY <2>4 DEF ShownUpto
    <3> QED BY <3>1, <3>2, <3>3, Screens
  <2>7. EndOf(b, n) \in Nat /\ EndOf(b, k - 1) \in Nat /\ EndOf(b, k) \in Nat
    BY <2>2, <2>4, EndStep
  <2> QED BY <2>2, <2>5, <2>6, <2>7
<1>2. EndOf(b, n) <= EndOf(b, p)
  BY <1>1
<1>3. EndOf(b, n) \in Nat /\ EndOf(b, p) \in Nat
  BY EndStep
<1>4. \A i \in 0 .. n - 1 : i \in 0 .. p - 1
  OBVIOUS
<1> QED BY <1>2, <1>3, <1>4, Screens DEF ShownUpto

\* Row-major order gives a cell one row and one column.
LEMMA OnePlace ==
  ASSUME NEW w \in Nat \ {0}, NEW r \in Nat, NEW c \in 0 .. w - 1,
         NEW q \in Nat, NEW d \in 0 .. w - 1, r * w + c = q * w + d
  PROVE  r = q /\ c = d
<1>1. \A x \in Nat, y \in Nat : x < y => x * w + w <= y * w
  BY SMT
<1>2. ~(r < q)
  <2> SUFFICES ASSUME r < q PROVE FALSE
    OBVIOUS
  <2>1. r * w + w <= q * w
    BY <1>1
  <2> QED BY <2>1
<1>3. ~(q < r)
  <2> SUFFICES ASSUME q < r PROVE FALSE
    OBVIOUS
  <2>1. q * w + w <= r * w
    BY <1>1
  <2> QED BY <2>1
<1>4. r = q
  BY <1>2, <1>3
<1> QED BY <1>4

\* A text the screen can show puts the cursor at its end and leaves the rest of
\* the screen blank.
LEMMA WrittenAt ==
  ASSUME NEW b \in [Slots -> Letters], NEW p \in Nat, p <= EDITOR_BUFFER_SIZE, ShownUpto(b, p)
  PROVE  /\ PositionOf(Written(b, p)) = EndOf(b, p)
         /\ \A k \in Cells : k >= EndOf(b, p) => Written(b, p).cells[k] = Blank
<1> DEFINE At(n) == /\ PositionOf(Written(b, n)) = EndOf(b, n)
                    /\ \A k \in Cells : k >= EndOf(b, n) => Written(b, n).cells[k] = Blank
           Off == {n \in Nat : n <= p /\ ~At(n)}
<1>1. At(0)
  <2>1. Written(b, 0) = [row |-> 0, col |-> 0, cells |-> [i \in Cells |-> Blank]]
    BY WrittenNone DEF terminal_initialize
  <2>2. 0 * VGA_WIDTH + 0 = 0
    BY Screens
  <2> QED BY <2>1, <2>2, NoneYet DEF PositionOf, EndOf
<1>2. ASSUME NEW n \in Nat, n < p, At(n)
      PROVE  At(n + 1)
  <2> DEFINE s == Written(b, n)
             e == EndOf(b, n)
  <2>1. n < EDITOR_BUFFER_SIZE /\ n <= EDITOR_BUFFER_SIZE /\ n \in Slots
    BY <1>2, Constants DEF Slots
  <2>2. s \in OnScreen
    BY <2>1, WrittenOnScreen
  <2>3. Written(b, n + 1) = terminal_putchar(s, b[n])
    BY <2>1, WrittenStep
  <2>4. PositionOf(s) = e /\ \A k \in Cells : k >= e => s.cells[k] = Blank
    BY <1>2
  <2>5. e \in Nat /\ EndOf(b, n + 1) < VGA_WIDTH * VGA_HEIGHT
    <3>1. n + 1 \in Nat /\ n + 1 <= p
      BY <1>2
    <3> QED BY <3>1, EndStep, ShownBefore DEF ShownUpto
  <2>6. \A k \in Cells : k \in Nat
    BY Screens DEF Cells
  <2>7. CASE b[n] = NL
    <3> DEFINE c == ColumnOf(b, n)
    <3>1. c \in 0 .. VGA_WIDTH - 1
      <4>1. n \in 0 .. p - 1 /\ c \in Nat
        BY <1>2, PlaceNat
      <4> QED BY <2>7, <4>1, Screens DEF ShownUpto
    <3>2. s.row \in Nat /\ s.col \in 0 .. VGA_WIDTH - 1 /\ s.row < VGA_HEIGHT
      BY <2>2, Screens DEF OnScreen
    <3>3. s.col = c
      <4>1. s.row * VGA_WIDTH + s.col = RowOf(b, n) * VGA_WIDTH + c
        BY <2>4 DEF PositionOf, EndOf
      <4>2. RowOf(b, n) \in Nat
        BY PlaceNat
      <4>3. VGA_WIDTH \in Nat \ {0}
        BY Screens
      <4> HIDE DEF s, c
      <4>4. \A q \in Nat, d \in 0 .. VGA_WIDTH - 1 :
              s.row * VGA_WIDTH + s.col = q * VGA_WIDTH + d => s.col = d
        BY <3>2, <4>3, OnePlace
      <4> QED BY <3>1, <4>1, <4>2, <4>4
    <3>4. EndOf(b, n + 1) = (e - c) + VGA_WIDTH
      BY <2>7, EndStep
    <3>5. /\ Written(b, n + 1).cells = s.cells
          /\ PositionOf(Written(b, n + 1)) = IF s.row + 1 = VGA_HEIGHT THEN 0 ELSE (e - c) + VGA_WIDTH
      <4>1. Written(b, n + 1) = putNewline(s)
        BY <2>3, <2>7 DEF terminal_putchar
      <4>2. /\ putNewline(s).cells = s.cells
            /\ PositionOf(putNewline(s))
                 = IF s.row + 1 = VGA_HEIGHT THEN 0 ELSE PositionOf(s) - s.col + VGA_WIDTH
        BY <2>2, NewlineStep
      <4> HIDE DEF s, c, e
      <4> QED BY <2>4, <3>3, <4>1, <4>2
    <3>6. s.row + 1 # VGA_HEIGHT
      <4> SUFFICES ASSUME s.row + 1 = VGA_HEIGHT PROVE FALSE
        OBVIOUS
      <4>1. s.row * VGA_WIDTH + VGA_WIDTH = VGA_WIDTH * VGA_HEIGHT
        <5>1. \A r, w \in Nat : r * w + w = w * (r + 1)
          OBVIOUS
        <5> QED BY <3>2, <5>1, Screens
      <4>2. s.row * VGA_WIDTH \in Nat
        <5>1. \A v, w \in Nat : v * w \in Nat
          OBVIOUS
        <5> QED BY <3>2, <5>1, Screens
      <4>3. e = s.row * VGA_WIDTH + c
        BY <2>4, <3>3 DEF PositionOf
      <4> HIDE DEF s, c, e
      <4> QED BY <2>5, <3>1, <3>4, <4>1, <4>2, <4>3, Screens
    <3>7. EndOf(b, n + 1) >= e /\ EndOf(b, n + 1) \in Nat
      BY <2>5, <3>1, <3>4, Screens
    <3> HIDE DEF s, c, e
    <3>8. \A k \in Cells : k >= EndOf(b, n + 1) => k >= e
      BY <2>5, <2>6, <3>7
    <3> QED BY <2>4, <3>4, <3>5, <3>6, <3>8
  <2>8. CASE b[n] # NL
    <3>1. b[n] \in Ink /\ b[n] # BS
      <4>1. b[n] \in Letters
        BY <2>1
      <4> QED BY <2>8, <4>1, InkAssumption DEF Letters, BS
    <3>2. Written(b, n + 1) = putInk(s, b[n])
      BY <2>3, <2>8, <3>1 DEF terminal_putchar
    <3>3. EndOf(b, n + 1) = e + 1
      BY <2>8, EndStep
    <3>4. /\ PositionOf(Written(b, n + 1)) = IF e + 1 = VGA_WIDTH * VGA_HEIGHT THEN 0 ELSE e + 1
          /\ Written(b, n + 1).cells = [s.cells EXCEPT ![e] = b[n]]
      BY <2>2, <2>4, <3>1, <3>2, InkStep
    <3>5. s.cells \in [Cells -> Ink]
      BY <2>2 DEF OnScreen
    <3> HIDE DEF s, e
    <3>6. \A k \in Cells : k >= e + 1 => k >= e /\ k # e
      BY <2>5, <2>6
    <3>7. PositionOf(Written(b, n + 1)) = EndOf(b, n + 1)
      BY <2>5, <3>3, <3>4, Screens
    <3> QED BY <2>4, <3>3, <3>4, <3>5, <3>6, <3>7
  <2> QED BY <2>7, <2>8
<1> HIDE DEF At
<1>3. Off = {}
  <2> SUFFICES ASSUME Off # {} PROVE FALSE
    OBVIOUS
  <2>1. Off \in SUBSET Nat
    OBVIOUS
  <2>2. PICK k \in Off : \A j \in Off : k <= j
    BY <2>1, LeastElement
  <2>3. k # 0
    BY <1>1, <2>2
  <2>4. k - 1 \in Nat /\ k - 1 < p /\ (k - 1) + 1 = k
    BY <2>2, <2>3
  <2>5. At(k - 1)
    BY <2>2, <2>4
  <2>6. At((k - 1) + 1)
    BY <1>2, <2>4, <2>5
  <2> QED BY <2>2, <2>4, <2>6
<1>4. At(p)
  BY <1>3
<1> QED BY <1>4 DEF At

\* Characters after that go one by one into the cells behind its end, as long
\* as there are any: the rest of the screen stays.
LEMMA TailWritten ==
  ASSUME NEW b \in [Slots -> Letters], NEW p \in Nat, NEW n \in Nat,
         p <= n, n <= EDITOR_BUFFER_SIZE, ShownUpto(b, p),
         \A i \in p .. n - 1 : b[i] # NL,
         EndOf(b, p) + (n - p) <= VGA_WIDTH * VGA_HEIGHT
  PROVE  \A k \in Cells : k < EndOf(b, p) \/ k >= EndOf(b, p) + (n - p) =>
           Written(b, n).cells[k] = Written(b, p).cells[k]
<1> DEFINE e == EndOf(b, p)
           size == VGA_WIDTH * VGA_HEIGHT
           At(m) == /\ \A k \in Cells : k < e \/ k >= e + (m - p) =>
                         Written(b, m).cells[k] = Written(b, p).cells[k]
                    /\ e + (m - p) < size => PositionOf(Written(b, m)) = e + (m - p)
           Off == {m \in Nat : p <= m /\ m <= n /\ ~At(m)}
<1>1. e \in Nat /\ size \in Nat /\ \A k \in Cells : k \in Nat
  <2>1. \A v, w \in Nat : v * w \in Nat
    OBVIOUS
  <2>2. RowOf(b, p) \in Nat /\ ColumnOf(b, p) \in Nat
    BY PlaceNat
  <2> QED BY <2>1, <2>2, Screens DEF EndOf, Cells
<1>2. PositionOf(Written(b, p)) = e
  <2>1. p <= EDITOR_BUFFER_SIZE
    BY Constants
  <2> QED BY <2>1, WrittenAt
<1> HIDE DEF e, size
<1>3. At(p)
  BY <1>1, <1>2
<1>4. ASSUME NEW m \in Nat, p <= m, m < n, At(m)
      PROVE  At(m + 1)
  <2> DEFINE s == Written(b, m)
  <2>1. m < EDITOR_BUFFER_SIZE /\ m <= EDITOR_BUFFER_SIZE /\ m \in Slots
    BY <1>4, Constants DEF Slots
  <2>2. s \in OnScreen
    BY <2>1, WrittenOnScreen
  <2>3. Written(b, m + 1) = terminal_putchar(s, b[m])
    BY <2>1, WrittenStep
  <2> HIDE DEF s
  <2>4. b[m] \in Ink /\ b[m] # NL /\ b[m] # BS
    <3>1. b[m] # NL
      BY <1>4
    <3>2. b[m] \in Letters
      BY <2>1
    <3> QED BY <3>1, <3>2, InkAssumption DEF Letters, BS
  <2>5. Written(b, m + 1) = putInk(s, b[m])
    BY <2>3, <2>4 DEF terminal_putchar
  <2>6. e + (m - p) < size /\ e + (m - p) \in Nat /\ (e + (m - p)) + 1 = e + ((m + 1) - p)
    BY <1>1, <1>4 DEF e, size
  <2>7. PositionOf(s) = e + (m - p)
    BY <1>4, <2>6 DEF s
  <2>8. /\ PositionOf(Written(b, m + 1)) = IF PositionOf(s) + 1 = size THEN 0 ELSE PositionOf(s) + 1
        /\ Written(b, m + 1).cells = [s.cells EXCEPT ![PositionOf(s)] = b[m]]
    BY <2>2, <2>4, <2>5, InkStep DEF size
  <2>9. e + ((m + 1) - p) < size => PositionOf(Written(b, m + 1)) = e + ((m + 1) - p)
    BY <1>1, <1>4, <2>6, <2>7, <2>8
  <2>10. ASSUME NEW k \in Cells, k < e \/ k >= e + ((m + 1) - p)
         PROVE  Written(b, m + 1).cells[k] = Written(b, p).cells[k]
    <3>1. k # e + (m - p) /\ (k < e \/ k >= e + (m - p))
      BY <1>1, <1>4, <2>10
    <3>2. s.cells[k] = Written(b, p).cells[k]
      BY <1>4, <3>1 DEF s
    <3>3. s.cells \in [Cells -> Ink]
      BY <2>2 DEF OnScreen
    <3> QED BY <2>7, <2>8, <3>1, <3>2, <3>3
  <2> QED BY <2>9, <2>10
<1> HIDE DEF At
<1>5. Off = {}
  <2> SUFFICES ASSUME Off # {} PROVE FALSE
    OBVIOUS
  <2>1. Off \in SUBSET Nat
    OBVIOUS
  <2>2. PICK k \in Off : \A j \in Off : k <= j
    BY <2>1, LeastElement
  <2>3. k # p
    BY <1>3, <2>2
  <2>4. k - 1 \in Nat /\ p <= k - 1 /\ k - 1 < n /\ k - 1 <= n /\ (k - 1) + 1 = k
    BY <2>2, <2>3
  <2>5. At(k - 1)
    BY <2>2, <2>4
  <2>6. At((k - 1) + 1)
    BY <1>4, <2>4, <2>5
  <2> QED BY <2>2, <2>4, <2>6
<1>6. At(n)
  BY <1>5
<1> QED BY <1>6 DEF At, e

\* Three characters, one after the other.
LEMMA WriteThree ==
  ASSUME NEW s, NEW x \in Chars, NEW y \in Chars, NEW z \in Chars
  PROVE  terminal_write(s, <<x, y, z>>) = terminal_putchar(terminal_putchar(terminal_putchar(s, x), y), z)
<1>1. <<>> \in Seq(Chars) /\ Len(<<>>) = 0
  OBVIOUS
<1>2. <<x>> \in Seq(Chars) /\ Len(<<x>>) = 1 /\ <<x>>[1] = x
  OBVIOUS
<1>3. <<x, y>> \in Seq(Chars) /\ Len(<<x, y>>) = 2 /\ <<x, y>>[1] = x /\ <<x, y>>[2] = y
  OBVIOUS
<1>4. <<x, y, z>> \in Seq(Chars) /\ Len(<<x, y, z>>) = 3
      /\ <<x, y, z>>[1] = x /\ <<x, y, z>>[2] = y /\ <<x, y, z>>[3] = z
  OBVIOUS
<1>5. terminal_write(s, <<>>) = s
  BY <1>1, WriteEmpty
<1> DEFINE d == <<>>
           e == <<x>>
           f == <<x, y>>
           g == <<x, y, z>>
<1> HIDE DEF d, e, f, g
<1>6. terminal_write(s, e) = terminal_putchar(terminal_write(s, d), x)
  <2>1. d \in Seq(Chars) /\ e \in Seq(Chars) /\ Len(d) = 0 /\ Len(e) = 1 /\ e[1] = x
    BY <1>1, <1>2 DEF d, e
  <2>2. Len(e) = Len(d) + 1 /\ \A k \in 1 .. Len(d) : e[k] = d[k]
    BY <2>1
  <2> QED BY <2>1, <2>2, WriteStep
<1>7. terminal_write(s, f) = terminal_putchar(terminal_write(s, e), y)
  <2>1. e \in Seq(Chars) /\ f \in Seq(Chars) /\ Len(e) = 1 /\ Len(f) = 2 /\ e[1] = x /\ f[1] = x /\ f[2] = y
    BY <1>2, <1>3 DEF e, f
  <2>2. Len(f) = Len(e) + 1 /\ \A k \in 1 .. Len(e) : f[k] = e[k]
    BY <2>1
  <2> QED BY <2>1, <2>2, WriteStep
<1>8. terminal_write(s, g) = terminal_putchar(terminal_write(s, f), z)
  <2>1. /\ f \in Seq(Chars) /\ g \in Seq(Chars) /\ Len(f) = 2 /\ Len(g) = 3
        /\ f[1] = x /\ f[2] = y /\ g[1] = x /\ g[2] = y /\ g[3] = z
    BY <1>3, <1>4 DEF f, g
  <2>2. Len(g) = Len(f) + 1 /\ \A k \in 1 .. Len(f) : g[k] = f[k]
    BY <2>1
  <2>3. f \in Seq(Chars) /\ g \in Seq(Chars) /\ g[Len(g)] = z
    BY <2>1
  <2> QED BY <2>2, <2>3, WriteStep
<1> QED BY <1>5, <1>6, <1>7, <1>8, Zenon DEF d, g

\* A write by coordinates at a cell of the screen.
LEMMA PutAtCell ==
  ASSUME NEW s, NEW c, NEW x \in Nat, NEW y \in Nat, y * VGA_WIDTH + x \in Cells
  PROVE  terminal_putentryat(s, c, x, y) = [s EXCEPT !.cells[y * VGA_WIDTH + x] = c]
<1> DEFINE k == y * VGA_WIDTH + x
<1>1. k \in Nat /\ k < SIZE_T
  BY Screens DEF Cells
<1>2. k % SIZE_T = k
  BY <1>1, ModSmall, Screens
<1> QED BY <1>2 DEF terminal_putentryat

\* The record of a screen, and the steps of terminal_putchar on it.
At(r, c, f) == [row |-> r, col |-> c, cells |-> f]

LEMMA BackAt ==
  ASSUME NEW r \in Nat, NEW c \in Nat, NEW f
  PROVE  /\ c > 0 => backOne(At(r, c, f)) = At(r, c - 1, f)
         /\ backOne(At(r + 1, 0, f)) = At(r, VGA_WIDTH - 1, f)
<1>1. c > 0 => backOne(At(r, c, f)) = At(r, c - 1, f)
  BY DEF backOne, At
<1>2. backOne(At(r + 1, 0, f)) = At(r, VGA_WIDTH - 1, f)
  <2>1. ~(0 > 0) /\ r + 1 > 0 /\ (r + 1) - 1 = r
    OBVIOUS
  <2>2. backOne(At(r + 1, 0, f)) = At((r + 1) - 1, VGA_WIDTH - 1, f)
    BY <2>1 DEF backOne, At
  <2> QED BY <2>1, <2>2
<1> QED BY <1>1, <1>2

LEMMA PutAt ==
  ASSUME NEW r \in Nat, NEW c \in Nat, NEW f \in [Cells -> Ink], r * VGA_WIDTH + c \in Cells
  PROVE  terminal_putentryat(At(r, c, f), Blank, c, r) = At(r, c, [f EXCEPT ![r * VGA_WIDTH + c] = Blank])
<1>1. terminal_putentryat(At(r, c, f), Blank, c, r) = [At(r, c, f) EXCEPT !.cells[r * VGA_WIDTH + c] = Blank]
  BY PutAtCell
<1> QED BY <1>1 DEF At

\* The cells with cell k blank.
Cleared(f, k) == [f EXCEPT ![k] = Blank]

LEMMA EraseAt ==
  ASSUME NEW s, NEW r \in Nat, NEW c \in Nat, NEW f \in [Cells -> Ink], NEW k \in Cells,
         k = r * VGA_WIDTH + c, backOne(s) = At(r, c, f)
  PROVE  terminal_putchar(s, BS) = At(r, c, Cleared(f, k))
<1>1. At(r, c, f).row = r /\ At(r, c, f).col = c
  BY DEF At
<1>2. BS # NL
  BY DEF BS, NL
<1>3. terminal_putchar(s, BS) = putBackspace(s)
  BY <1>2 DEF terminal_putchar
<1>4. putBackspace(s) = terminal_putentryat(At(r, c, f), Blank, c, r)
  BY <1>1 DEF putBackspace
<1>5. terminal_putentryat(At(r, c, f), Blank, c, r) = At(r, c, [f EXCEPT ![r * VGA_WIDTH + c] = Blank])
  BY PutAt
<1> QED BY <1>3, <1>4, <1>5, Zenon DEF Cleared

LEMMA BlankAt ==
  ASSUME NEW r \in Nat, NEW c \in Nat, NEW f \in [Cells -> Ink], r * VGA_WIDTH + c \in Cells,
         f[r * VGA_WIDTH + c] = Blank
  PROVE  terminal_putchar(At(r, c, f), Blank)
           = IF inc(c) = VGA_WIDTH THEN At(nextRow(r), 0, f) ELSE At(r, inc(c), f)
<1>1. Blank # NL /\ Blank # BS
  BY InkAssumption DEF Blank, NL, BS
<1>2. At(r, c, f).row = r /\ At(r, c, f).col = c
  BY DEF At
<1>3. terminal_putentryat(At(r, c, f), Blank, c, r) = At(r, c, f)
  <2>1. [f EXCEPT ![r * VGA_WIDTH + c] = Blank] = f
    OBVIOUS
  <2> QED BY <2>1, PutAt
<1>4. putInk(At(r, c, f), Blank) = IF inc(c) = VGA_WIDTH THEN [At(r, c, f) EXCEPT !.col = 0, !.row = nextRow(r)]
                                   ELSE [At(r, c, f) EXCEPT !.col = inc(c)]
  BY <1>2, <1>3 DEF putInk
<1>5. [At(r, c, f) EXCEPT !.col = 0, !.row = nextRow(r)] = At(nextRow(r), 0, f)
  <2>1. ASSUME NEW x
        PROVE  [At(r, c, f) EXCEPT !.col = 0, !.row = x] = At(x, 0, f)
    <3>1. [At(r, c, f) EXCEPT !.col = 0] = At(r, 0, f)
      BY DEF At
    <3>2. [At(r, 0, f) EXCEPT !.row = x] = At(x, 0, f)
      BY DEF At
    <3> QED BY <3>1, <3>2
  <2> QED BY <2>1
<1>6. [At(r, c, f) EXCEPT !.col = inc(c)] = At(r, inc(c), f)
  BY DEF At
<1> QED BY <1>1, <1>4, <1>5, <1>6 DEF terminal_putchar

\* Backspace, Blank, Backspace at the cursor of row r, column c, which the
\* editor's cursor may have pushed over the right border (kernel.c:385-387):
\* the cell before the cursor is blank and the cursor is on it.
LEMMA EraseEchoAt ==
  ASSUME NEW r \in Nat, NEW c \in Nat, NEW f \in [Cells -> Ink],
         r < VGA_HEIGHT, c >= 1, r * VGA_WIDTH + c < VGA_WIDTH * VGA_HEIGHT
  PROVE  terminal_write(At(r, c, f), <<BS, Blank, BS>>)
           = At(r, c - 1, [f EXCEPT ![r * VGA_WIDTH + (c - 1)] = Blank])
<1> DEFINE k == r * VGA_WIDTH + (c - 1)
           g == Cleared(f, k)
<1>1. BS \in Chars /\ Blank \in Chars /\ Blank \in Ink
  BY InkAssumption DEF Chars, Blank
<1>2. terminal_write(At(r, c, f), <<BS, Blank, BS>>)
        = terminal_putchar(terminal_putchar(terminal_putchar(At(r, c, f), BS), Blank), BS)
  BY <1>1, WriteThree
<1>3. k \in Cells /\ c \in Nat /\ c - 1 \in Nat /\ c < SIZE_T
  <2>1. \A v \in Nat, m \in Nat : m * v \in Nat
    OBVIOUS
  <2>2. r * VGA_WIDTH \in Nat
    BY <2>1, Screens
  <2> QED BY <2>2, Screens DEF Cells
<1>4. g \in [Cells -> Ink] /\ Cleared(g, k) = g /\ g[k] = Blank
  <2> HIDE DEF k
  <2> QED BY <1>1, <1>3 DEF Cleared
<1>5. terminal_putchar(At(r, c, f), BS) = At(r, c - 1, g)
  <2>1. backOne(At(r, c, f)) = At(r, c - 1, f)
    BY BackAt
  <2>2. k = r * VGA_WIDTH + (c - 1)
    OBVIOUS
  <2> HIDE DEF k
  <2> QED BY <1>3, <2>1, <2>2, EraseAt
<1>6. inc(c - 1) = c /\ (c = VGA_WIDTH => nextRow(r) = r + 1)
  <2>1. (c - 1) + 1 = c /\ r + 1 < SIZE_T
    BY <1>3, Screens
  <2>2. ASSUME c = VGA_WIDTH PROVE r + 1 # VGA_HEIGHT
    <3>1. \A v \in Nat, m \in Nat : m * v + v = v * (m + 1)
      OBVIOUS
    <3>2. r * VGA_WIDTH + VGA_WIDTH = VGA_WIDTH * (r + 1)
      BY <3>1, Screens
    <3>3. VGA_WIDTH * (r + 1) < VGA_WIDTH * VGA_HEIGHT
      BY <2>2, <3>2
    <3> QED BY <3>3, Screens
  <2>3. inc(c - 1) = c /\ inc(r) = r + 1
    BY <1>3, <2>1, IncIs, Screens
  <2> QED BY <2>2, <2>3 DEF nextRow
<1> HIDE DEF g
<1>7. terminal_putchar(At(r, c - 1, g), Blank) = IF c = VGA_WIDTH THEN At(r + 1, 0, g) ELSE At(r, c, g)
  <2>1. terminal_putchar(At(r, c - 1, g), Blank)
          = IF inc(c - 1) = VGA_WIDTH THEN At(nextRow(r), 0, g) ELSE At(r, inc(c - 1), g)
    BY <1>3, <1>4, BlankAt
  <2> QED BY <1>6, <2>1
<1>8. backOne(IF c = VGA_WIDTH THEN At(r + 1, 0, g) ELSE At(r, c, g)) = At(r, c - 1, g)
  <2>1. backOne(At(r + 1, 0, g)) = At(r, VGA_WIDTH - 1, g) /\ backOne(At(r, c, g)) = At(r, c - 1, g)
    BY BackAt
  <2> QED BY <2>1
<1>9. ASSUME NEW u, NEW h \in [Cells -> Ink], backOne(u) = At(r, c - 1, h)
      PROVE  terminal_putchar(u, BS) = At(r, c - 1, Cleared(h, k))
  <2>1. k = r * VGA_WIDTH + (c - 1)
    OBVIOUS
  <2> HIDE DEF k
  <2> QED BY <1>3, <1>9, <2>1, EraseAt
<1>10. terminal_putchar(terminal_putchar(At(r, c - 1, g), Blank), BS) = At(r, c - 1, Cleared(g, k))
  BY <1>4, <1>7, <1>8, <1>9
<1> QED BY <1>2, <1>4, <1>5, <1>10 DEF g, Cleared

----------------------------------------------------------------------------
(* The screen follows the text *)

\* The C string at the start of the text: up to the first NUL in it.
LEMMA CTextIs ==
  ASSUME NEW b \in [Slots -> Letters], NEW n \in Nat, n <= EDITOR_BUFFER_SIZE,
         \A i \in n .. EDITOR_BUFFER_SIZE - 1 : b[i] = NUL
  PROVE  \E m \in Nat : m <= n /\ CText(b) = Upto(b, m) /\ (m = n \/ b[m] = NUL)
<1> DEFINE Ends(k) == (\A i \in 0 .. k - 1 : b[i] # NUL) /\ (k = EDITOR_BUFFER_SIZE \/ b[k] = NUL)
           Nuls == {k \in Nat : k <= EDITOR_BUFFER_SIZE /\ (k = EDITOR_BUFFER_SIZE \/ b[k] = NUL)}
           m == CHOOSE k \in 0 .. EDITOR_BUFFER_SIZE : Ends(k)
<1>1. EDITOR_BUFFER_SIZE \in Nat
  BY Constants
<1>2. \E k \in 0 .. EDITOR_BUFFER_SIZE : Ends(k)
  <2>1. Nuls \in SUBSET Nat /\ EDITOR_BUFFER_SIZE \in Nuls
    BY <1>1
  <2>2. PICK k \in Nuls : \A j \in Nuls : k <= j
    BY <2>1, LeastElement
  <2>3. \A i \in 0 .. k - 1 : i \in Nat /\ i <= EDITOR_BUFFER_SIZE /\ ~(k <= i)
    BY <1>1, <2>2
  <2>4. \A i \in 0 .. k - 1 : b[i] # NUL
    BY <2>2, <2>3
  <2> QED BY <1>1, <2>2, <2>4
<1> HIDE DEF Ends
<1>3. m \in 0 .. EDITOR_BUFFER_SIZE /\ Ends(m)
  BY <1>2
<1>4. CText(b) = Upto(b, m)
  BY DEF CText, Upto, Ends
<1> HIDE DEF m
<1>5. m <= n
  <2> SUFFICES ASSUME ~(m <= n) PROVE FALSE
    OBVIOUS
  <2>1. n \in 0 .. m - 1 /\ n \in n .. EDITOR_BUFFER_SIZE - 1
    BY <1>1, <1>3
  <2> QED BY <1>3, <2>1 DEF Ends
<1>6. m = n \/ b[m] = NUL
  BY <1>1, <1>3, <1>5 DEF Ends
<1> QED BY <1>1, <1>3, <1>4, <1>5, <1>6

\* The cursor's column counts from some slot z on, where no line begins later;
\* below zero it wraps.  (The row is not lowered when a newline is erased, so z
\* need not be the start of the line the end of the text is on.)
CursorAt(b, n, cx) ==
  \E z \in 0 .. EDITOR_BUFFER_SIZE :
    /\ cx = n - z \/ cx = (n - z) + SIZE_T
    /\ \A q \in 0 .. n - 1 : b[q] = NL => q < z

\* Distance from the line of slot p to the end of the text.
FromLine(b, n, p) == n - (p - ColumnOf(b, p))

\* For every prefix of the text that the screen can show and on whose last
\* line the cursor is, as far from its start as the end of the text: the
\* cursor of the screen is the editor's, and the cells hold what the prefix
\* alone puts there, except where the rest of the text was.
Agrees(b, n, cx, cy, s) ==
  \A p \in 0 .. n :
    ShownUpto(b, p) /\ cy = RowOf(b, p) /\ cx = FromLine(b, n, p) =>
      /\ s.row = cy /\ s.col = cx
      /\ cy * VGA_WIDTH + cx < VGA_WIDTH * VGA_HEIGHT
      /\ s.cells \in [Cells -> Ink]
      /\ \A k \in Cells : k < EndOf(b, p) \/ k >= cy * VGA_WIDTH + cx =>
           s.cells[k] = Written(b, p).cells[k]

\* After a full redraw (kernel.c:404-410).
LEMMA RedrawAgrees ==
  ASSUME NEW b \in [Slots -> Letters], NEW n \in Nat, n <= EDITOR_BUFFER_SIZE,
         \A i \in n .. EDITOR_BUFFER_SIZE - 1 : b[i] = NUL,
         NEW cx \in Nat, NEW cy \in Nat, CursorAt(b, n, cx),
         EndOf(b, n) < VGA_WIDTH * VGA_HEIGHT
  PROVE  Agrees(b, n, cx, cy, [terminal_write(terminal_initialize, CText(b)) EXCEPT !.row = cy, !.col = cx])
<1> DEFINE s == [terminal_write(terminal_initialize, CText(b)) EXCEPT !.row = cy, !.col = cx]
<1>1. PICK m \in Nat : m <= n /\ CText(b) = Upto(b, m) /\ (m = n \/ b[m] = NUL)
  BY CTextIs
<1>2. m <= EDITOR_BUFFER_SIZE
  BY <1>1, Constants
<1>3. Written(b, m) \in OnScreen
  BY <1>2, WrittenOnScreen
<1>4. s.row = cy /\ s.col = cx /\ s.cells = Written(b, m).cells
  BY <1>1, <1>3 DEF Written, OnScreen
<1>5. s.cells \in [Cells -> Ink]
  BY <1>3, <1>4 DEF OnScreen
<1> HIDE DEF s
<1> SUFFICES ASSUME NEW p \in 0 .. n, ShownUpto(b, p), cy = RowOf(b, p), cx = FromLine(b, n, p)
             PROVE  /\ cy * VGA_WIDTH + cx < VGA_WIDTH * VGA_HEIGHT
                    /\ \A k \in Cells : k < EndOf(b, p) \/ k >= cy * VGA_WIDTH + cx =>
                         s.cells[k] = Written(b, p).cells[k]
  BY <1>4, <1>5 DEF Agrees, s
<1>6. p \in Nat /\ p <= n /\ RowOf(b, p) \in Nat /\ ColumnOf(b, p) \in Nat /\ ColumnOf(b, p) <= p
  BY PlaceNat
<1>7. \A i \in p .. n - 1 : b[i] # NL
  <2>1. PICK z \in 0 .. EDITOR_BUFFER_SIZE :
          /\ cx = n - z \/ cx = (n - z) + SIZE_T
          /\ \A q \in 0 .. n - 1 : b[q] = NL => q < z
    BY DEF CursorAt
  <2>2. z <= p
    <3>1. EDITOR_BUFFER_SIZE < SIZE_T /\ EDITOR_BUFFER_SIZE \in Nat /\ SIZE_T \in Nat
      BY EditorAssumption, Screens
    <3>2. cx = n - (p - ColumnOf(b, p))
      BY DEF FromLine
    <3> QED BY <1>6, <2>1, <3>1, <3>2
  <2>3. \A i \in p .. n - 1 : i \in 0 .. n - 1 /\ ~(i < z)
    BY <1>6, <2>1, <2>2
  <2> QED BY <2>1, <2>3
<1>8. p <= m
  <2> SUFFICES ASSUME ~(p <= m) PROVE FALSE
    OBVIOUS
  <2>1. m \in 0 .. p - 1 /\ m # n
    BY <1>1, <1>6
  <2> QED BY <1>1, <2>1 DEF ShownUpto
<1>9. EndOf(b, n) = EndOf(b, p) + (n - p) /\ cy * VGA_WIDTH + cx = EndOf(b, p) + (n - p) /\ EndOf(b, p) \in Nat
  <2>1. RowOf(b, n) = RowOf(b, p) /\ ColumnOf(b, n) = ColumnOf(b, p) + (n - p)
    BY <1>6, <1>7, SameLine
  <2>2. RowOf(b, p) * VGA_WIDTH \in Nat
    <3>1. \A v, w \in Nat : v * w \in Nat
      OBVIOUS
    <3> QED BY <1>6, <3>1, Screens
  <2> QED BY <1>6, <2>1, <2>2 DEF EndOf, FromLine
<1>10. /\ \A i \in p .. m - 1 : b[i] # NL
       /\ EndOf(b, p) + (m - p) <= VGA_WIDTH * VGA_HEIGHT
       /\ EndOf(b, p) + (m - p) <= cy * VGA_WIDTH + cx
  <2>1. \A i \in p .. m - 1 : i \in p .. n - 1
    BY <1>1, <1>6
  <2> QED BY <1>1, <1>6, <1>7, <1>9, <2>1, Screens
<1>11. \A k \in Cells : k < EndOf(b, p) \/ k >= EndOf(b, p) + (m - p) =>
         Written(b, m).cells[k] = Written(b, p).cells[k]
  BY <1>2, <1>6, <1>8, <1>10, TailWritten
<1>12. \A k \in Cells : k \in Nat
  BY Screens DEF Cells
<1>13. \A k \in Cells : k >= cy * VGA_WIDTH + cx => k >= EndOf(b, p) + (m - p)
  BY <1>1, <1>6, <1>8, <1>9, <1>10, <1>12
<1> QED BY <1>4, <1>9, <1>11, <1>13

\* The text before a slot decides what the screen shows of it.
LEMMA PrefixSame ==
  ASSUME NEW b, NEW c, NEW p \in Nat, \A i \in 0 .. p - 1 : c[i] = b[i]
  PROVE  /\ ShownUpto(c, p) <=> ShownUpto(b, p)
         /\ RowOf(c, p) = RowOf(b, p) /\ ColumnOf(c, p) = ColumnOf(b, p) /\ EndOf(c, p) = EndOf(b, p)
         /\ Written(c, p) = Written(b, p)
<1>1. RowOf(c, p) = RowOf(b, p) /\ ColumnOf(c, p) = ColumnOf(b, p)
  BY PlaceSame
<1>2. ASSUME NEW i \in 0 .. p PROVE ColumnOf(c, i) = ColumnOf(b, i)
  <2>1. i \in Nat /\ \A j \in 0 .. i - 1 : j \in 0 .. p - 1
    OBVIOUS
  <2>2. \A j \in 0 .. i - 1 : c[j] = b[j]
    BY <2>1
  <2> QED BY <2>1, <2>2, PlaceSame
<1>3. ShownUpto(c, p) <=> ShownUpto(b, p)
  <2>1. EndOf(c, p) = EndOf(b, p)
    BY <1>1 DEF EndOf
  <2>2. \A i \in 0 .. p - 1 : i \in 0 .. p
    OBVIOUS
  <2> QED BY <1>2, <2>1, <2>2 DEF ShownUpto
<1>4. Upto(c, p) = Upto(b, p)
  <2>1. \A i \in 1 .. p : i - 1 \in 0 .. p - 1
    OBVIOUS
  <2> QED BY <2>1 DEF Upto
<1> QED BY <1>1, <1>3, <1>4 DEF EndOf, Written

\* After the erasing in place of Backspace (kernel.c:365-389).
LEMMA EraseAgrees ==
  ASSUME NEW b \in [Slots -> Letters], NEW n \in Nat, n <= EDITOR_BUFFER_SIZE, n > 0,
         NEW cx \in 0 .. SIZE_T - 1, NEW cy, NEW row, NEW col, NEW f,
         Agrees(b, n, cx, cy, At(row, col, f))
  PROVE  Agrees([b EXCEPT ![n - 1] = NUL], n - 1, dec(cx), cy,
                terminal_write(At(row, col, f), <<BS, Blank, BS>>))
<1> DEFINE c == [b EXCEPT ![n - 1] = NUL]
           t == terminal_write(At(row, col, f), <<BS, Blank, BS>>)
<1> SUFFICES ASSUME NEW p \in 0 .. n - 1, ShownUpto(c, p), cy = RowOf(c, p), dec(cx) = FromLine(c, n - 1, p)
             PROVE  /\ t.row = cy /\ t.col = dec(cx)
                    /\ cy * VGA_WIDTH + dec(cx) < VGA_WIDTH * VGA_HEIGHT
                    /\ t.cells \in [Cells -> Ink]
                    /\ \A k \in Cells : k < EndOf(c, p) \/ k >= cy * VGA_WIDTH + dec(cx) =>
                         t.cells[k] = Written(c, p).cells[k]
  BY DEF Agrees
<1>1. p \in Nat /\ p <= n - 1 /\ p \in 0 .. n /\ n - 1 \in Nat
  OBVIOUS
<1>2. \A i \in 0 .. p - 1 : c[i] = b[i]
  <2>1. \A i \in 0 .. p - 1 : i \in Slots /\ i # n - 1
    BY <1>1, Constants DEF Slots
  <2> QED BY <2>1
<1> HIDE DEF c
<1>3. /\ ShownUpto(b, p) /\ RowOf(c, p) = RowOf(b, p) /\ ColumnOf(c, p) = ColumnOf(b, p)
      /\ EndOf(c, p) = EndOf(b, p) /\ Written(c, p) = Written(b, p)
  BY <1>1, <1>2, PrefixSame
<1>4. RowOf(b, p) \in Nat /\ ColumnOf(b, p) \in Nat /\ ColumnOf(b, p) <= p
  BY <1>1, PlaceNat
<1>5. cx >= 1 /\ dec(cx) = cx - 1 /\ cx = FromLine(b, n, p)
  <2>1. dec(cx) = (n - 1) - (p - ColumnOf(b, p))
    BY <1>3 DEF FromLine
  <2>2. dec(cx) = IF cx = 0 THEN SIZE_T - 1 ELSE cx - 1
    BY CounterIs
  <2>3. EDITOR_BUFFER_SIZE < SIZE_T /\ EDITOR_BUFFER_SIZE \in Nat /\ SIZE_T \in Nat
    BY EditorAssumption, Screens
  <2>4. cx # 0
    BY <1>1, <1>4, <2>1, <2>2, <2>3
  <2> QED BY <1>1, <1>4, <2>1, <2>2, <2>4 DEF FromLine
<1>6. /\ row = cy /\ col = cx
      /\ cy * VGA_WIDTH + cx < VGA_WIDTH * VGA_HEIGHT
      /\ f \in [Cells -> Ink]
      /\ \A k \in Cells : k < EndOf(b, p) \/ k >= cy * VGA_WIDTH + cx => f[k] = Written(b, p).cells[k]
  <2>1. /\ At(row, col, f).row = row /\ At(row, col, f).col = col /\ At(row, col, f).cells = f
    BY DEF At
  <2>2. cy = RowOf(b, p)
    BY <1>3
  <2> QED BY <1>1, <1>3, <1>5, <2>1, <2>2 DEF Agrees
<1>7. cy \in Nat /\ cx \in Nat /\ cy < VGA_HEIGHT
  <2>1. cy \in Nat /\ cx \in Nat
    BY <1>3, <1>4
  <2>2. ASSUME cy >= VGA_HEIGHT PROVE FALSE
    <3>1. \A x, y, w \in Nat : x >= y => x * w >= w * y
      BY SMT
    <3>2. cy * VGA_WIDTH >= VGA_WIDTH * VGA_HEIGHT
      BY <2>1, <2>2, <3>1, Screens
    <3>3. cy * VGA_WIDTH \in Nat
      <4>1. \A v, w \in Nat : v * w \in Nat
        OBVIOUS
      <4> QED BY <2>1, <4>1, Screens
    <3> QED BY <1>6, <2>1, <3>2, <3>3, Screens
  <2> QED BY <2>1, <2>2, Screens
<1> DEFINE k0 == cy * VGA_WIDTH + (cx - 1)
<1>8. t = At(cy, cx - 1, [f EXCEPT ![k0] = Blank])
  BY <1>5, <1>6, <1>7, EraseEchoAt
<1>9. k0 \in Nat /\ k0 + 1 = cy * VGA_WIDTH + cx /\ k0 \in Cells
  <2>1. cy * VGA_WIDTH \in Nat
    <3>1. \A v, w \in Nat : v * w \in Nat
      OBVIOUS
    <3> QED BY <1>7, <3>1, Screens
  <2>2. PICK w \in Nat : w = cy * VGA_WIDTH
    BY <2>1
  <2>3. w + cx < VGA_WIDTH * VGA_HEIGHT
    BY <1>6, <2>2
  <2>4. k0 = w + (cx - 1)
    BY <2>2
  <2> HIDE DEF k0
  <2>5. k0 \in Nat /\ k0 + 1 = w + cx /\ k0 \in Cells
    BY <1>5, <1>7, <2>2, <2>3, <2>4, Screens DEF Cells
  <2> QED BY <2>2, <2>5
<1>10. EndOf(b, p) <= k0 /\ EndOf(b, p) \in Nat
  <2>1. cy * VGA_WIDTH \in Nat
    <3>1. \A v, w \in Nat : v * w \in Nat
      OBVIOUS
    <3> QED BY <1>7, <3>1, Screens
  <2>2. EndOf(b, p) = cy * VGA_WIDTH + ColumnOf(b, p)
    BY <1>3 DEF EndOf
  <2>3. ColumnOf(b, p) <= cx - 1
    BY <1>1, <1>4, <1>5 DEF FromLine
  <2> QED BY <1>4, <1>7, <2>1, <2>2, <2>3
<1>11. Written(b, p).cells[k0] = Blank
  <2>1. p <= EDITOR_BUFFER_SIZE
    BY <1>1, Constants
  <2> QED BY <1>1, <1>3, <1>9, <1>10, <2>1, WrittenAt
<1> HIDE DEF k0, t
<1>12. t.row = cy /\ t.col = cx - 1 /\ t.cells = [f EXCEPT ![k0] = Blank]
  BY <1>8 DEF At
<1>13. t.cells \in [Cells -> Ink]
  BY <1>6, <1>12, InkAssumption DEF Blank
<1>14. ASSUME NEW k \in Cells, k < EndOf(b, p) \/ k >= k0
       PROVE  t.cells[k] = Written(b, p).cells[k]
  <2>1. CASE k = k0
    BY <1>6, <1>9, <1>11, <1>12, <2>1
  <2>2. CASE k # k0
    <3>1. k \in Nat
      BY Screens DEF Cells
    <3>2. k < EndOf(b, p) \/ k >= cy * VGA_WIDTH + cx
      BY <1>9, <1>10, <1>14, <2>2, <3>1
    <3> QED BY <1>6, <1>12, <2>2, <3>2
  <2> QED BY <2>1, <2>2
<1>15. cy * VGA_WIDTH + dec(cx) = k0 /\ k0 < VGA_WIDTH * VGA_HEIGHT
  BY <1>5, <1>6, <1>9, Screens DEF k0
<1> QED BY <1>3, <1>5, <1>12, <1>13, <1>14, <1>15

\* The three ways the cursor moves.
LEMMA CursorNewline ==
  ASSUME NEW b \in [Slots -> Letters], NEW n \in Slots
  PROVE  CursorAt([b EXCEPT ![n] = NL], n + 1, 0)
<1>1. n + 1 \in 0 .. EDITOR_BUFFER_SIZE /\ 0 = (n + 1) - (n + 1)
  BY Constants DEF Slots
<1>2. \A q \in 0 .. (n + 1) - 1 : q < n + 1
  BY Constants DEF Slots
<1> QED BY <1>1, <1>2 DEF CursorAt

LEMMA CursorForth ==
  ASSUME NEW b \in [Slots -> Letters], NEW n \in Slots, NEW cx \in 0 .. SIZE_T - 1,
         NEW c \in Ink, CursorAt(b, n, cx)
  PROVE  CursorAt([b EXCEPT ![n] = c], n + 1, inc(cx))
<1>1. PICK z \in 0 .. EDITOR_BUFFER_SIZE :
        /\ cx = n - z \/ cx = (n - z) + SIZE_T
        /\ \A q \in 0 .. n - 1 : b[q] = NL => q < z
  BY DEF CursorAt
<1>2. /\ EDITOR_BUFFER_SIZE < SIZE_T /\ EDITOR_BUFFER_SIZE \in Nat /\ SIZE_T \in Nat
      /\ n \in Nat /\ n + 1 <= EDITOR_BUFFER_SIZE
  BY EditorAssumption, Screens DEF Slots
<1>3. inc(cx) = IF cx + 1 = SIZE_T THEN 0 ELSE cx + 1
  BY CounterIs
<1>4. inc(cx) = (n + 1) - z \/ inc(cx) = ((n + 1) - z) + SIZE_T
  BY <1>1, <1>2, <1>3
<1>5. ASSUME NEW q \in 0 .. (n + 1) - 1, [b EXCEPT ![n] = c][q] = NL
      PROVE  q < z
  <2>1. c # NL
    BY InkAssumption DEF NL
  <2>2. q \in Slots /\ q \in Nat /\ (q = n \/ q \in 0 .. n - 1)
    BY <1>2 DEF Slots
  <2>3. q # n
    BY <1>5, <2>1
  <2> QED BY <1>1, <1>5, <2>2, <2>3
<1> QED BY <1>4, <1>5 DEF CursorAt

LEMMA CursorBack ==
  ASSUME NEW b \in [Slots -> Letters], NEW n \in Nat, n > 0, n <= EDITOR_BUFFER_SIZE,
         NEW cx \in 0 .. SIZE_T - 1, CursorAt(b, n, cx)
  PROVE  CursorAt([b EXCEPT ![n - 1] = NUL], n - 1, dec(cx))
<1>1. PICK z \in 0 .. EDITOR_BUFFER_SIZE :
        /\ cx = n - z \/ cx = (n - z) + SIZE_T
        /\ \A q \in 0 .. n - 1 : b[q] = NL => q < z
  BY DEF CursorAt
<1>2. EDITOR_BUFFER_SIZE < SIZE_T /\ EDITOR_BUFFER_SIZE \in Nat /\ SIZE_T \in Nat
  BY EditorAssumption, Screens
<1>3. dec(cx) = IF cx = 0 THEN SIZE_T - 1 ELSE cx - 1
  BY CounterIs
<1>4. dec(cx) = (n - 1) - z \/ dec(cx) = ((n - 1) - z) + SIZE_T
  BY <1>1, <1>2, <1>3
<1>5. ASSUME NEW q \in 0 .. (n - 1) - 1, [b EXCEPT ![n - 1] = NUL][q] = NL
      PROVE  q < z
  <2>1. q \in Slots /\ q # n - 1 /\ q \in 0 .. n - 1
    BY <1>2 DEF Slots
  <2>2. b[q] = NL
    BY <1>5, <2>1
  <2> QED BY <1>1, <2>1, <2>2
<1> QED BY <1>4, <1>5 DEF CursorAt

----------------------------------------------------------------------------
(* ScreenShowsText *)

(***************************************************************************)
(* ScreenShowsText alone is not inductive: whether erasing leaves the      *)
(* screen of the shorter text depends on the cells before the cursor, on   *)
(* rows the screen could not show as they are, and on where the cursor     *)
(* came from.  Agrees says it for all the prefixes Backspace can reach.    *)
(***************************************************************************)
ScreenInv ==
  /\ buffer \in [Slots -> Letters]
  /\ CursorAt(buffer, position, cursor_x)
  /\ mode = "edit" /\ drawn => Agrees(buffer, position, cursor_x, cursor_y, screen)

LEMMA TextIs ==
  ASSUME position \in Nat
  PROVE  EndRow = RowOf(buffer, position) /\ EndColumn = ColumnOf(buffer, position)
<1>1. \A i \in 1 .. position : Text[i] = buffer[i - 1]
  BY DEF Text
<1>2. {i \in 1 .. position : Text[i] = NL} = {i \in 1 .. position : buffer[i - 1] = NL}
  BY <1>1
<1> QED BY <1>2 DEF EndRow, EndColumn, RowOf

\* A redraw from the new text and cursor.
LEMMA RedrawStep ==
  ASSUME TextSound', buffer' \in [Slots -> Letters], CursorAt(buffer', position', cursor_x'), Redraw
  PROVE  ScreenInv'
<1>1. ASSUME drawn'
      PROVE  Agrees(buffer', position', cursor_x', cursor_y', screen')
  <2>1. /\ position' \in Nat /\ position' <= EDITOR_BUFFER_SIZE
        /\ cursor_x' \in Nat /\ cursor_y' \in Nat
        /\ \A i \in position' .. EDITOR_BUFFER_SIZE - 1 : buffer'[i] = NUL
    BY Constants DEF TextSound, NothingBehindText
  <2>2. EndRow' = RowOf(buffer', position') /\ EndColumn' = ColumnOf(buffer', position')
    <3>1. \A i \in 1 .. position' : Text'[i] = buffer'[i - 1]
      BY DEF Text
    <3>2. {i \in 1 .. position' : Text'[i] = NL} = {i \in 1 .. position' : buffer'[i - 1] = NL}
      BY <3>1
    <3> QED BY <3>2 DEF EndRow, EndColumn, RowOf
  <2>3. EndOf(buffer', position') < VGA_WIDTH * VGA_HEIGHT
    BY <1>1, <2>2 DEF Redraw, Fits, EndOf
  <2>4. screen' = [terminal_write(terminal_initialize, CText(buffer')) EXCEPT !.row = cursor_y', !.col = cursor_x']
    <3>1. PICK m \in Nat : m <= position' /\ CText(buffer') = Upto(buffer', m) /\ (m = position' \/ buffer'[m] = NUL)
      BY <2>1, CTextIs
    <3>2. m <= EDITOR_BUFFER_SIZE
      BY <2>1, <3>1, Constants
    <3>3. terminal_write(terminal_initialize, CText(buffer')) \in OnScreen
      BY <3>1, <3>2, WrittenOnScreen DEF Written
    <3>4. PICK w \in OnScreen : w = terminal_write(terminal_initialize, CText(buffer'))
      BY <3>3
    <3>5. /\ terminal_row' = cursor_y' /\ terminal_column' = cursor_x' /\ terminal_buffer' = w.cells
      BY <3>4 DEF Redraw, Show, OnScreen
    <3>6. [w EXCEPT !.row = cursor_y', !.col = cursor_x'] = [row |-> cursor_y', col |-> cursor_x', cells |-> w.cells]
      <4>1. ASSUME NEW x, NEW y
            PROVE  [w EXCEPT !.row = y, !.col = x] = [row |-> y, col |-> x, cells |-> w.cells]
        <5>1. w = At(w.row, w.col, w.cells)
          BY DEF OnScreen, At
        <5>2. [w EXCEPT !.row = y] = At(y, w.col, w.cells)
          BY <5>1 DEF At
        <5>3. [At(y, w.col, w.cells) EXCEPT !.col = x] = At(y, x, w.cells)
          BY DEF At
        <5> QED BY <5>2, <5>3 DEF At
      <4> QED BY <4>1
    <3>7. screen' = [row |-> cursor_y', col |-> cursor_x', cells |-> w.cells]
      BY <3>5 DEF screen
    <3> QED BY <3>4, <3>6, <3>7
  <2> QED BY <2>1, <2>3, <2>4, RedrawAgrees
<1> QED BY <1>1 DEF ScreenInv

\* Where neither the text nor the cursor moves, a redraw is all there is to do.
LEMMA RedrawAlone ==
  ASSUME TextSound, ScreenInv, UNCHANGED textVars, Redraw
  PROVE  ScreenInv'
<1>1. TextSound'
  BY TextStays
<1>2. buffer' \in [Slots -> Letters] /\ CursorAt(buffer', position', cursor_x')
  BY DEF ScreenInv, textVars
<1> QED BY <1>1, <1>2, RedrawStep

\* Outside the editor, and before its first redraw, nothing is said of the screen.
LEMMA ScreenApart ==
  ASSUME ScreenInv, UNCHANGED textVars, mode' # "edit" \/ ~drawn'
  PROVE  ScreenInv'
BY DEF ScreenInv, textVars

LEMMA EraseScreenStep ==
  ASSUME TextSound, ScreenInv, BackspaceKey
  PROVE  ScreenInv'
<1>1. CASE position > 0
  <2> DEFINE p == position - 1
  <2>1. p \in Slots /\ position \in Nat /\ position <= EDITOR_BUFFER_SIZE /\ cursor_x \in 0 .. SIZE_T - 1
    BY <1>1, Constants DEF TextSound, Slots
  <2>2. /\ position' = p /\ buffer' = [buffer EXCEPT ![p] = NUL] /\ EraseCursor(buffer', p)
        /\ EraseEcho /\ mode' = mode /\ drawn' = drawn
    BY <1>1 DEF BackspaceKey
  <2>3. buffer'[p] = NUL
    BY <2>1, <2>2 DEF TextSound
  <2>4. cursor_y' = cursor_y /\ cursor_x' = dec(cursor_x)
    BY <2>2, <2>3, Constants DEF EraseCursor
  <2>5. buffer' \in [Slots -> Letters]
    BY <2>1, <2>2, Constants DEF ScreenInv, Letters
  <2>6. CursorAt(buffer', position', cursor_x')
    BY <1>1, <2>1, <2>2, <2>4, CursorBack DEF ScreenInv
  <2>7. ASSUME mode' = "edit", drawn'
        PROVE  Agrees(buffer', position', cursor_x', cursor_y', screen')
    <3>1. screen = At(terminal_row, terminal_column, terminal_buffer)
      BY DEF screen, At
    <3>2. Agrees(buffer, position, cursor_x, cursor_y, At(terminal_row, terminal_column, terminal_buffer))
      BY <2>2, <2>7, <3>1 DEF ScreenInv
    <3> DEFINE t == terminal_write(At(terminal_row, terminal_column, terminal_buffer), <<BS, Blank, BS>>)
    <3>3. Agrees([buffer EXCEPT ![position - 1] = NUL], position - 1, dec(cursor_x), cursor_y, t)
      BY <1>1, <2>1, <3>2, EraseAgrees DEF ScreenInv
    <3>4. terminal_row' = t.row /\ terminal_column' = t.col /\ terminal_buffer' = t.cells
      BY <2>2, <3>1 DEF EraseEcho, Show
    <3> HIDE DEF t
    <3>5. Agrees(buffer', position', cursor_x', cursor_y', t)
      BY <2>2, <2>4, <3>3
    <3>6. screen'.row = t.row /\ screen'.col = t.col /\ screen'.cells = t.cells
      BY <3>4 DEF screen
    <3> QED BY <3>5, <3>6 DEF Agrees
  <2> QED BY <2>5, <2>6, <2>7 DEF ScreenInv
<1>2. CASE ~(position > 0)
  BY <1>2 DEF BackspaceKey, ScreenInv, textVars, screenVars, screen
<1> QED BY <1>1, <1>2

LEMMA ScreenStep ==
  ASSUME ConsoleInv, ScreenInv, [ConsoleNext]_editorVars
  PROVE  ScreenInv'
<1>1. TextSound /\ TextSound' /\ ModeSound
  BY ConsoleStep, InvParts, InvPartsNext
<1>2. buffer \in [Slots -> Letters] /\ CursorAt(buffer, position, cursor_x)
  BY DEF ScreenInv
<1>3. ASSUME editor_handle_input
      PROVE  ScreenInv'
  <2>1. CASE CtrlKey
    BY <2>1 DEF CtrlKey, ScreenInv, textVars, screenVars, screen
  <2>2. CASE ShiftKey
    BY <1>1, <2>2, RedrawAlone DEF ShiftKey, textVars
  <2>3. CASE CtrlCombo
    <3>1. ASSUME NEW execute, Leave(execute)
          PROVE  ScreenInv'
      BY <3>1, ScreenApart DEF Leave
    <3>2. ASSUME UNCHANGED <<textVars, mode, shift, current_layout, ran>>, Redraw
          PROVE  ScreenInv'
      BY <1>1, <3>2, RedrawAlone DEF textVars
    <3> QED BY <2>3, <3>1, <3>2 DEF CtrlCombo
  <2>4. ASSUME Overflow
        PROVE  ScreenInv'
    BY <2>4, ScreenApart DEF Overflow
  <2>5. ASSUME HasRoom PROVE position \in Slots
    BY <1>1, <2>5, Constants DEF TextSound, HasRoom, Slots
  <2>6. CASE EnterKey
    <3>1. CASE HasRoom
      <4>1. Store(NL) /\ cursor_x' = 0 /\ Redraw
        BY <2>6, <3>1 DEF EnterKey
      <4>2. buffer' = [buffer EXCEPT ![position] = NL] /\ position' = position + 1
        BY <4>1 DEF Store
      <4>3. buffer' \in [Slots -> Letters]
        BY <1>2, <4>2 DEF Letters
      <4>4. CursorAt(buffer', position', cursor_x')
        BY <1>2, <2>5, <3>1, <4>1, <4>2, CursorNewline
      <4> QED BY <1>1, <4>1, <4>3, <4>4, RedrawStep
    <3>2. CASE ~HasRoom
      BY <2>4, <2>6, <3>2 DEF EnterKey
    <3> QED BY <3>1, <3>2
  <2>7. CASE CharacterKey
    <3>1. PICK key \in KEYS \ {"none", "enter", "bksp", "ctrl", "lshift", "rshift", "high"} :
            \E c \in Lookup(current_layout, shift, key) \cap Chars :
              IF ~HasRoom THEN Overflow
              ELSE Store(c) /\ cursor_x' = inc(cursor_x) /\ cursor_y' = cursor_y /\ Redraw
      BY <2>7 DEF CharacterKey
    <3>2. PICK c \in Lookup(current_layout, shift, key) \cap Chars :
              IF ~HasRoom THEN Overflow
              ELSE Store(c) /\ cursor_x' = inc(cursor_x) /\ cursor_y' = cursor_y /\ Redraw
      BY <3>1
    <3>3. c \in Ink
      <4>1. key # "high" /\ shift \in BOOLEAN
        BY <1>1 DEF ModeSound
      <4> QED BY <3>2, <4>1, TypedIsInk
    <3>4. CASE HasRoom
      <4>1. Store(c) /\ cursor_x' = inc(cursor_x) /\ Redraw
        BY <3>2, <3>4
      <4>2. buffer' = [buffer EXCEPT ![position] = c] /\ position' = position + 1
        BY <4>1 DEF Store
      <4>3. buffer' \in [Slots -> Letters]
        BY <1>2, <3>3, <4>2 DEF Letters
      <4>4. cursor_x \in 0 .. SIZE_T - 1
        BY <1>1 DEF TextSound
      <4>5. CursorAt(buffer', position', cursor_x')
        BY <1>2, <2>5, <3>3, <3>4, <4>1, <4>2, <4>4, CursorForth
      <4> QED BY <1>1, <4>1, <4>3, <4>5, RedrawStep
    <3>5. CASE ~HasRoom
      BY <2>4, <3>2, <3>5
    <3> QED BY <3>4, <3>5
  <2>8. CASE HighKey
    BY <1>1, <2>8, RedrawAlone DEF HighKey, textVars
  <2>9. CASE BackspaceKey
    BY <1>1, <2>9, EraseScreenStep
  <2> QED BY <1>3, <2>1, <2>2, <2>3, <2>6, <2>7, <2>8, <2>9 DEF editor_handle_input
<1>4. ASSUME Prints
      PROVE  ScreenInv'
  BY <1>4, ScreenApart DEF Prints
<1>5. CASE UNCHANGED editorVars
  BY <1>5 DEF editorVars, ScreenInv, textVars, screenVars, screen
<1> QED BY <1>3, <1>4, <1>5
        DEF ConsoleNext, TextCommand, Edit, Run, ListDisks, PowerOff, ChangeLayout, AtPrompt

LEMMA ScreenInit0 == ConsoleInit => ScreenInv
<1> SUFFICES ASSUME ConsoleInit PROVE ScreenInv
  OBVIOUS
<1>1. buffer = [i \in Slots |-> NUL] /\ position = 0 /\ cursor_x = 0 /\ ~drawn
  BY DEF ConsoleInit, EditorInit, Slots
<1>2. buffer \in [Slots -> Letters]
  BY <1>1, Constants DEF Letters
<1>3. CursorAt(buffer, position, cursor_x)
  <2>1. 0 \in 0 .. EDITOR_BUFFER_SIZE /\ 0 = 0 - 0 /\ \A q \in 0 .. 0 - 1 : FALSE
    BY Constants
  <2> QED BY <1>1, <2>1 DEF CursorAt
<1> QED BY <1>1, <1>2, <1>3 DEF ScreenInv

(***************************************************************************)
(* The screen shows the text, for every size of the screen and of the text *)
(* (kernel.c:357-410): for a text without NUL that leaves the screen room  *)
(* for the cursor, whose lines with a newline are shorter than a row, and  *)
(* with the cursor at its end, the redraws from the text and the erasing   *)
(* in place of Backspace give the same cells and the same place of the     *)
(* cursor.  Where a newline was erased nothing is said: the row of the     *)
(* cursor is not lowered there.                                            *)
(***************************************************************************)
THEOREM ScreenFollowsText == ConsoleSpec => []ScreenShowsText
<1>1. ScreenInv /\ ConsoleInv /\ ConsoleInv' /\ [ConsoleNext]_editorVars => ScreenInv'
  BY ScreenStep
<1>2. ConsoleInv /\ ScreenInv => ScreenShowsText
  <2> DEFINE w == Written(buffer, position)
  <2> SUFFICES ASSUME ConsoleInv, ScreenInv, mode = "edit", drawn, Showable,
                      cursor_y = EndRow, cursor_x = EndColumn
               PROVE  terminal_buffer = w.cells /\ Position = PositionOf(w)
    <3>1. w = terminal_write(terminal_initialize, Text)
      BY DEF Written, Upto, Text
    <3> QED BY <3>1 DEF ScreenShowsText, PositionOf
  <2>1. position \in Nat /\ position <= EDITOR_BUFFER_SIZE
    BY Constants, InvParts DEF TextSound
  <2>2. cursor_y = RowOf(buffer, position) /\ cursor_x = ColumnOf(buffer, position)
    BY <2>1, TextIs
  <2>3. ShownUpto(buffer, position)
    <3>1. \A i \in 0 .. position - 1 : buffer[i] # NUL
      <4> SUFFICES ASSUME NEW i \in 0 .. position - 1 PROVE buffer[i] # NUL
        OBVIOUS
      <4>1. i + 1 \in 1 .. position /\ (i + 1) - 1 = i
        BY <2>1
      <4> QED BY <4>1 DEF Showable, Text
    <3>2. EndOf(buffer, position) < VGA_WIDTH * VGA_HEIGHT
      BY <2>2 DEF Showable, Fits, EndOf
    <3> QED BY <3>1, <3>2 DEF Showable, ShownUpto
  <2>4. cursor_x = FromLine(buffer, position, position) /\ position \in 0 .. position
    BY <2>1, <2>2, PlaceNat DEF FromLine
  <2>5. /\ screen.row = cursor_y /\ screen.col = cursor_x /\ screen.cells \in [Cells -> Ink]
        /\ \A k \in Cells : k < EndOf(buffer, position) \/ k >= cursor_y * VGA_WIDTH + cursor_x =>
             screen.cells[k] = w.cells[k]
    BY <2>2, <2>3, <2>4 DEF ScreenInv, Agrees
  <2>6. w \in OnScreen /\ PositionOf(w) = EndOf(buffer, position)
    BY <2>1, <2>3, WrittenAt, WrittenOnScreen DEF ScreenInv
  <2>7. EndOf(buffer, position) = cursor_y * VGA_WIDTH + cursor_x
    BY <2>2 DEF EndOf
  <2>8. \A k \in Cells : screen.cells[k] = w.cells[k]
    <3>1. EndOf(buffer, position) \in Nat /\ \A k \in Cells : k \in Nat
      BY <2>1, EndStep, Screens DEF Cells
    <3>2. \A k \in Cells : k < EndOf(buffer, position) \/ k >= EndOf(buffer, position)
      BY <3>1
    <3> QED BY <2>5, <2>7, <3>2
  <2>9. /\ screen.cells = terminal_buffer
        /\ screen.row = terminal_row /\ screen.col = terminal_column
    BY DEF screen
  <2> HIDE DEF w
  <2>10. screen.cells = w.cells
    BY <2>5, <2>6, <2>8 DEF OnScreen
  <2> QED BY <2>5, <2>6, <2>7, <2>9, <2>10 DEF Position
<1> QED BY <1>1, <1>2, ScreenInit0, ConsoleInvariant, PTL DEF ConsoleSpec
=============================================================================
