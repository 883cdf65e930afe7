------------------------------ MODULE Keyboard ------------------------------
(***************************************************************************)
(* The keys keyboard_read_key can return (keyboard.c) and the characters   *)
(* they become (keyboard_layouts.h).  A key is named by the US character   *)
(* of scancode_to_ascii, or by its role for the codes 0 to 8.              *)
(*                                                                         *)
(* The PS/2 reader polls with a timeout, so "none" may be returned at any  *)
(* time, and it indexes its 128-entry table with the raw scancode, so a    *)
(* key-release code (128 and more) reads past the table and may return any *)
(* code, also one above 127 ("high").  A reader therefore has to take any  *)
(* key at any time.                                                        *)
(***************************************************************************)
NUL == "NUL"
LAYOUTS == {"US", "DE", "FR", "ES", "RU"}

PlainKeys ==
  {"1", "2", "3", "4", "5", "6", "7", "8", "9", "0", "-", "=", "q", "w", "e", "r",
   "t", "y", "u", "i", "o", "p", "[", "]", "a", "s", "d", "f", "g", "h", "j", "k",
   "l", "SEMICOLON", "'", "BACKTICK", "BACKSLASH", "z", "x", "c", "v", "b", "n", "m", ",", ".", "/", " "}

SpecialKeys == {"none", "esc", "bksp", "enter", "ctrl", "lshift", "rshift", "alt"}
ShiftKeys == {"lshift", "rshift"}

\* "*" is on the keypad; no layout has an entry for it.
keyboard_read_key == SpecialKeys \cup PlainKeys \cup {"*", "high"}

\* The function given by a set of pairs of a key and a character.
Table(entries) ==
  [key \in {e[1] : e \in entries} |-> (CHOOSE e \in entries : e[1] = key)[2]]

\* Variant: an entry missing from the German row.
GermanPlainNoQ == Table({<<"q", NUL>>})

\* Keys the German layout moves, without and with Shift; the other keys keep their US meaning.  The
\* two-byte characters of the source are truncated to their last byte.
GermanPlain ==
  Table({
    <<"-", "x9F">>, <<"=", "xB4">>, <<"y", "z">>, <<"[", "xBC">>, <<"]", "+">>,
    <<"SEMICOLON", "xB6">>, <<"'", "xA4">>, <<"BACKTICK", "^">>, <<"BACKSLASH", "#">>,
    <<"z", "y">>, <<"/", "-">>})

USShifted ==
  Table({
    <<"1", "!">>, <<"2", "@">>, <<"3", "#">>, <<"4", "$">>, <<"5", "%">>,
    <<"6", "^">>, <<"7", "&">>, <<"8", "*">>, <<"9", "(">>, <<"0", ")">>,
    <<"-", "_">>, <<"=", "+">>, <<"[", "{">>, <<"]", "}">>, <<"SEMICOLON", ":">>,
    <<"'", "DQUOTE">>, <<"BACKTICK", "~">>, <<"BACKSLASH", "|">>, <<",", "<">>,
    <<".", ">">>, <<"/", "?">>, <<" ", " ">>,
    <<"q", "Q">>, <<"w", "W">>, <<"e", "E">>, <<"r", "R">>, <<"t", "T">>, <<"y", "Y">>,
    <<"u", "U">>, <<"i", "I">>, <<"o", "O">>, <<"p", "P">>, <<"a", "A">>, <<"s", "S">>,
    <<"d", "D">>, <<"f", "F">>, <<"g", "G">>, <<"h", "H">>, <<"j", "J">>, <<"k", "K">>,
    <<"l", "L">>, <<"z", "Z">>, <<"x", "X">>, <<"c", "C">>, <<"v", "V">>, <<"b", "B">>,
    <<"n", "N">>, <<"m", "M">>})

GermanShifted ==
  Table({
    <<"2", "DQUOTE">>, <<"3", "xA7">>, <<"6", "&">>, <<"7", "/">>, <<"8", "(">>,
    <<"9", ")">>, <<"0", "=">>, <<"-", "?">>, <<"=", "BACKTICK">>, <<"y", "Z">>,
    <<"[", "x9C">>, <<"]", "*">>, <<"SEMICOLON", "x96">>, <<"'", "x84">>,
    <<"BACKTICK", "xB0">>, <<"BACKSLASH", "'">>, <<"z", "Y">>, <<",", "SEMICOLON">>,
    <<".", ":">>, <<"/", "_">>})

\* Only the US and German rows of the tables are filled in: every other entry,
\* also for "*", Alt and the codes 0 to 8, is the zero byte.
us_ascii_to_layout(layout, key) ==
  IF key \notin PlainKeys THEN NUL
  ELSE IF layout = "US" THEN key
  ELSE IF layout # "DE" THEN NUL
  ELSE IF key \in DOMAIN GermanPlain THEN GermanPlain[key]
  ELSE key

shifted_layout(layout, key) ==
  IF key \notin PlainKeys THEN NUL
  ELSE IF layout = "US" THEN USShifted[key]
  ELSE IF layout # "DE" THEN NUL
  ELSE IF key \in DOMAIN GermanShifted THEN GermanShifted[key]
  ELSE USShifted[key]

\* What the lookup of a key in a row may give.  A code above 127 reads the row
\* after it: the German one after the US one, zeroes after the German, French
\* and Spanish ones, and unrelated memory after the Russian one.
Lookup(layout, shifted, key) ==
  LET row(l, k) == IF shifted THEN shifted_layout(l, k) ELSE us_ascii_to_layout(l, k)
  IN IF key # "high" THEN {row(layout, key)}
     ELSE CASE layout = "US" -> {row("DE", k) : k \in PlainKeys} \cup {NUL}
            [] layout \in {"DE", "FR", "ES"} -> {NUL}
            [] layout = "RU" -> {NUL, "NL", "BS"} \cup PlainKeys

\* The characters a user can enter under a layout with the labelled keys.
Typable(layout) ==
  {us_ascii_to_layout(layout, k) : k \in PlainKeys}
    \cup {shifted_layout(layout, k) : k \in PlainKeys}
=============================================================================
