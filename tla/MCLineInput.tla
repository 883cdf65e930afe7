---------------------------- MODULE MCLineInput -----------------------------
(* Small instances of LineInput: texts short enough that a few keys fill    *)
(* the screen, the line and the argument array.                             *)
EXTENDS LineInput

MCWordInk == {" ", "a", "A", NUL, ">"}
MCBanner == <<"a", NL>>
MCPrompt == <<NL, ">">>
MCReplies == {<<>>, <<"a", NL>>}

\* Keys for the arguments: words, spaces, a key without a character (Alt gives
\* NUL), shifted letters, and corrections.
MCWordKeys == {"a", " ", "alt", "lshift", "esc", "enter", "bksp"}

\* Keys for the echo: a letter, a correction, and a code above 127, which under
\* the Russian layout may echo a newline or a backspace.
MCEchoKeys == {"a", "high", "enter", "bksp"}

\* Short names for the commands, all of which can be typed.
MCWordSpelling ==
  [edit |-> <<"a", "A">>, lsdisks |-> <<"A">>, reboot |-> <<"A", "A">>, shutdown |-> <<"A", "a">>]

\* For the echo: only edit can be typed, the others do not fit a line of two.
MCEchoSpelling ==
  [edit |-> <<"a", "a">>, lsdisks |-> <<"a", "a", "a">>, reboot |-> <<"a", "a", "a", "a">>,
   shutdown |-> <<"a", "a", "a", "a", "a">>]
MCEchoInk == {" ", "a", NUL}
MCEchoPrompt == <<NL, "a">>
=============================================================================
