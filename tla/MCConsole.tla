----------------------------- MODULE MCConsole ------------------------------
(* A console with a screen of three rows and an editor of three characters. *)
EXTENDS Console

MCInk == {" ", "q", "Q", NUL}
MCKeys == {"q", "enter", "bksp", "ctrl", "lshift", "alt", "high"}

\* Keys of the instance about running the program.
MCRunInk == MCInk \cup {"r", "R"}
MCRunKeys == MCKeys \cup {"r"}
MCExitText == <<NL, "q", NL>>
=============================================================================
