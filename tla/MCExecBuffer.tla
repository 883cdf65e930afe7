---------------------------- MODULE MCExecBuffer ----------------------------
(***************************************************************************)
(* Instance of ExecBuffer: programs over a small language.  Between two    *)
(* names or numbers there is always something else, and numbers are never  *)
(* joined, so that a token is what the interpreter's character loops take  *)
(* as one.                                                                 *)
(***************************************************************************)
EXTENDS ExecBuffer

MCNumbers == [zero |-> 0, one |-> 1, minus |-> -1, least |-> -2]
MCNames == {"x"}

Assignment(expr) == <<"x", "=">> \o expr
A == <<Quote, "x", Quote>>
Digit == <<Quote, " ", "-", "one", Quote>>

\* Everything an expression or a statement can be.
Expressions == {
  <<>>, <<"one">>, A, <<"x">>,
  A \o <<"+">> \o A, <<"+">> \o A, A \o <<"+">>, A \o <<"-">> \o A, A \o <<"/">> \o A,
  A \o <<"/", "zero">>, <<"one", "/">> \o A \o <<"/", "zero">>,
  <<"one", "-">> \o Digit, <<"least", "*">> \o Digit,
  <<"least", "/", "minus">>, <<"one", "/", "one", "+", "one">>,
  <<Quote, "x">>, <<"x", "=", "one">>, <<Quote, "=", Quote>>}

MCLines == {Assignment(e) : e \in Expressions} \union
           {<<>>, <<" ">>, <<"=", "one">>, <<"x", " ", ")", "x", " ", "=", " ", "one">>}

One == Assignment(<<"one">>)
Join(first, second) == first \o <<NL>> \o second

Blanks2 == <<" ", " ">>

\* Several lines: behind an empty line, a string, or a line of blanks, from
\* which the interpreter runs into the next; the longest fill the buffer.
MCPrograms ==
  MCLines \union {Join(l, <<>>) : l \in MCLines} \union {
    Join(<<>>, One), Join(One, One), Join(One, Join(One, One)),
    Join(One, Assignment(A)), Join(Assignment(A), One),
    Join(One, Join(Assignment(<<"x">>), One)),
    Join(<<")">>, One), Join(One \o <<" ">>, One),
    Join(<<" ">>, Join(One, One)), Join(<<" ">>, Join(Assignment(<<"x">>), <<>>)),
    Join(Assignment(A), <<")">> \o Blanks2), Join(Assignment(A), <<")">> \o Blanks2 \o <<" ">>),
    Join(Assignment(A), <<")">> \o Blanks2 \o Blanks2)}

MCLowTexts == {<<>>, <<"x">>}
=============================================================================
