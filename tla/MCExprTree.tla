----------------------------- MODULE MCExprTree -----------------------------
(***************************************************************************)
(* Texts for ExprTree: every sequence of up to MaxPieces pieces, operands  *)
(* and operators in turn, and some longer ones.  x is a label or not, e    *)
(* and i are variables, s a function of one argument, f one that takes a   *)
(* list.                                                                   *)
(***************************************************************************)
EXTENDS ExprTree

CONSTANTS MaxPieces

Pieces == {<<"1">>, <<"x">>, <<"e">>, <<"f", "(">>, <<"s", "(">>, <<"(">>, <<")">>, <<"+">>,
           <<"-">>, <<"*">>, <<",">>, <<"!">>}
Texts == {FlattenSeq(w) : w \in UNION {[1 .. n -> Pieces] : n \in 0 .. MaxPieces}}

Terms == {<<"x">>, <<"(", "x", ")">>, <<"s", "(", "x", "-", "1", ")">>, <<"e">>,
          <<"f", "(", "x", ",", "(", "1", ",", "x", ")", ")">>, <<"-", "1", "e", "-", "1">>,
          <<"(", "1", ")", "!">>}
Sums == {a \o o \o b \o p \o c : a \in Terms, o \in {<<"-">>, <<"^">>}, b \in Terms,
                                 p \in {<<"+">>, <<"*", "*">>}, c \in Terms}

Long == {
  <<"(", "1", "+", "x", ")", "*", "s", "(", "x", "-", "f", "(", "1", ",", "x", ")", ")">>,
  <<"-", "(", "(", "1", ")", "^", "-", "1", "e", "-", "1", ")", "/", "/", "s", "(", "x", ")">>,
  <<"f", "(", "f", "(", "x", ")", ",", "(", "1", ",", "x", ")", ")", "+", "f", "(", ")">>,
  <<"s", "(", "(", "1", ")", "!", "+", "f", "(", "x", ")", "!", ")", "!", "-", "x", "!">>,
  <<"1", " ", "-", " ", "-", "+", "s", "(", " ", "x", ")", "-", "-", "-", "(", "x", ")">>,
  <<"(", "x", "*", "x", "+", "x", ")", "^", "(", "x", "+", "x", "*", "x", ")">>,
  <<"1", "e", "+", "1", "i", "-", "i", "*", "*", "-", "e", "+", "e">>,
  <<"(", "(", "x", ")", "-", "(", "x", ")", ")", "-", "(", "x", ")">>}

MCInputs == [text : Texts \cup Sums, expand : {TRUE}, labels : {<<<<"x">>>>}]
            \cup [text : Long, expand : {TRUE, FALSE}, labels : {<<>>, <<<<"x">>>>}]
MCSimple == {<<"s">>, <<Fact>>}
MCCalled == {<<"f">>}
MCVariables == {<<"e">>, <<"i">>}
=============================================================================
