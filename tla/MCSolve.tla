------------------------------ MODULE MCSolve ------------------------------
(***************************************************************************)
(* Functions and expressions for Solve: calls in calls, arguments that     *)
(* fail, complex values where a real one was tried first, functions that   *)
(* call each other through arguments.                                      *)
(***************************************************************************)
EXTENDS Meaning

X == Label("x")
F(e) == User("f", <<e>>)
G(e) == User("g", <<e>>)

MCBodies == {
  [names |-> <<"x">>, body |-> <<X, Num(1)>>],
  [names |-> <<"x">>, body |-> <<Root(<<X>>)>>],
  [names |-> <<"x">>, body |-> <<Ext("avg", <<<<X>>, <<G(<<X>>)>>>>)>>],
  [names |-> <<"x">>, body |-> <<F(<<X>>), Num(1)>>],
  [names |-> <<"x">>, body |-> <<Ext("max", <<<<F(<<X>>)>>, <<Num(0)>>>>)>>],
  [names |-> <<"x", "y">>, body |-> <<Label("y"), Label("x"), Label("x")>>],
  [names |-> <<>>, body |-> <<Num(1)>>],
  [names |-> <<"y">>, body |-> <<Ext("integrate", <<<<Label("y")>>, <<Num(3)>>, <<X>>>>)>>]}

MCSolved == {
  <<F(<<Num(1)>>), G(<<Num(-1)>>)>>,
  <<Root(<<F(<<Num(-2)>>)>>), Ext("avg", <<<<Num(2)>>>>)>>,
  <<Ext("avg", <<<<Root(<<Num(-1)>>)>>, <<F(<<Num(2)>>)>>>>)>>,
  <<Ext("max", <<<<Root(<<Num(4)>>)>>, <<F(<<G(<<Num(1)>>)>>)>>>>)>>,
  <<Ext("max", <<<<Root(<<Num(-1)>>)>>, <<Undefined>>>>)>>,
  <<User("f", <<<<Num(1)>>, <<Num(2)>>>>), Num(1)>>,
  <<Ext("integrate", <<<<Num(3)>>, <<F(<<Num(0)>>)>>, <<X, Num(1)>>>>)>>,
  <<Ext("integrate", <<<<Num(-1)>>, <<Num(1)>>, <<Root(<<X>>)>>>>), Num(1)>>,
  <<Ext("derivative", <<<<X, X>>, <<Num(1)>>>>), Root(<<Num(-1)>>)>>,
  <<Ext("derivative", <<<<Root(<<X>>)>>, <<Num(-1)>>>>)>>,
  <<Ext("min", <<<<Num(2)>>, <<Ext("derivative", <<<<X>>, <<F(<<Num(-1)>>)>>>>)>>>>)>>,
  <<Ext("integrate", <<<<Num(1)>>, <<Num(2)>>, <<X, Ext("rand", <<>>)>>>>), Num(1)>>,
  <<Ext("integrate", <<<<Num(-3), Imag(4)>>, <<Num(3)>>, <<X, Num(1)>>>>)>>,
  <<Ext("integrate", <<<<Num(1)>>, <<Num(1), Imag(1)>>, <<X>>>>), Root(<<F(<<Num(3)>>)>>)>>,
  <<I, Undefined>>,
  <<Ext("avg", <<<<Undefined>>>>)>>,
  <<I, Ext("hex", <<<<Imag(2)>>>>), F(<<Num(0)>>)>>,
  <<OverZero, F(<<Num(1)>>)>>,
  <<Imag(2), OverZero>>,
  <<User("f", <<>>), Root(<<Num(4)>>)>>,
  <<Ext("avg", <<>>), Ext("hex", <<<<F(<<Num(1)>>)>>>>)>>,
  <<Ext("avg", <<<<OverZero>>>>), Root(<<Num(-1)>>)>>,
  <<Unclosed, Ext("avg", <<<<Undefined>>>>)>>,
  <<Ext("hex", <<<<Imag(2)>>>>)>>,
  <<Imag(1), Ext("hex", <<<<Imag(2)>>>>), Root(<<Num(-1)>>)>>,
  <<Ext("avg", <<<<Ext("hex", <<<<Imag(2)>>>>)>>>>), F(<<Num(2)>>)>>,
  <<F(<<Imag(2)>>)>>,
  <<G(<<Root(<<Num(-1)>>)>>), Num(1)>>,
  <<Ext("integrate", <<<<Num(0)>>, <<Num(2)>>, <<X, Imag(1)>>>>), Root(<<Num(-1)>>)>>}

MCHeld == {
  [e |-> <<X, Root(<<F(<<Num(3)>>)>>)>>, names |-> <<"x">>, cmplx |-> FALSE],
  [e |-> <<Root(<<X>>), Ext("avg", <<<<Root(<<Num(4)>>)>>>>)>>, names |-> <<"x">>, cmplx |-> FALSE],
  [e |-> <<F(<<Num(1)>>), Root(<<Num(-1)>>), Ext("avg", <<<<Root(<<Num(-1)>>)>>, <<Num(2)>>>>)>>, names |-> <<>>, cmplx |-> TRUE],
  [e |-> <<Undefined, X>>, names |-> <<"x">>, cmplx |-> TRUE]}

MCLabelValues == {<<<<1, 0>>>>, <<<<-1, 0>>>>}

(* No guard reads last, and what is stated of it is stated of every step:  *)
(* states that differ in it only are explored once.                        *)
WithoutLast == <<st, tab, held>>
=============================================================================
