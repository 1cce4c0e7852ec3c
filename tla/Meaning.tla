------------------------------ MODULE Meaning ------------------------------
(***************************************************************************)
(* What the expressions of the scientific mode mean: the number an         *)
(* expression stands for, given the values of its labels and the bodies of *)
(* the user functions, and that Solve answers with it.  Nothing in the     *)
(* meaning is parsed, remembered or in error; a term without a value is    *)
(* NaN and makes what contains it NaN.                                     *)
(***************************************************************************)
EXTENDS Solve

(* The arguments of an extended function that are evaluated where it is    *)
(* called; the other one is a function of x.                               *)
Points(t) == DOMAIN t.args \ Integrands(t)
Best(f, vs) == CHOOSE v \in vs : \A u \in vs : IF f = "max" THEN u[1] <= v[1]
                                                 ELSE u[1] >= v[1]

SumOf(s) == FoldSeq(Add, Zero, s)

(* env gives the labels their values; funs the user functions their labels *)
(* and bodies; real arithmetic is used for what integrals and derivatives  *)
(* evaluate, and for the arguments of user functions if narrow; fuel       *)
(* bounds the depth of calls of functions that call themselves.  A call    *)
(* without arguments has no value.                                         *)
RECURSIVE MeaningOf(_, _, _, _, _, _)
MeaningOf(e, env, funs, real, narrow, fuel) ==
  LET Arg(a, l, r) == MeaningOf(a, l, funs, r, narrow, fuel)
      At(body, x) == MeaningOf(body, [l \in {"x"} |-> x], funs, TRUE, narrow, fuel)
      Call(t) ==
        IF t.f \notin DOMAIN funs \/ fuel = 0 \/ t.args = <<>> THEN NaN
        ELSE LET F == funs[t.f]
                 values == [n \in DOMAIN t.args |-> Arg(t.args[n], env, narrow)]
             IN IF Len(t.args) # Len(F.names) \/ NaN \in ToSet(values) THEN NaN
                ELSE MeaningOf(F.body,
                       [l \in ToSet(F.names) |->
                          values[CHOOSE n \in DOMAIN F.names : F.names[n] = l]],
                       funs, FALSE, narrow, fuel - 1)
      Extended1(t) ==
        LET v == [n \in Points(t) |-> Arg(t.args[n], env, FALSE)]
            values == {v[n] : n \in Points(t)}
        IN CASE NaN \in values -> NaN
             [] t.f = "avg" -> IF Len(v) = 2 THEN Half(SumOf(v)) ELSE SumOf(v)
             [] t.f \in {"max", "min"} ->
                  IF \A u \in values : Real(u) THEN Best(t.f, values) ELSE NaN
             [] t.f = "hex" -> v[1]
             [] t.f = "rand" -> Zero
             [] "x" \in DOMAIN env -> NaN
             [] t.f = "derivative" ->
                  IF Random(t.args[1]) THEN NaN
                  ELSE Slope(v[2], Re(At(t.args[1], Before(v[2]))), Re(At(t.args[1], After(v[2]))))
             [] t.f = "integrate" ->
                  IF v[1] = v[2] THEN Zero
                  ELSE IF Random(t.args[3]) THEN NaN
                  ELSE LET range == RangeFrom(v[1], v[2])
                           area == Re(Add(At(t.args[3], range.low),
                                          At(t.args[3], Add(range.low, <<range.width, 0>>))))
                       IN IF range.width = 0 THEN NaN
                          ELSE IF range.flip THEN Minus(area) ELSE area
      Term(t) == CASE t.k = "num" -> IF real /\ ~Real(t.v) THEN NaN ELSE t.v
                   [] t.k = "label" -> IF t.l \in DOMAIN env THEN env[t.l] ELSE NaN
                   [] t.k = "root" ->
                        LET v == MeaningOf(t.e, env, funs, real, narrow, fuel)
                        IN IF v = NaN THEN NaN
                           ELSE IF real THEN RealRoot(v) ELSE ComplexRoot(v)
                   [] t.k = "ext" ->
                        LET v == IF Accepts(t) THEN Extended1(t) ELSE NaN
                        IN  IF real /\ ~Real(v) THEN NaN ELSE v
                   [] t.k = "user" -> Call(t)
                   [] OTHER -> NaN
  IN SumOf([n \in DOMAIN e |-> Term(e[n])])

(* What the user functions are to a reader of their definitions, and the   *)
(* values last given to the labels of the expression that is kept.         *)
Definitions == [f \in DOMAIN tab |-> [names |-> tab[f].labels.names, body |-> tab[f].expr]]
Means(e, env) == MeaningOf(e, env, Definitions, FALSE, FALSE, MaxDepth)

(* The arguments of user functions are computed with real numbers          *)
(* (evaluator.c:148), also in a complex expression.  For an expression     *)
(* where complex numbers are needed there, f(2i) or f(sqrt(-1)), it is     *)
(* only claimed that it has no value.                                      *)
Value(e, env) ==
  LET v == Means(e, env)
      RealArguments == v = MeaningOf(e, env, Definitions, FALSE, TRUE, MaxDepth)
  IN  IF v # NaN /\ RealArguments THEN v ELSE NaN

(* A function that reads the digits of a number cuts the i off its         *)
(* argument (function.c:164).  If the expression is real, its value is     *)
(* refused, and an evaluation that follows reads the digits without the i: *)
(* tms_solve("hex(2i)") answers 2.  Nothing is claimed of these.           *)
CutsDigits(e) ==
  \E t \in ToSet(Terms(e)) :
    t.k = "ext" /\ t.f = "hex" /\ Accepts(t) /\ IsNumber(t.args[1]) /\ ~Real(t.args[1][1].v)
TriedAsReal(e) == ~LikelyComplex(e) /\ Parse(e, FALSE, NoLabels, st).m # None

Given == LET names == held.m.labels.names
         IN  [l \in ToSet(names) |->
                IF held.given = <<>> THEN Zero
                ELSE held.given[CHOOSE n \in DOMAIN names : names[n] = l]]

(* tms_solve answers with the value the expression has in complex          *)
(* arithmetic, and with NaN if it has none (scientific.h:63): although it  *)
(* computes with real numbers first, what extended functions remember      *)
(* stays in the expression for the second try, arguments are parsed and    *)
(* evaluated in the middle of other evaluations, and a function may be     *)
(* redefined or removed before it is called.  Left out, although           *)
(* scientific.h:61 promises them, are complex arguments of user functions  *)
(* (see Value) and imaginary digits in an expression that is real      *)
(* first (CutsDigits).  (No text of Solved takes a root of a complex       *)
(* answer of a user function, which loses its imaginary part, or gives     *)
(* derivative or integrate a function that has x in its arguments: these   *)
(* are parsed with the label x but not its value.)                         *)
SolvesRight ==
  last'.call = "tms_solve" /\ ~(TriedAsReal(last'.e) /\ CutsDigits(last'.e)) =>
    last'.v = Value(last'.e, <<>>)

(* An expression that is kept gives its value again and again: for new     *)
(* label values, after failures and after definitions that change.  What   *)
(* an extended function remembers (evaluator.c:106) is not in its way as   *)
(* long as its arguments have no label and call no user function, and it   *)
(* does not cut the digits of a real expression.                           *)
Lasting(e) == \A t \in ToSet(Terms(e)) :
                t.k = "ext" => \A u \in Text(<<t>>) : u.k \notin {"label", "user"}
EvaluatesRight ==
  last'.call = "tms_evaluate" /\ Lasting(held.text) /\ (held.m.cmplx \/ ~CutsDigits(held.text)) =>
    last'.v \in {Value(held.text, Given)} \cup (IF held.m.cmplx THEN {} ELSE {NaN})

(* Both entries to the evaluator answer with the meaning of the text.      *)
Answers == [][SolvesRight /\ EvaluatesRight]_vars
=============================================================================
