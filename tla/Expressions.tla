----------------------------- MODULE Expressions -----------------------------
(***************************************************************************)
(* The expressions of the scientific mode: values, terms, and what the     *)
(* parser sees of a text.                                                  *)
(*                                                                         *)
(* An expression is a sum, a sequence of terms.  Values are Gaussian       *)
(* integers <<re, im>>; functions are used where they are exact, a         *)
(* derivative is the difference over one unit and an integral the sum at   *)
(* its bounds: the one and the other evaluate their function at points.    *)
(***************************************************************************)
EXTENDS Integers, Sequences, FiniteSets, SequencesExt

CONSTANTS Names,        \* of user functions
          LabelNames,
          Nesting       \* how deep parentheses and arguments nest in a text

ASSUME ExpressionsAssumption == Nesting \in Nat /\ "x" \in LabelNames

Numbers == Int \X Int
NaN == <<>>
Values == Numbers \cup {NaN}

Zero == <<0, 0>>
Real(v) == v = NaN \/ v[2] = 0
Re(v) == IF v = NaN THEN NaN ELSE <<v[1], 0>>
Add(u, v) == IF NaN \in {u, v} THEN NaN ELSE <<u[1] + v[1], u[2] + v[2]>>
Half(v) == IF v = NaN THEN NaN ELSE <<v[1] \div 2, v[2] \div 2>>
Minus(v) == IF v = NaN THEN NaN ELSE <<-v[1], -v[2]>>
Total(s) ==
  LET sum[n \in 0 .. Len(s)] == IF n = 0 THEN Zero ELSE Add(sum[n - 1], s[n])
  IN  sum[Len(s)]
Beats(f, u, v) == IF f = "max" THEN u[1] > v[1] ELSE u[1] < v[1]

(* The slope of a function at v from its values a little before and a      *)
(* little after v.  How little is a fraction of v: at zero it has none.    *)
Before(v) == Add(v, <<-1, 0>>)
After(v) == Add(v, <<1, 0>>)
Slope(v, before, after) == IF Re(v) = Zero THEN NaN ELSE Half(Add(after, Minus(before)))

(* From where an integral runs, how far (along the real axis), and whether *)
(* backwards.  Between bounds that differ in their imaginary parts only it *)
(* has no width, and the width divides: it has no value.                   *)
RangeFrom(a, b) == IF b[1] < a[1] THEN [low |-> b, width |-> a[1] - b[1], flip |-> TRUE]
                   ELSE [low |-> a, width |-> b[1] - a[1], flip |-> FALSE]

(* A function of one argument with a real and a complex variant, the       *)
(* square root.  The real variant takes a double: a complex argument loses *)
(* its imaginary part in the conversion.                                   *)
Roots == (0 .. 3) \X (-3 .. 3)
Square(w) == <<w[1] * w[1] - w[2] * w[2], 2 * w[1] * w[2]>>
ComplexRoot(v) == IF \E w \in Roots : Square(w) = v
                  THEN CHOOSE w \in Roots : Square(w) = v ELSE NaN
RealRoot(v) == IF Real(ComplexRoot(Re(v))) THEN ComplexRoot(Re(v)) ELSE NaN

-----------------------------------------------------------------------------
(* Terms: a number, written with the word i or a complex variable or not;  *)
(* a label; the root of an expression; a division by zero; a name that is  *)
(* not defined; a parenthesis that is not closed; a call of an extended    *)
(* function (with the result it remembers) and of a user function.         *)
Num(n) == [k |-> "num", v |-> <<n, 0>>, word |-> FALSE]
I == [k |-> "num", v |-> <<0, 1>>, word |-> TRUE]
Imag(n) == [k |-> "num", v |-> <<0, n>>, word |-> FALSE]
Label(l) == [k |-> "label", l |-> l]
Root(e) == [k |-> "root", e |-> e]
OverZero == [k |-> "overzero"]
Undefined == [k |-> "undefined"]
Unclosed == [k |-> "unclosed"]
Ext(f, args) == [k |-> "ext", f |-> f, args |-> args, memo |-> <<>>]
User(f, args) == [k |-> "user", f |-> f, args |-> args]

Extended == {"avg", "max", "min", "hex", "derivative", "integrate", "rand"}
PlainTerms ==
  [k : {"num"}, v : Numbers, word : BOOLEAN] \cup [k : {"label"}, l : LabelNames]
  \cup [k : {"overzero", "undefined", "unclosed"}]
TermsOver(E) ==
  PlainTerms \cup [k : {"root"}, e : E]
  \cup [k : {"ext"}, f : Extended, args : Seq(E), memo : Seq(Values)]
  \cup [k : {"user"}, f : Names, args : Seq(E)]
Exprs[n \in 0 .. Nesting] == Seq(IF n = 0 THEN PlainTerms ELSE TermsOver(Exprs[n - 1]))
Texts == Exprs[Nesting]

(* The terms of an expression and of its parentheses, arguments of         *)
(* extended and user functions excepted: those are strings to the parser.  *)
Terms(e) ==
  LET terms[n \in 0 .. Nesting] ==
        [x \in Exprs[n] |->
           FlattenSeq([i \in DOMAIN x |->
             <<x[i]>> \o IF x[i].k = "root" THEN terms[n - 1][x[i].e] ELSE <<>>])]
  IN  terms[Nesting][e]

Called(e) == {t.f : t \in {u \in ToSet(Terms(e)) : u.k = "user"}}

(* A function of x that calls rand has no derivative and no integral. *)
Random(e) == \E t \in ToSet(Terms(e)) : t.k = "ext" /\ t.f = "rand"

(* Everything the text holds. *)
Text(e) ==
  LET text[n \in 0 .. Nesting] ==
        [x \in Exprs[n] |->
           UNION {{t} \cup IF t.k \in {"ext", "user"}
                           THEN UNION {text[n - 1][a] : a \in ToSet(t.args)} ELSE {} :
                  t \in ToSet(Terms(x))}]
  IN  text[Nesting][e]

(* The arguments of an extended function that are functions of x, and      *)
(* those that it solves.                                                   *)
Integrands(t) ==
  DOMAIN t.args \cap CASE t.f = "derivative" -> {1} [] t.f = "integrate" -> {3} [] OTHER -> {}
SolvedArgs(t) == IF t.f = "hex" THEN {} ELSE DOMAIN t.args \ Integrands(t)
=============================================================================
