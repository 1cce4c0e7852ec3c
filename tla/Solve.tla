------------------------------- MODULE Solve -------------------------------
(***************************************************************************)
(* Solving an expression (tms_solve and tms_solve_e of scientific.c, the   *)
(* evaluator, the extended functions): expressions are parsed, evaluated   *)
(* and thrown away while others are being evaluated, because the arguments *)
(* of extended and user functions stay text until the call.  What those    *)
(* nested calls share is in st, the errors and the depth counter, and in   *)
(* tab, the user functions.  What a parsed expression carries is a record: *)
(* its terms (with the results the extended functions in it remember), its *)
(* labels, the values of its label operands, and whether it computes with  *)
(* complex numbers.  The integer evaluator has the same structure without  *)
(* the complex retry.                                                      *)
(*                                                                         *)
(* An error is its facility and whether it is fatal.  The order of the     *)
(* nodes is left out (EvalOrder), as are the locks (Locking).              *)
(***************************************************************************)
EXTENDS Expressions

CONSTANTS Bodies,       \* what user functions may be defined as: records
                        \* names, body
          Solved,       \* expressions given to tms_solve
          Held,         \* expressions parsed and kept: records of the text e,
                        \* names of labels (<<>> for none) and cmplx
          LabelValues,
          MaxDepth,     \* 32 in the code
          Careful,      \* whether callers see to it that arguments parse
          None

(* A label list: its names and the values that came with it, if any. *)
LabelList(names, payload) == [names |-> names, payload |-> payload]
NoLabels == LabelList(<<>>, <<>>)
LabelLists == {l \in [names : Seq(LabelNames), payload : Seq(Values)] :
                 Len(l.payload) \in {0, Len(l.names)}}

(* Parsed expressions. *)
Models == [expr : Texts, labels : LabelLists, cmplx : BOOLEAN, env : [LabelNames -> Values]]

ASSUME SolveAssumption ==
  /\ MaxDepth \in Nat \ {0} /\ Careful \in BOOLEAN
  /\ Bodies \subseteq [names : Seq(LabelNames), body : Texts]
  /\ Solved \subseteq Texts
  /\ Held \subseteq [e : Texts, names : Seq(LabelNames), cmplx : BOOLEAN]
  /\ LabelValues \subseteq Seq(Values)
  /\ None \notin Models

VARIABLES st,     \* what all calls share: errors, depth, and whether labels
                  \* were deleted under their owner
          tab,    \* the user functions
          held,   \* the parsed expression a caller keeps
          last    \* what the last call was about and answered (in no
                  \* variable of the program)

vars == <<st, tab, held, last>>

-----------------------------------------------------------------------------
(* Errors. *)
Both == {"parser", "evaluator"}
Shared == [errors : SUBSET (Both \X {"fatal", "nonfatal"}), depth : Int, dangling : BOOLEAN]

(* Faulty: arguments swapped. *)
SaveSwapped(s, facility, severity) ==
  [s EXCEPT !.errors = @ \cup {<<severity, facility>>}]
Save(s, facility, severity) ==
  [s EXCEPT !.errors = @ \cup {<<facility, severity>>}]
Clear(s, facilities) ==
  [s EXCEPT !.errors = {x \in @ : x[1] \notin facilities}]
Clean(s) == s.errors = {}
Fatal(s, facilities) == \E x \in s.errors : x[1] \in facilities /\ x[2] = "fatal"
(* A function that failed without saying why gets a generic error. *)
(* Faulty: only fatal errors are explained. *)
ExplainFatal(s, facility, severity) ==
  IF Clean(s) /\ severity = "fatal" THEN Save(s, facility, severity) ELSE s
Explain(s, facility, severity) ==
  IF Clean(s) THEN Save(s, facility, severity) ELSE s

-----------------------------------------------------------------------------
(* tms_parse_expr: the terms are checked in their order.  A parse that     *)
(* fails once the expression has its labels deletes them with it.          *)
Rejected(t, cmplx, names) ==
  \/ t.k = "num" /\ ~cmplx /\ ~Real(t.v)
  \/ t.k = "label" /\ t.l \notin ToSet(names)
  \/ t.k = "undefined"
  \/ t.k = "user" /\ t.f \notin DOMAIN tab
(* A complex number is an error in a real expression; with labels it is    *)
(* then looked up among them, and one that is no name is a syntax error.   *)
Complain(s, t) == IF t.k = "num" THEN Save(s, "parser", "nonfatal") ELSE s
Severity(t, labels) ==
  IF \/ t.k \in {"label", "undefined"}
     \/ t.k = "num" /\ ~t.word /\ labels # NoLabels
  THEN "fatal" ELSE "nonfatal"
FirstRejected(e, cmplx, names) ==
  Head(SelectSeq(Terms(e), LAMBDA t : Rejected(t, cmplx, names)))
Parses(e, cmplx, names) == \A t \in ToSet(Terms(e)) : ~Rejected(t, cmplx, names)

LabelEnv(names, values) ==
  [l \in LabelNames |->
     IF values = <<>> \/ l \notin ToSet(names) THEN Zero
     ELSE values[CHOOSE n \in DOMAIN names : names[n] = l]]

Refused(s, severity, freed) ==
  [m |-> None, st |-> Save(s, "parser", severity), freed |-> freed]
Parsed(e, cmplx, labels, s) ==
  [m |-> [expr |-> e, labels |-> labels, cmplx |-> cmplx,
          env |-> LabelEnv(labels.names, labels.payload)],
   st |-> s, freed |-> FALSE]
Parse(e, cmplx, labels, s) ==
  LET Reject(s1, t) ==
        Refused(Complain(s1, t), Severity(t, labels), labels # NoLabels)
      Check(s1) ==
        IF Unclosed \in ToSet(Terms(e)) THEN Refused(s1, "fatal", FALSE)
        ELSE IF Parses(e, cmplx, labels.names) THEN Parsed(e, cmplx, labels, s1)
        ELSE Reject(s1, FirstRejected(e, cmplx, labels.names))
  IN Check(Clear(s, {"parser"}))

(* tms_set_labels_values *)
(* Faulty: the operands keep the values of the first call. *)
SetValuesOnce(m, values) ==
  [m EXCEPT !.labels.payload = values,
            !.env = IF m.labels.payload = <<>> THEN LabelEnv(m.labels.names, values) ELSE @]
SetValues(m, values) == [m EXCEPT !.env = LabelEnv(m.labels.names, values)]

-----------------------------------------------------------------------------
(* Evaluation.  eval is the evaluator the nested calls get (below); it     *)
(* answers a parsed expression and what is shared with the value v, the    *)
(* expression m as the evaluation left it, and what is shared after it.    *)

(* tms_solve_e: parse, evaluate, delete all but the labels, which belong   *)
(* to the caller.  If the parse deleted them, what the caller does with    *)
(* them next is undefined.                                                 *)
(* Faulty: the labels are deleted with the expression. *)
SolveEDeletes(eval, e, cmplx, labels, s) ==
  LET Finish(p) ==
        IF p.m = None THEN [v |-> NaN, st |-> [p.st EXCEPT !.dangling = @ \/ p.freed]]
        ELSE eval[<<p.m, [p.st EXCEPT !.dangling = @ \/ labels # NoLabels]>>]
  IN Finish(Parse(e, cmplx, labels, s))
SolveE(eval, e, cmplx, labels, s) ==
  LET Finish(p) ==
        IF p.m = None THEN [v |-> NaN, st |-> [p.st EXCEPT !.dangling = @ \/ p.freed]]
        ELSE eval[<<p.m, p.st>>]
  IN Finish(Parse(e, cmplx, labels, s))

(* tms_solve_list: stops at the first argument that has no value. *)
SolveList(eval, args, cmplx, labels, s) ==
  LET With(acc, r) == [vs |-> Append(acc.vs, r.v), st |-> r.st]
      Go(acc, a) == IF NaN \in ToSet(acc.vs) THEN acc
                    ELSE With(acc, SolveE(eval, a, cmplx, labels, acc.st))
      upTo[n \in 0 .. Len(args)] ==
        IF n = 0 THEN [vs |-> <<>>, st |-> s] ELSE Go(upTo[n - 1], args[n])
  IN  upTo[Len(args)]

(* An extended function answers whether it has a result, which one, its    *)
(* term as it left it, and what is shared.                                 *)
Failure(t, s) == [ok |-> FALSE, v |-> NaN, t |-> t, st |-> s]
Success(t, v, s) == [ok |-> TRUE, v |-> v, t |-> t, st |-> s]

(* _tms_avg *)
Avg(eval, t, labels, s) ==
  LET Mean(r) ==
        IF NaN \in ToSet(r.vs) THEN Failure(t, r.st)
        ELSE Success(t, IF Len(r.vs) = 2 THEN Half(Total(r.vs)) ELSE Total(r.vs), r.st)
  IN Mean(SolveList(eval, t.args, TRUE, labels, s))

(* _tms_max and _tms_min stop at an argument that is not real, too. *)
Extreme(eval, t, labels, s) ==
  LET With(acc, r) ==
        IF r.v = NaN THEN Failure(t, r.st)
        ELSE IF ~Real(r.v) THEN Failure(t, Save(r.st, "evaluator", "fatal"))
        ELSE Success(t, IF acc.v = NaN \/ Beats(t.f, r.v, acc.v) THEN r.v ELSE acc.v, r.st)
      Go(acc, a) == IF acc.ok THEN With(acc, SolveE(eval, a, TRUE, labels, acc.st)) ELSE acc
      upTo[n \in 0 .. Len(t.args)] ==
        IF n = 0 THEN Success(t, NaN, s) ELSE Go(upTo[n - 1], t.args[n])
  IN  upTo[Len(t.args)]

(* tms_base_n: an i at the end of the text makes the value imaginary and   *)
(* is cut off the text.  A text that is no number has no value.            *)
IsNumber(e) == Len(e) = 1 /\ e[1].k = "num" /\ ~e[1].word
BaseN(t, s) ==
  IF ~IsNumber(t.args[1]) THEN Success(t, NaN, s)
  ELSE LET v == t.args[1][1].v
       IN  Success([t EXCEPT !.args = <<<<Num(v[1] + v[2])>>>>], v, s)

(* tms_is_deterministic *)
Deterministic(m) == ~Random(m.expr)

(* _tms_derivative and _tms_integrate: the function is parsed with the     *)
(* label x (a list without values), in real mode, and evaluated with x set *)
(* to one point after the other.  (The points between the bounds of an     *)
(* integral are evaluated as the bounds are.)                              *)
AtPoints(eval, e, points, s) ==
  LET Values2(r1, r2) == [outcome |-> "values", vs |-> <<Re(r1.v), Re(r2.v)>>,
                          st |-> Clear(r2.st, {"evaluator"})]
      Second(r1) == Values2(r1, eval[<<SetValues(r1.m, <<points[2]>>), r1.st>>])
      First(p) ==
        IF p.m = None THEN [outcome |-> "unparsed", st |-> p.st]
        ELSE IF ~Deterministic(p.m)
        THEN [outcome |-> "random", st |-> Save(p.st, "evaluator", "fatal")]
        ELSE Second(eval[<<SetValues(p.m, <<points[1]>>), p.st>>])
  IN First(Parse(e, FALSE, LabelList(<<"x">>, <<>>), s))

UsesX(labels) == "x" \in ToSet(labels.names)

Derivative(eval, t, labels, s) ==
  LET Found(slope, s1) ==
        Success(t, slope, IF slope = NaN THEN Save(s1, "evaluator", "fatal") ELSE s1)
      Through(x, r) ==
        CASE r.outcome = "unparsed" -> Failure(t, Clear(r.st, {"parser"}))
          [] r.outcome = "random" -> Failure(t, r.st)
          [] r.outcome = "values" -> Found(Slope(x.v, r.vs[1], r.vs[2]), r.st)
      Around(x) ==
        IF x.v = NaN THEN Failure(t, Clear(x.st, Both))
        ELSE Through(x, AtPoints(eval, t.args[1], <<Before(x.v), After(x.v)>>, x.st))
  IN IF UsesX(labels) THEN Failure(t, Save(s, "evaluator", "fatal"))
     ELSE Around(SolveE(eval, t.args[2], TRUE, labels, s))

Integrate(eval, t, labels, s) ==
  LET Area(area, range, s1) ==
        IF area = NaN THEN Failure(t, Save(s1, "evaluator", "fatal"))
        ELSE Success(t, IF range.width = 0 THEN NaN
                        ELSE IF range.flip THEN Minus(area) ELSE area, s1)
      Sampled(r, range) == IF r.outcome # "values" THEN Failure(t, r.st)
                           ELSE Area(Add(r.vs[1], r.vs[2]), range, r.st)
      Over(range, s1) ==
        Sampled(AtPoints(eval, t.args[3],
                         <<range.low, Add(range.low, <<range.width, 0>>)>>, s1), range)
      Between(a, b) ==
        IF NaN \in {a.v, b.v} THEN Failure(t, Clear(b.st, Both))
        ELSE IF a.v = b.v THEN Success(t, Zero, b.st)
        ELSE Over(RangeFrom(a.v, b.v), b.st)
      From(a) == Between(a, SolveE(eval, t.args[2], TRUE, labels, a.st))
  IN IF UsesX(labels) THEN Failure(t, Save(s, "evaluator", "fatal"))
     ELSE From(SolveE(eval, t.args[1], TRUE, labels, s))

(* The functions begin with a check of the number of their arguments.      *)
(* (The weight rand returns is between 0 and 1; its integer part is 0.)    *)
Accepts(t) == CASE t.f \in {"avg", "max", "min"} -> Len(t.args) >= 1
                [] t.f = "hex" -> Len(t.args) = 1
                [] t.f = "derivative" -> Len(t.args) = 2
                [] t.f = "integrate" -> Len(t.args) = 3
                [] t.f = "rand" -> Len(t.args) = 0
CallExtended(eval, t, labels, s) ==
  CASE ~Accepts(t) -> Failure(t, Save(s, "evaluator", "fatal"))
    [] Accepts(t) /\ t.f = "avg" -> Avg(eval, t, labels, s)
    [] Accepts(t) /\ t.f \in {"max", "min"} -> Extreme(eval, t, labels, s)
    [] Accepts(t) /\ t.f = "hex" -> BaseN(t, s)
    [] Accepts(t) /\ t.f = "derivative" -> Derivative(eval, t, labels, s)
    [] Accepts(t) /\ t.f = "integrate" -> Integrate(eval, t, labels, s)
    [] Accepts(t) /\ t.f = "rand" -> Success(t, Zero, s)

-----------------------------------------------------------------------------
(* _tms_evaluate_unsafe, an extended function: it runs once, and its       *)
(* result stays in the expression.                                         *)
EvalExt(eval, t, m, s) ==
  LET Keep(c) ==
        IF ~c.ok THEN Failure(c.t, Explain(c.st, "evaluator", "fatal"))
        ELSE IF ~Real(c.v) /\ ~m.cmplx
        THEN Failure(c.t, Save(c.st, "evaluator", "nonfatal"))
        ELSE Success([c.t EXCEPT !.memo = <<c.v>>], c.v, c.st)
  IN IF t.memo # <<>> THEN Success(t, t.memo[1], s)
     ELSE Keep(CallExtended(eval, t, m.labels, s))

(* A user function: its arguments are solved in real mode, a duplicate of  *)
(* it gets them as values of its labels and is evaluated.                  *)
Duplicate(m, values) ==
  [m EXCEPT !.labels = LabelList(m.labels.names, values), !.env = LabelEnv(m.labels.names, values)]

EvalUser(eval, t, m, s) ==
  LET Returned(r) ==
        IF r.v = NaN THEN Failure(t, Explain(r.st, "evaluator", "fatal"))
        ELSE Success(t, r.v, r.st)
      Call(a) ==
        IF NaN \in ToSet(a.vs) \/ t.args = <<>> THEN Failure(t, a.st)
        ELSE Returned(eval[<<Duplicate(tab[t.f], a.vs), a.st>>])
  IN IF t.f \notin DOMAIN tab THEN Failure(t, Save(s, "evaluator", "fatal"))
     ELSE IF Len(t.args) # Len(tab[t.f].labels.names)
     THEN Failure(t, Save(s, "evaluator", "fatal"))
     ELSE Call(SolveList(eval, t.args, FALSE, m.labels, s))

(* A function of one argument over a parenthesis, which inside evaluates.  *)
EvalRoot(inside, t, m, s) ==
  LET Applied(new, v, s1) ==
        IF v = NaN THEN Failure(new, Explain(s1, "evaluator", "nonfatal"))
        ELSE Success(new, v, s1)
      Apply(new, r) ==
        IF r.v = NaN THEN Failure(new, r.st)
        ELSE Applied(new, IF m.cmplx THEN ComplexRoot(r.v) ELSE RealRoot(r.v), r.st)
      Inside(r) == Apply([t EXCEPT !.e = r.e], r)
  IN Inside(inside[<<t.e, s>>])

EvalTerm(eval, inside, t, m, s) ==
  CASE t.k = "num" -> Success(t, t.v, s)
    [] t.k = "label" -> Success(t, m.env[t.l], s)
    [] t.k = "ext" -> EvalExt(eval, t, m, s)
    [] t.k = "user" -> EvalUser(eval, t, m, s)
    [] t.k = "root" -> EvalRoot(inside, t, m, s)
    [] OTHER -> Success(t, Zero, s)

(* A subexpression: first what is in parentheses, then its operators.      *)
Sum(e, vs, s) ==
  LET Added(total) ==
        IF total # NaN THEN s
        ELSE IF Len(e) > 1 THEN Save(s, "evaluator", "nonfatal")
        ELSE Explain(s, "evaluator", "nonfatal")
  IN IF OverZero \in ToSet(e) THEN [v |-> NaN, e |-> e, st |-> Save(s, "evaluator", "fatal")]
     ELSE [v |-> Total(vs), e |-> e, st |-> Added(Total(vs))]

EvalSum(eval, inside, m, e, s) ==
  LET With(acc, n, r) ==
        [ok |-> r.ok, e |-> [acc.e EXCEPT ![n] = r.t], vs |-> Append(acc.vs, r.v), st |-> r.st]
      InTurn(acc, n) == IF acc.ok THEN With(acc, n, EvalTerm(eval, inside, e[n], m, acc.st))
                        ELSE acc
      upTo[n \in 0 .. Len(e)] ==
        IF n = 0 THEN [ok |-> TRUE, e |-> e, vs |-> <<>>, st |-> s] ELSE InTurn(upTo[n - 1], n)
      Operators(all) == IF all.ok THEN Sum(all.e, all.vs, all.st)
                        ELSE [v |-> NaN, e |-> all.e, st |-> all.st]
  IN  Operators(upTo[Len(e)])

EvalTerms(eval, m, s) ==
  LET level[n \in 0 .. Nesting] ==
        [c \in Exprs[n] \X Shared |->
           EvalSum(eval, IF n = 0 THEN <<>> ELSE level[n - 1], m, c[1], c[2])]
  IN  level[Nesting][<<m.expr, s>>]

(* tms_evaluate: every entry counts, and finds the errors empty or clears  *)
(* them.  It answers NaN to no expression.                                 *)
Enter(s) == [s EXCEPT !.depth = @ + 1]
(* Faulty: a failure returns before the counter goes down. *)
LeaveIfClean(s) == IF Clean(s) THEN [s EXCEPT !.depth = @ - 1] ELSE s
Leave(s) == [s EXCEPT !.depth = @ - 1]
EvaluateWith(eval, m, s) ==
  LET Done(r) == [v |-> r.v, m |-> [m EXCEPT !.expr = r.e], st |-> Leave(r.st)]
      Entered(s1) ==
        IF s1.depth > MaxDepth
        THEN [v |-> NaN, m |-> m, st |-> Leave(Save(s1, "evaluator", "fatal"))]
        ELSE IF m = None THEN [v |-> NaN, m |-> None, st |-> Leave(Clear(s1, Both))]
        ELSE Done(EvalTerms(eval, m, Clear(s1, Both)))
  IN Entered(Enter(s))

(* The evaluator with room for n more calls in it.  The counter is tested  *)
(* before anything else, so the last one has none.                         *)
Evaluators[n \in 0 .. MaxDepth] ==
  [c \in (Models \cup {None}) \X Shared |->
     EvaluateWith(IF n = 0 THEN <<>> ELSE Evaluators[n - 1], c[1], c[2])]
Evaluator == Evaluators[MaxDepth]
Evaluate(m, s) == Evaluator[<<m, s>>]

-----------------------------------------------------------------------------
(* tms_solve.  An expression with the word i, or with a complex variable,  *)
(* is complex; any other one is real first, and is tried again as a        *)
(* complex one if it failed with no fatal error.  Errors are printed, and  *)
(* printing clears them.  eval is the Evaluator.                           *)
LikelyComplex(e) == \E t \in Text(e) : t.k = "num" /\ t.word

Printed(s, facilities) == Clear(s, facilities)
ToComplex(m) == [m EXCEPT !.cmplx = TRUE]
Answer(v, s) == [v |-> v, st |-> s]
PrintIfNaN(r) == Answer(r.v, IF r.v = NaN THEN Printed(r.st, Both) ELSE r.st)

(* (An expression that is not parsed is evaluated all the same.) *)
SolveComplex(eval, e, s) ==
  LET Go(p) == PrintIfNaN(eval[<<p.m, IF p.m = None THEN Printed(p.st, {"parser"}) ELSE p.st>>])
  IN Go(Parse(e, TRUE, NoLabels, s))

(* Faulty: the second try computes with real numbers too. *)
RetryReal(eval, m, s) == PrintIfNaN(eval[<<m, Clear(s, Both)>>])
RetryComplex(eval, m, s) == PrintIfNaN(eval[<<ToComplex(m), Clear(s, Both)>>])

SolveReal(eval, e, s) ==
  LET EvalOnly(r) == Answer(r.v, r.st)
      Second(q) == IF q.m = None THEN Answer(NaN, Printed(q.st, {"parser"}))
                   ELSE EvalOnly(eval[<<q.m, q.st>>])
      Retry(r) == IF r.v # NaN THEN EvalOnly(r)
                  ELSE IF Fatal(r.st, Both) THEN Answer(NaN, Printed(r.st, Both))
                  ELSE RetryComplex(eval, r.m, r.st)
      First(p) ==
        IF p.m # None THEN Retry(eval[<<p.m, p.st>>])
        ELSE IF Fatal(p.st, {"parser"}) THEN Answer(NaN, Printed(p.st, {"parser"}))
        ELSE Second(Parse(e, TRUE, NoLabels, Clear(p.st, {"parser"})))
  IN First(Parse(e, FALSE, NoLabels, s))

SolveText(eval, e, s) ==
  IF LikelyComplex(e) THEN SolveComplex(eval, e, s) ELSE SolveReal(eval, e, s)

-----------------------------------------------------------------------------
(* Whether the arguments in an expression parse where they are solved, and *)
(* so on for the arguments in them: with the labels of the expression, if  *)
(* it has any, or the label x in what integrate and derivative evaluate.   *)
ArgumentsParseAt[n \in 0 .. Nesting] ==
  [c \in Exprs[n] \X Seq(LabelNames) |->
     LET Further(e, names) == ArgumentsParseAt[n - 1][<<e, names>>]
         Solvable(a, cmplx) == /\ c[2] = <<>> \/ Parses(a, cmplx, c[2])
                               /\ Further(a, c[2])
     IN \A i \in DOMAIN c[1] :
          /\ c[1][i].k = "root" => Further(c[1][i].e, c[2])
          /\ c[1][i].k = "ext" =>
               /\ \A j \in SolvedArgs(c[1][i]) : Solvable(c[1][i].args[j], TRUE)
               /\ \A j \in Integrands(c[1][i]) : Further(c[1][i].args[j], <<"x">>)
          /\ c[1][i].k = "user" =>
               \A j \in DOMAIN c[1][i].args : Solvable(c[1][i].args[j], FALSE)]
ArgumentsParse(e, names) == ArgumentsParseAt[Nesting][<<e, names>>]
ModelsSound ==
  /\ \A f \in DOMAIN tab : ArgumentsParse(tab[f].expr, tab[f].labels.names)
  /\ held # None => ArgumentsParse(held.m.expr, held.m.labels.names)

Init == /\ st = [errors |-> {}, depth |-> 0, dangling |-> FALSE]
        /\ tab = [f \in {} |-> None]
        /\ held = None
        /\ last = [call |-> "none"]

(* Labels deleted under their owner: nothing is known from there on. *)
Defined == ~st.dangling
Nothing == last' = [call |-> "none"]

(* tms_set_ufunction: the function is parsed with its labels; a            *)
(* redefinition that calls itself is refused.  The search (UserFuncs has   *)
(* it for many threads) follows calls, and looks at the arguments of the   *)
(* function itself and of those called by what it calls.                   *)
InArguments(e) ==
  {u.f : u \in {w \in UNION {Text(a) : a \in UNION {ToSet(t.args) :
                   t \in {v \in ToSet(Terms(e)) : v.k \in {"ext", "user"}}}} : w.k = "user"}}
Circular(f, b) ==
  LET References(g) == IF g \in DOMAIN tab THEN Called(tab[g].expr) ELSE {}
      Closed(C) == Called(b.body) \subseteq C /\ \A g \in C : References(g) \subseteq C
      Reached == {g \in Names : \A C \in SUBSET Names : Closed(C) => g \in C}
      Further == UNION {References(g) : g \in Reached}
  IN /\ f \in DOMAIN tab
     /\ \/ f \in Called(b.body) \cup InArguments(b.body) \cup Further
        \/ \E g \in Further \cap DOMAIN tab : f \in InArguments(tab[g].expr)
DefineFunction(f, b) ==
  LET Installed(p) == p.m # None /\ ~Circular(f, b)
      Install(p) ==
        /\ st' = IF p.m # None /\ Circular(f, b) THEN Save(p.st, "parser", "fatal") ELSE p.st
        /\ tab' = IF Installed(p)
                  THEN [g \in DOMAIN tab \cup {f} |-> IF g = f THEN p.m ELSE tab[g]] ELSE tab
  IN /\ Defined
     /\ Install(Parse(b.body, TRUE, LabelList(b.names, <<>>), st))
     /\ Nothing
     /\ UNCHANGED held
     /\ Careful => ModelsSound'

RemoveFunction(f) ==
  /\ Defined /\ f \in DOMAIN tab
  /\ tab' = [g \in DOMAIN tab \ {f} |-> tab[g]]
  /\ Nothing
  /\ UNCHANGED <<st, held>>
  /\ Careful => ModelsSound'

TmsSolve(e) ==
  LET Answered(r) ==
        /\ st' = r.st
        /\ last' = [call |-> "tms_solve", e |-> e, v |-> r.v]
  IN /\ Defined
     /\ Careful => ArgumentsParse(e, <<>>)
     /\ Answered(SolveText(Evaluator, e, st))
     /\ UNCHANGED <<tab, held>>

(* An expression kept by a caller: parsed, given label values and          *)
(* evaluated any number of times, deleted.                                 *)
ParseHeld(h) ==
  LET Kept(p) ==
        /\ st' = p.st
        /\ held' = IF p.m = None THEN None ELSE [m |-> p.m, text |-> h.e, given |-> <<>>]
  IN /\ Defined /\ held = None
     /\ Kept(Parse(h.e, h.cmplx, LabelList(h.names, <<>>), st))
     /\ Nothing
     /\ UNCHANGED tab
     /\ Careful => ModelsSound'

SetLabelsValues(v) ==
  /\ Defined /\ held # None
  /\ held.m.labels # NoLabels /\ Len(v) = Len(held.m.labels.names)
  /\ held' = [held EXCEPT !.m = SetValues(@, v), !.given = v]
  /\ Nothing
  /\ UNCHANGED <<st, tab>>

EvaluateHeld ==
  LET Answered(r) ==
        /\ st' = r.st
        /\ held' = [held EXCEPT !.m = r.m]
        /\ last' = [call |-> "tms_evaluate", v |-> r.v]
  IN Defined /\ held # None /\ Answered(Evaluate(held.m, st)) /\ UNCHANGED tab

DeleteHeld ==
  /\ Defined /\ held # None
  /\ held' = None
  /\ Nothing
  /\ UNCHANGED <<st, tab>>

Next == \/ \E f \in Names, b \in Bodies : DefineFunction(f, b)
        \/ \E f \in Names : RemoveFunction(f)
        \/ \E e \in Solved : TmsSolve(e)
        \/ \E h \in Held : ParseHeld(h)
        \/ \E v \in LabelValues : SetLabelsValues(v)
        \/ EvaluateHeld
        \/ DeleteHeld

Spec == Init /\ [][Next]_vars

-----------------------------------------------------------------------------
(* The shape of the state. *)
TypeOK ==
  /\ st \in Shared
  /\ DOMAIN tab \subseteq Names
  /\ \A f \in DOMAIN tab :
       /\ tab[f] \in Models /\ tab[f].cmplx
       /\ [names |-> tab[f].labels.names, body |-> tab[f].expr] \in Bodies
  /\ held # None =>
       held \in [m : Models, text : {h.e : h \in Held}, given : LabelValues \cup {<<>>}]

(* An evaluation with a value leaves no error and one without a value      *)
(* leaves errors that say why, unless it called a function without         *)
(* arguments, which fails silently; tms_solve adds none, since it prints   *)
(* them (scientific.h:64): errors of arguments that fail are cleared, kept *)
(* or replaced on many paths.  What it does not print are those of an      *)
(* expression that parses as a complex one only, and has no value.         *)
RefusedAsReal(e) == ~LikelyComplex(e) /\ Parse(e, FALSE, NoLabels, st).m = None
AllTakeArguments == \A f \in DOMAIN tab : tab[f].labels.names # <<>>
ErrorsTell ==
  [][/\ last'.call = "tms_evaluate" /\ last'.v # NaN => st'.errors = {}
     /\ last'.call = "tms_evaluate" /\ last'.v = NaN /\ AllTakeArguments => st'.errors # {}
     /\ last'.call = "tms_solve" => \/ st'.errors \subseteq st.errors
                                    \/ last'.v = NaN /\ RefusedAsReal(last'.e)]_vars

(* Whatever the calls nest, and also after functions that call each other  *)
(* through their arguments have been stopped at the limit, the counter of  *)
(* the evaluator is back at zero (evaluator.c:24): what it loses is lost   *)
(* for every later evaluation.                                             *)
DepthPutBack == st.depth = 0

(* The labels a caller handed down are still there when a nested call      *)
(* returns (scientific.c:115).                                             *)
LabelsKept == ~st.dangling

(* Nested calls leave what they share with their caller as it was.         *)
CallsRestore == DepthPutBack /\ LabelsKept
=============================================================================
