------------------------------ MODULE Grammar ------------------------------
(***************************************************************************)
(* The expressions of the library as a grammar, read from the outside to   *)
(* the inside, and the tree an expression has:                             *)
(*                                                                         *)
(*   expression = [sign] primary {operator operand}                        *)
(*   operand    = primary | ("+" | "-") number | "-" variable              *)
(*   primary    = number | variable | label | "(" expression ")"           *)
(*              | function "(" expression ")" | call "(" [arguments] ")"   *)
(*              | primary "!"                                              *)
(*   arguments  = expression {"," expression}                              *)
(*   number     = digits ["e" [sign] digits] ["i"]                         *)
(*                                                                         *)
(* A sign in front of an expression is an operator with a zero before it.  *)
(* An argument of a call may be in error: it is a tree of its own, that is *)
(* not made before the call.                                               *)
(***************************************************************************)
EXTENDS Text

CONSTANTS Simple,       \* names of functions of one argument
          Called,       \* names of extended and user functions
          Variables     \* names of variables, ans among them

Wrong == [k |-> "wrong"]
Zero == [k |-> "number", t |-> <<"0">>, minus |-> FALSE]
Atom(kind, t, minus) == [k |-> kind, t |-> t, minus |-> minus]
Sub(fn, ops, operands) == [k |-> "sub", fn |-> fn, ops |-> ops, operands |-> operands]
CallOf(fn, args) == [k |-> "call", fn |-> fn, args |-> args]

Part(s, i, j) == SubSeq(s, i, IF j > Len(s) THEN Len(s) ELSE j)
Are(t, C) == t # <<>> /\ \A i \in DOMAIN t : t[i] \in C

IsName(t) == Are(t, Letters \cup Digits \cup {Fact}) /\ t[1] \notin Digits
IsDecimal(t) ==
  \/ Are(t, Digits)
  \/ \E n \in 2 .. Len(t) - 1 :
       /\ t[n] = "e" /\ Are(Part(t, 1, n - 1), Digits)
       /\ \/ Are(Part(t, n + 1, Len(t)), Digits)
          \/ t[n + 1] \in Signs /\ Are(Part(t, n + 2, Len(t)), Digits)
IsNumber(t) == \/ IsDecimal(t)
               \/ t # <<>> /\ t[Len(t)] = "i" /\ IsDecimal(Part(t, 1, Len(t) - 1))

(* Parentheses match: as many open as close, and never more close. *)
Count(t, c) == Cardinality({i \in DOMAIN t : t[i] = c})
Balanced(t) == /\ Count(t, "(") = Count(t, ")")
               /\ \A n \in DOMAIN t : Count(Part(t, 1, n), "(") >= Count(Part(t, 1, n), ")")
Enclosed(t) == /\ At(t, 1) = "(" /\ At(t, Len(t)) = ")" /\ Len(t) > 2
               /\ Balanced(Part(t, 2, Len(t) - 1))

(* Where t is divided at a character outside of any parentheses. *)
Outside(t, C) == {i \in DOMAIN t : t[i] \in C /\ Balanced(Part(t, 1, i - 1))}
RECURSIVE Division(_, _)
Division(t, P) ==
  IF P = {} THEN <<t>>
  ELSE <<Part(t, 1, Least(P) - 1)>>
       \o Division(Part(t, Least(P) + 1, Len(t)), {i - Least(P) : i \in P \ {Least(P)}})

Opening(t) == {i \in DOMAIN t : t[i] = "("}

RECURSIVE Expression(_, _), Primary(_, _), Operations(_, _, _)

Arguments(t, labels) ==
  LET Each(parts) == [n \in DOMAIN parts |-> Expression(parts[n], labels)]
  IN IF t = <<>> THEN <<>> ELSE Each(Division(t, Outside(t, {","})))

Marked(e) == IF e = Wrong THEN Wrong ELSE Sub(<<Fact>>, <<>>, <<e>>)
Applied(fn, e) == IF e = Wrong THEN Wrong ELSE [e EXCEPT !.fn = fn]
Application(fn, inside, labels) ==
  CASE IsName(fn) /\ Balanced(inside) /\ fn \in Called -> CallOf(fn, Arguments(inside, labels))
    [] IsName(fn) /\ Balanced(inside) /\ fn \in Simple -> Applied(fn, Expression(inside, labels))
    [] OTHER -> Wrong

Primary(t, labels) ==
  LET OpenedAt(i) == Application(Part(t, 1, i - 1), Part(t, i + 1, Len(t) - 1), labels)
  IN CASE t = <<>> -> Wrong
       [] IsNumber(t) -> Atom("number", t, FALSE)
       [] IsName(t) -> IF t \in Variables THEN Atom("variable", t, FALSE)
                       ELSE IF t \in labels THEN Atom("label", t, FALSE) ELSE Wrong
       [] At(t, Len(t)) = "!" /\ Len(t) > 1 -> Marked(Primary(Part(t, 1, Len(t) - 1), labels))
       [] Enclosed(t) -> Expression(Part(t, 2, Len(t) - 1), labels)
       [] At(t, Len(t)) = ")" /\ Opening(t) # {} /\ ~Enclosed(t) -> OpenedAt(Least(Opening(t)))
       [] OTHER -> Wrong

(* The operand after an operator. *)
OperandOf(t, labels) ==
  LET rest == Part(t, 2, Len(t)) IN
  CASE At(t, 1) = "+" -> IF IsNumber(rest) THEN Atom("number", rest, FALSE) ELSE Wrong
    [] At(t, 1) = "-" -> IF IsNumber(rest) THEN Atom("number", rest, TRUE)
                         ELSE IF rest \in Variables THEN Atom("variable", rest, TRUE)
                         ELSE Wrong
    [] OTHER -> Primary(t, labels)

Operators == {<<"+">>, <<"-">>, <<"*">>, <<"/">>, <<"^">>, <<"%">>, <<"/", "/">>, <<"*", "*">>}

(* An operand is the shortest one there is, but a number is the longest.   *)
EndOf(ends, numbers) == CHOOSE n \in ends : \A m \in ends :
                          IF numbers # {} THEN m <= n ELSE n <= m

(* What follows a first operand, or a sign in front: the longest operator, *)
(* an operand, and what follows that.                                      *)
Operations(first, t, labels) ==
  LET Joined(op, e, rest) ==
        IF rest = Wrong THEN Wrong
        ELSE [rest EXCEPT !.ops = <<op>> \o @, !.operands = <<first, e>> \o Tail(@)]
      EndAt(w, n) == Joined(Part(t, 1, w), OperandOf(Part(t, w + 1, n), labels),
                            Operations(first, Part(t, n + 1, Len(t)), labels))
      Ends(w) == {n \in w + 1 .. Len(t) :
                    /\ n = Len(t) \/ Part(t, n + 1, n + 1) \in Operators
                    /\ OperandOf(Part(t, w + 1, n), labels) # Wrong}
      IsNumberTo(w, n) == IsNumber(Part(t, w + 1, n)) \/ IsNumber(Part(t, w + 2, n))
      OneOf(w, ends) == IF ends = {} THEN Wrong
                        ELSE EndAt(w, EndOf(ends, {n \in ends : IsNumberTo(w, n)}))
      After(w) == IF Part(t, 1, w) \notin Operators THEN Wrong ELSE OneOf(w, Ends(w))
  IN IF t = <<>> THEN Sub(<<>>, <<>>, <<first>>)
     ELSE After(IF Len(t) > 1 /\ Part(t, 1, 2) \in Operators THEN 2 ELSE 1)

(* The first operand has no sign but the one that is an operator. *)
Expression(t, labels) ==
  LET EndAt(n) == Operations(Primary(Part(t, 1, n), labels), Part(t, n + 1, Len(t)), labels)
      OneOf(ends) == IF ends = {} THEN Wrong
                     ELSE EndAt(EndOf(ends, {n \in ends : IsNumber(Part(t, 1, n))}))
  IN CASE t = <<>> -> Wrong
       [] At(t, 1) \in Signs -> Operations(Zero, t, labels)
       [] OTHER -> OneOf({n \in DOMAIN t : /\ n = Len(t) \/ Part(t, n + 1, n + 1) \in Operators
                                           /\ Primary(Part(t, 1, n), labels) # Wrong})
=============================================================================
