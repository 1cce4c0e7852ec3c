-------------------------------- MODULE Text --------------------------------
(***************************************************************************)
(* The text of an expression and what string_tools.c and the parser do     *)
(* with it before there is anything but text: parentheses and argument     *)
(* lists, names and numbers, signs, spaces and the postfix operator !.     *)
(*                                                                         *)
(* A text is a sequence of characters, 1 where the code has 0, and a       *)
(* search that finds nothing gives 0 where the code has -1.  Numbers are   *)
(* decimal integers with an exponent and an i; prefixes of other bases and *)
(* the decimal point are left out.                                         *)
(***************************************************************************)
EXTENDS Integers, Sequences, FiniteSets, SequencesExt

CONSTANTS Digits, Letters

End == "end"
At(s, i) == IF i \in DOMAIN s THEN s[i] ELSE End

Signs == {"+", "-"}
Ops == {"+", "-", "*", "/", "^", "%"}
LongOps == {<<"/", "/">>, <<"*", "*">>}
IsLongOp(s, i) == <<At(s, i), At(s, i + 1)>> \in LongOps
IsOp(s, i) == At(s, i) \in Ops
OpAt(s, i) == IF IsLongOp(s, i) THEN <<s[i], s[i]>> ELSE <<s[i]>>
Fact == "fact"      \* the name of the function, as one character
LegalInName(c) == c \in Digits \cup Letters \cup {Fact}
EndsOperand(s, i) == IsOp(s, i) \/ At(s, i) \in {")", ",", End}

From(s, i) == SubSeq(s, i, Len(s))
Least(P) == CHOOSE i \in P : \A j \in P : i <= j
Greatest(P) == CHOOSE i \in P : \A j \in P : i >= j
FirstOf(P) == IF P = {} THEN 0 ELSE Least(P)
LastOf(P) == IF P = {} THEN 0 ELSE Greatest(P)

-----------------------------------------------------------------------------
(* tms_find_closing_parenthesis, tms_find_opening_parenthesis: from the    *)
(* parenthesis at i, one counter up and down.                              *)
ClosingParenthesis(s, i) ==
  LET count[j \in i .. Len(s)] ==
        IF j = i THEN 1
        ELSE count[j - 1] + (CASE s[j] = "(" -> 1 [] s[j] = ")" -> -1 [] OTHER -> 0)
  IN FirstOf({j \in i .. Len(s) : count[j] = 0})

OpeningParenthesis(s, p) ==
  LET count[n \in 0 .. p - 1] ==      \* the code walks down
        IF n = 0 THEN 1
        ELSE count[n - 1] + (CASE s[p - n] = ")" -> 1 [] s[p - n] = "(" -> -1 [] OTHER -> 0)
  IN LastOf({j \in 1 .. p : count[p - j] = 0})

(* tms_get_args: a comma inside a pair of parentheses does not separate.   *)
(* An empty string has no arguments at all.                                *)
RECURSIVE ArgsFrom(_, _, _)
ArgsFrom(s, start, end) ==
  IF end > Len(s) THEN <<From(s, start)>>
  ELSE CASE s[end] = "(" /\ ClosingParenthesis(s, end) # 0 ->
              ArgsFrom(s, start, ClosingParenthesis(s, end) + 1)
         [] s[end] = "," ->
              <<SubSeq(s, start, end - 1)>> \o ArgsFrom(s, end + 1, end + 1)
         [] OTHER -> ArgsFrom(s, start, end + 1)
(* Faulty: every comma separates. *)
RECURSIVE ArgsFlat(_)
ArgsFlat(s) ==
  LET DivideAt(i) == IF i = 0 THEN <<s>>
                     ELSE <<SubSeq(s, 1, i - 1)>> \o ArgsFlat(From(s, i + 1))
  IN IF s = <<>> THEN <<>> ELSE DivideAt(FirstOf({i \in DOMAIN s : s[i] = ","}))
GetArgs(s) == IF s = <<>> THEN <<>> ELSE ArgsFrom(s, 1, 1)

(* tms_args_to_string *)
ArgsToString(args) ==
  FlattenSeq([n \in DOMAIN args |->
                args[n] \o IF n = Len(args) THEN <<>> ELSE <<",", " ">>])

-----------------------------------------------------------------------------
(* tms_remove_whitespace *)
RemoveWhitespace(s) == SelectSeq(s, LAMBDA c : c # " ")

(* _tms_combine_add_sub: a run of signs becomes one, in place of the first *)
(* of them: a minus when the number of minuses is odd, a plus when it is   *)
(* even and not zero.                                                      *)
RunEnd(s, i) == Greatest({j \in i .. Len(s) : \A n \in i .. j : s[n] \in Signs})
Minuses(s, i, j) == Cardinality({n \in i .. j : s[n] = "-"})
RECURSIVE CombineFrom(_, _)
CombineFrom(s, i) ==
  LET Sign(a, b) == IF Minuses(s, a, b) % 2 = 1 THEN "-" ELSE "+"
      Combine(a, b) == CombineFrom(SubSeq(s, 1, a - 1) \o <<Sign(a, b)>> \o From(s, b + 1), a + 1)
      CombineAt(a) == IF a = 0 THEN s ELSE Combine(a, RunEnd(s, a))
  IN CombineAt(FirstOf({n \in i .. Len(s) : s[n] \in Signs}))
CombineAddSub(s) == CombineFrom(s, 1)

-----------------------------------------------------------------------------
(* tms_name_bounds, forward from the first character of a name and         *)
(* backward from its last one: a name does not begin with a digit.         *)
NameEnd(s, i) ==
  IF At(s, i) \in Digits THEN 0
  ELSE LastOf({j \in i .. Len(s) : \A n \in i .. j : LegalInName(s[n])})
NameStart(s, i) ==
  LET NotDigit(j) == IF At(s, j) \in Digits THEN 0 ELSE j
  IN NotDigit(FirstOf({j \in 1 .. i : \A n \in j .. i : LegalInName(s[n])}))

(* tms_get_name *)
NameAt(s, i) == SubSeq(s, i, NameEnd(s, i))
NameUpTo(s, i) ==
  LET Since(j) == IF j = 0 THEN <<>> ELSE SubSeq(s, j, i) IN Since(NameStart(s, i))

(* tms_find_endofnumber: the first position after the number, and whether  *)
(* it had an exponent and an i; 0 for a second i; a second exponent makes  *)
(* the function answer its first character.                                *)
RECURSIVE NumberRun(_, _, _, _)
NumberRun(s, i, sci, imag) ==
  CASE At(s, i) \in Digits -> NumberRun(s, i + 1, sci, imag)
    [] At(s, i) = "e" -> IF sci THEN -1
                         ELSE NumberRun(s, IF At(s, i + 1) \in Signs THEN i + 2 ELSE i + 1,
                                        TRUE, imag)
    [] At(s, i) = "i" -> IF imag THEN 0 ELSE NumberRun(s, i + 1, sci, TRUE)
    [] OTHER -> i
NumberEnd(s, i) ==
  LET EndAt(n) == CASE n = -1 -> i
                    [] n > 0 /\ EndsOperand(s, n) -> n - 1
                    [] OTHER -> 0
  IN EndAt(NumberRun(s, IF At(s, i) \in Signs THEN i + 1 ELSE i, FALSE, FALSE))

(* _tms_read_value_simple: a text without digits has no value, but a sign  *)
(* alone has the value zero.                                               *)
ReadsSimple(t) ==
  t # <<>> /\ ToSet(IF t[1] \in Signs THEN Tail(t) ELSE t) \subseteq Digits

(* tms_read_value: the text of the number that begins at i, <<>> for NaN.  *)
ReadValue(s, i) ==
  LET ReadsHalves(t, e) ==
        IF e = 0 THEN ReadsSimple(t)
        ELSE ReadsSimple(SubSeq(t, 1, e - 1)) /\ ReadsSimple(From(t, e + 1))
      ReadsReal(t) == ReadsHalves(t, FirstOf({n \in DOMAIN t : t[n] = "e"}))
      Reads(t) == ReadsReal(IF t[Len(t)] = "i" THEN Front(t) ELSE t)
      UpTo(end) == IF end >= i /\ EndsOperand(s, end + 1) /\ Reads(SubSeq(s, i, end))
                   THEN SubSeq(s, i, end) ELSE <<>>
  IN UpTo(NumberEnd(s, i))

(* tms_find_startofnumber, backward from the last character.  (It may read *)
(* the byte before the text, which is part of the length malloc keeps      *)
(* there and zero.)                                                        *)
RECURSIVE NumberStart(_, _)
NumberStart(s, start) ==
  LET BeforeDigits(t) ==
        CASE At(s, t - 1) = "e" -> NumberStart(s, t - 1)
          [] At(s, t - 1) \in Signs /\ At(s, t - 2) = "e" -> NumberStart(s, t - 2)
          [] At(s, t - 1) = "-" /\ At(s, t - 2) # "e" -> t - 1
          [] OTHER -> t
  IN CASE start = 1 -> 1
       [] start > 1 /\ At(s, start - 1) \in Digits -> NumberStart(s, start - 1)
       [] OTHER -> BeforeDigits(IF At(s, start - 1) = "i" THEN start - 1 ELSE start)

-----------------------------------------------------------------------------
(* _tms_expand_macros: every ! takes the parentheses (with the function    *)
(* before them), the name or the number that it follows into a call of     *)
(* fact.  A ! that follows nothing stops the expansion; the parser goes on *)
(* with what there is.                                                     *)
TermStart(s, i) ==
  LET CallOr(open) == IF open > 1 /\ LegalInName(At(s, open - 1))
                      THEN NameStart(s, open - 1) ELSE open
      Unsigned(n) == IF s[n] \in Signs THEN n + 1 ELSE n
      NameOr(name) == IF name # 0 THEN name ELSE Unsigned(NumberStart(s, i - 1))
  IN IF s[i - 1] = ")" THEN CallOr(OpeningParenthesis(s, i - 1))
     ELSE NameOr(NameStart(s, i - 1))

Wrap(s, start, i) == SubSeq(s, 1, start - 1) \o <<Fact, "(">> \o SubSeq(s, start, i - 1)
                     \o <<")">> \o From(s, i + 1)
RECURSIVE ExpandMacros(_)
ExpandMacros(s) ==
  LET Expand(i, start) == IF start = 0 THEN s ELSE ExpandMacros(Wrap(s, start, i))
      ExpandAt(i) == IF i <= 1 THEN s ELSE Expand(i, TermStart(s, i))
  IN ExpandAt(FirstOf({i \in DOMAIN s : s[i] = "!"}))
=============================================================================
