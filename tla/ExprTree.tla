------------------------------ MODULE ExprTree ------------------------------
(***************************************************************************)
(* How an expression becomes a tree (parser_common.h and parser.c): one    *)
(* pass over the text finds the pairs of parentheses, each of them a       *)
(* subexpression; they are sorted by depth, the deepest first; each is     *)
(* split at its operators, and an operand that begins where a              *)
(* subexpression begins becomes the place for the result of that one.      *)
(* Then the table of labelled operands is made.  A parsed expression can   *)
(* be duplicated: pointers to operands must lead into the copy.            *)
(*                                                                         *)
(* A subexpression has operators and one operand more than operators (the  *)
(* places of operands in its nodes and the order of the nodes are those of *)
(* EvalOrder).  A link is the operand a result goes to: the object (the    *)
(* expression or its copy), the subexpression and the operand.             *)
(***************************************************************************)
EXTENDS Grammar

CONSTANTS Inputs,       \* records: text, expand (EXPAND_UOPS), labels
          BufferSize,   \* of the table of labels, 16 in the code
          None

ASSUME ExprTreeAssumption ==
  /\ BufferSize \in Nat \ {0}
  /\ \A r \in Inputs : r.expand \in BOOLEAN

VARIABLES input, phase, text,
          pos, depth,     \* of the pass over the text
          S, sn,          \* subexpressions, and the one being parsed
          error,
          refs,           \* the table of labelled operands
          copy            \* a duplicate: its subexpressions and labels
vars == <<input, phase, text, pos, depth, S, sn, error, refs, copy>>

Whole == [start |-> 1, from |-> 1, to |-> Len(text), depth |-> 0, fn |-> <<>>,
          call |-> FALSE, args |-> <<>>, ops |-> <<>>, operands |-> <<>>, link |-> None]

Init == /\ input = None /\ phase = "new" /\ text = <<>>
        /\ pos = 0 /\ depth = 0 /\ S = <<>> /\ sn = 0 /\ error = None
        /\ refs = <<>> /\ copy = None

Read(r) == /\ phase = "new"
           /\ input' = r
           /\ text' = r.text
           /\ IF r.text = <<>> THEN /\ error' = "NO_INPUT" /\ phase' = "failed"
              ELSE /\ phase' = "read" /\ UNCHANGED error
           /\ UNCHANGED <<pos, depth, S, sn, refs, copy>>

(* The text, without spaces, with one sign where there were several, and   *)
(* without unary operators. *)
Normalise ==
  LET t == CombineAddSub(RemoveWhitespace(text)) IN
  /\ phase = "read"
  /\ text' = IF input.expand THEN ExpandMacros(t) ELSE t
  /\ pos' = 1
  /\ phase' = "scan"
  /\ UNCHANGED <<input, depth, S, sn, error, refs, copy>>

Fail(e) == error' = e /\ phase' = "failed"

-----------------------------------------------------------------------------
(* init_math_expr *)
Next2Parenthesis == {i \in pos .. Len(text) : text[i] \in {"(", ")"}}
Here == Least(Next2Parenthesis)
Scanning(c) == /\ phase = "scan" /\ Next2Parenthesis # {} /\ text[Here] = c
               /\ UNCHANGED <<input, text, sn, refs, copy>>

Parenthesis(i) == [Whole EXCEPT !.start = i, !.from = i + 1, !.depth = depth + 1,
                                !.to = ClosingParenthesis(text, i) - 1]
Before(i) == NameUpTo(text, i - 1)
IsCall(i) == i > 1 /\ LegalInName(At(text, i - 1)) /\ Before(i) \in Called

OpenCall ==
  LET Call(i, name, close) ==
        IF close = 0 THEN Fail("PARENTHESIS_NOT_CLOSED") /\ UNCHANGED <<pos, S>>
        ELSE /\ S' = Append(S, [Parenthesis(i) EXCEPT
                                  !.start = i - Len(name), !.fn = name, !.call = TRUE,
                                  !.args = GetArgs(SubSeq(text, i + 1, close - 1))])
             /\ pos' = close
             /\ UNCHANGED <<phase, error>>
  IN /\ Scanning("(") /\ IsCall(Here)
     /\ Call(Here, Before(Here), ClosingParenthesis(text, Here))
     /\ depth' = depth + 1

Open ==
  LET Pair(i, close) ==
        IF i > 1 /\ LegalInName(At(text, i - 1)) /\ Before(i) = <<>>
        THEN Fail("SYNTAX_ERROR") /\ UNCHANGED <<pos, S>>
        ELSE IF close = i + 1
        THEN Fail("PARENTHESIS_EMPTY") /\ UNCHANGED <<pos, S>>
        ELSE IF close = 0
        THEN Fail("PARENTHESIS_NOT_CLOSED") /\ UNCHANGED <<pos, S>>
        ELSE /\ S' = Append(S, Parenthesis(i))
             /\ pos' = i + 1
             /\ UNCHANGED <<phase, error>>
  IN /\ Scanning("(") /\ ~IsCall(Here)
     /\ Pair(Here, ClosingParenthesis(text, Here))
     /\ depth' = depth + 1

CloseAt(i) == IF IsOp(text, i + 1) \/ At(text, i + 1) \in {")", End}
              THEN pos' = i + 1 /\ UNCHANGED <<phase, error>>
              ELSE Fail("SYNTAX_ERROR") /\ UNCHANGED pos
(* Faulty: an extra parenthesis is not refused. *)
CloseUnchecked == /\ Scanning(")") /\ CloseAt(Here)
                  /\ depth' = depth - 1
                  /\ UNCHANGED S
Close == /\ Scanning(")")
         /\ IF depth = 0 THEN Fail("PARENTHESIS_NOT_OPEN") /\ UNCHANGED <<pos, depth>>
            ELSE CloseAt(Here) /\ depth' = depth - 1
         /\ UNCHANGED S

(* The whole expression comes last; the sort is qsort's, which may put     *)
(* equal depths in any order.                                              *)
ByDepth(T) == \A m, n \in DOMAIN T : m < n => T[m].depth >= T[n].depth
(* Faulty: in the order of the text. *)
SortedByText(T) == {T}
Sorted(T) ==
  {U \in {[n \in DOMAIN T |-> T[p[n]]] : p \in Permutations(DOMAIN T)} : ByDepth(U)}
Sort ==
  /\ phase = "scan" /\ Next2Parenthesis = {}
  /\ S' \in Sorted(Append(S, Whole))
  /\ phase' = "parse" /\ sn' = 1
  /\ UNCHANGED <<input, text, pos, depth, error, refs, copy>>

-----------------------------------------------------------------------------
(* _tms_find_subexpr_starting_at: among those before n in the table, not   *)
(* more than one level deeper; the one that begins, or whose inside        *)
(* begins, at i.                                                           *)
FindSubexpr(T, n, i, mode) ==
  LastOf({m \in 1 .. n - 1 : /\ \A j \in m .. n - 1 : T[j].depth <= T[n].depth + 1
                             /\ i = IF mode = "start" THEN T[m].start ELSE T[m].from})

(* _tms_get_operator_indexes *)
NoOps == <<0>>
OpWidth(i) == IF IsLongOp(text, i) THEN 2 ELSE 1
ExponentSign(i) == /\ At(text, i) \in Signs /\ ~IsLongOp(text, i)
                   /\ At(text, i - 1) = "e" /\ NameStart(text, i - 1) = 0
RECURSIVE OperatorsFrom(_, _, _)
OperatorsFrom(T, n, i) ==
  LET Skip(m) == IF m = 0 THEN i + 1 ELSE T[m].to + 2
      After(j) == IF At(text, j) \in Signs THEN j + 1 ELSE j
      Join(rest) == IF rest = NoOps THEN NoOps ELSE <<i>> \o rest
  IN IF i > T[n].to THEN <<>>
     ELSE IF At(text, i) = "("
     THEN OperatorsFrom(T, n, Skip(FindSubexpr(T, n, i + 1, "inside")))
     ELSE IF LegalInName(At(text, i)) \/ ExponentSign(i) THEN OperatorsFrom(T, n, i + 1)
     ELSE IF IsOp(text, i) THEN Join(OperatorsFrom(T, n, After(i + OpWidth(i))))
     ELSE NoOps

(* get_operand_value and _tms_set_labels: a number, a variable, either     *)
(* with a minus before it, or a label.                                     *)
ReadOperand(i, labels) ==
  LET Value(minus, number, name) ==
        CASE number # <<>> -> [k |-> "number", minus |-> minus,
                               t |-> IF number[1] = "+" THEN Tail(number) ELSE number]
          [] number = <<>> /\ name \in Variables ->
               [k |-> "variable", t |-> name, minus |-> minus]
          [] number = <<>> /\ name \notin Variables /\ NameAt(text, i) \in ToSet(labels) ->
               [k |-> "label", t |-> NameAt(text, i), minus |-> FALSE]
          [] OTHER -> None
      ValueAt(minus, j) == Value(minus, ReadValue(text, j), NameAt(text, j))
  IN IF At(text, i) = "-" THEN ValueAt(TRUE, i + 1) ELSE ValueAt(FALSE, i)

Result(m) == [k |-> "result", of |-> m]

(* _tms_set_operand *)
Operand(T, n, i, labels) ==
  LET ResultOr(m) == IF m # 0 THEN Result(m) ELSE ReadOperand(i, labels)
  IN ResultOr(FindSubexpr(T, n, i, "start"))

(* _tms_set_all_operands: in front of a sign at the beginning is a zero. *)
FirstOperand(T, n, ops, labels) ==
  CASE ops = <<>> \/ ops[1] # T[n].from -> Operand(T, n, T[n].from, labels)
    [] ops # <<>> /\ ops[1] = T[n].from /\ text[ops[1]] \in Signs /\ ~IsLongOp(text, ops[1]) -> Zero
    [] OTHER -> None
Operands(T, n, ops, labels) ==
  <<FirstOperand(T, n, ops, labels)>>
  \o [q \in DOMAIN ops |-> Operand(T, n, ops[q] + OpWidth(ops[q]), labels)]

LinkedTo(T, obj, n, operands) ==
  [m \in DOMAIN T |->
     IF \E q \in DOMAIN operands : operands[q] = Result(m)
     THEN [T[m] EXCEPT !.link = [obj |-> obj, sub |-> n,
             slot |-> CHOOSE q \in DOMAIN operands : operands[q] = Result(m)]]
     ELSE T[m]]

(* _tms_parse_expr_unsafe, one subexpression.                              *)
FunctionBefore(n) == IF S[n].from > 2 THEN NameUpTo(text, S[n].from - 2) ELSE <<>>
Applying(f) == IF f = <<>> THEN [S EXCEPT ![sn].fn = f]
               ELSE [S EXCEPT ![sn].fn = f, ![sn].start = S[sn].from - Len(f) - 1]
ParseSubexpr ==
  LET Keep(T, ops, operands) ==
        IF None \in ToSet(operands) THEN Fail("OPERAND") /\ UNCHANGED <<S, sn>>
        ELSE /\ S' = LinkedTo([T EXCEPT ![sn].ops = [q \in DOMAIN ops |-> OpAt(text, ops[q])],
                                        ![sn].operands = operands],
                              "expression", sn, operands)
             /\ sn' = sn + 1
             /\ UNCHANGED <<error, phase>>
      Split(T, ops) ==
        IF ops = NoOps THEN Fail("SYNTAX_ERROR") /\ UNCHANGED <<S, sn>>
        ELSE IF ops # <<>> /\ ops[Len(ops)] = S[sn].to
        THEN Fail("RIGHT_OP_MISSING") /\ UNCHANGED <<S, sn>>
        ELSE Keep(T, ops, Operands(T, sn, ops, input.labels))
      Start(T) == Split(T, OperatorsFrom(T, sn, T[sn].from))
      Apply(f) == IF f # <<>> /\ f \notin Simple
                  THEN Fail("UNDEFINED_FUNCTION") /\ UNCHANGED <<S, sn>>
                  ELSE Start(Applying(f))
  IN /\ phase = "parse" /\ sn <= Len(S)
     /\ IF S[sn].call THEN sn' = sn + 1 /\ UNCHANGED <<S, error, phase>>
        ELSE Apply(FunctionBefore(sn))
     /\ UNCHANGED <<input, text, pos, depth, refs, copy>>

-----------------------------------------------------------------------------
(* _tms_generate_labels_refs: subexpression after subexpression, node      *)
(* after node.  A node's operands are the left one, unless it is the       *)
(* result of another node, and the right one; the table is made larger     *)
(* when it is full before a node.                                          *)
Priority(op) == CASE op \in {<<"^">>, <<"*", "*">>} -> 3
                  [] op \in {<<"+">>, <<"-">>} -> 1
                  [] OTHER -> 2
(* The node that holds operand q: the one before it unless the one after   *)
(* it has a higher priority.                                               *)
NodeOf(E, q) == CASE q = 1 -> 1
                  [] q = Len(E.ops) + 1 -> q - 1
                  [] OTHER -> IF Priority(E.ops[q - 1]) >= Priority(E.ops[q]) THEN q - 1 ELSE q
NodeOrder(E) ==
  SortSeq([q \in DOMAIN E.ops |-> q],
          LAMBDA a, b : \/ Priority(E.ops[a]) > Priority(E.ops[b])
                        \/ Priority(E.ops[a]) = Priority(E.ops[b]) /\ a < b)
Labelled(E, n, slots) ==
  [r \in DOMAIN slots |-> [sub |-> n, slot |-> slots[r], t |-> E.operands[slots[r]].t]]
Slots(E) == SelectSeq([q \in DOMAIN E.operands |-> q], LAMBDA q : E.operands[q].k = "label")
(* Faulty: both neighbours list an operand between two operators. *)
LabelsAtTwice(E, n, node) ==
  Labelled(E, n, SelectSeq(Slots(E), LAMBDA q : E.ops # <<>> => q \in {node, node + 1}))
LabelsAt(E, n, node) ==
  Labelled(E, n, SelectSeq(Slots(E), LAMBDA q : E.ops # <<>> => NodeOf(E, q) = node))
NodesIn(E) == IF E.ops = <<>> THEN <<1>> ELSE NodeOrder(E)
Runs(T) ==
  LET InOrder(n, nodes) == [r \in DOMAIN nodes |-> LabelsAt(T[n], n, nodes[r])]
  IN FlattenSeq([n \in DOMAIN T |-> IF T[n].call THEN <<>> ELSE InOrder(n, NodesIn(T[n]))])
AddNode(table, found) ==
  LET Sized(size) == [refs |-> table.refs \o found, size |-> size,
                      past |-> table.past \/ Len(table.refs) + Len(found) > size]
  IN Sized(IF Len(table.refs) = table.size THEN 2 * table.size ELSE table.size)
LabelTable(T) == FoldLeft(AddNode, [refs |-> <<>>, size |-> BufferSize, past |-> FALSE], Runs(T))

Finish ==
  LET Found(table) == /\ refs' = table.refs
                      /\ phase' = IF table.past THEN "undefined" ELSE "parsed"
  IN /\ phase = "parse" /\ sn > Len(S)
     /\ IF input.labels = <<>> THEN phase' = "parsed" /\ UNCHANGED refs
        ELSE Found(LabelTable(S))
     /\ UNCHANGED <<input, text, pos, depth, S, sn, error, copy>>

(* dup_mexpr: the subexpressions are copied with their links, then every   *)
(* link into the nodes of the original is replaced by one to the same      *)
(* operand of the copy.                                                    *)
Relinked(link) == IF link = None THEN None ELSE [link EXCEPT !.obj = "copy"]
(* Faulty: only of those that have nodes of their own. *)
CopyOfNodes(T) ==
  [n \in DOMAIN T |-> IF T[n].call THEN T[n] ELSE [T[n] EXCEPT !.link = Relinked(@)]]
CopyOf(T) == [n \in DOMAIN T |-> [T[n] EXCEPT !.link = Relinked(@)]]
Duplicate ==
  /\ phase = "parsed" /\ copy = None
  /\ copy' = [S |-> CopyOf(S), refs |-> IF refs = <<>> THEN <<>> ELSE LabelTable(S).refs]
  /\ UNCHANGED <<input, phase, text, pos, depth, S, sn, error, refs>>

(* delete_math_expr of the original; the copy lives on. *)
Delete ==
  /\ phase = "parsed"
  /\ phase' = "deleted" /\ S' = <<>> /\ refs' = <<>>
  /\ UNCHANGED <<input, text, pos, depth, sn, error, copy>>

Next == \/ \E r \in Inputs : Read(r)
        \/ Normalise \/ OpenCall \/ Open \/ Close \/ Sort
        \/ ParseSubexpr \/ Finish \/ Duplicate \/ Delete

Spec == Init /\ [][Next]_vars

-----------------------------------------------------------------------------
Kinds == {"number", "variable", "label", "result"}
(* The shape of the state. *)
TypeOK ==
  /\ phase \in {"new", "read", "scan", "parse", "parsed", "failed", "undefined", "deleted"}
  /\ phase = "failed" <=> error # None
  /\ phase \in {"scan", "parse"} => sn \in 0 .. Len(S) + 1 /\ depth \in 0 .. Len(text)
  /\ \A n \in DOMAIN S :
       /\ S[n].depth \in 0 .. Len(text) /\ S[n].to <= Len(text)
       /\ S[n].operands # <<>> => Len(S[n].operands) = Len(S[n].ops) + 1
       /\ \A q \in DOMAIN S[n].operands : S[n].operands[q].k \in Kinds

(* The tree that evaluation follows: what a result is part of is told by   *)
(* the links, which lead into the object itself or they lead nowhere.      *)
RECURSIVE Tree(_, _, _)
Tree(T, obj, n) ==
  LET Into(q) == {m \in DOMAIN T : T[m].link = [obj |-> obj, sub |-> n, slot |-> q]}
      Leaf(q, m) == IF m # 0 THEN Tree(T, obj, m)
                    ELSE IF T[n].operands[q].k = "result" THEN Wrong ELSE T[n].operands[q]
  IN IF T[n].call
     THEN CallOf(T[n].fn, [a \in DOMAIN T[n].args |->
                               Expression(T[n].args[a], ToSet(input.labels))])
     ELSE Sub(T[n].fn, T[n].ops,
                [q \in DOMAIN T[n].operands |-> Leaf(q, FirstOf(Into(q)))])

Plain == IF input = None THEN <<>> ELSE CombineAddSub(RemoveWhitespace(input.text))
Meant(s) == Expression(s, ToSet(input.labels))

(* A sign that stands for an operand or an exponent is read as zero (a     *)
(* minus only for an exponent).                                            *)
LoneSign(s) == \E i \in DOMAIN s :
                 /\ s[i] \in Signs /\ At(s, i - 1) \in Ops \cup {"e"}
                 /\ EndsOperand(s, i + 1) \/ s[i + 1] \in {"i", "e", "!"}

(* A ! that follows nothing takes with it whatever is before it.           *)
LoneMark(s) == \E i \in DOMAIN s :
                 s[i] = "!" /\ ~LegalInName(At(s, i - 1)) /\ At(s, i - 1) \notin {")", "!"}

(* A number with a ! after a sign after an e that ends a name: the e is    *)
(* taken for that of an exponent, and the ! for one of the whole.          *)
MarkAfterE(s) == \E i \in DOMAIN s : \E j \in 3 .. i - 1 :
                   /\ s[i] = "!" /\ s[j - 1] \in Signs /\ s[j - 2] = "e"
                   /\ NameStart(s, j - 2) # 0
                   /\ \A n \in j .. i - 1 : s[n] \in Digits \cup {"i"}

(* The parser accepts the expressions of the grammar and makes their tree, *)
(* although it never follows the nesting of the text: it goes by where     *)
(* operands and subexpressions begin (parser_common.h:527).                *)
TreeRight ==
  LET Right(s) ==
        ~MarkAfterE(s) /\ ~LoneMark(s) =>
          IF phase = "parsed" THEN LoneSign(s) \/ Tree(S, "expression", Len(S)) = Meant(s)
                              ELSE Meant(s) = Wrong
  IN /\ phase \in {"parsed", "failed"}
     /\ input.expand \/ "!" \notin ToSet(input.text)
     => Right(Plain)

(* Every subexpression but the whole one gives its result to one operand,  *)
(* of one that is evaluated after it and encloses it; the table of         *)
(* labelled operands has each of them once.                                *)
ResultsUsed ==
  phase = "parsed" =>
    \A n \in 1 .. Len(S) - 1 :
      /\ S[n].link # None
      /\ S[n].link.sub > n /\ S[S[n].link.sub].depth = S[n].depth - 1
      /\ S[S[n].link.sub].operands[S[n].link.slot] = Result(n)
      /\ \A m \in 1 .. Len(S) - 1 : S[m].link = S[n].link => m = n
LabelsFound ==
  phase = "parsed" /\ input.labels # <<>> =>
    /\ IsInjective(refs)
    /\ ToSet(refs) = UNION {{[sub |-> n, slot |-> q, t |-> S[n].operands[q].t] :
                               q \in {p \in DOMAIN S[n].operands :
                                        S[n].operands[p].k = "label"}} : n \in DOMAIN S}
LinksRight == ResultsUsed /\ LabelsFound

(* A duplicate is the same tree with pointers of its own, and stays so     *)
(* when the original is gone (internals.c duplicates a user function for   *)
(* every call of it, evaluator.c:152).                                     *)
CopyStands ==
  LET Stands(s) == ~LoneSign(s) /\ ~LoneMark(s) /\ ~MarkAfterE(s) =>
                     /\ Tree(copy.S, "copy", Len(copy.S)) = Meant(s)
                     /\ phase = "parsed" => copy.refs = refs
  IN copy # None => Stands(Plain)

(* Combining signs leaves no two together and changes no sign.  A list of  *)
(* arguments is divided at the commas outside of parentheses, and can be   *)
(* written and read again.                                                 *)
SignsCombined ==
  LET Combined(s, t) ==
        /\ \A i \in 1 .. Len(s) - 1 : ~({s[i], s[i + 1]} \subseteq Signs)
        /\ Minuses(s, 1, Len(s)) % 2 = Minuses(t, 1, Len(t)) % 2
        /\ SelectSeq(s, LAMBDA c : c \notin Signs) = SelectSeq(t, LAMBDA c : c \notin Signs \cup {" "})
  IN phase = "scan" => Combined(Plain, input.text)
ArgsDivided ==
  phase = "scan" /\ Balanced(text) =>
    /\ GetArgs(text) = IF text = <<>> THEN <<>> ELSE Division(text, Outside(text, {","}))
    /\ GetArgs(RemoveWhitespace(ArgsToString(GetArgs(text)))) = GetArgs(text)
TextRead == SignsCombined /\ ArgsDivided
=============================================================================
