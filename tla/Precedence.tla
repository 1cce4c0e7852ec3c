----------------------------- MODULE Precedence -----------------------------
(***************************************************************************)
(* What the parser and the evaluator promise of one subexpression, the     *)
(* text between two parentheses with op_count binary operators:            *)
(*                                                                         *)
(*     a0 o0 a1 o1 a2 ... o(n-1) an                                        *)
(*                                                                         *)
(* The operators are reduced one at a time: the operator of highest        *)
(* priority that is still live, the leftmost one among equals, takes the   *)
(* terms on its two sides and leaves one term in their place.  Terms are   *)
(* kept by the gap they fill: the pair of live operators (or ends) around  *)
(* it.  Module EvalOrder, the node array of parser_common.h with its       *)
(* result pointers, is shown to implement this.                            *)
(***************************************************************************)
EXTENDS Integers

CONSTANTS MaxOps,         \* bound on the operators of a subexpression
          MaxPriority,    \* MAX_PRIORITY: 3 for parser.c, 7 for int_parser.c
          MaxGeneration   \* bound on the new values given to the labels

VARIABLES op_count,     \* number of operators
          priority,     \* priority of each operator
          labeled,      \* operands that are labels (arguments of a function)
          generation,   \* how many times the labels were given new values
          live,         \* operators not reduced yet
          term          \* the term in each gap

input == <<op_count, priority, labeled>>
vars == <<op_count, priority, labeled, generation, live, term>>

(* The operators, from left to right. *)
Ops(n) == 0 .. n - 1

(* a is applied before b. *)
Before(a, b) == \/ priority[a] > priority[b]
                \/ priority[a] = priority[b] /\ a < b

(* Neighbours among the operators of set L and the two ends, -1 and n. *)
Gaps(L, n) ==
  {g \in (L \cup {-1}) \X (L \cup {n}) :
     g[1] < g[2] /\ \A k \in L : k <= g[1] \/ k >= g[2]}

(* Operand a, a label or a value, and the result of operator o. *)
Leaf(a, lab, gen) == <<a, IF a \in lab THEN gen ELSE 0>>
Result(o, l, r) == <<o, l, r>>

(* Every gap holds the operand written there. *)
Operands(n, lab, gen) == [g \in Gaps(Ops(n), n) |-> Leaf(g[2], lab, gen)]

Init ==
  /\ op_count \in 0 .. MaxOps
  /\ priority \in [Ops(op_count) -> 1 .. MaxPriority]
  /\ labeled \in SUBSET (0 .. op_count)
  /\ generation = 0
  /\ live = Ops(op_count)
  /\ term = Operands(op_count, labeled, 0)

(* Operator o, between its live neighbours p and q, is applied. *)
Reduce(o, p, q) ==
  /\ \A k \in live : k = o \/ Before(o, k)
  /\ <<p, o>> \in Gaps(live, op_count)
  /\ <<o, q>> \in Gaps(live, op_count)
  /\ live' = live \ {o}
  /\ term' = [g \in Gaps(live \ {o}, op_count) |->
                IF g = <<p, q>>
                THEN Result(o, term[<<p, o>>], term[<<o, q>>])
                ELSE term[g]]
  /\ UNCHANGED <<input, generation>>

(* The same expression is evaluated again, with new label values or not. *)
Again ==
  /\ generation' \in {generation, generation + 1} \cap 0 .. MaxGeneration
  /\ live' = Ops(op_count)
  /\ term' = Operands(op_count, labeled, generation')
  /\ UNCHANGED input

Next == \/ \E o \in live, p \in live \cup {-1}, q \in live \cup {op_count} :
              Reduce(o, p, q)
        \/ Again

Spec == Init /\ [][Next]_vars

-----------------------------------------------------------------------------
(***************************************************************************)
(* The usual definition of the same thing, by splitting: the term of the   *)
(* operands a..b is headed by its rightmost operator of lowest priority    *)
(* (all operators of the library associate to the left).                   *)
(***************************************************************************)
Head(a, b) == CHOOSE o \in a .. b - 1 :
                \A k \in a .. b - 1 : k = o \/ Before(k, o)

Ranges == (0 .. op_count) \X (0 .. op_count)

Trees[s \in Ranges] ==
  IF s[1] >= s[2]
  THEN Leaf(s[1], labeled, generation)
  ELSE LET o == Head(s[1], s[2])
       IN  Result(o, Trees[<<s[1], o>>], Trees[<<o + 1, s[2]>>])

Tree == Trees[<<0, op_count>>]

(* Operators applied in their order leave the term of that definition.     *)
Answered == live = {} => term[<<-1, op_count>>] = Tree
=============================================================================
