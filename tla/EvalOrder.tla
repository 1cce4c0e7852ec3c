----------------------------- MODULE EvalOrder ------------------------------
(***************************************************************************)
(* The node array of one subexpression (parser_common.h): the parser puts  *)
(* every operand in a node, links the nodes in evaluation order, points    *)
(* the result of every node at the operand of another one, and the         *)
(* evaluator (evaluator.c) walks the links, as often as the caller asks,   *)
(* the labelled operands given new values in between (function arguments,  *)
(* the points of an integral).                                             *)
(*                                                                         *)
(* What is abstracted: the text (an operand is its index in the            *)
(* subexpression), the arithmetic (a value is the term computed) and the   *)
(* nested subexpressions, whose result is one of the operands. The mask of *)
(* the integer evaluator is the same in all evaluations of one expression. *)
(***************************************************************************)
EXTENDS Integers

CONSTANTS MaxOps, MaxPriority, MaxGeneration

ASSUME EvalOrderAssumption ==
  /\ MaxOps \in Nat
  /\ MaxPriority \in Nat \ {0}
  /\ MaxGeneration \in Nat

VARIABLES op_count,         \* S->op_count
          priority,         \* priority of each node
          integer,          \* it is an integer expression
          labeled,          \* operands the text names by a label
          generation,       \* number of times the labels were given values
          pc,               \* where the parser or the evaluator is
          i, j,             \* locals of the parser's loops
          target_priority,  \* local of _tms_set_evaluation_order
          prev,             \* locals prev_index, prev_left and prev_right
          node,             \* the node in hand: tmp_node, then i_node
          operand,          \* both operands of every node, and the answer
          extended,         \* operands whose value is sign-extended in place
          labels,           \* labelled operands: <<where it is, which one>>
          start_node, next, \* the evaluation order
          result            \* where the result of each node goes

input == <<op_count, priority, integer, labeled>>
order == <<start_node, next>>
locals == <<i, j, target_priority, prev>>
vars == <<input, generation, pc, locals, node, operand, extended, labels,
          order, result>>

-----------------------------------------------------------------------------
NULL == -1

(* The operators' nodes; one node is allocated when there is no operator. *)
Nodes == 0 .. op_count - 1
Allocated == IF op_count = 0 THEN {0} ELSE Nodes

(* The places a value is stored in: operands of nodes, and the answer. *)
Slots == Allocated \X {"left", "right"}
Left(n) == <<n, "left">>
Right(n) == <<n, "right">>
Answer == <<NULL, "answer">>

(* Contents of memory malloc returned, and a null result pointer. *)
Garbage == <<>>

Leaf(a, lab, gen) == <<a, IF a \in lab THEN gen ELSE 0>>

(* The power of integers, alone at the highest priority. It sign-extends   *)
(* its two operands in the node; to do it twice is to do it once.          *)
Powers == IF integer THEN {n \in Nodes : priority[n] = MaxPriority} ELSE {}
Extension(n) == IF n \in Powers THEN {Left(n), Right(n)} ELSE {}

(* What node n finds in its operand s: another operator than the power is  *)
(* not to meet a value the power has written there.                        *)
Read(n, s) == IF s \in extended /\ n \notin Powers THEN Garbage ELSE operand[s]
Term(n) == <<n, Read(n, Left(n)), Read(n, Right(n))>>

(* The caller may evaluate a parsed expression, or evaluate it again. *)
Parsed == {"ready", "failed", "done"}
Phases == {"operands", "order", "link", "pointers", "labels", "evaluate",
           "rejected"} \cup Parsed

NoPrev == [index |-> -2, left |-> -2, right |-> -2]

Init ==
  /\ op_count \in 0 .. MaxOps
  /\ priority \in [Nodes -> 1 .. MaxPriority]
  /\ integer \in BOOLEAN
  /\ labeled \in SUBSET (0 .. op_count)
  /\ generation = 0
  /\ pc = "operands"
  /\ i = -1 /\ j = 0 /\ target_priority = 0
  /\ prev = NoPrev
  /\ node = NULL
  /\ operand = [s \in Slots \cup {Answer} |-> Garbage]
  /\ extended = {}
  /\ labels = {}
  /\ start_node = NULL
  /\ next = [n \in Allocated |-> NULL]
  /\ result = [n \in Allocated |-> Garbage]

-----------------------------------------------------------------------------
(***************************************************************************)
(* _tms_set_all_operands                                                   *)
(***************************************************************************)

(* _tms_set_operand: a value is stored, a label is only recorded. *)
SetOperand(slot, a) ==
  IF a \in labeled
  THEN /\ labels' = labels \cup {<<slot, a>>}
       /\ UNCHANGED operand
  ELSE /\ operand' = [operand EXCEPT ![slot] = Leaf(a, {}, 0)]
       /\ UNCHANGED labels

(* Faulty variant: among equals the operand goes to the later node.        *)
OperandSlotTies(n) ==
  IF n = op_count - 1 \/ priority[n] > priority[n + 1]
  THEN Right(n)
  ELSE Left(n + 1)

(* The operand between node n and node n + 1 goes to the one applied first. *)
OperandSlot(n) ==
  IF n = op_count - 1 \/ priority[n] >= priority[n + 1]
  THEN Right(n)
  ELSE Left(n + 1)

SetFirstOperand ==
  /\ pc = "operands" /\ i = -1
  /\ SetOperand(Left(0), 0)
  /\ i' = 0
  /\ pc' = IF op_count = 0 THEN "order" ELSE "operands"
  /\ UNCHANGED <<input, generation, j, target_priority, prev, node, extended,
                 order, result>>

SetNextOperand ==
  /\ pc = "operands" /\ i >= 0
  /\ SetOperand(OperandSlot(i), i + 1)
  /\ i' = i + 1
  /\ pc' = IF i = op_count - 1 THEN "order" ELSE "operands"
  /\ UNCHANGED <<input, generation, j, target_priority, prev, node, extended,
                 order, result>>

(* The text of an operand is neither a value, a variable nor a label, or   *)
(* the subexpression starts with an operator other than + and -.           *)
RejectOperand ==
  /\ pc = "operands"
  /\ pc' = "rejected"
  /\ UNCHANGED <<input, generation, locals, node, operand, extended,
                 labels, order, result>>

-----------------------------------------------------------------------------
(***************************************************************************)
(* _tms_set_evaluation_order                                               *)
(***************************************************************************)

NoOrder ==
  /\ pc = "order" /\ op_count = 0
  /\ start_node' = 0
  /\ next' = [next EXCEPT ![0] = NULL]
  /\ node' = 0
  /\ pc' = "pointers"
  /\ UNCHANGED <<input, generation, locals, operand, extended, labels, result>>

(* Priorities downwards, nodes from left to right: the first match. *)
FindStartNode ==
  /\ pc = "order" /\ op_count > 0
  /\ \E n \in Nodes :
       /\ \A m \in Nodes : priority[m] <= priority[n]
       /\ \A m \in 0 .. n - 1 : priority[m] # priority[n]
       /\ start_node' = n
       /\ i' = n
       /\ j' = n + 1
       /\ target_priority' = priority[n]
  /\ pc' = "link"
  /\ UNCHANGED <<input, generation, prev, node, operand, extended,
                 labels, next, result>>

(* Faulty variant: the scan goes on from the node just linked.             *)
LinkNodeAgain ==
  /\ pc = "link" /\ target_priority > 0
  /\ \E m \in j .. op_count - 1 :
       /\ priority[m] = target_priority
       /\ \A k \in j .. m - 1 : priority[k] # target_priority
       /\ next' = [next EXCEPT ![i] = m]
       /\ i' = m
       /\ j' = m
  /\ UNCHANGED <<input, generation, pc, target_priority, prev, node, operand,
                 extended, labels, start_node, result>>

(* The inner while loop, up to the next node with the target priority. *)
LinkNode ==
  /\ pc = "link" /\ target_priority > 0
  /\ \E m \in j .. op_count - 1 :
       /\ priority[m] = target_priority
       /\ \A k \in j .. m - 1 : priority[k] # target_priority
       /\ next' = [next EXCEPT ![i] = m]
       /\ i' = m
       /\ j' = m + 1
  /\ UNCHANGED <<input, generation, pc, target_priority, prev, node, operand,
                 extended, labels, start_node, result>>

(* The inner loop ran to the end: the next lower priority, from the left. *)
NextPriority ==
  /\ pc = "link" /\ target_priority > 0
  /\ \A k \in j .. op_count - 1 : priority[k] # target_priority
  /\ target_priority' = target_priority - 1
  /\ j' = 0
  /\ UNCHANGED <<input, generation, pc, i, prev, node, operand, extended,
                 labels, order, result>>

EndLinks ==
  /\ pc = "link" /\ target_priority = 0
  /\ next' = [next EXCEPT ![i] = NULL]
  /\ node' = start_node
  /\ pc' = "pointers"
  /\ UNCHANGED <<input, generation, locals, operand, extended, labels,
                 start_node, result>>

-----------------------------------------------------------------------------
(***************************************************************************)
(* _tms_set_result_pointers                                                *)
(***************************************************************************)

(* Faulty variants: the scan stops at the previous node, already reduced,  *)
(* or at the first node of a higher priority.                              *)
LeftScanPrevIndex(n, l) ==
  \E s \in -1 .. n - 1 :
    /\ \A k \in s + 1 .. n - 1 : k # prev.index /\ priority[n] <= priority[k]
    /\ \/ s = -1 /\ l = -1
       \/ s >= 0 /\ s = prev.index /\ l = prev.index
       \/ s >= 0 /\ s # prev.index /\ priority[n] > priority[s] /\ l = s

LeftScanSwapped(n, l) ==
  \E s \in -1 .. n - 1 :
    /\ \A k \in s + 1 .. n - 1 : priority[n] >= priority[k]
    /\ \/ s = -1 /\ l = -1
       \/ s >= 0 /\ priority[n] < priority[s] /\ l = s

(* l is the left_node the scan from node n ends with: the nearest node     *)
(* with a lower priority, or the previous node's own if that one is met.   *)
LeftScan(n, l) ==
  \E s \in -1 .. n - 1 :
    /\ \A k \in s + 1 .. n - 1 : k # prev.index /\ priority[n] <= priority[k]
    /\ \/ s = -1 /\ l = -1
       \/ s >= 0 /\ s = prev.index /\ l = prev.left
       \/ s >= 0 /\ s # prev.index /\ priority[n] > priority[s] /\ l = s

(* Same to the right, for a lower or equal priority. *)
RightScan(n, r) ==
  \E s \in n + 1 .. op_count :
    /\ \A k \in n + 1 .. s - 1 : k # prev.index /\ priority[n] < priority[k]
    /\ \/ s = op_count /\ r = op_count
       \/ s < op_count /\ s = prev.index /\ r = prev.right
       \/ s < op_count /\ s # prev.index /\ priority[n] >= priority[s] /\ r = s

(* Faulty variant: the case of no right candidate is forgotten.            *)
ResultSlotNoEnd(l, r) ==
  IF l # -1 /\ r # op_count /\ priority[l] >= priority[r] THEN Right(l) ELSE Left(r)

(* The operand that receives the result, out of the two candidates. *)
ResultSlot(l, r) ==
  IF l = -1 THEN Left(r)
  ELSE IF r = op_count \/ priority[l] >= priority[r] THEN Right(l)
  ELSE Left(r)

SetResultPointer ==
  /\ pc = "pointers" /\ next[node] # NULL
  /\ \E l \in -1 .. op_count, r \in -1 .. op_count :
       /\ LeftScan(node, l)
       /\ RightScan(node, r)
       /\ result' = [result EXCEPT ![node] = ResultSlot(l, r)]
       /\ prev' = [index |-> node, left |-> l, right |-> r]
  /\ node' = next[node]
  /\ UNCHANGED <<input, generation, pc, i, j, target_priority, operand,
                 extended, labels, order>>

SetLastResultPointer ==
  /\ pc = "pointers" /\ next[node] = NULL
  /\ result' = [result EXCEPT ![node] = Answer]
  /\ pc' = "labels"
  /\ UNCHANGED <<input, generation, locals, node, operand, extended, labels,
                 order>>

(* _tms_generate_labels_refs: the labelled operands are found and zeroed. *)
GenerateLabelsRefs ==
  /\ pc = "labels"
  /\ operand' = [s \in DOMAIN operand |->
                   IF \E a \in labeled : <<s, a>> \in labels
                   THEN Leaf(CHOOSE a \in labeled : <<s, a>> \in labels, {}, 0)
                   ELSE operand[s]]
  /\ pc' = "ready"
  /\ UNCHANGED <<input, generation, locals, node, extended, labels, order, result>>

-----------------------------------------------------------------------------
(***************************************************************************)
(* tms_set_labels_values, _tms_evaluate_unsafe and _tms_int_evaluate_unsafe *)
(***************************************************************************)

SetLabelsValues ==
  /\ pc \in Parsed
  /\ generation < MaxGeneration
  /\ generation' = generation + 1
  /\ operand' = [s \in DOMAIN operand |->
                   IF \E a \in labeled : <<s, a>> \in labels
                   THEN Leaf(CHOOSE a \in labeled : <<s, a>> \in labels,
                             labeled, generation + 1)
                   ELSE operand[s]]
  /\ extended' = extended \ {x[1] : x \in labels}
  /\ pc' = "ready"
  /\ UNCHANGED <<input, locals, node, labels, order, result>>

StartEvaluation ==
  /\ pc \in Parsed
  /\ node' = start_node
  /\ pc' = "evaluate"
  /\ UNCHANGED <<input, generation, locals, operand, extended, labels, order,
                 result>>

EvaluateNode ==
  /\ pc = "evaluate"
  /\ operand' = [operand EXCEPT ![result[node]] =
                   IF op_count = 0 THEN operand[Left(node)] ELSE Term(node)]
  /\ extended' = (extended \cup Extension(node)) \ {result[node]}
  /\ IF next[node] = NULL
     THEN pc' = "done" /\ UNCHANGED node
     ELSE node' = next[node] /\ UNCHANGED pc
  /\ UNCHANGED <<input, generation, locals, labels, order, result>>

(* Division by zero, a complex modulo, a bad shift, a negative exponent of *)
(* an integer power, which has extended its operands by then: no result.   *)
FailNode ==
  /\ pc = "evaluate" /\ op_count > 0
  /\ extended' = extended \cup Extension(node)
  /\ pc' = "failed"
  /\ UNCHANGED <<input, generation, locals, node, operand, labels, order, result>>

(* The operator of a real or complex expression yields a NaN, found after  *)
(* the result was stored.                                                  *)
FailAfterStore ==
  /\ pc = "evaluate" /\ op_count > 0 /\ ~integer
  /\ operand' = [operand EXCEPT ![result[node]] = Term(node)]
  /\ pc' = "failed"
  /\ UNCHANGED <<input, generation, locals, node, extended, labels, order, result>>

-----------------------------------------------------------------------------
Parse == \/ SetFirstOperand \/ SetNextOperand
         \/ NoOrder \/ FindStartNode \/ LinkNode \/ NextPriority \/ EndLinks
         \/ SetResultPointer \/ SetLastResultPointer
         \/ GenerateLabelsRefs

Next == \/ Parse \/ RejectOperand
        \/ SetLabelsValues \/ StartEvaluation
        \/ EvaluateNode \/ FailNode \/ FailAfterStore

(* The library's own loops run to their end; the caller is free to stop. *)
Fairness == WF_vars(Parse) /\ WF_vars(EvaluateNode)

Spec == Init /\ [][Next]_vars
FairSpec == Spec /\ Fairness

-----------------------------------------------------------------------------
(***************************************************************************)
(* Refinement: the operators still live are those at or after the node in  *)
(* hand, and the term of a gap is in the operand the code keeps it in.     *)
(***************************************************************************)
Before(a, b) == \/ priority[a] > priority[b]
                \/ priority[a] = priority[b] /\ a < b

LiveNodes == IF pc = "done" THEN {}
             ELSE IF pc \in {"evaluate", "failed"}
             THEN {n \in Nodes : ~Before(n, node)}
             ELSE Nodes

GapSlot(p, q) ==
  IF p = -1 /\ q = op_count
  THEN IF op_count = 0 /\ pc # "done" THEN Left(0) ELSE Answer
  ELSE ResultSlot(p, q)

LiveGaps == {g \in (LiveNodes \cup {-1}) \X (LiveNodes \cup {op_count}) :
               g[1] < g[2] /\ \A k \in LiveNodes : k <= g[1] \/ k >= g[2]}

GapTerm == [g \in LiveGaps |->
              IF pc \in {"evaluate", "failed", "done"}
              THEN operand[GapSlot(g[1], g[2])]
              ELSE Leaf(g[2], labeled, generation)]

Reduction == INSTANCE Precedence WITH live <- LiveNodes, term <- GapTerm

-----------------------------------------------------------------------------
(* The types; in particular a pointer that is set leads into an allocated  *)
(* node or to the answer, never outside the array the parser allocated.    *)
TypeOK ==
  /\ op_count \in 0 .. MaxOps
  /\ priority \in [Nodes -> 1 .. MaxPriority]
  /\ integer \in BOOLEAN
  /\ labeled \subseteq 0 .. op_count
  /\ generation \in 0 .. MaxGeneration
  /\ pc \in Phases
  /\ i \in -1 .. op_count
  /\ j \in 0 .. op_count
  /\ target_priority \in 0 .. MaxPriority
  /\ prev \in [index : -2 .. op_count, left : -2 .. op_count, right : -2 .. op_count]
  /\ node \in Allocated \cup {NULL}
  /\ operand = [s \in Slots \cup {Answer} |-> operand[s]]
  /\ extended \subseteq Slots
  /\ labels \subseteq Slots \X (0 .. op_count)
  /\ start_node \in Allocated \cup {NULL}
  /\ next \in [Allocated -> Nodes \cup {NULL}]
  /\ result \in [Allocated -> Slots \cup {Answer, Garbage}]

(* The answer of an evaluation is the value of the expression under the    *)
(* precedence and left associativity of its operators: the links, the      *)
(* result pointers and the operand placement of parser_common.h agree, and *)
(* an evaluation that follows others, failed or with other label values,   *)
(* reads nothing they left behind.                                         *)
RightAnswer == pc = "done" => operand[Answer] = Reduction!Tree

(* Once parsed, every operand of the text is in a node, with its value     *)
(* or the last value given to its label: no result is ever stored over an  *)
(* operand, which evaluating the same tree again relies on. The one write  *)
(* there is, the sign extension of the integer power, is over an operand   *)
(* that no other operator than that power, which extends it again, reads.  *)
OperandsKept ==
  pc \in Parsed \cup {"evaluate"} =>
    \A a \in 0 .. op_count :
      \E s \in Slots : /\ operand[s] = Leaf(a, labeled, generation)
                       /\ s \in extended => s[1] \in Powers

(* The evaluation never reads memory no one has written, nor a result of   *)
(* an earlier evaluation: the node in hand finds in its two operands the   *)
(* terms of the gaps on its two sides, all under it applied before.        *)
Implements == Reduction!Spec

(* The loops of the parser end, and so does every evaluation. *)
Terminates == /\ <>(pc \in Parsed \cup {"evaluate", "rejected"})
              /\ pc = "evaluate" ~> pc \in Parsed
=============================================================================
