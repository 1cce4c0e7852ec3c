--------------------------- MODULE EvalOrderProofs --------------------------
EXTENDS EvalOrderInv, NaturalsInduction, WellFoundedInduction, TLAPS

(* A subexpression whose operators have been found and nothing else        *)
(* satisfies the invariant.                                                *)
LEMMA InitInv == Init => IInv
<1> SUFFICES ASSUME Init PROVE IInv
  OBVIOUS
<1> USE EvalOrderAssumption DEF Init
<1>1. TypeOK
  BY DEF TypeOK, Phases, Parsed, NoPrev, Slots, Allocated, Nodes, Answer, Garbage, NULL, Left, Right
<1>2. OperandsInv
  BY DEF OperandsInv, Placed, Parsed
<1>3. QED
  BY <1>1, <1>2 DEF IInv, LinkInv, OrderInv, PointersInv, ResultInv, NodeInv, ExtendedInv, Linked, Parsed

(* The operand slots of an allocated node exist, and node 0 always does.   *)
LEMMA SlotsType ==
  ASSUME TypeOK
  PROVE  /\ \A n \in Allocated : Left(n) \in Slots /\ Right(n) \in Slots
         /\ \A n \in Nodes : n \in Allocated
         /\ op_count \in Nat
         /\ Nodes \subseteq Int
         /\ Allocated \subseteq Int
         /\ 0 \in Allocated
         /\ \A n \in Nodes : priority[n] \in Nat
BY DEF TypeOK, Slots, Left, Right, Allocated, Nodes

(* What the scans of _tms_set_result_pointers stop at, the shortcut through *)
(* the previous node included, is what a plain scan would find.             *)
LEMMA ScanLeft ==
  ASSUME TypeOK, PointersInv, pc = "pointers", op_count > 0,
         NEW l, LeftScan(node, l)
  PROVE  NearLeft(node, l)
<1> USE SlotsType DEF NULL
<1>1. node \in Nodes
  BY DEF PointersInv, Allocated
<1>2. PICK s \in -1 .. node - 1 :
        /\ \A k \in s + 1 .. node - 1 : k # prev.index /\ priority[node] <= priority[k]
        /\ \/ s = -1 /\ l = -1
           \/ s >= 0 /\ s = prev.index /\ l = prev.left
           \/ s >= 0 /\ s # prev.index /\ priority[node] > priority[s] /\ l = s
  BY DEF LeftScan
<1>3. CASE s = -1 /\ l = -1
  BY <1>1, <1>2, <1>3 DEF NearLeft, Nodes
<1>4. CASE s >= 0 /\ s # prev.index /\ priority[node] > priority[s] /\ l = s
  BY <1>1, <1>2, <1>4 DEF NearLeft, Nodes
<1>5. CASE s >= 0 /\ s = prev.index /\ l = prev.left
  <2>1. /\ s \in Nodes
        /\ Succ(s, node)
        /\ NearLeft(s, l)
    BY <1>1, <1>5 DEF PointersInv
  <2>2. l \in -1 .. node - 1
    BY <1>1, <1>2, <2>1 DEF NearLeft, Nodes
  <2>3. priority[s] >= priority[node]
    BY <1>1, <2>1 DEF Succ, Before
  <2>4. ASSUME NEW k \in Nodes, l < k, k < node
        PROVE  priority[k] >= priority[node]
    BY <1>1, <1>2, <2>1, <2>3, <2>4 DEF NearLeft, Nodes
  <2>5. ASSUME l # -1
        PROVE  priority[l] < priority[node]
    BY <1>1, <1>2, <2>1, <2>2, <2>5 DEF NearLeft, Succ, Before, Nodes
  <2>6. QED
    BY <2>2, <2>4, <2>5 DEF NearLeft
<1>6. QED
  BY <1>2, <1>3, <1>4, <1>5

(* The same of the scan to the right.                                      *)
LEMMA ScanRight ==
  ASSUME TypeOK, PointersInv, pc = "pointers", op_count > 0,
         NEW r, RightScan(node, r)
  PROVE  NearRight(node, r)
<1> USE SlotsType DEF NULL
<1>1. node \in Nodes
  BY DEF PointersInv, Allocated
<1>2. PICK s \in node + 1 .. op_count :
        /\ \A k \in node + 1 .. s - 1 : k # prev.index /\ priority[node] < priority[k]
        /\ \/ s = op_count /\ r = op_count
           \/ s < op_count /\ s = prev.index /\ r = prev.right
           \/ s < op_count /\ s # prev.index /\ priority[node] >= priority[s] /\ r = s
  BY DEF RightScan
<1>3. CASE s = op_count /\ r = op_count
  BY <1>1, <1>2, <1>3 DEF NearRight, Nodes
<1>4. CASE s < op_count /\ s # prev.index /\ priority[node] >= priority[s] /\ r = s
  BY <1>1, <1>2, <1>4 DEF NearRight, Nodes
<1>5. CASE s < op_count /\ s = prev.index /\ r = prev.right
  <2>1. /\ s \in Nodes
        /\ Succ(s, node)
        /\ NearRight(s, r)
    BY <1>1, <1>2, <1>5 DEF PointersInv, Nodes
  <2>2. r \in node + 1 .. op_count
    BY <1>1, <1>2, <2>1 DEF NearRight, Nodes
  <2>3. priority[s] > priority[node]
    BY <1>1, <1>2, <2>1 DEF Succ, Before, Nodes
  <2>4. ASSUME NEW k \in Nodes, node < k, k < r
        PROVE  priority[k] > priority[node]
    BY <1>1, <1>2, <2>1, <2>3, <2>4 DEF NearRight, Nodes
  <2>5. ASSUME r # op_count
        PROVE  priority[r] <= priority[node]
    BY <1>1, <1>2, <2>1, <2>2, <2>5 DEF NearRight, Succ, Before, Nodes
  <2>6. QED
    BY <2>2, <2>4, <2>5 DEF NearRight
<1>6. QED
  BY <1>2, <1>3, <1>4, <1>5

(* A node that has a next one is directed to the gap it leaves. *)
LEMMA DirectedStep ==
  ASSUME TypeOK, OrderInv, PointersInv, pc = "pointers", next[node] # NULL,
         NEW l, NEW r, LeftScan(node, l), RightScan(node, r)
  PROVE  /\ node \in Nodes /\ next[node] \in Nodes /\ op_count > 0
         /\ NearLeft(node, l) /\ NearRight(node, r)
         /\ l \in -1 .. op_count - 1 /\ r \in 0 .. op_count
         /\ ~(l = -1 /\ r = op_count)
         /\ ResultSlot(l, r) \in Slots
<1> USE SlotsType
<1>1. op_count > 0
  BY DEF OrderInv, PointersInv, Linked, Allocated, TypeOK
<1>2. node \in Nodes /\ next[node] \in Nodes
  BY <1>1 DEF PointersInv, Allocated, TypeOK
<1>3. NearLeft(node, l) /\ NearRight(node, r)
  BY <1>1, ScanLeft, ScanRight
<1>4. l \in -1 .. op_count - 1 /\ r \in 1 .. op_count
  BY <1>2, <1>3 DEF NearLeft, NearRight, Nodes
<1>5. ~(l = -1 /\ r = op_count)
  <2> SUFFICES ASSUME l = -1, r = op_count PROVE FALSE
    OBVIOUS
  <2>1. Succ(node, next[node])
    BY <1>1, <1>2 DEF OrderInv, Linked
  <2>2. QED
    BY <1>2, <1>3, <2>1 DEF Succ, Before, NearLeft, NearRight, Nodes
<1>6. ResultSlot(l, r) \in Slots
  BY <1>4, <1>5 DEF ResultSlot, Nodes
<1>7. QED
  BY <1>1, <1>2, <1>3, <1>4, <1>5, <1>6

(* _tms_set_operand keeps the operands a function of the same places, and  *)
(* the labels it records are references to operands.                       *)
LEMMA SetOperandType ==
  ASSUME TypeOK, NEW slot \in Slots, NEW a \in 0 .. op_count, SetOperand(slot, a)
  PROVE  /\ operand' = [s \in Slots \cup {Answer} |-> operand'[s]]
         /\ labels' \subseteq Slots \X (0 .. op_count)
<1>1. CASE a \in labeled
  BY <1>1 DEF SetOperand, TypeOK
<1>2. CASE a \notin labeled
  BY <1>2 DEF SetOperand, TypeOK
<1>3. QED
  BY <1>1, <1>2

(* A power extends its own operands, and no other operator any.            *)
LEMMA ExtensionType ==
  ASSUME TypeOK, NEW n
  PROVE  /\ Extension(n) \subseteq Powers \X {"left", "right"}
         /\ Extension(n) \subseteq Slots
BY DEF Extension, Powers, Slots, Allocated, Nodes, Left, Right

(* Every operator finds in its operands the values stored there.           *)
LEMMA TermIs ==
  ASSUME ExtendedInv, NEW n
  PROVE  Term(n) = <<n, operand[Left(n)], operand[Right(n)]>>
BY DEF ExtendedInv, Term, Read, Left, Right

(* The steps of parser and evaluator keep the types; result pointers stay  *)
(* inside the node array.                                                  *)
LEMMA TypeStep == IInv /\ [Next]_vars => TypeOK'
<1> SUFFICES ASSUME IInv, [Next]_vars PROVE TypeOK'
  OBVIOUS
<1> USE EvalOrderAssumption DEF IInv, NULL
<1>0. TypeOK
  OBVIOUS
<1>1. CASE SetFirstOperand
  <2>1. /\ operand' = [s \in Slots \cup {Answer} |-> operand'[s]]
        /\ labels' \subseteq Slots \X (0 .. op_count)
    <3>1. SetOperand(Left(0), 0) /\ Left(0) \in Slots /\ 0 \in 0 .. op_count
      BY <1>0, <1>1, SlotsType DEF SetFirstOperand
    <3> HIDE DEF IInv
    <3>2. QED
      BY <1>0, <3>1, SetOperandType
  <2>2. i' \in -1 .. op_count
    BY <1>1, SlotsType DEF SetFirstOperand
  <2>3. QED
    BY <1>1, <2>1, <2>2 DEF SetFirstOperand, TypeOK, Phases, input, order, Slots, Answer, Nodes, Allocated
<1>2. CASE SetNextOperand
  <2>1. i \in 0 .. op_count - 1
    BY <1>2, SlotsType DEF SetNextOperand, OperandsInv
  <2>2. OperandSlot(i) \in Slots
    BY <2>1, SlotsType DEF OperandSlot, Nodes
  <2>3. /\ operand' = [s \in Slots \cup {Answer} |-> operand'[s]]
        /\ labels' \subseteq Slots \X (0 .. op_count)
    <3>1. SetOperand(OperandSlot(i), i + 1) /\ i + 1 \in 0 .. op_count
      BY <1>0, <1>2, <2>1, SlotsType DEF SetNextOperand
    <3> HIDE DEF IInv
    <3>2. QED
      BY <1>0, <2>2, <3>1, SetOperandType
  <2>4. i' \in -1 .. op_count
    BY <1>2, <2>1, SlotsType DEF SetNextOperand
  <2>5. QED
    BY <1>2, <2>3, <2>4 DEF SetNextOperand, TypeOK, Phases, input, order, Slots, Answer, Nodes, Allocated
<1>3. CASE RejectOperand
  BY <1>3, SlotsType DEF RejectOperand, TypeOK, Phases, input, order, locals, Slots, Answer, Nodes, Allocated
<1>4. CASE NoOrder
  BY <1>4, SlotsType DEF NoOrder, TypeOK, Phases, input, order, locals, Slots, Answer, Nodes, Allocated
<1>5. CASE FindStartNode
  <2>1. PICK n \in Nodes : start_node' = n /\ i' = n /\ j' = n + 1
                          /\ target_priority' = priority[n]
    BY <1>5 DEF FindStartNode
  <2>2. /\ start_node' \in Allocated
        /\ i' \in -1 .. op_count
        /\ j' \in 0 .. op_count
        /\ target_priority' \in 0 .. MaxPriority
    <3>1. priority[n] \in 1 .. MaxPriority /\ n \in Allocated
      BY SlotsType DEF TypeOK
    <3>2. op_count \in Nat
      BY SlotsType
    <3>3. QED
      BY <2>1, <3>1, <3>2 DEF Nodes
  <2>3. QED
    BY <1>5, <2>2 DEF FindStartNode, TypeOK, Phases, input, order, locals, Slots, Answer, Nodes, Allocated
<1>6. CASE LinkNode
  <2>1. PICK m \in j .. op_count - 1 :
          next' = [next EXCEPT ![i] = m] /\ i' = m /\ j' = m + 1
    BY <1>6 DEF LinkNode
  <2>2. /\ m \in Nodes
        /\ i' \in -1 .. op_count
        /\ j' \in 0 .. op_count
    <3>1. op_count \in Nat /\ j \in Nat
      BY SlotsType DEF TypeOK
    <3>2. QED
      BY <2>1, <3>1 DEF Nodes
  <2>3. next' \in [Allocated -> Nodes \cup {NULL}]
    BY <2>1, <2>2 DEF TypeOK
  <2>4. QED
    BY <1>6, <2>2, <2>3 DEF LinkNode, TypeOK, Phases, input, order, locals, Slots, Answer, Nodes, Allocated
<1>7. CASE NextPriority
  <2>1. target_priority' \in 0 .. MaxPriority /\ j' \in 0 .. op_count
    BY <1>7, SlotsType DEF NextPriority, TypeOK
  <2>2. QED
    BY <1>7, <2>1 DEF NextPriority, TypeOK, Phases, input, order, locals, Slots, Answer, Nodes, Allocated
<1>8. CASE EndLinks
  BY <1>8, SlotsType DEF EndLinks, TypeOK, Phases, input, order, locals, Slots, Answer, Nodes, Allocated, LinkInv
<1>9. CASE SetResultPointer
  <2>1. PICK l \in -1 .. op_count, r \in -1 .. op_count :
          /\ LeftScan(node, l)
          /\ RightScan(node, r)
          /\ result' = [result EXCEPT ![node] = ResultSlot(l, r)]
          /\ prev' = [index |-> node, left |-> l, right |-> r]
    BY <1>9 DEF SetResultPointer
  <2>2. /\ node \in Nodes /\ next[node] \in Nodes
        /\ ResultSlot(l, r) \in Slots
    BY <1>9, <2>1, DirectedStep DEF SetResultPointer
  <2>3. result' \in [Allocated -> Slots \cup {Answer, Garbage}]
    BY <2>1, <2>2, SlotsType DEF TypeOK
  <2>4. prev' \in [index : -2 .. op_count, left : -2 .. op_count, right : -2 .. op_count]
    BY <2>1, <2>2, SlotsType DEF Nodes
  <2>5. node' \in Allocated
    BY <1>9, <2>2, SlotsType DEF SetResultPointer
  <2>6. QED
    BY <1>9, <2>3, <2>4, <2>5 DEF SetResultPointer, TypeOK, input, order, Slots, Nodes, Allocated
<1>10. CASE SetLastResultPointer
  BY <1>10, SlotsType DEF SetLastResultPointer, TypeOK, Phases, input, order, locals, Slots, Answer, Nodes, Allocated, PointersInv
<1>11. CASE GenerateLabelsRefs
  BY <1>11, SlotsType DEF GenerateLabelsRefs, TypeOK, Phases, Parsed, input, order, locals, Slots, Answer, Nodes, Allocated
<1>12. CASE SetLabelsValues
  <2>1. operand' = [x \in Slots \cup {Answer} |-> operand'[x]]
    BY <1>12 DEF SetLabelsValues, TypeOK
  <2>2. generation' \in 0 .. MaxGeneration
    BY <1>12 DEF SetLabelsValues, TypeOK
  <2>3. QED
    BY <1>12, <2>1, <2>2 DEF SetLabelsValues, Parsed, TypeOK, Phases, input, order, locals, Slots, Answer, Nodes, Allocated
<1>13. CASE StartEvaluation
  BY <1>13, SlotsType DEF StartEvaluation, TypeOK, Phases, Parsed, input, order, locals, Slots, Answer, Nodes, Allocated
<1>14. CASE EvaluateNode
  <2>1. operand' = [x \in Slots \cup {Answer} |-> operand'[x]]
    BY <1>14 DEF EvaluateNode, TypeOK
  <2>2. node' \in Allocated \cup {NULL}
    BY <1>14, SlotsType DEF EvaluateNode, NodeInv, TypeOK
  <2>3. pc' \in Phases
    BY <1>14 DEF EvaluateNode, Phases, Parsed
  <2>4. extended' \subseteq Slots
    BY <1>14, ExtensionType DEF EvaluateNode, TypeOK
  <2>5. QED
    BY <1>14, <2>1, <2>2, <2>3, <2>4 DEF EvaluateNode, TypeOK, Phases, input, order, locals, Slots, Answer, Nodes, Allocated
<1>15. CASE FailNode
  BY <1>15, SlotsType, ExtensionType DEF FailNode, TypeOK, Phases, Parsed, input, order, locals, Slots, Answer, Nodes, Allocated
<1>16. CASE FailAfterStore
  BY <1>16, SlotsType, ExtensionType DEF FailAfterStore, TypeOK, Phases, Parsed, input, order, locals, Slots, Answer, Nodes, Allocated
<1>17. CASE UNCHANGED vars
  BY <1>17 DEF vars, TypeOK, Phases, Parsed, input, order, locals, Slots, Answer, Nodes, Allocated
<1>18. QED
  BY <1>1, <1>2, <1>3, <1>4, <1>5, <1>6, <1>7, <1>8, <1>9, <1>10, <1>11, <1>12,
     <1>13, <1>14, <1>15, <1>16, <1>17 DEF Next, Parse

-----------------------------------------------------------------------------
(* The subexpression itself never changes. *)
LEMMA InputStep == [Next]_vars => UNCHANGED input
BY DEF vars, Next, Parse, input, SetFirstOperand, SetNextOperand, RejectOperand,
       NoOrder, FindStartNode, LinkNode, NextPriority, EndLinks,
       SetResultPointer, SetLastResultPointer, GenerateLabelsRefs,
       SetLabelsValues, StartEvaluation, EvaluateNode, FailNode, FailAfterStore

(* The evaluation order is a strict total order. *)
LEMMA BeforeOrder ==
  ASSUME TypeOK
  PROVE  /\ \A a, b \in Nodes : a = b \/ Before(a, b) \/ Before(b, a)
         /\ \A a, b \in Nodes : ~(Before(a, b) /\ Before(b, a))
         /\ \A a, b, c \in Nodes : Before(a, b) /\ Before(b, c) => Before(a, c)
BY SlotsType DEF Before

(* _tms_set_evaluation_order links the nodes it has passed in order, none  *)
(* twice.                                                                  *)
LEMMA LinkStep == IInv /\ [Next]_vars => LinkInv'
<1> SUFFICES ASSUME IInv, [Next]_vars, pc' = "link" PROVE LinkInv'
  BY DEF LinkInv
<1> USE DEF IInv, NULL
<1>t. TypeOK
  OBVIOUS
<1>u. op_count' = op_count /\ priority' = priority
  BY InputStep DEF input
<1>1. CASE FindStartNode
  <2>1. PICK n \in Nodes :
          /\ \A m \in Nodes : priority[m] <= priority[n]
          /\ \A m \in 0 .. n - 1 : priority[m] # priority[n]
          /\ start_node' = n
          /\ i' = n
          /\ j' = n + 1
          /\ target_priority' = priority[n]
    BY <1>1 DEF FindStartNode
  <2>2. \A k \in Nodes : k = n \/ Before(n, k)
    BY <1>t, <2>1, SlotsType DEF Before, Nodes
  <2>3. First(start_node)'
    BY <1>u, <2>1, <2>2 DEF First, Before, Nodes
  <2>4. ASSUME NEW k \in Nodes, Before(n, k)
        PROVE  priority[k] < priority[n] \/ (priority[k] = priority[n] /\ k >= n + 1)
    BY <1>t, <2>4, SlotsType DEF Before, Nodes
  <2>5. \A k \in Nodes : ~Before(k, n)
    BY <1>t, <2>1, <2>2, BeforeOrder
  <2>6. n < n + 1
    BY <1>t, <2>1, SlotsType
  <2>7. QED
    BY <1>t, <1>u, <2>1, <2>3, <2>4, <2>5, <2>6 DEF LinkInv, Before, Nodes
<1>2. CASE LinkNode
  <2>1. PICK m \in j .. op_count - 1 :
          /\ priority[m] = target_priority
          /\ \A k \in j .. m - 1 : priority[k] # target_priority
          /\ next' = [next EXCEPT ![i] = m]
          /\ i' = m
          /\ j' = m + 1
    BY <1>2 DEF LinkNode
  <2> DEFINE t == target_priority
  <2>2. /\ t' = t /\ t \in Nat /\ j \in Nat /\ op_count \in Nat
        /\ start_node' = start_node
        /\ m \in Nodes /\ i \in Nodes /\ m \in Int /\ i \in Int
        /\ next \in [Allocated -> Nodes \cup {NULL}]
        /\ Nodes \subseteq Allocated
    <3>1. t' = t /\ start_node' = start_node /\ i \in Nodes
      BY <1>2 DEF LinkNode, LinkInv
    <3>2. t \in Nat /\ j \in Nat /\ next \in [Allocated -> Nodes \cup {NULL}]
      BY DEF TypeOK
    <3>3. op_count \in Nat /\ Nodes \subseteq Allocated /\ Nodes \subseteq Int
      BY <1>t, SlotsType
    <3>4. m \in Nodes
      BY <2>1, <3>2, <3>3 DEF Nodes
    <3>5. QED
      BY <3>1, <3>2, <3>3, <3>4
  <2>3. /\ First(start_node) /\ start_node \in Nodes
        /\ priority[i] >= t
        /\ priority[i] = t => i < j
        /\ \A k \in Nodes : Before(i, k) =>
              priority[k] < t \/ (priority[k] = t /\ k >= j)
        /\ \A k \in Nodes : Before(k, i) => next[k] \in Nodes /\ Succ(k, next[k])
    BY <1>2 DEF LinkNode, LinkInv
  <2>4. Before(i, m)
    BY <1>t, <2>1, <2>2, <2>3, SlotsType DEF Before
  <2>5. ASSUME NEW k \in Nodes, Before(i, k), k # m
        PROVE  Before(m, k)
    BY <1>t, <2>1, <2>2, <2>3, <2>5, SlotsType DEF Before, Nodes
  <2>6. Succ(i, m)
    BY <1>t, <2>2, <2>4, <2>5, BeforeOrder DEF Succ
  <2>7. ASSUME NEW k \in Nodes, Before(k, m)
        PROVE  next'[k] \in Nodes /\ Succ(k, next'[k])
    <3>1. k = i \/ Before(k, i)
      BY <1>t, <2>2, <2>5, <2>7, BeforeOrder
    <3>2. CASE k = i
      BY <2>1, <2>2, <2>6, <3>2
    <3>3. CASE k # i
      BY <2>1, <2>2, <2>3, <3>1, <3>3
    <3>4. QED
      BY <3>2, <3>3
  <2>8. ASSUME NEW k \in Nodes, Before(m, k)
        PROVE  priority[k] < t \/ (priority[k] = t /\ k >= m + 1)
    BY <1>t, <2>1, <2>2, <2>8, SlotsType DEF Before, Nodes
  <2>9. /\ (\A k \in Nodes : Before(k, m) => next[k] \in Nodes /\ Succ(k, next[k]))'
    BY <1>u, <2>1, <2>7 DEF Before, Nodes, Succ
  <2>10. First(start_node)'
    BY <1>u, <2>2, <2>3 DEF First, Before, Nodes
  <2>11. (\A k \in Nodes : Before(m, k) =>
              priority[k] < t \/ (priority[k] = t /\ k >= m + 1))'
    BY <1>u, <2>2, <2>8 DEF Before, Nodes
  <2>12. /\ (i \in Nodes)' /\ (start_node \in Nodes)'
         /\ (priority[i] >= target_priority)' /\ (i < j)'
    BY <1>u, <2>1, <2>2, <2>3 DEF Nodes
  <2>13. (\A k \in Nodes : Before(k, i) => next[k] \in Nodes /\ Succ(k, next[k]))'
    BY <2>1, <2>9
  <2>14. (\A k \in Nodes : Before(i, k) =>
            \/ priority[k] < target_priority
            \/ priority[k] = target_priority /\ k >= j)'
    BY <2>1, <2>11
  <2>15. QED
    BY <2>10, <2>12, <2>13, <2>14 DEF LinkInv
<1>3. CASE NextPriority
  <2>1. /\ target_priority' = target_priority - 1 /\ j' = 0
        /\ i' = i /\ start_node' = start_node /\ next' = next
        /\ \A k \in j .. op_count - 1 : priority[k] # target_priority
        /\ LinkInv /\ pc = "link"
    BY <1>3 DEF NextPriority, order
  <2>2. /\ target_priority \in Nat /\ j \in Nat /\ op_count \in Nat
        /\ i \in Nodes /\ \A k \in Nodes : priority[k] \in Nat
    BY <1>t, <2>1, SlotsType DEF TypeOK, LinkInv
  <2>3. ASSUME NEW k \in Nodes, Before(i, k)
        PROVE  priority[k] < target_priority - 1 \/
               (priority[k] = target_priority - 1 /\ k >= 0)
    BY <2>1, <2>2, <2>3 DEF LinkInv, Nodes
  <2>4. /\ priority[i] >= target_priority - 1
        /\ priority[i] # target_priority - 1
    BY <2>1, <2>2 DEF LinkInv
  <2>5. First(start_node)'
    BY <1>u, <2>1 DEF LinkInv, First, Before, Nodes
  <2>6. QED
    BY <1>u, <2>1, <2>3, <2>4, <2>5 DEF LinkInv, Before, Nodes, Succ
<1>4. CASE UNCHANGED vars
  BY <1>4 DEF vars, locals, order, input, LinkInv, Nodes, First, Before, Succ
<1>5. QED
  BY <1>1, <1>2, <1>3, <1>4
  DEF Next, Parse, SetFirstOperand, SetNextOperand, RejectOperand, NoOrder, EndLinks,
      SetResultPointer, SetLastResultPointer, GenerateLabelsRefs,
      SetLabelsValues, StartEvaluation, EvaluateNode, FailNode, FailAfterStore

(* Once linked, the nodes form one list from start_node, in evaluation     *)
(* order.                                                                  *)
LEMMA OrderStep == IInv /\ [Next]_vars => OrderInv'
<1> SUFFICES ASSUME IInv, [Next]_vars, Linked' PROVE OrderInv'
  BY DEF OrderInv
<1> USE DEF IInv, NULL
<1>t. TypeOK
  OBVIOUS
<1>u. op_count' = op_count /\ priority' = priority
  BY InputStep DEF input
<1>1. CASE NoOrder
  <2>1. op_count = 0 /\ start_node' = 0 /\ next' = [next EXCEPT ![0] = NULL]
    BY <1>1 DEF NoOrder
  <2>2. next'[0] = NULL
    BY <2>1, SlotsType DEF TypeOK
  <2>3. QED
    BY <1>u, <2>1, <2>2 DEF OrderInv, Allocated
<1>2. CASE EndLinks
  <2>1. /\ LinkInv /\ pc = "link" /\ target_priority = 0
        /\ next' = [next EXCEPT ![i] = NULL]
        /\ start_node' = start_node
    BY <1>2 DEF EndLinks
  <2>2. /\ i \in Nodes /\ start_node \in Nodes /\ First(start_node)
        /\ \A k \in Nodes : Before(k, i) => next[k] \in Nodes /\ Succ(k, next[k])
    BY <2>1 DEF LinkInv
  <2>3. op_count \in Nat /\ Nodes \subseteq Allocated
    BY <1>t, SlotsType
  <2>4. op_count > 0
    BY <2>2, <2>3 DEF Nodes
  <2>5. \A k \in Nodes : ~Before(i, k)
    <3>1. \A k \in Nodes : priority[k] \in 1 .. MaxPriority
      BY DEF TypeOK
    <3>2. QED
      BY <2>1, <3>1, EvalOrderAssumption DEF LinkInv
  <2>6. Last(i)
    BY <1>t, <2>2, <2>5, BeforeOrder DEF Last
  <2>7. next'[i] = NULL /\ \A k \in Nodes : k # i => next'[k] = next[k]
    BY <2>1, <2>2, <2>3 DEF TypeOK
  <2>8. ASSUME NEW n \in Nodes
        PROVE  IF next'[n] = NULL THEN Last(n) ELSE Succ(n, next'[n])
    <3>1. CASE n = i
      BY <2>6, <2>7, <3>1
    <3>2. CASE n # i
      <4>1. next'[n] \in Nodes /\ Succ(n, next'[n])
        BY <2>2, <2>6, <2>7, <3>2 DEF Last
      <4>2. QED
        BY <4>1, <2>3 DEF Nodes
    <3>3. QED
      BY <3>1, <3>2
  <2>9. QED
    BY <1>u, <2>1, <2>2, <2>3, <2>4, <2>8
    DEF OrderInv, First, Last, Succ, Before, Nodes, Allocated
<1>3. CASE Linked /\ UNCHANGED order
  BY <1>u, <1>3 DEF OrderInv, order, First, Last, Succ, Before, Nodes, Allocated
<1>4. QED
  BY <1>1, <1>2, <1>3
  DEF Next, Parse, SetFirstOperand, SetNextOperand, RejectOperand, FindStartNode,
      LinkNode, NextPriority, SetResultPointer, SetLastResultPointer,
      GenerateLabelsRefs, SetLabelsValues, StartEvaluation, EvaluateNode,
      FailNode, FailAfterStore, Linked, Parsed, vars

(* The node an evaluation is at is an allocated one.                       *)
LEMMA NodeStep == IInv /\ [Next]_vars => NodeInv'
<1> SUFFICES ASSUME IInv, [Next]_vars PROVE NodeInv'
  OBVIOUS
<1> USE DEF IInv, NodeInv
<1>u. Allocated' = Allocated
  BY InputStep DEF input, Allocated, Nodes
<1>1. CASE StartEvaluation
  BY <1>u, <1>1 DEF StartEvaluation, OrderInv, Linked, Parsed
<1>2. CASE EvaluateNode
  <2>1. node \in Allocated /\ next[node] \in Nodes \cup {NULL}
    BY <1>2 DEF EvaluateNode, TypeOK
  <2>2. node' \in Allocated
    BY <1>2, <2>1, SlotsType DEF EvaluateNode
  <2>3. QED
    BY <1>u, <2>2
<1>3. CASE UNCHANGED <<node, pc>>
  BY <1>u, <1>3
<1>4. CASE pc \in {"evaluate", "failed", "done"} /\ node' = node
  BY <1>u, <1>4
<1>5. CASE pc' \notin {"evaluate", "failed", "done"}
  BY <1>5
<1>6. QED
  BY <1>1, <1>2, <1>3, <1>4, <1>5
  DEF Next, Parse, SetFirstOperand, SetNextOperand, RejectOperand, NoOrder,
      FindStartNode, LinkNode, NextPriority, EndLinks, SetResultPointer,
      SetLastResultPointer, GenerateLabelsRefs, SetLabelsValues, FailNode,
      FailAfterStore, Parsed, vars

(* Nothing but the operands of powers is ever extended.                    *)
LEMMA ExtendedStep == IInv /\ [Next]_vars => ExtendedInv'
<1> SUFFICES ASSUME IInv, [Next]_vars PROVE ExtendedInv'
  OBVIOUS
<1> USE DEF IInv, ExtendedInv
<1>u. Powers' = Powers
  BY InputStep DEF input, Powers, Nodes
<1>1. CASE UNCHANGED extended
  BY <1>u, <1>1
<1>2. CASE extended' \subseteq extended \cup Extension(node)
  BY <1>u, <1>2, ExtensionType
<1>3. QED
  BY <1>1, <1>2
  DEF Next, Parse, SetFirstOperand, SetNextOperand, RejectOperand, NoOrder,
      FindStartNode, LinkNode, NextPriority, EndLinks, SetResultPointer,
      SetLastResultPointer, GenerateLabelsRefs, SetLabelsValues,
      StartEvaluation, EvaluateNode, FailNode, FailAfterStore, vars

(* What the result pointers found so far is not touched by later steps. *)
LEMMA DirectedFrame ==
  ASSUME [Next]_vars, NEW n, result'[n] = result[n], Directed(n)
  PROVE  Directed(n)'
BY InputStep DEF input, Directed, NearLeft, NearRight, ResultSlot, Left, Right, Nodes

(* Each node _tms_set_result_pointers has passed has its result directed   *)
(* between its nearest live neighbours.                                    *)
LEMMA PointersStep == IInv /\ [Next]_vars => PointersInv'
<1> SUFFICES ASSUME IInv, [Next]_vars PROVE PointersInv'
  OBVIOUS
<1> USE DEF IInv
<1>t. TypeOK
  OBVIOUS
<1>u. op_count' = op_count /\ priority' = priority
  BY InputStep DEF input
<1>1. CASE NoOrder
  BY <1>u, <1>1 DEF NoOrder, PointersInv, Allocated
<1>2. CASE EndLinks
  <2>1. /\ prev = NoPrev /\ prev' = prev /\ pc' = "pointers"
        /\ node' = start_node /\ start_node \in Nodes /\ First(start_node)
    BY <1>2 DEF EndLinks, PointersInv, LinkInv, locals
  <2>2. \A n \in Nodes : ~Before(n, start_node)
    BY <1>t, <2>1, BeforeOrder, SlotsType DEF First, Before
  <2>3. start_node \in Allocated
    BY <1>t, <2>1, SlotsType
  <2>4. QED
    BY <1>u, <2>1, <2>2, <2>3 DEF PointersInv, NoPrev, Before, Nodes, Allocated
<1>3. CASE SetResultPointer
  <2>1. PICK l \in -1 .. op_count, r \in -1 .. op_count :
          /\ LeftScan(node, l)
          /\ RightScan(node, r)
          /\ result' = [result EXCEPT ![node] = ResultSlot(l, r)]
          /\ prev' = [index |-> node, left |-> l, right |-> r]
    BY <1>3 DEF SetResultPointer
  <2>2. /\ pc = "pointers" /\ next[node] # NULL /\ node' = next[node] /\ pc' = pc
    BY <1>3 DEF SetResultPointer
  <2>3. /\ node \in Nodes /\ next[node] \in Nodes /\ op_count > 0
        /\ NearLeft(node, l) /\ NearRight(node, r)
        /\ l \in -1 .. op_count - 1 /\ r \in 0 .. op_count
        /\ ~(l = -1 /\ r = op_count)
    BY <1>t, <2>1, <2>2, DirectedStep
  <2>4. Succ(node, next[node])
    BY <2>2, <2>3 DEF OrderInv, Linked
  <2>5. result'[node] = ResultSlot(l, r) /\ \A n \in Nodes : n # node => result'[n] = result[n]
    BY <1>t, <2>1, <2>3, SlotsType DEF TypeOK
  <2>6. ASSUME NEW n \in Nodes, n = node
        PROVE  Directed(n)'
    BY <1>u, <2>3, <2>5, <2>6 DEF Directed, NearLeft, NearRight, ResultSlot, Left, Right, Nodes
  <2>7. ASSUME NEW n \in Nodes, Before(n, next[node])
        PROVE  Directed(n)'
    <3>1. n = node \/ Before(n, node)
      BY <1>t, <2>3, <2>4, <2>7, BeforeOrder DEF Succ
    <3>2. CASE n = node
      BY <2>6, <3>2
    <3>3. CASE n # node
      BY <2>2, <2>3, <2>5, <3>1, <3>3, DirectedFrame DEF PointersInv
    <3>4. QED
      BY <3>2, <3>3
  <2>8. (\A n \in Nodes : Before(n, node) => Directed(n))'
    BY <1>u, <2>2, <2>7 DEF Before, Nodes
  <2>9. /\ (prev.index \in Nodes)'
        /\ Succ(prev.index, node)'
        /\ NearLeft(prev.index, prev.left)'
        /\ NearRight(prev.index, prev.right)'
    <3>1. prev'.index = node /\ prev'.left = l /\ prev'.right = r
      BY <2>1
    <3>2. Succ(prev.index, node)'
      BY <1>u, <2>2, <2>4, <3>1 DEF Succ, Before, Nodes
    <3>3. NearLeft(prev.index, prev.left)'
      BY <1>u, <2>3, <3>1 DEF NearLeft, Nodes
    <3>4. NearRight(prev.index, prev.right)'
      BY <1>u, <2>3, <3>1 DEF NearRight, Nodes
    <3>5. QED
      BY <1>u, <2>3, <3>1, <3>2, <3>3, <3>4 DEF Nodes
  <2>10. (node \in Allocated)'
    <3>1. next[node] \in Allocated
      BY <1>t, <2>3, SlotsType
    <3>2. Allocated' = Allocated
      BY <1>u DEF Allocated, Nodes
    <3>3. QED
      BY <2>2, <3>1, <3>2
  <2>11. QED
    BY <2>2, <2>8, <2>9, <2>10 DEF PointersInv
<1>4. CASE pc' \notin {"operands", "order", "link", "pointers"}
  BY <1>4 DEF PointersInv
<1>5. CASE pc \in {"operands", "order", "link"} /\ prev' = prev /\ pc' # "pointers"
  BY <1>5 DEF PointersInv, NoPrev
<1>6. CASE UNCHANGED vars
  <2>1. \A n \in Nodes : Directed(n) => Directed(n)'
    BY <1>6, DirectedFrame DEF vars
  <2>2. QED
    BY <1>6, <2>1 DEF vars, input, locals, PointersInv, NoPrev, Allocated, Nodes,
                      Succ, Before, NearLeft, NearRight
<1>7. QED
  BY <1>1, <1>2, <1>3, <1>4, <1>5, <1>6
  DEF Next, Parse, SetFirstOperand, SetNextOperand, RejectOperand, FindStartNode,
      LinkNode, NextPriority, SetLastResultPointer, GenerateLabelsRefs,
      SetLabelsValues, StartEvaluation, EvaluateNode, FailNode, FailAfterStore,
      Parsed, locals

(* When parsing is over every node's result is directed so, the last one   *)
(* to the answer.                                                          *)
LEMMA ResultStep == IInv /\ [Next]_vars => ResultInv'
<1> SUFFICES ASSUME IInv, [Next]_vars PROVE ResultInv'
  OBVIOUS
<1> USE DEF IInv
<1>t. TypeOK
  OBVIOUS
<1>u. op_count' = op_count /\ priority' = priority
  BY InputStep DEF input
<1>1. CASE SetLastResultPointer
  <2>1. /\ pc = "pointers" /\ next[node] = NULL /\ next' = next
        /\ result' = [result EXCEPT ![node] = Answer]
    BY <1>1 DEF SetLastResultPointer, order
  <2>2. node \in Allocated /\ op_count \in Nat
    BY <1>t, <2>1, SlotsType DEF PointersInv
  <2>3. result'[node] = Answer /\ \A n \in Allocated : n # node => result'[n] = result[n]
    BY <2>1, <2>2 DEF TypeOK
  <2>4. op_count = 0 => result'[0] = Answer
    BY <2>2, <2>3 DEF Allocated
  <2>5. ASSUME NEW n \in Nodes
        PROVE  IF next[n] = NULL THEN result'[n] = Answer ELSE Directed(n)'
    <3>1. node \in Nodes /\ op_count > 0 /\ n \in Allocated
      BY <2>2 DEF Allocated, Nodes
    <3>2. Last(node)
      BY <2>1, <3>1 DEF OrderInv, Linked
    <3>3. CASE n = node
      BY <2>1, <2>3, <3>3
    <3>4. CASE n # node
      <4>1. Before(n, node)
        BY <3>2, <3>4 DEF Last
      <4>2. Directed(n)'
        BY <2>1, <2>3, <3>1, <3>4, <4>1, DirectedFrame DEF PointersInv
      <4>3. next[n] # NULL
        <5> SUFFICES ASSUME next[n] = NULL PROVE FALSE
          OBVIOUS
        <5>1. Last(n)
          BY <2>1, <3>1 DEF OrderInv, Linked
        <5>2. QED
          BY <1>t, <3>1, <3>4, <4>1, <5>1, BeforeOrder DEF Last
      <4>4. QED
        BY <4>2, <4>3
    <3>5. QED
      BY <3>3, <3>4
  <2>6. QED
    BY <1>u, <2>1, <2>4, <2>5 DEF ResultInv, Nodes, Answer
<1>2. CASE pc' \notin {"labels", "evaluate"} \cup Parsed
  BY <1>2 DEF ResultInv, Parsed
<1>3. CASE pc \in {"labels", "evaluate"} \cup Parsed /\ UNCHANGED <<result, order>>
  <2>1. \A n \in Nodes : Directed(n) => Directed(n)'
    BY <1>3, DirectedFrame
  <2>2. QED
    BY <1>u, <1>3, <2>1 DEF ResultInv, Nodes, order, Answer
<1>4. QED
  BY <1>1, <1>2, <1>3
  DEF Next, Parse, SetFirstOperand, SetNextOperand, RejectOperand, NoOrder,
      FindStartNode, LinkNode, NextPriority, EndLinks, SetResultPointer,
      GenerateLabelsRefs, SetLabelsValues, StartEvaluation, EvaluateNode,
      FailNode, FailAfterStore, Parsed, vars, order

(* Two operands are never stored in the same place, and no result pointer  *)
(* leads to a place that holds an operand.                                 *)
LEMMA OwnerSlots ==
  ASSUME TypeOK
  PROVE  /\ \A a \in 0 .. op_count : Owner(a) \in Slots
         /\ \A a, b \in 0 .. op_count : Owner(a) = Owner(b) => a = b
<1>1. op_count \in Nat
  BY SlotsType
<1>2. \A a \in 0 .. op_count : Owner(a) \in Slots
  BY <1>1, SlotsType DEF Owner, OperandSlot, Nodes
<1>3. \A a \in 0 .. op_count :
        Owner(a) = Left(a) \/ (a > 0 /\ Owner(a) = Right(a - 1))
  BY <1>1 DEF Owner, OperandSlot
<1>4. QED
  BY <1>1, <1>2, <1>3 DEF Left, Right

(* A result is never directed to where an operand of the expression is.    *)
LEMMA ResultNotOperand ==
  ASSUME TypeOK, NEW n \in Nodes, Directed(n), NEW a \in 0 .. op_count
  PROVE  result[n] # Owner(a)
<1> USE SlotsType
<1>1. PICK l \in -1 .. op_count - 1, r \in 0 .. op_count :
        /\ NearLeft(n, l) /\ NearRight(n, r)
        /\ ~(l = -1 /\ r = op_count)
        /\ result[n] = ResultSlot(l, r)
  BY DEF Directed
<1>2. n \in Int /\ op_count \in Nat /\ 0 <= n /\ n < op_count
  BY DEF Nodes
<1>3. CASE result[n] = Right(l) /\ l # -1
  <2>1. l + 1 \in Nodes /\ l \in Nodes /\ priority[l] < priority[l + 1]
    BY <1>1, <1>2, <1>3 DEF NearLeft, Nodes
  <2>2. Owner(l + 1) = Left(l + 1)
    BY <1>1, <1>2, <2>1 DEF Owner, OperandSlot, Nodes
  <2>3. CASE a = l + 1
    BY <1>3, <2>2, <2>3 DEF Left, Right
  <2>4. CASE a # l + 1
    BY <1>1, <1>2, <1>3, <2>4 DEF Owner, OperandSlot, Left, Right
  <2>5. QED
    BY <2>3, <2>4
<1>4. CASE result[n] = Left(r) /\ r # op_count
  <2>1. r - 1 \in Nodes /\ r \in Nodes /\ priority[r - 1] >= priority[r] /\ r # 0
    BY <1>1, <1>2, <1>4 DEF NearRight, Nodes
  <2>2. Owner(r) = Right(r - 1)
    BY <1>1, <1>2, <2>1 DEF Owner, OperandSlot, Nodes
  <2>3. CASE a = r
    BY <1>4, <2>2, <2>3 DEF Left, Right
  <2>4. CASE a # r
    BY <1>1, <1>2, <1>4, <2>4 DEF Owner, OperandSlot, Left, Right
  <2>5. QED
    BY <2>3, <2>4
<1>5. QED
  BY <1>1, <1>2, <1>3, <1>4 DEF ResultSlot

(* Where an operand is kept depends on the operators alone.                *)
LEMMA OwnerFrame ==
  ASSUME UNCHANGED <<op_count, priority>>
  PROVE  \A a : Owner(a)' = Owner(a)
BY DEF Owner, OperandSlot, Left, Right

(* One more operand is read. *)
LEMMA PlacedStep ==
  ASSUME TypeOK, UNCHANGED input,
         NEW a \in 0 .. op_count, Placed(a), SetOperand(Owner(a), a)
  PROVE  Placed(a + 1)'
<1>u. op_count' = op_count /\ priority' = priority /\ labeled' = labeled
  BY DEF input
<1>o. \A b : Owner(b)' = Owner(b)
  BY <1>u, OwnerFrame
<1>1. op_count \in Nat /\ a \in Nat
  BY SlotsType
<1>2. \A b \in 0 .. a : b # a => b \in 0 .. a - 1 /\ Owner(b) # Owner(a)
  BY <1>1, OwnerSlots
<1>3. Owner(a) \in Slots
  BY OwnerSlots
<1>4. CASE a \in labeled
  <2>1. labels' = labels \cup {<<Owner(a), a>>} /\ operand' = operand
    BY <1>4 DEF SetOperand
  <2>2. ASSUME NEW b \in 0 .. a
        PROVE  IF b \in labeled THEN <<Owner(b), b>> \in labels'
                                ELSE operand'[Owner(b)] = Leaf(b, {}, 0)
    BY <1>2, <1>4, <2>1 DEF Placed
  <2>3. ASSUME NEW x \in labels'
        PROVE  x[2] \in labeled /\ x[2] \in 0 .. a /\ x = <<Owner(x[2]), x[2]>>
    <3>1. CASE x \in labels
      BY <1>1, <3>1 DEF Placed
    <3>2. CASE x = <<Owner(a), a>>
      BY <1>1, <1>4, <3>2
    <3>3. QED
      BY <2>1, <3>1, <3>2
  <2>4. a + 1 - 1 = a
    BY <1>1
  <2>5. QED
    BY <1>u, <1>o, <2>2, <2>3, <2>4 DEF Placed, Leaf
<1>5. CASE a \notin labeled
  <2>1. labels' = labels /\ operand' = [operand EXCEPT ![Owner(a)] = Leaf(a, {}, 0)]
    BY <1>5 DEF SetOperand
  <2>2. /\ operand'[Owner(a)] = Leaf(a, {}, 0)
        /\ \A s \in Slots : s # Owner(a) => operand'[s] = operand[s]
    BY <1>3, <2>1 DEF TypeOK
  <2>3. ASSUME NEW b \in 0 .. a
        PROVE  IF b \in labeled THEN <<Owner(b), b>> \in labels'
                                ELSE operand'[Owner(b)] = Leaf(b, {}, 0)
    <3>1. CASE b = a
      BY <1>5, <2>2, <3>1
    <3>2. CASE b # a
      <4>1. b \in 0 .. a - 1 /\ Owner(b) # Owner(a) /\ Owner(b) \in Slots
        BY <1>1, <1>2, <3>2, OwnerSlots
      <4>2. QED
        BY <2>1, <2>2, <4>1 DEF Placed
    <3>3. QED
      BY <3>1, <3>2
  <2>4. ASSUME NEW x \in labels'
        PROVE  x[2] \in labeled /\ x[2] \in 0 .. a /\ x = <<Owner(x[2]), x[2]>>
    BY <1>1, <2>1 DEF Placed
  <2>5. a + 1 - 1 = a
    BY <1>1
  <2>6. QED
    BY <1>u, <1>o, <2>3, <2>4, <2>5 DEF Placed, Leaf
<1>6. QED
  BY <1>4, <1>5

(* Where the labels are recorded, a value given to them reaches its operand *)
(* and nothing else.                                                        *)
LEMMA LabelValue ==
  ASSUME TypeOK, NEW g, NEW a \in 0 .. op_count,
         \A b \in labeled : <<Owner(b), b>> \in labels,
         \A x \in labels : x[2] \in labeled /\ x = <<Owner(x[2]), x[2]>>
  PROVE  LET s == Owner(a)
         IN  IF a \in labeled
             THEN /\ \E b \in labeled : <<s, b>> \in labels
                  /\ (CHOOSE b \in labeled : <<s, b>> \in labels) = a
             ELSE ~\E b \in labeled : <<s, b>> \in labels
<1>1. ASSUME NEW b \in labeled, <<Owner(a), b>> \in labels
      PROVE  b = a
  <2>1. Owner(a) = Owner(b)
    BY <1>1
  <2>2. b \in 0 .. op_count
    BY DEF TypeOK
  <2>3. QED
    BY <2>1, <2>2, OwnerSlots
<1>2. CASE a \in labeled
  BY <1>1, <1>2
<1>3. CASE a \notin labeled
  BY <1>1, <1>3
<1>4. QED
  BY <1>2, <1>3

(* The operands stay where _tms_set_all_operands put them, with the        *)
(* labels' current values.                                                 *)
LEMMA OperandsStep == IInv /\ [Next]_vars => OperandsInv'
<1> SUFFICES ASSUME IInv, [Next]_vars PROVE OperandsInv'
  OBVIOUS
<1> USE DEF IInv
<1>t. TypeOK
  OBVIOUS
<1>u. op_count' = op_count /\ priority' = priority /\ labeled' = labeled
  BY InputStep DEF input
<1>o. \A b : Owner(b)' = Owner(b)
  BY <1>u, OwnerFrame
<1>n. op_count \in Nat
  BY <1>t, SlotsType
<1>1. CASE SetFirstOperand
  <2>1. /\ pc = "operands" /\ i = -1 /\ i' = 0 /\ SetOperand(Left(0), 0)
        /\ pc' = IF op_count = 0 THEN "order" ELSE "operands"
        /\ generation' = generation
    BY <1>1 DEF SetFirstOperand
  <2>2. Placed(0) /\ generation = 0
    BY <2>1 DEF OperandsInv, Parsed
  <2>3. Owner(0) = Left(0)
    BY DEF Owner
  <2>4. Placed(0 + 1)'
    BY <1>t, <1>n, <2>1, <2>2, <2>3, PlacedStep, InputStep
  <2>5. QED
    BY <1>u, <1>n, <2>1, <2>2, <2>4 DEF OperandsInv, Parsed
<1>2. CASE SetNextOperand
  <2>1. /\ pc = "operands" /\ i >= 0 /\ i' = i + 1 /\ SetOperand(OperandSlot(i), i + 1)
        /\ pc' = IF i = op_count - 1 THEN "order" ELSE "operands"
        /\ generation' = generation
    BY <1>2 DEF SetNextOperand
  <2>2. Placed(i + 1) /\ generation = 0 /\ i \in 0 .. op_count - 1
    BY <1>n, <2>1 DEF OperandsInv, Parsed
  <2>3. Owner(i + 1) = OperandSlot(i) /\ i + 1 \in 0 .. op_count
    BY <1>n, <2>2 DEF Owner
  <2>4. PICK a \in 0 .. op_count : a = i + 1
    BY <2>3
  <2>5. Placed(a + 1)'
    BY <1>t, <2>1, <2>2, <2>3, <2>4, PlacedStep, InputStep
  <2>6. CASE i = op_count - 1
    <3>1. pc' = "order" /\ a = op_count /\ generation' = 0
      BY <1>n, <2>1, <2>2, <2>4, <2>6
    <3>2. Placed(op_count + 1)'
      BY <1>u, <2>5, <3>1
    <3>3. QED
      BY <3>1, <3>2 DEF OperandsInv, Parsed
  <2>7. CASE i # op_count - 1
    <3>1. /\ pc' = "operands" /\ generation' = 0
          /\ i' = a /\ i' \in -1 .. op_count' - 1
      BY <1>u, <1>n, <2>1, <2>2, <2>4, <2>7
    <3>2. Placed(i + 1)'
      BY <2>5, <3>1
    <3>3. QED
      BY <3>1, <3>2 DEF OperandsInv, Parsed
  <2>8. QED
    BY <2>6, <2>7
<1>3. CASE GenerateLabelsRefs
  <2>1. /\ pc = "labels" /\ pc' = "ready" /\ labels' = labels /\ generation' = generation
        /\ operand' = [s \in DOMAIN operand |->
                         IF \E a \in labeled : <<s, a>> \in labels
                         THEN Leaf(CHOOSE a \in labeled : <<s, a>> \in labels, {}, 0)
                         ELSE operand[s]]
    BY <1>3 DEF GenerateLabelsRefs
  <2>2. Placed(op_count + 1) /\ generation = 0 /\ op_count + 1 - 1 = op_count
    BY <1>n, <2>1 DEF OperandsInv, Parsed
  <2>3. /\ \A b \in labeled : <<Owner(b), b>> \in labels
        /\ \A x \in labels : x[2] \in labeled /\ x = <<Owner(x[2]), x[2]>>
    <3>1. labeled \subseteq 0 .. op_count
      BY DEF TypeOK
    <3>3. ASSUME NEW b \in labeled PROVE <<Owner(b), b>> \in labels
      BY <1>n, <2>2, <3>1 DEF Placed
    <3>4. ASSUME NEW x \in labels PROVE x[2] \in labeled /\ x = <<Owner(x[2]), x[2]>>
      BY <2>2 DEF Placed
    <3>5. QED
      BY <3>3, <3>4
  <2>4. ASSUME NEW a \in 0 .. op_count
        PROVE  operand'[Owner(a)] = Leaf(a, labeled, 0)
    <3>1. Owner(a) \in DOMAIN operand
      BY <1>t, OwnerSlots DEF TypeOK
    <3>2. CASE a \in labeled
      <4>1. /\ \E b \in labeled : <<Owner(a), b>> \in labels
            /\ (CHOOSE b \in labeled : <<Owner(a), b>> \in labels) = a
        BY <1>t, <2>3, <3>2, LabelValue
      <4>2. operand'[Owner(a)] = Leaf(a, {}, 0)
        BY <2>1, <3>1, <4>1
      <4>3. QED
        BY <4>2 DEF Leaf
    <3>3. CASE a \notin labeled
      <4>1. operand[Owner(a)] = Leaf(a, {}, 0)
        <5>1. a \in 0 .. (op_count + 1) - 1
          BY <1>n
        <5>2. QED
          BY <2>2, <3>3, <5>1 DEF Placed
      <4>2. QED
        BY <1>t, <2>1, <2>3, <3>1, <3>3, <4>1, LabelValue DEF Leaf
    <3>4. QED
      BY <3>2, <3>3
  <2>5. QED
    <3>1. (\A a \in 0 .. op_count : operand[Owner(a)] = Leaf(a, labeled, generation))'
      BY <1>u, <1>o, <2>1, <2>2, <2>4 DEF Leaf
    <3>2. QED
      BY <1>u, <1>o, <2>1, <2>3, <3>1 DEF OperandsInv, Parsed
<1>4. CASE SetLabelsValues
  <2>1. /\ pc \in Parsed /\ pc' = "ready" /\ labels' = labels /\ generation' = generation + 1
        /\ operand' = [s \in DOMAIN operand |->
                         IF \E a \in labeled : <<s, a>> \in labels
                         THEN Leaf(CHOOSE a \in labeled : <<s, a>> \in labels,
                                   labeled, generation + 1)
                         ELSE operand[s]]
    BY <1>4 DEF SetLabelsValues
  <2>2. /\ \A b \in labeled : <<Owner(b), b>> \in labels
        /\ \A x \in labels : x[2] \in labeled /\ x = <<Owner(x[2]), x[2]>>
        /\ \A a \in 0 .. op_count : operand[Owner(a)] = Leaf(a, labeled, generation)
    BY <2>1 DEF OperandsInv
  <2>3. ASSUME NEW a \in 0 .. op_count
        PROVE  operand'[Owner(a)] = Leaf(a, labeled, generation + 1)
    <3>1. Owner(a) \in DOMAIN operand
      BY <1>t, OwnerSlots DEF TypeOK
    <3>2. CASE a \in labeled
      BY <1>t, <2>1, <2>2, <3>1, <3>2, LabelValue DEF Leaf
    <3>3. CASE a \notin labeled
      BY <1>t, <2>1, <2>2, <3>1, <3>3, LabelValue DEF Leaf
    <3>4. QED
      BY <3>2, <3>3
  <2>4. QED
    BY <1>u, <1>o, <2>1, <2>2, <2>3 DEF OperandsInv, Parsed, Leaf
<1>5. CASE EvaluateNode \/ FailAfterStore
  <2>1. PICK v : /\ pc = "evaluate" /\ pc' \in {"evaluate", "done", "failed"}
                 /\ labels' = labels /\ generation' = generation
                 /\ operand' = [operand EXCEPT ![result[node]] = v]
    BY <1>5 DEF EvaluateNode, FailAfterStore
  <2>2. node \in Allocated
    BY <2>1 DEF NodeInv
  <2>3. ASSUME NEW a \in 0 .. op_count
        PROVE  result[node] # Owner(a)
    <3>1. Owner(a) # Answer
      BY <1>n DEF Owner, OperandSlot, Left, Right, Answer
    <3>2. CASE result[node] = Answer
      BY <3>1, <3>2
    <3>3. CASE node \in Nodes /\ Directed(node)
      BY <1>t, <3>3, ResultNotOperand
    <3>4. QED
      BY <1>n, <2>1, <2>2, <3>2, <3>3 DEF ResultInv, Allocated
  <2>4. ASSUME NEW a \in 0 .. op_count
        PROVE  operand'[Owner(a)] = Leaf(a, labeled, generation)
    <3>1. Owner(a) \in DOMAIN operand
      BY <1>t, OwnerSlots DEF TypeOK
    <3>2. operand[Owner(a)] = Leaf(a, labeled, generation)
      BY <2>1 DEF OperandsInv
    <3>3. QED
      BY <2>1, <2>3, <3>1, <3>2
  <2>5. QED
    BY <1>u, <1>o, <2>1, <2>4 DEF OperandsInv, Parsed, Leaf
<1>6. CASE pc' = pc /\ UNCHANGED <<i, operand, labels, generation>>
  BY <1>u, <1>o, <1>6 DEF OperandsInv, Placed, Leaf
<1>7. CASE /\ UNCHANGED <<operand, labels, generation>>
           /\ pc \in {"order", "link", "pointers"} /\ pc' \in {"order", "link", "pointers", "labels"}
  BY <1>u, <1>o, <1>7 DEF OperandsInv, Placed, Leaf, Parsed
<1>8. CASE /\ UNCHANGED <<operand, labels, generation>>
           /\ pc \in Parsed \cup {"evaluate"} /\ pc' \in Parsed \cup {"evaluate"}
  BY <1>u, <1>o, <1>8 DEF OperandsInv, Leaf, Parsed
<1>9. CASE RejectOperand
  BY <1>9 DEF RejectOperand, OperandsInv, Parsed
<1>10. QED
  BY <1>1, <1>2, <1>3, <1>4, <1>5, <1>6, <1>7, <1>8, <1>9
  DEF Next, Parse, NoOrder, FindStartNode, LinkNode, NextPriority, EndLinks,
      SetResultPointer, SetLastResultPointer, StartEvaluation, FailNode,
      Parsed, vars, locals

(* The strengthened invariant holds of every state. *)
THEOREM Invariance == Spec => []IInv
<1>1. IInv /\ [Next]_vars => IInv'
  BY TypeStep, OperandsStep, LinkStep, OrderStep, PointersStep, ResultStep, NodeStep,
     ExtendedStep
  DEF IInv
<1>2. QED
  BY InitInv, <1>1, PTL DEF Spec

(* Type correctness: in particular every result pointer that is set leads  *)
(* to an operand of an allocated node, never outside the array.            *)
THEOREM TypeCorrect == Spec => []TypeOK
<1>1. IInv => TypeOK
  BY DEF IInv
<1>2. QED
  BY <1>1, Invariance, PTL

(* No evaluation ever stores a result over an operand of the expression,   *)
(* and what an integer power writes there only it will read.               *)
THEOREM OperandsAreKept == Spec => []OperandsKept
<1>1. IInv => OperandsKept
  <2> SUFFICES ASSUME IInv, pc \in Parsed \cup {"evaluate"}, NEW a \in 0 .. op_count
               PROVE  \E s \in Slots : /\ operand[s] = Leaf(a, labeled, generation)
                                       /\ s \in extended => s[1] \in Powers
    BY DEF OperandsKept
  <2>1. Owner(a) \in Slots
    BY OwnerSlots DEF IInv
  <2>2. operand[Owner(a)] = Leaf(a, labeled, generation)
    BY DEF IInv, OperandsInv
  <2>3. Owner(a) \in extended => Owner(a)[1] \in Powers
    BY DEF IInv, ExtendedInv
  <2>4. QED
    BY <2>1, <2>2, <2>3
<1>2. QED
  BY <1>1, Invariance, PTL

-----------------------------------------------------------------------------
(***************************************************************************)
(* The node array implements module Precedence.                            *)
(***************************************************************************)

(* Membership in the gaps of a set of live operators, spelled out.         *)
LEMMA GapsDef ==
  ASSUME NEW L, NEW n, NEW p, NEW q
  PROVE  <<p, q>> \in Reduction!Gaps(L, n) <=>
           /\ p \in L \cup {-1} /\ q \in L \cup {n}
           /\ p < q /\ \A k \in L : k <= p \/ k >= q
BY DEF Reduction!Gaps

(* A gap is a pair of its ends.                                            *)
LEMMA GapsPair ==
  ASSUME NEW L, NEW n, NEW g \in Reduction!Gaps(L, n)
  PROVE  g = <<g[1], g[2]>>
BY DEF Reduction!Gaps

(* Where the term of a gap is, Answer once nothing is left. *)
GapPlace(p, q) == IF p = -1 /\ q = op_count THEN Answer ELSE ResultSlot(p, q)

(* Different gaps are kept in different places. *)
LEMMA PlacesApart ==
  ASSUME TypeOK, NEW L, L \subseteq Nodes, NEW p, NEW q, NEW v, NEW w,
         <<p, q>> \in Reduction!Gaps(L, op_count),
         <<v, w>> \in Reduction!Gaps(L, op_count),
         GapPlace(p, q) = GapPlace(v, w)
  PROVE  p = v /\ q = w
<1>1. /\ p \in L \cup {-1} /\ q \in L \cup {op_count} /\ p < q
      /\ \A k \in L : k <= p \/ k >= q
      /\ v \in L \cup {-1} /\ w \in L \cup {op_count} /\ v < w
      /\ \A k \in L : k <= v \/ k >= w
  BY GapsDef
<1>2. op_count \in Nat /\ \A k \in L : k \in Int /\ k >= 0 /\ k < op_count
  BY SlotsType DEF Nodes
<1>3. p = v <=> q = w
  BY <1>1, <1>2
<1>4. CASE p = -1 /\ q = op_count
  <2>1. L = {}
    BY <1>1, <1>2, <1>4
  <2>2. QED
    BY <1>1, <1>4, <2>1
<1>5. CASE v = -1 /\ w = op_count
  <2>1. L = {}
    BY <1>1, <1>2, <1>5
  <2>2. QED
    BY <1>1, <1>5, <2>1
<1>6. CASE ~(p = -1 /\ q = op_count) /\ ~(v = -1 /\ w = op_count)
  BY <1>3, <1>6 DEF GapPlace, ResultSlot, Left, Right
<1>7. QED
  BY <1>4, <1>5, <1>6

(* Taking a node out of the live ones joins the gaps on its two sides. *)
LEMMA JoinGaps ==
  ASSUME TypeOK, NEW n \in Nodes, NEW L, L = {m \in Nodes : ~Before(m, n)},
         NEW l, NEW r, NearLeft(n, l), NearRight(n, r)
  PROVE  /\ <<l, n>> \in Reduction!Gaps(L, op_count)
         /\ <<n, r>> \in Reduction!Gaps(L, op_count)
         /\ <<l, r>> \in Reduction!Gaps(L \ {n}, op_count)
         /\ \A p, q : <<p, q>> \in Reduction!Gaps(L \ {n}, op_count) =>
               (p = l /\ q = r) \/ <<p, q>> \in Reduction!Gaps(L, op_count)
         /\ \A p, q : <<p, q>> \in Reduction!Gaps(L, op_count) =>
               \/ p = l /\ q = n
               \/ p = n /\ q = r
               \/ <<p, q>> \in Reduction!Gaps(L \ {n}, op_count) /\ ~(p = l /\ q = r)
         /\ GapPlace(l, n) = Left(n) /\ GapPlace(n, r) = Right(n)
         /\ l # n /\ r # n /\ n \in L /\ l \in Int /\ r \in Int
<1>1. op_count \in Nat /\ n \in Int /\ n >= 0 /\ n < op_count
  BY SlotsType DEF Nodes
<1>2. /\ l \in Int /\ r \in Int /\ l < n /\ n < r /\ l >= -1 /\ r <= op_count
      /\ l # -1 => priority[l] < priority[n]
      /\ r # op_count => priority[r] <= priority[n]
  BY <1>1 DEF NearLeft, NearRight
<1>3. /\ n \in L /\ l \in (L \ {n}) \cup {-1} /\ r \in (L \ {n}) \cup {op_count}
  BY <1>1, <1>2, SlotsType DEF Before, Nodes
<1>4. \A k \in L : k <= l \/ k = n \/ k >= r
  BY <1>1, <1>2, SlotsType DEF NearLeft, NearRight, Before, Nodes
<1>5. \A k \in L : k \in Int /\ k >= 0 /\ k < op_count
  BY <1>1 DEF Nodes
<1>6. /\ <<l, n>> \in Reduction!Gaps(L, op_count)
      /\ <<n, r>> \in Reduction!Gaps(L, op_count)
  <2>1. /\ l \in L \cup {-1} /\ n \in L \cup {op_count}
        /\ n \in L \cup {-1} /\ r \in L \cup {op_count}
    BY <1>3
  <2>2. \A k \in L : (k <= l \/ k >= n) /\ (k <= n \/ k >= r)
    BY <1>1, <1>2, <1>4, <1>5
  <2>3. QED
    BY <1>2, <2>1, <2>2, GapsDef
<1>7. <<l, r>> \in Reduction!Gaps(L \ {n}, op_count)
  <2>1. l < r /\ \A k \in L \ {n} : k <= l \/ k >= r
    BY <1>1, <1>2, <1>4, <1>5
  <2>2. QED
    BY <1>3, <2>1, GapsDef
<1>8. ASSUME NEW p, NEW q, <<p, q>> \in Reduction!Gaps(L \ {n}, op_count),
             ~(p = l /\ q = r)
      PROVE  <<p, q>> \in Reduction!Gaps(L, op_count)
  <2>1. /\ p \in (L \ {n}) \cup {-1} /\ q \in (L \ {n}) \cup {op_count}
        /\ p < q /\ \A k \in L \ {n} : k <= p \/ k >= q
    BY <1>8, GapsDef
  <2>2. n <= p \/ n >= q
    BY <1>1, <1>2, <1>3, <1>4, <1>5, <1>8, <2>1
  <2>3. QED
    BY <2>1, <2>2, GapsDef
<1>9. ASSUME NEW p, NEW q, <<p, q>> \in Reduction!Gaps(L, op_count),
             ~(p = l /\ q = n), ~(p = n /\ q = r)
      PROVE  <<p, q>> \in Reduction!Gaps(L \ {n}, op_count) /\ ~(p = l /\ q = r)
  <2>1. /\ p \in L \cup {-1} /\ q \in L \cup {op_count}
        /\ p < q /\ \A k \in L : k <= p \/ k >= q
    BY <1>9, GapsDef
  <2>2. p # n /\ q # n
    BY <1>1, <1>2, <1>3, <1>4, <1>5, <1>9, <2>1
  <2>3. ~(p = l /\ q = r)
    BY <1>2, <1>3, <2>1
  <2>4. QED
    BY <2>1, <2>2, <2>3, GapsDef
<1>10. GapPlace(l, n) = Left(n) /\ GapPlace(n, r) = Right(n)
  <2>1. n \in Nodes /\ (l # -1 => l \in Nodes) /\ (r # op_count => r \in Nodes)
    BY <1>1, <1>2 DEF Nodes
  <2>2. QED
    BY <1>1, <1>2, <2>1, SlotsType DEF GapPlace, ResultSlot
<1>11. QED
  BY <1>2, <1>3, <1>6, <1>7, <1>8, <1>9, <1>10

-----------------------------------------------------------------------------
(* What the mapped step looks like, phase by phase. *)

Running == {"evaluate", "failed", "done"}

(* While nothing is evaluated every gap holds its operand. *)
LEMMA FreshTerms ==
  ASSUME TypeOK, pc \notin Running
  PROVE  /\ LiveNodes = Nodes
         /\ GapTerm = Reduction!Operands(op_count, labeled, generation)
<1>1. LiveNodes = Nodes
  BY DEF LiveNodes, Running
<1>2. LiveGaps = Reduction!Gaps(Nodes, op_count)
  BY <1>1 DEF LiveGaps, Reduction!Gaps
<1>3. QED
  BY <1>1, <1>2 DEF GapTerm, Running, Reduction!Operands, Reduction!Ops, Nodes, Leaf, Reduction!Leaf

(* A freshly scanned subexpression is a reduction that has not started.    *)
LEMMA InitRefines == ASSUME Init PROVE Reduction!Init
<1>1. TypeOK /\ pc \notin Running
  BY InitInv DEF IInv, Init, Running
<1>2. QED
  BY <1>1, FreshTerms DEF Init, Reduction!Init, Reduction!Ops, Nodes

(* The same two facts of the state after a step. *)
LEMMA FreshTermsNext ==
  ASSUME pc' \notin Running
  PROVE  /\ LiveNodes' = Nodes'
         /\ GapTerm' = Reduction!Operands(op_count', labeled', generation')
<1>1. LiveNodes' = Nodes'
  BY DEF LiveNodes, Running
<1>2. LiveGaps' = Reduction!Gaps(Nodes', op_count')
  BY <1>1 DEF LiveGaps, Reduction!Gaps
<1>3. QED
  BY <1>1, <1>2 DEF GapTerm, Running, Reduction!Operands, Reduction!Ops, Nodes, Leaf, Reduction!Leaf

(* While something is evaluated every gap has its place in the nodes. *)
LEMMA PlacedTerms ==
  ASSUME pc \in Running, op_count # 0
  PROVE  GapTerm = [g \in Reduction!Gaps(LiveNodes, op_count) |->
                      operand[GapPlace(g[1], g[2])]]
<1>1. LiveGaps = Reduction!Gaps(LiveNodes, op_count)
  BY DEF LiveGaps, Reduction!Gaps
<1>2. ASSUME NEW g PROVE GapSlot(g[1], g[2]) = GapPlace(g[1], g[2])
  BY DEF GapSlot, GapPlace
<1>3. QED
  BY <1>1, <1>2 DEF GapTerm, Running

(* And the same of the state after a step.                                 *)
LEMMA PlacedTermsNext ==
  ASSUME pc' \in Running, op_count' # 0, UNCHANGED <<op_count, priority>>
  PROVE  GapTerm' = [g \in Reduction!Gaps(LiveNodes', op_count) |->
                       operand'[GapPlace(g[1], g[2])]]
<1>1. LiveGaps' = Reduction!Gaps(LiveNodes', op_count)
  BY DEF LiveGaps, Reduction!Gaps
<1>2. ASSUME NEW g PROVE GapSlot(g[1], g[2])' = GapPlace(g[1], g[2])
  BY DEF GapSlot, GapPlace, ResultSlot, Left, Right, Answer, NULL
<1>3. QED
  BY <1>1, <1>2 DEF GapTerm, Running

(* Parsing, and the ends of evaluations, are no steps of the reduction. *)
LEMMA QuietStep ==
  ASSUME pc \notin Running, pc' \notin Running, UNCHANGED <<input, generation>>
  PROVE  UNCHANGED Reduction!vars
<1>1. LiveNodes' = LiveNodes
  BY FreshTermsNext DEF LiveNodes, Running, input, Nodes
<1>2. LiveGaps' = LiveGaps
  BY <1>1 DEF LiveGaps, input
<1>3. GapTerm' = GapTerm
  BY <1>2 DEF GapTerm, Running, input, Leaf
<1>4. QED
  BY <1>1, <1>3 DEF Reduction!vars, input

(* New values for the labels: the expression is as if just parsed. *)
LEMMA LabelsStep ==
  ASSUME TypeOK, SetLabelsValues
  PROVE  Reduction!Again
<1>1. pc' \notin Running /\ UNCHANGED input /\ generation' = generation + 1
      /\ generation' \in 0 .. MaxGeneration
  BY EvalOrderAssumption DEF SetLabelsValues, Running, TypeOK
<1>2. LiveNodes' = Nodes /\ GapTerm' = Reduction!Operands(op_count, labeled, generation')
  BY <1>1, FreshTermsNext DEF input, Nodes
<1>3. QED
  BY <1>1, <1>2 DEF Reduction!Again, Reduction!Ops, Nodes, Reduction!input, input

(* The gaps of the untouched expression are those of its operands, each    *)
(* kept where the operand is.                                              *)
LEMMA OperandGaps ==
  ASSUME TypeOK, NEW p, NEW q, <<p, q>> \in Reduction!Gaps(Nodes, op_count)
  PROVE  /\ q \in 0 .. op_count /\ p = q - 1
         /\ op_count # 0 => GapPlace(p, q) = Owner(q)
<1>1. /\ p \in Nodes \cup {-1} /\ q \in Nodes \cup {op_count}
      /\ p < q /\ \A k \in Nodes : k <= p \/ k >= q
  BY GapsDef
<1>2. op_count \in Nat
  BY SlotsType
<1>3. q \in 0 .. op_count /\ p \in Int /\ p >= -1
  BY <1>1, <1>2 DEF Nodes
<1>4. p = q - 1
  <2>1. CASE q = 0
    BY <1>1, <1>2, <1>3, <2>1
  <2>2. CASE q # 0
    <3>1. q - 1 \in Nodes
      BY <1>2, <1>3, <2>2 DEF Nodes
    <3>2. q - 1 <= p
      BY <1>1, <1>3, <3>1
    <3>3. QED
      BY <1>1, <1>3, <3>2
  <2>3. QED
    BY <2>1, <2>2
<1>5. ASSUME op_count # 0 PROVE GapPlace(p, q) = Owner(q)
  <2>1. CASE q = 0
    BY <1>2, <1>3, <1>4, <1>5, <2>1 DEF GapPlace, ResultSlot, Owner
  <2>2. CASE q # 0
    <3>1. p # -1 /\ (q = op_count <=> p = op_count - 1) /\ p + 1 = q
      BY <1>2, <1>3, <1>4, <2>2
    <3>2. QED
      BY <1>2, <1>3, <1>4, <2>2, <3>1 DEF GapPlace, ResultSlot, Owner, OperandSlot
  <2>3. QED
    BY <2>1, <2>2
<1>6. QED
  BY <1>3, <1>4, <1>5

(* An evaluation that starts finds the operands in the places the          *)
(* reduction has them, whatever the evaluations before it left behind.     *)
LEMMA StartStep ==
  ASSUME IInv, StartEvaluation
  PROVE  Reduction!Again
<1>t. TypeOK
  BY DEF IInv
<1>u. /\ UNCHANGED <<input, generation, operand, start_node>>
      /\ pc' = "evaluate" /\ pc \in Parsed /\ node' = start_node
  BY DEF StartEvaluation, order
<1>1. LiveNodes' = Nodes
  <2>1. LiveNodes' = {n \in Nodes : ~Before(n, start_node)}
    BY <1>u DEF LiveNodes, input, Nodes, Before
  <2>2. ASSUME NEW n \in Nodes PROVE ~Before(n, start_node)
    <3>1. op_count > 0
      BY <1>t, SlotsType DEF Nodes
    <3>2. First(start_node) /\ start_node \in Nodes
      BY <1>u, <3>1 DEF IInv, OrderInv, Linked, Allocated
    <3>3. n = start_node \/ Before(start_node, n)
      BY <3>2 DEF First
    <3>4. QED
      BY <1>t, <3>2, <3>3, SlotsType DEF Before
  <2>3. QED
    BY <2>1, <2>2
<1>2. \A a \in 0 .. op_count : operand[Owner(a)] = Leaf(a, labeled, generation)
  BY <1>u DEF IInv, OperandsInv
<1>3. GapTerm' = [g \in Reduction!Gaps(Nodes, op_count) |-> Leaf(g[2], labeled, generation)]
  <2>1. CASE op_count = 0
    <3>1. ASSUME NEW g \in Reduction!Gaps(Nodes, op_count)
          PROVE  g[1] = -1 /\ g[2] = 0
      <4>1. g = <<g[1], g[2]>>
        BY GapsPair
      <4>2. g[2] \in 0 .. op_count /\ g[1] = g[2] - 1
        BY <1>t, <4>1, OperandGaps
      <4>3. QED
        BY <2>1, <4>2
    <3>2. operand[Left(0)] = Leaf(0, labeled, generation)
      BY <1>2, <2>1 DEF Owner
    <3>3. LiveGaps' = Reduction!Gaps(Nodes, op_count)
      BY <1>1, <1>u DEF LiveGaps, Reduction!Gaps, input
    <3>4. GapTerm' = [g \in LiveGaps' |-> operand[GapSlot(g[1], g[2])']]
      BY <1>u DEF GapTerm
    <3>5. \A g \in LiveGaps' : GapSlot(g[1], g[2])' = Left(0)
      BY <1>u, <2>1, <3>1, <3>3 DEF GapSlot, input, Left
    <3>6. QED
      BY <3>1, <3>2, <3>3, <3>4, <3>5
  <2>2. CASE op_count # 0
    <3>1. GapTerm' = [g \in Reduction!Gaps(Nodes, op_count) |-> operand[GapPlace(g[1], g[2])]]
      BY <1>1, <1>u, <2>2, PlacedTermsNext DEF Running, input
    <3>2. ASSUME NEW g \in Reduction!Gaps(Nodes, op_count)
          PROVE  operand[GapPlace(g[1], g[2])] = Leaf(g[2], labeled, generation)
      <4>1. g = <<g[1], g[2]>>
        BY GapsPair
      <4>2. g[2] \in 0 .. op_count /\ GapPlace(g[1], g[2]) = Owner(g[2])
        BY <1>t, <2>2, <4>1, OperandGaps
      <4>3. QED
        BY <1>2, <4>2
    <3>3. QED
      BY <3>1, <3>2
  <2>3. QED
    BY <2>1, <2>2
<1>4. generation' \in {generation, generation + 1} \cap 0 .. MaxGeneration
  BY <1>t, <1>u DEF TypeOK
<1>5. QED
  BY <1>1, <1>3, <1>4, <1>u
  DEF Reduction!Again, Reduction!Operands, Reduction!Ops, Reduction!Leaf, Nodes,
      Leaf, Reduction!input, input

(* Where the node in hand takes its operands from and sends its result.    *)
LEMMA NodeGaps ==
  ASSUME IInv, pc = "evaluate", NEW n \in Nodes, node = n
  PROVE  \E l, r : /\ NearLeft(n, l) /\ NearRight(n, r)
                   /\ result[n] = GapPlace(l, r)
                   /\ result[n] \in Slots \cup {Answer}
                   /\ result[n] # Left(n) /\ result[n] # Right(n)
<1>t. TypeOK
  BY DEF IInv
<1>1. op_count \in Nat /\ n \in Int /\ 0 <= n /\ n < op_count
  BY <1>t, SlotsType DEF Nodes
<1>2. CASE next[n] = NULL
  <2>1. Last(n) /\ result[n] = Answer
    BY <1>1, <1>2 DEF IInv, OrderInv, ResultInv, Linked
  <2>2. \A k \in Nodes : k = n \/ Before(k, n)
    BY <2>1 DEF Last
  <2>3. NearLeft(n, -1)
    BY <1>t, <1>1, <2>2, SlotsType DEF NearLeft, Before
  <2>4. NearRight(n, op_count)
    BY <1>t, <1>1, <2>2, SlotsType DEF NearRight, Before
  <2>5. GapPlace(-1, op_count) = Answer
    BY DEF GapPlace
  <2>6. Answer # Left(n) /\ Answer # Right(n)
    BY <1>1 DEF Answer, Left, Right, NULL
  <2>7. QED
    BY <2>1, <2>3, <2>4, <2>5, <2>6
<1>3. CASE next[n] # NULL
  <2>1. PICK l \in -1 .. op_count - 1, r \in 0 .. op_count :
          /\ NearLeft(n, l) /\ NearRight(n, r)
          /\ ~(l = -1 /\ r = op_count)
          /\ result[n] = ResultSlot(l, r)
    BY <1>3 DEF IInv, ResultInv, Directed
  <2>2. result[n] = GapPlace(l, r)
    BY <2>1 DEF GapPlace
  <2>3. l < n /\ n < r /\ l \in Int /\ r \in Int
    BY <1>1, <2>1 DEF NearLeft, NearRight
  <2>4. /\ l # -1 => l \in Nodes
        /\ r # op_count => r \in Nodes
    BY <1>1, <2>1, <2>3 DEF Nodes
  <2>5. \/ l # -1 /\ result[n] = Right(l)
        \/ r # op_count /\ result[n] = Left(r)
    BY <2>1 DEF ResultSlot
  <2>6. result[n] \in Slots
    BY <1>t, <2>4, <2>5, SlotsType
  <2>7. result[n] # Left(n) /\ result[n] # Right(n)
    BY <2>3, <2>5 DEF Left, Right
  <2>8. QED
    BY <2>1, <2>2, <2>6, <2>7
<1>4. QED
  BY <1>2, <1>3

(* Applying the node in hand reduces its operator: the terms of the gaps   *)
(* around it are in its operands, and its term goes to the gap it leaves.  *)
LEMMA ReduceStep ==
  ASSUME IInv, EvaluateNode, op_count # 0
  PROVE  \E o \in LiveNodes, p \in LiveNodes \cup {-1}, q \in LiveNodes \cup {op_count} :
           Reduction!Reduce(o, p, q)
<1>t. TypeOK
  BY DEF IInv
<1>u. pc = "evaluate" /\ UNCHANGED <<op_count, priority, labeled, generation>>
  BY DEF EvaluateNode, input
<1>1. PICK n \in Nodes : node = n
  BY <1>u DEF IInv, NodeInv, Allocated
<1>2. PICK l, r : /\ NearLeft(n, l) /\ NearRight(n, r)
                  /\ result[n] = GapPlace(l, r)
                  /\ result[n] \in Slots \cup {Answer}
                  /\ result[n] # Left(n) /\ result[n] # Right(n)
  BY <1>u, <1>1, NodeGaps
<1> DEFINE L == {m \in Nodes : ~Before(m, n)}
<1>3. LiveNodes = L
  BY <1>u, <1>1 DEF LiveNodes
<1>4. LiveNodes' = L \ {n}
  <2>1. op_count > 0
    BY <1>t, <1>1, SlotsType DEF Nodes
  <2>2. CASE next[n] = NULL
    <3>1. Last(n)
      BY <1>u, <2>1, <2>2 DEF IInv, OrderInv, Linked
    <3>2. L \ {n} = {}
      BY <3>1 DEF Last
    <3>3. pc' = "done"
      BY <1>1, <2>2 DEF EvaluateNode
    <3>4. QED
      BY <3>2, <3>3 DEF LiveNodes
  <2>3. CASE next[n] # NULL
    <3>1. Succ(n, next[n]) /\ next[n] \in Nodes
      BY <1>t, <1>1, <1>u, <2>1, <2>3 DEF IInv, OrderInv, Linked, TypeOK, Allocated
    <3>2. pc' = "evaluate" /\ node' = next[n]
      BY <1>1, <1>u, <2>3 DEF EvaluateNode
    <3>3. LiveNodes' = {m \in Nodes : ~Before(m, next[n])}
      BY <1>u, <3>2 DEF LiveNodes, Nodes, Before
    <3>4. ASSUME NEW m \in Nodes PROVE Before(m, next[n]) <=> Before(m, n) \/ m = n
      <4>1. m = n \/ m = next[n] \/ Before(m, n) \/ Before(next[n], m)
        BY <3>1 DEF Succ
      <4>2. Before(n, next[n])
        BY <3>1 DEF Succ
      <4>3. ~Before(m, m)
        BY <1>t, SlotsType DEF Before
      <4>4. QED
        BY <1>t, <3>1, <4>1, <4>2, <4>3, BeforeOrder
    <3>5. QED
      BY <3>3, <3>4
  <2>4. QED
    BY <2>2, <2>3
<1>5. /\ <<l, n>> \in Reduction!Gaps(L, op_count)
      /\ <<n, r>> \in Reduction!Gaps(L, op_count)
      /\ <<l, r>> \in Reduction!Gaps(L \ {n}, op_count)
      /\ \A p, q : <<p, q>> \in Reduction!Gaps(L \ {n}, op_count) =>
            (p = l /\ q = r) \/ <<p, q>> \in Reduction!Gaps(L, op_count)
      /\ GapPlace(l, n) = Left(n) /\ GapPlace(n, r) = Right(n) /\ n \in L
  BY <1>t, <1>2, JoinGaps
<1>6. operand' = [operand EXCEPT ![GapPlace(l, r)] = Term(n)]
  BY <1>1, <1>2 DEF EvaluateNode
<1>7. GapPlace(l, r) \in DOMAIN operand
  BY <1>t, <1>2 DEF TypeOK
<1>8. /\ GapTerm = [g \in Reduction!Gaps(L, op_count) |-> operand[GapPlace(g[1], g[2])]]
      /\ GapTerm' = [g \in Reduction!Gaps(L \ {n}, op_count) |-> operand'[GapPlace(g[1], g[2])]]
  <2>1. pc' \in Running
    BY <1>u DEF EvaluateNode, Running
  <2>2. GapTerm = [g \in Reduction!Gaps(L, op_count) |-> operand[GapPlace(g[1], g[2])]]
    BY <1>3, <1>u, PlacedTerms DEF Running
  <2>3. QED
    BY <1>4, <1>u, <2>1, <2>2, PlacedTermsNext
<1>9. ASSUME NEW g \in Reduction!Gaps(L \ {n}, op_count)
      PROVE  operand'[GapPlace(g[1], g[2])] =
               IF g = <<l, r>>
               THEN Reduction!Result(n, GapTerm[<<l, n>>], GapTerm[<<n, r>>])
               ELSE GapTerm[g]
  <2>1. g = <<g[1], g[2]>>
    BY GapsPair
  <2>2. CASE g = <<l, r>>
    <3>1. operand'[GapPlace(l, r)] = Term(n)
      BY <1>6, <1>7
    <3>2. GapTerm[<<l, n>>] = operand[Left(n)] /\ GapTerm[<<n, r>>] = operand[Right(n)]
      BY <1>5, <1>8
    <3>3. g[1] = l /\ g[2] = r
      BY <2>2
    <3>4. QED
      BY <2>2, <3>1, <3>2, <3>3, TermIs DEF Reduction!Result, IInv
  <2>3. CASE g # <<l, r>>
    <3>1. ~(g[1] = l /\ g[2] = r)
      BY <2>1, <2>3
    <3>2. g \in Reduction!Gaps(L, op_count)
      BY <1>5, <2>1, <3>1
    <3>3. GapPlace(g[1], g[2]) # GapPlace(l, r)
      <4>1. L \ {n} \subseteq Nodes
        OBVIOUS
      <4> HIDE DEF L
      <4>2. <<g[1], g[2]>> \in Reduction!Gaps(L \ {n}, op_count)
        BY <2>1
      <4>3. QED
        BY <1>t, <1>5, <3>1, <4>1, <4>2, PlacesApart
    <3>4. operand'[GapPlace(g[1], g[2])] = operand[GapPlace(g[1], g[2])]
      BY <1>6, <3>3
    <3>5. QED
      BY <1>8, <2>3, <3>2, <3>4
  <2>4. QED
    BY <2>2, <2>3
<1>10. \A k \in L : k = n \/ Before(n, k)
  BY <1>t, BeforeOrder
<1>11. l \in L \cup {-1} /\ r \in L \cup {op_count}
  BY <1>5, GapsDef
<1>12. Reduction!Reduce(n, l, r)
  <2>1. \A k \in L : k = n \/ Reduction!Before(n, k)
    BY <1>10 DEF Before, Reduction!Before
  <2> HIDE DEF L
  <2>2. GapTerm' = [g \in Reduction!Gaps(L \ {n}, op_count) |->
                      IF g = <<l, r>>
                      THEN Reduction!Result(n, GapTerm[<<l, n>>], GapTerm[<<n, r>>])
                      ELSE GapTerm[g]]
    BY <1>8, <1>9
  <2>3. QED
    BY <1>3, <1>4, <1>5, <1>u, <2>1, <2>2 DEF Reduction!Reduce, Reduction!input
<1>13. QED
  BY <1>3, <1>5, <1>11, <1>12

(* A subexpression without operators hands its operand over. *)
LEMMA CopyStep ==
  ASSUME IInv, EvaluateNode, op_count = 0
  PROVE  UNCHANGED Reduction!vars
<1>t. TypeOK
  BY DEF IInv
<1>1. /\ pc = "evaluate" /\ pc' = "done" /\ Nodes = {} /\ node = 0
      /\ UNCHANGED <<op_count, priority, labeled, generation>>
  BY <1>t DEF EvaluateNode, IInv, OrderInv, Linked, NodeInv, Allocated, Nodes, input
<1>2. LiveNodes = {} /\ LiveNodes' = {}
  BY <1>1 DEF LiveNodes, Nodes
<1>3. LiveGaps = {<<-1, 0>>} /\ LiveGaps' = {<<-1, 0>>}
  BY <1>1, <1>2 DEF LiveGaps
<1>4. operand'[Answer] = operand[Left(0)]
  BY <1>t, <1>1 DEF EvaluateNode, IInv, ResultInv, TypeOK, Parsed
<1>5. \A g \in {<<-1, 0>>} : /\ operand[GapSlot(g[1], g[2])] = operand[Left(0)]
                            /\ operand'[GapSlot(g[1], g[2])'] = operand'[Answer]
  BY <1>1 DEF GapSlot, Answer, NULL
<1>6. GapTerm = [g \in {<<-1, 0>>} |-> operand[GapSlot(g[1], g[2])]]
  BY <1>1, <1>3 DEF GapTerm
<1>7. GapTerm' = [g \in {<<-1, 0>>} |-> operand'[GapSlot(g[1], g[2])']]
  BY <1>1, <1>3 DEF GapTerm
<1>8. GapTerm' = GapTerm
  BY <1>4, <1>5, <1>6, <1>7
<1>9. QED
  BY <1>1, <1>2, <1>8 DEF Reduction!vars

(* The NaN a failed operator leaves behind is stored where no term is.     *)
LEMMA FailStep ==
  ASSUME IInv, FailAfterStore
  PROVE  UNCHANGED Reduction!vars
<1>t. TypeOK
  BY DEF IInv
<1>u. /\ pc = "evaluate" /\ pc' = "failed" /\ op_count # 0 /\ op_count \in Nat
      /\ UNCHANGED <<op_count, priority, labeled, generation, node>>
  BY <1>t, SlotsType DEF FailAfterStore, input
<1>1. PICK n \in Nodes : node = n
  BY <1>u DEF IInv, NodeInv, Allocated
<1>2. PICK l, r : /\ NearLeft(n, l) /\ NearRight(n, r)
                  /\ result[n] = GapPlace(l, r)
                  /\ result[n] \in Slots \cup {Answer}
                  /\ result[n] # Left(n) /\ result[n] # Right(n)
  BY <1>u, <1>1, NodeGaps
<1> DEFINE L == {m \in Nodes : ~Before(m, n)}
<1>3. LiveNodes = L /\ LiveNodes' = L
  BY <1>u, <1>1 DEF LiveNodes, Nodes, Before
<1>4. GapTerm = [g \in Reduction!Gaps(L, op_count) |-> operand[GapPlace(g[1], g[2])]]
  BY <1>3, <1>u, PlacedTerms DEF Running
<1>5. GapTerm' = [g \in Reduction!Gaps(L, op_count) |-> operand'[GapPlace(g[1], g[2])]]
  BY <1>3, <1>u, PlacedTermsNext DEF Running
<1>6. ASSUME NEW g \in Reduction!Gaps(L, op_count)
      PROVE  operand'[GapPlace(g[1], g[2])] = operand[GapPlace(g[1], g[2])]
  <2>1. g = <<g[1], g[2]>>
    BY GapsPair
  <2>2. \/ g[1] = l /\ g[2] = n
        \/ g[1] = n /\ g[2] = r
        \/ <<g[1], g[2]>> \in Reduction!Gaps(L \ {n}, op_count) /\ ~(g[1] = l /\ g[2] = r)
    <3>1. \A p, q : <<p, q>> \in Reduction!Gaps(L, op_count) =>
             \/ p = l /\ q = n
             \/ p = n /\ q = r
             \/ <<p, q>> \in Reduction!Gaps(L \ {n}, op_count) /\ ~(p = l /\ q = r)
      BY <1>t, <1>2, JoinGaps
    <3> HIDE DEF L
    <3>2. QED
      BY <2>1, <3>1
  <2>3. GapPlace(l, n) = Left(n) /\ GapPlace(n, r) = Right(n)
        /\ <<l, r>> \in Reduction!Gaps(L \ {n}, op_count)
    BY <1>t, <1>2, JoinGaps
  <2>4. GapPlace(g[1], g[2]) # GapPlace(l, r)
    <3>1. CASE <<g[1], g[2]>> \in Reduction!Gaps(L \ {n}, op_count) /\ ~(g[1] = l /\ g[2] = r)
      <4>1. L \ {n} \subseteq Nodes
        OBVIOUS
      <4> HIDE DEF L
      <4>2. QED
        BY <1>t, <2>3, <3>1, <4>1, PlacesApart
    <3>2. QED
      BY <1>2, <2>2, <2>3, <3>1
  <2>5. operand' = [operand EXCEPT ![GapPlace(l, r)] = Term(n)]
    BY <1>1, <1>2 DEF FailAfterStore
  <2>6. QED
    BY <2>4, <2>5
<1>7. GapTerm' = GapTerm
  BY <1>4, <1>5, <1>6
<1>8. QED
  BY <1>3, <1>u, <1>7 DEF Reduction!vars

(* Nothing moved. *)
LEMMA StutterStep ==
  ASSUME UNCHANGED vars
  PROVE  UNCHANGED Reduction!vars
<1>1. UNCHANGED <<op_count, priority, labeled, generation, pc, node, operand>>
  BY DEF vars, input
<1>2. LiveNodes' = LiveNodes
  BY <1>1 DEF LiveNodes, Nodes, Before
<1>3. LiveGaps' = LiveGaps
  BY <1>1, <1>2 DEF LiveGaps
<1>4. \A g : GapSlot(g[1], g[2])' = GapSlot(g[1], g[2])
  BY <1>1 DEF GapSlot, ResultSlot, Left, Right, Answer, NULL
<1>5. GapTerm' = GapTerm
  BY <1>1, <1>3, <1>4 DEF GapTerm, Leaf
<1>6. QED
  BY <1>1, <1>2, <1>5 DEF Reduction!vars

(* Every step of parser and evaluator is a step of the reduction, or none. *)
LEMMA StepRefines == IInv /\ [Next]_vars => [Reduction!Next]_Reduction!vars
<1> SUFFICES ASSUME IInv, [Next]_vars PROVE Reduction!Next \/ UNCHANGED Reduction!vars
  OBVIOUS
<1>t. TypeOK
  BY DEF IInv
<1>u. UNCHANGED input
  BY InputStep
<1>1. CASE Parse \/ RejectOperand
  <2>1. pc \notin Running /\ pc' \notin Running /\ UNCHANGED generation
    BY <1>1 DEF Parse, RejectOperand, Running, SetFirstOperand, SetNextOperand,
       NoOrder, FindStartNode, LinkNode, NextPriority, EndLinks, SetResultPointer,
       SetLastResultPointer, GenerateLabelsRefs
  <2>2. QED
    BY <1>u, <2>1, QuietStep
<1>2. CASE SetLabelsValues
  BY <1>t, <1>2, LabelsStep DEF Reduction!Next
<1>3. CASE StartEvaluation
  BY <1>3, StartStep DEF Reduction!Next
<1>4. CASE EvaluateNode
  BY <1>4, CopyStep, ReduceStep DEF Reduction!Next
<1>5. CASE FailNode
  <2>1. LiveNodes' = LiveNodes
    BY <1>5 DEF FailNode, LiveNodes, input, Nodes, Before
  <2>2. LiveGaps' = LiveGaps
    BY <1>5, <2>1 DEF FailNode, LiveGaps, input
  <2>3. \A g : GapSlot(g[1], g[2])' = GapSlot(g[1], g[2])
    BY <1>5 DEF FailNode, GapSlot, ResultSlot, Left, Right, Answer, NULL, input
  <2>4. GapTerm' = GapTerm
    BY <1>5, <2>2, <2>3 DEF FailNode, GapTerm
  <2>5. QED
    BY <1>5, <2>1, <2>4 DEF FailNode, Reduction!vars, input
<1>6. CASE FailAfterStore
  BY <1>6, FailStep
<1>7. CASE UNCHANGED vars
  BY <1>7, StutterStep
<1>8. QED
  BY <1>1, <1>2, <1>3, <1>4, <1>5, <1>6, <1>7 DEF Next

(* The node array computes what the reduction of module Precedence         *)
(* computes: for every number of operators and of priorities, every step   *)
(* of the parser and of the evaluator is a reduction or no step at all.    *)
THEOREM Implementation == Spec => Implements
<1>1. Init => Reduction!Init
  BY InitRefines
<1>2. IInv /\ [Next]_vars => [Reduction!Next]_Reduction!vars
  BY StepRefines
<1>3. QED
  BY <1>1, <1>2, Invariance, PTL DEF Spec, Implements, Reduction!Spec

-----------------------------------------------------------------------------
(***************************************************************************)
(* The reduction itself: operators applied one at a time, the highest      *)
(* priority first and equal ones from the left, leave the term that the    *)
(* usual definition by splitting gives, for any number of operators and    *)
(* any priorities.  Of the node array only the mapping is used here.       *)
(***************************************************************************)
(* A set of numbers has a least one. *)
LEMMA Least ==
  ASSUME NEW S \in SUBSET Nat, S # {}
  PROVE  \E n \in S : \A k \in S : n <= k
<1> DEFINE R == {ss \in Nat \X Nat : ss[1] < ss[2]}
<1>1. IsWellFoundedOn(R, Nat)
  BY NatLessThanWellFounded DEF OpToRel
<1>2. \E x \in S : \A y \in S : <<y, x>> \notin R
  <2> HIDE DEF R
  <2> QED BY <1>1, WFMin
<1>3. PICK x \in S : \A y \in S : <<y, x>> \notin R
  BY <1>2
<1>4. ASSUME NEW k \in S PROVE x <= k
  <2>1. <<k, x>> \notin R
    BY <1>3
  <2>2. ~(k < x)
    BY <2>1
  <2> QED BY <2>2
<1> QED BY <1>4

Shape == op_count \in Nat /\ priority \in [Reduction!Ops(op_count) -> Nat]

LEMMA HeadExists ==
  ASSUME Shape, NEW a \in 0 .. op_count, NEW b \in 0 .. op_count, a < b
  PROVE  \E o \in a .. b - 1 : \A k \in a .. b - 1 : k = o \/ Reduction!Before(k, o)
<1> DEFINE R == a .. b - 1
<1>1. R \in SUBSET Reduction!Ops(op_count) /\ a \in R /\ \A k \in R : k \in Int /\ priority[k] \in Nat
  BY DEF Shape, Reduction!Ops
<1>2. PICK p \in {priority[k] : k \in R} : \A q \in {priority[k] : k \in R} : p <= q
  <2> DEFINE S == {priority[k] : k \in R}
  <2>1. S \in SUBSET Nat /\ S # {}
    BY <1>1
  <2> HIDE DEF S
  <2> QED BY <2>1, Least DEF S
<1> DEFINE D == {b - k : k \in {m \in R : priority[m] = p}}
<1>3. PICK d \in D : \A e \in D : d <= e
  <2>1. D \in SUBSET Nat /\ D # {}
    BY <1>2
  <2> HIDE DEF D
  <2> QED BY <2>1, Least
<1>4. PICK o \in R : priority[o] = p /\ d = b - o
  BY <1>3
<1>5. ASSUME NEW k \in R PROVE k = o \/ Reduction!Before(k, o)
  <2>1. p <= priority[k] /\ p \in Nat
    BY <1>1, <1>2, <1>4
  <2>2. CASE priority[k] = p
    <3>1. b - k \in D
      BY <2>2
    <3>2. b - o <= b - k
      BY <1>3, <1>4, <3>1
    <3> QED BY <1>1, <1>4, <2>2, <3>2 DEF Reduction!Before
  <2>3. CASE priority[k] # p
    BY <1>1, <1>4, <2>1, <2>3 DEF Reduction!Before
  <2> QED BY <2>2, <2>3
<1> QED BY <1>5

(* The operator that is applied last among those of a range heads its term. *)
LEMMA HeadIs ==
  ASSUME Shape, NEW a \in 0 .. op_count, NEW b \in 0 .. op_count, a < b,
         NEW o \in a .. b - 1, \A k \in a .. b - 1 : k = o \/ Reduction!Before(k, o)
  PROVE  Reduction!Head(a, b) = o
<1>1. \A k \in a .. b - 1 : k \in Int /\ priority[k] \in Nat
  BY DEF Shape, Reduction!Ops
<1>2. \A m \in a .. b - 1 : (\A k \in a .. b - 1 : k = m \/ Reduction!Before(k, m)) => m = o
  <2> SUFFICES ASSUME NEW m \in a .. b - 1, \A k \in a .. b - 1 : k = m \/ Reduction!Before(k, m), m # o
               PROVE  FALSE
    OBVIOUS
  <2>1. Reduction!Before(m, o) /\ Reduction!Before(o, m)
    OBVIOUS
  <2> QED BY <1>1, <2>1 DEF Reduction!Before
<1> QED BY <1>2 DEF Reduction!Head

-----------------------------------------------------------------------------
(* The term of range s, its parts taken from t. *)
Split(t, s) == IF s[1] >= s[2]
               THEN Reduction!Leaf(s[1], labeled, generation)
               ELSE LET o == Reduction!Head(s[1], s[2])
                    IN  Reduction!Result(o, t[<<s[1], o>>], t[<<o + 1, s[2]>>])
Width(s) == s[2] - s[1]

(* The parts of a range are shorter. *)
LEMMA Parts ==
  ASSUME Shape, NEW s \in Reduction!Ranges, s[1] < s[2]
  PROVE  /\ <<s[1], Reduction!Head(s[1], s[2])>> \in Reduction!Ranges
         /\ <<Reduction!Head(s[1], s[2]) + 1, s[2]>> \in Reduction!Ranges
         /\ Width(<<s[1], Reduction!Head(s[1], s[2])>>) < Width(s)
         /\ Width(<<Reduction!Head(s[1], s[2]) + 1, s[2]>>) < Width(s)
<1>1. s[1] \in 0 .. op_count /\ s[2] \in 0 .. op_count
  BY DEF Reduction!Ranges
<1>2. PICK o \in s[1] .. s[2] - 1 : Reduction!Head(s[1], s[2]) = o
  BY <1>1, HeadExists, HeadIs
<1> QED BY <1>1, <1>2 DEF Reduction!Ranges, Width, Shape

(* Terms that agree on shorter ranges are split alike. *)
LEMMA SplitAlike ==
  ASSUME Shape, NEW t, NEW u, NEW s \in Reduction!Ranges,
         \A r \in Reduction!Ranges : Width(r) < Width(s) => t[r] = u[r]
  PROVE  Split(t, s) = Split(u, s)
<1>1. CASE s[1] >= s[2]
  BY <1>1 DEF Split
<1>2. CASE ~(s[1] >= s[2])
  <2>1. s[1] < s[2]
    BY <1>2 DEF Reduction!Ranges
  <2> QED BY <1>2, <2>1, Parts DEF Split
<1> QED BY <1>1, <1>2

(* The definition by splitting is one: there is a function like that.      *)
LEMMA TreesExist ==
  ASSUME Shape
  PROVE  \E t : t = [s \in Reduction!Ranges |-> Split(t, s)]
<1> DEFINE Upto(m) == \E t : \A s \in Reduction!Ranges : Width(s) < m => t[s] = Split(t, s)
           Bad == {m \in Nat : ~Upto(m)}
<1>0. \A s \in Reduction!Ranges : Width(s) \in Int /\ Width(s) <= op_count
  BY DEF Reduction!Ranges, Width, Shape
<1>1. Bad = {}
  <2> SUFFICES ASSUME Bad # {} PROVE FALSE
    OBVIOUS
  <2>1. PICK m \in Bad : \A k \in Bad : m <= k
    <3>1. Bad \in SUBSET Nat
      OBVIOUS
    <3> HIDE DEF Bad
    <3> QED BY <3>1, Least
  <2>2. m \in Nat /\ ~Upto(m)
    BY <2>1
  <2>3. CASE m = 0
    <3> DEFINE t == [s \in Reduction!Ranges |-> Reduction!Leaf(s[1], labeled, generation)]
    <3>1. ASSUME NEW s \in Reduction!Ranges, Width(s) < 0 PROVE t[s] = Split(t, s)
      <4>1. s[1] >= s[2]
        BY <3>1 DEF Width, Reduction!Ranges, Shape
      <4> HIDE DEF t
      <4>2. Split(t, s) = Reduction!Leaf(s[1], labeled, generation)
        BY <4>1 DEF Split
      <4> QED BY <4>2 DEF t
    <3> QED BY <2>2, <2>3, <3>1
  <2>4. CASE m # 0
    <3>1. m - 1 \in Nat /\ m - 1 \notin Bad
      BY <2>1, <2>2, <2>4
    <3>2. Upto(m - 1)
      BY <3>1
    <3>3. PICK t : \A s \in Reduction!Ranges : Width(s) < m - 1 => t[s] = Split(t, s)
      BY <3>2
    <3> DEFINE u == [s \in Reduction!Ranges |-> Split(t, s)]
    <3>4. ASSUME NEW s \in Reduction!Ranges, Width(s) < m
          PROVE  u[s] = Split(u, s)
      <4>1. \A r \in Reduction!Ranges : Width(r) < Width(s) => u[r] = t[r]
        <5>1. \A r \in Reduction!Ranges : Width(r) < Width(s) => Width(r) < m - 1
          BY <1>0, <2>2, <3>4
        <5> QED BY <3>3, <5>1
      <4> HIDE DEF u
      <4>2. Split(u, s) = Split(t, s)
        BY <4>1, SplitAlike
      <4> QED BY <4>2 DEF u
    <3> QED BY <2>2, <3>4
  <2> QED BY <2>3, <2>4
<1>2. op_count + 1 \in Nat
  BY DEF Shape
<1>3. Upto(op_count + 1)
  BY <1>1, <1>2
<1>4. PICK t : \A s \in Reduction!Ranges : Width(s) < op_count + 1 => t[s] = Split(t, s)
  BY <1>3
<1>5. \A s \in Reduction!Ranges : t[s] = Split(t, s)
  BY <1>0, <1>2, <1>4 DEF Shape
<1> DEFINE u == [s \in Reduction!Ranges |-> t[s]]
<1>6. ASSUME NEW s \in Reduction!Ranges PROVE Split(u, s) = t[s]
  <2>1. \A r \in Reduction!Ranges : Width(r) < Width(s) => u[r] = t[r]
    OBVIOUS
  <2> HIDE DEF u
  <2> QED BY <1>5, <2>1, SplitAlike
<1>7. u = [s \in Reduction!Ranges |-> Split(u, s)]
  BY <1>6
<1> QED BY <1>7

LEMMA TreesAre == Shape => \A s \in Reduction!Ranges : Reduction!Trees[s] = Split(Reduction!Trees, s)
<1> SUFFICES ASSUME Shape PROVE \A s \in Reduction!Ranges : Reduction!Trees[s] = Split(Reduction!Trees, s)
  OBVIOUS
<1>1. Reduction!Trees = CHOOSE t : t = [s \in Reduction!Ranges |-> Split(t, s)]
  BY DEF Reduction!Trees, Split
<1>2. Reduction!Trees = [s \in Reduction!Ranges |-> Split(Reduction!Trees, s)]
  BY <1>1, TreesExist
<1> QED BY <1>2

-----------------------------------------------------------------------------
(* What holds while operators are applied: those applied come before those *)
(* that are not, and the term in a gap is that of the operands in it.      *)
GapTree(g) == Reduction!Trees[<<g[1] + 1, g[2]>>]
ReductionTypes ==
  /\ op_count \in Nat
  /\ priority \in [Reduction!Ops(op_count) -> Nat]
  /\ LiveNodes \in SUBSET Reduction!Ops(op_count)
AppliedFirst == \A k \in Reduction!Ops(op_count) \ LiveNodes, m \in LiveNodes : Reduction!Before(k, m)
ReductionInv == /\ ReductionTypes
       /\ AppliedFirst
       /\ GapTerm = [g \in Reduction!Gaps(LiveNodes, op_count) |-> GapTree(g)]

LEMMA GapRange ==
  ASSUME ReductionTypes, NEW g \in Reduction!Gaps(LiveNodes, op_count)
  PROVE  /\ g = <<g[1], g[2]>> /\ g[1] \in LiveNodes \cup {-1} /\ g[2] \in LiveNodes \cup {op_count}
         /\ g[1] \in -1 .. op_count - 1 /\ g[2] \in 0 .. op_count /\ g[1] < g[2]
         /\ <<g[1] + 1, g[2]>> \in Reduction!Ranges
         /\ \A k \in LiveNodes : k <= g[1] \/ k >= g[2]
<1>1. /\ g = <<g[1], g[2]>> /\ g[1] \in LiveNodes \cup {-1} /\ g[2] \in LiveNodes \cup {op_count}
      /\ g[1] < g[2] /\ \A k \in LiveNodes : k <= g[1] \/ k >= g[2]
  BY DEF Reduction!Gaps
<1>2. op_count \in Nat /\ LiveNodes \subseteq 0 .. op_count - 1
  BY DEF ReductionTypes, Reduction!Ops
<1>3. g[1] \in -1 .. op_count - 1 /\ g[2] \in 0 .. op_count
  <2>1. g[1] \in -1 .. op_count - 1
    BY <1>1, <1>2
  <2>2. g[2] \in 0 .. op_count
    BY <1>1, <1>2
  <2> QED BY <2>1, <2>2
<1>4. g[1] + 1 \in 0 .. op_count
  BY <1>2, <1>3
<1> QED BY <1>1, <1>3, <1>4 DEF Reduction!Ranges

(* Before any is applied the terms are operands. *)
AllToReduce ==
  /\ Shape
  /\ LiveNodes = Reduction!Ops(op_count)
  /\ GapTerm = Reduction!Operands(op_count, labeled, generation)

LEMMA AllLive == AllToReduce => ReductionInv
<1> SUFFICES ASSUME Shape, LiveNodes = Reduction!Ops(op_count),
                    GapTerm = Reduction!Operands(op_count, labeled, generation)
             PROVE  ReductionInv
  BY DEF AllToReduce
<1>1. ReductionTypes /\ AppliedFirst
  BY DEF ReductionTypes, AppliedFirst, Shape
<1>2. ASSUME NEW g \in Reduction!Gaps(LiveNodes, op_count)
      PROVE  GapTree(g) = Reduction!Leaf(g[2], labeled, generation)
  <2>1. g[1] + 1 = g[2]
    <3>1. /\ g[1] \in -1 .. op_count - 1 /\ g[2] \in 0 .. op_count /\ g[1] < g[2]
          /\ \A k \in LiveNodes : k <= g[1] \/ k >= g[2]
      BY <1>1, GapRange
    <3>2. g[1] + 1 < g[2] => g[1] + 1 \in LiveNodes
      BY <3>1 DEF Reduction!Ops, Shape
    <3> QED BY <3>1, <3>2
  <2>2. <<g[2], g[2]>> \in Reduction!Ranges /\ g[2] >= g[2]
    <3>1. g[2] \in 0 .. op_count
      BY <1>1, GapRange
    <3> QED BY <3>1 DEF Reduction!Ranges
  <2>3. Reduction!Trees[<<g[2], g[2]>>] = Split(Reduction!Trees, <<g[2], g[2]>>)
    BY <2>2, TreesAre
  <2> QED BY <2>1, <2>2, <2>3 DEF GapTree, Split
<1> QED BY <1>1, <1>2 DEF ReductionInv, Reduction!Operands

(* The operator applied heads the term of the gap it leaves. *)
LEMMA Joined ==
  ASSUME ReductionInv, NEW o \in LiveNodes, NEW p, NEW q, Reduction!Reduce(o, p, q)
  PROVE  /\ <<p, q>> \in Reduction!Gaps(LiveNodes \ {o}, op_count)
         /\ GapTree(<<p, q>>) = Reduction!Result(o, GapTree(<<p, o>>), GapTree(<<o, q>>))
         /\ \A g \in Reduction!Gaps(LiveNodes \ {o}, op_count) :
              g # <<p, q>> => g \in Reduction!Gaps(LiveNodes, op_count)
<1>1. /\ <<p, o>> \in Reduction!Gaps(LiveNodes, op_count) /\ <<o, q>> \in Reduction!Gaps(LiveNodes, op_count)
      /\ \A k \in LiveNodes : k = o \/ Reduction!Before(o, k)
  BY DEF Reduction!Reduce
<1>2. /\ p \in LiveNodes \cup {-1} /\ p \in -1 .. op_count - 1 /\ p < o
      /\ q \in LiveNodes \cup {op_count} /\ q \in 0 .. op_count /\ o < q
      /\ o \in 0 .. op_count - 1 /\ op_count \in Nat
      /\ \A k \in LiveNodes : k \in Int /\ (k <= p \/ k >= o) /\ (k <= o \/ k >= q)
  <2>1. ReductionTypes
    BY DEF ReductionInv
  <2>2. /\ p \in LiveNodes \cup {-1} /\ p \in -1 .. op_count - 1 /\ p < o
        /\ \A k \in LiveNodes : k <= p \/ k >= o
    BY <1>1, <2>1, GapRange
  <2>3. /\ q \in LiveNodes \cup {op_count} /\ q \in 0 .. op_count /\ o < q
        /\ \A k \in LiveNodes : k <= o \/ k >= q
    BY <1>1, <2>1, GapRange
  <2> QED BY <2>1, <2>2, <2>3 DEF ReductionTypes, Reduction!Ops
<1>3. <<p, q>> \in Reduction!Gaps(LiveNodes \ {o}, op_count)
  BY <1>2 DEF Reduction!Gaps
<1>4. Reduction!Head(p + 1, q) = o
  <2>1. o \in p + 1 .. q - 1 /\ p + 1 < q /\ p + 1 \in 0 .. op_count
    BY <1>2
  <2>2. ASSUME NEW k \in p + 1 .. q - 1 PROVE k = o \/ Reduction!Before(k, o)
    <3>1. k \in Reduction!Ops(op_count) /\ ~(k <= p) /\ ~(k >= q)
      BY <1>2 DEF Reduction!Ops
    <3>2. k \in LiveNodes => k = o
      <4>1. k \in LiveNodes => k >= o /\ k <= o
        BY <1>2, <3>1
      <4> QED BY <1>2, <4>1
    <3> QED BY <3>1, <3>2 DEF ReductionInv, AppliedFirst
  <2> QED BY <1>2, <2>1, <2>2, HeadIs DEF ReductionInv, ReductionTypes, Shape
<1>5. GapTree(<<p, q>>) = Reduction!Result(o, GapTree(<<p, o>>), GapTree(<<o, q>>))
  <2>1. <<p + 1, q>> \in Reduction!Ranges /\ ~(p + 1 >= q)
    BY <1>2 DEF Reduction!Ranges
  <2>2. Reduction!Trees[<<p + 1, q>>] = Split(Reduction!Trees, <<p + 1, q>>)
    BY <2>1, TreesAre DEF ReductionInv, ReductionTypes, Shape
  <2> QED BY <1>4, <2>1, <2>2 DEF GapTree, Split
<1>6. ASSUME NEW g \in Reduction!Gaps(LiveNodes \ {o}, op_count), g # <<p, q>>
      PROVE  g \in Reduction!Gaps(LiveNodes, op_count)
  <2>1. /\ g = <<g[1], g[2]>> /\ g[1] \in (LiveNodes \ {o}) \cup {-1}
        /\ g[2] \in (LiveNodes \ {o}) \cup {op_count} /\ g[1] < g[2]
        /\ \A k \in LiveNodes \ {o} : k <= g[1] \/ k >= g[2]
    BY DEF Reduction!Gaps
  <2>2. g[1] \in Int /\ g[2] \in Int
    BY <1>2, <2>1
  <2>3. ASSUME g[1] < o, o < g[2] PROVE FALSE
    <3>1. g[1] <= p
      BY <1>2, <2>1, <2>2, <2>3
    <3>2. g[2] >= q
      BY <1>2, <2>1, <2>2, <2>3
    <3>3. p <= g[1]
      <4>1. CASE p \in LiveNodes
        <5>1. p \in LiveNodes \ {o} /\ ~(p >= g[2])
          BY <1>2, <2>2, <2>3, <4>1
        <5> QED BY <2>1, <5>1
      <4>2. CASE p = -1
        <5>1. \A k \in LiveNodes : k >= 0
          BY DEF ReductionInv, ReductionTypes, Reduction!Ops
        <5>2. g[1] >= -1
          BY <2>1, <2>2, <5>1
        <5> QED BY <2>2, <4>2, <5>2
      <4> QED BY <1>2, <4>1, <4>2
    <3>4. q >= g[2]
      <4>1. CASE q \in LiveNodes
        <5>1. q \in LiveNodes \ {o} /\ ~(q <= g[1])
          BY <1>2, <2>2, <2>3, <4>1
        <5> QED BY <2>1, <5>1
      <4>2. CASE q = op_count
        <5>1. \A k \in LiveNodes : k <= op_count
          BY DEF ReductionInv, ReductionTypes, Reduction!Ops
        <5> QED BY <1>2, <2>1, <2>2, <4>2, <5>1
      <4> QED BY <1>2, <4>1, <4>2
    <3>5. g[1] = p /\ g[2] = q
      BY <1>2, <2>2, <3>1, <3>2, <3>3, <3>4
    <3> QED BY <1>6, <2>1, <3>5
  <2>4. o <= g[1] \/ o >= g[2]
    BY <1>2, <2>2, <2>3
  <2> QED BY <2>1, <2>4 DEF Reduction!Gaps
<1> QED BY <1>3, <1>5, <1>6

LEMMA ReduceInv ==
  ASSUME ReductionInv, NEW o \in LiveNodes, NEW p, NEW q, Reduction!Reduce(o, p, q)
  PROVE  ReductionInv'
<1>1. UNCHANGED <<op_count, priority, labeled, generation>> /\ LiveNodes' = LiveNodes \ {o}
  BY DEF Reduction!Reduce, Reduction!input
<1>2. ReductionTypes' /\ AppliedFirst'
  BY <1>1 DEF ReductionInv, ReductionTypes, AppliedFirst, Reduction!Ops, Reduction!Before, Reduction!Reduce
<1>3. Reduction!Trees' = Reduction!Trees
  BY <1>1 DEF Reduction!Trees, Reduction!Ranges, Reduction!Head, Reduction!Before
<1>4. \A g : GapTree(g)' = GapTree(g)
  BY <1>3 DEF GapTree
<1>5. GapTerm' = [g \in Reduction!Gaps(LiveNodes \ {o}, op_count) |->
                 IF g = <<p, q>>
                 THEN Reduction!Result(o, GapTerm[<<p, o>>], GapTerm[<<o, q>>])
                 ELSE GapTerm[g]]
  BY DEF Reduction!Reduce
<1>6. <<p, o>> \in Reduction!Gaps(LiveNodes, op_count) /\ <<o, q>> \in Reduction!Gaps(LiveNodes, op_count)
  BY DEF Reduction!Reduce
<1>7. ASSUME NEW g \in Reduction!Gaps(LiveNodes \ {o}, op_count)
      PROVE  GapTerm'[g] = GapTree(g)
  <2>1. CASE g = <<p, q>>
    BY <1>5, <1>6, <2>1, Joined DEF ReductionInv
  <2>2. CASE g # <<p, q>>
    BY <1>5, <2>2, Joined DEF ReductionInv
  <2> QED BY <2>1, <2>2
<1>8. GapTerm' = [g \in Reduction!Gaps(LiveNodes', op_count') |-> GapTree(g)']
  BY <1>1, <1>4, <1>5, <1>7 DEF Reduction!Gaps
<1> QED BY <1>2, <1>8 DEF ReductionInv

LEMMA AllLiveNext == AllToReduce' => ReductionInv'
BY AllLive, PTL

LEMMA ReductionNext == ReductionInv /\ [Reduction!Next]_Reduction!vars => ReductionInv'
<1> SUFFICES ASSUME ReductionInv, [Reduction!Next]_Reduction!vars PROVE ReductionInv'
  OBVIOUS
<1>1. ASSUME NEW o \in LiveNodes, NEW p, NEW q, Reduction!Reduce(o, p, q) PROVE ReductionInv'
  BY <1>1, ReduceInv
<1>2. CASE Reduction!Again
  <2>1. /\ Shape'
        /\ LiveNodes' = Reduction!Ops(op_count')
        /\ GapTerm' = Reduction!Operands(op_count', labeled', generation')
    BY <1>2 DEF Reduction!Again, Reduction!input, ReductionInv, ReductionTypes, Shape, Reduction!Ops
  <2>2. AllToReduce'
    BY <2>1 DEF AllToReduce, Reduction!Operands, Reduction!Ops, Reduction!Gaps
  <2> QED BY <2>2, AllLiveNext
<1>3. CASE UNCHANGED Reduction!vars
  <2>1. Reduction!Trees' = Reduction!Trees
    BY <1>3 DEF Reduction!vars, Reduction!Trees, Reduction!Ranges, Reduction!Head, Reduction!Before
  <2> QED BY <1>3, <2>1 DEF Reduction!vars, ReductionInv, ReductionTypes, AppliedFirst,
                            Reduction!Ops, Reduction!Before, GapTree, Reduction!Gaps
<1> QED BY <1>1, <1>2, <1>3 DEF Reduction!Next

(* Once every operator is applied, the term left is that of the whole      *)
(* expression under precedence and left associativity.                     *)
THEOREM AnswerIsTree == Reduction!Spec => []Reduction!Answered
<1>1. Reduction!Init => ReductionInv
  <2>1. Reduction!Init => /\ Shape
                          /\ LiveNodes = Reduction!Ops(op_count)
                          /\ GapTerm = Reduction!Operands(op_count, labeled, generation)
    BY DEF Reduction!Init, Shape
  <2> QED BY <2>1, AllLive DEF AllToReduce
<1>2. ReductionInv => Reduction!Answered
  <2> SUFFICES ASSUME ReductionInv, LiveNodes = {} PROVE GapTerm[<<-1, op_count>>] = Reduction!Tree
    BY DEF Reduction!Answered
  <2>1. <<-1, op_count>> \in Reduction!Gaps(LiveNodes, op_count) /\ -1 + 1 = 0
    BY DEF ReductionInv, ReductionTypes, Reduction!Gaps
  <2> QED BY <2>1 DEF ReductionInv, GapTree, Reduction!Tree
<1> QED BY <1>1, <1>2, ReductionNext, PTL DEF Reduction!Spec

(* After the last node the only gap is the whole text, its term the answer.*)
LEMMA AnswerInPlace == IInv /\ Reduction!Answered => RightAnswer
<1> SUFFICES ASSUME IInv, Reduction!Answered, pc = "done"
             PROVE  operand[Answer] = Reduction!Tree
  BY DEF RightAnswer
<1>1. LiveNodes = {} /\ op_count \in Nat
  BY DEF LiveNodes, IInv, TypeOK
<1>2. <<-1, op_count>> \in LiveGaps
  BY <1>1 DEF LiveGaps
<1>3. GapTerm[<<-1, op_count>>] = operand[Answer]
  BY <1>2 DEF GapTerm, GapSlot
<1> QED BY <1>1, <1>3 DEF Reduction!Answered

(* Every evaluation that ends well leaves in the answer the term of the    *)
(* expression under precedence and left associativity, whatever was        *)
(* evaluated before it and whatever the labels were set to: the placement  *)
(* of operands, the links and the result pointers of parser_common.h and   *)
(* the walk of evaluator.c agree for any number of operators.              *)
THEOREM AnswerIsRight == Spec => []RightAnswer
<1>1. Spec => Reduction!Spec
  BY Implementation DEF Implements
<1>2. Reduction!Spec => []Reduction!Answered
  BY AnswerIsTree
<1> QED BY <1>1, <1>2, Invariance, AnswerInPlace, PTL
=============================================================================
