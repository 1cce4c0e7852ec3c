---------------------------- MODULE EvalOrderInv ----------------------------
(***************************************************************************)
(* The inductive invariant of EvalOrder: what every phase of the parser    *)
(* has established, and what the evaluator therefore finds.                *)
(***************************************************************************)
EXTENDS EvalOrder

(* The evaluation order: m comes right after n; n is the first, the last.  *)
Succ(n, m) ==
  /\ Before(n, m)
  /\ \A k \in Nodes : k = n \/ k = m \/ Before(k, n) \/ Before(m, k)
First(n) == \A k \in Nodes : k = n \/ Before(n, k)
Last(n) == \A k \in Nodes : k = n \/ Before(k, n)

(* The node of operand a. *)
Owner(a) == IF a = 0 THEN Left(0) ELSE OperandSlot(a - 1)

(* The operands below m were read: values stored, labels recorded. *)
Placed(m) ==
  /\ \A a \in 0 .. m - 1 :
       IF a \in labeled THEN <<Owner(a), a>> \in labels
                        ELSE operand[Owner(a)] = Leaf(a, {}, 0)
  /\ \A x \in labels :
       x[2] \in labeled /\ x[2] \in 0 .. m - 1 /\ x = <<Owner(x[2]), x[2]>>

(* Where the scans to the left and to the right of node n should end. *)
NearLeft(n, l) ==
  /\ l \in -1 .. n - 1
  /\ l # -1 => priority[l] < priority[n]
  /\ \A k \in Nodes : l < k /\ k < n => priority[k] >= priority[n]
NearRight(n, r) ==
  /\ r \in n + 1 .. op_count
  /\ r # op_count => priority[r] <= priority[n]
  /\ \A k \in Nodes : n < k /\ k < r => priority[k] > priority[n]

(* The result of node n goes to the gap it leaves. *)
Directed(n) ==
  \E l \in -1 .. op_count - 1, r \in 0 .. op_count :
    /\ NearLeft(n, l)
    /\ NearRight(n, r)
    /\ ~(l = -1 /\ r = op_count)
    /\ result[n] = ResultSlot(l, r)

OperandsInv ==
  /\ pc = "operands" =>
       /\ i \in -1 .. op_count - 1
       /\ Placed(i + 1)
  /\ pc \in {"order", "link", "pointers", "labels"} => Placed(op_count + 1)
  /\ pc \in Parsed \cup {"evaluate"} =>
       /\ \A a \in 0 .. op_count :
            operand[Owner(a)] = Leaf(a, labeled, generation)
       /\ \A a \in labeled : <<Owner(a), a>> \in labels
       /\ \A x \in labels : x[2] \in labeled /\ x = <<Owner(x[2]), x[2]>>
  /\ pc \notin Parsed \cup {"evaluate"} => generation = 0

LinkInv ==
  pc = "link" =>
    /\ i \in Nodes
    /\ start_node \in Nodes /\ First(start_node)
    /\ priority[i] >= target_priority
    /\ priority[i] = target_priority => i < j
    /\ \A k \in Nodes : Before(i, k) =>
         \/ priority[k] < target_priority
         \/ priority[k] = target_priority /\ k >= j
    /\ \A k \in Nodes : Before(k, i) => next[k] \in Nodes /\ Succ(k, next[k])

Linked == pc \in {"pointers", "labels", "evaluate"} \cup Parsed

OrderInv ==
  Linked =>
    /\ start_node \in Allocated
    /\ op_count = 0 => next[0] = NULL
    /\ op_count > 0 =>
         /\ First(start_node)
         /\ \A n \in Nodes : IF next[n] = NULL THEN Last(n)
                             ELSE Succ(n, next[n])

PointersInv ==
  /\ pc \in {"operands", "order", "link"} => prev = NoPrev
  /\ pc = "pointers" =>
       /\ node \in Allocated
       /\ op_count > 0 =>
            /\ \/ prev.index = -2
               \/ /\ prev.index \in Nodes
                  /\ Succ(prev.index, node)
                  /\ NearLeft(prev.index, prev.left)
                  /\ NearRight(prev.index, prev.right)
            /\ \A n \in Nodes : Before(n, node) => Directed(n)

ResultInv ==
  pc \in {"labels", "evaluate"} \cup Parsed =>
    /\ op_count = 0 => result[0] = Answer
    /\ \A n \in Nodes : IF next[n] = NULL THEN result[n] = Answer
                        ELSE Directed(n)

NodeInv == pc \in {"evaluate", "failed", "done"} => node \in Allocated

(* Only the operands of powers are sign-extended in place. *)
ExtendedInv == extended \subseteq Powers \X {"left", "right"}

(* The inductive invariant. LinkInv and OrderInv say what                  *)
(* _tms_set_evaluation_order has made of the list of nodes, PointersInv    *)
(* and ResultInv where _tms_set_result_pointers directed the results and   *)
(* what its shortcut through the previous node may rely on, OperandsInv    *)
(* that operands are in place between evaluations, ExtendedInv that no     *)
(* other operator finds there what a power has written.                    *)
IInv == /\ TypeOK
        /\ OperandsInv
        /\ LinkInv
        /\ OrderInv
        /\ PointersInv
        /\ ResultInv
        /\ NodeInv
        /\ ExtendedInv
=============================================================================
