------------------------------ MODULE FuncTable ------------------------------
(***************************************************************************)
(* What the table of user functions promises to the users of the library:  *)
(* a definition takes effect as a whole or not at all, and the table never *)
(* holds functions that call each other in a circle.                       *)
(***************************************************************************)
CONSTANTS Names,
          Bodies,   \* records with the set of names they call
          None      \* not defined

VARIABLE table

-----------------------------------------------------------------------------
Calls(tab, n) == IF tab[n] = None THEN {} ELSE tab[n].calls

(* Every set of functions has one that calls none of them. *)
Acyclic(tab) ==
  \A C \in SUBSET Names : C # {} => \E n \in C : Calls(tab, n) \cap C = {}

Init == table = [n \in Names |-> None]

Define(f, b) == /\ table' = [table EXCEPT ![f] = b]
                /\ Acyclic(table')

(* Only what no function calls is removed. *)
Remove(f) == /\ \A n \in Names : f \notin Calls(table, n)
             /\ table' = [table EXCEPT ![f] = None]

Clear == table' = [n \in Names |-> None]

Next == \/ \E f \in Names, b \in Bodies : Define(f, b)
        \/ \E f \in Names : Remove(f)
        \/ Clear

Spec == Init /\ [][Next]_table
=============================================================================
