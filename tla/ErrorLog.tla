------------------------------ MODULE ErrorLog ------------------------------
(***************************************************************************)
(* What error_handler.h promises of the global error database: a bounded   *)
(* log of errors, the oldest dropped when a new one finds it full.         *)
(* Clearing takes out the errors of some facilities and keeps the others,  *)
(* in their order.  Module ErrorDb, the table of error_handler.c, is shown *)
(* to implement it up to the first clear that is not Ordered.              *)
(***************************************************************************)
EXTENDS Naturals, Sequences, FiniteSets

CONSTANTS Facilities,   \* TMS_PARSER, TMS_EVALUATOR, ...
          Capacity,     \* errors the database holds
          MaxSaves      \* bound on the errors saved in a behaviour

VARIABLES log,    \* the errors, oldest first
          saved,  \* how many errors were saved; an error is its number
          counts  \* what tms_get_error_count answers

vars == <<log, saved, counts>>

Counts(errors) == LET severe == {n \in DOMAIN errors : errors[n].fatal}
                  IN  [fatal |-> Cardinality(severe),
                       non_fatal |-> Len(errors) - Cardinality(severe)]

Init == log = <<>> /\ saved = 0 /\ counts = Counts(<<>>)

Save(f, severe) ==
  LET error == [message |-> saved + 1, facility |-> f, fatal |-> severe]
      kept == IF Len(log) = Capacity THEN Tail(log) ELSE log
  IN  /\ saved < MaxSaves
      /\ saved' = saved + 1
      /\ log' = Append(kept, error)
      /\ counts' = Counts(log')

(* What is kept, in its order: at lists the places it is kept from.        *)
Clear(fs) ==
  /\ LET kept == {n \in DOMAIN log : log[n].facility \notin fs}
     IN  \E at \in [1 .. Cardinality(kept) -> kept] :
           /\ \A m, n \in DOMAIN at : m < n => at[m] < at[n]
           /\ log' = [n \in DOMAIN at |-> log[at[n]]]
  /\ counts' = Counts(log')
  /\ UNCHANGED saved

Next == \/ \E f \in Facilities, severe \in BOOLEAN : Save(f, severe)
        \/ \E fs \in SUBSET Facilities : Clear(fs)

Spec == Init /\ [][Next]_vars
=============================================================================
