------------------------------- MODULE ErrorDb -------------------------------
(***************************************************************************)
(* The error database of error_handler.c: a table of slots filled from the *)
(* left, two counters, and operations that each run under _error_db_lock,  *)
(* so that each is one step.  tms_print_errors alone reads the table       *)
(* without the lock, slot by slot, and then calls tms_clear_errors.        *)
(*                                                                         *)
(* Two variables are in no variable of the code, and no action reads them: *)
(* orderly and moved remember what happened, for the properties.           *)
(*                                                                         *)
(* What is abstracted: a message is the number of the save that made it,   *)
(* and a prefix ("In function: ") the message it was given to; snippets,   *)
(* positions and what is written to stderr are left out.  A print reads    *)
(* what others store between two of their operations, never in the middle  *)
(* of one, which is undefined behaviour in C.                              *)
(***************************************************************************)
EXTENDS Naturals, Integers, FiniteSets, Sequences

CONSTANTS Threads,      \* callers of the library
          Facilities,   \* TMS_PARSER, TMS_EVALUATOR, ...
          EH_MAX_ERRORS,
          MaxSaves      \* bound on the errors saved in a behaviour

ASSUME ErrorDbAssumption ==
  /\ EH_MAX_ERRORS \in Nat /\ EH_MAX_ERRORS >= 2
  /\ MaxSaves \in Nat

VARIABLES error_table,         \* the slots
          last_error,          \* slots in use, as the operations see it
          fatal, non_fatal,    \* counters
          saved,               \* how many errors were saved
          cursor,              \* loop index of each tms_print_errors call
          mask,                \* its facilities
          printed,             \* the errors it printed
          clearing,            \* the calls whose loop has ended
          moved,               \* those others moved errors away from
          orderly              \* FALSE after a clear that was not Ordered

counters == <<last_error, fatal, non_fatal>>
printer == <<cursor, mask, printed, clearing>>
vars == <<error_table, counters, saved, printer, moved, orderly>>

-----------------------------------------------------------------------------
NULL == 0
Nowhere == -1

Slots == 0 .. EH_MAX_ERRORS - 1
Slot == [message : 0 .. MaxSaves, prefix : 0 .. MaxSaves,
         facility : SUBSET Facilities, fatal : BOOLEAN]
EmptySlot == [message |-> NULL, prefix |-> NULL, facility |-> {}, fatal |-> FALSE]

(* The slots in use, and those of them with an error of facilities fs. *)
Used == 0 .. last_error - 1
Matching(fs) == {k \in Used : error_table[k].facility \cap fs # {}}

FatalIn(S) == Cardinality({k \in S : error_table[k].fatal})

Idle(t) == cursor[t] = Nowhere
Printing == {t \in Threads : ~Idle(t)}

Init ==
  /\ error_table = [k \in Slots |-> EmptySlot]
  /\ last_error = 0 /\ fatal = 0 /\ non_fatal = 0
  /\ saved = 0
  /\ cursor = [t \in Threads |-> Nowhere]
  /\ mask = [t \in Threads |-> {}]
  /\ printed = [t \in Threads |-> {}]
  /\ clearing = {} /\ moved = {} /\ orderly = TRUE

(* Faulty variant: the newest error is overwritten.                        *)
ShiftedNot == error_table

(* A full table: the oldest error is overwritten by moving the others. *)
Shifted == [k \in Slots |-> IF k = EH_MAX_ERRORS - 1
                            THEN error_table[k] ELSE error_table[k + 1]]

(* Faulty variant: the table is taken for full one error too late.         *)
SaveLate(f, severe) ==
  LET full == last_error = EH_MAX_ERRORS
      base == IF full THEN Shifted ELSE error_table
      at == IF full THEN last_error - 1 ELSE last_error
      oldest == IF full THEN {0} ELSE {}
  IN  /\ saved < MaxSaves
      /\ saved' = saved + 1
      /\ error_table' = [base EXCEPT ![at].message = saved + 1,
                                     ![at].facility = {f},
                                     ![at].fatal = severe]
      /\ fatal' = fatal - FatalIn(oldest) + (IF severe THEN 1 ELSE 0)
      /\ non_fatal' = non_fatal - (Cardinality(oldest) - FatalIn(oldest))
                                + (IF severe THEN 0 ELSE 1)
      /\ last_error' = fatal' + non_fatal'
      /\ moved' = IF full THEN moved \cup Printing ELSE moved
      /\ UNCHANGED <<printer, orderly>>

(* Faulty variant: the oldest error is dropped as if it were not fatal.    *)
SaveNonFatal(f, severe) ==
  LET full == last_error = EH_MAX_ERRORS - 1
      base == IF full THEN Shifted ELSE error_table
      at == IF full THEN last_error - 1 ELSE last_error
  IN  /\ saved < MaxSaves
      /\ saved' = saved + 1
      /\ error_table' = [base EXCEPT ![at].message = saved + 1,
                                     ![at].facility = {f},
                                     ![at].fatal = severe]
      /\ fatal' = fatal + (IF severe THEN 1 ELSE 0)
      /\ non_fatal' = non_fatal - (IF full THEN 1 ELSE 0) + (IF severe THEN 0 ELSE 1)
      /\ last_error' = fatal' + non_fatal'
      /\ moved' = IF full THEN moved \cup Printing ELSE moved
      /\ UNCHANGED <<printer, orderly>>

(* tms_save_error *)
Save(f, severe) ==
  LET full == last_error = EH_MAX_ERRORS - 1
      base == IF full THEN Shifted ELSE error_table
      at == IF full THEN last_error - 1 ELSE last_error
      oldest == IF full THEN {0} ELSE {}
  IN  /\ saved < MaxSaves
      /\ saved' = saved + 1
      /\ error_table' = [base EXCEPT ![at].message = saved + 1,
                                     ![at].facility = {f},
                                     ![at].fatal = severe]
      /\ fatal' = fatal - FatalIn(oldest) + (IF severe THEN 1 ELSE 0)
      /\ non_fatal' = non_fatal - (Cardinality(oldest) - FatalIn(oldest))
                                + (IF severe THEN 0 ELSE 1)
      /\ last_error' = fatal' + non_fatal'
      /\ moved' = IF full THEN moved \cup Printing ELSE moved
      /\ UNCHANGED <<printer, orderly>>

(* The slots once the errors in holes are freed, before any move. *)
Freed(holes) == [k \in Slots |->
                   IF k \in holes
                   THEN [error_table[k] EXCEPT !.message = NULL, !.prefix = NULL]
                   ELSE error_table[k]]

(* Faulty variant: the errors kept are not moved.                          *)
CompactedNot(t) == t

(* The moves of tms_clear_errors: each later slot in turn is copied to the *)
(* first hole h and loses its message, so that the last one stays there,   *)
(* and the slots after h are then holes filled with what is left of it.    *)
Compacted(t) ==
  LET holes == {k \in 0 .. last_error - 2 : t[k].message = NULL}
      h == CHOOSE k \in holes : \A m \in holes : k <= m
      last == t[last_error - 1]
  IN  IF holes = {} THEN t
      ELSE [k \in Slots |->
              IF k = h THEN [last EXCEPT !.prefix = NULL]
              ELSE IF k > h /\ k < last_error - 1
              THEN [last EXCEPT !.message = NULL, !.prefix = NULL]
              ELSE IF k = last_error - 1 THEN [last EXCEPT !.message = NULL]
              ELSE t[k]]

(* A clear after which the table is sound: no error is kept after a        *)
(* cleared one, but for the last.                                          *)
Ordered(fs) == \A h \in Matching(fs), k \in Used \ Matching(fs) :
                 h < k => k = last_error - 1

(* tms_clear_errors *)
ClearErrors(fs) ==
  LET holes == Matching(fs)
  IN  /\ error_table' = Compacted(Freed(holes))
      /\ fatal' = fatal - FatalIn(holes)
      /\ non_fatal' = non_fatal - (Cardinality(holes) - FatalIn(holes))
      /\ last_error' = fatal' + non_fatal'
      /\ orderly' = (orderly /\ Ordered(fs))
      /\ UNCHANGED saved

(* The prints in progress that a clear has moved errors of. *)
Moved == IF UNCHANGED <<error_table, last_error>> THEN moved ELSE moved \cup Printing

Clear(fs) == ClearErrors(fs) /\ moved' = Moved /\ UNCHANGED printer

(* tms_modify_last_error: the last matching error is given a prefix. *)
Modify(fs) ==
  /\ \E k \in Matching(fs) :
       /\ \A m \in Matching(fs) : m <= k
       /\ error_table' = [error_table EXCEPT ![k].prefix = error_table[k].message]
  /\ UNCHANGED <<counters, saved, printer, moved, orderly>>

-----------------------------------------------------------------------------
(* Faulty variant: the loop starts at the second error.                    *)
StartPrintLate(t, fs) ==
  /\ Idle(t)
  /\ cursor' = [cursor EXCEPT ![t] = 1]
  /\ mask' = [mask EXCEPT ![t] = fs]
  /\ printed' = [printed EXCEPT ![t] = {}]
  /\ UNCHANGED <<error_table, counters, saved, clearing, moved, orderly>>

(* tms_print_errors *)
StartPrint(t, fs) ==
  /\ Idle(t)
  /\ cursor' = [cursor EXCEPT ![t] = 0]
  /\ mask' = [mask EXCEPT ![t] = fs]
  /\ printed' = [printed EXCEPT ![t] = {}]
  /\ UNCHANGED <<error_table, counters, saved, clearing, moved, orderly>>

PrintSlot(t) ==
  /\ t \notin clearing /\ cursor[t] \in Used
  /\ printed' = [printed EXCEPT ![t] =
                   @ \cup (IF cursor[t] \in Matching(mask[t])
                           THEN {error_table[cursor[t]].message} ELSE {})]
  /\ cursor' = [cursor EXCEPT ![t] = @ + 1]
  /\ UNCHANGED <<error_table, counters, saved, mask, clearing, moved, orderly>>

EndLoop(t) ==
  /\ ~Idle(t) /\ t \notin clearing /\ cursor[t] >= last_error
  /\ clearing' = clearing \cup {t}
  /\ UNCHANGED <<error_table, counters, saved, cursor, mask, printed, moved, orderly>>

EndPrint(t) ==
  /\ t \in clearing
  /\ ClearErrors(mask[t])
  /\ clearing' = clearing \ {t} /\ moved' = Moved \ {t}
  /\ cursor' = [cursor EXCEPT ![t] = Nowhere]
  /\ mask' = [mask EXCEPT ![t] = {}]
  /\ printed' = [printed EXCEPT ![t] = {}]

(* A thread in tms_print_errors does nothing else. *)
Operation ==
  /\ \E t \in Threads : Idle(t)
  /\ \/ \E f \in Facilities, severe \in BOOLEAN : Save(f, severe)
     \/ \E fs \in SUBSET Facilities \ {{}} : Clear(fs) \/ Modify(fs)

Next == \/ Operation
        \/ \E t \in Threads : \/ \E fs \in SUBSET Facilities \ {{}} : StartPrint(t, fs)
                              \/ PrintSlot(t)
                              \/ EndLoop(t)
                              \/ EndPrint(t)

Spec == Init /\ [][Next]_vars

-----------------------------------------------------------------------------
(* The types: the slots of the table, the counters and each print in       *)
(* progress.                                                               *)
TypeOK ==
  /\ error_table \in [Slots -> Slot]
  /\ last_error \in Int /\ fatal \in Int /\ non_fatal \in Int
  /\ saved \in 0 .. MaxSaves
  /\ cursor \in [Threads -> Nowhere .. EH_MAX_ERRORS - 1]
  /\ mask \in [Threads -> SUBSET Facilities]
  /\ printed \in [Threads -> SUBSET (0 .. MaxSaves)]
  /\ clearing \subseteq Printing /\ moved \subseteq Printing
  /\ orderly \in BOOLEAN

(* The table never outgrows the array, whatever is cleared: even when the  *)
(* two counters drift from what the table holds, their sum does not.       *)
WithinTable ==
  /\ last_error = fatal + non_fatal
  /\ last_error \in 0 .. EH_MAX_ERRORS - 1

(* tms_print_errors "clears the printed errors": what it takes out of the  *)
(* table it has printed, for any number of threads, but for the errors     *)
(* another thread saves in the gap between its loop and its clear; unless  *)
(* another thread moves errors under its loop, by a clear or by a save     *)
(* that finds the table full.                                              *)
ClearsPrinted ==
  [][\A t \in Threads \ moved :
       EndPrint(t) => \A k \in Matching(mask[t]) :
                        \/ error_table[k].message \in printed[t]
                        \/ k >= cursor[t]]_vars

(* Clearing keeps the other errors and their order, with no hole among     *)
(* them, a full table drops its oldest error only, printing is clearing;   *)
(* and the counters, on which tms_solve decides whether to try the complex *)
(* numbers, count what is in the table: all of this up to the first clear  *)
(* that is not Ordered, which may lose errors and leave the counters wrong *)
(* for good.                                                               *)
Entry(k) == LET e == error_table[k]
            IN  [message |-> e.message,
                 facility |-> CHOOSE f \in e.facility : TRUE,
                 fatal |-> e.fatal]
Log == INSTANCE ErrorLog WITH
         log <- [n \in 1 .. last_error |-> Entry(n - 1)],
         counts <- [fatal |-> fatal, non_fatal |-> non_fatal],
         Capacity <- EH_MAX_ERRORS - 1
Implements == Log!Init /\ [][orderly' => Log!Next]_(Log!vars)
=============================================================================
