---------------------------- MODULE ErrorDbProofs ----------------------------
(***************************************************************************)
(* Proofs about ErrorDb: for any number of threads, any facilities and any *)
(* capacity, and whatever errors are cleared in whatever order, the table  *)
(* keeps its types and is never written outside of its array; it is a      *)
(* bounded log up to the first clear that is not Ordered, and a print      *)
(* clears what it has printed or what was saved since.                     *)
(***************************************************************************)
EXTENDS ErrorDb, FiniteSetTheorems, SequenceTheorems,
        NaturalsInduction, WellFoundedInduction, TLAPS

(* A set of numbers has a least one. *)
LEMMA Least ==
  ASSUME NEW S \in SUBSET Nat, S # {}
  PROVE  \E n \in S : \A k \in S : n <= k
<1> DEFINE R == {ss \in Nat \X Nat : ss[1] < ss[2]}
<1>1. IsWellFoundedOn(R, Nat)
  BY NatLessThanWellFounded DEF OpToRel
<1>2. \E x \in S : \A y \in S : <<y, x>> \notin R
  <2> HIDE DEF R
  <2> QED BY <1>1, WFMin
<1>3. PICK x \in S : \A y \in S : <<y, x>> \notin R
  BY <1>2
<1>4. ASSUME NEW k \in S PROVE x <= k
  <2>1. <<k, x>> \notin R
    BY <1>3
  <2>2. ~(k < x)
    BY <2>1
  <2> QED BY <2>2
<1> QED BY <1>4

(* The inductive invariant: the types are kept because saves stay in the   *)
(* table.                                                                  *)
IInv == TypeOK /\ WithinTable

-----------------------------------------------------------------------------
LEMMA InitOK == Init => IInv
  BY ErrorDbAssumption, FS_EmptySet
  DEF Init, IInv, TypeOK, WithinTable, Slot, EmptySlot, NULL, Nowhere, Printing, Idle

(* Counting the errors of a set of slots in use.                           *)
LEMMA Counting ==
  ASSUME IInv, NEW S \in SUBSET Used
  PROVE  /\ Cardinality(S) \in Nat /\ Cardinality(S) <= last_error
         /\ FatalIn(S) \in Nat
  <1>1. /\ IsFiniteSet(Used) /\ Cardinality(Used) = last_error
    <2>1. last_error \in Int /\ last_error >= 0
      BY DEF IInv, WithinTable, TypeOK
    <2>2. last_error - 1 \in Int /\ 0 \in Int
      BY <2>1
    <2>3. /\ IsFiniteSet(0 .. last_error - 1)
          /\ Cardinality(0 .. last_error - 1) =
               IF 0 > last_error - 1 THEN 0 ELSE (last_error - 1) - 0 + 1
      BY <2>2, FS_Interval
    <2> QED
      BY <2>1, <2>3 DEF Used
  <1>2. IsFiniteSet(S) /\ Cardinality(S) <= Cardinality(Used)
    BY <1>1, FS_Subset
  <1>3. {k \in S : error_table[k].fatal} \in SUBSET S
    OBVIOUS
  <1>4. IsFiniteSet({k \in S : error_table[k].fatal})
    BY <1>2, <1>3, FS_Subset
  <1> QED
    BY <1>1, <1>2, <1>4, FS_CardinalityType DEF FatalIn

(* A save stores within the array, and the counters follow it.             *)
LEMMA SaveOK ==
  ASSUME IInv, NEW f \in Facilities, NEW severe \in BOOLEAN, Save(f, severe)
  PROVE  IInv'
  <1> DEFINE full == last_error = EH_MAX_ERRORS - 1
             base == IF full THEN Shifted ELSE error_table
             at == IF full THEN last_error - 1 ELSE last_error
             oldest == IF full THEN {0} ELSE {}
  <1>1. /\ last_error \in 0 .. EH_MAX_ERRORS - 1 /\ last_error = fatal + non_fatal
        /\ EH_MAX_ERRORS \in Nat /\ EH_MAX_ERRORS >= 2
        /\ fatal \in Int /\ non_fatal \in Int /\ last_error \in Int
        /\ saved \in Nat /\ saved + 1 \in 0 .. MaxSaves
    BY ErrorDbAssumption DEF IInv, TypeOK, WithinTable, Save
  <1>2. oldest \in SUBSET Used /\ Cardinality(oldest) = IF full THEN 1 ELSE 0
    <2>1. Cardinality({0}) = 1 /\ Cardinality({}) = 0
      BY FS_Singleton, FS_EmptySet
    <2>2. full => 0 \in Used
      BY <1>1 DEF Used
    <2> QED
      BY <2>1, <2>2
  <1>3. FatalIn(oldest) \in Nat
    BY <1>2, Counting
  <1>4. /\ fatal' = fatal - FatalIn(oldest) + (IF severe THEN 1 ELSE 0)
        /\ non_fatal' = non_fatal - (Cardinality(oldest) - FatalIn(oldest))
                                  + (IF severe THEN 0 ELSE 1)
        /\ last_error' = fatal' + non_fatal'
    BY DEF Save
  <1>5. /\ fatal' \in Int /\ non_fatal' \in Int
        /\ last_error' = IF full THEN last_error ELSE last_error + 1
    <2> HIDE DEF oldest
    <2>1. Cardinality(oldest) \in Nat
      BY <1>2
    <2>2. fatal' \in Int /\ non_fatal' \in Int
      BY <1>1, <1>3, <1>4, <2>1
    <2>3. fatal' + non_fatal' = fatal + non_fatal - Cardinality(oldest) + 1
      <3>1. CASE severe
        BY <1>1, <1>3, <1>4, <2>1, <3>1
      <3>2. CASE ~severe
        BY <1>1, <1>3, <1>4, <2>1, <3>2
      <3> QED
        BY <3>1, <3>2
    <2> QED
      BY <1>1, <1>2, <1>4, <2>2, <2>3
  <1>6. WithinTable'
    BY <1>1, <1>4, <1>5 DEF WithinTable
  <1>7. base \in [Slots -> Slot]
    BY <1>1 DEF Shifted, Slots, IInv, TypeOK
  <1>8. at \in Slots
    BY <1>1 DEF Slots
  <1>9. error_table' \in [Slots -> Slot]
    <2>1. error_table' = [base EXCEPT ![at] = [@ EXCEPT !.message = saved + 1,
                                            !.facility = {f}, !.fatal = severe]]
      <3> HIDE DEF Shifted
      <3> QED
        BY <1>7, <1>8 DEF Save
    <2> HIDE DEF base, at
    <2>2. [base[at] EXCEPT !.message = saved + 1, !.facility = {f},
                           !.fatal = severe] \in Slot
      BY <1>1, <1>7, <1>8 DEF Slot
    <2> QED
      BY <1>7, <1>8, <2>1, <2>2
  <1>10. /\ clearing' \subseteq Printing' /\ moved' \subseteq Printing'
         /\ orderly' \in BOOLEAN /\ UNCHANGED printer /\ saved' = saved + 1
    BY DEF Save, printer, Printing, Idle, IInv, TypeOK
  <1> QED
    BY <1>1, <1>5, <1>6, <1>9, <1>10 DEF IInv, TypeOK, printer

-----------------------------------------------------------------------------
(* A slot that loses its message or its prefix.                            *)
LEMMA Emptied ==
  ASSUME NEW e \in Slot
  PROVE  /\ [e EXCEPT !.prefix = NULL] \in Slot
         /\ [e EXCEPT !.message = NULL] \in Slot
         /\ [e EXCEPT !.message = NULL, !.prefix = NULL] \in Slot
  <1>1. NULL \in 0 .. MaxSaves
    BY ErrorDbAssumption DEF NULL
  <1> QED
    BY <1>1 DEF Slot

(* A clear only moves errors within the array.                             *)
LEMMA CompactedType ==
  ASSUME IInv, NEW t \in [Slots -> Slot]
  PROVE  Compacted(t) \in [Slots -> Slot]
  <1> DEFINE holes == {k \in 0 .. last_error - 2 : t[k].message = NULL}
             h == CHOOSE k \in holes : \A m \in holes : k <= m
             last == t[last_error - 1]
  <1>1. CASE holes = {}
    BY <1>1 DEF Compacted
  <1>2. CASE holes # {}
    <2>1. last \in Slot
      BY <1>2, ErrorDbAssumption DEF Slots, IInv, WithinTable, TypeOK
    <2>2. /\ [last EXCEPT !.prefix = NULL] \in Slot
          /\ [last EXCEPT !.message = NULL, !.prefix = NULL] \in Slot
          /\ [last EXCEPT !.message = NULL] \in Slot
      BY <2>1, Emptied
    <2>3. Compacted(t) =
            [k \in Slots |->
               IF k = h THEN [last EXCEPT !.prefix = NULL]
               ELSE IF k > h /\ k < last_error - 1
               THEN [last EXCEPT !.message = NULL, !.prefix = NULL]
               ELSE IF k = last_error - 1 THEN [last EXCEPT !.message = NULL]
               ELSE t[k]]
      BY <1>2 DEF Compacted
    <2> HIDE DEF h, last
    <2> QED
      BY <2>2, <2>3
  <1> QED
    BY <1>1, <1>2

(* tms_clear_errors: the counters drop by what was cleared, so last_error  *)
(* stays an index of the table.                                            *)
LEMMA ClearOK ==
  ASSUME IInv, NEW fs \in SUBSET Facilities, ClearErrors(fs)
  PROVE  /\ error_table' \in [Slots -> Slot]
         /\ last_error' \in Int /\ fatal' \in Int /\ non_fatal' \in Int
         /\ saved' = saved /\ orderly' \in BOOLEAN
         /\ WithinTable' /\ last_error' <= last_error
  <1>1. Matching(fs) \in SUBSET Used
    BY DEF Matching
  <1>2. /\ Cardinality(Matching(fs)) \in Nat /\ FatalIn(Matching(fs)) \in Nat
        /\ Cardinality(Matching(fs)) <= last_error
    BY <1>1, Counting
  <1>3. Freed(Matching(fs)) \in [Slots -> Slot]
    <2>1. error_table \in [Slots -> Slot]
      BY DEF IInv, TypeOK
    <2>2. \A k \in Slots :
            [error_table[k] EXCEPT !.message = NULL, !.prefix = NULL] \in Slot
      BY <2>1, Emptied
    <2> QED
      BY <2>1, <2>2 DEF Freed
  <1>4. error_table' \in [Slots -> Slot]
    BY <1>3, CompactedType DEF ClearErrors
  <1>5. /\ fatal \in Int /\ non_fatal \in Int /\ last_error = fatal + non_fatal
        /\ last_error \in 0 .. EH_MAX_ERRORS - 1
    BY DEF IInv, TypeOK, WithinTable
  <1>6. /\ fatal' = fatal - FatalIn(Matching(fs))
        /\ non_fatal' = non_fatal - (Cardinality(Matching(fs)) - FatalIn(Matching(fs)))
        /\ last_error' = fatal' + non_fatal' /\ saved' = saved
    BY DEF ClearErrors
  <1>7. last_error' = last_error - Cardinality(Matching(fs))
    BY <1>2, <1>5, <1>6
  <1>8. WithinTable'
    BY <1>2, <1>5, <1>6, <1>7, ErrorDbAssumption DEF WithinTable
  <1>9. orderly' \in BOOLEAN
    BY DEF ClearErrors, IInv, TypeOK
  <1> QED
    BY <1>2, <1>4, <1>5, <1>6, <1>7, <1>8, <1>9

(* tms_modify_last_error writes to a slot in use, and changes no counter.  *)
LEMMA ModifyOK ==
  ASSUME IInv, NEW fs \in SUBSET Facilities, Modify(fs)
  PROVE  IInv'
  <1>1. PICK k \in Matching(fs) :
          error_table' = [error_table EXCEPT ![k].prefix = error_table[k].message]
    BY DEF Modify
  <1>2. k \in Slots /\ error_table \in [Slots -> Slot]
    BY ErrorDbAssumption DEF Matching, Used, Slots, IInv, TypeOK, WithinTable
  <1>3. [error_table[k] EXCEPT !.prefix = error_table[k].message] \in Slot
    BY <1>2 DEF Slot
  <1>4. error_table' = [error_table EXCEPT
                          ![k] = [@ EXCEPT !.prefix = error_table[k].message]]
    BY <1>1, <1>2
  <1>5. error_table' \in [Slots -> Slot]
    BY <1>2, <1>3, <1>4
  <1> QED
    BY <1>5 DEF IInv, TypeOK, WithinTable, Modify, counters, printer, Printing, Idle

-----------------------------------------------------------------------------
(* Printing reads slots of the array only: the loop ends at last_error.    *)
LEMMA PrintOK ==
  ASSUME IInv, NEW t \in Threads, PrintSlot(t)
  PROVE  IInv'
  <1>1. /\ cursor[t] \in Used /\ cursor[t] \in Slots
        /\ cursor[t] + 1 \in Nowhere .. EH_MAX_ERRORS - 1
    BY ErrorDbAssumption DEF PrintSlot, Used, Slots, Nowhere, IInv, TypeOK, WithinTable
  <1>2. error_table[cursor[t]].message \in 0 .. MaxSaves
    BY <1>1 DEF IInv, TypeOK, Slot
  <1>3. cursor' \in [Threads -> Nowhere .. EH_MAX_ERRORS - 1]
    BY <1>1 DEF PrintSlot, IInv, TypeOK
  <1>4. printed' \in [Threads -> SUBSET (0 .. MaxSaves)]
    BY <1>2 DEF PrintSlot, IInv, TypeOK
  <1>5. Printing' = Printing
    BY <1>1, <1>3 DEF PrintSlot, Printing, Idle, IInv, TypeOK, Used, Nowhere
  <1> QED
    BY <1>3, <1>4, <1>5 DEF PrintSlot, IInv, TypeOK, WithinTable, counters

(* Every operation of the table keeps types and bounds.                    *)
LEMMA NextOK ==
  ASSUME IInv, [Next]_vars
  PROVE  IInv'
  <1>1. CASE \E f \in Facilities, severe \in BOOLEAN : Save(f, severe)
    BY <1>1, SaveOK
  <1>2. CASE \E fs \in SUBSET Facilities : Clear(fs)
    <2>1. PICK fs \in SUBSET Facilities : Clear(fs)
      BY <1>2
    <2>2. moved' \subseteq Printing' /\ clearing' \subseteq Printing' /\ UNCHANGED printer
      BY <2>1 DEF Clear, Moved, printer, Printing, Idle, IInv, TypeOK
    <2> QED
      BY <2>1, <2>2, ClearOK DEF Clear, printer, IInv, TypeOK
  <1>3. CASE \E fs \in SUBSET Facilities : Modify(fs)
    BY <1>3, ModifyOK
  <1>4. ASSUME NEW t \in Threads, NEW fs \in SUBSET Facilities, StartPrint(t, fs)
        PROVE  IInv'
    <2>1. /\ cursor' \in [Threads -> Nowhere .. EH_MAX_ERRORS - 1]
          /\ mask' \in [Threads -> SUBSET Facilities]
          /\ printed' \in [Threads -> SUBSET (0 .. MaxSaves)]
      BY <1>4, ErrorDbAssumption DEF StartPrint, IInv, TypeOK, Nowhere
    <2>2. Printing \subseteq Printing'
      BY <1>4 DEF StartPrint, Printing, Idle, Nowhere, IInv, TypeOK
    <2> QED
      BY <1>4, <2>1, <2>2 DEF StartPrint, IInv, TypeOK, WithinTable, counters
  <1>5. CASE \E t \in Threads : PrintSlot(t)
    BY <1>5, PrintOK
  <1>6. ASSUME NEW t \in Threads, EndPrint(t)
        PROVE  IInv'
    <2>1. mask[t] \in SUBSET Facilities /\ ClearErrors(mask[t])
      BY <1>6 DEF EndPrint, IInv, TypeOK, Printing
    <2>2. /\ cursor' \in [Threads -> Nowhere .. EH_MAX_ERRORS - 1]
          /\ mask' \in [Threads -> SUBSET Facilities]
          /\ printed' \in [Threads -> SUBSET (0 .. MaxSaves)]
      BY <1>6, ErrorDbAssumption DEF EndPrint, IInv, TypeOK, Nowhere
    <2>3. clearing' \subseteq Printing' /\ moved' \subseteq Printing'
      <3>1. Printing \ {t} \subseteq Printing'
        BY <1>6 DEF EndPrint, Printing, Idle, IInv, TypeOK
      <3>2. Moved \subseteq Printing
        BY DEF Moved, IInv, TypeOK
      <3> QED
        BY <1>6, <3>1, <3>2 DEF EndPrint, IInv, TypeOK
    <2> QED
      BY <2>1, <2>2, <2>3, ClearOK DEF IInv, TypeOK
  <1>7. CASE UNCHANGED vars
    BY <1>7 DEF vars, counters, printer, IInv, TypeOK, WithinTable, Printing, Idle
  <1>8. ASSUME NEW t \in Threads, EndLoop(t)
        PROVE  IInv'
    BY <1>8 DEF EndLoop, counters, IInv, TypeOK, WithinTable, Printing, Idle
  <1> QED
    BY <1>1, <1>2, <1>3, <1>4, <1>5, <1>6, <1>7, <1>8 DEF Next, Operation

(* The state keeps its types whatever the threads do: a printing thread's  *)
(* index included, which other threads' clears leave beyond the table.     *)
THEOREM TypeCorrect == Spec => []TypeOK
  <1>1. Init => IInv
    BY InitOK
  <1>2. IInv => TypeOK
    BY DEF IInv
  <1> QED
    BY <1>1, <1>2, NextOK, PTL DEF Spec

(* However saves, clears and prints of any number of threads interleave,   *)
(* last_error stays an index of the array with room for the next error.    *)
THEOREM NeverOverflows == Spec => []WithinTable
  <1>1. Init => IInv
    BY InitOK
  <1>2. IInv => WithinTable
    BY DEF IInv
  <1> QED
    BY <1>1, <1>2, NextOK, PTL DEF Spec

-----------------------------------------------------------------------------
(* What a print has passed it has printed, unless others move it.          *)
PrintedInv ==
  \A t \in Printing \ moved :
    /\ cursor[t] <= last_error
    /\ \A k \in Matching(mask[t]) :
         k < cursor[t] => error_table[k].message \in printed[t]

(* A save that finds room leaves the errors in the table where they are.   *)
LEMMA SaveAppends ==
  ASSUME IInv, NEW f \in Facilities, NEW severe \in BOOLEAN, Save(f, severe),
         last_error # EH_MAX_ERRORS - 1
  PROVE  /\ last_error <= last_error'
         /\ \A k \in Used : error_table'[k] = error_table[k]
  <1>1. /\ fatal' = fatal - FatalIn({}) + (IF severe THEN 1 ELSE 0)
        /\ non_fatal' = non_fatal - (Cardinality({}) - FatalIn({}))
                                  + (IF severe THEN 0 ELSE 1)
        /\ last_error' = fatal' + non_fatal'
        /\ error_table' = [error_table EXCEPT ![last_error].message = saved + 1,
                                              ![last_error].facility = {f},
                                              ![last_error].fatal = severe]
    BY DEF Save
  <1>2. Cardinality({}) = 0 /\ FatalIn({}) = 0
    BY FS_EmptySet DEF FatalIn
  <1>3. /\ fatal \in Int /\ non_fatal \in Int /\ last_error = fatal + non_fatal
        /\ error_table \in [Slots -> Slot]
    BY DEF IInv, TypeOK, WithinTable
  <1>4. last_error' = last_error + 1
    BY <1>1, <1>2, <1>3
  <1>5. \A k \in Used : k \in Slots /\ k # last_error
    BY ErrorDbAssumption DEF Used, Slots, IInv, TypeOK, WithinTable
  <1> QED
    BY <1>1, <1>3, <1>4, <1>5

(* A thread's print that sees the same errors after a step, or more of     *)
(* them, has still printed what it has passed.                             *)
LEMMA StillPrinted ==
  ASSUME IInv, PrintedInv, NEW t \in Printing \ moved,
         cursor'[t] = cursor[t], mask'[t] = mask[t], printed'[t] = printed[t],
         last_error' \in Int, last_error <= last_error',
         \A k \in Used : /\ error_table'[k].message = error_table[k].message
                         /\ error_table'[k].facility = error_table[k].facility
  PROVE  /\ cursor'[t] <= last_error'
         /\ \A k \in Matching(mask[t])' :
              k < cursor'[t] => error_table'[k].message \in printed'[t]
  <1>1. cursor[t] \in Int /\ last_error \in Int /\ cursor[t] <= last_error
    BY DEF PrintedInv, IInv, TypeOK, Printing, Nowhere
  <1>2. ASSUME NEW k \in Matching(mask[t])', k < cursor'[t]
        PROVE  error_table'[k].message \in printed'[t]
    <2>1. k \in Used /\ error_table'[k].facility \cap mask[t] # {}
      BY <1>1, <1>2 DEF Matching, Used
    <2>2. k \in Matching(mask[t])
      BY <2>1 DEF Matching
    <2> QED
      BY <1>2, <2>1, <2>2 DEF PrintedInv
  <1> QED
    BY <1>1, <1>2

LEMMA PrintedKept ==
  ASSUME IInv, PrintedInv, [Next]_vars
  PROVE  PrintedInv'
  <1> SUFFICES ASSUME NEW t \in Printing' \ moved'
               PROVE  /\ cursor'[t] <= last_error'
                      /\ \A k \in Matching(mask[t])' :
                           k < cursor'[t] => error_table'[k].message \in printed'[t]
    BY DEF PrintedInv
  <1>1. IInv'
    BY NextOK
  <1>2. /\ t \in Threads
        /\ cursor \in [Threads -> Nowhere .. EH_MAX_ERRORS - 1]
        /\ mask \in [Threads -> SUBSET Facilities]
        /\ printed \in [Threads -> SUBSET (0 .. MaxSaves)]
        /\ cursor[t] \in Int /\ last_error \in Int /\ last_error' \in Int /\ last_error >= 0
        /\ error_table \in [Slots -> Slot]
    BY <1>1 DEF IInv, TypeOK, WithinTable, Nowhere, Printing
  <1>3. CASE /\ UNCHANGED <<error_table, last_error>>
             /\ cursor'[t] = cursor[t] /\ mask'[t] = mask[t] /\ printed'[t] = printed[t]
             /\ t \notin moved
    <2>1. t \in Printing
      BY <1>2, <1>3 DEF Printing, Idle
    <2> QED
      BY <1>2, <1>3, <2>1, StillPrinted
  <1>4. ASSUME NEW f \in Facilities, NEW severe \in BOOLEAN, Save(f, severe)
        PROVE  /\ cursor'[t] <= last_error'
               /\ \A k \in Matching(mask[t])' :
                    k < cursor'[t] => error_table'[k].message \in printed'[t]
    <2>1. UNCHANGED printer /\ t \in Printing
      BY <1>2, <1>4 DEF Save, printer, Printing, Idle
    <2>2. last_error # EH_MAX_ERRORS - 1 /\ t \notin moved
      BY <1>4, <2>1 DEF Save
    <2> QED
      BY <1>2, <1>4, <2>1, <2>2, SaveAppends, StillPrinted DEF printer
  <1>5. ASSUME NEW fs \in SUBSET Facilities, Clear(fs)
        PROVE  /\ UNCHANGED <<error_table, last_error>>
               /\ cursor'[t] = cursor[t] /\ mask'[t] = mask[t] /\ printed'[t] = printed[t]
               /\ t \notin moved
    <2>1. UNCHANGED printer /\ t \in Printing
      BY <1>2, <1>5 DEF Clear, printer, Printing, Idle
    <2> QED
      BY <1>5, <2>1 DEF Clear, Moved, printer
  <1>6. ASSUME NEW fs \in SUBSET Facilities, Modify(fs)
        PROVE  /\ cursor'[t] <= last_error'
               /\ \A k \in Matching(mask[t])' :
                    k < cursor'[t] => error_table'[k].message \in printed'[t]
    <2>1. PICK k \in Matching(fs) :
            error_table' = [error_table EXCEPT ![k].prefix = error_table[k].message]
      BY <1>6 DEF Modify
    <2>2. \A m \in Used : m \in Slots
      BY ErrorDbAssumption DEF Used, Slots, IInv, TypeOK, WithinTable
    <2>3. \A m \in Used : /\ error_table'[m].message = error_table[m].message
                          /\ error_table'[m].facility = error_table[m].facility
      BY <1>2, <2>1, <2>2 DEF Slot
    <2>4. UNCHANGED <<printer, moved, last_error>> /\ t \in Printing
      BY <1>2, <1>6 DEF Modify, counters, printer, Printing, Idle
    <2> QED
      BY <1>2, <2>3, <2>4, StillPrinted DEF printer
  <1>7. ASSUME NEW u \in Threads, NEW fs \in SUBSET Facilities, StartPrint(u, fs)
        PROVE  /\ cursor'[t] <= last_error'
               /\ \A k \in Matching(mask[t])' :
                    k < cursor'[t] => error_table'[k].message \in printed'[t]
    <2>1. UNCHANGED <<error_table, last_error, moved>>
      BY <1>7 DEF StartPrint, counters
    <2>2. CASE u = t
      <3>1. cursor'[t] = 0
        BY <1>2, <1>7, <2>2 DEF StartPrint
      <3>2. \A k \in Matching(mask[t])' : ~(k < 0)
        BY DEF Matching, Used
      <3> QED
        BY <1>2, <2>1, <3>1, <3>2
    <2>3. CASE u # t
      BY <1>2, <1>3, <1>7, <2>1, <2>3 DEF StartPrint
    <2> QED
      BY <2>2, <2>3
  <1>8. ASSUME NEW u \in Threads, PrintSlot(u)
        PROVE  /\ cursor'[t] <= last_error'
               /\ \A k \in Matching(mask[t])' :
                    k < cursor'[t] => error_table'[k].message \in printed'[t]
    <2>1. UNCHANGED <<error_table, last_error, mask, moved>>
      BY <1>8 DEF PrintSlot, counters
    <2>2. CASE u # t
      BY <1>2, <1>3, <1>8, <2>1, <2>2 DEF PrintSlot
    <2>3. CASE u = t
      <3>1. /\ cursor[t] \in Used /\ cursor'[t] = cursor[t] + 1
            /\ printed'[t] = printed[t] \cup (IF cursor[t] \in Matching(mask[t])
                                              THEN {error_table[cursor[t]].message} ELSE {})
        BY <1>2, <1>8, <2>3 DEF PrintSlot
      <3>2. t \in Printing \ moved /\ Matching(mask[t])' = Matching(mask[t])
        BY <1>2, <2>1, <3>1 DEF Printing, Idle, Used, Nowhere, Matching
      <3>3. ASSUME NEW k \in Matching(mask[t]), k < cursor'[t]
            PROVE  error_table[k].message \in printed'[t]
        <4>1. CASE k < cursor[t]
          BY <3>1, <3>2, <4>1 DEF PrintedInv
        <4>2. CASE ~(k < cursor[t])
          <5>1. k = cursor[t]
            BY <1>2, <3>1, <3>3, <4>2 DEF Matching, Used
          <5> QED
            BY <3>1, <3>3, <5>1
        <4> QED
          BY <4>1, <4>2
      <3>4. cursor'[t] <= last_error'
        BY <1>2, <2>1, <3>1 DEF Used
      <3> QED
        BY <2>1, <3>2, <3>3, <3>4
    <2> QED
      BY <2>2, <2>3
  <1>9. ASSUME NEW u \in Threads, EndLoop(u)
        PROVE  /\ UNCHANGED <<error_table, last_error>>
               /\ cursor'[t] = cursor[t] /\ mask'[t] = mask[t] /\ printed'[t] = printed[t]
               /\ t \notin moved
    BY <1>9 DEF EndLoop, counters
  <1>10. ASSUME NEW u \in Threads, EndPrint(u)
         PROVE  /\ UNCHANGED <<error_table, last_error>>
                /\ cursor'[t] = cursor[t] /\ mask'[t] = mask[t] /\ printed'[t] = printed[t]
                /\ t \notin moved
    <2>1. t # u
      BY <1>2, <1>10 DEF EndPrint, Printing, Idle
    <2>2. cursor'[t] = cursor[t] /\ mask'[t] = mask[t] /\ printed'[t] = printed[t]
      BY <1>2, <1>10, <2>1 DEF EndPrint
    <2>3. t \in Printing /\ t \notin Moved
      BY <1>2, <1>10, <2>1, <2>2 DEF EndPrint, Printing, Idle
    <2> QED
      BY <2>2, <2>3 DEF Moved
  <1>11. CASE UNCHANGED vars
    BY <1>3, <1>11 DEF vars, counters, printer
  <1> QED
    BY <1>3, <1>4, <1>5, <1>6, <1>7, <1>8, <1>9, <1>10, <1>11 DEF Next, Operation

(* Whatever other threads do, tms_print_errors takes out of the table only *)
(* what it has printed and what was saved after its loop ended, unless     *)
(* errors were moved while it ran.                                         *)
THEOREM ClearedWasPrinted == Spec => ClearsPrinted
  <1>1. Init => IInv /\ PrintedInv
    BY InitOK DEF Init, PrintedInv, Idle, Printing
  <1>2. IInv /\ PrintedInv /\ [Next]_vars => (IInv /\ PrintedInv)'
    BY NextOK, PrintedKept
  <1>3. ASSUME IInv, PrintedInv, NEW t \in Threads \ moved, EndPrint(t),
               NEW k \in Matching(mask[t])
        PROVE  error_table[k].message \in printed[t] \/ k >= cursor[t]
    <2>1. t \in Printing \ moved /\ cursor[t] \in Int /\ k \in Int
      BY <1>3 DEF EndPrint, IInv, TypeOK, Nowhere, Matching, Used
    <2> QED
      BY <1>3, <2>1 DEF PrintedInv
  <1>4. IInv /\ PrintedInv /\ [Next]_vars =>
          [\A t \in Threads \ moved :
             EndPrint(t) => \A k \in Matching(mask[t]) :
                              \/ error_table[k].message \in printed[t]
                              \/ k >= cursor[t]]_vars
    BY <1>3
  <1> QED
    BY <1>1, <1>2, <1>4, PTL DEF Spec, ClearsPrinted

-----------------------------------------------------------------------------
(* The counters count what is in the slots in use, each of which has an    *)
(* error of one facility.                                                  *)
CountInv ==
  /\ fatal = FatalIn(Used)
  /\ \A k \in Used : /\ error_table[k].message # NULL
                     /\ \E f \in Facilities : error_table[k].facility = {f}

errors == [n \in 1 .. last_error |-> Entry(n - 1)]
Errors == [message : 0 .. MaxSaves, facility : Facilities, fatal : BOOLEAN]

LEMMA LogCardinality == \A S : Log!Cardinality(S) = Cardinality(S)
  BY DEF Log!Cardinality, Cardinality

(* A set of places and the same places counted from another start have as  *)
(* many members.                                                           *)
Shift(S, d) == {k + d : k \in S}
LEMMA ShiftCardinality ==
  ASSUME NEW S \in SUBSET Int, IsFiniteSet(S), NEW d \in Int
  PROVE  /\ IsFiniteSet(Shift(S, d))
         /\ Cardinality(Shift(S, d)) = Cardinality(S)
  <1> DEFINE T == Shift(S, d)
             F == [k \in S |-> k + d]
  <1>1. F \in Injection(S, T)
    <2>1. F \in [S -> T]
      BY DEF Shift
    <2>2. \A k, m \in S : k + d = m + d => k = m
      OBVIOUS
    <2> QED
      BY <2>1, <2>2 DEF Injection, IsInjective
  <1>2. F \in Surjection(S, T)
    BY DEF Surjection, Shift
  <1>3. ExistsBijection(S, T)
    BY <1>1, <1>2 DEF Bijection, ExistsBijection
  <1> QED
    BY <1>3, FS_Bijection

(* The error in a slot in use.                                             *)
LEMMA EntryOf ==
  ASSUME IInv, CountInv, NEW k \in Used
  PROVE  /\ k \in Slots
         /\ Entry(k) \in Errors
         /\ error_table[k].facility = {Entry(k).facility}
         /\ Entry(k).message = error_table[k].message
         /\ Entry(k).fatal = error_table[k].fatal
  <1>1. k \in Slots /\ error_table[k] \in Slot
    BY ErrorDbAssumption DEF Used, Slots, IInv, TypeOK, WithinTable
  <1>2. PICK f \in Facilities : error_table[k].facility = {f}
    BY DEF CountInv
  <1>3. (CHOOSE g \in error_table[k].facility : TRUE) = f
    BY <1>2
  <1>4. Entry(k) = [message |-> error_table[k].message, facility |-> f,
                    fatal |-> error_table[k].fatal]
    BY <1>3 DEF Entry
  <1> QED
    BY <1>1, <1>2, <1>4 DEF Errors, Slot

LEMMA ErrorsType ==
  ASSUME IInv, CountInv
  PROVE  /\ errors \in Seq(Errors) /\ Len(errors) = last_error
         /\ DOMAIN errors = 1 .. last_error
         /\ \A n \in 1 .. last_error : n - 1 \in Used /\ errors[n] = Entry(n - 1)
  <1>1. last_error \in Nat
    BY ErrorDbAssumption DEF IInv, TypeOK, WithinTable
  <1>2. \A n \in 1 .. last_error : n - 1 \in Used
    BY <1>1 DEF Used
  <1>3. \A n \in 1 .. last_error : Entry(n - 1) \in Errors
    BY <1>2, EntryOf
  <1> QED
    BY <1>1, <1>2, <1>3 DEF errors

(* What tms_get_error_count answers is the number of errors in the log.    *)
Counted == [fatal |-> fatal, non_fatal |-> non_fatal] = Log!Counts(errors)

LEMMA CountsRight == IInv /\ CountInv => Counted
  <1> SUFFICES ASSUME IInv, CountInv
               PROVE  [fatal |-> fatal, non_fatal |-> non_fatal] = Log!Counts(errors)
    BY DEF Counted
  <1> DEFINE severe == {n \in DOMAIN errors : errors[n].fatal}
             S == {k \in Used : error_table[k].fatal}
  <1>1. /\ last_error \in Int /\ fatal \in Int /\ non_fatal \in Int
        /\ last_error = fatal + non_fatal
    BY DEF IInv, TypeOK, WithinTable
  <1>2. S \in SUBSET Int /\ IsFiniteSet(S)
    <2>1. IsFiniteSet(Used)
      BY <1>1, FS_Interval DEF Used
    <2>2. S \in SUBSET Used /\ Used \in SUBSET Int
      BY DEF Used
    <2> HIDE DEF S
    <2> QED
      BY <2>1, <2>2, FS_Subset
  <1>3. severe = Shift(S, 1)
    <2>1. \A n \in 1 .. last_error : /\ n - 1 \in Used /\ (n - 1) + 1 = n
                                     /\ errors[n].fatal = error_table[n - 1].fatal
      BY ErrorsType, EntryOf
    <2>2. \A k \in Used : k + 1 \in 1 .. last_error /\ (k + 1) - 1 = k
      BY <1>1 DEF Used
    <2> QED
      BY <2>1, <2>2, ErrorsType DEF Shift
  <1>4. Cardinality(severe) = fatal
    <2> HIDE DEF S, severe
    <2>1. Cardinality(Shift(S, 1)) = Cardinality(S)
      BY <1>2, ShiftCardinality
    <2> QED
      BY <1>3, <2>1 DEF S, CountInv, FatalIn
  <1>5. Log!Counts(errors) = [fatal |-> Log!Cardinality(severe),
                              non_fatal |-> Len(errors) - Log!Cardinality(severe)]
    BY DEF Log!Counts
  <1> HIDE DEF severe
  <1> QED
    BY <1>1, <1>4, <1>5, ErrorsType, LogCardinality

-----------------------------------------------------------------------------
(* What a save stores is the newest error of the log, and a full table     *)
(* loses its oldest one.                                                   *)
Lost == IF last_error = EH_MAX_ERRORS - 1 THEN 1 ELSE 0
Oldest == IF last_error = EH_MAX_ERRORS - 1 THEN {0} ELSE {}

LEMMA SaveKeeps ==
  ASSUME IInv, CountInv, NEW f \in Facilities, NEW severe \in BOOLEAN, Save(f, severe)
  PROVE  /\ last_error' = last_error - Lost + 1
         /\ last_error - Lost \in Used'
         /\ \A k \in Used' : k # last_error - Lost =>
              /\ k + Lost \in Used
              /\ error_table'[k] = error_table[k + Lost]
         /\ error_table'[last_error - Lost].message = saved + 1
         /\ error_table'[last_error - Lost].facility = {f}
         /\ error_table'[last_error - Lost].fatal = severe
         /\ fatal' = fatal - FatalIn(Oldest) + (IF severe THEN 1 ELSE 0)
  <1> DEFINE full == last_error = EH_MAX_ERRORS - 1
             base == IF full THEN Shifted ELSE error_table
             at == IF full THEN last_error - 1 ELSE last_error
  <1>1. /\ last_error \in 0 .. EH_MAX_ERRORS - 1 /\ last_error \in Int
        /\ EH_MAX_ERRORS \in Nat /\ EH_MAX_ERRORS >= 2
        /\ fatal \in Int /\ non_fatal \in Int /\ last_error = fatal + non_fatal
        /\ saved \in 0 .. MaxSaves /\ error_table \in [Slots -> Slot]
    BY ErrorDbAssumption DEF IInv, TypeOK, WithinTable
  <1>2. at = last_error - Lost /\ at \in Slots /\ at \in Nat
    BY <1>1 DEF Slots, Lost
  <1>3. base \in [Slots -> Slot]
    BY <1>1 DEF Shifted, Slots
  <1>4. error_table' = [base EXCEPT ![at] = [@ EXCEPT !.message = saved + 1,
                                               !.facility = {f}, !.fatal = severe]]
    <2> HIDE DEF Shifted
    <2> QED
      BY <1>2, <1>3 DEF Save
  <1>5. /\ error_table'[at] = [base[at] EXCEPT !.message = saved + 1,
                                               !.facility = {f}, !.fatal = severe]
        /\ \A k \in Slots \ {at} : error_table'[k] = base[k]
        /\ base[at] \in Slot
    <2> HIDE DEF base, at
    <2> QED
      BY <1>2, <1>3, <1>4
  <1>6. /\ error_table'[at].message = saved + 1
        /\ error_table'[at].facility = {f}
        /\ error_table'[at].fatal = severe
    <2> HIDE DEF base, at
    <2> QED
      BY <1>5 DEF Slot
  <1>7. /\ last_error' = last_error - Lost + 1
        /\ fatal' = fatal - FatalIn(Oldest) + (IF severe THEN 1 ELSE 0)
    <2>1. /\ fatal' = fatal - FatalIn(Oldest) + (IF severe THEN 1 ELSE 0)
          /\ non_fatal' = non_fatal - (Cardinality(Oldest) - FatalIn(Oldest))
                                    + (IF severe THEN 0 ELSE 1)
          /\ last_error' = fatal' + non_fatal'
      BY DEF Save, Oldest
    <2>2. Oldest \in SUBSET Used /\ Cardinality(Oldest) = Lost
      <3>1. Cardinality({0}) = 1 /\ Cardinality({}) = 0
        BY FS_Singleton, FS_EmptySet
      <3> QED
        BY <1>1, <3>1 DEF Used, Oldest, Lost
    <2>3. FatalIn(Oldest) \in Nat /\ Lost \in Nat
      BY <2>2, Counting DEF Lost
    <2> QED
      BY <1>1, <2>1, <2>2, <2>3
  <1>8. /\ at \in Used'
        /\ \A k \in Used' : k # at => k + Lost \in Used /\ k \in Slots /\ base[k] = error_table[k + Lost]
    <2>1. Used' = 0 .. at
      BY <1>1, <1>2, <1>7 DEF Used
    <2>2. CASE full
      <3>1. \A k \in 0 .. at : k # at => k + 1 \in Used /\ k \in Slots /\ k # EH_MAX_ERRORS - 1
        BY <1>1, <2>2 DEF Used, Slots
      <3> QED
        BY <1>2, <2>1, <2>2, <3>1 DEF Shifted, Lost
    <2>3. CASE ~full
      <3>1. \A k \in 0 .. at : k # at => k \in Used /\ k \in Slots /\ k + 0 = k
        BY <1>1, <2>3 DEF Used, Slots
      <3> QED
        BY <1>2, <2>1, <2>3, <3>1 DEF Lost
    <2> QED
      BY <2>2, <2>3
  <1> HIDE DEF base, at
  <1> QED
    BY <1>2, <1>5, <1>6, <1>7, <1>8

Severe(S) == {k \in S : error_table[k].fatal}

LEMMA SevereFinite ==
  ASSUME IInv
  PROVE  /\ IsFiniteSet(Used) /\ Used \in SUBSET Int
         /\ Cardinality(Used) = last_error
         /\ \A S \in SUBSET Used : IsFiniteSet(Severe(S)) /\ Severe(S) \in SUBSET Int
         /\ \A S \in SUBSET Used : FatalIn(Used \ S) = FatalIn(Used) - FatalIn(S)
  <1>1. last_error \in Int /\ last_error >= 0
    BY DEF IInv, TypeOK, WithinTable
  <1>2. IsFiniteSet(Used) /\ Used \in SUBSET Int /\ Cardinality(Used) = last_error
    BY <1>1, FS_Interval DEF Used
  <1>3. \A S \in SUBSET Used : Severe(S) \in SUBSET Used
    BY DEF Severe
  <1>4. \A S \in SUBSET Used : IsFiniteSet(Severe(S)) /\ Severe(S) \in SUBSET Int
    BY <1>2, <1>3, FS_Subset
  <1>5. ASSUME NEW S \in SUBSET Used
        PROVE  FatalIn(Used \ S) = FatalIn(Used) - FatalIn(S)
    <2>1. /\ Severe(Used \ S) = Severe(Used) \ S
          /\ Severe(S) = Severe(Used) \cap S
      BY DEF Severe
    <2>2. \A T : FatalIn(T) = Cardinality(Severe(T))
      BY DEF FatalIn, Severe
    <2>3. Cardinality(Severe(Used) \ S) = Cardinality(Severe(Used)) - Cardinality(Severe(Used) \cap S)
      BY <1>4, FS_Difference
    <2> QED
      BY <2>1, <2>2, <2>3
  <1> QED
    BY <1>2, <1>4, <1>5

LEMMA SaveCounts ==
  ASSUME IInv, CountInv, NEW f \in Facilities, NEW severe \in BOOLEAN, Save(f, severe)
  PROVE  CountInv'
  <1> DEFINE at == last_error - Lost
             R == Severe(Used \ Oldest)
             new == IF severe THEN {at} ELSE {}
  <1>1. /\ last_error \in Nat /\ Lost \in Nat /\ last_error >= Lost
        /\ Oldest \in SUBSET Used
        /\ Used = 0 .. last_error - 1
        /\ Used \ Oldest = Lost .. last_error - 1
        /\ saved \in Nat
    BY ErrorDbAssumption DEF IInv, TypeOK, WithinTable, Lost, Oldest, Used
  <1>2. /\ last_error' = at + 1 /\ at \in Nat
        /\ Used' = 0 .. at /\ at \in Used'
        /\ \A k \in 0 .. at : k # at => /\ k + Lost \in Used
                                        /\ error_table'[k] = error_table[k + Lost]
        /\ error_table'[at].message = saved + 1 /\ error_table'[at].facility = {f}
        /\ error_table'[at].fatal = severe
        /\ fatal' = fatal - FatalIn(Oldest) + (IF severe THEN 1 ELSE 0)
    <2>1. last_error' = at + 1 /\ at \in Nat
      BY <1>1, SaveKeeps
    <2>2. Used' = 0 .. at
      BY <2>1 DEF Used
    <2> QED
      BY <2>1, <2>2, SaveKeeps
  <1>3. /\ \A k \in 0 .. at - 1 : k # at /\ k \in 0 .. at /\ k + Lost \in Lost .. last_error - 1
        /\ \A k \in Lost .. last_error - 1 : k + (-Lost) \in 0 .. at - 1 /\ (k + (-Lost)) + Lost = k
        /\ \A k \in 0 .. at - 1 : (k + Lost) + (-Lost) = k
        /\ at \notin 0 .. at - 1 /\ 0 .. at = 0 .. at - 1 \cup {at}
    BY <1>1, <1>2
  <1> HIDE DEF at
  <1>4. Severe(Used)' = Shift(R, -Lost) \cup new
    <2>1. Shift(R, -Lost) = {k \in 0 .. at - 1 : error_table'[k].fatal}
      <3>1. ASSUME NEW k \in 0 .. at - 1, error_table'[k].fatal
            PROVE  k \in Shift(R, -Lost)
        <4>1. k + Lost \in R
          BY <1>1, <1>2, <1>3, <3>1 DEF Severe
        <4> QED
          BY <1>3, <4>1 DEF Shift
      <3>2. ASSUME NEW k \in R
            PROVE  k + (-Lost) \in 0 .. at - 1 /\ error_table'[k + (-Lost)].fatal
        <4>1. k \in Lost .. last_error - 1 /\ error_table[k].fatal
          BY <1>1 DEF Severe
        <4>2. /\ k + (-Lost) \in 0 .. at - 1 /\ (k + (-Lost)) + Lost = k
              /\ k + (-Lost) # at /\ k + (-Lost) \in 0 .. at
          BY <1>3, <4>1
        <4> QED
          BY <1>2, <4>1, <4>2
      <3> QED
        BY <3>1, <3>2 DEF Shift
    <2>2. Severe(Used)' = {k \in 0 .. at : error_table'[k].fatal}
      BY <1>2 DEF Severe
    <2> QED
      BY <1>2, <1>3, <2>1, <2>2
  <1>5. at \notin Shift(R, -Lost)
    BY <1>1, <1>3 DEF Shift, Severe
  <1>6. fatal' = FatalIn(Used)'
    <2>1. R \in SUBSET Int /\ IsFiniteSet(R) /\ Cardinality(R) = FatalIn(Used) - FatalIn(Oldest)
      BY <1>1, SevereFinite DEF FatalIn, Severe
    <2> HIDE DEF R
    <2>2. -Lost \in Int
      BY <1>1
    <2>3. IsFiniteSet(Shift(R, -Lost)) /\ Cardinality(Shift(R, -Lost)) = Cardinality(R)
      BY <2>1, <2>2, ShiftCardinality
    <2>4. Cardinality(Shift(R, -Lost) \cup {at}) = Cardinality(R) + 1
      BY <1>5, <2>3, FS_AddElement
    <2>5. FatalIn(Used)' = Cardinality(Shift(R, -Lost) \cup new)
      BY <1>4 DEF FatalIn, Severe
    <2>6. FatalIn(Used) = fatal /\ FatalIn(Oldest) \in Nat /\ fatal \in Int
      BY <1>1, Counting DEF CountInv, IInv, TypeOK
    <2>7. CASE severe
      BY <1>2, <2>1, <2>4, <2>5, <2>6, <2>7
    <2>8. CASE ~severe
      BY <1>2, <2>1, <2>3, <2>5, <2>6, <2>8
    <2> QED
      BY <2>7, <2>8
  <1>7. ASSUME NEW k \in Used'
        PROVE  /\ error_table'[k].message # NULL
               /\ \E g \in Facilities : error_table'[k].facility = {g}
    <2>1. CASE k = at
      BY <1>1, <1>2, <2>1 DEF NULL
    <2>2. CASE k # at
      BY <1>2, <2>2 DEF CountInv
    <2> QED
      BY <2>1, <2>2
  <1> QED
    BY <1>6, <1>7 DEF CountInv, NULL

LEMMA SaveLogged ==
  ASSUME IInv, CountInv, NEW f \in Facilities, NEW severe \in BOOLEAN, Save(f, severe)
  PROVE  errors' = Append(IF Len(errors) = EH_MAX_ERRORS - 1 THEN Tail(errors) ELSE errors,
                          [message |-> saved + 1, facility |-> f, fatal |-> severe])
  <1>0. PICK at \in Int : at = last_error - Lost
    BY DEF IInv, TypeOK, Lost
  <1> DEFINE error == [message |-> saved + 1, facility |-> f, fatal |-> severe]
             kept == IF Len(errors) = EH_MAX_ERRORS - 1 THEN Tail(errors) ELSE errors
  <1>1. /\ last_error \in Nat /\ EH_MAX_ERRORS \in Nat /\ EH_MAX_ERRORS >= 2
        /\ saved + 1 \in 0 .. MaxSaves
    BY ErrorDbAssumption DEF IInv, TypeOK, WithinTable, Save
  <1>2. /\ kept \in Seq(Errors) /\ Len(kept) = at
        /\ \A n \in 1 .. at : kept[n] = errors[n + Lost] /\ n + Lost \in 1 .. last_error
    <2>1. CASE last_error = EH_MAX_ERRORS - 1
      <3>1. errors # <<>>
        BY <1>1, <2>1, ErrorsType
      <3>2. /\ Tail(errors) \in Seq(Errors) /\ Len(Tail(errors)) = last_error - 1
            /\ \A n \in 1 .. last_error - 1 : Tail(errors)[n] = errors[n + 1]
        BY <3>1, ErrorsType, HeadTailProperties
      <3> QED
        BY <1>0, <1>1, <2>1, <3>2, ErrorsType DEF Lost
    <2>2. CASE last_error # EH_MAX_ERRORS - 1
      BY <1>0, <1>1, <2>2, ErrorsType DEF Lost
    <2> QED
      BY <2>1, <2>2
  <1>3. /\ last_error' = at + 1 /\ at \in Nat
        /\ \A k \in Used' : k # at => /\ k + Lost \in Used
                                      /\ error_table'[k] = error_table[k + Lost]
        /\ error_table'[at].message = saved + 1 /\ error_table'[at].facility = {f}
        /\ error_table'[at].fatal = severe
    <2>1. at \in Nat
      BY <1>0, <1>1 DEF Lost
    <2> QED
      BY <1>0, <1>1, <2>1, SaveKeeps
  <1>4. Lost \in Nat
    BY DEF Lost
  <1> HIDE DEF kept
  <1>5. errors' = [n \in 1 .. at + 1 |-> Entry(n - 1)']
    BY <1>3 DEF errors
  <1>6. ASSUME NEW n \in 1 .. at
        PROVE  Entry(n - 1)' = kept[n]
    <2>1. n - 1 \in Used' /\ n - 1 # at
      BY <1>3 DEF Used
    <2>2. (n - 1) + Lost = (n + Lost) - 1 /\ n + Lost \in 1 .. last_error
      <3>1. (n - 1) + Lost = (n + Lost) - 1
        BY <1>4
      <3> QED
        BY <1>2, <3>1
    <2>3. Entry(n - 1)' = Entry((n - 1) + Lost)
      BY <1>3, <2>1 DEF Entry
    <2>4. kept[n] = Entry((n + Lost) - 1)
      BY <1>2, <2>2, ErrorsType
    <2> QED
      BY <2>2, <2>3, <2>4
  <1>7. Entry(at)' = error
    <2>1. (CHOOSE g \in {f} : TRUE) = f
      OBVIOUS
    <2> QED
      BY <1>3, <2>1 DEF Entry
  <1>8. error \in Errors
    BY <1>1 DEF Errors
  <1> HIDE DEF error
  <1>9. Append(kept, error) = [n \in 1 .. at + 1 |-> IF n = at + 1 THEN error ELSE kept[n]]
    <2>1. /\ Append(kept, error) \in Seq(Errors)
          /\ Len(Append(kept, error)) = at + 1
          /\ \A n \in 1 .. at : Append(kept, error)[n] = kept[n]
          /\ Append(kept, error)[at + 1] = error
      BY <1>2, <1>8, AppendProperties
    <2>2. Append(kept, error) = [n \in 1 .. at + 1 |-> Append(kept, error)[n]]
      <3> DEFINE s == Append(kept, error)
      <3> HIDE DEF s
      <3>1. s \in [1 .. Len(s) -> Errors]
        BY <2>1, LenProperties DEF s
      <3>2. s = [n \in 1 .. Len(s) |-> s[n]]
        BY <3>1
      <3>3. s = [n \in 1 .. at + 1 |-> s[n]]
        BY <2>1, <3>2 DEF s
      <3> QED
        BY <3>3 DEF s
    <2>3. \A n \in 1 .. at + 1 : n # at + 1 => n \in 1 .. at
      BY <1>3
    <2> QED
      BY <2>1, <2>2, <2>3
  <1>10. \A n \in 1 .. at + 1 : Entry(n - 1)' = IF n = at + 1 THEN error ELSE kept[n]
    <2>1. (at + 1) - 1 = at /\ \A n \in 1 .. at + 1 : n # at + 1 => n \in 1 .. at
      BY <1>3
    <2> QED
      BY <1>6, <1>7, <2>1
  <1>11. errors' = Append(kept, error)
    BY <1>5, <1>9, <1>10
  <1> QED
    BY <1>11 DEF kept, error

-----------------------------------------------------------------------------
(* An orderly clear keeps the errors before the first it takes out, and    *)
(* the last one if it is of another facility: what is in slot k after it   *)
(* was in slot From(h, k) before.                                          *)
From(h, k) == IF k < h THEN k ELSE last_error - 1
SameError(d, e) == d.message = e.message /\ d.facility = e.facility /\ d.fatal = e.fatal
KeptFrom(h, fs) ==
  /\ last_error' \in {h, h + 1} /\ last_error' <= last_error
  /\ \A k \in Used' : /\ From(h, k) \in Used \ Matching(fs)
                      /\ SameError(error_table'[k], error_table[From(h, k)])
  /\ \A m \in Used \ Matching(fs) : \E k \in Used' : m = From(h, k)

LEMMA ClearKeeps ==
  ASSUME IInv, CountInv, NEW fs \in SUBSET Facilities, ClearErrors(fs), Ordered(fs)
  PROVE  \E h \in Nat : KeptFrom(h, fs)
  <1> DEFINE n == last_error
             H == Matching(fs)
             t == Freed(H)
             holes == {k \in 0 .. last_error - 2 : t[k].message = NULL}
  <1>1. /\ n \in Nat /\ EH_MAX_ERRORS \in Nat /\ n <= EH_MAX_ERRORS - 1
        /\ fatal \in Int /\ non_fatal \in Int /\ n = fatal + non_fatal
        /\ error_table \in [Slots -> Slot] /\ Used = 0 .. n - 1
        /\ H \in SUBSET Used /\ Used \in SUBSET Slots /\ Used \in SUBSET Nat
    BY ErrorDbAssumption DEF IInv, TypeOK, WithinTable, Used, Slots, Matching
  <1>2. last_error' = n - Cardinality(H) /\ Cardinality(H) \in Nat
    <2>1. /\ fatal' = fatal - FatalIn(H)
          /\ non_fatal' = non_fatal - (Cardinality(H) - FatalIn(H))
          /\ last_error' = fatal' + non_fatal'
      BY DEF ClearErrors
    <2>2. FatalIn(H) \in Nat /\ Cardinality(H) \in Nat
      BY <1>1, Counting
    <2> HIDE DEF H
    <2> QED
      BY <1>1, <2>1, <2>2
  <1>3. last_error' = Cardinality(Used \ H)
    <2>1. Cardinality(Used \ H) = Cardinality(Used) - Cardinality(Used \cap H) /\ Used \cap H = H
      BY <1>1, SevereFinite, FS_Difference
    <2> QED
      BY <1>2, <2>1, SevereFinite
  <1>4. \A k \in Slots : /\ k \notin H => t[k] = error_table[k]
                         /\ k \in H => t[k].message = NULL
    <2>1. \A k \in Slots : [error_table[k] EXCEPT !.message = NULL, !.prefix = NULL].message = NULL
      BY <1>1 DEF Slot
    <2> HIDE DEF H
    <2> QED
      BY <2>1 DEF Freed
  <1>5. holes = H \cap 0 .. n - 2
    <2>1. \A k \in 0 .. n - 2 : k \in Used /\ k \in Slots
      BY <1>1
    <2>2. \A k \in Used : error_table[k].message # NULL
      BY DEF CountInv
    <2> HIDE DEF H, t
    <2> QED
      BY <1>4, <2>1, <2>2
  <1>6. error_table' = Compacted(t) /\ Ordered(fs)
    BY DEF ClearErrors
  <1>7. holes = {} => error_table' = t
    BY <1>6 DEF Compacted
  <1>8. ASSUME NEW h \in holes, \A m \in holes : h <= m
        PROVE  /\ \A k \in Slots : k < h => error_table'[k] = t[k]
               /\ error_table'[h] = [t[n - 1] EXCEPT !.prefix = NULL]
    <2>1. (CHOOSE k \in holes : \A m \in holes : k <= m) = h
      <3>1. \A k \in holes : (\A m \in holes : k <= m) => k = h
        <4>1. \A k \in holes : k \in Int
          OBVIOUS
        <4> HIDE DEF holes
        <4> QED
          BY <1>8, <4>1
      <3> HIDE DEF holes
      <3> QED
        BY <1>8, <3>1
    <2>2. h \in 0 .. n - 2 /\ h \in Slots /\ h \in Int
      BY <1>1
    <2>3. error_table' = [k \in Slots |->
              IF k = h THEN [t[n - 1] EXCEPT !.prefix = NULL]
              ELSE IF k > h /\ k < n - 1
              THEN [t[n - 1] EXCEPT !.message = NULL, !.prefix = NULL]
              ELSE IF k = n - 1 THEN [t[n - 1] EXCEPT !.message = NULL]
              ELSE t[k]]
      <3>1. holes # {}
        BY <1>8
      <3> HIDE DEF t
      <3> QED
        BY <1>6, <2>1, <3>1 DEF Compacted
    <2>4. ASSUME NEW k \in Slots, k < h
          PROVE  k # h /\ ~(k > h) /\ k # n - 1
      BY <1>1, <2>2, <2>4 DEF Slots
    <2> HIDE DEF t, holes
    <2> QED
      BY <2>2, <2>3, <2>4
  <1>9. CASE H = {}
    <2>1. last_error' = n
      BY <1>1, <1>2, <1>9, FS_EmptySet
    <2>2. error_table' = t /\ \A k \in Used : t[k] = error_table[k]
      BY <1>1, <1>4, <1>5, <1>7, <1>9
    <2>3. \A k \in Used : From(n, k) = k
      BY <1>1 DEF From
    <2>4. Used' = Used
      BY <2>1 DEF Used
    <2> HIDE DEF t
    <2>5. KeptFrom(n, fs)
      BY <1>1, <1>9, <2>1, <2>2, <2>3, <2>4 DEF KeptFrom, SameError
    <2> QED
      BY <1>1, <2>5
  <1>10. CASE H # {}
    <2>1. PICK h \in H : \A m \in H : h <= m
      <3>1. H \in SUBSET Nat
        BY <1>1
      <3> HIDE DEF H
      <3> QED
        BY <1>10, <3>1, Least
    <2>2. h \in Nat /\ h < n /\ h \in Used
      BY <1>1, <2>1
    <2>3. \A k \in Used \ H : k < h \/ k = n - 1
      <3>1. \A k \in Used \ H : h < k => k = n - 1
        BY <1>6, <2>1 DEF Ordered
      <3>2. \A k \in Used \ H : k # h /\ k \in Int
        BY <1>1, <2>1
      <3> HIDE DEF H
      <3> QED
        BY <2>2, <3>1, <3>2
    <2>4. \A k \in 0 .. h - 1 : k \in Used \ H /\ k < h /\ k \in Slots /\ k \in Nat
      BY <1>1, <2>1, <2>2
    <2>5. \A k \in 0 .. h - 1 : error_table'[k] = error_table[k]
      <3>1. CASE holes = {}
        BY <1>4, <1>7, <2>4, <3>1
      <3>2. CASE holes # {}
        <4>1. PICK m \in holes : TRUE
          BY <3>2
        <4>2. m \in H /\ m <= n - 2 /\ h <= m /\ m \in Int
          BY <1>5, <2>1, <4>1
        <4>3. h \in holes /\ \A k \in holes : h <= k
          BY <1>1, <1>5, <2>1, <2>2, <4>2
        <4> HIDE DEF holes, t, H
        <4> QED
          BY <1>4, <1>8, <2>4, <4>3
      <3> QED
        BY <3>1, <3>2
    <2>6. Cardinality(0 .. h - 1) = h /\ IsFiniteSet(0 .. h - 1)
      BY <2>2, FS_Interval
    <2>7. CASE n - 1 \in H
      <3>1. Used \ H = 0 .. h - 1
        BY <1>1, <2>2, <2>3, <2>4, <2>7
      <3>2. last_error' = h
        BY <1>3, <2>6, <3>1
      <3>3. Used' = 0 .. h - 1 /\ \A k \in 0 .. h - 1 : From(h, k) = k
        BY <2>4, <3>2 DEF Used, From
      <3> HIDE DEF H
      <3>4. KeptFrom(h, fs)
        BY <1>1, <2>2, <2>5, <3>1, <3>2, <3>3 DEF KeptFrom, SameError, H
      <3> QED
        BY <2>2, <3>4
    <2>8. CASE n - 1 \notin H
      <3>1. h <= n - 2 /\ n - 1 \in Used /\ n - 1 \notin 0 .. h - 1 /\ n - 1 \in Slots
        <4>1. h # n - 1
          BY <2>1, <2>8
        <4> QED
          BY <1>1, <2>2, <4>1
      <3>2. Used \ H = 0 .. h - 1 \cup {n - 1}
        <4>1. \A k \in Used \ H : k \in 0 .. h - 1 \/ k = n - 1
          BY <1>1, <2>2, <2>3
        <4> HIDE DEF H
        <4> QED
          BY <2>4, <2>8, <3>1, <4>1
      <3>3. last_error' = h + 1
        BY <1>3, <2>6, <3>1, <3>2, FS_AddElement
      <3>4. /\ Used' = 0 .. h /\ \A k \in 0 .. h - 1 : From(h, k) = k
            /\ From(h, h) = n - 1
            /\ \A k \in 0 .. h : k \in 0 .. h - 1 \/ k = h
            /\ 0 .. h - 1 \subseteq 0 .. h /\ h \in 0 .. h
        BY <2>2, <2>4, <3>3 DEF Used, From
      <3>5. h \in holes /\ \A m \in holes : h <= m
        BY <1>5, <2>1, <2>2, <3>1
      <3>6. error_table'[h] = [error_table[n - 1] EXCEPT !.prefix = NULL]
        <4> HIDE DEF holes, t, H
        <4> QED
          BY <1>4, <1>8, <2>8, <3>1, <3>5
      <3>7. SameError(error_table'[h], error_table[n - 1])
        BY <1>1, <3>1, <3>6 DEF Slot, SameError
      <3> HIDE DEF H
      <3>8. KeptFrom(h, fs)
        <4>1. last_error' <= last_error
          BY <1>1, <2>2, <3>1, <3>3
        <4>2. \A k \in Used' : /\ From(h, k) \in Used \ H
                               /\ SameError(error_table'[k], error_table[From(h, k)])
          BY <2>5, <3>2, <3>4, <3>7 DEF SameError
        <4>3. \A m \in Used \ H : \E k \in Used' : m = From(h, k)
          BY <3>2, <3>4
        <4> QED
          BY <3>3, <4>1, <4>2, <4>3 DEF KeptFrom, H
      <3> QED
        BY <2>2, <3>8
    <2> QED
      BY <2>7, <2>8
  <1> QED
    BY <1>9, <1>10

LEMMA FromInjective ==
  ASSUME IInv, NEW h \in Nat, NEW fs \in SUBSET Facilities, KeptFrom(h, fs)
  PROVE  /\ last_error' \in Nat
         /\ \A k, m \in Used' : k < m => From(h, k) < From(h, m)
  <1>1. PICK last \in Nat : last = last_error'
    BY DEF KeptFrom
  <1>2. /\ last_error \in Nat /\ last \in {h, h + 1} /\ last <= last_error
        /\ Used' = 0 .. last - 1
    BY <1>1, ErrorDbAssumption DEF IInv, TypeOK, WithinTable, KeptFrom, Used
  <1>3. \A k, m \in 0 .. last - 1 : k < m => From(h, k) < From(h, m)
    BY <1>2 DEF From
  <1> QED
    BY <1>1, <1>2, <1>3

LEMMA ClearCounts ==
  ASSUME IInv, CountInv, IInv', NEW fs \in SUBSET Facilities, ClearErrors(fs),
         Ordered(fs)
  PROVE  CountInv'
  <1>1. PICK h \in Nat : KeptFrom(h, fs)
    BY ClearKeeps
  <1> DEFINE K == Used \ Matching(fs)
             S == Severe(Used)'
             T == Severe(K)
             F == [k \in S |-> From(h, k)]
  <1>2. /\ \A k \in Used' : From(h, k) \in K /\ SameError(error_table'[k], error_table[From(h, k)])
        /\ \A m \in K : \E k \in Used' : m = From(h, k)
    BY <1>1 DEF KeptFrom
  <1>3. IsFiniteSet(S)
    <2>1. IsFiniteSet(Used')
      BY FS_Interval DEF Used, IInv, TypeOK
    <2> QED
      BY <2>1, FS_Subset DEF Severe
  <1>4. Cardinality(T) = Cardinality(S)
    <2>1. S = {k \in Used' : error_table'[k].fatal} /\ T = {k \in K : error_table[k].fatal}
      BY DEF Severe
    <2>2. F \in [S -> T]
      BY <1>2, <2>1 DEF SameError
    <2>3. \A k, m \in S : F[k] = F[m] => k = m
      <3>1. S \subseteq Used' /\ Used' \subseteq Int
        BY <2>1 DEF Used
      <3> HIDE DEF S
      <3>2. \A k \in S : From(h, k) \in Int
        BY <1>2, <3>1 DEF Used
      <3>3. \A k, m \in S : k < m => From(h, k) < From(h, m)
        BY <1>1, <3>1, FromInjective
      <3>4. ASSUME NEW k \in S, NEW m \in S, F[k] = F[m], k # m
            PROVE  FALSE
        <4>1. From(h, k) = From(h, m) /\ From(h, k) \in Int
          BY <3>2, <3>4
        <4>2. k < m \/ m < k
          BY <3>1, <3>4
        <4> QED
          BY <3>3, <4>1, <4>2
      <3> QED
        BY <3>4
    <2>4. \A m \in T : \E k \in S : F[k] = m
      BY <1>2, <2>1 DEF SameError
    <2>5. F \in Bijection(S, T)
      <3> HIDE DEF F, S, T
      <3> QED
        BY <2>2, <2>3, <2>4 DEF Bijection, Injection, Surjection, IsInjective
    <2> HIDE DEF S, T, F
    <2> QED
      BY <1>3, <2>5, FS_Bijection DEF ExistsBijection
  <1>5. fatal' = FatalIn(Used)'
    <2>1. Matching(fs) \in SUBSET Used
      BY DEF Matching
    <2>2. fatal' = FatalIn(K)
      BY <2>1, SevereFinite DEF ClearErrors, CountInv
    <2> HIDE DEF K
    <2> QED
      BY <1>4, <2>2 DEF FatalIn, Severe
  <1>6. \A k \in K : error_table[k].message # NULL /\ \E f \in Facilities : error_table[k].facility = {f}
    BY DEF CountInv
  <1> HIDE DEF K
  <1>7. \A k \in Used' : error_table'[k].message # NULL /\ \E f \in Facilities : error_table'[k].facility = {f}
    BY <1>2, <1>6 DEF SameError
  <1> QED
    BY <1>5, <1>7 DEF CountInv, NULL

LEMMA ClearLogged ==
  ASSUME IInv, CountInv, IInv', NEW fs \in SUBSET Facilities, ClearErrors(fs),
         Ordered(fs)
  PROVE  LET kept == {n \in DOMAIN errors : errors[n].facility \notin fs}
         IN  \E at \in [1 .. Log!Cardinality(kept) -> kept] :
               /\ \A m, n \in DOMAIN at : m < n => at[m] < at[n]
               /\ errors' = [n \in DOMAIN at |-> errors[at[n]]]
  <1>1. PICK h \in Nat : KeptFrom(h, fs)
    BY ClearKeeps
  <1>12. PICK last \in Nat : last = last_error'
    BY <1>1, FromInjective
  <1> DEFINE K == Used \ Matching(fs)
             kept == {n \in DOMAIN errors : errors[n].facility \notin fs}
             at == [m \in 1 .. last |-> From(h, m - 1) + 1]
  <1>2. /\ \A k \in Used' : From(h, k) \in K /\ SameError(error_table'[k], error_table[From(h, k)])
        /\ last_error \in Nat
    BY <1>1, ErrorDbAssumption DEF KeptFrom, IInv, TypeOK, WithinTable
  <1>3. kept = Shift(K, 1)
    <2>1. \A k \in Used : k \in K <=> Entry(k).facility \notin fs
      BY EntryOf DEF Matching
    <2>2. \A n \in 1 .. last_error : n - 1 \in Used /\ (n - 1) + 1 = n
      BY <1>2 DEF Used
    <2>3. \A k \in Used : k + 1 \in 1 .. last_error /\ (k + 1) - 1 = k
      BY <1>2 DEF Used
    <2>4. \A n \in 1 .. last_error : n \in kept <=> n - 1 \in K
      BY <2>1, <2>2, ErrorsType
    <2>5. kept \subseteq 1 .. last_error /\ K \subseteq Used
      BY ErrorsType
    <2> HIDE DEF kept, K
    <2> QED
      BY <2>2, <2>3, <2>4, <2>5 DEF Shift
  <1>4. Cardinality(kept) = last
    <2>1. K \in SUBSET Int /\ IsFiniteSet(K)
      BY SevereFinite, FS_Difference
    <2>2. Cardinality(K) = last
      <3>1. Matching(fs) \in SUBSET Used
        BY DEF Matching
      <3>2. Cardinality(K) = Cardinality(Used) - Cardinality(Used \cap Matching(fs))
        BY SevereFinite, FS_Difference
      <3>3. Used \cap Matching(fs) = Matching(fs)
        BY <3>1
      <3>4. /\ fatal' = fatal - FatalIn(Matching(fs))
            /\ non_fatal' = non_fatal - (Cardinality(Matching(fs)) - FatalIn(Matching(fs)))
            /\ last_error' = fatal' + non_fatal'
        BY DEF ClearErrors
      <3>5. /\ FatalIn(Matching(fs)) \in Nat /\ Cardinality(Matching(fs)) \in Nat
            /\ fatal \in Int /\ non_fatal \in Int /\ last_error = fatal + non_fatal
        BY <3>1, Counting DEF IInv, TypeOK, WithinTable
      <3>6. last = last_error - Cardinality(Matching(fs))
        BY <1>12, <3>4, <3>5
      <3> QED
        BY <3>2, <3>3, <3>6, SevereFinite
    <2> HIDE DEF K, kept
    <2> QED
      BY <1>3, <2>1, <2>2, ShiftCardinality
  <1>5. \A m \in 1 .. last : m - 1 \in Used' /\ m \in Int
    <2>1. Used' = 0 .. last - 1
      BY <1>12 DEF Used
    <2> QED
      BY <2>1
  <1>6. at \in [1 .. last -> kept]
    BY <1>2, <1>3, <1>5 DEF Shift
  <1>7. \A m, n \in 1 .. last : m < n => at[m] < at[n]
    <2>1. ASSUME NEW m \in 1 .. last, NEW n \in 1 .. last, m < n
          PROVE  at[m] < at[n]
      <3>1. From(h, m - 1) < From(h, n - 1)
        BY <1>1, <1>5, <2>1, FromInjective
      <3>2. From(h, m - 1) \in Int /\ From(h, n - 1) \in Int
        <4>1. From(h, m - 1) \in Used /\ From(h, n - 1) \in Used
          BY <1>2, <1>5, <2>1
        <4> QED
          BY <4>1 DEF Used
      <3> QED
        BY <3>1, <3>2
    <2> QED
      BY <2>1
  <1>8. errors' = [n \in 1 .. last |-> errors[at[n]]]
    <2>1. errors' = [n \in 1 .. last |-> Entry(n - 1)']
      BY <1>12 DEF errors
    <2>2. ASSUME NEW n \in 1 .. last
          PROVE  Entry(n - 1)' = errors[at[n]]
      <3>1. PICK m \in Used : m = From(h, n - 1)
        BY <1>2, <1>5
      <3>2. Entry(n - 1)' = Entry(m)
        BY <1>2, <1>5, <3>1 DEF Entry, SameError
      <3>3. at[n] = m + 1 /\ m + 1 \in 1 .. last_error /\ (m + 1) - 1 = m
        BY <1>2, <3>1 DEF Used
      <3> QED
        BY <3>2, <3>3, ErrorsType
    <2> HIDE DEF at
    <2> QED
      BY <2>1, <2>2
  <1>9. DOMAIN at = 1 .. last
    OBVIOUS
  <1>10. Log!Cardinality(kept) = last
    BY <1>4, LogCardinality
  <1> HIDE DEF at, kept
  <1>11. \E a \in [1 .. Log!Cardinality(kept) -> kept] :
           /\ \A m, n \in DOMAIN a : m < n => a[m] < a[n]
           /\ errors' = [n \in DOMAIN a |-> errors[a[n]]]
    BY <1>6, <1>7, <1>8, <1>9, <1>10
  <1> QED
    BY <1>11 DEF kept

-----------------------------------------------------------------------------
(* What a caller sees of the errors.                                       *)
Logged == <<errors, saved, [fatal |-> fatal, non_fatal |-> non_fatal]>>

LEMMA CountsRightNext == IInv' /\ CountInv' => Counted'
  BY CountsRight, PTL

LEMMA NextLogged ==
  ASSUME IInv, CountInv, [Next]_vars, orderly'
  PROVE  CountInv' /\ [Log!Next]_Logged
  <1>1. IInv'
    BY NextOK
  <1>2. CountInv' => [fatal |-> fatal, non_fatal |-> non_fatal]' = Log!Counts(errors')
    BY <1>1, CountsRightNext DEF Counted
  <1>3. ASSUME NEW f \in Facilities, NEW severe \in BOOLEAN, Save(f, severe)
        PROVE  CountInv' /\ Log!Save(f, severe)
    <2>1. CountInv'
      BY <1>3, SaveCounts
    <2> QED
      BY <1>2, <1>3, <2>1, SaveLogged DEF Log!Save, Save, errors
  <1>4. ASSUME NEW fs \in SUBSET Facilities, ClearErrors(fs)
        PROVE  CountInv' /\ Log!Clear(fs)
    <2>2. Ordered(fs)
      BY <1>4 DEF ClearErrors
    <2>1. CountInv'
      BY <1>1, <1>4, <2>2, ClearCounts
    <2> QED
      BY <1>1, <1>2, <1>4, <2>1, <2>2, ClearLogged DEF Log!Clear, ClearErrors, errors
  <1>5. CASE UNCHANGED <<error_table, counters, saved>>
    BY <1>5 DEF counters, Logged, errors, Entry, CountInv, Used, FatalIn
  <1>6. ASSUME NEW fs \in SUBSET Facilities, Modify(fs)
        PROVE  CountInv' /\ UNCHANGED Logged
    <2>1. PICK k \in Matching(fs) :
            error_table' = [error_table EXCEPT ![k].prefix = error_table[k].message]
      BY <1>6 DEF Modify
    <2>2. UNCHANGED <<counters, saved>> /\ Used \in SUBSET Slots /\ k \in Slots
          /\ error_table \in [Slots -> Slot]
      BY <1>6, ErrorDbAssumption
      DEF Modify, Matching, Used, Slots, IInv, TypeOK, WithinTable
    <2>3. \A m \in Slots : SameError(error_table'[m], error_table[m])
      BY <2>1, <2>2 DEF SameError, Slot
    <2>4. \A m \in Slots : Entry(m)' = Entry(m)
      BY <2>3 DEF Entry, SameError
    <2>5. errors' = errors
      <3>1. last_error' = last_error /\ last_error \in Nat
        BY <2>2, ErrorDbAssumption DEF counters, IInv, TypeOK, WithinTable
      <3>2. \A n \in 1 .. last_error : n - 1 \in Slots
        BY <2>2, <3>1 DEF Used
      <3> QED
        BY <2>4, <3>1, <3>2 DEF errors
    <2>6. UNCHANGED Logged
      BY <2>2, <2>5 DEF counters, Logged
    <2>7. Used' = Used
      BY <2>2 DEF counters, Used
    <2>8. {m \in Used : error_table[m].fatal}' = {m \in Used : error_table[m].fatal}
      BY <2>2, <2>3, <2>7 DEF SameError
    <2>9. CountInv'
      <3>1. fatal' = fatal /\ FatalIn(Used)' = FatalIn(Used)
        BY <2>2, <2>8 DEF counters, FatalIn
      <3>2. \A m \in Used : /\ error_table'[m].message = error_table[m].message
                            /\ error_table'[m].facility = error_table[m].facility
        BY <2>2, <2>3 DEF SameError
      <3> QED
        BY <2>7, <3>1, <3>2 DEF CountInv, NULL
    <2> QED
      BY <2>6, <2>9
  <1> QED
    BY <1>3, <1>4, <1>5, <1>6
    DEF Next, Operation, Clear, StartPrint, PrintSlot, EndLoop, EndPrint, Printing, vars, IInv,
        TypeOK, Log!Next

(* Once a clear was not Ordered, orderly is FALSE for good. *)
LEMMA OrderlyBefore ==
  ASSUME IInv, [Next]_vars, orderly'
  PROVE  orderly
  BY DEF Next, Operation, Save, Clear, Modify, ClearErrors, StartPrint, PrintSlot, EndLoop,
         EndPrint, vars, IInv, TypeOK

(* Up to the first clear that is not Ordered the table of slots with its   *)
(* counters is a bounded log: tms_clear_errors loses no other error and    *)
(* keeps none it should take out, tms_save_error drops the oldest one of a *)
(* full table, tms_get_error_count answers for the table.                  *)
THEOREM Implementation == Spec => Implements
  <1>1. Init => IInv /\ CountInv
    BY InitOK, FS_EmptySet DEF Init, CountInv, Used, FatalIn
  <1>2. Init => Log!Init
    <2>1. Init => errors = <<>> /\ IInv /\ CountInv
      BY <1>1 DEF Init, errors
    <2> QED
      BY <2>1, CountsRight DEF Counted, Init, Log!Init, errors
  <1>3. [Log!Next]_Logged <=> [Log!Next]_Log!vars
    BY DEF Logged, Log!vars, errors
  <1>4. IInv /\ (orderly => CountInv) /\ [Next]_vars =>
          /\ (IInv /\ (orderly => CountInv))'
          /\ [orderly' => Log!Next]_Log!vars
    <2> SUFFICES ASSUME IInv, orderly => CountInv, [Next]_vars
                 PROVE  /\ IInv' /\ (orderly' => CountInv')
                        /\ [orderly' => Log!Next]_Log!vars
      OBVIOUS
    <2>1. IInv'
      BY NextOK
    <2>2. CASE orderly'
      <3>1. CountInv
        BY <2>2, OrderlyBefore
      <3>2. CountInv' /\ [Log!Next]_Log!vars
        BY <1>3, <2>2, <3>1, NextLogged
      <3> QED
        BY <2>1, <3>2
    <2>3. CASE ~orderly'
      BY <2>1, <2>3
    <2> QED
      BY <2>2, <2>3
  <1> QED
    BY <1>1, <1>2, <1>4, PTL DEF Spec, Implements
=============================================================================
