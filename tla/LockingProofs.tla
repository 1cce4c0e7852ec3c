---------------------------- MODULE LockingProofs ----------------------------
(***************************************************************************)
(* Proofs about module Locking, for any number of threads, calls and       *)
(* nested calls.  What a thread has left to do is given an outline: what   *)
(* it holds before and after each instruction.  Outlines of the parts of a *)
(* script put together are one of the script, so that each function of the *)
(* library is looked at once, and the invariant is that every thread has   *)
(* an outline that begins with what it holds.                              *)
(***************************************************************************)
EXTENDS Locking, SequenceTheorems,
        NaturalsInduction, WellFoundedInduction, TLAPS

(* A set of numbers has a least one. *)
LEMMA Least ==
  ASSUME NEW S \in SUBSET Nat, S # {}
  PROVE  \E n \in S : \A k \in S : n <= k
<1> DEFINE R == {ss \in Nat \X Nat : ss[1] < ss[2]}
<1>1. IsWellFoundedOn(R, Nat)
  BY NatLessThanWellFounded DEF OpToRel
<1>2. \E x \in S : \A y \in S : <<y, x>> \notin R
  <2> HIDE DEF R
  <2> QED BY <1>1, WFMin
<1>3. PICK x \in S : \A y \in S : <<y, x>> \notin R
  BY <1>2
<1>4. ASSUME NEW k \in S PROVE x <= k
  <2>1. <<k, x>> \notin R
    BY <1>3
  <2>2. ~(k < x)
    BY <2>1
  <2> QED BY <2>2
<1> QED BY <1>4

(* Without these no call locks a mutex of its own: run locking_floats      *)
(* shows what both conversions do together, and a refused mask size leaves *)
(* the evaluator locked.                                                   *)
Live == /\ "wmask_refused" \notin Calls
        /\ ~({"float", "float32"} \subseteq Nested)

(* A point of an outline: the mutexes held, whether a mask is in use one   *)
(* time, and whether the thread is stuck at a mutex it holds itself.       *)
Point == [held : SUBSET Mutexes, one : BOOLEAN, stuck : BOOLEAN]
At(h, z) == [held |-> h, one |-> z, stuck |-> FALSE]

RealMutexes == {"parser", "variables", "ufunc", "evaluator"}
IntMutexes == {"int_parser", "int_variables", "int_ufunc", "int_evaluator"}

(* The order in which locks are taken.  Which of the two number systems    *)
(* comes first depends on which evaluator calls into the other.            *)
Rank(m) == (IF m \in IntMutexes <=> "float" \in Nested THEN 0 ELSE 4)
             + (IF m \in {"parser", "int_parser"} THEN 1
                ELSE IF m \in {"variables", "int_variables"} THEN 2
                ELSE IF m \in {"evaluator", "int_evaluator"} THEN 3 ELSE 4)
Below(H, R) == \A h \in H, m \in R : Rank(h) < Rank(m)

LEMMA Ranks ==
  /\ \A m \in Mutexes : Rank(m) \in 1 .. 8
  /\ "float" \in Nested => Below(IntMutexes, RealMutexes)
  /\ "float" \notin Nested => Below(RealMutexes, IntMutexes)
BY DEF Rank, Below, Mutexes, IntMutexes, RealMutexes

LEMMA BelowDisjoint ==
  ASSUME NEW H \in SUBSET Mutexes, NEW R \in SUBSET Mutexes, Below(H, R)
  PROVE  H \cap R = {}
BY Ranks DEF Below

(* What calls touch, the mutex of each, and what guards the mask; w are    *)
(* the data a call may touch without.                                      *)
Data == Mutexes \cup {"mask"}
Guard(x) == IF x = "mask" THEN "int_ufunc" ELSE x
Guarded(ins, h, w) == ins.do \in {"read", "write"} => ins.on \in w \/ Guard(ins.on) \in h
Masked == {"int_evaluator", "int_ufunc"}

(* What an evaluation needs, for itself and for what it may call to run. *)
Evaluable(k, p) ==
  /\ Ufunc[k] \in p.held
  /\ k = "int" => Masked \subseteq p.held
  /\ Live /\ k = "int" /\ "float" \in Nested => Below(p.held, RealMutexes)
  /\ Live /\ k = "real" /\ "float32" \in Nested => Below(p.held, IntMutexes) /\ ~p.one

Advance(ins, p, q) ==
  \/ ins.do = "lock" /\ ins.on \in p.held /\ ~Live /\ q.stuck
  \/ /\ ins.do = "lock" /\ ins.on \notin p.held /\ (Live => Below(p.held, {ins.on}))
     /\ q = At(p.held \cup {ins.on}, p.one)
  \/ /\ ins.do = "unlock" /\ ins.on \in p.held
     /\ ~(p.one /\ ins.on \in Masked)
     /\ q = At(p.held \ {ins.on}, p.one)
  \/ ins.do \in {"read", "write"} /\ q = p
  \/ ins.do = "evaluate" /\ Evaluable(ins.on, p) /\ q = p
  \/ ins.do = "set_mask" /\ ~p.one /\ Masked \subseteq p.held /\ q = p
  \/ ins.do = "enter_mask" /\ ~p.one /\ Masked \subseteq p.held /\ q = At(p.held, TRUE)
  \/ ins.do = "leave_mask" /\ p.one /\ Masked \subseteq p.held /\ q = At(p.held, FALSE)

Moves(ins, p, q, w) == \/ p.stuck /\ q.stuck
                       \/ ~p.stuck /\ Guarded(ins, p.held, w) /\ Advance(ins, p, q)

(* s leads from p to q or gets stuck; all accesses but to w are guarded.   *)
Outlines(s, p, q, w, A) ==
  /\ A \in [1 .. Len(s) + 1 -> Point]
  /\ A[1] = p
  /\ A[Len(s) + 1] = q \/ A[Len(s) + 1].stuck
  /\ \A i \in 1 .. Len(s) : Moves(s[i], A[i], A[i + 1], w)

Outline(s, p, q, w) == s \in Seq(Instruction) /\ \E A : Outlines(s, p, q, w, A)

-----------------------------------------------------------------------------
(* Outlines of no instruction, of one, and of two parts. *)
LEMMA OutlineEmpty ==
  ASSUME NEW p \in Point, NEW w \in SUBSET Data
  PROVE  Outline(<<>>, p, p, w)
<1>1. Outlines(<<>>, p, p, w, [i \in 1 .. 1 |-> p])
  BY DEF Outlines
<1> QED BY <1>1, Len(<<>>) = 0 DEF Outline

LEMMA OutlineOne ==
  ASSUME NEW ins \in Instruction, NEW p \in Point, NEW q \in Point, NEW w \in SUBSET Data,
         Moves(ins, p, q, w)
  PROVE  Outline(<<ins>>, p, q, w)
<1> DEFINE A == [i \in 1 .. 2 |-> IF i = 1 THEN p ELSE q]
<1>1. Outlines(<<ins>>, p, q, w, A)
  BY Len(<<ins>>) = 1, <<ins>>[1] = ins DEF Outlines
<1>2. <<ins>> \in Seq(Instruction)
  OBVIOUS
<1> QED BY <1>1, <1>2 DEF Outline

LEMMA OutlineConcat ==
  ASSUME NEW s, NEW t, NEW p, NEW q \in Point, NEW r \in Point, NEW w \in SUBSET Data,
         ~p.stuck, Outline(s, p, q, w), Outline(t, q, r, w)
  PROVE  Outline(s \o t, p, r, w)
<1>1. s \in Seq(Instruction) /\ t \in Seq(Instruction)
  BY DEF Outline
<1>2. PICK A : Outlines(s, p, q, w, A)
  BY DEF Outline
<1>3. PICK B : Outlines(t, q, r, w, B)
  BY DEF Outline
<1>4. /\ s \o t \in Seq(Instruction) /\ Len(s \o t) = Len(s) + Len(t)
      /\ Len(s) \in Nat /\ Len(t) \in Nat
      /\ \A i \in 1 .. Len(s) : (s \o t)[i] = s[i]
      /\ \A i \in Len(s) + 1 .. Len(s) + Len(t) : (s \o t)[i] = t[i - Len(s)]
  BY <1>1, ConcatProperties
<1> DEFINE n == Len(s)
           m == Len(t)
           C == [i \in 1 .. n + m + 1 |->
                   IF i <= n THEN A[i]
                   ELSE IF A[n + 1].stuck THEN [q EXCEPT !.stuck = TRUE]
                   ELSE B[i - n]]
<1>5. C \in [1 .. Len(s \o t) + 1 -> Point] 
  <2> SUFFICES ASSUME NEW i \in 1 .. n + m + 1 PROVE C[i] \in Point
    BY <1>4
  <2>1. [q EXCEPT !.stuck = TRUE] \in Point
    BY DEF Point
  <2> QED BY <2>1, <1>2, <1>3, <1>4 DEF Outlines
<1>6. A[n + 1].stuck \/ B[1] = A[n + 1]
  BY <1>2, <1>3 DEF Outlines
<1>7. ASSUME NEW i \in 1 .. n + m
      PROVE  Moves((s \o t)[i], C[i], C[i + 1], w)
  <2>1. CASE i < n
    BY <2>1, <1>2, <1>4 DEF Outlines
  <2>2. CASE i = n
    <3>1. Moves(s[n], A[n], A[n + 1], w)
      BY <2>2, <1>2, <1>4 DEF Outlines
    <3>2. C[n] = A[n] /\ (s \o t)[i] = s[n]
      BY <2>2, <1>4
    <3>3. CASE ~A[n + 1].stuck
      <4>1. C[n + 1] = A[n + 1]
        BY <3>3, <1>6, <1>4
      <4> QED BY <3>1, <3>2, <4>1, <2>2
    <3>4. CASE A[n + 1].stuck
      <4>1. C[n + 1].stuck
        BY <3>4, <1>4 DEF Point
      <4>2. A[n + 1] \in Point
        BY <1>2, <1>4 DEF Outlines
      <4> QED BY <3>1, <3>2, <3>4, <4>1, <4>2, <2>2 DEF Moves, Advance, At, Point
    <3> QED BY <3>3, <3>4
  <2>3. CASE i > n
    <3>1. CASE A[n + 1].stuck
      BY <3>1, <2>3, <1>4 DEF Moves, Point
    <3>2. CASE ~A[n + 1].stuck
      <4>3. i - n \in 1 .. Len(t)
        BY <2>3, <1>4
      <4>1. Moves(t[i - n], B[i - n], B[i - n + 1], w)
        BY <4>3, <1>3 DEF Outlines
      <4>2. C[i] = B[i - n] /\ C[i + 1] = B[i + 1 - n] /\ (s \o t)[i] = t[i - n]
        BY <3>2, <2>3, <1>4
      <4> QED BY <4>1, <4>2, <1>4
    <3> QED BY <3>1, <3>2
  <2> QED BY <2>1, <2>2, <2>3, <1>4
<1>8. C[1] = p
  <2>1. A[1] = p
    BY <1>2 DEF Outlines
  <2>2. CASE n = 0
    <3>1. A[n + 1] = p
      BY <2>1, <2>2
    <3>2. B[1] = p
      BY <3>1, <1>6
    <3>3. C[1] = B[1 - n]
      BY <3>1, <2>2, <1>4
    <3> QED BY <2>2, <3>2, <3>3
  <2>3. CASE n > 0
    BY <2>1, <2>3, <1>4
  <2> QED BY <2>2, <2>3, <1>4
<1>9. C[n + m + 1] = r \/ C[n + m + 1].stuck
  BY <1>3, <1>4 DEF Outlines, Point
<1> HIDE DEF C
<1>10. Outlines(s \o t, p, r, w, C)
  BY <1>4, <1>5, <1>7, <1>8, <1>9 DEF Outlines
<1> QED BY <1>4, <1>10 DEF Outline

(* What is left of an outline once its first instruction is done. *)
LEMMA OutlineTail ==
  ASSUME NEW s, NEW p \in Point, NEW q \in Point, NEW w \in SUBSET Data,
         s # <<>>, ~p.stuck, Outline(s, p, q, w)
  PROVE  /\ s \in Seq(Instruction) /\ Head(s) \in Instruction /\ Tail(s) \in Seq(Instruction)
         /\ Len(s) = Len(Tail(s)) + 1
         /\ Guarded(Head(s), p.held, w)
         /\ \E r \in Point : Advance(Head(s), p, r) /\ (r.stuck \/ Outline(Tail(s), r, q, w))
<1>1. s \in Seq(Instruction)
  BY DEF Outline
<1>2. /\ Head(s) \in Instruction /\ Tail(s) \in Seq(Instruction)
      /\ Len(s) = Len(Tail(s)) + 1 /\ Len(Tail(s)) \in Nat
      /\ Head(s) = s[1] /\ \A i \in 1 .. Len(Tail(s)) : Tail(s)[i] = s[i + 1]
  BY <1>1, HeadTailProperties
<1>3. PICK A : Outlines(s, p, q, w, A)
  BY DEF Outline
<1> DEFINE B == [i \in 1 .. Len(Tail(s)) + 1 |-> A[i + 1]]
<1>4. Moves(Head(s), p, A[2], w) /\ A[2] \in Point
  BY <1>2, <1>3 DEF Outlines
<1>5. Outlines(Tail(s), A[2], q, w, B)
  <2>1. B \in [1 .. Len(Tail(s)) + 1 -> Point] /\ B[1] = A[2]
    BY <1>2, <1>3 DEF Outlines
  <2>2. B[Len(Tail(s)) + 1] = q \/ B[Len(Tail(s)) + 1].stuck
    BY <1>2, <1>3 DEF Outlines
  <2>3. ASSUME NEW i \in 1 .. Len(Tail(s))
        PROVE  Moves(Tail(s)[i], B[i], B[i + 1], w)
    <3>1. Moves(s[i + 1], A[i + 1], A[i + 1 + 1], w)
      BY <1>2, <1>3 DEF Outlines
    <3> QED BY <3>1, <1>2
  <2> QED BY <2>1, <2>2, <2>3 DEF Outlines
<1>6. Outline(Tail(s), A[2], q, w)
  BY <1>2, <1>5 DEF Outline
<1> QED BY <1>1, <1>2, <1>4, <1>6 DEF Moves

LEMMA OutlineUnguarded ==
  ASSUME NEW s, NEW p, NEW q, NEW w, NEW v, w \subseteq v, Outline(s, p, q, w)
  PROVE  Outline(s, p, q, v)
<1>1. PICK A : Outlines(s, p, q, w, A)
  BY DEF Outline
<1>2. Outlines(s, p, q, v, A)
  BY <1>1 DEF Outlines, Moves, Guarded
<1> QED BY <1>2 DEF Outline

-----------------------------------------------------------------------------
(* Taking and releasing mutexes. *)
Of(ms) == {ms[i] : i \in 1 .. Len(ms)}
Ordered(ms) == /\ ms \in Seq(Mutexes)
               /\ \A i, j \in 1 .. Len(ms) : i < j => Rank(ms[i]) < Rank(ms[j])
Stuck(p) == [p EXCEPT !.stuck = TRUE]

LEMMA OutlineStuck ==
  ASSUME NEW s \in Seq(Instruction), NEW p \in Point, NEW q \in Point, NEW w \in SUBSET Data, p.stuck
  PROVE  Outline(s, p, q, w)
<1>1. Outlines(s, p, q, w, [i \in 1 .. Len(s) + 1 |-> p])
  BY DEF Outlines, Moves
<1> QED BY <1>1 DEF Outline

LEMMA LocksTyped ==
  ASSUME NEW ms \in Seq(Mutexes)
  PROVE  /\ Lock(ms) \in Seq(Instruction) /\ Len(Lock(ms)) = Len(ms) /\ Len(ms) \in Nat
         /\ Unlock(ms) \in Seq(Instruction) /\ Len(Unlock(ms)) = Len(ms)
         /\ \A i \in 1 .. Len(ms) : /\ ms[i] \in Mutexes
                                    /\ Lock(ms)[i] = [do |-> "lock", on |-> ms[i]]
                                    /\ Unlock(ms)[i] = [do |-> "unlock", on |-> ms[i]]
<1>1. Len(ms) \in Nat /\ \A i \in 1 .. Len(ms) : ms[i] \in Mutexes
  OBVIOUS
<1>2. /\ Lock(ms) \in [1 .. Len(ms) -> Instruction]
      /\ Unlock(ms) \in [1 .. Len(ms) -> Instruction]
  BY <1>1 DEF Lock, Unlock, Instruction
<1>3. /\ Lock(ms) \in Seq(Instruction) /\ Len(Lock(ms)) = Len(ms)
      /\ Unlock(ms) \in Seq(Instruction) /\ Len(Unlock(ms)) = Len(ms)
  BY <1>1, <1>2, IsASeq, LenProperties
<1> QED BY <1>1, <1>3 DEF Lock, Unlock

LEMMA OutlineLock ==
  ASSUME NEW ms, Ordered(ms), NEW p \in Point, NEW w \in SUBSET Data, ~p.stuck,
         Live => Below(p.held, Of(ms))
  PROVE  /\ p.held \cap Of(ms) = {} => Outline(Lock(ms), p, At(p.held \cup Of(ms), p.one), w)
         /\ p.held \cap Of(ms) # {} => Outline(Lock(ms), p, Stuck(p), w)
<1> DEFINE n == Len(ms)
           before(i) == {ms[j] : j \in 1 .. i - 1}
           A == [i \in 1 .. n + 1 |-> IF p.held \cap before(i) = {}
                                     THEN At(p.held \cup before(i), p.one)
                                     ELSE Stuck(p)]
<1>1. /\ ms \in Seq(Mutexes) /\ n \in Nat
      /\ \A i \in 1 .. n : ms[i] \in Mutexes
  BY DEF Ordered
<1>11. \A i, j \in 1 .. n : ms[i] = ms[j] => i = j
  <2>1. \A i \in 1 .. n : Rank(ms[i]) \in Nat
    BY <1>1, Ranks
  <2>2. ASSUME NEW i \in 1 .. n, NEW j \in 1 .. n, ms[i] = ms[j], i < j PROVE FALSE
    BY <2>1, <2>2 DEF Ordered
  <2> QED BY <1>1, <2>2
<1>2. A \in [1 .. n + 1 -> Point]
  <2> SUFFICES ASSUME NEW i \in 1 .. n + 1 PROVE A[i] \in Point
    OBVIOUS
  <2>1. before(i) \subseteq Mutexes
    BY <1>1
  <2> HIDE DEF before
  <2> QED BY <2>1 DEF Point, At, Stuck
<1>3. ASSUME NEW i \in 1 .. n
      PROVE  Moves(Lock(ms)[i], A[i], A[i + 1], w)
  <2>1. before(i + 1) = before(i) \cup {ms[i]} /\ ms[i] \notin before(i)
    BY <1>1, <1>11
  <2>2. Lock(ms)[i] = [do |-> "lock", on |-> ms[i]]
    BY <1>1, LocksTyped
  <2>3. ms[i] \in Of(ms) /\ before(i) \subseteq Of(ms)
    BY <1>1 DEF Of
  <2>5. \A h \in before(i) : Rank(h) < Rank(ms[i])
    BY <1>1 DEF Ordered
  <2>4. /\ A[i] = IF p.held \cap before(i) = {}
                  THEN At(p.held \cup before(i), p.one) ELSE Stuck(p)
        /\ A[i + 1] = IF p.held \cap before(i + 1) = {}
                      THEN At(p.held \cup before(i + 1), p.one) ELSE Stuck(p)
    BY <1>1
  <2> HIDE DEF before, A
  <2>6. CASE p.held \cap before(i) # {}
    <3>1. A[i].stuck /\ A[i + 1].stuck
      BY <2>1, <2>4, <2>6 DEF Stuck, Point
    <3> QED BY <3>1 DEF Moves
  <2>7. CASE p.held \cap before(i) = {} /\ ms[i] \in p.held
    <3>1. A[i] = At(p.held \cup before(i), p.one) /\ A[i + 1].stuck
      BY <2>1, <2>4, <2>7 DEF Stuck, Point
    <3>2. ~Live
      BY <1>1, <2>3, <2>7, Ranks DEF Below
    <3> QED BY <3>1, <3>2, <2>2, <2>7 DEF Moves, Advance, At, Guarded
  <2>8. CASE p.held \cap before(i) = {} /\ ms[i] \notin p.held
    <3>1. /\ A[i] = At(p.held \cup before(i), p.one)
          /\ A[i + 1] = At((p.held \cup before(i)) \cup {ms[i]}, p.one)
      BY <2>1, <2>4, <2>8
    <3>2. Live => Below(p.held \cup before(i), {ms[i]})
      BY <2>3, <2>5 DEF Below
    <3> QED BY <3>1, <3>2, <2>1, <2>2, <2>8 DEF Moves, Advance, At, Guarded
  <2> QED BY <2>6, <2>7, <2>8
<1>4. before(1) = {} /\ before(n + 1) = Of(ms)
  BY <1>1 DEF Of
<1>5. A[1] = p
  <2>1. A[1] = At(p.held \cup {}, p.one)
    BY <1>1, <1>4
  <2> HIDE DEF A
  <2> QED BY <2>1 DEF At, Point
<1>6. A[n + 1] = IF p.held \cap Of(ms) = {} THEN At(p.held \cup Of(ms), p.one) ELSE Stuck(p)
  BY <1>1, <1>4
<1> HIDE DEF A
<1>7. Lock(ms) \in Seq(Instruction) /\ Len(Lock(ms)) = n
  BY <1>1, LocksTyped
<1>8. CASE p.held \cap Of(ms) = {}
  <2>1. Outlines(Lock(ms), p, At(p.held \cup Of(ms), p.one), w, A)
    BY <1>2, <1>3, <1>5, <1>6, <1>7, <1>8 DEF Outlines
  <2> QED BY <2>1, <1>7, <1>8 DEF Outline
<1>9. CASE p.held \cap Of(ms) # {}
  <2>1. Outlines(Lock(ms), p, Stuck(p), w, A)
    BY <1>2, <1>3, <1>5, <1>6, <1>7, <1>9 DEF Outlines
  <2> QED BY <2>1, <1>7, <1>9 DEF Outline
<1> QED BY <1>8, <1>9

LEMMA OutlineUnlock ==
  ASSUME NEW ms, Ordered(ms), NEW p \in Point, NEW w \in SUBSET Data, ~p.stuck,
         Of(ms) \subseteq p.held, p.one => Masked \cap Of(ms) = {}
  PROVE  Outline(Unlock(ms), p, At(p.held \ Of(ms), p.one), w)
<1> DEFINE n == Len(ms)
           before(i) == {ms[j] : j \in 1 .. i - 1}
           A == [i \in 1 .. n + 1 |-> At(p.held \ before(i), p.one)]
<1>1. /\ ms \in Seq(Mutexes) /\ n \in Nat
      /\ \A i \in 1 .. n : ms[i] \in Mutexes
  BY DEF Ordered
<1>11. \A i, j \in 1 .. n : ms[i] = ms[j] => i = j
  <2>1. \A i \in 1 .. n : Rank(ms[i]) \in Nat
    BY <1>1, Ranks
  <2>2. ASSUME NEW i \in 1 .. n, NEW j \in 1 .. n, ms[i] = ms[j], i < j PROVE FALSE
    BY <2>1, <2>2 DEF Ordered
  <2> QED BY <1>1, <2>2
<1>2. A \in [1 .. n + 1 -> Point]
  BY DEF Point, At
<1>3. ASSUME NEW i \in 1 .. n
      PROVE  Moves(Unlock(ms)[i], A[i], A[i + 1], w)
  <2>1. before(i + 1) = before(i) \cup {ms[i]} /\ ms[i] \notin before(i)
    BY <1>1, <1>11
  <2>2. Unlock(ms)[i] = [do |-> "unlock", on |-> ms[i]]
    BY <1>1, LocksTyped
  <2>3. ms[i] \in Of(ms)
    BY <1>1 DEF Of
  <2>4. A[i] = At(p.held \ before(i), p.one) /\ A[i + 1] = At(p.held \ before(i + 1), p.one)
    BY <1>1
  <2> HIDE DEF before, A
  <2>5. A[i + 1] = At((p.held \ before(i)) \ {ms[i]}, p.one)
    BY <2>1, <2>4
  <2> QED BY <2>1, <2>2, <2>3, <2>4, <2>5 DEF Moves, Advance, At, Guarded
<1>4. before(1) = {} /\ before(n + 1) = Of(ms)
  BY <1>1 DEF Of
<1>5. A[1] = p
  <2>1. p.held \ before(1) = p.held
    BY <1>4
  <2>2. A[1] = At(p.held \ before(1), p.one)
    BY <1>1
  <2> HIDE DEF A, before
  <2> QED BY <2>1, <2>2 DEF At, Point
<1>6. A[n + 1] = At(p.held \ Of(ms), p.one)
  BY <1>1, <1>4
<1> HIDE DEF A
<1>7. Unlock(ms) \in Seq(Instruction) /\ Len(Unlock(ms)) = n
  BY <1>1, LocksTyped
<1>8. Outlines(Unlock(ms), p, At(p.held \ Of(ms), p.one), w, A)
  BY <1>2, <1>3, <1>5, <1>6, <1>7 DEF Outlines
<1> QED BY <1>7, <1>8 DEF Outline

-----------------------------------------------------------------------------
(* Scripts: instructions that have an outline and take every mask they put *)
(* in use out of use.                                                      *)
Paired(s) == \A i \in 1 .. Len(s) :
               s[i].do = "enter_mask" =>
                 \E j \in i + 1 .. Len(s) : s[j] = [do |-> "leave_mask", on |-> s[i].on]

Script(s, p, q, w) == Outline(s, p, q, w) /\ Paired(s) /\ s # <<>>

LEMMA PairedConcat ==
  ASSUME NEW s \in Seq(Instruction), NEW t \in Seq(Instruction), Paired(s), Paired(t)
  PROVE  Paired(s \o t)
<1>1. /\ Len(s \o t) = Len(s) + Len(t) /\ Len(s) \in Nat /\ Len(t) \in Nat
      /\ \A i \in 1 .. Len(s) : (s \o t)[i] = s[i]
      /\ \A i \in Len(s) + 1 .. Len(s) + Len(t) : (s \o t)[i] = t[i - Len(s)]
  BY ConcatProperties
<1> SUFFICES ASSUME NEW i \in 1 .. Len(s) + Len(t), (s \o t)[i].do = "enter_mask"
             PROVE  \E j \in i + 1 .. Len(s) + Len(t) :
                      (s \o t)[j] = [do |-> "leave_mask", on |-> (s \o t)[i].on]
  BY <1>1 DEF Paired
<1>2. CASE i <= Len(s)
  <2>1. s[i] = (s \o t)[i] /\ i \in 1 .. Len(s)
    BY <1>1, <1>2
  <2>2. PICK j \in i + 1 .. Len(s) : s[j] = [do |-> "leave_mask", on |-> s[i].on]
    BY <2>1 DEF Paired
  <2>3. j \in i + 1 .. Len(s) + Len(t) /\ (s \o t)[j] = s[j]
    BY <1>1, <2>2
  <2> QED BY <2>1, <2>2, <2>3
<1>3. CASE i > Len(s)
  <2>1. t[i - Len(s)] = (s \o t)[i] /\ i - Len(s) \in 1 .. Len(t)
    BY <1>1, <1>3
  <2>2. PICK j \in (i - Len(s)) + 1 .. Len(t) :
               t[j] = [do |-> "leave_mask", on |-> t[i - Len(s)].on]
    BY <2>1 DEF Paired
  <2>3. /\ j + Len(s) \in i + 1 .. Len(s) + Len(t)
        /\ (s \o t)[j + Len(s)] = t[(j + Len(s)) - Len(s)]
        /\ (j + Len(s)) - Len(s) = j
    BY <1>1, <2>1, <2>2
  <2> QED BY <2>1, <2>2, <2>3
<1> QED BY <1>1, <1>2, <1>3

LEMMA ScriptConcat ==
  ASSUME NEW s, NEW t, NEW p \in Point, NEW q \in Point, NEW r \in Point, NEW w \in SUBSET Data,
         ~p.stuck, Script(s, p, q, w), Script(t, q, r, w)
  PROVE  Script(s \o t, p, r, w)
<1>1. s \in Seq(Instruction) /\ t \in Seq(Instruction)
  BY DEF Script, Outline
<1>2. Outline(s \o t, p, r, w)
  BY OutlineConcat DEF Script
<1>3. Paired(s \o t)
  BY <1>1, PairedConcat DEF Script
<1>4. s \o t # <<>>
  BY <1>1, ConcatEqualIffEmpty DEF Script
<1> QED BY <1>2, <1>3, <1>4 DEF Script

LEMMA ScriptDo ==
  ASSUME NEW op, NEW x, [do |-> op, on |-> x] \in Instruction, op # "enter_mask",
         NEW p \in Point, NEW q \in Point, NEW w \in SUBSET Data,
         Moves([do |-> op, on |-> x], p, q, w)
  PROVE  Script(Do(op, x), p, q, w)
<1>1. Outline(Do(op, x), p, q, w)
  BY OutlineOne DEF Do
<1>2. Len(Do(op, x)) = 1 /\ Do(op, x)[1].do = op /\ Do(op, x) # <<>>
  BY DEF Do
<1> QED BY <1>1, <1>2 DEF Script, Paired

(* What runs between the locking and the unlocking of ms. *)
LEMMA ScriptBracket ==
  ASSUME NEW ms, Ordered(ms), ms # <<>>, NEW p \in Point, NEW w \in SUBSET Data, ~p.stuck,
         Live => Below(p.held, Of(ms)), p.one => Masked \subseteq p.held,
         NEW body \in Seq(Instruction), Paired(body),
         p.held \cap Of(ms) = {} =>
           Outline(body, At(p.held \cup Of(ms), p.one), At(p.held \cup Of(ms), p.one), w)
  PROVE  Script(Lock(ms) \o body \o Unlock(ms), p, p, w)
<1>1. /\ ms \in Seq(Mutexes) /\ Of(ms) \subseteq Mutexes
      /\ Lock(ms) \in Seq(Instruction) /\ Unlock(ms) \in Seq(Instruction)
  BY LocksTyped DEF Ordered, Of
<1>2. Paired(Lock(ms)) /\ Paired(Unlock(ms))
  <2>1. ASSUME NEW i \in 1 .. Len(ms)
        PROVE  Lock(ms)[i].do = "lock" /\ Unlock(ms)[i].do = "unlock"
    <3>1. /\ Lock(ms)[i] = [do |-> "lock", on |-> ms[i]]
          /\ Unlock(ms)[i] = [do |-> "unlock", on |-> ms[i]]
      BY <1>1, LocksTyped
    <3> QED BY <3>1
  <2>2. Len(Lock(ms)) = Len(ms) /\ Len(Unlock(ms)) = Len(ms)
    BY <1>1, LocksTyped
  <2> QED BY <2>1, <2>2 DEF Paired
<1>3. Paired(Lock(ms) \o body \o Unlock(ms)) /\ Lock(ms) \o body \in Seq(Instruction)
  BY <1>1, <1>2, PairedConcat, ConcatProperties
<1>6. Lock(ms) \o body \o Unlock(ms) # <<>>
  <2>1. Lock(ms) # <<>>
    BY <1>1, LocksTyped, EmptySeq
  <2>2. Lock(ms) \o body # <<>>
    BY <1>1, <2>1, ConcatEqualIffEmpty
  <2> QED BY <1>1, <1>3, <2>2, ConcatEqualIffEmpty
<1> DEFINE q == At(p.held \cup Of(ms), p.one)
<1>4. CASE p.held \cap Of(ms) = {}
  <2>1. q \in Point /\ ~q.stuck /\ q.held = p.held \cup Of(ms) /\ q.one = p.one
    BY <1>1 DEF Point, At
  <2>2. Outline(Lock(ms), p, q, w) /\ Outline(body, q, q, w)
    BY <1>4, OutlineLock
  <2>3. Outline(Unlock(ms), q, At(q.held \ Of(ms), q.one), w)
    <3> HIDE DEF q
    <3>1. q.one => Masked \cap Of(ms) = {}
      BY <1>4, <2>1
    <3> QED BY <2>1, <3>1, OutlineUnlock
  <2>4. At(q.held \ Of(ms), q.one) = p
    <3>1. q.held \ Of(ms) = p.held
      BY <1>4, <2>1
    <3> QED BY <2>1, <3>1 DEF At, Point
  <2>5. Outline(Unlock(ms), q, p, w)
    BY <2>3, <2>4
  <2> HIDE DEF q
  <2>6. Outline(Lock(ms) \o body, p, q, w)
    BY <2>1, <2>2, OutlineConcat
  <2>7. Outline(Lock(ms) \o body \o Unlock(ms), p, p, w)
    BY <2>1, <2>5, <2>6, OutlineConcat
  <2> QED BY <1>3, <1>6, <2>7 DEF Script
<1>5. CASE p.held \cap Of(ms) # {}
  <2>1. Stuck(p) \in Point /\ Stuck(p).stuck
    BY DEF Stuck, Point
  <2>2. Outline(Lock(ms), p, Stuck(p), w)
    BY <1>5, OutlineLock
  <2>3. Outline(Lock(ms) \o body, p, Stuck(p), w)
    BY <2>1, <2>2, OutlineStuck, OutlineConcat
  <2>4. Outline(Unlock(ms), Stuck(p), p, w)
    BY <1>1, <2>1, OutlineStuck
  <2>5. Outline(Lock(ms) \o body \o Unlock(ms), p, p, w)
    BY <2>1, <2>3, <2>4, OutlineConcat
  <2> QED BY <1>3, <1>6, <2>5 DEF Script
<1> QED BY <1>4, <1>5

-----------------------------------------------------------------------------
(* The parts of the scripts of the library. *)
Kinds == {"real", "int"}

(* A point at which a call may begin or go on, free to take the mutexes R. *)
Ready(p, R) == /\ ~p.stuck
               /\ p.one => Masked \subseteq p.held
               /\ Live => Below(p.held, R)

LEMMA MutexLists ==
  ASSUME NEW k \in Kinds
  PROVE  /\ Ordered(Parser[k]) /\ Of(Parser[k]) = {Parser[k][1], Variables[k], Ufunc[k]}
         /\ Ordered(Evaluator[k]) /\ Of(Evaluator[k]) = {Evaluator[k][1], Ufunc[k]}
         /\ Ordered(<<Variables[k]>>) /\ Of(<<Variables[k]>>) = {Variables[k]}
         /\ Ordered(<<Ufunc[k]>>) /\ Of(<<Ufunc[k]>>) = {Ufunc[k]}
         /\ Of(Parser[k]) \subseteq IF k = "real" THEN RealMutexes ELSE IntMutexes
         /\ Of(Evaluator[k]) \subseteq IF k = "real" THEN RealMutexes ELSE IntMutexes
         /\ k = "int" => Evaluator[k][1] = "int_evaluator"
         /\ Variables[k] \in Mutexes /\ Ufunc[k] \in Mutexes
         /\ Parser[k] # <<>> /\ Evaluator[k] # <<>>
<1> USE DEF Parser, Evaluator, Variables, Ufunc, Ordered, Of, Mutexes, RealMutexes, IntMutexes, Rank
<1>1. CASE k = "real"
  <2>1. Ordered(Parser[k]) /\ Of(Parser[k]) = {Parser[k][1], Variables[k], Ufunc[k]}
    BY <1>1
  <2>2. Ordered(Evaluator[k]) /\ Of(Evaluator[k]) = {Evaluator[k][1], Ufunc[k]}
    BY <1>1
  <2> QED BY <1>1, <2>1, <2>2
<1>2. CASE k = "int"
  <2>1. Ordered(Parser[k]) /\ Of(Parser[k]) = {Parser[k][1], Variables[k], Ufunc[k]}
    BY <1>2
  <2>2. Ordered(Evaluator[k]) /\ Of(Evaluator[k]) = {Evaluator[k][1], Ufunc[k]}
    BY <1>2
  <2> QED BY <1>2, <2>1, <2>2
<1> QED BY <1>1, <1>2 DEF Kinds

LEMMA UnsafeParseScript ==
  ASSUME NEW k \in Kinds, NEW p \in Point, NEW w \in SUBSET Data, ~p.stuck,
         Variables[k] \in w \cup p.held, Ufunc[k] \in p.held
  PROVE  Script(UnsafeParse(k), p, p, w)
<1>1. ASSUME NEW x \in Data, x \in w \/ Guard(x) \in p.held
      PROVE  Script(Do("read", x), p, p, w)
  <2>1. [do |-> "read", on |-> x] \in Instruction
    BY DEF Instruction, Data
  <2>2. Moves([do |-> "read", on |-> x], p, p, w)
    BY <1>1 DEF Moves, Advance, Guarded
  <2> QED BY <2>1, <2>2, ScriptDo
<1>2. Script(Do("read", Variables[k]), p, p, w)
  BY <1>1, MutexLists DEF Guard, Mutexes, Data
<1>3. Script(Do("read", Ufunc[k]), p, p, w)
  BY <1>1, MutexLists DEF Guard, Mutexes, Data
<1>4. Script(Do("read", Variables[k]) \o Do("read", Ufunc[k]), p, p, w)
  BY <1>2, <1>3, ScriptConcat
<1>5. CASE k = "int"
  <2>1. Script(Do("read", "mask"), p, p, w)
    BY <1>1, <1>5 DEF Guard, Ufunc, Data
  <2> QED BY <1>4, <1>5, <2>1, ScriptConcat DEF UnsafeParse
<1>6. CASE k # "int"
  <2> DEFINE s == Do("read", Variables[k]) \o Do("read", Ufunc[k])
  <2>1. s \in Seq(Instruction) /\ Script(s, p, p, w)
    BY <1>4 DEF Script, Outline
  <2>2. UnsafeParse(k) = s \o <<>>
    BY <1>6 DEF UnsafeParse
  <2> HIDE DEF s
  <2>3. s \o <<>> = s
    BY <2>1, ConcatEmptySeq
  <2> QED BY <2>1, <2>2, <2>3
<1> QED BY <1>5, <1>6

LEMMA UnsafeEvaluateScript ==
  ASSUME NEW k \in Kinds, NEW p \in Point, NEW w \in SUBSET Data, ~p.stuck,
         Evaluable(k, p)
  PROVE  Script(UnsafeEvaluate(k), p, p, w)
<1>1. [do |-> "evaluate", on |-> k] \in Instruction
  BY DEF Instruction, Kinds
<1>2. Moves([do |-> "evaluate", on |-> k], p, p, w)
  BY DEF Moves, Advance, Guarded
<1> QED BY <1>1, <1>2, ScriptDo DEF UnsafeEvaluate

LEMMA ParseScript ==
  ASSUME NEW k \in Kinds, NEW p \in Point, NEW w \in SUBSET Data, Ready(p, Of(Parser[k]))
  PROVE  Script(ParseExpr(k), p, p, w)
<1> DEFINE q == At(p.held \cup Of(Parser[k]), p.one)
<1>1. q \in Point /\ ~q.stuck /\ Variables[k] \in q.held /\ Ufunc[k] \in q.held
  <2>1. Of(Parser[k]) \subseteq Mutexes
    BY MutexLists DEF RealMutexes, IntMutexes, Mutexes
  <2> QED BY <2>1, MutexLists DEF Point, At
<1>2. Script(UnsafeParse(k), q, q, w)
  <2> HIDE DEF q
  <2> QED BY <1>1, UnsafeParseScript
<1>3. UnsafeParse(k) \in Seq(Instruction)
  BY <1>2 DEF Script, Outline
<1>4. Ordered(Parser[k]) /\ Parser[k] # <<>>
  BY MutexLists
<1> HIDE DEF q
<1>5. Outline(UnsafeParse(k), q, q, w) /\ Paired(UnsafeParse(k))
  BY <1>2 DEF Script
<1>6. Script(Lock(Parser[k]) \o UnsafeParse(k) \o Unlock(Parser[k]), p, p, w)
  BY <1>3, <1>4, <1>5, ScriptBracket DEF Ready, q
<1> QED BY <1>6 DEF ParseExpr

(* What an evaluation with locks needs of the point it starts at. *)
Callable(k, p) ==
  /\ Ready(p, Of(Evaluator[k]))
  /\ Live /\ k = "int" /\ "float" \in Nested => Below(p.held, RealMutexes)
  /\ Live /\ k = "real" /\ "float32" \in Nested => Below(p.held, IntMutexes) /\ ~p.one

LEMMA EvaluateScript ==
  ASSUME NEW k \in Kinds, NEW p \in Point, NEW w \in SUBSET Data, Callable(k, p)
  PROVE  Script(Evaluate(k), p, p, w)
<1> DEFINE q == At(p.held \cup Of(Evaluator[k]), p.one)
<1>1. q \in Point /\ ~q.stuck /\ Ufunc[k] \in q.held
  <2>1. Of(Evaluator[k]) \subseteq Mutexes
    BY MutexLists DEF RealMutexes, IntMutexes, Mutexes
  <2> QED BY <2>1, MutexLists DEF Point, At
<1>2. Evaluable(k, q)
  <2>1. /\ "float" \in Nested => Below(IntMutexes, RealMutexes)
        /\ Live /\ "float32" \in Nested => Below(RealMutexes, IntMutexes)
    BY Ranks DEF Live
  <2>2. q.held = p.held \cup Of(Evaluator[k]) /\ q.one = p.one
    BY DEF At
  <2>6. Ufunc[k] \in q.held
    BY <1>1
  <2> HIDE DEF q
  <2>3. \A R : Below(p.held, R) /\ Below(Of(Evaluator[k]), R) => Below(q.held, R)
    BY <2>2 DEF Below
  <2>4. /\ k = "int" /\ "float" \in Nested => Below(Of(Evaluator[k]), RealMutexes)
        /\ k = "real" /\ Live /\ "float32" \in Nested => Below(Of(Evaluator[k]), IntMutexes)
    BY <2>1, MutexLists DEF Below
  <2>5. Ufunc[k] \in q.held /\ (k = "int" => Masked \subseteq q.held)
    <3>1. k = "int" => Of(Evaluator[k]) = Masked
      BY DEF Of, Evaluator, Masked
    <3> QED BY <2>2, <2>6, <3>1
  <2> QED BY <2>2, <2>3, <2>4, <2>5 DEF Callable, Evaluable
<1>3. Script(UnsafeEvaluate(k), q, q, w)
  <2> HIDE DEF q
  <2> QED BY <1>1, <1>2, UnsafeEvaluateScript
<1>4. UnsafeEvaluate(k) \in Seq(Instruction)
  BY <1>3 DEF Script, Outline
<1>5. Ordered(Evaluator[k]) /\ Evaluator[k] # <<>>
  BY MutexLists
<1> HIDE DEF q
<1>6. Outline(UnsafeEvaluate(k), q, q, w) /\ Paired(UnsafeEvaluate(k))
  BY <1>3 DEF Script
<1>7. Script(Lock(Evaluator[k]) \o UnsafeEvaluate(k) \o Unlock(Evaluator[k]), p, p, w)
  BY <1>4, <1>5, <1>6, ScriptBracket DEF Callable, Ready, q
<1> QED BY <1>7 DEF Evaluate

LEMMA SolveScript ==
  ASSUME NEW k \in Kinds, NEW p \in Point, NEW w \in SUBSET Data,
         Ready(p, Of(Parser[k])), Callable(k, p)
  PROVE  Script(SolveE(k), p, p, w)
BY ParseScript, EvaluateScript, ScriptConcat DEF SolveE, Ready

(* One instruction between the locking and the unlocking of ms. *)
LEMMA ScriptAround ==
  ASSUME NEW ms, Ordered(ms), ms # <<>>, NEW p \in Point, NEW w \in SUBSET Data, Ready(p, Of(ms)),
         NEW op, NEW x, [do |-> op, on |-> x] \in Instruction, op # "enter_mask",
         p.held \cap Of(ms) = {} =>
           Moves([do |-> op, on |-> x], At(p.held \cup Of(ms), p.one),
                 At(p.held \cup Of(ms), p.one), w)
  PROVE  Script(Lock(ms) \o Do(op, x) \o Unlock(ms), p, p, w)
<1> DEFINE q == At(p.held \cup Of(ms), p.one)
<1>1. q \in Point
  <2>1. Of(ms) \subseteq Mutexes
    BY DEF Ordered, Of
  <2> QED BY <2>1 DEF Point, At
<1>2. Do(op, x) \in Seq(Instruction) /\ Paired(Do(op, x))
  <2>1. Len(Do(op, x)) = 1 /\ Do(op, x)[1].do = op /\ Do(op, x) \in Seq(Instruction)
    BY DEF Do
  <2> QED BY <2>1 DEF Paired
<1>3. p.held \cap Of(ms) = {} => Outline(Do(op, x), q, q, w)
  <2> HIDE DEF q
  <2>1. Moves([do |-> op, on |-> x], q, q, w) => Outline(Do(op, x), q, q, w)
    BY <1>1, ScriptDo DEF Script
  <2> QED BY <2>1 DEF q
<1> QED BY <1>2, <1>3, ScriptBracket DEF Ready

LEMMA ClearScript ==
  ASSUME NEW k \in Kinds, NEW x \in {Variables[k], Ufunc[k]}, NEW p \in Point,
         NEW w \in SUBSET Data, Ready(p, {x})
  PROVE  Script(Clear(x), p, p, w)
<1>1. x \in Mutexes /\ Ordered(<<x>>) /\ Of(<<x>>) = {x} /\ <<x>> # <<>>
  BY MutexLists
<1>2. [do |-> "write", on |-> x] \in Instruction
  BY <1>1 DEF Instruction
<1>3. Guard(x) = x
  BY <1>1 DEF Guard, Mutexes
<1>4. Moves([do |-> "write", on |-> x], At(p.held \cup {x}, p.one), At(p.held \cup {x}, p.one), w)
  BY <1>3 DEF Moves, Advance, Guarded, At
<1>5. Ready(p, Of(<<x>>))
  BY <1>1
<1> QED BY <1>1, <1>2, <1>4, <1>5, ScriptAround DEF Clear

LEMMA MaskLocks ==
  /\ Ordered(Evaluator["int"]) /\ Of(Evaluator["int"]) = {"int_evaluator", "int_ufunc"}
  /\ Evaluator["int"] # <<>>
  /\ "int" \in Kinds /\ Ufunc["int"] = "int_ufunc" /\ Variables["int"] = "int_variables"
<1>1. Ufunc["int"] = "int_ufunc" /\ Variables["int"] = "int_variables"
  BY DEF Ufunc, Variables
<1> QED BY <1>1, MutexLists DEF Kinds

(* What a setter of variables touches outside of its lock. *)
SetterExposes(k) == {Ufunc[k]} \cup {m \in {"mask"} : k = "int"}

LEMMA SetVarScript ==
  ASSUME NEW k \in Kinds, NEW script \in SetVar(k), NEW p \in Point, NEW w \in SUBSET Data,
         Ready(p, {Variables[k]}), SetterExposes(k) \subseteq w
  PROVE  Script(script, p, p, w)
<1> DEFINE ms == <<Variables[k]>>
           q == At(p.held \cup Of(ms), p.one)
<1>1. Ordered(ms) /\ Of(ms) = {Variables[k]} /\ ms # <<>>
  BY MutexLists
<1>2. q \in Point /\ ~q.stuck /\ Variables[k] \in q.held
  <2>1. Of(ms) \subseteq Mutexes
    BY <1>1, MutexLists
  <2> HIDE DEF ms
  <2>2. q \in Point /\ ~q.stuck /\ q.held = p.held \cup Of(ms)
    BY <2>1 DEF Point, At
  <2> QED BY <1>1, <2>2
<1>3. ASSUME NEW op \in {"read", "write"}, NEW x \in Data, x \in w \/ Guard(x) \in q.held
      PROVE  Script(Do(op, x), q, q, w)
  <2> HIDE DEF q
  <2>1. [do |-> op, on |-> x] \in Instruction
    BY DEF Instruction, Data
  <2>2. Moves([do |-> op, on |-> x], q, q, w)
    BY <1>2, <1>3 DEF Moves, Advance, Guarded
  <2> QED BY <1>2, <2>1, <2>2, ScriptDo
<1>4. Script(Do("read", Ufunc[k]), q, q, w) /\ Script(Do("write", Variables[k]), q, q, w)
  <2>1. Variables[k] \in Data /\ Guard(Variables[k]) = Variables[k] /\ Ufunc[k] \in Data
    BY MutexLists DEF Data, Guard, Mutexes
  <2> HIDE DEF q
  <2> QED BY <1>2, <1>3, <2>1 DEF SetterExposes
<1> DEFINE checks == SignExtend(k) \o Do("read", Ufunc[k])
<1>5. Script(checks, q, q, w)
  <2> HIDE DEF q
  <2>1. CASE k = "int"
    <3>1. Script(Do("read", "mask"), q, q, w)
      BY <1>3, <2>1 DEF Data, SetterExposes
    <3> QED BY <1>2, <1>4, <2>1, <3>1, ScriptConcat DEF SignExtend
  <2>2. CASE k # "int"
    <3>1. checks = Do("read", Ufunc[k])
      BY <2>2 DEF SignExtend, Do
    <3> HIDE DEF checks
    <3> QED BY <1>4, <3>1
  <2> QED BY <2>1, <2>2
<1> HIDE DEF checks, q
<1>6. Script(checks \o Do("write", Variables[k]), q, q, w)
  BY <1>2, <1>4, <1>5, ScriptConcat
<1>7. ASSUME NEW body, Script(body, q, q, w)
      PROVE  Script(Lock(ms) \o body \o Unlock(ms), p, p, w)
  <2>1. body \in Seq(Instruction) /\ Paired(body) /\ Outline(body, q, q, w)
    BY <1>7 DEF Script, Outline
  <2> HIDE DEF ms
  <2> QED BY <1>1, <2>1, ScriptBracket DEF Ready, q
<1>8. \E body \in {checks, checks \o Do("write", Variables[k])} :
        script = Lock(ms) \o body \o Unlock(ms)
  BY DEF SetVar, SetVarUnsafe, checks
<1> QED BY <1>5, <1>6, <1>7, <1>8

LEMMA SetIntMaskScript ==
  ASSUME NEW size \in Masks, NEW p \in Point, NEW w \in SUBSET Data,
         Ready(p, Of(Evaluator["int"]))
  PROVE  Script(SetIntMask(size), p, p, w)
<1>1. [do |-> "set_mask", on |-> size] \in Instruction
  BY DEF Instruction
<1>2. ASSUME p.held \cap Of(Evaluator["int"]) = {}
      PROVE  Moves([do |-> "set_mask", on |-> size],
                   At(p.held \cup Of(Evaluator["int"]), p.one),
                   At(p.held \cup Of(Evaluator["int"]), p.one), w)
  <2>1. ~p.one
    BY <1>2, MaskLocks DEF Ready, Masked
  <2> QED BY <2>1, MaskLocks DEF Moves, Advance, Guarded, At, Masked
<1> QED BY <1>1, <1>2, MaskLocks, ScriptAround DEF SetIntMask

LEMMA ConcatFirst ==
  ASSUME NEW S, NEW a \in Seq(S), NEW s \in Seq(S), Len(a) = 1
  PROVE  /\ a \o s \in Seq(S) /\ Len(a \o s) = Len(s) + 1 /\ Len(s) \in Nat
         /\ (a \o s)[1] = a[1]
         /\ \A i \in 1 .. Len(s) : (a \o s)[i + 1] = s[i]
<1>0. Len(s) \in Nat /\ Len(a) \in Nat
  OBVIOUS
<1>4. a \o s \in Seq(S)
  BY ConcatProperties
<1>5. Len(a \o s) = Len(a) + Len(s)
  BY ConcatProperties
<1>6. \A i \in 1 .. Len(a) + Len(s) : (a \o s)[i] = IF i <= Len(a) THEN a[i] ELSE s[i - Len(a)]
  BY ConcatProperties
<1>1. /\ a \o s \in Seq(S) /\ Len(a \o s) = Len(a) + Len(s) /\ Len(s) \in Nat
      /\ \A i \in 1 .. Len(a) + Len(s) : (a \o s)[i] = IF i <= Len(a) THEN a[i] ELSE s[i - Len(a)]
  BY <1>4, <1>5, <1>6, <1>0
<1>2. (a \o s)[1] = a[1]
  BY <1>1
<1>3. ASSUME NEW i \in 1 .. Len(s) PROVE (a \o s)[i + 1] = s[i]
  <2>1. (a \o s)[i + 1] = s[(i + 1) - Len(a)]
    BY <1>1
  <2> QED BY <2>1
<1> QED BY <1>1, <1>2, <1>3

LEMMA ConcatLast ==
  ASSUME NEW S, NEW a \in Seq(S), NEW s \in Seq(S), Len(a) = 1
  PROVE  /\ Len(s \o a) = Len(s) + 1 /\ Len(s) \in Nat
         /\ \A i \in 1 .. Len(s) : (s \o a)[i] = s[i]
         /\ (s \o a)[Len(s) + 1] = a[1]
<1>1. /\ Len(s \o a) = Len(s) + Len(a) /\ Len(s) \in Nat
      /\ \A i \in 1 .. Len(s) + Len(a) : (s \o a)[i] = IF i <= Len(s) THEN s[i] ELSE a[i - Len(s)]
  BY ConcatProperties
<1>2. (s \o a)[Len(s) + 1] = a[1]
  <2>1. (s \o a)[Len(s) + 1] = a[(Len(s) + 1) - Len(s)]
    BY <1>1
  <2> QED BY <1>1, <2>1
<1> QED BY <1>1, <1>2

LEMMA ConcatBetween ==
  ASSUME NEW S, NEW a \in Seq(S), NEW s \in Seq(S), NEW b \in Seq(S), Len(a) = 1, Len(b) = 1
  PROVE  /\ Len(a \o s \o b) = Len(s) + 2 /\ Len(s) \in Nat
         /\ (a \o s \o b)[1] = a[1]
         /\ \A i \in 1 .. Len(s) : (a \o s \o b)[i + 1] = s[i]
         /\ (a \o s \o b)[Len(a \o s \o b)] = b[1]
<1> DEFINE t == a \o s
<1>1. /\ t \in Seq(S) /\ Len(t) = Len(s) + 1 /\ Len(s) \in Nat
      /\ t[1] = a[1]
      /\ \A i \in 1 .. Len(s) : t[i + 1] = s[i]
  BY ConcatFirst
<1> HIDE DEF t
<1>4. /\ Len(t \o b) = Len(t) + 1
      /\ \A i \in 1 .. Len(t) : (t \o b)[i] = t[i]
      /\ (t \o b)[Len(t) + 1] = b[1]
  BY <1>1, ConcatLast
<1> QED BY <1>1, <1>4 DEF t

LEMMA MaskedScript ==
  ASSUME NEW size \in Masks, NEW p \in Point,
         Ready(p, Of(Evaluator["int"])),
         Live /\ "float" \in Nested => Below(p.held, RealMutexes),
         NEW w \in SUBSET Data, "int_variables" \in w
  PROVE  Script(SolveWithMask(size), p, p, w)
<1> DEFINE q == At(p.held \cup Of(Evaluator["int"]), p.one)
           r == At(p.held \cup Of(Evaluator["int"]), TRUE)
           body == Do("enter_mask", size) \o UnsafeParse("int") \o UnsafeEvaluate("int")
                     \o Do("leave_mask", size)
           middle == UnsafeParse("int") \o UnsafeEvaluate("int")
<1>1. /\ q \in Point /\ ~q.stuck /\ r \in Point /\ ~r.stuck
      /\ q.held = p.held \cup Of(Evaluator["int"]) /\ q.one = p.one
      /\ r.held = p.held \cup Of(Evaluator["int"]) /\ r.one
  <2>1. Of(Evaluator["int"]) \subseteq Mutexes
    BY MaskLocks DEF Mutexes
  <2> QED BY <2>1 DEF Point, At
<1>2. [do |-> "enter_mask", on |-> size] \in Instruction
      /\ [do |-> "leave_mask", on |-> size] \in Instruction
  BY DEF Instruction
<1>3. /\ Do("enter_mask", size) \in Seq(Instruction) /\ Do("leave_mask", size) \in Seq(Instruction)
      /\ Len(Do("enter_mask", size)) = 1 /\ Len(Do("leave_mask", size)) = 1
      /\ Do("enter_mask", size)[1] = [do |-> "enter_mask", on |-> size]
      /\ Do("leave_mask", size)[1] = [do |-> "leave_mask", on |-> size]
  BY <1>2 DEF Do
<1>4. Script(middle, r, r, w)
  <2> HIDE DEF r
  <2>1. Evaluable("int", r)
    <3>1. Live /\ "float" \in Nested => Below(r.held, RealMutexes)
      BY <1>1, Ranks, MaskLocks DEF Below, IntMutexes
    <3> QED BY <1>1, <3>1, MaskLocks DEF Evaluable, Masked
  <2> QED BY <1>1, <2>1, MaskLocks, UnsafeParseScript, UnsafeEvaluateScript, ScriptConcat
<1>5. middle \in Seq(Instruction) /\ Paired(middle)
  BY <1>4 DEF Script, Outline
<1>12. UnsafeParse("int") \in Seq(Instruction) /\ UnsafeEvaluate("int") \in Seq(Instruction)
  <2> HIDE DEF r
  <2>1. Script(UnsafeParse("int"), r, r, w)
    BY <1>1, MaskLocks, UnsafeParseScript
  <2> QED BY <2>1 DEF Script, Outline, UnsafeEvaluate, Do, Instruction
<1>6. body = Do("enter_mask", size) \o middle \o Do("leave_mask", size)
  BY <1>3, <1>12, ConcatAssociative
<1> HIDE DEF middle, body
<1>7. body \in Seq(Instruction) /\ Do("enter_mask", size) \o middle \in Seq(Instruction)
  BY <1>3, <1>5, <1>6
<1>8. Paired(body)
  <2>1. /\ Len(body) = Len(middle) + 2 /\ Len(middle) \in Nat
        /\ body[1] = [do |-> "enter_mask", on |-> size]
        /\ \A i \in 1 .. Len(middle) : body[i + 1] = middle[i]
        /\ body[Len(body)] = [do |-> "leave_mask", on |-> size]
    <3> DEFINE e == Do("enter_mask", size)
               l == Do("leave_mask", size)
    <3>1. /\ e \in Seq(Instruction) /\ Len(e) = 1 /\ e[1] = [do |-> "enter_mask", on |-> size]
          /\ l \in Seq(Instruction) /\ Len(l) = 1 /\ l[1] = [do |-> "leave_mask", on |-> size]
          /\ middle \in Seq(Instruction) /\ body = e \o middle \o l
      BY <1>3, <1>5, <1>6
    <3> HIDE DEF e, l
    <3> QED BY <3>1, ConcatBetween
  <2> SUFFICES ASSUME NEW i \in 1 .. Len(body), body[i].do = "enter_mask"
               PROVE  \E j \in i + 1 .. Len(body) :
                        body[j] = [do |-> "leave_mask", on |-> body[i].on]
    BY DEF Paired
  <2>2. CASE i = 1
    BY <2>1, <2>2
  <2>3. CASE i \in 2 .. Len(middle) + 1
    <3>1. middle[i - 1] = body[i] /\ i - 1 \in 1 .. Len(middle)
      BY <2>1, <2>3
    <3>2. PICK j \in (i - 1) + 1 .. Len(middle) :
                 middle[j] = [do |-> "leave_mask", on |-> middle[i - 1].on]
      BY <3>1, <1>5 DEF Paired
    <3>3. body[j + 1] = middle[j] /\ j + 1 \in i + 1 .. Len(body)
      BY <2>1, <2>3, <3>2
    <3> QED BY <3>1, <3>2, <3>3
  <2>4. CASE i = Len(body)
    BY <2>1, <2>4
  <2> QED BY <2>1, <2>2, <2>3, <2>4
<1>9. ASSUME p.held \cap Of(Evaluator["int"]) = {}
      PROVE  Outline(body, q, q, w)
  <2>1. ~p.one
    BY <1>9, MaskLocks DEF Ready, Masked
  <2>2. q = At(r.held, FALSE) /\ r = At(q.held, TRUE)
    BY <1>1, <2>1 DEF At, Point
  <2> HIDE DEF q, r
  <2>3. Outline(Do("enter_mask", size), q, r, w)
    <3>1. Moves([do |-> "enter_mask", on |-> size], q, r, w)
      BY <1>1, <2>1, <2>2, MaskLocks DEF Moves, Advance, Guarded, Masked
    <3> QED BY <1>1, <1>2, <3>1, OutlineOne DEF Do
  <2>4. Outline(Do("leave_mask", size), r, q, w)
    <3>1. Moves([do |-> "leave_mask", on |-> size], r, q, w)
      BY <1>1, <2>1, <2>2, MaskLocks DEF Moves, Advance, Guarded, Masked
    <3> QED BY <1>1, <1>2, <3>1, OutlineOne DEF Do
  <2>5. Outline(Do("enter_mask", size) \o middle, q, r, w)
    BY <1>1, <1>4, <2>3, OutlineConcat DEF Script
  <2> QED BY <1>1, <1>6, <2>4, <2>5, OutlineConcat
<1>10. Script(Lock(Evaluator["int"]) \o body \o Unlock(Evaluator["int"]), p, p, w)
  BY <1>7, <1>8, <1>9, MaskLocks, ScriptBracket DEF Ready
<1>11. SolveWithMask(size) = Lock(Evaluator["int"]) \o body \o Unlock(Evaluator["int"])
  <2>1. /\ Lock(Evaluator["int"]) \in Seq(Instruction) 
        /\ Unlock(Evaluator["int"]) \in Seq(Instruction)
    BY MaskLocks, LocksTyped DEF Ordered
  <2> DEFINE L == Lock(Evaluator["int"])
             a == Do("enter_mask", size)
             b == UnsafeParse("int")
             c == UnsafeEvaluate("int")
             d == Do("leave_mask", size)
  <2>3. body = ((a \o b) \o c) \o d
    BY DEF body
  <2>4. /\ L \in Seq(Instruction) /\ a \in Seq(Instruction) /\ b \in Seq(Instruction)
        /\ c \in Seq(Instruction) /\ d \in Seq(Instruction)
    BY <1>3, <2>1, <1>12
  <2>5. (((L \o a) \o b) \o c) \o d = L \o body
    <3> HIDE DEF L, a, b, c, d
    <3> DEFINE e == a \o b
               f == e \o c
    <3>1. e \in Seq(Instruction) /\ (L \o a) \o b = L \o e
      BY <2>4
    <3> HIDE DEF e
    <3>2. f \in Seq(Instruction) /\ (L \o e) \o c = L \o f
      BY <2>4, <3>1
    <3> HIDE DEF f
    <3>3. (L \o f) \o d = L \o (f \o d)
      BY <2>4, <3>2
    <3> QED BY <2>3, <3>1, <3>2, <3>3 DEF e, f
  <2> QED BY <2>5 DEF SolveWithMask
<1> QED BY <1>10, <1>11

-----------------------------------------------------------------------------
(* What an evaluation calls, and the calls of the library. *)
LEMMA NestedScript ==
  ASSUME NEW k \in Kinds, NEW p \in Point, ~p.stuck, Evaluable(k, p),
         p.one => Masked \subseteq p.held,
         NEW w \in SUBSET Data, {"variables", "int_variables"} \subseteq w
  PROVE  /\ Script(SolveArguments(k), p, p, w)
         /\ "float32" \in Nested /\ k = "real" => Script(BinToFloat, p, p, w)
         /\ "float" \in Nested /\ k = "int" => Script(FromFloat, p, p, w)
<1>1. Script(SolveArguments(k), p, p, w)
  <2>1. Variables[k] \in w /\ Ufunc[k] \in p.held
    BY DEF Kinds, Variables, Evaluable
  <2> QED BY <2>1, UnsafeParseScript, UnsafeEvaluateScript, ScriptConcat DEF SolveArguments
<1>2. ASSUME "float32" \in Nested, k = "real"
      PROVE  Script(BinToFloat, p, p, w)
  <2>1. Live => Below(p.held, IntMutexes) /\ ~("float" \in Nested)
    BY <1>2 DEF Evaluable, Live
  <2>2. Ready(p, Of(Evaluator["int"]))
    BY <2>1, MaskLocks DEF Ready, Below, IntMutexes
  <2> QED BY <2>1, <2>2, MaskedScript DEF BinToFloat, Masks
<1>3. ASSUME "float" \in Nested, k = "int"
      PROVE  Script(FromFloat, p, p, w)
  <2>1. Live => Below(p.held, RealMutexes) /\ ~("float32" \in Nested)
    BY <1>3 DEF Evaluable, Live
  <2>2. "real" \in Kinds
    BY DEF Kinds
  <2>3. Of(Parser["real"]) \subseteq RealMutexes /\ Of(Evaluator["real"]) \subseteq RealMutexes
    BY <2>2, MutexLists
  <2>4. Ready(p, Of(Parser["real"])) /\ Callable("real", p)
    BY <2>1, <2>3 DEF Ready, Callable, Below
  <2> QED BY <2>2, <2>4, SolveScript DEF FromFloat
<1> QED BY <1>1, <1>2, <1>3

(* A point at which a thread calls the library. *)
Start(p) == ~p.stuck /\ ~p.one /\ (Live => p.held = {})

LEMMA StartReady ==
  ASSUME NEW k \in Kinds, NEW p \in Point, Start(p)
  PROVE  /\ \A R : Ready(p, R)
         /\ Callable(k, p)
BY DEF Start, Ready, Callable, Below

LEMMA ResetScript ==
  ASSUME NEW p \in Point, NEW w \in SUBSET Data, Start(p)
  PROVE  Script(Reset, p, p, w)
<1>1. /\ Script(Clear("variables"), p, p, w) /\ Script(Clear("int_variables"), p, p, w)
      /\ Script(Clear("ufunc"), p, p, w) /\ Script(Clear("int_ufunc"), p, p, w)
  BY StartReady, ClearScript DEF Kinds, Variables, Ufunc
<1>2. Script(SetIntMask(32), p, p, w)
  BY StartReady, SetIntMaskScript DEF Kinds, Masks
<1>3. Script(Clear("variables") \o SetIntMask(32), p, p, w)
  BY <1>1, <1>2, ScriptConcat DEF Start
<1>4. Script(Clear("variables") \o SetIntMask(32) \o Clear("int_variables"), p, p, w)
  BY <1>1, <1>3, ScriptConcat DEF Start
<1>5. Script(Clear("variables") \o SetIntMask(32) \o Clear("int_variables") \o Clear("ufunc"),
             p, p, w)
  BY <1>1, <1>4, ScriptConcat DEF Start
<1> QED BY <1>1, <1>5, ScriptConcat DEF Start, Reset

(* Looking up and changing tables without their locks. *)
LEMMA ExposedScript ==
  ASSUME NEW op \in {"read", "write"}, NEW x \in Mutexes, NEW p \in Point, Start(p),
         NEW w \in SUBSET Data, x \in w
  PROVE  Script(Do(op, x), p, p, w)
<1>1. [do |-> op, on |-> x] \in Instruction
  BY DEF Instruction
<1>2. Moves([do |-> op, on |-> x], p, p, w)
  BY DEF Moves, Advance, Start, Guarded
<1> QED BY <1>1, <1>2, ScriptDo

LEMMA SetUfunctionScript ==
  ASSUME NEW k \in Kinds, NEW script \in SetUfunction(k), NEW p \in Point, Start(p),
         NEW w \in SUBSET Data, {Ufunc[k], Variables[k]} \subseteq w
  PROVE  Script(script, p, p, w)
<1>1. /\ Script(Do("read", Ufunc[k]), p, p, w) /\ Script(Do("read", Variables[k]), p, p, w)
      /\ Script(Do("write", Ufunc[k]), p, p, w)
  BY MutexLists, ExposedScript
<1>2. Script(Do("read", Ufunc[k]) \o Do("read", Variables[k]), p, p, w)
  BY <1>1, ScriptConcat DEF Start
<1>3. Script(ParseExpr(k), p, p, w)
  BY StartReady, ParseScript
<1> DEFINE new == Do("read", Ufunc[k]) \o Do("read", Variables[k]) \o ParseExpr(k)
<1>4. Script(new, p, p, w)
  BY <1>2, <1>3, ScriptConcat DEF Start
<1> HIDE DEF new
<1>5. Script(new \o Do("write", Ufunc[k]), p, p, w)
  BY <1>1, <1>4, ScriptConcat DEF Start
<1>6. script = new \/ script = new \o Do("write", Ufunc[k])
  BY DEF SetUfunction, new
<1> QED BY <1>4, <1>5, <1>6

LEMMA LibraryScript ==
  ASSUME NEW c \in Calls, NEW script \in Library[c], NEW p \in Point, Start(p)
  PROVE  \E q \in Point : Start(q) /\ Script(script, p, q, ExposedBy(c))
<1> DEFINE w == ExposedBy(c)
<1>1. c \in DOMAIN Library
  BY LockingAssumption
<1>2. /\ "real" \in Kinds /\ "int" \in Kinds /\ 32 \in Masks /\ 64 \in Masks /\ ~p.stuck
      /\ w \in SUBSET Data
  BY DEF Kinds, Masks, Start, ExposedBy, Exposed, Data, Mutexes
<1>3. ASSUME NEW k \in Kinds
      PROVE  Script(ParseExpr(k), p, p, w) /\ Script(Evaluate(k), p, p, w) /\ Script(SolveE(k), p, p, w)
  BY <1>2, StartReady, ParseScript, EvaluateScript, SolveScript
<1>4. ASSUME NEW k \in Kinds, script \in SetVar(k), SetterExposes(k) \subseteq w
      PROVE  Script(script, p, p, w)
  BY <1>2, <1>4, StartReady, SetVarScript
<1>5. ASSUME NEW size \in Masks
      PROVE  /\ Script(SetIntMask(size), p, p, w)
             /\ "int_variables" \in w => Script(SolveWithMask(size), p, p, w)
  <2>1. Live => Below(p.held, RealMutexes)
    BY DEF Start, Below
  <2>2. Ready(p, Of(Evaluator["int"]))
    BY <1>2, StartReady
  <2> QED BY <1>2, <2>1, <2>2, SetIntMaskScript, MaskedScript
<1>6. Script(Reset, p, p, w)
  BY <1>2, ResetScript
<1>7. ASSUME c = "wmask_refused"
      PROVE  \E q \in Point : Start(q) /\ Script(script, p, q, w)
  <2>1. script = Lock(Evaluator["int"]) /\ ~Live
    BY <1>7 DEF Library, RefuseMask, Live
  <2>2. Paired(script) /\ script # <<>>
    <3>1. Evaluator["int"] \in Seq(Mutexes) /\ Evaluator["int"] # <<>>
      BY MaskLocks DEF Ordered
    <3>2. Len(script) = Len(Evaluator["int"]) /\ \A i \in 1 .. Len(script) : script[i].do = "lock"
      <4>1. Len(script) = Len(Evaluator["int"])
        BY <2>1, <3>1, LocksTyped
      <4>2. ASSUME NEW i \in 1 .. Len(script) PROVE script[i].do = "lock"
        <5>1. Lock(Evaluator["int"])[i] = [do |-> "lock", on |-> Evaluator["int"][i]]
          BY <3>1, <4>1, LocksTyped
        <5> QED BY <2>1, <5>1
      <4> QED BY <4>1, <4>2
    <3>3. script # <<>>
      BY <2>1, <3>1, LocksTyped, EmptySeq
    <3> QED BY <3>2, <3>3 DEF Paired
  <2>3. Outline(script, p, At(p.held \cup Of(Evaluator["int"]), p.one), w)
        \/ Outline(script, p, Stuck(p), w)
    BY <1>2, <2>1, MaskLocks, OutlineLock DEF Start
  <2>4. /\ At(p.held \cup Of(Evaluator["int"]), p.one) \in Point
        /\ Start(At(p.held \cup Of(Evaluator["int"]), p.one))
    BY <2>1, MaskLocks DEF Start, At, Point, Mutexes
  <2>5. Outline(script, p, Stuck(p), w) => Outline(script, p, p, w)
    BY DEF Outline, Outlines, Stuck, Point
  <2> QED BY <2>2, <2>3, <2>4, <2>5 DEF Script
<1>8. ASSUME c # "wmask_refused"
      PROVE  Script(script, p, p, w)
  <2>1. CASE c = "tms_parse_expr"
    BY <1>2, <1>3, <2>1 DEF Library
  <2>2. CASE c = "tms_parse_int_expr"
    BY <1>2, <1>3, <2>2 DEF Library
  <2>3. CASE c = "tms_evaluate"
    BY <1>2, <1>3, <2>3 DEF Library
  <2>4. CASE c = "tms_int_evaluate"
    BY <1>2, <1>3, <2>4 DEF Library
  <2>5. CASE c = "tms_solve"
    <3>1. "variables" \in w
      BY <2>5 DEF ExposedBy, Exposed
    <3>2. \/ script = Do("read", "variables") \o ParseExpr("real")
          \/ script = Do("read", "variables") \o SolveE("real")
      BY <2>5 DEF Library
    <3>3. Script(Do("read", "variables"), p, p, w)
      BY <1>2, <3>1, ExposedScript DEF Mutexes
    <3> QED BY <1>2, <1>3, <3>2, <3>3, ScriptConcat
  <2>6. CASE c = "tms_solve_e"
    BY <1>2, <1>3, <2>6 DEF Library
  <2>7. CASE c = "tms_int_solve_e"
    BY <1>2, <1>3, <2>7 DEF Library
  <2>8. CASE c = "tms_int_solve_e_wmask"
    <3>1. "int_variables" \in w
      BY <2>8 DEF ExposedBy, Exposed
    <3> QED BY <1>2, <1>5, <2>8, <3>1 DEF Library
  <2>9. CASE c = "tms_set_var"
    <3>1. SetterExposes("real") \subseteq w
      BY <2>9 DEF ExposedBy, Exposed, SetterExposes, Ufunc
    <3> QED BY <1>2, <1>4, <2>9, <3>1 DEF Library
  <2>10. CASE c = "tms_set_int_var"
    <3>1. SetterExposes("int") \subseteq w
      BY <2>10 DEF ExposedBy, Exposed, SetterExposes, Ufunc
    <3> QED BY <1>2, <1>4, <2>10, <3>1 DEF Library
  <2>11. CASE c = "tms_set_int_mask"
    BY <1>2, <1>5, <2>11 DEF Library
  <2>12. CASE c = "tms_remove_var"
    <3>1. "variables" \in w
      BY <2>12 DEF ExposedBy, Exposed
    <3>2. \/ script = Do("read", "variables")
          \/ script = Do("read", "variables") \o Do("write", "variables")
      BY <2>12 DEF Library
    <3>3. Script(Do("read", "variables"), p, p, w) /\ Script(Do("write", "variables"), p, p, w)
      BY <1>2, <3>1, ExposedScript DEF Mutexes
    <3> QED BY <1>2, <3>2, <3>3, ScriptConcat
  <2>13. CASE c = "tms_remove_ufunc"
    <3>1. "ufunc" \in w
      BY <2>13 DEF ExposedBy, Exposed
    <3> QED BY <1>2, <2>13, <3>1, ExposedScript DEF Library, Mutexes
  <2>14. CASE c = "tms_set_ufunction"
    <3>1. {Ufunc["real"], Variables["real"]} \subseteq w
      BY <2>14 DEF ExposedBy, Exposed, Ufunc, Variables
    <3> QED BY <1>2, <2>14, <3>1, SetUfunctionScript DEF Library
  <2>15. CASE c = "tms_set_int_ufunction"
    <3>1. {Ufunc["int"], Variables["int"]} \subseteq w
      BY <2>15 DEF ExposedBy, Exposed, Ufunc, Variables
    <3> QED BY <1>2, <2>15, <3>1, SetUfunctionScript DEF Library
  <2>16. CASE c = "tmsolve_reset"
    BY <1>6, <2>16 DEF Library
  <2> QED BY <1>1, <1>8, <2>1, <2>2, <2>3, <2>4, <2>5, <2>6, <2>7, <2>8, <2>9, <2>10,
             <2>11, <2>12, <2>13, <2>14, <2>15, <2>16 DEF Library
<1> QED BY <1>7, <1>8

-----------------------------------------------------------------------------
(* The inductive invariant: every thread has an outline for what it has    *)
(* left to do, from what it holds to a point at which it may call again;   *)
(* and the one mask in use one time is protected by int_evaluator.         *)
Owned(t) == {m \in Mutexes : owner[m] = t}
Here(t) == At(Owned(t), saved[t] # None)
Planned(t) == \E q \in Point : Start(q) /\ Outline(todo[t], Here(t), q, Exposes(t))

Leaves(s, size) == \E i \in 1 .. Len(s) : s[i] = [do |-> "leave_mask", on |-> size]
MaskKept(t) == saved[t] # None => Masked \subseteq Owned(t) /\ Leaves(todo[t], mask)

CallType == \A t \in Threads : IF Idle(t) THEN call[t] = None ELSE call[t] \in Calls
Typed == /\ owner \in [Mutexes -> Threads \cup {None}]
         /\ todo \in [Threads -> Seq(Instruction)]
         /\ call \in [Threads -> Calls \cup {None}]
         /\ CallType
         /\ called \in [Threads -> 0 .. MaxCalls]
         /\ nested \in [Threads -> 0 .. MaxNested]
         /\ mask \in Masks
         /\ saved \in [Threads -> Masks \cup {None}]

Follows(t) == Planned(t) /\ Paired(todo[t]) /\ MaskKept(t)
IInv == Typed /\ \A t \in Threads : Follows(t)

LEMMA HerePoint ==
  ASSUME NEW t \in Threads
  PROVE  Here(t) \in Point /\ ~Here(t).stuck
BY DEF Here, Point, At, Owned

LEMMA ExposesData == \A t \in Threads : Exposes(t) \in SUBSET Data
BY DEF Exposes, ExposedBy, Exposed, Data, Mutexes

LEMMA InitInv == Init => IInv
<1> SUFFICES ASSUME Init PROVE IInv
  OBVIOUS
<1>1. Typed
  BY LockingAssumption, EmptySeq DEF Init, Typed, CallType, Idle, Masks, Mutexes
<1>2. ASSUME NEW t \in Threads PROVE Follows(t)
  <2>1. todo[t] = <<>> /\ saved[t] = None /\ Owned(t) = {}
    BY LockingAssumption DEF Init, Owned
  <2>2. Start(Here(t))
    BY <2>1 DEF Start, Here, At
  <2>3. Outline(todo[t], Here(t), Here(t), Exposes(t))
    BY <2>1, HerePoint, ExposesData, OutlineEmpty
  <2>4. Planned(t)
    BY <2>2, <2>3, HerePoint DEF Planned
  <2>5. Paired(todo[t])
    BY <2>1, Len(<<>>) = 0 DEF Paired
  <2> QED BY <2>1, <2>4, <2>5 DEF Follows, MaskKept
<1> QED BY <1>1, <1>2 DEF IInv

(* A thread whose state a step of another leaves alone. *)
LEMMA Others ==
  ASSUME NEW u \in Threads, Follows(u), Owned(u)' = Owned(u),
         UNCHANGED <<todo[u], call[u], nested[u], saved[u]>>,
         saved[u] # None => mask' = mask
  PROVE  Follows(u)'
<1>1. Planned(u)'
  BY DEF Follows, Planned, Here, Exposes
<1>2. Paired(todo[u])'
  BY DEF Follows
<1>3. MaskKept(u)'
  BY DEF Follows, MaskKept
<1> QED BY <1>1, <1>2, <1>3 DEF Follows

(* What the next instruction of a thread leaves for it to do, ... *)
Advanced(t) ==
  /\ todo' \in [Threads -> Seq(Instruction)]
  /\ call' \in [Threads -> Calls \cup {None}]
  /\ CallType'
  /\ \A u \in Threads \ {t} : UNCHANGED <<todo[u], call[u], nested[u]>>
  /\ Head(todo[t]) \in Instruction
  /\ Paired(todo'[t])
  /\ \A size \in Masks :
       /\ Leaves(todo[t], size) /\ Head(todo[t]).do # "leave_mask" => Leaves(todo'[t], size)
       /\ Head(todo[t]) = [do |-> "enter_mask", on |-> size] => Leaves(todo'[t], size)

(* ... and the points it leads to. *)
Leads(t, q, r) == /\ Start(q) /\ Advance(Head(todo[t]), Here(t), r)
                  /\ r.stuck \/ Outline(todo'[t], r, q, Exposes(t)')

LEMMA Proceeds ==
  ASSUME IInv, NEW t \in Threads, ~Idle(t), Proceed(t), nested' = nested
  PROVE  Advanced(t) /\ \E q, r \in Point : Leads(t, q, r)
<1> DEFINE s == todo[t]
<1>1. s \in Seq(Instruction) /\ s # <<>>
  BY DEF IInv, Typed, Idle
<1>2. todo' = [todo EXCEPT ![t] = Tail(s)] /\ todo'[t] = Tail(s)
  BY DEF IInv, Typed, Proceed
<1>3. /\ Head(s) \in Instruction /\ Tail(s) \in Seq(Instruction) /\ Head(s) = s[1]
      /\ Len(s) = Len(Tail(s)) + 1 /\ Len(Tail(s)) \in Nat
      /\ \A i \in 1 .. Len(Tail(s)) : Tail(s)[i] = s[i + 1]
  BY <1>1, HeadTailProperties
<1>4. todo' \in [Threads -> Seq(Instruction)]
  BY <1>2, <1>3 DEF IInv, Typed
<1>5. call' = IF Len(s) = 1 THEN [call EXCEPT ![t] = None] ELSE call
  BY DEF Proceed
<1>6. call' \in [Threads -> Calls \cup {None}]
  BY <1>5 DEF IInv, Typed
<1>7. \A u \in Threads \ {t} : todo'[u] = todo[u] /\ call'[u] = call[u]
  BY <1>2, <1>5 DEF IInv, Typed
<1>8. IF Len(s) = 1 THEN Tail(s) = <<>> /\ call'[t] = None ELSE Tail(s) # <<>> /\ call'[t] = call[t]
  <2>1. \A x \in Seq(Instruction) : x = <<>> <=> Len(x) = 0
    BY EmptySeq
  <2> HIDE DEF s
  <2>2. Len(s) = 1 <=> Tail(s) = <<>>
    BY <1>3, <2>1
  <2> QED BY <2>2, <1>5 DEF IInv, Typed
<1>9. CallType'
  <2> SUFFICES ASSUME NEW u \in Threads
               PROVE  IF todo'[u] = <<>> THEN call'[u] = None ELSE call'[u] \in Calls
    BY DEF CallType, Idle
  <2>1. CASE u = t
    BY <2>1, <1>2, <1>8 DEF IInv, Typed, CallType, Idle
  <2>2. CASE u # t
    BY <2>2, <1>7 DEF IInv, Typed, CallType, Idle
  <2> QED BY <2>1, <2>2
<1>10. Paired(Tail(s))
  <2> SUFFICES ASSUME NEW i \in 1 .. Len(Tail(s)), Tail(s)[i].do = "enter_mask"
               PROVE  \E j \in i + 1 .. Len(Tail(s)) :
                        Tail(s)[j] = [do |-> "leave_mask", on |-> Tail(s)[i].on]
    BY DEF Paired
  <2>1. Tail(s)[i] = s[i + 1] /\ i + 1 \in 1 .. Len(s)
    BY <1>3
  <2>2. Paired(s)
    BY DEF IInv, Follows
  <2>3. PICK j \in (i + 1) + 1 .. Len(s) : s[j] = [do |-> "leave_mask", on |-> s[i + 1].on]
    BY <2>1, <2>2 DEF Paired
  <2>4. j - 1 \in i + 1 .. Len(Tail(s)) /\ Tail(s)[j - 1] = s[(j - 1) + 1] /\ (j - 1) + 1 = j
    BY <1>3, <2>3
  <2> QED BY <2>1, <2>3, <2>4
<1>11. ASSUME NEW size \in Masks, Leaves(s, size), Head(s).do # "leave_mask"
       PROVE  Leaves(Tail(s), size)
  <2>1. PICK i \in 1 .. Len(s) : s[i] = [do |-> "leave_mask", on |-> size]
    BY <1>11 DEF Leaves
  <2>2. i # 1
    BY <1>3, <1>11, <2>1
  <2>3. i - 1 \in 1 .. Len(Tail(s)) /\ Tail(s)[i - 1] = s[(i - 1) + 1] /\ (i - 1) + 1 = i
    BY <1>3, <2>1, <2>2
  <2> QED BY <2>1, <2>3 DEF Leaves
<1>12. ASSUME NEW size \in Masks, Head(s) = [do |-> "enter_mask", on |-> size]
       PROVE  Leaves(Tail(s), size)
  <2>1. s[1].do = "enter_mask" /\ s[1].on = size /\ 1 \in 1 .. Len(s)
    BY <1>3, <1>12
  <2>2. Paired(s)
    BY DEF IInv, Follows
  <2>3. PICK j \in 1 + 1 .. Len(s) : s[j] = [do |-> "leave_mask", on |-> size]
    BY <2>1, <2>2 DEF Paired
  <2>4. j - 1 \in 1 .. Len(Tail(s)) /\ Tail(s)[j - 1] = s[(j - 1) + 1] /\ (j - 1) + 1 = j
    BY <1>3, <2>3
  <2> QED BY <2>3, <2>4 DEF Leaves
<1>13. PICK q \in Point : Start(q) /\ Outline(s, Here(t), q, Exposes(t))
  BY DEF IInv, Follows, Planned
<1>14. PICK r \in Point : /\ Advance(Head(s), Here(t), r)
                          /\ r.stuck \/ Outline(Tail(s), r, q, Exposes(t))
  <2>1. Exposes(t) \in SUBSET Data
    BY ExposesData
  <2> HIDE DEF s
  <2> QED BY <1>1, <1>13, <2>1, HerePoint, OutlineTail
<1>15. ASSUME Outline(Tail(s), r, q, Exposes(t))
       PROVE  Outline(todo'[t], r, q, Exposes(t)')
  <2>1. CASE Len(s) = 1
    <3>1. todo'[t] = <<>> /\ Outline(<<>>, r, q, Exposes(t))
      BY <1>2, <1>8, <1>15, <2>1
    <3>2. Outline(<<>>, r, q, Exposes(t)')
      BY <3>1, Len(<<>>) = 0 DEF Outline, Outlines
    <3> QED BY <3>1, <3>2
  <2>2. CASE Len(s) # 1
    <3>1. Exposes(t)' = Exposes(t)
      BY <1>8, <2>2 DEF Exposes
    <3> QED BY <3>1, <1>2, <1>15
  <2> QED BY <2>1, <2>2
<1>16. Leads(t, q, r)
  <2>1. Head(s) = Head(todo[t]) /\ todo'[t] = Tail(s)
    BY <1>2
  <2>2. Start(q) /\ Advance(Head(todo[t]), Here(t), r)
    BY <1>13, <1>14, <2>1
  <2>3. r.stuck \/ Outline(todo'[t], r, q, Exposes(t)')
    BY <1>14, <1>15
  <2> QED BY <2>2, <2>3 DEF Leads
<1>17. Advanced(t)
  BY <1>2, <1>3, <1>4, <1>6, <1>7, <1>9, <1>10, <1>11, <1>12 DEF Advanced
<1> QED BY <1>16, <1>17

(* A thread that does not get stuck arrives where it is. *)
LEMMA Arrives ==
  ASSUME NEW t \in Threads, NEW q \in Point, NEW r \in Point, Leads(t, q, r),
         r = Here(t)'
  PROVE  Planned(t)'
<1>1. ~r.stuck
  BY DEF Here, At
<1>2. Start(q) /\ Outline(todo'[t], Here(t)', q, Exposes(t)')
  BY <1>1 DEF Leads
<1> QED BY <1>2 DEF Planned

LEMMA StartCallInv ==
  ASSUME IInv, NEW t \in Threads, StartCall(t)
  PROVE  IInv'
<1>13. PICK c \in Calls :
          /\ \E script \in Library[c] : todo' = [todo EXCEPT ![t] = script]
          /\ call' = [call EXCEPT ![t] = c]
  BY DEF StartCall
<1>14. PICK script \in Library[c] : todo' = [todo EXCEPT ![t] = script]
  BY <1>13
<1>1. todo' = [todo EXCEPT ![t] = script] /\ call' = [call EXCEPT ![t] = c]
  BY <1>13, <1>14
<1>2. /\ todo[t] = <<>> /\ UNCHANGED <<owner, mask, saved>>
      /\ called' = [called EXCEPT ![t] = @ + 1] /\ nested' = [nested EXCEPT ![t] = 0]
      /\ called[t] < MaxCalls
  BY DEF StartCall, Idle
<1>3. PICK q \in Point : Start(q) /\ Outline(todo[t], Here(t), q, Exposes(t))
  BY DEF IInv, Follows, Planned
<1>4. Start(Here(t)) /\ Here(t) \in Point
  <2>1. Here(t) = q
    BY <1>2, <1>3, HerePoint, Len(<<>>) = 0 DEF Outline, Outlines
  <2> QED BY <1>3, <2>1
<1>5. PICK r \in Point : Start(r) /\ Script(script, Here(t), r, ExposedBy(c))
  BY <1>4, LibraryScript
<1>6. script \in Seq(Instruction)
  BY <1>5 DEF Script, Outline
<1>7. /\ todo'[t] = script /\ call'[t] = c /\ nested'[t] = 0
      /\ todo' \in [Threads -> Seq(Instruction)] /\ call' \in [Threads -> Calls \cup {None}]
      /\ called' \in [Threads -> 0 .. MaxCalls] /\ nested' \in [Threads -> 0 .. MaxNested]
      /\ \A u \in Threads \ {t} : UNCHANGED <<todo[u], call[u], nested[u]>>
  BY <1>1, <1>2, <1>6, LockingAssumption DEF IInv, Typed
<1>8. script # <<>>
  BY <1>5 DEF Script
<1>9. CallType'
  <2> SUFFICES ASSUME NEW u \in Threads
               PROVE  IF todo'[u] = <<>> THEN call'[u] = None ELSE call'[u] \in Calls
    BY DEF CallType, Idle
  <2> QED BY <1>7, <1>8 DEF IInv, Typed, CallType, Idle
<1>10. Typed'
  BY <1>2, <1>7, <1>9 DEF IInv, Typed
<1>11. Follows(t)'
  <2>1. Planned(t)'
    <3>1. Here(t)' = Here(t)
      BY <1>2 DEF Here, Owned
    <3>2. Exposes(t)' = ExposedBy(c)
      BY <1>7 DEF Exposes
    <3>3. Outline(todo'[t], Here(t)', r, Exposes(t)')
      BY <1>5, <1>7, <3>1, <3>2 DEF Script
    <3> QED BY <1>5, <3>3 DEF Planned
  <2>2. Paired(todo[t])'
    BY <1>5, <1>7 DEF Script
  <2>3. saved[t]' = None
    BY <1>2, <1>4 DEF Start, Here, At
  <2> QED BY <2>1, <2>2, <2>3 DEF Follows, MaskKept
<1>12. ASSUME NEW u \in Threads, u # t PROVE Follows(u)'
  BY <1>2, <1>7, <1>12, Others DEF IInv, Owned, Follows, MaskKept
<1> QED BY <1>10, <1>11, <1>12 DEF IInv

LEMMA LockMutexInv ==
  ASSUME IInv, NEW t \in Threads, LockMutex(t)
  PROVE  IInv'
<1>1. PICK m : m = On(t)
  OBVIOUS
<1>2. /\ ~Idle(t) /\ Proceed(t) /\ Head(todo[t]).do = "lock" /\ owner[m] = None
      /\ owner' = [owner EXCEPT ![m] = t] /\ UNCHANGED <<called, nested, mask, saved>>
  BY <1>1 DEF LockMutex, AboutTo
<1>3. Advanced(t)
  BY <1>2, Proceeds
<1>4. m \in Mutexes
  BY <1>1, <1>2, <1>3 DEF On, Instruction, Advanced
<1>5. Typed'
  BY <1>2, <1>3 DEF IInv, Typed, Advanced
<1>6. /\ owner'[m] = t /\ \A n \in Mutexes \ {m} : owner'[n] = owner[n]
      /\ owner[m] \notin Threads
  BY <1>2, <1>4, LockingAssumption DEF IInv, Typed
<1>7. ASSUME NEW u \in Threads, u # t PROVE Follows(u)'
  <2>1. Owned(u)' = Owned(u)
    BY <1>6, <1>7 DEF Owned
  <2> QED BY <1>2, <1>3, <1>7, <2>1, Others DEF IInv, Advanced
<1>8. Planned(t)'
  <2>1. PICK q, r \in Point : Leads(t, q, r)
    BY <1>2, Proceeds
  <2>2. Here(t).held = Owned(t) /\ Here(t).one = (saved[t] # None) /\ m \notin Owned(t)
    BY <1>6 DEF Here, At, Owned
  <2>3. r = At(Owned(t) \cup {m}, saved[t] # None)
    BY <1>1, <1>2, <2>1, <2>2 DEF Leads, Advance, On
  <2>4. Owned(t)' = Owned(t) \cup {m}
    BY <1>4, <1>6 DEF Owned
  <2>5. r = Here(t)'
    BY <1>2, <2>3, <2>4 DEF Here
  <2> QED BY <2>1, <2>5, Arrives
<1>9. MaskKept(t)'
  <2>1. Owned(t) \subseteq Owned(t)'
    BY <1>6 DEF Owned
  <2> QED BY <1>2, <1>3, <2>1 DEF IInv, Typed, Follows, MaskKept, Advanced
<1> QED BY <1>3, <1>5, <1>7, <1>8, <1>9 DEF IInv, Follows, Advanced

LEMMA UnlockMutexInv ==
  ASSUME IInv, NEW t \in Threads, UnlockMutex(t)
  PROVE  IInv'
<1>1. PICK m : m = On(t)
  OBVIOUS
<1>2. /\ ~Idle(t) /\ Proceed(t) /\ Head(todo[t]).do = "unlock"
      /\ owner' = [owner EXCEPT ![m] = None] /\ UNCHANGED <<called, nested, mask, saved>>
  BY <1>1 DEF UnlockMutex, AboutTo
<1>3. Advanced(t)
  BY <1>2, Proceeds
<1>4. m \in Mutexes
  BY <1>1, <1>2, <1>3 DEF On, Instruction, Advanced
<1>5. Typed'
  BY <1>2, <1>3 DEF IInv, Typed, Advanced
<1>6. PICK q, r \in Point : Leads(t, q, r)
  BY <1>2, Proceeds
<1>7. Here(t).held = Owned(t) /\ Here(t).one = (saved[t] # None)
  BY DEF Here, At
<1>8. /\ owner[m] = t /\ (saved[t] # None => m \notin Masked)
      /\ r = At(Owned(t) \ {m}, saved[t] # None)
  BY <1>1, <1>2, <1>6, <1>7 DEF Leads, Advance, On, Owned
<1>9. owner'[m] \notin Threads /\ \A n \in Mutexes \ {m} : owner'[n] = owner[n]
  BY <1>2, <1>4, LockingAssumption DEF IInv, Typed
<1>10. ASSUME NEW u \in Threads, u # t PROVE Follows(u)'
  <2>1. Owned(u)' = Owned(u)
    BY <1>4, <1>8, <1>9, <1>10 DEF Owned
  <2> QED BY <1>2, <1>3, <1>10, <2>1, Others DEF IInv, Advanced
<1>11. Planned(t)'
  <2>1. Owned(t)' = Owned(t) \ {m}
    BY <1>4, <1>9 DEF Owned
  <2>2. r = Here(t)'
    BY <1>2, <1>8, <2>1 DEF Here
  <2> QED BY <1>6, <2>2, Arrives
<1>12. MaskKept(t)'
  <2>1. Owned(t) \ {m} \subseteq Owned(t)'
    BY <1>9 DEF Owned
  <2> QED BY <1>2, <1>3, <1>8, <2>1 DEF IInv, Typed, Follows, MaskKept, Advanced
<1> QED BY <1>3, <1>5, <1>10, <1>11, <1>12 DEF IInv, Follows, Advanced

(* Reading, writing and the end of an evaluation change nothing else.      *)
LEMMA QuietInv ==
  ASSUME IInv, NEW t \in Threads, ~Idle(t), Proceed(t),
         Head(todo[t]).do \in {"read", "write", "evaluate"},
         UNCHANGED <<owner, called, nested, mask, saved>>
  PROVE  IInv'
<1>1. Advanced(t)
  BY Proceeds
<1>2. Typed'
  BY <1>1 DEF IInv, Typed, Advanced
<1>3. ASSUME NEW u \in Threads, u # t PROVE Follows(u)'
  <2>1. Owned(u)' = Owned(u)
    BY DEF Owned
  <2> QED BY <1>1, <1>3, <2>1, Others DEF IInv, Advanced, Follows, MaskKept
<1>4. Planned(t)'
  <2>1. PICK q, r \in Point : Leads(t, q, r)
    BY Proceeds
  <2>2. r = Here(t)
    BY <2>1 DEF Leads, Advance
  <2>3. Here(t)' = Here(t)
    BY DEF Here, Owned
  <2> QED BY <2>1, <2>2, <2>3, Arrives
<1>5. MaskKept(t)'
  BY <1>1 DEF IInv, Typed, Follows, MaskKept, Advanced, Owned
<1> QED BY <1>1, <1>2, <1>3, <1>4, <1>5 DEF IInv, Follows, Advanced

(* The steps on the mask are taken with int_evaluator, while no thread or  *)
(* this one only has a mask in use one time.                               *)
LEMMA MaskStep ==
  ASSUME IInv, NEW t \in Threads, ~Idle(t), Proceed(t), UNCHANGED <<owner, called, nested>>,
         Head(todo[t]).do \in {"set_mask", "enter_mask", "leave_mask"}
  PROVE  /\ Advanced(t) /\ On(t) \in Masks
         /\ Masked \subseteq Owned(t)
         /\ saved[t] # None <=> Head(todo[t]).do = "leave_mask"
         /\ \A u \in Threads \ {t} : saved[u] = None
         /\ \E q, r \in Point :
              Leads(t, q, r) /\ r = At(Owned(t), Head(todo[t]).do = "enter_mask")
<1>1. Advanced(t)
  BY Proceeds
<1>2. On(t) \in Masks
  BY <1>1 DEF On, Instruction, Advanced
<1>3. PICK q, r \in Point : Leads(t, q, r)
  BY Proceeds
<1>4. Here(t) = At(Owned(t), saved[t] # None) /\ Here(t).held = Owned(t) /\ Here(t).one = (saved[t] # None)
  BY DEF Here, At
<1>5. saved[t] # None => Masked \subseteq Owned(t)
  BY DEF IInv, Follows, MaskKept
<1>9. ASSUME NEW u \in Threads \ {t}, saved[u] # None, Masked \subseteq Owned(t) PROVE FALSE
  <2>1. Masked \subseteq Owned(u)
    BY <1>9 DEF IInv, Follows, MaskKept
  <2> QED BY <1>9, <2>1 DEF Masked, Owned
<1>6. CASE Head(todo[t]).do = "set_mask"
  <2>1. Masked \subseteq Owned(t) /\ saved[t] = None /\ r = Here(t)
    BY <1>3, <1>4, <1>6 DEF Leads, Advance
  <2> QED BY <1>1, <1>2, <1>3, <1>4, <1>6, <1>9, <2>1
<1>7. CASE Head(todo[t]).do = "enter_mask"
  <2>1. Masked \subseteq Owned(t) /\ saved[t] = None /\ r = At(Owned(t), TRUE)
    BY <1>3, <1>4, <1>7 DEF Leads, Advance
  <2> QED BY <1>1, <1>2, <1>3, <1>7, <1>9, <2>1
<1>8. CASE Head(todo[t]).do = "leave_mask"
  <2>1. saved[t] # None /\ r = At(Owned(t), FALSE)
    BY <1>3, <1>4, <1>8 DEF Leads, Advance
  <2> QED BY <1>1, <1>2, <1>3, <1>5, <1>8, <1>9, <2>1
<1> QED BY <1>6, <1>7, <1>8

LEMMA MaskStepInv ==
  ASSUME IInv, NEW t \in Threads, SetMask(t) \/ EnterMask(t) \/ LeaveMask(t)
  PROVE  IInv'
<1>1. /\ ~Idle(t) /\ Proceed(t) /\ UNCHANGED <<owner, called, nested>>
      /\ Head(todo[t]).do \in {"set_mask", "enter_mask", "leave_mask"}
  BY DEF SetMask, EnterMask, LeaveMask, AboutTo
<1>2. /\ Advanced(t) /\ On(t) \in Masks
      /\ Masked \subseteq Owned(t)
      /\ saved[t] # None <=> Head(todo[t]).do = "leave_mask"
      /\ \A u \in Threads \ {t} : saved[u] = None
  BY <1>1, MaskStep
<1>3. PICK q, r \in Point : Leads(t, q, r) /\ r = At(Owned(t), Head(todo[t]).do = "enter_mask")
  BY <1>1, MaskStep
<1>4. /\ mask' \in Masks /\ saved' \in [Threads -> Masks \cup {None}]
      /\ saved'[t] # None <=> Head(todo[t]).do = "enter_mask"
      /\ \A u \in Threads \ {t} : saved'[u] = saved[u]
      /\ Head(todo[t]).do = "enter_mask" => mask' = On(t)
  <2>1. CASE SetMask(t)
    BY <1>2, <2>1 DEF SetMask, AboutTo, IInv, Typed
  <2>2. CASE EnterMask(t)
    BY <1>2, <2>2, LockingAssumption DEF EnterMask, AboutTo, IInv, Typed
  <2>3. CASE LeaveMask(t)
    BY <1>2, <2>3 DEF LeaveMask, AboutTo, IInv, Typed
  <2> QED BY <2>1, <2>2, <2>3
<1>5. Typed'
  BY <1>1, <1>2, <1>4 DEF IInv, Typed, Advanced
<1>6. ASSUME NEW u \in Threads, u # t PROVE Follows(u)'
  <2>1. Owned(u)' = Owned(u)
    BY <1>1 DEF Owned
  <2> QED BY <1>1, <1>2, <1>4, <1>6, <2>1, Others DEF IInv, Advanced
<1>7. Planned(t)'
  <2>1. Owned(t)' = Owned(t)
    BY <1>1 DEF Owned
  <2>2. (saved'[t] # None) = (Head(todo[t]).do = "enter_mask")
    BY <1>4
  <2>3. r = Here(t)'
    BY <1>3, <2>1, <2>2 DEF Here
  <2> QED BY <1>3, <2>3, Arrives
<1>8. MaskKept(t)'
  <2> SUFFICES ASSUME saved'[t] # None
               PROVE  Masked \subseteq Owned(t)' /\ Leaves(todo'[t], mask')
    BY DEF MaskKept
  <2>1. Head(todo[t]).do = "enter_mask" /\ mask' = On(t)
    BY <1>4
  <2>2. Head(todo[t]) = [do |-> "enter_mask", on |-> On(t)]
    BY <1>2, <2>1 DEF Advanced, Instruction, On
  <2> QED BY <1>1, <1>2, <2>1, <2>2 DEF Advanced, Owned
<1> QED BY <1>2, <1>5, <1>6, <1>7, <1>8 DEF IInv, Follows, Advanced

LEMMA CallNestedInv ==
  ASSUME IInv, NEW t \in Threads, NEW n \in Nested, CallNested(t, n)
  PROVE  IInv'
<1> DEFINE k == On(t)
           s == todo[t]
<1>1. /\ ~Idle(t) /\ Head(s).do = "evaluate" /\ nested[t] < MaxNested
      /\ nested' = [nested EXCEPT ![t] = @ + 1] /\ UNCHANGED <<owner, call, called, mask, saved>>
  BY DEF CallNested, AboutTo
<1>2. PICK p : /\ todo' = [todo EXCEPT ![t] = p \o s]
               /\ \/ p = SolveArguments(k)
                  \/ n = "float32" /\ k = "real" /\ p = BinToFloat
                  \/ n = "float" /\ k = "int" /\ p = FromFloat
  <2>1. CASE n = "args" /\ todo' = [todo EXCEPT ![t] = SolveArguments(k) \o @]
    BY <2>1
  <2>2. CASE n = "float32" /\ k = "real" /\ todo' = [todo EXCEPT ![t] = BinToFloat \o @]
    BY <2>2
  <2>3. CASE n = "float" /\ k = "int" /\ todo' = [todo EXCEPT ![t] = FromFloat \o @]
    BY <2>3
  <2> QED BY <2>1, <2>2, <2>3 DEF CallNested
<1>3. PICK q \in Point : Start(q) /\ Outline(s, Here(t), q, Exposes(t))
  BY DEF IInv, Follows, Planned
<1>4. s \in Seq(Instruction) /\ s # <<>> /\ Exposes(t) \in SUBSET Data
  BY <1>1, ExposesData DEF IInv, Typed, Idle
<1>5. Head(s) \in Instruction /\ \E r \in Point : Advance(Head(s), Here(t), r)
  <2> HIDE DEF s
  <2> QED BY <1>3, <1>4, HerePoint, OutlineTail
<1>6. k \in Kinds /\ Evaluable(k, Here(t))
  BY <1>1, <1>5 DEF Advance, On, Instruction, Kinds
<1>7. Here(t).one => Masked \subseteq Here(t).held
  BY DEF IInv, Follows, MaskKept, Here, At
<1> DEFINE w == Exposes(t) \cup {"variables", "int_variables"}
<1>22. w \in SUBSET Data /\ {"variables", "int_variables"} \subseteq w /\ Exposes(t) \subseteq w
  BY <1>4 DEF Data, Mutexes
<1> HIDE DEF w
<1>8. Script(p, Here(t), Here(t), w)
  <2> HIDE DEF k
  <2> QED BY <1>2, <1>6, <1>7, <1>22, HerePoint, NestedScript
<1>9. p \in Seq(Instruction) /\ Paired(p) /\ Outline(p, Here(t), Here(t), w) /\ p # <<>>
  BY <1>8 DEF Script, Outline
<1>10. Outline(s, Here(t), q, w)
  BY <1>3, <1>4, <1>22, OutlineUnguarded
<1>11. Outline(p \o s, Here(t), q, w)
  <2> HIDE DEF s
  <2> QED BY <1>3, <1>9, <1>10, <1>22, HerePoint, OutlineConcat
<1>12. Paired(s)
  BY DEF IInv, Follows
<1>13. Paired(p \o s) /\ p \o s \in Seq(Instruction) /\ p \o s # <<>>
  <2> HIDE DEF s
  <2>1. Paired(p \o s)
    BY <1>4, <1>9, <1>12, PairedConcat
  <2>2. p \o s \in Seq(Instruction)
    BY <1>4, <1>9
  <2>3. p \o s # <<>>
    BY <1>4, <1>9, ConcatEqualIffEmpty
  <2> QED BY <2>1, <2>2, <2>3
<1>14. /\ todo'[t] = p \o s /\ todo' \in [Threads -> Seq(Instruction)]
       /\ \A u \in Threads \ {t} : todo'[u] = todo[u]
  BY <1>2, <1>13 DEF IInv, Typed
<1>15. /\ nested'[t] # 0 /\ nested' \in [Threads -> 0 .. MaxNested]
       /\ \A u \in Threads \ {t} : nested'[u] = nested[u]
  BY <1>1, LockingAssumption DEF IInv, Typed
<1>16. CallType'
  <2> SUFFICES ASSUME NEW u \in Threads
               PROVE  IF todo'[u] = <<>> THEN call'[u] = None ELSE call'[u] \in Calls
    BY DEF CallType, Idle
  <2> QED BY <1>1, <1>4, <1>13, <1>14 DEF IInv, Typed, CallType, Idle
<1>17. Typed'
  BY <1>1, <1>14, <1>15, <1>16 DEF IInv, Typed
<1>18. ASSUME NEW u \in Threads, u # t PROVE Follows(u)'
  <2>1. Owned(u)' = Owned(u)
    BY <1>1 DEF Owned
  <2> QED BY <1>1, <1>14, <1>15, <1>18, <2>1, Others DEF IInv, Follows, MaskKept
<1>19. Planned(t)'
  <2>1. Here(t)' = Here(t) /\ Exposes(t)' = w
    <3>1. nested'[t] > 0 /\ call'[t] = call[t]
      BY <1>1, <1>15
    <3> QED BY <1>1, <3>1 DEF Here, Owned, Exposes, w
  <2>2. Outline(todo'[t], Here(t)', q, Exposes(t)')
    BY <1>11, <1>14, <2>1
  <2> QED BY <1>3, <2>2 DEF Planned
<1>20. Paired(todo[t])'
  BY <1>13, <1>14
<1>21. MaskKept(t)'
  <2> SUFFICES ASSUME saved[t] # None
               PROVE  Leaves(todo'[t], mask)
    BY <1>1 DEF MaskKept, IInv, Follows, Owned
  <2>1. PICK i \in 1 .. Len(s) : s[i] = [do |-> "leave_mask", on |-> mask]
    BY DEF IInv, Follows, MaskKept, Leaves
  <2>2. /\ Len(p \o s) = Len(p) + Len(s) /\ Len(p) \in Nat /\ Len(s) \in Nat
        /\ (p \o s)[Len(p) + i] = s[i]
    <3> HIDE DEF s
    <3>1. \A j \in 1 .. Len(p) + Len(s) : (p \o s)[j] = IF j <= Len(p) THEN p[j] ELSE s[j - Len(p)]
      BY <1>4, <1>9, ConcatProperties
    <3>2. Len(p \o s) = Len(p) + Len(s) /\ Len(p) \in Nat /\ Len(s) \in Nat
      BY <1>4, <1>9, ConcatProperties
    <3>3. (p \o s)[Len(p) + i] = s[(Len(p) + i) - Len(p)] /\ (Len(p) + i) - Len(p) = i
      BY <2>1, <3>1, <3>2
    <3> QED BY <3>2, <3>3
  <2>3. Len(p) + i \in 1 .. Len(p \o s)
    BY <2>1, <2>2
  <2> QED BY <1>14, <2>1, <2>2, <2>3 DEF Leaves
<1> QED BY <1>17, <1>18, <1>19, <1>20, <1>21 DEF IInv, Follows

(* Every step of the specification keeps the invariant. *)
LEMMA NextInv == IInv /\ [Next]_vars => IInv'
<1> SUFFICES ASSUME IInv, [Next]_vars PROVE IInv'
  OBVIOUS
<1>1. ASSUME NEW t \in Threads, StartCall(t) PROVE IInv'
  BY <1>1, StartCallInv
<1>2. ASSUME NEW t \in Threads, LockMutex(t) PROVE IInv'
  BY <1>2, LockMutexInv
<1>3. ASSUME NEW t \in Threads, UnlockMutex(t) PROVE IInv'
  BY <1>3, UnlockMutexInv
<1>4. ASSUME NEW t \in Threads, Access(t) PROVE IInv'
  BY <1>4, QuietInv DEF Access, AboutTo
<1>5. ASSUME NEW t \in Threads, SetMask(t) \/ EnterMask(t) \/ LeaveMask(t) PROVE IInv'
  BY <1>5, MaskStepInv
<1>6. ASSUME NEW t \in Threads, FinishEvaluation(t) PROVE IInv'
  BY <1>6, QuietInv DEF FinishEvaluation, AboutTo
<1>7. ASSUME NEW t \in Threads, NEW n \in Nested, CallNested(t, n) PROVE IInv'
  BY <1>7, CallNestedInv
<1>8. CASE UNCHANGED vars
  BY <1>8 DEF vars, IInv, Typed, CallType, Idle, Follows, Planned, Here, Owned, Exposes, MaskKept
<1> QED BY <1>1, <1>2, <1>3, <1>4, <1>5, <1>6, <1>7, <1>8 DEF Next, Run

(* What the calls have left to do always fits the locks they hold. *)
THEOREM Invariant == Spec => []IInv
<1>1. Init => IInv
  BY InitInv
<1>2. IInv /\ [Next]_vars => IInv'
  BY NextInv
<1> QED BY <1>1, <1>2, PTL DEF Spec

-----------------------------------------------------------------------------
(* The types hold whatever the threads call. *)
THEOREM Types == Spec => []TypeOK
<1>1. IInv => TypeOK
  <2> SUFFICES ASSUME IInv PROVE TypeOK
    OBVIOUS
  <2>1. ASSUME NEW t \in Threads, NEW i \in DOMAIN todo[t]
        PROVE  todo[t][i] \in Instruction
    <3>1. todo[t] \in Seq(Instruction)
      BY DEF IInv, Typed
    <3> QED BY <3>1
  <2> QED BY <2>1 DEF TypeOK, IInv, Typed, CallType
<1> QED BY <1>1, Invariant, PTL

(* What a thread is about to touch it holds the mutex of, or its call      *)
(* exposes it.                                                             *)
LEMMA TouchesGuarded ==
  ASSUME IInv, NEW t \in Threads, NEW x \in Reads(t) \cup Writes(t), x \notin Exposes(t)
  PROVE  Guard(x) \in Mutexes /\ owner[Guard(x)] = t
<1>1. ~Idle(t)
  BY DEF Reads, Writes, AboutTo
<1>2. PICK q \in Point : Start(q) /\ Outline(todo[t], Here(t), q, Exposes(t))
  BY DEF IInv, Follows, Planned
<1>3. /\ Head(todo[t]) \in Instruction
      /\ Guarded(Head(todo[t]), Here(t).held, Exposes(t))
      /\ \E r \in Point : Advance(Head(todo[t]), Here(t), r)
  BY <1>1, <1>2, ExposesData, HerePoint, OutlineTail DEF Idle
<1>4. Here(t).held = Owned(t) /\ (Here(t).one => Masked \subseteq Owned(t))
  BY DEF Here, At, IInv, Follows, MaskKept
<1>5. CASE AboutTo(t, "read") \/ AboutTo(t, "write")
  <2>1. x = On(t)
    BY <1>5 DEF Reads, Writes, AboutTo
  <2> QED BY <1>3, <1>4, <1>5, <2>1 DEF Guarded, AboutTo, On, Owned
<1>6. CASE AboutTo(t, "evaluate")
  <2>1. /\ Evaluable(On(t), Here(t)) /\ On(t) \in {"real", "int"}
    BY <1>3, <1>6 DEF Advance, AboutTo, On, Instruction
  <2>2. Ufunc[On(t)] \in Owned(t) /\ (On(t) = "int" => "int_ufunc" \in Owned(t))
    BY <1>4, <2>1 DEF Evaluable, Masked
  <2>3. x = Ufunc[On(t)] \/ (x = "mask" /\ On(t) = "int")
    BY <1>6 DEF Reads, Writes, AboutTo
  <2>4. Guard(Ufunc[On(t)]) = Ufunc[On(t)]
    BY <2>1 DEF Guard, Ufunc
  <2> QED BY <2>2, <2>3, <2>4 DEF Guard, Owned
<1>7. CASE AboutTo(t, "set_mask") \/ AboutTo(t, "enter_mask") \/ AboutTo(t, "leave_mask")
  <2>1. x = "mask"
    BY <1>7 DEF Reads, Writes, AboutTo
  <2>2. Masked \subseteq Owned(t)
    BY <1>3, <1>4, <1>7 DEF Advance, AboutTo
  <2> QED BY <2>1, <2>2 DEF Guard, Masked, Owned
<1> QED BY <1>5, <1>6, <1>7 DEF Reads, Writes

(* Two threads touch the same data at once, one of them to write it, only  *)
(* if one of their calls exposes it: of all else each holds the mutex.     *)
THEOREM RaceFree == Spec => []NoRace
<1>1. IInv => NoRace
  <2> SUFFICES ASSUME IInv, NEW t \in Threads, NEW u \in Threads, t # u,
                      NEW x \in Writes(t) \cap (Reads(u) \cup Writes(u)),
                      x \notin Exposes(t) \cup Exposes(u)
               PROVE  FALSE
    BY DEF NoRace
  <2>1. owner[Guard(x)] = t /\ owner[Guard(x)] = u
    BY TouchesGuarded
  <2> QED BY <2>1
<1> QED BY <1>1, Invariant, PTL

-----------------------------------------------------------------------------
(* Where no call locks a mutex of its own, no thread gets stuck, ...       *)
LEMMA NeverStuck ==
  ASSUME Live, NEW s \in Seq(Instruction), NEW p \in Point, NEW q \in Point, NEW w, NEW A,
         ~p.stuck, Outlines(s, p, q, w, A)
  PROVE  \A i \in 1 .. Len(s) + 1 : ~A[i].stuck
<1> DEFINE S == {i \in 1 .. Len(s) + 1 : A[i].stuck}
<1> SUFFICES ASSUME S # {} PROVE FALSE
  OBVIOUS
<1>1. PICK n \in S : \A k \in S : n <= k
  <2>1. S \subseteq Nat
    OBVIOUS
  <2> HIDE DEF S
  <2> QED BY <2>1, Least
<1>2. n # 1 /\ Len(s) \in Nat
  BY <1>1 DEF Outlines
<1>3. n - 1 \in 1 .. Len(s) /\ ~A[n - 1].stuck /\ A[n].stuck
  BY <1>1, <1>2
<1>4. Moves(s[n - 1], A[n - 1], A[n], w)
  <2>1. Moves(s[n - 1], A[n - 1], A[(n - 1) + 1], w)
    BY <1>3 DEF Outlines
  <2>2. (n - 1) + 1 = n
    BY <1>3
  <2> QED BY <2>1, <2>2
<1> QED BY <1>3, <1>4 DEF Moves, Advance, At

(* ... and the locks and unlocks left tell what it holds.                  *)
LEMMA HeldByOutline ==
  ASSUME Live, NEW s \in Seq(Instruction), NEW p \in Point, NEW q \in Point, NEW w,
         ~p.stuck, q.held = {}, NEW m \in Mutexes, Outline(s, p, q, w)
  PROVE  m \in p.held <=>
           \E i \in 1 .. Len(s) : /\ s[i] = [do |-> "unlock", on |-> m]
                                  /\ \A j \in 1 .. i - 1 : s[j] # [do |-> "lock", on |-> m]
<1>1. PICK A : Outlines(s, p, q, w, A)
  BY DEF Outline
<1>2. \A i \in 1 .. Len(s) + 1 : A[i] \in Point /\ ~A[i].stuck
  BY <1>1, NeverStuck DEF Outlines
<1>3. Len(s) \in Nat /\ A[1] = p /\ A[Len(s) + 1] = q
  BY <1>1, <1>2 DEF Outlines
<1>4. ASSUME NEW i \in 1 .. Len(s)
      PROVE  /\ s[i] \in Instruction
             /\ m \in A[i].held /\ m \notin A[i + 1].held => s[i] = [do |-> "unlock", on |-> m]
             /\ m \notin A[i].held /\ m \in A[i + 1].held => s[i] = [do |-> "lock", on |-> m]
             /\ s[i] = [do |-> "unlock", on |-> m] => m \in A[i].held
             /\ s[i] = [do |-> "lock", on |-> m] => m \notin A[i].held
  <2>1. s[i] \in Instruction
    OBVIOUS
  <2>2. Advance(s[i], A[i], A[i + 1])
    BY <1>1, <1>2, <1>3 DEF Outlines, Moves
  <2>3. /\ s[i].do = "lock" => s[i] = [do |-> "lock", on |-> s[i].on]
        /\ s[i].do = "unlock" => s[i] = [do |-> "unlock", on |-> s[i].on]
    BY <2>1 DEF Instruction
  <2>4. ~A[i + 1].stuck
    BY <1>2, <1>3
  <2> QED BY <2>1, <2>2, <2>3, <2>4 DEF Advance, At
<1>5. ASSUME m \in p.held
      PROVE  \E i \in 1 .. Len(s) : /\ s[i] = [do |-> "unlock", on |-> m]
                                    /\ \A j \in 1 .. i - 1 : s[j] # [do |-> "lock", on |-> m]
  <2> DEFINE S == {i \in 1 .. Len(s) + 1 : m \notin A[i].held}
  <2>1. Len(s) + 1 \in S /\ 1 \notin S
    BY <1>3, <1>5
  <2>2. PICK n \in S : \A k \in S : n <= k
    <3>1. S \subseteq Nat /\ S # {}
      BY <1>3, <2>1
    <3> HIDE DEF S
    <3> QED BY <3>1, Least
  <2>3. n - 1 \in 1 .. Len(s) /\ (n - 1) + 1 = n /\ m \notin A[n].held
    BY <1>3, <2>1, <2>2
  <2>4. \A j \in 1 .. n - 1 : m \in A[j].held
    BY <1>3, <2>2
  <2>5. s[n - 1] = [do |-> "unlock", on |-> m]
    BY <1>4, <2>3, <2>4
  <2>6. \A j \in 1 .. (n - 1) - 1 : s[j] # [do |-> "lock", on |-> m]
    BY <1>4, <2>3, <2>4
  <2> QED BY <2>3, <2>5, <2>6
<1>6. ASSUME NEW i \in 1 .. Len(s), s[i] = [do |-> "unlock", on |-> m],
             \A j \in 1 .. i - 1 : s[j] # [do |-> "lock", on |-> m]
      PROVE  m \in p.held
  <2> DEFINE S == {j \in 1 .. i : m \in A[j].held}
  <2>1. i \in S
    BY <1>4, <1>6
  <2>2. PICK n \in S : \A k \in S : n <= k
    <3>1. S \subseteq Nat /\ S # {}
      BY <1>3, <2>1
    <3> HIDE DEF S
    <3> QED BY <3>1, Least
  <2>3. CASE n # 1
    <3>1. n - 1 \in 1 .. Len(s) /\ n - 1 \in 1 .. i - 1 /\ (n - 1) + 1 = n
      BY <1>3, <2>2, <2>3
    <3>2. m \notin A[n - 1].held /\ m \in A[n].held
      BY <2>2, <3>1
    <3> QED BY <1>4, <1>6, <3>1, <3>2
  <2> QED BY <1>3, <2>2, <2>3
<1> QED BY <1>5, <1>6

(* A thread holds a mutex exactly when it is going to release it, so none  *)
(* once its call returns, as long as no call locks a mutex of its own.     *)
THEOREM Released ==
  ASSUME Live
  PROVE  Spec => []HeldUntilReleased
<1>1. IInv => HeldUntilReleased
  <2> SUFFICES ASSUME IInv, NEW t \in Threads, NEW m \in Mutexes
               PROVE  owner[m] = t <=>
                        \E i \in DOMAIN todo[t] :
                          /\ todo[t][i] = [do |-> "unlock", on |-> m]
                          /\ \A j \in 1 .. i - 1 : todo[t][j] # [do |-> "lock", on |-> m]
    BY DEF HeldUntilReleased
  <2>1. PICK q \in Point : Start(q) /\ Outline(todo[t], Here(t), q, Exposes(t))
    BY DEF IInv, Follows, Planned
  <2>2. todo[t] \in Seq(Instruction) /\ DOMAIN todo[t] = 1 .. Len(todo[t])
    BY DEF IInv, Typed
  <2>3. q.held = {}
    BY <2>1 DEF Start
  <2>4. owner[m] = t <=> m \in Here(t).held
    BY DEF Here, At, Owned
  <2> QED BY <2>1, <2>2, <2>3, <2>4, HerePoint, HeldByOutline
<1> QED BY <1>1, Invariant, PTL

(* As long as no call locks a mutex of its own, the calls under way never  *)
(* all wait for a mutex: what a thread waits for ranks above what it holds.*)
THEOREM NeverDeadlocked ==
  ASSUME Live
  PROVE  Spec => []NoDeadlock
<1>1. IInv => NoDeadlock
  <2> SUFFICES ASSUME IInv, NEW v \in Threads, ~Idle(v),
                      \A t \in Threads : ~Idle(t) => Blocked(t)
               PROVE  FALSE
    BY DEF NoDeadlock
  <2> DEFINE Waits == {t \in Threads : Blocked(t)}
             S == {8 - Rank(On(t)) : t \in Waits}
  <2>1. ASSUME NEW t \in Waits
        PROVE  /\ On(t) \in Mutexes
               /\ \E u \in Waits : Rank(On(t)) < Rank(On(u))
    <3>1. PICK q \in Point : Start(q) /\ Outline(todo[t], Here(t), q, Exposes(t))
      BY DEF IInv, Follows, Planned
    <3>2. ~Idle(t) /\ Head(todo[t]).do = "lock" /\ owner[On(t)] # None
      BY DEF Blocked, AboutTo
    <3>3. Head(todo[t]) \in Instruction /\ \E r \in Point : Advance(Head(todo[t]), Here(t), r)
      <4>1. Exposes(t) \in SUBSET Data /\ todo[t] # <<>>
        BY <3>2, ExposesData DEF Idle
      <4> QED BY <3>1, <4>1, HerePoint, OutlineTail
    <3>4. On(t) \in Mutexes
      BY <3>2, <3>3 DEF Instruction, On
    <3>6. owner[On(t)] \in Threads
      BY <3>2, <3>4 DEF IInv, Typed
    <3>5. PICK u \in Threads : owner[On(t)] = u
      BY <3>6
    <3>7. On(t) \in Owned(u)
      BY <3>4, <3>5 DEF Owned
    <3>8. ~Idle(u)
      <4>1. PICK r \in Point : Start(r) /\ Outline(todo[u], Here(u), r, Exposes(u))
        BY DEF IInv, Follows, Planned
      <4>2. ASSUME Idle(u) PROVE r = Here(u)
        BY <4>1, <4>2, Len(<<>>) = 0, HerePoint DEF Idle, Outline, Outlines
      <4>3. r.held = {}
        BY <4>1 DEF Start
      <4> QED BY <3>7, <4>2, <4>3 DEF Here, At
    <3>9. u \in Waits
      BY <3>8
    <3>10. Head(todo[u]).do = "lock"
      BY <3>9 DEF Blocked, AboutTo
    <3>11. \E r \in Point : Advance(Head(todo[u]), Here(u), r)
      <4>1. PICK r \in Point : Start(r) /\ Outline(todo[u], Here(u), r, Exposes(u))
        BY DEF IInv, Follows, Planned
      <4>2. Exposes(u) \in SUBSET Data /\ todo[u] # <<>>
        BY <3>8, ExposesData DEF Idle
      <4> QED BY <4>1, <4>2, HerePoint, OutlineTail
    <3>12. Below(Owned(u), {On(u)})
      BY <3>10, <3>11 DEF Advance, Here, At, On
    <3> QED BY <3>4, <3>7, <3>9, <3>12 DEF Below
  <2>2. S \subseteq Nat
    BY <2>1, Ranks
  <2>3. S # {}
    BY DEF Waits
  <2> HIDE DEF S
  <2>4. PICK n \in S : \A k \in S : n <= k
    BY <2>2, <2>3, Least
  <2>5. PICK t \in Waits : n = 8 - Rank(On(t))
    BY DEF S
  <2>6. PICK u \in Waits : Rank(On(t)) < Rank(On(u))
    BY <2>1
  <2>7. 8 - Rank(On(u)) \in S
    BY DEF S
  <2>8. Rank(On(t)) \in Nat /\ Rank(On(u)) \in Nat
    BY <2>1, Ranks
  <2> QED BY <2>4, <2>5, <2>6, <2>7, <2>8
<1> QED BY <1>1, Invariant, PTL

-----------------------------------------------------------------------------
(* What sees the mask holds what guards it, so no other thread has a mask  *)
(* in use one time.                                                        *)
LEMMA Honoured == IInv => MaskHonoured
<1> SUFFICES ASSUME IInv, NEW t \in Threads, SeesMask(t)
             PROVE  \/ /\ saved[t] # None
                       /\ \E i \in DOMAIN todo[t] :
                            todo[t][i] = [do |-> "leave_mask", on |-> mask]
                    \/ \A u \in Threads : saved[u] = None
  BY DEF MaskHonoured
<1>1. owner["int_ufunc"] = t
  <2>1. "mask" \in Reads(t) /\ "mask" \notin Exposes(t)
    BY DEF SeesMask
  <2>2. owner[Guard("mask")] = t
    BY <2>1, TouchesGuarded
  <2> QED BY <2>2 DEF Guard
<1>2. CASE saved[t] # None
  <2>1. todo[t] \in Seq(Instruction)
    BY DEF IInv, Typed
  <2> QED BY <1>2, <2>1 DEF IInv, Follows, MaskKept, Leaves
<1>3. CASE saved[t] = None
  <2>1. ASSUME NEW u \in Threads, saved[u] # None PROVE u = t
    BY <1>1, <2>1 DEF IInv, Follows, MaskKept, Masked, Owned
  <2> QED BY <1>3, <2>1
<1> QED BY <1>2, <1>3

(* A step of a thread that does not set the mask sets it for no other. *)
LEMMA NotSet ==
  ASSUME IInv, NEW t \in Threads, \A u \in Threads \ {t} : todo'[u] = todo[u],
         Idle(t) \/ Head(todo[t]).do # "set_mask"
  PROVE  ~\E u \in Threads : SetMask(u)
<1> SUFFICES ASSUME NEW u \in Threads, SetMask(u) PROVE FALSE
  OBVIOUS
<1>1. u # t /\ todo[u] # <<>>
  BY DEF SetMask, AboutTo, Idle
<1>2. todo'[u] = Tail(todo[u])
  BY DEF SetMask, Proceed, IInv, Typed
<1>3. todo[u] \in Seq(Instruction)
  BY DEF IInv, Typed
<1>4. Len(Tail(todo[u])) = Len(todo[u]) - 1 /\ Len(todo[u]) \in Nat
  BY <1>1, <1>3
<1>5. todo'[u] = todo[u]
  BY <1>1
<1>6. Len(todo[u]) = Len(todo[u]) - 1
  BY <1>2, <1>4, <1>5
<1> QED BY <1>4, <1>6

(* The mask that callers know, when one thread or none has saved it. *)
LEMMA KnownMask ==
  ASSUME NEW t \in Threads, \A u \in Threads \ {t} : saved[u] = None
  PROVE  CallersMask = IF saved[t] # None THEN saved[t] ELSE mask
BY DEF CallersMask

(* The mask of tms_int_solve_e_wmask is used one time: what it parses and  *)
(* evaluates sees it to the end, no other thread does, but in a            *)
(* tms_set_int_var, and the mask that tms_set_int_mask set is back when it *)
(* returns.                                                                *)
THEOREM MaskOnce == Spec => MaskOneTime
<1> DEFINE Set == IF \E t \in Threads : SetMask(t)
                  THEN On(CHOOSE t \in Threads : SetMask(t)) ELSE CallersMask
<1>1. ASSUME IInv, NEW t \in Threads, SetMask(t)
      PROVE  CallersMask' = Set
  <2>1. ASSUME NEW u \in Threads, SetMask(u)
        PROVE  /\ Masked \subseteq Owned(u)
               /\ \A v \in Threads : saved[v] = None
    BY <1>1, <2>1, MaskStep DEF SetMask, AboutTo
  <2>2. \A u \in Threads : SetMask(u) => u = t
    BY <1>1, <2>1 DEF Masked, Owned
  <2>3. Set = On(t)
    BY <1>1, <2>2
  <2>4. CallersMask' = mask'
    BY <1>1, <2>1 DEF SetMask, CallersMask
  <2> QED BY <1>1, <2>3, <2>4 DEF SetMask
<1>2. ASSUME IInv, NEW t \in Threads, EnterMask(t)
      PROVE  CallersMask' = Set
  <2>1. /\ Advanced(t) /\ \A u \in Threads : saved[u] = None
        /\ ~Idle(t) /\ Head(todo[t]).do = "enter_mask"
    BY <1>2, MaskStep DEF EnterMask, AboutTo
  <2>2. Set = CallersMask
    BY <1>2, <2>1, NotSet DEF Advanced
  <2>3. CallersMask = mask
    BY <2>1 DEF CallersMask
  <2>4. /\ saved'[t] = mask /\ \A u \in Threads \ {t} : saved'[u] = None
        /\ mask # None
    BY <1>2, <2>1, LockingAssumption DEF EnterMask, IInv, Typed
  <2>5. CallersMask' = mask
    <3>1. \A u \in Threads : saved'[u] # None <=> u = t
      BY <2>4
    <3>2. (CHOOSE u \in Threads : saved'[u] # None) = t
      BY <3>1
    <3> QED BY <2>4, <3>1, <3>2 DEF CallersMask
  <2> QED BY <2>2, <2>3, <2>5
<1>3. ASSUME IInv, NEW t \in Threads, LeaveMask(t)
      PROVE  CallersMask' = Set
  <2>1. /\ Advanced(t) /\ saved[t] # None /\ \A u \in Threads \ {t} : saved[u] = None
        /\ ~Idle(t) /\ Head(todo[t]).do = "leave_mask"
    BY <1>3, MaskStep DEF LeaveMask, AboutTo
  <2>2. Set = CallersMask
    BY <1>3, <2>1, NotSet DEF Advanced
  <2>3. CallersMask = saved[t]
    BY <2>1, KnownMask
  <2>4. \A u \in Threads : saved'[u] = None
    BY <1>3, <2>1 DEF LeaveMask, IInv, Typed
  <2>5. CallersMask' = mask'
    BY <2>4 DEF CallersMask
  <2> QED BY <1>3, <2>2, <2>3, <2>5 DEF LeaveMask
<1>4. ASSUME IInv, NEW t \in Threads, UNCHANGED <<mask, saved>>,
             \/ StartCall(t) \/ LockMutex(t) \/ UnlockMutex(t) \/ Access(t)
             \/ FinishEvaluation(t) \/ \E n \in Nested : CallNested(t, n)
      PROVE  CallersMask' = Set
  <2>1. Idle(t) \/ Head(todo[t]).do # "set_mask"
    BY <1>4 DEF StartCall, LockMutex, UnlockMutex, Access, FinishEvaluation, CallNested, AboutTo
  <2>2. \A u \in Threads \ {t} : todo'[u] = todo[u]
    <3>1. todo \in [Threads -> Seq(Instruction)]
      BY <1>4 DEF IInv, Typed
    <3> QED BY <1>4, <3>1 DEF StartCall, LockMutex, UnlockMutex, Access, FinishEvaluation, CallNested,
                 Proceed
  <2>3. Set = CallersMask
    BY <1>4, <2>1, <2>2, NotSet
  <2> QED BY <1>4, <2>3 DEF CallersMask
<1>5. ASSUME IInv, Next PROVE CallersMask' = Set
  <2>1. PICK t \in Threads : StartCall(t) \/ Run(t)
    BY <1>5 DEF Next
  <2>2. CASE SetMask(t) \/ EnterMask(t) \/ LeaveMask(t)
    BY <1>1, <1>2, <1>3, <1>5, <2>2
  <2>3. CASE \/ StartCall(t) \/ LockMutex(t) \/ UnlockMutex(t) \/ Access(t)
             \/ FinishEvaluation(t) \/ \E n \in Nested : CallNested(t, n)
    <3>1. UNCHANGED <<mask, saved>>
      BY <2>3 DEF StartCall, LockMutex, UnlockMutex, Access, FinishEvaluation, CallNested
    <3> QED BY <1>4, <1>5, <2>3, <3>1
  <2> QED BY <2>1, <2>2, <2>3 DEF Run
<1>6. IInv /\ IInv' /\ [Next]_vars => [MaskHonoured' /\ CallersMask' = Set]_vars
  <2>1. IInv' => MaskHonoured'
    BY Honoured, PTL
  <2> QED BY <1>5, <2>1
<1> QED BY <1>6, Invariant, PTL DEF Spec, MaskOneTime
=============================================================================
