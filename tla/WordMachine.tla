----------------------------- MODULE WordMachine -----------------------------
(***************************************************************************)
(* What the integer mode promises: "This mask is what allows the library   *)
(* to emulate integers of width [1-64]".  A machine with words of size     *)
(* bits, a register that holds the answer of the last expression, and the  *)
(* expression parsed next: an operator to apply to the register, with its  *)
(* right operand.                                                          *)
(*                                                                         *)
(* A word is the set of the positions of its ones, so that the machine     *)
(* knows of no sign and of no bits beyond its size.  Operations that       *)
(* depend on these (division, comparison, arithmetic shift, powers) leave  *)
(* any word in the register here.                                          *)
(***************************************************************************)
EXTENDS BitSets, FiniteSets

CONSTANTS Sizes,    \* widths that can be set
          Operators,
          None      \* no expression parsed

VARIABLES size,     \* width of a word
          word,     \* the register
          instr     \* operator and right operand, or None

vars == <<size, word, instr>>

Words(s) == SUBSET (0 .. s - 1)

(* The word of a number. *)
Word(n) == {i \in 0 .. size - 1 : One(n, i)}

SymmetricDifference(w, v) == (w \ v) \cup (v \ w)
Complement(w) == (0 .. size - 1) \ w

ByBits == {"&", "|", "^", "+", "-", "*", "r", "l", "<", "nor", "nand", "sr",
           "hamming_dist", "not", "zeros", "ones", "parity", "mask_bit"}

Apply(op, w, v) ==
  CASE op = "&" -> w \cap v
    [] op = "|" -> w \cup v
    [] op = "^" -> SymmetricDifference(w, v)
    [] op = "nor" -> Complement(w \cup v)
    [] op = "nand" -> Complement(w \cap v)
    [] op = "not" -> Complement(w)
    [] op = "+" -> Word(Value(w) + Value(v))
    [] op = "-" -> Word(Value(w) - Value(v))
    [] op = "*" -> Word(Value(w) * Value(v))
    [] op = "r" -> {(i + size - (Value(v) % size)) % size : i \in w}
    [] op = "l" -> {(i + Value(v)) % size : i \in w}
    [] op = "<" -> {i + Value(v) : i \in w} \cap 0 .. size - 1
    [] op = "sr" -> {i - Value(v) : i \in w} \cap 0 .. size - 1
    [] op = "ones" -> Word(Cardinality(w))
    [] op = "zeros" -> Word(size - Cardinality(w))
    [] op = "parity" -> Word(Cardinality(w) % 2)
    [] op = "hamming_dist" -> Word(Cardinality(SymmetricDifference(w, v)))
    [] op = "mask_bit" -> {Value(w)}

Init == size \in Sizes /\ word = {} /\ instr = None

(* An expression of one operand. *)
Load == instr = None /\ word' \in Words(size) /\ UNCHANGED <<size, instr>>

Fetch ==
  /\ instr = None
  /\ instr' \in [op : Operators, operand : Words(size)]
  /\ UNCHANGED <<size, word>>

Execute ==
  /\ instr # None
  /\ word' \in IF instr.op \in ByBits THEN {Apply(instr.op, word, instr.operand)}
               ELSE Words(size)
  /\ instr' = None
  /\ UNCHANGED size

Refuse == instr # None /\ instr' = None /\ UNCHANGED <<size, word>>

(* Bits both sizes have are kept. *)
SetSize(s) ==
  LET Common(w, v) == \A i \in 0 .. size - 1 : i < s => (i \in w <=> i \in v)
  IN  /\ size' = s
      /\ word' \in Words(s) /\ Common(word, word')
      /\ IF instr = None THEN instr' = None
         ELSE /\ instr' \in [op : {instr.op}, operand : Words(s)]
              /\ Common(instr.operand, instr'.operand)

Next == \/ Load \/ Fetch \/ Execute \/ Refuse
        \/ \E s \in Sizes : SetSize(s)

Spec == Init /\ [][Next]_vars
=============================================================================
