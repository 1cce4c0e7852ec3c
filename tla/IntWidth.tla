------------------------------ MODULE IntWidth ------------------------------
(***************************************************************************)
(* The integer mode: 64-bit signed variables everywhere, and a mask that   *)
(* makes them look like integers of another width.  The operators of       *)
(* evaluator.c and the functions of bitwise.c apply the mask where they    *)
(* must, not everywhere; this module keeps them as they are, for words of  *)
(* Bits bits instead of 64, an int having half as many.                    *)
(*                                                                         *)
(* The steps are those of expressions "ans op operand" and "f(ans)":       *)
(* parsed, which reads the operand under the mask of that moment, and      *)
(* evaluated, under the mask of a later one; tms_set_int_mask may come     *)
(* between them, since tms_int_solve_e releases its locks there.           *)
(*                                                                         *)
(* What is abstracted: overflow of signed variables wraps around, as the   *)
(* machine's instructions do (the standard leaves it undefined), a shift   *)
(* by the full width shifts by nothing, and the division of the least      *)
(* integer by -1 traps, as on x86.                                         *)
(***************************************************************************)
EXTENDS BitSets, FiniteSets   \* Bits is the width of an int64_t

CONSTANTS Sizes,      \* widths given to tms_set_int_mask
          Magnitudes, \* what literals read
          None

ASSUME IntWidthAssumption ==
  /\ Bits \in Nat /\ Bits >= 4 /\ Bits % 2 = 0
  /\ Sizes \subseteq {n \in 1 .. Bits : \E k \in 0 .. n : n = Pow2[k]}
  /\ Magnitudes \subseteq 0 .. Pow2[Bits] - 1

VARIABLES size,     \* tms_int_mask_size
          ans,      \* answer of the last expression
          node,     \* operator and operand of the one parsed, or None
          trapped   \* the program was stopped by the processor

vars == <<size, ans, node, trapped>>

-----------------------------------------------------------------------------
MIN == -(Pow2[Bits - 1])
MAX == Pow2[Bits - 1] - 1
IntBits == Bits \div 2
RAND_MAX == Pow2[IntBits - 1] - 1

(* Faulty variant: no bit is lost.                                        *)
Carried(x) == x

(* The variable of type int64_t with these bits, or equal to x modulo 2^64. *)
BitsOf(v) == {i \in 0 .. Bits - 1 : One(v, i)}
Wrap(x) == ((x + Pow2[Bits - 1]) % Pow2[Bits]) - Pow2[Bits - 1]
Signed(S) == Wrap(Value(S))
Flip(v) == -1 - v

(* Faulty variant: the mask is forgotten.                                  *)
UnmaskedBits(v) == BitsOf(v)

(* tms_int_mask, and value & tms_int_mask *)
Mask == 0 .. size - 1
MaskedBits(v) == BitsOf(v) \cap Mask
Masked(v) == Signed(MaskedBits(v))

(* tms_sign_extend *)
SignExtend(v) ==
  IF size - 1 \in BitsOf(v) THEN Signed(BitsOf(v) \cup (size .. Bits - 1)) ELSE v

(* Shifts of unsigned variables *)
ShiftLeft(S, n) == {i + (n % Bits) : i \in S} \cap 0 .. Bits - 1
ShiftRight(S, n) == {i - (n % Bits) : i \in S} \cap 0 .. Bits - 1

Abs(x) == IF x < 0 THEN -x ELSE x

(* Faulty variant: the signs are not looked at.                            *)
QuotientUnsigned(a, b) == Abs(a) \div Abs(b)

(* The division of C *)
Quotient(a, b) ==
  IF (a < 0) = (b < 0) THEN Abs(a) \div Abs(b) ELSE -(Abs(a) \div Abs(b))
Remainder(a, b) == a - b * Quotient(a, b)

-----------------------------------------------------------------------------
(* _tms_rotate_circular_i *)
Rotate(v, n, right) ==
  LET S == MaskedBits(v)
      k == n % size
      turned == IF right THEN ShiftRight(S, k) \cup ShiftLeft(S, size - k)
                ELSE ShiftLeft(S, k) \cup ShiftRight(S, size - k)
  IN  SignExtend(Masked(Signed(turned)))

(* _tms_sr *)
LogicalShift(v, n) == Signed(ShiftRight(MaskedBits(v), n))

(* The operator "p": a loop that multiplies, for an exponent that is not   *)
(* negative.                                                               *)
Power(a, b) ==
  LET x == SignExtend(a)
      p[n \in 0 .. MAX] == IF n = 0 THEN 1 ELSE Wrap(p[n - 1] * x)
  IN  p[SignExtend(b)]

(* tms_int_fact: 0 where __builtin_mul_overflow stops it. *)
Product(n) ==
  LET f[k \in 0 .. MAX] ==
        IF k < 2 THEN 1
        ELSE LET g == f[k - 1] IN IF g * k > MAX THEN 0 ELSE g * k
  IN  f[n]

(* Faulty variant: a factorial that needs the sign bit is not refused.     *)
FactorialFitsMask(n) == Product(n) # 0 /\ Product(n) = Masked(Product(n))

FactorialFits(n) ==
  Product(n) # 0 /\ Product(n) = SignExtend(Masked(Product(n)))

(* Faulty variant: one bit more.                                           *)
LowBitsMore(n) == IF n >= Bits - 1 THEN -1 ELSE Wrap(Pow2[n + 1] - 1)

(* tms_mask of a number of bits that is not negative, tms_mask (tms_inv_mask *)
(* is the reverse), _tms_mask_range *)
LowBits(n) == IF n > Bits - 1 THEN -1 ELSE Wrap(Pow2[n] - 1)
MaskOf(n) == IF n < 0 THEN Flip(LowBits(-n)) ELSE LowBits(n)
MaskRange(start, end) ==
  IF start <= end THEN Wrap(LowBits(end - start + 1) * Pow2[start])
  ELSE Flip(Wrap(LowBits(start - end + 1) * Pow2[end]))

Ones(v) == Cardinality(MaskedBits(v))

-----------------------------------------------------------------------------
Binary == {"&", "|", "^", "+", "-", "*", "/", "%", "r", "l", ">", "<", "p", "nor",
           "nand", "sr", "min", "max", "hamming_dist", "mask_range", "rand"}
Unary == {"not", "abs", "fact", "mask", "inv_mask", "mask_bit", "ipv4_prefix",
          "zeros", "ones", "parity"}
Operators == Binary \cup Unary

ASSUME NoneAssumption == None \notin [op : Operators, operand : Int \cup SUBSET Int]

(* What the operator op, or the function, makes of a and b. *)
Result(op, a, b) ==
  CASE op = "&" -> Signed(BitsOf(a) \cap BitsOf(b))
    [] op = "|" -> Signed(BitsOf(a) \cup BitsOf(b))
    [] op = "^" -> Signed((BitsOf(a) \cup BitsOf(b)) \ (BitsOf(a) \cap BitsOf(b)))
    [] op = "nor" -> Flip(Signed(BitsOf(a) \cup BitsOf(b)))
    [] op = "nand" -> Flip(Signed(BitsOf(a) \cap BitsOf(b)))
    [] op = "not" -> Flip(a)
    [] op = "+" -> Wrap(a + b)
    [] op = "-" -> Wrap(a - b)
    [] op = "*" -> Wrap(a * b)
    [] op = "/" -> Quotient(a, b)
    [] op = "%" -> Remainder(a, b)
    [] op = "r" -> Rotate(a, b, TRUE)
    [] op = "l" -> Rotate(a, b, FALSE)
    [] op = ">" -> a \div Pow2[b]
    [] op = "<" -> Wrap(a * Pow2[b])
    [] op = "sr" -> LogicalShift(a, b)
    [] op = "p" -> Power(a, b)
    [] op = "abs" -> IF a > 0 THEN a ELSE Wrap(-a)
    [] op = "min" -> IF a < b THEN a ELSE b
    [] op = "max" -> IF a > b THEN a ELSE b
    [] op = "fact" -> Product(a)
    [] op = "mask" -> MaskOf(a)
    [] op = "inv_mask" -> Flip(MaskOf(a))
    [] op = "mask_bit" -> Wrap(Pow2[a])
    [] op = "mask_range" -> MaskRange(a, b)
    [] op = "ipv4_prefix" -> Flip(MaskOf(IntBits - a))
    [] op = "ones" -> Ones(a)
    [] op = "zeros" -> size - Ones(a)
    [] op = "parity" -> Ones(a) % 2
    [] op = "hamming_dist" -> Ones(Signed((BitsOf(a) \cup BitsOf(b))
                                            \ (BitsOf(a) \cap BitsOf(b))))

(* Faulty variant: the divisor of "/" is not looked at.                    *)
ModuloByZero(op, b) == op = "%" /\ b = 0

DivisionByZero(op, b) == op \in {"/", "%"} /\ b = 0

(* The evaluations that end in an error. *)
Refused(op, a, b) ==
  \/ DivisionByZero(op, b)
  \/ op \in {"r", "l"} /\ b < 0
  \/ op \in {">", "<", "sr"} /\ b \notin 0 .. size - 1
  \/ op = "p" /\ SignExtend(b) < 0
  \/ op = "fact" /\ ~(a >= 0 /\ FactorialFits(a))
  \/ op = "mask_bit" /\ a \notin 0 .. size - 1
  \/ op = "mask_range" /\ ~({a, b} \subseteq 0 .. size - 1)
  \/ op = "ipv4_prefix" /\ (size # IntBits \/ a \notin 0 .. IntBits)
  \/ op = "rand" /\ a >= b

(* Those the processor stops: a division by zero, a quotient of 2^63,      *)
(* tms_mask calling itself for ever, a range of 2^64 numbers.              *)
Traps(op, a, b) ==
  \/ op \in {"/", "%"} /\ (b = 0 \/ (a = MIN /\ b = -1))
  \/ op \in {"mask", "inv_mask"} /\ a = MIN
  \/ op = "rand" /\ Wrap(b - a + 1) = 0

-----------------------------------------------------------------------------
(* _tms_read_int_helper: a literal in base 10 must fit the signed width,   *)
(* one in another base the unsigned width; "-" comes after that.           *)
Literals == [decimal : BOOLEAN, magnitude : Magnitudes, negative : BOOLEAN]
Readable(l) ==
  LET m == Wrap(l.magnitude)
  IN  IF l.decimal THEN m >= 0 /\ SignExtend(Masked(m)) = m ELSE Masked(m) = m
Read == {IF l.negative THEN Wrap(-l.magnitude) ELSE Wrap(l.magnitude) :
           l \in {k \in Literals : Readable(k)}}

Init == /\ size \in Sizes
        /\ ans = 0 /\ node = None /\ trapped = FALSE

(* tms_set_int_mask *)
SetIntMask(s) == /\ ~trapped
                 /\ size' = s
                 /\ UNCHANGED <<ans, node, trapped>>

(* An expression that is a literal *)
Load == /\ ~trapped /\ node = None
        /\ ans' \in Read
        /\ UNCHANGED <<size, node, trapped>>

(* An expression with an operator: unary ones look at ans alone. *)
Parse == /\ ~trapped /\ node = None
         /\ node' \in [op : Binary, operand : Read] \cup [op : Unary, operand : {0}]
         /\ UNCHANGED <<size, ans, trapped>>

Evaluate ==
  /\ ~trapped /\ node # None /\ node.op # "rand"
  /\ ~Refused(node.op, ans, node.operand) /\ ~Traps(node.op, ans, node.operand)
  /\ ans' = Result(node.op, ans, node.operand)
  /\ node' = None
  /\ UNCHANGED <<size, trapped>>

(* _tms_int_rand, with two calls of rand *)
EvaluateRand ==
  /\ ~trapped /\ node # None /\ node.op = "rand"
  /\ ~Refused("rand", ans, node.operand) /\ ~Traps("rand", ans, node.operand)
  /\ \E low, high \in 0 .. RAND_MAX :
       LET random == SignExtend(Masked(Wrap(low + high * Pow2[IntBits])))
       IN  ans' = Wrap(Remainder(random, Wrap(node.operand - ans + 1)) + ans)
  /\ node' = None
  /\ UNCHANGED <<size, trapped>>

Refuse == /\ ~trapped /\ node # None /\ Refused(node.op, ans, node.operand)
          /\ node' = None
          /\ UNCHANGED <<size, ans, trapped>>

Trap == /\ ~trapped /\ node # None
        /\ ~Refused(node.op, ans, node.operand) /\ Traps(node.op, ans, node.operand)
        /\ trapped' = TRUE
        /\ UNCHANGED <<size, ans, node>>

Next == \/ \E s \in Sizes : SetIntMask(s)
        \/ Load \/ Parse \/ Evaluate \/ EvaluateRand \/ Refuse \/ Trap

Spec == Init /\ [][Next]_vars

-----------------------------------------------------------------------------
(* The types: every variable of the evaluator stays within its 64 bits.    *)
TypeOK == /\ size \in Sizes
          /\ ans \in MIN .. MAX
          /\ node \in {None} \cup [op : Operators, operand : MIN .. MAX]
          /\ trapped \in BOOLEAN

(* "This mask is what allows the library to emulate integers of width      *)
(* [1-64]": seen through the mask, however it is changed in between and    *)
(* whatever the bits above it are, the answers are those of a machine of   *)
(* that width.                                                             *)
Seen(v) == BitsOf(v) \cap Mask
Machine == INSTANCE WordMachine WITH
             word <- Seen(ans),
             instr <- IF node = None THEN None
                      ELSE [op |-> node.op, operand |-> Seen(node.operand)]
Implements == Machine!Spec

(* Same value through the mask; a value of the signed width; one of the    *)
(* signed or unsigned width, and the signed one with its bits.             *)
Congruent(x, y) == (x - y) % Pow2[size] = 0
Canonical(v) == v \in -(Pow2[size - 1]) .. Pow2[size - 1] - 1
Fits(v) == v \in -(Pow2[size - 1]) .. Pow2[size] - 1
SignedWord(v) == CHOOSE x \in MIN .. MAX : Canonical(x) /\ Congruent(x, v)

(* The operations that see a sign give what they give with integers of the *)
(* width of the mask, from operands of that width; for powers unsigned     *)
(* operands will do.                                                       *)
SignedPower(x, n) ==
  LET p[k \in 0 .. n] == IF k = 0 THEN 1 ELSE (p[k - 1] * x) % Pow2[size]
  IN  p[n]
SignedRight(op, a, b, v) ==
  /\ op \in {"/", "%"} /\ Canonical(a) /\ Canonical(b) =>
       \E q \in MIN - 1 .. MAX + 1 :
         LET r == a - q * b
         IN  /\ Abs(r) < Abs(b) /\ r * a >= 0
             /\ Congruent(v, IF op = "/" THEN q ELSE r)
  /\ op = ">" /\ Canonical(a) => v * Pow2[b] <= a /\ a < (v + 1) * Pow2[b]
  /\ op = "p" /\ Fits(a) /\ Fits(b) =>
       Congruent(v, SignedPower(SignedWord(a), SignedWord(b)))
  /\ op \in {"min", "max"} =>
       /\ v \in {a, b}
       /\ op = "min" => v <= a /\ v <= b
       /\ op = "max" => v >= a /\ v >= b
  /\ op = "abs" /\ Canonical(a) => Congruent(v, Abs(a))
SignedOperations == [][Evaluate => SignedRight(node.op, ans, node.operand, ans')]_vars

(* A factorial is answered exactly when it is a signed integer of the      *)
(* width of the mask, and is refused otherwise.                            *)
Factorial[n \in 0 .. Bits] == IF n = 0 THEN 1 ELSE n * Factorial[n - 1]
FactorialExact ==
  [][node # None /\ node.op = "fact" /\ node' = None =>
       IF ans \in 0 .. Bits /\ Canonical(Factorial[ans])
       THEN ans' = Factorial[ans] ELSE Refuse]_vars

(* The masks have the bits they are named for, also where the width of a   *)
(* variable bounds them, and a negative width is that of the inverse.      *)
MaskShape(op, a, b, v) ==
  \A i \in 0 .. Bits - 1 :
    LET Bit == i \in BitsOf(v)
    IN  /\ op = "mask" => (Bit <=> IF a >= 0 THEN i < a ELSE i >= -a)
        /\ op = "inv_mask" => (Bit <=> IF a >= 0 THEN i >= a ELSE i < -a)
        /\ op = "ipv4_prefix" => (Bit <=> i >= IntBits - a)
        /\ op = "mask_range" => (Bit <=> IF a <= b THEN a <= i /\ i <= b
                                          ELSE ~(b <= i /\ i <= a))
MaskShapes == [][Evaluate => MaskShape(node.op, ans, node.operand, ans')]_vars

(* Where there is more to an operation than bits under a mask, it gives    *)
(* what its name says: the signed answers, the factorials, the masks.      *)
OperationsRight == SignedOperations /\ FactorialExact /\ MaskShapes

(* No expression stops the program but one that starts from the least      *)
(* integer of 64 bits, which only that width can hold.                     *)
TrapsAtLeast == trapped => ans = MIN
=============================================================================
