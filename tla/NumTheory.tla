------------------------------ MODULE NumTheory ------------------------------
(***************************************************************************)
(* The loops over integers: gcd, lcm and multinv of bitwise.c, with the    *)
(* tms_gcd they share, and the factorisation of scientific.c with the      *)
(* reduction of fractions made of it.  A behaviour is one call, a step one *)
(* round of a loop.                                                        *)
(*                                                                         *)
(* What is abstracted: the limits of the integer types are parameters; the *)
(* arguments are values (the expressions they come from, and what fails    *)
(* in them, are those of an evaluation), and pow, exact for these numbers, *)
(* is a power.                                                             *)
(***************************************************************************)
EXTENDS Integers, Sequences, FiniteSets

CONSTANTS INT64_MAX, INT32_MAX,
          Largest,     \* largest integer of the width of tms_int_mask
          Operands,    \* arguments of gcd and lcm
          MaxArgs,     \* bound on how many they are
          Values,      \* first arguments of multinv
          Moduli,      \* second ones
          Numbers      \* arguments of tms_find_factors, parts of fractions

ASSUME NumTheoryAssumption ==
  /\ INT32_MAX \in Nat /\ INT32_MAX >= 3
  /\ INT64_MAX \in Nat /\ INT64_MAX >= INT32_MAX * INT32_MAX
  /\ Largest \in 1 .. INT64_MAX
  /\ MaxArgs \in 2 .. INT32_MAX
  /\ Operands \cup Values \cup Moduli \subseteq -INT64_MAX - 1 .. INT64_MAX
  /\ Numbers \subseteq -INT32_MAX - 1 .. INT32_MAX

VARIABLES fn, args,           \* the call
          pc,
          a, b,               \* of tms_gcd
          i, acc,             \* loop index and value of the calling function
          euclid,             \* the columns of the table of multinv
          value, dividend,    \* of tms_find_factors
          factors, other,     \* list being made, the one made before
          fraction            \* fraction_str->b and c

gcdvars == <<a, b>>
facvars == <<value, dividend, factors>>
call == <<fn, args>>
vars == <<call, pc, gcdvars, i, acc, euclid, facvars, other, fraction>>

-----------------------------------------------------------------------------
Abs(x) == IF x < 0 THEN -x ELSE x
Smaller(x, y) == IF x < y THEN x ELSE y
Larger(x, y) == IF x < y THEN y ELSE x
INT64_MIN == -INT64_MAX - 1
INT32_MIN == -INT32_MAX - 1

Product(f, n) == LET p[k \in 0 .. n] == IF k = 0 THEN 1 ELSE p[k - 1] * f[k]
                 IN  p[n]
Power(x, n) == Product([k \in 1 .. n |-> x], n)

(* Integers are made of bits: their range is a power of two on each side. *)
ASSUME BitsAssumption ==
  \A max \in {INT64_MAX, INT32_MAX} : \E n \in 0 .. max : max + 1 = Power(2, n)

(* Negative numbers are negated; the least integer of a type has no other  *)
(* sign and stays as it is.  (The overflow is undefined in C; this is what *)
(* comes of it at every level of optimisation.)                            *)
Magnitude(x, least) == IF x = least THEN x ELSE Abs(x)

(* % of C, of a number that is not negative.                               *)
Rest(x, y) == x % Abs(y)

Columns == [r1 |-> 0, r2 |-> 0, r |-> 0, s2 |-> 0, s |-> 0, t2 |-> 0, t |-> 0]

Calls ==
  [fn : {"gcd", "lcm"}, args : UNION {[1 .. n -> Operands] : n \in 2 .. MaxArgs}]
    \cup [fn : {"multinv"}, args : {<<x, m>> : x \in Values, m \in Moduli}]
    \cup [fn : {"find_factors"}, args : {<<x>> : x \in Numbers}]
    \cup [fn : {"reduce_fraction"}, args : {<<x, y>> : x, y \in Numbers \cap Nat}]

Init == /\ \E c \in Calls : fn = c.fn /\ args = c.args
        /\ pc = "start"
        /\ a = 0 /\ b = 0 /\ i = 0 /\ acc = 0
        /\ euclid = Columns
        /\ value = 0 /\ dividend = 0 /\ factors = <<>> /\ other = <<>>
        /\ fraction = <<>>

At(f, p) == fn = f /\ pc = p
Goto(p) == pc' = p

-----------------------------------------------------------------------------
(* Faulty variant: a remainder of 1 is taken for 0.                        *)
GcdStepEarly ==
  /\ pc = "gcd" /\ Smaller(a, b) # 0
  /\ LET r == Rest(Larger(a, b), Smaller(a, b))
     IN  /\ a' = Smaller(a, b)
         /\ IF r > 1 THEN b' = r /\ pc' = pc
            ELSE b' = Smaller(a, b) /\ Goto("gcd_done")
  /\ UNCHANGED <<call, i, acc, euclid, facvars, other, fraction>>

(* tms_gcd: one round of the loop, which stops the program if the smaller  *)
(* number is 0.                                                            *)
GcdStep ==
  /\ pc = "gcd" /\ Smaller(a, b) # 0
  /\ LET r == Rest(Larger(a, b), Smaller(a, b))
     IN  /\ a' = Smaller(a, b)
         /\ IF r > 0 THEN b' = r /\ pc' = pc
            ELSE b' = Smaller(a, b) /\ Goto("gcd_done")
  /\ UNCHANGED <<call, i, acc, euclid, facvars, other, fraction>>

GcdTrap ==
  /\ pc = "gcd" /\ Smaller(a, b) = 0
  /\ Goto("trapped")
  /\ UNCHANGED <<call, gcdvars, i, acc, euclid, facvars, other, fraction>>

CallGcd(x, y) ==
  a' = Magnitude(x, INT64_MIN) /\ b' = Magnitude(y, INT64_MIN) /\ Goto("gcd")

(* _tms_gcd, _tms_lcm: the arguments are checked, then taken in turn. *)
CheckOperands ==
  /\ fn \in {"gcd", "lcm"} /\ pc = "start"
  /\ acc' = args[1] /\ i' = 2
  /\ Goto(IF \E k \in DOMAIN args : args[k] = INT64_MIN THEN "refused" ELSE "fold")
  /\ UNCHANGED <<call, gcdvars, euclid, facvars, other, fraction>>

NextOperand ==
  /\ pc = "fold"
  /\ IF i <= Len(args) THEN CallGcd(acc, args[i])
     ELSE Goto("done") /\ UNCHANGED gcdvars
  /\ UNCHANGED <<call, i, acc, euclid, facvars, other, fraction>>

FoldGcd ==
  /\ At("gcd", "gcd_done")
  /\ acc' = b /\ i' = i + 1 /\ Goto("fold")
  /\ UNCHANGED <<call, gcdvars, euclid, facvars, other, fraction>>

(* Faulty variant: no product is too large.                                *)
FitsAny(x) == TRUE

(* The product must be an integer of the width of the mask. *)
Fits(x) == x \in -Largest - 1 .. Largest

(* Faulty variant: the numbers are multiplied before the division.         *)
FoldLcmLate ==
  /\ At("lcm", "gcd_done")
  /\ IF Fits(acc * args[i])
     THEN acc' = ((acc * args[i]) \div b) /\ i' = i + 1 /\ Goto("fold")
     ELSE Goto("refused") /\ UNCHANGED <<acc, i>>
  /\ UNCHANGED <<call, gcdvars, euclid, facvars, other, fraction>>

FoldLcm ==
  /\ At("lcm", "gcd_done")
  /\ IF Fits((acc \div b) * args[i])
     THEN acc' = (acc \div b) * args[i] /\ i' = i + 1 /\ Goto("fold")
     ELSE Goto("refused") /\ UNCHANGED <<acc, i>>
  /\ UNCHANGED <<call, gcdvars, euclid, facvars, other, fraction>>

-----------------------------------------------------------------------------
(* _tms_multinv *)
OutOfRange(x, m) == Magnitude(x, INT64_MIN) > INT32_MAX \/ m > INT32_MAX \/ m < 0

CheckInverse ==
  /\ At("multinv", "start")
  /\ IF OutOfRange(args[1], args[2]) THEN Goto("refused") /\ UNCHANGED gcdvars
     ELSE CallGcd(args[1], args[2])
  /\ UNCHANGED <<call, i, acc, euclid, facvars, other, fraction>>

(* Faulty variant: a common divisor is overlooked.                         *)
CoprimeUnchecked == b > 0

Coprime == b = 1
NotCoprime ==
  /\ At("multinv", "gcd_done") /\ ~Coprime
  /\ Goto("refused")
  /\ UNCHANGED <<call, gcdvars, i, acc, euclid, facvars, other, fraction>>

StartEuclid ==
  /\ At("multinv", "gcd_done") /\ Coprime
  /\ LET r1 == Larger(Abs(args[1]), args[2])
         r2 == Smaller(Abs(args[1]), args[2])
     IN  euclid' = [r1 |-> r1, r2 |-> r2, r |-> r1 % r2,
                    s2 |-> 0, s |-> 1, t2 |-> 1, t |-> -(r1 \div r2)]
  /\ Goto("euclid")
  /\ UNCHANGED <<call, gcdvars, i, acc, facvars, other, fraction>>

EuclidStep ==
  /\ pc = "euclid" /\ euclid.r \notin {0, 1}
  /\ LET e == euclid
         q == e.r2 \div e.r
     IN  euclid' = [r1 |-> e.r2, r2 |-> e.r, r |-> e.r2 % e.r,
                    s2 |-> e.s, s |-> e.s2 - e.s * q,
                    t2 |-> e.t, t |-> e.t2 - e.t * q]
  /\ UNCHANGED <<call, pc, gcdvars, i, acc, facvars, other, fraction>>

(* The loop waits for a remainder of 1, and divides by one of 0. *)
EuclidTrap ==
  /\ pc = "euclid" /\ euclid.r = 0
  /\ Goto("trapped")
  /\ UNCHANGED <<call, gcdvars, i, acc, euclid, facvars, other, fraction>>

(* "Prefer a positive answer"; the inverse is tried before it is returned. *)
Positive(x, m) == IF x < 0 THEN x + ((-x) \div m + 1) * m ELSE x

(* Faulty variant: the two columns are confused.                           *)
InverseSwapped(x, m) == Positive(IF Abs(x) > m THEN euclid.t ELSE euclid.s, m)

Inverse(x, m) ==
  LET p == Positive(IF Abs(x) > m THEN euclid.s ELSE euclid.t, m)
  IN  IF x < 0 THEN m - p ELSE p

EuclidDone ==
  LET x == args[1]
      m == args[2]
  IN  /\ pc = "euclid" /\ euclid.r = 1
      /\ acc' = Inverse(x, m)
      /\ Goto(IF Positive(acc' * x, m) % m = 1 THEN "done" ELSE "internal_error")
      /\ UNCHANGED <<call, gcdvars, i, euclid, facvars, other, fraction>>

-----------------------------------------------------------------------------
(* tms_find_factors; the factor 1 in front of every list is left out. *)
StartFactors(x) ==
  /\ value' = Magnitude(x, INT32_MIN) /\ dividend' = 2 /\ factors' = <<>>
  /\ Goto(IF x = 0 THEN "factored" ELSE "factor")

FindFactors ==
  /\ fn \in {"find_factors", "reduce_fraction"} /\ pc = "start"
  /\ StartFactors(args[1])
  /\ i' = 1
  /\ UNCHANGED <<call, gcdvars, acc, euclid, other, fraction>>

(* Faulty variants: 3 is left out; the next number is the same.            *)
AdvanceByTwo(d) == d + 2
AdvanceNot(d) == d

Advance(d) == IF d > 2 THEN d + 2 ELSE d + 1

Found(f) == Append(factors, [factor |-> f, power |-> 1])
Divides(d, n) == n % d = 0

FactorFound ==
  /\ pc = "factor" /\ value # 1 /\ Divides(dividend, value)
  /\ factors' = Found(dividend) /\ value' = value \div dividend
  /\ Goto("power")
  /\ UNCHANGED <<call, gcdvars, i, acc, euclid, dividend, other, fraction>>

DivideAgain ==
  /\ pc = "power" /\ Divides(dividend, value) /\ value >= dividend
  /\ factors' = [factors EXCEPT ![Len(factors)].power = @ + 1]
  /\ value' = value \div dividend
  /\ UNCHANGED <<call, pc, gcdvars, i, acc, euclid, dividend, other, fraction>>

PowerDone ==
  /\ pc = "power" /\ ~(Divides(dividend, value) /\ value >= dividend)
  /\ dividend' = Advance(dividend) /\ Goto("factor")
  /\ UNCHANGED <<call, gcdvars, i, acc, euclid, value, factors, other, fraction>>

(* Past half of it, what is left is a prime. *)
NoFactor ==
  /\ pc = "factor" /\ value # 1 /\ ~Divides(dividend, value)
  /\ IF dividend > value \div 2
     THEN factors' = Found(value) /\ Goto("factored") /\ UNCHANGED dividend
     ELSE dividend' = Advance(dividend) /\ UNCHANGED <<factors, pc>>
  /\ UNCHANGED <<call, gcdvars, i, acc, euclid, value, other, fraction>>

OneLeft ==
  /\ pc = "factor" /\ value = 1
  /\ factors' = (IF factors = <<>> THEN Found(1) ELSE factors)
  /\ Goto("factored")
  /\ UNCHANGED <<call, gcdvars, i, acc, euclid, value, dividend, other, fraction>>

FactorsReturned ==
  /\ At("find_factors", "factored")
  /\ Goto("done")
  /\ UNCHANGED <<call, gcdvars, i, acc, euclid, facvars, other, fraction>>

(* tms_reduce_fraction: both lists are made; a 0 leaves it as it is. *)
OtherList ==
  /\ At("reduce_fraction", "factored") /\ i = 1
  /\ other' = factors /\ i' = 2
  /\ StartFactors(args[2])
  /\ UNCHANGED <<call, gcdvars, acc, euclid, fraction>>

StartReduce ==
  /\ At("reduce_fraction", "factored") /\ i = 2
  /\ i' = 1 /\ acc' = 1
  /\ IF 0 \in {args[1], args[2]} THEN fraction' = args /\ Goto("done")
     ELSE Goto("reduce") /\ UNCHANGED fraction
  /\ UNCHANGED <<call, gcdvars, euclid, facvars, other>>

(* Faulty variant: the larger of the two factors is passed.                *)
LaterFactor(f, g) == f > g

EarlierFactor(f, g) == f < g

(* The lists are merged: i is the index in other, acc that in factors. *)
Merging == pc = "reduce" /\ i <= Len(other) /\ acc <= Len(factors)

CommonFactor ==
  /\ Merging /\ other[i].factor = factors[acc].factor
  /\ LET min == Smaller(other[i].power, factors[acc].power)
     IN  /\ other' = [other EXCEPT ![i].power = @ - min]
         /\ factors' = [factors EXCEPT ![acc].power = @ - min]
  /\ i' = i + 1 /\ acc' = acc + 1
  /\ UNCHANGED <<call, pc, gcdvars, euclid, value, dividend, fraction>>

OtherFactor ==
  /\ Merging /\ other[i].factor # factors[acc].factor
  /\ IF EarlierFactor(other[i].factor, factors[acc].factor)
     THEN i' = i + 1 /\ UNCHANGED acc ELSE acc' = acc + 1 /\ UNCHANGED i
  /\ UNCHANGED <<call, pc, gcdvars, euclid, facvars, other, fraction>>

Expand(list) ==
  Product([k \in DOMAIN list |-> Power(list[k].factor, list[k].power)], Len(list))

Reduced ==
  /\ pc = "reduce" /\ ~Merging
  /\ fraction' = <<Expand(other), Expand(factors)>>
  /\ Goto("done")
  /\ UNCHANGED <<call, gcdvars, i, acc, euclid, facvars, other>>

-----------------------------------------------------------------------------
Gcd == GcdStep \/ GcdTrap
Folds == CheckOperands \/ NextOperand \/ FoldGcd \/ FoldLcm
Multinv == \/ CheckInverse \/ NotCoprime
           \/ StartEuclid \/ EuclidStep \/ EuclidTrap \/ EuclidDone
Factors == \/ FindFactors \/ FactorFound \/ DivideAgain \/ PowerDone
           \/ NoFactor \/ OneLeft \/ FactorsReturned
Fractions == OtherList \/ StartReduce \/ CommonFactor \/ OtherFactor \/ Reduced

Next == Gcd \/ Folds \/ Multinv \/ Factors \/ Fractions

Spec == Init /\ [][Next]_vars

(* A call goes on until it returns. *)
FairSpec == Spec /\ WF_vars(Next)

-----------------------------------------------------------------------------
Int64 == INT64_MIN .. INT64_MAX
Int32 == -INT32_MAX - 1 .. INT32_MAX
FactorList(list) == \A k \in DOMAIN list : list[k] \in [factor : Int32, power : 0 .. INT32_MAX]

(* The types: every local variable stays within the integer type it has in *)
(* the code, the int columns of the table of multinv among them.           *)
TypeOK ==
  /\ pc \in {"start", "fold", "gcd", "gcd_done", "euclid", "factor", "power", "factored",
             "reduce", "done", "refused", "trapped", "internal_error"}
  /\ {a, b, i, acc} \subseteq Int64
  /\ \A c \in DOMAIN euclid : euclid[c] \in Int32
  /\ {value, dividend} \subseteq Int32
  /\ FactorList(factors) /\ FactorList(other)
  /\ fraction = <<>> \/ (fraction \in Int32 \X Int32)

(* The two calls that take the magnitude of an integer that has none: the  *)
(* exceptions of the properties below.                                     *)
LeastInverse == fn = "multinv" /\ args[1] = INT64_MIN
LeastFactors == fn = "find_factors" /\ args[1] = INT32_MIN

CommonDivisor(d) == \A k \in DOMAIN args : Divides(d, args[k])
CommonMultiple(m) == \A k \in DOMAIN args : Divides(Abs(args[k]), m)

(* gcd of any number of arguments, of any sign, is the greatest divisor    *)
(* they have in common.                                                    *)
GcdCorrect ==
  At("gcd", "done") =>
    /\ acc > 0 /\ CommonDivisor(acc)
    /\ \A d \in 1 .. Abs(args[1]) : CommonDivisor(d) => d <= acc

(* lcm is, but for its sign, the least common multiple, and it is refused  *)
(* only if the width of the mask has no room for it.                       *)
LcmCorrect ==
  fn = "lcm" =>
    /\ pc = "done" =>
         /\ CommonMultiple(Abs(acc)) /\ acc # 0 /\ Fits(acc)
         /\ \A m \in 1 .. Abs(acc) - 1 : ~CommonMultiple(m)
    /\ pc = "refused" /\ INT64_MIN \notin {args[k] : k \in DOMAIN args} =>
         \A m \in 1 .. Largest : ~CommonMultiple(m)

(* multinv finds the inverse whenever there is one and the arguments are   *)
(* within the limits; the check of its own result never fails.  The        *)
(* exception is the least 64-bit integer, for which no answer is given.    *)
InverseCorrect ==
  fn = "multinv" =>
    /\ pc = "done" => ~LeastInverse /\ acc \in 1 .. args[2] - 1 /\ (acc * args[1]) % args[2] = 1
    /\ pc # "internal_error"
    /\ pc = "refused" => \/ LeastInverse \/ OutOfRange(args[1], args[2])
                         \/ \E d \in 2 .. args[2] : CommonDivisor(d)

Prime(p) == p > 1 /\ \A d \in 2 .. p - 1 : ~Divides(d, p)

(* The factors are the primes of the number in ascending order, as often   *)
(* as they divide it, though only 2 and the odd numbers up to half of what *)
(* is left are tried.  The exception is the least 32-bit integer: its list *)
(* is 2 and the negative half.                                             *)
FactorsCorrect ==
  /\ At("find_factors", "done") /\ LeastFactors =>
       factors = <<[factor |-> 2, power |-> 1], [factor |-> INT32_MIN \div 2, power |-> 1]>>
  /\ At("find_factors", "done") /\ ~LeastFactors =>
       /\ args[1] # 0 => Expand(factors) = Abs(args[1])
       /\ Abs(args[1]) > 1 => \A k \in DOMAIN factors :
                                Prime(factors[k].factor) /\ factors[k].power > 0
       /\ \A k \in 2 .. Len(factors) : factors[k - 1].factor < factors[k].factor

(* Reducing a fraction keeps its value and leaves no common divisor.       *)
FractionReduced ==
  At("reduce_fraction", "done") =>
    /\ fraction[1] * args[2] = fraction[2] * args[1]
    /\ 0 \notin {args[1], args[2]} =>
         \A d \in 2 .. fraction[1] : ~(Divides(d, fraction[1]) /\ Divides(d, fraction[2]))

(* A call is stopped by a division by zero only for the arguments whose    *)
(* answer is known without any loop: a 0 given to gcd, lcm or multinv, and *)
(* a 1 given to multinv.                                                   *)
TrapsKnown ==
  pc = "trapped" => \/ 0 \in {args[k] : k \in DOMAIN args}
                    \/ fn = "multinv" /\ 1 \in {Abs(args[1]), args[2]}

(* Each function gives what its definition says, of all arguments but the  *)
(* least integers named above, refuses only what has no answer, and is     *)
(* stopped by what is known.                                               *)
AnswersCorrect == /\ GcdCorrect /\ LcmCorrect /\ InverseCorrect
                  /\ FactorsCorrect /\ FractionReduced /\ TrapsKnown

(* Every call returns: the loops, whose conditions are not about a         *)
(* counter, end.  The exception is multinv of the least 64-bit integer,    *)
(* with which tms_gcd exchanges its two numbers for ever.                  *)
Terminates == \/ LeastInverse /\ args[2] \in 1 .. INT32_MAX
              \/ <>(pc \in {"done", "refused", "internal_error", "trapped"})
=============================================================================
