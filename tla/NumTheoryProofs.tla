--------------------------- MODULE NumTheoryProofs ---------------------------
(***************************************************************************)
(* Proofs about NumTheory: every answer of gcd, lcm, multinv, of the       *)
(* factorisation and of the reduction of fractions is the one its          *)
(* definition asks for, whatever the arguments and the integer types.      *)
(*                                                                         *)
(* The argument.  In tms_gcd the two numbers stay combinations of those it *)
(* was called with (GcdInv), so what gcd and lcm have folded so far        *)
(* divides, or is divided by, all that it must (FoldInv).  The columns of  *)
(* the table of multinv express its remainders (EuclidInv), alternate in   *)
(* sign and grow, so the last one is within the modulus.  In the           *)
(* factorisation no number below the dividend divides what is left         *)
(* (FactorsInv), and in the reduction the factors that are passed have     *)
(* nothing in common with the other list (ReduceInv).                      *)
(*                                                                         *)
(* No local outgrows its type: the columns of multinv are no larger than   *)
(* its arguments, what is left of a number no larger than half of it once  *)
(* a factor is found, a power less than the number (Limits, Sizes).  And   *)
(* lcm never makes the least integer, which has no absolute value: it is   *)
(* minus a power of two, the least common multiple only of itself.  The    *)
(* calls of the least integers that the properties name as exceptions have *)
(* an invariant of their own (LInv).                                       *)
(***************************************************************************)
EXTENDS NumTheory, NaturalsInduction, WellFoundedInduction, TLAPS

(* A set of numbers has a least one. *)
LEMMA Least ==
  ASSUME NEW S \in SUBSET Nat, S # {}
  PROVE  \E n \in S : \A k \in S : n <= k
<1> DEFINE R == {ss \in Nat \X Nat : ss[1] < ss[2]}
<1>1. IsWellFoundedOn(R, Nat)
  BY NatLessThanWellFounded DEF OpToRel
<1>2. \E x \in S : \A y \in S : <<y, x>> \notin R
  <2> HIDE DEF R
  <2> QED BY <1>1, WFMin
<1>3. PICK x \in S : \A y \in S : <<y, x>> \notin R
  BY <1>2
<1>4. ASSUME NEW k \in S PROVE x <= k
  <2>1. <<k, x>> \notin R
    BY <1>3
  <2>2. ~(k < x)
    BY <2>1
  <2> QED BY <2>2
<1> QED BY <1>4

(* d divides n, and g is a sum of multiples of x and y.                    *)
Multiple(n, d) == \E q \in Int : n = d * q
Combination(g, x, y) == \E u, v \in Int : g = u * x + v * y

LEMMA Division ==
  ASSUME NEW n \in Int, NEW d \in Nat \ {0}
  PROVE  /\ n \div d \in Int /\ n % d \in 0 .. d - 1
         /\ n = d * (n \div d) + (n % d)
OBVIOUS

LEMMA Remainder ==
  ASSUME NEW d \in Nat \ {0}, NEW q \in Int, NEW r \in 0 .. d - 1
  PROVE  (d * q + r) % d = r /\ (d * q + r) \div d = q
OBVIOUS

LEMMA DividesMultiple ==
  ASSUME NEW d \in Nat \ {0}, NEW n \in Int
  PROVE  Divides(d, n) <=> Multiple(n, d)
<1>1. Divides(d, n) => Multiple(n, d)
  <2> SUFFICES ASSUME n % d = 0 PROVE Multiple(n, d)
    BY DEF Divides
  <2>1. n = d * (n \div d) /\ n \div d \in Int
    BY Division
  <2> QED BY <2>1 DEF Multiple
<1>2. Multiple(n, d) => Divides(d, n)
  <2> SUFFICES ASSUME NEW q \in Int, n = d * q PROVE n % d = 0
    BY DEF Divides, Multiple
  <2>1. (d * q + 0) % d = 0
    BY Remainder
  <2> QED BY <2>1
<1> QED BY <1>1, <1>2

LEMMA MultipleSum ==
  ASSUME NEW d \in Int, NEW x \in Int, NEW y \in Int, NEW u \in Int, NEW v \in Int,
         Multiple(x, d), Multiple(y, d)
  PROVE  Multiple(u * x + v * y, d)
<1>1. PICK p \in Int : x = d * p
  BY DEF Multiple
<1>2. PICK q \in Int : y = d * q
  BY DEF Multiple
<1>3. u * x + v * y = d * (u * p + v * q) /\ u * p + v * q \in Int
  BY <1>1, <1>2
<1> QED BY <1>3 DEF Multiple

LEMMA MultipleTrans ==
  ASSUME NEW d \in Int, NEW x \in Int, NEW y \in Int, Multiple(x, d), Multiple(y, x)
  PROVE  Multiple(y, d)
<1>1. PICK p \in Int : x = d * p
  BY DEF Multiple
<1>2. PICK q \in Int : y = x * q
  BY DEF Multiple
<1>3. y = d * (p * q) /\ p * q \in Int
  BY <1>1, <1>2
<1> QED BY <1>3 DEF Multiple

(* A number other than 0 is no less than what divides it.                  *)
LEMMA MultipleSize ==
  ASSUME NEW d \in Int, NEW n \in Int, n # 0, Multiple(n, d)
  PROVE  d # 0 /\ Abs(d) <= Abs(n)
<1>1. PICK q \in Int : n = d * q
  BY DEF Multiple
<1>2. q # 0 /\ d # 0
  BY <1>1
<1>3. CASE d > 0 /\ q > 0
  BY <1>1, <1>3 DEF Abs
<1>4. CASE d > 0 /\ q < 0
  <2>1. d * (-q) >= d
    BY <1>4
  <2> QED BY <1>1, <1>4, <2>1 DEF Abs
<1>5. CASE d < 0 /\ q > 0
  <2>1. (-d) * q >= -d
    BY <1>5
  <2> QED BY <1>1, <1>5, <2>1 DEF Abs
<1>6. CASE d < 0 /\ q < 0
  <2>1. (-d) * (-q) >= -d
    BY <1>6
  <2> QED BY <1>1, <1>6, <2>1 DEF Abs
<1> QED BY <1>2, <1>3, <1>4, <1>5, <1>6

(* The sign makes no difference to what divides a number, or to what it    *)
(* divides.                                                                *)
LEMMA MultipleAbs ==
  ASSUME NEW d \in Int, NEW n \in Int
  PROVE  /\ Multiple(Abs(n), d) <=> Multiple(n, d)
         /\ Multiple(n, Abs(d)) <=> Multiple(n, d)
<1>1. \A x, y \in Int : Multiple(x, y) => Multiple(-x, y) /\ Multiple(x, -y)
  <2> SUFFICES ASSUME NEW x \in Int, NEW y \in Int, NEW q \in Int, x = y * q
               PROVE  Multiple(-x, y) /\ Multiple(x, -y)
    BY DEF Multiple
  <2>1. -x = y * (-q) /\ x = (-y) * (-q) /\ -q \in Int
    OBVIOUS
  <2> QED BY <2>1 DEF Multiple
<1>2. -n \in Int /\ -d \in Int /\ -(-n) = n /\ -(-d) = d
  OBVIOUS
<1> QED BY <1>1, <1>2 DEF Abs

LEMMA MultipleSelf == \A n \in Int : Multiple(n, n) /\ Multiple(0, n) /\ Multiple(n, 1)
<1> SUFFICES ASSUME NEW n \in Int PROVE Multiple(n, n) /\ Multiple(0, n) /\ Multiple(n, 1)
  OBVIOUS
<1>1. n = n * 1 /\ 0 = n * 0 /\ n = 1 * n
  OBVIOUS
<1> QED BY <1>1 DEF Multiple

LEMMA AbsCombination ==
  ASSUME NEW x \in Int, NEW y \in Int
  PROVE  Combination(Abs(x), x, y) /\ Combination(Abs(y), x, y)
<1>1. x = 1 * x + 0 * y /\ -x = (-1) * x + 0 * y /\ y = 0 * x + 1 * y /\ -y = 0 * x + (-1) * y
  OBVIOUS
<1> QED BY <1>1 DEF Combination, Abs

LEMMA CombinationSum ==
  ASSUME NEW x \in Int, NEW y \in Int, NEW g \in Int, NEW h \in Int, NEW p \in Int, NEW q \in Int,
         Combination(g, x, y), Combination(h, x, y)
  PROVE  Combination(p * g + q * h, x, y)
<1>1. PICK u \in Int, v \in Int : g = u * x + v * y
  BY DEF Combination
<1>2. PICK w \in Int, z \in Int : h = w * x + z * y
  BY DEF Combination
<1>3. /\ p * g + q * h = (p * u + q * w) * x + (p * v + q * z) * y
      /\ p * u + q * w \in Int /\ p * v + q * z \in Int
  BY <1>1, <1>2
<1> QED BY <1>3 DEF Combination

(* What divides two numbers divides all their combinations.                *)
LEMMA CombinationMultiple ==
  ASSUME NEW d \in Int, NEW g, NEW x \in Int, NEW y \in Int,
         Combination(g, x, y), Multiple(x, d), Multiple(y, d)
  PROVE  Multiple(g, d)
BY MultipleSum DEF Combination

-----------------------------------------------------------------------------
(* The call, and where in it each function may be.                         *)
Called ==
  /\ fn \in {"gcd", "lcm", "multinv", "find_factors", "reduce_fraction"}
  /\ Len(args) \in Nat /\ DOMAIN args = 1 .. Len(args)
  /\ \A k \in 1 .. Len(args) : args[k] \in Int
  /\ fn \in {"gcd", "lcm"} => Len(args) >= 2
  /\ fn \in {"multinv", "reduce_fraction"} => Len(args) = 2
  /\ fn = "find_factors" => Len(args) = 1
  /\ fn = "reduce_fraction" => args[1] \in Nat /\ args[2] \in Nat
  /\ ~LeastInverse /\ ~LeastFactors

Control ==
  /\ fn \in {"gcd", "lcm"} =>
       pc \in {"start", "fold", "gcd", "gcd_done", "done", "refused", "trapped"}
  /\ fn = "multinv" =>
       pc \in {"start", "gcd", "gcd_done", "euclid", "done", "refused", "trapped"}
  /\ fn = "find_factors" => pc \in {"start", "factor", "power", "factored", "done"}
  /\ fn = "reduce_fraction" =>
       pc \in {"start", "factor", "power", "factored", "reduce", "done"}

(* The numbers tms_gcd is called with.                                     *)
First == IF fn = "multinv" THEN args[1] ELSE acc
Second == IF fn = "multinv" THEN args[2] ELSE args[i]

(* In tms_gcd both numbers stay combinations of the two it was called      *)
(* with, and what divides them both divides those.                         *)
GcdInv ==
  /\ pc = "gcd" =>
       /\ a \in Nat /\ b \in Nat
       /\ a = 0 \/ b = 0 <=> First = 0 \/ Second = 0
       /\ Combination(a, First, Second) /\ Combination(b, First, Second)
       /\ \A d \in Int : Multiple(a, d) /\ Multiple(b, d)
                           => Multiple(First, d) /\ Multiple(Second, d)
  /\ pc = "gcd_done" =>
       /\ b \in Nat \ {0} /\ First # 0 /\ Second # 0
       /\ Combination(b, First, Second)
       /\ Multiple(First, b) /\ Multiple(Second, b)

(* What is folded so far: a common divisor that every other one divides,   *)
(* a common multiple that divides every other one.                         *)
GcdSoFar ==
  /\ i > 2 => acc > 0
  /\ \A k \in 1 .. i - 1 : Multiple(args[k], acc)
  /\ \A d \in Int : (\A k \in 1 .. i - 1 : Multiple(args[k], d)) => Multiple(acc, d)
LcmSoFar ==
  /\ i > 2 => acc # 0 /\ Fits(acc)
  /\ \A k \in 1 .. i - 1 : Multiple(acc, args[k])
  /\ \A m \in Int : (\A k \in 1 .. i - 1 : Multiple(m, args[k])) => Multiple(m, acc)

FoldInv ==
  fn \in {"gcd", "lcm"} /\ pc \in {"fold", "gcd", "gcd_done"} =>
    /\ i \in 2 .. Len(args) + 1 /\ (pc = "fold" \/ i <= Len(args))
    /\ acc \in Int /\ (i = 2 => acc = args[1])
    /\ fn = "gcd" => GcdSoFar
    /\ fn = "lcm" => LcmSoFar

LEMMA GcdRound ==
  ASSUME NEW x \in Nat, NEW y \in Nat, x # 0, y # 0
  PROVE  /\ Smaller(x, y) \in Nat \ {0} /\ Larger(x, y) \in Nat
         /\ {Smaller(x, y), Larger(x, y)} = {x, y}
BY DEF Smaller, Larger

LEMMA RestIs == \A x \in Nat, y \in Nat \ {0} : Rest(x, y) = x % y
BY DEF Rest, Abs

(* A round of tms_gcd.                                                     *)
LEMMA GcdStepKeeps ==
  ASSUME Called, Control, GcdInv, GcdStep, First \in Int, Second \in Int
  PROVE  GcdInv'
<1>1. First' = First /\ Second' = Second
  BY DEF GcdStep, call, First, Second
<1>2. pc = "gcd" /\ a \in Nat /\ b \in Nat /\ a # 0 /\ b # 0
  BY DEF GcdStep, GcdInv, Smaller
<1> DEFINE s == Smaller(a, b)
           l == Larger(a, b)
           r == l % s
           q == l \div s
<1>3. s \in Nat \ {0} /\ l \in Nat /\ {s, l} = {a, b}
  BY <1>2, GcdRound
<1>4. r \in Nat /\ q \in Int /\ l = s * q + r
  <2> HIDE DEF s, l
  <2> QED BY <1>3, Division
<1>5. Combination(s, First, Second) /\ Combination(l, First, Second)
  BY <1>2, <1>3 DEF GcdInv
<1>6. \A d \in Int : Multiple(s, d) /\ Multiple(l, d)
                       => Multiple(First, d) /\ Multiple(Second, d)
  BY <1>2, <1>3 DEF GcdInv
<1>7. First # 0 /\ Second # 0
  BY <1>2 DEF GcdInv
<1>8. a' = s /\ (IF r > 0 THEN b' = r /\ pc' = pc ELSE b' = s /\ pc' = "gcd_done")
  <2>1. Rest(l, s) = r
    <3> HIDE DEF s, l
    <3> QED BY <1>3, RestIs
  <2> QED BY <2>1 DEF GcdStep, Goto
<1> HIDE DEF s, l, r, q
<1>9. CASE r > 0
  <2>1. Combination(r, First, Second)
    <3>1. r = 1 * l + (-q) * s
      BY <1>3, <1>4
    <3>2. 1 \in Int /\ -q \in Int /\ l \in Int /\ s \in Int
      BY <1>3, <1>4
    <3>3. Combination(1 * l + (-q) * s, First, Second)
      BY <1>5, <3>2, CombinationSum
    <3> QED BY <3>1, <3>3
  <2>2. ASSUME NEW d \in Int, Multiple(s, d), Multiple(r, d) PROVE Multiple(l, d)
    <3>1. Multiple(q * s + 1 * r, d)
      BY <1>3, <1>4, <2>2, MultipleSum
    <3>2. l = q * s + 1 * r
      BY <1>3, <1>4
    <3> QED BY <3>1, <3>2
  <2>3. pc' = "gcd" /\ a' = s /\ b' = r /\ s # 0 /\ r # 0
    BY <1>2, <1>3, <1>4, <1>8, <1>9
  <2> QED BY <1>1, <1>3, <1>4, <1>5, <1>6, <1>7, <2>1, <2>2, <2>3 DEF GcdInv
<1>10. CASE ~(r > 0)
  <2>1. l = s * q
    BY <1>3, <1>4, <1>10
  <2>2. Multiple(l, s) /\ Multiple(s, s)
    BY <1>3, <1>4, <2>1, MultipleSelf DEF Multiple
  <2>3. pc' = "gcd_done" /\ b' = s
    BY <1>8, <1>10
  <2> QED BY <1>1, <1>3, <1>5, <1>6, <1>7, <2>2, <2>3 DEF GcdInv
<1> QED BY <1>9, <1>10

(* A call of tms_gcd.                                                      *)
LEMMA CallGcdStarts ==
  ASSUME NEW x \in Int, NEW y \in Int, x # INT64_MIN, y # INT64_MIN,
         CallGcd(x, y), First' = x, Second' = y
  PROVE  GcdInv'
<1>1. pc' = "gcd" /\ a' = Abs(x) /\ b' = Abs(y) /\ Abs(x) \in Nat /\ Abs(y) \in Nat
  BY DEF CallGcd, Goto, Magnitude, Abs
<1>2. Abs(x) = 0 \/ Abs(y) = 0 <=> x = 0 \/ y = 0
  BY DEF Abs
<1>3. Combination(Abs(x), x, y) /\ Combination(Abs(y), x, y)
  BY AbsCombination
<1>4. \A d \in Int : Multiple(Abs(x), d) /\ Multiple(Abs(y), d) => Multiple(x, d) /\ Multiple(y, d)
  BY MultipleAbs
<1> QED BY <1>1, <1>2, <1>3, <1>4 DEF GcdInv

(* The numbers of a call are integers.                                     *)
LEMMA PairType ==
  ASSUME Called, Control, FoldInv, pc \in {"gcd", "gcd_done"}
  PROVE  First \in Int /\ Second \in Int
BY DEF Called, Control, FoldInv, First, Second

-----------------------------------------------------------------------------
(* gcd and lcm: one more argument is folded in.                            *)
LEMMA FoldGcdKeeps ==
  ASSUME Called, Control, GcdInv, FoldInv, FoldGcd
  PROVE  FoldInv'
<1>1. /\ fn = "gcd" /\ pc = "gcd_done" /\ fn' = fn /\ args' = args
      /\ acc' = b /\ i' = i + 1 /\ pc' = "fold"
  BY DEF FoldGcd, At, call, Goto
<1>2. /\ First = acc /\ Second = args[i] /\ i \in 2 .. Len(args) /\ acc \in Int
      /\ args[i] \in Int /\ \A k \in 1 .. i - 1 : args[k] \in Int
  BY <1>1 DEF First, Second, FoldInv, Called
<1>3. /\ b \in Nat \ {0} /\ Combination(b, acc, args[i])
      /\ Multiple(acc, b) /\ Multiple(args[i], b)
  BY <1>1, <1>2 DEF GcdInv
<1>4. /\ \A k \in 1 .. i - 1 : Multiple(args[k], acc)
      /\ \A d \in Int : (\A k \in 1 .. i - 1 : Multiple(args[k], d)) => Multiple(acc, d)
  BY <1>1 DEF FoldInv, GcdSoFar
<1>5. 1 .. i' - 1 = (1 .. i - 1) \cup {i}
  BY <1>1, <1>2
<1>6. ASSUME NEW k \in 1 .. i - 1 PROVE Multiple(args[k], b)
  BY <1>2, <1>3, <1>4, MultipleTrans
<1>7. ASSUME NEW d \in Int, \A k \in 1 .. i' - 1 : Multiple(args[k], d)
      PROVE  Multiple(b, d)
  <2>1. Multiple(acc, d) /\ Multiple(args[i], d)
    BY <1>4, <1>5, <1>7
  <2> QED BY <1>2, <1>3, <2>1, CombinationMultiple
<1>8. GcdSoFar'
  BY <1>1, <1>3, <1>5, <1>6, <1>7 DEF GcdSoFar
<1> QED BY <1>1, <1>2, <1>3, <1>8 DEF FoldInv

(* The product of one number and what the other has besides the common     *)
(* divisor: a common multiple that divides all others.                     *)
LEMMA LeastMultiple ==
  ASSUME NEW x \in Int, NEW y \in Int, NEW g \in Nat \ {0}, x # 0, y # 0,
         Combination(g, x, y), Multiple(x, g), Multiple(y, g)
  PROVE  /\ (x \div g) * y \in Int /\ (x \div g) * y # 0
         /\ Multiple((x \div g) * y, x) /\ Multiple((x \div g) * y, y)
         /\ \A m \in Int : Multiple(m, x) /\ Multiple(m, y) => Multiple(m, (x \div g) * y)
<1>1. PICK q \in Int : x = g * q
  BY DEF Multiple
<1>2. PICK w \in Int : y = g * w
  BY DEF Multiple
<1>3. x \div g = q
  <2>1. (g * q + 0) \div g = q
    BY Remainder
  <2> QED BY <1>1, <2>1
<1>4. PICK u \in Int, v \in Int : g = u * x + v * y
  BY DEF Combination
<1>5. q * y = x * w /\ q * y = y * q /\ q * y \in Int
  BY <1>1, <1>2
<1>6. q * y # 0
  BY <1>1
<1>7. ASSUME NEW m \in Int, Multiple(m, x), Multiple(m, y) PROVE Multiple(m, q * y)
  <2>1. PICK k \in Int : m = x * k
    BY <1>7 DEF Multiple
  <2>2. PICK l \in Int : m = y * l
    BY <1>7 DEF Multiple
  <2>3. m * g = x * y * (u * l + v * k)
    BY <1>4, <2>1, <2>2
  <2>4. m * g = g * (q * y * (u * l + v * k))
    BY <1>1, <2>3
  <2>5. m = q * y * (u * l + v * k)
    BY <2>4
  <2> QED BY <2>5 DEF Multiple
<1> QED BY <1>3, <1>5, <1>6, <1>7 DEF Multiple

LEMMA FoldLcmKeeps ==
  ASSUME Called, Control, GcdInv, FoldInv, FoldLcm
  PROVE  FoldInv' /\ LcmCorrect'
<1> DEFINE p == (acc \div b) * args[i]
<1>1. /\ fn = "lcm" /\ pc = "gcd_done" /\ fn' = fn /\ args' = args
      /\ IF Fits(p) THEN acc' = p /\ i' = i + 1 /\ pc' = "fold"
                    ELSE pc' = "refused" /\ acc' = acc /\ i' = i
  BY DEF FoldLcm, At, call, Goto
<1>2. /\ First = acc /\ Second = args[i] /\ i \in 2 .. Len(args) /\ acc \in Int
      /\ args[i] \in Int /\ \A k \in 1 .. i - 1 : args[k] \in Int
  BY <1>1 DEF First, Second, FoldInv, Called
<1>3. /\ b \in Nat \ {0} /\ Combination(b, acc, args[i]) /\ acc # 0 /\ args[i] # 0
      /\ Multiple(acc, b) /\ Multiple(args[i], b)
  BY <1>1, <1>2 DEF GcdInv
<1>4. /\ p \in Int /\ p # 0 /\ Multiple(p, acc) /\ Multiple(p, args[i])
      /\ \A m \in Int : Multiple(m, acc) /\ Multiple(m, args[i]) => Multiple(m, p)
  BY <1>2, <1>3, LeastMultiple
<1> HIDE DEF p
<1>5. /\ \A k \in 1 .. i - 1 : Multiple(acc, args[k])
      /\ \A m \in Int : (\A k \in 1 .. i - 1 : Multiple(m, args[k])) => Multiple(m, acc)
  BY <1>1 DEF FoldInv, LcmSoFar
<1>6. ASSUME NEW k \in 1 .. i - 1 PROVE Multiple(p, args[k])
  BY <1>2, <1>4, <1>5, MultipleTrans
<1>7. ASSUME NEW m \in Int, \A k \in 1 .. i : Multiple(m, args[k]) PROVE Multiple(m, p)
  <2>1. 1 .. i = (1 .. i - 1) \cup {i}
    BY <1>2
  <2> QED BY <1>4, <1>5, <1>7, <2>1
<1>8. CASE Fits(p)
  <2>1. 1 .. i' - 1 = (1 .. i - 1) \cup {i} /\ 1 .. i' - 1 = 1 .. i
    BY <1>1, <1>2, <1>8
  <2>2. LcmSoFar'
    BY <1>1, <1>4, <1>6, <1>7, <1>8, <2>1 DEF LcmSoFar, Fits
  <2> QED BY <1>1, <1>2, <1>4, <1>8, <2>2 DEF FoldInv, LcmCorrect
<1>9. CASE ~Fits(p)
  <2>1. ASSUME NEW m \in 1 .. Largest, CommonMultiple(m) PROVE FALSE
    <3>1. m \in Int /\ m # 0
      BY NumTheoryAssumption
    <3>2. ASSUME NEW k \in 1 .. i PROVE Multiple(m, args[k])
      <4>1. args[k] \in Int /\ args[k] # 0 /\ k \in DOMAIN args
        <5>1. k \in 1 .. i - 1 \/ k = i
          BY <1>2
        <5>2. k \in 1 .. i - 1 => args[k] # 0
          BY <1>2, <1>3, <1>5, MultipleSize
        <5>3. k \in DOMAIN args
          BY <1>2 DEF Called
        <5> QED BY <1>2, <1>3, <5>1, <5>2, <5>3
      <4>2. Abs(args[k]) \in Nat \ {0}
        BY <4>1 DEF Abs
      <4>3. Divides(Abs(args[k]), m)
        BY <2>1, <4>1 DEF CommonMultiple
      <4> QED BY <3>1, <4>1, <4>2, <4>3, DividesMultiple, MultipleAbs
    <3>3. Abs(p) <= Abs(m)
      BY <1>4, <1>7, <3>1, <3>2, MultipleSize
    <3> QED BY <1>4, <1>9, <3>3, NumTheoryAssumption DEF Abs, Fits
  <2>2. pc' = "refused" /\ \A m : CommonMultiple(m)' = CommonMultiple(m)
    BY <1>1, <1>9 DEF CommonMultiple
  <2> QED BY <1>1, <2>1, <2>2 DEF FoldInv, LcmCorrect
<1> QED BY <1>8, <1>9

(* The check of the arguments, and the first of them.                      *)
LEMMA CheckOperandsKeeps ==
  ASSUME Called, CheckOperands
  PROVE  FoldInv' /\ LcmCorrect'
<1>1. /\ fn \in {"gcd", "lcm"} /\ fn' = fn /\ args' = args /\ acc' = args[1] /\ i' = 2
      /\ pc' = IF \E k \in DOMAIN args : args[k] = INT64_MIN THEN "refused" ELSE "fold"
  BY DEF CheckOperands, call, Goto
<1>2. Len(args) \in Nat /\ Len(args) >= 2 /\ args[1] \in Int /\ DOMAIN args = 1 .. Len(args)
  BY <1>1 DEF Called
<1>3. 1 .. i' - 1 = {1} /\ i' \in 2 .. Len(args) + 1
  BY <1>1, <1>2
<1>4. Multiple(args[1], args[1])
  BY <1>2, MultipleSelf
<1>5. GcdSoFar' /\ LcmSoFar'
  BY <1>1, <1>3, <1>4 DEF GcdSoFar, LcmSoFar
<1>6. LcmCorrect'
  <2>1. pc' # "done" /\ INT64_MIN' = INT64_MIN
    BY <1>1 DEF INT64_MIN
  <2>2. pc' = "refused" => INT64_MIN \in {args'[k] : k \in DOMAIN args'}
    BY <1>1
  <2> QED BY <2>1, <2>2 DEF LcmCorrect
<1> QED BY <1>1, <1>2, <1>3, <1>5, <1>6 DEF FoldInv

(* What gcd and lcm give to tms_gcd has an absolute value.                 *)
NoLeast ==
  fn \in {"gcd", "lcm"} /\ pc = "fold" =>
    acc # INT64_MIN /\ \A k \in 1 .. Len(args) : args[k] # INT64_MIN

(* The next argument, or the end.                                          *)
LEMMA NextOperandKeeps ==
  ASSUME Called, Control, FoldInv, NoLeast, NextOperand, i <= Len(args)
  PROVE  GcdInv' /\ FoldInv'
<1>1. /\ fn' = fn /\ args' = args /\ acc' = acc /\ i' = i
      /\ pc = "fold" /\ CallGcd(acc, args[i]) /\ pc' = "gcd"
  BY DEF NextOperand, call, CallGcd, Goto
<1>2. fn \in {"gcd", "lcm"}
  BY <1>1 DEF Control, Called
<1>3. i \in 1 .. Len(args) /\ acc \in Int /\ args[i] \in Int
  BY <1>1, <1>2 DEF FoldInv, Called
<1>4. First' = acc /\ Second' = args[i]
  BY <1>1, <1>2 DEF First, Second
<1>5. GcdInv'
  <2>1. acc # INT64_MIN /\ args[i] # INT64_MIN
    BY <1>1, <1>2, <1>3 DEF NoLeast
  <2> QED BY <1>1, <1>3, <1>4, <2>1, CallGcdStarts
<1>6. FoldInv'
  BY <1>1, <1>2 DEF FoldInv, GcdSoFar, LcmSoFar
<1> QED BY <1>5, <1>6

(* The answers of gcd and lcm are those of their definitions.              *)
LEMMA FoldAnswers ==
  ASSUME Called, Control, FoldInv, pc = "fold", i > Len(args)
  PROVE  /\ fn = "gcd" => /\ acc > 0 /\ CommonDivisor(acc)
                          /\ \A d \in 1 .. Abs(args[1]) : CommonDivisor(d) => d <= acc
         /\ fn = "lcm" => /\ CommonMultiple(Abs(acc)) /\ acc # 0 /\ Fits(acc)
                          /\ \A m \in 1 .. Abs(acc) - 1 : ~CommonMultiple(m)
<1>1. fn \in {"gcd", "lcm"}
  BY DEF Control, Called
<1>2. /\ acc \in Int /\ i > 2 /\ 1 .. i - 1 = DOMAIN args /\ 1 \in DOMAIN args
      /\ \A k \in DOMAIN args : args[k] \in Int
  BY <1>1 DEF FoldInv, Called
<1>3. CASE fn = "gcd"
  <2>1. /\ acc > 0 /\ \A k \in DOMAIN args : Multiple(args[k], acc)
        /\ \A d \in Int : (\A k \in DOMAIN args : Multiple(args[k], d)) => Multiple(acc, d)
    BY <1>2, <1>3 DEF FoldInv, GcdSoFar
  <2>2. CommonDivisor(acc)
    BY <1>2, <2>1, DividesMultiple DEF CommonDivisor
  <2>3. ASSUME NEW d \in 1 .. Abs(args[1]), CommonDivisor(d) PROVE d <= acc
    <3>1. d \in Nat \ {0} /\ d \in Int
      BY <1>2 DEF Abs
    <3>2. \A k \in DOMAIN args : Multiple(args[k], d)
      BY <1>2, <2>3, <3>1, DividesMultiple DEF CommonDivisor
    <3>3. Abs(d) <= Abs(acc)
      BY <1>2, <2>1, <3>1, <3>2, MultipleSize
    <3> QED BY <1>2, <2>1, <3>1, <3>3 DEF Abs
  <2> QED BY <1>3, <2>1, <2>2, <2>3
<1>4. CASE fn = "lcm"
  <2>1. /\ acc # 0 /\ Fits(acc) /\ \A k \in DOMAIN args : Multiple(acc, args[k])
        /\ \A m \in Int : (\A k \in DOMAIN args : Multiple(m, args[k])) => Multiple(m, acc)
    BY <1>2, <1>4 DEF FoldInv, LcmSoFar
  <2>2. \A k \in DOMAIN args : args[k] # 0 /\ Abs(args[k]) \in Nat \ {0}
    BY <1>2, <2>1, MultipleSize DEF Abs
  <2>3. ASSUME NEW m \in Int
        PROVE  CommonMultiple(m) <=> \A k \in DOMAIN args : Multiple(m, args[k])
    <3>1. ASSUME NEW k \in DOMAIN args
          PROVE  Divides(Abs(args[k]), m) <=> Multiple(m, args[k])
      <4>1. Divides(Abs(args[k]), m) <=> Multiple(m, Abs(args[k]))
        BY <2>2, DividesMultiple
      <4>2. Multiple(m, Abs(args[k])) <=> Multiple(m, args[k])
        BY <1>2, MultipleAbs
      <4> QED BY <4>1, <4>2
    <3> QED BY <3>1 DEF CommonMultiple
  <2>4. Abs(acc) \in Int /\ Abs(acc) > 0
    BY <1>2, <2>1 DEF Abs
  <2>5. CommonMultiple(Abs(acc))
    <3>1. ASSUME NEW k \in DOMAIN args PROVE Multiple(Abs(acc), args[k])
      BY <1>2, <2>1, MultipleAbs
    <3> QED BY <2>3, <2>4, <3>1
  <2>6. ASSUME NEW m \in 1 .. Abs(acc) - 1, CommonMultiple(m) PROVE FALSE
    <3>1. m \in Int /\ m > 0 /\ m < Abs(acc)
      BY <2>4
    <3>2. Abs(acc) <= Abs(m)
      BY <1>2, <2>1, <2>3, <2>6, <3>1, MultipleSize
    <3> QED BY <2>4, <3>1, <3>2 DEF Abs
  <2> QED BY <1>4, <2>1, <2>5, <2>6
<1> QED BY <1>1, <1>3, <1>4

-----------------------------------------------------------------------------
(***************************************************************************)
(* The table of multinv, for the numbers p >= q: each row is a combination *)
(* of them, and the coefficients of two rows change sign from one to the   *)
(* next and give p and q back, so they are no larger than these.           *)
(***************************************************************************)
Alternate(p, q, r2, r, s2, s, t2, t) ==
  s2 <= 0 /\ s >= 0 /\ t2 >= 0 /\ t <= 0 /\ p = t2 * r - t * r2 /\ q = s * r2 - s2 * r

Rows(p, q, r2, r, s2, s, t2, t) ==
  /\ r2 \in 1 .. q /\ r \in 0 .. r2 - 1
  /\ s2 \in Int /\ s \in Int /\ t2 \in Int /\ t \in Int
  /\ r2 = s2 * p + t2 * q /\ r = s * p + t * q
  /\ \/ Alternate(p, q, r2, r, s2, s, t2, t)
     \/ Alternate(p, q, r2, r, -s2, -s, -t2, -t)

LEMMA FirstRows ==
  ASSUME NEW p \in Nat \ {0}, NEW q \in Nat \ {0}
  PROVE  Rows(p, q, q, p % q, 0, 1, 1, -(p \div q))
<1> DEFINE r == p % q
           k == p \div q
<1>1. r \in 0 .. q - 1 /\ k \in Int /\ p = q * k + r
  BY Division
<1> HIDE DEF r, k
<1>2. k >= 0
  BY <1>1
<1>3. Alternate(p, q, q, r, 0, 1, 1, -k)
  BY <1>1, <1>2 DEF Alternate
<1>4. q = 0 * p + 1 * q /\ r = 1 * p + (-k) * q /\ -k \in Int
  BY <1>1
<1>5. Rows(p, q, q, r, 0, 1, 1, -k)
  BY <1>1, <1>3, <1>4 DEF Rows
<1> QED BY <1>5 DEF r, k

LEMMA AlternateNext ==
  ASSUME NEW p \in Nat, NEW q \in Nat, NEW r2 \in Nat, NEW r \in Nat, NEW s2 \in Int, NEW s \in Int,
         NEW t2 \in Int, NEW t \in Int, NEW k \in Nat,
         Alternate(p, q, r2, r, s2, s, t2, t)
  PROVE  Alternate(p, q, r, r2 - r * k, -s, -(s2 - s * k), -t, -(t2 - t * k))
<1>1. s * k >= 0 /\ t * k <= 0
  BY DEF Alternate
<1>2. s2 - s * k <= 0 /\ t2 - t * k >= 0
  BY <1>1 DEF Alternate
<1>3. p = (-t) * (r2 - r * k) - (-(t2 - t * k)) * r
  BY DEF Alternate
<1>4. q = (-(s2 - s * k)) * r - (-s) * (r2 - r * k)
  BY DEF Alternate
<1> QED BY <1>1, <1>2, <1>3, <1>4 DEF Alternate

LEMMA NextRows ==
  ASSUME NEW p \in Nat, NEW q \in Nat, NEW r2, NEW r, NEW s2, NEW s, NEW t2, NEW t,
         Rows(p, q, r2, r, s2, s, t2, t), r # 0
  PROVE  Rows(p, q, r, r2 % r, s, s2 - s * (r2 \div r), t, t2 - t * (r2 \div r))
<1> DEFINE k == r2 \div r
           z == r2 % r
<1>1. /\ r2 \in Nat /\ r \in Nat \ {0} /\ r \in 1 .. q
      /\ s2 \in Int /\ s \in Int /\ t2 \in Int /\ t \in Int
  BY DEF Rows
<1>2. z \in 0 .. r - 1 /\ k \in Int /\ r2 = r * k + z
  <2>1. r2 \in Int /\ r \in Nat \ {0}
    BY <1>1
  <2> QED BY <2>1, Division
<1> HIDE DEF z, k
<1>3. k \in Nat /\ z = r2 - r * k
  BY <1>1, <1>2
<1>4. s2 - s * k \in Int /\ t2 - t * k \in Int
  BY <1>1, <1>2
<1>5. z = (s2 - s * k) * p + (t2 - t * k) * q
  <2>1. r2 = s2 * p + t2 * q /\ r = s * p + t * q
    BY DEF Rows
  <2> QED BY <1>1, <1>2, <1>3, <2>1
<1>6. CASE Alternate(p, q, r2, r, s2, s, t2, t)
  <2>1. Alternate(p, q, r, z, -s, -(s2 - s * k), -t, -(t2 - t * k))
    BY <1>1, <1>3, <1>6, AlternateNext
  <2> QED BY <1>1, <1>2, <1>4, <1>5, <2>1 DEF Rows, k, z
<1>7. CASE Alternate(p, q, r2, r, -s2, -s, -t2, -t)
  <2>1. -s2 \in Int /\ -s \in Int /\ -t2 \in Int /\ -t \in Int
    BY <1>1
  <2>2. Alternate(p, q, r, r2 - r * k, -(-s), -((-s2) - (-s) * k), -(-t), -((-t2) - (-t) * k))
    BY <1>1, <1>3, <1>7, <2>1, AlternateNext
  <2>3. /\ -(-s) = s /\ -((-s2) - (-s) * k) = s2 - s * k
        /\ -(-t) = t /\ -((-t2) - (-t) * k) = t2 - t * k
    BY <1>1, <1>3
  <2>4. Alternate(p, q, r, z, s, s2 - s * k, t, t2 - t * k)
    BY <1>3, <2>2, <2>3
  <2> QED BY <1>1, <1>2, <1>4, <1>5, <2>4 DEF Rows, k, z
<1> QED BY <1>6, <1>7 DEF Rows

(* What divides both remainders of a row divides p and q.                  *)
LEMMA RowsMultiple ==
  ASSUME NEW p \in Nat, NEW q \in Nat, NEW r2, NEW r, NEW s2, NEW s, NEW t2, NEW t,
         Rows(p, q, r2, r, s2, s, t2, t), NEW d \in Int, Multiple(r2, d), Multiple(r, d)
  PROVE  Multiple(p, d) /\ Multiple(q, d)
<1>1. /\ r2 \in Int /\ r \in Int /\ -r2 \in Int /\ -r \in Int
      /\ s2 \in Int /\ s \in Int /\ t2 \in Int /\ t \in Int
      /\ -s2 \in Int /\ -s \in Int /\ -t2 \in Int /\ -t \in Int
  BY DEF Rows
<1>2. \A u, v \in Int : Multiple(u * r2 + v * r, d)
  BY <1>1, MultipleSum
<1>3. CASE Alternate(p, q, r2, r, s2, s, t2, t)
  <2>1. p = (-t) * r2 + t2 * r /\ q = s * r2 + (-s2) * r
    BY <1>1, <1>3 DEF Alternate
  <2> QED BY <1>1, <1>2, <2>1
<1>4. CASE Alternate(p, q, r2, r, -s2, -s, -t2, -t)
  <2>1. p = t * r2 + (-t2) * r /\ q = (-s) * r2 + s2 * r
    BY <1>1, <1>4 DEF Alternate
  <2> QED BY <1>1, <1>2, <2>1
<1> QED BY <1>3, <1>4 DEF Rows

(* In the row with remainder 1 the coefficients are less than p and q.     *)
LEMMA LastRow ==
  ASSUME NEW p \in Nat, NEW q \in Nat, NEW r2, NEW s2, NEW s, NEW t2, NEW t,
         Rows(p, q, r2, 1, s2, s, t2, t)
  PROVE  /\ q >= 2 /\ s \in -q + 1 .. q - 1 /\ t \in -p + 1 .. p - 1
         /\ 1 = s * p + t * q
<1>1. /\ r2 \in Int /\ r2 >= 2 /\ q >= 2 /\ 1 = s * p + t * q
      /\ s2 \in Int /\ s \in Int /\ t2 \in Int /\ t \in Int
  BY DEF Rows
<1>2. ASSUME NEW x2 \in Int, NEW x \in Int, NEW y2 \in Int, NEW y \in Int,
             Alternate(p, q, r2, 1, x2, x, y2, y)
      PROVE  x >= 0 /\ x < q /\ y <= 0 /\ -y < p
  <2>1. /\ x2 <= 0 /\ x >= 0 /\ y2 >= 0 /\ y <= 0
        /\ p = y2 - y * r2 /\ q = x * r2 - x2
    BY <1>1, <1>2 DEF Alternate
  <2>2. x * r2 >= x * 2 /\ (-y) * r2 >= (-y) * 2 /\ (-y) * r2 = -(y * r2)
    BY <1>1, <2>1
  <2>3. q >= x * 2 /\ p >= (-y) * 2
    BY <1>1, <2>1, <2>2
  <2>4. p # 0
    <3>1. p = 0 => t * q = 1
      BY <1>1
    <3>2. t * q # 1
      <4>1. CASE t >= 1
        BY <1>1, <4>1
      <4>2. CASE t <= 0
        BY <1>1, <4>2
      <4> QED BY <1>1, <4>1, <4>2
    <3> QED BY <3>1, <3>2
  <2> QED BY <1>1, <2>1, <2>3, <2>4
<1>3. CASE Alternate(p, q, r2, 1, s2, s, t2, t)
  BY <1>1, <1>2, <1>3
<1>4. CASE Alternate(p, q, r2, 1, -s2, -s, -t2, -t)
  <2>1. -s2 \in Int /\ -s \in Int /\ -t2 \in Int /\ -t \in Int
    BY <1>1
  <2>2. -s >= 0 /\ -s < q /\ -t <= 0 /\ -(-t) < p
    BY <1>2, <1>4, <2>1
  <2> QED BY <1>1, <2>2
<1> QED BY <1>3, <1>4 DEF Rows

(* The coefficient, made positive, is the inverse; its sign is that of the *)
(* number.                                                                 *)
LEMMA InverseFound ==
  ASSUME NEW x \in Int, NEW m \in Nat, m >= 2, NEW v \in Int, NEW w \in Int,
         v < m, -m < v, 1 = v * Abs(x) + w * m,
         NEW c, c = IF x < 0 THEN m - Positive(v, m) ELSE Positive(v, m)
  PROVE  c \in 1 .. m - 1 /\ (c * x) % m = 1 /\ Positive(c * x, m) % m = 1
<1>1. Abs(x) \in Nat /\ (x < 0 => x = -Abs(x)) /\ (x >= 0 => x = Abs(x))
  BY DEF Abs
<1>2. v # 0
  <2> SUFFICES ASSUME v = 0 PROVE FALSE
    OBVIOUS
  <2>1. w * m = 1
    BY <1>1
  <2>2. CASE w >= 1
    BY <2>1, <2>2
  <2>3. CASE w <= 0
    BY <2>1, <2>3
  <2> QED BY <2>2, <2>3
<1>3. PICK p \in 1 .. m - 1, j0 \in {0, 1} : Positive(v, m) = p /\ p = v + j0 * m
  <2>1. CASE v > 0
    <3>1. Positive(v, m) = v /\ v \in 1 .. m - 1 /\ v = v + 0 * m
      BY <2>1 DEF Positive
    <3> QED BY <3>1
  <2>2. CASE v < 0
    <3>1. -v \in 0 .. m - 1 /\ m \in Nat \ {0} /\ 0 \in Int
      BY <2>2
    <3>4. \A n \in 0 .. m - 1 : (m * 0 + n) \div m = 0 /\ m * 0 + n = n
      BY <3>1, Remainder
    <3>2. (-v) \div m = 0
      BY <3>1, <3>4
    <3>3. Positive(v, m) = v + m /\ v + m \in 1 .. m - 1 /\ v + m = v + 1 * m
      BY <2>2, <3>2 DEF Positive
    <3> QED BY <3>3
  <2> QED BY <1>2, <2>1, <2>2
<1>4. c \in 1 .. m - 1 /\ c = IF x < 0 THEN m - Positive(v, m) ELSE Positive(v, m)
  <2>1. p \in 1 .. m - 1 /\ m - p \in 1 .. m - 1
    OBVIOUS
  <2> QED BY <1>3, <2>1
<1>5. \E k \in Int : c * x = m * k + 1
  <2>1. CASE x >= 0
    <3>1. c = v + j0 * m
      BY <1>3, <1>4, <2>1
    <3>2. c * x = (v + j0 * m) * Abs(x)
      BY <1>1, <2>1, <3>1
    <3>3. c * x = m * (j0 * Abs(x) - w) + 1
      BY <1>1, <1>3, <3>2
    <3>4. j0 * Abs(x) - w \in Int
      BY <1>1, <1>3
    <3> QED BY <3>3, <3>4
  <2>2. CASE x < 0
    <3>1. c = m - (v + j0 * m)
      BY <1>3, <1>4, <2>2
    <3>2. c * x = (m - (v + j0 * m)) * (-Abs(x))
      BY <1>1, <2>2, <3>1
    <3>3. c * x = m * (j0 * Abs(x) - Abs(x) - w) + 1
      <4>1. PICK y \in Int : y = Abs(x)
        BY <1>1
      <4>2. (m - (v + j0 * m)) * (-y) = m * (j0 * y - y) + v * y
        <5>1. \A h \in Int : (m - (v + h * m)) * (-y) = m * (h * y - y) + v * y
          BY <4>1
        <5> QED BY <1>3, <5>1
      <4>3. v * y = 1 - w * m
        BY <4>1
      <4>4. m * (j0 * y - y) + (1 - w * m) = m * (j0 * y - y - w) + 1
        BY <4>1
      <4> QED BY <3>2, <4>1, <4>2, <4>3, <4>4
    <3>4. j0 * Abs(x) - Abs(x) - w \in Int
      BY <1>1, <1>3
    <3> QED BY <3>3, <3>4
  <2> QED BY <2>1, <2>2
<1>6. \A k \in Int : (m * k + 1) % m = 1
  <2>1. m \in Nat \ {0} /\ 1 \in 0 .. m - 1
    OBVIOUS
  <2> QED BY <2>1, Remainder
<1>7. Positive(c * x, m) % m = 1
  <2>1. PICK k \in Int : c * x = m * k + 1
    BY <1>5
  <2> DEFINE e == (-(c * x)) \div m
  <2>2. e \in Int
    BY <2>1
  <2> HIDE DEF e
  <2>3. \E h \in Int : Positive(c * x, m) = m * h + 1
    <3>1. Positive(c * x, m) = IF c * x < 0 THEN c * x + (e + 1) * m ELSE c * x
      BY DEF Positive, e
    <3>2. c * x + (e + 1) * m = m * (k + e + 1) + 1 /\ k + e + 1 \in Int
      BY <2>1, <2>2
    <3> QED BY <2>1, <3>1, <3>2
  <2> QED BY <1>6, <2>3
<1> QED BY <1>4, <1>5, <1>6, <1>7

-----------------------------------------------------------------------------
(* The two numbers the table of multinv begins with, and its last rows.    *)
Upper == Larger(Abs(args[1]), args[2])
Lower == Smaller(Abs(args[1]), args[2])

InLimits == Abs(args[1]) \in 1 .. INT32_MAX /\ args[2] \in 1 .. INT32_MAX

EuclidInv ==
  /\ fn = "multinv" /\ pc \in {"gcd", "gcd_done"} => ~OutOfRange(args[1], args[2])
  /\ pc = "euclid" =>
       /\ InLimits
       /\ Combination(1, args[1], args[2])
       /\ Rows(Upper, Lower, euclid.r2, euclid.r, euclid.s2, euclid.s, euclid.t2, euclid.t)
       /\ euclid.r = 0 => Lower = 1

LEMMA InRange ==
  ASSUME Called, fn = "multinv"
  PROVE  /\ OutOfRange(args[1], args[2])
              <=> Abs(args[1]) > INT32_MAX \/ args[2] > INT32_MAX \/ args[2] < 0
         /\ ~OutOfRange(args[1], args[2]) => args[1] # INT64_MIN /\ args[2] # INT64_MIN
<1>1. args[1] \in Int /\ args[2] \in Int /\ args[1] # INT64_MIN
  BY DEF Called, LeastInverse
<1> QED BY <1>1, NumTheoryAssumption DEF OutOfRange, Magnitude, INT64_MIN

LEMMA UpperLower ==
  ASSUME Called, fn = "multinv", InLimits
  PROVE  /\ Upper \in Nat \ {0} /\ Lower \in Nat \ {0}
         /\ args[1] \in Int /\ args[2] \in Nat \ {0} /\ Abs(args[1]) \in Nat \ {0}
         /\ \/ Abs(args[1]) > args[2] /\ Upper = Abs(args[1]) /\ Lower = args[2]
            \/ Abs(args[1]) <= args[2] /\ Upper = args[2] /\ Lower = Abs(args[1])
<1>1. args[1] \in Int
  BY DEF Called
<1> QED BY <1>1, NumTheoryAssumption DEF InLimits, Upper, Lower, Larger, Smaller

(* Only 1 divides both of two coprime numbers.                             *)
LEMMA OnlyOne ==
  ASSUME Called, fn = "multinv", InLimits, Combination(1, args[1], args[2]),
         NEW d \in Nat, Multiple(Upper, d), Multiple(Lower, d)
  PROVE  d = 1
<1>1. Multiple(Abs(args[1]), d) /\ Multiple(args[2], d) /\ args[1] \in Int /\ args[2] \in Int
  BY UpperLower
<1>2. Multiple(args[1], d)
  BY <1>1, MultipleAbs
<1>3. Multiple(1, d)
  BY <1>1, <1>2, CombinationMultiple
<1>4. d # 0 /\ Abs(d) <= Abs(1)
  BY <1>3, MultipleSize
<1> QED BY <1>4 DEF Abs

LEMMA CheckInverseKeeps ==
  ASSUME Called, CheckInverse
  PROVE  GcdInv' /\ EuclidInv' /\ InverseCorrect'
<1>1. /\ fn = "multinv" /\ fn' = fn /\ args' = args /\ args[1] \in Int /\ args[2] \in Int
  BY DEF CheckInverse, At, call, Called
<1>2. CASE OutOfRange(args[1], args[2])
  <2>1. pc' = "refused"
    BY <1>2 DEF CheckInverse, Goto
  <2> QED BY <1>1, <1>2, <2>1 DEF GcdInv, EuclidInv, InverseCorrect, OutOfRange
<1>3. CASE ~OutOfRange(args[1], args[2])
  <2>1. CallGcd(args[1], args[2]) /\ pc' = "gcd"
    BY <1>3 DEF CheckInverse, CallGcd, Goto
  <2>2. First' = args[1] /\ Second' = args[2]
    BY <1>1 DEF First, Second
  <2>3. GcdInv'
    BY <1>1, <1>3, <2>1, <2>2, InRange, CallGcdStarts
  <2> QED BY <1>1, <1>3, <2>1, <2>3 DEF EuclidInv, InverseCorrect, OutOfRange
<1> QED BY <1>2, <1>3

(* multinv refuses numbers with a common divisor.                          *)
LEMMA NotCoprimeKeeps ==
  ASSUME Called, GcdInv, EuclidInv, NotCoprime
  PROVE  InverseCorrect'
<1>1. /\ fn = "multinv" /\ pc = "gcd_done" /\ fn' = fn /\ args' = args /\ b # 1
      /\ pc' = "refused"
      /\ args[1] \in Int /\ args[2] \in Int /\ DOMAIN args = 1 .. 2
  BY DEF NotCoprime, At, call, Coprime, Goto, Called
<1>2. /\ b \in Nat \ {0} /\ args[2] # 0 /\ Multiple(args[1], b) /\ Multiple(args[2], b)
  BY <1>1 DEF GcdInv, First, Second
<1>3. args[2] >= 0
  BY <1>1, NumTheoryAssumption, InRange DEF EuclidInv
<1>4. Abs(b) <= Abs(args[2])
  BY <1>1, <1>2, MultipleSize
<1>5. b \in 2 .. args[2]
  BY <1>1, <1>2, <1>3, <1>4 DEF Abs
<1>6. CommonDivisor(b)
  <2>1. Divides(b, args[1]) /\ Divides(b, args[2])
    BY <1>1, <1>2, DividesMultiple
  <2> QED BY <1>1, <2>1 DEF CommonDivisor
<1>7. \A d : CommonDivisor(d)' = CommonDivisor(d)
  BY <1>1 DEF CommonDivisor
<1> QED BY <1>1, <1>5, <1>6, <1>7 DEF InverseCorrect

LEMMA StartEuclidKeeps ==
  ASSUME Called, GcdInv, EuclidInv, StartEuclid
  PROVE  EuclidInv'
<1>1. /\ fn = "multinv" /\ pc = "gcd_done" /\ fn' = fn /\ args' = args /\ b = 1
      /\ pc' = "euclid"
      /\ args[1] \in Int /\ args[2] \in Int
      /\ euclid' = [r1 |-> Upper, r2 |-> Lower, r |-> Upper % Lower,
                    s2 |-> 0, s |-> 1, t2 |-> 1, t |-> -(Upper \div Lower)]
  BY DEF StartEuclid, At, call, Coprime, Goto, Called, Upper, Lower
<1>2. Combination(1, args[1], args[2]) /\ args[1] # 0 /\ args[2] # 0
  BY <1>1 DEF GcdInv, First, Second
<1>3. InLimits
  <2>1. Abs(args[1]) <= INT32_MAX /\ args[2] <= INT32_MAX /\ args[2] >= 0
    BY <1>1, NumTheoryAssumption, InRange DEF EuclidInv, Abs
  <2> QED BY <1>1, <1>2, <2>1, NumTheoryAssumption DEF InLimits, Abs
<1>4. Upper \in Nat \ {0} /\ Lower \in Nat \ {0}
  BY <1>1, <1>3, UpperLower
<1>5. Rows(Upper, Lower, Lower, Upper % Lower, 0, 1, 1, -(Upper \div Lower))
  BY <1>4, FirstRows
<1>6. ASSUME Upper % Lower = 0 PROVE Lower = 1
  <2>1. Multiple(Upper, Lower)
    BY <1>4, <1>6, DividesMultiple DEF Divides
  <2>2. Multiple(Lower, Lower)
    BY <1>4, MultipleSelf
  <2> QED BY <1>1, <1>2, <1>3, <1>4, <2>1, <2>2, OnlyOne
<1>7. InLimits' /\ Upper' = Upper /\ Lower' = Lower /\ Combination(1, args[1], args[2])'
  BY <1>1, <1>2, <1>3 DEF InLimits, Upper, Lower
<1> QED BY <1>1, <1>5, <1>6, <1>7 DEF EuclidInv

LEMMA EuclidStepKeeps ==
  ASSUME Called, Control, EuclidInv, EuclidStep
  PROVE  EuclidInv'
<1> DEFINE k == euclid.r2 \div euclid.r
<1>1. /\ pc = "euclid" /\ pc' = "euclid" /\ euclid.r \notin {0, 1}
      /\ fn = "multinv" /\ fn' = fn /\ args' = args
      /\ euclid' = [r1 |-> euclid.r2, r2 |-> euclid.r, r |-> euclid.r2 % euclid.r,
                    s2 |-> euclid.s, s |-> euclid.s2 - euclid.s * k,
                    t2 |-> euclid.t, t |-> euclid.t2 - euclid.t * k]
  BY DEF EuclidStep, call, Control, Called
<1>2. /\ InLimits /\ Combination(1, args[1], args[2])
      /\ Rows(Upper, Lower, euclid.r2, euclid.r, euclid.s2, euclid.s, euclid.t2, euclid.t)
  BY <1>1 DEF EuclidInv
<1>3. Upper \in Nat /\ Lower \in Nat
  BY <1>1, <1>2, UpperLower
<1>4. Rows(Upper, Lower, euclid.r, euclid.r2 % euclid.r, euclid.s, euclid.s2 - euclid.s * k,
           euclid.t, euclid.t2 - euclid.t * k)
  BY <1>1, <1>2, <1>3, NextRows
<1>5. ASSUME euclid.r2 % euclid.r = 0 PROVE FALSE
  <2>1. euclid.r \in Nat \ {0} /\ euclid.r2 \in Int
    BY <1>1, <1>2, <1>3 DEF Rows
  <2>2. Multiple(euclid.r2, euclid.r) /\ Multiple(euclid.r, euclid.r)
    BY <1>5, <2>1, DividesMultiple, MultipleSelf DEF Divides
  <2>3. Multiple(Upper, euclid.r) /\ Multiple(Lower, euclid.r)
    BY <1>2, <1>3, <2>1, <2>2, RowsMultiple
  <2> QED BY <1>1, <1>2, <2>1, <2>3, OnlyOne
<1>6. InLimits' /\ Upper' = Upper /\ Lower' = Lower /\ Combination(1, args[1], args[2])'
  BY <1>1, <1>2 DEF InLimits, Upper, Lower
<1> QED BY <1>1, <1>4, <1>5, <1>6 DEF EuclidInv

(* The answer of multinv.                                                  *)
LEMMA EuclidDoneKeeps ==
  ASSUME Called, Control, EuclidInv, EuclidDone
  PROVE  pc' = "done" /\ InverseCorrect'
<1>1. /\ pc = "euclid" /\ euclid.r = 1 /\ fn = "multinv" /\ fn' = fn /\ args' = args
      /\ acc' = Inverse(args[1], args[2])
      /\ pc' = IF Positive(acc' * args[1], args[2]) % args[2] = 1 THEN "done" ELSE "internal_error"
  BY DEF EuclidDone, call, Control, Called, Goto
<1>2. /\ InLimits
      /\ Rows(Upper, Lower, euclid.r2, 1, euclid.s2, euclid.s, euclid.t2, euclid.t)
  BY <1>1 DEF EuclidInv
<1>3. /\ Upper \in Nat /\ Lower \in Nat /\ args[1] \in Int /\ args[2] \in Nat /\ Abs(args[1]) \in Nat
  BY <1>1, <1>2, UpperLower
<1>4. /\ Lower >= 2 /\ euclid.s \in -Lower + 1 .. Lower - 1 /\ euclid.t \in -Upper + 1 .. Upper - 1
      /\ 1 = euclid.s * Upper + euclid.t * Lower
  BY <1>2, <1>3, LastRow
<1>5. PICK v \in Int, w \in Int : /\ v = IF Abs(args[1]) > args[2] THEN euclid.s ELSE euclid.t
                                  /\ v < args[2] /\ -args[2] < v /\ args[2] >= 2
                                  /\ 1 = v * Abs(args[1]) + w * args[2]
  <2>1. CASE Abs(args[1]) > args[2]
    <3>1. Upper = Abs(args[1]) /\ Lower = args[2]
      BY <1>1, <1>2, <1>3, <2>1, UpperLower
    <3>2. euclid.s \in Int /\ euclid.t \in Int /\ euclid.s < args[2] /\ -args[2] < euclid.s
      BY <1>3, <1>4, <3>1
    <3> QED BY <1>4, <2>1, <3>1, <3>2
  <2>2. CASE ~(Abs(args[1]) > args[2])
    <3>1. Upper = args[2] /\ Lower = Abs(args[1]) /\ Abs(args[1]) <= args[2]
      BY <1>1, <1>2, <1>3, <2>2, UpperLower
    <3>2. euclid.s \in Int /\ euclid.t \in Int /\ euclid.t < args[2] /\ -args[2] < euclid.t
      BY <1>3, <1>4, <3>1
    <3>3. 1 = euclid.t * Abs(args[1]) + euclid.s * args[2] /\ args[2] >= 2
      BY <1>3, <1>4, <3>1, <3>2
    <3> QED BY <2>2, <3>2, <3>3
  <2> QED BY <2>1, <2>2
<1>6. Inverse(args[1], args[2]) =
        IF args[1] < 0 THEN args[2] - Positive(v, args[2]) ELSE Positive(v, args[2])
  BY <1>5 DEF Inverse
<1>7. /\ acc' \in 1 .. args[2] - 1 /\ (acc' * args[1]) % args[2] = 1
      /\ Positive(acc' * args[1], args[2]) % args[2] = 1
  <2>1. acc' = IF args[1] < 0 THEN args[2] - Positive(v, args[2]) ELSE Positive(v, args[2])
    BY <1>1, <1>6
  <2>2. PICK x \in Int, m \in Nat : x = args[1] /\ m = args[2]
    BY <1>3
  <2>3. PICK c : c = acc'
    OBVIOUS
  <2>4. c \in 1 .. m - 1 /\ (c * x) % m = 1 /\ Positive(c * x, m) % m = 1
    <3>1. /\ m >= 2 /\ v < m /\ -m < v /\ 1 = v * Abs(x) + w * m
          /\ c = IF x < 0 THEN m - Positive(v, m) ELSE Positive(v, m)
      BY <1>5, <2>1, <2>2, <2>3
    <3> QED BY <3>1, InverseFound
  <2> QED BY <2>2, <2>3, <2>4
<1>8. ~LeastInverse'
  BY <1>1 DEF Called, LeastInverse, INT64_MIN
<1> QED BY <1>1, <1>7, <1>8 DEF InverseCorrect

-----------------------------------------------------------------------------
(* Induction, with the statement given as the set of numbers it holds of.  *)
LEMMA SetInduction ==
  ASSUME NEW S \in SUBSET Nat, 0 \in S, \A n \in S : n + 1 \in S
  PROVE  S = Nat
<1> SUFFICES ASSUME Nat \ S # {} PROVE FALSE
  OBVIOUS
<1>1. PICK n \in Nat \ S : \A k \in Nat \ S : n <= k
  BY Least
<1>2. n # 0 /\ n - 1 \in Nat /\ n - 1 \notin Nat \ S
  BY <1>1
<1>3. (n - 1) + 1 \in S
  BY <1>2
<1> QED BY <1>1, <1>3

Products(f, n, p) == p = [k \in 0 .. n |-> IF k = 0 THEN 1 ELSE p[k - 1] * f[k]]

(* The recursive function that Product is defined by exists.               *)
LEMMA ProductExists ==
  ASSUME NEW f, NEW m \in Nat
  PROVE  \E p : Products(f, m, p)
<1> DEFINE S == {n \in Nat : \E p : Products(f, n, p)}
<1>1. 0 \in S
  <2> DEFINE p0 == [k \in 0 .. 0 |-> 1]
  <2>1. p0 = [k \in 0 .. 0 |-> IF k = 0 THEN 1 ELSE p0[k - 1] * f[k]]
    OBVIOUS
  <2> QED BY <2>1 DEF Products
<1>2. ASSUME NEW n \in S PROVE n + 1 \in S
  <2>1. PICK p : Products(f, n, p)
    BY <1>2
  <2> DEFINE q == [k \in 0 .. n + 1 |-> IF k = n + 1 THEN p[n] * f[k] ELSE p[k]]
  <2>2. ASSUME NEW k \in 0 .. n + 1 PROVE q[k] = IF k = 0 THEN 1 ELSE q[k - 1] * f[k]
    <3>1. CASE k = n + 1
      <4>1. n \in 0 .. n + 1 /\ q[n] = p[n] /\ k - 1 = n /\ k # 0
        BY <3>1
      <4> QED BY <3>1, <4>1
    <3>2. CASE k # n + 1
      <4>1. k \in 0 .. n /\ q[k] = p[k]
        BY <3>2
      <4>2. p[k] = IF k = 0 THEN 1 ELSE p[k - 1] * f[k]
        BY <2>1, <4>1 DEF Products
      <4>3. k # 0 => k - 1 \in 0 .. n + 1 /\ k - 1 # n + 1 /\ q[k - 1] = p[k - 1]
        BY <3>2
      <4> QED BY <4>1, <4>2, <4>3
    <3> QED BY <3>1, <3>2
  <2>3. q = [k \in 0 .. n + 1 |-> IF k = 0 THEN 1 ELSE q[k - 1] * f[k]]
    <3> HIDE DEF q
    <3>1. q = [k \in 0 .. n + 1 |-> q[k]]
      BY DEF q
    <3> QED BY <2>2, <3>1
  <2> HIDE DEF q
  <2>4. Products(f, n + 1, q)
    BY <2>3 DEF Products
  <2> QED BY <2>4
<1> HIDE DEF S
<1>3. S \in SUBSET Nat
  BY DEF S
<1>4. S = Nat
  BY <1>1, <1>2, <1>3, SetInduction
<1> QED BY <1>4 DEF S

LEMMA ProductIs ==
  ASSUME NEW f, NEW n \in Nat
  PROVE  \E p : Products(f, n, p) /\ Product(f, n) = p[n]
<1>1. Product(f, n) =
        (CHOOSE p : p = [k \in 0 .. n |-> IF k = 0 THEN 1 ELSE p[k - 1] * f[k]])[n]
  BY DEF Product
<1>2. \E p : p = [k \in 0 .. n |-> IF k = 0 THEN 1 ELSE p[k - 1] * f[k]]
  BY ProductExists DEF Products
<1> QED BY <1>1, <1>2 DEF Products

(* Products of the same numbers, however many are to come.                 *)
LEMMA ProductsAlike ==
  ASSUME NEW f, NEW g, NEW m \in Nat, NEW n \in Nat, NEW p, NEW q, NEW h \in Nat, h <= m, h <= n,
         Products(f, m, p), Products(g, n, q), \A k \in 1 .. h : f[k] = g[k]
  PROVE  p[h] = q[h]
<1> DEFINE S == {k \in Nat : k <= h => p[k] = q[k]}
<1>1. 0 \in S
  BY DEF Products
<1>2. ASSUME NEW k \in S PROVE k + 1 \in S
  <2> SUFFICES ASSUME k + 1 <= h PROVE p[k + 1] = q[k + 1]
    OBVIOUS
  <2>1. p[k] = q[k] /\ f[k + 1] = g[k + 1]
    BY <1>2
  <2>2. k + 1 \in 0 .. m /\ k + 1 \in 0 .. n /\ k + 1 # 0 /\ (k + 1) - 1 = k
    OBVIOUS
  <2>3. p[k + 1] = p[k] * f[k + 1]
    BY <2>2 DEF Products
  <2>4. q[k + 1] = q[k] * g[k + 1]
    BY <2>2 DEF Products
  <2> QED BY <2>1, <2>3, <2>4
<1> HIDE DEF S
<1>3. S \in SUBSET Nat
  BY DEF S
<1>4. S = Nat
  BY <1>1, <1>2, <1>3, SetInduction
<1> QED BY <1>4 DEF S

(* What the recursion says of Product.                                     *)
LEMMA ProductNext ==
  ASSUME NEW f, NEW n \in Nat
  PROVE  Product(f, 0) = 1 /\ Product(f, n + 1) = Product(f, n) * f[n + 1]
<1>1. PICK z : Products(f, 0, z) /\ Product(f, 0) = z[0]
  BY ProductIs
<1>2. PICK p : Products(f, n, p) /\ Product(f, n) = p[n]
  BY ProductIs
<1>3. PICK m \in Nat : m = n + 1 /\ n <= m /\ n <= n
  OBVIOUS
<1>4. PICK q : Products(f, m, q) /\ Product(f, m) = q[m]
  BY ProductIs
<1>5. p[n] = q[n] /\ q[m] = q[n] * f[m]
  <2>1. p[n] = q[n]
    BY <1>2, <1>3, <1>4, ProductsAlike
  <2>2. m \in 0 .. m /\ m # 0 /\ m - 1 = n
    BY <1>3
  <2> QED BY <1>4, <2>1, <2>2 DEF Products
<1>6. z[0] = 1
  BY <1>1 DEF Products
<1> QED BY <1>1, <1>2, <1>3, <1>4, <1>5, <1>6

(* Only the first numbers count.                                           *)
LEMMA ProductSame ==
  ASSUME NEW f, NEW g, NEW n \in Nat, \A k \in 1 .. n : f[k] = g[k]
  PROVE  Product(f, n) = Product(g, n)
<1>1. PICK p : Products(f, n, p) /\ Product(f, n) = p[n]
  BY ProductIs
<1>2. PICK q : Products(g, n, q) /\ Product(g, n) = q[n]
  BY ProductIs
<1> QED BY <1>1, <1>2, ProductsAlike

LEMMA ProductPositive ==
  ASSUME NEW f, NEW n \in Nat, \A k \in 1 .. n : f[k] \in Nat \ {0}
  PROVE  Product(f, n) \in Nat \ {0}
<1> DEFINE S == {k \in Nat : k <= n => Product(f, k) \in Nat \ {0}}
<1>1. 0 \in S
  BY ProductNext
<1>2. ASSUME NEW k \in S PROVE k + 1 \in S
  <2> SUFFICES ASSUME k + 1 <= n PROVE Product(f, k + 1) \in Nat \ {0}
    OBVIOUS
  <2>1. PICK x \in Nat \ {0}, y \in Nat \ {0} : x = Product(f, k) /\ y = f[k + 1]
    BY <1>2
  <2>2. Product(f, k + 1) = x * y
    BY <2>1, ProductNext
  <2>3. x * y \in Nat /\ x * y # 0
    OBVIOUS
  <2> QED BY <2>2, <2>3
<1> HIDE DEF S
<1>3. S \in SUBSET Nat
  BY DEF S
<1>4. S = Nat
  BY <1>1, <1>2, <1>3, SetInduction
<1> QED BY <1>4 DEF S

(* One of the numbers is c times as large, and so is the product.          *)
Scaled(f, g, n, j, c) ==
  /\ j \in 1 .. n
  /\ \A k \in 1 .. n : f[k] \in Nat \ {0} /\ g[k] \in Nat \ {0}
  /\ \A k \in 1 .. n : k # j => f[k] = g[k]
  /\ f[j] = g[j] * c

LEMMA ProductChange ==
  ASSUME NEW f, NEW g, NEW n \in Nat, NEW j, NEW c \in Int, Scaled(f, g, n, j, c)
  PROVE  Product(f, n) = Product(g, n) * c
<1> USE DEF Scaled
<1> DEFINE S == {k \in Nat : k <= n => Product(f, k) = Product(g, k) * (IF k < j THEN 1 ELSE c)}
<1>1. 0 \in S
  BY ProductNext
<1>2. ASSUME NEW k \in S PROVE k + 1 \in S
  <2> SUFFICES ASSUME k + 1 <= n
               PROVE  Product(f, k + 1) = Product(g, k + 1) * (IF k + 1 < j THEN 1 ELSE c)
    OBVIOUS
  <2>1. Product(f, k) = Product(g, k) * (IF k < j THEN 1 ELSE c)
    BY <1>2
  <2>2. /\ Product(f, k + 1) = Product(f, k) * f[k + 1]
        /\ Product(g, k + 1) = Product(g, k) * g[k + 1]
    BY ProductNext
  <2>3. Product(g, k) \in Int
    <3>1. \A h \in 1 .. k : g[h] \in Nat \ {0}
      OBVIOUS
    <3> QED BY <3>1, ProductPositive
  <2>4. PICK x \in Int, y \in Int : x = Product(g, k) /\ y = g[k + 1]
    BY <2>3
  <2>5. CASE k + 1 # j
    <3>1. f[k + 1] = y /\ (k < j <=> k + 1 < j)
      BY <2>4, <2>5
    <3>2. CASE k < j
      BY <2>1, <2>2, <2>4, <3>1, <3>2
    <3>3. CASE ~(k < j)
      <4>1. (x * c) * y = (x * y) * c
        BY <2>4
      <4> QED BY <2>1, <2>2, <2>4, <3>1, <3>3, <4>1
    <3> QED BY <3>2, <3>3
  <2>6. CASE k + 1 = j
    <3>1. f[k + 1] = y * c /\ k < j /\ ~(k + 1 < j)
      BY <2>4, <2>6
    <3>2. (x * 1) * (y * c) = (x * y) * c
      BY <2>4
    <3> QED BY <2>1, <2>2, <2>4, <3>1, <3>2
  <2> QED BY <2>5, <2>6
<1> HIDE DEF S
<1>3. S \in SUBSET Nat
  BY DEF S
<1>4. S = Nat
  BY <1>1, <1>2, <1>3, SetInduction
<1>5. Product(f, n) = Product(g, n) * (IF n < j THEN 1 ELSE c)
  BY <1>4 DEF S
<1> QED BY <1>5

LEMMA PowerNext ==
  ASSUME NEW x, NEW n \in Nat
  PROVE  Power(x, 0) = 1 /\ Power(x, n + 1) = Power(x, n) * x
<1> DEFINE f == [k \in 1 .. n + 1 |-> x]
           g == [k \in 1 .. n |-> x]
<1>1. f[n + 1] = x /\ \A k \in 1 .. n : f[k] = g[k]
  OBVIOUS
<1>2. Power(x, n + 1) = Product(f, n + 1) /\ Power(x, n) = Product(g, n)
  BY DEF Power
<1> HIDE DEF f, g
<1>3. Product(f, n + 1) = Product(f, n) * f[n + 1]
  BY ProductNext
<1>4. Product(f, n) = Product(g, n)
  BY <1>1, ProductSame
<1>5. Power(x, 0) = 1
  BY ProductNext DEF Power
<1> QED BY <1>1, <1>2, <1>3, <1>4, <1>5

LEMMA PowerPositive ==
  ASSUME NEW x \in Nat \ {0}, NEW n \in Nat
  PROVE  Power(x, n) \in Nat \ {0}
<1> DEFINE f == [k \in 1 .. n |-> x]
<1>1. \A k \in 1 .. n : f[k] \in Nat \ {0}
  OBVIOUS
<1> HIDE DEF f
<1>2. Product(f, n) \in Nat \ {0}
  BY <1>1, ProductPositive
<1> QED BY <1>2 DEF Power, f

LEMMA PowerSum ==
  ASSUME NEW x \in Nat \ {0}, NEW m \in Nat, NEW n \in Nat, NEW l, l = m + n
  PROVE  Power(x, l) = Power(x, m) * Power(x, n)
<1> DEFINE S == {k \in Nat : Power(x, m + k) = Power(x, m) * Power(x, k)}
<1>1. 0 \in S
  <2>1. Power(x, m) \in Int /\ Power(x, 0) = 1 /\ m + 0 = m
    BY PowerPositive, PowerNext
  <2> QED BY <2>1
<1>2. ASSUME NEW k \in S PROVE k + 1 \in S
  <2>1. PICK h \in Nat : h = m + k
    OBVIOUS
  <2>2. Power(x, h + 1) = Power(x, h) * x /\ Power(x, k + 1) = Power(x, k) * x
    BY PowerNext
  <2>3. PICK y \in Int, z \in Int : y = Power(x, m) /\ z = Power(x, k)
    BY PowerPositive
  <2>4. Power(x, h) = y * z
    BY <1>2, <2>1, <2>3
  <2>5. (y * z) * x = y * (z * x)
    BY <2>3
  <2>6. h + 1 = m + (k + 1)
    BY <2>1
  <2>7. Power(x, h + 1) = y * (z * x) /\ Power(x, k + 1) = z * x
    BY <2>2, <2>3, <2>4, <2>5
  <2>8. Power(x, m + (k + 1)) = Power(x, m) * Power(x, k + 1)
    BY <2>3, <2>6, <2>7
  <2> QED BY <2>8
<1> HIDE DEF S
<1>3. S \in SUBSET Nat
  BY DEF S
<1>4. S = Nat
  BY <1>1, <1>2, <1>3, SetInduction
<1> QED BY <1>4 DEF S

-----------------------------------------------------------------------------
(* Coprime numbers: some sum of multiples of them is 1.                    *)
Bezout(x, y) == Combination(1, x, y)

LEMMA BezoutProduct ==
  ASSUME NEW x \in Int, NEW z \in Int, NEW y \in Int, Bezout(x, y), Bezout(z, y)
  PROVE  Bezout(x * z, y)
<1>1. PICK u \in Int, v \in Int : 1 = u * x + v * y
  BY DEF Bezout, Combination
<1>2. PICK w \in Int, t \in Int : 1 = w * z + t * y
  BY DEF Bezout, Combination
<1>3. /\ (u * x + v * y) * (w * z + t * y)
           = (u * w) * (x * z) + (u * x * t + v * w * z + v * t * y) * y
      /\ u * w \in Int /\ u * x * t + v * w * z + v * t * y \in Int
  OBVIOUS
<1>4. 1 = (u * w) * (x * z) + (u * x * t + v * w * z + v * t * y) * y
  BY <1>1, <1>2, <1>3
<1> QED BY <1>3, <1>4 DEF Bezout, Combination

LEMMA BezoutOne ==
  ASSUME NEW y \in Int
  PROVE  Bezout(1, y) /\ \A x \in Int : Bezout(x, y) => Bezout(y, x)
<1>1. 1 = 1 * 1 + 0 * y
  OBVIOUS
<1>2. \A x, u, v \in Int : u * x + v * y = v * y + u * x
  OBVIOUS
<1> QED BY <1>1, <1>2 DEF Bezout, Combination

LEMMA ProductBezout ==
  ASSUME NEW f, NEW n \in Nat, NEW y \in Int,
         \A k \in 1 .. n : f[k] \in Nat \ {0} /\ Bezout(f[k], y)
  PROVE  Bezout(Product(f, n), y)
<1> DEFINE S == {k \in Nat : k <= n => Bezout(Product(f, k), y)}
<1>1. 0 \in S
  BY ProductNext, BezoutOne
<1>2. ASSUME NEW k \in S PROVE k + 1 \in S
  <2> SUFFICES ASSUME k + 1 <= n PROVE Bezout(Product(f, k + 1), y)
    OBVIOUS
  <2>1. Bezout(Product(f, k), y)
    BY <1>2
  <2>2. k + 1 \in 1 .. n /\ f[k + 1] \in Int /\ Bezout(f[k + 1], y)
    OBVIOUS
  <2>3. Product(f, k + 1) = Product(f, k) * f[k + 1]
    BY ProductNext
  <2>4. Product(f, k) \in Int
    <3>1. \A h \in 1 .. k : f[h] \in Nat \ {0}
      OBVIOUS
    <3> QED BY <3>1, ProductPositive
  <2> QED BY <2>1, <2>2, <2>3, <2>4, BezoutProduct
<1> HIDE DEF S
<1>3. S \in SUBSET Nat
  BY DEF S
<1>4. S = Nat
  BY <1>1, <1>2, <1>3, SetInduction
<1> QED BY <1>4 DEF S

LEMMA PowerBezout ==
  ASSUME NEW x \in Nat \ {0}, NEW n \in Nat, NEW y \in Int, Bezout(x, y)
  PROVE  Bezout(Power(x, n), y)
<1> DEFINE f == [k \in 1 .. n |-> x]
<1>1. \A k \in 1 .. n : f[k] \in Nat \ {0} /\ Bezout(f[k], y)
  OBVIOUS
<1> HIDE DEF f
<1>2. Bezout(Product(f, n), y)
  BY <1>1, ProductBezout
<1> QED BY <1>2 DEF Power, f

(* Different primes are coprime: the least positive combination of them    *)
(* divides both.                                                           *)
LEMMA PrimesBezout ==
  ASSUME NEW p \in Nat, NEW q \in Nat, Prime(p), Prime(q), p # q
  PROVE  Bezout(p, q)
<1> DEFINE S == {n \in Nat \ {0} : Combination(n, p, q)}
<1>1. p > 1 /\ q > 1
  BY DEF Prime
<1>2. p \in S
  <2>1. p = 1 * p + 0 * q
    OBVIOUS
  <2> QED BY <1>1, <2>1 DEF Combination
<1>3. PICK g \in S : \A n \in S : g <= n
  <2>1. S \in SUBSET Nat /\ S # {}
    BY <1>2
  <2> HIDE DEF S
  <2> QED BY <2>1, Least
<1>4. g \in Nat \ {0} /\ Combination(g, p, q)
  OBVIOUS
<1>5. ASSUME NEW x \in Nat, Combination(x, p, q) PROVE x % g = 0
  <2> DEFINE r == x % g
             k == x \div g
  <2>1. r \in 0 .. g - 1 /\ k \in Int /\ x = g * k + r
    <3>1. x \in Int /\ g \in Nat \ {0}
      BY <1>4
    <3> QED BY <3>1, Division
  <2> HIDE DEF r, k
  <2>2. r = 1 * x + (-k) * g /\ 1 \in Int /\ -k \in Int /\ x \in Int /\ g \in Int
    BY <1>4, <2>1
  <2>3. Combination(1 * x + (-k) * g, p, q)
    <3>1. PICK c \in Int : c = -k
      BY <2>1
    <3>2. Combination(1 * x + c * g, p, q)
      <4>1. 1 \in Int /\ p \in Int /\ q \in Int
        OBVIOUS
      <4> QED BY <1>4, <1>5, <2>2, <4>1, CombinationSum
    <3> QED BY <3>1, <3>2
  <2>4. r # 0 => r \in S
    BY <1>4, <2>1, <2>2, <2>3
  <2>5. r = 0
    BY <1>3, <1>4, <2>1, <2>4
  <2> QED BY <2>5 DEF r
<1>6. Combination(p, p, q) /\ Combination(q, p, q)
  <2>1. p = 1 * p + 0 * q /\ 0 \in Int /\ 1 \in Int
    OBVIOUS
  <2>2. q = 0 * p + 1 * q
    OBVIOUS
  <2>3. Combination(p, p, q)
    BY <2>1 DEF Combination
  <2>4. Combination(q, p, q)
    BY <2>1, <2>2 DEF Combination
  <2> QED BY <2>3, <2>4
<1>7. ASSUME NEW x \in Nat, Prime(x), x % g = 0 PROVE g = 1 \/ g = x
  <2>1. Multiple(x, g) /\ x # 0
    BY <1>4, <1>7, DividesMultiple DEF Divides, Prime
  <2>2. g <= x
    BY <1>4, <2>1, MultipleSize DEF Abs
  <2>3. g \notin 2 .. x - 1
    BY <1>7 DEF Prime, Divides
  <2> QED BY <1>4, <2>2, <2>3
<1>8. g = 1
  BY <1>5, <1>6, <1>7
<1> QED BY <1>4, <1>8 DEF Bezout

-----------------------------------------------------------------------------
(***************************************************************************)
(* Lists of factors and their products.                                    *)
(***************************************************************************)
Factor == [factor : Nat \ {0}, power : Nat]
Powers(list) == [k \in DOMAIN list |-> Power(list[k].factor, list[k].power)]

LEMMA PowersOf ==
  ASSUME NEW s \in Seq(Factor)
  PROVE  /\ Len(s) \in Nat /\ DOMAIN s = 1 .. Len(s) /\ Expand(s) = Product(Powers(s), Len(s))
         /\ \A k \in 1 .. Len(s) : /\ s[k].factor \in Nat \ {0} /\ s[k].power \in Nat
                                   /\ Powers(s)[k] = Power(s[k].factor, s[k].power)
                                   /\ Powers(s)[k] \in Nat \ {0}
<1>1. Len(s) \in Nat /\ DOMAIN s = 1 .. Len(s)
  OBVIOUS
<1>2. \A k \in 1 .. Len(s) : s[k] \in Factor
  OBVIOUS
<1>3. ASSUME NEW k \in 1 .. Len(s)
      PROVE  /\ s[k].factor \in Nat \ {0} /\ s[k].power \in Nat
             /\ Powers(s)[k] = Power(s[k].factor, s[k].power)
  BY <1>1, <1>2 DEF Powers, Factor
<1>4. Expand(s) = Product(Powers(s), Len(s))
  BY DEF Expand, Powers
<1> QED BY <1>1, <1>3, <1>4, PowerPositive

LEMMA ExpandPositive ==
  ASSUME NEW s \in Seq(Factor)
  PROVE  Expand(s) \in Nat \ {0}
BY PowersOf, ProductPositive

LEMMA ExpandEmpty == Expand(<<>>) = 1
<1>1. Expand(<<>>) = Product(Powers(<<>>), 0)
  BY DEF Expand, Powers
<1> QED BY <1>1, ProductNext

(* Found: a new factor multiplies the product.                             *)
LEMMA ExpandAppend ==
  ASSUME NEW s \in Seq(Factor), NEW f \in Nat \ {0}
  PROVE  LET t == Append(s, [factor |-> f, power |-> 1])
         IN  t \in Seq(Factor) /\ Expand(t) = Expand(s) * f
<1> DEFINE t == Append(s, [factor |-> f, power |-> 1])
<1>1. /\ t \in Seq(Factor) /\ Len(t) = Len(s) + 1 /\ t[Len(s) + 1] = [factor |-> f, power |-> 1]
      /\ Len(s) \in Nat /\ \A k \in 1 .. Len(s) : t[k] = s[k]
  <2>1. [factor |-> f, power |-> 1] \in Factor
    BY DEF Factor
  <2> QED BY <2>1
<1> HIDE DEF t
<1>2. PICK n \in Nat : n = Len(s) /\ Len(t) = n + 1
  BY <1>1
<1>3. Expand(t) = Product(Powers(t), n + 1) /\ Expand(s) = Product(Powers(s), n)
  BY <1>1, <1>2, PowersOf
<1>4. \A k \in 1 .. n : Powers(t)[k] = Powers(s)[k]
  <2> TAKE k \in 1 .. n
  <2>1. k \in 1 .. Len(s) /\ k \in 1 .. Len(t) /\ t[k] = s[k]
    BY <1>1, <1>2
  <2>2. Powers(t)[k] = Power(t[k].factor, t[k].power)
    BY <1>1, <2>1, PowersOf
  <2>3. Powers(s)[k] = Power(s[k].factor, s[k].power)
    BY <2>1, PowersOf
  <2> QED BY <2>1, <2>2, <2>3
<1>5. Product(Powers(t), n) = Product(Powers(s), n)
  BY <1>4, ProductSame
<1>6. Powers(t)[n + 1] = f
  <2>1. n + 1 \in 1 .. Len(t) /\ t[n + 1].factor = f /\ t[n + 1].power = 1
    BY <1>1, <1>2
  <2>2. Powers(t)[n + 1] = Power(f, 1)
    BY <1>1, <2>1, PowersOf
  <2>3. Power(f, 0 + 1) = Power(f, 0) * f /\ Power(f, 0) = 1
    BY PowerNext
  <2>4. 0 + 1 = 1 /\ 1 * f = f
    OBVIOUS
  <2> QED BY <2>2, <2>3, <2>4
<1>7. Product(Powers(t), n + 1) = Product(Powers(t), n) * Powers(t)[n + 1]
  BY ProductNext
<1> QED BY <1>1, <1>3, <1>5, <1>6, <1>7 DEF t

(* A factor that comes m times more multiplies it m times.                 *)
LEMMA ExpandChange ==
  ASSUME NEW s \in Seq(Factor), NEW t \in Seq(Factor), Len(s) = Len(t),
         NEW j \in 1 .. Len(s), NEW m \in Nat,
         \A k \in 1 .. Len(s) : k # j => s[k] = t[k],
         s[j].factor = t[j].factor, s[j].power = t[j].power + m
  PROVE  Expand(s) = Expand(t) * Power(s[j].factor, m)
<1> DEFINE c == Power(s[j].factor, m)
<1>1. /\ Len(s) \in Nat /\ Expand(s) = Product(Powers(s), Len(s))
      /\ \A k \in 1 .. Len(s) : /\ Powers(s)[k] = Power(s[k].factor, s[k].power)
                                /\ Powers(s)[k] \in Nat \ {0}
  BY PowersOf
<1>2. /\ Expand(t) = Product(Powers(t), Len(s))
      /\ \A k \in 1 .. Len(s) : /\ Powers(t)[k] = Power(t[k].factor, t[k].power)
                                /\ Powers(t)[k] \in Nat \ {0}
  BY PowersOf
<1>3. t[j].factor \in Nat \ {0} /\ t[j].power \in Nat
  BY PowersOf
<1>4. Powers(s)[j] = Powers(t)[j] * c /\ c \in Int
  <2>1. PICK x \in Nat \ {0}, n \in Nat : x = t[j].factor /\ n = t[j].power
    BY <1>3
  <2>2. PICK l : l = n + m
    OBVIOUS
  <2>4. l = s[j].power /\ s[j].factor = x
    BY <2>1, <2>2
  <2>5. Power(x, l) = Power(x, n) * Power(x, m)
    <3> HIDE DEF c
    <3> QED BY ONLY x \in Nat \ {0}, n \in Nat, m \in Nat, <2>2, PowerSum
  <2>6. Power(x, m) \in Int
    BY PowerPositive
  <2>3. Powers(s)[j] = Power(s[j].factor, s[j].power) /\ Powers(t)[j] = Power(t[j].factor, t[j].power)
    BY <1>1, <1>2
  <2> QED BY <2>1, <2>3, <2>4, <2>5, <2>6
<1> HIDE DEF c
<1>5. \A k \in 1 .. Len(s) : k # j => Powers(s)[k] = Powers(t)[k]
  BY <1>1, <1>2
<1>6. Product(Powers(s), Len(s)) = Product(Powers(t), Len(s)) * c
  <2> DEFINE f == Powers(s)
             g == Powers(t)
             n == Len(s)
  <2>1. n \in Nat /\ c \in Int /\ Scaled(f, g, n, j, c)
    BY <1>1, <1>2, <1>4, <1>5 DEF Scaled
  <2> HIDE DEF f, g, n
  <2>2. Product(f, n) = Product(g, n) * c
    BY <2>1, ProductChange
  <2> QED BY <2>2 DEF f, g, n
<1> QED BY <1>1, <1>2, <1>6 DEF c

-----------------------------------------------------------------------------
(***************************************************************************)
(* tms_find_factors: n is the number, l the list so far, v what is left    *)
(* and d the dividend.                                                     *)
(***************************************************************************)
Ascending(l) == \A k \in 2 .. Len(l) : l[k - 1].factor < l[k].factor

PrimePowers(l) == \A k \in 1 .. Len(l) : Prime(l[k].factor) /\ l[k].power > 0

Below(l, d) == \A k \in 1 .. Len(l) : l[k].factor < d

Trying(n, l, v, d) ==
  /\ n \in Nat \ {0} /\ v \in Nat \ {0} /\ d \in Nat /\ d >= 2 /\ (d = 2 \/ d % 2 = 1)
  /\ l \in Seq(Factor) /\ Expand(l) * v = n /\ (l # <<>> => n > 1)
  /\ Ascending(l) /\ PrimePowers(l)
  /\ \A e \in 2 .. d - 1 : ~Divides(e, v)

Listed(l, n) ==
  /\ l \in Seq(Factor) /\ Ascending(l)
  /\ \A k \in 1 .. Len(l) : l[k].factor = 1 \/ Prime(l[k].factor)
  /\ n # 0 => Expand(l) = n
  /\ n > 1 => PrimePowers(l)

(* What is left after a division has no divisor the number did not have.   *)
LEMMA Quotient ==
  ASSUME NEW v \in Nat \ {0}, NEW d \in Nat, d >= 2, Divides(d, v)
  PROVE  /\ v \div d \in Nat \ {0} /\ d * (v \div d) = v /\ d <= v
         /\ \A e \in Nat \ {0} : Divides(e, v \div d) => Divides(e, v)
<1> DEFINE q == v \div d
<1>1. q \in Int /\ v = d * q
  BY Division DEF Divides
<1> HIDE DEF q
<1>2. q > 0
  BY <1>1
<1>3. d <= v
  <2>1. d * q >= d * 1
    BY <1>1, <1>2
  <2> QED BY <1>1, <2>1
<1>4. ASSUME NEW e \in Nat \ {0}, Divides(e, q) PROVE Divides(e, v)
  <2>1. Multiple(q, e)
    BY <1>1, <1>4, DividesMultiple
  <2>2. Multiple(v, q)
    <3>1. v = q * d
      BY <1>1
    <3> QED BY <3>1 DEF Multiple
  <2>3. Multiple(v, e)
    BY <1>1, <2>1, <2>2, MultipleTrans
  <2> QED BY <2>3, DividesMultiple
<1> QED BY <1>1, <1>2, <1>3, <1>4 DEF q

(* The least divisor that is tried is a prime.                             *)
LEMMA DivisorPrime ==
  ASSUME NEW v \in Nat \ {0}, NEW d \in Nat, d >= 2, Divides(d, v),
         \A e \in 2 .. d - 1 : ~Divides(e, v)
  PROVE  Prime(d)
<1> SUFFICES ASSUME NEW e \in 2 .. d - 1, Divides(e, d) PROVE FALSE
  BY DEF Prime
<1>1. Multiple(d, e) /\ Multiple(v, d)
  BY DividesMultiple
<1>2. Multiple(v, e)
  BY <1>1, MultipleTrans
<1> QED BY <1>2, DividesMultiple

(* A number with no divisor up to its half is a prime.                     *)
LEMMA HalfIsEnough ==
  ASSUME NEW v \in Nat, v > 1, NEW d \in Nat, d > v \div 2,
         \A e \in 2 .. d - 1 : ~Divides(e, v)
  PROVE  Prime(v)
<1> SUFFICES ASSUME NEW e \in 2 .. v - 1, Divides(e, v) PROVE FALSE
  BY DEF Prime
<1>1. PICK q \in Int : v = e * q
  BY DividesMultiple DEF Multiple
<1>2. q >= 2
  <2>1. q > 1
    <3>1. q <= 1 => e * q <= e
      OBVIOUS
    <3> QED BY <1>1, <3>1
  <2> QED BY <2>1
<1>3. e * q >= e * 2
  BY <1>2
<1>4. e <= v \div 2
  BY <1>1, <1>3
<1>5. e \in 2 .. d - 1
  <2>1. PICK h \in Int : h = v \div 2
    OBVIOUS
  <2> QED BY <1>4, <2>1
<1> QED BY <1>5

(* Every second dividend is enough: an even one would be divisible by 2.   *)
LEMMA AdvanceKeeps ==
  ASSUME NEW n, NEW l, NEW v, NEW d, Trying(n, l, v, d), ~Divides(d, v),
         Below(l, d + 1)
  PROVE  Trying(n, l, v, Advance(d)) /\ Below(l, Advance(d))
<1>1. /\ v \in Nat \ {0} /\ d \in Nat /\ d >= 2 /\ (d = 2 \/ d % 2 = 1)
      /\ l \in Seq(Factor)
      /\ \A e \in 2 .. d - 1 : ~Divides(e, v)
  BY DEF Trying
<1>2. \A k \in 1 .. Len(l) : l[k].factor \in Nat
  BY <1>1, PowersOf
<1>3. CASE d = 2
  <2>1. Advance(d) = 3 /\ 3 % 2 = 1 /\ \A e \in 2 .. 3 - 1 : e = d
    BY <1>3 DEF Advance
  <2> QED BY <1>1, <1>2, <1>3, <2>1 DEF Trying, Below
<1>4. CASE d # 2
  <2>1. Advance(d) = d + 2 /\ (d + 2) % 2 = 1
    BY <1>1, <1>4 DEF Advance
  <2>2. ~Divides(d + 1, v)
    <3> SUFFICES ASSUME Divides(d + 1, v) PROVE FALSE
      OBVIOUS
    <3>1. PICK h \in Nat \ {0} : h = d + 1
      BY <1>1
    <3>2. h % 2 = 0
      BY <1>1, <1>4, <3>1
    <3>3. Multiple(h, 2) /\ Multiple(v, h)
      BY <1>1, <3>1, <3>2, DividesMultiple DEF Divides
    <3>4. Multiple(v, 2)
      BY <1>1, <3>3, MultipleTrans
    <3>5. Divides(2, v)
      BY <1>1, <3>4, DividesMultiple
    <3> QED BY <1>1, <1>4, <3>5
  <2>3. \A e \in 2 .. (d + 2) - 1 : e \in 2 .. d - 1 \/ e = d \/ e = d + 1
    BY <1>1
  <2>4. \A e \in 2 .. (d + 2) - 1 : ~Divides(e, v)
    BY <1>1, <2>2, <2>3
  <2>5. Below(l, d + 2)
    BY <1>1, <1>2 DEF Below
  <2>6. d + 2 \in Nat /\ d + 2 >= 2
    BY <1>1
  <2> QED BY <2>1, <2>4, <2>5, <2>6 DEF Trying
<1> QED BY <1>3, <1>4

-----------------------------------------------------------------------------
One(f) == [factor |-> f, power |-> 1]

(* Found: a prime larger than the others is appended.                      *)
LEMMA AppendPrime ==
  ASSUME NEW l \in Seq(Factor), NEW f \in Nat, Ascending(l), PrimePowers(l), Below(l, f), Prime(f),
         NEW t, t = Append(l, One(f))
  PROVE  /\ t \in Seq(Factor) /\ Expand(t) = Expand(l) * f /\ t # <<>>
         /\ Ascending(t) /\ PrimePowers(t) /\ Below(t, f + 1)
         /\ Len(t) \in Nat \ {0} /\ t[Len(t)].factor = f
<1>1. f > 1 /\ f \in Nat \ {0}
  BY DEF Prime
<1>2. t \in Seq(Factor) /\ Expand(t) = Expand(l) * f
  BY <1>1, ExpandAppend DEF One
<1>3. /\ Len(l) \in Nat /\ Len(t) = Len(l) + 1 /\ t[Len(l) + 1] = One(f)
      /\ \A k \in 1 .. Len(l) : t[k] = l[k]
  <2>1. One(f) \in Factor
    BY <1>1 DEF One, Factor
  <2> QED BY <2>1
<1>4. PICK n \in Nat : n = Len(l) /\ Len(t) = n + 1 /\ n + 1 \in Nat \ {0}
  BY <1>3
<1>5. \A k \in 1 .. n + 1 : k = n + 1 \/ k \in 1 .. n
  OBVIOUS
<1>6. t[n + 1].factor = f /\ t[n + 1].power = 1
  BY <1>3, <1>4 DEF One
<1>7. \A k \in 1 .. n : l[k].factor \in Nat
  BY <1>4, PowersOf
<1>8. Ascending(t)
  <2> SUFFICES ASSUME NEW k \in 2 .. n + 1 PROVE t[k - 1].factor < t[k].factor
    BY <1>4 DEF Ascending
  <2>1. k - 1 \in 1 .. n
    OBVIOUS
  <2>2. t[k - 1] = l[k - 1]
    BY <1>3, <1>4, <2>1
  <2>3. CASE k = n + 1
    BY <1>4, <1>6, <2>1, <2>2, <2>3 DEF Below
  <2>4. CASE k # n + 1
    <3>1. k \in 1 .. n /\ k \in 2 .. n
      BY <2>4
    <3> QED BY <1>3, <1>4, <2>2, <3>1 DEF Ascending
  <2> QED BY <2>3, <2>4
<1>9. PrimePowers(t)
  BY <1>3, <1>4, <1>5, <1>6 DEF PrimePowers
<1>10. Below(t, f + 1)
  <2> SUFFICES ASSUME NEW k \in 1 .. n + 1 PROVE t[k].factor < f + 1
    BY <1>4 DEF Below
  <2>1. CASE k = n + 1
    <3>1. t[k] = t[n + 1]
      BY <2>1
    <3>2. f < f + 1
      OBVIOUS
    <3> QED BY <1>6, <3>1, <3>2
  <2>2. CASE k \in 1 .. n
    BY <1>3, <1>4, <1>7, <2>2 DEF Below
  <2> QED BY <1>5, <2>1, <2>2
<1>11. t # <<>>
  <2> SUFFICES ASSUME t = <<>> PROVE FALSE
    OBVIOUS
  <2> QED BY <1>4
<1> QED BY <1>2, <1>4, <1>6, <1>8, <1>9, <1>10, <1>11

(* In the loop of a power, the last factor is the dividend.                *)
Dividing(n, l, v, d) ==
  /\ Trying(n, l, v, d) /\ Below(l, d + 1)
  /\ Len(l) \in Nat \ {0} /\ l[Len(l)].factor = d

(* FactorFound.                                                            *)
LEMMA FoundKeeps ==
  ASSUME NEW n, NEW l, NEW v, NEW d, Trying(n, l, v, d), Below(l, d), Divides(d, v),
         NEW t, t = Append(l, One(d)), NEW w, w = v \div d
  PROVE  Dividing(n, t, w, d)
<1>1. /\ n \in Nat \ {0} /\ v \in Nat \ {0} /\ d \in Nat /\ d >= 2 /\ (d = 2 \/ d % 2 = 1)
      /\ l \in Seq(Factor) /\ Expand(l) * v = n
      /\ Ascending(l) /\ PrimePowers(l)
      /\ \A e \in 2 .. d - 1 : ~Divides(e, v)
  BY DEF Trying
<1>2. Prime(d)
  BY <1>1, DivisorPrime
<1>3. /\ t \in Seq(Factor) /\ Expand(t) = Expand(l) * d /\ t # <<>>
      /\ Ascending(t) /\ PrimePowers(t) /\ Below(t, d + 1)
      /\ Len(t) \in Nat \ {0} /\ t[Len(t)].factor = d
  BY <1>1, <1>2, AppendPrime
<1>4. /\ v \div d \in Nat \ {0} /\ d * (v \div d) = v
      /\ \A e \in Nat \ {0} : Divides(e, v \div d) => Divides(e, v)
  BY <1>1, Quotient
<1>5. PICK q \in Nat \ {0} : q = v \div d
  BY <1>4
<1>6. PICK x \in Nat \ {0} : x = Expand(l)
  BY <1>1, ExpandPositive
<1>7. (x * d) * q = n
  <2>1. (x * d) * q = x * (d * q)
    BY <1>1
  <2> QED BY <1>1, <1>4, <1>5, <1>6, <2>1
<1>8. \A e \in 2 .. d - 1 : ~Divides(e, q)
  BY <1>1, <1>4, <1>5
<1>9. n > 1
  <2>1. x * (d * q) >= 2
    <3>1. d * q >= 2 * 1
      BY <1>1
    <3>2. x * (d * q) >= d * q
      BY <1>1
    <3> QED BY <1>1, <3>1, <3>2
  <2> QED BY <1>1, <1>4, <1>5, <1>6, <2>1
<1>10. Trying(n, t, w, d)
  BY <1>1, <1>3, <1>5, <1>6, <1>7, <1>8, <1>9 DEF Trying
<1> QED BY <1>3, <1>10 DEF Dividing

(* DivideAgain.                                                            *)
LEMMA AgainKeeps ==
  ASSUME NEW n, NEW l, NEW v, NEW d, Dividing(n, l, v, d), Divides(d, v),
         NEW t, t = [l EXCEPT ![Len(l)].power = @ + 1], NEW w, w = v \div d
  PROVE  Dividing(n, t, w, d)
<1>0. /\ Trying(n, l, v, d) /\ Below(l, d + 1)
      /\ Len(l) \in Nat \ {0} /\ l[Len(l)].factor = d
  BY DEF Dividing
<1>1. /\ n \in Nat \ {0} /\ v \in Nat \ {0} /\ d \in Nat /\ d >= 2 /\ (d = 2 \/ d % 2 = 1)
      /\ l \in Seq(Factor) /\ Expand(l) * v = n
      /\ Ascending(l) /\ PrimePowers(l)
      /\ \A e \in 2 .. d - 1 : ~Divides(e, v)
  BY <1>0 DEF Trying
<1>2. PICK j \in Nat \ {0} : j = Len(l)
  BY <1>0
<1>3. j \in 1 .. Len(l) /\ l[j] \in Factor
  BY <1>1, <1>2
<1>4. /\ t \in Seq(Factor) /\ Len(t) = j
      /\ \A k \in 1 .. j : k # j => t[k] = l[k]
      /\ t[j].factor = l[j].factor /\ t[j].power = l[j].power + 1
  <2>1. t = [l EXCEPT ![j] = [l[j] EXCEPT !.power = l[j].power + 1]]
    BY <1>2
  <2>2. [l[j] EXCEPT !.power = l[j].power + 1] \in Factor
    BY <1>3 DEF Factor
  <2>3. t \in Seq(Factor) /\ Len(t) = Len(l)
    BY <1>1, <1>2, <1>3, <2>1, <2>2
  <2>4. t[j] = [l[j] EXCEPT !.power = l[j].power + 1]
    BY <1>1, <1>2, <1>3, <2>1
  <2>5. t[j].factor = l[j].factor /\ t[j].power = l[j].power + 1
    BY <1>3, <2>4 DEF Factor
  <2> QED BY <1>1, <1>2, <2>1, <2>3, <2>5
<1>5. l[j].power \in Nat /\ \A k \in 1 .. j : t[k].factor = l[k].factor /\ l[k].factor \in Nat
  BY <1>1, <1>2, <1>4, PowersOf
<1>6. Expand(t) = Expand(l) * d
  <2>1. Expand(t) = Expand(l) * Power(t[j].factor, 1)
    <3>1. Len(t) = Len(l) /\ j \in 1 .. Len(t) /\ \A k \in 1 .. Len(t) : k # j => t[k] = l[k]
      BY <1>2, <1>4
    <3>2. 1 \in Nat
      OBVIOUS
    <3>3. l \in Seq(Factor) /\ t \in Seq(Factor)
      BY <1>1, <1>4
    <3>4. t[j].factor = l[j].factor /\ t[j].power = l[j].power + 1
      BY <1>4
    <3> QED BY ONLY <3>1, <3>2, <3>3, <3>4, ExpandChange
  <2>2. Power(d, 0 + 1) = Power(d, 0) * d /\ Power(d, 0) = 1
    BY PowerNext
  <2>3. Power(d, 1) = d
    <3>1. 0 + 1 = 1 /\ 1 * d = d
      BY <1>1
    <3> QED BY <2>2, <3>1
  <2> QED BY <1>0, <1>2, <1>4, <2>1, <2>3
<1>7. Ascending(t) /\ PrimePowers(t) /\ Below(t, d + 1)
  <2>1. Ascending(t)
    <3> SUFFICES ASSUME NEW k \in 2 .. j PROVE t[k - 1].factor < t[k].factor
      BY <1>4 DEF Ascending
    <3>1. k \in 1 .. j /\ k - 1 \in 1 .. j
      OBVIOUS
    <3> QED BY <1>1, <1>2, <1>5, <3>1 DEF Ascending
  <2>2. PrimePowers(t)
    <3> SUFFICES ASSUME NEW k \in 1 .. j PROVE Prime(t[k].factor) /\ t[k].power > 0
      BY <1>4 DEF PrimePowers
    <3>1. CASE k = j
      BY <1>1, <1>2, <1>4, <1>5, <3>1 DEF PrimePowers
    <3>2. CASE k # j
      BY <1>1, <1>2, <1>4, <3>2 DEF PrimePowers
    <3> QED BY <3>1, <3>2
  <2>3. Below(t, d + 1)
    BY <1>0, <1>2, <1>4, <1>5 DEF Below
  <2> QED BY <2>1, <2>2, <2>3
<1>8. /\ v \div d \in Nat \ {0} /\ d * (v \div d) = v
      /\ \A e \in Nat \ {0} : Divides(e, v \div d) => Divides(e, v)
  BY <1>1, Quotient
<1>9. PICK q \in Nat \ {0} : q = v \div d
  BY <1>8
<1>10. PICK x \in Nat \ {0} : x = Expand(l)
  BY <1>1, ExpandPositive
<1>11. (x * d) * q = n
  <2>1. (x * d) * q = x * (d * q)
    BY <1>1
  <2> QED BY <1>1, <1>8, <1>9, <1>10, <2>1
<1>12. ASSUME NEW e \in 2 .. d - 1 PROVE ~Divides(e, q)
  <2>1. e \in Nat \ {0} /\ ~Divides(e, v)
    BY <1>1
  <2> QED BY <1>8, <1>9, <2>1
<1>13. n > 1
  <2>1. l # <<>>
    <3> SUFFICES ASSUME l = <<>> PROVE FALSE
      OBVIOUS
    <3> QED BY <1>2
  <2> QED BY <1>0, <2>1 DEF Trying
<1>14. Trying(n, t, q, d)
  BY <1>1, <1>4, <1>6, <1>7, <1>10, <1>11, <1>12, <1>13 DEF Trying
<1>15. t[Len(t)].factor = d
  BY <1>0, <1>2, <1>4
<1> QED BY <1>4, <1>7, <1>9, <1>14, <1>15 DEF Dividing

-----------------------------------------------------------------------------
(* NoFactor, when what is left is a prime.                                 *)
LEMMA LastPrime ==
  ASSUME NEW n, NEW l, NEW v, NEW d, Trying(n, l, v, d), Below(l, d), v # 1,
         ~Divides(d, v), d > v \div 2,
         NEW t, t = Append(l, One(v))
  PROVE  Listed(t, n)
<1>1. /\ n \in Nat \ {0} /\ v \in Nat \ {0} /\ d \in Nat /\ d >= 2 /\ v > 1
      /\ l \in Seq(Factor) /\ Expand(l) * v = n
      /\ Ascending(l) /\ PrimePowers(l)
      /\ \A e \in 2 .. d - 1 : ~Divides(e, v)
  BY DEF Trying
<1>2. Prime(v)
  BY <1>1, HalfIsEnough
<1>3. d <= v
  <2> SUFFICES ASSUME v < d PROVE FALSE
    BY <1>1
  <2>1. v \in 2 .. d - 1 /\ v % v = 0
    BY <1>1
  <2> QED BY <1>1, <2>1 DEF Divides
<1>4. Below(l, v)
  <2>1. \A k \in 1 .. Len(l) : l[k].factor \in Nat
    BY <1>1, PowersOf
  <2> QED BY <1>1, <1>3, <2>1 DEF Below
<1>5. t \in Seq(Factor) /\ Expand(t) = Expand(l) * v /\ Ascending(t) /\ PrimePowers(t)
  BY <1>1, <1>2, <1>4, AppendPrime
<1> QED BY <1>1, <1>5 DEF Listed, PrimePowers

(* OneLeft.                                                                *)
LEMMA NothingLeft ==
  ASSUME NEW n, NEW l, NEW d, Trying(n, l, 1, d),
         NEW t, t = IF l = <<>> THEN Append(l, One(1)) ELSE l
  PROVE  Listed(t, n)
<1>1. /\ n \in Nat \ {0} /\ l \in Seq(Factor) /\ Expand(l) * 1 = n /\ (l # <<>> => n > 1)
      /\ Ascending(l) /\ PrimePowers(l)
  BY DEF Trying
<1>2. Expand(l) = n
  BY <1>1, ExpandPositive
<1>3. CASE l # <<>>
  BY <1>1, <1>2, <1>3 DEF Listed, PrimePowers
<1>4. CASE l = <<>>
  <2>1. n = 1
    BY <1>2, <1>4, ExpandEmpty
  <2>2. t \in Seq(Factor) /\ Expand(t) = Expand(l) * 1
    <3>1. 1 \in Nat \ {0} /\ t = Append(l, [factor |-> 1, power |-> 1])
      BY <1>4 DEF One
    <3> QED BY <1>1, <3>1, ExpandAppend
  <2>3. Len(t) = 1 /\ t[1] = One(1)
    BY <1>4
  <2>4. Ascending(t) /\ \A k \in 1 .. Len(t) : t[k].factor = 1
    BY <2>3 DEF Ascending, One
  <2> QED BY <1>1, <1>2, <2>1, <2>2, <2>4 DEF Listed
<1> QED BY <1>3, <1>4

LEMMA TryingStarts ==
  ASSUME NEW n \in Nat \ {0}
  PROVE  Trying(n, <<>>, n, 2) /\ Below(<<>>, 2)
<1>1. Expand(<<>>) * n = n
  BY ExpandEmpty
<1>2. <<>> \in Seq(Factor) /\ Len(<<>>) = 0
  OBVIOUS
<1>3. \A e \in 2 .. 2 - 1 : FALSE
  OBVIOUS
<1> QED BY <1>1, <1>2, <1>3 DEF Trying, Ascending, PrimePowers, Below

LEMMA NoneListed == Listed(<<>>, 0)
<1>1. <<>> \in Seq(Factor) /\ Len(<<>>) = 0
  OBVIOUS
<1> QED BY <1>1 DEF Listed, Ascending

-----------------------------------------------------------------------------
(* The number being factorised, and what is known of it.                   *)
Target == IF i = 1 THEN Abs(args[1]) ELSE Abs(args[2])

FactorsInv ==
  /\ fn = "find_factors" /\ pc # "start" => i = 1
  /\ pc \in {"factor", "power", "factored"} => i \in {1, 2}
  /\ pc = "factor" => Trying(Target, factors, value, dividend) /\ Below(factors, dividend)
  /\ pc = "power" => Dividing(Target, factors, value, dividend)
  /\ pc = "factored" => Listed(factors, Target)
  /\ pc \in {"factor", "power", "factored"} /\ i = 2 => Listed(other, args[1])

(* A list is begun, of the first or of the second number.                  *)
LEMMA StartFactorsKeeps ==
  ASSUME NEW x \in Int, x # INT32_MIN, StartFactors(x), i' \in {1, 2}, Target' = Abs(x),
         fn' = "find_factors" => i' = 1, i' = 2 => Listed(other, args[1])'
  PROVE  FactorsInv'
<1>1. /\ value' = Abs(x) /\ dividend' = 2 /\ factors' = <<>>
      /\ pc' = IF x = 0 THEN "factored" ELSE "factor"
  BY DEF StartFactors, Magnitude, Goto
<1>2. CASE x = 0
  <2>1. Target' = 0
    BY <1>2 DEF Abs
  <2>2. Listed(factors', Target')
    BY <1>1, <2>1, NoneListed
  <2> QED BY <1>1, <1>2, <2>2 DEF FactorsInv
<1>3. CASE x # 0
  <2>1. PICK n \in Nat \ {0} : n = Abs(x)
    BY <1>3 DEF Abs
  <2>2. Trying(n, <<>>, n, 2) /\ Below(<<>>, 2)
    BY TryingStarts
  <2> QED BY <1>1, <1>3, <2>1, <2>2 DEF FactorsInv
<1> QED BY <1>2, <1>3

LEMMA NotLeast ==
  ASSUME Called
  PROVE  /\ fn \in {"find_factors", "reduce_fraction"} => args[1] # INT32_MIN
         /\ fn = "reduce_fraction" => args[2] # INT32_MIN
BY NumTheoryAssumption DEF Called, LeastFactors, INT32_MIN

LEMMA FindFactorsKeeps ==
  ASSUME Called, FindFactors
  PROVE  FactorsInv'
<1>1. /\ fn' = fn /\ args' = args /\ StartFactors(args[1]) /\ i' = 1 /\ args[1] \in Int
      /\ args[1] # INT32_MIN
  BY NotLeast DEF FindFactors, call, Called
<1>2. Target' = Abs(args[1])
  BY <1>1 DEF Target
<1> QED BY <1>1, <1>2, StartFactorsKeeps

LEMMA OtherListKeeps ==
  ASSUME Called, FactorsInv, OtherList
  PROVE  FactorsInv'
<1>1. /\ fn = "reduce_fraction" /\ pc = "factored" /\ i = 1
      /\ fn' = fn /\ args' = args /\ StartFactors(args[2]) /\ i' = 2 /\ other' = factors
      /\ args[1] \in Nat /\ args[2] \in Int /\ args[2] # INT32_MIN
  BY NotLeast DEF OtherList, At, call, Called
<1>2. Target' = Abs(args[2]) /\ Target = args[1]
  BY <1>1 DEF Target, Abs
<1>3. Listed(other, args[1])'
  BY <1>1, <1>2 DEF FactorsInv
<1> QED BY <1>1, <1>2, <1>3, StartFactorsKeeps

(* The steps of a list.                                                    *)
FactorsStep == FactorFound \/ DivideAgain \/ PowerDone \/ NoFactor \/ OneLeft

LEMMA FactorsStepKeeps ==
  ASSUME Called, Control, FactorsInv, FactorsStep
  PROVE  FactorsInv'
<1>1. /\ fn' = fn /\ args' = args /\ i' = i /\ other' = other
      /\ pc \in {"factor", "power"} /\ pc' \in {"factor", "power", "factored"}
  BY DEF FactorsStep, FactorFound, DivideAgain, PowerDone, NoFactor, OneLeft, call, Goto
<1>2. /\ i \in {1, 2} /\ (i = 2 => Listed(other, args[1])')
      /\ fn = "find_factors" => i = 1
      /\ pc = "factor" => Trying(Target, factors, value, dividend) /\ Below(factors, dividend)
      /\ pc = "power" => Dividing(Target, factors, value, dividend)
  BY <1>1 DEF FactorsInv
<1>3. PICK n, l, v, d : n = Target /\ l = factors /\ v = value /\ d = dividend
  OBVIOUS
<1>4. PICK l1, v1, d1 : l1 = factors' /\ v1 = value' /\ d1 = dividend'
  OBVIOUS
<1>5. Target' = n
  BY <1>1, <1>3 DEF Target
<1>6. ASSUME FactorFound
      PROVE  Dividing(n, l1, v1, d1) /\ pc' = "power"
  <2>1. /\ Divides(d, v) /\ l1 = Append(l, One(d)) /\ v1 = v \div d /\ d1 = d /\ pc = "factor"
        /\ pc' = "power"
    BY <1>3, <1>4, <1>6 DEF FactorFound, Found, One, Goto
  <2>2. Trying(n, l, v, d) /\ Below(l, d)
    BY <1>2, <1>3, <2>1
  <2> QED BY <2>1, <2>2, FoundKeeps
<1>7. ASSUME DivideAgain
      PROVE  Dividing(n, l1, v1, d1) /\ pc' = "power"
  <2>1. /\ Divides(d, v) /\ l1 = [l EXCEPT ![Len(l)].power = @ + 1] /\ v1 = v \div d /\ d1 = d
        /\ pc = "power" /\ pc' = "power"
    BY <1>3, <1>4, <1>7 DEF DivideAgain
  <2>2. Dividing(n, l, v, d)
    BY <1>2, <1>3, <2>1
  <2> QED BY <2>1, <2>2, AgainKeeps
<1>8. ASSUME PowerDone
      PROVE  Trying(n, l1, v1, d1) /\ pc' = "factor" /\ Below(l1, d1)
  <2>1. /\ ~(Divides(d, v) /\ v >= d) /\ d1 = Advance(d) /\ pc = "power" /\ pc' = "factor"
        /\ l1 = l /\ v1 = v
    BY <1>3, <1>4, <1>8 DEF PowerDone, Goto
  <2>2. Trying(n, l, v, d) /\ Below(l, d + 1)
    BY <1>2, <1>3, <2>1 DEF Dividing
  <2>3. ~Divides(d, v)
    <3>1. v \in Nat \ {0} /\ d \in Nat /\ d >= 2
      BY <2>2 DEF Trying
    <3> QED BY <2>1, <3>1, Quotient
  <2> QED BY <2>1, <2>2, <2>3, AdvanceKeeps
<1>9. ASSUME NoFactor
      PROVE  \/ Trying(n, l1, v1, d1) /\ pc' = "factor" /\ Below(l1, d1)
             \/ Listed(l1, n) /\ pc' = "factored"
  <2>1. /\ v # 1 /\ ~Divides(d, v) /\ pc = "factor" /\ v1 = v
        /\ IF d > v \div 2 THEN l1 = Append(l, One(v)) /\ pc' = "factored" /\ d1 = d
           ELSE d1 = Advance(d) /\ l1 = l /\ pc' = pc
    BY <1>3, <1>4, <1>9 DEF NoFactor, Found, One, Goto
  <2>2. Trying(n, l, v, d) /\ Below(l, d)
    BY <1>2, <1>3, <2>1
  <2>3. CASE d > v \div 2
    BY <2>1, <2>2, <2>3, LastPrime
  <2>4. CASE ~(d > v \div 2)
    <3>1. Below(l, d + 1)
      <4>1. l \in Seq(Factor) /\ d \in Nat
        BY <2>2 DEF Trying
      <4>2. \A k \in 1 .. Len(l) : l[k].factor \in Nat
        BY <4>1, PowersOf
      <4> QED BY <2>2, <4>1, <4>2 DEF Below
    <3> QED BY <2>1, <2>2, <2>4, <3>1, AdvanceKeeps
  <2> QED BY <2>3, <2>4
<1>10. ASSUME OneLeft
       PROVE  Listed(l1, n) /\ pc' = "factored"
  <2>1. /\ v = 1 /\ pc = "factor" /\ pc' = "factored"
        /\ l1 = IF l = <<>> THEN Append(l, One(1)) ELSE l
    BY <1>3, <1>4, <1>10 DEF OneLeft, Found, One, Goto
  <2>2. Trying(n, l, 1, d)
    BY <1>2, <1>3, <2>1
  <2> QED BY <2>1, <2>2, NothingLeft
<1>11. \/ Dividing(n, l1, v1, d1) /\ pc' = "power"
       \/ Trying(n, l1, v1, d1) /\ pc' = "factor" /\ Below(l1, d1)
       \/ Listed(l1, n) /\ pc' = "factored"
  BY <1>6, <1>7, <1>8, <1>9, <1>10 DEF FactorsStep
<1> QED BY <1>1, <1>2, <1>4, <1>5, <1>11 DEF FactorsInv

-----------------------------------------------------------------------------
(***************************************************************************)
(* tms_reduce_fraction: x / y is the fraction, l and m the lists, j and h  *)
(* the places in them.                                                     *)
(***************************************************************************)
Factored(l) ==
  /\ l \in Seq(Factor) /\ Ascending(l)
  /\ \A k \in 1 .. Len(l) : l[k].factor = 1 \/ Prime(l[k].factor)

(* The factors before the places have nothing in common with the others.   *)
Reducing(x, y, l, m, j, h) ==
  /\ x \in Nat \ {0} /\ y \in Nat \ {0}
  /\ Factored(l) /\ Factored(m)
  /\ Expand(l) * y = Expand(m) * x
  /\ j \in Nat \ {0} /\ h \in Nat \ {0}
  /\ \A p \in 1 .. Len(l), q \in 1 .. Len(m) :
       (p < j \/ q < h) /\ l[p].factor = m[q].factor => l[p].power = 0 \/ m[q].power = 0

(* The factors of a list are those of different places.                    *)
LEMMA AscendingApart ==
  ASSUME NEW l \in Seq(Factor), Ascending(l), NEW p \in 1 .. Len(l), NEW q \in 1 .. Len(l), p < q
  PROVE  l[p].factor < l[q].factor
<1>0. Len(l) \in Nat /\ \A k \in 1 .. Len(l) : l[k].factor \in Nat
  BY PowersOf
<1> DEFINE S == {n \in Nat : p + 1 + n <= Len(l) => l[p].factor < l[p + 1 + n].factor}
<1>1. 0 \in S
  <2> SUFFICES ASSUME p + 1 <= Len(l) PROVE l[p].factor < l[p + 1].factor
    OBVIOUS
  <2>1. p + 1 \in 2 .. Len(l) /\ (p + 1) - 1 = p
    BY <1>0
  <2> QED BY <2>1 DEF Ascending
<1>2. ASSUME NEW n \in S PROVE n + 1 \in S
  <2> SUFFICES ASSUME p + 1 + (n + 1) <= Len(l) PROVE l[p].factor < l[p + 1 + (n + 1)].factor
    OBVIOUS
  <2>1. PICK k \in Nat : k = p + 1 + n
    OBVIOUS
  <2>2. l[p].factor < l[k].factor
    BY <1>0, <1>2, <2>1
  <2>3. k + 1 \in 2 .. Len(l) /\ (k + 1) - 1 = k /\ k \in 1 .. Len(l) /\ k + 1 = p + 1 + (n + 1)
    BY <1>0, <2>1
  <2>4. l[k].factor < l[k + 1].factor
    BY <2>3 DEF Ascending
  <2>5. l[p].factor \in Nat /\ l[k].factor \in Nat /\ l[k + 1].factor \in Nat
    BY <1>0, <2>3
  <2>6. l[p].factor < l[k + 1].factor
    BY <2>2, <2>4, <2>5
  <2> QED BY <2>3, <2>6
<1> HIDE DEF S
<1>3. S \in SUBSET Nat
  BY DEF S
<1>4. S = Nat
  BY <1>1, <1>2, <1>3, SetInduction
<1>5. q - (p + 1) \in S /\ p + 1 + (q - (p + 1)) = q
  BY <1>4
<1> QED BY <1>0, <1>5 DEF S

(* Less of one factor.                                                     *)
Lessened(l, j, n) == [l EXCEPT ![j].power = @ - n]

LEMMA LessenedIs ==
  ASSUME NEW l, Factored(l), NEW j \in 1 .. Len(l), NEW n \in Nat, n <= l[j].power,
         NEW t, t = Lessened(l, j, n)
  PROVE  /\ Factored(t) /\ Len(t) = Len(l)
         /\ \A k \in 1 .. Len(l) : t[k].factor = l[k].factor /\ (k # j => t[k] = l[k])
         /\ t[j].power = l[j].power - n
         /\ Expand(l) = Expand(t) * Power(l[j].factor, n)
<1>1. /\ l \in Seq(Factor) /\ Ascending(l) /\ Len(l) \in Nat
      /\ \A k \in 1 .. Len(l) : l[k].factor = 1 \/ Prime(l[k].factor)
  BY DEF Factored
<1>2. l[j] \in Factor /\ l[j].power \in Nat /\ l[j].factor \in Nat \ {0}
  <2>1. l[j] \in Factor
    BY <1>1
  <2> QED BY <2>1 DEF Factor
<1>3. PICK r : r = [l[j] EXCEPT !.power = l[j].power - n]
  OBVIOUS
<1>4. r \in Factor /\ r.factor = l[j].factor /\ r.power = l[j].power - n
  BY <1>2, <1>3 DEF Factor
<1>5. t = [l EXCEPT ![j] = r]
  BY <1>3 DEF Lessened
<1>6. t \in Seq(Factor) /\ Len(t) = Len(l) /\ t[j] = r /\ \A k \in 1 .. Len(l) : k # j => t[k] = l[k]
  BY <1>1, <1>4, <1>5
<1>7. \A k \in 1 .. Len(l) : t[k].factor = l[k].factor
  BY <1>4, <1>6
<1>8. Ascending(t)
  <2> SUFFICES ASSUME NEW k \in 2 .. Len(l) PROVE t[k - 1].factor < t[k].factor
    BY <1>6 DEF Ascending
  <2>1. k \in 1 .. Len(l) /\ k - 1 \in 1 .. Len(l)
    BY <1>1
  <2> QED BY <1>1, <1>7, <2>1 DEF Ascending
<1>9. Expand(l) = Expand(t) * Power(l[j].factor, n)
  <2>1. /\ Len(l) = Len(t) /\ j \in 1 .. Len(l) /\ \A k \in 1 .. Len(l) : k # j => l[k] = t[k]
        /\ n \in Nat
    BY <1>6
  <2>2. l[j].factor = t[j].factor /\ l[j].power = t[j].power + n
    BY <1>2, <1>4, <1>6
  <2> QED BY ONLY <1>1, <1>6, <2>1, <2>2, ExpandChange
<1> QED BY <1>1, <1>4, <1>6, <1>7, <1>8, <1>9 DEF Factored

(* CommonFactor.                                                           *)
LEMMA CommonFactorKeeps ==
  ASSUME NEW x, NEW y, NEW l, NEW m, NEW j, NEW h, Reducing(x, y, l, m, j, h),
         j <= Len(l), h <= Len(m), l[j].factor = m[h].factor,
         NEW n, n = Smaller(l[j].power, m[h].power),
         NEW s, s = Lessened(l, j, n), NEW t, t = Lessened(m, h, n),
         NEW j1, j1 = j + 1, NEW h1, h1 = h + 1
  PROVE  Reducing(x, y, s, t, j1, h1)
<1>1. /\ x \in Nat \ {0} /\ y \in Nat \ {0} /\ Factored(l) /\ Factored(m)
      /\ l \in Seq(Factor) /\ m \in Seq(Factor) /\ Ascending(l) /\ Ascending(m)
      /\ j \in 1 .. Len(l) /\ h \in 1 .. Len(m)
      /\ Expand(l) * y = Expand(m) * x
  BY DEF Reducing, Factored
<1>2. \A p \in 1 .. Len(l), q \in 1 .. Len(m) :
        (p < j \/ q < h) /\ l[p].factor = m[q].factor => l[p].power = 0 \/ m[q].power = 0
  BY DEF Reducing
<1>3. /\ \A k \in 1 .. Len(l) : l[k].factor \in Nat \ {0} /\ l[k].power \in Nat
      /\ \A k \in 1 .. Len(m) : m[k].factor \in Nat \ {0} /\ m[k].power \in Nat
  BY <1>1, PowersOf
<1>4. n \in Nat /\ n <= l[j].power /\ n <= m[h].power /\ (n = l[j].power \/ n = m[h].power)
  BY <1>1, <1>3 DEF Smaller
<1>5. /\ Factored(s) /\ Len(s) = Len(l)
      /\ \A k \in 1 .. Len(l) : s[k].factor = l[k].factor /\ (k # j => s[k] = l[k])
      /\ s[j].power = l[j].power - n
      /\ Expand(l) = Expand(s) * Power(l[j].factor, n)
  BY <1>1, <1>4, LessenedIs
<1>6. /\ Factored(t) /\ Len(t) = Len(m)
      /\ \A k \in 1 .. Len(m) : t[k].factor = m[k].factor /\ (k # h => t[k] = m[k])
      /\ t[h].power = m[h].power - n
      /\ Expand(m) = Expand(t) * Power(m[h].factor, n)
  BY <1>1, <1>4, LessenedIs
<1>7. Expand(s) * y = Expand(t) * x
  <2>1. PICK c \in Nat \ {0} : c = Power(l[j].factor, n) /\ c = Power(m[h].factor, n)
    BY <1>1, <1>3, <1>4, PowerPositive
  <2>2. PICK u \in Nat \ {0}, v \in Nat \ {0} : u = Expand(s) /\ v = Expand(t)
    BY <1>5, <1>6, ExpandPositive DEF Factored
  <2>3. (u * c) * y = (v * c) * x
    BY <1>1, <1>5, <1>6, <2>1, <2>2
  <2>4. c * (u * y) = c * (v * x)
    <3>1. (u * c) * y = c * (u * y) /\ (v * c) * x = c * (v * x)
      BY <1>1
    <3> QED BY <2>3, <3>1
  <2>5. \A a1, b1 \in Int : c * a1 = c * b1 => a1 = b1
    OBVIOUS
  <2>6. u * y \in Int /\ v * x \in Int
    BY <1>1
  <2>7. u * y = v * x
    BY <2>4, <2>5, <2>6
  <2> QED BY <2>2, <2>7
<1>8. ASSUME NEW p \in 1 .. Len(s), NEW q \in 1 .. Len(t), p < j1 \/ q < h1,
             s[p].factor = t[q].factor
      PROVE  s[p].power = 0 \/ t[q].power = 0
  <2>1. p \in 1 .. Len(l) /\ q \in 1 .. Len(m) /\ l[p].factor = m[q].factor
    BY <1>5, <1>6, <1>8
  <2>2. p = j => q = h
    <3>1. p = j => m[q].factor = m[h].factor
      BY <2>1
    <3>2. q < h => m[q].factor < m[h].factor
      BY <1>1, <2>1, AscendingApart
    <3>3. h < q => m[h].factor < m[q].factor
      BY <1>1, <2>1, AscendingApart
    <3>4. m[q].factor \in Nat /\ m[h].factor \in Nat
      BY <1>1, <1>3, <2>1
    <3> QED BY <1>1, <2>1, <3>1, <3>2, <3>3, <3>4
  <2>3. q = h => p = j
    <3>1. q = h => l[p].factor = l[j].factor
      BY <2>1
    <3>2. p < j => l[p].factor < l[j].factor
      BY <1>1, <2>1, AscendingApart
    <3>3. j < p => l[j].factor < l[p].factor
      BY <1>1, <2>1, AscendingApart
    <3>4. l[p].factor \in Nat /\ l[j].factor \in Nat
      BY <1>1, <1>3, <2>1
    <3> QED BY <1>1, <2>1, <3>1, <3>2, <3>3, <3>4
  <2>4. CASE p = j
    <3>1. s[p].power = l[j].power - n /\ t[q].power = m[h].power - n
      BY <1>5, <1>6, <2>2, <2>4
    <3>2. l[j].power \in Nat /\ m[h].power \in Nat
      BY <1>1, <1>3
    <3> QED BY <1>4, <3>1, <3>2
  <2>5. CASE p # j
    <3>1. q # h
      BY <2>3, <2>5
    <3>2. s[p] = l[p] /\ t[q] = m[q]
      BY <1>5, <1>6, <2>1, <2>5, <3>1
    <3>3. p < j \/ q < h
      BY <1>1, <1>8, <2>1, <2>5, <3>1
    <3> QED BY <1>2, <2>1, <3>2, <3>3
  <2> QED BY <2>4, <2>5
<1>9. j1 \in Nat \ {0} /\ h1 \in Nat \ {0}
  BY <1>1
<1> QED BY <1>1, <1>5, <1>6, <1>7, <1>8, <1>9 DEF Reducing

(* OtherFactor: the smaller of two factors is passed, and what is larger   *)
(* than it comes later in the other list.                                  *)
LEMMA OtherFactorKeeps ==
  ASSUME NEW x, NEW y, NEW l, NEW m, NEW j, NEW h, Reducing(x, y, l, m, j, h),
         j <= Len(l), h <= Len(m), l[j].factor # m[h].factor, NEW j1, NEW h1,
         IF l[j].factor < m[h].factor THEN j1 = j + 1 /\ h1 = h ELSE j1 = j /\ h1 = h + 1
  PROVE  Reducing(x, y, l, m, j1, h1)
<1>1. /\ x \in Nat \ {0} /\ y \in Nat \ {0} /\ Factored(l) /\ Factored(m)
      /\ l \in Seq(Factor) /\ m \in Seq(Factor) /\ Ascending(l) /\ Ascending(m)
      /\ j \in 1 .. Len(l) /\ h \in 1 .. Len(m)
      /\ Expand(l) * y = Expand(m) * x
  BY DEF Reducing, Factored
<1>2. \A p \in 1 .. Len(l), q \in 1 .. Len(m) :
        (p < j \/ q < h) /\ l[p].factor = m[q].factor => l[p].power = 0 \/ m[q].power = 0
  BY DEF Reducing
<1>3. /\ \A k \in 1 .. Len(l) : l[k].factor \in Nat
      /\ \A k \in 1 .. Len(m) : m[k].factor \in Nat
  BY <1>1, PowersOf
<1>4. ASSUME NEW p \in 1 .. Len(l), NEW q \in 1 .. Len(m), p < j1 \/ q < h1,
             l[p].factor = m[q].factor
      PROVE  l[p].power = 0 \/ m[q].power = 0
  <2>1. CASE p < j \/ q < h
    BY <1>2, <1>4, <2>1
  <2>2. CASE ~(p < j \/ q < h)
    <3>1. j <= p /\ h <= q /\ (p = j \/ q = h)
      BY <1>1, <1>4, <2>2
    <3>2. h < q => m[h].factor < m[q].factor
      BY <1>1, AscendingApart
    <3>3. j < p => l[j].factor < l[p].factor
      BY <1>1, AscendingApart
    <3>4. /\ m[q].factor \in Nat /\ m[h].factor \in Nat
          /\ l[p].factor \in Nat /\ l[j].factor \in Nat
      BY <1>1, <1>3
    <3>5. CASE l[j].factor < m[h].factor
      <4>1. p = j
        BY <1>1, <1>4, <2>2, <3>1, <3>5
      <4> QED BY <1>1, <1>4, <3>1, <3>2, <3>4, <3>5, <4>1
    <3>6. CASE ~(l[j].factor < m[h].factor)
      <4>1. q = h
        BY <1>1, <1>4, <2>2, <3>1, <3>6
      <4> QED BY <1>1, <1>4, <3>1, <3>3, <3>4, <3>6, <4>1
    <3> QED BY <3>5, <3>6
  <2> QED BY <2>1, <2>2
<1>5. j1 \in Nat \ {0} /\ h1 \in Nat \ {0}
  BY <1>1
<1> QED BY <1>1, <1>4, <1>5 DEF Reducing

-----------------------------------------------------------------------------
(* Different factors of the lists are coprime, and so are their powers.    *)
LEMMA FactorsBezout ==
  ASSUME NEW f \in Nat \ {0}, NEW g \in Nat \ {0}, f = 1 \/ Prime(f), g = 1 \/ Prime(g), f # g
  PROVE  Bezout(f, g)
<1>1. CASE f = 1
  BY <1>1, BezoutOne
<1>2. CASE g = 1
  BY <1>2, BezoutOne
<1>3. CASE Prime(f) /\ Prime(g)
  BY <1>3, PrimesBezout
<1> QED BY <1>1, <1>2, <1>3

LEMMA PowersBezout ==
  ASSUME NEW f \in Nat \ {0}, NEW g \in Nat \ {0}, NEW n \in Nat, NEW k \in Nat,
         f = 1 \/ Prime(f), g = 1 \/ Prime(g), f = g => n = 0 \/ k = 0
  PROVE  Bezout(Power(f, n), Power(g, k))
<1>1. PICK u \in Nat \ {0}, v \in Nat \ {0} : u = Power(f, n) /\ v = Power(g, k)
  BY PowerPositive
<1>2. Power(f, 0) = 1 /\ Power(g, 0) = 1
  BY PowerNext
<1>3. CASE f # g
  <2>1. Bezout(f, g)
    BY <1>3, FactorsBezout
  <2>2. Bezout(u, g)
    BY <1>1, <2>1, PowerBezout
  <2>3. Bezout(g, u)
    BY <2>2, BezoutOne
  <2>4. Bezout(v, u)
    BY <1>1, <2>3, PowerBezout
  <2> QED BY <1>1, <2>4, BezoutOne
<1>4. CASE n = 0
  BY <1>1, <1>2, <1>4, BezoutOne
<1>5. CASE k = 0
  BY <1>1, <1>2, <1>5, BezoutOne
<1> QED BY <1>3, <1>4, <1>5

(* At the end no factor is left in common.                                 *)
LEMMA Coprimes ==
  ASSUME NEW x, NEW y, NEW l, NEW m, NEW j, NEW h, Reducing(x, y, l, m, j, h),
         j > Len(l) \/ h > Len(m)
  PROVE  Bezout(Expand(l), Expand(m))
<1>1. /\ Factored(l) /\ Factored(m)
      /\ l \in Seq(Factor) /\ m \in Seq(Factor)
      /\ j \in Nat /\ h \in Nat
      /\ \A p \in 1 .. Len(l), q \in 1 .. Len(m) :
           (p < j \/ q < h) /\ l[p].factor = m[q].factor => l[p].power = 0 \/ m[q].power = 0
  BY DEF Reducing, Factored
<1>2. /\ Len(l) \in Nat /\ Expand(l) = Product(Powers(l), Len(l))
      /\ \A k \in 1 .. Len(l) : /\ l[k].factor \in Nat \ {0} /\ l[k].power \in Nat
                                /\ Powers(l)[k] = Power(l[k].factor, l[k].power)
                                /\ Powers(l)[k] \in Nat \ {0}
  BY <1>1, PowersOf
<1>3. /\ Len(m) \in Nat /\ Expand(m) = Product(Powers(m), Len(m))
      /\ \A k \in 1 .. Len(m) : /\ m[k].factor \in Nat \ {0} /\ m[k].power \in Nat
                                /\ Powers(m)[k] = Power(m[k].factor, m[k].power)
                                /\ Powers(m)[k] \in Nat \ {0}
  BY <1>1, PowersOf
<1>4. ASSUME NEW p \in 1 .. Len(l), NEW q \in 1 .. Len(m)
      PROVE  Bezout(Powers(l)[p], Powers(m)[q])
  <2>1. p < j \/ q < h
    BY <1>1, <1>2, <1>3
  <2>2. PICK f \in Nat \ {0}, g \in Nat \ {0}, n \in Nat, k \in Nat :
          f = l[p].factor /\ n = l[p].power /\ g = m[q].factor /\ k = m[q].power
    BY <1>2, <1>3
  <2>3. (f = 1 \/ Prime(f)) /\ (g = 1 \/ Prime(g))
    BY <1>1, <2>2 DEF Factored
  <2>4. f = g => n = 0 \/ k = 0
    BY <1>1, <2>1, <2>2
  <2>5. Bezout(Power(f, n), Power(g, k))
    BY <2>3, <2>4, PowersBezout
  <2> QED BY <1>2, <1>3, <2>2, <2>5
<1>5. ASSUME NEW q \in 1 .. Len(m) PROVE Bezout(Powers(m)[q], Expand(l))
  <2>1. PICK v \in Nat \ {0} : v = Powers(m)[q]
    BY <1>3
  <2>2. \A p \in 1 .. Len(l) : Powers(l)[p] \in Nat \ {0} /\ Bezout(Powers(l)[p], v)
    BY <1>2, <1>4, <2>1
  <2>3. Bezout(Expand(l), v)
    BY <1>2, <2>2, ProductBezout
  <2>4. Expand(l) \in Int
    BY <1>1, ExpandPositive
  <2> QED BY <2>1, <2>3, <2>4, BezoutOne
<1>6. PICK u \in Nat \ {0} : u = Expand(l)
  BY <1>1, ExpandPositive
<1>7. Bezout(Expand(m), u)
  <2>1. \A q \in 1 .. Len(m) : Powers(m)[q] \in Nat \ {0} /\ Bezout(Powers(m)[q], u)
    BY <1>3, <1>5, <1>6
  <2> QED BY <1>3, <2>1, ProductBezout
<1>8. Expand(m) \in Int
  BY <1>1, ExpandPositive
<1> QED BY <1>6, <1>7, <1>8, BezoutOne

(* Coprime numbers have no divisor but 1 in common.                        *)
LEMMA BezoutDivisor ==
  ASSUME NEW u \in Int, NEW v \in Int, Bezout(u, v), NEW d \in Nat, d >= 2
  PROVE  ~(Divides(d, u) /\ Divides(d, v))
<1> SUFFICES ASSUME Divides(d, u), Divides(d, v) PROVE FALSE
  OBVIOUS
<1>1. Multiple(u, d) /\ Multiple(v, d)
  BY DividesMultiple
<1>2. Multiple(1, d)
  BY <1>1, CombinationMultiple DEF Bezout
<1>3. Abs(d) <= Abs(1)
  BY <1>2, MultipleSize
<1> QED BY <1>3 DEF Abs

-----------------------------------------------------------------------------
ReduceInv == pc = "reduce" => Reducing(args[1], args[2], other, factors, i, acc)

(* A fraction with a 0 is left as it is; the lists of another are merged.  *)
LEMMA StartReduceKeeps ==
  ASSUME Called, FactorsInv, StartReduce
  PROVE  ReduceInv' /\ FractionReduced'
<1>1. /\ fn = "reduce_fraction" /\ pc = "factored" /\ i = 2 /\ fn' = fn /\ args' = args
      /\ i' = 1 /\ acc' = 1 /\ other' = other /\ factors' = factors
      /\ IF 0 \in {args[1], args[2]} THEN fraction' = args /\ pc' = "done" ELSE pc' = "reduce"
      /\ args[1] \in Nat /\ args[2] \in Nat
  BY DEF StartReduce, At, Goto, call, facvars, Called
<1>2. CASE 0 \in {args[1], args[2]}
  <2>1. args[1] * args[2] = args[2] * args[1]
    BY <1>1
  <2> QED BY <1>1, <1>2, <2>1 DEF ReduceInv, FractionReduced
<1>3. CASE 0 \notin {args[1], args[2]}
  <2>1. PICK x \in Nat \ {0}, y \in Nat \ {0} : x = args[1] /\ y = args[2]
    BY <1>1, <1>3
  <2>2. Listed(other, x) /\ Listed(factors, y)
    BY <1>1, <2>1 DEF FactorsInv, Target, Abs
  <2>3. Factored(other) /\ Factored(factors) /\ Expand(other) = x /\ Expand(factors) = y
    BY <2>2 DEF Listed, Factored
  <2>4. Expand(other) * y = Expand(factors) * x
    BY <2>3
  <2>5. Len(other) \in Nat /\ Len(factors) \in Nat
    BY <2>3 DEF Factored
  <2>6. \A p \in 1 .. Len(other), q \in 1 .. Len(factors) : ~(p < 1 \/ q < 1)
    BY <2>5
  <2>7. Reducing(x, y, other, factors, 1, 1)
    BY <2>3, <2>4, <2>6 DEF Reducing
  <2> QED BY <1>1, <1>3, <2>1, <2>7 DEF ReduceInv, FractionReduced, At
<1> QED BY <1>2, <1>3

LEMMA MergeKeeps ==
  ASSUME ReduceInv, CommonFactor \/ OtherFactor
  PROVE  ReduceInv'
<1>1. /\ pc = "reduce" /\ i <= Len(other) /\ acc <= Len(factors) /\ args' = args
  BY DEF CommonFactor, OtherFactor, Merging, call
<1>2. PICK x, y, l, m, j, h : /\ x = args[1] /\ y = args[2] /\ l = other /\ m = factors
                              /\ j = i /\ h = acc
  OBVIOUS
<1>3. Reducing(x, y, l, m, j, h)
  BY <1>1, <1>2 DEF ReduceInv
<1>4. PICK s, t, j1, h1 : s = other' /\ t = factors' /\ j1 = i' /\ h1 = acc'
  OBVIOUS
<1>5. ASSUME CommonFactor PROVE Reducing(x, y, s, t, j1, h1)
  <2>1. /\ other[i].factor = factors[acc].factor
        /\ other' = [other EXCEPT ![i].power = @ - Smaller(other[i].power, factors[acc].power)]
        /\ factors' = [factors EXCEPT ![acc].power = @ - Smaller(other[i].power, factors[acc].power)]
        /\ i' = i + 1 /\ acc' = acc + 1
    BY <1>5 DEF CommonFactor
  <2>2. PICK n : n = Smaller(l[j].power, m[h].power)
    OBVIOUS
  <2>3. l[j].factor = m[h].factor /\ s = Lessened(l, j, n) /\ t = Lessened(m, h, n)
    BY <1>2, <1>4, <2>1, <2>2 DEF Lessened
  <2>4. j <= Len(l) /\ h <= Len(m) /\ j1 = j + 1 /\ h1 = h + 1
    BY <1>1, <1>2, <1>4, <2>1
  <2> QED BY <1>3, <2>2, <2>3, <2>4, CommonFactorKeeps
<1>6. ASSUME OtherFactor PROVE Reducing(x, y, s, t, j1, h1)
  <2>1. /\ l[j].factor # m[h].factor /\ s = l /\ t = m
        /\ IF l[j].factor < m[h].factor THEN j1 = j + 1 /\ h1 = h ELSE j1 = j /\ h1 = h + 1
    BY <1>2, <1>4, <1>6 DEF OtherFactor, EarlierFactor, facvars
  <2>2. j <= Len(l) /\ h <= Len(m)
    BY <1>1, <1>2
  <2> QED BY <1>3, <2>1, <2>2, OtherFactorKeeps
<1>7. Reducing(x, y, s, t, j1, h1)
  BY <1>5, <1>6
<1> QED BY <1>1, <1>2, <1>4, <1>7 DEF ReduceInv

LEMMA ReducedKeeps ==
  ASSUME ReduceInv, Reduced
  PROVE  FractionReduced'
<1>1. /\ pc = "reduce" /\ args' = args /\ fraction' = <<Expand(other), Expand(factors)>>
      /\ ~(i <= Len(other) /\ acc <= Len(factors))
  BY DEF Reduced, Merging, call
<1>2. PICK x, y, l, m, j, h : /\ x = args[1] /\ y = args[2] /\ l = other /\ m = factors
                              /\ j = i /\ h = acc
  OBVIOUS
<1>3. Reducing(x, y, l, m, j, h)
  BY <1>1, <1>2 DEF ReduceInv
<1>4. /\ l \in Seq(Factor) /\ m \in Seq(Factor) /\ j \in Nat /\ h \in Nat
      /\ Len(l) \in Nat /\ Len(m) \in Nat /\ Expand(l) * y = Expand(m) * x
  BY <1>3 DEF Reducing, Factored
<1>5. PICK u \in Nat \ {0}, v \in Nat \ {0} : u = Expand(l) /\ v = Expand(m)
  BY <1>4, ExpandPositive
<1>6. j > Len(l) \/ h > Len(m)
  BY <1>1, <1>2, <1>4
<1>7. Bezout(u, v)
  BY <1>3, <1>5, <1>6, Coprimes
<1>8. \A d \in 2 .. u : ~(Divides(d, u) /\ Divides(d, v))
  BY <1>7, BezoutDivisor
<1>9. fraction'[1] = u /\ fraction'[2] = v /\ args'[1] = x /\ args'[2] = y
  BY <1>1, <1>2, <1>5
<1> QED BY <1>4, <1>5, <1>8, <1>9 DEF FractionReduced

-----------------------------------------------------------------------------
(* The inductive invariant. *)
IInv == /\ Called /\ Control
        /\ GcdInv /\ FoldInv /\ EuclidInv /\ FactorsInv /\ ReduceInv
        /\ AnswersCorrect

(* Nothing is to be shown of the parts that are about another place.       *)
Idle ==
  /\ pc \notin {"gcd", "gcd_done"} => GcdInv
  /\ fn \notin {"gcd", "lcm"} \/ pc \notin {"fold", "gcd", "gcd_done"} => FoldInv
  /\ pc # "euclid" /\ (fn # "multinv" \/ pc \notin {"gcd", "gcd_done"}) => EuclidInv
  /\ fn # "find_factors" /\ pc \notin {"factor", "power", "factored"} => FactorsInv
  /\ pc # "reduce" => ReduceInv
  /\ pc \notin {"done", "refused", "trapped", "internal_error"} => AnswersCorrect

Answers ==
  /\ fn = "gcd" /\ GcdCorrect /\ TrapsKnown => AnswersCorrect
  /\ fn = "lcm" /\ LcmCorrect /\ TrapsKnown => AnswersCorrect
  /\ fn = "multinv" /\ InverseCorrect /\ TrapsKnown => AnswersCorrect
  /\ fn = "find_factors" /\ FactorsCorrect /\ TrapsKnown => AnswersCorrect
  /\ fn = "reduce_fraction" /\ FractionReduced /\ TrapsKnown => AnswersCorrect
  /\ pc # "trapped" => TrapsKnown

LEMMA IdleParts == Idle
BY DEF Idle, GcdInv, FoldInv, EuclidInv, FactorsInv, ReduceInv, AnswersCorrect, At,
       GcdCorrect, LcmCorrect, InverseCorrect, FactorsCorrect, FractionReduced, TrapsKnown

LEMMA OneAnswer == Answers
BY DEF Answers, AnswersCorrect, At,
       GcdCorrect, LcmCorrect, InverseCorrect, FactorsCorrect, FractionReduced, TrapsKnown

LEMMA IdleNext == Idle' /\ Answers'
BY IdleParts, OneAnswer, PTL

(* The call is the same throughout.                                        *)
LEMMA CalledKeeps ==
  ASSUME Called, fn' = fn, args' = args
  PROVE  Called'
BY DEF Called, LeastInverse, LeastFactors, INT64_MIN, INT32_MIN

-----------------------------------------------------------------------------
LEMMA InitCalled ==
  ASSUME Init, ~LeastInverse, ~LeastFactors
  PROVE  Called
<1>1. PICK c \in Calls : fn = c.fn /\ args = c.args
  BY DEF Init
<1>2. CASE c \in [fn : {"gcd", "lcm"}, args : UNION {[1 .. n -> Operands] : n \in 2 .. MaxArgs}]
  <2>1. PICK n \in 2 .. MaxArgs : args \in [1 .. n -> Operands]
    BY <1>1, <1>2
  <2>2. n \in Nat /\ n >= 2
    BY NumTheoryAssumption
  <2>3. args \in Seq(Operands) /\ Len(args) = n /\ DOMAIN args = 1 .. n
    BY <2>1, <2>2
  <2>4. \A k \in 1 .. n : args[k] \in Int
    BY <2>1, NumTheoryAssumption
  <2> QED BY <1>1, <1>2, <2>2, <2>3, <2>4 DEF Called
<1>3. CASE c \in [fn : {"multinv"}, args : {<<x, m>> : x \in Values, m \in Moduli}]
  <2>1. PICK x \in Values, m \in Moduli : args = <<x, m>>
    BY <1>1, <1>3
  <2>2. x \in Int /\ m \in Int
    BY NumTheoryAssumption
  <2> QED BY <1>1, <1>3, <2>1, <2>2 DEF Called
<1>4. CASE c \in [fn : {"find_factors"}, args : {<<x>> : x \in Numbers}]
  <2>1. PICK x \in Numbers : args = <<x>>
    BY <1>1, <1>4
  <2>2. x \in Int
    BY NumTheoryAssumption
  <2> QED BY <1>1, <1>4, <2>1, <2>2 DEF Called
<1>5. CASE c \in [fn : {"reduce_fraction"}, args : {<<x, y>> : x, y \in Numbers \cap Nat}]
  <2>1. PICK x \in Numbers \cap Nat, y \in Numbers \cap Nat : args = <<x, y>>
    BY <1>1, <1>5
  <2> QED BY <1>1, <1>5, <2>1 DEF Called
<1> QED BY <1>2, <1>3, <1>4, <1>5 DEF Calls

LEMMA InitInv ==
  ASSUME Init, ~LeastInverse, ~LeastFactors
  PROVE  IInv
<1>1. Called /\ pc = "start"
  BY InitCalled DEF Init
<1>2. Control
  BY <1>1 DEF Control
<1>3. GcdInv /\ FoldInv /\ EuclidInv /\ ReduceInv /\ AnswersCorrect
  BY <1>1, IdleParts DEF Idle
<1>4. FactorsInv
  BY <1>1 DEF FactorsInv
<1> QED BY <1>1, <1>2, <1>3, <1>4 DEF IInv

-----------------------------------------------------------------------------
(* tms_gcd.                                                                *)
LEMMA GcdPart ==
  ASSUME IInv, Gcd
  PROVE  IInv'
<1> USE DEF IInv
<1>1. /\ pc = "gcd" /\ fn' = fn /\ args' = args /\ i' = i /\ acc' = acc
      /\ pc' \in {"gcd", "gcd_done", "trapped"} /\ (pc' = "trapped" => GcdTrap)
      /\ pc' # "trapped" => GcdStep
  BY DEF Gcd, GcdStep, GcdTrap, call, Goto
<1>2. fn \in {"gcd", "lcm", "multinv"}
  BY <1>1 DEF Control, Called
<1>3. First \in Int /\ Second \in Int
  BY <1>1, PairType
<1>4. Called' /\ Control'
  <2>1. Control'
    BY <1>1, <1>2 DEF Control
  <2> QED BY <1>1, <2>1, CalledKeeps
<1>5. FactorsInv' /\ ReduceInv'
  BY <1>1, <1>2, IdleNext DEF Idle
<1>6. CASE GcdStep /\ pc' # "trapped"
  <2>1. GcdInv'
    BY <1>3, <1>6, GcdStepKeeps
  <2>2. FoldInv'
    BY <1>1, <1>6 DEF FoldInv, GcdSoFar, LcmSoFar, Fits
  <2>3. EuclidInv'
    BY <1>1, <1>6 DEF EuclidInv
  <2>4. AnswersCorrect'
    BY <1>1, <1>6, IdleNext DEF Idle
  <2> QED BY <1>4, <1>5, <2>1, <2>2, <2>3, <2>4
<1>7. CASE GcdTrap /\ pc' = "trapped"
  <2>1. GcdInv' /\ FoldInv' /\ EuclidInv'
    BY <1>7, IdleNext DEF Idle
  <2>2. Smaller(a, b) = 0
    BY <1>7 DEF GcdTrap
  <2>3. First = 0 \/ Second = 0
    BY <1>1, <2>2 DEF GcdInv, Smaller
  <2>4. 0 \in {args[k] : k \in DOMAIN args}
    <3>1. CASE fn = "multinv"
      <4>1. args[1] = 0 \/ args[2] = 0
        BY <2>3, <3>1 DEF First, Second
      <4>2. 1 \in DOMAIN args /\ 2 \in DOMAIN args
        BY <3>1 DEF Called
      <4> QED BY <4>1, <4>2
    <3>2. CASE fn \in {"gcd", "lcm"}
      <4>1. acc = 0 \/ args[i] = 0
        BY <2>3, <3>2 DEF First, Second
      <4>2. /\ i \in 2 .. Len(args) /\ (i = 2 => acc = args[1])
            /\ i > 2 => acc # 0
        BY <1>1, <3>2 DEF FoldInv, GcdSoFar, LcmSoFar, Called
      <4>3. 1 \in DOMAIN args /\ i \in DOMAIN args
        BY <3>2, <4>2 DEF Called
      <4>4. acc = 0 => args[1] = 0
        BY <4>2
      <4> QED BY <4>1, <4>3, <4>4
    <3> QED BY <1>2, <3>1, <3>2
  <2>5. TrapsKnown'
    BY <1>1, <2>4 DEF TrapsKnown
  <2>6. GcdCorrect' /\ LcmCorrect' /\ InverseCorrect'
    BY <1>7 DEF GcdCorrect, LcmCorrect, InverseCorrect, At
  <2>7. AnswersCorrect'
    BY <1>1, <1>2, <2>5, <2>6, IdleNext DEF Answers
  <2> QED BY <1>4, <1>5, <2>1, <2>7
<1> QED BY <1>1, <1>6, <1>7

(* gcd and lcm.                                                            *)
LEMMA FoldsPart ==
  ASSUME IInv, NoLeast, Folds
  PROVE  IInv'
<1> USE DEF IInv
<1>1. /\ fn' = fn /\ args' = args
      /\ \/ CheckOperands /\ pc' \in {"refused", "fold"}
         \/ NextOperand /\ pc' \in {"gcd", "done"}
         \/ FoldGcd /\ pc' = "fold"
         \/ FoldLcm /\ pc' \in {"fold", "refused"}
  BY DEF Folds, CheckOperands, NextOperand, FoldGcd, FoldLcm, CallGcd, call, Goto
<1>2. fn \in {"gcd", "lcm"}
  BY DEF Folds, CheckOperands, NextOperand, FoldGcd, FoldLcm, At, Control, Called
<1>3. Called' /\ Control'
  <2>1. Control'
    BY <1>1, <1>2 DEF Control
  <2> QED BY <1>1, <2>1, CalledKeeps
<1>4. EuclidInv' /\ FactorsInv' /\ ReduceInv' /\ TrapsKnown'
  BY <1>1, <1>2, IdleNext DEF Idle, Answers
<1>5. CASE CheckOperands /\ pc' \in {"refused", "fold"}
  <2>1. FoldInv' /\ LcmCorrect'
    BY <1>5, CheckOperandsKeeps
  <2>2. GcdCorrect' /\ GcdInv'
    BY <1>5, IdleNext DEF GcdCorrect, At, Idle
  <2>3. AnswersCorrect'
    BY <1>1, <1>2, <1>4, <2>1, <2>2, IdleNext DEF Answers
  <2> QED BY <1>3, <1>4, <2>1, <2>2, <2>3
<1>6. CASE NextOperand /\ pc' \in {"gcd", "done"}
  <2>1. CASE i <= Len(args)
    <3>1. GcdInv' /\ FoldInv'
      BY <1>6, <2>1, NextOperandKeeps
    <3>2. pc' = "gcd"
      BY <1>6, <2>1 DEF NextOperand, CallGcd, Goto
    <3>3. AnswersCorrect'
      BY <3>2, IdleNext DEF Idle
    <3> QED BY <1>3, <1>4, <3>1, <3>3
  <2>2. CASE ~(i <= Len(args))
    <3>1. pc = "fold" /\ pc' = "done" /\ acc' = acc
      BY <1>6, <2>2 DEF NextOperand, Goto
    <3>2. i > Len(args)
      BY <1>2, <2>2, <3>1 DEF FoldInv, Called
    <3>3. /\ fn = "gcd" => /\ acc > 0 /\ CommonDivisor(acc)
                           /\ \A d \in 1 .. Abs(args[1]) : CommonDivisor(d) => d <= acc
          /\ fn = "lcm" => /\ CommonMultiple(Abs(acc)) /\ acc # 0 /\ Fits(acc)
                           /\ \A m \in 1 .. Abs(acc) - 1 : ~CommonMultiple(m)
      BY <3>1, <3>2, FoldAnswers
    <3>4. \A d : CommonDivisor(d)' = CommonDivisor(d) /\ CommonMultiple(d)' = CommonMultiple(d)
      BY <1>1 DEF CommonDivisor, CommonMultiple
    <3>5. fn = "gcd" => GcdCorrect'
      <4> SUFFICES ASSUME fn = "gcd" PROVE GcdCorrect'
        OBVIOUS
      <4>1. CommonDivisor(acc)'
        BY <1>1, <3>1, <3>3 DEF CommonDivisor
      <4> QED BY <1>1, <3>1, <3>3, <3>4, <4>1 DEF GcdCorrect
    <3>6. fn = "lcm" => LcmCorrect'
      <4> SUFFICES ASSUME fn = "lcm" PROVE LcmCorrect'
        OBVIOUS
      <4>1. CommonMultiple(Abs(acc))' /\ Fits(acc)'
        BY <1>1, <3>1, <3>3 DEF CommonMultiple, Fits
      <4> QED BY <1>1, <3>1, <3>3, <3>4, <4>1 DEF LcmCorrect
    <3>7. GcdInv' /\ FoldInv'
      BY <3>1, IdleNext DEF Idle
    <3>8. AnswersCorrect'
      BY <1>1, <1>2, <1>4, <3>5, <3>6, IdleNext DEF Answers
    <3> QED BY <1>3, <1>4, <3>7, <3>8
  <2> QED BY <2>1, <2>2
<1>7. CASE FoldGcd /\ pc' = "fold"
  <2>1. FoldInv'
    BY <1>7, FoldGcdKeeps
  <2> QED BY <1>3, <1>4, <1>7, <2>1, IdleNext DEF Idle
<1>8. CASE FoldLcm /\ pc' \in {"fold", "refused"}
  <2>1. FoldInv' /\ LcmCorrect' /\ fn' = "lcm"
    BY <1>1, <1>8, FoldLcmKeeps DEF FoldLcm, At
  <2>2. AnswersCorrect'
    BY <1>4, <2>1, IdleNext DEF Answers
  <2> QED BY <1>3, <1>4, <1>8, <2>1, <2>2, IdleNext DEF Idle
<1> QED BY <1>1, <1>5, <1>6, <1>7, <1>8

(* multinv.                                                                *)
LEMMA MultinvPart ==
  ASSUME IInv, Multinv
  PROVE  IInv'
<1> USE DEF IInv
<1>1. /\ fn' = fn /\ args' = args
      /\ \/ CheckInverse /\ pc' \in {"refused", "gcd"}
         \/ NotCoprime /\ pc' = "refused"
         \/ StartEuclid /\ pc' = "euclid"
         \/ EuclidStep /\ pc' = "euclid"
         \/ EuclidTrap /\ pc' = "trapped"
         \/ EuclidDone
  BY DEF Multinv, CheckInverse, NotCoprime, StartEuclid, EuclidStep, EuclidTrap, EuclidDone,
         CallGcd, call, Goto, Control, Called
<1>2. fn = "multinv"
  BY DEF Multinv, CheckInverse, NotCoprime, StartEuclid, EuclidStep, EuclidTrap, EuclidDone,
         At, Control, Called
<1>3. EuclidDone => pc' = "done" /\ InverseCorrect'
  BY EuclidDoneKeeps
<1>4. Called' /\ Control'
  <2>1. Control'
    BY <1>1, <1>2, <1>3 DEF Control
  <2> QED BY <1>1, <2>1, CalledKeeps
<1>5. FoldInv' /\ FactorsInv' /\ ReduceInv'
  BY <1>1, <1>2, <1>3, IdleNext DEF Idle
<1>6. CASE CheckInverse /\ pc' \in {"refused", "gcd"}
  <2>1. GcdInv' /\ EuclidInv' /\ InverseCorrect'
    BY <1>6, CheckInverseKeeps
  <2>2. AnswersCorrect'
    BY <1>1, <1>2, <1>6, <2>1, IdleNext DEF Answers
  <2> QED BY <1>4, <1>5, <2>1, <2>2
<1>7. CASE NotCoprime /\ pc' = "refused"
  <2>1. InverseCorrect'
    BY <1>7, NotCoprimeKeeps
  <2>2. AnswersCorrect'
    BY <1>1, <1>2, <1>7, <2>1, IdleNext DEF Answers
  <2> QED BY <1>4, <1>5, <1>7, <2>2, IdleNext DEF Idle
<1>8. CASE StartEuclid /\ pc' = "euclid"
  <2>1. EuclidInv'
    BY <1>8, StartEuclidKeeps
  <2> QED BY <1>4, <1>5, <1>8, <2>1, IdleNext DEF Idle
<1>9. CASE EuclidStep /\ pc' = "euclid"
  <2>1. EuclidInv'
    BY <1>9, EuclidStepKeeps
  <2> QED BY <1>4, <1>5, <1>9, <2>1, IdleNext DEF Idle
<1>10. CASE EuclidTrap /\ pc' = "trapped"
  <2>1. InLimits /\ Lower = 1
    BY <1>10 DEF EuclidTrap, EuclidInv
  <2>2. 1 \in {Abs(args[1]), args[2]}
    BY <2>1 DEF Lower, Smaller
  <2>3. TrapsKnown'
    BY <1>1, <1>2, <2>2 DEF TrapsKnown
  <2>4. InverseCorrect'
    BY <1>10 DEF InverseCorrect
  <2>5. AnswersCorrect'
    BY <1>1, <1>2, <2>3, <2>4, IdleNext DEF Answers
  <2> QED BY <1>4, <1>5, <1>10, <2>5, IdleNext DEF Idle
<1>11. CASE EuclidDone
  <2>1. AnswersCorrect'
    BY <1>1, <1>2, <1>3, <1>11, IdleNext DEF Answers
  <2> QED BY <1>3, <1>4, <1>5, <1>11, <2>1, IdleNext DEF Idle
<1> QED BY <1>1, <1>6, <1>7, <1>8, <1>9, <1>10, <1>11

(* tms_find_factors.                                                       *)
LEMMA FactorsPart ==
  ASSUME IInv, Factors
  PROVE  IInv'
<1> USE DEF IInv
<1>1. /\ fn' = fn /\ args' = args
      /\ \/ FindFactors /\ pc' \in {"factor", "factored"}
         \/ FactorsStep /\ pc' \in {"factor", "power", "factored"}
         \/ FactorsReturned /\ pc' = "done"
  BY DEF Factors, FindFactors, StartFactors, FactorsStep, FactorFound, DivideAgain, PowerDone,
         NoFactor, OneLeft, FactorsReturned, call, Goto
<1>2. fn \in {"find_factors", "reduce_fraction"}
  BY DEF Factors, FindFactors, FactorFound, DivideAgain, PowerDone, NoFactor, OneLeft,
         FactorsReturned, At, Control, Called
<1>3. FactorsReturned => fn = "find_factors" /\ pc = "factored"
  BY DEF FactorsReturned, At
<1>4. Called' /\ Control'
  <2>1. Control'
    BY <1>1, <1>2, <1>3 DEF Control
  <2> QED BY <1>1, <2>1, CalledKeeps
<1>5. GcdInv' /\ FoldInv' /\ EuclidInv' /\ ReduceInv'
  BY <1>1, <1>2, IdleNext DEF Idle
<1>6. CASE pc' \in {"factor", "power", "factored"}
  <2>1. FactorsInv'
    BY <1>1, <1>6, FindFactorsKeeps, FactorsStepKeeps
  <2> QED BY <1>4, <1>5, <1>6, <2>1, IdleNext DEF Idle
<1>7. CASE FactorsReturned /\ pc' = "done"
  <2>1. i = 1 /\ i' = i /\ factors' = factors /\ fn = "find_factors" /\ args[1] \in Int
    BY <1>3, <1>7 DEF FactorsReturned, FactorsInv, facvars, Called
  <2>2. Listed(factors, Abs(args[1]))
    BY <1>3, <1>7, <2>1 DEF FactorsInv, Target
  <2>3. PICK l : l = factors
    OBVIOUS
  <2>4. PICK n \in Nat : n = Abs(args[1])
    BY <2>1 DEF Abs
  <2>5. /\ l \in Seq(Factor) /\ Ascending(l) /\ (n # 0 => Expand(l) = n)
        /\ n > 1 => PrimePowers(l)
    BY <2>2, <2>3, <2>4 DEF Listed
  <2>6. DOMAIN l = 1 .. Len(l)
    BY <2>5
  <2>7. FactorsCorrect'
    <3>1. args'[1] # 0 => n # 0
      BY <1>1, <2>1, <2>3, <2>4 DEF Abs
    <3>2. factors' = l /\ Abs(args[1])' = n
      BY <1>1, <2>1, <2>3, <2>4
    <3>3. ~LeastFactors'
      BY <1>4 DEF Called
    <3> QED BY <2>5, <2>6, <3>1, <3>2, <3>3 DEF FactorsCorrect, PrimePowers, Ascending
  <2>8. AnswersCorrect'
    BY <1>1, <1>7, <2>1, <2>7, IdleNext DEF Answers
  <2>9. FactorsInv'
    BY <1>1, <1>7, <2>1 DEF FactorsInv
  <2> QED BY <1>4, <1>5, <2>8, <2>9
<1> QED BY <1>1, <1>6, <1>7

(* tms_reduce_fraction.                                                    *)
LEMMA FractionsPart ==
  ASSUME IInv, Fractions
  PROVE  IInv'
<1> USE DEF IInv
<1>1. /\ fn' = fn /\ args' = args
      /\ \/ OtherList /\ pc' \in {"factor", "factored"}
         \/ StartReduce /\ pc' \in {"reduce", "done"}
         \/ (CommonFactor \/ OtherFactor) /\ pc' = "reduce"
         \/ Reduced /\ pc' = "done"
  BY DEF Fractions, OtherList, StartFactors, StartReduce, CommonFactor, OtherFactor, Reduced,
         Merging, call, Goto
<1>2. fn = "reduce_fraction"
  BY DEF Fractions, OtherList, StartReduce, CommonFactor, OtherFactor, Reduced, Merging, At,
         Control, Called
<1>3. Called' /\ Control'
  <2>1. Control'
    BY <1>1, <1>2 DEF Control
  <2> QED BY <1>1, <2>1, CalledKeeps
<1>4. GcdInv' /\ FoldInv' /\ EuclidInv'
  BY <1>1, <1>2, IdleNext DEF Idle
<1>5. CASE OtherList /\ pc' \in {"factor", "factored"}
  <2>1. FactorsInv'
    BY <1>5, OtherListKeeps
  <2> QED BY <1>3, <1>4, <1>5, <2>1, IdleNext DEF Idle
<1>6. pc' \notin {"factor", "factored"} => FactorsInv'
  BY <1>1, <1>2, IdleNext DEF Idle
<1>7. CASE StartReduce /\ pc' \in {"reduce", "done"}
  <2>1. ReduceInv' /\ FractionReduced'
    BY <1>7, StartReduceKeeps
  <2>2. AnswersCorrect'
    BY <1>1, <1>2, <1>7, <2>1, IdleNext DEF Answers
  <2> QED BY <1>3, <1>4, <1>6, <1>7, <2>1, <2>2
<1>8. CASE (CommonFactor \/ OtherFactor) /\ pc' = "reduce"
  <2>1. ReduceInv'
    BY <1>8, MergeKeeps
  <2> QED BY <1>3, <1>4, <1>6, <1>8, <2>1, IdleNext DEF Idle
<1>9. CASE Reduced /\ pc' = "done"
  <2>1. FractionReduced'
    BY <1>9, ReducedKeeps
  <2>2. AnswersCorrect'
    BY <1>1, <1>2, <1>9, <2>1, IdleNext DEF Answers
  <2> QED BY <1>3, <1>4, <1>6, <1>9, <2>2, IdleNext DEF Idle
<1> QED BY <1>1, <1>5, <1>7, <1>8, <1>9

LEMMA IInvStutters ==
  ASSUME IInv, UNCHANGED vars
  PROVE  IInv'
<1>1. /\ fn' = fn /\ args' = args /\ pc' = pc /\ a' = a /\ b' = b /\ i' = i /\ acc' = acc
      /\ euclid' = euclid /\ value' = value /\ dividend' = dividend /\ factors' = factors
      /\ other' = other /\ fraction' = fraction
  BY DEF vars, call, gcdvars, facvars
<1>2. Called' /\ Control' /\ GcdInv'
  BY <1>1, CalledKeeps DEF IInv, Control, GcdInv, First, Second
<1>3. FoldInv' /\ EuclidInv'
  BY <1>1 DEF IInv, FoldInv, GcdSoFar, LcmSoFar, Fits, EuclidInv, InLimits, Upper, Lower
<1>4. FactorsInv' /\ ReduceInv'
  BY <1>1 DEF IInv, FactorsInv, ReduceInv, Target
<1>5. AnswersCorrect'
  BY <1>1 DEF IInv, AnswersCorrect, GcdCorrect, LcmCorrect, InverseCorrect, FactorsCorrect,
              FractionReduced, TrapsKnown, At, CommonDivisor, CommonMultiple, Fits, INT64_MIN,
              LeastInverse, LeastFactors, INT32_MIN
<1> QED BY <1>2, <1>3, <1>4, <1>5 DEF IInv

-----------------------------------------------------------------------------
(* A factor of a product of positive numbers is no larger than it.         *)
LEMMA ProductAtLeast ==
  ASSUME NEW f, NEW n \in Nat, \A k \in 1 .. n : f[k] \in Nat \ {0}, NEW j \in 1 .. n
  PROVE  f[j] <= Product(f, n)
<1> DEFINE S == {k \in Nat : j <= k /\ k <= n => f[j] <= Product(f, k)}
<1>1. 0 \in S
  OBVIOUS
<1>2. ASSUME NEW k \in S PROVE k + 1 \in S
  <2> SUFFICES ASSUME j <= k + 1, k + 1 <= n PROVE f[j] <= Product(f, k + 1)
    OBVIOUS
  <2>1. Product(f, k) \in Nat \ {0}
    <3>1. \A h \in 1 .. k : f[h] \in Nat \ {0}
      OBVIOUS
    <3> QED BY <3>1, ProductPositive
  <2>2. PICK x \in Nat \ {0}, y \in Nat \ {0}, z \in Nat \ {0} :
          x = Product(f, k) /\ y = f[k + 1] /\ z = f[j]
    BY <2>1
  <2>3. Product(f, k + 1) = x * y
    BY <2>2, ProductNext
  <2>4. x * y >= x /\ x * y >= y
    OBVIOUS
  <2>5. CASE j = k + 1
    BY <2>2, <2>3, <2>4, <2>5
  <2>6. CASE j # k + 1
    <3>1. z <= x
      BY <1>2, <2>2, <2>6
    <3>2. z <= x * y
      BY <2>4, <3>1
    <3> QED BY <2>2, <2>3, <3>2
  <2> QED BY <2>5, <2>6
<1> HIDE DEF S
<1>3. S \in SUBSET Nat
  BY DEF S
<1>4. S = Nat
  BY <1>1, <1>2, <1>3, SetInduction
<1>5. n \in S
  BY <1>4
<1> QED BY <1>5 DEF S

(* A power of 2 or more is greater than its exponent.                      *)
LEMMA PowerAbove ==
  ASSUME NEW x \in Nat, x >= 2, NEW n \in Nat
  PROVE  n < Power(x, n)
<1> DEFINE S == {k \in Nat : k < Power(x, k)}
<1>1. 0 \in S
  BY PowerNext
<1>2. ASSUME NEW k \in S PROVE k + 1 \in S
  <2>1. PICK y \in Nat \ {0} : y = Power(x, k)
    BY PowerPositive
  <2>2. Power(x, k + 1) = y * x
    BY <2>1, PowerNext
  <2>3. k < y
    BY <1>2, <2>1
  <2>4. y * x >= y * 2
    OBVIOUS
  <2>5. k + 1 < y * x
    BY <2>3, <2>4
  <2> QED BY <2>2, <2>5
<1> HIDE DEF S
<1>3. S \in SUBSET Nat
  BY DEF S
<1>4. S = Nat
  BY <1>1, <1>2, <1>3, SetInduction
<1>5. n \in S
  BY <1>4
<1> QED BY <1>5 DEF S

(* The power of a factor is less than the number.                          *)
LEMMA PowerInList ==
  ASSUME NEW l \in Seq(Factor), NEW k \in 1 .. Len(l), l[k].factor >= 2
  PROVE  l[k].power < Expand(l)
<1>1. /\ Len(l) \in Nat /\ Expand(l) = Product(Powers(l), Len(l))
      /\ \A h \in 1 .. Len(l) : /\ l[h].factor \in Nat \ {0} /\ l[h].power \in Nat
                                /\ Powers(l)[h] = Power(l[h].factor, l[h].power)
                                /\ Powers(l)[h] \in Nat \ {0}
  BY PowersOf
<1>2. Powers(l)[k] <= Expand(l)
  <2>1. PICK f : f = Powers(l)
    OBVIOUS
  <2>2. PICK n \in Nat : n = Len(l)
    BY <1>1
  <2>3. \A h \in 1 .. n : f[h] \in Nat \ {0}
    BY <1>1, <2>1, <2>2
  <2>4. k \in 1 .. n
    BY <2>2
  <2>5. f[k] <= Product(f, n)
    BY <2>3, <2>4, ProductAtLeast
  <2> QED BY <1>1, <2>1, <2>2, <2>5
<1>3. PICK x \in Nat, n \in Nat : x = l[k].factor /\ n = l[k].power /\ x >= 2
  BY <1>1
<1>4. n < Power(x, n)
  BY <1>3, PowerAbove
<1>5. Powers(l)[k] \in Nat /\ Expand(l) \in Nat /\ Powers(l)[k] = Power(x, n)
  BY <1>1, <1>3, ExpandPositive
<1> QED BY <1>2, <1>3, <1>4, <1>5

(* Ascending factors are no less than their places.                        *)
LEMMA PlaceInList ==
  ASSUME NEW l \in Seq(Factor), Ascending(l), NEW k \in 1 .. Len(l)
  PROVE  k <= l[k].factor
<1>1. Len(l) \in Nat /\ \A h \in 1 .. Len(l) : l[h].factor \in Nat \ {0}
  BY PowersOf
<1> DEFINE S == {n \in Nat : n \in 1 .. Len(l) => n <= l[n].factor}
<1>2. 0 \in S
  OBVIOUS
<1>3. ASSUME NEW n \in S PROVE n + 1 \in S
  <2> SUFFICES ASSUME n + 1 \in 1 .. Len(l) PROVE n + 1 <= l[n + 1].factor
    OBVIOUS
  <2>1. CASE n = 0
    BY <1>1, <2>1
  <2>2. CASE n # 0
    <3>1. n \in 1 .. Len(l) /\ n + 1 \in 2 .. Len(l) /\ (n + 1) - 1 = n
      BY <1>1, <2>2
    <3>2. n <= l[n].factor
      BY <1>3, <3>1
    <3>3. l[n].factor < l[n + 1].factor
      BY <3>1 DEF Ascending
    <3>4. PICK x \in Nat, y \in Nat : x = l[n].factor /\ y = l[n + 1].factor
      BY <1>1, <3>1
    <3> QED BY <3>2, <3>3, <3>4
  <2> QED BY <2>1, <2>2
<1> HIDE DEF S
<1>4. S \in SUBSET Nat
  BY DEF S
<1>5. S = Nat
  BY <1>2, <1>3, <1>4, SetInduction
<1>6. k \in S
  BY <1>5
<1> QED BY <1>6 DEF S

-----------------------------------------------------------------------------
(* Divisors of a power of two are powers of two, so a power of two is the  *)
(* least common multiple of two numbers only if it is one of them.         *)
LEMMA PowerDivisors ==
  ASSUME NEW n \in Nat, NEW y \in Nat \ {0}, Multiple(Power(2, n), y)
  PROVE  \E m \in 0 .. n : y = Power(2, m)
<1> DEFINE Q(k) == \A z \in Nat \ {0} : Multiple(Power(2, k), z) => \E m \in 0 .. k : z = Power(2, m)
           S == {k \in Nat : Q(k)}
<1>1. 0 \in S
  <2> SUFFICES ASSUME NEW z \in Nat \ {0}, Multiple(Power(2, 0), z)
               PROVE  z = Power(2, 0)
    OBVIOUS
  <2>1. Power(2, 0) = 1
    BY PowerNext
  <2>2. Abs(z) <= Abs(1)
    BY <2>1, MultipleSize
  <2> QED BY <2>1, <2>2 DEF Abs
<1>2. ASSUME NEW k \in S PROVE k + 1 \in S
  <2> SUFFICES ASSUME NEW z \in Nat \ {0}, Multiple(Power(2, k + 1), z)
               PROVE  \E m \in 0 .. k + 1 : z = Power(2, m)
    OBVIOUS
  <2>1. PICK p \in Nat \ {0} : p = Power(2, k)
    BY PowerPositive
  <2>2. Power(2, k + 1) = p * 2
    BY <2>1, PowerNext
  <2>3. PICK q \in Int : p * 2 = z * q
    BY <2>2 DEF Multiple
  <2>4. CASE z % 2 = 0
    <3>1. PICK y0 \in Int : z = 2 * y0
      <4>1. z = 2 * (z \div 2) /\ z \div 2 \in Int
        BY <2>4
      <4> QED BY <4>1
    <3>2. y0 \in Nat \ {0}
      BY <3>1
    <3>3. p = y0 * q
      BY <2>3, <3>1
    <3>4. Multiple(Power(2, k), y0)
      BY <2>1, <3>3 DEF Multiple
    <3>5. PICK m \in 0 .. k : y0 = Power(2, m)
      BY <1>2, <3>2, <3>4
    <3>6. Power(2, m + 1) = Power(2, m) * 2
      BY PowerNext
    <3>7. m + 1 \in 0 .. k + 1 /\ z = Power(2, m + 1)
      BY <3>1, <3>2, <3>5, <3>6
    <3> QED BY <3>7
  <2>5. CASE z % 2 # 0
    <3>1. PICK h \in Int : z = 2 * h + 1
      <4>1. z = 2 * (z \div 2) + 1 /\ z \div 2 \in Int
        BY <2>5
      <4> QED BY <4>1
    <3>2. q = 2 * (p - h * q)
      <4>1. (2 * h + 1) * q = 2 * (h * q) + q
        BY <3>1
      <4> QED BY <2>3, <3>1, <4>1
    <3>3. PICK r \in Int : r = p - h * q
      BY <3>1
    <3>4. p = z * r
      <4>1. p * 2 = z * (2 * r)
        BY <2>3, <3>2, <3>3
      <4>2. z * (2 * r) = (z * r) * 2
        OBVIOUS
      <4> QED BY <4>1, <4>2
    <3>5. Multiple(Power(2, k), z)
      BY <2>1, <3>4 DEF Multiple
    <3>6. PICK m \in 0 .. k : z = Power(2, m)
      BY <1>2, <3>5
    <3> QED BY <3>6
  <2> QED BY <2>4, <2>5
<1> HIDE DEF S
<1>3. S \in SUBSET Nat
  BY DEF S
<1>4. S = Nat
  BY <1>1, <1>2, <1>3, SetInduction
<1>5. n \in S
  BY <1>4
<1> QED BY <1>5 DEF S

(* A power of two divides the next ones.                                   *)
LEMMA PowersNested ==
  ASSUME NEW m \in Nat, NEW k \in Nat, m <= k
  PROVE  Multiple(Power(2, k), Power(2, m)) /\ Power(2, m) <= Power(2, k)
<1>1. PICK h \in Nat : h = k - m
  OBVIOUS
<1>2. k = m + h
  BY <1>1
<1>3. Power(2, k) = Power(2, m) * Power(2, h)
  BY <1>2, PowerSum
<1>4. Power(2, m) \in Nat \ {0} /\ Power(2, h) \in Nat \ {0}
  BY PowerPositive
<1>5. PICK x \in Nat \ {0}, y \in Nat \ {0} : x = Power(2, m) /\ y = Power(2, h)
  BY <1>4
<1>6. x * y >= x
  OBVIOUS
<1> QED BY <1>3, <1>5, <1>6 DEF Multiple

(* A common multiple that divides all others is such a power only then.    *)
LEMMA LcmNotPower ==
  ASSUME NEW n \in Nat, NEW p \in Int, Abs(p) = Power(2, n),
         NEW x \in Int, NEW y \in Int, x # 0, y # 0, Multiple(p, x), Multiple(p, y),
         \A m \in Int : Multiple(m, x) /\ Multiple(m, y) => Multiple(m, p)
  PROVE  Abs(x) = Power(2, n) \/ Abs(y) = Power(2, n)
<1>1. PICK u \in Nat \ {0}, v \in Nat \ {0} : u = Abs(x) /\ v = Abs(y)
  BY DEF Abs
<1>2. PICK w \in Nat \ {0} : w = Power(2, n) /\ w = Abs(p)
  BY PowerPositive
<1>3. Multiple(w, u) /\ Multiple(w, v)
  BY <1>1, <1>2, MultipleAbs
<1>4. PICK i0 \in 0 .. n : u = Power(2, i0)
  BY <1>2, <1>3, PowerDivisors
<1>5. PICK j0 \in 0 .. n : v = Power(2, j0)
  BY <1>2, <1>3, PowerDivisors
<1>6. u <= w /\ v <= w
  BY <1>2, <1>4, <1>5, PowersNested
<1>7. ASSUME NEW m \in Nat \ {0}, Multiple(m, u), Multiple(m, v) PROVE w <= m
  <2>1. Multiple(m, x) /\ Multiple(m, y)
    BY <1>1, <1>7, MultipleAbs
  <2>2. Multiple(m, p)
    BY <2>1
  <2>3. Abs(p) <= Abs(m)
    BY <2>2, MultipleSize
  <2> QED BY <1>2, <2>3 DEF Abs
<1>8. CASE i0 <= j0
  <2>1. Multiple(v, u) /\ Multiple(v, v)
    BY <1>4, <1>5, <1>8, PowersNested, MultipleSelf
  <2>2. w <= v
    BY <1>7, <2>1
  <2> QED BY <1>1, <1>2, <1>6, <2>2
<1>9. CASE ~(i0 <= j0)
  <2>1. Multiple(u, v) /\ Multiple(u, u)
    BY <1>4, <1>5, <1>9, PowersNested, MultipleSelf
  <2>2. w <= u
    BY <1>7, <2>1
  <2> QED BY <1>1, <1>2, <1>6, <2>2
<1> QED BY <1>8, <1>9

-----------------------------------------------------------------------------
(* The sizes of the arguments.                                             *)
Limits ==
  /\ fn \in {"gcd", "lcm"} =>
       /\ Len(args) <= INT32_MAX
       /\ \A k \in 1 .. Len(args) : args[k] \in Int64
       /\ pc \notin {"start", "refused"} => \A k \in 1 .. Len(args) : args[k] # INT64_MIN
  /\ fn = "find_factors" => Abs(args[1]) <= INT32_MAX
  /\ fn = "reduce_fraction" => args \in (0 .. INT32_MAX) \X (0 .. INT32_MAX)

(* What is left and what is tried next is at most half of the number, but  *)
(* for the first factor.                                                   *)
Halved(n, v, d) == d = 2 \/ v = 1 \/ d < v \/ 2 * v <= n
Halves(n, v, d) == 2 * v <= n /\ (d = 2 \/ 2 * d <= n)

Sizes ==
  /\ fn \in {"gcd", "lcm"} /\ pc \in {"fold", "gcd", "gcd_done"} => acc # INT64_MIN
  /\ pc = "factor" => Halved(Target, value, dividend)
  /\ pc = "power" => Halves(Target, value, dividend)
  /\ pc = "reduce" => Expand(other) <= args[1] /\ Expand(factors) <= args[2]

TInv == IInv /\ Limits /\ Sizes /\ TypeOK

(* The limits as the provers can use them.                                 *)
LEMMA Maxima ==
  /\ INT32_MAX \in Nat /\ INT32_MAX >= 3
  /\ INT64_MAX \in Nat /\ INT64_MAX >= 3 * INT32_MAX
  /\ MaxArgs \in 2 .. INT32_MAX /\ Largest \in 1 .. INT64_MAX
<1>1. /\ INT32_MAX \in Nat /\ INT32_MAX >= 3
      /\ INT64_MAX \in Nat /\ INT64_MAX >= INT32_MAX * INT32_MAX
      /\ MaxArgs \in 2 .. INT32_MAX /\ Largest \in 1 .. INT64_MAX
  BY NumTheoryAssumption
<1>2. INT32_MAX * INT32_MAX >= 3 * INT32_MAX
  BY <1>1
<1>3. 3 * INT32_MAX \in Nat /\ INT32_MAX * INT32_MAX \in Nat
  BY <1>1
<1> QED BY <1>1, <1>2, <1>3

LEMMA Room ==
  /\ \A x \in Int : -INT32_MAX - 1 <= x /\ x <= INT32_MAX + 1 => x \in Int64
  /\ \A x \in Int : -INT32_MAX <= x /\ x <= INT32_MAX => x \in Int32 /\ x \in Int64
  /\ \A x \in Int64 : x \in Int /\ (x # INT64_MIN => Abs(x) \in Int64)
  /\ \A x \in Int32 : x \in Int /\ x <= INT32_MAX
BY Maxima DEF Int64, Int32, INT64_MIN, Abs

LEMMA InitLimits ==
  ASSUME Init, ~LeastFactors
  PROVE  Limits
<1>1. PICK c \in Calls : fn = c.fn /\ args = c.args
  BY DEF Init
<1>2. pc = "start"
  BY DEF Init
<1>3. CASE c \in [fn : {"gcd", "lcm"}, args : UNION {[1 .. n -> Operands] : n \in 2 .. MaxArgs}]
  <2>1. PICK n \in 2 .. MaxArgs : args \in [1 .. n -> Operands]
    BY <1>1, <1>3
  <2>2. n \in Nat /\ n <= INT32_MAX
    BY Maxima
  <2>3. args \in Seq(Operands) /\ Len(args) = n
    BY <2>1, <2>2
  <2>4. \A k \in 1 .. n : args[k] \in Int64
    BY <2>1, NumTheoryAssumption DEF Int64, INT64_MIN
  <2> QED BY <1>1, <1>2, <1>3, <2>2, <2>3, <2>4 DEF Limits
<1>4. CASE c \in [fn : {"multinv"}, args : {<<x, m>> : x \in Values, m \in Moduli}]
  BY <1>1, <1>4 DEF Limits
<1>5. CASE c \in [fn : {"find_factors"}, args : {<<x>> : x \in Numbers}]
  <2>1. PICK x \in Numbers : args = <<x>>
    BY <1>1, <1>5
  <2>2. x # INT32_MIN
    BY <1>1, <1>5, <2>1 DEF LeastFactors
  <2>3. Abs(x) <= INT32_MAX
    BY <2>2, NumTheoryAssumption DEF Abs, INT32_MIN
  <2> QED BY <1>1, <1>5, <2>1, <2>3 DEF Limits
<1>6. CASE c \in [fn : {"reduce_fraction"}, args : {<<x, y>> : x, y \in Numbers \cap Nat}]
  <2>1. PICK x \in Numbers \cap Nat, y \in Numbers \cap Nat : args = <<x, y>>
    BY <1>1, <1>6
  <2>2. x \in 0 .. INT32_MAX /\ y \in 0 .. INT32_MAX
    BY NumTheoryAssumption
  <2> QED BY <1>1, <1>6, <2>1, <2>2 DEF Limits
<1> QED BY <1>1, <1>3, <1>4, <1>5, <1>6 DEF Calls

LEMMA InitTypes ==
  ASSUME Init
  PROVE  TypeOK
<1>1. 0 \in Int64 /\ 0 \in Int32
  BY Room, Maxima
<1>2. \A c \in DOMAIN Columns : Columns[c] \in Int32
  BY <1>1 DEF Columns
<1>3. FactorList(<<>>)
  BY DEF FactorList
<1> QED BY <1>1, <1>2, <1>3 DEF Init, TypeOK

LEMMA InitTInv ==
  ASSUME Init, ~LeastInverse, ~LeastFactors
  PROVE  TInv
<1>1. Sizes
  BY DEF Init, Sizes
<1> QED BY <1>1, InitTypes, InitLimits, InitInv DEF TInv

(* The arguments stay as they are, and only the folds of gcd and lcm leave *)
(* the start.                                                              *)
LEMMA LimitsKeep ==
  ASSUME Limits, fn' = fn, args' = args,
         pc = "start" => fn \notin {"gcd", "lcm"} \/ pc' = "refused"
                           \/ \A k \in 1 .. Len(args) : args[k] # INT64_MIN,
         fn \in {"gcd", "lcm"} /\ pc = "refused" => pc' = "refused"
  PROVE  Limits'
<1>1. Int64' = Int64 /\ INT64_MIN' = INT64_MIN
  BY DEF Int64, INT64_MIN
<1> QED BY <1>1 DEF Limits

-----------------------------------------------------------------------------
(* tms_gcd, the folds, multinv, the factors and the fractions, in turn.    *)
LEMMA GcdTypes ==
  ASSUME TInv, IInv', Gcd
  PROVE  TInv'
<1> USE DEF TInv
<1>1. /\ pc = "gcd" /\ fn' = fn /\ args' = args /\ i' = i /\ acc' = acc
      /\ euclid' = euclid /\ value' = value /\ dividend' = dividend /\ factors' = factors
      /\ other' = other /\ fraction' = fraction /\ pc' \in {"gcd", "gcd_done", "trapped"}
  BY DEF Gcd, GcdStep, GcdTrap, call, gcdvars, facvars, Goto
<1>2. Limits'
  BY <1>1, LimitsKeep
<1>3. Sizes'
  BY <1>1 DEF Sizes, INT64_MIN
<1>4. {a', b'} \subseteq Int64
  <2>1. CASE GcdStep
    <3>1. a \in Nat /\ b \in Nat /\ a # 0 /\ b # 0 /\ a \in Int64 /\ b \in Int64
      BY <1>1, <2>1 DEF IInv, GcdInv, GcdStep, Smaller, TypeOK
    <3> DEFINE s == Smaller(a, b)
               l == Larger(a, b)
    <3>2. s \in Nat \ {0} /\ l \in Nat /\ {s, l} = {a, b}
      BY <3>1, GcdRound
    <3>3. /\ a' = s /\ (b' = l % s \/ b' = s)
      <4>1. Rest(l, s) = l % s
        <5> HIDE DEF s, l
        <5> QED BY <3>2, RestIs
      <4> QED BY <2>1, <4>1 DEF GcdStep
    <3> HIDE DEF s, l
    <3>4. l % s \in 0 .. s - 1
      BY <3>2, Division
    <3>5. s \in Int64
      BY <3>1, <3>2
    <3>6. l % s \in Int64
      BY <3>2, <3>4, <3>5, Maxima DEF Int64, INT64_MIN
    <3> QED BY <3>3, <3>5, <3>6
  <2>2. CASE GcdTrap
    BY <2>2 DEF GcdTrap, gcdvars, TypeOK
  <2> QED BY <2>1, <2>2 DEF Gcd
<1>5. TypeOK'
  <2>1. Int64' = Int64 /\ Int32' = Int32
    BY DEF Int64, Int32, INT64_MIN
  <2> QED BY <1>1, <1>4, <2>1 DEF TypeOK, FactorList
<1> QED BY <1>2, <1>3, <1>5

(* A least common multiple of integers above the least one is above it too *)
(* (the least one is minus a power of two).                                *)
LEMMA LcmAboveLeast ==
  ASSUME NEW p \in Int64, NEW x \in Int64, NEW y \in Int64, x # 0, y # 0,
         x # INT64_MIN, y # INT64_MIN, Multiple(p, x), Multiple(p, y),
         \A m \in Int : Multiple(m, x) /\ Multiple(m, y) => Multiple(m, p)
  PROVE  p # INT64_MIN
<1> SUFFICES ASSUME p = INT64_MIN PROVE FALSE
  OBVIOUS
<1>1. PICK n \in 0 .. INT64_MAX : INT64_MAX + 1 = Power(2, n)
  BY BitsAssumption
<1>2. n \in Nat /\ p \in Int /\ x \in Int /\ y \in Int
  BY Maxima, Room
<1>3. Abs(p) = INT64_MAX + 1 /\ Abs(x) # INT64_MAX + 1 /\ Abs(y) # INT64_MAX + 1
  BY Maxima, Room DEF Abs, INT64_MIN, Int64
<1>4. Abs(p) = Power(2, n)
  BY <1>1, <1>3
<1>5. Abs(x) = Power(2, n) \/ Abs(y) = Power(2, n)
  BY <1>2, <1>4, LcmNotPower
<1> QED BY <1>1, <1>3, <1>5

LEMMA FoldTypes ==
  ASSUME TInv, IInv', Folds
  PROVE  TInv'
<1> USE DEF TInv
<1>1. /\ fn' = fn /\ args' = args
      /\ euclid' = euclid /\ value' = value /\ dividend' = dividend /\ factors' = factors
      /\ other' = other /\ fraction' = fraction
      /\ \/ CheckOperands /\ pc = "start" /\ pc' \in {"refused", "fold"}
         \/ NextOperand /\ pc = "fold" /\ pc' \in {"gcd", "done"}
         \/ FoldGcd /\ pc = "gcd_done" /\ pc' = "fold"
         \/ FoldLcm /\ pc = "gcd_done" /\ pc' \in {"fold", "refused"}
  BY DEF Folds, CheckOperands, NextOperand, FoldGcd, FoldLcm, CallGcd, call, facvars, Goto, At
<1>2. fn \in {"gcd", "lcm"}
  BY DEF Folds, CheckOperands, NextOperand, FoldGcd, FoldLcm, At, IInv, Control, Called
<1>3. Len(args) \in Nat /\ Len(args) >= 2 /\ Len(args) <= INT32_MAX /\ DOMAIN args = 1 .. Len(args)
  BY <1>2 DEF IInv, Called, Limits
<1>4. /\ Int64' = Int64 /\ Int32' = Int32 /\ INT64_MIN' = INT64_MIN
      /\ (pc' # "start")
  BY <1>1 DEF Int64, Int32, INT64_MIN
<1>5. ASSUME {a', b', i', acc'} \subseteq Int64 PROVE TypeOK'
  <2>1. pc' \in {"start", "fold", "gcd", "gcd_done", "euclid", "factor", "power", "factored",
                 "reduce", "done", "refused", "trapped", "internal_error"}
    BY <1>1
  <2> QED BY <1>1, <1>4, <1>5, <2>1 DEF TypeOK, FactorList
<1>6. ASSUME pc' \in {"fold", "gcd", "gcd_done"} => acc' # INT64_MIN PROVE Sizes'
  BY <1>1, <1>4, <1>6 DEF Sizes
<1>7. CASE CheckOperands /\ pc = "start" /\ pc' \in {"refused", "fold"}
  <2>1. /\ acc' = args[1] /\ i' = 2 /\ a' = a /\ b' = b
        /\ pc' = IF \E k \in DOMAIN args : args[k] = INT64_MIN THEN "refused" ELSE "fold"
    BY <1>7 DEF CheckOperands, gcdvars, Goto
  <2>2. pc' = "refused" \/ \A k \in 1 .. Len(args) : args[k] # INT64_MIN
    BY <1>3, <2>1
  <2>3. Limits'
    BY <1>1, <1>7, <2>2, LimitsKeep
  <2>4. 2 \in Int64 /\ args[1] \in Int64
    BY <1>2, <1>3, Room, Maxima DEF Limits
  <2>5. TypeOK'
    BY <1>5, <2>1, <2>4 DEF TypeOK
  <2>6. Sizes'
    BY <1>3, <1>6, <1>7, <2>1, <2>2
  <2> QED BY <2>3, <2>5, <2>6
<1>8. CASE NextOperand /\ pc = "fold" /\ pc' \in {"gcd", "done"}
  <2>1. Limits' /\ acc' = acc /\ i' = i
    BY <1>1, <1>8, LimitsKeep DEF NextOperand
  <2>2. Sizes'
    BY <1>2, <1>6, <1>8, <2>1 DEF Sizes
  <2>3. {a', b'} \subseteq Int64
    <3>1. CASE i <= Len(args)
      <4>1. CallGcd(acc, args[i])
        BY <1>8, <3>1 DEF NextOperand
      <4>2. i \in 1 .. Len(args)
        BY <1>2, <1>8, <3>1 DEF IInv, FoldInv
      <4>3. args[i] \in Int64 /\ args[i] # INT64_MIN
        BY <1>2, <1>8, <4>2 DEF Limits
      <4>4. acc \in Int64 /\ acc # INT64_MIN
        BY <1>2, <1>8 DEF TypeOK, Sizes
      <4>5. a' = Abs(acc) /\ b' = Abs(args[i])
        BY <4>1, <4>3, <4>4 DEF CallGcd, Magnitude
      <4> QED BY <4>3, <4>4, <4>5, Room
    <3>2. CASE ~(i <= Len(args))
      BY <1>8, <3>2 DEF NextOperand, gcdvars, TypeOK
    <3> QED BY <3>1, <3>2
  <2>4. TypeOK'
    BY <1>5, <2>1, <2>3 DEF TypeOK
  <2> QED BY <2>1, <2>2, <2>4
<1>9. ASSUME pc' = "fold", pc = "gcd_done", i' = i + 1 PROVE i' \in Int64
  <2>1. i \in 2 .. Len(args)
    BY <1>2, <1>9 DEF IInv, FoldInv
  <2> QED BY <1>3, <1>9, <2>1, Room, Maxima
<1>10. CASE FoldGcd /\ pc = "gcd_done" /\ pc' = "fold"
  <2>1. acc' = b /\ i' = i + 1 /\ a' = a /\ b' = b
    BY <1>10 DEF FoldGcd, gcdvars
  <2>2. b \in Nat /\ b \in Int64 /\ a \in Int64
    BY <1>10 DEF IInv, GcdInv, TypeOK
  <2>3. b # INT64_MIN
    BY <2>2, Maxima DEF INT64_MIN
  <2> QED BY <1>1, <1>5, <1>6, <1>9, <1>10, <2>1, <2>2, <2>3, LimitsKeep
<1>11. CASE FoldLcm /\ pc = "gcd_done" /\ pc' \in {"fold", "refused"}
  <2> DEFINE p == (acc \div b) * args[i]
  <2>1. /\ fn = "lcm" /\ a' = a /\ b' = b
        /\ IF Fits(p) THEN acc' = p /\ i' = i + 1 /\ pc' = "fold"
                      ELSE pc' = "refused" /\ acc' = acc /\ i' = i
    BY <1>11 DEF FoldLcm, gcdvars, At, Goto
  <2>2. Limits'
    BY <1>1, <1>11, LimitsKeep
  <2>3. CASE ~Fits(p)
    <3> HIDE DEF p
    <3>1. pc' = "refused" /\ acc' = acc /\ i' = i
      BY <2>1, <2>3
    <3>2. Sizes'
      BY <1>6, <3>1
    <3>3. TypeOK'
      BY <1>5, <2>1, <3>1 DEF TypeOK
    <3> QED BY <2>2, <3>2, <3>3
  <2>4. CASE Fits(p)
    <3>1. /\ First = acc /\ Second = args[i] /\ i \in 2 .. Len(args)
      BY <1>11, <2>1 DEF First, Second, IInv, FoldInv
    <3>2. args[i] \in Int64 /\ args[i] # INT64_MIN /\ acc \in Int64 /\ acc # INT64_MIN
      BY <1>3, <1>11, <2>1, <3>1 DEF Limits, Sizes, TypeOK
    <3>3. acc \in Int /\ args[i] \in Int
      BY <3>2, Room
    <3>4. /\ b \in Nat \ {0} /\ Combination(b, acc, args[i]) /\ acc # 0 /\ args[i] # 0
          /\ Multiple(acc, b) /\ Multiple(args[i], b)
      BY <1>11, <3>1 DEF IInv, GcdInv
    <3>5. /\ Multiple(p, acc) /\ Multiple(p, args[i])
          /\ \A m \in Int : Multiple(m, acc) /\ Multiple(m, args[i]) => Multiple(m, p)
      BY <3>3, <3>4, LeastMultiple
    <3> HIDE DEF p
    <3>6. p \in Int64
      BY <2>4, Maxima DEF Fits, Int64, INT64_MIN
    <3>7. p # INT64_MIN
      BY <3>2, <3>4, <3>5, <3>6, LcmAboveLeast
    <3>8. acc' = p /\ i' = i + 1 /\ pc' = "fold"
      BY <2>1, <2>4
    <3>9. Sizes'
      BY <1>6, <3>7, <3>8
    <3>10. TypeOK'
      <4>1. i' \in Int64
        BY <1>9, <1>11, <3>8
      <4> QED BY <1>5, <2>1, <3>6, <3>8, <4>1 DEF TypeOK
    <3> QED BY <2>2, <3>9, <3>10
  <2> QED BY <2>3, <2>4
<1> QED BY <1>1, <1>7, <1>8, <1>10, <1>11

-----------------------------------------------------------------------------
(* The numbers of a row are no larger than those the table began with.     *)
LEMMA RowsSize ==
  ASSUME NEW p \in Nat, NEW q \in Nat, NEW r2, NEW r, NEW s2, NEW s, NEW t2, NEW t,
         Rows(p, q, r2, r, s2, s, t2, t)
  PROVE  /\ r2 \in 1 .. q /\ r \in 0 .. q
         /\ s \in -q .. q /\ t \in -p .. p
<1>1. /\ r2 \in 1 .. q /\ r \in 0 .. r2 - 1
      /\ s2 \in Int /\ s \in Int /\ t2 \in Int /\ t \in Int
  BY DEF Rows
<1>2. ASSUME NEW x2 \in Int, NEW x \in Int, NEW y2 \in Int, NEW y \in Int,
             Alternate(p, q, r2, r, x2, x, y2, y)
      PROVE  x \in 0 .. q /\ -y \in 0 .. p
  <2>1. r2 \in Nat \ {0} /\ r \in Nat
    BY <1>1
  <2>2. /\ x2 <= 0 /\ x >= 0 /\ y2 >= 0 /\ y <= 0
        /\ p = y2 * r - y * r2 /\ q = x * r2 - x2 * r
    BY <1>2 DEF Alternate
  <2>3. x * r2 >= x /\ (-x2) * r >= 0
    BY <2>1, <2>2
  <2>4. (-y) * r2 >= -y /\ y2 * r >= 0
    BY <2>1, <2>2
  <2>5. q = x * r2 + (-x2) * r /\ p = y2 * r + (-y) * r2
    BY <2>1, <2>2
  <2>6. x <= q
    BY <2>3, <2>5, <2>1
  <2>7. -y <= p
    BY <2>4, <2>5, <2>1
  <2> QED BY <2>2, <2>6, <2>7
<1>3. CASE Alternate(p, q, r2, r, s2, s, t2, t)
  BY <1>1, <1>2, <1>3
<1>4. CASE Alternate(p, q, r2, r, -s2, -s, -t2, -t)
  <2>1. -s2 \in Int /\ -s \in Int /\ -t2 \in Int /\ -t \in Int
    BY <1>1
  <2>2. -s \in 0 .. q /\ -(-t) \in 0 .. p
    BY <1>2, <1>4, <2>1
  <2> QED BY <1>1, <2>2
<1> QED BY <1>1, <1>3, <1>4 DEF Rows

LEMMA TableSize ==
  ASSUME Called, EuclidInv, fn = "multinv", pc = "euclid"
  PROVE  /\ Upper \in 1 .. INT32_MAX /\ Lower \in 1 .. INT32_MAX
         /\ euclid.r2 \in Int32 /\ euclid.r \in Int32 /\ euclid.s \in Int32 /\ euclid.t \in Int32
<1>1. /\ InLimits
      /\ Rows(Upper, Lower, euclid.r2, euclid.r, euclid.s2, euclid.s, euclid.t2, euclid.t)
  BY DEF EuclidInv
<1>2. Upper \in Nat \ {0} /\ Lower \in Nat \ {0} /\ Upper <= INT32_MAX /\ Lower <= INT32_MAX
  BY <1>1, UpperLower, Maxima DEF InLimits
<1>3. PICK p \in Nat, q \in Nat : p = Upper /\ q = Lower
  BY <1>2
<1>4. PICK r2, r, s2, s, t2, t :
        /\ r2 = euclid.r2 /\ r = euclid.r /\ s2 = euclid.s2 /\ s = euclid.s
        /\ t2 = euclid.t2 /\ t = euclid.t
  OBVIOUS
<1>5. Rows(p, q, r2, r, s2, s, t2, t)
  BY <1>1, <1>3, <1>4
<1>6. r2 \in 1 .. q /\ r \in 0 .. q /\ s \in -q .. q /\ t \in -p .. p
  BY <1>5, RowsSize
<1>7. r2 \in Int32 /\ r \in Int32 /\ s \in Int32 /\ t \in Int32
  BY <1>2, <1>3, <1>6, Room, Maxima
<1> QED BY <1>2, <1>4, <1>7, Maxima

LEMMA TableSizeNext ==
  (Called /\ EuclidInv /\ fn = "multinv" /\ pc = "euclid")' =>
    /\ (euclid.r2 \in Int32)' /\ (euclid.r \in Int32)' /\ (euclid.s \in Int32)'
    /\ (euclid.t \in Int32)'
BY TableSize, PTL

LEMMA MultinvTypes ==
  ASSUME TInv, IInv', Multinv
  PROVE  TInv'
<1> USE DEF TInv
<1>1. /\ fn' = fn /\ args' = args /\ i' = i
      /\ value' = value /\ dividend' = dividend /\ factors' = factors
      /\ other' = other /\ fraction' = fraction /\ pc' # "reduce" /\ pc' # "factor" /\ pc' # "power"
      /\ \/ CheckInverse
         \/ NotCoprime /\ UNCHANGED <<gcdvars, acc, euclid>>
         \/ StartEuclid /\ UNCHANGED <<gcdvars, acc>>
         \/ EuclidStep /\ UNCHANGED <<gcdvars, acc>>
         \/ EuclidTrap /\ UNCHANGED <<gcdvars, acc, euclid>>
         \/ EuclidDone /\ UNCHANGED <<gcdvars, euclid>>
  BY DEF Multinv, CheckInverse, NotCoprime, StartEuclid, EuclidStep, EuclidTrap, EuclidDone,
         CallGcd, call, facvars, Goto, IInv, Control, Called
<1>2. fn = "multinv"
  BY DEF Multinv, CheckInverse, NotCoprime, StartEuclid, EuclidStep, EuclidTrap, EuclidDone,
         At, IInv, Control, Called
<1>3. Limits'
  BY <1>1, <1>2, LimitsKeep
<1>4. Sizes'
  BY <1>1, <1>2 DEF Sizes
<1>5. ASSUME {a', b', acc'} \subseteq Int64, \A c \in DOMAIN euclid' : euclid'[c] \in Int32
      PROVE  TypeOK'
  <2>1. pc' \in {"start", "fold", "gcd", "gcd_done", "euclid", "factor", "power", "factored",
                 "reduce", "done", "refused", "trapped", "internal_error"}
    BY <1>1, <1>2 DEF IInv, Control
  <2>2. Int64' = Int64 /\ Int32' = Int32
    BY DEF Int64, Int32, INT64_MIN
  <2> QED BY <1>1, <1>5, <2>1, <2>2 DEF TypeOK, FactorList
<1>6. CASE CheckInverse
  <2>1. acc' = acc /\ euclid' = euclid
    BY <1>6 DEF CheckInverse
  <2>2. {a', b'} \subseteq Int64
    <3>1. CASE OutOfRange(args[1], args[2])
      BY <1>6, <3>1 DEF CheckInverse, gcdvars, TypeOK
    <3>2. CASE ~OutOfRange(args[1], args[2])
      <4>1. args[1] \in Int /\ args[2] \in Int
        BY <1>2 DEF IInv, Called
      <4>2. a' = Abs(args[1]) /\ b' = Abs(args[2])
        <5>1. CallGcd(args[1], args[2])
          BY <1>6, <3>2 DEF CheckInverse
        <5> QED BY <1>2, <3>2, <5>1, InRange DEF CallGcd, Magnitude, IInv
      <4>3. Abs(args[1]) \in 0 .. INT32_MAX /\ Abs(args[2]) \in 0 .. INT32_MAX
        BY <1>2, <3>2, <4>1, Maxima, InRange DEF IInv, Abs
      <4> QED BY <4>2, <4>3, Room, Maxima
    <3> QED BY <3>1, <3>2
  <2> QED BY <1>3, <1>4, <1>5, <2>1, <2>2 DEF TypeOK
<1>7. CASE NotCoprime /\ UNCHANGED <<gcdvars, acc, euclid>>
  BY <1>3, <1>4, <1>5, <1>7 DEF gcdvars, TypeOK
<1>8. CASE EuclidTrap /\ UNCHANGED <<gcdvars, acc, euclid>>
  BY <1>3, <1>4, <1>5, <1>8 DEF gcdvars, TypeOK
<1>9. CASE StartEuclid /\ UNCHANGED <<gcdvars, acc>>
  <2>1. /\ pc' = "euclid"
        /\ euclid' = [r1 |-> Upper, r2 |-> Lower, r |-> Upper % Lower,
                      s2 |-> 0, s |-> 1, t2 |-> 1, t |-> -(Upper \div Lower)]
    BY <1>9 DEF StartEuclid, Upper, Lower, Goto
  <2>2. /\ (euclid.r2 \in Int32)' /\ (euclid.r \in Int32)' /\ (euclid.s \in Int32)'
        /\ (euclid.t \in Int32)'
    BY <1>1, <1>2, <2>1, TableSizeNext DEF IInv
  <2>3. Upper' \in 1 .. INT32_MAX
    <3>1. InLimits' /\ Called'
      BY <2>1 DEF IInv, EuclidInv
    <3>2. InLimits /\ Called /\ Upper' = Upper
      BY <1>1, <3>1 DEF InLimits, Upper, IInv
    <3> QED BY <1>2, <3>2, UpperLower, Maxima DEF InLimits
  <2>4. Upper' = Upper
    BY <1>1 DEF Upper
  <2>5. 0 \in Int32 /\ 1 \in Int32 /\ Upper \in Int32 /\ Int32' = Int32
    <3>1. Upper \in Int32
      BY <2>3, <2>4, Room, Maxima
    <3>2. 0 \in Int32 /\ 1 \in Int32
      BY Room, Maxima
    <3> QED BY <3>1, <3>2 DEF Int32
  <2>6. /\ DOMAIN euclid' = {"r1", "r2", "r", "s2", "s", "t2", "t"}
        /\ euclid'.r1 = Upper /\ euclid'.s2 = 0 /\ euclid'.t2 = 1
    BY <2>1
  <2>7. euclid'.r2 \in Int32 /\ euclid'.r \in Int32 /\ euclid'.s \in Int32 /\ euclid'.t \in Int32
    BY <2>2, <2>5
  <2>8. \A c \in DOMAIN euclid' : euclid'[c] \in Int32
    BY ONLY <2>5, <2>6, <2>7
  <2> QED BY <1>3, <1>4, <1>5, <1>9, <2>8 DEF gcdvars, TypeOK
<1>10. CASE EuclidStep /\ UNCHANGED <<gcdvars, acc>>
  <2> DEFINE q == euclid.r2 \div euclid.r
  <2>1. /\ pc = "euclid" /\ pc' = pc
        /\ euclid' = [r1 |-> euclid.r2, r2 |-> euclid.r, r |-> euclid.r2 % euclid.r,
                      s2 |-> euclid.s, s |-> euclid.s2 - euclid.s * q,
                      t2 |-> euclid.t, t |-> euclid.t2 - euclid.t * q]
    BY <1>10 DEF EuclidStep
  <2>2. /\ (euclid.r2 \in Int32)' /\ (euclid.r \in Int32)' /\ (euclid.s \in Int32)'
        /\ (euclid.t \in Int32)'
    BY <1>1, <1>2, <2>1, TableSizeNext DEF IInv
  <2>3. euclid.r2 \in Int32 /\ euclid.r \in Int32 /\ euclid.s \in Int32 /\ euclid.t \in Int32
    BY <1>2, <2>1, TableSize DEF IInv
  <2>4. Int32' = Int32
    BY DEF Int32
  <2>5. /\ DOMAIN euclid' = {"r1", "r2", "r", "s2", "s", "t2", "t"}
        /\ euclid'.r1 = euclid.r2 /\ euclid'.s2 = euclid.s /\ euclid'.t2 = euclid.t
    BY <2>1
  <2>6. euclid'.r2 \in Int32 /\ euclid'.r \in Int32 /\ euclid'.s \in Int32 /\ euclid'.t \in Int32
    BY <2>2, <2>4
  <2>7. \A c \in DOMAIN euclid' : euclid'[c] \in Int32
    BY ONLY <2>3, <2>5, <2>6
  <2> QED BY <1>3, <1>4, <1>5, <1>10, <2>7 DEF gcdvars, TypeOK
<1>11. CASE EuclidDone /\ UNCHANGED <<gcdvars, euclid>>
  <2>1. pc = "euclid" /\ pc' \in {"done", "internal_error"}
    BY <1>11 DEF EuclidDone, Goto
  <2>2. pc' # "internal_error" /\ (pc' = "done" => acc' \in 1 .. args[2] - 1)
    BY <1>1, <1>2 DEF IInv, AnswersCorrect, InverseCorrect
  <2>3. args[2] \in 1 .. INT32_MAX
    BY <2>1 DEF IInv, EuclidInv, InLimits
  <2>4. acc' \in Int64
    BY <2>1, <2>2, <2>3, Room, Maxima
  <2> QED BY <1>3, <1>4, <1>5, <1>11, <2>4 DEF gcdvars, TypeOK
<1> QED BY <1>1, <1>6, <1>7, <1>8, <1>9, <1>10, <1>11

-----------------------------------------------------------------------------
(* What is left of a number is no larger than it, and no larger than half  *)
(* of it once a factor is found.                                           *)
LEMMA LeftSize ==
  ASSUME NEW n, NEW l, NEW v, NEW d, Trying(n, l, v, d)
  PROVE  n \in Nat \ {0} /\ v \in 1 .. n /\ Expand(l) \in 1 .. n /\ d \in Nat /\ d >= 2
<1>1. n \in Nat \ {0} /\ v \in Nat \ {0} /\ d \in Nat /\ d >= 2 /\ Expand(l) * v = n
  BY DEF Trying
<1>2. Expand(l) \in Nat \ {0}
  BY ExpandPositive DEF Trying
<1>3. PICK x \in Nat \ {0} : x = Expand(l)
  BY <1>2
<1>4. x * v >= x /\ x * v >= v
  BY <1>1
<1> QED BY <1>1, <1>3, <1>4

(* The next number tried while none is found, and once one is.             *)
LEMMA HalvedNext ==
  ASSUME NEW n, NEW l, NEW v, NEW d, Trying(n, l, v, d), v # 1, ~Divides(d, v),
         ~(d > v \div 2), NEW e, e = Advance(d)
  PROVE  Halved(n, v, e) /\ e \in Nat /\ e <= v
<1>1. n \in Nat \ {0} /\ v \in Nat \ {0} /\ d \in Nat /\ d >= 2
  BY DEF Trying
<1>2. d <= v \div 2 /\ 2 * (v \div 2) <= v
  BY <1>1
<1>3. CASE d = 2
  <2>1. e = 3
    BY <1>1, <1>3 DEF Advance
  <2>2. v >= 4 /\ v # 4
    BY <1>1, <1>2, <1>3 DEF Divides
  <2> QED BY <1>1, <2>1, <2>2 DEF Halved
<1>4. CASE d # 2
  <2>1. e = d + 2 /\ d >= 3
    BY <1>1, <1>4 DEF Advance
  <2>2. d + 2 < v
    BY <1>1, <1>2, <2>1
  <2> QED BY <1>1, <2>1, <2>2 DEF Halved
<1> QED BY <1>3, <1>4

LEMMA HalvesFound ==
  ASSUME NEW n, NEW l, NEW v, NEW d, Trying(n, l, v, d), Halved(n, v, d), v # 1, Divides(d, v),
         NEW w, w = v \div d
  PROVE  Halves(n, w, d) /\ w \in 1 .. n
<1>1. n \in Nat \ {0} /\ v \in 1 .. n /\ d \in Nat /\ d >= 2
  BY LeftSize
<1>2. v \in Nat \ {0} /\ v <= n
  BY <1>1
<1>3. w \in Nat \ {0} /\ d * w = v /\ d <= v
  BY <1>1, <1>2, Quotient
<1>4. d * w >= 2 * w
  BY <1>1, <1>3
<1>5. 2 * w <= n
  <2>1. v >= 2 * w
    BY <1>3, <1>4
  <2> QED BY ONLY <1>1, <1>2, <1>3, <2>1
<1>6. d # 2 => 2 * d <= n
  <2>1. CASE d < v
    <3>1. w # 1
      BY <1>1, <1>3, <2>1
    <3>2. d * w >= d * 2
      BY <1>1, <1>3, <3>1
    <3> QED BY <1>1, <1>2, <1>3, <3>2
  <2>2. CASE 2 * v <= n
    BY <1>1, <1>2, <1>3, <2>2
  <2> QED BY <2>1, <2>2 DEF Halved
<1> QED BY <1>1, <1>3, <1>5, <1>6 DEF Halves

LEMMA HalvesAgain ==
  ASSUME NEW n, NEW l, NEW v, NEW d, Trying(n, l, v, d), Halves(n, v, d), Divides(d, v),
         NEW w, w = v \div d
  PROVE  Halves(n, w, d) /\ w \in 1 .. n
<1>1. n \in Nat \ {0} /\ v \in 1 .. n /\ d \in Nat /\ d >= 2
  BY LeftSize
<1>2. v \in Nat \ {0} /\ v <= n
  BY <1>1
<1>3. w \in Nat \ {0} /\ d * w = v /\ d <= v
  BY <1>1, <1>2, Quotient
<1>4. d * w >= w
  BY <1>1, <1>3
<1> QED BY <1>1, <1>2, <1>3, <1>4 DEF Halves

LEMMA HalvedAfter ==
  ASSUME NEW n \in Nat, n <= INT32_MAX, NEW v \in Nat, NEW d \in Nat, d >= 2, Halves(n, v, d),
         NEW e, e = Advance(d)
  PROVE  Halved(n, v, e) /\ e \in 0 .. INT32_MAX
<1>1. CASE d = 2
  BY <1>1, Maxima DEF Halves, Halved, Advance
<1>2. CASE d # 2
  <2>1. e = d + 2 /\ d >= 3 /\ 2 * d <= n
    BY <1>2 DEF Halves, Advance
  <2>2. e <= n
    BY <2>1
  <2> QED BY <2>1, <2>2, Maxima DEF Halves, Halved
<1> QED BY <1>1, <1>2

(* The numbers of a list stay within an int.                               *)
LEMMA AppendSmall ==
  ASSUME NEW l \in Seq(Factor), FactorList(l), NEW f \in Int32,
         NEW t, t = Append(l, One(f))
  PROVE  FactorList(t)
<1>1. One(f) \in [factor : Int32, power : 0 .. INT32_MAX]
  <2>1. 1 \in 0 .. INT32_MAX
    BY Maxima
  <2> QED BY <2>1 DEF One
<1>2. Len(l) \in Nat /\ DOMAIN l = 1 .. Len(l) /\ DOMAIN t = 1 .. Len(l) + 1
  OBVIOUS
<1>3. \A k \in 1 .. Len(l) + 1 : t[k] = IF k = Len(l) + 1 THEN One(f) ELSE l[k]
  BY <1>2
<1> QED BY <1>1, <1>2, <1>3 DEF FactorList

LEMMA AgainSmall ==
  ASSUME NEW n \in Nat, n <= INT32_MAX, NEW l, FactorList(l), NEW v, NEW d, NEW w,
         Dividing(n, l, v, d), NEW t, t = [l EXCEPT ![Len(l)].power = @ + 1], Dividing(n, t, w, d)
  PROVE  FactorList(t)
<1>1. l \in Seq(Factor) /\ t \in Seq(Factor) /\ Len(l) \in Nat \ {0} /\ PrimePowers(t)
  BY DEF Dividing, Trying
<1>2. DOMAIN l = 1 .. Len(l) /\ DOMAIN t = 1 .. Len(l) /\ Len(t) = Len(l)
  BY <1>1
<1>3. PICK j \in 1 .. Len(l) : j = Len(l)
  BY <1>1
<1>4. l[j] \in [factor : Int32, power : 0 .. INT32_MAX]
  BY <1>2 DEF FactorList
<1>5. t[j].factor = l[j].factor /\ t[j].power = l[j].power + 1
      /\ t[j] = [factor |-> t[j].factor, power |-> t[j].power]
  <2>1. t[j] = [l[j] EXCEPT !.power = @ + 1]
    BY <1>2, <1>3
  <2> QED BY <1>4, <2>1
<1>6. t[j].factor >= 2
  <2>1. t[j].factor \in Nat \ {0}
    BY <1>1, <1>2, PowersOf
  <2> QED BY <1>1, <1>2, <2>1 DEF PrimePowers, Prime
<1>7. t[j].power < Expand(t)
  BY <1>1, <1>2, <1>6, PowerInList
<1>8. Expand(t) \in 1 .. n
  BY LeftSize DEF Dividing
<1>9. t[j].power \in 0 .. INT32_MAX
  BY <1>4, <1>5, <1>7, <1>8, Maxima
<1>10. t[j] \in [factor : Int32, power : 0 .. INT32_MAX]
  BY <1>4, <1>5, <1>9
<1>11. \A k \in 1 .. Len(l) : k # j => t[k] = l[k]
  BY <1>2, <1>3
<1> QED BY <1>2, <1>10, <1>11 DEF FactorList

-----------------------------------------------------------------------------
LEMMA TargetSize ==
  ASSUME Called, Limits, fn \in {"find_factors", "reduce_fraction"}, i = 1 \/ i = 2,
         fn = "find_factors" => i = 1
  PROVE  Target \in Nat /\ Target <= INT32_MAX
<1>1. CASE fn = "find_factors"
  BY <1>1, Maxima DEF Called, Limits, Target, Abs
<1>2. CASE fn = "reduce_fraction"
  <2>1. args[1] \in 0 .. INT32_MAX /\ args[2] \in 0 .. INT32_MAX
    BY <1>2 DEF Limits
  <2> QED BY <2>1, Maxima DEF Target, Abs
<1> QED BY <1>1, <1>2

LEMMA StartFactorsTypes ==
  ASSUME NEW x \in Int, x # INT32_MIN, Abs(x) <= INT32_MAX, StartFactors(x)
  PROVE  /\ {value', dividend'} \subseteq Int32 /\ FactorList(factors')
         /\ pc' \in {"factor", "factored"} /\ dividend' = 2
<1>1. /\ value' = Abs(x) /\ dividend' = 2 /\ factors' = <<>> /\ pc' \in {"factor", "factored"}
  BY DEF StartFactors, Magnitude, Goto
<1>2. Abs(x) \in Int32 /\ 2 \in Int32
  BY Room, Maxima DEF Abs
<1> QED BY <1>1, <1>2 DEF FactorList

LEMMA FactorTypes ==
  ASSUME TInv, IInv', Factors
  PROVE  TInv'
<1> USE DEF TInv
<1>1. /\ fn' = fn /\ args' = args
      /\ a' = a /\ b' = b /\ acc' = acc /\ euclid' = euclid /\ other' = other
      /\ fraction' = fraction
      /\ \/ FindFactors /\ pc' \in {"factor", "factored"} /\ i' = 1
         \/ FactorsStep /\ i' = i /\ pc \in {"factor", "power"} /\ pc' \in {"factor", "power", "factored"}
         \/ FactorsReturned /\ i' = i /\ pc' = "done"
              /\ value' = value /\ dividend' = dividend /\ factors' = factors
  BY DEF Factors, FindFactors, StartFactors, FactorsStep, FactorFound, DivideAgain, PowerDone,
         NoFactor, OneLeft, FactorsReturned, call, gcdvars, facvars, Goto
<1>2. fn \in {"find_factors", "reduce_fraction"}
  BY DEF Factors, FindFactors, FactorFound, DivideAgain, PowerDone, NoFactor, OneLeft,
         FactorsReturned, At, IInv, Control, Called
<1>3. Limits'
  BY <1>1, <1>2, LimitsKeep
<1>4. Int64' = Int64 /\ Int32' = Int32
  BY DEF Int64, Int32, INT64_MIN
<1>5. ASSUME {value', dividend'} \subseteq Int32, FactorList(factors'), i' \in Int64 PROVE TypeOK'
  <2>1. pc' \in {"start", "fold", "gcd", "gcd_done", "euclid", "factor", "power", "factored",
                 "reduce", "done", "refused", "trapped", "internal_error"}
    BY <1>1
  <2>2. FactorList(factors)' /\ FactorList(other)'
    BY <1>1, <1>4, <1>5 DEF TypeOK, FactorList
  <2> QED BY <1>1, <1>4, <1>5, <2>1, <2>2 DEF TypeOK
<1>6. ASSUME pc' = "factor" => Halved(Target', value', dividend'),
             pc' = "power" => Halves(Target', value', dividend')
      PROVE  Sizes'
  <2>1. fn' \notin {"gcd", "lcm"} /\ pc' # "reduce"
    BY <1>1, <1>2
  <2> QED BY <1>6, <2>1 DEF Sizes
<1>7. CASE FindFactors /\ pc' \in {"factor", "factored"} /\ i' = 1
  <2>1. args[1] \in Int /\ Abs(args[1]) <= INT32_MAX
    BY <1>2 DEF IInv, Called, Limits, Abs
  <2>2. /\ {value', dividend'} \subseteq Int32 /\ FactorList(factors')
        /\ pc' \in {"factor", "factored"} /\ dividend' = 2
    BY <1>2, <1>7, <2>1, NotLeast, StartFactorsTypes DEF FindFactors, IInv
  <2>3. 1 \in Int64
    BY Room, Maxima
  <2>4. Sizes'
    BY <1>6, <2>2 DEF Halved
  <2> QED BY <1>3, <1>5, <1>7, <2>2, <2>3, <2>4
<1>8. CASE FactorsReturned /\ i' = i /\ pc' = "done"
             /\ value' = value /\ dividend' = dividend /\ factors' = factors
  BY <1>3, <1>5, <1>6, <1>8 DEF TypeOK
<1>9. CASE FactorsStep /\ i' = i /\ pc \in {"factor", "power"} /\ pc' \in {"factor", "power", "factored"}
  <2>1. /\ pc = "factor" => /\ Trying(Target, factors, value, dividend)
                           /\ Halved(Target, value, dividend)
        /\ pc = "power" => /\ Dividing(Target, factors, value, dividend)
                          /\ Halves(Target, value, dividend)
        /\ pc' = "power" => Dividing(Target, factors, value, dividend)'
    BY <1>9 DEF IInv, FactorsInv, Sizes
  <2>2. i = 1 \/ i = 2
    BY <1>9 DEF IInv, FactorsInv
  <2>3. Target \in Nat /\ Target <= INT32_MAX /\ Target' = Target
    <3>1. fn = "find_factors" => i = 1
      BY <1>9 DEF IInv, FactorsInv
    <3>2. Target' = Target
      BY <1>1, <1>9 DEF Target
    <3> QED BY <1>2, <2>2, <3>1, <3>2, TargetSize DEF IInv
  <2>4. PICK n \in Nat, d \in Int32 : n = Target /\ d = dividend
    BY <2>3 DEF TypeOK
  <2>5. PICK l, v, l1, v1, d1 : /\ l = factors /\ v = value
                                /\ l1 = factors' /\ v1 = value' /\ d1 = dividend'
    OBVIOUS
  <2>6. /\ pc = "factor" => Trying(n, l, v, d) /\ Halved(n, v, d)
        /\ pc = "power" => Dividing(n, l, v, d) /\ Halves(n, v, d)
        /\ pc' = "power" => Dividing(n, l1, v1, d1)
        /\ n <= INT32_MAX /\ FactorList(l) /\ v \in Int32
    BY <2>1, <2>3, <2>4, <2>5 DEF TypeOK
  <2>7. Trying(n, l, v, d) /\ l \in Seq(Factor)
    BY <1>9, <2>6 DEF Dividing, Trying
  <2>8. \A x \in Nat : x <= n => x \in Int32
    BY <2>6, Room, Maxima
  <2> DEFINE G == /\ v1 \in Int32 /\ d1 \in Int32 /\ FactorList(l1)
                  /\ pc' = "factor" => Halved(n, v1, d1)
                  /\ pc' = "power" => Halves(n, v1, d1)
  <2>9. ASSUME FactorFound PROVE G
    <3>1. /\ Divides(d, v) /\ v # 1 /\ v1 = v \div d /\ d1 = d /\ l1 = Append(l, One(d))
          /\ pc = "factor" /\ pc' = "power"
      BY <2>4, <2>5, <2>9 DEF FactorFound, Found, One, Goto
    <3>2. Halves(n, v1, d) /\ v1 \in 1 .. n
      BY <2>6, <3>1, HalvesFound
    <3>3. FactorList(l1)
      BY <2>6, <2>7, <3>1, AppendSmall
    <3> QED BY <2>8, <3>1, <3>2, <3>3
  <2>10. ASSUME DivideAgain PROVE G
    <3>1. /\ Divides(d, v) /\ v1 = v \div d /\ d1 = d /\ l1 = [l EXCEPT ![Len(l)].power = @ + 1]
          /\ pc = "power" /\ pc' = "power"
      BY <2>4, <2>5, <2>10 DEF DivideAgain
    <3>2. Halves(n, v1, d) /\ v1 \in 1 .. n
      BY <2>6, <2>7, <3>1, HalvesAgain
    <3>3. Dividing(n, l, v, d) /\ Dividing(n, l1, v1, d)
      BY <2>6, <3>1
    <3>4. FactorList(l1)
      BY <2>6, <3>1, <3>3, AgainSmall
    <3> QED BY <2>8, <3>1, <3>2, <3>4
  <2>11. ASSUME PowerDone PROVE G
    <3>1. v1 = v /\ l1 = l /\ d1 = Advance(d) /\ pc = "power" /\ pc' = "factor"
      BY <2>4, <2>5, <2>11 DEF PowerDone, Goto
    <3>2. v \in Nat /\ d \in Nat /\ d >= 2
      BY <2>7 DEF Trying
    <3>3. Halved(n, v, d1) /\ d1 \in 0 .. INT32_MAX
      BY <2>6, <3>1, <3>2, HalvedAfter
    <3>4. d1 \in Int32
      BY <3>3, Room, Maxima
    <3> QED BY <2>6, <3>1, <3>3, <3>4
  <2>12. ASSUME NoFactor PROVE G
    <3>1. /\ v # 1 /\ ~Divides(d, v) /\ pc = "factor" /\ v1 = v
          /\ IF d > v \div 2 THEN l1 = Append(l, One(v)) /\ pc' = "factored" /\ d1 = d
             ELSE d1 = Advance(d) /\ l1 = l /\ pc' = pc
      BY <2>4, <2>5, <2>12 DEF NoFactor, Found, One, Goto
    <3>2. CASE d > v \div 2
      <4>1. FactorList(l1)
        BY <2>6, <2>7, <3>1, <3>2, AppendSmall
      <4> QED BY <2>6, <3>1, <3>2, <4>1
    <3>3. CASE ~(d > v \div 2)
      <4>1. d1 = Advance(d) /\ l1 = l /\ pc' = "factor"
        BY <3>1, <3>3
      <4>2. Halved(n, v, d1) /\ d1 \in Nat /\ d1 <= v
        BY <2>7, <3>1, <3>3, <4>1, HalvedNext
      <4>3. v \in 1 .. n
        BY <2>7, LeftSize
      <4>4. d1 \in Int32
        BY <2>8, <4>2, <4>3
      <4> QED BY <2>6, <3>1, <4>1, <4>2, <4>4
    <3> QED BY <3>2, <3>3
  <2>13. ASSUME OneLeft PROVE G
    <3>1. /\ v = 1 /\ pc' = "factored" /\ v1 = v /\ d1 = d
          /\ l1 = IF l = <<>> THEN Append(l, One(1)) ELSE l
      BY <2>4, <2>5, <2>13 DEF OneLeft, Found, One, Goto
    <3>2. FactorList(Append(l, One(1)))
      BY <2>6, <2>7, <3>1, AppendSmall
    <3> QED BY <2>6, <3>1, <3>2
  <2>14. G
    BY <1>9, <2>9, <2>10, <2>11, <2>12, <2>13 DEF FactorsStep
  <2>15. i' \in Int64
    BY <1>9 DEF TypeOK
  <2>16. Sizes'
    BY <1>6, <2>3, <2>4, <2>5, <2>14
  <2>17. TypeOK'
    BY <1>5, <2>5, <2>14, <2>15
  <2> QED BY <1>3, <2>16, <2>17
<1> QED BY <1>1, <1>7, <1>8, <1>9

-----------------------------------------------------------------------------
(* A list has no more places than its last factor says.                    *)
LEMMA PlacesSize ==
  ASSUME NEW l, Factored(l), FactorList(l), NEW j \in 1 .. Len(l), NEW j1, j1 = j + 1
  PROVE  j1 \in Int64
<1>1. l \in Seq(Factor) /\ Ascending(l) /\ DOMAIN l = 1 .. Len(l) /\ Len(l) \in Nat
  BY DEF Factored
<1>2. j <= l[j].factor
  BY <1>1, PlaceInList
<1>3. l[j].factor \in Int32
  BY <1>1 DEF FactorList
<1>4. j <= INT32_MAX
  BY <1>1, <1>2, <1>3, Room, Maxima
<1> QED BY <1>4, Room, Maxima

(* A list some of whose powers are taken away.                             *)
LEMMA LessenedSmall ==
  ASSUME NEW l, Factored(l), FactorList(l), NEW j \in 1 .. Len(l), NEW n \in Nat, n <= l[j].power,
         NEW t, t = Lessened(l, j, n)
  PROVE  FactorList(t) /\ Expand(t) \in Nat /\ Expand(t) <= Expand(l)
<1>1. l \in Seq(Factor) /\ DOMAIN l = 1 .. Len(l) /\ Len(l) \in Nat
  BY DEF Factored
<1>2. /\ Factored(t) /\ Len(t) = Len(l)
      /\ \A k \in 1 .. Len(l) : t[k].factor = l[k].factor /\ (k # j => t[k] = l[k])
      /\ t[j].power = l[j].power - n
      /\ Expand(l) = Expand(t) * Power(l[j].factor, n)
  BY LessenedIs
<1>3. t \in Seq(Factor) /\ DOMAIN t = 1 .. Len(l)
  BY <1>1, <1>2 DEF Factored
<1>4. l[j] \in [factor : Int32, power : 0 .. INT32_MAX] /\ t[j] \in Factor
  BY <1>1, <1>3 DEF FactorList
<1>5. t[j].power \in 0 .. INT32_MAX
  BY <1>2, <1>4, Maxima
<1>6. t[j] \in [factor : Int32, power : 0 .. INT32_MAX]
  <2>1. t[j] = [factor |-> t[j].factor, power |-> t[j].power]
    BY <1>4 DEF Factor
  <2>2. t[j].factor \in Int32
    BY <1>2, <1>4
  <2> QED BY <1>5, <2>1, <2>2
<1>7. FactorList(t)
  BY <1>1, <1>2, <1>3, <1>6 DEF FactorList
<1>8. Expand(t) \in Nat \ {0}
  BY <1>3, ExpandPositive
<1>9. Power(l[j].factor, n) \in Nat \ {0}
  <2>1. l[j].factor \in Nat \ {0}
    BY <1>1, PowersOf
  <2> QED BY <2>1, PowerPositive
<1>10. PICK x \in Nat \ {0}, y \in Nat \ {0} : x = Expand(t) /\ y = Power(l[j].factor, n)
  BY <1>8, <1>9
<1>11. x <= x * y
  OBVIOUS
<1> QED BY <1>2, <1>7, <1>8, <1>10, <1>11

LEMMA FractionTypes ==
  ASSUME TInv, IInv', Fractions
  PROVE  TInv'
<1> USE DEF TInv
<1>1. /\ fn = "reduce_fraction" /\ fn' = fn /\ args' = args
      /\ a' = a /\ b' = b /\ euclid' = euclid
      /\ \/ OtherList /\ pc' \in {"factor", "factored"}
         \/ StartReduce /\ pc' \in {"reduce", "done"}
         \/ CommonFactor /\ pc = "reduce" /\ pc' = "reduce"
         \/ OtherFactor /\ pc = "reduce" /\ pc' = "reduce"
         \/ Reduced /\ pc = "reduce" /\ pc' = "done"
  BY DEF Fractions, OtherList, StartFactors, StartReduce, CommonFactor, OtherFactor, Reduced,
         Merging, call, gcdvars, Goto, At, IInv, Control, Called
<1>2. Limits'
  BY <1>1, LimitsKeep
<1>3. Int64' = Int64 /\ Int32' = Int32
  BY DEF Int64, Int32, INT64_MIN
<1>4. args \in (0 .. INT32_MAX) \X (0 .. INT32_MAX)
  BY <1>1 DEF Limits
<1>5. PICK x \in Nat, y \in Nat : x = args[1] /\ y = args[2] /\ x <= INT32_MAX /\ y <= INT32_MAX
  BY <1>4, Maxima
<1>6. ASSUME {i', acc'} \subseteq Int64, {value', dividend'} \subseteq Int32,
             FactorList(factors'), FactorList(other'),
             fraction' = <<>> \/ fraction' \in Int32 \X Int32
      PROVE TypeOK'
  <2>1. pc' \in {"start", "fold", "gcd", "gcd_done", "euclid", "factor", "power", "factored",
                 "reduce", "done", "refused", "trapped", "internal_error"}
    BY <1>1
  <2>2. FactorList(factors)' /\ FactorList(other)'
    BY <1>3, <1>6 DEF FactorList
  <2> QED BY <1>1, <1>3, <1>6, <2>1, <2>2 DEF TypeOK
<1>7. CASE OtherList /\ pc' \in {"factor", "factored"}
  <2>1. other' = factors /\ i' = 2 /\ StartFactors(args[2]) /\ acc' = acc /\ fraction' = fraction
    BY <1>7 DEF OtherList
  <2>2. /\ {value', dividend'} \subseteq Int32 /\ FactorList(factors')
        /\ pc' \in {"factor", "factored"} /\ dividend' = 2
    <3>1. y \in Int /\ Abs(y) <= INT32_MAX
      BY <1>5 DEF Abs
    <3>2. y # INT32_MIN
      BY <1>5, Maxima DEF INT32_MIN
    <3> QED BY <1>5, <2>1, <3>1, <3>2, StartFactorsTypes
  <2>3. 2 \in Int64
    BY Room, Maxima
  <2>4. TypeOK'
    BY <1>6, <2>1, <2>2, <2>3 DEF TypeOK
  <2>5. Sizes'
    BY <1>1, <2>2 DEF Sizes, Halved
  <2> QED BY <1>2, <2>4, <2>5
<1>8. CASE StartReduce /\ pc' \in {"reduce", "done"}
  <2>1. /\ i = 2 /\ pc = "factored" /\ i' = 1 /\ acc' = 1
        /\ value' = value /\ dividend' = dividend /\ factors' = factors /\ other' = other
        /\ IF 0 \in {args[1], args[2]} THEN fraction' = args /\ pc' = "done"
           ELSE pc' = "reduce" /\ fraction' = fraction
    BY <1>8 DEF StartReduce, At, Goto, facvars
  <2>2. args \in Int32 \X Int32
    <3>1. x \in Int32 /\ y \in Int32
      BY <1>5, Room, Maxima
    <3>2. args = <<x, y>>
      BY <1>4, <1>5
    <3> QED BY <3>1, <3>2
  <2>3. 1 \in Int64
    BY Room, Maxima
  <2>4. fraction' = <<>> \/ fraction' \in Int32 \X Int32
    BY <2>1, <2>2 DEF TypeOK
  <2>5. TypeOK'
    BY <1>6, <2>1, <2>3, <2>4 DEF TypeOK
  <2>6. pc' = "reduce" => Expand(other) = x /\ Expand(factors) = y
    <3>1. Listed(other, x) /\ Listed(factors, y)
      BY <1>5, <2>1 DEF IInv, FactorsInv, Target, Abs
    <3>2. pc' = "reduce" => x # 0 /\ y # 0
      BY <1>5, <2>1
    <3> QED BY <3>1, <3>2 DEF Listed
  <2>7. Sizes'
    <3>1. pc' = "reduce" => Expand(other') <= args'[1] /\ Expand(factors') <= args'[2]
      BY <1>1, <1>5, <2>1, <2>6
    <3>2. fn' = "reduce_fraction"
      BY <1>1
    <3> QED BY <1>8, <3>1, <3>2 DEF Sizes
  <2> QED BY <1>2, <2>5, <2>7
<1>9. PICK l, m, j, h, l1, m1, j1, h1 :
        /\ l = other /\ m = factors /\ j = i /\ h = acc
        /\ l1 = other' /\ m1 = factors' /\ j1 = i' /\ h1 = acc'
  OBVIOUS
<1>10. pc = "reduce" => /\ Factored(l) /\ Factored(m) /\ j \in Nat \ {0} /\ h \in Nat \ {0}
                        /\ FactorList(l) /\ FactorList(m) /\ j \in Int64 /\ h \in Int64
                        /\ Expand(l) \in Nat /\ Expand(l) <= x
                        /\ Expand(m) \in Nat /\ Expand(m) <= y
  <2> SUFFICES ASSUME pc = "reduce"
               PROVE  /\ Factored(l) /\ Factored(m) /\ j \in Nat \ {0} /\ h \in Nat \ {0}
                      /\ FactorList(l) /\ FactorList(m) /\ j \in Int64 /\ h \in Int64
                      /\ Expand(l) \in Nat /\ Expand(l) <= x
                      /\ Expand(m) \in Nat /\ Expand(m) <= y
    OBVIOUS
  <2>1. Factored(l) /\ Factored(m) /\ j \in Nat \ {0} /\ h \in Nat \ {0}
    BY <1>9 DEF IInv, ReduceInv, Reducing
  <2>2. Expand(l) \in Nat \ {0} /\ Expand(m) \in Nat \ {0}
    BY <2>1, ExpandPositive DEF Factored
  <2> QED BY <1>5, <1>9, <2>1, <2>2 DEF TypeOK, Sizes
<1>11. ASSUME Expand(l1) <= x, Expand(m1) <= y, pc' = "reduce" PROVE Sizes'
  BY <1>1, <1>5, <1>9, <1>11 DEF Sizes
<1>12. ASSUME Merging PROVE j \in 1 .. Len(l) /\ h \in 1 .. Len(m)
  <2>1. Len(l) \in Nat /\ Len(m) \in Nat
    BY <1>10, <1>12 DEF Factored, Merging
  <2> QED BY <1>9, <1>10, <1>12, <2>1 DEF Merging
<1>13. ASSUME Merging PROVE j + 1 \in Int64 /\ h + 1 \in Int64
  BY <1>10, <1>12, <1>13, PlacesSize DEF Merging
<1>14. CASE CommonFactor /\ pc = "reduce" /\ pc' = "reduce"
  <2>1. PICK n : n = Smaller(l[j].power, m[h].power)
    OBVIOUS
  <2>2. /\ Merging /\ l1 = Lessened(l, j, n) /\ m1 = Lessened(m, h, n)
        /\ j1 = j + 1 /\ h1 = h + 1
        /\ value' = value /\ dividend' = dividend /\ fraction' = fraction
    BY <1>9, <1>14, <2>1 DEF CommonFactor, Lessened
  <2>3. l[j].power \in Nat /\ m[h].power \in Nat
    BY <1>10, <1>12, <1>14, <2>2, PowersOf DEF Factored
  <2>4. n \in Nat /\ n <= l[j].power /\ n <= m[h].power
    BY <2>1, <2>3 DEF Smaller
  <2>5. FactorList(l1) /\ Expand(l1) \in Nat /\ Expand(l1) <= Expand(l)
    BY <1>10, <1>12, <1>14, <2>2, <2>4, LessenedSmall
  <2>6. FactorList(m1) /\ Expand(m1) \in Nat /\ Expand(m1) <= Expand(m)
    BY <1>10, <1>12, <1>14, <2>2, <2>4, LessenedSmall
  <2>7. Expand(l1) <= x /\ Expand(m1) <= y
    BY <1>5, <1>10, <1>14, <2>5, <2>6
  <2>8. {i', acc'} \subseteq Int64
    BY <1>9, <1>13, <2>2
  <2>9. TypeOK'
    BY <1>6, <1>9, <2>2, <2>5, <2>6, <2>8 DEF TypeOK
  <2> QED BY <1>2, <1>11, <1>14, <2>7, <2>9
<1>15. CASE OtherFactor /\ pc = "reduce" /\ pc' = "reduce"
  <2>1. /\ Merging /\ l1 = l /\ m1 = m
        /\ (j1 = j + 1 /\ h1 = h) \/ (j1 = j /\ h1 = h + 1)
        /\ value' = value /\ dividend' = dividend /\ fraction' = fraction
    BY <1>9, <1>15 DEF OtherFactor, facvars
  <2>2. {i', acc'} \subseteq Int64
    BY <1>9, <1>10, <1>13, <1>15, <2>1
  <2>3. TypeOK'
    BY <1>6, <1>9, <2>1, <2>2 DEF TypeOK
  <2> QED BY <1>2, <1>10, <1>11, <1>15, <2>1, <2>3
<1>16. CASE Reduced /\ pc = "reduce" /\ pc' = "done"
  <2>1. /\ fraction' = <<Expand(l), Expand(m)>> /\ i' = i /\ acc' = acc
        /\ value' = value /\ dividend' = dividend /\ factors' = factors /\ other' = other
    BY <1>9, <1>16 DEF Reduced, facvars
  <2>2. PICK u \in Nat, v \in Nat : u = Expand(l) /\ v = Expand(m) /\ u <= x /\ v <= y
    BY <1>10, <1>16
  <2>3. u \in Int32 /\ v \in Int32
    BY <1>5, <2>2, Room, Maxima
  <2>4. fraction' \in Int32 \X Int32
    BY <2>1, <2>2, <2>3
  <2>5. TypeOK'
    BY <1>6, <2>1, <2>4 DEF TypeOK
  <2>6. Sizes'
    BY <1>1, <1>16 DEF Sizes
  <2> QED BY <1>2, <2>5, <2>6
<1> QED BY <1>1, <1>7, <1>8, <1>14, <1>15, <1>16

LEMMA TypesStutter ==
  ASSUME TInv, IInv', UNCHANGED vars
  PROVE  TInv'
<1>1. /\ fn' = fn /\ args' = args /\ pc' = pc /\ a' = a /\ b' = b /\ i' = i /\ acc' = acc
      /\ euclid' = euclid /\ value' = value /\ dividend' = dividend /\ factors' = factors
      /\ other' = other /\ fraction' = fraction
  BY DEF vars, call, gcdvars, facvars
<1>2. Limits' /\ Sizes'
  BY <1>1 DEF TInv, Limits, Sizes, Target, Int64, INT64_MIN, Halved, Halves
<1>3. TypeOK'
  BY <1>1 DEF TInv, TypeOK, FactorList, Int64, Int32, INT64_MIN
<1> QED BY <1>2, <1>3 DEF TInv

-----------------------------------------------------------------------------
(* The calls with an integer that has no magnitude: the exceptions of the  *)
(* properties.  tms_find_factors goes through all its states here.         *)
Half == INT32_MIN \div 2

LeastFactored ==
  /\ pc \in {"start", "factor", "power", "factored", "done"}
  /\ pc = "factor" => \/ value = INT32_MIN /\ dividend = 2 /\ factors = <<>>
                      \/ value = Half /\ dividend = 3 /\ factors = <<One(2)>>
  /\ pc = "power" => value = Half /\ dividend = 2 /\ factors = <<One(2)>>
  /\ pc \in {"factored", "done"} => factors = <<One(2), One(Half)>>

LeastInverted ==
  /\ pc \in {"start", "gcd", "gcd_done", "refused"}
  /\ pc = "gcd" => a = INT64_MIN /\ b \in 0 .. INT32_MAX
  /\ pc = "gcd_done" => b = INT64_MIN
  /\ args[2] \in Int

LInv == /\ TypeOK
        /\ \/ LeastFactors /\ LeastFactored
           \/ LeastInverse /\ LeastInverted

LEMMA LeastRange ==
  /\ INT32_MIN \in Int32 /\ INT32_MIN \in Int /\ INT32_MIN < 0
  /\ INT64_MIN \in Int64 /\ INT64_MIN \in Int /\ INT64_MIN < 0
BY Maxima DEF Int32, Int64, INT32_MIN, INT64_MIN

(* The half of the least integer is no multiple of 3.                      *)
LEMMA HalfIs ==
  /\ Half \in Int32 /\ Half \in Int /\ Half < 0
  /\ Divides(2, INT32_MIN) /\ ~Divides(3, Half)
<1>1. PICK n \in Nat : INT32_MAX + 1 = Power(2, n)
  BY BitsAssumption, Maxima
<1>2. n # 0
  BY <1>1, Maxima, PowerNext
<1>3. PICK m \in Nat : n = m + 1
  <2>1. n - 1 \in Nat /\ n = (n - 1) + 1
    BY <1>2
  <2> QED BY <2>1
<1>4. PICK k \in Nat \ {0} : k = Power(2, m)
  BY PowerPositive
<1>5. INT32_MAX + 1 = 2 * k
  BY <1>1, <1>3, <1>4, PowerNext
<1>6. INT32_MIN = 2 * (-k) /\ INT32_MIN % 2 = 0 /\ INT32_MIN \div 2 = -k
  <2>1. INT32_MIN = 2 * (-k) + 0
    BY <1>5, Maxima DEF INT32_MIN
  <2> QED BY <2>1
<1>7. ASSUME (-k) % 3 = 0 PROVE FALSE
  <2>1. PICK q \in Int : -k = 3 * q
    <3>1. -k = 3 * ((-k) \div 3) /\ (-k) \div 3 \in Int
      BY <1>7
    <3> QED BY <3>1
  <2>2. Multiple(Power(2, m), 3)
    <3>1. -q \in Int /\ k = 3 * (-q)
      BY <2>1
    <3> QED BY <1>4, <3>1 DEF Multiple
  <2>3. PICK j \in 0 .. m : 3 = Power(2, j)
    BY <2>2, PowerDivisors
  <2>4. j # 0
    BY <2>3, PowerNext
  <2>5. j - 1 \in Nat /\ j = (j - 1) + 1
    BY <2>4
  <2>6. PICK h \in Nat : h = Power(2, j - 1)
    BY <2>5, PowerPositive
  <2>7. 3 = h * 2
    BY <2>3, <2>5, <2>6, PowerNext
  <2> QED BY <2>7
<1> QED BY <1>5, <1>6, <1>7, Maxima DEF Half, Divides, Int32

LEMMA LeastStays ==
  ASSUME fn' = fn, args' = args
  PROVE  (LeastFactors => LeastFactors') /\ (LeastInverse => LeastInverse')
BY DEF LeastFactors, LeastInverse, INT32_MIN, INT64_MIN

(* What a step of such a call leaves within its types.                     *)
LEMMA LeastTypes ==
  ASSUME TypeOK, acc' = acc, euclid' = euclid, other' = other, fraction' = fraction,
         {a', b', i'} \subseteq Int64, {value', dividend'} \subseteq Int32,
         FactorList(factors'),
         pc' \in {"gcd", "gcd_done", "factor", "power", "factored", "done", "refused"}
  PROVE  TypeOK'
<1>1. Int64' = Int64 /\ Int32' = Int32
  BY DEF Int64, Int32, INT64_MIN
<1> QED BY <1>1 DEF TypeOK, FactorList

LEMMA LeastListed ==
  /\ FactorList(<<>>)
  /\ FactorList(<<One(2)>>) /\ FactorList(<<One(2), One(Half)>>)
<1>1. 2 \in Int32 /\ Half \in Int32 /\ 1 \in 0 .. INT32_MAX
  BY HalfIs, Room, Maxima
<1>2. One(2) \in [factor : Int32, power : 0 .. INT32_MAX]
      /\ One(Half) \in [factor : Int32, power : 0 .. INT32_MAX]
  BY <1>1 DEF One
<1> QED BY <1>2 DEF FactorList

(* tms_find_factors of the least integer.                                  *)
LEMMA LeastFactorsKeep ==
  ASSUME TypeOK, LeastFactors, LeastFactored, Next
  PROVE  TypeOK' /\ LeastFactored'
<1>1. fn = "find_factors" /\ args[1] = INT32_MIN
  BY DEF LeastFactors
<1>2. INT32_MIN # 0 /\ INT32_MIN # 1 /\ Half # 1 /\ ~(Half >= 2) /\ 3 > Half \div 2
  BY LeastRange, HalfIs
<1>3. {1, 2, 3} \subseteq Int32 /\ 1 \in Int64
  BY Room, Maxima
<1>4. a' = a /\ b' = b /\ acc' = acc /\ euclid' = euclid /\ other' = other /\ fraction' = fraction
      /\ \/ FindFactors \/ FactorFound \/ DivideAgain \/ PowerDone \/ NoFactor
         \/ OneLeft \/ FactorsReturned
  BY <1>1 DEF Next, Gcd, GcdStep, GcdTrap, Folds, CheckOperands, NextOperand, FoldGcd, FoldLcm,
              Multinv, CheckInverse, NotCoprime, StartEuclid, EuclidStep, EuclidTrap,
              EuclidDone, Factors, FindFactors, FactorFound, DivideAgain, PowerDone, NoFactor,
              OneLeft, FactorsReturned, Fractions, OtherList, StartReduce, CommonFactor,
              OtherFactor, Reduced, Merging, At, LeastFactored, gcdvars
<1>5. CASE FindFactors
  <2>1. /\ value' = INT32_MIN /\ dividend' = 2 /\ factors' = <<>> /\ pc' = "factor" /\ i' = 1
    BY <1>1, <1>2, <1>5 DEF FindFactors, StartFactors, Magnitude, Goto
  <2>2. TypeOK'
    BY <1>3, <1>4, <2>1, LeastTypes, LeastRange, LeastListed DEF TypeOK
  <2> QED BY <2>1, <2>2 DEF LeastFactored, INT32_MIN
<1>6. CASE FactorFound
  <2>1. value = INT32_MIN /\ dividend = 2 /\ factors = <<>>
    BY <1>6, HalfIs DEF FactorFound, LeastFactored
  <2>2. /\ value' = Half /\ dividend' = 2 /\ factors' = <<One(2)>> /\ pc' = "power" /\ i' = i
    BY <1>6, <2>1 DEF FactorFound, Found, Goto, Half, One
  <2>3. TypeOK'
    BY <1>3, <1>4, <2>2, LeastTypes, HalfIs, LeastListed DEF TypeOK
  <2> QED BY <2>2, <2>3 DEF LeastFactored, Half, INT32_MIN
<1>7. ~DivideAgain
  BY <1>2 DEF DivideAgain, LeastFactored
<1>8. CASE PowerDone
  <2>1. /\ value' = Half /\ dividend' = 3 /\ factors' = <<One(2)>> /\ pc' = "factor" /\ i' = i
    BY <1>8 DEF PowerDone, LeastFactored, Advance, Goto
  <2>2. TypeOK'
    BY <1>3, <1>4, <2>1, LeastTypes, HalfIs, LeastListed DEF TypeOK
  <2> QED BY <2>1, <2>2 DEF LeastFactored, Half, INT32_MIN
<1>9. CASE NoFactor
  <2>1. value = Half /\ dividend = 3 /\ factors = <<One(2)>>
    BY <1>9, HalfIs DEF NoFactor, LeastFactored
  <2>2. /\ value' = Half /\ dividend' = 3 /\ factors' = <<One(2), One(Half)>>
        /\ pc' = "factored" /\ i' = i
    BY <1>2, <1>9, <2>1 DEF NoFactor, Found, Goto, One
  <2>3. TypeOK'
    BY <1>3, <1>4, <2>2, LeastTypes, HalfIs, LeastListed DEF TypeOK
  <2> QED BY <2>2, <2>3 DEF LeastFactored, Half, One, INT32_MIN
<1>10. ~OneLeft
  BY <1>2 DEF OneLeft, LeastFactored
<1>11. CASE FactorsReturned
  <2>1. /\ pc = "factored" /\ pc' = "done" /\ factors' = factors /\ value' = value
        /\ dividend' = dividend /\ i' = i
    BY <1>11 DEF FactorsReturned, At, facvars, Goto
  <2>2. TypeOK'
    BY <1>4, <2>1, LeastTypes DEF TypeOK
  <2> QED BY <2>1, <2>2 DEF LeastFactored, Half, One, INT32_MIN
<1> QED BY <1>4, <1>5, <1>6, <1>7, <1>8, <1>9, <1>10, <1>11

(* multinv of the least integer: with a modulus of 0 it is refused, with   *)
(* any other, tms_gcd finds the same two numbers again and again.          *)
LEMMA LeastInverseKeeps ==
  ASSUME TypeOK, LeastInverse, LeastInverted, Next
  PROVE  TypeOK' /\ LeastInverted'
<1>1. fn = "multinv" /\ args[1] = INT64_MIN
  BY DEF LeastInverse
<1>2. GcdStep \/ GcdTrap \/ CheckInverse \/ NotCoprime \/ StartEuclid
  BY <1>1 DEF Next, Gcd, GcdStep, GcdTrap, Folds, CheckOperands, NextOperand, FoldGcd, FoldLcm,
              Multinv, CheckInverse, NotCoprime, StartEuclid, EuclidStep, EuclidTrap,
              EuclidDone, Factors, FindFactors, FactorFound, DivideAgain, PowerDone, NoFactor,
              OneLeft, FactorsReturned, Fractions, OtherList, StartReduce, CommonFactor,
              OtherFactor, Reduced, Merging, At, LeastInverted
<1>3. ~StartEuclid
  <2>1. INT64_MIN # 1
    BY LeastRange
  <2> QED BY <2>1 DEF StartEuclid, At, Coprime, LeastInverted
<1>4. /\ acc' = acc /\ euclid' = euclid /\ other' = other /\ fraction' = fraction /\ i' = i
       /\ factors' = factors /\ value' = value /\ dividend' = dividend /\ args' = args
  BY <1>2, <1>3 DEF GcdStep, GcdTrap, CheckInverse, NotCoprime, facvars, call
<1>5. ASSUME {a', b'} \subseteq Int64, pc' \in {"gcd", "gcd_done", "refused"} PROVE TypeOK'
  BY <1>4, <1>5, LeastTypes DEF TypeOK
<1>6. \A x \in 0 .. INT32_MAX : x \in Int64 /\ x \in Nat
  BY Room, Maxima
<1>7. CASE GcdStep
  <2>1. pc = "gcd" /\ a = INT64_MIN /\ b \in 0 .. INT32_MAX
    BY <1>7 DEF GcdStep, LeastInverted
  <2>2. Smaller(a, b) = INT64_MIN /\ Larger(a, b) = b
    BY <2>1, LeastRange DEF Smaller, Larger
  <2>3. Rest(b, INT64_MIN) = b
    <3>1. Abs(INT64_MIN) = INT64_MAX + 1
      BY Maxima DEF Abs, INT64_MIN
    <3>2. \A n \in Nat, m \in Nat : n < m => n % m = n
      OBVIOUS
    <3> QED BY <1>6, <2>1, <3>1, <3>2, Maxima DEF Rest
  <2>4. a' = INT64_MIN /\ IF b > 0 THEN b' = b /\ pc' = "gcd" ELSE b' = INT64_MIN /\ pc' = "gcd_done"
    BY <1>7, <2>1, <2>2, <2>3 DEF GcdStep, Goto
  <2> QED BY <1>5, <1>6, <1>4, <2>1, <2>4, LeastRange DEF LeastInverted, INT64_MIN
<1>8. ~GcdTrap
  <2> SUFFICES ASSUME GcdTrap PROVE FALSE
    OBVIOUS
  <2>1. pc = "gcd" /\ Smaller(a, b) = 0 /\ a = INT64_MIN /\ b \in 0 .. INT32_MAX
    BY DEF GcdTrap, LeastInverted
  <2> QED BY <1>6, <2>1, LeastRange DEF Smaller
<1>9. CASE CheckInverse
  <2>1. CASE OutOfRange(args[1], args[2])
    <3>1. pc' = "refused" /\ a' = a /\ b' = b
      BY <1>9, <2>1 DEF CheckInverse, gcdvars, Goto
    <3> QED BY <1>5, <1>4, <3>1 DEF LeastInverted, TypeOK
  <2>2. CASE ~OutOfRange(args[1], args[2])
    <3>1. args[2] \in Int
      BY DEF LeastInverted
    <3>2. args[2] \in 0 .. INT32_MAX
      BY <2>2, <3>1, Maxima DEF OutOfRange
    <3>3. a' = INT64_MIN /\ b' = args[2] /\ pc' = "gcd"
      BY <1>1, <1>6, <1>9, <2>2, <3>2, LeastRange DEF CheckInverse, CallGcd, Magnitude, Abs, Goto
    <3> QED BY <1>5, <1>6, <1>4, <3>1, <3>2, <3>3, LeastRange DEF LeastInverted, INT64_MIN
  <2> QED BY <2>1, <2>2
<1>10. CASE NotCoprime
  <2>1. pc' = "refused" /\ a' = a /\ b' = b
    BY <1>10 DEF NotCoprime, gcdvars, Goto
  <2> QED BY <1>5, <1>4, <2>1 DEF LeastInverted, TypeOK
<1> QED BY <1>2, <1>7, <1>8, <1>9, <1>10, <1>3

LEMMA LeastStutters ==
  ASSUME LInv, UNCHANGED vars
  PROVE  LInv'
<1>1. /\ fn' = fn /\ args' = args /\ pc' = pc /\ a' = a /\ b' = b /\ i' = i /\ acc' = acc
      /\ euclid' = euclid /\ value' = value /\ dividend' = dividend /\ factors' = factors
      /\ other' = other /\ fraction' = fraction
  BY DEF vars, call, gcdvars, facvars
<1>2. TypeOK'
  BY <1>1 DEF LInv, TypeOK, FactorList, Int64, Int32, INT64_MIN
<1>3. (LeastFactored => LeastFactored') /\ (LeastInverted => LeastInverted')
  BY <1>1 DEF LeastFactored, LeastInverted, Half, INT32_MIN, INT64_MIN
<1> QED BY <1>1, <1>2, <1>3, LeastStays DEF LInv

LEMMA LeastKeeps ==
  ASSUME LInv, Next
  PROVE  LInv'
<1>1. fn' = fn /\ args' = args
  BY DEF Next, Gcd, GcdStep, GcdTrap, Folds, CheckOperands, NextOperand, FoldGcd, FoldLcm,
         Multinv, CheckInverse, NotCoprime, StartEuclid, EuclidStep, EuclidTrap,
         EuclidDone, Factors, FindFactors, FactorFound, DivideAgain, PowerDone, NoFactor,
         OneLeft, FactorsReturned, Fractions, OtherList, StartReduce, CommonFactor,
         OtherFactor, Reduced, call
<1>2. CASE LeastFactors /\ LeastFactored
  BY <1>1, <1>2, LeastFactorsKeep, LeastStays DEF LInv
<1>3. CASE LeastInverse /\ LeastInverted
  BY <1>1, <1>3, LeastInverseKeeps, LeastStays DEF LInv
<1> QED BY <1>2, <1>3 DEF LInv

LEMMA InitLeast ==
  ASSUME Init, LeastInverse \/ LeastFactors
  PROVE  LInv
<1>1. pc = "start"
  BY DEF Init
<1>2. TypeOK
  BY InitTypes
<1>3. LeastFactored
  BY <1>1 DEF LeastFactored
<1>4. LeastInverse => LeastInverted
  <2> SUFFICES ASSUME LeastInverse PROVE args[2] \in Int
    BY <1>1 DEF LeastInverted
  <2>1. PICK c \in Calls : fn = c.fn /\ args = c.args
    BY DEF Init
  <2>2. c \in [fn : {"multinv"}, args : {<<x, m>> : x \in Values, m \in Moduli}]
    BY <2>1 DEF Calls, LeastInverse
  <2>3. PICK x \in Values, m \in Moduli : args = <<x, m>>
    BY <2>1, <2>2
  <2> QED BY <2>3, NumTheoryAssumption
<1> QED BY <1>2, <1>3, <1>4 DEF LInv

LEMMA LeastAnswers ==
  ASSUME LInv
  PROVE  AnswersCorrect
<1>1. CASE LeastFactors /\ LeastFactored
  BY <1>1 DEF LeastFactors, LeastFactored, AnswersCorrect, At, GcdCorrect, LcmCorrect,
              InverseCorrect, FactorsCorrect, FractionReduced, TrapsKnown, One, Half
<1>2. CASE LeastInverse /\ LeastInverted
  BY <1>2 DEF LeastInverse, LeastInverted, AnswersCorrect, At, GcdCorrect, LcmCorrect,
              InverseCorrect, FactorsCorrect, FractionReduced, TrapsKnown
<1> QED BY <1>1, <1>2 DEF LInv

-----------------------------------------------------------------------------
(* A call of any other numbers: types, sizes and what was found out so far *)
(* hold together, since tms_gcd needs numbers that have a magnitude.       *)
LEMMA OthersKeep ==
  ASSUME TInv, [Next]_vars
  PROVE  TInv'
<1>1. NoLeast
  BY DEF TInv, Limits, Sizes, NoLeast
<1>2. IInv'
  BY <1>1, IInvStutters, GcdPart, FoldsPart, MultinvPart, FactorsPart, FractionsPart
     DEF Next, TInv
<1> QED BY <1>2, TypesStutter, GcdTypes, FoldTypes, MultinvTypes, FactorTypes, FractionTypes
        DEF Next

(* The invariant holds at the call and is kept by every round of every     *)
(* loop.                                                                   *)
LEMMA NumTheoryInv == Spec => [](TInv \/ LInv)
<1>1. Init => TInv \/ LInv
  BY InitTInv, InitLeast
<1>2. (TInv \/ LInv) /\ [Next]_vars => (TInv \/ LInv)'
  BY OthersKeep, LeastKeeps, LeastStutters
<1> QED BY <1>1, <1>2, PTL DEF Spec

(* Every answer is the right one: the greatest common divisor, the least   *)
(* common multiple unless it is too large, the inverse if there is one,    *)
(* the prime factors in ascending order, the fraction without a common     *)
(* divisor; and only the arguments whose answer needs no loop stop the     *)
(* program by a division by zero.  So the rounds of tms_gcd, the folds of  *)
(* _tms_gcd and _tms_lcm, the columns of _tms_multinv, the trial divisions *)
(* of tms_find_factors and the merge of tms_reduce_fraction do what they   *)
(* are for.  The least integers are among the arguments; two calls with    *)
(* them are the exceptions AnswersCorrect names: multinv of INT64_MIN,     *)
(* never answered, and tms_find_factors of INT32_MIN, whose list is 2 and  *)
(* a negative number.                                                      *)
THEOREM NumTheoryAnswers == Spec => []AnswersCorrect
<1>1. TInv \/ LInv => AnswersCorrect
  BY LeastAnswers DEF TInv, IInv
<1> QED BY <1>1, NumTheoryInv, PTL

(* Every local variable stays within its integer type, whatever integers   *)
(* of their types the arguments are, the least ones included: the absolute *)
(* values tms_gcd is called with, products in _tms_lcm, the int columns of *)
(* _tms_multinv, the dividend of tms_find_factors that goes on past the    *)
(* factors found, the powers counted in it, the places of the merge and    *)
(* both parts of the fraction of tms_reduce_fraction.  Negations wrap in   *)
(* the model, and still tms_gcd is given INT64_MIN by multinv alone: an    *)
(* int64_t as wide as the mask has room for it, but _tms_lcm never makes   *)
(* it, since it is a power of two.                                         *)
THEOREM NumTheoryTypes == Spec => []TypeOK
<1>1. TInv \/ LInv => TypeOK
  BY DEF TInv, LInv
<1> QED BY <1>1, NumTheoryInv, PTL
=============================================================================
