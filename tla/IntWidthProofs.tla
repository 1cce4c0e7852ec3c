--------------------------- MODULE IntWidthProofs ---------------------------
(***************************************************************************)
(* Proofs about IntWidth, for every even width of a variable from 4 bits   *)
(* on and every mask whose width is a power of two.                        *)
(*                                                                         *)
(* The argument rests on one correspondence: the bits of an integer below  *)
(* position n (Low) determine it modulo 2^n, and are determined by it      *)
(* (SameLow, ValueOfLow, LowOfValue).  Truncation to a variable, ~ and     *)
(* sign extension each do one thing to these bits, and a sum, difference   *)
(* or product needs no others; so what is seen through the mask after an   *)
(* operation depends on what was seen through it before (Right), and the   *)
(* library implements the machine.  The signed operations rest on the      *)
(* other half: among the integers with the same bits under the mask one is *)
(* a value of its width, and sign extension finds it.                      *)
(***************************************************************************)
EXTENDS IntWidth, FiniteSetTheorems, NaturalsInduction, WellFoundedInduction, TLAPS

(* A set of numbers has a least one. *)
LEMMA Least ==
  ASSUME NEW S \in SUBSET Nat, S # {}
  PROVE  \E n \in S : \A k \in S : n <= k
<1> DEFINE R == {ss \in Nat \X Nat : ss[1] < ss[2]}
<1>1. IsWellFoundedOn(R, Nat)
  BY NatLessThanWellFounded DEF OpToRel
<1>2. \E x \in S : \A y \in S : <<y, x>> \notin R
  <2> HIDE DEF R
  <2> QED BY <1>1, WFMin
<1>3. PICK x \in S : \A y \in S : <<y, x>> \notin R
  BY <1>2
<1>4. ASSUME NEW k \in S PROVE x <= k
  <2>1. <<k, x>> \notin R
    BY <1>3
  <2>2. ~(k < x)
    BY <2>1
  <2> QED BY <2>2
<1> QED BY <1>4

(* Induction over the natural numbers, without an operator as a parameter. *)
LEMMA SetInduction ==
  ASSUME NEW S \in SUBSET Nat, 0 \in S, \A n \in S : n + 1 \in S
  PROVE  S = Nat
<1> SUFFICES ASSUME Nat \ S # {} PROVE FALSE
  OBVIOUS
<1>1. PICK n \in Nat \ S : \A k \in Nat \ S : n <= k
  BY Least
<1>2. n # 0 /\ n - 1 \in Nat /\ n - 1 \notin Nat \ S
  BY <1>1
<1>3. (n - 1) + 1 \in S
  BY <1>2
<1> QED BY <1>1, <1>3

(* A recursive function over the first numbers exists, whatever its step.  *)
Recurs(f, c, g, m) == \A k \in 0 .. m : f[k] = IF k = 0 THEN c ELSE g[<<k, f[k - 1]>>]

(* Any first value and any step define a function over 0 .. m.             *)
LEMMA Recursion ==
  ASSUME NEW T, NEW c \in T, NEW g \in [Nat \X T -> T], NEW m \in Nat
  PROVE  \E f \in [0 .. m -> T] : Recurs(f, c, g, m)
<1> DEFINE Ok(f, n) == \A k \in 0 .. n : f[k] = IF k = 0 THEN c ELSE g[<<k, f[k - 1]>>]
           S == {n \in Nat : \E f \in [0 .. n -> T] : Ok(f, n)}
<1>1. 0 \in S
  <2> DEFINE f == [k \in 0 .. 0 |-> c]
  <2>1. f \in [0 .. 0 -> T] /\ Ok(f, 0)
    OBVIOUS
  <2> QED BY <2>1
<1>2. ASSUME NEW n \in S PROVE n + 1 \in S
  <2>1. PICK f \in [0 .. n -> T] : Ok(f, n)
    BY <1>2
  <2>2. f[n] \in T /\ n + 1 \in Nat
    OBVIOUS
  <2>3. g[<<n + 1, f[n]>>] \in T
    BY <2>2
  <2> DEFINE h == [k \in 0 .. n + 1 |-> IF k = n + 1 THEN g[<<n + 1, f[n]>>] ELSE f[k]]
  <2>4. h \in [0 .. n + 1 -> T]
    BY <2>3
  <2>5. ASSUME NEW k \in 0 .. n + 1 PROVE h[k] = IF k = 0 THEN c ELSE g[<<k, h[k - 1]>>]
    <3>1. CASE k = n + 1
      <4>1. n \in 0 .. n + 1 /\ h[n] = f[n] /\ k - 1 = n /\ k # 0
        BY <3>1
      <4> QED BY <3>1, <4>1
    <3>2. CASE k # n + 1
      <4>1. k \in 0 .. n /\ h[k] = f[k]
        BY <3>2
      <4>2. f[k] = IF k = 0 THEN c ELSE g[<<k, f[k - 1]>>]
        BY <2>1, <4>1
      <4>3. k # 0 => k - 1 \in 0 .. n + 1 /\ k - 1 # n + 1 /\ h[k - 1] = f[k - 1]
        BY <3>2
      <4> QED BY <4>1, <4>2, <4>3
    <3> QED BY <3>1, <3>2
  <2> HIDE DEF h
  <2>6. Ok(h, n + 1)
    BY <2>5
  <2> QED BY <2>2, <2>4, <2>6
<1> HIDE DEF S
<1>3. S \in SUBSET Nat
  BY DEF S
<1>4. S = Nat
  BY <1>1, <1>2, <1>3, SetInduction
<1> QED BY <1>4 DEF S, Recurs

-----------------------------------------------------------------------------
(* What the assumption says of the width of a variable and of an int.      *)
LEMMA Widths == /\ Bits \in Nat /\ Bits >= 4 /\ Bits - 1 \in 0 .. Bits
                /\ IntBits \in 2 .. Bits - 2 /\ 2 * IntBits = Bits
BY IntWidthAssumption DEF IntBits

(* The powers of two are the function their definition recurs to.          *)
LEMMA Pow2Is ==
  /\ Pow2[0] = 1
  /\ \A n \in 0 .. Bits : Pow2[n] \in Nat \ {0}
  /\ \A n \in 0 .. Bits - 1 : Pow2[n + 1] = 2 * Pow2[n]
<1> DEFINE Body(f) == [n \in 0 .. Bits |-> IF n = 0 THEN 1 ELSE 2 * f[n - 1]]
<1>1. \E f : f = Body(f)
  <2> DEFINE g == [x \in Nat \X Nat |-> 2 * x[2]]
  <2>1. g \in [Nat \X Nat -> Nat]
    OBVIOUS
  <2> HIDE DEF g
  <2>2. PICK f \in [0 .. Bits -> Nat] : Recurs(f, 1, g, Bits)
    <3>1. 1 \in Nat /\ Bits \in Nat
      BY Widths
    <3> QED BY <2>1, <3>1, Recursion
  <2>3. ASSUME NEW k \in 0 .. Bits PROVE f[k] = IF k = 0 THEN 1 ELSE 2 * f[k - 1]
    <3>1. k # 0 => k - 1 \in 0 .. Bits /\ k \in Nat
      BY Widths
    <3>2. k # 0 => g[<<k, f[k - 1]>>] = 2 * f[k - 1]
      BY <3>1 DEF g
    <3> QED BY <2>2, <3>2 DEF Recurs
  <2>4. f = Body(f)
    BY <2>3
  <2> QED BY <2>4
<1>2. Pow2 = CHOOSE f : f = Body(f)
  BY DEF Pow2
<1>3. Pow2 = Body(Pow2)
  BY <1>1, <1>2
<1>4. \A n \in 0 .. Bits : Pow2[n] = IF n = 0 THEN 1 ELSE 2 * Pow2[n - 1]
  BY <1>3
<1> HIDE DEF Body
<1> DEFINE S == {n \in Nat : n <= Bits => Pow2[n] \in Nat \ {0}}
<1>5. 0 \in S
  BY <1>4, Widths
<1>6. ASSUME NEW n \in S PROVE n + 1 \in S
  <2> SUFFICES ASSUME n + 1 <= Bits PROVE Pow2[n + 1] \in Nat \ {0}
    OBVIOUS
  <2>1. n \in 0 .. Bits /\ n + 1 \in 0 .. Bits /\ (n + 1) - 1 = n /\ n + 1 # 0
    BY Widths
  <2>2. Pow2[n + 1] = 2 * Pow2[n]
    BY <1>4, <2>1
  <2> QED BY <1>6, <2>1, <2>2
<1> HIDE DEF S
<1>7. S \in SUBSET Nat
  BY DEF S
<1>8. S = Nat
  BY <1>5, <1>6, <1>7, SetInduction
<1>9. \A n \in 0 .. Bits : Pow2[n] \in Nat \ {0}
  BY <1>8, Widths DEF S
<1>10. ASSUME NEW n \in 0 .. Bits - 1 PROVE Pow2[n + 1] = 2 * Pow2[n]
  <2>1. n + 1 \in 0 .. Bits /\ (n + 1) - 1 = n /\ n + 1 # 0
    BY Widths
  <2> QED BY <1>4, <2>1
<1>11. Pow2[0] = 1
  BY <1>4, Widths
<1> QED BY <1>9, <1>10, <1>11

-----------------------------------------------------------------------------
(* Widths are less than what they can hold.                                *)
LEMMA Pow2Above == \A n \in 0 .. Bits : n < Pow2[n] /\ (n >= 3 => n + 2 <= Pow2[n])
<1> DEFINE S == {n \in Nat : n <= Bits => n < Pow2[n] /\ (n >= 3 => n + 2 <= Pow2[n])}
<1>1. 0 \in S
  BY Pow2Is
<1>2. ASSUME NEW n \in S PROVE n + 1 \in S
  <2> SUFFICES ASSUME n + 1 <= Bits
               PROVE  n + 1 < Pow2[n + 1] /\ (n + 1 >= 3 => n + 3 <= Pow2[n + 1])
    OBVIOUS
  <2>1. n \in 0 .. Bits - 1 /\ n \in 0 .. Bits
    BY Widths
  <2>2. PICK p \in Nat \ {0} : p = Pow2[n] /\ Pow2[n + 1] = 2 * p
    BY <2>1, Pow2Is
  <2>3. n < p /\ (n >= 3 => n + 2 <= p)
    BY <1>2, <2>1, <2>2
  <2> QED BY <2>2, <2>3
<1> HIDE DEF S
<1>3. S \in SUBSET Nat
  BY DEF S
<1>4. S = Nat
  BY <1>1, <1>2, <1>3, SetInduction
<1> QED BY <1>4, Widths DEF S

(* INT64_MIN and INT64_MAX, and the power of two that is one too large.    *)
LEMMA Limits ==
  /\ MIN \in Int /\ MAX \in Int /\ MIN = -MAX - 1 /\ MAX >= Bits + 1
  /\ Pow2[Bits] \in Nat \ {0} /\ Pow2[Bits] = 2 * (MAX + 1) /\ Pow2[Bits - 1] = MAX + 1
<1>1. Pow2[Bits - 1] \in Nat \ {0} /\ Pow2[Bits] \in Nat \ {0}
  BY Widths, Pow2Is
<1>2. Pow2[Bits] = 2 * Pow2[Bits - 1]
  <2>1. Bits - 1 \in 0 .. Bits - 1 /\ (Bits - 1) + 1 = Bits
    BY Widths
  <2> QED BY <2>1, Pow2Is
<1>3. Bits + 1 <= Pow2[Bits - 1]
  <2>1. Bits - 1 \in 0 .. Bits /\ Bits - 1 >= 3 /\ (Bits - 1) + 2 = Bits + 1
    BY Widths
  <2> QED BY <2>1, Pow2Above
<1>4. Bits + 2 <= Pow2[Bits - 1]
  <2>1. PICK n \in Nat : n = Bits - 2 /\ n >= 2
    BY Widths
  <2>2. n \in 0 .. Bits - 1 /\ n \in 0 .. Bits /\ n + 1 = Bits - 1 /\ n < Pow2[n]
    BY <2>1, Widths, Pow2Above
  <2>3. PICK p \in Nat : p = Pow2[n]
    BY <2>2, Pow2Is
  <2>4. Pow2[Bits - 1] = 2 * p
    BY <2>2, <2>3, Pow2Is
  <2>5. n >= 3 => n + 2 <= p
    BY <2>2, <2>3, Pow2Above
  <2>6. n = 2 => p = 4
    <3>1. 0 \in 0 .. Bits - 1 /\ 1 \in 0 .. Bits - 1 /\ 0 + 1 = 1 /\ 1 + 1 = 2
      BY Widths
    <3>2. Pow2[1] = 2 /\ Pow2[2] = 4
      BY <3>1, Pow2Is
    <3> QED BY <2>3, <3>2
  <2>7. Bits = n + 2
    BY <2>1, Widths
  <2> QED BY <2>1, <2>3, <2>4, <2>5, <2>6, <2>7
<1>5. PICK p \in Nat \ {0} : p = Pow2[Bits - 1]
  BY <1>1
<1>6. MIN = -p /\ MAX = p - 1
  BY <1>5 DEF MIN, MAX
<1>7. Bits \in Nat
  BY Widths
<1> QED BY <1>1, <1>2, <1>4, <1>5, <1>6, <1>7

(* Truncation to a variable keeps it in range, and values in range alone.  *)
LEMMA WrapRange ==
  ASSUME NEW x \in Int
  PROVE  /\ Wrap(x) \in MIN .. MAX
         /\ \E q \in Int : x = Wrap(x) + q * Pow2[Bits]
<1>1. PICK m \in Nat \ {0} : m = MAX + 1 /\ Pow2[Bits] = 2 * m /\ Pow2[Bits - 1] = m
                             /\ MIN = -m
  BY Limits, Widths
<1>2. PICK y \in Int, p \in Nat \ {0} : y = x + m /\ p = 2 * m
  BY <1>1
<1>3. y % p \in 0 .. p - 1 /\ y = p * (y \div p) + (y % p) /\ y \div p \in Int
  OBVIOUS
<1>4. Wrap(x) = (y % p) - m
  BY <1>1, <1>2 DEF Wrap
<1>5. PICK r \in Int, q \in Int : r = y % p /\ q = y \div p
  BY <1>3
<1>6. y = p * q + r /\ r \in 0 .. p - 1
  BY <1>3, <1>5
<1>7. PICK z \in Int : z = p * q /\ z = q * p
  OBVIOUS
<1>8. x = (r - m) + z
  BY <1>2, <1>6, <1>7
<1>9. r - m \in -m .. m - 1
  BY <1>2, <1>6
<1>10. Wrap(x) = r - m /\ p = Pow2[Bits] /\ -m = MIN /\ m - 1 = MAX
  BY <1>1, <1>2, <1>4, <1>5, Limits
<1> QED BY <1>7, <1>8, <1>9, <1>10

(* A number of the width of a variable is stored as it is.                 *)
LEMMA WrapSame ==
  ASSUME NEW x \in MIN .. MAX
  PROVE  Wrap(x) = x
<1>1. PICK m \in Nat \ {0} : m = MAX + 1 /\ Pow2[Bits] = 2 * m /\ Pow2[Bits - 1] = m
                             /\ MIN = -m
  BY Limits, Widths
<1>2. MAX = m - 1
  BY <1>1, Limits
<1>4. x \in Int /\ x + m \in 0 .. 2 * m - 1
  BY <1>1, <1>2
<1>3. (x + m) % (2 * m) = x + m
  BY <1>4
<1> QED BY <1>1, <1>3, <1>4 DEF Wrap

(* Numbers that are known to be of the width of a variable.                *)
LEMMA InRange ==
  /\ \A x \in MIN .. MAX : x \in Int
  /\ \A x \in 0 .. Bits + 1 : x \in MIN .. MAX
  /\ \A x \in MIN .. MAX : Flip(x) \in MIN .. MAX
  /\ -1 \in MIN .. MAX
BY Limits, Widths DEF Flip

-----------------------------------------------------------------------------
(* The sums Value is made of.                                              *)
Sums(S, s) == \A n \in 0 .. Bits :
                s[n] = IF n = 0 THEN 0
                       ELSE s[n - 1] + (IF n - 1 \in S THEN Pow2[n - 1] ELSE 0)

(* Value is the last of the sums its definition recurs to.                 *)
LEMMA ValueIs ==
  ASSUME NEW S
  PROVE  \E s : Sums(S, s) /\ Value(S) = s[Bits]
<1> DEFINE Body(f) == [n \in 0 .. Bits |->
                         IF n = 0 THEN 0
                         ELSE f[n - 1] + (IF n - 1 \in S THEN Pow2[n - 1] ELSE 0)]
<1>1. \E f : f = Body(f)
  <2> DEFINE part(n) == IF n - 1 \in S THEN Pow2[n - 1] ELSE 0
             g == [x \in Nat \X Int |-> IF x[1] \in 1 .. Bits THEN x[2] + part(x[1]) ELSE 0]
  <2>1. g \in [Nat \X Int -> Int]
    <3>1. ASSUME NEW n \in 1 .. Bits PROVE part(n) \in Int
      <4>1. n - 1 \in 0 .. Bits
        BY Widths
      <4> QED BY <4>1, Pow2Is
    <3> HIDE DEF part
    <3> QED BY <3>1
  <2> HIDE DEF part
  <2>2. ASSUME NEW n \in 1 .. Bits, NEW y \in Int PROVE g[<<n, y>>] = y + part(n)
    <3>1. <<n, y>> \in Nat \X Int
      BY Widths
    <3> QED BY <3>1
  <2> HIDE DEF g
  <2>3. PICK f \in [0 .. Bits -> Int] : Recurs(f, 0, g, Bits)
    <3>1. 0 \in Int /\ Bits \in Nat
      BY Widths
    <3> QED BY <2>1, <3>1, Recursion
  <2>4. ASSUME NEW k \in 0 .. Bits PROVE f[k] = IF k = 0 THEN 0 ELSE f[k - 1] + part(k)
    <3>1. k # 0 => k - 1 \in 0 .. Bits /\ k \in 1 .. Bits
      BY Widths
    <3>2. k # 0 => f[k - 1] \in Int
      BY <3>1
    <3>3. k # 0 => g[<<k, f[k - 1]>>] = f[k - 1] + part(k)
      BY <2>2, <3>1, <3>2
    <3> QED BY <2>3, <3>3 DEF Recurs
  <2>5. f = Body(f)
    BY <2>4 DEF part
  <2> QED BY <2>5
<1>2. Value(S) = (CHOOSE f : f = Body(f))[Bits]
  BY DEF Value
<1>3. PICK s : s = (CHOOSE f : f = Body(f))
  OBVIOUS
<1>4. s = Body(s)
  BY <1>1, <1>3
<1>5. Sums(S, s)
  BY <1>4 DEF Sums
<1> QED BY <1>2, <1>3, <1>5

(* The sum is below the power of two of what it is made of.                *)
LEMMA SumsBelow ==
  ASSUME NEW S, NEW s, Sums(S, s), NEW n \in 0 .. Bits
  PROVE  s[n] \in 0 .. Pow2[n] - 1
<1> DEFINE T == {k \in Nat : k <= Bits => s[k] \in 0 .. Pow2[k] - 1}
<1>1. 0 \in T
  BY Pow2Is, Widths DEF Sums
<1>2. ASSUME NEW k \in T PROVE k + 1 \in T
  <2> SUFFICES ASSUME k + 1 <= Bits PROVE s[k + 1] \in 0 .. Pow2[k + 1] - 1
    OBVIOUS
  <2>1. k \in 0 .. Bits - 1 /\ k \in 0 .. Bits /\ k + 1 \in 0 .. Bits /\ (k + 1) - 1 = k /\ k + 1 # 0
    BY Widths
  <2>2. PICK p \in Nat \ {0} : p = Pow2[k] /\ Pow2[k + 1] = 2 * p
    BY <2>1, Pow2Is
  <2>3. PICK y \in Int : y = s[k] /\ y \in 0 .. p - 1
    BY <1>2, <2>1, <2>2
  <2>4. s[k + 1] = y + (IF k \in S THEN p ELSE 0)
    BY <2>1, <2>2, <2>3 DEF Sums
  <2>5. s[k + 1] = y + p \/ s[k + 1] = y
    BY <2>3, <2>4
  <2> QED BY <2>2, <2>3, <2>5
<1> HIDE DEF T
<1>3. T \in SUBSET Nat
  BY DEF T
<1>4. T = Nat
  BY <1>1, <1>2, <1>3, SetInduction
<1>5. n \in T /\ n <= Bits
  BY <1>4, Widths
<1> QED BY <1>5 DEF T

(* A set of positions stands for a number below 2^Bits.                    *)
LEMMA ValueRange ==
  ASSUME NEW S
  PROVE  Value(S) \in 0 .. Pow2[Bits] - 1
<1>1. PICK s : Sums(S, s) /\ Value(S) = s[Bits]
  BY ValueIs
<1>2. Bits \in 0 .. Bits
  BY Widths
<1> QED BY <1>1, <1>2, SumsBelow

(* Any set of bits is that of a variable.                                  *)
LEMMA SignedRange == \A S : Signed(S) \in MIN .. MAX
BY ValueRange, WrapRange DEF Signed

-----------------------------------------------------------------------------
(* A division that truncates: the quotient is no larger than the dividend, *)
(* and the remainder is between it and zero.                               *)
LEMMA Division ==
  ASSUME NEW a \in Nat, NEW b \in Nat \ {0}
  PROVE  /\ a \div b \in 0 .. a
         /\ b > 1 /\ a > 0 => a \div b < a
         /\ a - b * (a \div b) \in 0 .. a
<1>1. PICK q \in Int, r \in Int : q = a \div b /\ r = a % b /\ a = b * q + r /\ r \in 0 .. b - 1
  OBVIOUS
<1>2. q >= 0
  <2> SUFFICES ASSUME q <= -1 PROVE FALSE
    BY <1>1
  <2>1. b * q <= -b
    <3>1. b * (q + 1) <= 0
      OBVIOUS
    <3> QED BY <3>1
  <2> QED BY <1>1, <2>1
<1>3. b * q >= q
  BY <1>2
<1>4. b > 1 /\ q > 0 => b * q > q
  OBVIOUS
<1>5. q \in 0 .. a /\ a - b * q \in 0 .. a
  BY <1>1, <1>2, <1>3
<1>6. b > 1 /\ a > 0 => q < a
  BY <1>1, <1>2, <1>4
<1> QED BY <1>1, <1>5, <1>6

(* The quotient of two variables is one, but for the least integer and -1; *)
(* their remainder always is.                                              *)
LEMMA QuotientRange ==
  ASSUME NEW a \in MIN .. MAX, NEW b \in MIN .. MAX, b # 0
  PROVE  /\ ~(a = MIN /\ b = -1) => Quotient(a, b) \in MIN .. MAX
         /\ Remainder(a, b) \in MIN .. MAX
<1>1. PICK m \in Nat : m = MAX /\ MIN = -m - 1
  BY Limits, Widths
<1>2. a \in Int /\ b \in Int /\ a >= -m - 1 /\ a <= m /\ b >= -m - 1 /\ b <= m
  BY <1>1
<1> HIDE DEF MIN, MAX
<1>3. PICK x \in Nat, y \in Nat \ {0} :
        /\ x = Abs(a) /\ y = Abs(b)
        /\ x = IF a < 0 THEN -a ELSE a
        /\ y = IF b < 0 THEN -b ELSE b
  BY <1>2 DEF Abs
<1>4. PICK q \in Int : q = x \div y /\ q \in 0 .. x /\ (y > 1 /\ x > 0 => q < x)
                       /\ x - y * q \in 0 .. x
  <2>1. PICK q \in Int : q = x \div y
    OBVIOUS
  <2>2. x \in Nat /\ y \in Nat \ {0}
    OBVIOUS
  <2>3. /\ x \div y \in 0 .. x
        /\ y > 1 /\ x > 0 => x \div y < x
        /\ x - y * (x \div y) \in 0 .. x
    BY ONLY <2>2, Division
  <2> QED BY <2>1, <2>3
<1>5. Quotient(a, b) = IF (a < 0) = (b < 0) THEN q ELSE -q
  BY <1>3, <1>4 DEF Quotient
<1>6. ASSUME ~(a = MIN /\ b = -1) PROVE Quotient(a, b) \in -m - 1 .. m
  <2>1. CASE y = 1
    <3>1. q <= m + 1 /\ (q = m + 1 => a = -m - 1 /\ (a < 0))
      BY <1>2, <1>3, <1>4
    <3>2. q = m + 1 /\ (a < 0) = (b < 0) => b = -1
      BY <2>1, <1>2, <1>3, <3>1
    <3> QED BY <1>1, <1>4, <1>5, <1>6, <3>1, <3>2
  <2>2. CASE y > 1
    <3>1. q <= m
      BY <1>2, <1>3, <1>4, <2>2
    <3> QED BY <1>4, <1>5, <3>1
  <2> QED BY <2>1, <2>2
<1>7. b * Quotient(a, b) = IF a < 0 THEN -(y * q) ELSE y * q
  <2>1. PICK p \in Int : p = y * q
    OBVIOUS
  <2>2. (-y) * q = -p /\ y * (-q) = -p /\ (-y) * (-q) = p
    BY <2>1
  <2>3. b = y \/ b = -y
    BY <1>2, <1>3
  <2>4. CASE a < 0 /\ b < 0
    BY <1>2, <1>3, <1>5, <2>1, <2>2, <2>4
  <2>5. CASE a < 0 /\ ~(b < 0)
    BY <1>2, <1>3, <1>5, <2>1, <2>2, <2>5
  <2>6. CASE ~(a < 0) /\ b < 0
    BY <1>2, <1>3, <1>5, <2>1, <2>2, <2>6
  <2>7. CASE ~(a < 0) /\ ~(b < 0)
    BY <1>2, <1>3, <1>5, <2>1, <2>2, <2>7
  <2> QED BY <2>4, <2>5, <2>6, <2>7
<1>8. PICK p \in Int : p = y * q
  OBVIOUS
<1>9. Remainder(a, b) = IF a < 0 THEN a + p ELSE a - p
  BY <1>2, <1>7, <1>8 DEF Remainder
<1>10. x - p \in 0 .. x
  BY <1>4, <1>8
<1>11. Remainder(a, b) \in -m - 1 .. m
  BY <1>2, <1>3, <1>9, <1>10
<1> QED BY <1>1, <1>6, <1>11

(* An arithmetic shift to the right stays in range.                        *)
LEMMA ShiftRange ==
  ASSUME NEW a \in MIN .. MAX, NEW p \in Nat \ {0}
  PROVE  a \div p \in MIN .. MAX
<1>1. PICK m \in Nat : m = MAX /\ MIN = -m - 1
  BY Limits, Widths
<1>2. a \in Int /\ a >= -m - 1 /\ a <= m
  BY <1>1
<1>3. PICK q \in Int, r \in Int : q = a \div p /\ r \in 0 .. p - 1 /\ a = p * q + r
  BY <1>2
<1>4. q > m => p * q >= q
  BY <1>1
<1>5. q < -m - 1 => p * q + r <= q
  <2> SUFFICES ASSUME q < 0 PROVE p * q + r <= q
    BY <1>1
  <2>1. (p - 1) * (q + 1) <= 0
    OBVIOUS
  <2>2. (p - 1) * (q + 1) = p * q - q + p - 1
    OBVIOUS
  <2> QED BY <1>3, <2>1, <2>2
<1>6. q \in -m - 1 .. m
  BY <1>2, <1>3, <1>4, <1>5
<1> QED BY <1>1, <1>3, <1>6

-----------------------------------------------------------------------------
(* So does tms_sign_extend.                                                *)
LEMMA SignExtendRange == \A v \in MIN .. MAX : SignExtend(v) \in MIN .. MAX
BY SignedRange DEF SignExtend

(* And so does a variable under the mask.                                  *)
LEMMA MaskedRange == \A v : Masked(v) \in MIN .. MAX
BY SignedRange DEF Masked

(* The powers up to the one asked for.                                     *)
LEMMA Powers ==
  ASSUME NEW a \in MIN .. MAX, NEW b
  PROVE  \E h : /\ Power(a, b) = h[SignExtend(b)]
                /\ \A k \in 0 .. MAX :
                     /\ h[k] \in MIN .. MAX
                     /\ h[k] = IF k = 0 THEN 1 ELSE Wrap(h[k - 1] * SignExtend(a))
<1>1. PICK x \in MIN .. MAX : x = SignExtend(a)
  BY SignExtendRange
<1> DEFINE Body(f) == [k \in 0 .. MAX |-> IF k = 0 THEN 1 ELSE Wrap(f[k - 1] * x)]
           g == [y \in Nat \X (MIN .. MAX) |-> Wrap(y[2] * x)]
<1>2. g \in [Nat \X (MIN .. MAX) -> MIN .. MAX]
  <2>1. ASSUME NEW y \in MIN .. MAX PROVE Wrap(y * x) \in MIN .. MAX
    <3>1. y * x \in Int
      BY InRange
    <3> QED BY <3>1, WrapRange
  <2> QED BY <2>1
<1>3. \A k \in Nat, y \in MIN .. MAX : g[<<k, y>>] = Wrap(y * x)
  OBVIOUS
<1> HIDE DEF g
<1>4. PICK f \in [0 .. MAX -> MIN .. MAX] : Recurs(f, 1, g, MAX)
  <2>1. 1 \in MIN .. MAX /\ MAX \in Nat
    BY Limits, Widths
  <2> QED BY <1>2, <2>1, Recursion
<1>5. ASSUME NEW k \in 0 .. MAX PROVE f[k] = IF k = 0 THEN 1 ELSE Wrap(f[k - 1] * x)
  <2>1. MAX \in Int
    BY Limits
  <2>2. k # 0 => k - 1 \in 0 .. MAX /\ k \in Nat
    BY <2>1
  <2>3. k # 0 => g[<<k, f[k - 1]>>] = Wrap(f[k - 1] * x)
    BY <1>3, <2>2
  <2> QED BY <1>4, <2>3 DEF Recurs
<1>6. f = Body(f)
  BY <1>5
<1>7. PICK h : h = (CHOOSE e : e = Body(e))
  OBVIOUS
<1>8. h = Body(h)
  BY <1>6, <1>7
<1>9. Power(a, b) = h[SignExtend(b)]
  BY <1>1, <1>7 DEF Power
<1>10. \A k \in 0 .. MAX : h[k] = IF k = 0 THEN 1 ELSE Wrap(h[k - 1] * x)
  BY <1>8
<1> HIDE DEF Body
<1> DEFINE S == {k \in Nat : k <= MAX => h[k] \in MIN .. MAX}
<1>11. 0 \in S
  <2>1. 1 \in MIN .. MAX /\ 0 \in 0 .. MAX
    BY Limits, Widths
  <2>2. h[0] = 1
    BY <1>10, <2>1
  <2> QED BY <2>1, <2>2
<1>12. ASSUME NEW k \in S PROVE k + 1 \in S
  <2> SUFFICES ASSUME k + 1 <= MAX PROVE h[k + 1] \in MIN .. MAX
    OBVIOUS
  <2>1. k \in 0 .. MAX /\ k + 1 \in 0 .. MAX /\ (k + 1) - 1 = k /\ k + 1 # 0
    BY Limits
  <2>2. h[k] \in MIN .. MAX /\ h[k] * x \in Int
    <3>1. k <= MAX
      BY <2>1, Limits
    <3>2. h[k] \in MIN .. MAX
      BY <1>12, <3>1
    <3>3. h[k] \in Int /\ x \in Int
      BY <3>2, InRange
    <3> QED BY <3>2, <3>3
  <2>3. h[k + 1] = Wrap(h[k] * x)
    BY <1>10, <2>1
  <2> QED BY <2>2, <2>3, WrapRange
<1> HIDE DEF S
<1>13. S \in SUBSET Nat
  BY DEF S
<1>14. S = Nat
  BY <1>11, <1>12, <1>13, SetInduction
<1>15. \A k \in 0 .. MAX : h[k] \in MIN .. MAX
  <2>1. \A k \in 0 .. MAX : k \in Nat /\ k <= MAX
    BY Limits
  <2> QED BY <1>14, <2>1 DEF S
<1> QED BY <1>1, <1>9, <1>10, <1>15

(* A power by repeated multiplication is in range.                         *)
LEMMA PowerRange ==
  ASSUME NEW a \in MIN .. MAX, NEW b \in MIN .. MAX, SignExtend(b) >= 0
  PROVE  Power(a, b) \in MIN .. MAX
<1>1. SignExtend(b) \in Int /\ SignExtend(b) \in 0 .. MAX
  BY SignExtendRange, Limits
<1> QED BY <1>1, Powers

(* The factors of a factorial, up to the one that does not fit.            *)
LEMMA Products ==
  \E h : /\ \A n : Product(n) = h[n]
         /\ \A k \in 0 .. MAX :
              /\ h[k] \in 0 .. MAX
              /\ k < 2 => h[k] = 1
              /\ k >= 2 => h[k] = IF h[k - 1] * k > MAX THEN 0 ELSE h[k - 1] * k
<1>1. PICK M \in Nat : M = MAX /\ M >= 1
  BY Limits, Widths
<1> DEFINE Step(y, k) == IF y * k > MAX THEN 0 ELSE y * k
           Body(f) == [k \in 0 .. MAX |-> IF k < 2 THEN 1
                         ELSE LET g == f[k - 1] IN IF g * k > MAX THEN 0 ELSE g * k]
           G == [y \in Nat \X (0 .. MAX) |-> IF y[1] < 2 THEN 1 ELSE Step(y[2], y[1])]
<1>2. G \in [Nat \X (0 .. MAX) -> 0 .. MAX]
  <2>1. ASSUME NEW k \in Nat, NEW y \in 0 .. MAX PROVE Step(y, k) \in 0 .. MAX
    <3>1. PICK p \in Nat : p = y * k
      BY <1>1
    <3> QED BY <1>1, <3>1
  <2>2. 1 \in 0 .. MAX
    BY <1>1
  <2> HIDE DEF Step
  <2> QED BY <2>1, <2>2
<1>3. \A k \in Nat, y \in 0 .. MAX : G[<<k, y>>] = IF k < 2 THEN 1 ELSE Step(y, k)
  OBVIOUS
<1> HIDE DEF G
<1>4. PICK f \in [0 .. MAX -> 0 .. MAX] : Recurs(f, 1, G, MAX)
  <2>1. 1 \in 0 .. MAX /\ MAX \in Nat
    BY <1>1
  <2> QED BY <1>2, <2>1, Recursion
<1>5. ASSUME NEW k \in 0 .. MAX PROVE f[k] = IF k < 2 THEN 1 ELSE Step(f[k - 1], k)
  <2>1. k # 0 => k - 1 \in 0 .. MAX /\ k \in Nat
    BY <1>1
  <2> HIDE DEF Step
  <2>2. k # 0 => G[<<k, f[k - 1]>>] = IF k < 2 THEN 1 ELSE Step(f[k - 1], k)
    BY <1>3, <2>1
  <2>3. k = 0 => k < 2
    OBVIOUS
  <2> QED BY <1>4, <2>2, <2>3 DEF Recurs
<1>6. f = Body(f)
  BY <1>5
<1>7. PICK h : h = (CHOOSE e : e = Body(e))
  OBVIOUS
<1>8. h = Body(h)
  BY <1>6, <1>7
<1>9. \A n : Product(n) = h[n]
  BY <1>7 DEF Product
<1>10. \A k \in 0 .. MAX : h[k] = IF k < 2 THEN 1 ELSE Step(h[k - 1], k)
  BY <1>8
<1> HIDE DEF Body
<1> DEFINE S == {k \in Nat : k <= MAX => h[k] \in 0 .. MAX}
<1>11. 0 \in S
  BY <1>1, <1>10
<1>12. ASSUME NEW k \in S PROVE k + 1 \in S
  <2> SUFFICES ASSUME k + 1 <= MAX PROVE h[k + 1] \in 0 .. MAX
    OBVIOUS
  <2>1. k \in 0 .. MAX /\ k + 1 \in 0 .. MAX /\ (k + 1) - 1 = k
    BY <1>1
  <2>2. h[k] \in 0 .. MAX
    BY <1>12, <2>1, <1>1
  <2>3. PICK j \in Nat, y \in 0 .. MAX : j = k + 1 /\ y = h[k]
    BY <2>2
  <2>4. Step(y, j) \in 0 .. MAX
    <3>1. PICK p \in Nat : p = y * j
      BY <1>1
    <3> QED BY <1>1, <3>1
  <2> HIDE DEF Step
  <2>5. h[k + 1] = IF k + 1 < 2 THEN 1 ELSE Step(y, j)
    BY <1>10, <2>1, <2>3
  <2> QED BY <1>1, <2>4, <2>5
<1> HIDE DEF S
<1>13. S \in SUBSET Nat
  BY DEF S
<1>14. S = Nat
  BY <1>11, <1>12, <1>13, SetInduction
<1>15. \A k \in 0 .. MAX : h[k] \in 0 .. MAX
  BY <1>1, <1>14 DEF S
<1>16. \A k \in 0 .. MAX : k < 2 => h[k] = 1
  BY <1>10
<1>17. \A k \in 0 .. MAX : k >= 2 => h[k] = IF h[k - 1] * k > MAX THEN 0 ELSE h[k - 1] * k
  BY <1>1, <1>10
<1> QED BY <1>9, <1>15, <1>16, <1>17

-----------------------------------------------------------------------------
(* tms_set_int_mask sets widths that are powers of two.                    *)
LEMMA SizeIs == size \in Sizes => size \in 1 .. Bits /\ \E k \in 0 .. size : size = Pow2[k]
BY IntWidthAssumption

(* There are at most as many ones under the mask as it is wide.            *)
LEMMA OnesRange ==
  ASSUME size \in 1 .. Bits, NEW v
  PROVE  Ones(v) \in 0 .. size
<1>1. size \in Int /\ 0 \in Int /\ size - 1 \in Int /\ size >= 1
  BY Widths
<1>2. IsFiniteSet(Mask) /\ Cardinality(Mask) = size
  <2>1. IsFiniteSet(0 .. size - 1) /\ Cardinality(0 .. size - 1) = (size - 1) - 0 + 1
    BY <1>1, FS_Interval
  <2> QED BY <1>1, <2>1 DEF Mask
<1>3. MaskedBits(v) \subseteq Mask
  BY DEF MaskedBits
<1>4. IsFiniteSet(MaskedBits(v)) /\ Cardinality(MaskedBits(v)) <= Cardinality(Mask)
  BY <1>2, <1>3, FS_Subset
<1>5. Cardinality(MaskedBits(v)) \in Nat
  BY <1>4, FS_CardinalityType
<1> QED BY <1>1, <1>2, <1>4, <1>5 DEF Ones

(* The masks of bitwise.c are variables: n low bits,                       *)
LEMMA LowBitsRange == \A n \in Nat : LowBits(n) \in MIN .. MAX
<1> SUFFICES ASSUME NEW n \in Nat PROVE LowBits(n) \in MIN .. MAX
  OBVIOUS
<1>1. CASE n > Bits - 1
  BY <1>1, InRange DEF LowBits
<1>2. CASE ~(n > Bits - 1)
  <2>1. n \in 0 .. Bits
    BY <1>2, Widths
  <2>2. Pow2[n] - 1 \in Int
    BY <2>1, Pow2Is
  <2> QED BY <1>2, <2>2, WrapRange DEF LowBits
<1> QED BY <1>1, <1>2

(* those of mask() and inv_mask(), with a negative width,                  *)
LEMMA MaskOfRange == \A n \in Int : MaskOf(n) \in MIN .. MAX
<1> SUFFICES ASSUME NEW n \in Int PROVE MaskOf(n) \in MIN .. MAX
  OBVIOUS
<1>1. CASE n < 0
  <2>1. -n \in Nat
    BY <1>1
  <2>2. LowBits(-n) \in MIN .. MAX
    BY <2>1, LowBitsRange
  <2> QED BY <1>1, <2>2, InRange DEF MaskOf
<1>2. CASE ~(n < 0)
  BY <1>2, LowBitsRange DEF MaskOf
<1> QED BY <1>1, <1>2

(* and those of mask_range().                                              *)
LEMMA MaskRangeRange ==
  ASSUME NEW a \in 0 .. Bits - 1, NEW b \in 0 .. Bits - 1
  PROVE  MaskRange(a, b) \in MIN .. MAX
<1>1. PICK p \in Nat, q \in Nat : p = Pow2[a] /\ q = Pow2[b]
  <2>1. a \in 0 .. Bits /\ b \in 0 .. Bits
    BY Widths
  <2> QED BY <2>1, Pow2Is
<1>2. CASE a <= b
  <2>1. PICK n \in Nat : n = b - a + 1
    BY <1>2, Widths
  <2>2. LowBits(n) \in Int
    BY LowBitsRange, InRange
  <2>3. LowBits(n) * p \in Int
    BY <2>2
  <2> QED BY <1>1, <1>2, <2>1, <2>3, WrapRange DEF MaskRange
<1>3. CASE ~(a <= b)
  <2>1. PICK n \in Nat : n = a - b + 1
    BY <1>3, Widths
  <2>2. LowBits(n) \in Int
    BY LowBitsRange, InRange
  <2>3. LowBits(n) * q \in Int
    BY <2>2
  <2>4. Wrap(LowBits(n) * q) \in MIN .. MAX
    BY <2>3, WrapRange
  <2> QED BY <1>1, <1>3, <2>1, <2>4, InRange DEF MaskRange
<1> QED BY <1>2, <1>3

-----------------------------------------------------------------------------
(* The answers of the operators that trap at no operand in their domain.   *)
LEMMA BitResults ==
  ASSUME NEW a \in MIN .. MAX, NEW b \in MIN .. MAX,
         NEW op \in {"&", "|", "^", "nor", "nand", "not", "r", "l", "sr", "min", "max"}
  PROVE  Result(op, a, b) \in MIN .. MAX
<1>1. CASE op = "&"
  BY <1>1, SignedRange DEF Result
<1>2. CASE op = "|"
  BY <1>2, SignedRange DEF Result
<1>3. CASE op = "^"
  BY <1>3, SignedRange DEF Result
<1>4. CASE op = "nor"
  BY <1>4, SignedRange, InRange DEF Result
<1>5. CASE op = "nand"
  BY <1>5, SignedRange, InRange DEF Result
<1>6. CASE op = "not"
  BY <1>6, InRange DEF Result
<1>7. CASE op = "r"
  BY <1>7, MaskedRange, SignExtendRange DEF Result, Rotate
<1>8. CASE op = "l"
  BY <1>8, MaskedRange, SignExtendRange DEF Result, Rotate
<1>9. CASE op = "sr"
  BY <1>9, SignedRange DEF Result, LogicalShift
<1>10. CASE op = "min"
  BY <1>10 DEF Result
<1>11. CASE op = "max"
  BY <1>11 DEF Result
<1> QED BY <1>1, <1>2, <1>3, <1>4, <1>5, <1>6, <1>7, <1>8, <1>9, <1>10, <1>11

(* The same of those that count ones.                                      *)
LEMMA Counts ==
  ASSUME size \in 1 .. Bits, NEW a, NEW b, NEW op \in {"ones", "zeros", "parity", "hamming_dist"}
  PROVE  Result(op, a, b) \in MIN .. MAX
<1>1. \A v : Ones(v) \in 0 .. size
  BY OnesRange
<1>2. PICK n \in 0 .. size : n = Ones(a)
  BY <1>1
<1>3. n \in 0 .. Bits + 1 /\ size - n \in 0 .. Bits + 1 /\ n % 2 \in 0 .. Bits + 1
  BY Widths
<1>4. CASE op = "ones"
  BY <1>2, <1>3, <1>4, InRange DEF Result
<1>5. CASE op = "zeros"
  BY <1>2, <1>3, <1>5, InRange DEF Result
<1>6. CASE op = "parity"
  BY <1>2, <1>3, <1>6, InRange DEF Result
<1>7. CASE op = "hamming_dist"
  <2>1. PICK v : Result(op, a, b) = Ones(v)
    BY <1>7 DEF Result
  <2>2. Ones(v) \in 0 .. size /\ \A k \in 0 .. size : k \in 0 .. Bits + 1
    BY <1>1, Widths
  <2> QED BY <2>1, <2>2, InRange
<1> QED BY <1>4, <1>5, <1>6, <1>7

(* And of all: an operator that is not refused and does not trap answers a *)
(* variable.                                                               *)
LEMMA ResultRange ==
  ASSUME size \in 1 .. Bits, NEW op \in Operators \ {"rand"},
         NEW a \in MIN .. MAX, NEW b \in MIN .. MAX,
         ~Refused(op, a, b), ~Traps(op, a, b)
  PROVE  Result(op, a, b) \in MIN .. MAX
<1>1. a \in Int /\ b \in Int
  BY InRange
<1>2. CASE op \in {"&", "|", "^", "nor", "nand", "not", "r", "l", "sr", "min", "max"}
  BY <1>2, BitResults
<1>3. CASE op \in {"ones", "zeros", "parity", "hamming_dist"}
  BY <1>3, Counts
<1>4. CASE op \in {"+", "-", "*"}
  <2>1. a + b \in Int /\ a - b \in Int /\ a * b \in Int
    BY <1>1
  <2> QED BY <1>4, <2>1, WrapRange DEF Result
<1>5. CASE op \in {"/", "%"}
  <2>1. b # 0 /\ ~(a = MIN /\ b = -1)
    BY <1>5 DEF Traps
  <2> QED BY <1>5, <2>1, QuotientRange DEF Result
<1>6. CASE op \in {">", "<"}
  <2>1. b \in 0 .. size - 1
    BY <1>6 DEF Refused
  <2>2. b \in 0 .. Bits
    BY <2>1, Widths
  <2>3. PICK p \in Nat \ {0} : p = Pow2[b]
    BY <2>2, Pow2Is
  <2>4. a \div p \in MIN .. MAX
    BY ShiftRange
  <2>5. a * p \in Int
    BY <1>1
  <2> QED BY <1>6, <2>3, <2>4, <2>5, WrapRange DEF Result
<1>7. CASE op = "p"
  <2>1. SignExtend(b) >= 0
    <3>1. SignExtend(b) \in Int /\ ~(SignExtend(b) < 0)
      BY <1>7, SignExtendRange, InRange DEF Refused
    <3> QED BY <3>1
  <2> QED BY <1>7, <2>1, PowerRange DEF Result
<1>8. CASE op = "abs"
  <2>1. -a \in Int
    BY <1>1
  <2> QED BY <1>8, <2>1, WrapRange DEF Result
<1>9. CASE op = "fact"
  <2>1. a >= 0 /\ a \in 0 .. MAX /\ \A k \in 0 .. MAX : k \in MIN .. MAX
    BY <1>1, <1>9, Limits, Widths DEF Refused
  <2>2. Product(a) \in 0 .. MAX
    BY <2>1, Products
  <2> QED BY <1>9, <2>1, <2>2 DEF Result
<1>10. CASE op \in {"mask", "inv_mask"}
  BY <1>1, <1>10, MaskOfRange, InRange DEF Result
<1>11. CASE op = "mask_bit"
  <2>1. a \in 0 .. Bits
    BY <1>11, Widths DEF Refused
  <2>2. Pow2[a] \in Int
    BY <2>1, Pow2Is
  <2> QED BY <1>11, <2>2, WrapRange DEF Result
<1>12. CASE op = "mask_range"
  <2>1. a \in 0 .. size - 1 /\ b \in 0 .. size - 1
    BY <1>12 DEF Refused
  <2>2. a \in 0 .. Bits - 1 /\ b \in 0 .. Bits - 1
    BY <2>1, Widths
  <2> QED BY <1>12, <2>2, MaskRangeRange DEF Result
<1>13. CASE op = "ipv4_prefix"
  <2>1. IntBits - a \in Int
    BY <1>1, Widths
  <2> QED BY <1>13, <2>1, MaskOfRange, InRange DEF Result
<1> QED BY <1>2, <1>3, <1>4, <1>5, <1>6, <1>7, <1>8, <1>9, <1>10, <1>11, <1>12, <1>13
        DEF Operators, Binary, Unary

-----------------------------------------------------------------------------
(* A range of 2^64 numbers, which is counted as none, is the whole width.  *)
LEMMA WholeRange ==
  ASSUME NEW a \in MIN .. MAX, NEW b \in MIN .. MAX, a < b, Wrap(b - a + 1) = 0
  PROVE  a = MIN
<1>1. PICK m \in Nat : m = MAX + 1 /\ MIN = -m /\ MAX = m - 1 /\ Pow2[Bits] = 2 * m
  BY Limits, Widths
<1>2. a \in Int /\ b \in Int /\ a >= -m /\ b <= m - 1
  BY <1>1
<1>3. PICK n \in Int : n = b - a + 1
  BY <1>2
<1>4. PICK p \in Nat : p = 2 * m
  BY <1>1
<1>5. PICK q \in Int : n = 0 + q * p
  BY <1>1, <1>3, <1>4, WrapRange
<1>6. n >= 2 /\ n <= p
  BY <1>2, <1>3, <1>4
<1>7. q >= 1
  <2> SUFFICES ASSUME q <= 0 PROVE FALSE
    OBVIOUS
  <2>1. q * p <= 0
    OBVIOUS
  <2> QED BY <1>5, <1>6, <2>1
<1>8. q * p >= p
  BY <1>7
<1>9. n = p
  BY <1>5, <1>6, <1>8
<1>10. a = -m
  BY <1>2, <1>3, <1>4, <1>9
<1> QED BY <1>1, <1>10

(* The answer and the operand that is stored are always int64_t variables  *)
(* and the mask is one of the widths that can be set, whatever expressions *)
(* the operators of evaluator.c and the functions of bitwise.c have        *)
(* answered.                                                               *)
THEOREM IntWidthTypes == Spec => []TypeOK
<1>1. Init => TypeOK
  <2>1. 0 \in MIN .. MAX
    BY Limits, Widths
  <2> QED BY <2>1 DEF Init, TypeOK
<1>2. TypeOK /\ [Next]_vars => TypeOK'
  <2> SUFFICES ASSUME TypeOK, [Next]_vars PROVE TypeOK'
    OBVIOUS
  <2> USE DEF TypeOK
  <2>1. size \in 1 .. Bits /\ ans \in MIN .. MAX
    BY SizeIs
  <2>2. Read \subseteq MIN .. MAX
    <3>1. \A m \in Magnitudes : m \in Int /\ -m \in Int
      <4>1. Pow2[Bits] - 1 \in Int /\ Magnitudes \subseteq 0 .. Pow2[Bits] - 1
        BY IntWidthAssumption, Limits
      <4> QED BY <4>1
    <3>2. \A l \in Literals : l.magnitude \in Int /\ -l.magnitude \in Int
      BY <3>1 DEF Literals
    <3> QED BY <3>2, WrapRange DEF Read
  <2>3. ASSUME NEW s \in Sizes, SetIntMask(s) PROVE TypeOK'
    BY <2>3 DEF SetIntMask
  <2>4. ASSUME Load PROVE TypeOK'
    BY <2>2, <2>4 DEF Load
  <2>5. ASSUME Parse PROVE TypeOK'
    <3>1. 0 \in MIN .. MAX
      BY Limits, Widths
    <3>2. node' \in [op : Operators, operand : MIN .. MAX]
      BY <2>2, <2>5, <3>1 DEF Parse, Operators
    <3> QED BY <2>5, <3>2 DEF Parse
  <2>6. ASSUME Evaluate PROVE TypeOK'
    <3>1. node \in [op : Operators, operand : MIN .. MAX]
      BY <2>6 DEF Evaluate
    <3>2. PICK op \in Operators \ {"rand"}, b \in MIN .. MAX :
            /\ ~Refused(op, ans, b) /\ ~Traps(op, ans, b)
            /\ ans' = Result(op, ans, b)
      BY <2>6, <3>1 DEF Evaluate
    <3>3. ans' \in MIN .. MAX
      BY <2>1, <3>2, ResultRange
    <3> QED BY <2>6, <3>3 DEF Evaluate
  <2>7. ASSUME EvaluateRand PROVE TypeOK'
    <3>1. node \in [op : Operators, operand : MIN .. MAX]
      BY <2>7 DEF EvaluateRand
    <3>2. PICK low \in 0 .. RAND_MAX, high \in 0 .. RAND_MAX :
             LET random == SignExtend(Masked(Wrap(low + high * Pow2[IntBits])))
             IN  ans' = Wrap(Remainder(random, Wrap(node.operand - ans + 1)) + ans)
      BY <2>7 DEF EvaluateRand
    <3>3. PICK random :
            /\ random = SignExtend(Masked(Wrap(low + high * Pow2[IntBits])))
            /\ ans' = Wrap(Remainder(random, Wrap(node.operand - ans + 1)) + ans)
      BY <3>2
    <3>4. random \in MIN .. MAX
      BY <3>3, MaskedRange, SignExtendRange
    <3>5. PICK n : n = Wrap(node.operand - ans + 1)
      OBVIOUS
    <3>6. n \in MIN .. MAX /\ n # 0
      <4>1. node.operand - ans + 1 \in Int
        BY <2>1, <3>1, InRange
      <4> QED BY <2>7, <3>5, <4>1, WrapRange DEF EvaluateRand, Traps
    <3>7. Remainder(random, n) + ans \in Int
      <4>1. Remainder(random, n) \in Int
        BY <3>4, <3>6, QuotientRange, InRange
      <4> QED BY <2>1, <4>1, InRange
    <3>8. ans' \in MIN .. MAX
      BY <3>3, <3>5, <3>7, WrapRange
    <3> QED BY <2>7, <3>8 DEF EvaluateRand
  <2>8. ASSUME Refuse PROVE TypeOK'
    BY <2>8 DEF Refuse
  <2>9. ASSUME Trap PROVE TypeOK'
    BY <2>9 DEF Trap
  <2>10. CASE UNCHANGED vars
    BY <2>10 DEF vars
  <2> QED BY <2>3, <2>4, <2>5, <2>6, <2>7, <2>8, <2>9, <2>10 DEF Next
<1> QED BY <1>1, <1>2, PTL DEF Spec

(* No expression stops the program but one that starts from the least      *)
(* integer of 64 bits: _tms_int_evaluate_unsafe divides it by -1, tms_mask *)
(* negates it, _tms_int_rand is asked for a range of 2^64 numbers.         *)
THEOREM IntWidthTraps == Spec => []TrapsAtLeast
<1>1. Init => TrapsAtLeast
  BY DEF Init, TrapsAtLeast
<1>2. TypeOK /\ TrapsAtLeast /\ [Next]_vars => TrapsAtLeast'
  <2> SUFFICES ASSUME TypeOK, TrapsAtLeast, [Next]_vars PROVE TrapsAtLeast'
    OBVIOUS
  <2> USE DEF TrapsAtLeast
  <2>1. ASSUME Trap PROVE TrapsAtLeast'
    <3>1. ans \in MIN .. MAX /\ node \in [op : Operators, operand : MIN .. MAX]
      BY <2>1 DEF Trap, TypeOK
    <3>2. CASE node.op \in {"/", "%"}
      BY <2>1, <3>2 DEF Trap, Traps, Refused, DivisionByZero
    <3>3. CASE node.op \in {"mask", "inv_mask"}
      BY <2>1, <3>3 DEF Trap, Traps
    <3>4. CASE node.op = "rand" /\ Wrap(node.operand - ans + 1) = 0
      <4>1. PICK b \in MIN .. MAX : b = node.operand
        BY <3>1
      <4>2. ans \in Int /\ b \in Int /\ ~(ans >= b)
        BY <2>1, <3>1, <3>4, <4>1, InRange DEF Trap, Refused
      <4>3. ans < b
        BY <4>2
      <4>4. ans = MIN
        BY <3>1, <3>4, <4>1, <4>3, WholeRange
      <4> QED BY <2>1, <4>4 DEF Trap
    <3> QED BY <2>1, <3>2, <3>3, <3>4 DEF Trap, Traps
  <2>2. ASSUME ~Trap, Next PROVE TrapsAtLeast'
    BY <2>2 DEF Next, SetIntMask, Load, Parse, Evaluate, EvaluateRand, Refuse
  <2>3. CASE UNCHANGED vars
    BY <2>3 DEF vars
  <2> QED BY <2>1, <2>2, <2>3
<1> QED BY <1>1, <1>2, IntWidthTypes, PTL DEF Spec

-----------------------------------------------------------------------------
(* Division has one quotient and one remainder.                            *)
LEMMA DivisionUnique ==
  ASSUME NEW d \in Nat \ {0}, NEW v \in Int, NEW q \in Int, NEW r \in 0 .. d - 1,
         NEW y \in Int, y = d * q, v = y + r
  PROVE  v \div d = q /\ v % d = r
<1>1. PICK a \in Int, b \in Int : a = v \div d /\ b = v % d
  OBVIOUS
<1>2. v = d * a + b /\ b \in 0 .. d - 1
  BY <1>1
<1>3. PICK z \in Int : z = d * a
  OBVIOUS
<1>4. PICK e \in Int : e = a - q
  OBVIOUS
<1>5. d * e = z - y
  BY <1>3, <1>4
<1>6. z - y = r - b
  BY <1>2, <1>3
<1>7. e >= 1 => d * e >= d
  OBVIOUS
<1>8. e <= -1 => d * e <= -d
  <2> SUFFICES ASSUME e <= -1 PROVE d * e <= -d
    OBVIOUS
  <2>1. d * (e + 1) <= 0
    OBVIOUS
  <2>2. d * (e + 1) = d * e + d
    OBVIOUS
  <2>3. PICK x \in Int : x = d * e
    OBVIOUS
  <2> QED BY <2>1, <2>2, <2>3
<1>9. PICK x \in Int : x = d * e
  OBVIOUS
<1>10. x = r - b /\ x > -d /\ x < d
  BY <1>2, <1>5, <1>6, <1>9
<1>11. e = 0
  BY <1>7, <1>8, <1>9, <1>10
<1>12. a = q /\ x = 0
  BY <1>4, <1>9, <1>11
<1> QED BY <1>1, <1>10, <1>12, <1>2

(* Numbers a multiple of d apart have the same remainder.                  *)
LEMMA Shifted ==
  ASSUME NEW d \in Nat \ {0}, NEW x \in Int, NEW q \in Int, NEW y \in Int, y = x + q * d
  PROVE  y % d = x % d
<1>1. PICK a \in Int, r \in 0 .. d - 1 : a = x \div d /\ r = x % d /\ x = d * a + r
  OBVIOUS
<1>2. PICK m \in Int : m = d * (a + q) /\ m = d * a + q * d
  OBVIOUS
<1>3. y = m + r
  BY <1>1, <1>2
<1>4. a + q \in Int
  OBVIOUS
<1>5. y % d = r
  BY <1>2, <1>3, <1>4, DivisionUnique
<1> QED BY <1>1, <1>5

(* A number is its remainder and a multiple of the divisor.                *)
LEMMA Multiple ==
  ASSUME NEW d \in Nat \ {0}, NEW x \in Int
  PROVE  x % d \in 0 .. d - 1 /\ \E q \in Int : x = (x % d) + q * d
<1>1. PICK q \in Int, r \in 0 .. d - 1 : q = x \div d /\ r = x % d /\ x = d * q + r
  OBVIOUS
<1>2. PICK z \in Int : z = d * q /\ z = q * d
  OBVIOUS
<1>3. x = r + z
  BY <1>1, <1>2
<1> QED BY <1>1, <1>2, <1>3

-----------------------------------------------------------------------------
(* The positions of the ones of v below n.                                 *)
Low(v, n) == {i \in 0 .. n - 1 : One(v, i)}

(* What is below one more bit.                                             *)
LEMMA OneMore ==
  ASSUME NEW v \in Int, NEW n \in 0 .. Bits - 1
  PROVE  v % Pow2[n + 1] = (v % Pow2[n]) + (IF One(v, n) THEN Pow2[n] ELSE 0)
<1>1. PICK p \in Nat \ {0} : p = Pow2[n] /\ Pow2[n + 1] = 2 * p
  <2>1. n \in 0 .. Bits
    BY Widths
  <2> QED BY <2>1, Pow2Is
<1>2. PICK q \in Int, r \in 0 .. p - 1 : q = v \div p /\ r = v % p /\ v = p * q + r
  OBVIOUS
<1>3. PICK h \in Int, t \in {0, 1} : h = q \div 2 /\ t = q % 2 /\ q = 2 * h + t
  OBVIOUS
<1>4. One(v, n) <=> t = 1
  BY <1>1, <1>2, <1>3 DEF One
<1>5. PICK y \in Int : y = (2 * p) * h /\ p * q = y + p * t
  BY <1>3
<1>6. PICK e \in Int : e = p * t + r
  OBVIOUS
<1>7. e = (IF t = 1 THEN p ELSE 0) + r
  BY <1>6
<1>8. e \in 0 .. (2 * p) - 1 /\ v = y + e
  <2>1. PICK x \in Int : x = p * t /\ x = IF t = 1 THEN p ELSE 0
    OBVIOUS
  <2>2. v = y + x + r
    BY <1>2, <1>5, <2>1
  <2> QED BY <1>6, <2>1, <2>2
<1>9. PICK d \in Nat \ {0} : d = 2 * p
  OBVIOUS
<1>10. v % d = e
  BY <1>5, <1>8, <1>9, DivisionUnique
<1>11. e = r + (IF t = 1 THEN p ELSE 0)
  BY <1>7
<1>12. v % Pow2[n + 1] = e /\ v % Pow2[n] = r
  BY <1>1, <1>2, <1>9, <1>10
<1> QED BY <1>1, <1>4, <1>11, <1>12

(* The number that the ones of v make.                                     *)
LEMMA SumsOfLow ==
  ASSUME NEW v \in Int, NEW n \in 0 .. Bits, NEW s, Sums(Low(v, n), s), NEW m \in 0 .. Bits
  PROVE  s[m] = v % Pow2[IF m <= n THEN m ELSE n]
<1> DEFINE T == {k \in Nat : k <= Bits => s[k] = v % Pow2[IF k <= n THEN k ELSE n]}
<1>1. 0 \in T
  <2>1. v % 1 = 0
    OBVIOUS
  <2>2. s[0] = 0
    BY Widths DEF Sums
  <2> QED BY <2>1, <2>2, Pow2Is
<1>2. ASSUME NEW k \in T PROVE k + 1 \in T
  <2> SUFFICES ASSUME k + 1 <= Bits
               PROVE  s[k + 1] = v % Pow2[IF k + 1 <= n THEN k + 1 ELSE n]
    OBVIOUS
  <2>1. k \in 0 .. Bits - 1 /\ k + 1 \in 0 .. Bits /\ (k + 1) - 1 = k /\ k + 1 # 0 /\ k \in 0 .. Bits
    BY Widths
  <2>2. s[k + 1] = s[k] + (IF k \in Low(v, n) THEN Pow2[k] ELSE 0)
    BY <2>1 DEF Sums
  <2>3. s[k] = v % Pow2[IF k <= n THEN k ELSE n]
    BY <1>2, <2>1, Widths
  <2>4. CASE k < n
    <3>1. k + 1 <= n /\ k <= n /\ (k \in Low(v, n) <=> One(v, k))
      BY <2>4 DEF Low
    <3> QED BY <2>1, <2>2, <2>3, <3>1, OneMore
  <2>5. CASE ~(k < n)
    <3>1. k \notin Low(v, n) /\ ~(k + 1 <= n) /\ (k <= n => k = n)
      BY <2>5 DEF Low
    <3>2. s[k] = v % Pow2[n]
      BY <2>3, <3>1
    <3>3. s[k] \in Int
      <4>1. PICK p \in Nat \ {0} : p = Pow2[n]
        BY Pow2Is
      <4> QED BY <3>2, <4>1
    <3> QED BY <2>2, <3>1, <3>2, <3>3
  <2> QED BY <2>4, <2>5
<1> HIDE DEF T
<1>3. T \in SUBSET Nat
  BY DEF T
<1>4. T = Nat
  BY <1>1, <1>2, <1>3, SetInduction
<1>5. m \in T /\ m <= Bits
  BY <1>4, Widths
<1> QED BY <1>5 DEF T

(* The bits below n stand for the remainder modulo 2^n.                    *)
LEMMA ValueOfLow ==
  ASSUME NEW v \in Int, NEW n \in 0 .. Bits
  PROVE  Value(Low(v, n)) = v % Pow2[n]
<1>1. PICK S : S = Low(v, n)
  OBVIOUS
<1>2. PICK s : Sums(S, s) /\ Value(S) = s[Bits]
  BY ValueIs
<1>3. Bits \in 0 .. Bits /\ (Bits <= n => Bits = n)
  BY Widths
<1>4. s[Bits] = v % Pow2[IF Bits <= n THEN Bits ELSE n]
  BY <1>1, <1>2, <1>3, SumsOfLow
<1> QED BY <1>1, <1>2, <1>3, <1>4

(* Sets of positions are those of one number.                              *)
LEMMA SumsInjective ==
  ASSUME NEW S, NEW s, Sums(S, s), NEW T, NEW t, Sums(T, t), s[Bits] = t[Bits],
         NEW i \in 0 .. Bits - 1
  PROVE  i \in S <=> i \in T
<1>1. ASSUME NEW k \in 0 .. Bits - 1, s[k + 1] = t[k + 1]
      PROVE  s[k] = t[k] /\ (k \in S <=> k \in T)
  <2>1. k \in 0 .. Bits /\ k + 1 \in 0 .. Bits /\ (k + 1) - 1 = k /\ k + 1 # 0
    BY Widths
  <2>2. PICK p \in Nat \ {0} : p = Pow2[k]
    BY <2>1, Pow2Is
  <2>3. PICK x \in 0 .. p - 1, y \in 0 .. p - 1 : x = s[k] /\ y = t[k]
    BY <2>1, <2>2, SumsBelow
  <2>4. s[k + 1] = (IF k \in S THEN x + p ELSE x)
    BY <2>1, <2>2, <2>3 DEF Sums
  <2>5. t[k + 1] = (IF k \in T THEN y + p ELSE y)
    BY <2>1, <2>2, <2>3 DEF Sums
  <2>6. (IF k \in S THEN x + p ELSE x) = (IF k \in T THEN y + p ELSE y)
    BY <1>1, <2>4, <2>5
  <2>7. x = y /\ (k \in S <=> k \in T)
    BY <2>6
  <2> QED BY <2>3, <2>7
<1> DEFINE K == {k \in Nat : k <= Bits => s[Bits - k] = t[Bits - k]}
<1>2. 0 \in K
  <2>1. Bits - 0 = Bits
    BY Widths
  <2> QED BY <2>1
<1>3. ASSUME NEW k \in K PROVE k + 1 \in K
  <2> SUFFICES ASSUME k + 1 <= Bits PROVE s[Bits - (k + 1)] = t[Bits - (k + 1)]
    OBVIOUS
  <2>1. PICK j \in 0 .. Bits - 1 : j = Bits - (k + 1) /\ j + 1 = Bits - k /\ k <= Bits
    BY Widths
  <2>2. s[j + 1] = t[j + 1]
    BY <1>3, <2>1
  <2> QED BY <1>1, <2>1, <2>2
<1> HIDE DEF K
<1>4. K \in SUBSET Nat
  BY DEF K
<1>5. K = Nat
  BY <1>2, <1>3, <1>4, SetInduction
<1>6. PICK k \in Nat : k = Bits - (i + 1) /\ Bits - k = i + 1 /\ k <= Bits
  <2>1. Bits \in Nat /\ i \in Nat /\ i <= Bits - 1
    BY Widths
  <2>2. PICK k \in Int : k = Bits - (i + 1)
    BY <2>1
  <2>3. k \in Nat /\ Bits - k = i + 1 /\ k <= Bits
    BY <2>1, <2>2
  <2> QED BY <2>2, <2>3
<1>7. s[i + 1] = t[i + 1]
  BY <1>5, <1>6 DEF K
<1> QED BY <1>1, <1>7

(* And a number that a set of bits stands for has these bits.              *)
LEMMA LowOfValue ==
  ASSUME NEW S, NEW n \in 0 .. Bits
  PROVE  Low(Value(S), n) = S \cap 0 .. n - 1
<1>1. PICK v \in Int : v = Value(S) /\ v \in 0 .. Pow2[Bits] - 1
  BY ValueRange, Limits
<1>2. Bits \in 0 .. Bits
  BY Widths
<1>3. v % Pow2[Bits] = v
  <2>1. PICK p \in Nat \ {0} : p = Pow2[Bits]
    BY Limits
  <2> QED BY <1>1, <2>1
<1>4. PICK T : T = Low(v, Bits)
  OBVIOUS
<1>5. Value(T) = Value(S)
  BY <1>1, <1>2, <1>3, <1>4, ValueOfLow
<1>6. PICK s : Sums(S, s) /\ Value(S) = s[Bits]
  BY ValueIs
<1>7. PICK t : Sums(T, t) /\ Value(T) = t[Bits]
  BY ValueIs
<1>8. \A i \in 0 .. Bits - 1 : i \in S <=> i \in T
  BY <1>5, <1>6, <1>7, SumsInjective
<1>9. \A i \in 0 .. n - 1 : i \in 0 .. Bits - 1
  BY Widths
<1>10. \A i \in 0 .. n - 1 : i \in S <=> One(v, i)
  BY <1>4, <1>8, <1>9 DEF Low
<1> QED BY <1>1, <1>10 DEF Low

(* Congruent numbers, and these alone, have the same ones.                 *)
LEMMA SameLow ==
  ASSUME NEW x \in Int, NEW y \in Int, NEW n \in 0 .. Bits
  PROVE  Low(x, n) = Low(y, n) <=> x % Pow2[n] = y % Pow2[n]
<1>1. Value(Low(x, n)) = x % Pow2[n] /\ Value(Low(y, n)) = y % Pow2[n]
  BY ValueOfLow
<1>2. \A v : Low(v, n) \cap 0 .. n - 1 = Low(v, n)
  BY DEF Low
<1>3. Low(Value(Low(x, n)), n) = Low(x, n) /\ Low(Value(Low(y, n)), n) = Low(y, n)
  BY <1>2, LowOfValue
<1> QED BY <1>1, <1>3

-----------------------------------------------------------------------------
(* The bits below n are positions below n, and those below less are among  *)
(* them.                                                                   *)
LEMMA Known ==
  ASSUME NEW v, NEW n \in 0 .. Bits
  PROVE  /\ Low(v, n) \subseteq 0 .. n - 1
         /\ \A m \in 0 .. n : Low(v, m) = Low(v, n) \cap 0 .. m - 1
BY Widths DEF Low

(* All the bits of a variable,                                             *)
LEMMA LowBitsOf == \A v : BitsOf(v) = Low(v, Bits)
BY DEF BitsOf, Low

(* and those under the mask, are such sets.                                *)
LEMMA LowSeen ==
  ASSUME size \in 1 .. Bits, NEW v
  PROVE  Seen(v) = Low(v, size) /\ MaskedBits(v) = Low(v, size)
BY Widths DEF Seen, MaskedBits, Mask, BitsOf, Low

(* A variable has the bits of the number that was put in it.               *)
LEMMA LowOfWrap ==
  ASSUME NEW x \in Int, NEW n \in 0 .. Bits
  PROVE  Low(Wrap(x), n) = Low(x, n)
<1>1. PICK p \in Nat \ {0} : p = Pow2[Bits]
  BY Limits
<1>2. PICK w \in Int, q \in Int : w = Wrap(x) /\ x = w + q * p
  BY <1>1, WrapRange, InRange
<1>3. x % p = w % p
  BY <1>2, Shifted
<1>4. Bits \in 0 .. Bits
  BY Widths
<1>5. Low(x, Bits) = Low(w, Bits)
  BY <1>1, <1>3, <1>4, SameLow
<1>6. \A v : Low(v, n) = Low(v, Bits) \cap 0 .. n - 1
  BY <1>4, Known
<1> QED BY <1>2, <1>5, <1>6

(* A variable made of bits has these bits.                                 *)
LEMMA LowOfSigned ==
  ASSUME NEW S, NEW n \in 0 .. Bits
  PROVE  Low(Signed(S), n) = S \cap 0 .. n - 1
<1>1. Value(S) \in Int
  BY ValueRange, Limits
<1> QED BY <1>1, LowOfWrap, LowOfValue DEF Signed

(* Its bits tell which variable it is.                                     *)
LEMMA SignedOfLow ==
  ASSUME NEW v \in MIN .. MAX
  PROVE  Signed(BitsOf(v)) = v
<1>1. Bits \in 0 .. Bits /\ v \in Int
  BY Widths, InRange
<1>2. PICK p \in Nat \ {0} : p = Pow2[Bits]
  BY Limits
<1>3. Value(BitsOf(v)) = v % p
  BY <1>1, <1>2, LowBitsOf, ValueOfLow
<1>4. PICK r \in Int, q \in Int : r = v % p /\ v = r + q * p
  <2>1. v \in Int /\ p \in Nat \ {0}
    BY <1>1
  <2>2. v % p \in 0 .. p - 1 /\ \E q \in Int : v = (v % p) + q * p
    BY ONLY <2>1, Multiple
  <2>3. v % p \in Int
    BY <2>1
  <2> QED BY <2>2, <2>3
<1>5. Wrap(r) = Wrap(v)
  <2>1. PICK m \in Int : m = Pow2[Bits - 1]
    BY Limits
  <2>2. PICK y \in Int, z \in Int : y = r + m /\ z = v + m /\ z = y + q * p
    BY <1>4
  <2>3. z % p = y % p
    <3>1. z \in Int /\ y \in Int /\ q \in Int /\ p \in Nat \ {0} /\ z = y + q * p
      BY <2>2
    <3> QED BY ONLY <3>1, Shifted
  <2> QED BY <1>2, <2>1, <2>2, <2>3 DEF Wrap
<1> QED BY <1>3, <1>4, <1>5, WrapSame DEF Signed

(* ~ flips every bit.                                                      *)
LEMMA LowOfFlip ==
  ASSUME NEW v \in Int, NEW n \in 0 .. Bits
  PROVE  Low(Flip(v), n) = (0 .. n - 1) \ Low(v, n)
<1>1. ASSUME NEW i \in 0 .. n - 1 PROVE One(Flip(v), i) <=> ~One(v, i)
  <2>1. i \in 0 .. Bits
    BY Widths
  <2>2. PICK p \in Nat \ {0} : p = Pow2[i]
    BY <2>1, Pow2Is
  <2>3. PICK q \in Int, r \in 0 .. p - 1 : q = v \div p /\ v = p * q + r
    OBVIOUS
  <2>4. PICK y \in Int : y = p * (-1 - q) /\ y = -p - p * q
    OBVIOUS
  <2>5. PICK w \in Int, e \in 0 .. p - 1 : w = Flip(v) /\ e = p - 1 - r
    BY DEF Flip
  <2>6. w = y + e
    <3>1. PICK z \in Int : z = p * q
      OBVIOUS
    <3> QED BY <2>3, <2>4, <2>5, <3>1 DEF Flip
  <2>7. PICK k \in Int : k = -1 - q
    OBVIOUS
  <2>8. w \div p = k
    BY <2>4, <2>6, <2>7, DivisionUnique
  <2>9. k % 2 = 1 <=> ~(q % 2 = 1)
    BY <2>7
  <2> QED BY <2>2, <2>3, <2>5, <2>8, <2>9 DEF One
<1> QED BY <1>1 DEF Low

(* tms_sign_extend keeps the bits under the mask.                          *)
LEMMA LowOfSignExtend ==
  ASSUME size \in 1 .. Bits, NEW v
  PROVE  Low(SignExtend(v), size) = Low(v, size)
<1>1. size \in 0 .. Bits /\ Bits \in 0 .. Bits
  BY Widths
<1>2. CASE size - 1 \in BitsOf(v)
  <2>1. Low(SignExtend(v), size) = (BitsOf(v) \cup (size .. Bits - 1)) \cap 0 .. size - 1
    BY <1>1, <1>2, LowOfSigned DEF SignExtend
  <2>2. (size .. Bits - 1) \cap 0 .. size - 1 = {}
    BY <1>1
  <2>3. BitsOf(v) \cap 0 .. size - 1 = Low(v, size)
    BY <1>1, LowBitsOf, Known
  <2> QED BY <2>1, <2>2, <2>3
<1>3. CASE size - 1 \notin BitsOf(v)
  BY <1>3 DEF SignExtend
<1> QED BY <1>2, <1>3

(* Arithmetic needs no more than the bits that are seen.                   *)
LEMMA Arithmetic ==
  ASSUME NEW a \in Int, NEW b \in Int, NEW n \in 0 .. Bits,
         NEW x, NEW y, x = Value(Low(a, n)), y = Value(Low(b, n))
  PROVE  /\ Low(a + b, n) = Low(x + y, n)
         /\ Low(a - b, n) = Low(x - y, n)
         /\ Low(a * b, n) = Low(x * y, n)
<1>1. PICK p \in Nat \ {0} : p = Pow2[n]
  BY Pow2Is
<1>2. x = a % p /\ y = b % p
  BY <1>1, ValueOfLow
<1>3. x \in Int /\ y \in Int
  BY <1>2
<1>4. PICK i \in Int : a = x + i * p
  BY <1>2, Multiple
<1>5. PICK j \in Int : b = y + j * p
  BY <1>2, Multiple
<1> HIDE DEF Low
<1>6. a + b = (x + y) + (i + j) * p
  BY <1>3, <1>4, <1>5
<1>7. a - b = (x - y) + (i - j) * p
  BY <1>3, <1>4, <1>5
<1>8. PICK k \in Int : a * b = (x * y) + k * p
  <2>1. PICK k \in Int : k = x * j + i * y + i * j * p
    BY <1>3
  <2>2. a * b = (x + i * p) * (y + j * p)
    BY <1>4, <1>5
  <2>3. (x + i * p) * (y + j * p) = x * y + (x * j + i * y + i * j * p) * p
    BY <1>3
  <2> QED BY <2>1, <2>2, <2>3
<1>9. ASSUME NEW u \in Int, NEW w \in Int, NEW l \in Int, u = w + l * p PROVE Low(u, n) = Low(w, n)
  <2>1. u % p = w % p
    BY <1>9, Shifted
  <2> QED BY <1>1, <2>1, SameLow
<1>10. a + b \in Int /\ x + y \in Int /\ i + j \in Int /\ a - b \in Int /\ x - y \in Int
       /\ i - j \in Int /\ a * b \in Int /\ x * y \in Int
  BY <1>3
<1>11. Low(a + b, n) = Low(x + y, n)
  BY <1>6, <1>9, <1>10
<1>12. Low(a - b, n) = Low(x - y, n)
  BY <1>7, <1>9, <1>10
<1>13. Low(a * b, n) = Low(x * y, n)
  BY <1>8, <1>9, <1>10
<1> QED BY <1>11, <1>12, <1>13

-----------------------------------------------------------------------------
(* A multiplication by 2 moves every bit by one position.                  *)
LEMMA OneOfDouble ==
  ASSUME NEW x \in Int, NEW y, y = 2 * x, NEW i \in 0 .. Bits - 1
  PROVE  One(y, i) <=> i > 0 /\ One(x, i - 1)
<1>1. CASE i = 0
  <2>1. y \div 1 = y /\ y % 2 # 1
    OBVIOUS
  <2> QED BY <1>1, <2>1, Pow2Is DEF One
<1>2. CASE i # 0
  <2>1. i - 1 \in 0 .. Bits - 1 /\ i - 1 \in 0 .. Bits /\ (i - 1) + 1 = i /\ i > 0
    BY <1>2, Widths
  <2>2. PICK p \in Nat \ {0} : p = Pow2[i - 1] /\ Pow2[i] = 2 * p
    BY <2>1, Pow2Is
  <2>3. PICK q \in Int, r \in 0 .. p - 1 : q = x \div p /\ x = p * q + r
    OBVIOUS
  <2>4. PICK d \in Nat \ {0}, e \in Int, z \in Int : d = 2 * p /\ e = 2 * r /\ z = d * q /\ z = 2 * (p * q)
    OBVIOUS
  <2>5. y = z + e
    <3>1. PICK m \in Int : m = p * q
      OBVIOUS
    <3>2. x = m + r /\ z = 2 * m /\ e = 2 * r
      BY <2>3, <2>4, <3>1
    <3> QED BY <3>2
  <2>6. e \in 0 .. d - 1
    BY <2>4
  <2>7. y \in Int /\ y \div d = q
    BY <2>4, <2>5, <2>6, DivisionUnique
  <2> QED BY <2>1, <2>2, <2>3, <2>4, <2>7 DEF One
<1> QED BY <1>1, <1>2

(* A shift to the left moves every bit by as many positions.               *)
LEMMA OneOfShift ==
  ASSUME NEW a \in Int, NEW b \in 0 .. Bits, NEW i \in 0 .. Bits - 1
  PROVE  One(a * Pow2[b], i) <=> i >= b /\ One(a, i - b)
<1> DEFINE T == {k \in Nat : k <= Bits =>
                   \A j \in 0 .. Bits - 1 : One(a * Pow2[k], j) <=> j >= k /\ One(a, j - k)}
<1>1. 0 \in T
  <2>1. a * 1 = a /\ \A j \in 0 .. Bits - 1 : j - 0 = j /\ j >= 0
    BY Widths
  <2> QED BY <2>1, Pow2Is
<1>2. ASSUME NEW k \in T PROVE k + 1 \in T
  <2> SUFFICES ASSUME k + 1 <= Bits, NEW j \in 0 .. Bits - 1
               PROVE  One(a * Pow2[k + 1], j) <=> j >= k + 1 /\ One(a, j - (k + 1))
    OBVIOUS
  <2>1. k \in 0 .. Bits - 1 /\ k \in 0 .. Bits
    BY Widths
  <2>2. PICK p \in Nat \ {0} : p = Pow2[k] /\ Pow2[k + 1] = 2 * p
    BY <2>1, Pow2Is
  <2>3. PICK x \in Int, y \in Int : x = a * p /\ y = 2 * x /\ y = a * (2 * p)
    OBVIOUS
  <2>4. One(y, j) <=> j > 0 /\ One(x, j - 1)
    BY <2>3, OneOfDouble
  <2>5. j > 0 => j - 1 \in 0 .. Bits - 1 /\ (j - 1 >= k <=> j >= k + 1) /\ (j - 1) - k = j - (k + 1)
    BY Widths
  <2>6. j > 0 => (One(x, j - 1) <=> j >= k + 1 /\ One(a, j - (k + 1)))
    <3> SUFFICES ASSUME j > 0 PROVE One(x, j - 1) <=> j >= k + 1 /\ One(a, j - (k + 1))
      OBVIOUS
    <3>1. PICK h \in 0 .. Bits - 1 : h = j - 1
      BY <2>5
    <3>2. One(a * Pow2[k], h) <=> h >= k /\ One(a, h - k)
      BY <1>2, <2>1, Widths
    <3> QED BY <2>2, <2>3, <2>5, <3>1, <3>2
  <2>7. j >= k + 1 => j > 0
    BY <2>1
  <2> QED BY <2>2, <2>3, <2>4, <2>6, <2>7
<1> HIDE DEF T
<1>3. T \in SUBSET Nat
  BY DEF T
<1>4. T = Nat
  BY <1>1, <1>2, <1>3, SetInduction
<1>5. b \in T /\ b <= Bits
  BY <1>4, Widths
<1> QED BY <1>5 DEF T

(* A power of two has one bit.                                             *)
LEMMA LowOfPow2 ==
  ASSUME NEW b \in 0 .. Bits - 1, NEW n \in 0 .. Bits, b < n
  PROVE  Low(Pow2[b], n) = {b}
<1>1. b \in 0 .. Bits
  BY Widths
<1>2. PICK p \in Nat : p = Pow2[b] /\ 1 * p = p
  BY <1>1, Pow2Is
<1>3. ASSUME NEW i \in 0 .. Bits - 1 PROVE One(p, i) <=> i = b
  <2>1. One(1 * Pow2[b], i) <=> i >= b /\ One(1, i - b)
    BY <1>1, OneOfShift
  <2>2. i >= b => (One(1, i - b) <=> i = b)
    <3> SUFFICES ASSUME i >= b PROVE One(1, i - b) <=> i = b
      OBVIOUS
    <3>1. PICK j \in 0 .. Bits : j = i - b
      BY Widths
    <3>2. PICK d \in Nat \ {0} : d = Pow2[j]
      BY Pow2Is
    <3>3. CASE j = 0
      <4>1. (1 \div 1) % 2 = 1
        OBVIOUS
      <4> QED BY <3>1, <3>3, <4>1, Pow2Is, Widths DEF One
    <3>4. CASE j # 0
      <4>1. d > 1
        <5>1. j < d
          BY <3>2, Pow2Above
        <5> QED BY <3>4, <5>1
      <4>2. 1 \div d = 0
        BY <4>1
      <4>3. 0 % 2 # 1
        OBVIOUS
      <4> QED BY <3>1, <3>2, <3>4, <4>2, <4>3 DEF One
    <3> QED BY <3>3, <3>4
  <2> QED BY <1>2, <2>1, <2>2
<1>4. \A i \in 0 .. n - 1 : i \in 0 .. Bits - 1
  BY Widths
<1>5. b \in 0 .. n - 1
  BY Widths
<1> QED BY <1>2, <1>3, <1>4, <1>5 DEF Low

(* A power of two divides the greater ones.                                *)
LEMMA Pow2Divides ==
  ASSUME NEW n \in 0 .. Bits, NEW k \in 0 .. n
  PROVE  \E c \in Nat : Pow2[n] = c * Pow2[k]
<1>1. k \in Nat /\ k \in 0 .. Bits
  BY Widths
<1>2. PICK p \in Nat : p = Pow2[k]
  BY <1>1, Pow2Is
<1> DEFINE T == {j \in Nat : k + j <= Bits => \E c \in Nat : Pow2[k + j] = c * p}
<1>3. 0 \in T
  <2>1. k + 0 = k /\ p = 1 * p
    BY <1>1
  <2> QED BY <1>2, <2>1
<1>4. ASSUME NEW j \in T PROVE j + 1 \in T
  <2> SUFFICES ASSUME k + (j + 1) <= Bits PROVE \E c \in Nat : Pow2[k + (j + 1)] = c * p
    OBVIOUS
  <2>1. PICK h \in 0 .. Bits - 1 : h = k + j /\ h + 1 = k + (j + 1) /\ h <= Bits
    BY <1>1, Widths
  <2>2. PICK c \in Nat : Pow2[h] = c * p
    BY <1>4, <2>1
  <2>3. PICK d \in Nat : d = 2 * c /\ d * p = 2 * (c * p)
    OBVIOUS
  <2> QED BY <2>1, <2>2, <2>3, Pow2Is
<1> HIDE DEF T
<1>5. T \in SUBSET Nat
  BY DEF T
<1>6. T = Nat
  BY <1>3, <1>4, <1>5, SetInduction
<1>7. PICK j \in Nat : j = n - k /\ k + j = n /\ n <= Bits
  BY <1>1, Widths
<1>8. \A i \in Nat : k + i <= Bits => \E c \in Nat : Pow2[k + i] = c * p
  BY ONLY <1>6 DEF T
<1>9. \E c \in Nat : Pow2[n] = c * p
  <2>1. k + j <= Bits => \E c \in Nat : Pow2[k + j] = c * p
    BY <1>8
  <2> QED BY <1>7, <2>1
<1> QED BY <1>2, <1>9

(* A remainder by a multiple of s does for one by s.                       *)
LEMMA RemainderTwice ==
  ASSUME NEW s \in Nat \ {0}, NEW c \in Nat, NEW d \in Nat \ {0}, d = c * s, NEW b \in Int
  PROVE  (b % d) % s = b % s
<1>1. PICK r \in Int, q \in Int : r = b % d /\ b = r + q * d
  <2>1. b \in Int /\ d \in Nat \ {0}
    OBVIOUS
  <2>2. b % d \in 0 .. d - 1 /\ \E q \in Int : b = (b % d) + q * d
    BY ONLY <2>1, Multiple
  <2>3. b % d \in Int
    BY <2>1
  <2> QED BY <2>2, <2>3
<1>2. PICK e \in Int : e = q * c /\ q * d = e * s
  <2>1. q * (c * s) = (q * c) * s
    OBVIOUS
  <2> QED BY <2>1
<1>3. b = r + e * s
  BY <1>1, <1>2
<1>4. b % s = r % s
  BY <1>3, Shifted
<1> QED BY <1>1, <1>4

(* One subtraction reduces what is less than twice the divisor.            *)
LEMMA Around ==
  ASSUME NEW s \in Nat \ {0}, NEW x \in Int, x \in 0 .. 2 * s - 1
  PROVE  x % s = IF x < s THEN x ELSE x - s
<1>1. CASE x < s
  BY <1>1
<1>2. CASE ~(x < s)
  <2>1. s * 1 = s /\ x - s \in 0 .. s - 1 /\ x = s + (x - s) /\ 1 \in Int
    BY <1>2
  <2> QED BY <1>2, <2>1, DivisionUnique
<1> QED BY <1>1, <1>2

-----------------------------------------------------------------------------
(* The two shifts of a rotation, bit by bit.                               *)
LEMMA ShiftsAre ==
  ASSUME NEW S \in SUBSET Int, NEW n \in 0 .. Bits - 1, NEW j \in 0 .. Bits - 1
  PROVE  /\ j \in ShiftLeft(S, n) <=> j - n \in S
         /\ j \in ShiftRight(S, n) <=> j + n \in S
<1>1. n % Bits = n /\ n \in Int /\ j \in Int
  BY Widths
<1>2. \A i \in S : i \in Int /\ (j = i + n <=> i = j - n) /\ (j = i - n <=> i = j + n)
  BY <1>1
<1> QED BY <1>1, <1>2 DEF ShiftLeft, ShiftRight

(* Two shifts in opposite directions, one by what the other leaves of the  *)
(* width, are a rotation.                                                  *)
LEMMA Rotations ==
  ASSUME NEW s \in 1 .. Bits, NEW w \in SUBSET (0 .. s - 1), NEW k \in 0 .. s - 1
  PROVE  /\ (ShiftLeft(w, k) \cup ShiftRight(w, s - k)) \cap 0 .. s - 1
               = {(i + k) % s : i \in w}
         /\ (ShiftRight(w, k) \cup ShiftLeft(w, s - k)) \cap 0 .. s - 1
               = {(i + s - k) % s : i \in w}
<1>1. w \in SUBSET Int /\ k \in 0 .. Bits - 1 /\ s \in Nat \ {0} /\ \A j \in 0 .. s - 1 : j \in 0 .. Bits - 1
  BY Widths
<1>2. ASSUME NEW j \in 0 .. s - 1
      PROVE  /\ j \in ShiftLeft(w, k) \cup ShiftRight(w, s - k) <=> j - k \in w \/ j + s - k \in w
             /\ j \in ShiftRight(w, k) \cup ShiftLeft(w, s - k) <=> j + k \in w \/ j - s + k \in w
  <2>1. /\ j \in ShiftLeft(w, k) <=> j - k \in w
        /\ j \in ShiftRight(w, k) <=> j + k \in w
    BY <1>1, ShiftsAre
  <2>2. CASE s - k \in 0 .. Bits - 1
    <3>1. PICK m \in 0 .. Bits - 1 : m = s - k /\ j - m = j - s + k /\ j + m = j + s - k
      BY <1>1, <2>2
    <3>2. /\ j \in ShiftLeft(w, m) <=> j - m \in w
          /\ j \in ShiftRight(w, m) <=> j + m \in w
      BY <1>1, ShiftsAre
    <3> QED BY <2>1, <3>1, <3>2
  <2>3. CASE s - k \notin 0 .. Bits - 1
    <3>1. k = 0 /\ s = Bits /\ s - k = Bits
      BY <2>3, Widths
    <3>2. Bits % Bits = 0 /\ 0 % Bits = 0
      BY Widths
    <3>3. ShiftLeft(w, s - k) = ShiftLeft(w, k) /\ ShiftRight(w, s - k) = ShiftRight(w, k)
      BY <3>1, <3>2 DEF ShiftLeft, ShiftRight
    <3>4. j - k = j /\ j + k = j /\ j + s - k \notin w /\ j - s + k \notin w
      BY <3>1, Widths
    <3> QED BY <2>1, <3>3, <3>4
  <2> QED BY <2>2, <2>3
<1>3. ASSUME NEW i \in w, NEW j \in 0 .. s - 1
      PROVE  /\ (i + k) % s = j <=> i = j - k \/ i = j + s - k
             /\ (i + s - k) % s = j <=> i = j + k \/ i = j - s + k
  <2>1. PICK x \in Int : x = i + k /\ x \in 0 .. 2 * s - 1
    BY <1>1
  <2>2. PICK y \in Int : y = i + s - k /\ y \in 0 .. 2 * s - 1
    BY <1>1
  <2>3. x % s = IF x < s THEN x ELSE x - s
    BY <1>1, <2>1, Around
  <2>4. y % s = IF y < s THEN y ELSE y - s
    BY <1>1, <2>2, Around
  <2>5. i \in 0 .. s - 1
    OBVIOUS
  <2> QED BY <1>1, <2>1, <2>2, <2>3, <2>4, <2>5
<1>4. \A i \in w : (i + k) % s \in 0 .. s - 1 /\ (i + s - k) % s \in 0 .. s - 1
  <2> TAKE i \in w
  <2>1. i + k \in Int /\ i + s - k \in Int
    BY <1>1
  <2> QED BY <1>1, <2>1
<1>5. ASSUME NEW j \in 0 .. s - 1
      PROVE  /\ j \in {(i + k) % s : i \in w} <=> j - k \in w \/ j + s - k \in w
             /\ j \in {(i + s - k) % s : i \in w} <=> j + k \in w \/ j - s + k \in w
  BY <1>3
<1> QED BY <1>2, <1>4, <1>5

-----------------------------------------------------------------------------
(* The machine's numbers are those of the variables.                       *)
LEMMA MachinePow2 == Machine!Pow2 = Pow2
BY DEF Machine!Pow2, Pow2

(* So are the bits of a number,                                            *)
LEMMA MachineOne == \A v, i : Machine!One(v, i) <=> One(v, i)
BY MachinePow2 DEF Machine!One, One

(* what a set of bits stands for,                                          *)
LEMMA MachineValue == \A S : Machine!Value(S) = Value(S)
BY MachinePow2 DEF Machine!Value, Value

(* and the size of a set.                                                  *)
LEMMA MachineCardinality == \A S : Machine!Cardinality(S) = Cardinality(S)
BY DEF Machine!Cardinality, Cardinality

(* The machine's word of a number is its bits under the mask.              *)
LEMMA MachineWord == \A n : Machine!Word(n) = Low(n, size)
BY MachineOne DEF Machine!Word, Low

(* What is known of a width under which there is a mask.                   *)
LEMMA SizeRange == size \in 1 .. Bits => size \in 0 .. Bits /\ size \in Nat \ {0}
BY Widths

(* An operand that was checked is what its bits say.                       *)
LEMMA SmallValue ==
  ASSUME size \in 1 .. Bits, NEW b \in 0 .. size - 1
  PROVE  Value(Low(b, size)) = b
<1>1. size \in 0 .. Bits /\ b \in Int
  BY Widths
<1>2. PICK p \in Nat \ {0} : p = Pow2[size]
  BY <1>1, Pow2Is
<1>3. b \in 0 .. p - 1
  <2>1. size < p
    BY <1>1, <1>2, Pow2Above
  <2> QED BY <1>1, <2>1
<1>4. b % p = b
  BY <1>3
<1> QED BY <1>1, <1>2, <1>4, ValueOfLow

-----------------------------------------------------------------------------
(* One lemma for each group of operators: what is seen of the answer is    *)
(* the machine's.                                                          *)
Right(op, a, b) == Seen(Result(op, a, b)) = Machine!Apply(op, Seen(a), Seen(b))

(* The operators that work bit by bit need nothing but the bits.           *)
LEMMA BitwiseRight ==
  ASSUME size \in 1 .. Bits, NEW a \in Int, NEW b \in Int,
         NEW op \in {"&", "|", "^", "nor", "nand", "not"}
  PROVE  Right(op, a, b)
<1>1. size \in 0 .. Bits /\ Bits \in 0 .. Bits
  BY Widths
<1>2. \A v : Seen(v) = Low(v, size)
  BY LowSeen
<1>3. \A S : Low(Signed(S), size) = S \cap 0 .. size - 1
  BY <1>1, LowOfSigned
<1>4. \A S : Low(Flip(Signed(S)), size) = (0 .. size - 1) \ S
  <2> TAKE S
  <2>1. Signed(S) \in Int
    BY SignedRange, InRange
  <2> QED BY <1>1, <1>3, <2>1, LowOfFlip
<1>5. \A v : BitsOf(v) \cap 0 .. size - 1 = Low(v, size)
  BY <1>1, LowBitsOf, Known
<1>6. \A v : Low(v, size) \subseteq 0 .. size - 1
  BY DEF Low
<1>7. PICK A, B, w, v : A = BitsOf(a) /\ B = BitsOf(b) /\ w = Low(a, size) /\ v = Low(b, size)
  OBVIOUS
<1>8. w = A \cap 0 .. size - 1 /\ v = B \cap 0 .. size - 1
  BY <1>5, <1>7
<1> HIDE DEF Low
<1>9. CASE op = "&"
  BY <1>2, <1>3, <1>7, <1>8, <1>9 DEF Right, Result, Machine!Apply
<1>10. CASE op = "|"
  BY <1>2, <1>3, <1>7, <1>8, <1>10 DEF Right, Result, Machine!Apply
<1>11. CASE op = "^"
  BY <1>2, <1>3, <1>7, <1>8, <1>11
     DEF Right, Result, Machine!Apply, Machine!SymmetricDifference
<1>12. CASE op = "nor"
  BY <1>2, <1>4, <1>7, <1>8, <1>12 DEF Right, Result, Machine!Apply, Machine!Complement
<1>13. CASE op = "nand"
  BY <1>2, <1>4, <1>7, <1>8, <1>13 DEF Right, Result, Machine!Apply, Machine!Complement
<1>14. CASE op = "not"
  <2>1. Low(Flip(a), size) = (0 .. size - 1) \ w
    BY <1>1, <1>7, LowOfFlip
  <2> QED BY <1>2, <1>7, <1>14, <2>1 DEF Right, Result, Machine!Apply, Machine!Complement
<1> QED BY <1>9, <1>10, <1>11, <1>12, <1>13, <1>14

(* Sums, differences and products modulo 2^size do not either, whatever    *)
(* the bits above are.                                                     *)
LEMMA ArithmeticRight ==
  ASSUME size \in 1 .. Bits, NEW a \in Int, NEW b \in Int, NEW op \in {"+", "-", "*"}
  PROVE  Right(op, a, b)
<1>1. size \in 0 .. Bits
  BY Widths
<1>2. \A v : Seen(v) = Low(v, size)
  BY LowSeen
<1>3. PICK x, y : x = Value(Low(a, size)) /\ y = Value(Low(b, size))
  OBVIOUS
<1>4. /\ Low(a + b, size) = Low(x + y, size)
      /\ Low(a - b, size) = Low(x - y, size)
      /\ Low(a * b, size) = Low(x * y, size)
  BY <1>1, <1>3, Arithmetic
<1>5. PICK e \in Int, f \in Int, g \in Int : e = a + b /\ f = a - b /\ g = a * b
  OBVIOUS
<1>6. \A n \in Int : Low(Wrap(n), size) = Low(n, size)
  BY <1>1, LowOfWrap
<1>7. /\ Low(Wrap(e), size) = Low(x + y, size)
      /\ Low(Wrap(f), size) = Low(x - y, size)
      /\ Low(Wrap(g), size) = Low(x * y, size)
  BY <1>4, <1>5, <1>6
<1>8. CASE op = "+"
  BY <1>2, <1>3, <1>5, <1>7, <1>8, MachineWord, MachineValue DEF Right, Result, Machine!Apply
<1>9. CASE op = "-"
  BY <1>2, <1>3, <1>5, <1>7, <1>9, MachineWord, MachineValue DEF Right, Result, Machine!Apply
<1>10. CASE op = "*"
  BY <1>2, <1>3, <1>5, <1>7, <1>10, MachineWord, MachineValue DEF Right, Result, Machine!Apply
<1> QED BY <1>8, <1>9, <1>10

(* Neither do the shifts that fill with zeros.                             *)
LEMMA ShiftsRight ==
  ASSUME size \in 1 .. Bits, NEW a \in Int, NEW b \in 0 .. size - 1, NEW op \in {"<", "sr"}
  PROVE  Right(op, a, b)
<1>1. size \in 0 .. Bits /\ b \in 0 .. Bits - 1 /\ b \in 0 .. Bits
  BY Widths
<1>2. \A v : Seen(v) = Low(v, size)
  BY LowSeen
<1>3. PICK w \in SUBSET (0 .. size - 1) : w = Low(a, size)
  BY DEF Low
<1>4. Machine!Value(Seen(b)) = b
  BY <1>2, SmallValue, MachineValue
<1>5. CASE op = "<"
  <2>1. PICK p \in Nat : p = Pow2[b]
    BY <1>1, Pow2Is
  <2>2. PICK x \in Int : x = a * p
    OBVIOUS
  <2>3. \A j \in 0 .. size - 1 : One(x, j) <=> j >= b /\ One(a, j - b)
    <3>1. \A j \in 0 .. size - 1 : j \in 0 .. Bits - 1
      BY Widths
    <3> QED BY <1>1, <2>1, <2>2, <3>1, OneOfShift
  <2>4. \A j \in 0 .. size - 1 : j \in Low(x, size) <=> j \in {i + b : i \in w}
    <3> TAKE j \in 0 .. size - 1
    <3>1. j \in Low(x, size) <=> j >= b /\ One(a, j - b)
      BY <2>3 DEF Low
    <3>2. j >= b /\ One(a, j - b) <=> j - b \in w
      BY <1>3, Widths DEF Low
    <3>3. j - b \in w <=> j \in {i + b : i \in w}
      BY Widths
    <3> QED BY <3>1, <3>2, <3>3
  <2>5. Low(x, size) = {i + b : i \in w} \cap 0 .. size - 1
    BY <2>4 DEF Low
  <2>6. Seen(Wrap(x)) = Low(x, size)
    BY <1>1, <1>2, LowOfWrap
  <2> QED BY <1>2, <1>3, <1>4, <1>5, <2>1, <2>2, <2>5, <2>6 DEF Right, Result, Machine!Apply
<1>6. CASE op = "sr"
  <2>1. MaskedBits(a) = w
    BY <1>3, LowSeen
  <2>2. b % Bits = b
    BY <1>1, Widths
  <2>3. Seen(Signed(ShiftRight(w, b))) = ShiftRight(w, b) \cap 0 .. size - 1
    BY <1>1, <1>2, LowOfSigned
  <2>4. ShiftRight(w, b) \cap 0 .. size - 1 = {i - b : i \in w} \cap 0 .. size - 1
    BY <1>1, <2>2, Widths DEF ShiftRight
  <2> QED BY <1>2, <1>3, <1>4, <1>6, <2>1, <2>3, <2>4
          DEF Right, Result, LogicalShift, Machine!Apply
<1> QED BY <1>5, <1>6

(* A rotation takes its distance modulo the width, which divides 2^size:   *)
(* the bits of the distance under the mask are enough.                     *)
LEMMA RotationsRight ==
  ASSUME size \in Sizes, NEW a \in Int, NEW b \in Nat, NEW op \in {"r", "l"}
  PROVE  Right(op, a, b)
<1>1. size \in 1 .. Bits /\ size \in 0 .. Bits /\ size \in Nat \ {0}
  BY SizeIs, Widths
<1>2. \A v : Seen(v) = Low(v, size)
  BY <1>1, LowSeen
<1>3. PICK w \in SUBSET (0 .. size - 1) : w = Low(a, size)
  BY DEF Low
<1>4. MaskedBits(a) = w
  BY <1>1, <1>3, LowSeen
<1>5. PICK k \in 0 .. size - 1 : k = b % size
  BY <1>1
<1>6. PICK x : x = Machine!Value(Seen(b))
  OBVIOUS
<1>7. x \in Nat /\ x % size = k
  <2>1. PICK j \in 0 .. size : size = Pow2[j]
    BY SizeIs
  <2>2. PICK d \in Nat \ {0} : d = Pow2[size]
    BY <1>1, Pow2Is
  <2>3. PICK c \in Nat : d = c * size
    BY <1>1, <2>1, <2>2, Pow2Divides
  <2>4. x = b % d
    BY <1>1, <1>2, <1>6, <2>2, MachineValue, ValueOfLow
  <2>5. (b % d) % size = b % size
    <3>1. size \in Nat \ {0} /\ c \in Nat /\ d \in Nat \ {0} /\ d = c * size /\ b \in Int
      BY <1>1, <2>3
    <3> QED BY ONLY <3>1, RemainderTwice
  <2> QED BY <1>5, <2>4, <2>5
<1>8. ASSUME NEW S PROVE Seen(SignExtend(Masked(Signed(S)))) = S \cap 0 .. size - 1
  <2>1. Seen(SignExtend(Masked(Signed(S)))) = Low(Masked(Signed(S)), size)
    BY <1>1, <1>2, LowOfSignExtend
  <2>2. Low(Masked(Signed(S)), size) = Low(Signed(S), size) \cap 0 .. size - 1
    BY <1>1, LowOfSigned, LowSeen DEF Masked
  <2>3. Low(Signed(S), size) = S \cap 0 .. size - 1
    BY <1>1, LowOfSigned
  <2> QED BY <2>1, <2>2, <2>3
<1>9. CASE op = "l"
  <2>1. (ShiftLeft(w, k) \cup ShiftRight(w, size - k)) \cap 0 .. size - 1 = {(i + k) % size : i \in w}
    BY <1>1, Rotations
  <2>2. \A i \in w : (i + k) % size = (i + x) % size
    <3> TAKE i \in w
    <3>1. PICK q \in Int : x = k + q * size
      <4>1. x \in Int /\ size \in Nat \ {0}
        BY <1>1, <1>7
      <4>2. \E q \in Int : x = (x % size) + q * size
        BY ONLY <4>1, Multiple
      <4> QED BY <1>7, <4>2
    <3>2. i \in Int /\ i + k \in Int /\ i + x = (i + k) + q * size
      BY <1>1, <1>7, <3>1
    <3>3. PICK e \in Int, f \in Int : e = i + k /\ f = i + x /\ f = e + q * size
      BY <1>7, <3>2
    <3>4. f % size = e % size
      BY ONLY <1>1, <3>3, Shifted
    <3> QED BY <3>3, <3>4
  <2>3. Seen(Result(op, a, b)) = {(i + x) % size : i \in w}
    BY <1>4, <1>5, <1>8, <1>9, <2>1, <2>2 DEF Result, Rotate
  <2> QED BY <1>2, <1>3, <1>6, <1>9, <2>3 DEF Right, Machine!Apply
<1>10. CASE op = "r"
  <2>1. (ShiftRight(w, k) \cup ShiftLeft(w, size - k)) \cap 0 .. size - 1
           = {(i + size - k) % size : i \in w}
    BY <1>1, Rotations
  <2>2. Seen(Result(op, a, b)) = {(i + size - (x % size)) % size : i \in w}
    BY <1>4, <1>5, <1>7, <1>8, <1>10, <2>1 DEF Result, Rotate
  <2> QED BY <1>2, <1>3, <1>6, <1>10, <2>2 DEF Right, Machine!Apply
<1> QED BY <1>9, <1>10

(* Counts of ones count those under the mask.                              *)
LEMMA CountsRight ==
  ASSUME size \in 1 .. Bits, NEW a, NEW b, NEW op \in {"ones", "zeros", "parity", "hamming_dist"}
  PROVE  Right(op, a, b)
<1>1. size \in 0 .. Bits
  BY Widths
<1>2. \A v : Seen(v) = Low(v, size) /\ MaskedBits(v) = Low(v, size)
  BY LowSeen
<1>3. CASE op = "ones"
  BY <1>2, <1>3, MachineWord, MachineCardinality DEF Right, Result, Ones, Machine!Apply
<1>4. CASE op = "zeros"
  BY <1>2, <1>4, MachineWord, MachineCardinality DEF Right, Result, Ones, Machine!Apply
<1>5. CASE op = "parity"
  BY <1>2, <1>5, MachineWord, MachineCardinality DEF Right, Result, Ones, Machine!Apply
<1>6. CASE op = "hamming_dist"
  <2>1. PICK A, B, w, v : A = BitsOf(a) /\ B = BitsOf(b) /\ w = Low(a, size) /\ v = Low(b, size)
    OBVIOUS
  <2>2. w = A \cap 0 .. size - 1 /\ v = B \cap 0 .. size - 1
    <3>1. \A e : BitsOf(e) \cap 0 .. size - 1 = Low(e, size)
      <4>1. Bits \in 0 .. Bits
        BY Widths
      <4> QED BY <1>1, <4>1, LowBitsOf, Known
    <3> QED BY <2>1, <3>1
  <2>3. Low(Signed((A \cup B) \ (A \cap B)), size) = ((A \cup B) \ (A \cap B)) \cap 0 .. size - 1
    BY <1>1, LowOfSigned
  <2>4. ((A \cup B) \ (A \cap B)) \cap 0 .. size - 1 = (w \ v) \cup (v \ w)
    BY <2>2
  <2>5. Result(op, a, b) = Cardinality((w \ v) \cup (v \ w))
    BY <1>2, <1>6, <2>1, <2>3, <2>4 DEF Result, Ones
  <2> QED BY <1>2, <1>6, <2>1, <2>5, MachineWord, MachineCardinality
          DEF Right, Machine!Apply, Machine!SymmetricDifference
<1> QED BY <1>3, <1>4, <1>5, <1>6

(* mask_bit() is the word with that bit alone.                             *)
LEMMA MaskBitRight ==
  ASSUME size \in 1 .. Bits, NEW a \in 0 .. size - 1, NEW b
  PROVE  Right("mask_bit", a, b)
<1>1. size \in 0 .. Bits /\ a \in 0 .. Bits - 1 /\ a \in 0 .. Bits /\ a < size
  BY Widths
<1>2. \A v : Seen(v) = Low(v, size)
  BY LowSeen
<1>3. Machine!Value(Seen(a)) = a
  BY <1>2, SmallValue, MachineValue
<1>4. Pow2[a] \in Int
  BY <1>1, Pow2Is
<1>5. Low(Wrap(Pow2[a]), size) = {a}
  BY <1>1, <1>4, LowOfWrap, LowOfPow2
<1> QED BY <1>2, <1>3, <1>5 DEF Right, Result, Machine!Apply

-----------------------------------------------------------------------------
(* The expression the machine has fetched, of the one that is parsed.      *)
Instr(n) == IF n = None THEN None ELSE [op |-> n.op, operand |-> Seen(n.operand)]

Nodes == [op : Operators, operand : MIN .. MAX]

(* What is seen under the mask is a word.                                  *)
LEMMA SeenWords ==
  ASSUME size \in 1 .. Bits, NEW v
  PROVE  Seen(v) \in Machine!Words(size) /\ Seen(v) \in SUBSET Int
BY Widths DEF Seen, Mask, Machine!Words

(* An expression that is parsed is one that is fetched.                    *)
LEMMA InstrIs ==
  ASSUME size \in 1 .. Bits, NEW n \in Nodes
  PROVE  /\ n # None /\ Instr(n) # None
         /\ Instr(n) = [op |-> n.op, operand |-> Seen(n.operand)]
         /\ Instr(n) \in [op : Operators, operand : Machine!Words(size)]
<1>1. n.op \in Operators /\ n.operand \in Int
  BY InRange DEF Nodes
<1>2. n \in [op : Operators, operand : Int \cup SUBSET Int]
  BY <1>1 DEF Nodes
<1>3. n # None
  BY <1>2, NoneAssumption
<1>4. Instr(n) = [op |-> n.op, operand |-> Seen(n.operand)]
  BY <1>3 DEF Instr
<1>5. Seen(n.operand) \in Machine!Words(size) /\ Seen(n.operand) \in SUBSET Int
  BY SeenWords
<1>6. Instr(n) \in [op : Operators, operand : Int \cup SUBSET Int]
  BY <1>1, <1>4, <1>5
<1>7. Instr(n) # None
  BY <1>6, NoneAssumption
<1> QED BY <1>1, <1>3, <1>4, <1>5, <1>7

(* What the processor computes is right for the machine, or is for an      *)
(* operator the machine leaves open.                                       *)
LEMMA ResultRight ==
  ASSUME size \in Sizes, NEW op \in Operators, op \in Machine!ByBits,
         NEW a \in MIN .. MAX, NEW b \in MIN .. MAX, ~Refused(op, a, b)
  PROVE  Right(op, a, b)
<1>1. size \in 1 .. Bits /\ a \in Int /\ b \in Int
  BY SizeIs, InRange
<1>2. CASE op \in {"&", "|", "^", "nor", "nand", "not"}
  BY <1>1, <1>2, BitwiseRight
<1>3. CASE op \in {"+", "-", "*"}
  BY <1>1, <1>3, ArithmeticRight
<1>4. CASE op \in {"<", "sr"}
  <2>1. b \in 0 .. size - 1
    BY <1>4 DEF Refused
  <2> QED BY <1>1, <1>4, <2>1, ShiftsRight
<1>5. CASE op \in {"r", "l"}
  <2>1. b \in Nat
    BY <1>1, <1>5 DEF Refused
  <2> QED BY <1>1, <1>5, <2>1, RotationsRight
<1>6. CASE op \in {"ones", "zeros", "parity", "hamming_dist"}
  BY <1>1, <1>6, CountsRight
<1>7. CASE op = "mask_bit"
  <2>1. a \in 0 .. size - 1
    BY <1>7 DEF Refused
  <2> QED BY <1>1, <1>7, <2>1, MaskBitRight
<1> QED BY <1>2, <1>3, <1>4, <1>5, <1>6, <1>7 DEF Machine!ByBits

-----------------------------------------------------------------------------
(* The library starts as the machine does.                                 *)
LEMMA MachineInit == Init => Machine!Init
<1> SUFFICES ASSUME Init PROVE Machine!Init
  OBVIOUS
<1>1. size \in 1 .. Bits /\ size \in 0 .. Bits /\ ans = 0 /\ node = None
  BY SizeIs, Widths DEF Init
<1>2. Seen(0) = {}
  <2>1. Seen(0) = Low(0, size)
    BY <1>1, LowSeen
  <2>2. ASSUME NEW i \in 0 .. size - 1 PROVE ~One(0, i)
    <3>1. i \in 0 .. Bits
      BY <1>1, Widths
    <3>2. PICK p \in Nat \ {0} : p = Pow2[i]
      BY <3>1, Pow2Is
    <3>3. 0 \div p = 0 /\ 0 % 2 # 1
      OBVIOUS
    <3> QED BY <3>2, <3>3 DEF One
  <2> QED BY <2>1, <2>2 DEF Low
<1> QED BY <1>1, <1>2 DEF Init, Machine!Init

(* What is seen after a step.                                              *)
SeenAt(v, s) == BitsOf(v) \cap 0 .. s - 1
InstrAt(n, s) == IF n = None THEN None ELSE [op |-> n.op, operand |-> SeenAt(n.operand, s)]

(* What is seen now and                                                    *)
LEMMA SeenNow ==
  /\ \A v : Seen(v) = SeenAt(v, size)
  /\ \A n : Instr(n) = InstrAt(n, size)
BY DEF Seen, Mask, SeenAt, Instr, InstrAt

(* what is seen after the step, each with its own mask.                    *)
LEMMA SeenNext ==
  /\ Seen(ans)' = SeenAt(ans', size')
  /\ Instr(node)' = InstrAt(node', size')
BY DEF Seen, Mask, SeenAt, Instr, InstrAt, BitsOf

(* What is seen through a mask of that width is a word of that width.      *)
LEMMA SeenAtWords ==
  ASSUME NEW s \in 1 .. Bits, NEW v
  PROVE  SeenAt(v, s) \in SUBSET (0 .. s - 1)
BY DEF SeenAt

(* A step of the machine, in terms of what is seen.                        *)
LEMMA MachineActions ==
  LET w == Seen(ans)
      i == Instr(node)
  IN  /\ Machine!Load <=> i = None /\ w' \in SUBSET (0 .. size - 1) /\ size' = size /\ i' = i
      /\ Machine!Fetch <=> /\ i = None /\ size' = size /\ w' = w
                           /\ i' \in [op : Operators, operand : SUBSET (0 .. size - 1)]
      /\ Machine!Execute <=> /\ i # None /\ i' = None /\ size' = size
                             /\ w' \in IF i.op \in Machine!ByBits
                                       THEN {Machine!Apply(i.op, w, i.operand)}
                                       ELSE SUBSET (0 .. size - 1)
      /\ Machine!Refuse <=> i # None /\ i' = None /\ size' = size /\ w' = w
BY DEF Machine!Load, Machine!Fetch, Machine!Execute, Machine!Refuse, Machine!Words, Instr

(* Setting another width keeps the bits both words have, of the register   *)
(* and of the operand.                                                     *)
LEMMA MachineSetSize ==
  ASSUME NEW s, size' = s,
         Seen(ans)' \in SUBSET (0 .. s - 1),
         \A j \in 0 .. size - 1 : j < s => (j \in Seen(ans) <=> j \in Seen(ans)'),
         \/ Instr(node) = None /\ Instr(node)' = None
         \/ /\ Instr(node) # None
            /\ Instr(node)' \in [op : {Instr(node).op}, operand : SUBSET (0 .. s - 1)]
            /\ \A j \in 0 .. size - 1 :
                 j < s => (j \in Instr(node).operand <=> j \in Instr(node)'.operand)
  PROVE  Machine!SetSize(s)
BY DEF Machine!SetSize, Machine!Words, Instr

(* Every step of the library is a step of the machine, or stutters.        *)
LEMMA MachineStep == TypeOK /\ TypeOK' /\ [Next]_vars => [Machine!Next]_(Machine!vars)
<1> SUFFICES ASSUME TypeOK, TypeOK', [Next]_vars PROVE [Machine!Next]_(Machine!vars)
  OBVIOUS
<1>1. /\ size \in Sizes /\ size \in 1 .. Bits
      /\ ans \in MIN .. MAX /\ node \in {None} \cup Nodes /\ node' \in {None} \cup Nodes
  BY SizeIs DEF TypeOK, Nodes
<1>2. ASSUME size' = size
      PROVE  /\ Seen(ans)' \in SUBSET (0 .. size - 1)
             /\ Seen(ans)' = SeenAt(ans', size)
             /\ Instr(node)' = InstrAt(node', size)
  BY <1>1, <1>2, SeenNext, SeenAtWords
<1>3. node = None <=> Instr(node) = None
  BY <1>1, InstrIs DEF Instr
<1>4. ASSUME NEW s \in Sizes, SetIntMask(s) PROVE Machine!SetSize(s)
  <2>1. size' = s /\ s \in 1 .. Bits /\ ans' = ans /\ node' = node
    BY <1>4, IntWidthAssumption DEF SetIntMask
  <2>2. Seen(ans)' = SeenAt(ans, s) /\ Instr(node)' = InstrAt(node, s)
    BY <2>1, SeenNext
  <2>3. \A v : \A j \in 0 .. size - 1 : j < s => (j \in SeenAt(v, size) <=> j \in SeenAt(v, s))
    BY <1>1, <2>1 DEF SeenAt
  <2>4. CASE node = None
    <3>1. Instr(node) = None /\ Instr(node)' = None
      BY <2>2, <2>4 DEF Instr, InstrAt
    <3> QED BY <2>1, <2>2, <2>3, <3>1, SeenAtWords, SeenNow, MachineSetSize
  <2>5. CASE node # None
    <3>1. Instr(node) # None /\ Instr(node).op = node.op /\ Instr(node).operand = SeenAt(node.operand, size)
      BY <1>3, <2>5, SeenNow DEF InstrAt
    <3>2. Instr(node)' = [op |-> node.op, operand |-> SeenAt(node.operand, s)]
      BY <2>2, <2>5 DEF InstrAt
    <3>3. Instr(node)' \in [op : {Instr(node).op}, operand : SUBSET (0 .. s - 1)]
      BY <2>1, <3>1, <3>2, SeenAtWords
    <3>4. Instr(node)'.operand = SeenAt(node.operand, s)
      BY <3>2
    <3> QED BY <2>1, <2>2, <2>3, <3>1, <3>3, <3>4, SeenAtWords, SeenNow, MachineSetSize
  <2> QED BY <2>4, <2>5
<1>5. ASSUME Load PROVE Machine!Load
  <2>1. node = None /\ node' = None /\ size' = size
    BY <1>5 DEF Load
  <2>2. Instr(node) = None /\ Instr(node)' = None
    BY <1>2, <2>1 DEF Instr, InstrAt
  <2> QED BY <1>2, <2>1, <2>2, MachineActions
<1>6. ASSUME Parse PROVE Machine!Fetch
  <2>1. node = None /\ size' = size /\ ans' = ans /\ node' # None
    <3>1. node' \in [op : Binary, operand : Read] \cup [op : Unary, operand : {0}]
      BY <1>6 DEF Parse
    <3>2. \A l \in Literals : Wrap(l.magnitude) \in Int /\ Wrap(-l.magnitude) \in Int
      <4>1. Pow2[Bits] - 1 \in Int /\ Magnitudes \subseteq 0 .. Pow2[Bits] - 1
        BY IntWidthAssumption, Limits
      <4>2. \A m \in Magnitudes : m \in Int /\ -m \in Int
        BY <4>1
      <4> QED BY <4>2, WrapRange, InRange DEF Literals
    <3>3. Read \cup {0} \subseteq Int \cup SUBSET Int
      BY <3>2 DEF Read
    <3>4. node' \in [op : Operators, operand : Int \cup SUBSET Int]
      BY <3>1, <3>3 DEF Operators
    <3> QED BY <1>6, <3>4, NoneAssumption DEF Parse
  <2>2. Instr(node) = None
    BY <2>1 DEF Instr
  <2>3. Instr(node)' = Instr(node')
    BY <1>2, <2>1, SeenNow
  <2>4. Seen(ans)' = Seen(ans)
    BY <1>2, <2>1, SeenNow
  <2>5. Instr(node') \in [op : Operators, operand : SUBSET (0 .. size - 1)]
    BY <1>1, <2>1, InstrIs DEF Machine!Words
  <2> QED BY <2>1, <2>2, <2>3, <2>4, <2>5, MachineActions
<1>7. ASSUME Evaluate PROVE Machine!Execute
  <2>1. node # None /\ node' = None /\ size' = size /\ node \in Nodes
    BY <1>1, <1>7 DEF Evaluate
  <2>2. PICK op \in Operators, b \in MIN .. MAX : op = node.op /\ b = node.operand
    BY <2>1 DEF Nodes
  <2>3. ~Refused(op, ans, b) /\ ans' = Result(op, ans, b)
    BY <1>7, <2>2 DEF Evaluate
  <2>4. Instr(node) # None /\ Instr(node).op = op /\ Instr(node).operand = Seen(b)
    BY <1>1, <2>1, <2>2, InstrIs
  <2>5. Instr(node)' = None
    BY <1>2, <2>1 DEF InstrAt
  <2>6. Seen(ans)' = Seen(ans')
    BY <1>2, <2>1, SeenNow
  <2>7. CASE op \in Machine!ByBits
    <3>1. Right(op, ans, b)
      BY <1>1, <2>3, <2>7, ResultRight
    <3>2. Seen(ans)' = Machine!Apply(op, Seen(ans), Seen(b))
      BY <2>3, <2>6, <3>1 DEF Right
    <3> QED BY <2>1, <2>4, <2>5, <2>7, <3>2, MachineActions
  <2>8. CASE op \notin Machine!ByBits
    BY <1>2, <2>1, <2>4, <2>5, <2>8, MachineActions
  <2> QED BY <2>7, <2>8
<1>8. ASSUME EvaluateRand PROVE Machine!Execute
  <2>1. node # None /\ node.op = "rand" /\ node' = None /\ size' = size /\ node \in Nodes
    BY <1>1, <1>8 DEF EvaluateRand
  <2>2. Instr(node) # None /\ Instr(node).op = "rand"
    BY <1>1, <2>1, InstrIs
  <2>3. Instr(node)' = None
    BY <1>2, <2>1 DEF InstrAt
  <2>4. "rand" \notin Machine!ByBits
    BY DEF Machine!ByBits
  <2> QED BY <1>2, <2>1, <2>2, <2>3, <2>4, MachineActions
<1>9. ASSUME Refuse PROVE Machine!Refuse
  <2>1. node # None /\ node' = None /\ size' = size /\ ans' = ans
    BY <1>9 DEF Refuse
  <2>2. Instr(node)' = None /\ Seen(ans)' = Seen(ans)
    BY <1>2, <2>1, SeenNow DEF InstrAt
  <2> QED BY <1>3, <2>1, <2>2, MachineActions
<1>10. ASSUME size' = size, ans' = ans, node' = node PROVE UNCHANGED Machine!vars
  <2>1. Seen(ans)' = Seen(ans) /\ Instr(node)' = Instr(node)
    BY <1>2, <1>10, SeenNow
  <2> QED BY <1>10, <2>1 DEF Machine!vars, Instr
<1>11. ASSUME Trap PROVE UNCHANGED Machine!vars
  BY <1>10, <1>11 DEF Trap
<1>12. ASSUME UNCHANGED vars PROVE UNCHANGED Machine!vars
  BY <1>10, <1>12 DEF vars
<1> QED
  BY <1>4, <1>5, <1>6, <1>7, <1>8, <1>9, <1>11, <1>12 DEF Next, Machine!Next

(* Seen through the mask the library is a machine with words of that       *)
(* width: every operator of _tms_int_evaluate_unsafe and every function of *)
(* bitwise.c that can be told from words (all but division, arithmetic     *)
(* shift, powers and the like) answers, under the mask, what the machine's *)
(* instruction gives for the words under the mask, whatever the bits above *)
(* it are; and tms_set_int_mask may come between parsing and evaluating.   *)
THEOREM IntWidthRefines == Spec => Implements
<1>1. Init => Machine!Init
  BY MachineInit
<1>2. TypeOK /\ TypeOK' /\ [Next]_vars => [Machine!Next]_(Machine!vars)
  BY MachineStep
<1> QED BY <1>1, <1>2, IntWidthTypes, PTL DEF Spec, Implements, Machine!Spec

-----------------------------------------------------------------------------
(* The shapes of masks.                                                    *)
LEMMA OnesOfMinusOne == \A i \in 0 .. Bits : One(-1, i)
<1> TAKE i \in 0 .. Bits
<1>1. PICK p \in Nat \ {0} : p = Pow2[i]
  BY Pow2Is
<1>2. PICK y \in Int, r \in 0 .. p - 1, m \in Int : y = -p /\ y = p * m /\ m = -1 /\ r = p - 1
  OBVIOUS
<1>3. -1 = y + r
  BY <1>2
<1>4. (-1) \div p = m
  BY <1>2, <1>3, DivisionUnique
<1>5. m % 2 = 1
  <2>1. PICK d \in Nat \ {0}, z \in Int, e \in 0 .. 1 : d = 2 /\ e = 1 /\ z = d * m /\ m = z + e
    <3>1. 1 \in 0 .. 2 - 1 /\ -2 \in Int /\ -2 = 2 * m /\ m = -2 + 1
      BY <1>2
    <3> QED BY <3>1
  <2>2. d \in Nat \ {0} /\ m \in Int /\ e \in 0 .. d - 1 /\ z \in Int /\ z = d * m /\ m = z + e
    BY <1>2, <2>1
  <2>3. m % d = e
    BY ONLY <2>2, DivisionUnique
  <2> QED BY <2>1, <2>3
<1> QED BY <1>1, <1>2, <1>4, <1>5 DEF One

(* Truncation to a variable keeps every bit,                               *)
LEMMA OneOfWrap ==
  ASSUME NEW x \in Int, NEW i \in 0 .. Bits - 1
  PROVE  One(Wrap(x), i) <=> One(x, i)
<1>1. Bits \in 0 .. Bits
  BY Widths
<1>2. Low(Wrap(x), Bits) = Low(x, Bits)
  BY <1>1, LowOfWrap
<1> QED BY <1>2 DEF Low

(* and ~ flips it.                                                         *)
LEMMA OneOfFlip ==
  ASSUME NEW x \in Int, NEW i \in 0 .. Bits - 1
  PROVE  One(Flip(x), i) <=> ~One(x, i)
<1>1. Bits \in 0 .. Bits
  BY Widths
<1>2. Low(Flip(x), Bits) = (0 .. Bits - 1) \ Low(x, Bits)
  BY <1>1, LowOfFlip
<1> QED BY <1>2 DEF Low

(* The mask of n bits has the n lowest, also when n is the width of a      *)
(* variable or more.                                                       *)
LEMMA OneOfLowBits ==
  ASSUME NEW n \in Nat, NEW i \in 0 .. Bits - 1
  PROVE  One(LowBits(n), i) <=> i < n
<1>1. Bits \in Nat /\ i \in 0 .. Bits
  BY Widths
<1>2. CASE n > Bits - 1
  BY <1>1, <1>2, OnesOfMinusOne DEF LowBits
<1>3. CASE ~(n > Bits - 1)
  <2>1. n \in 0 .. Bits
    BY <1>1, <1>3
  <2>2. PICK p \in Nat : p = Pow2[n]
    BY <2>1, Pow2Is
  <2>3. PICK x \in Int, y \in Int : x = (-1) * p /\ y = p - 1 /\ y = Flip(x)
    BY DEF Flip
  <2>4. One(x, i) <=> i >= n
    <3>1. One(x, i) <=> i >= n /\ One(-1, i - n)
      <4>1. -1 \in Int
        OBVIOUS
      <4> QED BY <2>1, <2>2, <2>3, <4>1, OneOfShift
    <3>2. i >= n => i - n \in 0 .. Bits
      BY <1>1
    <3> QED BY <3>1, <3>2, OnesOfMinusOne
  <2>5. One(Flip(x), i) <=> ~(i >= n)
    BY <2>4, OneOfFlip
  <2>6. One(Wrap(y), i) <=> ~(i >= n)
    BY <2>3, <2>5, OneOfWrap
  <2>7. LowBits(n) = Wrap(y)
    BY <1>3, <2>2, <2>3 DEF LowBits
  <2> QED BY <2>6, <2>7
<1> QED BY <1>2, <1>3

(* A negative width gives the inverse.                                     *)
LEMMA OneOfMask ==
  ASSUME NEW n \in Int, NEW i \in 0 .. Bits - 1
  PROVE  One(MaskOf(n), i) <=> IF n >= 0 THEN i < n ELSE i >= -n
<1>1. CASE n < 0
  <2>1. PICK m \in Nat : m = -n
    BY <1>1
  <2>2. LowBits(m) \in Int
    BY LowBitsRange, InRange
  <2>3. One(Flip(LowBits(m)), i) <=> ~(i < m)
    BY <2>2, OneOfFlip, OneOfLowBits
  <2> QED BY <1>1, <2>1, <2>3 DEF MaskOf
<1>2. CASE ~(n < 0)
  BY <1>2, OneOfLowBits DEF MaskOf
<1> QED BY <1>1, <1>2

(* A mask moved to the left starts there.                                  *)
LEMMA OneOfRange ==
  ASSUME NEW a \in 0 .. Bits - 1, NEW b \in 0 .. Bits - 1, a <= b, NEW i \in 0 .. Bits - 1
  PROVE  One(Wrap(LowBits(b - a + 1) * Pow2[a]), i) <=> a <= i /\ i <= b
<1>1. PICK n \in Nat : n = b - a + 1
  BY Widths
<1>2. PICK l \in Int : l = LowBits(n)
  BY LowBitsRange, InRange
<1>3. a \in 0 .. Bits
  BY Widths
<1>4. PICK p \in Nat : p = Pow2[a]
  BY <1>3, Pow2Is
<1>5. PICK x \in Int : x = l * p
  OBVIOUS
<1>6. One(x, i) <=> i >= a /\ One(l, i - a)
  BY <1>3, <1>4, <1>5, OneOfShift
<1>7. i >= a => i - a \in 0 .. Bits - 1 /\ (i - a < n <=> i <= b)
  BY <1>1, Widths
<1>8. i >= a => (One(l, i - a) <=> i <= b)
  BY <1>2, <1>7, OneOfLowBits
<1>9. One(Wrap(x), i) <=> a <= i /\ i <= b
  BY <1>6, <1>8, OneOfWrap
<1> QED BY <1>1, <1>2, <1>4, <1>5, <1>9

(* When the range is given backwards, it is what is left out.              *)
LEMMA OneOfMaskRange ==
  ASSUME NEW a \in 0 .. Bits - 1, NEW b \in 0 .. Bits - 1, NEW i \in 0 .. Bits - 1
  PROVE  One(MaskRange(a, b), i) <=> IF a <= b THEN a <= i /\ i <= b ELSE ~(b <= i /\ i <= a)
<1>1. CASE a <= b
  BY <1>1, OneOfRange DEF MaskRange
<1>2. CASE ~(a <= b)
  <2>1. b <= a
    BY <1>2, Widths
  <2>2. PICK x : x = LowBits(a - b + 1) * Pow2[b]
    OBVIOUS
  <2>3. x \in Int
    <3>1. PICK n \in Nat : n = a - b + 1
      BY <2>1, Widths
    <3>2. b \in 0 .. Bits
      BY Widths
    <3>3. PICK l \in Int, p \in Int : l = LowBits(n) /\ p = Pow2[b]
      BY <3>2, LowBitsRange, InRange, Pow2Is
    <3> QED BY <2>2, <3>1, <3>3
  <2>4. One(Wrap(x), i) <=> b <= i /\ i <= a
    BY <2>1, <2>2, OneOfRange
  <2>5. Wrap(x) \in Int
    BY <2>3, WrapRange, InRange
  <2>6. One(Flip(Wrap(x)), i) <=> ~(b <= i /\ i <= a)
    BY <2>4, <2>5, OneOfFlip
  <2> QED BY <1>2, <2>2, <2>6 DEF MaskRange
<1> QED BY <1>1, <1>2

(* So each of the functions answers the mask it is named for.              *)
LEMMA MasksHaveShape ==
  ASSUME size \in 1 .. Bits, NEW a \in Int, NEW b \in Int, NEW op, ~Refused(op, a, b)
  PROVE  MaskShape(op, a, b, Result(op, a, b))
<1> SUFFICES ASSUME NEW i \in 0 .. Bits - 1
             PROVE  LET Bit == One(Result(op, a, b), i)
                    IN  /\ op = "mask" => (Bit <=> IF a >= 0 THEN i < a ELSE i >= -a)
                        /\ op = "inv_mask" => (Bit <=> IF a >= 0 THEN i >= a ELSE i < -a)
                        /\ op = "ipv4_prefix" => (Bit <=> i >= IntBits - a)
                        /\ op = "mask_range" =>
                             (Bit <=> IF a <= b THEN a <= i /\ i <= b ELSE ~(b <= i /\ i <= a))
  BY DEF MaskShape, BitsOf
<1>0. Bits \in Nat /\ i \in Int
  BY Widths
<1>1. ASSUME op = "mask"
      PROVE  One(Result(op, a, b), i) <=> IF a >= 0 THEN i < a ELSE i >= -a
  BY <1>1, OneOfMask DEF Result
<1>2. ASSUME op = "inv_mask"
      PROVE  One(Result(op, a, b), i) <=> IF a >= 0 THEN i >= a ELSE i < -a
  <2>1. PICK m \in Int : m = MaskOf(a)
    BY MaskOfRange, InRange
  <2>2. One(m, i) <=> IF a >= 0 THEN i < a ELSE i >= -a
    BY <2>1, OneOfMask
  <2>3. One(Flip(m), i) <=> ~One(m, i)
    BY OneOfFlip
  <2>4. Result(op, a, b) = Flip(m)
    BY <1>2, <2>1 DEF Result
  <2> QED BY <1>0, <2>2, <2>3, <2>4
<1>3. ASSUME op = "ipv4_prefix"
      PROVE  One(Result(op, a, b), i) <=> i >= IntBits - a
  <2>1. a \in 0 .. IntBits
    BY <1>3 DEF Refused
  <2>2. PICK n \in Nat : n = IntBits - a
    BY <2>1, Widths
  <2>3. PICK m \in Int : m = MaskOf(n)
    BY MaskOfRange, InRange
  <2>4. One(m, i) <=> i < n
    BY <2>3, OneOfMask
  <2>5. One(Flip(m), i) <=> ~One(m, i)
    BY OneOfFlip
  <2>6. Result(op, a, b) = Flip(m)
    BY <1>3, <2>2, <2>3 DEF Result
  <2> QED BY <1>0, <2>2, <2>4, <2>5, <2>6
<1>4. ASSUME op = "mask_range"
      PROVE  One(Result(op, a, b), i)
               <=> IF a <= b THEN a <= i /\ i <= b ELSE ~(b <= i /\ i <= a)
  <2>1. a \in 0 .. size - 1 /\ b \in 0 .. size - 1
    BY <1>4 DEF Refused
  <2>2. a \in 0 .. Bits - 1 /\ b \in 0 .. Bits - 1
    BY <2>1, Widths
  <2>3. Result(op, a, b) = MaskRange(a, b)
    BY <1>4 DEF Result
  <2> QED BY <2>2, <2>3, OneOfMaskRange
<1> QED BY <1>1, <1>2, <1>3, <1>4

(* The masks that tms_mask, tms_inv_mask, _tms_mask_range and              *)
(* tms_ipv4_prefix answer have exactly the bits they are named for.        *)
THEOREM IntWidthMasks == Spec => MaskShapes
<1>1. TypeOK /\ [Next]_vars =>
        [Evaluate => MaskShape(node.op, ans, node.operand, ans')]_vars
  <2> SUFFICES ASSUME TypeOK, Evaluate
               PROVE  MaskShape(node.op, ans, node.operand, ans')
    OBVIOUS
  <2>1. size \in 1 .. Bits /\ ans \in Int
    BY SizeIs, InRange DEF TypeOK
  <2>2. PICK b \in Int : b = node.operand
    BY InRange DEF TypeOK, Evaluate
  <2>3. ~Refused(node.op, ans, b) /\ ans' = Result(node.op, ans, b)
    BY <2>2 DEF Evaluate
  <2>4. PICK op : op = node.op
    OBVIOUS
  <2>5. MaskShape(op, ans, b, Result(op, ans, b))
    BY <2>1, <2>3, <2>4, MasksHaveShape
  <2> QED BY <2>2, <2>3, <2>4, <2>5
<1> QED BY <1>1, IntWidthTypes, PTL DEF Spec, MaskShapes

-----------------------------------------------------------------------------
(* Numbers with the same bits under the mask are congruent.                *)
LEMMA CongruentIs ==
  ASSUME size \in 1 .. Bits, NEW x \in Int, NEW y \in Int
  PROVE  Congruent(x, y) <=> Low(x, size) = Low(y, size)
<1>1. size \in 0 .. Bits
  BY Widths
<1>2. PICK p \in Nat \ {0} : p = Pow2[size]
  BY <1>1, Pow2Is
<1>3. PICK a \in Int, q \in Int : a = x % p /\ a \in 0 .. p - 1 /\ x = a + q * p
  <2>1. x % p \in 0 .. p - 1 /\ \E q \in Int : x = (x % p) + q * p
    BY Multiple
  <2>2. x % p \in Int
    BY <2>1
  <2> QED BY <2>1, <2>2
<1>4. PICK b \in Int, r \in Int : b = y % p /\ b \in 0 .. p - 1 /\ y = b + r * p
  <2>1. y % p \in 0 .. p - 1 /\ \E s \in Int : y = (y % p) + s * p
    BY Multiple
  <2>2. y % p \in Int
    BY <2>1
  <2> QED BY <2>1, <2>2
<1>5. PICK d \in Int : d = x - y
  OBVIOUS
<1>6. ASSUME a = b PROVE d % p = 0
  <2>1. PICK e \in Int, z \in Int : e = q - r /\ z = 0 /\ d = z + e * p
    BY <1>3, <1>4, <1>5, <1>6
  <2>2. d % p = z % p
    BY <2>1, Shifted
  <2> QED BY <2>1, <2>2
<1>7. ASSUME d % p = 0 PROVE a = b
  <2>1. PICK e \in Int : d = 0 + e * p
    <3>1. \E e \in Int : d = (d % p) + e * p
      BY Multiple
    <3> QED BY <1>7, <3>1
  <2>2. x = y + e * p
    BY <1>5, <2>1
  <2>3. x % p = y % p
    BY <2>2, Shifted
  <2> QED BY <1>3, <1>4, <2>3
<1>8. Congruent(x, y) <=> a = b
  BY <1>2, <1>5, <1>6, <1>7 DEF Congruent
<1>9. Low(x, size) = Low(y, size) <=> x % Pow2[size] = y % Pow2[size]
  BY <1>1, SameLow
<1> QED BY <1>2, <1>3, <1>4, <1>8, <1>9

(* Half of what the mask can hold.                                         *)
LEMMA HalfIs ==
  ASSUME size \in 1 .. Bits
  PROVE  \E h \in Nat \ {0} : /\ h = Pow2[size - 1] /\ Pow2[size] = 2 * h
                              /\ h <= MAX + 1
<1>1. size - 1 \in 0 .. Bits - 1 /\ size - 1 \in 0 .. Bits /\ (size - 1) + 1 = size
      /\ Bits - 1 \in 0 .. Bits /\ size - 1 \in 0 .. Bits - 1
  BY Widths
<1>2. PICK h \in Nat \ {0} : h = Pow2[size - 1]
  BY <1>1, Pow2Is
<1>3. Pow2[size] = 2 * h
  BY <1>1, <1>2, Pow2Is
<1>4. PICK m \in Nat \ {0} : m = Pow2[Bits - 1] /\ m = MAX + 1
  BY Limits
<1>5. PICK c \in Nat : m = c * h
  BY <1>1, <1>2, <1>4, Pow2Divides
<1>6. c # 0
  BY <1>5
<1>7. c * h >= h
  BY <1>6
<1> QED BY <1>2, <1>3, <1>4, <1>5, <1>7

(* A value of the signed width has ones above it if it is negative, and    *)
(* none otherwise.                                                         *)
LEMMA OnesOfCanonical ==
  ASSUME size \in 1 .. Bits, NEW c \in Int, Canonical(c), NEW i \in size - 1 .. Bits - 1
  PROVE  One(c, i) <=> c < 0
<1>1. i \in 0 .. Bits /\ size - 1 \in 0 .. i
  BY Widths
<1>2. PICK h \in Nat \ {0} : h = Pow2[size - 1]
  BY HalfIs
<1>3. PICK p \in Nat \ {0} : p = Pow2[i]
  BY <1>1, Pow2Is
<1>4. h <= p
  <2>1. PICK k \in Nat : p = k * h
    BY <1>1, <1>2, <1>3, Pow2Divides
  <2>2. k # 0
    BY <2>1
  <2>3. k * h >= h
    BY <2>2
  <2> QED BY <2>1, <2>3
<1>5. c >= -h /\ c <= h - 1
  BY <1>2 DEF Canonical
<1>6. CASE c < 0
  <2>1. PICK y \in Int, r \in 0 .. p - 1, m \in Int : y = -p /\ y = p * m /\ m = -1 /\ r = c + p
    <3>1. c + p \in 0 .. p - 1 /\ -p = p * (-1) /\ -p \in Int /\ -1 \in Int
      BY <1>4, <1>5, <1>6
    <3> QED BY <3>1
  <2>2. c = y + r
    BY <2>1
  <2>3. c \div p = m
    BY <2>1, <2>2, DivisionUnique
  <2>4. m \div 1 = -1 /\ 0 \in 0 .. Bits
    BY <2>1, Widths
  <2>5. One(-1, 0)
    BY <2>4, OnesOfMinusOne
  <2>6. m % 2 = 1
    <3>1. Pow2[0] = 1 /\ m \div 1 = m
      BY Pow2Is
    <3> QED BY <2>1, <2>5, <3>1 DEF One
  <2> QED BY <1>3, <1>6, <2>3, <2>6 DEF One
<1>7. CASE ~(c < 0)
  <2>1. c \in 0 .. p - 1
    BY <1>4, <1>5, <1>7
  <2>2. c \div p = 0 /\ 0 % 2 # 1
    BY <2>1
  <2> QED BY <1>3, <1>7, <2>2 DEF One
<1> QED BY <1>6, <1>7

(* A value of the width of the mask is a variable.                         *)
LEMMA CanonicalRange ==
  ASSUME size \in 1 .. Bits, NEW c, Canonical(c)
  PROVE  c \in MIN .. MAX /\ c \in Int
<1>1. PICK h \in Nat \ {0} : h = Pow2[size - 1] /\ h <= MAX + 1
  BY HalfIs
<1>2. PICK m \in Int : m = MAX /\ MIN = -m - 1
  BY Limits
<1>3. c \in -h .. h - 1
  BY <1>1 DEF Canonical
<1>4. c \in Int /\ c >= -m - 1 /\ c <= m
  BY <1>1, <1>2, <1>3
<1> QED BY <1>2, <1>4

(* There is one value of the signed width with given bits.                 *)
LEMMA CanonicalExists ==
  ASSUME size \in 1 .. Bits, NEW v \in Int
  PROVE  \E c \in MIN .. MAX : Canonical(c) /\ Congruent(c, v)
<1>1. PICK h \in Nat \ {0} : h = Pow2[size - 1] /\ Pow2[size] = 2 * h
  BY HalfIs
<1>2. PICK p \in Nat \ {0}, y \in Int : p = 2 * h /\ y = v + h
  OBVIOUS
<1>3. PICK r \in 0 .. p - 1, q \in Int : y = r + q * p
  BY Multiple
<1>4. PICK c \in Int : c = r - h
  OBVIOUS
<1>5. c \in -h .. h - 1
  BY <1>2, <1>4
<1>6. Canonical(c)
  BY <1>1, <1>5 DEF Canonical
<1>7. Congruent(c, v)
  <2>1. PICK d \in Int, e \in Int, z \in Int : d = c - v /\ e = -q /\ z = 0 /\ d = z + e * p
    <3>1. PICK x \in Int : x = q * p /\ (-q) * p = -x
      OBVIOUS
    <3>2. c - v = -x
      BY <1>2, <1>3, <1>4, <3>1
    <3>3. c - v \in Int /\ -q \in Int /\ c - v = 0 + (-q) * p
      BY <3>1, <3>2
    <3> QED BY <3>3
  <2>2. d \in Int /\ z \in Int /\ e \in Int /\ p \in Nat \ {0} /\ d = z + e * p
    BY <2>1
  <2>3. d % p = z % p
    BY ONLY <2>2, Shifted
  <2>4. z % p = 0
    BY <2>1
  <2> QED BY <1>1, <1>2, <2>1, <2>3, <2>4 DEF Congruent
<1> QED BY <1>6, <1>7, CanonicalRange

(* The bits of a value of the width of the mask: those under it, and       *)
(* copies of its sign above it.                                            *)
LEMMA BitsOfCanonical ==
  ASSUME size \in 1 .. Bits, NEW c \in Int, Canonical(c)
  PROVE  /\ size - 1 \in Low(c, size) <=> c < 0
         /\ BitsOf(c) = IF c < 0 THEN Low(c, size) \cup (size .. Bits - 1) ELSE Low(c, size)
<1>1. size - 1 \in size - 1 .. Bits - 1 /\ size - 1 \in 0 .. size - 1 /\ size \in Int /\ Bits \in Int
  BY Widths
<1>2. size - 1 \in Low(c, size) <=> c < 0
  BY <1>1, OnesOfCanonical DEF Low
<1>3. \A i \in size .. Bits - 1 : One(c, i) <=> c < 0
  <2>1. \A i \in size .. Bits - 1 : i \in size - 1 .. Bits - 1
    BY <1>1
  <2> QED BY <2>1, OnesOfCanonical
<1>4. BitsOf(c) = Low(c, size) \cup {i \in size .. Bits - 1 : One(c, i)}
  BY <1>1, Widths DEF BitsOf, Low
<1> QED BY <1>2, <1>3, <1>4

(* So there is one such value with these bits.                             *)
LEMMA CanonicalUnique ==
  ASSUME size \in 1 .. Bits, NEW c \in Int, Canonical(c), NEW d \in Int, Canonical(d),
         Low(c, size) = Low(d, size)
  PROVE  c = d
<1>1. c < 0 <=> d < 0
  BY BitsOfCanonical
<1>2. BitsOf(c) = BitsOf(d)
  BY <1>1, BitsOfCanonical
<1>3. c \in MIN .. MAX /\ d \in MIN .. MAX
  BY CanonicalRange
<1> QED BY <1>2, <1>3, SignedOfLow

(* tms_sign_extend makes it, of what the mask leaves.                      *)
LEMMA SignExtendMasked ==
  ASSUME size \in 1 .. Bits, NEW c \in Int, Canonical(c), NEW v, BitsOf(v) = Low(c, size), v \in MIN .. MAX
  PROVE  SignExtend(v) = c
<1>1. size - 1 \in BitsOf(v) <=> c < 0
  BY BitsOfCanonical
<1>2. Signed(BitsOf(c)) = c
  BY CanonicalRange, SignedOfLow
<1>3. CASE c < 0
  BY <1>1, <1>2, <1>3, BitsOfCanonical DEF SignExtend
<1>4. CASE ~(c < 0)
  <2>1. Signed(BitsOf(v)) = v
    BY SignedOfLow
  <2> QED BY <1>1, <1>2, <1>4, <2>1, BitsOfCanonical DEF SignExtend
<1> QED BY <1>3, <1>4

(* What tms_sign_extend makes of the bits under the mask is the value of   *)
(* the width of the mask with these bits.                                  *)
LEMMA SignExtendOfMasked ==
  ASSUME size \in 1 .. Bits, NEW v \in Int
  PROVE  /\ Canonical(SignExtend(Masked(v)))
         /\ Canonical(v) => SignExtend(Masked(v)) = v
<1>1. PICK c \in MIN .. MAX : Canonical(c) /\ Congruent(c, v)
  BY CanonicalExists
<1>2. c \in Int /\ Low(c, size) = Low(v, size)
  BY <1>1, InRange, CongruentIs
<1>3. Masked(v) = Signed(Low(v, size))
  BY LowSeen DEF Masked
<1>4. BitsOf(Masked(v)) = Low(v, size)
  <2>1. Bits \in 0 .. Bits
    BY Widths
  <2>2. Low(Masked(v), Bits) = Low(v, size) \cap 0 .. Bits - 1
    BY <1>3, <2>1, LowOfSigned
  <2>3. Low(v, size) \subseteq 0 .. Bits - 1
    BY Widths DEF Low
  <2> QED BY <2>2, <2>3, LowBitsOf
<1>5. SignExtend(Masked(v)) = c
  BY <1>1, <1>2, <1>4, MaskedRange, SignExtendMasked
<1>6. Canonical(v) => v = c
  BY <1>1, <1>2, CanonicalUnique
<1> QED BY <1>1, <1>5, <1>6

-----------------------------------------------------------------------------
(* The factorials are the function their definition recurs to.             *)
LEMMA FactorialIs ==
  /\ Factorial[0] = 1
  /\ \A n \in 0 .. Bits : Factorial[n] \in Nat \ {0}
  /\ \A n \in 0 .. Bits - 1 : Factorial[n + 1] = (n + 1) * Factorial[n]
<1> DEFINE Body(f) == [n \in 0 .. Bits |-> IF n = 0 THEN 1 ELSE n * f[n - 1]]
<1>1. \E f : f = Body(f)
  <2> DEFINE g == [x \in Nat \X Nat |-> x[1] * x[2]]
  <2>1. g \in [Nat \X Nat -> Nat]
    OBVIOUS
  <2>2. \A k \in Nat, y \in Nat : g[<<k, y>>] = k * y
    OBVIOUS
  <2> HIDE DEF g
  <2>3. PICK f \in [0 .. Bits -> Nat] : Recurs(f, 1, g, Bits)
    <3>1. 1 \in Nat /\ Bits \in Nat
      BY Widths
    <3> QED BY <2>1, <3>1, Recursion
  <2>4. ASSUME NEW k \in 0 .. Bits PROVE f[k] = IF k = 0 THEN 1 ELSE k * f[k - 1]
    <3>1. k # 0 => k - 1 \in 0 .. Bits /\ k \in Nat
      BY Widths
    <3>2. k # 0 => g[<<k, f[k - 1]>>] = k * f[k - 1]
      BY <2>2, <3>1
    <3> QED BY <2>3, <3>2 DEF Recurs
  <2>5. f = Body(f)
    BY <2>4
  <2> QED BY <2>5
<1>2. Factorial = CHOOSE f : f = Body(f)
  BY DEF Factorial
<1>3. Factorial = Body(Factorial)
  BY <1>1, <1>2
<1>4. \A n \in 0 .. Bits : Factorial[n] = IF n = 0 THEN 1 ELSE n * Factorial[n - 1]
  BY <1>3
<1> HIDE DEF Body
<1>5. ASSUME NEW n \in 0 .. Bits - 1 PROVE Factorial[n + 1] = (n + 1) * Factorial[n]
  <2>1. n + 1 \in 0 .. Bits /\ (n + 1) - 1 = n /\ n + 1 # 0
    BY Widths
  <2> QED BY <1>4, <2>1
<1>6. Factorial[0] = 1
  BY <1>4, Widths
<1> DEFINE S == {n \in Nat : n <= Bits => Factorial[n] \in Nat \ {0}}
<1>7. 0 \in S
  BY <1>6
<1>8. ASSUME NEW n \in S PROVE n + 1 \in S
  <2> SUFFICES ASSUME n + 1 <= Bits PROVE Factorial[n + 1] \in Nat \ {0}
    OBVIOUS
  <2>1. n \in 0 .. Bits - 1 /\ n <= Bits
    BY Widths
  <2>2. PICK f \in Nat \ {0} : f = Factorial[n]
    BY <1>8, <2>1
  <2>3. (n + 1) * f \in Nat \ {0}
    OBVIOUS
  <2> QED BY <1>5, <2>1, <2>2, <2>3
<1> HIDE DEF S
<1>9. S \in SUBSET Nat
  BY DEF S
<1>10. S = Nat
  BY <1>7, <1>8, <1>9, SetInduction
<1>11. \A n \in 0 .. Bits : Factorial[n] \in Nat \ {0}
  BY <1>10, Widths DEF S
<1> QED BY <1>5, <1>6, <1>11

(* The factorial of the width needs more bits than that.                   *)
LEMMA FactorialLarge == Factorial[Bits] > MAX
<1> DEFINE S == {n \in Nat : n + 1 <= Bits => Factorial[n + 1] >= Pow2[n]}
<1>1. 0 \in S
  <2>1. 0 \in 0 .. Bits - 1 /\ 0 + 1 = 1
    BY Widths
  <2> QED BY <2>1, FactorialIs, Pow2Is
<1>2. ASSUME NEW n \in S PROVE n + 1 \in S
  <2> SUFFICES ASSUME (n + 1) + 1 <= Bits PROVE Factorial[(n + 1) + 1] >= Pow2[n + 1]
    OBVIOUS
  <2>1. PICK m \in 0 .. Bits - 1 : m = n + 1 /\ n \in 0 .. Bits - 1 /\ m \in 0 .. Bits /\ n \in 0 .. Bits /\ n + 1 <= Bits
    BY Widths
  <2>2. PICK f \in Nat, p \in Nat : f = Factorial[m] /\ p = Pow2[n] /\ Pow2[m] = 2 * p /\ f >= p
    BY <1>2, <2>1, FactorialIs, Pow2Is
  <2>3. Factorial[m + 1] = (m + 1) * f
    BY <2>1, <2>2, FactorialIs
  <2>4. (m + 1) * f >= 2 * f
    <3>1. (m - 1) * f >= 0
      BY <2>1
    <3>2. (m - 1) * f = (m + 1) * f - 2 * f
      OBVIOUS
    <3>3. PICK x \in Int : x = (m + 1) * f
      OBVIOUS
    <3> QED BY <3>1, <3>2, <3>3
  <2>5. PICK x \in Int : x = (m + 1) * f
    OBVIOUS
  <2>6. x >= 2 * p
    BY <2>2, <2>4, <2>5
  <2> QED BY <2>1, <2>2, <2>3, <2>5, <2>6
<1> HIDE DEF S
<1>3. S \in SUBSET Nat
  BY DEF S
<1>4. S = Nat
  BY <1>1, <1>2, <1>3, SetInduction
<1>5. PICK n \in Nat : n = Bits - 1 /\ n + 1 = Bits
  BY Widths
<1>6. Factorial[n + 1] >= Pow2[n]
  <2>1. \A k \in Nat : k + 1 <= Bits => Factorial[k + 1] >= Pow2[k]
    BY ONLY <1>4 DEF S
  <2>2. n + 1 <= Bits
    BY <1>5, Widths
  <2> QED BY <2>1, <2>2
<1>7. PICK m \in Nat \ {0} : m = Pow2[Bits - 1] /\ m = MAX + 1
  BY Limits
<1>8. Factorial[Bits] \in Int
  BY FactorialIs, Widths
<1>9. PICK f \in Int, M \in Int : f = Factorial[Bits] /\ f >= m /\ M = MAX /\ m = M + 1
  BY <1>5, <1>6, <1>7, <1>8, Limits
<1> QED BY <1>9

(* tms_int_fact: the factorial, or 0 from the first that does not fit.     *)
LEMMA ProductIs ==
  ASSUME NEW n \in 0 .. MAX
  PROVE  /\ n <= Bits => Product(n) = IF Factorial[n] <= MAX THEN Factorial[n] ELSE 0
         /\ n >= Bits => Product(n) = 0
<1>1. PICK h : /\ \A k : Product(k) = h[k]
               /\ \A k \in 0 .. MAX :
                    /\ h[k] \in 0 .. MAX
                    /\ k < 2 => h[k] = 1
                    /\ k >= 2 => h[k] = IF h[k - 1] * k > MAX THEN 0 ELSE h[k - 1] * k
  BY Products
<1>2. PICK M \in Nat : M = MAX /\ Bits \in Nat /\ Bits >= 4 /\ M >= Bits + 1
  <2>1. PICK M \in Int : M = MAX
    BY Limits
  <2>2. Bits \in Nat /\ Bits >= 4 /\ M >= Bits + 1
    BY <2>1, Limits, Widths
  <2>3. M \in Nat
    BY <2>2
  <2> QED BY <2>1, <2>2, <2>3
<1> DEFINE S == {k \in Nat : k <= Bits => h[k] = IF Factorial[k] <= MAX THEN Factorial[k] ELSE 0}
<1>3. 0 \in S
  <2>1. h[0] = 1 /\ 1 <= MAX
    BY <1>1, <1>2
  <2> QED BY <2>1, FactorialIs
<1>4. ASSUME NEW k \in S PROVE k + 1 \in S
  <2> SUFFICES ASSUME k + 1 <= Bits
               PROVE  h[k + 1] = IF Factorial[k + 1] <= MAX THEN Factorial[k + 1] ELSE 0
    OBVIOUS
  <2>1. PICK j \in 0 .. MAX : j = k + 1 /\ j - 1 = k /\ k \in 0 .. Bits - 1 /\ k \in 0 .. Bits /\ k <= Bits
    BY <1>2
  <2>2. PICK f \in Nat \ {0} : f = Factorial[k]
    BY <2>1, FactorialIs
  <2>3. Factorial[j] = j * f
    BY <2>1, <2>2, FactorialIs
  <2>4. h[k] = IF f <= M THEN f ELSE 0
    BY <1>2, <1>4, <2>1, <2>2
  <2>5. CASE k = 0
    <3>1. h[j] = 1 /\ f = 1 /\ j * f = 1
      BY <1>1, <2>1, <2>2, <2>5, FactorialIs
    <3> QED BY <1>2, <2>1, <2>3, <3>1
  <2>6. CASE k # 0
    <3>1. h[j] = IF h[k] * j > M THEN 0 ELSE h[k] * j
      BY <1>1, <1>2, <2>1, <2>6
    <3>2. PICK x \in Nat : x = j * f /\ x = f * j
      BY <2>1
    <3>3. x >= f
      BY <2>1, <3>2
    <3>4. CASE f <= M
      BY <1>2, <2>1, <2>3, <2>4, <3>1, <3>2, <3>4
    <3>5. CASE ~(f <= M)
      <4>1. 0 * j = 0 /\ ~(x <= M)
        BY <1>2, <3>3, <3>5
      <4> QED BY <1>2, <2>1, <2>3, <2>4, <3>1, <3>2, <3>5, <4>1
    <3> QED BY <3>4, <3>5
  <2> QED BY <2>5, <2>6
<1> HIDE DEF S
<1>5. S \in SUBSET Nat
  BY DEF S
<1>6. S = Nat
  BY <1>3, <1>4, <1>5, SetInduction
<1>7. \A k \in 0 .. Bits : h[k] = IF Factorial[k] <= MAX THEN Factorial[k] ELSE 0
  BY <1>2, <1>6 DEF S
<1>8. h[Bits] = 0
  <2>1. Bits \in 0 .. Bits
    BY <1>2
  <2>2. PICK f \in Nat : f = Factorial[Bits] /\ f > M
    BY <1>2, <2>1, FactorialIs, FactorialLarge
  <2>3. ~(f <= M)
    BY <1>2, <2>2
  <2> QED BY <1>2, <1>7, <2>1, <2>2, <2>3
<1> DEFINE T == {k \in Nat : Bits + k <= M => h[Bits + k] = 0}
<1>9. 0 \in T
  <2>1. Bits + 0 = Bits
    BY <1>2
  <2> QED BY <1>8, <2>1
<1>10. ASSUME NEW k \in T PROVE k + 1 \in T
  <2> SUFFICES ASSUME Bits + (k + 1) <= M PROVE h[Bits + (k + 1)] = 0
    OBVIOUS
  <2>1. PICK i \in Nat, j \in 0 .. MAX : i = Bits + k /\ j = Bits + (k + 1) /\ j - 1 = i /\ i <= M /\ j >= 2
    BY <1>2
  <2>2. h[i] = 0
    BY <1>10, <2>1
  <2>3. h[j] = IF h[i] * j > M THEN 0 ELSE h[i] * j
    BY <1>1, <1>2, <2>1
  <2>4. 0 * j = 0 /\ ~(0 > M)
    BY <1>2
  <2> QED BY <2>1, <2>2, <2>3, <2>4
<1> HIDE DEF T
<1>11. T \in SUBSET Nat
  BY DEF T
<1>12. T = Nat
  BY <1>9, <1>10, <1>11, SetInduction
<1>13. n >= Bits => h[n] = 0
  <2> SUFFICES ASSUME n >= Bits PROVE h[n] = 0
    OBVIOUS
  <2>1. PICK k \in Nat : k = n - Bits /\ Bits + k = n /\ n <= M
    BY <1>2
  <2>2. \A e \in Nat : Bits + e <= M => h[Bits + e] = 0
    BY ONLY <1>12 DEF T
  <2>3. Bits + k <= M
    BY <2>1
  <2>4. h[Bits + k] = 0
    BY <2>2, <2>3
  <2> QED BY <2>1, <2>4
<1>14. n <= Bits => n \in 0 .. Bits
  BY <1>2
<1> QED BY <1>1, <1>7, <1>13, <1>14

-----------------------------------------------------------------------------
(* FactorialFits accepts an operand exactly when the factorial is a value  *)
(* of the width of the mask, and the product is then the factorial.        *)
LEMMA FitsFactorial ==
  ASSUME size \in 1 .. Bits, NEW n \in 0 .. MAX
  PROVE  /\ FactorialFits(n) <=> n \in 0 .. Bits /\ Canonical(Factorial[n])
         /\ FactorialFits(n) => Product(n) = Factorial[n]
<1>1. PICK M \in Nat : M = MAX /\ MIN = -M - 1
  BY Limits, Widths
<1>2. n \in Nat /\ n <= M /\ Bits \in Nat
  BY <1>1, Widths
<1>3. ASSUME FactorialFits(n)
      PROVE  n \in 0 .. Bits /\ Canonical(Factorial[n]) /\ Product(n) = Factorial[n]
  <2>1. Product(n) # 0 /\ Product(n) = SignExtend(Masked(Product(n)))
    BY <1>3 DEF FactorialFits
  <2>2. n \in 0 .. Bits
    BY <1>2, <2>1, ProductIs
  <2>3. PICK f \in Int : f = Factorial[n]
    BY <2>2, FactorialIs
  <2>4. Product(n) = f
    BY <1>2, <2>1, <2>2, <2>3, ProductIs
  <2>5. Canonical(f)
    BY <2>1, <2>4, SignExtendOfMasked
  <2> QED BY <2>2, <2>3, <2>4, <2>5
<1>4. ASSUME n \in 0 .. Bits, Canonical(Factorial[n]) PROVE FactorialFits(n)
  <2>1. PICK f \in Nat \ {0} : f = Factorial[n]
    BY <1>4, FactorialIs
  <2>2. f \in MIN .. MAX
    BY <1>4, <2>1, CanonicalRange
  <2>3. f <= MAX
    BY <1>1, <2>2
  <2>4. Product(n) = f
    BY <1>2, <1>4, <2>1, <2>3, ProductIs
  <2>5. SignExtend(Masked(f)) = f
    BY <1>4, <2>1, SignExtendOfMasked
  <2> QED BY <2>1, <2>4, <2>5 DEF FactorialFits
<1> QED BY <1>3, <1>4

(* tms_int_fact answers the factorial exactly when it is a signed integer  *)
(* of the width of the mask, and refuses every other operand.              *)
THEOREM IntWidthFactorials == Spec => FactorialExact
<1>1. TypeOK /\ [Next]_vars =>
        [node # None /\ node.op = "fact" /\ node' = None =>
           IF ans \in 0 .. Bits /\ Canonical(Factorial[ans])
           THEN ans' = Factorial[ans] ELSE Refuse]_vars
  <2> SUFFICES ASSUME TypeOK, Next, node # None, node.op = "fact", node' = None
               PROVE  IF ans \in 0 .. Bits /\ Canonical(Factorial[ans])
                      THEN ans' = Factorial[ans] ELSE Refuse
    BY DEF vars
  <2>1. size \in 1 .. Bits /\ ans \in MIN .. MAX /\ ans \in Int
    BY SizeIs, InRange DEF TypeOK
  <2>2. ASSUME ans >= 0
        PROVE  /\ FactorialFits(ans) <=> ans \in 0 .. Bits /\ Canonical(Factorial[ans])
               /\ FactorialFits(ans) => Product(ans) = Factorial[ans]
    <3>1. ans \in 0 .. MAX
      BY <2>1, <2>2, Limits
    <3> QED BY <2>1, <3>1, FitsFactorial
  <2>3. Evaluate \/ Refuse
    BY DEF Next, SetIntMask, Load, Parse, EvaluateRand, Trap
  <2>4. PICK b : b = node.operand
    OBVIOUS
  <2>5. Refused("fact", ans, b) <=> ~(ans >= 0 /\ FactorialFits(ans))
    BY DEF Refused, DivisionByZero
  <2>6. CASE Evaluate
    <3>1. ~Refused("fact", ans, b) /\ ans' = Result("fact", ans, b)
      BY <2>4, <2>6 DEF Evaluate
    <3>2. Result("fact", ans, b) = Product(ans)
      BY DEF Result
    <3> QED BY <2>2, <2>5, <3>1, <3>2
  <2>7. CASE Refuse
    <3>1. Refused("fact", ans, b)
      BY <2>4, <2>7 DEF Refuse
    <3>2. ans \in 0 .. Bits => ans >= 0
      BY <2>1, Widths
    <3> QED BY <2>2, <2>5, <2>7, <3>1, <3>2
  <2> QED BY <2>3, <2>6, <2>7
<1> QED BY <1>1, IntWidthTypes, PTL DEF Spec, FactorialExact

-----------------------------------------------------------------------------
(* The value of the width of the mask with the bits of v, which is what    *)
(* the property calls by name.                                             *)
LEMMA SignedWordIs ==
  ASSUME size \in 1 .. Bits, NEW v \in Int
  PROVE  /\ SignedWord(v) \in MIN .. MAX /\ SignedWord(v) \in Int
         /\ Canonical(SignedWord(v)) /\ Low(SignedWord(v), size) = Low(v, size)
<1>1. \E c \in MIN .. MAX : Canonical(c) /\ Congruent(c, v)
  BY CanonicalExists
<1>2. SignedWord(v) \in MIN .. MAX /\ Canonical(SignedWord(v)) /\ Congruent(SignedWord(v), v)
  BY <1>1 DEF SignedWord
<1>3. SignedWord(v) \in Int
  BY <1>2, InRange
<1> QED BY <1>2, <1>3, CongruentIs

(* Operands of powers are extended whether they were read signed or not.   *)
LEMMA SignExtendFits ==
  ASSUME size \in 1 .. Bits, NEW a \in MIN .. MAX, Fits(a)
  PROVE  SignExtend(a) = SignedWord(a)
<1>1. PICK c \in Int : c = SignedWord(a) /\ c \in MIN .. MAX /\ Canonical(c) /\ Low(c, size) = Low(a, size)
  BY InRange, SignedWordIs
<1>2. size \in 0 .. Bits /\ size - 1 \in 0 .. size - 1 /\ a \in Int
  BY Widths, InRange
<1>3. BitsOf(a) = Low(a, size) \cup {i \in size .. Bits - 1 : One(a, i)}
  BY <1>2, Widths DEF BitsOf, Low
<1>4. size - 1 \in BitsOf(a) <=> c < 0
  BY <1>1, <1>2, <1>3, BitsOfCanonical
<1>5. CASE c < 0
  <2>1. BitsOf(a) \cup (size .. Bits - 1) = BitsOf(c)
    BY <1>1, <1>3, <1>5, BitsOfCanonical
  <2> QED BY <1>1, <1>4, <1>5, <2>1, SignedOfLow DEF SignExtend
<1>6. CASE ~(c < 0)
  <2>1. PICK h \in Nat \ {0} : h = Pow2[size - 1] /\ Pow2[size] = 2 * h
    BY HalfIs
  <2>2. PICK p \in Nat \ {0} : p = 2 * h
    OBVIOUS
  <2>3. c \in 0 .. h - 1 /\ a \in -h .. p - 1
    BY <1>1, <1>6, <2>1, <2>2 DEF Canonical, Fits
  <2>4. a % p = c % p
    BY <1>1, <1>2, <2>1, <2>2, SameLow
  <2>5. c % p = c
    BY <2>2, <2>3
  <2>6. PICK q \in Int : a = c + q * p
    <3>1. \E q \in Int : a = (a % p) + q * p
      BY <1>2, Multiple
    <3> QED BY <2>4, <2>5, <3>1
  <2>7. PICK x \in Int : x = q * p /\ a = c + x
    BY <2>6
  <2>8. x < p /\ x > -p
    BY <2>2, <2>3, <2>7
  <2>9. q >= 1 => x >= p
    <3>1. q >= 1 => (q - 1) * p >= 0
      OBVIOUS
    <3>2. (q - 1) * p = q * p - p
      OBVIOUS
    <3> QED BY <2>7, <3>1, <3>2
  <2>10. q <= -1 => x <= -p
    <3>1. q <= -1 => (q + 1) * p <= 0
      OBVIOUS
    <3>2. (q + 1) * p = q * p + p
      OBVIOUS
    <3> QED BY <2>7, <3>1, <3>2
  <2>11. q = 0
    BY <2>8, <2>9, <2>10
  <2>12. a = c
    BY <2>7, <2>11
  <2> QED BY <1>1, <1>4, <1>6, <2>12 DEF SignExtend
<1> QED BY <1>5, <1>6

(* Powers modulo the width, from powers that wrap at 64 bits.              *)
LEMMA PowersCongruent ==
  ASSUME size \in 1 .. Bits, NEW a \in MIN .. MAX, NEW b \in MIN .. MAX,
         NEW x \in Int, x = SignExtend(a), NEW n \in 0 .. MAX, n = SignExtend(b)
  PROVE  Congruent(Power(a, b), SignedPower(x, n))
<1>1. PICK M \in Nat : M = MAX
  BY Limits, Widths
<1>2. size \in 0 .. Bits
  BY Widths
<1>3. PICK d \in Nat \ {0} : d = Pow2[size]
  BY <1>2, Pow2Is
<1>4. PICK h : /\ Power(a, b) = h[n]
               /\ \A k \in 0 .. MAX :
                    /\ h[k] \in MIN .. MAX
                    /\ h[k] = IF k = 0 THEN 1 ELSE Wrap(h[k - 1] * x)
  BY Powers
<1> DEFINE Body(f) == [k \in 0 .. n |-> IF k = 0 THEN 1 ELSE (f[k - 1] * x) % Pow2[size]]
<1>5. \E f : f = Body(f)
  <2> DEFINE g == [y \in Nat \X Int |-> (y[2] * x) % Pow2[size]]
  <2>1. g \in [Nat \X Int -> Int]
    <3>1. ASSUME NEW y \in Int PROVE (y * x) % d \in Int
      <4>1. y * x \in Int
        OBVIOUS
      <4> QED BY <4>1
    <3> QED BY <1>3, <3>1
  <2>2. \A k \in Nat, y \in Int : g[<<k, y>>] = (y * x) % Pow2[size]
    OBVIOUS
  <2> HIDE DEF g
  <2>3. PICK f \in [0 .. n -> Int] : Recurs(f, 1, g, n)
    <3>1. 1 \in Int /\ n \in Nat
      BY <1>1
    <3> QED BY <2>1, <3>1, Recursion
  <2>4. ASSUME NEW k \in 0 .. n PROVE f[k] = IF k = 0 THEN 1 ELSE (f[k - 1] * x) % Pow2[size]
    <3>1. k # 0 => k - 1 \in 0 .. n /\ k \in Nat
      BY <1>1
    <3>2. k # 0 => g[<<k, f[k - 1]>>] = (f[k - 1] * x) % Pow2[size]
      BY <2>2, <3>1
    <3> QED BY <2>3, <3>2 DEF Recurs
  <2>5. f = Body(f)
    BY <2>4
  <2> QED BY <2>5
<1>6. PICK p : p = (CHOOSE f : f = Body(f))
  OBVIOUS
<1>7. p = Body(p)
  BY <1>5, <1>6
<1>8. SignedPower(x, n) = p[n]
  BY <1>6 DEF SignedPower
<1>9. \A k \in 0 .. n : p[k] = IF k = 0 THEN 1 ELSE (p[k - 1] * x) % d
  BY <1>3, <1>7
<1> HIDE DEF Body
<1> DEFINE S == {k \in Nat : k <= n => p[k] \in Int /\ Low(h[k], size) = Low(p[k], size)}
<1>10. 0 \in S
  <2>1. 0 \in 0 .. n /\ 0 \in 0 .. MAX
    BY <1>1
  <2>2. p[0] = 1 /\ h[0] = 1
    BY <1>4, <1>9, <2>1
  <2> QED BY <2>2
<1>11. ASSUME NEW k \in S PROVE k + 1 \in S
  <2> SUFFICES ASSUME k + 1 <= n
               PROVE  p[k + 1] \in Int /\ Low(h[k + 1], size) = Low(p[k + 1], size)
    OBVIOUS
  <2>1. PICK j \in 0 .. n : j = k + 1 /\ j - 1 = k /\ j # 0 /\ j \in 0 .. MAX /\ k \in 0 .. MAX /\ k <= n
    BY <1>1
  <2>2. PICK u \in Int, w \in Int : u = h[k] /\ w = p[k] /\ Low(u, size) = Low(w, size)
    <3>1. h[k] \in Int
      BY <1>4, <2>1, InRange
    <3> QED BY <1>11, <2>1, <3>1
  <2>3. PICK y \in Int, z \in Int : y = u * x /\ z = w * x
    OBVIOUS
  <2>4. h[j] = Wrap(y) /\ p[j] = z % d
    BY <1>4, <1>9, <2>1, <2>2, <2>3
  <2>5. Low(Wrap(y), size) = Low(y, size)
    BY <1>2, LowOfWrap
  <2>6. Low(y, size) = Low(z, size)
    <3>1. PICK e, f : e = Value(Low(u, size)) /\ e = Value(Low(w, size)) /\ f = Value(Low(x, size))
      BY <2>2
    <3>2. ASSUME NEW v \in Int, e = Value(Low(v, size)) PROVE Low(v * x, size) = Low(e * f, size)
      <4>1. size \in 0 .. Bits /\ v \in Int /\ x \in Int /\ e = Value(Low(v, size))
            /\ f = Value(Low(x, size))
        BY <1>2, <3>1, <3>2
      <4> QED BY ONLY <4>1, Arithmetic
    <3> QED BY <2>3, <3>1, <3>2
  <2>7. Low(z, size) = Low(z % d, size) /\ z % d \in Int
    <3>1. PICK r \in Int, q \in Int : r = z % d /\ z = r + q * d
      <4>1. z % d \in 0 .. d - 1 /\ \E q \in Int : z = (z % d) + q * d
        BY Multiple
      <4>2. z % d \in Int
        BY <4>1
      <4> QED BY <4>1, <4>2
    <3>2. z % d = r % d
      <4>1. z \in Int /\ r \in Int /\ q \in Int /\ d \in Nat \ {0} /\ z = r + q * d
        BY <3>1
      <4> QED BY ONLY <4>1, Shifted
    <3>3. Low(z, size) = Low(r, size) <=> z % Pow2[size] = r % Pow2[size]
      BY <1>2, SameLow
    <3> QED BY <1>3, <3>1, <3>2, <3>3
  <2> QED BY <2>1, <2>4, <2>5, <2>6, <2>7
<1> HIDE DEF S
<1>12. S \in SUBSET Nat
  BY DEF S
<1>13. S = Nat
  BY <1>10, <1>11, <1>12, SetInduction
<1>14. n \in S /\ n <= n
  BY <1>1, <1>13
<1>15. p[n] \in Int /\ Low(h[n], size) = Low(p[n], size)
  BY <1>14 DEF S
<1>16. h[n] \in Int
  BY <1>4, InRange
<1> QED BY <1>4, <1>8, <1>15, <1>16, CongruentIs

-----------------------------------------------------------------------------
(* Division truncates toward zero.                                         *)
LEMMA Truncates ==
  ASSUME NEW a \in MIN .. MAX, NEW b \in MIN .. MAX, b # 0,
         NEW q, q = Quotient(a, b), NEW r, r = Remainder(a, b)
  PROVE  /\ q \in MIN - 1 .. MAX + 1 /\ q \in Int /\ r \in Int
         /\ r = a - q * b /\ Abs(r) < Abs(b) /\ r * a >= 0
<1>1. PICK m \in Nat : m = MAX /\ MIN = -m - 1
  BY Limits, Widths
<1>2. a \in Int /\ b \in Int /\ a >= -m - 1 /\ a <= m
  BY <1>1, InRange
<1>3. PICK x \in Nat, y \in Nat \ {0} :
        /\ x = Abs(a) /\ y = Abs(b)
        /\ x = IF a < 0 THEN -a ELSE a
        /\ y = IF b < 0 THEN -b ELSE b
  BY <1>2 DEF Abs
<1>4. PICK k \in Int, e \in 0 .. y - 1 : k = x \div y /\ e = x % y /\ x = y * k + e
  OBVIOUS
<1>5. k \in 0 .. x
  <2>1. x \in Nat /\ y \in Nat \ {0}
    OBVIOUS
  <2>2. x \div y \in 0 .. x
    BY ONLY <2>1, Division
  <2> QED BY <1>4, <2>2
<1>6. q = IF (a < 0) = (b < 0) THEN k ELSE -k
  BY <1>3, <1>4 DEF Quotient
<1>7. q \in Int /\ q \in -m - 2 .. m + 1
  <2>1. x <= m + 1
    BY <1>2, <1>3
  <2> QED BY <1>5, <1>6, <2>1
<1>8. q \in MIN - 1 .. MAX + 1
  BY <1>1, <1>7
<1>9. PICK p \in Int : p = y * k
  OBVIOUS
<1>10. b * q = (IF a < 0 THEN -p ELSE p) /\ q * b = (IF a < 0 THEN -p ELSE p)
  <2>1. /\ (-y) * k = -p /\ y * (-k) = -p /\ (-y) * (-k) = p
        /\ k * (-y) = -p /\ (-k) * y = -p /\ (-k) * (-y) = p /\ k * y = p
    BY <1>9
  <2>2. CASE a < 0 /\ b < 0
    <3>1. b = -y /\ q = k
      BY <1>2, <1>3, <1>6, <2>2
    <3> QED BY <2>1, <2>2, <3>1
  <2>3. CASE a < 0 /\ ~(b < 0)
    <3>1. b = y /\ q = -k
      BY <1>2, <1>3, <1>6, <2>3
    <3> QED BY <2>1, <2>3, <3>1
  <2>4. CASE ~(a < 0) /\ b < 0
    <3>1. b = -y /\ q = -k
      BY <1>2, <1>3, <1>6, <2>4
    <3> QED BY <2>1, <2>4, <3>1
  <2>5. CASE ~(a < 0) /\ ~(b < 0)
    <3>1. b = y /\ q = k
      BY <1>2, <1>3, <1>6, <2>5
    <3> QED BY <1>9, <2>1, <2>5, <3>1
  <2> QED BY <2>2, <2>3, <2>4, <2>5
<1>11. r = a - b * q
  BY DEF Remainder
<1>12. r = IF a < 0 THEN -e ELSE e
  <2>1. x = p + e
    BY <1>4, <1>9
  <2>2. CASE a < 0
    <3>1. a = -x /\ r = a - (-p)
      BY <1>2, <1>3, <1>10, <1>11, <2>2
    <3> QED BY <2>1, <2>2, <3>1
  <2>3. CASE ~(a < 0)
    <3>1. a = x /\ r = a - p
      BY <1>2, <1>3, <1>10, <1>11, <2>3
    <3> QED BY <2>1, <2>3, <3>1
  <2> QED BY <2>2, <2>3
<1>13. r \in Int /\ r = a - q * b
  BY <1>10, <1>11, <1>12
<1>14. Abs(r) < Abs(b)
  BY <1>3, <1>12 DEF Abs
<1>15. r * a >= 0
  <2>1. e * x >= 0
    OBVIOUS
  <2>2. (-e) * (-x) = e * x
    OBVIOUS
  <2>3. CASE a < 0
    <3>1. a = -x /\ r = -e
      BY <1>2, <1>3, <1>12, <2>3
    <3> QED BY <2>1, <2>2, <3>1
  <2>4. CASE ~(a < 0)
    <3>1. a = x /\ r = e
      BY <1>2, <1>3, <1>12, <2>4
    <3> QED BY <2>1, <3>1
  <2> QED BY <2>3, <2>4
<1> QED BY <1>7, <1>8, <1>13, <1>14, <1>15

(* An arithmetic shift to the right rounds down.                           *)
LEMMA ShiftFloors ==
  ASSUME NEW a \in Int, NEW p \in Nat \ {0}, NEW q, q = a \div p
  PROVE  q * p <= a /\ a < (q + 1) * p
<1>1. PICK r \in 0 .. p - 1 : a = p * q + r /\ q \in Int
  OBVIOUS
<1>2. PICK z \in Int : z = p * q /\ z = q * p
  BY <1>1
<1>3. (q + 1) * p = z + p
  BY <1>1, <1>2
<1>4. z <= a /\ a < z + p
  BY <1>1, <1>2
<1> QED BY <1>2, <1>3, <1>4

(* Each of the operations that see a sign answers as integers of the width *)
(* of the mask do.                                                         *)
LEMMA SignedResults ==
  ASSUME size \in Sizes, NEW op \in Operators, NEW a \in MIN .. MAX, NEW b \in MIN .. MAX,
         ~Refused(op, a, b), ~Traps(op, a, b)
  PROVE  SignedRight(op, a, b, Result(op, a, b))
<1>1. size \in 1 .. Bits /\ size \in 0 .. Bits /\ a \in Int /\ b \in Int
  BY SizeIs, Widths, InRange
<1>2. PICK v : v = Result(op, a, b)
  OBVIOUS
<1>3. \A x \in Int : Congruent(x, x)
  BY <1>1, CongruentIs
<1>4. ASSUME op \in {"/", "%"}
      PROVE  \E q \in MIN - 1 .. MAX + 1 :
               LET r == a - q * b
               IN  /\ Abs(r) < Abs(b) /\ r * a >= 0
                   /\ Congruent(v, IF op = "/" THEN q ELSE r)
  <2>1. b # 0
    BY <1>4 DEF Traps
  <2>2. PICK q, r : q = Quotient(a, b) /\ r = Remainder(a, b)
    OBVIOUS
  <2>3. /\ q \in MIN - 1 .. MAX + 1 /\ q \in Int /\ r \in Int
        /\ r = a - q * b /\ Abs(r) < Abs(b) /\ r * a >= 0
    BY <2>1, <2>2, Truncates
  <2>4. v = IF op = "/" THEN q ELSE r
    BY <1>2, <1>4, <2>2 DEF Result
  <2>5. Congruent(v, IF op = "/" THEN q ELSE r)
    BY <1>3, <2>3, <2>4
  <2> QED BY <2>3, <2>5
<1>5. ASSUME op = ">"
      PROVE  v * Pow2[b] <= a /\ a < (v + 1) * Pow2[b]
  <2>1. b \in 0 .. size - 1
    BY <1>5 DEF Refused
  <2>2. b \in 0 .. Bits
    BY <1>1, <2>1, Widths
  <2>3. PICK p \in Nat \ {0} : p = Pow2[b]
    BY <2>2, Pow2Is
  <2>4. v = a \div p
    BY <1>2, <1>5, <2>3 DEF Result
  <2>5. v * p <= a /\ a < (v + 1) * p
    BY <1>1, <2>4, ShiftFloors
  <2> QED BY <2>3, <2>5
<1>6. ASSUME op = "p", Fits(a), Fits(b)
      PROVE  Congruent(v, SignedPower(SignedWord(a), SignedWord(b)))
  <2>1. SignExtend(a) = SignedWord(a) /\ SignExtend(b) = SignedWord(b)
    BY <1>1, <1>6, SignExtendFits
  <2>2. ~(SignExtend(b) < 0)
    BY <1>6 DEF Refused
  <2>3. PICK x \in Int, n \in 0 .. MAX : x = SignExtend(a) /\ n = SignExtend(b)
    <3>1. SignExtend(a) \in Int /\ SignExtend(b) \in 0 .. MAX
      BY <2>2, SignExtendRange, InRange, Limits
    <3> QED BY <3>1
  <2>4. Congruent(Power(a, b), SignedPower(x, n))
    BY <1>1, <2>3, PowersCongruent
  <2>5. v = Power(a, b)
    BY <1>2, <1>6 DEF Result
  <2> QED BY <2>1, <2>3, <2>4, <2>5
<1>7. ASSUME op \in {"min", "max"}
      PROVE  /\ v \in {a, b}
             /\ op = "min" => v <= a /\ v <= b
             /\ op = "max" => v >= a /\ v >= b
  <2>1. CASE op = "min"
    <3>1. v = IF a < b THEN a ELSE b
      BY <1>2, <2>1 DEF Result
    <3> QED BY <1>1, <2>1, <3>1
  <2>2. CASE op = "max"
    <3>1. v = IF a > b THEN a ELSE b
      BY <1>2, <2>2 DEF Result
    <3> QED BY <1>1, <2>2, <3>1
  <2> QED BY <1>7, <2>1, <2>2
<1>8. ASSUME op = "abs"
      PROVE  Congruent(v, Abs(a))
  <2>1. v = IF a > 0 THEN a ELSE Wrap(-a)
    BY <1>2, <1>8 DEF Result
  <2>2. CASE a > 0
    <3>1. Abs(a) = a
      BY <1>1, <2>2 DEF Abs
    <3> QED BY <1>1, <1>3, <2>1, <2>2, <3>1
  <2>3. CASE ~(a > 0)
    <3>1. PICK x \in Int : x = -a /\ x = Abs(a)
      BY <1>1, <2>3 DEF Abs
    <3>2. Low(Wrap(x), size) = Low(x, size) /\ Wrap(x) \in Int
      BY <1>1, LowOfWrap, WrapRange, InRange
    <3>3. Congruent(Wrap(x), x)
      BY <1>1, <3>2, CongruentIs
    <3> QED BY <2>1, <2>3, <3>1, <3>3
  <2> QED BY <2>2, <2>3
<1> QED BY <1>2, <1>4, <1>5, <1>6, <1>7, <1>8 DEF SignedRight

(* The operators of _tms_int_evaluate_unsafe that see a sign (division,    *)
(* remainder, arithmetic shift, power) and _tms_int_min, _tms_int_max and  *)
(* tms_int_abs answer what integers of the width of the mask give, for     *)
(* operands of that width (powers also of unsigned operands).              *)
THEOREM IntWidthSigned == Spec => SignedOperations
<1>1. TypeOK /\ [Next]_vars =>
        [Evaluate => SignedRight(node.op, ans, node.operand, ans')]_vars
  <2> SUFFICES ASSUME TypeOK, Evaluate
               PROVE  SignedRight(node.op, ans, node.operand, ans')
    OBVIOUS
  <2>1. PICK op \in Operators, b \in MIN .. MAX : op = node.op /\ b = node.operand
    BY DEF TypeOK, Evaluate
  <2>2. ~Refused(op, ans, b) /\ ~Traps(op, ans, b) /\ ans' = Result(op, ans, b)
    BY <2>1 DEF Evaluate
  <2>3. SignedRight(op, ans, b, Result(op, ans, b))
    BY <2>1, <2>2, SignedResults DEF TypeOK
  <2> QED BY <2>1, <2>2, <2>3
<1> QED BY <1>1, IntWidthTypes, PTL DEF Spec, SignedOperations

(* All three: the operations of the integer mode that are more than bits   *)
(* under a mask give what their names say.                                 *)
THEOREM IntWidthOperations == Spec => OperationsRight
BY IntWidthSigned, IntWidthFactorials, IntWidthMasks, PTL DEF OperationsRight
=============================================================================
