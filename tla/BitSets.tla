------------------------------- MODULE BitSets -------------------------------
(***************************************************************************)
(* Integers in binary: the bits of an integer in two's complement, and the *)
(* natural number a set of positions stands for.                           *)
(***************************************************************************)
EXTENDS Integers

CONSTANT Bits   \* positions are less than this

Pow2[n \in 0 .. Bits] == IF n = 0 THEN 1 ELSE 2 * Pow2[n - 1]

One(v, i) == (v \div Pow2[i]) % 2 = 1

Value(S) ==
  LET sum[n \in 0 .. Bits] ==
        IF n = 0 THEN 0 ELSE sum[n - 1] + (IF n - 1 \in S THEN Pow2[n - 1] ELSE 0)
  IN  sum[Bits]
=============================================================================
