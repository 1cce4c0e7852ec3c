----------------------------- MODULE MCNumTheory -----------------------------
(***************************************************************************)
(* Arguments of both signs, at the limits and next to them, for NumTheory  *)
(* with an int64_t of 11 bits and an int of 6.                             *)
(***************************************************************************)
EXTENDS NumTheory

MCOperands == {-1024, -12, -6, -4, 0, 1, 2, 3, 5, 7, 8, 9, 10, 11, 12, 13}
MCValues == (-32 .. 33) \cup {-1024, -1023, 1023}
MCModuli == (-2 .. 32) \cup {1023}
MCNumbers == -32 .. 31
=============================================================================
