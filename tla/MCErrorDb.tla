------------------------------ MODULE MCErrorDb ------------------------------
(* ErrorDb for TLC: threads are alike, and so are facilities. *)
EXTENDS ErrorDb, TLC

Alike == Permutations(Threads) \cup Permutations(Facilities)
=============================================================================
