----------------------------- MODULE MCHashMap -----------------------------
(***************************************************************************)
(* Hash functions for HashMap: every way to spread the keys over hashes    *)
(* that collide in a small array, collide in a doubled one, wrap around    *)
(* its end, or are equal.  Keys are interchangeable, so the functions are  *)
(* those that do not decrease; one key has two values.                     *)
(***************************************************************************)
EXTENDS HashMap

CONSTANT HashValues

MCItems == [key : Keys, val : {1}] \cup [key : {2}, val : {2}]
MCHashes == {h \in [Keys -> HashValues] :
               \A k, l \in Keys : k < l => h[k] <= h[l]}
=============================================================================
