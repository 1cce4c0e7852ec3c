------------------------------- MODULE Table -------------------------------
(***************************************************************************)
(* What a hash table promises its callers: it is a partial map from keys   *)
(* to values.  Each operation takes effect at once and answers as follows. *)
(***************************************************************************)
EXTENDS Naturals, Sequences, FiniteSets

CONSTANTS Keys,
          Items   \* a key with a value

VARIABLES content,
          ret,    \* the answer: a sequence of items, empty for NULL
          oom     \* the last insertion found no memory

-----------------------------------------------------------------------------
Stored(k) == {x \in content : x.key = k}

(* s lists the items of X, each of them once. *)
Enumerates(s, X) == /\ Len(s) = Cardinality(X)
                    /\ {s[n] : n \in DOMAIN s} = X

Init == content = {} /\ ret = <<>> /\ oom = FALSE

Get(k) == /\ Enumerates(ret', Stored(k))
          /\ UNCHANGED <<content, oom>>

(* The answer is the item that was replaced. *)
Set(x) == \/ /\ content' = (content \ Stored(x.key)) \cup {x}
             /\ Enumerates(ret', Stored(x.key))
             /\ oom' = FALSE
          \/ /\ ret' = <<>> /\ oom' = TRUE
             /\ UNCHANGED content

Delete(k) == /\ content' = content \ Stored(k)
             /\ Enumerates(ret', Stored(k))
             /\ oom' = FALSE

Clear == content' = {} /\ UNCHANGED <<ret, oom>>

ToArray == /\ Enumerates(ret', content)
           /\ UNCHANGED <<content, oom>>

Next == \/ \E k \in Keys : Get(k) \/ Delete(k)
        \/ \E x \in Items : Set(x)
        \/ Clear
        \/ ToArray

Spec == Init /\ [][Next]_<<content, ret, oom>>
=============================================================================
