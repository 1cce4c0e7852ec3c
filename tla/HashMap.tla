------------------------------ MODULE HashMap ------------------------------
(***************************************************************************)
(* The hash table of hashmap.c that holds the names of the library: open   *)
(* addressing with robin hood placement, deletion by shifting back, growth *)
(* and shrinking.  hashset.c stores names in the same table.               *)
(*                                                                         *)
(* A loop over the buckets is one step per bucket.  A bucket's hash is     *)
(* that of its item's key, so only the item is stored with its distance    *)
(* (dib: 0 for a free bucket, 1 for an item in its home bucket).           *)
(***************************************************************************)
EXTENDS Naturals, Sequences, FiniteSets

CONSTANTS Keys,
          Items,          \* what is stored: records with a key (and a value)
          Hashes,         \* the hash functions the random seeds may give
          MinBuckets,     \* ncap, a power of two
          LoadFactor,     \* percent of the buckets in use at which it grows
          ShrinkFactor,   \* percent at which it shrinks
          None

(* Faulty: grows when no bucket is left. *)
GrowWhenFull(n) == n
GrowAt(n) == (n * LoadFactor) \div 100
ShrinkAt(n) == (n * ShrinkFactor) \div 100

ASSUME HashMapAssumption ==
  /\ \A x \in Items : x.key \in Keys
  /\ None \notin Items
  /\ Hashes \subseteq [Keys -> Nat]
  /\ MinBuckets \in Nat \ {0}
  /\ LoadFactor \in 50 .. 95
  /\ ShrinkFactor \in 0 .. LoadFactor \div 2

VARIABLES hash,      \* map->hash with its seeds
          buckets,   \* the array, a function on 0 .. nbuckets - 1
          cap,       \* the size it does not shrink below
          count,
          fresh,     \* map2, the array of a table that is being resized
          pc, arg,   \* the loop that runs and the item or key it is about
          i,         \* the bucket the loop is at
          src,       \* the bucket of the old array a resize is at
          hand,      \* the entry that looks for a place
          arr,       \* the array hashmap_to_array fills
          ret,       \* the answer of the last operation (map->spare), <<>>
                     \* for NULL
          oom,
          before     \* what a caller saw before the operation in progress (in
                     \* no variable of the program)

vars == <<hash, buckets, cap, count, fresh, pc, arg, i, src, hand, arr, ret,
          oom, before>>

-----------------------------------------------------------------------------
Free == [item |-> None, dib |-> 0]
Empty(n) == [b \in 0 .. n - 1 |-> Free]
NBuckets == Cardinality(DOMAIN buckets)
Occupied(B) == {b \in DOMAIN B : B[b].dib # 0}
Home(k, B) == hash[k] % Cardinality(DOMAIN B)
(* Faulty: runs off the end of the array. *)
AfterUnmasked(b, B) == b + 1
(* Faulty: stays at the end of the array. *)
AfterClamped(b, B) == IF b + 1 \in DOMAIN B THEN b + 1 ELSE b
After(b, B) == (b + 1) % Cardinality(DOMAIN B)
Before(b, B) == (b + Cardinality(DOMAIN B) - 1) % Cardinality(DOMAIN B)
Entry(x) == [item |-> x, dib |-> 1]
Farther(e) == [e EXCEPT !.dib = @ + 1]
(* Faulty: moved back without counting it. *)
NearerKept(e) == e
Nearer(e) == [e EXCEPT !.dib = @ - 1]
Contents == {buckets[b].item : b \in Occupied(buckets)}
Visible == [content |-> Contents, oom |-> oom]
(* Faulty: the keys are not compared. *)
MatchHash(b, k) == hash[buckets[b].item.key] = hash[k]
Match(b, k) == hash[buckets[b].item.key] = hash[k] /\ buckets[b].item.key = k

Init == /\ hash \in Hashes
        /\ buckets = Empty(MinBuckets)
        /\ cap = MinBuckets
        /\ count = 0
        /\ fresh = <<>> /\ pc = "idle" /\ arg = None /\ i = 0 /\ src = 0
        /\ hand = Free /\ arr = <<>> /\ ret = <<>> /\ oom = FALSE /\ before = None

Begin(label, a) == /\ pc = "idle"
                   /\ pc' = label
                   /\ arg' = a
                   /\ before' = Visible
                   /\ UNCHANGED <<hash, buckets, cap, arr, ret>>

(* The end of an operation, its locals gone. *)
Return(r) == /\ pc' = "idle" /\ ret' = r /\ arg' = None /\ before' = None
             /\ i' = 0 /\ src' = 0 /\ hand' = Free /\ arr' = <<>> /\ fresh' = <<>>
             /\ UNCHANGED <<hash, cap>>

(* resize: map2 gets n buckets, and no fewer than a new table has. *)
StartResize(n) == /\ fresh' = Empty(IF n < MinBuckets THEN MinBuckets ELSE n)
                  /\ src' = 0
                  /\ hand' = Free
                  /\ i' = 0

-----------------------------------------------------------------------------
(* hashmap_set: a table at its limit doubles first, or finds no memory. *)
Set(x) ==
  IF count >= GrowAt(NBuckets)
  THEN \/ /\ Begin("grow", x)
          /\ StartResize(2 * NBuckets)
          /\ UNCHANGED count
          /\ oom' = FALSE
       \/ /\ pc = "idle"
          /\ Return(<<>>)
          /\ oom' = TRUE
          /\ UNCHANGED <<buckets, count>>
  ELSE /\ Begin("set", x)
       /\ hand' = Entry(x)
       /\ i' = Home(x.key, buckets)
       /\ oom' = FALSE
       /\ UNCHANGED <<count, fresh, src>>

(* One round of its loop: the entry takes a free bucket, replaces the item *)
(* of its key, takes the bucket of an item that is nearer its home and     *)
(* goes on with that one, or goes on.                                      *)
SetStep ==
  /\ pc = "set"
  /\ UNCHANGED oom
  /\ LET b == buckets[i] IN
     \/ /\ b.dib = 0
        /\ buckets' = [buckets EXCEPT ![i] = hand]
        /\ count' = count + 1
        /\ Return(<<>>)
     \/ /\ b.dib # 0 /\ Match(i, hand.item.key)
        /\ buckets' = [buckets EXCEPT ![i].item = hand.item]
        /\ Return(<<b.item>>)
        /\ UNCHANGED count
     \/ /\ b.dib # 0 /\ ~Match(i, hand.item.key)
        /\ IF b.dib < hand.dib
           THEN /\ buckets' = [buckets EXCEPT ![i] = hand]
                /\ hand' = Farther(b)
           ELSE /\ hand' = Farther(hand)
                /\ UNCHANGED buckets
        /\ i' = After(i, buckets)
        /\ UNCHANGED <<hash, cap, count, fresh, pc, arg, src, arr, ret, before>>

-----------------------------------------------------------------------------
(* The loop of resize0 over the old array, and its inner loop, which puts  *)
(* one entry (or the ones it displaces) into the new one.                  *)
Resizing == pc \in {"grow", "shrink"}

ResizeTake ==
  /\ Resizing /\ hand = Free /\ src < NBuckets
  /\ IF buckets[src].dib = 0
     THEN src' = src + 1 /\ UNCHANGED <<hand, i>>
     ELSE /\ hand' = Entry(buckets[src].item)
          /\ i' = Home(buckets[src].item.key, fresh)
          /\ UNCHANGED src
  /\ UNCHANGED <<hash, buckets, cap, count, fresh, pc, arg, arr, ret, oom, before>>

ResizePlace ==
  /\ Resizing /\ hand # Free
  /\ LET b == fresh[i] IN
     IF b.dib = 0
     THEN /\ fresh' = [fresh EXCEPT ![i] = hand]
          /\ hand' = Free
          /\ src' = src + 1
          /\ UNCHANGED i
     ELSE /\ IF b.dib < hand.dib
             THEN fresh' = [fresh EXCEPT ![i] = hand] /\ hand' = Farther(b)
             ELSE hand' = Farther(hand) /\ UNCHANGED fresh
          /\ i' = After(i, fresh)
          /\ UNCHANGED src
  /\ UNCHANGED <<hash, buckets, cap, count, pc, arg, arr, ret, oom, before>>

(* The new array replaces the old one; an insertion goes on, a deletion    *)
(* returns.                                                                *)
ResizeDone ==
  /\ Resizing /\ hand = Free /\ src = NBuckets
  /\ buckets' = fresh
  /\ UNCHANGED <<count, oom>>
  /\ IF pc = "grow"
     THEN /\ pc' = "set"
          /\ hand' = Entry(arg)
          /\ i' = Home(arg.key, fresh)
          /\ fresh' = <<>> /\ src' = 0
          /\ UNCHANGED <<hash, cap, arg, arr, ret, before>>
     ELSE Return(<<arg>>)

-----------------------------------------------------------------------------
(* hashmap_get *)
Get(k) == /\ Begin("get", k)
          /\ i' = Home(k, buckets)
          /\ UNCHANGED <<count, fresh, src, hand, oom>>

GetStep ==
  /\ pc = "get"
  /\ \/ /\ buckets[i].dib = 0
        /\ Return(<<>>)
     \/ /\ buckets[i].dib # 0 /\ Match(i, arg)
        /\ Return(<<buckets[i].item>>)
     \/ /\ buckets[i].dib # 0 /\ ~Match(i, arg)
        /\ i' = After(i, buckets)
        /\ UNCHANGED <<hash, cap, fresh, pc, arg, src, hand, arr, ret, before>>
  /\ UNCHANGED <<buckets, count, oom>>

(* hashmap_delete: the search, *)
Delete(k) == /\ Begin("delete", k)
             /\ i' = Home(k, buckets)
             /\ oom' = FALSE
             /\ UNCHANGED <<count, fresh, src, hand>>

DeleteStep ==
  /\ pc = "delete"
  /\ UNCHANGED <<count, oom>>
  /\ \/ /\ buckets[i].dib = 0
        /\ Return(<<>>)
        /\ UNCHANGED buckets
     \/ /\ buckets[i].dib # 0 /\ ~Match(i, arg)
        /\ i' = After(i, buckets)
        /\ UNCHANGED <<hash, buckets, cap, fresh, pc, arg, src, hand, arr, ret, before>>
     \/ /\ buckets[i].dib # 0 /\ Match(i, arg)
        /\ arg' = buckets[i].item
        /\ buckets' = [buckets EXCEPT ![i] = Free]
        /\ pc' = "shift"
        /\ i' = After(i, buckets)
        /\ UNCHANGED <<hash, cap, fresh, src, hand, arr, ret, before>>

(* then the items after it move back, up to a free bucket or an item that  *)
(* is at home; a table that grew and is nearly empty is halved if there is *)
(* memory for it.                                                          *)
ShiftStep ==
  /\ pc = "shift"
  /\ UNCHANGED oom
  /\ LET b == buckets[i]
         prev == Before(i, buckets) IN
     IF b.dib > 1
     THEN /\ buckets' = [buckets EXCEPT ![prev] = Nearer(b)]
          /\ i' = After(i, buckets)
          /\ UNCHANGED <<hash, cap, count, fresh, pc, arg, src, hand, arr, ret, before>>
     ELSE /\ buckets' = [buckets EXCEPT ![prev] = Free]
          /\ count' = count - 1
          /\ \/ Return(<<arg>>)
             \/ /\ NBuckets > cap /\ count' <= ShrinkAt(NBuckets)
                /\ pc' = "shrink"
                /\ StartResize(NBuckets \div 2)
                /\ UNCHANGED <<hash, cap, arg, arr, ret, before>>

(* Faulty: the count is not reset. *)
ClearKeepsCount(update_cap) ==
  /\ pc = "idle"
  /\ cap' = IF update_cap THEN NBuckets ELSE cap
  /\ buckets' = Empty(cap')
  /\ UNCHANGED <<hash, count, fresh, pc, arg, i, src, hand, arr, ret, oom, before>>

(* hashmap_clear: keeps the array it has as the least size, or returns to  *)
(* the least size.                                                         *)
Clear(update_cap) ==
  /\ pc = "idle"
  /\ count' = 0
  /\ cap' = IF update_cap THEN NBuckets ELSE cap
  /\ buckets' = Empty(cap')
  /\ UNCHANGED <<hash, fresh, pc, arg, i, src, hand, arr, ret, oom, before>>

-----------------------------------------------------------------------------
(* hashmap_to_array: count calls of hashmap_iter, which looks for the next *)
(* bucket in use and leaves its answer alone when there is none.           *)
ToArray ==
  /\ UNCHANGED oom
  /\ \/ /\ count = 0
        /\ pc = "idle"
        /\ Return(<<>>)
        /\ UNCHANGED <<buckets, count>>
     \/ /\ count # 0
        /\ Begin("scan", None)
        /\ i' = 0
        /\ UNCHANGED <<count, fresh, src, hand>>

ScanStep ==
  /\ pc = "scan"
  /\ UNCHANGED <<buckets, count, oom>>
  /\ IF Len(arr) = count
     THEN Return(arr)
     ELSE /\ arr' = IF i < NBuckets
                    THEN IF buckets[i].dib = 0 THEN arr
                                               ELSE Append(arr, buckets[i].item)
                    ELSE Append(arr, IF arr = <<>> THEN None ELSE arr[Len(arr)])
          /\ i' = IF i < NBuckets THEN i + 1 ELSE i
          /\ UNCHANGED <<hash, cap, fresh, pc, arg, src, hand, ret, before>>

Call == \/ \E x \in Items : Set(x)
        \/ \E k \in Keys : Get(k) \/ Delete(k)
        \/ \E u \in BOOLEAN : Clear(u)
        \/ ToArray
Step == \/ SetStep
        \/ ResizeTake \/ ResizePlace \/ ResizeDone
        \/ GetStep
        \/ DeleteStep \/ ShiftStep
        \/ ScanStep

Next == Call \/ Step

(* A call that was made runs to its end. *)
Spec == Init /\ [][Next]_vars /\ WF_vars(Step)

-----------------------------------------------------------------------------
(* The shape of the state: buckets hold items or are free, none farther    *)
(* from its home than the array is long; loops stay in the array they run  *)
(* over, and no count reaches the number of buckets.                       *)
Bucket(B) == {Free} \cup [item : Items, dib : 1 .. Cardinality(DOMAIN B)]
TypeOK ==
  /\ hash \in Hashes
  /\ DOMAIN buckets = 0 .. NBuckets - 1
  /\ \A b \in DOMAIN buckets : buckets[b] \in Bucket(buckets)
  /\ \A b \in DOMAIN fresh : fresh[b] \in Bucket(fresh)
  /\ count \in 0 .. NBuckets - 1
  /\ cap \in Nat \ {0}
  /\ pc \in {"idle", "set", "grow", "shrink", "get", "delete", "shift", "scan"}
  /\ pc \in {"set", "get", "delete", "shift"} => i \in DOMAIN buckets
  /\ Resizing /\ hand # Free => i \in DOMAIN fresh
  /\ hand \in Bucket(IF Resizing THEN fresh ELSE buckets)

(* Placement, between operations: an item is as far from its home as its   *)
(* dib says, and no bucket before it, from its home on, is free or holds   *)
(* an item that is two nearer its own home.  A search relies on the first  *)
(* part and an insertion keeps it by the second (hashmap.c:295-315), over  *)
(* the wrap at the end of the array, deletions and resizes.                *)
RobinHood ==
  pc = "idle" =>
    \A b \in Occupied(buckets) :
      /\ b = (Home(buckets[b].item.key, buckets) + buckets[b].dib - 1) % NBuckets
      /\ buckets[b].dib > 1 =>
           buckets[Before(b, buckets)].dib >= buckets[b].dib - 1

(* A bucket stays free at every moment, in the array that is being filled  *)
(* too: a search for a name that is not there ends at a free bucket only   *)
(* (hashmap.c:327), so a full array is an endless loop.                    *)
SomeFree == /\ Occupied(buckets) # DOMAIN buckets
            /\ Resizing => Occupied(fresh) # DOMAIN fresh

(* count, which decides when the table grows and shrinks and how many      *)
(* items an array of them has, is the number of buckets in use.            *)
CountExact == pc = "idle" => count = Cardinality(Occupied(buckets))

(* What every operation of the table relies on and leaves behind: items    *)
(* are where a search looks for them, some bucket is free at every moment, *)
(* and the count is that of the items.                                     *)
WellFormed == RobinHood /\ SomeFree /\ CountExact

(* The table is a map: whatever was inserted, replaced and deleted, with   *)
(* colliding and wrapping hashes, growing and shrinking in between, every  *)
(* answer is the one a map gives, and a list of the items has each once.   *)
Seen == IF pc = "idle" THEN Visible ELSE before
T == INSTANCE Table WITH content <- Seen.content, oom <- Seen.oom
Implements == T!Spec

(* Every operation ends. *)
OperationsEnd == pc # "idle" ~> pc = "idle"
=============================================================================
