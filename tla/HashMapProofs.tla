---------------------------- MODULE HashMapProofs ----------------------------
(***************************************************************************)
(* Proofs about module HashMap, for any keys, items and hash functions.    *)
(* An array is sound when every item is as far from its home as its dib    *)
(* says and no bucket on the way to it is free or holds an item that is    *)
(* two nearer its own home.  The lemmas say what the loops of hashmap.c do *)
(* to such an array bucket by bucket; the invariant says, of each loop,    *)
(* what the array holds and what is on its way to or from it.              *)
(***************************************************************************)
EXTENDS HashMap, FiniteSetTheorems,
        NaturalsInduction, WellFoundedInduction, TLAPS

(* A set of numbers has a least one. *)
LEMMA Least ==
  ASSUME NEW S \in SUBSET Nat, S # {}
  PROVE  \E n \in S : \A k \in S : n <= k
<1> DEFINE R == {ss \in Nat \X Nat : ss[1] < ss[2]}
<1>1. IsWellFoundedOn(R, Nat)
  BY NatLessThanWellFounded DEF OpToRel
<1>2. \E x \in S : \A y \in S : <<y, x>> \notin R
  <2> HIDE DEF R
  <2> QED BY <1>1, WFMin
<1>3. PICK x \in S : \A y \in S : <<y, x>> \notin R
  BY <1>2
<1>4. ASSUME NEW k \in S PROVE x <= k
  <2>1. <<k, x>> \notin R
    BY <1>3
  <2>2. ~(k < x)
    BY <2>1
  <2> QED BY <2>2
<1> QED BY <1>4

(* Arrays of buckets.  h is the hash function throughout. *)
Entries == [item : Items, dib : Nat \ {0}]
Size(B) == Cardinality(DOMAIN B)
Array(B) == Size(B) \in Nat \ {0} /\ B \in [0 .. Size(B) - 1 -> Entries \cup {Free}]
ItemsIn(B) == {B[b].item : b \in Occupied(B)}
KeysIn(B) == {B[b].item.key : b \in Occupied(B)}

(* An array with one bucket changed, with one item replaced by another of   *)
(* its key, and with the item of bucket b moved to bucket p.               *)
Filled(B, b, e) == [B EXCEPT ![b] = e]
Renewed(B, b, x) == [B EXCEPT ![b].item = x]
Moved(B, p, b) == [B EXCEPT ![p] = Nearer(B[b]), ![b] = Free]

(* The bucket at distance d from the home of k, the home itself being at 1.*)
Pos(h, k, d, n) == ((h[k] % n) + d - 1) % n
Lies(h, e, b, B) == e.dib <= Size(B) /\ b = Pos(h, e.item.key, e.dib, Size(B))
Linked(e, b, B) == e.dib > 1 => B[Before(b, B)].dib >= e.dib - 1

Placed(h, B) == \A b \in Occupied(B) : Lies(h, B[b], b, B)
Chained(B) == \A b \in Occupied(B) : Linked(B[b], b, B)
Apart(B) == \A b, c \in Occupied(B) : B[b].item.key = B[c].item.key => b = c
Sound(h, B) == Array(B) /\ Placed(h, B) /\ Chained(B) /\ Apart(B)
Roomy(B) == \E f \in DOMAIN B : B[f].dib = 0

-----------------------------------------------------------------------------
(* Going round an array. *)
LEMMA Wrapped ==
  ASSUME NEW n \in Nat \ {0}, NEW a \in 0 .. 2 * n - 1
  PROVE  a % n = IF a < n THEN a ELSE a - n
<1>1. CASE a < n
  BY <1>1
<1>2. CASE a >= n
  BY <1>2
<1> QED BY <1>1, <1>2

LEMMA ArraySize ==
  ASSUME NEW n \in Nat \ {0}, NEW B, B \in [0 .. n - 1 -> Entries \cup {Free}]
  PROVE  Array(B) /\ Size(B) = n
<1>1. Cardinality(0 .. n - 1) = n
  BY FS_Interval
<1>2. DOMAIN B = 0 .. n - 1
  OBVIOUS
<1> QED BY <1>1, <1>2 DEF Array, Size

LEMMA Around ==
  ASSUME NEW B, Array(B), NEW b \in DOMAIN B
  PROVE  /\ Size(B) \in Nat \ {0} /\ DOMAIN B = 0 .. Size(B) - 1 /\ b \in 0 .. Size(B) - 1
         /\ B[b] \in Entries \cup {Free}
         /\ After(b, B) = IF b + 1 = Size(B) THEN 0 ELSE b + 1
         /\ Before(b, B) = IF b = 0 THEN Size(B) - 1 ELSE b - 1
         /\ After(b, B) \in DOMAIN B /\ Before(b, B) \in DOMAIN B
         /\ Before(After(b, B), B) = b /\ After(Before(b, B), B) = b
<1> DEFINE n == Size(B)
<1>1. n \in Nat \ {0} /\ DOMAIN B = 0 .. n - 1 /\ b \in 0 .. n - 1
      /\ B[b] \in Entries \cup {Free}
  BY DEF Array
<1>2. ASSUME NEW c \in 0 .. n - 1
      PROVE  /\ After(c, B) = IF c + 1 = n THEN 0 ELSE c + 1
             /\ Before(c, B) = IF c = 0 THEN n - 1 ELSE c - 1
  <2>1. After(c, B) = (c + 1) % n /\ Before(c, B) = (c + n - 1) % n
    BY DEF After, Before, Size
  <2> HIDE DEF n
  <2> QED BY <1>1, <2>1
<1> HIDE DEF n
<1>3. After(b, B) \in 0 .. n - 1 /\ Before(b, B) \in 0 .. n - 1
  BY <1>1, <1>2
<1>4. Before(After(b, B), B) = b /\ After(Before(b, B), B) = b
  BY <1>1, <1>2, <1>3
<1> QED BY <1>1, <1>2, <1>3, <1>4 DEF n

LEMMA WrappedSum ==
  ASSUME NEW n \in Nat \ {0}, NEW m \in 0 .. n - 1, NEW d \in 1 .. n
  PROVE  (m + d - 1) % n = IF m + d - 1 < n THEN m + d - 1 ELSE m + d - 1 - n
<1> DEFINE a == m + d - 1
<1>1. a \in 0 .. 2 * n - 1
  OBVIOUS
<1> HIDE DEF a
<1>2. a % n = IF a < n THEN a ELSE a - n
  BY <1>1, Wrapped
<1> QED BY <1>2 DEF a

LEMMA SameSum ==
  ASSUME NEW n \in Nat \ {0}, NEW m \in 0 .. n - 1, NEW d \in 1 .. n, NEW e \in 1 .. n,
         (m + d - 1) % n = (m + e - 1) % n
  PROVE  d = e
<1>1. /\ (m + d - 1) % n = (IF m + d - 1 < n THEN m + d - 1 ELSE m + d - 1 - n)
      /\ (m + e - 1) % n = (IF m + e - 1 < n THEN m + e - 1 ELSE m + e - 1 - n)
  BY WrappedSum
<1> QED BY <1>1

LEMMA Positions ==
  ASSUME NEW h \in [Keys -> Nat], NEW k \in Keys, NEW n \in Nat \ {0}, NEW d \in 1 .. n
  PROVE  /\ h[k] % n \in 0 .. n - 1
         /\ Pos(h, k, d, n) = IF (h[k] % n) + d - 1 < n THEN (h[k] % n) + d - 1
                                                      ELSE (h[k] % n) + d - 1 - n
<1>1. h[k] % n \in 0 .. n - 1
  OBVIOUS
<1> QED BY <1>1, WrappedSum DEF Pos

LEMMA NextPosition ==
  ASSUME NEW h \in [Keys -> Nat], NEW k \in Keys, NEW B, Array(B), NEW d \in 1 .. Size(B)
  PROVE  /\ Pos(h, k, d, Size(B)) \in DOMAIN B
         /\ d < Size(B) => After(Pos(h, k, d, Size(B)), B) = Pos(h, k, d + 1, Size(B))
         /\ d = Size(B) => After(Pos(h, k, d, Size(B)), B) = Pos(h, k, 1, Size(B))
         /\ d > 1 => Before(Pos(h, k, d, Size(B)), B) = Pos(h, k, d - 1, Size(B))
<1> DEFINE n == Size(B)
           m == h[k] % n
<1>1. n \in Nat \ {0} /\ DOMAIN B = 0 .. n - 1
  BY DEF Array
<1>2. m \in 0 .. n - 1
  BY <1>1, Positions
<1>3. \A e \in 1 .. n : Pos(h, k, e, n) = IF m + e - 1 < n THEN m + e - 1 ELSE m + e - 1 - n
  <2> HIDE DEF n
  <2> QED BY <1>1, Positions
<1>4. \A b \in 0 .. n - 1 : /\ After(b, B) = IF b + 1 = n THEN 0 ELSE b + 1
                            /\ Before(b, B) = IF b = 0 THEN n - 1 ELSE b - 1
  BY <1>1, Around
<1> HIDE DEF n, m
<1>5. Pos(h, k, d, n) \in 0 .. n - 1
  BY <1>1, <1>2, <1>3 DEF n
<1>6. ASSUME d < n PROVE After(Pos(h, k, d, n), B) = Pos(h, k, d + 1, n)
  <2>1. d + 1 \in 1 .. n /\ d \in 1 .. n
    BY <1>1, <1>6 DEF n
  <2>2. /\ Pos(h, k, d, n) = IF m + d - 1 < n THEN m + d - 1 ELSE m + d - 1 - n
        /\ Pos(h, k, d + 1, n) = IF m + (d + 1) - 1 < n THEN m + (d + 1) - 1 ELSE m + (d + 1) - 1 - n
    BY <1>3, <2>1
  <2>3. After(Pos(h, k, d, n), B) = IF Pos(h, k, d, n) + 1 = n THEN 0 ELSE Pos(h, k, d, n) + 1
    BY <1>4, <1>5
  <2> QED BY <1>1, <1>2, <2>1, <2>2, <2>3
<1>7. ASSUME d = n PROVE After(Pos(h, k, d, n), B) = Pos(h, k, 1, n)
  <2>2. /\ Pos(h, k, d, n) = IF m + d - 1 < n THEN m + d - 1 ELSE m + d - 1 - n
        /\ Pos(h, k, 1, n) = IF m + 1 - 1 < n THEN m + 1 - 1 ELSE m + 1 - 1 - n
    BY <1>1, <1>3, <1>7
  <2>3. After(Pos(h, k, d, n), B) = IF Pos(h, k, d, n) + 1 = n THEN 0 ELSE Pos(h, k, d, n) + 1
    BY <1>4, <1>5
  <2> QED BY <1>1, <1>2, <1>7, <2>2, <2>3
<1>8. ASSUME d > 1 PROVE Before(Pos(h, k, d, n), B) = Pos(h, k, d - 1, n)
  <2>1. d - 1 \in 1 .. n /\ d \in 1 .. n
    BY <1>1, <1>8 DEF n
  <2>2. /\ Pos(h, k, d, n) = IF m + d - 1 < n THEN m + d - 1 ELSE m + d - 1 - n
        /\ Pos(h, k, d - 1, n) = IF m + (d - 1) - 1 < n THEN m + (d - 1) - 1 ELSE m + (d - 1) - 1 - n
    BY <1>3, <2>1
  <2>3. Before(Pos(h, k, d, n), B) = IF Pos(h, k, d, n) = 0 THEN n - 1 ELSE Pos(h, k, d, n) - 1
    BY <1>4, <1>5
  <2> QED BY <1>1, <1>2, <2>1, <2>2, <2>3
<1> QED BY <1>1, <1>5, <1>6, <1>7, <1>8 DEF n

LEMMA SamePosition ==
  ASSUME NEW h \in [Keys -> Nat], NEW k \in Keys, NEW n \in Nat \ {0},
         NEW d \in 1 .. n, NEW e \in 1 .. n, Pos(h, k, d, n) = Pos(h, k, e, n)
  PROVE  d = e
<1>1. h[k] % n \in 0 .. n - 1
  OBVIOUS
<1> QED BY <1>1, SameSum DEF Pos

(* The home of a key is the first of its positions. *)
LEMMA HomeFirst ==
  ASSUME hash \in [Keys -> Nat], NEW k \in Keys, NEW B, Array(B)
  PROVE  Home(k, B) = Pos(hash, k, 1, Size(B)) /\ Home(k, B) \in DOMAIN B
<1>1. Size(B) \in Nat \ {0} /\ 1 \in 1 .. Size(B)
  BY DEF Array
<1>2. Home(k, B) = hash[k] % Size(B)
  BY DEF Home, Size
<1>3. Pos(hash, k, 1, Size(B)) = hash[k] % Size(B)
  BY <1>1, Positions
<1> QED BY <1>1, <1>2, <1>3, NextPosition

LEMMA Occupation ==
  ASSUME NEW B, Array(B), NEW b \in DOMAIN B
  PROVE  /\ b \in Occupied(B) <=> B[b].dib # 0
         /\ B[b].dib # 0 <=> B[b] \in Entries
         /\ B[b].dib = 0 <=> B[b] = Free
         /\ B[b] \in Entries => B[b].item \in Items /\ B[b].item.key \in Keys /\ B[b].dib \in Nat \ {0}
         /\ B[b].dib \in Nat
<1>1. B[b] \in Entries \cup {Free}
  BY Around
<1>2. ASSUME B[b] = Free PROVE B[b].dib = 0 /\ B[b] \notin Entries
  BY <1>2 DEF Free, Entries
<1>3. ASSUME B[b] \in Entries
      PROVE  B[b].item \in Items /\ B[b].item.key \in Keys /\ B[b].dib \in Nat \ {0}
  BY <1>3, HashMapAssumption DEF Entries
<1> QED BY <1>1, <1>2, <1>3 DEF Occupied

(* What depends on the buckets of an array only by how many there are. *)
LEMMA SameShape ==
  ASSUME NEW B, NEW C, DOMAIN C = DOMAIN B
  PROVE  /\ Size(C) = Size(B)
         /\ \A b : After(b, C) = After(b, B) /\ Before(b, C) = Before(b, B)
BY DEF Size, After, Before

-----------------------------------------------------------------------------
(* The buckets before an item, up to its home, are in use by items that    *)
(* are at least as far from theirs.                                        *)
Back(b, j, n) == IF b >= j THEN b - j ELSE b - j + n

LEMMA BackOne ==
  ASSUME NEW n \in Nat \ {0}, NEW b \in 0 .. n - 1, NEW l \in 1 .. n - 1
  PROVE  /\ Back(b, l - 1, n) \in 0 .. n - 1
         /\ Back(b, l, n) = IF Back(b, l - 1, n) = 0 THEN n - 1 ELSE Back(b, l - 1, n) - 1
<1>1. CASE b >= l
  BY <1>1 DEF Back
<1>2. CASE b = l - 1
  BY <1>2 DEF Back
<1>3. CASE b < l - 1
  BY <1>3 DEF Back
<1> QED BY <1>1, <1>2, <1>3

LEMMA Run ==
  ASSUME NEW B, Array(B), Chained(B), NEW b \in DOMAIN B, NEW l \in 0 .. Size(B) - 1,
         l < B[b].dib
  PROVE  B[Back(b, l, Size(B))].dib >= B[b].dib - l
<1> DEFINE n == Size(B)
           D == B[b].dib
           S == {j \in 0 .. n - 1 : j < D /\ ~(B[Back(b, j, n)].dib >= D - j)}
<1>1. /\ n \in Nat \ {0} /\ DOMAIN B = 0 .. n - 1 /\ b \in 0 .. n - 1 /\ D \in Nat
  BY Around, Occupation
<1>2. ASSUME NEW m \in S, m - 1 \notin S, m # 0
      PROVE  FALSE
  <2>1. m - 1 \in 0 .. n - 1 /\ m - 1 < D /\ m \in 0 .. n - 1 /\ m < D
    BY <1>1, <1>2
  <2> DEFINE c == Back(b, m - 1, n)
  <2>2. c \in 0 .. n - 1 /\ Back(b, m, n) = (IF c = 0 THEN n - 1 ELSE c - 1)
    <3>1. m \in 1 .. n - 1
      BY <1>1, <1>2, <2>1
    <3> HIDE DEF n
    <3> QED BY <1>1, <3>1, BackOne
  <2>3. B[c].dib >= D - (m - 1)
    BY <1>2, <2>1
  <2> HIDE DEF n, c, D
  <2>4. c \in DOMAIN B /\ B[c].dib \in Nat
    BY <1>1, <2>2, Occupation
  <2>5. B[c].dib > 1
    BY <1>1, <2>1, <2>3, <2>4
  <2>6. B[Before(c, B)].dib >= B[c].dib - 1
    BY <2>4, <2>5, Occupation DEF Chained, Linked
  <2>7. Before(c, B) = Back(b, m, n)
    BY <2>2, <2>4, Around DEF n
  <2>8. B[Back(b, m, n)].dib \in Nat
    BY <1>1, <2>1, <2>2, Occupation
  <2>9. B[Back(b, m, n)].dib >= D - m
    BY <1>1, <2>1, <2>3, <2>4, <2>6, <2>7, <2>8
  <2> QED BY <1>2, <2>9 DEF n, D
<1>3. 0 \notin S
  BY <1>1 DEF Back
<1>4. S = {}
  <2> SUFFICES ASSUME S # {} PROVE FALSE
    OBVIOUS
  <2>1. S \subseteq Nat
    BY <1>1
  <2>2. PICK m \in S : \A k \in S : m <= k
    <3> HIDE DEF S
    <3> QED BY <2>1, Least
  <2>3. m - 1 \notin S /\ m # 0
    BY <1>3, <2>1, <2>2
  <2> HIDE DEF S
  <2> QED BY <1>2, <2>2, <2>3
<1> QED BY <1>1, <1>4

(* So an item is never as far from its home as a whole array with a free   *)
(* bucket is long.                                                         *)
LEMMA NotFull ==
  ASSUME NEW B, Array(B), Chained(B), Roomy(B), NEW b \in DOMAIN B
  PROVE  B[b].dib < Size(B)
<1>1. PICK f \in DOMAIN B : B[f].dib = 0
  BY DEF Roomy
<1> DEFINE n == Size(B)
           l == IF b >= f THEN b - f ELSE b - f + n
<1>2. n \in Nat \ {0} /\ b \in 0 .. n - 1 /\ f \in 0 .. n - 1 /\ B[b].dib \in Nat
  BY Around, Occupation
<1>3. l \in 0 .. n - 1 /\ Back(b, l, n) = f
  <2> HIDE DEF n
  <2> QED BY <1>2 DEF Back
<1> HIDE DEF n, l
<1>4. l < B[b].dib => B[f].dib >= B[b].dib - l
  BY <1>3, Run DEF n
<1> QED BY <1>1, <1>2, <1>3, <1>4 DEF n

(* On the way from its home to an item no item is nearer its own home.     *)
LEMMA Behind ==
  ASSUME NEW h \in [Keys -> Nat], NEW B, Sound(h, B), NEW c \in Occupied(B),
         NEW d \in 1 .. B[c].dib
  PROVE  LET b == Pos(h, B[c].item.key, d, Size(B))
         IN  /\ d <= Size(B) /\ b \in DOMAIN B
             /\ B[b].dib >= d
             /\ d = B[c].dib => b = c
<1> DEFINE n == Size(B)
           k == B[c].item.key
           D == B[c].dib
           m == h[k] % n
           b == Pos(h, k, d, n)
<1>1. /\ c \in DOMAIN B /\ Array(B) /\ Chained(B) /\ c = Pos(h, k, D, n) /\ D <= n
      /\ k \in Keys /\ D \in Nat \ {0} /\ n \in Nat \ {0}
  BY Occupation DEF Sound, Placed, Lies, Array, Occupied
<1>2. d \in 1 .. n /\ D \in 1 .. n /\ d <= D
  BY <1>1
<1>3. /\ m \in 0 .. n - 1
      /\ b = IF m + d - 1 < n THEN m + d - 1 ELSE m + d - 1 - n
      /\ c = IF m + D - 1 < n THEN m + D - 1 ELSE m + D - 1 - n
  <2> HIDE DEF n, k, D
  <2> QED BY <1>1, <1>2, Positions
<1>4. b \in DOMAIN B
  BY <1>1, <1>2, NextPosition
<1> HIDE DEF n, D, m, b
<1>5. D - d \in 0 .. n - 1 /\ D - d < D /\ Back(c, D - d, n) = b
  BY <1>1, <1>2, <1>3 DEF Back
<1>6. B[b].dib >= D - (D - d)
  BY <1>1, <1>5, Run DEF n, D
<1>7. B[b].dib \in Nat
  BY <1>1, <1>4, Occupation
<1>8. d = D => b = c
  BY <1>3
<1> QED BY <1>2, <1>4, <1>6, <1>7, <1>8 DEF b, n, D

-----------------------------------------------------------------------------
(* An entry that looks for a bucket, at bucket b of array B.               *)
Looks(h, e, b, B) == e \in Entries /\ b \in DOMAIN B /\ Lies(h, e, b, B) /\ Linked(e, b, B)

(* The item of key k, if it is there, is not before distance d.            *)
Ahead(k, d, B) == \A c \in Occupied(B) : B[c].item.key = k => B[c].dib >= d

(* It begins at its home, ... *)
LEMMA LooksFirst ==
  ASSUME hash \in [Keys -> Nat], NEW B, Array(B), NEW x \in Items
  PROVE  /\ Looks(hash, Entry(x), Home(x.key, B), B)
         /\ Ahead(x.key, 1, B)
<1>1. x.key \in Keys
  BY HashMapAssumption
<1>2. Entry(x) \in Entries /\ Entry(x).item = x /\ Entry(x).dib = 1
  BY DEF Entry, Entries
<1>3. Home(x.key, B) \in DOMAIN B /\ Home(x.key, B) = Pos(hash, x.key, 1, Size(B))
  BY <1>1, HomeFirst
<1>4. 1 <= Size(B)
  BY DEF Array
<1>5. Looks(hash, Entry(x), Home(x.key, B), B)
  BY <1>2, <1>3, <1>4 DEF Looks, Lies, Linked
<1>6. Ahead(x.key, 1, B)
  BY Occupation DEF Ahead, Occupied
<1> QED BY <1>5, <1>6

(* ... goes on where the item of the bucket is as far from its own home,   *)
LEMMA LooksOn ==
  ASSUME NEW h \in [Keys -> Nat], NEW B, Sound(h, B), Roomy(B), NEW e, NEW b, Looks(h, e, b, B),
         B[b].dib >= e.dib
  PROVE  /\ Looks(h, Farther(e), After(b, B), B)
         /\ Ahead(e.item.key, e.dib, B) /\ B[b].item.key # e.item.key
              => Ahead(e.item.key, e.dib + 1, B)
<1>1. /\ Array(B) /\ Chained(B) /\ b \in DOMAIN B /\ e.dib \in Nat \ {0} /\ e.item \in Items
      /\ e.item.key \in Keys /\ B[b].dib \in Nat /\ Size(B) \in Nat
      /\ b = Pos(h, e.item.key, e.dib, Size(B))
  BY Occupation, HashMapAssumption DEF Sound, Looks, Entries, Array, Lies
<1>2. e.dib < Size(B)
  BY <1>1, NotFull
<1>3. /\ Farther(e) \in Entries /\ Farther(e).item = e.item /\ Farther(e).dib = e.dib + 1
  BY <1>1 DEF Farther, Looks, Entries
<1>4. After(b, B) = Pos(h, e.item.key, e.dib + 1, Size(B))
  BY <1>1, <1>2, NextPosition
<1>5. After(b, B) \in DOMAIN B /\ Before(After(b, B), B) = b
  BY <1>1, Around
<1>6. Looks(h, Farther(e), After(b, B), B)
  BY <1>1, <1>2, <1>3, <1>4, <1>5 DEF Looks, Lies, Linked
<1>7. ASSUME Ahead(e.item.key, e.dib, B), B[b].item.key # e.item.key,
             NEW c \in Occupied(B), B[c].item.key = e.item.key
      PROVE  B[c].dib >= e.dib + 1
  <2>1. B[c].dib >= e.dib /\ B[c].dib \in Nat
    BY <1>1, <1>7, Occupation DEF Ahead, Occupied
  <2>2. c = Pos(h, e.item.key, B[c].dib, Size(B))
    BY <1>7 DEF Sound, Placed, Lies
  <2>3. B[c].dib # e.dib
    BY <1>1, <1>7, <2>2
  <2> QED BY <1>1, <2>1, <2>3
<1> QED BY <1>6, <1>7 DEF Ahead

(* ... and does not have its key behind it.                                *)
LEMMA NoneAhead ==
  ASSUME NEW h \in [Keys -> Nat], NEW B, Sound(h, B), NEW e, NEW b, Looks(h, e, b, B),
         Ahead(e.item.key, e.dib, B), B[b].dib < e.dib
  PROVE  e.item.key \notin KeysIn(B)
<1> SUFFICES ASSUME NEW c \in Occupied(B), B[c].item.key = e.item.key PROVE FALSE
  BY DEF KeysIn
<1>1. /\ Array(B) /\ b \in DOMAIN B /\ e.dib \in Nat \ {0} /\ B[b].dib \in Nat /\ B[c].dib \in Nat
      /\ b = Pos(h, e.item.key, e.dib, Size(B))
  BY Occupation DEF Sound, Looks, Entries, Lies, Occupied
<1>2. B[c].dib >= e.dib
  BY DEF Ahead
<1>3. e.dib \in 1 .. B[c].dib
  BY <1>1, <1>2
<1>4. B[b].dib >= e.dib
  BY <1>1, <1>3, Behind
<1> QED BY <1>1, <1>4

(* An entry that takes a bucket that is free or of an item nearer its home *)
(* leaves the array sound.                                                 *)
LEMMA Put ==
  ASSUME NEW h \in [Keys -> Nat], NEW B, Sound(h, B), NEW e, NEW b, Looks(h, e, b, B),
         B[b].dib < e.dib, e.item.key \notin KeysIn(B)
  PROVE  LET C == Filled(B, b, e)
         IN  /\ Sound(h, C) /\ Size(C) = Size(B) /\ DOMAIN C = DOMAIN B
             /\ C[b] = e /\ \A c \in DOMAIN B \ {b} : C[c] = B[c]
             /\ Occupied(C) = Occupied(B) \cup {b}
<1> DEFINE C == Filled(B, b, e)
<1>1. /\ Array(B) /\ b \in DOMAIN B /\ e \in Entries /\ e.dib \in Nat \ {0} /\ B[b].dib \in Nat
      /\ Lies(h, e, b, B) /\ Linked(e, b, B)
  BY Occupation DEF Sound, Looks, Entries
<1>2. /\ DOMAIN C = DOMAIN B /\ C[b] = e /\ \A c \in DOMAIN B \ {b} : C[c] = B[c]
  BY <1>1 DEF Filled
<1>3. Size(C) = Size(B) /\ \A c : After(c, C) = After(c, B) /\ Before(c, C) = Before(c, B)
  BY <1>2, SameShape
<1>4. Array(C)
  BY <1>1, <1>3 DEF Array, Filled
<1> HIDE DEF C
<1>5. Occupied(C) = Occupied(B) \cup {b}
  BY <1>1, <1>2 DEF Occupied
<1>6. \A c \in Occupied(C) \ {b} : c \in Occupied(B) /\ C[c] = B[c]
  BY <1>2, <1>5 DEF Occupied
<1>7. Placed(h, C)
  BY <1>1, <1>2, <1>3, <1>6 DEF Placed, Lies, Sound
<1>8. Apart(C)
  BY <1>2, <1>5, <1>6 DEF Apart, Sound, KeysIn
<1>9. ASSUME NEW c \in Occupied(C), C[c].dib > 1
      PROVE  C[Before(c, B)].dib >= C[c].dib - 1
  <2>1. c \in DOMAIN B /\ Before(c, B) \in DOMAIN B /\ C[c].dib \in Nat
    BY <1>1, <1>2, <1>4, Around, Occupation DEF Occupied
  <2>2. CASE c = b
    <3>1. Before(b, B) # b
      <4>1. Size(B) > 1
        BY <1>1, <1>2, <1>9, <2>2 DEF Lies, Array
      <4> QED BY <1>1, <4>1, Around
    <3> QED BY <1>1, <1>2, <1>9, <2>1, <2>2, <3>1 DEF Linked
  <2>3. CASE c # b
    <3>1. C[c] = B[c] /\ B[Before(c, B)].dib >= B[c].dib - 1
      BY <1>6, <1>9, <2>3 DEF Sound, Chained, Linked
    <3> QED BY <1>1, <1>2, <2>1, <3>1
  <2> QED BY <2>2, <2>3
<1>10. Chained(C)
  BY <1>3, <1>9 DEF Chained, Linked
<1> QED BY <1>2, <1>3, <1>4, <1>5, <1>7, <1>8, <1>10 DEF Sound, C

(* In a free bucket it adds its item; ... *)
LEMMA PutFree ==
  ASSUME NEW h \in [Keys -> Nat], NEW B, Sound(h, B), NEW e, NEW b, Looks(h, e, b, B),
         b \notin Occupied(B), B[b].dib < e.dib, e.item.key \notin KeysIn(B)
  PROVE  LET C == Filled(B, b, e)
         IN  /\ Sound(h, C) /\ Size(C) = Size(B)
             /\ ItemsIn(C) = ItemsIn(B) \cup {e.item}
<1> DEFINE C == Filled(B, b, e)
<1>1. Sound(h, C) /\ Size(C) = Size(B)
  BY Put
<1>2. /\ DOMAIN C = DOMAIN B /\ C[b] = e /\ \A c \in DOMAIN B \ {b} : C[c] = B[c]
      /\ b \in DOMAIN B /\ e.dib # 0
  BY DEF Looks, Entries, Sound, Array, Filled
<1> HIDE DEF C
<1>3. Occupied(C) = Occupied(B) \cup {b}
  BY <1>2 DEF Occupied
<1>4. Occupied(B) \subseteq DOMAIN B
  BY DEF Occupied
<1>5. ItemsIn(C) = ItemsIn(B) \cup {e.item}
  BY <1>2, <1>3, <1>4 DEF ItemsIn
<1> QED BY <1>1, <1>5 DEF C

(* ... in that of another item it puts its own, and that one looks on.     *)
LEMMA PutSwap ==
  ASSUME NEW h \in [Keys -> Nat], NEW B, Sound(h, B), Roomy(B), NEW e, NEW b, Looks(h, e, b, B),
         B[b].dib # 0, B[b].dib < e.dib, e.item.key \notin KeysIn(B)
  PROVE  LET C == Filled(B, b, e)
         IN  /\ Sound(h, C) /\ Size(C) = Size(B) /\ Roomy(C)
             /\ B[b].item \in ItemsIn(B)
             /\ ItemsIn(C) = (ItemsIn(B) \ {B[b].item}) \cup {e.item}
             /\ Looks(h, Farther(B[b]), After(b, B), C)
             /\ B[b].item.key \notin KeysIn(C) /\ Occupied(C) = Occupied(B)
<1> DEFINE C == Filled(B, b, e)
<1>1. /\ Array(B) /\ Chained(B) /\ b \in DOMAIN B /\ b \in Occupied(B) /\ e \in Entries
      /\ e.dib \in Nat \ {0} /\ B[b] \in Entries
      /\ B[b].dib \in Nat \ {0} /\ B[b].item \in Items /\ B[b].item.key \in Keys
  BY Occupation DEF Sound, Looks, Entries
<1>2. /\ Sound(h, C) /\ Size(C) = Size(B) /\ C[b] = e /\ DOMAIN C = DOMAIN B
      /\ \A c \in DOMAIN B \ {b} : C[c] = B[c]
      /\ Occupied(C) = Occupied(B)
  <2>1. /\ Sound(h, C) /\ Size(C) = Size(B) /\ C[b] = e /\ DOMAIN C = DOMAIN B
        /\ \A c \in DOMAIN B \ {b} : C[c] = B[c]
        /\ Occupied(C) = Occupied(B) \cup {b}
    BY <1>1, Put
  <2> HIDE DEF C
  <2> QED BY <1>1, <2>1
<1> HIDE DEF C
<1>3. Occupied(B) \subseteq DOMAIN B
  BY DEF Occupied
<1>4. \A c \in Occupied(B) \ {b} : B[c].item.key # B[b].item.key
  BY <1>1 DEF Sound, Apart
<1>5. e.item.key # B[b].item.key
  BY <1>1 DEF KeysIn
<1>6. ItemsIn(C) = (ItemsIn(B) \ {B[b].item}) \cup {e.item}
  BY <1>1, <1>2, <1>3, <1>4 DEF ItemsIn
<1>7. B[b].item.key \notin KeysIn(C)
  BY <1>2, <1>3, <1>4, <1>5 DEF KeysIn
<1>8. Roomy(C)
  <2>1. PICK f \in DOMAIN B : B[f].dib = 0
    BY DEF Roomy
  <2> QED BY <1>2, <2>1 DEF Roomy
<1>9. Looks(h, Farther(B[b]), After(b, B), C)
  <2>1. B[b].dib < Size(B) /\ Size(B) \in Nat /\ b = Pos(h, B[b].item.key, B[b].dib, Size(B))
    BY <1>1, NotFull DEF Array, Sound, Placed, Lies
  <2>2. /\ Farther(B[b]) \in Entries /\ Farther(B[b]).item = B[b].item
        /\ Farther(B[b]).dib = B[b].dib + 1
    BY <1>1 DEF Farther, Entries
  <2>3. After(b, B) = Pos(h, B[b].item.key, B[b].dib + 1, Size(B))
    BY <1>1, <2>1, NextPosition
  <2>4. After(b, B) \in DOMAIN B /\ Before(After(b, B), C) = b
    BY <1>1, <1>2, Around, SameShape
  <2>5. Lies(h, Farther(B[b]), After(b, B), C)
    BY <1>1, <1>2, <2>1, <2>2, <2>3 DEF Lies
  <2>6. Linked(Farther(B[b]), After(b, B), C)
    BY <1>1, <1>2, <2>2, <2>4 DEF Linked
  <2> QED BY <1>2, <2>2, <2>4, <2>5, <2>6 DEF Looks
<1>10. B[b].item \in ItemsIn(B)
  BY <1>1 DEF ItemsIn
<1> QED BY <1>2, <1>6, <1>7, <1>8, <1>9, <1>10 DEF C

(* An item replaces that of its key. *)
LEMMA Replace ==
  ASSUME NEW h \in [Keys -> Nat], NEW B, Sound(h, B), NEW b \in Occupied(B), NEW x \in Items,
         B[b].item.key = x.key
  PROVE  LET C == Renewed(B, b, x)
         IN  /\ Sound(h, C) /\ Size(C) = Size(B) /\ Occupied(C) = Occupied(B)
             /\ ItemsIn(C) = (ItemsIn(B) \ {B[b].item}) \cup {x}
<1> DEFINE C == Renewed(B, b, x)
<1>1. /\ Array(B) /\ b \in DOMAIN B /\ B[b] \in Entries
  BY Occupation DEF Sound, Occupied
<1>2. /\ DOMAIN C = DOMAIN B /\ C[b] = [item |-> x, dib |-> B[b].dib]
      /\ \A c \in DOMAIN B \ {b} : C[c] = B[c]
  BY <1>1 DEF Entries, Renewed
<1>3. Size(C) = Size(B) /\ \A c : Before(c, C) = Before(c, B)
  BY <1>2, SameShape
<1>4. C[b] \in Entries
  BY <1>1, <1>2 DEF Entries
<1>5. C \in [DOMAIN B -> Entries \cup {Free}]
  BY <1>1, <1>2, <1>4 DEF Array, Renewed
<1>6. Array(C)
  BY <1>1, <1>3, <1>5 DEF Array
<1> HIDE DEF C
<1>7. \A c \in DOMAIN B : C[c].dib = B[c].dib
  BY <1>1, <1>2 DEF Entries
<1>8. Occupied(C) = Occupied(B)
  BY <1>2, <1>7 DEF Occupied
<1>9. \A c \in Occupied(B) : c \in DOMAIN B /\ C[c].item.key = B[c].item.key
  BY <1>2 DEF Occupied
<1>10. Placed(h, C)
  BY <1>3, <1>7, <1>8, <1>9 DEF Placed, Lies, Sound
<1>11. Apart(C)
  BY <1>8, <1>9 DEF Apart, Sound
<1>12. Chained(C)
  <2>1. \A c \in Occupied(B) : Before(c, B) \in DOMAIN B
    BY <1>1, Around DEF Occupied
  <2> QED BY <1>3, <1>7, <1>8, <1>9, <2>1 DEF Chained, Linked, Sound
<1>13. \A c \in Occupied(B) \ {b} : B[c].item # B[b].item
  BY DEF Sound, Apart
<1>14. ItemsIn(C) = (ItemsIn(B) \ {B[b].item}) \cup {x}
  BY <1>2, <1>8, <1>9, <1>13 DEF ItemsIn
<1> QED BY <1>3, <1>6, <1>8, <1>10, <1>11, <1>12, <1>14 DEF Sound, C

-----------------------------------------------------------------------------
(* The items of a sound array are as many as its buckets in use. *)
LEMMA Counting ==
  ASSUME NEW B, Array(B), Apart(B)
  PROVE  /\ IsFiniteSet(ItemsIn(B)) /\ IsFiniteSet(Occupied(B))
         /\ Cardinality(ItemsIn(B)) = Cardinality(Occupied(B))
         /\ Cardinality(ItemsIn(B)) \in Nat
         /\ Cardinality(ItemsIn(B)) < Size(B) => Roomy(B)
<1>1. /\ DOMAIN B = 0 .. Size(B) - 1 /\ Size(B) \in Nat \ {0}
      /\ Occupied(B) \subseteq DOMAIN B
  BY DEF Array, Occupied
<1>2. IsFiniteSet(DOMAIN B) /\ Cardinality(DOMAIN B) = Size(B)
  BY <1>1, FS_Interval DEF Size
<1>3. IsFiniteSet(Occupied(B))
  BY <1>1, <1>2, FS_Subset
<1>4. IsFiniteSet(ItemsIn(B)) /\ Cardinality(ItemsIn(B)) = Cardinality(Occupied(B))
  <2> DEFINE f == [b \in Occupied(B) |-> B[b].item]
  <2>1. f \in Bijection(Occupied(B), ItemsIn(B))
    BY DEF Bijection, Injection, Surjection, Apart, ItemsIn, IsInjective
  <2>2. ExistsBijection(Occupied(B), ItemsIn(B))
    BY <2>1 DEF ExistsBijection
  <2> QED BY <1>3, <2>2, FS_Bijection
<1>5. Cardinality(ItemsIn(B)) \in Nat
  BY <1>4, FS_CardinalityType
<1>6. ASSUME ~Roomy(B) PROVE Occupied(B) = DOMAIN B
  BY <1>6 DEF Roomy, Occupied
<1> QED BY <1>1, <1>2, <1>3, <1>4, <1>5, <1>6

(* An array of free buckets. *)
LEMMA EmptyArray ==
  ASSUME NEW h, NEW n \in Nat \ {0}
  PROVE  /\ Sound(h, Empty(n)) /\ Size(Empty(n)) = n
         /\ ItemsIn(Empty(n)) = {} /\ KeysIn(Empty(n)) = {} /\ Occupied(Empty(n)) = {}
<1>1. Array(Empty(n)) /\ Size(Empty(n)) = n
  <2>1. Empty(n) \in [0 .. n - 1 -> Entries \cup {Free}]
    BY DEF Empty
  <2> QED BY <2>1, ArraySize
<1>2. Occupied(Empty(n)) = {}
  BY DEF Empty, Occupied, Free
<1> QED BY <1>1, <1>2 DEF Sound, Placed, Chained, Apart, ItemsIn, KeysIn

-----------------------------------------------------------------------------
(* A search for key k, at bucket b: it is at some distance d from the home *)
(* of k and has not passed its item.                                       *)
Seeks(h, k, b, B) == \E d \in 1 .. Size(B) : b = Pos(h, k, d, Size(B)) /\ Ahead(k, d, B)

LEMMA SeeksFirst ==
  ASSUME hash \in [Keys -> Nat], NEW k \in Keys, NEW B, Array(B)
  PROVE  Seeks(hash, k, Home(k, B), B) /\ Home(k, B) \in DOMAIN B
<1>1. Home(k, B) \in DOMAIN B /\ Home(k, B) = Pos(hash, k, 1, Size(B))
  BY HomeFirst
<1>2. 1 \in 1 .. Size(B)
  BY DEF Array
<1>3. Ahead(k, 1, B)
  BY Occupation DEF Ahead, Occupied
<1> QED BY <1>1, <1>2, <1>3 DEF Seeks

(* It goes on past an item of another key, after the last bucket on its    *)
(* way to the first again, ...                                             *)
LEMMA SeeksOn ==
  ASSUME NEW h \in [Keys -> Nat], NEW k \in Keys, NEW B, Sound(h, B), NEW b \in Occupied(B),
         Seeks(h, k, b, B), B[b].item.key # k
  PROVE  Seeks(h, k, After(b, B), B) /\ After(b, B) \in DOMAIN B
<1>1. Array(B) /\ b \in DOMAIN B /\ Size(B) \in Nat \ {0}
  BY DEF Sound, Occupied, Array
<1>2. PICK d \in 1 .. Size(B) : b = Pos(h, k, d, Size(B)) /\ Ahead(k, d, B)
  BY DEF Seeks
<1>3. After(b, B) \in DOMAIN B
  BY <1>1, Around
<1>4. CASE d < Size(B)
  <2>1. After(b, B) = Pos(h, k, d + 1, Size(B)) /\ d + 1 \in 1 .. Size(B)
    BY <1>1, <1>2, <1>4, NextPosition
  <2>2. ASSUME NEW c \in Occupied(B), B[c].item.key = k PROVE B[c].dib >= d + 1
    <3>1. B[c].dib >= d /\ B[c].dib \in Nat
      BY <1>1, <1>2, <2>2, Occupation DEF Ahead, Occupied
    <3>2. c = Pos(h, k, B[c].dib, Size(B))
      BY <2>2 DEF Sound, Placed, Lies
    <3>3. B[c].dib # d
      BY <1>2, <2>2, <3>2
    <3> QED BY <3>1, <3>3
  <2>3. Ahead(k, d + 1, B)
    BY <2>2 DEF Ahead
  <2> QED BY <1>3, <2>1, <2>3 DEF Seeks
<1>5. CASE d = Size(B)
  <2>1. After(b, B) = Pos(h, k, 1, Size(B)) /\ 1 \in 1 .. Size(B)
    BY <1>1, <1>2, <1>5, NextPosition
  <2>2. Ahead(k, 1, B)
    BY <1>1, Occupation DEF Ahead, Occupied
  <2> QED BY <1>3, <2>1, <2>2 DEF Seeks
<1> QED BY <1>1, <1>2, <1>4, <1>5

(* ... and ends at a free bucket only if no item has its key.              *)
LEMMA SeeksEnd ==
  ASSUME NEW h \in [Keys -> Nat], NEW k \in Keys, NEW B, Sound(h, B), NEW b \in DOMAIN B,
         Seeks(h, k, b, B), B[b].dib = 0
  PROVE  k \notin KeysIn(B)
<1> SUFFICES ASSUME NEW c \in Occupied(B), B[c].item.key = k PROVE FALSE
  BY DEF KeysIn
<1>1. PICK d \in 1 .. Size(B) : b = Pos(h, k, d, Size(B)) /\ Ahead(k, d, B)
  BY DEF Seeks
<1>2. B[c].dib >= d /\ B[c].dib \in Nat
  BY <1>1, Occupation DEF Ahead, Occupied, Sound
<1>3. d \in 1 .. B[c].dib
  BY <1>1, <1>2
<1>4. B[b].dib >= d
  BY <1>1, <1>3, Behind
<1> QED BY <1>1, <1>4

-----------------------------------------------------------------------------
(* An array with a gap at bucket p, where an item was taken out: only the  *)
(* item after it may miss the one before it.                               *)
Gapped(h, H, p, b) ==
  /\ Array(H) /\ Placed(h, H) /\ Apart(H)
  /\ b \in DOMAIN H /\ p = Before(b, H) /\ H[p] = Free
  /\ \A c \in Occupied(H) : c # b => Linked(H[c], c, H)
  /\ H[b].dib > 2 => H[Before(p, H)].dib >= H[b].dib - 2
  /\ \E f \in DOMAIN H : f # p /\ H[f].dib = 0

LEMMA Gap ==
  ASSUME NEW h \in [Keys -> Nat], NEW B, Sound(h, B), Roomy(B), NEW p \in Occupied(B)
  PROVE  LET H == Filled(B, p, Free)
         IN  /\ Gapped(h, H, p, After(p, B)) /\ Size(H) = Size(B)
             /\ ItemsIn(H) = ItemsIn(B) \ {B[p].item}
             /\ B[p].item.key \notin KeysIn(H) /\ B[p].item \in ItemsIn(B)
<1> DEFINE H == Filled(B, p, Free)
           b == After(p, B)
<1>1. /\ Array(B) /\ p \in DOMAIN B /\ B[p].dib # 0 /\ Occupied(B) \subseteq DOMAIN B
      /\ B \in [DOMAIN B -> Entries \cup {Free}]
  BY DEF Sound, Occupied, Array
<1>2. /\ DOMAIN H = DOMAIN B /\ H[p] = Free /\ \A c \in DOMAIN B \ {p} : H[c] = B[c]
      /\ H \in [DOMAIN B -> Entries \cup {Free}]
  BY <1>1 DEF Filled
<1>3. Size(H) = Size(B) /\ \A c : Before(c, H) = Before(c, B)
  BY <1>2, SameShape
<1>4. Array(H)
  BY <1>1, <1>2, <1>3 DEF Array
<1>5. b \in DOMAIN B /\ Before(b, B) = p /\ Before(p, B) \in DOMAIN B
  BY <1>1, Around
<1> HIDE DEF H, b
<1>6. Occupied(H) = Occupied(B) \ {p}
  BY <1>1, <1>2 DEF Occupied, Free
<1>7. \A c \in Occupied(H) : c \in Occupied(B) /\ c # p /\ H[c] = B[c]
  BY <1>1, <1>2, <1>6
<1>8. Placed(h, H) /\ Apart(H)
  BY <1>3, <1>7 DEF Placed, Lies, Apart, Sound
<1>9. PICK f \in DOMAIN B : B[f].dib = 0 /\ f # p
  BY <1>1 DEF Roomy
<1>10. Before(p, B) # p
  <2>1. Size(B) > 1
    BY <1>1, <1>9 DEF Array
  <2> QED BY <1>1, <2>1, Around
<1>11. ASSUME NEW c \in Occupied(H), c # b PROVE Linked(H[c], c, H)
  <2>1. Before(c, B) \in DOMAIN B /\ Before(c, B) # p
    <3>1. c \in DOMAIN B
      BY <1>1, <1>7
    <3>2. After(Before(c, B), B) = c /\ Before(c, B) \in DOMAIN B
      BY <1>1, <3>1, Around
    <3> QED BY <1>11, <3>2 DEF b
  <2>2. Linked(B[c], c, B)
    BY <1>7 DEF Sound, Chained
  <2> QED BY <1>2, <1>3, <1>7, <2>1, <2>2 DEF Linked
<1>12. ASSUME H[b].dib > 2 PROVE H[Before(p, B)].dib >= H[b].dib - 2
  <2>1. b # p /\ H[b] = B[b]
    BY <1>2, <1>5, <1>12 DEF Free
  <2>2. B[b].dib \in Nat /\ B[p].dib \in Nat /\ B[Before(p, B)].dib \in Nat
    BY <1>1, <1>5, Occupation
  <2>3. b \in Occupied(B)
    BY <1>5, <1>12, <2>1, <2>2 DEF Occupied
  <2>4. B[p].dib >= B[b].dib - 1
    BY <1>5, <1>12, <2>1, <2>2, <2>3 DEF Sound, Chained, Linked
  <2>5. B[Before(p, B)].dib >= B[p].dib - 1
    BY <1>12, <2>1, <2>2, <2>4 DEF Sound, Chained, Linked
  <2>6. H[Before(p, B)] = B[Before(p, B)]
    BY <1>2, <1>5, <1>10
  <2> QED BY <2>1, <2>2, <2>4, <2>5, <2>6
<1>13. Gapped(h, H, p, b)
  BY <1>2, <1>3, <1>4, <1>5, <1>8, <1>9, <1>11, <1>12 DEF Gapped
<1>14. \A c \in Occupied(B) \ {p} : B[c].item.key # B[p].item.key
  BY DEF Sound, Apart
<1>15. ItemsIn(H) = ItemsIn(B) \ {B[p].item}
  BY <1>6, <1>7, <1>14 DEF ItemsIn
<1>16. B[p].item.key \notin KeysIn(H)
  BY <1>6, <1>7, <1>14 DEF KeysIn
<1>17. B[p].item \in ItemsIn(B)
  BY DEF ItemsIn
<1> QED BY <1>3, <1>13, <1>15, <1>16, <1>17 DEF H, b

(* An item that moves back into the gap leaves one where it was; ...       *)
LEMMA MoveBack ==
  ASSUME NEW h \in [Keys -> Nat], NEW H, NEW p, NEW b, Gapped(h, H, p, b), H[b].dib > 1
  PROVE  LET C == Moved(H, p, b)
         IN  /\ Gapped(h, C, b, After(b, H)) /\ Size(C) = Size(H)
             /\ ItemsIn(C) = ItemsIn(H) /\ KeysIn(C) = KeysIn(H)
             /\ Nearer(H[b]) \in Entries /\ Nearer(H[b]).dib <= Size(H)
<1> DEFINE C == Moved(H, p, b)
           a == After(b, H)
           e == Nearer(H[b])
<1>1. /\ Array(H) /\ b \in DOMAIN H /\ p = Before(b, H) /\ p \in DOMAIN H /\ a \in DOMAIN H
      /\ Before(a, H) = b /\ Before(p, H) \in DOMAIN H /\ After(p, H) = b
      /\ H \in [DOMAIN H -> Entries \cup {Free}] /\ Size(H) \in Nat \ {0}
      /\ Occupied(H) \subseteq DOMAIN H
  BY Around DEF Gapped, Array, Occupied
<1>2. /\ b \in Occupied(H) /\ H[b] \in Entries /\ H[b].dib \in Nat /\ p # b
      /\ p \notin Occupied(H) /\ H[b].item.key \in Keys
      /\ H[b].dib <= Size(H) /\ b = Pos(h, H[b].item.key, H[b].dib, Size(H))
  <2>1. b \in Occupied(H) /\ H[b] \in Entries /\ H[b].dib \in Nat /\ H[b].item.key \in Keys
    <3>1. H[b].dib \in Nat
      BY <1>1, Occupation
    <3>2. H[b].dib # 0
      BY <3>1
    <3> QED BY <1>1, <3>1, <3>2, Occupation
  <2>2. p # b /\ p \notin Occupied(H)
    BY DEF Gapped, Free, Occupied
  <2> QED BY <2>1, <2>2 DEF Gapped, Placed, Lies
<1>3. e \in Entries /\ e.item = H[b].item /\ e.dib = H[b].dib - 1
  BY <1>2 DEF Nearer, Entries
<1>4. /\ DOMAIN C = DOMAIN H /\ C[b] = Free /\ C[p] = e
      /\ \A c \in DOMAIN H \ {p, b} : C[c] = H[c]
      /\ C \in [DOMAIN H -> Entries \cup {Free}]
  BY <1>1, <1>2, <1>3 DEF Moved
<1>5. Size(C) = Size(H) /\ \A c : Before(c, C) = Before(c, H)
  BY <1>4, SameShape
<1>6. Array(C)
  BY <1>1, <1>4, <1>5 DEF Array
<1> HIDE DEF C
<1>7. PICK f \in DOMAIN H : f # p /\ f # b /\ H[f].dib = 0
  BY <1>2 DEF Gapped
<1>8. Before(p, H) # p /\ Before(p, H) # b /\ a # p /\ a # b
  <2>1. Size(H) > 2
    <3>1. DOMAIN H = 0 .. Size(H) - 1
      BY <1>1, Around
    <3> QED BY <1>1, <1>2, <1>7, <3>1
  <2>2. /\ b \in 0 .. Size(H) - 1 /\ p \in 0 .. Size(H) - 1
        /\ a = IF b + 1 = Size(H) THEN 0 ELSE b + 1
        /\ p = IF b = 0 THEN Size(H) - 1 ELSE b - 1
        /\ Before(p, H) = IF p = 0 THEN Size(H) - 1 ELSE p - 1
    BY <1>1, Around
  <2> QED BY <1>1, <2>1, <2>2
<1> HIDE DEF a, e
<1>9. Occupied(C) = (Occupied(H) \ {b}) \cup {p}
  <2>1. e.dib # 0
    BY <1>3 DEF Entries
  <2> QED BY <1>1, <1>2, <1>4, <2>1 DEF Occupied, Free
<1>10. \A c \in Occupied(C) \ {p} : c \in Occupied(H) /\ c # b /\ C[c] = H[c]
  BY <1>1, <1>2, <1>4, <1>9
<1>11. Lies(h, e, p, H)
  <2>1. H[b].dib \in 1 .. Size(H)
    BY <1>1, <1>2
  <2>2. p = Pos(h, H[b].item.key, H[b].dib - 1, Size(H))
    BY <1>1, <1>2, <2>1, NextPosition
  <2> QED BY <1>1, <1>2, <1>3, <2>2 DEF Lies
<1>12. Placed(h, C)
  BY <1>4, <1>5, <1>10, <1>11 DEF Placed, Lies, Gapped
<1>13. Apart(C)
  BY <1>2, <1>3, <1>4, <1>9, <1>10 DEF Apart, Gapped
<1>14. ASSUME NEW c \in Occupied(C), c # a PROVE Linked(C[c], c, C)
  <2>1. CASE c = p
    <3>1. ASSUME e.dib > 1 PROVE H[Before(p, H)].dib >= e.dib - 1
      BY <1>2, <1>3, <3>1 DEF Gapped
    <3>2. C[Before(p, H)] = H[Before(p, H)]
      BY <1>1, <1>4, <1>8
    <3> QED BY <1>4, <1>5, <2>1, <3>1, <3>2 DEF Linked
  <2>2. CASE c # p
    <3>1. c \in Occupied(H) /\ c # b /\ C[c] = H[c] /\ c \in DOMAIN H
      BY <1>1, <1>10, <2>2
    <3>2. Before(c, H) \in DOMAIN H /\ After(Before(c, H), H) = c
      BY <1>1, <3>1, Around
    <3>3. Before(c, H) # p /\ Before(c, H) # b
      BY <1>1, <1>14, <3>1, <3>2 DEF a
    <3>4. C[Before(c, H)] = H[Before(c, H)]
      BY <1>4, <3>2, <3>3
    <3> QED BY <1>5, <3>1, <3>4 DEF Gapped, Linked
  <2> QED BY <2>1, <2>2
<1>15. ASSUME C[a].dib > 2 PROVE C[p].dib >= C[a].dib - 2
  <2>1. C[a] = H[a] /\ H[a].dib \in Nat
    BY <1>1, <1>4, <1>8, Occupation
  <2>2. a \in Occupied(H)
    BY <1>1, <1>15, <2>1 DEF Occupied
  <2>3. H[b].dib >= H[a].dib - 1
    BY <1>1, <1>8, <1>15, <2>1, <2>2 DEF Gapped, Linked
  <2> QED BY <1>2, <1>3, <1>4, <2>1, <2>3
<1>16. f # b /\ C[f].dib = 0
  BY <1>4, <1>7
<1>17. Gapped(h, C, b, a)
  BY <1>1, <1>4, <1>5, <1>6, <1>7, <1>12, <1>13, <1>14, <1>15, <1>16 DEF Gapped
<1>18. ItemsIn(C) = ItemsIn(H) /\ KeysIn(C) = KeysIn(H)
  BY <1>2, <1>3, <1>4, <1>9, <1>10 DEF ItemsIn, KeysIn
<1>19. e.dib <= Size(H)
  BY <1>11 DEF Lies
<1> QED BY <1>3, <1>5, <1>17, <1>18, <1>19 DEF C, a, e

(* ... where the next bucket is free or its item is at home the array is   *)
(* sound as it is.                                                         *)
LEMMA GapCloses ==
  ASSUME NEW h, NEW H, NEW p, NEW b, Gapped(h, H, p, b), ~(H[b].dib > 1)
  PROVE  Sound(h, H) /\ Roomy(H)
BY DEF Gapped, Sound, Chained, Linked, Roomy

-----------------------------------------------------------------------------
(* The sizes an array may have: the least one, doubled any number of times.*)
Sizes == {n \in Nat : \A S \in SUBSET Nat :
                        MinBuckets \in S /\ (\A m \in S : 2 * m \in S) => n \in S}

LEMMA SizesDouble ==
  MinBuckets \in Sizes /\ \A n \in Sizes : 2 * n \in Sizes
<1>1. MinBuckets \in Nat
  BY HashMapAssumption
<1>2. \A n \in Sizes : n \in Nat /\ 2 * n \in Nat
  BY DEF Sizes
<1> QED BY <1>1, <1>2 DEF Sizes

LEMMA SizesHalve ==
  ASSUME NEW n \in Sizes
  PROVE  /\ n \in Nat \ {0} /\ n >= MinBuckets
         /\ n # MinBuckets => \E m \in Sizes : n = 2 * m
<1>1. MinBuckets \in Nat \ {0}
  BY HashMapAssumption
<1>2. n \in Nat /\ n >= MinBuckets
  <2> DEFINE S == {m \in Nat : m >= MinBuckets}
  <2>1. S \in SUBSET Nat /\ MinBuckets \in S /\ \A m \in S : 2 * m \in S
    BY <1>1
  <2> HIDE DEF S
  <2>2. n \in S
    BY <2>1 DEF Sizes
  <2> QED BY <2>2 DEF S
<1>3. ASSUME n # MinBuckets PROVE \E m \in Sizes : n = 2 * m
  <2> DEFINE S == {MinBuckets} \cup {2 * m : m \in Sizes}
  <2>1. S \in SUBSET Nat /\ S \subseteq Sizes
    BY SizesDouble DEF Sizes
  <2>2. MinBuckets \in S /\ \A m \in S : 2 * m \in S
    BY <2>1
  <2> HIDE DEF S
  <2>3. n \in S
    BY <2>1, <2>2 DEF Sizes
  <2> QED BY <1>3, <2>3 DEF S
<1> QED BY <1>1, <1>2, <1>3

(* A table grows before it is full, and is halved only when what it holds  *)
(* leaves room in the half.                                                *)
LEMMA Limits ==
  ASSUME NEW n \in Nat \ {0}
  PROVE  GrowAt(n) \in Nat /\ GrowAt(n) < n /\ ShrinkAt(2 * n) < n /\ (2 * n) \div 2 = n
<1>1. LoadFactor \in 0 .. 95 /\ ShrinkFactor \in 0 .. 47
  BY HashMapAssumption
<1>2. \A f \in 0 .. 95 : (n * f) \div 100 \in Nat /\ (n * f) \div 100 < n
  OBVIOUS
<1>3. \A f \in 0 .. 47 : (2 * n * f) \div 100 < n
  OBVIOUS
<1>4. (2 * n) \div 2 = n
  OBVIOUS
<1> QED BY <1>1, <1>2, <1>3, <1>4 DEF GrowAt, ShrinkAt

-----------------------------------------------------------------------------
(* The items of a set that have key k: none of them or one. *)
At(k, X) == {x \in X : x.key = k}

LEMMA KeyAt ==
  ASSUME NEW h, NEW B, Sound(h, B), NEW b \in Occupied(B)
  PROVE  At(B[b].item.key, ItemsIn(B)) = {B[b].item} /\ B[b].item \in ItemsIn(B)
BY DEF Sound, Apart, At, ItemsIn

LEMMA KeyNowhere ==
  ASSUME NEW B, NEW k, k \notin KeysIn(B)
  PROVE  At(k, ItemsIn(B)) = {}
BY DEF KeysIn, At, ItemsIn

LEMMA ItemsTyped ==
  ASSUME NEW B, Array(B)
  PROVE  ItemsIn(B) \subseteq Items
BY Occupation DEF ItemsIn, Occupied

(* The items of the buckets before bucket m. *)
Taken(B, m) == {B[b].item : b \in {c \in Occupied(B) : c < m}}

LEMMA TakenAll ==
  ASSUME NEW B, Array(B)
  PROVE  Taken(B, 0) = {} /\ Taken(B, Size(B)) = ItemsIn(B)
<1>1. \A c \in Occupied(B) : c \in 0 .. Size(B) - 1
  BY DEF Occupied, Array
<1>2. Size(B) \in Nat
  BY DEF Array
<1> HIDE DEF Size
<1>3. \A c \in Occupied(B) : ~(c < 0) /\ c < Size(B)
  BY <1>1, <1>2
<1> QED BY <1>3 DEF Taken, ItemsIn

LEMMA TakenNext ==
  ASSUME NEW h, NEW B, Sound(h, B), NEW m \in DOMAIN B
  PROVE  /\ Taken(B, m) \subseteq ItemsIn(B) /\ Taken(B, m + 1) \subseteq ItemsIn(B)
         /\ B[m].dib = 0 => Taken(B, m + 1) = Taken(B, m)
         /\ B[m].dib # 0 => /\ Taken(B, m + 1) = Taken(B, m) \cup {B[m].item}
                            /\ \A x \in Taken(B, m) : x.key # B[m].item.key
<1>1. \A c \in Occupied(B) : c \in Nat /\ c \in DOMAIN B /\ B[c].dib # 0
  BY DEF Occupied, Sound, Array
<1>2. m \in Nat
  BY DEF Sound, Array
<1>3. \A c \in Occupied(B) : c < m + 1 <=> c < m \/ c = m
  BY <1>1, <1>2
<1>4. ~(m < m)
  BY <1>2
<1>5. ASSUME B[m].dib = 0 PROVE Taken(B, m + 1) = Taken(B, m)
  BY <1>1, <1>3, <1>5 DEF Taken
<1>6. ASSUME B[m].dib # 0
      PROVE  /\ Taken(B, m + 1) = Taken(B, m) \cup {B[m].item}
             /\ \A x \in Taken(B, m) : x.key # B[m].item.key
  <2>1. m \in Occupied(B)
    BY <1>6 DEF Occupied
  <2>2. Taken(B, m + 1) = Taken(B, m) \cup {B[m].item}
    BY <1>3, <2>1 DEF Taken
  <2>3. ASSUME NEW c \in Occupied(B), c < m PROVE B[c].item.key # B[m].item.key
    BY <1>4, <2>1, <2>3 DEF Sound, Apart
  <2> QED BY <2>2, <2>3 DEF Taken
<1>7. Taken(B, m) \subseteq ItemsIn(B) /\ Taken(B, m + 1) \subseteq ItemsIn(B)
  BY DEF Taken, ItemsIn
<1> QED BY <1>5, <1>6, <1>7

LEMMA Smaller ==
  ASSUME NEW B, Array(B), Apart(B), NEW X \in SUBSET ItemsIn(B)
  PROVE  /\ IsFiniteSet(X) /\ Cardinality(X) \in Nat
         /\ Cardinality(X) <= Cardinality(ItemsIn(B))
         /\ Cardinality(X) = Cardinality(ItemsIn(B)) => X = ItemsIn(B)
<1>1. IsFiniteSet(ItemsIn(B))
  BY Counting
<1> QED BY <1>1, FS_Subset, FS_CardinalityType

-----------------------------------------------------------------------------
(* The inductive invariant: what the table holds at each point of its      *)
(* loops.                                                                  *)
Fixed == /\ hash \in Hashes /\ cap \in Sizes /\ oom \in BOOLEAN
         /\ Array(buckets) /\ Size(buckets) \in Sizes
         /\ count \in 0 .. Size(buckets) - 1
         /\ pc \in {"idle", "set", "grow", "shrink", "get", "delete", "shift", "scan"}

Counted == Sound(hash, buckets) /\ count = Cardinality(ItemsIn(buckets))
Rest == hand = Free /\ arr = <<>> /\ fresh = <<>>

IdleInv == pc = "idle" => Counted /\ Rest

(* The item in hand is the new one, whose key has not been met, or one it  *)
(* has displaced, and then its key is nowhere.                             *)
Coming == /\ hand.item = arg /\ Ahead(arg.key, hand.dib, buckets)
          /\ before.content = ItemsIn(buckets)
Displaced == /\ hand.item.key \notin KeysIn(buckets)
             /\ ItemsIn(buckets) \cup {hand.item} = before.content \cup {arg}
             /\ At(arg.key, before.content) = {}
SetInv == pc = "set" =>
  /\ Counted /\ count + 1 < Size(buckets)
  /\ arr = <<>> /\ fresh = <<>> /\ arg \in Items /\ oom = FALSE
  /\ Looks(hash, hand, i, buckets)
  /\ Coming \/ Displaced

SeekInv == pc \in {"get", "delete"} =>
  /\ Counted /\ Rest
  /\ arg \in Keys /\ i \in DOMAIN buckets /\ Seeks(hash, arg, i, buckets)
  /\ before.content = ItemsIn(buckets)
  /\ pc = "get" => before.oom = oom
  /\ pc = "delete" => oom = FALSE

(* The array without the copy of an item that has moved back. *)
Kept(B, b) == Filled(B, Before(b, B), Free)
ShiftInv == pc = "shift" =>
  /\ i \in DOMAIN buckets /\ arg \in Items /\ oom = FALSE /\ Rest
  /\ buckets[Before(i, buckets)].dib <= Size(buckets)
  /\ Gapped(hash, Kept(buckets, i), Before(i, buckets), i)
  /\ count = Cardinality(ItemsIn(Kept(buckets, i))) + 1
  /\ before.content = ItemsIn(Kept(buckets, i)) \cup {arg}
  /\ arg.key \notin KeysIn(Kept(buckets, i))

(* A resize has moved the items of the buckets before src, but for the one *)
(* in hand.                                                                *)
ResizeInv == pc \in {"grow", "shrink"} =>
  /\ Counted /\ arr = <<>> /\ oom = FALSE /\ arg \in Items
  /\ Sound(hash, fresh) /\ Size(fresh) \in Sizes /\ src \in 0 .. Size(buckets)
  /\ \/ hand = Free /\ ItemsIn(fresh) = Taken(buckets, src)
     \/ /\ src < Size(buckets)
        /\ Looks(hash, hand, i, fresh) /\ hand.item.key \notin KeysIn(fresh)
        /\ ItemsIn(fresh) \cup {hand.item} = Taken(buckets, src + 1)
  /\ pc = "grow" => /\ before.content = ItemsIn(buckets)
                    /\ count + 1 < Size(fresh)
  /\ pc = "shrink" => /\ before.content = ItemsIn(buckets) \cup {arg}
                      /\ arg.key \notin KeysIn(buckets)
                      /\ count < Size(fresh)

ScanInv == pc = "scan" =>
  /\ Counted /\ hand = Free /\ fresh = <<>>
  /\ before.content = ItemsIn(buckets) /\ before.oom = oom
  /\ i \in 0 .. Size(buckets) /\ arr \in Seq(Items)
  /\ {arr[n] : n \in DOMAIN arr} = Taken(buckets, i)
  /\ Len(arr) = Cardinality(Taken(buckets, i))

IInv == Fixed /\ IdleInv /\ SetInv /\ SeekInv /\ ShiftInv /\ ResizeInv /\ ScanInv

(* What a caller sees of the table. *)
Answered == <<Seen.content, ret, Seen.oom>>

LEMMA FixedTypes ==
  ASSUME Fixed
  PROVE  /\ hash \in [Keys -> Nat] /\ Size(buckets) \in Nat \ {0} /\ cap \in Nat \ {0}
         /\ NBuckets = Size(buckets) /\ count \in Nat /\ count < Size(buckets)
<1>1. hash \in [Keys -> Nat]
  BY HashMapAssumption DEF Fixed
<1>2. Size(buckets) \in Nat \ {0} /\ cap \in Nat \ {0}
  BY SizesHalve DEF Fixed
<1>3. count \in Nat /\ count < Size(buckets)
  BY <1>2 DEF Fixed
<1>4. NBuckets = Size(buckets)
  BY DEF NBuckets, Size
<1> QED BY <1>1, <1>2, <1>3, <1>4

LEMMA InitInv == Init => IInv /\ T!Init
<1> SUFFICES ASSUME Init PROVE IInv /\ T!Init
  OBVIOUS
<1>1. MinBuckets \in Nat \ {0} /\ hash \in [Keys -> Nat]
  BY HashMapAssumption DEF Init
<1>2. /\ Sound(hash, buckets) /\ Size(buckets) = MinBuckets /\ ItemsIn(buckets) = {}
      /\ Occupied(buckets) = {}
  BY <1>1, EmptyArray DEF Init
<1>3. Cardinality({}) = 0
  BY FS_EmptySet
<1>4. Fixed
  <2>1. hash \in Hashes /\ cap = MinBuckets /\ count = 0 /\ oom = FALSE /\ pc = "idle"
    BY DEF Init
  <2>2. count \in 0 .. Size(buckets) - 1
    BY <1>1, <1>2, <2>1
  <2> QED BY <1>2, <2>1, <2>2, SizesDouble DEF Fixed, Sound
<1>5. IInv
  BY <1>2, <1>3, <1>4 DEF Init, IInv, IdleInv, Counted, Rest, SetInv, SeekInv, ShiftInv, ResizeInv, ScanInv
<1>6. Seen.content = {} /\ Seen.oom = FALSE
  BY <1>2 DEF Init, Seen, Visible, Contents
<1> QED BY <1>5, <1>6 DEF Init, T!Init

-----------------------------------------------------------------------------
(* A step leads to one label only. *)
LEMMA ToIdle ==
  ASSUME Fixed', pc' = "idle", Counted', Rest' PROVE IInv'
BY DEF IInv, IdleInv, SetInv, SeekInv, ShiftInv, ResizeInv, ScanInv

LEMMA ToSet ==
  ASSUME Fixed', pc' = "set", SetInv' PROVE IInv'
BY DEF IInv, IdleInv, SeekInv, ShiftInv, ResizeInv, ScanInv

LEMMA ToSeek ==
  ASSUME Fixed', pc' \in {"get", "delete"}, SeekInv' PROVE IInv'
BY DEF IInv, IdleInv, SetInv, ShiftInv, ResizeInv, ScanInv

LEMMA ToShift ==
  ASSUME Fixed', pc' = "shift", ShiftInv' PROVE IInv'
BY DEF IInv, IdleInv, SetInv, SeekInv, ResizeInv, ScanInv

LEMMA ToResize ==
  ASSUME Fixed', pc' \in {"grow", "shrink"}, ResizeInv' PROVE IInv'
BY DEF IInv, IdleInv, SetInv, SeekInv, ShiftInv, ScanInv

LEMMA ToScan ==
  ASSUME Fixed', pc' = "scan", ScanInv' PROVE IInv'
BY DEF IInv, IdleInv, SetInv, SeekInv, ShiftInv, ResizeInv

(* An operation ends with a sound and counted array. *)
LEMMA Ending ==
  ASSUME NEW r, Fixed, Return(r), Sound(hash, buckets'), Size(buckets') \in Sizes,
         count' = Cardinality(ItemsIn(buckets')), count' < Size(buckets'), oom' \in BOOLEAN
  PROVE  IInv'
<1>1. count' \in Nat /\ Size(buckets') \in Nat
  BY Counting, SizesHalve DEF Sound
<1>2. /\ hash' = hash /\ cap' = cap /\ pc' = "idle" /\ hand' = Free /\ arr' = <<>>
      /\ fresh' = <<>>
  BY DEF Return
<1>3. count' \in 0 .. Size(buckets') - 1
  BY <1>1
<1>4. Fixed'
  BY <1>2, <1>3 DEF Fixed, Sound
<1> QED BY <1>2, <1>4, ToIdle DEF Counted, Rest

(* What a caller sees does not change before the end of an operation, ...  *)
LEMMA Quiet ==
  ASSUME pc # "idle", pc' # "idle", before' = before, ret' = ret
  PROVE  Answered' = Answered
BY DEF Answered, Seen

LEMMA Begun ==
  ASSUME pc = "idle", pc' # "idle", before' = Visible, ret' = ret
  PROVE  Answered' = Answered
BY DEF Answered, Seen

(* ... and then it is what the array holds. *)
LEMMA Ended ==
  ASSUME pc # "idle", pc' = "idle"
  PROVE  /\ Seen.content = before.content /\ Seen.oom = before.oom
         /\ Seen.content' = ItemsIn(buckets') /\ Seen.oom' = oom'
BY DEF Seen, Visible, Contents, ItemsIn

LEMMA SameCardinality ==
  \A X : T!Cardinality(X) = Cardinality(X)
BY DEF T!Cardinality, Cardinality

LEMMA Answers ==
  /\ T!Enumerates(<<>>, {})
  /\ \A x : T!Enumerates(<<x>>, {x})
<1>1. T!Enumerates(<<>>, {})
  <2> DEFINE s == <<>>
  <2>1. Len(s) = 0 /\ DOMAIN s = {}
    OBVIOUS
  <2>2. Cardinality({}) = 0
    BY FS_EmptySet
  <2> HIDE DEF s
  <2>3. {s[n] : n \in DOMAIN s} = {}
    BY <2>1
  <2>4. T!Enumerates(s, {})
    BY <2>1, <2>2, <2>3, SameCardinality DEF T!Enumerates
  <2> QED BY <2>4 DEF s
<1>2. ASSUME NEW x PROVE T!Enumerates(<<x>>, {x})
  <2> DEFINE s == <<x>>
  <2>1. Len(s) = 1 /\ DOMAIN s = {1} /\ s[1] = x
    OBVIOUS
  <2>2. Cardinality({x}) = 1
    BY FS_Singleton
  <2> HIDE DEF s
  <2>3. {s[n] : n \in DOMAIN s} = {x}
    BY <2>1
  <2>4. T!Enumerates(s, {x})
    BY <2>1, <2>2, <2>3, SameCardinality DEF T!Enumerates
  <2> QED BY <2>4 DEF s
<1> QED BY <1>1, <1>2

LEMMA StoredAt ==
  ASSUME NEW k PROVE T!Stored(k) = At(k, Seen.content)
BY DEF T!Stored, At

-----------------------------------------------------------------------------
(* An insertion, bucket by bucket. *)
LEMMA SetStepInv ==
  ASSUME IInv, SetStep
  PROVE  IInv' /\ [T!Next]_Answered
<1>1. /\ pc = "set" /\ Fixed /\ Counted /\ count + 1 < Size(buckets)
      /\ arr = <<>> /\ fresh = <<>> /\ arg \in Items /\ oom = FALSE /\ oom' = FALSE
      /\ Looks(hash, hand, i, buckets)
      /\ Coming \/ Displaced
  BY DEF IInv, SetInv, SetStep
<1>2. /\ hash \in [Keys -> Nat] /\ Size(buckets) \in Nat \ {0} /\ count \in Nat
      /\ Sound(hash, buckets) /\ count = Cardinality(ItemsIn(buckets))
      /\ Array(buckets) /\ Apart(buckets) /\ i \in DOMAIN buckets
      /\ hand \in Entries /\ hand.dib \in Nat \ {0} /\ hand.item \in Items
      /\ buckets[i].dib \in Nat /\ Size(buckets) \in Sizes
  BY <1>1, FixedTypes, Occupation DEF Counted, Looks, Entries, Sound, Fixed
<1>3. /\ Roomy(buckets) /\ count = Cardinality(Occupied(buckets))
      /\ IsFiniteSet(ItemsIn(buckets))
  BY <1>1, <1>2, Counting
<1>4. ASSUME buckets[i].dib < hand.dib PROVE hand.item.key \notin KeysIn(buckets)
  BY <1>1, <1>2, <1>4, NoneAhead DEF Coming, Displaced
<1>5. CASE /\ buckets[i].dib = 0
           /\ buckets' = [buckets EXCEPT ![i] = hand]
           /\ count' = count + 1
           /\ Return(<<>>)
  <2>1. buckets[i].dib < hand.dib /\ i \notin Occupied(buckets)
    BY <1>2, <1>5 DEF Occupied
  <2>2. hand.item.key \notin KeysIn(buckets)
    BY <1>4, <2>1
  <2>3. /\ Sound(hash, buckets') /\ Size(buckets') = Size(buckets)
        /\ ItemsIn(buckets') = ItemsIn(buckets) \cup {hand.item}
    <3> DEFINE C == Filled(buckets, i, hand)
    <3>1. /\ Sound(hash, C) /\ Size(C) = Size(buckets)
          /\ ItemsIn(C) = ItemsIn(buckets) \cup {hand.item}
      BY <1>1, <1>2, <2>1, <2>2, PutFree
    <3> QED BY <1>5, <3>1 DEF Filled
  <2>4. hand.item \notin ItemsIn(buckets)
    BY <2>2 DEF ItemsIn, KeysIn
  <2>5. Cardinality(ItemsIn(buckets')) = count + 1
    <3>1. /\ ItemsIn(buckets') = ItemsIn(buckets) \cup {hand.item}
          /\ count = Cardinality(ItemsIn(buckets)) /\ IsFiniteSet(ItemsIn(buckets))
      BY <1>2, <1>3, <2>3
    <3>2. Cardinality(ItemsIn(buckets) \cup {hand.item}) = Cardinality(ItemsIn(buckets)) + 1
      BY <2>4, <3>1, FS_AddElement
    <3> QED BY <3>1, <3>2
  <2>6. IInv'
    BY <1>1, <1>2, <1>5, <2>3, <2>5, Ending
  <2>7. ItemsIn(buckets') = before.content \cup {arg} /\ At(arg.key, before.content) = {}
    <3>1. CASE Coming
      BY <2>2, <2>3, <3>1, KeyNowhere DEF Coming
    <3>2. CASE Displaced
      BY <2>3, <3>2 DEF Displaced
    <3> QED BY <1>1, <3>1, <3>2
  <2>8. /\ Seen.content = before.content /\ Seen.content' = ItemsIn(buckets')
        /\ Seen.oom' = FALSE /\ ret' = <<>>
    BY <1>1, <1>5, Ended DEF Return
  <2>9. T!Set(arg)
    BY <2>7, <2>8, StoredAt, Answers DEF T!Set
  <2> QED BY <1>1, <2>6, <2>9 DEF T!Next
<1>6. CASE /\ buckets[i].dib # 0 /\ Match(i, hand.item.key)
           /\ buckets' = [buckets EXCEPT ![i].item = hand.item]
           /\ Return(<<buckets[i].item>>)
           /\ UNCHANGED count
  <2>1. i \in Occupied(buckets) /\ buckets[i].item.key = hand.item.key
    BY <1>2, <1>6 DEF Occupied, Match
  <2>2. /\ Sound(hash, buckets') /\ Size(buckets') = Size(buckets)
        /\ Occupied(buckets') = Occupied(buckets)
        /\ ItemsIn(buckets') = (ItemsIn(buckets) \ {buckets[i].item}) \cup {hand.item}
    <3> DEFINE C == Renewed(buckets, i, hand.item)
    <3>1. /\ Sound(hash, C) /\ Size(C) = Size(buckets)
          /\ Occupied(C) = Occupied(buckets)
          /\ ItemsIn(C) = (ItemsIn(buckets) \ {buckets[i].item}) \cup {hand.item}
      BY <1>2, <2>1, Replace
    <3> QED BY <1>6, <3>1 DEF Renewed
  <2>3. Cardinality(ItemsIn(buckets')) = count
    BY <1>3, <2>2, Counting DEF Sound
  <2>4. IInv'
    <3>1. count' = Cardinality(ItemsIn(buckets')) /\ count' < Size(buckets')
      BY <1>1, <1>2, <1>6, <2>2, <2>3
    <3> QED BY <1>1, <1>2, <1>6, <2>2, <3>1, Ending
  <2>5. Coming
    BY <1>1, <2>1 DEF Displaced, KeysIn
  <2>6. /\ hand.item = arg /\ At(arg.key, before.content) = {buckets[i].item}
        /\ before.content = ItemsIn(buckets)
    BY <1>2, <2>1, <2>5, KeyAt DEF Coming
  <2>7. /\ Seen.content = before.content /\ Seen.content' = ItemsIn(buckets')
        /\ Seen.oom' = FALSE /\ ret' = <<buckets[i].item>>
    BY <1>1, <1>6, Ended DEF Return
  <2>8. T!Set(arg)
    BY <2>2, <2>6, <2>7, StoredAt, Answers DEF T!Set
  <2> QED BY <1>1, <2>4, <2>8 DEF T!Next
<1>7. ASSUME buckets[i].dib # 0, ~Match(i, hand.item.key),
             IF buckets[i].dib < hand.dib
             THEN /\ buckets' = [buckets EXCEPT ![i] = hand]
                  /\ hand' = Farther(buckets[i])
             ELSE /\ hand' = Farther(hand)
                  /\ UNCHANGED buckets,
             i' = After(i, buckets),
             UNCHANGED <<hash, cap, count, fresh, pc, arg, src, arr, ret, before>>
      PROVE  IInv' /\ [T!Next]_Answered
  <2>1. Answered' = Answered
    BY <1>1, <1>7, Quiet
  <2>2. i \in Occupied(buckets) /\ buckets[i].item.key # hand.item.key
    BY <1>2, <1>7 DEF Occupied, Match
  <2>3. CASE buckets[i].dib < hand.dib
    <3>1. buckets' = [buckets EXCEPT ![i] = hand] /\ hand' = Farther(buckets[i])
      BY <1>7, <2>3
    <3>2. hand.item.key \notin KeysIn(buckets)
      BY <1>4, <2>3
    <3>3. /\ Sound(hash, buckets') /\ Size(buckets') = Size(buckets) /\ buckets[i].item \in ItemsIn(buckets)
          /\ ItemsIn(buckets') = (ItemsIn(buckets) \ {buckets[i].item}) \cup {hand.item}
          /\ Looks(hash, hand', i', buckets')
          /\ buckets[i].item.key \notin KeysIn(buckets')
          /\ Occupied(buckets') = Occupied(buckets)
      <4> DEFINE C == Filled(buckets, i, hand)
      <4>1. /\ Sound(hash, C) /\ Size(C) = Size(buckets)
            /\ buckets[i].item \in ItemsIn(buckets)
            /\ ItemsIn(C) = (ItemsIn(buckets) \ {buckets[i].item}) \cup {hand.item}
            /\ Looks(hash, Farther(buckets[i]), After(i, buckets), C)
            /\ buckets[i].item.key \notin KeysIn(C)
            /\ Occupied(C) = Occupied(buckets)
        BY <1>1, <1>2, <1>3, <1>7, <2>3, <3>2, PutSwap
      <4> QED BY <1>7, <3>1, <4>1 DEF Filled
    <3>4. Cardinality(ItemsIn(buckets')) = count
      BY <1>3, <3>3, Counting DEF Sound
    <3>5. hand'.item = buckets[i].item
      BY <1>2, <2>2, <3>1, Occupation DEF Farther, Entries, Occupied
    <3>6. Displaced'
      <4>1. At(arg.key, before.content) = {}
        BY <1>1, <3>2, KeyNowhere DEF Coming, Displaced
      <4>2. ItemsIn(buckets) \cup {hand.item} = before.content \cup {arg}
        BY <1>1 DEF Coming, Displaced
      <4> QED BY <1>7, <3>3, <3>5, <4>1, <4>2 DEF Displaced
    <3>7. Fixed' /\ pc' = "set"
      BY <1>1, <1>7, <3>3 DEF Fixed, Sound
    <3>8. SetInv'
      BY <1>1, <1>2, <1>7, <3>3, <3>4, <3>6 DEF SetInv, Counted
    <3> QED BY <2>1, <3>7, <3>8, ToSet
  <2>4. CASE ~(buckets[i].dib < hand.dib)
    <3>1. hand' = Farther(hand) /\ buckets' = buckets
      BY <1>7, <2>4
    <3>2. buckets[i].dib >= hand.dib
      BY <1>2, <2>4
    <3>3. /\ Looks(hash, Farther(hand), After(i, buckets), buckets)
          /\ Ahead(hand.item.key, hand.dib, buckets)
               => Ahead(hand.item.key, hand.dib + 1, buckets)
      BY <1>1, <1>2, <1>3, <2>2, <3>2, LooksOn
    <3>4. hand'.item = hand.item /\ hand'.dib = hand.dib + 1
      BY <1>2, <3>1 DEF Farther, Entries
    <3>5. Coming' \/ Displaced'
      <4>1. CASE Coming
        BY <1>7, <3>1, <3>3, <3>4, <4>1 DEF Coming
      <4>2. CASE Displaced
        BY <1>7, <3>1, <3>4, <4>2 DEF Displaced
      <4> QED BY <1>1, <4>1, <4>2
    <3>6. Fixed' /\ pc' = "set"
      BY <1>1, <1>7, <3>1 DEF Fixed
    <3>7. SetInv'
      BY <1>1, <1>2, <1>7, <3>1, <3>3, <3>5 DEF SetInv, Counted
    <3> QED BY <2>1, <3>6, <3>7, ToSet
  <2> QED BY <2>3, <2>4
<1> QED BY <1>5, <1>6, <1>7 DEF SetStep

-----------------------------------------------------------------------------
(* A resize, bucket by bucket of the old array ... *)
LEMMA Removal ==
  ASSUME NEW B, NEW x, x.key \notin KeysIn(B)
  PROVE  /\ At(x.key, ItemsIn(B) \cup {x}) = {x}
         /\ (ItemsIn(B) \cup {x}) \ {x} = ItemsIn(B)
BY DEF At, ItemsIn, KeysIn

LEMMA ResizeFacts ==
  ASSUME IInv, Resizing
  PROVE  /\ pc \in {"grow", "shrink"} /\ Fixed /\ hash \in [Keys -> Nat] /\ NBuckets = Size(buckets)
         /\ Sound(hash, buckets) /\ Array(buckets) /\ Apart(buckets)
         /\ count = Cardinality(ItemsIn(buckets)) /\ Size(buckets) \in Nat \ {0}
         /\ arr = <<>> /\ oom = FALSE /\ arg \in Items
         /\ Sound(hash, fresh) /\ Array(fresh) /\ Apart(fresh)
         /\ Size(fresh) \in Sizes /\ Size(fresh) \in Nat \ {0}
         /\ src \in 0 .. Size(buckets) /\ count \in Nat /\ count < Size(fresh)
         /\ hand = Free => ItemsIn(fresh) = Taken(buckets, src)
         /\ hand # Free => /\ src < Size(buckets) /\ src \in DOMAIN buckets
                           /\ Looks(hash, hand, i, fresh) /\ hand.item.key \notin KeysIn(fresh)
                           /\ ItemsIn(fresh) \cup {hand.item} = Taken(buckets, src + 1)
         /\ pc = "grow" => /\ before.content = ItemsIn(buckets)
                           /\ count + 1 < Size(fresh)
         /\ pc = "shrink" => /\ before.content = ItemsIn(buckets) \cup {arg}
                             /\ arg.key \notin KeysIn(buckets)
<1>1. pc \in {"grow", "shrink"} /\ Fixed /\ ResizeInv
  BY DEF IInv, Resizing
<1>2. /\ Counted /\ arr = <<>> /\ oom = FALSE /\ arg \in Items
      /\ Sound(hash, fresh) /\ Size(fresh) \in Sizes /\ src \in 0 .. Size(buckets)
      /\ pc = "grow" => /\ before.content = ItemsIn(buckets)
                        /\ count + 1 < Size(fresh)
      /\ pc = "shrink" => /\ before.content = ItemsIn(buckets) \cup {arg}
                          /\ arg.key \notin KeysIn(buckets)
                          /\ count < Size(fresh)
  BY <1>1 DEF ResizeInv
<1>3. \/ hand = Free /\ ItemsIn(fresh) = Taken(buckets, src)
      \/ /\ src < Size(buckets)
         /\ Looks(hash, hand, i, fresh) /\ hand.item.key \notin KeysIn(fresh)
         /\ ItemsIn(fresh) \cup {hand.item} = Taken(buckets, src + 1)
  BY <1>1 DEF ResizeInv
<1>4. /\ hash \in [Keys -> Nat] /\ NBuckets = Size(buckets) /\ Size(buckets) \in Nat \ {0}
      /\ count \in Nat /\ Size(fresh) \in Nat \ {0}
  BY <1>1, <1>2, FixedTypes, SizesHalve
<1>5. count < Size(fresh)
  BY <1>1, <1>2, <1>4
<1>6. Looks(hash, hand, i, fresh) => hand # Free
  BY DEF Looks, Entries, Free
<1>7. src < Size(buckets) => src \in DOMAIN buckets
  <2>1. DOMAIN buckets = 0 .. Size(buckets) - 1
    BY <1>1 DEF Fixed, Array
  <2> QED BY <1>2, <1>4, <2>1
<1> QED BY <1>1, <1>2, <1>3, <1>4, <1>5, <1>6, <1>7 DEF Counted, Sound

LEMMA ResizeTakeInv ==
  ASSUME IInv, ResizeTake
  PROVE  IInv' /\ [T!Next]_Answered
<1>1. /\ Resizing /\ hand = Free /\ src < NBuckets
      /\ IF buckets[src].dib = 0
         THEN src' = src + 1 /\ UNCHANGED <<hand, i>>
         ELSE /\ hand' = Entry(buckets[src].item)
              /\ i' = Home(buckets[src].item.key, fresh)
              /\ UNCHANGED src
      /\ UNCHANGED <<hash, buckets, cap, count, fresh, pc, arg, arr, ret, oom, before>>
  BY DEF ResizeTake
<1>2. /\ Fixed /\ pc \in {"grow", "shrink"} /\ NBuckets = Size(buckets)
      /\ hash \in [Keys -> Nat] /\ Sound(hash, buckets) /\ Array(buckets) /\ Array(fresh)
      /\ Size(buckets) \in Nat /\ src \in 0 .. Size(buckets)
      /\ ItemsIn(fresh) = Taken(buckets, src)
  BY <1>1, ResizeFacts
<1>3. src \in DOMAIN buckets
  BY <1>1, <1>2 DEF Array
<1>4. Fixed' /\ pc' \in {"grow", "shrink"} /\ Answered' = Answered
  BY <1>1, <1>2, Quiet DEF Fixed
<1>5. /\ src' \in 0 .. Size(buckets)
      /\ \/ hand' = Free /\ ItemsIn(fresh) = Taken(buckets, src')
         \/ /\ src' < Size(buckets)
            /\ Looks(hash, hand', i', fresh) /\ hand'.item.key \notin KeysIn(fresh)
            /\ ItemsIn(fresh) \cup {hand'.item} = Taken(buckets, src' + 1)
  <2>1. CASE buckets[src].dib = 0
    <3>1. src' = src + 1 /\ hand' = Free
      BY <1>1, <2>1
    <3>2. Taken(buckets, src + 1) = Taken(buckets, src)
      BY <1>2, <1>3, <2>1, TakenNext
    <3>3. src + 1 \in 0 .. Size(buckets)
      BY <1>1, <1>2
    <3> QED BY <1>2, <3>1, <3>2, <3>3
  <2>2. CASE buckets[src].dib # 0
    <3> DEFINE x == buckets[src].item
    <3>1. src' = src /\ hand' = Entry(x) /\ i' = Home(x.key, fresh)
      BY <1>1, <2>2
    <3>2. x \in Items
      BY <1>2, <1>3, <2>2, Occupation
    <3> HIDE DEF x
    <3>3. Looks(hash, Entry(x), Home(x.key, fresh), fresh)
      BY <1>2, <3>2, LooksFirst
    <3>4. hand'.item = x
      BY <3>1 DEF Entry
    <3>5. /\ Taken(buckets, src + 1) = Taken(buckets, src) \cup {x}
          /\ \A y \in Taken(buckets, src) : y.key # x.key
      BY <1>2, <1>3, <2>2, TakenNext DEF x
    <3>6. x.key \notin KeysIn(fresh)
      BY <1>2, <3>5 DEF KeysIn, ItemsIn
    <3> QED BY <1>1, <1>2, <3>1, <3>3, <3>4, <3>5, <3>6
  <2> QED BY <2>1, <2>2
<1>6. ResizeInv
  BY <1>2 DEF IInv
<1>7. ResizeInv'
  BY <1>1, <1>2, <1>5, <1>6 DEF ResizeInv, Counted
<1> QED BY <1>4, <1>7, ToResize

(* ... and of the new one; ... *)
LEMMA ResizePlaceInv ==
  ASSUME IInv, ResizePlace
  PROVE  IInv' /\ [T!Next]_Answered
<1>1. /\ Resizing /\ hand # Free
      /\ IF fresh[i].dib = 0
         THEN /\ fresh' = [fresh EXCEPT ![i] = hand]
              /\ hand' = Free
              /\ src' = src + 1
              /\ UNCHANGED i
         ELSE /\ IF fresh[i].dib < hand.dib
                 THEN fresh' = [fresh EXCEPT ![i] = hand] /\ hand' = Farther(fresh[i])
                 ELSE hand' = Farther(hand) /\ UNCHANGED fresh
              /\ i' = After(i, fresh)
              /\ UNCHANGED src
      /\ UNCHANGED <<hash, buckets, cap, count, pc, arg, arr, ret, oom, before>>
  BY DEF ResizePlace
<1>2. /\ Fixed /\ pc \in {"grow", "shrink"} /\ hash \in [Keys -> Nat]
      /\ Sound(hash, buckets) /\ Array(buckets) /\ Apart(buckets)
      /\ count = Cardinality(ItemsIn(buckets)) /\ Size(buckets) \in Nat
      /\ Sound(hash, fresh) /\ Array(fresh) /\ Apart(fresh) /\ Size(fresh) \in Nat
      /\ count \in Nat /\ count < Size(fresh)
      /\ src \in 0 .. Size(buckets) /\ src < Size(buckets) /\ src \in DOMAIN buckets
      /\ Looks(hash, hand, i, fresh) /\ hand.item.key \notin KeysIn(fresh)
      /\ ItemsIn(fresh) \cup {hand.item} = Taken(buckets, src + 1)
  BY <1>1, ResizeFacts
<1>3. /\ i \in DOMAIN fresh /\ fresh[i].dib \in Nat /\ hand \in Entries
      /\ hand.dib \in Nat \ {0}
  BY <1>2, Occupation DEF Looks, Entries
<1>4. Roomy(fresh)
  <2>1. ItemsIn(fresh) \subseteq ItemsIn(buckets)
    BY <1>2, TakenNext
  <2>2. Cardinality(ItemsIn(fresh)) <= count
    BY <1>2, <2>1, Smaller
  <2>3. Cardinality(ItemsIn(fresh)) \in Nat
    BY <1>2, Counting
  <2>4. Cardinality(ItemsIn(fresh)) < Size(fresh)
    BY <1>2, <2>2, <2>3
  <2> QED BY <1>2, <2>4, Counting
<1>5. Fixed' /\ pc' \in {"grow", "shrink"} /\ Answered' = Answered
  BY <1>1, <1>2, Quiet DEF Fixed
<1>6. /\ Sound(hash, fresh') /\ Size(fresh') = Size(fresh) /\ src' \in 0 .. Size(buckets)
      /\ \/ hand' = Free /\ ItemsIn(fresh') = Taken(buckets, src')
         \/ /\ src' < Size(buckets)
            /\ Looks(hash, hand', i', fresh') /\ hand'.item.key \notin KeysIn(fresh')
            /\ ItemsIn(fresh') \cup {hand'.item} = Taken(buckets, src' + 1)
  <2>1. CASE fresh[i].dib = 0
    <3>1. fresh' = Filled(fresh, i, hand) /\ hand' = Free /\ src' = src + 1
      BY <1>1, <2>1 DEF Filled
    <3>2. i \notin Occupied(fresh) /\ fresh[i].dib < hand.dib
      BY <1>3, <2>1 DEF Occupied
    <3> DEFINE C == Filled(fresh, i, hand)
    <3>3. /\ Sound(hash, C) /\ Size(C) = Size(fresh)
          /\ ItemsIn(C) = ItemsIn(fresh) \cup {hand.item}
      BY <1>2, <3>2, PutFree
    <3> HIDE DEF C
    <3>4. src + 1 \in 0 .. Size(buckets) /\ fresh' = C
      BY <1>2, <3>1 DEF C
    <3> QED BY <1>2, <3>1, <3>3, <3>4
  <2>2. CASE fresh[i].dib # 0 /\ fresh[i].dib < hand.dib
    <3>1. /\ fresh' = Filled(fresh, i, hand) /\ hand' = Farther(fresh[i]) /\ src' = src
          /\ i' = After(i, fresh)
      BY <1>1, <2>2 DEF Filled
    <3> DEFINE C == Filled(fresh, i, hand)
    <3>2. /\ Sound(hash, C) /\ Size(C) = Size(fresh) /\ fresh[i].item \in ItemsIn(fresh)
          /\ ItemsIn(C) = (ItemsIn(fresh) \ {fresh[i].item}) \cup {hand.item}
          /\ Looks(hash, Farther(fresh[i]), After(i, fresh), C)
          /\ fresh[i].item.key \notin KeysIn(C)
      BY <1>2, <1>4, <2>2, PutSwap
    <3> HIDE DEF C
    <3>3. hand'.item = fresh[i].item
      BY <1>2, <1>3, <2>2, <3>1, Occupation DEF Farther, Entries
    <3>4. ItemsIn(C) \cup {fresh[i].item} = ItemsIn(fresh) \cup {hand.item}
      BY <3>2
    <3>5. fresh' = C
      BY <3>1 DEF C
    <3> QED BY <1>2, <3>1, <3>2, <3>3, <3>4, <3>5
  <2>3. CASE fresh[i].dib # 0 /\ ~(fresh[i].dib < hand.dib)
    <3>1. hand' = Farther(hand) /\ fresh' = fresh /\ src' = src /\ i' = After(i, fresh)
      BY <1>1, <2>3
    <3>2. fresh[i].dib >= hand.dib
      BY <1>3, <2>3
    <3>3. Looks(hash, Farther(hand), After(i, fresh), fresh)
      BY <1>2, <1>4, <3>2, LooksOn
    <3>4. hand'.item = hand.item
      BY <1>3, <3>1 DEF Farther, Entries
    <3> QED BY <1>2, <3>1, <3>3, <3>4
  <2> QED BY <2>1, <2>2, <2>3
<1>7. ResizeInv
  BY <1>2 DEF IInv
<1>8. ResizeInv'
  BY <1>1, <1>2, <1>6, <1>7 DEF ResizeInv, Counted
<1> QED BY <1>5, <1>8, ToResize

(* ... then the new array holds what the old one did. *)
LEMMA ResizeDoneInv ==
  ASSUME IInv, ResizeDone
  PROVE  IInv' /\ [T!Next]_Answered
<1>1. /\ Resizing /\ hand = Free /\ src = NBuckets
      /\ buckets' = fresh
      /\ UNCHANGED <<count, oom>>
  BY DEF ResizeDone
<1>2. /\ Fixed /\ pc \in {"grow", "shrink"} /\ hash \in [Keys -> Nat]
      /\ Array(buckets) /\ NBuckets = Size(buckets) /\ arr = <<>>
      /\ count = Cardinality(ItemsIn(buckets)) /\ oom = FALSE /\ arg \in Items
      /\ Sound(hash, fresh) /\ Array(fresh) /\ Size(fresh) \in Sizes /\ Size(fresh) \in Nat
      /\ count \in Nat /\ count < Size(fresh)
      /\ ItemsIn(fresh) = Taken(buckets, src)
      /\ pc = "grow" => /\ before.content = ItemsIn(buckets)
                        /\ count + 1 < Size(fresh)
      /\ pc = "shrink" => /\ before.content = ItemsIn(buckets) \cup {arg}
                          /\ arg.key \notin KeysIn(buckets)
  BY <1>1, ResizeFacts
<1>3. ItemsIn(buckets') = ItemsIn(buckets)
  BY <1>1, <1>2, TakenAll
<1>4. CASE pc = "grow"
  <2>1. /\ pc' = "set" /\ hand' = Entry(arg) /\ i' = Home(arg.key, fresh) /\ fresh' = <<>>
        /\ UNCHANGED <<hash, cap, arg, arr, ret, before>>
    BY <1>4 DEF ResizeDone
  <2>2. Answered' = Answered
    BY <1>4, <2>1, Quiet
  <2>3. Fixed'
    BY <1>1, <1>2, <2>1 DEF Fixed
  <2>4. /\ Looks(hash, Entry(arg), Home(arg.key, fresh), fresh)
        /\ Ahead(arg.key, 1, fresh)
    BY <1>2, LooksFirst
  <2>5. hand'.item = arg /\ hand'.dib = 1
    BY <2>1 DEF Entry
  <2>6. Coming'
    BY <1>1, <1>2, <1>3, <1>4, <2>1, <2>4, <2>5 DEF Coming
  <2>7. SetInv'
    BY <1>1, <1>2, <1>3, <1>4, <2>1, <2>4, <2>6 DEF SetInv, Counted
  <2> QED BY <2>1, <2>2, <2>3, <2>7, ToSet
<1>5. CASE pc = "shrink"
  <2>1. Return(<<arg>>)
    BY <1>5 DEF ResizeDone
  <2>2. IInv'
    BY <1>1, <1>2, <1>3, <2>1, Ending
  <2>3. /\ Seen.content = before.content /\ Seen.content' = ItemsIn(buckets')
        /\ Seen.oom' = FALSE /\ ret' = <<arg>>
    BY <1>1, <1>2, <2>1, Ended DEF Return
  <2>4. At(arg.key, before.content) = {arg} /\ before.content \ {arg} = ItemsIn(buckets)
    BY <1>2, <1>5, Removal
  <2>5. T!Delete(arg.key)
    BY <1>3, <2>3, <2>4, StoredAt, Answers DEF T!Delete
  <2>6. arg.key \in Keys
    BY <1>2, HashMapAssumption
  <2> QED BY <2>2, <2>5, <2>6 DEF T!Next
<1> QED BY <1>2, <1>4, <1>5

-----------------------------------------------------------------------------
(* A search, bucket by bucket. *)
LEMMA SeekFacts ==
  ASSUME IInv, pc \in {"get", "delete"}
  PROVE  /\ Fixed /\ hash \in [Keys -> Nat] /\ Sound(hash, buckets) /\ Array(buckets)
         /\ Apart(buckets) /\ count = Cardinality(ItemsIn(buckets)) /\ Rest
         /\ count < Size(buckets) /\ Size(buckets) \in Sizes /\ oom \in BOOLEAN
         /\ arg \in Keys /\ i \in DOMAIN buckets /\ Seeks(hash, arg, i, buckets)
         /\ before.content = ItemsIn(buckets)
         /\ pc = "get" => before.oom = oom
         /\ pc = "delete" => oom = FALSE
         /\ buckets[i].dib = 0 => At(arg, ItemsIn(buckets)) = {}
         /\ buckets[i].dib # 0 /\ Match(i, arg)
              => i \in Occupied(buckets) /\ At(arg, ItemsIn(buckets)) = {buckets[i].item}
         /\ buckets[i].dib # 0 /\ ~Match(i, arg)
              => /\ Seeks(hash, arg, After(i, buckets), buckets)
                 /\ After(i, buckets) \in DOMAIN buckets
<1>1. Fixed /\ SeekInv
  BY DEF IInv
<1>2. /\ hash \in [Keys -> Nat] /\ count < Size(buckets)
      /\ Size(buckets) \in Sizes /\ oom \in BOOLEAN
  BY <1>1, FixedTypes DEF Fixed
<1>3. /\ Sound(hash, buckets) /\ count = Cardinality(ItemsIn(buckets)) /\ Rest
      /\ arg \in Keys /\ i \in DOMAIN buckets /\ Seeks(hash, arg, i, buckets)
      /\ before.content = ItemsIn(buckets)
      /\ pc = "get" => before.oom = oom
      /\ pc = "delete" => oom = FALSE
  BY <1>1 DEF SeekInv, Counted
<1>4. buckets[i].dib = 0 => At(arg, ItemsIn(buckets)) = {}
  BY <1>2, <1>3, SeeksEnd, KeyNowhere
<1>5. ASSUME buckets[i].dib # 0, Match(i, arg)
      PROVE  i \in Occupied(buckets) /\ At(arg, ItemsIn(buckets)) = {buckets[i].item}
  <2>1. i \in Occupied(buckets) /\ buckets[i].item.key = arg
    BY <1>3, <1>5 DEF Occupied, Match
  <2> QED BY <1>3, <2>1, KeyAt
<1>6. ASSUME buckets[i].dib # 0, ~Match(i, arg)
      PROVE  /\ Seeks(hash, arg, After(i, buckets), buckets)
             /\ After(i, buckets) \in DOMAIN buckets
  <2>1. i \in Occupied(buckets) /\ buckets[i].item.key # arg
    BY <1>3, <1>6 DEF Occupied, Match
  <2> QED BY <1>2, <1>3, <2>1, SeeksOn
<1> QED BY <1>1, <1>2, <1>3, <1>4, <1>5, <1>6 DEF Sound

LEMMA GetStepInv ==
  ASSUME IInv, GetStep
  PROVE  IInv' /\ [T!Next]_Answered
<1>1. pc = "get" /\ UNCHANGED <<buckets, count, oom>>
  BY DEF GetStep
<1>2. /\ Fixed /\ Sound(hash, buckets) /\ count = Cardinality(ItemsIn(buckets)) /\ Rest
      /\ count < Size(buckets) /\ Size(buckets) \in Sizes /\ oom \in BOOLEAN
      /\ arg \in Keys /\ before.content = ItemsIn(buckets) /\ before.oom = oom
  BY <1>1, SeekFacts
<1>3. ASSUME NEW r, Return(r), T!Enumerates(r, At(arg, ItemsIn(buckets)))
      PROVE  IInv' /\ [T!Next]_Answered
  <2>1. IInv'
    BY <1>1, <1>2, <1>3, Ending
  <2>2. /\ Seen.content = before.content /\ Seen.content' = ItemsIn(buckets')
        /\ Seen.oom = before.oom /\ Seen.oom' = oom' /\ ret' = r
    BY <1>1, <1>3, Ended DEF Return
  <2>3. T!Get(arg)
    BY <1>1, <1>2, <1>3, <2>2, StoredAt DEF T!Get
  <2> QED BY <1>2, <2>1, <2>3 DEF T!Next
<1>4. CASE buckets[i].dib = 0 /\ Return(<<>>)
  BY <1>1, <1>3, <1>4, SeekFacts, Answers
<1>5. CASE buckets[i].dib # 0 /\ Match(i, arg) /\ Return(<<buckets[i].item>>)
  BY <1>1, <1>3, <1>5, SeekFacts, Answers
<1>6. CASE /\ buckets[i].dib # 0 /\ ~Match(i, arg)
           /\ i' = After(i, buckets)
           /\ UNCHANGED <<hash, cap, fresh, pc, arg, src, hand, arr, ret, before>>
  <2>1. Answered' = Answered
    BY <1>1, <1>6, Quiet
  <2>2. Seeks(hash, arg, i', buckets) /\ i' \in DOMAIN buckets
    BY <1>1, <1>6, SeekFacts
  <2>3. Fixed' /\ pc' = "get"
    BY <1>1, <1>2, <1>6 DEF Fixed
  <2>4. SeekInv'
    BY <1>1, <1>2, <1>6, <2>2 DEF SeekInv, Counted, Rest
  <2> QED BY <2>1, <2>3, <2>4, ToSeek
<1> QED BY <1>4, <1>5, <1>6 DEF GetStep

(* What was taken out is gone from the array that is kept. *)
LEMMA KeptGap ==
  ASSUME NEW h, NEW H, NEW p, NEW b, Gapped(h, H, p, b)
  PROVE  Kept(H, b) = H /\ p # b /\ p \in DOMAIN H
<1>1. /\ Array(H) /\ b \in DOMAIN H /\ p = Before(b, H) /\ H[p] = Free
      /\ \E f \in DOMAIN H : f # p
  BY DEF Gapped
<1>2. p \in DOMAIN H
  BY <1>1, Around
<1>3. p # b
  BY <1>1, Around
<1>4. [H EXCEPT ![p] = Free] = H
  BY <1>1, <1>2 DEF Array
<1> QED BY <1>1, <1>2, <1>3, <1>4 DEF Kept, Filled

LEMMA DeleteStepInv ==
  ASSUME IInv, DeleteStep
  PROVE  IInv' /\ [T!Next]_Answered
<1>1. pc = "delete" /\ UNCHANGED <<count, oom>>
  BY DEF DeleteStep
<1>2. /\ Fixed /\ hash \in [Keys -> Nat] /\ Sound(hash, buckets) /\ Array(buckets)
      /\ Apart(buckets) /\ count = Cardinality(ItemsIn(buckets)) /\ Rest
      /\ count < Size(buckets) /\ Size(buckets) \in Sizes /\ oom = FALSE
      /\ arg \in Keys /\ before.content = ItemsIn(buckets) /\ i \in DOMAIN buckets
  BY <1>1, SeekFacts
<1>3. CASE buckets[i].dib = 0 /\ Return(<<>>) /\ UNCHANGED buckets
  <2>1. IInv'
    BY <1>1, <1>2, <1>3, Ending
  <2>2. /\ Seen.content = before.content /\ Seen.content' = ItemsIn(buckets')
        /\ Seen.oom' = oom' /\ ret' = <<>>
    BY <1>1, <1>3, Ended DEF Return
  <2>3. At(arg, ItemsIn(buckets)) = {}
    BY <1>1, <1>3, SeekFacts
  <2>4. T!Delete(arg)
    BY <1>1, <1>2, <1>3, <2>2, <2>3, StoredAt, Answers DEF T!Delete
  <2> QED BY <1>2, <2>1, <2>4 DEF T!Next
<1>4. CASE /\ buckets[i].dib # 0 /\ ~Match(i, arg)
           /\ i' = After(i, buckets)
           /\ UNCHANGED <<hash, buckets, cap, fresh, pc, arg, src, hand, arr, ret, before>>
  <2>1. Answered' = Answered
    BY <1>1, <1>4, Quiet
  <2>2. Seeks(hash, arg, i', buckets) /\ i' \in DOMAIN buckets
    BY <1>1, <1>4, SeekFacts
  <2>3. Fixed' /\ pc' = "delete"
    BY <1>1, <1>2, <1>4 DEF Fixed
  <2>4. SeekInv'
    BY <1>1, <1>2, <1>4, <2>2 DEF SeekInv, Counted, Rest
  <2> QED BY <2>1, <2>3, <2>4, ToSeek
<1>5. CASE /\ buckets[i].dib # 0 /\ Match(i, arg)
           /\ arg' = buckets[i].item
           /\ buckets' = [buckets EXCEPT ![i] = Free]
           /\ pc' = "shift"
           /\ i' = After(i, buckets)
           /\ UNCHANGED <<hash, cap, fresh, src, hand, arr, ret, before>>
  <2>1. Answered' = Answered
    BY <1>1, <1>5, Quiet
  <2>2. i \in Occupied(buckets) /\ arg' \in Items
    BY <1>1, <1>2, <1>5, SeekFacts, Occupation
  <2>3. Roomy(buckets)
    BY <1>2, Counting
  <2> DEFINE H == Filled(buckets, i, Free)
  <2>4. /\ Gapped(hash, H, i, After(i, buckets)) /\ Size(H) = Size(buckets)
        /\ ItemsIn(H) = ItemsIn(buckets) \ {buckets[i].item}
        /\ buckets[i].item.key \notin KeysIn(H) /\ buckets[i].item \in ItemsIn(buckets)
    BY <1>2, <2>2, <2>3, Gap
  <2>5. buckets' = H
    BY <1>5 DEF Filled
  <2> HIDE DEF H
  <2>6. Kept(H, i') = H /\ i' \in DOMAIN H /\ Before(i', H) = i /\ H[i] = Free /\ Array(H)
    BY <1>5, <2>4, KeptGap DEF Gapped
  <2>7. count = Cardinality(ItemsIn(H)) + 1
    <3>1. /\ IsFiniteSet(ItemsIn(buckets)) /\ IsFiniteSet(ItemsIn(H)) /\ count \in Nat
          /\ Cardinality(ItemsIn(H)) \in Nat
      BY <1>2, <2>4, <2>6, Counting DEF Gapped
    <3>2. Cardinality(ItemsIn(H)) = count - 1
      BY <1>2, <2>4, <3>1, FS_RemoveElement
    <3> QED BY <3>1, <3>2
  <2>8. ItemsIn(buckets) = ItemsIn(H) \cup {arg'}
    BY <1>5, <2>4
  <2>9. Fixed'
    BY <1>1, <1>2, <1>5, <2>4, <2>5, <2>6 DEF Fixed
  <2>10. buckets'[Before(i', buckets')].dib <= Size(buckets')
    <3>1. H[Before(i', H)].dib = 0
      BY <2>6 DEF Free
    <3>2. Size(H) \in Nat
      BY <2>6 DEF Array
    <3> QED BY <2>5, <3>1, <3>2
  <2>11. ShiftInv'
    BY <1>1, <1>2, <1>5, <2>2, <2>4, <2>5, <2>6, <2>7, <2>8, <2>10 DEF ShiftInv, Rest
  <2> QED BY <1>5, <2>1, <2>9, <2>11, ToShift
<1> QED BY <1>3, <1>4, <1>5 DEF DeleteStep

(* The items after the one that is deleted move back. *)
LEMMA ShiftStepInv ==
  ASSUME IInv, ShiftStep
  PROVE  IInv' /\ [T!Next]_Answered
<1> DEFINE p == Before(i, buckets)
           a == After(i, buckets)
           H == Kept(buckets, i)
<1>1. pc = "shift" /\ oom' = oom
  BY DEF ShiftStep
<1>2. /\ Fixed /\ i \in DOMAIN buckets /\ arg \in Items /\ oom = FALSE /\ Rest
      /\ buckets[p].dib <= Size(buckets)
      /\ Gapped(hash, H, p, i)
      /\ count = Cardinality(ItemsIn(H)) + 1
      /\ before.content = ItemsIn(H) \cup {arg}
      /\ arg.key \notin KeysIn(H)
  BY <1>1 DEF IInv, ShiftInv
<1>3. /\ hash \in [Keys -> Nat] /\ Array(buckets) /\ NBuckets = Size(buckets)
      /\ Size(buckets) \in Sizes /\ Size(buckets) \in Nat \ {0} /\ count \in Nat
      /\ count < Size(buckets) /\ cap \in Sizes
  BY <1>2, FixedTypes DEF Fixed
<1>4. p \in DOMAIN buckets /\ a \in DOMAIN buckets /\ Before(a, buckets) = i
  BY <1>2, <1>3, Around
<1>5. H = [buckets EXCEPT ![p] = Free] /\ DOMAIN H = DOMAIN buckets
  BY DEF Kept, Filled
<1> HIDE DEF p, a, H
<1>6. Size(H) = Size(buckets) /\ \A c : After(c, H) = After(c, buckets)
  BY <1>5, SameShape
<1>7. p # i /\ H[i] = buckets[i] /\ Array(H) /\ Apart(H)
  <2>1. p # i
    BY <1>2, KeptGap
  <2> QED BY <1>2, <1>4, <1>5, <2>1 DEF Gapped
<1>8. IsFiniteSet(ItemsIn(H)) /\ Cardinality(ItemsIn(H)) \in Nat
  BY <1>7, Counting
<1>9. ASSUME /\ buckets[i].dib > 1
             /\ buckets' = [buckets EXCEPT ![p] = Nearer(buckets[i])]
             /\ i' = a
             /\ UNCHANGED <<hash, cap, count, fresh, pc, arg, src, hand, arr, ret, before>>
      PROVE  IInv' /\ [T!Next]_Answered
  <2>1. Answered' = Answered
    BY <1>1, <1>9, Quiet
  <2> DEFINE C == Moved(H, p, i)
  <2>2. /\ Gapped(hash, C, i, a) /\ Size(C) = Size(H)
        /\ ItemsIn(C) = ItemsIn(H) /\ KeysIn(C) = KeysIn(H)
        /\ Nearer(H[i]) \in Entries
    <3>1. H[i].dib > 1
      BY <1>7, <1>9
    <3> QED BY <1>2, <1>3, <1>6, <3>1, MoveBack DEF a
  <2>3. C = [buckets' EXCEPT ![i] = Free]
    BY <1>2, <1>3, <1>4, <1>5, <1>7, <1>9 DEF Moved, Array
  <2> HIDE DEF C
  <2>4. DOMAIN buckets' = DOMAIN buckets
    BY <1>9
  <2>5. /\ Size(buckets') = Size(buckets)
        /\ \A c : Before(c, buckets') = Before(c, buckets)
    BY <2>4, SameShape
  <2>6. Before(i', buckets') = i /\ Kept(buckets', i') = C
    BY <1>4, <1>9, <2>3, <2>5 DEF Kept, Filled
  <2>7. Array(buckets')
    <3>1. buckets' \in [DOMAIN buckets -> Entries \cup {Free}]
      BY <1>3, <1>4, <1>7, <1>9, <2>2 DEF Array
    <3> QED BY <1>3, <2>5, <3>1 DEF Array
  <2>8. buckets'[i] = buckets[i] /\ buckets[i].dib <= Size(buckets)
    <3>1. i \in Occupied(H)
      BY <1>2, <1>5, <1>7, <1>9 DEF Occupied
    <3>2. H[i].dib <= Size(H)
      BY <1>2, <3>1 DEF Gapped, Placed, Lies
    <3> QED BY <1>2, <1>6, <1>7, <1>9, <3>2
  <2>9. Fixed' /\ pc' = "shift"
    BY <1>1, <1>2, <1>9, <2>5, <2>7 DEF Fixed
  <2>10. i' \in DOMAIN buckets'
    BY <1>4, <1>9, <2>4
  <2>11. ShiftInv'
    BY <1>1, <1>2, <1>9, <2>2, <2>5, <2>6, <2>8, <2>10 DEF ShiftInv, Rest
  <2> QED BY <2>1, <2>9, <2>11, ToShift
<1>10. ASSUME ~(buckets[i].dib > 1), buckets' = [buckets EXCEPT ![p] = Free], count' = count - 1
       PROVE  /\ Sound(hash, buckets') /\ Size(buckets') = Size(buckets)
              /\ count' = Cardinality(ItemsIn(buckets')) /\ count' \in Nat
              /\ ItemsIn(buckets') = ItemsIn(H) /\ KeysIn(buckets') = KeysIn(H)
  <2>1. buckets' = H
    BY <1>5, <1>10
  <2>2. Sound(hash, H)
    BY <1>2, <1>7, <1>10, GapCloses
  <2>3. count' = Cardinality(ItemsIn(H))
    BY <1>2, <1>8, <1>10
  <2> QED BY <1>6, <1>8, <2>1, <2>2, <2>3
<1>11. ASSUME ~(buckets[i].dib > 1), buckets' = [buckets EXCEPT ![p] = Free], count' = count - 1,
              Return(<<arg>>)
       PROVE  IInv' /\ [T!Next]_Answered
  <2>1. IInv'
    <3>1. count' < Size(buckets')
      BY <1>3, <1>10, <1>11
    <3> QED BY <1>1, <1>2, <1>3, <1>10, <1>11, <3>1, Ending
  <2>2. /\ Seen.content = before.content /\ Seen.content' = ItemsIn(buckets')
        /\ Seen.oom' = FALSE /\ ret' = <<arg>>
    BY <1>1, <1>2, <1>11, Ended DEF Return
  <2>3. At(arg.key, before.content) = {arg} /\ before.content \ {arg} = ItemsIn(H)
    BY <1>2, Removal
  <2>4. T!Delete(arg.key)
    BY <1>10, <1>11, <2>2, <2>3, StoredAt, Answers DEF T!Delete
  <2>5. arg.key \in Keys
    BY <1>2, HashMapAssumption
  <2> QED BY <2>1, <2>4, <2>5 DEF T!Next
<1>12. ASSUME ~(buckets[i].dib > 1), buckets' = [buckets EXCEPT ![p] = Free], count' = count - 1,
              /\ NBuckets > cap /\ count' <= ShrinkAt(NBuckets)
              /\ pc' = "shrink"
              /\ StartResize(NBuckets \div 2)
              /\ UNCHANGED <<hash, cap, arg, arr, ret, before>>
       PROVE  IInv' /\ [T!Next]_Answered
  <2>1. Answered' = Answered
    BY <1>1, <1>12, Quiet
  <2>2. PICK m \in Sizes : NBuckets = 2 * m
    <3>1. cap \in Nat /\ cap >= MinBuckets /\ MinBuckets \in Nat
      BY <1>3, SizesHalve, HashMapAssumption
    <3>2. Size(buckets) # MinBuckets
      BY <1>3, <1>12, <3>1
    <3> QED BY <1>3, <3>2, SizesHalve
  <2>3. m \in Nat \ {0} /\ m >= MinBuckets /\ MinBuckets \in Nat
    BY <2>2, SizesHalve, HashMapAssumption
  <2>4. ShrinkAt(NBuckets) < m /\ NBuckets \div 2 = m
    BY <2>2, <2>3, Limits
  <2>5. fresh' = Empty(m) /\ src' = 0 /\ hand' = Free
    BY <1>12, <2>3, <2>4 DEF StartResize
  <2>6. Sound(hash, fresh') /\ Size(fresh') = m /\ ItemsIn(fresh') = {}
    BY <2>3, <2>5, EmptyArray
  <2>7. Taken(buckets', 0) = {}
    BY <1>10, <1>12, TakenAll DEF Sound
  <2>8. count' < Size(fresh')
    <3>1. count' \in Nat /\ count' <= ShrinkAt(NBuckets)
      BY <1>10, <1>12
    <3>2. ShrinkAt(NBuckets) \in Int
      BY <1>3, HashMapAssumption DEF ShrinkAt
    <3> QED BY <2>3, <2>4, <2>6, <3>1, <3>2
  <2>9. count' < Size(buckets') /\ count' \in 0 .. Size(buckets') - 1
    BY <1>3, <1>10, <1>12
  <2>10. Fixed' /\ 0 \in 0 .. Size(buckets')
    BY <1>1, <1>2, <1>3, <1>10, <1>12, <2>9 DEF Fixed, Sound
  <2>11. ResizeInv'
    BY <1>1, <1>2, <1>10, <1>12, <2>2, <2>5, <2>6, <2>7, <2>8, <2>10 DEF ResizeInv, Counted, Rest
  <2> QED BY <1>12, <2>1, <2>10, <2>11, ToResize
<1>13. \/ /\ buckets[i].dib > 1
          /\ buckets' = [buckets EXCEPT ![p] = Nearer(buckets[i])]
          /\ i' = a
          /\ UNCHANGED <<hash, cap, count, fresh, pc, arg, src, hand, arr, ret, before>>
       \/ /\ ~(buckets[i].dib > 1)
          /\ buckets' = [buckets EXCEPT ![p] = Free]
          /\ count' = count - 1
          /\ \/ Return(<<arg>>)
             \/ /\ NBuckets > cap /\ count' <= ShrinkAt(NBuckets)
                /\ pc' = "shrink"
                /\ StartResize(NBuckets \div 2)
                /\ UNCHANGED <<hash, cap, arg, arr, ret, before>>
  BY DEF ShiftStep, p, a
<1> QED BY <1>9, <1>11, <1>12, <1>13

(* hashmap_to_array, bucket by bucket. *)
LEMMA ScanStepInv ==
  ASSUME IInv, ScanStep
  PROVE  IInv' /\ [T!Next]_Answered
<1>1. /\ pc = "scan" /\ UNCHANGED <<buckets, count, oom>>
      /\ IF Len(arr) = count
         THEN Return(arr)
         ELSE /\ arr' = IF i < NBuckets
                        THEN IF buckets[i].dib = 0 THEN arr
                                                   ELSE Append(arr, buckets[i].item)
                        ELSE Append(arr, IF arr = <<>> THEN None ELSE arr[Len(arr)])
              /\ i' = IF i < NBuckets THEN i + 1 ELSE i
              /\ UNCHANGED <<hash, cap, fresh, pc, arg, src, hand, ret, before>>
  BY DEF ScanStep
<1>2. /\ Fixed /\ Sound(hash, buckets) /\ count = Cardinality(ItemsIn(buckets))
      /\ hand = Free /\ fresh = <<>>
      /\ before.content = ItemsIn(buckets) /\ before.oom = oom
      /\ i \in 0 .. Size(buckets) /\ arr \in Seq(Items)
      /\ {arr[n] : n \in DOMAIN arr} = Taken(buckets, i)
      /\ Len(arr) = Cardinality(Taken(buckets, i))
  BY <1>1 DEF IInv, ScanInv, Counted
<1>3. /\ NBuckets = Size(buckets) /\ Size(buckets) \in Nat \ {0} /\ Size(buckets) \in Sizes
      /\ count < Size(buckets) /\ Array(buckets) /\ Apart(buckets) /\ oom \in BOOLEAN
  BY <1>2, FixedTypes DEF Sound, Fixed
<1>4. DOMAIN buckets = 0 .. Size(buckets) - 1
  BY <1>3 DEF Array
<1>5. Taken(buckets, i) \subseteq ItemsIn(buckets)
  <2>1. CASE i = Size(buckets)
    BY <1>3, <2>1, TakenAll
  <2>2. CASE i # Size(buckets)
    <3>1. i \in DOMAIN buckets
      BY <1>2, <1>3, <1>4, <2>2
    <3> QED BY <1>2, <3>1, TakenNext
  <2> QED BY <2>1, <2>2
<1>6. CASE Len(arr) = count
  <2>1. Return(arr)
    BY <1>1, <1>6
  <2>2. Taken(buckets, i) = ItemsIn(buckets)
    BY <1>2, <1>3, <1>5, <1>6, Smaller
  <2>3. IInv'
    BY <1>1, <1>2, <1>3, <2>1, Ending
  <2>4. /\ Seen.content = before.content /\ Seen.content' = ItemsIn(buckets')
        /\ Seen.oom = before.oom /\ Seen.oom' = oom' /\ ret' = arr
    BY <1>1, <2>1, Ended DEF Return
  <2>5. T!Enumerates(arr, ItemsIn(buckets))
    BY <1>2, <2>2, SameCardinality DEF T!Enumerates
  <2>6. T!ToArray
    BY <1>1, <1>2, <2>4, <2>5 DEF T!ToArray
  <2> QED BY <2>3, <2>6 DEF T!Next
<1>7. CASE Len(arr) # count
  <2>1. i < Size(buckets) /\ i \in DOMAIN buckets
    <3>1. i # Size(buckets)
      BY <1>2, <1>3, <1>7, TakenAll
    <3> QED BY <1>2, <1>3, <1>4, <3>1
  <2>2. /\ arr' = IF buckets[i].dib = 0 THEN arr ELSE Append(arr, buckets[i].item)
        /\ i' = i + 1
        /\ UNCHANGED <<hash, cap, fresh, pc, arg, src, hand, ret, before>>
    BY <1>1, <1>3, <1>7, <2>1
  <2>3. Answered' = Answered
    BY <1>1, <2>2, Quiet
  <2>4. i' \in 0 .. Size(buckets)
    BY <1>2, <1>3, <2>1, <2>2
  <2>5. /\ arr' \in Seq(Items)
        /\ {arr'[n] : n \in DOMAIN arr'} = Taken(buckets, i')
        /\ Len(arr') = Cardinality(Taken(buckets, i'))
    <3>1. CASE buckets[i].dib = 0
      BY <1>2, <2>1, <2>2, <3>1, TakenNext
    <3>2. CASE buckets[i].dib # 0
      <4> DEFINE x == buckets[i].item
                 t == Append(arr, x)
      <4>1. x \in Items
        BY <1>3, <2>1, <3>2, Occupation
      <4>2. /\ Taken(buckets, i + 1) = Taken(buckets, i) \cup {x}
            /\ x \notin Taken(buckets, i)
        BY <1>2, <2>1, <3>2, TakenNext
      <4>3. arr' = t /\ i' = i + 1
        BY <2>2, <3>2
      <4> HIDE DEF x
      <4>4. /\ t \in Seq(Items) /\ Len(t) = Len(arr) + 1 /\ DOMAIN t = DOMAIN arr \cup {Len(arr) + 1}
            /\ t[Len(arr) + 1] = x /\ \A n \in DOMAIN arr : t[n] = arr[n]
        BY <1>2, <4>1
      <4> HIDE DEF t
      <4>5. {t[n] : n \in DOMAIN t} = {arr[n] : n \in DOMAIN arr} \cup {x}
        BY <4>4
      <4>6. Cardinality(Taken(buckets, i + 1)) = Cardinality(Taken(buckets, i)) + 1
        BY <1>3, <1>5, <4>2, Smaller, FS_AddElement
      <4> QED BY <1>2, <4>2, <4>3, <4>4, <4>5, <4>6
    <3> QED BY <3>1, <3>2
  <2>6. Fixed' /\ pc' = "scan"
    BY <1>1, <1>2, <2>2 DEF Fixed
  <2>7. ScanInv'
    BY <1>1, <1>2, <2>2, <2>4, <2>5 DEF ScanInv, Counted
  <2> QED BY <2>3, <2>6, <2>7, ToScan
<1> QED BY <1>6, <1>7

-----------------------------------------------------------------------------
(* The calls, which find the table between operations. *)
LEMMA IdleFacts ==
  ASSUME IInv, pc = "idle"
  PROVE  /\ Fixed /\ hash \in [Keys -> Nat] /\ NBuckets = Size(buckets)
         /\ Size(buckets) \in Nat \ {0} /\ Size(buckets) \in Sizes /\ cap \in Sizes
         /\ Sound(hash, buckets) /\ Array(buckets) /\ Apart(buckets)
         /\ count = Cardinality(ItemsIn(buckets)) /\ count \in Nat /\ count < Size(buckets)
         /\ hand = Free /\ arr = <<>> /\ fresh = <<>>
         /\ Visible.content = ItemsIn(buckets) /\ Visible.oom = oom
BY FixedTypes DEF IInv, IdleInv, Counted, Rest, Fixed, Sound, Visible, Contents, ItemsIn

LEMMA AtOnce ==
  ASSUME pc = "idle", pc' = "idle"
  PROVE  /\ Seen.content = ItemsIn(buckets) /\ Seen.oom = oom
         /\ Seen.content' = ItemsIn(buckets') /\ Seen.oom' = oom'
BY DEF Seen, Visible, Contents, ItemsIn

LEMMA SetCall ==
  ASSUME IInv, NEW x \in Items, Set(x)
  PROVE  IInv' /\ [T!Next]_Answered
<1> DEFINE n == Size(buckets)
<1>1. pc = "idle"
  BY DEF Set, Begin
<1>2. /\ Fixed /\ hash \in [Keys -> Nat] /\ NBuckets = n /\ n \in Nat \ {0} /\ n \in Sizes
      /\ cap \in Sizes /\ Sound(hash, buckets) /\ Array(buckets)
      /\ count = Cardinality(ItemsIn(buckets)) /\ count \in Nat /\ count < n
      /\ hand = Free /\ arr = <<>> /\ fresh = <<>>
      /\ Visible.content = ItemsIn(buckets) /\ Visible.oom = oom
  BY <1>1, IdleFacts
<1> HIDE DEF n
<1>3. GrowAt(n) \in Nat /\ GrowAt(n) < n
  BY <1>2, Limits
<1>4. CASE Begin("grow", x) /\ StartResize(2 * NBuckets) /\ UNCHANGED count /\ oom' = FALSE
  <2>1. /\ pc' = "grow" /\ arg' = x /\ before' = Visible
        /\ UNCHANGED <<hash, buckets, cap, arr, ret, count>> /\ oom' = FALSE
    BY <1>4 DEF Begin
  <2>2. 2 * n \in Sizes /\ 2 * n \in Nat \ {0} /\ 2 * n >= MinBuckets /\ MinBuckets \in Nat
    BY <1>2, SizesDouble, SizesHalve, HashMapAssumption
  <2>3. fresh' = Empty(2 * n) /\ src' = 0 /\ hand' = Free
    BY <1>2, <1>4, <2>2 DEF StartResize
  <2>4. Sound(hash, fresh') /\ Size(fresh') = 2 * n /\ ItemsIn(fresh') = {}
    BY <2>2, <2>3, EmptyArray
  <2>5. Taken(buckets, 0) = {}
    BY <1>2, TakenAll
  <2>6. count + 1 < 2 * n /\ 0 \in 0 .. n
    BY <1>2
  <2>7. Fixed'
    BY <1>2, <2>1 DEF Fixed
  <2>8. ResizeInv'
    BY <1>2, <2>1, <2>2, <2>3, <2>4, <2>5, <2>6 DEF ResizeInv, Counted, n
  <2>9. Answered' = Answered
    BY <1>1, <2>1, Begun
  <2> QED BY <2>1, <2>7, <2>8, <2>9, ToResize
<1>5. CASE Return(<<>>) /\ oom' = TRUE /\ UNCHANGED <<buckets, count>>
  <2>1. IInv'
    BY <1>2, <1>5, Ending DEF n
  <2>2. /\ Seen.content = ItemsIn(buckets) /\ Seen.content' = ItemsIn(buckets')
        /\ Seen.oom' = TRUE /\ ret' = <<>>
    BY <1>1, <1>5, AtOnce DEF Return
  <2>3. T!Set(x)
    BY <1>5, <2>2 DEF T!Set
  <2> QED BY <2>1, <2>3 DEF T!Next
<1>6. CASE /\ ~(count >= GrowAt(NBuckets))
           /\ Begin("set", x)
           /\ hand' = Entry(x)
           /\ i' = Home(x.key, buckets)
           /\ oom' = FALSE
           /\ UNCHANGED <<count, fresh, src>>
  <2>1. /\ pc' = "set" /\ arg' = x /\ before' = Visible
        /\ UNCHANGED <<hash, buckets, cap, arr, ret, count, fresh>> /\ oom' = FALSE
        /\ hand' = Entry(x) /\ i' = Home(x.key, buckets)
    BY <1>6 DEF Begin
  <2>2. count + 1 < n
    BY <1>2, <1>3, <1>6
  <2>3. /\ Looks(hash, Entry(x), Home(x.key, buckets), buckets)
        /\ Ahead(x.key, 1, buckets)
    BY <1>2, LooksFirst
  <2>4. hand'.item = x /\ hand'.dib = 1
    BY <2>1 DEF Entry
  <2>5. Coming'
    BY <1>2, <2>1, <2>3, <2>4 DEF Coming
  <2>6. Fixed'
    BY <1>2, <2>1 DEF Fixed
  <2>7. SetInv'
    BY <1>2, <2>1, <2>2, <2>3, <2>5 DEF SetInv, Counted, n
  <2>8. Answered' = Answered
    BY <1>1, <2>1, Begun
  <2> QED BY <2>1, <2>6, <2>7, <2>8, ToSet
<1> QED BY <1>4, <1>5, <1>6 DEF Set

LEMMA GetCall ==
  ASSUME IInv, NEW k \in Keys, Get(k) \/ Delete(k)
  PROVE  IInv' /\ [T!Next]_Answered
<1>1. /\ pc = "idle" /\ pc' \in {"get", "delete"} /\ arg' = k /\ before' = Visible
      /\ UNCHANGED <<hash, buckets, cap, arr, ret, count, fresh, hand>>
      /\ i' = Home(k, buckets)
      /\ pc' = "get" => oom' = oom
      /\ pc' = "delete" => oom' = FALSE
  BY DEF Get, Delete, Begin
<1>2. /\ Fixed /\ hash \in [Keys -> Nat] /\ Sound(hash, buckets) /\ Array(buckets)
      /\ count = Cardinality(ItemsIn(buckets))
      /\ hand = Free /\ arr = <<>> /\ fresh = <<>>
      /\ Visible.content = ItemsIn(buckets) /\ Visible.oom = oom
  BY <1>1, IdleFacts
<1>3. Seeks(hash, k, Home(k, buckets), buckets) /\ Home(k, buckets) \in DOMAIN buckets
  BY <1>2, SeeksFirst
<1>4. oom' \in BOOLEAN
  BY <1>1, <1>2 DEF Fixed
<1>5. Fixed'
  BY <1>1, <1>2, <1>4 DEF Fixed
<1>6. SeekInv'
  BY <1>1, <1>2, <1>3 DEF SeekInv, Counted, Rest
<1>7. Answered' = Answered
  BY <1>1, Begun
<1> QED BY <1>1, <1>5, <1>6, <1>7, ToSeek

LEMMA ClearCall ==
  ASSUME IInv, NEW u \in BOOLEAN, Clear(u)
  PROVE  IInv' /\ [T!Next]_Answered
<1>1. /\ pc = "idle" /\ count' = 0
      /\ cap' = IF u THEN NBuckets ELSE cap
      /\ buckets' = Empty(cap')
      /\ UNCHANGED <<hash, fresh, pc, arg, i, src, hand, arr, ret, oom, before>>
  BY DEF Clear
<1>2. /\ Fixed /\ NBuckets = Size(buckets) /\ Size(buckets) \in Sizes /\ cap \in Sizes
      /\ hand = Free /\ arr = <<>> /\ fresh = <<>>
  BY <1>1, IdleFacts
<1>3. cap' \in Sizes /\ cap' \in Nat \ {0}
  BY <1>1, <1>2, SizesHalve
<1>4. Sound(hash, buckets') /\ Size(buckets') = cap' /\ ItemsIn(buckets') = {}
  BY <1>1, <1>3, EmptyArray
<1>5. count' = Cardinality(ItemsIn(buckets')) /\ count' \in 0 .. Size(buckets') - 1
  <2>1. Cardinality(ItemsIn(buckets')) = 0
    BY <1>4, FS_EmptySet
  <2>2. \A n \in Nat \ {0} : 0 \in 0 .. n - 1
    OBVIOUS
  <2>3. 0 \in 0 .. cap' - 1
    BY <1>3, <2>2
  <2> QED BY <1>1, <1>4, <2>1, <2>3
<1>6. Fixed'
  BY <1>1, <1>2, <1>3, <1>4, <1>5 DEF Fixed, Sound
<1>7. Counted' /\ Rest' /\ pc' = "idle"
  BY <1>1, <1>2, <1>4, <1>5 DEF Counted, Rest
<1>8. Seen.content' = {} /\ Seen.oom' = Seen.oom
  BY <1>1, <1>4, <1>7, AtOnce
<1>9. T!Clear
  BY <1>1, <1>8 DEF T!Clear
<1> QED BY <1>6, <1>7, <1>9, ToIdle DEF T!Next

LEMMA ArrayCall ==
  ASSUME IInv, ToArray
  PROVE  IInv' /\ [T!Next]_Answered
<1>1. pc = "idle" /\ oom' = oom
  BY DEF ToArray, Begin
<1>2. /\ Fixed /\ Sound(hash, buckets) /\ Array(buckets) /\ Apart(buckets)
      /\ Size(buckets) \in Sizes /\ Size(buckets) \in Nat \ {0}
      /\ count = Cardinality(ItemsIn(buckets)) /\ count < Size(buckets)
      /\ hand = Free /\ arr = <<>> /\ fresh = <<>>
      /\ Visible.content = ItemsIn(buckets) /\ Visible.oom = oom
  BY <1>1, IdleFacts
<1>3. CASE count = 0 /\ Return(<<>>) /\ UNCHANGED <<buckets, count>>
  <2>1. oom' \in BOOLEAN
    BY <1>1, <1>2 DEF Fixed
  <2>2. IInv'
    BY <1>2, <1>3, <2>1, Ending
  <2>3. ItemsIn(buckets) = {}
    BY <1>2, <1>3, Counting, FS_EmptySet
  <2>4. /\ Seen.content = ItemsIn(buckets) /\ Seen.content' = ItemsIn(buckets')
        /\ Seen.oom = oom /\ Seen.oom' = oom' /\ ret' = <<>>
    BY <1>1, <1>3, AtOnce DEF Return
  <2>5. T!ToArray
    BY <1>1, <1>3, <2>3, <2>4, Answers DEF T!ToArray
  <2> QED BY <2>2, <2>5 DEF T!Next
<1>4. CASE Begin("scan", None) /\ i' = 0 /\ UNCHANGED <<count, fresh, src, hand>>
  <2>1. /\ pc' = "scan" /\ before' = Visible /\ i' = 0
        /\ UNCHANGED <<hash, buckets, cap, arr, ret, count, fresh, hand>>
    BY <1>4 DEF Begin
  <2>2. Fixed'
    BY <1>1, <1>2, <2>1 DEF Fixed
  <2>3. Taken(buckets, 0) = {} /\ 0 \in 0 .. Size(buckets)
    BY <1>2, TakenAll
  <2>4. /\ arr' \in Seq(Items)
        /\ {arr'[n] : n \in DOMAIN arr'} = Taken(buckets, 0)
        /\ Len(arr') = Cardinality(Taken(buckets, 0))
    <3> DEFINE t == <<>>
    <3>1. t \in Seq(Items) /\ Len(t) = 0 /\ DOMAIN t = {}
      OBVIOUS
    <3> HIDE DEF t
    <3>2. {t[n] : n \in DOMAIN t} = {}
      BY <3>1
    <3>3. Cardinality(Taken(buckets, 0)) = 0
      BY <2>3, FS_EmptySet
    <3>4. arr' = t
      BY <1>2, <2>1 DEF t
    <3> QED BY <2>3, <3>1, <3>2, <3>3, <3>4
  <2>5. ScanInv'
    BY <1>1, <1>2, <2>1, <2>3, <2>4 DEF ScanInv, Counted
  <2>6. Answered' = Answered
    BY <1>1, <2>1, Begun
  <2> QED BY <2>1, <2>2, <2>5, <2>6, ToScan
<1> QED BY <1>3, <1>4 DEF ToArray

LEMMA StutterInv ==
  ASSUME IInv, UNCHANGED vars
  PROVE  IInv' /\ [T!Next]_Answered
<1>1. IInv'
  BY DEF IInv, vars, Fixed, IdleInv, SetInv, SeekInv, ShiftInv, ResizeInv, ScanInv, Counted,
         Rest, Coming, Displaced
<1>2. Answered' = Answered
  BY DEF vars, Answered, Seen, Visible, Contents, Occupied
<1> QED BY <1>1, <1>2

LEMMA NextInv ==
  ASSUME IInv, [Next]_vars
  PROVE  IInv' /\ [T!Next]_Answered
<1>1. CASE Call
  BY <1>1, SetCall, GetCall, ClearCall, ArrayCall DEF Call
<1>2. CASE Step
  BY <1>2, SetStepInv, ResizeTakeInv, ResizePlaceInv, ResizeDoneInv, GetStepInv, DeleteStepInv,
     ShiftStepInv, ScanStepInv DEF Step
<1>3. CASE UNCHANGED vars
  BY <1>3, StutterInv
<1> QED BY <1>1, <1>2, <1>3 DEF Next

-----------------------------------------------------------------------------
(* The arrays of hashmap.c hold, at every point of every loop, what the    *)
(* invariant says: sound arrays, but for the gap of a deletion, and the    *)
(* items of the operation in progress on their way.                        *)
THEOREM Invariant == Spec => []IInv
<1>1. Init => IInv
  BY InitInv
<1>2. IInv /\ [Next]_vars => IInv'
  BY NextInv
<1> QED BY <1>1, <1>2, PTL DEF Spec

(* Loops stay inside their arrays, no distance exceeds the size of the     *)
(* array, and the table never counts as many items as it has buckets.      *)
THEOREM Types == Spec => []TypeOK
<1>1. ASSUME IInv PROVE TypeOK
  <2>1. /\ Fixed /\ NBuckets = Size(buckets) /\ Size(buckets) \in Nat \ {0}
        /\ cap \in Nat \ {0} /\ Array(buckets)
    BY <1>1, FixedTypes DEF IInv, Fixed
  <2>2. ASSUME NEW B, Array(B), NEW e \in Entries, e.dib <= Size(B)
        PROVE  e \in Bucket(B)
    <3>1. e = [item |-> e.item, dib |-> e.dib] /\ e.item \in Items /\ e.dib \in Nat \ {0}
      BY DEF Entries
    <3>2. e.dib \in 1 .. Size(B)
      BY <2>2, <3>1 DEF Array
    <3> QED BY <3>1, <3>2 DEF Bucket, Size
  <2>3. ASSUME NEW B, Sound(hash, B), NEW b \in DOMAIN B
        PROVE  B[b] \in Bucket(B)
    <3>1. CASE B[b].dib = 0
      BY <2>3, <3>1, Occupation DEF Sound, Bucket
    <3>2. CASE B[b].dib # 0
      <4>1. B[b] \in Entries /\ b \in Occupied(B)
        BY <2>3, <3>2, Occupation DEF Sound
      <4> QED BY <2>2, <2>3, <4>1 DEF Sound, Placed, Lies
    <3> QED BY <3>1, <3>2
  <2>4. ASSUME NEW b \in DOMAIN buckets PROVE buckets[b] \in Bucket(buckets)
    <3>1. CASE pc # "shift"
      <4>1. Sound(hash, buckets)
        BY <1>1, <2>1, <3>1 DEF IInv, Fixed, IdleInv, SetInv, SeekInv, ResizeInv, ScanInv, Counted
      <4> QED BY <2>3, <4>1
    <3>2. CASE pc = "shift"
      <4> DEFINE p == Before(i, buckets)
                 H == Kept(buckets, i)
      <4>1. /\ Gapped(hash, H, p, i) /\ buckets[p].dib <= Size(buckets)
        BY <1>1, <3>2 DEF IInv, ShiftInv
      <4>2. H = [buckets EXCEPT ![p] = Free] /\ DOMAIN H = DOMAIN buckets
        BY DEF Kept, Filled
      <4>3. Size(H) = Size(buckets)
        BY <4>2, SameShape
      <4> HIDE DEF p, H
      <4>4. CASE buckets[b].dib = 0
        BY <2>1, <4>4, Occupation DEF Bucket
      <4>5. CASE buckets[b].dib # 0
        <5>1. buckets[b] \in Entries
          BY <2>1, <4>5, Occupation
        <5>2. buckets[b].dib <= Size(buckets)
          <6>1. ASSUME b # p PROVE b \in Occupied(H) /\ H[b] = buckets[b]
            BY <4>2, <4>5, <6>1 DEF Occupied
          <6> QED BY <4>1, <4>3, <6>1 DEF Gapped, Placed, Lies
        <5> QED BY <2>1, <2>2, <5>1, <5>2
      <4> QED BY <4>4, <4>5
    <3> QED BY <3>1, <3>2
  <2>5. ASSUME NEW b \in DOMAIN fresh PROVE fresh[b] \in Bucket(fresh)
    <3>1. CASE Resizing
      BY <1>1, <2>3, <3>1, ResizeFacts
    <3>2. CASE ~Resizing
      <4>1. fresh = <<>>
        BY <1>1, <2>1, <3>2 DEF IInv, Fixed, IdleInv, SetInv, SeekInv, ShiftInv, ScanInv, Rest, Resizing
      <4> QED BY <4>1
    <3> QED BY <3>1, <3>2
  <2>6. pc \in {"set", "get", "delete", "shift"} => i \in DOMAIN buckets
    BY <1>1 DEF IInv, SetInv, SeekInv, ShiftInv, Looks
  <2>7. Resizing /\ hand # Free => i \in DOMAIN fresh
    BY <1>1, ResizeFacts DEF Looks
  <2>8. hand \in Bucket(IF Resizing THEN fresh ELSE buckets)
    <3>1. CASE hand = Free
      BY <3>1 DEF Bucket
    <3>2. CASE hand # Free /\ Resizing
      <4>1. Array(fresh) /\ hand \in Entries /\ hand.dib <= Size(fresh)
        BY <1>1, <3>2, ResizeFacts DEF Looks, Lies
      <4> QED BY <2>2, <3>2, <4>1
    <3>3. CASE hand # Free /\ ~Resizing
      <4>1. pc = "set"
        BY <1>1, <2>1, <3>3 DEF IInv, Fixed, IdleInv, SeekInv, ShiftInv, ScanInv, Rest, Resizing
      <4>2. hand \in Entries /\ hand.dib <= Size(buckets)
        BY <1>1, <4>1 DEF IInv, SetInv, Looks, Lies
      <4> QED BY <2>1, <2>2, <3>3, <4>2
    <3> QED BY <3>1, <3>2, <3>3
  <2>9. DOMAIN buckets = 0 .. NBuckets - 1 /\ count \in 0 .. NBuckets - 1
    BY <2>1 DEF Fixed, Array
  <2> QED BY <2>1, <2>4, <2>5, <2>6, <2>7, <2>8, <2>9 DEF TypeOK, Fixed
<1> QED BY <1>1, Invariant, PTL

(* Between operations every item of hashmap.c is where a search looks for  *)
(* it and count is the number of items, over wraps, deletions and resizes; *)
(* and at every moment a bucket is free in each array, so that no search   *)
(* and no insertion goes round for ever.                                   *)
THEOREM WellFormedTable == Spec => []WellFormed
<1>1. ASSUME IInv PROVE WellFormed
  <2>1. Fixed /\ NBuckets = Size(buckets) /\ Array(buckets)
    BY <1>1, FixedTypes DEF IInv, Fixed
  <2>2. ASSUME pc = "idle"
        PROVE  Sound(hash, buckets) /\ count = Cardinality(Occupied(buckets))
    BY <1>1, <2>2, IdleFacts, Counting
  <2>3. RobinHood
    <3> SUFFICES ASSUME pc = "idle", NEW b \in Occupied(buckets)
                 PROVE  /\ b = (Home(buckets[b].item.key, buckets) + buckets[b].dib - 1) % NBuckets
                        /\ buckets[b].dib > 1 =>
                             buckets[Before(b, buckets)].dib >= buckets[b].dib - 1
      BY DEF RobinHood
    <3>1. Lies(hash, buckets[b], b, buckets) /\ Linked(buckets[b], b, buckets)
      BY <2>2 DEF Sound, Placed, Chained
    <3> QED BY <2>1, <3>1 DEF Lies, Linked, Pos, Home, Size
  <2>4. ASSUME NEW B, Array(B), Apart(B), Cardinality(ItemsIn(B)) < Size(B)
        PROVE  Occupied(B) # DOMAIN B
    BY <2>4, Counting DEF Roomy, Occupied
  <2>5. Occupied(buckets) # DOMAIN buckets
    <3>1. CASE pc # "shift"
      <4>1. Counted
        BY <1>1, <2>1, <3>1 DEF IInv, Fixed, IdleInv, SetInv, SeekInv, ResizeInv, ScanInv
      <4>2. count < Size(buckets)
        BY <2>1, FixedTypes
      <4> QED BY <2>4, <4>1, <4>2 DEF Counted, Sound
    <3>2. CASE pc = "shift"
      <4> DEFINE p == Before(i, buckets)
                 H == Kept(buckets, i)
      <4>1. Gapped(hash, H, p, i)
        BY <1>1, <3>2 DEF IInv, ShiftInv
      <4>2. H = [buckets EXCEPT ![p] = Free] /\ DOMAIN H = DOMAIN buckets
        BY DEF Kept, Filled
      <4> HIDE DEF p, H
      <4>3. PICK f \in DOMAIN H : f # p /\ H[f].dib = 0
        BY <4>1 DEF Gapped
      <4>4. buckets[f].dib = 0
        BY <4>2, <4>3
      <4> QED BY <4>2, <4>4 DEF Occupied
    <3> QED BY <3>1, <3>2
  <2>6. Resizing => Occupied(fresh) # DOMAIN fresh
    <3> SUFFICES ASSUME Resizing PROVE Occupied(fresh) # DOMAIN fresh
      OBVIOUS
    <3>1. /\ Sound(hash, buckets) /\ Array(buckets) /\ Apart(buckets)
          /\ Array(fresh) /\ Apart(fresh) /\ Size(fresh) \in Nat
          /\ count = Cardinality(ItemsIn(buckets)) /\ count \in Nat /\ count < Size(fresh)
      BY <1>1, ResizeFacts
    <3>2. ItemsIn(fresh) \subseteq ItemsIn(buckets)
      <4>1. CASE hand # Free
        BY <1>1, <3>1, <4>1, ResizeFacts, TakenNext
      <4>2. CASE hand = Free
        <5>1. ItemsIn(fresh) = Taken(buckets, src)
          BY <1>1, <4>2, ResizeFacts
        <5>2. Taken(buckets, src) \subseteq ItemsIn(buckets)
          BY DEF Taken, ItemsIn
        <5> QED BY <5>1, <5>2
      <4> QED BY <4>1, <4>2
    <3>3. Cardinality(ItemsIn(fresh)) \in Nat /\ Cardinality(ItemsIn(fresh)) <= count
      BY <3>1, <3>2, Smaller
    <3>4. Cardinality(ItemsIn(fresh)) < Size(fresh)
      BY <3>1, <3>3
    <3> QED BY <2>4, <3>1, <3>4
  <2> QED BY <2>2, <2>3, <2>5, <2>6 DEF WellFormed, SomeFree, CountExact
<1> QED BY <1>1, Invariant, PTL

(* Every operation of hashmap.c takes effect as a whole and answers as a   *)
(* map does, whatever it displaces, shifts back and resizes on the way.    *)
THEOREM Implementation == Spec => Implements
<1>1. Init => T!Init
  BY InitInv
<1>2. IInv /\ [Next]_vars => [T!Next]_Answered
  BY NextInv
<1> QED BY <1>1, <1>2, Invariant, PTL DEF Spec, Implements, T!Spec, Answered
=============================================================================
