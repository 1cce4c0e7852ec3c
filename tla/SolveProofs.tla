----------------------------- MODULE SolveProofs -----------------------------
(***************************************************************************)
(* What tms_solve, tms_evaluate and everything they call leave behind, for *)
(* all texts, user functions, labels and limits of the depth: the state    *)
(* keeps its shape, the depth counter comes back to zero, labels are not   *)
(* deleted under their owner, and failures say why.                        *)
(*                                                                         *)
(* Evaluations nest in three ways, and the proof is by induction on each:  *)
(* parentheses in a text (EvalTermsLaw), arguments one after the other     *)
(* (SolveListLaw, ExtremeLaw, EvalSumLaw), and calls up to the limit of    *)
(* the depth (EvaluatorsLaw).  The nested functions of Solve are shown to  *)
(* exist before anything is said of their values.                          *)
(***************************************************************************)
EXTENDS Solve, FiniteSetTheorems, NaturalsInduction, WellFoundedInduction, TLAPS

(* A set of numbers has a least one. *)
LEMMA Least ==
  ASSUME NEW S \in SUBSET Nat, S # {}
  PROVE  \E n \in S : \A k \in S : n <= k
<1> DEFINE R == {ss \in Nat \X Nat : ss[1] < ss[2]}
<1>1. IsWellFoundedOn(R, Nat)
  BY NatLessThanWellFounded DEF OpToRel
<1>2. \E x \in S : \A y \in S : <<y, x>> \notin R
  <2> HIDE DEF R
  <2> QED BY <1>1, WFMin
<1>3. PICK x \in S : \A y \in S : <<y, x>> \notin R
  BY <1>2
<1>4. ASSUME NEW k \in S PROVE x <= k
  <2>1. <<k, x>> \notin R
    BY <1>3
  <2>2. ~(k < x)
    BY <2>1
  <2> QED BY <2>2
<1> QED BY <1>4

(* Induction over the first numbers, without an operator as a parameter. *)
LEMMA UpTo ==
  ASSUME NEW N \in Nat, NEW S, 0 \in S, \A n \in 1 .. N : n - 1 \in S => n \in S
  PROVE  0 .. N \subseteq S
<1> SUFFICES ASSUME (0 .. N) \ S # {} PROVE FALSE
  OBVIOUS
<1>1. PICK n \in (0 .. N) \ S : \A k \in (0 .. N) \ S : n <= k
  <2>1. (0 .. N) \ S \in SUBSET Nat
    OBVIOUS
  <2> QED BY <2>1, Least
<1>2. n \in 1 .. N /\ n - 1 \notin (0 .. N) \ S /\ n - 1 \in 0 .. N
  BY <1>1
<1> QED BY <1>1, <1>2

(* A function that recurs to the number before: it exists when every step  *)
(* leads from where it may be, S[n - 1], to where it may be next, S[n].    *)
Rises(f, N, S, a, G) ==
  /\ f = [n \in 0 .. N |-> f[n]]
  /\ f[0] = a
  /\ \A n \in 0 .. N : f[n] \in S[n]
  /\ \A n \in 1 .. N : f[n] = G[n][f[n - 1]]

(* Such a function exists. *)
LEMMA Tower ==
  ASSUME NEW N \in Nat, NEW S, NEW a, a \in S[0],
         NEW G, \A n \in 1 .. N : \A x \in S[n - 1] : G[n][x] \in S[n]
  PROVE  \E f : Rises(f, N, S, a, G)
<1> USE DEF Rises
<1> DEFINE Ok(f, k) == Rises(f, k, S, a, G)
           T == {k \in 0 .. N : \E f : Ok(f, k)}
<1>1. 0 \in T
  <2> DEFINE f == [n \in 0 .. 0 |-> a]
  <2>1. Ok(f, 0)
    OBVIOUS
  <2> HIDE DEF f
  <2> QED BY <2>1
<1>2. ASSUME NEW n \in 1 .. N, n - 1 \in T PROVE n \in T
  <2>1. PICK f : Ok(f, n - 1)
    BY <1>2
  <2> DEFINE h == [k \in 0 .. n |-> IF k = n THEN G[n][f[n - 1]] ELSE f[k]]
  <2>2. h[0] = a /\ h = [k \in 0 .. n |-> h[k]]
    BY <2>1
  <2>3. G[n][f[n - 1]] \in S[n]
    BY <2>1
  <2>4. \A k \in 0 .. n : h[k] \in S[k]
    <3> SUFFICES ASSUME NEW k \in 0 .. n PROVE h[k] \in S[k]
      OBVIOUS
    <3>1. k = n \/ k \in 0 .. n - 1
      OBVIOUS
    <3> QED BY <2>1, <2>3, <3>1
  <2>5. \A k \in 1 .. n : h[k] = G[k][h[k - 1]]
    <3> SUFFICES ASSUME NEW k \in 1 .. n PROVE h[k] = G[k][h[k - 1]]
      OBVIOUS
    <3>1. h[k - 1] = f[k - 1]
      OBVIOUS
    <3>2. CASE k = n
      BY <3>1, <3>2
    <3>3. CASE k # n
      <4>1. k \in 1 .. n - 1 /\ h[k] = f[k]
        BY <3>3
      <4> QED BY <2>1, <3>1, <4>1
    <3> QED BY <3>2, <3>3
  <2> HIDE DEF h
  <2>6. Ok(h, n)
    BY <2>2, <2>4, <2>5
  <2> HIDE DEF Ok
  <2>7. n \in 0 .. N /\ \E g : Ok(g, n)
    BY <2>6
  <2> QED BY <2>7
<1> HIDE DEF T
<1>3. 0 .. N \subseteq T
  BY <1>1, <1>2, UpTo
<1> QED BY <1>3 DEF T

(* Where it is then, whichever function it is. *)
LEMMA Climb ==
  ASSUME NEW N \in Nat, NEW S, NEW h, h[0] \in S[0],
         \A n \in 1 .. N : h[n - 1] \in S[n - 1] => h[n] \in S[n]
  PROVE  \A n \in 0 .. N : h[n] \in S[n]
<1> DEFINE T == {n \in 0 .. N : h[n] \in S[n]}
<1>1. 0 \in T
  OBVIOUS
<1>2. \A n \in 1 .. N : n - 1 \in T => n \in T
  OBVIOUS
<1> HIDE DEF T
<1>3. 0 .. N \subseteq T
  BY <1>1, <1>2, UpTo
<1> QED BY <1>3 DEF T

-----------------------------------------------------------------------------
(* Values. *)

(* What the operators on values return. *)
LEMMA Arithmetic ==
  ASSUME NEW u \in Values, NEW v \in Values, NEW x \in Values
  PROVE  /\ Add(u, v) \in Values /\ (NaN \in {u, v} => Add(u, v) = NaN)
         /\ Half(u) \in Values /\ Minus(u) \in Values /\ Re(u) \in Values
         /\ Slope(x, u, v) \in Values
         /\ Zero \in Values /\ NaN \in Values
<1>1. \A w \in Values : w = NaN \/ (w[1] \in Int /\ w[2] \in Int)
  BY DEF Values, Numbers, NaN
<1>2. \A i, j \in Int : <<i, j>> \in Values
  BY DEF Values, Numbers
<1>3. \A w, y \in Values : Add(w, y) \in Values
  BY <1>1, <1>2 DEF Add, Values
<1>4. \A w \in Values : Half(w) \in Values /\ Minus(w) \in Values
  BY <1>1, <1>2 DEF Half, Minus, Values
<1>5. Re(u) \in Values
  BY <1>1, <1>2 DEF Re, Values
<1>6. NaN \in Values /\ Zero \in Values
  BY <1>2 DEF Values, Zero
<1>7. NaN \in {u, v} => Add(u, v) = NaN
  BY DEF Add
<1>8. Slope(x, u, v) \in Values
  BY <1>3, <1>4, <1>6 DEF Slope
<1> QED BY <1>3, <1>4, <1>5, <1>6, <1>7, <1>8

(* A root is a value. *)
LEMMA RootValues ==
  ASSUME NEW v
  PROVE  ComplexRoot(v) \in Values /\ RealRoot(v) \in Values
<1>1. \A w : ComplexRoot(w) \in Values
  <2>1. Roots \subseteq Values /\ NaN \in Values
    BY DEF Roots, Values, Numbers
  <2> QED BY <2>1 DEF ComplexRoot
<1>2. NaN \in Values
  BY DEF Values
<1> QED BY <1>1, <1>2 DEF RealRoot

(* A sum has a value, and none if a term has none. *)
LEMMA TotalLaw ==
  ASSUME NEW s \in Seq(Values)
  PROVE  Total(s) \in Values /\ (NaN \in ToSet(s) => Total(s) = NaN)
<1>0. PICK N \in Nat : N = Len(s) /\ DOMAIN s = 1 .. N
  OBVIOUS
<1> DEFINE Body(f) == [n \in 0 .. N |-> IF n = 0 THEN Zero ELSE Add(f[n - 1], s[n])]
           S == [n \in 0 .. N |->
                   {v \in Values : (\E k \in 1 .. n : s[k] = NaN) => v = NaN}]
           G == [n \in 1 .. N |-> [v \in S[n - 1] |-> Add(v, s[n])]]
<1>1. Zero \in S[0] 
  BY Arithmetic, NaN \in Values DEF Values
<1>2. ASSUME NEW n \in 1 .. N, NEW v \in S[n - 1] PROVE Add(v, s[n]) \in S[n]
  <2>1. n - 1 \in 0 .. N /\ n \in 0 .. N /\ s[n] \in Values
    BY <1>0
  <2>2. v \in Values /\ ((\E k \in 1 .. n - 1 : s[k] = NaN) => v = NaN)
    BY <2>1
  <2>3. Add(v, s[n]) \in Values /\ (NaN \in {v, s[n]} => Add(v, s[n]) = NaN)
    BY <2>1, <2>2, Arithmetic
  <2>4. (\E k \in 1 .. n : s[k] = NaN) => NaN \in {v, s[n]}
    BY <2>2
  <2> QED BY <2>1, <2>3, <2>4
<1>3. \A n \in 1 .. N : \A v \in S[n - 1] : G[n][v] = Add(v, s[n])
  OBVIOUS
<1> HIDE DEF S, G
<1>4. PICK f : Rises(f, N, S, Zero, G)
  <2>1. \A n \in 1 .. N : \A v \in S[n - 1] : G[n][v] \in S[n]
    BY <1>2, <1>3
  <2> QED BY <1>1, <2>1, Tower
<1>5. f = Body(f)
  <2>1. \A n \in 0 .. N : f[n] = IF n = 0 THEN Zero ELSE Add(f[n - 1], s[n])
    <3> SUFFICES ASSUME NEW n \in 0 .. N
                 PROVE  f[n] = IF n = 0 THEN Zero ELSE Add(f[n - 1], s[n])
      OBVIOUS
    <3>1. CASE n # 0
      <4>1. n \in 1 .. N /\ n - 1 \in 0 .. N
        BY <3>1
      <4> QED BY <1>3, <1>4, <3>1, <4>1 DEF Rises
    <3> QED BY <1>4, <3>1 DEF Rises
  <2> QED BY <1>4, <2>1 DEF Rises
<1>6. PICK h : h = Body(h) /\ Total(s) = h[N]
  <2>1. Total(s) = (CHOOSE h : h = Body(h))[N]
    BY <1>0 DEF Total
  <2> HIDE DEF Body
  <2> QED BY <1>5, <2>1
<1>7. h[0] = Zero /\ \A n \in 1 .. N : h[n] = Add(h[n - 1], s[n])
  BY <1>1, <1>6
<1>8. \A n \in 0 .. N : h[n] \in S[n]
  BY <1>1, <1>2, <1>7, Climb
<1>9. h[N] \in S[N] /\ N \in 0 .. N
  BY <1>1, <1>8
<1>10. \A v \in ToSet(s) : \E k \in 1 .. N : s[k] = v
  BY <1>0 DEF ToSet
<1> QED BY <1>6, <1>9, <1>10 DEF S

-----------------------------------------------------------------------------
(* Expressions. *)

(* An expression that nests n deep is a sequence of terms over those that  *)
(* nest less deep.                                                         *)
LEMMA ExprsIs ==
  /\ Exprs[0] = Seq(PlainTerms)
  /\ \A n \in 1 .. Nesting : Exprs[n] = Seq(TermsOver(Exprs[n - 1]))
<1> DEFINE Body(f) ==
      [n \in 0 .. Nesting |-> Seq(IF n = 0 THEN PlainTerms ELSE TermsOver(f[n - 1]))]
    Ok(f, k) == f = [n \in 0 .. k |-> Seq(IF n = 0 THEN PlainTerms ELSE TermsOver(f[n - 1]))]
    T == {k \in 0 .. Nesting : \E f : Ok(f, k)}
<1>1. 0 \in T
  <2> DEFINE f == [n \in 0 .. 0 |-> Seq(PlainTerms)]
  <2>1. Ok(f, 0)
    OBVIOUS
  <2>2. 0 \in 0 .. Nesting
    BY ExpressionsAssumption
  <2> HIDE DEF f, Ok
  <2> QED BY <2>1, <2>2
<1>2. ASSUME NEW n \in 1 .. Nesting, n - 1 \in T PROVE n \in T
  <2>1. PICK f : Ok(f, n - 1)
    BY <1>2
  <2> DEFINE h == [k \in 0 .. n |-> IF k = n THEN Seq(TermsOver(f[n - 1])) ELSE f[k]]
             g == [k \in 0 .. n |-> Seq(IF k = 0 THEN PlainTerms ELSE TermsOver(h[k - 1]))]
  <2>2. ASSUME NEW k \in 0 .. n PROVE h[k] = g[k]
    <3>1. CASE k = n
      BY <3>1, h[k - 1] = f[k - 1]
    <3>2. CASE k # n
      <4>1. k \in 0 .. n - 1 /\ h[k] = f[k] /\ (k # 0 => h[k - 1] = f[k - 1])
        BY <3>2
      <4>2. f[k] = Seq(IF k = 0 THEN PlainTerms ELSE TermsOver(f[k - 1]))
        BY <2>1, <4>1
      <4> QED BY <4>1, <4>2
    <3> QED BY <3>1, <3>2
  <2>3. h = g
    BY <2>2
  <2>4. Ok(h, n)
    BY <2>3
  <2> HIDE DEF h, Ok
  <2>5. n \in 0 .. Nesting /\ \E x : Ok(x, n)
    BY <2>4
  <2> QED BY <2>5
<1> HIDE DEF T
<1>3. 0 .. Nesting \subseteq T /\ Nesting \in 0 .. Nesting
  BY <1>1, <1>2, UpTo, ExpressionsAssumption
<1>4. PICK g : g = Body(g)
  BY <1>3 DEF T
<1>5. Exprs = Body(Exprs)
  <2>1. Exprs = CHOOSE f : f = Body(f)
    BY DEF Exprs
  <2> HIDE DEF Body
  <2> QED BY <1>4, <2>1
<1> QED BY <1>5, ExpressionsAssumption

(* The kinds of terms over the expressions E, and the fields they have. *)
RootTerms(E) == [k : {"root"}, e : E]
ExtTerms(E) == [k : {"ext"}, f : Extended, args : Seq(E), memo : Seq(Values)]
UserTerms(E) == [k : {"user"}, f : Names, args : Seq(E)]

(* Which of them a term is, and what its fields hold. *)
LEMMA TermKinds ==
  ASSUME NEW E, NEW t \in TermsOver(E)
  PROVE  /\ \/ t \in PlainTerms /\ t.k \in {"num", "label", "overzero", "undefined", "unclosed"}
            \/ t \in RootTerms(E) /\ t.k = "root"
            \/ t \in ExtTerms(E) /\ t.k = "ext"
            \/ t \in UserTerms(E) /\ t.k = "user"
         /\ t.k = "num" => t.v \in Numbers /\ t.v \in Values /\ t.v # NaN
         /\ t.k = "label" => t.l \in LabelNames
         /\ t.k = "root" => t.e \in E
         /\ t.k = "ext" => t.f \in Extended /\ t.args \in Seq(E) /\ t.memo \in Seq(Values)
         /\ t.k = "user" => t.f \in Names /\ t.args \in Seq(E)
BY DEF TermsOver, PlainTerms, RootTerms, ExtTerms, UserTerms, Values, Numbers, NaN

(* Over more expressions there are more terms. *)
LEMMA TermsGrow ==
  ASSUME NEW E, NEW F, E \subseteq F
  PROVE  Seq(TermsOver(E)) \subseteq Seq(TermsOver(F)) /\ Seq(PlainTerms) \subseteq Seq(TermsOver(E))
<1>1. Seq(E) \subseteq Seq(F)
  OBVIOUS
<1>2. RootTerms(E) \subseteq RootTerms(F) /\ UserTerms(E) \subseteq UserTerms(F)
  BY <1>1 DEF RootTerms, UserTerms
<1>3. ExtTerms(E) \subseteq ExtTerms(F)
  BY <1>1 DEF ExtTerms
<1>4. \A D : TermsOver(D) = PlainTerms \cup RootTerms(D) \cup ExtTerms(D) \cup UserTerms(D)
  BY DEF TermsOver, RootTerms, ExtTerms, UserTerms
<1>5. TermsOver(E) \subseteq TermsOver(F) /\ PlainTerms \subseteq TermsOver(E)
  BY <1>2, <1>3, <1>4
<1> HIDE DEF TermsOver
<1> QED BY <1>5

(* What nests less deep may stand where more is allowed; a number, as hex  *)
(* leaves it, may stand anywhere.                                          *)
LEMMA ExprsGrow ==
  /\ \A n \in 1 .. Nesting : Exprs[n - 1] \subseteq Exprs[n]
  /\ \A n \in 0 .. Nesting : Exprs[n] \subseteq Texts
  /\ \A n \in 0 .. Nesting : Seq(PlainTerms) \subseteq Exprs[n]
<1> DEFINE T == {n \in 0 .. Nesting : n > 0 => Exprs[n - 1] \subseteq Exprs[n]}
<1>1. 0 \in T
  BY ExpressionsAssumption
<1>2. ASSUME NEW n \in 1 .. Nesting, n - 1 \in T PROVE n \in T
  <2>1. CASE n = 1
    BY <2>1, ExprsIs, TermsGrow
  <2>2. CASE n # 1
    <3>1. n - 1 \in 1 .. Nesting /\ Exprs[(n - 1) - 1] \subseteq Exprs[n - 1]
      BY <1>2, <2>2
    <3>2. Exprs[n - 1] = Seq(TermsOver(Exprs[(n - 1) - 1])) /\ Exprs[n] = Seq(TermsOver(Exprs[n - 1]))
      BY <3>1, ExprsIs
    <3> QED BY <3>1, <3>2, TermsGrow
  <2> QED BY <2>1, <2>2
<1> HIDE DEF T
<1>3. 0 .. Nesting \subseteq T
  BY <1>1, <1>2, UpTo, ExpressionsAssumption
<1>4. \A n \in 1 .. Nesting : Exprs[n - 1] \subseteq Exprs[n]
  BY <1>3 DEF T
<1>5. \A n \in 0 .. Nesting : Exprs[n] \subseteq Texts
  <2> DEFINE U == {k \in 0 .. Nesting : Exprs[Nesting - k] \subseteq Texts}
  <2>1. 0 \in U
    BY ExpressionsAssumption DEF Texts
  <2>2. ASSUME NEW k \in 1 .. Nesting, k - 1 \in U PROVE k \in U
    <3>1. Nesting - (k - 1) \in 1 .. Nesting /\ (Nesting - (k - 1)) - 1 = Nesting - k
      BY ExpressionsAssumption
    <3> QED BY <1>4, <2>2, <3>1
  <2> HIDE DEF U
  <2>3. 0 .. Nesting \subseteq U
    BY <2>1, <2>2, UpTo, ExpressionsAssumption
  <2>4. ASSUME NEW n \in 0 .. Nesting PROVE Exprs[n] \subseteq Texts
    <3>1. Nesting - n \in 0 .. Nesting /\ Nesting - (Nesting - n) = n
      BY ExpressionsAssumption
    <3> QED BY <2>3, <3>1 DEF U
  <2> QED BY <2>4
<1>6. \A n \in 0 .. Nesting : Seq(PlainTerms) \subseteq Exprs[n]
  BY ExprsIs, TermsGrow
<1> QED BY <1>4, <1>5, <1>6

-----------------------------------------------------------------------------
(* The parser. *)

(* Saving, clearing and explaining change nothing but the errors. *)
LEMMA ErrorLaws ==
  ASSUME NEW s \in Shared, NEW facility \in Both, NEW severity \in {"fatal", "nonfatal"},
         NEW F
  PROVE  /\ Save(s, facility, severity) \in Shared
         /\ Save(s, facility, severity).errors # {}
         /\ Save(s, facility, severity).depth = s.depth
         /\ Save(s, facility, severity).dangling = s.dangling
         /\ Explain(s, facility, severity) \in Shared
         /\ Explain(s, facility, severity).errors # {}
         /\ Explain(s, facility, severity).depth = s.depth
         /\ Explain(s, facility, severity).dangling = s.dangling
         /\ Clear(s, F) \in Shared
         /\ Clear(s, F).errors \subseteq s.errors
         /\ Clear(s, F).depth = s.depth
         /\ Clear(s, F).dangling = s.dangling
         /\ Clear(s, Both).errors = {}
<1>1. <<facility, severity>> \in Both \X {"fatal", "nonfatal"}
  OBVIOUS
<1>2. Save(s, facility, severity) = [errors |-> s.errors \cup {<<facility, severity>>},
                                     depth |-> s.depth, dangling |-> s.dangling]
  BY DEF Save, Shared
<1> DEFINE Left == {x \in s.errors : x[1] \notin F}
<1>3. Left \subseteq s.errors /\ Clear(s, F) = [errors |-> Left, depth |-> s.depth, dangling |-> s.dangling]
  <2>1. Clear(s, F) = [s EXCEPT !.errors = Left]
    BY DEF Clear
  <2>2. Left \subseteq s.errors
    OBVIOUS
  <2> HIDE DEF Left
  <2> QED BY <2>1, <2>2 DEF Shared
<1> HIDE DEF Left
<1>4. Clear(s, Both).errors = {}
  <2>1. \A x \in s.errors : x[1] \in Both
    BY DEF Shared
  <2>2. Clear(s, Both) = [s EXCEPT !.errors = {x \in s.errors : x[1] \notin Both}]
    BY DEF Clear
  <2>3. {x \in s.errors : x[1] \notin Both} = {}
    BY <2>1
  <2> QED BY <2>2, <2>3 DEF Shared
<1>5. /\ s.errors \in SUBSET (Both \X {"fatal", "nonfatal"})
      /\ s.depth \in Int /\ s.dangling \in BOOLEAN
  BY DEF Shared
<1>6. Save(s, facility, severity) \in Shared
  BY <1>1, <1>2, <1>5 DEF Shared
<1>7. Clear(s, F) \in Shared
  <2>1. Left \in SUBSET (Both \X {"fatal", "nonfatal"})
    BY <1>3, <1>5
  <2> QED BY <1>3, <1>5, <2>1 DEF Shared
<1>8. Save(s, facility, severity).errors # {}
  <2>1. s.errors \cup {<<facility, severity>>} # {}
    OBVIOUS
  <2> QED BY <1>2, <2>1
<1>9. \/ Explain(s, facility, severity) = s /\ s.errors # {}
      \/ Explain(s, facility, severity) = Save(s, facility, severity)
  BY DEF Explain, Clean
<1>10. /\ Save(s, facility, severity).depth = s.depth
       /\ Save(s, facility, severity).dangling = s.dangling
       /\ Clear(s, F).errors \subseteq s.errors
       /\ Clear(s, F).depth = s.depth
       /\ Clear(s, F).dangling = s.dangling
  BY <1>2, <1>3
<1> QED BY <1>4, <1>6, <1>7, <1>8, <1>9, <1>10

(* Every label has a value, whether values came with the list or not. *)
LEMMA EnvLaw ==
  ASSUME NEW names \in Seq(LabelNames), NEW values \in Seq(Values),
         Len(values) \in {0, Len(names)}
  PROVE  LabelEnv(names, values) \in [LabelNames -> Values]
<1> SUFFICES ASSUME NEW l \in LabelNames, values # <<>>, l \in ToSet(names)
             PROVE  values[CHOOSE n \in DOMAIN names : names[n] = l] \in Values
  BY Arithmetic, NaN \in Values DEF LabelEnv, Values
<1>1. \E n \in DOMAIN names : names[n] = l
  BY DEF ToSet
<1>2. PICK n \in DOMAIN names : n = CHOOSE k \in DOMAIN names : names[k] = l
  BY <1>1
<1>3. Len(values) # 0 /\ Len(values) = Len(names)
  OBVIOUS
<1>4. n \in 1 .. Len(values)
  BY <1>3
<1> QED BY <1>2, <1>4

(* A parsed expression is about what it was parsed from. *)
ParsedFrom(m, e, cmplx, labels) ==
  m \in Models /\ m.expr = e /\ m.cmplx = cmplx /\ m.labels = labels

(* The parser leaves what is shared alone, but for its own errors. It      *)
(* deletes labels only if there are any and a term was rejected.           *)
LEMMA ParseLaw ==
  ASSUME NEW e \in Texts, NEW cmplx \in BOOLEAN, NEW labels \in LabelLists, NEW s \in Shared,
         NEW p, p = Parse(e, cmplx, labels, s)
  PROVE  /\ p.m = None \/ ParsedFrom(p.m, e, cmplx, labels)
         /\ p.st \in Shared /\ p.st.depth = s.depth /\ p.st.dangling = s.dangling
         /\ p.m # None => p.st = Clear(s, {"parser"})
         /\ p.m = None => p.st.errors # {} /\ Clear(p.st, {"parser"}) = Clear(s, {"parser"})
         /\ p.freed \in BOOLEAN
         /\ p.freed => p.m = None /\ labels # NoLabels /\ ~Parses(e, cmplx, labels.names)
<1> DEFINE s1 == Clear(s, {"parser"})
           Taken == [expr |-> e, labels |-> labels, cmplx |-> cmplx,
                     env |-> LabelEnv(labels.names, labels.payload)]
<1>1. ParsedFrom(Taken, e, cmplx, labels)
  <2>1. LabelEnv(labels.names, labels.payload) \in [LabelNames -> Values]
    BY EnvLaw DEF LabelLists
  <2> QED BY <2>1 DEF ParsedFrom, Models
<1>2. Taken # None
  BY <1>1, SolveAssumption DEF ParsedFrom
<1>3. s1 \in Shared /\ s1.depth = s.depth /\ s1.dangling = s.dangling
  BY ErrorLaws, "parser" \in Both, "fatal" \in {"fatal", "nonfatal"} DEF Both
<1>4. \A t : /\ Severity(t, labels) \in {"fatal", "nonfatal"}
            /\ Complain(s1, t) \in {s1, Save(s1, "parser", "nonfatal")}
  BY DEF Severity, Complain
<1>5. \/ \E severity \in {"fatal", "nonfatal"}, s3 \in {s1, Save(s1, "parser", "nonfatal")} :
            \/ p = Refused(s3, severity, FALSE)
            \/ p = Refused(s3, severity, labels # NoLabels) /\ ~Parses(e, cmplx, labels.names)
      \/ p = [m |-> Taken, st |-> s1, freed |-> FALSE]
  <2> HIDE DEF s1
  <2>1. \/ p = Refused(s1, "fatal", FALSE)
        \/ p = Parsed(e, cmplx, labels, s1)
        \/ /\ \E t : p = Refused(Complain(s1, t), Severity(t, labels), labels # NoLabels)
           /\ ~Parses(e, cmplx, labels.names)
    BY DEF Parse, s1
  <2> QED BY <1>4, <2>1 DEF Parsed
<1> HIDE DEF Taken
<1>6. CASE p = [m |-> Taken, st |-> s1, freed |-> FALSE]
  BY <1>1, <1>2, <1>3, <1>6
<1>7. CASE \E severity \in {"fatal", "nonfatal"}, s3 \in {s1, Save(s1, "parser", "nonfatal")} :
            \/ p = Refused(s3, severity, FALSE)
            \/ p = Refused(s3, severity, labels # NoLabels) /\ ~Parses(e, cmplx, labels.names)
  <2>1. PICK severity \in {"fatal", "nonfatal"}, s3 \in {s1, Save(s1, "parser", "nonfatal")} :
            \/ p = Refused(s3, severity, FALSE)
            \/ p = Refused(s3, severity, labels # NoLabels) /\ ~Parses(e, cmplx, labels.names)
    BY <1>7
  <2>0. /\ s3 \in Shared /\ s3.depth = s.depth /\ s3.dangling = s.dangling
        /\ s3.errors = s1.errors \/ s3.errors = s1.errors \cup {<<"parser", "nonfatal">>}
    <3> HIDE DEF s1
    <3>1. CASE s3 = s1
      BY <1>3, <3>1
    <3>2. CASE s3 = Save(s1, "parser", "nonfatal")
      <4>1. s3 \in Shared /\ s3.depth = s.depth /\ s3.dangling = s.dangling
        BY <1>3, <3>2, ErrorLaws, "nonfatal" \in {"fatal", "nonfatal"} DEF Both
      <4>2. s3.errors = s1.errors \cup {<<"parser", "nonfatal">>}
        BY <1>3, <3>2 DEF Save, Shared
      <4> QED BY <4>1, <4>2
    <3> QED BY <2>1, <3>1, <3>2
  <2>2. PICK s2 : s2 = Save(s3, "parser", severity)
    OBVIOUS
  <2>3. s2 \in Shared /\ s2.errors # {} /\ s2.depth = s.depth /\ s2.dangling = s.dangling
    <3> HIDE DEF s1
    <3> QED BY <2>0, <2>2, ErrorLaws DEF Both
  <2>4. Clear(s2, {"parser"}) = s1
    <3> DEFINE more == s3.errors \ s1.errors
    <3>0. s3.errors = s1.errors \cup more /\ more \subseteq {<<"parser", "nonfatal">>}
      BY <2>0
    <3>1. s2 = [errors |-> (s1.errors \cup more) \cup {<<"parser", severity>>},
                depth |-> s1.depth, dangling |-> s1.dangling]
      <4>1. s2 = [errors |-> s3.errors \cup {<<"parser", severity>>},
                  depth |-> s3.depth, dangling |-> s3.dangling]
        BY <2>0, <2>2 DEF Save, Shared
      <4> HIDE DEF s1, more
      <4> QED BY <1>3, <2>0, <3>0, <4>1
    <3> DEFINE Left == {x \in s.errors : x[1] \notin {"parser"}}
    <3>2. s1 = [errors |-> Left, depth |-> s.depth, dangling |-> s.dangling]
      <4>1. s1 = [s EXCEPT !.errors = Left]
        BY DEF Clear
      <4> HIDE DEF Left
      <4> QED BY <4>1 DEF Shared
    <3>3. {x \in (Left \cup more) \cup {<<"parser", severity>>} : x[1] \notin {"parser"}} = Left
      <4> HIDE DEF more
      <4>1. \A x \in more : x[1] = "parser"
        BY <3>0
      <4> QED BY <4>1
    <3> DEFINE Kept == {x \in s2.errors : x[1] \notin {"parser"}}
    <3>4. Clear(s2, {"parser"}) = [s2 EXCEPT !.errors = Kept]
      BY DEF Clear
    <3>5. Kept = Left
      <4>1. s2.errors = (Left \cup more) \cup {<<"parser", severity>>}
        <5> HIDE DEF Left, s1, more
        <5> QED BY <3>1, <3>2
      <4> QED BY <3>3, <4>1
    <3> HIDE DEF Left, Kept, s1, more
    <3> QED BY <3>1, <3>2, <3>4, <3>5
  <2>5. p.m = None /\ p.st = s2 /\ p.freed \in BOOLEAN
        /\ (p.freed => labels # NoLabels /\ ~Parses(e, cmplx, labels.names))
    <3>1. CASE p = Refused(s3, severity, FALSE)
      BY <2>2, <3>1 DEF Refused
    <3>2. CASE p = Refused(s3, severity, labels # NoLabels) /\ ~Parses(e, cmplx, labels.names)
      <4>1. p = [m |-> None, st |-> s2, freed |-> labels # NoLabels]
        BY <2>2, <3>2 DEF Refused
      <4>2. p.m = None /\ p.st = s2 /\ p.freed = (labels # NoLabels)
        BY <4>1
      <4>3. p.freed \in BOOLEAN
        BY <4>2
      <4> QED BY <3>2, <4>2, <4>3
    <3> QED BY <2>1, <3>1, <3>2
  <2> HIDE DEF s1
  <2> QED BY <2>3, <2>4, <2>5 DEF s1
<1> QED BY <1>5, <1>6, <1>7

-----------------------------------------------------------------------------
(* Arguments that parse. *)
Solvable(F, a, cmplx, names) == (names = <<>> \/ Parses(a, cmplx, names)) /\ F[<<a, names>>]
TermParses(F, t, names) ==
  /\ t.k = "root" => F[<<t.e, names>>]
  /\ t.k = "ext" => /\ \A j \in SolvedArgs(t) : Solvable(F, t.args[j], TRUE, names)
                    /\ \A j \in Integrands(t) : F[<<t.args[j], <<"x">>>>]
  /\ t.k = "user" => \A j \in DOMAIN t.args : Solvable(F, t.args[j], FALSE, names)

(* That the arguments in an expression parse is decided term by term, with *)
(* what is decided one level further in.                                   *)
LEMMA ArgumentsIs ==
  ASSUME NEW n \in 0 .. Nesting, NEW e \in Exprs[n], NEW names \in Seq(LabelNames)
  PROVE  ArgumentsParseAt[n][<<e, names>>] <=>
           \A i \in DOMAIN e : TermParses(ArgumentsParseAt[n - 1], e[i], names)
<1> DEFINE Dom(k) == Exprs[k] \X Seq(LabelNames)
           All(F, k) == [c \in Dom(k) |-> \A i \in DOMAIN c[1] : TermParses(F, c[1][i], c[2])]
           Body(f) == [k \in 0 .. Nesting |-> All(f[k - 1], k)]
           S == [k \in 0 .. Nesting |-> [Dom(k) -> BOOLEAN]]
           a == [c \in Dom(0) |-> TRUE]
           G == [k \in 1 .. Nesting |-> [F \in S[k - 1] |-> All(F, k)]]
<1>1. a \in S[0]
  BY ExpressionsAssumption
<1>2. \A F, k : All(F, k) \in [Dom(k) -> BOOLEAN]
  OBVIOUS
<1>3. \A k \in 1 .. Nesting : \A F \in S[k - 1] : G[k][F] = All(F, k)
  OBVIOUS
<1>4. \A k \in 1 .. Nesting : \A F \in S[k - 1] : G[k][F] \in S[k]
  <2> SUFFICES ASSUME NEW k \in 1 .. Nesting, NEW F \in S[k - 1] PROVE G[k][F] \in S[k]
    OBVIOUS
  <2>1. S[k] = [Dom(k) -> BOOLEAN]
    OBVIOUS
  <2> HIDE DEF S, G, All, Dom
  <2> QED BY <1>2, <1>3, <2>1
<1>5. PICK f : Rises(f, Nesting, S, a, G)
  <2> HIDE DEF S, G, a
  <2> QED BY <1>1, <1>4, Tower, ExpressionsAssumption
<1>6. f = Body(f)
  <2>1. ASSUME NEW k \in 0 .. Nesting PROVE f[k] = All(f[k - 1], k)
    <3>1. CASE k = 0
      <4>1. \A c \in Dom(0) : \A i \in DOMAIN c[1] : TermParses(f[0 - 1], c[1][i], c[2])
        <5> SUFFICES ASSUME NEW c \in Dom(0), NEW i \in DOMAIN c[1]
                     PROVE  TermParses(f[0 - 1], c[1][i], c[2])
          OBVIOUS
        <5>1. c[1][i] \in PlainTerms
          BY ExprsIs
        <5> QED BY <5>1 DEF TermParses, PlainTerms
      <4>2. All(f[0 - 1], 0) = a
        BY <4>1
      <4>3. f[0] = a
        BY <1>5 DEF Rises
      <4> HIDE DEF All, a
      <4> QED BY <3>1, <4>2, <4>3
    <3>2. CASE k # 0
      <4>1. k \in 1 .. Nesting /\ k - 1 \in 0 .. Nesting
        BY <3>2, ExpressionsAssumption
      <4> HIDE DEF All, S, G, Dom
      <4> QED BY <1>3, <1>5, <4>1 DEF Rises
    <3> QED BY <3>1, <3>2
  <2>2. f = [k \in 0 .. Nesting |-> f[k]]
    BY <1>5 DEF Rises
  <2> HIDE DEF All
  <2> QED BY <2>1, <2>2
<1>7. ArgumentsParseAt = Body(ArgumentsParseAt)
  <2>1. ArgumentsParseAt = CHOOSE h : h = Body(h)
    BY DEF ArgumentsParseAt, TermParses, Solvable
  <2> HIDE DEF Body
  <2> QED BY <1>6, <2>1
<1>8. ArgumentsParseAt[n] = All(ArgumentsParseAt[n - 1], n)
  <2> HIDE DEF All
  <2> QED BY <1>7
<1>9. <<e, names>> \in Dom(n)
  OBVIOUS
<1> QED BY <1>8, <1>9

(* How deep an expression may nest makes no difference to that. *)
LEMMA ArgumentsAnywhere ==
  ASSUME NEW n \in 0 .. Nesting, NEW e \in Exprs[n], NEW names \in Seq(LabelNames)
  PROVE  ArgumentsParseAt[n][<<e, names>>] <=> ArgumentsParse(e, names)
<1> DEFINE Same(k) == \A x \in Exprs[k - 1] : \A l \in Seq(LabelNames) :
                        ArgumentsParseAt[k - 1][<<x, l>>] <=> ArgumentsParseAt[k][<<x, l>>]
           T == {k \in 0 .. Nesting : k > 0 => Same(k)}
<1>1. 0 \in T
  BY ExpressionsAssumption
<1>2. ASSUME NEW k \in 1 .. Nesting, k - 1 \in T PROVE k \in T
  <2> SUFFICES ASSUME NEW x \in Exprs[k - 1], NEW l \in Seq(LabelNames)
               PROVE  ArgumentsParseAt[k - 1][<<x, l>>] <=> ArgumentsParseAt[k][<<x, l>>]
    OBVIOUS
  <2> DEFINE A == ArgumentsParseAt[(k - 1) - 1]
             B == ArgumentsParseAt[k - 1]
  <2>1. k \in 0 .. Nesting /\ k - 1 \in 0 .. Nesting /\ x \in Exprs[k]
    BY ExprsGrow, ExpressionsAssumption
  <2>2. ASSUME NEW i \in DOMAIN x PROVE TermParses(A, x[i], l) <=> TermParses(B, x[i], l)
    <3>1. CASE k = 1
      <4>1. x[i] \in PlainTerms
        BY <3>1, ExprsIs
      <4> QED BY <4>1 DEF TermParses, PlainTerms
    <3>2. CASE k # 1
      <4>1. k - 1 \in 1 .. Nesting /\ Same(k - 1)
        BY <1>2, <3>2
      <4> DEFINE E == Exprs[(k - 1) - 1]
      <4>2. x[i] \in TermsOver(E)
        BY <4>1, ExprsIs
      <4>3. \A y \in E : \A z \in Seq(LabelNames) : A[<<y, z>>] <=> B[<<y, z>>]
        BY <4>1
      <4>4. <<"x">> \in Seq(LabelNames)
        BY ExpressionsAssumption
      <4> HIDE DEF A, B, E
      <4>5. /\ x[i].k = "root" => x[i].e \in E
            /\ x[i].k \in {"ext", "user"} => x[i].args \in Seq(E)
        BY <4>2, TermKinds
      <4>6. x[i].k = "root" => (A[<<x[i].e, l>>] <=> B[<<x[i].e, l>>])
        BY <4>3, <4>5
      <4>7. x[i].k \in {"ext", "user"} =>
              \A j \in DOMAIN x[i].args :
                /\ \A c : Solvable(A, x[i].args[j], c, l) <=> Solvable(B, x[i].args[j], c, l)
                /\ A[<<x[i].args[j], <<"x">>>>] <=> B[<<x[i].args[j], <<"x">>>>]
        <5> SUFFICES ASSUME x[i].k \in {"ext", "user"}, NEW j \in DOMAIN x[i].args
                     PROVE  LET y == x[i].args[j]
                            IN  /\ \A c : Solvable(A, y, c, l) <=> Solvable(B, y, c, l)
                                /\ A[<<y, <<"x">>>>] <=> B[<<y, <<"x">>>>]
          OBVIOUS
        <5>1. PICK y \in E : y = x[i].args[j]
          BY <4>5
        <5>2. /\ A[<<y, l>>] <=> B[<<y, l>>]
              /\ A[<<y, <<"x">>>>] <=> B[<<y, <<"x">>>>]
          BY <4>3, <4>4
        <5> QED BY <5>1, <5>2 DEF Solvable
      <4>8. SolvedArgs(x[i]) \subseteq DOMAIN x[i].args /\ Integrands(x[i]) \subseteq DOMAIN x[i].args
        BY DEF SolvedArgs, Integrands
      <4> QED BY <4>6, <4>7, <4>8 DEF TermParses
    <3> QED BY <3>1, <3>2
  <2> HIDE DEF A, B
  <2> QED BY <2>1, <2>2, ArgumentsIs DEF A, B
<1> HIDE DEF T
<1>3. 0 .. Nesting \subseteq T
  BY <1>1, <1>2, UpTo, ExpressionsAssumption
<1>4. \A k \in 1 .. Nesting : Same(k)
  <2> SUFFICES ASSUME NEW k \in 1 .. Nesting PROVE Same(k)
    OBVIOUS
  <2>1. k \in 0 .. Nesting /\ k > 0
    BY ExpressionsAssumption
  <2> HIDE DEF Same
  <2> QED BY <1>3, <2>1 DEF T
<1> DEFINE U == {k \in 0 .. Nesting : n <= k => (e \in Exprs[k] /\
                   (ArgumentsParseAt[n][<<e, names>>] <=> ArgumentsParseAt[k][<<e, names>>]))}
<1>5. 0 \in U
  BY ExpressionsAssumption
<1>6. ASSUME NEW k \in 1 .. Nesting, k - 1 \in U PROVE k \in U
  <2>1. CASE n = k
    BY <2>1
  <2>2. CASE n # k
    <3>1. n <= k => n <= k - 1
      BY <2>2, ExpressionsAssumption
    <3>2. Same(k) /\ Exprs[k - 1] \subseteq Exprs[k]
      BY <1>4, ExprsGrow
    <3> QED BY <1>6, <3>1, <3>2
  <2> QED BY <2>1, <2>2
<1> HIDE DEF U
<1>7. Nesting \in U
  <2>1. 0 .. Nesting \subseteq U
    BY <1>5, <1>6, UpTo, ExpressionsAssumption
  <2> QED BY <2>1, ExpressionsAssumption
<1> QED BY <1>7, ExpressionsAssumption DEF U, ArgumentsParse

(* An argument parses where it is solved, and so do the arguments in it. *)
ArgumentSound(a, cmplx, names) ==
  (names = <<>> \/ Parses(a, cmplx, names)) /\ ArgumentsParse(a, names)
CallSound(t, names) ==
  /\ t.k = "ext" => /\ \A j \in SolvedArgs(t) : ArgumentSound(t.args[j], TRUE, names)
                    /\ \A j \in Integrands(t) : ArgumentsParse(t.args[j], <<"x">>)
  /\ t.k = "user" => \A j \in DOMAIN t.args : ArgumentSound(t.args[j], FALSE, names)
TermSound(n, t, names) ==
  /\ CallSound(t, names)
  /\ t.k = "root" => ArgumentsParseAt[n - 1][<<t.e, names>>]

(* An expression whose arguments parse is one whose terms do. *)
LEMMA SoundTerms ==
  ASSUME NEW n \in 0 .. Nesting, NEW e \in Exprs[n], NEW names \in Seq(LabelNames)
  PROVE  ArgumentsParseAt[n][<<e, names>>] <=> \A i \in DOMAIN e : TermSound(n, e[i], names)
<1> SUFFICES ASSUME NEW i \in DOMAIN e
             PROVE  TermParses(ArgumentsParseAt[n - 1], e[i], names) <=> TermSound(n, e[i], names)
  BY ArgumentsIs
<1>1. CASE n = 0
  <2>1. e[i] \in PlainTerms
    BY <1>1, ExprsIs
  <2> QED BY <2>1 DEF PlainTerms, TermParses, TermSound, CallSound
<1>2. CASE n # 0
  <2> DEFINE A == ArgumentsParseAt[n - 1]
             E == Exprs[n - 1]
  <2>1. n \in 1 .. Nesting /\ n - 1 \in 0 .. Nesting
    BY <1>2, ExpressionsAssumption
  <2>2. e[i] \in TermsOver(E)
    BY <2>1, ExprsIs
  <2>3. \A a \in E : \A l \in Seq(LabelNames) : A[<<a, l>>] <=> ArgumentsParse(a, l)
    BY <2>1, ArgumentsAnywhere
  <2>4. <<"x">> \in Seq(LabelNames)
    BY ExpressionsAssumption
  <2> HIDE DEF A, E
  <2>5. e[i].k \in {"ext", "user"} => e[i].args \in Seq(E)
    BY <2>2, TermKinds
  <2>6. SolvedArgs(e[i]) \subseteq DOMAIN e[i].args /\ Integrands(e[i]) \subseteq DOMAIN e[i].args
    BY DEF SolvedArgs, Integrands
  <2>7. ASSUME e[i].k \in {"ext", "user"}, NEW j \in DOMAIN e[i].args
        PROVE  /\ \A c : Solvable(A, e[i].args[j], c, names) <=> ArgumentSound(e[i].args[j], c, names)
               /\ A[<<e[i].args[j], <<"x">>>>] <=> ArgumentsParse(e[i].args[j], <<"x">>)
    <3>1. PICK a \in E : a = e[i].args[j]
      BY <2>5, <2>7
    <3>2. /\ A[<<a, names>>] <=> ArgumentsParse(a, names)
          /\ A[<<a, <<"x">>>>] <=> ArgumentsParse(a, <<"x">>)
      BY <2>3, <2>4
    <3> QED BY <3>1, <3>2 DEF Solvable, ArgumentSound
  <2>8. TermParses(A, e[i], names) <=>
          /\ CallSound(e[i], names)
          /\ e[i].k = "root" => A[<<e[i].e, names>>]
    BY <2>6, <2>7 DEF TermParses, CallSound
  <2> QED BY <2>8 DEF TermSound, A
<1> QED BY <1>1, <1>2

-----------------------------------------------------------------------------
(* What an evaluation may do.  The user functions are those of the state,  *)
(* which no evaluation changes.                                            *)
FunctionsRight ==
  /\ DOMAIN tab \subseteq Names
  /\ \A f \in DOMAIN tab : tab[f] \in Models /\ tab[f].cmplx
FunctionsSound == \A f \in DOMAIN tab : ArgumentsParse(tab[f].expr, tab[f].labels.names)

(* It leaves what is shared as it was, but for the errors.                 *)
Within(s1, s, sound) ==
  /\ s1 \in Shared /\ s1.depth = s.depth
  /\ FunctionsSound /\ sound => s1.dangling = s.dangling

(* A value comes without an error, and no value with one.                  *)
Tells(v, s1) ==
  /\ v \in Values
  /\ v # NaN => s1.errors = {}
  /\ v = NaN /\ AllTakeArguments => s1.errors # {}

ModelSound(m) == ArgumentsParse(m.expr, m.labels.names)
Right(r, m, s) ==
  /\ Tells(r.v, r.st) /\ Within(r.st, s, ModelSound(m))
  /\ r.m \in Models /\ r.m.labels = m.labels /\ r.m.cmplx = m.cmplx
  /\ ModelSound(m) => ModelSound(r.m)

(* An evaluator that is right from a depth on.                             *)
Good(eval, d) == \A m \in Models : \A s \in Shared : s.depth >= d => Right(eval[<<m, s>>], m, s)

(* tms_solve_e does what its evaluator does, and does not delete labels if *)
(* the text parses with them.                                              *)
LEMMA SolveELaw ==
  ASSUME NEW eval, NEW d \in Int, Good(eval, d), NEW e \in Texts, NEW cmplx \in BOOLEAN,
         NEW labels \in LabelLists, NEW s \in Shared, s.depth >= d,
         NEW r, r = SolveE(eval, e, cmplx, labels, s)
  PROVE  Tells(r.v, r.st) /\ Within(r.st, s, ArgumentSound(e, cmplx, labels.names))
<1>1. PICK p : p = Parse(e, cmplx, labels, s)
  OBVIOUS
<1>2. /\ p.m = None \/ ParsedFrom(p.m, e, cmplx, labels)
      /\ p.st \in Shared /\ p.st.depth = s.depth /\ p.st.dangling = s.dangling
      /\ p.m = None => p.st.errors # {}
      /\ p.freed \in BOOLEAN
      /\ p.freed => labels # NoLabels /\ ~Parses(e, cmplx, labels.names)
  BY <1>1, ParseLaw
<1>3. labels.names = <<>> => labels = NoLabels
  <2>1. labels = [names |-> labels.names, payload |-> labels.payload]
        /\ labels.payload \in Seq(Values) /\ Len(labels.payload) \in {0, Len(labels.names)}
    BY DEF LabelLists
  <2> QED BY <2>1 DEF NoLabels, LabelList
<1>4. CASE p.m = None
  <2>1. r = [v |-> NaN, st |-> [p.st EXCEPT !.dangling = p.st.dangling \/ p.freed]]
    BY <1>1, <1>4 DEF SolveE
  <2>2. PICK b \in BOOLEAN : b = (p.st.dangling \/ p.freed)
    OBVIOUS
  <2>3. r.v = NaN /\ r.st = [errors |-> p.st.errors, depth |-> p.st.depth, dangling |-> b]
    BY <1>2, <2>1, <2>2 DEF Shared
  <2>4. r.st \in Shared /\ r.st.errors # {} /\ r.st.depth = s.depth /\ r.st.dangling = b
    BY <1>2, <1>4, <2>3 DEF Shared
  <2>5. ArgumentSound(e, cmplx, labels.names) => ~p.freed
    BY <1>2, <1>3 DEF ArgumentSound
  <2>6. p.st.dangling \in BOOLEAN
    BY <1>2 DEF Shared
  <2>7. ArgumentSound(e, cmplx, labels.names) => b = s.dangling
    BY <1>2, <2>2, <2>5, <2>6
  <2> QED BY <2>3, <2>4, <2>7 DEF Tells, Within, Values
<1>5. CASE p.m # None
  <2>1. r = eval[<<p.m, p.st>>]
    BY <1>1, <1>5 DEF SolveE
  <2>2. ParsedFrom(p.m, e, cmplx, labels)
    BY <1>2, <1>5
  <2>3. Right(r, p.m, p.st)
    BY <1>2, <2>1, <2>2 DEF Good, ParsedFrom
  <2>4. ArgumentSound(e, cmplx, labels.names) => ModelSound(p.m)
    BY <2>2 DEF ParsedFrom, ModelSound, ArgumentSound
  <2> QED BY <1>2, <2>3, <2>4 DEF Right, Within
<1> QED BY <1>4, <1>5

(* One more value in a list. *)
LEMMA ToSetAppend ==
  ASSUME NEW T, NEW q \in Seq(T), NEW v \in T
  PROVE  Append(q, v) \in Seq(T) /\ ToSet(Append(q, v)) = ToSet(q) \cup {v}
<1>1. ToSet(q) = {q[i] : i \in 1 .. Len(q)}
  BY DEF ToSet
<1>2. Append(q, v) \in Seq(T) /\ Len(Append(q, v)) = Len(q) + 1 /\ Len(q) \in Nat
  OBVIOUS
<1>3. \A i \in 1 .. Len(q) + 1 : Append(q, v)[i] = IF i = Len(q) + 1 THEN v ELSE q[i]
  OBVIOUS
<1>4. ToSet(Append(q, v)) = {Append(q, v)[i] : i \in 1 .. Len(q) + 1}
  BY <1>2 DEF ToSet
<1>5. ASSUME NEW x PROVE x \in ToSet(Append(q, v)) <=> x \in ToSet(q) \cup {v}
  <2>1. (\E i \in 1 .. Len(q) + 1 : x = Append(q, v)[i]) <=> (x = v \/ \E i \in 1 .. Len(q) : x = q[i])
    <3>1. \A i \in 1 .. Len(q) + 1 : i = Len(q) + 1 \/ i \in 1 .. Len(q)
      BY <1>2
    <3>2. Len(q) + 1 \in 1 .. Len(q) + 1 /\ \A i \in 1 .. Len(q) : i \in 1 .. Len(q) + 1 /\ i # Len(q) + 1
      BY <1>2
    <3> QED BY <1>3, <3>1, <3>2
  <2> QED BY <1>1, <1>4, <2>1
<1> QED BY <1>2, <1>5

(* The values of a list of arguments, until one has none.                  *)
ListSoFar(acc, n, s, sound) ==
  /\ acc.vs \in Seq(Values) /\ Within(acc.st, s, sound)
  /\ NaN \in ToSet(acc.vs) \/ Len(acc.vs) = n
  /\ NaN \in ToSet(acc.vs) /\ AllTakeArguments => acc.st.errors # {}
  /\ NaN \notin ToSet(acc.vs) /\ s.errors = {} => acc.st.errors = {}

(* tms_solve_list, argument by argument. *)
LEMMA SolveListLaw ==
  ASSUME NEW eval, NEW d \in Int, Good(eval, d), NEW args \in Seq(Texts), NEW cmplx \in BOOLEAN,
         NEW labels \in LabelLists, NEW s \in Shared, s.depth >= d,
         NEW sound \in BOOLEAN,
         sound => \A j \in DOMAIN args : ArgumentSound(args[j], cmplx, labels.names)
  PROVE  ListSoFar(SolveList(eval, args, cmplx, labels, s), Len(args), s, sound)
<1>0. PICK N \in Nat : N = Len(args) /\ DOMAIN args = 1 .. N
  OBVIOUS
<1> DEFINE With(acc, r) == [vs |-> Append(acc.vs, r.v), st |-> r.st]
           Go(acc, n) == IF NaN \in ToSet(acc.vs) THEN acc
                         ELSE With(acc, SolveE(eval, args[n], cmplx, labels, acc.st))
           a == [vs |-> <<>>, st |-> s]
           Body(f) == [n \in 0 .. N |-> IF n = 0 THEN a ELSE Go(f[n - 1], n)]
           Accs == [vs : Seq(Values), st : Shared]
           S == [n \in 0 .. N |-> {acc \in Accs : ListSoFar(acc, n, s, sound)}]
           G == [n \in 1 .. N |-> [acc \in S[n - 1] |-> Go(acc, n)]]
<1>1. a \in S[0]
  <2>1. a \in Accs /\ ToSet(<<>>) = {} /\ Len(<<>>) = 0 /\ a.vs = <<>> /\ a.st = s
    BY DEF ToSet
  <2> HIDE DEF a
  <2>2. ListSoFar(a, 0, s, sound)
    BY <2>1 DEF ListSoFar, Within
  <2> QED BY <2>1, <2>2
<1>2. ASSUME NEW n \in 1 .. N, NEW acc \in S[n - 1] PROVE Go(acc, n) \in S[n]
  <2>1. n - 1 \in 0 .. N /\ n \in 0 .. N /\ args[n] \in Texts
    BY <1>0
  <2>2. acc \in Accs /\ ListSoFar(acc, n - 1, s, sound)
    BY <2>1
  <2> SUFFICES Go(acc, n) \in Accs /\ ListSoFar(Go(acc, n), n, s, sound)
    BY <2>1
  <2>3. CASE NaN \in ToSet(acc.vs)
    <3>1. Go(acc, n) = acc
      BY <2>3
    <3> HIDE DEF Go
    <3> QED BY <2>2, <2>3, <3>1 DEF ListSoFar
  <2>4. CASE NaN \notin ToSet(acc.vs)
    <3>1. PICK r : r = SolveE(eval, args[n], cmplx, labels, acc.st)
      OBVIOUS
    <3>2. acc.st \in Shared /\ acc.st.depth = s.depth /\ acc.vs \in Seq(Values)
      BY <2>2 DEF ListSoFar, Within
    <3>3. Tells(r.v, r.st) /\ Within(r.st, acc.st, ArgumentSound(args[n], cmplx, labels.names))
      BY <2>1, <3>1, <3>2, SolveELaw
    <3>4. PICK b : b = Go(acc, n)
      OBVIOUS
    <3>5. b.vs = Append(acc.vs, r.v) /\ b.st = r.st /\ b = [vs |-> b.vs, st |-> b.st]
      BY <2>4, <3>1, <3>4
    <3>6. sound => ArgumentSound(args[n], cmplx, labels.names)
      BY <1>0
    <3>7. Within(r.st, s, sound)
      BY <2>2, <3>3, <3>6 DEF Within, ListSoFar
    <3>8. b.vs \in Seq(Values) /\ ToSet(b.vs) = ToSet(acc.vs) \cup {r.v} /\ Len(b.vs) = n
      <4>1. Len(b.vs) = Len(acc.vs) + 1 /\ Len(acc.vs) = n - 1
        BY <2>2, <2>4, <3>2, <3>5 DEF ListSoFar
      <4> QED BY <3>2, <3>3, <3>5, <4>1, ToSetAppend DEF Tells
    <3> HIDE DEF Go
    <3>9. ListSoFar(b, n, s, sound)
      BY <2>4, <3>3, <3>5, <3>7, <3>8 DEF ListSoFar, Tells
    <3>10. b \in Accs
      BY <3>5, <3>7, <3>8 DEF Within
    <3> QED BY <3>4, <3>9, <3>10
  <2> QED BY <2>3, <2>4
<1>3. \A n \in 1 .. N : \A acc \in S[n - 1] : G[n][acc] = Go(acc, n)
  OBVIOUS
<1> HIDE DEF S, G, Go, a
<1>4. PICK f : Rises(f, N, S, a, G)
  <2>1. \A n \in 1 .. N : \A acc \in S[n - 1] : G[n][acc] \in S[n]
    BY <1>2, <1>3
  <2> QED BY <1>1, <2>1, Tower
<1>5. f = Body(f)
  <2>1. ASSUME NEW n \in 0 .. N PROVE f[n] = IF n = 0 THEN a ELSE Go(f[n - 1], n)
    <3>1. CASE n # 0
      <4>1. n \in 1 .. N /\ n - 1 \in 0 .. N
        BY <3>1
      <4> QED BY <1>3, <1>4, <3>1, <4>1 DEF Rises
    <3> QED BY <1>4, <3>1 DEF Rises
  <2> QED BY <1>4, <2>1 DEF Rises
<1>6. PICK h : h = Body(h) /\ SolveList(eval, args, cmplx, labels, s) = h[N]
  <2>1. SolveList(eval, args, cmplx, labels, s) = (CHOOSE h : h = Body(h))[N]
    BY <1>0 DEF SolveList, Go, a
  <2> HIDE DEF Body
  <2> QED BY <1>5, <2>1
<1>7. h[0] = a /\ \A n \in 1 .. N : h[n] = Go(h[n - 1], n)
  BY <1>6
<1>8. \A n \in 0 .. N : h[n] \in S[n]
  BY <1>1, <1>2, <1>7, Climb
<1> QED BY <1>0, <1>6, <1>8 DEF S

-----------------------------------------------------------------------------
(* Extended functions.                                                     *)

(* To save, explain or clear errors on the way changes nothing else. *)
LEMMA WithinKept ==
  ASSUME NEW s1, NEW s, NEW sound \in BOOLEAN, Within(s1, s, sound),
         NEW facility \in Both, NEW severity \in {"fatal", "nonfatal"}, NEW F
  PROVE  /\ Within(Save(s1, facility, severity), s, sound)
         /\ Within(Explain(s1, facility, severity), s, sound)
         /\ Within(Clear(s1, F), s, sound)
         /\ Save(s1, facility, severity).errors # {}
         /\ Explain(s1, facility, severity).errors # {}
         /\ Clear(s1, F).errors \subseteq s1.errors
         /\ Clear(s1, Both).errors = {}
<1>1. s1 \in Shared
  BY DEF Within
<1> QED BY <1>1, ErrorLaws DEF Within

(* One call after the other. *)
LEMMA WithinFollows ==
  ASSUME NEW s, NEW s1, NEW s2, NEW sound \in BOOLEAN,
         Within(s1, s, sound), Within(s2, s1, sound)
  PROVE  Within(s2, s, sound)
BY DEF Within

(* A result with a value brings no errors.  The function may remember it,  *)
(* and hex changes its argument.                                           *)
ExtRight(c, t, E, s, sound) ==
  /\ c.ok \in BOOLEAN /\ c.v \in Values /\ Within(c.st, s, sound)
  /\ c.t \in ExtTerms(E) /\ (c.t = t \/ c.t.f = "hex")
  /\ c.ok /\ c.v # NaN /\ s.errors = {} => c.st.errors = {}

(* A function that gives up is right if what it did before was. *)
LEMMA FailureRight ==
  ASSUME NEW E, NEW t \in ExtTerms(E), NEW s, NEW s1, NEW sound \in BOOLEAN, Within(s1, s, sound)
  PROVE  ExtRight(Failure(t, s1), t, E, s, sound)
BY Arithmetic, NaN \in Values DEF ExtRight, Failure, Values

(* A function that answers is right if no error is left with its value. *)
LEMMA SuccessRight ==
  ASSUME NEW E, NEW t \in ExtTerms(E), NEW s, NEW s1, NEW sound \in BOOLEAN, Within(s1, s, sound),
         NEW v \in Values, v # NaN /\ s.errors = {} => s1.errors = {}
  PROVE  ExtRight(Success(t, v, s1), t, E, s, sound)
BY DEF ExtRight, Success

(* avg *)
LEMMA AvgLaw ==
  ASSUME NEW eval, NEW d \in Int, Good(eval, d), NEW E \in SUBSET Texts, NEW t \in ExtTerms(E),
         t.f = "avg", NEW labels \in LabelLists, NEW s \in Shared, s.depth >= d,
         NEW sound \in BOOLEAN, sound => CallSound(t, labels.names)
  PROVE  ExtRight(Avg(eval, t, labels, s), t, E, s, sound)
<1>1. t.args \in Seq(Texts) /\ t.k = "ext"
  BY DEF ExtTerms
<1>2. SolvedArgs(t) = DOMAIN t.args
  BY DEF SolvedArgs, Integrands
<1>3. sound => \A j \in DOMAIN t.args : ArgumentSound(t.args[j], TRUE, labels.names)
  BY <1>1, <1>2 DEF CallSound
<1>4. PICK r : r = SolveList(eval, t.args, TRUE, labels, s)
  OBVIOUS
<1>5. ListSoFar(r, Len(t.args), s, sound)
  BY <1>1, <1>3, <1>4, SolveListLaw
<1>6. CASE NaN \in ToSet(r.vs)
  <2>1. Avg(eval, t, labels, s) = Failure(t, r.st)
    BY <1>4, <1>6 DEF Avg
  <2> QED BY <1>5, <2>1, FailureRight DEF ListSoFar
<1>7. CASE NaN \notin ToSet(r.vs)
  <2>1. PICK v : v = IF Len(r.vs) = 2 THEN Half(Total(r.vs)) ELSE Total(r.vs)
    OBVIOUS
  <2>2. Avg(eval, t, labels, s) = Success(t, v, r.st)
    BY <1>4, <1>7, <2>1 DEF Avg
  <2>3. v \in Values
    BY <1>5, <2>1, TotalLaw, Arithmetic DEF ListSoFar
  <2> QED BY <1>5, <1>7, <2>2, <2>3, SuccessRight DEF ListSoFar
<1> QED BY <1>6, <1>7

(* The element of a list of one. *)
LEMMA TheOnly ==
  ASSUME NEW T, NEW q \in Seq(T), Len(q) = 1
  PROVE  q[1] \in T
<1>1. PICK n \in 1 .. Len(q) : n = 1
  OBVIOUS
<1>2. q[n] \in T
  OBVIOUS
<1> QED BY <1>1, <1>2

(* hex, which evaluates nothing *)
LEMMA BaseNLaw ==
  ASSUME NEW E \in SUBSET Texts, Seq(PlainTerms) \subseteq E, NEW t \in ExtTerms(E),
         t.f = "hex", Len(t.args) = 1, NEW s \in Shared, NEW sound \in BOOLEAN
  PROVE  ExtRight(BaseN(t, s), t, E, s, sound)
<1>1. Within(s, s, sound)
  BY DEF Within
<1>2. CASE ~IsNumber(t.args[1])
  <2>1. BaseN(t, s) = Success(t, NaN, s)
    BY <1>2 DEF BaseN
  <2> QED BY <1>1, <2>1, SuccessRight, NaN \in Values DEF Values
<1>3. CASE IsNumber(t.args[1])
  <2>1. t.args \in Seq(E) /\ t.k = "ext" /\ t.memo \in Seq(Values) /\ t.f \in Extended
        /\ t = [k |-> t.k, f |-> t.f, args |-> t.args, memo |-> t.memo]
    BY DEF ExtTerms
  <2>2. PICK e \in E : e = t.args[1]
    BY <2>1
  <2>3. Len(e) = 1 /\ e[1].k = "num"
    BY <1>3, <2>2 DEF IsNumber
  <2>4. \E D : e[1] \in TermsOver(D)
    <3>1. e \in Exprs[Nesting] /\ (Nesting = 0 \/ Nesting \in 1 .. Nesting)
      BY ExpressionsAssumption DEF Texts
    <3>2. CASE Nesting = 0
      <4>1. e \in Seq(PlainTerms)
        BY <3>1, <3>2, ExprsIs
      <4>2. e[1] \in PlainTerms
        BY <2>3, <4>1, TheOnly
      <4> QED BY <4>2 DEF TermsOver
    <3>3. CASE Nesting \in 1 .. Nesting
      <4>1. e \in Seq(TermsOver(Exprs[Nesting - 1]))
        BY <3>1, <3>3, ExprsIs
      <4>2. e[1] \in TermsOver(Exprs[Nesting - 1])
        BY <2>3, <4>1, TheOnly
      <4> QED BY <4>2
    <3> QED BY <3>1, <3>2, <3>3
  <2>5. PICK v \in Values : v = e[1].v /\ v \in Numbers
    BY <2>3, <2>4, TermKinds
  <2>6. v[1] + v[2] \in Int
    BY <2>5 DEF Numbers
  <2>7. PICK p \in PlainTerms : p = Num(v[1] + v[2])
    <3>1. \A i \in Int : Num(i) \in [k : {"num"}, v : Numbers, word : BOOLEAN]
      BY DEF Num, Numbers
    <3> QED BY <2>6, <3>1 DEF PlainTerms
  <2>8. <<<<p>>>> \in Seq(E)
    <3>1. PICK y \in E : y = <<p>>
      <4>1. <<p>> \in Seq(PlainTerms)
        OBVIOUS
      <4> QED BY <4>1
    <3>2. <<y>> \in Seq(E)
      OBVIOUS
    <3> QED BY <3>1, <3>2
  <2>9. PICK t1 : t1 = [t EXCEPT !.args = <<<<p>>>>]
    OBVIOUS
  <2>10. t1 \in ExtTerms(E) /\ t1.f = "hex"
    BY <2>1, <2>8, <2>9 DEF ExtTerms
  <2>11. BaseN(t, s) = Success(t1, v, s)
    BY <1>3, <2>2, <2>5, <2>7, <2>9 DEF BaseN
  <2> QED BY <1>1, <2>10, <2>11 DEF ExtRight, Success
<1> QED BY <1>2, <1>3

(* max and min *)
LEMMA ExtremeLaw ==
  ASSUME NEW eval, NEW d \in Int, Good(eval, d), NEW E \in SUBSET Texts, NEW t \in ExtTerms(E),
         t.f \in {"max", "min"}, NEW labels \in LabelLists, NEW s \in Shared, s.depth >= d,
         NEW sound \in BOOLEAN, sound => CallSound(t, labels.names)
  PROVE  ExtRight(Extreme(eval, t, labels, s), t, E, s, sound)
<1>0. PICK N \in Nat : N = Len(t.args) /\ DOMAIN t.args = 1 .. N /\ t.args \in Seq(Texts) /\ t.k = "ext"
  <2>1. t.args \in Seq(Texts) /\ t.k = "ext"
    BY DEF ExtTerms
  <2> QED BY <2>1
<1> DEFINE With(acc, r) ==
        IF r.v = NaN THEN Failure(t, r.st)
        ELSE IF ~Real(r.v) THEN Failure(t, Save(r.st, "evaluator", "fatal"))
        ELSE Success(t, IF acc.v = NaN \/ Beats(t.f, r.v, acc.v) THEN r.v ELSE acc.v, r.st)
           Go(acc, n) == IF acc.ok THEN With(acc, SolveE(eval, t.args[n], TRUE, labels, acc.st))
                         ELSE acc
           a == Success(t, NaN, s)
           Body(f) == [n \in 0 .. N |-> IF n = 0 THEN a ELSE Go(f[n - 1], n)]
           Accs == [ok : BOOLEAN, v : Values, t : {t}, st : Shared]
           Here(acc) == /\ Within(acc.st, s, sound)
                        /\ acc.ok /\ s.errors = {} => acc.st.errors = {}
           Set == {acc \in Accs : Here(acc)}
           S == [n \in 0 .. N |-> Set]
           G == [n \in 1 .. N |-> [acc \in S[n - 1] |-> Go(acc, n)]]
<1>1. a \in Set
  BY NaN \in Values DEF Success, Within, Values
<1>2. ASSUME NEW n \in 1 .. N, NEW acc \in Set PROVE Go(acc, n) \in Set
  <2>1. acc \in Accs /\ Here(acc) /\ t.args[n] \in Texts
    BY <1>0
  <2>2. CASE ~acc.ok
    <3>1. Go(acc, n) = acc
      BY <2>2
    <3> HIDE DEF Go, Set
    <3> QED BY <3>1
  <2>3. CASE acc.ok
    <3>1. PICK r : r = SolveE(eval, t.args[n], TRUE, labels, acc.st)
      OBVIOUS
    <3>2. acc.st \in Shared /\ acc.st.depth = s.depth
      BY <2>1 DEF Within
    <3>3. Tells(r.v, r.st) /\ Within(r.st, acc.st, ArgumentSound(t.args[n], TRUE, labels.names))
      BY <2>1, <3>1, <3>2, SolveELaw
    <3>4. sound => ArgumentSound(t.args[n], TRUE, labels.names)
      BY <1>0 DEF CallSound, SolvedArgs, Integrands
    <3>5. Within(r.st, s, sound)
      BY <2>1, <3>3, <3>4 DEF Within
    <3>6. Go(acc, n) = With(acc, r)
      BY <2>3, <3>1
    <3>7. PICK v \in Values : v = IF acc.v = NaN \/ Beats(t.f, r.v, acc.v) THEN r.v ELSE acc.v
      BY <2>1, <3>3 DEF Tells
    <3>8. PICK s2 : s2 = Save(r.st, "evaluator", "fatal")
      OBVIOUS
    <3>9. Within(s2, s, sound) /\ r.st \in Shared /\ s2 \in Shared
      <4>1. "evaluator" \in Both /\ "fatal" \in {"fatal", "nonfatal"}
        BY DEF Both
      <4>2. Within(s2, s, sound)
        BY <3>5, <3>8, <4>1, WithinKept
      <4> QED BY <3>5, <4>2 DEF Within
    <3>10. With(acc, r) \in {Failure(t, r.st), Failure(t, s2), Success(t, v, r.st)}
           /\ (With(acc, r) = Success(t, v, r.st) \/ With(acc, r).ok = FALSE)
           /\ (r.v = NaN => With(acc, r).ok = FALSE)
      BY <3>7, <3>8 DEF Failure, Success
    <3>11. Failure(t, r.st) \in Set /\ Failure(t, s2) \in Set
      BY <3>5, <3>9, NaN \in Values DEF Failure, Values
    <3>12. r.v # NaN => Success(t, v, r.st) \in Set
      BY <3>3, <3>5, <3>9 DEF Success, Tells
    <3> HIDE DEF Set, With, Go
    <3>13. With(acc, r) \in Set
      <4>1. CASE r.v = NaN
        BY <3>10, <3>11, <4>1 DEF Success
      <4> QED BY <3>10, <3>11, <3>12, <4>1
    <3> QED BY <3>6, <3>13
  <2> QED BY <2>2, <2>3
<1>3. \A n \in 1 .. N : \A acc \in S[n - 1] : G[n][acc] = Go(acc, n)
  OBVIOUS
<1>4. \A n \in 0 .. N : S[n] = Set
  OBVIOUS
<1> HIDE DEF S, G, Go, a, Set
<1>5. PICK f : Rises(f, N, S, a, G)
  <2>1. \A n \in 1 .. N : \A acc \in S[n - 1] : G[n][acc] \in S[n]
    BY <1>2, <1>3, <1>4
  <2>2. a \in S[0]
    BY <1>1, <1>4
  <2> QED BY <2>1, <2>2, Tower
<1>6. f = Body(f)
  <2>1. ASSUME NEW n \in 0 .. N PROVE f[n] = IF n = 0 THEN a ELSE Go(f[n - 1], n)
    <3>1. CASE n # 0
      <4>1. n \in 1 .. N /\ n - 1 \in 0 .. N
        BY <3>1
      <4> QED BY <1>3, <1>5, <3>1, <4>1 DEF Rises
    <3> QED BY <1>5, <3>1 DEF Rises
  <2> QED BY <1>5, <2>1 DEF Rises
<1>7. PICK h : h = Body(h) /\ Extreme(eval, t, labels, s) = h[N]
  <2>1. Extreme(eval, t, labels, s) = (CHOOSE h : h = Body(h))[N]
    BY <1>0 DEF Extreme, Go, a
  <2> HIDE DEF Body
  <2> QED BY <1>6, <2>1
<1>8. h[0] = a /\ \A n \in 1 .. N : h[n] = Go(h[n - 1], n)
  BY <1>7
<1>9. \A n \in 0 .. N : h[n] \in S[n]
  BY <1>1, <1>2, <1>4, <1>8, Climb
<1>10. Extreme(eval, t, labels, s) \in Set
  BY <1>4, <1>7, <1>9
<1> QED BY <1>10 DEF Set, ExtRight

(* A function of x at two points.  Its second value comes after the first  *)
(* one, so if there is one, no error is left.                              *)
XLabels == LabelList(<<"x">>, <<>>)

(* Giving x a value changes neither the text nor the labels of the         *)
(* function.                                                               *)
LEMMA PointSet ==
  ASSUME NEW m \in Models, m.labels = XLabels, NEW x \in Values
  PROVE  /\ SetValues(m, <<x>>) \in Models /\ SetValues(m, <<x>>).labels = XLabels
         /\ ModelSound(SetValues(m, <<x>>)) <=> ModelSound(m)
<1>1. <<x>> \in Seq(Values) /\ Len(<<x>>) = 1 /\ <<"x">> \in Seq(LabelNames) /\ Len(<<"x">>) = 1
  BY ExpressionsAssumption
<1>2. PICK env \in [LabelNames -> Values] : env = LabelEnv(<<"x">>, <<x>>)
  BY <1>1, EnvLaw
<1>3. m.labels.names = <<"x">>
  BY DEF XLabels, LabelList
<1>4. SetValues(m, <<x>>) = [expr |-> m.expr, labels |-> m.labels, cmplx |-> m.cmplx, env |-> env]
  BY <1>2, <1>3 DEF SetValues, Models
<1>5. m.expr \in Texts /\ m.labels \in LabelLists /\ m.cmplx \in BOOLEAN
  BY DEF Models
<1> QED BY <1>4, <1>5 DEF Models, ModelSound

(* The function is parsed with labels of its own, so no other list can be  *)
(* deleted with it.                                                        *)
LEMMA AtPointsLaw ==
  ASSUME NEW eval, NEW d \in Int, Good(eval, d), NEW e \in Texts, NEW x \in Values, NEW y \in Values,
         NEW s \in Shared, s.depth >= d,
         NEW sound \in BOOLEAN, sound => ArgumentsParse(e, <<"x">>),
         NEW o, o = AtPoints(eval, e, <<x, y>>, s)
  PROVE  /\ Within(o.st, s, sound)
         /\ o.outcome \in {"unparsed", "random", "values"}
         /\ o.outcome = "values" =>
              /\ o.vs[1] \in Values /\ o.vs[2] \in Values
              /\ o.vs[2] # NaN => o.st.errors = {}
<1>1. PICK p : p = Parse(e, FALSE, XLabels, s)
  OBVIOUS
<1>2. XLabels \in LabelLists /\ XLabels.names = <<"x">>
  <2>1. <<"x">> \in Seq(LabelNames) /\ <<>> \in Seq(Values) /\ Len(<<>>) = 0
    BY ExpressionsAssumption
  <2> QED BY <2>1 DEF XLabels, LabelList, LabelLists
<1>3. /\ p.m = None \/ ParsedFrom(p.m, e, FALSE, XLabels)
      /\ p.st \in Shared /\ p.st.depth = s.depth /\ p.st.dangling = s.dangling
  <2>1. PICK c \in BOOLEAN : c = FALSE
    OBVIOUS
  <2>2. p = Parse(e, c, XLabels, s)
    BY <1>1, <2>1
  <2>3. /\ p.m = None \/ ParsedFrom(p.m, e, c, XLabels)
        /\ p.st \in Shared /\ p.st.depth = s.depth /\ p.st.dangling = s.dangling
    BY <1>2, <2>2, ParseLaw
  <2> QED BY <2>1, <2>3
<1>4. Within(p.st, s, sound)
  BY <1>3 DEF Within
<1>5. CASE p.m = None
  <2>1. o = [outcome |-> "unparsed", st |-> p.st]
    BY <1>1, <1>5 DEF AtPoints, XLabels
  <2> QED BY <1>4, <2>1
<1>6. CASE p.m # None /\ ~Deterministic(p.m)
  <2>1. o = [outcome |-> "random", st |-> Save(p.st, "evaluator", "fatal")]
    BY <1>1, <1>6 DEF AtPoints, XLabels
  <2>2. Within(Save(p.st, "evaluator", "fatal"), s, sound)
    BY <1>4, WithinKept DEF Both
  <2> QED BY <2>1, <2>2
<1>7. CASE p.m # None /\ Deterministic(p.m)
  <2>1. p.m \in Models /\ p.m.labels = XLabels /\ p.m.expr = e
    BY <1>3, <1>7 DEF ParsedFrom
  <2>2. PICK m1 : m1 = SetValues(p.m, <<x>>)
    OBVIOUS
  <2>3. m1 \in Models /\ m1.labels = XLabels /\ (ModelSound(m1) <=> ModelSound(p.m))
    BY <2>1, <2>2, PointSet
  <2>4. PICK r1 : r1 = eval[<<m1, p.st>>]
    OBVIOUS
  <2>5. Right(r1, m1, p.st)
    BY <1>3, <2>3, <2>4 DEF Good
  <2>6. PICK m2 : m2 = SetValues(r1.m, <<y>>)
    OBVIOUS
  <2>7. m2 \in Models /\ m2.labels = XLabels /\ (ModelSound(m2) <=> ModelSound(r1.m))
    BY <2>3, <2>5, <2>6, PointSet DEF Right
  <2>8. PICK r2 : r2 = eval[<<m2, r1.st>>]
    OBVIOUS
  <2>9. Right(r2, m2, r1.st)
    <3>1. r1.st \in Shared /\ r1.st.depth >= d
      BY <1>3, <2>5 DEF Right, Within
    <3> QED BY <2>7, <2>8, <3>1 DEF Good
  <2>10. o = [outcome |-> "values", vs |-> <<Re(r1.v), Re(r2.v)>>,
              st |-> Clear(r2.st, {"evaluator"})]
    BY <1>1, <1>7, <2>2, <2>4, <2>6, <2>8 DEF AtPoints, XLabels
  <2>11. Within(r2.st, s, sound)
    <3>1. sound => ModelSound(p.m)
      BY <1>2, <2>1 DEF ModelSound
    <3> QED BY <1>3, <2>3, <2>5, <2>7, <2>9, <3>1 DEF Right, Within
  <2>12. Within(Clear(r2.st, {"evaluator"}), s, sound)
         /\ Clear(r2.st, {"evaluator"}).errors \subseteq r2.st.errors
    <3>1. "evaluator" \in Both /\ "fatal" \in {"fatal", "nonfatal"}
      BY DEF Both
    <3> QED BY <2>11, <3>1, WithinKept
  <2>13. r1.v \in Values /\ r2.v \in Values /\ (r2.v # NaN => r2.st.errors = {})
    BY <2>5, <2>9 DEF Right, Tells
  <2>14. Re(r1.v) \in Values /\ Re(r2.v) \in Values /\ (r2.v = NaN => Re(r2.v) = NaN)
    BY <2>13, Arithmetic DEF Re
  <2> QED BY <2>10, <2>12, <2>13, <2>14
<1> QED BY <1>5, <1>6, <1>7

(* There is no slope where there is no value. *)
LEMMA SlopeNaN ==
  ASSUME NEW v, NEW u PROVE Slope(v, u, NaN) = NaN
BY DEF Slope, Half, Add

(* derivative: the errors of a part that fails are cleared                 *)
(* (function.c:209), and the evaluator saves one of its own for the        *)
(* failure.                                                                *)
LEMMA DerivativeLaw ==
  ASSUME NEW eval, NEW d \in Int, Good(eval, d), NEW E \in SUBSET Texts, NEW t \in ExtTerms(E),
         t.f = "derivative", Len(t.args) = 2,
         NEW labels \in LabelLists, NEW s \in Shared, s.depth >= d,
         NEW sound \in BOOLEAN, sound => CallSound(t, labels.names)
  PROVE  ExtRight(Derivative(eval, t, labels, s), t, E, s, sound)
<1>0. "evaluator" \in Both /\ "parser" \in Both /\ "fatal" \in {"fatal", "nonfatal"}
  BY DEF Both
<1>1. Within(s, s, sound)
  BY DEF Within
<1>2. CASE UsesX(labels)
  <2>1. Within(Save(s, "evaluator", "fatal"), s, sound)
    BY <1>0, <1>1, WithinKept
  <2>2. Derivative(eval, t, labels, s) = Failure(t, Save(s, "evaluator", "fatal"))
    BY <1>2 DEF Derivative
  <2> QED BY <2>1, <2>2, FailureRight
<1>3. CASE ~UsesX(labels)
  <2>1. /\ t.k = "ext" /\ t.args \in Seq(Texts) /\ DOMAIN t.args = 1 .. 2
        /\ SolvedArgs(t) = {2} /\ Integrands(t) = {1}
    <3>1. t.k = "ext" /\ t.args \in Seq(Texts)
      BY DEF ExtTerms
    <3>2. DOMAIN t.args = 1 .. 2
      BY <3>1
    <3> QED BY <3>1, <3>2 DEF SolvedArgs, Integrands
  <2>2. t.args[1] \in Texts /\ t.args[2] \in Texts
    BY <2>1
  <2>3. sound => ArgumentSound(t.args[2], TRUE, labels.names) /\ ArgumentsParse(t.args[1], <<"x">>)
    BY <2>1 DEF CallSound
  <2>4. PICK x : x = SolveE(eval, t.args[2], TRUE, labels, s)
    OBVIOUS
  <2>5. Tells(x.v, x.st) /\ Within(x.st, s, ArgumentSound(t.args[2], TRUE, labels.names))
    BY <2>2, <2>4, SolveELaw
  <2>6. Within(x.st, s, sound)
    BY <2>3, <2>5 DEF Within
  <2>7. CASE x.v = NaN
    <3>1. Within(Clear(x.st, Both), s, sound)
      BY <1>0, <2>6, WithinKept
    <3>2. Derivative(eval, t, labels, s) = Failure(t, Clear(x.st, Both))
      BY <1>3, <2>4, <2>7 DEF Derivative
    <3> QED BY <3>1, <3>2, FailureRight
  <2>8. CASE x.v # NaN
    <3>1. Before(x.v) \in Values /\ After(x.v) \in Values
      <4>1. <<-1, 0>> \in Values /\ <<1, 0>> \in Values
        BY DEF Values, Numbers
      <4> QED BY <2>5, <4>1, Arithmetic DEF Before, After, Tells
    <3>2. PICK o : o = AtPoints(eval, t.args[1], <<Before(x.v), After(x.v)>>, x.st)
      OBVIOUS
    <3>3. x.st \in Shared /\ x.st.depth >= d
      BY <2>6 DEF Within
    <3>4. /\ Within(o.st, x.st, sound)
          /\ o.outcome \in {"unparsed", "random", "values"}
          /\ o.outcome = "values" =>
              /\ o.vs[1] \in Values /\ o.vs[2] \in Values
              /\ o.vs[2] # NaN => o.st.errors = {}
      <4>1. PICK e \in Texts, y1 \in Values, y2 \in Values :
              e = t.args[1] /\ y1 = Before(x.v) /\ y2 = After(x.v)
        BY <2>2, <3>1
      <4>2. sound => ArgumentsParse(e, <<"x">>)
        BY <2>3, <4>1
      <4>3. o = AtPoints(eval, e, <<y1, y2>>, x.st)
        BY <3>2, <4>1
      <4> QED BY <3>3, <4>2, <4>3, AtPointsLaw
    <3>5. Within(o.st, s, sound)
      BY <2>6, <3>4, WithinFollows
    <3>6. CASE o.outcome = "unparsed"
      <4>1. Within(Clear(o.st, {"parser"}), s, sound)
        BY <1>0, <3>5, WithinKept
      <4>2. Derivative(eval, t, labels, s) = Failure(t, Clear(o.st, {"parser"}))
        BY <1>3, <2>4, <2>8, <3>2, <3>6 DEF Derivative
      <4> QED BY <4>1, <4>2, FailureRight
    <3>7. CASE o.outcome = "random"
      <4>1. Derivative(eval, t, labels, s) = Failure(t, o.st)
        BY <1>3, <2>4, <2>8, <3>2, <3>7 DEF Derivative
      <4> QED BY <3>5, <4>1, FailureRight
    <3>8. CASE o.outcome = "values"
      <4>1. PICK slope \in Values : slope = Slope(x.v, o.vs[1], o.vs[2])
        BY <2>5, <3>4, <3>8, Arithmetic DEF Tells
      <4>2. PICK s1 : s1 = IF slope = NaN THEN Save(o.st, "evaluator", "fatal") ELSE o.st
        OBVIOUS
      <4>3. Derivative(eval, t, labels, s) = Success(t, slope, s1)
        BY <1>3, <2>4, <2>8, <3>2, <3>8, <4>1, <4>2 DEF Derivative
      <4>4. Within(s1, s, sound)
        BY <1>0, <3>5, <4>2, WithinKept
      <4>5. slope # NaN => s1.errors = {}
        BY <3>4, <3>8, <4>1, <4>2, SlopeNaN
      <4> QED BY <4>3, <4>4, <4>5, SuccessRight
    <3> QED BY <3>4, <3>6, <3>7, <3>8
  <2> QED BY <2>7, <2>8
<1> QED BY <1>2, <1>3

(* integrate: an area without a value is a failure with an error of its    *)
(* own.                                                                    *)
LEMMA IntegrateLaw ==
  ASSUME NEW eval, NEW d \in Int, Good(eval, d), NEW E \in SUBSET Texts, NEW t \in ExtTerms(E),
         t.f = "integrate", Len(t.args) = 3,
         NEW labels \in LabelLists, NEW s \in Shared, s.depth >= d,
         NEW sound \in BOOLEAN, sound => CallSound(t, labels.names)
  PROVE  ExtRight(Integrate(eval, t, labels, s), t, E, s, sound)
<1>0. "evaluator" \in Both /\ "parser" \in Both /\ "fatal" \in {"fatal", "nonfatal"}
  BY DEF Both
<1>1. Within(s, s, sound)
  BY DEF Within
<1>2. CASE UsesX(labels)
  <2>1. Within(Save(s, "evaluator", "fatal"), s, sound)
    BY <1>0, <1>1, WithinKept
  <2>2. Integrate(eval, t, labels, s) = Failure(t, Save(s, "evaluator", "fatal"))
    BY <1>2 DEF Integrate
  <2> QED BY <2>1, <2>2, FailureRight
<1>3. CASE ~UsesX(labels)
  <2>1. /\ t.k = "ext" /\ t.args \in Seq(Texts) /\ DOMAIN t.args = 1 .. 3
        /\ SolvedArgs(t) = {1, 2} /\ Integrands(t) = {3}
    <3>1. t.k = "ext" /\ t.args \in Seq(Texts)
      BY DEF ExtTerms
    <3>2. DOMAIN t.args = 1 .. 3
      BY <3>1
    <3>3. Integrands(t) = {3}
      BY <3>2 DEF Integrands
    <3>4. SolvedArgs(t) = {1, 2}
      BY <3>2, <3>3 DEF SolvedArgs
    <3> QED BY <3>1, <3>2, <3>3, <3>4
  <2>2. t.args[1] \in Texts /\ t.args[2] \in Texts /\ t.args[3] \in Texts
    BY <2>1
  <2>3. sound => /\ ArgumentSound(t.args[1], TRUE, labels.names)
                 /\ ArgumentSound(t.args[2], TRUE, labels.names)
                 /\ ArgumentsParse(t.args[3], <<"x">>)
    BY <2>1 DEF CallSound
  <2>4. PICK a : a = SolveE(eval, t.args[1], TRUE, labels, s)
    OBVIOUS
  <2>5. Tells(a.v, a.st) /\ Within(a.st, s, ArgumentSound(t.args[1], TRUE, labels.names))
    BY <2>2, <2>4, SolveELaw
  <2>6. Within(a.st, s, sound)
    BY <2>3, <2>5 DEF Within
  <2>7. PICK b : b = SolveE(eval, t.args[2], TRUE, labels, a.st)
    OBVIOUS
  <2>8. Tells(b.v, b.st) /\ Within(b.st, a.st, ArgumentSound(t.args[2], TRUE, labels.names))
    <3>1. a.st \in Shared /\ a.st.depth >= d
      BY <2>6 DEF Within
    <3> QED BY <2>2, <2>7, <3>1, SolveELaw
  <2>9. Within(b.st, s, sound)
    BY <2>3, <2>6, <2>8 DEF Within
  <2>10. CASE NaN \in {a.v, b.v}
    <3>1. Within(Clear(b.st, Both), s, sound)
      BY <1>0, <2>9, WithinKept
    <3>2. Integrate(eval, t, labels, s) = Failure(t, Clear(b.st, Both))
      BY <1>3, <2>4, <2>7, <2>10 DEF Integrate
    <3> QED BY <3>1, <3>2, FailureRight
  <2>11. CASE NaN \notin {a.v, b.v} /\ a.v = b.v
    <3>1. Integrate(eval, t, labels, s) = Success(t, Zero, b.st)
      BY <1>3, <2>4, <2>7, <2>11 DEF Integrate
    <3>2. Zero \in Values /\ b.st.errors = {}
      BY <2>8, <2>11 DEF Zero, Values, Numbers, Tells
    <3> QED BY <2>9, <3>1, <3>2, SuccessRight
  <2>12. CASE NaN \notin {a.v, b.v} /\ a.v # b.v
    <3>1. PICK range : range = RangeFrom(a.v, b.v)
      OBVIOUS
    <3>2. range.low \in Values /\ range.width \in Int
      <4>1. a.v \in Numbers /\ b.v \in Numbers
        BY <2>5, <2>8, <2>12 DEF Tells, Values
      <4>2. a.v[1] \in Int /\ b.v[1] \in Int
        BY <4>1 DEF Numbers
      <4> QED BY <3>1, <4>1, <4>2 DEF RangeFrom, Values
    <3>3. PICK e \in Texts, x \in Values, y \in Values :
            e = t.args[3] /\ x = range.low /\ y = Add(range.low, <<range.width, 0>>)
      <4>1. <<range.width, 0>> \in Values
        BY <3>2 DEF Values, Numbers
      <4>2. Add(range.low, <<range.width, 0>>) \in Values
        BY <3>2, <4>1, Arithmetic
      <4> QED BY <2>2, <3>2, <4>2
    <3>4. PICK o : o = AtPoints(eval, e, <<x, y>>, b.st)
      OBVIOUS
    <3>5. /\ Within(o.st, b.st, sound)
          /\ o.outcome \in {"unparsed", "random", "values"}
          /\ o.outcome = "values" =>
              /\ o.vs[1] \in Values /\ o.vs[2] \in Values
              /\ o.vs[2] # NaN => o.st.errors = {}
      <4>1. sound => ArgumentsParse(e, <<"x">>)
        BY <2>3, <3>3
      <4>2. b.st \in Shared /\ b.st.depth >= d
        BY <2>9 DEF Within
      <4> QED BY <3>4, <4>1, <4>2, AtPointsLaw
    <3>6. Within(o.st, s, sound)
      BY <2>9, <3>5, WithinFollows
    <3>7. CASE o.outcome # "values"
      <4>1. Integrate(eval, t, labels, s) = Failure(t, o.st)
        BY <1>3, <2>4, <2>7, <2>12, <3>1, <3>3, <3>4, <3>7 DEF Integrate
      <4> QED BY <3>6, <4>1, FailureRight
    <3>8. CASE o.outcome = "values"
      <4>1. PICK area \in Values : area = Add(o.vs[1], o.vs[2])
        BY <3>5, <3>8, Arithmetic
      <4>2. CASE area = NaN
        <5>1. Within(Save(o.st, "evaluator", "fatal"), s, sound)
          BY <1>0, <3>6, WithinKept
        <5>2. Integrate(eval, t, labels, s) = Failure(t, Save(o.st, "evaluator", "fatal"))
          BY <1>3, <2>4, <2>7, <2>12, <3>1, <3>3, <3>4, <3>8, <4>1, <4>2 DEF Integrate
        <5> QED BY <5>1, <5>2, FailureRight
      <4>3. CASE area # NaN
        <5>1. o.st.errors = {}
          BY <3>5, <3>8, <4>1, <4>3, Arithmetic
        <5>2. PICK v : v = IF range.width = 0 THEN NaN ELSE IF range.flip THEN Minus(area) ELSE area
          OBVIOUS
        <5>3. v \in Values
          BY <4>1, <5>2, Arithmetic DEF Values
        <5>4. Integrate(eval, t, labels, s) = Success(t, v, o.st)
          BY <1>3, <2>4, <2>7, <2>12, <3>1, <3>3, <3>4, <3>8, <4>1, <4>3, <5>2 DEF Integrate
        <5> QED BY <3>6, <5>1, <5>3, <5>4, SuccessRight
      <4> QED BY <4>2, <4>3
    <3> QED BY <3>7, <3>8
  <2> QED BY <2>10, <2>11, <2>12
<1> QED BY <1>2, <1>3

(* Every extended function is right, with any number of arguments. *)
LEMMA CallExtendedLaw ==
  ASSUME NEW eval, NEW d \in Int, Good(eval, d), NEW E \in SUBSET Texts, Seq(PlainTerms) \subseteq E,
         NEW t \in ExtTerms(E), NEW labels \in LabelLists, NEW s \in Shared, s.depth >= d,
         NEW sound \in BOOLEAN, sound => CallSound(t, labels.names)
  PROVE  ExtRight(CallExtended(eval, t, labels, s), t, E, s, sound)
<1>1. Within(s, s, sound)
  BY DEF Within
<1>2. CASE ~Accepts(t)
  <2>1. "evaluator" \in Both /\ "fatal" \in {"fatal", "nonfatal"}
    BY DEF Both
  <2>2. Within(Save(s, "evaluator", "fatal"), s, sound)
    BY <1>1, <2>1, WithinKept
  <2>3. CallExtended(eval, t, labels, s) = Failure(t, Save(s, "evaluator", "fatal"))
    BY <1>2 DEF CallExtended
  <2> QED BY <2>2, <2>3, FailureRight
<1>3. CASE Accepts(t)
  <2>1. t.f \in {"avg", "max", "min", "hex", "derivative", "integrate", "rand"}
    BY DEF ExtTerms, Extended
  <2>2. CASE t.f = "avg"
    BY <1>3, <2>2, AvgLaw DEF CallExtended
  <2>3. CASE t.f \in {"max", "min"}
    BY <1>3, <2>3, ExtremeLaw DEF CallExtended
  <2>4. CASE t.f = "hex"
    BY <1>3, <2>4, BaseNLaw DEF CallExtended, Accepts
  <2>5. CASE t.f = "derivative"
    BY <1>3, <2>5, DerivativeLaw DEF CallExtended, Accepts
  <2>6. CASE t.f = "integrate"
    BY <1>3, <2>6, IntegrateLaw DEF CallExtended, Accepts
  <2>7. CASE t.f = "rand"
    <3>1. Zero \in Values
      BY DEF Zero, Values, Numbers
    <3>2. CallExtended(eval, t, labels, s) = Success(t, Zero, s)
      BY <1>3, <2>7 DEF CallExtended
    <3> QED BY <1>1, <3>1, <3>2, SuccessRight
  <2> QED BY <2>1, <2>2, <2>3, <2>4, <2>5, <2>6, <2>7
<1> QED BY <1>2, <1>3

-----------------------------------------------------------------------------
(* The terms of an expression that nests n deep.  A term that has no value *)
(* and is not the last word (a NaN that its sum will notice) has an error. *)
TermsAt(n) == IF n = 0 THEN PlainTerms ELSE TermsOver(Exprs[n - 1])
TermRight(c, n, names, s, sound) ==
  /\ c.ok \in BOOLEAN /\ c.v \in Values /\ Within(c.st, s, sound) /\ c.t \in TermsAt(n)
  /\ c.ok /\ c.v # NaN /\ s.errors = {} => c.st.errors = {}
  /\ ~c.ok /\ AllTakeArguments => c.st.errors # {}
  /\ sound => TermSound(n, c.t, names)

(* A term that fails after what it did was right. *)
LEMMA TermFails ==
  ASSUME NEW n \in 0 .. Nesting, NEW t \in TermsAt(n), NEW names, NEW s, NEW s1,
         NEW sound \in BOOLEAN, sound => TermSound(n, t, names), Within(s1, s, sound),
         AllTakeArguments => s1.errors # {}
  PROVE  TermRight(Failure(t, s1), n, names, s, sound)
BY NaN \in Values DEF TermRight, Failure, Values

(* A term that has an answer after what it did was right. *)
LEMMA TermSucceeds ==
  ASSUME NEW n \in 0 .. Nesting, NEW t \in TermsAt(n), NEW names, NEW s, NEW s1,
         NEW sound \in BOOLEAN, sound => TermSound(n, t, names), Within(s1, s, sound),
         NEW v \in Values, v # NaN /\ s.errors = {} => s1.errors = {}
  PROVE  TermRight(Success(t, v, s1), n, names, s, sound)
BY DEF TermRight, Success

(* A call of an extended function: what it remembers is a value, and the   *)
(* memo or the argument that hex shortened leaves the term sound.          *)
LEMMA EvalExtLaw ==
  ASSUME NEW eval, NEW d \in Int, Good(eval, d), NEW n \in 1 .. Nesting,
         NEW t \in ExtTerms(Exprs[n - 1]), NEW m \in Models, NEW s \in Shared, s.depth >= d,
         NEW sound \in BOOLEAN, sound => TermSound(n, t, m.labels.names)
  PROVE  TermRight(EvalExt(eval, t, m, s), n, m.labels.names, s, sound)
<1> DEFINE E == Exprs[n - 1]
           names == m.labels.names
<1>0. "evaluator" \in Both /\ "fatal" \in {"fatal", "nonfatal"} /\ "nonfatal" \in {"fatal", "nonfatal"}
  BY DEF Both
<1>1. n \in 0 .. Nesting /\ n - 1 \in 0 .. Nesting /\ n # 0
  BY ExpressionsAssumption
<1>2. E \in SUBSET Texts /\ Seq(PlainTerms) \subseteq E
  BY <1>1, ExprsGrow
<1>3. ASSUME NEW u \in ExtTerms(E) PROVE u \in TermsAt(n) /\ u.k = "ext" /\ u.memo \in Seq(Values)
  BY <1>1 DEF TermsAt, TermsOver, ExtTerms
<1>4. ASSUME NEW u \in ExtTerms(E), u.f = "hex" \/ (u.f = t.f /\ u.args = t.args)
      PROVE  sound => TermSound(n, u, names)
  <2>1. u.k = "ext" /\ t.k = "ext"
    BY <1>3
  <2>2. CASE u.f = "hex"
    BY <2>1, <2>2 DEF TermSound, CallSound, SolvedArgs, Integrands
  <2>3. CASE u.f = t.f /\ u.args = t.args
    BY <2>1, <2>3 DEF TermSound, CallSound, SolvedArgs, Integrands
  <2> QED BY <1>4, <2>2, <2>3
<1>5. m.labels \in LabelLists
  BY DEF Models
<1>6. Within(s, s, sound)
  BY DEF Within
<1>7. CASE t.memo # <<>>
  <2>1. PICK v \in Values : v = t.memo[1]
    BY <1>3, <1>7
  <2>2. EvalExt(eval, t, m, s) = Success(t, v, s)
    BY <1>7, <2>1 DEF EvalExt
  <2> QED BY <1>1, <1>3, <1>6, <2>2, TermSucceeds
<1>8. CASE t.memo = <<>>
  <2>1. PICK c : c = CallExtended(eval, t, m.labels, s)
    OBVIOUS
  <2>2. ExtRight(c, t, E, s, sound)
    <3>1. sound => CallSound(t, m.labels.names)
      BY DEF TermSound
    <3> HIDE DEF E
    <3> QED BY <1>2, <1>5, <2>1, <3>1, CallExtendedLaw DEF E
  <2>3. c.t \in TermsAt(n) /\ (sound => TermSound(n, c.t, names)) /\ c.t \in ExtTerms(E)
    BY <1>3, <1>4, <2>2 DEF ExtRight
  <2>4. Within(c.st, s, sound) /\ c.v \in Values
    BY <2>2 DEF ExtRight
  <2>5. CASE ~c.ok
    <3>1. PICK s1 : s1 = Explain(c.st, "evaluator", "fatal")
      OBVIOUS
    <3>2. Within(s1, s, sound) /\ s1.errors # {}
      BY <1>0, <2>4, <3>1, WithinKept
    <3>3. EvalExt(eval, t, m, s) = Failure(c.t, s1)
      BY <1>8, <2>1, <2>5, <3>1 DEF EvalExt
    <3> QED BY <1>1, <2>3, <3>2, <3>3, TermFails
  <2>6. CASE c.ok /\ ~Real(c.v) /\ ~m.cmplx
    <3>1. PICK s1 : s1 = Save(c.st, "evaluator", "nonfatal")
      OBVIOUS
    <3>2. Within(s1, s, sound) /\ s1.errors # {}
      BY <1>0, <2>4, <3>1, WithinKept
    <3>3. EvalExt(eval, t, m, s) = Failure(c.t, s1)
      BY <1>8, <2>1, <2>6, <3>1 DEF EvalExt
    <3> QED BY <1>1, <2>3, <3>2, <3>3, TermFails
  <2>7. CASE c.ok /\ (Real(c.v) \/ m.cmplx)
    <3>1. PICK u : u = [c.t EXCEPT !.memo = <<c.v>>]
      OBVIOUS
    <3>2. u \in ExtTerms(E) /\ u.f = c.t.f /\ u.args = c.t.args
      <4>1. <<c.v>> \in Seq(Values)
        BY <2>4
      <4> QED BY <2>3, <3>1, <4>1 DEF ExtTerms
    <3>3. u \in TermsAt(n) /\ (sound => TermSound(n, u, names))
      BY <1>3, <1>4, <2>2, <3>2 DEF ExtRight
    <3>4. EvalExt(eval, t, m, s) = Success(u, c.v, c.st)
      BY <1>8, <2>1, <2>7, <3>1 DEF EvalExt
    <3>5. c.v # NaN /\ s.errors = {} => c.st.errors = {}
      BY <2>2, <2>7 DEF ExtRight
    <3> QED BY <1>1, <2>4, <3>3, <3>4, <3>5, TermSucceeds
  <2> QED BY <2>5, <2>6, <2>7
<1> QED BY <1>7, <1>8

(* A duplicate with new label values parses where the original does. *)
LEMMA DuplicateLaw ==
  ASSUME NEW m \in Models, NEW vs \in Seq(Values), Len(vs) = Len(m.labels.names)
  PROVE  Duplicate(m, vs) \in Models /\ (ModelSound(Duplicate(m, vs)) <=> ModelSound(m))
<1>1. m.expr \in Texts /\ m.labels \in LabelLists /\ m.cmplx \in BOOLEAN
  BY DEF Models
<1>2. m.labels.names \in Seq(LabelNames)
  BY <1>1 DEF LabelLists
<1>3. PICK env \in [LabelNames -> Values] : env = LabelEnv(m.labels.names, vs)
  BY <1>2, EnvLaw
<1>4. PICK labels \in LabelLists : labels = LabelList(m.labels.names, vs)
  <2>1. LabelList(m.labels.names, vs) \in LabelLists
    BY <1>2 DEF LabelList, LabelLists
  <2> QED BY <2>1
<1>5. Duplicate(m, vs) = [expr |-> m.expr, labels |-> labels, cmplx |-> m.cmplx, env |-> env]
  <2>1. Duplicate(m, vs) = [m EXCEPT !.labels = labels, !.env = env]
    BY <1>3, <1>4 DEF Duplicate
  <2> QED BY <2>1 DEF Models
<1>6. labels.names = m.labels.names
  BY <1>4 DEF LabelList
<1>7. PICK f : f = Duplicate(m, vs)
  OBVIOUS
<1>8. f.expr = m.expr /\ f.labels = labels
  BY <1>5, <1>7
<1>9. f \in Models
  BY <1>1, <1>5, <1>7 DEF Models
<1> QED BY <1>6, <1>7, <1>8, <1>9 DEF ModelSound

(* A call of a user function: removed, redefined with other labels,        *)
(* failing arguments, or the evaluation of its duplicate.                  *)
LEMMA EvalUserLaw ==
  ASSUME FunctionsRight, NEW eval, NEW d \in Int, Good(eval, d), NEW n \in 1 .. Nesting,
         NEW t \in UserTerms(Exprs[n - 1]), NEW m \in Models, NEW s \in Shared, s.depth >= d,
         NEW sound \in BOOLEAN, sound => TermSound(n, t, m.labels.names)
  PROVE  TermRight(EvalUser(eval, t, m, s), n, m.labels.names, s, sound)
<1> DEFINE E == Exprs[n - 1]
<1>0. "evaluator" \in Both /\ "fatal" \in {"fatal", "nonfatal"}
  BY DEF Both
<1>1. n \in 0 .. Nesting /\ n - 1 \in 0 .. Nesting /\ n # 0
  BY ExpressionsAssumption
<1>2. t.k = "user" /\ t.args \in Seq(Texts)
  <2>1. E \subseteq Texts
    BY <1>1, ExprsGrow
  <2>2. t.k = "user" /\ t.args \in Seq(E)
    BY DEF UserTerms
  <2> HIDE DEF E
  <2> QED BY <2>1, <2>2
<1>3. t \in TermsAt(n)
  <2>1. UserTerms(E) \subseteq TermsOver(E)
    BY DEF TermsOver, UserTerms
  <2> QED BY <1>1, <2>1 DEF TermsAt
<1>4. m.labels \in LabelLists
  BY DEF Models
<1>5. Within(s, s, sound)
  BY DEF Within
<1>6. CASE t.f \notin DOMAIN tab \/ Len(t.args) # Len(tab[t.f].labels.names)
  <2>1. Within(Save(s, "evaluator", "fatal"), s, sound) /\ Save(s, "evaluator", "fatal").errors # {}
    BY <1>0, <1>5, WithinKept
  <2>2. EvalUser(eval, t, m, s) = Failure(t, Save(s, "evaluator", "fatal"))
    BY <1>6 DEF EvalUser
  <2> QED BY <1>1, <1>3, <2>1, <2>2, TermFails
<1>7. CASE t.f \in DOMAIN tab /\ Len(t.args) = Len(tab[t.f].labels.names)
  <2>1. PICK a : a = SolveList(eval, t.args, FALSE, m.labels, s)
    OBVIOUS
  <2>2. ListSoFar(a, Len(t.args), s, sound)
    <3>1. sound => \A j \in DOMAIN t.args : ArgumentSound(t.args[j], FALSE, m.labels.names)
      BY <1>2 DEF TermSound, CallSound
    <3>2. PICK cmplx \in BOOLEAN : cmplx = FALSE
      OBVIOUS
    <3>3. sound => \A j \in DOMAIN t.args : ArgumentSound(t.args[j], cmplx, m.labels.names)
      BY <3>1, <3>2
    <3>4. a = SolveList(eval, t.args, cmplx, m.labels, s)
      BY <2>1, <3>2
    <3> QED BY <1>2, <1>4, <3>3, <3>4, SolveListLaw
  <2>3. CASE NaN \in ToSet(a.vs) \/ t.args = <<>>
    <3>1. EvalUser(eval, t, m, s) = Failure(t, a.st)
      BY <1>7, <2>1, <2>3 DEF EvalUser
    <3>2. AllTakeArguments => t.args # <<>>
      <4>1. tab[t.f].labels.names \in Seq(LabelNames)
        BY <1>7 DEF FunctionsRight, Models, LabelLists
      <4> QED BY <1>2, <1>7, <4>1 DEF AllTakeArguments
    <3>3. AllTakeArguments => a.st.errors # {}
      BY <2>2, <2>3, <3>2 DEF ListSoFar
    <3>4. Within(a.st, s, sound)
      BY <2>2 DEF ListSoFar
    <3> QED BY <1>1, <1>3, <3>1, <3>3, <3>4, TermFails
  <2>4. CASE NaN \notin ToSet(a.vs) /\ t.args # <<>>
    <3>1. PICK F \in Models : F = tab[t.f]
      BY <1>7 DEF FunctionsRight
    <3>2. a.vs \in Seq(Values) /\ Len(a.vs) = Len(F.labels.names) /\ Within(a.st, s, sound)
      BY <1>7, <2>2, <2>4, <3>1 DEF ListSoFar
    <3>3. PICK f : f = Duplicate(F, a.vs)
      OBVIOUS
    <3>4. f \in Models /\ (ModelSound(f) <=> ModelSound(F))
      BY <3>2, <3>3, DuplicateLaw
    <3>5. PICK r : r = eval[<<f, a.st>>]
      OBVIOUS
    <3>6. Right(r, f, a.st)
      <4>1. a.st \in Shared /\ a.st.depth >= d
        BY <3>2 DEF Within
      <4> QED BY <3>4, <3>5, <4>1 DEF Good
    <3>7. FunctionsSound => ModelSound(f)
      BY <1>7, <3>1, <3>4 DEF FunctionsSound, ModelSound
    <3>8. Within(r.st, s, sound)
      BY <3>2, <3>6, <3>7 DEF Right, Within
    <3>9. CASE r.v = NaN
      <4>1. Within(Explain(r.st, "evaluator", "fatal"), s, sound)
            /\ Explain(r.st, "evaluator", "fatal").errors # {}
        BY <1>0, <3>8, WithinKept
      <4>2. EvalUser(eval, t, m, s) = Failure(t, Explain(r.st, "evaluator", "fatal"))
        BY <1>7, <2>1, <2>4, <3>1, <3>3, <3>5, <3>9 DEF EvalUser
      <4> QED BY <1>1, <1>3, <4>1, <4>2, TermFails
    <3>10. CASE r.v # NaN
      <4>1. EvalUser(eval, t, m, s) = Success(t, r.v, r.st)
        BY <1>7, <2>1, <2>4, <3>1, <3>3, <3>5, <3>10 DEF EvalUser
      <4>2. r.v \in Values /\ r.st.errors = {}
        BY <3>6, <3>10 DEF Right, Tells
      <4> QED BY <1>1, <1>3, <3>8, <4>1, <4>2, TermSucceeds
    <3> QED BY <3>9, <3>10
  <2> QED BY <2>3, <2>4
<1> QED BY <1>6, <1>7

-----------------------------------------------------------------------------
(* Subexpressions: what is in a parenthesis, and then their operators.     *)
LevelRight(r, n, names, s, sound) ==
  /\ r.v \in Values /\ Within(r.st, s, sound) /\ r.e \in Exprs[n]
  /\ r.v # NaN /\ s.errors = {} => r.st.errors = {}
  /\ r.v = NaN /\ AllTakeArguments => r.st.errors # {}
  /\ sound => ArgumentsParseAt[n][<<r.e, names>>]
GoodLevel(inside, n, names, d) ==
  \A e \in Exprs[n] : \A s \in Shared : \A sound \in BOOLEAN :
    s.depth >= d /\ (sound => ArgumentsParseAt[n][<<e, names>>]) =>
      LevelRight(inside[<<e, s>>], n, names, s, sound)

(* A function over a parenthesis. *)
LEMMA EvalRootLaw ==
  ASSUME NEW d \in Int, NEW n \in 1 .. Nesting, NEW m \in Models,
         NEW inside, GoodLevel(inside, n - 1, m.labels.names, d),
         NEW t \in RootTerms(Exprs[n - 1]), NEW s \in Shared, s.depth >= d,
         NEW sound \in BOOLEAN, sound => TermSound(n, t, m.labels.names)
  PROVE  TermRight(EvalRoot(inside, t, m, s), n, m.labels.names, s, sound)
<1> DEFINE E == Exprs[n - 1]
<1>0. "evaluator" \in Both /\ "nonfatal" \in {"fatal", "nonfatal"}
  BY DEF Both
<1>1. n \in 0 .. Nesting /\ n - 1 \in 0 .. Nesting /\ n # 0
  BY ExpressionsAssumption
<1>2. t.k = "root" /\ t.e \in E /\ t = [k |-> t.k, e |-> t.e]
  BY DEF RootTerms
<1>3. PICK r : r = inside[<<t.e, s>>]
  OBVIOUS
<1>4. LevelRight(r, n - 1, m.labels.names, s, sound)
  <2>1. sound => ArgumentsParseAt[n - 1][<<t.e, m.labels.names>>]
    BY <1>2 DEF TermSound
  <2> QED BY <1>2, <1>3, <2>1 DEF GoodLevel
<1>5. PICK u : u = [t EXCEPT !.e = r.e]
  OBVIOUS
<1>6. u = [k |-> "root", e |-> r.e] /\ r.e \in E
  BY <1>2, <1>4, <1>5 DEF LevelRight
<1>7. u \in TermsAt(n)
  <2>1. RootTerms(E) \subseteq TermsOver(E) /\ u \in RootTerms(E)
    BY <1>6 DEF TermsOver, RootTerms
  <2> QED BY <1>1, <2>1 DEF TermsAt
<1>8. sound => TermSound(n, u, m.labels.names)
  BY <1>4, <1>6 DEF TermSound, CallSound, LevelRight
<1>9. Within(r.st, s, sound) /\ r.v \in Values
  BY <1>4 DEF LevelRight
<1>10. CASE r.v = NaN
  <2>1. EvalRoot(inside, t, m, s) = Failure(u, r.st)
    BY <1>3, <1>5, <1>10 DEF EvalRoot
  <2>2. AllTakeArguments => r.st.errors # {}
    BY <1>4, <1>10 DEF LevelRight
  <2> QED BY <1>1, <1>7, <1>8, <1>9, <2>1, <2>2, TermFails
<1>11. CASE r.v # NaN
  <2>1. PICK v \in Values : v = IF m.cmplx THEN ComplexRoot(r.v) ELSE RealRoot(r.v)
    BY RootValues
  <2>2. CASE v = NaN
    <3>1. PICK s1 : s1 = Explain(r.st, "evaluator", "nonfatal")
      OBVIOUS
    <3>2. Within(s1, s, sound) /\ s1.errors # {}
      BY <1>0, <1>9, <3>1, WithinKept
    <3>3. EvalRoot(inside, t, m, s) = Failure(u, s1)
      BY <1>3, <1>5, <1>11, <2>1, <2>2, <3>1 DEF EvalRoot
    <3> QED BY <1>1, <1>7, <1>8, <3>2, <3>3, TermFails
  <2>3. CASE v # NaN
    <3>1. EvalRoot(inside, t, m, s) = Success(u, v, r.st)
      BY <1>3, <1>5, <1>11, <2>1, <2>3 DEF EvalRoot
    <3>2. s.errors = {} => r.st.errors = {}
      BY <1>4, <1>11 DEF LevelRight
    <3> QED BY <1>1, <1>7, <1>8, <1>9, <3>1, <3>2, TermSucceeds
  <2> QED BY <2>2, <2>3
<1> QED BY <1>10, <1>11

(* Every term is right. *)
LEMMA EvalTermLaw ==
  ASSUME FunctionsRight, NEW eval, NEW d \in Int, Good(eval, d), NEW n \in 0 .. Nesting,
         NEW m \in Models, NEW inside,
         n # 0 => GoodLevel(inside, n - 1, m.labels.names, d),
         NEW t \in TermsAt(n), NEW s \in Shared, s.depth >= d,
         NEW sound \in BOOLEAN, sound => TermSound(n, t, m.labels.names)
  PROVE  TermRight(EvalTerm(eval, inside, t, m, s), n, m.labels.names, s, sound)
<1>1. \/ t \in PlainTerms /\ t.k \in {"num", "label", "overzero", "undefined", "unclosed"}
      \/ n \in 1 .. Nesting /\ t \in RootTerms(Exprs[n - 1]) /\ t.k = "root"
      \/ n \in 1 .. Nesting /\ t \in ExtTerms(Exprs[n - 1]) /\ t.k = "ext"
      \/ n \in 1 .. Nesting /\ t \in UserTerms(Exprs[n - 1]) /\ t.k = "user"
  <2>1. CASE n = 0
    BY <2>1 DEF TermsAt, PlainTerms
  <2>2. CASE n # 0
    <3>1. n \in 1 .. Nesting /\ t \in TermsOver(Exprs[n - 1])
      BY <2>2, ExpressionsAssumption DEF TermsAt
    <3> QED BY <3>1, TermKinds
  <2> QED BY <2>1, <2>2
<1>2. CASE t \in PlainTerms /\ t.k \in {"num", "label", "overzero", "undefined", "unclosed"}
  <2>1. Within(s, s, sound)
    BY DEF Within
  <2>2. t \in TermsOver({})
    BY <1>2 DEF TermsOver
  <2>3. PICK v \in Values : v = IF t.k = "num" THEN t.v
                                ELSE IF t.k = "label" THEN m.env[t.l] ELSE Zero
    <3>1. t.k = "num" => t.v \in Values
      BY <2>2, TermKinds
    <3>2. t.k = "label" => m.env[t.l] \in Values
      <4>1. t.k = "label" => t.l \in LabelNames
        BY <2>2, TermKinds
      <4>2. m.env \in [LabelNames -> Values]
        BY DEF Models
      <4> QED BY <4>1, <4>2
    <3>3. Zero \in Values
      BY DEF Zero, Values, Numbers
    <3> QED BY <3>1, <3>2, <3>3
  <2>4. EvalTerm(eval, inside, t, m, s) = Success(t, v, s)
    BY <1>2, <2>3 DEF EvalTerm
  <2> QED BY <2>1, <2>4, TermSucceeds
<1>3. CASE n \in 1 .. Nesting /\ t \in RootTerms(Exprs[n - 1]) /\ t.k = "root"
  BY <1>3, EvalRootLaw DEF EvalTerm
<1>4. CASE n \in 1 .. Nesting /\ t \in ExtTerms(Exprs[n - 1]) /\ t.k = "ext"
  BY <1>4, EvalExtLaw DEF EvalTerm
<1>5. CASE n \in 1 .. Nesting /\ t \in UserTerms(Exprs[n - 1]) /\ t.k = "user"
  BY <1>5, EvalUserLaw DEF EvalTerm
<1> QED BY <1>1, <1>2, <1>3, <1>4, <1>5

(* The expressions of a level are lists of its terms. *)
LEMMA TermsAtIs ==
  /\ \A n \in 0 .. Nesting : Exprs[n] = Seq(TermsAt(n))
<1> SUFFICES ASSUME NEW n \in 0 .. Nesting PROVE Exprs[n] = Seq(TermsAt(n))
  OBVIOUS
<1>1. CASE n = 0
  BY <1>1, ExprsIs DEF TermsAt
<1>2. CASE n # 0
  <2>1. n \in 1 .. Nesting
    BY <1>2, ExpressionsAssumption
  <2> QED BY <1>2, <2>1, ExprsIs DEF TermsAt
<1> QED BY <1>1, <1>2

(* Terms that all have a value leave no error.                             *)
Quiet(vs, s, s1) == NaN \notin ToSet(vs) /\ s.errors = {} => s1.errors = {}
SumRight(r, e, s, sound) ==
  /\ r.v \in Values /\ Within(r.st, s, sound) /\ r.e = e
  /\ r.v # NaN /\ s.errors = {} => r.st.errors = {}
  /\ r.v = NaN => r.st.errors # {}

(* The operators: a sum without a value saves an error. *)
LEMMA SumLaw ==
  ASSUME NEW e, NEW vs \in Seq(Values), NEW s, NEW s1, NEW sound \in BOOLEAN, Within(s1, s, sound),
         Quiet(vs, s, s1), NEW r, r = Sum(e, vs, s1)
  PROVE  SumRight(r, e, s, sound)
<1>0. "evaluator" \in Both /\ "fatal" \in {"fatal", "nonfatal"} /\ "nonfatal" \in {"fatal", "nonfatal"}
  BY DEF Both
<1>1. CASE OverZero \in ToSet(e)
  <2>1. r = [v |-> NaN, e |-> e, st |-> Save(s1, "evaluator", "fatal")]
    BY <1>1 DEF Sum
  <2>2. Within(Save(s1, "evaluator", "fatal"), s, sound)
        /\ Save(s1, "evaluator", "fatal").errors # {}
    BY <1>0, WithinKept
  <2> QED BY <2>1, <2>2, NaN \in Values DEF Values, SumRight
<1>2. CASE OverZero \notin ToSet(e)
  <2>1. PICK total \in Values : total = Total(vs) /\ (NaN \in ToSet(vs) => total = NaN)
    BY TotalLaw
  <2>2. PICK s2 : s2 = IF total # NaN THEN s1
                       ELSE IF Len(e) > 1 THEN Save(s1, "evaluator", "nonfatal")
                       ELSE Explain(s1, "evaluator", "nonfatal")
    OBVIOUS
  <2>3. r = [v |-> total, e |-> e, st |-> s2]
    BY <1>2, <2>1, <2>2 DEF Sum
  <2>4. /\ Within(Save(s1, "evaluator", "nonfatal"), s, sound)
        /\ Save(s1, "evaluator", "nonfatal").errors # {}
        /\ Within(Explain(s1, "evaluator", "nonfatal"), s, sound)
        /\ Explain(s1, "evaluator", "nonfatal").errors # {}
    BY <1>0, WithinKept
  <2>5. Within(s2, s, sound) /\ (total = NaN => s2.errors # {}) /\ (total # NaN => s2 = s1)
    BY <2>2, <2>4
  <2> QED BY <2>1, <2>3, <2>5 DEF Quiet, SumRight
<1> QED BY <1>1, <1>2

(* The terms evaluated so far, each put back as its evaluation left it.    *)
SumSoFar(acc, N, n, names, s, sound) ==
  /\ acc.ok \in BOOLEAN /\ acc.e \in Seq(TermsAt(n)) /\ Len(acc.e) = N
  /\ acc.vs \in Seq(Values) /\ Within(acc.st, s, sound)
  /\ acc.ok /\ NaN \notin ToSet(acc.vs) /\ s.errors = {} => acc.st.errors = {}
  /\ ~acc.ok /\ AllTakeArguments => acc.st.errors # {}
  /\ sound => \A i \in 1 .. N : TermSound(n, acc.e[i], names)

(* Replacing a term in a list of terms. *)
LEMMA TermPutBack ==
  ASSUME NEW T, NEW q \in Seq(T), NEW N \in Nat, N = Len(q), NEW i \in 1 .. N, NEW t \in T
  PROVE  LET p == [q EXCEPT ![i] = t]
         IN  p \in Seq(T) /\ Len(p) = N /\ \A j \in 1 .. N : p[j] = IF j = i THEN t ELSE q[j]
OBVIOUS

(* A subexpression, term by term. *)
LEMMA EvalSumLaw ==
  ASSUME FunctionsRight, NEW eval, NEW d \in Int, Good(eval, d), NEW n \in 0 .. Nesting,
         NEW m \in Models, NEW inside,
         n # 0 => GoodLevel(inside, n - 1, m.labels.names, d),
         NEW e \in Exprs[n], NEW s \in Shared, s.depth >= d,
         NEW sound \in BOOLEAN, sound => ArgumentsParseAt[n][<<e, m.labels.names>>]
  PROVE  LevelRight(EvalSum(eval, inside, m, e, s), n, m.labels.names, s, sound)
<1>0. PICK N \in Nat : N = Len(e) /\ DOMAIN e = 1 .. N /\ e \in Seq(TermsAt(n))
  BY TermsAtIs
<1> DEFINE names == m.labels.names
           With(acc, k, r) ==
             [ok |-> r.ok, e |-> [acc.e EXCEPT ![k] = r.t], vs |-> Append(acc.vs, r.v), st |-> r.st]
           Go(acc, k) == IF acc.ok THEN With(acc, k, EvalTerm(eval, inside, e[k], m, acc.st)) ELSE acc
           a == [ok |-> TRUE, e |-> e, vs |-> <<>>, st |-> s]
           Body(f) == [k \in 0 .. N |-> IF k = 0 THEN a ELSE Go(f[k - 1], k)]
           Set == {acc \in [ok : BOOLEAN, e : Seq(TermsAt(n)), vs : Seq(Values), st : Shared] :
                     SumSoFar(acc, N, n, names, s, sound)}
           S == [k \in 0 .. N |-> Set]
           G == [k \in 1 .. N |-> [acc \in Set |-> Go(acc, k)]]
<1>names. names \in Seq(LabelNames)
  <2>1. m.labels \in LabelLists
    BY DEF Models
  <2> QED BY <2>1 DEF LabelLists
<1>sound. sound => \A i \in 1 .. N : TermSound(n, e[i], names)
  BY <1>0, <1>names, SoundTerms
<1> HIDE DEF names
<1>1. a \in Set
  <2>1. /\ a.ok = TRUE /\ a.e = e /\ a.vs = <<>> /\ a.st = s
        /\ a \in [ok : BOOLEAN, e : Seq(TermsAt(n)), vs : Seq(Values), st : Shared]
    BY <1>0
  <2>2. Within(s, s, sound)
    BY DEF Within
  <2> HIDE DEF a
  <2>3. SumSoFar(a, N, n, names, s, sound)
    BY <1>0, <1>sound, <2>1, <2>2 DEF SumSoFar
  <2> QED BY <2>1, <2>3
<1>2. ASSUME NEW k \in 1 .. N, NEW acc \in Set PROVE Go(acc, k) \in Set
  <2>1. acc \in [ok : BOOLEAN, e : Seq(TermsAt(n)), vs : Seq(Values), st : Shared]
        /\ SumSoFar(acc, N, n, names, s, sound)
    OBVIOUS
  <2>2. CASE ~acc.ok
    BY <2>2
  <2>3. CASE acc.ok
    <3>1. PICK r : r = EvalTerm(eval, inside, e[k], m, acc.st)
      OBVIOUS
    <3>2. acc.st \in Shared /\ acc.st.depth = s.depth /\ acc.vs \in Seq(Values)
          /\ acc.e \in Seq(TermsAt(n)) /\ Len(acc.e) = N
      BY <2>1 DEF SumSoFar, Within
    <3>3. PICK t \in TermsAt(n) : t = e[k] /\ (sound => TermSound(n, t, names))
      BY <1>0, <1>sound
    <3>4. TermRight(r, n, names, acc.st, sound)
      BY <3>1, <3>2, <3>3, EvalTermLaw DEF names
    <3>5. PICK b : b = Go(acc, k)
      OBVIOUS
    <3>6. PICK e1 : e1 = [acc.e EXCEPT ![k] = r.t]
      OBVIOUS
    <3>7. b = [ok |-> r.ok, e |-> e1, vs |-> Append(acc.vs, r.v), st |-> r.st]
      BY <2>3, <3>1, <3>5, <3>6
    <3> HIDE DEF Go
    <3>8. /\ e1 \in Seq(TermsAt(n)) /\ Len(e1) = N
          /\ \A j \in 1 .. N : e1[j] = IF j = k THEN r.t ELSE acc.e[j]
      BY <3>2, <3>4, <3>6, TermPutBack DEF TermRight
    <3>9. sound => \A j \in 1 .. N : TermSound(n, e1[j], names)
      BY <2>1, <3>4, <3>8 DEF TermRight, SumSoFar
    <3>10. Within(r.st, s, sound) /\ r.ok \in BOOLEAN /\ r.v \in Values
      BY <2>1, <3>4, WithinFollows DEF TermRight, SumSoFar
    <3>11. Append(acc.vs, r.v) \in Seq(Values) /\ ToSet(Append(acc.vs, r.v)) = ToSet(acc.vs) \cup {r.v}
      BY <3>2, <3>10, ToSetAppend
    <3>12. r.ok /\ NaN \notin ToSet(Append(acc.vs, r.v)) /\ s.errors = {} => r.st.errors = {}
      BY <2>1, <2>3, <3>4, <3>11 DEF TermRight, SumSoFar
    <3>13. ~r.ok /\ AllTakeArguments => r.st.errors # {}
      BY <3>4 DEF TermRight
    <3>14. SumSoFar(b, N, n, names, s, sound)
      BY <3>7, <3>8, <3>9, <3>10, <3>11, <3>12, <3>13 DEF SumSoFar
    <3>15. b \in [ok : BOOLEAN, e : Seq(TermsAt(n)), vs : Seq(Values), st : Shared]
      BY <3>7, <3>8, <3>10, <3>11 DEF Within
    <3> QED BY <3>5, <3>14, <3>15
  <2> QED BY <2>1, <2>2, <2>3 DEF SumSoFar
<1>3. \A k \in 1 .. N : \A acc \in S[k - 1] : G[k][acc] = Go(acc, k)
  <2>1. \A k \in 1 .. N : S[k - 1] = Set /\ G[k] = [acc \in Set |-> Go(acc, k)]
    OBVIOUS
  <2> HIDE DEF S, G, Set, Go
  <2> QED BY <2>1
<1>4. \A k \in 0 .. N : S[k] = Set
  OBVIOUS
<1> HIDE DEF S, G, Go, a, Set
<1>5. PICK f : Rises(f, N, S, a, G)
  <2>1. \A k \in 1 .. N : \A acc \in S[k - 1] : G[k][acc] \in S[k]
    BY <1>2, <1>3, <1>4
  <2>2. a \in S[0]
    BY <1>1, <1>4
  <2> QED BY <2>1, <2>2, Tower
<1>6. f = Body(f)
  <2>1. ASSUME NEW k \in 0 .. N PROVE f[k] = IF k = 0 THEN a ELSE Go(f[k - 1], k)
    <3>1. CASE k # 0
      <4>1. k \in 1 .. N /\ k - 1 \in 0 .. N
        BY <3>1
      <4> QED BY <1>3, <1>5, <3>1, <4>1 DEF Rises
    <3> QED BY <1>5, <3>1 DEF Rises
  <2> QED BY <1>5, <2>1 DEF Rises
<1>7. PICK h : /\ h = Body(h)
               /\ EvalSum(eval, inside, m, e, s) =
                    IF h[N].ok THEN Sum(h[N].e, h[N].vs, h[N].st)
                    ELSE [v |-> NaN, e |-> h[N].e, st |-> h[N].st]
  <2> DEFINE Finish(all) == IF all.ok THEN Sum(all.e, all.vs, all.st)
                            ELSE [v |-> NaN, e |-> all.e, st |-> all.st]
  <2>1. EvalSum(eval, inside, m, e, s) = Finish((CHOOSE h : h = Body(h))[N])
    BY <1>0 DEF EvalSum, Go, a
  <2> HIDE DEF Body, Finish
  <2>2. PICK h : h = Body(h) /\ EvalSum(eval, inside, m, e, s) = Finish(h[N])
    BY <1>6, <2>1
  <2> QED BY <2>2 DEF Finish
<1>8. h[0] = a /\ \A k \in 1 .. N : h[k] = Go(h[k - 1], k)
  BY <1>7
<1>9. \A k \in 0 .. N : h[k] \in S[k]
  BY <1>1, <1>2, <1>4, <1>8, Climb
<1>10. PICK all \in Set : all = h[N]
  BY <1>4, <1>9
<1>11. SumSoFar(all, N, n, names, s, sound)
  BY DEF Set
<1>12. all.e \in Exprs[n] /\ (sound => ArgumentsParseAt[n][<<all.e, names>>])
  <2>1. all.e \in Exprs[n] /\ DOMAIN all.e = 1 .. N
    BY <1>11, TermsAtIs DEF SumSoFar
  <2>2. sound => \A i \in 1 .. N : TermSound(n, all.e[i], names)
    BY <1>11 DEF SumSoFar
  <2> QED BY <1>names, <2>1, <2>2, SoundTerms DEF names
<1>13. PICK r : r = EvalSum(eval, inside, m, e, s)
  OBVIOUS
<1>14. CASE ~all.ok
  <2>1. r = [v |-> NaN, e |-> all.e, st |-> all.st]
    BY <1>7, <1>10, <1>13, <1>14
  <2>2. Within(all.st, s, sound) /\ (AllTakeArguments => all.st.errors # {})
    BY <1>11, <1>14 DEF SumSoFar
  <2>3. LevelRight(r, n, names, s, sound)
    BY <1>12, <2>1, <2>2, NaN \in Values DEF LevelRight, Values
  <2> QED BY <1>13, <2>3 DEF names
<1>15. CASE all.ok
  <2>1. r = Sum(all.e, all.vs, all.st)
    BY <1>7, <1>10, <1>13, <1>15
  <2>2. /\ all.vs \in Seq(Values) /\ Within(all.st, s, sound)
        /\ NaN \notin ToSet(all.vs) /\ s.errors = {} => all.st.errors = {}
    BY <1>11, <1>15 DEF SumSoFar
  <2>3. /\ r.v \in Values /\ Within(r.st, s, sound) /\ r.e = all.e
        /\ r.v # NaN /\ s.errors = {} => r.st.errors = {}
        /\ r.v = NaN => r.st.errors # {}
    <3> PICK e1 : e1 = all.e
      OBVIOUS
    <3> PICK vs \in Seq(Values) : vs = all.vs
      BY <2>2
    <3> PICK s1 : s1 = all.st
      OBVIOUS
    <3>1. e1 = all.e /\ vs = all.vs /\ s1 = all.st
      OBVIOUS
    <3>2. Within(s1, s, sound) /\ Quiet(vs, s, s1)
      BY <2>2, <3>1 DEF Quiet
    <3>3. r = Sum(e1, vs, s1)
      BY <2>1, <3>1
    <3>4. SumRight(r, e1, s, sound)
      BY <3>2, <3>3, SumLaw
    <3> QED BY <3>1, <3>4 DEF SumRight
  <2>4. LevelRight(r, n, names, s, sound)
    BY <1>12, <2>3 DEF LevelRight
  <2> QED BY <1>13, <2>4 DEF names
<1> QED BY <1>14, <1>15

(* An expression, from its innermost parentheses outwards.                 *)
LEMMA EvalTermsLaw ==
  ASSUME FunctionsRight, NEW eval, NEW d \in Int, Good(eval, d),
         NEW m \in Models, NEW s \in Shared, s.depth >= d,
         NEW sound \in BOOLEAN, sound => ModelSound(m)
  PROVE  LevelRight(EvalTerms(eval, m, s), Nesting, m.labels.names, s, sound)
<1> DEFINE names == m.labels.names
           Level(inside, n) == [c \in Exprs[n] \X Shared |-> EvalSum(eval, inside, m, c[1], c[2])]
           Body(f) == [n \in 0 .. Nesting |-> Level(IF n = 0 THEN <<>> ELSE f[n - 1], n)]
           Ok(f, k) == f = [n \in 0 .. k |-> Level(IF n = 0 THEN <<>> ELSE f[n - 1], n)]
           T == {k \in 0 .. Nesting : \E f : Ok(f, k)}
<1>1. 0 \in T
  <2> DEFINE f == [n \in 0 .. 0 |-> Level(<<>>, n)]
  <2> HIDE DEF Level
  <2>1. Ok(f, 0)
    OBVIOUS
  <2>2. 0 \in 0 .. Nesting
    BY ExpressionsAssumption
  <2> HIDE DEF f, Ok
  <2> QED BY <2>1, <2>2
<1>2. ASSUME NEW n \in 1 .. Nesting, n - 1 \in T PROVE n \in T
  <2> HIDE DEF Level
  <2>1. PICK f : Ok(f, n - 1)
    BY <1>2
  <2> DEFINE h == [k \in 0 .. n |-> IF k = n THEN Level(f[n - 1], n) ELSE f[k]]
             g == [k \in 0 .. n |-> Level(IF k = 0 THEN <<>> ELSE h[k - 1], k)]
  <2>2. ASSUME NEW k \in 0 .. n PROVE h[k] = g[k]
    <3>1. CASE k = n
      BY <3>1, h[k - 1] = f[k - 1]
    <3>2. CASE k # n
      <4>1. k \in 0 .. n - 1 /\ h[k] = f[k] /\ (k # 0 => h[k - 1] = f[k - 1])
        BY <3>2
      <4>2. f[k] = Level(IF k = 0 THEN <<>> ELSE f[k - 1], k)
        BY <2>1, <4>1
      <4> QED BY <4>1, <4>2
    <3> QED BY <3>1, <3>2
  <2>3. h = g
    BY <2>2
  <2>4. Ok(h, n)
    BY <2>3
  <2> HIDE DEF h, Ok
  <2>5. n \in 0 .. Nesting /\ \E x : Ok(x, n)
    BY <2>4
  <2> QED BY <2>5
<1> HIDE DEF T
<1>3. 0 .. Nesting \subseteq T /\ Nesting \in 0 .. Nesting
  BY <1>1, <1>2, UpTo, ExpressionsAssumption
<1>4. PICK f : f = Body(f)
  BY <1>3 DEF T
<1>5. PICK h : h = Body(h) /\ EvalTerms(eval, m, s) = h[Nesting][<<m.expr, s>>]
  <2>1. EvalTerms(eval, m, s) = (CHOOSE h : h = Body(h))[Nesting][<<m.expr, s>>]
    BY DEF EvalTerms
  <2> HIDE DEF Body
  <2> QED BY <1>4, <2>1
<1> DEFINE U == {n \in 0 .. Nesting : GoodLevel(h[n], n, names, d)}
<1>6. ASSUME NEW n \in 0 .. Nesting, NEW inside, h[n] = Level(inside, n),
             n # 0 => GoodLevel(inside, n - 1, names, d)
      PROVE  GoodLevel(h[n], n, names, d)
  <2> SUFFICES ASSUME NEW e \in Exprs[n], NEW s0 \in Shared, NEW b \in BOOLEAN, s0.depth >= d,
                      b => ArgumentsParseAt[n][<<e, names>>]
               PROVE  LevelRight(h[n][<<e, s0>>], n, names, s0, b)
    BY DEF GoodLevel
  <2>1. h[n][<<e, s0>>] = EvalSum(eval, inside, m, e, s0)
    BY <1>6
  <2>2. LevelRight(EvalSum(eval, inside, m, e, s0), n, names, s0, b)
    BY <1>6, EvalSumLaw
  <2> QED BY <2>1, <2>2
<1>7. 0 \in U
  <2>1. 0 \in 0 .. Nesting /\ h[0] = Level(<<>>, 0)
    <3> HIDE DEF Level
    <3> QED BY <1>5, ExpressionsAssumption
  <2> HIDE DEF Level, names
  <2> QED BY <1>6, <2>1
<1>8. ASSUME NEW n \in 1 .. Nesting, n - 1 \in U PROVE n \in U
  <2>1. n \in 0 .. Nesting /\ n # 0 /\ h[n] = Level(h[n - 1], n)
    <3> HIDE DEF Level
    <3> QED BY <1>5, ExpressionsAssumption
  <2> HIDE DEF Level, names
  <2> QED BY <1>6, <1>8, <2>1
<1>9. GoodLevel(h[Nesting], Nesting, names, d)
  <2> HIDE DEF U
  <2>1. 0 .. Nesting \subseteq U
    BY <1>7, <1>8, UpTo, ExpressionsAssumption
  <2> QED BY <1>3, <2>1 DEF U
<1>10. m.expr \in Exprs[Nesting] /\ (sound => ArgumentsParseAt[Nesting][<<m.expr, names>>])
  BY DEF Models, Texts, ModelSound, ArgumentsParse
<1> QED BY <1>5, <1>9, <1>10 DEF GoodLevel

-----------------------------------------------------------------------------
(* tms_evaluate: the counter goes up on entry and down on every return.    *)
LEMMA DepthLaw ==
  ASSUME NEW s \in Shared
  PROVE  /\ Enter(s) \in Shared /\ Enter(s).depth = s.depth + 1
         /\ Enter(s).dangling = s.dangling /\ Enter(s).errors = s.errors
         /\ Leave(s) \in Shared /\ Leave(s).depth = s.depth - 1
         /\ Leave(s).dangling = s.dangling /\ Leave(s).errors = s.errors
<1>1. /\ s.depth \in Int /\ s.depth + 1 \in Int /\ s.depth - 1 \in Int
      /\ s = [errors |-> s.errors, depth |-> s.depth, dangling |-> s.dangling]
  BY DEF Shared
<1>2. /\ Enter(s) = [errors |-> s.errors, depth |-> s.depth + 1, dangling |-> s.dangling]
      /\ Leave(s) = [errors |-> s.errors, depth |-> s.depth - 1, dangling |-> s.dangling]
  BY <1>1 DEF Enter, Leave
<1> QED BY <1>1, <1>2 DEF Shared

(* tms_evaluate is right at the limit, and below it if the evaluator it    *)
(* hands on is right one call further in.                                  *)
LEMMA EvaluateWithLaw ==
  ASSUME FunctionsRight, NEW eval, NEW m \in Models, NEW s \in Shared,
         s.depth + 1 <= MaxDepth => Good(eval, s.depth + 1)
  PROVE  Right(EvaluateWith(eval, m, s), m, s)
<1>0. "evaluator" \in Both /\ "fatal" \in {"fatal", "nonfatal"}
  BY DEF Both
<1>1. PICK s1 \in Shared : s1 = Enter(s) /\ s1.depth = s.depth + 1 /\ s1.dangling = s.dangling
  BY DepthLaw
<1>2. s.depth \in Int /\ s1.depth \in Int /\ MaxDepth \in Int
  BY SolveAssumption DEF Shared
<1>3. m # None
  BY SolveAssumption
<1>4. CASE s1.depth > MaxDepth
  <2>1. PICK s2 \in Shared : /\ s2 = Save(s1, "evaluator", "fatal") /\ s2.errors # {}
                             /\ s2.depth = s1.depth /\ s2.dangling = s1.dangling
    BY <1>0, ErrorLaws
  <2>2. PICK s3 \in Shared : /\ s3 = Leave(s2) /\ s3.errors # {}
                             /\ s3.depth = s.depth /\ s3.dangling = s.dangling
    BY <1>1, <1>2, <2>1, DepthLaw
  <2>3. PICK r : r = EvaluateWith(eval, m, s)
    OBVIOUS
  <2>4. r = [v |-> NaN, m |-> m, st |-> s3]
    BY <1>1, <1>4, <2>1, <2>2, <2>3 DEF EvaluateWith
  <2>5. Right(r, m, s)
    BY <2>2, <2>4, NaN \in Values DEF Right, Tells, Within, Values
  <2> QED BY <2>3, <2>5
<1>5. CASE ~(s1.depth > MaxDepth)
  <2>1. PICK d \in Int : d = s.depth + 1 /\ s1.depth >= d /\ Good(eval, d)
    BY <1>1, <1>2, <1>5
  <2>2. PICK s2 \in Shared : /\ s2 = Clear(s1, Both) /\ s2.errors = {}
                             /\ s2.depth = s1.depth /\ s2.dangling = s1.dangling
    BY <1>0, ErrorLaws
  <2>3. PICK r : r = EvalTerms(eval, m, s2)
    OBVIOUS
  <2>4. PICK sound \in BOOLEAN : sound <=> ModelSound(m)
    OBVIOUS
  <2>5. LevelRight(r, Nesting, m.labels.names, s2, sound)
    BY <2>1, <2>2, <2>3, <2>4, EvalTermsLaw
  <2>6. r.st \in Shared /\ r.st.depth = s.depth + 1
        /\ (FunctionsSound /\ ModelSound(m) => r.st.dangling = s.dangling)
    BY <1>1, <2>2, <2>4, <2>5 DEF LevelRight, Within
  <2>7. PICK s3 \in Shared : /\ s3 = Leave(r.st) /\ s3.errors = r.st.errors
                             /\ s3.depth = s.depth /\ s3.dangling = r.st.dangling
    <3>1. PICK s4 \in Shared : s4 = r.st /\ s4.depth = s.depth + 1
      BY <2>6
    <3>2. Leave(s4).depth = s4.depth - 1
      BY DepthLaw
    <3>3. (s.depth + 1) - 1 = s.depth
      BY <1>2
    <3>4. Leave(s4).depth = s.depth
      BY <3>1, <3>2, <3>3
    <3> QED BY <3>1, <3>4, DepthLaw
  <2>8. PICK m1 : m1 = [m EXCEPT !.expr = r.e]
    OBVIOUS
  <2>9. m1 = [expr |-> r.e, labels |-> m.labels, cmplx |-> m.cmplx, env |-> m.env]
    BY <2>8 DEF Models
  <2>10. m1 \in Models /\ m1.labels = m.labels /\ m1.cmplx = m.cmplx /\ m1.expr = r.e
    BY <2>5, <2>9 DEF LevelRight, Models, Texts
  <2>11. ModelSound(m) => ModelSound(m1)
    BY <2>4, <2>5, <2>10 DEF LevelRight, ModelSound, ArgumentsParse
  <2>12. PICK x : x = EvaluateWith(eval, m, s)
    OBVIOUS
  <2>13. x = [v |-> r.v, m |-> m1, st |-> s3]
    BY <1>1, <1>3, <1>5, <2>2, <2>3, <2>7, <2>8, <2>12 DEF EvaluateWith
  <2>14. Tells(r.v, s3)
    BY <2>2, <2>5, <2>7 DEF Tells, LevelRight
  <2>15. Within(s3, s, ModelSound(m))
    BY <2>6, <2>7 DEF Within
  <2>16. Right(x, m, s)
    BY <2>10, <2>11, <2>13, <2>14, <2>15 DEF Right
  <2> QED BY <2>12, <2>16
<1> QED BY <1>4, <1>5

(* The evaluator with room for n calls in it is right n levels above the   *)
(* limit, where the one with no room is right because it returns at once.  *)
LEMMA EvaluatorsLaw ==
  ASSUME FunctionsRight
  PROVE  /\ \A n \in 0 .. MaxDepth : Good(Evaluators[n], MaxDepth - n)
         /\ \E eval : \A s \in Shared : Evaluate(None, s) = EvaluateWith(eval, None, s)
<1> DEFINE Calls == (Models \cup {None}) \X Shared
           Level(eval) == [c \in Calls |-> EvaluateWith(eval, c[1], c[2])]
           Body(f) == [n \in 0 .. MaxDepth |-> Level(IF n = 0 THEN <<>> ELSE f[n - 1])]
           Ok(f, k) == f = [n \in 0 .. k |-> Level(IF n = 0 THEN <<>> ELSE f[n - 1])]
           T == {k \in 0 .. MaxDepth : \E f : Ok(f, k)}
<1>0. MaxDepth \in Nat /\ MaxDepth > 0
  BY SolveAssumption
<1>1. 0 \in T
  <2> DEFINE f == [n \in 0 .. 0 |-> Level(<<>>)]
  <2> HIDE DEF Level
  <2>1. Ok(f, 0)
    OBVIOUS
  <2>2. 0 \in 0 .. MaxDepth
    BY <1>0
  <2> HIDE DEF f, Ok
  <2> QED BY <2>1, <2>2
<1>2. ASSUME NEW n \in 1 .. MaxDepth, n - 1 \in T PROVE n \in T
  <2> HIDE DEF Level
  <2>1. PICK f : Ok(f, n - 1)
    BY <1>2
  <2> DEFINE h == [k \in 0 .. n |-> IF k = n THEN Level(f[n - 1]) ELSE f[k]]
             g == [k \in 0 .. n |-> Level(IF k = 0 THEN <<>> ELSE h[k - 1])]
  <2>2. ASSUME NEW k \in 0 .. n PROVE h[k] = g[k]
    <3>1. CASE k = n
      BY <1>0, <3>1, h[k - 1] = f[k - 1]
    <3>2. CASE k # n
      <4>1. k \in 0 .. n - 1 /\ h[k] = f[k] /\ (k # 0 => h[k - 1] = f[k - 1])
        BY <1>0, <3>2
      <4>2. f[k] = Level(IF k = 0 THEN <<>> ELSE f[k - 1])
        BY <2>1, <4>1
      <4> QED BY <4>1, <4>2
    <3> QED BY <3>1, <3>2
  <2>3. h = g
    BY <2>2
  <2>4. Ok(h, n)
    BY <2>3
  <2> HIDE DEF h, Ok
  <2>5. n \in 0 .. MaxDepth /\ \E x : Ok(x, n)
    BY <1>0, <2>4
  <2> QED BY <2>5
<1> HIDE DEF T
<1>3. 0 .. MaxDepth \subseteq T /\ MaxDepth \in 0 .. MaxDepth
  BY <1>0, <1>1, <1>2, UpTo
<1>4. PICK f : f = Body(f)
  BY <1>3 DEF T
<1>5. Evaluators = Body(Evaluators)
  <2>1. Evaluators = CHOOSE h : h = Body(h)
    BY DEF Evaluators
  <2> HIDE DEF Body
  <2> QED BY <1>4, <2>1
<1>6. \A n \in 0 .. MaxDepth : Evaluators[n] = Level(IF n = 0 THEN <<>> ELSE Evaluators[n - 1])
  <2> HIDE DEF Level
  <2> QED BY <1>5
<1> DEFINE U == {n \in 0 .. MaxDepth : Good(Evaluators[n], MaxDepth - n)}
<1>7. ASSUME NEW n \in 0 .. MaxDepth, n # 0 => n - 1 \in U PROVE n \in U
  <2>1. PICK eval : eval = IF n = 0 THEN <<>> ELSE Evaluators[n - 1]
    OBVIOUS
  <2>2. Evaluators[n] = Level(eval)
    BY <1>6, <2>1
  <2>3. ASSUME NEW m \in Models, NEW s \in Shared, s.depth >= MaxDepth - n
        PROVE  Right(Evaluators[n][<<m, s>>], m, s)
    <3>1. s.depth \in Int
      BY DEF Shared
    <3>2. s.depth + 1 <= MaxDepth => Good(eval, s.depth + 1)
      <4>1. CASE n = 0
        BY <1>0, <2>3, <3>1, <4>1
      <4>2. CASE n # 0
        <5>1. Good(eval, MaxDepth - (n - 1))
          BY <1>7, <2>1, <4>2
        <5>2. s.depth + 1 >= MaxDepth - (n - 1)
          BY <1>0, <2>3, <3>1
        <5>3. \A s1 \in Shared : s1.depth >= s.depth + 1 => s1.depth >= MaxDepth - (n - 1)
          <6> SUFFICES ASSUME NEW s1 \in Shared, s1.depth >= s.depth + 1
                       PROVE  s1.depth >= MaxDepth - (n - 1)
            OBVIOUS
          <6>1. s1.depth \in Int
            BY DEF Shared
          <6> QED BY <1>0, <3>1, <5>2, <6>1
        <5> QED BY <5>1, <5>3 DEF Good
      <4> QED BY <4>1, <4>2
    <3>3. Evaluators[n][<<m, s>>] = EvaluateWith(eval, m, s)
      BY <2>2
    <3> QED BY <3>2, <3>3, EvaluateWithLaw
  <2> QED BY <2>3 DEF Good
<1> HIDE DEF U
<1>8. 0 .. MaxDepth \subseteq U
  <2>1. 0 \in U
    BY <1>0, <1>7
  <2>2. \A n \in 1 .. MaxDepth : n - 1 \in U => n \in U
    BY <1>0, <1>7
  <2> QED BY <1>0, <2>1, <2>2, UpTo
<1>9. PICK eval : Evaluators[MaxDepth] = Level(eval)
  <2> HIDE DEF Level
  <2>1. PICK eval : eval = IF MaxDepth = 0 THEN <<>> ELSE Evaluators[MaxDepth - 1]
    OBVIOUS
  <2> QED BY <1>3, <1>6, <2>1
<1>10. \A s \in Shared : Evaluate(None, s) = EvaluateWith(eval, None, s)
  BY <1>9 DEF Evaluate, Evaluator
<1> QED BY <1>8, <1>10 DEF U

(* So tms_evaluate is right whatever the depth it is called at. *)
LEMMA EvaluateLaw ==
  ASSUME FunctionsRight, NEW m \in Models, NEW s \in Shared, s.depth >= 0
  PROVE  Right(Evaluate(m, s), m, s)
<1>1. Good(Evaluators[MaxDepth], MaxDepth - MaxDepth) /\ MaxDepth - MaxDepth = 0
  BY EvaluatorsLaw, SolveAssumption
<1> QED BY <1>1 DEF Good, Evaluate, Evaluator

(* An expression that was not parsed.                                      *)
LEMMA EvaluateNone ==
  ASSUME FunctionsRight, NEW s \in Shared, s.depth = 0
  PROVE  /\ Evaluate(None, s).v = NaN /\ Evaluate(None, s).st \in Shared
         /\ Evaluate(None, s).st.depth = 0 /\ Evaluate(None, s).st.dangling = s.dangling
<1>0. "evaluator" \in Both /\ "fatal" \in {"fatal", "nonfatal"}
  BY DEF Both
<1>1. PICK eval : Evaluate(None, s) = EvaluateWith(eval, None, s)
  BY EvaluatorsLaw
<1>2. PICK s1 \in Shared : s1 = Enter(s) /\ s1.depth = 1 /\ s1.dangling = s.dangling
  BY DepthLaw
<1>3. ~(s1.depth > MaxDepth)
  BY <1>2, SolveAssumption
<1>4. PICK s2 \in Shared : s2 = Clear(s1, Both) /\ s2.depth = 1 /\ s2.dangling = s.dangling
  BY <1>0, <1>2, ErrorLaws
<1>5. PICK s3 \in Shared : s3 = Leave(s2) /\ s3.depth = 0 /\ s3.dangling = s.dangling
  BY <1>4, DepthLaw
<1>6. EvaluateWith(eval, None, s) = [v |-> NaN, m |-> None, st |-> s3]
  BY <1>2, <1>3, <1>4, <1>5 DEF EvaluateWith
<1> QED BY <1>1, <1>5, <1>6

-----------------------------------------------------------------------------
(* tms_solve: what it leaves is what it found, without errors of its own.  *)
Solves(r, e) ==
  /\ r.st \in Shared /\ r.st.depth = 0
  /\ FunctionsSound /\ ArgumentsParse(e, <<>>) => r.st.dangling = st.dangling
  /\ r.st.errors \subseteq st.errors \/ (r.v = NaN /\ RefusedAsReal(e))

(* An evaluation whose errors are printed if it has no value.              *)
LEMMA PrintLaw ==
  ASSUME FunctionsRight, NEW m \in Models, NEW s \in Shared, s.depth = 0,
         NEW r, r = PrintIfNaN(Evaluate(m, s))
  PROVE  /\ r.st \in Shared /\ r.st.depth = 0 /\ r.st.errors = {}
         /\ FunctionsSound /\ ModelSound(m) => r.st.dangling = s.dangling
<1>0. "evaluator" \in Both /\ "fatal" \in {"fatal", "nonfatal"}
  BY DEF Both
<1>1. PICK x : x = Evaluate(m, s)
  OBVIOUS
<1>2. Right(x, m, s)
  BY <1>1, EvaluateLaw
<1>3. PICK s1 \in Shared : s1 = x.st /\ s1.depth = 0
  BY <1>2 DEF Right, Within
<1>4. PICK s2 \in Shared : s2 = IF x.v = NaN THEN Clear(s1, Both) ELSE s1
  BY <1>0, <1>3, ErrorLaws
<1>5. s2.errors = {} /\ s2.depth = 0 /\ s2.dangling = s1.dangling
  BY <1>0, <1>2, <1>3, <1>4, ErrorLaws DEF Right, Tells
<1>6. r = [v |-> x.v, st |-> s2]
  BY <1>1, <1>3, <1>4 DEF PrintIfNaN, Printed, Answer
<1> QED BY <1>2, <1>3, <1>5, <1>6 DEF Right, Within

(* The empty list of labels. *)
LEMMA NoLabelsLaw == NoLabels \in LabelLists /\ NoLabels.names = <<>>
<1>1. NoLabels = [names |-> <<>>, payload |-> <<>>] /\ Len(<<>>) = 0
  BY DEF NoLabels, LabelList
<1> QED BY <1>1 DEF LabelLists

(* The parser on a text without labels. *)
LEMMA TextParsed ==
  ASSUME NEW e \in Texts, NEW cmplx \in BOOLEAN, NEW s \in Shared, s.depth = 0,
         NEW p, p = Parse(e, cmplx, NoLabels, s)
  PROVE  /\ p.m = None \/ (p.m \in Models /\ (ArgumentsParse(e, <<>>) => ModelSound(p.m)))
         /\ p.st \in Shared /\ p.st.depth = 0 /\ p.st.dangling = s.dangling
         /\ p.m = None => Clear(p.st, {"parser"}) = Clear(s, {"parser"})
<1>1. /\ p.m = None \/ ParsedFrom(p.m, e, cmplx, NoLabels)
      /\ p.st \in Shared /\ p.st.depth = s.depth /\ p.st.dangling = s.dangling
      /\ p.m = None => Clear(p.st, {"parser"}) = Clear(s, {"parser"})
  BY NoLabelsLaw, ParseLaw
<1> QED BY <1>1, NoLabelsLaw DEF ParsedFrom, ModelSound

(* tms_solve on a text that is taken for complex. *)
LEMMA SolveComplexLaw ==
  ASSUME FunctionsRight, st \in Shared, st.depth = 0, NEW e \in Texts
  PROVE  Solves(SolveComplex(Evaluator, e, st), e)
<1>0. "evaluator" \in Both /\ "fatal" \in {"fatal", "nonfatal"}
  BY DEF Both
<1>1. PICK yes \in BOOLEAN : yes = TRUE
  OBVIOUS
<1>2. PICK p : p = Parse(e, yes, NoLabels, st)
  OBVIOUS
<1>3. /\ p.m = None \/ (p.m \in Models /\ (ArgumentsParse(e, <<>>) => ModelSound(p.m)))
      /\ p.st \in Shared /\ p.st.depth = 0 /\ p.st.dangling = st.dangling
  BY <1>2, TextParsed
<1>4. PICK s1 \in Shared : /\ s1 = Clear(p.st, {"parser"}) /\ s1.depth = 0
                           /\ s1.dangling = st.dangling
  BY <1>0, <1>3, ErrorLaws
<1>5. CASE p.m = None
  <2>1. PICK x : x = Evaluate(None, s1)
    OBVIOUS
  <2>2. /\ x.v = NaN /\ x.st \in Shared /\ x.st.depth = 0 /\ x.st.dangling = st.dangling
    BY <1>4, <2>1, EvaluateNone
  <2>3. PICK s2 \in Shared : /\ s2 = Clear(x.st, Both) /\ s2.depth = 0 /\ s2.errors = {}
                             /\ s2.dangling = st.dangling
    BY <1>0, <2>2, ErrorLaws
  <2>4. SolveComplex(Evaluator, e, st) = [v |-> NaN, st |-> s2]
    BY <1>1, <1>2, <1>4, <1>5, <2>1, <2>2, <2>3 DEF SolveComplex, PrintIfNaN, Printed, Answer, Evaluate
  <2> QED BY <2>3, <2>4 DEF Solves
<1>6. CASE p.m # None
  <2>1. SolveComplex(Evaluator, e, st) = PrintIfNaN(Evaluate(p.m, p.st))
    BY <1>1, <1>2, <1>6 DEF SolveComplex, Evaluate
  <2>2. PICK r : r = PrintIfNaN(Evaluate(p.m, p.st))
    OBVIOUS
  <2>3. /\ r.st \in Shared /\ r.st.depth = 0 /\ r.st.errors = {}
        /\ FunctionsSound /\ ModelSound(p.m) => r.st.dangling = p.st.dangling
    BY <1>3, <1>6, <2>2, PrintLaw
  <2>4. Solves(r, e)
    BY <1>3, <1>6, <2>3 DEF Solves
  <2> QED BY <2>1, <2>2, <2>4
<1> QED BY <1>5, <1>6

(* tms_solve on any other text, over its two parses and two evaluations. *)
LEMMA SolveRealLaw ==
  ASSUME FunctionsRight, st \in Shared, st.depth = 0, NEW e \in Texts, ~LikelyComplex(e)
  PROVE  Solves(SolveReal(Evaluator, e, st), e)
<1>0. "evaluator" \in Both /\ "fatal" \in {"fatal", "nonfatal"}
  BY DEF Both
<1>1. PICK yes \in BOOLEAN, no \in BOOLEAN : yes = TRUE /\ no = FALSE
  OBVIOUS
<1>2. PICK p : p = Parse(e, no, NoLabels, st)
  OBVIOUS
<1>3. /\ p.m = None \/ (p.m \in Models /\ (ArgumentsParse(e, <<>>) => ModelSound(p.m)))
      /\ p.st \in Shared /\ p.st.depth = 0 /\ p.st.dangling = st.dangling
      /\ p.m = None => Clear(p.st, {"parser"}) = Clear(st, {"parser"})
  BY <1>2, TextParsed
<1>4. CASE p.m # None
  <2>1. PICK x : x = Evaluate(p.m, p.st)
    OBVIOUS
  <2>2. Right(x, p.m, p.st)
    BY <1>3, <1>4, <2>1, EvaluateLaw
  <2>3. x.st \in Shared /\ x.st.depth = 0
        /\ (FunctionsSound /\ ArgumentsParse(e, <<>>) => x.st.dangling = st.dangling)
    BY <1>3, <1>4, <2>2 DEF Right, Within
  <2>4. PICK s1 \in Shared : /\ s1 = Clear(x.st, Both) /\ s1.depth = 0 /\ s1.errors = {}
                             /\ s1.dangling = x.st.dangling
    BY <1>0, <2>3, ErrorLaws
  <2>5. CASE x.v # NaN
    <3>1. SolveReal(Evaluator, e, st) = [v |-> x.v, st |-> x.st]
      BY <1>1, <1>2, <1>4, <2>1, <2>5 DEF SolveReal, Answer, Evaluate
    <3>2. x.st.errors = {}
      BY <2>2, <2>5 DEF Right, Tells
    <3> QED BY <2>3, <3>1, <3>2 DEF Solves
  <2>6. CASE x.v = NaN /\ Fatal(x.st, Both)
    <3>1. SolveReal(Evaluator, e, st) = [v |-> NaN, st |-> s1]
      BY <1>1, <1>2, <1>4, <2>1, <2>4, <2>6 DEF SolveReal, Answer, Printed, Evaluate
    <3> QED BY <2>3, <2>4, <3>1 DEF Solves
  <2>7. CASE x.v = NaN /\ ~Fatal(x.st, Both)
    <3>1. PICK m \in Models : m = ToComplex(x.m) /\ (ModelSound(x.m) => ModelSound(m))
      <4>1. PICK m0 \in Models : m0 = x.m
        BY <2>2 DEF Right
      <4>2. PICK m : m = ToComplex(m0)
        OBVIOUS
      <4>3. m = [expr |-> m0.expr, labels |-> m0.labels, cmplx |-> TRUE, env |-> m0.env]
        BY <4>2 DEF ToComplex, Models
      <4>4. m \in Models /\ m.expr = m0.expr /\ m.labels = m0.labels
        BY <4>3 DEF Models
      <4> QED BY <4>1, <4>2, <4>4 DEF ModelSound
    <3>2. PICK r : r = PrintIfNaN(Evaluate(m, s1))
      OBVIOUS
    <3>3. SolveReal(Evaluator, e, st) = r
      BY <1>1, <1>2, <1>4, <2>1, <2>4, <2>7, <3>1, <3>2 DEF SolveReal, RetryComplex, Evaluate
    <3>4. /\ r.st \in Shared /\ r.st.depth = 0 /\ r.st.errors = {}
          /\ FunctionsSound /\ ModelSound(m) => r.st.dangling = s1.dangling
      BY <2>4, <3>2, PrintLaw
    <3>5. ArgumentsParse(e, <<>>) => ModelSound(m)
      BY <1>3, <1>4, <2>2, <3>1 DEF Right
    <3>6. Solves(r, e)
      BY <2>3, <2>4, <3>4, <3>5 DEF Solves
    <3> QED BY <3>3, <3>6
  <2> QED BY <2>5, <2>6, <2>7
<1>5. CASE p.m = None
  <2>1. PICK s1 \in Shared : /\ s1 = Clear(p.st, {"parser"}) /\ s1.depth = 0
                             /\ s1.dangling = st.dangling /\ s1.errors \subseteq st.errors
    <3>1. Clear(st, {"parser"}).errors \subseteq st.errors
      BY <1>0, ErrorLaws
    <3>2. /\ Clear(p.st, {"parser"}) \in Shared /\ Clear(p.st, {"parser"}).depth = p.st.depth
          /\ Clear(p.st, {"parser"}).dangling = p.st.dangling
      BY <1>0, <1>3, ErrorLaws
    <3> QED BY <1>3, <1>5, <3>1, <3>2
  <2>2. CASE Fatal(p.st, {"parser"})
    <3>1. SolveReal(Evaluator, e, st) = [v |-> NaN, st |-> s1]
      BY <1>1, <1>2, <1>5, <2>1, <2>2 DEF SolveReal, Answer, Printed, Evaluate
    <3> QED BY <2>1, <3>1 DEF Solves
  <2>3. CASE ~Fatal(p.st, {"parser"})
    <3>1. PICK q : q = Parse(e, yes, NoLabels, s1)
      OBVIOUS
    <3>2. /\ q.m = None \/ (q.m \in Models /\ (ArgumentsParse(e, <<>>) => ModelSound(q.m)))
          /\ q.st \in Shared /\ q.st.depth = 0 /\ q.st.dangling = st.dangling
          /\ q.m = None => Clear(q.st, {"parser"}) = Clear(s1, {"parser"})
      BY <2>1, <3>1, TextParsed
    <3>3. CASE q.m = None
      <4>1. PICK s2 \in Shared : /\ s2 = Clear(q.st, {"parser"}) /\ s2.depth = 0
                                 /\ s2.dangling = st.dangling /\ s2.errors \subseteq st.errors
        <5>1. Clear(s1, {"parser"}).errors \subseteq s1.errors
          BY <1>0, ErrorLaws
        <5>2. /\ Clear(q.st, {"parser"}) \in Shared /\ Clear(q.st, {"parser"}).depth = q.st.depth
              /\ Clear(q.st, {"parser"}).dangling = q.st.dangling
          BY <1>0, <3>2, ErrorLaws
        <5> QED BY <2>1, <3>2, <3>3, <5>1, <5>2
      <4>2. SolveReal(Evaluator, e, st) = [v |-> NaN, st |-> s2]
        BY <1>1, <1>2, <1>5, <2>1, <2>3, <3>1, <3>3, <4>1 DEF SolveReal, Answer, Printed, Evaluate
      <4> QED BY <4>1, <4>2 DEF Solves
    <3>4. CASE q.m # None
      <4>1. PICK x : x = Evaluate(q.m, q.st)
        OBVIOUS
      <4>2. Right(x, q.m, q.st)
        BY <3>2, <3>4, <4>1, EvaluateLaw
      <4>3. SolveReal(Evaluator, e, st) = [v |-> x.v, st |-> x.st]
        BY <1>1, <1>2, <1>5, <2>1, <2>3, <3>1, <3>4, <4>1 DEF SolveReal, Answer, Printed, Evaluate
      <4>4. RefusedAsReal(e)
        BY <1>1, <1>2, <1>5 DEF RefusedAsReal
      <4>5. x.v # NaN => x.st.errors = {}
        BY <4>2 DEF Right, Tells
      <4>6. x.st \in Shared /\ x.st.depth = 0
            /\ (FunctionsSound /\ ArgumentsParse(e, <<>>) => x.st.dangling = st.dangling)
        BY <3>2, <3>4, <4>2 DEF Right, Within
      <4> QED BY <4>3, <4>4, <4>5, <4>6 DEF Solves
    <3> QED BY <3>3, <3>4
  <2> QED BY <2>2, <2>3
<1> QED BY <1>4, <1>5

(* So tms_solve keeps what it shares with its caller. *)
LEMMA SolveTextLaw ==
  ASSUME FunctionsRight, st \in Shared, st.depth = 0, NEW e \in Texts
  PROVE  Solves(SolveText(Evaluator, e, st), e)
BY SolveComplexLaw, SolveRealLaw DEF SolveText

-----------------------------------------------------------------------------
(* The inductive invariant.  That labels are kept rests on what callers    *)
(* see to: every argument in a stored expression parses where it will be   *)
(* solved, which no evaluation changes.                                    *)
Kept == TypeOK /\ DepthPutBack
Whole == LabelsKept /\ ModelsSound
IInv == Kept /\ (Careful => Whole)

(* What evaluations rest on. *)
LEMMA KeptRight ==
  ASSUME Kept PROVE FunctionsRight /\ st \in Shared /\ st.depth = 0
BY DEF Kept, TypeOK, DepthPutBack, FunctionsRight

(* A list of labels without values. *)
LEMMA EmptyList ==
  ASSUME NEW names \in Seq(LabelNames)
  PROVE  LabelList(names, <<>>) \in LabelLists /\ LabelList(names, <<>>).names = names
<1>1. PICK payload \in Seq(Values) : payload = <<>> /\ Len(payload) = 0
  <2>1. <<>> \in Seq(Values) /\ Len(<<>>) = 0
    OBVIOUS
  <2> QED BY <2>1
<1>2. PICK l : l = LabelList(names, payload)
  OBVIOUS
<1>3. l = [names |-> names, payload |-> payload]
  BY <1>2 DEF LabelList
<1>4. l \in [names : Seq(LabelNames), payload : Seq(Values)] /\ Len(l.payload) = 0 /\ l.names = names
  BY <1>1, <1>3
<1>5. l \in LabelLists
  BY <1>4 DEF LabelLists
<1> QED BY <1>1, <1>2, <1>4, <1>5

(* What parses depends on the user functions, and only on them.            *)
ArgumentsLaw ==
  \A n \in 0 .. Nesting : \A e \in Exprs[n] : \A names \in Seq(LabelNames) :
    ArgumentsParseAt[n][<<e, names>>] <=>
      \A i \in DOMAIN e : TermParses(ArgumentsParseAt[n - 1], e[i], names)

(* (It is a law of every state, so it holds before and after a step.) *)
LEMMA ArgumentsLawHolds == ArgumentsLaw
BY ArgumentsIs DEF ArgumentsLaw

(* A step that leaves the functions alone leaves alone what parses. *)
LEMMA ArgumentsKept ==
  ASSUME tab' = tab, NEW e \in Texts, NEW names \in Seq(LabelNames)
  PROVE  ArgumentsParse(e, names) => ArgumentsParse(e, names)'
<1>1. ArgumentsLaw /\ ArgumentsLaw'
  BY ArgumentsLawHolds, PTL
<1>2. ASSUME NEW a, NEW c, NEW l PROVE Parses(a, c, l)' <=> Parses(a, c, l)
  BY DEF Parses, Rejected
<1>3. PICK A : A = ArgumentsParseAt
  OBVIOUS
<1>4. PICK B : B = ArgumentsParseAt'
  OBVIOUS
<1> DEFINE Same(n) == \A x \in Exprs[n] : \A l \in Seq(LabelNames) :
                        A[n][<<x, l>>] <=> B[n][<<x, l>>]
           T == {n \in 0 .. Nesting : Same(n)}
<1>5. ASSUME NEW n \in 0 .. Nesting, NEW x \in Exprs[n], NEW l \in Seq(LabelNames)
      PROVE  /\ A[n][<<x, l>>] <=> \A i \in DOMAIN x : TermParses(A[n - 1], x[i], l)
             /\ B[n][<<x, l>>] <=> \A i \in DOMAIN x : TermParses(B[n - 1], x[i], l)
  <2>1. A[n][<<x, l>>] <=> \A i \in DOMAIN x : TermParses(A[n - 1], x[i], l)
    BY <1>1, <1>3 DEF ArgumentsLaw
  <2>2. ASSUME NEW F, NEW i \in DOMAIN x
        PROVE  TermParses(F, x[i], l)' <=> TermParses(F, x[i], l)
    BY <1>2 DEF TermParses, Solvable
  <2>3. B[n][<<x, l>>] <=> \A i \in DOMAIN x : TermParses(B[n - 1], x[i], l)'
    BY <1>1, <1>4 DEF ArgumentsLaw
  <2> QED BY <2>1, <2>2, <2>3
<1>6. 0 \in T
  <2>1. ASSUME NEW x \in Exprs[0], NEW i \in DOMAIN x, NEW F, NEW l PROVE TermParses(F, x[i], l)
    <3>1. x[i] \in PlainTerms
      BY ExprsIs
    <3> QED BY <3>1 DEF TermParses, PlainTerms
  <2> QED BY <1>5, <2>1, ExpressionsAssumption
<1>7. ASSUME NEW n \in 1 .. Nesting, n - 1 \in T PROVE n \in T
  <2> SUFFICES ASSUME NEW x \in Exprs[n], NEW l \in Seq(LabelNames)
               PROVE  A[n][<<x, l>>] <=> B[n][<<x, l>>]
    BY ExpressionsAssumption
  <2> DEFINE E == Exprs[n - 1]
  <2>1. \A a \in E : \A k \in Seq(LabelNames) : A[n - 1][<<a, k>>] <=> B[n - 1][<<a, k>>]
    BY <1>7
  <2>2. n \in 0 .. Nesting /\ x \in Seq(TermsOver(E))
    BY ExprsIs, ExpressionsAssumption
  <2>3. ASSUME NEW i \in DOMAIN x
        PROVE  TermParses(A[n - 1], x[i], l) <=> TermParses(B[n - 1], x[i], l)
    <3> HIDE DEF E
    <3>1. PICK t \in TermsOver(E) : t = x[i]
      BY <2>2
    <3>2. /\ t.k = "root" => t.e \in E
          /\ t.k \in {"ext", "user"} => t.args \in Seq(E)
      BY TermKinds
    <3>3. <<"x">> \in Seq(LabelNames)
      BY ExpressionsAssumption
    <3>4. t.k \in {"ext", "user"} =>
            \A j \in DOMAIN t.args :
              /\ \A c : Solvable(A[n - 1], t.args[j], c, l) <=> Solvable(B[n - 1], t.args[j], c, l)
              /\ A[n - 1][<<t.args[j], <<"x">>>>] <=> B[n - 1][<<t.args[j], <<"x">>>>]
      <4> SUFFICES ASSUME t.k \in {"ext", "user"}, NEW j \in DOMAIN t.args
                   PROVE  LET y == t.args[j]
                          IN  /\ \A c : Solvable(A[n - 1], y, c, l) <=> Solvable(B[n - 1], y, c, l)
                              /\ A[n - 1][<<y, <<"x">>>>] <=> B[n - 1][<<y, <<"x">>>>]
        OBVIOUS
      <4>1. PICK y \in E : y = t.args[j]
        BY <3>2
      <4>2. /\ A[n - 1][<<y, l>>] <=> B[n - 1][<<y, l>>]
            /\ A[n - 1][<<y, <<"x">>>>] <=> B[n - 1][<<y, <<"x">>>>]
        BY <2>1, <3>3
      <4> QED BY <4>1, <4>2 DEF Solvable
    <3>5. SolvedArgs(t) \subseteq DOMAIN t.args /\ Integrands(t) \subseteq DOMAIN t.args
      BY DEF SolvedArgs, Integrands
    <3>6. t.k = "root" => (A[n - 1][<<t.e, l>>] <=> B[n - 1][<<t.e, l>>])
      BY <2>1, <3>2
    <3> QED BY <3>1, <3>4, <3>5, <3>6 DEF TermParses
  <2> QED BY <1>5, <2>2, <2>3
<1> HIDE DEF T
<1>8. Nesting \in T
  <2>1. 0 .. Nesting \subseteq T
    BY <1>6, <1>7, UpTo, ExpressionsAssumption
  <2> QED BY <2>1, ExpressionsAssumption
<1> QED BY <1>3, <1>4, <1>8 DEF T, ArgumentsParse, Texts

(* So what is stored stays sound as long as it and they stay.              *)
LEMMA StoredStays ==
  ASSUME Kept, Kept', Whole, tab' = tab, st'.dangling = st.dangling,
         held' # None => /\ held # None
                         /\ ArgumentsParse(held'.m.expr, held'.m.labels.names)
  PROVE  Whole'
<1>1. ASSUME NEW f \in DOMAIN tab' PROVE ArgumentsParse(tab[f].expr, tab[f].labels.names)'
  <2>1. PICK F \in Models : F = tab[f] /\ F = tab'[f] /\ ArgumentsParse(F.expr, F.labels.names)
    BY DEF Kept, TypeOK, Whole, ModelsSound
  <2>2. PICK e \in Texts, names \in Seq(LabelNames) : e = F.expr /\ names = F.labels.names
    BY DEF Models, LabelLists
  <2>3. ArgumentsParse(e, names)'
    BY <2>1, <2>2, ArgumentsKept
  <2> QED BY <2>1, <2>2, <2>3
<1>2. ASSUME held' # None PROVE ArgumentsParse(held.m.expr, held.m.labels.names)'
  <2>1. PICK m \in Models : m = held'.m /\ ArgumentsParse(m.expr, m.labels.names)
    BY <1>2 DEF Kept, TypeOK
  <2>2. PICK e \in Texts, names \in Seq(LabelNames) : e = m.expr /\ names = m.labels.names
    BY DEF Models, LabelLists
  <2>3. ArgumentsParse(e, names)'
    BY <2>1, <2>2, ArgumentsKept
  <2> QED BY <2>1, <2>2, <2>3
<1> QED BY <1>1, <1>2 DEF Whole, LabelsKept, ModelsSound

(* The steps, one by one. A definition parses, and deletes no labels but   *)
(* its own.                                                                *)
LEMMA DefineFunctionKeeps ==
  ASSUME Kept, NEW f \in Names, NEW b \in Bodies, DefineFunction(f, b)
  PROVE  Kept' /\ st'.dangling = st.dangling
<1>0. "parser" \in Both /\ "fatal" \in {"fatal", "nonfatal"}
  BY DEF Both
<1>1. PICK yes \in BOOLEAN : yes = TRUE
  OBVIOUS
<1>2. b.names \in Seq(LabelNames) /\ b.body \in Texts /\ b = [names |-> b.names, body |-> b.body]
  BY SolveAssumption
<1>3. PICK labels \in LabelLists : labels = LabelList(b.names, <<>>) /\ labels.names = b.names
  BY <1>2, EmptyList
<1>4. PICK p : p = Parse(b.body, yes, labels, st)
  OBVIOUS
<1>5. /\ p.m = None \/ ParsedFrom(p.m, b.body, yes, labels)
      /\ p.st \in Shared /\ p.st.depth = 0 /\ p.st.dangling = st.dangling
  BY <1>2, <1>4, ParseLaw, KeptRight
<1>6. /\ st' = IF p.m # None /\ Circular(f, b) THEN Save(p.st, "parser", "fatal") ELSE p.st
      /\ \/ tab' = tab
         \/ p.m # None /\ tab' = [g \in DOMAIN tab \cup {f} |-> IF g = f THEN p.m ELSE tab[g]]
      /\ held' = held
  BY <1>1, <1>3, <1>4 DEF DefineFunction
<1>7. st' \in Shared /\ st'.depth = 0 /\ st'.dangling = st.dangling
  BY <1>0, <1>5, <1>6, ErrorLaws
<1>8. CASE tab' = tab
  BY <1>6, <1>7, <1>8 DEF Kept, TypeOK, DepthPutBack
<1>9. CASE p.m # None /\ tab' = [g \in DOMAIN tab \cup {f} |-> IF g = f THEN p.m ELSE tab[g]]
  <2>1. /\ p.m \in Models /\ p.m.cmplx
        /\ [names |-> p.m.labels.names, body |-> p.m.expr] \in Bodies
    BY <1>1, <1>2, <1>3, <1>5, <1>9 DEF ParsedFrom
  <2>2. DOMAIN tab' = DOMAIN tab \cup {f} /\ \A g \in DOMAIN tab' : tab'[g] = IF g = f THEN p.m ELSE tab[g]
    BY <1>9
  <2>3. /\ DOMAIN tab' \subseteq Names
        /\ \A g \in DOMAIN tab' :
             /\ tab'[g] \in Models /\ tab'[g].cmplx
             /\ [names |-> tab'[g].labels.names, body |-> tab'[g].expr] \in Bodies
    BY <2>1, <2>2 DEF Kept, TypeOK
  <2> QED BY <1>6, <1>7, <2>3 DEF Kept, TypeOK, DepthPutBack
<1> QED BY <1>6, <1>8, <1>9

(* A removal touches the table only. *)
LEMMA RemoveFunctionKeeps ==
  ASSUME Kept, NEW f \in Names, RemoveFunction(f)
  PROVE  Kept' /\ st'.dangling = st.dangling
<1>1. tab' = [g \in DOMAIN tab \ {f} |-> tab[g]] /\ st' = st /\ held' = held
  BY DEF RemoveFunction
<1>2. DOMAIN tab' \subseteq DOMAIN tab /\ \A g \in DOMAIN tab' : tab'[g] = tab[g]
  BY <1>1
<1> QED BY <1>1, <1>2 DEF Kept, TypeOK, DepthPutBack

(* A call of tms_solve. *)
LEMMA TmsSolveKeeps ==
  ASSUME Kept, NEW e \in Solved, TmsSolve(e)
  PROVE  /\ Kept' /\ (Careful /\ Whole => Whole')
         /\ st'.errors \subseteq st.errors \/ (last'.v = NaN /\ RefusedAsReal(e))
<1>1. PICK r : r = SolveText(Evaluator, e, st)
  OBVIOUS
<1>2. /\ st' = r.st /\ tab' = tab /\ held' = held /\ last'.v = r.v
      /\ Careful => ArgumentsParse(e, <<>>)
  BY <1>1 DEF TmsSolve
<1>3. Solves(r, e)
  BY <1>1, SolveTextLaw, KeptRight, SolveAssumption
<1>4. Kept'
  BY <1>2, <1>3 DEF Kept, TypeOK, DepthPutBack, Solves
<1>5. Careful /\ Whole => Whole'
  <2> SUFFICES ASSUME Careful, Whole PROVE Whole'
    OBVIOUS
  <2>1. FunctionsSound
    BY DEF Whole, ModelsSound, FunctionsSound
  <2>2. st'.dangling = st.dangling
    BY <1>2, <1>3, <2>1 DEF Solves
  <2> QED BY <1>2, <1>4, <2>2, StoredStays DEF Whole, ModelsSound
<1> QED BY <1>2, <1>3, <1>4, <1>5 DEF Solves

(* A caller parses an expression to keep. *)
LEMMA ParseHeldKeeps ==
  ASSUME Kept, NEW h \in Held, ParseHeld(h)
  PROVE  Kept' /\ st'.dangling = st.dangling
<1>1. h.e \in Texts /\ h.names \in Seq(LabelNames) /\ h.cmplx \in BOOLEAN
  BY SolveAssumption
<1>2. PICK labels \in LabelLists : labels = LabelList(h.names, <<>>)
  BY <1>1, EmptyList
<1>3. PICK p : p = Parse(h.e, h.cmplx, labels, st)
  OBVIOUS
<1>4. /\ p.m = None \/ ParsedFrom(p.m, h.e, h.cmplx, labels)
      /\ p.st \in Shared /\ p.st.depth = 0 /\ p.st.dangling = st.dangling
  BY <1>1, <1>3, ParseLaw, KeptRight
<1>5. /\ st' = p.st /\ tab' = tab
      /\ held' = IF p.m = None THEN None ELSE [m |-> p.m, text |-> h.e, given |-> <<>>]
  BY <1>2, <1>3 DEF ParseHeld
<1>6. held' # None =>
        held' \in [m : Models, text : {k.e : k \in Held}, given : LabelValues \cup {<<>>}]
  BY <1>4, <1>5 DEF ParsedFrom
<1> QED BY <1>4, <1>5, <1>6 DEF Kept, TypeOK, DepthPutBack

(* New values for the labels of the kept expression. *)
LEMMA SetLabelsValuesKeeps ==
  ASSUME Kept, NEW v \in LabelValues, SetLabelsValues(v)
  PROVE  Kept' /\ (Careful /\ Whole => Whole')
<1>1. /\ held # None /\ Len(v) = Len(held.m.labels.names)
      /\ held' = [held EXCEPT !.m = SetValues(held.m, v), !.given = v]
      /\ st' = st /\ tab' = tab
  BY DEF SetLabelsValues
<1>2. held \in [m : Models, text : {k.e : k \in Held}, given : LabelValues \cup {<<>>}]
  BY <1>1 DEF Kept, TypeOK
<1>3. PICK m \in Models : m = held.m
  BY <1>2
<1>4. m.labels.names \in Seq(LabelNames) /\ v \in Seq(Values) /\ Len(v) = Len(m.labels.names)
  BY <1>1, <1>3, SolveAssumption DEF Models, LabelLists
<1>5. PICK env \in [LabelNames -> Values] : env = LabelEnv(m.labels.names, v)
  BY <1>4, EnvLaw
<1>6. PICK m1 : m1 = SetValues(m, v)
  OBVIOUS
<1>7. m1 = [expr |-> m.expr, labels |-> m.labels, cmplx |-> m.cmplx, env |-> env]
  BY <1>5, <1>6 DEF SetValues, Models
<1>8. m1 \in Models /\ m1.expr = m.expr /\ m1.labels = m.labels
  BY <1>7 DEF Models
<1>9. held' = [m |-> m1, text |-> held.text, given |-> v]
  BY <1>1, <1>2, <1>3, <1>6
<1>10. held'.m = m1 /\ held' \in [m : Models, text : {k.e : k \in Held}, given : LabelValues \cup {<<>>}]
  BY <1>2, <1>8, <1>9
<1>11. Kept'
  BY <1>1, <1>10 DEF Kept, TypeOK, DepthPutBack
<1>12. Careful /\ Whole => Whole'
  <2> SUFFICES ASSUME Whole PROVE Whole'
    OBVIOUS
  <2>1. ArgumentsParse(held'.m.expr, held'.m.labels.names)
    BY <1>1, <1>3, <1>8, <1>10 DEF Whole, ModelsSound
  <2> QED BY <1>1, <1>11, <2>1, StoredStays
<1> QED BY <1>11, <1>12

(* The kept expression is evaluated, and changed by it. *)
LEMMA EvaluateHeldKeeps ==
  ASSUME Kept, EvaluateHeld
  PROVE  /\ Kept' /\ (Careful /\ Whole => Whole')
         /\ last'.v # NaN => st'.errors = {}
         /\ last'.v = NaN /\ AllTakeArguments => st'.errors # {}
<1>1. held # None
  BY DEF EvaluateHeld
<1>2. held \in [m : Models, text : {k.e : k \in Held}, given : LabelValues \cup {<<>>}]
  BY <1>1 DEF Kept, TypeOK
<1>3. PICK m \in Models : m = held.m
  BY <1>2
<1>4. PICK r : r = Evaluate(m, st)
  OBVIOUS
<1>5. Right(r, m, st)
  BY <1>4, EvaluateLaw, KeptRight
<1>6. st' = r.st /\ held' = [held EXCEPT !.m = r.m] /\ last'.v = r.v /\ tab' = tab
  BY <1>3, <1>4 DEF EvaluateHeld
<1>7. held' = [m |-> r.m, text |-> held.text, given |-> held.given]
  BY <1>2, <1>6
<1>8. held'.m = r.m /\ held' \in [m : Models, text : {k.e : k \in Held}, given : LabelValues \cup {<<>>}]
  BY <1>2, <1>5, <1>7 DEF Right
<1>9. Kept'
  BY <1>5, <1>6, <1>8, KeptRight DEF Kept, TypeOK, DepthPutBack, Right, Within
<1>10. Careful /\ Whole => Whole'
  <2> SUFFICES ASSUME Careful, Whole PROVE Whole'
    OBVIOUS
  <2>1. FunctionsSound /\ ModelSound(m)
    BY <1>1, <1>3 DEF Whole, ModelsSound, FunctionsSound, ModelSound
  <2>2. st'.dangling = st.dangling
    BY <1>5, <1>6, <2>1 DEF Right, Within
  <2>3. ArgumentsParse(held'.m.expr, held'.m.labels.names)
    BY <1>5, <1>8, <2>1 DEF Right, ModelSound
  <2> QED BY <1>1, <1>6, <1>9, <2>2, <2>3, StoredStays
<1> QED BY <1>5, <1>6, <1>9, <1>10 DEF Right, Tells

(* The kept expression is deleted. *)
LEMMA DeleteHeldKeeps ==
  ASSUME Kept, DeleteHeld
  PROVE  Kept' /\ (Careful /\ Whole => Whole')
<1>1. held' = None /\ st' = st /\ tab' = tab
  BY DEF DeleteHeld
<1>2. Kept'
  BY <1>1 DEF Kept, TypeOK, DepthPutBack
<1> QED BY <1>1, <1>2, StoredStays

(* The invariant holds at the start, *)
LEMMA StartsKept == Init => IInv
<1> SUFFICES ASSUME Init PROVE IInv
  OBVIOUS
<1>1. st = [errors |-> {}, depth |-> 0, dangling |-> FALSE]
  BY DEF Init
<1>2. st \in Shared /\ st.depth = 0 /\ ~st.dangling
  BY <1>1 DEF Shared
<1>3. tab = [f \in {} |-> None] /\ DOMAIN tab = {} /\ held = None
  BY DEF Init
<1> QED BY <1>2, <1>3 DEF IInv, Kept, TypeOK, DepthPutBack, Whole, LabelsKept, ModelsSound

(* after every step, *)
LEMMA StepsKeep ==
  ASSUME IInv, [Next]_vars
  PROVE  IInv'
<1>1. CASE UNCHANGED vars
  <2>1. st' = st /\ tab' = tab /\ held' = held
    BY <1>1 DEF vars
  <2>2. Kept'
    BY <2>1 DEF IInv, Kept, TypeOK, DepthPutBack
  <2>3. Whole => Whole'
    BY <2>1, <2>2, StoredStays DEF IInv, Whole, ModelsSound
  <2> QED BY <2>2, <2>3 DEF IInv
<1>2. ASSUME NEW f \in Names, NEW b \in Bodies, DefineFunction(f, b) PROVE IInv'
  <2>1. Kept' /\ st'.dangling = st.dangling
    BY <1>2, DefineFunctionKeeps DEF IInv
  <2>2. Careful => ModelsSound'
    BY <1>2 DEF DefineFunction
  <2> QED BY <2>1, <2>2 DEF IInv, Whole, LabelsKept
<1>3. ASSUME NEW f \in Names, RemoveFunction(f) PROVE IInv'
  <2>1. Kept' /\ st'.dangling = st.dangling
    BY <1>3, RemoveFunctionKeeps DEF IInv
  <2>2. Careful => ModelsSound'
    BY <1>3 DEF RemoveFunction
  <2> QED BY <2>1, <2>2 DEF IInv, Whole, LabelsKept
<1>4. ASSUME NEW e \in Solved, TmsSolve(e) PROVE IInv'
  BY <1>4, TmsSolveKeeps DEF IInv
<1>5. ASSUME NEW h \in Held, ParseHeld(h) PROVE IInv'
  <2>1. Kept' /\ st'.dangling = st.dangling
    BY <1>5, ParseHeldKeeps DEF IInv
  <2>2. Careful => ModelsSound'
    BY <1>5 DEF ParseHeld
  <2> QED BY <2>1, <2>2 DEF IInv, Whole, LabelsKept
<1>6. ASSUME NEW v \in LabelValues, SetLabelsValues(v) PROVE IInv'
  BY <1>6, SetLabelsValuesKeeps DEF IInv
<1>7. CASE EvaluateHeld
  BY <1>7, EvaluateHeldKeeps DEF IInv
<1>8. CASE DeleteHeld
  BY <1>8, DeleteHeldKeeps DEF IInv
<1> QED BY <1>1, <1>2, <1>3, <1>4, <1>5, <1>6, <1>7, <1>8 DEF Next

(* and so always. *)
LEMMA AlwaysKept == Spec => []IInv
BY StartsKept, StepsKeep, PTL DEF Spec

(* The state keeps its shape: what evaluations nest in, and what they      *)
(* leave of the expressions and functions that are kept, is well formed.   *)
THEOREM SolveTyped == Spec => []TypeOK
<1>1. IInv => TypeOK
  BY DEF IInv, Kept
<1> QED BY <1>1, AlwaysKept, PTL

(* However calls nest, tms_evaluate leaves the counter of its calls as it  *)
(* found it, on every return and at the limit (evaluator.c:24).            *)
THEOREM DepthRestored == Spec => []DepthPutBack
<1>1. IInv => DepthPutBack
  BY DEF IInv, Kept
<1> QED BY <1>1, AlwaysKept, PTL

(* If callers see to it that arguments parse where they are solved, no     *)
(* call deletes the labels its caller handed down (scientific.c:115).      *)
THEOREM CallsLeaveAll ==
  ASSUME Careful PROVE Spec => []CallsRestore
<1>1. IInv => CallsRestore
  BY DEF IInv, Kept, Whole, CallsRestore
<1> QED BY <1>1, AlwaysKept, PTL

(* A value comes without errors and no value with errors that say why; and *)
(* tms_solve leaves none of its own (scientific.h:64), unless the          *)
(* expression parses as a complex one only and has no value.               *)
THEOREM ErrorsAreTold == Spec => ErrorsTell
<1> DEFINE Telling ==
      /\ last'.call = "tms_evaluate" /\ last'.v # NaN => st'.errors = {}
      /\ last'.call = "tms_evaluate" /\ last'.v = NaN /\ AllTakeArguments => st'.errors # {}
      /\ last'.call = "tms_solve" => \/ st'.errors \subseteq st.errors
                                     \/ last'.v = NaN /\ RefusedAsReal(last'.e)
<1>1. ASSUME IInv, [Next]_vars PROVE [Telling]_vars
  <2>1. CASE UNCHANGED vars
    BY <2>1
  <2>2. ASSUME Nothing PROVE Telling
    BY <2>2 DEF Nothing
  <2>3. CASE \/ \E f \in Names, b \in Bodies : DefineFunction(f, b)
             \/ \E f \in Names : RemoveFunction(f)
             \/ \E h \in Held : ParseHeld(h)
             \/ \E v \in LabelValues : SetLabelsValues(v)
             \/ DeleteHeld
    BY <2>2, <2>3 DEF DefineFunction, RemoveFunction, ParseHeld, SetLabelsValues, DeleteHeld
  <2>4. ASSUME NEW e \in Solved, TmsSolve(e) PROVE Telling
    <3>1. last'.call = "tms_solve" /\ last'.e = e
      BY <2>4 DEF TmsSolve
    <3>2. st'.errors \subseteq st.errors \/ (last'.v = NaN /\ RefusedAsReal(e))
      BY <1>1, <2>4, TmsSolveKeeps DEF IInv
    <3> QED BY <3>1, <3>2
  <2>5. CASE EvaluateHeld
    <3>1. last'.call = "tms_evaluate"
      BY <2>5 DEF EvaluateHeld
    <3> QED BY <1>1, <2>5, <3>1, EvaluateHeldKeeps DEF IInv
  <2> QED BY <1>1, <2>1, <2>3, <2>4, <2>5 DEF Next
<1> QED BY <1>1, AlwaysKept, PTL DEF Spec, ErrorsTell
=============================================================================
