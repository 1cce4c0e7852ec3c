--------------------------- MODULE UserFuncsProofs ---------------------------
(***************************************************************************)
(* Proofs about UserFuncs for one caller that removes no function another  *)
(* one calls: for any names and any bodies, the functions the library accepts  *)
(* make no circle of calls, and a definition takes effect as a whole or    *)
(* not at all.                                                             *)
(***************************************************************************)
EXTENDS UserFuncs, TLAPS

SingleCaller == RemoveCalled = FALSE /\ \E t \in Threads : Threads = {t}

-----------------------------------------------------------------------------
(* The call graph, as the code and as the promise read it.                 *)
LEMMA CallsOf ==
  ASSUME TypeOK, NEW n \in Names
  PROVE  /\ References(n) = Table!Calls(ufunc, n)
         /\ References(n) \subseteq Names
  BY DEF TypeOK, References, Defined, Bodies, Table!Calls

(* The search from r visits r, and goes on from each function it visits.   *)
LEMMA VisitedClosed ==
  ASSUME TypeOK, NEW r \in Names
  PROVE  r \in Visited(r) /\ Visited(r) \subseteq Names /\ Closed(Visited(r))
  <1>1. r \in Visited(r) /\ Visited(r) \subseteq Names
    BY DEF Visited
  <1>2. ASSUME NEW n \in Visited(r), NEW k \in References(n)
        PROVE  k \in Visited(r)
    <2>1. n \in Names /\ k \in Names
      BY <1>1, CallsOf
    <2>2. \A C \in SUBSET Names : r \in C /\ Closed(C) => n \in C
      BY DEF Visited
    <2>3. \A C \in SUBSET Names : r \in C /\ Closed(C) => k \in C
      BY <2>2 DEF Closed
    <2> QED
      BY <2>1, <2>3 DEF Visited
  <1> QED
    BY <1>1, <1>2 DEF Closed

(* If the search finds nothing, no function that f calls leads back to f.  *)
LEMMA SearchFindsNone ==
  ASSUME TypeOK, NEW f \in Names, ~HasBadRefs(f)
  PROVE  /\ f \notin References(f)
         /\ \A r \in References(f) : f \notin Visited(r)
  <1>1. f \notin References(f)
    BY DEF HasBadRefs, ReferencedBy
  <1>2. ASSUME NEW r \in References(f)
        PROVE  f \notin Visited(r)
    <2>1. r \in Names /\ r # f
      BY <1>1, CallsOf
    <2>2. \A n \in Visited(r) : f \notin References(n)
      BY <2>1 DEF HasBadRefs, ReferencedBy
    <2> DEFINE D == Visited(r) \ {f}
    <2>3. r \in D /\ D \in SUBSET Names /\ Closed(D)
      BY <2>1, <2>2, VisitedClosed DEF Closed
    <2>4. \A n \in Visited(r) : n \in D
      BY <2>3 DEF Visited
    <2> QED
      BY <2>4
  <1> QED
    BY <1>1, <1>2

(* Redefining f makes no circle if there was none before and the search    *)
(* for bad references finds none.                                          *)
LEMMA ReplaceAcyclic ==
  ASSUME TypeOK, NEW f \in Names, NEW old,
         Table!Acyclic([ufunc EXCEPT ![f] = old]), ~HasBadRefs(f)
  PROVE  Table!Acyclic(ufunc)
  <1> DEFINE T == [ufunc EXCEPT ![f] = old]
  <1> SUFFICES ASSUME NEW C \in SUBSET Names, C # {},
                      \A n \in C : References(n) \cap C # {}
               PROVE  FALSE
    BY CallsOf DEF Table!Acyclic
  <1>1. \A n \in Names \ {f} : Table!Calls(T, n) = References(n)
    BY CallsOf DEF TypeOK, Table!Calls
  <1>2. f \in C
    BY <1>1 DEF Table!Acyclic
  <1>3. PICK r \in References(f) : r \in C
    BY <1>2
  <1>4. r \in Names /\ f \notin Visited(r)
    BY <1>3, SearchFindsNone
  <1> DEFINE D == Visited(r) \cap C
  <1>5. r \in D /\ D \in SUBSET Names /\ f \notin D
    BY <1>3, <1>4, VisitedClosed
  <1>6. \A n \in D : References(n) \cap D # {}
    BY <1>4, VisitedClosed DEF Closed
  <1>7. \A n \in D : Table!Calls(T, n) \cap D # {}
    BY <1>1, <1>5, <1>6
  <1>8. PICK n \in D : Table!Calls(T, n) \cap D = {}
    BY <1>5 DEF Table!Acyclic
  <1> QED
    BY <1>7, <1>8

(* Adding a function no other one calls makes no circle.                   *)
LEMMA AddAcyclic ==
  ASSUME TypeOK, NEW f \in Names, NEW b \in Bodies, ~Defined(f), CallsDefined,
         \A n \in b.calls : Defined(n), Table!Acyclic(ufunc)
  PROVE  Table!Acyclic([ufunc EXCEPT ![f] = b])
  <1> DEFINE T == [ufunc EXCEPT ![f] = b]
  <1> SUFFICES ASSUME NEW C \in SUBSET Names, C # {},
                      \A n \in C : Table!Calls(T, n) \cap C # {}
               PROVE  FALSE
    BY DEF Table!Acyclic
  <1>1. \A n \in Names \ {f} : Table!Calls(T, n) = References(n)
    BY CallsOf DEF TypeOK, Table!Calls
  <1>2. T[f] = b
    BY DEF TypeOK
  <1>3. Table!Calls(T, f) \subseteq b.calls
    BY <1>2 DEF Table!Calls
  <1>4. \A n \in Names : f \notin Table!Calls(T, n)
    BY <1>1, <1>3 DEF CallsDefined
  <1> DEFINE D == C \ {f}
  <1>5. D # {} /\ D \in SUBSET Names
    BY <1>4
  <1>6. \A n \in D : References(n) \cap D # {}
    BY <1>1, <1>4
  <1> QED
    BY <1>5, <1>6, CallsOf DEF Table!Acyclic

-----------------------------------------------------------------------------
(* Removing a function that none calls makes no circle.                    *)
LEMMA RemoveAcyclic ==
  ASSUME NEW T, NEW f \in Names, Table!Acyclic(T)
  PROVE  Table!Acyclic([T EXCEPT ![f] = None])
  <1> DEFINE R == [T EXCEPT ![f] = None]
  <1>1. \A n \in Names : Table!Calls(R, n) \subseteq Table!Calls(T, n)
    BY DEF Table!Calls
  <1> HIDE DEF R
  <1>2. Table!Acyclic(R)
    BY <1>1 DEF Table!Acyclic
  <1> QED
    BY <1>2 DEF R

(* With one caller the table is settled except while it is searching.      *)
LEMMA SettledIdle ==
  ASSUME TypeOK, \A t \in Threads : ~Searching(t)
  PROVE  Settled = ufunc
  BY DEF Settled, TypeOK

(* While a redefinition is searched, callers are promised the old          *)
(* function.                                                               *)
LEMMA SettledSearching ==
  ASSUME TypeOK, NEW t \in Threads, Threads = {t}, Searching(t)
  PROVE  Settled = [ufunc EXCEPT ![pending[t].name] = pending[t].old]
  <1>1. \A n \in Names : n = pending[t].name => 
          (CHOOSE u \in Threads : Searching(u) /\ pending[u].name = n) = t
    OBVIOUS
  <1> QED
    BY <1>1 DEF Settled, TypeOK

(* What a caller's table promises after each step: it is as it was, or a   *)
(* definition without a circle took effect, or it was cleared.             *)
LEMMA StepRefines ==
  ASSUME SingleCaller, IInv, Next
  PROVE  Table!Next \/ Settled' = Settled
  <1>1. PICK t \in Threads : Threads = {t}
    BY DEF SingleCaller
  <1>t. TypeOK
    BY DEF IInv
  <1>2. CASE Searching(t)
    <2> DEFINE f == pending[t].name
               old == pending[t].old
    <2>1. Settled = [ufunc EXCEPT ![f] = old]
      BY <1>1, <1>t, <1>2, SettledSearching
    <2>2. /\ f \in Names /\ ufunc[f] = pending[t].body
          /\ pending[t].body \in Bodies
      BY <1>2, <1>t DEF IInv, PendingOK, TypeOK, Call, Searching, Idle
    <2>3. KeepOrRestore(t)
      BY <1>1, <1>2, Zenon
      DEF Next, Searching, CheckName, ParseBody, AddFunction, InstallFunction,
          RemoveFunction, SetVar, RemoveVar, ResetVars, ResetFunctions
    <2>4. Settled' = ufunc'
      BY <1>1, <1>t, <2>3 DEF KeepOrRestore, Settled, Searching, Idle, TypeOK
    <2>5. CASE HasBadRefs(f)
      BY <1>t, <2>1, <2>3, <2>4, <2>5 DEF KeepOrRestore, TypeOK
    <2>6. CASE ~HasBadRefs(f)
      <3>1. ufunc' = ufunc
        BY <1>t, <2>3, <2>6 DEF KeepOrRestore, TypeOK
      <3>2. Table!Acyclic([ufunc EXCEPT ![f] = old])
        BY <2>1 DEF IInv, NoCircularCall
      <3>3. Table!Acyclic(ufunc)
        BY <1>t, <2>2, <2>6, <3>2, ReplaceAcyclic
      <3>4. Settled' = [Settled EXCEPT ![f] = pending[t].body]
        BY <1>t, <2>1, <2>2, <2>4, <3>1 DEF TypeOK
      <3>5. Table!Define(f, pending[t].body)
        BY <2>4, <3>1, <3>3, <3>4 DEF Table!Define
      <3> QED
        BY <2>2, <3>5 DEF Table!Next
    <2> QED
      BY <2>5, <2>6
  <1>3. CASE ~Searching(t)
    <2>1. Settled = ufunc /\ Table!Acyclic(ufunc)
      BY <1>1, <1>3, <1>t, SettledIdle DEF IInv, NoCircularCall
    <2>2. CASE \E f \in Names, b \in Bodies : CheckName(t, f, b)
      <3>1. ufunc' = ufunc /\ ~Searching(t)'
        BY <2>2, <1>t DEF CheckName, Searching, TypeOK
      <3> QED
        BY <1>1, <1>t, <2>1, <3>1 DEF Settled, TypeOK
    <2>3. CASE ParseBody(t)
      <3>1. ufunc' = ufunc /\ ~Searching(t)'
        BY <2>3, <1>t DEF ParseBody, Searching, Idle, TypeOK, Call
      <3> QED
        BY <1>1, <1>t, <2>1, <3>1 DEF Settled, TypeOK
    <2>4. CASE AddFunction(t)
      <3> DEFINE f == pending[t].name
                 b == pending[t].body
      <3>1. /\ f \in Names /\ b \in Bodies /\ ~Defined(f)
            /\ \A n \in b.calls : Defined(n)
        BY <1>t, <2>4 DEF AddFunction, IInv, PendingOK, TypeOK, Call, Idle, Defined
      <3>2. ufunc' = [ufunc EXCEPT ![f] = b] /\ ~Searching(t)'
        BY <1>t, <2>4 DEF AddFunction, Moved, Searching, Idle, TypeOK
      <3>3. Settled' = ufunc'
        BY <1>1, <1>t, <3>1, <3>2 DEF Settled, TypeOK
      <3>4. Table!Acyclic(ufunc')
        BY <1>t, <2>1, <3>1, <3>2, AddAcyclic DEF IInv
      <3>5. Table!Define(f, b)
        BY <2>1, <3>2, <3>3, <3>4 DEF Table!Define
      <3> QED
        BY <3>1, <3>5 DEF Table!Next
    <2>5. CASE InstallFunction(t)
      <3>0. pending[t] \in Call /\ ufunc[pending[t].name] \in {None} \cup Bodies
        BY <1>t, <2>5 DEF InstallFunction, Idle, TypeOK, Call
      <3>i. pending' = [pending EXCEPT ![t] = [@ EXCEPT !.stage = "installed",
                                              !.old = ufunc[pending[t].name]]]
        BY <1>t, <2>5 DEF InstallFunction, TypeOK
      <3>c. pending'[t] \in Call /\ pending'[t].stage = "installed"
        BY <1>t, <3>0, <3>i DEF TypeOK, Call
      <3>d. /\ pending'[t].name = pending[t].name
            /\ pending'[t].old = ufunc[pending[t].name]
        BY <1>t, <3>0, <3>i DEF TypeOK, Call
      <3>e. Searching(t)'
        BY <3>c, NoneAssumption DEF Searching, Idle
      <3>f. ufunc' = [ufunc EXCEPT ![pending[t].name] = pending[t].body]
        BY <2>5 DEF InstallFunction
      <3>1. /\ pending[t].name \in Names
            /\ ufunc' = [ufunc EXCEPT ![pending[t].name] = pending[t].body]
            /\ Searching(t)' /\ pending'[t].name = pending[t].name
            /\ pending'[t].old = ufunc[pending[t].name]
        BY <3>0, <3>d, <3>e, <3>f DEF Call
      <3> QED
        BY <1>1, <1>t, <2>1, <3>1 DEF Settled, TypeOK
    <2>6. CASE \E v \in Variables : SetVar(t, v, "variable") \/ SetVar(t, v, "constant")
                                    \/ RemoveVar(t, v)
      BY <2>6 DEF SetVar, RemoveVar, Settled, Searching, Idle
    <2>7. CASE ResetVars(t)
      BY <2>7 DEF ResetVars, Settled, Searching, Idle
    <2>8. CASE ResetFunctions(t)
      <3>1. Settled' = [n \in Names |-> None]
        BY <1>1, <1>t, <2>8 DEF ResetFunctions, Settled, Searching, Idle, Moved, TypeOK
      <3> QED
        BY <3>1 DEF Table!Next, Table!Clear
    <2>9. ~KeepOrRestore(t)
      BY <1>3 DEF KeepOrRestore, Searching
    <2>10. CASE \E f \in Names : RemoveFunction(t, f)
      <3>1. PICK f \in Names : RemoveFunction(t, f)
        BY <2>10
      <3>2. pending' = pending
        BY <1>1, <1>t, <3>1 DEF RemoveFunction, Moved, TypeOK
      <3>3. Settled' = [Settled EXCEPT ![f] = None]
        BY <1>1, <1>3, <1>t, <2>1, <3>1, <3>2 DEF RemoveFunction, Settled, Searching, Idle, TypeOK
      <3>4. \A n \in Names : f \notin Table!Calls(Settled, n)
        BY <1>t, <2>1, <3>1, CallsOf DEF RemoveFunction, SingleCaller
      <3> QED
        BY <3>3, <3>4 DEF Table!Next, Table!Remove
    <2> QED
      BY <1>1, <2>2, <2>3, <2>4, <2>5, <2>6, <2>7, <2>8, <2>9, <2>10 DEF Next
  <1> QED
    BY <1>2, <1>3

-----------------------------------------------------------------------------
(* The steps of a single caller t.                                         *)
Step(t) ==
  \/ \E f \in Names, b \in Bodies : CheckName(t, f, b)
  \/ ParseBody(t) \/ AddFunction(t) \/ InstallFunction(t) \/ KeepOrRestore(t)
  \/ \E v \in Variables : SetVar(t, v, "variable") \/ SetVar(t, v, "constant")
                          \/ RemoveVar(t, v)
  \/ \E f \in Names : RemoveFunction(t, f)
  \/ ResetVars(t) \/ ResetFunctions(t)

(* The steps of the one thread there is.                                   *)
LEMMA Steps ==
  ASSUME SingleCaller, Next
  PROVE  \E t \in Threads : Threads = {t} /\ Step(t)
  BY Zenon DEF SingleCaller, Next, Step

(* Every step of a call keeps the types.                                   *)
LEMMA TypePreserved ==
  ASSUME SingleCaller, IInv, Next
  PROVE  TypeOK'
  <1>1. PICK t \in Threads : Threads = {t} /\ Step(t)
    BY Steps
  <1>t. TypeOK
    BY DEF IInv
  <1>p. pending[t] # None => /\ pending[t] \in Call
                             /\ pending[t].body \in Bodies
                             /\ pending[t].name \in Names
                             /\ pending[t].old \in {None} \cup Bodies
    BY <1>t DEF TypeOK, Call
  <1> USE DEF Idle, Searching
  <1>2. ASSUME NEW f \in Names, NEW b \in Bodies, CheckName(t, f, b)
        PROVE  TypeOK'
    <2> DEFINE c == [stage |-> "checked", name |-> f, body |-> b,
                     old |-> ufunc[f], moved |-> FALSE]
    <2>1. c \in Call
      BY <1>t DEF TypeOK, Call
    <2>2. pending' = [pending EXCEPT ![t] = c] /\ UNCHANGED <<ufunc, var>>
      BY <1>2 DEF CheckName
    <2>3. c.stage # "installed"
      OBVIOUS
    <2> HIDE DEF c
    <2> QED
      BY <1>1, <1>t, <2>1, <2>2, <2>3 DEF TypeOK
  <1>3. CASE ParseBody(t)
    <2>1. \E c \in {None} \cup Call : /\ pending' = [pending EXCEPT ![t] = c]
                                      /\ c # None => c.stage # "installed"
      <3>1. CASE \A n \in pending[t].body.calls : Defined(n)
        <4>1. [pending[t] EXCEPT !.stage = "parsed"] \in Call
          BY <1>p, <1>3 DEF ParseBody, Call
        <4>2. [pending[t] EXCEPT !.stage = "parsed"].stage # "installed"
          BY <1>p, <1>3 DEF ParseBody, Call
        <4> QED
          BY <1>3, <1>t, <3>1, <4>1, <4>2 DEF ParseBody, TypeOK
      <3>2. CASE ~\A n \in pending[t].body.calls : Defined(n)
        BY <1>3, <1>t, <3>2 DEF ParseBody, TypeOK
      <3> QED
        BY <3>1, <3>2
    <2>2. UNCHANGED <<ufunc, var>>
      BY <1>3 DEF ParseBody
    <2> QED
      BY <1>1, <1>t, <2>1, <2>2 DEF TypeOK
  <1>4. CASE AddFunction(t)
    <2>1. pending' = [pending EXCEPT ![t] = None]
      BY <1>1, <1>t, <1>4 DEF AddFunction, Moved, TypeOK
    <2> QED
      BY <1>1, <1>t, <1>p, <1>4, <2>1 DEF AddFunction, TypeOK
  <1>5. CASE InstallFunction(t)
    <2> DEFINE c == [pending[t] EXCEPT !.stage = "installed",
                                       !.old = ufunc[pending[t].name]]
    <2>1. pending' = [pending EXCEPT ![t] = c]
      BY <1>t, <1>5 DEF InstallFunction, TypeOK
    <2>2. ufunc[pending[t].name] \in Bodies
      BY <1>1, <1>p, <1>t, <1>5 DEF InstallFunction, IInv, PendingOK, TypeOK
    <2>3. c \in Call /\ c.old # None
      BY <1>p, <1>5, <2>2, NoneAssumption DEF InstallFunction, Call
    <2> HIDE DEF c
    <2> QED
      BY <1>1, <1>t, <1>p, <1>5, <2>1, <2>3 DEF InstallFunction, TypeOK
  <1>6. CASE KeepOrRestore(t)
    BY <1>1, <1>t, <1>p, <1>6 DEF KeepOrRestore, TypeOK
  <1>7. ASSUME NEW v \in Variables,
               SetVar(t, v, "variable") \/ SetVar(t, v, "constant") \/ RemoveVar(t, v)
        PROVE  TypeOK'
    BY <1>t, <1>7, UserFuncsAssumption DEF SetVar, RemoveVar, TypeOK, Kinds
  <1>8. CASE ResetVars(t)
    BY <1>t, <1>8 DEF ResetVars, TypeOK, Kinds
  <1>9. CASE ResetFunctions(t)
    <2>1. pending' = pending
      BY <1>1, <1>t, <1>9 DEF ResetFunctions, Moved, TypeOK
    <2> QED
      BY <1>t, <1>9, <2>1 DEF ResetFunctions, TypeOK
  <1>10. ASSUME NEW f \in Names, RemoveFunction(t, f)
         PROVE  TypeOK'
    <2>1. pending' = pending
      BY <1>1, <1>t, <1>10 DEF RemoveFunction, Moved, TypeOK
    <2> QED
      BY <1>t, <1>10, <2>1 DEF RemoveFunction, TypeOK
  <1> QED
    BY <1>1, <1>2, <1>3, <1>4, <1>5, <1>6, <1>7, <1>8, <1>9, <1>10 DEF Step

(* Who is defined after a step: nobody loses a definition but in a reset   *)
(* or by its removal.                                                      *)
LEMMA DefinedKept ==
  ASSUME SingleCaller, IInv, NEW t \in Threads, Step(t), ~ResetFunctions(t),
         NEW n \in Names, Defined(n), ~RemoveFunction(t, n)
  PROVE  Defined(n)'
  <1>t. TypeOK
    BY DEF IInv
  <1>1. CASE AddFunction(t) \/ InstallFunction(t)
    <2>1. pending[t].body # None
      BY <1>t, <1>1, NoneAssumption
      DEF AddFunction, InstallFunction, Idle, TypeOK, Call
    <2> QED
      BY <1>t, <1>1, <2>1 DEF AddFunction, InstallFunction, Defined, TypeOK
  <1>2. CASE KeepOrRestore(t)
    BY <1>t, <1>2 DEF KeepOrRestore, Defined, TypeOK, Searching
  <1>3. CASE ufunc' = ufunc
    BY <1>3 DEF Defined
  <1>4. CASE \E f \in Names : RemoveFunction(t, f)
    <2>1. PICK f \in Names : RemoveFunction(t, f)
      BY <1>4
    <2> QED
      BY <1>t, <2>1 DEF RemoveFunction, Defined, TypeOK
  <1> QED
    BY <1>1, <1>2, <1>3, <1>4
    DEF Step, CheckName, ParseBody, SetVar, RemoveVar, ResetVars

(* Every step leaves the calls of all functions defined.                   *)
LEMMA CallsPreserved ==
  ASSUME SingleCaller, IInv, Next
  PROVE  CallsDefined'
  <1>1. PICK t \in Threads : Threads = {t} /\ Step(t)
    BY Steps
  <1>t. TypeOK
    BY DEF IInv
  <1>2. CASE ResetFunctions(t)
    BY <1>2 DEF ResetFunctions, CallsDefined, References, Defined
  <1>3. CASE ~ResetFunctions(t)
    <2>0. \A f \in Names : RemoveFunction(t, f) => \A n \in Names : f \notin References(n)'
      BY <1>t DEF RemoveFunction, SingleCaller, References, Defined, TypeOK
    <2>1. SUFFICES ASSUME NEW n \in Names, NEW m \in References(n)'
                   PROVE  m \in Names /\ Defined(m)
      BY <1>1, <1>3, <2>0, DefinedKept DEF CallsDefined
    <2>2. CASE m \in References(n)
      BY <1>t, <2>2, CallsOf DEF IInv, CallsDefined
    <2>3. CASE ufunc'[n] # ufunc[n]
      <3>0. \A f \in Names : RemoveFunction(t, f) => n = f /\ References(n)' = {}
        BY <1>t, <2>3 DEF RemoveFunction, References, Defined, TypeOK
      <3>1. AddFunction(t) \/ InstallFunction(t) \/ KeepOrRestore(t)
        BY <1>1, <1>3, <2>1, <2>3, <3>0
        DEF Step, CheckName, ParseBody, SetVar, RemoveVar, ResetVars
      <3>2. /\ pending[t] # None /\ pending[t] \in Call
            /\ pending[t].body \in Bodies /\ pending[t].old \in {None} \cup Bodies
        BY <1>t, <3>1
        DEF AddFunction, InstallFunction, KeepOrRestore, Idle, TypeOK, Call
      <3>3. CASE ufunc'[n] = pending[t].body
        <4>1. pending[t].stage # "checked"
          BY <3>1 DEF AddFunction, InstallFunction, KeepOrRestore
        <4>2. \A k \in pending[t].body.calls : Defined(k)
          BY <3>2, <4>1 DEF IInv, PendingOK, Idle
        <4>3. m \in pending[t].body.calls
          BY <2>1, <3>3 DEF References, Defined
        <4> QED
          BY <3>2, <4>2, <4>3 DEF Bodies
      <3>4. CASE ufunc'[n] = pending[t].old /\ KeepOrRestore(t)
        <4>1. /\ \A k \in pending[t].old.calls : Defined(k)
              /\ pending[t].old # None
          BY <1>t, <3>4 DEF KeepOrRestore, IInv, PendingOK, Searching, TypeOK
        <4>2. m \in pending[t].old.calls
          BY <2>1, <3>4 DEF References, Defined
        <4> QED
          BY <3>2, <4>1, <4>2 DEF Bodies
      <3> QED
        BY <1>t, <2>3, <3>1, <3>3, <3>4
        DEF AddFunction, InstallFunction, KeepOrRestore, TypeOK
    <2> QED
      BY <2>1, <2>2, <2>3 DEF References, Defined
  <1> QED
    BY <1>2, <1>3

(* Every step keeps the names of functions and variables apart.            *)
LEMMA ShadowingPreserved ==
  ASSUME SingleCaller, IInv, Next
  PROVE  NoShadowing'
  <1>1. PICK t \in Threads : Threads = {t} /\ Step(t)
    BY Steps
  <1>t. TypeOK
    BY DEF IInv
  <1>2. CASE ResetFunctions(t)
    BY <1>2 DEF ResetFunctions, NoShadowing, Defined
  <1>3. CASE ~ResetFunctions(t)
    <2> SUFFICES ASSUME NEW n \in Names, Defined(n)'
                 PROVE  var'[n] = "unset"
      BY DEF NoShadowing
    <2>0. \A f \in Names : RemoveFunction(t, f) =>
            var' = var /\ (Defined(n)' => Defined(n))
      BY <1>t DEF RemoveFunction, Defined, TypeOK
    <2>1. CASE Defined(n)
      <3>1. var[n] = "unset"
        BY <2>1 DEF IInv, NoShadowing
      <3> QED
        BY <1>1, <1>3, <2>0, <1>t, <2>1, <3>1
        DEF Step, CheckName, ParseBody, AddFunction, InstallFunction, KeepOrRestore,
            SetVar, RemoveVar, ResetVars, TypeOK
    <2>2. CASE ~Defined(n)
      <3>1. /\ AddFunction(t) \/ InstallFunction(t) \/ KeepOrRestore(t)
            /\ n = pending[t].name /\ pending[t] # None
        BY <1>1, <1>3, <1>t, <2>0, <2>2
        DEF Step, CheckName, ParseBody, AddFunction, InstallFunction, KeepOrRestore,
            SetVar, RemoveVar, ResetVars, Defined, TypeOK, Idle
      <3>2. CASE AddFunction(t)
        <4>1. var[n] = "unset"
          BY <3>1, <3>2 DEF AddFunction, IInv, PendingOK, Idle
        <4> QED
          BY <3>2, <4>1 DEF AddFunction
      <3>3. CASE InstallFunction(t)
        <4>1. pending[t].old = ufunc[n] /\ pending[t].old # None
          BY <3>1, <3>3 DEF InstallFunction, IInv, PendingOK, Idle
        <4> QED
          BY <2>2, <4>1 DEF Defined
      <3>4. CASE KeepOrRestore(t)
        <4>1. ufunc[n] = pending[t].body /\ pending[t].body # None
          BY <1>t, <3>1, <3>4, NoneAssumption
          DEF KeepOrRestore, IInv, PendingOK, Idle, Searching, TypeOK, Call
        <4> QED
          BY <2>2, <4>1 DEF Defined
      <3> QED
        BY <3>1, <3>2, <3>3, <3>4
    <2> QED
      BY <2>1, <2>2
  <1> QED
    BY <1>2, <1>3

(* The part of PendingOK about one call, for steps that change that call.  *)
LEMMA PendingPreserved ==
  ASSUME SingleCaller, IInv, Next
  PROVE  PendingOK'
  <1>1. PICK t \in Threads : Threads = {t} /\ Step(t)
    BY Steps
  <1>t. TypeOK
    BY DEF IInv
  <1>p. pending[t] # None => /\ pending[t] \in Call
                             /\ pending[t].body \in Bodies
                             /\ pending[t].name \in Names
                             /\ pending[t].old \in {None} \cup Bodies
                             /\ pending[t].body.calls \subseteq Names
    BY <1>t DEF TypeOK, Call, Bodies
  <1>2. CASE \E f \in Names, b \in Bodies : CheckName(t, f, b)
    <2>1. PICK f \in Names, b \in Bodies : CheckName(t, f, b)
      BY <1>2
    <2>2. pending'[t] = [stage |-> "checked", name |-> f, body |-> b,
                         old |-> ufunc[f], moved |-> FALSE]
      BY <1>t, <2>1 DEF CheckName, TypeOK
    <2> QED
      BY <1>1, <2>1, <2>2 DEF CheckName, PendingOK, Searching
  <1>3. CASE ParseBody(t)
    <2>1. CASE \A n \in pending[t].body.calls : Defined(n)
      <3>1. pending'[t] = [pending[t] EXCEPT !.stage = "parsed"]
        BY <1>t, <1>3, <2>1 DEF ParseBody, TypeOK
      <3>2. /\ pending'[t].stage = "parsed"
            /\ pending'[t].name = pending[t].name /\ pending'[t].body = pending[t].body
            /\ pending'[t].old = pending[t].old /\ pending'[t].moved = pending[t].moved
        BY <1>p, <1>3, <3>1 DEF ParseBody, Idle, Call
      <3>3. UNCHANGED <<ufunc, var>>
        BY <1>3 DEF ParseBody
      <3>4. /\ ~pending[t].moved /\ pending[t].old = ufunc[pending[t].name]
            /\ pending[t].old = None => var[pending[t].name] = "unset"
        BY <1>3 DEF ParseBody, IInv, PendingOK, Idle
      <3> QED
        BY <1>1, <2>1, <3>2, <3>3, <3>4 DEF PendingOK, Searching, Defined
    <2>2. CASE ~\A n \in pending[t].body.calls : Defined(n)
      BY <1>1, <1>3, <1>t, <2>2 DEF ParseBody, PendingOK, Idle, TypeOK
    <2> QED
      BY <2>1, <2>2
  <1>4. CASE AddFunction(t) \/ KeepOrRestore(t)
    BY <1>1, <1>4, <1>t DEF AddFunction, KeepOrRestore, Moved, PendingOK, Idle, TypeOK
  <1>5. CASE InstallFunction(t)
    <2>1. /\ pending[t] \in Call /\ pending[t].name \in Names /\ ~pending[t].moved
          /\ pending[t].body \in Bodies /\ pending[t].body.calls \subseteq Names
          /\ pending[t].old = ufunc[pending[t].name] /\ pending[t].old # None
          /\ \A n \in pending[t].body.calls : Defined(n)
      BY <1>p, <1>5 DEF InstallFunction, IInv, PendingOK, Idle
    <2>2. pending' = [pending EXCEPT ![t] = [@ EXCEPT !.stage = "installed",
                                              !.old = ufunc[pending[t].name]]]
      BY <1>t, <1>5 DEF InstallFunction, TypeOK
    <2>3. /\ pending'[t].stage = "installed"
          /\ pending'[t].name = pending[t].name /\ pending'[t].body = pending[t].body
          /\ pending'[t].old = ufunc[pending[t].name]
          /\ pending'[t].moved = pending[t].moved
      BY <1>t, <2>1, <2>2 DEF TypeOK, Call
    <2>4. ufunc'[pending[t].name] = pending[t].body
      BY <1>t, <1>5, <2>1 DEF InstallFunction, TypeOK
    <2>5. \A n \in Names : Defined(n) => ufunc'[n] # None
      BY <1>t, <1>5, <2>1, NoneAssumption DEF InstallFunction, Defined, TypeOK
    <2>6. ufunc[pending[t].name] \in Bodies
      BY <1>t, <2>1 DEF TypeOK
    <2>7. \A n \in ufunc[pending[t].name].calls : n \in Names /\ Defined(n)
      BY <2>1, <2>6 DEF IInv, CallsDefined, References, Defined, Bodies
    <2> QED
      BY <1>1, <2>1, <2>3, <2>4, <2>5, <2>7 DEF PendingOK, Defined
  <1>6. CASE \E v \in Variables : SetVar(t, v, "variable") \/ SetVar(t, v, "constant")
                                  \/ RemoveVar(t, v)
    BY <1>1, <1>6 DEF SetVar, RemoveVar, PendingOK, Idle
  <1>7. CASE ResetVars(t)
    BY <1>1, <1>7 DEF ResetVars, PendingOK, Idle
  <1>8. CASE ResetFunctions(t) \/ \E f \in Names : RemoveFunction(t, f)
    BY <1>1, <1>t, <1>8
    DEF ResetFunctions, RemoveFunction, Moved, PendingOK, Idle, TypeOK
  <1> QED
    BY <1>1, <1>2, <1>3, <1>4, <1>5, <1>6, <1>7, <1>8 DEF Step

-----------------------------------------------------------------------------
(* Empty tables satisfy the invariant.                                     *)
LEMMA InitOK ==
  ASSUME Init
  PROVE  IInv /\ Table!Init
  <1>1. TypeOK /\ \A t \in Threads : ~Searching(t)
    BY DEF Init, TypeOK, Kinds, Searching, Idle
  <1>2. Settled = ufunc
    BY <1>1, SettledIdle
  <1>3. NoCircularCall
    BY <1>2 DEF Init, NoCircularCall, Table!Acyclic, Table!Calls
  <1>4. PendingOK /\ CallsDefined /\ NoShadowing
    BY DEF Init, PendingOK, CallsDefined, NoShadowing, References, Defined, Idle
  <1> QED
    BY <1>1, <1>2, <1>3, <1>4 DEF IInv, Init, Table!Init

(* No step makes a circle of calls callers can see.                        *)
LEMMA CirclePreserved ==
  ASSUME SingleCaller, IInv, Next
  PROVE  NoCircularCall'
  <1>1. CASE \E f \in Names, b \in Bodies : Table!Define(f, b)
    BY <1>1 DEF Table!Define, NoCircularCall
  <1>4. CASE \E f \in Names : Table!Remove(f)
    BY <1>4, RemoveAcyclic DEF Table!Remove, IInv, NoCircularCall
  <1>2. CASE Table!Clear
    BY <1>2 DEF Table!Clear, NoCircularCall, Table!Acyclic, Table!Calls
  <1>3. CASE Settled' = Settled
    BY <1>3 DEF IInv, NoCircularCall, Table!Acyclic, Table!Calls
  <1> QED
    BY <1>1, <1>2, <1>3, <1>4, StepRefines DEF Table!Next

(* The steps that leave callers' table as it was.                          *)
LEMMA Stutters ==
  ASSUME UNCHANGED vars
  PROVE  /\ IInv => IInv'
         /\ Settled' = Settled
  <1>1. ufunc' = ufunc /\ var' = var /\ pending' = pending
    BY DEF vars
  <1>2. Settled' = Settled
    BY <1>1 DEF Settled, Searching, Idle
  <1>3. TypeOK => TypeOK'
    BY <1>1 DEF TypeOK, Searching, Idle
  <1>4. PendingOK => PendingOK'
    BY <1>1 DEF PendingOK, Searching, Idle, Defined
  <1>5. /\ CallsDefined => CallsDefined'
        /\ NoShadowing => NoShadowing'
    BY <1>1 DEF CallsDefined, NoShadowing, References, Defined
  <1>6. NoCircularCall => NoCircularCall'
    BY <1>2 DEF NoCircularCall, Table!Acyclic, Table!Calls
  <1> QED
    BY <1>2, <1>3, <1>4, <1>5, <1>6 DEF IInv

(* The inductive invariant holds of every behaviour of a single caller.    *)
THEOREM Invariance == SingleCaller => (Spec => []IInv)
  <1> SUFFICES ASSUME SingleCaller PROVE Spec => []IInv
    OBVIOUS
  <1>1. Init => IInv
    BY InitOK
  <1>2. IInv /\ [Next]_vars => IInv'
    <2> SUFFICES ASSUME IInv, [Next]_vars PROVE IInv'
      OBVIOUS
    <2>1. CASE Next
      BY <2>1, TypePreserved, PendingPreserved, CallsPreserved, ShadowingPreserved,
         CirclePreserved DEF IInv
    <2>2. CASE UNCHANGED vars
      BY <2>2, Stutters
    <2> QED
      BY <2>1, <2>2
  <1> QED
    BY <1>1, <1>2, PTL DEF Spec

(* No functions the library accepted from one caller call each other in a  *)
(* circle (the searches of tms_set_ufunction are enough for that, though a *)
(* new function is not searched at all).                                   *)
THEOREM NoCircle == SingleCaller => (Spec => []NoCircularCall)
  <1>1. IInv => NoCircularCall
    BY DEF IInv
  <1> QED
    BY <1>1, Invariance, PTL

(* The state keeps its types, and a redefinition that is being searched    *)
(* always has a function to go back to.                                    *)
THEOREM TypeCorrect == SingleCaller => (Spec => []TypeOK)
  <1>1. IInv => TypeOK
    BY DEF IInv
  <1> QED
    BY <1>1, Invariance, PTL

(* The search for circular definitions, which remembers nothing of where   *)
(* it was, never meets again a function whose calls it follows.            *)
THEOREM SearchTerminates == SingleCaller => (Spec => []SearchEnds)
  <1> SUFFICES ASSUME SingleCaller PROVE Spec => []SearchEnds
    OBVIOUS
  <1>1. IInv => SearchEnds
    <2> SUFFICES ASSUME IInv, NEW t \in Threads, Searching(t),
                        NEW C \in SUBSET (Names \ {pending[t].name}), C # {}
                 PROVE  \E n \in C : References(n) \cap C = {}
      BY DEF SearchEnds
    <2>1. TypeOK /\ Threads = {t}
      BY DEF IInv, SingleCaller
    <2> DEFINE T == [ufunc EXCEPT ![pending[t].name] = pending[t].old]
    <2>2. Table!Acyclic(T)
      BY <2>1, SettledSearching DEF IInv, NoCircularCall
    <2>3. \A n \in C : n \in Names /\ Table!Calls(T, n) = References(n)
      BY <2>1, CallsOf DEF TypeOK, Table!Calls
    <2> QED
      BY <2>2, <2>3 DEF Table!Acyclic
  <1>2. Spec => []IInv
    BY Invariance
  <1> QED
    BY <1>1, <1>2, PTL

(* The calls of an accepted function are to functions that are defined, as *)
(* tms_evaluate needs them to be.                                          *)
THEOREM CallsAreDefined == SingleCaller => (Spec => []CallsDefined)
  <1>1. IInv => CallsDefined
    BY DEF IInv
  <1> QED
    BY <1>1, Invariance, PTL

(* No name is both a variable's and a function's, whichever came first.    *)
THEOREM NamesApart == SingleCaller => (Spec => []NoShadowing)
  <1>1. IInv => NoShadowing
    BY DEF IInv
  <1> QED
    BY <1>1, Invariance, PTL

(* The steps of tms_set_ufunction amount to definitions that take effect   *)
(* as a whole, without a circle, or not at all.                            *)
THEOREM Implementation == SingleCaller => (Spec => Implements)
  <1> SUFFICES ASSUME SingleCaller PROVE Spec => Table!Spec
    BY DEF Implements
  <1>1. Init => Table!Init
    BY InitOK
  <1>2. IInv /\ [Next]_vars => [Table!Next]_Settled
    BY StepRefines, Stutters
  <1>3. Spec => []IInv
    BY Invariance
  <1> QED
    BY <1>1, <1>2, <1>3, PTL DEF Spec, Table!Spec
=============================================================================
