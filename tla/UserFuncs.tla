------------------------------ MODULE UserFuncs ------------------------------
(***************************************************************************)
(* The variables and user functions of internals.c (the scientific         *)
(* variant; the integer variant is the same code over its own tables):     *)
(* what may be defined under a name, and the search for circular           *)
(* definitions that tms_set_ufunction makes when it redefines a function.  *)
(*                                                                         *)
(* tms_set_ufunction takes no lock of its own, so it is several steps: the *)
(* checks of the name, the parsing of the body (under the parser's locks), *)
(* and the update of the table, with the search after it.                  *)
(*                                                                         *)
(* What is abstracted: a body is the set of functions it calls, told apart *)
(* as the code tells them apart: those called by a subexpression, and      *)
(* those that occur in the argument strings of an extended or a user       *)
(* function, which are not parsed before the function is evaluated.        *)
(* Names are legal, are not built in, and none ends with another.          *)
(***************************************************************************)
EXTENDS Naturals, FiniteSets

CONSTANTS Threads,
          Names,      \* names of user functions and variables
          Variables,  \* those given to variables in a behaviour
          MaxCalls,   \* bound on the calls in a body
          RemoveCalled, \* whether functions that others call are removed
          None        \* no function, no call

ASSUME UserFuncsAssumption ==
  /\ Variables \subseteq Names
  /\ MaxCalls \in Nat
  /\ RemoveCalled \in BOOLEAN

VARIABLES ufunc,    \* ufunc_hmap
          var,      \* var_hmap: how each variable was set
          pending   \* the tms_set_ufunction call of each thread

vars == <<ufunc, var, pending>>

-----------------------------------------------------------------------------
Bodies == {b \in [calls : SUBSET Names, args : SUBSET Names] :
             Cardinality(b.calls) + Cardinality(b.args) <= MaxCalls}
Kinds == {"unset", "variable", "constant"}

Defined(n) == ufunc[n] # None

(* The call in progress: old is what the lookup on entry found, a pointer  *)
(* into the table, and moved that another thread added or removed entries  *)
(* since (replacing one leaves the others where they are).                 *)
Call == [stage : {"checked", "parsed", "installed"}, name : Names,
         body : Bodies, old : {None} \cup Bodies, moved : BOOLEAN]
Idle(t) == pending[t] = None

ASSUME NoneAssumption == None \notin Bodies /\ None \notin Call

Init == /\ ufunc = [n \in Names |-> None]
        /\ var = [n \in Names |-> "unset"]
        /\ pending = [t \in Threads |-> None]

(* The table changes under the calls in progress of the other threads. *)
Moved(t) == [u \in Threads |-> IF u = t \/ Idle(u) THEN pending[u]
                               ELSE [pending[u] EXCEPT !.moved = TRUE]]

-----------------------------------------------------------------------------
(* get_all_ufunc_references: the functions called by subexpressions.       *)
References(n) == IF Defined(n) THEN ufunc[n].calls ELSE {}

(* _ufunc_is_within_arglist *)
WithinArglist(n, target) == Defined(n) /\ target \in ufunc[n].args

(* The functions the search from r visits: the smallest set with r that    *)
(* has the references of its members.                                      *)
Closed(C) == \A n \in C : References(n) \subseteq C
Visited(r) == {n \in Names : \A C \in SUBSET Names : r \in C /\ Closed(C) => n \in C}

(* Faulty: a referrer's own calls are all that is looked at. *)
ReferencedDirectly(r, target) ==
  \/ target \in References(r)
  \/ r = target /\ WithinArglist(r, target)

(* is_ufunc_referenced_by: the argument strings of a referrer itself are   *)
(* looked at only when it is the target.                                   *)
ReferencedBy(r, target) ==
  IF r = target
  THEN target \in References(r) \/ WithinArglist(r, target)
  ELSE \/ \E n \in Visited(r) : target \in References(n)
       \/ \E n \in Visited(r), m \in Names :
            m \in References(n) /\ WithinArglist(m, target)

(* Faulty: nothing but a reference to itself is looked for. *)
HasSelfRefs(f) == ReferencedBy(f, f)

(* _tms_ufunc_has_bad_refs *)
HasBadRefs(f) == \/ ReferencedBy(f, f)
                 \/ \E r \in References(f) : ReferencedBy(r, f)

-----------------------------------------------------------------------------
(* Faulty: the name may be that of a variable. *)
CheckNothing(t, f, b) ==
  /\ Idle(t)
  /\ pending' = [pending EXCEPT ![t] = [stage |-> "checked", name |-> f, body |-> b,
                                        old |-> ufunc[f], moved |-> FALSE]]
  /\ UNCHANGED <<ufunc, var>>

(* tms_set_ufunction, up to the parser: the name of a new function must    *)
(* not be that of a variable.                                              *)
CheckName(t, f, b) ==
  /\ Idle(t)
  /\ ufunc[f] = None => var[f] = "unset"
  /\ pending' = [pending EXCEPT ![t] = [stage |-> "checked", name |-> f, body |-> b,
                                        old |-> ufunc[f], moved |-> FALSE]]
  /\ UNCHANGED <<ufunc, var>>

(* tms_parse_expr fails if a subexpression calls a function that is not    *)
(* defined; the argument strings are not looked at.                        *)
ParseBody(t) ==
  /\ ~Idle(t) /\ pending[t].stage = "checked"
  /\ pending' = [pending EXCEPT ![t] =
                   IF \A n \in @.body.calls : Defined(n)
                   THEN [@ EXCEPT !.stage = "parsed"] ELSE None]
  /\ UNCHANGED <<ufunc, var>>

(* A new function is added without any search. *)
AddFunction(t) ==
  /\ ~Idle(t) /\ pending[t].stage = "parsed" /\ pending[t].old = None
  /\ ufunc' = [ufunc EXCEPT ![pending[t].name] = pending[t].body]
  /\ pending' = [Moved(t) EXCEPT ![t] = None]
  /\ UNCHANGED var

(* Faulty: the function replaced is not kept. *)
InstallOverOld(t) ==
  /\ ~Idle(t) /\ pending[t].stage = "parsed" /\ pending[t].old # None
  /\ ufunc' = [ufunc EXCEPT ![pending[t].name] = pending[t].body]
  /\ pending' = [pending EXCEPT ![t].stage = "installed", ![t].old = None]
  /\ UNCHANGED var

(* A function that exists is replaced first and searched afterwards. With  *)
(* old left dangling by another thread what the code does is undefined.    *)
InstallFunction(t) ==
  /\ ~Idle(t) /\ pending[t].stage = "parsed" /\ pending[t].old # None
  /\ ~pending[t].moved
  /\ ufunc' = [ufunc EXCEPT ![pending[t].name] = pending[t].body]
  /\ pending' = [pending EXCEPT ![t].stage = "installed",
                                ![t].old = ufunc[pending[t].name]]
  /\ UNCHANGED var

(* Faulty: a function that is refused is removed. *)
KeepOrRemove(t) ==
  /\ ~Idle(t) /\ pending[t].stage = "installed"
  /\ ufunc' = [ufunc EXCEPT ![pending[t].name] =
                 IF HasBadRefs(pending[t].name) THEN None ELSE @]
  /\ pending' = [pending EXCEPT ![t] = None]
  /\ UNCHANGED var

(* The search, and the function replaced put back if it finds something.   *)
KeepOrRestore(t) ==
  /\ ~Idle(t) /\ pending[t].stage = "installed"
  /\ ufunc' = [ufunc EXCEPT ![pending[t].name] =
                 IF HasBadRefs(pending[t].name) THEN pending[t].old ELSE @]
  /\ pending' = [pending EXCEPT ![t] = None]
  /\ UNCHANGED var

(* tms_remove_ufunc removes what it is told to; careful callers do not     *)
(* remove a function that another one calls.                               *)
RemoveFunction(t, f) ==
  /\ RemoveCalled \/ \A n \in Names : f \notin References(n)
  /\ Idle(t) /\ Defined(f)
  /\ ufunc' = [ufunc EXCEPT ![f] = None]
  /\ pending' = Moved(t)
  /\ UNCHANGED var

(* tms_set_var: neither the name of a function nor of a constant. *)
SetVar(t, v, kind) ==
  /\ Idle(t)
  /\ ~Defined(v) /\ var[v] # "constant"
  /\ var' = [var EXCEPT ![v] = kind]
  /\ UNCHANGED <<ufunc, pending>>

(* tms_remove_var *)
RemoveVar(t, v) ==
  /\ Idle(t) /\ var[v] = "variable"
  /\ var' = [var EXCEPT ![v] = "unset"]
  /\ UNCHANGED <<ufunc, pending>>

(* tmsolve_reset: the variables under their lock, then the functions. *)
ResetVars(t) ==
  /\ Idle(t)
  /\ var' = [n \in Names |-> IF var[n] = "constant" THEN var[n] ELSE "unset"]
  /\ UNCHANGED <<ufunc, pending>>

ResetFunctions(t) ==
  /\ Idle(t)
  /\ ufunc' = [n \in Names |-> None]
  /\ pending' = Moved(t)
  /\ UNCHANGED var

Next ==
  \E t \in Threads :
    \/ \E f \in Names, b \in Bodies : CheckName(t, f, b)
    \/ ParseBody(t) \/ AddFunction(t) \/ InstallFunction(t) \/ KeepOrRestore(t)
    \/ \E f \in Names : RemoveFunction(t, f)
    \/ \E v \in Variables : SetVar(t, v, "variable") \/ SetVar(t, v, "constant")
                            \/ RemoveVar(t, v)
    \/ ResetVars(t) \/ ResetFunctions(t)

Spec == Init /\ [][Next]_vars

-----------------------------------------------------------------------------
(* What callers may rely on: the table without the definitions that are    *)
(* still being searched.                                                   *)
Searching(t) == ~Idle(t) /\ pending[t].stage = "installed"
Settled == [n \in Names |->
              IF \E t \in Threads : Searching(t) /\ pending[t].name = n
              THEN pending[CHOOSE t \in Threads :
                             Searching(t) /\ pending[t].name = n].old
              ELSE ufunc[n]]

(* The types, and that a redefinition being searched has a function to go  *)
(* back to.                                                                *)
TypeOK == /\ ufunc \in [Names -> {None} \cup Bodies]
          /\ var \in [Names -> Kinds]
          /\ pending \in [Threads -> {None} \cup Call]
          /\ \A t \in Threads : Searching(t) => pending[t].old # None

Table == INSTANCE FuncTable WITH table <- Settled

(* A definition takes effect as a whole or not at all (tms_set_ufunction   *)
(* puts the new function in place before it searches it), and what takes   *)
(* effect makes no circle of calls.                                        *)
Implements == Table!Spec

(* "Circular function reference detected, ignoring changes": no functions  *)
(* the library has accepted call each other in a circle, by whatever       *)
(* sequence of definitions and redefinitions they were entered.            *)
NoCircularCall == Table!Acyclic(Settled)

(* A function that was accepted calls functions that are defined, whatever *)
(* was redefined or refused since it was parsed.                           *)
CallsDefined == \A n \in Names : \A m \in References(n) : Defined(m)

(* The search for circular definitions ends: it is a recursion without a   *)
(* memory of where it was, turning back only at the functions that call    *)
(* the one searched for, so none of those it expands may be met again.     *)
SearchEnds ==
  \A t \in Threads :
    Searching(t) =>
      LET f == pending[t].name
          Expanded(n) == IF f \in References(n) THEN {} ELSE References(n)
      IN  \A C \in SUBSET (Names \ {f}) :
            C # {} => \E n \in C : Expanded(n) \cap C = {}

(* "Function name can't shadow an existing variable", nor the reverse,     *)
(* whichever of the two was defined first.                                 *)
NoShadowing == \A n \in Names : Defined(n) => var[n] = "unset"

(* What a single caller makes of the steps of its calls: what an earlier   *)
(* step found out is still so at the next, and the calls of a body that    *)
(* was parsed, or is there to be put back, are to functions defined.       *)
PendingOK ==
  \A t \in Threads :
    ~Idle(t) =>
      LET c == pending[t]
      IN  /\ ~c.moved
          /\ c.stage # "checked" => \A n \in c.body.calls : Defined(n)
          /\ c.stage # "installed" => c.old = ufunc[c.name]
          /\ c.old = None => var[c.name] = "unset"
          /\ Searching(t) => ufunc[c.name] = c.body
          /\ Searching(t) => \A n \in c.old.calls : Defined(n)

(* The inductive invariant of a single caller that removes no function     *)
(* another one calls: why the definitions it makes can have no circle, though *)
(* only redefinitions are searched.                                        *)
IInv == TypeOK /\ PendingOK /\ CallsDefined /\ NoShadowing /\ NoCircularCall

=============================================================================
