------------------------------- MODULE Locking -------------------------------
(***************************************************************************)
(* The mutexes of internals.c and the calls that take them.  Threads call  *)
(* the library; a call is a list of instructions on locks and on what they *)
(* protect; an evaluation may call extended and user functions, which make *)
(* calls of their own in the middle of it, with or without the locks.      *)
(*                                                                         *)
(* What is abstracted: expressions and values; the hash map of a kind of   *)
(* variables or user functions is one datum, the mask and its size another *)
(* one, and ans is left out.  The mutex of the error database is left out  *)
(* too: nothing else is locked while it is held.                           *)
(***************************************************************************)
EXTENDS Naturals, Sequences, FiniteSets

CONSTANTS Threads,
          Calls,       \* the calls threads make, of those of Library
          Nested,      \* what evaluations call: "args", "float32", "float"
          MaxNested,   \* bound on the nested calls of a call
          MaxCalls,    \* bound on the calls of a thread
          None

VARIABLES owner,    \* thread that holds each mutex
          todo,     \* instructions left of the call of each thread
          call,     \* the call of each thread, None between calls
          called,   \* how many calls each thread made
          nested,   \* how many nested calls the call of each thread made
          mask,     \* tms_int_mask_size
          saved     \* old_mask_size in each thread's tms_int_solve_e_wmask

vars == <<owner, todo, call, called, nested, mask, saved>>

-----------------------------------------------------------------------------
(* The mutexes, in the order the code takes them; that of a table is named *)
(* like the table.                                                         *)
Parser == [real |-> <<"parser", "variables", "ufunc">>,
           int |-> <<"int_parser", "int_variables", "int_ufunc">>]
Evaluator == [real |-> <<"evaluator", "ufunc">>, int |-> <<"int_evaluator", "int_ufunc">>]
Variables == [real |-> "variables", int |-> "int_variables"]
Ufunc == [real |-> "ufunc", int |-> "int_ufunc"]
Mutexes == {"parser", "variables", "ufunc", "evaluator",
            "int_parser", "int_variables", "int_ufunc", "int_evaluator"}

Masks == {32, 64}
Instruction == [do : {"lock", "unlock"}, on : Mutexes]
                 \cup [do : {"read", "write"}, on : Mutexes \cup {"mask"}]
                 \cup [do : {"evaluate"}, on : {"real", "int"}]
                 \cup [do : {"set_mask", "enter_mask", "leave_mask"}, on : Masks]

Do(op, x) == <<[do |-> op, on |-> x]>>
Lock(ms) == [i \in 1 .. Len(ms) |-> [do |-> "lock", on |-> ms[i]]]
Unlock(ms) == [i \in 1 .. Len(ms) |-> [do |-> "unlock", on |-> ms[i]]]

-----------------------------------------------------------------------------
(* Parsing and evaluating with NO_LOCK *)
UnsafeParse(k) == Do("read", Variables[k]) \o Do("read", Ufunc[k])
                    \o (IF k = "int" THEN Do("read", "mask") ELSE <<>>)
UnsafeEvaluate(k) == Do("evaluate", k)

(* Faulty: the user functions stay locked. *)
EvaluateKeepsUfunc(k) ==
  Lock(Evaluator[k]) \o UnsafeEvaluate(k) \o Unlock(<<Head(Evaluator[k])>>)

(* tms_parse_expr, tms_evaluate and their integer variants *)
ParseExpr(k) == Lock(Parser[k]) \o UnsafeParse(k) \o Unlock(Parser[k])
Evaluate(k) == Lock(Evaluator[k]) \o UnsafeEvaluate(k) \o Unlock(Evaluator[k])

(* Faulty: the parser's locks are released after the evaluation. *)
SolveLocked(k) ==
  Lock(Parser[k]) \o UnsafeParse(k) \o Evaluate(k) \o Unlock(Parser[k])

(* tms_solve_e, tms_int_solve_e: the parser's locks are released before    *)
(* the evaluator's are taken.  Both stop after a parser that failed.       *)
SolveE(k) == ParseExpr(k) \o Evaluate(k)

(* Faulty: no lock is taken. *)
SetIntMaskUnlocked(size) == Do("set_mask", size)

(* tms_set_int_mask *)
SetIntMask(size) ==
  Lock(Evaluator["int"]) \o Do("set_mask", size) \o Unlock(Evaluator["int"])

(* Faulty: the old mask is put back once the locks are released. *)
SolveWithMaskLate(size) ==
  Lock(Evaluator["int"]) \o Do("enter_mask", size)
    \o UnsafeParse("int") \o UnsafeEvaluate("int")
    \o Unlock(Evaluator["int"]) \o Do("leave_mask", size)

(* tms_int_solve_e_wmask, and what it does with a mask size it refuses *)
SolveWithMask(size) ==
  Lock(Evaluator["int"]) \o Do("enter_mask", size)
    \o UnsafeParse("int") \o UnsafeEvaluate("int")
    \o Do("leave_mask", size) \o Unlock(Evaluator["int"])
RefuseMask == Lock(Evaluator["int"])

(* _tms_set_var_unsafe, _tms_set_int_var_unsafe: the integer is sign       *)
(* extended under the mask and the name searched for among the functions;  *)
(* a name that is refused ends them there.                                 *)
SignExtend(k) == IF k = "int" THEN Do("read", "mask") ELSE <<>>
SetVarUnsafe(k) == LET checks == SignExtend(k) \o Do("read", Ufunc[k])
                   IN  {checks, checks \o Do("write", Variables[k])}

(* Faulty: a variable is set without the lock. *)
SetVarUnlocked(k) == SetVarUnsafe(k)

(* tms_set_var, tms_set_int_var: the lock of the variables is all that     *)
(* they take.                                                              *)
SetVar(k) == {Lock(<<Variables[k]>>) \o s \o Unlock(<<Variables[k]>>) : s \in SetVarUnsafe(k)}

(* tmsolve_reset takes the locks one at a time. *)
Clear(m) == Lock(<<m>>) \o Do("write", m) \o Unlock(<<m>>)
Reset == Clear("variables") \o SetIntMask(32) \o Clear("int_variables")
           \o Clear("ufunc") \o Clear("int_ufunc")

(* tms_set_ufunction: the parser's locks are all that it takes. *)
SetUfunction(k) ==
  LET new == Do("read", Ufunc[k]) \o Do("read", Variables[k]) \o ParseExpr(k)
  IN  {new, new \o Do("write", Ufunc[k])}

(* What functions do in the middle of an evaluation: _tms_solve_list and   *)
(* its like with NO_LOCK, the functions float32, float64 of the scientific *)
(* and float, double of the integer evaluator with locks.                  *)
SolveArguments(k) == UnsafeParse(k) \o UnsafeEvaluate(k)
BinToFloat == SolveWithMask(32)
FromFloat == SolveE("real")

(* The calls, with the shorter course of those that stop early. *)
Library ==
  [tms_parse_expr |-> {ParseExpr("real")},
   tms_parse_int_expr |-> {ParseExpr("int")},
   tms_evaluate |-> {Evaluate("real")},
   tms_int_evaluate |-> {Evaluate("int")},
   tms_solve |-> {Do("read", "variables") \o ParseExpr("real"),
                  Do("read", "variables") \o SolveE("real")},
   tms_solve_e |-> {ParseExpr("real"), SolveE("real")},
   tms_int_solve_e |-> {ParseExpr("int"), SolveE("int")},
   tms_int_solve_e_wmask |-> {SolveWithMask(32), SolveWithMask(64)},
   wmask_refused |-> {RefuseMask},
   tms_set_var |-> SetVar("real"),
   tms_set_int_var |-> SetVar("int"),
   tms_set_int_mask |-> {SetIntMask(32), SetIntMask(64)},
   tms_remove_var |-> {Do("read", "variables"),
                       Do("read", "variables") \o Do("write", "variables")},
   tms_remove_ufunc |-> {Do("write", "ufunc")},
   tms_set_ufunction |-> SetUfunction("real"),
   tms_set_int_ufunction |-> SetUfunction("int"),
   tmsolve_reset |-> {Reset}]

ASSUME LockingAssumption ==
  /\ Calls \subseteq DOMAIN Library
  /\ Nested \subseteq {"args", "float32", "float"}
  /\ MaxNested \in Nat /\ MaxCalls \in Nat
  /\ None \notin Threads \cup Masks

-----------------------------------------------------------------------------
Idle(t) == todo[t] = <<>>
AboutTo(t, op) == ~Idle(t) /\ Head(todo[t]).do = op
On(t) == Head(todo[t]).on
Proceed(t) == /\ todo' = [todo EXCEPT ![t] = Tail(@)]
              /\ call' = IF Len(todo[t]) = 1 THEN [call EXCEPT ![t] = None] ELSE call

Init == /\ owner = [m \in Mutexes |-> None]
        /\ todo = [t \in Threads |-> <<>>]
        /\ call = [t \in Threads |-> None]
        /\ called = [t \in Threads |-> 0]
        /\ nested = [t \in Threads |-> 0]
        /\ mask = 32
        /\ saved = [t \in Threads |-> None]

StartCall(t) ==
  /\ Idle(t) /\ called[t] < MaxCalls
  /\ \E c \in Calls :
       /\ \E script \in Library[c] : todo' = [todo EXCEPT ![t] = script]
       /\ call' = [call EXCEPT ![t] = c]
  /\ called' = [called EXCEPT ![t] = @ + 1]
  /\ nested' = [nested EXCEPT ![t] = 0]
  /\ UNCHANGED <<owner, mask, saved>>

(* pthread_mutex_lock, on mutexes that are not recursive *)
LockMutex(t) ==
  /\ AboutTo(t, "lock") /\ owner[On(t)] = None
  /\ owner' = [owner EXCEPT ![On(t)] = t]
  /\ Proceed(t)
  /\ UNCHANGED <<called, nested, mask, saved>>

UnlockMutex(t) ==
  /\ AboutTo(t, "unlock")
  /\ owner' = [owner EXCEPT ![On(t)] = None]
  /\ Proceed(t)
  /\ UNCHANGED <<called, nested, mask, saved>>

Access(t) ==
  /\ AboutTo(t, "read") \/ AboutTo(t, "write")
  /\ Proceed(t)
  /\ UNCHANGED <<owner, called, nested, mask, saved>>

SetMask(t) ==
  /\ AboutTo(t, "set_mask")
  /\ mask' = On(t)
  /\ Proceed(t)
  /\ UNCHANGED <<owner, called, nested, saved>>

(* Faulty: the old mask is not saved.                                      *)
EnterMaskUnsaved(t) ==
  /\ AboutTo(t, "enter_mask")
  /\ mask' = On(t)
  /\ Proceed(t)
  /\ UNCHANGED <<owner, called, nested, saved>>

EnterMask(t) ==
  /\ AboutTo(t, "enter_mask")
  /\ saved' = [saved EXCEPT ![t] = mask]
  /\ mask' = On(t)
  /\ Proceed(t)
  /\ UNCHANGED <<owner, called, nested>>

LeaveMask(t) ==
  /\ AboutTo(t, "leave_mask")
  /\ mask' = saved[t]
  /\ saved' = [saved EXCEPT ![t] = None]
  /\ Proceed(t)
  /\ UNCHANGED <<owner, called, nested>>

(* An evaluation ends, well or not.                                        *)
FinishEvaluation(t) ==
  /\ AboutTo(t, "evaluate")
  /\ Proceed(t)
  /\ UNCHANGED <<owner, called, nested, mask, saved>>

(* It calls an extended or user function: one that solves its arguments,   *)
(* or one that converts to or from the other number system.                *)
CallNested(t, n) ==
  /\ AboutTo(t, "evaluate") /\ nested[t] < MaxNested
  /\ \/ n = "args" /\ todo' = [todo EXCEPT ![t] = SolveArguments(On(t)) \o @]
     \/ /\ n = "float32" /\ On(t) = "real"
        /\ todo' = [todo EXCEPT ![t] = BinToFloat \o @]
     \/ /\ n = "float" /\ On(t) = "int"
        /\ todo' = [todo EXCEPT ![t] = FromFloat \o @]
  /\ nested' = [nested EXCEPT ![t] = @ + 1]
  /\ UNCHANGED <<owner, call, called, mask, saved>>

Run(t) == \/ LockMutex(t) \/ UnlockMutex(t) \/ Access(t)
          \/ SetMask(t) \/ EnterMask(t) \/ LeaveMask(t)
          \/ FinishEvaluation(t) \/ \E n \in Nested : CallNested(t, n)

Next == \E t \in Threads : StartCall(t) \/ Run(t)

Spec == Init /\ [][Next]_vars

(* The scheduler lets every thread that is not blocked run.                *)
FairSpec == Spec /\ \A t \in Threads : WF_vars(Run(t))

-----------------------------------------------------------------------------
(* The types: what is left to do are instructions on known mutexes, and a  *)
(* thread inside tms_int_solve_e_wmask has a mask saved.                   *)
TypeOK == /\ owner \in [Mutexes -> Threads \cup {None}]
          /\ \A t \in Threads : \A i \in DOMAIN todo[t] : todo[t][i] \in Instruction
          /\ \A t \in Threads : IF Idle(t) THEN call[t] = None ELSE call[t] \in Calls
          /\ called \in [Threads -> 0 .. MaxCalls]
          /\ nested \in [Threads -> 0 .. MaxNested]
          /\ mask \in Masks
          /\ saved \in [Threads -> Masks \cup {None}]

(* "Releases locks required by the parser": a thread holds a mutex exactly *)
(* when it is going to release it before it takes it again, so none when   *)
(* its call returns, and it never releases one that another thread holds.  *)
HeldUntilReleased ==
  \A t \in Threads, m \in Mutexes :
    owner[m] = t <=>
      \E i \in DOMAIN todo[t] :
        /\ todo[t][i] = [do |-> "unlock", on |-> m]
        /\ \A j \in 1 .. i - 1 : todo[t][j] # [do |-> "lock", on |-> m]

(* Some thread in a call can go on: they do not all wait for a mutex.      *)
Blocked(t) == AboutTo(t, "lock") /\ owner[On(t)] # None
NoDeadlock ==
  (\E t \in Threads : ~Idle(t)) => \E t \in Threads : ~Idle(t) /\ ~Blocked(t)

(* What calls touch without its lock: those of internals.c that look names *)
(* up or remove them, tms_solve in its search for complex variables,       *)
(* tms_int_solve_e_wmask, whose parser goes by the evaluator's locks, and  *)
(* what evaluations call with NO_LOCK.                                     *)
Exposed == [tms_set_var |-> {"ufunc"},
            tms_set_int_var |-> {"int_ufunc", "mask"},
            tms_remove_var |-> {"variables"},
            tms_remove_ufunc |-> {"ufunc"},
            tms_set_ufunction |-> {"ufunc", "variables"},
            tms_set_int_ufunction |-> {"int_ufunc", "int_variables"},
            tms_solve |-> {"variables"},
            tms_int_solve_e_wmask |-> {"int_variables"}]
ExposedBy(c) == IF c \in DOMAIN Exposed THEN Exposed[c] ELSE {}
Exposes(t) == ExposedBy(call[t])
                \cup (IF nested[t] > 0 THEN {"variables", "int_variables"} ELSE {})

Writes(t) == IF AboutTo(t, "write") THEN {On(t)}
             ELSE {"mask" : op \in {o \in {"set_mask", "enter_mask", "leave_mask"} :
                                      AboutTo(t, o)}}
Reads(t) == IF AboutTo(t, "read") THEN {On(t)}
            ELSE IF AboutTo(t, "evaluate")
            THEN {Ufunc[On(t)]} \cup {m \in {"mask"} : On(t) = "int"}
            ELSE {}

(* "Thread safe, unless NO_LOCK is used", and where it is not: two threads *)
(* are about to touch the same data, one of them to write it, only if one  *)
(* of their calls exposes just that.  So the library is race free between  *)
(* calls that expose nothing, and all that its locks leave open is Exposed.*)
NoRace ==
  \A t, u \in Threads :
    t # u => Writes(t) \cap (Reads(u) \cup Writes(u)) \subseteq Exposes(t) \cup Exposes(u)

SeesMask(t) == "mask" \in Reads(t) \ Exposes(t)
MaskHonoured ==
  \A t \in Threads :
    SeesMask(t) =>
      \/ /\ saved[t] # None
         /\ \E i \in DOMAIN todo[t] : todo[t][i] = [do |-> "leave_mask", on |-> mask]
      \/ \A u \in Threads : saved[u] = None

CallersMask == IF \E t \in Threads : saved[t] # None
               THEN saved[CHOOSE t \in Threads : saved[t] # None] ELSE mask

(* "an integer mask to be used one time": what is parsed and evaluated     *)
(* under tms_int_solve_e_wmask sees its mask to the end, and what another  *)
(* thread parses or evaluates never does (tms_set_int_var, which exposes   *)
(* the mask, may); the mask as the callers of tms_set_int_mask know it     *)
(* changes when they set it, to what they set, and is not otherwise        *)
(* affected.                                                               *)
MaskOneTime ==
  [][/\ MaskHonoured'
     /\ CallersMask' = IF \E t \in Threads : SetMask(t)
                       THEN On(CHOOSE t \in Threads : SetMask(t)) ELSE CallersMask]_vars

(* Every call returns. *)
CallsReturn == \A t \in Threads : ~Idle(t) ~> Idle(t)
=============================================================================
