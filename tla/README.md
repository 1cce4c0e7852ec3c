# Verification of libtmsolve

TLA+ models of libtmsolve, a C library that parses and evaluates mathematical
expressions over real and complex numbers and, in its integer mode, over
integers of 1 to 64 bits. The models are checked with TLC on small instances,
and the properties of all but one of them are proved with TLAPS for every value
of their constants.

All paths below are relative to the repository; `parser_common.h`, a template
that is included once by `parser.c` and once by `int_parser.c`, is
`src/src/parser_common.h`.

- [The system](#the-system): parts, state, interactions, what is hard
- [Modules](#modules): what models what, and how
- [Runs](#runs): what TLC checks, with bounds and fairness
- [Proofs](#proofs): what TLAPS proves, and along which argument
- [What the checks found](#what-the-checks-found)
- [What is not modelled](#what-is-not-modelled)
- [Plan](#plan)

## The system

### Components

| Component | Source | State | Operations |
| --- | --- | --- | --- |
| Evaluation order of a subexpression | `parser_common.h` 224-525, 615-676, 829-878; `evaluator.c` | node array: operators, two operands each, `next`, `result`; label references | set operands, set evaluation order, set result pointers, generate labels, set label values, evaluate |
| Composition of subexpressions | `parser_common.h` 48-222, 527-613, 741-827; `parser.c`, `int_parser.c` | array of subexpressions with depth, start, end, extended/user function; result of each | find parentheses, sort by depth, link results to operands, duplicate, delete |
| Error database | `error_handler.c` | `error_table[EH_MAX_ERRORS]`, `last_error`, counters `fatal`, `non_fatal` | save, clear, count, find, modify last, print |
| User functions and variables | `internals.c` 350-1140 | hash maps of variables, functions and user functions, one set per number system | set, remove, look up, reset; search for circular references |
| Locks and the integer mask | `internals.c`, `evaluator.c`, `scientific.c`, parsers | eight mutexes, `tms_int_mask`, `tms_int_mask_size` | every public call; `tms_set_int_mask`, `tms_int_solve_e_wmask` |
| Call depth | `evaluator.c` 22-51, 490-519 | two static counters, unsynchronised | incremented and tested on entry, decremented on return |
| Solving and retrying | `scientific.c` 104-291, `evaluator.c` 53-175 | none of its own; errors, labels, arguments | parse and evaluate in the real domain, then in the complex one; solve argument lists |
| Integer operators and functions | `bitwise.c`, `evaluator.c` 280-485, `string_tools.c` | the mask | operators, rotations, shifts, masks, factorial, power, `rand` |
| Number theory and fractions | `bitwise.c` 640-827, `scientific.c` 293-418 | none | gcd, lcm, multinv, factorisation, reduction of fractions |
| String tools | `string_tools.c` | none | scan, match parentheses, read and print numbers, split arguments |
| Scientific functions | `function.c`, `tms_complex.c` | debug flag | integrate, derive, find extrema, complex wrappers |
| Matrices | `matrix.c` | none | create, multiply, eliminate, invert |
| Hash tables | `hashmap.c`, `hashset.c` | open addressing table | get, set, delete, scan |
| C++ binder, Python package | `c++_binder.cpp`, `src/python` | none | wrappers over `<complex>` |
| Version, build, tests | `version.c`, `src/tests`, CMake files | none | none |

### How they interact

- **Calls.** `tms_solve_e` and `tms_int_solve_e` parse (taking and releasing the
  parser's locks), then evaluate (taking and releasing the evaluator's). Between
  the two nothing is held: another thread may change variables, functions or the
  mask. An evaluation calls back into the library: extended functions and user
  functions parse and evaluate their argument strings with `NO_LOCK` under the
  locks of the evaluation that called them; `float32`, `float64`, `float` cross
  from one number system into the other, with locks.
- **Shared state.** Tables of variables and functions are shared by parser,
  evaluator and the public setters; so is the error database, which the library
  itself reads to decide what to do next (`tms_solve` retries with complex
  numbers if the first evaluation left errors), and the mask.
- **Ownership.** A parsed expression refers to functions by name and to
  variables by value, and is evaluated many times, its labels given new values
  each time (arguments of a user function, points of an integral).

### What is hard, and what makes each part correct

- *Evaluation order.* Correct when the answer is that of the operators under
  their precedence and left associativity. There is no tree: three passes over
  an array must agree on who is applied first (links), where each result goes
  (`result`) and in which node each operand is (placement). The pass that sets
  result pointers takes a shortcut through the previous node. No result may be
  stored over an operand, or the second evaluation is wrong.
- *Error database.* Correct when it is a bounded log: a clear removes the errors
  it is asked to and no other, a full table loses its oldest error, counters and
  table agree. Compaction and shifting keep two representations in step; printing
  reads without the lock.
- *User functions.* Correct when no accepted functions call each other in a
  circle, the search for circles ends, calls lead to defined functions, and a
  refused definition changes nothing. Only redefinitions are searched, after the
  new body is already in the table; several steps take no lock.
- *Locks.* Correct when every call returns with its locks released, nothing is
  read while another thread writes it, and a mask that is set for one expression
  is seen by it and by nothing else.
- *Integers.* Correct when, seen through a mask of any width, the answers are
  those of a machine of that width, although variables are 64 bits wide, only
  some operations mask or sign extend, and the mask may change between parsing
  and evaluation. No operation may stop the program.
- *Number theory.* Correct by definition of the functions; the loops end on
  conditions about values, and their locals are `int` in some places and
  `int64_t` in others.
- *Composition of subexpressions.* Correct when the text is accepted exactly if it
  is an expression, and the links between its subexpressions are the tree of that
  expression. The parser never follows the nesting: it sorts subexpressions by
  depth, and takes an operand for a result when one of them begins where the
  operand does. A copy must not point into the original.
- *Solving.* Correct when the answer is what the text means, and a failure leaves
  an error. Arguments stay text until a call, so expressions are parsed,
  evaluated and deleted in the middle of the evaluation of others, sharing the
  errors, the depth counter and the labels; an extended function remembers its
  result; functions may be redefined or removed under a parsed expression; a
  complex evaluation goes on with the tree a failed real one left.
- *Hash tables.* Correct when they are maps whatever the hashes. Every search ends
  at a free bucket, which insertion, growth that fails, deletion by shifting back
  and shrinking must all leave; entries wrap around the end of the array.

`PROJECT.json` lists each hazard at its line, with the properties that cover it.

## Modules

| Module | Models | Extends / instantiates |
| --- | --- | --- |
| `Precedence` | abstract: an expression as a row of operators and terms; a step applies an operator no neighbour of which comes first | |
| `EvalOrder` | the node array: operand placement, links, result pointers, labels, evaluation | instantiates `Precedence` |
| `EvalOrderInv` | the inductive invariant of `EvalOrder` | extends it |
| `EvalOrderProofs` | theorems about both | extends `EvalOrderInv` |
| `ErrorLog` | abstract: a bounded sequence of errors | |
| `ErrorDb` | slots, counters, compaction, printing | instantiates `ErrorLog` |
| `ErrorDbProofs` | theorems | extends `ErrorDb` |
| `MCErrorDb` | the symmetry `ErrorDb` is checked with | extends it |
| `FuncTable` | abstract: a table of functions whose definitions take effect as a whole, without a circle, or not at all | |
| `UserFuncs` | definition, search, putting back, removal, reset | instantiates `FuncTable` |
| `UserFuncsProofs` | theorems | extends `UserFuncs` |
| `Locking` | mutexes and every public call that takes one, nested calls, the one-time mask | |
| `LockingProofs` | theorems | extends `Locking` |
| `BitSets` | powers of two, the bits of an integer, the number a set of bits stands for | |
| `WordMachine` | abstract: a machine whose words are sets of bit positions | extends `BitSets` |
| `IntWidth` | operators and functions of the integer mode on full-width variables and a mask | extends `BitSets`, instantiates `WordMachine` |
| `IntWidthProofs` | theorems | extends `IntWidth` |
| `Text` | the string operations of the parsers: signs, parentheses, arguments, names, numbers, unary operators | |
| `ExprTree` | from the text to the linked subexpressions, the table of labels, duplication, deletion | extends `Grammar` |
| `Grammar` | abstract: the expressions of the library and their trees | extends `Text` |
| `MCExprTree` | the texts `ExprTree` is checked with | extends it |
| `Expressions` | values, terms, texts: what `Solve` and `Meaning` speak of | |
| `Solve` | `tms_solve`, `tms_solve_e`, evaluation with nested calls, kept expressions, user functions | extends `Expressions` |
| `SolveProofs` | theorems | extends `Solve` |
| `Meaning` | the number an expression stands for, independent of parsing and evaluation | extends `Solve` |
| `MCSolve` | functions and expressions for `Solve` | extends `Meaning` |
| `Table` | abstract: a partial map | |
| `HashMap` | `hashmap.c`, one step per bucket | instantiates `Table` |
| `HashMapProofs` | theorems | extends `HashMap` |
| `MCHashMap` | items and hash functions for `HashMap` | extends it |
| `NumTheory` | gcd, lcm, multinv, factors, fractions, one step per round of a loop | |
| `NumTheoryProofs` | theorems | extends `NumTheory` |
| `MCNumTheory` | the arguments `NumTheory` is checked with | extends it |

Definitions called *faulty variant* in the modules are not part of the models:
each is a plausible bug of the code, and is there to show that the property it
is paired with in `PROJECT.json` would notice it.

### EvalOrder

One subexpression of `op_count` operators, each with a priority (1 to 3 in
`parser.c`, 1 to 7 in `int_parser.c`; `MaxPriority` here). The array of nodes is three functions: `operand`
over the places a value is stored in (`<<n, "left">>`, `<<n, "right">>` and the
answer), `next`, and `result` (the place the result of a node goes). The text is
left out: operand *a* is its index, `labeled` says which are labels, and `integer`
whether `int_parser.c` and the integer evaluator are at work. `**` is alone at the
highest of the integer priorities; that evaluator sign-extends both of its operands
in the node (`evaluator.c` 439-440, before it may fail), which no other operator does.
`extended` is the set of operands so overwritten, until a label's value or a result
is stored there; to extend twice is to extend once, so the power reads what it
always read, while any other operator that met such a value would find `Garbage`
(`Read`). This takes the mask to be the same in all evaluations of one expression.

| Action | Code |
| --- | --- |
| `SetFirstOperand`, `SetNextOperand`, `RejectOperand` | `_tms_set_all_operands`, `_tms_set_operand` |
| `NoOrder`, `FindStartNode`, `LinkNode`, `NextPriority`, `EndLinks` | `_tms_set_evaluation_order`: the two nested loops, one step for each node found |
| `SetResultPointer`, `SetLastResultPointer` | `_tms_set_result_pointers`; `LeftScan` and `RightScan` are its two loops with `prev_index`, `prev_left`, `prev_right` |
| `GenerateLabelsRefs`, `SetLabelsValues` | `_tms_generate_labels_refs`, `tms_set_labels_values` |
| `StartEvaluation`, `EvaluateNode`, `FailNode`, `FailAfterStore` | the loop of `_tms_evaluate_unsafe` and its integer variant, the write to the operands of `**` included (`Extension`); failures before the result is stored, and after (reals only) |

A value is the term that was computed, with the generation of its labels, so
that two computations agree only if they combined the same operands in the same
way. The refinement mapping to `Precedence` says which operators are still to be
applied (`LiveNodes`) and in which place the term of each gap between two of
them is (`GapSlot`).

### ErrorDb

Slots hold the number of the save that filled them (the message), a facility and
a severity. `Save` is `tms_save_error` with the shift of a full table (which
holds one error less than its size); `Clear` is `tms_clear_errors` with both of
its loops (`Freed`, `Compacted`); `Modify` is `tms_modify_last_error`;
`StartPrint`, `PrintSlot`, `EndPrint` are `tms_print_errors`, which reads one
slot after the other without the lock, and `EndLoop` is where it finds no more;
`EndPrint` is the clear, a critical section later. `Compacted` is the *outcome* of the
moves of the code as it is, with its defect (see below). Two variables are not in the
code, and no action reads them: `orderly` remembers whether every clear so far was
`Ordered` (nothing is kept after an error that is cleared, but for the last error),
`moved` the prints under which another thread moved errors. Clears are not restricted.

### UserFuncs

A body is two sets of functions: those called by its subexpressions, and those
in the argument strings of the extended and user functions it calls, because the
code treats the two differently (`get_all_ufunc_references` sees the first,
`_ufunc_is_within_arglist` the second). `tms_set_ufunction` is three steps per
thread (checks of the name; parsing; update and search), with the pointer to the
old entry that it holds over all of them (`old`; `moved` when another thread
changed the table in between). `RemoveCalled` says whether functions others call
may be removed.

### Locking

A call is a sequence of instructions: lock, unlock, read and write of a table,
evaluate, change of the mask. `Library` gives the sequences of the public calls
as they are composed in the code (`SolveE` of `ParseExpr` and `Evaluate`, and so
on), early returns included. `CallNested` puts the instructions of what an
extended function does in front of the rest of the evaluation. Mutexes are not
recursive, as in the code. A setter of variables takes the lock of the variables
alone, but sign extends its value under the mask and looks the name up among the
functions (`SetVarUnsafe`).

`Exposed` is the list of the data that a call touches without the lock of it; in a
nested call, with `NO_LOCK`, variables are added.

### IntWidth

Operators and functions of `evaluator.c` and `bitwise.c` on `Bits`-bit two's
complement variables, with masking and sign extension exactly where the code has
them. A behaviour alternates parsing an operator with a right operand,
evaluating it on `ans`, and changing the mask, in any order. Where C leaves the
behaviour undefined, the model does what the compiled code does on x86: signed
overflow wraps around, a shift by the full width is a shift by nothing, and the
least integer divided by -1 traps.

`WordMachine` is independent of it: its words are sets of bit positions, and it
has no bits above the width. Operators that see the sign leave any word there;
`OperationsRight` says what they answer.

### NumTheory

A call per behaviour, a round of a loop per step: `GcdStep` (`tms_gcd`),
`NextOperand`/`FoldGcd`/`FoldLcm` (`_tms_gcd`, `_tms_lcm` over their arguments),
`EuclidStep` (the table of `multinv`), `FactorFound`/`DivideAgain`/`NoFactor`
(`tms_find_factors`), `CommonFactor`/`OtherFactor` (`tms_reduce_fraction`), which
ends with the product of the factors that are left (`Expand`, a recursive function).
Limits of the integer types are constants; integers are made of bits
(`BitsAssumption`). The arguments may be any integers of their types (parts of a
fraction any that are not negative). The least one has no absolute value: its negation,
undefined in C, wraps (`Magnitude`), as it does compiled by gcc at every level of
optimisation.

### Text, ExprTree, Grammar

`Text` takes the string functions of `string_tools.c` that the parsers call one by
one, over sequences of characters: `tms_find_closing_parenthesis`, `tms_get_args`,
`_tms_combine_add_sub`, `tms_get_name`, `tms_find_endofnumber`, `tms_read_value`,
`_tms_expand_macros` and so on. A number is its text; its value is left out.

| Action of `ExprTree` | Code |
| --- | --- |
| `Read`, `Normalise` | the entry of `_tms_parse_expr_unsafe`: empty input, spaces, signs, unary operators |
| `OpenCall`, `Open`, `Close`, `Sort` | `init_math_expr`: one step per parenthesis, then `qsort` |
| `ParseSubexpr` | one round of the loop over subexpressions: function, operators, operands, links |
| `Finish` | `_tms_generate_labels_refs` |
| `Duplicate`, `Delete` | `dup_mexpr`, `delete_math_expr` |

The nodes of a subexpression are left to `EvalOrder`; here it has operators and
operands. A link says to which operand, of which subexpression, of which object
(expression or copy) a result goes. `Sort` picks any order of equal depths, as
`qsort` may. `Grammar` reads a text from the outside to the inside and takes from
`Text` only the character at a position, the least of a set of positions and the
set of signs: its numbers, names, parentheses and lists are its own. On all texts
of the run, what `ExprTree` accepts and refuses was compared with the compiled
library, and is the same.

### Expressions, Solve, Meaning

An expression is a sum of terms: numbers, labels, roots of expressions, calls of
extended and user functions, a division by zero, a name that is not defined, a
parenthesis that is not closed. Values are Gaussian integers, on which the
functions used are exact. Parentheses and arguments nest up to `Nesting` deep.

| State | Code |
| --- | --- |
| `st.errors` | the error table: facility and severity of what is in it |
| `st.depth` | `stack_depth` of `tms_evaluate` |
| `st.dangling` | in no variable: whether a parse freed labels that its caller still has |
| `tab` | the table of user functions, each with its parsed body |
| `held` | an expression a program keeps, its text, the label values last given |
| `last` | in no variable: what the last call was about and answered |

`st` is handed from call to call, so a nested call sees and changes what the call
around it does. A parsed expression is a record of its terms with the results they
remember, its labels, the values of the label operands, and the number system.

| Operator or action | Code |
| --- | --- |
| `Parse`, `SolveE`, `SolveList` | `tms_parse_expr`, `tms_solve_e`, `tms_solve_list` |
| `Avg`, `Extreme`, `BaseN`, `Derivative`, `Integrate` | the extended functions, with their ways to clear, keep or replace errors; `CallExtended` adds `rand` and the check of the number of arguments |
| `EvalExt`, `EvalUser`, `EvalRoot`, `EvalSum`, `EvalTerms` | the parts of `_tms_evaluate_unsafe` |
| `EvaluateWith`, `Evaluators`, `Evaluator`, `Evaluate` | `tms_evaluate`: one entry; with room for `n` more; with all the room; a call of it |
| `SolveComplex`, `SolveReal`, `SolveText`, `TmsSolve` | `tms_solve`: the choice of the number system, the second parse or the second evaluation, the printing that clears errors |
| `DefineFunction`, `RemoveFunction` | `tms_set_ufunction`, `tms_remove_ufunc` |
| `ParseHeld`, `SetLabelsValues`, `EvaluateHeld`, `DeleteHeld` | the calls by which a program keeps an expression |

An evaluation calls itself through the arguments of functions. The calls are bounded
by the depth counter, so the evaluator is a recursive function of the room that is
left: `Evaluators[n]` hands `Evaluators[n - 1]` to what is called in it. Every
evaluation tests the counter before anything else, so `Evaluators[0]` is never asked
for more than its error. Inside a text, levels of parentheses are a recursive function
too, and so are the terms of a level and the arguments of a call; no operator is
`RECURSIVE`, as the module is proved about.

`Careful` says that callers see to it that the arguments of functions parse where they
are solved (`ArgumentsParse`), which the parser does not check until the call.

`Meaning` says what the answer should be: it parses nothing, remembers nothing and has
no errors. Where the code is known not to give that answer, it says so by name
(`Lasting`, `CutsDigits`, `Value`).

### HashMap

`buckets` is the array, a bucket its item and its distance from home. `Set`, `Get`,
`Delete`, `ToArray` begin an operation; `SetStep`, `GetStep`, `DeleteStep`,
`ShiftStep`, `ScanStep` are a round of its loop; `ResizeTake`, `ResizePlace`,
`ResizeDone` are `resize0`, in the middle of an insertion or a deletion; `Clear` is
one step. An allocation may fail in any call that makes one. `Table` is the
promise: each operation takes effect at once.

## Runs

`tlc -config <cfg> <module>`; `PROJECT.json` lists them. Passing runs also show
that every action of the module fires within the bounds.

### Passing

**eval_order** (`EvalOrderInv`, `EvalOrder.cfg`): up to 4 operators of 3
priorities, real or integer, any set of labelled operands, labels given new values once, any
number of evaluations in between, each of which may fail at any node.
- `RightAnswer`: the answer is the term that precedence and left associativity
  give.
- `OperandsKept`: each operand is still in a node, with the value last given to
  its label; if the integer power has sign-extended it there, no other operator
  reads that place.
- `Implements`: each step of the evaluator finds in its two operands the terms on
  the two sides of its operator (refinement of `Precedence`), so that it reads
  neither garbage nor results of an earlier evaluation.
- `Terminates`: the loops of parser and evaluator end.

Four operators and three priorities give every relation of a node to its two
candidates and to the previous node: the shortcut of the scan is taken on both
sides, and past two nodes. What is more than four operators is left to the
proofs, and so are the seven priorities of the integer parser. Two generations of labels are enough to tell a stale value from the
last one. Fairness: the caller is free to stop; parser and evaluator are
sequential code that runs on (`WF` of `Parse` and of `EvaluateNode`).

**error_db** (`MCErrorDb`, `ErrorDb.cfg`): two threads, a table of 4 slots (so 3
errors), two facilities, 4 errors saved, clears, modifications and prints in any
order. Threads are alike and so are facilities (`SYMMETRY`).
- `WithinTable`: the table is never written past its end.
- `ClearsPrinted`: what a print clears it has printed, or it was saved in the gap
  between its loop and its clear; not claimed of a print under which another thread
  moved errors. With one thread neither can be, so everything was printed. With two,
  both happen: this is not the atomic operation of `error_handler.h` 61.
- `Implements`: the refinement of `ErrorLog`, step by step; no clear loses or keeps an
  error it should not, or leaves a hole; a full table loses its oldest only; the
  counters count what is in the table. It is claimed up to the first clear that is not
  `Ordered`, which is where the code breaks its promise.

Four errors in a table of three drop the oldest once, with either severity and
with clears and prints before, between and after; three errors are also what a clear
needs not to be ordered. The code depends on nothing further back than that.

**user_funcs** (`UserFuncs`, `UserFuncs.cfg`): one caller, three names, bodies
with up to two calls, of either kind; one of the names may also be a variable or
constant.
- `NoCircularCall`: no functions that were accepted call each other in a circle.
- `SearchEnds`: the recursion of the search meets no function it is in the middle
  of.
- `CallsDefined`: a function that was accepted calls functions that exist.
- `NoShadowing`: no name is a variable and a function.
- `Implements`: refinement of `FuncTable`.

Circles of one, two and three functions and a function outside a circle that
refers into it exist with three names; longer ones are left to the proofs.

**locking** (`Locking`, `Locking.cfg`): two threads, each making any two of 16
calls, evaluations that solve arguments or convert with `float32`, one nested
call per call.
- `CallsReturn`: every call returns, so threads never wait for each other for ever.
- `HeldUntilReleased`: a mutex is held exactly from its lock to its unlock; no
  call returns with one.
- `NoRace`: two threads are about to touch the same data, one of them to write it,
  only if one of their calls touches just that without its lock (`Exposed`). All
  calls are covered; the library is not race free, and this says where it is not. No
  entry of `Exposed` can be left out: without any one of them the property fails.
- `MaskOneTime`: the one-time mask is seen by what is evaluated under it, to its
  end, and by no other thread, unless it is in `tms_set_int_var`, which reads the
  mask without its lock; the callers' mask is put back.

Two threads with two calls each reach every overlap of two calls, and the state
a call leaves for the next. Cycles of three threads would need three mutexes in
three orders; the orders of the mutexes are the same in all calls but those of
`locking_floats`. Fairness: every thread that is not blocked runs (`WF` of its
`Run`), as a scheduler provides. Mutexes need not be fair here, as calls are
bounded.

**int_width** (`IntWidth`, `IntWidth.cfg`): variables of 8 bits instead of 64,
masks of 1, 2, 4 and 8 bits, literals 0, 1, 2, 3, 7, 8, 128 and 255, of either
sign and base; 31 operators and functions in any order, with changes of the mask.
- `Implements`: refinement of `WordMachine`. An operation that saw a bit above
  the mask, or a literal read under a wider mask, would show.
- `OperationsRight`: division, modulo, arithmetic shift, power, `min`, `max` and
  `abs` give the signed answer for operands of the width; a factorial is refused
  exactly when it does not fit; `mask`, `inv_mask`, `ipv4_prefix` and `mask_range`
  have the bits they are named for.
- `TrapsAtLeast`: only the least 64-bit integer can stop the program.

The code treats 64 as a parameter (every size is a power of two, `int` has half
the bits); 8 keeps all of the limits apart: mask narrower than an `int`, equal to
it, wider, and as wide as the variable. The literals are the ends of these
widths and their neighbours, and `ans` takes every value operators make of them.

**num_theory** (`MCNumTheory`, `NumTheory.cfg`): `int64_t` of 11 bits, `int` of
6, mask of 8; two or three arguments of gcd and lcm out of 16, multinv of all
numbers around the 6-bit limits and at the 11-bit ones, factors of all 6-bit
numbers, all fractions of them; the least integers of both types are among them.
- `AnswersCorrect`: the answers are those of the definitions of these functions,
  what is refused has no answer, fractions are reduced, and a division by zero has
  a 0 among the arguments, or a 1 given to multinv. The exceptions are named:
  `LeastFactors`, the list for `INT32_MIN`, which is 2 and a negative number, and
  `LeastInverse`, `multinv` of `INT64_MIN`, which gives no answer.
- `TypeOK`: no local outgrows its type; the `int` columns of `multinv` do not.
- `Terminates`: every call returns, but `multinv` of `INT64_MIN` with a modulus that is
  neither 0 nor out of range. Fairness: a call goes on (`WF` of `Next`).

**expr_tree** (`MCExprTree`, `ExprTree.cfg`): every text of up to four pieces out of
`1`, `x`, `e`, `f(`, `s(`, `(`, `)`, `+`, `-`, `*`, `,`, `!`; every `a op b op c` with
seven kinds of operands; longer texts with nested calls. `x` is a label, `e` and `i`
are variables, `s` takes one argument, `f` a list. The table of labels begins with 4
entries instead of 16.
- `TreeRight`: a text is accepted exactly if it is in the grammar, and its links are
  the tree the grammar gives it. Three sorts of text that the code reads in its own
  way are left out (`LoneSign`, `LoneMark`, `MarkAfterE`; see below).
- `LinksRight`: every subexpression gives its result to one operand, of the one that
  encloses it and is evaluated later; the table of labels has each labelled operand
  once.
- `CopyStands`: a duplicate is the same tree, with no pointer into the original.
- `TextRead`: combining signs loses and adds none; lists of arguments are divided at
  the commas outside of parentheses.

Four pieces reach every syntax error and every pair of neighbours; the longer texts
have four subexpressions with two of equal depth, so that the order of the sort is
free, and five labelled operands, so that the table grows. Where a node adds two
labels to a table with one entry left, the code writes past its end; the model then
is `undefined` and says nothing more.

**solve** (`MCSolve`, `Solve.cfg`): two functions with any of eight bodies
(redefined and removed in any order), 29 texts given to `tms_solve`, four
expressions that are kept, two values of their label, depth limit 8 instead of 32.
- `Answers` (of every step): `tms_solve` answers with what the text means in complex
  arithmetic, NaN if nothing; an expression that is kept gives its value again and
  again. Not claimed: of extended functions whose arguments have labels or user
  functions, which are evaluated once for all (`Lasting`); of imaginary digits in an
  expression that is real first (`CutsDigits`: `tms_solve("hex(2i)")` answers 2); and
  of complex arguments of user functions, which are solved as real ones, only that
  the answer is NaN (`Value`: `f(2i)`, `f(sqrt(-1))`). The texts have all of these:
  without the two exceptions `Answers` fails.
- `ErrorsTell` (of every step): an evaluation without a value leaves an error, one with
  a value none; `tms_solve` adds none.
- `CallsRestore`: the depth counter is back at zero after every call, functions that
  call each other through arguments included; the labels a caller handed down are
  still there.

No guard reads `last`, and what is claimed of it is claimed of steps, which TLC checks
for every step it generates. So the `VIEW` of the configuration leaves it out of the
fingerprint, and states that differ in the last answer only are explored once.

With `Careful`, functions that the arguments in a body call stay defined as long as
the body is; `solve_labels` drops that. The texts have each extended function
failing in each of its ways (in the parse, in a point, in the function of `x`), calls
in calls, complex values where a real one was tried first, and what is remembered
from a first try. Eight levels are twice the depth of the deepest text that is not
circular, so the limit stops circles only; other limits are left to the proofs.

**hash_map** (`MCHashMap`, `HashMap.cfg`): four keys, one of them with two values,
all assignments of the hashes 0, 3 and 7 to them, an array of 4 buckets (16 in the
code) that grows at 75 percent (60) and shrinks at 30 (10).
- `WellFormed`: items are as far from home as they say, with no gap before them; a
  bucket is free at every moment, in the new array of a resize too; the count is
  exact.
- `Implements`: the refinement of `Table`.
- `OperationsEnd`: every loop ends. Fairness: a call goes on (`WF` of `Step`).

Hash 0 is at home at the start of both arrays, 3 and 7 collide at the end of the
small one and so wrap around; 7 is at the end of the doubled one. With the percents
of the code an array of 16 would grow at the tenth key; with these, at the fourth,
and both resizes happen with wrapped and displaced items.

### Runs that find a violation

| Run | Property | Shows |
| --- | --- | --- |
| **user_funcs_remove** | `SearchEnds` | a function removed and defined again closes a circle, in which a later search recurses for ever |
| **locking_floats** | `NoDeadlock` | `float32()` in one thread and the integer `float()` in another block each other |
| **solve_labels** | `LabelsKept` | an argument that does not parse, in the body of a user function, frees the labels of the expression being evaluated, which are freed again when it is deleted |

## Proofs

Check with `tlapm EvalOrderProofs.tla` and so on. Theorems hold for every value
of the constants that the named assumptions of the modules allow.

### EvalOrderProofs

`Invariance` (`Spec => []IInv`), and from it `TypeCorrect`, `OperandsAreKept`,
`Implementation` (the refinement of `Precedence`) and `AnswerIsRight`
(`RightAnswer`), for any number of operators, priorities and repetitions. Assumption: `EvalOrderAssumption`.

The properties alone are not inductive: that an evaluation finds the right terms
depends on what three passes did before. `IInv` has a part for each:
`LinkInv` and `OrderInv` (the nodes linked so far are those that come first, each
linked to its successor in the order of application), `PointersInv` and
`ResultInv` (the result of a node goes to the gap it leaves, `Directed`; the
scan that jumps over the previous node ends where it would have ended without,
lemmas `ScanLeft`, `ScanRight`), `OperandsInv` (each operand is in the node of
its two neighbours that is applied first, `Owner`). A result is directed to a
place that no operand owns (`ResultNotOperand`), and only powers extend their
operands (`ExtendedInv`), so operands are kept. For the
refinement, applying a node joins the two gaps beside it (`JoinGaps`), and the
places of different gaps are different (`PlacesApart`), so no other term is lost
(`ReduceStep`).

That the answer is the term of the expression is proved of `Precedence` alone, which has
no pointers (`AnswerIsTree`, of `Reduction!Spec`, the abstract specification), and holds of the node array because it is an
implementation. `Precedence` defines that term by splitting a range of operands at
the operator applied last, a recursive function `Trees` whose existence is proved
first (two functions that agree on the shorter ranges agree on the next). The invariant says that the term in each gap is that of the operands
in the gap, and that every operator applied comes before all live ones: so the one
being applied is the one its range splits at (`Joined`).

### ErrorDbProofs

`NeverOverflows` (`WithinTable`) and `TypeCorrect`, for any number of threads and
facilities, any capacity, and clears in any order: the hole that a clear can leave (see below) makes counters and table disagree, but
never makes the code write past the array. Assumption: `ErrorDbAssumption`. The
invariant is `TypeOK /\ WithinTable`: the types are kept because saves stay
within the table, and they do because each operation takes out of the counters
no more than what it counts in the slots in use (`Counting`).

`ClearedWasPrinted` (`ClearsPrinted`), for any number of threads: a print that nobody
disturbs has printed what it has passed and has not passed the end of the table
(`PrintedInv`); another thread's save that finds room only adds behind that
(`SaveAppends`).

`Implementation` (the refinement of `ErrorLog` up to the first clear that is not
`Ordered`): the invariant is `IInv /\ (orderly => CountInv)`, where `CountInv` says that
the counters count the slots in use, each with a message and one facility. A save appends to the log (`SaveLogged`); an orderly
clear keeps the errors before the first one it takes out, and perhaps the last one,
which moves to the place after them (`ClearKeeps`, `From`), and `ErrorLog` asks for the
list of the places that are kept, in increasing order (`ClearLogged`).

### UserFuncsProofs

Under `SingleCaller` (one thread, and no function is removed that another one
calls): `NoCircle`, `SearchTerminates`, `CallsAreDefined`, `NamesApart`,
`TypeCorrect`, `Implementation` (the refinement of `FuncTable`) and `Invariance`,
for any names and bodies. The two conditions are needed: without the second one
`user_funcs_remove` is the counterexample, with two threads `NoShadowing` fails.

The argument for the absence of circles: what the search visits is closed under
references (`VisitedClosed`), so if it finds nothing, none of the functions it
visits calls the one redefined (`SearchFindsNone`), and a table without a circle
stays without one when such a function is replaced (`ReplaceAcyclic`). New
functions need no search because no function that exists can call them
(`AddAcyclic`, by `CallsDefined`): this is why the invariant
`IInv == TypeOK /\ PendingOK /\ CallsDefined /\ NoShadowing /\ NoCircularCall`
has the other properties as parts. `PendingOK` says that what an earlier step of
a call found out still holds at the later ones. Acyclicity is stated as "every
set of functions that is not empty has a member that calls none of them", so
that no induction over paths is needed.

### LockingProofs

For any number of threads, any mutexes' users among the calls, any nesting and any
masks. Assumption: `LockingAssumption`.

A call is a sequence of instructions put together from the parts that functions
of the library contribute, so the proof gives each part an *outline*: which
mutexes are held before and after each of its instructions and whether a one-time mask
is in use (`Outlines`). Outlines of parts put together are one of the whole
(`OutlineConcat`), so each function is looked at once. The invariant `IInv` says
that what a thread has left to do has an outline that begins with the mutexes it
owns; a step takes the first point off the outline, a nested call puts one in front of it.

From it: `Types` (`TypeOK`), `RaceFree` (`NoRace`, of all calls, with what they
expose) and `MaskOnce` (`MaskOneTime`) with no other hypothesis. `Released` (`HeldUntilReleased`) and `NeverDeadlocked`
(`NoDeadlock`) assume `Live`: `tms_int_solve_e_wmask` is not called with a mask
size it refuses (it returns with its locks held), and `float` is not nested in an
integer expression while `float32` is in a real one. Both conditions are
needed: with the first dropped, a second call waits for ever, and
**locking_floats** is the counterexample to the second. Under `Live` there is an
order of the mutexes (`Rank`: the number system that calls into the other comes
first, then parser, variables, evaluator, user functions) that every outline follows, so of
the mutexes threads wait for, the greatest one is held by a thread that does not wait.

### HashMapProofs

For any items, any hash function, any capacity and any sequence of operations, with
allocations that fail: `Types` (`TypeOK`), `WellFormedTable` (`WellFormed`),
`Implementation` (the refinement of `Table`, every answer included) and the invariant
they rest on, `Invariant`. Assumption: `HashMapAssumption`.

`WellFormed` says what holds between operations. It is not inductive: a
deletion leaves a gap for as many steps as it shifts, an insertion carries a
displaced entry that is in no bucket, and a resizing has its entries in two arrays. `IInv` has a
part for each loop: `SetInv` (the entry in hand is the new one, whose key has not been met, or one
it displaced, whose key is nowhere else), `SeekInv` (a search has
not passed the key it looks for), `ShiftInv` (the array is sound but for one gap), `ResizeInv`
(what is taken from the old array is in the new one) and `ScanInv`. The
arguments about chains that run over the end of the array take the
first bucket in cyclic order that is not as it should be (`Least`). That a free
bucket remains, on which the end of a search depends, needs the sizes: a growth
doubles the array, a shrinking halves it, so all sizes are doublings of
`MinBuckets` (`Sizes`) and the thresholds `GrowAt` and `ShrinkAt` leave room (`Limits`).
For the refinement, each step but the one an operation takes effect in leaves the content
alone, so `[Table!Next]` is proved next to the invariant.

### IntWidthProofs

For every even width of a variable from 4 bits on, so for 64, any literals, and all masks
whose width is a power of two (what `tms_set_int_mask` accepts). Assumptions:
`IntWidthAssumption`, and `NoneAssumption`, that no expression is the value that says
there is none.
`IntWidthTypes` (`TypeOK`), `IntWidthTraps` (`TrapsAtLeast`), `IntWidthRefines`
(`Implements`) and `IntWidthOperations` (`OperationsRight`, out of `IntWidthSigned`,
`IntWidthFactorials` and `IntWidthMasks`).

`TypeOK` is inductive and is all the other theorems need; what is hard are
the operators. The bits of an integer below position n (`Low`) determine it modulo
2^n and are determined by it (`ValueOfLow`, `LowOfValue`, `SameLow`). Truncating to a
variable and extending a sign leave the bits under the mask alone, `~` flips them
(`LowOfWrap`, `LowOfSignExtend`, `LowOfFlip`), and those of a sum, a difference and a
product depend on no others (`Arithmetic`). So the word after each operation is that of
the words before (`ResultRight`), under a mask that may be another one than that the
operand was read under (`MachineSetSize`). A rotation needs more: it takes its distance modulo
the width of the mask, of which only the bits under the mask are known to the
machine; these are enough because the width is a power of two that divides
2^width (`Pow2Divides`, `RemainderTwice`), and the two shifts the code makes do not
meet (`Rotations`).

For the signed operations: among the integers with the same bits under the mask exactly
one is a value of its width (`CanonicalExists`, `CanonicalUnique`), and extending
the sign of the masked bits finds it (`SignExtendOfMasked`). A quotient is that of the
absolute values, with a remainder that has the sign of the dividend (`Truncates`); a
power is congruent to that of the signed operands because every product is
(`PowersCongruent`). The factorial of the width is above every variable
(`FactorialLarge`), so the loop of the code, which stops at the first product that does not
fit, refuses exactly those that do not (`ProductIs`, `FitsFactorial`).

### NumTheoryProofs

`NumTheoryAnswers` (`AnswersCorrect`) and `NumTheoryTypes` (`TypeOK`), for any sizes of
the integer types, any arguments within them, the least integers included, and as many
arguments of gcd and lcm as an `int` can count. Assumptions: `NumTheoryAssumption`, and
`BitsAssumption`, that the ranges of the integer types are powers of two. The two calls that are
exceptions have an invariant of their own (`LInv`): all the states of
`tms_find_factors(INT32_MIN)`, whose half is not divided by 3 (`HalfIs`), and the two
numbers that `tms_gcd` exchanges for ever when `multinv` gives it `INT64_MIN`. For all others,
`AnswersCorrect` speaks of calls that have returned, so `IInv`
says for each loop what it has found out so far:

- `GcdInv`: in `tms_gcd` both numbers are combinations `u * x + v * y` of the two it
  was called with, and whatever divides both divides those; so at the end there is
  a divisor of both that every other one divides. `FoldInv` carries this through
  the arguments; for lcm, the product by one argument and division by the divisor
  gives a multiple that divides all others (`LeastMultiple`).
- `EuclidInv`: each row of the table of multinv is a remainder as a combination of
  the numbers it began with. The coefficients alternate in sign and grow with the
  remainders getting smaller (`Alternate`), so at remainder 1 they are
  less than the modulus (`LastRow`), and the answer, made positive, is the inverse
  (`InverseFound`): the check in the code never fails. A remainder of 0 comes before
  one of 1 only if the smaller number is 1.
- `FactorsInv`: nothing between 2 and the dividend divides what is left. So a dividend
  that does is a prime (`DivisorPrime`), even dividends are not missed
  (`AdvanceKeeps`), and past half of it what is left is a prime itself (`HalfIsEnough`).
- `ReduceInv`: the value of the fraction is kept, and no factor that is passed remains
  in both lists. Different primes have 1 as a combination (`PrimesBezout`), and so
  have products of powers of such (`ProductBezout`): the parts are coprime.

Products are a recursive function, of which the proof first shows that it exists and
what it says (`ProductExists`, `ProductNext`).

`TypeOK` is not inductive either. The invariant is `IInv /\ Limits /\ Sizes /\ TypeOK`, all of
which hold together: the numbers `gcd` and `lcm` give to `tms_gcd` have an absolute value.

- The coefficients of multinv are no larger than its arguments (`RowsSize`).
- A dividend that goes on past a factor would leave `int` only if it were more than half
  of the number: once a factor is found, what is left is at most half (`HalvesFound`,
  `HalvedAfter`). A power counted is less than the number (`PowerInList`), and a list has
  no more places than its last factor says (`PlaceInList`).
- Under a mask of 64 bits the test of a product in `_tms_lcm` lets `INT64_MIN` through,
  whose absolute value the next `tms_gcd` would take. It never comes about: divisors of a
  power of two are powers of two (`PowerDivisors`), so it is the least common multiple
  only of itself (`LcmAboveLeast`), and it is refused as an argument. Without
  `BitsAssumption` this is false: if the least integer were -10, -2 and 5 would make it.

### SolveProofs

For all texts, of any length and nesting, all user functions, labels, values and limits
of the depth: `SolveTyped` (`TypeOK`), `DepthRestored` (`DepthPutBack`, half of
`CallsRestore`) and `ErrorsAreTold` (`ErrorsTell`) with no hypothesis, and
`CallsLeaveAll` (`CallsRestore`) under `Careful`: without it the labels are lost, and
`solve_labels` is the counterexample. Assumptions: `ExpressionsAssumption`,
`SolveAssumption`.

The invariant is `Kept /\ (Careful => Whole)`, with `Kept == TypeOK /\ DepthPutBack` and
`Whole == LabelsKept /\ ModelsSound`. That labels are kept is not inductive by itself:
an expression that is kept may have arguments whose parse will fail, in the middle of a
later evaluation, and take the labels with it. `ModelsSound` says that the arguments in
every stored expression parse where they will be solved. An evaluation puts back
expressions it has changed (results are remembered, `hex` cuts its argument), so that it
leaves them sound is part of what is proved of it. What parses depends on the user
functions and on nothing else in the state (`ArgumentsKept`, which is an induction over
the nesting of the texts once before and once after the step).

The rest is about one evaluation. `Right(r, m, s)` says what its return `r` may be: a
value with no error or no value with one, the depth as before, labels kept if all the
arguments it may come to parse, and an expression that is still well formed, with the same labels and
still sound. Evaluations nest in three ways, and each has its induction:

- Calls: `EvaluatorsLaw` shows that an evaluator with room for `n` calls is right from
  `n` levels below the limit on. With no room it is right because it returns at once,
  with one more from `EvaluateWithLaw`, which is about `tms_evaluate` given any right
  evaluator for what is called in it. All of the laws of the functions (`AvgLaw`,
  `ExtremeLaw`, `BaseNLaw`, `DerivativeLaw`, `IntegrateLaw`, `EvalUserLaw`, `EvalExtLaw`)
  are about that evaluator, so each early return is looked at once.
- Parentheses: `EvalTermsLaw`, from the innermost outwards.
- Lists: arguments (`SolveListLaw`, `ExtremeLaw`) and terms (`EvalSumLaw`), from the
  first to the last or to the first that fails.

The recursive functions of `Solve` are shown to exist before anything is said of their
values, since a recursive definition in TLA+ is a choice among the functions that satisfy it
(`Tower`: a function that recurs to the number before exists if every step leads from
where it may be to where it may be next; `Climb`: where it is then). `UpTo` is
induction over the numbers up to a bound, stated for a set, without an operator as a parameter.

For `tms_solve` (`SolveRealLaw`), each of the ways through its two parses and two
evaluations ends with errors printed, or with none to print, but one: a text
refused as a real expression and then evaluated as a complex one without a value. It is
the exception in `ErrorsTell`.

### Only model-checked

- Liveness (`Terminates`, `CallsReturn`, `OperationsEnd`), which depends on `ENABLED`
  under fairness.
- `ExprTree`: it and its reference `Grammar` take texts apart with `RECURSIVE` operators.
- `Answers`: its reference `Meaning` is a `RECURSIVE` operator, by nature: the meaning of an
  expression is made of those of its parts, to any depth.

## What the checks found

Disagreements between the code and its own documentation that a run shows are
under `findings` in `PROJECT.json`. Seen while modelling, without a run of its
own:

- `tms_print_errors` (`error_handler.c` 166) reads the table without the lock and
  clears it in a second critical section: with two threads it clears errors that
  it did not print, those saved in between and those another thread moved under its
  loop, although `error_handler.h` 61 says it clears "the printed errors" and
  `CHANGELOG.md` 207 that the error handler is thread safe. `ClearsPrinted` without
  `k >= cursor[t]`, or without `\ moved`, fails with two threads.
- `tms_clear_errors` (`error_handler.c` 200) leaves a hole in the table when two
  errors that are kept follow one it clears: the error after the hole is lost to
  all that count `last_error` entries, although `error_handler.c` 194 says "Move
  remaining errors back to make the table contiguous again"; if the lost error and the
  last one differ in severity the counters are wrong for good. One thread gets there: `1/0`
  in `tms_int_solve_e` without printing, then `integrate(-1, 1, 1/x)` in
  `tms_solve_e`, which leaves two errors of its own (the division, `function.c` 343),
  then any `tms_int_solve_e`, which clears those of the integer mode on entry
  (`evaluator.c` 507). `Implements` fails if its `orderly'` is dropped.
- `tms_save_error` leaves the prefix that was in the slot it fills.
- `tms_int_solve_e_wmask` returns with both of its locks held when it refuses the
  mask (`wmask_refused` in `Locking`: `CallsReturn` and `HeldUntilReleased` fail).
- Functions that solve their arguments read variables with `NO_LOCK` under locks
  of the evaluator, which are not those of the variables; `tms_int_solve_e_wmask`
  parses under the evaluator's locks only. `tms_set_var` and `tms_set_int_var` look
  the name up in the table of user functions (`internals.c` 734, 786), and the second
  one reads the mask (`internals.c` 771), under the lock of the variables only: it may
  read a one-time mask of another thread, and sign extend its value under that. These,
  and the rest of `Exposed` in `Locking`, are data races, although `evaluator.h` 23
  says "Thread safe, unless NO_LOCK is used".
- With two threads `tms_set_ufunction` may add a function under the name of a
  variable that was set in between, and uses a pointer into a table whose entries
  another thread may have moved.
- Circles, and functions that call themselves, are accepted if a call is in an
  argument string (`f(x) = integrate(0, 1, "g(x)")`): only the argument strings of
  the function searched for are looked at, and only for its own name.
- The integer `**` overwrites its operands with their sign extension (`evaluator.c`
  439). With one mask for all evaluations that changes nothing (`OperandsKept`). A caller
  that parses, evaluates, widens the mask with `tms_set_int_mask` and evaluates the
  same `tms_int_expr` again gets the extension under the old mask.
- `string_tools.c` 487 discards the result of `tms_sign_extend`; without
  consequence, since the mask is applied where bits above it would be seen.
- `internals.h` 52 says the mask is used after every operation; most operations
  do not apply it. `int_width` shows that this cannot be seen through the mask.
- `tms_find_factors(INT32_MIN)` answers 1, 2 and -1073741824: the negation on entry
  overflows (`scientific.c` 306), the number stays negative and is taken for a
  prime after its first factor. `scientific.h` 113 says "Finds the factors of a signed
  32bit integer". `FactorsCorrect` fails if its exception is dropped.
- The quotient of the least 64-bit integer by -1, `mask` of it (endless
  recursion) and `multinv` of it (endless loop) stop or block the program, and
  `gcd` or `lcm` of 0 divides by zero.
- The integer `rand(min, max)` answers less than `min` under a mask narrower than an
  `int`, whose remainder may be negative (`bitwise.c` 220).
- `multinv(1, 5)` divides by zero (`bitwise.c` 785).
- `INT_FUNCTIONS.md` lists `xnor`, which is not in the table of functions.
- `tms_reduce_fraction` loses the sign of a negative part. Its callers in the
  library only give it parts that are not negative (the integer part of the
  number is taken off first), and so does `NumTheory`.
- `stack_depth` of both evaluators is changed without a lock.
- The label table (`parser_common.h` 846) grows by one test per node, which may
  add two labels: with 15 of 16 entries in use and two more in the next node, one
  is written past its end.
- Texts read in a way of their own: `e+3!` is `(e+3)!`, because the scan back from
  `!` takes the `e` for that of an exponent (`string_tools.c` 755), and may look at
  the character before the text; `2*+` is 0, `2^+` is 1, `1e+` and `2*+i` are
  accepted; `.` is 0, `1.i1` and `1e1.2.3` are accepted. `2*-x` with a label,
  `2*-(3)` and `2*-sqrt(4)` are refused, although `parser_common.h` 580-589 and
  `evaluator.c` 526 handle negated labels.
- The result of `_tms_expand_macros` is not looked at. A parse that fails in an early
  subexpression deletes results of later ones that were never set.
- An extended function keeps its first result for good (`evaluator.c` 106): in an
  expression that is evaluated again with other label values, and so in an integrand
  that calls one. Labels are read as 0 in its arguments when they came without
  values.
- A complex answer of a user function loses its imaginary part in an expression
  that is evaluated as a real one: with `f(x) = x+2i`, `sqrt(f(3))` is the root of 3.
  Arguments of user functions are solved as real ones (`evaluator.c` 148), in complex
  expressions too: `f(i)` and `f(sqrt(-1))` have no value (`Value` in `Meaning`).
- `tms_solve("2i/0")`, which is refused as a real expression and parsed again as a
  complex one, answers NaN and prints nothing (`scientific.c` 205): the one exception
  in `ErrorsTell`, although `scientific.h` 64 says of `tms_solve` that it prints errors. A user function called without
  arguments answers NaN with no error.
- `hex(2i)` cuts the `i` off its argument (`function.c` 164). `tms_solve` evaluates it
  as a real expression first, which refuses the value `2i`, and then reads `2` in the
  complex evaluation: the answer is 2, although `scientific.h` 61 says that it
  "automatically handles complex numbers" and `FUNCTIONS.md` 42 that `hex` returns "the
  corresponding value". `Answers` leaves these out by name (`CutsDigits`).
- An argument of a function inside the function of `derivative` or `integrate` is parsed
  with the label `x` but not its value, and computed with 0: `integrate(0, 2, f(x))` is that
  of the constant `f(0)`.
- `integrate` between bounds that differ in their imaginary parts only has no width, and
  answers NaN without failing and without an error of its own.
- `derivative` at 0 is refused as not derivable: its step is a fraction of the point.
  `FUNCTIONS.md` calls it `der`.
- `tms_is_deterministic` (`parser.c` 379) sees `rand` only outside of arguments.
- Circles through argument strings end at 32 levels, in an error.
- A full hash table that finds no memory does not store a name; no caller asks
  `hashmap_oom`, so `tms_set_var` reports success. `hashmap_to_array` leaves the length
  it should set alone if the table is empty. `g_comparator` (`hashmap.c` 796), by which
  it sorts, is one variable for all threads. A load factor that was set is lost at the
  second resize.

## What is not modelled

- Floating point: the arithmetic of the scientific evaluator and of `function.c`,
  `tms_complex.c`, `matrix.c`, `tms_decimal_to_fraction`. Properties of it are about
  accuracy, for which TLC has no numbers. `Solve` has the control of the extended
  functions it names, with the square root for all functions of one argument; `logn`,
  `int` and the bit patterns of floats are not among them.
- The values of decimal numbers and the printing of numbers in `string_tools.c`.
- `float`, `ipv4` and `dotted` of the integer mode, which read text, and `min`
  and `max` of more than two arguments.
- `int_parser.c` instantiates the template that `ExprTree` models, with other
  operators and without `!`; the model has those of `parser.c`.
- Hash functions, and the callbacks of the hash map that the library does not use.
- The depth counters with several threads, which change them without a lock: an
  update may be lost, so nothing holds of them.
- The C++ binder and the Python package, which keep no state.

## Plan

In order of importance; 1 to 8 are there, with proofs of all but 7.

1. `Precedence`, `EvalOrder`: the core of parser and evaluator.
2. `ErrorLog`, `ErrorDb`.
3. `FuncTable`, `UserFuncs`.
4. `Locking`.
5. `WordMachine`, `IntWidth`; `NumTheory`.
6. `Expressions`, `Solve`, `Meaning`.
7. `Text`, `Grammar`, `ExprTree`. Proofs would need both without `RECURSIVE` operators,
   as `Solve` has been rewritten.
8. `Table`, `HashMap`.
9. `logn` and `int` in `Solve`, which solve their arguments like `max`, one after the
   other.
10. The conversions between the number systems (`float`, `float32`, `float64`) with the
    pointer `tms_get_last_error` returns.
