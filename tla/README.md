# groovyrs in TLA+

groovyrs runs Groovy scripts: a lexer, a parser and a compiler turn a script
into bytecode for *fusevm* (an external crate), and a host of builtins
(`src/src/host.rs` and `src/src/host/`) gives the bytecode Groovy's objects,
exceptions and library. Beside the interpreter there are a debug adapter, a
language server and test tools. This directory models the parts whose
correctness depends on the order of steps, and the algorithms from text to
values that everything rests on; it model-checks them with TLC on small
instances and proves the main results about the former with TLAPS for every
instance. Paths below are relative to the repository's root directory, `src/`.

Run a check with `tlc -config X.cfg M.tla` (table "Runs", the module is the one
named there) and the proofs of a module with `tlapm XProofs.tla`.

## 1. Inventory

| Component | State | Operations | What makes it correct |
|---|---|---|---|
| lexer (`lexer.rs`) | position, bracket depth, line, tokens | `lex` | the longest operator, a slash read by what is before it, newlines where a statement may end, the right line |
| parser (`parser.rs`, `ast.rs`) | cursor, queued statements, nesting budget | one method per form | one tree per source, by the precedences; nested names resolved |
| compiler, statements (`compiler.rs`) | stacks of open trys, finallys, loops, yields; op list | one method per statement | every exit from a block runs the finallys between, once, in order |
| compiler, expressions and declarations | slots, cells, signatures, numeric sites | one method per expression | a name is the variable the language says; a site's width is its type's |
| machine (fusevm, external) | value stack, frames, ip | ops, `VM::run`, JIT tiers | external; modelled as far as `Lowering` and `HostCalls` need it |
| host, calls back (`host.rs`) | thread-locals: `CLOSURE_STACK`, `DELEGATES`, `CATEGORIES`, `NO_STACK`, `MISS_PROBE`, `PENDING` | `run_sub`, `invoke_closure`, `invoke_sub`, `with`, `use`, probes, raise | scoping is dynamic and undone on every path; depth is bounded |
| host, lists and windows | `HEAP`, `VIEW_TARGETS`, list `mod_count`, `MUTATED` | list methods, `subList`, views | aliases see each other's writes; stale windows raise; a method stores its own result |
| host, closures over elements | a copy of the receiver, a pending exception | about fifty methods of lists, maps and numbers | the documented answer; a raise ends the walk; the closure's own writes stay |
| host, equality, order, hashing, sets | the pair a walk is inside; an index beside a set's elements | `==`, `equals`, `hashCode`, `<=>`, `sort`, set methods | one equality per structure; walks end; an index finds what a scan finds |
| host, numbers (`boxed.rs`, `bignum.rs`, `decimal.rs`) | `WIDE_SITES`, boxes | numeric hook, builtins, BigDecimal | Integer, Long, BigInteger and BigDecimal results as the JVM's |
| host, classes (`params.rs`, `metamethod.rs`) | `CLASSES`, `STATICS`, `EMC_*` | static initialisation, overloads, ExpandoMetaClass | initialised once, in order; the right method |
| host, memo and defaults | `MEMO`, `MAP_DEFAULTS` | memoize, withDefault | an answer is stored under its own key, once |
| host, sequence classes (`seq.rs`) | storage order, write policies | PriorityQueue, Stack, Deque | the heap stays a heap; nothing is lost |
| host, libraries (`regex`, `xml`, `json`, `config`, `date`, `tz`, `file`, ...) | mostly none; matcher cursors | library calls | each call's result |
| debug adapter (`dap.rs`, `lib.rs`) | breakpoints, mode, sequence number, a pipe in place of stdout | main loop, stop loop, launch, drain | every request answered in order; stops where asked; no output lost; the run ends |
| language server (`lsp.rs`) | open documents | requests, notifications | answers for the last text |
| test tools (`bin/parity*.rs`) | child processes, deadlines | run, compare, minimise | a divergence is reported and stays the same one |

How they interact: the compiler decides where an exception is looked for and
the host decides when there is one (`PENDING`); a builtin that runs user code
re-enters the machine on the Rust stack (`run_sub`), so thread-locals are the
only way a caller's context reaches code several activations away; operators
reach the host through the numeric hook with a raw pointer to the running
machine; the debug adapter runs the script on the thread that reads requests
and is entered again from inside the script by the `DBG_LINE` builtin.

What is hard: nested activations that end in four ways; a cleanup emitted once
per exit path; a pipe whose reader is its writer; state read before user code
runs and written after it; and one idea computed in several places (which
operand an operator takes, which declaration a call runs, when two values are
equal, how wide an integer is) that must agree with itself. There is no sharing between threads: the script has
one, and neither the language server's nor the debug adapter's helpers touch
its state. Nothing is persisted, so there is no recovery to model.
`PROJECT.json` lists every component with its status and every hazard with its
line.

## 2. Modules

| Module | Models | Checked in |
|---|---|---|
| `Dap` | the debug adapter with its client, the script and the output pipe | `dap`, `dap_output`; `DapProofs` |
| `Lowering` | the compiler's statements as a function from trees to ops, the machine that runs them, and the language's completion rules | `lowering`, `lowering_raising_arm` |
| `DynamicScope`, `HostCalls` | what the host's thread-locals promise; activations, thread-locals, frames, exceptions and probes, which implement it | `hostcalls`; `HostCallsProofs` |
| `LiveWindows`, `ListViews` | what `subList` promises; list handles, windows, views and `MUTATED`, which implement it | `library`, `lists_parked`; `ListViewsProofs` |
| `Queues` | PriorityQueue, Stack, Deque | `library`; `CollectionsProofs` |
| `LazyValues` | memoize and withDefault | `library`, `lazy_nested`; `CollectionsProofs` |
| `ClassInit` | static initialisation | `library`; `ClassesProofs` |
| `MetaClasses` | methods injected by ExpandoMetaClass | `library`; `ClassesProofs` |
| `CommonLemmas` | sequences as stacks, least elements, recursion along a rank, induction over an interval, loops over an index, remainders | the proofs |
| `Lexer`, `LexPrograms` | text to tokens; tokens written as text | `language` |
| `Parser`, `Programs` | tokens to trees; trees written as tokens | `language` |
| `Declarations`, `TypePrograms` | type declarations, annotations, nested names; the same written | `language` |
| `Closures`, `ClosurePrograms` | slots, cells and captures, and the machine over them; the language's scoping | `language` |
| `Calls`, `CallPrograms` | overloads of methods and functions, conversion of arguments; Groovy's rule | `values` |
| `Ranges`, `RangePrograms` | ranges and what is done with them; the values a range means | `values` |
| `Decimals`, `DecimalLaws` | BigDecimal and BigInteger; exactness | `values` |
| `Equality`, `Comparisons` | the equalities, hashes and orders; what relates them | `values` |
| `Sets` | the four kinds of set, the index, the views, Java's hash table | `values`; `SetsProofs` |
| `Iteration`, `WalkLaws` | the methods that call a closure per element; what they promise | `library`, `walks_raise`; `IterationProofs` |
| `Operators`, `OperatorLaws` | the lowering and the answers of operators; Java's rules | `values`, `operators_boxed` |

A pair of modules separates the translation of the code (first) from what is
expected of it (second): the expectation is written from the language's or
Java's definition and shares no operator with the code that it judges beyond
the data types. `MC...` modules give TLC the instances; `MCLibrary`
(with `MCWalks`, the receivers and answers of `Iteration`), `MCLanguage` and
`MCValues` put several independent components side by side, so that a behaviour
exercises one of them (`Parts` names those of a run).

### Dap

`phase` is where the adapter's one thread is: in the main loop, running the
script, at a stop (the loop inside `on_debug_line`), or gone. `inbox` is the
client's end of stdin; both loops take from it. `breakpoints`, `verified`,
`mode`, `program`, `active` and `seq` are `DebugState`'s fields; `told` records
the last verified lines reported for each file. Output is counted in chunks:
`tail` is `Stdout`'s line buffer, `pipe` the pipe that replaces descriptor 1,
`forwarded` what went to the client. Requests that only get an answer are one
command; framing and texts are left out. Writing blocks when the pipe is full,
and only this thread empties it.

### Lowering

Part 2 of the module is `compiler.rs` as operators on a record of its stacks,
one per method (`EmitUnwind`, `EmitFinallys`, `TryStmt`, ...). Part 3 runs the
ops. Part 4 gives a program's meaning by recursion on its tree: the sequence of
effects and the way it ends. `FollowsLanguage` says that the machine's trace is
always a prefix of that sequence and equal to it, with the same ending, when the
machine stops. Jumps go to labels; slots, types of variables and expression
shapes other than operands under a call are left out.

### HostCalls and DynamicScope

An activation is a Rust call that changes a thread-local or pushes a frame:
a closure, a method (`sub`), `with`, `use`, `sum` or a probe. `ctx` holds the
thread-locals, `acts` the activations with the Rust locals each will restore
from, `frames` is `vm.frames.len()`. Groovy code is arbitrary: it calls,
raises, catches, misses a method or returns at any point; a fault halts the
machine, and then every pending Rust function still runs to its end. `Undo` is
what the rest of an activation's function does to the thread-locals. In
`DynamicScope` a call has an environment and returning gives the caller its
own back; the refinement takes `ctx` to the environment and the context each
activation was entered in to the callers. A delegate is a slot: what
`dispatch_on_delegate` writes into a delegate list is not part of the
environment.

### The library's objects

`ListViews`: `heap` is the list objects of `HEAP` (contents and `mod_count`, or
a window's list, outer window, offset, length and expected count, or a view's
target), `parked` is `MUTATED`, `calls` the GDK methods in progress with the
copy each works on. A call copies the contents, may run the closure (any action
of the module), then takes what is parked and stores it: `Stored` is
`list_store` with the walk that resizes outer windows, `Refused` the answers of
its refusals to a length that stays and one that changes, and `Picked` the
elements a removal keeps. `LiveWindows` has no
counters: a window is an interval, dead once its list changed other than
through it. The refinement takes a window that would not raise to a live one.

`Queues` has the storage array and `sift_up`/`sift_down` as functions of it: each
collects the places it passes by recursion from one place to the next, and the
element settles at the last of them;
`LazyValues` the three stores and the stack of computations, each with its store,
key, the last index of the loop it belongs to and whether its value is pushed at
the list's end or set over a null. A closure may read any key of any store, its
own among them; the loop over a list's missing indexes is a computation per
index whose range is fixed when it begins, as in `list_default_get`, and
`answered` is what closures answered and did not raise for since; `ClassInit` the `STATICS` table and the stack of `ensure_static_init`
calls, each a chain of classes and the field it has come to; `MetaClasses` the
injected methods by class and object with the heap positions that `EMC_BORN`
compares.

### From text to a running program

`Lexer` is the loop of `lex` over a record of position, depth, line and tokens.
`Parser` answers a tree and a cursor; the cursor carries the statements queued
for the enclosing list and the nesting budget. `Declarations` renames nested
types in the token stream before parsing, as `qualify_nested_types` does, then
parses the declarations and adds the members that annotations, records, enums
and default parameters give. `Closures` lowers names to slots, cells and
fields, and runs the result with the operations of a cell (new, renew, mark,
get, set). Each is compared with its inverse or its meaning: `LexedBack`,
`ReadBack` and `TypesReadBack` write an input with as few blanks and
parentheses as the language allows and read it back, `RunsAsWritten` compares
the printed values with an environment semantics.

### Values and operations

A value is `<<kind, payload>>`; a number carries a `Dec` (unscaled value and
scale), a text its character codes, a collection its position in a heap of
collections. Doubles are exact decimals of a few digits and NaN, infinities
are left out. `Decimals` computes in the steps of `decimal.rs` (precision of
a quotient, rounding, stripping of zeros). `Equality` has one operator per
function that compares, hashes or orders; the walks carry the pair or the path
they are inside, as `IN_EQUALS` and its companions do. `Sets` knows its values only
through an equality, a key, a hash and an order, which are its parameters;
`MCValues` writes the answers of `Equality` out as tables, which TLC looks up
faster, and assumes that they are its answers (`AnswersOfEquality`). A set there is its elements in the
order of storage and, while the index is on, the positions of every key;
beside it `laid` is what was ever added and not taken away, from which the table
that Java would have built is computed. `Iteration` is a state
machine: each action asks the closure for one element, the closure answers
anything of a small set, raises, or writes to the receiver, and a method's loop
decides after each call how it goes on. `Operators` takes an operator, two
operands and the two widths the compiler knows, and answers the value or the
exception; `OperatorLaws` says what class and number Java's NumberMath gives, of
every pair of numbers and Characters, boxed or not, and names each case in which
the code answers otherwise, with what it then answers.

## 3. Runs

| Run | Module, cfg | Question | Bounds |
|---|---|---|---|
| `dap` | `MCDap`, `Dap.cfg` | are requests answered in order, output accounted for, breakpoints honoured, and do runs end? | one file with two lines (one blank), 3 requests, 4 script steps, pipe of 6: the pipe never fills |
| `dap_output` (violation) | `MCDap`, `DapOutput.cfg` | does a run end whatever it prints? | a pipe smaller than the output |
| `lowering` | `MCLowering`, `Lowering.cfg` | do 589 programs do what the language says, leave nothing on the stack, and end? | two exception types; trys nested two deep, in bodies, arms and finallys; in the script, a function, a loop, a switch, a value switch |
| `lowering_raising_arm` (violation) | `MCLowering`, `LoweringRaisingArm.cfg` | the same when a catch arm raises and the finally makes two calls | |
| `hostcalls` | `MCHostCalls`, `HostCalls.cfg` | is scope restored, the Rust stack bounded, the frames nested? | 1 closure, receiver and category, 2 methods, depth limit 2, 3 frames, 4 nested activations |
| `library` | `MCLibrary`, `Library.cfg` | do windows stay inside their lists and mean what `subList` promises, are write policies kept, heaps kept, kept values right and computed once, classes initialised once and in order, metaclasses those of birth? Do the closure methods answer, stop and store as documented? | 3 list objects of at most 3 elements, 2 nested calls and 4 steps; heaps of 6; keys 0 and 1, three computations deep; 3 classes of 2 fields; 5 heap positions; receivers of at most 3 elements, 5 answers, raise or write at any call, longs of 4 bits and ints of 3 |
| `lists_parked` (violation) | `MCLibrary`, `ListsParked.cfg` | does an `each` leave its receiver alone? | the same lists, with field receivers and handlers |
| `lazy_nested` (violation) | `MCLibrary`, `LazyNested.cfg` | is a list's default at the index it was computed for? | the same keys |
| `language` | `MCLanguage`, `Language.cfg` | is what is written what is read, and what runs? | every pair of tokens, every kind of expression in every other, three operators deep; statements two deep; two members per type; three statements over one captured variable |
| `values` | `MCValues`, `Values.cfg` | is the right declaration run, do a range's operations agree, is arithmetic exact, do operators compute as Java, do equality, hash, order and sets agree? | two declarations of two parameters; ranges with ends from -2 to 4 by halves; 17 unscaled values at 4 scales; 35 values of every class; two collections of two members; 4 calls on sets of 6 values, 5 of them held at most; operands of every class, integers of 4 and 8 bits |
| `walks_raise` (violation) | `MCLibrary`, `WalksRaise.cfg` | does every host loop stop at a raise? | the same receivers |
| `operators_boxed` (violation) | `MCValues`, `OperatorsBoxed.cfg` | does a box compute on its number? | the same operands |

What the properties say, beyond the run's question:

* `PoliciesKept`: no action changes the contents of an immutable list or the
  length of a fixed one, whatever handle the write comes through.
* `ZeroOnlyInside`: a static field is seen at its zero value only inside its
  class's initialisation, or after that raised. `InitialisedOnce`: an
  initialiser never begins twice and never before its superclass's.
* `StorageKept`: each call moves one element and leaves the heap or stack order.
* `EqualValuesAreOne`: equal values have one hash and one index key, and a
  key's equality is the one the structure documents. `WalksEndOrRaise`: a walk
  of collections that hold each other ends, and raises exactly where a cycle is
  reached. `OrdersAgree`: the orders agree with `==` and with each other, and
  sorting is stable.
* `IndexFindsWhatAScanFinds`: while a set keeps an index, it names the position
  of every element, and a lookup in it answers as comparing with each would.
* `OrderedAsJava`: a HashSet's presented order is that of Java's table, for
  elements whose hash is reproducible, until something is removed.
* `RaiseEndsTheWalk` excludes the orderings, which `walks_raise` shows do not
  stop; `OrdersByTheClosure` quantifies over every preorder the closure's
  answers agree with.
* `KeptAreResults`: a memo and a map hold the last answer of the key's own
  closure, or null where that raised, whatever the closures read. A list holds
  no value before its index, an eager one no null, and each value at its index
  until the list grows under an element being computed; `lazy_nested` shows what
  then happens. `ComputedOnce`: what was answered is not computed again, a list
  that grew so excepted.
* `ComputesAsJava` says the class, value and width of every result: sums,
  products, quotients (exact, or nearest at the precision Groovy gives),
  remainders, shifts, bits, powers, negation, `==` and the orders, of every
  pair of numbers and Characters, boxed or not. Where the code does not answer
  as Java, a named operator of `OperatorLaws` says for which operands and
  what it answers there (`BoxMeetsChar` to `BigMeetsWholeDecimal`; section 5).
  Two things are not asked: the class of a Long told by its magnitude alone, and
  the digits of a power that leaves the exact numbers.

Why the bounds are enough. `dap`: three requests are a `setBreakpoints`, a
`launch` and one more in either loop; four steps are a stop and output before
and after it. `lowering`: each exit statement meets each position of a try, and
what an exit does depends only on the stacks between it and its target, of
which two levels show every comparison the code makes. `hostcalls`: a cell's
value is restored from one activation, so the shortest error has two
activations of which one ends abruptly; four cover every pair under a probe and
a `sum`. The depth limit, two, is reached by closures, methods and native calls
in every mixture. `library`: three list objects are a list, a window and a
window of the window or beside it, and two nested calls a write inside an
iteration; a heap of six has a removal that must go up; two
keys and three computations are a default that reads another, or itself, from
within one that reads. `language`: the parser
decides by the two operators around an operand, so pairs show every decision
and triples every loop inside another; the lexer by the token before and the
character after. `values`: the functions decide by class, sign,
scale difference and equality of operands, of which the sets hold each
combination, with numbers on both sides of each width. The theorems remove the
bounds for the modules of `dap`, `hostcalls` and `library`, for `Sets`, and for what
`RaiseEndsTheWalk`, `KeepsWhatTheClosurePut` and `CountsAsWritten` say of
`Iteration`.

Fairness. `Dap` assumes that the adapter's thread is scheduled, that the script
keeps executing while it can, and that the client closes in the end; the first
two are one operating-system thread's progress, and without the third a session
is legitimately kept open for ever. A script that blocks on a full pipe is not
helped by fairness, which is what `dap_output` shows. `Lowering` is sequential
and only assumes that the machine takes its next op. The other modules have no
liveness property: Groovy code may run for ever, and the pure algorithms end by
construction of their operators (the walks that might not are cut at
`DepthBound` and `WalksEndOrRaise` says that the cut is never reached).

`CHECK_DEADLOCK FALSE` is set where the system stops: a session or a script that
ended, one input read back, a bound on calls reached.

## 4. What is proved

`DapProofs`, for every set of files, lines and markers and every bound:
type correctness; every request read is answered once and in order; the
channel's numbers are 1, 2, 3, ...; printed output is forwarded, in the pipe or
in the buffer, and all forwarded once the run is over; and the script stops at a
marker exactly if the last answer about breakpoints named its line, or after a
step (`StopsAsTold`, for any number of files). If the client names one file, that
is what it was told of the file that runs (`StopsWhereAsked`); the assumption
`OneFile` is needed there: see section 5. The argument is an inductive invariant
per property over `TypeOK`, with one lemma (`EmitAppends`) for what sending does
to the channel.

`HostCallsProofs`, for every set of closures, receivers, categories and
methods, every limit and every nesting: `TypeOK`, `NoResidue`, `FramesNested`,
`RustStackBounded` and the refinement `ScopesRestored`. None is inductive. The
invariant `IInv` adds: `Restores` (undoing the innermost activation gives the
context it was entered in, and so on down the chain to a clean thread),
`ProbedOnlyUnderProbe` (`MISS_PROBED` is false outside a probe, now and in each
saved context), `BelowLimit` (each nested run began below the limit) and `Idle`
(no activation outlives its run). Every action is first classified (`StepKinds`):
it enters an activation, leaves the innermost, or stays; preservation is then
proved once for each of the three. `RustStackBounded` follows from an injection
of nested runs into the frame counts below the limit. The assumptions are those
of the module: the limit is a natural number and no method is called `None`.

`ListViewsProofs`, for any elements, literals, bounds and depth of views. The
invariant `IInv` says that handles refer to older handles of the right kind
(`Shape`), so that the walks through windows and views end, and that nothing
shortens a fixed-size list below one of its windows (`FixedInside`); it holds
for every script and gives `PoliciesHold`. The other theorems are about scripts
that keep to what `library` runs (`PlainScripts`: `Scripts = {}`); for the rest,
`lists_parked` shows that the claims are false. `PInv` is what they need:
views show lists, a window expects a counter its list has had (`CountersBehind`),
a live window lies in its list and in the window around it, which lives too
(`Inside`), and while a closure runs nothing is parked and the `removeIf`s in
progress are on windows that live and on lists of their own (`CallsApart`). From
it follow `WindowsStayInside`, `EachReturnsNothing` and, one lemma per action,
`WindowsImplemented`: every step of `ListViews` is a step or a stutter of
`LiveWindows`.

`CollectionsProofs` has two parts. Of values computed on demand, for any bound on
the keys and on the depth, any set of stores whose closures raise and any keys
the closures read: `Fits` says that each computation in progress has a place for
its value (the list is as long as the index to be pushed, or holds the element to
be set), `ListPlaces` that the list's values are at or behind their index, and at it
until it grows under an element being computed, `AnsweredIsStored` that what was
answered is there. `OnceOnly` and `ResultsOnly` follow, without an assumption
on what raises. The exception for a list that grew is needed: `lazy_nested`.

Of queues, for any heap elements and lengths: a sift moves an element along
a path of places; `ShiftedCounts` shows by a bijection of places that it keeps
every element, `UpOrdered` and `DownOrdered` that it mends a heap out of order at
one place. `RemovedAtIs` is the step a test hardly reaches: the element that
fills a gap in the middle goes down or, where it stays, up, and both leave a
heap. `NothingLost` and `LeastTaken` follow.

`ClassesProofs`, for every finite hierarchy without cycles and, for static
initialisation, any fields that are each declared once. Its invariant there relates the stack of initialisations to the table: calls below the
innermost wait for an initialiser, a class has one call, initialisers run in
the order of the fields, a registered class is in progress, was left by a raise
or is done (`Settled`), and superclasses are registered first, those a call has
still to come to excepted (`ChainsInOrder`). For metaclasses it says that an instance
was built with a replaced metaclass exactly if its heap position is not below
the one kept (`PositionsTell`); `SeesMetaclass` is then about the first class of
the chain that answers.

`SetsProofs`, for any values, any lists a set is made of or combined with, and any
number of calls. What it assumes of the equality, the hash and the comparator is
named in `Sets`: two values that one equality calls equal share a key, unless one
has none (`EqualityAssumption`; what the comment at `bucket_key` promises, checked
of `Equality` by `EqualValuesAreOne`), hashes are natural numbers, and the
comparator is an order up to equal values (`OrderAssumption`). The invariant `SInv`: the
elements differ under the set's equality or comparator, the index is the one
`BuildIndex` would build anew, and a hash set nothing was removed from has the
elements that its table was given. The index answers as a scan because equal
values are among its candidates (`IndexFinds`) and every operation rebuilds or
extends it as building anew would (`PushedIs`, `DedupIs`). That the order shown
is Java's needs more: `PutIs` says that a put, with the doubling it may cause, leaves
each bucket's elements in the order they were added (one doubling is enough, and
splitting a bucket by one more bit keeps the order in both halves), and
`IteratedIs` that walking those chains is the sort by bucket that the code does
over the elements, because finitely many things have one enumeration in
a given order (`RankedOnly`).

`IterationProofs`, for any receivers, closures, answers and widths of integers:
`RaiseAlwaysEnds` (the orderings excepted, as in the run),
`WhatTheClosurePutStays` and `LoopsAlwaysCount`. `WalksAssumption` says what a
call is: a map has one entry per key, a step is not zero and no walk is about the
one key that the model's closure adds. There are three invariants, one per
theorem. `WalkInv`: either the walk was refused before its first call, or it ended
with the call that raised, which is the last, or none raised. `NumberInv`: call i
of a number's loop is made with the i-th value, and the loop is over where the
next is outside the span. `NextIs` relates the code's counter, which wraps at the
width of a long, to the value that counting without a width would have; the two
agree as long as every value that the loop passes is a long, and
`CountsAsWritten` leaves out the loops that would wrap (`WrapsPast`). `MapInv`: until
a writing method has its answer, the map is the receiver with what the calls so
far wrote, an entry of the closure's or the values of `replaceAll` (`LeftIn`);
`DroppedIs` and `DropsJudged` then say that removing the keys judged by the closure
removes those entries and no other, and `PutIs` what storing under one key leaves.

How data is dealt with: a claim about all places or handles is proved by the
least one at which it fails (`LeastElement`, `LeadsOut`), and a recursive function
is shown to exist, and so to satisfy its equation, by `RecursionAlong`, which
builds it rank by rank; a loop over an index is one along its index
(`LoopExists`), and what it computes is shown by induction over that interval
(`IntervalInduction`). All are in `CommonLemmas`.

Only model-checked, with the reason:

* the liveness properties of `Dap` and `Lowering`, which are beyond the prover;
* `FollowsLanguage` and `NoOperandsLeft`; `ReadBack`, `TypesReadBack`, `LexedBack` and
  `RunsAsWritten`; `RunsTheDeclarationThatFits`, `AnswersItsValues`, `ArithmeticIsExact`,
  `EqualValuesAreOne`, `WalksEndOrRaise` and `OrdersAgree`; `ComputesAsJava` and
  `TextComesFromText`: their modules rest on recursive operators over trees,
  values, texts and digits, which the prover does not take;
* `AnswersAsDocumented` and `OrdersByTheClosure`: the answers are folds and
  selections over the receiver and the sort is insertion into a list, so that each
  needs its own induction over data.

Of `library` every property but the two named last is proved, of `dap` and `hostcalls` every safety
property, of `values` the two about sets.

## 5. Known divergences

Shown by the violation runs:

* `dap_output`: a script that prints more than the pipe holds between stops
  never ends, since the reader is the thread that is blocked.
* `lowering_raising_arm`: a catch arm that raises runs its finally with the
  exception parked; the check after the finally's first call leaves it.
* `lists_parked`: a list method called in the closure of an `each` on a field
  leaves its contents in `MUTATED`, and the `each` stores them over its own
  receiver.
* `lazy_nested`: a list's default that reads a larger index of its list grows it
  under the range fixed before; its value is pushed behind, at a wrong index
  (host.rs:4827).
* `walks_raise`: `min`, `max`, `sort` and `unique` call their closure on after
  a call of it raised.
* `operators_boxed`: `(7 as short) % 4` raises, `(10 as short) < (9 as short)`
  compares texts, a Character beside a box is refused or joined.

Found while modelling, excluded from the passing runs by the named definition
or assumption, or not modelled:

* Debug adapter: a `setBreakpoints` for a second file replaces the first's
  (dap.rs:173; assumption `OneFile`).
* Completion: a finally that raises on a return's path is caught by its own
  try and runs again (compiler.rs:3569); a `return`, `break` or `continue`
  inside a finally inlined on another exit drops the finallys around it and
  keeps the parked exception; `return v` whose finally continues a loop leaves
  `v` on the stack.
* Probes: a miss of another receiver's method of the probed name is swallowed
  (host.rs:1428).
* Lazy values: a memoized closure or a map's default that raises keeps null, and
  is not asked again (host.rs:5470, 10475; `LastAnswer`). A list that grew under
  an element being computed may hold a value behind its index, compute one again
  and answer null (host.rs:4827; `grownUnder`). A list's default that writes to
  its own list while computing has its write overwritten (host.rs:4841; not modelled).
* Lexer: lines are not counted for a raw newline inside `"""` with
  placeholders or an escaped one (lexer.rs:478, 515; checked by `LinesCounted`
  over `NewlineInQuotes`); `011..13` reads 11; a placeholder's braces are
  matched past simple quotes only; `a.default / 2` opens a slashy string.
* Parser: a range on the right of `in` or `==` ends before `as` or `<<`
  (`RangeOnTheRight`); names queued for a list are taken by the body of a
  closure in a later declarator (`QueuedTooFar`); a modifier behind an
  annotation with a variable after it is taken for a class
  (`AnnotatedVariable`); a nested type that shares a deeper one's name
  (`SharedNames`); `1 << 2..3` and a ternary in a for-in are refused;
  `@Delegate` behind an annotation with arguments is missed.
* Scoping: a script field used by a function and a closure (`SharedCaptured`),
  a declaration without a value in a loop (`Restarted`), a block's local that
  hides a field after the block (`OutOfSight`).
* Calls: spread arguments of another count or type than declared
  (`SpreadAmiss`), an overload that collects beside one that does not
  (`CollectingOverload`); only the last declaration of an arity has a
  signature at compile time.
* Ranges: `containsWithinBounds` ignores an excluded left end, `case` and
  `isCase` differ, a long range that ends at the largest long has no end, an
  empty fractional range's `subList` panics.
* Operators: `('d' as char) / 2` and `2 / ('d' as char)` raise (NaN with a double),
  since `as_exact_dec` of a Character is none
  (host.rs:23492-23504), where the comment at host.rs:25240-25242 has NumberMath
  read it as its code point (`NoQuotient`); a Character has no remainder beside
  an integer (`RemainderIsRefused`), and by a zero BigInteger or BigDecimal it is a fault that no
  script catches (`ZeroUnderChar`); a box beside a Character is joined as text or
  refused (`JoinedOrRefused`); boxes are ordered by their texts (`UnboxedPair`)
  and have no remainder; a BigInteger has bits in common with a whole BigDecimal
  (`BigMeetsWholeDecimal`); a Long of no known width is shifted as an Integer
  (`ShiftedAs`).
* Numbers: `BigInteger.divide` rounds (`BigIntegersDivideTowardZero`);
  `divide(y, scale, mode)` rounds a rounded quotient; `true / 2` is 0.5; `2.0d / null` is NaN; a
  long known by magnitude alone is an Integer again once its value fits, and is
  shifted at 32 bits.
* Equality and order: `[true] == [1.0]` while `true != 1.0`; `<=>` compares
  through doubles beyond 2^53; the text that `<=>` puts in its message walks
  cyclic members without a guard (`JavaTextEnds`); set equality is not
  symmetric between kinds; a hash set's order follows a smaller table after
  removals (`IteratesAsTheTable`).
* Iteration: `removeAll`, `retainAll` and `removeIf` of a list test truth as the
  machine does, not as Groovy (host.rs:13346, so `MCAnswers` has no zero text
  and no empty list), and overwrite what their closure added (host.rs:13357);
  `groupBy` and `sum` do not spread a list element.

Hazards not covered: a comparator that touches its own queue (`seq.rs:205`), the
spread arguments between the op that builds them and the call (host.rs:11641),
the receiver list a delegate writes back (host.rs:10969), equal numbers in
`BOXED_RECEIVERS` (host.rs:11090), the Matcher's cursor (host.rs:8013), the
rendering path (host.rs:24199), and the fuzzer's time limits
(`bin/parity_fuzz.rs:2714`, 2774).

## 6. Not modelled, and why

Conversions and layouts (`format`, `regex` translation, `xml`, `json`, dates):
functions of their input with no state between calls, better tested against the
reference as the repository does. The GDK's methods without a closure: one
function each, no protocol. The classes' code, properties and switch tables of
the compiler: one op sequence per form, whose hard part (what a raise leaves) is
`Lowering`'s. fusevm: not in the repository. The language server: a table of
texts, each replaced as a whole. In what is modelled: characters are ASCII and
numbers a few bits wide, with the width a constant wherever it decides; texts
are code sequences only where they are compared, written or read. `use` with a
TimeCategory also sets a flag that its end restores beside the category
(host.rs:10993-11005), and a `setBreakpoints` without a path clears
the verified lines and keeps the program's path (dap.rs:174); neither is modelled.

## 7. Plan

1. Proofs: of `Decimals`, `Ranges` and `Calls`, once written without recursive
   operators; that the sort is stable, for any length, from which `OrdersByTheClosure`
   follows; `AnswersAsDocumented`, method by method.
2. The Matcher's cursor, comparators that touch a queue, the rendering path.
3. A composition of `HostCalls` with the checks of `Lowering`: where the
   compiler looks for what the host parks.
