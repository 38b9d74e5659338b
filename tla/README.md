# A verification project for Clever

Clever is a small interpreted language: a parser builds a syntax tree, a
resolver gives every name a place in an environment, a code generator turns the
tree into instructions for a virtual machine, and the virtual machine runs them
in one or more OS threads. The modules under `src/modules` are natives the machine
calls. This directory models the interpreter's own logic, checks it with TLC and
proves what can be proved with TLAPS. Paths are those under `src/`.

## 1. Inventory

| Part | Source | State | Operations | Hard behaviour | What makes it correct |
|---|---|---|---|---|---|
| Virtual machine | `core/vm.cc`, `core/vm.h` | program counter, call stack, try stack, pending arguments, object store, one mutex | `run`, one handler per opcode, `prepareCall`, `runFunction`, `throw_exception` | callbacks re-enter `run`; exceptions cross calls; threads share the mutex; `error` does not come back | the environment on top belongs to the running code; handlers belong to active functions; critical code is exclusive and always left |
| Code generator | `core/codegen.cc`, `core/irbuilder.h`, `core/ir.h`, `core/opcode.h` | instructions, stacks of jumps to patch | one visitor per node | jump addresses patched later; `break`, `continue`, `switch`, `finally` | compiled code does what the source says |
| Optimizer | `core/evaluator.cc`, `core/asttransformer.h` | none: replaces nodes | `transform` of arithmetic | traps while compiling | a folded statement means what it meant |
| Resolver, scopes, environments | `core/resolver.cc`, `core/scope.*`, `core/environment.*` | tree of scopes, symbols, value offsets, chain of activations | visitors; `pushValue`, `getOffset`, `activate`, `getValue` | closures outlive the call that made them; offsets are counted in two places | an operand reads the variable its name is bound to |
| Module manager | `core/modmanager.cc`, `core/module.h` | modules and their load state | `importModule`, `loadModule`, `loadFunction` | a second import, an import over a name | an imported name is bound once |
| Values and reference counts | `core/refcounted.h`, `core/value.*`, `core/type.*` | a count per Value and per object | `copy`, `deepCopy`, setters, `addRef`, `delRef` | objects are shared by several Values and written in place | sharing is never seen, nothing is freed early or kept |
| Threads | `modules/std/concurrent`, `core/cthread.*` | `ThreadData`, mutex, condition and sync objects | `start`, `wait`, `result`, destructors; `lock`, `unlock`, `signal`, `wait`; `nextID` | any order of calls from several threads, the end of the process under them | a result is read after its thread ended, each thread is joined once |
| Events | `modules/std/events` | queues of signals and of sets, connections, requisitions, a handler thread, one mutex | `new`, `connect`, `emit`, `set`, `wait`, `finalize`, destructor | the handler polls; actions run with the mutex held; `connect` takes no lock | every signal is handled once, in order, with its own arguments, before `finalize` comes back |
| Containers | `modules/std/collection`, `modules/std/core/array.cc`, `map.cc` | vectors, trees, heaps | insert, erase, iterate, `each`, `pop`, set operators | callbacks change what is iterated; the order is a script function | size and order are kept, nothing outside is read |
| Basic types and natives | `modules/std/core`, `core/clever.cc` (`check_args`), the other `modules/std` | none of their own | operators, methods, functions | a result that is not set; arguments taken by position and cast | an answer belongs to its operands; no argument is used unchecked |
| FCGI server | `modules/std/fcgi` | the request | `accept`, `getParam`, `getCookie`, `print`, ... | the query string is cut by position | each parameter has its own value |
| Databases | `modules/db` | connection, statements, results, bound variables | `open`, `prepare`, `bindValue`, `execute`, `query`, `fetch`, `close` | statements are stepped again; text is bound where it lies; several objects share a statement | what is asked is written once; everything is released once |
| Driver and shutdown | `core/driver.cc`, `core/compiler.cc`, `core/main.cc` | compiler, `fatal_error` jump buffer | `loadFile`, `execute`, `shutdown` | memory freed, and a jump buffer left, while threads run | nothing runs after it has been freed |
| Parser, scanner; tests, benchmarks | `core/parser.*`, `core/scanner.*`, `tests`, ... | | | | not modelled |

Interaction: the driver makes a compiler and then one VM; `Thread.start` and the
event handler make further VMs by copying the one that calls them, sharing its
mutex and instructions; natives call script functions back through
`VM::runFunction`, which re-enters `VM::run` on the same stacks; every call and
every result passes through Values, which the environments hold.

What is hard to test in all this is listed, line by line, under `hazards` in
`PROJECT.json`, each with the properties that would show it going wrong.

## 2. Modules

```
IR ──► VM ──► VMProperties ──┬──► MCVM, VMProofs
 │      ├──► Discipline ─────┘
 ├──► Codegen ──► Source
 │      └──────────┐
 └──────► CodegenCheck (VM, Source) ──► MCCodegen
Delivery ◄── EventsProperties (Events) ──► MCEvents, EventsProofs
Concurrent ──► MCConcurrent, ConcurrentProofs
Values ──► MCValues, ValuesProofs        Containers ──► MCContainers
Scopes ──► Environments ──► EnvironmentsProperties ──► MCEnvironments, EnvironmentsProofs
Operators ──► Strings ──► Requests ──► Answers ──► MCAnswers
Arguments ──► Natives ─────────────────┘
    └──► ArgumentsProofs                 Sqlite ──► MCSqlite, SqliteProofs

SequenceFacts: lemmas used by EventsProofs, ValuesProofs, EnvironmentsProofs
```

An operator with `Mutant` in its name is a wrong variant of the definition that
follows it; `PROJECT.json` lists which property rejects which one. The `MC` modules
hold the scripts, inputs and small sets of the runs.

### Control

**`IR`** is `core/opcode.h` and `core/ir.h`: an instruction keeps its jump
address, the function it invokes and one count; operands that only carry values
are gone. Opcodes that move control alike share a name: `EVAL` for everything
that computes and cannot raise, `RAISE` for operators and natives that may leave
an exception, `CALL` for `OP_FCALL`, `OP_MCALL`, `OP_SMCALL` and `OP_NEW` of user
functions, `NATIVE` for natives that call a function back. `WellFormed` says what
code the generator makes looks like: jumps stay inside a body, `OP_TRY` leads to
`OP_CATCH`, code falls through inside its body, and critical code is entered by
`OP_LOCK` only. TLC evaluates it for every compiled script of every run.

**`VM`** is `core/vm.cc`. Its variables are the fields of each `VM` object:

| Variable | In the code |
|---|---|
| `prog` | `m_inst` and the functions, shared by all VMs |
| `phase` | where a VM is in its handler: at an instruction, in `prepareCall` with the mutex held, returning to a native, or over |
| `pc`, `frames`, `tries`, `args` | `m_pc`, `m_call_stack`, `m_try_stack`, the length of `m_call_args` |
| `natives` | the C stack: which `VM::runFunction` calls are in progress and where `m_pc` goes back to |
| `mutex` | `*m_mutex` |

There is one action per opcode handler. Three of them are split because another
thread can get in between: a call locks the mutex (`CallLock`) and then binds and
unlocks (`CallBind`); a native calls back (`NativeCall`), the callback runs as
ordinary instructions up to the final `OP_HALT`, and `NativeResume` gives control
back. `Spawn` copies the stacks of the VM that starts a thread, as `VM(const VM&)`
does. A VM that has failed is in one of the phases `uncaught`, `badargs`, `assert`
and `undefined`, and nothing is said of the process after that.

**`VMProperties`** holds what a run must keep.

**`Discipline`** says of a program what a bytecode verifier would check: for every
address, in which states an activation may come there, by the handlers it has put
on the try stack itself and the arguments it has sent. `Checked(p, w)` asks that
these states are closed under one instruction and allow it: a handler is popped by
the activation that pushed it, none is left at a return, a call sends as many
arguments as its function takes, what may raise is under a handler of its own body.
`KeepsCritical` asks that a critical block is left through its `OP_UNLOCK` only. It
models no code, Clever has no verifier; it is the hypothesis of the stack theorems
of section 4, and TLC evaluates it for every script of `machine`
(`SoundAreDisciplined`) and sees it fail for those of `crossing_throw`
(`CrossingAreNot`).

**`Codegen`** is `core/codegen.cc` as a function from trees to programs, one
operator per visitor of a statement, with a builder record for `IRBuilder`,
`m_brks` and `m_cont`. Back-patching is done as the code does it, `getSize() + 1`
included. It is written with a `RECURSIVE` operator, so nothing is proved about it.

**`Source`** is the other half of the comparison and models no code: a machine
that runs a syntax tree directly, without addresses or stacks of the VM. It is the
specification `Codegen` and `VM` are checked against.

**`CodegenCheck`** runs both side by side. Every expression of a script carries a
label of its own; whenever the VM computes an expression, takes a conditional jump
or throws, that must be what the source machine does next. The outcome of a
condition, or of an operation that may raise, is chosen by the VM and followed by
the source machine, so all of them are explored.

### Threads

**`Events`** is `modules/std/events/events.cc`: a script thread is the list of
calls it makes, the handler thread is `_events_handler`. A call that does all its
work under `intern->mutex` is one step. The handler is split at each function it
runs, because `connect` takes no lock and may change what it iterates over.
`history` and `delivered` are ghosts: what was asked for and what was run.

**`Delivery`** is the abstract specification of an Events object, a mailbox: runs
become due in order and are done in that order, once. **`EventsProperties`** states
`IsMailbox`, that `Events` implements it under `due <- BeforeExit, done <- delivered`.

**`Concurrent`** is `modules/std/concurrent` with `core/cthread.*`, and the end of the
process in `core/driver.cc`. Every start makes a VM and a thread with its number. `data`
is `ThreadData` and the `CThread` inside it, `deleted` the VMs `_thread_handler` has
deleted, `over` says that the main thread has left `execute` and `shutdown` takes its
values. Steps are split where a lock is taken, where `pthread_join` blocks and where a
destructor runs on (`~ThreadData` joins, frees, and `~CThread` may join again). A wait
is three steps: it is called, it takes the lock of the object, it joins. Any thread may
start, wait for, ask and drop any object, its own included; `pthread_join` refuses a
thread that waits for itself, or for one that waits for it (`EDEADLK`), which the code
does not look at. `lost` is set where the code does something undefined; `breach`
remembers, from the calls alone, how the script broke the order of calls the objects
rely on, and `UndefinedOnlyByBreach` relates the two.

### Names and memory

**`Scopes`** is the resolver: a script is the sequence of its nodes in the order they
are visited, `Next` visits one. It keeps the tree of scopes with `addSymbol`,
`pushValue` and the shift between symbol indices and value indices, the stack of
blueprint environments, `m_class` and `m_func`, what imports enter, and the symbol
and `ValueOffset` of each identifier (`uses`).

**`Environments`** runs what was resolved: calls, returns, evaluation of function
literals (`OP_BIND`), instances, callbacks, in any order the resolved script allows.
An environment has its count, its outer environment and the activation its script
means by that (`maker`). A `delRef` that frees an environment goes on with its outer
one: `DelRefs` is that chain as a list of references still to be given up, taken one by
one (`DelFirst`) for as many turns as there can be.

**`EnvironmentsProperties`** compares the resolver with the text (`Means`, which looks at
the nodes only) and the running script with both.

**`Values`** is `core/value.*`, `refcounted.h` and the instructions that write values.
A Value is a counted cell that points to a counted object. Numbers are written in
place when nobody else holds them. `store` is the abstract memory, in which numbers
are simply copied and no count exists: `StoreAgrees` is the refinement of one by the
other, written as an invariant because both are changed by the same step. A `delRef`
that frees a Value goes on with its object, and one that frees an array with its
elements: `Release` works off the list of what is still to be given up, what a freed cell
held before the rest, the order in which the calls of the code nest.

**`Containers`** is `std.collection`, `Array` and `Map`: one object at a time with a
second one for the operators. `each` is split at its callbacks, which may change what
is visited. `out` is the last answer with the content at the time of the call.

### Natives

**`Operators`** gives what an operator of a basic type makes of two operands: a new
result, the old content of the temporary, an exception, or a trap. Integers have `Width`
bits. A result that is no such integer is undefined (`Stray`), since nothing asks the
compiler to wrap; shifts work on the bits, which is what C++98, the language the build
asks for (`environment.cmake:51`), says of `<<`. Doubles are counted in quarters.
`Transform` is the fold of `core/evaluator.cc`. **`Strings`** is the same for the
methods of `String`, with the conversion of positions to `size_t`. **`Requests`** is
`Server::accept`: cookies and parameters out of their texts. **`Arguments`** is
`check_args`, **`Natives`** the table of what the natives of every module ask from it,
what their bodies then take, and with which numbers of arguments they set their result.

**`Answers`** executes one such instruction again and again, as a loop does, with its
result going to the same temporary: an answer that is not set is the answer of the
round before.

**`Sqlite`** is `modules/db/sqlite3`. `stmts` are the statements of the library, which
several objects may share; `objs` are the statement and result objects with their
counts, `conn` holds the list of them that `close` empties. `log` is what was written,
`meant` what the script asked for. `rules` are the rules of section 3.3 the script has
broken. An execution may throw at a value that no parameter can have (`ExecuteThrows`).
The library itself is external and modelled from its documented behaviour.

## 3. Runs

| Run | What it asks | Result |
|---|---|---|
| `machine` | Do try statements, calls, callbacks, loops and critical blocks of a main script and two threads keep the stacks in step with the code (`FrameMatchesCode`, `HandlersAreLive`, `CallbacksBalanced`, `RoundsLeaveNothing`), is critical code exclusive and never left behind (`MutualExclusion`, `OwnerIsInside`), and does everything end (`EndsClean`, `NoFailure`, `EveryThreadEnds`, `RoundsEnd`)? | holds |
| `compiled_code` | Does compiled code do what the source says (`FollowsSource`), without jumping around for ever (`KeepsShowing`)? | holds |
| `mailbox` | Does an Events object run what is due, once, in order, completely (`IsMailbox`, `DeliversWhatIsDue`, `DeliversAll`), and do `finalize` and every call come back? | holds |
| `concurrent` | Is everything undefined that threads can do to Thread objects and locks one of the listed breaches (`UndefinedOnlyByBreach`), does `wait` mean ended, are ids in turn, does a script in good order end with nothing left? | holds |
| `values` | Do counts and sharing stay invisible (`StoreAgrees`), exact (`CountsExact`), and is only one thing ever used after it was freed? | holds |
| `containers` | Do the methods give what their comments promise, is order kept, and does only a broken rule read what is not there? | holds |
| `environments` | Does a name mean what the text says (`NamesResolve`), is it found in the activation it means (`ReachesMaker`), is every environment counted once per holder? | holds |
| `answers` | Does every answer come from its own operands (`AnswersFit`), is every argument checked that is used (`ArgumentsSuffice`), does folding change nothing (`FoldsAsRun`)? | holds |
| `sqlite` | Is written what was asked, are rows given in turn, is everything released once? | holds |
| `crossing_throw` | An exception that crosses a call: is every operand inside its environment (`core/environment.cc:48`)? | violated |
| `dowhile_break` | Does `break` leave a do-while loop? | violated |
| `overwritten_set` | Does every queued `set` run its own functions with its own arguments (`SetRunsItsOwn`, `tests/std.events/events_002.test:25`), also when the next one sets the same keys? | violated |

The three violations are disagreements between the code and what its comments,
assertions and tests say; `PROJECT.json` quotes the lines. A throw never unwinds
`m_call_stack`; `visit(DoWhile*)` patches `break` one instruction past the end of the
body although the condition, not one `OP_JMP`, follows; `_events_handler` matches
the oldest call of `set` with the state the latest one left, so that a second `set` of
the same keys decides what the first one runs.

### 3.1 What the passing runs leave out

Passing scripts stay on the side where the code keeps its promises. Where a run can
name the ways a script leaves that side, it explores them too and the property says
that nothing goes wrong otherwise (`concurrent`, `values`, `containers`,
`environments`, `answers`, `sqlite`). In `machine`, `compiled_code` and `mailbox`
the exclusions are in the choice of scripts:

- what may raise is inside a `try` of the same function; no statement jumps or
  returns out of a `try` (`OP_RET` never pops `m_try_stack`, `vm.cc:388`) or a
  critical block; `finally` blocks do not raise (they run before `OP_ETRY`, so their
  own handler would take it), and a catch block raises only inside a `try` of its own;
- `do-while` and `foreach` bodies hold no `break` or `continue` of their own:
  `visit(ForEach*)` patches nothing; `continue` inside `switch` reads the front of an
  empty vector while compiling (`codegen.cc:701`) and does not occur;
- critical blocks of scripts with threads only compute: `m_mutex` is not recursive
  and every call takes it, so a call in a critical block waits for itself;
- a script connects before it emits, and uses each Events object while it exists;
  functions the handler runs do not use the object that runs them;
- requisitions of one script do not overlap between two calls of `set`, and `set`
  is called with a map that is not empty.

### 3.2 Gaps the properties name

Each of these is explored by its run, and the properties hold outside it.

*Threads* (`Concurrent`, `breach`): `wait` before `start` or a second `start` of one
object; `result` before a `wait` has come back; an object dropped before its start, or
while another thread is in its `wait`; threads that join in a circle, a thread that
waits for or drops its own object being the shortest (the join is refused, `joined` is
set all the same, and the next `wait` comes back while the thread runs); a `Sync`
without ids; an error in a child thread, which jumps to a jump buffer of the main
thread; the end of the main script before that of a thread it did not wait for.

*Values* (`selfcopy`): an object that one Value alone holds is copied onto that Value:
`a = a` for an array (numbers are written in place), `a[i] = a[i]` for anything, since
an element takes a plain copy (`vm.cc:113`). `copy` gives up the old object first
(`value.h:124`).

*Containers* (`breach`): reading a hole that `resize` made; `range` with the size as
an index; removing elements in `each`; using an iterator after a change or beyond
the end; a map made from an odd number of values; an order that is not strict; an
operator on two sets with different orders. No property is about `Map.insert` of a
key that is there: the map keeps the old value, as `std::map::insert` does, where the
comment says that the key is set (`map.cc:82`).

*Names* (`Misread`): a class or an import over a name of the same scope shifts the
indices of the symbols after it (`scope.h:63`); the second import from a loaded module
gives nothing (`modmanager.cc:194`); a named function inside a method becomes a
member of the class (`resolver.cc:118`); a class inside a method ends the class around
it (`resolver.cc:312`). Outside these `NamesResolve` says exactly when resolving fails:
when the text uses a name nobody declared, or declares one twice in a scope, in a class
or in a list of arguments (`Wrong`). The variable of a `catch` and the statements of its
block share one scope; a `foreach` has a scope for its variable and one for its block.

*Environments* (`sound`): a named function or a class inside a function gets the
resolver's environment as its outer one, and a named function inside a method is called
as a method of its class, which is not where its text stands (`InClass`); a function
literal evaluated again is bound anew for those who hold it already (`vm.cc:979`); a
function value returned by another function than its maker is bound to the one that
returns it (`vm.cc:399`); what is made during a callback is freed when that `run` ends
(`vm.cc:252`, `vm.cc:412`).

*Answers*: an operator without a case for its operand types leaves its slot as it
was; an Int compared with a Double yields a Double, which is always true; `or` of two
false values leaves its slot; `++` of a Double makes an Int; `startsWith` and `endsWith`
yield 0 or 1, and 0 is true; `endsWith` is wrong when its argument is one longer;
negative positions become huge; `subString` past the end and `s[s.size]` do not come
back; an Int divided by zero, or the least one by -1, traps, when folded also where it
would never run; `+`, `-`, `*`, `++` and `--` of Ints may overflow, and a Double given to a
bit operator may be out of the range of an Int, which are undefined (`OperatorRisk`).
Natives that leave their slot as it was on some path (`NativeGap`): `Array.erase` of an
empty array or a position that is not there, and some of `Reflect`, `FFI`, `FFIStruct`,
`Server` and `UString`. Natives that take arguments they did not check (`Unchecked`):
`io.printf`, three of `FFI`, `FFIStruct.setMember`, `FFITypes.addFunction`,
`NCurses.new`, `Map.insert`, `Condition.wait`. Requests (`RequestGap`): more than one
`&`, a leading one, a parameter without `=` or beginning with it; a cookie with a
second `=`, or an empty name or value.

### 3.3 Rules of the SQLite binding

| Rule | What a script must not do | What happens |
|---|---|---|
| `fetched` | fetch from the result of a write | the write is done again (`sqlite3.cc:263`) |
| `changed` | change a bound variable before the statement has run | the new value, or freed text, is written |
| `closed` | use a connection that is closed | `exec` answers true and does nothing, `getLastId` reads NULL |
| `refused` | meet a failure other than `SQLITE_ERROR` | it is not reported; `query` leaves its statement behind |
| `rebind` | execute again without `finalize` after a fetch | the bind is refused, the old parameter used |
| `shared` | use an older result of a statement executed again | the rows are those of the new execution |
| `twice` | execute one statement twice | both results finalize it |
| `unheld` | bind computed text nobody else holds | the next bind frees it while the library reads it |
| `outlived` | use a statement or a result after the connection | it is finalized already |
| `unknown` | fetch from an older result after an execution that a value of a type no parameter has (a Bool, an object) has stopped | it throws, but the values before it are bound by then (`sqlite3.cc:225`): the older result reads with them |
| `left` | close or drop the connection while something is held | the handle is lost |

A script of the run breaks at most two rules (`MaxBroken`). Each property was seen to
fail in the run without any one of the rules it names, but for one: `RowsInTurn` names
`unheld` because its proof asks for it. A script that binds a text nobody holds,
executes, resets and executes again reads with a parameter that is freed, which
takes nine calls, two more than the run makes; TLC finds it with that bound.

### 3.4 Bounds, and why they are enough

- **Machine.** One to three VMs (`NThreads` is 2; scripts start none, one or two).
  The mutex relates two VMs at a time, the third is there to start a thread from a
  thread and to compete. Scripts have two functions, so a call, a callback, a
  callback's call and a throw in each of them occur; try statements nest to depth two
  in one body and once more through a call. Nothing is cut off: the state spaces are
  finite without constraint, which for scripts that loop is itself a result: a stack
  that grew with each round would make them infinite.
- **Code generator.** 319 scripts: every kind of statement inside every other one
  that can hold it, with each jump that may leave the inner one, and every try
  statement of three parts around calls, callbacks, loops and throws. A visitor
  only sees its node and the stacks its parents left, so pairs of nested
  statements exercise what one visitor can do to another; the patches to
  `getSize() + n` are exercised with an empty and a non-empty rest.
- **Events.** Two script threads, two events plus `exit` and `set`, two functions,
  two keys with values 0, 1 and 2 (0 is what `operator[]` makes of a missing key)
  and up to six signals: two threads can interleave theirs, an event can come
  before and after `exit`, requisitions on one key and on both occur. The three
  endings are a `finalize` before or after the other thread's calls, and a
  destructor without one.
- **Concurrent.** Three starts (`MaxStarts`), so three threads beside the main one,
  three objects, one without a function. Any five calls on two objects contain
  every pair of misordered calls; on two started objects the main thread and both
  threads call `wait`, `result` and `drop` in any order, each on its own object too
  (`AnyUse`), which gives circles of one and of two threads; three ids, so that the turn
  wraps.
- **Values.** Seven Values and three objects (`MaxVals`, `MaxObjs`): the five slots, two
  elements; numbers modulo two; arrays of up to two elements. Values that
  differ in identity only are explored once (`VIEW Renumbered`).
- **Containers.** Three elements, four for callbacks to reach, heaps of up to five
  (three levels); two usual orders, one that takes different elements for equal and
  one that is not strict.
- **Environments.** 22 scripts, each aimed at one way of declaring or using a name;
  four frames, five activations beyond the resolver's, three values kept.
- **Answers.** Integers of four bits, so that the least one and overflow occur; texts of
  up to three characters, positions from -2 to 4; up to six arguments, more than any
  native takes; folded trees of two operations; two rounds, since a slot only
  remembers the round before.
- **SQLite.** Two rows, two statements, three objects, seven calls: open, prepare,
  bind, execute, fetch, bind and execute again, or execute, bind twice, throw and fetch;
  two variables, each with a text or a value that cannot be bound.

### 3.5 Fairness

- `machine`: weak fairness of each VM's steps. Each runs in an operating-system
  thread of its own. The pthread mutex promises no turns, so no strong fairness is
  assumed of it: `RoundsEnd` says that *some* round ends again and again, and would
  be false of each thread by itself.
- `compiled_code`: weak fairness of the whole step; one thread.
- `mailbox`: weak fairness of the handler and strong fairness of each script thread's
  calls. The handler frees the mutex and then sleeps `m_sleep_time` in every
  round, so the mutex is free for long again and again, and a caller blocked on it
  gets it. Without it a caller could be passed over for ever.
- `concurrent`: weak fairness of each thread's handler and of the shutdown, strong
  fairness of the threads' calls, which block on locks others take and give up; the
  scripts are finite, so a lock is free for good in the end.

The other runs state no liveness: what they model runs in one thread and ends with
the call.

## 4. Proofs

| Module | Theorem | Says |
|---|---|---|
| `VMProofs` | `TypeCorrect` | `Spec => []TypeOK` of `VM` |
| | `MutualExclusionHolds` | `Spec => []MutualExclusion` |
| | `NothingFails` | a disciplined script fails no assertion, does nothing undefined and leaves no exception uncaught |
| | `FramesFollowCode` | the environment on top is that of the code that runs |
| | `HandlersStayLive` | every handler belongs to an activation still on the call stack |
| | `CallbacksComeBack` | a callback leaves the call stack it found |
| | `MainEndsClean` | `OP_HALT` finds no handler and no call left |
| | `RoundsBeginClean` | each round of a loop of top-level code finds the stacks as before the loop |
| | `OwnerStaysInside` | a thread owns the mutex exactly while it is inside critical code |
| `EventsProofs` | `TypeCorrect` | `Spec => []TypeOK` of `Events` |
| | `QueuesAlwaysInStep` | the three queues of `set` stay in step |
| | `NothingIsLost` | scripts that keep the rules do nothing undefined |
| | `DueIsDelivered` | what was taken is what was due, once and in order |
| | `FinalizeWaits` | `finalize` comes back when all before its "exit" has run (an action property) |
| | `ImplementsMailbox` | `Events` implements `Delivery`: every step is a step of the mailbox or a stutter |
| `ConcurrentProofs` | `IdsAlwaysInTurn` | `Sync.nextID` hands out its numbers in turn |
| | `OnlyBreachIsUndefined` | nothing undefined happens before a rule is broken |
| | `WaitFindsTheEnd` | who comes back from `wait` finds the thread over, joined, with a result |
| `SqliteProofs` | `WritesWhatIsMeant` | the database holds what the script asked for |
| | `RowsComeInTurn` | every result gives its rows in turn, for its own parameter |
| | `EverythingReleasedOnce` | nothing is finalized twice, nothing is left |
| `ArgumentsProofs` | `RequiredArgumentsFit` | an argument in front of every mark is there and of the type its letter asks for |
| `ValuesProofs` | `CountsStayExact` | the count of every Value and of every object is the number of its holders |
| | `StoreStaysTrue` | every Value holds what it would hold if numbers were copied: sharing never shows |
| | `OnlySelfAssignmentFrees` | something freed is touched only after what one Value alone holds was copied onto that Value |
| `EnvironmentsProofs` | `CountsFollowHolders` | the count of every environment is the number of its holders, at every step of a script |

### 4.1 For what, and from which assumptions

Every theorem holds for any number of threads, objects, statements, rows and calls, as
the module's constants give them, and for scripts of any length. What is assumed of
scripts:

- *Virtual machine.* `ProgramsAssumption`: scripts are `WellFormed`. For types and
  mutual exclusion nothing else: whatever the script does, none of the exclusions of
  section 3.1 is needed. The theorems on the stacks, from `NothingFails` to
  `OwnerStaysInside`, have `Disciplined` as a hypothesis, and `OwnerStaysInside` also
  `KeepsCritical`; that of `RoundsBeginClean`, `LoopsOutside`, asks in addition that
  top-level loops are outside `try` statements. These are the exclusions of section 3.1
  written as a predicate on programs. TLC evaluates all of them on the scripts it
  compiles; that `Codegen` gives such programs for all trees is not proved, since it is
  recursive. The functions of a script may call each other and themselves to any depth.
- *Events.* `TypeCorrect`: none. `QueuesAlwaysInStep`: no script emits "set" itself
  (`NeverEmitsSet`). The others: the main script starts from a set of calls `D` in the
  order `InOrder` and with the rules `KeepsRules(D)` (a map that is not empty, values
  and requisitions that do not overlap; section 3.1), whatever the threads it starts
  do with `emit`, `set`, `start` and `join`. `MCEvents` has TLC evaluate these for the
  scripts of its run (`NeverEmitsAssumption`, `RulesAssumption`).
- *Concurrent*, *Sqlite*, *Values*. None: the properties themselves say what follows a
  broken rule. `Values` is about one variable, the temporary, the element a
  subscript denotes and the activation of one function; instructions come in any order,
  with any numbers of Values, objects, elements and integers. Arrays inside themselves
  are left out (`CanHold`): the code never frees them.
- *Environments*. `ProgramsAssumption` of `Scopes`: scripts are trees, so an "end" in
  the sequence of nodes closes one that was opened before. Nothing else is asked of a
  script, and nothing of the order in which what it resolved to is run.
- *Constants.* The named assumptions of each module: `NThreadsAssumption`,
  `FuncAssumption` (the owner of top-level code is not a function), `MainAssumption`,
  `EventAssumption` ("exit", "set" and "none" are not events of a script),
  `ArgAssumption`, `KeyAssumption` (keys are numbers; 0 is a value, the one
  `operator[]` makes), `CallAssumption` and `ScriptAssumption` (scripts are sequences
  of well-typed calls), `ObjectsAssumption`, `BoundsAssumption`, `SqliteAssumption`.

### 4.2 The arguments

*Types of the VM.* `TypeOK` is not inductive: a `pc` stays an address only if what
follows the current instruction is one, and a return address is one only if the call
was not the last instruction. `TypeInv` adds `ProgramOK` (the program is one of
`Programs`) and `StackOK(t)`: which stacks are non-empty in which phase. `WellFormed`
gives that code falls through inside its body. One step per action.

*Mutual exclusion.* The mutex does not protect code, it protects intervals of a
thread's run, so the invariant must say that every address a thread can come back to
is outside critical code: return addresses, catch addresses and the addresses natives
resume at. That is `CriticalOK(t)`, with `InCritical(t) => mutex = t`.
`CriticalIsBracketed` carries it over jumps. The exception is a native called *inside*
critical code that calls back: it comes to `CallLock` while its thread owns the mutex,
and there it stays, since the mutex is not recursive. The invariant says so
(`mutex = t /\ phase[t] = "entry"`).

*Stacks.* The machine has three stacks and no record of which entries belong together.
`Sound` says that there is a sequence of activations that accounts for all three
(`Shape`): activation `j` is the one frame `j` was made for; the try stack is the
concatenation of the handlers of the activations; the call in progress of activation
`j` will come back to where `j` goes on, except where a native called back, whose
frame returns to the final `OP_HALT` and whose `saved` address is kept on the C stack;
and every activation is in a state that the discipline admits at its address. A new
thread copies the stacks of the one that starts it, so the activations below `b` are
never returned to. The lemmas on `Shape` say what going on, calling, calling back,
returning, throwing and starting do to the sequence; one lemma for each handler of
`core/vm.cc` applies them. The properties are then read off the top of the sequence.
For `OwnerIsInside` the other direction of `MutualExclusion` is needed: whoever takes
the mutex with `OP_LOCK` comes inside, and leaves only through what frees it.

*Events.* `InStep` and `QueuesInStep` relate `sets`, `setArgs` and the "set" signals
in the queue (the handler's current one included); `HandlerInv` says that the handler
holds the mutex while it works. `DeliveryInv` adds what the signals still in the queue
will lead to: `PendingInv` (the history behind what was taken is the queue, and what
is due for it is what the connections give now), `SetsInv` (the same for calls of
`set`, through the state they are filed under), `SettledInv` (the state holds what
every unfinished `set` has set, the reason why requisitions must not overlap),
`FlowInv` (delivered, being run and still to be found for the current signal make up
what is due) and `ExitInv`. `Quiet` is why connections do not change under a queue: a
script connects first. The refinement follows step by step from `FlowInv`: running a
function moves the first run of what is left to `delivered`, every other step of the
handler leaves the mapped state alone, and the calls of the script append to what is
due. The properties of the library's `FlattenSeq` that this needs are in
`SequenceFacts`; the library defines it by a recursive function, whose existence is
shown there by induction, written as an argument on the least number outside a set.

*Concurrent.* `nextID` takes its lock, reads, and writes with the unlock, in three
steps. `SyncInv` adds `LockedInside` (who is between the first and the last holds the
lock, and what it has read is still there) and `FollowsLast` (the next id follows the
last one). All other actions are `Elsewhere`: they leave the SyncObject alone and
bring nobody into `nextID`. `OrderInv` says that while nothing is broken, nothing is
lost and an object and its thread know each other (`Ownership`), a thread runs on the
VM of its start, which is deleted when it ends and not before (`Lifecycle`), an object
is joined once and before it is freed (`Joining`), and whoever is in a call on an object
(`InCall`, a part of `Blocked`) is there while the object is alive, is not in a circle
of joins, holds its lock when it joins, and is alone with it when it drops it.
`~ThreadData` that joins and then frees is safe because an object dropped while another
thread waits for it is a breach. Without a circle `pthread_join` is never refused, so it
comes back after the end of the thread only.

*SQLite.* Each property has an invariant that holds only while the rules it names are
kept. `Written`: what a write statement has been told to write is in its parameter or
in the variable bound last, and it is not half-executed. `Reading`: of the results of
a statement only the youngest is in the midst of its rows, and the parameter is still
its own. `Lasting`: no parameter of a statement has been freed. `Listed` and
`Counted`: the references of an object are those of the script, of the connection's
list and of its executions; of the objects that share a statement exactly one, the
last made, was not executed again, and its end is what finalizes the statement.
`Ended`: a closed connection has left nothing. `NoStray` closes the circle: what is
stepped, reset or finalized is alive.

*Arguments.* The first mark of a specification is behind the letter, and `check_args`
lets no fewer arguments through than there are letters before it; without a `|` before
it a letter stands at the place of its argument.

*Values.* In the middle of a method the heap is not in order: a pointer has been moved
and its old object is still counted, or an element is freed and its own object not yet.
`Owing` is the invariant of that middle: a count is the number of pointers or elements
that lead there, of the roots (slots and activations), and of the references still due.
`DelRefKeeps` says that giving one up keeps it, adding to the list what the freed cell
held; `ReleaseKeeps` that the list is empty at the end, since every turn frees something
or shortens it (`Toil`), which leaves the counts exact (`Balanced`). While `cleanUp` of
a Value runs, its own pointer is left out of what counts (the set `M`). Each method is
then described by what it `Writes` and what survives it, `pushValue` by an induction on
the elements pushed, and each instruction by one lemma. `ValuesInv` says in addition
that the slots' own Values are elements of no array (`Unlisted`), so that what is
written to a variable or a temporary appears in no array, that `store` agrees, and that
a freed object is touched only once `selfcopy` is set; after that nothing is claimed.

*Environments.* The counts need a fact of the resolver: the environment of a function or
class is made inside one made before, so each activation's outer environment exists.
The resolver finds it on its stack, and the stack is never empty because it holds one
environment for each function or class still open (`StackOK`) and nodes open and close
in pairs (`NestingOK`, from `ProgramsAssumption`). Of the running script, `RunOK` says
that a count is what the compiler, the frames and the object store hold, and the living
environments inside (`Owing`). The bottom frame runs over the script's own environment,
which it does not count; every other runs over an activation it does. A chain of
`delRef` is treated as in `Values`, with `Toil` the number of living environments and of
references due. `Grew` is the pattern of a step that makes activations and `Settled`
that of one that gives references up; each opcode that touches environments has one
lemma that fits it to one of them.

The counting itself (how often something occurs in a sequence, what appending, removing
and flattening do to it, a cardinality that grows by one) is in `SequenceFacts`.

TLC has checked `SyncInv`, `OrderInv`, `DeliveryInv`, `ValuesInv` and the parts of the
SQLite invariant on the instances of their runs. The `Sound` of the stacks quantifies
over sequences of activations, which TLC cannot enumerate; what it evaluates there is
the discipline.

### 4.3 Only model-checked

- *Liveness* (`EveryThreadEnds`, `RoundsEnd`, `KeepsShowing`, `DeliversAll`,
  `EveryCallReturns`, `SoundScriptsEnd`): fairness and `ENABLED` are outside what the
  prover can do.
- `FollowsSource`: `Codegen` and `Source` are recursive, and the property relates what
  two recursive definitions compute.
- `NamesResolve` and `ReachesMaker` of `Environments`: both follow chains of outer
  environments through what the resolver counted, for as many steps as the offset says.
- The invariants of `Containers` (`OnlyBrokenRulesLose`, `GivesWhatIsMeant`,
  `StaysInOrder`): the heap and the loop of `range` are recursive operators, and that a
  heap or a sorted sequence stays one is an induction over it.
- The invariants of `Answers` (`AnswersFit`, `ArgumentsSuffice`, `FoldsAsRun`), which
  uses `Strings` and `Requests`, both recursive.
- What the violation runs show.

## 5. What is not modelled

- *Parser, scanner*: generated from a grammar; scripts enter the models as trees. The
  test runner, benchmarks, the `win32` port and the build files are tools around the
  interpreter.
- *Virtual machine*: `checkContext` (private members, `vm.cc:368`), include files, the
  object store beyond the environments in it, what the process does after the
  longjmp of `error`. Exceptions do not skip frames in `Environments`.
- *Code generator*: logical operators and ternaries as control flow, classes, default
  values of arguments (`codegen.cc:103`, `codegen.cc:209`). Short
  circuits are in `Operators` by their result.
- *Imports of files* and their compilation, and the interactive mode and command line of
  the driver: each file or line would be a further script, which the models take whole.
- *Values*: only integers, arrays and null. Counts are atomic (`refcounted.h:33`), what is
  done between two of them (`copy`, the setters) is not, and two threads that share a
  Value are not modelled. `const` as a property of a Value.
- *Containers*: a comparator, or a callback other than that of `each` on arrays and maps,
  that changes the container it works for; `toString`, `size`, `empty`.
- *Natives*: what libraries and system calls do (`external` in the map); the layout of FFI
  structs, elements of getopt's arrays, negative groups of `Pcre`, the descriptors of
  sockets, nested nulls in JSON. MySQL and ncurses appear in `Natives` only.
- *FCGI*: the streams of the library, and the maps all `Server` objects share.
- *Events*: the values of arguments, kept without a reference (`events.cc:206`), and
  functions that use the object that runs them (`events.cc:43`).

## 6. Plan

What is left, most valuable first:

1. Proofs: `ReachesMaker`, by an invariant that ties the distance between two blueprints
   to that between their activations; `StaysInOrder` of `Containers`, for a comparator
   that is an order; `ArgumentsSuffice` and `FoldsAsRun`, whose operators would have to
   be taken apart from the recursive modules first.
2. Values shared by threads: `copy` and the setters split at their atomic `addRef` and
   `delRef`, since the pointer they move is read and written without a lock.
3. The arguments of signals in `Events` as counted Values.
4. Private members and their check against the function on top of the call stack.
