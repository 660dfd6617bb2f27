# TLA+ models of the NewM2 Modula-2 system

NewM2 is a Modula-2 compiler for Windows written in Rust, with a JIT, a native
back end, a runtime (manual heap, garbage collector, exceptions, coroutines,
MIDI) and a library written in Modula-2 itself. This directory holds TLA+
models of its core: the compiler from the characters of a file to what the
emitted code does, the module loader, the run of a program, the two heaps, the
garbage collector and the asynchronous TCP server; TLC configurations that check
them; and TLAPS proofs about the module loader, the run of a program, the heap
guard, the self-hosted allocator, the server, and the collector's heap and
handshake.

    tlc -workers 2 -config MCModuleGraph.cfg MCModuleGraph
    tlapm ModuleGraph_proofs.tla

`PROJECT.json` lists the components, the runs, the mutants that show each
property can fail, the source lines of every definition, the findings, the
hazards and the theorems.

## 1. Inventory

| Component | State | Operations | Interacts with | Hard behaviour |
|---|---|---|---|---|
| Module loader (`newm2-loader/src/loader.rs`) | `ModuleGraph`: modules, `by_name`, worklist, marks, order | load entry, extra roots, imports; depth-first sort | asks the search path and the Win32 index; its order drives sema, lowering and the run | cycles, modules reached several ways, roots nothing imports, a failure half-way |
| Preprocessor and lexer (`newm2-lexer`) | position in the text, stack of open conditions | `preprocess`, `tokenize` | the loader calls them per file; the parser reads the tokens | directives inside comments, strings and dead branches; positions after erasure |
| Parser (`newm2-parser/src/parser.rs`) | position in the tokens | one `parse_` function per construct | trees to sema | soft keywords, one or two tokens of lookahead, one backtrack |
| Interfaces of modules (`newm2-sema/src/analyze.rs`, `scope.rs`) | scopes, symbols, type arena, which interfaces are built or being built | `ensure_interface`, imports, pass 1, pass 2, re-evaluation, alias fix-up | order from the loader; scopes are shared by all modules | modules that import each other, names used before their declaration, values copied before they are final |
| Analysis of bodies (`analyze.rs`, `constant.rs`, `types.rs`) | scopes, WITH and GUARD context | expression types, statement checks, constant folding | trees from the parser, tables to lowering | type compatibility at the ends of ranges, paths without RETURN |
| Lowering (`newm2-ir/src/lower.rs`, `builder.rs`) | blocks of the function, current block, loop exits, retry block, captures | one `lower_` function per construct | IR to codegen | exits out of nested constructs, protected bodies, captured variables, counting past the end of a type |
| Code generation and exceptions (`newm2-llvm/src/codegen.rs`, `newm2-runtime/src/exceptions.rs`, `rtti.rs`, `com.rs`) | at run time: memory, frames, `CURRENT` | one instruction at a time; raise, reraise, protected call, handled | LLVM, OS unwinding | widths and signs, handlers that raise or retry, references released on every way out |
| Running a program (`run_modules_orc`, `run_modules`, `nm2_aot_run`, `termination.rs`) | index of the next body, number initialised, first error, HALT code, two flags | bodies, finalizers, `HALT`, exit status | order from the loader, exceptions runtime | HALT or an exception in a body or a finalizer |
| Driver (`newm2-driver/src/main.rs`) | options | `run`, `build`, dumps, project files | loader, sema, lowering, engines | error exits between the stages |
| Manual heap and heap guard (`newm2-runtime/src/heap.rs`) | counters of a Bloom filter, guard state, statistics | `nm2_alloc`, `nm2_free`, leak report | OS heap; every thread of the program | lock-free counters, first use by several threads at once, double frees |
| Garbage collector (`newm2-runtime/src/gc.rs`) | clusters, free lists, marks, thread registry, stop flag | allocate, collect, park, register, finalize | every mutator thread, compiled safepoints | two threads that start a collection, a thread that registers late, the 2 s abort, interior pointers, splitting and joining |
| Self-hosted allocator (`library/winrtmod/Heap.mod`) | words of memory: chunks, block headers, free list | `Allocate`, `Deallocate`, `GrowHeap`, `Validate` | VirtualAlloc; NEW and DISPOSE under `--m2-heap` | splitting, joining, sizes that wrap, stale pointers |
| TCP server (`library/winrtmod/SocketServer.mod`) | listener, completion port, live connections, fibers | `Run`, `Stop`, `Recv`, `Send`, acceptor, dispatcher | Winsock, coroutines, threads | Stop against an accept or a completion under way |
| Coroutines | fibers of a thread | create, transfer | exceptions, GC roots, SocketServer | a coroutine that ends, transfer to oneself |
| Pipe server and client | frame buffers, deadline | poll, send, receive | named pipes | a client that stalls or leaves in a frame |
| MIDI and wave output | queue, scheduler thread | play, stop, shut down | winmm callbacks | shutdown against the scheduler |
| Symbol cache (`symcache.rs`, `cache.rs`) | one file per interface | load, store | loader's hashes, sema | stale keys, two compilers writing at once |

What makes each of them correct:

* **Loader.** Every reachable module is loaded once; the order is topological
  except on cycles; an error has a cause; it terminates.
* **Front end.** A text is read as the tree its author meant, under the branch
  the environment selects; nothing that was typed is dropped silently; positions
  are positions in the file.
* **Interfaces.** A name means in every module what its declaration says,
  whichever module is built first; errors are reported exactly for illegal
  programs.
* **Back end.** A program does what its text means; one that the analysis
  accepts never goes wrong; it leaves of the runtime behind exactly what is known
  (5.1, 5.2); it ends when it should.
* **Run.** Initialised modules, and only those, are finalized once, in reverse;
  termination flags agree with what runs; failures reach the exit status.
* **Heap guard.** A correct free is never refused; the counts are exact when
  nothing is under way; no thread spins for ever.
* **GC.** No mutator runs while the world is stopped; what is reachable
  survives, what is not is reclaimed; every collection and every parked thread
  goes on.
* **Allocator.** Blocks tile the chunks, the free list holds exactly the free
  blocks, neighbours are joined, payloads do not overlap, a double free is
  recognised.
* **TCP server.** A fiber is resumed once per wait and never after it was
  freed; Stop always ends Run; Run leaves nothing under way and no socket open.
* **Symbol cache.** An interface that is reloaded equals the one a full check
  would compute.

## 2. Plan

Done:

1. `ModuleGraph`, its instance, its proofs.
2. `ProgramRun`, `Lifecycle` (abstract), `CompileAndRun` (composition and
   refinement).
3. `HeapGuard`, `M2Heap`, `SocketServer`.
4. `StopTheWorld` and `ClusterHeap`: the garbage collector.
5. The front end: `Preprocess`, `Lexer`, `Parser`, the reference printer
   `SourcePrinter`, the pipeline `FrontEnd`.
6. The back end: `M2Types`, `Syntax`, `ConstFold`, `Sema`, `Lower`, `Machine`,
   the reference evaluator `Meaning`, the pipeline `Compiler`.
7. `Interfaces`, with `Declarations` as its reference.
8. Proofs of the safety properties of `ModuleGraph`, `CompileAndRun` (with the
   refinement of `Lifecycle`), `HeapGuard`, `M2Heap`, `SocketServer`,
   `StopTheWorld` and `ClusterHeap`.

Next, in this order:

9. `SymbolCache`: compile, edit and compile again, with `-D` defines; abstract
   specification: the result of a compile is a function of the sources and the
   options.
10. Coroutines: `CURRENT` over transfers between fibers of one thread.
11. `PipeServer`, then `MidiOut`.

## 3. Modules and how they correspond to the code

### ModuleGraph

`build_module_graph`, `resolve_or_load`, `add_module`, `resolve_imports` and
`topo_sort`. One action per iteration of the loops: `LoadEntry`,
`LoadExtraRoot`, `PopQueue`, `ResolveImport` (sorted names, as
`names.sort()`), `SetImports`, then `VisitRoot`, `VisitChild`, `Leave` for the
recursive `visit`, whose call stack is the variable `stack`. The file system is
the variable `disk`, chosen in Init from the constant `Disk`: for every name
whether it is missing, unreadable (`bad`), found in the Win32 index (`finder`)
or on the search path, and what its DEFINITION and IMPLEMENTATION import. A
module is its name, because `by_name` is injective; the identifier of the
module is its position in `modules`.

### The front end: Preprocess, Lexer, Parser, SourcePrinter, FrontEnd

`FrontEnd` is `parse_file_with_env`: preprocess, tokenize, parse, one action
each, and the first error ends it; its other actor is the author, who edits a
file that was parsed.

`Preprocess` and `Lexer` are the passes of the same names. A unit of text is a
character, a directive word or, for names and reserved words, a whole word that
the lexer treats as one letter: two words without a blank are one identifier.
Whitespace, comments (nested, and with quoted directives), pragmas, strings,
numbers with suffixes and every operator are characters.

`Parser` writes each `parse_` function as a constant of that name in the
vocabulary the code itself uses (expect a token, look at the next one or two and
decide, loop while the next token says so); `Interpret` runs them. So a rule can
be held against its function line by line.

`SourcePrinter` is the reference: from a tree to its tokens, with no more
parentheses than the precedence of Modula-2 asks for. It shares no rule with the
parser. A source of `FrontEnd` is a tree with a layout, possibly inside
conditional sections, and `Selected` says which tree is meant.

### The back end: M2Types, Syntax, ConstFold, Sema, Lower, Machine, Meaning, Compiler

    M2Types <- Syntax <- ConstFold <- Sema <- Lower <- Machine <- Compiler
                                      Sema <- Meaning  <-----------'

`M2Types` is `types.rs` with the predicates of `analyze.rs` (assignability,
ordinal bounds, ...); `Syntax` the tree of `ast.rs`; `ConstFold` is
`constant.rs`; `Sema` the analysis of bodies, where an operator that returns a
type corresponds to the one of the code and an `Ok...` operator says that no
diagnostic is issued. `Lower` is `lower.rs` on `builder.rs`: its operators take
the state of the function being lowered and return the next one, as the methods
of the code do through `&mut self`. `Machine` has one action per instruction and
per runtime entry point: what the emitted LLVM code does with registers, memory
at its declared width, frames and `CURRENT`. Reading what was never written gives
`Undef`, and a branch on it, a NIL or freed address, a wrong width or an
`unreachable` ends the run in a status of its own.

`Meaning` is the abstract specification: an evaluator over exact integers, sets
and lexical scopes that knows nothing of widths, registers and frames. Where the
language promises nothing (overflow, an unassigned variable), the meaning is
"off" and the run is not compared. Where a checked program must never come, it
is "wrong": past the end of a function, to a CASE with two arms for one value,
out of the arm of an interface by EXIT, RETURN or RETRY, or to an operand, test,
index, label, argument, result or assigned value of a kind (number, truth value,
character, set, place) that its place does not take. `NeverGoesWrong` says that
the analysis lets no such program through; without any one of these checks in
`Sema` the run violates it. Where the compiler is known to differ (5.2), the
evaluator notes the name of the divergence in `known`; it also counts what the
code is known to leave behind, `framesLeft` and `refsLeft`, and `CleansUp`
compares the counts with the heap at the end. `Compiler` puts the passes in
sequence and compares the run with the meaning.

The library the programs call is `Raise`, `WriteInt`, `Create`, `IsExceptional`.
An exception source is a CARDINAL here: user sources count up from 1, and the
three sentinels of `exceptions.rs` (`ASSERT_SOURCE`, `M2_SOURCE`,
`GUARD_SOURCE`) are the last three numbers. The message of an exception is left
out, and so is the truncation of its number from 64 to 32 bits.

The passes are functions of the program, and the constant `Pass` (of `Compiler`
and of `FrontEnd`; `Reading` of `Interfaces`) gives them to TLC as functions that
it evaluates once per program instead of once per state. The MC modules set it
to exactly the functions defined in the module.

### Interfaces, Declarations

`check_module_graph` up to the analysis of bodies. The recursion of
`ensure_interface` over imports is the stack `frames`, so a module that imports a
module under construction is a state of the model. Placeholders, imports that
copy symbols, the fill of pass 2, the merge of the definition part, the
re-evaluation of constants and the second resolution of aliases are actions in
the order of the code, on the shared type arena. `Declarations` reads the same
program with no order at all (fixed points over all modules) and says what every
name should mean and whether the program is legal: every name and every value
is there, bounds and explicit ordinals are numbers, nothing is declared twice, an
implementation completes the opaque types of its definition and gives its
procedures parameters of structurally the same types. It also says, as
`Settled`, which programs use what the construction is known not to support
(5.2). A constant is a number or the name of a procedure (`FuncRef`); which
function codegen finds under that name is not followed.

### ProgramRun, Lifecycle, CompileAndRun

`ProgramRun` is the loop of bodies, `begin_termination`, the loop of finalizers
and the exit status, once for both engines, which share these loops. Whether a
body or finalizer returns, halts or raises is an input. `HaltMarker` cuts the
argument of HALT to an i32 as `nm2_halt` does, and `ExitStatus` the result to
eight bits. The observer `seen` records what was started with which outcome.

`Lifecycle` says what a module may rely on: it comes up after its dependencies
and goes down before them. `CompileAndRun` puts loader and runner together, as
`run_run` does: every loader step, then `LowerModule` for one module of the
loader's order after the other (an intrinsic one has nothing to lower), then
`LaunchLoaded`, or a refusal by the analysis or, in `RefuseCode`, by code
generation, LLVM's verifier or the JIT (`newm2-llvm/src/lib.rs:565-687`). `KeepsLifecycle` is the refinement
`Life!Spec` under the mapping `state <- LifeOf`, `dep <- Dependencies`
(imports that are not part of a cycle).

### HeapGuard

`nm2_alloc`, `nm2_free`, `guard_on`, `bloom_add`, `bloom_remove`. One step per
access to shared memory; a compare-exchange loop on one counter is the one step
at which it succeeds, and the thread that decides about the guard registers the
exit report (`RegisterReport`) before it publishes its decision (`Decide`). Pointers and slots are abstract (`Hash`), the number at
which a counter sticks is `Max`. The OS heap (`heap`) is external: it never
hands out an address that is allocated, and freeing one that is not is
undefined, which the model records in `corrupted` and then follows no further
mistake of the program. `owned`, `rightful`, `blocked` are observers of what
the program is entitled to free.

### StopTheWorld, ClusterHeap

`StopTheWorld` is the handshake of `gc.rs`: registering and unregistering a
thread, the safepoint poll, `park_self`, `collect_stw` with its two-second
give-up, and `nm2_new_rec`, which polls, collects under pressure and allocates.
One step per access to shared state: the initiator reads the states of the
mutators it has copied one after the other (`Look`), and only when the last of
them read PARKED does it go on. What happens under the heap lock is one step.
Several threads may be in `collect_stw` at once, as in the code. A block is
a model value; `held[t]` stands for the words of the stack and registers of t.
`excused` and `disturbed` are observers of the races of 5.2.

`ClusterHeap` has the blocks in detail, driven by one mutator: `try_alloc` (free
list, then bump pointer), the slow path, `resolve` of interior pointers, mark and
sweep with coalescing, on a memory of units with the words of the headers. The
loops take one action per iteration: `TakeFree`, `SkipFree`, `Bump` and
`NextCluster` are the search for a block, `CollectAndRetry`, `Grow` and
`OutOfMemory` the slow path, `ClearMark`, `ClearNext`, `ScanRoots`, `MarkObject`,
`SweepBlock`, `SweepNext` and `EndCycle` the collection; the program stands still
meanwhile (`pc`). So the properties also speak of every state half-way through a
collection. `obj` is an observer: the objects the program can still reach, by the
types it asked for, with `Trim` dropping what a step made unreachable. It and the
free list (`Chain`) are defined by closed sets, not by walks.

### M2Heap

`Heap.mod` on a memory of words: headers, boundary tags and free-list links are
words of `mem`, addresses and sizes are numbers, and sums wrap at `Wrap` as
CARDINAL arithmetic does. A word of 64 bits is the unit, so 16-byte alignment
is evenness. `Allocate`, `Deallocate` and `GrowHeap` are single steps: the
module has no lock and its clients one thread. `Validate` of the source is part
of the invariant `Validates`.

### SocketServer

`Run`, `Stop`, `AcceptorMain`, `FiberEntry`, `NewConn`, `Resume`, `Recv`,
`Send`. The dispatcher thread runs one fiber at a time and switches only where
a fiber starts an overlapped operation, so one packet of the completion port is
one step. The acceptor and Stop from another thread take one step per shared
access (`gRunning`, the listener, the port); `Socket.Close` on the listener
reads the handle, closes it and clears it in three (`StopReads`, `StopCloses`,
`StopForgets`), so that two Stops may close one handle. A handler's Stop is one
step of the dispatcher. Sockets, the port and the clients
are external: an operation completes at any time, with success only on an open
socket; closing a socket makes its operation fail; closing the listener refuses
the backlog. A handler is any sequence of `Recv`, `Send` and `Stop` that
returns when an operation fails.

## 4. Runs

State counts are distinct states.

| Run | Instance | Checks | States |
|---|---|---|---|
| `modgraph` | entry, two modules, one intrinsic; every import relation, all kinds of unloadable module, an extra root | `TypeOK`, `DependencyFirst`, `OrderIsReachableSet`, `ErrorHasCause`, `EntryLastWithoutExtras`, `LoaderReturns` | 1.15 M |
| `compile_run` | entry, two modules, one intrinsic, HALT(0), HALT(1), HALT(1280), both engines | `TypeOK`, `FinalizedInReverse`, `FailureIsReported`, `KeepsLifecycle`, `RunsToTheEnd` | 255 k |
| `heapguard` | two threads, four pointers, counters that stick at 2, one pointer freed too often that shares a slot with a correct one | `NeverUndercounts`, `NeverBlocksCorrectFree`, `ExactWhenQuiet`, `ReportedOnce`, `CallsReturn` | 732 k |
| `m2heap` | 28 words, chunks of 12 or 16, numbers that wrap at 64 | `TypeOK`, `Validates`, `PayloadIsTheOwners`, `DoubleFreeRecognised` | 101 k |
| `socketserver` | three clients, three calls of Stop | `OneWaitPerFiber`, `NoHandleReuse`, `QuietReturn`, `StopEndsRun` | 100 k |
| `stopworld` | the bootstrap thread and one that registers at any time, two blocks, two collections | `LiveSurvivesStoppedWorld`, `RunsOnlyByKnownRaces`, `CallsReturn` | 210 k |
| `clusterheap` | one cluster of 6 units, records of 2 and 4, two pointers on the stack | `ReachableIntact`, `Tiled`, `CollectsAllGarbage` | 122 k |
| `clusterheap_hole` | one cluster of 5 units, records of 2 and 3 | `ReachableIntact`: **violated** | |
| `front` | 511 sources that use every rule of the parser; one edit of a token anywhere | `CompilesWhatWasMeant`, `KeepsPositions`, `ReadsBack` | 47 k |
| `back` | 5951 programs in fourteen families | `MeansWhatItSays`, `NeverGoesWrong`, `CleansUp`, `Ends` | 223 k |
| `interfaces` | two libraries and a client, in every order of the loader; constants, types, declarations in every order, split modules: 4300 programs, of which 2393 are settled | `MeaningsSettle`, `DiagnosesMistakes`, `BuildsEachOnce` | 112 k |
| `interfaces_inherits` | one program | `SeesWhatIsDeclared`: **violated** | |

A type invariant is a conjunct of the first property of the runs that list no
`TypeOK` of their own, or is left out where the model is a function of its input
(front end, back end, interfaces).

Why the bounds are enough for the cases that matter:

* **Loader.** Three modules give self-imports, two- and three-cycles, diamonds
  with a back edge, and an extra root that is or is not imported. The theorems
  of section 6 remove the bound for safety.
* **Run.** The order has at most three bodies, so a failure can be first, in
  the middle or last, and the finalization has before, at and after. With
  `HalfI32` = 512 the code 1280 is changed by the conversion to an i32 (to 256)
  and again by the one to eight bits (to 0).
* **Heap guard.** Three pointers on one slot exceed `Max` = 2, so a counter
  sticks and is later removed from; two threads give every race of the test and
  the decrements; `p4` is freed without being owned, by one thread or by both.
* **Allocator.** Two chunks, splits, joins to the left, right and both sides,
  a chunk larger than the default, no memory left, and requests that wrap in
  each of the three sums.
* **Server.** A client can be in the backlog, accepted, queued and live while
  another is in another of these states; several Stops meet in the drain.
* **Collector.** Two collections (`MaxCollects`) are needed for an overlap and
  for a thread that leaves one park while the next stop is requested; the second
  block is what makes allocation reach the slow path while the first is in use.
  Three threads with one block were checked too, for safety only (2.8 M states);
  that instance is too large to keep as a run.
  A cluster of 6 units holds three small records, or a small and a large one, so
  that a split, a join of three neighbours, and an allocation from the free list
  and from the bump pointer all happen; it also fills, so the slow path collects.
  Several clusters are left to the theorems of section 6.
* **Front end.** Each rule occurs, each alternative of each rule, pairs of
  operators of equal and different precedence on both sides, conditions nested in
  live and dead branches, directives quoted in comments and strings, four
  layouts. An edit inserts, replaces, deletes or cuts off at every token, which
  makes the texts no printer would write. `MaxInteger` = 255 lets a literal
  overflow.
* **Back end.** `Wide` = 5, `Narrow` = 3, `CharBits` = 4, `SetBits` = 6 keep
  the order of the widths of the code (8 < 16 < 64 bits for CARDINAL8, CHAR,
  INTEGER; a set is at least as wide as a word) and let variables sit at both
  ends of every range. `Fuel` = 60 statements and calls is more than any of the
  programs with a meaning takes, and `MaxOut` = 40 more than any of them writes; a
  program that would write more stops there, which `Ends` would report. Families: operators at the
  ends of the ranges, conversions between all scalar types, constants against
  the same expression at run time, FOR over all types and steps, two nested
  constructs around every kind of exit, functions whose only RETURN is nested,
  CASE labels, exceptions (what is raised, what the handler does, FINALLY, and
  where; sources allocated, not allocated and the sentinels; a handler that
  returns, retries, raises, calls what raises or handles another exception),
  nested procedures with captures, pointers and arrays, GUARD with and without
  interfaces, arms left in every way, sets, and a value of every kind in every
  place that takes one.
* **Interfaces.** Two modules are enough for a cycle; the client sees both after
  they are built; three declarations in every order give a chain of uses before
  declarations. `Depth` = 2 levels of a type are compared, and every deeper
  reference goes through a name that is compared itself.

Deadlock is checked except where the system may stop: the server once Run has
returned; `ClusterHeap` when memory is used up (the program ends); `FrontEnd`
after the last edit; `Compiler` when the program has ended.

### Fairness

* Loader and driver are one thread: weak fairness of its step. Bodies and
  finalizers that never return are not considered.
* `HeapGuard`: weak fairness of the steps of a call that has begun, because the
  operating system schedules every thread. No fairness is assumed for starting
  a call, and the spin loop is a step of its own without fairness.
* `StopTheWorld`: weak fairness of the steps of every thread inside the runtime,
  for the same reason; the two-second give-up of `collect_stw` is fair by itself,
  because the reading of the mutators' states starts over until then.
  Nothing is assumed of the program: a thread that never polls is one the
  collection gives up on.
* `Compiler`: weak fairness of the execution of the program's next instruction.
* `SocketServer`: weak fairness of the dispatcher, of the acceptor's steps other
  than a successful accept (and of a failing accept once the listener is
  closed), of the steps of a Stop that has begun, and of the completion of
  operations on closed sockets. Nothing is assumed of clients, and nobody has
  to call Stop.
* `FrontEnd`, `Interfaces`, `ClusterHeap`, `M2Heap`: none; only safety is
  checked.

## 5. Where the code and its promises differ

### 5.1 Findings shown by a run

1. **A block of the collector's heap may carry the wrong size**
   (`clusterheap_hole`). `try_alloc` hands out the whole of a free block when the
   rest would be too small for a block, and `nm2_new_rec` then writes the size
   that was asked for into `block_size`. The next walk over the cluster lands in
   the rest, and a later collection frees a record in use. `gc.rs:54` says
   `block_size` is the total size of the block, required to walk the cluster.
   With sizes that leave no such rest the heap is correct: `clusterheap` checks
   it, and section 6 proves it for all of them.
2. **An implementation does not see its definition's constants in time**
   (`interfaces_inherits`). `ensure_interface` resolves and re-evaluates the
   implementation's constants before `merge_def_pass2` gives the definition's
   constants their values, so `CONST last = size + 1` with `size` in the
   definition is folded from the placeholder 0, without a diagnostic.
   `analyze.rs:1376` says an implementation inherits its definition's constants.
3. **A procedure's exception frame leaks when its handler or FINALLY part is left
   by an exception** (`back`). The frame from `nm2_alloc` is freed before each
   return and each re-raise that `lower_protected_wrapper` emits, but the handler
   and the FINALLY part run unprotected in the wrapper (`lower.rs:1785-1799`,
   `1810`): an exception that leaves them unwinds it without a free.
   `lower.rs:1293-1295` says the frame is freed on every exit path. The run passes:
   `CleansUp` counts one frame for each time this happened and none otherwise. It
   is violated when the wrapper frees the frame there, and when it forgets to free
   it anywhere else.

### 5.2 Known divergences

Met while modelling. The models follow the code; the properties of section 4 set
these cases aside by name, and hold for all others. What is only counted
(`CleansUp`) is not set aside.

Loader, run, guard and server:

* The entry is not last in the order when an extra root is not imported
  (`loader.rs:437`): `EntryLastWithoutExtras` has the condition. Under
  `--m2-heap` the root is `Heap`. The comments of `newm2-llvm/src/lib.rs:843` and
  `aot.rs:12` say the entry runs last and `main.rs:1314` relies on it.
* `nm2_halt` keeps the low 32 bits of HALT's argument (`termination.rs:47-53`) and
  `newm2 run` the low eight of these, and HALT in a finalizer does not change the
  status (`main.rs:1327`; `termination.rs:19` says HALT(n) carries n):
  `FailureIsReported` speaks of a HALT in a body with a code from 1 to 255, and
  of exceptions whatever the code of a HALT before them.
* `bloom_remove` tests all slots and then decrements (`heap.rs:187`), so two
  threads that free one pointer may both pass, although `heap.rs:69` names
  aliasing as the only cause of a miss: no property says that every double free
  is caught.
* A socket accepted behind KEY_STOP is not closed when no connection is live
  (`SocketServer.mod:201`): `QuietReturn` allows a
  socket that never reached the dispatcher to be open.

Collector. A collection can run beside a mutator that registered after the list
of mutators was copied (`gc.rs:936`), that was leaving an earlier park when the
stop was requested (`gc.rs:956`), or that another initiator's release woke
(`gc.rs:941`). `RunsOnlyByKnownRaces` shows there is no fourth way;
`LiveSurvivesStoppedWorld` speaks of histories without them.

Front end (the texts of the run avoid them):

* an inline assembler body without END is not refused: the last token is never
  left, so the test for the end of the tokens (`parser.rs:1021`) does not succeed;
* two semicolons in a row are an error in statement lists, although the comment
  near `parser.rs:2262` allows empty statements;
* after a CONST or VAR section, CLASS, INTERFACE or ASSERT at the start of a
  declaration is taken for another name of the section (near 812);
* a second CASE part of a record replaces the first;
* preprocessor and lexer disagree where a pragma contains `(*`:
  `(* <* (* *> *) %IF`;
* the host type of `B[1..7]` is read and dropped (`ValueTokens` of `FrontEnd`).

Back end. The name is the one `Meaning` adds to `known`:

| Name | What the code does |
|---|---|
| `slash` | `/` on whole numbers divides unsigned |
| `subset` | the order comparisons of sets compare the words as signed numbers |
| `member` | the right operand of IN is not checked to be a set, nor its left one not to be an address |
| `compare` | values of different kinds are compared, and addresses ordered, without a diagnostic ("existing leniency", `analyze.rs:4945`) |
| `sign` | a negative value of a narrow signed type is zero-extended when it is widened outside a binary operation (assignment, parameter, CASE, FOR) |
| `mixed` | an INTEGER compared with a CARDINAL, or a CASE selector, from the upper half of CARDINAL is taken as signed |
| `boolean` | order comparisons of BOOLEAN are signed on one bit (`expr_is_unsigned`, `lower.rs:3588`); labels of a CASE on BOOLEAN are dropped (`lower.rs:2334-2373`) |
| `index` | a BOOLEAN or narrow index with its top bit set is sign-extended: `a[TRUE]` is `a[-1]` (`codegen.rs:1198-1218`) |
| `count` | FOR computes the number of rounds as end minus start, which wraps (`lower.rs`, near 2258); so do CARDINAL ends from the upper half, and BOOLEAN |
| `for` | the control variable of a FOR is a fresh local: an outer one is not captured, and a module's one is shadowed; a bound that reads the control variable reads the new one, for TO after FROM was stored in it (`lower.rs:2189-2215`) |
| `exit` | lowering makes EXIT leave the nearest loop of any kind (`analyze.rs:5353` takes it for the nearest LOOP), and EXIT without a loop is accepted |
| `nested` | `CURRENT` is one cell: an exception that is raised and handled while another is being handled clears it, and the outer handler goes on without an exception |
| `handler` | RETURN inside a handler leaves the exception current (the frame is freed); a function whose handler ends without RETURN is accepted and returns what its result slot holds |
| `finally` | a handler that is left by an exception or RETURN skips the FINALLY part of its procedure; EXIT, RETURN and RETRY out of a FINALLY part drop a pending exception |
| `block` | the handlers of a nested BEGIN block are dropped by `lower_block` |
| `with` | WITH on NIL is not checked |
| `var` | a VAR parameter accepts any whole type, of another width too |
| `val` | VAL from CARDINAL8 is sign-extended (`classify_transfer_cast`, near 6300) |

Two more are counted and not set aside. An exception that leaves a handler or a
FINALLY part of a procedure leaks its frame (5.1). One that leaves the arm of a
GUARD on an interface leaks the arm's reference, as `lower.rs:2590-2596`
documents. That comment also says the analysis bars a lexical RAISE in such an
arm: RAISE is the call of a procedure, the parser never makes the statement that
`guard_arm_nonlocal_exit` looks for, and the arm is accepted. RAISE with the source
0 (a variable that no `AllocateSource` filled) is taken for a normal return with
the exception left current, because 0 is what `nm2_run_protected` answers when
nothing was raised (`exceptions.rs:374` calls its answer non-zero for an
exception): `Machine` does that, `Meaning` promises nothing for it.

Of the back end too, and outside the programs of the run: procedures of one name
nested in different procedures share a symbol; a constant shift masks its count
with 63; an open array passed by value is passed by address; `p.f` without `^` is
accepted; argument types of ASSERT, INC, DEC, INCL, EXCL, ORD, CHR, ODD, ABS and
HIGH are not checked; codegen's Store propagates the pointee type (near 1143).
Enumerations and subranges can be calculated with: that is the dialect, and
`Kinds` of `Meaning` says so.

Interfaces. `Settled` of `Declarations` is the conjunction of seven conditions on
every module:

* not `TakesValueInCycle`: a FROM import across a cycle copies a placeholder when
  the exporter is still under construction (`analyze.rs:1628-1792`);
* `Steady`: what is folded once (an enumeration's explicit value, an inline
  bound) is folded from final values; a cached constant is not invalidated
  (`analyze.rs:2451-2460`), and constants that refer to each other in a ring stay 0;
* not `LateAlias`: aliases are resolved again once, so a chain of two that is
  declared backwards stays unresolved;
* not `LooksInside`: a qualified type `M.T` is found whether or not M exports it;
* not `NoNumber`: the message of an inline bound or an explicit ordinal that is no
  number is dropped (near 2784), and arithmetic on the name of a procedure, which
  is a constant (`analyze.rs:2684`), is not reported;
* not `LooseSignature`: a parameter of a definition and of its implementation are
  compared by their hosts, so `INTEGER` agrees with `[0..3]` and `[0..3]` with
  `[0..7]`, although `analyze.rs:1418-1421` says DEF and IMPL must agree on each
  parameter's structural type;
* `Completed`: an opaque type that its implementation never completes is
  accepted.

Outside the programs of that run: an alias of an enumeration inserts the members over
names of the module (near 2004); a local type with an imported type's name
overwrites the exporter's; a ring of aliases over two modules is not detected; an
implementation's alias of a definition's type in a procedure heading is refused as a different type.

## 6. Proofs

Every theorem holds for every value of the constants that satisfies the
assumption named with it; TLC evaluates the assumptions in the runs. A theorem
`Invariance` of each module states the inductive invariant (`Spec => []IInv`),
and the others follow from it.

| Module | Theorem | Statement |
|---|---|---|
| `ModuleGraph_proofs` | `TypeCorrect` | `Spec => []TypeOK` |
| | `TopologicalOrder` | `Spec => []DependencyFirst` |
| | `CompleteOrder` | `Spec => []OrderIsReachableSet` |
| | `JustifiedError` | `Spec => []ErrorHasCause` |
| | `EntryComesLast` | `Spec => []EntryLastWithoutExtras` |
| `CompileAndRun_proofs` | `TypeCorrect` | `Spec => []TypeOK` |
| | `ReverseFinalization` | `Spec => []FinalizedInReverse` |
| | `FailuresReported` | `Spec => []FailureIsReported` |
| | `ImplementsLifecycle` | `Spec => KeepsLifecycle` |
| `HeapGuard_proofs` | `CountersCoverLive` | `Spec => []NeverUndercounts` |
| | `CorrectFreesPass` | `Spec => []NeverBlocksCorrectFree` |
| | `LeakReportExact` | `Spec => []ExactWhenQuiet` |
| | `OneReport` | `Spec => []ReportedOnce` |
| `M2Heap_proofs` | `TypeCorrect` | `Spec => []TypeOK` |
| | `HeapValidates` | `Spec => []Validates` |
| | `PayloadKept` | `Spec => []PayloadIsTheOwners` |
| | `DoubleFree` | `Spec => []DoubleFreeRecognised` |
| `ClusterHeap_proofs` | `AlwaysTiled` | `NoHoles => (Spec => []Tiled)` |
| | `AlwaysIntact` | `NoHoles => (Spec => []ReachableIntact)` |
| | `NoGarbage` | `NoHoles => (Spec => []CollectsAllGarbage)` |
| `SocketServer_proofs` | `FibersWaitOnce` | `Spec => []OneWaitPerFiber` |
| | `HandlesNotReused` | `Spec => []NoHandleReuse` |
| | `RunReturnsQuiet` | `Spec => []QuietReturn` |
| `StopTheWorld_proofs` | `MemorySafe` | `Spec => []LiveSurvivesStoppedWorld` |
| | `OnlyKnownRaces` | `Spec => RunsOnlyByKnownRaces` |

### ModuleGraph

For every set of names (finite or not), every set of source trees and every list
of extra roots, from `NameAssumption` (names are numbers, the entry is a name and
not an intrinsic) and `SourceAssumption` (the answers of the file system have
their type). None of the properties is inductive. `IInv` has four parts:

* `TypeOK`.
* `LoadInv` accounts for the worklist: every loaded module is in the queue,
  being resolved or resolved, the imports of a resolved module are loaded,
  names already taken from `todo` are loaded, and everything loaded is
  reachable and not broken. When the queue is empty the loaded modules are
  closed under imports, hence equal to the reachable set. `EachModuleOnce` is a
  conjunct of it.
* `SortInv` accounts for the walk: the frames of the stack are exactly the
  Visiting modules, each reaches the ones above it, a child that has been tried
  and a child of a Done module is not New, and `order` holds exactly the Done
  modules, each once. So when a module becomes Done, an import that is not in
  the order yet is on the stack, from where it reaches the module: that is why
  `DependencyFirst` allows exactly the imports that are part of a cycle.
  `DependencyFirst` itself is a conjunct.
* `EntryInv`: the entry is the first root of the walk and stays at the bottom
  of the stack until everything else it reaches is Done; without extra roots
  that is everything.

Reachability is defined by closed sets (`Reaches(a, b)`: every set closed under
imports that has `a` has `b`), so the proofs need no induction over paths.

### CompileAndRun

From `TreeAssumption` (the loader's assumptions), `HaltAssumption` (the codes
of HALT are integers) and `WidthAssumption` (an `i32` is wider than an exit
status). The loader's invariant is taken over from `ModuleGraph_proofs` through an instance. On top of it:

* `LowerInv`: the modules to run are those of the order lowered so far, without
  intrinsics, each once and each after what it depends on. Here
  `DependencyFirst` of the loader becomes a fact about the runner.
* `SeenInv`: what was started is the bodies of the first modules, of which only
  the last may have failed, and then the finalizers from the last initialised
  module down. `FinalizedInReverse` is this at the end of the process.
* `FlagInv`: phase, flags, first error and status agree with what was started.

`ImplementsLifecycle` is the step simulation under the refinement mapping
`LifeOf`: `LifeIsPlace` reads a module's state off its position in the run; a
body is a step of the module to "up" or "failed", whose dependencies are at
smaller positions and so up (`BodyStarts`); a finalizer is a step to "down",
whose dependents are at larger positions and so down (`FinalStops`); all other
steps stutter.

### HeapGuard

Any number of threads, pointers and slots and any hash, from `GuardAssumption`.
`IInv`: `Decision` (one thread decides whether the guard is on, and nothing is
counted before), `OnePlace` (a pointer that is handled correctly is owned,
refused or in the hands of one call), `Exact` (until it sticks, the counter of a
sound slot is the number of its `Holders`: owned pointers and those whose call
has added them or not yet removed them) and `Statistics`. `Exact` is what makes
`NeverBlocksCorrectFree` inductive: the thread that tests its slots is itself a
holder of each of them. The first proof attempt failed for a reason: in an
earlier form, `ExactWhenQuiet` spoke of every slot of a correct pointer, and a
faulty free of another pointer in the same slot makes its counter too small. The
property now speaks of slots to which no faulty pointer hashes, and the instance
has a slot that is shared.

### M2Heap

Any memory, word width, chunk size, page size and set of requests, from
`HeapAssumption` (sizes are even, memory is smaller than the range of a word,
the page size divides that range, and the default chunk holds a block). The
properties are stated with walks (`Chunks`, `Walk`, `Nth`), recursive functions
about which there is nothing to prove before the heap is known to be sound. So
`IInv` says that there are sets B of blocks, S of sentinels and C of chunks
with:

* `Geometry`: where they begin (`Places`), that a block ends where the next one
  or the sentinel begins and nothing begins inside it (`Spans`), what the
  boundary tags hold (`Tags`), and that the chunks are linked downwards, each
  from its first block to its sentinel (`ChunkList`);
* `NoTwoFree`: no two neighbouring blocks are free;
* `Listed`: the free blocks are linked in both directions from `gFreeHead`, with
  a rank that grows along the list, so that it has no cycle;
* `Holdings`: what the program holds is the payloads of the allocated blocks
  (`Taken`), `gInUse` counts their words (`Cells`), their contents are the
  program's, and a freed pointer leads to a word of a free block that does not
  look like an allocated header (`Idle`). The last part is what makes
  `DoubleFreeRecognised` inductive: a freed block may be joined into a larger
  one and its header become ordinary words, over which links may be written;
  links are even, so the flag stays clear.

The argument goes up the layers of the code. `ListInsert` and `ListRemove` are
about `InsertFree` and `RemoveFree`; `GeometrySplit`, `GeometryJoin` and
`GeometryGrow` about the boundaries alone. `CarveTakes`, `GrowShape` and
`DeallocateFrees` combine them into what carving a block, growing the heap and
freeing do, joining with neither neighbour, one or both; `NeedFits` shows that no
sum wrapped in a request that is not refused, and `ChunkFits` that a chunk has
room for a block even when its own size did wrap. `GiveHolds` and
`DeallocateKeeps` add the program's pointers. The last section, `WalksFind`, shows that the walks visit exactly B,
S, C and the free list within `MaxBlocks` steps; there the steps are counted with
the least-number principle (`Least`), since the library's induction theorems
cannot be used. `IInv` quantifies over sets TLC cannot enumerate; before the proof
it was checked on the instance of `MCM2Heap` with the sets the walks find as
witnesses.

### ClusterHeap

Any size and number of clusters, any number of pointers on the stack and any
record types, from `ClusterAssumption` and the hypothesis `NoHoles`: one unit is
not a sum or difference of record sizes (`Sizes` is the least set with the sizes
that is closed under both). The sizes of all blocks ever made by splitting and
joining are in `Sizes`, so no free block can be one unit larger than what is
taken from it. The hypothesis is there because without it the theorem is false:
that is the finding of `clusterheap_hole`. It holds whenever the sizes have a
common factor (`CommonFactor`), as in the run `clusterheap`; two sizes without
one, such as 2 and 3, do not satisfy it.

The heap is written to in the middle of allocation and collection, so `IInv` has
to say what holds between any two iterations:

* `Geometry`: the clusters lie one behind the other (`Placed`) and in each one
  every block ends where the next one or the tail begins (`Tiling`).
* `Lists`: the links lead from the head through exactly the free blocks, each
  with one predecessor, and a rank grows along the list (`Listed`). In the cluster
  being swept these are the free blocks the sweep has passed (`OnList`).
* `Fresh`: what the bump pointer has not reached is zero.
* `Objects` and `Rooted`: an object of `obj` is a block with its type, its size
  and a field that holds an object or NIL; every word of the stack is inside one,
  and a closed set that has the roots has all of them.
* `Marks`: no marks outside a collection. `Marking` is the tri-colour argument:
  what a root or a marked object leads to is marked or in the worklist, so an
  empty worklist leaves a closed set of marked objects, which by `Rooted` is all.
  `Sweeping` says that ahead of the sweep exactly the reachable blocks are
  marked, and that behind it is neither a mark nor garbage nor a pair of free
  neighbours; when the sweep has passed every cluster this is
  `CollectsAllGarbage`.
* `Position`: where `at` and `prev` of the loops stand. In the search `prev` is
  the block whose link led to `at`; in the sweep it is the free block that ends at
  `at`, and if there is none no free block does.

Each action has a lemma, and lemmas about the operators carry them: `Apart` and
`BlocksApart` (blocks of the heap do not overlap), `InsideFacts` (an address
is inside one object at most), `TrimFacts` (what `Trim` leaves is rooted),
`ResolveFinds` (`resolve` of an address inside an object finds it and nothing
else), `ListInsert` and `ListRemove`, `ClusterUpdate` and `GeometryUpdate` (one
cluster changes), `Given` and `Taken` (what an allocation does to the rest).
`ChainIsList` shows at the end that the closed sets of `Chain` are the list: a
block that the links do not lead to would have, among those, one of least rank.
`IInv` was model-checked before it was proved, with one cluster of 6 units and
with two of 4, the even numbers for `Sizes` and a search for the rank.

### SocketServer

Any number of clients and calls of Stop, from `StopAssumption`. `IInv`: `Waits` (a connection is live
exactly if one operation of it is in the kernel or one completion of it is in
the port, never both), `Sockets` (an open socket is in the hands of the
acceptor, of a packet in the port or of a live connection) and `Stopping` (the
listener is closed before its handle is forgotten in `gListener`, and that
before KEY_STOP can be in the port, which is what keeps the handle of a closed
socket from coming back; the dispatcher joins with no live
connection).

### StopTheWorld

Any number of threads, blocks and collections, from `WorldAssumption`. `IInv`
has a part about memory and one about the handshake. `Registered` and
`OwnedOnce` say that a block is on the free list, taken by one allocation, or
tagged and perhaps in use, as long as no race happened; `ParkedIsStopped` says
that a thread whose state reads PARKED does not run; `NobodyLeaves` and
`CycleFindsStopped` carry that to the cycle itself: a collector looks at the
states one after another, and a thread it has looked at (no longer in `unread`)
stays stopped, or is excused, while it looks at the others; when it works it
has looked at all of them. A thread that gets away is in `excused`, with the race that
let it: that is `OnlyKnownRaces`.

### Model-checked only

* Liveness (`LoaderReturns`, `RunsToTheEnd`, `StopEndsRun`, `Ends` and both
  `CallsReturn`) is out of the prover's reach.
* `FrontEnd`, `Compiler` and `Interfaces`: their passes are recursive operators
  and folds over trees, which the prover does not accept.

## 7. What is not modelled

* **Coroutines, symbol cache, pipes, MIDI**: planned, see section 2.
* **Collector**: finalizers, large objects, weak tables, statistics.
* **Front end**: the text of inline assembler, the messages of errors, and
  `types_out.rs`, which prints.
* **Interfaces**: classes, local modules, intrinsic modules and EXPORT lists.
* **Back end**: the values of reals, strings, aggregates by value, complex
  numbers, SIMD, indirect calls, method dispatch, the propagation of pointee types
  in codegen, debug locations, the JIT's memory manager, LLVM's own passes
  (external), `heapcheck.rs`.
* **Search path and Win32 index**: their answers are the constant `Disk`.
* **Driver**: option parsing, dumps, the linker and project files.
* **Compile daemon**: one request at a time, nothing kept between requests.
* **Storage, COM beyond references, RTTI beyond subclass tests, callbacks, files,
  console, strings, clock**: wrappers of system calls and pure functions.
* In what is modelled: bytes and their contents, report texts, statistics that
  only reports read, other threads' handles in `SocketServer`, bodies that
  never return.

Hazards of these parts: `PipeServer`'s Reply blocks on a client that does not
read (line 136); `MidiOut` bounds what it can hold by `MaxHeld` (line 58);
`Heap.mod` has no lock (line 58) although `--m2-heap` sends every thread to it;
`SocketServer` may close a handle that was reused in between (line 131) and stops
accepting after one failed accept (line 169); two compilers may write one cache
file at the same time (`symcache.rs:113`).
