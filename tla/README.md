# TurboJS: a TLA+ verification project

TurboJS is a JavaScript engine in C: a bytecode interpreter descended from
QuickJS with its own tiered JIT.  This directory holds TLA+ modules that model
the parts of it whose correctness depends on the order of events, TLC
configurations that check them on small instances, and TLAPS proofs that hold
for every instance.

Paths below are relative to the repository root (`PROJECT.json` puts `src/` in
front of them).

## 1. The system: parts, state and what is hard about them

| Part | Source | State | What is hard |
| --- | --- | --- | --- |
| Vault, the native code cache | `src/jit/runtime/code_cache.c` | entries, entry handles with generations, reverse dependency index, open-addressed table, last-key shortcut, byte and entry budgets | native code is freed while handles, call sites and shortcuts still name it; edges are maintained incrementally and their allocation can fail |
| Clutch call sites | `src/jit/backend/x64/baseline_x64.c`, `code_cache.c` | target handle, expected generation, kind, argument count, callable identity | a site is patched and cleared by other functions' compilations |
| Spool, the VM's baseline tier, and Relay, its call caches | `src/vm/jit_bridge.c`, `src/vm/relay_call_ic.c`, `src/vm/call_feedback.c`, `src/modules/function_compiler.c` | per-bytecode counters and flags, one Vault per mode, handles inside bytecode objects, two ways per call site | resolve, evict, compile and publish in one call; bytecode is freed while other code calls it; an address is used again |
| Tiered execution and type feedback | `src/jit/runtime/tiered_execution.c`, `type_feedback.c` | counters, feedback slots, optimized code, bailout counts | counters decide a one-way transition; a bailout must run again in a lower tier, exactly once |
| Shapes and property inline caches | `src/objects/shape_core.c`, `object_core.c`, `src/gc/property_*.c` | shapes with reference counts, the shape table, the transition cache, four ways per entry | a shape is shared, cloned, moved and updated in place while objects, caches and the transition cache refer to it |
| Garbage collector and weak references | `src/gc/collector.c`, `src/objects/object_lifetime.c`, `src/builtins/weakref_dom_builtin.c`, `collection_builtin.c`, `typed_array_builtin.c` | reference counts, three lists, mark bits, records of weak maps, registry entries, jobs | trial deletion must restore every count it does not free; weak references must not outlive their targets |
| Promises, jobs and async functions | `src/builtins/promise_builtin.c`, `src/vm/generator_async.c` | promises with reactions, pairs of resolving functions, the job queue, reported rejections | thenables call resolving functions in any order and number; a handler arrives before or after the outcome |
| Generators and async generators | `src/vm/generator_async.c` | state, frame, queue of requests | a body calls its own generator; requests arrive while the generator awaits |
| Modules | `src/modules/module_*.c` | status, depth-first indices, cycle roots, pending dependencies, promises | cycles of asynchronous modules, errors in the middle of linking and evaluation, imports of modules that are already under way |
| Map, Set and their iterators | `src/builtins/collection_builtin.c` | hash chains, record list with counts, iterator positions | deletion and clearing while iterators, forEach and methods of Set are at a record |
| Call feedback, OSR, runtime helper continuations | `src/jit/runtime/call_feedback.c`, `osr*.c`, `helpers/*.c` | identities and generations, loop sites, negative cache, suspended helper calls | a collision forgets a site; a helper may invalidate the code that called it |
| Event loop and timers | `src/api/turbojs-libc.c` | timers, handlers, ports, pending signals, rejections | handlers change the lists the loop walks; a sleep must end for every timer, handle and message |
| Workers and shared buffers | `src/api/turbojs-libc.c` | counts of pipes and buffers, message queues | threads that end in any order while messages are on their way |
| Atomics.wait and notify | `src/builtins/typed_array_builtin.c` | the list of waiters, records on stacks | a store and a notification between the comparison and the sleep; notify against timeout |
| Atoms and strings | `src/core/atom_*.c`, `src/objects/string_*.c` | atom table, free list, reference counts | a symbol freed while weakly held |
| IR, optimizer, register allocation | `src/jit/ir`, `src/jit/optimizing` | SSA values, live intervals | interference, deoptimization state |
| Parser, interpreter loop, regular expressions, other built-ins, Unicode, numbers, serialization, code emission | the rest of `src/` | values | mostly sequential transformation of data |

How they interact: the interpreter calls Spool at every call of a bytecode
function; Spool looks code up in, compiles into and evicts from two Vaults;
Relay and Clutch keep names of Vault entries outside the Vault; freeing a
bytecode object (the collector does) takes its entries out of both Vaults and
releases the shapes that its property caches retain; the collector enqueues
finalization jobs into the job queue that promises use; async functions and
async generators are resumed by that queue, and so are modules with top-level
await and the answers to `import()`.  The event loop runs the queue, and between
jobs timers, file handles and the messages of workers, whose threads share
buffers and wait for each other with Atomics.

`PROJECT.json` lists every part with its status, and under `hazards` what is
hard to test in each, at the line where it bites.

## 2. How the project is laid out

The JIT's own machinery comes first, since it is the code that is new in this
engine and that the upstream test suites do not reach: `VaultOps`, `Vault` and
`VaultTable`, composed into `Spool`, and `Tiered`.  Then come the object model
and the memory management it relies on (`Shapes`, `Collector`), jobs
(`PromiseOps`, `Promises`, `Generators`), and what programs are given to work
with (`Collections`, `Modules`, `Atomics`, `Workers`, `EventLoop`).

Modules that are proved about are written without RECURSIVE operators, and
the module of the run extends them, so that theorems and runs speak of the same
definitions.  Proofs are in modules of their own, named `...Proofs`; where one
component has several of them, that is because each needs lemmas that the
others do not (`SpoolOpsProofs` on the operations of a call, `SpoolTableProofs`
on the tables, both used by `SpoolProofs`).
`MCNative`, `MCObjects`, `MCCollector`, `MCJobs` and `MCLibrary` choose at the
start of a behaviour between kinds of program, so that one run covers them
without the product of their states.

## 3. The modules

### Vault: `VaultOps`, `Vault`

`VaultOps` holds the operations of one code cache as operators on a record
`v`: `live` and `entry` are the entries (owned native function, key or
continuation, attached handle, the call sites baked into the code), `handle`
the entry handles with address, generation and kind, `last` the last-key
shortcut, `dependents` the reverse index from a handle to the functions that
call through it.  Removal (`remove_slot`), publication, detaching, registering
and repatching of dependents are each one operator, with the outcomes that the
allocations of index edges allow.  `Vault` drives one of them through the
public functions `Lookup`, `Compile`, `StoreContinuation`, `AttachHandle`,
`Invalidate`, `Clear`; `Resolve` stands for the compiler front end, which reads
handles and bakes generation and address into IR that is compiled later.  Which
entries are evicted is left open here; `VaultTable` fixes it.

### The table: `VaultTable`, `VaultMap`

`VaultTable` is the storage: slots with states empty, live and tombstone,
linear probing, insertion into the first reusable slot, the byte and entry
budgets, the weighted score by which a victim is chosen, the statistics, and
the removal of an entry whose registration failed.  `VaultMap` is what a Vault
promises: a bounded set of items, from which an insertion may evict.  The
table implements it (`ImplementsMap`, checked and proved).  Native code is its
size; `Blocks` lays the entries of a set of slots out as numbered units, so that
the bytes they take are a cardinality and can be reasoned about as one.

### Spool and Relay: `Spool`

One bytecode caller with feedback and Relay slots, and bytecode objects at
addresses that are used again.  `DirectCall` and `BytecodeCall` are whole
calls: identity assignment, leaf plan, region and baseline tier-up with
compilation into the Vault of the mode, publication in the handle inside the
bytecode object, native entry, feedback, and the Relay lookup, install,
invalidation and disabling; a function that captures variables (`Capturing`)
never gets a leaf way.  `Free` is `free_function_bytecode`, `ClearCaches`
and `FreeCaller` the corresponding releases.  It uses `VaultOps` twice.
`turbojs_jit_ir_is_vm_safe` refuses native calls, so the entries of these
Vaults have no Clutch sites.  Profiling and the JIT are switched on.

### Tiered execution: `Tiered`

`Invoke` is `TurboJS_TieredInvoke` built from its stages: optimized code,
promotion, baseline code, compilation, interpreter.  What the engines and
compilers answer is chosen freely, except that none returns
`TURBOJS_IR_EXCEPTION`.  `history` records what really happened, for the
properties to compare the feedback with.

### Shapes: `Shapes`, `Objects`

The state is the shapes by address (`sh`: properties, size, count of deleted
ones, reference count, whether in the table), the shape and the property values
of each object, the transition cache, the entries of the property caches and
`failed`, set where the code asserts.  One action per operation: creation (from
a prototype, with a shape outside the table, from a list of properties),
freeing, adding, redefining and deleting a property with compaction, changing
the prototype, and the two cached instructions.  `Objects` says what this is
for: an object is a prototype and an ordered sequence of properties with
values, and an operation on one object changes no other.

### Collector: `Collector`

Nodes are values (freed through the lists of the runtime) and cells (freed by
whoever drops the last reference).  The program makes and drops references,
weak records, WeakRefs and registry entries; `JS_FreeValueRT` with the queue of
zero counts and `JS_RunGC` with its phases `gc_decref`, `gc_scan`,
`gc_free_cycles` are modelled one list element at a time.  The order of the
lists is left open, so that what is checked holds for every order.

### Jobs: `PromiseOps`, `Promises`, `Generators`

`PromiseOps` has the operations on promises, pairs of resolving functions, the
job queue and the list of reported rejections, as operators on one record.
`Promises` adds the program's calls (constructor, resolving functions, then,
catch, finally, all, allSettled, any, race, async functions) and one action per
kind of job.  A body or handler is what it returns, throws or awaits: the calls
that it makes on the way are calls of the program just before.  `Generators`
has generators and async generators with the state of their frames; a body is
on `stack` while it runs, and anything may be called from it.

### Map and Set: `Collections`, `OrderedMap`

`s` is a `JSMapState`: the list of records with their counts, the hash table,
the count and the threshold, together with `at`, the records that walks point
to.  A deleted record that a walk is at stays in the list, empty, until the
walk leaves it.  `call` is a call that runs code of the program between its
steps (forEach, getOrInsertComputed, the seven methods of Set that take another
set); in between the program may do anything to the collection.  `OrderedMap`
says what this is for: entries in the order of insertion, and walks that visit
each remaining entry once.

### Modules: `Modules`

`mod` holds the `JSModuleDef`s, `dfs` the search of `js_link_module` or
`js_evaluate_module` with one frame per recursive C call.  A step enters a
module, looks at one request or completes the module, which is where its body
runs.  Jobs answer imports and continue modules whose awaits have ended
(`js_async_module_execution_fulfilled`, `_rejected`).  `failed` is set where
the code asserts.  Modules are taken as loaded, with their requests resolved.

### Atomics: `Atomics`

What `js_atomics_wait` and `js_atomics_notify` do between taking and releasing
`js_atomics_mutex` is one step; the end of `js_cond_wait` and the moment when
its thread has the mutex again are two.  A thread that stores a value notifies
all waiters afterwards, as programs do, and anybody may wake up one waiter.

### Workers: `Workers`

The counts of the two pipes of a worker and of shared buffers, with everything
that takes or gives up a hold: Worker objects, `Worker.parent`, handlers, the
thread state, messages, SharedArrayBuffer objects.  Reading a message is three
steps (taken from the queue, read, freed), since other threads go on meanwhile.
A message is a bag of buffers: each object of a buffer in it is a hold of its
own.  Counting the holds and queueing the message is one step, since the sender
keeps its own hold meanwhile.

### The event loop: `EventLoop`

`js_std_await`, then `js_std_loop`, on POSIX, in a program that has imported
`os` (`can_js_os_poll` is set).  `ts` is the `JSThreadState` with
the number of pending jobs; a timer holds the time left.  `js_os_poll_internal`
is split where the thread sleeps and where the program is called.  Inside a
call the program uses the `os` module in any order, then returns or throws.
Time, file handles, signals and the workers at the other ends of the ports are
the environment.

## 4. What is checked

Every run is listed in `PROJECT.json` with its properties; every property is
stated in words above its definition.  A passing run's properties each have a
mutant: a plausible slip in one definition under which the property fails.

| Run | States | Question |
| --- | --- | --- |
| `vault` | 91 046 | can a handle, a call site or a shortcut lead to a function that was released, and do the reverse indices reach every site |
| `native` | 30 619 | do probing, eviction and budgets work with tombstones, wrap-around and failed registrations, does the table implement the map; is each call counted once, promoted once, on evidence that agrees with all calls |
| `spool` | 175 688 | can a Relay way, an entry or a handle refer to code that is gone or of another function |
| `spool_live` | 8 141 | is a mode compiled again only after its code was in use, and does code that was cleared or evicted come back |
| `shapes` | 156 597 | are counts exact, caches right and objects independent of each other; do the assertions hold in programs without inline caches |
| `collector` | 417 459 | is everything unreachable freed, nothing else, and every count given back |
| `jobs` | 910 305 | is a promise settled once and from one place, is no wake-up lost, are requests answered in order and frames safe |
| `library` | 410 463 | is iteration in order and safe under changes, do bodies of modules run once and after what they require, are imports answered, is a wake-up, a timer or a message slept through, are shared buffers and pipes freed with their last holder |

(The numbers are TLC's distinct states, after symmetry.)

*Bounds.*  They are named in the modules and set in the `.cfg` files.  `vault`
has two keys, two handles, a continuation and generations up to 3: enough for
an entry to be evicted, its handle published again and a stale site to survive
both.  `native` has three keys that collide and wrap around in four slots.
`spool` has two addresses and three identities, so that an address is used by a
second function while a Relay way still names the first, and two native
functions, interchangeable, in Vaults of one entry, so that code is evicted;
one of the two functions captures variables.  `shapes` has two
objects, two names and room for each to have a shape of its own, a shared one
and one that a cache retains.  `collector` allows any three of four nodes at a
time, with three references: enough for a cycle through a weak map, a cell and
a cache.  `jobs` has three promises and four pairs (four and five for finally,
with two values, so that the one that passes through can be mistaken for that of
the callback), one combinator, one async function, three requests: enough for a promise that
adopts another while a third waits for both.  `library` has three keys (and
-0), of which two collide, an iterator and one call under way, and a table that
grows at three records instead of four, so that three keys make it grow; no
iterator is in use while a method of Set is under way, and the program then
makes one change; the other set yields up to two keys.  Its module graphs are
all those of three modules without self-imports, each with every choice of the
modules that await, or with the second broken and the first awaiting, a diamond and a cycle entered
from two sides, under two imports.  Three threads, two of which may block, make
three waits and two stores or single notifications on one element.  One worker
and one buffer, with one message in a pipe and two objects of the buffer in a
thread or in the message, let every holder be the last.  The loop has two timers, a file handle,
a port, a signal and three operations of the program, with delays of 0 and 1,
which timers clamp to 1 and `sleepAsync` does not, that fit an int.

*Fairness.*  Only `spool_live` uses it: weak fairness of integer and Float64
calls of each function from C, that is, the program keeps calling its
functions with arguments of both types.  Weak fairness is of calls that change
something, so it also says that region code does not complete every call of a
function, since a call that it completes does not get as far as the baseline
tier.  The engine itself starts nothing, so that no
fairness of compilation is assumed: compilation is part of the call.

*Deadlock* is checked except in `shapes`, `jobs`, `jobs_requests` and `library`, where a
program may end and where a failing assertion of `JS_NewObjectFrom` stops it.

### Disagreements between the code and what it says of itself

Four runs are expected to be violated; the counterexamples are short.

- `shapes_ic_update`: a property cache that retains a shape outside the table
  hits after the shape was modified in place, though a comment says that
  retained shapes are immutable.
- `shapes_transition`: a cached transition outlives an in-place extension of
  its source or target, and an object loses a property.
- `collector_ic`: property caches hold counted references that `mark_children`
  does not visit; a cycle through one is never collected, and the assertion at
  the end of the runtime's release fails.
- `jobs_requests`: requests queued behind a `return` request of an async
  generator are not answered, though the branch is named "resume next".

Others were met and are not runs of their own.

- A bytecode call edge sets `JIT_ATTEMPTED` "because it already ran Relay,
  region, and Spool dispatch" (`src/vm/interpreter.c:177`); line 629 runs the
  region and baseline tiers only for a function that already has native code.
- While `jit_reserved` is 1 the Float64 path is skipped
  (`src/vm/jit_bridge.c:1532`), so Float64 calls are then neither counted nor
  compiled; `docs/architecture/vm-float64-jit.md:6` says that the VM records
  them.
- `turbojs_relay_install_spool` accepts feedback with two targets
  (`src/vm/relay_call_ic.c:232`);
  `docs/architecture/telemetry-guided-clutch.md:7` asks for exactly one.
- The Vault evicts by a weighted score, with recency as the tie-break
  (`evict_lru`, `src/jit/runtime/code_cache.c:641`);
  `docs/architecture/engine-bytecode-tiering.md:52` says least recently used.
- The result of registering a repatched entry's dependencies is ignored
  (`src/jit/runtime/code_cache.c:859`): the index loses edges when it cannot
  allocate.
- A feedback vector with no arguments is taken for one that is not initialized
  (`src/jit/runtime/tiered_execution.c:98`), so every call of a function without
  arguments clears it.
- `JS_NewObjectFrom` asserts that its new object's shape has one reference
  (`src/objects/object_core.c:254`); another empty object may share that shape.
  It also links a layout into the table without looking for an equal one.
- A property cache that holds a shape outside the table
  (`src/objects/shape_core.c:741`; the callers do not ask whether the shape is in
  it) is a second reference to the shape, and the assertion of `add_property`
  that there is one only (`src/gc/property_lookup.c:64`) fails when the object
  gets another property.  TLC finds it in six states with the constants of
  `MCShapesIcUpdate.cfg` and the invariant `AssertionsHold`.  The passing run
  claims the assertions for programs without inline caches, and its programs
  with caches keep all shapes in the table.
- `resize_properties` may move a shape that the transition cache names
  (`src/objects/shape_core.c:348`).
- `alreadyCalled` is kept per function (`src/builtins/promise_builtin.c:1168`),
  so the two functions that `Promise.allSettled` makes for one item do not share
  it.
- `js_async_module_execution_fulfilled` leaves `async_evaluation` set for a module
  without an await that it executes (`src/modules/module_records.c:1540`), so a
  later import of a module that requires it waits for ever.  `OutcomeExact`
  leaves out only imports that began when such a module was already left behind
  (`late`); every other import must be answered.
- `js_std_await` polls after every job (`src/api/turbojs-libc.c:4919`), also with
  more jobs pending, and may sleep; its comment says that it executes pending
  jobs while waiting.  `SleepExact` therefore speaks of jobs for `js_std_loop` only.
- After `poll` only as many entries are looked at as are ready, from the first
  on (`src/api/turbojs-libc.c:2935`): a handle or port behind silent ones is not
  served.
- The delay of a timer is an `int64_t` and `min_int` takes an `int`
  (`src/api/turbojs-libc.c:2579`): with a delay of 2^31 ms the loop ends as if
  there were "no more events".
- A signal that interrupts `poll` ends `js_std_loop` before its handler is called
  (`src/api/turbojs-libc.c:2931`).
- Methods of Set hold each key they add once too often
  (`src/builtins/collection_builtin.c:1153`), and `getOrInsertComputed` moves a
  key that its callback inserted to the end (line 411).
- A wait whose timeout races a notification that counted it returns "timed-out",
  and one that wakes up for no reason returns "ok"
  (`src/builtins/typed_array_builtin.c:1071`).

## 5. What is proved

All theorems hold for every value of the constants under the named assumptions
of the modules (`BoundsAssumption`, `TableAssumption`, `SpoolAssumption`,
`TieredAssumption`, `AtomicsAssumption`, `LoopAssumption`: the constants have
their types, a limit is at least 1, the table has at least twice as many slots
as entries, the names of the modes are not those of the other kinds of a Relay
way), and under the hypotheses that some theorems state.

| Property of a run | Theorem |
| --- | --- |
| `vault`: `PublishedHandleOwned`, `GuardedCallSound`, `Consistent` | `PublicationSafe`, `GuardedCallSafe`, `VaultConsistent` |
| `vault`: `IndexComplete`, `RetirementClearsSites` | `IndexIsComplete`, `RetirementClears` (while edges can be allocated) |
| `native`: `ProbeFindsLive`, `ImplementsMap` | `TableProbes`, `TableImplementsMap` |
| `native`: `Consistent`, `FittingCodeCached` | `TableConsistent`, `TableCachesWhatFits` |
| `native`: `CallsAccounted`, `NotReoptimized` | `TieredAccounts`, `TieredOptimizesOnce` |
| `native`: `EvidenceExact`, `PromotionJustified` | `TieredEvidence`, `TieredPromotes` (the function has arguments; calls pass all of them or none) |
| `spool`: `RelayHitSound`, `EntriesOfLiveBytecode`, `Consistent` | `RelayNeverDangles`, `NoEntryOutlivesItsBytecode`, `SpoolConsistent` |
| `spool_live`: `OneAttempt` | `NoFutileRecompilation` |
| `library`: `NoLostWakeup`, `NothingSleptThrough` | `WakeupsKept`, `LoopSleepsThroughNothing` (the delays fit an int) |

*`VaultOpsProofs`, `VaultProofs`.*  `PublishedHandleOwned`, `GuardedCallSound`
and the shortcut's soundness are not inductive by themselves: removing an entry
must be known to retire its handle, and a site is right only as long as its
generation is current.  The inductive invariant `Inv` is `GoodVault(vault)`
(types; functions outside the Vault have no entry; a published handle has a
signature and points to a live function entry that knows the handle; the
shortcut names a live entry with its key; every site of a live entry is sound:
its generation is not ahead of the handle's, and if it is current then the
handle is published with the site's signature and callable) together with the
same soundness for the sites in IR that may be compiled later.
`VaultOpsProofs` has one lemma per operator of `VaultOps`: it preserves
`GoodVault` and only advances generations.  `VaultProofs` has one step per
action.  Generations only grow, so that one names exactly one publication;
there is at most one live entry per key and per continuation; together with the
type invariant this is `Consistent`.  While edges can be allocated, the reverse
index reaches every call site of every live entry (`IndexComplete`), hence
retiring a function clears every surviving site at its handle
(`RetirementClearsSites`, an action property).  The assumption `~AllocMayFail`
is needed: the code loses edges otherwise.

*`VaultTableProofs`.*  Linear probing never misses a cached key, for every
table size, hash function and history of tombstones.  The inductive invariant
says of every live slot that no slot between its key's home and itself is
empty (`Reached`), which deletion keeps because it leaves tombstones and
insertion keeps because it uses the first reusable slot.  From it follow the
budget of entries, one slot per item, room for an insertion below the limit,
and that the table implements `VaultMap`.  `Summed` adds that the counters of
bytes and of continuations are exact (the latter may be too low
when registrations fail, as in the code), and `Stamped`
that no two entries have the same time of use, hence that the score with its
tie-break is a total order.  Sizes are summed as the cardinality of `Blocks`,
which splits over disjoint sets of slots without an induction.  With these the
byte budget holds (`TableConsistent`), and eviction in the order of the score
always makes enough room: code that fits an empty cache is cached
(`TableCachesWhatFits`).

*`SpoolInductive`, `SpoolOpsProofs`, `SpoolTableProofs`, `SpoolProofs`.*  A
Relay way is followed on the strength of an identity and a generation, while
the code behind them may be evicted, cleared or freed and the address used
again: `RelayHitSound` is not inductive, since it says nothing of ways that are
stale now and could become current.  The inductive invariant `Inv`, in
`SpoolInductive`, has two layers.  `GoodRuntime` is about the functions and the
two Vaults: each is a good Vault in the sense of `VaultOpsProofs`, whose
entries are of functions that are alive, were attempted in that mode and can be
compiled in it; identities are unique and were handed out; a published handle
belongs to a function with an identity.  `GoodWay` is about what a way may say
of such a runtime: its identity was handed out, and whoever has it now has a
handle whose generation is not behind the way's, published while the two are
equal.  `Later` relates a runtime to a later one: identities are never given to
another function, generations advance.  Each operation of a call keeps
`GoodRuntime` and is `Later` (`SpoolOpsProofs`); a good way stays good in every
later runtime (`SpoolTableProofs`); so the invariant is kept by a call however
many operations it is made of (`SpoolProofs`).  `OneAttempt` follows from a
relation of the same kind (`OneTry`): code appears only where an attempt was
left or native code had run.

*`TieredProofs`.*  Each returning call is counted for exactly one tier, and
optimized code is compiled at most once and stays out of use after its
invalidation.  A call goes through up to five stages, and the invariant is
shown to survive each.  The evidence needs a second invariant: every slot of the
feedback vector holds exactly the types that the calls passed, and the counters
agree with `history`.  From it follows that a promotion is justified by all
calls so far.  Two hypotheses are needed, for reasons that lie in the code.
The function has arguments, since a vector without any is initialized again by
every call (section 4).  And for the promotion calls pass all the declared
arguments or none, since the first call with arguments sizes the vector, and
arguments beyond it are not observed.

*`LibraryProofs`.*  `WakeupsKept`: for any number of threads and elements no
wake-up is lost.  It needs `ListExact`: a linked record belongs to a thread
inside wait, places are unique, and a sleeping thread without a record has been
signalled.  That a thread compares under the mutex and links its record before
it sleeps is what makes both inductive.  `WakerAgrees`: the pipe that wakes up a
poll holds a byte exactly while a message waits, for any number of ports and
messages.  Beside that statement the invariant has the types of the lists of
the thread state and of the queues: the port that is served must be one that
was polled.  `LoopSleepsThroughNothing` adds that a sleep is no longer than the
shortest timer, and has no end only without timers.  It needs that the delays
fit an int (`DelaysFit`; the conversion to int is in the model, and the
statement is false otherwise), that a poll which comes to a sleep has found no
expired timer, and that `js_std_loop` polls with no job and no rejection
pending (`PollsIdle`); time passes for the sleep and the timers alike.

Model-checked only: everything about Shapes, Collector, Promises, Generators,
Collections, Modules and Workers; the liveness of `spool_live`
(`RecompiledAfterClear`); the refinements `ImplementsObjects` and
`ImplementsOrderedMap`, whose mappings are folds over sequences.

## 6. What is left out

Within the modelled parts: allocation failure (except the index edges and the
registration of entries in the Vault), exceptions that cannot be caught,
interrupts, and threads (a runtime is used by one; `Atomics`, `Workers` and
`EventLoop` have several, each with its runtime).  *Vault*: code bytes are
not executed; statistics of `StoreContinuation` under-count when registration
fails, as in the code.  *Shapes*: hash collisions, AutoInit and exotic
properties, arrays, context-held shapes and the order in which ways are
searched; the transition cache is off in the passing run, on in
`shapes_transition`.  *Collector*: contexts, unregister tokens, symbols as weak
keys, equal registry entries; a WeakMap that is freed leaves values of live
keys to the next collection, hence `Enough`.  *Tiered*: bailouts of optimized
code are over-approximated.  *Promises*: subclasses and replaced `then`,
`constructor` or `resolve` of the intrinsic promise, async-from-sync iterators,
disposable stacks; promises that nobody can reach are left out.  *Generators*:
finalizers and stack overflow.  *Collections*: the counts of keys and values,
weak collections (in Collector), several calls under way at once, Map.groupBy.
*Modules*: loading, resolution of names to exports (a broken module is one for
which it fails), arguments that `import()` refuses at once, stack overflow.  *Atomics*:
the width of elements, and notifications of a number between one and all.
*Workers*: workers made by workers, and buffers in a worker that never imports
`os`.  *EventLoop*: `js_std_loop_once`, the Windows
variants, errors of file handles; no liveness is claimed of it, since an
interval as slow as its handler starves all else.

Whole parts that have no module are listed in `PROJECT.json` with the reason:
sequential transformation of data, machine code, or a part for which no model
has been made yet.
