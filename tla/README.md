# A verification project for wah

wah is a WebAssembly interpreter in one C header (`src/wah.h`, 20 102 lines) with
an optional, experimental JIT (`src/wahjit.h`). This directory holds TLA+ models
of the parts of the interpreter whose correctness depends on the *order* of
things (threads, suspension and resumption, unwinding, reuse of slots, running
out of memory half-way) and of the algorithms everything else relies on: types,
the compiler to lowered code, and the building of modules. Pure value computation
(numeric and SIMD instructions) is left to the repository's test suite and to its
CBMC proofs (`src/proofs`).

All line numbers below are lines of `src/wah.h`. `PROJECT.json` lists, for each
definition, the lines it models; for each run, its properties and a plausible
mistake in the code that each property detects; and the hazards.

To check: `tlc -config x.cfg M` for the runs, with the module and the
configuration that `PROJECT.json` gives for each (`sections` uses `ModuleLife` itself), `tlapm xProofs.tla` for the proofs. Everything is in this
directory; some modules use the community modules.

## 1. Inventory

| Component | State it keeps | Operations | Hard behaviour |
|---|---|---|---|
| Interrupt and poll flags (737-761, 12575-12599, 13275-13299) | `interrupt_flag`, `poll_flag`, `gc_pending` | request, POLL, TICK, recompute | relaxed atomics written by several threads |
| Deadline timer (12601-12868) | `wah_timer_t`, `deadline_us` | arm, disarm, charge, fire, free | a thread of its own; late time-outs, spurious wake-ups |
| Activation, stack, handlers (13360-13490, 14243-14388, 15166-15444, 17703-18088) | `lifecycle`, `stack_buffer`, `exception_handlers` | start, resume, finish, cancel, call, tail call, host call, try_table, throw | suspension at any POLL, unwinding across frames, reuse after a trap |
| Fuel and bulk operations (13301-13358, 13606-13800, and the `_IMPL` cases of the interpreter loop) | `fuel`, operands | memory/table/array fill, copy, init | an instruction is suspended half-way and executed again |
| Pinned references (2567-2585, 17730-17796, 17941-18029, 18697-18736) | `pin_slots`, free list, generations | pin, unpin, resolve, pin all results, pin parameters on entry | references used after release, generation wrap, failing in the middle of a batch |
| Garbage collector (11850-12571, 17665-17701) | heap list, counts, worklist, marks | alloc, step, verify | marking without memory, several heaps in one domain |
| Link domain and destruction (11850-11906, 12317-12374, 13125-13275) | linked contexts, dependents, poison | link, share references, free | free order; dangling cross-context references |
| Instantiation (18797-19935) | `is_instantiated`, `instantiate_failed`, segments | the ordered steps of wah_instantiate | failure after some effects are shared |
| Memory and table growth, budget (4948-5010, 13068-13107) | sizes, `memory_used` | grow, charge, release | growth at the limit, failed realloc |
| Types (5011-5957) | recursive groups, canonical ids, representations, the cache of a context | hashing and merging groups, subtyping within and across modules, layout | recursion through groups, hash collisions, no memory for a comparison |
| Validator and lowering (6378-8866) | control and type stacks, labels, patches, metering chunks, reference maps | one case per opcode, then one pass | unreachable code, branches out of try_tables, backpatching, chunks that are retracted |
| Lowered-code checker (8866-10254) | the stacks recorded at branch targets | follows every path of the lowered code | joins of paths with different handlers |
| Decoding and sections (5957-6378, 10254-11850) | cursor, section order, arrays and counts of the module | LEB128, UTF-8, one handler per section, cleanup | a failure between any two allocations; counts announced before they are true |
| Type-spec parser, programmatic modules (17395-17662, 18279-18660) | a module being built | define a type; export functions, globals, memories | arrays that grow together, shared names |

How they interact: the host calls `wah_start`/`wah_resume`/`wah_finish` or
`wah_call*`; resuming arms the timer, runs the interpreter and disarms it. The
interpreter reads the flags at POLL and TICK and between the chunks of a bulk
operation, and may run a collection at POLL. Other threads and the timer only
touch the flags (and, for the timer, its own record under its mutex). A
collection visits the roots of every context of the link domain.

What makes each component correct, in one sentence:

- flags: a request or a pending collection is never lost by a concurrent clear;
- timer: it fires for exactly the arming it waited for, and the deadline is one
  budget across activations;
- activation: the handler stack is the lexical nesting of try_tables, the two
  stacks never collide, and an activation leaves nothing behind;
- bulk operations: suspending one any number of times cannot be told from
  executing it at once;
- pins: a released reference is rejected until its generation wraps, and the
  free list is exact;
- collector: it frees the unreachable objects and no others, however often
  memory runs out;
- link domain and instantiation: a context that is still usable knows no freed
  one, whatever was linked, half instantiated or freed in between (but see the
  third of the known divergences); a collection
  visits all that code may refer to; and each buffer has one owner and no stale
  copies of its address;
- types: every answer about types agrees with comparing the unfolded type trees,
  and fields that code may access lie apart;
- compiler: what the validator accepts is lowered to code that the checker
  accepts, that continues where the source says with the handlers the source
  says, is paid for, and reads no local before it is set;
- sections and host-built modules: every allocation is released exactly once
  wherever parsing or a call stops, an accepted module names only what it has,
  and a lookup finds the export of that name.

## 2. Modules

| Module | Models | Composes |
|---|---|---|
| `PollFlags` | flags under store buffering | |
| `DeadlineTimer` | owner thread, timer thread, users | the flags, sequentially consistent |
| `InterruptProofs` | proofs about both | extends both |
| `ExecStack`, `ExecStackProofs` | lifecycle, stack, handlers | implements `Unwinding` |
| `Unwinding` | abstract: a stack of calls with lexically open catch tables | |
| `BulkOps`, `BulkOpsProofs` | resumable bulk operations with fuel and interrupts | implements `AtomicBulk` |
| `AtomicBulk` | abstract: the bulk operation as one step | |
| `BulkEffect` | areas, operations and their effect | used by both |
| `PinTable` | pin slots and their free list | |
| `PinBatch` | the calls that pin several references | extends `PinTable` |
| `GcMark` | one collection | |
| `ReferenceProofs` | proofs about pins and collections | extends `PinBatch`, `GcMark` |
| `LinkDomain`, `LinkDomainProofs` | linking, instantiating, growing, freeing several contexts | |
| `TypeDefs` | types of one module: equality, subtyping, layout | |
| `CrossTypes` | equality and subtyping across modules | extends `TypeDefs` |
| `TypeSystem` | modules that acquire types, a context that asks about them | extends `CrossTypes` |
| `InstrTypes` | validation of instructions that are not control flow | extends `TypeDefs` |
| `Validator` | validation of control flow, and analysis | extends `InstrTypes` |
| `Lowering` | from analysed to lowered code | extends `Validator` |
| `LoweredCheck` | the checker of lowered code | extends `Lowering` |
| `Compile` | a body through all of these | extends `LoweredCheck` |
| `ModuleHeap`, `ModuleHeapProofs` | what a module owns, and how it is released | |
| `ModuleLife` | section handlers and host calls | extends `ModuleHeap` |
| `ModuleParseProofs` | proofs about the section handlers | extends `ModuleLife`, `ModuleHeapProofs` |
| `ModuleLifeProofs` | proofs about the host calls, and the theorems | extends `ModuleParseProofs` |
| `MCReferences` | a collection, and pins after it, for TLC | extends `PinBatch`, `GcMark` |
| other `MCx` | constants for TLC | |

**PollFlags.** `mem` holds the flags as all threads see them and `buf` a FIFO of
stores per thread *and flag*: stores of one thread to different flags become
visible in either order, which is more than a total-store-order machine allows.
A load takes the newest value that the thread can see at that step: that relaxed
loads may also be reordered with one another is not modelled. `WAH_POLL_FLAG_FENCE` waits for the thread's own
queues. `wah_request_interrupt` (store, fence, store) and
`wah_recompute_poll_flag` (store, fence, load, store) are one action per access.
The collection itself is one step.

**DeadlineTimer.** A region that holds `timer->mutex` from one wait to the next
is one action. `pthread_cond_timedwait` is split: `TimeOut` (the deadline passed),
then, possibly after other regions, `ThreadTimedOut` (it has the mutex again).
Time is relative and saturates at `MaxDeadline`, so the state space is finite
although time is not. The ghosts `limit`, `spent` and `user` remember what the
properties compare with. The Win32 variant is not modelled yet.

**ExecStack.** The code of a frame is abstracted to the try_tables that enclose
it (`tries`) and the height of its operands; any instruction sequence that the
validator accepts is a behaviour. A branch is followed by what the lowered label
does (`landing`: nothing, TRIM_HANDLERS, the function's end); a suspension may
come in between because a loop label has its POLL before its TRIM_HANDLERS
(8344). `hbase` is a ghost and no guard reads it. `mode` separates `wah_call*`,
which cancels what did not finish, from the start/resume/finish interface. A
frame owns the operands from `floor` to `top`; the check at a call counts from the
caller's stack pointer, so a callee begins among the operands of its caller and
may end below the caller's `top`. A host function that was tail-called may leave
more results than its caller's frame has room for; they are moved down at once
(`landing = "pop"`), and the property `FrameBounds` leaves that moment out.

**Unwinding** knows no handler stack, only the sequence of open catch tables of
each call; an exception goes to the innermost enclosing table that catches it.
The mapping forgets handlers, call depths and operands.

**BulkOps.** Memories, tables, arrays and segments are *areas* of cells; a
dropped segment has length 0. An operation (`op`) is what is on the operand
stack: nothing else survives a suspension. `ExecStarts` begins an execution,
which alternates `DoChunk` and `Check`; `Check` may suspend and push `Rest`, the
operands for what is left, and the next execution begins with a bounds check
again. A chunk is moved at once, like memmove; the element loops of tables and
arrays run in the direction of the chunks and so are chunks of one. Meanwhile
other code may grow or drop areas, cancel, refuel, and write cells outside the
ranges of the operation (writes inside make the result depend on timing, which
no promise covers). `issued`, `before`, `charged`, `broke` and `late` are ghosts.
METER and TICK are actions, so that fuel runs out at any point. `AtomicBulk`
performs an operation in one step and goes on, or rejects it, or abandons it
with the end of the activation; only then may a part remain. Under the mapping
the memory is the one at the beginning of the operation until it is over.

**PinTable.** A reference is a pair of slot and generation, as packed by
`wah_pin`; `given`, `reuse` and `freed` are ghosts. Unpinning is attempted with *any*
pair, so stale and invented references are covered. `GenMod` is the number of
generations: 1024 on 32-bit builds, and 2 in the run so that wrapping happens.

**PinBatch** adds `wah_finish_pin`, which pins the results one by one and takes
back the earlier ones when one fails, and `wah_instantiate_on_entry`, which pins
the parameters of a call while start functions run. Every step on the table is a
step of `PinTable`. While start functions run, the host pins and unpins on its
own account, with any reference but the ones that the running call keeps in its
local array: those were never handed out.

**GcMark.** One collection from clearing the marks to the end of the sweep, over
every object graph. Whenever an unmarked object is marked it goes to the worklist
or, if that cannot grow, is left gray; which of the two is nondeterministic, so
every pattern of failing allocations is covered. `Own` is the swept heap and the
other objects belong to other contexts of the domain, which are traced but never
swept. Marks left by other collections are arbitrary initially.

**LinkDomain.** A context is a primary (made by the host) or owned (made by
`wah_instantiate` for a module linked with `wah_link_module`); owned contexts
share the heap of their primary. `links`, `dependents` and `gc_dependents` are
the lists of the code, as sets because entries are registered once. `status`
stands for `is_instantiated`, `instantiate_failed` and the step that
`wah_instantiate` is at; `stack` holds the contexts whose `wah_instantiate` is
under way, since a start function may call a host function that instantiates
another one. Each context has *one* memory slot for all its memories and tables,
which follow the same code twice. Binding it is two actions, `Mark...` and
`RegisterImporter`, with a failure in between. `refs` is the largest set of
contexts whose functions or objects may have been stored in tables, globals or
objects of a context: `Run` stores all that the code could get hold of. A buffer
is named by its context and the number of times it was replaced, and no buffer
grows once one was replaced `MaxGrowth` times. What is reached over links, imports
or references (`Closure`) is the least closed set, which the code finds by
recursion (`wah_poison_link_domain`) or with a list (`wah_gc_collect_domain`).
Type checks, name lookup and the contents of segments are left out: whether they fail is
nondeterministic (`InstantiateFails`). A freed context is not created again.
A host object may be given to the code of any context of the link domain
(`GiveObject`), which is all that the documentation asks for (1521-1523); the code
does not check it. If the two contexts are connected only through a *bridge*, a
context whose instantiation shared nothing, the ghost `bridged` records it, and the
ghost `severed` is set for good when a free leaves such a pair in different link
domains with the giver in use. No guard reads either ghost. From then on the code does
not keep its promise (the third of the known divergences), and `NoDangling` and
`ReferencesTraced` are stated until then.

**TypeDefs, CrossTypes, TypeSystem.** A type is a record of its head, the index
of a definition and nullability; a definition carries its fields or parameters
and results, its supertype and its recursive group. `GroupHash` keeps what the
code hashes but has a range of `HashMod` values, so that collisions are common.
Parsing a section adds one group per step and then assigns canonical indices and
representations; `wah_define_type` adds a single type to a module that is ready.
An allocation that fails is an argument of the comparison (`oom`). Layout is the
code's algorithm with its holes, on the real sizes. The cache of a context has
`CacheSize` slots, indexed by a hash of the question. The reference definition
is a *tree*: a definition with its references to other groups unfolded.

**InstrTypes, Validator, Lowering, LoweredCheck, Compile.** One body passes
through the compiler. `Analyze` validates the next instruction and appends what
the analysis emits; `Lower` is the pass that removes blocks, patches branches,
opens and closes metering chunks, emits slow islands, TRIM_HANDLERS and POLL, and
`Check` is `wah_check_lowered_code`. Bodies are built an instruction at a time,
so invalid ones end as soon as the validator rejects them. All features are
enabled. Instructions of one signature are one instruction: numeric and SIMD ones
are told apart by operand and result types only. Positions in lowered code are
instruction numbers instead of byte offsets. Specialised opcodes (address width,
indirect globals, field sizes) are immediates of one operation. The meaning that
`FollowsSource` compares with is computed from the block structure of the source
alone, in `Compile`.

**ModuleHeap, ModuleLife.** A module is, for each of its arrays, a count, a
pointer, a capacity, and for each entry what the entry points to (`own`) and what
it says (`ent`); `heap.live` is the set of live allocations, each named after the
entry it was made for. A handler is a *run*: it starts from the state (`Start`) and
goes through steps (`r ++ step`: an entry is begun, a block is allocated for an
entry or for a local variable, moved or dropped, an array is resized, an import
stored, a local array adopted, functions are declared). A run keeps the states it
came through, and the handler may stop in any of them (`Stops`), because the next
allocation fails or because the input is malformed. Then the handler's own cleanup
and `wah_free_module` run on exactly what is there. An entry that was allocated and
not yet written owns `Garbage`, and freeing that, freeing twice and writing past a
capacity set `heap.bad`. The counts are those of the code, also where the code uses
one count for two purposes (`export_count`, `data_segment_count`). Names are
integers, ordered as the code orders the strings. Value types are left out, and so
are the bytes of LEB128 numbers and UTF-8 names: a malformed one is one of the ways
to stop.

## 3. Runs

| Run | Bounds | What it shows |
|---|---|---|
| `poll_flags` | two requesters plus the interpreter's own requests, two stores per flag in flight | `NoLostRequest`; `InterruptConsumed` and `CollectionRuns` under fairness |
| `deadline_timer` | deadlines 1, 2 and none; three armings | `DeadlineBudget`, `TimerContained`, `DeadlineEnforced`, `FreeReturns` |
| `exec_stack` | buffer of 6 units, 3 handlers, 2 nested try_tables, one tag, two functions of the module and three of the host | `HandlersMatch`, `FrameBounds`, `ReadyIsClean`, `ImplementsUnwinding` |
| `bulk_copy` | a memory and a table of at most 4 cells, chunks of 2, fuel 0 and 1, one operation | `ImplementsAtomic`, `Completes` |
| `bulk_init` | an array of 2 elements of 2 bytes, a data segment of 2 bytes and an element segment of 2, chunks of 2 bytes, two operations | `ImplementsAtomic` with drops and failing elements, `FuelExact`, `BoundedDelay` |
| `references` | collections: all graphs over three objects, one foreign, one exception; pins: three slots, two generations, two values, three reuses, calls of up to three references | `NoReachableFreed`, `SweepExact`, `Terminates`; `FreeListExact`, `OnlyCurrentResolves`, `PinsBalanced` |
| `link_refs` | three primaries, one of which may own a context and have objects before instantiation; code of the two others stores references | `NoDangling`, `ReferencesTraced` |
| `link_bridge` | as `link_refs` | a violation of `LifetimesTied`, the third of the known divergences |
| `link_imports` | three primaries, one with up to two owned contexts, one growth | `AliasesCurrent`, `FreedOnce`, `OneDomain` |
| `types` | a module of up to four types and one of two, four hash values, supertype depth 2, comparison depth 1, a cache of two slots and two questions; structs of up to four scalars and one extension | `CanonExact`, `SubtypeCoherent`, `CrossExact`, `CacheTrue`, `LayoutSound`, `DefineFaithful` |
| `compile` | all bodies of at most 7 to 9 instructions over five alphabets; one instruction of each group with its operands; constant expressions of 5; chunks of cost 3 | `LoweredAccepted`, `FollowsSource`, `FuelPaid`, `InitBeforeUse` |
| `sections` | four entries in a binary, three entries and calls when the host extends it, indices 0 and 1, three names, capacities that start at 1 | `Released`, `IndicesClosed`, `LookupExact` |

Why the bounds are enough. *poll_flags*: a loss needs one request to overtake
one clear; two requesters add a request that arrives while another is half done.
*deadline_timer*: a stale fire needs one arming to end and a second to begin
while the thread is between time-out and mutex; the third lets the second also
go stale. *exec_stack*: two frames with a try_table each and a nested one cover
throwing past a frame, trimming to the middle, and reuse of a frame by a tail
call; six units let a callee's frame collide with the operands of its caller.
*bulk_copy*: four cells give every overlap with one cell between chunks of two,
an uneven last chunk, and a source or destination that ends at the limit; the
proof below covers all other sizes. *bulk_init*: two chunks, so that an element can
fail between them, and a second operation that begins when an interrupt came
during the last chunk of the first.
*references*: three slots give every shape of free list with a middle element;
pins do not depend on the object graph, and are explored after a collection of one of
them. Three objects give chains and cycles through the foreign heap, and
the failing pattern chosen at each object makes the search for gray objects run
several times. *link_refs*: three contexts give the chain whose middle is freed
first, the fork in which two consumers share a provider, and a middle that never shares
anything; references are stored by the two ends, and objects are given across the
middle. *link_bridge* has the same bounds. *link_imports*: imports that
are resolved through a sibling that is not bound yet, in either order of binding,
and aliases in both; one growth makes every copy that is missed stale. The two
runs split the questions, since all at once (references, two owned contexts,
growth) exceeds TLC's reach. *types*: three groups make two equal groups and a
third that refers to either, a fourth tells the two referrers apart; groups of
two make references inside and outside the group; comparison depth 1 is exceeded
by a type that refers to one that refers to a third. Four fields of five sizes
leave every kind of hole, and an extension fills it. *compile*: each alphabet
holds what bends control in one way (blocks and tables, exceptions with and
without metering, reference branches, initialisation of locals). Eight
instructions nest three blocks, which is `MaxControlDepth`, with a branch and
code after it; a chunk of cost 3 is exceeded within a body, and the cost at which
a chunk is split in straight-line code (5) too. *sections*: four entries give the
shortest modules in which an entry depends on another kind: a type, a function,
its export and a body that takes a reference to it; a type, a function, a body
that drops a data segment and the segment. Capacities of 1 make every array grow
at its second entry.

Fairness. In `PollFlags` stores become visible eventually, a thread inside a
library function goes on (weak fairness), and code that is run keeps reaching
POLL while the host keeps resuming it (strong fairness, because both are
disabled now and then): lowering puts a POLL at the head of every loop and at
function entry. Nobody has to request anything. `CollectionRuns` also assumes
that interrupts cease, since `wah_poll_handler` serves them first. In
`DeadlineTimer` time passes, the timer thread is scheduled and gets the mutex,
a time-out that is repeatedly possible happens despite spurious wake-ups, and
running code reaches a check; the host owes nothing but to end
`wah_free_exec_context`. `GcMark` is a plain call: weak fairness of its steps. In `BulkOps` running
code goes on (weak fairness) and the host keeps resuming and refuelling a
suspended activation (strong fairness, as either may be disabled by the other);
`Completes` assumes that interrupts cease, because an interrupt before every
chunk stops the instruction at its start each time.

Deadlock is checked in every run but those of `LinkDomain`, `types`, `compile`
and `sections`, which model something that ends: the host has freed everything,
all modules are loaded and all questions asked, the body is compiled, the module
is freed. The terminal states of `DeadlineTimer` (the
context is freed) and `GcMark` (the step returned) have explicit stuttering
actions.

### Known divergences

Three statements in the comments of `wah.h` go further than the code. The models
follow the code, and the properties say what holds. The run `link_bridge` shows the
third; the first two are outside of what the runs cover.

1. *A request that is dropped.* `wah_timer_set_armed_locked` clears `interrupt_flag` whenever
   the timer fired since its last arming (12821). A request by another thread in
   the same activation, after the fire and before the activation ends for some
   other reason, is cleared with it, and no yield answers it. The documentation
   of `wah_request_interrupt` (1545-1546) promises that "The interpreter will
   yield at the next POLL/TICK point or bulk operation."
2. *Fuel and the check interval.* `wah_bulk_fuel_charge` rounds each chunk up to a unit
   (13316). If `WAH_BULK_CHECK_INTERVAL` is no multiple of
   `WAH_BULK_ITEMS_PER_FUEL` (both may be defined by the user), an operation
   costs up to one unit more per interval, although the documentation (401-402)
   says that "Fuel metering is still accurately done regardless of this
   interval". With the default values the charge is exact (`FuelExact` in
   `bulk_init`).
3. *Lifetimes that are not tied.* Let b be linked with a and c and never be instantiated.
   The three are one link domain, and a host object of c may be given to a.
   Freeing b poisons nothing (13133: it shared nothing and has no objects of its
   own, the exemption stated at 1085), but it was the only connection: c can now
   be collected or freed on its own while a, still usable, holds the object. The
   documentation says that the lifetimes of a link domain "are tied: once any
   context in the link domain is freed, the remaining contexts can only be freed"
   (1424-1426), and that giving an object is a misuse only for "a context of
   another link domain" (1521-1522). `LifetimesTied` states the promise, and
   `link_bridge` expects TLC to find this sequence. `NoDangling` and
   `ReferencesTraced` hold for all behaviours in which it has not happened
   (`~severed`), and so do the theorems about `LinkDomain`.

## 4. Proofs

Proved by TLAPS for every value of the constants:

- `ReferenceProofs`, about `PinTable`: `TypeCorrect`, `FreeListCorrect`, `StaleRejected`,
  `ForgedRejected`, `NoSlotLeak`. The inductive invariant `PinInv` consists of
  TypeOK, `FreeListExact`, and three strengthenings: slots beyond the used part
  are clear; every reference given out and not released is current in its slot;
  and every pinned slot's current reference was given out. Without the last two
  the properties about references say nothing of the step that reuses a slot.
  The assumptions are that the table has a natural number of slots and at least
  one generation.
- `ReferenceProofs`, about `GcMark`: `GcTypeCorrect`, `MarkSafe`, `MarkExact`, `CountsCorrect`. The
  invariant `GcInv`: marked objects are reachable, roots are marked or still to
  be visited, the *tricolour* condition (what a marked object refers to is
  marked unless the object is in the worklist or gray), gray objects will be found
  (`overflow` is set, or the search has yet to reach them), and what the sweep
  has passed is exact. `NoReachableFreed` alone is not inductive: only the
  tricolour condition makes the marks closed when the worklist is empty, and
  only the condition on gray objects makes them closed when the loop ends. The
  only assumption is that there are finitely many objects.
- `BulkOpsProofs`: `Refinement` (`Spec => ImplementsAtomic`), `ResumesInBounds`,
  `TypeCorrect`, `DelayBounded`, `FuelCharged`. The invariant `BulkInv`: what is
  left (the operands, less the cells that the execution did) is a contiguous
  `Remainder` of the operation; all its other cells have been written with what
  they should get and no other cell has changed (`Progress`); no cell that the
  remainder reads has been overwritten (`Ahead`, the reason for copying backward);
  and once begun, the operation stays in bounds (`Bounded`). `Ahead` is what makes
  `Progress` inductive: the direction is chosen again from the *remaining* operands
  at each execution, and the proof shows that this never turns a safe order into
  an unsafe one. `BoundedDelay` needs that no cell was written under a pending
  interrupt when a loop begins another chunk (`DelayInv`), and that a chunk is
  never longer than the interval, also where at least one element is done.
  `FuelExact` needs the account of a half-done operation (`Paid`): the fuel taken
  covers the items done, and exceeds them by less than a unit per chunk done
  without fuel. That a chunk cut short is whole units is a property of the
  constants: `FuelCharged` has the hypothesis `WholeUnits` (the interval is a
  multiple of the items per unit, those of the element size), which the default
  values satisfy and without which the theorem is false, see the second of the
  known divergences. Assumed otherwise: areas have classes; interval, items per
  unit and element size are positive.
- `InterruptProofs`, about `PollFlags`: `RequestsKept` (`NoLostRequest`), `PollTypeCorrect`. The
  property speaks of quiet states only, so the invariant `PollInv` says what keeps
  the promise while somebody is inside the protocol: requesters only ever set
  flags; nobody is past the fence of `wah_request_interrupt` while its store to
  `interrupt_flag` is queued; the interpreter looks at `interrupt_flag` again only
  when its clearing of `poll_flag` is visible (`ClearOrdered`); a pending
  collection is announced in `poll_flag` or in a queue; and a visible interrupt is
  announced, or some thread is at a step from which it still sets `poll_flag` or
  looks again (`InterruptAnnounced`). The two orders are exactly what the fences
  are for. Any set of requesters, any bound on the queues.
- `InterruptProofs`, about `DeadlineTimer`: `BudgetCharged` (`DeadlineBudget`), `TimerIsContained`
  (`TimerContained`), `FiresOnTime`, `TimerTypeCorrect`. The invariant relates the
  deadline to limit and time at each point of arming, running and charging
  (`BudgetExact`); says when the record may be running and the thread alive
  (`RunningScoped`, `ThreadScoped`); that an interrupt which no user requested
  belongs to a fire (`InterruptOwned`); and that a wait begun for the current
  generation cannot end early (`NeverEarly`), which is what the generation count
  is for. Any deadlines, any number of armings.
- `ReferenceProofs`, about `PinBatch`: `BatchBalanced` (`PinsBalanced`),
  `BatchTableCorrect`. Every step on the table is one of `PinTable`, so `PinInv` is
  preserved by the lemmas about that module; in addition the references of the running call are current and
  no two of them, nor one of the host's, share a slot (`OneHolder`).
- `ExecStackProofs`: `HandlersAreScoped` (`HandlersMatch`), `FramesAreNested`
  (`FrameBounds`), `ReadyAgain` (`ReadyIsClean`), `UnwindsLexically`
  (`ImplementsUnwinding`), `StackTypeCorrect`. The invariant `StackInv` adds to
  them what a branch, throw or return relies on two steps later: a try_table of
  depth j was opened with j others around it, so its label lies within its own
  frame; the handlers of the frames follow one another without gaps, so that
  popping to the call depth of a handler pops exactly the inner frames
  (`ScopedOf`); parameters and results of a callee lie within its caller's
  operands (`NestedOf`), else `sp` could leave the frame when it returns; and what
  the lifecycle state says of the stacks, of the base saved by `wah_start` and of
  a host call under way (`Lifecycle`, `HostCall`). The refinement maps the frames
  to the sequence of their open tables; each step lemma shows the step allowed by
  `Unwinding` or unseen there. Any stack size, handler and nesting limits, any
  tables and functions, provided that the locals and results of a function fit
  into the slots that validation computed for it.
- `LinkDomainProofs`: `NoneDangles` (`NoDangling`), `RefsAreTraced`
  (`ReferencesTraced`), `AliasesKept` (`AliasesCurrent`), `BuffersFreedOnce`
  (`FreedOnce`), `DomainIsOne` (`OneDomain`), `LinkTypeCorrect`. All are
  stated for `~severed`, that is, until a free takes away the bridge across which a
  host object was given (the third of the known divergences): from then on a usable
  context may know a freed one, and nothing else about it can be relied on. That nobody who
  stays in use knows a freed context is not inductive: a reference or an import may
  come from a context several links away, and a free poisons only what links and
  dependents lead to. The invariant `LinkInv` therefore says *why* a context may
  know another. Contexts that may share references and are linked, or tied by an object given
  across a bridge, form classes (`Bonds`, `Class`); a context imports from a context of its own or of a class that it
  links (`ImportsJoined`), and refers to contexts of its class, or to host objects
  of one that links into the class or is tied to it (`RefsJoined`). Contexts tied by
  an object are in one link domain and are in use together (`Tied`): a step other than
  a free only adds links, and a free that separates them without poisoning sets `severed`. A free that poisons reaches
  whole classes (`DomainFacts`), because links are known at both ends while both
  are in use (`Linked`, `SameFate`) and a consumer is on a list for an import or a
  link that it really has (`ListsSound`); one that does not poison is of a context
  that shared nothing and is in no other class. That `may_share_refs` is set before
  any code runs (`Sharing`) is what lets a free without it skip the poisoning. For
  the buffers the invariant adds that imports lead to the owner in one step
  (`Flat`), that a slot not bound yet holds nothing that could be taken for its own
  (`Unbound`, `BindingSound`), and that every bound alias is current and on its
  owner's list (`BoundCurrent`, `BoundKnown`), where growing finds it. Any finite
  sets of contexts and any ownership; growth is bounded by any number.

- `ModuleLifeProofs`: `ModuleOwnership`, `ModuleReleased` (`Released`).
  `Released` speaks of what `heap.bad` has recorded and of freed modules, and the
  step that would go wrong is many handlers away from the step that prepared it.
  The invariant `IInv` says why nothing does. `Sound`: the live blocks are exactly those
  that a local variable of the running handler holds, or the counted entries
  of the module, or the local arrays of the import section, and no block has two
  of these owners; counted entries lie within their arrays and hold only blocks
  that were made for them, which excludes entries never written. `ParseOK`,
  between two entries of a binary: an array with counted entries is allocated;
  `types_cap` covers all four arrays indexed by types, although they are grown one
  after the other and the capacity is committed last; the capacity of `repr_infos`
  is a power of two, which is how the code decides when to grow it; the bitmap of
  declared functions has the size of the function index space (`Fit`); sections
  still to come have left no trace, so that opening one overwrites no pointer
  (`Ahead`); the array of the current section has room for the entries still to be read
  (`Room`); and exported functions exist (`ExportsBelow`), without which a host
  function added later could take over the name of an export that owns it, and
  `wah_free_module` would not free that name. `ReadyOK` is what of this a host call
  relies on, and that `export_order` is never shorter than `exports`, although one
  of the two may have failed to grow. `ModuleHeapProofs` shows for each
  kind of step that it preserves `Sound`, and that releasing frees every block
  once; `ModuleParseProofs` and `ModuleLifeProofs` have one lemma per run (what
  holds in every state it may stop in, and at its end) and one per action. Any
  numbers of entries and calls, any indices and names, any initial capacities.

The theorems about `PinTable` also hold of the table in `PinBatch`, whose steps
on it are steps of `PinTable`. `TypeOK` of each module, `GrowsOnlyWhenFull`,
`CountsExact`, `ResumeInBounds` and `NeverEarly` are stated by theorems only and
are in no run.

Only model-checked: all liveness properties (the prover handles neither fairness
nor ENABLED); everything about `TypeSystem` and `Compile`; and `IndicesClosed` and
`LookupExact` of `ModuleLife`. `TypeSystem` and `Compile` compare recursive
algorithms with recursive definitions (unfolded trees, paths through code), which
is induction over data and out of the prover's reach. The only induction in the
proofs is over natural numbers and for a set instead of a predicate
(`SetInduction` in `ModuleHeapProofs`, from the least element of a set of
numbers); it is enough for the recursive functions `Pow2` and `ReprRuns`.

## 5. Not modelled, and the plan

In this order:

1. the rest of instantiation: globals, tags, segments and type checks, with the
   memory budget (charges and releases of creation and growth);
2. decoders (LEB128, UTF-8, value types) and the grammar of type specs against
   reference definitions;
3. allocation thresholds of the collector, and its roots taken from `LinkDomain`
   and from the reference maps of `Lowering`;
4. `Landings` of `ExecStack` taken from lowered code; the Win32 timer.

Out of scope: numeric and SIMD instructions (pure data), the checked sizes of the
allocation helpers (CBMC proves them), error strings, the JIT (its state is
machine code; in builds with it, `wah_parse_module` allocates its record of the module at 11725 and returns
at 11737 and 11743 without `wah_free_module`, so `Released` says nothing of that
record), tests, fuzzers, benchmarks and tools.
