# A TLA+ model of the Pup runtime

Pup is a compiler and runtime for a small Ruby-like language. A Ruby program
parses the source and emits LLVM code; an LLVM plugin (`gclib/`) prints, for
every function, where its stack frame holds references; a C runtime (`*.c`)
provides objects, classes, exceptions and a garbage-collected heap with a
collector thread that runs beside the program. This directory models the
runtime in TLA+, checks it with TLC on small instances and proves the safety
properties of the heap, the collector, the tables, the unwinder, the code generator
and the object model with TLAPS for instances of any size.

## Inventory

| component | source | state it keeps | operations | interacts with |
|---|---|---|---|---|
| safepoint rendezvous | `heap.c` | list of attached threads; per thread `gc_waiting`, `current_gc_mark`; a two-party barrier | attach, SIGUSR1 handler, `pup_heap_safepoint()`, `perform_gc()` loop | signals and barrier between collector and mutators; calls marking |
| regions and allocator | `heap.c` | `region_list`, each region's `next` and `allocated`, each thread's `local_region` | allocate, retire a full region, steal, unmap, destroy | compare-and-swap between mutators and collector |
| marking | `gc.c`, `gc/refqueue.c` | reference queue of segments, `current_segment`, `live_mark_value`, `gc_mark` of objects | scan a stack, scan the heap, flip the mark | mutators fill the queue at their safepoint, the collector empties it |
| sweeping and copying | `heap.c`, `object.c` | objects in stolen regions | collect a region, count live and garbage, copy (never called) | frees what regions hold |
| stack root maps | `gc.c`, `gclib/.../pupgcprinter.cpp` | tables printed by the plugin | print, look up by return address | read by the stack scan |
| environment and lifecycle | `env.c`, `heap.c` | well-known classes, heap, threads | create, launch the program's thread, join, destroy | starts and cancels the collector |
| objects and attributes | `object.c` | type, attribute list, mark | get, set, dispatch | visited by marking |
| classes, methods, constants | `class.c` | hierarchy, method and constant lists | create, define, look up | bootstrap order in `env.c` |
| symbol table | `symtable.c` | interned names | look up, add | used by everything |
| exceptions | `raise.c`, `exception.c`, `runtime.c` | unwind state | raise, personality routine, rethrow | landing pads of generated code |
| code generator | `ast_codegen.rb`, `codegen_context.rb`, `runtime.rb`, `core_types.rb` | scopes, landing pads | emit code | decides which call can be rescued and where safepoints are |
| strings, integers, parser, build | | | sequential code or no state | |

What is hard here is concurrency. A program has three threads: the process's
main thread, which builds the environment and waits in `pthread_join()`; the
thread `do_main()` that runs the program; and the collector, which wakes every
500 ms. They share a lock-free list of regions, a lock-free list of threads, a
lock-free queue, per-thread flags written from a signal handler and one barrier.
The sequential part has two difficulties of its own: exceptions, whose path is
decided by code generator, unwinder and personality routine together, and the
object model, which creates itself with its own operations.
`PROJECT.json` lists the hazards line by line, with the properties that cover
them.

A program runs on tables that the compiler prints and the runtime decodes (stack
roots, landing pads), and on code whose well-formedness depends on how statements
nest; both are where one side's assumption meets the other side's layout.

What makes each component correct:

* rendezvous: the collector meets exactly the thread it signalled, that thread has
  scanned its stack, nobody is left waiting, the mark changes only in between;
* regions: one owner for every region at every time, none lost or freed twice;
* marking: no queued reference is lost, every root that the stack scans find is marked
  and so is what the collector finds from there, the scan ends;
* exceptions: an exception reaches the first matching clause of the innermost begin
  statement that has one, and ends the process only if there is none;
* sweeping: what the program holds or has just made is not taken for garbage, and
  every retired region is handled once;
* lifecycle: threads start, meet and stop in an order in which nothing is used before
  it is made or after it is gone, and the process can end;
* tables: what the reader finds is what the printer meant, for every layout;
* code generator: every block ends in one terminator inside its function, calls unwind
  to the begin statement they are written in, loops poll;
* objects: a name means what was last stored (variables, constants) or first
  defined (methods) under it, in the nearest class or scope; the bootstrap never
  uses what it has not made yet.

## Modules

* **Safepoint** - the rendezvous. The state is the fields of `struct PupThreadInfo`,
  the head of the thread list, the undelivered signals, who is inside the
  barrier, and a program counter per thread. One action per atomic access:
  `AttachLoad`/`AttachCas` are the loop of `attach_thread_to_heap()`,
  `HandleSignal` is `siguser1_handler()`, `ScanStack`, `MutatorArrive` and
  `MutatorResume` are `pup_heap_safepoint()` cut where other threads can see the
  difference, `PeriodStart` to `FinishPeriod` are `perform_gc()`. Values that the
  code leaves uninitialised (`current_gc_mark`) are arbitrary. `Pollers` are the
  threads whose code calls `pup_env_safepoint()`; the main thread does not.
* **RegionList** - the heap's memory: bump allocation, pushing a full region,
  stealing, collecting, unmapping, and `pup_heap_destroy()` with a collector
  cancelled at any of its cancellation points. `Regions` are addresses, so a freed
  region can come back from `malloc()` under a thread that still remembers it.
  `PushLoad` joins the load of the head with the store to the region's own next
  pointer, because no other thread can see that region. `chain` and `moves` are
  history variables. A local variable returns to its initial value when the call
  that declares it is over.
* **RegionPool** - the abstract specification: every region has one owner, and
  changes hands only in the order thread, list, collector, system. `RegionList`
  implements it (`ImplementsPool`).
* **Marking** - segments and the reference queue, stack scans, and the collector's
  scan of the heap while a mutator allocates and stores into objects, over any
  number of periods. `queue_for_marking` is the function of that name as an operator
  on the queue; `ScanStack`, `ScanRoot`, `FrameDone` and `Arrive` are a thread's
  safepoint, root by root and frame by frame, with the cursor and the local segment
  of `collect_stack_root_pointers()` as variables. The scan may leave frames out, as
  the code does without a word: all of them when libunwind cannot start, the rest when
  `unw_step()` fails (`Walk`), one whose map, safepoint or stack pointer is not found
  (`SkipFrame`); or it aborts on a map without the safepoint (`FindSafepointFails`).
  Any of this may happen at any frame. `stack_refs` and `missed` are history variables,
  what was in each frame and which frames were left out.
  Objects have a type (always `Class`, whose type is itself) and at most one
  attribute, and the class has none; they lie in thread-local regions, which the
  sweep does not touch. Following a null reference or an uninitialised segment
  pointer ends the process; what else such an access might do is not modelled.
* **MCMarking** - the stack and the objects of Marking's instance.
* **Collector** - one collection as a whole, with objects and attribute entries placed
  in regions. `NewRegion` to `GetAttr` are the program's thread (allocation, retiring a
  full region, `pup_iv_set()` and `pup_iv_get()` on at most one attribute per object),
  `HandleSignal` and `Safepoint` its side of the rendezvous, `PeriodStart` to
  `PeriodEnd` the collector's, down to one object per step of the sweep. `Safepoint` scans
  any part of the stack, since frames may be left out. The marking is one step,
  `ScanHeap`, which marks the references that were scanned and any part of what they
  reach: how much it really is, Marking says. `dead` is a fault: a write to a
  protected region or any use of an unmapped one. Regions are not reused, so that a
  stale reference is told from a new object.
* **MCCollector** - its symmetry set.
* **GcMap** - the words that `finishAssembly()` prints for a function (`PrintPoint`) and
  the walk of `find_safepoint()` through them (`WalkStep`); a function's roots are live
  at all of its safepoints, as LLVM's printer has them. `CodeBase` is below every code
  address and no smaller than any count, size or offset in a table.
* **Leb128** - `readULEB128` and `readSLEB128` over bytes, with 64-bit values as sets of
  bits, so that the `int` in the shift is what it is in C.
* **Lsda** - the bytes of a call-site and action table as a compiler encodes them
  (external), and `handle_lsda()`, `handle_action_value()` and `readEncodedPointer()`
  reading them, an entry or an action per step.
* **MCTables** - the three readers in one run.
* **Lifecycle** - a process from `pup_runtime_env_create()` to its exit, or to
  `pup_runtime_env_destroy()` for a client that calls it: the main thread, the program's
  thread and the collector, one action per call of the set-up, each of which may fail.
  The running program and a collection may abort or fault wherever they run (`Poll`,
  `ProgramFails`, `Collect`), for the reasons that Marking and Collector go into. `status` tells
  these from a crash: "crashed" is the use of a part of the environment that is not
  made yet or is gone, "faulted" a reference or a segment pointer that leads nowhere.
* **Codegen** - the code generator as a builder of basic blocks. The program is chosen
  while it is compiled: `open` is the stack of statements the walk is inside of, and
  any statement or expression may come next (`StatementHoles`, `ExpressionHoles`).
  `builder`, `methods` and `landingpad` are `@build`, `@current_method` and
  `@landingpad` with what they shadow. `causes` and `calls` are history variables: what
  the program's text did, to compare the blocks with.
* **RescueRules** - what the next two share: the exception classes, the begin
  statements of a program (`Begins`: for each, its clauses and their types), and the
  reference definitions of which clause catches what (`firstHit`, `Catcher`).
* **Rescue** - the abstract specification: a stack of active methods, each with the
  begin statements it is inside of; an exception is dealt with in one step.
* **Unwind** - how the generated code and the runtime do that: the landing pad each
  call is compiled with, `_Unwind_RaiseException` in its two phases (external), the
  call-site table and action of a frame (`handle_lsda`, `handle_action_value`,
  `pup_eh_personality`), the type tests of the landing pad one after the other, each
  of which may raise, and the rethrow. It implements Rescue (`ImplementsRescue`).
  Which begin statements an exception is offered to follows the code, not Ruby: only
  the innermost one of each method, as `Catcher` in RescueRules says.
* **MCUnwind** - the three begin statements of the instance.
* **Objects** - symbol table, objects with attribute lists, classes with method lists,
  superclasses and scopes. `env` is `struct RuntimeEnv` with the heap as a sequence;
  `runtime_init` is that function as a list of statements, executed one per step by
  `Bootstrap`. Afterwards a program sets and reads instance variables, defines
  classes and methods, reads constants and invokes methods, `new` among them.
  Functions of the source are operators on `env` under their own names. `ivars` and
  `defs` are history variables: they hold by name what the code finds by symbol.

**SafepointProofs**, **RegionListProofs**, **MarkingProofs**, **CollectorProofs**,
**UnwindProofs**, **CodegenProofs** and **ObjectsProofs** extend the module they are
named after with its inductive invariant and the theorems; **TableProofs** does so for
GcMap and Leb128. See "Proofs".

Operators named `X_Something` just before `X` are negative controls: plausible
mistakes in the code of `X`, each of which must violate the property named for it
in `PROJECT.json` ("mutants").

## Runs

| run | instance | shows |
|---|---|---|
| `safepoint` | 3 threads, two of which poll | `BarrierPairsCollectorWithTarget`, `ConvergedThreadsScanned`, `MarkFlipsOnlyBetweenRequests`, `MutatorReleased` |
| `regions` | 2 threads, 4 addresses, regions of one object, 2 attempts per push | `ListIsChain`, `SingleOwner`, `StealIsCurrent`, `AbortNeedsContention`, `DestroyFreesTheRest`, `PushEnds`, `ImplementsPool` |
| `marking` | class and 2 objects, a frame of 1 slot and a slot in no frame, segments of 1 | `NothingDropped`, `StackRootsMarked`, `ScanEnds` |
| `collector` | 3 cells and the main object, 3 regions of one cell, 2 stack slots | `GarbageIsOld`, `SweepComplete` |
| `lifecycle` | one process | `CrashWindows`, `HandlerReady`, `ProgramEndsProcess`, `DestroyEnds` |
| `unwind` | 3 begin statements, 3 calls deep, 2 nested begins per call | `PhasesAgree`, `AbortOutsideAllBegins`, `RaiseEnds`, `ImplementsRescue` |
| `objects` | 3 objects after the bootstrap, 2 definitions per class, one name each | `AttributesByName`, `DispatchByName`, `BootstrapComplete`, `RuntimeConstantsVisible` |
| `codegen` | programs of up to 10 blocks, 1 def, statements nested 3 deep, one local | `BrokenExactlyBy`, `CallsUnwindToTheirBegin`, `LoopsPoll` |
| `tables` | functions with up to 4 safepoints and 4 roots; numbers of up to 6 bytes; tables of 1 or 2 call sites in 3 encodings | `FoundSafepointIsRight`, `OddRootsFound`, `UnsignedExact`, `SignedExact`, `LookupAgrees`, `SitesEndWithTable` |
| `safepoint_request` | as `safepoint` | **violated**: `heap.c:426` the flag set by the handler makes the thread notify the collector |
| `marking_reachable` | as `marking` | **violated**: `heap.c:356` "now scan the rest of the heap" |
| `collector_live` | as `collector`, 2 cells | **violated**: `heap.c:292` "while we copy the live objects out" |

`safepoint`, `regions` and `marking` also check their module's `TypeOK`.

Some of these properties say exactly where the code stops working, and hold because
they do. `BrokenExactlyBy`: a function is ill-formed if and only if its program does
one of three things (a slot is needed after a method's first block was left, a rescue
clause does not end in the block it began in, a method defined in a begin body calls
something). `OddRootsFound`: the stack scan fails only for functions with an even number
of roots, and not for their first safepoint. `UnsignedExact`: numbers below 2^31 and no
others. `CrashWindows`: a part of the environment is used that is not there only when
`malloc()` failed, when the collector wakes before `pup_heap_init()` is through, on the
error path that destroys an uninitialised heap, or by signalling a joined thread. It is
no list of all the ways a process dies: a running program and a collection can abort or
follow a bad reference at any time, and do in the model. `DestroyEnds`: stopping the
collector succeeds unless the collector is in the barrier, or on its way there, when
`pthread_join()` begins; then it may wait for the very thread that stops it.

**Bounds.** Three threads are enough for an old head, a new head and a bystander
of the thread list, and for two mutators to meet in the barrier if they could.
Four addresses are enough for both threads to have a local and an outgoing region
at once, and for the collector to hold one while a freed address is reused. The
limit of 1000 attempts becomes 2 (`Limit`), `REF_QUEUE_SEGMENT_SIZE` 200 becomes 1
(`SegSize`), so that every full-segment path is taken. `REGION_SIZE`,
`MAX_REGION_ALLOCATION` and the header keep the relation the code has: the largest
object that is not refused fits a fresh region. `moves` stops counting at
`Limit + 1`. For `collector`, three cells are an object, an attribute entry and one more of either;
with regions of one cell every allocation retires a region, and three regions are one
being swept, one retired meanwhile and the thread's own. For `tables`, six bytes reach
past the 32 bits of an `int` and past its wrapped shift; the byte values are those with
the sign, continuation and boundary bits set or clear; offsets of call sites need one
and two bytes; the addresses looked up are the first and last of a site and the ones
just outside; four roots make an odd and an even number more than once, four safepoints
let a walk that is out of step go on for three. For `codegen`, ten blocks are enough for
two begin statements inside each other or an if around a begin (a begin needs four, an
if four, a while three). For `unwind`, depth 3 (`MaxDepth`) gives an exception a frame to pass
and one to be caught in, two nested begins per call (`MaxNest`) an inner and an
outer landing pad; the begin statements cover a matching, a non-matching and an
undefined type, and several clauses. For `objects`, three objects (`Extra`) are a
class, an instance of it and a class defined inside one of its methods; the class
has the name of a runtime class, so that it shadows it; the method has the name
of one of Object's. For `marking`, two objects besides the class let one refer to the
other or to itself; one slot is in
the stack's frame and the other is not, so that the program holds references that the
scan does not see. A segment holds one reference, so that the collector fills one with
each it finds. One frame is either scanned or left out; stacks of several frames,
some scanned and some not, and threads beside each other are left to the proofs of
`NothingDropped` and `StackRootsMarked`, which need no bound, in favour of a heap in
which `ScanEnds` meets cycles of two objects. The symmetry set of `collector` permutes
cells, regions and slots, which no definition tells apart; runs with a liveness property
use none.

**Fairness.** `safepoint`: weak fairness of the collector's steps; it blocks nowhere but
in the barrier, and its sleep ends. Nothing is assumed of mutators: a thread need not
poll, nor receive its signal. `regions`: weak fairness of a thread inside
`pup_heap_add_to_global_heap()`, a loop that never blocks. `marking`: weak fairness of
the collector inside `pup_gc_scan_heap()`, which never blocks either. `unwind`: weak
fairness of the steps that propagate an exception (`Propagate`), straight-line code of
one thread; nothing is assumed of the program. `lifecycle`: weak fairness of the main
thread and of the collector, which the kernel runs unless they are blocked; nothing is
assumed of the program's thread, which may loop for ever. Deadlock is not checked: the
process may abort, and the collector really does wait for ever for a thread that ended
or never polls.

## What the violated properties mean

* `gc_waiting` is cleared after the barrier, so the next request can be wiped out;
  the collector then waits for ever (`RequestNotForgotten`).
* `state->current_segment` is not queued at the end of a scan (`RestOfHeapScanned`): what
  the collector found in the objects it marked, in the run their class, is left there
  unmarked. The property is about what the collector found, no more. That it finds
  everything reachable is stated nowhere here, because it does not, for three more
  reasons: there is no write barrier against a mutator that moves a reference behind
  the scan; an object allocated with the live mark is taken for visited; and an object
  left unmarked in one period has the live mark of the next, because the mark is one bit
  that flips.
* `copy_live_object()` is empty, so the sweep unmaps objects that the scan found and the
  program still holds (`LiveObjectsSurvive`).

Other differences between the code and what it says, visible in the models but not
runs of their own:

* `attach_thread_to_heap()` never links the thread list, so only the thread attached
  last is stopped and scanned, where `heap.c:356` says all threads are (Safepoint,
  `AttachCas`).
* `pup_gc_scan_stack()` has no result, and where it cannot start or cannot read a frame it
  returns as it does after a scan (`gc.c:182`, `199`, `205`, `214`, `218`). The thread meets
  the collector all the same, where `heap.c:356` says that all threads have "scanned their
  stacks for 'root' references, and added them to a reference queue" (Marking, `Walk` and
  `SkipFrame`). `StackRootsMarked` says that the references of these frames are all that is
  lost.
* `gc.c:169` says `state->current_segment` has a valid value where it is used;
  `pup_gc_state_create()` leaves it uninitialised (Marking, `Init` and `Crash`).
* The rethrow at the end of a landing pad is a plain call, so an exception that no
  clause of an inner begin statement matches is not offered to the outer begin
  statements of the same method (RescueRules, `Catcher`); the process may abort where
  `raise.c:72` calls that unexpected.
* `runtime_init()` gives the methods of Class to Object (`class.h:48`: "Bootstrap the
  Class class"), so `new` is found on every object and reads class fields that are not
  there (Objects, `CanCreateClass`).

## Proofs

Eight modules prove what the runs check, for every value of the constants and every
interleaving. Each has an inductive invariant `Inv`, a conjunction of named parts,
the lemmas that `Init` implies it and every action preserves it, the theorem
`InvHolds`, and the theorems about the properties, which follow from it. CodegenProofs
and ObjectsProofs have further invariants, each inductive given the ones before. The
assumptions are the `ASSUME` of the module proved about and nothing else; they are
evaluated by TLC in the runs. They fix no bound: sets are arbitrary, and numbers such
as `MaxDepth` or `SegSize` any natural number the code could have.

| module | theorem | states |
|---|---|---|
| SafepointProofs | `TypeCorrect`, `BarrierPairing`, `ConvergedScanned`, `MarkFlips` | `TypeOK`, `BarrierPairsCollectorWithTarget`, `ConvergedThreadsScanned`, the action property `MarkFlipsOnlyBetweenRequests` |
| RegionListProofs | `TypeCorrect`, `ListSound`, `SingleOwnership`, `StealCurrent`, `AbortByContention`, `DestroyComplete` | `TypeOK`, `ListIsChain`, `SingleOwner`, `StealIsCurrent`, `AbortNeedsContention`, `DestroyFreesTheRest` |
| | `PoolRefinement` | `ImplementsPool`: RegionList implements RegionPool |
| MarkingProofs | `TypeCorrect`, `NothingEverDropped`, `RootsMarked` | `TypeOK`, `NothingDropped`, `StackRootsMarked` |
| CollectorProofs | `GarbageOld`, `SweepIsComplete` | `GarbageIsOld`, `SweepComplete` |
| TableProofs | `FoundIsRight`, `OddFound` | `FoundSafepointIsRight`, `OddRootsFound` |
| | `UnsignedRead`, `SignedRead` | `UnsignedExact`, `SignedExact` |
| UnwindProofs | `PhasesAlwaysAgree`, `AbortsOutside` | `PhasesAgree`, `AbortOutsideAllBegins` |
| | `UnwindImplementsRescue` | `ImplementsRescue`: Unwind implements Rescue |
| | `TestsSound`, `Landings` | no landing pad reads past its clauses; the action property `LandsInnermost` |
| CodegenProofs | `CallsUnwind` | `CallsUnwindToTheirBegin` |
| | `BrokenExactly`, from `FlowHolds` | `BrokenExactlyBy` |
| | `LoopsAlwaysPoll`, from `PollsHold` | `LoopsPoll` |
| | `StacksSound` | the generator's stacks never run empty and name blocks that exist |
| ObjectsProofs | `AttributesAlwaysByName` | `AttributesByName` |
| | `DispatchAlwaysByName`, from `ClassesHold` | `DispatchByName` |
| | `BootstrapAlwaysComplete`, from `BootHolds` | `BootstrapComplete` |
| | `RuntimeConstantsAlwaysVisible`, from `ConstsHold` | `RuntimeConstantsVisible` |

**SafepointProofs.** Assumed: main is a thread, the collector and null are not. `Inv`
adds what the code relies on without saying it:

* `ListInv`: the collector only knows threads that have finished attaching, so a
  thread cannot be signalled before its flag and mark exist;
* `BarrierInv`: who is inside the barrier is at the call that put it there;
* `SignalInv`: a signal in flight goes to a thread whose flag is clear or about to
  be cleared, and a thread that answers has no second signal in flight. Without it
  a thread could answer one request twice;
* `MarkInv`: a thread that has seen the request has the period's mark, one that has
  answered has scanned, and one the collector has just met is up to date.

When the collector signals, nobody owes it anything, so the barrier is empty and the
mark cannot flip until the signalled thread has answered; whoever finds the barrier
occupied therefore finds the other party of the same rendezvous.

**RegionListProofs.** Assumed: null is no region, and an object that is not refused fits
a fresh region. `ThreadInv`, `CollectorInv` and `DestroyInv` say what each party's
locals hold at each point of its code (a thread has a second region exactly while it
pushes, and the fresh one is empty and large enough meanwhile). `ContentionInv` is
what `AbortNeedsContention` needs: a compare-and-swap that is going to fail has seen
one more update of the list than there were failures before. The ABA argument is in
`StealIsCurrent`: only the collector takes regions off the list, so a region it loaded
stays on it, and threads only ever write the next pointer of a region that is not.
The refinement maps each region to its owner (`owner`); `SingleOwner` makes that a
function, and each step changes the owner of at most one region, or none, with one
lemma per action.

**MarkingProofs.** Assumed: segments hold at least one reference, and the null and the
uninitialised segment are no segments. `WaitInv`: while a thread scans its stack the
collector waits for it and nobody else uses the queue. `StackInv` is the heart: a
reference in a frame that is not left out is yet to be scanned, marked, in the queue or
in the segment being scanned, never only in `state->current_segment`, the one that is
not queued at the end of a scan. That is why the roots of scanned frames are safe
although `RestOfHeapScanned` fails. It is stated frame by frame: a root is ahead of the
walk (`InScan`) until its frame is scanned or left out, and a step of the walk leaves
out whatever it passes without scanning (`Walked`, `WalkKeeps`). `VisitInv` says the
same of what the collector queues, with `current_segment` allowed.

**CollectorProofs.** Assumed: addresses are distinct and a region holds at least one
cell. `MarkInv`: from the signal on, the program's thread allocates with the live mark,
so what it makes or had on its stack carries that mark until the period ends.
`CellsApart` and `RegionsApart` place every cell in one region and every region in one
party's hands; `SweepInv` and `CountInv` say which regions are done and that the two
counters are the cells before the sweep's position, from which `SweepComplete` follows
when the list has been emptied.

**TableProofs.** Assumed: a count, size or offset is below every code address. The
printer's part of `Inv` gives each word of the image (`PlacesInv`, `WordsInv`); `WalkInv`
says that the walk is on a safepoint as long as the number of roots is odd. With an even
number the walk goes out of step; it still cannot return a wrong safepoint because no
word but the first of a safepoint is as large as a code address. For Leb128, whose
assumption is that bytes are bytes, the reader's union over bytes is compared with
DWARF's bit by bit: a byte that is shifted within the 31 bits of an `int` lands where it
should, and of the bits that are not, bit 31 is spread over the upper half and the others
are wrapped round or dropped. A number that needs them is never decoded right, because
a bit above 31 is either missing or comes with all of 31 to 63, and a number below 2^63
does not have bit 63.

**UnwindProofs.** Assumed: begin statements have clauses with types, and the stack's
bound is positive. `SitesInnermost`: the call site a frame stands at is that of the
innermost begin statement it is in. `CursorInv`: the call of every frame the unwinder
has passed has no landing pad, and in cleanup the handler's has one. The search
phase stops at a frame with a handler, cleanup at a frame with any action; the invariant
says that these are the same frames here.

`UnwindImplementsRescue` maps an exception that is being propagated to the stack that
`Unwound` says it will leave (`settled`), so that a step of the program is a step of
Rescue and every step of the unwinder, a landing pad or a rethrow is a stutter. It
rests on three more facts, `RescueInv`: what propagates is an exception class, a
suspended method is in ordinary code or a rescue clause, and the type tests of a
landing pad have come past no type that matches or raises. The equations of the
recursive `Catcher` are derived from the existence and uniqueness of the function that
its recursion defines (`CatchExists`, `CatchUnique`, `CatcherRec`), by the least
natural number that would be a counterexample. From these come the lemmas that the
stutters need: an exception passes methods that are in no begin statement
(`UnwoundPasses`), a begin statement keeps it, replaces it or leaves it to the caller
(`UnwoundInto`), and only the begin statements on its way matter (`UnwoundSame`).

**CodegenProofs.** Assumed: the bounds are natural numbers. `StacksInv` relates the
height of each of the generator's stacks to the number of open statements that pushed
on it, so it has a lemma on how that number changes when a statement is opened or
closed; `PadInv` says for each open statement what `@landingpad` will be when the walk
is back in it: the pad of the innermost begin body around it, with no def in between.
`CallsInv` carries that over to the calls already generated.

`FlowInv`, for `BrokenExactlyBy`, accounts for the code that is not finished: a block
without a terminator is the one the generator is at, or waits for exactly one open
statement, which adds the terminator (`WaitInv`, `UnclosedInv`); every instruction after
a terminator and every branch out of a function has a cause (`LateInv`, `TargetInv`), and
every cause shows in the blocks, at once or, for a clause that ended in another block
than it began in, when the begin statement is closed (`EvidenceInv`). The rest says where
blocks are: in which function (`FnInv`, `OwnInv`), after its first (`FirstInv`), and
whose landing pad is active (`PadFnInv`). An error that the generator raises ends it
with some function incomplete, and leaves the complete ones as they were.

`PollInv`, for `LoopsPoll`, is a ranking of the blocks: every branch leads to a lower
rank unless its block polls, so that in a set of blocks that do not poll the one of the
lowest rank branches to none of them. An order by number would not do, because code
branches to blocks made before and after it. Rather, blocks still open have no
branches, so that their ranks can be lowered when something is to branch to them; only
the type tests of a rescue clause branch to blocks that have been left already, and
their ranks are reserved while the clauses are being written (`TestTo`).

**ObjectsProofs.** Nothing is assumed. `SymbolsInv`: a symbol is the position of its
entry in the table, so that different names have different symbols. `AttrsInv`: an
attribute carries a symbol of the table; without it an attribute could be found under a
name that is interned only later. `BoundInv`: nothing is bound yet when `obj_init()`
empties the attributes of the two classes made by hand. Every function of the runtime
is shown either to keep what is found under every name (`Keeps`) or to store one value
under one name of one object (`Stores`); the actions are compositions of these. The
bootstrap ends with the main object (`MainInv`), which is the self of the
program. The lists of attributes need not be free of duplicates for this: a store
overwrites the attribute that a search finds.

* `ClassesInv`, for `DispatchByName`: a class is younger than its superclass and its
  scope, and its method list holds the names that `defs` has for it, the first
  definition of each first. The walks of `find_method_in_classes()`,
  `pup_const_get()` and the reference `Superclasses` are recursions along a pointer to
  a lower number; the lemmas `FindWalk`, `GetWalk` and `UpWalk` show that they satisfy
  their recursive equations, by the least object where they would not (`Least`), and
  what follows from the equations is shown in the same way. `Extends` is to classes
  what `Keeps` is to attributes. `Summary` is all that a step of the program can do to
  classes and constants, with one lemma per action.
* `BootInv`, for `BootstrapComplete`. `RuntimeOrder` is about the list `runtime_init`
  itself: no statement uses a field that is not set before it or sets one twice, and
  `new`, `allocate` and `initialize` are methods of Object before the first class is
  created with them. `BootInv` ties the environment to that: after a statement the
  fields that are set are the ones set so far (`FieldsInv`), Class inherits from Object
  and is its own type (`RootsInv`), and Class has no methods of its own, so that the
  search for these three ends at Object with the runtime's functions (`SeedInv`).
* `ConstInv`, for `RuntimeConstantsVisible`: Object has the constants bound so far,
  and the scope of a class of the program is Object or a class of the program, all of
  type Class. A self is never a class, since its type is one, so instance variables
  never land among the constants; the only other store in a class is that of a class
  definition.

### Only model-checked

* Liveness (`MutatorReleased`, `PushEnds`, `ScanEnds`, `RaiseEnds`,
  `ProgramEndsProcess`, `DestroyEnds`): temporal reasoning under fairness is out of the
  prover's reach.
* `LookupAgrees`, `SitesEndWithTable`: the reader's position in a table is a fold over the
  entries before it, whose values cannot be had without induction over the entries.
* `CrashWindows`, `HandlerReady`: Lifecycle has no constants, so TLC's run is already
  exhaustive.

## What the models leave out

Unwind and Objects have only programs that the code generator compiles to well-formed
code, as `BrokenExactlyBy` describes them. A begin statement has a rescue clause; the
code of a clause is one basic block; types in a clause are constants. In a class body,
self is a pointer to another type than the runtime functions take, `pup_define_method()`
excepted, so a body only defines methods, and methods are defined nowhere else. Unwind
takes the tables of a function as decoded and leaves out foreign exceptions, which
nothing in the runtime throws; Lsda has both. Codegen does not tell instructions or LLVM
types apart: a value of the wrong type is not seen. Lsda has no pointers that are
indirect or relative to a section; LLVM's tables for this target use none. Copying
objects (`pup_gc_alloc_for_copy()`, the `gc_copy` functions) is dead code: nothing calls
it. A string's contents do not matter: the message of an exception is shown as the
exception itself. What happens after a null or an ill-typed pointer has been followed is
not modelled; the model stops there.

Left out for good: the parser (a grammar), strings and integers (sequential
wrappers), the build and the tests.

## State of the project

The runs check 40 properties and three statements of the source that do not hold; all
safety properties but those listed above as only model-checked are proved for every value
of the constants.
