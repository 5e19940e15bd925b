----------------------------- MODULE Collector ------------------------------
(***************************************************************************)
(* One collection as a whole, heap.c, gc.c and object.c: the program's     *)
(* thread allocates objects and attribute entries in its own region,       *)
(* retires the region when it is full and keeps reading and writing; the   *)
(* collector meets it at a safepoint, marks, and then takes every retired  *)
(* region, protects it, counts its objects and unmaps it.  The rendezvous, *)
(* the region list and the marking are modelled step by step in modules    *)
(* Safepoint, RegionList and Marking; here each is one step, and what is   *)
(* told apart is where an object lies and what becomes of it.              *)
(***************************************************************************)
EXTENDS Naturals, Sequences, FiniteSets, SequencesExt

CONSTANTS
  Cells,    \* addresses for objects and attribute entries
  Self,     \* the main object, made by the main thread in a region never retired
  Regions,  \* the regions mmap() can return
  Cap,      \* how many cells fit a region
  Slots,    \* the stack slots of the program's thread
  Null      \* a null pointer

ASSUME CollectorAssumption ==
  /\ Self \notin Cells /\ Null \notin Cells \cup {Self} \cup Regions
  /\ Cap \in Nat \ {0}
  /\ Regions # {}

VARIABLES
  content,          \* the cells of each region, in the order of their addresses
  kind,             \* "obj" or "attr": HeapObject.kind
  ref,              \* an object's attr_list_head, or an entry's value
  gc_mark,          \* obj->gc_mark
  roots,            \* the references on the thread's stack
  local_region,     \* tinfo->local_region
  region_list,      \* the regions from heap->region_list on
  read_only,        \* the regions mprotect()ed by prevent_mutator_access()
  unmapped,         \* the regions munmap()ed by free_region()
  current_gc_mark,  \* tinfo->current_gc_mark
  gc_waiting,       \* tinfo->gc_waiting
  live_mark_value,  \* state->live_mark_value
  live_count,       \* state->live_count
  garbage_count,    \* state->garbage_count
  pc,               \* where the program's thread is
  old_region,       \* the full region it is retiring
  link,             \* the object that pup_iv_set() is adding an entry to
  gc,               \* where the collector thread is
  region,           \* the region being collected
  addr,             \* the index of the next cell in it
  dead,             \* the process was killed by an invalid access
  stack_refs,       \* history: what the thread scanned at this period's safepoint
  fresh,            \* history: cells allocated since this period's signal
  retired,          \* history: the regions on the list when marking began
  swept,            \* history: the regions stolen this period
  garbage           \* history: the objects counted as garbage this period

heapVars    == <<content, kind, ref, gc_mark>>
regionVars  == <<local_region, region_list, read_only, unmapped>>
markVars    == <<current_gc_mark, gc_waiting, live_mark_value>>
countVars   == <<live_count, garbage_count, garbage>>
mutatorVars == <<pc, old_region, link>>
sweepVars   == <<gc, region, addr>>
history     == <<stack_refs, fresh, retired, swept>>
vars == <<heapVars, roots, regionVars, markVars, countVars, mutatorVars, sweepVars,
          dead, history>>

Allocated == UNION {ToSet(content[r]) : r \in Regions}
Region(c) == CHOOSE r \in Regions : c \in ToSet(content[r])
In(c, rs) == c # Self /\ Region(c) \in rs    \* Self lies in another region

\* do_main() has attached its thread, with a region of its own.
Init ==
  /\ content = [r \in Regions |-> <<>>]
  /\ kind = [c \in Cells \cup {Self} |-> "obj"]
  /\ ref = [c \in Cells \cup {Self} |-> Null]
  /\ gc_mark = [c \in Cells \cup {Self} |-> 0]
  /\ roots = [s \in Slots |-> Self]
  /\ local_region \in Regions
  /\ region_list = <<>> /\ read_only = {} /\ unmapped = {}
  /\ current_gc_mark \in {0, 1}    \* attach_thread() does not set it
  /\ gc_waiting = FALSE /\ live_mark_value = 0
  /\ live_count = 0 /\ garbage_count = 0 /\ garbage = {}
  /\ pc = "run" /\ old_region = Null /\ link = Null
  /\ gc = "sleep" /\ region = Null /\ addr = 1
  /\ dead = FALSE
  /\ stack_refs = {} /\ fresh = {} /\ retired = {} /\ swept = {}

-----------------------------------------------------------------------------
(* The program's thread.                                                   *)

Full(r) == Len(content[r]) = Cap

\* The thread's handler has run in the period that is under way.
SinceSignal == gc # "sleep" /\ (gc = "converge" => gc_waiting)

\* thread_local_alloc() without room: a new region becomes the thread's ...
NewRegion ==
  /\ pc = "run" /\ Full(local_region)
  /\ \E r \in Regions \ ({local_region} \cup ToSet(region_list) \cup unmapped \cup {region}) :
       local_region' = r
  /\ old_region' = local_region
  /\ pc' = "push"
  /\ UNCHANGED <<heapVars, roots, region_list, read_only, unmapped, markVars, countVars,
                 link, sweepVars, dead, history>>

\* ... and pup_heap_add_to_global_heap() retires the full one.
PushRegion ==
  /\ pc = "push"
  /\ region_list' = <<old_region>> \o region_list
  /\ old_region' = Null
  /\ pc' = "room"
  /\ UNCHANGED <<heapVars, roots, local_region, read_only, unmapped, markVars, countVars,
                 link, sweepVars, dead, history>>

\* The allocation proper: a cell of kind k, holding v, with the thread's mark.
MakeRoom(c, k, v) ==
  /\ pc \in {"run", "room"} /\ ~Full(local_region)
  /\ content' = [content EXCEPT ![local_region] = Append(@, c)]
  /\ kind' = [kind EXCEPT ![c] = k]
  /\ ref' = [ref EXCEPT ![c] = v]
  /\ gc_mark' = [gc_mark EXCEPT ![c] = current_gc_mark]
  /\ fresh' = IF SinceSignal THEN fresh \cup {c} ELSE fresh

AllocObject ==
  /\ \E c \in Cells \ Allocated, s \in Slots :
       /\ MakeRoom(c, "obj", Null)
       /\ roots' = [roots EXCEPT ![s] = c]
  /\ pc' = "run"
  /\ UNCHANGED <<regionVars, markVars, countVars, old_region, link, sweepVars, dead,
                 stack_refs, retired, swept>>

\* pup_iv_set() on an object without an attribute: create_attr() ...
AllocAttr ==
  /\ \E s, v \in Slots :
       /\ roots[s] # Null /\ ~In(roots[s], unmapped) /\ ref[roots[s]] = Null
       /\ \E c \in Cells \ Allocated : MakeRoom(c, "attr", roots[v]) /\ link' = <<roots[s], c>>
  /\ pc' = "link"
  /\ UNCHANGED <<roots, regionVars, markVars, countVars, old_region, sweepVars, dead,
                 stack_refs, retired, swept>>

\* ... and the store to attr_list_head.  No handler is installed for the fault
\* of a write to a protected or unmapped page: it kills the process.
LinkAttr ==
  /\ pc = "link"
  /\ IF In(link[1], read_only \cup unmapped)
     THEN dead' = TRUE /\ UNCHANGED <<ref, link, pc>>
     ELSE /\ ref' = [ref EXCEPT ![link[1]] = link[2]]
          /\ link' = Null /\ pc' = "run" /\ UNCHANGED dead
  /\ UNCHANGED <<content, kind, gc_mark, roots, regionVars, markVars, countVars,
                 old_region, sweepVars, history>>

\* pup_iv_set() on an object whose attribute exists.
SetAttr ==
  /\ pc = "run"
  /\ \E s, v \in Slots :
       /\ roots[s] # Null /\ ~In(roots[s], unmapped) /\ ref[roots[s]] # Null
       /\ IF In(ref[roots[s]], read_only \cup unmapped)
          THEN dead' = TRUE /\ UNCHANGED ref
          ELSE ref' = [ref EXCEPT ![ref[roots[s]]] = roots[v]] /\ UNCHANGED dead
  /\ UNCHANGED <<content, kind, gc_mark, roots, regionVars, markVars, countVars,
                 mutatorVars, sweepVars, history>>

\* pup_iv_get(): NULL for a missing attribute.
GetAttr ==
  /\ pc = "run"
  /\ \E s, v \in Slots :
       /\ roots[s] # Null /\ ~In(roots[s], unmapped)
       /\ ref[roots[s]] # Null => ~In(ref[roots[s]], unmapped)
       /\ roots' = [roots EXCEPT ![v] =
            IF ref[roots[s]] = Null THEN Null ELSE ref[ref[roots[s]]]]
  /\ UNCHANGED <<heapVars, regionVars, markVars, countVars, mutatorVars, sweepVars, dead,
                 history>>

\* Any use of an object or entry whose region is gone.
ReadUnmapped ==
  /\ pc = "run"
  /\ \E s \in Slots :
       /\ roots[s] # Null
       /\ \/ In(roots[s], unmapped)
          \/ ref[roots[s]] # Null /\ In(ref[roots[s]], unmapped)
  /\ dead' = TRUE
  /\ UNCHANGED <<heapVars, roots, regionVars, markVars, countVars, mutatorVars, sweepVars,
                 history>>

\* Negative control: the handler forgets to copy the mark.
HandleSignal_KeepsMark ==
  /\ gc = "converge" /\ ~gc_waiting
  /\ gc_waiting' = TRUE
  /\ UNCHANGED <<heapVars, roots, regionVars, current_gc_mark, live_mark_value, countVars,
                 mutatorVars, sweepVars, dead, history>>

\* siguser1_handler(), at any point of the thread's code.
HandleSignal ==
  /\ gc = "converge" /\ ~gc_waiting
  /\ gc_waiting' = TRUE
  /\ current_gc_mark' = live_mark_value
  /\ UNCHANGED <<heapVars, roots, regionVars, live_mark_value, countVars, mutatorVars,
                 sweepVars, dead, history>>

\* pup_heap_safepoint() in the program's code, and the barrier.  The scan of the
\* stack may leave frames out (module Marking).
Safepoint ==
  /\ pc = "run" /\ gc_waiting
  /\ \E scanned \in SUBSET Slots : stack_refs' = {roots[s] : s \in scanned}
  /\ retired' = ToSet(region_list)
  /\ gc_waiting' = FALSE
  /\ gc' = "mark"
  /\ UNCHANGED <<heapVars, roots, regionVars, current_gc_mark, live_mark_value, countVars,
                 mutatorVars, region, addr, dead, fresh, swept>>

-----------------------------------------------------------------------------
(* The collector.                                                          *)

\* pup_gc_period_start()
PeriodStart ==
  /\ gc = "sleep"
  /\ live_mark_value' = 1 - live_mark_value
  /\ live_count' = 0 /\ garbage_count' = 0
  /\ gc' = "converge"
  /\ garbage' = {} /\ stack_refs' = {} /\ fresh' = {} /\ retired' = {}
  /\ swept' = {}
  /\ UNCHANGED <<heapVars, roots, regionVars, current_gc_mark, gc_waiting, mutatorVars,
                 region, addr, dead>>

\* What is reachable from the scanned references.
Values(os) == {ref[ref[o]] : o \in {o \in os : ref[o] # Null}} \ {Null}
Reached    ==
  LET Within[n \in Nat] == IF n = 0 THEN stack_refs \ {Null}
                           ELSE Within[n - 1] \cup Values(Within[n - 1])
  IN Within[Cardinality(Cells)]

\* pup_gc_scan_heap() marks the scanned references and some of what they reach
\* (module Marking says how much), unless it meets a null or a swept reference.
ScanHeap ==
  /\ gc = "mark"
  /\ \E marked \in SUBSET Reached :
       /\ stack_refs \ {Null} \subseteq marked
       /\ IF \/ Null \in stack_refs
             \/ \E o \in marked : In(o, unmapped) \/ (ref[o] # Null /\ In(ref[o], unmapped))
          THEN dead' = TRUE /\ UNCHANGED <<gc_mark, gc>>
          ELSE /\ gc_mark' = [c \in DOMAIN gc_mark |->
                                IF c \in marked THEN live_mark_value ELSE gc_mark[c]]
               /\ gc' = "steal" /\ UNCHANGED dead
  /\ UNCHANGED <<content, kind, ref, roots, regionVars, markVars, countVars, mutatorVars,
                 region, addr, history>>

\* collect_unmarked_objects(): steal_heap_region() until there is none ...
Steal ==
  /\ gc = "steal"
  /\ IF region_list = <<>>
     THEN gc' = "end" /\ UNCHANGED <<region, region_list, swept>>
     ELSE /\ gc' = "protect" /\ region' = Head(region_list)
          /\ swept' = swept \cup {Head(region_list)}
          /\ region_list' = Tail(region_list)
  /\ UNCHANGED <<heapVars, roots, local_region, read_only, unmapped, markVars, countVars,
                 mutatorVars, addr, dead, stack_refs, fresh,
                 retired>>

\* ... prevent_mutator_access() ...
Protect ==
  /\ gc = "protect"
  /\ read_only' = read_only \cup {region}
  /\ addr' = 1
  /\ gc' = "collect"
  /\ UNCHANGED <<heapVars, roots, local_region, region_list, unmapped, markVars, countVars,
                 mutatorVars, region, dead, history>>

\* Negative control: attribute entries are counted as objects.
Count_Attrs(c) ==
  IF gc_mark[c] = live_mark_value
  THEN live_count' = live_count + 1 /\ UNCHANGED <<garbage_count, garbage>>
  ELSE /\ garbage_count' = garbage_count + 1
       /\ garbage' = garbage \cup {c} /\ UNCHANGED live_count

\* collect_heap_object(): pup_object_gc_collect() counts an object by its mark;
\* copy_live_object() does nothing.  An attribute entry is only logged.
Count(c) ==
  IF kind[c] = "attr" THEN UNCHANGED countVars
  ELSE IF gc_mark[c] = live_mark_value
  THEN live_count' = live_count + 1 /\ UNCHANGED <<garbage_count, garbage>>
  ELSE /\ garbage_count' = garbage_count + 1
       /\ garbage' = garbage \cup {c} /\ UNCHANGED live_count

CollectObject ==
  /\ gc = "collect" /\ addr <= Len(content[region])
  /\ Count(content[region][addr])
  /\ addr' = addr + 1
  /\ UNCHANGED <<heapVars, roots, regionVars, markVars, mutatorVars, gc, region, dead,
                 history>>

\* ... and, after the last object, free_region().
FreeRegion ==
  /\ gc = "collect" /\ addr > Len(content[region])
  /\ unmapped' = unmapped \cup {region}
  /\ region' = Null
  /\ gc' = "steal"
  /\ UNCHANGED <<heapVars, roots, local_region, region_list, read_only, markVars, countVars,
                 mutatorVars, addr, dead, history>>

\* pup_gc_period_end()
PeriodEnd ==
  /\ gc = "end"
  /\ gc' = "sleep"
  /\ UNCHANGED <<heapVars, roots, regionVars, markVars, countVars, mutatorVars, region,
                 addr, dead, history>>

-----------------------------------------------------------------------------
MutatorStep ==
  \/ NewRegion \/ PushRegion \/ AllocObject \/ AllocAttr \/ LinkAttr
  \/ SetAttr \/ GetAttr \/ ReadUnmapped \/ HandleSignal \/ Safepoint

CollectorStep ==
  \/ PeriodStart \/ ScanHeap \/ Steal \/ Protect \/ CollectObject \/ FreeRegion
  \/ PeriodEnd

Next == ~dead /\ (MutatorStep \/ CollectorStep)

Spec == Init /\ [][Next]_vars

-----------------------------------------------------------------------------
(* Properties.                                                             *)

ObjectsIn(rs) == {c \in UNION {ToSet(content[r]) : r \in rs} : kind[c] = "obj"}

\* The collector counts as garbage only what is older than the period and was
\* not found on the stack: an object in a frame that was scanned at the safepoint,
\* or allocated since the thread's signal arrived, is never among the garbage,
\* wherever the signal, the retirement of its region and the sweep fell.
GarbageIsOld == garbage \cap (stack_refs \cup fresh) = {}

\* The sweep neither skips nor repeats a region or an object, although threads
\* go on retiring regions: at its end every region that was retired when the
\* marking began is unmapped, and the counts are those of the unmapped regions.
SweepComplete ==
  gc = "end" =>
    /\ retired \subseteq swept /\ swept \subseteq unmapped
    /\ live_count + garbage_count = Cardinality(ObjectsIn(swept))

-----------------------------------------------------------------------------
(* What the comments of heap.c say, and the code does not do.              *)

\* heap.c, prevent_mutator_access(): the region is protected "while we copy the
\* live objects out".  What the scan of a thread's stack found, and the thread
\* still holds, is there after the sweep.
LiveObjectsSurvive ==
  \A s \in Slots : roots[s] \in stack_refs \ {Null} => ~In(roots[s], unmapped)
=============================================================================
