---------------------------- MODULE RegionList ------------------------------
(***************************************************************************)
(* The heap's memory, heap.c: every mutator thread bump-allocates in a     *)
(* region of its own; a full region is pushed with compare-and-swap onto   *)
(* the global list heap->region_list, from which the collector thread      *)
(* steals regions, collects them and unmaps them; pup_heap_destroy() stops *)
(* the collector and frees what is left.  Which objects survive is not     *)
(* told apart here (modules Safepoint and Marking), only who may touch     *)
(* which region.                                                           *)
(***************************************************************************)
EXTENDS Naturals, Sequences

CONSTANTS
  Threads,     \* the mutator threads
  Main,        \* the one that called pup_heap_init()
  Regions,     \* the addresses malloc() and mmap() can return for a region
  Null,        \* the null struct PupHeapRegion *
  RegionSize,  \* REGION_SIZE
  MaxAlloc,    \* MAX_REGION_ALLOCATION
  Header,      \* sizeof(struct HeapObject)
  Sizes,       \* the object sizes requested from pup_heap_alloc()
  Limit        \* attempts of pup_heap_add_to_global_heap(), 1000 in the code

ASSUME HeapAssumption ==
  /\ Main \in Threads
  /\ Null \notin Regions \cup Threads
  /\ {"unmapped", "listed", "collector"} \cap Threads = {}
  /\ RegionSize \in Nat /\ MaxAlloc \in Nat /\ Header \in Nat
  /\ MaxAlloc + Header <= RegionSize
  /\ Sizes \subseteq Nat
  /\ Limit \in Nat \ {0}

VARIABLES
  region_list,   \* heap->region_list
  next,          \* region->next
  allocated,     \* region->allocated, as an offset from region->region
  mapped,        \* the regions that are allocated and not yet freed
  local_region,  \* tinfo->local_region
  pc,            \* where each mutator thread is
  old_region,    \* the full region a thread is pushing
  old_head,      \* the local old_head of pup_heap_add_to_global_heap()
  limit,         \* the local limit of pup_heap_add_to_global_heap()
  request,       \* the size thread_local_alloc() was asked for
  gc,            \* where the collector thread is
  gc_r,          \* the locals r and next of steal_heap_region(), and the
  gc_next,       \*   region of collect_unmarked_objects()
  tail,          \* the local tail of destroy_global_heap()
  aborted,       \* the process has called abort()
  chain,         \* history: the regions on the list, last element pushed last
  moves          \* history: updates of region_list since a push began

threadVars == <<local_region, pc, old_region, old_head, limit, request>>
gcVars     == <<gc, gc_r, gc_next>>
vars == <<region_list, next, allocated, mapped, threadVars, gcVars, tail,
          aborted, chain, moves>>

RegionOrNull == Regions \cup {Null}
ThreadPC     == {"new", "run", "load", "cas", "exited", "join", "destroy", "destroyed"}
CollectorPC  == {"idle", "load", "next", "cas", "collect", "free", "stopped"}
Pushing(t)   == pc[t] \in {"load", "cas"}

Init ==
  /\ region_list = Null
  /\ next = [r \in Regions |-> Null]
  /\ allocated = [r \in Regions |-> 0]
  /\ mapped = {}
  /\ local_region = [t \in Threads |-> Null]
  /\ pc = [t \in Threads |-> "new"]
  /\ old_region = [t \in Threads |-> Null]
  /\ old_head = [t \in Threads |-> Null]
  /\ limit = [t \in Threads |-> Limit]
  /\ request = [t \in Threads |-> 0]
  /\ gc = "idle" /\ gc_r = Null /\ gc_next = Null
  /\ tail = Null
  /\ aborted = FALSE
  /\ chain = <<>>
  /\ moves = [t \in Threads |-> 0]

Goto(t, label) == pc' = [pc EXCEPT ![t] = label]

-----------------------------------------------------------------------------
(* Regions.                                                                *)

\* pup_heap_region_allocate(): an empty region at any address not in use.
region_allocate(r) ==
  /\ r \in Regions \ mapped
  /\ mapped' = mapped \cup {r}
  /\ next' = [next EXCEPT ![r] = Null]
  /\ allocated' = [allocated EXCEPT ![r] = 0]

\* munmap() and free(): the addresses may be returned by the next allocation.
\* What the struct held is gone, which the model records as a null next.
unmap(r) ==
  /\ mapped' = mapped \ {r}
  /\ next' = [next EXCEPT ![r] = Null]

alloc_size_for(size) == size + Header

\* Negative control: the header is forgotten.
have_room_for_NoHeader(r, size) == allocated[r] + size <= RegionSize

\* pup_heap_region_have_room_for()
have_room_for(r, size) == allocated[r] + alloc_size_for(size) <= RegionSize

\* pup_heap_region_make_room_for()
make_room_for(r, size) ==
  allocated' = [allocated EXCEPT ![r] = @ + alloc_size_for(size)]

\* A successful update of heap->region_list, as the other threads count it.
HeadMoved(by) ==
  moves' = [t \in Threads |->
              IF t = by THEN 0
              ELSE IF Pushing(t) /\ moves[t] <= Limit THEN moves[t] + 1
              ELSE moves[t]]

-----------------------------------------------------------------------------
(* Mutator threads.                                                        *)

\* pup_heap_thread_init(); the main thread's call comes first, from
\* pup_heap_init(), and no thread is started once the main one has returned.
ThreadInit(t) ==
  /\ pc[t] = "new"
  /\ t = Main \/ pc[Main] = "run"
  /\ \E r \in Regions :
       /\ region_allocate(r)
       /\ local_region' = [local_region EXCEPT ![t] = r]
  /\ Goto(t, "run")
  /\ UNCHANGED <<region_list, old_region, old_head, limit, request, gcVars, tail,
                 aborted, chain, moves>>

\* pup_heap_alloc() refuses a large object, and thread_local_alloc() (and
\* pup_heap_thread_init()) a thread that cannot get a region: abort().
AllocFails(t) ==
  /\ \/ pc[t] = "new" /\ (t = Main \/ pc[Main] = "run")
     \/ /\ pc[t] = "run"
        /\ \E size \in Sizes :
             size > MaxAlloc \/ ~have_room_for(local_region[t], size)
  /\ aborted' = TRUE
  /\ UNCHANGED <<region_list, next, allocated, mapped, threadVars, gcVars, tail,
                 chain, moves>>

\* thread_local_alloc() with room in the thread's region.
AllocLocal(t, size) ==
  /\ pc[t] = "run"
  /\ size <= MaxAlloc
  /\ have_room_for(local_region[t], size)
  /\ make_room_for(local_region[t], size)
  /\ UNCHANGED <<region_list, next, mapped, threadVars, gcVars, tail, aborted,
                 chain, moves>>

\* Negative control: the fresh region is pushed instead of the full one.
AllocNewRegion_PushesNew(t, size) ==
  /\ pc[t] = "run"
  /\ size <= MaxAlloc
  /\ ~have_room_for(local_region[t], size)
  /\ \E r \in Regions :
       /\ region_allocate(r)
       /\ local_region' = [local_region EXCEPT ![t] = r]
       /\ old_region' = [old_region EXCEPT ![t] = r]
  /\ limit' = [limit EXCEPT ![t] = Limit]
  /\ request' = [request EXCEPT ![t] = size]
  /\ moves' = [moves EXCEPT ![t] = 0]
  /\ Goto(t, "load")
  /\ UNCHANGED <<region_list, old_head, gcVars, tail, aborted, chain>>

\* Without room it installs a fresh region and starts to push the old one.
AllocNewRegion(t, size) ==
  /\ pc[t] = "run"
  /\ size <= MaxAlloc
  /\ ~have_room_for(local_region[t], size)
  /\ \E r \in Regions :
       /\ region_allocate(r)
       /\ local_region' = [local_region EXCEPT ![t] = r]
  /\ old_region' = [old_region EXCEPT ![t] = local_region[t]]
  /\ limit' = [limit EXCEPT ![t] = Limit]
  /\ request' = [request EXCEPT ![t] = size]
  /\ moves' = [moves EXCEPT ![t] = 0]
  /\ Goto(t, "load")
  /\ UNCHANGED <<region_list, old_head, gcVars, tail, aborted, chain>>

\* Negative control: the next pointer is stored on the first attempt only.
PushLoad_StoresOnce(t) ==
  /\ pc[t] = "load"
  /\ old_head' = [old_head EXCEPT ![t] = region_list]
  /\ next' = IF limit[t] = Limit
             THEN [next EXCEPT ![old_region[t]] = region_list] ELSE next
  /\ Goto(t, "cas")
  /\ UNCHANGED <<region_list, allocated, mapped, local_region, old_region, limit,
                 request, gcVars, tail, aborted, chain, moves>>

\* pup_heap_add_to_global_heap(): load the head and store it in the next
\* pointer of the region, which no other thread can see yet ...
PushLoad(t) ==
  /\ pc[t] = "load"
  /\ old_head' = [old_head EXCEPT ![t] = region_list]
  /\ next' = [next EXCEPT ![old_region[t]] = region_list]
  /\ Goto(t, "cas")
  /\ UNCHANGED <<region_list, allocated, mapped, local_region, old_region, limit,
                 request, gcVars, tail, aborted, chain, moves>>

\* The call is over and its locals are gone.
PushReturns(t) ==
  /\ Goto(t, "run")
  /\ old_region' = [old_region EXCEPT ![t] = Null]
  /\ old_head' = [old_head EXCEPT ![t] = Null]
  /\ limit' = [limit EXCEPT ![t] = Limit]
  /\ request' = [request EXCEPT ![t] = 0]

\* ... then compare-and-swap.  With the region on the list the allocation goes
\* on in the new region.
PushCas(t) ==
  /\ pc[t] = "cas"
  /\ region_list = old_head[t]
  /\ region_list' = old_region[t]
  /\ chain' = Append(chain, old_region[t])
  /\ HeadMoved(t)
  /\ make_room_for(local_region[t], request[t])
  /\ PushReturns(t)
  /\ UNCHANGED <<next, mapped, local_region, gcVars, tail, aborted>>

\* Negative control: a failed attempt is not counted.
PushRetry_Uncounted(t) ==
  /\ pc[t] = "cas"
  /\ region_list # old_head[t]
  /\ Goto(t, "load")
  /\ UNCHANGED <<region_list, next, allocated, mapped, local_region, old_region,
                 old_head, limit, request, gcVars, tail, aborted, chain, moves>>

\* Negative control: a failed attempt is repeated with the head it loaded.
PushRetry_KeepsHead(t) ==
  /\ pc[t] = "cas"
  /\ region_list # old_head[t]
  /\ limit' = [limit EXCEPT ![t] = @ - 1]
  /\ IF limit'[t] = 0 THEN aborted' = TRUE ELSE UNCHANGED aborted
  /\ UNCHANGED <<region_list, next, allocated, mapped, local_region, pc, old_region,
                 old_head, request, gcVars, tail, chain, moves>>

\* A failed attempt is repeated until the limit is used up.
PushRetry(t) ==
  /\ pc[t] = "cas"
  /\ region_list # old_head[t]
  /\ limit' = [limit EXCEPT ![t] = @ - 1]
  /\ IF limit'[t] = 0
     THEN aborted' = TRUE /\ UNCHANGED pc
     ELSE Goto(t, "load") /\ UNCHANGED aborted
  /\ UNCHANGED <<region_list, next, allocated, mapped, local_region, old_region,
                 old_head, request, gcVars, tail, chain, moves>>

\* do_main() returns without giving its region up.
ThreadExit(t) ==
  /\ pc[t] = "run"
  /\ t # Main
  /\ Goto(t, "exited")
  /\ UNCHANGED <<region_list, next, allocated, mapped, local_region, old_region,
                 old_head, limit, request, gcVars, tail, aborted, chain, moves>>

-----------------------------------------------------------------------------
(* The collector thread: collect_unmarked_objects().                       *)

\* perform_gc() reaches collect_unmarked_objects().
CollectStart ==
  /\ gc = "idle"
  /\ gc' = "load"
  /\ UNCHANGED <<region_list, next, allocated, mapped, threadVars, gc_r, gc_next,
                 tail, aborted, chain, moves>>

\* steal_heap_region() loads the head; an empty list ends the collection ...
StealLoad ==
  /\ gc = "load"
  /\ gc_r' = region_list
  /\ gc' = IF region_list = Null THEN "idle" ELSE "next"
  /\ UNCHANGED <<region_list, next, allocated, mapped, threadVars, gc_next, tail,
                 aborted, chain, moves>>

\* ... then the head's next pointer ...
StealNext ==
  /\ gc = "next"
  /\ gc_next' = next[gc_r]
  /\ gc' = "cas"
  /\ UNCHANGED <<region_list, next, allocated, mapped, threadVars, gc_r, tail,
                 aborted, chain, moves>>

\* Negative control: the head is stored without comparing it.
StealCas_Store ==
  /\ gc = "cas"
  /\ region_list' = gc_next
  /\ chain' = SubSeq(chain, 1, Len(chain) - 1)
  /\ HeadMoved(Null)
  /\ gc' = "collect"
  /\ gc_next' = Null
  /\ UNCHANGED <<next, allocated, mapped, threadVars, gc_r, tail, aborted>>

\* ... and swaps it in if the head is still the one it loaded.
StealCas ==
  /\ gc = "cas"
  /\ IF region_list = gc_r
     THEN /\ region_list' = gc_next
          /\ chain' = SubSeq(chain, 1, Len(chain) - 1)
          /\ HeadMoved(Null)
          /\ gc' = "collect"
          /\ UNCHANGED gc_r
     ELSE /\ gc' = "load"
          /\ gc_r' = Null
          /\ UNCHANGED <<region_list, chain, moves>>
  /\ gc_next' = Null
  /\ UNCHANGED <<next, allocated, mapped, threadVars, tail, aborted>>

\* collect_unmarked_objects_in_region() write-protects the region and visits
\* its objects; collect_unmarked_objects() then forgets them.
Collect ==
  /\ gc = "collect"
  /\ allocated' = [allocated EXCEPT ![gc_r] = 0]
  /\ gc' = "free"
  /\ UNCHANGED <<region_list, next, mapped, threadVars, gc_r, gc_next, tail, aborted,
                 chain, moves>>

\* free_region() by the collector.
FreeStolen ==
  /\ gc = "free"
  /\ unmap(gc_r)
  /\ gc_r' = Null
  /\ gc' = "load"
  /\ UNCHANGED <<region_list, allocated, threadVars, gc_next, tail, aborted, chain,
                 moves>>

-----------------------------------------------------------------------------
(* pup_heap_destroy(), called by the main thread once the others have ended. *)

\* Negative control: nobody waits for the collector to stop.
DestroyStart_NoJoin ==
  /\ pc[Main] = "run"
  /\ \A t \in Threads \ {Main} : pc[t] \in {"new", "exited"}
  /\ Goto(Main, "destroy")
  /\ tail' = region_list
  /\ UNCHANGED <<region_list, next, allocated, mapped, local_region, old_region,
                 old_head, limit, request, gcVars, aborted, chain, moves>>

\* heap_thread_stop() cancels the collector and waits for it.
DestroyStart ==
  /\ pc[Main] = "run"
  /\ \A t \in Threads \ {Main} : pc[t] \in {"new", "exited"}
  /\ Goto(Main, "join")
  /\ UNCHANGED <<region_list, next, allocated, mapped, local_region, old_region,
                 old_head, limit, request, gcVars, tail, aborted, chain, moves>>

\* The cancelled collector ends at a cancellation point: nanosleep(), or the
\* output written for an object while a stolen region is visited.  The join
\* returns and destroy_global_heap() loads the head of the list.
CollectorStops ==
  /\ pc[Main] = "join"
  /\ gc \in {"idle", "collect"}
  /\ gc' = "stopped"
  /\ Goto(Main, "destroy")
  /\ tail' = region_list
  /\ UNCHANGED <<region_list, next, allocated, mapped, local_region, old_region,
                 old_head, limit, request, gc_r, gc_next, aborted, chain, moves>>

\* Negative control: the next pointer is not followed.
DestroyListed_First ==
  /\ pc[Main] = "destroy"
  /\ tail # Null
  /\ tail' = Null
  /\ unmap(tail)
  /\ chain' = SubSeq(chain, 1, Len(chain) - 1)
  /\ UNCHANGED <<region_list, allocated, threadVars, gcVars, aborted, moves>>

\* destroy_global_heap() frees the listed regions one by one.
DestroyListed ==
  /\ pc[Main] = "destroy"
  /\ tail # Null
  /\ tail' = next[tail]
  /\ unmap(tail)
  /\ chain' = SubSeq(chain, 1, Len(chain) - 1)
  /\ UNCHANGED <<region_list, allocated, threadVars, gcVars, aborted, moves>>

\* pup_heap_thread_destroy() frees the calling thread's own region.
DestroyLocal ==
  /\ pc[Main] = "destroy"
  /\ tail = Null
  /\ unmap(local_region[Main])
  /\ Goto(Main, "destroyed")
  /\ UNCHANGED <<region_list, allocated, local_region, old_region, old_head,
                 limit, request, gcVars, tail, aborted, chain, moves>>

-----------------------------------------------------------------------------
Alloc(t) == \E size \in Sizes : AllocLocal(t, size) \/ AllocNewRegion(t, size)

Push(t) == PushLoad(t) \/ PushCas(t) \/ PushRetry(t)

Mutator(t) == ThreadInit(t) \/ AllocFails(t) \/ Alloc(t) \/ Push(t) \/ ThreadExit(t)

CollectorStep ==
  \/ CollectStart \/ StealLoad \/ StealNext \/ StealCas \/ Collect \/ FreeStolen

DestroyStep == DestroyStart \/ CollectorStops \/ DestroyListed \/ DestroyLocal

Next ==
  /\ ~aborted
  /\ CollectorStep \/ DestroyStep \/ \E t \in Threads : Mutator(t)

Spec == Init /\ [][Next]_vars

\* A thread inside pup_heap_add_to_global_heap() never blocks.
FairSpec == Spec /\ \A t \in Threads : WF_vars(~aborted /\ Push(t))

-----------------------------------------------------------------------------
(* Properties.                                                             *)

TypeOK ==
  /\ region_list \in RegionOrNull
  /\ next \in [Regions -> RegionOrNull]
  /\ allocated \in [Regions -> 0 .. RegionSize]
  /\ mapped \subseteq Regions
  /\ local_region \in [Threads -> RegionOrNull]
  /\ pc \in [Threads -> ThreadPC]
  /\ old_region \in [Threads -> RegionOrNull]
  /\ old_head \in [Threads -> RegionOrNull]
  /\ limit \in [Threads -> 0 .. Limit]
  /\ request \in [Threads -> Nat]
  /\ gc \in CollectorPC
  /\ gc_r \in RegionOrNull
  /\ gc_next \in RegionOrNull
  /\ tail \in RegionOrNull
  /\ aborted \in BOOLEAN
  /\ chain \in Seq(Regions)
  /\ moves \in [Threads -> 0 .. Limit + 1]

Below(i) == IF i = 1 THEN Null ELSE chain[i - 1]

\* The linked list is exactly the pushes that were not yet undone: following
\* next from the head (from tail, while destroy_global_heap() runs) visits
\* every pushed region once and ends in NULL.  Pushes and steals that race,
\* and addresses that come back from malloc(), never lose or repeat a region.
ListIsChain ==
  /\ \A i \in DOMAIN chain : next[chain[i]] = Below(i)
  /\ \A i, j \in DOMAIN chain : chain[i] = chain[j] => i = j
  /\ (IF pc[Main] \in {"destroy", "destroyed"} THEN tail ELSE region_list)
       = Below(Len(chain) + 1)

Listed == {chain[i] : i \in DOMAIN chain}
Stolen == IF gc \in {"collect", "free", "stopped"} /\ gc_r # Null THEN {gc_r} ELSE {}
OwnedBy(t) ==
  IF pc[t] = "destroyed" THEN {} ELSE {local_region[t], old_region[t]} \ {Null}

\* Every mapped region has exactly one owner, and only mapped regions have
\* one: no thread writes into a region that another thread uses, that is on
\* the list, that is being collected or that was unmapped.
SingleOwner ==
  /\ mapped = Listed \cup Stolen \cup UNION {OwnedBy(t) : t \in Threads}
  /\ Listed \cap Stolen = {}
  /\ \A t \in Threads :
       /\ OwnedBy(t) \cap (Listed \cup Stolen) = {}
       /\ Pushing(t) => local_region[t] # old_region[t]
       /\ \A u \in Threads \ {t} : OwnedBy(t) \cap OwnedBy(u) = {}

\* Between the collector's two loads and its compare-and-swap the region it
\* loaded may leave the top of the list, never the list: the next pointer is
\* read from a mapped region and is still the region's when the swap installs
\* it, although malloc() may hand out freed addresses again in between.
StealIsCurrent ==
  /\ gc \in {"next", "cas"} => gc_r \in Listed
  /\ gc = "cas" => next[gc_r] = gc_next

\* pup_heap_add_to_global_heap() gives up ("failed to update
\* heap->region_list after 1000 iterations") only if the list was updated by
\* others that many times during the call: no attempt fails by itself.
AbortNeedsContention ==
  \A t \in Threads : Pushing(t) => Limit - limit[t] <= moves[t]

\* When pup_heap_destroy() is done the only regions still mapped are those of
\* threads that ended and the one a cancelled collection was working on.
DestroyFreesTheRest ==
  pc[Main] = "destroyed" =>
    mapped = Stolen \cup {local_region[t] : t \in {u \in Threads : pc[u] = "exited"}}

\* A push ends: the region gets onto the list or the process aborts.
PushEnds ==
  \A t \in Threads : Pushing(t) ~> (~Pushing(t) \/ aborted)

\* Who owns a region, as the specification RegionPool sees it.
owner == [r \in Regions |->
            IF r \in Listed THEN "listed"
            ELSE IF r \in Stolen THEN "collector"
            ELSE IF \E t \in Threads : r \in OwnedBy(t)
                 THEN CHOOSE t \in Threads : r \in OwnedBy(t)
            ELSE "unmapped"]

\* The list implements the ownership protocol of RegionPool.
Pool == INSTANCE RegionPool WITH
  Unmapped <- "unmapped", Listed <- "listed", Collector <- "collector", owner <- owner

\* Regions change hands only as RegionPool allows: from a thread to the list,
\* from the list to the collector, and back to the system.
ImplementsPool == Pool!Spec
=============================================================================
