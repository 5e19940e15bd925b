---------------------------- MODULE RegionPool ------------------------------
(***************************************************************************)
(* What the region list of heap.c promises its users, with no list and no  *)
(* pointers: every region has exactly one owner.  A thread takes a fresh   *)
(* region and writes into it, gives it up for good, and the collector      *)
(* takes over what was given up and returns the memory.  Module RegionList *)
(* implements this specification.                                          *)
(***************************************************************************)
CONSTANTS
  Threads, Main, Regions,        \* as in RegionList
  Unmapped, Listed, Collector    \* owners other than threads

VARIABLE owner   \* owner[r]: a thread, the collector, the list, or nobody

Init == owner = [r \in Regions |-> Unmapped]

Pass(r, from, to) ==
  /\ owner[r] = from
  /\ owner' = [owner EXCEPT ![r] = to]

Take(t, r)    == Pass(r, Unmapped, t)           \* pup_heap_region_allocate()
Publish(t, r) == Pass(r, t, Listed)             \* pup_heap_add_to_global_heap()
Steal(r)      == Pass(r, Listed, Collector)     \* steal_heap_region()
Release(r)    == Pass(r, Collector, Unmapped)   \* free_region() of the collector
Destroy(r)    ==                                \* free_region() of pup_heap_destroy()
  Pass(r, Listed, Unmapped) \/ Pass(r, Main, Unmapped)

Next == \E r \in Regions :
  \/ \E t \in Threads : Take(t, r) \/ Publish(t, r)
  \/ Steal(r) \/ Release(r) \/ Destroy(r)

Spec == Init /\ [][Next]_owner
=============================================================================
