------------------------------ MODULE Marking -------------------------------
(***************************************************************************)
(* How gc.c and gc/refqueue.c find the live objects: mutator threads put   *)
(* the references of their stack frames into segments of a reference       *)
(* queue, and the collector thread then takes segments off the queue,      *)
(* marks the objects and queues what they refer to, while the mutators go  *)
(* on running.  Module Safepoint shows that the collector waits while one  *)
(* thread scans its stack, so nobody else touches the queue meanwhile and  *)
(* queuing one reference is one step here.  A stack scan may leave frames  *)
(* out: wherever the unwinder or the table of a frame does not answer, the *)
(* code returns and says nothing.  All objects lie in the threads' own     *)
(* regions, which collect_unmarked_objects() does not visit.               *)
(***************************************************************************)
EXTENDS Naturals, FiniteSets, Sequences, SequencesExt

CONSTANTS
  Threads,    \* the mutator threads on the heap's list
  Objects,    \* the addresses of objects
  Class,      \* the class object, type of every object and of itself
  Null,       \* the null reference
  Slots,      \* the stack slots holding references
  Frames,     \* a thread's stack: a sequence of frames, each a sequence of slots
  SegSize,    \* REF_QUEUE_SEGMENT_SIZE, 200 in the code
  NoAttr,     \* the object has no attribute
  NoSegment,  \* a null struct PupRefQueueSegment *
  Wild        \* an uninitialised struct PupRefQueueSegment *

ASSUME MarkingAssumption ==
  /\ Class \in Objects
  /\ Null \notin Objects /\ NoAttr \notin Objects \cup {Null}
  /\ Frames \in Seq(Seq(Slots))
  /\ SegSize \in Nat \ {0}
  /\ NoSegment \notin Seq(Objects \cup {Null}) /\ Wild \notin Seq(Objects \cup {Null})

VARIABLES
  objects,          \* the objects that exist
  roots,            \* roots[t][s]: what slot s of thread t's stack refers to
  attr,             \* the value of the object's attribute, or NoAttr
  gc_mark,          \* obj->gc_mark
  current_gc_mark,  \* tinfo->current_gc_mark
  gc_waiting,       \* tinfo->gc_waiting
  live_mark_value,  \* state->live_mark_value
  queue,            \* the segments from state->reference_queue_head on
  current_segment,  \* state->current_segment
  pc,               \* whether a thread runs or is in pup_gc_scan_stack()
  cursor,           \* the frame it has come to
  next_root,        \* i of collect_stack_root_pointers()
  local_segment,    \* current_segment of collect_stack_root_pointers()
  gc,               \* where the collector thread is
  remaining,        \* threads the collector has yet to meet in this period
  seg,              \* what is left of the segment being scanned
  aborted,          \* the process has died: abort() or a fatal signal
  stack_refs,       \* history: the references in each frame of a thread's stack
  missed,           \* history: the frames that the scan of the stack left out
  visited_refs      \* history: the references the collector queued this period

heapVars  == <<objects, roots, attr>>
markVars  == <<current_gc_mark, gc_waiting, live_mark_value>>
queueVars == <<queue, current_segment>>
stackVars == <<pc, cursor, next_root, local_segment>>
scanVars  == <<gc, remaining, seg>>
history   == <<stack_refs, missed, visited_refs>>
vars == <<heapVars, gc_mark, markVars, queueVars, stackVars, scanVars, aborted, history>>

Ref     == Objects \cup {Null}
Segment == {s \in Seq(Ref) : Len(s) \in 1 .. SegSize}

NoFrames == [t \in Threads |-> [k \in DOMAIN Frames |-> {}]]

\* pup_gc_state_create() does not initialise current_segment, nor does
\* attach_thread() the thread's mark: malloc() decides.
Init ==
  /\ objects = {Class}
  /\ roots = [t \in Threads |-> [s \in Slots |-> Class]]
  /\ attr = [o \in Objects |-> NoAttr]
  /\ gc_mark \in {[o \in Objects |-> IF o = Class THEN m ELSE 0] : m \in {0, 1}}
  /\ current_gc_mark \in [Threads -> {0, 1}]
  /\ gc_waiting = [t \in Threads |-> FALSE]
  /\ live_mark_value = 0
  /\ queue = <<>>
  /\ current_segment \in {NoSegment, Wild}
  /\ pc = [t \in Threads |-> "run"]
  /\ cursor = 1 /\ next_root = 1 /\ local_segment = NoSegment
  /\ gc = "sleep" /\ remaining = {} /\ seg = <<>>
  /\ aborted = FALSE
  /\ stack_refs = NoFrames /\ missed = [t \in Threads |-> {}] /\ visited_refs = {}

-----------------------------------------------------------------------------
(* The reference queue.  q is the global queue, segment the one being      *)
(* filled: a local of collect_stack_root_pointers() or the collector's     *)
(* state->current_segment.                                                 *)

add_segment_to_global_queue(q, segment) == <<segment>> \o q

\* Negative control: a full segment is replaced without being queued.
queue_for_marking_Drops(q, segment, ref) ==
  IF segment = NoSegment \/ Len(segment) = SegSize
  THEN [queue |-> q, segment |-> <<ref>>]
  ELSE [queue |-> q, segment |-> Append(segment, ref)]

\* Negative control: the test for free space is off by one.
queue_for_marking_Overfull(q, segment, ref) ==
  IF segment = NoSegment
  THEN [queue |-> q, segment |-> <<ref>>]
  ELSE IF Len(segment) <= SegSize
  THEN [queue |-> q, segment |-> Append(segment, ref)]
  ELSE [queue |-> add_segment_to_global_queue(q, segment), segment |-> <<ref>>]

queue_for_marking(q, segment, ref) ==
  IF segment = NoSegment
  THEN [queue |-> q, segment |-> <<ref>>]
  ELSE IF Len(segment) < SegSize
  THEN [queue |-> q, segment |-> Append(segment, ref)]
  ELSE [queue |-> add_segment_to_global_queue(q, segment), segment |-> <<ref>>]

-----------------------------------------------------------------------------
(* Mutators.                                                               *)

\* thread_local_alloc(): a new object carries its thread's mark.
Alloc(t) ==
  /\ pc[t] = "run"
  /\ \E o \in Objects \ objects, s \in Slots :
       /\ objects' = objects \cup {o}
       /\ attr' = [attr EXCEPT ![o] = NoAttr]
       /\ gc_mark' = [gc_mark EXCEPT ![o] = current_gc_mark[t]]
       /\ roots' = [roots EXCEPT ![t][s] = o]
  /\ UNCHANGED <<markVars, queueVars, stackVars, scanVars, aborted, history>>

\* pup_iv_set() on an object other than the class, and pup_iv_get(), which
\* yields NULL for a missing attribute.
SetAttr(t) ==
  /\ pc[t] = "run"
  /\ \E s, v \in Slots :
       /\ roots[t][s] \notin {Null, Class}
       /\ attr' = [attr EXCEPT ![roots[t][s]] = roots[t][v]]
  /\ UNCHANGED <<objects, roots, gc_mark, markVars, queueVars, stackVars, scanVars, aborted,
                 history>>

GetAttr(t) ==
  /\ pc[t] = "run"
  /\ \E s, v \in Slots :
       /\ roots[t][s] # Null
       /\ roots' = [roots EXCEPT ![t][v] =
            IF attr[roots[t][s]] = NoAttr THEN Null ELSE attr[roots[t][s]]]
  /\ UNCHANGED <<objects, attr, gc_mark, markVars, queueVars, stackVars, scanVars, aborted,
                 history>>

\* siguser1_handler() on the one thread the collector is waiting for.
HandleSignal(t) ==
  /\ gc = "converge"
  /\ t \in remaining
  /\ \A u \in Threads : ~gc_waiting[u]
  /\ gc_waiting' = [gc_waiting EXCEPT ![t] = TRUE]
  /\ current_gc_mark' = [current_gc_mark EXCEPT ![t] = live_mark_value]
  /\ UNCHANGED <<heapVars, gc_mark, live_mark_value, queueVars, stackVars, scanVars, aborted,
                 history>>

\* The walk comes to frame k of thread t, or is over, and leaves frames out.
GoTo(t, k, out) ==
  /\ cursor' = k
  /\ missed' = [missed EXCEPT ![t] = @ \cup out]

\* unw_step() goes to frame k, unless it fails: that ends the walk like the last frame.
Walk(t, k, out) ==
  \/ GoTo(t, k, out)
  \/ GoTo(t, Len(Frames) + 1, out \cup (k .. Len(Frames)))

\* pup_heap_safepoint() with gc_waiting set: pup_gc_scan_stack() goes through
\* the frames of the calling thread, or through none if unw_getcontext() or
\* unw_init_local() fails ...
ScanStack(t) ==
  /\ pc[t] = "run" /\ gc_waiting[t]
  /\ pc' = [pc EXCEPT ![t] = "scan"]
  /\ Walk(t, 1, {})
  /\ next_root' = 1 /\ local_segment' = NoSegment
  /\ stack_refs' = [stack_refs EXCEPT ![t] =
       [k \in DOMAIN Frames |-> {roots[t][s] : s \in ToSet(Frames[k])}]]
  /\ UNCHANGED <<heapVars, gc_mark, markVars, queueVars, scanVars, aborted, visited_refs>>

\* ... of each, scan_stack_frame() looks up the root map, the safepoint and the
\* stack pointer; without one of them it returns ...
SkipFrame(t) ==
  /\ pc[t] = "scan" /\ cursor <= Len(Frames) /\ next_root = 1
  /\ Walk(t, cursor + 1, {cursor})
  /\ UNCHANGED <<heapVars, gc_mark, markVars, queueVars, pc, next_root, local_segment,
                 scanVars, aborted, stack_refs, visited_refs>>

\* ... and find_safepoint() aborts where the map does not list the safepoint.
FindSafepointFails(t) ==
  /\ pc[t] = "scan" /\ cursor <= Len(Frames) /\ next_root = 1
  /\ aborted' = TRUE
  /\ UNCHANGED <<heapVars, gc_mark, markVars, queueVars, stackVars, scanVars, history>>

\* Otherwise collect_stack_root_pointers() puts the references into segments ...
ScanRoot(t) ==
  /\ pc[t] = "scan" /\ cursor <= Len(Frames) /\ next_root <= Len(Frames[cursor])
  /\ LET filled == queue_for_marking(queue, local_segment, roots[t][Frames[cursor][next_root]])
     IN queue' = filled.queue /\ local_segment' = filled.segment
  /\ next_root' = next_root + 1
  /\ UNCHANGED <<heapVars, gc_mark, markVars, current_segment, pc, cursor, scanVars, aborted,
                 history>>

\* Negative control: the frame's last segment is not queued.
FrameDone_NoFlush(t) ==
  /\ pc[t] = "scan" /\ cursor <= Len(Frames) /\ next_root > Len(Frames[cursor])
  /\ Walk(t, cursor + 1, {})
  /\ local_segment' = NoSegment /\ next_root' = 1
  /\ UNCHANGED <<heapVars, gc_mark, markVars, queueVars, pc, scanVars, aborted, stack_refs,
                 visited_refs>>

\* ... and queues the last of them; unw_step() goes to the next frame ...
FrameDone(t) ==
  /\ pc[t] = "scan" /\ cursor <= Len(Frames) /\ next_root > Len(Frames[cursor])
  /\ queue' = IF local_segment = NoSegment THEN queue
              ELSE add_segment_to_global_queue(queue, local_segment)
  /\ Walk(t, cursor + 1, {})
  /\ local_segment' = NoSegment /\ next_root' = 1
  /\ UNCHANGED <<heapVars, gc_mark, markVars, current_segment, pc, scanVars, aborted,
                 stack_refs, visited_refs>>

\* ... and after the last one the thread meets the collector and goes on.
Arrive(t) ==
  /\ pc[t] = "scan" /\ cursor > Len(Frames)
  /\ pc' = [pc EXCEPT ![t] = "run"]
  /\ gc_waiting' = [gc_waiting EXCEPT ![t] = FALSE]
  /\ remaining' = remaining \ {t}
  /\ cursor' = 1
  /\ UNCHANGED <<heapVars, gc_mark, current_gc_mark, live_mark_value, queueVars, next_root,
                 local_segment, gc, seg, aborted, history>>

\* pup_refqueuesegment_create() without memory: abort().
SegmentCreateFails ==
  /\ gc \in {"mark", "attr"} \/ \E t \in Threads : pc[t] = "scan"
  /\ aborted' = TRUE
  /\ UNCHANGED <<heapVars, gc_mark, markVars, queueVars, stackVars, scanVars, history>>

-----------------------------------------------------------------------------
(* The collector thread.                                                   *)

\* pup_gc_period_start()
PeriodStart ==
  /\ gc = "sleep"
  /\ live_mark_value' = 1 - live_mark_value
  /\ remaining' = Threads
  /\ gc' = "converge"
  /\ UNCHANGED <<heapVars, gc_mark, current_gc_mark, gc_waiting, queueVars, stackVars, seg, aborted,
                 history>>

\* perform_gc() has met every thread and calls pup_gc_scan_heap().
ScanHeap ==
  /\ gc = "converge"
  /\ remaining = {}
  /\ gc' = "steal"
  /\ UNCHANGED <<heapVars, gc_mark, markVars, queueVars, stackVars, remaining, seg, aborted, history>>

\* steal_segment_from_global_queue(); without a segment the scan is over.
StealSegment ==
  /\ gc = "steal"
  /\ IF queue = <<>>
     THEN gc' = "done" /\ UNCHANGED <<queue, seg>>
     ELSE gc' = "mark" /\ seg' = Head(queue) /\ queue' = Tail(queue)
  /\ UNCHANGED <<heapVars, gc_mark, markVars, current_segment, stackVars, remaining, aborted, history>>

\* pup_gc_queue_for_marking(), on whatever state->current_segment holds.
Visit(ref) ==
  LET filled == queue_for_marking(queue, current_segment, ref)
  IN /\ queue' = filled.queue
     /\ current_segment' = filled.segment
     /\ visited_refs' = visited_refs \cup {ref}

\* Dereferencing a null reference, or an uninitialised current_segment, kills
\* the process.
Crash(ref) ==
  ref # Null => gc_mark[ref] # live_mark_value /\ current_segment = Wild

\* Negative control: pup_object_gc_mark() reports every object as updated.
MarkRef_Always ==
  /\ gc = "mark"
  /\ seg # <<>>
  /\ Head(seg) # Null /\ current_segment # Wild
  /\ gc_mark' = [gc_mark EXCEPT ![Head(seg)] = live_mark_value]
  /\ Visit(Class)
  /\ gc' = "attr"
  /\ UNCHANGED <<heapVars, markVars, stackVars, remaining, seg, aborted, stack_refs, missed>>

\* scan_queue_ref(): an object that already has the mark is skipped, another
\* one is marked and pup_object_each_ref() visits its type ...
MarkRef ==
  /\ gc = "mark"
  /\ seg # <<>>
  /\ ~Crash(Head(seg))
  /\ IF gc_mark[Head(seg)] = live_mark_value
     THEN /\ seg' = Tail(seg)
          /\ UNCHANGED <<gc_mark, queueVars, gc, visited_refs>>
     ELSE /\ gc_mark' = [gc_mark EXCEPT ![Head(seg)] = live_mark_value]
          /\ Visit(Class)
          /\ gc' = "attr"
          /\ UNCHANGED seg
  /\ UNCHANGED <<heapVars, markVars, stackVars, remaining, aborted, stack_refs, missed>>

MarkRefCrashes ==
  /\ gc = "mark"
  /\ seg # <<>>
  /\ Crash(Head(seg))
  /\ aborted' = TRUE
  /\ UNCHANGED <<heapVars, gc_mark, markVars, queueVars, stackVars, scanVars, history>>

\* ... and then its attribute.
VisitAttr ==
  /\ gc = "attr"
  /\ IF attr[Head(seg)] = NoAttr
     THEN UNCHANGED <<queueVars, visited_refs>>
     ELSE Visit(attr[Head(seg)])
  /\ seg' = Tail(seg)
  /\ gc' = "mark"
  /\ UNCHANGED <<heapVars, gc_mark, markVars, stackVars, remaining, aborted, stack_refs, missed>>

SegmentDone ==
  /\ gc = "mark"
  /\ seg = <<>>
  /\ gc' = "steal"
  /\ UNCHANGED <<heapVars, gc_mark, markVars, queueVars, stackVars, remaining, seg, aborted, history>>

\* collect_unmarked_objects() finds no region; pup_gc_period_end().
PeriodEnd ==
  /\ gc = "done"
  /\ gc' = "sleep"
  /\ stack_refs' = NoFrames /\ missed' = [t \in Threads |-> {}] /\ visited_refs' = {}
  /\ UNCHANGED <<heapVars, gc_mark, markVars, queueVars, stackVars, remaining, seg, aborted>>

-----------------------------------------------------------------------------
MutatorStep(t) ==
  \/ Alloc(t) \/ SetAttr(t) \/ GetAttr(t) \/ HandleSignal(t)
  \/ ScanStack(t) \/ SkipFrame(t) \/ FindSafepointFails(t) \/ ScanRoot(t) \/ FrameDone(t)
  \/ Arrive(t)

ScanStep ==
  StealSegment \/ MarkRef \/ MarkRefCrashes \/ VisitAttr \/ SegmentDone

CollectorStep == PeriodStart \/ ScanHeap \/ ScanStep \/ SegmentCreateFails \/ PeriodEnd

Next ==
  /\ ~aborted
  /\ CollectorStep \/ \E t \in Threads : MutatorStep(t)

Spec == Init /\ [][Next]_vars

\* The collector never blocks in pup_gc_scan_heap().
FairSpec == Spec /\ WF_vars(~aborted /\ ScanStep)

-----------------------------------------------------------------------------
(* Properties.                                                             *)

TypeOK ==
  /\ Class \in objects /\ objects \subseteq Objects
  /\ roots \in [Threads -> [Slots -> objects \cup {Null}]]
  /\ attr \in [Objects -> objects \cup {Null, NoAttr}]
  /\ gc_mark \in [Objects -> {0, 1}]
  /\ current_gc_mark \in [Threads -> {0, 1}]
  /\ gc_waiting \in [Threads -> BOOLEAN]
  /\ live_mark_value \in {0, 1}
  /\ queue \in Seq(Segment)
  /\ current_segment \in {NoSegment, Wild} \/ current_segment \in Segment
  /\ pc \in [Threads -> {"run", "scan"}]
  /\ cursor \in 1 .. Len(Frames) + 1
  /\ next_root \in 1 .. (IF cursor <= Len(Frames) THEN Len(Frames[cursor]) + 1 ELSE 1)
  /\ local_segment = NoSegment \/ local_segment \in Segment
  /\ gc \in {"sleep", "converge", "steal", "mark", "attr", "done"}
  /\ remaining \subseteq Threads
  /\ seg = <<>> \/ seg \in Segment
  /\ aborted \in BOOLEAN
  /\ stack_refs \in [Threads -> [DOMAIN Frames -> SUBSET (objects \cup {Null})]]
  /\ missed \in [Threads -> SUBSET DOMAIN Frames]
  /\ visited_refs \subseteq objects \cup {Null}

Marked(o) == gc_mark[o] = live_mark_value

Queued == ToSet(seg) \cup UNION {ToSet(queue[i]) : i \in DOMAIN queue}

Leftover == IF current_segment \in {NoSegment, Wild} THEN {} ELSE ToSet(current_segment)

\* The slots of the frames that pup_gc_scan_stack() has yet to come to.
Unscanned ==
  {s \in Slots : \E k \in DOMAIN Frames : \E j \in DOMAIN Frames[k] :
     /\ s = Frames[k][j]
     /\ k > cursor \/ (k = cursor /\ j >= next_root)}

\* What a thread that scans its stack has yet to queue.
Scanning ==
  (IF local_segment = NoSegment THEN {} ELSE ToSet(local_segment))
  \cup UNION {{roots[t][s] : s \in Unscanned} : t \in {u \in Threads : pc[u] = "scan"}}

\* What was on a stack at its thread's safepoint, in a frame that was not left out.
StackRoots ==
  {o \in objects : \E t \in Threads : \E k \in DOMAIN Frames \ missed[t] : o \in stack_refs[t][k]}

\* The reference queue loses nothing: whatever the scan of a stack came to, or
\* the collector found in an object it marked, is marked itself, still queued,
\* in the segment the collector is filling, or about to be queued by the thread.
NothingDropped ==
  gc \in {"converge", "steal", "mark", "attr", "done"} =>
    \A o \in StackRoots \cup (visited_refs \ {Null}) :
      Marked(o) \/ o \in Queued \cup Leftover \cup Scanning

\* The silent returns of the stack scan are the only way to lose a root: when
\* pup_gc_scan_heap() returns, every object that was on a stack at its thread's
\* safepoint is marked, in each frame but those for which the unwinder, the
\* root map or the stack pointer failed, however the mutators have changed the
\* heap and however full the segments were.
StackRootsMarked ==
  gc = "done" => \A o \in StackRoots : Marked(o)

\* pup_gc_scan_heap() ends (or the process dies), although the mutators keep
\* changing the heap and the heap has cycles.
ScanEnds == gc = "steal" ~> (gc = "done" \/ aborted)

-----------------------------------------------------------------------------
(* What a comment of heap.c says, and the code does not do.                *)

\* heap.c, perform_gc(): with the roots queued, "now scan the rest of the heap".
\* When pup_gc_scan_heap() returns, what it found in the objects it scanned is
\* marked too.
RestOfHeapScanned ==
  gc = "done" => \A o \in visited_refs \ {Null} : Marked(o)
=============================================================================
