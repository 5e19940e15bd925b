--------------------------- MODULE MarkingProofs ----------------------------
(***************************************************************************)
(* Proofs about the marking, for any number of threads and objects, any    *)
(* stack and any segment size: the reference queue loses nothing, and when *)
(* pup_gc_scan_heap() returns every root is marked that was in a frame     *)
(* which the scan of its stack did not leave out.                          *)
(***************************************************************************)
EXTENDS Marking, SequenceTheorems, TLAPS

\* The references in a queue and in a segment.
QueueRefs(q) == UNION {ToSet(q[i]) : i \in DOMAIN q}
SegRefs(s)   == IF s \in {NoSegment, Wild} THEN {} ELSE ToSet(s)

\* What is queued exists.
RefsExist ==
  Queued \cup Leftover \cup SegRefs(local_segment) \subseteq objects \cup {Null}

\* The collector waits for one thread at a time, and while a thread scans its
\* stack nothing else uses the queue.
WaitInv ==
  /\ \A t \in Threads : pc[t] = "scan" => gc_waiting[t]
  /\ \A t \in Threads : gc_waiting[t] => gc = "converge" /\ t \in remaining
  /\ \A t, u \in Threads : gc_waiting[t] /\ gc_waiting[u] => t = u
  /\ local_segment # NoSegment => \E t \in Threads : pc[t] = "scan"
  /\ next_root = 1 => local_segment = NoSegment

\* Where the collector is in its segment.
CollectInv ==
  /\ gc \in {"sleep", "converge", "steal", "done"} => seg = <<>>
  /\ gc = "attr" => /\ seg # <<>> /\ Head(seg) \in objects /\ Marked(Head(seg))
                    /\ current_segment \in Segment
  /\ gc = "done" => queue = <<>>
  /\ gc = "sleep" => stack_refs = NoFrames /\ visited_refs = {}

\* A root of frame k that thread t has yet to come to.
InScan(t, k, o) ==
  /\ pc[t] = "scan"
  /\ \E j \in DOMAIN Frames[k] :
       /\ o = roots[t][Frames[k][j]]
       /\ k > cursor \/ (k = cursor /\ j >= next_root)

\* Of the frames that are not left out, no root is lost, and none ends up in the
\* segment that the collector is filling and does not queue.
StackInv ==
  \A t \in Threads : \A k \in DOMAIN Frames \ missed[t] : \A o \in stack_refs[t][k] \ {Null} :
    \/ Marked(o) \/ o \in Queued \/ o \in SegRefs(local_segment) \/ InScan(t, k, o)

VisitInv ==
  \A o \in visited_refs \ {Null} : Marked(o) \/ o \in Queued \cup Leftover

Inv ==
  /\ TypeOK
  /\ RefsExist
  /\ WaitInv
  /\ CollectInv
  /\ StackInv
  /\ VisitInv

-----------------------------------------------------------------------------
(* Segments and queues.                                                    *)

LEMMA NoSegmentApart == NoSegment \notin Segment /\ Wild \notin Segment
BY MarkingAssumption DEF Segment, Ref

\* A segment with its first reference.
LEMMA NewSegment ==
  ASSUME NEW ref \in Ref
  PROVE  <<ref>> \in Segment /\ ToSet(<<ref>>) = {ref}
<1>1. <<ref>> \in Seq(Ref) /\ Len(<<ref>>) = 1 /\ DOMAIN <<ref>> = {1} /\ <<ref>>[1] = ref
  OBVIOUS
<1>2. 1 \in 1 .. SegSize
  BY MarkingAssumption
<1> QED
  BY <1>1, <1>2 DEF Segment, ToSet

\* A segment with one more reference.
LEMMA GrownSegment ==
  ASSUME NEW s \in Segment, NEW ref \in Ref, Len(s) < SegSize
  PROVE  Append(s, ref) \in Segment /\ ToSet(Append(s, ref)) = ToSet(s) \cup {ref}
<1>1. s \in Seq(Ref) /\ Len(s) \in 1 .. SegSize /\ SegSize \in Nat
  BY MarkingAssumption DEF Segment
<1>2. /\ Append(s, ref) \in Seq(Ref) /\ Len(Append(s, ref)) = Len(s) + 1
      /\ \A i \in 1 .. Len(s) : Append(s, ref)[i] = s[i]
      /\ Append(s, ref)[Len(s) + 1] = ref
  BY <1>1, AppendProperties
<1>3. DOMAIN s = 1 .. Len(s) /\ DOMAIN Append(s, ref) = 1 .. Len(s) + 1
  BY <1>1, <1>2, LenProperties
<1>4. 1 .. Len(s) + 1 = (1 .. Len(s)) \cup {Len(s) + 1} /\ Len(s) + 1 \in 1 .. SegSize
  BY <1>1
<1>5. Append(s, ref) \in Segment
  BY <1>2, <1>4 DEF Segment
<1>6. ToSet(Append(s, ref)) = ToSet(s) \cup {ref}
  BY <1>2, <1>3, <1>4 DEF ToSet
<1> QED
  BY <1>5, <1>6

\* A queue with one more segment.
LEMMA PushedQueue ==
  ASSUME NEW q \in Seq(Segment), NEW s \in Segment
  PROVE  /\ add_segment_to_global_queue(q, s) \in Seq(Segment)
         /\ QueueRefs(add_segment_to_global_queue(q, s)) = QueueRefs(q) \cup ToSet(s)
<1> DEFINE p == <<s>> \o q
<1>1. <<s>> \in Seq(Segment) /\ Len(<<s>>) = 1 /\ <<s>>[1] = s
  OBVIOUS
<1>2. Len(q) \in Nat /\ DOMAIN q = 1 .. Len(q)
  BY LenProperties
<1>3. /\ p \in Seq(Segment) /\ Len(p) = 1 + Len(q)
      /\ \A i \in 1 .. 1 + Len(q) : p[i] = IF i <= 1 THEN <<s>>[i] ELSE q[i - 1]
  BY <1>1, ConcatProperties
<1>4. DOMAIN p = 1 .. 1 + Len(q)
  BY <1>3, LenProperties
<1> HIDE DEF p
<1>5. 1 \in DOMAIN p /\ p[1] = s
  BY <1>1, <1>2, <1>3, <1>4
<1>6. \A i \in DOMAIN q : i + 1 \in DOMAIN p /\ p[i + 1] = q[i]
  BY <1>2, <1>3, <1>4
<1>7. \A i \in DOMAIN p \ {1} : i - 1 \in DOMAIN q /\ p[i] = q[i - 1]
  BY <1>2, <1>3, <1>4
<1>8. QueueRefs(q) \cup ToSet(s) \subseteq QueueRefs(p)
  BY <1>5, <1>6 DEF QueueRefs
<1>9. QueueRefs(p) \subseteq QueueRefs(q) \cup ToSet(s)
  BY <1>5, <1>7 DEF QueueRefs
<1> QED
  BY <1>3, <1>8, <1>9 DEF add_segment_to_global_queue, p

\* queue_for_marking() keeps every reference and adds one.
LEMMA QueueForMarking ==
  ASSUME NEW q \in Seq(Segment), NEW s, s = NoSegment \/ s \in Segment, NEW ref \in Ref
  PROVE  LET f == queue_for_marking(q, s, ref)
         IN  /\ f.queue \in Seq(Segment) /\ f.segment \in Segment
             /\ QueueRefs(f.queue) \cup ToSet(f.segment) = QueueRefs(q) \cup SegRefs(s) \cup {ref}
             /\ QueueRefs(q) \subseteq QueueRefs(f.queue)
<1> DEFINE f == queue_for_marking(q, s, ref)
<1>1. CASE s = NoSegment
  <2>1. f.queue = q /\ f.segment = <<ref>>
    BY <1>1 DEF queue_for_marking
  <2>2. SegRefs(s) = {}
    BY <1>1 DEF SegRefs
  <2> QED
    BY <2>1, <2>2, NewSegment
<1>2. CASE s \in Segment /\ Len(s) < SegSize
  <2>1. s # NoSegment /\ s # Wild
    BY <1>2, NoSegmentApart
  <2>2. f.queue = q /\ f.segment = Append(s, ref)
    BY <1>2, <2>1 DEF queue_for_marking
  <2>3. SegRefs(s) = ToSet(s)
    BY <2>1 DEF SegRefs
  <2> QED
    BY <1>2, <2>2, <2>3, GrownSegment
<1>3. CASE s \in Segment /\ ~(Len(s) < SegSize)
  <2>1. s # NoSegment /\ s # Wild
    BY <1>3, NoSegmentApart
  <2>2. f.queue = add_segment_to_global_queue(q, s) /\ f.segment = <<ref>>
    BY <1>3, <2>1 DEF queue_for_marking
  <2>3. SegRefs(s) = ToSet(s)
    BY <2>1 DEF SegRefs
  <2> QED
    BY <1>3, <2>2, <2>3, PushedQueue, NewSegment
<1> QED
  BY <1>1, <1>2, <1>3

\* steal_segment_from_global_queue() takes the first segment.
LEMMA PoppedQueue ==
  ASSUME NEW q \in Seq(Segment), q # <<>>
  PROVE  /\ Head(q) \in Segment /\ Tail(q) \in Seq(Segment)
         /\ QueueRefs(q) = ToSet(Head(q)) \cup QueueRefs(Tail(q))
<1>1. Len(q) \in Nat \ {0} /\ DOMAIN q = 1 .. Len(q)
  BY LenProperties, EmptySeq
<1>2. /\ Head(q) \in Segment /\ Tail(q) \in Seq(Segment) /\ Len(Tail(q)) = Len(q) - 1
      /\ \A i \in 1 .. Len(Tail(q)) : Tail(q)[i] = q[i + 1]
  BY HeadTailProperties
<1>3. Head(q) = q[1] /\ DOMAIN Tail(q) = 1 .. Len(q) - 1
  BY <1>1, <1>2, LenProperties
<1>4. \A i \in DOMAIN Tail(q) : i + 1 \in DOMAIN q /\ Tail(q)[i] = q[i + 1]
  BY <1>1, <1>2, <1>3
<1>5. \A i \in DOMAIN q \ {1} : i - 1 \in DOMAIN Tail(q) /\ Tail(q)[i - 1] = q[i]
  BY <1>1, <1>2, <1>3
<1>6. 1 \in DOMAIN q
  BY <1>1
<1>7. ToSet(Head(q)) \cup QueueRefs(Tail(q)) \subseteq QueueRefs(q)
  BY <1>3, <1>4, <1>6 DEF QueueRefs
<1>8. QueueRefs(q) \subseteq ToSet(Head(q)) \cup QueueRefs(Tail(q))
  BY <1>3, <1>5 DEF QueueRefs
<1> QED
  BY <1>2, <1>7, <1>8

\* pup_refqueuesegment_scan() goes on to the next reference.
LEMMA PoppedSegment ==
  ASSUME NEW s \in Segment
  PROVE  /\ s # <<>> /\ Head(s) \in Ref
         /\ Tail(s) = <<>> \/ Tail(s) \in Segment
         /\ ToSet(s) = {Head(s)} \cup ToSet(Tail(s))
<1>1. s \in Seq(Ref) /\ Len(s) \in 1 .. SegSize /\ SegSize \in Nat
  BY MarkingAssumption DEF Segment
<1>2. s # <<>> /\ DOMAIN s = 1 .. Len(s)
  BY <1>1, LenProperties
<1>3. /\ Head(s) \in Ref /\ Tail(s) \in Seq(Ref) /\ Len(Tail(s)) = Len(s) - 1
      /\ \A i \in 1 .. Len(Tail(s)) : Tail(s)[i] = s[i + 1]
  BY <1>1, <1>2, HeadTailProperties
<1>4. Head(s) = s[1] /\ DOMAIN Tail(s) = 1 .. Len(s) - 1
  BY <1>1, <1>2, <1>3, LenProperties
<1>5. Tail(s) = <<>> \/ Tail(s) \in Segment
  BY <1>1, <1>3, EmptySeq DEF Segment
<1>6. \A i \in DOMAIN Tail(s) : i + 1 \in DOMAIN s /\ Tail(s)[i] = s[i + 1]
  BY <1>1, <1>2, <1>3, <1>4
<1>7. \A i \in DOMAIN s \ {1} : i - 1 \in DOMAIN Tail(s) /\ Tail(s)[i - 1] = s[i]
  BY <1>1, <1>2, <1>3, <1>4
<1>8. 1 \in DOMAIN s
  BY <1>1, <1>2
<1>9. {Head(s)} \cup ToSet(Tail(s)) \subseteq ToSet(s)
  BY <1>4, <1>6, <1>8 DEF ToSet
<1>10. ToSet(s) \subseteq {Head(s)} \cup ToSet(Tail(s))
  <2> SUFFICES ASSUME NEW i \in DOMAIN s PROVE s[i] \in {Head(s)} \cup ToSet(Tail(s))
    BY DEF ToSet
  <2>1. CASE i = 1
    BY <1>4, <2>1
  <2>2. CASE i # 1
    BY <1>7, <2>2 DEF ToSet
  <2> QED
    BY <2>1, <2>2
<1> QED
  BY <1>2, <1>3, <1>5, <1>9, <1>10

LEMMA EmptyRefs == ToSet(<<>>) = {} /\ QueueRefs(<<>>) = {}
BY DEF ToSet, QueueRefs

\* The properties' names for what is in the segments.
NamesHold ==
  /\ Queued = ToSet(seg) \cup QueueRefs(queue)
  /\ Leftover = SegRefs(current_segment)
  /\ Scanning = SegRefs(local_segment) \cup
       UNION {{roots[t][s] : s \in Unscanned} : t \in {u \in Threads : pc[u] = "scan"}}

LEMMA Names == TypeOK => NamesHold
<1> SUFFICES ASSUME TypeOK PROVE NamesHold
  OBVIOUS
<1>1. local_segment = NoSegment \/ local_segment \notin {NoSegment, Wild}
  BY NoSegmentApart DEF TypeOK
<1> QED
  BY <1>1 DEF NamesHold, Queued, QueueRefs, Leftover, SegRefs, Scanning

\* The frames and slots of a stack.
LEMMA StackShape ==
  /\ Len(Frames) \in Nat /\ DOMAIN Frames = 1 .. Len(Frames)
  /\ \A k \in DOMAIN Frames :
       /\ Len(Frames[k]) \in Nat /\ DOMAIN Frames[k] = 1 .. Len(Frames[k])
       /\ \A j \in DOMAIN Frames[k] : Frames[k][j] \in Slots
<1>1. Frames \in Seq(Seq(Slots))
  BY MarkingAssumption
<1>2. Len(Frames) \in Nat /\ DOMAIN Frames = 1 .. Len(Frames)
  BY <1>1, LenProperties
<1>3. \A k \in DOMAIN Frames : Frames[k] \in Seq(Slots)
  BY <1>1, <1>2, ElementOfSeq
<1> QED
  BY <1>2, <1>3, LenProperties, ElementOfSeq

-----------------------------------------------------------------------------
(* The steps keep the types.                                               *)

\* The process dies, or nothing happens.
Dies ==
  /\ UNCHANGED <<heapVars, gc_mark, markVars, queueVars, stackVars, scanVars, history>>
  /\ aborted' \in BOOLEAN

\* Every step is of one of these kinds.
LEMMA StepKinds ==
  ASSUME Inv, [Next]_vars
  PROVE  \/ Dies \/ PeriodStart \/ ScanHeap \/ StealSegment \/ MarkRef \/ VisitAttr
         \/ SegmentDone \/ PeriodEnd \/ \E t \in Threads : MutatorStep(t)
<1> USE DEF heapVars, markVars, queueVars, stackVars, scanVars, history
<1>1. CASE UNCHANGED vars
  BY <1>1 DEF vars, Dies, Inv, TypeOK
<1>2. CASE SegmentCreateFails \/ MarkRefCrashes
  BY <1>2 DEF SegmentCreateFails, MarkRefCrashes, Dies
<1> QED
  BY <1>1, <1>2 DEF Next, CollectorStep, ScanStep

\* find_safepoint() may abort.
LEMMA NoSafepointDies == ASSUME Inv, NEW t \in Threads, FindSafepointFails(t) PROVE Dies
BY DEF FindSafepointFails, Dies

\* The walk comes to frame k or ends; what it does not come to is left out.
LEMMA Walked ==
  ASSUME Inv, NEW t \in Threads, NEW k \in 1 .. Len(Frames) + 1,
         NEW out \in SUBSET DOMAIN Frames, Walk(t, k, out)
  PROVE  /\ cursor' \in k .. Len(Frames) + 1
         /\ missed' \in [Threads -> SUBSET DOMAIN Frames]
         /\ \A u \in Threads : missed[u] \subseteq missed'[u]
         /\ out \subseteq missed'[t]
         /\ \A j \in k .. Len(Frames) : j >= cursor' \/ j \in missed'[t]
<1>1. /\ Len(Frames) \in Nat /\ DOMAIN Frames = 1 .. Len(Frames)
      /\ missed \in [Threads -> SUBSET DOMAIN Frames]
  BY StackShape DEF Inv, TypeOK
<1>2. CASE GoTo(t, k, out)
  <2>1. cursor' = k /\ missed' = [missed EXCEPT ![t] = missed[t] \cup out]
    BY <1>2 DEF GoTo
  <2>2. cursor' \in k .. Len(Frames) + 1 /\ \A j \in k .. Len(Frames) : j >= cursor'
    BY <1>1, <2>1
  <2> QED
    BY <1>1, <2>1, <2>2
<1>3. CASE GoTo(t, Len(Frames) + 1, out \cup (k .. Len(Frames)))
  <2>1. /\ cursor' = Len(Frames) + 1
        /\ missed' = [missed EXCEPT ![t] = missed[t] \cup out \cup (k .. Len(Frames))]
    BY <1>3 DEF GoTo
  <2>2. cursor' \in k .. Len(Frames) + 1 /\ k .. Len(Frames) \subseteq DOMAIN Frames
    BY <1>1, <2>1
  <2> QED
    BY <1>1, <2>1, <2>2
<1> QED
  BY <1>2, <1>3 DEF Walk

\* The cursors of the scan after a step of the walk.
LEMMA WalkedType ==
  ASSUME cursor' \in 1 .. Len(Frames) + 1, next_root' = 1
  PROVE  next_root' \in 1 .. (IF cursor' <= Len(Frames) THEN Len(Frames[cursor']) + 1 ELSE 1)
BY StackShape

\* What ScanRoot puts into the thread's segment.
LEMMA RootQueued ==
  ASSUME Inv, NEW t \in Threads, ScanRoot(t)
  PROVE  LET ref == roots[t][Frames[cursor][next_root]]
         IN  /\ cursor \in DOMAIN Frames /\ next_root \in DOMAIN Frames[cursor]
             /\ ref \in objects \cup {Null}
             /\ queue' \in Seq(Segment) /\ local_segment' \in Segment
             /\ QueueRefs(queue') \cup SegRefs(local_segment') =
                  QueueRefs(queue) \cup SegRefs(local_segment) \cup {ref}
             /\ QueueRefs(queue) \subseteq QueueRefs(queue')
<1> DEFINE ref == roots[t][Frames[cursor][next_root]]
           f == queue_for_marking(queue, local_segment, ref)
<1>1. TypeOK
  BY DEF Inv
<1>2. cursor \in DOMAIN Frames /\ next_root \in DOMAIN Frames[cursor]
  BY <1>1, StackShape DEF ScanRoot, TypeOK
<1>3. ref \in objects \cup {Null}
  <2>1. Frames[cursor][next_root] \in Slots
    BY <1>2, StackShape
  <2> QED
    BY <1>1, <2>1 DEF TypeOK
<1>4. ref \in Ref
  BY <1>1, <1>3 DEF TypeOK, Ref
<1>5. queue' = f.queue /\ local_segment' = f.segment
  BY DEF ScanRoot
<1> HIDE DEF ref, f
<1>6. /\ f.queue \in Seq(Segment) /\ f.segment \in Segment
      /\ QueueRefs(f.queue) \cup ToSet(f.segment) =
           QueueRefs(queue) \cup SegRefs(local_segment) \cup {ref}
      /\ QueueRefs(queue) \subseteq QueueRefs(f.queue)
  BY <1>1, <1>4, QueueForMarking DEF TypeOK, f
<1>7. SegRefs(f.segment) = ToSet(f.segment)
  BY <1>6, NoSegmentApart DEF SegRefs
<1> QED
  BY <1>2, <1>3, <1>5, <1>6, <1>7 DEF ref

\* What Visit puts into the collector's segment.
LEMMA RefVisited ==
  ASSUME Inv, NEW ref \in objects \cup {Null}, Visit(ref), current_segment # Wild
  PROVE  /\ queue' \in Seq(Segment) /\ current_segment' \in Segment
         /\ QueueRefs(queue') \cup SegRefs(current_segment') =
              QueueRefs(queue) \cup SegRefs(current_segment) \cup {ref}
         /\ QueueRefs(queue) \subseteq QueueRefs(queue')
         /\ visited_refs' = visited_refs \cup {ref}
<1> DEFINE f == queue_for_marking(queue, current_segment, ref)
<1>1. TypeOK
  BY DEF Inv
<1>2. ref \in Ref /\ (current_segment = NoSegment \/ current_segment \in Segment)
  BY <1>1 DEF TypeOK, Ref
<1>3. queue' = f.queue /\ current_segment' = f.segment /\ visited_refs' = visited_refs \cup {ref}
  BY DEF Visit
<1> HIDE DEF f
<1>4. /\ f.queue \in Seq(Segment) /\ f.segment \in Segment
      /\ QueueRefs(f.queue) \cup ToSet(f.segment) =
           QueueRefs(queue) \cup SegRefs(current_segment) \cup {ref}
      /\ QueueRefs(queue) \subseteq QueueRefs(f.queue)
  BY <1>1, <1>2, QueueForMarking DEF TypeOK, f
<1>5. SegRefs(f.segment) = ToSet(f.segment)
  BY <1>4, NoSegmentApart DEF SegRefs
<1> QED
  BY <1>3, <1>4, <1>5

\* The reference being scanned, and what is left of its segment.
LEMMA SegmentHead ==
  ASSUME Inv, seg # <<>>
  PROVE  /\ seg \in Segment /\ Head(seg) \in objects \cup {Null}
         /\ Tail(seg) = <<>> \/ Tail(seg) \in Segment
         /\ ToSet(seg) = {Head(seg)} \cup ToSet(Tail(seg))
<1>1. seg \in Segment
  BY DEF Inv, TypeOK
<1>2. /\ Tail(seg) = <<>> \/ Tail(seg) \in Segment
      /\ ToSet(seg) = {Head(seg)} \cup ToSet(Tail(seg))
  BY <1>1, PoppedSegment
<1>3. ToSet(seg) \subseteq objects \cup {Null}
  BY DEF Inv, RefsExist, Queued
<1> QED
  BY <1>1, <1>2, <1>3

\* Every step keeps the variables in their types.
LEMMA TypeStep == Inv /\ [Next]_vars => TypeOK'
<1> SUFFICES ASSUME Inv, [Next]_vars PROVE TypeOK'
  OBVIOUS
<1> USE DEF heapVars, markVars, queueVars, stackVars, scanVars, history
<1>1. TypeOK
  BY DEF Inv
<1>2. CASE Dies
  BY <1>1, <1>2 DEF TypeOK, Dies
<1>3. ASSUME NEW t \in Threads, Alloc(t) PROVE TypeOK'
  <2>1. PICK o \in Objects \ objects, s \in Slots :
          /\ objects' = objects \cup {o}
          /\ attr' = [attr EXCEPT ![o] = NoAttr]
          /\ gc_mark' = [gc_mark EXCEPT ![o] = current_gc_mark[t]]
          /\ roots' = [roots EXCEPT ![t][s] = o]
    BY <1>3 DEF Alloc
  <2>2. Class \in objects' /\ objects' \subseteq Objects /\ objects \subseteq objects'
    BY <1>1, <2>1 DEF TypeOK
  <2>3. roots' \in [Threads -> [Slots -> objects' \cup {Null}]]
    BY <1>1, <2>1 DEF TypeOK
  <2>4. attr' \in [Objects -> objects' \cup {Null, NoAttr}]
    BY <1>1, <2>1 DEF TypeOK
  <2>5. gc_mark' \in [Objects -> {0, 1}]
    BY <1>1, <2>1 DEF TypeOK
  <2>6. /\ stack_refs' \in [Threads -> [DOMAIN Frames -> SUBSET (objects' \cup {Null})]]
        /\ visited_refs' \subseteq objects' \cup {Null}
    BY <1>1, <1>3, <2>2 DEF TypeOK, Alloc
  <2> QED
    BY <1>1, <1>3, <2>2, <2>3, <2>4, <2>5, <2>6 DEF TypeOK, Alloc
<1>4. ASSUME NEW t \in Threads, SetAttr(t) PROVE TypeOK'
  <2>1. PICK s \in Slots, v \in Slots : attr' = [attr EXCEPT ![roots[t][s]] = roots[t][v]]
    BY <1>4 DEF SetAttr
  <2>2. roots[t][v] \in objects \cup {Null}
    BY <1>1 DEF TypeOK
  <2>3. attr' \in [Objects -> objects \cup {Null, NoAttr}]
    BY <1>1, <2>1, <2>2 DEF TypeOK
  <2> QED
    BY <1>1, <1>4, <2>3 DEF TypeOK, SetAttr
<1>5. ASSUME NEW t \in Threads, GetAttr(t) PROVE TypeOK'
  <2>1. PICK s \in Slots, v \in Slots :
          /\ roots[t][s] # Null
          /\ roots' = [roots EXCEPT ![t][v] =
               IF attr[roots[t][s]] = NoAttr THEN Null ELSE attr[roots[t][s]]]
    BY <1>5 DEF GetAttr
  <2>2. (IF attr[roots[t][s]] = NoAttr THEN Null ELSE attr[roots[t][s]]) \in objects \cup {Null}
    <3>1. roots[t][s] \in Objects
      BY <1>1, <2>1 DEF TypeOK
    <3> QED
      BY <1>1, <3>1 DEF TypeOK
  <2>3. roots' \in [Threads -> [Slots -> objects \cup {Null}]]
    BY <1>1, <2>1, <2>2 DEF TypeOK
  <2> QED
    BY <1>1, <1>5, <2>3 DEF TypeOK, GetAttr
<1>6. ASSUME NEW t \in Threads, HandleSignal(t) PROVE TypeOK'
  BY <1>1, <1>6 DEF TypeOK, HandleSignal
<1>7. ASSUME NEW t \in Threads, ScanStack(t) PROVE TypeOK'
  <2>1. 1 \in 1 .. Len(Frames) + 1
    BY StackShape
  <2>2. cursor' \in 1 .. Len(Frames) + 1 /\ missed' \in [Threads -> SUBSET DOMAIN Frames]
    BY <1>7, <2>1, Walked DEF ScanStack
  <2>3. next_root' \in 1 .. (IF cursor' <= Len(Frames) THEN Len(Frames[cursor']) + 1 ELSE 1)
    BY <1>7, <2>2, WalkedType DEF ScanStack
  <2>4. \A k \in DOMAIN Frames : ToSet(Frames[k]) \subseteq Slots
    BY StackShape DEF ToSet
  <2>5. stack_refs' \in [Threads -> [DOMAIN Frames -> SUBSET (objects \cup {Null})]]
    BY <1>1, <1>7, <2>4 DEF TypeOK, ScanStack
  <2> QED
    BY <1>1, <1>7, <2>2, <2>3, <2>5 DEF TypeOK, ScanStack
<1>8. ASSUME NEW t \in Threads, ScanRoot(t) PROVE TypeOK'
  <2>1. /\ cursor \in DOMAIN Frames /\ next_root \in DOMAIN Frames[cursor]
        /\ queue' \in Seq(Segment) /\ local_segment' \in Segment
    BY <1>8, RootQueued
  <2>2. cursor' \in 1 .. Len(Frames) + 1
        /\ next_root' \in 1 .. (IF cursor' <= Len(Frames) THEN Len(Frames[cursor']) + 1 ELSE 1)
    BY <1>8, <2>1, StackShape DEF ScanRoot
  <2> QED
    BY <1>1, <1>8, <2>1, <2>2 DEF TypeOK, ScanRoot
<1>9. ASSUME NEW t \in Threads, FrameDone(t) PROVE TypeOK'
  <2>1. cursor + 1 \in 1 .. Len(Frames) + 1
    BY <1>1, <1>9, StackShape DEF TypeOK, FrameDone
  <2>2. cursor' \in 1 .. Len(Frames) + 1 /\ missed' \in [Threads -> SUBSET DOMAIN Frames]
    BY <1>9, <2>1, Walked, StackShape DEF FrameDone
  <2>3. next_root' \in 1 .. (IF cursor' <= Len(Frames) THEN Len(Frames[cursor']) + 1 ELSE 1)
    BY <1>9, <2>2, WalkedType DEF FrameDone
  <2>4. queue' \in Seq(Segment)
    BY <1>1, <1>9, PushedQueue DEF TypeOK, FrameDone
  <2> QED
    BY <1>1, <1>9, <2>2, <2>3, <2>4 DEF TypeOK, FrameDone
<1>10. ASSUME NEW t \in Threads, Arrive(t) PROVE TypeOK'
  <2>1. cursor' = 1 /\ next_root' = 1
    BY <1>1, <1>10, StackShape DEF TypeOK, Arrive
  <2>2. cursor' \in 1 .. Len(Frames) + 1
        /\ next_root' \in 1 .. (IF cursor' <= Len(Frames) THEN Len(Frames[cursor']) + 1 ELSE 1)
    BY <2>1, StackShape
  <2>3. gc_waiting' \in [Threads -> BOOLEAN]
    BY <1>1, <1>10 DEF TypeOK, Arrive
  <2> QED
    BY <1>1, <1>10, <2>2, <2>3 DEF TypeOK, Arrive
<1>11. CASE PeriodStart
  BY <1>1, <1>11 DEF TypeOK, PeriodStart
<1>12. CASE ScanHeap
  BY <1>1, <1>12 DEF TypeOK, ScanHeap
<1>13. CASE StealSegment
  <2>1. CASE queue = <<>>
    BY <1>1, <1>13, <2>1 DEF TypeOK, StealSegment
  <2>2. CASE queue # <<>>
    <3>1. Head(queue) \in Segment /\ Tail(queue) \in Seq(Segment)
      BY <1>1, <2>2, PoppedQueue DEF TypeOK
    <3> QED
      BY <1>1, <1>13, <2>2, <3>1 DEF TypeOK, StealSegment
  <2> QED
    BY <2>1, <2>2
<1>14. CASE MarkRef
  <2>1. seg # <<>> /\ Head(seg) \in objects \cup {Null}
    BY <1>14, SegmentHead DEF MarkRef
  <2>2. CASE gc_mark[Head(seg)] = live_mark_value
    BY <1>1, <1>14, <2>1, <2>2, SegmentHead DEF TypeOK, MarkRef
  <2>3. CASE gc_mark[Head(seg)] # live_mark_value
    <3>1. current_segment # Wild /\ Class \in objects /\ Visit(Class)
      BY <1>1, <1>14, <2>3 DEF TypeOK, MarkRef, Crash
    <3>2. /\ queue' \in Seq(Segment) /\ current_segment' \in Segment
          /\ visited_refs' = visited_refs \cup {Class}
      BY <3>1, RefVisited
    <3>3. gc_mark' \in [Objects -> {0, 1}]
      BY <1>1, <1>14, <2>3 DEF TypeOK, MarkRef
    <3> QED
      BY <1>1, <1>14, <2>3, <3>1, <3>2, <3>3 DEF TypeOK, MarkRef
  <2> QED
    BY <2>2, <2>3
<1>15. CASE VisitAttr
  <2>1. seg # <<>> /\ Head(seg) \in objects /\ current_segment \in Segment
    BY <1>15 DEF VisitAttr, Inv, CollectInv
  <2>2. Tail(seg) = <<>> \/ Tail(seg) \in Segment
    BY <2>1, SegmentHead
  <2>3. CASE attr[Head(seg)] = NoAttr
    BY <1>1, <1>15, <2>2, <2>3 DEF TypeOK, VisitAttr
  <2>4. CASE attr[Head(seg)] # NoAttr
    <3>1. attr[Head(seg)] \in objects \cup {Null}
      BY <1>1, <2>1, <2>4 DEF TypeOK
    <3>2. current_segment # Wild /\ Visit(attr[Head(seg)])
      BY <1>15, <2>1, <2>4, NoSegmentApart DEF VisitAttr
    <3>3. /\ queue' \in Seq(Segment) /\ current_segment' \in Segment
          /\ visited_refs' = visited_refs \cup {attr[Head(seg)]}
      BY <3>1, <3>2, RefVisited
    <3> QED
      BY <1>1, <1>15, <2>2, <3>1, <3>3 DEF TypeOK, VisitAttr
  <2> QED
    BY <2>3, <2>4
<1>16. CASE SegmentDone
  BY <1>1, <1>16 DEF TypeOK, SegmentDone
<1>17. CASE PeriodEnd
  <2>1. /\ stack_refs' \in [Threads -> [DOMAIN Frames -> SUBSET (objects \cup {Null})]]
        /\ missed' \in [Threads -> SUBSET DOMAIN Frames]
    BY <1>17 DEF PeriodEnd, NoFrames
  <2> QED
    BY <1>1, <1>17, <2>1 DEF TypeOK, PeriodEnd
<1>18. ASSUME NEW t \in Threads, SkipFrame(t) PROVE TypeOK'
  <2>1. cursor + 1 \in 1 .. Len(Frames) + 1 /\ {cursor} \in SUBSET DOMAIN Frames
    BY <1>1, <1>18, StackShape DEF TypeOK, SkipFrame
  <2>2. cursor' \in 1 .. Len(Frames) + 1 /\ missed' \in [Threads -> SUBSET DOMAIN Frames]
    BY <1>18, <2>1, Walked, StackShape DEF SkipFrame
  <2>3. next_root' \in 1 .. (IF cursor' <= Len(Frames) THEN Len(Frames[cursor']) + 1 ELSE 1)
    BY <1>18, <2>2, WalkedType DEF SkipFrame
  <2> QED
    BY <1>1, <1>18, <2>2, <2>3 DEF TypeOK, SkipFrame
<1>19. ASSUME NEW t \in Threads, FindSafepointFails(t) PROVE TypeOK'
  BY <1>2, <1>19, NoSafepointDies
<1> QED
  BY <1>2, <1>3, <1>4, <1>5, <1>6, <1>7, <1>8, <1>9, <1>10, <1>11, <1>12, <1>13, <1>14, <1>15,
     <1>16, <1>17, <1>18, <1>19, StepKinds DEF MutatorStep

-----------------------------------------------------------------------------
(* The steps keep the rest of the invariant.                               *)

LEMMA InvFacts ==
  ASSUME Inv
  PROVE  /\ TypeOK /\ WaitInv /\ CollectInv
         /\ ToSet(seg) \subseteq objects \cup {Null}
         /\ QueueRefs(queue) \subseteq objects \cup {Null}
         /\ SegRefs(current_segment) \subseteq objects \cup {Null}
         /\ SegRefs(local_segment) \subseteq objects \cup {Null}
         /\ \A u \in Threads : \A k \in DOMAIN Frames \ missed[u] : \A o \in stack_refs[u][k] \ {Null} :
              \/ Marked(o) \/ o \in ToSet(seg) \/ o \in QueueRefs(queue)
              \/ o \in SegRefs(local_segment) \/ InScan(u, k, o)
         /\ \A o \in visited_refs \ {Null} :
              \/ Marked(o) \/ o \in ToSet(seg) \/ o \in QueueRefs(queue)
              \/ o \in SegRefs(current_segment)
<1>1. TypeOK /\ NamesHold
  BY Names DEF Inv
<1> QED
  BY <1>1 DEF Inv, NamesHold, RefsExist, StackInv, VisitInv, InScan

\* The other way round, for the next state.
FactsHold ==
  /\ WaitInv /\ CollectInv
  /\ ToSet(seg) \subseteq objects \cup {Null}
  /\ QueueRefs(queue) \subseteq objects \cup {Null}
  /\ SegRefs(current_segment) \subseteq objects \cup {Null}
  /\ SegRefs(local_segment) \subseteq objects \cup {Null}
  /\ \A u \in Threads : \A k \in DOMAIN Frames \ missed[u] : \A o \in stack_refs[u][k] \ {Null} :
       \/ Marked(o) \/ o \in ToSet(seg) \/ o \in QueueRefs(queue)
       \/ o \in SegRefs(local_segment) \/ InScan(u, k, o)
  /\ \A o \in visited_refs \ {Null} :
       \/ Marked(o) \/ o \in ToSet(seg) \/ o \in QueueRefs(queue)
       \/ o \in SegRefs(current_segment)

LEMMA FactsToInv == TypeOK /\ FactsHold => Inv
<1> SUFFICES ASSUME TypeOK, FactsHold PROVE Inv
  OBVIOUS
<1>1. NamesHold
  BY Names
<1> QED
  BY <1>1 DEF Inv, FactsHold, NamesHold, RefsExist, StackInv, VisitInv, InScan

\* A step that touches neither the queue nor what is scanned.
LEMMA QuietStep ==
  ASSUME Inv, TypeOK',
         UNCHANGED <<queueVars, stackVars, scanVars, history, gc_waiting, live_mark_value>>,
         objects \subseteq objects',
         \A o \in objects : gc_mark'[o] = gc_mark[o],
         \A u \in Threads : pc[u] = "scan" => roots'[u] = roots[u]
  PROVE  FactsHold'
<1> USE DEF queueVars, stackVars, scanVars, history
<1>1. \A o \in objects : Marked(o)' <=> Marked(o)
  BY DEF Marked
<1>2. /\ \A u \in Threads : \A k \in DOMAIN Frames : stack_refs[u][k] \subseteq objects \cup {Null}
      /\ visited_refs \subseteq objects \cup {Null} /\ Null \notin objects
  BY MarkingAssumption DEF Inv, TypeOK
<1>4. \A u \in Threads : \A k \in DOMAIN Frames : \A o : InScan(u, k, o) => InScan(u, k, o)'
  BY DEF InScan
<1>5. WaitInv'
  BY InvFacts DEF WaitInv
<1>6. CollectInv'
  BY <1>1, InvFacts DEF CollectInv
<1>7. \A u \in Threads : \A k \in DOMAIN Frames \ missed[u] : \A o \in stack_refs[u][k] \ {Null} :
        \/ Marked(o)' \/ o \in ToSet(seg) \/ o \in QueueRefs(queue)
        \/ o \in SegRefs(local_segment) \/ InScan(u, k, o)'
  BY <1>1, <1>2, <1>4, InvFacts
<1>8. \A o \in visited_refs \ {Null} :
        \/ Marked(o)' \/ o \in ToSet(seg) \/ o \in QueueRefs(queue)
        \/ o \in SegRefs(current_segment)
  BY <1>1, <1>2, InvFacts
<1> QED
  BY <1>5, <1>6, <1>7, <1>8, InvFacts DEF FactsHold

\* The steps of the program, apart from the safepoint.
LEMMA HeapStep ==
  ASSUME Inv, TypeOK', Dies \/ \E t \in Threads : Alloc(t) \/ SetAttr(t) \/ GetAttr(t)
  PROVE  FactsHold'
<1> USE DEF heapVars, markVars, queueVars, stackVars, scanVars, history
<1>1. TypeOK
  BY DEF Inv
<1>2. CASE Dies
  BY <1>2, QuietStep DEF Dies
<1>3. ASSUME NEW t \in Threads, Alloc(t) PROVE FactsHold'
  <2>1. PICK o \in Objects \ objects, s \in Slots :
          /\ objects' = objects \cup {o}
          /\ gc_mark' = [gc_mark EXCEPT ![o] = current_gc_mark[t]]
          /\ roots' = [roots EXCEPT ![t][s] = o]
    BY <1>3 DEF Alloc
  <2>2. \A x \in objects : gc_mark'[x] = gc_mark[x]
    BY <1>1, <2>1 DEF TypeOK
  <2>3. \A u \in Threads : u # t => roots'[u] = roots[u]
    BY <1>1, <2>1 DEF TypeOK
  <2>4. /\ UNCHANGED <<queueVars, stackVars, scanVars, history, gc_waiting, live_mark_value>>
        /\ pc[t] = "run"
    BY <1>3 DEF Alloc
  <2>5. objects \subseteq objects' /\ \A u \in Threads : pc[u] = "scan" => roots'[u] = roots[u]
    BY <2>1, <2>3, <2>4
  <2> QED
    BY <2>2, <2>4, <2>5, QuietStep
<1>4. ASSUME NEW t \in Threads, SetAttr(t) PROVE FactsHold'
  BY <1>4, QuietStep DEF SetAttr
<1>5. ASSUME NEW t \in Threads, GetAttr(t) PROVE FactsHold'
  <2>1. \A u \in Threads : u # t => roots'[u] = roots[u]
    BY <1>1, <1>5 DEF TypeOK, GetAttr
  <2>2. /\ UNCHANGED <<queueVars, stackVars, scanVars, history, gc_waiting, live_mark_value>>
        /\ pc[t] = "run" /\ UNCHANGED <<objects, gc_mark>>
    BY <1>5 DEF GetAttr
  <2> QED
    BY <2>1, <2>2, QuietStep
<1> QED
  BY <1>2, <1>3, <1>4, <1>5

\* siguser1_handler() runs on the thread the collector waits for.
LEMMA HandleSignalStep ==
  ASSUME Inv, TypeOK', NEW t \in Threads, HandleSignal(t)
  PROVE  FactsHold'
<1> USE DEF heapVars, queueVars, stackVars, scanVars, history
<1>1. /\ UNCHANGED <<heapVars, gc_mark, live_mark_value, queueVars, stackVars, scanVars, history>>
      /\ gc = "converge" /\ t \in remaining /\ \A u \in Threads : ~gc_waiting[u]
      /\ \A u \in Threads : gc_waiting'[u] <=> u = t
  BY DEF HandleSignal, Inv, TypeOK
<1>2. /\ \A o : Marked(o)' <=> Marked(o)
      /\ \A u \in Threads : \A k \in DOMAIN Frames : \A o : InScan(u, k, o)' <=> InScan(u, k, o)
  BY <1>1 DEF Marked, InScan
<1>3. WaitInv'
  BY <1>1, InvFacts DEF WaitInv
<1>4. CollectInv'
  BY <1>1, <1>2, InvFacts DEF CollectInv
<1> QED
  BY <1>1, <1>2, <1>3, <1>4, InvFacts DEF FactsHold

\* Only the thread that the collector waits for scans its stack.
LEMMA OneScanner ==
  ASSUME Inv, NEW t \in Threads, gc_waiting[t]
  PROVE  /\ gc = "converge" /\ t \in remaining
         /\ \A u \in Threads : pc[u] = "scan" => u = t
         /\ pc[t] = "run" => local_segment = NoSegment
BY InvFacts DEF WaitInv

\* pup_gc_scan_stack() begins.
LEMMA ScanStackStep ==
  ASSUME Inv, TypeOK', NEW t \in Threads, ScanStack(t)
  PROVE  FactsHold'
<1> USE DEF heapVars, markVars, queueVars, scanVars
<1>1. /\ UNCHANGED <<heapVars, gc_mark, markVars, queueVars, scanVars, visited_refs>>
      /\ pc[t] = "run" /\ gc_waiting[t] /\ next_root' = 1 /\ local_segment' = NoSegment
      /\ Walk(t, 1, {})
      /\ \A u \in Threads : pc'[u] = IF u = t THEN "scan" ELSE pc[u]
      /\ \A u \in Threads : u # t => stack_refs'[u] = stack_refs[u]
      /\ \A k \in DOMAIN Frames : stack_refs'[t][k] = {roots[t][s] : s \in ToSet(Frames[k])}
  BY DEF ScanStack, Inv, TypeOK
<1>2. \A o : Marked(o)' <=> Marked(o)
  BY <1>1 DEF Marked
<1>3. gc = "converge" /\ t \in remaining /\ local_segment = NoSegment
      /\ \A u \in Threads : pc[u] = "run"
  BY <1>1, OneScanner DEF Inv, TypeOK
<1>4. WaitInv'
  BY <1>1, InvFacts DEF WaitInv
<1>5. CollectInv'
  BY <1>1, <1>2, <1>3, InvFacts DEF CollectInv
<1>6. SegRefs(local_segment') = {} /\ SegRefs(local_segment) = {}
  BY <1>1, <1>3 DEF SegRefs
<1>7. /\ \A u \in Threads : missed[u] \subseteq missed'[u]
      /\ \A j \in 1 .. Len(Frames) : j >= cursor' \/ j \in missed'[t]
      /\ cursor' \in Nat
  <2>1. 1 \in 1 .. Len(Frames) + 1 /\ Len(Frames) \in Nat
    BY StackShape
  <2> QED
    BY <1>1, <2>1, Walked
<1>8. \A k \in DOMAIN Frames \ missed'[t] : \A o \in stack_refs'[t][k] : InScan(t, k, o)'
  <2> SUFFICES ASSUME NEW k \in DOMAIN Frames \ missed'[t], NEW o \in stack_refs'[t][k]
               PROVE  InScan(t, k, o)'
    OBVIOUS
  <2>1. PICK j \in DOMAIN Frames[k] : o = roots[t][Frames[k][j]]
    BY <1>1 DEF ToSet
  <2>2. k \in 1 .. Len(Frames) /\ k \in Nat /\ j \in Nat \ {0}
    BY StackShape
  <2>3. k > cursor' \/ (k = cursor' /\ j >= next_root')
    BY <1>1, <1>7, <2>2
  <2> QED
    BY <1>1, <2>1, <2>3 DEF InScan
<1>9. \A u \in Threads : \A k \in DOMAIN Frames : \A o : ~InScan(u, k, o)
  BY <1>3 DEF InScan
<1>10. \A u \in Threads : \A k \in DOMAIN Frames \ missed'[u] : \A o \in stack_refs'[u][k] \ {Null} :
         \/ Marked(o)' \/ o \in ToSet(seg) \/ o \in QueueRefs(queue) \/ InScan(u, k, o)'
  <2> SUFFICES ASSUME NEW u \in Threads, NEW k \in DOMAIN Frames \ missed'[u],
                      NEW o \in stack_refs'[u][k] \ {Null}
               PROVE  \/ Marked(o)' \/ o \in ToSet(seg) \/ o \in QueueRefs(queue)
                      \/ InScan(u, k, o)'
    OBVIOUS
  <2>1. CASE u = t
    BY <1>8, <2>1
  <2>2. CASE u # t
    BY <1>1, <1>2, <1>6, <1>7, <1>9, <2>2, InvFacts
  <2> QED
    BY <2>1, <2>2
<1> QED
  BY <1>1, <1>2, <1>4, <1>5, <1>6, <1>10, InvFacts DEF FactsHold

\* A root is put into the thread's segment.
LEMMA ScanRootStep ==
  ASSUME Inv, TypeOK', NEW t \in Threads, ScanRoot(t)
  PROVE  FactsHold'
<1> USE DEF heapVars, markVars, scanVars, history
<1> DEFINE slot == Frames[cursor][next_root]
           ref == roots[t][slot]
<1>1. /\ UNCHANGED <<heapVars, gc_mark, markVars, current_segment, pc, cursor, scanVars, history>>
      /\ pc[t] = "scan" /\ next_root' = next_root + 1 /\ cursor <= Len(Frames)
  BY DEF ScanRoot
<1>2. /\ cursor \in DOMAIN Frames /\ next_root \in DOMAIN Frames[cursor]
      /\ ref \in objects \cup {Null}
      /\ QueueRefs(queue') \cup SegRefs(local_segment') =
           QueueRefs(queue) \cup SegRefs(local_segment) \cup {ref}
      /\ QueueRefs(queue) \subseteq QueueRefs(queue')
  BY RootQueued
<1>3. \A o : Marked(o)' <=> Marked(o)
  BY <1>1 DEF Marked
<1>4. gc_waiting[t] /\ gc = "converge" /\ \A u \in Threads : pc[u] = "scan" => u = t
  BY <1>1, OneScanner, InvFacts DEF WaitInv
<1>5. WaitInv'
  <2>1. next_root' # 1
    BY <1>1 DEF ScanRoot, Inv, TypeOK
  <2> QED
    BY <1>1, <2>1, InvFacts DEF WaitInv
<1>6. CollectInv'
  BY <1>1, <1>3, <1>4, InvFacts DEF CollectInv
<1>7. next_root \in Nat
  BY DEF Inv, TypeOK
<1>8. \A u \in Threads : \A k \in DOMAIN Frames : \A o : InScan(u, k, o) => InScan(u, k, o)' \/ o = ref
  <2> SUFFICES ASSUME NEW u \in Threads, NEW k \in DOMAIN Frames, NEW o, InScan(u, k, o)
               PROVE  InScan(u, k, o)' \/ o = ref
    OBVIOUS
  <2>1. u = t
    BY <1>4 DEF InScan
  <2>2. PICK j \in DOMAIN Frames[k] :
          /\ o = roots[t][Frames[k][j]]
          /\ k > cursor \/ (k = cursor /\ j >= next_root)
    BY <2>1 DEF InScan
  <2>3. CASE k = cursor /\ j = next_root
    BY <2>2, <2>3
  <2>4. CASE ~(k = cursor /\ j = next_root)
    <3>1. j \in Nat
      BY StackShape
    <3>2. k > cursor' \/ (k = cursor' /\ j >= next_root')
      BY <1>1, <1>7, <2>2, <2>4, <3>1
    <3> QED
      BY <1>1, <2>1, <2>2, <3>2 DEF InScan
  <2> QED
    BY <2>3, <2>4
<1>9. \A u \in Threads : \A k \in DOMAIN Frames \ missed[u] : \A o \in stack_refs[u][k] \ {Null} :
        \/ Marked(o)' \/ o \in ToSet(seg) \/ o \in QueueRefs(queue')
        \/ o \in SegRefs(local_segment') \/ InScan(u, k, o)'
  <2> HIDE DEF ref
  <2> QED
    BY <1>2, <1>3, <1>8, InvFacts
<1>10. \A o \in visited_refs \ {Null} :
        \/ Marked(o)' \/ o \in ToSet(seg) \/ o \in QueueRefs(queue')
        \/ o \in SegRefs(current_segment)
  BY <1>2, <1>3, InvFacts
<1>11. QueueRefs(queue') \cup SegRefs(local_segment') \subseteq objects \cup {Null}
  BY <1>2, InvFacts
<1> QED
  BY <1>1, <1>5, <1>6, <1>9, <1>10, <1>11, InvFacts DEF FactsHold

\* A step of the walk beyond the frame it stands at keeps every root of the
\* frames that are not left out, except for those of that frame.
LEMMA WalkKeeps ==
  ASSUME Inv, NEW t \in Threads, NEW out \in SUBSET DOMAIN Frames, Walk(t, cursor + 1, out),
         pc[t] = "scan", cursor <= Len(Frames), next_root' = 1, UNCHANGED <<roots, pc>>
  PROVE  /\ \A u \in Threads : missed[u] \subseteq missed'[u]
         /\ \A u \in Threads : \A k \in DOMAIN Frames \ missed'[u] : \A o :
              InScan(u, k, o) /\ k # cursor => InScan(u, k, o)'
<1>1. /\ cursor \in Nat /\ Len(Frames) \in Nat /\ DOMAIN Frames = 1 .. Len(Frames)
      /\ cursor + 1 \in 1 .. Len(Frames) + 1
  BY StackShape DEF Inv, TypeOK
<1>2. /\ cursor' \in cursor + 1 .. Len(Frames) + 1
      /\ \A u \in Threads : missed[u] \subseteq missed'[u]
      /\ \A j \in cursor + 1 .. Len(Frames) : j >= cursor' \/ j \in missed'[t]
  BY <1>1, Walked
<1>3. \A u \in Threads : pc[u] = "scan" => u = t
  BY OneScanner, InvFacts DEF WaitInv
<1> SUFFICES ASSUME NEW u \in Threads, NEW k \in DOMAIN Frames \ missed'[u], NEW o,
                    InScan(u, k, o), k # cursor
             PROVE  InScan(u, k, o)'
  BY <1>2
<1>4. u = t /\ pc'[u] = "scan"
  BY <1>3 DEF InScan
<1>5. PICK j \in DOMAIN Frames[k] : o = roots[u][Frames[k][j]] /\ k > cursor
  BY DEF InScan
<1>6. k \in Nat /\ j \in Nat \ {0} /\ k \in cursor + 1 .. Len(Frames)
  BY <1>1, <1>5, StackShape
<1>7. k > cursor' \/ (k = cursor' /\ j >= next_root')
  BY <1>1, <1>2, <1>4, <1>6
<1> QED
  BY <1>4, <1>5, <1>7 DEF InScan

\* The segment of a frame is queued.
LEMMA FrameDoneStep ==
  ASSUME Inv, TypeOK', NEW t \in Threads, FrameDone(t)
  PROVE  FactsHold'
<1> USE DEF heapVars, markVars, scanVars
<1>1. /\ UNCHANGED <<heapVars, gc_mark, markVars, current_segment, pc, scanVars, stack_refs,
                      visited_refs>>
      /\ pc[t] = "scan" /\ cursor <= Len(Frames) /\ next_root > Len(Frames[cursor])
      /\ local_segment' = NoSegment /\ next_root' = 1
      /\ Walk(t, cursor + 1, {})
  BY DEF FrameDone
<1>2. QueueRefs(queue') = QueueRefs(queue) \cup SegRefs(local_segment)
  <2>1. CASE local_segment = NoSegment
    BY <2>1 DEF FrameDone, SegRefs
  <2>2. CASE local_segment # NoSegment
    <3>1. local_segment \in Segment /\ queue \in Seq(Segment)
      BY <2>2 DEF Inv, TypeOK
    <3>2. SegRefs(local_segment) = ToSet(local_segment)
      BY <3>1, NoSegmentApart DEF SegRefs
    <3> QED
      BY <2>2, <3>1, <3>2, PushedQueue DEF FrameDone
  <2> QED
    BY <2>1, <2>2
<1>3. SegRefs(local_segment') = {}
  BY <1>1 DEF SegRefs
<1>4. \A o : Marked(o)' <=> Marked(o)
  BY <1>1 DEF Marked
<1>5. gc_waiting[t] /\ gc = "converge" /\ \A u \in Threads : pc[u] = "scan" => u = t
  BY <1>1, OneScanner, InvFacts DEF WaitInv
<1>6. WaitInv'
  BY <1>1, InvFacts DEF WaitInv
<1>7. CollectInv'
  BY <1>1, <1>4, <1>5, InvFacts DEF CollectInv
<1>8. \A o : ~InScan(t, cursor, o)
  <2>1. \A j \in DOMAIN Frames[cursor] : ~(j >= next_root) /\ ~(cursor > cursor)
    BY <1>1, StackShape DEF Inv, TypeOK
  <2> QED
    BY <2>1 DEF InScan
<1>9. /\ \A u \in Threads : missed[u] \subseteq missed'[u]
      /\ \A u \in Threads : \A k \in DOMAIN Frames \ missed'[u] : \A o :
           InScan(u, k, o) => InScan(u, k, o)'
  <2>1. /\ \A u \in Threads : missed[u] \subseteq missed'[u]
        /\ \A u \in Threads : \A k \in DOMAIN Frames \ missed'[u] : \A o :
             InScan(u, k, o) /\ k # cursor => InScan(u, k, o)'
    BY <1>1, WalkKeeps
  <2>2. \A u \in Threads : \A k \in DOMAIN Frames : \A o : InScan(u, k, o) => u = t
    BY <1>5 DEF InScan
  <2> QED
    BY <1>8, <2>1, <2>2
<1>10. QueueRefs(queue') \subseteq objects \cup {Null}
  BY <1>2, InvFacts
<1>11. \A u \in Threads : \A k \in DOMAIN Frames \ missed'[u] : \A o \in stack_refs[u][k] \ {Null} :
        \/ Marked(o)' \/ o \in ToSet(seg) \/ o \in QueueRefs(queue') \/ InScan(u, k, o)'
  BY <1>2, <1>4, <1>9, InvFacts
<1>12. \A o \in visited_refs \ {Null} :
        \/ Marked(o)' \/ o \in ToSet(seg) \/ o \in QueueRefs(queue')
        \/ o \in SegRefs(current_segment)
  BY <1>2, <1>4, InvFacts
<1> QED
  BY <1>1, <1>3, <1>6, <1>7, <1>10, <1>11, <1>12, InvFacts DEF FactsHold

\* A frame is left out.
LEMMA SkipFrameStep ==
  ASSUME Inv, TypeOK', NEW t \in Threads, SkipFrame(t)
  PROVE  FactsHold'
<1> USE DEF heapVars, markVars, queueVars, scanVars
<1>1. /\ UNCHANGED <<heapVars, gc_mark, markVars, queueVars, pc, next_root, local_segment, scanVars,
                      stack_refs, visited_refs>>
      /\ pc[t] = "scan" /\ cursor <= Len(Frames) /\ next_root = 1 /\ next_root' = 1
      /\ Walk(t, cursor + 1, {cursor})
  BY DEF SkipFrame
<1>2. \A o : Marked(o)' <=> Marked(o)
  BY <1>1 DEF Marked
<1>3. gc = "converge" /\ \A u \in Threads : pc[u] = "scan" => u = t
  BY <1>1, OneScanner, InvFacts DEF WaitInv
<1>4. WaitInv'
  BY <1>1, InvFacts DEF WaitInv
<1>5. CollectInv'
  BY <1>1, <1>2, <1>3, InvFacts DEF CollectInv
<1>6. cursor + 1 \in 1 .. Len(Frames) + 1 /\ {cursor} \in SUBSET DOMAIN Frames
  BY <1>1, StackShape DEF Inv, TypeOK
<1>7. /\ \A u \in Threads : missed[u] \subseteq missed'[u]
      /\ \A u \in Threads : \A k \in DOMAIN Frames \ missed'[u] : \A o :
           InScan(u, k, o) => InScan(u, k, o)'
  <2>1. cursor \in missed'[t]
    BY <1>1, <1>6, Walked
  <2>2. /\ \A u \in Threads : missed[u] \subseteq missed'[u]
        /\ \A u \in Threads : \A k \in DOMAIN Frames \ missed'[u] : \A o :
             InScan(u, k, o) /\ k # cursor => InScan(u, k, o)'
    BY <1>1, <1>6, WalkKeeps
  <2>3. \A u \in Threads : \A k \in DOMAIN Frames : \A o : InScan(u, k, o) => u = t
    BY <1>3 DEF InScan
  <2> QED
    BY <2>1, <2>2, <2>3
<1>8. \A u \in Threads : \A k \in DOMAIN Frames \ missed'[u] : \A o \in stack_refs[u][k] \ {Null} :
        \/ Marked(o)' \/ o \in ToSet(seg) \/ o \in QueueRefs(queue)
        \/ o \in SegRefs(local_segment) \/ InScan(u, k, o)'
  BY <1>2, <1>7, InvFacts
<1> QED
  BY <1>1, <1>2, <1>4, <1>5, <1>8, InvFacts DEF FactsHold

\* The thread has scanned its whole stack.
LEMMA ArriveStep ==
  ASSUME Inv, TypeOK', NEW t \in Threads, Arrive(t)
  PROVE  FactsHold'
<1> USE DEF heapVars, queueVars, history
<1>1. /\ UNCHANGED <<heapVars, gc_mark, live_mark_value, queueVars, local_segment, gc, seg, history>>
      /\ pc[t] = "scan" /\ cursor > Len(Frames) /\ cursor' = 1
      /\ \A u \in Threads : pc'[u] = IF u = t THEN "run" ELSE pc[u]
      /\ \A u \in Threads : gc_waiting'[u] <=> u # t /\ gc_waiting[u]
      /\ remaining' = remaining \ {t}
  BY DEF Arrive, Inv, TypeOK
<1>2. gc_waiting[t] /\ gc = "converge" /\ \A u \in Threads : pc[u] = "scan" => u = t
  BY <1>1, OneScanner, InvFacts DEF WaitInv
<1>3. local_segment = NoSegment /\ SegRefs(local_segment) = {}
  BY <1>1, InvFacts, StackShape DEF WaitInv, SegRefs, TypeOK
<1>4. \A o : Marked(o)' <=> Marked(o)
  BY <1>1 DEF Marked
<1>5. WaitInv'
  BY <1>1, <1>2, <1>3, InvFacts DEF WaitInv
<1>6. CollectInv'
  BY <1>1, <1>2, <1>4, InvFacts DEF CollectInv
<1>7. \A k \in DOMAIN Frames : ~(k > cursor) /\ k # cursor
  BY <1>1, StackShape DEF Inv, TypeOK
<1>8. \A u \in Threads : \A k \in DOMAIN Frames : \A o : ~InScan(u, k, o)
  BY <1>7 DEF InScan
<1>9. \A u \in Threads : \A k \in DOMAIN Frames \ missed[u] : \A o \in stack_refs[u][k] \ {Null} :
        Marked(o)' \/ o \in ToSet(seg) \/ o \in QueueRefs(queue)
  BY <1>3, <1>4, <1>8, InvFacts
<1> QED
  BY <1>1, <1>4, <1>5, <1>6, <1>9, InvFacts DEF FactsHold

\* Outside the convergence no thread is scanning.
LEMMA NobodyScans ==
  ASSUME Inv, gc # "converge"
  PROVE  /\ \A u \in Threads : ~gc_waiting[u] /\ pc[u] = "run"
         /\ local_segment = NoSegment /\ SegRefs(local_segment) = {}
         /\ \A u \in Threads : \A k \in DOMAIN Frames : \A o : ~InScan(u, k, o)
<1>1. \A u \in Threads : ~gc_waiting[u] /\ pc[u] = "run"
  BY InvFacts DEF WaitInv, TypeOK
<1>2. local_segment = NoSegment
  BY <1>1, InvFacts DEF WaitInv
<1> QED
  BY <1>1, <1>2 DEF SegRefs, InScan

\* The collector begins and ends a period, and goes from one part to the next.
LEMMA PeriodStep ==
  ASSUME Inv, TypeOK', PeriodStart \/ ScanHeap \/ SegmentDone \/ PeriodEnd
  PROVE  FactsHold'
<1> USE DEF heapVars, markVars, queueVars, stackVars, history
<1>1. /\ UNCHANGED <<heapVars, queueVars, stackVars, gc_waiting, gc_mark, seg>>
      /\ \A u \in Threads : \A k \in DOMAIN Frames : \A o : InScan(u, k, o)' <=> InScan(u, k, o)
  BY DEF PeriodStart, ScanHeap, SegmentDone, PeriodEnd, InScan
<1>2. CASE PeriodStart
  <2>1. /\ stack_refs' = NoFrames /\ visited_refs' = {} /\ gc' = "converge" /\ seg = <<>>
        /\ \A u \in Threads : ~gc_waiting[u] /\ pc[u] = "run"
        /\ local_segment = NoSegment
        /\ \A u \in Threads : \A k \in DOMAIN Frames : stack_refs'[u][k] = {}
    BY <1>2, InvFacts, NobodyScans DEF PeriodStart, CollectInv, NoFrames
  <2>2. WaitInv' /\ CollectInv'
    BY <1>1, <2>1 DEF WaitInv, CollectInv
  <2> QED
    BY <1>1, <2>1, <2>2, InvFacts DEF FactsHold
<1>3. CASE ScanHeap
  <2>1. /\ gc' = "steal" /\ seg = <<>> /\ UNCHANGED <<live_mark_value, history>>
        /\ \A u \in Threads : ~gc_waiting[u] /\ pc[u] # "scan"
    BY <1>3, InvFacts DEF ScanHeap, CollectInv, WaitInv
  <2>2. \A o : Marked(o)' <=> Marked(o)
    BY <1>1, <2>1 DEF Marked
  <2>3. WaitInv' /\ CollectInv'
    BY <1>1, <2>1, InvFacts DEF WaitInv, CollectInv
  <2> QED
    BY <1>1, <2>1, <2>2, <2>3, InvFacts DEF FactsHold
<1>4. CASE SegmentDone
  <2>1. /\ gc = "mark" /\ gc' = "steal" /\ seg = <<>> /\ UNCHANGED <<live_mark_value, history>>
        /\ remaining' = remaining
    BY <1>4 DEF SegmentDone
  <2>2. \A o : Marked(o)' <=> Marked(o)
    BY <1>1, <2>1 DEF Marked
  <2>3. WaitInv' /\ CollectInv'
    BY <1>1, <2>1, InvFacts DEF WaitInv, CollectInv
  <2> QED
    BY <1>1, <2>1, <2>2, <2>3, InvFacts DEF FactsHold
<1>5. CASE PeriodEnd
  <2>1. /\ gc = "done" /\ gc' = "sleep" /\ seg = <<>>
        /\ stack_refs' = NoFrames /\ visited_refs' = {}
        /\ \A u \in Threads : \A k \in DOMAIN Frames : stack_refs'[u][k] = {}
        /\ remaining' = remaining
    BY <1>5, InvFacts DEF PeriodEnd, CollectInv, NoFrames
  <2>2. WaitInv' /\ CollectInv'
    BY <1>1, <2>1, InvFacts DEF WaitInv, CollectInv
  <2> QED
    BY <1>1, <2>1, <2>2, InvFacts DEF FactsHold
<1> QED
  BY <1>2, <1>3, <1>4, <1>5

\* A segment is taken off the queue.
LEMMA StealSegmentStep ==
  ASSUME Inv, TypeOK', StealSegment
  PROVE  FactsHold'
<1> USE DEF heapVars, markVars, stackVars, history
<1>1. /\ gc = "steal" /\ seg = <<>>
      /\ UNCHANGED <<heapVars, gc_mark, markVars, current_segment, stackVars, remaining, history>>
  BY InvFacts DEF StealSegment, CollectInv
<1>2. /\ \A o : Marked(o)' <=> Marked(o)
      /\ \A u \in Threads : \A k \in DOMAIN Frames : \A o : InScan(u, k, o)' <=> InScan(u, k, o)
  BY <1>1 DEF Marked, InScan
<1>3. \A u \in Threads : ~gc_waiting[u]
  BY <1>1, NobodyScans
<1>4. WaitInv'
  BY <1>1, <1>3, InvFacts DEF WaitInv
<1>5. CASE queue = <<>>
  <2>1. gc' = "done" /\ queue' = queue /\ seg' = seg
    BY <1>5 DEF StealSegment
  <2>2. CollectInv'
    BY <1>1, <1>5, <2>1 DEF CollectInv
  <2> QED
    BY <1>1, <1>2, <1>4, <2>1, <2>2, InvFacts DEF FactsHold
<1>6. CASE queue # <<>>
  <2>1. gc' = "mark" /\ queue' = Tail(queue) /\ seg' = Head(queue)
    BY <1>6 DEF StealSegment
  <2>2. QueueRefs(queue) = ToSet(seg') \cup QueueRefs(queue')
    BY <1>6, <2>1, PoppedQueue, InvFacts DEF TypeOK
  <2>3. CollectInv'
    BY <2>1 DEF CollectInv
  <2>4. ToSet(seg) = {}
    BY <1>1, EmptyRefs
  <2> QED
    BY <1>1, <1>2, <1>4, <2>2, <2>3, <2>4, InvFacts DEF FactsHold
<1> QED
  BY <1>5, <1>6

\* A reference is skipped, or its object marked and its type visited.
LEMMA MarkRefStep ==
  ASSUME Inv, TypeOK', MarkRef
  PROVE  FactsHold'
<1> USE DEF heapVars, markVars, stackVars, queueVars
<1>1. /\ gc = "mark" /\ seg # <<>> /\ ~Crash(Head(seg))
      /\ UNCHANGED <<heapVars, markVars, stackVars, remaining, stack_refs, missed>>
  BY DEF MarkRef
<1>2. Head(seg) \in objects /\ ToSet(seg) = {Head(seg)} \cup ToSet(Tail(seg))
  BY <1>1, SegmentHead DEF Crash
<1>3. \A u \in Threads : \A k \in DOMAIN Frames : \A o : InScan(u, k, o)' <=> InScan(u, k, o)
  BY <1>1 DEF InScan
<1>4. \A u \in Threads : ~gc_waiting[u]
  BY <1>1, NobodyScans
<1>5. WaitInv'
  BY <1>1, <1>4, InvFacts DEF WaitInv
<1>6. CASE gc_mark[Head(seg)] = live_mark_value
  <2>1. /\ seg' = Tail(seg) /\ gc' = "mark"
        /\ UNCHANGED <<gc_mark, queueVars, visited_refs>>
    BY <1>1, <1>6 DEF MarkRef
  <2>2. \A o : Marked(o)' <=> Marked(o)
    BY <1>1, <2>1 DEF Marked
  <2>3. Marked(Head(seg))
    BY <1>6 DEF Marked
  <2>4. CollectInv'
    BY <2>1 DEF CollectInv
  <2>5. /\ ToSet(seg') \subseteq ToSet(seg)
        /\ \A o \in ToSet(seg) : o \in ToSet(seg') \/ Marked(o)
    BY <1>2, <2>1, <2>3
  <2> QED
    BY <1>1, <1>3, <1>5, <2>1, <2>2, <2>4, <2>5, InvFacts DEF FactsHold
<1>7. CASE gc_mark[Head(seg)] # live_mark_value
  <2>1. /\ gc' = "attr" /\ seg' = seg /\ Visit(Class)
        /\ gc_mark' = [gc_mark EXCEPT ![Head(seg)] = live_mark_value]
        /\ current_segment # Wild
    BY <1>1, <1>2, <1>7, MarkingAssumption DEF MarkRef, Crash, Inv, TypeOK
  <2>2. Class \in objects /\ Class # Null
    BY MarkingAssumption DEF Inv, TypeOK
  <2>3. /\ current_segment' \in Segment
        /\ QueueRefs(queue') \cup SegRefs(current_segment') =
             QueueRefs(queue) \cup SegRefs(current_segment) \cup {Class}
        /\ QueueRefs(queue) \subseteq QueueRefs(queue')
        /\ visited_refs' = visited_refs \cup {Class}
    BY <2>1, <2>2, RefVisited
  <2>4. Marked(Head(seg))' /\ \A o \in objects : Marked(o) => Marked(o)'
    BY <1>1, <1>2, <2>1 DEF Marked, Inv, TypeOK
  <2>5. CollectInv'
    BY <1>1, <1>2, <2>1, <2>3, <2>4 DEF CollectInv
  <2>6. /\ \A u \in Threads : \A k \in DOMAIN Frames : stack_refs[u][k] \subseteq objects \cup {Null}
        /\ visited_refs \subseteq objects \cup {Null} /\ objects' = objects
    BY <1>1 DEF Inv, TypeOK
  <2>7. \A o \in visited_refs' \ {Null} :
          \/ Marked(o)' \/ o \in ToSet(seg) \/ o \in QueueRefs(queue')
          \/ o \in SegRefs(current_segment')
    BY <2>3, <2>4, <2>6, InvFacts
  <2>8. \A u \in Threads : \A k \in DOMAIN Frames \ missed[u] : \A o \in stack_refs[u][k] \ {Null} :
          \/ Marked(o)' \/ o \in ToSet(seg) \/ o \in QueueRefs(queue')
          \/ o \in SegRefs(local_segment) \/ InScan(u, k, o)'
    BY <1>3, <2>3, <2>4, <2>6, InvFacts
  <2>9. QueueRefs(queue') \cup SegRefs(current_segment') \subseteq objects \cup {Null}
    BY <2>2, <2>3, InvFacts
  <2> QED
    BY <1>1, <1>5, <2>1, <2>5, <2>6, <2>7, <2>8, <2>9, InvFacts DEF FactsHold
<1> QED
  BY <1>6, <1>7

\* The attribute is visited, and the scan goes on to the next reference.
LEMMA VisitAttrStep ==
  ASSUME Inv, TypeOK', VisitAttr
  PROVE  FactsHold'
<1> USE DEF heapVars, markVars, stackVars, queueVars
<1>1. /\ gc = "attr" /\ gc' = "mark" /\ seg' = Tail(seg)
      /\ UNCHANGED <<heapVars, gc_mark, markVars, stackVars, remaining, stack_refs, missed>>
  BY DEF VisitAttr
<1>2. /\ seg # <<>> /\ Head(seg) \in objects /\ Marked(Head(seg))
      /\ current_segment \in Segment /\ current_segment # Wild
  BY <1>1, NoSegmentApart, InvFacts DEF CollectInv
<1>3. ToSet(seg) = {Head(seg)} \cup ToSet(seg')
  BY <1>1, <1>2, SegmentHead
<1>4. /\ \A o : Marked(o)' <=> Marked(o)
      /\ \A u \in Threads : \A k \in DOMAIN Frames : \A o : InScan(u, k, o)' <=> InScan(u, k, o)
  BY <1>1 DEF Marked, InScan
<1>5. \A o \in ToSet(seg) : o \in ToSet(seg') \/ Marked(o)'
  BY <1>2, <1>3, <1>4
<1>6. WaitInv'
  BY <1>1, NobodyScans, InvFacts DEF WaitInv
<1>7. CollectInv'
  BY <1>1 DEF CollectInv
<1>8. CASE attr[Head(seg)] = NoAttr
  <2>1. UNCHANGED <<queueVars, visited_refs>>
    BY <1>8 DEF VisitAttr
  <2> QED
    BY <1>1, <1>3, <1>4, <1>5, <1>6, <1>7, <2>1, InvFacts DEF FactsHold
<1>9. CASE attr[Head(seg)] # NoAttr
  <2> DEFINE ref == attr[Head(seg)]
  <2>1. ref \in objects \cup {Null} /\ Visit(ref)
    BY <1>2, <1>9 DEF VisitAttr, Inv, TypeOK
  <2> HIDE DEF ref
  <2>2. /\ QueueRefs(queue') \cup SegRefs(current_segment') =
             QueueRefs(queue) \cup SegRefs(current_segment) \cup {ref}
        /\ QueueRefs(queue) \subseteq QueueRefs(queue')
        /\ visited_refs' = visited_refs \cup {ref}
    BY <1>2, <2>1, RefVisited
  <2>3. QueueRefs(queue') \cup SegRefs(current_segment') \subseteq objects \cup {Null}
    BY <2>1, <2>2, InvFacts
  <2>4. \A o \in visited_refs' \ {Null} :
          \/ Marked(o)' \/ o \in ToSet(seg') \/ o \in QueueRefs(queue')
          \/ o \in SegRefs(current_segment')
    BY <1>4, <1>5, <2>2, InvFacts
  <2>5. \A u \in Threads : \A k \in DOMAIN Frames \ missed[u] : \A o \in stack_refs[u][k] \ {Null} :
          \/ Marked(o)' \/ o \in ToSet(seg') \/ o \in QueueRefs(queue')
          \/ o \in SegRefs(local_segment) \/ InScan(u, k, o)'
    BY <1>4, <1>5, <2>2, InvFacts
  <2> QED
    BY <1>1, <1>3, <1>6, <1>7, <2>3, <2>4, <2>5, InvFacts DEF FactsHold
<1> QED
  BY <1>8, <1>9

-----------------------------------------------------------------------------
(* The theorems.                                                           *)

LEMMA InitInv == Init => Inv
<1> SUFFICES ASSUME Init PROVE Inv
  OBVIOUS
<1> USE DEF Init
<1>1. TypeOK
  <2>1. Class \in objects /\ objects \subseteq Objects /\ gc_mark \in [Objects -> {0, 1}]
    BY MarkingAssumption
  <2>2. roots \in [Threads -> [Slots -> objects \cup {Null}]] /\ pc \in [Threads -> {"run", "scan"}]
    OBVIOUS
  <2>3. cursor \in 1 .. Len(Frames) + 1
        /\ next_root \in 1 .. (IF cursor <= Len(Frames) THEN Len(Frames[cursor]) + 1 ELSE 1)
    BY StackShape
  <2>4. queue \in Seq(Segment)
    BY EmptySeq
  <2>5. /\ stack_refs \in [Threads -> [DOMAIN Frames -> SUBSET (objects \cup {Null})]]
        /\ missed \in [Threads -> SUBSET DOMAIN Frames]
    BY DEF NoFrames
  <2> QED
    BY <2>1, <2>2, <2>3, <2>4, <2>5 DEF TypeOK
<1>2. ToSet(seg) = {} /\ QueueRefs(queue) = {}
  BY EmptyRefs
<1>3. SegRefs(current_segment) = {} /\ SegRefs(local_segment) = {}
  BY DEF SegRefs
<1>4. WaitInv /\ CollectInv
  BY DEF WaitInv, CollectInv
<1>5. \A u \in Threads : \A k \in DOMAIN Frames : stack_refs[u][k] = {}
  BY DEF NoFrames
<1>6. FactsHold
  BY <1>2, <1>3, <1>4, <1>5 DEF FactsHold
<1> QED
  BY <1>1, <1>6, FactsToInv

LEMMA InvStep == Inv /\ [Next]_vars => Inv'
<1> SUFFICES ASSUME Inv, [Next]_vars PROVE Inv'
  OBVIOUS
<1>1. TypeOK'
  BY TypeStep
<1>2. FactsHold'
  BY <1>1, StepKinds, HeapStep, HandleSignalStep, ScanStackStep, SkipFrameStep, NoSafepointDies, ScanRootStep,
     FrameDoneStep, ArriveStep, PeriodStep, StealSegmentStep, MarkRefStep, VisitAttrStep DEF MutatorStep
<1> QED
  BY <1>1, <1>2, FactsToInv, PTL

\* The invariant of the marking holds at the start and every step of the
\* threads and of the collector keeps it.
THEOREM InvHolds == Spec => []Inv
BY InitInv, InvStep, PTL DEF Spec

\* The variables of the marking keep their types; in particular no segment is
\* ever filled beyond REF_QUEUE_SEGMENT_SIZE, whatever the stacks and objects.
THEOREM TypeCorrect == Spec => []TypeOK
<1>1. Inv => TypeOK
  BY DEF Inv
<1> QED
  BY InvHolds, <1>1, PTL

\* queue_for_marking(), the stack scan and the scan of the heap drop no
\* reference, for any segment size, stack and number of threads.
THEOREM NothingEverDropped == Spec => []NothingDropped
<1>1. ASSUME Inv PROVE NothingDropped
  <2>1. NamesHold /\ Null \notin objects
    BY <1>1, Names, MarkingAssumption DEF Inv, TypeOK
  <2>2. \A o \in visited_refs \ {Null} : Marked(o) \/ o \in Queued \cup Leftover
    BY <1>1 DEF Inv, VisitInv
  <2>3. ASSUME NEW o \in StackRoots PROVE Marked(o) \/ o \in Queued \cup Scanning
    <3>1. PICK t \in Threads : \E k \in DOMAIN Frames \ missed[t] : o \in stack_refs[t][k] \ {Null}
      BY <2>1, <2>3 DEF StackRoots
    <3>2. PICK k \in DOMAIN Frames \ missed[t] : o \in stack_refs[t][k] \ {Null}
      BY <3>1
    <3>3. Marked(o) \/ o \in Queued \/ o \in SegRefs(local_segment) \/ InScan(t, k, o)
      BY <1>1, <3>2 DEF Inv, StackInv
    <3>4. CASE InScan(t, k, o)
      <4>1. PICK j \in DOMAIN Frames[k] :
              /\ o = roots[t][Frames[k][j]]
              /\ k > cursor \/ (k = cursor /\ j >= next_root)
        BY <3>4 DEF InScan
      <4>2. Frames[k][j] \in Unscanned
        BY <4>1, StackShape DEF Unscanned
      <4>3. t \in {u \in Threads : pc[u] = "scan"}
        BY <3>4 DEF InScan
      <4> QED
        BY <2>1, <4>1, <4>2, <4>3 DEF NamesHold
    <3> QED
      BY <2>1, <3>3, <3>4 DEF NamesHold
  <2> QED
    BY <2>2, <2>3 DEF NothingDropped
<1> QED
  BY InvHolds, <1>1, PTL

\* When pup_gc_scan_heap() returns, every object is marked that a thread's stack
\* referred to at its safepoint, in each frame but those that the scan of the
\* stack left out without a word.
THEOREM RootsMarked == Spec => []StackRootsMarked
<1>1. ASSUME Inv PROVE StackRootsMarked
  <2> SUFFICES ASSUME gc = "done", NEW o \in StackRoots PROVE Marked(o)
    BY DEF StackRootsMarked
  <2>1. PICK t \in Threads : \E k \in DOMAIN Frames \ missed[t] : o \in stack_refs[t][k] \ {Null}
    BY <1>1, MarkingAssumption DEF StackRoots, Inv, TypeOK
  <2>2. PICK k \in DOMAIN Frames \ missed[t] : o \in stack_refs[t][k] \ {Null}
    BY <2>1
  <2>3. seg = <<>> /\ queue = <<>>
    BY <1>1 DEF Inv, CollectInv
  <2>4. ToSet(seg) = {} /\ QueueRefs(queue) = {}
    BY <2>3, EmptyRefs
  <2> QED
    BY <1>1, <2>2, <2>4, NobodyScans, InvFacts
<1> QED
  BY InvHolds, <1>1, PTL
=============================================================================
