--------------------------- MODULE CollectorProofs ---------------------------
(***************************************************************************)
(* Proofs about one collection, for any sets of cells, regions and stack   *)
(* slots and any region size: nothing young or on the stack is counted as  *)
(* garbage, and the sweep visits every retired region and object once.     *)
(***************************************************************************)
EXTENDS Collector, SequenceTheorems, FiniteSetTheorems, TLAPS

Objs == Cells \cup {Self}

TypeInv ==
  /\ content \in [Regions -> Seq(Cells)]
  /\ kind \in [Objs -> {"obj", "attr"}]
  /\ gc_mark \in [Objs -> {0, 1}]
  /\ local_region \in Regions
  /\ region_list \in Seq(Regions)
  /\ unmapped \subseteq Regions
  /\ current_gc_mark \in {0, 1} /\ live_mark_value \in {0, 1}
  /\ pc \in {"run", "push", "room", "link"}
  /\ pc = "push" => old_region \in Regions
  /\ pc # "push" => old_region = Null
  /\ gc \in {"sleep", "converge", "mark", "steal", "protect", "collect", "end"}
  /\ gc \in {"protect", "collect"} => region \in Regions
  /\ gc \notin {"protect", "collect"} => region = Null
  /\ addr \in Nat \ {0}
  /\ live_count \in Nat /\ garbage_count \in Nat

\* The marking of this period is done.
Marked == gc \in {"steal", "protect", "collect", "end"}

\* What the thread has allocated since the signal, and after the marking what
\* it had on the stack, carries the mark of the period; nothing is counted
\* before the marking is done.
MarkInv ==
  /\ gc_waiting => gc = "converge"
  /\ SinceSignal => current_gc_mark = live_mark_value
  /\ fresh \subseteq Allocated
  /\ gc # "sleep" => \A c \in fresh : gc_mark[c] = live_mark_value
  /\ Marked => \A c \in stack_refs \cap Cells : gc_mark[c] = live_mark_value
  /\ gc \in {"converge", "mark"} => garbage = {}
  /\ garbage \subseteq Allocated

\* A cell lies in one place.
CellsApart ==
  \A r, q \in Regions : \A i \in DOMAIN content[r], j \in DOMAIN content[q] :
    content[r][i] = content[q][j] => r = q /\ i = j

\* A region is the thread's, being retired, retired, being collected or gone,
\* and only one of these.
RegionsApart ==
  /\ \A i, j \in DOMAIN region_list : region_list[i] = region_list[j] => i = j
  /\ \A i \in DOMAIN region_list :
       region_list[i] \notin unmapped \cup {region, local_region, old_region}
  /\ local_region \notin unmapped \cup {region, old_region}
  /\ old_region \notin unmapped
  /\ region \notin unmapped
  /\ old_region # Null => old_region # region

\* How far the sweep has come.
SweepInv ==
  /\ gc \in {"converge", "mark"} => swept = {}
  /\ gc \in {"mark", "steal", "protect", "collect", "end"} =>
       retired \subseteq swept \cup ToSet(region_list)
  /\ gc = "end" => retired \subseteq swept
  /\ swept \subseteq (unmapped \cup {region}) \cap Regions
  /\ gc \in {"protect", "collect"} => region \in swept

\* The objects the sweep has come past.
Visited ==
  {c \in Cells :
     /\ kind[c] = "obj"
     /\ \E r \in swept : \E i \in DOMAIN content[r] :
          content[r][i] = c /\ (r = region => gc = "collect" /\ i < addr)}

CountInv ==
  gc # "sleep" =>
    IsFiniteSet(Visited) /\ live_count + garbage_count = Cardinality(Visited)

Inv ==
  /\ TypeInv
  /\ MarkInv
  /\ GarbageIsOld
  /\ CellsApart
  /\ RegionsApart
  /\ SweepInv
  /\ CountInv

-----------------------------------------------------------------------------
(* The steps, by what they do to the state the invariant is about.         *)

\* pup_iv_get() and pup_iv_set() on what exists, and steps that change nothing.
Harmless ==
  /\ UNCHANGED <<content, kind, gc_mark, regionVars, markVars, countVars, old_region,
                 sweepVars, history>>
  /\ pc' \in {"run", "push", "room", "link"} /\ (pc' = "push" <=> pc = "push")

\* A cell is made in the thread's region.
Made(c) ==
  /\ \E k \in {"obj", "attr"} : \E v : MakeRoom(c, k, v)
  /\ pc' \in {"run", "link"}
  /\ UNCHANGED <<regionVars, markVars, countVars, old_region, sweepVars, stack_refs, retired,
                 swept>>

\* Every step is of one of these kinds.
LEMMA StepKinds ==
  ASSUME Inv, [Next]_vars
  PROVE  \/ Harmless \/ NewRegion \/ PushRegion \/ \E c \in Cells \ Allocated : Made(c)
         \/ HandleSignal \/ Safepoint \/ PeriodStart \/ ScanHeap \/ Steal \/ Protect
         \/ CollectObject \/ FreeRegion \/ PeriodEnd
<1> USE DEF heapVars, regionVars, markVars, countVars, mutatorVars, sweepVars, history
<1>1. pc \in {"run", "push", "room", "link"}
  BY DEF Inv, TypeInv
<1>2. CASE UNCHANGED vars
  BY <1>1, <1>2 DEF vars, Harmless
<1>3. ASSUME AllocObject \/ AllocAttr PROVE \E c \in Cells \ Allocated : Made(c)
  BY <1>3 DEF AllocObject, AllocAttr, Made
<1>4. ASSUME LinkAttr \/ SetAttr \/ GetAttr \/ ReadUnmapped PROVE Harmless
  <2>1. CASE LinkAttr
    BY <1>1, <2>1 DEF LinkAttr, Harmless
  <2>2. CASE SetAttr
    BY <1>1, <2>2 DEF SetAttr, Harmless
  <2>3. CASE GetAttr
    BY <1>1, <2>3 DEF GetAttr, Harmless
  <2>4. CASE ReadUnmapped
    BY <1>1, <2>4 DEF ReadUnmapped, Harmless
  <2> QED
    BY <1>4, <2>1, <2>2, <2>3, <2>4
<1> QED
  BY <1>2, <1>3, <1>4 DEF Next, MutatorStep, CollectorStep

\* Cells are allocated in regions.
LEMMA AllocatedCells ==
  ASSUME TypeInv
  PROVE  /\ Allocated \subseteq Cells
         /\ \A r \in Regions : \A i \in DOMAIN content[r] :
              content[r][i] \in Cells /\ content[r][i] \in Allocated
<1>1. \A r \in Regions : content[r] \in Seq(Cells)
  BY DEF TypeInv
<1>2. \A r \in Regions : \A i \in DOMAIN content[r] : content[r][i] \in Cells
  BY <1>1, LenProperties, ElementOfSeq
<1> QED
  BY <1>2 DEF Allocated, ToSet

\* Where a made cell is: behind the others in the thread's region.
LEMMA MadeContent ==
  ASSUME Inv, NEW c \in Cells \ Allocated, Made(c)
  PROVE  /\ content' \in [Regions -> Seq(Cells)]
         /\ \A r \in Regions : r # local_region => content'[r] = content[r]
         /\ Len(content[local_region]) \in Nat
         /\ DOMAIN content[local_region] = 1 .. Len(content[local_region])
         /\ DOMAIN content'[local_region] = 1 .. Len(content[local_region]) + 1
         /\ \A i \in 1 .. Len(content[local_region]) :
              content'[local_region][i] = content[local_region][i]
         /\ content'[local_region][Len(content[local_region]) + 1] = c
         /\ Allocated' = Allocated \cup {c}
<1> DEFINE old == content[local_region]
<1>1. content \in [Regions -> Seq(Cells)] /\ local_region \in Regions /\ old \in Seq(Cells)
  BY DEF Inv, TypeInv
<1>2. content' = [content EXCEPT ![local_region] = Append(old, c)]
  BY DEF Made, MakeRoom
<1>3. content'[local_region] = Append(old, c)
  BY <1>1, <1>2
<1>4. \A r \in Regions : r # local_region => content'[r] = content[r]
  BY <1>1, <1>2
<1>5. /\ Append(old, c) \in Seq(Cells)
      /\ Len(Append(old, c)) = Len(old) + 1
      /\ \A i \in 1 .. Len(old) : Append(old, c)[i] = old[i]
      /\ Append(old, c)[Len(old) + 1] = c
  BY <1>1, AppendProperties
<1>6. Len(old) \in Nat /\ DOMAIN old = 1 .. Len(old) /\ DOMAIN Append(old, c) = 1 .. Len(old) + 1
  BY <1>1, <1>5, LenProperties
<1>7. content' \in [Regions -> Seq(Cells)]
  BY <1>1, <1>2, <1>5
<1>8. ToSet(content'[local_region]) = ToSet(old) \cup {c}
  <2>1. 1 .. Len(old) + 1 = (1 .. Len(old)) \cup {Len(old) + 1}
    BY <1>6
  <2> QED
    BY <1>3, <1>5, <1>6, <2>1 DEF ToSet
<1>9. Allocated' = Allocated \cup {c}
  <2>1. \A r \in Regions : ToSet(content'[r]) =
          IF r = local_region THEN ToSet(content[r]) \cup {c} ELSE ToSet(content[r])
    BY <1>4, <1>8
  <2> HIDE DEF old
  <2> QED
    BY <1>1, <2>1, ZenonT(40) DEF Allocated
<1> QED
  BY <1>3, <1>4, <1>5, <1>6, <1>7, <1>9

\* Every step keeps the variables in their types.
LEMMA TypeStep == Inv /\ [Next]_vars => TypeInv'
<1> SUFFICES ASSUME Inv, [Next]_vars PROVE TypeInv'
  OBVIOUS
<1> USE DEF heapVars, regionVars, markVars, countVars, mutatorVars, sweepVars, history, TypeInv
<1>1. TypeInv
  BY DEF Inv
<1>2. CASE Harmless
  BY <1>1, <1>2 DEF Harmless
<1>3. CASE NewRegion
  BY <1>1, <1>3 DEF NewRegion
<1>4. CASE PushRegion
  BY <1>1, <1>4 DEF PushRegion
<1>5. ASSUME NEW c \in Cells \ Allocated, Made(c) PROVE TypeInv'
  <2>1. PICK k \in {"obj", "attr"} : \E v : MakeRoom(c, k, v)
    BY <1>5 DEF Made
  <2>2. content' \in [Regions -> Seq(Cells)]
    BY <1>5, MadeContent
  <2>3. kind' \in [Objs -> {"obj", "attr"}] /\ gc_mark' \in [Objs -> {0, 1}]
    BY <1>1, <2>1 DEF MakeRoom, Objs
  <2>4. pc \in {"run", "room"}
    BY <2>1 DEF MakeRoom
  <2> QED
    BY <1>1, <1>5, <2>2, <2>3, <2>4 DEF Made
<1>6. CASE HandleSignal
  BY <1>1, <1>6 DEF HandleSignal
<1>7. CASE Safepoint
  <2>1. gc = "converge"
    BY <1>7 DEF Inv, MarkInv, Safepoint
  <2> QED
    BY <1>1, <1>7, <2>1 DEF Safepoint
<1>8. CASE PeriodStart
  BY <1>1, <1>8 DEF PeriodStart
<1>9. CASE ScanHeap
  BY <1>1, <1>9 DEF ScanHeap
<1>10. CASE Steal
  <2>1. CASE region_list = <<>>
    BY <1>1, <1>10, <2>1 DEF Steal
  <2>2. CASE region_list # <<>>
    <3>1. Head(region_list) \in Regions /\ Tail(region_list) \in Seq(Regions)
      BY <1>1, <2>2, HeadTailProperties
    <3> QED
      BY <1>1, <1>10, <2>2, <3>1 DEF Steal
  <2> QED
    BY <2>1, <2>2
<1>11. CASE Protect
  BY <1>1, <1>11 DEF Protect
<1>12. CASE CollectObject
  <2>1. live_count' \in Nat /\ garbage_count' \in Nat
    BY <1>1, <1>12 DEF CollectObject, Count
  <2> QED
    BY <1>1, <1>12, <2>1 DEF CollectObject
<1>13. CASE FreeRegion
  BY <1>1, <1>13 DEF FreeRegion
<1>14. CASE PeriodEnd
  BY <1>1, <1>14 DEF PeriodEnd
<1> QED
  BY <1>2, <1>3, <1>4, <1>5, <1>6, <1>7, <1>8, <1>9, <1>10, <1>11, <1>12, <1>13, <1>14, StepKinds

\* Every step keeps what is young, and what was on the stack, marked.
LEMMA MarkStep == Inv /\ [Next]_vars => MarkInv'
<1> SUFFICES ASSUME Inv, [Next]_vars PROVE MarkInv'
  OBVIOUS
<1> USE DEF heapVars, regionVars, markVars, countVars, mutatorVars, sweepVars, history,
            MarkInv, SinceSignal, Marked
<1>1. TypeInv /\ MarkInv
  BY DEF Inv
<1>2. content' = content => Allocated' = Allocated
  BY DEF Allocated
<1>3. CASE Harmless
  BY <1>1, <1>2, <1>3 DEF Harmless, TypeInv
<1>4. CASE NewRegion
  BY <1>1, <1>2, <1>4 DEF NewRegion, TypeInv
<1>5. CASE PushRegion
  BY <1>1, <1>2, <1>5 DEF PushRegion, TypeInv
<1>6. ASSUME NEW c \in Cells \ Allocated, Made(c) PROVE MarkInv'
  <2>1. PICK k \in {"obj", "attr"} : \E v : MakeRoom(c, k, v)
    BY <1>6 DEF Made
  <2>2. Allocated' = Allocated \cup {c} /\ Allocated \subseteq Cells
    BY <1>1, <1>6, MadeContent, AllocatedCells
  <2>3. gc_mark'[c] = current_gc_mark /\ \A d \in Cells \ {c} : gc_mark'[d] = gc_mark[d]
    BY <1>1, <2>1 DEF MakeRoom, TypeInv, Objs
  <2>4. fresh' = IF SinceSignal THEN fresh \cup {c} ELSE fresh
    BY <2>1 DEF MakeRoom
  <2>5. /\ gc' = gc /\ gc_waiting' = gc_waiting /\ live_mark_value' = live_mark_value
        /\ current_gc_mark' = current_gc_mark /\ stack_refs' = stack_refs /\ garbage' = garbage
    BY <1>6 DEF Made
  <2> QED
    BY <1>1, <2>2, <2>3, <2>4, <2>5 DEF TypeInv
<1>7. CASE HandleSignal
  BY <1>1, <1>2, <1>7 DEF HandleSignal, TypeInv
<1>8. CASE Safepoint
  BY <1>1, <1>2, <1>8 DEF Safepoint, TypeInv
<1>9. CASE PeriodStart
  BY <1>1, <1>2, <1>9 DEF PeriodStart, TypeInv
<1>10. CASE ScanHeap
  <2>1. Allocated \subseteq Cells
    BY <1>1, AllocatedCells
  <2>2. PICK marked \in SUBSET Reached :
          /\ stack_refs \ {Null} \subseteq marked
          /\ \/ UNCHANGED <<gc_mark, gc>>
             \/ /\ gc_mark' = [c \in DOMAIN gc_mark |->
                                 IF c \in marked THEN live_mark_value ELSE gc_mark[c]]
                /\ gc' = "steal"
    BY <1>10 DEF ScanHeap
  <2>3. CASE UNCHANGED <<gc_mark, gc>>
    BY <1>1, <1>2, <1>10, <2>3 DEF ScanHeap
  <2>4. CASE /\ gc_mark' = [c \in DOMAIN gc_mark |->
                              IF c \in marked THEN live_mark_value ELSE gc_mark[c]]
             /\ gc' = "steal"
    <3>1. \A c \in Cells : gc_mark'[c] = IF c \in marked THEN live_mark_value ELSE gc_mark[c]
      BY <1>1, <2>4 DEF TypeInv, Objs
    <3>2. gc = "mark" /\ Null \notin Cells
      BY <1>10, CollectorAssumption DEF ScanHeap
    <3> QED
      BY <1>1, <1>2, <1>10, <2>1, <2>2, <2>4, <3>1, <3>2 DEF ScanHeap
  <2> QED
    BY <2>2, <2>3, <2>4
<1>11. CASE Steal
  BY <1>1, <1>2, <1>11 DEF Steal, TypeInv
<1>12. CASE Protect
  BY <1>1, <1>2, <1>12 DEF Protect, TypeInv
<1>13. CASE CollectObject
  <2>1. garbage' \subseteq garbage \cup {content[region][addr]}
    BY <1>13 DEF CollectObject, Count
  <2>2. content[region][addr] \in Allocated
    <3>1. region \in Regions /\ content[region] \in Seq(Cells) /\ addr \in 1 .. Len(content[region])
      BY <1>1, <1>13 DEF CollectObject, TypeInv
    <3> QED
      BY <1>1, <3>1, AllocatedCells, LenProperties
  <2> QED
    BY <1>1, <1>2, <1>13, <2>1, <2>2 DEF CollectObject, TypeInv
<1>14. CASE FreeRegion
  BY <1>1, <1>2, <1>14 DEF FreeRegion, TypeInv
<1>15. CASE PeriodEnd
  BY <1>1, <1>2, <1>15 DEF PeriodEnd, TypeInv
<1> QED
  BY <1>3, <1>4, <1>5, <1>6, <1>7, <1>8, <1>9, <1>10, <1>11, <1>12, <1>13, <1>14, <1>15, StepKinds

\* Every step keeps the young, and what was on the stack, out of the garbage.
LEMMA GarbageStep == Inv /\ [Next]_vars => GarbageIsOld'
<1> SUFFICES ASSUME Inv, [Next]_vars PROVE GarbageIsOld'
  OBVIOUS
<1> USE DEF heapVars, regionVars, markVars, countVars, mutatorVars, sweepVars, history,
            GarbageIsOld
<1>1. MarkInv /\ GarbageIsOld
  BY DEF Inv
<1>2. CASE Harmless
  BY <1>1, <1>2 DEF Harmless
<1>3. CASE NewRegion
  BY <1>1, <1>3 DEF NewRegion
<1>4. CASE PushRegion
  BY <1>1, <1>4 DEF PushRegion
<1>5. ASSUME NEW c \in Cells \ Allocated, Made(c) PROVE GarbageIsOld'
  <2>1. PICK k \in {"obj", "attr"} : \E v : MakeRoom(c, k, v)
    BY <1>5 DEF Made
  <2>2. fresh' \subseteq fresh \cup {c}
    BY <2>1 DEF MakeRoom
  <2>3. garbage' = garbage /\ stack_refs' = stack_refs
    BY <1>5 DEF Made
  <2>4. c \notin garbage
    BY <1>1 DEF MarkInv
  <2> QED
    BY <1>1, <2>2, <2>3, <2>4
<1>6. CASE HandleSignal
  BY <1>1, <1>6 DEF HandleSignal
<1>7. CASE Safepoint
  BY <1>1, <1>7 DEF Safepoint, MarkInv
<1>8. CASE PeriodStart
  BY <1>1, <1>8 DEF PeriodStart
<1>9. CASE ScanHeap
  BY <1>1, <1>9 DEF ScanHeap
<1>10. CASE Steal
  BY <1>1, <1>10 DEF Steal
<1>11. CASE Protect
  BY <1>1, <1>11 DEF Protect
<1>12. CASE CollectObject
  <2> DEFINE c == content[region][addr]
  <2>1. CASE garbage' = garbage
    BY <1>1, <1>12, <2>1 DEF CollectObject
  <2>2. CASE garbage' = garbage \cup {c} /\ gc_mark[c] # live_mark_value
    <3>1. c \in Cells
      <4>1. /\ region \in Regions /\ content[region] \in Seq(Cells)
            /\ addr \in 1 .. Len(content[region])
        BY <1>12 DEF CollectObject, Inv, TypeInv
      <4> QED
        BY <4>1, ElementOfSeq
    <3>2. c \notin stack_refs /\ c \notin fresh
      BY <1>1, <1>12, <2>2, <3>1 DEF CollectObject, MarkInv, Marked
    <3> HIDE DEF c
    <3> QED
      BY <1>1, <1>12, <2>2, <3>2 DEF CollectObject
  <2> QED
    BY <1>12, <2>1, <2>2 DEF CollectObject, Count
<1>13. CASE FreeRegion
  BY <1>1, <1>13 DEF FreeRegion
<1>14. CASE PeriodEnd
  BY <1>1, <1>14 DEF PeriodEnd
<1> QED
  BY <1>2, <1>3, <1>4, <1>5, <1>6, <1>7, <1>8, <1>9, <1>10, <1>11, <1>12, <1>13, <1>14, StepKinds

\* Every step keeps the cells apart: only an unused one is made.
LEMMA CellsStep == Inv /\ [Next]_vars => CellsApart'
<1> SUFFICES ASSUME Inv, [Next]_vars PROVE CellsApart'
  OBVIOUS
<1> USE DEF heapVars, regionVars, markVars, countVars, mutatorVars, sweepVars, history
<1>1. CellsApart
  BY DEF Inv
<1>2. content' = content => CellsApart'
  BY <1>1 DEF CellsApart
<1>3. CASE Harmless
  BY <1>2, <1>3 DEF Harmless
<1>4. CASE NewRegion
  BY <1>2, <1>4 DEF NewRegion
<1>5. CASE PushRegion
  BY <1>2, <1>5 DEF PushRegion
<1>6. ASSUME NEW c \in Cells \ Allocated, Made(c) PROVE CellsApart'
  <2> DEFINE n == Len(content[local_region]) + 1
  <2>1. /\ \A r \in Regions : r # local_region => content'[r] = content[r]
        /\ n \in Nat
        /\ DOMAIN content'[local_region] = DOMAIN content[local_region] \cup {n}
        /\ n \notin DOMAIN content[local_region]
        /\ \A i \in DOMAIN content[local_region] :
             content'[local_region][i] = content[local_region][i]
        /\ content'[local_region][n] = c
    BY <1>6, MadeContent
  <2>2. \A r \in Regions : \A i \in DOMAIN content[r] : content[r][i] # c
    BY AllocatedCells DEF Inv
  <2> HIDE DEF n
  <2>3. \A r \in Regions : \A i \in DOMAIN content'[r] :
          IF i \in DOMAIN content[r] THEN content'[r][i] = content[r][i]
          ELSE content'[r][i] = c /\ r = local_region /\ i = n
    BY <2>1
  <2> QED
    BY <1>1, <2>2, <2>3 DEF CellsApart
<1>7. CASE HandleSignal
  BY <1>2, <1>7 DEF HandleSignal
<1>8. CASE Safepoint
  BY <1>2, <1>8 DEF Safepoint
<1>9. CASE PeriodStart
  BY <1>2, <1>9 DEF PeriodStart
<1>10. CASE ScanHeap
  BY <1>2, <1>10 DEF ScanHeap
<1>11. CASE Steal
  BY <1>2, <1>11 DEF Steal
<1>12. CASE Protect
  BY <1>2, <1>12 DEF Protect
<1>13. CASE CollectObject
  BY <1>2, <1>13 DEF CollectObject
<1>14. CASE FreeRegion
  BY <1>2, <1>14 DEF FreeRegion
<1>15. CASE PeriodEnd
  BY <1>2, <1>15 DEF PeriodEnd
<1> QED
  BY <1>3, <1>4, <1>5, <1>6, <1>7, <1>8, <1>9, <1>10, <1>11, <1>12, <1>13, <1>14, <1>15, StepKinds

\* A retired region is put in front of the list.
LEMMA PushedList ==
  ASSUME TypeInv, pc = "push", region_list' = <<old_region>> \o region_list
  PROVE  /\ Len(region_list) \in Nat /\ DOMAIN region_list = 1 .. Len(region_list)
         /\ DOMAIN region_list' = 1 .. Len(region_list) + 1
         /\ region_list'[1] = old_region
         /\ \A i \in 2 .. Len(region_list) + 1 : region_list'[i] = region_list[i - 1]
         /\ ToSet(region_list') = ToSet(region_list) \cup {old_region}
<1>1. region_list \in Seq(Regions) /\ <<old_region>> \in Seq(Regions) /\ Len(<<old_region>>) = 1
  BY DEF TypeInv
<1>2. /\ region_list' \in Seq(Regions)
      /\ Len(region_list') = 1 + Len(region_list)
      /\ \A i \in 1 .. 1 + Len(region_list) :
           region_list'[i] = IF i <= 1 THEN <<old_region>>[i] ELSE region_list[i - 1]
  BY <1>1, ConcatProperties
<1>3. Len(region_list) \in Nat /\ DOMAIN region_list = 1 .. Len(region_list)
  BY <1>1, LenProperties
<1>4. DOMAIN region_list' = 1 .. Len(region_list) + 1
  BY <1>2, <1>3, LenProperties
<1>5. region_list'[1] = old_region
  BY <1>2, <1>3
<1>6. \A i \in 2 .. Len(region_list) + 1 : region_list'[i] = region_list[i - 1]
  BY <1>2, <1>3
<1>7. ToSet(region_list') = ToSet(region_list) \cup {old_region}
  <2>1. \A i \in DOMAIN region_list : i + 1 \in 2 .. Len(region_list) + 1 /\ i + 1 - 1 = i
    BY <1>3
  <2>2. \A i \in DOMAIN region_list :
          i + 1 \in DOMAIN region_list' /\ region_list'[i + 1] = region_list[i]
    BY <1>3, <1>4, <1>6, <2>1
  <2>3. \A i \in DOMAIN region_list' \ {1} :
          i - 1 \in DOMAIN region_list /\ region_list'[i] = region_list[i - 1]
    BY <1>3, <1>4, <1>6
  <2>4. 1 \in DOMAIN region_list'
    BY <1>3, <1>4
  <2>5. ToSet(region_list) \cup {old_region} \subseteq ToSet(region_list')
    BY <1>5, <2>2, <2>4 DEF ToSet
  <2>6. ToSet(region_list') \subseteq ToSet(region_list) \cup {old_region}
    <3> SUFFICES ASSUME NEW i \in DOMAIN region_list'
                 PROVE  region_list'[i] \in ToSet(region_list) \cup {old_region}
      BY DEF ToSet
    <3>1. CASE i = 1
      BY <1>5, <3>1
    <3>2. CASE i # 1
      BY <2>3, <3>2 DEF ToSet
    <3> QED
      BY <3>1, <3>2
  <2> QED
    BY <2>5, <2>6
<1> QED
  BY <1>3, <1>4, <1>5, <1>6, <1>7

\* steal_heap_region() takes the first region of the list.
LEMMA StolenList ==
  ASSUME TypeInv, region_list # <<>>, region_list' = Tail(region_list)
  PROVE  /\ Len(region_list) \in Nat \ {0} /\ DOMAIN region_list = 1 .. Len(region_list)
         /\ DOMAIN region_list' = 1 .. Len(region_list) - 1
         /\ Head(region_list) = region_list[1]
         /\ \A i \in 1 .. Len(region_list) - 1 : region_list'[i] = region_list[i + 1]
         /\ ToSet(region_list) = {Head(region_list)} \cup ToSet(region_list')
<1>1. region_list \in Seq(Regions)
  BY DEF TypeInv
<1>2. Len(region_list) \in Nat \ {0} /\ DOMAIN region_list = 1 .. Len(region_list)
  BY <1>1, LenProperties, EmptySeq
<1>3. /\ region_list' \in Seq(Regions) /\ Len(region_list') = Len(region_list) - 1
      /\ \A i \in 1 .. Len(region_list') : region_list'[i] = region_list[i + 1]
  BY <1>1, HeadTailProperties
<1>4. DOMAIN region_list' = 1 .. Len(region_list) - 1
  BY <1>3, LenProperties
<1>5. Head(region_list) = region_list[1]
  BY <1>1, <1>2
<1>6. ToSet(region_list) = {Head(region_list)} \cup ToSet(region_list')
  <2>1. \A i \in DOMAIN region_list' :
          i + 1 \in DOMAIN region_list /\ region_list'[i] = region_list[i + 1]
    BY <1>2, <1>3, <1>4
  <2>2. \A i \in DOMAIN region_list \ {1} :
          i - 1 \in DOMAIN region_list' /\ region_list'[i - 1] = region_list[i]
    BY <1>2, <1>3, <1>4
  <2>3. 1 \in DOMAIN region_list
    BY <1>2
  <2>4. {Head(region_list)} \cup ToSet(region_list') \subseteq ToSet(region_list)
    BY <1>5, <2>1, <2>3 DEF ToSet
  <2>5. ToSet(region_list) \subseteq {Head(region_list)} \cup ToSet(region_list')
    <3> SUFFICES ASSUME NEW i \in DOMAIN region_list
                 PROVE  region_list[i] \in {Head(region_list)} \cup ToSet(region_list')
      BY DEF ToSet
    <3>1. CASE i = 1
      BY <1>5, <3>1
    <3>2. CASE i # 1
      BY <2>2, <3>2 DEF ToSet
    <3> QED
      BY <3>1, <3>2
  <2> QED
    BY <2>4, <2>5
<1> QED
  BY <1>2, <1>3, <1>4, <1>5, <1>6

\* Every step keeps the regions apart.
LEMMA RegionsStep == Inv /\ [Next]_vars => RegionsApart'
<1> SUFFICES ASSUME Inv, [Next]_vars PROVE RegionsApart'
  OBVIOUS
<1> USE DEF heapVars, regionVars, markVars, countVars, mutatorVars, sweepVars, history,
            RegionsApart
<1>1. /\ TypeInv /\ RegionsApart
      /\ \A i \in DOMAIN region_list : region_list[i] \in Regions
      /\ Null \notin Regions
  BY CollectorAssumption, LenProperties, ElementOfSeq DEF Inv, TypeInv
<1>2. CASE Harmless
  BY <1>1, <1>2 DEF Harmless
<1>3. CASE NewRegion
  BY <1>1, <1>3 DEF NewRegion, TypeInv, ToSet
<1>4. CASE PushRegion
  <2>1. /\ DOMAIN region_list' = {1} \cup 2 .. Len(region_list) + 1
        /\ region_list'[1] = old_region
        /\ \A i \in 2 .. Len(region_list) + 1 :
             i - 1 \in DOMAIN region_list /\ region_list'[i] = region_list[i - 1]
    BY <1>1, <1>4, PushedList DEF PushRegion
  <2>2. \A i, j \in DOMAIN region_list' : region_list'[i] = region_list'[j] => i = j
    BY <1>1, <2>1
  <2>3. old_region \in Regions /\ old_region' = Null
    BY <1>1, <1>4 DEF PushRegion, TypeInv
  <2> QED
    BY <1>1, <1>4, <2>1, <2>2, <2>3 DEF PushRegion, TypeInv
<1>5. ASSUME NEW c \in Cells \ Allocated, Made(c) PROVE RegionsApart'
  BY <1>1, <1>5 DEF Made
<1>6. CASE HandleSignal
  BY <1>1, <1>6 DEF HandleSignal
<1>7. CASE Safepoint
  BY <1>1, <1>7 DEF Safepoint
<1>8. CASE PeriodStart
  BY <1>1, <1>8 DEF PeriodStart
<1>9. CASE ScanHeap
  BY <1>1, <1>9 DEF ScanHeap
<1>10. CASE Steal
  <2>1. CASE region_list = <<>>
    BY <1>1, <1>10, <2>1 DEF Steal
  <2>2. CASE region_list # <<>>
    <3>1. /\ DOMAIN region_list' = 1 .. Len(region_list) - 1
          /\ 1 \in DOMAIN region_list /\ region' = region_list[1]
          /\ \A i \in 1 .. Len(region_list) - 1 :
               /\ i + 1 \in DOMAIN region_list /\ i + 1 # 1
               /\ region_list'[i] = region_list[i + 1]
      BY <1>1, <1>10, <2>2, StolenList DEF Steal
    <3>2. \A i, j \in DOMAIN region_list' : region_list'[i] = region_list'[j] => i = j
      BY <1>1, <3>1
    <3> QED
      BY <1>1, <1>10, <2>2, <3>1, <3>2 DEF Steal
  <2> QED
    BY <2>1, <2>2
<1>11. CASE Protect
  BY <1>1, <1>11 DEF Protect
<1>12. CASE CollectObject
  BY <1>1, <1>12 DEF CollectObject
<1>13. CASE FreeRegion
  BY <1>1, <1>13 DEF FreeRegion, TypeInv
<1>14. CASE PeriodEnd
  BY <1>1, <1>14 DEF PeriodEnd
<1> QED
  BY <1>2, <1>3, <1>4, <1>5, <1>6, <1>7, <1>8, <1>9, <1>10, <1>11, <1>12, <1>13, <1>14, StepKinds

\* Every step keeps the sweep's books: a region that was retired when marking
\* began is on the list or has been stolen.
LEMMA SweepStep == Inv /\ [Next]_vars => SweepInv'
<1> SUFFICES ASSUME Inv, [Next]_vars PROVE SweepInv'
  OBVIOUS
<1> USE DEF heapVars, regionVars, markVars, countVars, mutatorVars, sweepVars, history,
            SweepInv
<1>1. TypeInv /\ SweepInv /\ Null \notin Regions
  BY CollectorAssumption DEF Inv
<1>2. CASE Harmless
  BY <1>1, <1>2 DEF Harmless
<1>3. CASE NewRegion
  BY <1>1, <1>3 DEF NewRegion
<1>4. CASE PushRegion
  <2>1. ToSet(region_list') = ToSet(region_list) \cup {old_region}
    BY <1>1, <1>4, PushedList DEF PushRegion
  <2> QED
    BY <1>1, <1>4, <2>1 DEF PushRegion, TypeInv
<1>5. ASSUME NEW c \in Cells \ Allocated, Made(c) PROVE SweepInv'
  BY <1>1, <1>5 DEF Made
<1>6. CASE HandleSignal
  BY <1>1, <1>6 DEF HandleSignal
<1>7. CASE Safepoint
  <2>1. gc = "converge"
    BY <1>7 DEF Inv, MarkInv, Safepoint
  <2> QED
    BY <1>1, <1>7, <2>1 DEF Safepoint
<1>8. CASE PeriodStart
  BY <1>1, <1>8 DEF PeriodStart, TypeInv
<1>9. CASE ScanHeap
  BY <1>1, <1>9 DEF ScanHeap
<1>10. CASE Steal
  <2>1. CASE region_list = <<>>
    <3>1. ToSet(region_list) = {}
      BY <2>1 DEF ToSet
    <3> QED
      BY <1>1, <1>10, <2>1, <3>1 DEF Steal, TypeInv
  <2>2. CASE region_list # <<>>
    <3>1. ToSet(region_list) = {Head(region_list)} \cup ToSet(region_list')
      BY <1>1, <1>10, <2>2, StolenList DEF Steal
    <3>2. swept \subseteq unmapped
      BY <1>1, <1>10 DEF Steal, TypeInv
    <3> QED
      BY <1>1, <1>10, <2>2, <3>1, <3>2 DEF Steal, TypeInv
  <2> QED
    BY <2>1, <2>2
<1>11. CASE Protect
  BY <1>1, <1>11 DEF Protect
<1>12. CASE CollectObject
  BY <1>1, <1>12 DEF CollectObject
<1>13. CASE FreeRegion
  BY <1>1, <1>13 DEF FreeRegion, TypeInv
<1>14. CASE PeriodEnd
  BY <1>1, <1>14 DEF PeriodEnd
<1> QED
  BY <1>2, <1>3, <1>4, <1>5, <1>6, <1>7, <1>8, <1>9, <1>10, <1>11, <1>12, <1>13, <1>14, StepKinds

\* Every step counts what it comes past, and nothing else.
LEMMA CountStep == Inv /\ [Next]_vars => CountInv'
<1> SUFFICES ASSUME Inv, [Next]_vars PROVE CountInv'
  OBVIOUS
<1> USE DEF heapVars, regionVars, markVars, countVars, mutatorVars, sweepVars, history
<1>1. TypeInv /\ SweepInv /\ CountInv /\ RegionsApart /\ Null \notin Regions
  BY CollectorAssumption DEF Inv
<1>2. /\ region \in Regions \/ region = Null
      /\ \A r \in Regions : content[r] \in Seq(Cells) /\ Len(content[r]) \in Nat
                             /\ DOMAIN content[r] = 1 .. Len(content[r])
      /\ swept \subseteq Regions /\ addr \in Nat
  BY <1>1, LenProperties DEF TypeInv, SweepInv
<1>3. ASSUME Visited' = Visited, gc # "sleep", UNCHANGED countVars PROVE CountInv'
  BY <1>1, <1>3 DEF CountInv
<1>4. ASSUME UNCHANGED <<content, kind, region, addr, swept, gc>>, UNCHANGED countVars PROVE CountInv'
  <2>1. Visited' = Visited
    BY <1>4 DEF Visited
  <2> QED
    BY <1>1, <1>4, <2>1 DEF CountInv
<1>5. CASE Harmless
  BY <1>4, <1>5 DEF Harmless
<1>6. CASE NewRegion
  BY <1>4, <1>6 DEF NewRegion
<1>7. CASE PushRegion
  BY <1>4, <1>7 DEF PushRegion
<1>8. ASSUME NEW c \in Cells \ Allocated, Made(c) PROVE CountInv'
  <2>1. PICK k \in {"obj", "attr"} : \E v : MakeRoom(c, k, v)
    BY <1>8 DEF Made
  <2>2. \A d \in Cells \ {c} : kind'[d] = kind[d]
    BY <1>1, <2>1 DEF MakeRoom, TypeInv, Objs
  <2>3. UNCHANGED <<region, addr, swept, gc>> /\ UNCHANGED countVars
    BY <1>8 DEF Made
  <2>4. \A r \in swept : r # local_region /\ content'[r] = content[r]
    BY <1>1, <1>2, <1>8, MadeContent DEF RegionsApart, SweepInv
  <2>5. \A r \in swept : \A i \in DOMAIN content[r] : content[r][i] # c
    BY <1>1, <1>2, AllocatedCells
  <2>6. Visited' = Visited
    BY <2>2, <2>3, <2>4, <2>5 DEF Visited
  <2> QED
    BY <1>1, <2>3, <2>6 DEF CountInv
<1>9. CASE HandleSignal
  BY <1>4, <1>9 DEF HandleSignal
<1>10. CASE Safepoint
  <2>1. swept = {} /\ swept' = {} /\ gc = "converge"
    BY <1>1, <1>10 DEF Safepoint, SweepInv, Inv, MarkInv
  <2>2. Visited' = Visited
    BY <2>1 DEF Visited
  <2> QED
    BY <1>3, <1>10, <2>1, <2>2 DEF Safepoint
<1>11. CASE PeriodStart
  <2>1. Visited' = {}
    BY <1>11 DEF PeriodStart, Visited
  <2> QED
    BY <1>11, <2>1, FS_EmptySet DEF PeriodStart, CountInv
<1>12. CASE ScanHeap
  <2>1. swept = {} /\ swept' = {} /\ gc = "mark"
    BY <1>1, <1>12 DEF ScanHeap, SweepInv
  <2>2. Visited' = Visited
    BY <2>1 DEF Visited
  <2> QED
    BY <1>3, <1>12, <2>1, <2>2 DEF ScanHeap
<1>13. CASE Steal
  <2>1. gc = "steal" /\ region = Null /\ UNCHANGED <<content, kind, addr>> /\ UNCHANGED countVars
    BY <1>1, <1>13 DEF Steal, TypeInv
  <2>2. CASE region_list = <<>>
    <3>1. region' = Null /\ swept' = swept
      BY <1>13, <2>1, <2>2 DEF Steal
    <3>2. Visited' = Visited
      BY <1>1, <1>2, <2>1, <3>1 DEF Visited
    <3> QED
      BY <1>3, <2>1, <3>2
  <2>3. CASE region_list # <<>>
    <3>1. /\ gc' = "protect" /\ region' = Head(region_list) /\ swept' = swept \cup {region'}
          /\ region' = region_list[1] /\ 1 \in DOMAIN region_list
      BY <1>1, <1>13, <2>3, StolenList DEF Steal
    <3>2. region' \notin swept
      BY <1>1, <2>1, <3>1 DEF RegionsApart, SweepInv
    <3>3. Visited' = Visited
      BY <1>1, <1>2, <2>1, <3>1, <3>2 DEF Visited
    <3> QED
      BY <1>3, <2>1, <3>3
  <2> QED
    BY <2>2, <2>3
<1>14. CASE Protect
  <2>1. /\ gc = "protect" /\ gc' = "collect" /\ addr' = 1 /\ UNCHANGED <<content, kind, region, swept>>
        /\ UNCHANGED countVars
    BY <1>14 DEF Protect
  <2>2. \A r \in swept : \A i \in DOMAIN content[r] : ~(i < addr')
    BY <1>2, <2>1
  <2>3. Visited' = Visited
    BY <2>1, <2>2 DEF Visited
  <2> QED
    BY <1>3, <2>1, <2>3
<1>15. CASE CollectObject
  <2> DEFINE c == content[region][addr]
  <2>1. /\ gc = "collect" /\ gc' = "collect" /\ addr' = addr + 1
        /\ UNCHANGED <<content, kind, region, swept>>
        /\ Count(c)
    BY <1>15 DEF CollectObject
  <2>2. region \in swept /\ region \in Regions /\ addr \in DOMAIN content[region]
    BY <1>1, <1>2, <1>15 DEF CollectObject, TypeInv, SweepInv
  <2>3. c \in Cells
    BY <1>1, <2>2, AllocatedCells
  <2>4. \A i \in DOMAIN content[region] : i < addr' <=> i < addr \/ i = addr
    BY <1>2, <2>1, <2>2
  <2>5. Visited' = Visited \cup {d \in {c} : kind[d] = "obj"}
    BY <2>1, <2>2, <2>3, <2>4 DEF Visited
  <2>6. c \notin Visited
    <3> SUFFICES ASSUME NEW r \in swept, NEW i \in DOMAIN content[r], content[r][i] = c,
                        r = region => i < addr
                 PROVE  FALSE
      BY DEF Visited
    <3>1. r = region /\ i = addr
      BY <1>2, <2>2 DEF Inv, CellsApart
    <3> QED
      BY <1>2, <3>1
  <2>7. IsFiniteSet(Visited) /\ live_count + garbage_count = Cardinality(Visited)
    BY <1>1, <2>1 DEF CountInv
  <2>8. CASE kind[c] = "attr"
    BY <2>1, <2>5, <2>7, <2>8 DEF CountInv, Count
  <2>9. CASE kind[c] # "attr"
    <3>1. kind[c] = "obj"
      BY <1>1, <2>3, <2>9 DEF TypeInv, Objs
    <3>2. Visited' = Visited \cup {c}
      BY <2>5, <3>1
    <3>3. IsFiniteSet(Visited') /\ Cardinality(Visited') = Cardinality(Visited) + 1
      BY <2>6, <2>7, <3>2, FS_AddElement
    <3>4. live_count' + garbage_count' = live_count + garbage_count + 1
      BY <1>1, <2>1, <2>9 DEF Count, TypeInv
    <3> QED
      BY <2>7, <3>3, <3>4 DEF CountInv
  <2> QED
    BY <2>8, <2>9
<1>16. CASE FreeRegion
  <2>1. /\ gc = "collect" /\ region' = Null /\ UNCHANGED <<content, kind, addr, swept>>
        /\ UNCHANGED countVars /\ addr > Len(content[region])
    BY <1>16 DEF FreeRegion
  <2>2. region \in Regions
    BY <1>1, <2>1 DEF TypeInv
  <2>3. \A i \in DOMAIN content[region] : i < addr
    BY <1>2, <2>1, <2>2
  <2>4. Visited' = Visited
    BY <1>1, <1>2, <2>1, <2>3 DEF Visited
  <2> QED
    BY <1>3, <2>1, <2>4
<1>17. CASE PeriodEnd
  BY <1>17 DEF PeriodEnd, CountInv
<1> QED
  BY <1>5, <1>6, <1>7, <1>8, <1>9, <1>10, <1>11, <1>12, <1>13, <1>14, <1>15, <1>16, <1>17, StepKinds

-----------------------------------------------------------------------------
(* The theorems.                                                           *)

LEMMA InitInv == Init => Inv
<1> SUFFICES ASSUME Init PROVE Inv
  OBVIOUS
<1>1. TypeInv
  BY CollectorAssumption DEF Init, TypeInv, Objs
<1>2. \A r \in Regions : content[r] = <<>> /\ DOMAIN content[r] = {}
  BY DEF Init
<1>3. MarkInv /\ GarbageIsOld
  BY DEF Init, MarkInv, GarbageIsOld, SinceSignal, Marked
<1>4. CellsApart
  BY <1>2 DEF CellsApart
<1>5. RegionsApart
  <2>1. DOMAIN region_list = {}
    BY DEF Init
  <2> QED
    BY <2>1, CollectorAssumption DEF Init, RegionsApart
<1>6. SweepInv /\ CountInv
  BY DEF Init, SweepInv, CountInv
<1> QED
  BY <1>1, <1>3, <1>4, <1>5, <1>6 DEF Inv

\* The invariant of the collection: it holds at the start and every step of
\* the program's thread and of the collector keeps it.
THEOREM InvHolds == Spec => []Inv
<1>1. Inv /\ [Next]_vars => Inv'
  BY TypeStep, MarkStep, GarbageStep, CellsStep, RegionsStep, SweepStep, CountStep DEF Inv
<1> QED
  BY InitInv, <1>1, PTL DEF Spec

\* collect_unmarked_objects() counts as garbage only what is older than the
\* period and was not on the stack, however the signal, the retirement of
\* regions and the sweep interleave, for any numbers of cells and regions.
THEOREM GarbageOld == Spec => []GarbageIsOld
<1>1. Inv => GarbageIsOld
  BY DEF Inv
<1> QED
  BY InvHolds, <1>1, PTL

\* The loop over steal_heap_region() leaves out no region that was retired
\* when the marking began and counts every object of the regions it unmaps
\* exactly once, for any region size and any number of regions.
THEOREM SweepIsComplete == Spec => []SweepComplete
<1>1. ASSUME Inv PROVE SweepComplete
  <2> SUFFICES ASSUME gc = "end" PROVE SweepComplete
    BY DEF SweepComplete
  <2>1. TypeInv /\ SweepInv /\ CountInv
    BY <1>1 DEF Inv
  <2>2. region = Null /\ Null \notin Regions /\ swept \subseteq unmapped /\ swept \subseteq Regions
    BY <2>1, CollectorAssumption DEF TypeInv, SweepInv
  <2>3. \A r \in swept : \A i \in DOMAIN content[r] : content[r][i] \in Cells
    BY <2>1, <2>2, AllocatedCells
  <2>4. Visited = ObjectsIn(swept)
    BY <2>2, <2>3 DEF Visited, ObjectsIn, ToSet
  <2> QED
    BY <2>1, <2>2, <2>4 DEF SweepComplete, SweepInv, CountInv
<1> QED
  BY InvHolds, <1>1, PTL
=============================================================================
