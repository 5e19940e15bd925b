-------------------------- MODULE SafepointProofs ---------------------------
(***************************************************************************)
(* Proofs that the safety properties of module Safepoint hold for any set  *)
(* of threads.  All of them rest on one inductive invariant, Inv: at any   *)
(* time at most one thread owes the collector a rendezvous, it is the one  *)
(* the collector is waiting for, and it has at most one signal in flight.  *)
(***************************************************************************)
EXTENDS Safepoint, TLAPS

Unattached(t) == pc[t] \in {"new", "attach", "attach_cas"}

\* Thread t has a stack scan and a mark of the current period.
UpToDate(t) == t \in scanned /\ current_gc_mark[t] = live_mark_value

\* attach_thread_to_heap() never links the list, so it has one element; a
\* thread that is not on it is unknown to the collector.
ListInv ==
  /\ \A t \in Threads : next[t] = Null
  /\ gc \in {"signal", "arrive", "barrier"} => tinfo \in Threads
  /\ \A t \in Threads : Unattached(t) =>
       /\ t # thread_list /\ t # tinfo
       /\ t \notin pending /\ ~gc_waiting[t] /\ t \notin converged

\* The barrier holds nobody but a party that is waiting in it.
BarrierInv ==
  /\ Collector \in barrier => gc = "barrier"
  /\ \A t \in Threads : t \in barrier => pc[t] = "barrier"

\* A signal is in flight only to a thread that has not yet seen it, and a
\* thread that answers has no second signal in flight.
SignalInv ==
  \A t \in Threads :
    /\ t \in pending => ~gc_waiting[t] \/ Released(t)
    /\ pc[t] = "scanned" \/ t \in barrier => gc_waiting[t] /\ t \notin pending

\* A thread that has seen the request has the mark of the period, and one that
\* has answered has scanned its stack as well.
MarkInv ==
  /\ \A t \in Threads :
       /\ gc_waiting[t] /\ ~Released(t) /\ pc[t] # "exited" =>
            current_gc_mark[t] = live_mark_value
       /\ pc[t] = "scanned" \/ t \in barrier => UpToDate(t)
  /\ gc = "barrier" /\ Collector \notin barrier => UpToDate(tinfo)
  /\ ConvergedThreadsScanned

Inv ==
  /\ TypeOK
  /\ BarrierPairsCollectorWithTarget
  /\ ListInv
  /\ BarrierInv
  /\ SignalInv
  /\ MarkInv

-----------------------------------------------------------------------------
\* The state in which pup_heap_init() returns satisfies the invariant.
LEMMA InitInv == Init => Inv
<1> SUFFICES ASSUME Init PROVE Inv
  OBVIOUS
<1>1. TypeOK
  BY ThreadsAssumption DEF Init, TypeOK, ThreadOrNull, Mark, ThreadPC, CollectorPC
<1>2. BarrierPairsCollectorWithTarget
  BY DEF Init, BarrierPairsCollectorWithTarget, Requested
<1>3. ListInv
  BY ThreadsAssumption DEF Init, ListInv, Unattached
<1>4. BarrierInv /\ SignalInv
  BY DEF Init, BarrierInv, SignalInv
<1>5. MarkInv
  BY DEF Init, MarkInv, ConvergedThreadsScanned
<1> QED
  BY <1>1, <1>2, <1>3, <1>4, <1>5 DEF Inv

\* Every step of a mutator thread or of the collector keeps the variables in
\* their types; pc[tinfo] and next[tinfo] are read only where tinfo is a thread.
LEMMA TypeStep == Inv /\ Next => TypeOK'
<1> SUFFICES ASSUME Inv, Next PROVE TypeOK'
  OBVIOUS
<1> USE DEF ThreadOrNull, Mark, ThreadPC, CollectorPC, listVars, markVars, signalVars, history
<1>1. TypeOK /\ ListInv
  BY DEF Inv
<1>2. ASSUME NEW t \in Threads, MutatorStep(t) PROVE TypeOK'
  <2>1. CASE ThreadInit(t)
    BY <1>1, <2>1 DEF TypeOK, ThreadInit, Goto
  <2>2. CASE ThreadInitFails(t)
    BY <1>1, <2>2 DEF TypeOK, ThreadInitFails
  <2>3. CASE AttachLoad(t)
    BY <1>1, <2>3 DEF TypeOK, AttachLoad, Goto
  <2>4. CASE AttachCas(t)
    BY <1>1, <2>4 DEF TypeOK, AttachCas, Goto
  <2>5. CASE HandleSignal(t)
    BY <1>1, <2>5 DEF TypeOK, HandleSignal
  <2>6. CASE ScanStack(t)
    BY <1>1, <2>6 DEF TypeOK, ScanStack, Goto
  <2>7. CASE MutatorArrive(t)
    BY <1>1, <2>7 DEF TypeOK, MutatorArrive, Goto, BarrierArrive
  <2>8. CASE MutatorResume(t)
    BY <1>1, <2>8 DEF TypeOK, MutatorResume, Goto
  <2>9. CASE ThreadExit(t)
    BY <1>1, <2>9 DEF TypeOK, ThreadExit, Goto
  <2> QED
    BY <1>2, <2>1, <2>2, <2>3, <2>4, <2>5, <2>6, <2>7, <2>8, <2>9 DEF MutatorStep
<1>3. ASSUME CollectorStep PROVE TypeOK'
  <2>1. CASE PeriodStart
    BY <1>1, <2>1 DEF TypeOK, ListInv, PeriodStart
  <2>2. CASE WalkHead
    BY <1>1, <2>2 DEF TypeOK, ListInv, WalkHead, WalkTo
  <2>3. CASE Signal
    BY <1>1, <2>3 DEF TypeOK, ListInv, Signal
  <2>4. CASE CollectorArrive
    BY <1>1, <2>4 DEF TypeOK, ListInv, CollectorArrive, BarrierArrive
  <2>5. CASE CollectorResume
    BY <1>1, <2>5 DEF TypeOK, ListInv, CollectorResume, WalkTo
  <2>6. CASE FinishPeriod
    BY <1>1, <2>6 DEF TypeOK, ListInv, FinishPeriod
  <2> QED
    BY <1>3, <2>1, <2>2, <2>3, <2>4, <2>5, <2>6 DEF CollectorStep
<1> QED
  BY <1>2, <1>3 DEF Next

\* The barrier stays a meeting of the collector and its target.  The two arrivals
\* are the cases that matter: whoever finds the barrier occupied finds the other
\* party there, because a second mutator would owe a rendezvous of its own.
LEMMA BarrierPairsStep == Inv /\ Next => BarrierPairsCollectorWithTarget'
<1> SUFFICES ASSUME Inv, Next PROVE BarrierPairsCollectorWithTarget'
  OBVIOUS
<1> USE DEF BarrierPairsCollectorWithTarget, Requested, Released, signalVars
<1>1. TypeOK /\ BarrierPairsCollectorWithTarget /\ BarrierInv /\ SignalInv
  BY DEF Inv
<1>2. ASSUME NEW u \in Threads, MutatorStep(u) PROVE BarrierPairsCollectorWithTarget'
  <2>1. CASE ThreadInit(u)
    BY <1>1, <2>1 DEF ThreadInit, Goto
  <2>2. CASE ThreadInitFails(u)
    BY <1>1, <2>2 DEF ThreadInitFails
  <2>3. CASE AttachLoad(u)
    BY <1>1, <2>3 DEF AttachLoad, Goto
  <2>4. CASE AttachCas(u)
    BY <1>1, <2>4 DEF AttachCas, Goto, TypeOK
  <2>5. CASE HandleSignal(u)
    BY <1>1, <2>5 DEF HandleSignal
  <2>6. CASE ScanStack(u)
    BY <1>1, <2>6 DEF ScanStack, Goto
  <2>7. CASE MutatorArrive(u)
    BY <1>1, <2>7 DEF MutatorArrive, Goto, BarrierArrive, TypeOK, SignalInv
  <2>8. CASE MutatorResume(u)
    BY <1>1, <2>8 DEF MutatorResume, Goto, TypeOK
  <2>9. CASE ThreadExit(u)
    BY <1>1, <2>9 DEF ThreadExit, Goto
  <2> QED
    BY <1>2, <2>1, <2>2, <2>3, <2>4, <2>5, <2>6, <2>7, <2>8, <2>9 DEF MutatorStep
<1>3. ASSUME CollectorStep PROVE BarrierPairsCollectorWithTarget'
  <2>1. CASE PeriodStart
    BY <1>1, <2>1 DEF PeriodStart
  <2>2. CASE WalkHead
    BY <1>1, <2>2 DEF WalkHead, WalkTo
  <2>3. CASE Signal
    BY <1>1, <2>3 DEF Signal
  <2>4. CASE CollectorArrive
    BY <1>1, <2>4, ThreadsAssumption DEF CollectorArrive, BarrierArrive, TypeOK, BarrierInv, SignalInv
  <2>5. CASE CollectorResume
    BY <1>1, <2>5 DEF CollectorResume, WalkTo
  <2>6. CASE FinishPeriod
    BY <1>1, <2>6 DEF FinishPeriod
  <2> QED
    BY <1>3, <2>1, <2>2, <2>3, <2>4, <2>5, <2>6 DEF CollectorStep
<1> QED
  BY <1>2, <1>3 DEF Next

\* The collector only ever learns of threads that finished attach_thread_to_heap().
LEMMA ListStep == Inv /\ Next => ListInv'
<1> SUFFICES ASSUME Inv, Next PROVE ListInv'
  OBVIOUS
<1> USE DEF ListInv, Unattached, listVars, signalVars, history
<1>1. TypeOK /\ ListInv
  BY DEF Inv
<1>2. ASSUME NEW u \in Threads, MutatorStep(u) PROVE ListInv'
  <2>1. CASE ThreadInit(u)
    BY <1>1, <2>1 DEF ThreadInit, Goto
  <2>2. CASE ThreadInitFails(u)
    BY <1>1, <2>2 DEF ThreadInitFails
  <2>3. CASE AttachLoad(u)
    BY <1>1, <2>3 DEF AttachLoad, Goto
  <2>4. CASE AttachCas(u)
    BY <1>1, <2>4 DEF AttachCas, Goto, TypeOK
  <2>5. CASE HandleSignal(u)
    BY <1>1, <2>5 DEF HandleSignal
  <2>6. CASE ScanStack(u)
    BY <1>1, <2>6 DEF ScanStack, Goto
  <2>7. CASE MutatorArrive(u)
    BY <1>1, <2>7 DEF MutatorArrive, Goto, BarrierArrive
  <2>8. CASE MutatorResume(u)
    BY <1>1, <2>8 DEF MutatorResume, Goto
  <2>9. CASE ThreadExit(u)
    BY <1>1, <2>9 DEF ThreadExit, Goto
  <2> QED
    BY <1>2, <2>1, <2>2, <2>3, <2>4, <2>5, <2>6, <2>7, <2>8, <2>9 DEF MutatorStep
<1>3. ASSUME CollectorStep PROVE ListInv'
  <2>1. CASE PeriodStart
    BY <1>1, <2>1 DEF PeriodStart
  <2>2. CASE WalkHead
    BY <1>1, <2>2 DEF WalkHead, WalkTo, TypeOK, ThreadOrNull
  <2>3. CASE Signal
    BY <1>1, <2>3 DEF Signal
  <2>4. CASE CollectorArrive
    BY <1>1, <2>4 DEF CollectorArrive, BarrierArrive
  <2>5. CASE CollectorResume
    BY <1>1, <2>5, ThreadsAssumption DEF CollectorResume, WalkTo
  <2>6. CASE FinishPeriod
    BY <1>1, <2>6 DEF FinishPeriod
  <2> QED
    BY <1>3, <2>1, <2>2, <2>3, <2>4, <2>5, <2>6 DEF CollectorStep
<1> QED
  BY <1>2, <1>3 DEF Next

\* Whoever is inside the barrier is at its barrier_wait() call.
LEMMA BarrierStep == Inv /\ Next => BarrierInv'
<1> SUFFICES ASSUME Inv, Next PROVE BarrierInv'
  OBVIOUS
<1> USE DEF BarrierInv
<1>1. TypeOK /\ BarrierInv
  BY DEF Inv
<1>2. ASSUME NEW u \in Threads, MutatorStep(u) PROVE BarrierInv'
  <2>1. CASE ThreadInit(u)
    BY <1>1, <2>1 DEF ThreadInit, Goto
  <2>2. CASE ThreadInitFails(u)
    BY <1>1, <2>2 DEF ThreadInitFails
  <2>3. CASE AttachLoad(u)
    BY <1>1, <2>3 DEF AttachLoad, Goto
  <2>4. CASE AttachCas(u)
    BY <1>1, <2>4 DEF AttachCas, Goto, TypeOK
  <2>5. CASE HandleSignal(u)
    BY <1>1, <2>5 DEF HandleSignal
  <2>6. CASE ScanStack(u)
    BY <1>1, <2>6 DEF ScanStack, Goto
  <2>7. CASE MutatorArrive(u)
    BY <1>1, <2>7, ThreadsAssumption DEF MutatorArrive, Goto, BarrierArrive, TypeOK
  <2>8. CASE MutatorResume(u)
    BY <1>1, <2>8 DEF MutatorResume, Goto
  <2>9. CASE ThreadExit(u)
    BY <1>1, <2>9 DEF ThreadExit, Goto
  <2> QED
    BY <1>2, <2>1, <2>2, <2>3, <2>4, <2>5, <2>6, <2>7, <2>8, <2>9 DEF MutatorStep
<1>3. ASSUME CollectorStep PROVE BarrierInv'
  <2>1. CASE PeriodStart
    BY <1>1, <2>1 DEF PeriodStart
  <2>2. CASE WalkHead
    BY <1>1, <2>2 DEF WalkHead, WalkTo
  <2>3. CASE Signal
    BY <1>1, <2>3 DEF Signal
  <2>4. CASE CollectorArrive
    BY <1>1, <2>4, ThreadsAssumption DEF CollectorArrive, BarrierArrive
  <2>5. CASE CollectorResume
    BY <1>1, <2>5 DEF CollectorResume, WalkTo
  <2>6. CASE FinishPeriod
    BY <1>1, <2>6 DEF FinishPeriod
  <2> QED
    BY <1>3, <2>1, <2>2, <2>3, <2>4, <2>5, <2>6 DEF CollectorStep
<1> QED
  BY <1>2, <1>3 DEF Next

\* No thread is signalled twice for one request: when the collector signals, the
\* thread owes nothing, so its flag is clear or about to be cleared.
LEMMA SignalStep == Inv /\ Next => SignalInv'
<1> SUFFICES ASSUME Inv, Next PROVE SignalInv'
  OBVIOUS
<1> USE DEF SignalInv, Released, signalVars
<1>1. TypeOK /\ BarrierPairsCollectorWithTarget /\ BarrierInv /\ SignalInv
  BY DEF Inv
<1>2. ASSUME NEW u \in Threads, MutatorStep(u) PROVE SignalInv'
  <2>1. CASE ThreadInit(u)
    BY <1>1, <2>1 DEF ThreadInit, Goto, BarrierInv
  <2>2. CASE ThreadInitFails(u)
    BY <1>1, <2>2 DEF ThreadInitFails
  <2>3. CASE AttachLoad(u)
    BY <1>1, <2>3 DEF AttachLoad, Goto
  <2>4. CASE AttachCas(u)
    BY <1>1, <2>4 DEF AttachCas, Goto, TypeOK
  <2>5. CASE HandleSignal(u)
    BY <1>1, <2>5 DEF HandleSignal
  <2>6. CASE ScanStack(u)
    BY <1>1, <2>6 DEF ScanStack, Goto
  <2>7. CASE MutatorArrive(u)
    BY <1>1, <2>7 DEF MutatorArrive, Goto, BarrierArrive
  <2>8. CASE MutatorResume(u)
    BY <1>1, <2>8 DEF MutatorResume, Goto, TypeOK
  <2>9. CASE ThreadExit(u)
    BY <1>1, <2>9 DEF ThreadExit, Goto
  <2> QED
    BY <1>2, <2>1, <2>2, <2>3, <2>4, <2>5, <2>6, <2>7, <2>8, <2>9 DEF MutatorStep
<1>3. ASSUME CollectorStep PROVE SignalInv'
  <2>1. CASE PeriodStart
    BY <1>1, <2>1 DEF PeriodStart
  <2>2. CASE WalkHead
    BY <1>1, <2>2 DEF WalkHead, WalkTo
  <2>3. CASE Signal
    BY <1>1, <2>3 DEF Signal, BarrierPairsCollectorWithTarget, Requested
  <2>4. CASE CollectorArrive
    BY <1>1, <2>4, ThreadsAssumption DEF CollectorArrive, BarrierArrive
  <2>5. CASE CollectorResume
    BY <1>1, <2>5 DEF CollectorResume, WalkTo
  <2>6. CASE FinishPeriod
    BY <1>1, <2>6 DEF FinishPeriod
  <2> QED
    BY <1>3, <2>1, <2>2, <2>3, <2>4, <2>5, <2>6 DEF CollectorStep
<1> QED
  BY <1>2, <1>3 DEF Next

\* Scans and marks stay those of the current period: the mark flips only when no
\* thread owes a rendezvous, and the thread the collector meets has just scanned.
LEMMA MarkStep == Inv /\ Next => MarkInv'
<1> SUFFICES ASSUME Inv, Next PROVE MarkInv'
  OBVIOUS
<1> USE DEF MarkInv, UpToDate, ConvergedThreadsScanned, Released, markVars, signalVars, history
<1>1. TypeOK /\ BarrierPairsCollectorWithTarget /\ ListInv /\ BarrierInv /\ SignalInv /\ MarkInv
  BY DEF Inv
<1>2. ASSUME NEW u \in Threads, MutatorStep(u) PROVE MarkInv'
  <2>1. CASE ThreadInit(u)
    BY <1>1, <2>1 DEF ThreadInit, Goto, ListInv, SignalInv, Unattached
  <2>2. CASE ThreadInitFails(u)
    BY <1>1, <2>2 DEF ThreadInitFails
  <2>3. CASE AttachLoad(u)
    BY <1>1, <2>3 DEF AttachLoad, Goto
  <2>4. CASE AttachCas(u)
    BY <1>1, <2>4 DEF AttachCas, Goto, TypeOK
  <2>5. CASE HandleSignal(u)
    BY <1>1, <2>5 DEF HandleSignal, TypeOK
  <2>6. CASE ScanStack(u)
    BY <1>1, <2>6 DEF ScanStack, Goto
  <2>7. CASE MutatorArrive(u)
    BY <1>1, <2>7 DEF MutatorArrive, Goto, BarrierArrive, BarrierPairsCollectorWithTarget, Requested
  <2>8. CASE MutatorResume(u)
    BY <1>1, <2>8 DEF MutatorResume, Goto, TypeOK
  <2>9. CASE ThreadExit(u)
    BY <1>1, <2>9 DEF ThreadExit, Goto
  <2> QED
    BY <1>2, <2>1, <2>2, <2>3, <2>4, <2>5, <2>6, <2>7, <2>8, <2>9 DEF MutatorStep
<1>3. ASSUME CollectorStep PROVE MarkInv'
  <2>1. CASE PeriodStart
    BY <1>1, <2>1 DEF PeriodStart, BarrierPairsCollectorWithTarget, Requested
  <2>2. CASE WalkHead
    BY <1>1, <2>2 DEF WalkHead, WalkTo
  <2>3. CASE Signal
    BY <1>1, <2>3 DEF Signal
  <2>4. CASE CollectorArrive
    BY <1>1, <2>4, ThreadsAssumption DEF CollectorArrive, BarrierArrive, TypeOK, BarrierPairsCollectorWithTarget, BarrierInv, Requested
  <2>5. CASE CollectorResume
    BY <1>1, <2>5 DEF CollectorResume, WalkTo
  <2>6. CASE FinishPeriod
    BY <1>1, <2>6 DEF FinishPeriod
  <2> QED
    BY <1>3, <2>1, <2>2, <2>3, <2>4, <2>5, <2>6 DEF CollectorStep
<1> QED
  BY <1>2, <1>3 DEF Next

\* A step that changes nothing keeps the invariant.
LEMMA StutterInv == Inv /\ UNCHANGED vars => Inv'
<1> SUFFICES ASSUME Inv, UNCHANGED vars PROVE Inv'
  OBVIOUS
<1> USE DEF vars, listVars, markVars, signalVars, history
<1>1. TypeOK'
  BY DEF Inv, TypeOK
<1>2. BarrierPairsCollectorWithTarget'
  BY DEF Inv, BarrierPairsCollectorWithTarget, Requested, Released
<1>3. ListInv' /\ BarrierInv'
  BY DEF Inv, ListInv, BarrierInv, Unattached
<1>4. SignalInv'
  BY DEF Inv, SignalInv, Released
<1>5. MarkInv'
  BY DEF Inv, MarkInv, UpToDate, Released, ConvergedThreadsScanned
<1> QED
  BY <1>1, <1>2, <1>3, <1>4, <1>5 DEF Inv

\* The invariant holds in every reachable state, whatever the set of threads,
\* of polling threads, and the order of attaching, signals and wake-ups.
THEOREM InvHolds == Spec => []Inv
<1>1. Inv /\ Next => Inv'
  BY TypeStep, BarrierPairsStep, ListStep, BarrierStep, SignalStep, MarkStep DEF Inv
<1>2. Inv /\ [Next]_vars => Inv'
  BY <1>1, StutterInv
<1> QED
  BY InitInv, <1>2, PTL DEF Spec

\* Type correctness of the thread list, flags, marks and program counters of
\* heap.c's rendezvous.
THEOREM TypeCorrect == Spec => []TypeOK
<1>1. Inv => TypeOK
  BY DEF Inv
<1> QED
  BY InvHolds, <1>1, PTL

\* The one barrier of heap.c only ever pairs the collector with the thread
\* converge_on_safepoint() signalled, for any number of threads.
THEOREM BarrierPairing == Spec => []BarrierPairsCollectorWithTarget
<1>1. Inv => BarrierPairsCollectorWithTarget
  BY DEF Inv
<1> QED
  BY InvHolds, <1>1, PTL

\* Whenever perform_gc() has passed the barrier with a thread, that thread has
\* scanned its stack and taken over the live mark in this very period.
THEOREM ConvergedScanned == Spec => []ConvergedThreadsScanned
<1>1. Inv => ConvergedThreadsScanned
  BY DEF Inv, MarkInv
<1> QED
  BY InvHolds, <1>1, PTL

\* pup_gc_period_start() is the only step that changes the live mark, and it
\* runs only when no thread is between the collector's request and its release.
THEOREM MarkFlips == Spec => MarkFlipsOnlyBetweenRequests
<1> DEFINE Quiet == \A t \in Threads : ~Requested(t)
<1>1. ASSUME Inv, Next, live_mark_value' # live_mark_value PROVE Quiet
  <2>1. PeriodStart
    <3>1. ASSUME NEW u \in Threads, MutatorStep(u) PROVE live_mark_value' = live_mark_value
      BY <3>1 DEF MutatorStep, ThreadInit, ThreadInitFails, AttachLoad, AttachCas,
           HandleSignal, ScanStack, MutatorArrive, MutatorResume, ThreadExit, markVars
    <3> QED
      BY <1>1, <3>1 DEF Next, CollectorStep, WalkHead, Signal, CollectorArrive,
           CollectorResume, FinishPeriod, markVars
  <2> QED
    BY <1>1, <2>1 DEF Inv, BarrierPairsCollectorWithTarget, PeriodStart
<1>2. Inv /\ [Next]_vars => [live_mark_value' # live_mark_value => Quiet]_vars
  BY <1>1
<1> QED
  BY InvHolds, <1>2, PTL DEF Spec, MarkFlipsOnlyBetweenRequests
=============================================================================
