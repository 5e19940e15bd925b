----------------------------- MODULE Safepoint ------------------------------
(***************************************************************************)
(* The rendezvous of heap.c between the garbage-collector thread and the   *)
(* mutator threads: how a thread attaches itself to the heap, how the      *)
(* collector asks it (SIGUSR1) to stop at its next safepoint, and how both *)
(* meet at the two-party pthread barrier once the thread has scanned its   *)
(* stack.  What the collector does between two rendezvous (marking and     *)
(* sweeping) is one step here: gc.c is modelled by module Marking and the  *)
(* region list by module RegionList.                                       *)
(***************************************************************************)
EXTENDS Naturals

CONSTANTS
  Threads,    \* the mutator threads that attach to the heap
  Main,       \* the one that called pup_heap_init()
  Pollers,    \* the threads whose code calls pup_env_safepoint()
  Collector,  \* the gc thread
  Null        \* the null struct PupThreadInfo *

ASSUME ThreadsAssumption ==
  /\ Main \in Threads
  /\ Pollers \subseteq Threads
  /\ Collector \notin Threads
  /\ Null \notin Threads \cup {Collector}

VARIABLES
  thread_list,     \* heap->thread_list, the head of the list of attached threads
  next,            \* tinfo->next of each thread
  gc_waiting,      \* tinfo->gc_waiting, written by the thread's own handler
  current_gc_mark, \* tinfo->current_gc_mark, the mark of new objects
  live_mark_value, \* state->live_mark_value, flipped at every collection
  pending,         \* the threads with an undelivered SIGUSR1
  barrier,         \* who waits inside heap->safepoint_barrier
  pc,              \* where each mutator thread is
  old_head,        \* the local old_head of attach_thread_to_heap()
  gc,              \* where the collector thread is
  tinfo,           \* the local tinfo of the loop in perform_gc()
  aborted,         \* the process has called abort()
  scanned,         \* history: threads that scanned their stack this period
  converged        \* history: threads the collector has met this period

listVars   == <<thread_list, next, old_head>>
markVars   == <<current_gc_mark, live_mark_value>>
signalVars == <<gc_waiting, pending>>
history    == <<scanned, converged>>
vars == <<listVars, markVars, signalVars, barrier, pc, gc, tinfo, aborted, history>>

ThreadOrNull == Threads \cup {Null}
Mark         == {0, 1}
ThreadPC     == {"new", "attach", "attach_cas", "run", "scanned", "barrier", "exited"}
CollectorPC  == {"sleep", "head", "signal", "arrive", "barrier", "scan_heap"}

-----------------------------------------------------------------------------
(* The state in which pup_heap_init() returns: the calling thread is the   *)
(* only one attached.  attach_thread() never writes current_gc_mark, so    *)
(* what malloc() left there is the mark of the thread's objects.           *)
Init ==
  /\ thread_list = Main
  /\ next = [t \in Threads |-> Null]
  /\ old_head = [t \in Threads |-> Null]
  /\ gc_waiting = [t \in Threads |-> FALSE]
  /\ current_gc_mark \in [Threads -> Mark]
  /\ live_mark_value = 0
  /\ pending = {}
  /\ barrier = {}
  /\ pc = [t \in Threads |-> IF t = Main THEN "run" ELSE "new"]
  /\ gc = "sleep"
  /\ tinfo = Null
  /\ aborted = FALSE
  /\ scanned = {}
  /\ converged = {}

Goto(t, label) == pc' = [pc EXCEPT ![t] = label]

-----------------------------------------------------------------------------
(* Attaching a thread.                                                     *)

\* pup_heap_thread_init() allocates the thread's region and its
\* PupThreadInfo; current_gc_mark is left as malloc() returned it.
ThreadInit(t) ==
  /\ pc[t] = "new"
  /\ next' = [next EXCEPT ![t] = Null]
  /\ gc_waiting' = [gc_waiting EXCEPT ![t] = FALSE]
  /\ \E m \in Mark : current_gc_mark' = [current_gc_mark EXCEPT ![t] = m]
  /\ Goto(t, "attach")
  /\ UNCHANGED <<thread_list, old_head, live_mark_value, pending, barrier, gc,
                 tinfo, aborted, history>>

\* Without memory for the PupThreadInfo pup_heap_thread_init() aborts; without
\* memory for the region do_main() ignores the -1 and the thread's first
\* allocation aborts in get_thread_info().
ThreadInitFails(t) ==
  /\ pc[t] = "new"
  /\ aborted' = TRUE
  /\ UNCHANGED <<listVars, markVars, signalVars, barrier, pc, gc, tinfo, history>>

\* attach_thread_to_heap() reads the head of the list ...
AttachLoad(t) ==
  /\ pc[t] = "attach"
  /\ old_head' = [old_head EXCEPT ![t] = thread_list]
  /\ Goto(t, "attach_cas")
  /\ UNCHANGED <<thread_list, next, markVars, signalVars, barrier, gc, tinfo,
                 aborted, history>>

\* ... and replaces it by compare-and-swap, or starts again.  The next pointer
\* of the new head keeps the 0 that attach_thread() stored.
AttachCas(t) ==
  /\ pc[t] = "attach_cas"
  /\ IF thread_list = old_head[t]
     THEN thread_list' = t /\ Goto(t, "run")
     ELSE UNCHANGED thread_list /\ Goto(t, "attach")
  /\ UNCHANGED <<next, old_head, markVars, signalVars, barrier, gc, tinfo,
                 aborted, history>>

-----------------------------------------------------------------------------
(* The mutator's side of the rendezvous.                                   *)

\* Negative control: the handler forgets to copy the mark.
HandleSignal_KeepsMark(t) ==
  /\ t \in pending
  /\ pending' = pending \ {t}
  /\ gc_waiting' = [gc_waiting EXCEPT ![t] = TRUE]
  /\ UNCHANGED <<listVars, markVars, barrier, pc, gc, tinfo, aborted, history>>

\* siguser1_handler() runs on the thread itself, wherever the thread is.
HandleSignal(t) ==
  /\ t \in pending
  /\ pending' = pending \ {t}
  /\ gc_waiting' = [gc_waiting EXCEPT ![t] = TRUE]
  /\ current_gc_mark' = [current_gc_mark EXCEPT ![t] = live_mark_value]
  /\ UNCHANGED <<listVars, live_mark_value, barrier, pc, gc, tinfo, aborted, history>>

\* pup_heap_safepoint() with gc_waiting set: scan this thread's stack first.
\* With gc_waiting clear the call does nothing.
ScanStack(t) ==
  /\ pc[t] = "run"
  /\ t \in Pollers
  /\ gc_waiting[t]
  /\ scanned' = scanned \cup {t}
  /\ Goto(t, "scanned")
  /\ UNCHANGED <<listVars, markVars, signalVars, barrier, gc, tinfo, aborted, converged>>

\* pthread_barrier_wait() on a barrier initialised for two: the first party
\* waits, the second empties the barrier and thereby releases both.
BarrierArrive(p) == barrier' = IF barrier = {} THEN {p} ELSE {}

\* announce_mutator_arrival(): the wait ...
MutatorArrive(t) ==
  /\ pc[t] = "scanned"
  /\ BarrierArrive(t)
  /\ Goto(t, "barrier")
  /\ UNCHANGED <<listVars, markVars, signalVars, gc, tinfo, aborted, history>>

\* Negative control: the flag is not cleared after the release.
MutatorResume_KeepsFlag(t) ==
  /\ pc[t] = "barrier"
  /\ t \notin barrier
  /\ Goto(t, "run")
  /\ UNCHANGED <<listVars, markVars, signalVars, barrier, gc, tinfo, aborted, history>>

\* ... and, after the release, the flag is cleared.
MutatorResume(t) ==
  /\ pc[t] = "barrier"
  /\ t \notin barrier
  /\ gc_waiting' = [gc_waiting EXCEPT ![t] = FALSE]
  /\ Goto(t, "run")
  /\ UNCHANGED <<listVars, markVars, pending, barrier, gc, tinfo, aborted, history>>

\* do_main() returns: the thread ends and its PupThreadInfo stays on the list.
ThreadExit(t) ==
  /\ pc[t] = "run"
  /\ t # Main
  /\ Goto(t, "exited")
  /\ pending' = pending \ {t}
  /\ UNCHANGED <<listVars, markVars, gc_waiting, barrier, gc, tinfo, aborted, history>>

-----------------------------------------------------------------------------
(* The collector's side: gc_thread() and perform_gc().                     *)

\* Negative control: the mark is counted up instead of negated.
PeriodStart_CountsUp ==
  /\ gc = "sleep"
  /\ live_mark_value' = live_mark_value + 1
  /\ scanned' = {}
  /\ converged' = {}
  /\ gc' = "head"
  /\ UNCHANGED <<listVars, current_gc_mark, signalVars, barrier, pc, tinfo, aborted>>

\* nanosleep() ends and pup_gc_period_start() flips the live mark.
PeriodStart ==
  /\ gc = "sleep"
  /\ live_mark_value' = 1 - live_mark_value
  /\ scanned' = {}
  /\ converged' = {}
  /\ gc' = "head"
  /\ UNCHANGED <<listVars, current_gc_mark, signalVars, barrier, pc, tinfo, aborted>>

\* The loop of perform_gc() goes on with thread t, or ends.
WalkTo(t) ==
  /\ tinfo' = t
  /\ gc' = IF t = Null THEN "scan_heap" ELSE "signal"

WalkHead ==
  /\ gc = "head"
  /\ WalkTo(thread_list)
  /\ UNCHANGED <<listVars, markVars, signalVars, barrier, pc, aborted, history>>

\* converge_on_safepoint() queues SIGUSR1 to the thread.  For a thread that
\* has ended pthread_sigqueue() fails, which aborts, or does nothing.
Signal ==
  /\ gc = "signal"
  /\ IF pc[tinfo] = "exited"
     THEN aborted' \in BOOLEAN /\ UNCHANGED pending
     ELSE pending' = pending \cup {tinfo} /\ UNCHANGED aborted
  /\ gc' = "arrive"
  /\ UNCHANGED <<listVars, markVars, gc_waiting, barrier, pc, tinfo, history>>

\* Negative control: the collector signals and goes on without waiting.
CollectorArrive_NoWait ==
  /\ gc = "arrive"
  /\ gc' = "barrier"
  /\ UNCHANGED <<listVars, markVars, signalVars, barrier, pc, tinfo, aborted, history>>

\* converge_on_safepoint() then waits at the barrier ...
CollectorArrive ==
  /\ gc = "arrive"
  /\ BarrierArrive(Collector)
  /\ gc' = "barrier"
  /\ UNCHANGED <<listVars, markVars, signalVars, pc, tinfo, aborted, history>>

\* Negative control: the collector treats its own arrival as the release.
CollectorResume_Early ==
  /\ gc = "barrier"
  /\ converged' = converged \cup {tinfo}
  /\ WalkTo(next[tinfo])
  /\ UNCHANGED <<listVars, markVars, signalVars, barrier, pc, aborted, scanned>>

\* ... and, once released, perform_gc() moves on to the next thread.
CollectorResume ==
  /\ gc = "barrier"
  /\ Collector \notin barrier
  /\ converged' = converged \cup {tinfo}
  /\ WalkTo(next[tinfo])
  /\ UNCHANGED <<listVars, markVars, signalVars, barrier, pc, aborted, scanned>>

\* pup_gc_scan_heap(), collect_unmarked_objects() and pup_gc_period_end().
FinishPeriod ==
  /\ gc = "scan_heap"
  /\ gc' = "sleep"
  /\ UNCHANGED <<listVars, markVars, signalVars, barrier, pc, tinfo, aborted, history>>

-----------------------------------------------------------------------------
MutatorStep(t) ==
  \/ ThreadInit(t) \/ ThreadInitFails(t) \/ AttachLoad(t) \/ AttachCas(t)
  \/ HandleSignal(t) \/ ScanStack(t) \/ MutatorArrive(t) \/ MutatorResume(t)
  \/ ThreadExit(t)

CollectorStep ==
  \/ PeriodStart \/ WalkHead \/ Signal \/ CollectorArrive \/ CollectorResume
  \/ FinishPeriod

Next ==
  /\ ~aborted
  /\ CollectorStep \/ \E t \in Threads : MutatorStep(t)

Spec == Init /\ [][Next]_vars

\* The gc thread is never blocked except at the barrier, and nothing but the
\* kernel's scheduler decides when it runs.
FairSpec == Spec /\ WF_vars(~aborted /\ CollectorStep)

-----------------------------------------------------------------------------
(* Properties.                                                             *)

TypeOK ==
  /\ thread_list \in ThreadOrNull
  /\ next \in [Threads -> ThreadOrNull]
  /\ old_head \in [Threads -> ThreadOrNull]
  /\ gc_waiting \in [Threads -> BOOLEAN]
  /\ current_gc_mark \in [Threads -> Mark]
  /\ live_mark_value \in Mark
  /\ pending \subseteq Threads
  /\ barrier \subseteq Threads \cup {Collector}
  /\ pc \in [Threads -> ThreadPC]
  /\ gc \in CollectorPC
  /\ tinfo \in ThreadOrNull
  /\ aborted \in BOOLEAN
  /\ scanned \subseteq Threads
  /\ converged \subseteq Threads

\* Thread t has been released from the barrier and has not yet cleared
\* gc_waiting in announce_mutator_arrival().
Released(t) == pc[t] = "barrier" /\ t \notin barrier

\* Thread t owes the collector a rendezvous.
Requested(t) ==
  \/ t \in pending
  \/ gc_waiting[t] /\ ~Released(t) /\ pc[t] # "exited"
  \/ pc[t] = "scanned"
  \/ t \in barrier

\* The barrier of heap.c is one object shared by every thread and counts only
\* to two.  It nevertheless only ever pairs the collector with the thread that
\* converge_on_safepoint() has signalled: no two mutators release each other,
\* and no thread answers a request that was made to another one.
BarrierPairsCollectorWithTarget ==
  /\ \A p, q \in barrier : p = q
  /\ \A t \in Threads : Requested(t) =>
       /\ t = tinfo
       /\ gc \in {"arrive", "barrier"}
       /\ gc = "barrier" => Collector \in barrier

\* When the collector has passed the barrier with a thread, that thread has
\* scanned its stack in the current period and allocates with the current
\* mark, whatever signal, scan and wake-up order led there.
ConvergedThreadsScanned ==
  \A t \in converged : t \in scanned /\ current_gc_mark[t] = live_mark_value

\* pup_gc_period_start() never flips the mark while a thread is between the
\* collector's request and its own release: the mark a thread copies in the
\* signal handler is the mark of the period that asked.
MarkFlipsOnlyBetweenRequests ==
  [][live_mark_value' # live_mark_value => \A t \in Threads : ~Requested(t)]_vars

\* A mutator that waits in pup_heap_safepoint() is always released (or the
\* process aborts): the collector is on its way to the same barrier.
MutatorReleased ==
  \A t \in Threads : t \in barrier ~> (t \notin barrier \/ aborted)

-----------------------------------------------------------------------------
(* What a comment of heap.c says, and the code does not do.                *)

\* heap.c, siguser1_handler(): a signalled thread that "reaches a safepoint
\* ... should notify the gc thread that this has happened".  While the
\* collector waits for a thread, that thread still knows it has to answer.
RequestNotForgotten ==
  gc = "barrier" /\ Collector \in barrier /\ pc[tinfo] # "exited" =>
    Requested(tinfo) \/ gc_waiting[tinfo]
=============================================================================
