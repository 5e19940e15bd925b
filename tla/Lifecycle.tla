----------------------------- MODULE Lifecycle ------------------------------
(***************************************************************************)
(* A process of the runtime from start to end, env.c, heap.c and the       *)
(* generated main(): pup_runtime_env_create() initialises the heap and     *)
(* starts the collector thread in the middle of it; pup_env_launch_main()  *)
(* runs the program on a thread of its own and joins it; the process then  *)
(* exits with the collector still running.  A client that is no compiled   *)
(* program (ctests/) calls pup_runtime_env_destroy() instead, which stops  *)
(* the collector.  What the collector does in a period is module           *)
(* Safepoint's and Collector's; here it matters whom it waits for.         *)
(***************************************************************************)
VARIABLES
  main,         \* where the process's first thread is
  program,      \* where the thread of do_main() is
  gc,           \* where the collector thread is
  key,          \* heap->this_thread_info: "none", "valid" or "deleted"
  info,         \* the threads whose PupThreadInfo is set under that key
  thread_list,  \* heap->thread_list: "null", "main" or "program"
  handler,      \* sigaction() has installed siguser1_handler()
  barrier,      \* heap->safepoint_barrier is initialised
  gc_state,     \* heap->gc_state is set
  pending,      \* the threads with an undelivered SIGUSR1
  gc_waiting,   \* the threads with tinfo->gc_waiting set
  target,       \* the thread of converge_on_safepoint()
  cancel,       \* pthread_cancel() was called on the collector
  freed,        \* what is freed again: the "regions", then the "env" with the heap in it
  status        \* "running", "exited", "aborted", "crashed" or "faulted"

heapVars   == <<key, info, thread_list, handler, barrier, gc_state, freed>>
signalVars == <<pending, gc_waiting, target>>
vars == <<main, program, gc, heapVars, signalVars, cancel, status>>

\* malloc() leaves the heap of a new environment uninitialised.
Init ==
  /\ main = "malloc" /\ program = "none" /\ gc = "none"
  /\ key = "none" /\ info = {} /\ thread_list = "null"
  /\ handler = FALSE /\ barrier = FALSE /\ gc_state = FALSE /\ freed = {}
  /\ pending = {} /\ gc_waiting = {} /\ target = "null"
  /\ cancel = FALSE /\ status = "running"

Abort == status' = "aborted"

\* Use of a part of the environment that is not made yet, or is gone: the heap,
\* its key, barrier and state, a thread id, what pup_runtime_env_destroy() freed.
Crash == status' = "crashed"

\* A reference, or the collector's segment, that does not lead to memory.
Fault == status' = "faulted"

-----------------------------------------------------------------------------
(* pup_runtime_env_create(), on the first thread.                          *)

\* Without memory it returns NULL, which no caller checks.
MallocEnv ==
  /\ main = "malloc"
  /\ \/ main' = "symtab" /\ UNCHANGED status
     \/ Crash /\ UNCHANGED main
  /\ UNCHANGED <<program, gc, heapVars, signalVars, cancel>>

\* Without a symbol table the error path destroys the environment as it is.
SymTable ==
  /\ main = "symtab"
  /\ main' \in {"key", "stop"}
  /\ UNCHANGED <<program, gc, heapVars, signalVars, cancel, status>>

\* One call of pup_heap_init() that succeeds.
InitStep(from, to) ==
  /\ main = from
  /\ main' = to
  /\ UNCHANGED <<program, signalVars, cancel, freed, status>>

\* Whichever of them fails, pup_heap_init() or runtime_init() aborts.
InitFails ==
  /\ main \in {"key", "attach", "sigaction", "start", "barrier", "gc_state", "classes"}
  /\ Abort
  /\ UNCHANGED <<main, program, gc, heapVars, signalVars, cancel>>

KeyCreate ==
  /\ InitStep("key", "attach")
  /\ key' = "valid" /\ thread_list' = "null"
  /\ UNCHANGED <<gc, info, handler, barrier, gc_state>>

MainThreadInit ==
  /\ InitStep("attach", "sigaction")
  /\ info' = info \cup {"main"} /\ thread_list' = "main"
  /\ UNCHANGED <<gc, key, handler, barrier, gc_state>>

SetupSignalHandling ==
  /\ InitStep("sigaction", "start")
  /\ handler' = TRUE
  /\ UNCHANGED <<gc, key, info, thread_list, barrier, gc_state>>

HeapThreadStart ==
  /\ InitStep("start", "barrier")
  /\ gc' = "sleep"
  /\ UNCHANGED <<key, info, thread_list, handler, barrier, gc_state>>

BarrierInit ==
  /\ InitStep("barrier", "gc_state")
  /\ barrier' = TRUE
  /\ UNCHANGED <<gc, key, info, thread_list, handler, gc_state>>

SetGcState ==
  /\ InitStep("gc_state", "classes")
  /\ gc_state' = TRUE
  /\ UNCHANGED <<gc, key, info, thread_list, handler, barrier>>

\* The rest of runtime_init() (module Objects); it polls no safepoint.
CreateClasses ==
  /\ InitStep("classes", "created")
  /\ UNCHANGED <<gc, key, info, thread_list, handler, barrier, gc_state>>

-----------------------------------------------------------------------------
(* main() of a compiled program.                                           *)

\* pup_env_launch_main(): pthread_create() of do_main(), or abort().
LaunchMain ==
  /\ main = "created"
  /\ \/ program' = "new" /\ main' = "join" /\ UNCHANGED status
     \/ Abort /\ UNCHANGED <<main, program>>
  /\ UNCHANGED <<gc, heapVars, signalVars, cancel>>

\* pthread_attr_init() fails: main() ignores the 1 and the process ends with 0.
LaunchMainFails ==
  /\ main = "created"
  /\ main' = "return"
  /\ UNCHANGED <<program, gc, heapVars, signalVars, cancel, status>>

\* Negative control: main() destroys the environment after the program.
JoinProgram_ThenDestroy ==
  /\ main = "join" /\ program = "ended"
  /\ program' = "joined" /\ main' = "stop"
  /\ UNCHANGED <<gc, heapVars, signalVars, cancel, status>>

JoinProgram ==
  /\ main = "join" /\ program = "ended"
  /\ program' = "joined" /\ main' = "return"
  /\ UNCHANGED <<gc, heapVars, signalVars, cancel, status>>

\* main() returns: exit() ends every thread.
Exit ==
  /\ main = "return"
  /\ status' = "exited"
  /\ UNCHANGED <<main, program, gc, heapVars, signalVars, cancel>>

-----------------------------------------------------------------------------
(* pup_runtime_env_destroy().                                              *)

DestroyEnv ==
  /\ main = "created"
  /\ main' = "stop"
  /\ UNCHANGED <<program, gc, heapVars, signalVars, cancel, status>>

\* Negative control: pthread_cancel() is left out.
CancelCollector_Forgotten ==
  /\ main = "stop"
  /\ main' = "join_gc"
  /\ UNCHANGED <<program, gc, heapVars, signalVars, cancel, status>>

\* heap_thread_stop(): pthread_cancel(), of a thread id that pup_heap_init()
\* has set ...
CancelCollector ==
  /\ main = "stop"
  /\ IF gc = "none" THEN Crash /\ UNCHANGED <<main, cancel>>
     ELSE main' = "join_gc" /\ cancel' = TRUE /\ UNCHANGED status
  /\ UNCHANGED <<program, gc, heapVars, signalVars>>

\* Negative control: the collector is cancelled and not joined.
JoinCollector_NoWait ==
  /\ main = "join_gc"
  /\ main' = "free"
  /\ UNCHANGED <<program, gc, heapVars, signalVars, cancel, status>>

\* ... and pthread_join().
JoinCollector ==
  /\ main = "join_gc" /\ gc = "cancelled"
  /\ main' = "free"
  /\ UNCHANGED <<program, gc, heapVars, signalVars, cancel, status>>

\* destroy_global_heap() and pup_heap_thread_destroy().
FreeRegions ==
  /\ main = "free"
  /\ freed' = freed \cup {"regions"} /\ main' = "key_delete"
  /\ UNCHANGED <<program, gc, key, info, thread_list, handler, barrier, gc_state,
                 signalVars, cancel, status>>

KeyDelete ==
  /\ main = "key_delete"
  /\ key' = "deleted" /\ main' = "free_env"
  /\ UNCHANGED <<program, gc, info, thread_list, handler, barrier, gc_state, freed,
                 signalVars, cancel, status>>

FreeEnv ==
  /\ main = "free_env"
  /\ freed' = freed \cup {"env"} /\ main' = "return"
  /\ UNCHANGED <<program, gc, key, info, thread_list, handler, barrier, gc_state,
                 signalVars, cancel, status>>

-----------------------------------------------------------------------------
(* do_main(), on the program's thread.                                     *)

\* Negative control: the thread's info is not set before it is on the list.
SetThreadInfo_Late ==
  /\ program = "new"
  /\ program' = "attach"
  /\ UNCHANGED <<main, gc, heapVars, signalVars, cancel, status>>

\* pup_heap_thread_init(): attach_thread() does set_thread_info(), or abort()s
\* without memory.  Without a region it is not called, and do_main() goes on
\* with a thread that is on no list ...
SetThreadInfo ==
  /\ program = "new"
  /\ \/ program' = "attach" /\ info' = info \cup {"program"} /\ UNCHANGED status
     \/ program' = "run" /\ UNCHANGED <<info, status>>
     \/ Abort /\ UNCHANGED <<program, info>>
  /\ UNCHANGED <<main, gc, key, thread_list, handler, barrier, gc_state, freed, signalVars,
                 cancel>>

\* ... and attach_thread_to_heap(), which hides the main thread.
AttachProgram ==
  /\ program = "attach"
  /\ thread_list' = "program" /\ program' = "run"
  /\ UNCHANGED <<main, gc, key, info, handler, barrier, gc_state, freed, signalVars, cancel,
                 status>>

\* pup_heap_safepoint() after a request: pup_gc_scan_stack() aborts without the
\* safepoint in the frame's map or without memory for a segment, or the thread
\* goes to the barrier ...
Poll ==
  /\ program = "run" /\ "program" \in gc_waiting
  /\ \/ program' = "barrier" /\ UNCHANGED status
     \/ Abort /\ UNCHANGED program
  /\ UNCHANGED <<main, gc, heapVars, signalVars, cancel>>

\* ... the two of them leave it ...
Meet ==
  /\ program = "barrier" /\ gc = "barrier"
  /\ program' = "clear" /\ gc' = "collect"
  /\ UNCHANGED <<main, heapVars, signalVars, cancel, status>>

\* ... and the flag is cleared.
ClearRequest ==
  /\ program = "clear"
  /\ gc_waiting' = gc_waiting \ {"program"} /\ program' = "run"
  /\ UNCHANGED <<main, gc, heapVars, pending, target, cancel, status>>

\* An allocation or an exception that nothing rescues aborts, as does whatever
\* asks for the info of a thread without one; a reference may be null, or lead
\* into a region that is read-only or no longer mapped (module Collector).
ProgramFails ==
  /\ program = "run"
  /\ Abort \/ Fault
  /\ UNCHANGED <<main, program, gc, heapVars, signalVars, cancel>>

\* The program returns.
EndProgram ==
  /\ program = "run"
  /\ pending' = pending \ {"program"}
  /\ program' = "ended"
  /\ UNCHANGED <<main, gc, heapVars, gc_waiting, target, cancel, status>>

\* siguser1_handler(); SIGUSR1 without a handler would end the process, and
\* get_thread_info() aborts without the thread's info.
HandleSignal(t) ==
  /\ t \in pending
  /\ pending' = pending \ {t}
  /\ IF ~handler \/ ~gc_state \/ "env" \in freed THEN Crash /\ UNCHANGED gc_waiting
     ELSE IF key # "valid" \/ t \notin info THEN Abort /\ UNCHANGED gc_waiting
     ELSE gc_waiting' = gc_waiting \cup {t} /\ UNCHANGED status
  /\ UNCHANGED <<main, program, gc, heapVars, target, cancel>>

-----------------------------------------------------------------------------
(* gc_thread().                                                            *)

\* Cancellation takes effect in nanosleep() and may do so in the fprintf() of
\* converge_on_safepoint() and of pup_gc_scan_heap().
Cancelled ==
  /\ cancel /\ gc \in {"sleep", "signal", "collect"}
  /\ gc' = "cancelled"
  /\ UNCHANGED <<main, program, heapVars, signalVars, cancel, status>>

\* nanosleep() ends, however far pup_heap_init() is, and pup_gc_period_start()
\* uses the state.
Wake ==
  /\ gc = "sleep" /\ ~cancel
  /\ IF gc_state /\ "env" \notin freed
     THEN gc' = "head" /\ UNCHANGED status
     ELSE Crash /\ UNCHANGED gc
  /\ UNCHANGED <<main, program, heapVars, signalVars, cancel>>

\* perform_gc() meets the head of the list; no thread has a next one.
ReadHead ==
  /\ gc = "head"
  /\ IF "env" \in freed THEN Crash /\ UNCHANGED <<target, gc>>
     ELSE /\ target' = thread_list
          /\ gc' = IF thread_list = "null" THEN "collect" ELSE "signal"
          /\ UNCHANGED status
  /\ UNCHANGED <<main, program, heapVars, pending, gc_waiting, cancel>>

EnterBarrier ==
  IF barrier /\ "env" \notin freed THEN gc' = "barrier" /\ UNCHANGED status ELSE Crash /\ UNCHANGED gc

\* converge_on_safepoint(): pthread_sigqueue() and then the barrier.  To a thread that
\* has ended the signal fails, which aborts, or does nothing; the id of a joined
\* thread is not valid any more.
Signal ==
  /\ gc = "signal"
  /\ IF target = "program" /\ program \in {"ended", "joined"}
     THEN /\ UNCHANGED pending
          /\ \/ EnterBarrier
             \/ Abort /\ UNCHANGED gc
             \/ program = "joined" /\ Crash /\ UNCHANGED gc
     ELSE pending' = pending \cup {target} /\ EnterBarrier
  /\ UNCHANGED <<main, program, heapVars, gc_waiting, target, cancel>>

\* pup_gc_scan_heap(), the sweep of the region list, pup_gc_period_end().  A null
\* root or an uninitialised current_segment faults (module Marking), and without
\* memory for a segment, or when mprotect() fails, the collector aborts.
Collect ==
  /\ gc = "collect"
  /\ IF "regions" \in freed THEN Crash /\ UNCHANGED gc
     ELSE \/ gc' = "sleep" /\ UNCHANGED status
          \/ (Abort \/ Fault) /\ UNCHANGED gc
  /\ UNCHANGED <<main, program, heapVars, signalVars, cancel>>

-----------------------------------------------------------------------------
MainStep ==
  \/ MallocEnv \/ SymTable \/ KeyCreate \/ MainThreadInit \/ SetupSignalHandling
  \/ HeapThreadStart \/ BarrierInit \/ SetGcState \/ CreateClasses \/ InitFails
  \/ LaunchMain \/ LaunchMainFails \/ JoinProgram \/ Exit
  \/ DestroyEnv \/ CancelCollector \/ JoinCollector \/ FreeRegions \/ KeyDelete
  \/ FreeEnv

ProgramStep ==
  \/ SetThreadInfo \/ AttachProgram \/ Poll \/ Meet \/ ClearRequest \/ ProgramFails
  \/ EndProgram

CollectorStep ==
  Cancelled \/ Wake \/ ReadHead \/ Signal \/ Collect

Next ==
  /\ status = "running"
  /\ \/ MainStep \/ ProgramStep \/ CollectorStep
     \/ \E t \in {"main", "program"} : HandleSignal(t)

\* The kernel runs a thread that is not blocked; nothing is assumed of the
\* program, which need neither poll nor end.
Spec ==
  /\ Init /\ [][Next]_vars
  /\ WF_vars(status = "running" /\ MainStep)
  /\ WF_vars(status = "running" /\ CollectorStep)

-----------------------------------------------------------------------------
(* Properties.                                                             *)

\* Threads start, attach, end and are stopped in any order, and still nobody uses
\* a part of the environment that is not there, but for four gaps: nobody checks
\* that malloc() gave an environment; the collector's first sleep may be over
\* before its barrier and state are made; the error path of a missing symbol table
\* stops a collector that was never started; and the collector may signal a thread
\* that has been joined.
CrashWindows ==
  status = "crashed" =>
    \/ main \in {"malloc", "barrier", "gc_state"}
    \/ main = "stop" /\ gc = "none"
    \/ program = "joined" /\ gc = "signal"

\* siguser1_handler() checks nothing it can recover from: whenever a signal of the
\* collector is on its way, all that the handler uses must be there, in its thread
\* and in the heap, although the collector starts in the middle of pup_heap_init(),
\* threads come and go and the heap may be destroyed.
HandlerReady ==
  \A t \in pending : handler /\ gc_state /\ key = "valid" /\ t \in info

\* When the program's thread ends the process ends, although the collector may
\* be waiting in its barrier for ever.
ProgramEndsProcess == program = "ended" ~> status # "running"

\* pup_runtime_env_destroy() gets past the collector if that is not yet on its way
\* to the barrier when pthread_join() begins: asleep, or with its period to finish,
\* it is cancelled before it waits for the very thread that is waiting for it.
DestroyEnds ==
  main = "join_gc" /\ gc \notin {"head", "signal", "barrier"}
    ~> main # "join_gc" \/ status # "running"
=============================================================================
