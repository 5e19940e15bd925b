------------------------------- MODULE Unwind -------------------------------
(***************************************************************************)
(* Exceptions of a compiled Pup program: the landing pads that             *)
(* ast_codegen.rb gives to begin statements, the two phases in which the   *)
(* system's unwinder asks the personality routine of raise.c about every   *)
(* frame, the type tests in the landing pad, and the rethrow when no       *)
(* clause matches.  Frames of C functions have no personality, so the      *)
(* unwinder passes through them and they are left out.                     *)
(*                                                                         *)
(* The programs are those the code generator can compile: a begin          *)
(* statement has a rescue clause, and the code of a clause is one basic    *)
(* block, so it holds no begin statement, and no method invocation where   *)
(* an outer begin statement of the same method would make that an invoke.  *)
(***************************************************************************)
EXTENDS RescueRules, FiniteSetsExt

CONSTANTS
  MaxDepth,   \* bound: methods on the stack
  MaxNest     \* bound: nested begin statements of one method

ASSUME BoundsAssumption == MaxDepth \in Nat \ {0} /\ MaxNest \in Nat

VARIABLES
  frames,     \* the methods being executed, the newest last
  unwinder,   \* the call of _Unwind_RaiseException() in progress, if any
  status      \* whether the process runs, and else how it ended

vars == <<frames, unwinder, status>>

(* A frame: nest, the begin statements whose landing pad the code          *)
(* generator had active (@landingpad, outermost first) for the code being  *)
(* executed; at, whether that is ordinary code, the type tests of a        *)
(* landing pad, the call of pup_rethrow_uncaught_exception() or the body   *)
(* of a rescue clause; for the last three, which begin statement, which    *)
(* clause and type, and the exception; site, for a suspended frame, the    *)
(* landing pad of its call, or 0 for a plain call.                         *)
Body == [nest |-> <<>>, at |-> "body", begin |-> <<>>, pos |-> <<1, 1>>,
         excep |-> "none", site |-> 0]

Idle == [phase |-> "idle", cursor |-> 0, handler |-> 0,
         excep |-> "none", caller |-> "none"]

\* do_main() calls pup_main.
Init ==
  /\ frames = <<Body>>
  /\ unwinder = Idle
  /\ status = "runs"

depth == Len(frames)
top   == frames[depth]

SetTop(f)   == frames' = [frames EXCEPT ![depth] = f]
Executing   == status = "runs" /\ unwinder.phase = "idle"

-----------------------------------------------------------------------------
(* The landing pads of the code generator.                                 *)

Begin(b) ==
  /\ Executing /\ top.at = "body" /\ Len(top.nest) < MaxNest
  /\ SetTop([top EXCEPT !.nest = Append(@, b)])
  /\ UNCHANGED <<unwinder, status>>

EndBegin ==
  /\ Executing /\ top.at = "body" /\ top.nest # <<>>
  /\ SetTop([top EXCEPT !.nest = SubSeq(@, 1, Len(@) - 1)])
  /\ UNCHANGED <<unwinder, status>>

EndRescue ==
  /\ Executing /\ top.at = "rescue"
  /\ SetTop([Body EXCEPT !.nest = top.nest])
  /\ UNCHANGED <<unwinder, status>>

\* The landing pad of a method invocation: an invoke if one is active.
landingpad == Len(top.nest)

CanInvoke ==
  /\ Executing
  /\ top.at \in {"body", "rescue"}
  /\ top.at = "rescue" => top.nest = <<>>

InvokeMethod_PlainCall ==
  /\ CanInvoke /\ depth < MaxDepth
  /\ frames' = Append(frames, Body)
  /\ UNCHANGED <<unwinder, status>>

InvokeMethod ==
  /\ CanInvoke /\ depth < MaxDepth
  /\ frames' = Append([frames EXCEPT ![depth].site = landingpad], Body)
  /\ UNCHANGED <<unwinder, status>>

Return ==
  /\ Executing /\ top.at = "body" /\ top.nest = <<>>
  /\ frames' = [i \in 1 .. depth - 1 |->
                  IF i = depth - 1 THEN [frames[i] EXCEPT !.site = 0] ELSE frames[i]]
  /\ status' = IF depth = 1 THEN "returned" ELSE status
  /\ UNCHANGED unwinder

-----------------------------------------------------------------------------
(* Raising.                                                                *)

Unwind_RaiseException(e, site, caller) ==
  /\ SetTop([top EXCEPT !.site = site])
  /\ unwinder' = [phase |-> "search", cursor |-> depth, handler |-> 0,
                  excep |-> e, caller |-> caller]
  /\ UNCHANGED status

\* pup_object_raise(), given an exception or anything else.  A wrong number
\* of arguments, an unknown method and the like raise RuntimeError too.
raised(arg) == IF pup_is_descendant_or_same("Exception", arg) THEN arg ELSE "RuntimeError"

RaiseInMethod(arg) ==
  /\ CanInvoke
  /\ Unwind_RaiseException(raised(arg), landingpad, "pup_raise")

\* An unknown constant in the code of the method itself: a plain call.
RaiseInBuiltin ==
  /\ Executing /\ top.at \in {"body", "rescue"}
  /\ Unwind_RaiseException("RuntimeError", 0, "pup_raise")

-----------------------------------------------------------------------------
(* The personality routine.  The call-site table of a method has an entry  *)
(* without landing pad for plain calls, and one entry per landing pad,     *)
(* whose only action is the catch-all of llvm.eh.selector.                 *)
CatchAll == <<1>>

CallSites(f) ==
  <<[call |-> 0, landingPad |-> 0, action |-> <<>>]>>
    \o [k \in 1 .. Len(f.nest) |-> [call |-> k, landingPad |-> k, action |-> CatchAll]]

\* The first action with a type, counted from 1; 0 if there is none.
handle_action_value(action) ==
  LET typed == {i \in DOMAIN action : action[i] > 0}
  IN  IF typed = {} THEN 0 ELSE Min(typed)

handle_lsda_AnyEntry(f, phase) ==
  LET t        == CallSites(f)
      covering == {k \in DOMAIN t : t[k].call = f.site}
      matched  == {k \in covering : handle_action_value(t[k].action) > 0}
  IN  IF phase = "search"
      THEN [found |-> matched # {}, pad |-> 0]
      ELSE [found |-> covering # {},
            pad   |-> IF covering = {} THEN 0 ELSE t[Min(covering)].landingPad]

\* found: _URC_HANDLER_FOUND or _URC_INSTALL_CONTEXT, by phase; otherwise
\* _URC_CONTINUE_UNWIND.  Cleanup takes the first landing pad for the call,
\* whether or not its actions match; the landing pad ignores the selector.
handle_lsda(f, phase) ==
  LET t        == CallSites(f)
      covering == {k \in DOMAIN t : t[k].landingPad # 0 /\ t[k].call = f.site}
      matched  == {k \in covering : handle_action_value(t[k].action) > 0}
  IN  IF phase = "search"
      THEN [found |-> matched # {}, pad |-> 0]
      ELSE [found |-> covering # {},
            pad   |-> IF covering = {} THEN 0 ELSE t[Min(covering)].landingPad]

pup_eh_personality(k) == handle_lsda(frames[k], unwinder.phase)

-----------------------------------------------------------------------------
(* The unwinder: _Unwind_RaiseException() looks for a handler without      *)
(* touching the stack, then unwinds to it.                                 *)
SearchFrame ==
  /\ unwinder.phase = "search" /\ unwinder.cursor > 0
  /\ unwinder' =
       IF pup_eh_personality(unwinder.cursor).found
       THEN [unwinder EXCEPT !.phase = "cleanup", !.cursor = depth,
                             !.handler = unwinder.cursor]
       ELSE [unwinder EXCEPT !.cursor = @ - 1]
  /\ UNCHANGED <<frames, status>>

\* It returns _URC_END_OF_STACK, and both callers abort.  The catch block of
\* main() is on the stack of another thread.
EndOfStack ==
  /\ unwinder.phase = "search" /\ unwinder.cursor = 0
  /\ status' = unwinder.caller
  /\ unwinder' = [unwinder EXCEPT !.phase = "idle"]
  /\ UNCHANGED frames

CleanupFrame ==
  /\ unwinder.phase = "cleanup" /\ unwinder.cursor > 0
  /\ ~pup_eh_personality(unwinder.cursor).found
  /\ unwinder' = [unwinder EXCEPT !.cursor = @ - 1]
  /\ UNCHANGED <<frames, status>>

Landed_KeepsNest(f, pad, e) ==
  [f EXCEPT !.begin = f.nest[pad], !.at = "tests",
            !.pos = <<1, 1>>, !.excep = e, !.site = 0]

\* The code of the landing pad was generated after eh_begin() restored the
\* outer @landingpad.
Landed(f, pad, e) ==
  [f EXCEPT !.nest = SubSeq(@, 1, pad - 1), !.begin = f.nest[pad], !.at = "tests",
            !.pos = <<1, 1>>, !.excep = e, !.site = 0]

InstallContext ==
  /\ unwinder.phase = "cleanup" /\ unwinder.cursor > 0
  /\ LET k == unwinder.cursor
         r == pup_eh_personality(k)
     IN  /\ r.found
         /\ frames' = Append(SubSeq(frames, 1, k - 1),
                             Landed(frames[k], r.pad, unwinder.excep))
  /\ unwinder' = Idle
  /\ UNCHANGED status

-----------------------------------------------------------------------------
(* The code in a landing pad: the clauses in order, the types of a clause  *)
(* in order, then pup_rethrow_uncaught_exception().  All are plain calls.  *)
TestType == TypeAt(top.begin, top.pos)

TestRaises ==
  /\ Executing /\ top.at = "tests" /\ TestType = Undefined
  /\ Unwind_RaiseException("RuntimeError", 0, "pup_raise")

TestMatches ==
  /\ Executing /\ top.at = "tests" /\ TestType # Undefined
  /\ pup_is_descendant_or_same(TestType, top.excep)
  /\ SetTop([top EXCEPT !.at = "rescue"])
  /\ UNCHANGED <<unwinder, status>>

NextTest ==
  LET i == top.pos[1]
      j == top.pos[2]
  IN  IF j < Len(top.begin[i]) THEN [top EXCEPT !.pos = <<i, j + 1>>]
      ELSE IF i < Len(top.begin) THEN [top EXCEPT !.pos = <<i + 1, 1>>]
      ELSE [top EXCEPT !.at = "rethrow"]

TestFails ==
  /\ Executing /\ top.at = "tests" /\ TestType # Undefined
  /\ ~pup_is_descendant_or_same(TestType, top.excep)
  /\ SetTop(NextTest)
  /\ UNCHANGED <<unwinder, status>>

Rethrow_OwnPad ==
  /\ Executing /\ top.at = "rethrow"
  /\ SetTop([top EXCEPT !.at = "tests", !.pos = <<1, 1>>])
  /\ UNCHANGED <<unwinder, status>>

Rethrow ==
  /\ Executing /\ top.at = "rethrow"
  /\ Unwind_RaiseException(top.excep, 0, "pup_rethrow_uncaught_exception")

-----------------------------------------------------------------------------
Program ==
  \/ \E b \in Begins : Begin(b)
  \/ EndBegin \/ EndRescue \/ InvokeMethod \/ Return
  \/ \E arg \in Class : RaiseInMethod(arg)
  \/ RaiseInBuiltin

Propagate ==
  \/ SearchFrame \/ EndOfStack \/ CleanupFrame \/ InstallContext
  \/ TestRaises \/ TestMatches \/ TestFails \/ Rethrow

Next == Program \/ Propagate

Spec == Init /\ [][Next]_vars

\* Unwinding and type tests are straight-line code of one thread.
FairSpec == Spec /\ WF_vars(Propagate)

-----------------------------------------------------------------------------
(* Properties.                                                             *)

\* What the search phase promised, the cleanup phase delivers: the frame
\* found is the one whose landing pad is entered, and no younger frame's
\* landing pad is entered on the way, although the personality routine
\* decides by another condition in each phase.
PhasesAgree ==
  unwinder.phase = "cleanup" =>
    /\ unwinder.handler \in 1 .. unwinder.cursor
    /\ handle_lsda(frames[unwinder.handler], "cleanup").found
    /\ \A k \in unwinder.handler + 1 .. depth :
         ~handle_lsda(frames[k], "cleanup").found

\* The process aborts on an exception only when no calling method is inside
\* the body of a begin statement, whatever its clauses say.
AbortOutsideAllBegins ==
  status \in {"pup_raise", "pup_rethrow_uncaught_exception"} =>
    \A k \in 1 .. depth - 1 : frames[k].nest = <<>>

Propagating == unwinder.phase # "idle" \/ top.at \in {"tests", "rethrow"}

\* An exception gets somewhere: after finitely many rethrows, and exceptions
\* out of the type tests themselves, a rescue clause runs or the process
\* aborts.
RaiseEnds ==
  (status = "runs" /\ Propagating) ~> (status # "runs" \/ top.at = "rescue")

(* An exception that is being propagated is already where Rescue says it   *)
(* will end up: nothing the unwinder or a landing pad does changes that.   *)
asStack ==
  [i \in DOMAIN frames |->
     [nest   |-> IF frames[i].at = "tests" /\ unwinder.phase = "idle"
                 THEN Append(frames[i].nest, frames[i].begin) ELSE frames[i].nest,
      rescue |-> IF frames[i].at = "rescue"
                 THEN [clause |-> frames[i].pos[1], excep |-> frames[i].excep]
                 ELSE NotRescuing]]

settled ==
  IF status # "runs" THEN <<>>
  ELSE IF unwinder.phase # "idle"
  THEN Unwound(asStack, IF top.site = 0 THEN depth - 1 ELSE depth, unwinder.excep)
  ELSE IF top.at = "tests" THEN Unwound(asStack, depth, top.excep)
  ELSE IF top.at = "rethrow" THEN Unwound(asStack, depth - 1, top.excep)
  ELSE asStack

Abstract == INSTANCE Rescue WITH stack <- settled

\* The two phases, landing pads, type tests and rethrows together do what
\* Rescue does in one step: the exception reaches the first clause that
\* matches it, of the innermost begin statement of the nearest caller, in
\* the right frame and with the right exception, or ends the process.
ImplementsRescue == Abstract!Spec
=============================================================================
