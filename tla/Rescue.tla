------------------------------- MODULE Rescue -------------------------------
(***************************************************************************)
(* What begin and rescue mean to a compiled Pup program: an exception goes,*)
(* in one step, to the rescue clause that RescueRules names.  There is no  *)
(* unwinder, no landing pad and no rethrow here; module Unwind, which has  *)
(* them, implements this specification.                                    *)
(***************************************************************************)
EXTENDS RescueRules

VARIABLE stack    \* the methods being executed, as in RescueRules; empty
                  \* once the program has returned or aborted

Method == [nest |-> <<>>, rescue |-> NotRescuing]

Init == stack = <<Method>>

(* The stacks that one step can make of s, whose newest method is top.     *)
Successors(s) ==
  LET top       == s[Len(s)]
      Callers   == SubSeq(s, 1, Len(s) - 1)
      Outer     == SubSeq(top.nest, 1, Len(top.nest) - 1)
      InBody    == top.rescue = NotRescuing
      CanInvoke == InBody \/ top.nest = <<>>
      If(c, S)  == IF c THEN S ELSE {}
      With(f)   == Append(Callers, f)
  IN  \* entering and leaving the body of a begin statement
      If(InBody, {With([top EXCEPT !.nest = Append(@, b)]) : b \in Begins})
      \cup If(InBody /\ top.nest # <<>>, {With([top EXCEPT !.nest = Outer])})
      \* leaving a rescue clause
      \cup If(~InBody, {With([top EXCEPT !.rescue = NotRescuing])})
      \* calling a method, and returning from one
      \cup If(CanInvoke, {Append(s, Method)})
      \cup If(InBody /\ top.nest = <<>>, {Callers})
      \* an exception raised by a method that was called, and one raised by
      \* the compiled code's own calls of the runtime
      \cup If(CanInvoke, {Unwound(s, Len(s), e) : e \in Exceptions})
      \cup {Unwound(s, Len(s) - 1, "RuntimeError")}

Next == stack # <<>> /\ stack' \in Successors(stack)

Spec == Init /\ [][Next]_stack
=============================================================================
