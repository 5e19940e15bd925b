---------------------------- MODULE UnwindProofs ----------------------------
(***************************************************************************)
(* Proofs about the unwinding of exceptions, for any program, any depth of *)
(* the stack and any nesting of begin statements: the two phases agree,    *)
(* the landing pad entered is the one of the innermost begin statement,    *)
(* the process aborts only when no caller is inside one, and all of it     *)
(* together implements Rescue.                                             *)
(***************************************************************************)
EXTENDS Unwind, SequenceTheorems, WellFoundedInduction, TLAPS

Callers == {"pup_raise", "pup_rethrow_uncaught_exception"}

Frame ==
  [nest : Seq(Begins), at : {"body", "tests", "rescue", "rethrow"},
   begin : Begins \cup {<<>>}, pos : Nat \X Nat, excep : Class \cup {"none"}, site : Nat]

UnwinderState ==
  [phase : {"idle", "search", "cleanup"}, cursor : Nat, handler : Nat,
   excep : Class \cup {"none"}, caller : Callers \cup {"none"}]

TypeInv ==
  /\ frames \in Seq(Frame)
  /\ unwinder \in UnwinderState
  /\ status \in {"runs", "returned"} \cup Callers
  /\ status = "runs" => depth > 0
  /\ status # "runs" => unwinder.phase = "idle"
  /\ unwinder.phase # "idle" => unwinder.excep \in Class /\ unwinder.caller \in Callers

\* A landing pad tests a type that its begin statement has.
TestsInRange(f) ==
  /\ f.at # "body" => f.begin \in Begins /\ f.excep \in Class
  /\ f.at \in {"tests", "rescue"} => f.pos \in Positions(f.begin)

\* No landing pad reads past the clauses of its begin statement, or past the
\* types of a clause, whatever exceptions its own tests raise.
ClausesInRange == \A k \in 1 .. depth : TestsInRange(frames[k])

\* A call is covered by the landing pad of the innermost begin statement.
SitesInnermost ==
  /\ \A k \in 1 .. depth - 1 : frames[k].site = Len(frames[k].nest)
  /\ unwinder.phase # "idle" => top.site \in {0, Len(top.nest)}

\* The call that frame f is in has a landing pad.
HasPad(f) == f.site \in 1 .. Len(f.nest)

\* How far the unwinder has come.
CursorInv ==
  /\ unwinder.phase = "search" =>
       /\ unwinder.cursor <= depth
       /\ \A k \in unwinder.cursor + 1 .. depth : ~HasPad(frames[k])
  /\ unwinder.phase = "cleanup" =>
       /\ unwinder.handler \in 1 .. unwinder.cursor /\ unwinder.cursor <= depth
       /\ HasPad(frames[unwinder.handler])
       /\ \A k \in unwinder.handler + 1 .. depth : ~HasPad(frames[k])

Inv ==
  /\ TypeInv
  /\ ClausesInRange
  /\ SitesInnermost
  /\ CursorInv
  /\ AbortOutsideAllBegins

-----------------------------------------------------------------------------
(* The call-site table.                                                    *)

\* Both phases of the personality routine answer by whether the call has a
\* landing pad, and cleanup enters that one.
LEMMA Lsda ==
  ASSUME NEW f \in Frame
  PROVE  /\ handle_lsda(f, "search").found <=> HasPad(f)
         /\ handle_lsda(f, "cleanup").found <=> HasPad(f)
         /\ HasPad(f) => handle_lsda(f, "cleanup").pad = f.site
<1> DEFINE n == Len(f.nest)
           Site == [call : Nat, landingPad : Nat, action : Seq(Nat)]
           plain == [call |-> 0, landingPad |-> 0, action |-> <<>>]
           pads == [k \in 1 .. n |-> [call |-> k, landingPad |-> k, action |-> CatchAll]]
           t == CallSites(f)
<1>1. n \in Nat /\ f.site \in Nat
  BY LenProperties DEF Frame
<1>2. CatchAll \in Seq(Nat)
  BY DEF CatchAll
<1>3. <<plain>> \in Seq(Site) /\ Len(<<plain>>) = 1 /\ <<plain>>[1] = plain
  OBVIOUS
<1>4. pads \in Seq(Site) /\ Len(pads) = n
  BY <1>1, <1>2, IsASeq, LenProperties
<1>5. /\ Len(t) = 1 + n /\ t \in Seq(Site)
      /\ \A k \in 1 .. 1 + n : t[k] = IF k <= 1 THEN <<plain>>[k] ELSE pads[k - 1]
  BY <1>1, <1>3, <1>4, ConcatProperties DEF CallSites
<1>6. DOMAIN t = 1 .. 1 + n
  BY <1>5, LenProperties
<1>7. t[1].landingPad = 0
  <2>1. 1 \in 1 .. 1 + n
    BY <1>1
  <2>2. t[1] = <<plain>>[1]
    <3> HIDE DEF t, pads, plain
    <3> QED
      BY <1>5, <2>1
  <2> QED
    BY <1>3, <2>2
<1>8. \A k \in 2 .. 1 + n :
        t[k].call = k - 1 /\ t[k].landingPad = k - 1 /\ t[k].action = CatchAll
  <2>1. \A m \in 1 .. n :
          pads[m].call = m /\ pads[m].landingPad = m /\ pads[m].action = CatchAll
    OBVIOUS
  <2> HIDE DEF pads, t, plain
  <2>2. \A k \in 2 .. 1 + n : k - 1 \in 1 .. n /\ k \in 1 .. 1 + n /\ ~(k <= 1)
    BY <1>1
  <2>3. \A k \in 2 .. 1 + n : t[k] = pads[k - 1]
    BY <1>5, <2>2
  <2> QED
    BY <2>1, <2>2, <2>3
<1>9. handle_action_value(CatchAll) = 1
  <2>1. {i \in DOMAIN CatchAll : CatchAll[i] > 0} = {1}
    BY DEF CatchAll
  <2>2. Min({1}) = 1
    BY DEF Min
  <2> QED
    BY <2>1, <2>2 DEF handle_action_value
<1> HIDE DEF t, pads, plain
<1> DEFINE covering == {k \in DOMAIN t : t[k].landingPad # 0 /\ t[k].call = f.site}
           matched == {k \in covering : handle_action_value(t[k].action) > 0}
<1>10. covering = IF HasPad(f) THEN {f.site + 1} ELSE {}
  <2>1. \A k \in DOMAIN t : t[k].landingPad # 0 /\ t[k].call = f.site <=> k \in 2 .. 1 + n /\ k - 1 = f.site
    BY <1>1, <1>6, <1>7, <1>8
  <2>2. \A k \in DOMAIN t : k \in covering <=> HasPad(f) /\ k = f.site + 1
    BY <1>1, <1>6, <2>1 DEF HasPad
  <2>3. HasPad(f) => f.site + 1 \in DOMAIN t
    BY <1>1, <1>6 DEF HasPad
  <2> QED
    BY <2>2, <2>3
<1>11. \A k \in covering : t[k].action = CatchAll /\ t[k].landingPad = f.site
  <2>1. \A k \in covering : k \in 2 .. 1 + n /\ k - 1 = f.site
    BY <1>1, <1>10 DEF HasPad
  <2> QED
    BY <1>8, <2>1
<1>12. matched = covering
  BY <1>9, <1>11
<1>13. HasPad(f) => Min(covering) = f.site + 1
  <2>1. Min({f.site + 1}) = f.site + 1
    BY <1>1 DEF Min
  <2> QED
    BY <1>10, <2>1
<1>14. handle_lsda(f, "search").found <=> matched # {}
  BY DEF handle_lsda, t
<1>15. /\ handle_lsda(f, "cleanup").found <=> covering # {}
       /\ handle_lsda(f, "cleanup").pad = IF covering = {} THEN 0 ELSE t[Min(covering)].landingPad
  BY DEF handle_lsda, t
<1> HIDE DEF covering, matched
<1>16. HasPad(f) => Min(covering) \in covering
  BY <1>10, <1>13
<1> QED
  BY <1>10, <1>11, <1>12, <1>14, <1>15, <1>16

-----------------------------------------------------------------------------
(* The steps, by what they do to the stack.                                *)

\* The running method goes on, without a call.
GoesOn ==
  /\ Executing
  /\ \E f \in Frame : TestsInRange(f) /\ SetTop(f)
  /\ UNCHANGED <<unwinder, status>>

\* The running method, or what it called, raises an exception.
Raises ==
  /\ Executing
  /\ \E e \in Class, site \in {0, landingpad}, caller \in Callers :
       Unwind_RaiseException(e, site, caller)

\* The newest frame is a frame.
LEMMA TopFrame ==
  ASSUME Inv, Executing
  PROVE  /\ depth \in Nat \ {0} /\ top \in Frame /\ TestsInRange(top)
         /\ top.nest \in Seq(Begins) /\ Len(top.nest) \in Nat
         /\ DOMAIN frames = 1 .. depth
<1>1. depth \in Nat \ {0} /\ DOMAIN frames = 1 .. depth
  BY LenProperties DEF Inv, TypeInv, Executing, depth
<1>2. top \in Frame
  BY <1>1, ElementOfSeq DEF Inv, TypeInv, top, depth
<1>3. TestsInRange(top)
  BY <1>1 DEF Inv, ClausesInRange, top
<1> QED
  BY <1>1, <1>2, <1>3, LenProperties DEF Frame

\* RuntimeError is a class, and so is what pup_object_raise() raises.
LEMMA RaisedClass == "RuntimeError" \in Class /\ \A arg \in Class : raised(arg) \in Class
<1>1. "RuntimeError" \in Class
  BY DEF Class, superclass
<1> QED
  BY <1>1 DEF raised

\* A begin statement has a first clause and that a first type.
LEMMA FirstClause == \A b \in Begins : <<1, 1>> \in Positions(b)
<1> TAKE b \in Begins
<1>1. BeginStmt(b)
  BY BeginsAssumption
<1> DEFINE Types == Seq(Class \cup {Undefined})
<1>2. b \in Seq(Types) /\ b # <<>> /\ \A i \in DOMAIN b : b[i] # <<>>
  BY <1>1 DEF BeginStmt
<1>3. 1 \in DOMAIN b
  BY <1>2, LenProperties, EmptySeq
<1>4. b[1] \in Types
  BY <1>2, <1>3, LenProperties, ElementOfSeq
<1>5. 1 \in DOMAIN b[1]
  BY <1>2, <1>3, <1>4, LenProperties, EmptySeq
<1> QED
  BY <1>3, <1>5 DEF Positions

\* Where the tests go on after a position is a position.
LEMMA NextInRange ==
  ASSUME NEW f \in Frame, TestsInRange(f), f.at = "tests", f = top
  PROVE  NextTest \in Frame /\ TestsInRange(NextTest)
<1> DEFINE b == f.begin
           i == f.pos[1]
           j == f.pos[2]
           Types == Seq(Class \cup {Undefined})
<1>1. b \in Begins /\ f.pos \in Positions(b) /\ f.excep \in Class
  BY DEF TestsInRange
<1>2. b \in Seq(Types) /\ b # <<>> /\ \A k \in DOMAIN b : b[k] # <<>>
  BY <1>1, BeginsAssumption DEF BeginStmt
<1>3. DOMAIN b = 1 .. Len(b) /\ Len(b) \in Nat
  BY <1>2, LenProperties
<1>4. \A k \in DOMAIN b : /\ DOMAIN b[k] = 1 .. Len(b[k]) /\ Len(b[k]) \in Nat
                          /\ 1 \in DOMAIN b[k]
  <2> TAKE k \in DOMAIN b
  <2>1. b[k] \in Types /\ b[k] # <<>>
    BY <1>2, <1>3, ElementOfSeq
  <2> QED
    BY <2>1, LenProperties, EmptySeq
<1>5. i \in DOMAIN b /\ j \in DOMAIN b[i]
  BY <1>1 DEF Positions
<1>6. \A p, q : p \in DOMAIN b /\ q \in DOMAIN b[p] => <<p, q>> \in Positions(b)
  BY DEF Positions
<1>7. i \in Nat /\ j \in Nat
  BY <1>3, <1>4, <1>5
<1>8. CASE j < Len(b[i])
  <2>1. NextTest = [f EXCEPT !.pos = <<i, j + 1>>]
    BY <1>8 DEF NextTest
  <2>2. <<i, j + 1>> \in Positions(b)
    <3> HIDE DEF b, i, j
    <3>1. j + 1 \in DOMAIN b[i]
      BY <1>4, <1>5, <1>7, <1>8
    <3> QED
      BY <1>5, <1>6, <3>1
  <2>3. <<i, j + 1>> \in Nat \X Nat
    BY <1>7
  <2> HIDE DEF b, i, j
  <2> QED
    BY <1>1, <2>1, <2>2, <2>3 DEF Frame, TestsInRange, b
<1>9. CASE ~(j < Len(b[i])) /\ i < Len(b)
  <2>1. NextTest = [f EXCEPT !.pos = <<i + 1, 1>>]
    BY <1>9 DEF NextTest
  <2>2. i + 1 \in DOMAIN b
    BY <1>3, <1>5, <1>9
  <2>3. <<i + 1, 1>> \in Positions(b)
    BY <1>4, <1>6, <2>2
  <2>4. <<i + 1, 1>> \in Nat \X Nat
    BY <1>7
  <2> HIDE DEF b, i, j
  <2> QED
    BY <1>1, <2>1, <2>3, <2>4 DEF Frame, TestsInRange, b
<1>10. CASE ~(j < Len(b[i])) /\ ~(i < Len(b))
  <2>1. NextTest = [f EXCEPT !.at = "rethrow"]
    BY <1>10 DEF NextTest
  <2> QED
    BY <1>1, <2>1 DEF Frame, TestsInRange
<1> QED
  BY <1>8, <1>9, <1>10

\* Every step is of one of these kinds.
LEMMA StepKinds ==
  ASSUME Inv, [Next]_vars
  PROVE  \/ UNCHANGED vars \/ GoesOn \/ Raises \/ InvokeMethod \/ Return
         \/ SearchFrame \/ EndOfStack \/ CleanupFrame \/ InstallContext
<1>1. ASSUME NEW b \in Begins, Begin(b) PROVE GoesOn
  <2>1. top \in Frame /\ top.at = "body" /\ top.nest \in Seq(Begins) /\ Executing
    BY <1>1, TopFrame DEF Begin
  <2> DEFINE f == [top EXCEPT !.nest = Append(@, b)]
  <2>2. Append(top.nest, b) \in Seq(Begins)
    BY <2>1, AppendProperties
  <2>3. f \in Frame /\ TestsInRange(f)
    BY <2>1, <2>2 DEF Frame, TestsInRange
  <2> QED
    BY <1>1, <2>3 DEF Begin, GoesOn
<1>2. CASE EndBegin
  <2>1. /\ top \in Frame /\ top.at = "body" /\ top.nest \in Seq(Begins) /\ Executing
        /\ Len(top.nest) \in Nat
    BY <1>2, TopFrame DEF EndBegin
  <2> DEFINE f == [top EXCEPT !.nest = SubSeq(@, 1, Len(@) - 1)]
  <2>2. SubSeq(top.nest, 1, Len(top.nest) - 1) \in Seq(Begins)
    BY <2>1, SubSeqProperties
  <2>3. f \in Frame /\ TestsInRange(f)
    BY <2>1, <2>2 DEF Frame, TestsInRange
  <2> QED
    BY <1>2, <2>3 DEF EndBegin, GoesOn
<1>3. CASE EndRescue
  <2>1. top \in Frame /\ Executing
    BY <1>3, TopFrame DEF EndRescue
  <2> DEFINE f == [Body EXCEPT !.nest = top.nest]
  <2>2. f \in Frame /\ TestsInRange(f)
    BY <2>1 DEF Frame, TestsInRange, Body
  <2> QED
    BY <1>3, <2>2 DEF EndRescue, GoesOn
<1>4. ASSUME NEW arg \in Class, RaiseInMethod(arg) PROVE Raises
  BY <1>4, RaisedClass DEF RaiseInMethod, CanInvoke, Raises, Callers
<1>5. CASE RaiseInBuiltin
  BY <1>5, RaisedClass DEF RaiseInBuiltin, Raises, Callers
<1>6. CASE TestRaises
  BY <1>6, RaisedClass DEF TestRaises, Raises, Callers
<1>7. CASE TestMatches
  <2>1. top \in Frame /\ TestsInRange(top) /\ top.at = "tests" /\ Executing
    BY <1>7, TopFrame DEF TestMatches
  <2> DEFINE f == [top EXCEPT !.at = "rescue"]
  <2>2. f \in Frame /\ TestsInRange(f)
    BY <2>1 DEF Frame, TestsInRange
  <2> QED
    BY <1>7, <2>2 DEF TestMatches, GoesOn
<1>8. CASE TestFails
  <2>1. top \in Frame /\ TestsInRange(top) /\ top.at = "tests" /\ Executing
    BY <1>8, TopFrame DEF TestFails
  <2>2. NextTest \in Frame /\ TestsInRange(NextTest)
    BY <2>1, NextInRange
  <2> QED
    BY <1>8, <2>2 DEF TestFails, GoesOn
<1>9. CASE Rethrow
  <2>1. top.excep \in Class /\ Executing
    BY <1>9, TopFrame DEF Rethrow, TestsInRange
  <2> QED
    BY <1>9, <2>1 DEF Rethrow, Raises, Callers
<1> QED
  BY <1>1, <1>2, <1>3, <1>4, <1>5, <1>6, <1>7, <1>8, <1>9 DEF Next, Program, Propagate

-----------------------------------------------------------------------------
(* The invariant is inductive.                                             *)

\* What the steps make of the stack, frame by frame.
LEMMA NewTop ==
  ASSUME Inv, Executing, NEW f \in Frame, SetTop(f)
  PROVE  /\ frames' \in Seq(Frame) /\ depth' = depth /\ top' = f
         /\ \A k \in 1 .. depth : frames'[k] = IF k = depth THEN f ELSE frames[k]
<1>1. frames \in Seq(Frame) /\ depth \in 1 .. Len(frames)
  BY TopFrame DEF Inv, TypeInv, depth
<1>2. frames' = [frames EXCEPT ![depth] = f]
  BY DEF SetTop
<1>3. /\ frames' \in Seq(Frame) /\ Len(frames') = Len(frames)
      /\ \A k \in 1 .. Len(frames) : frames'[k] = IF k = depth THEN f ELSE frames[k]
  BY <1>1, <1>2, ExceptSeq
<1> QED
  BY <1>1, <1>3 DEF depth, top

\* A call: the caller is suspended with the landing pad of its innermost begin.
LEMMA Called ==
  ASSUME Inv, InvokeMethod
  PROVE  /\ frames' \in Seq(Frame) /\ depth' = depth + 1
         /\ \A k \in 1 .. depth - 1 : frames'[k] = frames[k]
         /\ frames'[depth] = [top EXCEPT !.site = Len(top.nest)]
         /\ frames'[depth + 1] = Body
<1>1. /\ frames \in Seq(Frame) /\ depth \in 1 .. Len(frames) /\ depth = Len(frames)
      /\ depth \in Nat \ {0} /\ top \in Frame /\ Len(top.nest) \in Nat /\ top = frames[depth]
  BY TopFrame DEF Inv, TypeInv, depth, top, InvokeMethod, CanInvoke
<1> DEFINE f == [top EXCEPT !.site = Len(top.nest)]
           s == [frames EXCEPT ![depth] = f]
<1>2. f \in Frame /\ Body \in Frame
  <2>1. f \in Frame
    BY <1>1 DEF Frame
  <2>2. <<1, 1>> \in Nat \X Nat /\ <<>> \in Seq(Begins)
    BY EmptySeq
  <2> QED
    BY <2>1, <2>2 DEF Frame, Body
<1>3. frames' = Append(s, Body)
  BY <1>1 DEF InvokeMethod, landingpad
<1>4. s \in Seq(Frame) /\ Len(s) = depth
      /\ \A k \in 1 .. depth : s[k] = IF k = depth THEN f ELSE frames[k]
  BY <1>1, <1>2, ExceptSeq
<1> HIDE DEF f, s
<1>5. /\ frames' \in Seq(Frame) /\ Len(frames') = depth + 1
      /\ \A k \in 1 .. depth : frames'[k] = s[k]
      /\ frames'[depth + 1] = Body
  BY <1>2, <1>3, <1>4, AppendProperties
<1>6. depth' = depth + 1
  BY <1>5 DEF depth
<1> QED
  BY <1>1, <1>4, <1>5, <1>6 DEF f

\* A return: the caller goes on.
LEMMA Returned ==
  ASSUME Inv, Return
  PROVE  /\ frames' \in Seq(Frame) /\ depth' = depth - 1
         /\ \A k \in 1 .. depth - 2 : frames'[k] = frames[k]
         /\ depth > 1 => frames'[depth - 1] = [frames[depth - 1] EXCEPT !.site = 0]
<1>1. frames \in Seq(Frame) /\ depth = Len(frames) /\ depth \in Nat \ {0}
  BY TopFrame DEF Inv, TypeInv, depth, Return
<1> DEFINE g(i) == IF i = depth - 1 THEN [frames[i] EXCEPT !.site = 0] ELSE frames[i]
<1>2. \A i \in 1 .. depth - 1 : g(i) \in Frame
  <2> TAKE i \in 1 .. depth - 1
  <2>1. frames[i] \in Frame
    BY <1>1, ElementOfSeq
  <2> QED
    BY <2>1 DEF Frame
<1>3. frames' = [i \in 1 .. depth - 1 |-> g(i)]
  BY DEF Return
<1> HIDE DEF g
<1>4. frames' \in Seq(Frame) /\ Len(frames') = depth - 1
  BY <1>1, <1>2, <1>3
<1>5. depth' = depth - 1
  BY <1>4 DEF depth
<1>6. \A i \in 1 .. depth - 1 : frames'[i] = g(i)
  BY <1>3
<1>7. depth > 1 => frames'[depth - 1] = [frames[depth - 1] EXCEPT !.site = 0]
  <2>1. depth > 1 => depth - 1 \in 1 .. depth - 1
    BY <1>1
  <2> QED
    BY <1>6, <2>1 DEF g
<1>8. \A i \in 1 .. depth - 2 : frames'[i] = frames[i]
  <2>1. \A i \in 1 .. depth - 2 : i \in 1 .. depth - 1 /\ i # depth - 1
    BY <1>1
  <2> QED
    BY <1>6, <2>1 DEF g
<1> QED
  BY <1>4, <1>5, <1>7, <1>8

\* The landing pad: the younger frames are gone, and the frame is where its
\* innermost begin statement tests the exception.
LEMMA Installed ==
  ASSUME Inv, InstallContext
  PROVE  LET k == unwinder.cursor
             b == frames[k].nest[Len(frames[k].nest)]
         IN  /\ k \in 1 .. depth /\ k = unwinder.handler
             /\ HasPad(frames[k]) /\ frames[k].site = Len(frames[k].nest)
             /\ frames' \in Seq(Frame) /\ depth' = k
             /\ \A i \in 1 .. k - 1 : frames'[i] = frames[i]
             /\ b \in Begins
             /\ frames'[k].nest = SubSeq(frames[k].nest, 1, Len(frames[k].nest) - 1)
             /\ frames'[k].at = "tests" /\ frames'[k].begin = b
             /\ frames'[k].pos = <<1, 1>> /\ frames'[k].excep = unwinder.excep
<1> DEFINE k == unwinder.cursor
           f == frames[k]
           n == Len(f.nest)
           g == Landed(f, n, unwinder.excep)
<1>1. /\ unwinder.phase = "cleanup" /\ k > 0 /\ handle_lsda(f, "cleanup").found
      /\ frames' = Append(SubSeq(frames, 1, k - 1),
                          Landed(f, handle_lsda(f, "cleanup").pad, unwinder.excep))
  BY DEF InstallContext, pup_eh_personality
<1>2. k \in Nat /\ unwinder.excep \in Class
  BY <1>1 DEF Inv, TypeInv, UnwinderState
<1>3. frames \in Seq(Frame) /\ depth = Len(frames) /\ depth \in Nat
  BY LenProperties DEF Inv, TypeInv, depth
<1>4. k \in 1 .. depth /\ unwinder.handler \in 1 .. k
  BY <1>1, <1>2, <1>3 DEF Inv, CursorInv
<1>5. f \in Frame
  BY <1>3, <1>4, ElementOfSeq
<1>6. HasPad(f) /\ handle_lsda(f, "cleanup").pad = f.site
  BY <1>1, <1>5, Lsda
<1>7. k = unwinder.handler
  <2>1. \A i \in unwinder.handler + 1 .. depth : ~HasPad(frames[i])
    BY <1>1 DEF Inv, CursorInv
  <2> QED
    BY <1>3, <1>4, <1>6, <2>1
<1>8. n \in Nat /\ f.nest \in Seq(Begins) /\ f.site \in 1 .. n
  BY <1>5, <1>6, LenProperties DEF Frame, HasPad
<1>9. f.site = n
  <2>1. CASE k = depth
    BY <1>1, <1>8, <2>1 DEF Inv, SitesInnermost, top
  <2>2. CASE k # depth
    BY <1>3, <1>4, <2>2 DEF Inv, SitesInnermost
  <2> QED
    BY <2>1, <2>2
<1>10. frames' = Append(SubSeq(frames, 1, k - 1), g)
  BY <1>1, <1>6, <1>9
<1>11. f.nest[n] \in Begins
  BY <1>8, ElementOfSeq
<1>12. SubSeq(f.nest, 1, n - 1) \in Seq(Begins)
  <2>1. \A i \in 1 .. n - 1 : f.nest[i] \in Begins
    BY <1>8, ElementOfSeq
  <2> QED
    BY <1>8, <2>1, SubSeqProperties
<1>13. /\ g \in Frame /\ g.nest = SubSeq(f.nest, 1, n - 1) /\ g.at = "tests"
       /\ g.begin = f.nest[n] /\ g.pos = <<1, 1>> /\ g.excep = unwinder.excep
  <2>1. <<1, 1>> \in Nat \X Nat
    OBVIOUS
  <2> QED
    BY <1>2, <1>5, <1>11, <1>12, <2>1 DEF Frame, Landed
<1> DEFINE s == SubSeq(frames, 1, k - 1)
<1>14. s \in Seq(Frame) /\ Len(s) = k - 1 /\ \A i \in 1 .. k - 1 : s[i] = frames[i]
  <2>1. \A i \in 1 .. k - 1 : frames[i] \in Frame
    BY <1>3, <1>4, ElementOfSeq
  <2> HIDE DEF k
  <2>2. k \in Int /\ k >= 1
    BY <1>3, <1>4
  <2> QED
    BY <2>1, <2>2, SubSeqProperties
<1>15. /\ frames' \in Seq(Frame) /\ Len(frames') = k
       /\ \A i \in 1 .. k - 1 : frames'[i] = frames[i]
       /\ frames'[k] = g
  <2> HIDE DEF s, g, k
  <2>1. k \in Int
    BY <1>4
  <2> QED
    BY <1>10, <1>13, <1>14, <2>1, AppendProperties DEF s
<1>16. depth' = k
  BY <1>15 DEF depth
<1> HIDE DEF g
<1> QED
  BY <1>4, <1>6, <1>7, <1>9, <1>11, <1>13, <1>15, <1>16

\* What _Unwind_RaiseException() starts from.
LEMMA Raised ==
  ASSUME Inv, Raises
  PROVE  /\ \E site \in {0, Len(top.nest)} :
               [top EXCEPT !.site = site] \in Frame /\ SetTop([top EXCEPT !.site = site])
         /\ unwinder' \in UnwinderState /\ unwinder'.phase = "search"
         /\ unwinder'.cursor = depth /\ unwinder'.excep \in Class /\ unwinder'.caller \in Callers
         /\ status' = status /\ Executing
<1>1. PICK e \in Class, site \in {0, landingpad}, caller \in Callers :
        Unwind_RaiseException(e, site, caller)
  BY DEF Raises
<1>2. Executing /\ depth \in Nat /\ top \in Frame /\ Len(top.nest) \in Nat
  BY TopFrame DEF Raises
<1>3. [top EXCEPT !.site = site] \in Frame /\ site \in {0, Len(top.nest)}
  BY <1>2 DEF Frame, landingpad
<1>4. unwinder' = [phase |-> "search", cursor |-> depth, handler |-> 0,
                   excep |-> e, caller |-> caller]
  BY <1>1 DEF Unwind_RaiseException
<1> QED
  BY <1>1, <1>2, <1>3, <1>4 DEF Unwind_RaiseException, UnwinderState

\* The unwinder's record through the steps of both phases.
LEMMA Unwinding ==
  ASSUME Inv
  PROVE  /\ SearchFrame =>
              /\ unwinder.phase = "search" /\ unwinder.cursor \in 1 .. depth
              /\ unwinder' \in UnwinderState
              /\ unwinder'.excep = unwinder.excep /\ unwinder'.caller = unwinder.caller
              /\ IF HasPad(frames[unwinder.cursor])
                 THEN /\ unwinder'.phase = "cleanup" /\ unwinder'.cursor = depth
                      /\ unwinder'.handler = unwinder.cursor
                 ELSE unwinder'.phase = "search" /\ unwinder'.cursor = unwinder.cursor - 1
         /\ CleanupFrame =>
              /\ unwinder.phase = "cleanup" /\ unwinder.cursor \in 1 .. depth
              /\ unwinder' \in UnwinderState /\ unwinder'.phase = "cleanup"
              /\ unwinder'.excep = unwinder.excep /\ unwinder'.caller = unwinder.caller
              /\ unwinder'.handler = unwinder.handler
              /\ unwinder'.cursor = unwinder.cursor - 1 /\ ~HasPad(frames[unwinder.cursor])
         /\ EndOfStack =>
              /\ unwinder' \in UnwinderState /\ unwinder'.phase = "idle"
              /\ status' = unwinder.caller /\ status' \in Callers
<1>1. unwinder \in UnwinderState /\ frames \in Seq(Frame) /\ depth = Len(frames) /\ depth \in Nat
  BY LenProperties DEF Inv, TypeInv, depth
<1>2. unwinder.cursor \in Nat /\ unwinder.handler \in Nat
  BY <1>1 DEF UnwinderState
<1>3. unwinder.phase # "idle" => unwinder.cursor <= depth
  BY <1>1 DEF Inv, CursorInv, UnwinderState
<1>4. unwinder.cursor \in 1 .. depth =>
        /\ handle_lsda(frames[unwinder.cursor], "search").found <=> HasPad(frames[unwinder.cursor])
        /\ handle_lsda(frames[unwinder.cursor], "cleanup").found <=> HasPad(frames[unwinder.cursor])
  BY <1>1, ElementOfSeq, Lsda
<1>5. ASSUME SearchFrame
      PROVE  /\ unwinder.phase = "search" /\ unwinder.cursor \in 1 .. depth
             /\ unwinder' = IF HasPad(frames[unwinder.cursor])
                            THEN [unwinder EXCEPT !.phase = "cleanup", !.cursor = depth,
                                                  !.handler = unwinder.cursor]
                            ELSE [unwinder EXCEPT !.cursor = @ - 1]
  <2>1. unwinder.phase = "search" /\ unwinder.cursor \in 1 .. depth
    BY <1>1, <1>2, <1>3, <1>5 DEF SearchFrame
  <2> QED
    BY <1>4, <1>5, <2>1 DEF SearchFrame, pup_eh_personality
<1>6. ASSUME CleanupFrame
      PROVE  /\ unwinder.phase = "cleanup" /\ unwinder.cursor \in 1 .. depth
             /\ unwinder' = [unwinder EXCEPT !.cursor = @ - 1]
             /\ ~HasPad(frames[unwinder.cursor])
  <2>1. unwinder.phase = "cleanup" /\ unwinder.cursor \in 1 .. depth
    BY <1>1, <1>2, <1>3, <1>6 DEF CleanupFrame
  <2> QED
    BY <1>4, <1>6, <2>1 DEF CleanupFrame, pup_eh_personality
<1>7. SearchFrame =>
        /\ unwinder.phase = "search" /\ unwinder.cursor \in 1 .. depth
        /\ unwinder' \in UnwinderState
        /\ unwinder'.excep = unwinder.excep /\ unwinder'.caller = unwinder.caller
        /\ IF HasPad(frames[unwinder.cursor])
           THEN /\ unwinder'.phase = "cleanup" /\ unwinder'.cursor = depth
                /\ unwinder'.handler = unwinder.cursor
           ELSE unwinder'.phase = "search" /\ unwinder'.cursor = unwinder.cursor - 1
  <2> SUFFICES ASSUME SearchFrame PROVE <1>7!2
    OBVIOUS
  <2>1. CASE HasPad(frames[unwinder.cursor])
    BY <1>1, <1>2, <1>5, <2>1 DEF UnwinderState
  <2>2. CASE ~HasPad(frames[unwinder.cursor])
    BY <1>1, <1>2, <1>5, <2>2 DEF UnwinderState
  <2> QED
    BY <2>1, <2>2
<1>8. CleanupFrame =>
        /\ unwinder.phase = "cleanup" /\ unwinder.cursor \in 1 .. depth
        /\ unwinder' \in UnwinderState /\ unwinder'.phase = "cleanup"
        /\ unwinder'.excep = unwinder.excep /\ unwinder'.caller = unwinder.caller
        /\ unwinder'.handler = unwinder.handler
        /\ unwinder'.cursor = unwinder.cursor - 1 /\ ~HasPad(frames[unwinder.cursor])
  BY <1>1, <1>2, <1>6 DEF UnwinderState
<1>9. EndOfStack =>
        /\ unwinder' \in UnwinderState /\ unwinder'.phase = "idle"
        /\ status' = unwinder.caller /\ status' \in Callers
  BY <1>1 DEF EndOfStack, UnwinderState, Inv, TypeInv
<1> QED
  BY <1>7, <1>8, <1>9

\* Every step keeps the variables in their types.
LEMMA TypeStep == Inv /\ [Next]_vars => TypeInv'
<1> SUFFICES ASSUME Inv, [Next]_vars PROVE TypeInv'
  OBVIOUS
<1>1. TypeInv /\ depth \in Nat
  BY LenProperties DEF Inv, TypeInv, depth
<1>2. frames' = frames => depth' = depth
  BY DEF depth
<1>3. CASE UNCHANGED vars
  BY <1>1, <1>2, <1>3 DEF vars, TypeInv
<1>4. CASE GoesOn
  BY <1>1, <1>4, NewTop DEF GoesOn, TypeInv
<1>5. CASE Raises
  <2>1. PICK site \in {0, Len(top.nest)} :
          [top EXCEPT !.site = site] \in Frame /\ SetTop([top EXCEPT !.site = site])
    BY <1>5, Raised
  <2>2. frames' \in Seq(Frame) /\ depth' = depth
    BY <1>5, <2>1, NewTop DEF Raises
  <2> QED
    BY <1>1, <1>5, <2>2, Raised DEF TypeInv, Executing
<1>6. CASE InvokeMethod
  <2>1. frames' \in Seq(Frame) /\ depth' = depth + 1
    BY <1>6, Called
  <2> QED
    BY <1>1, <1>6, <2>1 DEF InvokeMethod, TypeInv
<1>7. CASE Return
  <2>1. frames' \in Seq(Frame) /\ depth' = depth - 1 /\ depth \in Nat \ {0}
    BY <1>7, Returned, TopFrame DEF Return
  <2>2. unwinder' = unwinder /\ status' = (IF depth = 1 THEN "returned" ELSE status)
        /\ unwinder.phase = "idle"
    BY <1>7 DEF Return, Executing
  <2> QED
    BY <1>1, <2>1, <2>2 DEF TypeInv
<1>8. CASE SearchFrame
  <2>1. frames' = frames /\ status' = status
    BY <1>8 DEF SearchFrame
  <2> QED
    BY <1>1, <1>2, <1>8, <2>1, Unwinding DEF TypeInv
<1>9. CASE EndOfStack
  <2>1. frames' = frames
    BY <1>9 DEF EndOfStack
  <2> QED
    BY <1>1, <1>9, <2>1, Unwinding DEF TypeInv, Callers
<1>10. CASE CleanupFrame
  <2>1. frames' = frames /\ status' = status
    BY <1>10 DEF CleanupFrame
  <2> QED
    BY <1>1, <1>2, <1>10, <2>1, Unwinding DEF TypeInv
<1>11. CASE InstallContext
  <2>1. frames' \in Seq(Frame) /\ depth' > 0
    BY <1>1, <1>11, Installed
  <2>2. unwinder' = Idle /\ status' = status
    BY <1>11 DEF InstallContext
  <2>3. Idle \in UnwinderState /\ Idle.phase = "idle"
    BY DEF Idle, UnwinderState
  <2> QED
    BY <1>1, <2>1, <2>2, <2>3 DEF TypeInv
<1> QED
  BY <1>3, <1>4, <1>5, <1>6, <1>7, <1>8, <1>9, <1>10, <1>11, StepKinds

\* Every step keeps the tests of a landing pad within its clauses.
LEMMA ClausesStep == Inv /\ [Next]_vars => ClausesInRange'
<1> SUFFICES ASSUME Inv, [Next]_vars PROVE ClausesInRange'
  OBVIOUS
<1>1. /\ depth \in Nat /\ depth = Len(frames) /\ frames \in Seq(Frame)
      /\ \A k \in 1 .. depth : TestsInRange(frames[k]) /\ frames[k] \in Frame
  BY LenProperties, ElementOfSeq DEF Inv, TypeInv, ClausesInRange, depth
<1>2. ASSUME frames' = frames PROVE ClausesInRange'
  BY <1>1, <1>2 DEF ClausesInRange, depth
<1>3. \A f \in Frame, n \in Nat : TestsInRange(f) => TestsInRange([f EXCEPT !.site = n])
  BY DEF Frame, TestsInRange
<1>4. SUFFICES ASSUME NEW k \in 1 .. depth', frames' # frames
               PROVE  TestsInRange(frames'[k])
  BY <1>2 DEF ClausesInRange
<1>5. CASE UNCHANGED vars
  BY <1>4, <1>5 DEF vars
<1>6. CASE GoesOn
  BY <1>1, <1>6, NewTop DEF GoesOn
<1>7. CASE Raises
  <2>1. PICK site \in {0, Len(top.nest)} :
          [top EXCEPT !.site = site] \in Frame /\ SetTop([top EXCEPT !.site = site])
    BY <1>7, Raised
  <2>2. /\ depth' = depth
        /\ frames'[k] = IF k = depth THEN [top EXCEPT !.site = site] ELSE frames[k]
    BY <1>7, <2>1, NewTop DEF Raises
  <2>3. top \in Frame /\ TestsInRange(top) /\ site \in Nat
    BY <1>7, TopFrame DEF Raises
  <2> QED
    BY <1>1, <1>3, <2>2, <2>3
<1>8. CASE InvokeMethod
  <2>1. /\ depth' = depth + 1
        /\ \A i \in 1 .. depth - 1 : frames'[i] = frames[i]
        /\ frames'[depth] = [top EXCEPT !.site = Len(top.nest)]
        /\ frames'[depth + 1] = Body
    BY <1>8, Called
  <2>2. top \in Frame /\ TestsInRange(top) /\ Len(top.nest) \in Nat
    BY <1>8, TopFrame DEF InvokeMethod, CanInvoke
  <2>3. TestsInRange(Body)
    BY DEF Body, TestsInRange
  <2>4. TestsInRange(frames'[depth])
    BY <1>3, <2>1, <2>2
  <2>5. k \in 1 .. depth - 1 \/ k = depth \/ k = depth + 1
    BY <1>1, <2>1
  <2>6. k \in 1 .. depth - 1 => TestsInRange(frames'[k])
    BY <1>1, <2>1
  <2> QED
    BY <2>1, <2>3, <2>4, <2>5, <2>6
<1>9. CASE Return
  <2>1. /\ depth' = depth - 1
        /\ \A i \in 1 .. depth - 2 : frames'[i] = frames[i]
        /\ depth > 1 => frames'[depth - 1] = [frames[depth - 1] EXCEPT !.site = 0]
    BY <1>9, Returned
  <2>2. CASE k \in 1 .. depth - 2
    BY <1>1, <2>1, <2>2
  <2>3. CASE k \notin 1 .. depth - 2
    <3>1. k = depth - 1 /\ depth > 1 /\ depth - 1 \in 1 .. depth
      BY <1>1, <2>1, <2>3
    <3>2. TestsInRange([frames[depth - 1] EXCEPT !.site = 0])
      BY <1>1, <1>3, <3>1
    <3> QED
      BY <2>1, <3>1, <3>2
  <2> QED
    BY <2>2, <2>3
<1>10. CASE SearchFrame \/ EndOfStack \/ CleanupFrame
  BY <1>4, <1>10 DEF SearchFrame, EndOfStack, CleanupFrame
<1>11. CASE InstallContext
  <2> DEFINE c == unwinder.cursor
  <2>1. /\ depth' = c /\ c \in 1 .. depth
        /\ \A i \in 1 .. c - 1 : frames'[i] = frames[i]
        /\ frames'[c].begin \in Begins
        /\ frames'[c].at = "tests" /\ frames'[c].pos = <<1, 1>>
        /\ frames'[c].excep = unwinder.excep
    BY <1>11, Installed
  <2>2. unwinder.excep \in Class
    BY <1>11 DEF InstallContext, Inv, TypeInv
  <2>3. TestsInRange(frames'[c])
    BY <2>1, <2>2, FirstClause DEF TestsInRange
  <2> HIDE DEF c
  <2>4. k \in 1 .. c - 1 \/ k = c
    BY <2>1
  <2> QED
    BY <1>1, <2>1, <2>3, <2>4
<1> QED
  BY <1>5, <1>6, <1>7, <1>8, <1>9, <1>10, <1>11, StepKinds

\* Every step keeps a call under the landing pad of the innermost begin.
LEMMA SitesStep == Inv /\ [Next]_vars => SitesInnermost'
<1> SUFFICES ASSUME Inv, [Next]_vars PROVE SitesInnermost'
  OBVIOUS
<1>1. SitesInnermost /\ depth \in Nat
  BY LenProperties DEF Inv, TypeInv, depth
<1>2. frames' = frames => depth' = depth /\ top' = top
  BY DEF depth, top
<1>3. CASE UNCHANGED vars
  BY <1>1, <1>2, <1>3 DEF vars, SitesInnermost
<1>4. CASE GoesOn
  <2>1. PICK f \in Frame : SetTop(f)
    BY <1>4 DEF GoesOn
  <2>2. depth' = depth /\ \A k \in 1 .. depth - 1 : frames'[k] = frames[k]
    BY <1>1, <1>4, <2>1, NewTop DEF GoesOn
  <2> QED
    BY <1>1, <1>4, <2>2 DEF GoesOn, Executing, SitesInnermost
<1>5. CASE Raises
  <2>1. PICK site \in {0, Len(top.nest)} :
          [top EXCEPT !.site = site] \in Frame /\ SetTop([top EXCEPT !.site = site])
    BY <1>5, Raised
  <2>2. /\ depth' = depth /\ \A k \in 1 .. depth - 1 : frames'[k] = frames[k]
        /\ top' = [top EXCEPT !.site = site]
    BY <1>1, <1>5, <2>1, NewTop DEF Raises
  <2>3. top \in Frame
    BY <1>5, TopFrame DEF Raises
  <2>4. top'.site = site /\ top'.nest = top.nest
    BY <2>2, <2>3 DEF Frame
  <2> QED
    BY <1>1, <2>2, <2>4 DEF SitesInnermost
<1>6. CASE InvokeMethod
  <2>1. /\ depth' = depth + 1
        /\ \A k \in 1 .. depth - 1 : frames'[k] = frames[k]
        /\ frames'[depth] = [top EXCEPT !.site = Len(top.nest)]
    BY <1>6, Called
  <2>2. top \in Frame /\ depth \in Nat \ {0}
    BY <1>6, TopFrame DEF InvokeMethod, CanInvoke
  <2>3. frames'[depth].site = Len(frames'[depth].nest)
    BY <2>1, <2>2 DEF Frame
  <2>4. \A k \in 1 .. depth' - 1 : k \in 1 .. depth - 1 \/ k = depth
    BY <2>1, <2>2
  <2>5. unwinder'.phase = "idle"
    BY <1>6 DEF InvokeMethod, CanInvoke, Executing
  <2> QED
    BY <1>1, <2>1, <2>3, <2>4, <2>5 DEF SitesInnermost
<1>7. CASE Return
  <2>1. depth' = depth - 1 /\ \A k \in 1 .. depth - 2 : frames'[k] = frames[k]
    BY <1>7, Returned
  <2>2. \A k \in 1 .. depth' - 1 : k \in 1 .. depth - 2 /\ k \in 1 .. depth - 1
    BY <1>1, <2>1
  <2>3. unwinder'.phase = "idle"
    BY <1>7 DEF Return, Executing
  <2> QED
    BY <1>1, <2>1, <2>2, <2>3 DEF SitesInnermost
<1>8. CASE SearchFrame
  <2>1. frames' = frames
    BY <1>8 DEF SearchFrame
  <2> QED
    BY <1>1, <1>2, <1>8, <2>1, Unwinding DEF SitesInnermost
<1>9. CASE EndOfStack
  <2>1. frames' = frames
    BY <1>9 DEF EndOfStack
  <2> QED
    BY <1>1, <1>2, <1>9, <2>1, Unwinding DEF SitesInnermost
<1>10. CASE CleanupFrame
  <2>1. frames' = frames
    BY <1>10 DEF CleanupFrame
  <2> QED
    BY <1>1, <1>2, <1>10, <2>1, Unwinding DEF SitesInnermost
<1>11. CASE InstallContext
  <2> DEFINE c == unwinder.cursor
  <2>1. depth' = c /\ c \in 1 .. depth /\ \A i \in 1 .. c - 1 : frames'[i] = frames[i]
    BY <1>11, Installed
  <2>2. unwinder'.phase = "idle"
    BY <1>11 DEF InstallContext, Idle
  <2> HIDE DEF c
  <2>3. \A i \in 1 .. depth' - 1 : i \in 1 .. c - 1 /\ i \in 1 .. depth - 1
    BY <1>1, <2>1
  <2> QED
    BY <1>1, <2>1, <2>2, <2>3 DEF SitesInnermost
<1> QED
  BY <1>3, <1>4, <1>5, <1>6, <1>7, <1>8, <1>9, <1>10, <1>11, StepKinds

\* Every step keeps the two phases in agreement.
LEMMA CursorStep == Inv /\ [Next]_vars => CursorInv'
<1> SUFFICES ASSUME Inv, [Next]_vars PROVE CursorInv'
  OBVIOUS
<1>1. CursorInv /\ depth \in Nat /\ unwinder.cursor \in Nat /\ unwinder.handler \in Nat
  BY LenProperties DEF Inv, TypeInv, UnwinderState, depth
<1>2. frames' = frames => depth' = depth
  BY DEF depth
<1>3. CASE UNCHANGED vars
  BY <1>1, <1>2, <1>3 DEF vars, CursorInv
<1>4. CASE GoesOn \/ InvokeMethod \/ Return
  <2>1. unwinder'.phase = "idle"
    BY <1>4 DEF GoesOn, InvokeMethod, CanInvoke, Return, Executing
  <2> QED
    BY <2>1 DEF CursorInv
<1>5. CASE Raises
  <2>1. unwinder'.phase = "search" /\ unwinder'.cursor = depth /\ Executing
    BY <1>5, Raised
  <2>2. depth' = depth
    BY <1>5, Raised, NewTop
  <2>3. depth' + 1 .. depth' = {}
    BY <1>1, <2>2
  <2> QED
    BY <1>1, <2>1, <2>2, <2>3 DEF CursorInv
<1>6. CASE SearchFrame
  <2> DEFINE c == unwinder.cursor
  <2>1. frames' = frames /\ depth' = depth
    BY <1>2, <1>6 DEF SearchFrame
  <2>2. c \in 1 .. depth /\ \A k \in c + 1 .. depth : ~HasPad(frames[k])
    BY <1>1, <1>6, Unwinding DEF CursorInv
  <2>3. CASE HasPad(frames[c])
    <3>1. unwinder'.phase = "cleanup" /\ unwinder'.cursor = depth /\ unwinder'.handler = c
      BY <1>6, <2>3, Unwinding
    <3> QED
      BY <1>1, <2>1, <2>2, <2>3, <3>1 DEF CursorInv
  <2>4. CASE ~HasPad(frames[c])
    <3>1. unwinder'.phase = "search" /\ unwinder'.cursor = c - 1
      BY <1>6, <2>4, Unwinding
    <3>2. \A k \in c - 1 + 1 .. depth : k = c \/ k \in c + 1 .. depth
      BY <1>1
    <3> HIDE DEF c
    <3>3. c - 1 <= depth
      BY <1>1, <2>2
    <3> QED
      BY <2>1, <2>2, <2>4, <3>1, <3>2, <3>3 DEF CursorInv
  <2> QED
    BY <2>3, <2>4
<1>7. CASE EndOfStack
  BY <1>7, Unwinding DEF CursorInv
<1>8. CASE CleanupFrame
  <2> DEFINE c == unwinder.cursor
             h == unwinder.handler
  <2>1. frames' = frames /\ depth' = depth
    BY <1>2, <1>8 DEF CleanupFrame
  <2>2. /\ unwinder.phase = "cleanup" /\ unwinder'.phase = "cleanup" /\ c \in 1 .. depth
        /\ unwinder'.handler = h /\ unwinder'.cursor = c - 1 /\ ~HasPad(frames[c])
    BY <1>8, Unwinding
  <2>3. /\ h \in 1 .. c /\ HasPad(frames[h])
        /\ \A k \in h + 1 .. depth : ~HasPad(frames[k])
    BY <1>1, <2>2 DEF CursorInv
  <2> HIDE DEF c, h
  <2>4. h # c
    BY <2>2, <2>3
  <2>5. h \in 1 .. c - 1 /\ c - 1 <= depth
    BY <1>1, <2>2, <2>3, <2>4
  <2> QED
    BY <2>1, <2>2, <2>3, <2>5 DEF CursorInv
<1>9. CASE InstallContext
  <2>1. unwinder'.phase = "idle"
    BY <1>9 DEF InstallContext, Idle
  <2> QED
    BY <2>1 DEF CursorInv
<1> QED
  BY <1>3, <1>4, <1>5, <1>6, <1>7, <1>8, <1>9, StepKinds

\* Every step keeps the aborted process outside all begin statements.
LEMMA AbortStep == Inv /\ [Next]_vars => AbortOutsideAllBegins'
<1> SUFFICES ASSUME Inv, [Next]_vars PROVE AbortOutsideAllBegins'
  OBVIOUS
<1>1. AbortOutsideAllBegins /\ depth \in Nat /\ TypeInv
  BY LenProperties DEF Inv, TypeInv, depth
<1>2. frames' = frames => depth' = depth
  BY DEF depth
<1>3. CASE UNCHANGED vars
  BY <1>1, <1>2, <1>3 DEF vars, AbortOutsideAllBegins
<1>4. CASE status' = "runs" \/ status' = "returned"
  BY <1>4 DEF AbortOutsideAllBegins
<1>5. CASE GoesOn \/ InvokeMethod \/ Return
  BY <1>4, <1>5 DEF GoesOn, InvokeMethod, CanInvoke, Return, Executing
<1>6. CASE Raises
  BY <1>4, <1>6, Raised DEF Executing
<1>7. CASE SearchFrame \/ CleanupFrame \/ InstallContext
  <2>1. status' = status /\ unwinder.phase # "idle"
    BY <1>7 DEF SearchFrame, CleanupFrame, InstallContext
  <2> QED
    BY <1>1, <1>4, <2>1 DEF TypeInv
<1>8. CASE EndOfStack
  <2>1. frames' = frames /\ depth' = depth /\ unwinder.phase = "search" /\ unwinder.cursor = 0
    BY <1>2, <1>8 DEF EndOfStack
  <2> SUFFICES ASSUME NEW k \in 1 .. depth - 1 PROVE frames[k].nest = <<>>
    BY <2>1 DEF AbortOutsideAllBegins
  <2>2. ~HasPad(frames[k])
    <3>1. k \in unwinder.cursor + 1 .. depth
      BY <1>1, <2>1
    <3> QED
      BY <2>1, <3>1 DEF Inv, CursorInv
  <2>3. frames[k].site = Len(frames[k].nest)
    BY DEF Inv, SitesInnermost
  <2>4. frames[k] \in Frame
    BY <1>1, ElementOfSeq DEF TypeInv, depth
  <2>5. frames[k].nest \in Seq(Begins) /\ Len(frames[k].nest) \in Nat
    BY <2>4, LenProperties DEF Frame
  <2>6. Len(frames[k].nest) = 0
    BY <2>2, <2>3, <2>5 DEF HasPad
  <2> QED
    BY <2>5, <2>6, EmptySeq
<1> QED
  BY <1>3, <1>5, <1>6, <1>7, <1>8, StepKinds

-----------------------------------------------------------------------------
(* The theorems.                                                           *)

LEMMA InitInv == Init => Inv
<1> SUFFICES ASSUME Init PROVE Inv
  OBVIOUS
<1>1. frames = <<Body>> /\ unwinder = Idle /\ status = "runs"
  BY DEF Init
<1>2. <<1, 1>> \in Nat \X Nat /\ <<>> \in Seq(Begins)
  BY EmptySeq
<1>3. Body \in Frame /\ TestsInRange(Body)
  BY <1>2 DEF Frame, Body, TestsInRange
<1>4. frames \in Seq(Frame) /\ depth = 1 /\ frames[1] = Body
  BY <1>1, <1>3 DEF depth
<1>5. unwinder \in UnwinderState /\ unwinder.phase = "idle"
  BY <1>1 DEF Idle, UnwinderState
<1>6. TypeInv
  BY <1>1, <1>4, <1>5 DEF TypeInv
<1>7. ClausesInRange /\ SitesInnermost /\ CursorInv
  BY <1>3, <1>4, <1>5 DEF ClausesInRange, SitesInnermost, CursorInv
<1>8. AbortOutsideAllBegins
  BY <1>1 DEF AbortOutsideAllBegins
<1> QED
  BY <1>6, <1>7, <1>8 DEF Inv

\* The invariant of the unwinding holds at the start and every step of the
\* program, of the unwinder and of the landing pads keeps it.
THEOREM InvHolds == Spec => []Inv
<1>1. Inv /\ [Next]_vars => Inv'
  BY TypeStep, ClausesStep, SitesStep, CursorStep, AbortStep DEF Inv
<1> QED
  BY InitInv, <1>1, PTL DEF Spec

\* The type tests and the stack keep their types: no landing pad asks for a
\* clause or a type its begin statement does not have, also when a test has
\* raised an exception itself.
THEOREM TestsSound == Spec => [](TypeInv /\ ClausesInRange)
<1>1. Inv => TypeInv /\ ClausesInRange
  BY DEF Inv
<1> QED
  BY InvHolds, <1>1, PTL

\* The two phases of pup_eh_personality() agree on the frame, although they
\* decide by different conditions: cleanup enters the landing pad that the
\* search found and no younger one, for any stack and any nesting.
THEOREM PhasesAlwaysAgree == Spec => []PhasesAgree
<1>1. ASSUME Inv PROVE PhasesAgree
  <2> SUFFICES ASSUME unwinder.phase = "cleanup" PROVE PhasesAgree
    BY DEF PhasesAgree
  <2>1. /\ unwinder.handler \in 1 .. unwinder.cursor /\ unwinder.cursor <= depth
        /\ HasPad(frames[unwinder.handler])
        /\ \A k \in unwinder.handler + 1 .. depth : ~HasPad(frames[k])
    BY <1>1 DEF Inv, CursorInv
  <2>2. /\ unwinder.cursor \in Nat /\ depth \in Nat
        /\ \A k \in 1 .. depth : frames[k] \in Frame
    BY <1>1, LenProperties, ElementOfSeq DEF Inv, TypeInv, UnwinderState, depth
  <2>3. \A k \in 1 .. depth : handle_lsda(frames[k], "cleanup").found <=> HasPad(frames[k])
    BY <2>2, Lsda
  <2>4. /\ unwinder.handler \in 1 .. depth
        /\ \A k \in unwinder.handler + 1 .. depth : k \in 1 .. depth
    BY <2>1, <2>2
  <2> QED
    BY <2>1, <2>3, <2>4 DEF PhasesAgree
<1> QED
  BY InvHolds, <1>1, PTL

\* pup_raise() and pup_rethrow_uncaught_exception() abort the process only
\* when no calling method is inside the body of a begin statement.
THEOREM AbortsOutside == Spec => []AbortOutsideAllBegins
<1>1. Inv => AbortOutsideAllBegins
  BY DEF Inv
<1> QED
  BY InvHolds, <1>1, PTL

\* The landing pad that is entered, in the frame that the search found, is
\* that of the innermost begin statement the method is in, with the exception
\* that was raised.
LandsInnermost ==
  [][InstallContext =>
       LET k == unwinder.cursor
       IN  /\ k = unwinder.handler /\ depth' = k /\ frames[k].nest # <<>>
           /\ frames'[k].begin = frames[k].nest[Len(frames[k].nest)]
           /\ frames'[k].excep = unwinder.excep]_vars

\* InstallContext always lands so: both phases and the pads of nested begin
\* statements together bring the exception to the innermost one.
THEOREM Landings == Spec => LandsInnermost
<1>1. ASSUME Inv, InstallContext
      PROVE  LET k == unwinder.cursor
             IN  /\ k = unwinder.handler /\ depth' = k /\ frames[k].nest # <<>>
                 /\ frames'[k].begin = frames[k].nest[Len(frames[k].nest)]
                 /\ frames'[k].excep = unwinder.excep
  <2> DEFINE k == unwinder.cursor
  <2>1. /\ k = unwinder.handler /\ depth' = k /\ HasPad(frames[k])
        /\ frames'[k].begin = frames[k].nest[Len(frames[k].nest)]
        /\ frames'[k].excep = unwinder.excep
    BY <1>1, Installed
  <2>2. frames[k].nest # <<>>
    BY <2>1 DEF HasPad
  <2> QED
    BY <2>1, <2>2
<1> QED
  BY InvHolds, <1>1, PTL DEF LandsInnermost

-----------------------------------------------------------------------------
(* Unwind implements Rescue: the exception classes.                        *)

\* A nonempty set of natural numbers has a least element.
LEMMA LeastOf ==
  ASSUME NEW S \in SUBSET Nat, S # {}
  PROVE  \E x \in S : \A y \in S : x <= y
<1> DEFINE R == OpToRel(<, Nat)
<1>1. IsWellFoundedOn(R, Nat)
  BY NatLessThanWellFounded
<1> HIDE DEF R
<1>2. PICK x \in S : \A y \in S : ~(<<y, x>> \in R)
  BY <1>1, WFMin
<1>3. \A y \in S : x <= y
  <2> SUFFICES ASSUME NEW y \in S, y < x PROVE FALSE
    OBVIOUS
  <2> QED
    BY <1>2 DEF R, OpToRel
<1> QED
  BY <1>3

\* RuntimeError is an exception class, and the others are classes.
LEMMA ExceptionClasses ==
  /\ "RuntimeError" \in Exceptions /\ Exceptions \subseteq Class /\ "none" \notin Exceptions
  /\ \A arg \in Class : raised(arg) \in Exceptions
<1> DEFINE A(f) == [c \in Class |-> {c} \cup IF c = "Object" THEN {} ELSE f[superclass[c]]]
           a == [c \in Class |->
                   CASE c = "Object" -> {"Object"}
                     [] c = "String" -> {"String", "Object"}
                     [] c = "Exception" -> {"Exception", "Object"}
                     [] c = "StandardError" -> {"StandardError", "Exception", "Object"}
                     [] c = "RuntimeError" ->
                          {"RuntimeError", "StandardError", "Exception", "Object"}]
<1>1. Class = {"Object", "String", "Exception", "StandardError", "RuntimeError"}
  BY DEF Class, superclass
<1>2. /\ superclass["String"] = "Object" /\ superclass["Exception"] = "Object"
      /\ superclass["StandardError"] = "Exception"
      /\ superclass["RuntimeError"] = "StandardError"
  BY DEF superclass
<1>3. a = A(a)
  <2> SUFFICES ASSUME NEW c \in Class PROVE a[c] = A(a)[c]
    OBVIOUS
  <2> QED
    BY <1>1, <1>2
<1>4. ancestors = A(ancestors)
  <2> HIDE DEF a
  <2>1. ancestors = CHOOSE f : f = A(f)
    BY Zenon DEF ancestors
  <2> HIDE DEF A
  <2> QED
    BY <1>3, <2>1
<1>5. \A c \in Class : ancestors[c] = {c} \cup IF c = "Object" THEN {} ELSE ancestors[superclass[c]]
  BY <1>4
<1>6. "Exception" \in ancestors["RuntimeError"]
  BY <1>1, <1>2, <1>5
<1> HIDE DEF a
<1>7. "RuntimeError" \in Exceptions
  BY <1>1, <1>6 DEF Exceptions, pup_is_descendant_or_same
<1>8. \A arg \in Class : raised(arg) \in Exceptions
  BY <1>7 DEF Exceptions, raised
<1> QED
  BY <1>1, <1>7, <1>8 DEF Exceptions

-----------------------------------------------------------------------------
(* The recursion of Catcher.                                               *)

\* One step of it: what becomes of the exceptions that come to method k,
\* given what becomes of those that come to its caller.
Caught(s, k, outer) ==
  [c \in Exceptions |->
     LET nest == s[k].nest
         b    == nest[Len(nest)]
         hit  == firstHit[b][c]
     IN  IF k = 0 THEN [depth |-> 0, rescue |-> NotRescuing]
         ELSE IF nest = <<>> THEN outer[c]
         ELSE IF hit = Nowhere THEN outer[c]
         ELSE IF TypeAt(b, hit) = Undefined THEN outer["RuntimeError"]
         ELSE [depth |-> k, rescue |-> [clause |-> hit[1], excep |-> c]]]

IsCatch(s, n, f) == f = [k \in 0 .. n |-> Caught(s, k, f[k - 1])]

CatchFn(s, n) == CHOOSE f : IsCatch(s, n, f)

\* Nothing is asked of the caller of the first method.
LEMMA CaughtAtEnd == \A s, f, g : Caught(s, 0, f) = Caught(s, 0, g)
  BY DEF Caught

\* Catcher takes the function that its recursion defines.
LEMMA CatcherFn == \A s, n, e : Catcher(s, n, e) = CatchFn(s, n)[n][e]
  BY DEF Catcher, CatchFn, IsCatch, Caught

\* There is such a function.
LEMMA CatchExists ==
  ASSUME NEW s, NEW n \in Nat
  PROVE  IsCatch(s, n, CatchFn(s, n))
<1> DEFINE Bad == {m \in Nat : ~ \E f : IsCatch(s, m, f)}
<1>1. ASSUME NEW m \in Bad, \A j \in Bad : m <= j PROVE FALSE
  <2>1. CASE m = 0
    <3> DEFINE f == [k \in 0 .. 0 |-> Caught(s, 0, <<>>)]
    <3>1. \A k \in 0 .. 0 : Caught(s, k, f[k - 1]) = Caught(s, 0, <<>>)
      <4> SUFFICES Caught(s, 0, f[0 - 1]) = Caught(s, 0, <<>>)
        OBVIOUS
      <4> QED
        BY CaughtAtEnd
    <3>2. IsCatch(s, 0, f)
      BY <3>1 DEF IsCatch
    <3> QED
      BY <2>1, <3>2
  <2>2. CASE m > 0
    <3>1. m - 1 \in Nat /\ m - 1 \notin Bad
      BY <1>1, <2>2
    <3>2. PICK g : IsCatch(s, m - 1, g)
      BY <3>1
    <3> DEFINE f == [k \in 0 .. m |-> IF k = m THEN Caught(s, m, g[m - 1]) ELSE g[k]]
    <3>3. \A k \in 0 .. m - 1 : g[k] = Caught(s, k, g[k - 1])
      BY <3>2 DEF IsCatch
    <3>4. ASSUME NEW k \in 0 .. m PROVE f[k] = Caught(s, k, f[k - 1])
      <4>1. CASE k = 0
        <5>1. f[0] = g[0] /\ 0 \in 0 .. m - 1
          BY <2>2, <3>1
        <5>2. g[0] = Caught(s, 0, g[0 - 1])
          BY <3>3, <5>1
        <5> HIDE DEF f
        <5> QED
          BY <4>1, <5>1, <5>2, CaughtAtEnd
      <4>2. CASE k # 0
        <5>1. f[k - 1] = g[k - 1]
          BY <4>2
        <5>2. k # m => f[k] = g[k] /\ k \in 0 .. m - 1
          OBVIOUS
        <5>3. k = m => f[k] = Caught(s, m, g[m - 1])
          OBVIOUS
        <5> HIDE DEF f
        <5> QED
          BY <3>3, <5>1, <5>2, <5>3
      <4> QED
        BY <4>1, <4>2
    <3>5. IsCatch(s, m, f)
      <4>1. \A k \in 0 .. m : f[k] = Caught(s, k, f[k - 1])
        BY <3>4
      <4>2. f = [k \in 0 .. m |-> f[k]]
        OBVIOUS
      <4> HIDE DEF f
      <4> QED
        BY <4>1, <4>2 DEF IsCatch
    <3> QED
      BY <3>5
  <2> QED
    BY <2>1, <2>2
<1>2. Bad = {}
  <2>1. Bad \in SUBSET Nat
    OBVIOUS
  <2> HIDE DEF Bad
  <2> QED
    BY <1>1, <2>1, LeastOf
<1>3. \E f : IsCatch(s, n, f)
  BY <1>2
<1> QED
  BY <1>3 DEF CatchFn

\* And only one.
LEMMA CatchUnique ==
  ASSUME NEW s, NEW n \in Nat, NEW f, NEW g, IsCatch(s, n, f), IsCatch(s, n, g)
  PROVE  f = g
<1> DEFINE Bad == {k \in 0 .. n : f[k] # g[k]}
<1>1. \A k \in 0 .. n : f[k] = Caught(s, k, f[k - 1]) /\ g[k] = Caught(s, k, g[k - 1])
  BY DEF IsCatch
<1>2. ASSUME NEW m \in Bad, \A j \in Bad : m <= j PROVE FALSE
  <2>1. CASE m = 0
    BY <1>1, <2>1, CaughtAtEnd
  <2>2. CASE m # 0
    <3>1. f[m - 1] = g[m - 1]
      BY <1>2, <2>2
    <3> QED
      BY <1>1, <3>1
  <2> QED
    BY <2>1, <2>2
<1>3. Bad = {}
  <2>1. Bad \in SUBSET Nat
    OBVIOUS
  <2> HIDE DEF Bad
  <2> QED
    BY <1>2, <2>1, LeastOf
<1>4. f = [k \in 0 .. n |-> f[k]] /\ g = [k \in 0 .. n |-> g[k]]
  BY DEF IsCatch
<1> QED
  BY <1>3, <1>4

\* Catcher's equations: the exception comes to the innermost begin statement
\* of the method, and past it to the caller.
LEMMA CatcherRec ==
  ASSUME NEW s, NEW n \in Nat, NEW e \in Exceptions
  PROVE  Catcher(s, n, e) =
           LET nest == s[n].nest
               b    == nest[Len(nest)]
               hit  == firstHit[b][e]
           IN  IF n = 0 THEN [depth |-> 0, rescue |-> NotRescuing]
               ELSE IF nest = <<>> THEN Catcher(s, n - 1, e)
               ELSE IF hit = Nowhere THEN Catcher(s, n - 1, e)
               ELSE IF TypeAt(b, hit) = Undefined THEN Catcher(s, n - 1, "RuntimeError")
               ELSE [depth |-> n, rescue |-> [clause |-> hit[1], excep |-> e]]
<1> DEFINE f == CatchFn(s, n)
<1>1. \A k \in 0 .. n : f[k] = Caught(s, k, f[k - 1])
  <2>1. IsCatch(s, n, f)
    BY CatchExists
  <2> HIDE DEF f
  <2> QED
    BY <2>1 DEF IsCatch
<1>2. n # 0 => f[n - 1] = CatchFn(s, n - 1)[n - 1]
  <2> SUFFICES ASSUME n # 0 PROVE f[n - 1] = CatchFn(s, n - 1)[n - 1]
    OBVIOUS
  <2> DEFINE g == [k \in 0 .. n - 1 |-> f[k]]
  <2>1. n - 1 \in Nat
    OBVIOUS
  <2> HIDE DEF f
  <2>2. ASSUME NEW k \in 0 .. n - 1 PROVE g[k] = Caught(s, k, g[k - 1])
    <3>1. g[k] = Caught(s, k, f[k - 1])
      BY <1>1
    <3>2. k # 0 => g[k - 1] = f[k - 1]
      OBVIOUS
    <3> HIDE DEF g
    <3> QED
      BY <3>1, <3>2, CaughtAtEnd
  <2>3. IsCatch(s, n - 1, g)
    <3>1. g = [k \in 0 .. n - 1 |-> g[k]] /\ \A k \in 0 .. n - 1 : g[k] = Caught(s, k, g[k - 1])
      BY <2>2
    <3> HIDE DEF g
    <3> QED
      BY <3>1 DEF IsCatch
  <2>4. g = CatchFn(s, n - 1)
    <3>1. IsCatch(s, n - 1, CatchFn(s, n - 1))
      BY <2>1, CatchExists
    <3> HIDE DEF g
    <3> QED
      BY <2>1, <2>3, <3>1, CatchUnique
  <2>5. g[n - 1] = f[n - 1]
    BY <2>1
  <2> QED
    BY <2>4, <2>5
<1>3. f[n] = Caught(s, n, f[n - 1])
  BY <1>1
<1>4. /\ Catcher(s, n, e) = f[n][e]
      /\ n # 0 => Catcher(s, n - 1, e) = f[n - 1][e]
      /\ n # 0 => Catcher(s, n - 1, "RuntimeError") = f[n - 1]["RuntimeError"]
  BY <1>2, CatcherFn
<1> HIDE DEF f
<1> QED
  BY <1>3, <1>4 DEF Caught

\* All entries but the last, and another last entry.
Outer(s) == SubSeq(s, 1, Len(s) - 1)
WithTop(s, f) == Append(SubSeq(s, 1, Len(s) - 1), f)

\* Nobody is left to catch the exception.
LEMMA CatcherFirst ==
  ASSUME NEW s, NEW e \in Exceptions
  PROVE  Catcher(s, 0, e) = [depth |-> 0, rescue |-> NotRescuing]
<1> HIDE DEF NotRescuing
<1>1. 0 \in Nat
  OBVIOUS
<1> QED
  BY <1>1, CatcherRec

\* The catching method is on the stack.
LEMMA CatcherDepth ==
  ASSUME NEW s, NEW n \in Nat, NEW e \in Exceptions
  PROVE  Catcher(s, n, e).depth \in 0 .. n
<1> DEFINE Bad == {m \in Nat : ~ \A c \in Exceptions : Catcher(s, m, c).depth \in 0 .. m}
<1>1. ASSUME NEW m \in Bad, \A j \in Bad : m <= j PROVE FALSE
  <2> SUFFICES ASSUME NEW c \in Exceptions PROVE Catcher(s, m, c).depth \in 0 .. m
    OBVIOUS
  <2> DEFINE nest == s[m].nest
             b == nest[Len(nest)]
             hit == firstHit[b][c]
  <2>1. m # 0 => \A x \in Exceptions : Catcher(s, m - 1, x).depth \in 0 .. m
    <3> SUFFICES ASSUME m # 0 PROVE \A x \in Exceptions : Catcher(s, m - 1, x).depth \in 0 .. m
      OBVIOUS
    <3>1. m - 1 \in Nat /\ m - 1 \notin Bad
      BY <1>1
    <3>2. \A x \in Exceptions : Catcher(s, m - 1, x).depth \in 0 .. m - 1
      BY <3>1
    <3> QED
      BY <3>2
  <2>2. \/ Catcher(s, m, c) = [depth |-> 0, rescue |-> NotRescuing]
        \/ m # 0 /\ Catcher(s, m, c) = Catcher(s, m - 1, c)
        \/ m # 0 /\ Catcher(s, m, c) = Catcher(s, m - 1, "RuntimeError")
        \/ Catcher(s, m, c) = [depth |-> m, rescue |-> [clause |-> hit[1], excep |-> c]]
    BY CatcherRec
  <2> HIDE DEF hit
  <2> QED
    BY <2>1, <2>2, ExceptionClasses
<1>2. Bad = {}
  <2>1. Bad \in SUBSET Nat
    OBVIOUS
  <2> HIDE DEF Bad
  <2> QED
    BY <1>1, <2>1, LeastOf
<1> QED
  BY <1>2

\* An exception passes the methods that are in no begin statement.
LEMMA CatcherPasses ==
  ASSUME NEW s, NEW n \in Nat, NEW m \in 0 .. n, NEW e \in Exceptions,
         \A i \in m + 1 .. n : s[i].nest = <<>>
  PROVE  Catcher(s, n, e) = Catcher(s, m, e)
<1> DEFINE Bad == {j \in m .. n : Catcher(s, j, e) # Catcher(s, m, e)}
<1>1. ASSUME NEW j \in Bad, \A i \in Bad : j <= i PROVE FALSE
  <2>1. j # m
    OBVIOUS
  <2>2. j \in Nat /\ j # 0 /\ j \in m + 1 .. n /\ j - 1 \in m .. n /\ j - 1 \notin Bad
    BY <1>1, <2>1
  <2>3. Catcher(s, j - 1, e) = Catcher(s, m, e)
    BY <2>2
  <2>4. Catcher(s, j, e) = Catcher(s, j - 1, e)
    BY <2>2, CatcherRec
  <2> QED
    BY <2>3, <2>4
<1>2. Bad = {}
  <2>1. Bad \in SUBSET Nat
    OBVIOUS
  <2> HIDE DEF Bad
  <2> QED
    BY <1>1, <2>1, LeastOf
<1>3. n \in m .. n
  OBVIOUS
<1> QED
  BY <1>2, <1>3

\* Who catches an exception depends only on what the methods on its way are in.
LEMMA CatcherSame ==
  ASSUME NEW s, NEW t, NEW n \in Nat, NEW e \in Exceptions,
         \A i \in 1 .. n : s[i].nest = t[i].nest
  PROVE  Catcher(s, n, e) = Catcher(t, n, e)
<1> DEFINE Bad == {m \in 0 .. n : ~ \A c \in Exceptions : Catcher(s, m, c) = Catcher(t, m, c)}
<1>1. ASSUME NEW m \in Bad, \A j \in Bad : m <= j PROVE FALSE
  <2> SUFFICES ASSUME NEW c \in Exceptions PROVE Catcher(s, m, c) = Catcher(t, m, c)
    OBVIOUS
  <2>1. CASE m = 0
    BY <2>1, CatcherFirst
  <2>2. CASE m # 0
    <3>1. m - 1 \in Nat /\ m - 1 \in 0 .. n /\ m - 1 \notin Bad
      BY <1>1, <2>2
    <3>2. \A x \in Exceptions : Catcher(s, m - 1, x) = Catcher(t, m - 1, x)
      BY <3>1
    <3>3. s[m].nest = t[m].nest
      BY <2>2
    <3>4. /\ Catcher(s, m - 1, c) = Catcher(t, m - 1, c)
          /\ Catcher(s, m - 1, "RuntimeError") = Catcher(t, m - 1, "RuntimeError")
      BY <3>2, ExceptionClasses
    <3> DEFINE Rest(u, nest) ==
                 LET b   == nest[Len(nest)]
                     hit == firstHit[b][c]
                 IN  IF nest = <<>> THEN Catcher(u, m - 1, c)
                     ELSE IF hit = Nowhere THEN Catcher(u, m - 1, c)
                     ELSE IF TypeAt(b, hit) = Undefined THEN Catcher(u, m - 1, "RuntimeError")
                     ELSE [depth |-> m, rescue |-> [clause |-> hit[1], excep |-> c]]
    <3>5. m \in Nat
      OBVIOUS
    <3> HIDE DEF Bad
    <3>6. Catcher(s, m, c) = Rest(s, s[m].nest)
      BY <2>2, <3>5, CatcherRec
    <3>7. Catcher(t, m, c) = Rest(t, t[m].nest)
      BY <2>2, <3>5, CatcherRec
    <3>8. \A nest : Rest(s, nest) = Rest(t, nest)
      BY <3>4
    <3> HIDE DEF Rest
    <3> QED
      BY <3>3, <3>6, <3>7, <3>8
  <2> QED
    BY <2>1, <2>2
<1>2. Bad = {}
  <2>1. Bad \in SUBSET Nat
    OBVIOUS
  <2> HIDE DEF Bad
  <2> QED
    BY <1>1, <2>1, LeastOf
<1>3. n \in 0 .. n
  OBVIOUS
<1> QED
  BY <1>2, <1>3

\* The same of the stack that is left.
LEMMA UnwoundSame ==
  ASSUME NEW s, NEW t, NEW n \in Nat, NEW e \in Exceptions,
         \A i \in 1 .. n - 1 : s[i] = t[i], n > 0 => s[n].nest = t[n].nest
  PROVE  Unwound(s, n, e) = Unwound(t, n, e)
<1>1. \A i \in 1 .. n : s[i].nest = t[i].nest
  <2>1. \A i \in 1 .. n : i \in 1 .. n - 1 \/ i = n
    OBVIOUS
  <2> QED
    BY <2>1
<1> DEFINE d == Catcher(s, n, e).depth
<1>2. Catcher(s, n, e) = Catcher(t, n, e) /\ d \in 0 .. n
  BY <1>1, CatcherSame, CatcherDepth
<1> HIDE DEF d
<1>3. d # 0 => s[d].nest = t[d].nest
  BY <1>1, <1>2
<1>4. SubSeq(s, 1, d - 1) = SubSeq(t, 1, d - 1)
  <2>1. \A i \in 1 .. d - 1 : s[i] = t[i]
    BY <1>2
  <2> QED
    BY <1>2, <2>1, SubSeqProperties
<1> QED
  BY <1>2, <1>3, <1>4 DEF Unwound, d

\* For an exception that comes to the caller of method n.
LEMMA UnwoundBelow ==
  ASSUME NEW s, NEW t, NEW n \in Nat \ {0}, NEW e \in Exceptions,
         \A i \in 1 .. n - 1 : s[i] = t[i]
  PROVE  Unwound(s, n - 1, e) = Unwound(t, n - 1, e)
<1> DEFINE m == n - 1
<1>1. m \in Nat /\ \A i \in 1 .. m : s[i] = t[i]
  OBVIOUS
<1> HIDE DEF m
<1>2. /\ \A i \in 1 .. m - 1 : s[i] = t[i]
      /\ m > 0 => s[m].nest = t[m].nest
  BY <1>1
<1>3. Unwound(s, m, e) = Unwound(t, m, e)
  BY <1>1, <1>2, UnwoundSame
<1> QED
  BY <1>3 DEF m

\* Methods in no begin statement are taken off the stack.
LEMMA UnwoundPasses ==
  ASSUME NEW s, NEW n \in Nat, NEW m \in 0 .. n, NEW e \in Exceptions,
         \A i \in m + 1 .. n : s[i].nest = <<>>
  PROVE  Unwound(s, n, e) = Unwound(s, m, e)
BY CatcherPasses DEF Unwound

\* Without a method that catches the exception nothing is left.
LEMMA UnwoundEmpty ==
  ASSUME NEW s, NEW e \in Exceptions
  PROVE  Unwound(s, 0, e) = <<>>
BY CatcherFirst DEF Unwound

\* A begin statement: either it leaves the exception to the caller, or raises
\* another one there, or the method goes on in the clause of the first hit.
LEMMA UnwoundInto ==
  ASSUME NEW s, NEW n \in Nat \ {0}, NEW e \in Exceptions, NEW b,
         s[n].nest # <<>>, b = s[n].nest[Len(s[n].nest)]
  PROVE  /\ firstHit[b][e] = Nowhere => Unwound(s, n, e) = Unwound(s, n - 1, e)
         /\ firstHit[b][e] # Nowhere =>
              IF TypeAt(b, firstHit[b][e]) = Undefined
              THEN Unwound(s, n, e) = Unwound(s, n - 1, "RuntimeError")
              ELSE Unwound(s, n, e) =
                     WithTop(SubSeq(s, 1, n),
                         [nest |-> Outer(s[n].nest),
                          rescue |-> [clause |-> firstHit[b][e][1], excep |-> e]])
<1>0. n \in Nat /\ n # 0
  OBVIOUS
<1>1. CASE firstHit[b][e] = Nowhere
  <2>1. Catcher(s, n, e) = Catcher(s, n - 1, e)
    BY <1>0, <1>1, CatcherRec
  <2> QED
    BY <1>1, <2>1 DEF Unwound
<1>2. CASE firstHit[b][e] # Nowhere /\ TypeAt(b, firstHit[b][e]) = Undefined
  <2>1. Catcher(s, n, e) = Catcher(s, n - 1, "RuntimeError")
    BY <1>0, <1>2, CatcherRec
  <2> QED
    BY <1>2, <2>1 DEF Unwound
<1>3. CASE firstHit[b][e] # Nowhere /\ TypeAt(b, firstHit[b][e]) # Undefined
  <2>1. Catcher(s, n, e) = [depth |-> n, rescue |-> [clause |-> firstHit[b][e][1], excep |-> e]]
    BY <1>0, <1>3, CatcherRec
  <2>2. Unwound(s, n, e) =
          Append(SubSeq(s, 1, n - 1),
                 [nest |-> Outer(s[n].nest),
                  rescue |-> [clause |-> firstHit[b][e][1], excep |-> e]])
    BY <1>0, <2>1 DEF Unwound, Outer
  <2>3. SubSeq(SubSeq(s, 1, n), 1, Len(SubSeq(s, 1, n)) - 1) = SubSeq(s, 1, n - 1)
    BY <1>0
  <2> QED
    BY <1>3, <2>2, <2>3 DEF WithTop
<1> QED
  BY <1>1, <1>2, <1>3

\* The tests of frame f have come past no type that ends the search.
Searched(f) ==
  /\ f.at # "body" => f.excep \in Exceptions
  /\ f.at = "tests" => \A q \in Hits(f.begin, f.excep) : ~Precedes(q, f.pos)

\* What the map to Rescue rests on: only what it takes for an exception
\* propagates, suspended methods are in calls that the program makes, and the
\* type tests stop at the first type that ends the search.
RescueInv ==
  /\ \A k \in 1 .. depth : Searched(frames[k])
  /\ \A k \in 1 .. depth - 1 : frames[k].at \in {"body", "rescue"}
  /\ unwinder.phase # "idle" => unwinder.excep \in Exceptions

-----------------------------------------------------------------------------
(* The search through the clauses.                                         *)

\* A position is a clause and a type of it, and one of two comes first.
LEMMA PositionFacts ==
  ASSUME NEW b \in Begins, NEW p \in Positions(b)
  PROVE  /\ p = <<p[1], p[2]>> /\ p[1] \in 1 .. Len(b) /\ p[2] \in 1 .. Len(b[p[1]])
         /\ Len(b) \in Nat /\ Len(b[p[1]]) \in Nat /\ p # Nowhere
<1>1. BeginStmt(b)
  BY BeginsAssumption
<1> DEFINE Types == Seq(Class \cup {Undefined})
<1>2. b \in Seq(Types)
  BY <1>1 DEF BeginStmt
<1>3. PICK i \in DOMAIN b : p \in {i} \X DOMAIN b[i]
  BY DEF Positions
<1>4. DOMAIN b = 1 .. Len(b) /\ Len(b) \in Nat /\ b[i] \in Types
  BY <1>2, <1>3, LenProperties, ElementOfSeq
<1>5. DOMAIN b[i] = 1 .. Len(b[i]) /\ Len(b[i]) \in Nat
  BY <1>4, LenProperties
<1>6. p = <<p[1], p[2]>> /\ p[1] = i /\ p[2] \in DOMAIN b[i]
  BY <1>3
<1>7. p[1] # 0
  BY <1>3, <1>4, <1>6
<1> QED
  BY <1>3, <1>4, <1>5, <1>6, <1>7 DEF Nowhere

\* firstHit is the hit that no other precedes.
LEMMA FirstHit ==
  ASSUME NEW b \in Begins, NEW c \in Exceptions
  PROVE  /\ Hits(b, c) = {} => firstHit[b][c] = Nowhere
         /\ \A p \in Hits(b, c) :
              (\A q \in Hits(b, c) : ~Precedes(q, p)) => firstHit[b][c] = p /\ p # Nowhere
<1>1. firstHit[b][c] = IF Hits(b, c) = {} THEN Nowhere
                       ELSE CHOOSE p \in Hits(b, c) : \A q \in Hits(b, c) : ~Precedes(q, p)
  BY DEF firstHit
<1>2. ASSUME NEW p \in Hits(b, c), \A q \in Hits(b, c) : ~Precedes(q, p)
      PROVE  firstHit[b][c] = p /\ p # Nowhere
  <2>1. \A x \in Hits(b, c) : x \in Positions(b)
    BY DEF Hits
  <2>2. ASSUME NEW r \in Hits(b, c), \A q \in Hits(b, c) : ~Precedes(q, r) PROVE r = p
    <3>1. r = <<r[1], r[2]>> /\ r[1] \in Nat /\ r[2] \in Nat
      BY <2>1, PositionFacts
    <3>2. p = <<p[1], p[2]>> /\ p[1] \in Nat /\ p[2] \in Nat
      BY <2>1, PositionFacts
    <3>3. ~Precedes(p, r) /\ ~Precedes(r, p)
      BY <1>2, <2>2
    <3>4. p[1] = r[1] /\ p[2] = r[2]
      BY <3>1, <3>2, <3>3 DEF Precedes
    <3> QED
      BY <3>1, <3>2, <3>4
  <2>3. firstHit[b][c] = CHOOSE r \in Hits(b, c) : \A q \in Hits(b, c) : ~Precedes(q, r)
    BY <1>1
  <2>4. firstHit[b][c] = p
    BY <1>2, <2>2, <2>3
  <2> QED
    BY <2>1, <2>4, PositionFacts
<1> QED
  BY <1>1, <1>2

\* The tests go through the types in their order and leave none out.
LEMMA NextSearched ==
  ASSUME Inv, Executing, top.at = "tests", Searched(top),
         top.pos \notin Hits(top.begin, top.excep)
  PROVE  /\ NextTest.at \in {"tests", "rethrow"} /\ NextTest.nest = top.nest
         /\ NextTest.begin = top.begin /\ NextTest.excep = top.excep
         /\ NextTest.site = top.site
         /\ Searched(NextTest)
         /\ NextTest.at = "rethrow" => Hits(top.begin, top.excep) = {}
<1> DEFINE b == top.begin
           c == top.excep
           i == top.pos[1]
           j == top.pos[2]
<1>1. top \in Frame /\ TestsInRange(top)
  BY TopFrame
<1>2. b \in Begins /\ top.pos \in Positions(b) /\ c \in Exceptions
  BY <1>1 DEF TestsInRange, Searched
<1>3. top.pos = <<i, j>> /\ i \in 1 .. Len(b) /\ j \in 1 .. Len(b[i])
      /\ Len(b) \in Nat /\ Len(b[i]) \in Nat
  BY <1>2, PositionFacts
<1>4. \A q \in Hits(b, c) :
        /\ q = <<q[1], q[2]>> /\ q[1] \in 1 .. Len(b) /\ q[2] \in 1 .. Len(b[q[1]])
        /\ Len(b[q[1]]) \in Nat
        /\ ~Precedes(q, top.pos) /\ q # top.pos
  <2>1. \A q \in Hits(b, c) : q \in Positions(b)
    BY DEF Hits
  <2> QED
    BY <1>2, <2>1, PositionFacts DEF Searched
<1>5. \A q \in Hits(b, c) : i < q[1] \/ (i = q[1] /\ j < q[2])
  <2> SUFFICES ASSUME NEW q \in Hits(b, c) PROVE i < q[1] \/ (i = q[1] /\ j < q[2])
    OBVIOUS
  <2>1. q[1] # i \/ q[2] # j
    BY <1>3, <1>4
  <2>2. ~(q[1] < i \/ (q[1] = i /\ q[2] < j))
    BY <1>4 DEF Precedes
  <2>3. q[1] \in Nat /\ q[2] \in Nat /\ i \in Nat /\ j \in Nat
    BY <1>3, <1>4
  <2> HIDE DEF i, j
  <2> QED
    BY <2>1, <2>2, <2>3
<1>6. CASE j < Len(b[i])
  <2>1. NextTest = [top EXCEPT !.pos = <<i, j + 1>>]
    BY <1>6 DEF NextTest
  <2>2. /\ NextTest.at = "tests" /\ NextTest.nest = top.nest /\ NextTest.begin = b
        /\ NextTest.excep = c /\ NextTest.site = top.site /\ NextTest.pos = <<i, j + 1>>
    BY <1>1, <2>1 DEF Frame
  <2>3. \A q \in Hits(b, c) : ~Precedes(q, <<i, j + 1>>)
    BY <1>3, <1>4, <1>5 DEF Precedes
  <2> QED
    BY <1>2, <2>2, <2>3 DEF Searched
<1>7. CASE ~(j < Len(b[i])) /\ i < Len(b)
  <2>1. NextTest = [top EXCEPT !.pos = <<i + 1, 1>>]
    BY <1>7 DEF NextTest
  <2>2. /\ NextTest.at = "tests" /\ NextTest.nest = top.nest /\ NextTest.begin = b
        /\ NextTest.excep = c /\ NextTest.site = top.site /\ NextTest.pos = <<i + 1, 1>>
    BY <1>1, <2>1 DEF Frame
  <2>3. \A q \in Hits(b, c) : ~Precedes(q, <<i + 1, 1>>)
    <3> SUFFICES ASSUME NEW q \in Hits(b, c), Precedes(q, <<i + 1, 1>>) PROVE FALSE
      OBVIOUS
    <3>1. /\ q[1] \in Nat /\ q[2] \in Nat /\ q[2] >= 1 /\ i \in Nat /\ j \in Nat
          /\ q[2] <= Len(b[q[1]])
      BY <1>3, <1>4
    <3>2. q[1] < i + 1 \/ (q[1] = i + 1 /\ q[2] < 1)
      BY DEF Precedes
    <3>3. i < q[1] \/ (i = q[1] /\ j < q[2])
      BY <1>5
    <3> HIDE DEF i, j, b
    <3>4. q[1] = i /\ j < q[2]
      BY <3>1, <3>2, <3>3
    <3> QED
      BY <1>3, <1>7, <3>1, <3>4
  <2> QED
    BY <1>2, <2>2, <2>3 DEF Searched
<1>8. CASE ~(j < Len(b[i])) /\ ~(i < Len(b))
  <2>1. NextTest = [top EXCEPT !.at = "rethrow"]
    BY <1>8 DEF NextTest
  <2>2. /\ NextTest.at = "rethrow" /\ NextTest.nest = top.nest /\ NextTest.begin = b
        /\ NextTest.excep = c /\ NextTest.site = top.site
    BY <1>1, <2>1 DEF Frame
  <2>3. \A q \in Hits(b, c) : FALSE
    <3> SUFFICES ASSUME NEW q \in Hits(b, c) PROVE FALSE
      OBVIOUS
    <3>1. i = q[1] => j < q[2] /\ q[2] <= Len(b[i])
      BY <1>3, <1>4, <1>5
    <3>2. i < q[1] => q[1] <= Len(b)
      BY <1>4
    <3> HIDE DEF i, j, b
    <3> QED
      BY <1>3, <1>4, <1>5, <1>8, <3>1, <3>2
  <2> QED
    BY <1>2, <2>2, <2>3 DEF Searched
<1> QED
  BY <1>6, <1>7, <1>8

-----------------------------------------------------------------------------
(* The invariant that the map to Rescue rests on is inductive.             *)

\* What a step does to the newest method, whatever else it does.
TopOnly ==
  /\ Executing
  /\ \E f \in Frame : Searched(f) /\ SetTop(f)
  /\ unwinder'.phase # "idle" => unwinder'.excep \in Exceptions

\* Every step is of one of these kinds.
LEMMA RescueKinds ==
  ASSUME Inv, RescueInv, [Next]_vars
  PROVE  \/ UNCHANGED vars \/ TopOnly \/ InvokeMethod \/ Return
         \/ SearchFrame \/ EndOfStack \/ CleanupFrame \/ InstallContext
<1> USE DEF Idle
<1>0. ASSUME Executing
      PROVE  /\ top \in Frame /\ Searched(top) /\ top.nest \in Seq(Begins)
             /\ Len(top.nest) \in Nat /\ TestsInRange(top) /\ unwinder.phase = "idle"
  <2>1. depth \in 1 .. depth
    BY <1>0, TopFrame
  <2> QED
    BY <1>0, <2>1, TopFrame DEF RescueInv, top, Executing
<1>1. ASSUME NEW b \in Begins, Begin(b) PROVE TopOnly
  <2>1. top \in Frame /\ top.at = "body" /\ top.nest \in Seq(Begins) /\ Executing
        /\ unwinder.phase = "idle"
    BY <1>0, <1>1 DEF Begin
  <2> DEFINE f == [top EXCEPT !.nest = Append(@, b)]
  <2>2. Append(top.nest, b) \in Seq(Begins)
    BY <2>1, AppendProperties
  <2>3. f \in Frame /\ Searched(f)
    BY <2>1, <2>2 DEF Frame, Searched
  <2> QED
    BY <1>1, <2>1, <2>3 DEF Begin, TopOnly
<1>2. CASE EndBegin
  <2>1. top \in Frame /\ top.at = "body" /\ top.nest \in Seq(Begins) /\ Executing
        /\ Len(top.nest) \in Nat /\ unwinder.phase = "idle"
    BY <1>0, <1>2 DEF EndBegin
  <2> DEFINE f == [top EXCEPT !.nest = SubSeq(@, 1, Len(@) - 1)]
  <2>2. SubSeq(top.nest, 1, Len(top.nest) - 1) \in Seq(Begins)
    BY <2>1, SubSeqProperties
  <2>3. f \in Frame /\ Searched(f)
    BY <2>1, <2>2 DEF Frame, Searched
  <2> QED
    BY <1>2, <2>1, <2>3 DEF EndBegin, TopOnly
<1>3. CASE EndRescue
  <2>1. top \in Frame /\ Executing /\ unwinder.phase = "idle"
    BY <1>0, <1>3 DEF EndRescue
  <2> DEFINE f == [Body EXCEPT !.nest = top.nest]
  <2>2. f \in Frame /\ Searched(f)
    BY <2>1 DEF Frame, Searched, Body
  <2> QED
    BY <1>3, <2>1, <2>2 DEF EndRescue, TopOnly
<1>4. ASSUME Executing, NEW e \in Exceptions, NEW site \in {0, landingpad}, NEW caller,
             Unwind_RaiseException(e, site, caller)
      PROVE  TopOnly
  <2> DEFINE f == [top EXCEPT !.site = site]
  <2>1. f \in Frame /\ Searched(f)
    BY <1>0, <1>4 DEF Frame, Searched, landingpad
  <2> QED
    BY <1>4, <2>1 DEF Unwind_RaiseException, TopOnly
<1>5. ASSUME NEW arg \in Class, RaiseInMethod(arg) PROVE TopOnly
  BY <1>4, <1>5, ExceptionClasses DEF RaiseInMethod, CanInvoke
<1>6. CASE RaiseInBuiltin \/ TestRaises
  BY <1>4, <1>6, ExceptionClasses DEF RaiseInBuiltin, TestRaises
<1>7. CASE Rethrow
  <2>1. top.excep \in Exceptions /\ Executing
    BY <1>0, <1>7 DEF Rethrow, Searched
  <2> QED
    BY <1>4, <1>7, <2>1 DEF Rethrow
<1>8. CASE TestMatches
  <2>1. top \in Frame /\ Searched(top) /\ top.at = "tests" /\ Executing /\ unwinder.phase = "idle"
    BY <1>0, <1>8 DEF TestMatches
  <2> DEFINE f == [top EXCEPT !.at = "rescue"]
  <2>2. f \in Frame /\ Searched(f)
    BY <2>1 DEF Frame, Searched
  <2> QED
    BY <1>8, <2>1, <2>2 DEF TestMatches, TopOnly
<1>9. CASE TestFails
  <2>1. /\ top \in Frame /\ Searched(top) /\ top.at = "tests" /\ Executing /\ unwinder.phase = "idle"
        /\ TestsInRange(top)
    BY <1>0, <1>9 DEF TestFails
  <2>2. top.pos \notin Hits(top.begin, top.excep)
    BY <1>9 DEF TestFails, TestType, Hits, Matches
  <2>3. NextTest \in Frame /\ Searched(NextTest)
    BY <2>1, <2>2, NextInRange, NextSearched
  <2> QED
    BY <1>9, <2>1, <2>3 DEF TestFails, TopOnly
<1> QED
  BY <1>1, <1>2, <1>3, <1>5, <1>6, <1>7, <1>8, <1>9 DEF Next, Program, Propagate

\* Every step keeps what the map rests on.
LEMMA RescueInvStep == Inv /\ RescueInv /\ [Next]_vars => RescueInv'
<1> SUFFICES ASSUME Inv, RescueInv, [Next]_vars PROVE RescueInv'
  OBVIOUS
<1>1. /\ depth \in Nat /\ depth = Len(frames) /\ frames \in Seq(Frame)
      /\ \A k \in 1 .. depth : frames[k] \in Frame /\ Searched(frames[k])
      /\ \A k \in 1 .. depth - 1 : frames[k].at \in {"body", "rescue"}
  BY LenProperties, ElementOfSeq DEF Inv, TypeInv, RescueInv, depth
<1>2. frames' = frames => depth' = depth
  BY DEF depth
<1>3. \A f \in Frame, n \in Nat : Searched(f) =>
        Searched([f EXCEPT !.site = n]) /\ [f EXCEPT !.site = n].at = f.at
  BY DEF Frame, Searched
<1>4. CASE UNCHANGED vars
  BY <1>2, <1>4 DEF vars, RescueInv
<1>5. CASE TopOnly
  <2>1. PICK f \in Frame : Searched(f) /\ SetTop(f)
    BY <1>5 DEF TopOnly
  <2>2. /\ depth' = depth
        /\ \A k \in 1 .. depth : frames'[k] = IF k = depth THEN f ELSE frames[k]
    BY <1>5, <2>1, NewTop DEF TopOnly
  <2>3. \A k \in 1 .. depth' : Searched(frames'[k])
    BY <1>1, <2>1, <2>2
  <2>4. \A k \in 1 .. depth' - 1 : frames'[k].at \in {"body", "rescue"}
    BY <1>1, <2>2
  <2> QED
    BY <1>5, <2>3, <2>4 DEF RescueInv, TopOnly
<1>6. CASE InvokeMethod
  <2>1. /\ depth' = depth + 1
        /\ \A i \in 1 .. depth - 1 : frames'[i] = frames[i]
        /\ frames'[depth] = [top EXCEPT !.site = Len(top.nest)]
        /\ frames'[depth + 1] = Body
    BY <1>6, Called
  <2>2. /\ top \in Frame /\ Len(top.nest) \in Nat /\ depth \in Nat \ {0}
        /\ top.at \in {"body", "rescue"} /\ unwinder'.phase = "idle"
    BY <1>6, TopFrame DEF InvokeMethod, CanInvoke, Executing
  <2>3. Searched(top)
    BY <1>1, <2>2 DEF top
  <2>4. Searched(frames'[depth]) /\ frames'[depth].at \in {"body", "rescue"}
    BY <1>3, <2>1, <2>2, <2>3
  <2>5. Searched(Body)
    BY DEF Body, Searched
  <2>6. ASSUME NEW k \in 1 .. depth' PROVE Searched(frames'[k])
    <3>1. k \in 1 .. depth - 1 \/ k = depth \/ k = depth + 1
      BY <1>1, <2>1
    <3>2. k \in 1 .. depth - 1 => Searched(frames'[k])
      BY <1>1, <2>1
    <3> QED
      BY <2>1, <2>4, <2>5, <3>1, <3>2
  <2>7. ASSUME NEW k \in 1 .. depth' - 1 PROVE frames'[k].at \in {"body", "rescue"}
    <3>1. k \in 1 .. depth - 1 \/ k = depth
      BY <1>1, <2>1
    <3> QED
      BY <1>1, <2>1, <2>4, <3>1
  <2> QED
    BY <2>2, <2>6, <2>7 DEF RescueInv
<1>7. CASE Return
  <2>1. /\ depth' = depth - 1
        /\ \A i \in 1 .. depth - 2 : frames'[i] = frames[i]
        /\ depth > 1 => frames'[depth - 1] = [frames[depth - 1] EXCEPT !.site = 0]
    BY <1>7, Returned
  <2>2. unwinder'.phase = "idle"
    BY <1>7 DEF Return, Executing
  <2>3. ASSUME NEW k \in 1 .. depth' PROVE Searched(frames'[k])
    <3>1. k \in 1 .. depth - 2 \/ (k = depth - 1 /\ depth > 1)
      BY <1>1, <2>1
    <3>2. k \in 1 .. depth - 2 => Searched(frames'[k])
      BY <1>1, <2>1
    <3>3. k = depth - 1 /\ depth > 1 => Searched(frames'[k])
      <4> SUFFICES ASSUME k = depth - 1, depth > 1 PROVE Searched(frames'[k])
        OBVIOUS
      <4>1. frames[k] \in Frame /\ Searched(frames[k])
        BY <1>1
      <4> QED
        BY <1>3, <2>1, <4>1
    <3> QED
      BY <3>1, <3>2, <3>3
  <2>4. ASSUME NEW k \in 1 .. depth' - 1 PROVE frames'[k].at \in {"body", "rescue"}
    <3>1. k \in 1 .. depth - 2 /\ k \in 1 .. depth - 1
      BY <1>1, <2>1
    <3> QED
      BY <1>1, <2>1, <3>1
  <2> QED
    BY <2>2, <2>3, <2>4 DEF RescueInv
<1>8. CASE SearchFrame \/ CleanupFrame
  <2>1. frames' = frames /\ unwinder.phase # "idle"
    BY <1>8 DEF SearchFrame, CleanupFrame
  <2>2. unwinder'.excep = unwinder.excep
    BY <1>8, Unwinding
  <2> QED
    BY <1>2, <2>1, <2>2 DEF RescueInv
<1>9. CASE EndOfStack
  <2>1. frames' = frames
    BY <1>9 DEF EndOfStack
  <2> QED
    BY <1>2, <1>9, <2>1, Unwinding DEF RescueInv
<1>10. CASE InstallContext
  <2> DEFINE c == unwinder.cursor
  <2>1. /\ depth' = c /\ c \in 1 .. depth
        /\ \A i \in 1 .. c - 1 : frames'[i] = frames[i]
        /\ frames'[c].begin \in Begins
        /\ frames'[c].at = "tests" /\ frames'[c].pos = <<1, 1>>
        /\ frames'[c].excep = unwinder.excep
    BY <1>10, Installed
  <2>2. unwinder.excep \in Exceptions /\ unwinder'.phase = "idle"
    BY <1>10 DEF InstallContext, RescueInv, Idle
  <2>3. ASSUME NEW b \in Begins, NEW q \in Hits(b, unwinder.excep) PROVE ~Precedes(q, <<1, 1>>)
    <3>1. q \in Positions(b)
      BY DEF Hits
    <3>2. q[1] \in Nat \ {0} /\ q[2] \in Nat \ {0}
      BY <3>1, PositionFacts
    <3> QED
      BY <3>2 DEF Precedes
  <2>4. Searched(frames'[c])
    BY <2>1, <2>2, <2>3 DEF Searched
  <2> HIDE DEF c
  <2>5. \A k \in 1 .. depth' : k \in 1 .. c - 1 \/ k = c
    BY <2>1
  <2>6. \A k \in 1 .. c - 1 : Searched(frames'[k]) /\ frames'[k].at \in {"body", "rescue"}
    BY <1>1, <2>1
  <2> QED
    BY <2>1, <2>2, <2>4, <2>5, <2>6 DEF RescueInv
<1> QED
  BY <1>4, <1>5, <1>6, <1>7, <1>8, <1>9, <1>10, RescueKinds

-----------------------------------------------------------------------------
(* The mapped stack.                                                       *)

\* A frame as Rescue's stack has it, in a phase of the unwinder.
Entry(f, phase) ==
  [nest   |-> IF f.at = "tests" /\ phase = "idle" THEN Append(f.nest, f.begin) ELSE f.nest,
   rescue |-> IF f.at = "rescue" THEN [clause |-> f.pos[1], excep |-> f.excep]
              ELSE NotRescuing]

\* asStack in these terms, before and after a step.
LEMMA StackEntries ==
  /\ asStack = [i \in DOMAIN frames |-> Entry(frames[i], unwinder.phase)]
  /\ asStack' = [i \in DOMAIN frames' |-> Entry(frames'[i], unwinder'.phase)]
BY DEF asStack, Entry

\* s is a sequence of n entries, whatever they are.
OfLength(s, n) == s = [i \in 1 .. n |-> s[i]]

\* The stack, entry by entry.
LEMMA Stack ==
  ASSUME Inv
  PROVE  /\ depth \in Nat /\ Len(asStack) = depth /\ DOMAIN asStack = 1 .. depth
         /\ \A i \in 1 .. depth : asStack[i] = Entry(frames[i], unwinder.phase)
         /\ OfLength(asStack, depth)
<1>1. depth \in Nat /\ DOMAIN frames = 1 .. depth
  BY LenProperties DEF Inv, TypeInv, depth
<1> DEFINE s == [i \in 1 .. depth |-> Entry(frames[i], unwinder.phase)]
<1>2. asStack = s
  BY <1>1, StackEntries
<1>3. Len(s) = depth
  BY <1>1
<1> QED
  BY <1>1, <1>2, <1>3 DEF OfLength

\* The same after a step.
LEMMA NewStack ==
  ASSUME frames' \in Seq(Frame)
  PROVE  /\ depth' \in Nat /\ Len(asStack') = depth' /\ DOMAIN asStack' = 1 .. depth'
         /\ \A i \in 1 .. depth' : asStack'[i] = Entry(frames'[i], unwinder'.phase)
         /\ OfLength(asStack', depth')
<1>1. depth' \in Nat /\ DOMAIN frames' = 1 .. depth'
  BY LenProperties DEF depth
<1> DEFINE s == [i \in 1 .. depth' |-> Entry(frames'[i], unwinder'.phase)]
<1>2. asStack' = s
  BY <1>1, StackEntries
<1>3. Len(s) = depth'
  BY <1>1
<1> QED
  BY <1>1, <1>2, <1>3 DEF OfLength

\* The unwinder and the landing pad do not matter to what a suspended method,
\* or one that goes on after its call, is in.
LEMMA EntryOf ==
  ASSUME NEW f \in Frame, NEW p, NEW q, f.at \in {"body", "rescue"} \/ p = q, NEW n \in Nat
  PROVE  /\ Entry(f, p) = Entry(f, q)
         /\ Entry([f EXCEPT !.site = n], p) = Entry(f, q)
BY DEF Entry, Frame

\* A sequence of n entries is one over any set that has them.
LEMMA AsSequence ==
  ASSUME NEW s, NEW n \in Nat, OfLength(s, n), NEW S, \A i \in 1 .. n : s[i] \in S
  PROVE  s \in Seq(S) /\ Len(s) = n
<1>1. s \in Seq(S) /\ DOMAIN s = 1 .. n
  BY IsASeq DEF OfLength
<1> QED
  BY <1>1, LenProperties

\* Sequences that differ in the last entry.
LEMMA Replaced ==
  ASSUME NEW s, NEW t, NEW n \in Nat \ {0}, OfLength(s, n), OfLength(t, n),
         \A i \in 1 .. n - 1 : t[i] = s[i]
  PROVE  t = WithTop(s, t[n])
<1> DEFINE S == {s[i] : i \in 1 .. n} \cup {t[i] : i \in 1 .. n}
           r == SubSeq(s, 1, n - 1)
           u == Append(r, t[n])
<1>1. n \in Nat /\ n \in 1 .. n /\ \A i \in 1 .. n : s[i] \in S /\ t[i] \in S
  OBVIOUS
<1> HIDE DEF S
<1>2. s \in Seq(S) /\ Len(s) = n /\ t \in Seq(S) /\ Len(t) = n
  BY <1>1, AsSequence
<1>3. r \in Seq(S) /\ Len(r) = n - 1 /\ \A i \in 1 .. n - 1 : r[i] = s[i]
  BY <1>1, <1>2, SubSeqProperties
<1> HIDE DEF r
<1>4. u \in Seq(S) /\ Len(u) = n /\ u[n] = t[n] /\ \A i \in 1 .. n - 1 : u[i] = r[i]
  BY <1>1, <1>3, AppendProperties
<1> HIDE DEF u
<1>5. \A i \in 1 .. n : u[i] = t[i]
  <2>1. \A i \in 1 .. n : i \in 1 .. n - 1 \/ i = n
    OBVIOUS
  <2> QED
    BY <1>3, <1>4, <2>1
<1>6. u = t
  BY <1>1, <1>2, <1>4, <1>5, SeqEqual
<1> QED
  BY <1>2, <1>6 DEF WithTop, r, u

\* Sequences of which one has an entry more.
LEMMA Appended ==
  ASSUME NEW s, NEW t, NEW n \in Nat, OfLength(s, n), OfLength(t, n + 1),
         \A i \in 1 .. n : t[i] = s[i]
  PROVE  t = Append(s, t[n + 1])
<1> DEFINE S == {t[i] : i \in 1 .. n + 1}
           u == Append(s, t[n + 1])
<1>1. \A i \in 1 .. n + 1 : t[i] \in S
  OBVIOUS
<1>2. n + 1 \in Nat /\ n + 1 \in 1 .. n + 1 /\ \A i \in 1 .. n : i \in 1 .. n + 1
  OBVIOUS
<1> HIDE DEF S
<1>3. s \in Seq(S) /\ Len(s) = n
  BY <1>1, <1>2, AsSequence
<1>4. t \in Seq(S) /\ Len(t) = n + 1
  BY <1>1, <1>2, AsSequence
<1>5. u \in Seq(S) /\ Len(u) = n + 1 /\ u[n + 1] = t[n + 1] /\ \A i \in 1 .. n : u[i] = s[i]
  BY <1>1, <1>2, <1>3, AppendProperties
<1> HIDE DEF u
<1>6. \A i \in 1 .. n + 1 : u[i] = t[i]
  <2>1. \A i \in 1 .. n + 1 : i \in 1 .. n \/ i = n + 1
    OBVIOUS
  <2> QED
    BY <1>5, <2>1
<1>7. u = t
  BY <1>2, <1>4, <1>5, <1>6, SeqEqual
<1> QED
  BY <1>7 DEF u

\* Sequences of which one has an entry less.
LEMMA Removed ==
  ASSUME NEW s, NEW t, NEW n \in Nat \ {0}, OfLength(s, n), OfLength(t, n - 1),
         \A i \in 1 .. n - 1 : t[i] = s[i]
  PROVE  t = SubSeq(s, 1, Len(s) - 1)
<1> DEFINE S == {s[i] : i \in 1 .. n}
           r == SubSeq(s, 1, n - 1)
<1>1. \A i \in 1 .. n : s[i] \in S
  OBVIOUS
<1>2. n \in Nat /\ n - 1 \in Nat /\ \A i \in 1 .. n - 1 : i \in 1 .. n
  OBVIOUS
<1> HIDE DEF S
<1>3. s \in Seq(S) /\ Len(s) = n
  BY <1>1, <1>2, AsSequence
<1>4. \A i \in 1 .. n - 1 : t[i] \in S
  BY <1>1, <1>2
<1>5. t \in Seq(S) /\ Len(t) = n - 1
  BY <1>2, <1>4, AsSequence
<1>6. r \in Seq(S) /\ Len(r) = n - 1 /\ \A i \in 1 .. n - 1 : r[i] = s[i]
  BY <1>1, <1>2, <1>3, SubSeqProperties
<1> HIDE DEF r
<1>7. r = t
  BY <1>2, <1>5, <1>6, SeqEqual
<1> QED
  BY <1>3, <1>7 DEF r

\* What a step that only changes the newest method does to the stack.
LEMMA TopChange ==
  ASSUME Inv, RescueInv, Executing, NEW f \in Frame, SetTop(f)
  PROVE  /\ depth \in Nat \ {0} /\ depth' = depth /\ top' = f /\ top \in Frame
         /\ Len(asStack) = depth /\ asStack # <<>> /\ Searched(top)
         /\ \A i \in 1 .. depth - 1 : asStack'[i] = asStack[i]
         /\ asStack[depth] = Entry(top, "idle")
         /\ asStack'[depth] = Entry(f, unwinder'.phase)
         /\ asStack' = WithTop(asStack, Entry(f, unwinder'.phase))
         /\ SubSeq(asStack, 1, depth) = asStack
<1>1. /\ frames' \in Seq(Frame) /\ depth' = depth /\ top' = f
      /\ \A k \in 1 .. depth : frames'[k] = IF k = depth THEN f ELSE frames[k]
  BY NewTop
<1>2. depth \in Nat \ {0} /\ unwinder.phase = "idle" /\ top \in Frame
  BY TopFrame DEF Executing
<1>3. /\ Len(asStack) = depth /\ DOMAIN asStack = 1 .. depth
      /\ \A i \in 1 .. depth : asStack[i] = Entry(frames[i], "idle")
      /\ OfLength(asStack, depth)
  BY <1>2, Stack
<1>4. /\ \A i \in 1 .. depth : asStack'[i] = Entry(frames'[i], unwinder'.phase)
      /\ OfLength(asStack', depth)
  BY <1>1, NewStack
<1>5. ASSUME NEW i \in 1 .. depth - 1 PROVE asStack'[i] = asStack[i]
  <2>1. i \in 1 .. depth /\ i # depth
    BY <1>2
  <2>2. frames[i] \in Frame /\ frames[i].at \in {"body", "rescue"}
    BY <2>1, ElementOfSeq DEF Inv, TypeInv, RescueInv, depth
  <2>3. frames'[i] = frames[i]
    BY <1>1, <2>1
  <2>4. Entry(frames[i], unwinder'.phase) = Entry(frames[i], "idle")
    BY <2>2, EntryOf, 0 \in Nat
  <2> QED
    BY <1>3, <1>4, <2>1, <2>3, <2>4
<1>6. depth \in 1 .. depth
  BY <1>2
<1>7. asStack[depth] = Entry(top, "idle") /\ asStack'[depth] = Entry(f, unwinder'.phase)
  BY <1>1, <1>3, <1>4, <1>6 DEF top
<1>8. asStack' = WithTop(asStack, asStack'[depth])
  BY <1>2, <1>3, <1>4, <1>5, Replaced
<1>9. asStack # <<>>
  BY <1>2, <1>3
<1>10. Searched(top)
  BY <1>6 DEF RescueInv, top
<1>11. SubSeq(asStack, 1, depth) = asStack
  <2> DEFINE s == asStack
  <2>1. s = [i \in 1 .. depth |-> s[i]] /\ Len(s) = depth
    BY <1>3 DEF OfLength
  <2> HIDE DEF s
  <2>2. SubSeq(s, 1, depth) = s
    BY <1>2, <2>1
  <2> QED
    BY <2>2 DEF s
<1> QED
  BY <1>1, <1>2, <1>3, <1>5, <1>7, <1>8, <1>9, <1>10, <1>11

-----------------------------------------------------------------------------
(* The steps of Rescue.                                                    *)

\* Rescue's rules are RescueRules', instantiated.
LEMMA SameRules ==
  /\ Abstract!Exceptions = Exceptions /\ Abstract!NotRescuing = NotRescuing
  /\ Abstract!Method = [nest |-> <<>>, rescue |-> NotRescuing]
  /\ \A s, n, e : Abstract!Unwound(s, n, e) = Unwound(s, n, e)
<1>1. Abstract!Exceptions = Exceptions
  BY DEF Exceptions, Abstract!Exceptions, Class, Abstract!Class, ancestors,
         Abstract!ancestors, superclass, Abstract!superclass,
         pup_is_descendant_or_same, Abstract!pup_is_descendant_or_same
<1>2. \A b, c : Abstract!pup_is_descendant_or_same(b, c) = pup_is_descendant_or_same(b, c)
  BY DEF Class, Abstract!Class, ancestors, Abstract!ancestors, superclass,
         Abstract!superclass, pup_is_descendant_or_same, Abstract!pup_is_descendant_or_same
<1>3. \A b, c : Abstract!Hits(b, c) = Hits(b, c)
  BY <1>2 DEF Hits, Abstract!Hits, Positions, Abstract!Positions, Matches, Abstract!Matches,
              TypeAt, Abstract!TypeAt, Undefined, Abstract!Undefined
<1>4. Abstract!firstHit = firstHit
  <2> DEFINE Pick(H) == IF H = {} THEN Nowhere
                        ELSE CHOOSE p \in H : \A q \in H : ~Precedes(q, p)
  <2>1. Abstract!firstHit =
          [b \in Begins |-> [c \in Abstract!Exceptions |-> Pick(Abstract!Hits(b, c))]]
    BY DEF Abstract!firstHit, Precedes, Abstract!Precedes, Nowhere, Abstract!Nowhere
  <2>2. firstHit = [b \in Begins |-> [c \in Exceptions |-> Pick(Hits(b, c))]]
    BY DEF firstHit
  <2> HIDE DEF Pick
  <2> QED
    BY <1>1, <1>3, <2>1, <2>2
<1>5. ASSUME NEW s, NEW n, NEW e PROVE Abstract!Catcher(s, n, e) = Catcher(s, n, e)
  BY <1>1, <1>4 DEF Catcher, Abstract!Catcher, TypeAt, Abstract!TypeAt, Undefined,
     Abstract!Undefined, Nowhere, Abstract!Nowhere, NotRescuing, Abstract!NotRescuing
<1>6. Abstract!NotRescuing = NotRescuing /\ Abstract!Method = [nest |-> <<>>, rescue |-> NotRescuing]
  BY DEF NotRescuing, Abstract!NotRescuing, Abstract!Method
<1>7. ASSUME NEW s, NEW n, NEW e PROVE Abstract!Unwound(s, n, e) = Unwound(s, n, e)
  BY <1>5 DEF Unwound, Abstract!Unwound
<1> QED
  BY <1>1, <1>6, <1>7

\* The moves of Rescue's Successors: from s, whose newest method is p, to t.
Enters(s, p, t)  == p.rescue = NotRescuing
                    /\ \E b \in Begins : t = WithTop(s, [p EXCEPT !.nest = Append(@, b)])
Leaves(s, p, t)  == /\ p.rescue = NotRescuing /\ p.nest # <<>>
                    /\ t = WithTop(s, [p EXCEPT !.nest = Outer(p.nest)])
Rescued(s, p, t) == p.rescue # NotRescuing /\ t = WithTop(s, [p EXCEPT !.rescue = NotRescuing])
Calls(s, p, t)   == /\ p.rescue = NotRescuing \/ p.nest = <<>>
                    /\ t = Append(s, [nest |-> <<>>, rescue |-> NotRescuing])
Returns(s, p, t) == /\ p.rescue = NotRescuing /\ p.nest = <<>>
                    /\ t = SubSeq(s, 1, Len(s) - 1)
Throws(s, p, t)  == /\ p.rescue = NotRescuing \/ p.nest = <<>>
                    /\ \E e \in Exceptions : t = Unwound(s, Len(s), e)
Fails(s, p, t)   == t = Unwound(s, Len(s) - 1, "RuntimeError")

\* Each is a step of Rescue.
LEMMA RescueMoves ==
  ASSUME NEW s, s # <<>>, NEW t, NEW p, p = s[Len(s)],
         \/ Enters(s, p, t) \/ Leaves(s, p, t) \/ Rescued(s, p, t) \/ Calls(s, p, t)
         \/ Returns(s, p, t) \/ Throws(s, p, t) \/ Fails(s, p, t)
  PROVE  t \in Abstract!Successors(s)
<1>1. CASE Enters(s, p, t)
  BY <1>1, SameRules DEF Abstract!Successors, WithTop, Enters
<1>2. CASE Leaves(s, p, t)
  BY <1>2, SameRules DEF Abstract!Successors, WithTop, Outer, Leaves
<1>3. CASE Rescued(s, p, t)
  BY <1>3, SameRules DEF Abstract!Successors, WithTop, Rescued
<1>4. CASE Calls(s, p, t)
  BY <1>4, SameRules DEF Abstract!Successors, Calls
<1>5. CASE Returns(s, p, t)
  BY <1>5, SameRules DEF Abstract!Successors, Returns
<1>6. CASE Throws(s, p, t)
  BY <1>6, SameRules DEF Abstract!Successors, Throws
<1>7. CASE Fails(s, p, t)
  BY <1>7, SameRules DEF Abstract!Successors, Fails
<1> QED
  BY <1>1, <1>2, <1>3, <1>4, <1>5, <1>6, <1>7

\* The steps of Rescue on the mapped stack.
Simulated == settled # <<>> /\ settled' \in Abstract!Successors(settled)

\* Where an exception is going, by where it is.
LEMMA SettledIs ==
  /\ status # "runs" => settled = <<>>
  /\ Executing /\ top.at \in {"body", "rescue"} => settled = asStack
  /\ Executing /\ top.at = "tests" => settled = Unwound(asStack, depth, top.excep)
  /\ Executing /\ top.at = "rethrow" => settled = Unwound(asStack, depth - 1, top.excep)
  /\ status = "runs" /\ unwinder.phase # "idle" =>
       settled = Unwound(asStack, IF top.site = 0 THEN depth - 1 ELSE depth, unwinder.excep)
BY DEF settled, Executing

\* The same after a step.
LEMMA SettledNew ==
  /\ status' # "runs" => settled' = <<>>
  /\ Executing' /\ top'.at \in {"body", "rescue"} => settled' = asStack'
  /\ Executing' /\ top'.at = "tests" => settled' = Unwound(asStack', depth', top'.excep)
  /\ Executing' /\ top'.at = "rethrow" => settled' = Unwound(asStack', depth' - 1, top'.excep)
  /\ status' = "runs" /\ unwinder'.phase # "idle" =>
       settled' = Unwound(asStack', IF top'.site = 0 THEN depth' - 1 ELSE depth', unwinder'.excep)
BY DEF settled, Executing

\* Taking off what was put on.
LEMMA FrontOfAppend ==
  ASSUME NEW S, NEW s \in Seq(S), NEW x \in S
  PROVE  /\ Append(s, x) # <<>> /\ Append(s, x)[Len(Append(s, x))] = x
         /\ Outer(Append(s, x)) = s
<1> DEFINE u == Append(s, x)
<1>1. /\ u \in Seq(S) /\ Len(u) = Len(s) + 1 /\ Len(s) \in Nat /\ u[Len(s) + 1] = x
      /\ \A i \in 1 .. Len(s) : u[i] = s[i]
  BY AppendProperties, LenProperties
<1> HIDE DEF u
<1>2. u # <<>>
  BY <1>1, EmptySeq
<1> DEFINE r == SubSeq(u, 1, Len(s))
<1>3. r \in Seq(S) /\ Len(r) = Len(s) /\ \A i \in 1 .. Len(s) : r[i] = u[i]
  <2>1. \A i \in 1 .. Len(s) : u[i] \in S
    BY <1>1, ElementOfSeq
  <2> QED
    BY <1>1, <2>1, SubSeqProperties
<1> HIDE DEF r
<1>4. r = s
  BY <1>1, <1>3, SeqEqual
<1>5. Len(u) - 1 = Len(s)
  BY <1>1
<1> QED
  BY <1>1, <1>2, <1>4, <1>5 DEF Outer, r, u

-----------------------------------------------------------------------------
(* The steps of the program are steps of Rescue.                           *)

\* Entering the body of a begin statement.
LEMMA BeginSimulates ==
  ASSUME Inv, RescueInv, NEW b \in Begins, Begin(b) PROVE Simulated
<1> DEFINE f == [top EXCEPT !.nest = Append(@, b)]
<1>1. Executing /\ top.at = "body" /\ SetTop(f) /\ status' = status /\ unwinder' = unwinder
  BY DEF Begin
<1>2. top \in Frame /\ top.nest \in Seq(Begins)
  BY <1>1, TopFrame
<1>3. f \in Frame /\ f.at = "body" /\ f.nest = Append(top.nest, b)
  BY <1>1, <1>2, AppendProperties DEF Frame
<1> HIDE DEF f
<1>4. /\ depth \in Nat \ {0} /\ top' = f /\ Len(asStack) = depth /\ asStack # <<>>
      /\ asStack[depth] = Entry(top, "idle")
      /\ asStack' = WithTop(asStack, Entry(f, unwinder'.phase))
  BY <1>1, <1>3, TopChange
<1>5. /\ Entry(top, "idle") = [nest |-> top.nest, rescue |-> NotRescuing]
      /\ Entry(f, unwinder'.phase) = [nest |-> Append(top.nest, b), rescue |-> NotRescuing]
  BY <1>1, <1>3 DEF Entry
<1>6. settled = asStack /\ settled' = asStack'
  BY <1>1, <1>3, <1>4, SettledIs, SettledNew DEF Executing
<1>7. Entry(f, unwinder'.phase) = [asStack[depth] EXCEPT !.nest = Append(@, b)]
  <2> DEFINE nest == top.nest
  <2>1. /\ asStack[depth] = [nest |-> nest, rescue |-> NotRescuing]
        /\ Entry(f, unwinder'.phase) = [nest |-> Append(nest, b), rescue |-> NotRescuing]
    BY <1>4, <1>5
  <2> HIDE DEF nest
  <2>2. [[nest |-> nest, rescue |-> NotRescuing] EXCEPT !.nest = Append(@, b)] =
          [nest |-> Append(nest, b), rescue |-> NotRescuing]
    OBVIOUS
  <2> QED
    BY <2>1, <2>2
<1>8. asStack[depth].rescue = NotRescuing
  BY <1>4, <1>5
<1> QED
  BY <1>4, <1>6, <1>7, <1>8, RescueMoves DEF Simulated, Enters

\* Leaving it.
LEMMA EndBeginSimulates ==
  ASSUME Inv, RescueInv, EndBegin PROVE Simulated
<1> DEFINE f == [top EXCEPT !.nest = SubSeq(@, 1, Len(@) - 1)]
<1>1. /\ Executing /\ top.at = "body" /\ SetTop(f) /\ status' = status /\ unwinder' = unwinder
      /\ top.nest # <<>>
  BY DEF EndBegin
<1>2. top \in Frame /\ top.nest \in Seq(Begins) /\ Len(top.nest) \in Nat
  BY <1>1, TopFrame
<1>3. f \in Frame /\ f.at = "body" /\ f.nest = Outer(top.nest)
  <2>1. SubSeq(top.nest, 1, Len(top.nest) - 1) \in Seq(Begins)
    BY <1>2, SubSeqProperties
  <2> QED
    BY <1>1, <1>2, <2>1 DEF Frame, Outer
<1> HIDE DEF f
<1>4. /\ depth \in Nat \ {0} /\ top' = f /\ Len(asStack) = depth /\ asStack # <<>>
      /\ asStack[depth] = Entry(top, "idle")
      /\ asStack' = WithTop(asStack, Entry(f, unwinder'.phase))
  BY <1>1, <1>3, TopChange
<1>5. /\ Entry(top, "idle") = [nest |-> top.nest, rescue |-> NotRescuing]
      /\ Entry(f, unwinder'.phase) = [nest |-> Outer(top.nest), rescue |-> NotRescuing]
  BY <1>1, <1>3 DEF Entry
<1>6. settled = asStack /\ settled' = asStack'
  BY <1>1, <1>3, <1>4, SettledIs, SettledNew DEF Executing
<1>7. Entry(f, unwinder'.phase) = [asStack[depth] EXCEPT !.nest = Outer(asStack[depth].nest)]
  BY <1>4, <1>5
<1>8. asStack[depth].rescue = NotRescuing /\ asStack[depth].nest # <<>>
  BY <1>1, <1>4, <1>5
<1> QED
  BY <1>4, <1>6, <1>7, <1>8, RescueMoves DEF Simulated, Leaves

\* Leaving a rescue clause.
LEMMA EndRescueSimulates ==
  ASSUME Inv, RescueInv, EndRescue PROVE Simulated
<1> DEFINE f == [Body EXCEPT !.nest = top.nest]
<1>1. Executing /\ top.at = "rescue" /\ SetTop(f) /\ status' = status /\ unwinder' = unwinder
  BY DEF EndRescue
<1>2. top \in Frame
  BY <1>1, TopFrame
<1>3. f \in Frame /\ f.at = "body" /\ f.nest = top.nest
  BY <1>1, <1>2 DEF Frame, Body
<1> HIDE DEF f
<1>4. /\ depth \in Nat \ {0} /\ top' = f /\ Len(asStack) = depth /\ asStack # <<>>
      /\ Searched(top) /\ asStack[depth] = Entry(top, "idle")
      /\ asStack' = WithTop(asStack, Entry(f, unwinder'.phase))
  BY <1>1, <1>3, TopChange
<1>5. /\ Entry(top, "idle") =
           [nest |-> top.nest, rescue |-> [clause |-> top.pos[1], excep |-> top.excep]]
      /\ Entry(f, unwinder'.phase) = [nest |-> top.nest, rescue |-> NotRescuing]
  BY <1>1, <1>3 DEF Entry
<1>6. settled = asStack /\ settled' = asStack'
  BY <1>1, <1>3, <1>4, SettledIs, SettledNew DEF Executing
<1>7. Entry(f, unwinder'.phase) = [asStack[depth] EXCEPT !.rescue = NotRescuing]
  BY <1>4, <1>5
<1>8. asStack[depth].rescue # NotRescuing
  <2>1. top.excep \in Exceptions
    BY <1>1, <1>4 DEF Searched
  <2>2. asStack[depth].rescue.excep # "none"
    BY <1>4, <1>5, <2>1, ExceptionClasses
  <2> QED
    BY <2>2 DEF NotRescuing
<1> QED
  BY <1>4, <1>6, <1>7, <1>8, RescueMoves DEF Simulated, Rescued

\* What a method is in when its code can invoke another.
LEMMA Invoking ==
  ASSUME Inv, RescueInv, CanInvoke
  PROVE  /\ Executing /\ top.at \in {"body", "rescue"} /\ settled = asStack
         /\ Entry(top, "idle").rescue = NotRescuing \/ Entry(top, "idle").nest = <<>>
         /\ Entry(top, "idle").nest = top.nest
<1>1. Executing /\ top.at \in {"body", "rescue"} /\ (top.at = "rescue" => top.nest = <<>>)
  BY DEF CanInvoke
<1> QED
  BY <1>1, SettledIs DEF Entry

\* A call puts a method on the stack.
LEMMA InvokeSimulates ==
  ASSUME Inv, RescueInv, InvokeMethod PROVE Simulated
<1>1. /\ frames' \in Seq(Frame) /\ depth' = depth + 1
      /\ \A k \in 1 .. depth - 1 : frames'[k] = frames[k]
      /\ frames'[depth] = [top EXCEPT !.site = Len(top.nest)]
      /\ frames'[depth + 1] = Body
  BY Called
<1>2. /\ CanInvoke /\ status' = status /\ unwinder' = unwinder /\ unwinder.phase = "idle"
      /\ status = "runs" /\ Executing
  BY DEF InvokeMethod, CanInvoke, Executing
<1>3. depth \in Nat \ {0} /\ top \in Frame /\ Len(top.nest) \in Nat
  BY <1>2, TopFrame
<1>4. /\ Len(asStack) = depth /\ OfLength(asStack, depth)
      /\ \A i \in 1 .. depth : asStack[i] = Entry(frames[i], "idle")
  BY <1>2, Stack
<1>5. /\ OfLength(asStack', depth + 1)
      /\ \A i \in 1 .. depth + 1 : asStack'[i] = Entry(frames'[i], "idle")
  BY <1>1, <1>2, NewStack
<1>6. ASSUME NEW i \in 1 .. depth PROVE asStack'[i] = asStack[i]
  <2>1. i \in 1 .. depth + 1
    BY <1>3
  <2>2. CASE i = depth
    <3>1. Entry([top EXCEPT !.site = Len(top.nest)], "idle") = Entry(top, "idle")
      BY <1>3, EntryOf
    <3> QED
      BY <1>1, <1>4, <1>5, <2>1, <2>2, <3>1 DEF top
  <2>3. CASE i # depth
    <3>1. i \in 1 .. depth - 1
      BY <1>3, <2>3
    <3> QED
      BY <1>1, <1>4, <1>5, <2>1, <3>1
  <2> QED
    BY <2>2, <2>3
<1>7. asStack' = Append(asStack, asStack'[depth + 1])
  BY <1>3, <1>4, <1>5, <1>6, Appended
<1>8. asStack'[depth + 1] = [nest |-> <<>>, rescue |-> NotRescuing]
  <2>1. depth + 1 \in 1 .. depth + 1
    BY <1>3
  <2>2. Entry(Body, "idle") = [nest |-> <<>>, rescue |-> NotRescuing]
    BY DEF Entry, Body
  <2> QED
    BY <1>1, <1>5, <2>1, <2>2
<1>9. settled' = asStack'
  <2>1. top' = Body
    BY <1>1 DEF top, depth
  <2> QED
    BY <1>2, <2>1, SettledNew DEF Executing, Body
<1>10. /\ settled = asStack /\ asStack # <<>>
       /\ asStack[depth].rescue = NotRescuing \/ asStack[depth].nest = <<>>
  <2>1. asStack[depth] = Entry(top, "idle")
    BY <1>3, <1>4 DEF top
  <2> QED
    BY <1>2, <1>3, <1>4, <2>1, Invoking
<1> QED
  BY <1>4, <1>7, <1>8, <1>9, <1>10, RescueMoves DEF Simulated, Calls

\* A return takes one off, and the last one ends the program.
LEMMA ReturnSimulates ==
  ASSUME Inv, RescueInv, Return PROVE Simulated
<1>1. /\ frames' \in Seq(Frame) /\ depth' = depth - 1
      /\ \A k \in 1 .. depth - 2 : frames'[k] = frames[k]
      /\ depth > 1 => frames'[depth - 1] = [frames[depth - 1] EXCEPT !.site = 0]
  BY Returned
<1>2. /\ Executing /\ top.at = "body" /\ top.nest = <<>> /\ unwinder' = unwinder
      /\ unwinder.phase = "idle" /\ status = "runs"
      /\ status' = IF depth = 1 THEN "returned" ELSE status
  BY DEF Return, Executing
<1>3. depth \in Nat \ {0} /\ top \in Frame
  BY <1>2, TopFrame
<1>4. /\ Len(asStack) = depth /\ OfLength(asStack, depth)
      /\ \A i \in 1 .. depth : asStack[i] = Entry(frames[i], "idle")
  BY <1>2, Stack
<1>5. /\ OfLength(asStack', depth - 1)
      /\ \A i \in 1 .. depth - 1 : asStack'[i] = Entry(frames'[i], "idle")
  BY <1>1, <1>2, NewStack
<1>6. ASSUME NEW i \in 1 .. depth - 1 PROVE asStack'[i] = asStack[i]
  <2>1. i \in 1 .. depth
    BY <1>3
  <2>2. CASE i = depth - 1
    <3>1. frames[i] \in Frame
      BY <2>1, ElementOfSeq DEF Inv, TypeInv, depth
    <3>2. Entry([frames[i] EXCEPT !.site = 0], "idle") = Entry(frames[i], "idle")
      <4>1. 0 \in Nat
        OBVIOUS
      <4> QED
        BY <3>1, <4>1, EntryOf
    <3>3. depth > 1
      BY <1>3, <2>2
    <3> QED
      BY <1>1, <1>4, <1>5, <2>1, <2>2, <3>2, <3>3
  <2>3. CASE i # depth - 1
    <3>1. i \in 1 .. depth - 2
      BY <1>3, <2>3
    <3> QED
      BY <1>1, <1>4, <1>5, <2>1, <3>1
  <2> QED
    BY <2>2, <2>3
<1>7. asStack' = SubSeq(asStack, 1, Len(asStack) - 1)
  BY <1>3, <1>4, <1>5, <1>6, Removed
<1>8. settled' = asStack'
  <2>1. CASE depth = 1
    <3>1. settled' = <<>>
      BY <1>2, <2>1, SettledNew
    <3>2. asStack' = <<>>
      <4>1. asStack' = [i \in 1 .. 0 |-> asStack'[i]]
        BY <1>5, <2>1 DEF OfLength
      <4> QED
        BY <4>1
    <3> QED
      BY <3>1, <3>2
  <2>2. CASE depth # 1
    <3>1. depth > 1 /\ depth - 1 \in 1 .. depth - 1 /\ depth - 1 \in 1 .. depth
      BY <1>3, <2>2
    <3>2. frames[depth - 1] \in Frame /\ frames[depth - 1].at \in {"body", "rescue"}
      BY <3>1, ElementOfSeq DEF Inv, TypeInv, RescueInv, depth
    <3>3. top' = [frames[depth - 1] EXCEPT !.site = 0]
      BY <1>1, <3>1 DEF top
    <3>4. top'.at \in {"body", "rescue"}
      BY <3>2, <3>3 DEF Frame
    <3> QED
      BY <1>2, <2>2, <3>4, SettledNew DEF Executing
  <2> QED
    BY <2>1, <2>2
<1>9. /\ settled = asStack /\ asStack # <<>>
      /\ asStack[depth].rescue = NotRescuing /\ asStack[depth].nest = <<>>
  <2>1. asStack[depth] = Entry(top, "idle")
    BY <1>3, <1>4 DEF top
  <2>2. Entry(top, "idle").rescue = NotRescuing /\ Entry(top, "idle").nest = <<>>
    BY <1>2 DEF Entry
  <2> QED
    BY <1>2, <1>3, <1>4, <2>1, <2>2, SettledIs
<1> QED
  BY <1>4, <1>7, <1>8, <1>9, RescueMoves DEF Simulated, Returns

\* An exception raised by a method that was called: whether or not the call has
\* a landing pad, it comes to the begin statement the code is in.
LEMMA RaiseInMethodSimulates ==
  ASSUME Inv, RescueInv, NEW arg \in Class, RaiseInMethod(arg) PROVE Simulated
<1> DEFINE e == raised(arg)
           n == Len(top.nest)
           f == [top EXCEPT !.site = n]
<1>1. /\ CanInvoke /\ SetTop(f) /\ status' = status /\ unwinder'.phase = "search"
      /\ unwinder'.excep = e /\ status = "runs"
  BY DEF RaiseInMethod, Unwind_RaiseException, landingpad, CanInvoke, Executing
<1>2. e \in Exceptions
  BY ExceptionClasses
<1>3. Executing /\ top \in Frame /\ n \in Nat /\ top.nest \in Seq(Begins)
  BY <1>1, TopFrame DEF CanInvoke
<1>4. f \in Frame /\ f.site = n /\ Searched(top)
  <2>1. f \in Frame /\ f.site = n /\ (Searched(f) <=> Searched(top))
    BY <1>3 DEF Frame, Searched
  <2> QED
    BY <1>1, <1>3, <2>1, TopChange
<1> HIDE DEF e, n
<1>5. /\ depth \in Nat \ {0} /\ depth' = depth /\ top' = f /\ Len(asStack) = depth
      /\ asStack # <<>> /\ asStack[depth] = Entry(top, "idle")
      /\ \A i \in 1 .. depth - 1 : asStack'[i] = asStack[i]
      /\ asStack'[depth] = Entry(f, unwinder'.phase)
  BY <1>1, <1>3, <1>4, TopChange
<1>6. /\ top.at \in {"body", "rescue"} /\ settled = asStack
      /\ asStack[depth].rescue = NotRescuing \/ asStack[depth].nest = <<>>
      /\ asStack[depth].nest = top.nest
  BY <1>1, <1>5, Invoking
<1>7. Entry(f, unwinder'.phase) = Entry(top, "idle")
  BY <1>3, <1>6, EntryOf
<1> HIDE DEF f
<1>8. settled' = Unwound(asStack', IF n = 0 THEN depth - 1 ELSE depth, e)
  BY <1>1, <1>4, <1>5, SettledNew
<1>9. settled' = Unwound(asStack, depth, e)
  <2>1. CASE n = 0
    <3>1. depth - 1 \in Nat /\ depth - 1 \in 0 .. depth
      BY <1>5
    <3>3. Unwound(asStack', depth - 1, e) = Unwound(asStack, depth - 1, e)
      BY <1>2, <1>5, UnwoundBelow
    <3>4. top.nest = <<>>
      BY <1>3, <2>1, EmptySeq DEF n
    <3>5. \A i \in depth - 1 + 1 .. depth : asStack[i].nest = <<>>
      BY <1>5, <1>6, <3>4
    <3>6. Unwound(asStack, depth, e) = Unwound(asStack, depth - 1, e)
      BY <1>2, <1>5, <3>1, <3>5, UnwoundPasses
    <3> QED
      BY <1>8, <2>1, <3>3, <3>6
  <2>2. CASE n # 0
    <3>1. Unwound(asStack', depth, e) = Unwound(asStack, depth, e)
      BY <1>2, <1>5, <1>7, UnwoundSame
    <3> QED
      BY <1>8, <2>2, <3>1
  <2> QED
    BY <2>1, <2>2
<1> QED
  BY <1>2, <1>5, <1>6, <1>9, RescueMoves DEF Simulated, Throws

\* An exception that is raised with a plain call goes to the caller: below
\* the newest method the stack is as it was.
LEMMA RaisedPlainly ==
  ASSUME Inv, RescueInv, Executing, NEW e \in Exceptions, NEW caller,
         Unwind_RaiseException(e, 0, caller)
  PROVE  settled' = Unwound(asStack, depth - 1, e)
<1> DEFINE f == [top EXCEPT !.site = 0]
<1>1. /\ SetTop(f) /\ status' = status /\ status = "runs"
      /\ unwinder'.phase = "search" /\ unwinder'.excep = e
  BY DEF Unwind_RaiseException, Executing
<1>2. f \in Frame /\ f.site = 0
  BY TopFrame DEF Frame
<1>3. /\ depth \in Nat \ {0} /\ depth' = depth /\ top' = f
      /\ \A i \in 1 .. depth - 1 : asStack'[i] = asStack[i]
  BY <1>1, <1>2, TopChange
<1> HIDE DEF f
<1>4. settled' = Unwound(asStack', depth - 1, e)
  BY <1>1, <1>2, <1>3, SettledNew
<1>5. Unwound(asStack', depth - 1, e) = Unwound(asStack, depth - 1, e)
  BY <1>3, UnwoundBelow
<1> QED
  BY <1>4, <1>5

\* An unknown constant in the code of a method: the exception goes to the caller.
LEMMA RaiseInBuiltinSimulates ==
  ASSUME Inv, RescueInv, RaiseInBuiltin PROVE Simulated
<1>1. /\ Executing /\ top.at \in {"body", "rescue"}
      /\ Unwind_RaiseException("RuntimeError", 0, "pup_raise")
  BY DEF RaiseInBuiltin
<1>2. settled' = Unwound(asStack, depth - 1, "RuntimeError") /\ settled = asStack
  BY <1>1, RaisedPlainly, ExceptionClasses, SettledIs
<1>3. Len(asStack) = depth /\ asStack # <<>>
  <2>1. Len(asStack) = depth /\ depth \in Nat \ {0} /\ DOMAIN asStack = 1 .. depth
    BY <1>1, TopFrame, Stack
  <2> QED
    BY <2>1
<1> QED
  BY <1>2, <1>3, RescueMoves DEF Simulated, Fails

-----------------------------------------------------------------------------
(* The steps of the unwinder and of the landing pads change nothing.       *)

\* The top of the stack while a landing pad tests types.
LEMMA Testing ==
  ASSUME Inv, RescueInv, Executing, top.at = "tests"
  PROVE  /\ asStack[depth].nest # <<>> /\ Outer(asStack[depth].nest) = top.nest
         /\ asStack[depth].nest[Len(asStack[depth].nest)] = top.begin
         /\ top.excep \in Exceptions /\ top.begin \in Begins /\ top.pos \in Positions(top.begin)
         /\ depth \in Nat \ {0} /\ Len(asStack) = depth
         /\ \A q \in Hits(top.begin, top.excep) : ~Precedes(q, top.pos)
<1>1. top \in Frame /\ TestsInRange(top) /\ depth \in Nat \ {0} /\ top.nest \in Seq(Begins)
      /\ unwinder.phase = "idle"
  BY TopFrame DEF Executing
<1>2. depth \in 1 .. depth
  BY <1>1
<1>3. Searched(top) /\ asStack[depth] = Entry(top, "idle") /\ Len(asStack) = depth
  BY <1>1, <1>2, Stack DEF RescueInv, top
<1>4. asStack[depth].nest = Append(top.nest, top.begin)
  BY <1>3 DEF Entry
<1>5. top.begin \in Begins /\ top.pos \in Positions(top.begin) /\ top.excep \in Exceptions
  BY <1>1, <1>3 DEF TestsInRange, Searched
<1>6. /\ Append(top.nest, top.begin) # <<>> /\ Outer(Append(top.nest, top.begin)) = top.nest
      /\ Append(top.nest, top.begin)[Len(Append(top.nest, top.begin))] = top.begin
  BY <1>1, <1>5, FrontOfAppend
<1>7. \A q \in Hits(top.begin, top.excep) : ~Precedes(q, top.pos)
  BY <1>3 DEF Searched
<1> QED
  BY <1>1, <1>3, <1>4, <1>5, <1>6, <1>7

\* A type test that raises an exception itself: Rescue has sent that exception
\* to the caller from the start.
LEMMA TestRaisesStutters ==
  ASSUME Inv, RescueInv, TestRaises PROVE settled' = settled
<1>1. /\ Executing /\ top.at = "tests" /\ TypeAt(top.begin, top.pos) = Undefined
      /\ Unwind_RaiseException("RuntimeError", 0, "pup_raise")
  BY DEF TestRaises, TestType
<1>2. settled' = Unwound(asStack, depth - 1, "RuntimeError")
  BY <1>1, RaisedPlainly, ExceptionClasses
<1>3. settled = Unwound(asStack, depth, top.excep)
  BY <1>1, SettledIs
<1>4. firstHit[top.begin][top.excep] = top.pos /\ top.pos # Nowhere
  <2>1. top.pos \in Hits(top.begin, top.excep)
    BY <1>1, Testing DEF Hits
  <2> QED
    BY <1>1, <2>1, Testing, FirstHit
<1>5. Unwound(asStack, depth, top.excep) = Unwound(asStack, depth - 1, "RuntimeError")
  <2>1. /\ firstHit[top.begin][top.excep] # Nowhere
        /\ TypeAt(top.begin, firstHit[top.begin][top.excep]) = Undefined
    BY <1>1, <1>4
  <2>2. /\ asStack[depth].nest # <<>> /\ top.excep \in Exceptions /\ depth \in Nat \ {0}
        /\ asStack[depth].nest[Len(asStack[depth].nest)] = top.begin
    BY <1>1, Testing
  <2> QED
    BY <2>1, <2>2, UnwoundInto
<1> QED
  BY <1>2, <1>3, <1>5

\* A rethrow goes on to where the exception was going.
LEMMA RethrowStutters ==
  ASSUME Inv, RescueInv, Rethrow PROVE settled' = settled
<1>1. /\ Executing /\ top.at = "rethrow"
      /\ Unwind_RaiseException(top.excep, 0, "pup_rethrow_uncaught_exception")
  BY DEF Rethrow
<1>2. top.excep \in Exceptions
  <2>1. depth \in 1 .. depth
    BY <1>1, TopFrame
  <2> QED
    BY <1>1, <2>1 DEF RescueInv, Searched, top
<1> QED
  BY <1>1, <1>2, RaisedPlainly, SettledIs

\* The first type that matches: the clause is the one that Rescue names.
LEMMA TestMatchesStutters ==
  ASSUME Inv, RescueInv, TestMatches PROVE settled' = settled
<1> DEFINE f == [top EXCEPT !.at = "rescue"]
           p == top.pos
           e == top.excep
<1>1. /\ Executing /\ top.at = "tests" /\ TypeAt(top.begin, p) # Undefined
      /\ pup_is_descendant_or_same(TypeAt(top.begin, p), e)
      /\ SetTop(f) /\ status' = status /\ unwinder' = unwinder
  BY DEF TestMatches, TestType
<1>2. f \in Frame /\ f.at = "rescue" /\ f.nest = top.nest /\ f.pos = p /\ f.excep = e
  BY <1>1, TopFrame DEF Frame
<1> HIDE DEF f, p, e
<1>3. /\ depth \in Nat \ {0} /\ depth' = depth /\ top' = f /\ Len(asStack) = depth
      /\ asStack' = WithTop(asStack, Entry(f, unwinder'.phase))
      /\ SubSeq(asStack, 1, depth) = asStack
  BY <1>1, <1>2, TopChange
<1>4. settled = Unwound(asStack, depth, e)
  BY <1>1, SettledIs DEF e
<1>5. settled' = asStack'
  BY <1>1, <1>2, <1>3, SettledNew DEF Executing
<1>6. firstHit[top.begin][e] = p /\ p # Nowhere
  <2>1. p \in Hits(top.begin, e)
    BY <1>1, Testing DEF Hits, Matches, p
  <2> QED
    BY <1>1, <2>1, Testing, FirstHit DEF p, e
<1>7. Unwound(asStack, depth, e) =
        WithTop(SubSeq(asStack, 1, depth),
            [nest |-> top.nest, rescue |-> [clause |-> p[1], excep |-> e]])
  <2>1. e \in Exceptions
    BY <1>1, Testing DEF e
  <2> QED
    BY <1>1, <1>6, <2>1, Testing, UnwoundInto
<1>8. Entry(f, unwinder'.phase) =
        [nest |-> top.nest, rescue |-> [clause |-> p[1], excep |-> e]]
  BY <1>2 DEF Entry
<1> QED
  BY <1>3, <1>4, <1>5, <1>7, <1>8

\* A type that does not match, the last one of all included.
LEMMA TestFailsStutters ==
  ASSUME Inv, RescueInv, TestFails PROVE settled' = settled
<1> DEFINE f == NextTest
           e == top.excep
<1>1. /\ Executing /\ top.at = "tests" /\ SetTop(f) /\ status' = status /\ unwinder' = unwinder
      /\ top.pos \notin Hits(top.begin, e) /\ unwinder.phase = "idle"
  BY DEF TestFails, TestType, Hits, Matches, Executing
<1>2. e \in Exceptions /\ depth \in Nat \ {0}
  BY <1>1, Testing
<1>3. top \in Frame /\ TestsInRange(top) /\ Searched(top)
  <2>1. depth \in 1 .. depth
    BY <1>2
  <2> QED
    BY <1>1, <2>1, TopFrame DEF RescueInv, top
<1>4. /\ f \in Frame /\ f.at \in {"tests", "rethrow"} /\ f.nest = top.nest
      /\ f.begin = top.begin /\ f.excep = e
      /\ f.at = "rethrow" => Hits(top.begin, e) = {}
  BY <1>1, <1>3, NextInRange, NextSearched
<1> HIDE DEF f, e
<1>5. /\ depth' = depth /\ top' = f /\ asStack[depth] = Entry(top, "idle")
      /\ \A i \in 1 .. depth - 1 : asStack'[i] = asStack[i]
      /\ asStack'[depth] = Entry(f, "idle")
  BY <1>1, <1>4, TopChange
<1>6. settled = Unwound(asStack, depth, e)
  BY <1>1, SettledIs DEF e
<1>7. CASE f.at = "tests"
  <2>1. settled' = Unwound(asStack', depth, e)
    BY <1>1, <1>4, <1>5, <1>7, SettledNew DEF Executing
  <2>2. asStack'[depth].nest = asStack[depth].nest
    BY <1>1, <1>4, <1>5, <1>7 DEF Entry
  <2>3. Unwound(asStack', depth, e) = Unwound(asStack, depth, e)
    BY <1>2, <1>5, <2>2, UnwoundSame
  <2> QED
    BY <1>6, <2>1, <2>3
<1>8. CASE f.at = "rethrow"
  <2>1. settled' = Unwound(asStack', depth - 1, e)
    BY <1>1, <1>4, <1>5, <1>8, SettledNew DEF Executing
  <2>3. Unwound(asStack', depth - 1, e) = Unwound(asStack, depth - 1, e)
    BY <1>2, <1>5, UnwoundBelow
  <2>4. firstHit[top.begin][e] = Nowhere
    BY <1>1, <1>2, <1>4, <1>8, Testing, FirstHit
  <2>5. Unwound(asStack, depth, e) = Unwound(asStack, depth - 1, e)
    BY <1>1, <1>2, <2>4, Testing, UnwoundInto
  <2> QED
    BY <1>6, <2>1, <2>3, <2>5
<1> QED
  BY <1>4, <1>7, <1>8

\* Putting back what was taken off.
LEMMA AppendToFront ==
  ASSUME NEW S, NEW s \in Seq(S), s # <<>>
  PROVE  Append(Outer(s), s[Len(s)]) = s
<1> DEFINE n == Len(s)
           r == SubSeq(s, 1, n - 1)
           u == Append(r, s[n])
<1>1. n \in Nat /\ n > 0 /\ \A i \in 1 .. n : s[i] \in S
  BY LenProperties, EmptySeq, ElementOfSeq
<1>2. r \in Seq(S) /\ Len(r) = n - 1 /\ \A i \in 1 .. n - 1 : r[i] = s[i]
  <2>1. \A i \in 1 .. n - 1 : s[i] \in S
    BY <1>1
  <2> HIDE DEF n
  <2> QED
    BY <1>1, <2>1, SubSeqProperties
<1> HIDE DEF n, r
<1>3. s[n] \in S
  BY <1>1
<1>4. u \in Seq(S) /\ Len(u) = n /\ u[n] = s[n] /\ \A i \in 1 .. n - 1 : u[i] = r[i]
  BY <1>1, <1>2, <1>3, AppendProperties
<1> HIDE DEF u
<1>5. \A i \in 1 .. n : u[i] = s[i]
  <2>1. \A i \in 1 .. n : i \in 1 .. n - 1 \/ i = n
    BY <1>1
  <2> QED
    BY <1>2, <1>4, <2>1
<1>6. u = s
  BY <1>1, <1>4, <1>5, SeqEqual DEF n
<1> QED
  BY <1>6 DEF Outer, u, r, n

\* Where the search starts on the mapped stack, and that the methods on the way
\* to the frame the unwinder finds, or to the end, are in no begin statement.
LEMMA OnTheWay ==
  ASSUME Inv, RescueInv, unwinder.phase # "idle", NEW k \in 0 .. depth,
         \A i \in k + 1 .. depth : ~HasPad(frames[i]), k > 0 => HasPad(frames[k])
  PROVE  settled = Unwound(asStack, k, unwinder.excep)
<1> DEFINE n == IF top.site = 0 THEN depth - 1 ELSE depth
           e == unwinder.excep
<1>1. /\ depth \in Nat \ {0} /\ depth = Len(frames) /\ frames \in Seq(Frame) /\ status = "runs"
      /\ \A i \in 1 .. depth : frames[i] \in Frame
  BY LenProperties, ElementOfSeq DEF Inv, TypeInv, depth
<1>2. settled = Unwound(asStack, n, e) /\ e \in Exceptions
  BY <1>1, SettledIs DEF RescueInv
<1>3. /\ \A i \in 1 .. depth : asStack[i] = Entry(frames[i], unwinder.phase)
      /\ \A i \in 1 .. depth : asStack[i].nest = frames[i].nest
  <2>1. \A i \in 1 .. depth : asStack[i] = Entry(frames[i], unwinder.phase)
    BY Stack
  <2>2. \A f, p : p # "idle" => Entry(f, p).nest = f.nest
    BY DEF Entry
  <2> QED
    BY <2>1, <2>2
<1>4. n \in Nat /\ n <= depth /\ k <= n
  <2>1. CASE top.site = 0
    <3>1. ~HasPad(top)
      BY <2>1 DEF HasPad
    <3>2. k # depth
      BY <1>1, <3>1 DEF top
    <3> QED
      BY <1>1, <2>1, <3>2
  <2>2. CASE top.site # 0
    BY <1>1, <2>2
  <2> QED
    BY <2>1, <2>2
<1> HIDE DEF e
<1>5. ASSUME NEW i \in k + 1 .. n PROVE asStack[i].nest = <<>>
  <2>1. i \in 1 .. depth /\ ~HasPad(frames[i]) /\ frames[i] \in Frame
    BY <1>1, <1>4
  <2>2. frames[i].nest \in Seq(Begins) /\ Len(frames[i].nest) \in Nat
    BY <2>1, LenProperties DEF Frame
  <2>3. frames[i].site = Len(frames[i].nest)
    <3>1. CASE i = depth
      <4>1. top.site # 0
        BY <1>1, <3>1
      <4> QED
        BY <3>1, <4>1 DEF Inv, SitesInnermost, top
    <3>2. CASE i # depth
      <4>1. i \in 1 .. depth - 1
        BY <1>1, <2>1, <3>2
      <4> QED
        BY <4>1 DEF Inv, SitesInnermost
    <3> QED
      BY <3>1, <3>2
  <2>4. Len(frames[i].nest) = 0
    BY <2>1, <2>2, <2>3 DEF HasPad
  <2>5. frames[i].nest = <<>>
    BY <2>2, <2>4, EmptySeq
  <2> QED
    BY <1>3, <2>1, <2>5
<1> HIDE DEF n
<1>6. k \in 0 .. n
  BY <1>4
<1>7. Unwound(asStack, n, e) = Unwound(asStack, k, e)
  BY <1>2, <1>4, <1>5, <1>6, UnwoundPasses
<1> QED
  BY <1>2, <1>7 DEF e

\* The process is aborted where Rescue finds nobody who catches the exception.
LEMMA EndOfStackStutters ==
  ASSUME Inv, RescueInv, EndOfStack PROVE settled' = settled
<1>1. unwinder.phase = "search" /\ unwinder.cursor = 0 /\ depth \in Nat
  BY LenProperties DEF EndOfStack, Inv, TypeInv, depth
<1>2. status' # "runs"
  BY Unwinding DEF Callers
<1>3. \A i \in 0 + 1 .. depth : ~HasPad(frames[i])
  BY <1>1 DEF Inv, CursorInv
<1>4. settled = Unwound(asStack, 0, unwinder.excep)
  <2>1. 0 \in 0 .. depth
    BY <1>1
  <2> QED
    BY <1>1, <1>3, <2>1, OnTheWay
<1>5. unwinder.excep \in Exceptions
  BY <1>1 DEF RescueInv
<1> QED
  BY <1>2, <1>4, <1>5, SettledNew, UnwoundEmpty

\* The unwinder's steps from frame to frame.
LEMMA PhasesStutter ==
  ASSUME Inv, RescueInv, SearchFrame \/ CleanupFrame PROVE settled' = settled
<1>1. /\ frames' = frames /\ status' = status /\ unwinder.phase # "idle" /\ unwinder'.phase # "idle"
      /\ unwinder'.excep = unwinder.excep
  BY Unwinding DEF SearchFrame, CleanupFrame
<1>2. depth' = depth /\ top' = top
  BY <1>1 DEF top, depth
<1>3. asStack' = asStack
  BY <1>1 DEF asStack
<1>4. status = "runs"
  BY <1>1 DEF Inv, TypeInv
<1> QED
  BY <1>1, <1>2, <1>3, <1>4, SettledIs, SettledNew

\* The landing pad that is entered is on the way of the exception, and no
\* method that could have caught it is taken off the stack.
LEMMA InstallContextStutters ==
  ASSUME Inv, RescueInv, InstallContext PROVE settled' = settled
<1> DEFINE k == unwinder.cursor
           e == unwinder.excep
           nest == frames[k].nest
           b == nest[Len(nest)]
<1>1. /\ k \in 1 .. depth /\ k = unwinder.handler
      /\ HasPad(frames[k]) /\ frames[k].site = Len(nest)
      /\ frames' \in Seq(Frame) /\ depth' = k
      /\ \A i \in 1 .. k - 1 : frames'[i] = frames[i]
      /\ b \in Begins
      /\ frames'[k].nest = SubSeq(nest, 1, Len(nest) - 1)
      /\ frames'[k].at = "tests" /\ frames'[k].begin = b
      /\ frames'[k].pos = <<1, 1>> /\ frames'[k].excep = e
  BY Installed
<1>2. /\ unwinder.phase = "cleanup" /\ unwinder' = Idle /\ status' = status
      /\ e \in Exceptions /\ status = "runs"
  BY DEF InstallContext, RescueInv, Inv, TypeInv
<1>3. depth \in Nat /\ frames[k] \in Frame /\ \A i \in 1 .. depth : frames[i] \in Frame
  BY <1>1, LenProperties, ElementOfSeq DEF Inv, TypeInv, depth
<1>4. \A i \in k + 1 .. depth : ~HasPad(frames[i])
  BY <1>1, <1>2 DEF Inv, CursorInv
<1>5. settled = Unwound(asStack, k, e)
  <2>1. k \in 0 .. depth
    BY <1>1
  <2> HIDE DEF k
  <2> QED
    BY <1>1, <1>2, <1>4, <2>1, OnTheWay
<1>6. settled' = Unwound(asStack', k, e)
  <2>1. Executing' /\ top' = frames'[k]
    BY <1>1, <1>2 DEF Executing, Idle, top, depth
  <2> QED
    BY <1>1, <2>1, SettledNew
<1>7. nest \in Seq(Begins) /\ nest # <<>>
  <2>1. nest \in Seq(Begins)
    BY <1>3 DEF Frame
  <2>2. 1 .. Len(nest) # {}
    BY <1>1 DEF HasPad
  <2> HIDE DEF nest
  <2>3. nest # <<>>
    BY <2>2
  <2> QED
    BY <2>1, <2>3
<1>8. Append(SubSeq(nest, 1, Len(nest) - 1), b) = nest
  BY <1>7, AppendToFront DEF Outer
<1> HIDE DEF b, nest
<1>9. asStack'[k].nest = asStack[k].nest
  <2>1. asStack'[k] = Entry(frames'[k], "idle")
    <3>1. k \in 1 .. depth'
      BY <1>1
    <3>2. unwinder'.phase = "idle"
      BY <1>2 DEF Idle
    <3> QED
      BY <1>1, <3>1, <3>2, NewStack
  <2>2. asStack[k] = Entry(frames[k], "cleanup")
    BY <1>1, <1>2, Stack
  <2>3. Entry(frames[k], "cleanup").nest = nest
    BY DEF Entry, nest
  <2>4. Entry(frames'[k], "idle").nest = Append(SubSeq(nest, 1, Len(nest) - 1), b)
    BY <1>1 DEF Entry
  <2> QED
    BY <1>8, <2>1, <2>2, <2>3, <2>4
<1>10. ASSUME NEW i \in 1 .. k - 1 PROVE asStack'[i] = asStack[i]
  <2>1. i \in 1 .. depth /\ i \in 1 .. depth' /\ i \in 1 .. depth - 1
    BY <1>1, <1>3
  <2>2. asStack'[i] = Entry(frames'[i], "idle")
    <3>1. unwinder'.phase = "idle"
      BY <1>2 DEF Idle
    <3> QED
      BY <1>1, <2>1, <3>1, NewStack
  <2>3. asStack[i] = Entry(frames[i], "cleanup")
    BY <1>2, <2>1, Stack
  <2>4. Entry(frames[i], "idle") = Entry(frames[i], "cleanup")
    <3>1. frames[i].at \in {"body", "rescue"} /\ frames[i] \in Frame /\ 0 \in Nat
      BY <1>3, <2>1 DEF RescueInv
    <3> QED
      BY <3>1, EntryOf
  <2> QED
    BY <1>1, <2>2, <2>3, <2>4
<1>11. Unwound(asStack', k, e) = Unwound(asStack, k, e)
  <2>1. k \in Nat
    BY <1>1
  <2> HIDE DEF k, e
  <2> QED
    BY <1>2, <1>9, <1>10, <2>1, UnwoundSame
<1> QED
  BY <1>5, <1>6, <1>11

\* Every step of the program is a step of Rescue, and every step of the unwinder
\* or a landing pad leaves the mapped stack as it is.
LEMMA RescueStep == Inv /\ RescueInv /\ [Next]_vars => [Abstract!Next]_settled
<1> SUFFICES ASSUME Inv, RescueInv, [Next]_vars PROVE Simulated \/ settled' = settled
  BY DEF Simulated, Abstract!Next
<1>1. CASE UNCHANGED vars
  BY <1>1 DEF vars, settled, asStack, top, depth
<1>2. CASE Program
  BY <1>2, BeginSimulates, EndBeginSimulates, EndRescueSimulates, InvokeSimulates,
     ReturnSimulates, RaiseInMethodSimulates, RaiseInBuiltinSimulates DEF Program
<1>3. CASE Propagate
  BY <1>3, PhasesStutter, EndOfStackStutters, InstallContextStutters, TestRaisesStutters,
     TestMatchesStutters, TestFailsStutters, RethrowStutters DEF Propagate
<1> QED
  BY <1>1, <1>2, <1>3 DEF Next

\* The program starts with one method that is in nothing.
LEMMA RescueInit == Init => RescueInv /\ Abstract!Init
<1> SUFFICES ASSUME Init PROVE RescueInv /\ Abstract!Init
  OBVIOUS
<1>1. frames = <<Body>> /\ unwinder = Idle /\ status = "runs"
  BY DEF Init
<1>2. depth = 1 /\ frames[1] = Body /\ top = Body /\ DOMAIN frames = 1 .. 1
  BY <1>1 DEF depth, top
<1>3. RescueInv
  <2>1. Searched(Body) /\ unwinder.phase = "idle"
    BY <1>1 DEF Searched, Body, Idle
  <2> QED
    BY <1>2, <2>1 DEF RescueInv
<1>4. settled = asStack
  BY <1>1, <1>2, SettledIs DEF Executing, Idle, Body
<1>5. asStack = <<[nest |-> <<>>, rescue |-> NotRescuing]>>
  <2>1. Entry(Body, "idle") = [nest |-> <<>>, rescue |-> NotRescuing]
    BY DEF Entry, Body
  <2>2. asStack = [i \in 1 .. 1 |-> Entry(Body, "idle")]
    BY <1>1, <1>2, StackEntries DEF Idle
  <2> QED
    BY <2>1, <2>2
<1> QED
  BY <1>3, <1>4, <1>5, SameRules DEF Abstract!Init

\* The landing pads, the two phases of the unwinder, the type tests and the
\* rethrows implement the one step of Rescue: the exception reaches the first
\* clause that matches it of the innermost begin statement of the nearest
\* caller, or the process ends, for any program and any stack.
THEOREM UnwindImplementsRescue == Spec => ImplementsRescue
<1>1. Init => Inv /\ RescueInv /\ Abstract!Init
  BY InitInv, RescueInit
<1>2. Inv /\ RescueInv /\ [Next]_vars => RescueInv'
  BY RescueInvStep
<1>3. Inv /\ RescueInv /\ [Next]_vars => [Abstract!Next]_settled
  BY RescueStep
<1> QED
  BY InvHolds, <1>1, <1>2, <1>3, PTL DEF Spec, ImplementsRescue, Abstract!Spec
=============================================================================
