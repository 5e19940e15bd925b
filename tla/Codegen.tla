------------------------------ MODULE Codegen -------------------------------
(***************************************************************************)
(* The control flow that ast_codegen.rb and codegen_context.rb build: the   *)
(* basic blocks of every function, where the builder stands, which landing  *)
(* pad a call unwinds to.  The generator walks the program's tree; here the *)
(* program is not given but chosen on the way: wherever the walk is at a    *)
(* list of statements any statement may come next, and wherever it is at an *)
(* expression any expression.  Instructions are not told apart, only        *)
(* whether they come after their block's terminator.                        *)
(***************************************************************************)
EXTENDS Naturals, Sequences

CONSTANTS
  Locals,     \* the names of local variables
  MaxBlocks,  \* bound: basic blocks of the program's functions
  MaxMethods, \* bound: def statements
  MaxDepth    \* bound: statements inside each other

ASSUME BoundsAssumption ==
  MaxBlocks \in Nat /\ MaxMethods \in Nat /\ MaxDepth \in Nat

VARIABLES
  blocks,     \* the blocks of all functions, in the order they are appended
  builder,    \* insert block of @build and of the builders it stands in for
  methods,    \* @current_method and the methods around it
  serial,     \* @serial: methods so far
  landingpad, \* @landingpad, NoBlock where eh_active? is false
  open,       \* the statements being generated, outermost first
  status,     \* "unit", then "main" (build_real_main_fn), "done" or "failed"
  causes,     \* history: per function, what has broken it
  calls       \* history: the calls written in the body of a begin statement

vars == <<blocks, builder, methods, serial, landingpad, open, status, causes, calls>>

NoBlock  == 0
PupMain  == 0               \* pup_main(); the i-th def is function i
CMain    == MaxMethods + 1  \* main()
Fns      == PupMain..CMain

-----------------------------------------------------------------------------
(* Blocks.                                                                 *)

\* function.basic_blocks.append: an empty block.
NewBlock(fn) ==
  [fn |-> fn, closed |-> FALSE, late |-> FALSE, to |-> {}, polls |-> FALSE,
   pad |-> FALSE]

\* A builder at the end of block b adds an instruction.
Instr(bs, b) == [bs EXCEPT ![b].late = @ \/ bs[b].closed]

\* Builders at the ends of the blocks in DOMAIN to add terminators with these
\* successors.
TermAll(bs, to) ==
  [b \in DOMAIN bs |->
     IF b \in DOMAIN to
     THEN [bs[b] EXCEPT !.late = @ \/ bs[b].closed, !.closed = TRUE, !.to = @ \cup to[b]]
     ELSE bs[b]]

Term(bs, b, to) == TermAll(bs, [x \in {b} |-> to])

Method   == methods[Len(methods)]
Cur      == builder[Len(builder)]
Fresh    == Len(blocks) + 1
Room(n)  == Len(blocks) + n <= MaxBlocks
AppendBlocks(bs, n) == bs \o [i \in 1..n |-> NewBlock(Method.fn)]

\* entry_block_builder stands at the end of the function's first block, which
\* for pup_main is a block of its own and for a method its first code block.
Alloca(bs) == Instr(bs, Method.first)

\* with_builder_at_end, its end, and position_at_end on the current builder.
PushBuilder(b) == Append(builder, b)
PopBuilder     == SubSeq(builder, 1, Len(builder) - 1)
Position(b)    == [builder EXCEPT ![Len(builder)] = b]
PopTo(b)       == [PopBuilder EXCEPT ![Len(builder) - 1] = b]

-----------------------------------------------------------------------------
(* Open statements: the kind, the part being generated (hole), the first of *)
(* the statement's blocks (base), and the local variables of BeginStmt and  *)
(* RescueBlock.                                                             *)
Frame(kind, hole, base) ==
  [kind |-> kind, hole |-> hole, base |-> base, last_landingpad |-> landingpad,
   begin_block |-> NoBlock, next_rescue_block |-> NoBlock, bkrescue |-> NoBlock,
   rescue_impls |-> {}, type_tests |-> [b \in {} |-> NoBlock]]

StatementHoles ==
  {<<"unit", "stmts">>, <<"if", "then">>, <<"if", "else">>, <<"while", "body">>,
   <<"begin", "body">>, <<"begin", "clause">>, <<"def", "body">>, <<"class", "body">>}
ExpressionHoles == {<<"if", "cond">>, <<"while", "cond">>, <<"begin", "type">>}

Top            == open[Len(open)]
At(kind, hole) == status = "unit" /\ Top.kind = kind /\ Top.hole = hole
InHole(hole)   == [open EXCEPT ![Len(open)].hole = hole]
Opened(kind, hole, base) == Append(open, Frame(kind, hole, base))
Closed         == SubSeq(open, 1, Len(open) - 1)

AtStatement ==
  /\ status = "unit"
  /\ <<Top.kind, Top.hole>> \in StatementHoles
  /\ Len(open) <= MaxDepth
AtExpression ==
  /\ status = "unit"
  /\ <<Top.kind, Top.hole>> \in StatementHoles \cup ExpressionHoles

-----------------------------------------------------------------------------
(* History.                                                                *)

\* The generated code leaves block b; left says that it left a method's first.
Leaving(b) == [methods EXCEPT ![Len(methods)].left = @ \/ b = Method.first]

\* After that there is no place for an alloca in the method.
AllocaCause == IF Method.left THEN {"alloca"} ELSE {}

Blame(what) == causes' = [causes EXCEPT ![Method.fn] = @ \cup what]

\* The landing pad of the innermost begin statement in whose body, inside the
\* current function, the walk is by the nesting of the program.
EnclosingBegins ==
  {i \in 1..Len(open) :
     /\ open[i].kind = "begin" /\ open[i].hole = "body"
     /\ \A j \in i..Len(open) : open[j].kind # "def"}
WrittenIn ==
  IF EnclosingBegins = {} THEN NoBlock
  ELSE open[CHOOSE i \in EnclosingBegins : \A j \in EnclosingBegins : j <= i].base

-----------------------------------------------------------------------------
\* pup_main(): an entry block for allocas alone and a block for the program.
Init ==
  /\ blocks = <<NewBlock(PupMain), NewBlock(PupMain)>>
  /\ builder = <<2>>
  /\ methods = <<[fn |-> PupMain, first |-> 1, locals |-> {}, left |-> FALSE]>>
  /\ serial = 0
  /\ landingpad = NoBlock
  /\ open = <<[kind |-> "unit", hole |-> "stmts", base |-> 2, last_landingpad |-> NoBlock,
               begin_block |-> NoBlock, next_rescue_block |-> NoBlock,
               bkrescue |-> NoBlock, rescue_impls |-> {},
               type_tests |-> [b \in {} |-> NoBlock]]>>
  /\ status = "unit"
  /\ causes = [f \in Fns |-> {}]
  /\ calls = {}

-----------------------------------------------------------------------------
(* Expressions.                                                            *)

\* Literals, constants, instance variables and loads of locals.
Simple ==
  /\ AtExpression
  /\ blocks' = Instr(blocks, Cur)
  /\ UNCHANGED <<builder, methods, serial, landingpad, open, status, causes, calls>>

\* get_or_create_local() for the names xs, at most one of which is new: the
\* first use of a name in a method allocates its slot.
NeedsSlot(xs)      == ~(xs \subseteq Method.locals)
CreateLocal(bs, xs) == IF NeedsSlot(xs) THEN Alloca(bs) ELSE bs
LocalCause(xs)     == IF NeedsSlot(xs) THEN AllocaCause ELSE {}
WithLocals(xs)     == [methods EXCEPT ![Len(methods)].locals = @ \cup xs]

\* AssignExpr#codegen_local: the slot first, the store last.
AssignLocal(x) ==
  /\ AtExpression
  /\ blocks' = Instr(CreateLocal(blocks, {x}), Cur)
  /\ methods' = WithLocals({x})
  /\ Blame(LocalCause({x}))
  /\ UNCHANGED <<builder, serial, landingpad, open, status, calls>>

\* build_method_invocation(): arguments are passed in an array in the frame.
PassArgs(bs, hasArgs) == Instr(IF hasArgs THEN Alloca(bs) ELSE bs, Cur)
ArgsCause(hasArgs)    == IF hasArgs THEN AllocaCause ELSE {}
RecordCall ==
  calls' = calls \cup (IF WrittenIn = NoBlock THEN {} ELSE {[block |-> Cur, pad |-> WrittenIn]})

\* Where no landing pad is active, a plain call ...
Call(hasArgs) ==
  /\ AtExpression
  /\ landingpad = NoBlock
  /\ blocks' = PassArgs(blocks, hasArgs)
  /\ Blame(ArgsCause(hasArgs))
  /\ RecordCall
  /\ UNCHANGED <<builder, methods, serial, landingpad, open, status>>

\* ... otherwise an invoke, which ends the block.
Invoke(hasArgs) ==
  /\ AtExpression
  /\ landingpad # NoBlock
  /\ Room(1)
  /\ blocks' = AppendBlocks(Term(PassArgs(blocks, hasArgs), Cur, {Fresh, landingpad}), 1)
  /\ builder' = Position(Fresh)
  /\ methods' = Leaving(Cur)
  /\ Blame(ArgsCause(hasArgs) \cup (IF WrittenIn = NoBlock THEN {"pad"} ELSE {}))
  /\ RecordCall
  /\ UNCHANGED <<serial, landingpad, open, status>>

-----------------------------------------------------------------------------
(* if and while.  The first block they append is the one with the test.    *)

\* A slot for the value, n blocks, and a branch to the first of them.
OpenTest(kind, n) ==
  /\ AtStatement
  /\ Room(n)
  /\ blocks' = AppendBlocks(Term(Alloca(blocks), Cur, {Fresh}), n)
  /\ builder' = PushBuilder(Fresh)
  /\ open' = Opened(kind, "cond", Fresh)
  /\ methods' = Leaving(Cur)
  /\ Blame(AllocaCause)
  /\ UNCHANGED <<serial, landingpad, status, calls>>

\* The code in the hole is complete: a last instruction, a branch to the blocks
\* in to, and the next part of the statement is generated into block b.
NextPart(kind, hole, to, b, nextHole) ==
  /\ At(kind, hole)
  /\ blocks' = Term(Instr(blocks, Cur), Cur, to)
  /\ builder' = Position(b)
  /\ open' = InHole(nextHole)
  /\ UNCHANGED <<methods, serial, landingpad, status, causes, calls>>

\* IfStmt: the blocks cond, then, else and ifcontinue.
BkThen     == Top.base + 1
BkElse     == Top.base + 2
BkContinue == Top.base + 3

IfTargets  == {BkElse, BkThen}

OpenIf == OpenTest("if", 4)
IfCond == NextPart("if", "cond", IfTargets, BkThen, "then")
IfThen == NextPart("if", "then", {BkContinue}, BkElse, "else")

\* Without an else branch the generator raises.
IfThenWithoutElse ==
  /\ At("if", "then")
  /\ status' = "failed"
  /\ UNCHANGED <<blocks, builder, methods, serial, landingpad, open, causes, calls>>

IfElse ==
  /\ At("if", "else")
  /\ blocks' = Instr(Term(Instr(blocks, Cur), Cur, {BkContinue}), BkContinue)
  /\ builder' = PopTo(BkContinue)
  /\ open' = Closed
  /\ UNCHANGED <<methods, serial, landingpad, status, causes, calls>>

\* WhileStmt: the blocks while_cond, while_body and while_continue.
BkBody  == Top.base + 1
BkAfter == Top.base + 2

OpenWhile == OpenTest("while", 3)
WhileCond == NextPart("while", "cond", {BkAfter, BkBody}, BkBody, "body")

\* Negative control: the loop polls only once it has ended.
PollBlock_AfterLoop == BkAfter

\* The block that calls pup_env_safepoint(): the last one of the body.
PollBlock == Cur

WhileBody ==
  /\ At("while", "body")
  /\ blocks' = Instr(Term([Instr(blocks, Cur) EXCEPT ![PollBlock].polls = TRUE],
                          Cur, {Top.base}), BkAfter)
  /\ builder' = PopTo(BkAfter)
  /\ open' = Closed
  /\ UNCHANGED <<methods, serial, landingpad, status, causes, calls>>

-----------------------------------------------------------------------------
(* begin and rescue.  The statement's base is its landing pad.             *)

\* BeginStmt: a slot for the value, the landing pad, and eh_begin for the body.
\* Without a rescue clause there is no landing pad and eh_active? is false.
OpenBegin(hasRescue) ==
  /\ AtStatement
  /\ hasRescue => Room(1)
  /\ LET pad == IF hasRescue THEN Fresh ELSE NoBlock
     IN  /\ blocks' = IF hasRescue
                      THEN Append(Alloca(blocks), [NewBlock(Method.fn) EXCEPT !.pad = TRUE])
                      ELSE Alloca(blocks)
         /\ landingpad' = pad
         /\ open' = Opened("begin", "body", pad)
  /\ Blame(AllocaCause)
  /\ UNCHANGED <<builder, methods, serial, status, calls>>

\* Without one the generator fails as it positions a builder in the landing pad.
BeginBodyWithoutRescue ==
  /\ At("begin", "body")
  /\ Top.base = NoBlock
  /\ status' = "failed"
  /\ UNCHANGED <<blocks, builder, methods, serial, landingpad, open, causes, calls>>

\* Negative control: the landing pad stays active after the body.
EhEnd_KeepsPad == landingpad

\* The end of eh_begin.
EhEnd == Top.last_landingpad

\* The body's last block is remembered, and the landing pad is filled next.
BeginBody ==
  /\ At("begin", "body")
  /\ Top.base # NoBlock
  /\ blocks' = Instr(Instr(blocks, Cur), Top.base)
  /\ builder' = PushBuilder(Top.base)
  /\ landingpad' = EhEnd
  /\ open' = [open EXCEPT ![Len(open)].hole = "clauses", ![Len(open)].begin_block = Cur]
  /\ UNCHANGED <<methods, serial, status, causes, calls>>

\* RescueBlock: a type expression, for a new clause or one more for this one ...
RescueType ==
  /\ At("begin", "clauses") \/ At("begin", "tested")
  /\ Room(3)
  /\ open' = InHole("type")
  /\ UNCHANGED <<blocks, builder, methods, serial, landingpad, status, causes, calls>>

\* ... then the test, whose branch waits until the clause has a block.
TypeTest ==
  /\ At("begin", "type")
  /\ Room(1)
  /\ blocks' = AppendBlocks(Instr(blocks, Cur), 1)
  /\ builder' = Position(Fresh)
  /\ open' = [open EXCEPT
       ![Len(open)].hole = "tested",
       ![Len(open)].type_tests = [b \in DOMAIN @ \cup {Cur} |-> IF b = Cur THEN Fresh ELSE @[b]]]
  /\ UNCHANGED <<methods, serial, landingpad, status, causes, calls>>

\* All tests branch to the clause's block; the clause's code starts there, with
\* a store of the exception if the clause names it (xs: at most one name).
RescueClause(xs) ==
  /\ At("begin", "tested")
  /\ Room(1)
  /\ LET bs == AppendBlocks(TermAll(blocks, [b \in DOMAIN Top.type_tests |->
                                               {Fresh, Top.type_tests[b]}]), 1)
     IN  blocks' = CreateLocal(bs, xs)
  /\ builder' = Position(Fresh)
  /\ open' = [open EXCEPT ![Len(open)].hole = "clause",
                          ![Len(open)].next_rescue_block = Cur,
                          ![Len(open)].bkrescue = Fresh,
                          ![Len(open)].rescue_impls = @ \cup {Fresh}]
  /\ methods' = WithLocals(xs)
  /\ Blame(LocalCause(xs))
  /\ UNCHANGED <<serial, landingpad, status, calls>>

\* The clause's value is stored; the next clause goes on where no type matched.
RescueClauseEnd ==
  /\ At("begin", "clause")
  /\ blocks' = Instr(blocks, Cur)
  /\ builder' = Position(Top.next_rescue_block)
  /\ open' = [open EXCEPT ![Len(open)].hole = "clauses",
                          ![Len(open)].type_tests = [b \in {} |-> NoBlock]]
  /\ Blame(IF Cur = Top.bkrescue THEN {} ELSE {"clause"})
  /\ UNCHANGED <<methods, serial, landingpad, status, calls>>

\* Negative control: the clauses do not branch to bkout.
BranchOut_BodyOnly == {Top.begin_block}

\* The blocks that branch to bkout: the first one of every clause and the last
\* one of the body.
BranchOut == Top.rescue_impls \cup {Top.begin_block}

\* Rethrow and return at the end of the landing pad, then bkout.
BeginEnd ==
  /\ At("begin", "clauses")
  /\ Top.rescue_impls # {}
  /\ Room(1)
  /\ LET bs == AppendBlocks(Term(Instr(blocks, Cur), Cur, {}), 1)
     IN  blocks' = Instr(TermAll(bs, [b \in BranchOut |-> {Fresh}]), Fresh)
  /\ builder' = PopTo(Fresh)
  /\ open' = Closed
  /\ methods' = Leaving(Top.begin_block)
  /\ UNCHANGED <<serial, landingpad, status, causes, calls>>

-----------------------------------------------------------------------------
(* class, def and the two main functions.                                  *)

\* ClassDef: calls that make the class, then the body in the same function.
OpenClass ==
  /\ AtStatement
  /\ blocks' = Instr(blocks, Cur)
  /\ open' = Opened("class", "body", NoBlock)
  /\ UNCHANGED <<builder, methods, serial, landingpad, status, causes, calls>>

\* A superclass or an empty body: the generator raises.
ClassNotImplemented ==
  /\ AtStatement
  /\ status' = "failed"
  /\ UNCHANGED <<blocks, builder, methods, serial, landingpad, open, causes, calls>>

CloseClass ==
  /\ At("class", "body")
  /\ open' = Closed
  /\ UNCHANGED <<blocks, builder, methods, serial, landingpad, status, causes, calls>>

\* MethodDef: a function whose first block is also its first code block, with a
\* slot for each parameter (xs: at most one).  @landingpad is not touched.
OpenDef(xs) ==
  /\ AtStatement
  /\ Room(1)
  /\ serial < MaxMethods
  /\ serial' = serial + 1
  /\ methods' = Append(methods, [fn |-> serial + 1, first |-> Fresh, locals |-> xs, left |-> FALSE])
  /\ blocks' = Append(blocks, NewBlock(serial + 1))
  /\ builder' = PushBuilder(Fresh)
  /\ open' = Opened("def", "body", Fresh)
  /\ UNCHANGED <<landingpad, status, causes, calls>>

\* The function returns; the definition itself is a call in the code around it.
CloseDef ==
  /\ At("def", "body")
  /\ blocks' = Instr(Term(blocks, Cur, {}), builder[Len(builder) - 1])
  /\ builder' = PopBuilder
  /\ methods' = SubSeq(methods, 1, Len(methods) - 1)
  /\ open' = Closed
  /\ UNCHANGED <<serial, landingpad, status, causes, calls>>

\* Unit: pup_main() returns, and its entry block branches to its body.
CloseUnit ==
  /\ At("unit", "stmts")
  /\ blocks' = Term(Term(blocks, Cur, {}), Method.first, {Top.base})
  /\ builder' = <<>>
  /\ methods' = <<>>
  /\ open' = <<>>
  /\ status' = "main"
  /\ UNCHANGED <<serial, landingpad, causes, calls>>

\* build_real_main_fn(): the blocks entry, catch and exit of main().
BuildMain ==
  /\ status = "main"
  /\ LET entry == Fresh  catch == Fresh + 1  exit == Fresh + 2
         bs == blocks \o [i \in 1..3 |-> NewBlock(CMain)]
     IN  blocks' = TermAll(bs, [b \in {entry, catch, exit} |->
           CASE b = entry -> {exit, catch}
             [] b = catch -> {exit}
             [] b = exit  -> {}])
  /\ status' = "done"
  /\ UNCHANGED <<builder, methods, serial, landingpad, open, causes, calls>>

-----------------------------------------------------------------------------
OneName == {{}} \cup {{x} : x \in Locals}

Expression ==
  \/ Simple
  \/ \E x \in Locals : AssignLocal(x)
  \/ \E hasArgs \in BOOLEAN : Call(hasArgs) \/ Invoke(hasArgs)

Begin ==
  \/ \E hasRescue \in BOOLEAN : OpenBegin(hasRescue)
  \/ BeginBodyWithoutRescue \/ BeginBody \/ RescueType \/ TypeTest
  \/ \E xs \in OneName : RescueClause(xs)
  \/ RescueClauseEnd \/ BeginEnd

Next ==
  \/ Expression \/ Begin
  \/ OpenIf \/ IfCond \/ IfThen \/ IfThenWithoutElse \/ IfElse
  \/ OpenWhile \/ WhileCond \/ WhileBody
  \/ OpenClass \/ ClassNotImplemented \/ CloseClass
  \/ \E xs \in OneName : OpenDef(xs)
  \/ CloseDef \/ CloseUnit \/ BuildMain

Spec == Init /\ [][Next]_vars

-----------------------------------------------------------------------------
(* Properties.                                                             *)

Blocks == 1..Len(blocks)
BlocksOf(f) == {b \in Blocks : blocks[b].fn = f}

\* Functions whose code is complete.
Complete == {f \in Fns : BlocksOf(f) # {} /\ \A i \in 1..Len(methods) : methods[i].fn # f}

\* Every block ends in its only terminator, and branches inside its function.
WellFormed(f) ==
  \A b \in BlocksOf(f) :
    /\ blocks[b].closed
    /\ ~blocks[b].late
    /\ blocks[b].to \subseteq BlocksOf(f)

\* Which programs compile to well-formed code.  A function is broken exactly if
\* a method needs a slot (a new local, an if, while or begin, a call with
\* arguments) after its code has left its first block; or the code of a rescue
\* clause does not end in the block it began in; or a call is outside every
\* begin of its method, but the def is inside the body of one.
BrokenExactlyBy ==
  \A f \in Complete : WellFormed(f) <=> causes[f] = {}

\* A call in the body of a begin statement unwinds to that statement's landing
\* pad: not to one around it, and not to one that a rescue clause or a finished
\* statement has left active.
CallsUnwindToTheirBegin ==
  \A c \in calls : c.pad \in blocks[c.block].to

\* No loop without a safepoint: every set of blocks that do not poll has one that
\* branches to none of the set, so generated code cannot run on for ever without a
\* call of pup_env_safepoint(), which the collector waits for.
LoopsPoll ==
  status = "done" =>
    \A S \in SUBSET {b \in Blocks : ~blocks[b].polls} :
      S # {} => \E b \in S : blocks[b].to \cap S = {}
=============================================================================
